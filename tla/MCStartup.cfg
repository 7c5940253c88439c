\* Every earlier version of the schema, legacy files with and without children
\* of providers, one crash and one failing statement at any point.
SPECIFICATION FairSpec
CONSTANTS
    Tables <- AllTables
    Tracking = "_migrations"
    ByName <- AllByName
    Parents <- ForeignKeys
    Migrations <- UpFiles
    RoutingTables = {"providers", "provider_endpoints", "provider_models", "model_aliases"}
    LegacyFiles <- Legacies
    Targets <- OldTargets
    Enforcing = {TRUE, FALSE}
    NoFile = NoFile
    MaxCrashes = 1
    MaxErrors = 1
INVARIANTS NothingLost SchemaWhole AppliedOnce
PROPERTY EventuallyServes
CHECK_DEADLOCK FALSE
