\* A legacy file of this version with a provider and its models; no faults.
SPECIFICATION FairSpec
CONSTANTS
    Tables <- AllTables
    Tracking = "_migrations"
    ByName <- AllByName
    Parents <- ForeignKeys
    Migrations <- UpFiles
    RoutingTables = {"providers", "provider_endpoints", "provider_models", "model_aliases"}
    LegacyFiles <- LegacyInUse
    Targets <- FreshTarget
    Enforcing = {TRUE}
    NoFile = NoFile
    MaxCrashes = 0
    MaxErrors = 0
PROPERTY EventuallyMigrated
CHECK_DEADLOCK FALSE
