------------------------------ MODULE Startup ------------------------------
(***************************************************************************)
(* What happens between the start of the process and the first request: the *)
(* copy of a legacy SQLite file into an empty target (migrateLegacySQLite), *)
(* the schema migrations (runMigrationsWithLog), and the first load of the  *)
(* routing catalog, without which main exits.  The database survives a      *)
(* crash, everything else is lost with the process; whoever supervises the  *)
(* process starts it again.                                                 *)
(*                                                                         *)
(* A database is a record: its tables, for each table the migrations whose  *)
(* columns it has and how many rows of the legacy file it holds, the        *)
(* migrations whose indexes it has, and those its tracking table lists.     *)
(***************************************************************************)
EXTENDS Integers, Sequences, FiniteSets

CONSTANTS
    Tables,         \* every table of the schema, the tracking table included
    Tracking,       \* the table _migrations
    ByName,         \* the tables in the order of their names
    Parents,        \* Parents[t]: the tables the foreign keys of t refer to
    Migrations,     \* the up files in order: [creates, alters, touches, indexes]
    RoutingTables,  \* the tables LoadRoutingData reads
    LegacyFiles,    \* the databases LEGACY_DB_PATH may name
    Targets,        \* the databases DB_PATH may name
    Enforcing,      \* whether the target checks foreign keys: a set of BOOLEANs
    NoFile,         \* there is no legacy file, or the driver is sqlite
    MaxCrashes,     \* bound on crashes
    MaxErrors       \* bound on failures of a statement

Versions == 1 .. Len(Migrations)

Databases == [tables: SUBSET Tables, cols: [Tables -> SUBSET Versions],
              rows: [Tables -> Nat], indexed: SUBSET Versions, recorded: SUBSET Versions]

\* The migrations that create indexes.
Indexing == {k \in Versions : Migrations[k].indexes}

\* A table has the columns its creation gave it, and what is recorded as
\* applied was applied, its indexes included.
Consistent(d) ==
    /\ \A k \in Versions : \A t \in Migrations[k].creates \intersect d.tables : k \in d.cols[t]
    /\ \A k \in d.recorded : /\ Migrations[k].creates \subseteq d.tables
                             /\ \A t \in Migrations[k].alters : t \in d.tables /\ k \in d.cols[t]
    /\ d.recorded \intersect Indexing \subseteq d.indexed

\* The rows are in tables, those of the tracking table being the first
\* migrations.
Filed(d) ==
    /\ \A t \in Tables \ d.tables : d.rows[t] = 0
    /\ Tracking \notin d.tables => d.recorded = {}
    /\ 1 .. d.rows[Tracking] \subseteq d.recorded

ASSUME StartupAssumption ==
    /\ Tracking \in Tables
    /\ ByName \in Seq(Tables)
    /\ Parents \in [Tables -> SUBSET Tables]
    /\ Migrations \in Seq([creates: SUBSET Tables, alters: SUBSET Tables,
                           touches: SUBSET Tables, indexes: BOOLEAN])
    /\ \A t \in Tables : t # Tracking <=> \E k \in Versions : t \in Migrations[k].creates
    /\ \A j, k \in Versions : Migrations[j].creates \intersect Migrations[k].creates # {} => j = k
    /\ RoutingTables \subseteq Tables
    /\ LegacyFiles \subseteq Databases
    /\ Targets \subseteq Databases
    /\ Enforcing \subseteq BOOLEAN
    /\ NoFile \notin Databases
    /\ MaxCrashes \in Nat
    /\ MaxErrors \in Nat

\* What earlier versions of the program leave behind.
ASSUME LeftBehind ==
    /\ \A d \in Targets \union LegacyFiles : Consistent(d) /\ Filed(d)
    /\ \A d \in LegacyFiles : d.recorded = 1 .. d.rows[Tracking]

VARIABLES
    db,         \* the target database
    legacy,     \* the legacy file, or NoFile
    enforced,   \* the target checks foreign keys
    pc,         \* where the process is; "off": not running
    at,         \* the table being copied, or the migration being looked at
    crashes, errors,
    original,   \* history: the target before the first start
    broken,     \* history: a copy was begun and not finished
    applied     \* history: how often the transaction of a migration committed

vars == <<db, legacy, enforced, pc, at, crashes, errors, original, broken, applied>>

----------------------------------------------------------------------------
(* Statements. *)

\* CREATE TABLE: t comes into being with the columns of the given migrations.
CreateTable(d, t, columns) ==
    [d EXCEPT !.tables = @ \union {t}, !.cols[t] = columns]

\* One INSERT of copyTable: the next row of the legacy table.  A row of the
\* tracking table makes a migration count as applied.
InsertRow(d, t) ==
    [d EXCEPT !.rows[t] = @ + 1,
              !.recorded = IF t = Tracking THEN @ \union {d.rows[t] + 1} ELSE @]

\* SQLite prepares an INSERT into a table with a foreign key only when the
\* table the key refers to exists.
Insertable(d, t) == enforced => Parents[t] \subseteq d.tables

\* Wrong on purpose: the tables are created without IF NOT EXISTS.
RunnableOnce(d, k) ==
    LET m == Migrations[k]
    IN  /\ m.alters \union m.touches \subseteq d.tables \union m.creates
        /\ \A t \in m.alters : k \notin d.cols[t]
        /\ m.creates \intersect d.tables = {}

\* The statements of one up file can all be executed: a table to alter exists
\* and has not got the column yet, a table to update or insert into exists.
Runnable(d, k) ==
    LET m == Migrations[k]
        there == d.tables \union m.creates
    IN  /\ m.alters \union m.touches \subseteq there
        /\ \A t \in m.alters : k \notin d.cols[t]

\* Wrong on purpose: the migration is not recorded in its transaction.
MigratedUnrecorded(d, k) ==
    LET m == Migrations[k]
    IN  [d EXCEPT !.tables = @ \union m.creates,
                  !.cols = [t \in Tables |->
                              IF t \in (m.creates \ d.tables) \union m.alters
                              THEN @[t] \union {k} ELSE @[t]],
                  !.indexed = @ \union ({k} \intersect Indexing)]

\* Their effect, and the record of the migration, in one transaction.
\* CREATE TABLE IF NOT EXISTS leaves a table that exists as it is, and so does
\* CREATE INDEX IF NOT EXISTS.
Migrated(d, k) ==
    LET m == Migrations[k]
        new == m.creates \ d.tables
    IN  [d EXCEPT !.tables = @ \union m.creates,
                  !.cols = [t \in Tables |->
                              IF t \in new \union m.alters THEN @[t] \union {k} ELSE @[t]],
                  !.indexed = @ \union ({k} \intersect Indexing),
                  !.recorded = @ \union {k}]

\* The migrations that give table t columns.
Shapes(t) == {k \in Versions : t \in Migrations[k].creates \union Migrations[k].alters}

\* Table t is what the queries of this version of the program expect.
UpToDate(d, t) == t \in d.tables /\ Shapes(t) \subseteq d.cols[t]

----------------------------------------------------------------------------
Init ==
    /\ db \in Targets
    /\ legacy \in LegacyFiles \union {NoFile}
    /\ enforced \in Enforcing
    /\ pc = "off" /\ at = 1
    /\ crashes = 0 /\ errors = 0
    /\ original = db
    /\ broken = FALSE
    /\ applied = [k \in Versions |-> 0]

\* The process ends with os.Exit(1): openDB or the first Reload failed.
Exit == pc' = "off" /\ at' = 1

\* The copy goes through the tables of the legacy file in the order of
\* listTables: the next one is the first, by name, that is not there yet.
IsNextTable(i) ==
    LET left == legacy.tables \ db.tables
    IN  ByName[i] \in left /\ \A j \in 1 .. i - 1 : ByName[j] \notin left

\* openDB: the copy is tried when there is a legacy file and the target has
\* no tables.
NeedsCopy == legacy # NoFile /\ db.tables = {}

\* The process starts and openDB decides whether to copy.
Boot ==
    /\ pc = "off"
    /\ pc' = IF NeedsCopy THEN "create" ELSE "track"
    /\ at' = 1
    /\ UNCHANGED <<db, legacy, enforced, crashes, errors, original, broken, applied>>

\* copyTable creates the next table; after the last one come the indexes.
CopyCreate ==
    /\ pc = "create"
    /\ \/ \E i \in DOMAIN ByName :
            /\ IsNextTable(i)
            /\ db' = CreateTable(db, ByName[i], legacy.cols[ByName[i]])
            /\ pc' = "rows" /\ at' = i
       \/ /\ legacy.tables \subseteq db.tables
          /\ pc' = "index" /\ at' = 1
          /\ db' = db
    /\ UNCHANGED <<legacy, enforced, crashes, errors, original, broken, applied>>

\* copyTable copies the next row, or there is none left and the next table's
\* turn comes.
CopyRow ==
    /\ pc = "rows"
    /\ LET t == ByName[at]
       IN  \/ /\ db.rows[t] < legacy.rows[t]
              /\ Insertable(db, t)
              /\ db' = InsertRow(db, t)
              /\ pc' = pc
           \/ /\ db.rows[t] = legacy.rows[t]
              /\ pc' = "create"
              /\ db' = db
    /\ UNCHANGED <<legacy, enforced, at, crashes, errors, original, broken, applied>>

\* Wrong on purpose: a row that cannot be inserted is skipped with its table.
CopyRefusedSkipped ==
    /\ pc = "rows"
    /\ LET t == ByName[at]
       IN  db.rows[t] < legacy.rows[t] /\ ~Insertable(db, t)
    /\ pc' = "create"
    /\ UNCHANGED <<db, legacy, enforced, at, crashes, errors, original, broken, applied>>

\* The INSERT is refused for the table it refers to: the copy ends with an
\* error and so does the process, and what was copied stays.
CopyRefused ==
    /\ pc = "rows"
    /\ LET t == ByName[at]
       IN  db.rows[t] < legacy.rows[t] /\ ~Insertable(db, t)
    /\ Exit
    /\ broken' = TRUE
    /\ UNCHANGED <<db, legacy, enforced, crashes, errors, original, applied>>

\* The indexes of the legacy file are created in the target, those of one up
\* file in a step, in any order (they do not depend on one another); after the
\* last one the copy is over.
CopyIndex ==
    /\ pc = "index"
    /\ \/ \E k \in legacy.indexed \ db.indexed :
            /\ db' = [db EXCEPT !.indexed = @ \union {k}]
            /\ pc' = pc
       \/ /\ legacy.indexed \subseteq db.indexed
          /\ pc' = "track"
          /\ db' = db
    /\ UNCHANGED <<legacy, enforced, at, crashes, errors, original, broken, applied>>

\* runMigrationsWithLog: the tracking table is created unless it exists.
EnsureTracking ==
    /\ pc = "track"
    /\ db' = IF Tracking \in db.tables THEN db ELSE CreateTable(db, Tracking, {})
    /\ pc' = "migrate" /\ at' = 1
    /\ UNCHANGED <<legacy, enforced, crashes, errors, original, broken, applied>>

\* One turn of the loop over the up files: skip what is recorded, else run it
\* and record it.
Migrate ==
    /\ pc = "migrate" /\ at <= Len(Migrations)
    /\ \/ at \in db.recorded /\ UNCHANGED <<db, applied>>
       \/ /\ at \notin db.recorded /\ Runnable(db, at)
          /\ db' = Migrated(db, at)
          /\ applied' = [applied EXCEPT ![at] = @ + 1]
    /\ at' = at + 1
    /\ UNCHANGED <<legacy, enforced, pc, crashes, errors, original, broken>>

\* A statement of the up file cannot be executed: rollback, and the process ends.
MigrateRefused ==
    /\ pc = "migrate" /\ at <= Len(Migrations)
    /\ at \notin db.recorded /\ ~Runnable(db, at)
    /\ Exit
    /\ UNCHANGED <<db, legacy, enforced, crashes, errors, original, broken, applied>>

\* Wrong on purpose: the loop over the up files ends one too early.
LoadCatalogEarly ==
    /\ pc = "migrate" /\ at >= Len(Migrations)
    /\ IF \A t \in RoutingTables : UpToDate(db, t)
       THEN pc' = "serving" /\ at' = at
       ELSE Exit
    /\ UNCHANGED <<db, legacy, enforced, crashes, errors, original, broken, applied>>

\* All up files are done; main loads the configuration (a failure is only
\* warned of) and the routing catalog (a failure ends the process).
LoadCatalog ==
    /\ pc = "migrate" /\ at > Len(Migrations)
    /\ IF \A t \in RoutingTables : UpToDate(db, t)
       THEN pc' = "serving" /\ at' = at
       ELSE Exit
    /\ UNCHANGED <<db, legacy, enforced, crashes, errors, original, broken, applied>>

\* The target holds every row of the legacy file, and has its indexes.
HasAll(d) ==
    legacy # NoFile
    => /\ \A t \in legacy.tables : t \in d.tables /\ d.rows[t] = legacy.rows[t]
       /\ legacy.indexed \subseteq d.indexed

\* The copy has put something into the target, so that the next start will not
\* begin it again, and not yet everything.  (Rows that are missing stay missing,
\* and so do indexes: no later start creates those of a migration that the
\* copied tracking table lists.)
CopyUnfinished == pc \in {"create", "rows", "index"} /\ db.tables # {} /\ ~HasAll(db)

\* A statement fails for a reason of its own (the disk, the network): every
\* error on the way to serving ends the process, the database stays.
StatementFails ==
    /\ pc \notin {"off", "serving"} /\ errors < MaxErrors
    /\ errors' = errors + 1
    /\ Exit
    /\ broken' = (broken \/ CopyUnfinished)
    /\ UNCHANGED <<db, legacy, enforced, crashes, original, applied>>

\* The process dies, or is stopped while it serves.
Crash ==
    /\ pc # "off" /\ crashes < MaxCrashes
    /\ crashes' = crashes + 1
    /\ Exit
    /\ broken' = (broken \/ CopyUnfinished)
    /\ UNCHANGED <<db, legacy, enforced, errors, original, applied>>

Next == \/ Boot \/ CopyCreate \/ CopyRow \/ CopyRefused \/ CopyIndex \/ EnsureTracking
        \/ Migrate \/ MigrateRefused \/ LoadCatalog \/ StatementFails \/ Crash

Spec == Init /\ [][Next]_vars

\* A process that runs goes on, and one that ended is started again.
FairSpec == Spec /\ WF_vars(Boot \/ CopyCreate \/ CopyRow \/ CopyRefused \/ CopyIndex
                            \/ EnsureTracking \/ Migrate \/ MigrateRefused \/ LoadCatalog)

----------------------------------------------------------------------------
TypeOK ==
    /\ db \in Databases /\ original \in Databases
    /\ legacy \in LegacyFiles \union {NoFile}
    /\ enforced \in BOOLEAN /\ broken \in BOOLEAN
    /\ pc \in {"off", "create", "rows", "index", "track", "migrate", "serving"}
    /\ at \in Nat \ {0}
    /\ crashes \in 0 .. MaxCrashes /\ errors \in 0 .. MaxErrors
    /\ applied \in [Versions -> Nat]

\* "An existing sqlite file is migrated so no data is lost" holds of every
\* first boot whose copy was not broken off: past the copy the target has
\* each row and each index of the legacy file.
NothingLost ==
    /\ pc \in {"track", "migrate", "serving"}
    /\ original.tables = {}
    /\ ~broken
    => HasAll(db)

\* The gateway serves only with the whole schema of its version, indexes
\* included, and every up file recorded, whichever version the target or the
\* legacy file came from and wherever earlier starts were cut off, unless a copy
\* was broken off.
SchemaWhole ==
    pc = "serving" /\ ~broken
    => /\ db.recorded = Versions
       /\ \A t \in Tables \ {Tracking} : UpToDate(db, t)
       /\ Indexing \subseteq db.indexed

\* "Applied migrations are tracked in the _migrations table so each file runs
\* exactly once": over all starts, and never for one that the target, or the
\* legacy file copied into it, had recorded.
AppliedOnce ==
    \A k \in Versions :
        /\ applied[k] <= 1
        /\ k \in original.recorded => applied[k] = 0
        /\ legacy # NoFile /\ original.tables = {} /\ ~broken /\ k \in legacy.recorded
           => applied[k] = 0

\* Starts cut off by crashes and errors can be repeated: unless a copy is
\* broken off, the gateway serves in the end.
EventuallyServes == []~broken => <>[](pc = "serving")

\* What the documentation promises of the first boot: the gateway comes up
\* with the data of the legacy file.
EventuallyMigrated ==
    original.tables = {} => <>(pc = "serving" /\ HasAll(db))

=============================================================================
