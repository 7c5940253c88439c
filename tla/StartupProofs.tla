--------------------------- MODULE StartupProofs ----------------------------
(***************************************************************************)
(* That starts can be cut off anywhere and repeated: for every schema, any *)
(* sequence of up files, any legacy file and any number of crashes and     *)
(* errors.                                                                 *)
(***************************************************************************)
EXTENDS Startup, TLAPS

Copying == pc \in {"create", "rows", "index"}

\* The copy in progress: a table that is there has the columns of the legacy
\* file, and its rows unless it is the one being filled.
CopyInv ==
    Copying =>
        /\ legacy # NoFile
        /\ db.tables \subseteq legacy.tables
        /\ db.recorded = 1 .. db.rows[Tracking]
        /\ \A t \in db.tables :
              /\ db.cols[t] = legacy.cols[t]
              /\ db.rows[t] <= legacy.rows[t]
              /\ db.rows[t] = legacy.rows[t] \/ (pc = "rows" /\ t = ByName[at])
        /\ pc = "rows" => at \in DOMAIN ByName /\ ByName[at] \in db.tables
        /\ pc = "index" => legacy.tables \subseteq db.tables

\* Outside the copy, and unless one was broken off: the database is
\* consistent and has the legacy rows, or nothing has happened yet.
Settled ==
    ~Copying /\ ~broken =>
        /\ Consistent(db)
        /\ original.tables = {} => HasAll(db) \/ (pc = "off" /\ db.tables = {})

\* What is recorded, and what was applied.
RecordInv ==
    /\ pc = "migrate" => Tracking \in db.tables /\ 1 .. at - 1 \subseteq db.recorded
    /\ pc = "serving" => db.recorded = Versions
    /\ original.recorded \subseteq db.recorded
    /\ \A k \in Versions : applied[k] > 0 => k \in db.recorded

IInv == /\ TypeOK
        /\ Filed(db)
        /\ CopyInv
        /\ Settled
        /\ RecordInv
        /\ AppliedOnce

-----------------------------------------------------------------------------
(***************************************************************************)
(* Facts about databases.                                                  *)
(***************************************************************************)
LEMMA CreateTableFacts ==
    ASSUME NEW d \in Databases, NEW t \in Tables, NEW c \in SUBSET Versions
    PROVE  /\ CreateTable(d, t, c) \in Databases
           /\ CreateTable(d, t, c).tables = d.tables \union {t}
           /\ CreateTable(d, t, c).rows = d.rows
           /\ CreateTable(d, t, c).indexed = d.indexed
           /\ CreateTable(d, t, c).recorded = d.recorded
           /\ CreateTable(d, t, c).cols[t] = c
           /\ \A u \in Tables \ {t} : CreateTable(d, t, c).cols[u] = d.cols[u]
BY DEF CreateTable, Databases

LEMMA InsertRowFacts ==
    ASSUME NEW d \in Databases, NEW t \in Tables,
           t = Tracking => d.rows[t] + 1 \in Versions
    PROVE  /\ InsertRow(d, t) \in Databases
           /\ InsertRow(d, t).tables = d.tables
           /\ InsertRow(d, t).cols = d.cols /\ InsertRow(d, t).indexed = d.indexed
           /\ InsertRow(d, t).rows[t] = d.rows[t] + 1
           /\ \A u \in Tables \ {t} : InsertRow(d, t).rows[u] = d.rows[u]
           /\ InsertRow(d, t).recorded =
                IF t = Tracking THEN d.recorded \union {d.rows[t] + 1} ELSE d.recorded
<1>. DEFINE rows == [d.rows EXCEPT ![t] = @ + 1]
            recorded == IF t = Tracking THEN d.recorded \union {d.rows[t] + 1} ELSE d.recorded
            e == [tables |-> d.tables, cols |-> d.cols, rows |-> rows,
                  indexed |-> d.indexed, recorded |-> recorded]
<1>1. InsertRow(d, t) = e
  <2>1. InsertRow(d, t) = [d EXCEPT !.rows = rows, !.recorded = recorded]
    BY DEF InsertRow, Databases
  <2>. HIDE DEF rows, recorded
  <2>. QED
    BY <2>1 DEF Databases
<1>2. rows \in [Tables -> Nat] /\ recorded \in SUBSET Versions
  BY DEF Databases
<1>3. rows[t] = d.rows[t] + 1 /\ \A u \in Tables \ {t} : rows[u] = d.rows[u]
  BY DEF Databases
<1>. HIDE DEF rows, recorded
<1>4. e \in Databases
  BY <1>2 DEF Databases
<1>. QED
  BY <1>1, <1>3, <1>4 DEF recorded

\* A statement of CopyIndex.
LEMMA IndexFacts ==
    ASSUME NEW d \in Databases, NEW k \in Versions
    PROVE  LET e == [d EXCEPT !.indexed = @ \union {k}]
           IN  /\ e \in Databases
               /\ e.tables = d.tables /\ e.cols = d.cols /\ e.rows = d.rows
               /\ e.recorded = d.recorded /\ d.indexed \subseteq e.indexed
BY DEF Databases

LEMMA MigrationFacts ==
    ASSUME NEW k \in Versions
    PROVE  Migrations[k].creates \subseteq Tables /\ Migrations[k].alters \subseteq Tables
<1>. DEFINE UpFile == [creates: SUBSET Tables, alters: SUBSET Tables, touches: SUBSET Tables,
                       indexes: BOOLEAN]
<1>1. Migrations \in Seq(UpFile)
  BY StartupAssumption
<1>2. Migrations[k] \in UpFile
  <2>. HIDE DEF UpFile
  <2>. QED
    BY <1>1 DEF Versions
<1>. QED
  BY <1>2

LEMMA MigratedFacts ==
    ASSUME NEW d \in Databases, NEW k \in Versions
    PROVE  /\ Migrated(d, k) \in Databases
           /\ Migrated(d, k).tables = d.tables \union Migrations[k].creates
           /\ Migrated(d, k).rows = d.rows
           /\ Migrated(d, k).recorded = d.recorded \union {k}
           /\ Migrated(d, k).indexed = d.indexed \union ({k} \intersect Indexing)
           /\ \A t \in (Migrations[k].creates \ d.tables) \union Migrations[k].alters :
                 Migrated(d, k).cols[t] = d.cols[t] \union {k}
           /\ \A t \in Tables : d.cols[t] \subseteq Migrated(d, k).cols[t]
<1>. QED
  BY MigrationFacts DEF Migrated, Databases

\* A database with the tables, columns and rows of the legacy file is
\* consistent.
LEMMA CopyConsistent ==
    ASSUME TypeOK, Filed(db), CopyInv, Copying, HasAll(db)
    PROVE  Consistent(db)
<1>1. legacy \in LegacyFiles /\ legacy \in Databases /\ db \in Databases
  BY StartupAssumption DEF TypeOK, CopyInv
<1>2. db.tables = legacy.tables
  BY DEF HasAll, CopyInv
<1>3. Consistent(legacy) /\ Filed(legacy) /\ legacy.recorded = 1 .. legacy.rows[Tracking]
  BY <1>1, LeftBehind
<1>4. Tracking \in Tables
  BY StartupAssumption
<1>5. db.rows[Tracking] = legacy.rows[Tracking]
  <2>1. CASE Tracking \in legacy.tables
    BY <2>1 DEF HasAll, CopyInv
  <2>2. CASE Tracking \notin legacy.tables
    BY <2>2, <1>2, <1>3, <1>4 DEF Filed
  <2>. QED BY <2>1, <2>2
<1>6. db.recorded = legacy.recorded
  BY <1>3, <1>5 DEF CopyInv
<1>7. \A t \in db.tables : db.cols[t] = legacy.cols[t]
  BY DEF CopyInv
<1>8. \A k \in legacy.recorded : k \in Versions
  BY <1>1 DEF Databases
<1>9. db.recorded \intersect Indexing \subseteq db.indexed
  BY <1>3, <1>6 DEF HasAll, CopyInv, Consistent
<1>. QED
  BY <1>2, <1>3, <1>6, <1>7, <1>8, <1>9, MigrationFacts DEF Consistent

-----------------------------------------------------------------------------
(***************************************************************************)
(* The invariant.                                                          *)
(***************************************************************************)
LEMMA InitInv == Init => IInv
<1>. SUFFICES ASSUME Init PROVE IInv
  OBVIOUS
<1>1. db \in Databases /\ Consistent(db) /\ Filed(db)
  BY StartupAssumption, LeftBehind DEF Init
<1>2. TypeOK
  <2>1. enforced \in BOOLEAN /\ broken \in BOOLEAN /\ legacy \in LegacyFiles \union {NoFile}
    BY StartupAssumption, Zenon DEF Init
  <2>2. crashes \in 0 .. MaxCrashes /\ errors \in 0 .. MaxErrors /\ at \in Nat \ {0}
        /\ applied \in [Versions -> Nat] /\ original = db /\ pc = "off"
    BY StartupAssumption DEF Init
  <2>. QED
    BY <1>1, <2>1, <2>2, Zenon DEF TypeOK
<1>3. applied = [k \in Versions |-> 0] /\ original = db /\ pc = "off"
  BY DEF Init
<1>4. CopyInv /\ Settled
  BY <1>1, <1>3 DEF Settled, CopyInv, Copying, Init
<1>5. RecordInv /\ AppliedOnce
  BY <1>3 DEF RecordInv, AppliedOnce
<1>. QED
  BY <1>1, <1>2, <1>4, <1>5 DEF IInv

\* Steps that leave the database, the files and the history of the copy alone
\* and go to a place outside the copy.
LEMMA BootInv == IInv /\ Boot => IInv'
<1>. SUFFICES ASSUME IInv, Boot PROVE IInv'
  OBVIOUS
<1>1. UNCHANGED <<db, legacy, enforced, crashes, errors, original, broken, applied>>
      /\ pc = "off" /\ at' = 1 /\ pc' = IF NeedsCopy THEN "create" ELSE "track"
  BY DEF Boot
<1>2. TypeOK' /\ Filed(db)'
  BY <1>1 DEF IInv, TypeOK, Filed
<1>3. RecordInv' /\ AppliedOnce'
  BY <1>1 DEF IInv, RecordInv, AppliedOnce
<1>4. CopyInv'
  <2>1. CASE NeedsCopy
    <3>1. legacy # NoFile /\ db.tables = {} /\ pc' = "create"
      BY <1>1, <2>1 DEF NeedsCopy
    <3>2. db.rows[Tracking] = 0 /\ db.recorded = {}
      BY <3>1, StartupAssumption DEF IInv, Filed
    <3>. QED
      BY <1>1, <3>1, <3>2 DEF CopyInv
  <2>2. CASE ~NeedsCopy
    BY <1>1, <2>2 DEF CopyInv, Copying
  <2>. QED BY <2>1, <2>2
<1>5. Settled'
  <2>1. CASE NeedsCopy
    BY <1>1, <2>1 DEF Settled, Copying
  <2>2. CASE ~NeedsCopy
    <3>1. ~broken => Consistent(db) /\ (original.tables = {} => HasAll(db) \/ db.tables = {})
      BY <1>1 DEF IInv, Settled, Copying
    <3>2. db.tables = {} => HasAll(db)
      BY <2>2 DEF NeedsCopy, HasAll
    <3>3. (Consistent(db) => Consistent(db)') /\ (HasAll(db) => HasAll(db)')
      BY <1>1 DEF Consistent, HasAll
    <3>. QED
      BY <1>1, <3>1, <3>2, <3>3 DEF Settled
  <2>. QED BY <2>1, <2>2
<1>. QED
  BY <1>2, <1>3, <1>4, <1>5 DEF IInv

\* The process ends: whatever was going on, the next start finds a database
\* with everything or with nothing in it, unless a copy was broken off.
LEMMA ExitInv ==
    ASSUME IInv, TypeOK', UNCHANGED <<db, legacy, original, applied>>,
           pc' = "off", broken => broken', Copying /\ CopyUnfinished => broken'
    PROVE  IInv'
<1>1. Filed(db)' /\ CopyInv' /\ RecordInv'
  BY DEF IInv, Filed, CopyInv, Copying, RecordInv
<1>2. AppliedOnce'
  BY DEF IInv, AppliedOnce
<1>3. Settled'
  <2>. SUFFICES ASSUME ~broken'
                PROVE  /\ Consistent(db)
                       /\ original.tables = {} => HasAll(db) \/ db.tables = {}
    <3>1. (Consistent(db) => Consistent(db)') /\ (HasAll(db) => HasAll(db)')
      BY DEF Consistent, HasAll
    <3>. QED
      BY <3>1 DEF Settled
  <2>1. CASE ~Copying
    BY <2>1 DEF IInv, Settled
  <2>2. CASE Copying /\ db.tables = {}
    <3>1. db.recorded = {}
      BY <2>2 DEF IInv, Filed
    <3>. QED
      BY <2>2, <3>1 DEF Consistent
  <2>3. CASE Copying /\ HasAll(db)
    BY <2>3, CopyConsistent DEF IInv
  <2>4. Copying => db.tables = {} \/ HasAll(db)
    BY DEF CopyUnfinished, Copying
  <2>. QED
    BY <2>1, <2>2, <2>3, <2>4
<1>. QED
  BY <1>1, <1>2, <1>3 DEF IInv

LEMMA EndInv ==
    ASSUME IInv, CopyRefused \/ MigrateRefused \/ StatementFails \/ Crash
    PROVE  IInv'
<1>1. UNCHANGED <<db, legacy, enforced, original, applied>> /\ pc' = "off" /\ at' = 1
  BY DEF CopyRefused, MigrateRefused, StatementFails, Crash, Exit
<1>2. crashes' \in 0 .. MaxCrashes /\ errors' \in 0 .. MaxErrors
  BY StartupAssumption
  DEF IInv, TypeOK, CopyRefused, MigrateRefused, StatementFails, Crash
<1>3. broken' \in BOOLEAN
  BY Zenon DEF IInv, TypeOK, CopyRefused, MigrateRefused, StatementFails, Crash, CopyUnfinished
<1>4. TypeOK'
  BY <1>1, <1>2, <1>3 DEF IInv, TypeOK
<1>5. (broken => broken') /\ (Copying /\ CopyUnfinished => broken')
  <2>1. CASE CopyRefused
    BY <2>1 DEF CopyRefused
  <2>2. CASE MigrateRefused
    BY <2>2 DEF MigrateRefused, Copying
  <2>3. CASE StatementFails \/ Crash
    <3>1. broken' = (broken \/ CopyUnfinished)
      BY <2>3 DEF StatementFails, Crash
    <3>. QED
      BY <3>1, Zenon
  <2>. QED BY <2>1, <2>2, <2>3
<1>. QED
  BY <1>1, <1>4, <1>5, ExitInv

LEMMA LoadCatalogInv == IInv /\ LoadCatalog => IInv'
<1>. SUFFICES ASSUME IInv, LoadCatalog PROVE IInv'
  OBVIOUS
<1>1. UNCHANGED <<db, legacy, enforced, crashes, errors, original, broken, applied>>
      /\ pc = "migrate" /\ at > Len(Migrations)
  BY DEF LoadCatalog
<1>2. CASE pc' = "off" /\ at' = 1
  <2>1. TypeOK'
    BY <1>1, <1>2 DEF IInv, TypeOK
  <2>. QED
    BY <1>1, <1>2, <2>1, ExitInv DEF Copying
<1>3. CASE pc' = "serving" /\ at' = at
  <2>1. TypeOK' /\ Filed(db)' /\ CopyInv'
    BY <1>1, <1>3 DEF IInv, TypeOK, Filed, CopyInv, Copying
  <2>2. Settled'
    <3>1. (Consistent(db) => Consistent(db)') /\ (HasAll(db) => HasAll(db)')
      BY <1>1 DEF Consistent, HasAll
    <3>. QED
      BY <1>1, <1>3, <3>1 DEF IInv, Settled, Copying
  <2>3. db.recorded = Versions
    <3>1. 1 .. at - 1 \subseteq db.recorded /\ at \in Nat /\ db.recorded \subseteq Versions
      BY <1>1 DEF IInv, RecordInv, TypeOK, Databases
    <3>2. Len(Migrations) \in Nat
      BY StartupAssumption
    <3>3. Versions \subseteq 1 .. at - 1
      BY <1>1, <3>1, <3>2 DEF Versions
    <3>. QED
      BY <3>1, <3>3
  <2>4. RecordInv' /\ AppliedOnce'
    BY <1>1, <1>3, <2>3 DEF IInv, RecordInv, AppliedOnce
  <2>. QED
    BY <2>1, <2>2, <2>4 DEF IInv
<1>. QED
  BY <1>2, <1>3 DEF LoadCatalog, Exit

LEMMA EnsureTrackingInv == IInv /\ EnsureTracking => IInv'
<1>. SUFFICES ASSUME IInv, EnsureTracking PROVE IInv'
  OBVIOUS
<1>1. UNCHANGED <<legacy, enforced, crashes, errors, original, broken, applied>>
      /\ pc = "track" /\ pc' = "migrate" /\ at' = 1
      /\ db' = IF Tracking \in db.tables THEN db ELSE CreateTable(db, Tracking, {})
  BY DEF EnsureTracking
<1>2. /\ db' \in Databases /\ db'.tables = db.tables \union {Tracking} /\ db'.rows = db.rows
      /\ db'.recorded = db.recorded /\ db'.indexed = db.indexed
      /\ \A t \in Tables \ {Tracking} : db'.cols[t] = db.cols[t]
  BY <1>1, StartupAssumption, CreateTableFacts DEF IInv, TypeOK
<1>3. TypeOK'
  BY <1>1, <1>2 DEF IInv, TypeOK
<1>4. Filed(db)'
  BY <1>2 DEF IInv, Filed
<1>5. Settled'
  <2>. SUFFICES ASSUME ~broken PROVE Consistent(db)' /\ (original.tables = {} => HasAll(db)')
    BY <1>1 DEF Settled
  <2>1. Consistent(db) /\ (original.tables = {} => HasAll(db))
    BY <1>1 DEF IInv, Settled, Copying
  <2>2. HasAll(db) => HasAll(db)'
    BY <1>1, <1>2 DEF HasAll
  <2>3. Consistent(db)'
    <3>1. CASE Tracking \in db.tables
      <4>1. db' = db
        BY <3>1, <1>1
      <4>. QED
        BY <4>1, <2>1 DEF Consistent
    <3>2. CASE Tracking \notin db.tables
      <4>1. db.recorded = {}
        BY <3>2 DEF IInv, Filed
      <4>2. \A k \in Versions : Tracking \notin Migrations[k].creates
        BY StartupAssumption
      <4>. QED
        BY <4>1, <4>2, <1>2, <2>1, MigrationFacts DEF Consistent
    <3>. QED BY <3>1, <3>2
  <2>. QED BY <2>1, <2>2, <2>3
<1>6. CopyInv' /\ RecordInv' /\ AppliedOnce'
  BY <1>1, <1>2 DEF IInv, CopyInv, Copying, RecordInv, AppliedOnce
<1>. QED
  BY <1>3, <1>4, <1>5, <1>6 DEF IInv

LEMMA CopyCreateInv == IInv /\ CopyCreate => IInv'
<1>. SUFFICES ASSUME IInv, CopyCreate PROVE IInv'
  OBVIOUS
<1>1. UNCHANGED <<legacy, enforced, crashes, errors, original, broken, applied>>
      /\ pc = "create" /\ Copying
  BY DEF CopyCreate, Copying
<1>2. legacy \in LegacyFiles /\ legacy \in Databases /\ db \in Databases
  BY <1>1, StartupAssumption DEF IInv, TypeOK, CopyInv
<1>3. ASSUME NEW i \in DOMAIN ByName, IsNextTable(i), pc' = "rows", at' = i,
             db' = CreateTable(db, ByName[i], legacy.cols[ByName[i]])
      PROVE  IInv'
  <2>1. ByName[i] \in legacy.tables \ db.tables /\ ByName[i] \in Tables
    BY <1>2, <1>3 DEF IsNextTable, Databases
  <2>2. legacy.cols[ByName[i]] \in SUBSET Versions
    BY <1>2, <2>1 DEF Databases
  <2>3. db' \in Databases /\ db'.tables = db.tables \union {ByName[i]} /\ db'.rows = db.rows
        /\ db'.recorded = db.recorded /\ db'.cols[ByName[i]] = legacy.cols[ByName[i]]
        /\ \A u \in Tables \ {ByName[i]} : db'.cols[u] = db.cols[u]
    BY <1>2, <1>3, <2>1, <2>2, CreateTableFacts
  <2>4. i \in Nat \ {0}
    BY StartupAssumption
  <2>5. TypeOK'
    BY <1>1, <1>3, <2>3, <2>4 DEF IInv, TypeOK
  <2>6. Filed(db)'
    BY <2>3 DEF IInv, Filed
  <2>7. db.rows[ByName[i]] = 0 /\ legacy.rows[ByName[i]] \in Nat
    BY <1>2, <2>1 DEF IInv, Filed, Databases
  <2>8. CopyInv'
    <3>1. db.tables \subseteq Tables
      BY <1>2 DEF Databases
    <3>2. /\ legacy # NoFile /\ db.tables \subseteq legacy.tables
          /\ db.recorded = 1 .. db.rows[Tracking]
          /\ \A t \in db.tables : db.cols[t] = legacy.cols[t] /\ db.rows[t] = legacy.rows[t]
                                 /\ db.rows[t] <= legacy.rows[t]
      BY <1>1 DEF IInv, CopyInv
    <3>. QED
      BY <1>1, <1>3, <2>1, <2>3, <2>7, <3>1, <3>2 DEF CopyInv
  <2>9. Settled' /\ RecordInv' /\ AppliedOnce'
    BY <1>1, <1>3, <2>3 DEF IInv, Settled, Copying, RecordInv, AppliedOnce
  <2>. QED
    BY <2>5, <2>6, <2>8, <2>9 DEF IInv
<1>4. ASSUME legacy.tables \subseteq db.tables, pc' = "index", at' = 1, db' = db
      PROVE  IInv'
  <2>1. TypeOK' /\ Filed(db)'
    BY <1>1, <1>4 DEF IInv, TypeOK, Filed
  <2>2. CopyInv'
    BY <1>1, <1>4 DEF IInv, CopyInv, Copying
  <2>3. Settled' /\ RecordInv' /\ AppliedOnce'
    BY <1>1, <1>4 DEF IInv, Settled, Copying, RecordInv, AppliedOnce
  <2>. QED
    BY <2>1, <2>2, <2>3 DEF IInv
<1>. QED
  BY <1>3, <1>4 DEF CopyCreate

LEMMA CopyIndexInv == IInv /\ CopyIndex => IInv'
<1>. SUFFICES ASSUME IInv, CopyIndex PROVE IInv'
  OBVIOUS
<1>1. UNCHANGED <<legacy, enforced, at, crashes, errors, original, broken, applied>>
      /\ pc = "index" /\ Copying
  BY DEF CopyIndex, Copying
<1>2. legacy \in LegacyFiles /\ legacy \in Databases /\ db \in Databases
  BY <1>1, StartupAssumption DEF IInv, TypeOK, CopyInv
<1>3. ASSUME NEW k \in legacy.indexed \ db.indexed,
             db' = [db EXCEPT !.indexed = @ \union {k}], pc' = pc
      PROVE  IInv'
  <2>1. /\ db' \in Databases
        /\ db'.tables = db.tables /\ db'.cols = db.cols /\ db'.rows = db.rows
        /\ db'.recorded = db.recorded
    <3>1. k \in Versions
      BY <1>2 DEF Databases
    <3>. QED
      BY <1>2, <1>3, <3>1, IndexFacts
  <2>2. TypeOK' /\ Filed(db)'
    BY <1>1, <1>3, <2>1 DEF IInv, TypeOK, Filed
  <2>3. CopyInv'
    BY <1>1, <1>3, <2>1 DEF IInv, CopyInv, Copying
  <2>4. Settled' /\ RecordInv' /\ AppliedOnce'
    BY <1>1, <1>3, <2>1 DEF IInv, Settled, Copying, RecordInv, AppliedOnce
  <2>. QED
    BY <2>2, <2>3, <2>4 DEF IInv
<1>4. ASSUME legacy.indexed \subseteq db.indexed, pc' = "track", db' = db
      PROVE  IInv'
  <2>1. TypeOK' /\ Filed(db)' /\ CopyInv' /\ RecordInv' /\ AppliedOnce'
    BY <1>1, <1>4 DEF IInv, TypeOK, Filed, CopyInv, Copying, RecordInv, AppliedOnce
  <2>2. HasAll(db)
    BY <1>1, <1>4 DEF IInv, CopyInv, HasAll
  <2>3. Consistent(db)
    BY <1>1, <2>2, CopyConsistent DEF IInv
  <2>4. Consistent(db)' /\ HasAll(db)'
    BY <1>1, <1>4, <2>2, <2>3 DEF Consistent, HasAll
  <2>. QED
    BY <2>1, <2>4 DEF IInv, Settled
<1>. QED
  BY <1>3, <1>4 DEF CopyIndex

LEMMA CopyRowInv == IInv /\ CopyRow => IInv'
<1>. SUFFICES ASSUME IInv, CopyRow PROVE IInv'
  OBVIOUS
<1>. DEFINE t == ByName[at]
<1>1. UNCHANGED <<legacy, enforced, at, crashes, errors, original, broken, applied>>
      /\ pc = "rows" /\ Copying
  BY DEF CopyRow, Copying
<1>2. legacy \in LegacyFiles /\ legacy \in Databases /\ db \in Databases
  BY <1>1, StartupAssumption DEF IInv, TypeOK, CopyInv
<1>3. /\ legacy # NoFile /\ db.tables \subseteq legacy.tables /\ t \in db.tables
      /\ db.recorded = 1 .. db.rows[Tracking] /\ at \in DOMAIN ByName
      /\ \A u \in db.tables : /\ db.cols[u] = legacy.cols[u] /\ db.rows[u] <= legacy.rows[u]
                              /\ u # t => db.rows[u] = legacy.rows[u]
  BY <1>1 DEF IInv, CopyInv
<1>4. t \in Tables /\ db.rows[t] \in Nat /\ legacy.rows[t] \in Nat
  BY <1>2, <1>3 DEF Databases
<1>5. ASSUME db.rows[t] < legacy.rows[t], db' = InsertRow(db, t), pc' = pc
      PROVE  IInv'
  <2>1. ASSUME t = Tracking PROVE db.rows[t] + 1 \in Versions
    <3>1. legacy.recorded = 1 .. legacy.rows[t] /\ legacy.recorded \subseteq Versions
      BY <1>2, <2>1, LeftBehind DEF Databases
    <3>2. db.rows[t] + 1 \in 1 .. legacy.rows[t]
      BY <1>4, <1>5
    <3>. QED BY <3>1, <3>2
  <2>2. /\ db' \in Databases /\ db'.tables = db.tables /\ db'.cols = db.cols
        /\ db'.rows[t] = db.rows[t] + 1 /\ \A u \in Tables \ {t} : db'.rows[u] = db.rows[u]
        /\ db'.recorded = IF t = Tracking THEN db.recorded \union {db.rows[t] + 1} ELSE db.recorded
    BY <1>2, <1>4, <1>5, <2>1, InsertRowFacts
  <2>3. db.tables \subseteq Tables /\ Tracking \in Tables
    BY <1>2, StartupAssumption DEF Databases
  <2>. HIDE DEF t
  <2>4. db'.recorded = 1 .. db'.rows[Tracking] /\ db.recorded \subseteq db'.recorded
    <3>1. CASE t = Tracking
      BY <3>1, <1>3, <1>4, <2>2
    <3>2. CASE t # Tracking
      BY <3>2, <1>3, <2>2, <2>3
    <3>. QED BY <3>1, <3>2
  <2>5. TypeOK'
    BY <1>1, <1>5, <2>2 DEF IInv, TypeOK
  <2>6. Filed(db)'
    BY <1>3, <2>2, <2>3, <2>4 DEF IInv, Filed
  <2>7. CopyInv'
    BY <1>1, <1>3, <1>4, <1>5, <2>2, <2>3, <2>4 DEF CopyInv, t
  <2>8. Settled' /\ RecordInv' /\ AppliedOnce'
    BY <1>1, <1>5, <2>2, <2>4 DEF IInv, Settled, Copying, RecordInv, AppliedOnce
  <2>. QED
    BY <2>5, <2>6, <2>7, <2>8 DEF IInv
<1>6. ASSUME db.rows[t] = legacy.rows[t], pc' = "create", db' = db
      PROVE  IInv'
  <2>1. TypeOK' /\ Filed(db)'
    BY <1>1, <1>6 DEF IInv, TypeOK, Filed
  <2>2. CopyInv'
    BY <1>1, <1>3, <1>6 DEF CopyInv
  <2>3. Settled' /\ RecordInv' /\ AppliedOnce'
    BY <1>1, <1>6 DEF IInv, Settled, Copying, RecordInv, AppliedOnce
  <2>. QED
    BY <2>1, <2>2, <2>3 DEF IInv
<1>. QED
  BY <1>5, <1>6 DEF CopyRow

LEMMA MigrateInv == IInv /\ Migrate => IInv'
<1>. SUFFICES ASSUME IInv, Migrate PROVE IInv'
  OBVIOUS
<1>1. /\ UNCHANGED <<legacy, enforced, pc, crashes, errors, original, broken>>
      /\ pc = "migrate" /\ at' = at + 1 /\ at <= Len(Migrations)
  BY DEF Migrate
<1>2. at \in Versions /\ db \in Databases
  BY <1>1, StartupAssumption DEF IInv, TypeOK, Versions
<1>3. Tracking \in db.tables /\ 1 .. at - 1 \subseteq db.recorded
  BY <1>1 DEF IInv, RecordInv
<1>4. ASSUME at \in db.recorded, UNCHANGED <<db, applied>>
      PROVE  IInv'
  <2>1. TypeOK' /\ Filed(db)' /\ CopyInv' /\ AppliedOnce'
    BY <1>1, <1>4 DEF IInv, TypeOK, Filed, CopyInv, Copying, AppliedOnce
  <2>2. Settled'
    <3>1. (Consistent(db) => Consistent(db)') /\ (HasAll(db) => HasAll(db)')
      BY <1>1, <1>4 DEF Consistent, HasAll
    <3>. QED
      BY <1>1, <1>4, <3>1 DEF IInv, Settled, Copying
  <2>3. 1 .. at' - 1 \subseteq db.recorded
    BY <1>1, <1>2, <1>3, <1>4 DEF Versions
  <2>4. RecordInv'
    BY <1>1, <1>3, <1>4, <2>3 DEF IInv, RecordInv
  <2>. QED
    BY <2>1, <2>2, <2>4 DEF IInv
<1>5. ASSUME at \notin db.recorded, Runnable(db, at), db' = Migrated(db, at),
             applied' = [applied EXCEPT ![at] = @ + 1]
      PROVE  IInv'
  <2>1. /\ db' \in Databases /\ db'.tables = db.tables \union Migrations[at].creates
        /\ db'.rows = db.rows /\ db'.recorded = db.recorded \union {at}
        /\ db'.indexed = db.indexed \union ({at} \intersect Indexing)
        /\ \A t \in (Migrations[at].creates \ db.tables) \union Migrations[at].alters :
              db'.cols[t] = db.cols[t] \union {at}
        /\ \A t \in Tables : db.cols[t] \subseteq db'.cols[t]
    BY <1>2, <1>5, MigratedFacts
  <2>2. applied' \in [Versions -> Nat] /\ applied'[at] = applied[at] + 1
    BY <1>2, <1>5 DEF IInv, TypeOK
  <2>3. \A k \in Versions \ {at} : applied'[k] = applied[k]
    BY <1>5 DEF IInv, TypeOK
  <2>4. TypeOK'
    BY <1>1, <1>2, <2>1, <2>2 DEF IInv, TypeOK, Versions
  <2>5. Filed(db)'
    BY <1>3, <2>1 DEF IInv, Filed
  <2>6. 1 .. at' - 1 \subseteq db'.recorded
    BY <1>1, <1>2, <1>3, <2>1 DEF Versions
  <2>7. RecordInv' /\ CopyInv'
    BY <1>1, <1>3, <2>1, <2>3, <2>6 DEF IInv, RecordInv, CopyInv, Copying
  <2>8. applied[at] = 0
    BY <1>2, <1>5 DEF IInv, RecordInv, TypeOK
  <2>9. ~broken => Consistent(db) /\ (original.tables = {} => HasAll(db))
    BY <1>1 DEF IInv, Settled, Copying
  <2>10. AppliedOnce'
    <3>1. at \notin original.recorded
      BY <1>5 DEF IInv, RecordInv
    <3>2. ASSUME legacy # NoFile, original.tables = {}, ~broken
          PROVE  at \notin legacy.recorded
      <4>1. HasAll(db) /\ legacy \in LegacyFiles
        BY <2>9, <3>2 DEF IInv, TypeOK
      <4>2. legacy.recorded = 1 .. legacy.rows[Tracking] /\ Filed(legacy)
        BY <4>1, LeftBehind
      <4>3. CASE Tracking \in legacy.tables
        BY <1>5, <3>2, <4>1, <4>2, <4>3 DEF HasAll, IInv, Filed
      <4>4. CASE Tracking \notin legacy.tables
        BY <4>2, <4>4 DEF Filed
      <4>. QED BY <4>3, <4>4
    <3>. QED
      BY <1>1, <1>2, <2>2, <2>3, <2>8, <3>1, <3>2 DEF IInv, AppliedOnce
  <2>11. Settled'
    <3>1. ASSUME HasAll(db) PROVE HasAll(db)'
      BY <1>1, <2>1, <3>1 DEF HasAll
    <3>2. ASSUME Consistent(db) PROVE Consistent(db)'
      <4>1. ASSUME NEW k \in Versions, NEW t \in Migrations[k].creates, t \in db'.tables
            PROVE  k \in db'.cols[t]
        <5>1. t \in Tables
          BY MigrationFacts
        <5>2. CASE t \in db.tables
          BY <3>2, <5>1, <5>2, <2>1 DEF Consistent
        <5>3. CASE t \notin db.tables
          <6>1. t \in Migrations[at].creates
            BY <4>1, <5>3, <2>1
          <6>2. k = at
            BY <1>2, <6>1, StartupAssumption
          <6>. QED
            BY <2>1, <5>1, <5>3, <6>1, <6>2
        <5>. QED BY <5>2, <5>3
      <4>2. ASSUME NEW k \in db'.recorded
            PROVE  /\ Migrations[k].creates \subseteq db'.tables
                   /\ \A t \in Migrations[k].alters : t \in db'.tables /\ k \in db'.cols[t]
        <5>1. CASE k = at
          BY <5>1, <1>2, <1>5, <2>1, MigrationFacts DEF Runnable
        <5>2. CASE k \in db.recorded
          <6>1. k \in Versions
            BY <5>2, <1>2 DEF Databases
          <6>. QED
            BY <3>2, <5>2, <6>1, <2>1, MigrationFacts DEF Consistent
        <5>. QED BY <5>1, <5>2, <2>1
      <4>3. db'.recorded \intersect Indexing \subseteq db'.indexed
        BY <2>1, <3>2 DEF Consistent
      <4>. QED
        BY <4>1, <4>2, <4>3 DEF Consistent
    <3>. QED
      BY <1>1, <2>9, <3>1, <3>2 DEF Settled
  <2>. QED
    BY <2>4, <2>5, <2>7, <2>10, <2>11 DEF IInv
<1>. QED
  BY <1>4, <1>5 DEF Migrate

LEMMA NextInv == IInv /\ [Next]_vars => IInv'
<1>. SUFFICES ASSUME IInv, [Next]_vars PROVE IInv'
  OBVIOUS
<1>1. CASE UNCHANGED vars
  <2>1. UNCHANGED <<db, legacy, enforced, pc, at, crashes, errors, original, broken, applied>>
    BY <1>1 DEF vars
  <2>2. (Consistent(db) => Consistent(db)') /\ (HasAll(db) => HasAll(db)')
    BY <2>1 DEF Consistent, HasAll
  <2>3. TypeOK' /\ Filed(db)' /\ CopyInv' /\ RecordInv' /\ AppliedOnce'
    BY <2>1 DEF IInv, TypeOK, Filed, CopyInv, Copying, RecordInv, AppliedOnce
  <2>4. Settled'
    BY <2>1, <2>2 DEF IInv, Settled, Copying
  <2>. QED
    BY <2>3, <2>4 DEF IInv
<1>2. CASE Next
  BY <1>2, BootInv, CopyCreateInv, CopyRowInv, CopyIndexInv, EndInv, EnsureTrackingInv, MigrateInv,
     LoadCatalogInv DEF Next
<1>. QED
  BY <1>1, <1>2

-----------------------------------------------------------------------------
(***************************************************************************)
(* The inductive invariant of the start.                                   *)
(***************************************************************************)
THEOREM Invariance == Spec => []IInv
<1>. QED
  BY InitInv, NextInv, PTL DEF Spec

(***************************************************************************)
(* A first boot whose copy was not broken off has every row and index of   *)
(* the legacy file, however often later starts are cut off.                *)
(* (migrateLegacySQLite.)                                                  *)
(***************************************************************************)
THEOREM LegacyKept == Spec => []NothingLost
<1>1. IInv => NothingLost
  BY DEF IInv, Settled, Copying, NothingLost
<1>. QED
  BY <1>1, Invariance, PTL

(***************************************************************************)
(* Unless a copy was broken off, the gateway serves only with the whole    *)
(* schema, indexes included.  (runMigrationsWithLog.)                      *)
(***************************************************************************)
THEOREM ServesWholeSchema == Spec => []SchemaWhole
<1>1. IInv => SchemaWhole
  <2>0. ASSUME IInv, pc = "serving", ~broken
        PROVE  db.recorded = Versions /\ Consistent(db) /\ Indexing \subseteq db.indexed
    BY <2>0 DEF IInv, RecordInv, Settled, Copying, Consistent, Indexing
  <2>. SUFFICES ASSUME IInv, pc = "serving", ~broken, NEW t \in Tables \ {Tracking}
                PROVE  db.recorded = Versions /\ UpToDate(db, t)
    BY <2>0 DEF SchemaWhole
  <2>1. db.recorded = Versions /\ Consistent(db)
    BY <2>0
  <2>2. PICK k \in Versions : t \in Migrations[k].creates
    BY StartupAssumption
  <2>3. t \in db.tables
    BY <2>1, <2>2 DEF Consistent
  <2>4. Shapes(t) \subseteq db.cols[t]
    BY <2>1, <2>3 DEF Consistent, Shapes
  <2>. QED
    BY <2>1, <2>3, <2>4 DEF UpToDate
<1>. QED
  BY <1>1, Invariance, PTL

(***************************************************************************)
(* Each up file is applied at most once over all starts, and not at all    *)
(* where it had been applied before.  (runMigrationsWithLog.)              *)
(***************************************************************************)
THEOREM MigrationsOnce == Spec => []AppliedOnce
<1>1. IInv => AppliedOnce
  BY DEF IInv
<1>. QED
  BY <1>1, Invariance, PTL
=============================================================================
