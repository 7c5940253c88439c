------------------------------ MODULE ApiKeys -------------------------------
(***************************************************************************)
(* The administration of API keys (internal/admin/handler.go): creating,   *)
(* changing and deleting keys, by any number of concurrent requests.  A    *)
(* handler makes up to three separate statements to the database: it lists *)
(* the keys to see whether the name is taken, reads the row, and writes.   *)
(* Nothing holds them together, and the table api_keys has no constraint   *)
(* on names.                                                               *)
(*                                                                         *)
(* Names that differ only in case or surrounding spaces are one name here, *)
(* as apiKeyNameTaken compares them.  Limits are in module KeyLimiter.     *)
(***************************************************************************)
EXTENDS Naturals

CONSTANTS
    Admins,  \* requests, each handled once
    Ids,     \* uuids of keys
    Names

\* "none" stands for no id and no name.
ASSUME ApiKeysAssumption == "none" \notin Ids /\ "none" \notin Names

Absent == [name |-> "none", active |-> FALSE]  \* no row with this id
Row == [name : Names, active : BOOLEAN]
Ops == {"create", "update", "delete"}

VARIABLES
    keys,   \* the table api_keys
    used,   \* ids given to keys so far
    rq,     \* local state of the handlers
    blind   \* history: for each key, keys named since its name was checked

adminVars == <<keys, used, rq, blind>>

\* active is the field is_active of the body: "keep" when it is left out.
\* since and stale are history: keys named since the check of the name, and
\* whether the row was written by others since it was read.
RequestType ==
    [pc     : {"new", "asked", "checked", "got", "done"},
     op     : Ops \cup {"none"},
     id     : Ids \cup {"none"},
     name   : Names \cup {"none"},
     active : {"keep", "on", "off"},
     got    : Row \cup {Absent},
     since  : SUBSET Ids,
     stale  : BOOLEAN]

AdminTypeOK ==
    /\ keys \in [Ids -> Row \cup {Absent}]
    /\ used \in SUBSET Ids
    /\ rq \in [Admins -> RequestType]
    /\ blind \in [Ids -> SUBSET Ids]

AdminInit ==
    /\ keys = [i \in Ids |-> Absent]
    /\ used = {}
    /\ rq = [a \in Admins |->
               [pc |-> "new", op |-> "none", id |-> "none", name |-> "none",
                active |-> "keep", got |-> Absent, since |-> {}, stale |-> FALSE]]
    /\ blind = [i \in Ids |-> {}]
-----------------------------------------------------------------------------
(***************************************************************************)
(* Wrong on purpose, to see that the properties notice.                    *)
(***************************************************************************)
TakenByActive(name, excluded) ==
    \E i \in Ids \ {excluded} : keys[i].name = name /\ keys[i].active

MergeDefaultsToOn(existing, name, active) == [name |-> name, active |-> active # "off"]

-----------------------------------------------------------------------------
Done(a) == [rq EXCEPT ![a].pc = "done"]

\* A request of a valid form arrives.
Ask(a) ==
    /\ rq[a].pc = "new"
    /\ \/ \E name \in Names :
            rq' = [rq EXCEPT ![a].pc = "asked", ![a].op = "create", ![a].name = name]
       \/ \E i \in used, name \in Names, active \in {"keep", "on", "off"} :
            rq' = [rq EXCEPT ![a].pc = "asked", ![a].op = "update", ![a].id = i,
                             ![a].name = name, ![a].active = active]
       \/ \E i \in used :
            rq' = [rq EXCEPT ![a].pc = "asked", ![a].op = "delete", ![a].id = i]
    /\ UNCHANGED <<keys, used, blind>>

NameTaken(name, excluded) == \E i \in Ids \ {excluded} : keys[i].name = name

\* The 409, or on to the next statement.
CheckName(a) ==
    /\ rq[a].pc = "asked"
    /\ rq[a].op \in {"create", "update"}
    /\ rq' = IF NameTaken(rq[a].name, rq[a].id)
             THEN Done(a)
             ELSE [rq EXCEPT ![a].pc = "checked"]
    /\ UNCHANGED <<keys, used, blind>>

\* The bookkeeping of the history when a writes the row of i.
Wrote(a, i) ==
    /\ rq' = [b \in Admins |->
                IF b = a
                THEN [rq[b] EXCEPT !.pc = "done"]
                ELSE [rq[b] EXCEPT !.since = IF rq[b].pc \in {"checked", "got"} THEN @ \cup {i} ELSE @,
                                   !.stale = @ \/ (rq[b].pc = "got" /\ rq[b].id = i)]]
    /\ blind' = [blind EXCEPT ![i] = rq[a].since]

HandleCreateAPIKey(a) ==
    /\ rq[a].pc = "checked"
    /\ rq[a].op = "create"
    /\ \E i \in Ids \ used :
         /\ keys' = [keys EXCEPT ![i] = [name |-> rq[a].name, active |-> TRUE]]
         /\ used' = used \cup {i}
         /\ Wrote(a, i)

\* The 404, or the row to be merged with the body.
GetAPIKey(a) ==
    /\ rq[a].pc = "checked"
    /\ rq[a].op = "update"
    /\ rq' = IF keys[rq[a].id] = Absent
             THEN Done(a)
             ELSE [rq EXCEPT ![a].pc = "got", ![a].got = keys[rq[a].id]]
    /\ UNCHANGED <<keys, used, blind>>

Merge(existing, name, active) ==
    [name   |-> name,
     active |-> IF active = "keep" THEN existing.active ELSE active = "on"]

\* UPDATE ... WHERE id: without the row, nothing happens, and it is no error.
UpdateAPIKey(i, row) == keys' = IF keys[i] = Absent THEN keys ELSE [keys EXCEPT ![i] = row]

HandleUpdateAPIKey(a) ==
    /\ rq[a].pc = "got"
    /\ UpdateAPIKey(rq[a].id, Merge(rq[a].got, rq[a].name, rq[a].active))
    /\ Wrote(a, rq[a].id)
    /\ UNCHANGED used

HandleDeleteAPIKey(a) ==
    /\ rq[a].pc = "asked"
    /\ rq[a].op = "delete"
    /\ keys' = [keys EXCEPT ![rq[a].id] = Absent]
    /\ rq' = Done(a)
    /\ UNCHANGED <<used, blind>>

\* A statement fails, or the client is gone: a 500.
StatementFails(a) ==
    /\ rq[a].pc \in {"asked", "checked", "got"}
    /\ rq' = Done(a)
    /\ UNCHANGED <<keys, used, blind>>

AdminNext ==
    \E a \in Admins :
        \/ Ask(a) \/ CheckName(a) \/ HandleCreateAPIKey(a) \/ GetAPIKey(a)
        \/ HandleUpdateAPIKey(a) \/ HandleDeleteAPIKey(a) \/ StatementFails(a)

AdminSpec == AdminInit /\ [][AdminNext]_adminVars
-----------------------------------------------------------------------------
Live(i) == keys[i] # Absent

(***************************************************************************)
(* What the check of names does give: two keys share a name only if the    *)
(* request that named one of them wrote between the other's check and its  *)
(* write.  Requests that follow each other never make a duplicate, through *)
(* any renaming, deletion or failure in between.  (apiKeyNameTaken,        *)
(* HandleCreateAPIKey, HandleUpdateAPIKey.)                                *)
(***************************************************************************)
DuplicatesNeedOverlap ==
    \A i, j \in Ids :
        i # j /\ Live(i) /\ Live(j) /\ keys[i].name = keys[j].name =>
            i \in blind[j] \/ j \in blind[i]

(***************************************************************************)
(* A revoked key comes back only on demand: once deleted it stays deleted, *)
(* whatever update still holds its row, and once switched off it is        *)
(* switched on only by a request that says so, or by one that had read the *)
(* row before others wrote it.  (HandleUpdateAPIKey, UpdateAPIKey.)        *)
(***************************************************************************)
RevocationHolds ==
    [][ \A i \in used :
          /\ keys[i] = Absent => keys'[i] = Absent
          /\ Live(i) /\ ~keys[i].active /\ keys'[i].active =>
               \E a \in Admins :
                   /\ rq[a].pc = "got" /\ rq'[a].pc = "done" /\ rq[a].id = i
                   /\ rq[a].active = "on" \/ rq[a].stale ]_adminVars
=============================================================================
