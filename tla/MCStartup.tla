------------------------------ MODULE MCStartup ------------------------------
(* The schema of this version of the program: all nine tables and all up files. *)
EXTENDS Startup

AllByName == <<"_migrations", "api_keys", "config", "model_aliases",
               "provider_endpoints", "provider_models", "providers",
               "request_logs", "streaming_logs">>

AllTables == {AllByName[i] : i \in DOMAIN AllByName}

Children == {"model_aliases", "provider_endpoints", "provider_models"}

ForeignKeys == [t \in AllTables |->
    IF t \in Children THEN {"providers"}
    ELSE IF t = "streaming_logs" THEN {"request_logs"} ELSE {}]

Up(creates, alters, touches) ==
    [creates |-> creates, alters |-> alters, touches |-> touches, indexes |-> FALSE]

WithIndexes(m) == [m EXCEPT !.indexes = TRUE]

Stamped == {"request_logs", "providers", "provider_models", "model_aliases"}

UpFiles == <<
    WithIndexes(Up(Children \union {"providers", "request_logs"}, {}, {})), \* 0001
    Up({}, {"provider_models", "request_logs"}, {}),                \* 0002
    Up({}, {}, Stamped), Up({}, {}, Stamped), Up({}, {}, Stamped),  \* 0003 - 0005
    Up({"config"}, {}, {"config"}),                                 \* 0006
    WithIndexes(Up({"streaming_logs"}, {}, {})),                    \* 0007
    Up({}, {}, {"streaming_logs"}),                                 \* 0008
    Up({}, {"streaming_logs"}, {}), Up({}, {"streaming_logs"}, {}), \* 0009, 0010
    Up({}, {}, {"config"}), Up({}, {}, {"config"}),                 \* 0011, 0012
    Up({}, {"provider_models"}, {}),                                \* 0013
    Up({}, {"providers"}, {}),                                      \* 0014
    Up({}, {"provider_models"}, {}),                                \* 0015
    WithIndexes(Up({"api_keys"}, {"request_logs"}, {})),            \* 0016_api_keys
    Up({}, {}, Stamped \union {"streaming_logs", "provider_endpoints", "config"}) >>

\* A database that an earlier version of the program left: the first v up
\* files applied, recorded in the tracking table or from before there was one,
\* and two rows in each of the given tables.
Left(v, tracked, filled) ==
    LET touched(t) == {k \in 1 .. v : t \in UpFiles[k].creates \union UpFiles[k].alters}
        there == {t \in AllTables : touched(t) # {}}
    IN  [tables |-> there \union IF tracked THEN {"_migrations"} ELSE {},
         cols |-> [t \in AllTables |-> touched(t)],
         rows |-> [t \in AllTables |->
                     IF t = "_migrations" /\ tracked THEN v
                     ELSE IF t \in filled \intersect there THEN 2 ELSE 0],
         indexed |-> {k \in 1 .. v : UpFiles[k].indexes},
         recorded |-> IF tracked THEN 1 .. v ELSE {}]

Latest == Len(UpFiles)

Fills == {{"providers"}, {"providers", "provider_models", "request_logs", "streaming_logs"}}

Empty == Left(0, FALSE, {})

Legacies == {Left(1, FALSE, f) : f \in Fills}
            \union {Left(v, TRUE, f) : v \in {1, 7, Latest}, f \in Fills}

OldTargets == {Empty, Left(1, FALSE, {})} \union {Left(v, TRUE, {}) : v \in 1 .. Latest}

FreshTarget == {Empty}

LegacyInUse == {Left(Latest, TRUE, {"providers", "provider_models"})}
=============================================================================
