----------------------------- MODULE Collector ------------------------------
(***************************************************************************)
(* Request logs on their way to the database (internal/metrics) and the    *)
(* shutdown of the process around them (cmd/gateway/main.go).  Handlers    *)
(* hand a job to a buffered channel without ever waiting; one worker takes *)
(* jobs out and writes the log row, then the statistics, then the rows of  *)
(* the stream's chunks.  On a signal the worker drains the channel and     *)
(* leaves, while main waits for the handlers, closes the channel, waits    *)
(* for the worker and closes the database.                                 *)
(*                                                                         *)
(* A job is the request it logs.  TakeNewest, ChunksFirst, NoHandlerWait,  *)
(* NoWait and WaitUntilEmpty are wrong on purpose: plausible slips, to see *)
(* that the properties notice.                                             *)
(***************************************************************************)
EXTENDS Naturals, Sequences

CONSTANTS
    Requests,       \* proxied requests
    Chunks,         \* number of chunks that request r's stream has recorded, 0 if none
    BufferSize,     \* capacity of the channel, 1024 in main
    MaxWriteErrors  \* bound: failed or timed-out inserts

ASSUME CollectorConstants ==
    /\ Chunks \in [Requests -> Nat]
    /\ BufferSize \in Nat \ {0}
    /\ MaxWriteErrors \in Nat

VARIABLES
    handler,     \* "running", "returned" or "panicked", per request
    ch,          \* contents of Collector.ch
    chClosed,    \* close(m.ch) was called
    worker,      \* "select", "drain" (after ctx.Done), or "exited" (m.done closed)
    job,         \* the job in persist, as a sequence of length 0 or 1
    rowsOf,      \* rows of that job written so far
    rows,        \* rows in the database, in the order they were inserted
    counted,     \* requests in the statistics
    signalled,   \* the context of signal.NotifyContext is done
    main,        \* "serving", "stopping" (srv.Shutdown), "closing", "waiting", "exited"
    timedOut,    \* srv.Shutdown gave up after 30 s
    writeErrors, \* counter for MaxWriteErrors
    accepted,    \* history: jobs that entered the channel, in order
    handled,     \* history: jobs persist is done with, in order
    dropped      \* history: jobs that met a full channel

vars == <<handler, ch, chClosed, worker, job, rowsOf, rows, counted, signalled,
          main, timedOut, writeErrors, accepted, handled, dropped>>
handlerVars == <<handler, accepted, dropped>>
workerVars  == <<worker, job, rowsOf, rows, counted, writeErrors, handled>>
mainVars    == <<signalled, main, timedOut, chClosed>>

LogRow(r) == [request |-> r, chunk |-> 0]      \* of request_logs
ChunkRow(r, i) == [request |-> r, chunk |-> i] \* of streaming_logs, i counted from 1

Row == [request : Requests, chunk : Nat]

TypeOK ==
    /\ handler \in [Requests -> {"running", "returned", "panicked"}]
    /\ ch \in Seq(Requests)
    /\ Len(ch) <= BufferSize
    /\ chClosed \in BOOLEAN
    /\ worker \in {"select", "drain", "exited"}
    /\ job \in Seq(Requests)
    /\ Len(job) <= 1
    /\ rowsOf \in Nat
    /\ rows \in Seq(Row)
    /\ counted \in SUBSET Requests
    /\ signalled \in BOOLEAN
    /\ main \in {"serving", "stopping", "closing", "waiting", "exited"}
    /\ timedOut \in BOOLEAN
    /\ writeErrors \in Nat
    /\ accepted \in Seq(Requests)
    /\ handled \in Seq(Requests)
    /\ dropped \in SUBSET Requests

Init ==
    /\ handler = [r \in Requests |-> "running"]
    /\ ch = <<>>
    /\ chClosed = FALSE
    /\ worker = "select"
    /\ job = <<>>
    /\ rowsOf = 0
    /\ rows = <<>>
    /\ counted = {}
    /\ signalled = FALSE
    /\ main = "serving"
    /\ timedOut = FALSE
    /\ writeErrors = 0
    /\ accepted = <<>>
    /\ handled = <<>>
    /\ dropped = {}
-----------------------------------------------------------------------------
(***************************************************************************)
(* Handlers.                                                               *)
(***************************************************************************)
Enqueue(r) ==
    /\ handler' = [handler EXCEPT ![r] = "returned"]
    /\ IF Len(ch) < BufferSize
       THEN /\ ch' = Append(ch, r)
            /\ accepted' = Append(accepted, r)
            /\ UNCHANGED dropped
       ELSE /\ dropped' = dropped \cup {r}
            /\ UNCHANGED <<ch, accepted>>

\* Record or RecordStreaming, the last thing a handler does.
Record(r) ==
    /\ handler[r] = "running"
    /\ main # "exited"
    /\ ~chClosed
    /\ Enqueue(r)
    /\ UNCHANGED <<workerVars, mainVars>>

\* The send on a closed channel panics, though the select has a default.
RecordPanics(r) ==
    /\ handler[r] = "running"
    /\ main # "exited"
    /\ chClosed
    /\ handler' = [handler EXCEPT ![r] = "panicked"]
    /\ UNCHANGED <<ch, accepted, dropped, workerVars, mainVars>>
-----------------------------------------------------------------------------
(***************************************************************************)
(* The worker.                                                             *)
(***************************************************************************)
TakeNewest ==
    /\ job' = <<ch[Len(ch)]>>
    /\ ch' = SubSeq(ch, 1, Len(ch) - 1)

TakeOldest ==
    /\ job' = <<Head(ch)>>
    /\ ch' = Tail(ch)

\* Either select receives a job.
Receive ==
    /\ worker \in {"select", "drain"}
    /\ job = <<>>
    /\ ch # <<>>
    /\ TakeOldest
    /\ rowsOf' = 0
    /\ UNCHANGED <<worker, rows, counted, writeErrors, handled, handlerVars, mainVars>>

\* The outer select picks ctx.Done; it may, but need not, when jobs wait.
SeeDone ==
    /\ worker = "select"
    /\ job = <<>>
    /\ signalled
    /\ worker' = "drain"
    /\ UNCHANGED <<ch, job, rowsOf, rows, counted, writeErrors, handled, handlerVars, mainVars>>

\* The channel is empty: a draining worker is done, and so is one that finds
\* the channel closed.
Leave ==
    /\ worker \in {"select", "drain"}
    /\ job = <<>>
    /\ ch = <<>>
    /\ worker = "drain" \/ chClosed
    /\ worker' = "exited"
    /\ UNCHANGED <<ch, job, rowsOf, rows, counted, writeErrors, handled, handlerVars, mainVars>>

JobDone ==
    /\ handled' = handled \o job
    /\ job' = <<>>

ChunksFirst(r, n) == IF n < Chunks[r] THEN ChunkRow(r, n + 1) ELSE LogRow(r)

RowToWrite(r, n) == IF n = 0 THEN LogRow(r) ELSE ChunkRow(r, n)

\* persist: the log row, the statistics, then the chunks one by one.
PersistRow ==
    /\ job # <<>>
    /\ rows' = Append(rows, RowToWrite(Head(job), rowsOf))
    /\ counted' = counted \cup {Head(job)}
    /\ rowsOf' = rowsOf + 1
    /\ IF rowsOf = Chunks[Head(job)] THEN JobDone ELSE UNCHANGED <<job, handled>>
    /\ UNCHANGED <<ch, worker, writeErrors, handlerVars, mainVars>>

\* An insert fails: persist returns, and leaves out the rest of the job.
PersistFails ==
    /\ job # <<>>
    /\ writeErrors < MaxWriteErrors
    /\ writeErrors' = writeErrors + 1
    /\ JobDone
    /\ UNCHANGED <<ch, worker, rowsOf, rows, counted, handlerVars, mainVars>>
-----------------------------------------------------------------------------
(***************************************************************************)
(* main.                                                                   *)
(***************************************************************************)
Signal ==
    /\ main = "serving"
    /\ signalled' = TRUE
    /\ main' = "stopping"
    /\ UNCHANGED <<ch, timedOut, chClosed, handlerVars, workerVars>>

NoHandlerWait(h) == TRUE

HandlersReturned(h) == \A r \in Requests : h[r] # "running"

\* srv.Shutdown returns.  Requests that have not arrived by now never do.
Drained ==
    /\ main = "stopping"
    /\ HandlersReturned(handler)
    /\ main' = "closing"
    /\ UNCHANGED <<ch, signalled, timedOut, chClosed, handlerVars, workerVars>>

ShutdownTimesOut ==
    /\ main = "stopping"
    /\ ~HandlersReturned(handler)
    /\ timedOut' = TRUE
    /\ main' = "closing"
    /\ UNCHANGED <<ch, signalled, chClosed, handlerVars, workerVars>>

\* Collector.Close closes the channel ...
CloseChannel ==
    /\ main = "closing"
    /\ chClosed' = TRUE
    /\ main' = "waiting"
    /\ UNCHANGED <<ch, signalled, timedOut, handlerVars, workerVars>>

NoWait == TRUE

WaitUntilEmpty == worker = "exited" /\ ch = <<>>

WorkerDone == worker = "exited"

\* ... and waits for the worker.  Then the store is closed and main returns.
Exit ==
    /\ main = "waiting"
    /\ WorkerDone
    /\ main' = "exited"
    /\ UNCHANGED <<ch, signalled, timedOut, chClosed, handlerVars, workerVars>>

HandlerStep(r) == Record(r) \/ RecordPanics(r)
WorkerStep == Receive \/ SeeDone \/ Leave \/ PersistRow \/ PersistFails
MainStep == Drained \/ ShutdownTimesOut \/ CloseChannel \/ Exit

Next ==
    \/ \E r \in Requests : HandlerStep(r)
    \/ WorkerStep
    \/ Signal
    \/ MainStep

Spec == Init /\ [][Next]_vars

\* The worker and main take the steps they can: an insert returns within its
\* five seconds, and srv.Shutdown within its thirty.  Handlers may hang.
FairSpec == Spec /\ WF_vars(WorkerStep) /\ WF_vars(MainStep)
-----------------------------------------------------------------------------
(***************************************************************************)
(* Nothing is lost, doubled or reordered between the channel and persist,  *)
(* through drain and close: the jobs accepted are, in order, those persist *)
(* is done with, the one it works on and those in the channel.  (enqueue,  *)
(* Start.)                                                                 *)
(***************************************************************************)
Conserved == accepted = handled \o job \o ch

(***************************************************************************)
(* At any moment, and so also when the process is killed, the database     *)
(* holds no chunk without its request's log row and no chunk without the   *)
(* chunks before it, and no row twice: the rows are in an order that the   *)
(* foreign key of streaming_logs accepts.  (persist.)                      *)
(***************************************************************************)
RowsInOrder ==
    \A k \in DOMAIN rows :
        /\ rows[k].chunk > 0 =>
             \E j \in 1 .. k - 1 : rows[j] = [rows[k] EXCEPT !.chunk = @ - 1]
        /\ \A j \in 1 .. k - 1 : rows[j] # rows[k]

(***************************************************************************)
(* The database outlives its writer: main leaves, closing the store, only  *)
(* when no job is being written.  (Close, shutdown.)                       *)
(***************************************************************************)
StoreOutlivesWorker == main = "exited" => worker = "exited" /\ job = <<>>

(***************************************************************************)
(* A handler meets the closed channel, and panics, only when shutdown has  *)
(* given up waiting for it.  (Shutdown before Close in main.)              *)
(***************************************************************************)
PanicOnlyAfterTimeout ==
    (\E r \in Requests : handler[r] = "panicked") => timedOut

(***************************************************************************)
(* A signal ends the process, even with handlers that hang and a full      *)
(* channel: main and the worker never wait for each other in a circle.     *)
(***************************************************************************)
SignalEndsProcess == signalled ~> main = "exited"

(***************************************************************************)
(* "every proxied request is logged": when an orderly shutdown, in which   *)
(* every handler returned, is over, every request that did not find the    *)
(* channel full has its row in request_logs.                               *)
(***************************************************************************)
EveryRequestLogged ==
    main = "exited" /\ ~timedOut =>
        \A r \in Requests \ dropped : \E k \in DOMAIN rows : rows[k] = LogRow(r)
-----------------------------------------------------------------------------
(***************************************************************************)
(* The inductive invariant behind the first, third and fourth property.    *)
(***************************************************************************)
ShutdownOrder ==
    /\ chClosed => main \in {"waiting", "exited"}
    /\ main \in {"closing", "waiting", "exited"} /\ ~timedOut => HandlersReturned(handler)
    /\ main = "exited" => worker = "exited"

IInv ==
    /\ TypeOK
    /\ Conserved
    /\ worker = "exited" => job = <<>>
    /\ ShutdownOrder
    /\ PanicOnlyAfterTimeout

(***************************************************************************)
(* The inductive invariant behind RowsInOrder, with RowsInOrder itself.    *)
(* A handler enqueues once, so a request is in one place only: before its  *)
(* handler's Record, in one slot of the channel, or in persist, and it has *)
(* rows only from persist on.  Of the job in hand exactly the first rowsOf *)
(* rows are written.                                                       *)
(***************************************************************************)
NotYetEnqueued ==
    \A r \in Requests : handler[r] = "running" =>
        /\ \A i \in DOMAIN ch : ch[i] # r
        /\ job # <<>> => job[1] # r
        /\ \A k \in DOMAIN rows : rows[k].request # r

QueuedOnce ==
    \A i \in DOMAIN ch :
        /\ \A j \in DOMAIN ch : ch[i] = ch[j] => i = j
        /\ job # <<>> => job[1] # ch[i]
        /\ \A k \in DOMAIN rows : rows[k].request # ch[i]

JobHalfWritten ==
    job # <<>> =>
        /\ \A k \in DOMAIN rows : rows[k].request = job[1] => rows[k].chunk < rowsOf
        /\ \A n \in 0 .. rowsOf - 1 :
               \E k \in DOMAIN rows : rows[k] = [request |-> job[1], chunk |-> n]

WrittenOnce == NotYetEnqueued /\ QueuedOnce /\ JobHalfWritten /\ RowsInOrder
=============================================================================
