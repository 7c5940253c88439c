-------------------------- MODULE CollectorProofs ---------------------------
(***************************************************************************)
(* Proofs about Collector, for any number of requests and chunks and any   *)
(* buffer: the inductive invariant IInv, and from it that the jobs are     *)
(* conserved, that the store outlives the worker and that only a shutdown  *)
(* that timed out can make a handler panic; and WrittenOnce, from which    *)
(* the rows of every job are written once and in order.                    *)
(***************************************************************************)
EXTENDS Collector, SequenceTheorems, TLAPS

(***************************************************************************)
(* The queue, the job in hand and the jobs handled, put end to end.        *)
(***************************************************************************)
LEMMA AppendAtEnd ==
    \A h, j, c \in Seq(Requests) : \A r \in Requests :
        Append(h \o j \o c, r) = h \o j \o Append(c, r)
<1> TAKE h, j, c \in Seq(Requests)
<1> TAKE r \in Requests
<1>1. Append(c, r) = c \o <<r>> /\ Append(h \o j \o c, r) = (h \o j \o c) \o <<r>>
  BY AppendIsConcat, ConcatProperties
<1>2. <<r>> \in Seq(Requests) /\ h \o j \in Seq(Requests)
  BY ConcatProperties
<1> QED
  BY <1>1, <1>2, ConcatAssociative

LEMMA MoveHead ==
    ASSUME NEW S, NEW h \in Seq(S), NEW c \in Seq(S), c # <<>>
    PROVE  h \o <<>> \o c = h \o <<Head(c)>> \o Tail(c)
<1>1. c = <<Head(c)>> \o Tail(c) /\ <<Head(c)>> \in Seq(S) /\ Tail(c) \in Seq(S)
  BY HeadTailProperties, SMT
<1>2. h \o <<>> = h
  BY ConcatEmptySeq
<1> QED
  BY <1>1, <1>2, ConcatAssociative

LEMMA InitIInv == Init => IInv
<1> SUFFICES ASSUME Init PROVE IInv
  OBVIOUS
<1>1. TypeOK
  <2>1. handler \in [Requests -> {"running", "returned", "panicked"}] /\ rowsOf \in Nat
        /\ writeErrors \in Nat /\ counted \in SUBSET Requests /\ dropped \in SUBSET Requests
    BY DEF Init
  <2>2. /\ ch \in Seq(Requests) /\ job \in Seq(Requests) /\ rows \in Seq(Row)
        /\ accepted \in Seq(Requests) /\ handled \in Seq(Requests)
        /\ Len(ch) <= BufferSize /\ Len(job) <= 1
    BY CollectorConstants DEF Init
  <2>3. worker \in {"select", "drain", "exited"}
        /\ main \in {"serving", "stopping", "closing", "waiting", "exited"}
    BY DEF Init
  <2>4. chClosed \in BOOLEAN /\ signalled \in BOOLEAN /\ timedOut \in BOOLEAN
    BY Zenon DEF Init
  <2> QED
    BY <2>1, <2>2, <2>3, <2>4, Zenon DEF TypeOK
<1>2. Conserved
  BY DEF Init, Conserved
<1>3. ShutdownOrder /\ PanicOnlyAfterTimeout /\ (worker = "exited" => job = <<>>)
  BY DEF Init, ShutdownOrder, PanicOnlyAfterTimeout
<1> QED
  BY <1>1, <1>2, <1>3 DEF IInv

(***************************************************************************)
(* Handlers.                                                               *)
(***************************************************************************)
LEMMA RecordIInv == ASSUME IInv, NEW r \in Requests, Record(r) PROVE IInv'
<1>1. UNCHANGED <<workerVars, mainVars>> /\ handler[r] = "running" /\ ~chClosed /\ main # "exited"
      /\ handler' = [handler EXCEPT ![r] = "returned"]
  BY DEF Record, Enqueue
<1>2. \/ /\ Len(ch) < BufferSize /\ ch' = Append(ch, r)
         /\ accepted' = Append(accepted, r) /\ dropped' = dropped
      \/ /\ dropped' = dropped \cup {r} /\ ch' = ch /\ accepted' = accepted
  BY DEF Record, Enqueue
<1>3. TypeOK'
  <2>1. handler' \in [Requests -> {"running", "returned", "panicked"}] /\ dropped' \in SUBSET Requests
    BY <1>1, <1>2 DEF IInv, TypeOK
  <2>2. ch' \in Seq(Requests) /\ Len(ch') <= BufferSize /\ accepted' \in Seq(Requests)
    <3>1. ch \in Seq(Requests) /\ Len(ch) <= BufferSize /\ accepted \in Seq(Requests)
      BY DEF IInv, TypeOK
    <3>2. Len(Append(ch, r)) = Len(ch) + 1 /\ Append(ch, r) \in Seq(Requests)
          /\ Append(accepted, r) \in Seq(Requests) /\ Len(ch) \in Nat
      BY <3>1, AppendProperties, LenProperties
    <3> QED
      <4>1. CASE Len(ch) < BufferSize /\ ch' = Append(ch, r) /\ accepted' = Append(accepted, r)
        BY <3>1, <3>2, <4>1, CollectorConstants
      <4>2. CASE ch' = ch /\ accepted' = accepted
        BY <3>1, <4>2
      <4> QED
        BY <1>2, <4>1, <4>2, Zenon
  <2> QED
    BY <1>1, <2>1, <2>2 DEF IInv, TypeOK, workerVars, mainVars
<1>4. Conserved'
  <2>1. accepted = handled \o job \o ch /\ UNCHANGED <<handled, job>>
    BY <1>1 DEF IInv, Conserved, workerVars
  <2>2. Append(handled \o job \o ch, r) = handled \o job \o Append(ch, r)
    <3>1. ch \in Seq(Requests) /\ job \in Seq(Requests) /\ handled \in Seq(Requests)
      BY DEF IInv, TypeOK
    <3> QED
      BY <3>1, AppendAtEnd, Zenon
  <2> QED
    BY <1>2, <2>1, <2>2 DEF Conserved
<1>5. ShutdownOrder' /\ PanicOnlyAfterTimeout'
  BY <1>1 DEF IInv, TypeOK, ShutdownOrder, PanicOnlyAfterTimeout, HandlersReturned,
              workerVars, mainVars
<1> QED
  BY <1>1, <1>3, <1>4, <1>5 DEF IInv, workerVars

LEMMA RecordPanicsIInv == ASSUME IInv, NEW r \in Requests, RecordPanics(r) PROVE IInv'
<1>1. /\ UNCHANGED <<ch, accepted, dropped, workerVars, mainVars>>
      /\ handler[r] = "running" /\ chClosed
      /\ handler' = [handler EXCEPT ![r] = "panicked"]
  BY DEF RecordPanics
<1>2. TypeOK' /\ Conserved'
  BY <1>1 DEF IInv, TypeOK, Conserved, workerVars, mainVars
<1>3. timedOut
  BY <1>1 DEF IInv, ShutdownOrder, HandlersReturned
<1>4. ShutdownOrder' /\ PanicOnlyAfterTimeout'
  BY <1>1, <1>3 DEF IInv, TypeOK, ShutdownOrder, PanicOnlyAfterTimeout, HandlersReturned,
                    workerVars, mainVars
<1> QED
  BY <1>1, <1>2, <1>4 DEF IInv, workerVars

(***************************************************************************)
(* The worker.  Its steps leave main and the handlers alone.               *)
(***************************************************************************)
LEMMA WorkerFrame ==
    ASSUME IInv, TypeOK', Conserved', UNCHANGED <<handlerVars, mainVars>>,
           worker = "exited" => worker' = "exited",
           worker' = "exited" => job' = <<>>
    PROVE  IInv'
BY DEF IInv, ShutdownOrder, PanicOnlyAfterTimeout, HandlersReturned, handlerVars, mainVars

LEMMA ReceiveIInv == IInv /\ Receive => IInv'
<1> SUFFICES ASSUME IInv, Receive PROVE IInv'
  OBVIOUS
<1>1. /\ worker \in {"select", "drain"} /\ worker' = worker /\ job = <<>> /\ ch # <<>>
      /\ job' = <<Head(ch)>> /\ ch' = Tail(ch) /\ rowsOf' = 0
      /\ UNCHANGED <<rows, counted, writeErrors, handled, handlerVars, mainVars>>
  BY DEF Receive, TakeOldest
<1>2. TypeOK'
  <2>1. job' \in Seq(Requests) /\ Len(job') <= 1
    BY <1>1, HeadTailProperties DEF IInv, TypeOK
  <2>2. ch' \in Seq(Requests) /\ Len(ch') <= BufferSize
    BY <1>1, HeadTailProperties, CollectorConstants DEF IInv, TypeOK
  <2> QED
    BY <1>1, <2>1, <2>2 DEF IInv, TypeOK, handlerVars, mainVars
<1>3. Conserved'
  BY <1>1, MoveHead DEF IInv, TypeOK, Conserved, handlerVars
<1> QED
  BY <1>1, <1>2, <1>3, WorkerFrame

LEMMA SeeDoneLeaveIInv == IInv /\ (SeeDone \/ Leave) => IInv'
<1> SUFFICES ASSUME IInv, SeeDone \/ Leave PROVE IInv'
  OBVIOUS
<1>1. /\ worker \in {"select", "drain"} /\ worker' \in {"drain", "exited"} /\ job = <<>>
      /\ UNCHANGED <<ch, job, rowsOf, rows, counted, writeErrors, handled, handlerVars, mainVars>>
  BY DEF SeeDone, Leave
<1>2. TypeOK' /\ Conserved'
  BY <1>1 DEF IInv, TypeOK, Conserved, handlerVars, mainVars
<1> QED
  BY <1>1, <1>2, WorkerFrame

LEMMA JobDoneConserves ==
    ASSUME IInv, JobDone, UNCHANGED <<ch, handlerVars>>
    PROVE  Conserved' /\ job' = <<>> /\ handled' \in Seq(Requests)
<1>1. handled' \in Seq(Requests) /\ job' = <<>> /\ handled' = handled \o job
  BY ConcatProperties DEF IInv, TypeOK, JobDone
<1>2. handled' \o <<>> = handled'
  BY <1>1, ConcatEmptySeq
<1> QED
  BY <1>1, <1>2 DEF IInv, Conserved, handlerVars

LEMMA PersistRowIInv == IInv /\ PersistRow => IInv'
<1> SUFFICES ASSUME IInv, PersistRow PROVE IInv'
  OBVIOUS
<1>1. /\ job # <<>> /\ rows' = Append(rows, RowToWrite(Head(job), rowsOf))
      /\ counted' = counted \cup {Head(job)} /\ rowsOf' = rowsOf + 1
      /\ JobDone \/ UNCHANGED <<job, handled>>
      /\ UNCHANGED <<ch, worker, writeErrors, handlerVars, mainVars>>
  BY DEF PersistRow
<1>2. worker # "exited" /\ Head(job) \in Requests
  BY <1>1, HeadTailProperties DEF IInv, TypeOK
<1>3. rows' \in Seq(Row) /\ counted' \in SUBSET Requests /\ rowsOf' \in Nat
  <2>1. RowToWrite(Head(job), rowsOf) \in Row
    BY <1>2 DEF RowToWrite, LogRow, ChunkRow, Row, IInv, TypeOK
  <2>2. rows \in Seq(Row) /\ counted \in SUBSET Requests /\ rowsOf \in Nat
    BY DEF IInv, TypeOK
  <2> QED
    BY <1>1, <1>2, <2>1, <2>2, AppendProperties
<1>4. job' \in Seq(Requests) /\ Len(job') <= 1 /\ handled' \in Seq(Requests) /\ Conserved'
  <2>1. CASE JobDone
    BY <1>1, <2>1, JobDoneConserves
  <2>2. CASE UNCHANGED <<job, handled>>
    BY <1>1, <2>2 DEF IInv, TypeOK, Conserved, handlerVars
  <2> QED
    BY <1>1, <2>1, <2>2
<1>5. TypeOK'
  BY <1>1, <1>3, <1>4 DEF IInv, TypeOK, handlerVars, mainVars
<1> QED
  BY <1>1, <1>2, <1>4, <1>5, WorkerFrame

LEMMA PersistFailsIInv == IInv /\ PersistFails => IInv'
<1> SUFFICES ASSUME IInv, PersistFails PROVE IInv'
  OBVIOUS
<1>1. /\ job # <<>> /\ JobDone /\ writeErrors' = writeErrors + 1
      /\ UNCHANGED <<ch, worker, rowsOf, rows, counted, handlerVars, mainVars>>
  BY DEF PersistFails
<1>2. Conserved' /\ job' = <<>> /\ handled' \in Seq(Requests)
  BY <1>1, JobDoneConserves
<1>3. TypeOK'
  BY <1>1, <1>2 DEF IInv, TypeOK, handlerVars, mainVars
<1> QED
  BY <1>1, <1>2, <1>3, WorkerFrame DEF IInv

(***************************************************************************)
(* main.  Its steps leave the handlers and the worker alone.               *)
(***************************************************************************)
LEMMA MainIInv == IInv /\ (Signal \/ MainStep) => IInv'
<1> SUFFICES ASSUME IInv, Signal \/ MainStep PROVE IInv'
  OBVIOUS
<1>1. UNCHANGED <<ch, handlerVars, workerVars>>
  BY DEF Signal, MainStep, Drained, ShutdownTimesOut, CloseChannel, Exit
<1>2. Conserved'
  BY <1>1 DEF IInv, Conserved, handlerVars, workerVars
<1>3. signalled' \in BOOLEAN /\ timedOut' \in BOOLEAN /\ chClosed' \in BOOLEAN
  BY Zenon DEF IInv, TypeOK, Signal, MainStep, Drained, ShutdownTimesOut, CloseChannel, Exit
<1>4. main' \in {"stopping", "closing", "waiting", "exited"}
  BY DEF Signal, MainStep, Drained, ShutdownTimesOut, CloseChannel, Exit
<1>5. TypeOK'
  BY <1>1, <1>3, <1>4 DEF IInv, TypeOK, handlerVars, workerVars
<1>6. ShutdownOrder' /\ PanicOnlyAfterTimeout'
  <2>1. CASE Signal
    BY <1>1, <2>1 DEF Signal, IInv, TypeOK, ShutdownOrder, PanicOnlyAfterTimeout,
                      HandlersReturned, handlerVars, workerVars
  <2>2. CASE Drained
    BY <1>1, <2>2 DEF Drained, IInv, TypeOK, ShutdownOrder, PanicOnlyAfterTimeout,
                      HandlersReturned, handlerVars, workerVars
  <2>3. CASE ShutdownTimesOut
    BY <1>1, <2>3 DEF ShutdownTimesOut, IInv, TypeOK, ShutdownOrder, PanicOnlyAfterTimeout,
                      HandlersReturned, handlerVars, workerVars
  <2>4. CASE CloseChannel
    BY <1>1, <2>4 DEF CloseChannel, IInv, TypeOK, ShutdownOrder, PanicOnlyAfterTimeout,
                      HandlersReturned, handlerVars, workerVars
  <2>5. CASE Exit
    BY <1>1, <2>5 DEF Exit, WorkerDone, IInv, TypeOK, ShutdownOrder, PanicOnlyAfterTimeout,
                      HandlersReturned, handlerVars, workerVars
  <2> QED
    BY <2>1, <2>2, <2>3, <2>4, <2>5 DEF MainStep
<1> QED
  BY <1>1, <1>2, <1>5, <1>6 DEF IInv, workerVars

LEMMA StutterIInv == IInv /\ UNCHANGED vars => IInv'
BY DEF IInv, TypeOK, Conserved, ShutdownOrder, PanicOnlyAfterTimeout, HandlersReturned, vars

-----------------------------------------------------------------------------
(***************************************************************************)
(* IInv holds in every reachable state.                                    *)
(***************************************************************************)
THEOREM Invariance == Spec => []IInv
<1>1. IInv /\ [Next]_vars => IInv'
  BY RecordIInv, RecordPanicsIInv, ReceiveIInv, SeeDoneLeaveIInv, PersistRowIInv,
     PersistFailsIInv, MainIInv, StutterIInv
     DEF Next, HandlerStep, WorkerStep
<1> QED
  BY InitIInv, <1>1, PTL DEF Spec

(***************************************************************************)
(* No job is lost, doubled or reordered between enqueue and persist, for   *)
(* any buffer size and any number of requests.                             *)
(***************************************************************************)
THEOREM JobsConserved == Spec => []Conserved
<1>1. IInv => Conserved
  BY DEF IInv
<1> QED
  BY <1>1, Invariance, PTL

(***************************************************************************)
(* main closes the store only after the worker's last write.               *)
(***************************************************************************)
THEOREM StoreClosedLast == Spec => []StoreOutlivesWorker
<1>1. IInv => StoreOutlivesWorker
  BY DEF IInv, ShutdownOrder, StoreOutlivesWorker
<1> QED
  BY <1>1, Invariance, PTL

(***************************************************************************)
(* A handler panics on the closed channel only after a timed-out shutdown. *)
(***************************************************************************)
THEOREM PanicsNeedTimeout == Spec => []PanicOnlyAfterTimeout
<1>1. IInv => PanicOnlyAfterTimeout
  BY DEF IInv
<1> QED
  BY <1>1, Invariance, PTL
-----------------------------------------------------------------------------
(***************************************************************************)
(* WrittenOnce.  The handlers' steps.                                      *)
(***************************************************************************)
LEMMA RecordWritten == ASSUME IInv, WrittenOnce, NEW r \in Requests, Record(r) PROVE WrittenOnce'
<1>1. UNCHANGED <<job, rows, rowsOf>> /\ handler[r] = "running"
      /\ handler' = [handler EXCEPT ![r] = "returned"]
      /\ (ch' = Append(ch, r) \/ ch' = ch)
  BY DEF Record, Enqueue, workerVars
<1>2. /\ handler \in [Requests -> {"running", "returned", "panicked"}]
      /\ ch \in Seq(Requests) /\ rows \in Seq(Row) /\ job \in Seq(Requests)
  BY DEF IInv, TypeOK
<1>3. \A q \in Requests : handler'[q] = "running" => handler[q] = "running" /\ q # r
  BY <1>1, <1>2
<1>4. /\ \A i \in DOMAIN ch : ch[i] # r
      /\ job # <<>> => job[1] # r
      /\ \A k \in DOMAIN rows : rows[k].request # r
  BY <1>1 DEF WrittenOnce, NotYetEnqueued
<1>5. JobHalfWritten' /\ RowsInOrder'
  BY <1>1 DEF WrittenOnce, JobHalfWritten, RowsInOrder
<1>6. CASE ch' = ch
  BY <1>1, <1>3, <1>5, <1>6 DEF WrittenOnce, NotYetEnqueued, QueuedOnce
<1>7. CASE ch' = Append(ch, r)
  <2>1. \A i \in DOMAIN ch' : (i \in DOMAIN ch /\ ch'[i] = ch[i]) \/ (i = Len(ch) + 1 /\ ch'[i] = r)
    BY <1>2, <1>7, AppendProperties
  <2>2. NotYetEnqueued'
    BY <1>1, <1>3, <2>1 DEF WrittenOnce, NotYetEnqueued
  <2>3. QueuedOnce'
    BY <1>1, <1>4, <2>1 DEF WrittenOnce, QueuedOnce
  <2> QED
    BY <1>5, <2>2, <2>3 DEF WrittenOnce
<1> QED
  BY <1>1, <1>6, <1>7

LEMMA RecordPanicsWritten ==
    ASSUME IInv, WrittenOnce, NEW r \in Requests, RecordPanics(r) PROVE WrittenOnce'
<1>1. UNCHANGED <<ch, job, rows, rowsOf>> /\ handler' = [handler EXCEPT ![r] = "panicked"]
  BY DEF RecordPanics, workerVars
<1>2. \A q \in Requests : handler'[q] = "running" => handler[q] = "running"
  BY <1>1 DEF IInv, TypeOK
<1> QED
  BY <1>1, <1>2 DEF WrittenOnce, NotYetEnqueued, QueuedOnce, JobHalfWritten, RowsInOrder

(***************************************************************************)
(* The worker's steps.  The request it takes has no rows yet.              *)
(***************************************************************************)
LEMMA ReceiveWritten == ASSUME IInv, WrittenOnce, Receive PROVE WrittenOnce'
<1>1. /\ job = <<>> /\ ch # <<>> /\ job' = <<Head(ch)>> /\ ch' = Tail(ch) /\ rowsOf' = 0
      /\ UNCHANGED <<handler, rows>>
  BY DEF Receive, TakeOldest, handlerVars
<1>2. ch \in Seq(Requests) /\ rows \in Seq(Row)
  BY DEF IInv, TypeOK
<1>3. /\ 1 \in DOMAIN ch /\ Head(ch) = ch[1] /\ job' # <<>> /\ job'[1] = ch[1]
      /\ \A i \in DOMAIN ch' : i + 1 \in DOMAIN ch /\ ch'[i] = ch[i + 1] /\ i \in Nat /\ i # 0
  BY <1>1, <1>2, HeadTailProperties
<1>4. NotYetEnqueued'
  BY <1>1, <1>3 DEF WrittenOnce, NotYetEnqueued
<1>5. QueuedOnce'
  BY <1>1, <1>3 DEF WrittenOnce, QueuedOnce
<1>6. JobHalfWritten'
  BY <1>1, <1>3 DEF WrittenOnce, QueuedOnce, JobHalfWritten
<1>7. RowsInOrder'
  BY <1>1 DEF WrittenOnce, RowsInOrder
<1> QED
  BY <1>4, <1>5, <1>6, <1>7 DEF WrittenOnce

LEMMA PersistRowWritten == ASSUME IInv, WrittenOnce, PersistRow PROVE WrittenOnce'
<1> DEFINE q == job[1]
           new == [request |-> q, chunk |-> rowsOf]
<1>1. /\ job # <<>> /\ rowsOf' = rowsOf + 1 /\ UNCHANGED <<ch, handler>>
      /\ rows' = Append(rows, RowToWrite(Head(job), rowsOf))
      /\ (job' = <<>> \/ job' = job)
  BY DEF PersistRow, JobDone, handlerVars
<1>2. ch \in Seq(Requests) /\ rows \in Seq(Row) /\ job \in Seq(Requests) /\ rowsOf \in Nat
  BY DEF IInv, TypeOK
<1>3. Head(job) = q /\ q \in Requests
  BY <1>1, <1>2, HeadTailProperties
<1>4. RowToWrite(Head(job), rowsOf) = new /\ new \in Row
  BY <1>2, <1>3 DEF RowToWrite, LogRow, ChunkRow, Row
<1>5. /\ DOMAIN rows = 1 .. Len(rows) /\ DOMAIN rows' = 1 .. Len(rows) + 1 /\ Len(rows) \in Nat
      /\ rows'[Len(rows) + 1] = new
      /\ \A k \in DOMAIN rows : rows'[k] = rows[k]
  BY <1>1, <1>2, <1>4, AppendProperties, LenProperties
<1>6. \A k \in DOMAIN rows' : (k \in DOMAIN rows /\ rows'[k] = rows[k]) \/ (k = Len(rows) + 1 /\ rows'[k] = new)
  BY <1>5
<1>7. new.request = q /\ new.chunk = rowsOf
  OBVIOUS
<1>8. \A k \in DOMAIN rows' : (k \in DOMAIN rows /\ rows'[k] = rows[k]) \/ rows'[k].request = q
  BY <1>6, <1>7
<1> HIDE DEF new, q
<1>9. NotYetEnqueued'
  BY <1>1, <1>8 DEF WrittenOnce, NotYetEnqueued, q
<1>10. QueuedOnce'
  BY <1>1, <1>8 DEF WrittenOnce, QueuedOnce, q
<1>11. /\ \A k \in DOMAIN rows : rows[k].request = q => rows[k].chunk < rowsOf
       /\ \A n \in 0 .. rowsOf - 1 :
            \E k \in DOMAIN rows : rows[k] = [request |-> q, chunk |-> n]
  BY <1>1 DEF WrittenOnce, JobHalfWritten, q
<1>12. JobHalfWritten'
  <2> SUFFICES ASSUME job' = job
               PROVE  /\ \A k \in DOMAIN rows' : rows'[k].request = q => rows'[k].chunk < rowsOf + 1
                      /\ \A n \in 0 .. rowsOf :
                            \E k \in DOMAIN rows' : rows'[k] = [request |-> q, chunk |-> n]
    BY <1>1, <1>2 DEF JobHalfWritten, q
  <2>1. ASSUME NEW k \in DOMAIN rows', rows'[k].request = q PROVE rows'[k].chunk < rowsOf + 1
    <3>1. CASE k \in DOMAIN rows /\ rows'[k] = rows[k]
      <4>1. rows[k].chunk \in Nat
        <5>1. rows[k] \in Row
          BY <1>2, <3>1
        <5> QED
          BY <5>1 DEF Row
      <4> QED
        BY <1>2, <1>11, <2>1, <3>1, <4>1
    <3>2. CASE rows'[k] = new
      BY <1>2, <1>7, <3>2
    <3> QED
      BY <1>6, <3>1, <3>2
  <2>2. ASSUME NEW n \in 0 .. rowsOf
        PROVE  \E k \in DOMAIN rows' : rows'[k] = [request |-> q, chunk |-> n]
    <3>1. CASE n = rowsOf
      BY <1>5, <3>1 DEF new
    <3>2. CASE n # rowsOf
      <4>1. n \in 0 .. rowsOf - 1
        BY <1>2, <3>2
      <4>2. PICK k \in DOMAIN rows : rows[k] = [request |-> q, chunk |-> n]
        BY <1>11, <4>1
      <4> QED
        BY <1>5, <4>2
    <3> QED
      BY <3>1, <3>2
  <2> QED
    BY <2>1, <2>2
<1>13. RowsInOrder'
  <2> SUFFICES ASSUME NEW k \in DOMAIN rows'
               PROVE  /\ rows'[k].chunk > 0 =>
                            \E j \in 1 .. k - 1 : rows'[j] = [rows'[k] EXCEPT !.chunk = @ - 1]
                      /\ \A j \in 1 .. k - 1 : rows'[j] # rows'[k]
    BY DEF RowsInOrder
  <2>1. CASE k \in DOMAIN rows /\ rows'[k] = rows[k]
    <3>1. \A j \in 1 .. k - 1 : j \in DOMAIN rows /\ rows'[j] = rows[j]
      BY <1>5, <2>1
    <3> QED
      BY <2>1, <3>1 DEF WrittenOnce, RowsInOrder
  <2>2. CASE k = Len(rows) + 1 /\ rows'[k] = new
    <3>1. 1 .. k - 1 = DOMAIN rows
      BY <1>5, <2>2
    <3>2. ASSUME new.chunk > 0
          PROVE  \E j \in DOMAIN rows : rows'[j] = [new EXCEPT !.chunk = @ - 1]
      <4>1. rowsOf - 1 \in 0 .. rowsOf - 1
        BY <1>2, <1>7, <3>2
      <4>2. PICK j \in DOMAIN rows : rows[j] = [request |-> q, chunk |-> rowsOf - 1]
        BY <1>11, <4>1
      <4>3. [new EXCEPT !.chunk = @ - 1] = [request |-> q, chunk |-> rowsOf - 1]
        BY DEF new
      <4> QED
        BY <1>5, <4>2, <4>3
    <3>3. ASSUME NEW j \in DOMAIN rows PROVE rows'[j] # new
      <4>1. rows[j].request = q => rows[j].chunk < rowsOf
        BY <1>11
      <4>2. rows[j].request = q => rows[j].chunk # rowsOf
        BY <1>2, <4>1
      <4> QED
        BY <1>5, <1>7, <4>2
    <3> QED
      BY <2>2, <3>1, <3>2, <3>3
  <2> QED
    BY <1>6, <2>1, <2>2
<1> QED
  BY <1>9, <1>10, <1>12, <1>13 DEF WrittenOnce

(***************************************************************************)
(* The worker lets the job go, or nothing of this moves.                   *)
(***************************************************************************)
LEMMA OtherWritten ==
    ASSUME WrittenOnce, UNCHANGED <<handler, ch, rows, rowsOf>>, job' = <<>> \/ job' = job
    PROVE  WrittenOnce'
BY DEF WrittenOnce, NotYetEnqueued, QueuedOnce, JobHalfWritten, RowsInOrder

LEMMA WrittenStep == IInv /\ WrittenOnce /\ [Next]_vars => WrittenOnce'
<1> SUFFICES ASSUME IInv, WrittenOnce, [Next]_vars PROVE WrittenOnce'
  OBVIOUS
<1>1. CASE \E r \in Requests : HandlerStep(r)
  BY <1>1, RecordWritten, RecordPanicsWritten DEF HandlerStep
<1>2. CASE Receive
  BY <1>2, ReceiveWritten
<1>3. CASE PersistRow
  BY <1>3, PersistRowWritten
<1>4. CASE SeeDone \/ Leave \/ PersistFails
  BY <1>4, OtherWritten DEF SeeDone, Leave, PersistFails, JobDone, handlerVars
<1>5. CASE Signal \/ MainStep
  BY <1>5, OtherWritten DEF Signal, MainStep, Drained, ShutdownTimesOut, CloseChannel, Exit,
                            handlerVars, workerVars
<1>6. CASE UNCHANGED vars
  BY <1>6, OtherWritten DEF vars
<1> QED
  BY <1>1, <1>2, <1>3, <1>4, <1>5, <1>6 DEF Next, WorkerStep

(***************************************************************************)
(* Whenever the process stops, the database holds no chunk without its log *)
(* row and its earlier chunks, and no row twice, for any number of         *)
(* requests and chunks, any buffer and any failed inserts.                 *)
(***************************************************************************)
THEOREM RowsWrittenInOrder == Spec => []RowsInOrder
<1>1. Init => WrittenOnce
  BY DEF Init, WrittenOnce, NotYetEnqueued, QueuedOnce, JobHalfWritten, RowsInOrder
<1>2. WrittenOnce => RowsInOrder
  BY DEF WrittenOnce
<1> QED
  BY <1>1, <1>2, WrittenStep, Invariance, PTL DEF Spec
=============================================================================
