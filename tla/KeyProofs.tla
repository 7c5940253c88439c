----------------------------- MODULE KeyProofs ------------------------------
(***************************************************************************)
(* Proofs about API keys: their limits, and their administration.          *)
(***************************************************************************)
EXTENDS ApiKeys, KeyLimiter, Sums

-----------------------------------------------------------------------------
(***************************************************************************)
(* KeyLimiter, for any set of calls, any limits and any length of the      *)
(* window: first the limit of requests.                                    *)
(***************************************************************************)

\* The window of requests in the entry.
Start == entry.rpmStart
Count == entry.rpmCount

EntryType == [rpmStart : Int, rpmCount : Nat, tpmStart : Int, tpmTokens : Nat]

CallType == [pc     : {"new", "known", "admitted", "rpm exceeded", "tpm exceeded", "refused"},
             rpm    : RpmLimits \cup {NoLimit},
             tpm    : TpmLimits \cup {NoLimit},
             tokens : Sizes \cup {0},
             at     : Nat]

Rpm == [c \in Calls |-> call[c].rpm]

\* Calls that were counted against a limit of requests, and those admitted.
Counted == {c \in Calls : /\ call[c].pc \in {"admitted", "rpm exceeded", "tpm exceeded"}
                          /\ call[c].rpm # NoLimit}
Passed == {c \in Counted : call[c].pc = "admitted"}

CountedFrom(lo) == {c \in Counted : lo <= call[c].at}
PassedFrom(lo) == {c \in Passed : lo <= call[c].at}
PassedIn(lo, hi) == {c \in Passed : lo <= call[c].at /\ call[c].at < hi}

\* A set of calls within the limit of one of them, with room for one more, and
\* within twice the limit.
Fits(limit, S) == S # {} => \E d \in S : Cardinality(S) <= limit[d]
FitsOneMore(limit, S) == S # {} => \E d \in S : Cardinality(S) < limit[d]
FitsTwice(limit, S) == S # {} => \E d \in S : Cardinality(S) < 2 * limit[d]

\* The counted calls lie in the past and before the end of the window.
Clock ==
    /\ Start <= now
    /\ \A c \in Counted : call[c].at <= now /\ call[c].at < Start + Window
    /\ Count = 0 => Start = -Window /\ Counted = {}

\* The count is of calls in the window.
CountHonest == Count <= Cardinality(CountedFrom(Start))

\* The call that opened the window was within the limit of requests.
Opened == Count > 0 => \E o \in Counted : call[o].at = Start /\ call[o].pc # "rpm exceeded"

\* The current window: what it admitted it counted, and the call that opened it
\* came at its first moment.
CurrentWindow ==
    /\ Cardinality(PassedFrom(Start)) <= Count
    /\ Count > 0 => Cardinality(PassedFrom(Start + 1)) < Count
    /\ \A lo \in Int : lo >= Start => Fits(Rpm, PassedFrom(lo))
    /\ \A lo \in Int : lo > Start => FitsOneMore(Rpm, PassedFrom(lo))

\* The window of time before the current window lacks the call that opened the
\* older one.
OlderWindow == \A t \in Int : t > Start - Window => FitsOneMore(Rpm, PassedIn(t, Start))

AnyWindow == \A t \in Int : FitsTwice(Rpm, PassedIn(t, t + Window))

IInv == TypeOK /\ Clock /\ CountHonest /\ Opened /\ CurrentWindow /\ OlderWindow /\ AnyWindow

-----------------------------------------------------------------------------
\* A set of calls and its parts.
LEMMA FiniteParts ==
    ASSUME NEW S \in SUBSET Calls
    PROVE  IsFiniteSet(S) /\ Cardinality(S) \in Nat
BY LimiterConstants, FS_Subset, FS_CardinalityType

LEMMA Part ==
    ASSUME NEW T \in SUBSET Calls, NEW S \in SUBSET T
    PROVE  Cardinality(S) <= Cardinality(T)
BY FiniteParts, FS_Subset

LEMMA Grown ==
    ASSUME NEW T \in SUBSET Calls, NEW c \in Calls, NEW S \in SUBSET (T \cup {c})
    PROVE  Cardinality(S) <= Cardinality(T) + 1
<1>1. Cardinality(T \cup {c}) <= Cardinality(T) + 1
    BY FiniteParts, FS_AddElement
<1>2. Cardinality(S) <= Cardinality(T \cup {c})
    BY Part
<1>3. QED
    BY <1>1, <1>2, FiniteParts

LEMMA Halves ==
    ASSUME NEW T \in SUBSET Calls, NEW U \in SUBSET Calls, NEW S \in SUBSET (T \cup U)
    PROVE  Cardinality(S) <= Cardinality(T) + Cardinality(U)
<1>1. Cardinality(T \cup U) = Cardinality(T) + Cardinality(U) - Cardinality(T \cap U)
    BY FiniteParts, FS_Union
<1>2. /\ Cardinality(T) \in Nat /\ Cardinality(U) \in Nat /\ Cardinality(S) \in Nat
      /\ Cardinality(T \cap U) \in Nat /\ Cardinality(T \cup U) \in Nat
    BY FiniteParts
<1>3. Cardinality(S) <= Cardinality(T \cup U)
    BY Part
<1>4. QED
    BY <1>1, <1>2, <1>3

LEMMA Empty == Cardinality({}) = 0
BY FS_EmptySet

\* Two windows, the older of which lacks a call.
LEMMA TwoWindows ==
    ASSUME NEW limit \in [Calls -> Nat], NEW T \in SUBSET Calls, NEW U \in SUBSET Calls,
           \A d \in T \cup U : limit[d] >= 1, FitsOneMore(limit, T), Fits(limit, U)
    PROVE  FitsTwice(limit, T \cup U)
<1> DEFINE t == Cardinality(T)
           u == Cardinality(U)
           both == Cardinality(T \cup U)
<1>1. t \in Nat /\ u \in Nat /\ both \in Nat /\ both <= t + u
    BY FiniteParts, Halves
<1>2. (T = {} => t = 0) /\ (U = {} => u = 0)
    BY Empty
<1>3. /\ T # {} => \E d \in T : t < limit[d]
      /\ U # {} => \E d \in U : u <= limit[d]
    BY DEF Fits, FitsOneMore
<1> HIDE DEF t, u, both
<1>4. T \cup U # {} => \E d \in T \cup U : both < 2 * limit[d]
  <2>1. CASE T = {} /\ U # {}
    <3>1. PICK d \in U : u <= limit[d]
        BY <1>3, <2>1
    <3>2. limit[d] \in Nat /\ limit[d] >= 1
        BY <3>1
    <3>3. both < 2 * limit[d]
        BY <1>1, <1>2, <2>1, <3>1, <3>2
    <3>4. QED
        BY <3>3
  <2>2. CASE T # {} /\ U = {}
    <3>1. PICK d \in T : t < limit[d]
        BY <1>3, <2>2
    <3>2. limit[d] \in Nat
        BY <3>1
    <3>3. both < 2 * limit[d]
        BY <1>1, <1>2, <2>2, <3>1, <3>2
    <3>4. QED
        BY <3>3
  <2>3. CASE T # {} /\ U # {}
    <3>1. PICK d \in T : t < limit[d]
        BY <1>3, <2>3
    <3>2. PICK e \in U : u <= limit[e]
        BY <1>3, <2>3
    <3>3. limit[d] \in Nat /\ limit[e] \in Nat
        BY <3>1, <3>2
    <3>4. both < 2 * limit[d] \/ both < 2 * limit[e]
        BY <1>1, <3>1, <3>2, <3>3
    <3>5. QED
        BY <3>4
  <2>4. QED
      BY <2>1, <2>2, <2>3
<1>5. QED
    BY <1>4 DEF FitsTwice, both

LEMMA Types == TypeOK <=> /\ key \in KeyType /\ entry \in EntryType
                          /\ now \in Nat /\ call \in [Calls -> CallType]
BY DEF TypeOK, EntryType, CallType

LEMMA CallTypes ==
    ASSUME NEW d \in CallType
    PROVE  /\ d.rpm \in Nat
           /\ d.rpm # NoLimit => d.rpm \in RpmLimits
           /\ d.tpm \in Nat
           /\ d.tpm # NoLimit => d.tpm \in TpmLimits
           /\ d.tokens \in Nat /\ d.at \in Nat
<1>1. /\ d.rpm \in RpmLimits \cup {0} /\ d.tpm \in TpmLimits \cup {0}
      /\ d.tokens \in Sizes \cup {0} /\ d.at \in Nat
    BY DEF CallType, NoLimit
<1>2. \A n \in RpmLimits \cup TpmLimits \cup Sizes \cup {0} : n \in Nat
    BY LimiterConstants
<1>3. QED
    BY <1>1, <1>2 DEF NoLimit

-----------------------------------------------------------------------------
\* The limiter's arithmetic on its entry.
LEMMA CountStep ==
    ASSUME NEW e \in EntryType, now \in Nat
    PROVE  /\ CountRequest(e) \in EntryType
           /\ WindowOver(e.rpmStart) => /\ CountRequest(e).rpmStart = now
                                        /\ CountRequest(e).rpmCount = 1
           /\ ~WindowOver(e.rpmStart) => /\ CountRequest(e).rpmStart = e.rpmStart
                                         /\ CountRequest(e).rpmCount = e.rpmCount + 1
           /\ CountRequest(e).tpmStart = e.tpmStart
           /\ CountRequest(e).tpmTokens = e.tpmTokens
<1>1. CASE WindowOver(e.rpmStart)
  <2>1. CountRequest(e) = [rpmStart |-> now, rpmCount |-> 1,
                           tpmStart |-> e.tpmStart, tpmTokens |-> e.tpmTokens]
      BY <1>1 DEF CountRequest, EntryType
  <2>2. QED
      BY <1>1, <2>1 DEF EntryType
<1>2. CASE ~WindowOver(e.rpmStart)
  <2>1. CountRequest(e) = [e EXCEPT !.rpmCount = e.rpmCount + 1]
      BY <1>2 DEF CountRequest
  <2>2. QED
      BY <1>2, <2>1 DEF EntryType
<1>3. QED
    BY <1>1, <1>2

LEMMA TokensStep ==
    ASSUME NEW e \in EntryType, NEW n \in Nat, now \in Nat
    PROVE  /\ AddTokens(e, n) \in EntryType
           /\ AddTokens(e, n).rpmStart = e.rpmStart
           /\ AddTokens(e, n).rpmCount = e.rpmCount
           /\ WindowOver(e.tpmStart) => /\ AddTokens(e, n).tpmStart = now
                                        /\ AddTokens(e, n).tpmTokens = n
           /\ ~WindowOver(e.tpmStart) => /\ AddTokens(e, n).tpmStart = e.tpmStart
                                         /\ AddTokens(e, n).tpmTokens = e.tpmTokens + n
<1>1. CASE WindowOver(e.tpmStart)
  <2>1. AddTokens(e, n) = [rpmStart |-> e.rpmStart, rpmCount |-> e.rpmCount,
                           tpmStart |-> now, tpmTokens |-> n]
      BY <1>1 DEF AddTokens, EntryType
  <2>2. QED
      BY <1>1, <2>1 DEF EntryType
<1>2. CASE ~WindowOver(e.tpmStart)
  <2>1. AddTokens(e, n) = [e EXCEPT !.tpmTokens = e.tpmTokens + n]
      BY <1>2 DEF AddTokens
  <2>2. QED
      BY <1>2, <2>1 DEF EntryType
<1>3. QED
    BY <1>1, <1>2

\* What the call of allow does to the caller and to the count of requests.
LEMMA AllowStep ==
    ASSUME TypeOK, NEW c \in Calls, Allow(c)
    PROVE  /\ TypeOK'
           /\ now' = now
           /\ call[c].pc = "known"
           /\ \A d \in Calls \ {c} : call'[d] = call[d]
           /\ call'[c].at = now /\ call'[c].rpm = call[c].rpm
           /\ call'[c].pc \in {"admitted", "rpm exceeded", "tpm exceeded"}
           /\ call[c].rpm = NoLimit => /\ Start' = Start
                                       /\ Count' = Count
           /\ call[c].rpm # NoLimit /\ WindowOver(Start) =>
                  Start' = now /\ Count' = 1
           /\ call[c].rpm # NoLimit /\ ~WindowOver(Start) =>
                  Start' = Start /\ Count' = Count + 1
           /\ call'[c].pc = "rpm exceeded" => call[c].rpm # NoLimit
           /\ call[c].rpm # NoLimit =>
                  (call'[c].pc = "rpm exceeded" <=> Count' > call[c].rpm)
<1> DEFINE rpm == call[c].rpm
           tpm == call[c].tpm
           counted == IF rpm = NoLimit THEN entry ELSE CountRequest(entry)
           charged == IF tpm = NoLimit \/ RpmExceeded(counted, rpm)
                      THEN counted
                      ELSE AddTokens(counted, call[c].tokens)
           pc == CASE RpmExceeded(counted, rpm) -> "rpm exceeded"
                   [] ~RpmExceeded(counted, rpm) /\ TpmExceeded(charged, tpm) -> "tpm exceeded"
                   [] OTHER -> "admitted"
<1>1. /\ call[c].pc = "known" /\ entry' = charged
      /\ call' = [call EXCEPT ![c].at = now, ![c].pc = pc]
      /\ key' = key /\ now' = now
    BY DEF Allow
<1>2. entry \in EntryType /\ now \in Nat /\ call[c].tokens \in Nat /\ key \in KeyType
    BY Types, CallTypes
<1>3. counted \in EntryType
    BY <1>2, CountStep
<1>4. /\ charged \in EntryType
      /\ charged.rpmStart = counted.rpmStart /\ charged.rpmCount = counted.rpmCount
    BY <1>2, <1>3, TokensStep
<1>5. /\ pc \in {"admitted", "rpm exceeded", "tpm exceeded"}
      /\ pc = "rpm exceeded" <=> RpmExceeded(counted, rpm)
    OBVIOUS
<1>6. /\ RpmExceeded(counted, rpm) => rpm # NoLimit
      /\ rpm # NoLimit => (RpmExceeded(counted, rpm) <=> charged.rpmCount > rpm)
    BY <1>4 DEF RpmExceeded, Exceeds
<1>7. /\ rpm = NoLimit => counted = entry
      /\ rpm # NoLimit => counted = CountRequest(entry)
    OBVIOUS
<1> HIDE DEF counted, charged, pc
<1>8. /\ call' \in [Calls -> CallType]
      /\ call'[c].at = now /\ call'[c].rpm = rpm /\ call'[c].pc = pc
      /\ \A d \in Calls \ {c} : call'[d] = call[d]
  <2>1. call \in [Calls -> CallType]
      BY Types
  <2>2. [call[c] EXCEPT !.at = now, !.pc = pc] \in CallType
      BY <1>2, <1>5, <2>1 DEF CallType
  <2>3. call' = [call EXCEPT ![c] = [call[c] EXCEPT !.at = now, !.pc = pc]]
      BY <1>1, <2>1
  <2>4. QED
      BY <2>1, <2>2, <2>3 DEF CallType
<1>9. TypeOK'
  <2>1. key' \in KeyType /\ entry' \in EntryType /\ now' \in Nat
      BY <1>1, <1>2, <1>4
  <2>2. QED
      BY <1>8, <2>1 DEF TypeOK, EntryType, CallType
<1>10. /\ rpm = NoLimit => /\ Start' = Start
                           /\ Count' = Count
       /\ rpm # NoLimit /\ WindowOver(Start) =>
              Start' = now /\ Count' = 1
       /\ rpm # NoLimit /\ ~WindowOver(Start) =>
              Start' = Start /\ Count' = Count + 1
    BY <1>1, <1>2, <1>4, <1>7, CountStep DEF Start, Count
<1>11. Count' = charged.rpmCount
    BY <1>1 DEF Count
<1>12. QED
    BY <1>1, <1>5, <1>6, <1>8, <1>9, <1>10, <1>11

-----------------------------------------------------------------------------
LEMMA InitInv == Init => IInv
<1> SUFFICES ASSUME Init PROVE IInv
    OBVIOUS
<1>1. TypeOK
    BY LimiterConstants DEF Init, TypeOK, KeyType
<1>2. Counted = {}
    BY DEF Init, Counted
<1>3. /\ \A lo \in Int : CountedFrom(lo) = {} /\ PassedFrom(lo) = {}
      /\ \A lo, hi \in Int : PassedIn(lo, hi) = {}
    BY <1>2 DEF CountedFrom, PassedFrom, PassedIn, Passed
<1>4. Start = -Window /\ Count = 0 /\ now = 0 /\ Window \in Nat
    BY LimiterConstants DEF Init, Start, Count
<1>5. Clock
    BY <1>2, <1>4 DEF Clock
<1>6. CountHonest
    BY <1>3, <1>4, Empty DEF CountHonest
<1>7. Opened
  <2>1. ~(Count > 0)
      BY <1>4
  <2>2. QED
      BY <2>1 DEF Opened
<1>8. CurrentWindow
    BY <1>3, <1>4, Empty DEF CurrentWindow, Fits, FitsOneMore
<1>9. OlderWindow
    BY <1>3, <1>4 DEF OlderWindow, FitsOneMore
<1>10. AnyWindow
    BY <1>3, <1>4 DEF AnyWindow, FitsTwice
<1>11. QED
    BY <1>1, <1>5, <1>6, <1>7, <1>8, <1>9, <1>10 DEF IInv

\* A step that counts no call.
LEMMA Uncounted ==
    ASSUME IInv, TypeOK', Counted' = Counted, now <= now',
           \A c \in Counted : /\ call'[c].pc = call[c].pc /\ call'[c].at = call[c].at
                              /\ call'[c].rpm = call[c].rpm,
           Start' = Start, Count' = Count
    PROVE  IInv'
<1>1. Passed' = Passed
    BY DEF Passed
<1>2. /\ \A lo \in Int : CountedFrom(lo)' = CountedFrom(lo) /\ PassedFrom(lo)' = PassedFrom(lo)
      /\ \A lo, hi \in Int : PassedIn(lo, hi)' = PassedIn(lo, hi)
    BY <1>1 DEF CountedFrom, PassedFrom, PassedIn, Passed
<1>3. /\ Start \in Int /\ now \in Int /\ now' \in Int /\ Window \in Int
      /\ \A c \in Counted : call[c].at \in Nat
  <2>1. now' \in Nat
      BY DEF TypeOK
  <2>2. entry \in EntryType /\ now \in Int /\ call \in [Calls -> CallType]
      BY Types DEF IInv
  <2>3. \A c \in Counted : call[c].at \in Nat
    <3>1. \A c \in Calls : call[c].at \in Nat
        BY <2>2, CallTypes
    <3>2. QED
        BY <3>1 DEF Counted
  <2>4. QED
      BY <2>1, <2>2, <2>3, LimiterConstants DEF EntryType, Start
<1>4. Clock'
    BY <1>3 DEF IInv, Clock
<1>5. CountHonest'
    BY <1>2, <1>3 DEF IInv, CountHonest
<1>6. Opened'
    BY DEF IInv, Opened
<1>7. \A S \in SUBSET Counted : /\ Fits(Rpm, S) => Fits(Rpm', S)
                                /\ FitsOneMore(Rpm, S) => FitsOneMore(Rpm', S)
                                /\ FitsTwice(Rpm, S) => FitsTwice(Rpm', S)
  <2>1. \A d \in Counted : Rpm'[d] = Rpm[d]
      BY DEF Rpm, Counted
  <2>2. QED
      BY <2>1 DEF Fits, FitsOneMore, FitsTwice
<1>8. /\ \A lo \in Int : PassedFrom(lo) \subseteq Counted
      /\ \A lo, hi \in Int : PassedIn(lo, hi) \subseteq Counted
    BY DEF PassedFrom, PassedIn, Passed
<1>9. CurrentWindow'
  <2>1. /\ Cardinality(PassedFrom(Start)') <= Count'
        /\ Count' > 0 => Cardinality(PassedFrom(Start + 1)') < Count'
      BY <1>2, <1>3 DEF IInv, CurrentWindow
  <2>2. ASSUME NEW lo \in Int
        PROVE  /\ lo >= Start => Fits(Rpm', PassedFrom(lo)')
               /\ lo > Start => FitsOneMore(Rpm', PassedFrom(lo)')
      BY <1>2, <1>7, <1>8 DEF IInv, CurrentWindow
  <2>3. QED
      BY <2>1, <2>2 DEF CurrentWindow
<1>10. OlderWindow'
  <2>1. ASSUME NEW t \in Int, t > Start - Window
        PROVE  FitsOneMore(Rpm', PassedIn(t, Start)')
      BY <1>2, <1>3, <1>7, <1>8, <2>1 DEF IInv, OlderWindow
  <2>2. QED
      BY <2>1 DEF OlderWindow
<1>11. AnyWindow'
  <2>1. ASSUME NEW t \in Int
        PROVE  FitsTwice(Rpm', PassedIn(t, t + Window)')
      BY <1>2, <1>3, <1>7, <1>8 DEF IInv, AnyWindow
  <2>2. QED
      BY <2>1 DEF AnyWindow
<1>12. QED
    BY <1>4, <1>5, <1>6, <1>9, <1>10, <1>11 DEF IInv

\* The numbers in a state.
LEMMA Numbers ==
    ASSUME TypeOK
    PROVE  /\ Start \in Int /\ Count \in Nat
           /\ now \in Nat /\ Window \in Nat /\ Window > 0
           /\ \A c \in Calls : call[c].at \in Nat
           /\ \A c \in Calls : call[c].rpm \in Nat
           /\ \A c \in Calls : call[c].rpm # NoLimit => 1 <= call[c].rpm
<1>1. entry \in EntryType /\ now \in Nat /\ call \in [Calls -> CallType]
    BY Types
<1>2. \A c \in Calls : call[c].at \in Nat /\ call[c].rpm \in Nat
                       /\ (call[c].rpm # NoLimit => call[c].rpm \in RpmLimits)
    BY <1>1, CallTypes
<1>3. Window \in Nat /\ Window > 0
    BY LimiterConstants
<1>4. \A c \in Calls : call[c].rpm # NoLimit => 1 <= call[c].rpm
    BY <1>2 DEF NoLimit
<1>5. Start \in Int /\ Count \in Nat
    BY <1>1 DEF EntryType, Start, Count
<1>6. QED
    BY <1>1, <1>2, <1>3, <1>4, <1>5

\* A call that is counted, c at the time now.
LEMMA CountedStep ==
    ASSUME IInv, NEW c \in Calls, Allow(c), call[c].rpm # NoLimit
    PROVE  /\ Counted' = Counted \cup {c} /\ c \notin Counted
           /\ call'[c].at = now
           /\ \A d \in Counted : call'[d] = call[d]
           /\ Passed \subseteq Passed' /\ Passed' \subseteq Passed \cup {c}
           /\ Passed \subseteq Counted /\ Counted \subseteq Calls
           /\ call'[c].pc = "rpm exceeded" => Passed' = Passed
           /\ Rpm' = Rpm /\ Rpm \in [Calls -> Nat] /\ \A d \in Counted' : Rpm[d] >= 1
<1>1. /\ TypeOK' /\ call[c].pc = "known"
      /\ \A d \in Calls \ {c} : call'[d] = call[d]
      /\ call'[c].at = now /\ call'[c].rpm = call[c].rpm
      /\ call'[c].pc \in {"admitted", "rpm exceeded", "tpm exceeded"}
    BY AllowStep DEF IInv
<1>2. c \notin Counted /\ \A d \in Counted : d # c /\ d \in Calls
    BY <1>1 DEF Counted
<1>3. Counted' = Counted \cup {c}
    BY <1>1 DEF Counted
<1>4. \A d \in Counted : call'[d] = call[d]
    BY <1>1, <1>2
<1>5. Passed \subseteq Passed' /\ Passed' \subseteq Passed \cup {c}
    BY <1>3, <1>4 DEF Passed
<1>6. call'[c].pc = "rpm exceeded" => Passed' = Passed
    BY <1>2, <1>3, <1>4 DEF Passed
<1>7. Rpm' = Rpm
    BY <1>1 DEF Rpm
<1>8. Rpm \in [Calls -> Nat]
    BY Numbers DEF IInv, Rpm
<1>9. \A d \in Counted' : Rpm[d] >= 1
  <2>1. \A d \in Counted' : d \in Calls /\ call[d].rpm # NoLimit
      BY <1>3 DEF Counted
  <2>2. \A d \in Calls : call[d].rpm # NoLimit => Rpm[d] >= 1
      BY Numbers DEF IInv, Rpm
  <2>3. QED
      BY <2>1, <2>2
<1>10. QED
    BY <1>1, <1>2, <1>3, <1>4, <1>5, <1>6, <1>7, <1>8, <1>9 DEF Passed, Counted

\* A span of a window's length has at most a part of the older window and a
\* part of the current one.
LEMMA SpanStep ==
    ASSUME IInv, NEW c \in Calls, Allow(c), call[c].rpm # NoLimit,
           Clock', CurrentWindow', OlderWindow'
    PROVE  AnyWindow'
<1> SUFFICES ASSUME NEW t \in Int
             PROVE  FitsTwice(Rpm', PassedIn(t, t + Window)')
    BY DEF AnyWindow
<1>1. /\ Counted' = Counted \cup {c} /\ c \notin Counted
      /\ call'[c].at = now
      /\ \A d \in Counted : call'[d] = call[d]
      /\ Passed \subseteq Passed' /\ Passed' \subseteq Passed \cup {c}
      /\ Passed \subseteq Counted /\ Counted \subseteq Calls
      /\ Rpm' = Rpm /\ Rpm \in [Calls -> Nat] /\ \A d \in Counted' : Rpm[d] >= 1
    BY CountedStep
<1>2. /\ now \in Nat /\ now' = now /\ Window \in Nat /\ Window > 0
      /\ \A d \in Calls : call[d].at \in Nat
    BY Numbers, AllowStep DEF IInv
<1>3. Start' \in Int /\ Start' <= now
  <2>1. TypeOK'
      BY AllowStep DEF IInv
  <2>2. entry' \in EntryType
      BY <2>1 DEF TypeOK, EntryType
  <2>3. QED
      BY <1>2, <2>2 DEF EntryType, Start, Clock
<1>4. \A d \in Counted' : call'[d].at \in Nat /\ call'[d].at <= now
    BY <1>1, <1>2 DEF Clock
<1>5. \A lo \in Int : PassedFrom(lo)' \subseteq Counted'
    BY DEF PassedFrom, Passed
<1>6. CASE t <= now - Window
  <2>1. PassedIn(t, t + Window)' = PassedIn(t, t + Window)
      BY <1>1, <1>2, <1>6 DEF PassedIn
  <2>2. FitsTwice(Rpm, PassedIn(t, t + Window))
      BY DEF IInv, AnyWindow
  <2>3. QED
      BY <1>1, <2>1, <2>2
<1>7. CASE t > now - Window /\ t >= Start'
  <2> DEFINE U == PassedFrom(t)'
  <2>1. PassedIn(t, t + Window)' = U
      BY <1>2, <1>4, <1>7 DEF PassedIn, PassedFrom, Passed
  <2>2. Fits(Rpm, U)
      BY <1>1, <1>7 DEF CurrentWindow
  <2>3. U \subseteq Counted' /\ U \subseteq Calls
      BY <1>1, <1>5
  <2>4. FitsOneMore(Rpm, {})
      BY DEF FitsOneMore
  <2> HIDE DEF U
  <2>5. FitsTwice(Rpm, {} \cup U)
      BY <1>1, <2>2, <2>3, <2>4, TwoWindows
  <2>6. {} \cup U = U
      OBVIOUS
  <2>7. QED
      BY <1>1, <2>1, <2>5, <2>6
<1>8. CASE t > now - Window /\ t < Start'
  <2> DEFINE T == PassedIn(t, Start)'
             U == PassedFrom(Start)'
  <2>1. PassedIn(t, t + Window)' = T \cup U
      BY <1>2, <1>3, <1>4, <1>8 DEF PassedIn, PassedFrom, Passed
  <2>2. Fits(Rpm, U)
      BY <1>1, <1>3 DEF CurrentWindow
  <2>3. FitsOneMore(Rpm, T)
    <3> DEFINE s == Start'
    <3>1. s \in Int /\ s <= now /\ now \in Int /\ Window \in Int /\ t > now - Window
        BY <1>2, <1>3, <1>8
    <3> HIDE DEF s
    <3>2. t > s - Window
        BY <3>1
    <3>3. QED
        BY <1>1, <3>2 DEF OlderWindow, s
  <2>4. T \subseteq Counted' /\ U \subseteq Counted' /\ Counted' \subseteq Calls
      BY <1>1 DEF PassedIn, PassedFrom, Passed
  <2> HIDE DEF T, U
  <2>5. FitsTwice(Rpm, T \cup U)
      BY <1>1, <2>2, <2>3, <2>4, TwoWindows
  <2>6. QED
      BY <1>1, <2>1, <2>5
<1>9. QED
    BY <1>2, <1>3, <1>6, <1>7, <1>8

\* The call opens a new window.
LEMMA OpensWindow ==
    ASSUME IInv, NEW c \in Calls, Allow(c), call[c].rpm # NoLimit,
           WindowOver(Start)
    PROVE  IInv'
<1>1. /\ TypeOK' /\ now' = now
      /\ Start' = now /\ Count' = 1
    BY AllowStep DEF IInv
<1>2. /\ Counted' = Counted \cup {c} /\ c \notin Counted
      /\ call'[c].at = now
      /\ \A d \in Counted : call'[d] = call[d]
      /\ Passed \subseteq Passed' /\ Passed' \subseteq Passed \cup {c}
      /\ Passed \subseteq Counted /\ Counted \subseteq Calls
      /\ Rpm' = Rpm /\ Rpm \in [Calls -> Nat] /\ \A d \in Counted' : Rpm[d] >= 1
    BY CountedStep
<1>3. /\ Start \in Int /\ now \in Nat /\ Window \in Nat /\ Window > 0
      /\ \A d \in Calls : call[d].at \in Nat
      /\ Count \in Nat
    BY Numbers DEF IInv
<1>4. \A d \in Counted : call[d].at < now
    BY <1>2, <1>3 DEF IInv, Clock, WindowOver
<1>5. Clock'
    BY <1>1, <1>2, <1>3, <1>4 DEF Clock
<1>6. CountHonest'
  <2>1. c \in CountedFrom(Start)' /\ CountedFrom(Start)' \subseteq Calls
      BY <1>1, <1>2, <1>3 DEF CountedFrom
  <2>2. Cardinality({c}) <= Cardinality(CountedFrom(Start)')
      BY <2>1, Part
  <2>3. QED
      BY <1>1, <2>2, FS_Singleton DEF CountHonest
<1>7. Opened'
  <2>1. call'[c].pc # "rpm exceeded"
    <3> DEFINE rpm == call[c].rpm
    <3>1. rpm \in Nat /\ 1 <= rpm
        BY Numbers DEF IInv
    <3>2. call'[c].pc = "rpm exceeded" => Count' > rpm
        BY AllowStep DEF IInv
    <3> HIDE DEF rpm
    <3>3. ~(Count' > rpm)
        BY <1>1, <3>1
    <3>4. QED
        BY <3>2, <3>3
  <2>2. QED
      BY <1>1, <1>2, <2>1 DEF Opened
<1>8. CurrentWindow'
  <2>1. \A lo \in Int : lo >= now => PassedFrom(lo)' \subseteq {c}
      BY <1>2, <1>3, <1>4 DEF PassedFrom
  <2>2. \A lo \in Int : lo > now => PassedFrom(lo)' = {}
      BY <1>2, <1>3, <1>4 DEF PassedFrom
  <2>3. ASSUME NEW lo \in Int, lo >= now
        PROVE  Cardinality(PassedFrom(lo)') <= 1
    <3>1. {c} \in SUBSET Calls /\ Cardinality({c}) = 1
        BY FS_Singleton
    <3>2. QED
        BY <2>1, <2>3, <3>1, Part
  <2>4. ASSUME NEW lo \in Int, lo >= now
        PROVE  Fits(Rpm', PassedFrom(lo)')
    <3> DEFINE S == PassedFrom(lo)'
    <3>1. S \subseteq {c} /\ Cardinality(S) <= 1 /\ Cardinality(S) \in Nat
        BY <2>1, <2>3, <2>4, FiniteParts
    <3>2. Rpm'[c] \in Nat /\ Rpm'[c] >= 1
        BY <1>2
    <3> HIDE DEF S
    <3>3. S # {} => c \in S /\ Cardinality(S) <= Rpm'[c]
        BY <3>1, <3>2
    <3>4. Fits(Rpm', S)
        BY <3>3 DEF Fits
    <3>5. QED
        BY <3>4 DEF S
  <2>5. ASSUME NEW lo \in Int, lo > now
        PROVE  FitsOneMore(Rpm', PassedFrom(lo)')
      BY <2>2, <2>5 DEF FitsOneMore
  <2>6. /\ Cardinality(PassedFrom(Start)') <= Count'
        /\ Cardinality(PassedFrom(Start + 1)') < Count'
    <3>1. now \in Int /\ now >= now /\ now + 1 \in Int /\ now + 1 > now
        BY <1>3
    <3>2. Cardinality(PassedFrom(Start)') <= 1
        BY <1>1, <2>3, <3>1
    <3>3. PassedFrom(Start + 1)' = {}
        BY <1>1, <2>2, <3>1
    <3>4. QED
        BY <1>1, <3>2, <3>3, Empty
  <2>7. QED
      BY <1>1, <2>4, <2>5, <2>6 DEF CurrentWindow
\* the last Window before now has nothing of the moment at which the older
\* window was opened
<1>9. OlderWindow'
  <2>1. ASSUME NEW t \in Int, t > now - Window
        PROVE  FitsOneMore(Rpm', PassedIn(t, now)')
    <3>1. t > Start
        BY <1>3, <2>1 DEF WindowOver
    <3>2. PassedIn(t, now)' = PassedFrom(t)
        BY <1>1, <1>2, <1>3, <1>4 DEF PassedIn, PassedFrom
    <3>3. QED
        BY <1>2, <3>1, <3>2 DEF IInv, CurrentWindow
  <2>2. QED
      BY <1>1, <2>1 DEF OlderWindow
<1>10. AnyWindow'
    BY <1>5, <1>8, <1>9, SpanStep
<1>11. QED
    BY <1>1, <1>5, <1>6, <1>7, <1>8, <1>9, <1>10 DEF IInv

\* The call comes within the current window.
LEMMA WithinWindow ==
    ASSUME IInv, NEW c \in Calls, Allow(c), call[c].rpm # NoLimit,
           ~WindowOver(Start)
    PROVE  IInv'
<1>1. /\ TypeOK' /\ now' = now
      /\ Start' = Start /\ Count' = Count + 1
    BY AllowStep DEF IInv
<1>2. /\ Counted' = Counted \cup {c} /\ c \notin Counted
      /\ call'[c].at = now
      /\ \A d \in Counted : call'[d] = call[d]
      /\ Passed \subseteq Passed' /\ Passed' \subseteq Passed \cup {c}
      /\ Passed \subseteq Counted /\ Counted \subseteq Calls
      /\ Rpm' = Rpm /\ Rpm \in [Calls -> Nat] /\ \A d \in Counted' : Rpm[d] >= 1
    BY CountedStep
<1>3. /\ Start \in Int /\ now \in Nat /\ Window \in Nat /\ Window > 0
      /\ \A d \in Calls : call[d].at \in Nat
      /\ Count \in Nat
    BY Numbers DEF IInv
<1>4. /\ Start <= now /\ now < Start + Window
      /\ Count > 0
    BY <1>3 DEF IInv, Clock, WindowOver
<1>5. Clock'
    BY <1>1, <1>2, <1>3, <1>4 DEF IInv, Clock
<1>6. CountHonest'
  <2> DEFINE before == CountedFrom(Start)
  <2>1. CountedFrom(Start)' = before \cup {c} /\ c \notin before
      BY <1>1, <1>2, <1>3, <1>4 DEF CountedFrom
  <2>2. IsFiniteSet(before) /\ Cardinality(before) \in Nat
      BY <1>2, FiniteParts DEF CountedFrom
  <2>3. Count <= Cardinality(before)
      BY DEF IInv, CountHonest
  <2> HIDE DEF before
  <2>4. Cardinality(CountedFrom(Start)') = Cardinality(before) + 1
      BY <2>1, <2>2, FS_AddElement
  <2>5. Count' <= Cardinality(CountedFrom(Start)')
      BY <1>1, <1>3, <2>2, <2>3, <2>4
  <2>6. QED
      BY <2>5 DEF CountHonest
<1>7. Opened'
  <2>1. PICK o \in Counted : call[o].at = Start /\ call[o].pc # "rpm exceeded"
      BY <1>4 DEF IInv, Opened
  <2>2. o \in Counted' /\ call'[o].at = Start' /\ call'[o].pc # "rpm exceeded"
      BY <1>1, <1>2, <2>1
  <2>3. QED
      BY <2>2 DEF Opened
<1>8. ASSUME NEW lo \in Int
      PROVE  /\ PassedFrom(lo) \subseteq Calls /\ PassedFrom(lo)' \subseteq Calls
             /\ PassedFrom(lo)' \subseteq PassedFrom(lo) \cup {c}
             /\ c \notin PassedFrom(lo)' => PassedFrom(lo)' = PassedFrom(lo)
             /\ Cardinality(PassedFrom(lo)) \in Nat /\ Cardinality(PassedFrom(lo)') \in Nat
             /\ Cardinality(PassedFrom(lo)') <= Cardinality(PassedFrom(lo)) + 1
  <2>1. /\ PassedFrom(lo) \subseteq Calls /\ PassedFrom(lo)' \subseteq Calls
        /\ PassedFrom(lo)' \subseteq PassedFrom(lo) \cup {c}
        /\ c \notin PassedFrom(lo)' => PassedFrom(lo)' = PassedFrom(lo)
      BY <1>2 DEF PassedFrom
  <2>2. QED
      BY <2>1, FiniteParts, Grown
\* what the window admitted since a moment, and since a later one than the
\* first, is no more than it has counted
<1>9. ASSUME NEW lo \in Int, lo >= Start
      PROVE  /\ Cardinality(PassedFrom(lo)) <= Count
             /\ lo > Start => Cardinality(PassedFrom(lo)) < Count
  <2> DEFINE all == Cardinality(PassedFrom(Start))
             later == Cardinality(PassedFrom(Start + 1))
             these == Cardinality(PassedFrom(lo))
  <2>1. all <= Count /\ later < Count
      BY <1>4 DEF IInv, CurrentWindow
  <2>2. PassedFrom(lo) \subseteq PassedFrom(Start)
        /\ (lo > Start => PassedFrom(lo) \subseteq PassedFrom(Start + 1))
      BY <1>2, <1>3, <1>9 DEF PassedFrom
  <2>3. Start \in Int /\ Start + 1 \in Int
      BY <1>3
  <2>4. these <= all /\ (lo > Start => these <= later)
      BY <1>8, <2>2, <2>3, Part
  <2>5. all \in Nat /\ later \in Nat /\ these \in Nat
      BY <1>8, <2>3
  <2> HIDE DEF all, later, these
  <2>6. these <= Count /\ (lo > Start => these < Count)
      BY <1>3, <2>1, <2>4, <2>5
  <2>7. QED
      BY <2>6 DEF these
\* an admitted call finds the count within its limit
<1>10. c \in Passed' => Count + 1 <= Rpm[c]
  <2> DEFINE rpm == call[c].rpm
  <2>1. c \in Passed' => ~(Count' > rpm)
      BY AllowStep DEF IInv, Passed
  <2>2. rpm \in Nat /\ rpm = Rpm[c]
      BY <1>2 DEF Rpm
  <2> HIDE DEF rpm
  <2>3. QED
      BY <1>1, <1>3, <2>1, <2>2
<1>11. CurrentWindow'
  <2>1. Cardinality(PassedFrom(Start)') <= Count'
    <3>1. Cardinality(PassedFrom(Start)) <= Count
        BY <1>3, <1>9
    <3>2. QED
        BY <1>1, <1>3, <1>8, <3>1
  <2>2. Cardinality(PassedFrom(Start + 1)') < Count'
    <3> DEFINE next == Start + 1
    <3>1. next \in Int /\ next > Start /\ next >= Start /\ next' = next
        BY <1>1, <1>3
    <3> HIDE DEF next
    <3>2. Cardinality(PassedFrom(next)) < Count
        BY <1>9, <3>1
    <3>3. Cardinality(PassedFrom(next)') < Count'
        BY <1>1, <1>3, <1>8, <3>1, <3>2
    <3>4. QED
        BY <3>1, <3>3 DEF next
  <2>3. ASSUME NEW lo \in Int, lo >= Start
        PROVE  /\ Fits(Rpm, PassedFrom(lo)')
               /\ lo > Start => FitsOneMore(Rpm, PassedFrom(lo)')
    <3>1. CASE c \in PassedFrom(lo)'
      <4> DEFINE old == Cardinality(PassedFrom(lo))
                 new == Cardinality(PassedFrom(lo)')
      <4>1. old \in Nat /\ new \in Nat /\ new <= old + 1
          BY <1>8
      <4>2. old <= Count /\ (lo > Start => old < Count)
          BY <1>9, <2>3
      <4>3. Count + 1 <= Rpm[c] /\ Rpm[c] \in Nat
          BY <1>2, <1>10, <3>1 DEF PassedFrom
      <4> HIDE DEF old, new
      <4>4. new <= Rpm[c] /\ (lo > Start => new < Rpm[c])
          BY <1>3, <4>1, <4>2, <4>3
      <4>5. QED
          BY <3>1, <4>4 DEF Fits, FitsOneMore, new
    <3>2. CASE c \notin PassedFrom(lo)'
        BY <1>8, <2>3, <3>2 DEF IInv, CurrentWindow
    <3>3. QED
        BY <3>1, <3>2
  <2>4. QED
      BY <1>1, <1>2, <1>3, <2>1, <2>2, <2>3 DEF CurrentWindow
<1>12. OlderWindow'
  <2>1. ASSUME NEW t \in Int
        PROVE  PassedIn(t, Start)' = PassedIn(t, Start)
      BY <1>1, <1>2, <1>3, <1>4 DEF PassedIn
  <2>2. QED
      BY <1>1, <1>2, <1>3, <2>1 DEF IInv, OlderWindow
<1>13. AnyWindow'
    BY <1>5, <1>11, <1>12, SpanStep
<1>14. QED
    BY <1>1, <1>5, <1>6, <1>7, <1>11, <1>12, <1>13 DEF IInv

LEMMA AllowInv == ASSUME IInv, NEW c \in Calls, Allow(c) PROVE IInv'
<1>1. CASE call[c].rpm = NoLimit
  <2>1. /\ TypeOK' /\ now' = now /\ call[c].pc = "known"
        /\ \A d \in Calls \ {c} : call'[d] = call[d]
        /\ call'[c].rpm = NoLimit
        /\ Start' = Start /\ Count' = Count
      BY <1>1, AllowStep DEF IInv
  <2>2. Counted' = Counted /\ c \notin Counted
      BY <1>1, <2>1 DEF Counted
  <2>3. \A d \in Counted : /\ call'[d].pc = call[d].pc /\ call'[d].at = call[d].at
                            /\ call'[d].rpm = call[d].rpm
      BY <2>1, <2>2 DEF Counted
  <2>4. now <= now'
      BY <2>1, Numbers DEF IInv
  <2>5. QED
      BY <2>1, <2>2, <2>3, <2>4, Uncounted
<1>2. QED
    BY <1>1, OpensWindow, WithinWindow

\* A step of a call that has not asked the limiter.
LEMMA LookupInv ==
    ASSUME IInv, NEW c \in Calls, Lookup(c) \/ LookupFails(c)
    PROVE  IInv'
<1>1. /\ call[c].pc = "new"
      /\ \E d \in CallType : call' = [call EXCEPT ![c] = d] /\ d.pc \in {"known", "refused"}
      /\ UNCHANGED <<key, entry, now>>
  <2>0. call \in [Calls -> CallType] /\ key \in KeyType /\ call[c] \in CallType
      BY Types DEF IInv
  <2>1. CASE LookupFails(c)
    <3>1. [call[c] EXCEPT !.pc = "refused"] \in CallType
          /\ [call[c] EXCEPT !.pc = "refused"].pc = "refused"
        BY <2>0 DEF CallType
    <3>2. call' = [call EXCEPT ![c] = [call[c] EXCEPT !.pc = "refused"]]
        BY <2>0, <2>1 DEF LookupFails
    <3>3. QED
        BY <2>1, <3>1, <3>2 DEF LookupFails
  <2>2. CASE Lookup(c)
    <3>1. PICK tokens \in Sizes :
            call' = [call EXCEPT ![c] =
                    IF key.valid
                    THEN [@ EXCEPT !.pc = "known", !.rpm = key.rpm, !.tpm = key.tpm,
                                   !.tokens = tokens]
                    ELSE [@ EXCEPT !.pc = "refused"]]
        BY <2>2 DEF Lookup
    <3> DEFINE known == [call[c] EXCEPT !.pc = "known", !.rpm = key.rpm, !.tpm = key.tpm,
                                        !.tokens = tokens]
               refused == [call[c] EXCEPT !.pc = "refused"]
    <3>2. /\ known \in CallType /\ known.pc = "known"
          /\ refused \in CallType /\ refused.pc = "refused"
        BY <2>0 DEF CallType, KeyType
    <3>3. call' = [call EXCEPT ![c] = known] \/ call' = [call EXCEPT ![c] = refused]
        BY <3>1
    <3> HIDE DEF known, refused
    <3>4. QED
        BY <2>2, <3>2, <3>3 DEF Lookup
  <2>3. QED
      BY <2>1, <2>2
<1>2. PICK d \in CallType : call' = [call EXCEPT ![c] = d] /\ d.pc \in {"known", "refused"}
    BY <1>1
<1>3. call \in [Calls -> CallType] /\ key \in KeyType /\ entry \in EntryType /\ now \in Nat
    BY Types DEF IInv
<1>4. call' \in [Calls -> CallType] /\ call'[c] = d /\ \A b \in Calls \ {c} : call'[b] = call[b]
    BY <1>2, <1>3
<1>5. TypeOK'
    BY <1>1, <1>3, <1>4 DEF TypeOK, EntryType, CallType
<1>6. Counted' = Counted /\ c \notin Counted
    BY <1>1, <1>2, <1>4 DEF Counted
<1>7. \A b \in Counted : /\ call'[b].pc = call[b].pc /\ call'[b].at = call[b].at
                          /\ call'[b].rpm = call[b].rpm
    BY <1>4, <1>6 DEF Counted
<1>8. now <= now' /\ Start' = Start /\ Count' = Count
    BY <1>1, <1>3 DEF Start, Count
<1>9. QED
    BY <1>5, <1>6, <1>7, <1>8, Uncounted

LEMMA NextInv == IInv /\ [Next]_vars => IInv'
<1> SUFFICES ASSUME IInv, [Next]_vars PROVE IInv'
    OBVIOUS
<1>0. call \in [Calls -> CallType] /\ key \in KeyType /\ entry \in EntryType /\ now \in Nat
    BY Types DEF IInv
<1>1. ASSUME call' = call, entry' = entry, key' \in KeyType, now' \in Nat, now <= now'
      PROVE  IInv'
  <2>1. TypeOK'
      BY <1>0, <1>1 DEF TypeOK, EntryType, CallType
  <2>2. Counted' = Counted /\ Start' = Start /\ Count' = Count
      BY <1>1 DEF Counted, Start, Count
  <2>3. QED
      BY <1>1, <2>1, <2>2, Uncounted
<1>2. CASE ChangeKey
    BY <1>0, <1>1, <1>2 DEF ChangeKey
<1>3. CASE Tick
    BY <1>0, <1>1, <1>3 DEF Tick
<1>4. CASE UNCHANGED vars
    BY <1>0, <1>1, <1>4 DEF vars
<1>5. QED
    BY <1>2, <1>3, <1>4, AllowInv, LookupInv DEF Next

\* The inductive invariant of the limit of requests.
THEOREM Invariance == Spec => []IInv
BY InitInv, NextInv, PTL DEF Spec

\* In any span of a window's length fewer requests than twice the limit are
\* admitted, wherever it begins, where the limit is the largest under which one
\* of them was admitted (KeyLimiter.allow).
THEOREM BurstsBounded == Spec => []RequestsBounded
<1>1. IInv => RequestsBounded
  <2> SUFFICES ASSUME IInv, NEW t \in 0 .. now,
                      {c \in AdmittedFrom(t) : call[c].rpm # NoLimit} # {}
               PROVE  \E c \in {c \in AdmittedFrom(t) : call[c].rpm # NoLimit} :
                        Cardinality({d \in AdmittedFrom(t) : call[d].rpm # NoLimit})
                          < 2 * call[c].rpm
      BY DEF RequestsBounded
  <2>1. {c \in AdmittedFrom(t) : call[c].rpm # NoLimit} = PassedIn(t, t + Window)
      BY DEF AdmittedFrom, SeenFrom, PassedIn, Passed, Counted
  <2>2. t \in Int
      BY Numbers DEF IInv
  <2>3. FitsTwice(Rpm, PassedIn(t, t + Window))
      BY <2>2 DEF IInv, AnyWindow
  <2>4. PICK c \in PassedIn(t, t + Window) : Cardinality(PassedIn(t, t + Window)) < 2 * Rpm[c]
      BY <2>1, <2>3 DEF FitsTwice
  <2>5. Rpm[c] = call[c].rpm
      BY DEF Rpm, PassedIn, Passed, Counted
  <2>6. QED
      BY <2>1, <2>4, <2>5
<1>2. QED
    BY <1>1, Invariance, PTL

-----------------------------------------------------------------------------
\* Limited calls from one that was within the limit on, in the window of time
\* that ends now.
Deserving(n) ==
    \E o \in LimitedFrom(now - Window + 1) :
        /\ call[o].pc # "rpm exceeded"
        /\ Cardinality({d \in LimitedFrom(now - Window + 1) : call[o].at <= call[d].at}) >= n

\* A call over the limit of requests was preceded by that many since the one
\* that opened the window.
LEMMA OverLimit ==
    ASSUME IInv, NEW c \in Calls, Allow(c), NEW rpm \in Nat, rpm = call[c].rpm,
           rpm # NoLimit, Count' > rpm
    PROVE  Deserving(rpm)
<1>1. 1 <= rpm /\ Start \in Int /\ Count \in Nat /\ now \in Nat /\ Window \in Nat
    BY Numbers DEF IInv
<1>2. ~WindowOver(Start) /\ Count' = Count + 1
  <2>1. WindowOver(Start) => Count' = 1
      BY AllowStep DEF IInv
  <2>2. ~WindowOver(Start)
      BY <1>1, <2>1
  <2>3. QED
      BY <2>2, AllowStep DEF IInv
<1>3. Start >= now - Window + 1
    BY <1>1, <1>2 DEF WindowOver
<1>4. CountedFrom(Start) \subseteq LimitedFrom(now - Window + 1)
  <2>1. \A d \in Calls : call[d].at \in Nat
      BY Numbers DEF IInv
  <2>2. \A d \in Counted : d \in Calls /\ call[d].at <= now
      BY DEF IInv, Clock, Counted
  <2>3. \A d \in CountedFrom(Start) :
            now - Window + 1 <= call[d].at /\ call[d].at < now - Window + 1 + Window
      BY <1>1, <1>3, <2>1, <2>2 DEF CountedFrom
  <2>4. QED
      BY <2>3 DEF LimitedFrom, SeenFrom, CountedFrom, Counted
<1>5. PICK o \in Counted : call[o].at = Start /\ call[o].pc # "rpm exceeded"
  <2>1. Count > 0
    <3>1. Count = 0 => Start = -Window
        BY DEF IInv, Clock
    <3>2. QED
        BY <1>1, <1>3, <3>1
  <2>2. QED
      BY <2>1 DEF IInv, Opened
<1>6. o \in LimitedFrom(now - Window + 1)
  <2>1. call[o].at = Start
      BY <1>5
  <2>2. Start <= call[o].at
      BY <1>1, <2>1
  <2>3. QED
      BY <1>4, <2>2 DEF CountedFrom
<1> DEFINE since == {d \in LimitedFrom(now - Window + 1) : call[o].at <= call[d].at}
<1>7. CountedFrom(Start) \subseteq since /\ since \subseteq Calls
    BY <1>4, <1>5 DEF CountedFrom, LimitedFrom, SeenFrom
<1>8. Count <= Cardinality(CountedFrom(Start))
    BY DEF IInv, CountHonest
<1> HIDE DEF since
<1>9. Cardinality(CountedFrom(Start)) <= Cardinality(since)
    BY <1>7, Part
<1>10. Cardinality(CountedFrom(Start)) \in Nat /\ Cardinality(since) \in Nat
    BY <1>7, FiniteParts
<1>11. Cardinality(since) >= rpm
    BY <1>1, <1>2, <1>8, <1>9, <1>10
<1>12. QED
    BY <1>5, <1>6, <1>11 DEF Deserving, since

\* A lookup leaves the call known or refused.
LEMMA LookupPc ==
    ASSUME call \in [Calls -> CallType], NEW c \in Calls, Lookup(c) \/ LookupFails(c)
    PROVE  call'[c].pc \in {"known", "refused"}
<1>0. call[c] \in CallType
    OBVIOUS
<1>1. CASE LookupFails(c)
    BY <1>0, <1>1 DEF LookupFails, CallType
<1>2. CASE Lookup(c)
  <2>1. PICK tokens \in Sizes :
          call' = [call EXCEPT ![c] =
                  IF key.valid
                  THEN [@ EXCEPT !.pc = "known", !.rpm = key.rpm, !.tpm = key.tpm,
                                 !.tokens = tokens]
                  ELSE [@ EXCEPT !.pc = "refused"]]
      BY <1>2 DEF Lookup
  <2>2. call'[c] = IF key.valid
                   THEN [call[c] EXCEPT !.pc = "known", !.rpm = key.rpm, !.tpm = key.tpm,
                                        !.tokens = tokens]
                   ELSE [call[c] EXCEPT !.pc = "refused"]
      BY <2>1
  <2>3. CASE key.valid
      BY <1>0, <2>2, <2>3 DEF CallType
  <2>4. CASE ~key.valid
      BY <1>0, <2>2, <2>4 DEF CallType
  <2>5. QED
      BY <2>3, <2>4
<1>3. QED
    BY <1>1, <1>2

\* Only allow turns a call away for a limit.
LEMMA Rejecting ==
    ASSUME IInv, [Next]_vars, NEW c \in Calls, call'[c].pc # call[c].pc,
           call'[c].pc \in {"rpm exceeded", "tpm exceeded"}
    PROVE  Allow(c)
<1>1. call' # call
    OBVIOUS
<1>2. PICK b \in Calls : Lookup(b) \/ LookupFails(b) \/ Allow(b)
    BY <1>1 DEF Next, vars, ChangeKey, Tick
<1>3. call \in [Calls -> CallType]
    BY Types DEF IInv
<1>4. b = c
  <2>1. Lookup(b) => \A d \in Calls \ {b} : call'[d] = call[d]
      BY <1>3 DEF Lookup
  <2>2. LookupFails(b) => \A d \in Calls \ {b} : call'[d] = call[d]
      BY <1>3 DEF LookupFails
  <2>3. Allow(b) => \A d \in Calls \ {b} : call'[d] = call[d]
      BY AllowStep DEF IInv
  <2>4. QED
      BY <1>2, <2>1, <2>2, <2>3
<1>5. QED
    BY <1>2, <1>3, <1>4, LookupPc

LEMMA DeservedStep ==
    ASSUME IInv, [Next]_vars, NEW c \in Calls,
           call[c].pc # "rpm exceeded", call'[c].pc = "rpm exceeded"
    PROVE  Deserving(call[c].rpm)
<1>1. Allow(c)
    BY Rejecting
<1>2. call[c].rpm \in Nat
    BY Numbers DEF IInv
<1>3. call[c].rpm # NoLimit
    BY <1>1, AllowStep DEF IInv
<1>4. Count' > call[c].rpm
    BY <1>1, <1>3, AllowStep DEF IInv
<1>5. QED
    BY <1>1, <1>2, <1>3, <1>4, OverLimit

\* A call is over the limit of requests only if a call that was not opened a
\* window less than 60 s ago, and at least as many as the limit allows were
\* made since (KeyLimiter.allow).
THEOREM RejectionsAreDeserved == Spec => RejectionsDeserved
<1> DEFINE Deserved ==
      \A c \in Calls :
          call[c].pc # "rpm exceeded" /\ call'[c].pc = "rpm exceeded" =>
              \E o \in LimitedFrom(now - Window + 1) :
                  /\ call[o].pc # "rpm exceeded"
                  /\ Cardinality({d \in LimitedFrom(now - Window + 1) :
                                    call[o].at <= call[d].at}) >= call[c].rpm
<1>1. IInv /\ [Next]_vars => [Deserved]_vars
    BY DeservedStep DEF Deserving
<1>2. QED
    BY <1>1, Invariance, PTL DEF Spec, RejectionsDeserved
-----------------------------------------------------------------------------
(***************************************************************************)
(* The limit of tokens: sums where the limit of requests has counts.       *)
(***************************************************************************)

\* The tokens of a set of calls.
Charges == [c \in Calls |-> call[c].tokens]

LEMMA TokensAreSums ==
    ASSUME NEW S \in SUBSET Calls
    PROVE  TokensOf(S) = SumOf(Charges, S)
<1> DEFINE R(g) == g = [s \in SUBSET S |-> IF s = {} THEN 0
                            ELSE call[CHOOSE x \in s : TRUE].tokens + g[s \ {CHOOSE x \in s : TRUE}]]
<1>1. TokensOf(S) = (CHOOSE g : R(g))[S]
    BY Zenon DEF TokensOf, MapThenSumSet, MapThenFoldSet
<1>2. \A s \in SUBSET S : s # {} => Charges[Some(s)] = call[Some(s)].tokens
    BY SomeIn DEF Charges
<1>3. \A g : R(g) <=> Sums(g, Charges, S)
    BY <1>2 DEF Sums, Some
<1>4. IsFiniteSet(S)
    BY LimiterConstants, FS_Subset
<1> DEFINE g == CHOOSE k : R(k)
           h == CHOOSE k : Sums(k, Charges, S)
<1>5. Sums(h, Charges, S) /\ SumOf(Charges, S) = h[S]
    BY <1>4, SumsExist DEF SumOf
<1>6. R(g)
  <2> HIDE DEF R, h
  <2>3. R(h)
      BY <1>3, <1>5
  <2>1. \E k : R(k)
      BY <2>3
  <2>2. QED
      BY <2>1
<1>7. Sums(g, Charges, S)
    BY <1>3, <1>6
<1>8. TokensOf(S) = g[S]
    BY <1>1
<1> HIDE DEF g, h, R
<1>9. S \subseteq S /\ \A x \in S : Charges[x] = Charges[x]
    OBVIOUS
<1>10. g[S] = h[S]
    BY <1>4, <1>5, <1>7, <1>9, SumsAgree
<1>11. QED
    BY <1>5, <1>8, <1>10

-----------------------------------------------------------------------------
(***************************************************************************)
(* The limit of tokens.  Its window is like the one of requests, with the  *)
(* sum of the tokens in the place of the number of calls.                  *)
(***************************************************************************)
TokenStart == entry.tpmStart
Tokens == entry.tpmTokens
MaxTpm == Max(TpmLimits)

\* Calls that were charged against a limit of tokens, and those admitted.
Charged == {c \in Calls : /\ call[c].pc \in {"admitted", "tpm exceeded"}
                          /\ call[c].tpm # NoLimit}
Afforded == {c \in Charged : call[c].pc = "admitted"}

ChargedFrom(lo) == {c \in Charged : lo <= call[c].at}
AffordedFrom(lo) == {c \in Afforded : lo <= call[c].at}
AffordedIn(lo, hi) == {c \in Afforded : lo <= call[c].at /\ call[c].at < hi}

TokenClock ==
    /\ TokenStart <= now
    /\ \A c \in Charged : call[c].at <= now /\ call[c].at < TokenStart + Window

\* The entry holds the tokens of the calls that were charged in the window.
TokensHonest == Tokens = SumOf(Charges, ChargedFrom(TokenStart))

TokensCurrent == SumOf(Charges, AffordedFrom(TokenStart)) <= MaxTpm

TokensOlder ==
    \A t \in Int : t > TokenStart - Window =>
        SumOf(Charges, AffordedIn(t, TokenStart)) <= MaxTpm

TokensAny == \A t \in Int : SumOf(Charges, AffordedIn(t, t + Window)) <= 2 * MaxTpm

TokenInv ==
    /\ TypeOK
    /\ TokenClock
    /\ TokensHonest
    /\ TokensCurrent
    /\ TokensOlder
    /\ TokensAny

LEMMA LargestTokenLimit == MaxTpm \in Nat /\ \A n \in TpmLimits : n <= MaxTpm
<1>1. MaxTpm \in TpmLimits /\ \A n \in TpmLimits : MaxTpm >= n
    BY LimiterConstants DEF MaxTpm, Max
<1>2. QED
    BY <1>1, LimiterConstants

\* The numbers in a state.
LEMMA TokenNumbers ==
    ASSUME TypeOK
    PROVE  /\ TokenStart \in Int /\ Tokens \in Nat
           /\ now \in Nat /\ Window \in Nat /\ Window > 0
           /\ \A c \in Calls : call[c].at \in Nat
           /\ \A c \in Calls : Charges[c] \in Nat /\ Charges[c] = call[c].tokens
           /\ \A c \in Calls : call[c].tpm \in Nat
           /\ \A c \in Calls : call[c].tpm # NoLimit => call[c].tpm <= MaxTpm
<1>1. entry \in EntryType /\ now \in Nat /\ call \in [Calls -> CallType]
    BY Types
<1>2. \A c \in Calls : call[c].at \in Nat /\ call[c].tokens \in Nat /\ call[c].tpm \in Nat
                       /\ (call[c].tpm # NoLimit => call[c].tpm \in TpmLimits)
    BY <1>1, CallTypes
<1>3. Window \in Nat /\ Window > 0
    BY LimiterConstants
<1>4. \A c \in Calls : call[c].tpm # NoLimit => call[c].tpm <= MaxTpm
    BY <1>2, LargestTokenLimit
<1>5. TokenStart \in Int /\ Tokens \in Nat
    BY <1>1 DEF EntryType, TokenStart, Tokens
<1>6. \A c \in Calls : Charges[c] \in Nat /\ Charges[c] = call[c].tokens
    BY <1>2 DEF Charges
<1>7. QED
    BY <1>1, <1>2, <1>3, <1>4, <1>5, <1>6

\* Sums over calls.
LEMMA CallSums ==
    ASSUME TypeOK, NEW T \in SUBSET Calls
    PROVE  /\ IsFiniteSet(T) /\ SumOf(Charges, T) \in Nat
           /\ \A S \in SUBSET T : SumOf(Charges, S) <= SumOf(Charges, T)
<1>1. IsFiniteSet(T)
    BY FiniteParts
<1>2. \A x \in T : Charges[x] \in Nat
    BY TokenNumbers
<1>3. QED
    BY <1>1, <1>2, SumNat, SumPart

\* What allow does to the caller and to the tokens.
LEMMA AllowTokens ==
    ASSUME TypeOK, NEW c \in Calls, Allow(c)
    PROVE  /\ call'[c].tpm = call[c].tpm
           /\ \A d \in Calls : call'[d].tokens = call[d].tokens
           /\ call[c].tpm = NoLimit \/ call'[c].pc = "rpm exceeded" =>
                  TokenStart' = TokenStart /\ Tokens' = Tokens
           /\ call[c].tpm # NoLimit /\ call'[c].pc # "rpm exceeded" /\ WindowOver(TokenStart) =>
                  TokenStart' = now /\ Tokens' = call[c].tokens
           /\ call[c].tpm # NoLimit /\ call'[c].pc # "rpm exceeded" /\ ~WindowOver(TokenStart) =>
                  TokenStart' = TokenStart /\ Tokens' = Tokens + call[c].tokens
           /\ call'[c].pc = "tpm exceeded" => call[c].tpm # NoLimit /\ Tokens' > call[c].tpm
           /\ call'[c].pc = "admitted" /\ call[c].tpm # NoLimit => ~(Tokens' > call[c].tpm)
<1> DEFINE rpm == call[c].rpm
           tpm == call[c].tpm
           counted == IF rpm = NoLimit THEN entry ELSE CountRequest(entry)
           free == tpm = NoLimit \/ RpmExceeded(counted, rpm)
           charged == IF free THEN counted ELSE AddTokens(counted, call[c].tokens)
           pc == CASE RpmExceeded(counted, rpm) -> "rpm exceeded"
                   [] ~RpmExceeded(counted, rpm) /\ TpmExceeded(charged, tpm) -> "tpm exceeded"
                   [] OTHER -> "admitted"
<1>1. /\ entry' = charged
      /\ call' = [call EXCEPT ![c].at = now, ![c].pc = pc]
    BY DEF Allow
<1>2. entry \in EntryType /\ now \in Nat /\ call[c].tokens \in Nat
    BY Types, CallTypes
<1>3. /\ counted \in EntryType
      /\ counted.tpmStart = entry.tpmStart /\ counted.tpmTokens = entry.tpmTokens
    BY <1>2, CountStep
<1>4. /\ free <=> tpm = NoLimit \/ pc = "rpm exceeded"
      /\ free => charged = counted
      /\ ~free => charged = AddTokens(counted, call[c].tokens)
    OBVIOUS
<1>5. /\ pc = "tpm exceeded" => TpmExceeded(charged, tpm)
      /\ pc = "admitted" => ~TpmExceeded(charged, tpm)
    OBVIOUS
<1> HIDE DEF counted, charged, pc, free
<1>6. /\ call'[c].pc = pc /\ call'[c].tpm = tpm
      /\ \A d \in Calls : call'[d].tokens = call[d].tokens
  <2>1. call \in [Calls -> CallType]
      BY Types
  <2>2. call' = [call EXCEPT ![c] = [call[c] EXCEPT !.at = now, !.pc = pc]]
      BY <1>1, <2>1
  <2>3. call'[c] = [call[c] EXCEPT !.at = now, !.pc = pc] /\ call[c] \in CallType
      BY <2>1, <2>2
  <2>4. call'[c].pc = pc /\ call'[c].tpm = tpm /\ call'[c].tokens = call[c].tokens
      BY <2>3 DEF CallType
  <2>5. QED
      BY <2>1, <2>2, <2>4
<1>7. TokenStart = entry.tpmStart /\ Tokens = entry.tpmTokens
      /\ TokenStart' = charged.tpmStart /\ Tokens' = charged.tpmTokens
    BY <1>1 DEF TokenStart, Tokens
<1>8. free => TokenStart' = TokenStart /\ Tokens' = Tokens
    BY <1>3, <1>4, <1>7
<1>9. /\ ~free /\ WindowOver(TokenStart) => TokenStart' = now /\ Tokens' = call[c].tokens
      /\ ~free /\ ~WindowOver(TokenStart) =>
             TokenStart' = TokenStart /\ Tokens' = Tokens + call[c].tokens
  <2> DEFINE e == AddTokens(counted, call[c].tokens)
  <2>1. /\ WindowOver(counted.tpmStart) => e.tpmStart = now /\ e.tpmTokens = call[c].tokens
        /\ ~WindowOver(counted.tpmStart) =>
               e.tpmStart = counted.tpmStart /\ e.tpmTokens = counted.tpmTokens + call[c].tokens
      BY <1>2, <1>3, TokensStep
  <2>2. WindowOver(counted.tpmStart) <=> WindowOver(TokenStart)
      BY <1>3, <1>7 DEF WindowOver
  <2>3. counted.tpmStart = TokenStart /\ counted.tpmTokens = Tokens
      BY <1>3, <1>7
  <2>4. ~free => TokenStart' = e.tpmStart /\ Tokens' = e.tpmTokens
      BY <1>4, <1>7
  <2> HIDE DEF e
  <2>5. QED
      BY <2>1, <2>2, <2>3, <2>4
<1>10. /\ pc = "tpm exceeded" => tpm # NoLimit /\ Tokens' > tpm
       /\ pc = "admitted" /\ tpm # NoLimit => ~(Tokens' > tpm)
    BY <1>5, <1>7 DEF TpmExceeded, Exceeds
<1>11. QED
    BY <1>4, <1>6, <1>8, <1>9, <1>10

-----------------------------------------------------------------------------
LEMMA InitTokenInv == Init => TokenInv
<1> SUFFICES ASSUME Init PROVE TokenInv
    OBVIOUS
<1>1. TypeOK
    BY InitInv DEF IInv
<1>2. Charged = {}
    BY DEF Init, Charged
<1>3. /\ \A lo \in Int : ChargedFrom(lo) = {} /\ AffordedFrom(lo) = {}
      /\ \A lo, hi \in Int : AffordedIn(lo, hi) = {}
    BY <1>2 DEF ChargedFrom, AffordedFrom, AffordedIn, Afforded
<1>4. TokenStart = -Window /\ Tokens = 0 /\ now = 0 /\ Window \in Nat /\ TokenStart \in Int
    BY LimiterConstants DEF Init, TokenStart, Tokens
<1>5. TokenClock
    BY <1>2, <1>4 DEF TokenClock
<1>6. TokensHonest
    BY <1>3, <1>4, SumEmpty DEF TokensHonest
<1>7. MaxTpm \in Nat
    BY LargestTokenLimit
<1>8. TokensCurrent
  <2>1. SumOf(Charges, AffordedFrom(TokenStart)) = 0
      BY <1>3, <1>4, SumEmpty
  <2>2. QED
      BY <1>7, <2>1 DEF TokensCurrent
<1>9. TokensOlder
  <2> SUFFICES ASSUME NEW t \in Int
               PROVE  SumOf(Charges, AffordedIn(t, TokenStart)) <= MaxTpm
      BY DEF TokensOlder
  <2>1. SumOf(Charges, AffordedIn(t, TokenStart)) = 0
      BY <1>3, <1>4, SumEmpty
  <2>2. QED
      BY <1>7, <2>1
<1>10. TokensAny
  <2> SUFFICES ASSUME NEW t \in Int
               PROVE  SumOf(Charges, AffordedIn(t, t + Window)) <= 2 * MaxTpm
      BY DEF TokensAny
  <2>1. t + Window \in Int
      BY <1>4
  <2>2. SumOf(Charges, AffordedIn(t, t + Window)) = 0
      BY <1>3, <2>1, SumEmpty
  <2>3. QED
      BY <1>7, <2>2
<1>11. QED
    BY <1>1, <1>5, <1>6, <1>8, <1>9, <1>10 DEF TokenInv

\* A step that charges no call.
LEMMA Uncharged ==
    ASSUME TokenInv, TypeOK', Charged' = Charged, now <= now',
           \A c \in Charged : call'[c] = call[c],
           TokenStart' = TokenStart, Tokens' = Tokens
    PROVE  TokenInv'
<1>1. Afforded' = Afforded /\ Afforded \subseteq Charged /\ Charged \subseteq Calls
    BY DEF Afforded, Charged
<1>2. /\ \A lo \in Int : /\ ChargedFrom(lo)' = ChargedFrom(lo) /\ ChargedFrom(lo) \subseteq Charged
                         /\ AffordedFrom(lo)' = AffordedFrom(lo) /\ AffordedFrom(lo) \subseteq Charged
      /\ \A lo, hi \in Int : /\ AffordedIn(lo, hi)' = AffordedIn(lo, hi)
                             /\ AffordedIn(lo, hi) \subseteq Charged
    BY <1>1 DEF ChargedFrom, AffordedFrom, AffordedIn
<1>3. TokenStart \in Int /\ now \in Int /\ now' \in Int /\ Window \in Nat
    <2>1. now' \in Nat
        BY DEF TypeOK
    <2>2. QED
        BY <2>1, TokenNumbers DEF TokenInv
<1>4. \A c \in Calls : call[c].at \in Nat
    BY TokenNumbers DEF TokenInv
<1>5. ASSUME NEW S \in SUBSET Charged PROVE SumOf(Charges', S) = SumOf(Charges, S)
  <2>1. \A c \in S : Charges'[c] = Charges[c]
      BY <1>1 DEF Charges
  <2>2. IsFiniteSet(S)
      BY <1>1, FiniteParts
  <2>3. QED
      BY <2>1, <2>2, SumSame
<1>6. TokenClock'
    BY <1>1, <1>3, <1>4 DEF TokenInv, TokenClock
<1>7. TokensHonest'
  <2>1. ChargedFrom(TokenStart)' = ChargedFrom(TokenStart)
      BY <1>2, <1>3
  <2>2. QED
      BY <1>2, <1>3, <1>5, <2>1 DEF TokenInv, TokensHonest
<1>8. TokensCurrent'
  <2>1. AffordedFrom(TokenStart)' = AffordedFrom(TokenStart)
      BY <1>2, <1>3
  <2>2. QED
      BY <1>2, <1>3, <1>5, <2>1 DEF TokenInv, TokensCurrent
<1>9. TokensOlder'
  <2> SUFFICES ASSUME NEW t \in Int, t > TokenStart - Window
               PROVE  SumOf(Charges, AffordedIn(t, TokenStart))' <= MaxTpm
      BY DEF TokensOlder
  <2>1. AffordedIn(t, TokenStart)' = AffordedIn(t, TokenStart)
      BY <1>2, <1>3
  <2>2. SumOf(Charges, AffordedIn(t, TokenStart)) <= MaxTpm
      BY DEF TokenInv, TokensOlder
  <2>3. QED
      BY <1>2, <1>3, <1>5, <2>1, <2>2
<1>10. TokensAny'
  <2> SUFFICES ASSUME NEW t \in Int
               PROVE  SumOf(Charges, AffordedIn(t, t + Window))' <= 2 * MaxTpm
      BY DEF TokensAny
  <2>0. t + Window \in Int
      BY <1>3
  <2>1. AffordedIn(t, t + Window)' = AffordedIn(t, t + Window)
      BY <1>2, <2>0
  <2>2. SumOf(Charges, AffordedIn(t, t + Window)) <= 2 * MaxTpm
      BY DEF TokenInv, TokensAny
  <2>3. QED
      BY <1>2, <1>5, <2>0, <2>1, <2>2
<1>11. QED
    BY <1>6, <1>7, <1>8, <1>9, <1>10 DEF TokenInv

\* A call is charged.
Charging(c) == Allow(c) /\ call[c].tpm # NoLimit /\ call'[c].pc # "rpm exceeded"

LEMMA ChargingStep ==
    ASSUME TypeOK, NEW c \in Calls, Charging(c)
    PROVE  /\ WindowOver(TokenStart) => TokenStart' = now /\ Tokens' = call[c].tokens
           /\ ~WindowOver(TokenStart) =>
                  TokenStart' = TokenStart /\ Tokens' = Tokens + call[c].tokens
           /\ call'[c].pc = "admitted" => ~(Tokens' > call[c].tpm)
BY AllowTokens DEF Charging

\* The caller is c and the time is now; the window that it falls into.
LEMMA ChargedStep ==
    ASSUME TokenInv, NEW c \in Calls, Charging(c)
    PROVE  /\ TypeOK' /\ now' = now
           /\ Charged' = Charged \cup {c} /\ c \notin Charged
           /\ call'[c].at = now
           /\ \A d \in Charged : call'[d] = call[d]
           /\ Afforded \subseteq Afforded' /\ Afforded' \subseteq Afforded \cup {c}
           /\ Afforded \subseteq Charged /\ Charged \subseteq Calls
           /\ Afforded' \subseteq Charged'
           /\ Afforded' = Afforded \/ ~(Tokens' > call[c].tpm)
           /\ call[c].tpm # NoLimit
           /\ Charges' = Charges
           /\ TokenStart' <= now /\ TokenStart' \in Int /\ now < TokenStart' + Window
<1>1. /\ TypeOK' /\ now' = now /\ call[c].pc = "known"
      /\ \A d \in Calls \ {c} : call'[d] = call[d]
      /\ call'[c].at = now
      /\ call'[c].pc \in {"admitted", "rpm exceeded", "tpm exceeded"}
    BY AllowStep DEF TokenInv, Charging
<1>2. call'[c].tpm = call[c].tpm /\ \A d \in Calls : call'[d].tokens = call[d].tokens
    BY AllowTokens DEF TokenInv, Charging
<1>3. c \notin Charged /\ \A d \in Charged : d # c /\ d \in Calls
    BY <1>1 DEF Charged
<1>4. Charged' = Charged \cup {c}
    BY <1>1, <1>2 DEF Charged, Charging
<1>5. \A d \in Charged : call'[d] = call[d]
    BY <1>1, <1>3
<1>6. Afforded \subseteq Afforded' /\ Afforded' \subseteq Afforded \cup {c}
      /\ Afforded \subseteq Charged /\ Afforded' \subseteq Charged'
    BY <1>4, <1>5 DEF Afforded
<1>7. (Afforded' = Afforded \/ ~(Tokens' > call[c].tpm)) /\ call[c].tpm # NoLimit
  <2>1. call'[c].pc # "admitted" => Afforded' = Afforded
      BY <1>3, <1>4, <1>5 DEF Afforded
  <2>2. call'[c].pc = "admitted" => ~(Tokens' > call[c].tpm)
      BY ChargingStep DEF TokenInv
  <2>3. QED
      BY <2>1, <2>2 DEF Charging
<1>8. Charges' = Charges
    BY <1>2 DEF Charges
<1>9. TokenStart' <= now /\ TokenStart' \in Int /\ now < TokenStart' + Window
  <2>1. TokenStart \in Int /\ now \in Nat /\ Window \in Nat /\ Window > 0
      BY TokenNumbers DEF TokenInv
  <2>2. TokenStart <= now
      BY DEF TokenInv, TokenClock
  <2>3. \/ TokenStart' = now
        \/ TokenStart' = TokenStart /\ ~WindowOver(TokenStart)
      BY ChargingStep DEF TokenInv
  <2>4. QED
      BY <2>1, <2>2, <2>3 DEF WindowOver
<1>10. QED
    BY <1>1, <1>3, <1>4, <1>5, <1>6, <1>7, <1>8, <1>9 DEF Charged

\* What the call leaves of an older window, and how the entry grows.
LEMMA ChargedWindow ==
    ASSUME TokenInv, NEW c \in Calls, Charging(c)
    PROVE  /\ \A d \in Charged : call[d].at <= now /\ call[d].at < TokenStart' + Window
           /\ TokensHonest'
           /\ TokensOlder'
<1> DEFINE s == TokenStart'
<1>1. /\ now' = now
      /\ Charged' = Charged \cup {c} /\ c \notin Charged
      /\ call'[c].at = now
      /\ \A d \in Charged : call'[d] = call[d]
      /\ Afforded \subseteq Afforded' /\ Afforded' \subseteq Afforded \cup {c}
      /\ Afforded \subseteq Charged /\ Charged \subseteq Calls
      /\ Charges' = Charges
      /\ s <= now /\ s \in Int /\ now < s + Window
    BY ChargedStep
<1>2. /\ TokenStart \in Int /\ now \in Nat /\ Window \in Nat /\ Window > 0 /\ Tokens \in Nat
      /\ \A d \in Calls : call[d].at \in Nat
      /\ \A d \in Calls : Charges[d] \in Nat /\ Charges[d] = call[d].tokens
    BY TokenNumbers DEF TokenInv
<1>3. \A d \in Charged : call[d].at <= now /\ call[d].at < TokenStart + Window
    BY DEF TokenInv, TokenClock
<1>4. TypeOK
    BY DEF TokenInv
<1>5. ChargedFrom(TokenStart)' = ChargedFrom(s) \cup {c} /\ c \notin ChargedFrom(s)
      /\ ChargedFrom(s) \subseteq Calls /\ ChargedFrom(s) \cup {c} \subseteq Calls
    BY <1>1, <1>2 DEF ChargedFrom
<1>6. SumOf(Charges, ChargedFrom(s) \cup {c}) = SumOf(Charges, ChargedFrom(s)) + call[c].tokens
  <2> DEFINE T == ChargedFrom(s)
  <2>1. IsFiniteSet(T) /\ c \notin T /\ \A x \in T \cup {c} : Charges[x] \in Nat
      BY <1>2, <1>5, FiniteParts
  <2> HIDE DEF T
  <2>2. SumOf(Charges, T \cup {c}) = SumOf(Charges, T) + Charges[c]
      BY <2>1, SumAdd
  <2>3. QED
      BY <1>2, <2>2 DEF T
<1>7. ASSUME NEW t \in Int
      PROVE  AffordedIn(t, TokenStart)' = AffordedIn(t, s) /\ AffordedIn(t, s) \subseteq Calls
    BY <1>1, <1>2 DEF AffordedIn
<1>8. CASE WindowOver(TokenStart)
  <2>1. s = now /\ Tokens' = call[c].tokens
      BY <1>4, <1>8, ChargingStep
  <2>2. TokenStart + Window <= now
      BY <1>2, <1>8 DEF WindowOver
  <2>3. \A d \in Charged : call[d].at < now
      BY <1>1, <1>2, <1>3, <2>2
  <2>4. ChargedFrom(s) = {}
      BY <1>1, <1>2, <2>1, <2>3 DEF ChargedFrom
  <2>5. TokensHonest'
    <3>1. SumOf(Charges, ChargedFrom(s) \cup {c}) = call[c].tokens
      <4>1. SumOf(Charges, ChargedFrom(s)) = 0
          BY <2>4, SumEmpty
      <4>2. call[c].tokens \in Nat
          BY <1>2
      <4>3. QED
          BY <1>6, <4>1, <4>2
    <3>2. QED
        BY <1>1, <1>5, <2>1, <3>1 DEF TokensHonest
  <2>6. TokensOlder'
    <3> SUFFICES ASSUME NEW t \in Int, t > TokenStart' - Window
                 PROVE  SumOf(Charges, AffordedIn(t, TokenStart))' <= MaxTpm
        BY <1>2 DEF TokensOlder
    <3>1. AffordedIn(t, s) \subseteq AffordedFrom(TokenStart) /\ AffordedFrom(TokenStart) \subseteq Calls
        BY <1>1, <1>2, <2>1, <2>2 DEF AffordedIn, AffordedFrom
    <3>2. SumOf(Charges, AffordedIn(t, s)) <= SumOf(Charges, AffordedFrom(TokenStart))
          /\ SumOf(Charges, AffordedFrom(TokenStart)) \in Nat
          /\ SumOf(Charges, AffordedIn(t, s)) \in Nat
        BY <1>4, <1>7, <3>1, CallSums
    <3>3. SumOf(Charges, AffordedFrom(TokenStart)) <= MaxTpm
        BY DEF TokenInv, TokensCurrent
    <3>4. SumOf(Charges, AffordedIn(t, s)) <= MaxTpm
        BY <3>2, <3>3, LargestTokenLimit
    <3>5. QED
        BY <1>1, <1>7, <3>4
  <2>7. QED
      BY <1>1, <1>2, <1>5, <2>1, <2>3, <2>5, <2>6
<1>9. CASE ~WindowOver(TokenStart)
  <2>1. s = TokenStart /\ Tokens' = Tokens + call[c].tokens
      BY <1>4, <1>9, ChargingStep
  <2>2. TokensHonest'
    <3>1. Tokens = SumOf(Charges, ChargedFrom(TokenStart))
        BY DEF TokenInv, TokensHonest
    <3>2. Tokens' = SumOf(Charges, ChargedFrom(s)) + call[c].tokens
        BY <2>1, <3>1
    <3>3. QED
        BY <1>1, <1>5, <1>6, <3>2 DEF TokensHonest
  <2>3. TokensOlder'
    <3> SUFFICES ASSUME NEW t \in Int, t > TokenStart' - Window
                 PROVE  SumOf(Charges, AffordedIn(t, TokenStart))' <= MaxTpm
        BY <1>2 DEF TokensOlder
    <3>1. SumOf(Charges, AffordedIn(t, s)) <= MaxTpm
        BY <2>1 DEF TokenInv, TokensOlder
    <3>2. QED
        BY <1>1, <1>7, <3>1
  <2>4. QED
      BY <1>3, <1>5, <2>1, <2>2, <2>3
<1>10. QED
    BY <1>8, <1>9

LEMMA ChargeInv ==
    ASSUME TokenInv, NEW c \in Calls, Charging(c)
    PROVE  TokenInv'
<1> DEFINE s == TokenStart'
<1>1. /\ TypeOK' /\ now' = now
      /\ Charged' = Charged \cup {c} /\ c \notin Charged
      /\ call'[c].at = now
      /\ \A d \in Charged : call'[d] = call[d]
      /\ Afforded \subseteq Afforded' /\ Afforded' \subseteq Afforded \cup {c}
      /\ Afforded \subseteq Charged /\ Charged \subseteq Calls
      /\ Charges' = Charges
      /\ s <= now /\ s \in Int /\ now < s + Window
    BY ChargedStep
<1>2. /\ TypeOK /\ TokenStart \in Int /\ now \in Nat /\ Window \in Nat /\ Window > 0
      /\ \A d \in Calls : call[d].at \in Nat
      /\ MaxTpm \in Nat
    BY TokenNumbers, LargestTokenLimit DEF TokenInv
<1>3. /\ \A d \in Charged : call[d].at <= now /\ call[d].at < s + Window
      /\ TokensHonest' /\ TokensOlder'
    BY ChargedWindow
<1>4. TokenClock'
  <2>1. \A d \in Charged' : call'[d].at <= now /\ call'[d].at < s + Window
    <3>1. \A d \in Charged : call'[d].at <= now /\ call'[d].at < s + Window
        BY <1>1, <1>3
    <3>2. call'[c].at <= now /\ call'[c].at < s + Window
        BY <1>1, <1>2
    <3>3. QED
        BY <1>1, <3>1, <3>2
  <2>2. QED
      BY <1>1, <2>1 DEF TokenClock
<1>5. TokensCurrent'
  <2> DEFINE now1 == AffordedFrom(TokenStart)'
             all1 == ChargedFrom(TokenStart)'
  <2>0. now1 \subseteq Calls /\ all1 \subseteq Calls
      BY <1>1 DEF AffordedFrom, ChargedFrom
  <2>1. CASE ~(Tokens' > call[c].tpm)
    <3>1. now1 \subseteq all1
        BY ChargedStep DEF AffordedFrom, ChargedFrom
    <3>2. Tokens' = SumOf(Charges, all1)
        BY <1>1, <1>3 DEF TokensHonest
    <3>3. Tokens' <= MaxTpm /\ Tokens' \in Nat
      <4> DEFINE tpm == call[c].tpm
      <4>1. tpm \in Nat /\ tpm <= MaxTpm
          BY <1>2, TokenNumbers, ChargedStep
      <4>2. ~(Tokens' > tpm)
          BY <2>1
      <4>3. Tokens' \in Nat
          BY <1>1 DEF TypeOK, Tokens
      <4> HIDE DEF tpm
      <4>4. QED
          BY <1>2, <4>1, <4>2, <4>3
    <3> HIDE DEF now1, all1
    <3>4. SumOf(Charges, now1) <= SumOf(Charges, all1) /\ SumOf(Charges, now1) \in Nat
        BY <1>2, <2>0, <3>1, CallSums
    <3>5. SumOf(Charges, now1) <= MaxTpm
        BY <1>2, <3>2, <3>3, <3>4
    <3>6. QED
        BY <1>1, <3>5 DEF TokensCurrent, now1
  <2>2. CASE Afforded' = Afforded
    <3>2. \/ s = now /\ WindowOver(TokenStart)
          \/ s = TokenStart
        BY <1>2, ChargingStep
    <3>3. now1 \subseteq AffordedFrom(TokenStart) /\ AffordedFrom(TokenStart) \subseteq Calls
      <4>1. AffordedFrom(TokenStart) \subseteq Calls /\ TokenStart <= s
          BY <1>1, <1>2, <3>2 DEF AffordedFrom, WindowOver
      <4>2. now1 \subseteq AffordedFrom(TokenStart)
          BY <1>1, <1>2, <2>2, <4>1 DEF AffordedFrom
      <4>3. QED
          BY <4>1, <4>2
    <3> DEFINE old == AffordedFrom(TokenStart)
    <3>4. SumOf(Charges, old) <= MaxTpm
        BY DEF TokenInv, TokensCurrent
    <3> HIDE DEF now1, old
    <3>5. SumOf(Charges, now1) <= SumOf(Charges, old) /\ SumOf(Charges, now1) \in Nat
          /\ SumOf(Charges, old) \in Nat
        BY <1>2, <2>0, <3>3, CallSums DEF old
    <3>6. SumOf(Charges, now1) <= MaxTpm
        BY <1>2, <3>4, <3>5
    <3>7. QED
        BY <1>1, <3>6 DEF TokensCurrent, now1
  <2>3. QED
      BY <2>1, <2>2, ChargedStep
<1>6. TokensAny'
  <2> SUFFICES ASSUME NEW t \in Int
               PROVE  SumOf(Charges, AffordedIn(t, t + Window))' <= 2 * MaxTpm
      BY DEF TokensAny
  <2>0. t + Window \in Int
      BY <1>2
  <2>1. CASE t <= now - Window
    <3>1. AffordedIn(t, t + Window)' = AffordedIn(t, t + Window)
        BY <1>1, <1>2, <2>1 DEF AffordedIn
    <3>2. SumOf(Charges, AffordedIn(t, t + Window)) <= 2 * MaxTpm
        BY DEF TokenInv, TokensAny
    <3>3. QED
        BY <1>1, <3>1, <3>2
  <2>2. CASE t > now - Window
    <3> DEFINE any == AffordedIn(t, t + Window)'
               older == AffordedIn(t, TokenStart)'
               current == AffordedFrom(TokenStart)'
    <3>1. older \subseteq Calls /\ current \subseteq Calls /\ any \subseteq Calls
        BY <1>1 DEF AffordedIn, AffordedFrom
    <3>2. any \subseteq older \cup current
        BY <1>1, <1>2 DEF AffordedIn, AffordedFrom
    <3>3. SumOf(Charges, older) <= MaxTpm
      <4>1. s <= now /\ s \in Int
          BY <1>1
      <4>2. now \in Int /\ Window \in Int
          BY <1>2
      <4> HIDE DEF s
      <4>3. t > s - Window
          BY <2>2, <4>1, <4>2
      <4>4. QED
          BY <1>1, <1>3, <4>3 DEF TokensOlder, s
    <3>4. SumOf(Charges, current) <= MaxTpm
        BY <1>1, <1>5 DEF TokensCurrent
    <3> HIDE DEF older, current, any
    <3>5. SumOf(Charges, any) <= SumOf(Charges, older \cup current)
          /\ SumOf(Charges, any) \in Nat /\ SumOf(Charges, older \cup current) \in Nat
          /\ SumOf(Charges, older) \in Nat /\ SumOf(Charges, current) \in Nat
      <4>1. older \cup current \in SUBSET Calls
          BY <3>1
      <4>2. QED
          BY <1>2, <3>1, <3>2, <4>1, CallSums
    <3>6. SumOf(Charges, older \cup current) <= SumOf(Charges, older) + SumOf(Charges, current)
      <4>1. IsFiniteSet(older) /\ IsFiniteSet(current)
          BY <3>1, FiniteParts
      <4>2. \A x \in older \cup current : Charges[x] \in Nat
          BY <1>2, <3>1, TokenNumbers
      <4>3. QED
          BY <4>1, <4>2, SumHalves
    <3>7. SumOf(Charges, any) <= 2 * MaxTpm
      <4> DEFINE both == older \cup current
      <4> HIDE DEF both
      <4>1. SumOf(Charges, any) <= SumOf(Charges, both) /\ SumOf(Charges, both) \in Nat
            /\ SumOf(Charges, both) <= SumOf(Charges, older) + SumOf(Charges, current)
          BY <3>5, <3>6 DEF both
      <4>2. QED
          BY <1>2, <3>3, <3>4, <3>5, <4>1
    <3>8. QED
        BY <1>1, <3>7 DEF any
  <2>3. QED
      BY <1>2, <2>1, <2>2
<1>7. QED
    BY <1>1, <1>3, <1>4, <1>5, <1>6 DEF TokenInv

LEMMA AllowTokenInv == ASSUME TokenInv, NEW c \in Calls, Allow(c) PROVE TokenInv'
<1>1. CASE call[c].tpm = NoLimit \/ call'[c].pc = "rpm exceeded"
  <2>1. /\ TypeOK' /\ now' = now /\ call[c].pc = "known"
        /\ \A d \in Calls \ {c} : call'[d] = call[d]
      BY AllowStep DEF TokenInv
  <2>2. call'[c].tpm = call[c].tpm /\ TokenStart' = TokenStart /\ Tokens' = Tokens
      BY <1>1, AllowTokens DEF TokenInv
  <2>3. Charged' = Charged /\ c \notin Charged
      BY <1>1, <2>1, <2>2 DEF Charged
  <2>4. \A d \in Charged : call'[d] = call[d]
      BY <2>1, <2>3 DEF Charged
  <2>5. now <= now'
      BY <2>1, TokenNumbers DEF TokenInv
  <2>6. QED
      BY <2>1, <2>2, <2>3, <2>4, <2>5, Uncharged
<1>2. QED
    BY <1>1, ChargeInv DEF Charging

LEMMA LookupTokenInv ==
    ASSUME TokenInv, TypeOK', NEW c \in Calls, Lookup(c) \/ LookupFails(c)
    PROVE  TokenInv'
<1>1. call \in [Calls -> CallType] /\ key \in KeyType /\ entry \in EntryType /\ now \in Nat
    BY Types DEF TokenInv
<1>2. call[c].pc = "new" /\ entry' = entry /\ now' = now
    BY DEF Lookup, LookupFails
<1>3. \A b \in Calls \ {c} : call'[b] = call[b]
    BY <1>1 DEF Lookup, LookupFails
<1>4. call'[c].pc \in {"known", "refused"}
    BY <1>1, LookupPc
<1>5. Charged' = Charged /\ c \notin Charged
    BY <1>2, <1>3, <1>4 DEF Charged
<1>6. \A b \in Charged : call'[b] = call[b]
    BY <1>3, <1>5 DEF Charged
<1>7. now <= now' /\ TokenStart' = TokenStart /\ Tokens' = Tokens
    BY <1>1, <1>2 DEF TokenStart, Tokens
<1>8. QED
    BY <1>5, <1>6, <1>7, Uncharged

LEMMA NextTokenInv == IInv /\ TokenInv /\ [Next]_vars => TokenInv'
<1> SUFFICES ASSUME IInv, TokenInv, [Next]_vars PROVE TokenInv'
    OBVIOUS
<1>1. TypeOK'
    BY NextInv DEF IInv
<1>2. ASSUME call' = call, entry' = entry, now <= now' PROVE TokenInv'
  <2>1. Charged' = Charged /\ TokenStart' = TokenStart /\ Tokens' = Tokens
      BY <1>2 DEF Charged, TokenStart, Tokens
  <2>2. QED
      BY <1>1, <1>2, <2>1, Uncharged
<1>3. now \in Nat
    BY DEF IInv, TypeOK
<1>4. CASE ChangeKey \/ Tick \/ UNCHANGED vars
    BY <1>2, <1>3, <1>4 DEF ChangeKey, Tick, vars
<1>5. QED
    BY <1>1, <1>4, AllowTokenInv, LookupTokenInv DEF Next

\* The inductive invariant of the limit of tokens.
THEOREM TokenInvariance == Spec => []TokenInv
BY InitTokenInv, NextTokenInv, Invariance, PTL DEF Spec

\* In any span of a window's length at most twice the largest limit of tokens
\* is admitted, wherever it begins (KeyLimiter.allow).
THEOREM TokenBurstsBounded == Spec => []TokensBounded
<1>1. TokenInv => TokensBounded
  <2> SUFFICES ASSUME TokenInv, NEW t \in 0 .. now
               PROVE  TokensOf({c \in AdmittedFrom(t) : call[c].tpm # NoLimit}) <= 2 * Max(TpmLimits)
      BY DEF TokensBounded
  <2> DEFINE S == {c \in AdmittedFrom(t) : call[c].tpm # NoLimit}
  <2>1. S = AffordedIn(t, t + Window) /\ S \in SUBSET Calls
      BY DEF AdmittedFrom, SeenFrom, AffordedIn, Afforded, Charged
  <2>2. t \in Int
      BY TokenNumbers DEF TokenInv
  <2> HIDE DEF S
  <2>3. TokensOf(S) = SumOf(Charges, S)
      BY <2>1, TokensAreSums
  <2>4. SumOf(Charges, AffordedIn(t, t + Window)) <= 2 * MaxTpm
      BY <2>2 DEF TokenInv, TokensAny
  <2>5. TokensOf(S) <= 2 * Max(TpmLimits)
      BY <2>1, <2>3, <2>4 DEF MaxTpm
  <2>6. QED
      BY <2>5 DEF S
<1>2. QED
    BY <1>1, TokenInvariance, PTL

-----------------------------------------------------------------------------
\* A call over the limit of tokens: the window it falls into lies within the
\* window of time that ends with it.
LEMMA OverTokens ==
    ASSUME TokenInv, NEW c \in Calls, Charging(c), NEW tpm \in Nat, Tokens' > tpm
    PROVE  TokensOf({d \in SeenFrom(now - Window + 1) :
                       call[d].tpm # NoLimit /\ call[d].pc # "rpm exceeded"})
             + call[c].tokens > tpm
<1> DEFINE seen == {d \in SeenFrom(now - Window + 1) :
                       call[d].tpm # NoLimit /\ call[d].pc # "rpm exceeded"}
<1>1. seen \in SUBSET Calls
    BY DEF SeenFrom
<1>2. \A d \in Charged : now - Window + 1 <= call[d].at /\ call[d].at < now - Window + 1 + Window
                           => d \in seen
    BY DEF SeenFrom, Charged
<1>3. TokensOf(seen) = SumOf(Charges, seen)
    BY <1>1, TokensAreSums
<1> HIDE DEF seen
<1>4. /\ TypeOK /\ TokenStart \in Int /\ now \in Nat /\ Window \in Nat /\ Window > 0
      /\ Tokens \in Nat /\ \A d \in Calls : call[d].at \in Nat
    BY TokenNumbers DEF TokenInv
<1>5. call[c].tokens \in Nat
    BY <1>4, TokenNumbers
<1>6. SumOf(Charges, seen) \in Nat
    BY <1>1, <1>4, CallSums
<1>7. SumOf(Charges, seen) + call[c].tokens >= Tokens'
  <2>1. CASE WindowOver(TokenStart)
    <3>1. Tokens' = call[c].tokens
        BY <1>4, <2>1, ChargingStep
    <3>2. QED
        BY <1>5, <1>6, <3>1
  <2>2. CASE ~WindowOver(TokenStart)
    <3>1. Tokens' = Tokens + call[c].tokens
        BY <1>4, <2>2, ChargingStep
    <3>2. ChargedFrom(TokenStart) \subseteq seen
      <4>1. TokenStart >= now - Window + 1
          BY <1>4, <2>2 DEF WindowOver
      <4>2. \A d \in Charged : d \in Calls /\ call[d].at <= now
          BY DEF TokenInv, TokenClock, Charged
      <4>3. QED
          BY <1>2, <1>4, <4>1, <4>2 DEF ChargedFrom
    <3>3. SumOf(Charges, ChargedFrom(TokenStart)) <= SumOf(Charges, seen)
        BY <1>1, <1>4, <3>2, CallSums
    <3>4. Tokens = SumOf(Charges, ChargedFrom(TokenStart))
        BY DEF TokenInv, TokensHonest
    <3>5. QED
        BY <1>4, <1>5, <1>6, <3>1, <3>3, <3>4
  <2>3. QED
      BY <2>1, <2>2
<1>8. Tokens' \in Nat
    BY <1>4, <1>5, ChargingStep
<1>9. SumOf(Charges, seen) + call[c].tokens > tpm
    BY <1>5, <1>6, <1>7, <1>8
<1>10. QED
    BY <1>3, <1>9 DEF seen

LEMMA DeservedTokenStep ==
    ASSUME TokenInv, IInv, [Next]_vars, NEW c \in Calls,
           call[c].pc # "tpm exceeded", call'[c].pc = "tpm exceeded"
    PROVE  TokensOf({d \in SeenFrom(now - Window + 1) :
                       call[d].tpm # NoLimit /\ call[d].pc # "rpm exceeded"})
             + call[c].tokens > call[c].tpm
<1>1. Allow(c)
    BY Rejecting
<1>2. call[c].tpm \in Nat
    BY TokenNumbers DEF TokenInv
<1>3. call[c].tpm # NoLimit /\ Tokens' > call[c].tpm
    BY <1>1, AllowTokens DEF TokenInv
<1>4. Charging(c)
    BY <1>1, <1>3 DEF Charging
<1>5. QED
    BY <1>2, <1>3, <1>4, OverTokens

\* A call is over the limit of tokens only if it and the calls of the window of
\* time that ends with it ask for more than the limit (KeyLimiter.allow).
THEOREM TokenRejectionsAreDeserved == Spec => TokenRejectionsDeserved
<1> DEFINE Deserved ==
      \A c \in Calls :
          call[c].pc # "tpm exceeded" /\ call'[c].pc = "tpm exceeded" =>
              TokensOf({d \in SeenFrom(now - Window + 1) :
                          call[d].tpm # NoLimit /\ call[d].pc # "rpm exceeded"})
                  + call[c].tokens > call[c].tpm
<1>1. TokenInv /\ IInv /\ [Next]_vars => [Deserved]_vars
    BY DeservedTokenStep
<1>2. QED
    BY <1>1, Invariance, TokenInvariance, PTL DEF Spec, TokenRejectionsDeserved

-----------------------------------------------------------------------------
(***************************************************************************)
(* ApiKeys, for any requests, ids and names.                               *)
(***************************************************************************)

\* A handler past the check of its name knows every other key with that name,
\* except those named since.
NameChecked ==
    \A a \in Admins : rq[a].pc \in {"checked", "got"} =>
        /\ rq[a].name \in Names
        /\ \A i \in Ids \ {rq[a].id} : keys[i].name = rq[a].name => i \in rq[a].since

\* What a handler in flight knows of its row.
RowKnown ==
    \A a \in Admins :
        /\ rq[a].pc \in {"asked", "checked"} => rq[a].op # "none"
        /\ rq[a].pc \in {"asked", "checked"} /\ rq[a].op # "create" => rq[a].id \in used
        /\ rq[a].pc \in {"asked", "checked"} /\ rq[a].op = "create" => rq[a].id = "none"
        /\ rq[a].pc \in {"asked", "checked"} /\ rq[a].op # "delete" => rq[a].name \in Names
        /\ rq[a].pc = "new" => rq[a].id = "none"
        /\ rq[a].pc = "got" => rq[a].id \in used /\ rq[a].got \in Row
        /\ rq[a].pc = "got" /\ ~rq[a].stale =>
               keys[rq[a].id] = rq[a].got \/ keys[rq[a].id] = Absent

LiveUsed == \A i \in Ids \ used : keys[i] = Absent

AdminInv == AdminTypeOK /\ NameChecked /\ RowKnown /\ LiveUsed /\ DuplicatesNeedOverlap

-----------------------------------------------------------------------------
LEMMA AdminInitInv == AdminInit => AdminInv
<1> SUFFICES ASSUME AdminInit PROVE AdminInv
    OBVIOUS
<1>1. AdminTypeOK
    BY DEF AdminInit, AdminTypeOK, RequestType, Ops
<1>2. NameChecked /\ RowKnown /\ LiveUsed
    BY DEF AdminInit, NameChecked, RowKnown, LiveUsed
<1>3. DuplicatesNeedOverlap
    BY DEF AdminInit, DuplicatesNeedOverlap, Live
<1>4. QED
    BY <1>1, <1>2, <1>3 DEF AdminInv

\* A step of a alone that writes no row.
LEMMA NoWrite ==
    ASSUME AdminInv, NEW a \in Admins, NEW r \in RequestType,
           rq' = [rq EXCEPT ![a] = r],
           UNCHANGED <<keys, used, blind>>,
           r.pc \in {"checked", "got"} =>
               /\ r.name \in Names
               /\ \A i \in Ids \ {r.id} : keys[i].name = r.name => i \in r.since,
           r.pc \in {"asked", "checked"} =>
               /\ r.op # "none"
               /\ r.op # "create" => r.id \in used
               /\ r.op = "create" => r.id = "none"
               /\ r.op # "delete" => r.name \in Names,
           r.pc # "new",
           r.pc = "got" => /\ r.id \in used /\ r.got \in Row
                           /\ ~r.stale => keys[r.id] = r.got \/ keys[r.id] = Absent
    PROVE  AdminInv'
<1>1. /\ rq'[a] = r
      /\ \A b \in Admins \ {a} : rq'[b] = rq[b]
    BY DEF AdminInv, AdminTypeOK
<1>2. AdminTypeOK'
    BY DEF AdminInv, AdminTypeOK
<1>3. NameChecked'
    BY <1>1 DEF AdminInv, NameChecked
<1>4. RowKnown'
    BY <1>1 DEF AdminInv, RowKnown
<1>5. LiveUsed' /\ DuplicatesNeedOverlap'
    BY DEF AdminInv, LiveUsed, DuplicatesNeedOverlap, Live
<1>6. QED
    BY <1>2, <1>3, <1>4, <1>5 DEF AdminInv

LEMMA AskInv == ASSUME AdminInv, NEW a \in Admins, Ask(a) PROVE AdminInv'
<1>0. rq[a] \in RequestType /\ rq[a].pc = "new" /\ rq[a].id = "none"
    BY DEF AdminInv, AdminTypeOK, RowKnown, Ask
<1>1. CASE \E name \in Names :
             rq' = [rq EXCEPT ![a].pc = "asked", ![a].op = "create", ![a].name = name]
  <2>1. PICK name \in Names :
             rq' = [rq EXCEPT ![a].pc = "asked", ![a].op = "create", ![a].name = name]
      BY <1>1
  <2> DEFINE r == [rq[a] EXCEPT !.pc = "asked", !.op = "create", !.name = name]
  <2>2. r \in RequestType /\ rq' = [rq EXCEPT ![a] = r] /\ r.id = "none"
      BY <1>0, <2>1 DEF RequestType, Ops, AdminInv, AdminTypeOK
  <2>3. r.pc = "asked" /\ r.op = "create" /\ r.name \in Names
      BY <1>0 DEF RequestType
  <2> HIDE DEF r
  <2>4. QED
      BY <2>2, <2>3, NoWrite DEF Ask
<1>2. CASE \E i \in used, name \in Names, active \in {"keep", "on", "off"} :
             rq' = [rq EXCEPT ![a].pc = "asked", ![a].op = "update", ![a].id = i,
                              ![a].name = name, ![a].active = active]
  <2>1. PICK i \in used, name \in Names, active \in {"keep", "on", "off"} :
             rq' = [rq EXCEPT ![a].pc = "asked", ![a].op = "update", ![a].id = i,
                              ![a].name = name, ![a].active = active]
      BY <1>2
  <2> DEFINE r == [rq[a] EXCEPT !.pc = "asked", !.op = "update", !.id = i,
                                !.name = name, !.active = active]
  <2>2. r \in RequestType /\ rq' = [rq EXCEPT ![a] = r]
      BY <1>0, <2>1 DEF RequestType, Ops, AdminInv, AdminTypeOK
  <2>3. r.pc = "asked" /\ r.op = "update" /\ r.name \in Names /\ r.id \in used
      BY <1>0 DEF RequestType
  <2> HIDE DEF r
  <2>4. QED
      BY <2>2, <2>3, NoWrite DEF Ask
<1>3. CASE \E i \in used :
             rq' = [rq EXCEPT ![a].pc = "asked", ![a].op = "delete", ![a].id = i]
  <2>1. PICK i \in used :
             rq' = [rq EXCEPT ![a].pc = "asked", ![a].op = "delete", ![a].id = i]
      BY <1>3
  <2> DEFINE r == [rq[a] EXCEPT !.pc = "asked", !.op = "delete", !.id = i]
  <2>2. r \in RequestType /\ rq' = [rq EXCEPT ![a] = r]
      BY <1>0, <2>1 DEF RequestType, Ops, AdminInv, AdminTypeOK
  <2>3. r.pc = "asked" /\ r.op = "delete" /\ r.id \in used
      BY <1>0 DEF RequestType
  <2> HIDE DEF r
  <2>4. QED
      BY <2>2, <2>3, NoWrite DEF Ask
<1>4. QED
    BY <1>1, <1>2, <1>3 DEF Ask

\* A handler that ends without writing.
LEMMA EndInv ==
    ASSUME AdminInv, NEW a \in Admins, rq' = Done(a), UNCHANGED <<keys, used, blind>>
    PROVE  AdminInv'
<1> DEFINE r == [rq[a] EXCEPT !.pc = "done"]
<1>1. rq[a] \in RequestType
    BY DEF AdminInv, AdminTypeOK
<1>2. r \in RequestType /\ rq' = [rq EXCEPT ![a] = r] /\ r.pc = "done"
    BY <1>1 DEF RequestType, Done, AdminInv, AdminTypeOK
<1> HIDE DEF r
<1>3. QED
    BY <1>2, NoWrite

LEMMA CheckNameInv == ASSUME AdminInv, NEW a \in Admins, CheckName(a) PROVE AdminInv'
<1>1. CASE NameTaken(rq[a].name, rq[a].id)
    BY <1>1, EndInv DEF CheckName
<1>2. CASE ~NameTaken(rq[a].name, rq[a].id)
  <2> DEFINE r == [rq[a] EXCEPT !.pc = "checked"]
  <2>1. rq[a] \in RequestType
      BY DEF AdminInv, AdminTypeOK
  <2>2. /\ r \in RequestType /\ rq' = [rq EXCEPT ![a] = r] /\ r.pc = "checked"
        /\ r.op = rq[a].op /\ r.id = rq[a].id /\ r.name = rq[a].name /\ r.since = rq[a].since
      BY <1>2, <2>1 DEF RequestType, CheckName, AdminInv, AdminTypeOK
  <2> HIDE DEF r
  <2>3. \A i \in Ids \ {r.id} : keys[i].name # r.name
      BY <1>2, <2>2 DEF NameTaken
  <2>4. /\ r.op # "none" /\ r.name \in Names
        /\ r.op # "create" => r.id \in used
        /\ r.op = "create" => r.id = "none"
      BY <2>2 DEF AdminInv, RowKnown, CheckName
  <2>5. QED
      BY <2>2, <2>3, <2>4, NoWrite DEF CheckName
<1>3. QED
    BY <1>1, <1>2

LEMMA GetInv == ASSUME AdminInv, NEW a \in Admins, GetAPIKey(a) PROVE AdminInv'
<1>1. CASE keys[rq[a].id] = Absent
    BY <1>1, EndInv DEF GetAPIKey
<1>2. CASE keys[rq[a].id] # Absent
  <2> DEFINE r == [rq[a] EXCEPT !.pc = "got", !.got = keys[rq[a].id]]
  <2>1. rq[a] \in RequestType /\ rq[a].id \in used /\ used \subseteq Ids
      BY DEF AdminInv, AdminTypeOK, RowKnown, GetAPIKey
  <2>2. keys[rq[a].id] \in Row
      BY <1>2, <2>1 DEF AdminInv, AdminTypeOK
  <2>3. /\ r \in RequestType /\ rq' = [rq EXCEPT ![a] = r] /\ r.pc = "got"
        /\ r.id = rq[a].id /\ r.name = rq[a].name /\ r.since = rq[a].since
        /\ r.got = keys[rq[a].id]
      BY <1>2, <2>1, <2>2 DEF RequestType, GetAPIKey, AdminInv, AdminTypeOK
  <2> HIDE DEF r
  <2>4. /\ r.name \in Names
        /\ \A i \in Ids \ {r.id} : keys[i].name = r.name => i \in r.since
      BY <2>3 DEF AdminInv, NameChecked, GetAPIKey
  <2>5. QED
      BY <2>1, <2>2, <2>3, <2>4, NoWrite DEF GetAPIKey
<1>3. QED
    BY <1>1, <1>2

-----------------------------------------------------------------------------
\* What the bookkeeping of a write gives.
LEMMA WroteFacts ==
    ASSUME AdminInv, NEW a \in Admins, NEW i \in Ids, Wrote(a, i)
    PROVE  /\ rq' \in [Admins -> RequestType]
           /\ blind' \in [Ids -> SUBSET Ids]
           /\ rq'[a].pc = "done"
           /\ \A b \in Admins \ {a} :
                /\ rq'[b].pc = rq[b].pc /\ rq'[b].op = rq[b].op /\ rq'[b].id = rq[b].id
                /\ rq'[b].name = rq[b].name /\ rq'[b].got = rq[b].got
                /\ rq'[b].since = IF rq[b].pc \in {"checked", "got"}
                                  THEN rq[b].since \cup {i} ELSE rq[b].since
                /\ rq'[b].stale <=> rq[b].stale \/ (rq[b].pc = "got" /\ rq[b].id = i)
           /\ blind'[i] = rq[a].since
           /\ \A j \in Ids \ {i} : blind'[j] = blind[j]
<1>1. \A b \in Admins : rq[b] \in RequestType
    BY DEF AdminInv, AdminTypeOK
<1>2. blind \in [Ids -> SUBSET Ids]
    BY DEF AdminInv, AdminTypeOK
<1>3. rq' \in [Admins -> RequestType]
  <2>1. ASSUME NEW b \in Admins, NEW s \in SUBSET Ids, NEW l \in BOOLEAN
        PROVE  /\ [rq[b] EXCEPT !.pc = "done"] \in RequestType
               /\ [rq[b] EXCEPT !.since = s, !.stale = l] \in RequestType
      BY <1>1 DEF RequestType
  <2>2. ASSUME NEW b \in Admins
        PROVE  /\ (IF rq[b].pc \in {"checked", "got"} THEN rq[b].since \cup {i} ELSE rq[b].since)
                      \in SUBSET Ids
               /\ (rq[b].stale \/ (rq[b].pc = "got" /\ rq[b].id = i)) \in BOOLEAN
      BY <1>1 DEF RequestType
  <2>3. QED
      BY <2>1, <2>2 DEF Wrote
<1>4. blind' \in [Ids -> SUBSET Ids] /\ blind'[i] = rq[a].since
      /\ \A j \in Ids \ {i} : blind'[j] = blind[j]
    BY <1>1, <1>2 DEF Wrote, RequestType
<1>5. rq'[a].pc = "done"
    BY <1>1 DEF Wrote, RequestType
<1>6. ASSUME NEW b \in Admins \ {a}
      PROVE  /\ rq'[b].pc = rq[b].pc /\ rq'[b].op = rq[b].op /\ rq'[b].id = rq[b].id
             /\ rq'[b].name = rq[b].name /\ rq'[b].got = rq[b].got
             /\ rq'[b].since = IF rq[b].pc \in {"checked", "got"}
                               THEN rq[b].since \cup {i} ELSE rq[b].since
             /\ rq'[b].stale <=> rq[b].stale \/ (rq[b].pc = "got" /\ rq[b].id = i)
    BY <1>1, <1>6 DEF Wrote, RequestType
<1>7. QED
    BY <1>3, <1>4, <1>5, <1>6

\* Writing the row of i with the checked name of a: a handler creates a row or
\* changes the one that is there, or finds none to change.
LEMMA WriteInv ==
    ASSUME AdminInv, NEW a \in Admins, NEW i \in Ids, NEW row \in Row,
           rq[a].pc \in {"checked", "got"}, rq[a].id \in {i, "none"},
           row.name = rq[a].name,
           keys' = [keys EXCEPT ![i] = row] \/ (keys[i] = Absent /\ keys' = keys),
           used' = used \cup {i},
           Wrote(a, i)
    PROVE  AdminInv'
<1>1. /\ rq' \in [Admins -> RequestType]
      /\ blind' \in [Ids -> SUBSET Ids]
      /\ rq'[a].pc = "done"
      /\ \A b \in Admins \ {a} :
           /\ rq'[b].pc = rq[b].pc /\ rq'[b].op = rq[b].op /\ rq'[b].id = rq[b].id
           /\ rq'[b].name = rq[b].name /\ rq'[b].got = rq[b].got
           /\ rq'[b].since = IF rq[b].pc \in {"checked", "got"}
                             THEN rq[b].since \cup {i} ELSE rq[b].since
           /\ rq'[b].stale <=> rq[b].stale \/ (rq[b].pc = "got" /\ rq[b].id = i)
      /\ blind'[i] = rq[a].since
      /\ \A j \in Ids \ {i} : blind'[j] = blind[j]
    BY WroteFacts
<1>2. /\ keys' \in [Ids -> Row \cup {Absent}]
      /\ \A j \in Ids \ {i} : keys'[j] = keys[j]
      /\ keys'[i] = Absent \/ keys'[i] = row
    BY DEF AdminInv, AdminTypeOK
<1>3. AdminTypeOK'
    BY <1>1, <1>2 DEF AdminInv, AdminTypeOK
<1>4. NameChecked'
  <2> SUFFICES ASSUME NEW b \in Admins, rq'[b].pc \in {"checked", "got"}
               PROVE  /\ rq'[b].name \in Names
                      /\ \A j \in Ids \ {rq'[b].id} :
                           keys'[j].name = rq'[b].name => j \in rq'[b].since
      BY DEF NameChecked
  <2>1. b # a
      BY <1>1
  <2>2. /\ rq[b].pc \in {"checked", "got"}
        /\ rq'[b].id = rq[b].id /\ rq'[b].name = rq[b].name
        /\ rq'[b].since = rq[b].since \cup {i}
      BY <1>1, <2>1
  <2>3. /\ rq[b].name \in Names
        /\ \A j \in Ids \ {rq[b].id} : keys[j].name = rq[b].name => j \in rq[b].since
      BY <2>2 DEF AdminInv, NameChecked
  <2>4. QED
      BY <1>2, <2>2, <2>3
<1>5. RowKnown'
  <2> SUFFICES ASSUME NEW b \in Admins
               PROVE  RowKnown!(b)'
      BY DEF RowKnown
  <2>1. CASE b = a
      BY <1>1, <2>1
  <2>2. CASE b # a
    <3>1. RowKnown!(b)
        BY DEF AdminInv, RowKnown
    <3>2. /\ rq'[b].pc = rq[b].pc /\ rq'[b].op = rq[b].op /\ rq'[b].id = rq[b].id
          /\ rq'[b].name = rq[b].name /\ rq'[b].got = rq[b].got
          /\ rq'[b].stale <=> rq[b].stale \/ (rq[b].pc = "got" /\ rq[b].id = i)
          /\ used \subseteq used' /\ used \subseteq Ids
        BY <1>1, <2>2 DEF AdminInv, AdminTypeOK
    <3>3. rq'[b].pc = "got" /\ ~rq'[b].stale =>
              keys'[rq'[b].id] = rq'[b].got \/ keys'[rq'[b].id] = Absent
        BY <1>2, <3>1, <3>2
    <3>4. QED
        BY <3>1, <3>2, <3>3
  <2>3. QED
      BY <2>1, <2>2
<1>6. LiveUsed'
    BY <1>2 DEF AdminInv, LiveUsed
<1>7. DuplicatesNeedOverlap'
  <2> SUFFICES ASSUME NEW j \in Ids, NEW k \in Ids, j # k,
                      keys'[j] # Absent, keys'[k] # Absent, keys'[j].name = keys'[k].name
               PROVE  j \in blind'[k] \/ k \in blind'[j]
      BY DEF DuplicatesNeedOverlap, Live
  <2>1. \A l \in Ids \ {i} : keys[l].name = row.name => l \in rq[a].since
      BY ApiKeysAssumption DEF AdminInv, NameChecked
  <2>2. CASE j = i
      BY <1>1, <1>2, <2>1, <2>2
  <2>3. CASE k = i
      BY <1>1, <1>2, <2>1, <2>3
  <2>4. CASE j # i /\ k # i
      BY <1>1, <1>2, <2>4 DEF AdminInv, DuplicatesNeedOverlap, Live
  <2>5. QED
      BY <2>2, <2>3, <2>4
<1>8. QED
    BY <1>3, <1>4, <1>5, <1>6, <1>7 DEF AdminInv

LEMMA CreateInv == ASSUME AdminInv, NEW a \in Admins, HandleCreateAPIKey(a) PROVE AdminInv'
<1>1. PICK i \in Ids \ used :
         /\ keys' = [keys EXCEPT ![i] = [name |-> rq[a].name, active |-> TRUE]]
         /\ used' = used \cup {i}
         /\ Wrote(a, i)
    BY DEF HandleCreateAPIKey
<1> DEFINE row == [name |-> rq[a].name, active |-> TRUE]
<1>2. row \in Row /\ row.name = rq[a].name
    BY DEF AdminInv, RowKnown, HandleCreateAPIKey, Row
<1>3. rq[a].pc = "checked" /\ rq[a].id = "none"
    BY DEF AdminInv, RowKnown, HandleCreateAPIKey
<1>4. keys' = [keys EXCEPT ![i] = row]
    BY <1>1
<1> HIDE DEF row
<1>5. QED
    BY <1>1, <1>2, <1>3, <1>4, WriteInv

LEMMA UpdateInv == ASSUME AdminInv, NEW a \in Admins, HandleUpdateAPIKey(a) PROVE AdminInv'
<1> DEFINE i == rq[a].id
           row == Merge(rq[a].got, rq[a].name, rq[a].active)
<1>1. i \in used /\ i \in Ids /\ rq[a].got \in Row /\ rq[a].name \in Names /\ rq[a].pc = "got"
    BY DEF AdminInv, AdminTypeOK, NameChecked, RowKnown, HandleUpdateAPIKey
<1>2. row \in Row /\ row.name = rq[a].name
    BY <1>1 DEF Merge, Row
<1>3. keys' = [keys EXCEPT ![i] = row] \/ (keys[i] = Absent /\ keys' = keys)
    BY DEF HandleUpdateAPIKey, UpdateAPIKey
<1>4. used' = used \cup {i} /\ Wrote(a, i)
    BY <1>1 DEF HandleUpdateAPIKey
<1>5. rq[a].id \in {i, "none"} /\ rq[a].pc \in {"checked", "got"}
    BY <1>1
<1> HIDE DEF i, row
<1>6. QED
    BY <1>1, <1>2, <1>3, <1>4, <1>5, WriteInv

LEMMA DeleteInv == ASSUME AdminInv, NEW a \in Admins, HandleDeleteAPIKey(a) PROVE AdminInv'
<1> DEFINE i == rq[a].id
<1>1. i \in Ids /\ i \in used /\ rq[a] \in RequestType
    BY DEF AdminInv, AdminTypeOK, RowKnown, HandleDeleteAPIKey
<1>2. /\ keys' \in [Ids -> Row \cup {Absent}]
      /\ keys'[i] = Absent
      /\ \A j \in Ids \ {i} : keys'[j] = keys[j]
    BY <1>1 DEF AdminInv, AdminTypeOK, HandleDeleteAPIKey
<1>3. /\ rq' \in [Admins -> RequestType]
      /\ rq'[a].pc = "done"
      /\ \A b \in Admins \ {a} : rq'[b] = rq[b]
    BY <1>1 DEF AdminInv, AdminTypeOK, HandleDeleteAPIKey, Done, RequestType
<1> HIDE DEF i
<1>4. AdminTypeOK' /\ used' = used /\ blind' = blind
    BY <1>2, <1>3 DEF AdminInv, AdminTypeOK, HandleDeleteAPIKey
<1>5. NameChecked'
  <2> SUFFICES ASSUME NEW b \in Admins, rq'[b].pc \in {"checked", "got"}
               PROVE  /\ rq'[b].name \in Names
                      /\ \A j \in Ids \ {rq'[b].id} :
                           keys'[j].name = rq'[b].name => j \in rq'[b].since
      BY DEF NameChecked
  <2>1. rq'[b] = rq[b] /\ rq[b].name \in Names
      BY <1>3 DEF AdminInv, NameChecked
  <2>2. keys'[i].name = "none"
      BY <1>2 DEF Absent
  <2>3. QED
      BY <1>2, <2>1, <2>2, ApiKeysAssumption DEF AdminInv, NameChecked
<1>6. RowKnown'
  <2> SUFFICES ASSUME NEW b \in Admins
               PROVE  RowKnown!(b)'
      BY DEF RowKnown
  <2>1. CASE b = a
      BY <1>3, <2>1
  <2>2. CASE b # a
    <3>1. RowKnown!(b) /\ rq'[b] = rq[b] /\ used \subseteq Ids
        BY <1>3, <2>2 DEF AdminInv, RowKnown, AdminTypeOK
    <3>2. rq'[b].pc = "got" /\ ~rq'[b].stale =>
              keys'[rq'[b].id] = rq'[b].got \/ keys'[rq'[b].id] = Absent
        BY <1>2, <3>1
    <3>3. QED
        BY <1>4, <3>1, <3>2
  <2>3. QED
      BY <2>1, <2>2
<1>7. LiveUsed' /\ DuplicatesNeedOverlap'
    BY <1>2, <1>4 DEF AdminInv, LiveUsed, DuplicatesNeedOverlap, Live
<1>8. QED
    BY <1>4, <1>5, <1>6, <1>7 DEF AdminInv

LEMMA AdminNextInv == AdminInv /\ [AdminNext]_adminVars => AdminInv'
<1> SUFFICES ASSUME AdminInv, [AdminNext]_adminVars PROVE AdminInv'
    OBVIOUS
<1>1. CASE AdminNext
  <2>1. PICK a \in Admins :
            \/ Ask(a) \/ CheckName(a) \/ HandleCreateAPIKey(a) \/ GetAPIKey(a)
            \/ HandleUpdateAPIKey(a) \/ HandleDeleteAPIKey(a) \/ StatementFails(a)
      BY <1>1 DEF AdminNext
  <2>2. StatementFails(a) => AdminInv'
      BY EndInv DEF StatementFails
  <2>3. QED
      BY <2>1, <2>2, AskInv, CheckNameInv, CreateInv, GetInv, UpdateInv, DeleteInv
<1>2. CASE UNCHANGED adminVars
    BY <1>2 DEF adminVars, AdminInv, AdminTypeOK, NameChecked, RowKnown, LiveUsed, DuplicatesNeedOverlap, Live
<1>3. QED
    BY <1>1, <1>2

\* The inductive invariant, for any number of concurrent requests.
THEOREM AdminInvariance == AdminSpec => []AdminInv
BY AdminInitInv, AdminNextInv, PTL DEF AdminSpec

\* Two keys share a name only when the handler that named one wrote between
\* the other's check and its write (HandleCreateAPIKey, HandleUpdateAPIKey).
THEOREM NamesNeedOverlap == AdminSpec => []DuplicatesNeedOverlap
<1>1. AdminInv => DuplicatesNeedOverlap
    BY DEF AdminInv
<1>2. QED
    BY <1>1, AdminInvariance, PTL

-----------------------------------------------------------------------------
\* What RevocationHolds asks of a step.
Revoked ==
    \A i \in used :
          /\ keys[i] = Absent => keys'[i] = Absent
          /\ Live(i) /\ ~keys[i].active /\ keys'[i].active =>
               \E a \in Admins :
                   /\ rq[a].pc = "got" /\ rq'[a].pc = "done" /\ rq[a].id = i
                   /\ rq[a].active = "on" \/ rq[a].stale

LEMMA RevokedStep == AdminInv /\ [AdminNext]_adminVars => Revoked
<1> SUFFICES ASSUME AdminInv, [AdminNext]_adminVars, NEW i \in used
             PROVE  Revoked!(i)
    BY DEF Revoked
<1>0. i \in Ids /\ keys \in [Ids -> Row \cup {Absent}]
    BY DEF AdminInv, AdminTypeOK
<1>1. CASE keys' = keys
    BY <1>1
<1>2. ASSUME NEW a \in Admins, HandleCreateAPIKey(a) PROVE keys'[i] = keys[i]
    BY <1>0, <1>2 DEF HandleCreateAPIKey
<1>3. ASSUME NEW a \in Admins, HandleDeleteAPIKey(a)
      PROVE  keys'[i] = keys[i] \/ (keys'[i] = Absent /\ ~keys'[i].active)
    BY <1>0, <1>3 DEF HandleDeleteAPIKey, Absent
<1>4. ASSUME NEW a \in Admins, HandleUpdateAPIKey(a) PROVE Revoked!(i)
  <2>1. rq[a].pc = "got" /\ rq[a].got \in Row /\ rq[a] \in RequestType
        /\ rq[a].id \in Ids /\ Wrote(a, rq[a].id)
      BY <1>4 DEF AdminInv, AdminTypeOK, RowKnown, HandleUpdateAPIKey
  <2>2. rq'[a].pc = "done"
      BY <2>1, WroteFacts
  <2>3. CASE rq[a].id # i \/ keys[rq[a].id] = Absent
    <3>1. keys'[i] = keys[i]
        BY <1>0, <1>4, <2>1, <2>3 DEF HandleUpdateAPIKey, UpdateAPIKey
    <3>2. QED
        BY <3>1
  <2>4. CASE rq[a].id = i /\ keys[i] # Absent
    <3>1. keys'[i] = Merge(rq[a].got, rq[a].name, rq[a].active)
        BY <1>0, <1>4, <2>4 DEF HandleUpdateAPIKey, UpdateAPIKey
    <3>2. ~rq[a].stale => keys[i] = rq[a].got
        BY <2>1, <2>4 DEF AdminInv, RowKnown
    <3>3. ~keys[i].active /\ keys'[i].active => rq[a].active = "on" \/ rq[a].stale
      <4> SUFFICES ASSUME ~keys[i].active, rq[a].active # "on", ~rq[a].stale
                   PROVE  ~keys'[i].active
          OBVIOUS
      <4>1. keys'[i].active = IF rq[a].active = "keep" THEN rq[a].got.active
                                                       ELSE rq[a].active = "on"
          BY <3>1 DEF Merge
      <4>2. QED
          BY <3>2, <4>1
    <3>4. QED
        BY <2>1, <2>2, <2>4, <3>3
  <2>5. QED
      BY <2>3, <2>4
<1>5. QED
  <2>1. CASE AdminNext
    <3>1. PICK a \in Admins :
            \/ Ask(a) \/ CheckName(a) \/ HandleCreateAPIKey(a) \/ GetAPIKey(a)
            \/ HandleUpdateAPIKey(a) \/ HandleDeleteAPIKey(a) \/ StatementFails(a)
        BY <2>1 DEF AdminNext
    <3>2. Ask(a) \/ CheckName(a) \/ GetAPIKey(a) \/ StatementFails(a) => keys' = keys
        BY DEF Ask, CheckName, GetAPIKey, StatementFails
    <3>3. HandleCreateAPIKey(a) \/ HandleDeleteAPIKey(a) => Revoked!(i)
        BY <1>2, <1>3
    <3>4. QED
        BY <1>1, <1>4, <3>1, <3>2, <3>3
  <2>2. CASE UNCHANGED adminVars
      BY <1>1, <2>2 DEF adminVars
  <2>3. QED
      BY <2>1, <2>2

\* A deleted key stays deleted, and one switched off is switched on only by a
\* request that says so or that had read the row before others wrote it
\* (HandleUpdateAPIKey, UpdateAPIKey).
THEOREM RevokedStaysRevoked == AdminSpec => RevocationHolds
<1>1. AdminInv /\ [AdminNext]_adminVars => [Revoked]_adminVars
    BY RevokedStep
<1>2. QED
    BY <1>1, AdminInvariance, PTL DEF AdminSpec, RevocationHolds, Revoked
=============================================================================
