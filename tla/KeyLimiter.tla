----------------------------- MODULE KeyLimiter -----------------------------
(***************************************************************************)
(* API keys at the door (internal/proxy/auth.go): RequireAPIKey reads the  *)
(* row of the key from the database and then asks the KeyLimiter, which    *)
(* counts requests and estimated prompt tokens in fixed windows of 60 s.   *)
(* Calls run concurrently, an administrator changes the limits or takes    *)
(* the key away at any time, and a call goes on with the row it has read.  *)
(*                                                                         *)
(* One key: the limiter keeps an entry per key and entries do not touch.   *)
(* A limit of 0 is a nil limit (the admin handlers accept only positive    *)
(* ones).                                                                  *)
(***************************************************************************)
EXTENDS Integers, FiniteSetsExt

CONSTANTS
    Calls,      \* requests that present the key
    RpmLimits,  \* values of rate_limit_rpm
    TpmLimits,  \* values of rate_limit_tpm
    Sizes,      \* estimated prompt tokens of a call
    Window,     \* 60 s
    MaxTime     \* bound of the model: the clock

NoLimit == 0

ASSUME LimiterConstants ==
    /\ IsFiniteSet(Calls)
    /\ RpmLimits \subseteq Nat
    /\ TpmLimits \subseteq Nat /\ \E m \in TpmLimits : \A n \in TpmLimits : m >= n
    /\ Sizes \subseteq Nat
    /\ Window \in Nat \ {0}
    /\ MaxTime \in Nat

VARIABLES
    key,    \* the row in api_keys; valid: it exists and is active
    entry,  \* the limiter's entry
    now,    \* the clock
    call    \* local state of the calls; at is when the limiter was asked

vars == <<key, entry, now, call>>

KeyType == [valid : BOOLEAN, rpm : RpmLimits, tpm : TpmLimits]

TypeOK ==
    /\ key \in KeyType
    /\ entry \in [rpmStart : Int, rpmCount : Nat, tpmStart : Int, tpmTokens : Nat]
    /\ now \in Nat
    /\ call \in [Calls -> [pc     : {"new", "known", "admitted", "rpm exceeded",
                                     "tpm exceeded", "refused"},
                           rpm    : RpmLimits \cup {NoLimit},
                           tpm    : TpmLimits \cup {NoLimit},
                           tokens : Sizes \cup {0},
                           at     : Nat]]

\* The zero time of a new entry is more than a window ago.
Init ==
    /\ key \in {k \in KeyType : k.valid}
    /\ entry = [rpmStart |-> -Window, rpmCount |-> 0, tpmStart |-> -Window, tpmTokens |-> 0]
    /\ now = 0
    /\ call = [c \in Calls |-> [pc |-> "new", rpm |-> NoLimit, tpm |-> NoLimit,
                                tokens |-> 0, at |-> 0]]
-----------------------------------------------------------------------------
(***************************************************************************)
(* The limiter, on its entry.  (The first four are wrong on purpose, to    *)
(* see that the properties notice.)                                        *)
(***************************************************************************)
ExceedsByOne(n, limit) == n > limit + 1

AddTokensForever(e, tokens) == [e EXCEPT !.tpmTokens = @ + tokens]

RestartAtEachCall(e) ==
    [e EXCEPT !.rpmStart = now, !.rpmCount = IF now - e.rpmStart >= Window THEN 1 ELSE @ + 1]

AddTokensUncounted(e, tokens) == [e EXCEPT !.tpmTokens = tokens]

Exceeds(n, limit) == n > limit

WindowOver(start) == now - start >= Window

CountRequest(e) ==
    IF WindowOver(e.rpmStart) THEN [e EXCEPT !.rpmStart = now, !.rpmCount = 1]
                              ELSE [e EXCEPT !.rpmCount = @ + 1]

AddTokens(e, tokens) ==
    IF WindowOver(e.tpmStart) THEN [e EXCEPT !.tpmStart = now, !.tpmTokens = tokens]
                              ELSE [e EXCEPT !.tpmTokens = @ + tokens]

RpmExceeded(e, rpm) == rpm # NoLimit /\ Exceeds(e.rpmCount, rpm)
TpmExceeded(e, tpm) == tpm # NoLimit /\ Exceeds(e.tpmTokens, tpm)
-----------------------------------------------------------------------------
\* GetAPIKeyByHash, the check of the row, and the estimate of the tokens.
Lookup(c) ==
    /\ call[c].pc = "new"
    /\ \E tokens \in Sizes :
         call' = [call EXCEPT ![c] =
                    IF key.valid
                    THEN [@ EXCEPT !.pc = "known", !.rpm = key.rpm, !.tpm = key.tpm,
                                   !.tokens = tokens]
                    ELSE [@ EXCEPT !.pc = "refused"]]
    /\ UNCHANGED <<key, entry, now>>

LookupFails(c) ==
    /\ call[c].pc = "new"
    /\ call' = [call EXCEPT ![c].pc = "refused"]
    /\ UNCHANGED <<key, entry, now>>

\* KeyLimiter.allow, under its mutex.  A call over the limit of requests is
\* not counted against the limit of tokens.
Allow(c) ==
    LET rpm == call[c].rpm
        tpm == call[c].tpm
        counted == IF rpm = NoLimit THEN entry ELSE CountRequest(entry)
        charged == IF tpm = NoLimit \/ RpmExceeded(counted, rpm)
                   THEN counted
                   ELSE AddTokens(counted, call[c].tokens)
    IN  /\ call[c].pc = "known"
        /\ entry' = charged
        /\ call' = [call EXCEPT ![c].at = now,
                                ![c].pc = CASE RpmExceeded(counted, rpm) -> "rpm exceeded"
                                            [] ~RpmExceeded(counted, rpm)
                                                 /\ TpmExceeded(charged, tpm) -> "tpm exceeded"
                                            [] OTHER -> "admitted"]
        /\ UNCHANGED <<key, now>>

\* HandleUpdateAPIKey and HandleDeleteAPIKey.
ChangeKey ==
    /\ key' \in KeyType
    /\ UNCHANGED <<entry, now, call>>

Tick ==
    /\ now < MaxTime
    /\ now' = now + 1
    /\ UNCHANGED <<key, entry, call>>

Next ==
    \/ \E c \in Calls : Lookup(c) \/ LookupFails(c) \/ Allow(c)
    \/ ChangeKey
    \/ Tick

Spec == Init /\ [][Next]_vars
-----------------------------------------------------------------------------
\* Calls that the limiter saw in the window of time that begins at t.
SeenFrom(t) ==
    {c \in Calls : call[c].pc \in {"admitted", "rpm exceeded", "tpm exceeded"}
                     /\ t <= call[c].at /\ call[c].at < t + Window}
LimitedFrom(t) == {c \in SeenFrom(t) : call[c].rpm # NoLimit}
AdmittedFrom(t) == {c \in SeenFrom(t) : call[c].pc = "admitted"}
TokensOf(cs) == MapThenSumSet(LAMBDA c : call[c].tokens, cs)

(***************************************************************************)
(* What a fixed window is worth: in any 60 s, wherever they begin, fewer   *)
(* requests than twice the limit are admitted (the request that opened the *)
(* older of two windows is always outside), also when the limit is changed *)
(* or removed and set again meanwhile: then the largest limit counts under *)
(* which one of these requests was admitted.  (KeyLimiter.allow.)          *)
(***************************************************************************)
RequestsBounded ==
    \A t \in 0..now :
        LET limited == {c \in AdmittedFrom(t) : call[c].rpm # NoLimit}
        IN  limited # {} => \E c \in limited : Cardinality(limited) < 2 * call[c].rpm

(***************************************************************************)
(* Rejections are deserved, and do not prolong themselves: when a call is  *)
(* over the limit of requests, some call that was not opened a window less *)
(* than 60 s ago, and from that call on at least as many were made as the  *)
(* limit allows.  Rejected calls are among those counted (allow increments *)
(* rpmCount before it compares, so that they are charged when the limit is *)
(* raised within the window), but they never keep a key out for longer: a  *)
(* client that goes on asking gets through once per window.                *)
(***************************************************************************)
RejectionsDeserved ==
    [][ \A c \in Calls :
          call[c].pc # "rpm exceeded" /\ call'[c].pc = "rpm exceeded" =>
              \E o \in LimitedFrom(now - Window + 1) :
                  /\ call[o].pc # "rpm exceeded"
                  /\ Cardinality({d \in LimitedFrom(now - Window + 1) :
                                    call[o].at <= call[d].at}) >= call[c].rpm ]_vars

(***************************************************************************)
(* The same bound for the estimated tokens: in any 60 s, at most twice the *)
(* limit.                                                                  *)
(***************************************************************************)
TokensBounded ==
    \A t \in 0..now :
        TokensOf({c \in AdmittedFrom(t) : call[c].tpm # NoLimit}) <= 2 * Max(TpmLimits)

(***************************************************************************)
(* And a call is over the limit of tokens only if it and the calls of the  *)
(* window of time that ends with it ask for more than the limit, counting  *)
(* those that were over it themselves, but not those over the limit of     *)
(* requests.                                                               *)
(***************************************************************************)
TokenRejectionsDeserved ==
    [][ \A c \in Calls :
          call[c].pc # "tpm exceeded" /\ call'[c].pc = "tpm exceeded" =>
              TokensOf({d \in SeenFrom(now - Window + 1) :
                          call[d].tpm # NoLimit /\ call[d].pc # "rpm exceeded"})
                  + call[c].tokens > call[c].tpm ]_vars
=============================================================================
