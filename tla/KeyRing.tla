------------------------------ MODULE KeyRing ------------------------------
(* The pool of API keys of one provider (core/llm/keyring.py) and the      *)
(* calls that share it (core/llm/client.py, complete).                     *)
(*                                                                         *)
(* A call takes the usable keys when it starts and tries one after the     *)
(* other, in the order of the pool.  Calls overlap, so an answer may come  *)
(* after the pool, or the credit, has changed.                             *)
EXTENDS Naturals

CONSTANTS
    Keys,           \* the pool, a sequence
    Call,           \* calls that may be in progress at a time
    LongPark,       \* EXHAUSTED_COOLDOWN_S
    ShortPark,      \* RATE_LIMIT_COOLDOWN_S
    MaxChanges      \* bound on how often credit runs out or is topped up

ASSUME KeyRingAssumption ==
    /\ DOMAIN Keys \subseteq Nat
    /\ LongPark \in Nat /\ ShortPark \in Nat \ {0} /\ ShortPark < LongPark /\ MaxChanges \in Nat

VARIABLES
    park,           \* ticks until a key is usable again (available_at)
    hasCredit,      \* at the provider
    calls,          \* the keys a call has left, and the answer on its way
    refused,        \* ticks since the pool was told a key is spent
    outrun,         \* an answer from before that refusal arrived after it
    changes

keyRingVars == <<park, hasCredit, calls, refused, outrun, changes>>

Pool      == DOMAIN Keys
NoCall    == [left |-> {}, answer |-> "none"]
OnCall(c) == calls[c].left # {}
OfCall(c) == CHOOSE k \in calls[c].left : \A o \in calls[c].left : k <= o
LongAgo   == LongPark + 1

KeyRingInit ==
    /\ park = [k \in Pool |-> 0]
    /\ hasCredit = [k \in Pool |-> TRUE]
    /\ calls = [c \in Call |-> NoCall]
    /\ refused = [k \in Pool |-> LongAgo]
    /\ outrun = [k \in Pool |-> FALSE]
    /\ changes = 0
-----------------------------------------------------------------------------
UsableKeys == {k \in Pool : park[k] = 0}

\* _get_attempts; with every key parked the call goes to another model.
BeginCall(c) ==
    /\ ~OnCall(c) /\ UsableKeys # {}
    /\ calls' = [calls EXCEPT ![c] = [NoCall EXCEPT !.left = UsableKeys]]
    /\ UNCHANGED <<park, hasCredit, refused, outrun, changes>>

\* The provider answers, with a result, with a refusal or no text at all, or
\* with an error; the client hears of it later.
Respond(c) ==
    /\ OnCall(c) /\ calls[c].answer = "none"
    /\ \E a \in IF hasCredit[OfCall(c)] THEN {"ok", "empty", "throttled", "failed"} ELSE {"spent"} :
         calls' = [calls EXCEPT ![c].answer = a]
    /\ UNCHANGED <<park, hasCredit, refused, outrun, changes>>

Success == {"ok", "empty"}

\* Mutant: a spent key reported as 429 is taken for throttling.
ParkFor429(a) == IF a \in Success THEN 0 ELSE ShortPark

\* Mutant: the cooldown of a spent key comes on top of the one for a 429.
ParkForBoth(a) == IF a \in Success THEN 0 ELSE IF a = "spent" THEN LongPark + ShortPark ELSE ShortPark

\* mark_success, mark_exhausted (402, or a quota message in any error),
\* mark_rate_limited.
ParkFor(a) == CASE a \in Success -> 0 [] a = "spent" -> LongPark [] a = "throttled" -> ShortPark

\* An answer that was given before the pool was told the key is spent.
Outdated(c) == calls[c].answer \in Success \cup {"throttled"} /\ refused[OfCall(c)] < LongAgo

\* The call ends with a result; after an error, or an answer that is empty or a
\* refusal, it goes on with its next key (client.py:318-326).
Resume(c) ==
    LET k == OfCall(c)
        a == calls[c].answer
    IN  /\ OnCall(c) /\ a # "none"
        /\ park' = IF a = "failed" THEN park ELSE [park EXCEPT ![k] = ParkFor(a)]
        /\ refused' = IF a = "spent" THEN [refused EXCEPT ![k] = 0] ELSE refused
        /\ outrun' = [outrun EXCEPT ![k] = a # "spent" /\ (@ \/ Outdated(c))]
        /\ calls' = [calls EXCEPT ![c] = IF a = "ok" THEN NoCall
                                       ELSE [NoCall EXCEPT !.left = calls[c].left \ {k}]]
        /\ UNCHANGED <<hasCredit, changes>>
-----------------------------------------------------------------------------
RunOut(k) ==
    /\ hasCredit[k] /\ changes < MaxChanges
    /\ hasCredit' = [hasCredit EXCEPT ![k] = FALSE]
    /\ changes' = changes + 1
    /\ UNCHANGED <<park, calls, refused, outrun>>

TopUp(k) ==
    /\ ~hasCredit[k] /\ changes < MaxChanges
    /\ hasCredit' = [hasCredit EXCEPT ![k] = TRUE]
    /\ changes' = changes + 1
    /\ UNCHANGED <<park, calls, refused, outrun>>

\* Mutant: a key that was parked stays parked.
KeepParked(n) == n

Elapse(n) == IF n = 0 THEN 0 ELSE n - 1

RingTick ==
    /\ \E k \in Pool : park[k] > 0
    /\ park' = [k \in Pool |-> Elapse(park[k])]
    /\ refused' = [k \in Pool |-> IF refused[k] = LongAgo THEN LongAgo ELSE refused[k] + 1]
    /\ UNCHANGED <<hasCredit, calls, outrun, changes>>

KeyRingNext ==
    \/ \E c \in Call : BeginCall(c) \/ Respond(c) \/ Resume(c)
    \/ \E k \in Pool : RunOut(k) \/ TopUp(k)
    \/ RingTick

KeyRingSafety == KeyRingInit /\ [][KeyRingNext]_keyRingVars
KeyRingSpec   ==
    /\ KeyRingSafety
    /\ WF_keyRingVars(RingTick)
    /\ \A c \in Call : WF_keyRingVars(Respond(c)) /\ WF_keyRingVars(Resume(c))
-----------------------------------------------------------------------------
KeyRingTypeOK ==
    /\ park \in [Pool -> 0..LongPark] /\ refused \in [Pool -> 0..LongAgo]
    /\ hasCredit \in [Pool -> BOOLEAN] /\ outrun \in [Pool -> BOOLEAN]
    /\ \A c \in Call : calls[c].left \subseteq Pool

\* "parked for a long cooldown instead of being retried every call"
\* (keyring.py:10-13): within it only an answer from before can free the key.
SpentKeyRests == \A k \in Pool : refused[k] < LongPark => park[k] > 0 \/ outrun[k]

\* "a manually topped-up key recovers the same day" (keyring.py:33-35): no
\* key is parked for ever, whatever the calls in flight report.
KeyComesBack == \A k \in Pool : park[k] > 0 ~> park[k] = 0
=============================================================================
