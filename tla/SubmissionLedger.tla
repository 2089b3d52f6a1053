-------------------------- MODULE SubmissionLedger --------------------------
(***************************************************************************)
(* What the apply pipeline promises its owner, without rows, sessions,     *)
(* workers or locks: an application reaches the employer at most once for  *)
(* each time the owner queued it, and outside autonomous mode only after   *)
(* the owner agreed.  DbQueue.tla implements it.                           *)
(***************************************************************************)
EXTENDS Naturals

CONSTANTS App,      \* applications
          Legacy    \* those an older release may have left queued for review

VARIABLES
    mode,     \* [App -> mode, or "none" before the application exists]
    asks,     \* [App -> Nat]: times the owner queued the application
    consent,  \* [App -> BOOLEAN]: the owner approved it or asked to run it
    sent      \* [App -> Nat]: times the employer received it

ledger == <<mode, asks, consent, sent>>

Init ==
    /\ \E left \in SUBSET Legacy :
         /\ mode = [a \in App |-> IF a \in left THEN "review" ELSE "none"]
         /\ asks = [a \in App |-> IF a \in left THEN 1 ELSE 0]
    /\ consent = [a \in App |-> FALSE]
    /\ sent = [a \in App |-> 0]

(* Creating an autonomous application queues it.                           *)
Create(a, m) ==
    /\ mode[a] = "none"
    /\ mode' = [mode EXCEPT ![a] = m]
    /\ asks' = IF m = "autonomous" THEN [asks EXCEPT ![a] = @ + 1] ELSE asks
    /\ UNCHANGED <<consent, sent>>

(* A commit of the owner's queues some applications and agrees to some.    *)
Decide(queued, agreed) ==
    /\ asks' = [a \in App |-> IF a \in queued THEN asks[a] + 1 ELSE asks[a]]
    /\ consent' = [a \in App |-> consent[a] \/ a \in agreed]
    /\ UNCHANGED <<mode, sent>>

Submit(a) ==
    /\ sent[a] < asks[a]
    /\ mode[a] = "autonomous" \/ consent[a]
    /\ sent' = [sent EXCEPT ![a] = @ + 1]
    /\ UNCHANGED <<mode, asks, consent>>

Next ==
    \/ \E a \in App, m \in {"autonomous", "review"} : Create(a, m)
    \/ \E queued, agreed \in SUBSET App : Decide(queued, agreed)
    \/ \E a \in App : Submit(a)

Spec == Init /\ [][Next]_ledger
=============================================================================
