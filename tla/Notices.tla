------------------------------ MODULE Notices ------------------------------
(* Notifications and their email copies (services/notifications.py) and    *)
(* the daily digest (services/digest.py), for one user.                    *)
(*                                                                         *)
(* notify works inside the caller's transaction: the row becomes visible   *)
(* when the caller commits, the email has gone out by then.                *)
EXTENDS Naturals, FiniteSets

CONSTANTS
    Fact,           \* what there is to notify of, by dedup_key
    Caller,         \* transactions that emit
    DigestRun,      \* runs of the daily digest that may overlap
    MaxLosses       \* bound on commits that fail and replies that are lost

ASSUME NoticesAssumption ==
    /\ MaxLosses \in Nat /\ "none" \notin Fact
    /\ IsFiniteSet(DigestRun) /\ DigestRun # {}

VARIABLES
    bell,           \* [Fact -> "none", "unsent" or "sent"]: the row, and its emailed_at
    caller,         \* the fact a transaction has pending, and whether its email went out
    digest,         \* the rows a digest run has read, and how far it is
    mails,          \* [Fact -> Nat]: emails the owner got about it
    losses          \* commits that failed and replies of Gmail that were lost

noticesVars == <<bell, caller, digest, mails, losses>>

NothingPending == [fact |-> "none", sent |-> FALSE]
NoDigest       == [at |-> "idle", rows |-> {}]

NoticesInit ==
    /\ bell = [f \in Fact |-> "none"]
    /\ caller = [c \in Caller |-> NothingPending]
    /\ digest = [d \in DigestRun |-> NoDigest]
    /\ mails = [f \in Fact |-> 0]
    /\ losses = 0

Mailed(facts) == [f \in Fact |-> IF f \in facts THEN mails[f] + 1 ELSE mails[f]]

\* send_notification_email: SENT; not sent; or sent and FAILED, when Gmail
\* accepted the message and the reply was lost.
Send(facts, answered) ==
    \/ answered /\ mails' = Mailed(facts) /\ UNCHANGED losses
    \/ ~answered /\ UNCHANGED <<mails, losses>>
    \/ ~answered /\ losses < MaxLosses /\ losses' = losses + 1 /\ mails' = Mailed(facts)
-----------------------------------------------------------------------------
\* uq_notification_dedup: the insert waits for a transaction that has the key
\* pending, and a duplicate is dropped.
NewKey(f) == bell[f] = "none" /\ \A c \in Caller : caller[c].fact # f

\* notify: insert, then the email; emailed_at is set when it was answered.
Emit(c, f) ==
    /\ caller[c] = NothingPending /\ NewKey(f)
    /\ \E sent \in BOOLEAN :
         /\ caller' = [caller EXCEPT ![c] = [fact |-> f, sent |-> sent]]
         /\ Send({f}, sent)
    /\ UNCHANGED <<bell, digest>>

CommitCaller(c) ==
    /\ caller[c] # NothingPending
    /\ bell' = [bell EXCEPT ![caller[c].fact] = IF caller[c].sent THEN "sent" ELSE "unsent"]
    /\ caller' = [caller EXCEPT ![c] = NothingPending]
    /\ UNCHANGED <<digest, mails, losses>>

\* The row goes with everything else; what the caller does next time emits again.
RollbackCaller(c) ==
    /\ caller[c] # NothingPending /\ losses < MaxLosses
    /\ caller' = [caller EXCEPT ![c] = NothingPending]
    /\ losses' = losses + 1
    /\ UNCHANGED <<bell, digest, mails>>
-----------------------------------------------------------------------------
\* Mutant: emailed rows are sent again.
AllRows == {f \in Fact : bell[f] # "none"}

NotEmailed == {f \in Fact : bell[f] = "unsent"}

ReadDigest(d) ==
    /\ digest[d].at = "idle" /\ NotEmailed # {}
    /\ digest' = [digest EXCEPT ![d] = [at |-> "sending", rows |-> NotEmailed]]
    /\ UNCHANGED <<bell, caller, mails, losses>>

\* Any outcome but SENT marks nothing.
SendDigest(d) ==
    /\ digest[d].at = "sending"
    /\ \E sent \in BOOLEAN :
         /\ digest' = [digest EXCEPT ![d] = IF sent THEN [@ EXCEPT !.at = "marking"] ELSE NoDigest]
         /\ Send(digest[d].rows, sent)
    /\ UNCHANGED <<bell, caller>>

MarkDigest(d) ==
    /\ digest[d].at = "marking"
    /\ bell' = [f \in Fact |-> IF f \in digest[d].rows THEN "sent" ELSE bell[f]]
    /\ digest' = [digest EXCEPT ![d] = NoDigest]
    /\ UNCHANGED <<caller, mails, losses>>

LoseMarks(d) ==
    /\ digest[d].at = "marking" /\ losses < MaxLosses
    /\ digest' = [digest EXCEPT ![d] = NoDigest]
    /\ losses' = losses + 1
    /\ UNCHANGED <<bell, caller, mails>>

NoticesNext ==
    \/ \E c \in Caller : CommitCaller(c) \/ RollbackCaller(c) \/ \E f \in Fact : Emit(c, f)
    \/ \E d \in DigestRun : ReadDigest(d) \/ SendDigest(d) \/ MarkDigest(d) \/ LoseMarks(d)

NoticesSpec == NoticesInit /\ [][NoticesNext]_noticesVars
-----------------------------------------------------------------------------
NoticesTypeOK ==
    /\ bell \in [Fact -> {"none", "unsent", "sent"}]
    /\ caller \in [Caller -> [fact : Fact \cup {"none"}, sent : BOOLEAN]]
    /\ digest \in [DigestRun -> [at : {"idle", "sending", "marking"}, rows : SUBSET Fact]]
    /\ mails \in [Fact -> Nat] /\ losses \in 0..MaxLosses

\* A fact is mailed again only for a commit that failed after the mail, for a
\* mail whose reply was lost, or for a digest that overlapped another
\* (digest.py, "not already emailed").
MailedOnce == \A f \in Fact : mails[f] <= Cardinality(DigestRun) + losses
=============================================================================
