------------------------------ MODULE InboxSync ------------------------------
(* Replies in the owner's mailbox and the applications they move           *)
(* (services/inbox_sync.py, core/orchestration/recorder.py).               *)
(*                                                                         *)
(* Two things sync a mailbox: the hourly cycle, which takes the users one  *)
(* after the other in one database session, and POST /gmail/sync.  A sync  *)
(* stages its rows in the session: the next query flushes them, which      *)
(* locks what they touch, and one commit at the end stores all of them.    *)
(* Each user has one submitted application.                                *)
EXTENDS Integers, FiniteSets

CONSTANTS
    Mailbox,       \* users with a connected mailbox
    Mail,          \* messages; a greater number is newer
    MailTo,        \* the mailbox of a message
    SaysOf,        \* what classify makes of it
    MaxCorrections \* bound on the owners' own status changes

ASSUME InboxAssumption ==
    /\ Mail \subseteq Nat /\ IsFiniteSet(Mail)
    /\ MailTo \in [Mail -> Mailbox]
    /\ SaysOf \in [Mail -> {"interview_invite", "rejection", "reply"}]
    /\ MaxCorrections \in Nat

VARIABLES
    arrived,      \* messages in the mailboxes
    recorded,     \* communication_events
    standing,     \* applications.status of the user
    agentRun,     \* the latest agent_runs row of the cycle for the user
    sync,         \* a sync under way
    visits,       \* users the cycle has yet to take up
    poisoned,     \* the cycle's session holds a failed transaction
    corrections,
    movedBy       \* committed status changes by message (ghost)

inboxVars == <<arrived, recorded, standing, agentRun, sync, visits, poisoned,
               corrections, movedBy>>

Syncer   == {"cycle", "route"}
Standing == <<"applied", "interview", "rejected">>
Rank(st) == CHOOSE i \in 1..3 : Standing[i] = st
NoSync   == [at |-> "idle", for |-> CHOOSE u \in Mailbox : TRUE, todo |-> {}, fresh |-> {},
             flushed |-> {}, sees |-> "applied", dirty |-> {}, locked |-> {}, alone |-> TRUE]

MailOf(u)    == {m \in arrived : MailTo[m] = u}
Newest(set)  == CHOOSE m \in set : \A o \in set : o <= m
Running(s)   == sync[s].at # "idle"
Other(s)     == CHOOSE o \in Syncer : o # s

InboxInit ==
    /\ arrived = {}
    /\ recorded = {}
    /\ standing = [u \in Mailbox |-> "applied"]
    /\ agentRun = [u \in Mailbox |-> "none"]
    /\ sync = [s \in Syncer |-> NoSync]
    /\ visits = {}
    /\ poisoned = FALSE
    /\ corrections = 0
    /\ movedBy = [m \in Mail |-> 0]
-----------------------------------------------------------------------------
MailArrives(m) ==
    /\ m \notin arrived
    /\ arrived' = arrived \cup {m}
    /\ UNCHANGED <<recorded, standing, agentRun, sync, visits, poisoned, corrections, movedBy>>

Begin(s, u) ==
    sync' = [sync EXCEPT ![s] = [NoSync EXCEPT !.at = "listing", !.for = u, !.sees = standing[u]]]

\* The cron job; a new session.
StartCycle ==
    /\ visits = {} /\ ~Running("cycle")
    /\ visits' = Mailbox
    /\ poisoned' = FALSE
    /\ UNCHANGED <<arrived, recorded, standing, agentRun, sync, corrections, movedBy>>

\* record_agent_run commits the RUNNING row; the candidates are loaded.
TakeUser(u) ==
    /\ u \in visits /\ ~Running("cycle") /\ ~poisoned
    /\ visits' = visits \ {u}
    /\ agentRun' = [agentRun EXCEPT ![u] = "running"]
    /\ Begin("cycle", u)
    /\ UNCHANGED <<arrived, recorded, standing, poisoned, corrections, movedBy>>

\* The first query of the next user raises in a session that was not rolled back.
FailUser(u) ==
    /\ u \in visits /\ ~Running("cycle") /\ poisoned
    /\ visits' = visits \ {u}
    /\ UNCHANGED <<arrived, recorded, standing, agentRun, sync, poisoned, corrections, movedBy>>

StartRoute(u) ==
    /\ ~Running("route")
    /\ Begin("route", u)
    /\ UNCHANGED <<arrived, recorded, standing, agentRun, visits, poisoned, corrections, movedBy>>

ListMessages(s) ==
    /\ sync[s].at = "listing"
    /\ sync' = [sync EXCEPT ![s].at = "reading", ![s].todo = MailOf(sync[s].for)]
    /\ UNCHANGED <<arrived, recorded, standing, agentRun, visits, poisoned, corrections, movedBy>>

\* Mutant: the email's verdict is taken whatever the status.
AdvanceAlways(st, m) ==
    CASE SaysOf[m] = "interview_invite" -> "interview"
      [] SaysOf[m] = "rejection" -> "rejected"
      [] OTHER -> st

\* _advance_from_email: only from a state that the email can follow.
Advance(st, m) ==
    CASE SaysOf[m] = "interview_invite" /\ st = "applied" -> "interview"
      [] SaysOf[m] = "rejection" /\ st \in {"applied", "interview"} -> "rejected"
      [] OTHER -> st

\* Mutant: communication_events without uq_communication_event.
NoConflict(s) == FALSE

\* A row of this sync breaks the unique constraint: another one committed it.
Conflict(s) == sync[s].fresh \cap recorded # {}

\* Mutant: nothing is locked between the flush and the commit.
NeverWaits(s) == FALSE

\* A flush waits for a row the other sync has flushed and not committed.
FlushWaits(s) ==
    LET other == sync[Other(s)]
    IN  \/ sync[s].fresh \cap other.flushed # {}
        \/ /\ sync[s].dirty # {} /\ other.locked # {}
           /\ other.for = sync[s].for

Flushed(r) == [r EXCEPT !.flushed = @ \cup r.fresh, !.fresh = {},
                        !.locked = @ \cup r.dirty, !.dirty = {}]

\* One message, newest first: the query flushes what is staged, then an unseen
\* message is fetched and staged; a failed fetch leaves it to the next sync.
Look(s, m, stage) ==
    /\ sync[s].at = "reading" /\ sync[s].todo # {} /\ m = Newest(sync[s].todo)
    /\ ~Conflict(s) /\ ~FlushWaits(s)
    /\ LET r    == [Flushed(sync[s]) EXCEPT !.todo = @ \ {m}]
           next == Advance(r.sees, m)
       IN  sync' = [sync EXCEPT ![s] =
               IF stage /\ m \notin recorded
               THEN [r EXCEPT !.fresh = {m}, !.sees = next,
                              !.dirty = IF next = r.sees THEN {} ELSE {m}]
               ELSE r]
    /\ UNCHANGED <<arrived, recorded, standing, agentRun, visits, poisoned, corrections, movedBy>>

ReadMessage(s, m) == Look(s, m, TRUE)
FetchFails(s, m)  == m \notin recorded /\ Look(s, m, FALSE)

\* What a commit of the session stores; the other sync's view is no longer fresh.
Store(s) ==
    LET r      == sync[s]
        movers == r.dirty \cup r.locked
    IN  /\ ~Conflict(s) /\ ~FlushWaits(s)
        /\ recorded' = recorded \cup r.flushed \cup r.fresh
        /\ standing' = IF movers = {} THEN standing ELSE [standing EXCEPT ![r.for] = r.sees]
        /\ movedBy' = [m \in Mail |-> IF m \in movers THEN movedBy[m] + 1 ELSE movedBy[m]]
        /\ sync' = [o \in Syncer |->
               IF o = s THEN NoSync
               ELSE [sync[o] EXCEPT !.alone = @ /\ (movers = {} \/ sync[o].for # r.for)]]

Close(s, outcome) ==
    agentRun' = IF s = "cycle" THEN [agentRun EXCEPT ![sync[s].for] = outcome] ELSE agentRun

FinishSync(s) ==
    /\ sync[s].at = "reading" /\ sync[s].todo = {}
    /\ Store(s) /\ Close(s, "done")
    /\ UNCHANGED <<arrived, visits, poisoned, corrections>>

\* The job's timeout cancels the cycle: the recorder's handler commits the
\* session, so what the sync had staged is stored.
CancelCycle ==
    /\ sync["cycle"].at = "reading"
    /\ Store("cycle") /\ Close("cycle", "error")
    /\ visits' = {}
    /\ UNCHANGED <<arrived, poisoned, corrections>>

\* The flush raises IntegrityError and the transaction is gone.  In the cycle
\* the commit of the recorder's handler then raises as well: the RUNNING row
\* stays, and so does the failed transaction.
SyncConflicts(s) ==
    /\ sync[s].at = "reading" /\ Conflict(s)
    /\ sync' = [sync EXCEPT ![s] = NoSync]
    /\ poisoned' = (poisoned \/ s = "cycle")
    /\ UNCHANGED <<arrived, recorded, standing, agentRun, visits, corrections, movedBy>>

\* Gmail refuses the token or the list.
ListFails(s) ==
    /\ sync[s].at = "listing"
    /\ sync' = [sync EXCEPT ![s] = NoSync]
    /\ Close(s, "error")
    /\ UNCHANGED <<arrived, recorded, standing, visits, poisoned, corrections, movedBy>>

\* The owner sets the status; the update waits for a row a sync has locked.
Correct(u, st) ==
    /\ corrections < MaxCorrections /\ standing[u] # st
    /\ \A s \in Syncer : sync[s].for = u => sync[s].locked = {}
    /\ standing' = [standing EXCEPT ![u] = st]
    /\ corrections' = corrections + 1
    /\ sync' = [s \in Syncer |->
           IF Running(s) /\ sync[s].for = u THEN [sync[s] EXCEPT !.alone = FALSE] ELSE sync[s]]
    /\ UNCHANGED <<arrived, recorded, agentRun, visits, poisoned, movedBy>>

SyncProceeds(s) ==
    \/ ListMessages(s) \/ FinishSync(s) \/ SyncConflicts(s)
    \/ \E m \in Mail : ReadMessage(s, m)

InboxNext ==
    \/ \E m \in Mail : MailArrives(m)
    \/ StartCycle \/ CancelCycle
    \/ \E u \in Mailbox : TakeUser(u) \/ FailUser(u) \/ StartRoute(u)
    \/ \E s \in Syncer : SyncProceeds(s) \/ ListFails(s) \/ \E m \in Mail : FetchFails(s, m)
    \/ \E u \in Mailbox, i \in 1..3 : Correct(u, Standing[i])

InboxSpec == InboxInit /\ [][InboxNext]_inboxVars
-----------------------------------------------------------------------------
InboxTypeOK ==
    /\ recorded \subseteq arrived /\ arrived \subseteq Mail
    /\ \A u \in Mailbox : standing[u] \in {Standing[i] : i \in 1..3}
    /\ agentRun \in [Mailbox -> {"none", "running", "done", "error"}]
    /\ \A s \in Syncer :
         /\ sync[s].at \in {"idle", "listing", "reading"}
         /\ sync[s].todo \cup sync[s].fresh \cup sync[s].flushed \subseteq MailOf(sync[s].for)
         /\ sync[s].dirty \subseteq sync[s].fresh /\ sync[s].locked \subseteq sync[s].flushed
    /\ sync["cycle"].flushed \cap sync["route"].flushed = {}
    /\ visits \subseteq Mailbox /\ poisoned \in BOOLEAN
    /\ corrections \in 0..MaxCorrections

\* An email moves its application once, however the syncs overlap: an owner
\* who undoes a misread email does not see it applied again
\* (inbox_sync.py:60-66, the unique constraint at communication_event.py:31).
MovedOnce == \A m \in Mail : movedBy[m] <= 1

\* A sync that nobody interfered with never moves an application backwards,
\* although it reads the newest message first (inbox_sync.py:56-59).
NeverBackwards ==
    [][\A s \in Syncer :
         Running(s) /\ sync[s].alone /\ sync'[s] = NoSync =>
           Rank(standing'[sync[s].for]) >= Rank(standing[sync[s].for])]_inboxVars

\* What recorder.py:79-81 says: a crashed agent always leaves a closed record,
\* never one stuck at RUNNING.
RunsAreClosed ==
    \A u \in Mailbox : agentRun[u] = "running" => Running("cycle") /\ sync["cycle"].for = u
=============================================================================
