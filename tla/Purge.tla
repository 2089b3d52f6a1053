------------------------------- MODULE Purge -------------------------------
(* Deleting an account (api/v1/auth.py, services/account.py and the daily  *)
(* cron of workers/tasks.py).                                              *)
(*                                                                         *)
(* The owner's deletion only marks the account.  Days later the cron first *)
(* removes the stored files and then, in one commit, the rows.  Background *)
(* jobs of the account do not look at the mark and go on storing files and *)
(* rows meanwhile.                                                         *)
EXTENDS Naturals, FiniteSets

CONSTANTS
    Owner,          \* accounts
    Job,            \* background jobs that may run at a time
    GraceDays,      \* PURGE_GRACE_DAYS
    MaxFiles,       \* bound on an account's stored files
    ListLimit,      \* files one delete_prefix removes (supabase.py: 1000)
    ForeignKeys     \* TRUE for PostgreSQL, FALSE for SQLite without the pragma

ASSUME PurgeAssumption ==
    /\ GraceDays \in Nat /\ MaxFiles \in Nat /\ ListLimit \in Nat /\ ForeignKeys \in BOOLEAN

VARIABLES
    account,        \* users: "live", "deleted" (deleted_at is set) or "gone"
    daysLeft,       \* until the grace period is over
    files,          \* number of objects under users/{uid}/
    kept,           \* tables that hold rows of the account
    storedLate,     \* a job stored something since the files were removed
    jobOf,          \* the account a job works for
    purge           \* the cron's run

purgeVars == <<account, daysLeft, files, kept, storedLate, jobOf, purge>>

\* _OWNED_MODELS_IN_DELETE_ORDER, and the tables it does not name (agent_runs,
\* notifications, documents, communication_events ...).
Tables   == {"listed", "unlisted"}
NoRun    == [at |-> "idle", todo |-> {}, ran |-> FALSE]
AtUser(at, u) == [at |-> at, todo |-> purge.todo \ {u}, user |-> u, ran |-> purge.ran]
NextUser == [at |-> "next", todo |-> purge.todo, ran |-> purge.ran]

PurgeInit ==
    /\ account = [u \in Owner |-> "live"]
    /\ daysLeft = [u \in Owner |-> GraceDays]
    /\ files \in [Owner -> 0..MaxFiles]
    /\ kept = [u \in Owner |-> Tables]
    /\ storedLate = [u \in Owner |-> FALSE]
    /\ jobOf = [j \in Job |-> "none"]
    /\ purge = NoRun
-----------------------------------------------------------------------------
(* delete_account: the mark, and the end of its sessions.                  *)
SoftDelete(u) ==
    /\ account[u] = "live"
    /\ account' = [account EXCEPT ![u] = "deleted"]
    /\ UNCHANGED <<daysLeft, files, kept, storedLate, jobOf, purge>>

\* An apply run, sync or tailoring of the account starts: a row asks for it.
StartJob(j, u) ==
    /\ jobOf[j] = "none" /\ account[u] # "gone"
    /\ jobOf' = [jobOf EXCEPT ![j] = u]
    /\ UNCHANGED <<account, daysLeft, files, kept, storedLate, purge>>

\* Storage does not know accounts: the write succeeds whatever became of it.
StoreFile(j) ==
    LET u == jobOf[j]
    IN  /\ u # "none" /\ files[u] < MaxFiles
        /\ files' = [files EXCEPT ![u] = @ + 1]
        /\ storedLate' = [storedLate EXCEPT ![u] = TRUE]
        /\ UNCHANGED <<account, daysLeft, kept, jobOf, purge>>

\* A foreign key refuses rows of a user that is gone, and the job fails.
StoreRow(j) ==
    LET u == jobOf[j]
    IN  /\ u # "none" /\ (ForeignKeys => account[u] # "gone")
        /\ \E t \in Tables : kept' = [kept EXCEPT ![u] = @ \cup {t}]
        /\ storedLate' = [storedLate EXCEPT ![u] = TRUE]
        /\ UNCHANGED <<account, daysLeft, files, jobOf, purge>>

EndJob(j) ==
    /\ jobOf[j] # "none"
    /\ jobOf' = [jobOf EXCEPT ![j] = "none"]
    /\ UNCHANGED <<account, daysLeft, files, kept, storedLate, purge>>
-----------------------------------------------------------------------------
Due(u) == account[u] = "deleted" /\ daysLeft[u] = 0

\* Once a day the cron reads the accounts whose grace period is over.
StartPurge ==
    /\ purge.at = "idle" /\ ~purge.ran
    /\ purge' = [at |-> "next", todo |-> {u \in Owner : Due(u)}, ran |-> TRUE]
    /\ UNCHANGED <<account, daysLeft, files, kept, storedLate, jobOf>>

NextDay ==
    /\ purge.at = "idle" /\ purge.ran
    /\ purge' = NoRun
    /\ daysLeft' = [u \in Owner |-> IF account[u] = "deleted" /\ daysLeft[u] > 0
                                    THEN daysLeft[u] - 1 ELSE daysLeft[u]]
    /\ UNCHANGED <<account, files, kept, storedLate, jobOf>>

\* Mutant: a prefix without objects is an error.
FailsWhenEmpty(u) == files[u] > 0

\* A prefix without objects is removed like any other.
PrefixKnown(u) == u \in Owner

\* Mutant: the count of what was asked for, not of what was there.
AlwaysListLimit(n) == IF n >= 0 THEN ListLimit ELSE 0

Removed(n) == IF n > ListLimit THEN ListLimit ELSE n

DeleteFiles(u) ==
    /\ purge.at = "next" /\ u \in purge.todo /\ PrefixKnown(u)
    /\ files' = [files EXCEPT ![u] = @ - Removed(@)]
    /\ storedLate' = [storedLate EXCEPT ![u] = FALSE]
    /\ purge' = AtUser("rows", u)
    /\ UNCHANGED <<account, daysLeft, kept, jobOf>>

\* Mutant: the rows are deleted although the files were not.
GoOnToRows(u) == AtUser("rows", u)

SkipUser(u) == [NextUser EXCEPT !.todo = @ \ {u}]

\* delete_prefix raises, after some files maybe: the account is left for the
\* next day.
FilesFail(u) ==
    /\ purge.at = "next" /\ u \in purge.todo
    /\ \E remaining \in 0..files[u] : files' = [files EXCEPT ![u] = remaining]
    /\ purge' = SkipUser(u)
    /\ UNCHANGED <<account, daysLeft, kept, storedLate, jobOf>>

\* The deletes of the listed tables and of the user, one commit; the rows of
\* the other tables go where the foreign keys cascade.
DeleteRows ==
    /\ purge.at = "rows"
    /\ kept' = [kept EXCEPT ![purge.user] = IF ForeignKeys THEN {} ELSE @ \ {"listed"}]
    /\ account' = [account EXCEPT ![purge.user] = "gone"]
    /\ purge' = NextUser
    /\ UNCHANGED <<daysLeft, files, storedLate, jobOf>>

\* A database error escapes and ends the run, for the users after it too; so
\* does the end of the process.
AbortPurge ==
    /\ purge.at \in {"next", "rows"}
    /\ purge' = [NoRun EXCEPT !.ran = TRUE]
    /\ UNCHANGED <<account, daysLeft, files, kept, storedLate, jobOf>>

EndPurge ==
    /\ purge.at = "next" /\ purge.todo = {}
    /\ purge' = [NoRun EXCEPT !.ran = TRUE]
    /\ UNCHANGED <<account, daysLeft, files, kept, storedLate, jobOf>>

PurgeNext ==
    \/ \E u \in Owner : SoftDelete(u) \/ DeleteFiles(u) \/ FilesFail(u)
    \/ \E j \in Job : \/ StoreFile(j) \/ StoreRow(j) \/ EndJob(j)
                      \/ \E u \in Owner : StartJob(j, u)
    \/ StartPurge \/ NextDay \/ DeleteRows \/ AbortPurge \/ EndPurge

\* The cron runs every day, and neither storage nor the database fails every
\* time it is asked (strong fairness).
PurgeFairness ==
    /\ WF_purgeVars(StartPurge) /\ WF_purgeVars(NextDay) /\ WF_purgeVars(EndPurge)
    /\ \A u \in Owner : SF_purgeVars(DeleteFiles(u))
    /\ \A u \in Owner : SF_purgeVars(DeleteRows /\ purge.user = u)

PurgeSafety == PurgeInit /\ [][PurgeNext]_purgeVars
PurgeSpec   == PurgeSafety /\ PurgeFairness
-----------------------------------------------------------------------------
PurgeTypeOK ==
    /\ account \in [Owner -> {"live", "deleted", "gone"}]
    /\ daysLeft \in [Owner -> 0..GraceDays]
    /\ files \in [Owner -> 0..MaxFiles]
    /\ kept \in [Owner -> SUBSET Tables]
    /\ storedLate \in [Owner -> BOOLEAN]
    /\ jobOf \in [Job -> Owner \cup {"none"}]
    /\ purge.todo \subseteq {u \in Owner : Due(u)}
    /\ purge.at = "rows" => Due(purge.user)

\* "the daily purge retries the still-soft-deleted account rather than
\* orphaning files behind a deleted user row" (account.py:53-55): what a purged
\* account leaves was stored by a job that outlived the removal.
LeftoversAreLate ==
    \A u \in Owner : account[u] = "gone" /\ (files[u] > 0 \/ kept[u] # {}) => storedLate[u]

\* Every deleted account is purged in the end (D9), whatever single runs fail.
DeletedIsPurged == \A u \in Owner : account[u] = "deleted" ~> account[u] = "gone"
=============================================================================
