------------------------------ MODULE ArqQueue ------------------------------
(* The apply pipeline behind the Redis queue (services/dispatch.py and     *)
(* WorkerSettings of workers/tasks.py).                                    *)
(*                                                                         *)
(* arq keeps a job under an id until it has a result, and the result for   *)
(* an hour; a job id that is taken in either way is refused.  A row has    *)
(* one default id; every policy hold makes an id of its own, which is not  *)
(* used again.  A hold waits for at most an hour, so it is due before a    *)
(* result that came after it is forgotten.  A session of ApplyPipeline is  *)
(* one of the max_jobs slots of the arq worker.                            *)
EXTENDS ApplyPipeline

CONSTANTS
    HoldId,     \* ids "apply:{id}:hold:{time}" that may be pending together
    NoJob,      \* "no job" of an idle slot
    MaxFaults   \* bound on crashes, shutdowns and escaping errors

DefaultId == "apply"
JobId     == {DefaultId} \cup HoldId

ASSUME ArqAssumption ==
    /\ DefaultId \notin HoldId
    /\ NoJob \notin App \X JobId
    /\ MaxFaults \in Nat
    /\ Redis

VARIABLES
    job,      \* [App -> [JobId -> job]]
    serving,  \* the job a worker slot runs
    faults,   \* faults so far
    lost      \* ghost: rows whose last hand-over or run was given up

arqVars == <<vars, job, serving, faults, lost>>

JobRecord == [state : {"none", "deferred", "ready", "running", "retained"},
              tries : 0 .. MaxTries,
              older : BOOLEAN]      \* than the kept result of the row
NewJob    == [state |-> "none", tries |-> 0, older |-> FALSE]

ArqInit ==
    /\ Init
    /\ job = [a \in App |-> [j \in JobId |-> NewJob]]
    /\ serving = [s \in Session |-> NoJob]
    /\ faults = 0
    /\ lost = {}

Served(s) == serving[s][1]
JobOn(s)  == job[serving[s][1]][serving[s][2]]

\* The result of a default id is kept for an hour.
After(j) == IF j = DefaultId THEN "retained" ELSE "none"

\* Mutant: the count of tries is not reset with the job.
EndJobKeepsTries(a, j) ==
    [job EXCEPT ![a][j] = [NewJob EXCEPT !.state = After(j), !.tries = MaxTries + 1]]

EndJob(a, j) ==
    [job EXCEPT ![a] = [i \in JobId |->
        IF i = j THEN [NewJob EXCEPT !.state = After(j)]
        ELSE [job[a][i] EXCEPT !.older = job[a][i].older \/
                 (j = DefaultId /\ job[a][i].state = "deferred")]]]

-----------------------------------------------------------------------------
(* enqueue_apply with a pool.                                              *)

\* enqueue_job refuses an id that is pending or whose result is kept.
Enqueued(apps) ==
    [a \in App |-> IF a \in apps /\ job[a][DefaultId].state = "none"
                   THEN [job[a] EXCEPT ![DefaultId] = [NewJob EXCEPT !.state = "ready"]]
                   ELSE job[a]]

\* A job that has not started will see the row as it is then; one that has
\* started, or is over, does not.
EnqueueJobs(t) ==
    LET apps == req[t].apps
        late == {a \in apps : job[a][DefaultId].state \in {"running", "retained"}}
        safe == {a \in apps \ late : row[a].status \in Claimable}
    IN  /\ Enqueue(t)
        /\ job' = Enqueued(apps)
        /\ lost' = (lost \ safe) \cup late
        /\ UNCHANGED <<serving, faults>>

\* Redis cannot be reached, or the API process dies: the row was committed.
EnqueueFails(t) ==
    /\ faults < MaxFaults
    /\ Enqueue(t)
    /\ faults' = faults + 1
    /\ lost' = lost \cup req[t].apps
    /\ UNCHANGED <<job, serving>>

-----------------------------------------------------------------------------
(* The arq worker.                                                         *)

ComeDue(a, j) ==
    /\ job[a][j].state = "deferred"
    /\ job' = [job EXCEPT ![a][j].state = "ready", ![a][j].older = FALSE]
    /\ UNCHANGED <<vars, serving, faults, lost>>

ForgetResult(a) ==
    /\ job[a][DefaultId].state = "retained"
    /\ ~ \E h \in HoldId : job[a][h].older
    /\ job' = [job EXCEPT ![a][DefaultId].state = "none"]
    /\ UNCHANGED <<vars, serving, faults, lost>>

Ready(s, a, j) == serving[s] = NoJob /\ job[a][j].state = "ready"
NextTry(a, j)  == job[a][j].tries + 1

Deliver(s, a, j) ==
    /\ Ready(s, a, j)
    /\ NextTry(a, j) <= MaxTries
    /\ Load(s, a, NextTry(a, j))
    /\ job' = [job EXCEPT ![a][j].state = "running", ![a][j].tries = @ + 1]
    /\ serving' = [serving EXCEPT ![s] = <<a, j>>]
    /\ UNCHANGED <<faults, lost>>

\* _apply returns at once.
DeliverNotRunnable(s, a, j) ==
    /\ Ready(s, a, j)
    /\ NextTry(a, j) <= MaxTries
    /\ ~ Runnable(row[a].status, NextTry(a, j))
    /\ job' = EndJob(a, j)
    /\ UNCHANGED <<vars, serving, faults, lost>>

\* arq gives a job that was started max_tries times up without running it.
DropExhausted(s, a, j) ==
    /\ Ready(s, a, j)
    /\ NextTry(a, j) > MaxTries
    /\ job' = EndJob(a, j)
    /\ lost' = lost \cup {a}
    /\ UNCHANGED <<vars, serving, faults>>

\* The slot's job goes on with the run, and is over when the run is.
Follow(s) ==
    IF run'[s].pc = "idle"
    THEN /\ job' = EndJob(serving[s][1], serving[s][2])
         /\ serving' = [serving EXCEPT ![s] = NoJob]
    ELSE UNCHANGED <<job, serving>>

\* The slot is free and its job is kept, to be started again.
GiveBack(s, state) ==
    /\ job' = [job EXCEPT ![serving[s][1]][serving[s][2]].state = state]
    /\ serving' = [serving EXCEPT ![s] = NoJob]

RunJob(s) ==
    /\ serving[s] # NoJob
    /\ \/ StageForReview(s)
       \/ \E objections \in SUBSET Raised : Gate(s, objections)
       \/ MarkApplying(s)
       \/ Click(s) \/ Report(s) \/ MarkApplied(s)
       \/ MarkNeedsVerification(s)
       \/ MarkFailed(s)     \* also when job_timeout cancels the run
    /\ Follow(s)
    /\ UNCHANGED <<faults, lost>>

\* The row waits for the owner's setup: nothing is enqueued for it.
WaitForSetup(s) ==
    /\ serving[s] # NoJob
    /\ MarkWaitingForSetup(s)
    /\ Follow(s)
    /\ lost' = lost \cup {Served(s)}
    /\ UNCHANGED faults

\* Mutant: a hold is enqueued under the default id, which is still taken.
RequeueUnderDefaultId(s) ==
    /\ serving[s] # NoJob
    /\ Requeue(s)
    /\ Follow(s)
    /\ UNCHANGED <<faults, lost>>

RequeueHold(s) ==
    /\ serving[s] # NoJob
    /\ Requeue(s)
    /\ \E h \in HoldId :
         /\ job[Served(s)][h].state = "none"
         /\ job' = [EndJob(serving[s][1], serving[s][2])
                      EXCEPT ![Served(s)][h] =
                        [state |-> "deferred", tries |-> 0,
                         older |-> serving[s][2] = DefaultId]]
    /\ serving' = [serving EXCEPT ![s] = NoJob]
    /\ UNCHANGED <<faults, lost>>

\* Retry is raised while tries are left.
RetryLater(s) ==
    /\ serving[s] # NoJob
    /\ TransientError(s)
    /\ IF run[s].try < MaxTries THEN GiveBack(s, "deferred") ELSE Follow(s)
    /\ UNCHANGED <<faults, lost>>

Fault == faults < MaxFaults /\ faults' = faults + 1

\* Mutant: a job that was in progress when its worker died stays so.
WorkerCrashUnseen(s) ==
    /\ Fault
    /\ serving[s] # NoJob
    /\ Abort(s)
    /\ GiveBack(s, "running")
    /\ UNCHANGED lost

\* The worker dies: its job is found again when its in-progress key expires.
WorkerCrash(s) ==
    /\ Fault
    /\ serving[s] # NoJob
    /\ Abort(s)
    /\ GiveBack(s, "ready")
    /\ UNCHANGED lost

\* A shutdown cancels the run, which marks the row FAILED; arq starts the
\* job again.
Shutdown(s) ==
    /\ Fault
    /\ serving[s] # NoJob
    /\ MarkFailed(s)
    /\ GiveBack(s, "ready")
    /\ UNCHANGED lost

\* An error outside the browser run - of the database, of Redis, or
\* job_timeout there - ends the job; what was committed stays.
ErrorEscapes(s) ==
    /\ Fault
    /\ serving[s] # NoJob
    /\ Abort(s)
    /\ Follow(s)
    /\ lost' = lost \cup {Served(s)}

Work(s) == RunJob(s) \/ WaitForSetup(s) \/ RequeueHold(s) \/ RetryLater(s)
TakeJob(s, a, j) == Deliver(s, a, j) \/ DeliverNotRunnable(s, a, j) \/ DropExhausted(s, a, j)

OwnerAct ==
    /\ \/ TogglePause
       \/ \E t \in Tab : OwnerCommand(t) \/ (req[t].op # "enqueue" /\ RequestStep(t))
    /\ UNCHANGED <<job, serving, faults, lost>>

ArqNext ==
    \/ OwnerAct
    \/ \E t \in Tab : EnqueueJobs(t) \/ EnqueueFails(t)
    \/ \E a \in App : ForgetResult(a) \/ \E j \in JobId : ComeDue(a, j)
    \/ \E s \in Session, a \in App, j \in JobId : TakeJob(s, a, j)
    \/ \E s \in Session : Work(s) \/ WorkerCrash(s) \/ Shutdown(s) \/ ErrorEscapes(s)

\* The worker polls its queue, time passes, and what runs goes on.
ArqFairness ==
    /\ \A a \in App, j \in JobId :
         /\ WF_arqVars(ComeDue(a, j))
         /\ WF_arqVars(\E s \in Session : TakeJob(s, a, j))
    /\ \A s \in Session : WF_arqVars(Work(s))
    /\ \A t \in Tab : WF_arqVars(EnqueueJobs(t) \/ (RequestStep(t) /\ OwnerAct))

ArqSafety == ArqInit /\ [][ArqNext]_arqVars
ArqSpec   == ArqSafety /\ ArqFairness

-----------------------------------------------------------------------------
(* Properties.                                                             *)

ArqTypeOK ==
    /\ TypeOK
    /\ job \in [App -> [JobId -> JobRecord]]
    /\ serving \in [Session -> (App \X JobId) \cup {NoJob}]
    /\ faults \in Nat
    /\ lost \in SUBSET App
    /\ \A s \in Session :
         /\ serving[s] = NoJob <=> run[s].pc = "idle"
         /\ serving[s] # NoJob => run[s].app = Served(s) /\ JobOn(s).state = "running"

Live(a) == \E j \in JobId : job[a][j].state \in {"deferred", "ready", "running"}

\* A row that waits to go out, or is on its way, has a job that will look at
\* it (dispatch.py:52-55: a hold must not be "silently deduplicated away"),
\* whatever crashes and whatever order jobs, requests and results come in.
\* The ways out are those that set `lost`: an approval that meets a finished
\* or started job, an escaped error, missing setup, used-up tries.
NothingForgotten ==
    \A a \in App :
        a \in handed \ lost /\ row[a].status \in Claimable \cup {"applying"} =>
            Live(a) \/ \E t \in Tab : a \in req[t].apps

\* A row does not stay APPLYING for ever ("rather than leaving the row stuck
\* in APPLYING", tasks.py:537-538): each retry counts, each crash is found.
ApplyingEnds ==
    \A a \in App : (row[a].status = "applying" /\ a \notin lost)
                     ~> (row[a].status # "applying" \/ a \in lost)

\* dispatch.py:45-46: "Idempotent: the job id is derived from application_id
\* so a duplicate enqueue (e.g. a double click or retry) is a no-op while a
\* job is still pending": two slots never work on the same row.
OneRunPerRow ==
    \A s, u \in Session : s # u /\ run[s].pc # "idle" => run[s].app # run[u].app
=============================================================================
