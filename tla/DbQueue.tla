------------------------------ MODULE DbQueue ------------------------------
(***************************************************************************)
(* The database-queue workers of workers/db_queue.py driving the apply     *)
(* pipeline.  The rows are the queue: a worker polls in passes, hands      *)
(* interrupted runs back to the owner, lists the claimable rows and runs   *)
(* each under a Postgres advisory lock.  Session is the set of workers:    *)
(* each runs one application at a time in one ORM session.                 *)
(*                                                                         *)
(* A pass lists at most 20 rows; the model takes App no larger than that,  *)
(* so the list is complete.  Sign-ins (run_connects) touch no application. *)
(***************************************************************************)
EXTENDS ApplyPipeline

CONSTANTS
    NoWorker,     \* no holder of a lock
    MaxFaults     \* bound: worker crashes and failed passes

ASSUME WorkerAssumption == NoWorker \notin Session
ASSUME DeploymentAssumption == ~Redis        \* APPLY_DISPATCH=db_queue
ASSUME FaultAssumption == MaxFaults \in Nat

VARIABLES
    lock,    \* [App -> Session or NoWorker]: the advisory locks
    worker,  \* [Session -> WorkerRecord]: each worker's pass
    fresh,   \* [App -> BOOLEAN]: touched within STALE_APPLYING_SECONDS
    faults   \* worker crashes and failed passes so far

workerVars == <<lock, worker, fresh, faults>>
dbVars == <<vars, workerVars>>

WorkerPc == {"idle", "release", "list", "pick", "locked", "running",
             "recheck"}
WorkerRecord == [pc: WorkerPc, app: App \cup {NoApp},
                 stale: SUBSET App,  \* interrupted runs found by this pass
                 todo: SUBSET App,   \* claimable rows still to be picked
                 skip: SUBSET App]   \* WorkerState: rows backed off
IdleWorker == [pc |-> "idle", app |-> NoApp, stale |-> {}, todo |-> {},
               skip |-> {}]

DbTypeOK ==
    /\ TypeOK
    /\ lock \in [App -> Session \cup {NoWorker}]
    /\ worker \in [Session -> WorkerRecord]
    /\ fresh \in [App -> BOOLEAN]
    /\ faults \in Nat

DbInit ==
    /\ Init
    /\ lock = [a \in App |-> NoWorker]
    /\ worker = [w \in Session |-> IdleWorker]
    /\ fresh = [a \in App |-> TRUE]
    /\ faults = 0

(* updated_at moves with every write to a row.                             *)
Touch == fresh' = [a \in App |-> row'[a] # row[a] \/ fresh[a]]

At(w, pc) == worker[w].pc = pc
GoTo(w, pc) == worker' = [worker EXCEPT ![w].pc = pc]
(* Mutant: the lock of a dead worker is never freed.                       *)
UnlockedNever(w) == lock

Unlocked(w) == [a \in App |-> IF lock[a] = w THEN NoWorker ELSE lock[a]]

-----------------------------------------------------------------------------
(* One pass of run_once.                                                   *)

(* release_interrupted reads the APPLYING rows untouched for 45 minutes... *)
BeginPass(w) ==
    /\ At(w, "idle")
    /\ worker' = [worker EXCEPT
                    ![w].pc = "release",
                    ![w].stale = {a \in App : row[a].status = "applying"
                                              /\ ~fresh[a]}]
    /\ UNCHANGED <<vars, lock, fresh, faults>>

(* Mutant: the hand-back is never committed.                               *)
ReleaseUncommitted(w) ==
    /\ At(w, "release") /\ GoTo(w, "list")
    /\ UNCHANGED <<vars, lock, fresh, faults>>

(* ... and writes them back in a later commit, whatever they are by then.  *)
Release(w) ==
    /\ At(w, "release")
    /\ \/ /\ worker[w].stale # {}
          /\ ReturnToOwner(worker[w].stale)
          /\ GoTo(w, "list") /\ Touch
       \/ /\ worker[w].stale = {}
          /\ GoTo(w, "list") /\ UNCHANGED <<vars, fresh>>
       \/ /\ worker[w].stale # {}
          /\ ~UniqueActive(Returned(worker[w].stale))
          /\ GoTo(w, "idle") /\ UNCHANGED <<vars, fresh>>
    /\ UNCHANGED <<lock, faults>>

List(w) ==
    /\ At(w, "list")
    /\ worker' = [worker EXCEPT
                    ![w].pc = "pick", ![w].stale = {},
                    ![w].todo = {a \in App : row[a].status \in Claimable}]
    /\ UNCHANGED <<vars, lock, fresh, faults>>

(* A row backed off or locked by another worker is passed over.            *)
PassOver(w, a) ==
    /\ At(w, "pick") /\ a \in worker[w].todo
    /\ a \in worker[w].skip \/ lock[a] # NoWorker
    /\ worker' = [worker EXCEPT ![w].todo = @ \ {a}]
    /\ UNCHANGED <<vars, lock, fresh, faults>>

(* Mutant: the lock is a no-op, as it is on SQLite.                        *)
TryLockAlways(w, a) ==
    /\ At(w, "pick") /\ a \in worker[w].todo
    /\ a \notin worker[w].skip
    /\ lock' = [lock EXCEPT ![a] = w]
    /\ worker' = [worker EXCEPT ![w].pc = "locked", ![w].app = a,
                                ![w].todo = @ \ {a}]
    /\ UNCHANGED <<vars, fresh, faults>>

TryLock(w, a) ==
    /\ At(w, "pick") /\ a \in worker[w].todo
    /\ a \notin worker[w].skip
    /\ lock[a] = NoWorker
    /\ lock' = [lock EXCEPT ![a] = w]
    /\ worker' = [worker EXCEPT ![w].pc = "locked", ![w].app = a,
                                ![w].todo = @ \ {a}]
    /\ UNCHANGED <<vars, fresh, faults>>

(* run_apply_pipeline, always as a first try.                              *)
StartRun(w) ==
    /\ At(w, "locked")
    /\ GoTo(w, "running")
    /\ \/ Load(w, worker[w].app, 1)
       \/ ~Runnable(row[worker[w].app].status, 1) /\ UNCHANGED vars
    /\ UNCHANGED <<lock, fresh, faults>>

(* An exception that escapes the run is caught by the pass.                *)
Running(w) ==
    /\ At(w, "running")
    /\ RunStep(w) \/ Abort(w)
    /\ Touch /\ UNCHANGED <<lock, worker, faults>>

Unlock(w) ==
    /\ At(w, "running") /\ run[w].pc = "idle"
    /\ lock' = [lock EXCEPT ![worker[w].app] = NoWorker]
    /\ GoTo(w, "recheck")
    /\ UNCHANGED <<vars, fresh, faults>>

(* A row that is claimable again after its run backs off for 15 minutes.   *)
Recheck(w) ==
    LET a == worker[w].app
        held == IF row[a].status \in Claimable THEN {a} ELSE {}
    IN  /\ At(w, "recheck")
        /\ worker' = [worker EXCEPT ![w].pc = "pick", ![w].app = NoApp,
                                    ![w].skip = @ \cup held]
        /\ UNCHANGED <<vars, lock, fresh, faults>>

EndPass(w) ==
    /\ At(w, "pick") /\ worker[w].todo = {}
    /\ GoTo(w, "idle")
    /\ UNCHANGED <<vars, lock, fresh, faults>>

WorkerStep(w) ==
    \/ BeginPass(w) \/ Release(w) \/ List(w)
    \/ \E a \in App : PassOver(w, a) \/ TryLock(w, a)
    \/ StartRun(w) \/ Running(w) \/ Unlock(w) \/ Recheck(w) \/ EndPass(w)

-----------------------------------------------------------------------------
(* Time and faults.                                                        *)

BackOffExpires(w, a) ==
    /\ a \in worker[w].skip
    /\ worker' = [worker EXCEPT ![w].skip = @ \ {a}]
    /\ UNCHANGED <<vars, lock, fresh, faults>>

(* 45 minutes without a write; a live run is not exempt.                   *)
GrowStale(a) ==
    /\ row[a].status = "applying" /\ fresh[a]
    /\ fresh' = [fresh EXCEPT ![a] = FALSE]
    /\ UNCHANGED <<vars, lock, worker, faults>>

(* The pass fails between two runs (run_forever logs it and polls on), or  *)
(* the process dies, which also ends its run, its connection - and so its  *)
(* lock - and its memory of what to skip.                                  *)
Fail(w, memory) ==
    /\ ~At(w, "idle")
    /\ faults < MaxFaults
    /\ faults' = faults + 1
    /\ lock' = Unlocked(w)
    /\ worker' = [worker EXCEPT ![w] = [IdleWorker EXCEPT !.skip = memory]]
    /\ IF run[w].pc = "idle" THEN UNCHANGED vars ELSE Abort(w)
    /\ UNCHANGED fresh

PassFails(w) == ~At(w, "running") /\ Fail(w, worker[w].skip)
Crash(w) == Fail(w, {})

DbNext ==
    \/ \E w \in Session : WorkerStep(w) \/ PassFails(w) \/ Crash(w)
    \/ \E w \in Session, a \in App : BackOffExpires(w, a)
    \/ \E a \in App : GrowStale(a)
    \/ OwnerStep /\ Touch /\ UNCHANGED <<lock, worker, faults>>

DbSafety == DbInit /\ [][DbNext]_dbVars

(* A worker keeps polling and a run ends (browser.max_steps bounds it);    *)
(* time passes.  Nothing is asked of the owner.                            *)
DbFairness ==
    /\ \A w \in Session : WF_dbVars(WorkerStep(w))
    /\ \A w \in Session, a \in App : WF_dbVars(BackOffExpires(w, a))
    /\ \A a \in App : WF_dbVars(GrowStale(a))

DbSpec == DbSafety /\ DbFairness

-----------------------------------------------------------------------------
(* Properties.                                                             *)

(* "Two workers never run the same application at once" (db_queue.py:15):  *)
(* also across crashes, hand-backs of runs that are still alive and owner  *)
(* re-runs in the middle of a run.                                         *)
MutualExclusion ==
    \A v, w \in Session : \A a \in App :
        InPipeline(v, a) /\ InPipeline(w, a) => v = w

(* A real submission is only ever made in answer to an owner's commit that *)
(* queued the row, once per commit: no crash, hand-back, hold, back-off or *)
(* second worker makes the employer receive the application again.  This   *)
(* is what release_interrupted (db_queue.py:84-90) and the status re-check *)
(* of _apply (tasks.py:451-461) are for.  It needs transient errors to     *)
(* come before the click; see AnyTransient for the other case.             *)
OneClickPerAsk == \A a \in App : sent[a] <= asks[a]

(* Why these two are inductive.  A run belongs to the worker that holds    *)
(* the lock of its row, and ...                                            *)
RunLocked ==
    \A w \in Session :
        /\ worker[w].pc \in {"locked", "running", "recheck"} =>
             worker[w].app \in App
        /\ worker[w].pc \in {"locked", "running"} =>
             lock[worker[w].app] = w
        /\ run[w].pc # "idle" =>
             At(w, "running") /\ run[w].app = worker[w].app

(* ... an ask is left over wherever a click may still come from: a row     *)
(* waiting, a run on its way to the browser, a browser before its click.   *)
ToBrowser(w, a) == run[w].app = a /\ run[w].pc \in {"loaded", "cleared"}
ToClick(w, a)   == run[w].app = a /\ run[w].pc = "browser"
Waiting(a) == row[a].status \in Claimable

AsksCover ==
    /\ \A a \in App : sent[a] <= asks[a]
    /\ \A a \in App : Waiting(a) => sent[a] + 1 <= asks[a]
    /\ \A a \in App, w \in Session :
         ToBrowser(w, a) \/ ToClick(w, a) => sent[a] + 1 <= asks[a]
    /\ \A a \in App, w \in Session :
         ToClick(w, a) /\ Waiting(a) => sent[a] + 2 <= asks[a]

SnapStatus ==
    \A w \in Session :
        run[w].pc \in {"loaded", "cleared"} => run[w].snap.status \in Claimable

(* No row stays APPLYING for ever, whatever died in the middle of its run  *)
(* (db_queue.py:79-81).                                                    *)
LeavesApplying ==
    \A a \in App : row[a].status = "applying" ~> row[a].status # "applying"

(* A queued or approved row is always taken up again by some worker - also *)
(* after a hold or a crash - until it is no longer waiting.                *)
WaitingIsTried ==
    \A a \in App :
        row[a].status \in Claimable ~>
            \/ row[a].status \notin Claimable
            \/ \E w \in Session : InPipeline(w, a)

(* The whole deployment implements the ledger of SubmissionLedger.tla:     *)
(* each click answers an ask not yet used and, in review mode, a consent   *)
(* that was there when the click was made ("nothing leaves without an      *)
(* explicit approval", docs/AUTOMATION_POLICY.md 4.1).                     *)
Ledger == INSTANCE SubmissionLedger WITH
            mode <- [a \in App |-> IF row[a].status = "absent" THEN "none"
                                   ELSE row[a].mode]
LedgerSpec == Ledger!Spec

-----------------------------------------------------------------------------
(* What the repository says and the code does not do.  Each of these is    *)
(* violated; README.md tells the counterexamples.                          *)

(* The re-check of the status stops "a withdrawn application being         *)
(* submitted anyway (and a hold silently un-withdrawing it)"               *)
(* (tasks.py:451-455): no run puts a withdrawn row back on its way out.     *)
WithdrawnStaysWithdrawn ==
    [][\A a \in App :
         row[a].status = "withdrawn" /\ row'[a].status \notin Inactive =>
           \E t \in Tab : a \in req[t].apps]_dbVars

(* "Idempotent create, so a double-submit/retry can't create a duplicate   *)
(* auto-apply" (application.py:166-167): without an approval or a re-run   *)
(* the employer receives an application at most once.                      *)
CreateIsIdempotent == \A a \in App : ~consent[a] => sent[a] <= 1
=============================================================================
