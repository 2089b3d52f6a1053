--------------------------- MODULE ApplyPipeline ---------------------------
(***************************************************************************)
(* The apply pipeline of CVil-War: the application rows in the database,   *)
(* the runs of workers/tasks.py that submit them in a browser, and the API *)
(* requests by which the owner creates, approves, re-runs and edits them.  *)
(*                                                                         *)
(* Every actor works on an ORM session.  A session loads a row once, keeps *)
(* that snapshot (expire_on_commit is off) and, on commit, writes only the *)
(* columns it changed: `status` and the JSON column `resume_state`, the    *)
(* latter as a whole.  A commit therefore leaves alone what it did not     *)
(* change and overwrites, unseen, what another session wrote meanwhile.    *)
(*                                                                         *)
(* Spec here lets ANY dispatcher hand any row to any run at any time: the  *)
(* arq worker, the database queue or the API itself.  DbQueue.tla composes *)
(* the same actions with the database-queue worker.                        *)
(***************************************************************************)
EXTENDS Naturals, FiniteSets

CONSTANTS
    App,                 \* ids of application rows
    JobOf,               \* [App -> job]: the posting a row applies to
    Legacy,              \* rows an older release may have left QUEUED in review
    Session,             \* ORM sessions that run the pipeline
    Tab,                 \* ORM sessions of the owner's API requests
    NoApp,               \* "no row" in the record of an idle run
    Raised,              \* objections the owner's policy can raise
    OwnerStatus,         \* statuses the owner sends to PUT /status
    Redis,               \* BOOLEAN: a Redis/arq queue is configured
    LiveApply,           \* BOOLEAN: BROWSER__LIVE_APPLY
    TransientAfterClick, \* BOOLEAN: a transient error may follow the click
    MaxTries,            \* MAX_TRIES of workers/tasks.py
    MaxCommands,         \* bound: commands the owner issues
    MaxClicks            \* bound: real submissions of one row

Status == {"absent", "queued", "pending_review", "approved", "applying",
           "applied", "interview", "offer", "rejected", "withdrawn", "failed"}
Mode == {"autonomous", "review"}       \* "batch" behaves as "review"

ASSUME AppAssumption == NoApp \notin App /\ Legacy \subseteq App
ASSUME JobAssumption ==
    \A a, b \in Legacy : JobOf[a] = JobOf[b] => a = b
ASSUME StatusAssumption == OwnerStatus \subseteq Status \ {"absent"}
ASSUME RaisedAssumption == {"pacing_hold", "block"} \subseteq Raised
ASSUME BoundAssumption ==
    MaxTries \in Nat \ {0} /\ MaxCommands \in Nat /\ MaxClicks \in Nat
ASSUME FlagAssumption ==
    {Redis, LiveApply, TransientAfterClick} \subseteq BOOLEAN

Claimable == {"queued", "approved"}
Submitted == {"applied", "interview", "rejected", "offer"}
Inactive  == {"absent", "rejected", "withdrawn", "failed"}

(* What the policy gate may object: "escalate", "quality_hold",            *)
(* "pacing_hold" or "block", by what it does to the run.  The owner's      *)
(* approval answers an escalation and the ATS-quality hold.                *)
Waivable == {"escalate", "quality_hold"}

Verdict(objections) ==
    IF "block" \in objections THEN "block"
    ELSE IF "escalate" \in objections THEN "escalate"
    ELSE IF objections # {} THEN "hold"
    ELSE "allow"

(* resume_state: when the owner approved (0: never), whether a run paused  *)
(* at a verification check, and the objections an approval has waived.     *)
Resume == [approved: Nat, blocked: BOOLEAN, waiver: SUBSET Waivable]
Row    == [status: Status, mode: Mode, resume: Resume]

NoResume == [approved |-> 0, blocked |-> FALSE, waiver |-> {}]
NewRow(m, st) == [status |-> st, mode |-> m, resume |-> NoResume]
NoRow == NewRow("review", "absent")

HumanApproved(r) == r.resume.approved > 0
MarkApproved(resume, n) == [resume EXCEPT !.approved = n, !.blocked = FALSE]
InitialStatus(m) == IF m = "autonomous" THEN "queued" ELSE "pending_review"

(* A session that loaded `old` and now holds `new` commits over `current`. *)
Merge(current, old, new) ==
    [current EXCEPT
        !.status = IF new.status = old.status THEN @ ELSE new.status,
        !.resume = IF new.resume = old.resume THEN @ ELSE new.resume]

(* The partial unique index uq_app_active_job; a commit that would break   *)
(* it raises IntegrityError and is rolled back.                            *)
UniqueActive(rows) ==
    \A a, b \in App :
        /\ a # b /\ JobOf[a] = JobOf[b]
        /\ rows[a].status \notin Inactive
        => rows[b].status \in Inactive

VARIABLES
    row,      \* [App -> Row]: the applications table
    run,      \* [Session -> RunRecord]: pipeline runs
    req,      \* [Tab -> Request]: API requests in progress
    paused,   \* the kill switch of the owner's policy
    handed,   \* rows that were ever handed to the arq queue
    acts,     \* commands the owner has issued
    asks,     \* ghost: owner commits that made the row claimable
    consent,  \* ghost: the owner approved or asked to (re-)run the row
    sent      \* ghost: times the employer really received the application

vars == <<row, run, req, paused, handed, acts, asks, consent, sent>>

RunPc == {"idle", "loaded", "cleared", "held", "browser", "clicked",
          "reported"}
RunRecord == [pc: RunPc, app: App \cup {NoApp}, try: 1 .. MaxTries, snap: Row]
IdleRun == [pc |-> "idle", app |-> NoApp, try |-> 1, snap |-> NoRow]

Op == {"none", "created", "dispatch", "approve", "update", "refresh", "rerun",
       "resolve", "enqueue"}
Request == [op: Op, apps: SUBSET App, to: OwnerStatus \cup {"absent"},
            n: Nat, snap: [App -> Row]]
NoRequest == [op |-> "none", apps |-> {}, to |-> "absent", n |-> 0,
              snap |-> [a \in App |-> NoRow]]

TypeOK ==
    /\ row \in [App -> Row]
    /\ run \in [Session -> RunRecord]
    /\ \A s \in Session : run[s].app = NoApp <=> run[s].pc = "idle"
    /\ req \in [Tab -> Request]
    /\ paused \in BOOLEAN
    /\ handed \in SUBSET App
    /\ acts \in Nat
    /\ asks \in [App -> Nat]
    /\ consent \in [App -> BOOLEAN]
    /\ sent \in [App -> Nat]

Init ==
    /\ \E left \in SUBSET Legacy :
         /\ row = [a \in App |->
                     IF a \in left THEN NewRow("review", "queued") ELSE NoRow]
         /\ asks = [a \in App |-> IF a \in left THEN 1 ELSE 0]
    /\ run = [s \in Session |-> IdleRun]
    /\ req = [t \in Tab |-> NoRequest]
    /\ paused = FALSE
    /\ handed = {}
    /\ acts = 0
    /\ consent = [a \in App |-> FALSE]
    /\ sent = [a \in App |-> 0]

-----------------------------------------------------------------------------
(* The run: workers/tasks.py _apply.                                       *)

InPipeline(s, a) == run[s].pc # "idle" /\ run[s].app = a
InBrowser(s) == run[s].pc \in {"browser", "clicked"}

(* Mutant: the context of the last run is kept.                            *)
EndKeepsApp(s) == run' = [run EXCEPT ![s].pc = "idle"]

End(s) == run' = [run EXCEPT ![s] = IdleRun]

(* Commit the run's changes and go on at `pc`; an integrity error leaves   *)
(* the row as it is and ends the run.                                      *)
Commit(s, new, pc) ==
    LET rows == [row EXCEPT ![run[s].app] = Merge(@, run[s].snap, new)]
    IN  IF UniqueActive(rows)
        THEN /\ row' = rows
             /\ run' = [run EXCEPT ![s] =
                          IF pc = "idle" THEN IdleRun
                          ELSE [@ EXCEPT !.pc = pc, !.snap = new]]
        ELSE UNCHANGED row /\ End(s)

CommitStatus(s, st, pc) ==
    Commit(s, [run[s].snap EXCEPT !.status = st], pc)

RunOnly == UNCHANGED <<req, paused, acts, asks, consent>>

Runnable(st, try) == st \in Claimable \/ (try > 1 /\ st = "applying")

(* Load the row: attempt `try` of a dispatched job.  A row that is not     *)
(* runnable ends the run at once, which changes nothing.                   *)
Load(s, a, try) ==
    /\ run[s].pc = "idle"
    /\ try > 1 => Redis /\ a \in handed
    /\ Runnable(row[a].status, try)
    /\ run' = [run EXCEPT ![s] =
                 [pc |-> "loaded", app |-> a, try |-> try, snap |-> row[a]]]
    /\ RunOnly /\ UNCHANGED <<row, handed, sent>>

(* Mutant: the review guard is missing.                                    *)
NoReviewGuard(r) == FALSE

NeedsReview(r) ==
    r.status = "queued" /\ r.mode # "autonomous" /\ ~HumanApproved(r)

StageForReview(s) ==
    /\ run[s].pc = "loaded" /\ NeedsReview(run[s].snap)
    /\ CommitStatus(s, "pending_review", "idle")
    /\ RunOnly /\ UNCHANGED <<handed, sent>>

(* Another application to the same posting already reached the employer.   *)
Duplicate(a) ==
    \E b \in App \ {a} : JobOf[b] = JobOf[a] /\ row[b].status \in Submitted

MayObject(a, objections) ==
    /\ paused => "pacing_hold" \in objections
    /\ Duplicate(a) => "block" \in objections

(* The policy gate, the owner's approval applied to it, and the resting    *)
(* place of each refusal.                                                  *)
Gate(s, objections) ==
    LET snap   == run[s].snap
        waived == IF HumanApproved(snap) THEN objections \cap Waivable ELSE {}
        noted  == IF waived = {} THEN snap
                  ELSE [snap EXCEPT !.resume.waiver = waived]
        verdict == Verdict(objections \ waived)
    IN  /\ run[s].pc = "loaded" /\ ~NeedsReview(snap)
        /\ MayObject(run[s].app, objections)
        /\ \/ /\ verdict = "allow"
              /\ Commit(s, noted, "cleared")
           \/ /\ verdict = "hold"
              /\ Commit(s, [noted EXCEPT !.status = "queued"], "held")
           \/ /\ verdict = "escalate"
              /\ Commit(s, [noted EXCEPT !.status = "pending_review"], "idle")
           \/ /\ verdict = "block"
              /\ Commit(s, [noted EXCEPT !.status = "failed"], "idle")
        /\ RunOnly /\ UNCHANGED <<handed, sent>>

(* After a hold is committed the row is handed back to the queue, deferred.*)
Requeue(s) ==
    /\ run[s].pc = "held"
    /\ handed' = IF Redis THEN handed \cup {run[s].app} ELSE handed
    /\ End(s)
    /\ RunOnly /\ UNCHANGED <<row, sent>>

MarkApplying(s) ==
    /\ run[s].pc = "cleared"
    /\ CommitStatus(s, "applying", "browser")
    /\ RunOnly /\ UNCHANGED <<handed, sent>>

-----------------------------------------------------------------------------
(* Inside the browser: _submit_application and how _apply ends the run.    *)

(* The agent clicks the final Submit; nothing in the database records it.  *)
Click(s) ==
    /\ run[s].pc = "browser" /\ LiveApply
    /\ sent[run[s].app] < MaxClicks
    /\ run' = [run EXCEPT ![s].pc = "clicked"]
    /\ sent' = [sent EXCEPT ![run[s].app] = @ + 1]
    /\ RunOnly /\ UNCHANGED <<row, handed>>

(* The agent reports a submission.  A placeholder run reports one without  *)
(* a browser, and _extract_result takes any final text for one.            *)
Report(s) ==
    /\ InBrowser(s)
    /\ run' = [run EXCEPT ![s].pc = "reported"]
    /\ RunOnly /\ UNCHANGED <<row, handed, sent>>

MarkApplied(s) ==
    /\ run[s].pc = "reported"
    /\ CommitStatus(s, "applied", "idle")
    /\ RunOnly /\ UNCHANGED <<handed, sent>>

(* Mutant: the pause marker replaces resume_state instead of joining it.   *)
MarkNeedsVerificationFresh(s) ==
    /\ InBrowser(s) /\ LiveApply
    /\ Commit(s, [run[s].snap EXCEPT !.status = "pending_review",
                                     !.resume = [NoResume EXCEPT
                                                   !.blocked = TRUE]], "idle")
    /\ RunOnly /\ UNCHANGED <<handed, sent>>

(* A verification wall: the run pauses for the owner.                      *)
MarkNeedsVerification(s) ==
    /\ InBrowser(s) /\ LiveApply
    /\ Commit(s, [run[s].snap EXCEPT !.status = "pending_review",
                                     !.resume.blocked = TRUE], "idle")
    /\ RunOnly /\ UNCHANGED <<handed, sent>>

(* Settings ask to confirm each submission and nobody can be asked live.   *)
ApprovalRequired(s) ==
    /\ run[s].pc = "browser" /\ LiveApply
    /\ ~Redis /\ ~HumanApproved(run[s].snap)
    /\ CommitStatus(s, "pending_review", "idle")
    /\ RunOnly /\ UNCHANGED <<handed, sent>>

(* A prerequisite (session, resume file, key) is missing: checked before   *)
(* the browser opens.                                                      *)
MarkWaitingForSetup(s) ==
    /\ run[s].pc = "browser" /\ LiveApply
    /\ CommitStatus(s, "approved", "idle")
    /\ RunOnly /\ UNCHANGED <<handed, sent>>

(* A permanent error, a declined confirmation, an unconfirmed result or a  *)
(* cancellation.                                                           *)
MarkFailed(s) ==
    /\ InBrowser(s) /\ LiveApply
    /\ CommitStatus(s, "failed", "idle")
    /\ RunOnly /\ UNCHANGED <<handed, sent>>

(* An infrastructure error: the last try fails the row; without arq the    *)
(* row goes back to where a worker looks; with arq, Retry is raised and    *)
(* the row stays APPLYING for the next try.                                *)
TransientError(s) ==
    LET back == IF HumanApproved(run[s].snap) THEN "approved" ELSE "queued"
    IN  /\ InBrowser(s) /\ LiveApply
        /\ run[s].pc = "clicked" => TransientAfterClick
        /\ \/ run[s].try >= MaxTries /\ CommitStatus(s, "failed", "idle")
           \/ run[s].try < MaxTries /\ ~Redis /\ CommitStatus(s, back, "idle")
           \/ run[s].try < MaxTries /\ Redis /\ End(s) /\ UNCHANGED row
        /\ RunOnly /\ UNCHANGED <<handed, sent>>

(* The process dies, or an error escapes the pipeline: the session's       *)
(* uncommitted work is rolled back, what it committed stays.               *)
Abort(s) ==
    /\ run[s].pc # "idle"
    /\ End(s)
    /\ RunOnly /\ UNCHANGED <<row, handed, sent>>

RunStep(s) ==
    \/ StageForReview(s)
    \/ \E objections \in SUBSET Raised : Gate(s, objections)
    \/ Requeue(s)
    \/ MarkApplying(s)
    \/ Click(s) \/ Report(s) \/ MarkApplied(s)
    \/ MarkNeedsVerification(s) \/ ApprovalRequired(s)
    \/ MarkWaitingForSetup(s) \/ MarkFailed(s) \/ TransientError(s)

(* Mutants: a status outside the enumeration; a blind automatic retry.     *)
ReturnedInterrupted(S) == [a \in App |->
    IF a \in S THEN [row[a] EXCEPT !.status = "interrupted"] ELSE row[a]]
ReturnedForRetry(S) == [a \in App |->
    IF a \in S THEN [row[a] EXCEPT !.status = "approved"] ELSE row[a]]

(* release_interrupted hands a set of rows back to the owner; which rows   *)
(* and when is the database-queue worker's affair (DbQueue.tla).           *)
Returned(S) == [a \in App |-> IF a \in S
                              THEN [row[a] EXCEPT !.status = "pending_review"]
                              ELSE row[a]]

ReturnToOwner(S) ==
    /\ S # {} /\ \A a \in S : row[a].status # "absent"
    /\ UniqueActive(Returned(S)) /\ row' = Returned(S)
    /\ UNCHANGED <<run, req, paused, handed, acts, asks, consent, sent>>

-----------------------------------------------------------------------------
(* The owner: api/v1/applications.py, services/application.py, dispatch.py.*)

OwnerOnly == UNCHANGED <<run, sent>>

Begin(t, op, apps, to) ==
    req' = [req EXCEPT ![t] =
              [op |-> op, apps |-> apps, to |-> to, n |-> acts + 1,
               snap |-> [a \in App |-> IF a \in apps THEN row[a] ELSE NoRow]]]

Command(t) ==
    /\ req[t].op = "none"
    /\ acts < MaxCommands
    /\ acts' = acts + 1

Finish(t) == req' = [req EXCEPT ![t] = NoRequest]
Continue(t, op) == req' = [req EXCEPT ![t].op = op]

CountAsks(rows) ==
    asks' = [a \in App |->
               IF rows[a].status \in Claimable /\ row[a].status \notin Claimable
               THEN asks[a] + 1 ELSE asks[a]]

(* Commit a request that turns each row of its snapshot into new[a] and    *)
(* continue as `op`; an integrity error fails the request.                 *)
CommitRequest(t, new, op) ==
    LET rows == [a \in App |-> IF a \in req[t].apps
                               THEN Merge(row[a], req[t].snap[a], new[a])
                               ELSE row[a]]
    IN  IF UniqueActive(rows)
        THEN /\ row' = rows
             /\ CountAsks(rows)
             /\ IF op = "none" THEN Finish(t) ELSE Continue(t, op)
        ELSE Finish(t) /\ UNCHANGED <<row, asks>>

(* create_application: the insert, in its resting status ...               *)
CreateNew(t, a, m) ==
    LET rows == [row EXCEPT ![a] = NewRow(m, InitialStatus(m))]
    IN  /\ Command(t)
        /\ row[a].status = "absent" /\ UniqueActive(rows)
        /\ row' = rows
        /\ CountAsks(rows)
        /\ req' = [req EXCEPT ![t] =
                     [op |-> "created", apps |-> {a}, to |-> "absent",
                      n |-> acts + 1, snap |-> [b \in App |-> NoRow]]]
        /\ OwnerOnly /\ UNCHANGED <<paused, handed, consent>>

Reread(t, op) ==
    req' = [req EXCEPT ![t].op = op,
                       ![t].snap = [a \in App |-> IF a \in req[t].apps
                                                  THEN row[a] ELSE NoRow]]

(* ... then refreshed, ...                                                 *)
Refresh(t) ==
    /\ req[t].op = "created"
    /\ Reread(t, "dispatch")
    /\ OwnerOnly /\ UNCHANGED <<row, paused, handed, acts, asks, consent>>

(* ... or the active row that already exists for the posting.              *)
CreateExisting(t, a) ==
    /\ Command(t)
    /\ row[a].status \notin Inactive
    /\ Begin(t, "dispatch", {a}, "absent")
    /\ OwnerOnly /\ UNCHANGED <<row, paused, handed, asks, consent>>

(* dispatch_for_mode: set the status by apply mode, whatever it was.       *)
DispatchForMode(t) ==
    LET new  == [a \in App |-> [req[t].snap[a] EXCEPT
                                  !.status = InitialStatus(req[t].snap[a].mode)]]
        auto == \A a \in req[t].apps : req[t].snap[a].mode = "autonomous"
    IN  /\ req[t].op = "dispatch"
        /\ CommitRequest(t, new, IF auto THEN "enqueue" ELSE "none")
        /\ OwnerOnly /\ UNCHANGED <<paused, handed, acts, consent>>

Approvable == {"pending_review", "queued"}

(* approve_application of one row, or bulk_approve of several: the rows    *)
(* that may not be approved are refused, or left out.                      *)
Approve(t, S) ==
    LET ready == {a \in S : row[a].status \in Approvable}
    IN  /\ Command(t)
        /\ ready # {}
        /\ Begin(t, "approve", ready, "absent")
        /\ OwnerOnly /\ UNCHANGED <<row, paused, handed, asks, consent>>

(* Approving an approved row changes nothing and enqueues it again.        *)
ApproveAgain(t, a) ==
    /\ Command(t)
    /\ row[a].status = "approved"
    /\ Begin(t, "enqueue", {a}, "absent")
    /\ OwnerOnly /\ UNCHANGED <<row, paused, handed, asks, consent>>

Consent(S) == consent' = [a \in App |-> consent[a] \/ a \in S]

CommitApproval(t) ==
    LET new == [a \in App |-> [req[t].snap[a] EXCEPT
                                 !.status = "approved",
                                 !.resume = MarkApproved(@, req[t].n)]]
    IN  /\ req[t].op = "approve"
        /\ CommitRequest(t, new, "enqueue")
        /\ Consent(req[t].apps)
        /\ OwnerOnly /\ UNCHANGED <<paused, handed, acts>>

(* update_status: no transition guard.                                     *)
UpdateStatus(t, a, st) ==
    /\ Command(t)
    /\ row[a].status # "absent"
    /\ Begin(t, "update", {a}, st)
    /\ OwnerOnly /\ UNCHANGED <<row, paused, handed, asks, consent>>

CommitUpdate(t) ==
    LET new == [a \in App |-> [req[t].snap[a] EXCEPT !.status = req[t].to]]
    IN  /\ req[t].op = "update"
        /\ CommitRequest(t, new, "refresh")
        /\ Consent(IF req[t].to \in Claimable THEN req[t].apps ELSE {})
        /\ OwnerOnly /\ UNCHANGED <<paused, handed, acts>>

(* The route then re-reads the row: if it is QUEUED or APPROVED by now ... *)
Rerun(t) ==
    /\ req[t].op = "refresh"
    /\ IF \A a \in req[t].apps : row[a].status \in Claimable
       THEN Reread(t, "rerun")
       ELSE Finish(t)
    /\ OwnerOnly /\ UNCHANGED <<row, paused, handed, acts, asks, consent>>

(* ... that counts as the owner's approval and the row is enqueued.        *)
MarkRerun(t) ==
    LET new == [a \in App |-> [req[t].snap[a] EXCEPT
                                 !.resume = MarkApproved(@, req[t].n)]]
    IN  /\ req[t].op = "rerun"
        /\ CommitRequest(t, new, "enqueue")
        /\ OwnerOnly /\ UNCHANGED <<paused, handed, acts, consent>>

ResolveBlocker(t, a) ==
    /\ Command(t)
    /\ row[a].status = "pending_review" /\ row[a].resume.blocked
    /\ Begin(t, "resolve", {a}, "absent")
    /\ OwnerOnly /\ UNCHANGED <<row, paused, handed, asks, consent>>

CommitResolve(t) ==
    LET new == [a \in App |-> [req[t].snap[a] EXCEPT
                                 !.status = "queued",
                                 !.resume = MarkApproved(@, req[t].n)]]
    IN  /\ req[t].op = "resolve"
        /\ CommitRequest(t, new, "enqueue")
        /\ Consent(req[t].apps)
        /\ OwnerOnly /\ UNCHANGED <<paused, handed, acts>>

(* enqueue_apply for each row of the request: arq takes a job; without a   *)
(* queue it is left to whoever dispatches the row.                         *)
Enqueue(t) ==
    /\ req[t].op = "enqueue"
    /\ handed' = IF Redis THEN handed \cup req[t].apps ELSE handed
    /\ Finish(t)
    /\ OwnerOnly /\ UNCHANGED <<row, paused, acts, asks, consent>>

(* The kill switch of the automation policy.                               *)
TogglePause ==
    /\ acts < MaxCommands
    /\ acts' = acts + 1
    /\ paused' = ~paused
    /\ OwnerOnly /\ UNCHANGED <<row, req, handed, asks, consent>>

OwnerCommand(t) ==
    \/ \E a \in App, m \in Mode : CreateNew(t, a, m)
    \/ \E a \in App : CreateExisting(t, a) \/ ApproveAgain(t, a)
    \/ \E S \in SUBSET App : Approve(t, S)
    \/ \E a \in App, st \in OwnerStatus : UpdateStatus(t, a, st)
    \/ \E a \in App : ResolveBlocker(t, a)

RequestStep(t) ==
    \/ Refresh(t) \/ DispatchForMode(t) \/ CommitApproval(t)
    \/ CommitUpdate(t) \/ Rerun(t) \/ MarkRerun(t) \/ CommitResolve(t)
    \/ Enqueue(t)

OwnerStep ==
    \/ TogglePause
    \/ \E t \in Tab : OwnerCommand(t) \/ RequestStep(t)

Next ==
    \/ \E s \in Session, a \in App, try \in 1 .. MaxTries : Load(s, a, try)
    \/ \E s \in Session : RunStep(s) \/ Abort(s)
    \/ \E S \in SUBSET App : ReturnToOwner(S)
    \/ OwnerStep

Spec == Init /\ [][Next]_vars

-----------------------------------------------------------------------------
(* Properties.                                                             *)

PastGuard(s) == run[s].pc \notin {"idle", "loaded"}

(* In review mode nothing leaves without an explicit approval: a run that  *)
(* got past the review guard of _apply (tasks.py:463-475), and every       *)
(* submission made, belongs to a row that is autonomous or that the owner  *)
(* approved or asked to run - whatever the owner, other runs and the       *)
(* hand-backs did meanwhile to the stale row the run works on.             *)
ReviewNeedsConsent ==
    /\ \A s \in Session :
         PastGuard(s) /\ run[s].snap.mode # "autonomous" => consent[run[s].app]
    /\ \A a \in App :
         sent[a] > 0 /\ row[a].mode # "autonomous" => consent[a]

(* An approval sticks (services/approval.py:9-11): whatever rewrites       *)
(* resume_state, a row loses its approval only to a run that had loaded    *)
(* the row before the approval was given.                                  *)
ApprovalSticks ==
    [][\A a \in App :
         row[a].resume.approved > 0 /\ row'[a].resume.approved = 0 =>
           \E s \in Session :
             InPipeline(s, a) /\ run[s].snap.resume.approved = 0]_vars
=============================================================================
