--------------------------- MODULE DbQueueProofs ---------------------------
(***************************************************************************)
(* Theorems about the database-queue deployment, for every set of          *)
(* applications, workers and API requests and every number of faults.      *)
(***************************************************************************)
EXTENDS DbQueue, ApplyPipelineProofs

(* A run's commit touches its own row and its own session only; the status *)
(* it leaves is the one that was there or the one the run changed to.      *)
LEMMA CommitFrame ==
    ASSUME TypeOK, NEW s \in Session, run[s].pc # "idle",
           NEW new \in Row, NEW pc \in RunPc, Commit(s, new, pc)
    PROVE  /\ \A x \in Session \ {s} : run'[x] = run[x]
           /\ \/ run'[s] = IdleRun
              \/ /\ run'[s].pc = pc /\ run'[s].app = run[s].app
                 /\ run'[s].snap = new
           /\ \A b \in App : b # run[s].app => row'[b] = row[b]
           /\ \/ row'[run[s].app].status = row[run[s].app].status
              \/ /\ row'[run[s].app].status = new.status
                 /\ new.status # run[s].snap.status
           /\ \/ run'[s] = IdleRun
              \/ new.status = run[s].snap.status
              \/ row'[run[s].app].status = new.status
<1> DEFINE a == run[s].app
           rows == [row EXCEPT ![a] = Merge(@, run[s].snap, new)]
<1>1. a \in App /\ run[s].snap \in Row /\ row[a] \in Row
  BY DEF TypeOK, RunRecord
<1>2. CASE ~UniqueActive(rows)
  <2>1. row' = row /\ End(s)
    BY <1>2 DEF Commit
  <2> QED BY <2>1 DEF End, TypeOK
<1>3. CASE UniqueActive(rows)
  <2>1. row' = rows
    BY <1>3 DEF Commit
  <2>2. \/ run' = [run EXCEPT ![s] = IdleRun]
        \/ run' = [run EXCEPT ![s] = [run[s] EXCEPT !.pc = pc, !.snap = new]]
    BY <1>3 DEF Commit, End
  <2>3. /\ \A x \in Session \ {s} : run'[x] = run[x]
        /\ \/ run'[s] = IdleRun
           \/ /\ run'[s].pc = pc /\ run'[s].app = run[s].app
              /\ run'[s].snap = new
    <3> DEFINE r == [run[s] EXCEPT !.pc = pc, !.snap = new]
    <3>1. r.pc = pc /\ r.app = run[s].app /\ r.snap = new
      BY DEF TypeOK, RunRecord
    <3> HIDE DEF r
    <3>2. \E q \in {IdleRun, r} : run' = [run EXCEPT ![s] = q]
      BY <2>2 DEF r
    <3>3. /\ \A x \in Session \ {s} : run'[x] = run[x]
          /\ run'[s] \in {IdleRun, r}
      BY <3>2 DEF TypeOK
    <3> QED BY <3>1, <3>3
  <2>4. /\ \A b \in App : b # a => row'[b] = row[b]
        /\ row'[a] = Merge(row[a], run[s].snap, new)
    BY <1>1, <2>1 DEF TypeOK
  <2>5. Merge(row[a], run[s].snap, new).status =
          IF new.status = run[s].snap.status THEN row[a].status ELSE new.status
    BY <1>1 DEF Merge, Row
  <2> HIDE DEF rows
  <2> QED BY <2>3, <2>4, <2>5
<1> QED BY <1>2, <1>3

LEMMA CommitStatusFrame ==
    ASSUME TypeOK, NEW s \in Session, run[s].pc # "idle",
           NEW st \in Status, NEW pc \in RunPc, CommitStatus(s, st, pc)
    PROVE  /\ \A x \in Session \ {s} : run'[x] = run[x]
           /\ \/ run'[s] = IdleRun
              \/ /\ run'[s].pc = pc /\ run'[s].app = run[s].app
                 /\ run'[s].snap.status = st
                 /\ st = run[s].snap.status
                    \/ row'[run[s].app].status = st
           /\ \A b \in App : b # run[s].app => row'[b] = row[b]
           /\ \/ row'[run[s].app].status = row[run[s].app].status
              \/ row'[run[s].app].status = st
<1> DEFINE new == [run[s].snap EXCEPT !.status = st]
<1>1. new \in Row /\ new.status = st /\ run[s] \in RunRecord
  BY DEF TypeOK, RunRecord, Row
<1>2. Commit(s, new, pc)
  BY DEF CommitStatus
<1> HIDE DEF new
<1> QED BY <1>1, <1>2, CommitFrame DEF RunRecord

LEMMA EndFrame ==
    ASSUME TypeOK, NEW s \in Session, End(s)
    PROVE  /\ \A x \in Session \ {s} : run'[x] = run[x]
           /\ run'[s] = IdleRun
BY DEF End, TypeOK

-----------------------------------------------------------------------------
(* The gate, seen from outside: it commits a snapshot in one of four ways. *)
LEMMA GateFrame ==
    ASSUME TypeOK, NEW s \in Session, NEW objections \in SUBSET Raised,
           Gate(s, objections)
    PROVE  /\ run[s].pc = "loaded" /\ run[s].app \in App
           /\ \A x \in Session \ {s} : run'[x] = run[x]
           /\ \/ run'[s] = IdleRun
              \/ /\ run'[s].pc = "cleared" /\ run'[s].app = run[s].app
                 /\ run'[s].snap.status = run[s].snap.status
              \/ run'[s].pc = "held" /\ run'[s].app = run[s].app
           /\ \A b \in App : b # run[s].app => row'[b] = row[b]
<1> DEFINE snap == run[s].snap
           waived == IF HumanApproved(snap)
                     THEN objections \cap Waivable ELSE {}
           noted == IF waived = {} THEN snap
                    ELSE [snap EXCEPT !.resume.waiver = waived]
<1>1. /\ snap \in Row
      /\ run[s].pc = "loaded" /\ run[s].pc # "idle"
      /\ run[s].app \in App
  BY DEF TypeOK, RunRecord, Gate
<1>2. noted \in Row /\ noted.status = snap.status
  <2>1. waived \in SUBSET Waivable
    OBVIOUS
  <2>2. CASE waived = {}
    BY <1>1, <2>2
  <2>3. CASE waived # {}
    BY <1>1, <2>1, <2>3, NotedType DEF Row
  <2> QED BY <2>2, <2>3
<1>3. \A st \in Status : [noted EXCEPT !.status = st] \in Row
  BY <1>2 DEF Row
<1>4. {"queued", "pending_review", "failed"} \subseteq Status
      /\ {"cleared", "held", "idle"} \subseteq RunPc
  BY DEF Status, RunPc
<1>5. \/ Commit(s, noted, "cleared")
      \/ Commit(s, [noted EXCEPT !.status = "queued"], "held")
      \/ Commit(s, [noted EXCEPT !.status = "pending_review"], "idle")
      \/ Commit(s, [noted EXCEPT !.status = "failed"], "idle")
  BY DEF Gate
<1> DEFINE Elsewhere == /\ \A x \in Session \ {s} : run'[x] = run[x]
                        /\ \A b \in App : b # run[s].app => row'[b] = row[b]
<1>6. ASSUME NEW new \in Row, NEW pc \in RunPc, Commit(s, new, pc)
      PROVE  /\ Elsewhere
             /\ \/ run'[s] = IdleRun
                \/ /\ run'[s].pc = pc /\ run'[s].app = run[s].app
                   /\ run'[s].snap = new
  BY <1>1, <1>6, CommitFrame
<1>7. ASSUME NEW new, Commit(s, new, "idle")
      PROVE  run'[s] = IdleRun
  BY <1>7, EndFrame DEF Commit, End, TypeOK
<1> HIDE DEF noted, Elsewhere
<1>8. CASE Commit(s, noted, "cleared")
  <2>1. /\ Elsewhere
        /\ \/ run'[s] = IdleRun
           \/ /\ run'[s].pc = "cleared" /\ run'[s].app = run[s].app
              /\ run'[s].snap = noted
    BY <1>2, <1>4, <1>6, <1>8
  <2> QED BY <1>1, <1>2, <2>1 DEF Elsewhere
<1>9. CASE Commit(s, [noted EXCEPT !.status = "queued"], "held")
  <2>1. /\ Elsewhere
        /\ \/ run'[s] = IdleRun
           \/ run'[s].pc = "held" /\ run'[s].app = run[s].app
    BY <1>3, <1>4, <1>6, <1>9
  <2> QED BY <1>1, <2>1 DEF Elsewhere
<1>10. ASSUME NEW st \in {"pending_review", "failed"},
              Commit(s, [noted EXCEPT !.status = st], "idle")
       PROVE  Elsewhere /\ run'[s] = IdleRun
  <2>1. [noted EXCEPT !.status = st] \in Row /\ "idle" \in RunPc
    BY <1>3, <1>4
  <2> QED BY <1>6, <1>7, <1>10, <2>1
<1> QED BY <1>1, <1>5, <1>8, <1>9, <1>10 DEF Elsewhere

-----------------------------------------------------------------------------
(* One run, seen from the ledger of its row: st is the row's status, n the *)
(* submissions made and k the asks.                                        *)
Cover(pc, st, n, k) ==
    /\ n <= k
    /\ st \in Claimable => n + 1 <= k
    /\ pc \in {"loaded", "cleared", "browser"} => n + 1 <= k
    /\ pc = "browser" /\ st \in Claimable => n + 2 <= k

(* A step of a run stays in its session and its row ...                    *)
RunLocal(s) ==
    /\ \A x \in Session \ {s} : run'[x] = run[x]
    /\ run'[s] = IdleRun \/ run'[s].app = run[s].app
    /\ \A b \in App : b # run[s].app => row'[b] = row[b] /\ sent'[b] = sent[b]

(* ... and keeps the ledger of that row.                                   *)
Covered(s) ==
    /\ Cover(run'[s].pc, row'[run[s].app].status, sent'[run[s].app],
             asks[run[s].app])
    /\ run'[s].pc \in {"loaded", "cleared"} =>
         run'[s].snap.status \in Claimable

(* A commit that ends the run without leaving the row claimable ...        *)
LEMMA RestCovered ==
    ASSUME TypeOK, NEW s \in Session, run[s].pc # "idle",
           Cover(run[s].pc, row[run[s].app].status, sent[run[s].app],
                 asks[run[s].app]),
           NEW st \in Status \ Claimable, CommitStatus(s, st, "idle"),
           UNCHANGED sent
    PROVE  RunLocal(s) /\ Covered(s)
<1>1. End(s)
  BY DEF CommitStatus, Commit, End
<1>2. "idle" \in RunPc /\ st \in Status
  BY DEF RunPc
<1>3. /\ \A x \in Session \ {s} : run'[x] = run[x]
      /\ run'[s] = IdleRun
      /\ \A b \in App : b # run[s].app => row'[b] = row[b]
      /\ \/ row'[run[s].app].status = row[run[s].app].status
         \/ row'[run[s].app].status = st
  BY <1>1, <1>2, EndFrame, CommitStatusFrame
<1>4. IdleRun.pc = "idle"
  BY DEF IdleRun
<1> QED BY <1>3, <1>4 DEF RunLocal, Covered, Cover

(* ... and one that puts it back, before the click, to be tried again.     *)
LEMMA BackCovered ==
    ASSUME TypeOK, NEW s \in Session, run[s].pc = "browser",
           Cover(run[s].pc, row[run[s].app].status, sent[run[s].app],
                 asks[run[s].app]),
           NEW st \in Status, CommitStatus(s, st, "idle"), UNCHANGED sent
    PROVE  RunLocal(s) /\ Covered(s)
<1>1. End(s)
  BY DEF CommitStatus, Commit, End
<1>2. "idle" \in RunPc /\ run[s].pc # "idle"
  BY DEF RunPc
<1>3. /\ \A x \in Session \ {s} : run'[x] = run[x]
      /\ run'[s] = IdleRun
      /\ \A b \in App : b # run[s].app => row'[b] = row[b]
  BY <1>1, <1>2, EndFrame, CommitStatusFrame
<1>4. IdleRun.pc = "idle"
  BY DEF IdleRun
<1> QED BY <1>3, <1>4 DEF RunLocal, Covered, Cover

LEMMA RunCovered ==
    ASSUME TypeOK, ~TransientAfterClick, SnapStatus,
           NEW s \in Session, RunStep(s) \/ Abort(s),
           Cover(run[s].pc, row[run[s].app].status, sent[run[s].app],
                 asks[run[s].app])
    PROVE  RunLocal(s) /\ Covered(s)
<1> DEFINE a == run[s].app
<1>1. run[s].pc # "idle" /\ a \in App /\ run[s].snap \in Row
  BY DEF RunStep, Abort, StageForReview, Gate, Requeue, MarkApplying, Click,
         Report, MarkApplied, MarkNeedsVerification, ApprovalRequired,
         MarkWaitingForSetup, MarkFailed, TransientError, InBrowser, TypeOK,
         RunRecord
<1>2. IdleRun.pc = "idle"
  BY DEF IdleRun
<1>3. {"pending_review", "applied", "failed"} \subseteq Status \ Claimable
      /\ {"approved", "queued", "applying"} \subseteq Status
      /\ {"idle", "browser"} \subseteq RunPc
      /\ "applying" \notin Claimable
  BY DEF Status, Claimable, RunPc
<1>4. CASE StageForReview(s)
  BY <1>1, <1>3, <1>4, RestCovered DEF StageForReview
<1>5. CASE \E objections \in SUBSET Raised : Gate(s, objections)
  <2>1. PICK objections \in SUBSET Raised : Gate(s, objections)
    BY <1>5
  <2>2. UNCHANGED sent
    BY <2>1 DEF Gate
  <2>3. /\ run[s].pc = "loaded"
        /\ \A x \in Session \ {s} : run'[x] = run[x]
        /\ \/ run'[s] = IdleRun
           \/ /\ run'[s].pc = "cleared" /\ run'[s].app = run[s].app
              /\ run'[s].snap.status = run[s].snap.status
           \/ run'[s].pc = "held" /\ run'[s].app = run[s].app
        /\ \A b \in App : b # run[s].app => row'[b] = row[b]
    BY <2>1, GateFrame
  <2> QED BY <1>2, <2>2, <2>3 DEF RunLocal, Covered, Cover, SnapStatus
<1>6. CASE Requeue(s) \/ Abort(s)
  <2>1. End(s) /\ UNCHANGED <<row, sent>>
    BY <1>6 DEF Requeue, Abort
  <2> QED BY <1>2, <2>1, EndFrame DEF RunLocal, Covered, Cover
<1>7. CASE MarkApplying(s)
  <2>1. CommitStatus(s, "applying", "browser") /\ UNCHANGED sent
        /\ run[s].pc = "cleared"
    BY <1>7 DEF MarkApplying
  <2>2. run[s].snap.status # "applying"
    BY <1>3, <2>1 DEF SnapStatus
  <2>3. /\ \A x \in Session \ {s} : run'[x] = run[x]
        /\ \/ run'[s] = IdleRun
           \/ /\ run'[s].pc = "browser" /\ run'[s].app = a
              /\ row'[a].status = "applying"
        /\ \A b \in App : b # a => row'[b] = row[b]
        /\ \/ row'[a].status = row[a].status
           \/ row'[a].status = "applying"
    BY <1>1, <1>3, <2>1, <2>2, CommitStatusFrame
  <2> QED BY <1>2, <1>3, <2>1, <2>3 DEF RunLocal, Covered, Cover
<1>8. CASE Click(s)
  <2>1. /\ run[s].pc = "browser"
        /\ run' = [run EXCEPT ![s].pc = "clicked"]
        /\ sent' = [sent EXCEPT ![a] = @ + 1] /\ UNCHANGED row
    BY <1>8 DEF Click
  <2>2. /\ \A x \in Session \ {s} : run'[x] = run[x]
        /\ run'[s].pc = "clicked" /\ run'[s].app = a
    BY <2>1 DEF TypeOK, RunRecord
  <2>3. /\ sent'[a] = sent[a] + 1 /\ sent[a] \in Nat /\ asks[a] \in Nat
        /\ \A b \in App : b # a => sent'[b] = sent[b]
    BY <1>1, <2>1 DEF TypeOK
  <2> QED BY <2>1, <2>2, <2>3 DEF RunLocal, Covered, Cover
<1>9. CASE Report(s)
  <2>1. run' = [run EXCEPT ![s].pc = "reported"] /\ UNCHANGED <<row, sent>>
    BY <1>9 DEF Report
  <2>2. /\ \A x \in Session \ {s} : run'[x] = run[x]
        /\ run'[s].pc = "reported" /\ run'[s].app = a
    BY <2>1 DEF TypeOK, RunRecord
  <2> QED BY <2>1, <2>2 DEF RunLocal, Covered, Cover
<1>10. CASE MarkApplied(s)
  BY <1>1, <1>3, <1>10, RestCovered DEF MarkApplied
<1>11. CASE MarkNeedsVerification(s)
  <2> DEFINE new == [run[s].snap EXCEPT !.status = "pending_review",
                                        !.resume.blocked = TRUE]
  <2>1. new \in Row /\ new.status = "pending_review"
    BY <1>1, BlockedType DEF Row
  <2>2. Commit(s, new, "idle") /\ UNCHANGED sent
    BY <1>11 DEF MarkNeedsVerification
  <2> HIDE DEF new
  <2>3. End(s)
    BY <2>2 DEF Commit, End
  <2>4. /\ \A x \in Session \ {s} : run'[x] = run[x]
        /\ run'[s] = IdleRun
        /\ \A b \in App : b # a => row'[b] = row[b]
        /\ row'[a].status \in {row[a].status, "pending_review"}
    BY <1>1, <1>3, <2>1, <2>2, <2>3, EndFrame, CommitFrame
  <2> QED BY <1>2, <1>3, <2>2, <2>4 DEF RunLocal, Covered, Cover
<1>12. CASE ApprovalRequired(s)
  BY <1>1, <1>3, <1>12, RestCovered DEF ApprovalRequired
<1>13. CASE MarkWaitingForSetup(s)
  BY <1>3, <1>13, BackCovered DEF MarkWaitingForSetup
<1>14. CASE MarkFailed(s)
  BY <1>1, <1>3, <1>14, RestCovered DEF MarkFailed
<1>15. CASE TransientError(s)
  <2>1. run[s].pc = "browser" /\ UNCHANGED sent
    BY <1>15 DEF TransientError, InBrowser
  <2>2. \/ \E st \in Status : CommitStatus(s, st, "idle")
        \/ End(s) /\ UNCHANGED row
    BY <1>3, <1>15 DEF TransientError
  <2>3. CASE End(s) /\ UNCHANGED row
    BY <1>2, <2>1, <2>3, EndFrame DEF RunLocal, Covered, Cover
  <2> QED BY <2>1, <2>2, <2>3, BackCovered
<1> QED
  BY <1>4, <1>5, <1>6, <1>7, <1>8, <1>9, <1>10, <1>11, <1>12, <1>13, <1>14,
     <1>15 DEF RunStep

-----------------------------------------------------------------------------
(* Every owner commit that makes a row claimable is counted as an ask.     *)
AsksCounted ==
    \A a \in App :
        /\ asks'[a] >= asks[a]
        /\ row'[a].status \in Claimable /\ row[a].status \notin Claimable =>
             asks'[a] >= asks[a] + 1

LEMMA CountAsksCounted ==
    ASSUME TypeOK, CountAsks(row')
    PROVE  AsksCounted
BY DEF CountAsks, AsksCounted, TypeOK

LEMMA SameCounted ==
    ASSUME TypeOK, UNCHANGED asks,
           \A a \in App : row'[a].status = row[a].status
    PROVE  AsksCounted
BY DEF AsksCounted, TypeOK

LEMMA CommitRequestCounted ==
    ASSUME TypeOK, NEW t \in Tab, NEW new, NEW op, CommitRequest(t, new, op)
    PROVE  AsksCounted
<1> DEFINE rows == [a \in App |-> IF a \in req[t].apps
                                  THEN Merge(row[a], req[t].snap[a], new[a])
                                  ELSE row[a]]
<1>1. (row' = rows /\ CountAsks(rows)) \/ UNCHANGED <<row, asks>>
  BY DEF CommitRequest
<1>2. CASE row' = rows /\ CountAsks(rows)
  <2>1. CountAsks(row')
    BY <1>2
  <2> QED BY <2>1, CountAsksCounted
<1>3. CASE UNCHANGED <<row, asks>>
  BY <1>3, SameCounted
<1> QED BY <1>1, <1>2, <1>3

LEMMA OwnerCounted ==
    ASSUME TypeOK, OwnerStep
    PROVE  UNCHANGED <<run, sent>> /\ AsksCounted
<1>1. UNCHANGED <<run, sent>>
  <2>1. ASSUME NEW t \in Tab, OwnerCommand(t)
        PROVE  OwnerOnly
    BY <2>1 DEF OwnerCommand, CreateNew, CreateExisting, ApproveAgain,
                Approve, UpdateStatus, ResolveBlocker
  <2>2. ASSUME NEW t \in Tab, RequestStep(t)
        PROVE  OwnerOnly
    BY <2>2 DEF RequestStep, Refresh, DispatchForMode, CommitApproval,
                CommitUpdate, Rerun, MarkRerun, CommitResolve, Enqueue
  <2> QED BY <2>1, <2>2 DEF OwnerStep, OwnerOnly, TogglePause
<1>2. CASE TogglePause
  BY <1>1, <1>2, SameCounted DEF TogglePause
<1>3. ASSUME NEW t \in Tab, OwnerCommand(t)
      PROVE  AsksCounted
  <2>1. ASSUME NEW a \in App, NEW m \in Mode, CreateNew(t, a, m)
        PROVE  AsksCounted
    <3>1. CountAsks(row')
      BY <2>1 DEF CreateNew
    <3> QED BY <3>1, CountAsksCounted
  <2>2. (\E a \in App, m \in Mode : CreateNew(t, a, m))
        \/ UNCHANGED <<row, asks>>
    BY <1>3 DEF OwnerCommand, CreateExisting, ApproveAgain, Approve,
                UpdateStatus, ResolveBlocker
  <2> QED BY <2>1, <2>2, SameCounted
<1>4. ASSUME NEW t \in Tab, RequestStep(t)
      PROVE  AsksCounted
  <2>1. CASE Refresh(t) \/ Rerun(t) \/ Enqueue(t)
    BY <2>1, SameCounted DEF Refresh, Rerun, Enqueue
  <2>2. CASE \E new, op : CommitRequest(t, new, op)
    BY <2>2, CommitRequestCounted
  <2>4. DispatchForMode(t) \/ CommitApproval(t) \/ CommitUpdate(t)
        \/ MarkRerun(t) \/ CommitResolve(t)
          => \E new, op : CommitRequest(t, new, op)
    BY DEF DispatchForMode, CommitApproval, CommitUpdate, MarkRerun,
           CommitResolve
  <2> QED BY <1>4, <2>1, <2>2, <2>4 DEF RequestStep
<1> QED BY <1>1, <1>2, <1>3, <1>4 DEF OwnerStep

-----------------------------------------------------------------------------
(* The deployment is one of the dispatchers the pipeline allows.           *)
LEMMA StepRefines ==
    DbTypeOK /\ RunLocked /\ [DbNext]_dbVars => [Next]_vars
<1> SUFFICES ASSUME DbTypeOK, RunLocked, [DbNext]_dbVars
             PROVE  [Next]_vars
  OBVIOUS
<1>1. CASE UNCHANGED dbVars
  BY <1>1 DEF dbVars
<1>2. ASSUME NEW w \in Session, WorkerStep(w)
      PROVE  [Next]_vars
  <2>1. CASE BeginPass(w) \/ List(w) \/ Unlock(w) \/ Recheck(w) \/ EndPass(w)
             \/ \E a \in App : PassOver(w, a) \/ TryLock(w, a)
    BY <2>1 DEF BeginPass, List, Unlock, Recheck, EndPass, PassOver, TryLock
  <2>2. CASE Release(w)
    <3>1. worker[w].stale \in SUBSET App
      BY DEF DbTypeOK, WorkerRecord
    <3> QED BY <2>2, <3>1 DEF Release, Next
  <2>3. CASE StartRun(w)
    <3>1. worker[w].app \in App /\ 1 \in 1 .. MaxTries
      BY <2>3, BoundAssumption DEF StartRun, At, RunLocked
    <3> QED BY <2>3, <3>1 DEF StartRun, Next
  <2>4. CASE Running(w)
    BY <2>4 DEF Running, Next
  <2> QED BY <1>2, <2>1, <2>2, <2>3, <2>4 DEF WorkerStep
<1>3. ASSUME NEW w \in Session, PassFails(w) \/ Crash(w)
      PROVE  [Next]_vars
  BY <1>3 DEF PassFails, Crash, Fail, Next
<1>4. CASE \/ \E w \in Session, a \in App : BackOffExpires(w, a)
           \/ \E a \in App : GrowStale(a)
  BY <1>4 DEF BackOffExpires, GrowStale
<1>5. CASE OwnerStep
  BY <1>5 DEF Next
<1> QED BY <1>1, <1>2, <1>3, <1>4, <1>5 DEF DbNext

LEMMA DbTypeInit == DbInit => DbTypeOK /\ RunLocked
<1> SUFFICES ASSUME DbInit PROVE DbTypeOK /\ RunLocked
  OBVIOUS
<1>1. TypeOK
  BY TypeInit DEF DbInit
<1>2. IdleWorker \in WorkerRecord
  BY DEF IdleWorker, WorkerRecord, WorkerPc
<1>3. DbTypeOK
  BY <1>1, <1>2 DEF DbInit, DbTypeOK
<1>4. RunLocked
  BY DEF DbInit, Init, IdleWorker, IdleRun, RunLocked, At
<1> QED BY <1>3, <1>4

(* A step of one worker's pass replaces its record.                        *)
LEMMA GoToType ==
    ASSUME DbTypeOK, NEW w \in Session, NEW pc \in WorkerPc, GoTo(w, pc)
    PROVE  worker' \in [Session -> WorkerRecord]
<1>1. [worker[w] EXCEPT !.pc = pc] \in WorkerRecord
  BY DEF DbTypeOK, WorkerRecord
<1> QED BY <1>1 DEF GoTo, DbTypeOK

LEMMA TouchType ==
    ASSUME DbTypeOK, Touch
    PROVE  fresh' \in [App -> BOOLEAN]
BY DEF Touch, DbTypeOK

LEMMA DbTypeNext == DbTypeOK /\ RunLocked /\ [DbNext]_dbVars => DbTypeOK'
<1> SUFFICES ASSUME DbTypeOK, RunLocked, [DbNext]_dbVars
             PROVE  DbTypeOK'
  OBVIOUS
<1> USE DEF WorkerPc
<1>1. TypeOK'
  BY StepRefines, TypeNext DEF DbTypeOK
<1>2. CASE UNCHANGED dbVars
  BY <1>1, <1>2 DEF dbVars, workerVars, DbTypeOK
<1>3. ASSUME NEW w \in Session, WorkerStep(w)
      PROVE  DbTypeOK'
  <2> DEFINE Others == /\ lock' \in [App -> Session \cup {NoWorker}]
                       /\ fresh' \in [App -> BOOLEAN]
                       /\ faults' \in Nat
  <2>1. worker[w] \in WorkerRecord
    BY DEF DbTypeOK
  <2>2. CASE BeginPass(w)
    <3>1. worker' \in [Session -> WorkerRecord]
      <4> DEFINE r == [worker[w] EXCEPT
                         !.pc = "release",
                         !.stale = {a \in App : row[a].status = "applying"
                                                /\ ~fresh[a]}]
      <4>1. r \in WorkerRecord
        BY <2>1 DEF WorkerRecord
      <4>2. worker' = [worker EXCEPT ![w] = r]
        BY <2>2 DEF BeginPass
      <4> QED BY <4>1, <4>2 DEF DbTypeOK
    <3> QED BY <1>1, <2>2, <3>1 DEF BeginPass, DbTypeOK
  <2>3. CASE Release(w)
    <3>1. worker' \in [Session -> WorkerRecord]
      BY <2>3, GoToType DEF Release
    <3>2. Others
      BY <2>3, TouchType DEF Release, DbTypeOK
    <3> QED BY <1>1, <3>1, <3>2 DEF DbTypeOK
  <2>4. CASE List(w)
    <3>1. worker' \in [Session -> WorkerRecord]
      <4> DEFINE r == [worker[w] EXCEPT
                         !.pc = "pick", !.stale = {},
                         !.todo = {a \in App : row[a].status \in Claimable}]
      <4>1. r \in WorkerRecord
        BY <2>1 DEF WorkerRecord
      <4>2. worker' = [worker EXCEPT ![w] = r]
        BY <2>4 DEF List
      <4> QED BY <4>1, <4>2 DEF DbTypeOK
    <3> QED BY <1>1, <2>4, <3>1 DEF List, DbTypeOK
  <2>5. ASSUME NEW a \in App, PassOver(w, a)
        PROVE  DbTypeOK'
    <3>1. worker' \in [Session -> WorkerRecord]
      <4> DEFINE r == [worker[w] EXCEPT !.todo = @ \ {a}]
      <4>1. r \in WorkerRecord
        BY <2>1 DEF WorkerRecord
      <4>2. worker' = [worker EXCEPT ![w] = r]
        BY <2>5 DEF PassOver
      <4> QED BY <4>1, <4>2 DEF DbTypeOK
    <3> QED BY <1>1, <2>5, <3>1 DEF PassOver, DbTypeOK
  <2>6. ASSUME NEW a \in App, TryLock(w, a)
        PROVE  DbTypeOK'
    <3>1. worker' \in [Session -> WorkerRecord]
      <4> DEFINE r == [worker[w] EXCEPT !.pc = "locked", !.app = a,
                                        !.todo = @ \ {a}]
      <4>1. r \in WorkerRecord
        BY <2>1 DEF WorkerRecord
      <4>2. worker' = [worker EXCEPT ![w] = r]
        BY <2>6 DEF TryLock
      <4> QED BY <4>1, <4>2 DEF DbTypeOK
    <3>2. lock' \in [App -> Session \cup {NoWorker}]
      BY <2>6 DEF TryLock, DbTypeOK
    <3> QED BY <1>1, <2>6, <3>1, <3>2 DEF TryLock, DbTypeOK
  <2>7. CASE StartRun(w)
    BY <1>1, <2>7, GoToType DEF StartRun, DbTypeOK
  <2>8. CASE Running(w)
    BY <1>1, <2>8, TouchType DEF Running, DbTypeOK
  <2>9. CASE Unlock(w)
    <3>1. worker' \in [Session -> WorkerRecord]
      BY <2>9, GoToType DEF Unlock
    <3>2. lock' \in [App -> Session \cup {NoWorker}]
      BY <2>9 DEF Unlock, DbTypeOK
    <3> QED BY <1>1, <2>9, <3>1, <3>2 DEF Unlock, DbTypeOK
  <2>10. CASE Recheck(w)
    <3> DEFINE a == worker[w].app
               held == IF row[a].status \in Claimable THEN {a} ELSE {}
               r == [worker[w] EXCEPT !.pc = "pick", !.app = NoApp,
                                      !.skip = @ \cup held]
    <3>1. held \subseteq App
      BY <2>10 DEF Recheck, At, RunLocked
    <3>2. r \in WorkerRecord
      BY <2>1, <3>1 DEF WorkerRecord
    <3>3. worker' = [worker EXCEPT ![w] = r]
      BY <2>10 DEF Recheck
    <3> QED BY <1>1, <2>10, <3>2, <3>3 DEF Recheck, DbTypeOK
  <2>11. CASE EndPass(w)
    BY <1>1, <2>11, GoToType DEF EndPass, DbTypeOK
  <2> QED BY <1>3, <2>2, <2>3, <2>4, <2>5, <2>6, <2>7, <2>8, <2>9, <2>10,
             <2>11 DEF WorkerStep
<1>4. ASSUME NEW w \in Session, NEW memory \in SUBSET App, Fail(w, memory)
      PROVE  DbTypeOK'
  <2>1. [IdleWorker EXCEPT !.skip = memory] \in WorkerRecord
    BY DEF IdleWorker, WorkerRecord
  <2>2. lock' \in [App -> Session \cup {NoWorker}]
    BY <1>4 DEF Fail, Unlocked, DbTypeOK
  <2> QED BY <1>1, <1>4, <2>1, <2>2 DEF Fail, DbTypeOK
<1>5. ASSUME NEW w \in Session, PassFails(w) \/ Crash(w)
      PROVE  DbTypeOK'
  <2>1. worker[w].skip \in SUBSET App
    BY DEF DbTypeOK, WorkerRecord
  <2> QED BY <1>4, <1>5, <2>1 DEF PassFails, Crash
<1>6. ASSUME NEW w \in Session, NEW a \in App, BackOffExpires(w, a)
      PROVE  DbTypeOK'
  <2> DEFINE r == [worker[w] EXCEPT !.skip = @ \ {a}]
  <2>1. r \in WorkerRecord
    BY DEF DbTypeOK, WorkerRecord
  <2>2. worker' = [worker EXCEPT ![w] = r]
    BY <1>6 DEF BackOffExpires
  <2> QED BY <1>1, <1>6, <2>1, <2>2 DEF BackOffExpires, DbTypeOK
<1>7. ASSUME NEW a \in App, GrowStale(a)
      PROVE  DbTypeOK'
  BY <1>1, <1>7 DEF GrowStale, DbTypeOK
<1>8. CASE OwnerStep /\ Touch /\ UNCHANGED <<lock, worker, faults>>
  BY <1>1, <1>8, TouchType DEF DbTypeOK
<1> QED BY <1>2, <1>3, <1>5, <1>6, <1>7, <1>8 DEF DbNext

-----------------------------------------------------------------------------
(* Mutual exclusion.                                                       *)

LEMMA RunStepLocal ==
    ASSUME TypeOK, NEW s \in Session, RunStep(s) \/ Abort(s)
    PROVE  run[s].pc # "idle" /\ RunLocal(s)
<1> DEFINE a == run[s].app
<1>1. run[s].pc # "idle" /\ a \in App /\ run[s].snap \in Row
  BY DEF RunStep, Abort, StageForReview, Gate, Requeue, MarkApplying, Click,
         Report, MarkApplied, MarkNeedsVerification, ApprovalRequired,
         MarkWaitingForSetup, MarkFailed, TransientError, InBrowser, TypeOK,
         RunRecord
<1>2. \A st \in Status : [run[s].snap EXCEPT !.status = st] \in Row
  BY <1>1 DEF Row
<1>3. {"pending_review", "applied", "failed", "approved", "queued",
       "applying"} \subseteq Status
      /\ {"idle", "browser"} \subseteq RunPc
  BY DEF Status, RunPc
<1>4. ASSUME NEW new \in Row, NEW pc \in RunPc, Commit(s, new, pc),
             UNCHANGED sent
      PROVE  RunLocal(s)
  BY <1>1, <1>4, CommitFrame DEF RunLocal
<1>5. ASSUME NEW st \in Status, NEW pc \in RunPc, CommitStatus(s, st, pc),
             UNCHANGED sent
      PROVE  RunLocal(s)
  BY <1>2, <1>4, <1>5 DEF CommitStatus
<1>6. ASSUME End(s), UNCHANGED <<row, sent>>
      PROVE  RunLocal(s)
  BY <1>6, EndFrame DEF RunLocal
<1>7. CASE \E objections \in SUBSET Raised : Gate(s, objections)
  <2>1. UNCHANGED sent
    BY <1>7 DEF Gate
  <2> QED BY <1>1, <1>7, <2>1, GateFrame DEF RunLocal
<1>8. CASE Requeue(s) \/ Abort(s)
  BY <1>1, <1>6, <1>8 DEF Requeue, Abort
<1>9. CASE Click(s)
  <2>1. /\ run' = [run EXCEPT ![s].pc = "clicked"]
        /\ sent' = [sent EXCEPT ![a] = @ + 1] /\ UNCHANGED row
    BY <1>9 DEF Click
  <2> QED BY <1>1, <2>1 DEF RunLocal, TypeOK, RunRecord
<1>10. CASE Report(s)
  <2>1. run' = [run EXCEPT ![s].pc = "reported"] /\ UNCHANGED <<row, sent>>
    BY <1>10 DEF Report
  <2> QED BY <1>1, <2>1 DEF RunLocal, TypeOK, RunRecord
<1>11. CASE MarkNeedsVerification(s)
  BY <1>1, <1>3, <1>4, <1>11, BlockedType DEF MarkNeedsVerification
<1>12. CASE StageForReview(s) \/ MarkApplying(s) \/ MarkApplied(s)
            \/ ApprovalRequired(s) \/ MarkWaitingForSetup(s) \/ MarkFailed(s)
  BY <1>1, <1>3, <1>5, <1>12
     DEF StageForReview, MarkApplying, MarkApplied, ApprovalRequired,
         MarkWaitingForSetup, MarkFailed
<1>13. CASE TransientError(s)
  BY <1>1, <1>3, <1>5, <1>6, <1>13 DEF TransientError
<1> QED
  BY <1>7, <1>8, <1>9, <1>10, <1>11, <1>12, <1>13 DEF RunStep

LEMMA RunLockedNext ==
    DbTypeOK /\ RunLocked /\ [DbNext]_dbVars => RunLocked'
<1> SUFFICES ASSUME DbTypeOK, RunLocked, [DbNext]_dbVars
             PROVE  RunLocked'
  OBVIOUS
<1> USE DEF RunLocked, At
<1>1. TypeOK
  BY DEF DbTypeOK
<1>2. IdleRun.pc = "idle" /\ IdleWorker.pc = "idle"
  BY DEF IdleRun, IdleWorker
<1>3. ASSUME UNCHANGED <<run, lock>>,
             \A w \in Session :
               \/ worker'[w].pc = worker[w].pc /\ worker'[w].app = worker[w].app
               \/ /\ worker[w].pc # "running"
                  /\ worker'[w].pc \notin {"locked", "running", "recheck"}
      PROVE  RunLocked'
  BY <1>3
<1>4. CASE UNCHANGED dbVars
  BY <1>4 DEF dbVars, vars, workerVars
<1>5. ASSUME NEW w \in Session, WorkerStep(w)
      PROVE  RunLocked'
  <2>1. CASE BeginPass(w) \/ Release(w) \/ List(w) \/ EndPass(w)
             \/ \E a \in App : PassOver(w, a)
    <3>1. UNCHANGED <<run, lock>>
      BY <2>1 DEF BeginPass, Release, List, EndPass, PassOver, vars,
                  ReturnToOwner
    <3>2. \A v \in Session :
            \/ worker'[v].pc = worker[v].pc /\ worker'[v].app = worker[v].app
            \/ /\ worker[v].pc # "running"
               /\ worker'[v].pc \notin {"locked", "running", "recheck"}
      BY <2>1 DEF BeginPass, Release, List, EndPass, PassOver, GoTo,
                  DbTypeOK, WorkerRecord
    <3> QED BY <1>3, <3>1, <3>2
  <2>2. ASSUME NEW a \in App, TryLock(w, a)
        PROVE  RunLocked'
    <3>1. /\ worker'[w].pc = "locked" /\ worker'[w].app = a
          /\ \A v \in Session \ {w} : worker'[v] = worker[v]
          /\ worker[w].pc = "pick" /\ UNCHANGED run
      BY <2>2 DEF TryLock, DbTypeOK, WorkerRecord, vars
    <3>2. /\ lock[a] = NoWorker /\ lock'[a] = w
          /\ \A b \in App \ {a} : lock'[b] = lock[b]
      BY <2>2 DEF TryLock, DbTypeOK
    <3> QED BY <3>1, <3>2, WorkerAssumption
  <2>3. CASE StartRun(w)
    <3>1. /\ worker'[w].pc = "running" /\ worker'[w].app = worker[w].app
          /\ \A v \in Session \ {w} : worker'[v] = worker[v]
          /\ worker[w].pc = "locked" /\ UNCHANGED lock
      BY <2>3 DEF StartRun, GoTo, DbTypeOK, WorkerRecord
    <3>2. \/ UNCHANGED run
          \/ /\ run'[w].app = worker[w].app
             /\ \A v \in Session \ {w} : run'[v] = run[v]
      BY <1>1, <2>3 DEF StartRun, Load, vars, TypeOK
    <3> QED BY <3>1, <3>2
  <2>4. CASE Running(w)
    <3>1. /\ run[w].pc # "idle" /\ UNCHANGED <<worker, lock>>
          /\ \A v \in Session \ {w} : run'[v] = run[v]
          /\ run'[w] = IdleRun \/ run'[w].app = run[w].app
      BY <1>1, <2>4, RunStepLocal DEF Running, RunLocal
    <3> QED BY <1>2, <3>1
  <2>5. CASE Unlock(w)
    <3>1. /\ worker[w].pc = "running" /\ run[w].pc = "idle"
          /\ worker'[w].pc = "recheck" /\ worker'[w].app = worker[w].app
          /\ \A v \in Session \ {w} : worker'[v] = worker[v]
          /\ UNCHANGED run
      BY <2>5 DEF Unlock, GoTo, DbTypeOK, WorkerRecord, vars
    <3>2. \A b \in App : b # worker[w].app => lock'[b] = lock[b]
      BY <2>5 DEF Unlock, DbTypeOK
    <3> QED BY <3>1, <3>2
  <2>6. CASE Recheck(w)
    <3>1. UNCHANGED <<run, lock>>
      BY <2>6 DEF Recheck, vars
    <3>2. \A v \in Session :
            \/ worker'[v].pc = worker[v].pc /\ worker'[v].app = worker[v].app
            \/ /\ worker[v].pc # "running"
               /\ worker'[v].pc \notin {"locked", "running", "recheck"}
      BY <2>6 DEF Recheck, DbTypeOK, WorkerRecord
    <3> QED BY <1>3, <3>1, <3>2
  <2> QED BY <1>5, <2>1, <2>2, <2>3, <2>4, <2>5, <2>6 DEF WorkerStep
<1>6. ASSUME NEW w \in Session, PassFails(w) \/ Crash(w)
      PROVE  RunLocked'
  <2>1. PICK memory : Fail(w, memory)
    BY <1>6 DEF PassFails, Crash
  <2>2. /\ worker'[w].pc = "idle"
        /\ \A v \in Session \ {w} : worker'[v] = worker[v]
    BY <1>2, <2>1 DEF Fail, DbTypeOK, IdleWorker
  <2>3. /\ run'[w].pc = "idle"
        /\ \A v \in Session \ {w} : run'[v] = run[v]
    BY <1>1, <1>2, <2>1, EndFrame DEF Fail, Abort, vars
  <2>4. \A a \in App : lock[a] # w => lock'[a] = lock[a]
    BY <2>1 DEF Fail, Unlocked
  <2> QED BY <2>2, <2>3, <2>4
<1>7. CASE \/ \E w \in Session, a \in App : BackOffExpires(w, a)
           \/ \E a \in App : GrowStale(a)
  <2>1. UNCHANGED <<run, lock>>
    BY <1>7 DEF BackOffExpires, GrowStale, vars
  <2>2. \A w \in Session : worker'[w].pc = worker[w].pc
                           /\ worker'[w].app = worker[w].app
    BY <1>7 DEF BackOffExpires, GrowStale, DbTypeOK, WorkerRecord
  <2> QED BY <1>3, <2>1, <2>2
<1>8. CASE OwnerStep /\ Touch /\ UNCHANGED <<lock, worker, faults>>
  BY <1>1, <1>3, <1>8, OwnerCounted
<1> QED BY <1>4, <1>5, <1>6, <1>7, <1>8 DEF DbNext

LEMMA RunLockedExcludes == RunLocked => MutualExclusion
BY DEF RunLocked, MutualExclusion, InPipeline, At

(* Type correctness of the deployment, and who owns which run.             *)
THEOREM DbTypeCorrect == DbSafety => [](DbTypeOK /\ RunLocked)
BY DbTypeInit, DbTypeNext, RunLockedNext, PTL DEF DbSafety

(* Two workers never run the same application at once (db_queue.py:15),    *)
(* however many workers, crashes, hand-backs and owner commands there are. *)
THEOREM NoTwoRuns == DbSafety => []MutualExclusion
BY DbTypeCorrect, RunLockedExcludes, PTL

(* The deployment implements the pipeline under an arbitrary dispatcher,   *)
(* so what is proved of ApplyPipeline holds here as well.                  *)
THEOREM DbRefinesPipeline == DbSafety => Spec
<1>1. DbInit => Init
  BY DEF DbInit
<1> QED BY <1>1, DbTypeCorrect, StepRefines, PTL DEF DbSafety, Spec

(* So the worker that polls the database never submits for the owner what  *)
(* the owner did not approve, whatever its crashes hand back.              *)
THEOREM DbConsentNeeded == DbSafety => []ReviewNeedsConsent
BY DbRefinesPipeline, ConsentNeeded, PTL

(* Nor does it, or what its crashes hand back, take an approval away, but  *)
(* for a run that had loaded the row before it was approved.               *)
THEOREM DbApprovalsStick == DbSafety => ApprovalSticks
BY DbRefinesPipeline, ApprovalsStick, PTL

-----------------------------------------------------------------------------
(* One click per ask.                                                      *)

AskInv == DbTypeOK /\ RunLocked /\ SnapStatus /\ AsksCover

LEMMA AskInit == DbInit => AskInv
<1> SUFFICES ASSUME DbInit PROVE SnapStatus /\ AsksCover
  BY DbTypeInit DEF AskInv
<1>1. \A a \in App : /\ sent[a] = 0 /\ asks[a] \in Nat
                     /\ row[a].status \in Claimable => asks[a] = 1
  BY DEF DbInit, Init, NewRow, NoRow, Claimable
<1>2. \A w \in Session : run[w].pc = "idle"
  BY DEF DbInit, Init, IdleRun
<1> QED BY <1>1, <1>2 DEF SnapStatus, AsksCover, Waiting, ToBrowser, ToClick

(* A step that runs nothing, clicks nothing and asks or settles.           *)
LEMMA QuietCovers ==
    ASSUME AskInv, DbTypeOK', UNCHANGED sent,
           \A w \in Session : run'[w] = run[w] \/ run'[w].pc = "idle",
           \A a \in App :
             /\ asks'[a] >= asks[a]
             /\ row'[a].status \in Claimable =>
                  row[a].status \in Claimable \/ asks'[a] >= asks[a] + 1
    PROVE  SnapStatus' /\ AsksCover'
<1>1. SnapStatus'
  BY DEF AskInv, SnapStatus
<1>2. \A a \in App : /\ sent[a] \in Nat /\ asks[a] \in Nat
                     /\ asks'[a] \in Nat /\ sent'[a] = sent[a]
  BY DEF AskInv, DbTypeOK, TypeOK
<1>3. \A a \in App : \A w \in Session :
        /\ ToClick(w, a)' => ToClick(w, a)
        /\ ToBrowser(w, a)' => ToBrowser(w, a)
  BY DEF ToClick, ToBrowser
<1>4. AsksCover'
  <2> SUFFICES ASSUME NEW a \in App
               PROVE  /\ sent'[a] <= asks'[a]
                      /\ Waiting(a)' => sent'[a] + 1 <= asks'[a]
                      /\ \A w \in Session :
                           /\ ToBrowser(w, a)' \/ ToClick(w, a)' =>
                                sent'[a] + 1 <= asks'[a]
                           /\ ToClick(w, a)' /\ Waiting(a)' =>
                                sent'[a] + 2 <= asks'[a]
    BY DEF AsksCover
  <2>1. Waiting(a)' => Waiting(a) \/ asks'[a] >= asks[a] + 1
    BY DEF Waiting
  <2>2. /\ sent[a] <= asks[a]
        /\ Waiting(a) => sent[a] + 1 <= asks[a]
        /\ \A w \in Session :
             /\ ToBrowser(w, a) \/ ToClick(w, a) => sent[a] + 1 <= asks[a]
             /\ ToClick(w, a) /\ Waiting(a) => sent[a] + 2 <= asks[a]
    BY DEF AskInv, AsksCover
  <2> QED BY <1>2, <1>3, <2>1, <2>2
<1> QED BY <1>1, <1>4

LEMMA RunningCovers ==
    ASSUME AskInv, ~TransientAfterClick, NEW w \in Session, Running(w)
    PROVE  SnapStatus' /\ AsksCover'
<1>1. TypeOK /\ SnapStatus /\ (RunStep(w) \/ Abort(w))
  BY DEF AskInv, DbTypeOK, Running
<1>2. run[w].pc # "idle" /\ RunLocal(w)
  BY <1>1, RunStepLocal
<1>c. PICK c \in App : c = run[w].app
  BY <1>2 DEF AskInv, RunLocked, At
<1>3. Cover(run[w].pc, row[c].status, sent[c], asks[c])
  BY <1>2, <1>c DEF AskInv, AsksCover, Waiting, ToBrowser, ToClick, Cover
<1>4. Covered(w)
  BY <1>1, <1>3, <1>c, RunCovered
<1>5. UNCHANGED asks
  <2>1. RunStep(w) \/ Abort(w) => RunOnly
    BY DEF RunStep, Abort, StageForReview, Gate, Requeue, MarkApplying, Click,
           Report, MarkApplied, MarkNeedsVerification, ApprovalRequired,
           MarkWaitingForSetup, MarkFailed, TransientError
  <2> QED BY <1>1, <2>1 DEF RunOnly
<1>6. \A v \in Session \ {w} : run[v].pc = "idle" \/ run[v].app # c
  BY <1>2, <1>c, RunLockedExcludes DEF AskInv, MutualExclusion, InPipeline
<1>7. SnapStatus'
  BY <1>1, <1>2, <1>4 DEF RunLocal, Covered, SnapStatus
<1>8. IdleRun.pc = "idle" /\ \A b \in App : IdleRun.app # b
  BY AppAssumption DEF IdleRun
<1>9. ASSUME NEW a \in App, a # c
      PROVE  /\ sent'[a] = sent[a] /\ (Waiting(a)' <=> Waiting(a))
             /\ \A v \in Session :
                  /\ ToBrowser(v, a)' => ToBrowser(v, a)
                  /\ ToClick(v, a)' => ToClick(v, a)
  BY <1>2, <1>8, <1>9, <1>c DEF RunLocal, Waiting, ToBrowser, ToClick
<1>10. /\ sent'[c] <= asks'[c]
       /\ Waiting(c)' => sent'[c] + 1 <= asks'[c]
       /\ \A v \in Session :
            /\ ToBrowser(v, c)' \/ ToClick(v, c)' => sent'[c] + 1 <= asks'[c]
            /\ ToClick(v, c)' /\ Waiting(c)' => sent'[c] + 2 <= asks'[c]
  <2>1. \A v \in Session \ {w} : ~ToBrowser(v, c)' /\ ~ToClick(v, c)'
    BY <1>2, <1>6, <1>8, <1>c DEF RunLocal, ToBrowser, ToClick
  <2>2. /\ ToBrowser(w, c)' => run'[w].pc \in {"loaded", "cleared"}
        /\ ToClick(w, c)' => run'[w].pc = "browser"
    BY DEF ToBrowser, ToClick
  <2> QED BY <1>4, <1>5, <1>c, <2>1, <2>2 DEF Covered, Cover, Waiting
<1>11. AsksCover'
  <2> SUFFICES ASSUME NEW a \in App
               PROVE  /\ sent'[a] <= asks'[a]
                      /\ Waiting(a)' => sent'[a] + 1 <= asks'[a]
                      /\ \A v \in Session :
                           /\ ToBrowser(v, a)' \/ ToClick(v, a)' =>
                                sent'[a] + 1 <= asks'[a]
                           /\ ToClick(v, a)' /\ Waiting(a)' =>
                                sent'[a] + 2 <= asks'[a]
    BY DEF AsksCover
  <2>1. CASE a = c
    BY <1>10, <2>1
  <2>2. CASE a # c
    BY <1>5, <1>9, <2>2 DEF AskInv, AsksCover
  <2> QED BY <2>1, <2>2
<1> QED BY <1>7, <1>11

LEMMA StartCovers ==
    ASSUME AskInv, NEW w \in Session, StartRun(w)
    PROVE  SnapStatus' /\ AsksCover'
<1>1. CASE UNCHANGED vars
  BY <1>1 DEF vars, AskInv, SnapStatus, AsksCover, Waiting, ToBrowser, ToClick
<1>2. CASE Load(w, worker[w].app, 1)
  <2> DEFINE c == worker[w].app
  <2>1. c \in App /\ row[c].status \in Claimable
    BY <1>2 DEF StartRun, AskInv, RunLocked, At, Load, Runnable
  <2>2. /\ run'[w] = [pc |-> "loaded", app |-> c, try |-> 1, snap |-> row[c]]
        /\ \A v \in Session \ {w} : run'[v] = run[v]
        /\ UNCHANGED <<row, asks, sent>>
    BY <1>2 DEF Load, RunOnly, AskInv, DbTypeOK, TypeOK
  <2>3. /\ run'[w].pc = "loaded" /\ run'[w].app = c
        /\ run'[w].snap.status \in Claimable
    BY <2>1, <2>2
  <2>4. SnapStatus'
    BY <2>2, <2>3 DEF AskInv, SnapStatus
  <2>5. AsksCover'
    BY <2>1, <2>2, <2>3 DEF AskInv, AsksCover, Waiting, ToBrowser, ToClick
  <2> QED BY <2>4, <2>5
<1> QED BY <1>1, <1>2 DEF StartRun

LEMMA AskNext ==
    AskInv /\ ~TransientAfterClick /\ [DbNext]_dbVars => AskInv'
<1> SUFFICES ASSUME AskInv, ~TransientAfterClick, [DbNext]_dbVars
             PROVE  SnapStatus' /\ AsksCover'
  BY DbTypeNext, RunLockedNext DEF AskInv
<1>1. DbTypeOK' /\ DbTypeOK /\ TypeOK
  BY DbTypeNext DEF AskInv, DbTypeOK
<1>2. ASSUME UNCHANGED <<row, asks, sent>>,
             \A w \in Session : run'[w] = run[w] \/ run'[w].pc = "idle"
      PROVE  SnapStatus' /\ AsksCover'
  BY <1>1, <1>2, QuietCovers DEF TypeOK
<1>3. CASE UNCHANGED dbVars
  BY <1>2, <1>3 DEF dbVars, vars
<1>4. ASSUME NEW w \in Session, WorkerStep(w)
      PROVE  SnapStatus' /\ AsksCover'
  <2>1. CASE BeginPass(w) \/ List(w) \/ Unlock(w) \/ Recheck(w) \/ EndPass(w)
             \/ \E a \in App : PassOver(w, a) \/ TryLock(w, a)
    BY <1>2, <2>1
       DEF BeginPass, List, Unlock, Recheck, EndPass, PassOver, TryLock, vars
  <2>2. CASE Release(w)
    <3>1. CASE UNCHANGED vars
      BY <1>2, <3>1 DEF vars
    <3>2. CASE ReturnToOwner(worker[w].stale)
      <4>1. UNCHANGED <<run, sent, asks>>
        BY <3>2 DEF ReturnToOwner
      <4>2. \A a \in App : row'[a].status \in {row[a].status, "pending_review"}
        BY <1>1, <3>2 DEF ReturnToOwner, Returned, TypeOK, Row
      <4>3. "pending_review" \notin Claimable
        BY DEF Claimable
      <4> QED BY <1>1, <4>1, <4>2, <4>3, QuietCovers DEF TypeOK
    <3> QED BY <2>2, <3>1, <3>2 DEF Release
  <2>3. CASE StartRun(w)
    BY <2>3, StartCovers
  <2>4. CASE Running(w)
    BY <2>4, RunningCovers
  <2> QED BY <1>4, <2>1, <2>2, <2>3, <2>4 DEF WorkerStep
<1>5. ASSUME NEW w \in Session, PassFails(w) \/ Crash(w)
      PROVE  SnapStatus' /\ AsksCover'
  <2>1. UNCHANGED <<row, asks, sent>>
    BY <1>5 DEF PassFails, Crash, Fail, Abort, RunOnly, vars
  <2>2. UNCHANGED run \/ End(w)
    BY <1>5 DEF PassFails, Crash, Fail, Abort, vars
  <2>3. \A v \in Session : run'[v] = run[v] \/ run'[v].pc = "idle"
    BY <1>1, <2>2, EndFrame DEF IdleRun
  <2> QED BY <1>2, <2>1, <2>3
<1>6. CASE \/ \E w \in Session, a \in App : BackOffExpires(w, a)
           \/ \E a \in App : GrowStale(a)
  BY <1>2, <1>6 DEF BackOffExpires, GrowStale, vars
<1>7. CASE OwnerStep
  BY <1>1, <1>7, OwnerCounted, QuietCovers DEF AsksCounted
<1> QED BY <1>3, <1>4, <1>5, <1>6, <1>7 DEF DbNext

(* The employer receives an application at most once per ask of the owner  *)
(* (what release_interrupted and the status re-check of _apply are for),   *)
(* provided no transient error comes after the click.                      *)
THEOREM NoDoubleSubmission ==
    ASSUME ~TransientAfterClick
    PROVE  DbSafety => []OneClickPerAsk
<1>1. DbInit => AskInv
  BY AskInit
<1>2. AskInv /\ [DbNext]_dbVars => AskInv'
  BY AskNext
<1>3. AskInv => OneClickPerAsk
  BY DEF AskInv, AsksCover, OneClickPerAsk
<1> QED BY <1>1, <1>2, <1>3, PTL DEF DbSafety

-----------------------------------------------------------------------------
(* The ledger.  Each step of the deployment is one of the ledger's, or     *)
(* none: what the ledger sees of a row is whether it exists, its mode and  *)
(* the three ghosts.                                                       *)
SameRows ==
    \A a \in App : /\ row'[a].mode = row[a].mode
                   /\ row'[a].status = "absent" <=> row[a].status = "absent"

LEMMA SameRowsSameMode ==
    ASSUME SameRows
    PROVE  [a \in App |-> IF row[a].status = "absent" THEN "none"
                          ELSE row[a].mode]'
           = [a \in App |-> IF row[a].status = "absent" THEN "none"
                            ELSE row[a].mode]
BY DEF SameRows

LEMMA QuietLedger ==
    ASSUME SameRows, UNCHANGED <<asks, consent, sent>>
    PROVE  UNCHANGED Ledger!ledger
BY SameRowsSameMode DEF Ledger!ledger

(* A run's step is a submission if it is the click, and nothing otherwise. *)
LEMMA RunLedger ==
    ASSUME AskInv, ConsentInv, NEW w \in Session, RunStep(w) \/ Abort(w)
    PROVE  [Ledger!Next]_(Ledger!ledger)
<1>1. TypeOK /\ UNCHANGED <<asks, consent>>
  BY DEF AskInv, DbTypeOK, RunStep, Abort, StageForReview, Gate, Requeue,
         MarkApplying, Click, Report, MarkApplied, MarkNeedsVerification,
         ApprovalRequired, MarkWaitingForSetup, MarkFailed, TransientError,
         RunOnly
<1>2. run[w].pc # "idle"
  BY <1>1, RunStepLocal
<1>3. PICK c \in App : c = run[w].app
  BY <1>1, <1>2 DEF TypeOK, RunRecord
<1>4. RunSafe(w) /\ row[c].status # "absent"
  BY <1>2, <1>3 DEF ConsentInv, RunSafe
<1>5. SameRows
  <2>1. CASE RunStep(w)
    <3>1. RunMoves(w)
      BY <1>1, <2>1, RunStepMoves
    <3> QED BY <1>3, <1>4, <3>1 DEF RunMoves, SameRows
  <2>2. CASE Abort(w)
    BY <2>2 DEF Abort, SameRows
  <2> QED BY <2>1, <2>2
<1>6. CASE ~Click(w)
  <2>1. UNCHANGED sent
    BY <1>6 DEF RunStep, Abort, StageForReview, Gate, Requeue, MarkApplying,
         Report, MarkApplied, MarkNeedsVerification, ApprovalRequired,
         MarkWaitingForSetup, MarkFailed, TransientError
  <2> QED BY <1>1, <1>5, <2>1, QuietLedger
<1>7. CASE Click(w)
  <2>1. run[w].pc = "browser" /\ sent' = [sent EXCEPT ![c] = @ + 1]
    BY <1>3, <1>7 DEF Click
  <2>2. sent[c] < asks[c]
    <3>1. ToClick(w, c) /\ sent[c] \in Nat /\ asks[c] \in Nat
      BY <1>1, <1>3, <2>1 DEF ToClick, TypeOK
    <3> QED BY <3>1 DEF AskInv, AsksCover
  <2>3. row[c].mode = "autonomous" \/ consent[c]
    BY <1>2, <1>3, <1>4, <2>1 DEF RunSafe, Unconsented
  <2>4. Ledger!Submit(c)
    BY <1>1, <1>4, <1>5, <2>1, <2>2, <2>3, SameRowsSameMode DEF Ledger!Submit
  <2> QED BY <2>4 DEF Ledger!Next
<1> QED BY <1>6, <1>7

(* A commit of a request removes no row and changes no mode, whichever of  *)
(* its rows it writes: it sets no status "absent".                         *)
Existing(t, new) ==
    \A a \in req[t].apps :
        new[a].status = req[t].snap[a].status \/ new[a].status # "absent"

Queued(S) == asks' = [a \in App |-> IF a \in S THEN asks[a] + 1 ELSE asks[a]]

LEMMA CommitLedger ==
    ASSUME TypeOK, ConsentInv, OwnerOnly, NEW t \in Tab,
           NEW new \in [App -> Row], NEW op, CommitRequest(t, new, op),
           Existing(t, new), NEW agreed \in SUBSET App, Consent(agreed)
    PROVE  [Ledger!Next]_(Ledger!ledger)
<1>1. \A a \in req[t].apps : row[a].status # "absent"
  BY DEF ConsentInv, ReqSafe
<1>2. req[t].apps \subseteq App
  BY DEF TypeOK, Request
<1>3. SameRows
  <2>1. CASE row' = row
    BY <2>1 DEF SameRows
  <2>2. CASE ~(row' = row)
    <3>1. /\ \A a \in App \ req[t].apps : row'[a] = row[a]
          /\ \A a \in req[t].apps :
               /\ row'[a].mode = row[a].mode
               /\ row'[a].status = IF new[a].status = req[t].snap[a].status
                                   THEN row[a].status ELSE new[a].status
               /\ row'[a].resume = IF new[a].resume = req[t].snap[a].resume
                                   THEN row[a].resume ELSE new[a].resume
      BY <2>2, CommitRequestMoves
    <3> QED BY <1>1, <3>1 DEF SameRows, Existing
  <2> QED BY <2>1, <2>2
<1> DEFINE queued == {a \in App : /\ row'[a].status \in Claimable
                                  /\ row[a].status \notin Claimable}
<1>4. \E S \in SUBSET App : Queued(S)
  <2>1. CASE CountAsks(row')
    <3>1. Queued(queued)
      BY <2>1 DEF CountAsks, Queued
    <3> QED BY <3>1
  <2>2. CASE UNCHANGED asks
    <3>1. Queued({})
      BY <2>2 DEF TypeOK, Queued
    <3> QED BY <3>1
  <2>3. CountAsks(row') \/ UNCHANGED asks
    BY DEF CommitRequest
  <2> QED BY <2>1, <2>2, <2>3
<1>5. PICK S \in SUBSET App : Queued(S)
  BY <1>4
<1>6. Ledger!Decide(S, agreed)
  BY <1>3, <1>5, SameRowsSameMode DEF Ledger!Decide, OwnerOnly, Consent, Queued
<1> QED BY <1>6 DEF Ledger!Next

LEMMA RequestLedger ==
    ASSUME TypeOK, ConsentInv, NEW t \in Tab, RequestStep(t)
    PROVE  [Ledger!Next]_(Ledger!ledger)
<1>1. req[t] \in Request /\ ReqSafe(t) /\ consent \in [App -> BOOLEAN]
  BY DEF TypeOK, ConsentInv
<1>2. \A a \in App : req[t].snap[a] \in Row
  BY <1>1 DEF Request
<1>3. consent' = consent => Consent({})
  BY <1>1 DEF Consent
<1>4. CASE Refresh(t) \/ Rerun(t) \/ Enqueue(t)
  BY <1>4, QuietLedger DEF Refresh, Rerun, Enqueue, OwnerOnly, SameRows
<1>5. CASE DispatchForMode(t)
  <2> DEFINE new == [a \in App |-> [req[t].snap[a] EXCEPT
                                !.status = InitialStatus(req[t].snap[a].mode)]]
             op == IF \A a \in req[t].apps : req[t].snap[a].mode = "autonomous"
                   THEN "enqueue" ELSE "none"
  <2>1. CommitRequest(t, new, op) /\ OwnerOnly /\ consent' = consent
    BY <1>5 DEF DispatchForMode
  <2>2. new \in [App -> Row]
    BY <1>2 DEF Row, Status, InitialStatus
  <2>3. \A a \in App : new[a].status # "absent"
    BY <1>2 DEF Row, InitialStatus
  <2>4. Existing(t, new)
    BY <1>1, <2>3 DEF Existing, Request
  <2> HIDE DEF new, op
  <2> QED BY <1>3, <2>1, <2>2, <2>4, CommitLedger
<1>6. CASE CommitApproval(t) \/ CommitResolve(t)
  <2>1. PICK st \in {"approved", "queued"} :
          /\ CommitRequest(t, [a \in App |-> [req[t].snap[a] EXCEPT
                                 !.status = st,
                                 !.resume = MarkApproved(@, req[t].n)]], "enqueue")
          /\ Consent(req[t].apps) /\ OwnerOnly
    BY <1>6 DEF CommitApproval, CommitResolve
  <2> DEFINE new == [a \in App |-> [req[t].snap[a] EXCEPT
                                 !.status = st,
                                 !.resume = MarkApproved(@, req[t].n)]]
  <2>2. new \in [App -> Row]
    BY <1>1, MarkApprovedType DEF Request, Row, Status
  <2>3. \A a \in App : new[a].status # "absent"
    BY <1>2 DEF Row
  <2>4. Existing(t, new) /\ req[t].apps \in SUBSET App
    BY <1>1, <2>3 DEF Existing, Request
  <2> HIDE DEF new
  <2>5. CommitRequest(t, new, "enqueue")
    BY <2>1 DEF new
  <2> QED BY <2>1, <2>2, <2>4, <2>5, CommitLedger
<1>7. CASE CommitUpdate(t)
  <2> DEFINE new == [a \in App |-> [req[t].snap[a] EXCEPT !.status = req[t].to]]
             agreed == IF req[t].to \in Claimable THEN req[t].apps ELSE {}
  <2>1. CommitRequest(t, new, "refresh") /\ req[t].op = "update"
        /\ Consent(agreed) /\ OwnerOnly
    BY <1>7 DEF CommitUpdate
  <2>2. req[t].to # "absent" /\ req[t].to \in Status
    BY <1>1, <2>1, StatusAssumption DEF ReqSafe, Request
  <2>3. new \in [App -> Row]
    BY <1>2, <2>2 DEF Row
  <2>4. Existing(t, new) /\ agreed \in SUBSET App
    BY <1>1, <1>2, <2>2 DEF Existing, Request, Row
  <2> HIDE DEF new, agreed
  <2> QED BY <2>1, <2>3, <2>4, CommitLedger
<1>8. CASE MarkRerun(t)
  <2> DEFINE new == [a \in App |-> [req[t].snap[a] EXCEPT
                                 !.resume = MarkApproved(@, req[t].n)]]
  <2>1. CommitRequest(t, new, "enqueue") /\ OwnerOnly /\ consent' = consent
    BY <1>8 DEF MarkRerun
  <2>2. new \in [App -> Row]
    BY <1>1, MarkApprovedType DEF Request, Row
  <2>3. Existing(t, new)
    BY <1>1, <1>2 DEF Existing, Request, Row
  <2> HIDE DEF new
  <2> QED BY <1>3, <2>1, <2>2, <2>3, CommitLedger
<1> QED BY <1>4, <1>5, <1>6, <1>7, <1>8 DEF RequestStep

LEMMA OwnerLedger ==
    ASSUME TypeOK, ConsentInv, OwnerStep
    PROVE  [Ledger!Next]_(Ledger!ledger)
<1>1. CASE TogglePause
  BY <1>1, QuietLedger DEF TogglePause, OwnerOnly, SameRows
<1>2. ASSUME NEW t \in Tab, NEW a \in App, NEW m \in Mode, CreateNew(t, a, m)
      PROVE  [Ledger!Next]_(Ledger!ledger)
  <2>1. /\ row[a].status = "absent" /\ UNCHANGED <<consent, sent>>
        /\ row' = [row EXCEPT ![a] = NewRow(m, InitialStatus(m))]
        /\ CountAsks(row')
    BY <1>2 DEF CreateNew, OwnerOnly
  <2>2. /\ row'[a].status = InitialStatus(m) /\ row'[a].mode = m
        /\ \A b \in App \ {a} : row'[b] = row[b]
    BY <2>1 DEF TypeOK, NewRow
  <2>3. m \in {"autonomous", "review"} /\ InitialStatus(m) # "absent"
        /\ (InitialStatus(m) \in Claimable <=> m = "autonomous")
    BY DEF Mode, InitialStatus, Claimable
  <2>4. asks' = IF m = "autonomous" THEN [asks EXCEPT ![a] = @ + 1] ELSE asks
    <3>1. asks' = [b \in App |-> IF b = a /\ m = "autonomous"
                                 THEN asks[b] + 1 ELSE asks[b]]
      BY <2>1, <2>2, <2>3 DEF CountAsks, Claimable
    <3> QED BY <3>1 DEF TypeOK
  <2>5. [b \in App |-> IF row[b].status = "absent" THEN "none" ELSE row[b].mode]'
        = [[b \in App |-> IF row[b].status = "absent" THEN "none"
                          ELSE row[b].mode] EXCEPT ![a] = m]
    BY <2>2, <2>3
  <2>6. Ledger!Create(a, m)
    BY <2>1, <2>4, <2>5 DEF Ledger!Create
  <2> QED BY <2>3, <2>6 DEF Ledger!Next
<1>3. ASSUME NEW t \in Tab, OwnerCommand(t),
             ~\E a \in App, m \in Mode : CreateNew(t, a, m)
      PROVE  [Ledger!Next]_(Ledger!ledger)
  <2>1. UNCHANGED <<row, asks, consent, sent>>
    BY <1>3 DEF OwnerCommand, CreateExisting, ApproveAgain, Approve,
                UpdateStatus, ResolveBlocker, OwnerOnly
  <2> QED BY <2>1, QuietLedger DEF SameRows
<1> QED BY <1>1, <1>2, <1>3, RequestLedger DEF OwnerStep

LEMMA LedgerNext ==
    ASSUME AskInv, ConsentInv, [DbNext]_dbVars
    PROVE  [Ledger!Next]_(Ledger!ledger)
<1>1. TypeOK
  BY DEF AskInv, DbTypeOK
<1>2. ASSUME UNCHANGED <<row, asks, consent, sent>>
      PROVE  [Ledger!Next]_(Ledger!ledger)
  BY <1>2, QuietLedger DEF SameRows
<1>3. CASE UNCHANGED dbVars
  BY <1>2, <1>3 DEF dbVars, vars
<1>4. ASSUME NEW w \in Session, WorkerStep(w)
      PROVE  [Ledger!Next]_(Ledger!ledger)
  <2>1. CASE BeginPass(w) \/ List(w) \/ Unlock(w) \/ Recheck(w) \/ EndPass(w)
             \/ StartRun(w) \/ \E a \in App : PassOver(w, a) \/ TryLock(w, a)
    BY <1>2, <2>1
       DEF BeginPass, List, Unlock, Recheck, EndPass, PassOver, TryLock,
           StartRun, Load, RunOnly, vars
  <2>2. CASE Release(w)
    <3>1. CASE UNCHANGED vars
      BY <1>2, <3>1 DEF vars
    <3>2. CASE ReturnToOwner(worker[w].stale)
      <4>1. SameRows
        BY <1>1, <3>2 DEF ReturnToOwner, Returned, SameRows, TypeOK, Row
      <4> QED BY <3>2, <4>1, QuietLedger DEF ReturnToOwner
    <3> QED BY <2>2, <3>1, <3>2 DEF Release
  <2>3. CASE Running(w)
    BY <2>3, RunLedger DEF Running
  <2> QED BY <1>4, <2>1, <2>2, <2>3 DEF WorkerStep
<1>5. ASSUME NEW w \in Session, PassFails(w) \/ Crash(w)
      PROVE  [Ledger!Next]_(Ledger!ledger)
  BY <1>2, <1>5 DEF PassFails, Crash, Fail, Abort, RunOnly, vars
<1>6. CASE \/ \E w \in Session, a \in App : BackOffExpires(w, a)
           \/ \E a \in App : GrowStale(a)
  BY <1>2, <1>6 DEF BackOffExpires, GrowStale, vars
<1>7. CASE OwnerStep
  BY <1>1, <1>7, OwnerLedger
<1> QED BY <1>3, <1>4, <1>5, <1>6, <1>7 DEF DbNext

(* All of the promise at once: whatever the workers, crashes, hand-backs   *)
(* and interleaved requests do, what an observer sees of the deployment is *)
(* a behaviour of the ledger - every submission uses up an ask and, in     *)
(* review mode, follows a consent.                                         *)
THEOREM DbRefinesLedger ==
    ASSUME ~TransientAfterClick
    PROVE  DbSafety => LedgerSpec
<1>1. DbInit => AskInv /\ ConsentInv /\ Ledger!Init
  <2>1. DbInit => Ledger!Init
    BY DEF DbInit, Init, Ledger!Init, NewRow, NoRow
  <2> QED BY <2>1, AskInit, ConsentInit DEF DbInit
<1>2. AskInv /\ ConsentInv /\ [DbNext]_dbVars => (AskInv /\ ConsentInv)'
  <2> SUFFICES ASSUME AskInv, ConsentInv, [DbNext]_dbVars
               PROVE  AskInv' /\ ConsentInv'
    OBVIOUS
  <2>1. AskInv'
    BY AskNext
  <2>2. [Next]_vars
    BY StepRefines DEF AskInv
  <2> QED BY <2>1, <2>2, ConsentNext DEF AskInv, DbTypeOK
<1>3. AskInv /\ ConsentInv /\ [DbNext]_dbVars => [Ledger!Next]_(Ledger!ledger)
  BY LedgerNext
<1> QED BY <1>1, <1>2, <1>3, PTL DEF DbSafety, LedgerSpec, Ledger!Spec
=============================================================================
