------------------------ MODULE ApplyPipelineProofs ------------------------
(***************************************************************************)
(* Theorems about the apply pipeline under any dispatcher, for every set   *)
(* of applications, sessions and API requests: what needs the owner's      *)
(* consent has it, and an approval is lost only to a run that was there    *)
(* before.                                                                 *)
(***************************************************************************)
EXTENDS ApplyPipeline, TLAPS

(* A commit over a row keeps it a row and never changes its apply mode.    *)
LEMMA MergeType ==
    ASSUME NEW current \in Row, NEW old \in Row, NEW new \in Row
    PROVE  /\ Merge(current, old, new) \in Row
           /\ Merge(current, old, new).mode = current.mode
BY DEF Merge, Row

LEMMA NoRowType == NoRow \in Row
BY DEF NoRow, NewRow, NoResume, Row, Resume, Status, Mode

LEMMA MarkApprovedType ==
    ASSUME NEW resume \in Resume, NEW n \in Nat
    PROVE  MarkApproved(resume, n) \in Resume
BY DEF MarkApproved, Resume

(* The idle session, and a session that goes on with a new snapshot.       *)
LEMMA EndType ==
    ASSUME TypeOK, NEW s \in Session, End(s)
    PROVE  run' \in [Session -> RunRecord]
           /\ \A x \in Session : run'[x].app = NoApp <=> run'[x].pc = "idle"
<1>1. IdleRun \in RunRecord
  BY NoRowType, BoundAssumption DEF IdleRun, RunRecord, RunPc
<1> QED BY <1>1 DEF End, TypeOK, IdleRun

(* A commit of a run writes a row, and leaves a well-formed session.       *)
LEMMA CommitType ==
    ASSUME TypeOK, NEW s \in Session, run[s].pc # "idle",
           NEW new \in Row, NEW pc \in RunPc, Commit(s, new, pc)
    PROVE  /\ row' \in [App -> Row]
           /\ run' \in [Session -> RunRecord]
           /\ \A x \in Session : run'[x].app = NoApp <=> run'[x].pc = "idle"
<1>1. run[s].app \in App /\ run[s].snap \in Row
  BY DEF TypeOK, RunRecord
<1> DEFINE a == run[s].app
           rows == [row EXCEPT ![a] = Merge(@, run[s].snap, new)]
<1>2. rows \in [App -> Row]
  BY <1>1, MergeType DEF TypeOK
<1>3. CASE ~UniqueActive(rows)
  BY <1>3, EndType DEF Commit, TypeOK
<1>4. CASE UniqueActive(rows) /\ pc = "idle"
  <2>1. row' = rows /\ End(s)
    BY <1>4 DEF Commit, End
  <2> QED BY <2>1, <1>2, EndType
<1>5. CASE UniqueActive(rows) /\ pc # "idle"
  <2>1. /\ row' = rows
        /\ run' = [run EXCEPT ![s] = [@ EXCEPT !.pc = pc, !.snap = new]]
    BY <1>5 DEF Commit
  <2> DEFINE r == [run[s] EXCEPT !.pc = pc, !.snap = new]
  <2>2. r \in RunRecord /\ r.app = run[s].app /\ r.pc = pc
    BY <1>1 DEF TypeOK, RunRecord
  <2>3. run' = [run EXCEPT ![s] = r]
    BY <2>1
  <2> HIDE DEF r
  <2>4. run' \in [Session -> RunRecord] /\ run'[s] = r
        /\ \A x \in Session \ {s} : run'[x] = run[x]
    BY <2>2, <2>3 DEF TypeOK
  <2>5. r.app # NoApp /\ r.pc # "idle"
    BY <2>2, <1>1, <1>5, AppAssumption
  <2> QED BY <2>1, <2>4, <2>5, <1>2 DEF TypeOK
<1> QED BY <1>3, <1>4, <1>5

LEMMA CommitStatusType ==
    ASSUME TypeOK, NEW s \in Session, run[s].pc # "idle",
           NEW st \in Status, NEW pc \in RunPc, CommitStatus(s, st, pc)
    PROVE  /\ row' \in [App -> Row]
           /\ run' \in [Session -> RunRecord]
           /\ \A x \in Session : run'[x].app = NoApp <=> run'[x].pc = "idle"
<1>1. [run[s].snap EXCEPT !.status = st] \in Row
  BY DEF TypeOK, RunRecord, Row
<1> QED BY <1>1, CommitType DEF CommitStatus

LEMMA NoRequestType == NoRequest \in Request
BY NoRowType DEF NoRequest, Request, Op

LEMMA FinishType ==
    ASSUME TypeOK, NEW t \in Tab, Finish(t)
    PROVE  req' \in [Tab -> Request]
BY NoRequestType DEF Finish, TypeOK

LEMMA ContinueType ==
    ASSUME TypeOK, NEW t \in Tab, NEW op \in Op, Continue(t, op)
    PROVE  req' \in [Tab -> Request]
<1>1. [req[t] EXCEPT !.op = op] \in Request
  BY DEF TypeOK, Request
<1> QED BY <1>1 DEF Continue, TypeOK

LEMMA BeginType ==
    ASSUME TypeOK, NEW t \in Tab, NEW op \in Op, NEW S \in SUBSET App,
           NEW to \in OwnerStatus \cup {"absent"}, Begin(t, op, S, to)
    PROVE  req' \in [Tab -> Request]
<1>1. [a \in App |-> IF a \in S THEN row[a] ELSE NoRow] \in [App -> Row]
  BY NoRowType DEF TypeOK
<1>2. acts + 1 \in Nat
  BY DEF TypeOK
<1> QED BY <1>1, <1>2 DEF Begin, Request, TypeOK

LEMMA RereadType ==
    ASSUME TypeOK, NEW t \in Tab, NEW op \in Op, Reread(t, op)
    PROVE  req' \in [Tab -> Request]
<1> DEFINE snap == [a \in App |-> IF a \in req[t].apps THEN row[a] ELSE NoRow]
           r == [req[t] EXCEPT !.op = op, !.snap = snap]
<1>1. snap \in [App -> Row]
  BY NoRowType DEF TypeOK
<1> HIDE DEF snap
<1>2. r \in Request
  BY <1>1 DEF TypeOK, Request
<1>3. req' = [req EXCEPT ![t] = r]
  BY DEF Reread, snap
<1> QED BY <1>2, <1>3 DEF TypeOK

(* A commit of a request writes rows and counts the asks.                  *)
LEMMA CommitRequestType ==
    ASSUME TypeOK, NEW t \in Tab, NEW new \in [App -> Row], NEW op \in Op,
           CommitRequest(t, new, op)
    PROVE  /\ row' \in [App -> Row]
           /\ asks' \in [App -> Nat]
           /\ req' \in [Tab -> Request]
<1> DEFINE rows == [a \in App |-> IF a \in req[t].apps
                                  THEN Merge(row[a], req[t].snap[a], new[a])
                                  ELSE row[a]]
<1>1. rows \in [App -> Row]
  <2> SUFFICES ASSUME NEW a \in App
               PROVE  Merge(row[a], req[t].snap[a], new[a]) \in Row
                      /\ row[a] \in Row
    OBVIOUS
  <2>1. row[a] \in Row /\ req[t].snap[a] \in Row /\ new[a] \in Row
    BY DEF TypeOK, Request
  <2> QED BY <2>1, MergeType
<1>2. CASE UniqueActive(rows)
  <2>1. row' = rows /\ CountAsks(rows)
    BY <1>2 DEF CommitRequest
  <2>2. Finish(t) \/ Continue(t, op)
    BY <1>2 DEF CommitRequest
  <2> HIDE DEF rows
  <2> QED BY <1>1, <2>1, <2>2, FinishType, ContinueType DEF CountAsks, TypeOK
<1>3. CASE ~UniqueActive(rows)
  <2>1. Finish(t) /\ row' = row /\ asks' = asks
    BY <1>3 DEF CommitRequest
  <2> QED BY <2>1, FinishType DEF TypeOK
<1> QED BY <1>2, <1>3

LEMMA TypeInit == Init => TypeOK
<1> SUFFICES ASSUME Init PROVE TypeOK
  OBVIOUS
<1>1. row \in [App -> Row]
  BY DEF Init, NewRow, NoRow, NoResume, Row, Resume, Status, Mode
<1>2. run \in [Session -> RunRecord]
  BY NoRowType, BoundAssumption DEF Init, IdleRun, RunRecord, RunPc
<1>3. \A s \in Session : run[s].app = NoApp <=> run[s].pc = "idle"
  BY DEF Init, IdleRun
<1>4. req \in [Tab -> Request]
  BY NoRequestType DEF Init
<1>5. asks \in [App -> Nat]
  BY DEF Init
<1>6. consent \in [App -> BOOLEAN] /\ sent \in [App -> Nat]
  BY DEF Init
<1> QED BY <1>1, <1>2, <1>3, <1>4, <1>5, <1>6 DEF Init, TypeOK

(* What the actions of a run may write, besides the row and the session.   *)
LEMMA RunTyped ==
    ASSUME TypeOK, RunOnly,
           row' \in [App -> Row],
           run' \in [Session -> RunRecord],
           \A s \in Session : run'[s].app = NoApp <=> run'[s].pc = "idle",
           handed' \in SUBSET App, sent' \in [App -> Nat]
    PROVE  TypeOK'
BY DEF TypeOK, RunOnly

(* The gate notes the waived objections in the snapshot.                   *)
LEMMA NotedType ==
    ASSUME NEW snap \in Row, NEW waived \in SUBSET Waivable
    PROVE  [snap EXCEPT !.resume.waiver = waived] \in Row
BY DEF Row, Resume

(* The pause of a run at a verification wall.                              *)
LEMMA BlockedType ==
    ASSUME NEW snap \in Row
    PROVE  [snap EXCEPT !.status = "pending_review",
                        !.resume.blocked = TRUE] \in Row
<1>1. [snap.resume EXCEPT !.blocked = TRUE] \in Resume
  BY DEF Row, Resume
<1>2. "pending_review" \in Status
  BY DEF Status
<1> QED BY <1>1, <1>2 DEF Row

LEMMA LoadType ==
    ASSUME TypeOK, NEW s \in Session, NEW a \in App,
           NEW try \in 1 .. MaxTries, Load(s, a, try)
    PROVE  TypeOK'
<1> DEFINE r == [pc |-> "loaded", app |-> a, try |-> try, snap |-> row[a]]
<1>1. r \in RunRecord /\ r.app # NoApp /\ r.pc # "idle"
  BY AppAssumption DEF RunRecord, RunPc, TypeOK
<1>2. run' = [run EXCEPT ![s] = r]
  BY DEF Load
<1> HIDE DEF r
<1>3. /\ run' \in [Session -> RunRecord]
      /\ \A x \in Session : run'[x].app = NoApp <=> run'[x].pc = "idle"
  BY <1>1, <1>2 DEF TypeOK
<1> QED BY <1>3, RunTyped DEF Load, TypeOK

LEMMA GateType ==
    ASSUME TypeOK, NEW s \in Session, NEW objections \in SUBSET Raised,
           Gate(s, objections)
    PROVE  TypeOK'
<1> DEFINE snap == run[s].snap
           waived == IF HumanApproved(snap)
                     THEN objections \cap Waivable ELSE {}
           noted == IF waived = {} THEN snap
                    ELSE [snap EXCEPT !.resume.waiver = waived]
<1>1. snap \in Row /\ run[s].pc # "idle"
  BY DEF TypeOK, RunRecord, Gate
<1>2. noted \in Row
  <2>1. waived \in SUBSET Waivable
    OBVIOUS
  <2> QED BY <1>1, <2>1, NotedType
<1>3. PICK new \in Row, pc \in RunPc : Commit(s, new, pc)
  <2>1. \A st \in Status : [noted EXCEPT !.status = st] \in Row
    BY <1>2 DEF Row
  <2>2. \/ Commit(s, noted, "cleared")
        \/ Commit(s, [noted EXCEPT !.status = "queued"], "held")
        \/ Commit(s, [noted EXCEPT !.status = "pending_review"], "idle")
        \/ Commit(s, [noted EXCEPT !.status = "failed"], "idle")
    BY DEF Gate
  <2>3. {"queued", "pending_review", "failed"} \subseteq Status
        /\ {"cleared", "held", "idle"} \subseteq RunPc
    BY DEF Status, RunPc
  <2> QED BY <1>2, <2>1, <2>2, <2>3
<1>4. /\ row' \in [App -> Row]
      /\ run' \in [Session -> RunRecord]
      /\ \A x \in Session : run'[x].app = NoApp <=> run'[x].pc = "idle"
  BY <1>1, <1>3, CommitType
<1> QED BY <1>4, RunTyped DEF Gate, TypeOK

(* A run that commits a status, ends or moves its program counter.         *)
LEMMA RunStepType ==
    ASSUME TypeOK, NEW s \in Session, RunStep(s)
    PROVE  TypeOK'
<1> DEFINE Sessions == /\ run' \in [Session -> RunRecord]
                       /\ \A x \in Session :
                            run'[x].app = NoApp <=> run'[x].pc = "idle"
<1> USE DEF InBrowser
<1>1. CASE StageForReview(s)
  BY <1>1, CommitStatusType, RunTyped DEF StageForReview, TypeOK, Status, RunPc
<1>2. CASE \E objections \in SUBSET Raised : Gate(s, objections)
  BY <1>2, GateType
<1>3. CASE Requeue(s)
  <2>1. run[s].app \in App
    BY <1>3 DEF Requeue, TypeOK, RunRecord
  <2>2. Sessions
    BY <1>3, EndType DEF Requeue
  <2> QED BY <1>3, <2>1, <2>2, RunTyped DEF Requeue, TypeOK
<1>4. CASE MarkApplying(s)
  BY <1>4, CommitStatusType, RunTyped DEF MarkApplying, TypeOK, Status, RunPc
<1>5. CASE Click(s)
  <2>1. run' = [run EXCEPT ![s] = [run[s] EXCEPT !.pc = "clicked"]]
    BY <1>5 DEF Click
  <2>2. [run[s] EXCEPT !.pc = "clicked"] \in RunRecord
    BY DEF TypeOK, RunRecord, RunPc
  <2>3. Sessions
    BY <1>5, <2>1, <2>2 DEF Click, TypeOK, RunRecord
  <2>4. sent' \in [App -> Nat]
    <3>1. run[s].app \in App
      BY <1>5 DEF Click, TypeOK, RunRecord
    <3>2. sent[run[s].app] + 1 \in Nat
      BY <3>1 DEF TypeOK
    <3> QED BY <1>5, <3>2 DEF Click, TypeOK
  <2> QED BY <1>5, <2>3, <2>4, RunTyped DEF Click, TypeOK
<1>6. CASE Report(s)
  <2>1. run' = [run EXCEPT ![s] = [run[s] EXCEPT !.pc = "reported"]]
    BY <1>6 DEF Report
  <2>2. [run[s] EXCEPT !.pc = "reported"] \in RunRecord
    BY DEF TypeOK, RunRecord, RunPc
  <2>3. Sessions
    BY <1>6, <2>1, <2>2 DEF Report, TypeOK, RunRecord
  <2> QED BY <1>6, <2>3, RunTyped DEF Report, TypeOK
<1>7. CASE MarkApplied(s)
  BY <1>7, CommitStatusType, RunTyped DEF MarkApplied, TypeOK, Status, RunPc
<1>8. CASE MarkNeedsVerification(s)
  <2>1. run[s].snap \in Row
    BY DEF TypeOK, RunRecord
  <2> QED BY <1>8, <2>1, BlockedType, CommitType, RunTyped
          DEF MarkNeedsVerification, TypeOK, RunPc
<1>9. CASE ApprovalRequired(s)
  BY <1>9, CommitStatusType, RunTyped DEF ApprovalRequired, TypeOK, Status, RunPc
<1>10. CASE MarkWaitingForSetup(s)
  BY <1>10, CommitStatusType, RunTyped
     DEF MarkWaitingForSetup, TypeOK, Status, RunPc
<1>11. CASE MarkFailed(s)
  BY <1>11, CommitStatusType, RunTyped DEF MarkFailed, TypeOK, Status, RunPc
<1>12. CASE TransientError(s)
  <2>1. row' \in [App -> Row] /\ Sessions
    <3>1. CASE \E st \in Status : CommitStatus(s, st, "idle")
      BY <1>12, <3>1, CommitStatusType DEF TransientError, RunPc
    <3>2. CASE End(s) /\ UNCHANGED row
      BY <3>2, EndType DEF TypeOK
    <3> QED BY <1>12, <3>1, <3>2 DEF TransientError, Status
  <2> QED BY <1>12, <2>1, RunTyped DEF TransientError, TypeOK
<1> QED
  BY <1>1, <1>2, <1>3, <1>4, <1>5, <1>6, <1>7, <1>8, <1>9, <1>10, <1>11,
     <1>12 DEF RunStep

LEMMA AbortType ==
    ASSUME TypeOK, NEW s \in Session, Abort(s)
    PROVE  TypeOK'
BY EndType, RunTyped DEF Abort, TypeOK

LEMMA ReturnToOwnerType ==
    ASSUME TypeOK, NEW S \in SUBSET App, ReturnToOwner(S)
    PROVE  TypeOK'
<1>1. Returned(S) \in [App -> Row]
  <2>1. \A a \in App : [row[a] EXCEPT !.status = "pending_review"] \in Row
    BY DEF TypeOK, Row, Status
  <2> QED BY <2>1 DEF Returned, TypeOK
<1> QED BY <1>1 DEF ReturnToOwner, TypeOK

(* What the actions of the owner may write.                                *)
LEMMA OwnerTyped ==
    ASSUME TypeOK, OwnerOnly,
           row' \in [App -> Row], req' \in [Tab -> Request],
           paused' \in BOOLEAN, handed' \in SUBSET App, acts' \in Nat,
           asks' \in [App -> Nat], consent' \in [App -> BOOLEAN]
    PROVE  TypeOK'
BY DEF TypeOK, OwnerOnly

LEMMA CommandType ==
    ASSUME TypeOK, NEW t \in Tab, Command(t)
    PROVE  acts' \in Nat
BY DEF Command, TypeOK

LEMMA CreateNewType ==
    ASSUME TypeOK, NEW t \in Tab, NEW a \in App, NEW m \in Mode,
           CreateNew(t, a, m)
    PROVE  TypeOK'
<1> DEFINE rows == [row EXCEPT ![a] = NewRow(m, InitialStatus(m))]
<1>1. rows \in [App -> Row]
  BY DEF TypeOK, NewRow, NoResume, InitialStatus, Row, Resume, Status
<1>2. row' = rows /\ CountAsks(rows)
  BY DEF CreateNew
<1> HIDE DEF rows
<1>3. asks' \in [App -> Nat]
  BY <1>2 DEF CountAsks, TypeOK
<1>4. acts' \in Nat /\ acts + 1 \in Nat
  BY CommandType DEF CreateNew, TypeOK
<1>5. req' \in [Tab -> Request]
  <2>1. [op |-> "created", apps |-> {a}, to |-> "absent", n |-> acts + 1,
         snap |-> [b \in App |-> NoRow]] \in Request
    BY <1>4, NoRowType DEF Request, Op
  <2> QED BY <2>1 DEF CreateNew, TypeOK
<1> QED BY <1>1, <1>2, <1>3, <1>4, <1>5, OwnerTyped DEF CreateNew, TypeOK

(* The commands that load rows and leave the writing to a later commit.    *)
LEMMA OwnerCommandType ==
    ASSUME TypeOK, NEW t \in Tab, OwnerCommand(t)
    PROVE  TypeOK'
<1> USE DEF Op
<1>1. ASSUME NEW a \in App, NEW m \in Mode, CreateNew(t, a, m)
      PROVE  TypeOK'
  BY <1>1, CreateNewType
<1>2. ASSUME NEW a \in App, CreateExisting(t, a)
      PROVE  TypeOK'
  <2>1. acts' \in Nat /\ req' \in [Tab -> Request]
    BY <1>2, CommandType, BeginType DEF CreateExisting
  <2> QED BY <1>2, <2>1, OwnerTyped DEF CreateExisting, TypeOK
<1>3. ASSUME NEW a \in App, ApproveAgain(t, a)
      PROVE  TypeOK'
  <2>1. acts' \in Nat /\ req' \in [Tab -> Request]
    BY <1>3, CommandType, BeginType DEF ApproveAgain
  <2> QED BY <1>3, <2>1, OwnerTyped DEF ApproveAgain, TypeOK
<1>4. ASSUME NEW S \in SUBSET App, Approve(t, S)
      PROVE  TypeOK'
  <2>1. acts' \in Nat /\ req' \in [Tab -> Request]
    <3>1. {a \in S : row[a].status \in Approvable} \in SUBSET App
      OBVIOUS
    <3> QED BY <1>4, <3>1, CommandType, BeginType DEF Approve
  <2> QED BY <1>4, <2>1, OwnerTyped DEF Approve, TypeOK
<1>5. ASSUME NEW a \in App, NEW st \in OwnerStatus, UpdateStatus(t, a, st)
      PROVE  TypeOK'
  <2>1. acts' \in Nat /\ req' \in [Tab -> Request]
    BY <1>5, CommandType, BeginType DEF UpdateStatus
  <2> QED BY <1>5, <2>1, OwnerTyped DEF UpdateStatus, TypeOK
<1>6. ASSUME NEW a \in App, ResolveBlocker(t, a)
      PROVE  TypeOK'
  <2>1. acts' \in Nat /\ req' \in [Tab -> Request]
    BY <1>6, CommandType, BeginType DEF ResolveBlocker
  <2> QED BY <1>6, <2>1, OwnerTyped DEF ResolveBlocker, TypeOK
<1> QED BY <1>1, <1>2, <1>3, <1>4, <1>5, <1>6 DEF OwnerCommand

LEMMA RequestStepType ==
    ASSUME TypeOK, NEW t \in Tab, RequestStep(t)
    PROVE  TypeOK'
<1> DEFINE Typed == /\ row' \in [App -> Row]
                    /\ asks' \in [App -> Nat]
                    /\ req' \in [Tab -> Request]
<1>1. /\ req[t].snap \in [App -> Row] /\ req[t].n \in Nat
      /\ req[t].apps \in SUBSET App /\ req[t].to \in Status
  BY StatusAssumption DEF TypeOK, Request, Status
<1>2. /\ \A a \in App : req[t].snap[a] \in Row
                         /\ req[t].snap[a].resume \in Resume
      /\ \A a \in App : MarkApproved(req[t].snap[a].resume, req[t].n) \in Resume
  BY <1>1, MarkApprovedType DEF Row
<1>3. {"dispatch", "refresh", "rerun", "enqueue", "none"} \subseteq Op
  BY DEF Op
<1>4. \A S : Consent(S) => consent' \in [App -> BOOLEAN]
  BY DEF Consent, TypeOK
<1>5. CASE Refresh(t)
  BY <1>3, <1>5, OwnerTyped, RereadType DEF Refresh, TypeOK
<1>6. CASE DispatchForMode(t)
  <2> DEFINE new == [a \in App |->
                       [req[t].snap[a] EXCEPT
                          !.status = InitialStatus(req[t].snap[a].mode)]]
  <2>1. new \in [App -> Row]
    BY <1>2 DEF Row, InitialStatus, Status
  <2>2. PICK op \in Op : CommitRequest(t, new, op)
    BY <1>3, <1>6 DEF DispatchForMode
  <2>3. Typed
    BY <2>1, <2>2, CommitRequestType
  <2> QED BY <1>6, <2>3, OwnerTyped DEF DispatchForMode, TypeOK
<1>7. CASE CommitApproval(t)
  <2> DEFINE new == [a \in App |->
                       [req[t].snap[a] EXCEPT
                          !.status = "approved",
                          !.resume = MarkApproved(@, req[t].n)]]
  <2>1. new \in [App -> Row]
    BY <1>2 DEF Row, Status
  <2>2. CommitRequest(t, new, "enqueue")
    BY <1>7 DEF CommitApproval
  <2>3. Typed
    BY <1>3, <2>1, <2>2, CommitRequestType
  <2> QED BY <1>4, <1>7, <2>3, OwnerTyped DEF CommitApproval, TypeOK
<1>8. CASE CommitUpdate(t)
  <2> DEFINE new == [a \in App |-> [req[t].snap[a] EXCEPT
                                      !.status = req[t].to]]
  <2>1. new \in [App -> Row]
    BY <1>1, <1>2 DEF Row
  <2>2. CommitRequest(t, new, "refresh")
    BY <1>8 DEF CommitUpdate
  <2>3. Typed
    BY <1>3, <2>1, <2>2, CommitRequestType
  <2> QED BY <1>4, <1>8, <2>3, OwnerTyped DEF CommitUpdate, TypeOK
<1>12. CASE Rerun(t)
  <2>1. req' \in [Tab -> Request]
    BY <1>3, <1>12, FinishType, RereadType DEF Rerun
  <2> QED BY <1>12, <2>1, OwnerTyped DEF Rerun, TypeOK
<1>9. CASE MarkRerun(t)
  <2> DEFINE new == [a \in App |-> [req[t].snap[a] EXCEPT
                                      !.resume = MarkApproved(@, req[t].n)]]
  <2>1. new \in [App -> Row]
    BY <1>2 DEF Row
  <2>2. CommitRequest(t, new, "enqueue")
    BY <1>9 DEF MarkRerun
  <2>3. Typed
    BY <1>3, <2>1, <2>2, CommitRequestType
  <2> QED BY <1>9, <2>3, OwnerTyped DEF MarkRerun, TypeOK
<1>10. CASE CommitResolve(t)
  <2> DEFINE new == [a \in App |->
                       [req[t].snap[a] EXCEPT
                          !.status = "queued",
                          !.resume = MarkApproved(@, req[t].n)]]
  <2>1. new \in [App -> Row]
    BY <1>2 DEF Row, Status
  <2>2. CommitRequest(t, new, "enqueue")
    BY <1>10 DEF CommitResolve
  <2>3. Typed
    BY <1>3, <2>1, <2>2, CommitRequestType
  <2> QED BY <1>4, <1>10, <2>3, OwnerTyped DEF CommitResolve, TypeOK
<1>11. CASE Enqueue(t)
  <2>1. req' \in [Tab -> Request]
    BY <1>11, FinishType DEF Enqueue
  <2> QED BY <1>1, <1>11, <2>1, OwnerTyped DEF Enqueue, TypeOK
<1> QED
  BY <1>5, <1>6, <1>7, <1>8, <1>9, <1>10, <1>11, <1>12 DEF RequestStep

LEMMA OwnerStepType ==
    ASSUME TypeOK, OwnerStep
    PROVE  TypeOK'
<1>1. CASE TogglePause
  BY <1>1, OwnerTyped DEF TogglePause, TypeOK
<1> QED BY <1>1, OwnerCommandType, RequestStepType DEF OwnerStep

LEMMA TypeNext == TypeOK /\ [Next]_vars => TypeOK'
<1> SUFFICES ASSUME TypeOK, [Next]_vars PROVE TypeOK'
  OBVIOUS
<1>1. CASE UNCHANGED vars
  BY <1>1 DEF vars, TypeOK
<1>2. CASE Next
  BY <1>2, LoadType, RunStepType, AbortType, ReturnToOwnerType, OwnerStepType
     DEF Next
<1> QED BY <1>1, <1>2

(* Whatever dispatches the rows, every actor keeps the tables well-formed: *)
(* no commit of a stale snapshot leaves a row without a legal status, mode *)
(* or resume_state.                                                        *)
THEOREM TypeCorrect == Spec => []TypeOK
BY TypeInit, TypeNext, PTL DEF Spec

-----------------------------------------------------------------------------
(* Consent.  ReviewNeedsConsent is not inductive: it says nothing of what  *)
(* a row may look like before a run loads it.  ConsentInv follows a row    *)
(* that is in review mode and that the owner has not consented to.         *)

Unconsented(a) == row[a].mode # "autonomous" /\ ~consent[a]

(* It carries no approval, no queue has it and the employer does not; a    *)
(* row that was never created is such a row.                               *)
RowSafe(a) ==
    /\ Unconsented(a) => /\ row[a].status # "approved"
                         /\ row[a].resume.approved = 0
                         /\ a \notin handed /\ sent[a] = 0
    /\ row[a].status = "absent" => Unconsented(a)

(* A run that has it saw it queued by an older release, and no more.       *)
RunSafe(s) ==
    LET a == run[s].app
    IN  run[s].pc # "idle" =>
          /\ row[a].status # "absent" /\ run[s].snap.mode = row[a].mode
          /\ Unconsented(a) => /\ run[s].pc = "loaded"
                               /\ run[s].snap.status = "queued"
                               /\ run[s].snap.resume.approved = 0

(* A request that has it neither approves it unasked nor enqueues it.      *)
ReqSafe(t) ==
    /\ req[t].op = "update" => req[t].to # "absent"
    /\ \A a \in req[t].apps :
         /\ row[a].status # "absent"
         /\ req[t].op # "created" => req[t].snap[a].mode = row[a].mode
         /\ Unconsented(a) =>
              /\ req[t].op \notin {"rerun", "enqueue"}
              /\ req[t].op = "refresh" => row[a].status \notin Claimable
              /\ req[t].op # "created" /\ row[a].status = "queued"
                   => req[t].snap[a].status = "queued"

ConsentInv ==
    /\ \A a \in App : RowSafe(a)
    /\ \A s \in Session : RunSafe(s)
    /\ \A t \in Tab : ReqSafe(t)

(* What no step ever does to a row: create it with a consent, remove it,   *)
(* change its mode, or make it claimable or approved without the owner.    *)
RowMoves(a) ==
    /\ consent[a] => consent'[a]
    /\ row[a].status = "absent" => ~consent'[a]
    /\ row[a].status # "absent" => /\ row'[a].status # "absent"
                                   /\ row'[a].mode = row[a].mode
    /\ row'[a].status = "absent" => row'[a].mode # "autonomous"
    /\ Unconsented(a)' =>
         /\ row'[a].resume.approved = 0
         /\ row'[a].status = row[a].status \/ row'[a].status \notin Claimable

(* The runs and requests a step leaves alone stay safe.                    *)
LEMMA ConsentKept ==
    ASSUME TypeOK, TypeOK', ConsentInv, \A a \in App : RowMoves(a)
    PROVE  /\ \A s \in Session : run'[s] = run[s] => RunSafe(s)'
           /\ \A t \in Tab : req'[t] = req[t] => ReqSafe(t)'
           /\ \A a \in App : /\ a \in handed' => a \in handed \/ ~Unconsented(a)'
                             /\ sent'[a] = sent[a] \/ ~Unconsented(a)'
                             => RowSafe(a)'
<1>1. ASSUME NEW a \in App
      PROVE  /\ row[a].status # "absent" => (Unconsented(a)' => Unconsented(a))
             /\ row[a].status = "absent" => Unconsented(a)
             /\ row'[a].status = "absent" => row[a].status = "absent"
  BY DEF RowMoves, ConsentInv, RowSafe, Unconsented
<1>2. ASSUME NEW s \in Session, run'[s] = run[s]
      PROVE  RunSafe(s)'
  <2>1. SUFFICES ASSUME run[s].pc # "idle"
                 PROVE  RunSafe(s)'
    BY <1>2 DEF RunSafe
  <2>2. run[s].app \in App
    BY <2>1 DEF TypeOK, RunRecord
  <2>3. RunSafe(s) /\ RowMoves(run[s].app)
    BY <2>2 DEF ConsentInv
  <2> QED BY <1>1, <1>2, <2>1, <2>2, <2>3 DEF RunSafe, RowMoves
<1>3. ASSUME NEW t \in Tab, req'[t] = req[t]
      PROVE  ReqSafe(t)'
  <2>1. ReqSafe(t) /\ req[t].apps \in SUBSET App
    BY DEF ConsentInv, TypeOK, Request
  <2>2. ASSUME NEW a \in req[t].apps
        PROVE  /\ row'[a].status # "absent"
               /\ row'[a].mode = row[a].mode
               /\ Unconsented(a)' =>
                    /\ Unconsented(a)
                    /\ row'[a].status = row[a].status \/ row'[a].status \notin Claimable
    <3>1. a \in App /\ RowMoves(a) /\ row[a].status # "absent"
      BY <2>1, <2>2 DEF ReqSafe
    <3> QED BY <1>1, <3>1 DEF RowMoves
  <2> QED BY <1>3, <2>1, <2>2 DEF ReqSafe, Claimable
<1>4. ASSUME NEW a \in App,
             a \in handed' => a \in handed \/ ~Unconsented(a)',
             sent'[a] = sent[a] \/ ~Unconsented(a)'
      PROVE  RowSafe(a)'
  <2>1. RowMoves(a) /\ RowSafe(a)
    BY DEF ConsentInv
  <2>2. CASE Unconsented(a)'
    <3>1. Unconsented(a)
      BY <1>1, <2>2
    <3> QED BY <1>4, <2>1, <2>2, <3>1 DEF RowSafe, RowMoves, Claimable
  <2>3. CASE ~Unconsented(a)'
    BY <1>1, <2>1, <2>3 DEF RowSafe, RowMoves, Unconsented
  <2> QED BY <2>2, <2>3
<1> QED BY <1>2, <1>3, <1>4

LEMMA ConsentInit == Init => ConsentInv
BY DEF Init, ConsentInv, RowSafe, RunSafe, ReqSafe, Unconsented, NoRow,
       NewRow, NoResume, IdleRun, NoRequest, Claimable

(* A step that writes no row and gives no consent.                         *)
LEMMA RowsStill ==
    ASSUME ConsentInv, row' = row, consent' = consent
    PROVE  \A a \in App : RowMoves(a)
BY DEF ConsentInv, RowMoves, RowSafe, Unconsented

(* What a run may do to the tables, as far as consent goes.                *)
RunMoves(s) ==
    LET a == run[s].app
    IN  /\ \A b \in App \ {a} : row'[b] = row[b]
        /\ row'[a].mode = row[a].mode
        /\ row'[a].status = row[a].status \/ row'[a].status # "absent"
        /\ \A x \in Session \ {s} : run'[x] = run[x]
        /\ \/ run'[s].pc = "idle"
           \/ run'[s].app = a /\ run'[s].snap.mode = run[s].snap.mode
        /\ req' = req /\ consent' = consent

LEMMA EndMoves ==
    ASSUME TypeOK, NEW s \in Session, End(s),
           row' = row, req' = req, consent' = consent
    PROVE  RunMoves(s)
BY DEF RunMoves, End, IdleRun, TypeOK

LEMMA CommitMoves ==
    ASSUME TypeOK, NEW s \in Session, run[s].pc # "idle",
           NEW new \in Row, NEW pc, Commit(s, new, pc),
           new.mode = run[s].snap.mode,
           new.status = run[s].snap.status \/ new.status # "absent",
           req' = req, consent' = consent
    PROVE  RunMoves(s)
<1>1. run[s].app \in App /\ run[s].snap \in Row
  BY DEF TypeOK, RunRecord
<1> DEFINE rows == [row EXCEPT ![run[s].app] = Merge(@, run[s].snap, new)]
<1>2. CASE ~UniqueActive(rows)
  BY <1>2, EndMoves DEF Commit
<1>3. CASE UniqueActive(rows)
  <2>1. row' = rows
        /\ run' = [run EXCEPT ![s] = IF pc = "idle" THEN IdleRun
                                     ELSE [@ EXCEPT !.pc = pc, !.snap = new]]
    BY <1>3 DEF Commit
  <2>2. /\ row'[run[s].app] = Merge(row[run[s].app], run[s].snap, new)
        /\ \A b \in App \ {run[s].app} : row'[b] = row[b]
    BY <1>1, <2>1 DEF TypeOK
  <2>3. /\ row'[run[s].app].mode = row[run[s].app].mode
        /\ \/ row'[run[s].app].status = row[run[s].app].status
           \/ row'[run[s].app].status # "absent"
    BY <1>1, <2>2 DEF Merge, TypeOK, Row
  <2>4. /\ \A x \in Session \ {s} : run'[x] = run[x]
        /\ \/ run'[s].pc = "idle"
           \/ /\ run'[s].app = run[s].app
              /\ run'[s].snap.mode = run[s].snap.mode
    BY <2>1 DEF TypeOK, IdleRun, RunRecord
  <2> QED BY <2>2, <2>3, <2>4 DEF RunMoves
<1> QED BY <1>2, <1>3

(* A run of a row that the owner consented to, or of an autonomous one.    *)
LEMMA ConsentedRun ==
    ASSUME TypeOK, TypeOK', ConsentInv, NEW s \in Session, NEW a \in App,
           run[s].pc # "idle", a = run[s].app, ~Unconsented(a), RunMoves(s),
           handed' \subseteq handed \cup {a},
           \A b \in App \ {a} : sent'[b] = sent[b]
    PROVE  ConsentInv'
<1>1. RunSafe(s) /\ row[a].status # "absent"
  BY DEF ConsentInv, RunSafe
<1>2. ~Unconsented(a)' /\ row'[a].mode = row[a].mode /\ row'[a].status # "absent"
  BY <1>1 DEF RunMoves, Unconsented
<1>3. \A b \in App : RowMoves(b)
  <2>1. RowMoves(a)
    BY <1>1, <1>2 DEF RowMoves, RunMoves
  <2>2. ASSUME NEW b \in App \ {a} PROVE RowMoves(b)
    <3>1. RowSafe(b) /\ row'[b] = row[b] /\ consent' = consent
      BY DEF ConsentInv, RunMoves
    <3> QED BY <3>1 DEF RowMoves, RowSafe, Unconsented
  <2> QED BY <2>1, <2>2
<1>4. RunSafe(s)'
  BY <1>1, <1>2 DEF RunMoves, RunSafe
<1>5. \A x \in Session \ {s} : RunSafe(x)'
  BY <1>3, ConsentKept DEF RunMoves
<1>6. \A t \in Tab : ReqSafe(t)'
  BY <1>3, ConsentKept DEF RunMoves
<1>7. \A b \in App : RowSafe(b)'
  BY <1>2, <1>3, ConsentKept
<1> QED BY <1>4, <1>5, <1>6, <1>7 DEF ConsentInv

LEMMA GateMoves ==
    ASSUME TypeOK, NEW s \in Session, NEW objections \in SUBSET Raised,
           Gate(s, objections)
    PROVE  RunMoves(s)
<1> DEFINE snap == run[s].snap
           waived == IF HumanApproved(snap)
                     THEN objections \cap Waivable ELSE {}
           noted == IF waived = {} THEN snap
                    ELSE [snap EXCEPT !.resume.waiver = waived]
<1>1. /\ snap \in Row /\ run[s].pc # "idle"
      /\ req' = req /\ consent' = consent
  BY DEF TypeOK, RunRecord, Gate, RunOnly
<1>2. noted \in Row /\ noted.mode = snap.mode /\ noted.status = snap.status
  <2>1. waived \in SUBSET Waivable
    OBVIOUS
  <2> QED BY <1>1, <2>1, NotedType DEF Row
<1>3. \E new \in Row, pc \in RunPc :
        /\ Commit(s, new, pc) /\ new.mode = snap.mode
        /\ new.status = snap.status \/ new.status # "absent"
  <2>1. \A st \in {"queued", "pending_review", "failed"} :
          /\ [noted EXCEPT !.status = st] \in Row
          /\ [noted EXCEPT !.status = st].mode = snap.mode
          /\ [noted EXCEPT !.status = st].status # "absent"
    BY <1>2 DEF Row, Status
  <2>2. \/ Commit(s, noted, "cleared")
        \/ Commit(s, [noted EXCEPT !.status = "queued"], "held")
        \/ Commit(s, [noted EXCEPT !.status = "pending_review"], "idle")
        \/ Commit(s, [noted EXCEPT !.status = "failed"], "idle")
    BY DEF Gate
  <2>3. {"cleared", "held", "idle"} \subseteq RunPc
    BY DEF RunPc
  <2> QED BY <1>2, <2>1, <2>2, <2>3
<1> QED BY <1>1, <1>3, CommitMoves

LEMMA RunStepMoves ==
    ASSUME TypeOK, NEW s \in Session, RunStep(s)
    PROVE  RunMoves(s)
<1> DEFINE snap == run[s].snap
<1>1. snap \in Row
  BY DEF TypeOK, RunRecord
<1>2. ASSUME run[s].pc # "idle", NEW st \in Status \ {"absent"}, NEW pc,
             CommitStatus(s, st, pc), RunOnly
      PROVE  RunMoves(s)
  <2>1. /\ [snap EXCEPT !.status = st] \in Row
        /\ [snap EXCEPT !.status = st].mode = snap.mode
        /\ [snap EXCEPT !.status = st].status # "absent"
    BY <1>1 DEF Row
  <2> QED BY <1>2, <2>1, CommitMoves DEF CommitStatus, RunOnly
<1>3. CASE StageForReview(s)
  BY <1>2, <1>3 DEF StageForReview, Status
<1>4. CASE \E objections \in SUBSET Raised : Gate(s, objections)
  BY <1>4, GateMoves
<1>5. CASE Requeue(s)
  BY <1>5, EndMoves DEF Requeue, RunOnly
<1>6. CASE MarkApplying(s) \/ MarkApplied(s)
  BY <1>2, <1>6 DEF MarkApplying, MarkApplied, Status
<1>7. CASE Click(s) \/ Report(s)
  BY <1>7 DEF Click, Report, RunOnly, RunMoves, TypeOK, RunRecord
<1>8. CASE MarkNeedsVerification(s)
  <2>1. /\ [snap EXCEPT !.status = "pending_review",
                        !.resume.blocked = TRUE] \in Row
        /\ [snap EXCEPT !.status = "pending_review",
                        !.resume.blocked = TRUE].mode = snap.mode
        /\ [snap EXCEPT !.status = "pending_review",
                        !.resume.blocked = TRUE].status # "absent"
    BY <1>1, BlockedType DEF Row
  <2> QED BY <1>8, <2>1, CommitMoves
          DEF MarkNeedsVerification, InBrowser, RunOnly
<1>9. CASE ApprovalRequired(s) \/ MarkWaitingForSetup(s) \/ MarkFailed(s)
  BY <1>2, <1>9
     DEF ApprovalRequired, MarkWaitingForSetup, MarkFailed, InBrowser, Status
<1>10. CASE TransientError(s)
  <2>1. CASE End(s) /\ UNCHANGED row
    BY <1>10, <2>1, EndMoves DEF TransientError, RunOnly
  <2>2. CASE ~(End(s) /\ UNCHANGED row)
    BY <1>2, <1>10, <2>2 DEF TransientError, InBrowser, Status
  <2> QED BY <2>1, <2>2
<1> QED
  BY <1>3, <1>4, <1>5, <1>6, <1>7, <1>8, <1>9, <1>10 DEF RunStep

(* What a run that is still at the review guard can do is stage the row.   *)
LEMMA ConsentStage ==
    ASSUME TypeOK, TypeOK', ConsentInv, NEW s \in Session, StageForReview(s)
    PROVE  ConsentInv'
<1>1. PICK a \in App : a = run[s].app
  BY DEF StageForReview, TypeOK, RunRecord
<1>2. /\ run[s].snap \in Row /\ RunSafe(s) /\ RowSafe(a)
      /\ row[a] \in Row /\ row[a].status # "absent"
  BY <1>1 DEF TypeOK, RunRecord, ConsentInv, RunSafe, StageForReview
<1>3. CASE ~Unconsented(a)
  BY <1>1, <1>3, RunStepMoves, ConsentedRun DEF StageForReview, RunStep
<1>4. CASE Unconsented(a)
  <2> DEFINE new == [run[s].snap EXCEPT !.status = "pending_review"]
  <2>1. Commit(s, new, "idle") /\ RunMoves(s)
    BY RunStepMoves DEF StageForReview, CommitStatus, RunStep
  <2>2. row'[a] = row[a] \/ row'[a] = Merge(row[a], run[s].snap, new)
    BY <1>1, <2>1 DEF Commit, TypeOK
  <2>3. /\ row'[a].status = row[a].status \/ row'[a].status = "pending_review"
        /\ row'[a].resume = row[a].resume
    BY <1>2, <2>2 DEF Merge, Row
  <2>4. run'[s].pc = "idle"
    BY <2>1 DEF Commit, End, IdleRun, TypeOK
  <2>5. RunSafe(s)'
    BY <2>4 DEF RunSafe
  <2>6. \A b \in App : RowMoves(b)
    <3>1. ASSUME NEW b \in App PROVE RowMoves(b)
      <4>1. RowSafe(b) /\ consent' = consent
            /\ (b # a => row'[b] = row[b]) /\ row'[a].mode = row[a].mode
        BY <1>1, <2>1 DEF ConsentInv, RunMoves
      <4> QED BY <1>2, <1>4, <2>3, <4>1
              DEF RowMoves, RowSafe, Unconsented, Claimable
    <3> QED BY <3>1
  <2>7. handed' = handed /\ sent' = sent
    BY DEF StageForReview
  <2> QED BY <2>1, <2>5, <2>6, <2>7, ConsentKept DEF ConsentInv, RunMoves
<1> QED BY <1>3, <1>4

(* Every other step of a run is past the guard, hence of a consented row.  *)
LEMMA ConsentRunStep ==
    ASSUME TypeOK, TypeOK', ConsentInv, NEW s \in Session, RunStep(s)
    PROVE  ConsentInv'
<1>1. CASE StageForReview(s)
  BY <1>1, ConsentStage
<1>2. CASE ~StageForReview(s)
  <2>1. /\ run[s].pc # "idle"
        /\ run[s].pc = "loaded" => ~NeedsReview(run[s].snap)
    BY <1>2 DEF RunStep, Gate, Requeue, MarkApplying, Click, Report, InBrowser,
         MarkApplied, MarkNeedsVerification, ApprovalRequired,
         MarkWaitingForSetup, MarkFailed, TransientError
  <2>2. PICK a \in App : a = run[s].app
    BY <2>1 DEF TypeOK, RunRecord
  <2>3. ~Unconsented(a)
    BY <2>1, <2>2
       DEF ConsentInv, RunSafe, NeedsReview, HumanApproved, Unconsented
  <2>4. /\ handed' \subseteq handed \cup {a}
        /\ \A b \in App \ {a} : sent'[b] = sent[b]
    BY <1>2, <2>2
       DEF RunStep, Gate, Requeue, MarkApplying, Click, Report, MarkApplied,
           MarkNeedsVerification, ApprovalRequired, MarkWaitingForSetup,
           MarkFailed, TransientError, TypeOK
  <2> QED BY <2>1, <2>2, <2>3, <2>4, RunStepMoves, ConsentedRun
<1> QED BY <1>1, <1>2

LEMMA ConsentLoad ==
    ASSUME TypeOK, TypeOK', ConsentInv, NEW s \in Session, NEW a \in App,
           NEW try \in 1 .. MaxTries, Load(s, a, try)
    PROVE  ConsentInv'
<1>1. /\ row' = row /\ consent' = consent /\ handed' = handed
      /\ sent' = sent /\ req' = req
      /\ \A x \in Session \ {s} : run'[x] = run[x]
      /\ run'[s] = [pc |-> "loaded", app |-> a, try |-> try, snap |-> row[a]]
  BY DEF Load, RunOnly, TypeOK
<1>2. RunSafe(s)'
  BY <1>1 DEF Load, Runnable, ConsentInv, RowSafe, RunSafe, Unconsented, Claimable
<1> QED BY <1>1, <1>2, RowsStill, ConsentKept DEF ConsentInv

LEMMA ConsentAbort ==
    ASSUME TypeOK, TypeOK', ConsentInv, NEW s \in Session, Abort(s)
    PROVE  ConsentInv'
<1>1. /\ row' = row /\ consent' = consent /\ handed' = handed
      /\ sent' = sent /\ req' = req
      /\ \A x \in Session \ {s} : run'[x] = run[x]
      /\ run'[s].pc = "idle"
  BY DEF Abort, End, IdleRun, RunOnly, TypeOK
<1>2. RunSafe(s)'
  BY <1>1 DEF RunSafe
<1> QED BY <1>1, <1>2, RowsStill, ConsentKept DEF ConsentInv

LEMMA ConsentReturn ==
    ASSUME TypeOK, TypeOK', ConsentInv, NEW S \in SUBSET App, ReturnToOwner(S)
    PROVE  ConsentInv'
<1>1. ASSUME NEW a \in App PROVE RowMoves(a)
  BY DEF ReturnToOwner, Returned, ConsentInv, RowSafe, RowMoves, Unconsented,
         TypeOK, Row, Claimable
<1> QED BY <1>1, ConsentKept DEF ReturnToOwner, ConsentInv

(* A step of the owner changes one request; the runs and what was sent do  *)
(* not change.                                                             *)
LEMMA ConsentOwner ==
    ASSUME TypeOK, TypeOK', ConsentInv, NEW t \in Tab, OwnerOnly,
           \A a \in App : RowMoves(a), ReqSafe(t)',
           \A u \in Tab \ {t} : req'[u] = req[u],
           \A a \in App : a \in handed' => a \in handed \/ ~Unconsented(a)'
    PROVE  ConsentInv'
BY ConsentKept DEF ConsentInv, OwnerOnly

(* A command loads rows that exist and leaves the writing to a later step. *)
LEMMA BeginSafe ==
    ASSUME TypeOK, ConsentInv, NEW t \in Tab,
           NEW op \in {"dispatch", "approve", "update", "resolve", "enqueue"},
           NEW S \in SUBSET App, NEW to, Begin(t, op, S, to),
           row' = row, consent' = consent,
           op = "update" => to # "absent",
           \A a \in S : /\ row[a].status # "absent"
                        /\ op = "enqueue" => row[a].status = "approved"
    PROVE  ReqSafe(t)' /\ \A u \in Tab \ {t} : req'[u] = req[u]
<1>1. /\ req'[t] = [op |-> op, apps |-> S, to |-> to, n |-> acts + 1,
                    snap |-> [a \in App |-> IF a \in S THEN row[a] ELSE NoRow]]
      /\ \A u \in Tab \ {t} : req'[u] = req[u]
  BY DEF Begin, TypeOK
<1>2. \A a \in S : req'[t].snap[a] = row[a] /\ RowSafe(a)
  BY <1>1 DEF ConsentInv
<1> QED BY <1>1, <1>2 DEF ReqSafe, RowSafe, Unconsented

LEMMA ConsentCommand ==
    ASSUME TypeOK, TypeOK', ConsentInv, NEW t \in Tab, OwnerCommand(t)
    PROVE  ConsentInv'
<1>1. ASSUME NEW a \in App, NEW m \in Mode, CreateNew(t, a, m)
      PROVE  ConsentInv'
  <2>1. /\ row[a].status = "absent"
        /\ row'[a] = NewRow(m, InitialStatus(m))
        /\ \A b \in App \ {a} : row'[b] = row[b]
        /\ consent' = consent /\ handed' = handed /\ OwnerOnly
        /\ req'[t].op = "created" /\ req'[t].apps = {a}
        /\ \A u \in Tab \ {t} : req'[u] = req[u]
    BY <1>1 DEF CreateNew, TypeOK
  <2>2. \A b \in App : RowMoves(b)
    BY <2>1 DEF ConsentInv, RowSafe, RowMoves, Unconsented, NewRow, NoResume,
                InitialStatus, Claimable, Mode
  <2>3. ReqSafe(t)'
    BY <2>1 DEF ReqSafe, NewRow, InitialStatus
  <2> QED BY <2>1, <2>2, <2>3, ConsentOwner
<1>2. CASE ~\E a \in App, m \in Mode : CreateNew(t, a, m)
  <2>1. /\ row' = row /\ consent' = consent /\ handed' = handed /\ OwnerOnly
    BY <1>2 DEF OwnerCommand, CreateExisting, ApproveAgain, Approve,
                UpdateStatus, ResolveBlocker
  <2>2. ReqSafe(t)' /\ \A u \in Tab \ {t} : req'[u] = req[u]
    <3>1. ASSUME NEW a \in App, CreateExisting(t, a)
          PROVE  ReqSafe(t)' /\ \A u \in Tab \ {t} : req'[u] = req[u]
      <4>1. row[a].status # "absent" /\ Begin(t, "dispatch", {a}, "absent")
        BY <3>1 DEF CreateExisting, Inactive
      <4> QED BY <2>1, <4>1, BeginSafe
    <3>2. ASSUME NEW a \in App, ApproveAgain(t, a)
          PROVE  ReqSafe(t)' /\ \A u \in Tab \ {t} : req'[u] = req[u]
      BY <2>1, <3>2, BeginSafe DEF ApproveAgain
    <3>3. ASSUME NEW S \in SUBSET App, Approve(t, S)
          PROVE  ReqSafe(t)' /\ \A u \in Tab \ {t} : req'[u] = req[u]
      <4> DEFINE ready == {a \in S : row[a].status \in Approvable}
      <4>1. Begin(t, "approve", ready, "absent") /\ ready \in SUBSET App
        BY <3>3 DEF Approve
      <4>2. \A a \in ready : row[a].status # "absent"
        BY DEF Approvable
      <4> QED BY <2>1, <4>1, <4>2, BeginSafe
    <3>4. ASSUME NEW a \in App, NEW st \in OwnerStatus, UpdateStatus(t, a, st)
          PROVE  ReqSafe(t)' /\ \A u \in Tab \ {t} : req'[u] = req[u]
      BY <2>1, <3>4, BeginSafe, StatusAssumption DEF UpdateStatus
    <3>5. ASSUME NEW a \in App, ResolveBlocker(t, a)
          PROVE  ReqSafe(t)' /\ \A u \in Tab \ {t} : req'[u] = req[u]
      BY <2>1, <3>5, BeginSafe DEF ResolveBlocker
    <3> QED BY <1>2, <3>1, <3>2, <3>3, <3>4, <3>5 DEF OwnerCommand
  <2> QED BY <2>1, <2>2, RowsStill, ConsentOwner
<1> QED BY <1>1, <1>2

LEMMA MergeValues ==
    ASSUME NEW current \in Row, NEW old \in Row, NEW new \in Row
    PROVE  LET r == Merge(current, old, new)
           IN  /\ r.mode = current.mode
               /\ r.status = IF new.status = old.status
                             THEN current.status ELSE new.status
               /\ r.resume = IF new.resume = old.resume
                             THEN current.resume ELSE new.resume
BY DEF Merge, Row

(* The commit of a request: over each of its rows, or not at all.          *)
LEMMA CommitRequestMoves ==
    ASSUME TypeOK, NEW t \in Tab, NEW new \in [App -> Row], NEW op,
           CommitRequest(t, new, op)
    PROVE  /\ \A u \in Tab \ {t} : req'[u] = req[u]
           /\ \/ row' = row /\ req'[t] = NoRequest
              \/ /\ \A a \in App \ req[t].apps : row'[a] = row[a]
                 /\ \A a \in req[t].apps :
                      /\ row'[a].mode = row[a].mode
                      /\ row'[a].status = IF new[a].status = req[t].snap[a].status
                                          THEN row[a].status ELSE new[a].status
                      /\ row'[a].resume = IF new[a].resume = req[t].snap[a].resume
                                          THEN row[a].resume ELSE new[a].resume
                 /\ \/ op = "none" /\ req'[t] = NoRequest
                    \/ op # "none" /\ req'[t] = [req[t] EXCEPT !.op = op]
<1> DEFINE rows == [a \in App |-> IF a \in req[t].apps
                                  THEN Merge(row[a], req[t].snap[a], new[a])
                                  ELSE row[a]]
<1>1. req[t] \in Request
  BY DEF TypeOK
<1>2. CASE ~UniqueActive(rows)
  BY <1>2 DEF CommitRequest, Finish, TypeOK
<1>3. CASE UniqueActive(rows)
  <2>1. row' = rows /\ IF op = "none" THEN Finish(t) ELSE Continue(t, op)
    BY <1>3 DEF CommitRequest
  <2>2. ASSUME NEW a \in req[t].apps
        PROVE  /\ rows[a].mode = row[a].mode
               /\ rows[a].status = IF new[a].status = req[t].snap[a].status
                                   THEN row[a].status ELSE new[a].status
               /\ rows[a].resume = IF new[a].resume = req[t].snap[a].resume
                                   THEN row[a].resume ELSE new[a].resume
    <3>1. a \in App /\ rows[a] = Merge(row[a], req[t].snap[a], new[a])
      BY <1>1, <2>2 DEF Request
    <3>2. row[a] \in Row /\ req[t].snap[a] \in Row
      BY <1>1, <3>1 DEF TypeOK, Request
    <3> QED BY <3>1, <3>2, MergeValues
  <2>3. \A a \in App \ req[t].apps : rows[a] = row[a]
    OBVIOUS
  <2>4. /\ \A u \in Tab \ {t} : req'[u] = req[u]
        /\ \/ op = "none" /\ req'[t] = NoRequest
           \/ op # "none" /\ req'[t] = [req[t] EXCEPT !.op = op]
    BY <2>1 DEF Finish, Continue, TypeOK
  <2> HIDE DEF rows
  <2> QED BY <2>1, <2>2, <2>3, <2>4
<1> QED BY <1>2, <1>3

LEMMA NoRequestSafe ==
    ASSUME NEW t \in Tab, req'[t] = NoRequest
    PROVE  ReqSafe(t)'
BY DEF ReqSafe, NoRequest

(* The owner consents to the rows C; of the others of the request none is  *)
(* enqueued, approved or made claimable.                                   *)
ConsentsTo(C) == \A a \in App : consent'[a] <=> consent[a] \/ a \in C

NewSafe(t, new, op, C) ==
    \A a \in req[t].apps :
      /\ new[a].status # "absent" \/ new[a].status = req[t].snap[a].status
      /\ Unconsented(a) /\ a \notin C =>
           /\ op # "enqueue"
           /\ new[a].status \notin Claimable
           /\ new[a].resume = req[t].snap[a].resume

(* An owner's commit: the rows it consents to are those of its request.    *)
LEMMA ConsentCommit ==
    ASSUME TypeOK, TypeOK', ConsentInv, NEW t \in Tab, OwnerOnly,
           NEW new \in [App -> Row], NEW op \in {"none", "enqueue", "refresh"},
           CommitRequest(t, new, op), handed' = handed,
           req[t].op \in {"dispatch", "approve", "update", "rerun", "resolve"},
           NEW C \in SUBSET req[t].apps,
           ConsentsTo(C), NewSafe(t, new, op, C)
    PROVE  ConsentInv'
<1>1. /\ req[t].apps \in SUBSET App /\ ReqSafe(t)
      /\ \A a \in req[t].apps : row[a].status # "absent"
  BY DEF TypeOK, Request, ConsentInv, ReqSafe
<1>2. \A a \in App : consent'[a] <=> consent[a] \/ a \in C
  BY DEF ConsentsTo
<1>3. ASSUME NEW a \in App \ req[t].apps, row'[a] = row[a]
      PROVE  RowMoves(a)
  <2>1. RowSafe(a) /\ (consent'[a] <=> consent[a])
    BY <1>2 DEF ConsentInv
  <2> QED BY <1>3, <2>1 DEF RowMoves, RowSafe, Unconsented
<1>4. ASSUME NEW a \in req[t].apps, row'[a] = row[a]
      PROVE  RowMoves(a)
  <2>1. RowSafe(a) /\ row[a].status # "absent"
    BY <1>1 DEF ConsentInv
  <2> QED BY <1>1, <1>2, <1>4, <2>1 DEF RowMoves, RowSafe, Unconsented
<1>5. CASE row' = row /\ req'[t] = NoRequest
  <2>1. \A a \in App : RowMoves(a)
    BY <1>3, <1>4, <1>5
  <2> QED BY <1>5, <2>1, CommitRequestMoves, NoRequestSafe, ConsentOwner
<1>6. CASE ~(row' = row /\ req'[t] = NoRequest)
  <2>1. /\ \A a \in App \ req[t].apps : row'[a] = row[a]
        /\ \A a \in req[t].apps :
             /\ row'[a].mode = row[a].mode
             /\ row'[a].status = IF new[a].status = req[t].snap[a].status
                                 THEN row[a].status ELSE new[a].status
             /\ row'[a].resume = IF new[a].resume = req[t].snap[a].resume
                                 THEN row[a].resume ELSE new[a].resume
        /\ \/ op = "none" /\ req'[t] = NoRequest
           \/ op # "none" /\ req'[t] = [req[t] EXCEPT !.op = op]
    BY <1>6, CommitRequestMoves
  <2>2. ASSUME NEW a \in req[t].apps
        PROVE  /\ RowMoves(a)
               /\ row'[a].status # "absent" /\ row'[a].mode = row[a].mode
               /\ Unconsented(a)' => /\ op # "enqueue"
                                     /\ row'[a].status \notin Claimable
    <3>1. RowSafe(a) /\ row[a].status # "absent" /\ a \in App
      BY <1>1, <2>2 DEF ConsentInv
    <3>2. Unconsented(a)' <=> Unconsented(a) /\ a \notin C
      BY <1>2, <2>1, <3>1 DEF Unconsented
    <3>3. row'[a].status # "absent" /\ row'[a].mode = row[a].mode
      BY <2>1, <2>2, <3>1 DEF NewSafe
    <3>4. Unconsented(a)' => /\ row'[a].resume = row[a].resume
                             /\ row[a].resume.approved = 0
                             /\ op # "enqueue"
                             /\ row'[a].status \notin Claimable
      BY <1>1, <2>1, <2>2, <3>1, <3>2
         DEF NewSafe, ReqSafe, RowSafe, Unconsented, Claimable
    <3> QED BY <1>2, <3>1, <3>2, <3>3, <3>4 DEF RowMoves
  <2>3. \A a \in App : RowMoves(a)
    BY <1>3, <2>1, <2>2
  <2>4. ReqSafe(t)'
    <3>1. CASE req'[t] = NoRequest
      BY <3>1, NoRequestSafe
    <3>2. CASE op \in {"enqueue", "refresh"} /\ req'[t] = [req[t] EXCEPT !.op = op]
      <4>1. /\ req'[t].op = op /\ req'[t].apps = req[t].apps
            /\ req'[t].snap = req[t].snap
        BY <3>2 DEF TypeOK, Request
      <4>2. \A a \in req[t].apps : req[t].snap[a].mode = row[a].mode
        BY <1>1 DEF ReqSafe
      <4> QED BY <2>2, <3>2, <4>1, <4>2 DEF ReqSafe, Claimable
    <3> QED BY <2>1, <3>1, <3>2
  <2> QED BY <2>3, <2>4, CommitRequestMoves, ConsentOwner
<1> QED BY <1>5, <1>6

LEMMA RereadMoves ==
    ASSUME TypeOK, NEW t \in Tab, NEW op, Reread(t, op)
    PROVE  /\ req'[t].op = op /\ req'[t].apps = req[t].apps
           /\ req'[t].snap = [a \in App |-> IF a \in req[t].apps
                                            THEN row[a] ELSE NoRow]
           /\ \A u \in Tab \ {t} : req'[u] = req[u]
<1> DEFINE snap == [a \in App |-> IF a \in req[t].apps THEN row[a] ELSE NoRow]
           r == [req[t] EXCEPT !.op = op, !.snap = snap]
<1>1. req' = [req EXCEPT ![t] = r] /\ req[t] \in Request
  BY DEF Reread, TypeOK
<1> HIDE DEF snap
<1>2. r.op = op /\ r.apps = req[t].apps /\ r.snap = snap
  BY <1>1 DEF Request
<1> HIDE DEF r
<1> QED BY <1>1, <1>2 DEF TypeOK, snap

LEMMA ConsentRequestStep ==
    ASSUME TypeOK, TypeOK', ConsentInv, NEW t \in Tab, RequestStep(t)
    PROVE  ConsentInv'
<1>1. req[t] \in Request /\ ReqSafe(t) /\ req[t].apps \in SUBSET App
  BY DEF TypeOK, Request, ConsentInv
<1>2. \A a \in req[t].apps :
        /\ RowSafe(a) /\ row[a].status # "absent" /\ req[t].snap[a] \in Row
        /\ req[t].op # "created" => req[t].snap[a].mode = row[a].mode
  BY <1>1 DEF ConsentInv, ReqSafe, Request
<1>3. (OwnerOnly /\ UNCHANGED <<consent>>)
      => ConsentsTo({})
  BY DEF ConsentsTo
<1>4. CASE Refresh(t)
  <2>1. /\ row' = row /\ consent' = consent /\ handed' = handed /\ OwnerOnly
        /\ req'[t].op = "dispatch" /\ req'[t].apps = req[t].apps
        /\ req'[t].snap = [a \in App |-> IF a \in req[t].apps
                                         THEN row[a] ELSE NoRow]
        /\ \A u \in Tab \ {t} : req'[u] = req[u]
    BY <1>4, RereadMoves DEF Refresh
  <2>2. ReqSafe(t)'
    BY <1>1, <1>2, <2>1 DEF ReqSafe, Unconsented
  <2> QED BY <2>1, <2>2, RowsStill, ConsentOwner
<1>5. CASE Rerun(t)
  <2>1. /\ row' = row /\ consent' = consent /\ handed' = handed /\ OwnerOnly
        /\ \A u \in Tab \ {t} : req'[u] = req[u]
    BY <1>5 DEF Rerun, Reread, Finish, TypeOK
  <2>2. CASE \A a \in req[t].apps : row[a].status \in Claimable
    <3>1. /\ req[t].op = "refresh"
          /\ req'[t].op = "rerun" /\ req'[t].apps = req[t].apps
          /\ req'[t].snap = [a \in App |-> IF a \in req[t].apps
                                           THEN row[a] ELSE NoRow]
      BY <1>5, <2>2, RereadMoves DEF Rerun
    <3>2. ReqSafe(t)'
      BY <1>1, <1>2, <2>1, <2>2, <3>1 DEF ReqSafe, Unconsented
    <3> QED BY <2>1, <3>2, RowsStill, ConsentOwner
  <2>3. CASE ~\A a \in req[t].apps : row[a].status \in Claimable
    <3>1. req'[t] = NoRequest
      BY <1>5, <2>3 DEF Rerun, Finish, TypeOK
    <3> QED BY <2>1, <3>1, NoRequestSafe, RowsStill, ConsentOwner
  <2> QED BY <2>2, <2>3
<1>6. CASE Enqueue(t)
  <2>1. /\ row' = row /\ consent' = consent /\ OwnerOnly
        /\ handed' \subseteq handed \cup req[t].apps
        /\ req[t].op = "enqueue" /\ req'[t] = NoRequest
        /\ \A u \in Tab \ {t} : req'[u] = req[u]
    BY <1>6 DEF Enqueue, Finish, TypeOK
  <2>2. \A a \in req[t].apps : ~Unconsented(a)'
    BY <1>1, <2>1 DEF ReqSafe, Unconsented
  <2> QED BY <2>1, <2>2, NoRequestSafe, RowsStill, ConsentOwner
<1>7. CASE DispatchForMode(t)
  <2> DEFINE new == [a \in App |-> [req[t].snap[a] EXCEPT
                                !.status = InitialStatus(req[t].snap[a].mode)]]
             op == IF \A a \in req[t].apps : req[t].snap[a].mode = "autonomous"
                   THEN "enqueue" ELSE "none"
  <2>1. /\ CommitRequest(t, new, op) /\ req[t].op = "dispatch"
        /\ OwnerOnly /\ handed' = handed /\ consent' = consent
    BY <1>7 DEF DispatchForMode
  <2>2. new \in [App -> Row]
    BY <1>1 DEF Request, Row, Status, InitialStatus
  <2>3. \A a \in req[t].apps :
          /\ new[a].status = InitialStatus(row[a].mode)
          /\ new[a].resume = req[t].snap[a].resume
          /\ op = "enqueue" => row[a].mode = "autonomous"
    BY <1>1, <1>2, <2>1 DEF Request, Row
  <2>4. op \in {"none", "enqueue", "refresh"}
    OBVIOUS
  <2> DEFINE C == {}
  <2>5. /\ C \subseteq req[t].apps
        /\ ConsentsTo(C)
    BY <1>3, <2>1
  <2> HIDE DEF new, op
  <2>6. NewSafe(t, new, op, C)
    BY <2>3 DEF InitialStatus, Claimable, NewSafe, Unconsented

  <2> HIDE DEF C
  <2> QED BY <2>1, <2>2, <2>4, <2>5, <2>6, ConsentCommit
<1>8. CASE CommitApproval(t) \/ CommitResolve(t)
  <2>1. PICK st \in {"approved", "queued"} :
          /\ CommitRequest(t, [a \in App |-> [req[t].snap[a] EXCEPT
                                 !.status = st,
                                 !.resume = MarkApproved(@, req[t].n)]], "enqueue")
          /\ Consent(req[t].apps) /\ OwnerOnly /\ handed' = handed
          /\ req[t].op \in {"approve", "resolve"}
    BY <1>8 DEF CommitApproval, CommitResolve
  <2> DEFINE new == [a \in App |-> [req[t].snap[a] EXCEPT
                                 !.status = st,
                                 !.resume = MarkApproved(@, req[t].n)]]
  <2>2. new \in [App -> Row]
    BY <1>1, MarkApprovedType DEF Request, Row, Status
  <2> DEFINE C == req[t].apps
  <2>3. NewSafe(t, new, "enqueue", C)
    BY <1>1 DEF Request, Row, NewSafe, Unconsented

  <2>4. /\ CommitRequest(t, new, "enqueue") /\ C \subseteq req[t].apps
        /\ ConsentsTo(C)
    BY <2>1 DEF Consent, ConsentsTo, TypeOK
  <2> HIDE DEF new, C
  <2> QED BY <2>1, <2>2, <2>3, <2>4, ConsentCommit
<1>9. CASE CommitUpdate(t)
  <2> DEFINE new == [a \in App |-> [req[t].snap[a] EXCEPT !.status = req[t].to]]
             C == IF req[t].to \in Claimable THEN req[t].apps ELSE {}
  <2>1. /\ CommitRequest(t, new, "refresh") /\ req[t].op = "update"
        /\ OwnerOnly /\ handed' = handed
        /\ ConsentsTo(C)
    BY <1>9 DEF CommitUpdate, Consent, ConsentsTo, TypeOK
  <2>2. req[t].to # "absent" /\ req[t].to \in Status
    BY <1>1, <2>1, StatusAssumption DEF ReqSafe, Request
  <2>3. new \in [App -> Row]
    BY <1>1, <2>2 DEF Request, Row
  <2>4. \A a \in req[t].apps : /\ new[a].status = req[t].to
                              /\ new[a].resume = req[t].snap[a].resume
    BY <1>1 DEF Request, Row
  <2>5. C \subseteq req[t].apps /\ (req[t].to \in Claimable => C = req[t].apps)
    OBVIOUS
  <2>6. NewSafe(t, new, "refresh", C)
    BY <2>2, <2>4, <2>5 DEF NewSafe, Unconsented

  <2> HIDE DEF new, C
  <2> QED BY <2>1, <2>3, <2>5, <2>6, ConsentCommit
<1>10. CASE MarkRerun(t)
  <2> DEFINE new == [a \in App |-> [req[t].snap[a] EXCEPT
                                 !.resume = MarkApproved(@, req[t].n)]]
  <2>1. /\ CommitRequest(t, new, "enqueue") /\ req[t].op = "rerun"
        /\ OwnerOnly /\ handed' = handed /\ consent' = consent
    BY <1>10 DEF MarkRerun
  <2>2. new \in [App -> Row]
    BY <1>1, MarkApprovedType DEF Request, Row
  <2>3. \A a \in req[t].apps : new[a].status = req[t].snap[a].status
    BY <1>1 DEF Request, Row
  <2>4. \A a \in req[t].apps : ~Unconsented(a)
    BY <1>1, <2>1 DEF ReqSafe
  <2> DEFINE C == {}
  <2>5. /\ C \subseteq req[t].apps
        /\ ConsentsTo(C)
    BY <1>3, <2>1
  <2>6. NewSafe(t, new, "enqueue", C)
    BY <2>3, <2>4 DEF NewSafe, Unconsented

  <2> HIDE DEF new, C
  <2> QED BY <2>1, <2>2, <2>5, <2>6, ConsentCommit
<1> QED BY <1>4, <1>5, <1>6, <1>7, <1>8, <1>9, <1>10 DEF RequestStep

LEMMA ConsentNext ==
    ASSUME TypeOK, TypeOK', ConsentInv, [Next]_vars
    PROVE  ConsentInv'
<1>1. CASE UNCHANGED vars
  <2>1. UNCHANGED <<row, run, req, handed, consent, sent>>
    BY <1>1 DEF vars
  <2> QED BY <2>1, RowsStill, ConsentKept DEF ConsentInv
<1>2. CASE TogglePause
  BY <1>2, RowsStill, ConsentKept DEF TogglePause, OwnerOnly, ConsentInv
<1> QED BY <1>1, <1>2, ConsentLoad, ConsentRunStep, ConsentAbort, ConsentReturn,
           ConsentCommand, ConsentRequestStep DEF Next, OwnerStep

(* In review mode nothing leaves without the owner's approval: whatever    *)
(* the dispatcher, however many runs and requests interleave on stale      *)
(* rows, no run of an unapproved row gets past the review guard of _apply. *)
THEOREM ConsentNeeded == Spec => []ReviewNeedsConsent
<1>1. Init => ConsentInv
  BY ConsentInit
<1>2. TypeOK /\ TypeOK' /\ ConsentInv /\ [Next]_vars => ConsentInv'
  BY ConsentNext
<1>3. TypeOK /\ ConsentInv => ReviewNeedsConsent
  BY DEF ConsentInv, RowSafe, RunSafe, Unconsented, ReviewNeedsConsent,
         PastGuard, TypeOK, RunRecord
<1> QED BY <1>1, <1>2, <1>3, TypeCorrect, PTL DEF Spec

-----------------------------------------------------------------------------
(* Approvals.  A request that approves dates the approval by the number of *)
(* its command, which is never 0: 0 stands for a row that nobody approved. *)
Dated == \A t \in Tab : req[t].op # "none" => req[t].n > 0

Sticks(a) ==
    row[a].resume.approved > 0 /\ row'[a].resume.approved = 0 =>
      \E s \in Session : InPipeline(s, a) /\ run[s].snap.resume.approved = 0

LEMMA DatedInit == Init => Dated
BY DEF Init, Dated, NoRequest

LEMMA DatedRequest ==
    ASSUME TypeOK, NEW t \in Tab, OwnerCommand(t) \/ RequestStep(t)
    PROVE  /\ \A u \in Tab \ {t} : req'[u] = req[u]
           /\ req'[t].op # "none" =>
                req'[t].n > 0 \/ (req[t].op # "none" /\ req'[t].n = req[t].n)
<1>1. acts \in Nat /\ req \in [Tab -> Request] /\ req[t] \in Request
  BY DEF TypeOK
<1>2. ASSUME NEW op, NEW S, NEW to, Begin(t, op, S, to)
      PROVE  req'[t].n > 0 /\ \A u \in Tab \ {t} : req'[u] = req[u]
  BY <1>1, <1>2 DEF Begin
<1>3. ASSUME Finish(t)
      PROVE  req'[t].op = "none" /\ \A u \in Tab \ {t} : req'[u] = req[u]
  BY <1>1, <1>3 DEF Finish, NoRequest
<1>4. ASSUME NEW op, Continue(t, op)
      PROVE  req'[t].n = req[t].n /\ \A u \in Tab \ {t} : req'[u] = req[u]
  BY <1>1, <1>4 DEF Continue, Request
<1>5. ASSUME NEW op, Reread(t, op)
      PROVE  req'[t].n = req[t].n /\ \A u \in Tab \ {t} : req'[u] = req[u]
  <2> DEFINE snap == [a \in App |-> IF a \in req[t].apps THEN row[a] ELSE NoRow]
             r == [req[t] EXCEPT !.op = op, !.snap = snap]
  <2>1. req' = [req EXCEPT ![t] = r]
    BY <1>5 DEF Reread
  <2> HIDE DEF snap
  <2>2. r.n = req[t].n
    BY <1>1 DEF Request
  <2> HIDE DEF r
  <2> QED BY <1>1, <2>1, <2>2
<1>6. ASSUME NEW new, NEW op, CommitRequest(t, new, op), req[t].op # "none"
      PROVE  /\ \A u \in Tab \ {t} : req'[u] = req[u]
             /\ req'[t].op # "none" => req'[t].n = req[t].n
  BY <1>3, <1>4, <1>6 DEF CommitRequest
<1>7. CASE \E a \in App, m \in Mode : CreateNew(t, a, m)
  BY <1>1, <1>7 DEF CreateNew
<1>8. CASE \/ \E a \in App : CreateExisting(t, a) \/ ApproveAgain(t, a) \/ ResolveBlocker(t, a)
           \/ \E S \in SUBSET App : Approve(t, S)
           \/ \E a \in App, st \in OwnerStatus : UpdateStatus(t, a, st)
  BY <1>2, <1>8 DEF CreateExisting, ApproveAgain, ResolveBlocker, Approve, UpdateStatus
<1>9. CASE Refresh(t) \/ Rerun(t) \/ Enqueue(t)
  BY <1>3, <1>5, <1>9 DEF Refresh, Rerun, Enqueue
<1>10. CASE DispatchForMode(t) \/ CommitApproval(t) \/ CommitUpdate(t) \/ MarkRerun(t)
            \/ CommitResolve(t)
  BY <1>6, <1>10 DEF DispatchForMode, CommitApproval, CommitUpdate, MarkRerun, CommitResolve
<1> QED BY <1>7, <1>8, <1>9, <1>10 DEF OwnerCommand, RequestStep

LEMMA DatedNext == TypeOK /\ Dated /\ [Next]_vars => Dated'
<1> SUFFICES ASSUME TypeOK, Dated, [Next]_vars PROVE Dated'
  OBVIOUS
<1>1. CASE \E t \in Tab : OwnerCommand(t) \/ RequestStep(t)
  BY <1>1, DatedRequest DEF Dated
<1>2. CASE req' = req
  BY <1>2 DEF Dated
<1>3. CASE \E s \in Session : RunStep(s)
  <2>1. PICK s \in Session : RunStep(s)
    BY <1>3
  <2> QED BY <1>2, <2>1, RunStepMoves DEF RunMoves
<1> QED BY <1>1, <1>2, <1>3
        DEF Next, vars, OwnerStep, TogglePause, Load, Abort, ReturnToOwner, RunOnly

(* A run writes the approval it loaded.                                    *)
LEMMA CommitSticks ==
    ASSUME TypeOK, NEW s \in Session, run[s].pc # "idle",
           NEW new \in Row, NEW pc, Commit(s, new, pc),
           new.resume.approved = run[s].snap.resume.approved
    PROVE  \A a \in App : Sticks(a)
<1>1. run[s].app \in App /\ run[s].snap \in Row
  BY DEF TypeOK, RunRecord
<1>2. CASE row' = row
  BY <1>2 DEF Sticks
<1>3. CASE row' = [row EXCEPT ![run[s].app] = Merge(@, run[s].snap, new)]
  <2>1. /\ row'[run[s].app].resume = IF new.resume = run[s].snap.resume
                                     THEN row[run[s].app].resume ELSE new.resume
        /\ \A b \in App \ {run[s].app} : row'[b] = row[b]
    BY <1>1, <1>3, MergeValues DEF TypeOK
  <2> QED BY <1>1, <2>1 DEF Sticks, InPipeline
<1> QED BY <1>2, <1>3 DEF Commit

LEMMA RunSticks ==
    ASSUME TypeOK, NEW s \in Session, RunStep(s)
    PROVE  \A a \in App : Sticks(a)
<1> DEFINE snap == run[s].snap
<1>1. snap \in Row
  BY DEF TypeOK, RunRecord
<1>2. ASSUME run[s].pc # "idle", NEW st \in Status, NEW pc, CommitStatus(s, st, pc)
      PROVE  \A a \in App : Sticks(a)
  <2>1. [snap EXCEPT !.status = st] \in Row /\ [snap EXCEPT !.status = st].resume = snap.resume
    BY <1>1 DEF Row
  <2> QED BY <1>2, <2>1, CommitSticks DEF CommitStatus
<1>3. CASE StageForReview(s)
  BY <1>2, <1>3 DEF StageForReview, Status
<1>4. ASSUME NEW objections \in SUBSET Raised, Gate(s, objections)
      PROVE  \A a \in App : Sticks(a)
  <2> DEFINE waived == IF HumanApproved(snap) THEN objections \cap Waivable ELSE {}
             noted == IF waived = {} THEN snap ELSE [snap EXCEPT !.resume.waiver = waived]
  <2>1. noted \in Row /\ noted.resume.approved = snap.resume.approved
    <3>1. waived \in SUBSET Waivable
      OBVIOUS
    <3> QED BY <1>1, <3>1, NotedType DEF Row, Resume
  <2>2. \A st \in {"queued", "pending_review", "failed"} :
          /\ [noted EXCEPT !.status = st] \in Row
          /\ [noted EXCEPT !.status = st].resume = noted.resume
    BY <2>1 DEF Row, Status
  <2>3. \E new \in Row, pc \in RunPc :
          /\ Commit(s, new, pc)
          /\ new.resume.approved = snap.resume.approved
    <3>1. \/ Commit(s, noted, "cleared")
          \/ Commit(s, [noted EXCEPT !.status = "queued"], "held")
          \/ Commit(s, [noted EXCEPT !.status = "pending_review"], "idle")
          \/ Commit(s, [noted EXCEPT !.status = "failed"], "idle")
      BY <1>4 DEF Gate
    <3> HIDE DEF noted
    <3> QED BY <2>1, <2>2, <3>1 DEF RunPc
  <2>4. run[s].pc # "idle"
    BY <1>4 DEF Gate
  <2> QED BY <2>3, <2>4, CommitSticks
<1>5. CASE row' = row
  BY <1>5 DEF Sticks
<1>6. CASE Requeue(s) \/ Click(s) \/ Report(s)
  BY <1>5, <1>6 DEF Requeue, Click, Report
<1>7. CASE MarkApplying(s) \/ MarkApplied(s)
  BY <1>2, <1>7 DEF MarkApplying, MarkApplied, Status
<1>8. CASE MarkNeedsVerification(s)
  <2> DEFINE new == [snap EXCEPT !.status = "pending_review", !.resume.blocked = TRUE]
  <2>1. new \in Row /\ new.resume.approved = snap.resume.approved
    BY <1>1, BlockedType DEF Row, Resume
  <2> QED BY <1>8, <2>1, CommitSticks DEF MarkNeedsVerification, InBrowser
<1>9. CASE ApprovalRequired(s) \/ MarkWaitingForSetup(s) \/ MarkFailed(s)
  BY <1>2, <1>9 DEF ApprovalRequired, MarkWaitingForSetup, MarkFailed, InBrowser, Status
<1>10. CASE TransientError(s)
  BY <1>2, <1>5, <1>10 DEF TransientError, InBrowser, Status
<1> QED BY <1>3, <1>4, <1>6, <1>7, <1>8, <1>9, <1>10 DEF RunStep

(* A request keeps the approval of a row, or gives a later one.            *)
LEMMA RequestSticks ==
    ASSUME TypeOK, ConsentInv, Dated, NEW t \in Tab, OwnerCommand(t) \/ RequestStep(t)
    PROVE  \A a \in App : Sticks(a)
<1>1. req[t] \in Request /\ req[t].apps \in SUBSET App
  BY DEF TypeOK, Request
<1>2. CASE row' = row
  BY <1>2 DEF Sticks
<1>3. ASSUME NEW new \in [App -> Row], NEW op, CommitRequest(t, new, op),
             \A a \in req[t].apps : \/ new[a].resume = req[t].snap[a].resume
                                    \/ new[a].resume.approved > 0
      PROVE  \A a \in App : Sticks(a)
  <2>1. CASE row' = row
    BY <1>2, <2>1
  <2>2. CASE row' # row
    <3>1. /\ \A a \in App \ req[t].apps : row'[a] = row[a]
          /\ \A a \in req[t].apps :
               row'[a].resume = IF new[a].resume = req[t].snap[a].resume
                                THEN row[a].resume ELSE new[a].resume
      <4>1. \/ row' = row /\ req'[t] = NoRequest
            \/ /\ \A a \in App \ req[t].apps : row'[a] = row[a]
               /\ \A a \in req[t].apps :
                    /\ row'[a].mode = row[a].mode
                    /\ row'[a].status = IF new[a].status = req[t].snap[a].status
                                        THEN row[a].status ELSE new[a].status
                    /\ row'[a].resume = IF new[a].resume = req[t].snap[a].resume
                                        THEN row[a].resume ELSE new[a].resume
               /\ \/ op = "none" /\ req'[t] = NoRequest
                  \/ op # "none" /\ req'[t] = [req[t] EXCEPT !.op = op]
        BY <1>3, CommitRequestMoves
      <4> QED BY <2>2, <4>1
    <3> QED BY <1>3, <3>1 DEF Sticks
  <2> QED BY <2>1, <2>2
<1>4. ASSUME NEW a \in App, NEW m \in Mode, CreateNew(t, a, m)
      PROVE  \A b \in App : Sticks(b)
  <2>1. /\ row[a].status = "absent" /\ \A b \in App \ {a} : row'[b] = row[b]
    BY <1>4 DEF CreateNew, TypeOK
  <2>2. row[a].resume.approved = 0
    BY <2>1 DEF ConsentInv, RowSafe
  <2> QED BY <2>1, <2>2 DEF Sticks
<1>5. CASE \/ \E a \in App : CreateExisting(t, a) \/ ApproveAgain(t, a) \/ ResolveBlocker(t, a)
           \/ \E S \in SUBSET App : Approve(t, S)
           \/ \E a \in App, st \in OwnerStatus : UpdateStatus(t, a, st)
           \/ Refresh(t) \/ Rerun(t) \/ Enqueue(t)
  BY <1>2, <1>5 DEF CreateExisting, ApproveAgain, ResolveBlocker, Approve, UpdateStatus,
                    Refresh, Rerun, Enqueue
<1>6. CASE DispatchForMode(t)
  <2> DEFINE new == [a \in App |-> [req[t].snap[a] EXCEPT
                                !.status = InitialStatus(req[t].snap[a].mode)]]
             op == IF \A a \in req[t].apps : req[t].snap[a].mode = "autonomous"
                   THEN "enqueue" ELSE "none"
  <2>1. CommitRequest(t, new, op)
    BY <1>6 DEF DispatchForMode
  <2>2. new \in [App -> Row] /\ \A a \in App : new[a].resume = req[t].snap[a].resume
    BY <1>1 DEF Request, Row, Status, InitialStatus
  <2> HIDE DEF new, op
  <2> QED BY <1>1, <1>3, <2>1, <2>2
<1>7. CASE CommitUpdate(t)
  <2> DEFINE new == [a \in App |-> [req[t].snap[a] EXCEPT !.status = req[t].to]]
  <2>1. CommitRequest(t, new, "refresh") /\ req[t].op = "update"
    BY <1>7 DEF CommitUpdate
  <2>2. req[t].to \in Status
    BY <1>1, StatusAssumption DEF Request, Status
  <2>3. new \in [App -> Row] /\ \A a \in App : new[a].resume = req[t].snap[a].resume
    BY <1>1, <2>2 DEF Request, Row
  <2> HIDE DEF new
  <2> QED BY <1>1, <1>3, <2>1, <2>3
<1>8. CASE CommitApproval(t) \/ CommitResolve(t) \/ MarkRerun(t)
  <2>1. PICK to \in [App -> Status] :
          CommitRequest(t, [a \in App |-> [req[t].snap[a] EXCEPT
                                 !.status = to[a],
                                 !.resume = MarkApproved(@, req[t].n)]], "enqueue")
    <3>1. CASE CommitApproval(t)
      <4> DEFINE to == [a \in App |-> "approved"]
      <4>1. to \in [App -> Status]
        BY DEF Status
      <4>2. CommitRequest(t, [a \in App |-> [req[t].snap[a] EXCEPT
                                 !.status = to[a],
                                 !.resume = MarkApproved(@, req[t].n)]], "enqueue")
        BY <3>1 DEF CommitApproval
      <4> HIDE DEF to
      <4> QED BY <4>1, <4>2
    <3>2. CASE CommitResolve(t)
      <4> DEFINE to == [a \in App |-> "queued"]
      <4>1. to \in [App -> Status]
        BY DEF Status
      <4>2. CommitRequest(t, [a \in App |-> [req[t].snap[a] EXCEPT
                                 !.status = to[a],
                                 !.resume = MarkApproved(@, req[t].n)]], "enqueue")
        BY <3>2 DEF CommitResolve
      <4> HIDE DEF to
      <4> QED BY <4>1, <4>2
    <3>3. CASE MarkRerun(t)
      <4> DEFINE to == [a \in App |-> req[t].snap[a].status]
                 kept == [a \in App |-> [req[t].snap[a] EXCEPT
                                 !.resume = MarkApproved(@, req[t].n)]]
                 new == [a \in App |-> [req[t].snap[a] EXCEPT
                                 !.status = to[a],
                                 !.resume = MarkApproved(@, req[t].n)]]
      <4>1. to \in [App -> Status] /\ new = kept
        BY <1>1 DEF Request, Row
      <4>2. CommitRequest(t, new, "enqueue")
        BY <3>3, <4>1 DEF MarkRerun
      <4> HIDE DEF to
      <4> QED BY <4>1, <4>2
    <3> QED BY <1>8, <3>1, <3>2, <3>3
  <2> DEFINE new == [a \in App |-> [req[t].snap[a] EXCEPT
                                 !.status = to[a],
                                 !.resume = MarkApproved(@, req[t].n)]]
  <2>2. req[t].n > 0 /\ req[t].n \in Nat
    BY <1>1, <1>8 DEF CommitApproval, CommitResolve, MarkRerun, Dated, Request
  <2>3. \A a \in App : /\ MarkApproved(req[t].snap[a].resume, req[t].n) \in Resume
                       /\ MarkApproved(req[t].snap[a].resume, req[t].n).approved = req[t].n
    BY <1>1, <2>2 DEF MarkApproved, Request, Row, Resume
  <2>4. new \in [App -> Row]
    BY <1>1, <2>3 DEF Request, Row
  <2>5. \A a \in App : new[a].resume = MarkApproved(req[t].snap[a].resume, req[t].n)
    BY <1>1 DEF Request, Row
  <2> HIDE DEF new
  <2>6. CommitRequest(t, new, "enqueue")
    BY <2>1 DEF new
  <2> QED BY <1>1, <1>3, <2>2, <2>3, <2>4, <2>5, <2>6
<1> QED BY <1>4, <1>5, <1>6, <1>7, <1>8 DEF OwnerCommand, RequestStep

LEMMA StepSticks ==
    ASSUME TypeOK, ConsentInv, Dated, [Next]_vars
    PROVE  \A a \in App : Sticks(a)
<1>1. CASE row' = row
  BY <1>1 DEF Sticks
<1>2. ASSUME NEW S \in SUBSET App, ReturnToOwner(S)
      PROVE  \A a \in App : Sticks(a)
  <2>1. \A a \in App : row'[a].resume = row[a].resume
    BY <1>2 DEF ReturnToOwner, Returned, TypeOK, Row
  <2> QED BY <2>1 DEF Sticks
<1> QED BY <1>1, <1>2, RunSticks, RequestSticks
        DEF Next, vars, OwnerStep, TogglePause, Load, Abort

(* An approval sticks (services/approval.py:9-11).  However many runs and  *)
(* requests write resume_state as a whole, a row loses its approval only   *)
(* to a run that had loaded the row before the approval was given.         *)
THEOREM ApprovalsStick == Spec => ApprovalSticks
<1>1. TypeOK /\ ConsentInv /\ Dated /\ [Next]_vars =>
        [\A a \in App :
           row[a].resume.approved > 0 /\ row'[a].resume.approved = 0 =>
             \E s \in Session :
               InPipeline(s, a) /\ run[s].snap.resume.approved = 0]_vars
  BY StepSticks DEF Sticks
<1>2. TypeOK /\ TypeOK' /\ ConsentInv /\ [Next]_vars => ConsentInv'
  BY ConsentNext
<1> QED BY <1>1, <1>2, ConsentInit, DatedInit, DatedNext, TypeCorrect, PTL
        DEF Spec, ApprovalSticks
=============================================================================
