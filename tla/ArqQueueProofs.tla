--------------------------- MODULE ArqQueueProofs ---------------------------
(***************************************************************************)
(* Theorems about the apply pipeline behind the Redis queue, for every set *)
(* of rows, worker slots and requests: the slots and their jobs agree, the *)
(* deployment implements the pipeline under an arbitrary dispatcher, and   *)
(* no application that was handed over is forgotten.                       *)
(***************************************************************************)
EXTENDS ArqQueue, ApplyPipelineProofs

(* The jobs and slots are not well-formed by themselves: two slots must    *)
(* not share a job, and a retry must be of a row that was handed over.     *)
SlotsApart ==
    \A s, u \in Session : s # u /\ serving[s] # NoJob => serving[s] # serving[u]

JobsHanded ==
    /\ \A a \in App, j \in JobId : job[a][j].state # "none" => a \in handed
    /\ \A s \in Session : serving[s] # NoJob => Served(s) \in handed

ArqInv == ArqTypeOK /\ SlotsApart /\ JobsHanded

JobTable == [App -> [JobId -> JobRecord]]

LEMMA ServingType ==
    ASSUME ArqTypeOK, NEW s \in Session, serving[s] # NoJob
    PROVE  /\ Served(s) \in App /\ serving[s][2] \in JobId
           /\ serving[s] = <<Served(s), serving[s][2]>>
           /\ run[s].pc # "idle" /\ run[s].app = Served(s)
           /\ JobOn(s).state = "running"
BY DEF ArqTypeOK, Served

LEMMA NewJobType == NewJob \in JobRecord
BY BoundAssumption DEF NewJob, JobRecord

(* The end of a job leaves the state of every other job as it is.          *)
LEMMA EndJobType ==
    ASSUME job \in JobTable, NEW a \in App, NEW j \in JobId
    PROVE  /\ EndJob(a, j) \in JobTable
           /\ \A b \in App, i \in JobId :
                EndJob(a, j)[b][i].state =
                  IF b = a /\ i = j THEN After(j) ELSE job[b][i].state
<1> DEFINE ends == [i \in JobId |->
             IF i = j THEN [NewJob EXCEPT !.state = After(j)]
             ELSE [job[a][i] EXCEPT
                     !.older = job[a][i].older \/ (j = DefaultId /\ job[a][i].state = "deferred")]]
<1>1. EndJob(a, j) = [job EXCEPT ![a] = ends]
  BY DEF EndJob
<1>2. [NewJob EXCEPT !.state = After(j)] \in JobRecord
      /\ [NewJob EXCEPT !.state = After(j)].state = After(j)
  BY NewJobType DEF NewJob, After, JobRecord
<1>3. ASSUME NEW i \in JobId
      PROVE  /\ [job[a][i] EXCEPT !.older = job[a][i].older \/ (j = DefaultId /\ job[a][i].state = "deferred")]
                  \in JobRecord
             /\ [job[a][i] EXCEPT !.older = job[a][i].older \/ (j = DefaultId /\ job[a][i].state = "deferred")].state
                  = job[a][i].state
  <2>1. job[a][i] \in JobRecord
    BY DEF JobTable
  <2> QED BY <2>1 DEF JobRecord
<1>4. /\ ends \in [JobId -> JobRecord]
      /\ \A i \in JobId : ends[i].state = IF i = j THEN After(j) ELSE job[a][i].state
  BY <1>2, <1>3
<1> HIDE DEF ends
<1> QED BY <1>1, <1>4 DEF JobTable

(* What a step may do to the jobs of the slots it does not free: the jobs  *)
(* in `keep` that run go on running, and every job is of a row handed over.*)
JobsKept(freed) ==
    /\ job' \in JobTable
    /\ \A a \in App, j \in JobId :
         /\ <<a, j>> \notin freed /\ job[a][j].state = "running"
              => job'[a][j].state = "running"
         /\ job'[a][j].state # "none" => a \in handed'

LEMMA SameJobs ==
    ASSUME ArqInv, job' = job, handed \subseteq handed'
    PROVE  JobsKept({})
BY DEF ArqInv, ArqTypeOK, JobsHanded, JobsKept, JobTable

(* A step of the owner, of time or of a job that no slot serves.           *)
LEMMA SlotsStay ==
    ASSUME ArqInv, TypeOK', JobsKept({}), handed \subseteq handed',
           run' = run, serving' = serving,
           faults' \in Nat, lost' \in SUBSET App
    PROVE  ArqInv'
<1>1. ASSUME NEW s \in Session
      PROVE  /\ serving'[s] = NoJob <=> run'[s].pc = "idle"
             /\ serving'[s] # NoJob =>
                  /\ run'[s].app = Served(s)' /\ JobOn(s)'.state = "running"
                  /\ Served(s)' \in handed'
  <2>1. serving[s] = NoJob <=> run[s].pc = "idle"
    BY DEF ArqInv, ArqTypeOK
  <2>2. CASE serving[s] # NoJob
    <3>1. /\ Served(s) \in App /\ serving[s][2] \in JobId
          /\ run[s].app = Served(s)
          /\ job[Served(s)][serving[s][2]].state = "running"
          /\ Served(s) \in handed
      BY <2>2, ServingType DEF ArqInv, JobsHanded, JobOn, Served
    <3>2. job'[Served(s)][serving[s][2]].state = "running"
      BY <3>1 DEF JobsKept
    <3> QED BY <2>1, <2>2, <3>1, <3>2 DEF Served, JobOn
  <2> QED BY <2>1, <2>2
<1>2. ArqTypeOK'
  BY <1>1 DEF ArqTypeOK, ArqInv, JobsKept, JobTable
<1>3. SlotsApart'
  BY DEF ArqInv, SlotsApart
<1>4. JobsHanded'
  BY <1>1 DEF JobsHanded, JobsKept
<1> QED BY <1>2, <1>3, <1>4 DEF ArqInv

(* A slot ends its run and is free.                                        *)
LEMMA SlotFreed ==
    ASSUME ArqInv, TypeOK', NEW s \in Session, serving[s] # NoJob,
           JobsKept({serving[s]}), handed \subseteq handed',
           run'[s].pc = "idle", \A x \in Session \ {s} : run'[x] = run[x],
           serving' = [serving EXCEPT ![s] = NoJob],
           faults' \in Nat, lost' \in SUBSET App
    PROVE  ArqInv'
<1>1. /\ serving'[s] = NoJob /\ \A x \in Session \ {s} : serving'[x] = serving[x]
      /\ serving' \in [Session -> (App \X JobId) \cup {NoJob}]
  BY DEF ArqInv, ArqTypeOK
<1>2. ASSUME NEW x \in Session
      PROVE  /\ serving'[x] = NoJob <=> run'[x].pc = "idle"
             /\ serving'[x] # NoJob =>
                  /\ run'[x].app = Served(x)' /\ JobOn(x)'.state = "running"
                  /\ Served(x)' \in handed'
  <2>1. CASE x = s
    BY <1>1, <2>1
  <2>2. CASE x # s /\ serving[x] = NoJob
    BY <1>1, <2>2 DEF ArqInv, ArqTypeOK
  <2>3. CASE x # s /\ serving[x] # NoJob
    <3>1. /\ Served(x) \in App /\ serving[x][2] \in JobId
          /\ serving[x] = <<Served(x), serving[x][2]>>
          /\ run[x].pc # "idle" /\ run[x].app = Served(x)
          /\ job[Served(x)][serving[x][2]].state = "running"
          /\ Served(x) \in handed
      BY <2>3, ServingType DEF ArqInv, JobsHanded, JobOn, Served
    <3>2. <<Served(x), serving[x][2]>> \notin {serving[s]}
      BY <2>3, <3>1 DEF ArqInv, SlotsApart
    <3>3. job'[Served(x)][serving[x][2]].state = "running"
      BY <3>1, <3>2 DEF JobsKept
    <3>4. run'[x] = run[x] /\ serving'[x] = serving[x]
      BY <1>1, <2>3
    <3> QED BY <2>3, <3>1, <3>3, <3>4 DEF Served, JobOn
  <2> QED BY <2>1, <2>2, <2>3
<1>3. ArqTypeOK'
  BY <1>1, <1>2 DEF ArqTypeOK, JobsKept, JobTable
<1>4. SlotsApart'
  BY <1>1 DEF ArqInv, SlotsApart
<1>5. JobsHanded'
  BY <1>2 DEF JobsHanded, JobsKept
<1> QED BY <1>3, <1>4, <1>5 DEF ArqInv

(* A slot goes on with its run, or frees itself with the end of it.        *)
LEMMA SlotFollows ==
    ASSUME ArqInv, TypeOK', NEW s \in Session, serving[s] # NoJob,
           RunStep(s), Follow(s), handed \subseteq handed',
           faults' \in Nat, lost' \in SUBSET App
    PROVE  ArqInv'
<1>1. RunMoves(s)
  BY RunStepMoves DEF ArqInv, ArqTypeOK
<1>2. CASE run'[s].pc = "idle"
  <2>1. /\ job' = EndJob(Served(s), serving[s][2])
        /\ serving' = [serving EXCEPT ![s] = NoJob]
    BY <1>2 DEF Follow, Served
  <2>2. /\ Served(s) \in App /\ serving[s][2] \in JobId /\ job \in JobTable
        /\ serving[s] = <<Served(s), serving[s][2]>> /\ Served(s) \in handed
    BY ServingType DEF ArqInv, ArqTypeOK, JobTable, JobsHanded
  <2>3. JobsKept({serving[s]})
    BY <2>1, <2>2, EndJobType DEF JobsKept, ArqInv, JobsHanded
  <2> QED BY <1>1, <1>2, <2>1, <2>3, SlotFreed DEF RunMoves
<1>3. CASE run'[s].pc # "idle"
  <2>1. job' = job /\ serving' = serving
    BY <1>3 DEF Follow
  <2>2. run'[s].app = run[s].app /\ \A x \in Session \ {s} : run'[x] = run[x]
    BY <1>1, <1>3 DEF RunMoves
  <2>3. ArqTypeOK'
    <3>1. ASSUME NEW x \in Session
          PROVE  /\ serving'[x] = NoJob <=> run'[x].pc = "idle"
                 /\ serving'[x] # NoJob =>
                      run'[x].app = Served(x)' /\ JobOn(x)'.state = "running"
      BY <1>3, <2>1, <2>2 DEF ArqInv, ArqTypeOK, Served, JobOn
    <3> QED BY <2>1, <3>1 DEF ArqInv, ArqTypeOK
  <2>4. SlotsApart' /\ JobsHanded'
    BY <2>1 DEF ArqInv, SlotsApart, JobsHanded, Served
  <2> QED BY <2>3, <2>4 DEF ArqInv
<1> QED BY <1>2, <1>3

LEMMA GivenBack ==
    ASSUME ArqInv, NEW s \in Session, serving[s] # NoJob,
           NEW state \in {"deferred", "ready"}, GiveBack(s, state),
           handed \subseteq handed'
    PROVE  /\ JobsKept({serving[s]})
           /\ serving' = [serving EXCEPT ![s] = NoJob]
<1>1. /\ Served(s) \in App /\ serving[s][2] \in JobId /\ job \in JobTable
      /\ serving[s] = <<Served(s), serving[s][2]>> /\ Served(s) \in handed
  BY ServingType DEF ArqInv, ArqTypeOK, JobTable, JobsHanded
<1> DEFINE a == Served(s)
           j == serving[s][2]
           new == [job[a][j] EXCEPT !.state = state]
<1>2. job' = [job EXCEPT ![a] = [job[a] EXCEPT ![j] = new]]
  BY DEF GiveBack, Served
<1>3. new \in JobRecord /\ new.state = state
  <2>1. job[a][j] \in JobRecord
    BY <1>1 DEF JobTable
  <2> QED BY <2>1 DEF JobRecord
<1> HIDE DEF new, a, j
<1>4. /\ job' \in JobTable
      /\ \A b \in App, i \in JobId :
           job'[b][i] = IF b = a /\ i = j THEN new ELSE job[b][i]
  BY <1>1, <1>2, <1>3 DEF JobTable, a, j
<1>5. ASSUME NEW b \in App, NEW i \in JobId
      PROVE  /\ <<b, i>> # serving[s] /\ job[b][i].state = "running"
                  => job'[b][i].state = "running"
             /\ job'[b][i].state # "none" => b \in handed'
  <2>1. CASE b = a /\ i = j
    BY <1>1, <2>1 DEF a, j
  <2>2. CASE ~(b = a /\ i = j)
    BY <1>4, <2>2 DEF ArqInv, JobsHanded
  <2> QED BY <2>1, <2>2
<1> QED BY <1>4, <1>5 DEF GiveBack, JobsKept

-----------------------------------------------------------------------------
(* Every step is a step of the pipeline or leaves its variables alone.     *)
LEMMA ArqStepRefines == ArqInv /\ [ArqNext]_arqVars => [Next]_vars
<1> SUFFICES ASSUME ArqInv, ArqNext
             PROVE  [Next]_vars
  BY DEF arqVars
<1>1. CASE OwnerAct
  BY <1>1 DEF OwnerAct, Next, OwnerStep
<1>2. ASSUME NEW t \in Tab, EnqueueJobs(t) \/ EnqueueFails(t)
      PROVE  [Next]_vars
  BY <1>2 DEF EnqueueJobs, EnqueueFails, Next, OwnerStep, RequestStep
<1>3. ASSUME NEW a \in App,
             ForgetResult(a) \/ \E j \in JobId : ComeDue(a, j)
      PROVE  [Next]_vars
  BY <1>3 DEF ForgetResult, ComeDue
<1>4. ASSUME NEW s \in Session, NEW a \in App, NEW j \in JobId, TakeJob(s, a, j)
      PROVE  [Next]_vars
  <2>1. CASE Deliver(s, a, j)
    <3>1. job[a][j] \in JobRecord
      BY DEF ArqInv, ArqTypeOK
    <3>2. NextTry(a, j) \in 1 .. MaxTries
      BY <2>1, <3>1, BoundAssumption DEF Deliver, NextTry, JobRecord
    <3> QED BY <2>1, <3>2 DEF Deliver, Next
  <2> QED BY <1>4, <2>1 DEF TakeJob, DeliverNotRunnable, DropExhausted
<1>5. ASSUME NEW s \in Session,
             Work(s) \/ WorkerCrash(s) \/ Shutdown(s) \/ ErrorEscapes(s)
      PROVE  [Next]_vars
  BY <1>5 DEF Work, RunJob, WaitForSetup, RequeueHold, RetryLater, WorkerCrash,
              Shutdown, ErrorEscapes, Next, RunStep
<1> QED BY <1>1, <1>2, <1>3, <1>4, <1>5 DEF ArqNext

LEMMA ArqInvInit == ArqInit => ArqInv
<1> SUFFICES ASSUME ArqInit PROVE ArqInv
  OBVIOUS
<1>1. TypeOK
  BY TypeInit DEF ArqInit
<1>2. job \in [App -> [JobId -> JobRecord]] /\ \A a \in App, j \in JobId : job[a][j].state = "none"
  BY NewJobType DEF ArqInit, NewJob
<1>3. \A s \in Session : serving[s] = NoJob /\ run[s].pc = "idle"
  BY DEF ArqInit, Init, IdleRun
<1> QED BY <1>1, <1>2, <1>3, ArqAssumption
        DEF ArqInit, ArqInv, ArqTypeOK, SlotsApart, JobsHanded

LEMMA TakeJobInv ==
    ASSUME ArqInv, TypeOK', NEW s \in Session, NEW a \in App, NEW j \in JobId,
           TakeJob(s, a, j)
    PROVE  ArqInv'
<1>1. /\ job \in JobTable /\ job[a][j] \in JobRecord
      /\ serving[s] = NoJob /\ job[a][j].state = "ready" /\ a \in handed
  BY DEF ArqInv, ArqTypeOK, JobTable, JobsHanded, TakeJob, Deliver,
         DeliverNotRunnable, DropExhausted, Ready
<1>2. CASE DeliverNotRunnable(s, a, j) \/ DropExhausted(s, a, j)
  <2>1. /\ job' = EndJob(a, j) /\ serving' = serving /\ UNCHANGED vars
        /\ faults' \in Nat /\ lost' \in SUBSET App
    BY <1>2 DEF DeliverNotRunnable, DropExhausted, ArqInv, ArqTypeOK
  <2>2. JobsKept({})
    BY <1>1, <2>1, EndJobType DEF JobsKept, ArqInv, JobsHanded, vars
  <2> QED BY <2>1, <2>2, SlotsStay DEF vars
<1>3. CASE Deliver(s, a, j)
  <2> DEFINE new == [job[a][j] EXCEPT !.state = "running", !.tries = @ + 1]
  <2>1. job' = [job EXCEPT ![a] = [job[a] EXCEPT ![j] = new]]
    BY <1>3 DEF Deliver
  <2>2. new \in JobRecord /\ new.state = "running"
    <3>1. job[a][j].tries \in 0 .. MaxTries /\ job[a][j].tries + 1 <= MaxTries
      BY <1>1, <1>3 DEF Deliver, NextTry, JobRecord
    <3>2. job[a][j].tries + 1 \in 0 .. MaxTries
      BY <3>1, BoundAssumption
    <3> QED BY <1>1, <3>2 DEF JobRecord
  <2> HIDE DEF new
  <2>3. /\ job' \in JobTable
        /\ \A b \in App, i \in JobId :
             job'[b][i] = IF b = a /\ i = j THEN new ELSE job[b][i]
    BY <1>1, <2>1, <2>2 DEF JobTable
  <2>4. /\ serving' \in [Session -> (App \X JobId) \cup {NoJob}]
        /\ serving'[s] = <<a, j>> /\ <<a, j>> # NoJob
        /\ \A x \in Session \ {s} : serving'[x] = serving[x]
    BY <1>3, ArqAssumption DEF Deliver, ArqInv, ArqTypeOK
  <2>5. /\ run'[s].pc = "loaded" /\ run'[s].app = a
        /\ \A x \in Session \ {s} : run'[x] = run[x]
        /\ handed' = handed /\ faults' = faults /\ lost' = lost
    BY <1>3 DEF Deliver, Load, ArqInv, ArqTypeOK, TypeOK
  <2>6. ASSUME NEW x \in Session
        PROVE  /\ serving'[x] = NoJob <=> run'[x].pc = "idle"
               /\ serving'[x] # NoJob =>
                    /\ run'[x].app = Served(x)' /\ JobOn(x)'.state = "running"
                    /\ Served(x)' \in handed'
               /\ x # s /\ serving'[x] # NoJob => serving'[x] # <<a, j>>
    <3>1. CASE x = s
      <4>0. serving'[x] = <<a, j>> /\ job'[a][j] = new
        BY <2>3, <2>4, <3>1
      <4>1. Served(x)' = a /\ JobOn(x)' = new /\ serving'[x] # NoJob
        BY <2>4, <4>0 DEF Served, JobOn
      <4>2. run'[x].pc = "loaded" /\ run'[x].app = a /\ a \in handed'
        BY <1>1, <2>5, <3>1
      <4> QED BY <2>2, <3>1, <4>1, <4>2
    <3>2. CASE x # s /\ serving[x] = NoJob
      BY <2>4, <2>5, <3>2 DEF ArqInv, ArqTypeOK
    <3>3. CASE x # s /\ serving[x] # NoJob
      <4>1. /\ Served(x) \in App /\ serving[x][2] \in JobId
            /\ serving[x] = <<Served(x), serving[x][2]>>
            /\ run[x].pc # "idle" /\ run[x].app = Served(x)
            /\ job[Served(x)][serving[x][2]].state = "running"
            /\ Served(x) \in handed
        BY <3>3, ServingType DEF ArqInv, JobsHanded, JobOn, Served
      <4>2. serving[x] # <<a, j>>
        BY <1>1, <4>1
      <4>3. job'[Served(x)][serving[x][2]].state = "running"
        BY <2>2, <2>3, <4>1
      <4>4. run'[x] = run[x] /\ serving'[x] = serving[x]
        BY <2>4, <2>5, <3>3
      <4> QED BY <2>5, <3>3, <4>1, <4>2, <4>3, <4>4 DEF Served, JobOn
    <3> QED BY <3>1, <3>2, <3>3
  <2>7. ArqTypeOK'
    BY <2>3, <2>4, <2>5, <2>6 DEF ArqInv, ArqTypeOK, JobTable
  <2>8. SlotsApart'
    BY <2>4, <2>6 DEF ArqInv, SlotsApart
  <2>9. JobsHanded'
    BY <1>1, <2>2, <2>3, <2>5, <2>6 DEF ArqInv, JobsHanded
  <2> QED BY <2>7, <2>8, <2>9 DEF ArqInv
<1> QED BY <1>2, <1>3 DEF TakeJob

LEMMA CommitEnds ==
    ASSUME TypeOK, NEW s \in Session, NEW new, Commit(s, new, "idle")
    PROVE  run'[s].pc = "idle"
BY DEF Commit, End, IdleRun, TypeOK

LEMMA SlotInv ==
    ASSUME ArqInv, TypeOK', NEW s \in Session,
           Work(s) \/ WorkerCrash(s) \/ Shutdown(s) \/ ErrorEscapes(s)
    PROVE  ArqInv'
<1>1. /\ serving[s] # NoJob /\ TypeOK /\ Served(s) \in App
      /\ faults' \in Nat /\ lost' \in SUBSET App
  <2>1. serving[s] # NoJob
    BY DEF Work, RunJob, WaitForSetup, RequeueHold, RetryLater, WorkerCrash,
           Shutdown, ErrorEscapes
  <2>2. Served(s) \in App
    BY <2>1, ServingType DEF ArqInv
  <2> QED BY <2>1, <2>2
          DEF Work, RunJob, WaitForSetup, RequeueHold, RetryLater, WorkerCrash,
              Shutdown, ErrorEscapes, Fault, ArqInv, ArqTypeOK
<1>2. CASE RunJob(s)
  <2>1. RunStep(s) /\ Follow(s)
    BY <1>2 DEF RunJob, RunStep
  <2>2. handed' = handed
    BY <1>2 DEF RunJob, StageForReview, Gate, MarkApplying, Click, Report,
                MarkApplied, MarkNeedsVerification, MarkFailed
  <2> QED BY <1>1, <2>1, <2>2, SlotFollows
<1>3. CASE WaitForSetup(s)
  <2>1. RunStep(s) /\ Follow(s) /\ handed' = handed
    BY <1>3 DEF WaitForSetup, RunStep, MarkWaitingForSetup
  <2> QED BY <1>1, <2>1, SlotFollows
<1>4. CASE RequeueHold(s)
  <2>1. /\ RunMoves(s) /\ run'[s].pc = "idle"
        /\ handed' = handed \cup {Served(s)}
    <3>1. Requeue(s) /\ RunStep(s)
      BY <1>4 DEF RequeueHold, RunStep
    <3>2. run[s].app = Served(s)
      BY <1>1, ServingType DEF ArqInv
    <3> QED BY <1>1, <3>1, <3>2, RunStepMoves, ArqAssumption
            DEF Requeue, End, IdleRun, TypeOK
  <2>2. PICK h \in HoldId :
          /\ job[Served(s)][h].state = "none"
          /\ job' = [EndJob(serving[s][1], serving[s][2])
                        EXCEPT ![Served(s)][h] =
                          [state |-> "deferred", tries |-> 0,
                           older |-> serving[s][2] = DefaultId]]
    BY <1>4 DEF RequeueHold
  <2>3. /\ serving[s][2] \in JobId /\ job \in JobTable
        /\ serving[s] = <<Served(s), serving[s][2]>>
        /\ h \in JobId
    BY <1>1, ServingType DEF ArqInv, ArqTypeOK, JobTable, JobId
  <2> DEFINE new == [state |-> "deferred", tries |-> 0,
                     older |-> serving[s][2] = DefaultId]
             ended == EndJob(Served(s), serving[s][2])
             a == Served(s)
  <2>4. new \in JobRecord /\ new.state # "none"
    BY BoundAssumption DEF JobRecord
  <2>5. ended \in JobTable
        /\ \A b \in App, i \in JobId :
             ended[b][i].state = IF b = a /\ i = serving[s][2]
                                 THEN After(i) ELSE job[b][i].state
    BY <1>1, <2>3, EndJobType
  <2>6. job' = [ended EXCEPT ![a] = [ended[a] EXCEPT ![h] = new]]
    BY <2>2 DEF Served
  <2> HIDE DEF new, ended, a
  <2>7. /\ job' \in JobTable
        /\ \A b \in App, i \in JobId :
             job'[b][i] = IF b = a /\ i = h THEN new ELSE ended[b][i]
    BY <1>1, <2>3, <2>4, <2>5, <2>6 DEF JobTable, a
  <2>8. JobsKept({serving[s]})
    BY <1>1, <2>1, <2>2, <2>3, <2>4, <2>5, <2>7 DEF JobsKept, ArqInv, JobsHanded, a
  <2>9. serving' = [serving EXCEPT ![s] = NoJob]
    BY <1>4 DEF RequeueHold
  <2> QED BY <1>1, <2>1, <2>8, <2>9, SlotFreed DEF RunMoves
<1>5. CASE RetryLater(s)
  <2>1. RunStep(s) /\ TransientError(s) /\ handed' = handed
    BY <1>5 DEF RetryLater, RunStep, TransientError
  <2>2. CASE run[s].try < MaxTries
    <3>1. GiveBack(s, "deferred") /\ run'[s].pc = "idle"
      <4>1. run[s].try \in Nat /\ MaxTries \in Nat
        BY <1>1, BoundAssumption DEF TypeOK, RunRecord
      <4> QED BY <1>1, <1>5, <2>2, <4>1, ArqAssumption
              DEF RetryLater, TransientError, End, IdleRun, TypeOK
    <3>2. RunMoves(s)
      BY <1>1, <2>1, RunStepMoves
    <3> QED BY <1>1, <2>1, <3>1, <3>2, GivenBack, SlotFreed DEF RunMoves
  <2>3. CASE ~(run[s].try < MaxTries)
    BY <1>1, <1>5, <2>1, <2>3, SlotFollows DEF RetryLater
  <2> QED BY <2>2, <2>3
<1>6. CASE WorkerCrash(s) \/ ErrorEscapes(s)
  <2>1. /\ run'[s].pc = "idle" /\ \A x \in Session \ {s} : run'[x] = run[x]
        /\ handed' = handed
    BY <1>1, <1>6 DEF WorkerCrash, ErrorEscapes, Abort, End, IdleRun, TypeOK
  <2>2. CASE WorkerCrash(s)
    BY <1>1, <2>1, <2>2, GivenBack, SlotFreed DEF WorkerCrash
  <2>3. CASE ErrorEscapes(s)
    <3>1. /\ job' = EndJob(Served(s), serving[s][2])
          /\ serving' = [serving EXCEPT ![s] = NoJob]
      BY <2>1, <2>3 DEF ErrorEscapes, Follow, Served
    <3>2. /\ serving[s][2] \in JobId /\ job \in JobTable
          /\ serving[s] = <<Served(s), serving[s][2]>> /\ Served(s) \in handed
      BY <1>1, ServingType DEF ArqInv, ArqTypeOK, JobTable, JobsHanded
    <3>3. JobsKept({serving[s]})
      BY <1>1, <2>1, <3>1, <3>2, EndJobType DEF JobsKept, ArqInv, JobsHanded
    <3> QED BY <1>1, <2>1, <3>1, <3>3, SlotFreed
  <2> QED BY <1>6, <2>2, <2>3
<1>7. CASE Shutdown(s)
  <2>1. /\ RunStep(s) /\ GiveBack(s, "ready") /\ handed' = handed
        /\ CommitStatus(s, "failed", "idle")
    BY <1>7 DEF Shutdown, RunStep, MarkFailed
  <2>2. RunMoves(s) /\ run'[s].pc = "idle"
    BY <1>1, <2>1, RunStepMoves, CommitEnds DEF CommitStatus
  <2> QED BY <1>1, <2>1, <2>2, GivenBack, SlotFreed DEF RunMoves
<1> QED BY <1>2, <1>3, <1>4, <1>5, <1>6, <1>7 DEF Work

(* Time changes the state of one job that no slot serves.                  *)
LEMMA JobMoves ==
    ASSUME ArqInv, TypeOK', NEW a \in App, NEW j \in JobId,
           job[a][j].state \in {"retained", "deferred"}, NEW new \in JobRecord,
           job' = [job EXCEPT ![a] = [job[a] EXCEPT ![j] = new]],
           run' = run, handed' = handed,
           serving' = serving, faults' = faults, lost' = lost
    PROVE  ArqInv'
<1>1. /\ job' \in JobTable
      /\ \A b \in App, i \in JobId :
           job'[b][i] = IF b = a /\ i = j THEN new ELSE job[b][i]
  BY DEF ArqInv, ArqTypeOK, JobTable
<1>2. JobsKept({})
  BY <1>1 DEF JobsKept, ArqInv, JobsHanded
<1> QED BY <1>2, SlotsStay DEF ArqInv, ArqTypeOK

LEMMA ArqInvNext == ArqInv /\ [ArqNext]_arqVars => ArqInv'
<1> SUFFICES ASSUME ArqInv, [ArqNext]_arqVars
             PROVE  ArqInv'
  OBVIOUS
<1>1. TypeOK /\ TypeOK'
  BY ArqStepRefines, TypeNext DEF ArqInv, ArqTypeOK
<1>2. CASE UNCHANGED arqVars
  BY <1>1, <1>2, SameJobs, SlotsStay DEF arqVars, vars, ArqInv, ArqTypeOK
<1>3. CASE OwnerAct
  <2>1. /\ run' = run /\ handed \subseteq handed'
        /\ UNCHANGED <<job, serving, faults, lost>>
    BY <1>3 DEF OwnerAct, TogglePause, OwnerCommand, CreateNew, CreateExisting,
         ApproveAgain, Approve, UpdateStatus, ResolveBlocker, RequestStep,
         Refresh, DispatchForMode, CommitApproval, CommitUpdate, Rerun,
         MarkRerun, CommitResolve, Enqueue, OwnerOnly
  <2> QED BY <1>1, <2>1, SameJobs, SlotsStay DEF ArqInv, ArqTypeOK
<1>4. ASSUME NEW t \in Tab, EnqueueJobs(t)
      PROVE  ArqInv'
  <2>1. /\ run' = run /\ handed' = handed \cup req[t].apps
        /\ job' = Enqueued(req[t].apps) /\ UNCHANGED <<serving, faults>>
        /\ lost' \in SUBSET App
    BY <1>1, <1>4, ArqAssumption
       DEF EnqueueJobs, Enqueue, OwnerOnly, ArqInv, ArqTypeOK, TypeOK, Request
  <2> DEFINE new == [NewJob EXCEPT !.state = "ready"]
  <2>2. new \in JobRecord /\ DefaultId \in JobId
    BY NewJobType DEF JobRecord, JobId
  <2>3. ASSUME NEW a \in App
        PROVE  /\ job'[a] \in [JobId -> JobRecord]
               /\ \A j \in JobId :
                    \/ job'[a][j] = job[a][j]
                    \/ a \in req[t].apps /\ job[a][j].state = "none"
    <3>1. job[a] \in [JobId -> JobRecord]
      BY DEF ArqInv, ArqTypeOK
    <3>2. job'[a] = IF a \in req[t].apps /\ job[a][DefaultId].state = "none"
                    THEN [job[a] EXCEPT ![DefaultId] = new] ELSE job[a]
      BY <2>1 DEF Enqueued
    <3> HIDE DEF new
    <3> QED BY <2>2, <3>1, <3>2
  <2>4. JobsKept({})
    <3>1. job' \in JobTable
      BY <2>1, <2>3 DEF Enqueued, JobTable
    <3> QED BY <2>1, <2>3, <3>1 DEF JobsKept, ArqInv, JobsHanded
  <2> QED BY <1>1, <2>1, <2>4, SlotsStay DEF ArqInv, ArqTypeOK
<1>5. ASSUME NEW t \in Tab, EnqueueFails(t)
      PROVE  ArqInv'
  <2>1. /\ run' = run /\ handed \subseteq handed' /\ UNCHANGED <<job, serving>>
        /\ faults' \in Nat /\ lost' \in SUBSET App
    BY <1>1, <1>5
       DEF EnqueueFails, Enqueue, OwnerOnly, ArqInv, ArqTypeOK, TypeOK, Request
  <2> QED BY <1>1, <2>1, SameJobs, SlotsStay
<1>6. ASSUME NEW a \in App, ForgetResult(a)
      PROVE  ArqInv'
  <2> DEFINE new == [job[a][DefaultId] EXCEPT !.state = "none"]
  <2>1. DefaultId \in JobId /\ job[a][DefaultId] \in JobRecord
    BY DEF JobId, ArqInv, ArqTypeOK
  <2>2. new \in JobRecord /\ new.state = "none"
    BY <2>1 DEF JobRecord
  <2>3. job' = [job EXCEPT ![a] = [job[a] EXCEPT ![DefaultId] = new]]
    BY <1>6 DEF ForgetResult
  <2>4. /\ job[a][DefaultId].state = "retained"
        /\ run' = run /\ handed' = handed /\ UNCHANGED <<serving, faults, lost>>
    BY <1>6 DEF ForgetResult, vars
  <2> HIDE DEF new
  <2> QED BY <1>1, <2>1, <2>2, <2>3, <2>4, JobMoves
<1>7. ASSUME NEW a \in App, NEW j \in JobId, ComeDue(a, j)
      PROVE  ArqInv'
  <2> DEFINE new == [job[a][j] EXCEPT !.state = "ready", !.older = FALSE]
  <2>1. job[a][j] \in JobRecord
    BY DEF ArqInv, ArqTypeOK
  <2>2. new \in JobRecord /\ new.state = "ready"
    BY <2>1 DEF JobRecord
  <2>3. job' = [job EXCEPT ![a] = [job[a] EXCEPT ![j] = new]]
    BY <1>7 DEF ComeDue
  <2>4. /\ job[a][j].state = "deferred"
        /\ run' = run /\ handed' = handed /\ UNCHANGED <<serving, faults, lost>>
    BY <1>7 DEF ComeDue, vars
  <2> HIDE DEF new
  <2> QED BY <1>1, <2>2, <2>3, <2>4, JobMoves
<1> QED BY <1>1, <1>2, <1>3, <1>4, <1>5, <1>6, <1>7, TakeJobInv, SlotInv
        DEF ArqNext

LEMMA ArqInvariant == ArqSafety => []ArqInv
BY ArqInvInit, ArqInvNext, PTL DEF ArqSafety

(* A slot that serves a job runs the row of that job, and the job counts   *)
(* as running until the slot is free: no crash, retry, hold or hour-old    *)
(* result makes the queue and the worker disagree.                         *)
THEOREM ArqTypeCorrect == ArqSafety => []ArqTypeOK
<1>1. ArqInv => ArqTypeOK
  BY DEF ArqInv
<1> QED BY <1>1, ArqInvariant, PTL

(* The Redis deployment implements the pipeline under an arbitrary         *)
(* dispatcher, so what is proved of ApplyPipeline holds here as well ...   *)
THEOREM ArqRefinesPipeline == ArqSafety => Spec
<1>1. ArqInit => Init
  BY DEF ArqInit
<1> QED BY <1>1, ArqInvariant, ArqStepRefines, PTL DEF ArqSafety, Spec

(* ... for one that a review-mode row needs the owner's approval, however  *)
(* jobs, retries, holds and duplicate deliveries interleave.               *)
THEOREM ArqConsentNeeded == ArqSafety => []ReviewNeedsConsent
BY ArqRefinesPipeline, ConsentNeeded, PTL

(* ... and that an approval is lost only to a run that was there before.   *)
THEOREM ArqApprovalsStick == ArqSafety => ApprovalSticks
BY ArqRefinesPipeline, ApprovalsStick, PTL

-----------------------------------------------------------------------------
(* Nothing is forgotten.  NothingForgotten counts every request that holds *)
(* the row; only some of them will enqueue it.  A claimable row has a job  *)
(* that is not over, or a request on its way to enqueue_job.  A row that   *)
(* is APPLYING has a job that was started before: it waits for another     *)
(* try, which an APPLYING row does not turn away, or its run knows that    *)
(* the row is APPLYING and leaves it otherwise.                            *)
LiveState == {"deferred", "ready", "running"}

Pledged(a) == \E t \in Tab : a \in req[t].apps /\ req[t].op \in {"refresh", "rerun", "enqueue"}
RunKnows(a, j) == \E s \in Session : serving[s] = <<a, j>> /\ run[s].snap.status = "applying"
Started(a) ==
    \E j \in JobId : /\ job[a][j].state \in LiveState /\ job[a][j].tries > 0
                     /\ job[a][j].state = "running" => RunKnows(a, j)

\* PUT /status takes any status; the buttons of the web app do not set this.
NeverSetApplying == "applying" \notin OwnerStatus
Applying(a)      == row[a].status = "applying" /\ NeverSetApplying

Kept(a) ==
    /\ a \in handed \ lost => /\ row[a].status \in Claimable => Live(a) \/ Pledged(a)
                              /\ Applying(a) => Started(a)
    /\ Applying(a) => a \in handed

\* A commit that the unique index refuses is one that would revive a row.
SnapRunnable(s) == /\ run[s].pc # "idle" => run[s].snap.status \in Claimable \cup {"applying"}
                   /\ run[s].pc = "held" => run[s].snap.status = "queued"
OneRow(t)       == req[t].op \notin {"none", "approve", "enqueue"} =>
                     \E a \in App : req[t].apps = {a}

PipeInv ==
    /\ UniqueActive(row)
    /\ \A s \in Session : SnapRunnable(s)
    /\ \A t \in Tab : OneRow(t)

JobsCounted == \A a \in App, j \in JobId : job[a][j].state = "running" => job[a][j].tries > 0

ForgottenInv == ArqInv /\ ConsentInv /\ PipeInv /\ JobsCounted /\ \A a \in App : Kept(a)

-----------------------------------------------------------------------------
LEMMA UniqueAfter ==
    ASSUME NEW old, NEW rows, NEW a \in App, UniqueActive(old),
           \A b \in App \ {a} : rows[b].status = old[b].status,
           rows[a].status \in Inactive \/ old[a].status \notin Inactive
    PROVE  UniqueActive(rows)
BY DEF UniqueActive

LEMMA CommitLands ==
    ASSUME TypeOK, UniqueActive(row), NEW s \in Session, run[s].pc # "idle",
           NEW new \in Row, NEW pc, Commit(s, new, pc)
    PROVE  /\ UniqueActive(row')
           /\ \A b \in App \ {run[s].app} : row'[b] = row[b]
           /\ \A x \in Session \ {s} : run'[x] = run[x]
           /\ \/ /\ row' = row /\ row[run[s].app].status \in Inactive
                 /\ run'[s] = IdleRun
              \/ /\ row'[run[s].app].status = IF new.status = run[s].snap.status
                                              THEN row[run[s].app].status ELSE new.status
                 /\ \/ pc = "idle" /\ run'[s] = IdleRun
                    \/ pc # "idle" /\ run'[s].pc = pc /\ run'[s].snap = new
<1>1. run[s].app \in App /\ run[s].snap \in Row /\ run[s] \in RunRecord
  BY DEF TypeOK, RunRecord
<1> DEFINE a == run[s].app
           rows == [row EXCEPT ![a] = Merge(row[a], run[s].snap, new)]
<1>2. /\ \A b \in App \ {a} : rows[b] = row[b]
      /\ rows[a].status = IF new.status = run[s].snap.status THEN row[a].status ELSE new.status
  BY <1>1, MergeValues DEF TypeOK
<1>3. CASE ~UniqueActive(rows)
  <2>1. row' = row /\ run' = [run EXCEPT ![s] = IdleRun]
    BY <1>3 DEF Commit, End
  <2> HIDE DEF rows
  <2>2. row[a].status \in Inactive
    BY <1>1, <1>2, <1>3, UniqueAfter
  <2> QED BY <2>1, <2>2 DEF TypeOK
<1>4. CASE UniqueActive(rows)
  <2>1. row' = rows
        /\ run' = [run EXCEPT ![s] = IF pc = "idle" THEN IdleRun
                                     ELSE [run[s] EXCEPT !.pc = pc, !.snap = new]]
    BY <1>4 DEF Commit
  <2>2. /\ \A x \in Session \ {s} : run'[x] = run[x]
        /\ \/ pc = "idle" /\ run'[s] = IdleRun
           \/ pc # "idle" /\ run'[s].pc = pc /\ run'[s].snap = new
    BY <1>1, <2>1 DEF TypeOK, RunRecord
  <2> HIDE DEF rows
  <2> QED BY <1>2, <1>4, <2>1, <2>2
<1> QED BY <1>3, <1>4

(* How a run leaves its row: when the run is over, at rest.                *)
Rest(a) == row[a].status \notin Claimable \cup {"applying"}

RunLands(s) ==
    /\ UniqueActive(row')
    /\ \A b \in App \ {run[s].app} : row'[b] = row[b]
    /\ \A x \in Session \ {s} : run'[x] = run[x]
    /\ run'[s].pc # "idle" => run'[s].snap.status \in Claimable \cup {"applying"}
    /\ run'[s].pc = "held" => run'[s].snap.status = "queued"
    /\ row'[run[s].app].status = "applying" =>
         \/ run'[s].pc # "idle" /\ run'[s].snap.status = "applying"
         \/ /\ row[run[s].app].status = "applying"
            /\ run'[s].pc = "idle" \/ run[s].snap.status # "applying"

LEMMA StatusLands ==
    ASSUME TypeOK, PipeInv, NEW s \in Session, NEW a, a = run[s].app, run[s].pc # "idle",
           NEW st \in Status, NEW pc, CommitStatus(s, st, pc),
           pc # "idle" => st = "applying" /\ pc # "held",
           pc = "idle" => st # "applying"
    PROVE  /\ RunLands(s)
           /\ pc = "idle" => run'[s].pc = "idle"
           /\ run'[s].pc = "idle" /\ st \notin Claimable \cup {"applying"} => Rest(a)'
<1> DEFINE new == [run[s].snap EXCEPT !.status = st]
<1>1. run[s].snap \in Row
  BY DEF TypeOK, RunRecord
<1>2. new \in Row /\ new.status = st /\ Commit(s, new, pc)
  BY <1>1 DEF Row, CommitStatus
<1>3. run[s].snap.status \in Claimable \cup {"applying"}
  BY DEF PipeInv, SnapRunnable
<1> HIDE DEF new
<1>4. IdleRun.pc = "idle"
  BY DEF IdleRun
<1> QED BY <1>2, <1>3, <1>4, CommitLands DEF RunLands, Rest, PipeInv, Inactive, Claimable

LEMMA GateLands ==
    ASSUME TypeOK, PipeInv, NEW s \in Session, NEW a, a = run[s].app,
           NEW objections \in SUBSET Raised, Gate(s, objections)
    PROVE  RunLands(s) /\ (run'[s].pc = "idle" => Rest(a)')
<1> DEFINE snap == run[s].snap
           waived == IF HumanApproved(snap)
                     THEN objections \cap Waivable ELSE {}
           noted == IF waived = {} THEN snap
                    ELSE [snap EXCEPT !.resume.waiver = waived]
<1>1. /\ snap \in Row /\ run[s].pc # "idle"
      /\ snap.status \in Claimable \cup {"applying"} /\ UniqueActive(row)
  BY DEF TypeOK, RunRecord, Gate, PipeInv, SnapRunnable
<1>2. noted \in Row /\ noted.status = snap.status
  <2>1. waived \in SUBSET Waivable
    OBVIOUS
  <2> QED BY <1>1, <2>1, NotedType DEF Row
<1>3. \A st \in {"queued", "pending_review", "failed"} :
        /\ [noted EXCEPT !.status = st] \in Row
        /\ [noted EXCEPT !.status = st].status = st
  BY <1>2 DEF Row, Status
<1>4. \/ Commit(s, noted, "cleared")
      \/ Commit(s, [noted EXCEPT !.status = "queued"], "held")
      \/ Commit(s, [noted EXCEPT !.status = "pending_review"], "idle")
      \/ Commit(s, [noted EXCEPT !.status = "failed"], "idle")
  BY DEF Gate
<1> HIDE DEF noted
<1>5. IdleRun.pc = "idle"
  BY DEF IdleRun
<1>6. PICK new \in Row, pc \in {"cleared", "held", "idle"} :
        /\ Commit(s, new, pc)
        /\ pc = "idle" => new.status \in {"pending_review", "failed"}
        /\ pc # "idle" => new.status \in Claimable \cup {"applying"}
        /\ pc = "held" => new.status = "queued"
  BY <1>1, <1>2, <1>3, <1>4 DEF Claimable
<1> QED BY <1>1, <1>5, <1>6, CommitLands DEF RunLands, Rest, Inactive, Claimable

LEMMA EndLands ==
    ASSUME TypeOK, PipeInv, NEW s \in Session, End(s), row' = row
    PROVE  RunLands(s) /\ run'[s].pc = "idle"
BY DEF RunLands, End, IdleRun, TypeOK, PipeInv

(* In the browser the row is being submitted.                              *)
LEMMA VerificationLands ==
    ASSUME TypeOK, PipeInv, NEW s \in Session, NEW a, a = run[s].app, MarkNeedsVerification(s)
    PROVE  RunLands(s) /\ (run'[s].pc = "idle" => Rest(a)')
<1> DEFINE new == [run[s].snap EXCEPT !.status = "pending_review", !.resume.blocked = TRUE]
<1>1. /\ run[s].snap \in Row /\ run[s].pc # "idle"
      /\ run[s].snap.status \in Claimable \cup {"applying"} /\ UniqueActive(row)
  BY DEF TypeOK, RunRecord, MarkNeedsVerification, InBrowser, PipeInv, SnapRunnable
<1>2. new \in Row /\ new.status = "pending_review"
  BY <1>1, BlockedType DEF Row
<1>3. Commit(s, new, "idle")
  BY DEF MarkNeedsVerification
<1> HIDE DEF new
<1>4. IdleRun.pc = "idle"
  BY DEF IdleRun
<1> QED BY <1>1, <1>2, <1>3, <1>4, CommitLands DEF RunLands, Rest, Inactive, Claimable

(* What a run of a job does ...                                            *)
LEMMA JobLands ==
    ASSUME TypeOK, PipeInv, NEW s \in Session, NEW a, a = run[s].app,
           \/ StageForReview(s) \/ \E objections \in SUBSET Raised : Gate(s, objections)
           \/ MarkApplying(s) \/ Click(s) \/ Report(s) \/ MarkApplied(s)
           \/ MarkNeedsVerification(s) \/ MarkFailed(s)
    PROVE  RunLands(s) /\ (run'[s].pc = "idle" => Rest(a)')
<1>1. CASE StageForReview(s) \/ MarkApplied(s) \/ MarkFailed(s)
  <2>1. PICK st \in {"pending_review", "applied", "failed"} :
          run[s].pc # "idle" /\ CommitStatus(s, st, "idle")
    BY <1>1 DEF StageForReview, MarkApplied, MarkFailed, InBrowser
  <2> QED BY <2>1, StatusLands DEF Status, Claimable
<1>2. CASE MarkApplying(s)
  <2>1. CommitStatus(s, "applying", "browser") /\ run[s].pc = "cleared"
    BY <1>2 DEF MarkApplying
  <2>2. RunLands(s)
    BY <2>1, StatusLands DEF Status
  <2> DEFINE new == [run[s].snap EXCEPT !.status = "applying"]
  <2>3. new \in Row /\ Commit(s, new, "browser")
    BY <2>1 DEF TypeOK, RunRecord, Row, Status, CommitStatus
  <2> HIDE DEF new
  <2>4. run'[s].pc = "idle" => row' = row /\ row[a].status \in Inactive
    BY <2>1, <2>3, CommitLands DEF PipeInv
  <2>5. run'[s].pc = "idle" => Rest(a)'
    BY <2>4 DEF Rest, Inactive, Claimable
  <2> QED BY <2>2, <2>5
<1>3. CASE Click(s) \/ Report(s)
  <2>1. /\ row' = row /\ \A x \in Session \ {s} : run'[x] = run[x]
        /\ run'[s].pc \notin {"idle", "held"} /\ run'[s].snap = run[s].snap /\ run[s].pc # "idle"
    BY <1>3 DEF Click, Report, InBrowser, TypeOK, RunRecord
  <2> QED BY <2>1 DEF RunLands, PipeInv, SnapRunnable
<1> QED BY <1>1, <1>2, <1>3, GateLands, VerificationLands

(* ... and those that end a run of a row that is not at rest.              *)
LEMMA PauseLands ==
    ASSUME TypeOK, PipeInv, NEW s \in Session, NEW a, a = run[s].app,
           Requeue(s) \/ MarkWaitingForSetup(s) \/ ApprovalRequired(s) \/ TransientError(s)
    PROVE  RunLands(s) /\ (TransientError(s) /\ ~(run[s].try < MaxTries) => Rest(a)')
<1>1. CASE TransientError(s)
  <2>1. CASE End(s) /\ row' = row /\ run[s].try < MaxTries
    BY <2>1, EndLands
  <2>2. CASE CommitStatus(s, "failed", "idle") /\ run[s].pc # "idle"
    BY <2>2, StatusLands, CommitEnds DEF Status, Claimable, CommitStatus
  <2>3. CASE \E st \in {"approved", "queued"} :
               CommitStatus(s, st, "idle") /\ run[s].pc # "idle" /\ run[s].try < MaxTries
    BY <2>3, StatusLands DEF Status
  <2> QED BY <1>1, <2>1, <2>2, <2>3 DEF TransientError, InBrowser
<1>2. CASE ~TransientError(s) /\ Requeue(s)
  BY <1>2, EndLands DEF Requeue
<1>3. CASE ~TransientError(s) /\ (MarkWaitingForSetup(s) \/ ApprovalRequired(s))
  <2>1. PICK st \in {"approved", "pending_review"} :
          run[s].pc # "idle" /\ CommitStatus(s, st, "idle")
    BY <1>3 DEF MarkWaitingForSetup, ApprovalRequired
  <2>2. RunLands(s)
    BY <2>1, StatusLands DEF Status
  <2> QED BY <1>3, <2>2
<1> QED BY <1>1, <1>2, <1>3

-----------------------------------------------------------------------------
(* What every step keeps of the pipeline.                                  *)
LEMMA PipeInit == Init => PipeInv
<1> SUFFICES ASSUME Init PROVE PipeInv
  OBVIOUS
<1>1. UniqueActive(row)
  BY JobAssumption, AppAssumption DEF Init, UniqueActive, NewRow, NoRow, Inactive
<1> QED BY <1>1 DEF Init, PipeInv, SnapRunnable, OneRow, IdleRun, NoRequest

LEMMA PipeRun ==
    ASSUME PipeInv, NEW s \in Session, RunLands(s), req' = req
    PROVE  PipeInv'
BY DEF PipeInv, RunLands, SnapRunnable, OneRow

LEMMA PipeOwner ==
    ASSUME PipeInv, NEW t \in Tab, UniqueActive(row'), run' = run,
           \A u \in Tab \ {t} : req'[u] = req[u], OneRow(t)'
    PROVE  PipeInv'
BY DEF PipeInv, SnapRunnable, OneRow

LEMMA CommitRequestUnique ==
    ASSUME PipeInv, NEW t \in Tab, NEW new, NEW op, CommitRequest(t, new, op)
    PROVE  UniqueActive(row')
BY DEF CommitRequest, PipeInv

(* A commit goes on with the rows of its request, or with none.            *)
LEMMA PipeCommit ==
    ASSUME TypeOK, PipeInv, NEW t \in Tab, NEW new, NEW op, CommitRequest(t, new, op),
           OwnerOnly, req[t].op \notin {"none", "enqueue"},
           req[t].op = "approve" => op = "enqueue"
    PROVE  PipeInv'
<1>1. UniqueActive(row') /\ run' = run
  BY CommitRequestUnique DEF OwnerOnly
<1>2. /\ \A u \in Tab \ {t} : req'[u] = req[u]
      /\ req'[t] = NoRequest \/ (req'[t].op = op /\ req'[t].apps = req[t].apps)
  BY DEF CommitRequest, Finish, Continue, TypeOK, Request
<1>3. OneRow(t)'
  BY <1>2 DEF PipeInv, OneRow, NoRequest
<1> QED BY <1>1, <1>2, <1>3, PipeOwner

LEMMA PipeRequest ==
    ASSUME TypeOK, PipeInv, NEW t \in Tab, RequestStep(t)
    PROVE  PipeInv'
<1>1. CASE DispatchForMode(t) \/ CommitUpdate(t) \/ MarkRerun(t)
  <2>1. PICK new, op : CommitRequest(t, new, op)
    BY <1>1 DEF DispatchForMode, CommitUpdate, MarkRerun
  <2> QED BY <1>1, <2>1, PipeCommit DEF DispatchForMode, CommitUpdate, MarkRerun
<1>2. CASE CommitApproval(t) \/ CommitResolve(t)
  <2>1. PICK new : CommitRequest(t, new, "enqueue")
    BY <1>2 DEF CommitApproval, CommitResolve
  <2> QED BY <1>2, <2>1, PipeCommit DEF CommitApproval, CommitResolve
<1>3. CASE Refresh(t) \/ Rerun(t) \/ Enqueue(t)
  <2>1. /\ row' = row /\ run' = run
        /\ \A u \in Tab \ {t} : req'[u] = req[u]
        /\ \/ req'[t] = NoRequest
           \/ req[t].op \in {"created", "refresh"} /\ req'[t].apps = req[t].apps
    BY <1>3, RereadMoves DEF Refresh, Rerun, Enqueue, Finish, OwnerOnly, TypeOK
  <2>2. OneRow(t)'
    BY <2>1 DEF PipeInv, OneRow, NoRequest
  <2> QED BY <2>1, <2>2, PipeOwner DEF PipeInv
<1> QED BY <1>1, <1>2, <1>3 DEF RequestStep

LEMMA BeginOne ==
    ASSUME TypeOK, PipeInv, NEW t \in Tab, NEW op, NEW S, NEW to, Begin(t, op, S, to),
           OwnerOnly, row' = row, op \in {"approve", "enqueue"} \/ \E a \in App : S = {a}
    PROVE  PipeInv'
<1>1. /\ \A u \in Tab \ {t} : req'[u] = req[u]
      /\ req'[t].op = op /\ req'[t].apps = S
  BY DEF Begin, TypeOK
<1> QED BY <1>1, PipeOwner DEF PipeInv, OneRow, OwnerOnly

LEMMA PipeCommand ==
    ASSUME TypeOK, PipeInv, NEW t \in Tab, OwnerCommand(t)
    PROVE  PipeInv'
<1>1. ASSUME NEW a \in App, NEW m \in Mode, CreateNew(t, a, m) PROVE PipeInv'
  <2>1. /\ UniqueActive(row') /\ run' = run
        /\ \A u \in Tab \ {t} : req'[u] = req[u]
        /\ req'[t].apps = {a}
    BY <1>1 DEF CreateNew, TypeOK, OwnerOnly
  <2> QED BY <2>1, PipeOwner DEF OneRow
<1>2. CASE ~\E a \in App, m \in Mode : CreateNew(t, a, m)
  <2>1. row' = row /\ OwnerOnly
    BY <1>2 DEF OwnerCommand, CreateExisting, ApproveAgain, Approve, UpdateStatus, ResolveBlocker
  <2>2. PICK op, S, to : /\ Begin(t, op, S, to)
                         /\ op \in {"approve", "enqueue"} \/ \E a \in App : S = {a}
    BY <1>2 DEF OwnerCommand, CreateExisting, ApproveAgain, Approve, UpdateStatus, ResolveBlocker
  <2> QED BY <2>1, <2>2, BeginOne
<1> QED BY <1>1, <1>2

LEMMA PipeNext ==
    ASSUME TypeOK, PipeInv, [Next]_vars
    PROVE  PipeInv'
<1>1. CASE UNCHANGED vars \/ TogglePause
  BY <1>1 DEF vars, TogglePause, OwnerOnly, PipeInv, SnapRunnable, OneRow
<1>2. ASSUME NEW s \in Session, NEW a \in App, NEW try \in 1 .. MaxTries, Load(s, a, try)
      PROVE  PipeInv'
  <2>1. /\ row' = row /\ req' = req /\ \A x \in Session \ {s} : run'[x] = run[x]
        /\ run'[s].pc = "loaded" /\ run'[s].snap = row[a] /\ row[a].status \in Claimable \cup {"applying"}
    BY <1>2 DEF Load, RunOnly, Runnable, TypeOK
  <2> QED BY <2>1 DEF PipeInv, SnapRunnable, OneRow
<1>3. ASSUME NEW s \in Session, RunStep(s) PROVE PipeInv'
  <2>1. RunLands(s)
    BY <1>3, JobLands, PauseLands DEF RunStep
  <2>2. req' = req
    BY <1>3, RunStepMoves DEF RunMoves
  <2> QED BY <2>1, <2>2, PipeRun
<1>4. ASSUME NEW s \in Session, Abort(s) PROVE PipeInv'
  BY <1>4, EndLands, PipeRun DEF Abort, RunOnly
<1>5. ASSUME NEW S \in SUBSET App, ReturnToOwner(S) PROVE PipeInv'
  BY <1>5 DEF ReturnToOwner, PipeInv, SnapRunnable, OneRow
<1> QED BY <1>1, <1>2, <1>3, <1>4, <1>5, PipeRequest, PipeCommand DEF Next, OwnerStep

-----------------------------------------------------------------------------
(* Jobs.                                                                   *)

\* A job that is not over is not over after the step, and counts its tries.
GoesOn(a, j) == job[a][j].state \in LiveState =>
    job'[a][j].state \in LiveState /\ job'[a][j].tries >= job[a][j].tries

LEMMA LiveStays ==
    ASSUME NEW a \in App, \A j \in JobId : GoesOn(a, j), Live(a)
    PROVE  Live(a)'
BY DEF GoesOn, Live, LiveState

(* The end of a job is no affair of the others.                            *)
LEMMA EndJobOthers ==
    ASSUME job \in JobTable, NEW a \in App, NEW j \in JobId
    PROVE  \A b \in App, i \in JobId : b # a \/ i # j =>
             /\ EndJob(a, j)[b][i].state = job[b][i].state
             /\ EndJob(a, j)[b][i].tries = job[b][i].tries
<1> DEFINE ends == [i \in JobId |->
             IF i = j THEN [NewJob EXCEPT !.state = After(j)]
             ELSE [job[a][i] EXCEPT
                     !.older = job[a][i].older \/ (j = DefaultId /\ job[a][i].state = "deferred")]]
<1>1. EndJob(a, j) = [job EXCEPT ![a] = ends]
  BY DEF EndJob
<1>2. ASSUME NEW i \in JobId, i # j
      PROVE  ends[i].state = job[a][i].state /\ ends[i].tries = job[a][i].tries
  <2>1. job[a][i] \in JobRecord
    BY DEF JobTable
  <2> QED BY <1>2, <2>1 DEF JobRecord
<1> HIDE DEF ends
<1> QED BY <1>1, <1>2 DEF JobTable

(* A row is kept when what it says is kept, ...                            *)
LEMMA KeptAsIs ==
    ASSUME NEW a \in App, Kept(a), row'[a].status = row[a].status,
           a \in handed' <=> a \in handed, a \in lost => a \in lost',
           \A j \in JobId : GoesOn(a, j),
           Pledged(a) => Pledged(a)', Started(a) => Started(a)'
    PROVE  Kept(a)'
BY LiveStays DEF Kept, Applying

(* ... when it is at rest, when it is given up, and when a job of it that  *)
(* has been started is not over.                                           *)
LEMMA KeptAtRest ==
    ASSUME NEW a \in App, Rest(a)' PROVE Kept(a)'
BY DEF Kept, Rest, Applying

LEMMA KeptGivenUp ==
    ASSUME NEW a \in App, a \in handed', a \in lost' PROVE Kept(a)'
BY DEF Kept, Applying

LEMMA KeptByJob ==
    ASSUME NEW a \in App, NEW j \in JobId, a \in handed', job'[a][j].state \in LiveState,
           Applying(a)' /\ a \notin lost' => Started(a)'
    PROVE  Kept(a)'
BY DEF Kept, Live, LiveState

\* What a step that leaves the runs alone keeps.
LEMMA StartedStays ==
    ASSUME NEW a \in App, Started(a), run' = run, serving' = serving,
           \A j \in JobId : GoesOn(a, j), job \in JobTable, job' \in JobTable,
           \A j \in JobId : job'[a][j].state = "running" => job[a][j].state = "running"
    PROVE  Started(a)'
<1>1. PICK j \in JobId : /\ job[a][j].state \in LiveState /\ job[a][j].tries > 0
                         /\ job[a][j].state = "running" => RunKnows(a, j)
  BY DEF Started
<1>2. job'[a][j].state \in LiveState /\ job'[a][j].tries > 0
  <2>1. job[a][j].tries \in Nat /\ job'[a][j].tries \in Nat
    BY BoundAssumption DEF JobTable, JobRecord
  <2> QED BY <1>1, <2>1 DEF GoesOn
<1>3. job'[a][j].state = "running" => RunKnows(a, j)'
  BY <1>1 DEF RunKnows
<1> QED BY <1>2, <1>3 DEF Started

\* A started job that is not the one a slot works on.
LEMMA StartedElsewhere ==
    ASSUME NEW a \in App, NEW j \in JobId, NEW s \in Session, serving[s] # <<a, j>>,
           job[a][j].state \in LiveState /\ job[a][j].tries > 0,
           job[a][j].state = "running" => RunKnows(a, j),
           \A x \in Session \ {s} : serving'[x] = serving[x] /\ run'[x] = run[x],
           job'[a][j].state = job[a][j].state, job'[a][j].tries = job[a][j].tries
    PROVE  Started(a)'
<1>1. job'[a][j].state = "running" => RunKnows(a, j)'
  BY DEF RunKnows
<1> QED BY <1>1 DEF Started

\* The job of a slot whose run does not know that the row is APPLYING.
LEMMA StartedBySomeoneElse ==
    ASSUME ArqInv, NEW s \in Session, serving[s] # NoJob, run[s].snap.status # "applying",
           Started(Served(s))
    PROVE  \E j \in JobId : /\ j # serving[s][2]
                            /\ job[Served(s)][j].state \in LiveState /\ job[Served(s)][j].tries > 0
                            /\ job[Served(s)][j].state = "running" => RunKnows(Served(s), j)
<1>1. PICK j \in JobId : /\ job[Served(s)][j].state \in LiveState /\ job[Served(s)][j].tries > 0
                         /\ job[Served(s)][j].state = "running" => RunKnows(Served(s), j)
  BY DEF Started
<1>2. JobOn(s).state = "running" /\ serving[s] = <<Served(s), serving[s][2]>>
  BY ServingType DEF ArqInv
<1>3. j # serving[s][2]
  <2> SUFFICES ASSUME j = serving[s][2] PROVE FALSE
    OBVIOUS
  <2>1. PICK x \in Session : serving[x] = serving[s] /\ run[x].snap.status = "applying"
    BY <1>1, <1>2 DEF RunKnows, JobOn, Served
  <2> QED BY <2>1 DEF ArqInv, SlotsApart
<1> QED BY <1>1, <1>3

(* A step of a slot, as far as the other rows go.                          *)
LEMMA OtherRowKept ==
    ASSUME ForgottenInv, NEW s \in Session, NEW a, NEW b \in App \ {a}, row'[b] = row[b],
           req' = req, b \in handed' <=> b \in handed, lost \subseteq lost',
           serving[s] = NoJob \/ serving[s][1] = a,
           \A x \in Session \ {s} : serving'[x] = serving[x] /\ run'[x] = run[x],
           \A i \in JobId : /\ job'[b][i].state = job[b][i].state
                            /\ job'[b][i].tries = job[b][i].tries
    PROVE  Kept(b)'
<1>1. job[b] \in [JobId -> JobRecord]
  BY DEF ForgottenInv, ArqInv, ArqTypeOK
<1>2. \A i \in JobId : GoesOn(b, i)
  BY <1>1, BoundAssumption DEF GoesOn, JobRecord
<1>3. Started(b) => Started(b)'
  <2> SUFFICES ASSUME Started(b) PROVE Started(b)'
    OBVIOUS
  <2>1. PICK j \in JobId : /\ job[b][j].state \in LiveState /\ job[b][j].tries > 0
                           /\ job[b][j].state = "running" => RunKnows(b, j)
    BY DEF Started
  <2>2. <<b, j>> \in App \X JobId /\ <<b, j>>[1] = b
    OBVIOUS
  <2>3. serving[s] # <<b, j>>
    BY <2>2, ArqAssumption
  <2> QED BY <2>1, <2>3, StartedElsewhere
<1>4. Pledged(b) => Pledged(b)'
  BY DEF Pledged
<1> QED BY <1>2, <1>3, <1>4, KeptAsIs DEF ForgottenInv

LEMMA ServedJob ==
    ASSUME ArqInv, JobsCounted, NEW s \in Session, serving[s] # NoJob
    PROVE  \E a \in App, j \in JobId :
             /\ Served(s) = a /\ serving[s][1] = a /\ serving[s][2] = j
             /\ serving[s] = <<a, j>> /\ run[s].app = a
             /\ job[a][j].state = "running" /\ a \in handed /\ job[a][j].tries > 0
             /\ job \in JobTable
<1>1. /\ Served(s) \in App /\ serving[s][2] \in JobId
      /\ serving[s] = <<Served(s), serving[s][2]>> /\ run[s].app = Served(s)
      /\ job[Served(s)][serving[s][2]].state = "running"
  BY ServingType DEF ArqInv, JobOn, Served
<1> QED BY <1>1 DEF ArqInv, ArqTypeOK, JobTable, JobsHanded, JobsCounted, Served

(* A slot goes on with its run or leaves the row at rest.                  *)
LEMMA FollowKept ==
    ASSUME ForgottenInv, NEW s \in Session, serving[s] # NoJob, RunLands(s), Follow(s),
           req' = req, handed' = handed, lost' = lost,
           \A a : a = run[s].app /\ run'[s].pc = "idle" => Rest(a)'
    PROVE  (\A b \in App : Kept(b)') /\ JobsCounted'
<1>1. PICK a \in App, j \in JobId :
        /\ Served(s) = a /\ serving[s][1] = a /\ serving[s][2] = j
        /\ serving[s] = <<a, j>> /\ run[s].app = a
        /\ job[a][j].state = "running" /\ a \in handed /\ job[a][j].tries > 0
        /\ job \in JobTable
  BY ServedJob DEF ForgottenInv
<1>2. \A x \in Session \ {s} : serving'[x] = serving[x] /\ run'[x] = run[x]
  BY DEF RunLands, Follow, ForgottenInv, ArqInv, ArqTypeOK
<1>3. CASE run'[s].pc = "idle"
  <2>1. job' = EndJob(a, j)
    BY <1>1, <1>3 DEF Follow, Served
  <2>2. \A b \in App, i \in JobId : b # a \/ i # j =>
          job'[b][i].state = job[b][i].state /\ job'[b][i].tries = job[b][i].tries
    BY <1>1, <2>1, EndJobOthers
  <2>3. ASSUME NEW b \in App \ {a} PROVE Kept(b)'
    <3>1. row'[b] = row[b]
      BY <1>1 DEF RunLands
    <3> QED BY <1>1, <1>2, <2>2, <3>1, OtherRowKept
  <2>4. Kept(a)'
    BY <1>1, <1>3, KeptAtRest
  <2>5. JobsCounted'
    <3>1. job'[a][j].state # "running"
      BY <1>1, <2>1, EndJobType DEF After
    <3> QED BY <2>2, <3>1 DEF JobsCounted, ForgottenInv
  <2> QED BY <2>3, <2>4, <2>5
<1>4. CASE run'[s].pc # "idle"
  <2>1. job' = job /\ serving' = serving
    BY <1>4 DEF Follow
  <2>2. \A b \in App \ {a} : Kept(b)'
    BY <1>1, <1>2, <2>1, OtherRowKept DEF RunLands
  <2>3. Applying(a)' /\ a \notin lost => Started(a)'
    <3> SUFFICES ASSUME Applying(a)', a \notin lost PROVE Started(a)'
      OBVIOUS
    <3>1. CASE run'[s].snap.status = "applying"
      <4>1. RunKnows(a, j)'
        BY <1>1, <2>1, <3>1 DEF RunKnows
      <4> QED BY <1>1, <2>1, <4>1 DEF Started, LiveState
    <3>2. CASE row[a].status = "applying" /\ run[s].snap.status # "applying"
      <4>1. Started(a)
        BY <1>1, <3>2 DEF ForgottenInv, Kept, Applying
      <4>2. PICK i \in JobId : /\ i # j
                               /\ job[a][i].state \in LiveState /\ job[a][i].tries > 0
                               /\ job[a][i].state = "running" => RunKnows(a, i)
        BY <1>1, <3>2, <4>1, StartedBySomeoneElse DEF ForgottenInv
      <4>3. serving[s] # <<a, i>>
        BY <1>1, <4>2
      <4> QED BY <1>2, <2>1, <4>2, <4>3, StartedElsewhere
    <3> QED BY <1>1, <1>4, <3>1, <3>2 DEF RunLands, Applying
  <2>4. Kept(a)'
    BY <1>1, <2>1, <2>3, KeptByJob DEF LiveState
  <2> QED BY <2>1, <2>2, <2>4 DEF JobsCounted, ForgottenInv
<1> QED BY <1>3, <1>4

(* A slot that gives its job back, to be started again, ...                *)
LEMMA GiveBackKept ==
    ASSUME ForgottenInv, NEW s \in Session, serving[s] # NoJob, RunLands(s),
           NEW state \in {"deferred", "ready"}, GiveBack(s, state),
           req' = req, handed' = handed, lost' = lost
    PROVE  (\A b \in App : Kept(b)') /\ JobsCounted'
<1>1. PICK a \in App, j \in JobId :
        /\ Served(s) = a /\ serving[s][1] = a /\ serving[s][2] = j
        /\ serving[s] = <<a, j>> /\ run[s].app = a
        /\ job[a][j].state = "running" /\ a \in handed /\ job[a][j].tries > 0
        /\ job \in JobTable
  BY ServedJob DEF ForgottenInv
<1>2. \A x \in Session \ {s} : serving'[x] = serving[x] /\ run'[x] = run[x]
  BY DEF RunLands, GiveBack, ForgottenInv, ArqInv, ArqTypeOK
<1> DEFINE new == [job[a][j] EXCEPT !.state = state]
<1>3. job' = [job EXCEPT ![a] = [job[a] EXCEPT ![j] = new]]
  BY <1>1 DEF GiveBack
<1>4. new.state = state /\ new.tries = job[a][j].tries
  BY <1>1 DEF JobTable, JobRecord
<1> HIDE DEF new
<1>5. /\ job'[a][j] = new
      /\ \A b \in App, i \in JobId : b # a \/ i # j => job'[b][i] = job[b][i]
  BY <1>1, <1>3 DEF JobTable
<1>6. ASSUME NEW b \in App \ {a} PROVE Kept(b)'
  <2>1. row'[b] = row[b]
    BY <1>1 DEF RunLands
  <2> QED BY <1>1, <1>2, <1>5, <2>1, OtherRowKept
<1>7. Started(a)'
  BY <1>1, <1>4, <1>5 DEF Started, LiveState
<1>8. Kept(a)'
  BY <1>1, <1>4, <1>5, <1>7, KeptByJob DEF LiveState
<1>9. JobsCounted'
  BY <1>4, <1>5 DEF JobsCounted, ForgottenInv
<1> QED BY <1>6, <1>8, <1>9

(* ... one that gives the row up with it, ...                              *)
LEMMA GivenUpKept ==
    ASSUME ForgottenInv, NEW s \in Session, serving[s] # NoJob, RunLands(s),
           Follow(s), req' = req, handed' = handed, lost' = lost \cup {Served(s)}
    PROVE  (\A b \in App : Kept(b)') /\ JobsCounted'
<1>1. PICK a \in App, j \in JobId :
        /\ Served(s) = a /\ serving[s][1] = a /\ serving[s][2] = j
        /\ serving[s] = <<a, j>> /\ run[s].app = a
        /\ job[a][j].state = "running" /\ a \in handed /\ job[a][j].tries > 0
        /\ job \in JobTable
  BY ServedJob DEF ForgottenInv
<1>2. \A x \in Session \ {s} : serving'[x] = serving[x] /\ run'[x] = run[x]
  BY DEF RunLands, Follow, ForgottenInv, ArqInv, ArqTypeOK
<1>3. /\ \A b \in App, i \in JobId : b # a \/ i # j =>
           job'[b][i].state = job[b][i].state /\ job'[b][i].tries = job[b][i].tries
      /\ job'[a][j].state = "running" => job'[a][j].tries > 0
  <2>1. CASE job' = job
    BY <1>1, <2>1
  <2>2. CASE job' = EndJob(a, j)
    BY <1>1, <2>2, EndJobOthers, EndJobType DEF After
  <2> QED BY <1>1, <2>1, <2>2 DEF Follow
<1>4. ASSUME NEW b \in App \ {a} PROVE Kept(b)'
  <2>1. row'[b] = row[b]
    BY <1>1 DEF RunLands
  <2> QED BY <1>1, <1>2, <1>3, <2>1, OtherRowKept
<1>5. Kept(a)'
  BY <1>1, KeptGivenUp
<1>6. JobsCounted'
  BY <1>3 DEF JobsCounted, ForgottenInv
<1> QED BY <1>4, <1>5, <1>6

(* ... and one whose policy hold makes a job of its own.                   *)
LEMMA HoldKept ==
    ASSUME ForgottenInv, NEW s \in Session, RequeueHold(s), RunLands(s), req' = req
    PROVE  (\A b \in App : Kept(b)') /\ JobsCounted'
<1>0. serving[s] # NoJob /\ run[s].pc = "held"
  BY DEF RequeueHold, Requeue
<1>1. PICK a \in App, j \in JobId :
        /\ Served(s) = a /\ serving[s][1] = a /\ serving[s][2] = j
        /\ serving[s] = <<a, j>> /\ run[s].app = a
        /\ job[a][j].state = "running" /\ a \in handed /\ job[a][j].tries > 0
        /\ job \in JobTable
  BY <1>0, ServedJob DEF ForgottenInv
<1>2. /\ \A x \in Session \ {s} : serving'[x] = serving[x] /\ run'[x] = run[x]
      /\ row' = row /\ handed' = handed /\ lost' = lost
  BY <1>1 DEF RunLands, RequeueHold, Requeue, ForgottenInv, ArqInv, ArqTypeOK
<1> DEFINE new == [state |-> "deferred", tries |-> 0, older |-> serving[s][2] = DefaultId]
           ended == EndJob(a, j)
<1>3. PICK h \in HoldId :
        /\ job[a][h].state = "none"
        /\ job' = [ended EXCEPT ![a] = [ended[a] EXCEPT ![h] = new]]
  BY <1>1 DEF RequeueHold
<1>4. /\ h \in JobId /\ h # j /\ new.state = "deferred"
      /\ ended \in JobTable /\ ended[a][j].state # "running"
      /\ \A b \in App, i \in JobId : b # a \/ i # j =>
           ended[b][i].state = job[b][i].state /\ ended[b][i].tries = job[b][i].tries
  BY <1>1, <1>3, EndJobType, EndJobOthers DEF JobId, After
<1> HIDE DEF new, ended
<1>5. \A b \in App, i \in JobId : job'[b][i] = IF b = a /\ i = h THEN new ELSE ended[b][i]
  BY <1>3, <1>4 DEF JobTable
<1>6. ASSUME NEW b \in App \ {a} PROVE Kept(b)'
  <2>1. \A i \in JobId : job'[b][i].state = job[b][i].state /\ job'[b][i].tries = job[b][i].tries
    BY <1>4, <1>5
  <2> QED BY <1>1, <1>2, <2>1, OtherRowKept
<1>7. Applying(a)' /\ a \notin lost => Started(a)'
  <2> SUFFICES ASSUME Applying(a)', a \notin lost PROVE Started(a)'
    OBVIOUS
  <2>1. run[s].snap.status # "applying"
    BY <1>0 DEF ForgottenInv, PipeInv, SnapRunnable
  <2>2. Started(a)
    BY <1>1, <1>2 DEF ForgottenInv, Kept, Applying
  <2>3. PICK i \in JobId :
          /\ i # j
          /\ job[a][i].state \in LiveState /\ job[a][i].tries > 0
          /\ job[a][i].state = "running" => RunKnows(a, i)
    BY <1>0, <1>1, <2>1, <2>2, StartedBySomeoneElse DEF ForgottenInv
  <2>4. serving[s] # <<a, i>>
    BY <1>1, <2>3
  <2>5. i # h
    BY <1>3, <2>3 DEF LiveState
  <2>6. job'[a][i].state = job[a][i].state /\ job'[a][i].tries = job[a][i].tries
    BY <1>4, <1>5, <2>3, <2>5
  <2> QED BY <1>2, <2>3, <2>4, <2>6, StartedElsewhere
<1>8. Kept(a)'
  BY <1>1, <1>2, <1>4, <1>5, <1>7, KeptByJob DEF LiveState
<1>9. JobsCounted'
  <2> SUFFICES ASSUME NEW b \in App, NEW i \in JobId, job'[b][i].state = "running"
               PROVE  job'[b][i].tries > 0
    BY DEF JobsCounted
  <2>1. (b # a \/ i # h) /\ (b # a \/ i # j)
    BY <1>4, <1>5
  <2> QED BY <1>4, <1>5, <2>1 DEF ForgottenInv, JobsCounted
<1> QED BY <1>6, <1>8, <1>9

(* What a worker slot does with the job it serves.                         *)
LEMMA SlotKept ==
    ASSUME ForgottenInv, NEW s \in Session,
           Work(s) \/ WorkerCrash(s) \/ Shutdown(s) \/ ErrorEscapes(s)
    PROVE  (\A b \in App : Kept(b)') /\ JobsCounted'
<1>1. TypeOK /\ PipeInv
  BY DEF ForgottenInv, ArqInv, ArqTypeOK
<1>2. CASE RunJob(s)
  <2>1. /\ serving[s] # NoJob /\ Follow(s) /\ lost' = lost
        /\ handed' = handed /\ req' = req
    BY <1>2 DEF RunJob, StageForReview, Gate, MarkApplying, Click, Report,
                MarkApplied, MarkNeedsVerification, MarkFailed, RunOnly
  <2>2. RunLands(s) /\ \A a : a = run[s].app /\ run'[s].pc = "idle" => Rest(a)'
    BY <1>1, <1>2, JobLands DEF RunJob
  <2> QED BY <2>1, <2>2, FollowKept
<1>3. CASE WaitForSetup(s)
  <2>1. RunLands(s) /\ req' = req /\ handed' = handed
    BY <1>1, <1>3, PauseLands DEF WaitForSetup, MarkWaitingForSetup, RunOnly
  <2> QED BY <1>3, <2>1, GivenUpKept DEF WaitForSetup
<1>4. CASE RequeueHold(s)
  <2>1. RunLands(s) /\ req' = req
    BY <1>1, <1>4, PauseLands DEF RequeueHold, Requeue, RunOnly
  <2> QED BY <1>4, <2>1, HoldKept
<1>5. CASE RetryLater(s)
  <2>1. /\ serving[s] # NoJob /\ TransientError(s) /\ lost' = lost
        /\ req' = req /\ handed' = handed
    BY <1>5 DEF RetryLater, TransientError, RunOnly
  <2>2. RunLands(s)
    BY <1>1, <2>1, PauseLands
  <2>3. CASE run[s].try < MaxTries
    BY <1>5, <2>1, <2>2, <2>3, GiveBackKept DEF RetryLater
  <2>4. CASE ~(run[s].try < MaxTries)
    <3>1. \A a : a = run[s].app => Rest(a)'
      BY <1>1, <2>1, <2>4, PauseLands
    <3> QED BY <1>5, <2>1, <2>2, <2>4, <3>1, FollowKept DEF RetryLater
  <2> QED BY <2>3, <2>4
<1>6. CASE WorkerCrash(s) \/ ErrorEscapes(s)
  <2>1. /\ RunLands(s) /\ serving[s] # NoJob /\ req' = req /\ handed' = handed
    BY <1>1, <1>6, EndLands DEF WorkerCrash, ErrorEscapes, Abort, RunOnly
  <2>2. CASE WorkerCrash(s)
    BY <2>1, <2>2, GiveBackKept DEF WorkerCrash
  <2>3. CASE ErrorEscapes(s)
    BY <2>1, <2>3, GivenUpKept DEF ErrorEscapes
  <2> QED BY <1>6, <2>2, <2>3
<1>7. CASE Shutdown(s)
  <2>1. RunLands(s) /\ serving[s] # NoJob /\ req' = req /\ handed' = handed /\ lost' = lost
    BY <1>1, <1>7, JobLands DEF Shutdown, MarkFailed, RunOnly
  <2> QED BY <1>7, <2>1, GiveBackKept DEF Shutdown
<1> QED BY <1>2, <1>3, <1>4, <1>5, <1>6, <1>7 DEF Work

(* A slot that takes a job.                                                *)
LEMMA TakeKept ==
    ASSUME ForgottenInv, NEW s \in Session, NEW a \in App, NEW j \in JobId, TakeJob(s, a, j)
    PROVE  (\A b \in App : Kept(b)') /\ JobsCounted'
<1>1. /\ job \in JobTable /\ job[a][j] \in JobRecord /\ job[a][j].tries \in Nat
      /\ serving[s] = NoJob /\ job[a][j].state = "ready" /\ a \in handed
  <2>1. job[a][j].state = "ready" /\ serving[s] = NoJob
    BY DEF TakeJob, Deliver, DeliverNotRunnable, DropExhausted, Ready
  <2>2. job \in JobTable /\ job[a][j] \in JobRecord
    BY DEF ForgottenInv, ArqInv, ArqTypeOK, JobTable
  <2>3. job[a][j].tries \in Nat
    BY <2>2, BoundAssumption DEF JobRecord
  <2> QED BY <2>1, <2>2, <2>3 DEF ForgottenInv, ArqInv, JobsHanded
<1>2. CASE DeliverNotRunnable(s, a, j) \/ DropExhausted(s, a, j)
  <2>1. job' = EndJob(a, j) /\ UNCHANGED vars /\ serving' = serving /\ lost \subseteq lost'
    BY <1>2 DEF DeliverNotRunnable, DropExhausted
  <2>2. row' = row /\ run' = run /\ req' = req /\ handed' = handed
    BY <2>1 DEF vars
  <2>3. \A b \in App, i \in JobId : b # a \/ i # j =>
           job'[b][i].state = job[b][i].state /\ job'[b][i].tries = job[b][i].tries
    BY <1>1, <2>1, EndJobOthers
  <2>4. ASSUME NEW b \in App \ {a} PROVE Kept(b)'
    BY <1>1, <2>1, <2>2, <2>3, OtherRowKept
  <2>5. JobsCounted'
    <3>1. job'[a][j].state # "running"
      BY <1>1, <2>1, EndJobType DEF After
    <3> QED BY <2>3, <3>1 DEF JobsCounted, ForgottenInv
  <2>6. CASE DropExhausted(s, a, j)
    <3>1. a \in lost' /\ a \in handed'
      BY <1>1, <2>2, <2>6 DEF DropExhausted
    <3> QED BY <2>4, <2>5, <3>1, KeptGivenUp
  <2>7. CASE DeliverNotRunnable(s, a, j)
    <3>1. row[a].status \notin Claimable /\ lost' = lost
          /\ (row[a].status = "applying" => ~(NextTry(a, j) > 1))
      BY <2>7 DEF DeliverNotRunnable, Runnable
    <3>2. row[a].status = "applying" => ~(job[a][j].tries > 0)
      BY <1>1, <3>1 DEF NextTry
    <3>3. Applying(a) /\ a \notin lost => Started(a)'
      <4> SUFFICES ASSUME Applying(a), a \notin lost PROVE Started(a)'
        OBVIOUS
      <4>1. Started(a) /\ ~(job[a][j].tries > 0)
        BY <1>1, <3>2 DEF ForgottenInv, Kept, Applying
      <4>2. PICK i \in JobId :
              /\ job[a][i].state \in LiveState /\ job[a][i].tries > 0
              /\ job[a][i].state = "running" => RunKnows(a, i)
        BY <4>1 DEF Started
      <4>3. i # j /\ serving[s] # <<a, i>>
        <5>1. <<a, i>> \in App \X JobId
          OBVIOUS
        <5> QED BY <1>1, <4>1, <4>2, <5>1, ArqAssumption
      <4>4. job'[a][i].state = job[a][i].state /\ job'[a][i].tries = job[a][i].tries
        BY <2>3, <4>3
      <4> QED BY <2>1, <2>2, <4>2, <4>3, <4>4, StartedElsewhere
    <3>4. Kept(a)'
      BY <1>1, <2>2, <3>1, <3>3 DEF Kept, Applying
    <3> QED BY <2>4, <2>5, <3>4
  <2> QED BY <1>2, <2>6, <2>7
<1>3. CASE Deliver(s, a, j)
  <2> DEFINE new == [job[a][j] EXCEPT !.state = "running", !.tries = @ + 1]
  <2>1. /\ job' = [job EXCEPT ![a] = [job[a] EXCEPT ![j] = new]]
        /\ serving' = [serving EXCEPT ![s] = <<a, j>>]
        /\ row' = row /\ req' = req /\ handed' = handed /\ lost' = lost
    BY <1>3 DEF Deliver, Load, RunOnly
  <2>2. new.state = "running" /\ new.tries > 0
    BY <1>1 DEF JobRecord
  <2> HIDE DEF new
  <2>3. /\ job'[a][j] = new
        /\ \A b \in App, i \in JobId : b # a \/ i # j => job'[b][i] = job[b][i]
    BY <1>1, <2>1 DEF JobTable
  <2>4. /\ \A x \in Session \ {s} : serving'[x] = serving[x] /\ run'[x] = run[x]
        /\ serving'[s] = <<a, j>> /\ run'[s].snap = row[a]
    BY <1>3, <2>1 DEF Deliver, Load, ForgottenInv, ArqInv, ArqTypeOK, TypeOK
  <2>5. ASSUME NEW b \in App \ {a} PROVE Kept(b)'
    <3>1. \A i \in JobId : job'[b][i] = job[b][i]
      BY <2>3
    <3> QED BY <1>1, <2>1, <2>4, <3>1, OtherRowKept
  <2>6. Applying(a)' => Started(a)'
    BY <2>1, <2>2, <2>3, <2>4 DEF Applying, Started, RunKnows, LiveState
  <2>7. Kept(a)'
    BY <1>1, <2>1, <2>2, <2>3, <2>6, KeptByJob DEF LiveState
  <2>8. JobsCounted'
    BY <2>2, <2>3 DEF JobsCounted, ForgottenInv
  <2> QED BY <2>5, <2>7, <2>8
<1> QED BY <1>2, <1>3 DEF TakeJob

(* Time, and every other step that leaves the rows and the slots alone.    *)
LEMMA QuietKept ==
    ASSUME ForgottenInv, ArqInv', NEW a \in App, UNCHANGED <<row, run, serving>>,
           a \in handed' <=> a \in handed, a \in lost => a \in lost',
           Pledged(a) => Pledged(a)',
           \A j \in JobId :
             /\ GoesOn(a, j)
             /\ job'[a][j].state = "running" => job[a][j].state = "running"
    PROVE  Kept(a)'
<1>1. job \in JobTable /\ job' \in JobTable
  BY DEF ForgottenInv, ArqInv, ArqTypeOK, JobTable
<1>2. Started(a) => Started(a)'
  BY <1>1, StartedStays
<1> QED BY <1>2, KeptAsIs DEF ForgottenInv

LEMMA SameJobsGoOn ==
    ASSUME ForgottenInv, NEW a \in App, NEW j \in JobId, job'[a][j] = job[a][j]
    PROVE  GoesOn(a, j)
<1>1. job[a][j] \in JobRecord
  BY DEF ForgottenInv, ArqInv, ArqTypeOK
<1>2. job[a][j].tries \in Nat
  BY <1>1, BoundAssumption DEF JobRecord
<1> QED BY <1>2 DEF GoesOn

LEMMA TimeKept ==
    ASSUME ForgottenInv, ArqInv', NEW a \in App,
           ForgetResult(a) \/ \E j \in JobId : ComeDue(a, j)
    PROVE  (\A b \in App : Kept(b)') /\ JobsCounted'
<1>0. PICK j \in JobId : \E new :
        /\ job' = [job EXCEPT ![a] = [job[a] EXCEPT ![j] = new]]
        /\ UNCHANGED <<vars, serving, faults, lost>>
        /\ new.state # "running"
        /\ job[a][j].state \in LiveState => new.state \in LiveState /\ new.tries = job[a][j].tries
  <2>1. job \in JobTable
    BY DEF ForgottenInv, ArqInv, ArqTypeOK, JobTable
  <2>2. CASE ForgetResult(a)
    <3> DEFINE new == [job[a][DefaultId] EXCEPT !.state = "none"]
    <3>1. DefaultId \in JobId /\ job[a][DefaultId] \in JobRecord
      BY <2>1 DEF JobId, JobTable
    <3>2. new.state = "none"
      BY <3>1 DEF JobRecord
    <3>3. job' = [job EXCEPT ![a] = [job[a] EXCEPT ![DefaultId] = new]]
      BY <2>2 DEF ForgetResult
    <3> HIDE DEF new
    <3> QED BY <2>2, <3>1, <3>2, <3>3 DEF ForgetResult, LiveState
  <2>3. ASSUME NEW j \in JobId, ComeDue(a, j)
        PROVE  \E new :
                 /\ job' = [job EXCEPT ![a] = [job[a] EXCEPT ![j] = new]]
                 /\ UNCHANGED <<vars, serving, faults, lost>>
                 /\ new.state \in LiveState \ {"running"} /\ new.tries = job[a][j].tries
    <3> DEFINE new == [job[a][j] EXCEPT !.state = "ready", !.older = FALSE]
    <3>1. new.state = "ready" /\ new.tries = job[a][j].tries
      BY <2>1 DEF JobRecord, JobTable
    <3>2. job' = [job EXCEPT ![a] = [job[a] EXCEPT ![j] = new]]
      BY <2>1, <2>3 DEF ComeDue, JobTable
    <3> HIDE DEF new
    <3> QED BY <2>3, <3>1, <3>2 DEF ComeDue, LiveState
  <2> QED BY <2>2, <2>3
<1>1. PICK new :
        /\ job' = [job EXCEPT ![a] = [job[a] EXCEPT ![j] = new]]
        /\ UNCHANGED <<vars, serving, faults, lost>>
        /\ new.state # "running"
        /\ job[a][j].state \in LiveState => new.state \in LiveState /\ new.tries = job[a][j].tries
  BY <1>0
<1>2. /\ job'[a][j] = new
      /\ \A b \in App, i \in JobId : b # a \/ i # j => job'[b][i] = job[b][i]
  BY <1>1 DEF ForgottenInv, ArqInv, ArqTypeOK
<1>3. UNCHANGED <<row, run, serving, handed, lost, req>>
  BY <1>1 DEF vars
<1>4. ASSUME NEW b \in App, NEW i \in JobId
      PROVE  /\ GoesOn(b, i)
             /\ job'[b][i].state = "running" => job[b][i].state = "running" /\ job'[b][i] = job[b][i]
  <2>1. CASE b = a /\ i = j
    <3>1. job[a][j] \in JobRecord
      BY DEF ForgottenInv, ArqInv, ArqTypeOK
    <3>2. job[a][j].tries \in Nat
      BY <3>1, BoundAssumption DEF JobRecord
    <3> QED BY <1>1, <1>2, <2>1, <3>2 DEF GoesOn
  <2>2. CASE ~(b = a /\ i = j)
    BY <1>2, <2>2, SameJobsGoOn
  <2> QED BY <2>1, <2>2
<1>5. \A b \in App : Pledged(b) => Pledged(b)'
  BY <1>3 DEF Pledged
<1>6. \A b \in App : Kept(b)'
  BY <1>3, <1>4, <1>5, QuietKept
<1>7. JobsCounted'
  BY <1>4 DEF JobsCounted, ForgottenInv
<1> QED BY <1>6, <1>7

-----------------------------------------------------------------------------
(* The owner.                                                              *)

LEMMA PledgedElsewhere ==
    ASSUME NEW a, NEW t \in Tab, \A u \in Tab \ {t} : req'[u] = req[u], Pledged(a),
           a \notin req[t].apps \/ req[t].op \notin {"refresh", "rerun", "enqueue"}
    PROVE  Pledged(a)'
BY DEF Pledged

(* enqueue_job takes the row, or finds a job that has not started.         *)
LEMMA EnqueueKept ==
    ASSUME ForgottenInv, ArqInv', NEW t \in Tab, EnqueueJobs(t) \/ EnqueueFails(t)
    PROVE  (\A a \in App : Kept(a)') /\ JobsCounted'
<1> DEFINE apps == req[t].apps
<1>1. /\ row' = row /\ run' = run /\ serving' = serving /\ handed' = handed \cup apps
      /\ \A u \in Tab \ {t} : req'[u] = req[u]
      /\ apps \subseteq App
  BY ArqAssumption DEF EnqueueJobs, EnqueueFails, Enqueue, OwnerOnly, Finish,
                       ForgottenInv, ArqInv, ArqTypeOK, TypeOK, Request
<1>2. ASSUME NEW a \in App
      PROVE  /\ \A j \in JobId : \/ job'[a][j] = job[a][j]
                               \/ /\ j = DefaultId /\ job[a][j].state = "none"
                                  /\ job'[a][j].state = "ready"
             /\ a \notin apps => job'[a] = job[a]
             /\ EnqueueJobs(t) /\ a \in apps => job'[a][DefaultId].state # "none"
  <2>1. CASE ~EnqueueJobs(t)
    BY <2>1 DEF EnqueueFails
  <2>2. CASE EnqueueJobs(t)
    <3> DEFINE new == [NewJob EXCEPT !.state = "ready"]
    <3>1. new.state = "ready" /\ DefaultId \in JobId
      BY DEF NewJob, JobId
    <3>2. job[a] \in [JobId -> JobRecord]
      BY DEF ForgottenInv, ArqInv, ArqTypeOK
    <3>3. job'[a] = IF a \in apps /\ job[a][DefaultId].state = "none"
                    THEN [job[a] EXCEPT ![DefaultId] = new] ELSE job[a]
      BY <2>2 DEF EnqueueJobs, Enqueued
    <3> HIDE DEF new
    <3> QED BY <3>1, <3>2, <3>3
  <2> QED BY <2>1, <2>2
<1>3. ASSUME NEW a \in App, NEW j \in JobId
      PROVE  /\ GoesOn(a, j)
             /\ job'[a][j].state = "running" => /\ job[a][j].state = "running"
                                               /\ job'[a][j] = job[a][j]
  BY <1>2, SameJobsGoOn DEF GoesOn, LiveState
<1>4. ASSUME NEW a \in App \ apps PROVE Kept(a)'
  <2>1. a \in lost => a \in lost'
    BY DEF EnqueueJobs, EnqueueFails
  <2>2. Pledged(a) => Pledged(a)'
    BY <1>1, PledgedElsewhere
  <2> QED BY <1>1, <1>3, <2>1, <2>2, QuietKept
<1>5. ASSUME NEW a \in apps PROVE Kept(a)'
  <2>1. a \in App /\ a \in handed'
    BY <1>1
  <2>2. CASE a \in lost'
    BY <2>1, <2>2, KeptGivenUp
  <2>3. CASE a \notin lost'
    <3>1. EnqueueJobs(t) /\ job[a][DefaultId].state \notin {"running", "retained"}
      BY <2>1, <2>3 DEF EnqueueJobs, EnqueueFails
    <3>2. job[a][DefaultId].state \in {"none", "deferred", "ready"} /\ DefaultId \in JobId
      BY <2>1, <3>1 DEF ForgottenInv, ArqInv, ArqTypeOK, JobRecord, JobId
    <3>3. job'[a][DefaultId].state \in LiveState
      BY <1>2, <2>1, <3>1, <3>2 DEF LiveState
    <3>4. Applying(a)' => Started(a)'
      <4> SUFFICES ASSUME Applying(a) PROVE Started(a)'
        BY <1>1 DEF Applying
      <4>1. a \notin lost
        BY <2>3, <3>1 DEF EnqueueJobs, Applying, Claimable
      <4>2. Started(a)
        BY <2>1, <4>1 DEF ForgottenInv, Kept
      <4>3. job \in JobTable /\ job' \in JobTable
        BY DEF ForgottenInv, ArqInv, ArqTypeOK, JobTable
      <4> QED BY <1>1, <1>3, <2>1, <4>2, <4>3, StartedStays
    <3> QED BY <2>1, <3>2, <3>3, <3>4, KeptByJob
  <2> QED BY <2>2, <2>3
<1>6. JobsCounted'
  BY <1>3 DEF JobsCounted, ForgottenInv
<1> QED BY <1>4, <1>5, <1>6

(* A request that is under way, or is begun, and writes no row.            *)
LEMMA RequestKept ==
    ASSUME ForgottenInv, ArqInv', NEW a \in App, UNCHANGED <<row, run, handed, job, serving, lost>>,
           Pledged(a) => Pledged(a)' \/ row[a].status \notin Claimable
    PROVE  Kept(a)'
<1>1. \A j \in JobId : GoesOn(a, j)
  BY SameJobsGoOn
<1>2. CASE Pledged(a) => Pledged(a)'
  BY <1>1, <1>2, QuietKept
<1>3. CASE row[a].status \notin Claimable
  <2>1. Started(a) => Started(a)'
    BY DEF Started, RunKnows
  <2> QED BY <1>3, <2>1 DEF Kept, ForgottenInv, Applying
<1> QED BY <1>2, <1>3

LEMMA CommandKept ==
    ASSUME ForgottenInv, ArqInv', NEW t \in Tab, OwnerCommand(t),
           UNCHANGED <<job, serving, lost>>
    PROVE  \A a \in App : Kept(a)'
<1>1. /\ run' = run /\ handed' = handed /\ req[t].op = "none"
      /\ \A u \in Tab \ {t} : req'[u] = req[u]
  BY DEF OwnerCommand, CreateNew, CreateExisting, ApproveAgain, Approve, UpdateStatus,
         ResolveBlocker, Command, Begin, OwnerOnly, ForgottenInv, ArqInv, ArqTypeOK, TypeOK
<1>2. \A a : Pledged(a) => Pledged(a)'
  BY <1>1, PledgedElsewhere
<1>3. ASSUME NEW a \in App, row'[a] = row[a] PROVE Kept(a)'
  <2>1. \A j \in JobId : GoesOn(a, j)
    BY SameJobsGoOn
  <2>2. Started(a) => Started(a)'
    BY <1>1 DEF Started, RunKnows
  <2> QED BY <1>1, <1>2, <1>3, <2>1, <2>2, KeptAsIs DEF ForgottenInv
<1>4. ASSUME NEW a \in App, NEW m \in Mode, CreateNew(t, a, m)
      PROVE  \A b \in App : Kept(b)'
  <2>1. /\ row[a].status = "absent" /\ row'[a] = NewRow(m, InitialStatus(m))
        /\ \A b \in App \ {a} : row'[b] = row[b]
    BY <1>4 DEF CreateNew, ForgottenInv, ArqInv, ArqTypeOK, TypeOK
  <2>2. a \notin handed'
    BY <1>1, <2>1 DEF ForgottenInv, ConsentInv, RowSafe
  <2>3. row'[a].status # "applying"
    BY <2>1 DEF NewRow, InitialStatus
  <2>4. Kept(a)'
    BY <2>2, <2>3 DEF Kept, Applying
  <2> QED BY <1>3, <2>1, <2>4
<1>5. CASE ~\E a \in App, m \in Mode : CreateNew(t, a, m)
  <2>1. row' = row
    BY <1>5 DEF OwnerCommand, CreateExisting, ApproveAgain, Approve, UpdateStatus, ResolveBlocker
  <2> QED BY <1>3, <2>1
<1> QED BY <1>4, <1>5

(* A commit makes a row claimable only if the request then enqueues it.    *)
LEMMA CommitKept ==
    ASSUME ForgottenInv, ArqInv', NEW t \in Tab, NEW new \in [App -> Row], NEW op,
           CommitRequest(t, new, op), OwnerOnly, handed' = handed,
           UNCHANGED <<job, serving, lost>>,
           op \in {"none", "refresh", "enqueue"},
           req[t].op \notin {"refresh", "enqueue"},
           req[t].op = "rerun" => op = "enqueue" /\ UniqueActive(row) /\
             \A a \in req[t].apps : new[a].status = req[t].snap[a].status,
           \A a \in req[t].apps :
             \/ new[a].status = req[t].snap[a].status
             \/ new[a].status \notin Claimable \cup {"applying"}
             \/ new[a].status \in Claimable /\ op # "none"
             \/ new[a].status = "applying" /\ ~NeverSetApplying
    PROVE  \A a \in App : Kept(a)'
<1>1. TypeOK /\ run' = run
  BY DEF ForgottenInv, ArqInv, ArqTypeOK, OwnerOnly
<1>2. ASSUME NEW a \in App, row'[a].status = row[a].status, Pledged(a) => Pledged(a)'
      PROVE  Kept(a)'
  <2>1. \A j \in JobId : GoesOn(a, j)
    BY SameJobsGoOn
  <2>2. Started(a) => Started(a)'
    BY <1>1 DEF Started, RunKnows
  <2> QED BY <1>2, <2>1, <2>2, KeptAsIs DEF ForgottenInv
<1>3. CASE row' = row /\ req'[t] = NoRequest /\ req[t].op # "rerun"
  <2>1. \A u \in Tab \ {t} : req'[u] = req[u]
    BY <1>1, CommitRequestMoves
  <2>2. \A a : Pledged(a) => Pledged(a)'
    BY <1>3, <2>1, PledgedElsewhere
  <2> QED BY <1>2, <1>3, <2>2
<1>4. CASE ~(row' = row /\ req'[t] = NoRequest /\ req[t].op # "rerun")
  <2>1. req[t].op = "rerun" => ~(req'[t] = NoRequest)
    <3> SUFFICES ASSUME req[t].op = "rerun" PROVE req'[t] # NoRequest
      OBVIOUS
    <3> DEFINE rows == [a \in App |-> IF a \in req[t].apps
                                      THEN Merge(row[a], req[t].snap[a], new[a])
                                      ELSE row[a]]
    <3>1. \A a \in App : rows[a].status = row[a].status
      <4>1. ASSUME NEW a \in req[t].apps
            PROVE  Merge(row[a], req[t].snap[a], new[a]).status = row[a].status
        <5>1. a \in App /\ row[a] \in Row /\ req[t].snap[a] \in Row /\ new[a] \in Row
          BY <1>1 DEF TypeOK, Request
        <5> QED BY <5>1, MergeValues
      <4> QED BY <4>1
    <3> HIDE DEF rows
    <3>2. UniqueActive(rows)
      BY <3>1 DEF UniqueActive
    <3>3. Continue(t, "enqueue")
      BY <3>2 DEF CommitRequest, rows
    <3>4. req'[t].op = "enqueue"
      BY <1>1, <3>3 DEF Continue, TypeOK, Request
    <3> QED BY <3>4 DEF NoRequest
  <2>2. /\ \A u \in Tab \ {t} : req'[u] = req[u]
        /\ \A a \in App \ req[t].apps : row'[a] = row[a]
        /\ \A a \in req[t].apps : row'[a].status = IF new[a].status = req[t].snap[a].status
                                                  THEN row[a].status ELSE new[a].status
        /\ \/ op = "none" /\ req'[t] = NoRequest
           \/ op # "none" /\ req'[t].op = op /\ req'[t].apps = req[t].apps
    <3>1. [req[t] EXCEPT !.op = op].op = op /\ [req[t] EXCEPT !.op = op].apps = req[t].apps
      BY <1>1 DEF TypeOK, Request
    <3>2. ~(row' = row /\ req'[t] = NoRequest)
      BY <1>4, <2>1
    <3>3. /\ \A u \in Tab \ {t} : req'[u] = req[u]
          /\ \A a \in App \ req[t].apps : row'[a] = row[a]
          /\ \A a \in req[t].apps :
               row'[a].status = IF new[a].status = req[t].snap[a].status
                                THEN row[a].status ELSE new[a].status
          /\ \/ op = "none" /\ req'[t] = NoRequest
             \/ op # "none" /\ req'[t] = [req[t] EXCEPT !.op = op]
      BY <1>1, <3>2, CommitRequestMoves
    <3> QED BY <3>1, <3>3
  <2>3. \A a : Pledged(a) => Pledged(a)'
    <3>1. CASE req[t].op = "rerun"
      BY <2>2, <3>1 DEF Pledged
    <3>2. CASE req[t].op # "rerun"
      BY <2>2, <3>2, PledgedElsewhere
    <3> QED BY <3>1, <3>2
  <2>4. ASSUME NEW a \in App, row'[a].status # row[a].status PROVE Kept(a)'
    <3>1. a \in req[t].apps /\ row'[a].status = new[a].status
          /\ new[a].status # req[t].snap[a].status
      BY <2>2, <2>4
    <3>2. CASE new[a].status \notin Claimable \cup {"applying"}
      BY <3>1, <3>2, KeptAtRest DEF Rest
    <3>3. CASE new[a].status \in Claimable /\ op # "none"
      <4>1. Pledged(a)'
        BY <2>2, <3>1, <3>3 DEF Pledged
      <4> QED BY <3>1, <3>3, <4>1 DEF Kept, Applying, Claimable
    <3>4. CASE new[a].status = "applying" /\ ~NeverSetApplying
      BY <3>1, <3>4 DEF Kept, Applying, Claimable, NeverSetApplying
    <3> QED BY <3>1, <3>2, <3>3, <3>4
  <2> QED BY <1>2, <2>3, <2>4
<1> QED BY <1>3, <1>4

LEMMA OwnerRequestKept ==
    ASSUME ForgottenInv, ArqInv', NEW t \in Tab, RequestStep(t), req[t].op # "enqueue",
           UNCHANGED <<job, serving, lost>>
    PROVE  \A a \in App : Kept(a)'
<1>1. req[t] \in Request /\ ReqSafe(t) /\ TypeOK
  BY DEF ForgottenInv, ArqInv, ArqTypeOK, TypeOK, ConsentInv
<1>2. \A a \in App : req[t].snap[a] \in Row
  BY <1>1 DEF Request
<1>3. UniqueActive(row) /\ OneRow(t) /\ req[t].apps \subseteq App
  BY <1>1 DEF ForgottenInv, PipeInv, Request
<1>4. CASE Refresh(t) \/ Rerun(t)
  <2>1. /\ row' = row /\ run' = run /\ handed' = handed /\ req[t].op \in {"created", "refresh"}
        /\ \A u \in Tab \ {t} : req'[u] = req[u]
    BY <1>1, <1>4, RereadMoves DEF Refresh, Rerun, Finish, OwnerOnly, TypeOK
  <2>2. ASSUME NEW a \in App PROVE Pledged(a) => Pledged(a)' \/ row[a].status \notin Claimable
    <3>1. CASE a \notin req[t].apps \/ req[t].op # "refresh"
      BY <2>1, <3>1, PledgedElsewhere
    <3>2. CASE a \in req[t].apps /\ req[t].op = "refresh"
      <4>1. req[t].apps = {a} /\ Rerun(t)
        BY <1>3, <1>4, <3>2 DEF OneRow, Refresh
      <4>2. CASE row[a].status \in Claimable
        <5>1. Reread(t, "rerun")
          BY <4>1, <4>2 DEF Rerun
        <5>2. req'[t].op = "rerun" /\ req'[t].apps = req[t].apps
          BY <1>1, <5>1, RereadMoves
        <5> QED BY <3>2, <5>2 DEF Pledged
      <4> QED BY <4>2
    <3> QED BY <3>1, <3>2
  <2> QED BY <2>1, <2>2, RequestKept
<1>5. CASE DispatchForMode(t)
  <2> DEFINE new == [a \in App |-> [req[t].snap[a] EXCEPT
                                !.status = InitialStatus(req[t].snap[a].mode)]]
             op == IF \A a \in req[t].apps : req[t].snap[a].mode = "autonomous"
                   THEN "enqueue" ELSE "none"
  <2>1. /\ CommitRequest(t, new, op) /\ req[t].op = "dispatch"
        /\ OwnerOnly /\ handed' = handed
    BY <1>5 DEF DispatchForMode
  <2>2. new \in [App -> Row] /\ \A a \in App : new[a].status = InitialStatus(req[t].snap[a].mode)
    BY <1>2 DEF Row, Status, InitialStatus
  <2>3. \A a \in req[t].apps :
          \/ new[a].status \notin Claimable \cup {"applying"}
          \/ new[a].status \in Claimable /\ op # "none"
    <3>1. PICK b \in App : req[t].apps = {b}
      BY <1>3, <2>1 DEF OneRow
    <3>2. CASE req[t].snap[b].mode = "autonomous"
      BY <2>2, <3>1, <3>2 DEF InitialStatus, Claimable
    <3>3. CASE req[t].snap[b].mode # "autonomous"
      BY <2>2, <3>1, <3>3 DEF InitialStatus, Claimable
    <3> QED BY <3>2, <3>3
  <2>4. op \in {"none", "refresh", "enqueue"}
    OBVIOUS
  <2> HIDE DEF new, op
  <2> QED BY <2>1, <2>2, <2>3, <2>4, CommitKept
<1>6. CASE CommitApproval(t) \/ CommitResolve(t)
  <2>1. PICK st \in {"approved", "queued"} :
          /\ CommitRequest(t, [a \in App |-> [req[t].snap[a] EXCEPT
                                 !.status = st,
                                 !.resume = MarkApproved(@, req[t].n)]], "enqueue")
          /\ OwnerOnly /\ handed' = handed
          /\ req[t].op \in {"approve", "resolve"}
    BY <1>6 DEF CommitApproval, CommitResolve
  <2> DEFINE new == [a \in App |-> [req[t].snap[a] EXCEPT
                                 !.status = st,
                                 !.resume = MarkApproved(@, req[t].n)]]
  <2>2. new \in [App -> Row]
    BY <1>1, <1>2, MarkApprovedType DEF Request, Row, Status
  <2>3. \A a \in req[t].apps : new[a].status \in Claimable
    BY <1>2, <1>3 DEF Row, Claimable
  <2>4. CommitRequest(t, new, "enqueue")
    BY <2>1
  <2> HIDE DEF new
  <2> QED BY <2>1, <2>2, <2>3, <2>4, CommitKept
<1>7. CASE CommitUpdate(t)
  <2> DEFINE new == [a \in App |-> [req[t].snap[a] EXCEPT !.status = req[t].to]]
  <2>1. /\ CommitRequest(t, new, "refresh") /\ req[t].op = "update"
        /\ OwnerOnly /\ handed' = handed
    BY <1>7 DEF CommitUpdate
  <2>2. req[t].to \in OwnerStatus /\ req[t].to \in Status
    BY <1>1, <2>1, StatusAssumption DEF ReqSafe, Request
  <2>3. new \in [App -> Row] /\ \A a \in App : new[a].status = req[t].to
    BY <1>2, <2>2 DEF Row
  <2>4. req[t].to = "applying" => ~NeverSetApplying
    BY <2>2 DEF NeverSetApplying
  <2> HIDE DEF new
  <2> QED BY <1>3, <2>1, <2>3, <2>4, CommitKept
<1>8. CASE MarkRerun(t)
  <2> DEFINE new == [a \in App |-> [req[t].snap[a] EXCEPT
                                 !.resume = MarkApproved(@, req[t].n)]]
  <2>1. /\ CommitRequest(t, new, "enqueue") /\ req[t].op = "rerun"
        /\ OwnerOnly /\ handed' = handed
    BY <1>8 DEF MarkRerun
  <2>2. new \in [App -> Row]
    BY <1>1, <1>2, MarkApprovedType DEF Request, Row
  <2>3. \A a \in req[t].apps : new[a].status = req[t].snap[a].status
    BY <1>2, <1>3 DEF Row
  <2> HIDE DEF new
  <2> QED BY <1>3, <2>1, <2>2, <2>3, CommitKept
<1> QED BY <1>4, <1>5, <1>6, <1>7, <1>8 DEF RequestStep, Enqueue

LEMMA OwnerKept ==
    ASSUME ForgottenInv, ArqInv', OwnerAct
    PROVE  (\A a \in App : Kept(a)') /\ JobsCounted'
<1>1. JobsCounted'
  BY DEF OwnerAct, ForgottenInv, JobsCounted
<1>2. CASE TogglePause
  <2>1. UNCHANGED <<row, run, req, handed, job, serving, lost>>
    BY <1>2 DEF OwnerAct, TogglePause, OwnerOnly
  <2>2. \A a \in App : Pledged(a) => Pledged(a)'
    BY <2>1 DEF Pledged
  <2> QED BY <1>1, <2>1, <2>2, RequestKept
<1> QED BY <1>1, <1>2, CommandKept, OwnerRequestKept DEF OwnerAct

-----------------------------------------------------------------------------
LEMMA ForgottenInit == ArqInit => ForgottenInv
<1> SUFFICES ASSUME ArqInit PROVE ForgottenInv
  OBVIOUS
<1>1. ArqInv /\ ConsentInv /\ PipeInv
  BY ArqInvInit, ConsentInit, PipeInit DEF ArqInit
<1>2. JobsCounted
  BY DEF ArqInit, NewJob, JobsCounted
<1>3. \A a \in App : Kept(a)
  BY DEF ArqInit, Init, Kept, Applying, NewRow, NoRow
<1> QED BY <1>1, <1>2, <1>3 DEF ForgottenInv

LEMMA ForgottenNext == ForgottenInv /\ [ArqNext]_arqVars => ForgottenInv'
<1> SUFFICES ASSUME ForgottenInv, [ArqNext]_arqVars PROVE ForgottenInv'
  OBVIOUS
<1>1. [Next]_vars /\ ArqInv'
  BY ArqStepRefines, ArqInvNext DEF ForgottenInv
<1>2. ConsentInv' /\ PipeInv'
  BY <1>1, ConsentNext, PipeNext DEF ForgottenInv, ArqInv, ArqTypeOK
<1>3. (\A a \in App : Kept(a)') /\ JobsCounted'
  <2>1. CASE UNCHANGED arqVars
    <3>1. UNCHANGED <<row, run, req, handed, job, serving, lost>>
      BY <2>1 DEF arqVars, vars
    <3> QED BY <1>1, <3>1, RequestKept DEF ForgottenInv, JobsCounted, Pledged
  <2> QED BY <1>1, <2>1, OwnerKept, EnqueueKept, TimeKept, TakeKept, SlotKept DEF ArqNext
<1> QED BY <1>1, <1>2, <1>3 DEF ForgottenInv

LEMMA ForgottenAlways == ArqSafety => []ForgottenInv
BY ForgottenInit, ForgottenNext, PTL DEF ArqSafety

(* A row that waits to go out has a job that will look at it or a request  *)
(* that holds it, in whatever order jobs, retries, holds, results and      *)
(* requests come and whatever crashes ...                                  *)
THEOREM WaitingIsWatched ==
    ArqSafety => [](\A a \in App : a \in handed \ lost /\ row[a].status \in Claimable =>
                      Live(a) \/ \E t \in Tab : a \in req[t].apps)
<1>1. ForgottenInv => \A a \in App : a \in handed \ lost /\ row[a].status \in Claimable =>
                        Live(a) \/ \E t \in Tab : a \in req[t].apps
  BY DEF ForgottenInv, Kept, Pledged
<1> QED BY <1>1, ForgottenAlways, PTL

(* ... and so has one that is on its way, unless a caller of the API calls *)
(* a row APPLYING that nobody applies for.                                 *)
THEOREM NoneForgotten ==
    ASSUME "applying" \notin OwnerStatus
    PROVE  ArqSafety => []NothingForgotten
<1>1. ForgottenInv => NothingForgotten
  <2> SUFFICES ASSUME ForgottenInv, NEW a \in App, a \in handed \ lost,
                      row[a].status \in Claimable \cup {"applying"}
               PROVE  Live(a) \/ \E t \in Tab : a \in req[t].apps
    BY DEF NothingForgotten
  <2>1. CASE row[a].status \in Claimable
    BY <2>1 DEF ForgottenInv, Kept, Pledged
  <2>2. CASE row[a].status = "applying"
    BY <2>2 DEF ForgottenInv, Kept, Applying, NeverSetApplying, Started, Live, LiveState
  <2> QED BY <2>1, <2>2
<1> QED BY <1>1, ForgottenAlways, PTL
=============================================================================
