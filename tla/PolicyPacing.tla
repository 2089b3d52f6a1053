---------------------------- MODULE PolicyPacing ----------------------------
(***************************************************************************)
(* The automation policy over time: several workers gate applications      *)
(* against facts counted over the applications table (build_context of     *)
(* services/policy.py), submit them and record the outcome, while the      *)
(* owner and the inbox sync edit the same rows.                            *)
(*                                                                         *)
(* The facts count what is COMMITTED as submitted; an application on its   *)
(* way to an employer is APPLYING and counts for nothing.  A row here is   *)
(* past the review guard that ApplyPipeline models.                        *)
(***************************************************************************)
EXTENDS PolicyEngine, FiniteSets

CONSTANTS
    App,           \* rows of the applications table
    Worker,        \* concurrent jobs: max_jobs, or database-queue workers
    NoApp,         \* an idle worker's row
    Policy,        \* the owner's policy
    Facts,         \* [App -> what the posting itself tells the rules]
    PostingOf,     \* [App -> posting], also across job rows (canonical id)
    CompanyOf,     \* [App -> company]
    SimilarTo,     \* [App -> rows of similar title at the same company]
    PortalOf,      \* [App -> portal]
    HourLength, DayLength, WeekLength,   \* ticks
    Old,           \* an age that no rule tells from a greater one
    HistoryLimit,  \* rows of a portal that _source_history reads
    OwnerStatus,   \* statuses the owner or the inbox sync may set
    MaxCommands,   \* bound: such edits
    ApprovedBefore \* rows the owner had approved when they were queued

Status == {"queued", "approved", "applying", "applied", "interview",
           "rejected", "offer", "pending_review", "withdrawn", "failed"}
Claimable == {"queued", "approved"}
Runnable  == Claimable \cup {"applying"}     \* APPLYING: an arq retry

ASSUME PacingAssumption ==
    /\ IsFiniteSet(App) /\ IsFiniteSet(Worker) /\ Worker # {}
    /\ NoApp \notin App
    /\ {HourLength, DayLength, WeekLength, Old, HistoryLimit, MaxCommands}
            \subseteq Nat
    /\ {Policy.max_per_day, Policy.max_per_hour, Policy.min_between,
        Policy.max_per_company, Policy.cooldown} \subseteq Nat
    /\ \A n \in {HourLength, DayLength, WeekLength, Policy.min_between,
                 Policy.cooldown} : n < Old
    /\ OwnerStatus \subseteq Status

Submitted == {"applied", "interview", "rejected", "offer"}

VARIABLES
    status,    \* [App -> Status]
    approved,  \* [App -> BOOLEAN]: the owner approved the row
    age,       \* [App -> 0 .. Old]: ticks since applied_at (Old: or never)
    newer,     \* [App -> rows updated after it]: the order of updated_at
    work,      \* [Worker -> row it is submitting]
    acts,      \* edits made
    paced      \* ghost: the latest submission of the row passed the gate

vars == <<status, approved, age, newer, work, acts, paced>>

TypeOK ==
    /\ status \in [App -> Status]
    /\ approved \in [App -> BOOLEAN]
    /\ age \in [App -> 0 .. Old]
    /\ newer \in [App -> SUBSET App]
    /\ work \in [Worker -> App \cup {NoApp}]
    /\ acts \in Nat
    /\ paced \in [App -> BOOLEAN]

Init ==
    /\ status = [a \in App |-> "queued"]
    /\ approved = [a \in App |-> a \in ApprovedBefore]
    /\ age = [a \in App |-> Old]
    /\ newer = [a \in App |-> {}]
    /\ work = [w \in Worker |-> NoApp]
    /\ acts = 0
    /\ paced = [a \in App |-> FALSE]

-----------------------------------------------------------------------------
(* The facts: build_context.                                               *)

(* Mutant: the window of a cap is forgotten.                               *)
SubmittedEver(n) == {b \in App : status[b] \in Submitted}

(* Rows recorded as submitted, stamped within the last n ticks.            *)
SubmittedSince(n) == {b \in App : status[b] \in Submitted /\ age[b] <= n}

Latest(rows) ==
    IF rows = {} THEN Unknown
    ELSE CHOOSE n \in {age[b] : b \in rows} : \A b \in rows : n <= age[b]

AppliedRows(rows) == {b \in rows : status[b] \in Submitted}

(* Mutant: an application the employer has answered is forgotten.          *)
DuplicateAppliedOnly(a) ==
    \E b \in App \ {a} : PostingOf[b] = PostingOf[a] /\ status[b] = "applied"

(* An earlier application to the same posting.                             *)
Duplicate(a) ==
    \E b \in App \ {a} : PostingOf[b] = PostingOf[a] /\ status[b] \in Submitted

(* The most recently updated rows of a portal.                             *)
History(portal) ==
    LET rows == {b \in App : PortalOf[b] = portal}
    IN  {b \in rows : Cardinality(newer[b] \cap rows) < HistoryLimit}

(* Failures on the portal since its last recorded submission.              *)
FailuresOn(portal) ==
    {b \in History(portal) :
        /\ status[b] = "failed"
        /\ \A c \in newer[b] \cap History(portal) : status[c] \notin Submitted}

Context(a) ==
    [today        |-> Cardinality(SubmittedSince(DayLength)),
     this_hour    |-> Cardinality(SubmittedSince(HourLength)),
     company_week |-> Cardinality({b \in SubmittedSince(WeekLength) :
                                     CompanyOf[b] = CompanyOf[a]}),
     gap          |-> Latest(AppliedRows(App \ {a})),
     duplicate    |-> Duplicate(a),
     last_similar |-> Latest(AppliedRows(SimilarTo[a] \ {a})),
     failures     |-> Cardinality(FailuresOn(PortalOf[a])),
     first_run    |-> \A b \in History(PortalOf[a]) : status[b] \notin Submitted,
     eligibility_questions |-> FALSE,   \* the worker passes neither of
     challenge    |-> FALSE,            \* these two to the gate
     window_open  |-> TRUE,             \* RunWindow models the window
     ats          |-> Facts[a].ats,
     salary       |-> Facts[a].salary,
     other_seniority  |-> Facts[a].other_seniority,
     employer_blocked |-> Facts[a].employer_blocked,
     not_sponsor      |-> Facts[a].not_sponsor]

-----------------------------------------------------------------------------
(* The workers.                                                            *)

Busy == {work[w] : w \in Worker} \ {NoApp}

(* A commit moves the row to the front of the order of updates.            *)
Touch(a) == newer' = [b \in App |-> IF b = a THEN {} ELSE newer[b] \cup {a}]

SetStatus(a, st) == status' = [status EXCEPT ![a] = st]

(* The row is loaded and gated; the advisory lock, or arq's job id, keeps  *)
(* other workers away from it.                                             *)
Gated(w, a, verdict) ==
    /\ work[w] = NoApp
    /\ a \notin Busy /\ status[a] \in Runnable
    /\ \E c \in {Context(a)} : Enforced(Policy, c, {}, approved[a]) = verdict
    /\ UNCHANGED <<approved, age, acts, paced>>

Release(w, a) ==
    /\ Gated(w, a, "allow")
    /\ SetStatus(a, "applying") /\ Touch(a)
    /\ work' = [work EXCEPT ![w] = a]

(* Mutant: the verdict is stored as the status.                            *)
HoldBackAsVerdict(w, a) ==
    /\ Gated(w, a, "hold")
    /\ SetStatus(a, "hold") /\ Touch(a)
    /\ UNCHANGED work

(* A hold writes the row only if its note or status changes.               *)
HoldBack(w, a) ==
    /\ Gated(w, a, "hold")
    /\ SetStatus(a, "queued")
    /\ Touch(a) \/ (status[a] = "queued" /\ UNCHANGED newer)
    /\ UNCHANGED work

Escalate(w, a) ==
    /\ Gated(w, a, "escalate")
    /\ SetStatus(a, "pending_review") /\ Touch(a)
    /\ UNCHANGED work

Block(w, a) ==
    /\ Gated(w, a, "block")
    /\ SetStatus(a, "failed") /\ Touch(a)
    /\ UNCHANGED work

(* The employer has the application, and the run says so.                  *)
Submit(w) ==
    LET a == work[w]
    IN  /\ a # NoApp
        /\ SetStatus(a, "applied") /\ Touch(a)
        /\ age' = [age EXCEPT ![a] = 0]
        /\ paced' = [paced EXCEPT ![a] = TRUE]
        /\ work' = [work EXCEPT ![w] = NoApp]
        /\ UNCHANGED <<approved, acts>>

(* Any other end of the run: a failure, a verification wall, a missing     *)
(* prerequisite, a transient error, or a crash that leaves it APPLYING.    *)
EndRun(w, st) ==
    LET a == work[w]
    IN  /\ a # NoApp
        /\ SetStatus(a, st) /\ Touch(a)
        /\ work' = [work EXCEPT ![w] = NoApp]
        /\ UNCHANGED <<approved, age, acts, paced>>

-----------------------------------------------------------------------------
(* The hand-back, the owner, the inbox sync and the clock.                 *)

(* release_interrupted gives a row that looks abandoned to the owner.      *)
HandBack(a) ==
    /\ status[a] = "applying"
    /\ SetStatus(a, "pending_review") /\ Touch(a)
    /\ UNCHANGED <<approved, age, work, acts, paced>>

(* approve_application, update_status or a mail that moves the status: a   *)
(* row set to APPLIED is stamped now, one made claimable is approved.      *)
Edit(a, st) ==
    /\ acts < MaxCommands
    /\ acts' = acts + 1
    /\ SetStatus(a, st) /\ Touch(a)
    /\ age' = [age EXCEPT ![a] = IF st = "applied" THEN 0 ELSE @]
    /\ approved' = [approved EXCEPT ![a] = @ \/ st \in Claimable]
    /\ paced' = [paced EXCEPT
                   ![a] = @ /\ ~(/\ st \in Submitted
                                 /\ status[a] \notin Submitted \/ st = "applied")]
    /\ UNCHANGED work

Tick ==
    /\ \E a \in App : age[a] < Old
    /\ age' = [a \in App |-> IF age[a] < Old THEN age[a] + 1 ELSE Old]
    /\ UNCHANGED <<status, approved, newer, work, acts, paced>>

Next ==
    \/ \E w \in Worker, a \in App :
         Release(w, a) \/ HoldBack(w, a) \/ Escalate(w, a) \/ Block(w, a)
    \/ \E w \in Worker :
         \/ Submit(w)
         \/ \E st \in Runnable \cup {"failed", "pending_review"} : EndRun(w, st)
    \/ \E a \in App : HandBack(a)
    \/ \E a \in App, st \in OwnerStatus : Edit(a, st)
    \/ Tick

Spec == Init /\ [][Next]_vars

(* Time passes, a browser run ends, and a worker that keeps coming round   *)
(* takes up each row it may decide.                                        *)
Fairness ==
    /\ WF_vars(Tick)
    /\ \A w \in Worker :
         WF_vars(Submit(w) \/ EndRun(w, "failed"))
    /\ \A a \in App : SF_vars(\E w \in Worker :
                                Release(w, a) \/ Escalate(w, a) \/ Block(w, a))

FairSpec == Spec /\ Fairness

-----------------------------------------------------------------------------
(* Properties.                                                             *)

(* Submissions the gate decided and the code counts, of the last n ticks.  *)
PacedSince(n) == {b \in SubmittedSince(n) : paced[b]}

WithinCap(limit, rows) ==
    limit > 0 => Cardinality(rows) <= limit - 1 + Cardinality(Worker)

(* The caps of docs/AUTOMATION_POLICY.md section 2, as the code keeps      *)
(* them: since it counts before the run and records after it, they may be  *)
(* overrun by what the other workers have under way, and by no more -      *)
(* whatever the owner and the inbox do to the rows.                        *)
CapsWithinWorkers ==
    /\ WithinCap(Policy.max_per_day, PacedSince(DayLength))
    /\ WithinCap(Policy.max_per_hour, PacedSince(HourLength))
    /\ \A a \in App :
         WithinCap(Policy.max_per_company,
                   {b \in PacedSince(WeekLength) : CompanyOf[b] = CompanyOf[a]})
    /\ Policy.min_between > 0 =>
         WithinCap(1, PacedSince(Policy.min_between - 1))

(* One posting is submitted at most once for each worker.                  *)
PostingWithinWorkers ==
    \A a \in App :
        WithinCap(1, {b \in App : /\ status[b] \in Submitted /\ paced[b]
                                  /\ PostingOf[b] = PostingOf[a]})

(* "HOLD: not now, but plausibly later.  Never a dead end": a row that     *)
(* only time stands in the way of is decided in the end.                   *)
HoldsClear ==
    \A a \in App : status[a] \in Claimable ~> status[a] \notin Claimable
=============================================================================
