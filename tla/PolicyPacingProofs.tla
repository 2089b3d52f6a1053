------------------------- MODULE PolicyPacingProofs -------------------------
(* Proofs about the automation policy: what an approval can never override *)
(* and, for any number of workers, rows and edits, by how much the caps    *)
(* and the ban on duplicates can be overrun.                               *)
EXTENDS PolicyPacing, FiniteSetTheorems, WellFoundedInduction, TLAPS

(* Every nonempty set of natural numbers has a least member.               *)
LEMMA LeastOfNaturals ==
    ASSUME NEW S \in SUBSET Nat, S # {}
    PROVE  \E n \in S : \A m \in S : n <= m
<1>1. PICK n \in S : \A m \in S : ~(<<m, n>> \in OpToRel(<, Nat))
      BY NatLessThanWellFounded, WFMin
<1>2. \A m \in S : ~(m < n)
      BY <1>1 DEF OpToRel
<1> QED  BY <1>2

-----------------------------------------------------------------------------
(* The engine.                                                             *)

(* Only an empty set of objections is allowed to go.                       *)
LEMMA WorstAllows ==
    ASSUME NEW V \in SUBSET Verdicts, Worst(V) = "allow"
    PROVE  V \subseteq {"allow"}
<1>1. \E v \in V \cup {"allow"} : \A u \in V : Severity[u] <= Severity[v]
  <2>1. CASE "block" \in V
        BY <2>1 DEF Verdicts, Severity
  <2>2. CASE "block" \notin V /\ "escalate" \in V
        BY <2>2 DEF Verdicts, Severity
  <2>3. CASE "block" \notin V /\ "escalate" \notin V /\ "hold" \in V
        BY <2>3 DEF Verdicts, Severity
  <2>4. CASE V \subseteq {"allow"}
        BY <2>4 DEF Severity
  <2> QED  BY <2>1, <2>2, <2>3, <2>4 DEF Verdicts
<1>2. \A u \in V : Severity[u] <= Severity["allow"]
      BY <1>1 DEF Worst
<1> QED  BY <1>2 DEF Verdicts, Severity

LEMMA OutcomeVerdicts ==
    ASSUME NEW p, NEW c, NEW raising
    PROVE  \A o \in Outcomes(p, c, raising) : o.verdict \in Verdicts
<1>1. \A r : VerdictOf(p, c, r) \in Verdicts
      BY DEF VerdictOf, Verdicts
<1> QED  BY <1>1 DEF Outcomes, Verdicts

(* The owner's approval waives escalations and the ATS threshold, and      *)
(* nothing else: where a blocking or a pacing rule objects, neither        *)
(* autonomous mode nor an approval lets the application go                 *)
(* (tasks.py:194-237), whichever other rules fail to evaluate.             *)
THEOREM ApprovalCannotOverride ==
    ASSUME NEW p, NEW c, NEW raising, NEW answered \in BOOLEAN,
           NEW r \in PacingRule \cup BlockRule, r \notin raising,
           Objects(p, c)[r]
    PROVE  Enforced(p, c, raising, answered) # "allow"
<1> DEFINE o == [rule |-> r, verdict |-> VerdictOf(p, c, r)]
           out == Outcomes(p, c, raising)
           kept == IF answered THEN AfterApproval(out) ELSE out
<1>1. o.verdict \in {"hold", "block"} /\ o.rule # "min_ats_score"
      BY DEF VerdictOf, PacingRule, BlockRule, EscalateRule
<1>2. o \in out
      BY DEF Outcomes, Rule
<1>3. o \in kept
      BY <1>1, <1>2 DEF AfterApproval, Waived
<1>4. {x.verdict : x \in kept} \in SUBSET Verdicts
      BY OutcomeVerdicts DEF AfterApproval
<1>5. o.verdict \in {x.verdict : x \in kept}
      BY <1>3
<1>6. Worst({x.verdict : x \in kept}) # "allow"
      BY <1>1, <1>4, <1>5, WorstAllows
<1> QED  BY <1>6 DEF Enforced, Decision

-----------------------------------------------------------------------------
(* Type correctness.                                                       *)

LEMMA PacingTypeInit == Init => TypeOK
BY PacingAssumption DEF Init, TypeOK, Status

LEMMA PacingTypeStep == TypeOK /\ [Next]_vars => TypeOK'
<1> SUFFICES ASSUME TypeOK, [Next]_vars
             PROVE  TypeOK'
    OBVIOUS
<1> USE DEF TypeOK
<1>t. ASSUME NEW a \in App, Touch(a)
      PROVE  newer' \in [App -> SUBSET App]
      BY <1>t DEF Touch
<1>s. ASSUME NEW a \in App, NEW st \in Status, SetStatus(a, st)
      PROVE  status' \in [App -> Status]
      BY <1>s DEF SetStatus
<1>1. ASSUME NEW w \in Worker, NEW a \in App, Release(w, a)
      PROVE  TypeOK'
      BY <1>1, <1>t, <1>s DEF Release, Gated, Status
<1>2. ASSUME NEW w \in Worker, NEW a \in App, HoldBack(w, a)
      PROVE  TypeOK'
      BY <1>2, <1>t, <1>s DEF HoldBack, Gated, Status
<1>3. ASSUME NEW w \in Worker, NEW a \in App, Escalate(w, a)
      PROVE  TypeOK'
      BY <1>3, <1>t, <1>s DEF Escalate, Gated, Status
<1>4. ASSUME NEW w \in Worker, NEW a \in App, Block(w, a)
      PROVE  TypeOK'
      BY <1>4, <1>t, <1>s DEF Block, Gated, Status
<1>5. ASSUME NEW w \in Worker, Submit(w)
      PROVE  TypeOK'
  <2>1. work[w] \in App
        BY <1>5 DEF Submit
  <2>2. 0 \in 0 .. Old
        BY PacingAssumption
  <2> QED  BY <1>5, <1>t, <1>s, <2>1, <2>2 DEF Submit, Status
<1>6. ASSUME NEW w \in Worker,
             NEW st \in Runnable \cup {"failed", "pending_review"},
             EndRun(w, st)
      PROVE  TypeOK'
  <2>1. work[w] \in App
        BY <1>6 DEF EndRun
  <2>2. st \in Status
        BY DEF Runnable, Claimable, Status
  <2> QED  BY <1>6, <1>t, <1>s, <2>1, <2>2 DEF EndRun
<1>7. ASSUME NEW a \in App, HandBack(a)
      PROVE  TypeOK'
      BY <1>7, <1>t, <1>s DEF HandBack, Status
<1>8. ASSUME NEW a \in App, NEW st \in OwnerStatus, Edit(a, st)
      PROVE  TypeOK'
  <2>1. st \in Status /\ 0 \in 0 .. Old
        BY PacingAssumption
  <2>2. age' \in [App -> 0 .. Old]
        BY <1>8, <2>1 DEF Edit
  <2>3. approved' \in [App -> BOOLEAN] /\ paced' \in [App -> BOOLEAN]
        BY <1>8 DEF Edit
  <2> QED  BY <1>8, <1>t, <1>s, <2>1, <2>2, <2>3 DEF Edit
<1>9. CASE Tick
  <2>1. \A a \in App : age[a] < Old => age[a] + 1 \in 0 .. Old
        BY PacingAssumption
  <2>2. Old \in 0 .. Old
        BY PacingAssumption
  <2> QED  BY <1>9, <2>1, <2>2 DEF Tick
<1>10. CASE UNCHANGED vars
       BY <1>10 DEF vars
<1> QED  BY <1>1, <1>2, <1>3, <1>4, <1>5, <1>6, <1>7, <1>8, <1>9, <1>10
         DEF Next

(* Every edit, run and tick leaves a well-formed table.                    *)
THEOREM PacingTypeCorrect == Spec => []TypeOK
BY PacingTypeInit, PacingTypeStep, PTL DEF Spec

-----------------------------------------------------------------------------
(* The caps.                                                               *)

(* What counts against a cap on the rows of C: gated submissions of the    *)
(* last n ticks, and the runs that are under way.                          *)
Charged(C, n) == (PacedSince(n) \cup Busy) \cap C

(* There are no more runs under way than workers.                          *)
LEMMA BusyIsSmall ==
    ASSUME NEW f \in [Worker -> App \cup {NoApp}]
    PROVE  LET busy == {f[w] : w \in Worker} \ {NoApp}
           IN  /\ IsFiniteSet(busy) /\ Cardinality(busy) \in Nat
               /\ Cardinality(Worker) \in Nat
               /\ Cardinality(busy) <= Cardinality(Worker)
<1> DEFINE T == {f[w] : w \in Worker}
           busy == T \ {NoApp}
<1>1. f \in Surjection(Worker, T)
      BY DEF Surjection
<1>2. IsFiniteSet(T) /\ Cardinality(T) <= Cardinality(Worker)
      BY <1>1, FS_Surjection, PacingAssumption
<1>3. IsFiniteSet(busy) /\ Cardinality(busy) <= Cardinality(T)
  <2>1. busy \in SUBSET T
        OBVIOUS
  <2> QED  BY <1>2, <2>1, FS_Subset
<1>4. /\ Cardinality(busy) \in Nat /\ Cardinality(T) \in Nat
      /\ Cardinality(Worker) \in Nat
      BY <1>2, <1>3, FS_CardinalityType, PacingAssumption
<1> QED  BY <1>2, <1>3, <1>4

(* A step that starts no run charges nothing new to any cap: a submission  *)
(* was under way before, an edit is not a decision of the gate, and time   *)
(* only takes away.                                                        *)
LEMMA ChargeOnlyByRelease ==
    ASSUME TypeOK, [Next]_vars, NEW n \in Nat, n <= Old,
           ~(\E w \in Worker, a \in App : Release(w, a))
    PROVE  PacedSince(n)' \cup Busy' \subseteq PacedSince(n) \cup Busy
<1> USE DEF TypeOK, PacedSince, SubmittedSince
<1>1. ASSUME NEW w \in Worker, NEW a \in App,
             HoldBack(w, a) \/ Escalate(w, a) \/ Block(w, a)
      PROVE  PacedSince(n)' \subseteq PacedSince(n) /\ Busy' = Busy
      BY <1>1 DEF HoldBack, Escalate, Block, Gated, SetStatus, Submitted, Busy
<1>2. ASSUME NEW w \in Worker, Submit(w)
      PROVE  /\ PacedSince(n)' \subseteq PacedSince(n) \cup {work[w]}
             /\ Busy' \subseteq Busy /\ work[w] \in Busy
      BY <1>2 DEF Submit, SetStatus, Busy
<1>3. ASSUME NEW w \in Worker,
             NEW st \in Runnable \cup {"failed", "pending_review"},
             EndRun(w, st)
      PROVE  PacedSince(n)' \subseteq PacedSince(n) /\ Busy' \subseteq Busy
      BY <1>3 DEF EndRun, SetStatus, Busy, Submitted, Runnable, Claimable
<1>4. ASSUME NEW a \in App, HandBack(a)
      PROVE  PacedSince(n)' \subseteq PacedSince(n) /\ Busy' = Busy
      BY <1>4 DEF HandBack, SetStatus, Busy, Submitted
<1>5. ASSUME NEW a \in App, NEW st \in OwnerStatus, Edit(a, st)
      PROVE  PacedSince(n)' \subseteq PacedSince(n) /\ Busy' = Busy
  <2>1. Busy' = Busy
        BY <1>5 DEF Edit, Busy
  <2>2. a \in PacedSince(n)' => a \in PacedSince(n)
        BY <1>5 DEF Edit, SetStatus
  <2>3. \A b \in App \ {a} : b \in PacedSince(n)' => b \in PacedSince(n)
        BY <1>5 DEF Edit, SetStatus
  <2> QED  BY <2>1, <2>2, <2>3
<1>6. CASE Tick
  <2>1. Busy' = Busy
        BY <1>6 DEF Tick, Busy
  <2>2. \A b \in App : age'[b] <= n => age[b] <= n
        BY <1>6, PacingAssumption DEF Tick
  <2> QED  BY <1>6, <2>1, <2>2 DEF Tick
<1>7. CASE UNCHANGED vars
      BY <1>7 DEF vars, Busy
<1> QED  BY <1>1, <1>2, <1>3, <1>4, <1>5, <1>6, <1>7 DEF Next

(* One more run may be started while the count of committed submissions is *)
(* below the limit: then what is charged stays below limit + workers.      *)
LEMMA ReleaseWithinCap ==
    ASSUME TypeOK, NEW n \in Nat, n <= Old, NEW C \in SUBSET App,
           NEW limit \in Nat,
           NEW w \in Worker, NEW a \in C, Release(w, a), TypeOK',
           Cardinality(SubmittedSince(n) \cap C) < limit
    PROVE  WithinCap(limit, Charged(C, n)')
<1> DEFINE before == SubmittedSince(n) \cap C
           after == before \cup (Busy' \cap C)
<1>1. PacedSince(n)' \subseteq SubmittedSince(n)
      BY DEF Release, Gated, SetStatus, PacedSince, SubmittedSince, Submitted,
             TypeOK
<1>2. Charged(C, n)' \in SUBSET after
      BY <1>1 DEF Charged
<1>3. IsFiniteSet(before) /\ Cardinality(before) \in Nat
  <2>1. before \in SUBSET App
        OBVIOUS
  <2>2. IsFiniteSet(before)
        BY <2>1, FS_Subset, PacingAssumption
  <2> QED  BY <2>2, FS_CardinalityType
<1>4. /\ IsFiniteSet(Busy') /\ Cardinality(Busy') <= Cardinality(Worker)
      /\ Cardinality(Busy') \in Nat /\ Cardinality(Worker) \in Nat
      BY BusyIsSmall DEF TypeOK, Busy
<1>5. /\ IsFiniteSet(Busy' \cap C) /\ Cardinality(Busy' \cap C) \in Nat
      /\ Cardinality(Busy' \cap C) <= Cardinality(Worker)
  <2>1. IsFiniteSet(Busy' \cap C)
        /\ Cardinality(Busy' \cap C) <= Cardinality(Busy')
        BY <1>4, FS_Intersection
  <2>2. Cardinality(Busy' \cap C) \in Nat
        BY <2>1, FS_CardinalityType
  <2> QED  BY <1>4, <2>1, <2>2
<1>6. /\ IsFiniteSet(after)
      /\ Cardinality(after) <= limit - 1 + Cardinality(Worker)
  <2>1. /\ IsFiniteSet(after)
        /\ Cardinality(after) = Cardinality(before) + Cardinality(Busy' \cap C)
                                - Cardinality(before \cap (Busy' \cap C))
        BY <1>3, <1>5, FS_Union
  <2>2. Cardinality(before \cap (Busy' \cap C)) \in Nat
        BY <1>3, FS_Intersection, FS_CardinalityType
  <2> QED  BY <1>3, <1>4, <1>5, <2>1, <2>2
<1>7. /\ Cardinality(Charged(C, n)') <= Cardinality(after)
      /\ Cardinality(after) \in Nat /\ Cardinality(Charged(C, n)') \in Nat
  <2>1. /\ IsFiniteSet(Charged(C, n)')
        /\ Cardinality(Charged(C, n)') <= Cardinality(after)
        BY <1>2, <1>6, FS_Subset
  <2> QED  BY <1>6, <2>1, FS_CardinalityType
<1> QED  BY <1>4, <1>6, <1>7 DEF WithinCap

(* A cap on the rows of C, of which the gate refuses to start one once     *)
(* limit of them are recorded, is kept up to the runs under way.           *)
LEMMA StepKeepsCap ==
    ASSUME TypeOK, TypeOK', [Next]_vars,
           NEW n \in Nat, n <= Old, NEW C \in SUBSET App, NEW limit \in Nat,
           WithinCap(limit, Charged(C, n)),
           limit > 0 => \A w \in Worker, a \in C :
               Release(w, a) => Cardinality(SubmittedSince(n) \cap C) < limit
    PROVE  WithinCap(limit, Charged(C, n)')
<1>1. CASE limit = 0
      BY <1>1 DEF WithinCap
<1>2. CASE limit > 0 /\ \E w \in Worker, a \in C : Release(w, a)
      BY <1>2, ReleaseWithinCap
<1>3. CASE limit > 0 /\ ~(\E w \in Worker, a \in C : Release(w, a))
  <2>1. Charged(C, n)' \in SUBSET Charged(C, n)
    <3>1. CASE \E w \in Worker, a \in App : Release(w, a)
      <4>1. PICK w \in Worker, a \in App : Release(w, a)
            BY <3>1
      <4>2. a \notin C
            BY <1>3, <4>1
      <4>3. PacedSince(n)' \subseteq PacedSince(n)
            BY <4>1 DEF Release, Gated, SetStatus, PacedSince, SubmittedSince,
                        Submitted, TypeOK
      <4>4. Busy' \subseteq Busy \cup {a}
            BY <4>1 DEF Release, Busy, TypeOK
      <4> QED  BY <4>2, <4>3, <4>4 DEF Charged
    <3>2. CASE ~(\E w \in Worker, a \in App : Release(w, a))
          BY <3>2, ChargeOnlyByRelease DEF Charged
    <3> QED  BY <3>1, <3>2
  <2>2. IsFiniteSet(Charged(C, n))
        BY FS_Subset, PacingAssumption DEF Charged
  <2>3. /\ Cardinality(Charged(C, n)') <= Cardinality(Charged(C, n))
        /\ Cardinality(Charged(C, n)) \in Nat
        /\ Cardinality(Charged(C, n)') \in Nat
        BY <2>1, <2>2, FS_Subset, FS_CardinalityType
  <2>4. Cardinality(Worker) \in Nat
        BY FS_CardinalityType, PacingAssumption
  <2> QED  BY <1>3, <2>3, <2>4 DEF WithinCap
<1> QED  BY <1>1, <1>2, <1>3

(* The gate refuses at the limit, also to a row its owner approved.        *)
LEMMA ReleaseIsClear ==
    ASSUME TypeOK, NEW w \in Worker, NEW a \in App, Release(w, a),
           NEW r \in PacingRule \cup BlockRule
    PROVE  ~Objects(Policy, Context(a))[r]
<1>1. Enforced(Policy, Context(a), {}, approved[a]) = "allow"
      BY DEF Release, Gated
<1>2. approved[a] \in BOOLEAN
      BY DEF TypeOK
<1> QED  BY <1>1, <1>2, ApprovalCannotOverride

CompanyRows(a) == {b \in App : CompanyOf[b] = CompanyOf[a]}
PostingRows(a) == {b \in App : PostingOf[b] = PostingOf[a]}
Spacing == Policy.min_between - 1

(* The caps, with the runs under way counted in: this is inductive.        *)
ChargesOK ==
    /\ WithinCap(Policy.max_per_day, Charged(App, DayLength))
    /\ WithinCap(Policy.max_per_hour, Charged(App, HourLength))
    /\ \A a \in App : WithinCap(Policy.max_per_company,
                                Charged(CompanyRows(a), WeekLength))
    /\ Policy.min_between > 0 => WithinCap(1, Charged(App, Spacing))
    /\ \A a \in App : WithinCap(1, Charged(PostingRows(a), Old))

(* Reapplying the minimum spacing: nothing was submitted less than         *)
(* min_between ticks ago when a run starts.                                *)
LEMMA ReleaseAfterSpacing ==
    ASSUME TypeOK, NEW w \in Worker, NEW a \in App, Release(w, a),
           Policy.min_between > 0
    PROVE  SubmittedSince(Spacing) = {}
<1> DEFINE rows == AppliedRows(App \ {a})
           ages == {age[b] : b \in rows}
<1>1. a \notin SubmittedSince(Spacing)
      BY DEF Release, Gated, SubmittedSince, Submitted, Runnable, Claimable
<1>2. Policy.min_between \in Nat
      BY PacingAssumption
<1>3. Latest(rows) = Unknown \/ ~(Latest(rows) < Policy.min_between)
  <2>1. ~Objects(Policy, Context(a))["min_spacing"]
        BY ReleaseIsClear DEF PacingRule
  <2> QED  BY <2>1 DEF Objects, Context
<1>4. CASE rows = {}
      BY <1>1, <1>4 DEF AppliedRows, SubmittedSince
<1>5. CASE rows # {}
  <2>1. ages \in SUBSET Nat /\ ages # {}
        BY <1>5 DEF TypeOK, AppliedRows
  <2>2. PICK m \in ages : \A k \in ages : m <= k
        BY <2>1, LeastOfNaturals
  <2>3. Latest(rows) \in ages /\ \A b \in rows : Latest(rows) <= age[b]
        BY <1>5, <2>2 DEF Latest
  <2>4. Latest(rows) \in Nat /\ Latest(rows) >= Policy.min_between
        BY <1>2, <1>3, <2>1, <2>3 DEF Unknown
  <2>5. \A b \in rows : age[b] \in Nat /\ age[b] > Spacing
    <3>1. \A b \in rows : age[b] \in ages /\ age[b] \in Nat
          BY <2>1
    <3> HIDE DEF ages, rows
    <3> QED  BY <1>2, <2>3, <2>4, <3>1 DEF Spacing
  <2>6. Spacing \in Nat
        BY <1>2 DEF Spacing
  <2> QED  BY <1>1, <2>5, <2>6 DEF AppliedRows, SubmittedSince
<1> QED  BY <1>4, <1>5

(* No other row of a posting is recorded as submitted when a run for it    *)
(* starts.                                                                 *)
LEMMA ReleaseIsNew ==
    ASSUME TypeOK, NEW w \in Worker, NEW a \in App, Release(w, a)
    PROVE  SubmittedSince(Old) \cap PostingRows(a) = {}
<1>1. ~Objects(Policy, Context(a))["same_posting"]
      BY ReleaseIsClear DEF BlockRule
<1>2. ~Duplicate(a)
      BY <1>1 DEF Objects, Context
<1>3. status[a] \notin Submitted
      BY DEF Release, Gated, Submitted, Runnable, Claimable
<1> QED  BY <1>2, <1>3 DEF Duplicate, SubmittedSince, PostingRows

(* The three counted caps.                                                 *)
LEMMA ReleaseBelowCaps ==
    ASSUME TypeOK, NEW w \in Worker, NEW a \in App, Release(w, a)
    PROVE  /\ Policy.max_per_day > 0 =>
                Cardinality(SubmittedSince(DayLength)) < Policy.max_per_day
           /\ Policy.max_per_hour > 0 =>
                Cardinality(SubmittedSince(HourLength)) < Policy.max_per_hour
           /\ Policy.max_per_company > 0 =>
                Cardinality(SubmittedSince(WeekLength) \cap CompanyRows(a))
                    < Policy.max_per_company
<1> DEFINE c == Context(a)
<1>1. ~AtLimit(Policy.max_per_day, c.today)
  <2>1. ~Objects(Policy, c)["daily_cap"]
        BY ReleaseIsClear DEF PacingRule
  <2> QED  BY <2>1 DEF Objects
<1>2. ~AtLimit(Policy.max_per_hour, c.this_hour)
  <2>1. ~Objects(Policy, c)["hourly_cap"]
        BY ReleaseIsClear DEF PacingRule
  <2> QED  BY <2>1 DEF Objects
<1>3. ~AtLimit(Policy.max_per_company, c.company_week)
  <2>1. ~Objects(Policy, c)["per_company_week"]
        BY ReleaseIsClear DEF PacingRule
  <2> QED  BY <2>1 DEF Objects
<1>4. /\ c.today = Cardinality(SubmittedSince(DayLength))
      /\ c.this_hour = Cardinality(SubmittedSince(HourLength))
      /\ c.company_week = Cardinality({b \in SubmittedSince(WeekLength) :
                                         CompanyOf[b] = CompanyOf[a]})
      BY DEF Context
<1>5. {b \in SubmittedSince(WeekLength) : CompanyOf[b] = CompanyOf[a]}
        = SubmittedSince(WeekLength) \cap CompanyRows(a)
      BY DEF CompanyRows, SubmittedSince
<1>6. \A S \in SUBSET App : Cardinality(S) \in Nat
      BY FS_Subset, FS_CardinalityType, PacingAssumption
<1>7. \A k : SubmittedSince(k) \in SUBSET App
      BY DEF SubmittedSince
<1>8. /\ Cardinality(SubmittedSince(DayLength)) \in Nat
      /\ Cardinality(SubmittedSince(HourLength)) \in Nat
      /\ Cardinality(SubmittedSince(WeekLength) \cap CompanyRows(a)) \in Nat
  <2>1. SubmittedSince(WeekLength) \cap CompanyRows(a) \in SUBSET App
        BY <1>7
  <2> QED  BY <1>6, <1>7, <2>1
<1>9. {Policy.max_per_day, Policy.max_per_hour, Policy.max_per_company}
        \subseteq Nat
      BY PacingAssumption
<1> HIDE DEF c
<1> QED  BY <1>1, <1>2, <1>3, <1>4, <1>5, <1>8, <1>9 DEF AtLimit

(* What any step of the system does to the caps.                           *)
LEMMA ChargesStep ==
    ASSUME TypeOK, TypeOK', ChargesOK, [Next]_vars
    PROVE  ChargesOK'
<1>a. /\ DayLength \in Nat /\ HourLength \in Nat /\ WeekLength \in Nat
      /\ Old \in Nat /\ DayLength <= Old /\ HourLength <= Old
      /\ WeekLength <= Old /\ Policy.min_between \in Nat
      /\ Policy.min_between < Old
      BY PacingAssumption
<1>b. /\ Policy.max_per_day \in Nat /\ Policy.max_per_hour \in Nat
      /\ Policy.max_per_company \in Nat
      BY PacingAssumption
<1>c. \A n : SubmittedSince(n) \cap App = SubmittedSince(n)
      BY DEF SubmittedSince
<1>d. Cardinality({}) = 0
      BY FS_EmptySet
<1>1. WithinCap(Policy.max_per_day, Charged(App, DayLength)')
      BY <1>a, <1>b, <1>c, StepKeepsCap, ReleaseBelowCaps DEF ChargesOK
<1>2. WithinCap(Policy.max_per_hour, Charged(App, HourLength)')
      BY <1>a, <1>b, <1>c, StepKeepsCap, ReleaseBelowCaps DEF ChargesOK
<1>3. ASSUME NEW a \in App
      PROVE  WithinCap(Policy.max_per_company,
                       Charged(CompanyRows(a), WeekLength)')
  <2>1. \A b \in CompanyRows(a) : CompanyRows(b) = CompanyRows(a)
        BY DEF CompanyRows
  <2>2. CompanyRows(a) \in SUBSET App
        BY DEF CompanyRows
  <2>3. WithinCap(Policy.max_per_company, Charged(CompanyRows(a), WeekLength))
        BY DEF ChargesOK
  <2> QED  BY <1>a, <1>b, <2>1, <2>2, <2>3, StepKeepsCap, ReleaseBelowCaps
<1>4. ASSUME Policy.min_between > 0
      PROVE  WithinCap(1, Charged(App, Spacing)')
  <2>1. Spacing \in Nat /\ Spacing <= Old
        BY <1>a, <1>4 DEF Spacing
  <2>2. WithinCap(1, Charged(App, Spacing))
        BY <1>4 DEF ChargesOK
  <2>3. \A w \in Worker, a \in App :
            Release(w, a) => Cardinality(SubmittedSince(Spacing) \cap App) < 1
        BY <1>c, <1>d, <1>4, ReleaseAfterSpacing
  <2> QED  BY <2>1, <2>2, <2>3, StepKeepsCap
<1>5. ASSUME NEW a \in App
      PROVE  WithinCap(1, Charged(PostingRows(a), Old)')
  <2>1. \A b \in PostingRows(a) : PostingRows(b) = PostingRows(a)
        BY DEF PostingRows
  <2>2. PostingRows(a) \in SUBSET App
        BY DEF PostingRows
  <2>3. \A w \in Worker, b \in PostingRows(a) :
            Release(w, b) =>
                Cardinality(SubmittedSince(Old) \cap PostingRows(a)) < 1
        BY <1>d, <2>1, <2>2, ReleaseIsNew
  <2>4. WithinCap(1, Charged(PostingRows(a), Old))
        BY DEF ChargesOK
  <2> QED  BY <1>a, <2>2, <2>3, <2>4, StepKeepsCap
<1> QED  BY <1>1, <1>2, <1>3, <1>4, <1>5
         DEF ChargesOK, CompanyRows, PostingRows, Spacing

(* A smaller set stays within a cap that a greater one keeps.              *)
LEMMA LesserCharge ==
    ASSUME NEW limit \in Nat, NEW T \in SUBSET App, NEW S \in SUBSET T,
           WithinCap(limit, T)
    PROVE  WithinCap(limit, S)
<1>1. IsFiniteSet(T)
      BY FS_Subset, PacingAssumption
<1>2. IsFiniteSet(S) /\ Cardinality(S) <= Cardinality(T)
      BY <1>1, FS_Subset
<1>3. /\ Cardinality(S) \in Nat /\ Cardinality(T) \in Nat
      /\ Cardinality(Worker) \in Nat
      BY <1>1, <1>2, FS_CardinalityType, PacingAssumption
<1> QED  BY <1>2, <1>3 DEF WithinCap

LEMMA ChargesInitially ==
    ASSUME Init
    PROVE  ChargesOK
<1>1. \A C, n : Charged(C, n) = {}
  <2>1. PacedSince(0) = {} /\ \A n : PacedSince(n) = {}
        BY DEF Init, PacedSince, SubmittedSince, Submitted
  <2>2. Busy = {}
        BY DEF Init, Busy
  <2> QED  BY <2>1, <2>2 DEF Charged
<1>2. \A limit \in Nat : WithinCap(limit, {})
  <2>1. Cardinality({}) = 0 /\ Cardinality(Worker) \in Nat
        BY FS_EmptySet, FS_CardinalityType, PacingAssumption
  <2> QED  BY <2>1 DEF WithinCap
<1>3. /\ Policy.max_per_day \in Nat /\ Policy.max_per_hour \in Nat
      /\ Policy.max_per_company \in Nat
      BY PacingAssumption
<1> QED  BY <1>1, <1>2, <1>3 DEF ChargesOK

(* With the runs under way counted in, every cap is kept at every moment.  *)
LEMMA ChargesAlwaysOK == Spec => []ChargesOK
<1>1. TypeOK /\ TypeOK' /\ ChargesOK /\ [Next]_vars => ChargesOK'
      BY ChargesStep
<1> QED  BY <1>1, ChargesInitially, PacingTypeCorrect, PTL DEF Spec

(* For any number of rows, workers, edits and any policy: a cap of the     *)
(* owner is overrun by at most the runs that were under way when it was    *)
(* reached (services/policy.py:157-218 counts before, tasks.py:579-600     *)
(* records after).                                                         *)
THEOREM CapsHold == Spec => []CapsWithinWorkers
<1>1. TypeOK /\ ChargesOK => CapsWithinWorkers
  <2> SUFFICES ASSUME TypeOK, ChargesOK
               PROVE  CapsWithinWorkers
      OBVIOUS
  <2>1. \A n, C : /\ PacedSince(n) \cap C \subseteq Charged(C, n)
                  /\ PacedSince(n) \subseteq App
        BY DEF Charged, PacedSince, SubmittedSince
  <2>2. \A n : Charged(App, n) \in SUBSET App
        BY DEF Charged
  <2>3. /\ Policy.max_per_day \in Nat /\ Policy.max_per_hour \in Nat
        /\ Policy.max_per_company \in Nat /\ 1 \in Nat
        BY PacingAssumption
  <2>4. \A n : PacedSince(n) \in SUBSET Charged(App, n)
        BY <2>1
  <2>5. WithinCap(Policy.max_per_day, PacedSince(DayLength))
        BY <2>2, <2>3, <2>4, LesserCharge DEF ChargesOK
  <2>6. WithinCap(Policy.max_per_hour, PacedSince(HourLength))
        BY <2>2, <2>3, <2>4, LesserCharge DEF ChargesOK
  <2>7. ASSUME NEW a \in App
        PROVE  WithinCap(Policy.max_per_company,
                   {b \in PacedSince(WeekLength) : CompanyOf[b] = CompanyOf[a]})
    <3>1. {b \in PacedSince(WeekLength) : CompanyOf[b] = CompanyOf[a]}
            \in SUBSET Charged(CompanyRows(a), WeekLength)
          BY <2>1 DEF CompanyRows, Charged
    <3>2. Charged(CompanyRows(a), WeekLength) \in SUBSET App
          BY DEF Charged, CompanyRows
    <3>3. WithinCap(Policy.max_per_company,
                    Charged(CompanyRows(a), WeekLength))
          BY DEF ChargesOK
    <3> QED  BY <2>3, <3>1, <3>2, <3>3, LesserCharge
  <2>8. ASSUME Policy.min_between > 0
        PROVE  WithinCap(1, PacedSince(Policy.min_between - 1))
        BY <2>2, <2>3, <2>4, <2>8, LesserCharge DEF ChargesOK, Spacing
  <2> QED  BY <2>5, <2>6, <2>7, <2>8 DEF CapsWithinWorkers
<1> QED  BY <1>1, ChargesAlwaysOK, PacingTypeCorrect, PTL

LEMMA ChargesPostings == TypeOK /\ ChargesOK => PostingWithinWorkers
<1> SUFFICES ASSUME TypeOK, ChargesOK, NEW a \in App
             PROVE  WithinCap(1, {b \in App :
                        /\ status[b] \in Submitted /\ paced[b]
                        /\ PostingOf[b] = PostingOf[a]})
    BY DEF PostingWithinWorkers
<1> DEFINE S == {b \in App : /\ status[b] \in Submitted /\ paced[b]
                             /\ PostingOf[b] = PostingOf[a]}
<1>1. \A b \in App : age[b] <= Old
      BY PacingAssumption DEF TypeOK
<1>2. S \in SUBSET Charged(PostingRows(a), Old)
      BY <1>1 DEF Charged, PacedSince, SubmittedSince, PostingRows
<1>3. Charged(PostingRows(a), Old) \in SUBSET App
      BY DEF Charged, PostingRows
<1>4. WithinCap(1, Charged(PostingRows(a), Old))
      BY DEF ChargesOK
<1> HIDE DEF S
<1>5. WithinCap(1, S)
      BY <1>2, <1>3, <1>4, LesserCharge
<1> QED  BY <1>5 DEF S

(* One posting reaches its employer at most once for each worker, whatever *)
(* rows it has and whatever the owner approves (policy.py:244-269).        *)
THEOREM OnePerWorker == Spec => []PostingWithinWorkers
BY ChargesPostings, ChargesAlwaysOK, PacingTypeCorrect, PTL
=============================================================================
