---------------------------- MODULE PolicyEngine ----------------------------
(***************************************************************************)
(* The automation policy as a function: the gating rules of                *)
(* core/policy/rules.py, their evaluation in core/policy/engine.py, and    *)
(* what the owner's approval does to a decision (workers/tasks.py).        *)
(*                                                                         *)
(* A policy p and a context c are records.  Texts are reduced to what a    *)
(* rule makes of them (is the employer on the list?), numbers are kept.    *)
(***************************************************************************)
EXTENDS Integers

Unknown == -1        \* not scored, no published salary, no earlier submission

Verdicts == {"allow", "hold", "escalate", "block"}
Severity == [allow |-> 0, hold |-> 1, escalate |-> 2, block |-> 3]

Worst(verdicts) ==
    CHOOSE v \in verdicts \cup {"allow"} :
        \A u \in verdicts : Severity[u] <= Severity[v]

BlockRule == {"same_posting", "blocked_employer", "exclude_no_sponsorship"}
EscalateRule == {"no_auto_eligibility_answers", "high_value_review",
                 "new_portal_first_run"}
PacingRule == {"daily_cap", "hourly_cap", "min_spacing", "per_company_week",
               "reapply_cooldown", "kill_switch", "run_window",
               "circuit_breaker"}
QualityRule == {"min_ats_score", "salary_floor", "seniority"}
Rule == BlockRule \cup EscalateRule \cup PacingRule \cup QualityRule
        \cup {"pause_on_challenge"}

(* Mutant: the limit itself is still allowed.                              *)
AboveLimit(limit, n) == limit > 0 /\ n > limit

(* A limit of 0 switches a rule off.                                       *)
AtLimit(limit, n) == limit > 0 /\ n >= limit

(* Which rules object.                                                     *)
Objects(p, c) ==
    [no_auto_eligibility_answers |-> c.eligibility_questions,
     pause_on_challenge  |-> c.challenge,
     daily_cap           |-> AtLimit(p.max_per_day, c.today),
     hourly_cap          |-> AtLimit(p.max_per_hour, c.this_hour),
     min_spacing         |-> /\ p.min_between > 0 /\ c.gap # Unknown
                             /\ c.gap < p.min_between,
     per_company_week    |-> AtLimit(p.max_per_company, c.company_week),
     same_posting        |-> c.duplicate,
     reapply_cooldown    |-> /\ p.cooldown > 0 /\ c.last_similar # Unknown
                             /\ c.last_similar < p.cooldown,
     kill_switch         |-> p.paused,
     high_value_review   |-> AtLimit(p.review_above, c.salary),
     new_portal_first_run |-> p.review_first_run /\ c.first_run,
     min_ats_score       |-> c.ats = Unknown \/ c.ats < p.min_ats,
     salary_floor        |-> /\ p.min_salary > 0 /\ c.salary # Unknown
                             /\ c.salary < p.min_salary,
     seniority           |-> c.other_seniority,
     blocked_employer    |-> c.employer_blocked,
     exclude_no_sponsorship |-> p.exclude_no_sponsorship /\ c.not_sponsor,
     run_window          |-> ~c.window_open,
     circuit_breaker     |-> AtLimit(p.breaker, c.failures)]

VerdictOf(p, c, rule) ==
    IF rule = "pause_on_challenge"
    THEN IF p.pause_on_captcha THEN "escalate" ELSE "block"
    ELSE IF rule = "min_ats_score" /\ c.ats = Unknown THEN "escalate"
    ELSE IF rule \in BlockRule THEN "block"
    ELSE IF rule \in EscalateRule THEN "escalate"
    ELSE "hold"

(* Every rule runs; one that raises an exception escalates.                *)
Outcomes(p, c, raising) ==
    LET objects == Objects(p, c)
    IN  {[rule |-> r, verdict |-> "escalate"] : r \in raising}
        \cup {[rule |-> r, verdict |-> VerdictOf(p, c, r)] :
                 r \in {q \in Rule \ raising : objects[q]}}

Decision(outcomes) == Worst({o.verdict : o \in outcomes})

(* The owner's approval answers every escalation and the ATS threshold.    *)
Waived(o) ==
    o.verdict = "escalate" \/ (o.verdict = "hold" /\ o.rule = "min_ats_score")

AfterApproval(outcomes) == {o \in outcomes : ~Waived(o)}

(* The decision of _enforce_policy on a row that is, or is not, approved.  *)
Enforced(p, c, raising, approved) ==
    LET outcomes == Outcomes(p, c, raising)
    IN  Decision(IF approved THEN AfterApproval(outcomes) ELSE outcomes)
=============================================================================
