--------------------------- MODULE MCPolicyPacing ---------------------------
(* Small policies and postings for TLC: an hour of one tick, a day of two, *)
(* a week of three.                                                        *)
EXTENDS PolicyPacing

CONSTANTS a1, a2, a3

Apps == {a1, a2, a3}
One(x) == [a \in Apps |-> x]
OnePortal == One("portal")
OneCompany == One("company")
TwoSimilar == [a \in Apps |-> IF a = a3 THEN {} ELSE {a1, a2} \ {a}]
\* a3 is for the posting of a1, and the owner has not approved it.
TwoPostings == [a \in Apps |-> IF a = a3 THEN a1 ELSE a]
FirstTwo == {a1, a2}

Good == [ats |-> 3, salary |-> Unknown, other_seniority |-> FALSE,
         employer_blocked |-> FALSE, not_sponsor |-> FALSE]
GoodPostings == One(Good)

Off == [max_per_day |-> 0, max_per_hour |-> 0, min_between |-> 0,
        max_per_company |-> 0, cooldown |-> 0, paused |-> FALSE,
        review_above |-> 0, review_first_run |-> FALSE, min_ats |-> 2,
        min_salary |-> 0, exclude_no_sponsorship |-> FALSE,
        pause_on_captcha |-> TRUE, breaker |-> 0]
Caps == [Off EXCEPT !.max_per_day = 1, !.max_per_hour = 1,
                    !.max_per_company = 1, !.min_between = 1, !.cooldown = 1,
                    !.review_first_run = TRUE]

NoEdits == {}
=============================================================================
