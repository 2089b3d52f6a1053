---------------------------- MODULE SkillLibrary ----------------------------
(* What the harness learns about a site (core/harness/skills.py) from the  *)
(* reviews of apply runs (core/harness/review.py, workers/tasks.py).       *)
(*                                                                         *)
(* Reviews run concurrently.  Each distils guidance, stores it as the next *)
(* version of its domain, and scores the skills its run had used; the ORM  *)
(* writes a score it computed from the one it read.  One domain.           *)
EXTENDS Integers, FiniteSets

CONSTANTS
    Review,         \* review jobs
    Guidance,       \* contents a distiller may produce
    RetireAfter,    \* minus RETIRE_THRESHOLD
    Retries,        \* _VERSION_RETRIES
    MaxVersions     \* bound on the versions stored

ASSUME SkillAssumption ==
    /\ RetireAfter \in Nat \ {0}
    /\ Retries \in Nat \ {0} /\ MaxVersions \in Nat \ {0}
    /\ "none" \notin Guidance /\ "lost" \notin Guidance

VARIABLES
    skill,          \* domain_skills by version
    feedback,       \* skill_feedback rows by version
    review          \* what a review job knows

skillVars == <<skill, feedback, review>>

SkillVersion == 1..MaxVersions
NoSkill == [content |-> "none", score |-> 0, active |-> FALSE]
StoredSkills  == {v \in SkillVersion : skill[v].content # "none"}
ActiveSkills  == {v \in StoredSkills : skill[v].active}
NoReview    == [at |-> "idle", used |-> {}, good |-> FALSE, content |-> "none", base |-> 0,
            tries |-> 0, met |-> 0, todo |-> {}, scoring |-> 0, read |-> NoSkill, kept |-> FALSE]

SkillInit ==
    /\ skill = [v \in SkillVersion |-> NoSkill]
    /\ feedback = [v \in SkillVersion |-> [plus |-> 0, minus |-> 0]]
    /\ review = [r \in Review |-> NoReview]
-----------------------------------------------------------------------------
ReviewAt(r, at)  == review[r].at = at
ReviewTo(r, f) == review' = [review EXCEPT ![r] = f]

\* A run ends; it had loaded the active skills.  Its review judges it.
BeginReview(r) ==
    /\ ReviewAt(r, "idle") /\ ~review[r].kept
    /\ \E good \in BOOLEAN, used \in SUBSET ActiveSkills :
         ReviewTo(r, [NoReview EXCEPT !.at = "judged", !.used = used, !.good = good])
    /\ UNCHANGED <<skill, feedback>>

Holding(c) == {v \in ActiveSkills : skill[v].content = c}

\* distil_skill: nothing worth saving (or personal data in it), guidance one
\* active skill of the domain holds, or new guidance.  When two hold it,
\* scalar_one_or_none raises: only ReviewFails is left.
DistilNothing(r) ==
    /\ ReviewAt(r, "judged")
    /\ ReviewTo(r, [review[r] EXCEPT !.at = "scoring", !.todo = review[r].used])
    /\ UNCHANGED <<skill, feedback>>

Distil(r) ==
    /\ ReviewAt(r, "judged")
    /\ \E c \in Guidance :
         /\ Cardinality(Holding(c)) < 2
         /\ IF Holding(c) # {}
            THEN ReviewTo(r, [review[r] EXCEPT !.at = "scoring", !.todo = review[r].used])
            ELSE ReviewTo(r, [review[r] EXCEPT !.at = "recording", !.content = c])
    /\ UNCHANGED <<skill, feedback>>

\* Mutant: a number is skipped.
SkipsVersion(base) == base + 2

NextVersion(base) == base + 1

\* Mutant: one attempt.
TryOnce(r) == review[r].tries < 1

TriesLeft(r) == review[r].tries < Retries

\* SELECT max(version).
ReadVersion(r) ==
    /\ ReviewAt(r, "recording") /\ TriesLeft(r) /\ Cardinality(StoredSkills) < MaxVersions
    /\ ReviewTo(r, [review[r] EXCEPT !.at = "inserting", !.base = Cardinality(StoredSkills),
                                 !.tries = @ + 1])
    /\ UNCHANGED <<skill, feedback>>

\* INSERT and commit; uq_domain_skill_version refuses a version that exists.
InsertVersion(r) ==
    LET v == NextVersion(review[r].base)
    IN  /\ ReviewAt(r, "inserting") /\ v \notin StoredSkills
        /\ skill' = [skill EXCEPT ![v] = [content |-> review[r].content, score |-> 0,
                                          active |-> TRUE]]
        /\ ReviewTo(r, [review[r] EXCEPT !.at = "scoring", !.todo = review[r].used])
        /\ UNCHANGED feedback

VersionTaken(r) ==
    /\ ReviewAt(r, "inserting") /\ NextVersion(review[r].base) \in StoredSkills
    /\ ReviewTo(r, [review[r] EXCEPT !.at = "recording", !.met = @ + 1])
    /\ UNCHANGED <<skill, feedback>>

\* record_skill gives up and the guidance is dropped.
DropGuidance(r) ==
    /\ ReviewAt(r, "recording") /\ ~TriesLeft(r)
    /\ ReviewTo(r, [review[r] EXCEPT !.at = "scoring", !.todo = review[r].used, !.content = "lost"])
    /\ UNCHANGED <<skill, feedback>>

\* add_feedback: read the skill ...
ReadSkill(r, v) ==
    /\ ReviewAt(r, "scoring") /\ v \in review[r].todo
    /\ ReviewTo(r, [review[r] EXCEPT !.at = "writing", !.scoring = v, !.read = skill[v],
                                 !.todo = @ \ {v}])
    /\ UNCHANGED <<skill, feedback>>

\* Mutant: retired one failure early.
RetiresEarly(score) == score <= 1 - RetireAfter

Retires(score) == score <= -RetireAfter

\* ... and commit the feedback, the score computed from what was read, and
\* the retirement (an unchanged status is not written).
WriteScore(r) ==
    LET v     == review[r].scoring
        score == IF review[r].good THEN review[r].read.score + 1 ELSE review[r].read.score - 1
    IN  /\ ReviewAt(r, "writing")
        /\ feedback' = IF review[r].good
                       THEN [feedback EXCEPT ![v].plus = @ + 1]
                       ELSE [feedback EXCEPT ![v].minus = @ + 1]
        /\ skill' = [skill EXCEPT ![v].score = score, ![v].active = @ /\ ~Retires(score)]
        /\ ReviewTo(r, [review[r] EXCEPT !.at = "scoring", !.scoring = 0, !.read = NoSkill])

\* kept: this job ran to its end (each job is run once).
EndReview(r) ==
    /\ ReviewAt(r, "scoring") /\ review[r].todo = {}
    /\ ReviewTo(r, [NoReview EXCEPT !.kept = TRUE, !.content = review[r].content, !.met = review[r].met])
    /\ UNCHANGED <<skill, feedback>>

\* An error is logged and ends the job; the process may also die.
ReviewFails(r) ==
    /\ review[r].at # "idle"
    /\ ReviewTo(r, [NoReview EXCEPT !.kept = TRUE])
    /\ UNCHANGED <<skill, feedback>>

SkillNext ==
    \E r \in Review :
        \/ BeginReview(r) \/ DistilNothing(r) \/ Distil(r) \/ ReadVersion(r)
         \/ InsertVersion(r) \/ VersionTaken(r)
        \/ DropGuidance(r) \/ \E v \in SkillVersion : ReadSkill(r, v)
        \/ WriteScore(r) \/ EndReview(r) \/ ReviewFails(r)

SkillSpec == SkillInit /\ [][SkillNext]_skillVars
-----------------------------------------------------------------------------
SkillTypeOK ==
    /\ StoredSkills = 1..Cardinality(StoredSkills)
    /\ \A v \in SkillVersion : /\ skill[v].score \in Int /\ skill[v].active \in BOOLEAN
                          /\ skill[v].content \in Guidance \cup {"none"}
                          /\ skill[v].active => v \in StoredSkills
                          /\ feedback[v].plus \in Nat /\ feedback[v].minus \in Nat
    /\ \A r \in Review : /\ review[r].tries \in 0..Retries /\ review[r].used \subseteq StoredSkills
                         /\ review[r].base < MaxVersions

\* Guidance is dropped for want of a version number only after as many others
\* were stored meanwhile as there are attempts (skills.py:158-160, 178-185).
DroppedOnlyAfterRaces ==
    \A r \in Review : review[r].content = "lost" => review[r].met >= Retries

\* Although concurrent reviews overwrite each other's scores, a skill retires
\* only after enough failures to justify it, and the score never claims more
\* than was fed back (skills.py:200-206).
RetiredWithCause ==
    \A v \in StoredSkills : /\ ~skill[v].active => feedback[v].minus >= RetireAfter
                      /\ -feedback[v].minus <= skill[v].score
                      /\ skill[v].score <= feedback[v].plus

\* "return it instead of piling up identical rows" (skills.py:143-145): no two
\* active skills of the domain hold the same content.
NoTwins == \A c \in Guidance : Cardinality(Holding(c)) <= 1
=============================================================================
