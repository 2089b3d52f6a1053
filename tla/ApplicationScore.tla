--------------------------- MODULE ApplicationScore ---------------------------
(* The CV of an application and its stored match score                     *)
(* (services/application_tailoring.py, services/ats_evaluation.py and the  *)
(* gate of workers/tasks.py).                                              *)
(*                                                                         *)
(* Tailoring, scoring and a run each read the row, work for minutes and    *)
(* write back the columns they changed; the owner attaches another CV      *)
(* meanwhile.  One engine scores everything, so a score is known by the CV *)
(* it is of.  A CV deleted meanwhile is the subject of ResumeLibrary.      *)
EXTENDS Naturals, FiniteSets

CONSTANTS
    BaseCv,         \* uploaded CVs, 1..n
    ScoreAsk,       \* tailoring and scoring requests served at a time
    MaxTailored     \* bound on the tailored versions

Cv    == 1..Cardinality(BaseCv) + MaxTailored
NoCv  == 0

ASSUME ScoreAssumption ==
    MaxTailored \in Nat /\ IsFiniteSet(BaseCv) /\ BaseCv = 1..Cardinality(BaseCv)

VARIABLES
    row,            \* the application: status, resume_id, ats_score
    tailoredOf,     \* tailored version -> its base
    scoreAsks,      \* the requests
    run,            \* the run of the application, with its snapshot
    mixed           \* a named overlap parted the score from the CV

scoreVars == <<row, tailoredOf, scoreAsks, run, mixed>>

NoAsk == [op |-> "none"]
NotRunning == [at |-> "none"]
Ask(q, ask) == scoreAsks' = [scoreAsks EXCEPT ![q] = ask]

\* _EDITABLE
Editable == {"pending_review", "queued"}

ScoreInit ==
    /\ row \in [status : Editable, resume : {NoCv} \cup BaseCv, score : {NoCv}]
    /\ tailoredOf = << >>
    /\ scoreAsks = [q \in ScoreAsk |-> NoAsk]
    /\ run = NotRunning
    /\ mixed = FALSE

\* SQLAlchemy: only what differs from the value read is written.
Column(new, read, now) == IF new = read THEN now ELSE new

Fits(r) == r.score \in {NoCv, r.resume}

Columns == [resume |-> row.resume, score |-> row.score]

\* A writer that read another CV or score than the row has now.
Overtaken(read) == <<read.resume, read.score>> # <<row.resume, row.score>>

WriteRow(r, parting) ==
    /\ row' = r
    /\ mixed' = ((parting \/ mixed) /\ ~Fits(r))

-----------------------------------------------------------------------------
\* _choose_base: the one asked for, the base of the attached CV, or the best.
Bases(r) ==
    IF r.resume = NoCv THEN BaseCv
    ELSE BaseCv \cap {IF r.resume \in BaseCv THEN r.resume ELSE tailoredOf[r.resume]}

BeginTailoring(q, requested) ==
    /\ scoreAsks[q] = NoAsk /\ row.status \in Editable
    /\ \E b \in IF requested THEN BaseCv ELSE Bases(row) :
         Ask(q, [op |-> "tailor", base |-> b, read |-> Columns])
    /\ UNCHANGED <<row, tailoredOf, run, mixed>>

\* generate_tailored_resume: the newest version of this base, or a new one.
Generate(q) ==
    LET b    == scoreAsks[q].base
        done == {t \in DOMAIN tailoredOf : tailoredOf[t] = b}
        next == Cardinality(BaseCv) + Cardinality(DOMAIN tailoredOf) + 1
    IN  /\ scoreAsks[q].op = "tailor"
        /\ \/ \E t \in done : /\ \A u \in done : u <= t
                              /\ Ask(q, [op |-> "attach", cv |-> t, read |-> scoreAsks[q].read])
                              /\ UNCHANGED tailoredOf
           \/ /\ next \in Cv
              /\ tailoredOf' = [t \in DOMAIN tailoredOf \cup {next} |->
                                  IF t = next THEN b ELSE tailoredOf[t]]
              /\ Ask(q, [op |-> "attach", cv |-> next, read |-> scoreAsks[q].read])
           \/ Ask(q, NoAsk) /\ UNCHANGED tailoredOf        \* nothing was saved
        /\ UNCHANGED <<row, run, mixed>>

CommitTailoring(q) ==
    LET ask == scoreAsks[q]
    IN  /\ ask.op = "attach"
        /\ WriteRow([row EXCEPT !.resume = Column(ask.cv, ask.read.resume, @),
                              !.score  = Column(ask.cv, ask.read.score, @)], Overtaken(ask.read))
        /\ Ask(q, NoAsk)
        /\ UNCHANGED <<tailoredOf, run>>
-----------------------------------------------------------------------------
\* score_applications, with the attached CV or one the owner chose.
BeginScoring(q, chosen) ==
    /\ scoreAsks[q] = NoAsk
    /\ Ask(q, [op |-> "score", chosen |-> chosen, read |-> Columns])
    /\ UNCHANGED <<row, tailoredOf, run, mixed>>

\* Mutant: the score of the chosen CV is stored.
StoredAlways(ask) == IF ask.chosen = NoCv THEN ask.read.resume ELSE ask.chosen

\* Only the score of the attached CV is; NoCv stores none.
ScoreStored(ask) == IF ask.chosen = NoCv THEN ask.read.resume ELSE NoCv

CommitScoring(q) ==
    LET ask == scoreAsks[q]
        cv  == ScoreStored(ask)
    IN  /\ ask.op = "score"
        /\ \/ /\ cv # NoCv
              /\ WriteRow([row EXCEPT !.score = Column(cv, ask.read.score, @)], Overtaken(ask.read))
           \/ UNCHANGED <<row, mixed>>        \* no posting, unreadable, or not stored
        /\ Ask(q, NoAsk)
        /\ UNCHANGED <<tailoredOf, run>>
-----------------------------------------------------------------------------
\* update_status leaves the score alone.
AttachCv(cv, status) ==
    /\ cv \in BaseCv \cup DOMAIN tailoredOf /\ cv # row.resume
    /\ WriteRow([row EXCEPT !.status = status, !.resume = cv], TRUE)
    /\ UNCHANGED <<tailoredOf, scoreAsks, run>>

ApproveRow ==
    /\ row.status \in Editable
    /\ row' = [row EXCEPT !.status = "approved"]
    /\ UNCHANGED <<tailoredOf, scoreAsks, run, mixed>>
-----------------------------------------------------------------------------
\* A review-mode row is staged for its owner before the gate.
LoadRow ==
    /\ run = NotRunning /\ row.status \in {"queued", "approved"}
    /\ \/ run' = [at |-> "gate", read |-> row] /\ UNCHANGED row
       \/ /\ row.status = "queued"
          /\ row' = [row EXCEPT !.status = "pending_review"] /\ UNCHANGED run
    /\ UNCHANGED <<tailoredOf, scoreAsks, mixed>>

\* _ats_score: of the attached CV; what the row has without one, or when it
\* cannot be scored.
GateScores(read) ==
    {read.score} \cup IF read.resume # NoCv THEN {read.resume} ELSE {}

\* _enforce_policy stores the score with the verdict.
StoreVerdict(status) ==
    \E score \in GateScores(run.read) :
        WriteRow([row EXCEPT !.status = Column(status, run.read.status, @),
                             !.score  = Column(score, run.read.score, @)], Overtaken(run.read))

GateHolds ==
    /\ run.at = "gate"
    /\ \E status \in {"queued", "pending_review", "failed"} : StoreVerdict(status)
    /\ run' = NotRunning
    /\ UNCHANGED <<tailoredOf, scoreAsks>>

GateAllows ==
    /\ run.at = "gate"
    /\ StoreVerdict("applying")
    /\ run' = [at |-> "sending", read |-> run.read]
    /\ UNCHANGED <<tailoredOf, scoreAsks>>

\* Without a CV the run waits for the owner's setup.
EndSending ==
    /\ run.at = "sending"
    /\ \E status \in {"applied", "failed", "approved"} :
         /\ status = "applied" => run.read.resume # NoCv
         /\ row' = [row EXCEPT !.status = status]
    /\ run' = NotRunning
    /\ UNCHANGED <<tailoredOf, scoreAsks, mixed>>

ScoreNext ==
    \/ \E q \in ScoreAsk :
         \/ \E requested \in BOOLEAN : BeginTailoring(q, requested)
         \/ Generate(q) \/ CommitTailoring(q) \/ CommitScoring(q)
         \/ \E cv \in {NoCv} \cup BaseCv \cup DOMAIN tailoredOf : BeginScoring(q, cv)
    \/ \E cv \in Cv, status \in Editable : AttachCv(cv, status)
    \/ ApproveRow \/ LoadRow \/ GateHolds \/ GateAllows \/ EndSending

ScoreSpec == ScoreInit /\ [][ScoreNext]_scoreVars
-----------------------------------------------------------------------------
ScoreTypeOK ==
    /\ row.resume \in {NoCv} \cup BaseCv \cup DOMAIN tailoredOf
    /\ row.score \in {NoCv} \cup BaseCv \cup DOMAIN tailoredOf
    /\ \A t \in DOMAIN tailoredOf : t \in Cv \ BaseCv /\ tailoredOf[t] \in BaseCv
    /\ \A q \in ScoreAsk : scoreAsks[q].op \in {"none", "tailor", "attach", "score"}
    /\ run.at \in {"none", "gate", "sending"}

\* services/ats_evaluation.py:332: "Only the application's own resume's score is
\* the application's score".  It is another CV's only after the owner attached
\* one by hand, or when a tailoring, a scoring or a run that had read the row
\* before another of them wrote it comes last; the next of them to end mends it.
ScoreOfAttached == mixed \/ Fits(row)
=============================================================================
