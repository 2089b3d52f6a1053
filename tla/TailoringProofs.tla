--------------------------- MODULE TailoringProofs ---------------------------
(***************************************************************************)
(* Theorems about CVs, for any number of them: what is shipped is what its *)
(* change log reports, whatever the lines, rounds and scores; the stored   *)
(* score of an application is the score of the attached CV; rows and files *)
(* of the library agree, save for failures on record; only tailoring forks *)
(* a line of versions; and what their values can be.                       *)
(***************************************************************************)
EXTENDS ApplicationScore, PdfTailoring, ResumeLibrary, ResumeVersions,
        FiniteSetTheorems, WellFoundedInduction, TLAPS

Source == {"original", "edited", "shortened", "removed"}
PdfStage  == {"plan", "check", "fit", "revert", "shipped", "failed"}

PdfTyped ==
    /\ pass \in [stage : PdfStage, round : Nat, before : Score,
                 text : [CvLine -> Source], score : Score]
    /\ outFile \in [CvLine -> Source]
    /\ log = [applied |-> log.applied, changes |-> log.changes, fitted |-> log.fitted]
    /\ log.applied = [l \in DOMAIN log.applied |-> log.applied[l]]
    /\ DOMAIN log.applied \subseteq CvLine

(* While rounds are made, the log names the edited lines, and the file is  *)
(* the original but for those.                                             *)
RoundsLogged ==
    pass.stage \in {"plan", "check", "fit"} =>
        /\ DOMAIN log.applied = log.changes /\ log.fitted = {}
        /\ \A l \in log.changes : log.applied[l] = "edited"
        /\ outFile = [l \in CvLine |-> IF l \in log.changes THEN "edited" ELSE "original"]
        /\ pass.text = outFile

PdfInv == PdfTyped /\ RoundsLogged /\ ShippedAsReported

LEMMA PdfInitInv == PdfInit => PdfInv
  BY DEF PdfInit, PdfInv, PdfTyped, RoundsLogged, ShippedAsReported, Source, PdfStage,
         Original, NoLines

LEMMA KeepRoundInv ==
    ASSUME PdfInv, NEW lines, NEW score \in Score, NEW focus, KeepRound(lines, score, focus)
    PROVE  PdfInv'
<1> DEFINE text  == With(pass.text, lines, "edited")
           edits == With(log.applied, lines, "edited")
           more  == focus /\ score < AtsTarget /\ pass.round < MaxRounds
<1>1. /\ pass.stage = "plan" /\ lines \subseteq CvLine
      /\ outFile' = text
      /\ log' = [log EXCEPT !.applied = edits, !.changes = @ \cup lines]
      /\ pass' = [pass EXCEPT !.text = text, !.score = score,
                              !.stage = IF more THEN "plan" ELSE "check",
                              !.round = IF more THEN @ + 1 ELSE @]
  BY DEF KeepRound, Placed, Proposable
<1>2. /\ DOMAIN log.applied = log.changes /\ log.changes \subseteq CvLine
      /\ log.fitted = {}
      /\ \A l \in log.changes : log.applied[l] = "edited"
      /\ pass.text = [l \in CvLine |-> IF l \in log.changes THEN "edited" ELSE "original"]
  BY <1>1 DEF PdfInv, PdfTyped, RoundsLogged
<1>3. text = [l \in CvLine |-> IF l \in log.changes \cup lines THEN "edited" ELSE "original"]
  BY <1>1, <1>2 DEF With
<1>4. /\ edits = [l \in DOMAIN edits |-> edits[l]]
      /\ DOMAIN edits = log.changes \cup lines
      /\ \A l \in log.changes \cup lines : edits[l] = "edited"
  BY <1>2 DEF With
<1>5. text \in [CvLine -> Source]
  BY <1>3 DEF Source
<1> HIDE DEF text, edits, more
<1>6. log' = [applied |-> edits, changes |-> log.changes \cup lines, fitted |-> {}]
  BY <1>1, <1>2 DEF PdfInv, PdfTyped
<1>7. /\ pass' \in [stage : PdfStage, round : Nat, before : Score,
                    text : [CvLine -> Source], score : Score]
      /\ pass'.stage \in {"plan", "check"} /\ pass'.text = text
  <2>1. /\ pass \in [stage : PdfStage, round : Nat, before : Score,
                     text : [CvLine -> Source], score : Score]
        /\ (IF more THEN "plan" ELSE "check") \in {"plan", "check"}
        /\ (IF more THEN pass.round + 1 ELSE pass.round) \in Nat
    BY DEF PdfInv, PdfTyped
  <2>2. {"plan", "check"} \subseteq PdfStage
    BY DEF PdfStage
  <2> QED BY <1>1, <1>5, <2>1, <2>2
<1>8. PdfTyped'
  <2>1. /\ log'.applied = edits
        /\ log' = [applied |-> log'.applied, changes |-> log'.changes, fitted |-> log'.fitted]
    BY <1>6
  <2>2. log.changes \cup lines \subseteq CvLine
    BY <1>1, <1>2
  <2> QED BY <1>1, <1>4, <1>5, <1>7, <2>1, <2>2 DEF PdfTyped
<1>9. RoundsLogged'
  <2>1. /\ log'.applied = edits /\ log'.changes = log.changes \cup lines
        /\ log'.fitted = {}
    BY <1>6
  <2> QED BY <1>1, <1>3, <1>4, <1>7, <2>1 DEF RoundsLogged
<1>10. ShippedAsReported'
  BY <1>7 DEF ShippedAsReported
<1> QED BY <1>8, <1>9, <1>10 DEF PdfInv

LEMMA FitInv ==
    ASSUME PdfInv, NEW lines \in SUBSET CvLine, NEW value \in {"shortened", "removed"},
           Fit(lines, value)
    PROVE  PdfInv'
<1>1. /\ DOMAIN log.applied = log.changes /\ log.changes \subseteq CvLine
      /\ outFile = [l \in CvLine |-> IF l \in log.changes THEN "edited" ELSE "original"]
      /\ \A l \in log.changes : log.applied[l] = "edited"
  BY DEF Fit, PdfInv, PdfTyped, RoundsLogged
<1>2. /\ outFile' \in [CvLine -> Source]
      /\ log' = [applied |-> log'.applied, changes |-> log.changes, fitted |-> lines]
      /\ log'.applied = [l \in DOMAIN log'.applied |-> log'.applied[l]]
      /\ DOMAIN log'.applied = log.changes \cup lines
      /\ \A l \in CvLine :
           outFile'[l] = IF l \in log.changes \cup lines THEN log'.applied[l] ELSE "original"
      /\ \A l \in CvLine : outFile'[l] = "edited" => outFile[l] = "edited"
  <2> DEFINE applied == With(log.applied, lines, value)
  <2>1. /\ outFile' = With(outFile, lines, value)
        /\ log' = [applied |-> applied, changes |-> log.changes, fitted |-> lines]
    BY DEF Fit, Fitted
  <2>2. DOMAIN outFile = CvLine /\ CvLine \cup lines = CvLine
    BY <1>1
  <2>3. outFile' = [l \in CvLine |-> IF l \in lines THEN value ELSE outFile[l]]
    BY <2>1, <2>2 DEF With
  <2>4. /\ applied = [l \in DOMAIN applied |-> applied[l]]
        /\ DOMAIN applied = log.changes \cup lines
        /\ \A l \in log.changes \cup lines :
             applied[l] = IF l \in lines THEN value ELSE "edited"
    BY <1>1 DEF With
  <2>5. log'.applied = applied
    BY <2>1
  <2> HIDE DEF applied
  <2> QED BY <1>1, <2>1, <2>3, <2>4, <2>5 DEF Source
<1>3. /\ pass' \in [stage : PdfStage, round : Nat, before : Score,
                    text : [CvLine -> Source], score : Score]
      /\ pass'.score = pass.score /\ pass'.before = pass.before
      /\ pass'.stage \in {"failed", "revert", "shipped"}
      /\ pass'.stage = "shipped" => log.changes = {} \/ ~Worse
  BY DEF Fit, MoveTo, PdfInv, PdfTyped, PdfStage
<1>4. PdfTyped' /\ RoundsLogged'
  BY <1>1, <1>2, <1>3 DEF PdfTyped, RoundsLogged
<1>5. ASSUME pass'.stage = "shipped" PROVE ShippedAsReported'
  <2>1. Reported' = log.changes \cup lines
    BY <1>2 DEF Reported
  <2>2. ASSUME NEW l \in CvLine, outFile'[l] = "edited" PROVE pass'.score >= pass'.before
    <3>1. l \in log.changes
      BY <1>1, <1>2, <2>2
    <3> QED BY <1>3, <1>5, <3>1, PdfAssumption DEF Worse, Score
  <2> QED BY <1>2, <2>1, <2>2 DEF ShippedAsReported
<1> QED BY <1>4, <1>5 DEF PdfInv, ShippedAsReported

LEMMA RevertInv ==
    ASSUME PdfInv, NEW lines \in SUBSET CvLine, NEW value \in {"shortened", "removed"},
           Revert(lines, value)
    PROVE  PdfInv'
<1>1. /\ outFile' \in [CvLine -> Source]
      /\ log' = [applied |-> log'.applied, changes |-> {}, fitted |-> lines]
      /\ log'.applied = [l \in DOMAIN log'.applied |-> log'.applied[l]]
      /\ DOMAIN log'.applied = lines
      /\ \A l \in CvLine :
           outFile'[l] = IF l \in lines THEN log'.applied[l] ELSE "original"
      /\ \A l \in CvLine : outFile'[l] # "edited"
  <2> DEFINE applied == With(NoLines, lines, value)
  <2>1. /\ outFile' = With(Original, lines, value)
        /\ log' = [applied |-> applied, changes |-> {}, fitted |-> lines]
    BY DEF Revert, Fitted
  <2>2. outFile' = [l \in CvLine |-> IF l \in lines THEN value ELSE "original"]
    BY <2>1 DEF With, Original
  <2>3. applied = [l \in lines |-> value]
    BY DEF With, NoLines
  <2>4. log'.applied = applied
    BY <2>1
  <2> HIDE DEF applied
  <2> QED BY <2>1, <2>2, <2>3, <2>4 DEF Source
<1>2. /\ pass' \in [stage : PdfStage, round : Nat, before : Score,
                    text : [CvLine -> Source], score : Score]
      /\ pass'.stage = "shipped"
  BY DEF Revert, MoveTo, PdfInv, PdfTyped, PdfStage
<1>3. PdfTyped' /\ RoundsLogged'
  BY <1>1, <1>2 DEF PdfTyped, RoundsLogged
<1>4. Reported' = lines
  BY <1>1 DEF Reported
<1>5. ShippedAsReported'
  BY <1>1, <1>4 DEF ShippedAsReported, Original
<1> QED BY <1>3, <1>5 DEF PdfInv

LEMMA PdfStepInv == PdfInv /\ [PdfNext]_pdfVars => PdfInv'
<1> SUFFICES ASSUME PdfInv, [PdfNext]_pdfVars PROVE PdfInv'
  OBVIOUS
<1>1. CASE UNCHANGED pdfVars
  BY <1>1 DEF pdfVars, PdfInv, PdfTyped, RoundsLogged, ShippedAsReported, Reported
<1>2. CASE PlanFails \/ NoEdit \/ PlaceFails
  <2>1. /\ pass.stage = "plan" /\ pass'.stage \in {"check", "failed"}
        /\ pass' = [pass EXCEPT !.stage = pass'.stage]
        /\ UNCHANGED <<outFile, log>>
    BY <1>2 DEF PlanFails, NoEdit, PlaceFails, MoveTo, PdfInv, PdfTyped
  <2> QED BY <2>1 DEF PdfInv, PdfTyped, RoundsLogged, ShippedAsReported, PdfStage
<1>3. ASSUME NEW lines, NEW score, DropRound(lines, score) PROVE PdfInv'
  BY <1>3 DEF DropRound, Placed, MoveTo, PdfInv, PdfTyped, RoundsLogged,
              ShippedAsReported, PdfStage
<1>4. CASE CheckWhole
  <2>1. /\ pass.stage = "check" /\ pass'.stage \in {"fit", "failed"}
        /\ pass' = [pass EXCEPT !.stage = pass'.stage]
        /\ outFile' = outFile /\ log' = log
    BY <1>4 DEF CheckWhole, MoveTo, PdfInv, PdfTyped, RoundsLogged, Original
  <2> QED BY <2>1 DEF PdfInv, PdfTyped, RoundsLogged, ShippedAsReported, PdfStage
<1> QED BY <1>1, <1>2, <1>3, <1>4, KeepRoundInv, FitInv, RevertInv DEF PdfNext

(* However many rounds are kept or dropped, whatever each scores, and      *)
(* whatever the page fit shortens or removes before and after a revert,    *)
(* the shipped file is the original but for what the change log says, and  *)
(* keeps a new wording only if it scored no less (pdf_pipeline.py:250-455).*)
THEOREM TailoringReported == PdfSpec => []ShippedAsReported
<1>1. PdfInv => ShippedAsReported
  BY DEF PdfInv
<1> QED BY <1>1, PdfInitInv, PdfStepInv, PTL DEF PdfSpec
-----------------------------------------------------------------------------
(* The application is a record of three columns.                           *)
RowShaped == \E s, doc, of : row = [status |-> s, resume |-> doc, score |-> of]

ScoreInv == RowShaped /\ ScoreOfAttached

LEMMA ScoreInitInv == ScoreInit => ScoreInv
  BY DEF ScoreInit, ScoreInv, RowShaped, ScoreOfAttached, Fits

(* What the writers make of the columns.                                   *)
LEMMA ColumnsSet ==
    ASSUME RowShaped, NEW s, NEW doc, NEW of
    PROVE  /\ [row EXCEPT !.resume = doc, !.score = of] =
                [status |-> row.status, resume |-> doc, score |-> of]
           /\ [row EXCEPT !.status = s, !.resume = doc] =
                [status |-> s, resume |-> doc, score |-> row.score]
           /\ [row EXCEPT !.status = s, !.score = of] =
                [status |-> s, resume |-> row.resume, score |-> of]
           /\ [row EXCEPT !.status = s] =
                [status |-> s, resume |-> row.resume, score |-> row.score]
           /\ [row EXCEPT !.score = of] =
                [status |-> row.status, resume |-> row.resume, score |-> of]
<1>1. PICK a, b, c : row = [status |-> a, resume |-> b, score |-> c]
  BY DEF RowShaped
<1>2. /\ DOMAIN row = {"status", "resume", "score"}
      /\ row.status = a /\ row.resume = b /\ row.score = c
  BY <1>1
<1>3. [row EXCEPT !.resume = doc, !.score = of] =
        [status |-> row.status, resume |-> doc, score |-> of]
  <2> DEFINE r == [row EXCEPT !.resume = doc]
  <2>1. [row EXCEPT !.resume = doc, !.score = of] = [r EXCEPT !.score = of]
    BY <1>1
  <2>2. r = [status |-> a, resume |-> doc, score |-> c]
    BY <1>1
  <2> HIDE DEF r
  <2> QED BY <1>2, <2>1, <2>2
<1>4. [row EXCEPT !.status = s, !.resume = doc] =
        [status |-> s, resume |-> doc, score |-> row.score]
  <2> DEFINE r == [row EXCEPT !.status = s]
  <2>1. [row EXCEPT !.status = s, !.resume = doc] = [r EXCEPT !.resume = doc]
    BY <1>1
  <2>2. r = [status |-> s, resume |-> b, score |-> c]
    BY <1>1
  <2> HIDE DEF r
  <2> QED BY <1>2, <2>1, <2>2
<1>5. [row EXCEPT !.status = s, !.score = of] =
        [status |-> s, resume |-> row.resume, score |-> of]
  <2> DEFINE r == [row EXCEPT !.status = s]
  <2>1. [row EXCEPT !.status = s, !.score = of] = [r EXCEPT !.score = of]
    BY <1>1
  <2>2. r = [status |-> s, resume |-> b, score |-> c]
    BY <1>1
  <2> HIDE DEF r
  <2> QED BY <1>2, <2>1, <2>2
<1>6. [row EXCEPT !.status = s] =
        [status |-> s, resume |-> row.resume, score |-> row.score]
  BY <1>1
<1>7. [row EXCEPT !.score = of] =
        [status |-> row.status, resume |-> row.resume, score |-> of]
  BY <1>1
<1> QED BY <1>3, <1>4, <1>5, <1>6, <1>7

(* A write of the row keeps the score with its CV, unless the writer was   *)
(* overtaken.                                                              *)
LEMMA WriteInv ==
    ASSUME ScoreInv, NEW s, NEW doc, NEW of, NEW parting,
           WriteRow([status |-> s, resume |-> doc, score |-> of], parting),
           ~parting /\ Fits(row) => of \in {NoCv, doc}
    PROVE  ScoreInv'
  BY DEF ScoreInv, RowShaped, ScoreOfAttached, WriteRow, Fits

(* A column that was not overtaken holds what its writer gave it.          *)
LEMMA NotOvertaken ==
    ASSUME NEW read, ~Overtaken(read)
    PROVE  /\ read.resume = row.resume /\ read.score = row.score
           /\ \A new : /\ Column(new, read.resume, row.resume) = new
                       /\ Column(new, read.score, row.score) = new
  BY DEF Overtaken, Column

LEMMA CommitTailoringInv ==
    ASSUME ScoreInv, NEW q \in ScoreAsk, CommitTailoring(q)
    PROVE  ScoreInv'
<1> DEFINE ask == scoreAsks[q]
           doc == Column(ask.cv, ask.read.resume, row.resume)
           of  == Column(ask.cv, ask.read.score, row.score)
<1>1. WriteRow([status |-> row.status, resume |-> doc, score |-> of], Overtaken(ask.read))
  BY ColumnsSet DEF CommitTailoring, ScoreInv
<1>2. ~Overtaken(ask.read) => of \in {NoCv, doc}
  BY NotOvertaken
<1> HIDE DEF ask, doc, of
<1> QED BY <1>1, <1>2, WriteInv

LEMMA CommitScoringInv ==
    ASSUME ScoreInv, NEW q \in ScoreAsk, CommitScoring(q)
    PROVE  ScoreInv'
<1> DEFINE ask == scoreAsks[q]
           doc == ScoreStored(ask)
           of  == Column(doc, ask.read.score, row.score)
<1>1. CASE UNCHANGED <<row, mixed>>
  BY <1>1 DEF ScoreInv, RowShaped, ScoreOfAttached, Fits
<1>2. CASE doc # NoCv /\ WriteRow([row EXCEPT !.score = of], Overtaken(ask.read))
  <2>1. WriteRow([status |-> row.status, resume |-> row.resume, score |-> of],
                 Overtaken(ask.read))
    BY <1>2, ColumnsSet DEF ScoreInv
  <2>2. doc = ask.read.resume
    BY <1>2 DEF ScoreStored
  <2>3. ~Overtaken(ask.read) => of \in {NoCv, row.resume}
    BY <2>2, NotOvertaken
  <2> HIDE DEF ask, doc, of
  <2> QED BY <2>1, <2>3, WriteInv
<1> QED BY <1>1, <1>2 DEF CommitScoring

LEMMA AttachCvInv ==
    ASSUME ScoreInv, NEW doc, NEW status, AttachCv(doc, status)
    PROVE  ScoreInv'
<1>1. WriteRow([status |-> status, resume |-> doc, score |-> row.score], TRUE)
  BY ColumnsSet DEF AttachCv, ScoreInv
<1> QED BY <1>1, WriteInv

LEMMA StoreVerdictInv ==
    ASSUME ScoreInv, NEW status, StoreVerdict(status)
    PROVE  ScoreInv'
<1>1. PICK score \in GateScores(run.read) :
        WriteRow([row EXCEPT !.status = Column(status, run.read.status, @),
                             !.score  = Column(score, run.read.score, @)], Overtaken(run.read))
  BY DEF StoreVerdict
<1> DEFINE s  == Column(status, run.read.status, row.status)
           of == Column(score, run.read.score, row.score)
<1>2. WriteRow([status |-> s, resume |-> row.resume, score |-> of], Overtaken(run.read))
  <2>1. WriteRow([row EXCEPT !.status = s, !.score = of], Overtaken(run.read))
    BY <1>1
  <2> HIDE DEF s, of
  <2> QED BY <2>1, ColumnsSet DEF ScoreInv
<1>3. score \in {run.read.score, run.read.resume}
  BY DEF GateScores
<1>4. ~Overtaken(run.read) /\ Fits(row) => of \in {NoCv, row.resume}
  BY <1>3, NotOvertaken DEF Fits
<1> HIDE DEF s, of
<1> QED BY <1>2, <1>4, WriteInv

LEMMA ScoreStepInv == ScoreInv /\ [ScoreNext]_scoreVars => ScoreInv'
<1> SUFFICES ASSUME ScoreInv, [ScoreNext]_scoreVars PROVE ScoreInv'
  OBVIOUS
<1>1. CASE UNCHANGED <<row, mixed>>
  BY <1>1 DEF ScoreInv, RowShaped, ScoreOfAttached, Fits
<1>2. ASSUME UNCHANGED mixed, NEW s, row' = [row EXCEPT !.status = s]
      PROVE  ScoreInv'
  BY <1>2, ColumnsSet DEF ScoreInv, RowShaped, ScoreOfAttached, Fits
<1>3. ASSUME NEW q \in ScoreAsk, NEW requested \in BOOLEAN, BeginTailoring(q, requested)
      PROVE  ScoreInv'
  BY <1>1, <1>3 DEF BeginTailoring
<1>4. ASSUME NEW q \in ScoreAsk, Generate(q) PROVE ScoreInv'
  BY <1>1, <1>4 DEF Generate
<1>5. ASSUME NEW q \in ScoreAsk, NEW doc, BeginScoring(q, doc) PROVE ScoreInv'
  BY <1>1, <1>5 DEF BeginScoring
<1>6. CASE ApproveRow
  BY <1>2, <1>6 DEF ApproveRow
<1>7. CASE LoadRow
  BY <1>1, <1>2, <1>7 DEF LoadRow
<1>8. CASE GateHolds
  <2>1. PICK status \in {"queued", "pending_review", "failed"} : StoreVerdict(status)
    BY <1>8 DEF GateHolds
  <2> QED BY <2>1, StoreVerdictInv
<1>9. CASE GateAllows
  BY <1>9, StoreVerdictInv DEF GateAllows
<1>10. CASE EndSending
  BY <1>2, <1>10 DEF EndSending
<1>11. CASE UNCHANGED scoreVars
  BY <1>1, <1>11 DEF scoreVars
<1> QED BY <1>3, <1>4, <1>5, <1>6, <1>7, <1>8, <1>9, <1>10, <1>11,
           CommitTailoringInv, CommitScoringInv, AttachCvInv DEF ScoreNext

(* Tailoring, scoring, the gate and the owner write the row in any order,  *)
(* from whatever they read before: the stored score is that of the         *)
(* attached CV unless one of them was overtaken, or the owner attached a   *)
(* CV by hand (application_tailoring.py:58-132, ats_evaluation.py:280-345).*)
THEOREM ScoreIsOfAttached == ScoreSpec => []ScoreOfAttached
<1>1. ScoreInv => ScoreOfAttached
  BY DEF ScoreInv
<1> QED BY <1>1, ScoreInitInv, ScoreStepInv, PTL DEF ScoreSpec

-----------------------------------------------------------------------------
(***************************************************************************)
(* Files and rows of CVs.                                                  *)
(***************************************************************************)
LibraryWork ==
       [op : {"none"}]
  \cup [op : {"wait"}, base : Cvs]
  \cup [op : {"write"}, base : Cvs, locked : BOOLEAN]
  \cup [op : {"store"}, cv : Cvs, base : 0..MaxCvs, locked : BOOLEAN]
  \cup [op : {"delete", "forget"}, cv : Cvs]

RunOfCv == [at : {"none", "sent"}] \cup [at : {"load"}, cv : 0..MaxCvs]

StatusOfCv == {"queued", "applying", "applied", "failed", "withdrawn"}

LibraryTyped ==
    /\ cv \in [Cvs -> {"none", "live", "archived", "deleted"}]
    /\ madeFrom \in [Cvs -> 0..MaxCvs]
    /\ object \in [Cvs -> BOOLEAN]
    /\ lastCv \in 0..MaxCvs
    /\ requests \in [CvRequest -> LibraryWork]
    /\ application \in [Application -> [status : StatusOfCv, resume : 0..MaxCvs]]
    /\ sending \in [Application -> RunOfCv]
    /\ sentWith \in [Application -> 0..MaxCvs]

(* The file of a row about to be stored is there, and its own.             *)
StoresKnown ==
    /\ \A i \in Cvs : i > lastCv => cv[i] = "none" /\ ~object[i]
    /\ \A r \in CvRequest : requests[r].op = "store" =>
         /\ cv[requests[r].cv] = "none" /\ object[requests[r].cv]
         /\ \A q \in CvRequest : requests[q].op = "store" /\ requests[q].cv = requests[r].cv => q = r

(* A deletion is of a CV that was stored, and its file is gone by the time *)
(* the row goes.                                                           *)
DeletesKnown ==
    \A r \in CvRequest : requests[r].op \in {"delete", "forget"} =>
      /\ cv[requests[r].cv] # "none"
      /\ requests[r].op = "forget" /\ object[requests[r].cv] => requests[r].cv \in strayed

(* References to rows, and what runs took from them.                       *)
ReferencesHold ==
    /\ \A i \in Cvs : madeFrom[i] # 0 => Kept(madeFrom[i])
    /\ \A a \in Application :
         /\ application[a].resume # 0 => Kept(application[a].resume)
         /\ sending[a].at = "load" /\ sending[a].cv # 0 => cv[sending[a].cv] # "none"
         /\ sentWith[a] # 0 => cv[sentWith[a]] # "none"

LibraryInv ==
    LibraryTyped /\ StoresKnown /\ DeletesKnown /\ ReferencesHold /\ FilesMatchRows

LEMMA CvIds == \A i \in 0..MaxCvs : i # 0 => i \in Cvs
  BY LibraryAssumption DEF Cvs

LEMMA WorkFields ==
    ASSUME NEW w \in LibraryWork
    PROVE  /\ w.op \in {"store", "delete", "forget"} => w.cv \in Cvs
           /\ w.op \in {"wait", "write"} => w.base \in Cvs
           /\ w.op = "store" => w.base \in 0..MaxCvs
           /\ w.op = "write" => w.locked \in BOOLEAN
  BY DEF LibraryWork

LEMMA LibraryRequest ==
    ASSUME LibraryTyped, NEW r \in CvRequest PROVE requests[r] \in LibraryWork
  BY DEF LibraryTyped

LEMMA RunReads ==
    ASSUME LibraryTyped, NEW a \in Application
    PROVE  /\ sending[a].at = "load" => sending[a].cv \in 0..MaxCvs
           /\ sentWith[a] \in 0..MaxCvs /\ application[a].resume \in 0..MaxCvs
<1>1. sending[a] \in RunOfCv
  BY DEF LibraryTyped
<1>2. sending[a].at = "load" => sending[a].cv \in 0..MaxCvs
  BY <1>1 DEF RunOfCv
<1> QED BY <1>2 DEF LibraryTyped

LEMMA LibraryInitInv == LibraryInit => LibraryInv
<1> SUFFICES ASSUME LibraryInit PROVE LibraryInv
  OBVIOUS
<1>1. LibraryTyped
  BY LibraryAssumption
     DEF LibraryInit, LibraryTyped, LibraryWork, NoWork, RunOfCv, StatusOfCv, Cvs
<1>2. StoresKnown /\ DeletesKnown /\ ReferencesHold /\ FilesMatchRows
  BY LibraryAssumption
     DEF LibraryInit, StoresKnown, DeletesKnown, ReferencesHold, FilesMatchRows, NoWork, Kept, Cvs
<1> QED BY <1>1, <1>2 DEF LibraryInv

(* A request turns to other work.                                          *)
LEMMA WorkSet ==
    ASSUME LibraryTyped, NEW r \in CvRequest, NEW w \in LibraryWork, Work(r, w)
    PROVE  /\ requests' \in [CvRequest -> LibraryWork]
           /\ requests'[r] = w /\ \A q \in CvRequest \ {r} : requests'[q] = requests[q]
  BY DEF LibraryTyped, Work

(* A request that has no file or row in hand waits, or writes, or ends.    *)
LEMMA BeforeFileInv ==
    ASSUME LibraryInv, NEW r \in CvRequest, requests[r].op \in {"none", "wait", "write"},
           UNCHANGED <<rowVars, sendVars, faultVars>>,
           NEW w \in LibraryWork, w.op \in {"none", "wait", "write"}, Work(r, w)
    PROVE  LibraryInv'
<1>1. /\ requests' \in [CvRequest -> LibraryWork]
      /\ requests'[r] = w /\ \A q \in CvRequest \ {r} : requests'[q] = requests[q]
  BY WorkSet DEF LibraryInv
<1>2. InHand("store") \subseteq InHand("store")' /\ InHand("forget") \subseteq InHand("forget")'
  BY <1>1 DEF InHand
<1>3. LibraryTyped' /\ ReferencesHold'
  BY <1>1 DEF LibraryInv, LibraryTyped, ReferencesHold, Kept, rowVars, sendVars
<1>4. StoresKnown' /\ DeletesKnown'
  BY <1>1 DEF LibraryInv, StoresKnown, DeletesKnown, rowVars, sendVars, faultVars
<1>5. FilesMatchRows'
  BY <1>2 DEF LibraryInv, FilesMatchRows, Kept, rowVars, faultVars
<1> QED BY <1>3, <1>4, <1>5 DEF LibraryInv

(* A new file, with the request that will store its row, or on record.     *)
LEMMA StoreFileInv ==
    ASSUME LibraryInv, NEW r \in CvRequest, requests[r].op \in {"none", "write"},
           NEW b \in 0..MaxCvs, NEW l \in BOOLEAN, StoreNewFile(r, b, l),
           UNCHANGED <<cv, madeFrom, sendVars>>
    PROVE  LibraryInv'
<1>p. PICK i \in Cvs : i = lastCv + 1
  BY LibraryAssumption DEF LibraryInv, LibraryTyped, StoreNewFile, PutFile, Cvs
<1>0. /\ LibraryTyped /\ StoresKnown /\ DeletesKnown /\ ReferencesHold /\ FilesMatchRows
      /\ i \in Cvs /\ lastCv \in Nat /\ i > lastCv /\ lastCv' = i
      /\ object' = [object EXCEPT ![i] = TRUE]
  BY <1>p, LibraryAssumption DEF LibraryInv, LibraryTyped, StoreNewFile, PutFile, Cvs
<1>1. PICK w \in {[op |-> "store", cv |-> i, base |-> b, locked |-> l], NoWork} :
        /\ requests' \in [CvRequest -> LibraryWork]
        /\ requests'[r] = w /\ \A q \in CvRequest \ {r} : requests'[q] = requests[q]
        /\ w = NoWork => i \in strayed'
        /\ strayed \subseteq strayed' /\ bereft' = bereft
  <2>1. [op |-> "store", cv |-> i, base |-> b, locked |-> l] \in LibraryWork /\ NoWork \in LibraryWork
    BY DEF LibraryWork, NoWork
  <2>2. CASE /\ Work(r, [op |-> "store", cv |-> lastCv + 1, base |-> b, locked |-> l])
             /\ UNCHANGED faultVars
    <3>1. [op |-> "store", cv |-> i, base |-> b, locked |-> l] # NoWork
      BY DEF NoWork
    <3> QED BY <1>p, <1>0, <2>1, <2>2, <3>1, WorkSet DEF faultVars
  <2>3. CASE Work(r, NoWork) /\ Orphan(lastCv + 1)
    BY <1>p, <1>0, <2>1, <2>3, WorkSet DEF Orphan
  <2> QED BY <2>2, <2>3 DEF StoreNewFile
<1>2. /\ object'[i] /\ \A j \in Cvs \ {i} : object'[j] = object[j]
      /\ object' \in [Cvs -> BOOLEAN] /\ cv[i] = "none"
  BY <1>0 DEF LibraryTyped, StoresKnown
<1>w. /\ w.op \in {"store", "none"}
      /\ w.op = "store" => w.cv = i
      /\ w.op = "none" => i \in strayed'
  BY <1>1 DEF NoWork
<1>3. LibraryTyped' /\ ReferencesHold'
  BY <1>0, <1>1, <1>2, LibraryAssumption DEF LibraryTyped, ReferencesHold, Kept, sendVars, Cvs
<1>4. \A q \in CvRequest \ {r} : requests[q].op = "store" => requests[q].cv # i
  BY <1>0 DEF StoresKnown
<1>5. StoresKnown'
  <2>1. \A j \in Cvs : j > lastCv' => j # i /\ j > lastCv
    BY <1>0 DEF Cvs
  <2>2. \A j \in Cvs : j > lastCv' => cv'[j] = "none" /\ ~object'[j]
    BY <1>0, <1>2, <2>1 DEF StoresKnown
  <2>3. \A q \in CvRequest : requests'[q].op = "store" =>
         /\ cv'[requests'[q].cv] = "none" /\ object'[requests'[q].cv]
         /\ \A p \in CvRequest : requests'[p].op = "store" /\ requests'[p].cv = requests'[q].cv => p = q
    <3>1. \A q \in CvRequest : requests'[q].op = "store" =>
            (q = r /\ requests'[q].cv = i) \/ (q # r /\ requests'[q] = requests[q] /\ requests[q].cv \in Cvs \ {i})
      BY <1>0, <1>1, <1>w, <1>4, LibraryRequest, WorkFields
    <3> QED BY <1>0, <1>2, <3>1 DEF StoresKnown
  <2> QED BY <2>2, <2>3 DEF StoresKnown
<1>6. DeletesKnown'
  <2>1. \A q \in CvRequest : requests'[q].op \in {"delete", "forget"} =>
          q # r /\ requests'[q] = requests[q]
    BY <1>1, <1>w
  <2>2. \A q \in CvRequest : requests[q].op \in {"delete", "forget"} => requests[q].cv \in Cvs \ {i}
    BY <1>0, <1>2, LibraryRequest, WorkFields DEF DeletesKnown
  <2> QED BY <1>0, <1>1, <1>2, <2>1, <2>2 DEF DeletesKnown
<1>7. FilesMatchRows'
  <2>1. /\ InHand("store") \subseteq InHand("store")' /\ InHand("forget") \subseteq InHand("forget")'
        /\ i \in InHand("store")' \/ i \in strayed'
    BY <1>0, <1>1, <1>w DEF InHand
  <2>2. ~Kept(i) /\ \A j \in Cvs : Kept(j)' = Kept(j)
    BY <1>2 DEF Kept
  <2> QED BY <1>0, <1>1, <1>2, <2>1, <2>2 DEF FilesMatchRows
<1> QED BY <1>3, <1>5, <1>6, <1>7 DEF LibraryInv

(* The row is stored.                                                      *)
LEMMA StoreCvInv ==
    ASSUME LibraryInv, NEW r \in CvRequest, StoreCv(r)
    PROVE  LibraryInv'
<1>p. PICK i \in Cvs, b \in 0..MaxCvs : i = requests[r].cv /\ b = requests[r].base
  BY LibraryRequest, WorkFields DEF LibraryInv, StoreCv
<1>0. /\ LibraryTyped /\ StoresKnown /\ DeletesKnown /\ ReferencesHold /\ FilesMatchRows
      /\ requests[r].op = "store" /\ i \in Cvs /\ b \in 0..MaxCvs /\ (b # 0 => Kept(b))
      /\ UNCHANGED <<lastCv, sendVars>>
      /\ cv' = [cv EXCEPT ![i] = "live"] /\ madeFrom' = [madeFrom EXCEPT ![i] = b]
      /\ NoWork \in LibraryWork /\ NoWork.op = "none"
  BY <1>p DEF LibraryInv, LibraryTyped, StoreCv, LibraryWork, NoWork
<1>1. /\ requests' \in [CvRequest -> LibraryWork]
      /\ requests'[r] = NoWork /\ \A q \in CvRequest \ {r} : requests'[q] = requests[q]
  BY <1>p, <1>0, WorkSet DEF StoreCv
<1>2. /\ cv[i] = "none" /\ object[i] /\ i <= lastCv /\ cv'[i] = "live"
      /\ \A j \in Cvs \ {i} : cv'[j] = cv[j]
      /\ \A j \in Cvs : cv[j] # "none" => cv'[j] = cv[j]
  BY <1>p, <1>0 DEF StoresKnown, LibraryTyped, Cvs
<1>f. /\ object' \in [Cvs -> BOOLEAN] /\ strayed' = strayed /\ bereft \subseteq bereft'
      /\ \A j \in Cvs \ {i} : object'[j] = object[j]
      /\ object'[i] \/ i \in bereft'
  BY <1>p, <1>0, <1>2 DEF StoreCv, Discard, Bereave, faultVars, LibraryTyped
<1>3. LibraryTyped'
  BY <1>p, <1>0, <1>1, <1>f DEF LibraryTyped, sendVars
<1>4. \A j \in Cvs : Kept(j) => cv'[j] \in {"live", "archived"}
  BY <1>p, <1>2 DEF Kept
<1>5. ReferencesHold'
  <2>1. \A j \in Cvs : madeFrom'[j] # 0 => cv'[madeFrom'[j]] \in {"live", "archived"}
    <3> SUFFICES ASSUME NEW j \in Cvs, madeFrom'[j] # 0 PROVE cv'[madeFrom'[j]] \in {"live", "archived"}
      OBVIOUS
    <3>1. madeFrom'[j] \in Cvs /\ Kept(madeFrom'[j])
      <4>1. CASE j = i
        BY <1>p, <1>0, <4>1, CvIds DEF LibraryTyped
      <4>2. CASE j # i
        BY <1>p, <1>0, <4>2, CvIds DEF ReferencesHold, LibraryTyped
      <4> QED BY <4>1, <4>2
    <3> QED BY <1>4, <3>1
  <2>2. \A a \in Application :
          /\ application[a].resume # 0 => cv'[application[a].resume] \in {"live", "archived"}
          /\ sending[a].at = "load" /\ sending[a].cv # 0 => cv'[sending[a].cv] # "none"
          /\ sentWith[a] # 0 => cv'[sentWith[a]] # "none"
    <3> SUFFICES ASSUME NEW a \in Application
                 PROVE  /\ application[a].resume # 0 => cv'[application[a].resume] \in {"live", "archived"}
                        /\ sending[a].at = "load" /\ sending[a].cv # 0 => cv'[sending[a].cv] # "none"
                        /\ sentWith[a] # 0 => cv'[sentWith[a]] # "none"
      OBVIOUS
    <3>1. /\ sending[a].at = "load" => sending[a].cv \in 0..MaxCvs
          /\ sentWith[a] \in 0..MaxCvs /\ application[a].resume \in 0..MaxCvs
      BY <1>p, <1>0, RunReads
    <3>2. \A j \in Cvs : cv[j] # "none" => cv'[j] # "none"
      BY <1>p, <1>2
    <3> QED BY <1>0, <1>4, <3>1, <3>2, CvIds DEF ReferencesHold
  <2> QED BY <1>0, <2>1, <2>2 DEF ReferencesHold, sendVars, Kept
<1>6. StoresKnown'
  <2>1. \A q \in CvRequest : requests'[q].op = "store" =>
          q # r /\ requests'[q] = requests[q] /\ requests[q].cv \in Cvs \ {i}
    BY <1>p, <1>0, <1>1, LibraryRequest, WorkFields DEF StoresKnown
  <2>2. \A j \in Cvs : j > lastCv => j # i
    BY <1>p, <1>0, <1>2 DEF Cvs, LibraryTyped
  <2>3. \A j \in Cvs : j > lastCv' => cv'[j] = "none" /\ ~object'[j]
    BY <1>0, <1>2, <1>f, <2>2 DEF StoresKnown
  <2> QED BY <1>0, <1>1, <1>2, <1>f, <2>1, <2>3 DEF StoresKnown
<1>7. DeletesKnown'
  <2>1. \A q \in CvRequest : requests'[q].op \in {"delete", "forget"} =>
          q # r /\ requests'[q] = requests[q] /\ requests[q].cv \in Cvs
    BY <1>p, <1>0, <1>1, LibraryRequest, WorkFields
  <2>2. \A j \in Cvs : cv[j] # "none" => j # i /\ cv'[j] # "none" /\ object'[j] = object[j]
    BY <1>p, <1>2, <1>f
  <2> QED BY <1>0, <1>f, <2>1, <2>2 DEF DeletesKnown
<1>8. FilesMatchRows'
  <2>1. \A op \in {"store", "forget"} : InHand(op) \subseteq InHand(op)' \cup {i}
    BY <1>p, <1>1 DEF InHand
  <2>2. InHand("forget") \subseteq InHand("forget")'
    BY <1>p, <1>0, <1>1 DEF InHand
  <2>3. Kept(i)' /\ \A j \in Cvs \ {i} : Kept(j)' = Kept(j)
    BY <1>2 DEF Kept
  <2> QED BY <1>0, <1>f, <2>1, <2>2, <2>3 DEF FilesMatchRows
<1> QED BY <1>3, <1>5, <1>6, <1>7, <1>8 DEF LibraryInv

(* The row is refused: the file is discarded, or a failure is on record.   *)
LEMMA RefuseRowInv ==
    ASSUME LibraryInv, NEW r \in CvRequest, RefuseRow(r)
    PROVE  LibraryInv'
<1>p. PICK i \in Cvs : i = requests[r].cv
  BY LibraryRequest, WorkFields DEF LibraryInv, RefuseRow
<1>0. /\ LibraryTyped /\ StoresKnown /\ DeletesKnown /\ ReferencesHold /\ FilesMatchRows
      /\ requests[r].op = "store" /\ i \in Cvs
      /\ UNCHANGED <<cv, madeFrom, lastCv, sendVars>>
      /\ NoWork \in LibraryWork /\ NoWork.op = "none"
  BY <1>p DEF LibraryInv, LibraryTyped, RefuseRow, LibraryWork, NoWork
<1>1. /\ requests' \in [CvRequest -> LibraryWork]
      /\ requests'[r] = NoWork /\ \A q \in CvRequest \ {r} : requests'[q] = requests[q]
  BY <1>p, <1>0, WorkSet DEF RefuseRow
<1>2. /\ object' = [object EXCEPT ![i] = FALSE] \/ (object' = object /\ i \in strayed')
      /\ strayed' = strayed \/ strayed' = strayed \cup {i}
      /\ bereft' = bereft
  BY <1>p DEF RefuseRow, Discard, Orphan, faultVars
<1>3. /\ \A j \in Cvs \ {i} : object'[j] = object[j]
      /\ \A j \in Cvs : object'[j] => object[j]
      /\ object' \in [Cvs -> BOOLEAN] /\ strayed \subseteq strayed' /\ cv[i] = "none"
      /\ object'[i] => i \in strayed'
  BY <1>p, <1>0, <1>2 DEF LibraryTyped, StoresKnown
<1>4. LibraryTyped' /\ ReferencesHold'
  BY <1>p, <1>0, <1>1, <1>3 DEF LibraryTyped, ReferencesHold, Kept, sendVars
<1>5. StoresKnown'
  <2>1. \A q \in CvRequest : requests'[q].op = "store" =>
          q # r /\ requests'[q] = requests[q] /\ requests[q].cv \in Cvs \ {i}
    BY <1>p, <1>0, <1>1, LibraryRequest, WorkFields DEF StoresKnown
  <2> QED BY <1>0, <1>3, <2>1 DEF StoresKnown
<1>6. DeletesKnown'
  <2>1. \A q \in CvRequest : requests'[q].op \in {"delete", "forget"} =>
          q # r /\ requests'[q] = requests[q] /\ requests[q].cv \in Cvs
    BY <1>p, <1>0, <1>1, LibraryRequest, WorkFields
  <2> QED BY <1>0, <1>3, <2>1 DEF DeletesKnown
<1>7. FilesMatchRows'
  <2>1. /\ InHand("store") \subseteq InHand("store")' \cup {i}
        /\ InHand("forget") \subseteq InHand("forget")'
    BY <1>p, <1>0, <1>1 DEF InHand
  <2>2. ~Kept(i)' /\ \A j \in Cvs : Kept(j)' = Kept(j)
    BY <1>0, <1>3 DEF Kept
  <2> QED BY <1>0, <1>2, <1>3, <2>1, <2>2 DEF FilesMatchRows
<1> QED BY <1>4, <1>5, <1>6, <1>7 DEF LibraryInv

LEMMA BeginDeleteInv ==
    ASSUME LibraryInv, NEW r \in CvRequest, NEW i \in Cvs, BeginDelete(r, i)
    PROVE  LibraryInv'
<1>0. /\ LibraryTyped /\ StoresKnown /\ DeletesKnown /\ ReferencesHold /\ FilesMatchRows
      /\ requests[r].op = "none" /\ Kept(i)
      /\ UNCHANGED <<madeFrom, object, lastCv, application, sending, sentWith, strayed, bereft>>
  BY DEF LibraryInv, BeginDelete, sendVars, faultVars
<1>1. CASE cv' = [cv EXCEPT ![i] = "archived"] /\ UNCHANGED requests
  <2>1. /\ \A j \in Cvs : cv'[j] = cv[j] \/ (j = i /\ cv'[j] = "archived")
        /\ \A j \in Cvs : Kept(j)' = Kept(j) /\ (cv'[j] = "none" <=> cv[j] = "none")
    BY <1>0, <1>1 DEF LibraryTyped, Kept
  <2>2. LibraryTyped'
    BY <1>0, <1>1 DEF LibraryTyped
  <2>3. StoresKnown' /\ DeletesKnown'
    BY <1>0, <1>1, <2>1 DEF StoresKnown, DeletesKnown, LibraryTyped, LibraryWork
  <2>4. ReferencesHold'
    <3>1. /\ \A j \in Cvs : madeFrom[j] # 0 => Kept(madeFrom[j])'
          /\ \A a \in Application : application[a].resume # 0 => Kept(application[a].resume)'
      BY <1>0, <2>1, CvIds, RunReads DEF ReferencesHold, LibraryTyped
    <3>2. \A a \in Application :
            /\ sending[a].at = "load" /\ sending[a].cv # 0 => cv'[sending[a].cv] # "none"
            /\ sentWith[a] # 0 => cv'[sentWith[a]] # "none"
      BY <1>0, <2>1, CvIds, RunReads DEF ReferencesHold
    <3> QED BY <1>0, <3>1, <3>2 DEF ReferencesHold, Kept
  <2>5. FilesMatchRows'
    <3>1. \A op : InHand(op)' = InHand(op)
      BY <1>1 DEF InHand
    <3> QED BY <1>0, <2>1, <3>1 DEF FilesMatchRows
  <2> QED BY <2>2, <2>3, <2>4, <2>5 DEF LibraryInv
<1>2. CASE Work(r, [op |-> "delete", cv |-> i]) /\ UNCHANGED cv
  <2>1. [op |-> "delete", cv |-> i] \in LibraryWork
    BY DEF LibraryWork
  <2>2. /\ requests' \in [CvRequest -> LibraryWork] /\ requests'[r] = [op |-> "delete", cv |-> i]
        /\ \A q \in CvRequest \ {r} : requests'[q] = requests[q]
    BY <1>0, <1>2, <2>1, WorkSet
  <2>4. LibraryTyped' /\ ReferencesHold'
    BY <1>0, <1>2, <2>2 DEF LibraryTyped, ReferencesHold, Kept
  <2>5. StoresKnown' /\ DeletesKnown'
    BY <1>0, <1>2, <2>2 DEF StoresKnown, DeletesKnown, Kept
  <2>6. FilesMatchRows'
    <3>1. InHand("store") \subseteq InHand("store")' /\ InHand("forget") \subseteq InHand("forget")'
      BY <1>0, <2>2 DEF InHand
    <3> QED BY <1>0, <1>2, <3>1 DEF FilesMatchRows, Kept
  <2> QED BY <2>4, <2>5, <2>6 DEF LibraryInv
<1> QED BY <1>1, <1>2 DEF BeginDelete

LEMMA DeleteFileInv ==
    ASSUME LibraryInv, NEW r \in CvRequest, DeleteFile(r)
    PROVE  LibraryInv'
<1>p. PICK i \in Cvs : i = requests[r].cv
  BY LibraryRequest, WorkFields DEF LibraryInv, DeleteFile
<1>0. /\ LibraryTyped /\ StoresKnown /\ DeletesKnown /\ ReferencesHold /\ FilesMatchRows
      /\ requests[r].op = "delete" /\ i \in Cvs
      /\ UNCHANGED <<cv, madeFrom, lastCv, sendVars>>
      /\ [op |-> "forget", cv |-> i] \in LibraryWork
  BY <1>p DEF LibraryInv, LibraryTyped, DeleteFile, LibraryWork
<1>1. /\ requests' \in [CvRequest -> LibraryWork]
      /\ requests'[r] = [op |-> "forget", cv |-> i]
      /\ \A q \in CvRequest \ {r} : requests'[q] = requests[q]
  BY <1>p, <1>0, WorkSet DEF DeleteFile
<1>2. /\ \/ object' = [object EXCEPT ![i] = FALSE] /\ strayed' = strayed
         \/ object' = object /\ strayed' = strayed \cup {i}
      /\ bereft' = bereft
  BY <1>p DEF DeleteFile, Discard, Orphan, faultVars
<1>3. cv[i] # "none"
  BY <1>p, <1>0 DEF DeletesKnown
<1>4. /\ \A j \in Cvs \ {i} : object'[j] = object[j]
      /\ \A j \in Cvs : object'[j] => object[j]
      /\ object' \in [Cvs -> BOOLEAN] /\ strayed \subseteq strayed'
      /\ object'[i] => i \in strayed'
  BY <1>p, <1>0, <1>2 DEF LibraryTyped
<1>5. LibraryTyped' /\ ReferencesHold'
  BY <1>p, <1>0, <1>1, <1>4 DEF LibraryTyped, ReferencesHold, Kept, sendVars
<1>6. StoresKnown'
  <2>1. \A q \in CvRequest : requests'[q].op = "store" =>
          q # r /\ requests'[q] = requests[q] /\ requests[q].cv \in Cvs \ {i}
    BY <1>p, <1>0, <1>1, <1>3, LibraryRequest, WorkFields DEF StoresKnown
  <2> QED BY <1>0, <1>4, <2>1 DEF StoresKnown
<1>7. DeletesKnown'
  <2>1. \A q \in CvRequest \ {r} : requests'[q].op \in {"delete", "forget"} => requests[q].cv \in Cvs
    BY <1>p, <1>0, <1>1, LibraryRequest, WorkFields
  <2> QED BY <1>0, <1>1, <1>3, <1>4, <2>1 DEF DeletesKnown
<1>8. FilesMatchRows'
  <2>1. /\ InHand("store") \subseteq InHand("store")' /\ i \in InHand("forget")'
        /\ InHand("forget") \subseteq InHand("forget")'
    BY <1>p, <1>0, <1>1 DEF InHand
  <2>2. \A j \in Cvs : Kept(j)' = Kept(j)
    BY <1>0 DEF Kept
  <2> QED BY <1>0, <1>2, <1>4, <2>1, <2>2 DEF FilesMatchRows
<1> QED BY <1>5, <1>6, <1>7, <1>8 DEF LibraryInv

LEMMA DeleteRowInv ==
    ASSUME LibraryInv, NEW r \in CvRequest, DeleteRow(r)
    PROVE  LibraryInv'
<1>p. PICK i \in Cvs : i = requests[r].cv
  BY LibraryRequest, WorkFields DEF LibraryInv, DeleteRow
<1>0. /\ LibraryTyped /\ StoresKnown /\ DeletesKnown /\ ReferencesHold /\ FilesMatchRows
      /\ requests[r].op = "forget" /\ i \in Cvs
      /\ UNCHANGED <<object, lastCv, sending, sentWith>>
      /\ NoWork \in LibraryWork /\ NoWork.op = "none"
  BY <1>p DEF LibraryInv, LibraryTyped, DeleteRow, LibraryWork, NoWork
<1>1. /\ requests' \in [CvRequest -> LibraryWork]
      /\ requests'[r] = NoWork /\ \A q \in CvRequest \ {r} : requests'[q] = requests[q]
  BY <1>p, <1>0, WorkSet DEF DeleteRow
<1>2. cv[i] # "none" /\ (object[i] => i \in strayed)
  BY <1>p, <1>0 DEF DeletesKnown
<1> DEFINE removes == /\ cv' = [cv EXCEPT ![i] = "deleted"]
                      /\ madeFrom' = [j \in Cvs |-> IF madeFrom[j] = i THEN 0 ELSE madeFrom[j]]
                      /\ application' = [a \in Application |->
                           IF application[a].resume = i THEN [application[a] EXCEPT !.resume = 0]
                           ELSE application[a]]
<1>3. /\ removes \/ (UNCHANGED <<cv, madeFrom, application>> /\ (Kept(i) => i \in bereft'))
      /\ strayed' = strayed /\ bereft \subseteq bereft'
  BY <1>p DEF DeleteRow, Bereave, faultVars
<1>4. /\ \A j \in Cvs \ {i} : cv'[j] = cv[j]
      /\ \A j \in Cvs : cv'[j] = "none" <=> cv[j] = "none"
      /\ cv' \in [Cvs -> {"none", "live", "archived", "deleted"}]
      /\ Kept(i)' => i \in bereft'
  <2>1. CASE removes
    <3>1. cv' = [cv EXCEPT ![i] = "deleted"] /\ cv \in [Cvs -> {"none", "live", "archived", "deleted"}]
      BY <1>p, <1>0, <2>1 DEF LibraryTyped
    <3> QED BY <1>0, <1>2, <3>1 DEF Kept
  <2>2. CASE UNCHANGED <<cv, madeFrom, application>> /\ (Kept(i) => i \in bereft')
    BY <1>p, <1>0, <2>2 DEF LibraryTyped, Kept
  <2> QED BY <1>3, <2>1, <2>2
<1>5. LibraryTyped'
  <2>1. madeFrom' \in [Cvs -> 0..MaxCvs]
    BY <1>p, <1>0, <1>3, LibraryAssumption DEF LibraryTyped
  <2>2. application' \in [Application -> [status : StatusOfCv, resume : 0..MaxCvs]]
    BY <1>p, <1>0, <1>3, LibraryAssumption DEF LibraryTyped
  <2> QED BY <1>0, <1>1, <1>4, <2>1, <2>2 DEF LibraryTyped
<1>6. ReferencesHold'
  <2>0. \A j \in 0..MaxCvs : j # 0 /\ j # i /\ Kept(j) => cv'[j] \in {"live", "archived"}
    BY <1>p, <1>4, CvIds DEF Kept
  <2>1. \A j \in Cvs : madeFrom'[j] # 0 => cv'[madeFrom'[j]] \in {"live", "archived"}
    <3>1. CASE removes
      <4>1. \A j \in Cvs : madeFrom'[j] # 0 =>
              madeFrom'[j] = madeFrom[j] /\ madeFrom[j] # i /\ madeFrom[j] \in 0..MaxCvs
        BY <1>p, <1>0, <3>1 DEF LibraryTyped
      <4> QED BY <1>0, <2>0, <4>1 DEF ReferencesHold
    <3>2. CASE UNCHANGED <<cv, madeFrom, application>>
      BY <1>0, <3>2 DEF ReferencesHold, Kept
    <3> QED BY <1>3, <3>1, <3>2
  <2>2. \A a \in Application : application'[a].resume # 0 => cv'[application'[a].resume] \in {"live", "archived"}
    <3>1. CASE removes
      <4>1. \A a \in Application : application'[a].resume # 0 =>
              /\ application'[a].resume = application[a].resume /\ application[a].resume # i
              /\ application[a].resume \in 0..MaxCvs
        BY <1>p, <1>0, <3>1 DEF LibraryTyped
      <4> QED BY <1>0, <2>0, <4>1 DEF ReferencesHold
    <3>2. CASE UNCHANGED <<cv, madeFrom, application>>
      BY <1>0, <3>2 DEF ReferencesHold, Kept
    <3> QED BY <1>3, <3>1, <3>2
  <2>3. \A a \in Application :
          /\ sending[a].at = "load" /\ sending[a].cv # 0 => cv'[sending[a].cv] # "none"
          /\ sentWith[a] # 0 => cv'[sentWith[a]] # "none"
    BY <1>p, <1>0, <1>4, CvIds, RunReads DEF ReferencesHold
  <2> QED BY <1>0, <2>1, <2>2, <2>3 DEF ReferencesHold, Kept
<1>7. StoresKnown'
  <2>1. \A q \in CvRequest : requests'[q].op = "store" =>
          q # r /\ requests'[q] = requests[q] /\ requests[q].cv \in Cvs
    BY <1>p, <1>0, <1>1, LibraryRequest, WorkFields
  <2> QED BY <1>0, <1>4, <2>1 DEF StoresKnown
<1>8. DeletesKnown'
  <2>1. \A q \in CvRequest : requests'[q].op \in {"delete", "forget"} =>
          q # r /\ requests'[q] = requests[q] /\ requests[q].cv \in Cvs
    BY <1>p, <1>0, <1>1, LibraryRequest, WorkFields
  <2> QED BY <1>0, <1>2, <1>3, <1>4, <2>1 DEF DeletesKnown
<1>9. FilesMatchRows'
  <2>1. /\ InHand("store") \subseteq InHand("store")'
        /\ InHand("forget") \subseteq InHand("forget")' \cup {i}
    BY <1>p, <1>0, <1>1 DEF InHand
  <2>2. \A j \in Cvs \ {i} : Kept(j)' = Kept(j)
    BY <1>4 DEF Kept
  <2> QED BY <1>0, <1>2, <1>3, <1>4, <2>1, <2>2 DEF FilesMatchRows
<1> QED BY <1>5, <1>6, <1>7, <1>8, <1>9 DEF LibraryInv

LEMMA LoseProcessInv == ASSUME LibraryInv, LoseProcess PROVE LibraryInv'
<1>1. /\ requests' = [r \in CvRequest |-> NoWork] /\ UNCHANGED <<rowVars, sendVars>>
      /\ strayed' = strayed \cup InHand("store") /\ bereft' = bereft \cup InHand("forget")
  BY DEF LoseProcess
<1>2. LibraryTyped' /\ ReferencesHold'
  BY <1>1 DEF LibraryInv, LibraryTyped, ReferencesHold, Kept, rowVars, sendVars, NoWork, LibraryWork
<1>3. StoresKnown' /\ DeletesKnown'
  BY <1>1 DEF LibraryInv, StoresKnown, DeletesKnown, rowVars, sendVars, NoWork
<1>4. FilesMatchRows'
  BY <1>1 DEF LibraryInv, FilesMatchRows, Kept, rowVars
<1> QED BY <1>2, <1>3, <1>4 DEF LibraryInv

(* Owners and runs change applications only.                               *)
LEMMA ApplicationStepInv ==
    ASSUME LibraryInv, NEW a \in Application,
           Withdraw(a) \/ BeginRun(a) \/ SendCv(a) \/ EndRun(a) \/ \E i \in Cvs : Attach(a, i)
    PROVE  LibraryInv'
<1>0. /\ LibraryTyped /\ StoresKnown /\ DeletesKnown /\ ReferencesHold /\ FilesMatchRows
      /\ UNCHANGED <<rowVars, requests, faultVars>>
  BY DEF LibraryInv, Withdraw, BeginRun, SendCv, EndRun, Attach
<1>1. StoresKnown' /\ DeletesKnown' /\ FilesMatchRows'
  BY <1>0 DEF StoresKnown, DeletesKnown, FilesMatchRows, InHand, Kept, rowVars, faultVars
<1>2. /\ application' \in [Application -> [status : StatusOfCv, resume : 0..MaxCvs]]
      /\ \A b \in Application : application'[b].resume # 0 => Kept(application'[b].resume)
  <2>1. CASE \E i \in Cvs : Attach(a, i)
    BY <1>0, <2>1, LibraryAssumption DEF LibraryTyped, ReferencesHold, Attach, Cvs
  <2>2. CASE UNCHANGED application
    BY <1>0, <2>2 DEF LibraryTyped, ReferencesHold
  <2>3. CASE \E s \in StatusOfCv : SetStatus(a, s)
    BY <1>0, <2>3 DEF LibraryTyped, ReferencesHold, SetStatus
  <2> QED BY <2>1, <2>2, <2>3 DEF Withdraw, BeginRun, SendCv, EndRun, StatusOfCv
<1>3. /\ sending' \in [Application -> RunOfCv] /\ sentWith' \in [Application -> 0..MaxCvs]
      /\ \A b \in Application :
           /\ sending'[b].at = "load" /\ sending'[b].cv # 0 => cv[sending'[b].cv] # "none"
           /\ sentWith'[b] # 0 => cv[sentWith'[b]] # "none"
  <2>1. CASE BeginRun(a)
    <3>1. /\ application[a].resume \in 0..MaxCvs
          /\ application[a].resume # 0 => cv[application[a].resume] # "none"
      BY <1>0 DEF LibraryTyped, ReferencesHold, Kept
    <3> QED BY <1>0, <2>1, <3>1 DEF BeginRun, LibraryTyped, ReferencesHold, RunOfCv
  <2>2. CASE SendCv(a)
    <3>1. sending[a].cv \in 0..MaxCvs /\ sending[a].cv # 0 /\ cv[sending[a].cv] # "none"
      BY <1>0, <2>2 DEF SendCv, LibraryTyped, ReferencesHold, RunOfCv
    <3> QED BY <1>0, <2>2, <3>1 DEF SendCv, LibraryTyped, ReferencesHold, RunOfCv
  <2>3. CASE EndRun(a)
    BY <1>0, <2>3 DEF EndRun, LibraryTyped, ReferencesHold, RunOfCv
  <2>4. CASE UNCHANGED <<sending, sentWith>>
    BY <1>0, <2>4 DEF LibraryTyped, ReferencesHold
  <2> QED BY <2>1, <2>2, <2>3, <2>4 DEF Withdraw, Attach
<1>4. LibraryTyped' /\ ReferencesHold'
  BY <1>0, <1>2, <1>3 DEF LibraryTyped, ReferencesHold, Kept, rowVars
<1> QED BY <1>1, <1>4 DEF LibraryInv

LEMMA LibraryStepInv == LibraryInv /\ [LibraryNext]_libraryVars => LibraryInv'
<1> SUFFICES ASSUME LibraryInv, [LibraryNext]_libraryVars PROVE LibraryInv'
  OBVIOUS
<1>1. CASE UNCHANGED libraryVars
  BY <1>1 DEF libraryVars, LibraryInv, LibraryTyped, StoresKnown, DeletesKnown, ReferencesHold,
              FilesMatchRows, InHand, Kept
<1>2. ASSUME NEW r \in CvRequest,
             \/ Upload(r) \/ EnterLock(r) \/ WriteFile(r)
             \/ \E i \in Cvs : BeginFromPdf(r, i) \/ BeginUnlocked(r, i)
      PROVE  LibraryInv'
  <2>1. requests[r] \in LibraryWork
    BY DEF LibraryInv, LibraryTyped
  <2>2. CASE Upload(r)
    <3>1. 0 \in 0..MaxCvs
      BY LibraryAssumption
    <3> QED BY <2>2, <3>1, StoreFileInv DEF Upload
  <2>3. CASE EnterLock(r)
    <3>1. requests[r].base \in Cvs
      BY <2>1, <2>3 DEF EnterLock, LibraryWork
    <3>2. PICK w \in {[op |-> "write", base |-> requests[r].base, locked |-> TRUE], NoWork} : Work(r, w)
      BY <2>3 DEF EnterLock
    <3>3. w \in LibraryWork /\ w.op \in {"none", "wait", "write"}
      <4>1. CASE w = NoWork
        BY <4>1 DEF LibraryWork, NoWork
      <4>2. CASE w = [op |-> "write", base |-> requests[r].base, locked |-> TRUE]
        BY <3>1, <4>2 DEF LibraryWork
      <4> QED BY <3>2, <4>1, <4>2
    <3> QED BY <2>3, <3>2, <3>3, BeforeFileInv DEF EnterLock
  <2>4. CASE WriteFile(r)
    <3>1. requests[r].base \in 0..MaxCvs /\ requests[r].locked \in BOOLEAN /\ requests[r].op = "write"
      BY <2>1, <2>4, LibraryAssumption DEF WriteFile, LibraryWork, Cvs
    <3>2. CASE StoreNewFile(r, requests[r].base, requests[r].locked)
      BY <2>4, <3>1, <3>2, StoreFileInv DEF WriteFile
    <3>3. CASE Work(r, NoWork) /\ UNCHANGED <<object, lastCv, faultVars>>
      <4>1. NoWork \in LibraryWork /\ NoWork.op = "none"
        BY DEF LibraryWork, NoWork
      <4>2. UNCHANGED <<rowVars, sendVars, faultVars>>
        BY <2>4, <3>3 DEF WriteFile, rowVars
      <4> QED BY <3>1, <3>3, <4>1, <4>2, BeforeFileInv
    <3> QED BY <2>4, <3>2, <3>3 DEF WriteFile
  <2>5. ASSUME NEW i \in Cvs, BeginFromPdf(r, i) \/ BeginUnlocked(r, i) PROVE LibraryInv'
    <3>1. PICK w \in {[op |-> "wait", base |-> i], [op |-> "write", base |-> i, locked |-> FALSE]} : Work(r, w)
      BY <2>5 DEF BeginFromPdf, BeginUnlocked
    <3>2. w \in LibraryWork /\ w.op \in {"none", "wait", "write"}
      <4>1. CASE w = [op |-> "wait", base |-> i]
        BY <4>1 DEF LibraryWork
      <4>2. CASE w = [op |-> "write", base |-> i, locked |-> FALSE]
        BY <4>2 DEF LibraryWork
      <4> QED BY <3>1, <4>1, <4>2
    <3> QED BY <2>5, <3>1, <3>2, BeforeFileInv DEF BeginFromPdf, BeginUnlocked
  <2> QED BY <1>2, <2>2, <2>3, <2>4, <2>5
<1> QED BY <1>1, <1>2, StoreCvInv, RefuseRowInv, BeginDeleteInv, DeleteFileInv, DeleteRowInv,
           LoseProcessInv, ApplicationStepInv
        DEF LibraryNext

LEMMA LibraryInvariant == LibrarySpec => []LibraryInv
  BY LibraryInitInv, LibraryStepInv, PTL DEF LibrarySpec

(* For any number of requests, applications and failures: the rows of the  *)
(* library are well-formed and name rows that are kept.                    *)
THEOREM LibraryTypeCorrect == LibrarySpec => []LibraryTypeOK
<1>1. LibraryInv => LibraryTypeOK
  BY DEF LibraryInv, LibraryTyped, ReferencesHold, LibraryTypeOK
<1> QED BY <1>1, LibraryInvariant, PTL

(* A file without a row is of a request about to store the row, a row      *)
(* without its file of one about to delete the row, or a failure on record *)
(* left it so, each kind its own.                                          *)
THEOREM FilesMatch == LibrarySpec => []FilesMatchRows
<1>1. LibraryInv => FilesMatchRows
  BY DEF LibraryInv
<1> QED BY <1>1, LibraryInvariant, PTL

-----------------------------------------------------------------------------
(***************************************************************************)
(* Versions of the structured resume.                                      *)
(***************************************************************************)
BootedWork == [op : {"edit"}, line : {Master}, parent : {0}]
         \cup [op : {"branch"}, line : Branch, parent : {0}]

AnalysisRow ==
       [state : {"none", "deleted"}]
  \cup [state : {"made"}, line : Branch, base : Ids, version : Ids \cup {0},
        change : {"none", "proposed", "accepted", "rejected"}, changeOf : Ids \cup {0}]

VersionWork ==
       [op : {"none"}]
  \cup [op : {"boot"}, line : {Master}, next : BootedWork]
  \cup [op : {"edit"}, line : {Master}, parent : Ids]
  \cup [op : {"branch"}, line : Branch, parent : Ids]
  \cup [op : {"restore"}, line : Lineage, parent : Ids]
  \cup [op : {"tailor"}, line : Branch, analysis : Analysis, parent : Ids]
  \cup [op : {"commit"}, line : Branch, analysis : Analysis, parent : Ids,
        read : AnalysisRow, decision : {"accepted", "rejected"}]

VersionsTyped ==
    /\ versions \in [DOMAIN versions -> VersionRow]
    /\ DOMAIN versions \subseteq 1..lastId /\ lastId \in Ids \cup {0}
    /\ branches \in [Branch -> {"none", "live", "deleted"}]
    /\ analyses \in [Analysis -> AnalysisRow]
    /\ editors \in [Editor -> VersionWork]
    /\ overlapped \subseteq Lineage

(* Rows belong to lineages there are, and are numbered below their id.     *)
LinesHold ==
    \A v \in DOMAIN versions : LineExists(versions[v].line) /\ versions[v].sequence <= v

(* An analysis names versions of its branch.                               *)
AnalysesHold ==
    \A a \in Analysis : analyses[a].state = "made" =>
      /\ LineExists(analyses[a].line)
      /\ analyses[a].base \in VersionsOf(analyses[a].line)
      /\ {analyses[a].version, analyses[a].changeOf} \subseteq VersionsOf(analyses[a].line) \cup {0}

(* The branch a request will create.                                       *)
Creating(w, b) ==
    \/ w.op = "branch" /\ w.line = b
    \/ w.op = "boot" /\ w.next.op = "branch" /\ w.next.line = b

(* What a request read is still there while its lineage is.                *)
EditorsHold ==
    /\ \A e \in Editor, b \in Branch : Creating(editors[e], b) =>
         branches[b] = "none" /\ \A f \in Editor : Creating(editors[f], b) => f = e
    /\ \A e \in Editor : editors[e].op \in {"edit", "restore", "tailor", "commit"} =>
         /\ editors[e].line \in Branch => branches[editors[e].line] # "none"
         /\ LineExists(editors[e].line) => editors[e].parent \in VersionsOf(editors[e].line)
    /\ \A e \in Editor : editors[e].op = "tailor" =>
         /\ analyses[editors[e].analysis] = NoAnalysis
         /\ \A f \in Editor : editors[f].op = "tailor" /\ editors[f].analysis = editors[e].analysis => f = e
    /\ \A e \in Editor : editors[e].op = "commit" =>
         /\ analyses[editors[e].analysis].state # "none"
         /\ analyses[editors[e].analysis].state = "made" => analyses[editors[e].analysis].line = editors[e].line

(* The versions an owner made.                                             *)
Authored(l) == {v \in VersionsOf(l) : versions[v].source # "ai_suggestion"}

OnHead(l) ==
    /\ \A v, w \in Authored(l) : versions[v].sequence = versions[w].sequence => v = w
    /\ \A e \in Editor : editors[e].op \in {"edit", "restore"} /\ editors[e].line = l =>
         \A w \in Authored(l) : versions[w].sequence <= versions[editors[e].parent].sequence
    /\ \A e \in Editor : editors[e].op = "boot" /\ editors[e].line = l => Authored(l) = {}

HeadsHold == \A l \in Lineage : LineExists(l) => l \in overlapped \/ OnHead(l)

VersionsInv == VersionsTyped /\ LinesHold /\ AnalysesHold /\ EditorsHold /\ HeadsHold

LEMMA VersionWorkFields ==
    ASSUME NEW w \in VersionWork
    PROVE  /\ w.op \in {"none", "boot", "edit", "branch", "restore", "tailor", "commit"}
           /\ w.op = "boot" => w.line = Master /\ w.next \in BootedWork
           /\ w.op = "edit" => w.line = Master
           /\ w.op \in {"branch", "tailor", "commit"} => w.line \in Branch
           /\ w.op \in {"edit", "branch", "restore", "tailor", "commit"} =>
                w.line \in Lineage /\ w.parent \in Ids
           /\ w.op \in {"tailor", "commit"} => w.analysis \in Analysis
           /\ w.op = "commit" => w.decision \in {"accepted", "rejected"}
  BY DEF VersionWork, Lineage

LEMMA VersionRequest ==
    ASSUME VersionsTyped, NEW e \in Editor PROVE editors[e] \in VersionWork
  BY DEF VersionsTyped

LEMMA MasterExists == LineExists(Master) /\ Master \in Lineage /\ Branch \subseteq Lineage
  BY DEF LineExists, Lineage

LEMMA VersionsOfIn == \A l : VersionsOf(l) \subseteq DOMAIN versions /\ Authored(l) \subseteq VersionsOf(l)
  BY DEF VersionsOf, Authored

LEMMA VersionsInitInv == ResumeInit => VersionsInv
<1> SUFFICES ASSUME ResumeInit PROVE VersionsInv
  OBVIOUS
<1>1. DOMAIN versions = {} /\ versions \in [{} -> VersionRow]
  BY DEF ResumeInit
<1>2. VersionsTyped
  BY <1>1, VersionsAssumption
     DEF ResumeInit, VersionsTyped, AnalysisRow, VersionWork, NoAnalysis, NoRequest, Ids
<1>3. LinesHold /\ AnalysesHold /\ EditorsHold
  BY <1>1 DEF ResumeInit, LinesHold, AnalysesHold, EditorsHold, NoAnalysis, NoRequest, Creating
<1>4. HeadsHold
  BY <1>1 DEF ResumeInit, HeadsHold, OnHead, Authored, VersionsOf, NoRequest
<1> QED BY <1>2, <1>3, <1>4 DEF VersionsInv

(* A lineage with versions has a head.                                     *)
LEMMA HeadThere ==
    ASSUME VersionsTyped, NEW l, VersionsOf(l) # {}
    PROVE  Heads(l) # {}
<1> DEFINE free == {MaxResumes - versions[v].sequence : v \in VersionsOf(l)}
<1>1. \A v \in VersionsOf(l) : versions[v].sequence \in 1..MaxResumes
  BY VersionsOfIn DEF VersionsTyped, VersionRow, Ids
<1>2. free \subseteq Nat /\ free # {}
  BY <1>1, VersionsAssumption
<1> HIDE DEF free
<1>3. PICK m \in free : \A k \in free : ~(<<k, m>> \in OpToRel(<, Nat))
  BY <1>2, NatLessThanWellFounded, WFMin
<1>4. \A k \in free : ~(k < m)
  BY <1>2, <1>3 DEF OpToRel
<1>5. PICK v \in VersionsOf(l) : m = MaxResumes - versions[v].sequence
  BY DEF free
<1>6. \A w \in VersionsOf(l) : versions[w].sequence <= versions[v].sequence
  <2> SUFFICES ASSUME NEW w \in VersionsOf(l) PROVE versions[w].sequence <= versions[v].sequence
    OBVIOUS
  <2>1. MaxResumes - versions[w].sequence \in free
    BY DEF free
  <2> QED BY <1>1, <1>4, <1>5, <2>1, VersionsAssumption
<1> QED BY <1>6 DEF Heads

(* A version is stored after the others, on the one it continues.          *)
StoredAs(n, l, p, s) ==
    /\ n \in Ids /\ lastId' = n /\ n \notin DOMAIN versions
    /\ DOMAIN versions' = DOMAIN versions \cup {n}
    /\ DOMAIN versions' \subseteq 1..n
    /\ versions' \in [DOMAIN versions' -> VersionRow]
    /\ \A v \in DOMAIN versions : versions'[v] = versions[v]
    /\ versions'[n].line = l /\ versions'[n].source = s
    /\ p = 0 => versions'[n].sequence = 1
    /\ p # 0 => versions'[n].sequence = versions[p].sequence + 1
    /\ versions'[n].sequence <= n

LEMMA NewVersion ==
    ASSUME VersionsTyped, LinesHold, NEW l \in Lineage, NEW p \in DOMAIN versions \cup {0},
           NEW s \in {"initial", "user_edit", "restored", "ai_suggestion"},
           CreateVersion(l, p, s), NEW n, n = lastId + 1
    PROVE  StoredAs(n, l, p, s)
<1>1. /\ lastId \in Nat /\ lastId < MaxResumes /\ lastId' = n /\ versions' = Stored(l, p, s)
      /\ n \in Ids /\ n \notin DOMAIN versions
      /\ DOMAIN versions \subseteq Ids /\ 0 \notin DOMAIN versions /\ DOMAIN versions \subseteq 1..lastId
  BY VersionsAssumption DEF VersionsTyped, CreateVersion, Ids
<1> DEFINE seq == IF p = 0 THEN 1 ELSE versions[p].sequence + 1
           rec == [line |-> l, sequence |-> seq, parent |-> p, source |-> s]
<1>2. seq \in Ids /\ seq <= n
  <2>1. CASE p = 0
    BY <1>1, <2>1, VersionsAssumption DEF Ids
  <2>2. CASE p # 0
    <3>1. p \in DOMAIN versions /\ versions[p].sequence \in Ids /\ versions[p].sequence <= p /\ p <= lastId
      BY <1>1, <2>2 DEF VersionsTyped, VersionRow, LinesHold
    <3> QED BY <1>1, <2>2, <3>1, VersionsAssumption DEF Ids
  <2> QED BY <2>1, <2>2
<1>3. rec \in VersionRow
  BY <1>1, <1>2 DEF VersionRow
<1>4. versions' = [v \in DOMAIN versions \cup {n} |-> IF v \in DOMAIN versions THEN versions[v] ELSE rec]
  BY <1>1 DEF Stored
<1> HIDE DEF seq, rec
<1>5. /\ DOMAIN versions' = DOMAIN versions \cup {n} /\ versions'[n] = rec
      /\ \A v \in DOMAIN versions : versions'[v] = versions[v]
  BY <1>1, <1>4
<1>6. versions' \in [DOMAIN versions' -> VersionRow]
  BY <1>3, <1>4, <1>5 DEF VersionsTyped
<1>7. DOMAIN versions' \subseteq 1..n
  BY <1>1, <1>5
<1>8. /\ rec.line = l /\ rec.source = s /\ rec.sequence = seq
      /\ p = 0 => seq = 1
      /\ p # 0 => seq = versions[p].sequence + 1
  BY DEF rec, seq
<1> QED BY <1>1, <1>2, <1>5, <1>6, <1>7, <1>8 DEF StoredAs

(* What it adds to the lineages.                                           *)
LEMMA LineageGrows ==
    ASSUME NEW n, n \notin DOMAIN versions, DOMAIN versions' = DOMAIN versions \cup {n},
           \A v \in DOMAIN versions : versions'[v] = versions[v], NEW k
    PROVE  /\ versions'[n].line # k => VersionsOf(k)' = VersionsOf(k) /\ Authored(k)' = Authored(k)
           /\ versions'[n].line = k => VersionsOf(k)' = VersionsOf(k) \cup {n}
           /\ versions'[n].source = "ai_suggestion" => Authored(k)' = Authored(k)
           /\ versions'[n].line = k /\ versions'[n].source # "ai_suggestion" => Authored(k)' = Authored(k) \cup {n}
  BY DEF VersionsOf, Authored

(* A request turns to work that rests on what it read.                     *)
LEMMA EditorsTurn ==
    ASSUME VersionsInv, NEW e \in Editor, NEW w \in VersionWork, To(e, w),
           UNCHANGED <<branches, analyses>>,
           \A k \in Lineage : VersionsOf(k) \subseteq VersionsOf(k)',
           \A b \in Branch : Creating(w, b) =>
             branches[b] = "none" /\ \A f \in Editor \ {e} : ~Creating(editors[f], b),
           w.op \in {"edit", "restore", "tailor", "commit"} =>
             /\ w.line \in Branch => branches[w.line] # "none"
             /\ LineExists(w.line) => w.parent \in VersionsOf(w.line)',
           w.op = "tailor" =>
             /\ analyses[w.analysis] = NoAnalysis
             /\ \A f \in Editor \ {e} : editors[f].op = "tailor" => editors[f].analysis # w.analysis,
           w.op = "commit" =>
             /\ analyses[w.analysis].state # "none"
             /\ analyses[w.analysis].state = "made" => analyses[w.analysis].line = w.line
    PROVE  EditorsHold' /\ editors' \in [Editor -> VersionWork]
<1>1. /\ editors' \in [Editor -> VersionWork] /\ editors'[e] = w
      /\ \A f \in Editor \ {e} : editors'[f] = editors[f]
      /\ EditorsHold /\ VersionsTyped
  BY DEF VersionsInv, VersionsTyped, To
<1>2. \A k : LineExists(k)' = LineExists(k)
  BY DEF LineExists
<1>3. ASSUME NEW f \in Editor, editors'[f].op \in {"edit", "restore", "tailor", "commit"},
             NEW k, k = editors'[f].line
      PROVE  /\ k \in Branch => branches[k] # "none"
             /\ LineExists(k) => editors'[f].parent \in VersionsOf(k)'
  <2>1. CASE f = e
    BY <1>1, <1>3, <2>1
  <2>2. CASE f # e
    <3>1. editors'[f] = editors[f] /\ k \in Lineage
      BY <1>1, <1>3, <2>2, VersionRequest, VersionWorkFields
    <3>2. LineExists(k) => editors[f].parent \in VersionsOf(k)
      BY <1>1, <1>3, <3>1 DEF EditorsHold
    <3> QED BY <1>1, <1>3, <3>1, <3>2 DEF EditorsHold
  <2> QED BY <2>1, <2>2
<1>4. \A f \in Editor : editors'[f].op \in {"edit", "restore", "tailor", "commit"} =>
         /\ editors'[f].line \in Branch => branches[editors'[f].line] # "none"
         /\ LineExists(editors'[f].line) =>
              /\ editors'[f].parent \in DOMAIN versions'
              /\ versions'[editors'[f].parent].line = editors'[f].line
  BY <1>3 DEF VersionsOf
<1>5. \A f \in Editor, b \in Branch : Creating(editors'[f], b) =>
         branches[b] = "none" /\ \A g \in Editor : Creating(editors'[g], b) => g = f
  BY <1>1 DEF EditorsHold
<1>6. /\ \A f \in Editor : editors'[f].op = "tailor" =>
           /\ analyses[editors'[f].analysis] = NoAnalysis
           /\ \A g \in Editor : editors'[g].op = "tailor" /\ editors'[g].analysis = editors'[f].analysis => g = f
      /\ \A f \in Editor : editors'[f].op = "commit" =>
           /\ analyses[editors'[f].analysis].state # "none"
           /\ analyses[editors'[f].analysis].state = "made" => analyses[editors'[f].analysis].line = editors'[f].line
  BY <1>1 DEF EditorsHold
<1> QED BY <1>1, <1>4, <1>5, <1>6 DEF EditorsHold, VersionsOf, LineExists, Creating

(* A request turns to other work and nothing is stored.                    *)
LEMMA RequestTurns ==
    ASSUME VersionsInv, NEW e \in Editor, NEW w \in VersionWork, To(e, w),
           UNCHANGED <<versions, lastId, branches, analyses, overlapped>>,
           EditorsHold', editors' \in [Editor -> VersionWork],
           w.op \in {"edit", "restore"} =>
             \A x \in Authored(w.line) : versions[x].sequence <= versions[w.parent].sequence,
           w.op = "boot" => Authored(w.line) = {}
    PROVE  VersionsInv'
<1>1. /\ VersionsTyped /\ LinesHold /\ AnalysesHold /\ HeadsHold
      /\ editors'[e] = w /\ \A f \in Editor \ {e} : editors'[f] = editors[f]
  BY DEF VersionsInv, VersionsTyped, To
<1>2. VersionsTyped' /\ LinesHold' /\ AnalysesHold'
  BY <1>1 DEF VersionsTyped, LinesHold, AnalysesHold, LineExists, VersionsOf
<1>3. \A l : Authored(l)' = Authored(l) /\ LineExists(l)' = LineExists(l)
  BY DEF Authored, VersionsOf, LineExists
<1>4. ASSUME NEW l \in Lineage, LineExists(l), l \notin overlapped PROVE OnHead(l)'
  <2>1. OnHead(l)
    BY <1>1, <1>4 DEF HeadsHold
  <2> QED BY <1>1, <1>3, <2>1 DEF OnHead
<1>5. HeadsHold'
  BY <1>3, <1>4 DEF HeadsHold
<1> QED BY <1>2, <1>5 DEF VersionsInv

LEMMA RefuseCommitInv ==
    ASSUME VersionsInv, NEW e \in Editor, RefuseCommit(e) PROVE VersionsInv'
<1>1. /\ To(e, NoRequest) /\ UNCHANGED <<versions, lastId, branches, analyses, overlapped>>
      /\ NoRequest \in VersionWork /\ NoRequest.op = "none"
  BY DEF RefuseCommit, Answered, To, VersionWork, NoRequest
<1>2. EditorsHold' /\ editors' \in [Editor -> VersionWork]
  BY <1>1, EditorsTurn DEF VersionsOf, Creating
<1> QED BY <1>1, <1>2, RequestTurns

(* What is read before an edit, or before a branch is created.             *)
LEMMA ReadMasterInv ==
    ASSUME VersionsInv, NEW e \in Editor,
           NEW next \in BootedWork, ReadMaster(e, next),
           \A b \in Branch : next.op = "branch" /\ next.line = b =>
             branches[b] = "none" /\ \A f \in Editor \ {e} : ~Creating(editors[f], b)
    PROVE  VersionsInv'
<1>1. UNCHANGED <<versions, lastId, branches, analyses, overlapped>> /\ VersionsTyped
  BY DEF ReadMaster, VersionsInv
<1>2. \A k : VersionsOf(k)' = VersionsOf(k)
  BY <1>1 DEF VersionsOf
<1>3. CASE /\ Heads(Master) = {}
           /\ To(e, [op |-> "boot", line |-> Master, next |-> next])
  <2>1. [op |-> "boot", line |-> Master, next |-> next] \in VersionWork
    BY DEF VersionWork
  <2>2. Authored(Master) = {}
    BY <1>1, <1>3, HeadThere, VersionsOfIn
  <2>3. EditorsHold' /\ editors' \in [Editor -> VersionWork]
    BY <1>1, <1>2, <1>3, <2>1, EditorsTurn DEF Creating
  <2> QED BY <1>1, <1>3, <2>1, <2>2, <2>3, RequestTurns
<1>4. ASSUME NEW h \in Heads(Master), To(e, [next EXCEPT !.parent = h]) PROVE VersionsInv'
  <2>0. /\ h \in VersionsOf(Master) /\ h \in Ids
        /\ \A x \in VersionsOf(Master) : versions[x].sequence <= versions[h].sequence
    BY <1>1, VersionsAssumption DEF Heads, VersionsOf, VersionsTyped, Ids
  <2> DEFINE w == [next EXCEPT !.parent = h]
  <2>1. /\ w \in VersionWork /\ w.op = next.op /\ w.line = next.line /\ w.parent = h
        /\ w.op = "edit" => w.line = Master
        /\ w.op \in {"edit", "branch"}
    BY <2>0 DEF VersionWork, BootedWork
  <2> HIDE DEF w
  <2>2. EditorsHold' /\ editors' \in [Editor -> VersionWork]
    <3>1. w.op = "edit" => w.line \notin Branch /\ w.parent \in VersionsOf(w.line)
      BY <2>0, <2>1, VersionsAssumption
    <3>2. w.parent \in VersionsOf(w.line) => w.parent \in VersionsOf(w.line)'
      BY <1>1 DEF VersionsOf
    <3>3. To(e, w)
      BY <1>4 DEF w
    <3> QED BY <1>1, <1>2, <2>1, <3>1, <3>2, <3>3, EditorsTurn DEF Creating
  <2>3. w.op = "edit" => \A x \in Authored(w.line) : versions[x].sequence <= versions[w.parent].sequence
    BY <2>0, <2>1, VersionsOfIn
  <2> QED BY <1>1, <1>4, <2>1, <2>2, <2>3, RequestTurns DEF w
<1> QED BY <1>3, <1>4 DEF ReadMaster

LEMMA BeginEditInv == ASSUME VersionsInv, NEW e \in Editor, BeginEdit(e) PROVE VersionsInv'
<1>1. [op |-> "edit", line |-> Master, parent |-> 0] \in BootedWork
  BY DEF BootedWork
<1> QED BY <1>1, ReadMasterInv DEF BeginEdit

LEMMA BeginBranchInv ==
    ASSUME VersionsInv, NEW e \in Editor, NEW b \in Branch, BeginBranch(e, b) PROVE VersionsInv'
<1>1. [op |-> "branch", line |-> b, parent |-> 0] \in BootedWork
  BY DEF BootedWork
<1>2. \A f \in Editor : ~Creating(editors[f], b)
  BY DEF BeginBranch, Creating
<1> QED BY <1>1, <1>2, ReadMasterInv DEF BeginBranch

LEMMA BeginRestoreInv ==
    ASSUME VersionsInv, NEW e \in Editor, NEW v \in DOMAIN versions, BeginRestore(e, v)
    PROVE  VersionsInv'
<1>0. PICK l \in Lineage : l = versions[v].line
  BY DEF VersionsInv, VersionsTyped, VersionRow
<1>1. PICK h \in Heads(l) : To(e, [op |-> "restore", line |-> l, parent |-> h])
  BY <1>0 DEF BeginRestore, RestoredOnto
<1> DEFINE w == [op |-> "restore", line |-> l, parent |-> h]
<1>2. /\ UNCHANGED <<versions, lastId, branches, analyses, overlapped>>
      /\ h \in VersionsOf(l) /\ h \in Ids /\ LineExists(l)
      /\ \A x \in VersionsOf(l) : versions[x].sequence <= versions[h].sequence
  BY <1>0, <1>1, VersionsAssumption
     DEF BeginRestore, Heads, VersionsOf, VersionsInv, VersionsTyped, LinesHold, Ids
<1>3. w \in VersionWork /\ w.op = "restore" /\ w.line = l /\ w.parent = h /\ To(e, w)
  BY <1>1, <1>2 DEF VersionWork
<1> HIDE DEF w
<1>4. EditorsHold' /\ editors' \in [Editor -> VersionWork]
  <2>1. l \in Branch => branches[l] # "none"
    BY <1>2, VersionsAssumption DEF LineExists
  <2>2. \A k : VersionsOf(k)' = VersionsOf(k)
    BY <1>2 DEF VersionsOf
  <2> QED BY <1>2, <1>3, <2>1, <2>2, EditorsTurn DEF Creating
<1> QED BY <1>2, <1>3, <1>4, VersionsOfIn, RequestTurns

LEMMA BeginTailorInv ==
    ASSUME VersionsInv, NEW e \in Editor, NEW a \in Analysis, NEW b \in Branch, BeginTailor(e, a, b)
    PROVE  VersionsInv'
<1>1. PICK h \in Heads(b) : To(e, [op |-> "tailor", line |-> b, analysis |-> a, parent |-> h])
  BY DEF BeginTailor
<1> DEFINE w == [op |-> "tailor", line |-> b, analysis |-> a, parent |-> h]
<1>2. /\ UNCHANGED <<versions, lastId, branches, analyses, overlapped>>
      /\ h \in VersionsOf(b) /\ h \in Ids
      /\ branches[b] = "live" /\ analyses[a] = NoAnalysis
      /\ \A f \in Editor : editors[f].op = "tailor" => editors[f].analysis # a
  BY <1>1, VersionsAssumption DEF BeginTailor, Heads, VersionsOf, VersionsInv, VersionsTyped, Ids
<1>3. w \in VersionWork /\ w.op = "tailor" /\ w.line = b /\ w.parent = h /\ w.analysis = a /\ To(e, w)
  BY <1>1, <1>2 DEF VersionWork
<1> HIDE DEF w
<1>4. EditorsHold' /\ editors' \in [Editor -> VersionWork]
  <2>1. \A k : VersionsOf(k)' = VersionsOf(k)
    BY <1>2 DEF VersionsOf
  <2> QED BY <1>2, <1>3, <2>1, EditorsTurn DEF Creating
<1> QED BY <1>2, <1>3, <1>4, RequestTurns

LEMMA BeginCommitInv ==
    ASSUME VersionsInv, NEW e \in Editor, NEW a \in Analysis, NEW d \in {"accepted", "rejected"},
           BeginCommit(e, a, d)
    PROVE  VersionsInv'
<1> DEFINE w == [op |-> "commit", line |-> analyses[a].line, analysis |-> a,
                 parent |-> analyses[a].base, read |-> analyses[a], decision |-> d]
<1>1. PICK rec \in AnalysisRow : rec = analyses[a] /\ rec.state = "made"
  BY DEF BeginCommit, VersionsInv, VersionsTyped
<1>2. /\ rec.line \in Branch /\ rec.base \in Ids /\ LineExists(rec.line)
      /\ rec.base \in VersionsOf(rec.line)
      /\ UNCHANGED <<versions, lastId, branches, analyses, overlapped>>
  BY <1>1 DEF AnalysisRow, VersionsInv, AnalysesHold, BeginCommit
<1>3. PICK c \in VersionWork : /\ c = w /\ c.op = "commit" /\ c.line = rec.line /\ c.parent = rec.base
                               /\ c.analysis = a /\ To(e, c)
  BY <1>1, <1>2 DEF VersionWork, BeginCommit
<1> HIDE DEF w
<1>4. EditorsHold' /\ editors' \in [Editor -> VersionWork]
  <2>1. \A k : VersionsOf(k)' = VersionsOf(k)
    BY <1>2 DEF VersionsOf
  <2>2. branches[rec.line] # "none"
    BY <1>2, VersionsAssumption DEF LineExists
  <2> QED BY <1>1, <1>2, <1>3, <2>1, <2>2, EditorsTurn DEF Creating
<1> QED BY <1>2, <1>3, <1>4, RequestTurns

(* A stored version leaves the lineages as they were, but for itself.      *)
LEMMA StoredHolds ==
    ASSUME VersionsInv, NEW l \in Lineage, NEW p \in DOMAIN versions \cup {0},
           NEW s \in {"initial", "user_edit", "restored", "ai_suggestion"}, CreateVersion(l, p, s),
           LineExists(l)', \A k \in Lineage : LineExists(k) => LineExists(k)'
    PROVE  /\ LinesHold'
           /\ versions' \in [DOMAIN versions' -> VersionRow]
           /\ DOMAIN versions' \subseteq 1..lastId' /\ lastId' \in Ids \cup {0}
           /\ \A k : VersionsOf(k) \subseteq VersionsOf(k)'
<1>0. PICK n : n = lastId + 1
  OBVIOUS
<1>1. /\ n \in Ids /\ lastId' = n /\ n \notin DOMAIN versions
      /\ DOMAIN versions' = DOMAIN versions \cup {n}
      /\ DOMAIN versions' \subseteq 1..n
      /\ versions' \in [DOMAIN versions' -> VersionRow]
      /\ \A v \in DOMAIN versions : versions'[v] = versions[v]
      /\ versions'[n].line = l /\ versions'[n].sequence <= n
  <2>1. StoredAs(n, l, p, s)
    BY <1>0, NewVersion DEF VersionsInv
  <2> QED BY <2>1 DEF StoredAs
<1>2. \A k : VersionsOf(k) \subseteq VersionsOf(k)'
  BY <1>1 DEF VersionsOf
<1>3. \A v \in DOMAIN versions : versions[v].line \in Lineage /\ LineExists(versions[v].line) /\ versions[v].sequence <= v
  BY DEF VersionsInv, VersionsTyped, VersionRow, LinesHold
<1>4. ASSUME NEW v \in DOMAIN versions', NEW k, k = versions'[v].line
      PROVE  LineExists(k)' /\ versions'[v].sequence <= v
  <2>1. CASE v = n
    BY <1>1, <1>4, <2>1
  <2>2. CASE v # n
    <3>1. v \in DOMAIN versions /\ versions'[v] = versions[v]
      BY <1>1, <1>4, <2>2
    <3> QED BY <1>3, <1>4, <3>1
  <2> QED BY <2>1, <2>2
<1>5. LinesHold'
  BY <1>4 DEF LinesHold, LineExists
<1> QED BY <1>1, <1>2, <1>5

LEMMA AnalysesKept ==
    ASSUME VersionsInv, UNCHANGED <<branches, analyses>>,
           \A k : VersionsOf(k) \subseteq VersionsOf(k)'
    PROVE  AnalysesHold'
<1>1. ASSUME NEW a \in Analysis, analyses[a].state = "made", NEW k, k = analyses[a].line
      PROVE  /\ LineExists(k) /\ analyses[a].base \in VersionsOf(k)'
             /\ {analyses[a].version, analyses[a].changeOf} \subseteq VersionsOf(k)' \cup {0}
  <2>1. /\ LineExists(k) /\ analyses[a].base \in VersionsOf(k)
        /\ {analyses[a].version, analyses[a].changeOf} \subseteq VersionsOf(k) \cup {0}
    BY <1>1 DEF VersionsInv, AnalysesHold
  <2> QED BY <2>1
<1> QED BY <1>1 DEF AnalysesHold, LineExists, VersionsOf

(* A lineage to which no owner added.                                      *)
LEMMA OnHeadKept ==
    ASSUME VersionsInv, NEW k \in Lineage, LineExists(k), OnHead(k), Authored(k)' = Authored(k),
           \A v \in VersionsOf(k) : versions'[v] = versions[v],
           \A f \in Editor : editors'[f].op \in {"boot", "edit", "restore"} /\ editors'[f].line = k =>
             editors'[f] = editors[f]
    PROVE  OnHead(k)'
<1>1. \A v \in Authored(k) : versions'[v] = versions[v]
  BY VersionsOfIn
<1>2. \A f \in Editor : editors'[f].op \in {"edit", "restore"} /\ editors'[f].line = k =>
        editors'[f] = editors[f] /\ versions'[editors[f].parent] = versions[editors[f].parent]
  BY DEF VersionsInv, EditorsHold
<1> QED BY <1>1, <1>2 DEF OnHead

(* An edit or a restore is committed: the head it built on was the last    *)
(* version of an owner, or another one came in between.                    *)
LEMMA OwnerCommitInv ==
    ASSUME VersionsInv, NEW e \in Editor, editors[e].op \in {"edit", "restore"},
           NEW l \in Lineage, l = editors[e].line, LineExists(l),
           NEW s \in {"user_edit", "restored"}, CreateVersion(l, editors[e].parent, s),
           Overlap(e, l), Answered(e), UNCHANGED <<branches, analyses>>
    PROVE  VersionsInv'
<1>0. PICK n, p : n = lastId + 1 /\ p = editors[e].parent
  OBVIOUS
<1>1. /\ VersionsTyped /\ LinesHold /\ HeadsHold /\ p \in VersionsOf(l) /\ p \in DOMAIN versions /\ p # 0
      /\ To(e, NoRequest) /\ NoRequest \in VersionWork /\ NoRequest.op = "none"
  BY <1>0, VersionsOfIn
     DEF VersionsInv, EditorsHold, VersionsTyped, Answered, To, VersionWork, NoRequest
<1>2. /\ n \in Ids /\ n \notin DOMAIN versions
      /\ DOMAIN versions' = DOMAIN versions \cup {n}
      /\ \A v \in DOMAIN versions : versions'[v] = versions[v]
      /\ versions'[n].line = l /\ versions'[n].source = s
      /\ versions'[n].sequence = versions[p].sequence + 1
  <2>1. StoredAs(n, l, p, s)
    BY <1>0, <1>1, NewVersion
  <2> QED BY <1>1, <2>1 DEF StoredAs
<1>3. LineExists(l)' /\ \A k : LineExists(k) <=> LineExists(k)'
  BY DEF LineExists
<1>4. /\ LinesHold' /\ versions' \in [DOMAIN versions' -> VersionRow]
      /\ DOMAIN versions' \subseteq 1..lastId' /\ lastId' \in Ids \cup {0}
      /\ \A k : VersionsOf(k) \subseteq VersionsOf(k)'
  BY <1>0, <1>1, <1>3, StoredHolds
<1>5. EditorsHold' /\ editors' \in [Editor -> VersionWork]
  BY <1>1, <1>4, EditorsTurn DEF Creating
<1>6. /\ editors'[e].op = "none" /\ \A f \in Editor \ {e} : editors'[f] = editors[f]
  BY <1>1 DEF To, VersionsTyped
<1>7. overlapped' \subseteq Lineage /\ overlapped \subseteq overlapped'
  BY <1>1 DEF Overlap, VersionsTyped
<1>8. VersionsTyped' /\ AnalysesHold'
  BY <1>1, <1>4, <1>5, <1>7, AnalysesKept DEF VersionsTyped
<1>9. ASSUME NEW k \in Lineage, LineExists(k), k \notin overlapped' PROVE OnHead(k)'
  <2>1. OnHead(k)
    BY <1>1, <1>7, <1>9 DEF HeadsHold
  <2>2. CASE k # l
    <3>1. Authored(k)' = Authored(k)
      BY <1>2, <2>2, LineageGrows
    <3> QED BY <1>2, <1>6, <1>9, <2>1, <3>1, VersionsOfIn, OnHeadKept
  <2>3. CASE k = l
    <3>1. \A f \in Editor \ {e} : editors[f].op \in {"boot", "edit", "restore"} => editors[f].line # l
      BY <1>9, <2>3 DEF Overlap
    <3>2. Authored(l)' = Authored(l) \cup {n} /\ n \notin Authored(l)
      BY <1>2, LineageGrows, VersionsOfIn
    <3>3. \A w \in Authored(l) : /\ versions[w].sequence \in Ids /\ versions'[w] = versions[w]
                                  /\ versions[w].sequence <= versions[p].sequence
      BY <1>0, <1>1, <1>2, <2>1, <2>3, VersionsOfIn DEF OnHead, VersionsTyped, VersionRow
    <3>4. versions[p].sequence \in Ids
      BY <1>1 DEF VersionsTyped, VersionRow
    <3>5. \A v, w \in Authored(l) \cup {n} : versions'[v].sequence = versions'[w].sequence => v = w
      BY <1>2, <2>1, <2>3, <3>2, <3>3, <3>4 DEF OnHead, Ids
    <3> QED BY <1>6, <2>3, <3>1, <3>2, <3>5 DEF OnHead
  <2> QED BY <2>2, <2>3
<1>10. HeadsHold'
  BY <1>3, <1>9 DEF HeadsHold
<1> QED BY <1>4, <1>5, <1>8, <1>10 DEF VersionsInv

LEMMA CommitEditInv == ASSUME VersionsInv, NEW e \in Editor, CommitEdit(e) PROVE VersionsInv'
<1>1. editors[e].line = Master
  BY VersionRequest, VersionWorkFields DEF CommitEdit, VersionsInv
<1> QED BY <1>1, MasterExists, OwnerCommitInv DEF CommitEdit

LEMMA CommitRestoreInv == ASSUME VersionsInv, NEW e \in Editor, CommitRestore(e) PROVE VersionsInv'
<1>1. editors[e].line \in Lineage
  BY VersionRequest, VersionWorkFields DEF CommitRestore, VersionsInv
<1> QED BY <1>1, OwnerCommitInv DEF CommitRestore

(* The first version of the master is committed on its own.                *)
LEMMA BootstrapInv == ASSUME VersionsInv, NEW e \in Editor, Bootstrap(e) PROVE VersionsInv'
<1>n. PICK n : n = lastId + 1
  OBVIOUS
<1>0. PICK next \in BootedWork : n = lastId + 1 /\ next = editors[e].next
  BY <1>n, VersionRequest, VersionWorkFields DEF Bootstrap, VersionsInv
<1> DEFINE w == [next EXCEPT !.parent = n]
<1>1. /\ VersionsTyped /\ LinesHold /\ HeadsHold /\ editors[e].op = "boot" /\ editors[e].line = Master
      /\ CreateVersion(Master, 0, "initial") /\ To(e, w)
      /\ Overlap(e, Master) /\ UNCHANGED <<branches, analyses>>
  BY <1>0, VersionRequest, VersionWorkFields DEF Bootstrap, VersionsInv
<1>2. /\ n \in Ids /\ n \notin DOMAIN versions
      /\ DOMAIN versions' = DOMAIN versions \cup {n}
      /\ \A v \in DOMAIN versions : versions'[v] = versions[v]
      /\ versions'[n].line = Master /\ versions'[n].source = "initial"
      /\ versions'[n].sequence = 1
  <2>1. StoredAs(n, Master, 0, "initial")
    BY <1>0, <1>1, MasterExists, NewVersion
  <2> QED BY <2>1 DEF StoredAs
<1>3. /\ w \in VersionWork /\ w.op = next.op /\ w.op \in {"edit", "branch"} /\ w.line = next.line
      /\ w.parent = n /\ (w.op = "edit" => w.line = Master)
  BY <1>2 DEF BootedWork, VersionWork
<1> HIDE DEF w
<1>4. LineExists(Master)' /\ \A k : LineExists(k) <=> LineExists(k)'
  BY <1>1 DEF LineExists
<1>5. /\ LinesHold' /\ versions' \in [DOMAIN versions' -> VersionRow]
      /\ DOMAIN versions' \subseteq 1..lastId' /\ lastId' \in Ids \cup {0}
      /\ \A k : VersionsOf(k) \subseteq VersionsOf(k)'
  BY <1>1, <1>4, MasterExists, StoredHolds
<1>6. EditorsHold' /\ editors' \in [Editor -> VersionWork]
  <2>1. w.op = "edit" => w.line \notin Branch /\ w.parent \in VersionsOf(w.line)'
    <3>1. n \in VersionsOf(Master)'
      BY <1>2, LineageGrows
    <3>2. \A k : k = Master => n \in VersionsOf(k)'
      BY <3>1
    <3> QED BY <1>3, <3>2, VersionsAssumption
  <2>2. \A b \in Branch : Creating(w, b) =>
          branches[b] = "none" /\ \A f \in Editor \ {e} : ~Creating(editors[f], b)
    BY <1>0, <1>1, <1>3 DEF Creating, VersionsInv, EditorsHold
  <2> QED BY <1>1, <1>3, <1>5, <2>1, <2>2, EditorsTurn
<1>7. editors'[e] = w /\ \A f \in Editor \ {e} : editors'[f] = editors[f]
  BY <1>1 DEF To, VersionsTyped
<1>8. overlapped' \subseteq Lineage /\ overlapped \subseteq overlapped'
  BY <1>1, MasterExists DEF Overlap, VersionsTyped
<1>9. VersionsTyped' /\ AnalysesHold'
  BY <1>1, <1>5, <1>6, <1>8, AnalysesKept DEF VersionsTyped
<1>10. ASSUME NEW k \in Lineage, LineExists(k), k \notin overlapped' PROVE OnHead(k)'
  <2>1. OnHead(k)
    BY <1>1, <1>8, <1>10 DEF HeadsHold
  <2>2. CASE k # Master
    <3>1. Authored(k)' = Authored(k)
      BY <1>2, <2>2, LineageGrows
    <3> QED BY <1>2, <1>3, <1>7, <1>10, <2>1, <2>2, <3>1, VersionsOfIn, OnHeadKept
  <2>3. CASE k = Master
    <3>1. \A f \in Editor \ {e} : editors[f].op \in {"boot", "edit", "restore"} => editors[f].line # Master
      BY <1>1, <1>10, <2>3 DEF Overlap
    <3>2. Authored(Master) = {}
      BY <1>1, <2>1, <2>3 DEF OnHead
    <3>3. Authored(Master)' = {n}
      BY <1>2, <3>2, LineageGrows
    <3> QED BY <1>2, <1>3, <1>7, <2>3, <3>1, <3>3 DEF OnHead
  <2> QED BY <2>2, <2>3
<1>11. HeadsHold'
  BY <1>4, <1>10 DEF HeadsHold
<1> QED BY <1>5, <1>6, <1>9, <1>11 DEF VersionsInv

(* A branch begins with a copy of the master: it had no versions, and      *)
(* nobody was at work on it.                                               *)
LEMMA CommitBranchInv == ASSUME VersionsInv, NEW e \in Editor, CommitBranch(e) PROVE VersionsInv'
<1>n. PICK n : n = lastId + 1
  OBVIOUS
<1>0. PICK b \in Branch : n = lastId + 1 /\ b = editors[e].line
  BY <1>n, VersionRequest, VersionWorkFields DEF CommitBranch, VersionsInv
<1>1. /\ VersionsTyped /\ LinesHold /\ AnalysesHold /\ EditorsHold /\ HeadsHold
      /\ editors[e].op = "branch" /\ b \in Lineage /\ b # Master
      /\ CreateVersion(b, 0, "initial") /\ branches' = [branches EXCEPT ![b] = "live"]
      /\ NoRequest \in VersionWork /\ NoRequest.op = "none"
      /\ To(e, NoRequest) /\ UNCHANGED <<analyses, overlapped>>
  BY <1>0, VersionsAssumption DEF CommitBranch, Answered, To, VersionsInv, Lineage, VersionWork, NoRequest
<1>2. /\ n \in Ids /\ n \notin DOMAIN versions
      /\ DOMAIN versions' = DOMAIN versions \cup {n}
      /\ \A v \in DOMAIN versions : versions'[v] = versions[v]
      /\ versions'[n].line = b /\ versions'[n].source = "initial"
  <2>1. StoredAs(n, b, 0, "initial")
    BY <1>0, <1>1, NewVersion
  <2> QED BY <2>1 DEF StoredAs
<1>3. /\ branches[b] = "none" /\ \A f \in Editor \ {e} : ~Creating(editors[f], b)
      /\ branches' \in [Branch -> {"none", "live", "deleted"}]
      /\ branches'[b] = "live" /\ \A c \in Branch \ {b} : branches'[c] = branches[c]
  BY <1>0, <1>1 DEF EditorsHold, Creating, VersionsTyped
<1>4. /\ LineExists(b)' /\ ~LineExists(b) /\ \A k : LineExists(k) => LineExists(k)'
      /\ \A k : k # b => (LineExists(k) <=> LineExists(k)')
  BY <1>1, <1>3 DEF LineExists
<1>5. /\ LinesHold' /\ versions' \in [DOMAIN versions' -> VersionRow]
      /\ DOMAIN versions' \subseteq 1..lastId' /\ lastId' \in Ids \cup {0}
      /\ \A k : VersionsOf(k) \subseteq VersionsOf(k)'
  BY <1>1, <1>4, StoredHolds
<1>6. /\ editors' \in [Editor -> VersionWork] /\ editors'[e].op = "none"
      /\ \A f \in Editor \ {e} : editors'[f] = editors[f]
  BY <1>1 DEF To, VersionsTyped
<1>7. VersionsTyped'
  BY <1>1, <1>3, <1>5, <1>6 DEF VersionsTyped
<1>8. AnalysesHold'
  <2>1. ASSUME NEW a \in Analysis, analyses[a].state = "made", NEW k, k = analyses[a].line
        PROVE  /\ LineExists(k)' /\ analyses[a].base \in VersionsOf(k)'
               /\ {analyses[a].version, analyses[a].changeOf} \subseteq VersionsOf(k)' \cup {0}
    <3>1. /\ LineExists(k) /\ analyses[a].base \in VersionsOf(k)
          /\ {analyses[a].version, analyses[a].changeOf} \subseteq VersionsOf(k) \cup {0}
      BY <1>1, <2>1 DEF AnalysesHold
    <3> QED BY <1>4, <1>5, <3>1
  <2> QED BY <1>1, <2>1 DEF AnalysesHold, LineExists, VersionsOf
<1>9. \A f \in Editor : editors'[f].op \in {"edit", "restore", "tailor", "commit"} =>
        editors'[f] = editors[f] /\ editors[f].line # b /\ editors[f].line \in Lineage
  BY <1>1, <1>3, <1>6, VersionRequest, VersionWorkFields DEF EditorsHold
<1>10. EditorsHold'
  <2>1. ASSUME NEW f \in Editor, editors'[f].op \in {"edit", "restore", "tailor", "commit"},
               NEW k, k = editors'[f].line
        PROVE  /\ k \in Branch => branches'[k] # "none"
               /\ LineExists(k)' => editors'[f].parent \in VersionsOf(k)'
    <3>1. k # b /\ editors'[f] = editors[f]
      BY <1>9, <2>1
    <3>2. /\ k \in Branch => branches[k] # "none"
          /\ LineExists(k) => editors[f].parent \in VersionsOf(k)
      BY <1>1, <2>1, <3>1 DEF EditorsHold
    <3> QED BY <1>3, <1>4, <1>5, <3>1, <3>2
  <2>2. \A f \in Editor : editors'[f].op \in {"edit", "restore", "tailor", "commit"} =>
           /\ editors'[f].line \in Branch => branches'[editors'[f].line] # "none"
           /\ (editors'[f].line \in {Master} \cup {c \in Branch : branches'[c] = "live"}) =>
                /\ editors'[f].parent \in DOMAIN versions'
                /\ versions'[editors'[f].parent].line = editors'[f].line
    BY <2>1 DEF VersionsOf, LineExists
  <2>3. \A f \in Editor, c \in Branch : Creating(editors'[f], c) =>
           branches'[c] = "none" /\ \A g \in Editor : Creating(editors'[g], c) => g = f
    <3>1. \A f \in Editor, c \in Branch : Creating(editors'[f], c) => f # e /\ c # b
      BY <1>3, <1>6 DEF Creating
    <3> QED BY <1>1, <1>3, <1>6, <3>1 DEF EditorsHold
  <2>4. /\ \A f \in Editor : editors'[f].op = "tailor" =>
           /\ analyses[editors'[f].analysis] = NoAnalysis
           /\ \A g \in Editor : editors'[g].op = "tailor" /\ editors'[g].analysis = editors'[f].analysis => g = f
        /\ \A f \in Editor : editors'[f].op = "commit" =>
           /\ analyses[editors'[f].analysis].state # "none"
           /\ analyses[editors'[f].analysis].state = "made" => analyses[editors'[f].analysis].line = editors'[f].line
    BY <1>1, <1>6 DEF EditorsHold
  <2> QED BY <1>1, <2>2, <2>3, <2>4 DEF EditorsHold, VersionsOf, LineExists, Creating
<1>11. ASSUME NEW k \in Lineage, LineExists(k)', k \notin overlapped PROVE OnHead(k)'
  <2>1. CASE k # b
    <3>1. Authored(k)' = Authored(k) /\ LineExists(k) /\ OnHead(k)
      BY <1>1, <1>2, <1>4, <1>11, <2>1, LineageGrows DEF HeadsHold
    <3> QED BY <1>2, <1>6, <2>1, <3>1, VersionsOfIn, OnHeadKept
  <2>2. CASE k = b
    <3>1. VersionsOf(b) = {}
      BY <1>1, <1>4 DEF VersionsOf, LinesHold
    <3>2. Authored(b)' = {n}
      BY <1>2, <3>1, LineageGrows, VersionsOfIn
    <3>3. \A f \in Editor : editors'[f].op \in {"boot", "edit", "restore"} => editors'[f].line # b
      BY <1>1, <1>6, <1>9, VersionRequest, VersionWorkFields
    <3> QED BY <2>2, <3>2, <3>3 DEF OnHead
  <2> QED BY <2>1, <2>2
<1>12. HeadsHold'
  BY <1>1, <1>11 DEF HeadsHold
<1> QED BY <1>5, <1>7, <1>8, <1>10, <1>12 DEF VersionsInv

(* An analysis is stored for the branch its request read.                  *)
LEMMA CommitAnalysisInv == ASSUME VersionsInv, NEW e \in Editor, CommitAnalysis(e) PROVE VersionsInv'
<1>0. PICK l \in Branch : l = editors[e].line
  BY VersionRequest, VersionWorkFields DEF CommitAnalysis, VersionsInv
<1>p. PICK p \in Ids : p = editors[e].parent
  BY VersionRequest, VersionWorkFields DEF CommitAnalysis, VersionsInv
<1>a. PICK a \in Analysis : a = editors[e].analysis
  BY VersionRequest, VersionWorkFields DEF CommitAnalysis, VersionsInv
<1>1. /\ VersionsTyped /\ LinesHold /\ AnalysesHold /\ EditorsHold /\ HeadsHold
      /\ editors[e].op = "tailor" /\ LineExists(l)
      /\ NoRequest \in VersionWork /\ NoRequest.op = "none"
      /\ To(e, NoRequest) /\ UNCHANGED <<versions, lastId, branches, overlapped>>
  BY <1>0 DEF CommitAnalysis, Answered, To, VersionsInv, VersionWork, NoRequest
<1>2. PICK rec \in AnalysisRow :
        /\ rec.state = "made" /\ rec.line = l /\ rec.base = p /\ rec.version = 0 /\ rec.changeOf = 0
        /\ analyses' = [analyses EXCEPT ![a] = rec]
  <2>1. PICK c \in {"none", "proposed"} :
          analyses' = [analyses EXCEPT ![a] = [state |-> "made", line |-> l, base |-> p,
                                               version |-> 0, change |-> c, changeOf |-> 0]]
    BY <1>0, <1>p, <1>a DEF CommitAnalysis
  <2>2. [state |-> "made", line |-> l, base |-> p, version |-> 0, change |-> c, changeOf |-> 0] \in AnalysisRow
    BY DEF AnalysisRow
  <2> QED BY <2>1, <2>2
<1>3. /\ editors' \in [Editor -> VersionWork] /\ editors'[e].op = "none"
      /\ \A f \in Editor \ {e} : editors'[f] = editors[f]
      /\ analyses' \in [Analysis -> AnalysisRow] /\ analyses'[a] = rec
      /\ \A c \in Analysis \ {a} : analyses'[c] = analyses[c]
  BY <1>1, <1>2 DEF To, VersionsTyped
<1>4. VersionsTyped' /\ LinesHold'
  BY <1>1, <1>3 DEF VersionsTyped, LinesHold, LineExists
<1>5. p \in VersionsOf(l)
  BY <1>0, <1>p, <1>1 DEF EditorsHold
<1>6. AnalysesHold'
  BY <1>1, <1>2, <1>3, <1>5 DEF AnalysesHold, LineExists, VersionsOf
<1>7. EditorsHold'
  <2>1. analyses[a] = NoAnalysis /\ analyses[a].state = "none"
    BY <1>1, <1>a DEF EditorsHold, NoAnalysis
  <2>2. \A f \in Editor \ {e} : editors[f].op \in {"tailor", "commit"} => editors[f].analysis # a
    BY <1>1, <1>a, <2>1 DEF EditorsHold
  <2>3. \A f \in Editor : editors'[f].op \in {"tailor", "commit"} => editors'[f].analysis \in Analysis
    BY <1>3, VersionWorkFields
  <2>4. \A f \in Editor, b \in Branch : Creating(editors'[f], b) =>
          branches[b] = "none" /\ \A g \in Editor : Creating(editors'[g], b) => g = f
    <3>1. \A b \in Branch : ~Creating(editors'[e], b)
      BY <1>3 DEF Creating
    <3> QED BY <1>1, <1>3, <3>1 DEF EditorsHold
  <2> QED BY <1>1, <1>3, <2>2, <2>3, <2>4 DEF EditorsHold, LineExists, VersionsOf, Creating
<1>8. HeadsHold'
  <2>1. \A k : LineExists(k)' = LineExists(k) /\ Authored(k)' = Authored(k)
    BY <1>1 DEF LineExists, Authored, VersionsOf
  <2>2. ASSUME NEW k \in Lineage, OnHead(k) PROVE OnHead(k)'
    BY <1>1, <1>3, <2>1, <2>2 DEF OnHead
  <2> QED BY <1>1, <2>1, <2>2 DEF HeadsHold
<1> QED BY <1>4, <1>6, <1>7, <1>8 DEF VersionsInv

(* A tailored version is stored, and the analysis names it.                *)
LEMMA CommitTailorInv == ASSUME VersionsInv, NEW e \in Editor, CommitTailor(e) PROVE VersionsInv'
<1>n. PICK n : n = lastId + 1
  OBVIOUS
<1>0. PICK l \in Branch : l = editors[e].line
  BY VersionRequest, VersionWorkFields DEF CommitTailor, VersionsInv
<1>p. PICK p \in Ids : p = editors[e].parent
  BY VersionRequest, VersionWorkFields DEF CommitTailor, VersionsInv
<1>a. PICK a \in Analysis : a = editors[e].analysis
  BY VersionRequest, VersionWorkFields DEF CommitTailor, VersionsInv
<1>1. /\ VersionsTyped /\ LinesHold /\ AnalysesHold /\ EditorsHold /\ HeadsHold
      /\ editors[e].op = "commit" /\ analyses[a].state = "made" /\ l \in Lineage
      /\ CreateVersion(l, p, "ai_suggestion")
      /\ analyses' = [analyses EXCEPT ![a] = Decided(@, editors[e], n)]
      /\ NoRequest \in VersionWork /\ NoRequest.op = "none"
      /\ To(e, NoRequest) /\ UNCHANGED <<branches, overlapped>>
  BY <1>n, <1>0, <1>p, <1>a, MasterExists
     DEF CommitTailor, Answered, To, VersionsInv, VersionWork, NoRequest
<1>2. /\ analyses[a].line = l /\ LineExists(l) /\ p \in VersionsOf(l) /\ p \in DOMAIN versions
  BY <1>0, <1>p, <1>a, <1>1, VersionsOfIn DEF EditorsHold, AnalysesHold
<1>3. /\ n \in Ids /\ n \notin DOMAIN versions
      /\ DOMAIN versions' = DOMAIN versions \cup {n}
      /\ \A v \in DOMAIN versions : versions'[v] = versions[v]
      /\ versions'[n].line = l /\ versions'[n].source = "ai_suggestion"
  <2>1. StoredAs(n, l, p, "ai_suggestion")
    BY <1>n, <1>1, <1>2, NewVersion
  <2> QED BY <2>1 DEF StoredAs
<1>4. LineExists(l)' /\ \A k : LineExists(k) <=> LineExists(k)'
  BY <1>1, <1>2 DEF LineExists
<1>5. /\ LinesHold' /\ versions' \in [DOMAIN versions' -> VersionRow]
      /\ DOMAIN versions' \subseteq 1..lastId' /\ lastId' \in Ids \cup {0}
      /\ \A k : VersionsOf(k) \subseteq VersionsOf(k)'
  BY <1>1, <1>2, <1>4, StoredHolds
<1>6. PICK rec \in AnalysisRow : rec = Decided(analyses[a], editors[e], n)
  <2>1. /\ analyses[a] \in [state : {"made"}, line : Branch, base : Ids, version : Ids \cup {0},
                            change : {"none", "proposed", "accepted", "rejected"}, changeOf : Ids \cup {0}]
        /\ editors[e].decision \in {"accepted", "rejected"}
    BY <1>1, VersionRequest, VersionWorkFields DEF VersionsTyped, AnalysisRow
  <2> QED BY <1>3, <2>1 DEF Decided, AnalysisRow
<1>7. /\ rec.state = "made" /\ rec.line = l /\ rec.base = analyses[a].base /\ rec.version = n
      /\ rec.changeOf \in {n, analyses[a].changeOf}
  BY <1>1, <1>2, <1>6 DEF Decided, VersionsTyped, AnalysisRow
<1>8. /\ editors' \in [Editor -> VersionWork] /\ editors'[e].op = "none"
      /\ \A f \in Editor \ {e} : editors'[f] = editors[f]
      /\ analyses' \in [Analysis -> AnalysisRow] /\ analyses'[a] = rec
      /\ \A c \in Analysis \ {a} : analyses'[c] = analyses[c]
  BY <1>1, <1>6 DEF To, VersionsTyped
<1>9. VersionsTyped'
  BY <1>1, <1>5, <1>8 DEF VersionsTyped
<1>10. AnalysesHold'
  <2>1. ASSUME NEW c \in Analysis, analyses'[c].state = "made", NEW k, k = analyses'[c].line
        PROVE  /\ LineExists(k)' /\ analyses'[c].base \in VersionsOf(k)'
               /\ {analyses'[c].version, analyses'[c].changeOf} \subseteq VersionsOf(k)' \cup {0}
    <3>1. CASE c = a
      <4>1. /\ k = l /\ analyses[a].base \in VersionsOf(l) /\ analyses[a].changeOf \in VersionsOf(l) \cup {0}
        BY <1>1, <1>2, <1>7, <1>8, <2>1, <3>1 DEF AnalysesHold
      <4>2. n \in VersionsOf(l)'
        BY <1>3, LineageGrows
      <4> QED BY <1>4, <1>5, <1>7, <1>8, <3>1, <4>1, <4>2
    <3>2. CASE c # a
      <4>1. /\ LineExists(k) /\ analyses[c].base \in VersionsOf(k) /\ analyses'[c] = analyses[c]
            /\ {analyses[c].version, analyses[c].changeOf} \subseteq VersionsOf(k) \cup {0}
        BY <1>1, <1>8, <2>1, <3>2 DEF AnalysesHold
      <4> QED BY <1>4, <1>5, <4>1
    <3> QED BY <3>1, <3>2
  <2> QED BY <2>1 DEF AnalysesHold, LineExists, VersionsOf
<1>11. EditorsHold'
  <2>1. ASSUME NEW f \in Editor, editors'[f].op \in {"edit", "restore", "tailor", "commit"},
               NEW k, k = editors'[f].line
        PROVE  /\ k \in Branch => branches[k] # "none"
               /\ LineExists(k) => editors'[f].parent \in VersionsOf(k)'
    <3>1. /\ editors'[f] = editors[f]
          /\ k \in Branch => branches[k] # "none"
          /\ LineExists(k) => editors[f].parent \in VersionsOf(k)
      BY <1>1, <1>8, <2>1 DEF EditorsHold
    <3> QED BY <1>5, <3>1
  <2>2. \A f \in Editor : editors'[f].op \in {"edit", "restore", "tailor", "commit"} =>
         /\ editors'[f].line \in Branch => branches[editors'[f].line] # "none"
         /\ LineExists(editors'[f].line) =>
              /\ editors'[f].parent \in DOMAIN versions'
              /\ versions'[editors'[f].parent].line = editors'[f].line
    BY <2>1 DEF VersionsOf
  <2>3. \A f \in Editor, b \in Branch : Creating(editors'[f], b) =>
          branches[b] = "none" /\ \A g \in Editor : Creating(editors'[g], b) => g = f
    <3>1. \A b \in Branch : ~Creating(editors'[e], b)
      BY <1>8 DEF Creating
    <3> QED BY <1>1, <1>8, <3>1 DEF EditorsHold
  <2>4. \A f \in Editor : editors'[f].op = "tailor" =>
           /\ analyses'[editors'[f].analysis] = NoAnalysis
           /\ \A g \in Editor : editors'[g].op = "tailor" /\ editors'[g].analysis = editors'[f].analysis => g = f
    <3>1. analyses[a] # NoAnalysis
      BY <1>1 DEF NoAnalysis
    <3> QED BY <1>1, <1>8, <3>1, VersionWorkFields DEF EditorsHold
  <2>5. \A f \in Editor : editors'[f].op = "commit" =>
           /\ analyses'[editors'[f].analysis].state # "none"
           /\ analyses'[editors'[f].analysis].state = "made" =>
                analyses'[editors'[f].analysis].line = editors'[f].line
    BY <1>1, <1>2, <1>7, <1>8, VersionWorkFields DEF EditorsHold
  <2> QED BY <1>1, <2>2, <2>3, <2>4, <2>5 DEF EditorsHold, LineExists, VersionsOf, Creating
<1>12. HeadsHold'
  <2>1. ASSUME NEW k \in Lineage, LineExists(k), k \notin overlapped PROVE OnHead(k)'
    <3>1. OnHead(k) /\ Authored(k)' = Authored(k)
      BY <1>1, <1>3, <2>1, LineageGrows DEF HeadsHold
    <3> QED BY <1>3, <1>8, <2>1, <3>1, VersionsOfIn, OnHeadKept
  <2> QED BY <1>1, <1>4, <2>1 DEF HeadsHold
<1> QED BY <1>5, <1>9, <1>10, <1>11, <1>12 DEF VersionsInv

(* A branch goes with its versions and analyses.                           *)
LEMMA DeleteBranchInv == ASSUME VersionsInv, NEW b \in Branch, DeleteBranch(b) PROVE VersionsInv'
<1>1. /\ VersionsTyped /\ LinesHold /\ AnalysesHold /\ EditorsHold /\ HeadsHold
      /\ branches[b] = "live" /\ branches' = [branches EXCEPT ![b] = "deleted"]
      /\ versions' = [v \in DOMAIN versions \ VersionsOf(b) |-> versions[v]]
      /\ analyses' = [a \in Analysis |-> IF analyses[a].state = "made" /\ analyses[a].line = b
                                         THEN [state |-> "deleted"] ELSE analyses[a]]
      /\ UNCHANGED <<lastId, editors, overlapped>> /\ b # Master
  BY VersionsAssumption DEF DeleteBranch, VersionsInv
<1>2. /\ branches' \in [Branch -> {"none", "live", "deleted"}]
      /\ branches'[b] = "deleted" /\ \A c \in Branch \ {b} : branches'[c] = branches[c]
  BY <1>1 DEF VersionsTyped
<1>3. /\ \A k : LineExists(k)' => LineExists(k) /\ k # b
      /\ \A k : LineExists(k) /\ k # b => LineExists(k)'
  BY <1>1, <1>2 DEF LineExists
<1>4. /\ DOMAIN versions' = DOMAIN versions \ VersionsOf(b)
      /\ \A v \in DOMAIN versions' : v \in DOMAIN versions /\ versions'[v] = versions[v] /\ versions[v].line # b
  BY <1>1 DEF VersionsOf
<1>5. /\ versions' \in [DOMAIN versions' -> VersionRow] /\ DOMAIN versions' \subseteq 1..lastId
  <2>1. \A v \in DOMAIN versions' : versions[v] \in VersionRow
    BY <1>1, <1>4 DEF VersionsTyped
  <2> QED BY <1>1, <1>4, <2>1 DEF VersionsTyped
<1>6. ASSUME NEW k, k # b
      PROVE  /\ VersionsOf(k)' = VersionsOf(k) /\ Authored(k)' = Authored(k)
             /\ \A v \in VersionsOf(k) : versions'[v] = versions[v]
  BY <1>1, <1>6 DEF VersionsOf, Authored
<1>7. /\ analyses' \in [Analysis -> AnalysisRow]
      /\ \A a \in Analysis : analyses[a].state = "none" => analyses'[a] = analyses[a]
      /\ \A a \in Analysis : analyses[a].state # "none" => analyses'[a].state # "none"
      /\ \A a \in Analysis : analyses'[a].state = "made" =>
           analyses'[a] = analyses[a] /\ analyses[a].line # b
  <2>1. [state |-> "deleted"] \in AnalysisRow
    BY DEF AnalysisRow
  <2> QED BY <1>1, <2>1 DEF VersionsTyped
<1>8. VersionsTyped'
  BY <1>1, <1>2, <1>5, <1>7 DEF VersionsTyped
<1>9. LinesHold'
  <2>1. ASSUME NEW v \in DOMAIN versions', NEW k, k = versions'[v].line
        PROVE  LineExists(k)' /\ versions'[v].sequence <= v
    BY <1>1, <1>3, <1>4, <2>1 DEF LinesHold
  <2> QED BY <2>1 DEF LinesHold, LineExists
<1>10. AnalysesHold'
  <2>1. ASSUME NEW c \in Analysis, analyses'[c].state = "made", NEW k, k = analyses'[c].line
        PROVE  /\ LineExists(k)' /\ analyses'[c].base \in VersionsOf(k)'
               /\ {analyses'[c].version, analyses'[c].changeOf} \subseteq VersionsOf(k)' \cup {0}
    <3>1. /\ LineExists(k) /\ analyses[c].base \in VersionsOf(k) /\ analyses'[c] = analyses[c] /\ k # b
          /\ {analyses[c].version, analyses[c].changeOf} \subseteq VersionsOf(k) \cup {0}
      BY <1>1, <1>7, <2>1 DEF AnalysesHold
    <3> QED BY <1>3, <1>6, <3>1
  <2> QED BY <2>1 DEF AnalysesHold, LineExists, VersionsOf
<1>11. EditorsHold'
  <2>1. ASSUME NEW f \in Editor, editors[f].op \in {"edit", "restore", "tailor", "commit"},
               NEW k, k = editors[f].line
        PROVE  /\ k \in Branch => branches'[k] # "none"
               /\ LineExists(k)' => editors[f].parent \in VersionsOf(k)'
    <3>1. /\ k \in Branch => branches[k] # "none"
          /\ LineExists(k) => editors[f].parent \in VersionsOf(k)
      BY <1>1, <2>1 DEF EditorsHold
    <3> QED BY <1>2, <1>3, <1>6, <3>1
  <2>2. \A f \in Editor : editors[f].op \in {"edit", "restore", "tailor", "commit"} =>
         /\ editors[f].line \in Branch => branches'[editors[f].line] # "none"
         /\ (editors[f].line \in {Master} \cup {c \in Branch : branches'[c] = "live"}) =>
              /\ editors[f].parent \in DOMAIN versions'
              /\ versions'[editors[f].parent].line = editors[f].line
    BY <2>1 DEF VersionsOf, LineExists
  <2>3. \A f \in Editor, c \in Branch : Creating(editors[f], c) =>
          branches'[c] = "none" /\ \A g \in Editor : Creating(editors[g], c) => g = f
    <3>1. \A f \in Editor : ~Creating(editors[f], b)
      BY <1>1 DEF EditorsHold
    <3> QED BY <1>1, <1>2, <3>1 DEF EditorsHold
  <2>4. \A f \in Editor : editors[f].op = "tailor" =>
           /\ analyses'[editors[f].analysis] = NoAnalysis
           /\ \A g \in Editor : editors[g].op = "tailor" /\ editors[g].analysis = editors[f].analysis => g = f
    BY <1>1, <1>7, VersionRequest, VersionWorkFields DEF EditorsHold, NoAnalysis
  <2>5. \A f \in Editor : editors[f].op = "commit" =>
           /\ analyses'[editors[f].analysis].state # "none"
           /\ analyses'[editors[f].analysis].state = "made" =>
                analyses'[editors[f].analysis].line = editors[f].line
    BY <1>1, <1>7, VersionRequest, VersionWorkFields DEF EditorsHold
  <2> QED BY <1>1, <2>2, <2>3, <2>4, <2>5 DEF EditorsHold, LineExists, VersionsOf, Creating
<1>12. HeadsHold'
  <2>1. ASSUME NEW k \in Lineage, LineExists(k)', k \notin overlapped PROVE OnHead(k)'
    <3>1. LineExists(k) /\ k # b /\ OnHead(k)
      BY <1>1, <1>3, <2>1 DEF HeadsHold
    <3> QED BY <1>1, <1>6, <3>1, OnHeadKept
  <2> QED BY <1>1, <2>1 DEF HeadsHold
<1> QED BY <1>8, <1>9, <1>10, <1>11, <1>12 DEF VersionsInv

LEMMA VersionsStepInv == VersionsInv /\ [ResumeNext]_resumeVars => VersionsInv'
<1> SUFFICES ASSUME VersionsInv, [ResumeNext]_resumeVars PROVE VersionsInv'
  OBVIOUS
<1>1. CASE UNCHANGED resumeVars
  BY <1>1 DEF resumeVars, VersionsInv, VersionsTyped, LinesHold, AnalysesHold, EditorsHold, HeadsHold,
              OnHead, Authored, VersionsOf, LineExists, Creating
<1>2. CASE ResumeNext
  BY <1>2, BeginEditInv, BootstrapInv, CommitEditInv, CommitBranchInv, CommitRestoreInv,
     CommitAnalysisInv, CommitTailorInv, RefuseCommitInv, BeginBranchInv, BeginRestoreInv,
     BeginTailorInv, BeginCommitInv, DeleteBranchInv
     DEF ResumeNext, Write
<1> QED BY <1>1, <1>2

LEMMA VersionsAlways == ResumeSpec => []VersionsInv
  BY VersionsInitInv, VersionsStepInv, PTL DEF ResumeSpec

(* For any number of branches, analyses, requests and versions: the rows   *)
(* are well-formed and belong to lineages there are, and an analysis names *)
(* versions that are stored.                                               *)
THEOREM VersionsTypeCorrect == ResumeSpec => []ResumeTypeOK
<1>1. VersionsInv => ResumeTypeOK
  <2> SUFFICES ASSUME VersionsInv PROVE ResumeTypeOK
    OBVIOUS
  <2>1. \A v \in DOMAIN versions : versions[v] \in VersionRow
    BY DEF VersionsInv, VersionsTyped
  <2>2. \A a \in Analysis : analyses[a].state = "made" =>
          {analyses[a].base, analyses[a].version, analyses[a].changeOf} \subseteq DOMAIN versions \cup {0}
    BY VersionsOfIn DEF VersionsInv, AnalysesHold
  <2> QED BY <2>1, <2>2 DEF VersionsInv, VersionsTyped, LinesHold, ResumeTypeOK
<1> QED BY <1>1, VersionsAlways, PTL

(* However edits, restores, tailorings and deletions of branches follow    *)
(* one another, a sequence number is given twice only by a tailoring, or   *)
(* where edits overlapped.                                                 *)
THEOREM TailoringAloneForks == ResumeSpec => []OnlyTailoringForks
<1>1. VersionsInv => OnlyTailoringForks
  <2> SUFFICES ASSUME VersionsInv, NEW v \in DOMAIN versions, NEW w \in DOMAIN versions,
                      v # w, versions[v].line = versions[w].line,
                      versions[v].sequence = versions[w].sequence,
                      versions[v].source # "ai_suggestion", versions[w].source # "ai_suggestion"
               PROVE  versions[v].line \in overlapped
    BY DEF OnlyTailoringForks
  <2>1. PICK l \in Lineage : l = versions[v].line
    BY DEF VersionsInv, VersionsTyped, VersionRow
  <2>2. v \in Authored(l) /\ w \in Authored(l) /\ LineExists(l)
    BY <2>1 DEF Authored, VersionsOf, VersionsInv, LinesHold
  <2> QED BY <2>1, <2>2 DEF VersionsInv, HeadsHold, OnHead
<1> QED BY <1>1, VersionsAlways, PTL

-----------------------------------------------------------------------------
(* Rounds are counted, and the pass and the file keep their shape          *)
(* (pdf_pipeline.py:250-455).                                              *)
THEOREM PdfTypeCorrect == PdfSpec => []PdfTypeOK
<1> DEFINE Rounds == pass.round \in 1..MaxRounds
<1>1. PdfInit => Rounds
  BY PdfAssumption DEF PdfInit
<1>2. PdfInv /\ Rounds /\ [PdfNext]_pdfVars => Rounds'
  <2> SUFFICES ASSUME PdfInv, Rounds, [PdfNext]_pdfVars PROVE Rounds'
    OBVIOUS
  <2>1. pass \in [stage : PdfStage, round : Nat, before : Score,
                  text : [CvLine -> Source], score : Score]
    BY DEF PdfInv, PdfTyped
  <2>2. ASSUME NEW to, MoveTo(to) PROVE Rounds'
    BY <2>1, <2>2 DEF MoveTo
  <2>3. ASSUME NEW lines, NEW score, NEW focus, KeepRound(lines, score, focus) PROVE Rounds'
    <3> DEFINE more == focus /\ score < AtsTarget /\ pass.round < MaxRounds
    <3>1. pass'.round = IF more THEN pass.round + 1 ELSE pass.round
      BY <2>1, <2>3 DEF KeepRound
    <3> QED BY <3>1, PdfAssumption
  <2>4. ASSUME NEW lines, NEW value, Fit(lines, value) PROVE Rounds'
    BY <2>2, <2>4 DEF Fit
  <2>5. CASE UNCHANGED pdfVars
    BY <2>5 DEF pdfVars
  <2> QED BY <2>2, <2>3, <2>4, <2>5
          DEF PdfNext, PlanFails, NoEdit, PlaceFails, CheckWhole, DropRound, Revert
<1>3. PdfInv /\ Rounds => PdfTypeOK
  BY DEF PdfInv, PdfTyped, PdfTypeOK, PdfStage
<1> QED BY <1>1, <1>2, <1>3, PdfInitInv, PdfStepInv, PTL DEF PdfSpec
-----------------------------------------------------------------------------
(* CVs have numbers: the uploaded ones first, and each tailored version    *)
(* the next.  Whoever read the application named CVs that were there.      *)
Uploaded  == Cardinality(BaseCv)
CvsMade   == {NoCv} \cup BaseCv \cup DOMAIN tailoredOf
ColumnsIn(S) == [resume : S, score : S]

VersionsNumbered ==
    /\ \E n \in 0..MaxTailored : DOMAIN tailoredOf = Uploaded + 1..Uploaded + n
    /\ \A t \in DOMAIN tailoredOf : tailoredOf[t] \in BaseCv

AskNames(ask, S) ==
    \/ ask = NoAsk
    \/ ask.op = "tailor" /\ ask.base \in BaseCv /\ ask.read \in ColumnsIn(S)
    \/ ask.op = "attach" /\ ask.cv \in S /\ ask.read \in ColumnsIn(S)
    \/ ask.op = "score" /\ ask.chosen \in S /\ ask.read \in ColumnsIn(S)

RunNames ==
    \/ run = NotRunning
    \/ run.at \in {"gate", "sending"} /\ {run.read.resume, run.read.score} \subseteq CvsMade

ScoreHeld ==
    /\ RowShaped /\ {row.resume, row.score} \subseteq CvsMade
    /\ VersionsNumbered
    /\ scoreAsks = [q \in ScoreAsk |-> scoreAsks[q]] /\ \A q \in ScoreAsk : AskNames(scoreAsks[q], CvsMade)
    /\ RunNames

LEMMA UploadedAll == Uploaded \in Nat /\ BaseCv = 1..Uploaded
BY ScoreAssumption, FS_CardinalityType DEF Uploaded

LEMMA MoreCvs ==
    ASSUME NEW S, NEW T, S \subseteq T, NEW ask, AskNames(ask, S)
    PROVE  AskNames(ask, T)
<1>1. ColumnsIn(S) \subseteq ColumnsIn(T)
  BY DEF ColumnsIn
<1> QED BY <1>1 DEF AskNames

(* What a column holds afterwards it held before, or its writer read.      *)
LEMMA ColumnMade ==
    ASSUME NEW new, NEW read, NEW now
    PROVE  Column(new, read, now) \in {new, now}
BY DEF Column

LEMMA AskHeld ==
    ASSUME ScoreHeld, NEW q \in ScoreAsk, NEW ask, AskNames(ask, CvsMade), Ask(q, ask),
           UNCHANGED <<row, tailoredOf, run>>
    PROVE  ScoreHeld'
<1>1. scoreAsks' = [scoreAsks EXCEPT ![q] = ask]
  BY DEF Ask
<1>2. CvsMade' = CvsMade
  BY DEF CvsMade
<1>3. /\ scoreAsks' = [p \in ScoreAsk |-> scoreAsks'[p]]
      /\ \A p \in ScoreAsk : AskNames(scoreAsks'[p], CvsMade')
  BY <1>1, <1>2 DEF ScoreHeld
<1> QED BY <1>2, <1>3 DEF ScoreHeld, RowShaped, VersionsNumbered, RunNames

LEMMA RowWritten ==
    ASSUME ScoreHeld, NEW s, NEW doc \in CvsMade, NEW of \in CvsMade,
           row' = [status |-> s, resume |-> doc, score |-> of], UNCHANGED tailoredOf,
           \/ UNCHANGED scoreAsks
           \/ \E q \in ScoreAsk : Ask(q, NoAsk),
           \/ UNCHANGED run \/ run' = NotRunning
           \/ run'.at \in {"gate", "sending"} /\ run'.read = run.read /\ run # NotRunning
    PROVE  ScoreHeld'
<1>1. CvsMade' = CvsMade
  BY DEF CvsMade
<1>2. row'.resume = doc /\ row'.score = of /\ RowShaped'
  BY DEF RowShaped
<1>3. /\ scoreAsks' = [p \in ScoreAsk |-> scoreAsks'[p]]
      /\ \A p \in ScoreAsk : AskNames(scoreAsks'[p], CvsMade')
  BY <1>1 DEF ScoreHeld, Ask, AskNames
<1>5. RunNames'
  BY <1>1 DEF ScoreHeld, RunNames
<1>6. VersionsNumbered'
  BY DEF ScoreHeld, VersionsNumbered
<1> QED BY <1>1, <1>2, <1>3, <1>5, <1>6 DEF ScoreHeld

LEMMA GenerateHeld ==
    ASSUME ScoreHeld, NEW q \in ScoreAsk, Generate(q)
    PROVE  ScoreHeld'
<1> DEFINE b == scoreAsks[q].base
           read == scoreAsks[q].read
           next == Uploaded + Cardinality(DOMAIN tailoredOf) + 1
<1>1. b \in BaseCv /\ read \in ColumnsIn(CvsMade)
  BY DEF ScoreHeld, AskNames, Generate, NoAsk
<1>2. /\ UNCHANGED <<row, run>>
      /\ \/ /\ \E t \in DOMAIN tailoredOf : Ask(q, [op |-> "attach", cv |-> t, read |-> read])
            /\ UNCHANGED tailoredOf
         \/ /\ next \in Cv
            /\ tailoredOf' = [t \in DOMAIN tailoredOf \cup {next} |->
                                IF t = next THEN b ELSE tailoredOf[t]]
            /\ Ask(q, [op |-> "attach", cv |-> next, read |-> read])
         \/ Ask(q, NoAsk) /\ UNCHANGED tailoredOf
  BY DEF Generate, Uploaded
<1>3. ASSUME NEW t \in DOMAIN tailoredOf, Ask(q, [op |-> "attach", cv |-> t, read |-> read]),
             UNCHANGED tailoredOf
      PROVE  ScoreHeld'
  <2>1. AskNames([op |-> "attach", cv |-> t, read |-> read], CvsMade)
    BY <1>1 DEF AskNames, CvsMade
  <2> QED BY <1>2, <1>3, <2>1, AskHeld
<1>4. CASE Ask(q, NoAsk) /\ UNCHANGED tailoredOf
  <2>1. AskNames(NoAsk, CvsMade)
    BY DEF AskNames
  <2> QED BY <1>2, <1>4, <2>1, AskHeld
<1>5. CASE /\ next \in Cv
           /\ tailoredOf' = [t \in DOMAIN tailoredOf \cup {next} |->
                               IF t = next THEN b ELSE tailoredOf[t]]
           /\ Ask(q, [op |-> "attach", cv |-> next, read |-> read])
  <2> DEFINE ask == [op |-> "attach", cv |-> next, read |-> read]
  <2>1. PICK n \in 0..MaxTailored : DOMAIN tailoredOf = Uploaded + 1..Uploaded + n
    BY DEF ScoreHeld, VersionsNumbered
  <2>2. Uploaded \in Nat /\ MaxTailored \in Nat /\ n \in Nat
    BY UploadedAll, ScoreAssumption, <2>1
  <2>3. Cardinality(DOMAIN tailoredOf) = n
    <3>1. Cardinality(Uploaded + 1..Uploaded + n) =
            IF Uploaded + 1 > Uploaded + n THEN 0 ELSE Uploaded + n - (Uploaded + 1) + 1
      BY <2>2, FS_Interval
    <3> QED BY <2>1, <2>2, <3>1
  <2>4. next = Uploaded + n + 1 /\ n + 1 \in 0..MaxTailored
    BY <1>5, <2>2, <2>3 DEF Cv, Uploaded
  <2>5. DOMAIN tailoredOf' = Uploaded + 1..Uploaded + (n + 1)
    <3>1. DOMAIN tailoredOf' = (Uploaded + 1..Uploaded + n) \cup {Uploaded + n + 1}
      BY <1>5, <2>1, <2>4
    <3> QED BY <2>2, <3>1
  <2> HIDE DEF next, b, read
  <2>6. \A t \in DOMAIN tailoredOf' : tailoredOf'[t] \in BaseCv
    BY <1>1, <1>5 DEF ScoreHeld, VersionsNumbered
  <2>7. VersionsNumbered'
    <3>1. Uploaded' = Uploaded
      BY DEF Uploaded
    <3> QED BY <2>4, <2>5, <2>6, <3>1 DEF VersionsNumbered
  <2>8. DOMAIN tailoredOf \subseteq DOMAIN tailoredOf' /\ next \in DOMAIN tailoredOf'
    BY <1>5
  <2>9. CvsMade \subseteq CvsMade' /\ next \in CvsMade'
    BY <2>8 DEF CvsMade
  <2>10. AskNames(ask, CvsMade')
    BY <1>1, <2>9 DEF AskNames, ColumnsIn
  <2>11. scoreAsks' = [scoreAsks EXCEPT ![q] = ask]
    BY <1>5 DEF Ask
  <2> HIDE DEF ask
  <2>12. \A p \in ScoreAsk : AskNames(scoreAsks[p], CvsMade')
    BY <2>9, MoreCvs DEF ScoreHeld
  <2>13. /\ scoreAsks' = [p \in ScoreAsk |-> scoreAsks'[p]]
         /\ \A p \in ScoreAsk : AskNames(scoreAsks'[p], CvsMade')
    BY <2>10, <2>11, <2>12 DEF ScoreHeld
  <2> QED BY <1>2, <2>7, <2>9, <2>13 DEF ScoreHeld, RowShaped, RunNames
<1> QED BY <1>2, <1>3, <1>4, <1>5
LEMMA ScoreHeldInit ==
    ASSUME ScoreInit PROVE ScoreHeld
<1>1. /\ row.resume \in {NoCv} \cup BaseCv /\ row.score = NoCv /\ RowShaped
      /\ tailoredOf = << >> /\ scoreAsks = [q \in ScoreAsk |-> NoAsk] /\ run = NotRunning
  BY DEF ScoreInit, RowShaped
<1>2. DOMAIN tailoredOf = {}
  BY <1>1
<1>3. DOMAIN tailoredOf = Uploaded + 1..Uploaded + 0 /\ 0 \in 0..MaxTailored
  BY <1>2, UploadedAll, ScoreAssumption
<1>4. VersionsNumbered
  BY <1>2, <1>3 DEF VersionsNumbered
<1> QED BY <1>1, <1>2, <1>4 DEF ScoreHeld, CvsMade, AskNames, RunNames

LEMMA CommitsHeld ==
    ASSUME ScoreHeld, NEW q \in ScoreAsk, CommitTailoring(q) \/ CommitScoring(q)
    PROVE  ScoreHeld'
<1> DEFINE ask == scoreAsks[q]
           doc == Column(ask.cv, ask.read.resume, row.resume)
           of  == Column(ask.cv, ask.read.score, row.score)
           one == ScoreStored(ask)
           mark == Column(one, ask.read.score, row.score)
<1>0. /\ Ask(q, NoAsk) /\ UNCHANGED <<tailoredOf, run>> /\ AskNames(ask, CvsMade)
      /\ {row.resume, row.score} \subseteq CvsMade
  BY DEF CommitTailoring, CommitScoring, ScoreHeld
<1>1. CASE CommitTailoring(q)
  <2>1. row' = [status |-> row.status, resume |-> doc, score |-> of]
    BY <1>1, ColumnsSet DEF CommitTailoring, WriteRow, ScoreHeld
  <2>2. ask.cv \in CvsMade
    BY <1>0, <1>1 DEF CommitTailoring, AskNames, NoAsk
  <2>3. doc \in CvsMade /\ of \in CvsMade
    BY <1>0, <2>2 DEF Column
  <2> HIDE DEF doc, of
  <2> QED BY <1>0, <2>1, <2>3, RowWritten
<1>2. CASE CommitScoring(q) /\ row' = row
  <2>1. AskNames(NoAsk, CvsMade)
    BY DEF AskNames
  <2> QED BY <1>0, <1>2, <2>1, AskHeld
<1>3. CASE CommitScoring(q) /\ row' # row
  <2>1. row' = [status |-> row.status, resume |-> row.resume, score |-> mark]
    BY <1>3, ColumnsSet DEF CommitScoring, WriteRow, ScoreHeld
  <2>2. one \in CvsMade
    BY <1>0, <1>3 DEF CommitScoring, AskNames, NoAsk, ScoreStored, ColumnsIn, CvsMade
  <2>3. mark \in CvsMade
    BY <1>0, <2>2 DEF Column
  <2> HIDE DEF mark
  <2> QED BY <1>0, <2>1, <2>3, RowWritten
<1> QED BY <1>1, <1>2, <1>3

LEMMA GateHeld ==
    ASSUME ScoreHeld, NEW status, StoreVerdict(status), run.at = "gate", UNCHANGED <<tailoredOf, scoreAsks>>,
           run' = NotRunning \/ run' = [at |-> "sending", read |-> run.read]
    PROVE  ScoreHeld'
<1>0. {row.resume, row.score, run.read.resume, run.read.score} \subseteq CvsMade /\ run # NotRunning
  BY DEF ScoreHeld, RunNames, NotRunning
<1>1. PICK score \in GateScores(run.read) :
        WriteRow([row EXCEPT !.status = Column(status, run.read.status, @),
                             !.score  = Column(score, run.read.score, @)], Overtaken(run.read))
  BY DEF StoreVerdict
<1> DEFINE s  == Column(status, run.read.status, row.status)
           of == Column(score, run.read.score, row.score)
<1>2. row' = [row EXCEPT !.status = s, !.score = of]
  BY <1>1 DEF WriteRow
<1>3. of \in CvsMade
  BY <1>0, <1>1 DEF GateScores, Column
<1> HIDE DEF s, of
<1>4. row' = [status |-> s, resume |-> row.resume, score |-> of]
  BY <1>2, ColumnsSet DEF ScoreHeld
<1> QED BY <1>0, <1>3, <1>4, RowWritten

LEMMA ScoreHeldStep ==
    ASSUME ScoreHeld, [ScoreNext]_scoreVars
    PROVE  ScoreHeld'
<1>0. {row.resume, row.score} \subseteq CvsMade /\ RowShaped
  BY DEF ScoreHeld
<1>1. Columns \in ColumnsIn(CvsMade)
  BY <1>0 DEF Columns, ColumnsIn
<1>2. ASSUME NEW q \in ScoreAsk, NEW requested \in BOOLEAN, BeginTailoring(q, requested)
      PROVE  ScoreHeld'
  <2>1. PICK b \in IF requested THEN BaseCv ELSE Bases(row) :
          Ask(q, [op |-> "tailor", base |-> b, read |-> Columns])
    BY <1>2 DEF BeginTailoring
  <2>2. b \in BaseCv
    BY <2>1 DEF Bases
  <2>3. AskNames([op |-> "tailor", base |-> b, read |-> Columns], CvsMade)
    BY <1>1, <2>2 DEF AskNames
  <2> QED BY <1>2, <2>1, <2>3, AskHeld DEF BeginTailoring
<1>3. ASSUME NEW q \in ScoreAsk, NEW doc \in {NoCv} \cup BaseCv \cup DOMAIN tailoredOf,
             BeginScoring(q, doc)
      PROVE  ScoreHeld'
  <2>1. AskNames([op |-> "score", chosen |-> doc, read |-> Columns], CvsMade)
    BY <1>1, <1>3 DEF AskNames, CvsMade
  <2> QED BY <1>3, <2>1, AskHeld DEF BeginScoring
<1>4. ASSUME NEW doc, NEW status, AttachCv(doc, status) PROVE ScoreHeld'
  <2>1. row' = [status |-> status, resume |-> doc, score |-> row.score]
    BY <1>0, <1>4, ColumnsSet DEF AttachCv, WriteRow
  <2>2. doc \in CvsMade
    BY <1>4 DEF AttachCv, CvsMade
  <2> QED BY <1>0, <1>4, <2>1, <2>2, RowWritten DEF AttachCv
<1>5. ASSUME NEW s, row' = [row EXCEPT !.status = s], UNCHANGED <<tailoredOf, scoreAsks>>,
             run' = run \/ run' = NotRunning
      PROVE  ScoreHeld'
  <2>1. row' = [status |-> s, resume |-> row.resume, score |-> row.score]
    BY <1>0, <1>5, ColumnsSet
  <2> QED BY <1>0, <1>5, <2>1, RowWritten
<1>6. CASE ApproveRow
  BY <1>5, <1>6 DEF ApproveRow
<1>7. CASE LoadRow
  <2>1. CASE run' = [at |-> "gate", read |-> row] /\ UNCHANGED row
    <3>1. UNCHANGED <<row, tailoredOf, scoreAsks>>
      BY <1>7, <2>1 DEF LoadRow
    <3>2. CvsMade' = CvsMade /\ Uploaded' = Uploaded
      BY <3>1 DEF CvsMade, Uploaded
    <3>3. RunNames'
      BY <1>0, <2>1, <3>2 DEF RunNames
    <3> QED BY <3>1, <3>2, <3>3 DEF ScoreHeld, RowShaped, VersionsNumbered
  <2>2. CASE row' = [row EXCEPT !.status = "pending_review"] /\ UNCHANGED run
    BY <1>5, <1>7, <2>2 DEF LoadRow
  <2> QED BY <1>7, <2>1, <2>2 DEF LoadRow
<1>8. CASE GateHolds
  <2>1. PICK status \in {"queued", "pending_review", "failed"} : StoreVerdict(status)
    BY <1>8 DEF GateHolds
  <2> QED BY <1>8, <2>1, GateHeld DEF GateHolds
<1>9. CASE GateAllows
  BY <1>9, GateHeld DEF GateAllows
<1>10. CASE EndSending
  BY <1>5, <1>10 DEF EndSending
<1>11. CASE UNCHANGED scoreVars
  <2>1. UNCHANGED <<row, tailoredOf, scoreAsks, run>>
    BY <1>11 DEF scoreVars
  <2>2. CvsMade' = CvsMade
    BY <2>1 DEF CvsMade
  <2> QED BY <2>1, <2>2 DEF ScoreHeld, RowShaped, VersionsNumbered, RunNames, Uploaded
<1> QED BY <1>2, <1>3, <1>4, <1>6, <1>7, <1>8, <1>9, <1>10, <1>11,
           GenerateHeld, CommitsHeld DEF ScoreNext

(* The attached CV and the CV a score is of were uploaded or tailored, and *)
(* a tailored version has a number after all uploads and one of them for   *)
(* its base (generate_tailored_resume, score_applications, _ats_score).    *)
THEOREM ScoreTypeCorrect == ScoreSpec => []ScoreTypeOK
<1>1. ScoreHeld => ScoreTypeOK
  <2> SUFFICES ASSUME ScoreHeld PROVE ScoreTypeOK
    OBVIOUS
  <2>1. \A t \in DOMAIN tailoredOf : t \in Cv \ BaseCv /\ tailoredOf[t] \in BaseCv
    BY UploadedAll, ScoreAssumption DEF ScoreHeld, VersionsNumbered, Cv, Uploaded
  <2>2. \A q \in ScoreAsk : scoreAsks[q].op \in {"none", "tailor", "attach", "score"}
    BY DEF ScoreHeld, AskNames, NoAsk
  <2> QED BY <2>1, <2>2 DEF ScoreHeld, ScoreTypeOK, CvsMade, RunNames, NotRunning
<1> QED BY <1>1, ScoreHeldInit, ScoreHeldStep, PTL DEF ScoreSpec
=============================================================================
