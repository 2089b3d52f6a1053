----------------------------- MODULE PdfTailoring -----------------------------
(* Tailoring a CV inside its PDF (core/resume_tailoring/pdf_pipeline.py,   *)
(* with the calls it makes to engine.py and pdf_fit.py).                   *)
(*                                                                         *)
(* Rounds of edits are planned, placed in a copy of the file, scored, and  *)
(* kept or dropped; then the pages are fitted, which may shorten or remove *)
(* lines; then the wording is kept or taken back.  A line is known by      *)
(* where its text is from; what an edit scores is any number.              *)
EXTENDS Naturals

CONSTANTS
    CvLine,         \* the editable lines
    MaxRounds,      \* rounds of edits at most
    AtsTarget,      \* the score that ends them
    MaxScore        \* scores are 0..MaxScore

ASSUME PdfAssumption == MaxScore \in Nat /\ MaxRounds \in Nat \ {0}

VARIABLES
    pass,           \* the pass: its stage and round, the score of the original,
                    \* and the file of the rounds kept so far with its score
    outFile,        \* the lines of the file handed back
    log             \* lines with their last edit, those of a round, those fitted

pdfVars == <<pass, outFile, log>>

Score    == 0..MaxScore
Original == [l \in CvLine |-> "original"]
NoLines  == [l \in {} |-> "original"]

PdfInit ==
    /\ pass \in [stage : {"plan"}, round : {1}, before : Score, text : {Original}, score : Score]
    /\ pass.score = pass.before
    /\ outFile = Original
    /\ log = [applied |-> NoLines, changes |-> {}, fitted |-> {}]

\* The text with one value on some lines.
With(text, lines, value) ==
    [l \in DOMAIN text \cup lines |-> IF l \in lines THEN value ELSE text[l]]

MoveTo(stage) == pass' = [pass EXCEPT !.stage = stage]
-----------------------------------------------------------------------------
\* The first plan must succeed; later the earlier rounds stand.
PlanFails ==
    /\ pass.stage = "plan"
    /\ MoveTo(IF pass.round = 1 THEN "failed" ELSE "check")
    /\ UNCHANGED <<outFile, log>>

\* No edit survives the validation, or none can be placed.
NoEdit == pass.stage = "plan" /\ MoveTo("check") /\ UNCHANGED <<outFile, log>>

\* The step's file cannot even be opened.
PlaceFails == pass.stage = "plan" /\ MoveTo("failed") /\ UNCHANGED <<outFile, log>>

\* engine.tailor plans, validates and asks once more; lines edited in an earlier
\* round are excluded from both plans.
Proposable == CvLine \ DOMAIN log.applied

\* _place has put some lines into a copy that passed its checks: together, or
\* one at a time.
Placed(lines) == pass.stage = "plan" /\ lines # {} /\ lines \subseteq Proposable

Raises(score) == pass.round = 1 \/ score > pass.score

DropRound(lines, score) ==
    /\ Placed(lines) /\ ~Raises(score)
    /\ MoveTo("check")
    /\ UNCHANGED <<outFile, log>>

KeepRound(lines, score, focus) ==
    LET text == With(pass.text, lines, "edited")
        more == focus /\ score < AtsTarget /\ pass.round < MaxRounds
    IN  /\ Placed(lines) /\ Raises(score)
        /\ pass' = [pass EXCEPT !.text = text, !.score = score,
                                !.stage = IF more THEN "plan" ELSE "check",
                                !.round = IF more THEN @ + 1 ELSE @]
        /\ outFile' = text
        /\ log' = [log EXCEPT !.applied = With(@, lines, "edited"), !.changes = @ \cup lines]
-----------------------------------------------------------------------------
\* The whole change set is checked against the original once more.
CheckWhole ==
    /\ pass.stage = "check"
    /\ MoveTo("fit") \/ MoveTo("failed")
    /\ outFile' = IF log.changes = {} THEN Original ELSE outFile
    /\ UNCHANGED log

\* fit_pagination: nothing to do or nothing that helps, lines moved, some lines
\* shortened in rounds, or some removed, never all of them.
FitOutcome(lines, value) == value = "shortened" \/ lines # CvLine

Fitted(text, lines, value, applied, changes) ==
    /\ FitOutcome(lines, value)
    /\ outFile' = With(text, lines, value)
    /\ log' = [applied |-> With(applied, lines, value), changes |-> changes, fitted |-> lines]

\* Mutant: the wording is kept whatever it scored.
NeverWorse == FALSE

\* The wording scored below the original, before the fit cost anything.
Worse == pass.score < pass.before

Fit(lines, value) ==
    /\ pass.stage = "fit"
    /\ Fitted(outFile, lines, value, log.applied, log.changes)
    /\ \/ MoveTo("failed")                        \* a fixed line is gone
       \/ MoveTo(IF log.changes # {} /\ Worse THEN "revert" ELSE "shipped")

\* The original wording is restored and fitted again.
Revert(lines, value) ==
    /\ pass.stage = "revert"
    /\ Fitted(Original, lines, value, NoLines, {})
    /\ MoveTo("shipped")

PdfNext ==
    \/ PlanFails \/ NoEdit \/ PlaceFails \/ CheckWhole
    \/ \E lines \in SUBSET CvLine, score \in Score :
         \/ DropRound(lines, score)
         \/ \E focus \in BOOLEAN : KeepRound(lines, score, focus)
    \/ \E lines \in SUBSET CvLine, value \in {"shortened", "removed"} :
         Fit(lines, value) \/ Revert(lines, value)

PdfSpec == PdfInit /\ [][PdfNext]_pdfVars
-----------------------------------------------------------------------------
PdfTypeOK ==
    /\ pass.stage \in {"plan", "check", "fit", "revert", "shipped", "failed"}
    /\ pass.round \in 1..MaxRounds /\ {pass.before, pass.score} \subseteq Score
    /\ DOMAIN outFile = CvLine /\ DOMAIN log.applied \subseteq CvLine

\* The change log: edits of the rounds, and what the fit made of a line.
Reported == {l \in DOMAIN log.applied : l \in log.changes} \cup log.fitted

\* The file handed back differs from the owner's by exactly what its change log
\* says, and never keeps a round's wording that, all rounds together, matches the
\* job worse than the original did: whichever rounds were kept or dropped,
\* whatever the fit shortened or removed, reverted or not.
ShippedAsReported ==
    pass.stage = "shipped" =>
        /\ \A l \in CvLine :
             outFile[l] = IF l \in Reported THEN log.applied[l] ELSE "original"
        /\ (\E l \in CvLine : outFile[l] = "edited") => pass.score >= pass.before
=============================================================================
