---------------------------- MODULE Confirmation ----------------------------
(* The question an apply run asks before its final click                   *)
(* (core/automation/runtime/confirmation.py, intervention.py).             *)
(*                                                                         *)
(* The run publishes a prompt and blocks on a Redis list named after the   *)
(* application; POST /intervention pushes the answer there and then gives  *)
(* the list ten minutes to live.  One application is modelled; its runs    *)
(* follow one another.  A tick is five minutes.                            *)
EXTENDS Integers, Sequences, FiniteSets

CONSTANTS
    PromptTab,      \* browser windows of the owner that show prompts
    JobTimeout,    \* WorkerSettings.job_timeout, in ticks
    AskTimeout,    \* CONFIRMATION_TIMEOUT_SECONDS, in ticks
    AnswerLife,    \* the EXPIRE of resolve_intervention, in ticks
    MaxRuns        \* bound on the runs of the application

ASSUME ConfirmationAssumption ==
    /\ JobTimeout \in Nat \ {0} /\ AskTimeout \in Nat /\ JobTimeout <= AskTimeout
    /\ AnswerLife \in Nat \ {0} /\ MaxRuns \in Nat
    /\ IsFiniteSet(PromptTab)

VARIABLES
    attempt,   \* the run in progress: its number, where it is, whether arq
               \* limits it, and its time left
    answers,   \* the Redis list
    life,      \* its time to live; Forever when EXPIRE was not reached
    unexpired, \* requests between RPUSH and EXPIRE
    prompt,    \* the run whose question a window shows; 0: none
    given,     \* answers given so far; gives ids
    answer,    \* the answer each run took (ghost)
    clicked,   \* runs that clicked the final Submit (ghost)
    orphaned   \* an API process died between RPUSH and EXPIRE (ghost)

confirmVars == <<attempt, answers, life, unexpired, prompt, given, answer, clicked, orphaned>>

RunNo     == 1..MaxRuns
MaxGiven  == MaxRuns * Cardinality(PromptTab)
Forever   == AnswerLife + 1
Response  == {"approved", "rejected"}
Answer    == [id : 1..MaxGiven, says : Response, about : RunNo]
NoAnswer  == [id |-> 0, says |-> "none", about |-> 0]
AttemptAt == {"idle", "filling", "asking", "approved", "rejected", "clicked"}

ConfirmInit ==
    /\ attempt = [no |-> 0, at |-> "idle", timed |-> TRUE, left |-> 0]
    /\ answers = <<>>
    /\ life = Forever
    /\ unexpired = 0
    /\ prompt = [w \in PromptTab |-> 0]
    /\ given = 0
    /\ answer = [n \in RunNo |-> NoAnswer]
    /\ clicked = {}
    /\ orphaned = FALSE
-----------------------------------------------------------------------------
Goes(from, to) == attempt.at = from /\ attempt' = [attempt EXCEPT !.at = to]

\* arq limits a job; nothing limits a run of the database queue or of the API.
BeginAttempt ==
    /\ attempt.at = "idle" /\ attempt.no < MaxRuns
    /\ \E timed \in BOOLEAN :
         attempt' = [no |-> attempt.no + 1, at |-> "filling", timed |-> timed,
                     left |-> JobTimeout]
    /\ UNCHANGED <<answers, life, unexpired, prompt, given, answer, clicked, orphaned>>

\* request_submission_approval: publishing is best effort, so the prompt
\* reaches any of the windows; a window keeps the last prompt it got.
RequestApproval ==
    /\ attempt.at = "filling"
    /\ attempt' = [attempt EXCEPT !.at = "asking",
                                  !.left = IF attempt.timed THEN @ ELSE AskTimeout]
    /\ \E shown \in SUBSET PromptTab :
         prompt' = [w \in PromptTab |-> IF w \in shown THEN attempt.no ELSE prompt[w]]
    /\ UNCHANGED <<answers, life, unexpired, given, answer, clicked, orphaned>>

\* Mutant: the answer is read and stays in the list.
Peek(list) == list

\* BLPOP takes the answer out.
Pop(list) == Tail(list)

\* A list that becomes empty is gone, and its time to live with it.
TakeAnswer ==
    /\ answers # <<>>
    /\ Goes("asking", IF Head(answers).says = "approved" THEN "approved" ELSE "rejected")
    /\ answer' = [answer EXCEPT ![attempt.no] = Head(answers)]
    /\ answers' = Pop(answers)
    /\ life' = IF answers' = <<>> THEN Forever ELSE life
    /\ UNCHANGED <<unexpired, prompt, given, clicked, orphaned>>

\* BLPOP returns without an answer.
GiveUpAsking ==
    /\ ~attempt.timed /\ attempt.left = 0
    /\ Goes("asking", "rejected")
    /\ UNCHANGED <<answers, life, unexpired, prompt, given, answer, clicked, orphaned>>

ClickSubmit ==
    /\ Goes("approved", "clicked")
    /\ clicked' = clicked \cup {attempt.no}
    /\ UNCHANGED <<answers, life, unexpired, prompt, given, answer, orphaned>>

\* The stop callback ends the run at the next step boundary.
StopAgent ==
    /\ Goes("rejected", "idle")
    /\ UNCHANGED <<answers, life, unexpired, prompt, given, answer, clicked, orphaned>>

\* The run ends, normally or by an error, without asking (again).
EndAttempt ==
    /\ attempt.at \in {"filling", "approved", "clicked"}
    /\ Goes(attempt.at, "idle")
    /\ UNCHANGED <<answers, life, unexpired, prompt, given, answer, clicked, orphaned>>

\* Mutant: a run that waits for an answer is left alone.
CancelUnlessAsking ==
    /\ attempt.timed /\ attempt.at \notin {"idle", "asking"} /\ attempt.left = 0
    /\ Goes(attempt.at, "idle")
    /\ UNCHANGED <<answers, life, unexpired, prompt, given, answer, clicked, orphaned>>

\* arq cancels the job, long before CONFIRMATION_TIMEOUT_SECONDS are over.
CancelAtJobTimeout ==
    /\ attempt.timed /\ attempt.at # "idle" /\ attempt.left = 0
    /\ Goes(attempt.at, "idle")
    /\ UNCHANGED <<answers, life, unexpired, prompt, given, answer, clicked, orphaned>>
-----------------------------------------------------------------------------
(* POST /applications/{id}/intervention.                                   *)

\* A prompt is not withdrawn when its run ends: it can be answered later.
PushAnswer(w, response) ==
    /\ prompt[w] # 0
    /\ given' = given + 1
    /\ answers' = Append(answers, [id |-> given', says |-> response, about |-> prompt[w]])
    /\ unexpired' = unexpired + 1
    /\ prompt' = [prompt EXCEPT ![w] = 0]
    /\ UNCHANGED <<attempt, life, answer, clicked, orphaned>>

\* Mutants: the key is given no time to live, or more with each answer.
NoExpire == life
ExtendLife == life + AnswerLife

\* EXPIRE of a key that does not exist does nothing.
Expire == IF answers = <<>> THEN life ELSE AnswerLife

ExpireAnswers ==
    /\ unexpired > 0
    /\ life' = Expire
    /\ unexpired' = unexpired - 1
    /\ UNCHANGED <<attempt, answers, prompt, given, answer, clicked, orphaned>>

\* The process dies, or Redis fails, before EXPIRE.
DeliveryFails ==
    /\ unexpired > 0
    /\ unexpired' = unexpired - 1
    /\ orphaned' = TRUE
    /\ UNCHANGED <<attempt, answers, life, prompt, given, answer, clicked>>

Dismiss(w) ==
    /\ prompt[w] # 0
    /\ prompt' = [prompt EXCEPT ![w] = 0]
    /\ UNCHANGED <<attempt, answers, life, unexpired, given, answer, clicked, orphaned>>
-----------------------------------------------------------------------------
\* The clock of the job, or that of the question, runs.
Limited == attempt.at = "asking" \/ (attempt.timed /\ attempt.at # "idle")

\* Five minutes pass: not while an answer can be taken or a limit is overdue.
FiveMinutes ==
    /\ ~ (attempt.at = "asking" /\ answers # <<>>)
    /\ Limited => attempt.left > 0
    /\ unexpired = 0
    /\ attempt' = IF Limited THEN [attempt EXCEPT !.left = @ - 1] ELSE attempt
    /\ life' = IF life \in 2..AnswerLife THEN life - 1
               ELSE IF life = 1 THEN Forever ELSE life
    /\ answers' = IF life = 1 THEN <<>> ELSE answers
    /\ UNCHANGED <<unexpired, prompt, given, answer, clicked, orphaned>>

RunProceeds ==
    \/ TakeAnswer \/ GiveUpAsking \/ ClickSubmit \/ StopAgent \/ EndAttempt
    \/ CancelAtJobTimeout

ConfirmNext ==
    \/ BeginAttempt \/ RequestApproval \/ RunProceeds
    \/ \E w \in PromptTab : Dismiss(w) \/ \E r \in Response : PushAnswer(w, r)
    \/ ExpireAnswers \/ DeliveryFails
    \/ FiveMinutes

\* Time passes, requests are carried out, and a run does what it can do.
ConfirmFairness ==
    WF_confirmVars(FiveMinutes) /\ WF_confirmVars(ExpireAnswers) /\ WF_confirmVars(RunProceeds)

ConfirmSafety == ConfirmInit /\ [][ConfirmNext]_confirmVars
ConfirmSpec   == ConfirmSafety /\ ConfirmFairness
-----------------------------------------------------------------------------
(* Properties.                                                             *)

ConfirmTypeOK ==
    /\ attempt \in [no : 0..MaxRuns, at : AttemptAt, timed : BOOLEAN, left : 0..AskTimeout]
    /\ answers \in Seq(Answer) /\ Len(answers) <= MaxGiven
    /\ life \in 1..Forever
    /\ unexpired \in 0..MaxGiven
    /\ prompt \in [PromptTab -> 0..MaxRuns]
    /\ given \in 0..MaxGiven
    /\ answer \in [RunNo -> Answer \cup {NoAnswer}]
    /\ clicked \subseteq RunNo
    /\ orphaned \in BOOLEAN

\* Nothing is clicked without an approval, a rejection ends its run, and one
\* approval lets one run through, however often windows answer, answers
\* arrive late and runs are repeated.
OneClickPerApproval ==
    /\ \A n \in clicked : answer[n].says = "approved"
    /\ \A m, n \in clicked : m # n => answer[m].id # answer[n].id

\* "bounded, so a run can never hang forever if nobody answers"
\* (confirmation.py:42-45): the run ends, answered or not.
AttemptEnds == attempt.at = "asking" ~> attempt.at = "idle"

\* An answer no run took goes away, unless the API died before the EXPIRE.
LeftoverExpires == (answers # <<>> /\ ~ orphaned) ~> (answers = <<>> \/ orphaned)

\* confirmation.py:1: "the agent stops and waits for the operator's explicit
\* go-ahead": a run clicks on the answer to its own question.
ClickAnswersOwnQuestion == \A n \in clicked : answer[n].about = n
=============================================================================
