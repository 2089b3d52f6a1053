---------------------------- MODULE ServiceProofs ----------------------------
(***************************************************************************)
(* Theorems about the services around the pipeline, for every value of     *)
(* their constants: an approval lets one run click; a key that was         *)
(* reported spent rests; a sign-in window opens once per request, and a    *)
(* session that works is taken only by someone who read its row before; a  *)
(* confirmed action runs once, save for a claim after its token expired; a *)
(* skill retires with cause; an account that was purged leaves nothing but *)
(* what came late; a notice is mailed once, save for lost commits and      *)
(* replies; an e-mail moves its application once, and forward; of a        *)
(* vacancy that can be listed one advert is, if its oldest is alone and    *)
(* after every undisturbed pass, and the listings shown as one are what a  *)
(* chain of noticed matches connects; a hold of a run window names an      *)
(* opening, for windows within a day the first one; and what the values of *)
(* each of these components can be, counted against the bounds of the      *)
(* model.                                                                  *)
(***************************************************************************)
EXTENDS Confirmation, KeyRing, ConnectQueue, AssistantTokens, SkillLibrary, Purge,
        Notices, InboxSync, Discovery, VacancyGroups, RunWindow,
        FiniteSetTheorems, SequenceTheorems, TLAPS

AnswerRecord == [id : Nat \ {0}, says : Response, about : Nat]

ConfirmTyped ==
    /\ attempt \in [no : Nat, at : AttemptAt, timed : BOOLEAN, left : Int]
    /\ answers \in Seq(AnswerRecord)
    /\ given \in Nat
    /\ prompt \in [PromptTab -> Nat]
    /\ answer \in [RunNo -> AnswerRecord \cup {NoAnswer}]
    /\ clicked \subseteq RunNo

(* An answer is in the list once, or with one run.                         *)
AnsweredOnce ==
    /\ \A i \in 1..Len(answers) :
         /\ answers[i].id <= given
         /\ \A j \in 1..Len(answers) : i # j => answers[i].id # answers[j].id
         /\ \A n \in RunNo : answers[i].id # answer[n].id
    /\ \A n \in RunNo : answer[n].id <= given
    /\ \A m, n \in RunNo : m # n /\ answer[m].id = answer[n].id => answer[m].id = 0

(* Where the run in progress stands, and the runs before it.               *)
RunStands ==
    /\ attempt.at # "idle" => attempt.no \in RunNo
    /\ attempt.at = "approved" => answer[attempt.no].says = "approved"
    /\ attempt.no \in clicked => attempt.at \in {"clicked", "idle"}
    /\ \A n \in clicked : n <= attempt.no /\ answer[n].says = "approved"

ConfirmInv == ConfirmTyped /\ AnsweredOnce /\ RunStands

LEMMA ConfirmInitInv == ConfirmInit => ConfirmInv
<1> SUFFICES ASSUME ConfirmInit PROVE ConfirmInv
  OBVIOUS
<1>1. ConfirmTyped
  BY ConfirmationAssumption DEF ConfirmInit, ConfirmTyped, AttemptAt, RunNo
<1>2. AnsweredOnce /\ RunStands
  BY ConfirmationAssumption
     DEF ConfirmInit, AnsweredOnce, RunStands, NoAnswer, RunNo
<1> QED BY <1>1, <1>2 DEF ConfirmInv

(* The run goes on and nothing is answered or taken.                       *)
LEMMA RunGoesOn ==
    ASSUME ConfirmInv, UNCHANGED <<answers, given, answer>>,
           prompt' \in [PromptTab -> Nat],
           attempt' \in [no : Nat, at : AttemptAt, timed : BOOLEAN, left : Int],
           RunStands', clicked' \subseteq RunNo
    PROVE  ConfirmInv'
  BY DEF ConfirmInv, ConfirmTyped, AnsweredOnce

LEMMA RunStepInv ==
    ASSUME ConfirmInv,
           \/ BeginAttempt \/ RequestApproval \/ ClickSubmit \/ StopAgent
           \/ GiveUpAsking \/ EndAttempt \/ CancelAtJobTimeout
    PROVE  ConfirmInv'
<1>1. UNCHANGED <<answers, given, answer>>
  BY DEF BeginAttempt, RequestApproval, ClickSubmit, StopAgent, EndAttempt, GiveUpAsking,
         CancelAtJobTimeout
<1>2. prompt' \in [PromptTab -> Nat]
  <2>1. attempt.no \in Nat /\ prompt \in [PromptTab -> Nat]
    BY DEF ConfirmInv, ConfirmTyped
  <2> QED BY <2>1 DEF BeginAttempt, RequestApproval, ClickSubmit, StopAgent, EndAttempt, GiveUpAsking,
                      CancelAtJobTimeout
<1>3. attempt' \in [no : Nat, at : AttemptAt, timed : BOOLEAN, left : Int]
  <2>1. CASE BeginAttempt
    BY <2>1, ConfirmationAssumption
       DEF BeginAttempt, ConfirmInv, ConfirmTyped, AttemptAt
  <2>2. CASE RequestApproval
    <3>1. PICK ticks \in Int : attempt' = [attempt EXCEPT !.at = "asking", !.left = ticks]
      <4>1. attempt.left \in Int /\ AskTimeout \in Int
        BY ConfirmationAssumption DEF ConfirmInv, ConfirmTyped
      <4> QED BY <2>2, <4>1 DEF RequestApproval
    <3>2. "asking" \in AttemptAt
      BY DEF AttemptAt
    <3> QED BY <3>1, <3>2 DEF ConfirmInv, ConfirmTyped
  <2>3. CASE ClickSubmit \/ StopAgent \/ GiveUpAsking \/ EndAttempt \/ CancelAtJobTimeout
    <3>1. PICK at \in AttemptAt : attempt' = [attempt EXCEPT !.at = at]
      BY <2>3 DEF ClickSubmit, StopAgent, GiveUpAsking, EndAttempt,
                  CancelAtJobTimeout, Goes, AttemptAt
    <3> QED BY <3>1 DEF ConfirmInv, ConfirmTyped
  <2> QED BY <2>1, <2>2, <2>3
<1>4. RunStands' /\ clicked' \subseteq RunNo
  <2>0. /\ attempt \in [no : Nat, at : AttemptAt, timed : BOOLEAN, left : Int] /\ clicked \subseteq RunNo
        /\ RunStands
    BY DEF ConfirmInv, ConfirmTyped
  <2>1. CASE BeginAttempt
    <3>1. /\ attempt'.no = attempt.no + 1 /\ attempt'.at = "filling"
          /\ attempt.no < MaxRuns /\ clicked' = clicked
      BY <2>1 DEF BeginAttempt
    <3>2. attempt.no + 1 \in RunNo
      BY <2>0, <3>1, ConfirmationAssumption DEF RunNo
    <3>3. \A n \in clicked : n <= attempt.no + 1 /\ n # attempt.no + 1
      <4>1. attempt.no \in Nat /\ clicked \subseteq Nat
        BY <2>0 DEF RunNo
      <4>2. \A n \in clicked : n <= attempt.no
        BY <2>0 DEF RunStands
      <4> QED BY <4>1, <4>2
    <3> QED BY <1>1, <2>0, <3>1, <3>2, <3>3 DEF RunStands
  <2>2. CASE ClickSubmit
    <3>1. /\ attempt.at = "approved" /\ attempt'.at = "clicked"
          /\ attempt'.no = attempt.no /\ clicked' = clicked \cup {attempt.no}
      BY <2>0, <2>2 DEF ClickSubmit, Goes
    <3> QED BY <1>1, <2>0, <3>1 DEF RunStands
  <2>3. CASE RequestApproval
    <3>1. /\ attempt.at = "filling" /\ attempt'.at = "asking"
          /\ attempt'.no = attempt.no /\ clicked' = clicked
      BY <2>0, <2>3 DEF RequestApproval
    <3> QED BY <1>1, <2>0, <3>1 DEF RunStands
  <2>4. CASE StopAgent \/ GiveUpAsking \/ EndAttempt \/ CancelAtJobTimeout
    <3>1. /\ attempt'.at = "idle" \/ (attempt'.at = "rejected" /\ attempt.at = "asking")
          /\ attempt'.no = attempt.no /\ clicked' = clicked
      BY <2>0, <2>4 DEF StopAgent, GiveUpAsking, EndAttempt, CancelAtJobTimeout, Goes
    <3> QED BY <1>1, <2>0, <3>1 DEF RunStands
  <2> QED BY <2>1, <2>2, <2>3, <2>4
<1> QED BY <1>1, <1>2, <1>3, <1>4, RunGoesOn

(* The owner answers: a new answer at the end of the list.                 *)
LEMMA PushAnswerInv ==
    ASSUME ConfirmInv, NEW w \in PromptTab, NEW r \in Response, PushAnswer(w, r)
    PROVE  ConfirmInv'
<1> DEFINE new == [id |-> given + 1, says |-> r, about |-> prompt[w]]
<1>0. ConfirmTyped /\ AnsweredOnce /\ RunStands
  BY DEF ConfirmInv
<1>1. /\ given' = given + 1 /\ answers' = Append(answers, new)
      /\ UNCHANGED <<attempt, answer, clicked>>
      /\ new \in AnswerRecord /\ new.id = given + 1
      /\ prompt' \in [PromptTab -> Nat]
  BY <1>0 DEF PushAnswer, ConfirmTyped, AnswerRecord
<1> HIDE DEF new
<1>2. /\ answers' \in Seq(AnswerRecord) /\ Len(answers') = Len(answers) + 1
      /\ answers'[Len(answers) + 1] = new
      /\ \A i \in 1..Len(answers) : answers'[i] = answers[i]
  BY <1>0, <1>1 DEF ConfirmTyped
<1>3. ConfirmTyped' /\ RunStands'
  BY <1>0, <1>1, <1>2 DEF ConfirmTyped, RunStands
<1>4. /\ given \in Nat /\ Len(answers) \in Nat
      /\ \A n \in RunNo : answer[n].id \in Nat
      /\ \A i \in 1..Len(answers) : answers[i].id \in Nat
  <2>1. /\ given \in Nat /\ Len(answers) \in Nat
        /\ \A i \in 1..Len(answers) : answers[i] \in AnswerRecord
    BY <1>0 DEF ConfirmTyped
  <2>2. \A n \in RunNo : answer[n] \in AnswerRecord \/ answer[n] = NoAnswer
    BY <1>0 DEF ConfirmTyped
  <2>3. NoAnswer.id = 0 /\ \A x \in AnswerRecord : x.id \in Nat
    BY DEF NoAnswer, AnswerRecord
  <2> QED BY <2>1, <2>2, <2>3
<1>5. ASSUME NEW i \in 1..Len(answers')
      PROVE  /\ answers'[i].id <= given'
             /\ \A j \in 1..Len(answers') : i # j => answers'[i].id # answers'[j].id
             /\ \A n \in RunNo : answers'[i].id # answer'[n].id
  <2>1. CASE i = Len(answers) + 1
    BY <1>0, <1>1, <1>2, <1>4, <2>1 DEF AnsweredOnce
  <2>2. CASE i # Len(answers) + 1
    <3>1. i \in 1..Len(answers)
      BY <1>2, <1>4, <2>2
    <3>2. answers'[i].id = answers[i].id /\ answers[i].id <= given
      BY <1>0, <1>2, <3>1 DEF AnsweredOnce
    <3>3. ASSUME NEW j \in 1..Len(answers'), i # j
          PROVE  answers'[i].id # answers'[j].id
      <4>1. CASE j = Len(answers) + 1
        BY <1>1, <1>2, <1>4, <3>1, <3>2, <4>1
      <4>2. CASE j # Len(answers) + 1
        <5>1. j \in 1..Len(answers)
          BY <1>2, <1>4, <4>2
        <5> QED BY <1>0, <1>2, <3>1, <3>3, <5>1 DEF AnsweredOnce
      <4> QED BY <4>1, <4>2
    <3> QED BY <1>0, <1>1, <1>4, <3>1, <3>2, <3>3 DEF AnsweredOnce
  <2> QED BY <2>1, <2>2
<1>6. AnsweredOnce'
  BY <1>0, <1>1, <1>4, <1>5 DEF AnsweredOnce
<1> QED BY <1>3, <1>6 DEF ConfirmInv

(* The run takes the oldest answer.                                        *)
LEMMA TakeAnswerInv ==
    ASSUME ConfirmInv, TakeAnswer
    PROVE  ConfirmInv'
<1> DEFINE first == Head(answers)
           no == attempt.no
<1>0. ConfirmTyped /\ AnsweredOnce /\ RunStands
  BY DEF ConfirmInv
<1>1. /\ answers # <<>> /\ answers' = Tail(answers)
      /\ answer' = [answer EXCEPT ![no] = first]
      /\ UNCHANGED <<given, prompt, clicked>>
      /\ attempt.at = "asking" /\ attempt'.no = no
      /\ attempt'.at = IF first.says = "approved" THEN "approved" ELSE "rejected"
      /\ attempt' \in [no : Nat, at : AttemptAt, timed : BOOLEAN, left : Int]
  BY <1>0 DEF TakeAnswer, Goes, Pop, ConfirmTyped, AttemptAt
<1>2. /\ first = answers[1] /\ first \in AnswerRecord
      /\ answers' \in Seq(AnswerRecord) /\ Len(answers') = Len(answers) - 1
      /\ Len(answers) \in Nat /\ Len(answers) >= 1
      /\ \A i \in 1..Len(answers') : answers'[i] = answers[i + 1]
  BY <1>0, <1>1 DEF ConfirmTyped
<1>3. /\ no \in RunNo /\ no \notin clicked
  BY <1>0, <1>1 DEF RunStands
<1> HIDE DEF first, no
<1>4. /\ answer'[no] = first /\ \A n \in RunNo \ {no} : answer'[n] = answer[n]
      /\ answer' \in [RunNo -> AnswerRecord \cup {NoAnswer}]
  BY <1>0, <1>1, <1>2, <1>3 DEF ConfirmTyped
<1>5. ConfirmTyped'
  BY <1>0, <1>1, <1>2, <1>4 DEF ConfirmTyped
<1>6. RunStands'
  BY <1>0, <1>1, <1>3, <1>4 DEF RunStands, no
<1>7. /\ first.id <= given
      /\ \A i \in 2..Len(answers) : answers[i].id # first.id
      /\ \A n \in RunNo : answer[n].id # first.id
  <2>1. 1 \in 1..Len(answers)
    BY <1>2
  <2>2. \A i \in 2..Len(answers) : i \in 1..Len(answers) /\ i # 1
    BY <1>2
  <2> QED BY <1>0, <1>2, <2>1, <2>2 DEF AnsweredOnce
<1>8. ASSUME NEW i \in 1..Len(answers')
      PROVE  /\ answers'[i].id <= given'
             /\ \A j \in 1..Len(answers') : i # j => answers'[i].id # answers'[j].id
             /\ \A n \in RunNo : answers'[i].id # answer'[n].id
  <2>1. /\ i + 1 \in 2..Len(answers) /\ i + 1 \in 1..Len(answers)
        /\ \A j \in 1..Len(answers') : /\ j + 1 \in 1..Len(answers)
                                       /\ i # j => i + 1 # j + 1
    BY <1>2
  <2>2. answers'[i] = answers[i + 1]
    BY <1>2
  <2>3. \A j \in 1..Len(answers') : i # j => answers'[i].id # answers'[j].id
    BY <1>0, <1>2, <2>1, <2>2 DEF AnsweredOnce
  <2>4. \A n \in RunNo : answers'[i].id # answer'[n].id
    BY <1>0, <1>4, <1>7, <2>1, <2>2 DEF AnsweredOnce
  <2> QED BY <1>0, <1>1, <2>1, <2>2, <2>3, <2>4 DEF AnsweredOnce
<1>9. AnsweredOnce'
  <2>1. \A n \in RunNo : answer'[n].id <= given'
    BY <1>0, <1>1, <1>4, <1>7 DEF AnsweredOnce
  <2>2. \A m, n \in RunNo : m # n /\ answer'[m].id = answer'[n].id => answer'[m].id = 0
    BY <1>0, <1>4, <1>7 DEF AnsweredOnce
  <2> QED BY <1>8, <2>1, <2>2 DEF AnsweredOnce
<1> QED BY <1>5, <1>6, <1>9 DEF ConfirmInv

(* Time passes: the list may be gone.                                      *)
LEMMA FiveMinutesInv ==
    ASSUME ConfirmInv, FiveMinutes
    PROVE  ConfirmInv'
<1>0. ConfirmTyped /\ AnsweredOnce /\ RunStands
  BY DEF ConfirmInv
<1>1. /\ attempt' \in [no : Nat, at : AttemptAt, timed : BOOLEAN, left : Int]
      /\ attempt'.no = attempt.no /\ attempt'.at = attempt.at
      /\ answers' = answers \/ answers' = <<>>
      /\ UNCHANGED <<prompt, given, answer, clicked>>
  BY <1>0 DEF FiveMinutes, ConfirmTyped
<1>2. answers' \in Seq(AnswerRecord)
  <2>1. answers \in Seq(AnswerRecord) /\ <<>> \in Seq(AnswerRecord)
    BY <1>0 DEF ConfirmTyped
  <2> QED BY <1>1, <2>1
<1>3. ConfirmTyped' /\ RunStands'
  BY <1>0, <1>1, <1>2 DEF ConfirmTyped, RunStands
<1>4. AnsweredOnce'
  BY <1>0, <1>1 DEF AnsweredOnce
<1> QED BY <1>3, <1>4 DEF ConfirmInv

LEMMA ConfirmStepInv == ConfirmInv /\ [ConfirmNext]_confirmVars => ConfirmInv'
<1> SUFFICES ASSUME ConfirmInv, [ConfirmNext]_confirmVars PROVE ConfirmInv'
  OBVIOUS
<1>1. CASE UNCHANGED confirmVars
  BY <1>1 DEF confirmVars, ConfirmInv, ConfirmTyped, AnsweredOnce, RunStands
<1>2. CASE ExpireAnswers \/ DeliveryFails
  BY <1>2 DEF ExpireAnswers, DeliveryFails, ConfirmInv, ConfirmTyped, AnsweredOnce,
              RunStands
<1>3. ASSUME NEW w \in PromptTab, Dismiss(w) PROVE ConfirmInv'
  BY <1>3 DEF Dismiss, ConfirmInv, ConfirmTyped, AnsweredOnce, RunStands
<1> QED BY <1>1, <1>2, <1>3, RunStepInv, PushAnswerInv, TakeAnswerInv, FiveMinutesInv
        DEF ConfirmNext, RunProceeds

(* However many windows answer, whenever their answers arrive and however  *)
(* often the application is run, a run clicks Submit only with an approval *)
(* and no two runs click with the same one (confirmation.py:112-172,       *)
(* intervention.py:45-63).                                                 *)
THEOREM OneClickEach == ConfirmSafety => []OneClickPerApproval
<1>1. ConfirmInv => OneClickPerApproval
  BY DEF ConfirmInv, ConfirmTyped, AnsweredOnce, RunStands, OneClickPerApproval,
         AnswerRecord, NoAnswer
<1> QED BY <1>1, ConfirmInitInv, ConfirmStepInv, PTL DEF ConfirmSafety

-----------------------------------------------------------------------------
AnswerTo == {"none", "ok", "empty", "throttled", "failed", "spent"}

(* What a call holds; which keys it has left does not matter.              *)
AnswersKnown ==
    /\ DOMAIN calls = Call
    /\ \A c \in Call : DOMAIN calls[c] = {"left", "answer"} /\ calls[c].answer \in AnswerTo

CountersTyped ==
    /\ park \in [Pool -> 0..LongPark]
    /\ refused \in [Pool -> 0..LongAgo]
    /\ outrun \in [Pool -> BOOLEAN]

(* The long cooldown and the time since the refusal run at the same pace.  *)
RestLasts(k) ==
    refused[k] < LongPark => park[k] >= LongPark - refused[k] \/ outrun[k]

KeyRingInv == AnswersKnown /\ CountersTyped /\ \A k \in Pool : RestLasts(k)

LEMMA KeyRingInitInv == KeyRingInit => KeyRingInv
  BY KeyRingAssumption
     DEF KeyRingInit, KeyRingInv, AnswersKnown, CountersTyped, RestLasts, NoCall,
         AnswerTo, LongAgo

(* An answer that reaches the pool.                                        *)
LEMMA ResumeInv ==
    ASSUME KeyRingInv, NEW c \in Call, Resume(c)
    PROVE  KeyRingInv'
<1> DEFINE k == OfCall(c)
           a == calls[c].answer
<1>1. a \in AnswerTo \ {"none"}
  BY DEF KeyRingInv, AnswersKnown, Resume
<1>2. a # "failed" => ParkFor(a) \in 0..LongPark
  BY <1>1, KeyRingAssumption DEF ParkFor, Success, AnswerTo
<1>3. AnswersKnown'
  BY DEF Resume, KeyRingInv, AnswersKnown, NoCall, AnswerTo
<1>4. /\ park' = IF a = "failed" THEN park ELSE [park EXCEPT ![k] = ParkFor(a)]
      /\ refused' = IF a = "spent" THEN [refused EXCEPT ![k] = 0] ELSE refused
      /\ outrun' = [outrun EXCEPT ![k] = a # "spent" /\ (outrun[k] \/ Outdated(c))]
  BY DEF Resume, KeyRingInv, CountersTyped
<1>5. CountersTyped'
  <2>0. /\ park \in [Pool -> 0..LongPark] /\ refused \in [Pool -> 0..LongAgo]
        /\ 0 \in 0..LongAgo
    BY KeyRingAssumption DEF KeyRingInv, CountersTyped, LongAgo
  <2>1. park' \in [Pool -> 0..LongPark] /\ refused' \in [Pool -> 0..LongAgo]
    <3> HIDE DEF a, k
    <3>1. park' \in [Pool -> 0..LongPark]
      BY <1>2, <1>4, <2>0
    <3>2. refused' \in [Pool -> 0..LongAgo]
      BY <1>4, <2>0
    <3> QED BY <3>1, <3>2
  <2>2. (a # "spent" /\ (outrun[k] \/ Outdated(c))) \in BOOLEAN
    OBVIOUS
  <2>3. outrun' \in [Pool -> BOOLEAN]
    BY <1>4, <2>2, Zenon DEF KeyRingInv, CountersTyped
  <2> QED BY <2>1, <2>3 DEF CountersTyped
<1>6. ASSUME NEW j \in Pool PROVE RestLasts(j)'
  <2>1. CASE j # k
    BY <1>4, <2>1 DEF KeyRingInv, CountersTyped, RestLasts
  <2>2. CASE j = k /\ a = "spent"
    BY <1>4, <2>2, KeyRingAssumption
       DEF KeyRingInv, CountersTyped, RestLasts, ParkFor
  <2>3. CASE j = k /\ a = "failed"
    <3>1. park'[j] = park[j] /\ refused'[j] = refused[j]
      BY <1>4, <2>3
    <3>2. outrun[j] => outrun'[j]
      BY <1>4, <2>3 DEF KeyRingInv, CountersTyped
    <3> QED BY <3>1, <3>2 DEF KeyRingInv, RestLasts
  <2>4. CASE j = k /\ a \in Success \cup {"throttled"}
    <3>1. refused'[j] = refused[j]
      BY <1>4, <2>4 DEF Success
    <3>2. refused[j] < LongPark => Outdated(c)
      BY <2>4, KeyRingAssumption DEF Outdated, Success, LongAgo, KeyRingInv, CountersTyped
    <3>3. Outdated(c) => outrun'[j]
      BY <1>4, <2>4 DEF Success, KeyRingInv, CountersTyped
    <3> QED BY <3>1, <3>2, <3>3 DEF RestLasts
  <2> QED BY <1>1, <2>1, <2>2, <2>3, <2>4 DEF AnswerTo, Success
<1> QED BY <1>3, <1>5, <1>6 DEF KeyRingInv

LEMMA KeyRingStepInv == KeyRingInv /\ [KeyRingNext]_keyRingVars => KeyRingInv'
<1> SUFFICES ASSUME KeyRingInv, [KeyRingNext]_keyRingVars PROVE KeyRingInv'
  OBVIOUS
<1>1. CASE UNCHANGED keyRingVars
  BY <1>1 DEF keyRingVars, KeyRingInv, AnswersKnown, CountersTyped, RestLasts
<1>2. ASSUME NEW c \in Call, BeginCall(c) PROVE KeyRingInv'
  BY <1>2 DEF BeginCall, KeyRingInv, AnswersKnown, CountersTyped, RestLasts, NoCall,
              AnswerTo
<1>3. ASSUME NEW c \in Call, Respond(c) PROVE KeyRingInv'
  <2>1. PICK a \in AnswerTo : calls' = [calls EXCEPT ![c].answer = a]
    BY <1>3 DEF Respond, AnswerTo
  <2>2. AnswersKnown'
    BY <2>1 DEF KeyRingInv, AnswersKnown
  <2> QED BY <1>3, <2>2 DEF Respond, KeyRingInv, CountersTyped, RestLasts
<1>4. ASSUME NEW k \in Pool, RunOut(k) \/ TopUp(k) PROVE KeyRingInv'
  BY <1>4 DEF RunOut, TopUp, KeyRingInv, AnswersKnown, CountersTyped, RestLasts
<1>5. CASE RingTick
  BY <1>5, KeyRingAssumption
     DEF RingTick, Elapse, LongAgo, KeyRingInv, AnswersKnown, CountersTyped, RestLasts
<1> QED BY <1>1, <1>2, <1>3, <1>4, <1>5, ResumeInv DEF KeyRingNext

(* However the calls in flight overlap and whatever they report, a key     *)
(* reported spent stays parked for the long cooldown, unless an answer     *)
(* from before the refusal reaches the pool after it (keyring.py:115-150). *)
THEOREM SpentRests == KeyRingSafety => []SpentKeyRests
<1>1. KeyRingInv => SpentKeyRests
  BY KeyRingAssumption
     DEF KeyRingInv, CountersTyped, RestLasts, SpentKeyRests, LongAgo
<1> QED BY <1>1, KeyRingInitInv, KeyRingStepInv, PTL DEF KeyRingSafety

-----------------------------------------------------------------------------
(* Signing in.  A request that no host has claimed keeps an ask in reserve *)
(* for its window, and nothing but the commit of a request puts a row back *)
(* among the unclaimed.                                                    *)
StoredRow == [id : Nat, state : SessionState, stored : BOOLEAN, valid : BOOLEAN, age : Int]
TabOp     == {"idle", "request", "settle", "expire", "forget", "import"}

ConnectTyped ==
    /\ session \in [Portal -> StoredRow]
    /\ tab \in [WebTab -> [op : TabOp, portal : Portal \cup {NoPortal},
                           snap : StoredRow, to : SessionState]]
    /\ rows \in Nat
    /\ asked \in [Portal -> Nat] /\ opened \in [Portal -> Nat]

WindowKept(p) ==
    /\ opened[p] <= asked[p]
    /\ session[p].state = "interactive_available" /\ session[p].id # 0 =>
         opened[p] + 1 <= asked[p]

ConnectInv ==
    /\ ConnectTyped
    /\ \A t \in WebTab : tab[t].op = "settle" =>
         tab[t].to \in {"auth_required", "not_connected"}
    /\ \A p \in Portal : WindowKept(p)

LEMMA SetState ==
    ASSUME NEW r \in StoredRow, NEW x \in SessionState
    PROVE  /\ [r EXCEPT !.state = x] \in StoredRow
           /\ [r EXCEPT !.state = x].state = x /\ [r EXCEPT !.state = x].id = r.id
BY DEF StoredRow
LEMMA SetAge ==
    ASSUME NEW r \in StoredRow, NEW n \in Int
    PROVE  /\ [r EXCEPT !.age = n] \in StoredRow
           /\ [r EXCEPT !.age = n].state = r.state /\ [r EXCEPT !.age = n].id = r.id
BY DEF StoredRow
LEMMA SetBoth ==
    ASSUME NEW r \in StoredRow, NEW x \in SessionState
    PROVE  /\ [r EXCEPT !.state = x, !.age = 0] \in StoredRow
           /\ [r EXCEPT !.state = x, !.age = 0].state = x
<1> DEFINE s == [r EXCEPT !.state = x]
<1>1. s \in StoredRow /\ s.state = x
  BY SetState
<1>2. [r EXCEPT !.state = x, !.age = 0] = [s EXCEPT !.age = 0]
  OBVIOUS
<1> HIDE DEF s
<1>3. [s EXCEPT !.age = 0] \in StoredRow /\ [s EXCEPT !.age = 0].state = x
  BY <1>1, SetAge
<1> QED BY <1>2, <1>3
LEMMA FreshRow ==
    ASSUME NEW n \in Nat
    PROVE  [NoRow EXCEPT !.id = n, !.state = "interactive_available"] \in StoredRow
<1> DEFINE s == [NoRow EXCEPT !.id = n]
<1>1. NoRow \in StoredRow
  BY DEF NoRow, StoredRow, SessionState
<1>2. s \in StoredRow
  BY <1>1 DEF StoredRow
<1>3. [NoRow EXCEPT !.id = n, !.state = "interactive_available"]
      = [s EXCEPT !.state = "interactive_available"]
  OBVIOUS
<1> HIDE DEF s
<1>4. "interactive_available" \in SessionState
  BY DEF SessionState
<1> QED BY <1>2, <1>3, <1>4, SetState

LEMMA PutRow ==
    ASSUME session \in [Portal -> StoredRow], NEW q, NEW r,
           q \in Portal => r \in StoredRow, session' = [session EXCEPT ![q] = r]
    PROVE  /\ session' \in [Portal -> StoredRow]
           /\ \A p \in Portal : session'[p] = IF p = q THEN r ELSE session[p]
OBVIOUS

LEMMA ConnectInitInv == ConnectInit => ConnectInv
<1> SUFFICES ASSUME ConnectInit PROVE ConnectInv
  OBVIOUS
<1>1. NoRow \in StoredRow /\ NoRow.id = 0
  BY DEF NoRow, StoredRow, SessionState
<1>2. IdleTab \in [op : TabOp, portal : Portal \cup {NoPortal}, snap : StoredRow,
                   to : SessionState] /\ IdleTab.op = "idle"
  BY <1>1 DEF IdleTab, TabOp, SessionState
<1> QED BY <1>1, <1>2 DEF ConnectInit, ConnectInv, ConnectTyped, WindowKept

(* A step that queues nothing and opens nothing.                           *)
LEMMA QuietConnect ==
    ASSUME ConnectInv, session' \in [Portal -> StoredRow], tab' = tab, rows' \in Nat,
           UNCHANGED <<asked, opened>>,
           \A p \in Portal :
             /\ session'[p].state = "interactive_available" /\ session'[p].id # 0
             => session[p].state = "interactive_available" /\ session[p].id # 0
    PROVE  ConnectInv'
BY DEF ConnectInv, ConnectTyped, WindowKept

LEMMA AsReadType ==
    ASSUME NEW r \in StoredRow PROVE AsRead(r) \in StoredRow
BY DEF AsRead, StoredRow

(* A request of the web app reads a row, and a later step ends it.         *)
LEMMA GotoInv ==
    ASSUME ConnectInv, NEW t \in WebTab, NEW p \in Portal, NEW op \in TabOp,
           NEW to \in SessionState, Goto(t, op, p, to), UNCHANGED <<session, rows, asked, opened>>,
           op = "settle" => to \in {"auth_required", "not_connected"}
    PROVE  ConnectInv'
<1> DEFINE new == [op |-> op, portal |-> p, snap |-> AsRead(session[p]), to |-> to]
<1>1. /\ new \in [op : TabOp, portal : Portal \cup {NoPortal}, snap : StoredRow,
                  to : SessionState]
      /\ new.op = op /\ new.to = to
  BY AsReadType DEF ConnectInv, ConnectTyped
<1>2. tab' = [tab EXCEPT ![t] = new]
  BY DEF Goto
<1> HIDE DEF new
<1>3. /\ tab' \in [WebTab -> [op : TabOp, portal : Portal \cup {NoPortal}, snap : StoredRow,
                              to : SessionState]]
      /\ tab'[t] = new /\ \A u \in WebTab \ {t} : tab'[u] = tab[u]
  BY <1>1, <1>2 DEF ConnectInv, ConnectTyped
<1> QED BY <1>1, <1>3 DEF ConnectInv, ConnectTyped, WindowKept

LEMMA DoneInv ==
    ASSUME ConnectInv, NEW t \in WebTab, Done(t), session' \in [Portal -> StoredRow],
           rows' \in Nat, asked' \in [Portal -> Nat], UNCHANGED opened,
           \A p \in Portal : WindowKept(p)'
    PROVE  ConnectInv'
<1>1. IdleTab \in [op : TabOp, portal : Portal \cup {NoPortal}, snap : StoredRow,
                   to : SessionState] /\ IdleTab.op = "idle"
  BY DEF IdleTab, NoRow, StoredRow, TabOp, SessionState
<1> QED BY <1>1 DEF Done, ConnectInv, ConnectTyped

(* The three ways a row is written without queueing it.                    *)
UsableKeptOn(p) ==
    session'[p].state = "interactive_available" /\ session'[p].id # 0
    => session[p].state = "interactive_available" /\ session[p].id # 0

LEMMA WriteQuiet ==
    ASSUME ConnectInv, NEW q, NEW snap, NEW state \in SessionState,
           state # "interactive_available", WriteState(q, snap, state)
    PROVE  session' \in [Portal -> StoredRow] /\ \A p \in Portal : UsableKeptOn(p)
<1> DEFINE new == [session[q] EXCEPT !.state = state, !.age = 0]
<1>1. session \in [Portal -> StoredRow]
  BY DEF ConnectInv, ConnectTyped
<1>2. \/ session' = session
      \/ session' = [session EXCEPT ![q] = new]
  BY DEF WriteState
<1>3. q \in Portal => new \in StoredRow /\ new.state = state
  BY <1>1, SetBoth
<1> HIDE DEF new
<1>4. CASE session' = session
  BY <1>1, <1>4 DEF UsableKeptOn
<1>5. CASE session' = [session EXCEPT ![q] = new]
  BY <1>1, <1>3, <1>5, PutRow DEF UsableKeptOn
<1> QED BY <1>2, <1>4, <1>5

LEMMA UpsertQuiet ==
    ASSUME ConnectInv, NEW q, UpsertRow(q)
    PROVE  /\ session' \in [Portal -> StoredRow] /\ rows' \in Nat
           /\ \A p \in Portal : UsableKeptOn(p)
<1> DEFINE n   == IF Exists(session[q]) THEN session[q].id ELSE rows'
           new == [id |-> n, state |-> "session_active", stored |-> TRUE,
                   valid |-> TRUE, age |-> 0]
<1>1. session \in [Portal -> StoredRow] /\ rows' \in Nat
  BY DEF UpsertRow, ConnectInv, ConnectTyped
<1>2. session' = [session EXCEPT ![q] = new]
  BY DEF UpsertRow
<1>3. q \in Portal => n \in Nat
  BY <1>1 DEF StoredRow
<1> HIDE DEF n
<1>4. new.state = "session_active" /\ (q \in Portal => new \in StoredRow)
  BY <1>3 DEF StoredRow, SessionState
<1> HIDE DEF new
<1> QED BY <1>1, <1>2, <1>4, PutRow DEF UsableKeptOn

LEMMA CommitRequestInv ==
    ASSUME ConnectInv, NEW t \in WebTab, CommitRequest(t)
    PROVE  ConnectInv'
<1> DEFINE p == tab[t].portal
           fresh == [NoRow EXCEPT !.id = rows', !.state = "interactive_available"]
           again == [session[p] EXCEPT !.state = "interactive_available", !.age = 0]
<1>1. session \in [Portal -> StoredRow] /\ rows' \in Nat
  BY DEF CommitRequest, ConnectInv, ConnectTyped
<1>2. fresh \in StoredRow
  BY <1>1, FreshRow
<1>3. p \in Portal => again \in StoredRow
  <2>1. "interactive_available" \in SessionState
    BY DEF SessionState
  <2> QED BY <1>1, <2>1, SetBoth
<1>4. \/ UNCHANGED <<session, asked>>
      \/ /\ session' = [session EXCEPT ![p] = fresh] \/ session' = [session EXCEPT ![p] = again]
         /\ asked' = [asked EXCEPT ![p] = asked[p] + 1]
  BY DEF CommitRequest
<1>5. UNCHANGED opened /\ Done(t)
  BY DEF CommitRequest
<1>6. CASE UNCHANGED <<session, asked>>
  BY <1>1, <1>5, <1>6, DoneInv DEF ConnectInv, ConnectTyped, WindowKept
<1> HIDE DEF fresh, again
<1>7. CASE ~UNCHANGED <<session, asked>>
  <2>1. PICK r : session' = [session EXCEPT ![p] = r] /\ (p \in Portal => r \in StoredRow)
    BY <1>2, <1>3, <1>4, <1>7
  <2>2. /\ session' \in [Portal -> StoredRow]
        /\ \A q \in Portal \ {p} : session'[q] = session[q]
    BY <1>1, <2>1, PutRow
  <2>3. /\ asked' \in [Portal -> Nat]
        /\ \A q \in Portal : asked'[q] = IF q = p THEN asked[q] + 1 ELSE asked[q]
    BY <1>4, <1>7 DEF ConnectInv, ConnectTyped
  <2>4. \A q \in Portal : WindowKept(q)'
    BY <1>5, <2>2, <2>3 DEF ConnectInv, ConnectTyped, WindowKept
  <2> QED BY <1>1, <1>5, <2>2, <2>3, <2>4, DoneInv
<1> QED BY <1>6, <1>7

LEMMA CommitInv ==
    ASSUME ConnectInv, NEW t \in WebTab, Commit(t)
    PROVE  ConnectInv'
<1>1. ASSUME Done(t), session' \in [Portal -> StoredRow], rows' \in Nat,
             UNCHANGED <<asked, opened>>, \A p \in Portal : UsableKeptOn(p)
      PROVE  ConnectInv'
  <2>1. \A p \in Portal : WindowKept(p)'
    BY <1>1 DEF UsableKeptOn, ConnectInv, WindowKept
  <2> QED BY <1>1, <2>1, DoneInv DEF ConnectInv, ConnectTyped
<1>2. rows \in Nat
  BY DEF ConnectInv, ConnectTyped
<1>3. CASE CommitRequest(t)
  BY <1>3, CommitRequestInv
<1>4. CASE CommitSettle(t)
  <2>1. SettleTo(tab[t].snap, tab[t].to)
          \in {"session_active", "auth_required", "not_connected"}
    BY <1>4 DEF CommitSettle, SettleTo, ConnectInv
  <2>2. /\ WriteState(tab[t].portal, tab[t].snap, SettleTo(tab[t].snap, tab[t].to))
        /\ Done(t) /\ UNCHANGED <<rows, asked, opened>>
    BY <1>4 DEF CommitSettle
  <2>3. {"session_active", "auth_required", "not_connected"} \subseteq
          SessionState \ {"interactive_available"}
    BY DEF SessionState
  <2> QED BY <1>1, <1>2, <2>1, <2>2, <2>3, WriteQuiet
<1>5. CASE CommitExpired(t)
  <2>1. "session_expired" \in SessionState
    BY DEF SessionState
  <2> QED BY <1>1, <1>2, <1>5, <2>1, WriteQuiet DEF CommitExpired, ghosts
<1>6. CASE CommitDisconnect(t)
  <2>1. NoRow \in StoredRow /\ NoRow.id = 0
    BY DEF NoRow, StoredRow, SessionState
  <2>2. session' = [session EXCEPT ![tab[t].portal] = NoRow]
    BY <1>6 DEF CommitDisconnect
  <2>3. session' \in [Portal -> StoredRow] /\ \A p \in Portal : UsableKeptOn(p)
    BY <2>1, <2>2 DEF UsableKeptOn, ConnectInv, ConnectTyped
  <2> QED BY <1>1, <1>2, <1>6, <2>3 DEF CommitDisconnect
<1>7. CASE CommitImport(t)
  BY <1>1, <1>7, UpsertQuiet DEF CommitImport
<1> QED BY <1>3, <1>4, <1>5, <1>6, <1>7 DEF Commit

LEMMA DriveInv ==
    ASSUME ConnectInv, NEW h \in Host, Drive(h)
    PROVE  ConnectInv'
<1>1. UNCHANGED <<tab, asked, opened>>
  BY DEF Drive, OpenWindow, SignIn, GiveUp, AttemptFails, PersistCookies, PersistRow,
         Watch, Finish, SettleConnect, ghosts
<1>2. rows \in Nat /\ session \in [Portal -> StoredRow]
  BY DEF ConnectInv, ConnectTyped
<1>3. ASSUME session' \in [Portal -> StoredRow], rows' \in Nat, \A p \in Portal : UsableKeptOn(p)
      PROVE  ConnectInv'
  BY <1>1, <1>3, QuietConnect DEF UsableKeptOn
<1>4. CASE UNCHANGED <<rows, session>>
  BY <1>2, <1>3, <1>4 DEF UsableKeptOn
<1>5. CASE PersistRow(h)
  BY <1>3, <1>5, UpsertQuiet DEF PersistRow
<1>6. CASE Watch(h)
  <2> DEFINE new == [session[host[h].portal] EXCEPT !.age = 0]
  <2>1. host[h].portal \in Portal =>
          /\ new \in StoredRow /\ new.id = session[host[h].portal].id
          /\ new.state = session[host[h].portal].state
    BY <1>2, SetAge
  <2>2. session' = session \/ session' = [session EXCEPT ![host[h].portal] = new]
    BY <1>6 DEF Watch
  <2> HIDE DEF new
  <2>3. session' \in [Portal -> StoredRow] /\ \A p \in Portal : UsableKeptOn(p)
    BY <1>2, <2>1, <2>2, PutRow DEF UsableKeptOn
  <2> QED BY <1>2, <1>3, <1>6, <2>3 DEF Watch
<1>7. CASE SettleConnect(h)
  <2> DEFINE to == IF host[h].attempt = "cancelled" THEN "not_connected" ELSE "auth_required"
  <2>1. SettleTo(host[h].snap, to) \in {"session_active", "auth_required", "not_connected"}
    BY DEF SettleTo
  <2>2. WriteState(host[h].portal, host[h].snap, SettleTo(host[h].snap, to))
    BY <1>7 DEF SettleConnect
  <2>3. {"session_active", "auth_required", "not_connected"} \subseteq
          SessionState \ {"interactive_available"}
    BY DEF SessionState
  <2> QED BY <1>2, <1>3, <1>7, <2>1, <2>2, <2>3, WriteQuiet DEF SettleConnect
<1> QED
  BY <1>4, <1>5, <1>6, <1>7
     DEF Drive, OpenWindow, SignIn, GiveUp, AttemptFails, PersistCookies, Finish

LEMMA ClaimInv ==
    ASSUME ConnectInv, NEW h \in Host, NEW p \in Portal, Claim(h, p)
    PROVE  ConnectInv'
<1> DEFINE r == [session[p] EXCEPT !.state = "human_verification_required", !.age = 0]
<1>1. /\ session[p] \in StoredRow /\ session[p].id # 0
      /\ session[p].state = "interactive_available"
      /\ session' = [session EXCEPT ![p] = r]
      /\ opened' = [opened EXCEPT ![p] = @ + 1]
      /\ UNCHANGED <<rows, tab, asked>>
  BY DEF Claim, IsUnclaimed, Exists, ConnectInv, ConnectTyped
<1>2. r \in StoredRow /\ r.state = "human_verification_required"
  <2>1. "human_verification_required" \in SessionState
    BY DEF SessionState
  <2> QED BY <1>1, <2>1, SetBoth
<1> HIDE DEF r
<1>3. /\ session' \in [Portal -> StoredRow]
      /\ session'[p].state = "human_verification_required"
      /\ opened' \in [Portal -> Nat] /\ opened'[p] = opened[p] + 1
      /\ \A q \in Portal \ {p} : session'[q] = session[q] /\ opened'[q] = opened[q]
  BY <1>1, <1>2 DEF ConnectInv, ConnectTyped
<1>4. \A q \in Portal : WindowKept(q)'
  BY <1>1, <1>3 DEF ConnectInv, ConnectTyped, WindowKept
<1> QED BY <1>1, <1>3, <1>4 DEF ConnectInv, ConnectTyped

LEMMA ConnectStepInv == ConnectInv /\ [ConnectNext]_connectVars => ConnectInv'
<1> SUFFICES ASSUME ConnectInv, [ConnectNext]_connectVars PROVE ConnectInv'
  OBVIOUS
<1>1. ASSUME UNCHANGED <<session, tab, rows, asked, opened>>
      PROVE  ConnectInv'
  BY <1>1 DEF ConnectInv, ConnectTyped, WindowKept
<1>2. CASE UNCHANGED connectVars
  BY <1>1, <1>2 DEF connectVars
<1>3. ASSUME NEW t \in WebTab, NEW p \in Portal,
             \/ AskToConnect(t, p) \/ ExpireIfStranded(t, p) \/ CancelConnect(t, p)
             \/ CheckBeforeApply(t, p) \/ Disconnect(t, p) \/ ImportSession(t, p)
      PROVE  ConnectInv'
  <2>1. PICK op \in TabOp, to \in SessionState :
          /\ Goto(t, op, p, to)
          /\ op = "settle" => to \in {"auth_required", "not_connected"}
    BY <1>3 DEF AskToConnect, ExpireIfStranded, CancelConnect, CheckBeforeApply, Disconnect,
                ImportSession, TabOp, SessionState
  <2>2. UNCHANGED <<session, rows, asked, opened>>
    BY <1>3 DEF AskToConnect, ExpireIfStranded, CancelConnect, CheckBeforeApply, Disconnect,
                ImportSession, ghosts
  <2> QED BY <2>1, <2>2, GotoInv
<1>4. ASSUME NEW t \in WebTab, NEW h \in Host,
             CancelLocal(t, h) \/ \E p \in Portal : StartLocal(t, h, p)
      PROVE  ConnectInv'
  BY <1>1, <1>4 DEF CancelLocal, StartLocal
<1>5. ASSUME NEW h \in Host, HostDies(h)
      PROVE  ConnectInv'
  BY <1>1, <1>5 DEF HostDies, ghosts
<1>6. ASSUME \A p \in Portal : \/ session'[p] = session[p]
                               \/ session'[p] = [session[p] EXCEPT !.age = @ + 1]
                               \/ session'[p] = [session[p] EXCEPT !.valid = FALSE],
             session' = [p \in Portal |-> session'[p]],
             UNCHANGED <<tab, rows, asked, opened>>
      PROVE  ConnectInv'
  <2>1. ASSUME NEW p \in Portal
        PROVE  /\ session'[p] \in StoredRow
               /\ session'[p].state = session[p].state
               /\ session'[p].id = session[p].id
    <3>1. session[p] \in StoredRow /\ session[p].age + 1 \in Int
      BY DEF ConnectInv, ConnectTyped, StoredRow
    <3>2. CASE session'[p] = session[p]
      BY <3>1, <3>2
    <3>3. CASE session'[p] = [session[p] EXCEPT !.age = @ + 1]
      BY <3>1, <3>3, SetAge
    <3>4. CASE session'[p] = [session[p] EXCEPT !.valid = FALSE]
      BY <3>1, <3>4 DEF StoredRow
    <3> QED BY <1>6, <3>2, <3>3, <3>4
  <2>2. \A p \in Portal : /\ session'[p] \in StoredRow
                          /\ session'[p].state = session[p].state
                          /\ session'[p].id = session[p].id
    BY <2>1
  <2>3. session' \in [Portal -> StoredRow]
    BY <1>6, <2>2
  <2> QED BY <1>6, <2>2, <2>3, QuietConnect DEF ConnectInv, ConnectTyped
<1>7. CASE ClockTick
  <2>1. /\ session' = [p \in Portal |-> Aged(session[p])]
        /\ UNCHANGED <<tab, rows, asked, opened>>
    BY <1>7 DEF ClockTick, ghosts
  <2>2. \A p \in Portal : session'[p] = Aged(session[p])
    BY <2>1
  <2> QED BY <1>6, <2>1, <2>2 DEF Aged
<1>8. ASSUME NEW p \in Portal, CookiesExpire(p)
      PROVE  ConnectInv'
  <2>1. /\ session' = [session EXCEPT ![p] = [session[p] EXCEPT !.valid = FALSE]]
        /\ UNCHANGED <<tab, rows, asked, opened>>
    BY <1>8 DEF CookiesExpire, ghosts
  <2> QED BY <1>6, <2>1 DEF ConnectInv, ConnectTyped
<1> QED BY <1>2, <1>3, <1>4, <1>5, <1>7, <1>8, CommitInv, DriveInv, ClaimInv
        DEF ConnectNext

(* However many hosts poll the queue, and whatever is cancelled, stranded, *)
(* disconnected or imported meanwhile, a sign-in window opens at most once *)
(* for each time the owner queued one (claim_connect).                     *)
THEOREM WindowsAsAsked == ConnectSafety => []OneWindowPerRequest
<1>1. ConnectInv => OneWindowPerRequest
  BY DEF ConnectInv, WindowKept, OneWindowPerRequest
<1> QED BY <1>1, ConnectInitInv, ConnectStepInv, PTL DEF ConnectSafety

-----------------------------------------------------------------------------
(* Confirming.  A claim that is accepted while the token lives finds no    *)
(* other before it: until a token expires, the set that is asked knows     *)
(* whether it was claimed, and the TTL of a confirmation outlasts the      *)
(* token.  What is accepted later is counted as overdue, and each run of   *)
(* the action uses up an accepted confirmation of its own.                 *)
AssistantTyped ==
    /\ proposal \in [Proposal -> -1..TokenLife]
    /\ redisUp \in BOOLEAN /\ forgetful \in BOOLEAN
    /\ nonceKey \in [Proposal -> -1..(TokenLife + 1)]
    /\ localSpent \in [Instance -> SUBSET Proposal]
    /\ confirming \in [ConfirmCall -> ConfirmState]
    /\ confirms \in [Proposal -> 0..MaxConfirms]
    /\ overdue \in [Proposal -> Nat] /\ executed \in [Proposal -> Nat]
    /\ serving \subseteq Instance

Served == \A c \in ConfirmCall : confirming[c].at # "idle" => confirming[c].on \in serving

Alone == \A i, j \in serving : i = j

Remembered(p) == IF redisUp THEN nonceKey[p] >= proposal[p]
                 ELSE \A i \in serving : p \in localSpent[i]

Outlasting == \A c \in ConfirmCall, p \in Proposal :
                 AtStep(c, "verified", p) => confirming[c].ttl >= proposal[p]

RunsCounted == \A p \in Proposal : executed[p] + Cardinality(Claimed(p)) <= confirms[p]

InTime(p) ==
    /\ overdue[p] <= confirms[p] /\ confirms[p] <= overdue[p] + 1
    /\ Valid(p) => overdue[p] = 0 /\ (confirms[p] > 0 => Remembered(p))

AssistantInv ==
    /\ AssistantTyped /\ Served /\ Outlasting /\ RunsCounted
    /\ ~forgetful /\ (redisUp \/ Alone) => \A p \in Proposal : InTime(p)

LEMMA NotSeveral == AssistantTyped /\ ~Several => Alone
<1> SUFFICES ASSUME AssistantTyped, ~Several PROVE Alone
  OBVIOUS
<1>1. IsFiniteSet(serving)
  BY AssistantAssumption, FS_Subset DEF AssistantTyped
<1>2. Cardinality(serving) \in Nat /\ Cardinality(serving) <= 1
  BY <1>1, FS_CardinalityType DEF Several
<1>3. CASE Cardinality(serving) = 0
  BY <1>1, <1>3, FS_EmptySet DEF Alone
<1>4. CASE Cardinality(serving) = 1
  BY <1>1, <1>4, FS_Singleton DEF Alone
<1> QED BY <1>2, <1>3, <1>4

LEMMA ClaimedCount ==
    ASSUME NEW p
    PROVE  /\ IsFiniteSet(Claimed(p)) /\ Cardinality(Claimed(p)) \in Nat
           /\ \A T \in SUBSET Claimed(p) : Cardinality(T) \in Nat
                                           /\ Cardinality(T) <= Cardinality(Claimed(p))
<1>1. IsFiniteSet(Claimed(p))
  BY AssistantAssumption, FS_Subset DEF Claimed
<1> QED BY <1>1, FS_Subset, FS_CardinalityType

LEMMA AssistantInitInv == AssistantInit => AssistantInv
<1> SUFFICES ASSUME AssistantInit PROVE AssistantInv
  OBVIOUS
<1>1. AssistantTyped
  <2>1. /\ proposal \in [Proposal -> -1..TokenLife]
        /\ nonceKey \in [Proposal -> -1..(TokenLife + 1)]
        /\ confirms \in [Proposal -> 0..MaxConfirms]
        /\ overdue \in [Proposal -> Nat] /\ executed \in [Proposal -> Nat]
    BY AssistantAssumption DEF AssistantInit
  <2>2. /\ localSpent \in [Instance -> SUBSET Proposal] /\ serving \subseteq Instance
        /\ confirming \in [ConfirmCall -> ConfirmState]
        /\ redisUp \in BOOLEAN /\ forgetful \in BOOLEAN
    BY DEF AssistantInit, ConfirmState
  <2> QED BY <2>1, <2>2 DEF AssistantTyped
<1>2. \A c \in ConfirmCall : confirming[c].at = "idle"
  BY DEF AssistantInit, NoConfirm
<1>3. Served /\ Outlasting
  BY <1>2 DEF Served, Outlasting, AtStep
<1>4. \A p \in Proposal : Claimed(p) = {} /\ executed[p] = 0 /\ confirms[p] = 0
                          /\ overdue[p] = 0
  BY <1>2 DEF Claimed, AtStep, AssistantInit
<1>5. RunsCounted
  BY <1>4, FS_EmptySet DEF RunsCounted
<1> QED BY <1>1, <1>3, <1>4, <1>5 DEF AssistantInv, InTime

(* A step that accepts no claim and starts no run leaves the counts.       *)
LEMMA CountsStay ==
    ASSUME AssistantInv, UNCHANGED <<executed, confirms>>,
           \A p \in Proposal : Claimed(p)' \subseteq Claimed(p)
    PROVE  RunsCounted'
<1> SUFFICES ASSUME NEW p \in Proposal
             PROVE  executed[p] + Cardinality(Claimed(p)') <= confirms[p]
  BY DEF RunsCounted
<1>1. Cardinality(Claimed(p)') \in Nat /\ Cardinality(Claimed(p)) \in Nat
      /\ Cardinality(Claimed(p)') <= Cardinality(Claimed(p))
  BY ClaimedCount
<1> QED BY <1>1 DEF AssistantInv, RunsCounted, AssistantTyped

LEMMA ProposeInv ==
    ASSUME AssistantInv, NEW p \in Proposal, Propose(p)
    PROVE  AssistantInv'
<1>1. AssistantTyped'
  BY AssistantAssumption DEF AssistantInv, AssistantTyped, Propose
<1>2. Served' /\ Outlasting' /\ RunsCounted'
  <2>1. Served' /\ Outlasting'
    BY DEF AssistantInv, AssistantTyped, Propose, Served, Outlasting, AtStep
  <2>2. RunsCounted'
    BY CountsStay DEF Propose, Claimed, AtStep
  <2> QED BY <2>1, <2>2
<1>3. ASSUME ~forgetful, redisUp \/ Alone, NEW q \in Proposal
      PROVE  InTime(q)'
  <2>1. InTime(q) /\ overdue[q] \in Nat /\ confirms[q] \in Nat
    BY <1>3 DEF AssistantInv, AssistantTyped
  <2>2. q # p => proposal'[q] = proposal[q]
    BY DEF Propose, AssistantInv, AssistantTyped
  <2> QED BY <2>1, <2>2 DEF Propose, InTime, Remembered, Valid
<1> QED BY <1>1, <1>2, <1>3 DEF AssistantInv, Alone, Propose

LEMMA VerifyInv ==
    ASSUME AssistantInv, NEW c \in ConfirmCall, NEW i \in Instance, NEW p \in Proposal,
           Verify(c, i, p)
    PROVE  AssistantInv'
<1> DEFINE ttl == IF proposal[p] > 1 THEN proposal[p] ELSE 1
<1>1. /\ confirming[c] = NoConfirm /\ i \in serving /\ Valid(p)
      /\ confirming' = [confirming EXCEPT ![c] =
                          [at |-> "verified", token |-> p, on |-> i, ttl |-> ttl]]
      /\ UNCHANGED <<proposal, redisUp, nonceKey, localSpent, confirms, overdue, executed,
                     forgetful, serving>>
  BY DEF Verify
<1>2. ttl \in 1..(TokenLife + 1) /\ ttl >= proposal[p]
  BY AssistantAssumption DEF AssistantInv, AssistantTyped
<1> HIDE DEF ttl
<1>3. AssistantTyped'
  BY <1>1, <1>2 DEF AssistantInv, AssistantTyped, ConfirmState
<1>4. /\ \A d \in ConfirmCall : d # c => confirming'[d] = confirming[d]
      /\ confirming'[c] = [at |-> "verified", token |-> p, on |-> i, ttl |-> ttl]
      /\ confirming[c].at = "idle"
  BY <1>1 DEF AssistantInv, AssistantTyped, NoConfirm
<1>5. Served' /\ Outlasting'
  BY <1>1, <1>2, <1>4 DEF AssistantInv, Served, Outlasting, AtStep
<1>6. RunsCounted'
  BY <1>1, <1>4, CountsStay DEF Claimed, AtStep
<1> QED BY <1>1, <1>3, <1>5, <1>6 DEF AssistantInv, Alone, InTime, Remembered, Valid

LEMMA ClaimNonceInv ==
    ASSUME AssistantInv, NEW c \in ConfirmCall, ClaimNonce(c)
    PROVE  AssistantInv'
<1> DEFINE p == confirming[c].token
           i == confirming[c].on
<1>1. /\ confirming[c].at = "verified" /\ p \in Proposal /\ i \in Instance /\ i \in serving
      /\ confirming[c].ttl \in 1..(TokenLife + 1) /\ confirming[c].ttl >= proposal[p]
  BY DEF AssistantInv, AssistantTyped, ConfirmState, NoConfirm, ClaimNonce, Served, Outlasting,
         AtStep
<1>2. /\ confirms[p] < MaxConfirms
      /\ IF redisUp THEN ClaimInRedis(p, confirming[c].ttl) ELSE ClaimLocally(i, p)
      /\ confirms' = [confirms EXCEPT ![p] = @ + 1]
      /\ overdue' = [overdue EXCEPT ![p] = IF Valid(p) THEN @ ELSE @ + 1]
      /\ confirming' = [confirming EXCEPT ![c].at = "claimed"]
      /\ UNCHANGED <<proposal, redisUp, executed, forgetful, serving>>
  BY DEF ClaimNonce
<1> HIDE DEF p, i
<1>3. /\ Prune(localSpent[i]) \subseteq localSpent[i]
      /\ \A q \in localSpent[i] : Valid(q) => q \in Prune(localSpent[i])
  BY DEF Prune
<1>4. /\ \A d \in ConfirmCall : d # c => confirming'[d] = confirming[d]
      /\ confirming'[c] = [confirming[c] EXCEPT !.at = "claimed"]
  BY <1>2 DEF AssistantInv, AssistantTyped
<1>5. /\ confirming'[c] \in ConfirmState /\ confirming'[c].at = "claimed"
      /\ confirming'[c].token = p /\ confirming'[c].on = i
  BY <1>1, <1>4 DEF AssistantInv, AssistantTyped, ConfirmState, NoConfirm, p, i
<1>6. /\ confirms'[p] = confirms[p] + 1 /\ \A q \in Proposal : q # p => confirms'[q] = confirms[q]
      /\ overdue'[p] = (IF Valid(p) THEN overdue[p] ELSE overdue[p] + 1)
      /\ \A q \in Proposal : q # p => overdue'[q] = overdue[q]
      /\ \A q \in Proposal : overdue[q] \in Nat /\ confirms[q] \in Nat
  BY <1>1, <1>2 DEF AssistantInv, AssistantTyped
<1>7. AssistantTyped'
  <2>1. /\ nonceKey' \in [Proposal -> -1..(TokenLife + 1)]
        /\ localSpent' \in [Instance -> SUBSET Proposal]
    BY <1>1, <1>2, <1>3, AssistantAssumption
       DEF AssistantInv, AssistantTyped, ClaimInRedis, ClaimLocally
  <2>2. confirming' \in [ConfirmCall -> ConfirmState]
    BY <1>2, <1>4, <1>5 DEF AssistantInv, AssistantTyped
  <2>3. confirms' \in [Proposal -> 0..MaxConfirms] /\ overdue' \in [Proposal -> Nat]
    BY <1>1, <1>2, AssistantAssumption DEF AssistantInv, AssistantTyped
  <2> QED BY <1>2, <2>1, <2>2, <2>3 DEF AssistantInv, AssistantTyped
<1>8. Served' /\ Outlasting'
  BY <1>1, <1>2, <1>4, <1>5 DEF AssistantInv, Served, Outlasting, AtStep
<1>9. RunsCounted'
  <2> SUFFICES ASSUME NEW q \in Proposal
               PROVE  executed[q] + Cardinality(Claimed(q)') <= confirms'[q]
    BY <1>2 DEF RunsCounted
  <2>1. /\ executed[q] \in Nat /\ executed[q] + Cardinality(Claimed(q)) <= confirms[q]
        /\ Cardinality(Claimed(q)) \in Nat /\ IsFiniteSet(Claimed(q))
    BY ClaimedCount DEF AssistantInv, AssistantTyped, RunsCounted
  <2>2. CASE q = p
    <3>1. Claimed(q)' = Claimed(q) \cup {c}
      BY <1>4, <1>5, <2>2 DEF Claimed, AtStep
    <3>2. Cardinality(Claimed(q) \cup {c})
            = IF c \in Claimed(q) THEN Cardinality(Claimed(q)) ELSE Cardinality(Claimed(q)) + 1
      BY <2>1, FS_AddElement
    <3> QED BY <1>6, <2>1, <2>2, <3>1, <3>2
  <2>3. CASE q # p
    <3>1. Claimed(q)' = Claimed(q)
      BY <1>1, <1>4, <1>5, <2>3 DEF Claimed, AtStep
    <3> QED BY <1>6, <2>1, <2>3, <3>1
  <2> QED BY <2>2, <2>3
<1>10. ASSUME ~forgetful, redisUp \/ Alone, NEW q \in Proposal
       PROVE  InTime(q)'
  <2>1. InTime(q) /\ InTime(p)
    BY <1>1, <1>10 DEF AssistantInv
  <2>2. Valid(p) => ~Remembered(p)
    BY <1>1, <1>2, <1>3, <1>10
       DEF Remembered, ClaimInRedis, ClaimLocally, Alone, Valid, AssistantInv, AssistantTyped
  <2>3. Valid(p) => confirms[p] = 0 /\ overdue[p] = 0
    BY <1>1, <1>6, <2>1, <2>2 DEF InTime
  <2>4. Valid(q) /\ (Remembered(q) \/ q = p) => Remembered(q)'
    <3>1. CASE redisUp
      BY <1>1, <1>2, <3>1
         DEF Remembered, ClaimInRedis, AssistantInv, AssistantTyped
    <3>2. CASE ~redisUp
      <4>1. serving = {i} /\ serving' = {i} /\ redisUp' = redisUp
        BY <1>1, <1>2, <1>10, <3>2 DEF Alone
      <4>2. localSpent'[i] = Prune(localSpent[i]) \cup {p}
        BY <1>1, <1>2, <3>2 DEF ClaimLocally, AssistantInv, AssistantTyped
      <4> QED BY <1>3, <3>2, <4>1, <4>2 DEF Remembered
    <3> QED BY <3>1, <3>2
  <2>5. Valid(q)' <=> Valid(q)
    BY <1>2 DEF Valid
  <2>6. CASE q = p
    BY <1>1, <1>6, <2>1, <2>3, <2>4, <2>5, <2>6 DEF InTime
  <2>7. CASE q # p
    BY <1>6, <2>1, <2>4, <2>5, <2>7 DEF InTime
  <2> QED BY <2>6, <2>7
<1> QED BY <1>2, <1>7, <1>8, <1>9, <1>10 DEF AssistantInv, Alone

LEMMA RefuseClaimInv ==
    ASSUME AssistantInv, NEW c \in ConfirmCall, RefuseClaim(c)
    PROVE  AssistantInv'
<1> DEFINE i == confirming[c].on
<1>1. /\ confirming[c].at = "verified" /\ i \in Instance
      /\ confirming' = [confirming EXCEPT ![c] = NoConfirm]
      /\ UNCHANGED <<proposal, redisUp, nonceKey, confirms, overdue, executed, forgetful,
                     serving>>
      /\ \/ localSpent' = localSpent
         \/ ~redisUp /\ localSpent' = [localSpent EXCEPT ![i] = Prune(localSpent[i])]
  BY DEF RefuseClaim, AssistantInv, AssistantTyped, ConfirmState, NoConfirm
<1> HIDE DEF i
<1>2. /\ Prune(localSpent[i]) \subseteq localSpent[i]
      /\ \A q \in localSpent[i] : Valid(q) => q \in Prune(localSpent[i])
  BY DEF Prune
<1>3. AssistantTyped'
  BY <1>1, <1>2 DEF AssistantInv, AssistantTyped, ConfirmState
<1>4. /\ \A d \in ConfirmCall : d # c => confirming'[d] = confirming[d]
      /\ confirming'[c].at = "idle"
  BY <1>1 DEF AssistantInv, AssistantTyped, NoConfirm
<1>5. Served' /\ Outlasting'
  BY <1>1, <1>4 DEF AssistantInv, Served, Outlasting, AtStep
<1>6. RunsCounted'
  BY <1>1, <1>4, CountsStay DEF Claimed, AtStep
<1>7. \A q \in Proposal : Valid(q) /\ Remembered(q) => Remembered(q)'
  BY <1>1, <1>2 DEF Remembered, AssistantInv, AssistantTyped
<1> QED BY <1>1, <1>3, <1>5, <1>6, <1>7 DEF AssistantInv, Alone, InTime, Valid

LEMMA ExecuteInv ==
    ASSUME AssistantInv, NEW c \in ConfirmCall, Execute(c)
    PROVE  AssistantInv'
<1> DEFINE p == confirming[c].token
<1>1. /\ confirming[c].at = "claimed" /\ p \in Proposal
      /\ executed' = [executed EXCEPT ![p] = @ + 1]
      /\ confirming' = [confirming EXCEPT ![c] = NoConfirm]
      /\ UNCHANGED <<proposal, redisUp, nonceKey, localSpent, confirms, overdue, forgetful,
                     serving>>
  BY DEF Execute, AssistantInv, AssistantTyped, ConfirmState, NoConfirm
<1>2. c \in Claimed(p)
  BY <1>1 DEF Claimed, AtStep
<1>3. AssistantTyped'
  BY <1>1 DEF AssistantInv, AssistantTyped, ConfirmState
<1>4. /\ \A d \in ConfirmCall : d # c => confirming'[d] = confirming[d]
      /\ confirming'[c].at = "idle"
  BY <1>1 DEF AssistantInv, AssistantTyped, NoConfirm
<1>5. Served' /\ Outlasting'
  BY <1>1, <1>4 DEF AssistantInv, Served, Outlasting, AtStep
<1>6. RunsCounted'
  <2> SUFFICES ASSUME NEW q \in Proposal
               PROVE  executed'[q] + Cardinality(Claimed(q)') <= confirms[q]
    BY <1>1 DEF RunsCounted
  <2>1. /\ executed[q] \in Nat /\ executed[q] + Cardinality(Claimed(q)) <= confirms[q]
        /\ Cardinality(Claimed(q)) \in Nat /\ IsFiniteSet(Claimed(q)) /\ confirms[q] \in Nat
    BY ClaimedCount DEF AssistantInv, AssistantTyped, RunsCounted
  <2>2. CASE q = p
    <3>1. Claimed(q)' = Claimed(q) \ {c}
      BY <1>4 DEF Claimed, AtStep
    <3>2. Cardinality(Claimed(q)') = Cardinality(Claimed(q)) - 1
      BY <1>2, <2>1, <2>2, <3>1, FS_RemoveElement
    <3>3. executed'[q] = executed[q] + 1
      BY <1>1, <2>2 DEF AssistantInv, AssistantTyped
    <3> QED BY <2>1, <3>2, <3>3
  <2>3. CASE q # p
    <3>1. Claimed(q)' = Claimed(q)
      BY <1>4, <2>3 DEF Claimed, AtStep
    <3>2. executed'[q] = executed[q]
      BY <1>1, <2>3 DEF AssistantInv, AssistantTyped
    <3> QED BY <2>1, <3>1, <3>2
  <2> QED BY <2>2, <2>3
<1> QED BY <1>1, <1>3, <1>5, <1>6 DEF AssistantInv, Alone, InTime, Remembered, Valid

LEMMA ForgetInv ==
    ASSUME AssistantInv, RedisFlips \/ \E i \in Instance : InstanceRestarts(i)
    PROVE  AssistantInv'
<1>1. /\ UNCHANGED <<proposal, nonceKey, confirms, overdue, executed, serving>>
      /\ \A c \in ConfirmCall : confirming'[c] = confirming[c] \/ confirming'[c] = NoConfirm
  BY DEF RedisFlips, InstanceRestarts
<1>2. AssistantTyped'
  BY DEF AssistantInv, AssistantTyped, RedisFlips, InstanceRestarts, ConfirmState
<1>3. Served' /\ Outlasting'
  BY <1>1 DEF AssistantInv, Served, Outlasting, AtStep, NoConfirm
<1>4. RunsCounted'
  BY <1>1, CountsStay DEF Claimed, AtStep, NoConfirm
<1>5. ASSUME ~forgetful', redisUp' \/ Alone', NEW q \in Proposal
      PROVE  InTime(q)'
  <2>1. redisUp /\ ~forgetful /\ redisUp' = redisUp
    BY <1>5 DEF RedisFlips, InstanceRestarts, AssistantInv, AssistantTyped
  <2>2. InTime(q)
    BY <2>1 DEF AssistantInv
  <2> QED BY <1>1, <2>1, <2>2 DEF InTime, Remembered, Valid
<1> QED BY <1>2, <1>3, <1>4, <1>5 DEF AssistantInv

LEMMA AgeInv ==
    ASSUME AssistantInv, TokensAge
    PROVE  AssistantInv'
<1>1. /\ proposal' = [p \in Proposal |-> CountDown(proposal[p])]
      /\ nonceKey' = [p \in Proposal |-> CountDown(nonceKey[p])]
      /\ UNCHANGED <<redisUp, localSpent, confirming, confirms, overdue, executed, forgetful,
                     serving>>
  BY DEF TokensAge
<1>2. \A p \in Proposal : /\ proposal[p] \in Int /\ proposal[p] >= -1
                          /\ nonceKey[p] \in Int /\ nonceKey[p] >= -1
                          /\ proposal'[p] = (IF proposal[p] >= 0 THEN proposal[p] - 1 ELSE -1)
                          /\ nonceKey'[p] = (IF nonceKey[p] >= 0 THEN nonceKey[p] - 1 ELSE -1)
  BY <1>1 DEF AssistantInv, AssistantTyped, CountDown
<1>3. AssistantTyped'
  BY <1>1, AssistantAssumption DEF AssistantInv, AssistantTyped, CountDown
<1>4. Served' /\ Outlasting'
  <2>1. Served'
    BY <1>1 DEF AssistantInv, Served
  <2>2. ASSUME NEW c \in ConfirmCall, NEW p \in Proposal, AtStep(c, "verified", p)
        PROVE  confirming[c].ttl >= proposal'[p]
    <3>1. confirming[c].ttl >= proposal[p] /\ confirming[c].ttl \in 1..(TokenLife + 1)
      BY <2>2 DEF AssistantInv, AssistantTyped, Outlasting, AtStep, ConfirmState, NoConfirm
    <3> QED BY <1>2, <3>1, AssistantAssumption
  <2> QED BY <1>1, <2>1, <2>2 DEF Outlasting, AtStep
<1>5. RunsCounted'
  BY <1>1, CountsStay DEF Claimed, AtStep
<1>6. ASSUME ~forgetful, redisUp \/ Alone, NEW q \in Proposal
      PROVE  InTime(q)'
  <2>1. InTime(q)
    BY <1>6 DEF AssistantInv
  <2>2. Valid(q)' => Valid(q) /\ (Remembered(q) => Remembered(q)')
    BY <1>1, <1>2 DEF Remembered, Valid
  <2> QED BY <1>1, <2>1, <2>2 DEF InTime
<1> QED BY <1>1, <1>3, <1>4, <1>5, <1>6 DEF AssistantInv, Alone

LEMMA AssistantStepInv == AssistantInv /\ [AssistantNext]_assistantVars => AssistantInv'
<1> SUFFICES ASSUME AssistantInv, [AssistantNext]_assistantVars PROVE AssistantInv'
  OBVIOUS
<1>1. CASE UNCHANGED assistantVars
  <2>1. RunsCounted'
    BY <1>1, CountsStay DEF assistantVars, Claimed, AtStep
  <2> QED BY <1>1, <2>1 DEF assistantVars, AssistantInv, AssistantTyped, Served, Outlasting,
                            AtStep, Alone, InTime, Remembered, Valid
<1> QED BY <1>1, ProposeInv, VerifyInv, ClaimNonceInv, RefuseClaimInv, ExecuteInv, ForgetInv,
           AgeInv DEF AssistantNext

(* However often a token is confirmed and on whichever instance, its       *)
(* action runs at most once while nothing was forgotten, save once more    *)
(* for each confirmation that was checked in time and claimed too late     *)
(* (core/assistant/tokens.py).                                             *)
THEOREM RunOnce == AssistantSpec => []ConfirmedOnce
<1>1. AssistantInv => ConfirmedOnce
  <2> SUFFICES ASSUME AssistantInv, ~forgetful, redisUp \/ ~Several, NEW p \in Proposal
               PROVE  executed[p] <= 1 + overdue[p]
    BY DEF ConfirmedOnce
  <2>1. InTime(p)
    BY NotSeveral DEF AssistantInv
  <2>2. /\ executed[p] + Cardinality(Claimed(p)) <= confirms[p]
        /\ Cardinality(Claimed(p)) \in Nat /\ executed[p] \in Nat /\ confirms[p] \in Nat
        /\ overdue[p] \in Nat
    BY ClaimedCount DEF AssistantInv, AssistantTyped, RunsCounted
  <2> QED BY <2>1, <2>2 DEF InTime
<1> QED BY <1>1, AssistantInitInv, AssistantStepInv, PTL DEF AssistantSpec

(* Types of the assistant's tokens; whether or not Redis remembers, every  *)
(* run of an action has a confirmation of its own (tokens.py, router).     *)
THEOREM AssistantTypeCorrect == AssistantSpec => []AssistantTypeOK
<1>1. AssistantInv => AssistantTypeOK
  BY DEF AssistantInv, AssistantTyped, RunsCounted, AssistantTypeOK
<1> QED BY <1>1, AssistantInitInv, AssistantStepInv, PTL DEF AssistantSpec

-----------------------------------------------------------------------------
(* Learning.  A score that is stored, or was read and is about to be       *)
(* written, lies within the feedback on the skill; feedback only grows.    *)
SkillRow  == [content : Guidance \cup {"none", "lost"}, score : Int, active : BOOLEAN]
Count     == [plus : Nat, minus : Nat]
Stage     == {"idle", "judged", "recording", "inserting", "scoring", "writing"}
ReviewRow == [at : Stage, used : SUBSET SkillVersion, good : BOOLEAN,
              content : Guidance \cup {"none", "lost"}, base : Nat, tries : Nat, met : Nat,
              todo : SUBSET SkillVersion, scoring : Nat, read : SkillRow, kept : BOOLEAN]

Within(v, score) == -feedback[v].minus <= score /\ score <= feedback[v].plus

SkillInv ==
    /\ skill \in [SkillVersion -> SkillRow]
    /\ feedback \in [SkillVersion -> Count]
    /\ review \in [Review -> ReviewRow]
    /\ \A v \in SkillVersion :
         /\ Within(v, skill[v].score)
         /\ v \in StoredSkills /\ ~skill[v].active => feedback[v].minus >= RetireAfter
    /\ \A r \in Review : review[r].at = "writing" =>
         review[r].scoring \in SkillVersion /\ Within(review[r].scoring, review[r].read.score)

LEMMA SkillInitInv == SkillInit => SkillInv
<1> SUFFICES ASSUME SkillInit PROVE SkillInv
  OBVIOUS
<1>1. NoSkill \in SkillRow /\ NoSkill.content = "none" /\ NoSkill.score = 0
  BY DEF NoSkill, SkillRow
<1>2. NoReview \in ReviewRow /\ NoReview.at = "idle"
  BY <1>1 DEF NoReview, ReviewRow, Stage
<1>3. [plus |-> 0, minus |-> 0] \in Count
  BY DEF Count
<1>4. skill \in [SkillVersion -> SkillRow] /\ review \in [Review -> ReviewRow]
      /\ feedback \in [SkillVersion -> Count]
  BY <1>1, <1>2, <1>3 DEF SkillInit
<1>5. ASSUME NEW v \in SkillVersion
      PROVE  Within(v, skill[v].score) /\ v \notin StoredSkills
  <2>1. skill[v] = NoSkill /\ feedback[v] = [plus |-> 0, minus |-> 0]
    BY DEF SkillInit
  <2> QED BY <1>1, <2>1 DEF Within, StoredSkills
<1>6. \A r \in Review : review[r].at = "idle"
  BY <1>2 DEF SkillInit
<1> QED BY <1>4, <1>5, <1>6 DEF SkillInv

(* A step of a review that writes nothing and does not read a score.       *)
LEMMA ReviewMoves ==
    ASSUME SkillInv, NEW r \in Review, NEW w \in ReviewRow, ReviewTo(r, w),
           w.at = "writing" => w.scoring \in SkillVersion /\ Within(w.scoring, w.read.score),
           UNCHANGED <<skill, feedback>>
    PROVE  SkillInv'
BY DEF SkillInv, ReviewTo, Within, StoredSkills

LEMMA SetAt == ASSUME NEW w \in ReviewRow, NEW x \in Stage
               PROVE  [w EXCEPT !.at = x] \in ReviewRow /\ [w EXCEPT !.at = x].at = x
BY DEF ReviewRow

LEMMA SetOthers ==
    ASSUME NEW w \in ReviewRow
    PROVE  /\ \A x \in SUBSET SkillVersion :
                [w EXCEPT !.todo = x] \in ReviewRow /\ [w EXCEPT !.todo = x].at = w.at
           /\ \A x \in Guidance \cup {"none", "lost"} :
                [w EXCEPT !.content = x] \in ReviewRow /\ [w EXCEPT !.content = x].at = w.at
           /\ \A x \in SUBSET SkillVersion :
                [w EXCEPT !.used = x] \in ReviewRow /\ [w EXCEPT !.used = x].at = w.at
           /\ \A x \in BOOLEAN : [w EXCEPT !.good = x] \in ReviewRow /\ [w EXCEPT !.good = x].at = w.at
           /\ \A x \in BOOLEAN : [w EXCEPT !.kept = x] \in ReviewRow /\ [w EXCEPT !.kept = x].at = w.at
           /\ \A x \in Nat : [w EXCEPT !.base = x] \in ReviewRow /\ [w EXCEPT !.base = x].at = w.at
           /\ \A x \in Nat : [w EXCEPT !.tries = x] \in ReviewRow /\ [w EXCEPT !.tries = x].at = w.at
           /\ \A x \in Nat : [w EXCEPT !.met = x] \in ReviewRow /\ [w EXCEPT !.met = x].at = w.at
BY DEF ReviewRow
(* The commit of a score: it was computed from one within the feedback     *)
(* there was, and comes with one more count.                               *)
LEMMA WriteScoreInv ==
    ASSUME SkillInv, NEW r \in Review, WriteScore(r)
    PROVE  SkillInv'
<1> DEFINE v     == review[r].scoring
           score == IF review[r].good THEN review[r].read.score + 1
                    ELSE review[r].read.score - 1
           one   == IF review[r].good THEN [feedback[v] EXCEPT !.plus = @ + 1]
                    ELSE [feedback[v] EXCEPT !.minus = @ + 1]
           scored == [skill[v] EXCEPT !.score = score]
           active == skill[v].active /\ ~Retires(score)
<1>1. /\ review[r] \in ReviewRow /\ v \in SkillVersion
      /\ Within(v, review[r].read.score)
      /\ feedback[v] \in Count /\ skill[v] \in SkillRow
  BY DEF WriteScore, ReviewAt, SkillInv
<1>2. review[r].read.score \in Int /\ score \in Int
  BY <1>1 DEF ReviewRow, SkillRow
<1>3. /\ one \in Count
      /\ -one.minus <= score /\ score <= one.plus
      /\ one.minus >= feedback[v].minus
  <2>1. CASE review[r].good
    BY <1>1, <1>2, <2>1 DEF Count, Within
  <2>2. CASE ~review[r].good
    BY <1>1, <1>2, <2>2 DEF Count, Within
  <2> QED BY <2>1, <2>2
<1>4. feedback' = [feedback EXCEPT ![v] = one]
  BY DEF WriteScore
<1>5. skill' = [skill EXCEPT ![v] = [scored EXCEPT !.active = active]]
  BY DEF WriteScore
<1>6. scored \in SkillRow /\ scored.content = skill[v].content /\ scored.score = score
  BY <1>1, <1>2 DEF SkillRow
<1>7. active \in BOOLEAN
  BY <1>1 DEF SkillRow
<1>8. ~active => ~skill[v].active \/ score <= -RetireAfter
  BY DEF Retires
<1> DEFINE ended == [[[review[r] EXCEPT !.at = "scoring"] EXCEPT !.scoring = 0]
                     EXCEPT !.read = NoSkill]
<1>9. ReviewTo(r, ended)
  BY DEF WriteScore
<1>10. ended \in ReviewRow /\ ended.at = "scoring"
  <2> DEFINE w1 == [review[r] EXCEPT !.at = "scoring"]
             w2 == [w1 EXCEPT !.scoring = 0]
  <2>1. w1 \in ReviewRow /\ w1.at = "scoring"
    BY <1>1, SetAt DEF Stage
  <2> HIDE DEF w1
  <2>2. w2 \in ReviewRow /\ w2.at = "scoring"
    BY <2>1 DEF ReviewRow
  <2> HIDE DEF w2
  <2>3. NoSkill \in SkillRow
    BY DEF NoSkill, SkillRow
  <2>4. [w2 EXCEPT !.read = NoSkill] \in ReviewRow /\ [w2 EXCEPT !.read = NoSkill].at = "scoring"
    BY <2>2, <2>3 DEF ReviewRow
  <2> QED BY <2>4 DEF w1, w2
<1> HIDE DEF one, scored, active, ended
<1> DEFINE new == [scored EXCEPT !.active = active]
<1>11. /\ new \in SkillRow /\ new.content = skill[v].content /\ new.score = score
       /\ new.active = active
  BY <1>6, <1>7 DEF SkillRow
<1> HIDE DEF new, score
<1>12. /\ skill' \in [SkillVersion -> SkillRow] /\ skill'[v] = new
       /\ \A u \in SkillVersion \ {v} : skill'[u] = skill[u]
  BY <1>1, <1>5, <1>11 DEF SkillInv, new
<1>13. /\ feedback' \in [SkillVersion -> Count] /\ feedback'[v] = one
       /\ \A u \in SkillVersion \ {v} : feedback'[u] = feedback[u]
  BY <1>1, <1>3, <1>4 DEF SkillInv
<1>14. /\ review' \in [Review -> ReviewRow] /\ review'[r].at = "scoring"
       /\ \A q \in Review \ {r} : review'[q] = review[q]
  BY <1>9, <1>10 DEF SkillInv, ReviewTo
<1>15. -feedback'[v].minus <= skill'[v].score /\ skill'[v].score <= feedback'[v].plus
  BY <1>3, <1>11, <1>12, <1>13
<1>16. ASSUME v \in StoredSkills', ~skill'[v].active
       PROVE  feedback'[v].minus >= RetireAfter
  <2>1. v \in StoredSkills /\ ~active
    BY <1>1, <1>11, <1>12, <1>16 DEF StoredSkills
  <2>2. CASE ~skill[v].active
    <3>1. feedback[v].minus >= RetireAfter
      BY <1>1, <2>1, <2>2 DEF SkillInv
    <3> QED BY <1>1, <1>3, <1>13, <3>1, SkillAssumption DEF Count
  <2>3. CASE score <= -RetireAfter
    BY <1>2, <1>3, <1>13, <2>3, SkillAssumption DEF Count
  <2> QED BY <1>8, <2>1, <2>2, <2>3
<1>17. ASSUME NEW q \in Review \ {r}, review[q].at = "writing"
       PROVE  Within(review[q].scoring, review[q].read.score)'
  <2>1. review[q] \in ReviewRow /\ review[q].read.score \in Int
        /\ review[q].scoring \in SkillVersion
        /\ Within(review[q].scoring, review[q].read.score)
    BY <1>17 DEF SkillInv, ReviewRow, SkillRow
  <2>2. feedback'[review[q].scoring] \in Count /\ feedback[review[q].scoring] \in Count
    BY <1>13, <2>1 DEF SkillInv
  <2>3. /\ feedback'[review[q].scoring].plus >= feedback[review[q].scoring].plus
        /\ feedback'[review[q].scoring].minus >= feedback[review[q].scoring].minus
    <3>1. one.plus >= feedback[v].plus /\ one.minus >= feedback[v].minus
      BY <1>1 DEF one, Count
    <3> QED BY <1>13, <2>1, <2>2, <3>1 DEF Count
  <2> QED BY <1>14, <2>1, <2>2, <2>3 DEF Within, Count
<1> QED
  <2>1. ASSUME NEW u \in SkillVersion
        PROVE  /\ Within(u, skill[u].score)'
               /\ u \in StoredSkills' /\ ~skill'[u].active => feedback'[u].minus >= RetireAfter
    <3>1. CASE u = v
      BY <1>15, <1>16, <3>1 DEF Within
    <3>2. CASE u # v
      BY <1>12, <1>13, <3>2 DEF SkillInv, Within, StoredSkills
    <3> QED BY <3>1, <3>2
  <2>2. ASSUME NEW q \in Review, review'[q].at = "writing"
        PROVE  review'[q].scoring \in SkillVersion
               /\ Within(review[q].scoring, review[q].read.score)'
    <3>1. q # r /\ review'[q] = review[q]
      BY <1>14, <2>2
    <3> QED BY <1>17, <2>2, <3>1 DEF SkillInv
  <2> QED BY <1>12, <1>13, <1>14, <2>1, <2>2 DEF SkillInv

LEMMA InsertVersionInv ==
    ASSUME SkillInv, NEW r \in Review, InsertVersion(r)
    PROVE  SkillInv'
<1> DEFINE v   == NextVersion(review[r].base)
           new == [content |-> review[r].content, score |-> 0, active |-> TRUE]
           w1  == [review[r] EXCEPT !.at = "scoring"]
           w   == [w1 EXCEPT !.todo = review[r].used]
<1>1. review[r] \in ReviewRow
  BY DEF SkillInv
<1>2. skill' = [skill EXCEPT ![v] = new] /\ UNCHANGED feedback /\ ReviewTo(r, w)
  BY DEF InsertVersion
<1>3. w1 \in ReviewRow /\ w1.at = "scoring" /\ review[r].used \in SUBSET SkillVersion
  BY <1>1, SetAt DEF Stage, ReviewRow
<1> HIDE DEF w1
<1>4. w \in ReviewRow /\ w.at = "scoring"
  BY <1>3, SetOthers
<1> HIDE DEF w
<1>5. new.score = 0 /\ new.active = TRUE
  OBVIOUS
<1>6. new \in SkillRow
  BY <1>1 DEF SkillRow, ReviewRow
<1> HIDE DEF new, v
<1>7. /\ skill' \in [SkillVersion -> SkillRow]
      /\ \A u \in SkillVersion : skill'[u] = IF u = v THEN new ELSE skill[u]
  BY <1>2, <1>6 DEF SkillInv
<1>8. /\ review' \in [Review -> ReviewRow] /\ review'[r].at = "scoring"
      /\ \A q \in Review \ {r} : review'[q] = review[q]
  BY <1>2, <1>4 DEF SkillInv, ReviewTo
<1>9. ASSUME NEW u \in SkillVersion
      PROVE  /\ Within(u, skill[u].score)'
             /\ u \in StoredSkills' /\ ~skill'[u].active => feedback'[u].minus >= RetireAfter
  <2>1. CASE u = v
    <3>1. -feedback[u].minus <= 0 /\ 0 <= feedback[u].plus
      BY DEF SkillInv, Count
    <3> QED BY <1>2, <1>5, <1>7, <2>1, <3>1 DEF Within
  <2>2. CASE u # v
    BY <1>2, <1>7, <2>2 DEF SkillInv, Within, StoredSkills
  <2> QED BY <2>1, <2>2
<1>10. ASSUME NEW q \in Review, review'[q].at = "writing"
       PROVE  review'[q].scoring \in SkillVersion
              /\ Within(review[q].scoring, review[q].read.score)'
  <2>1. q # r /\ review'[q] = review[q]
    BY <1>8, <1>10
  <2> QED BY <1>2, <1>10, <2>1 DEF SkillInv, Within
<1> QED BY <1>2, <1>7, <1>8, <1>9, <1>10 DEF SkillInv

LEMMA SkillStepInv == SkillInv /\ [SkillNext]_skillVars => SkillInv'
<1> SUFFICES ASSUME SkillInv, [SkillNext]_skillVars PROVE SkillInv'
  OBVIOUS
<1>1. CASE UNCHANGED skillVars
  BY <1>1 DEF skillVars, SkillInv, Within, StoredSkills
<1>2. ASSUME NEW r \in Review, NEW w \in ReviewRow, ReviewTo(r, w), w.at \in Stage \ {"writing"},
             UNCHANGED <<skill, feedback>>
      PROVE  SkillInv'
  BY <1>2, ReviewMoves
<1>3. ASSUME NEW r \in Review,
             \/ BeginReview(r) \/ EndReview(r) \/ ReviewFails(r)
      PROVE  SkillInv'
  <2>0. NoReview \in ReviewRow /\ NoReview.at = "idle"
    BY DEF NoReview, ReviewRow, Stage, NoSkill, SkillRow
  <2>1. ASSUME NEW used \in SUBSET SkillVersion, NEW good \in BOOLEAN
        PROVE  LET w == [[[NoReview EXCEPT !.at = "judged"] EXCEPT !.used = used] EXCEPT !.good = good]
               IN  w \in ReviewRow /\ w.at = "judged"
    <3> DEFINE w1 == [NoReview EXCEPT !.at = "judged"]
               w2 == [w1 EXCEPT !.used = used]
    <3>1. w1 \in ReviewRow /\ w1.at = "judged"
      BY <2>0, SetAt DEF Stage
    <3> HIDE DEF w1
    <3>2. w2 \in ReviewRow /\ w2.at = "judged"
      BY <3>1, SetOthers
    <3> HIDE DEF w2
    <3>3. [w2 EXCEPT !.good = good] \in ReviewRow /\ [w2 EXCEPT !.good = good].at = "judged"
      BY <3>2, SetOthers
    <3> QED BY <3>3 DEF w1, w2
  <2>2. ASSUME NEW content \in Guidance \cup {"none", "lost"}, NEW met \in Nat
        PROVE  LET w == [[[NoReview EXCEPT !.kept = TRUE] EXCEPT !.content = content] EXCEPT !.met = met]
               IN  w \in ReviewRow /\ w.at = "idle"
    <3> DEFINE w1 == [NoReview EXCEPT !.kept = TRUE]
               w2 == [w1 EXCEPT !.content = content]
    <3>1. w1 \in ReviewRow /\ w1.at = "idle"
      BY <2>0, SetOthers
    <3> HIDE DEF w1
    <3>2. w2 \in ReviewRow /\ w2.at = "idle"
      BY <3>1, SetOthers
    <3> HIDE DEF w2
    <3>3. [w2 EXCEPT !.met = met] \in ReviewRow /\ [w2 EXCEPT !.met = met].at = "idle"
      BY <3>2, SetOthers
    <3> QED BY <3>3 DEF w1, w2
  <2>3. [NoReview EXCEPT !.kept = TRUE] \in ReviewRow /\ [NoReview EXCEPT !.kept = TRUE].at = "idle"
    BY <2>0, SetOthers
  <2>4. review[r].content \in Guidance \cup {"none", "lost"} /\ review[r].met \in Nat
    BY DEF SkillInv, ReviewRow
  <2>5. CASE BeginReview(r)
    BY <1>2, <2>1, <2>5 DEF BeginReview, Stage, ActiveSkills, StoredSkills
  <2>6. CASE EndReview(r)
    BY <1>2, <2>2, <2>4, <2>6 DEF EndReview, Stage
  <2>7. CASE ReviewFails(r)
    BY <1>2, <2>3, <2>7 DEF ReviewFails, Stage
  <2> QED BY <1>3, <2>5, <2>6, <2>7
<1>4. ASSUME NEW r \in Review, NEW stage \in Stage \ {"writing"}, NEW w,
             LET a == [review[r] EXCEPT !.at = stage]
             IN  \/ w = a
                 \/ \E x \in SUBSET SkillVersion : w = [a EXCEPT !.todo = x]
                 \/ \E x \in Guidance : w = [a EXCEPT !.content = x]
                 \/ \E x \in Nat : w = [a EXCEPT !.met = x]
                 \/ \E x, y \in Nat : w = [[a EXCEPT !.base = x] EXCEPT !.tries = y]
                 \/ \E x \in SUBSET SkillVersion :
                        w = [[a EXCEPT !.todo = x] EXCEPT !.content = "lost"]
      PROVE  w \in ReviewRow /\ w.at \in Stage \ {"writing"}
  <2> DEFINE a == [review[r] EXCEPT !.at = stage]
  <2>1. a \in ReviewRow /\ a.at = stage
    <3>1. review[r] \in ReviewRow
      BY DEF SkillInv
    <3> QED BY <3>1, SetAt
  <2> HIDE DEF a
  <2>2. ASSUME NEW x, NEW y, x \in Nat, y \in Nat
        PROVE  /\ [[a EXCEPT !.base = x] EXCEPT !.tries = y] \in ReviewRow
               /\ [[a EXCEPT !.base = x] EXCEPT !.tries = y].at = stage
    <3> DEFINE b == [a EXCEPT !.base = x]
    <3>1. b \in ReviewRow /\ b.at = stage
      BY <2>1, <2>2, SetOthers
    <3> HIDE DEF b
    <3>2. [b EXCEPT !.tries = y] \in ReviewRow /\ [b EXCEPT !.tries = y].at = stage
      BY <2>2, <3>1, SetOthers
    <3> QED BY <3>2 DEF b
  <2>3. ASSUME NEW x \in SUBSET SkillVersion
        PROVE  /\ [[a EXCEPT !.todo = x] EXCEPT !.content = "lost"] \in ReviewRow
               /\ [[a EXCEPT !.todo = x] EXCEPT !.content = "lost"].at = stage
    <3> DEFINE b == [a EXCEPT !.todo = x]
    <3>1. b \in ReviewRow /\ b.at = stage
      BY <2>1, SetOthers
    <3> HIDE DEF b
    <3>2. [b EXCEPT !.content = "lost"] \in ReviewRow /\ [b EXCEPT !.content = "lost"].at = stage
      BY <3>1, SetOthers
    <3> QED BY <3>2 DEF b
  <2>4. \/ w = a
        \/ \E x \in SUBSET SkillVersion : w = [a EXCEPT !.todo = x]
        \/ \E x \in Guidance : w = [a EXCEPT !.content = x]
        \/ \E x \in Nat : w = [a EXCEPT !.met = x]
        \/ \E x, y \in Nat : w = [[a EXCEPT !.base = x] EXCEPT !.tries = y]
        \/ \E x \in SUBSET SkillVersion :
               w = [[a EXCEPT !.todo = x] EXCEPT !.content = "lost"]
    BY <1>4 DEF a
  <2>5. /\ \A x \in SUBSET SkillVersion :
             [a EXCEPT !.todo = x] \in ReviewRow /\ [a EXCEPT !.todo = x].at = stage
        /\ \A x \in Guidance :
             [a EXCEPT !.content = x] \in ReviewRow /\ [a EXCEPT !.content = x].at = stage
        /\ \A x \in Nat : [a EXCEPT !.met = x] \in ReviewRow /\ [a EXCEPT !.met = x].at = stage
    BY <2>1, SetOthers
  <2>6. CASE w = a \/ (\E x \in SUBSET SkillVersion : w = [a EXCEPT !.todo = x])
    BY <2>1, <2>5, <2>6
  <2>7. CASE (\E x \in Guidance : w = [a EXCEPT !.content = x])
             \/ \E x \in Nat : w = [a EXCEPT !.met = x]
    BY <2>5, <2>7
  <2>8. CASE \E x, y \in Nat : w = [[a EXCEPT !.base = x] EXCEPT !.tries = y]
    <3>1. PICK x \in Nat, y \in Nat : w = [[a EXCEPT !.base = x] EXCEPT !.tries = y]
      BY <2>8
    <3>2. w \in ReviewRow /\ w.at = stage
      BY <2>2, <3>1
    <3> QED BY <3>2
  <2>9. CASE \E x \in SUBSET SkillVersion :
               w = [[a EXCEPT !.todo = x] EXCEPT !.content = "lost"]
    <3>1. PICK x \in SUBSET SkillVersion : w = [[a EXCEPT !.todo = x] EXCEPT !.content = "lost"]
      BY <2>9
    <3>2. w \in ReviewRow /\ w.at = stage
      BY <2>3, <3>1
    <3> QED BY <3>2
  <2> QED BY <2>4, <2>6, <2>7, <2>8, <2>9
<1>5. ASSUME NEW r \in Review,
             \/ DistilNothing(r) \/ Distil(r) \/ ReadVersion(r) \/ VersionTaken(r)
             \/ DropGuidance(r)
      PROVE  SkillInv'
  <2>1. /\ review[r].used \in SUBSET SkillVersion
        /\ review[r].met + 1 \in Nat /\ review[r].tries + 1 \in Nat
    BY DEF SkillInv, ReviewRow
  <2>2. Cardinality(StoredSkills) \in Nat
    <3>1. IsFiniteSet(StoredSkills)
      <4>1. IsFiniteSet(1..MaxVersions)
        BY SkillAssumption, FS_Interval
      <4> QED BY <4>1, FS_Subset DEF StoredSkills, SkillVersion
    <3> QED BY <3>1, FS_CardinalityType
  <2>3. CASE DistilNothing(r)
    BY <1>2, <1>4, <2>1, <2>3 DEF DistilNothing, Stage
  <2>4. CASE Distil(r)
    BY <1>2, <1>4, <2>1, <2>4 DEF Distil, Stage
  <2>5. CASE ReadVersion(r)
    BY <1>2, <1>4, <2>1, <2>2, <2>5 DEF ReadVersion, Stage
  <2>6. CASE VersionTaken(r)
    BY <1>2, <1>4, <2>1, <2>6 DEF VersionTaken, Stage
  <2>7. CASE DropGuidance(r)
    BY <1>2, <1>4, <2>1, <2>7 DEF DropGuidance, Stage
  <2> QED BY <1>5, <2>3, <2>4, <2>5, <2>6, <2>7
<1>6. ASSUME NEW r \in Review, NEW v \in SkillVersion, ReadSkill(r, v)
      PROVE  SkillInv'
  <2> DEFINE w1 == [review[r] EXCEPT !.at = "writing"]
             w2 == [w1 EXCEPT !.scoring = v]
             w3 == [w2 EXCEPT !.read = skill[v]]
             w  == [w3 EXCEPT !.todo = review[r].todo \ {v}]
  <2>1. ReviewTo(r, w) /\ UNCHANGED <<skill, feedback>>
    BY <1>6 DEF ReadSkill
  <2>2. /\ review[r] \in ReviewRow /\ review[r].todo \ {v} \in SUBSET SkillVersion
        /\ skill[v] \in SkillRow /\ Within(v, skill[v].score)
    BY DEF SkillInv, ReviewRow
  <2>3. w1 \in ReviewRow
    BY <2>2, SetAt DEF Stage
  <2> HIDE DEF w1
  <2>4. w2 \in ReviewRow /\ w2.scoring = v
    BY <2>3, SkillAssumption DEF ReviewRow, SkillVersion
  <2> HIDE DEF w2
  <2>5. w3 \in ReviewRow /\ w3.scoring = v /\ w3.read = skill[v]
    BY <2>2, <2>4 DEF ReviewRow
  <2> HIDE DEF w3
  <2>6. w \in ReviewRow /\ w.scoring = v /\ w.read = skill[v]
    BY <2>2, <2>5 DEF ReviewRow
  <2> HIDE DEF w
  <2> QED BY <2>1, <2>2, <2>6, ReviewMoves
<1> QED BY <1>1, <1>3, <1>5, <1>6, WriteScoreInv, InsertVersionInv DEF SkillNext

(* For any number of concurrent reviews, each overwriting the scores the   *)
(* others wrote: a skill retires only after enough failures, and no score  *)
(* claims more than was fed back (core/harness/skills.py).                 *)
THEOREM RetiredForCause == SkillSpec => []RetiredWithCause
<1>1. SkillInv => RetiredWithCause
  BY DEF SkillInv, Within, RetiredWithCause, StoredSkills
<1> QED BY <1>1, SkillInitInv, SkillStepInv, PTL DEF SkillSpec

-----------------------------------------------------------------------------
(***************************************************************************)
(* What a purged account leaves.                                           *)
(***************************************************************************)
PurgeRun ==
       [at : {"idle", "next"}, todo : SUBSET Owner, ran : BOOLEAN]
  \cup [at : {"rows"}, todo : SUBSET Owner, user : Owner, ran : BOOLEAN]

(* Between the two deletions a file is there only if a job stored it then.  *)
FilesRemoved ==
    purge.at = "rows" =>
        /\ purge.user \notin purge.todo /\ Due(purge.user)
        /\ files[purge.user] > 0 => storedLate[purge.user]

PurgeInv ==
    /\ account \in [Owner -> {"live", "deleted", "gone"}]
    /\ daysLeft \in [Owner -> Nat]
    /\ files \in [Owner -> 0..MaxFiles]
    /\ kept \in [Owner -> SUBSET Tables]
    /\ storedLate \in [Owner -> BOOLEAN]
    /\ jobOf \in [Job -> Owner \cup {"none"}]
    /\ purge \in PurgeRun
    /\ \A u \in purge.todo : Due(u)
    /\ FilesRemoved
    /\ LeftoversAreLate

LEMMA PurgeInitInv == PurgeInit => PurgeInv
  BY PurgeAssumption
     DEF PurgeInit, PurgeInv, PurgeRun, NoRun, Due, FilesRemoved, LeftoversAreLate, Tables

LEMMA PurgeJobInv ==
    ASSUME PurgeInv, NEW j \in Job,
           \/ StoreFile(j) \/ StoreRow(j) \/ EndJob(j) \/ \E u \in Owner : StartJob(j, u)
    PROVE  PurgeInv'
<1>1. CASE StoreFile(j)
  BY <1>1, PurgeAssumption
     DEF PurgeInv, StoreFile, PurgeRun, Due, FilesRemoved, LeftoversAreLate
<1>2. CASE StoreRow(j)
  BY <1>2, PurgeAssumption
     DEF PurgeInv, StoreRow, PurgeRun, Due, FilesRemoved, LeftoversAreLate
<1>3. CASE EndJob(j) \/ \E u \in Owner : StartJob(j, u)
  BY <1>3, PurgeAssumption
     DEF PurgeInv, EndJob, StartJob, PurgeRun, Due, FilesRemoved, LeftoversAreLate
<1> QED BY <1>1, <1>2, <1>3

(* One list request removes all the files: MaxFiles <= ListLimit.          *)
LEMMA DeleteFilesInv ==
    ASSUME PurgeInv, MaxFiles <= ListLimit, NEW u \in Owner, DeleteFiles(u)
    PROVE  PurgeInv'
<1>1. files' = [files EXCEPT ![u] = 0]
  <2>1. files[u] \in 0..MaxFiles /\ files[u] - Removed(files[u]) = 0
    BY PurgeAssumption DEF PurgeInv, Removed
  <2> QED BY <2>1 DEF DeleteFiles
<1>2. purge' \in PurgeRun
  BY DEF PurgeInv, DeleteFiles, AtUser, PurgeRun
<1> QED BY <1>1, <1>2, PurgeAssumption
        DEF PurgeInv, DeleteFiles, AtUser, Due, FilesRemoved, LeftoversAreLate

(* A run of the cron that goes wrong takes nothing from a purged account.  *)
LEMMA PurgeRunInv ==
    ASSUME PurgeInv, ForeignKeys,
           \/ StartPurge \/ NextDay \/ DeleteRows \/ AbortPurge \/ EndPurge
           \/ \E u \in Owner : SoftDelete(u) \/ FilesFail(u)
    PROVE  PurgeInv'
<1>1. CASE StartPurge
  BY <1>1 DEF PurgeInv, StartPurge, PurgeRun, Due, FilesRemoved, LeftoversAreLate
<1>2. CASE NextDay
  <2>1. daysLeft' \in [Owner -> Nat]
    BY <1>2 DEF PurgeInv, NextDay
  <2> QED BY <1>2, <2>1 DEF PurgeInv, NextDay, NoRun, PurgeRun, Due, FilesRemoved, LeftoversAreLate
<1>3. CASE DeleteRows
  <2>1. /\ kept' = [kept EXCEPT ![purge.user] = {}]
        /\ account' = [account EXCEPT ![purge.user] = "gone"]
        /\ purge' = [at |-> "next", todo |-> purge.todo, ran |-> purge.ran]
        /\ UNCHANGED <<daysLeft, files, storedLate, jobOf>> /\ purge.at = "rows"
    BY <1>3 DEF DeleteRows, NextUser
  <2>2. purge.user \in Owner /\ purge' \in PurgeRun
    BY <2>1 DEF PurgeInv, PurgeRun
  <2> QED BY <2>1, <2>2 DEF PurgeInv, Due, FilesRemoved, LeftoversAreLate
<1>4. CASE AbortPurge \/ EndPurge
  BY <1>4 DEF PurgeInv, AbortPurge, EndPurge, NoRun, PurgeRun, Due, FilesRemoved, LeftoversAreLate
<1>5. ASSUME NEW u \in Owner, SoftDelete(u) PROVE PurgeInv'
  BY <1>5 DEF PurgeInv, SoftDelete, PurgeRun, Due, FilesRemoved, LeftoversAreLate
<1>6. ASSUME NEW u \in Owner, FilesFail(u) PROVE PurgeInv'
  <2>1. PICK remaining \in 0..files[u] : files' = [files EXCEPT ![u] = remaining]
    BY <1>6 DEF FilesFail
  <2>2. remaining \in 0..MaxFiles
    BY PurgeAssumption DEF PurgeInv
  <2>3. purge' = [at |-> "next", todo |-> purge.todo \ {u}, ran |-> purge.ran]
    BY <1>6 DEF FilesFail, SkipUser, NextUser
  <2>4. purge' \in PurgeRun
    BY <2>3 DEF PurgeInv, PurgeRun
  <2> QED BY <1>6, <2>1, <2>2, <2>3, <2>4
          DEF PurgeInv, FilesFail, Due, FilesRemoved, LeftoversAreLate
<1> QED BY <1>1, <1>2, <1>3, <1>4, <1>5, <1>6

(* On PostgreSQL, with no more files than one request removes: a purged    *)
(* account is empty but for what jobs stored after the removal of its      *)
(* files, for any number of accounts and jobs, and whatever runs fail.     *)
THEOREM PurgedIsEmpty ==
    ASSUME ForeignKeys, MaxFiles <= ListLimit
    PROVE  PurgeSafety => []LeftoversAreLate
<1>1. PurgeInv /\ [PurgeNext]_purgeVars => PurgeInv'
  <2> SUFFICES ASSUME PurgeInv, [PurgeNext]_purgeVars PROVE PurgeInv'
    OBVIOUS
  <2>1. CASE UNCHANGED purgeVars
    BY <2>1 DEF purgeVars, PurgeInv, Due, FilesRemoved, LeftoversAreLate
  <2> QED BY <2>1, PurgeJobInv, DeleteFilesInv, PurgeRunInv DEF PurgeNext
<1>2. PurgeInv => LeftoversAreLate
  BY DEF PurgeInv
<1> QED BY <1>1, <1>2, PurgeInitInv, PTL DEF PurgeSafety

-----------------------------------------------------------------------------
(***************************************************************************)
(* What is mailed, and how often.                                          *)
(***************************************************************************)
DigestAt(f, at) == {d \in DigestRun : digest[d].at = at /\ f \in digest[d].rows}

NoticesTyped ==
    /\ bell \in [Fact -> {"none", "unsent", "sent"}]
    /\ caller \in [Caller -> [fact : Fact \cup {"none"}, sent : BOOLEAN]]
    /\ digest \in [DigestRun -> [at : {"idle", "sending", "marking"}, rows : SUBSET Fact]]
    /\ mails \in [Fact -> Nat]
    /\ losses \in Nat
    /\ \A c \in Caller : caller[c].fact = "none" => ~caller[c].sent

(* A transaction holds a key alone, and before any row has it.             *)
KeyHeld ==
    \A c \in Caller : caller[c].fact # "none" =>
        /\ bell[caller[c].fact] = "none"
        /\ \A b \in Caller : caller[b].fact = caller[c].fact => b = c

(* Until a row says "sent", each mail beyond the losses is known to a      *)
(* transaction or a digest that is about to say so.  Afterwards only       *)
(* digests that read the row before can mail it, each of them once.        *)
MailsOf(f) ==
    /\ bell[f] = "none" =>
         /\ \A d \in DigestRun : digest[d].at # "idle" => f \notin digest[d].rows
         /\ mails[f] <= losses + 1
         /\ (\A c \in Caller : caller[c].fact = f => ~caller[c].sent) => mails[f] <= losses
    /\ bell[f] = "unsent" => mails[f] <= losses + Cardinality(DigestAt(f, "marking"))
    /\ bell[f] = "sent" =>
         mails[f] + Cardinality(DigestAt(f, "sending")) <= losses + Cardinality(DigestRun)

NoticesInv == NoticesTyped /\ KeyHeld /\ \A f \in Fact : MailsOf(f)

LEMMA NoticesInitInv == NoticesInit => NoticesInv
  BY NoticesAssumption
     DEF NoticesInit, NoticesInv, NoticesTyped, NothingPending, NoDigest, KeyHeld, MailsOf

LEMMA DigestCounts ==
    /\ Cardinality(DigestRun) \in Nat \ {0}
    /\ \A f : \A at \in {"sending", "marking"} :
         IsFiniteSet(DigestAt(f, at)) /\ Cardinality(DigestAt(f, at)) \in Nat
<1>1. \A f : \A at \in {"sending", "marking"} : DigestAt(f, at) \subseteq DigestRun
  BY DEF DigestAt
<1> QED BY <1>1, NoticesAssumption, FS_Subset, FS_CardinalityType, FS_EmptySet

(* Digests that still send and digests that sent are different ones.       *)
LEMMA DigestsApart ==
    ASSUME NEW f
    PROVE  Cardinality(DigestAt(f, "sending")) + Cardinality(DigestAt(f, "marking"))
             <= Cardinality(DigestRun)
<1> DEFINE S == DigestAt(f, "sending")
           M == DigestAt(f, "marking")
<1>1. IsFiniteSet(S) /\ IsFiniteSet(M) /\ Cardinality(S) \in Nat /\ Cardinality(M) \in Nat
  BY DigestCounts
<1>2. S \cap M = {} /\ S \cup M \subseteq DigestRun
  BY DEF DigestAt
<1> HIDE DEF S, M
<1>3. Cardinality(S \cup M) = Cardinality(S) + Cardinality(M) - Cardinality(S \cap M)
  BY <1>1, FS_Union
<1>4. Cardinality(S \cap M) = 0
  BY <1>2, FS_EmptySet
<1>5. Cardinality(S \cup M) <= Cardinality(DigestRun)
  BY <1>2, NoticesAssumption, FS_Subset
<1> QED BY <1>1, <1>3, <1>4, <1>5, DigestCounts DEF S, M

LEMMA EmitInv ==
    ASSUME NoticesInv, NEW c \in Caller, NEW f \in Fact, Emit(c, f)
    PROVE  NoticesInv'
<1> USE NoticesAssumption
<1>1. PICK sent \in BOOLEAN :
        /\ caller' = [caller EXCEPT ![c] = [fact |-> f, sent |-> sent]]
        /\ \/ sent /\ mails' = Mailed({f}) /\ losses' = losses
           \/ ~sent /\ mails' = mails /\ losses' = losses
           \/ ~sent /\ mails' = Mailed({f}) /\ losses' = losses + 1
  BY DEF Emit, Send
<1>2. /\ UNCHANGED <<bell, digest>> /\ bell[f] = "none"
      /\ \A b \in Caller : caller[b].fact # f
      /\ NoticesTyped /\ KeyHeld
  BY DEF Emit, NewKey, NoticesInv
<1>3. NoticesTyped'
  BY <1>1, <1>2 DEF NoticesTyped, Mailed
<1>4. KeyHeld'
  BY <1>1, <1>2 DEF KeyHeld, NoticesTyped
<1>5. \A g \in Fact : g # f => mails'[g] = mails[g]
  BY <1>1, <1>2 DEF NoticesTyped, Mailed
<1>6. /\ IF sent THEN mails'[f] <= mails[f] + 1 ELSE mails'[f] - mails[f] <= losses' - losses
      /\ losses' >= losses /\ losses' \in Nat /\ mails'[f] \in Nat
  <2>1. mails[f] \in Nat /\ losses \in Nat /\ Mailed({f})[f] = mails[f] + 1
    BY <1>2 DEF NoticesTyped, Mailed
  <2> QED BY <1>1, <2>1
<1>7. mails[f] <= losses /\ mails[f] \in Nat /\ losses \in Nat
  BY <1>2 DEF NoticesInv, MailsOf, NoticesTyped
<1>8. caller'[c] = [fact |-> f, sent |-> sent] /\ \A b \in Caller \ {c} : caller'[b] = caller[b]
  BY <1>1, <1>2 DEF NoticesTyped
<1>9. ASSUME NEW g \in Fact PROVE MailsOf(g)'
  <2>0. MailsOf(g) /\ \A at : DigestAt(g, at)' = DigestAt(g, at)
    BY <1>2 DEF NoticesInv, DigestAt
  <2>a. mails[g] \in Nat
    BY <1>2 DEF NoticesTyped
  <2>1. CASE g = f
    BY <1>2, <1>6, <1>7, <1>8, <2>0, <2>1 DEF MailsOf
  <2>2. CASE g # f /\ bell[g] = "none"
    <3>1. \A b \in Caller : caller[b].fact = g => b # c /\ caller'[b] = caller[b]
      BY <1>2, <1>8, <2>2 DEF Emit, NothingPending, NoticesTyped
    <3>2. caller[c] = NothingPending
      BY DEF Emit
    <3>3. (\A b \in Caller : caller'[b].fact = g => ~caller'[b].sent) =>
            \A b \in Caller : caller[b].fact = g => ~caller[b].sent
      BY <3>1
    <3> QED BY <1>2, <1>5, <1>6, <1>7, <2>0, <2>a, <2>2, <3>3 DEF MailsOf
  <2>3. CASE g # f /\ bell[g] # "none"
    BY <1>2, <1>5, <1>6, <1>7, <2>0, <2>a, <2>3, DigestCounts DEF MailsOf
  <2> QED BY <2>1, <2>2, <2>3
<1> QED BY <1>3, <1>4, <1>9 DEF NoticesInv

LEMMA CallerEndsInv ==
    ASSUME NoticesInv, NEW c \in Caller, CommitCaller(c) \/ RollbackCaller(c)
    PROVE  NoticesInv'
<1> DEFINE f == caller[c].fact
<1>0. NoticesTyped /\ KeyHeld
  BY DEF NoticesInv
<1>1. /\ caller' = [caller EXCEPT ![c] = NothingPending] /\ UNCHANGED <<digest, mails>>
      /\ caller[c] # NothingPending
      /\ \/ UNCHANGED bell /\ losses' = losses + 1
         \/ losses' = losses /\ bell' = [bell EXCEPT ![f] = IF caller[c].sent THEN "sent" ELSE "unsent"]
  BY DEF CommitCaller, RollbackCaller
<1>2. f \in Fact /\ bell[f] = "none" /\ \A b \in Caller : caller[b].fact = f => b = c
  <2>1. f # "none"
    BY <1>0, <1>1 DEF NoticesTyped, NothingPending
  <2> QED BY <1>0, <2>1 DEF NoticesTyped, KeyHeld
<1>3. NoticesTyped'
  <2>1. caller' \in [Caller -> [fact : Fact \cup {"none"}, sent : BOOLEAN]]
    BY <1>0, <1>1 DEF NoticesTyped, NothingPending
  <2>2. bell' \in [Fact -> {"none", "unsent", "sent"}] /\ losses' \in Nat
    BY <1>0, <1>1, <1>2 DEF NoticesTyped
  <2>3. \A b \in Caller : caller'[b].fact = "none" => ~caller'[b].sent
    BY <1>0, <1>1 DEF NoticesTyped, NothingPending
  <2> QED BY <1>0, <1>1, <2>1, <2>2, <2>3 DEF NoticesTyped
<1>4. /\ caller'[c] = NothingPending /\ \A b \in Caller \ {c} : caller'[b] = caller[b]
      /\ \A g \in Fact \ {f} : bell'[g] = bell[g]
  BY <1>0, <1>1 DEF NoticesTyped
<1>5. KeyHeld'
  <2> SUFFICES ASSUME NEW b \in Caller, caller'[b].fact # "none"
               PROVE  /\ bell'[caller'[b].fact] = "none"
                      /\ \A e \in Caller : caller'[e].fact = caller'[b].fact => e = b
    BY DEF KeyHeld
  <2>1. b # c /\ caller'[b] = caller[b]
    BY <1>4 DEF NothingPending
  <2>2. caller[b].fact \in Fact \ {f} /\ bell[caller[b].fact] = "none"
    BY <1>0, <1>2, <2>1 DEF KeyHeld, NoticesTyped
  <2>3. \A e \in Caller : caller'[e].fact = caller'[b].fact => e # c /\ caller'[e] = caller[e]
    BY <1>4, <2>1, <2>2 DEF NothingPending
  <2> QED BY <1>0, <1>4, <2>1, <2>2, <2>3 DEF KeyHeld
<1>6. ASSUME NEW g \in Fact PROVE MailsOf(g)'
  <2>0. /\ MailsOf(g) /\ \A at : DigestAt(g, at)' = DigestAt(g, at)
        /\ mails'[g] = mails[g] /\ mails[g] \in Nat /\ losses \in Nat /\ losses' >= losses
        /\ losses' \in Nat
    BY <1>0, <1>1, <1>3 DEF NoticesInv, DigestAt, NoticesTyped
  <2>1. CASE g # f
    <3>1. (\A b \in Caller : caller'[b].fact = g => ~caller'[b].sent) =>
            \A b \in Caller : caller[b].fact = g => ~caller[b].sent
      BY <1>4, <2>1
    <3> QED BY <1>1, <1>4, <2>0, <2>1, <3>1, DigestCounts DEF MailsOf
  <2>2. CASE g = f /\ UNCHANGED bell
    <3>1. losses' = losses + 1
      BY <1>0, <1>1, <1>2, <2>2 DEF NoticesTyped
    <3> QED BY <1>1, <1>2, <2>0, <2>2, <3>1 DEF MailsOf
  <2>3. CASE g = f /\ ~UNCHANGED bell
    <3>1. losses' = losses /\ bell'[f] = IF caller[c].sent THEN "sent" ELSE "unsent"
      BY <1>0, <1>1, <1>2, <2>3 DEF NoticesTyped
    <3>2. DigestAt(f, "sending") = {} /\ DigestAt(f, "marking") = {}
      BY <1>2, <2>0, <2>3 DEF MailsOf, DigestAt
    <3>3. caller[c].sent \in BOOLEAN
      BY <1>0 DEF NoticesTyped
    <3>4. ~caller[c].sent => mails[g] <= losses
      BY <1>2, <2>0, <2>3 DEF MailsOf
    <3>5. mails[g] <= losses + 1
      BY <1>2, <2>0, <2>3 DEF MailsOf
    <3> QED BY <2>0, <2>3, <3>1, <3>2, <3>3, <3>4, <3>5, DigestCounts, FS_EmptySet DEF MailsOf
  <2> QED BY <2>1, <2>2, <2>3
<1> QED BY <1>3, <1>5, <1>6 DEF NoticesInv

(* A digest that reads, or gives up before it sends, mails nothing.        *)
LEMMA ReadDigestInv ==
    ASSUME NoticesInv, NEW d \in DigestRun, ReadDigest(d)
    PROVE  NoticesInv'
<1>0. NoticesTyped /\ KeyHeld
  BY DEF NoticesInv
<1>1. NoticesTyped' /\ KeyHeld'
  BY <1>0 DEF ReadDigest, NoticesTyped, KeyHeld, NotEmailed
<1>2. ASSUME NEW g \in Fact PROVE MailsOf(g)'
  <2>1. /\ MailsOf(g) /\ UNCHANGED <<bell, caller, mails, losses>>
        /\ digest[d].at = "idle" /\ digest'[d] = [at |-> "sending", rows |-> NotEmailed]
        /\ \A e \in DigestRun \ {d} : digest'[e] = digest[e]
    BY <1>0 DEF NoticesInv, ReadDigest, NoticesTyped
  <2>2. DigestAt(g, "marking")' = DigestAt(g, "marking")
    BY <2>1 DEF DigestAt
  <2>3. bell[g] # "unsent" => g \notin NotEmailed
    BY DEF NotEmailed
  <2>4. bell[g] # "unsent" => DigestAt(g, "sending")' = DigestAt(g, "sending")
    BY <2>1, <2>3 DEF DigestAt
  <2> QED BY <2>1, <2>2, <2>3, <2>4 DEF MailsOf
<1> QED BY <1>1, <1>2 DEF NoticesInv

(* A digest that sends moves from the one count to the other.              *)
LEMMA SendDigestInv ==
    ASSUME NoticesInv, NEW d \in DigestRun, SendDigest(d)
    PROVE  NoticesInv'
<1>0. NoticesTyped /\ KeyHeld /\ digest[d].at = "sending" /\ UNCHANGED <<bell, caller>>
  BY DEF NoticesInv, SendDigest
<1>a. \/ /\ digest' = [digest EXCEPT ![d] = [@ EXCEPT !.at = "marking"]]
         /\ mails' = Mailed(digest[d].rows) /\ losses' = losses
      \/ /\ digest' = [digest EXCEPT ![d] = NoDigest]
         /\ \/ mails' = mails /\ losses' = losses
            \/ mails' = Mailed(digest[d].rows) /\ losses' = losses + 1
  BY DEF SendDigest, Send
<1>1. NoticesTyped' /\ KeyHeld'
  <2>1. digest' \in [DigestRun -> [at : {"idle", "sending", "marking"}, rows : SUBSET Fact]]
    BY <1>0, <1>a DEF NoticesTyped, NoDigest
  <2>2. mails' \in [Fact -> Nat] /\ losses' \in Nat
    BY <1>0, <1>a DEF NoticesTyped, Mailed
  <2> QED BY <1>0, <2>1, <2>2 DEF NoticesTyped, KeyHeld
<1>2. ASSUME NEW g \in Fact PROVE MailsOf(g)'
  <2> DEFINE S == DigestAt(g, "sending")
             M == DigestAt(g, "marking")
  <2>1. /\ MailsOf(g) /\ \A e \in DigestRun \ {d} : digest'[e] = digest[e]
        /\ IsFiniteSet(S) /\ IsFiniteSet(M) /\ Cardinality(S) \in Nat /\ Cardinality(M) \in Nat
        /\ mails[g] \in Nat /\ losses \in Nat
        /\ d \notin M /\ (d \in S <=> g \in digest[d].rows)
    BY <1>0, <1>a, DigestCounts DEF NoticesInv, NoticesTyped, DigestAt
  <2>2. CASE /\ digest' = [digest EXCEPT ![d] = NoDigest]
             /\ \/ mails' = mails /\ losses' = losses
                \/ mails' = Mailed(digest[d].rows) /\ losses' = losses + 1
    <3>1. DigestAt(g, "sending")' = S \ {d} /\ DigestAt(g, "marking")' = M
      BY <1>0, <2>1, <2>2 DEF DigestAt, NoDigest, NoticesTyped
    <3>2. Cardinality(S \ {d}) <= Cardinality(S) /\ Cardinality(S \ {d}) \in Nat
      BY <2>1, FS_Subset, FS_CardinalityType
    <3>3. digest'[d].at = "idle"
      BY <1>0, <2>2 DEF NoDigest, NoticesTyped
    <3>4. mails'[g] <= mails[g] + (losses' - losses) /\ losses' >= losses
          /\ mails'[g] \in Nat /\ losses' \in Nat
      BY <1>0, <2>1, <2>2 DEF Mailed
    <3> HIDE DEF S, M
    <3>5. MailsOf(g)' <=>
            /\ bell[g] = "none" =>
                 /\ \A e \in DigestRun : digest'[e].at # "idle" => g \notin digest'[e].rows
                 /\ mails'[g] <= losses' + 1
                 /\ (\A c \in Caller : caller[c].fact = g => ~caller[c].sent) => mails'[g] <= losses'
            /\ bell[g] = "unsent" => mails'[g] <= losses' + Cardinality(M)
            /\ bell[g] = "sent" =>
                 mails'[g] + Cardinality(S \ {d}) <= losses' + Cardinality(DigestRun)
      BY <1>0, <3>1 DEF MailsOf
    <3>6. /\ bell[g] = "unsent" => mails[g] <= losses + Cardinality(M)
          /\ bell[g] = "sent" => mails[g] + Cardinality(S) <= losses + Cardinality(DigestRun)
      BY <2>1 DEF MailsOf, S, M
    <3>7. bell[g] = "none" =>
            /\ \A e \in DigestRun : digest'[e].at # "idle" => g \notin digest'[e].rows
            /\ mails'[g] <= losses' + 1
            /\ (\A c \in Caller : caller[c].fact = g => ~caller[c].sent) => mails'[g] <= losses'
      BY <2>1, <3>3, <3>4 DEF MailsOf
    <3> QED BY <2>1, <3>2, <3>4, <3>5, <3>6, <3>7, DigestCounts
  <2>3. CASE /\ mails' = Mailed(digest[d].rows) /\ losses' = losses
             /\ digest' = [digest EXCEPT ![d] = [@ EXCEPT !.at = "marking"]]
    <3>1. digest'[d].at = "marking" /\ digest'[d].rows = digest[d].rows
      BY <1>0, <2>3 DEF NoticesTyped
    <3>2. CASE g \notin digest[d].rows
      <4>1. DigestAt(g, "sending")' = S /\ DigestAt(g, "marking")' = M
        BY <1>0, <2>1, <3>1, <3>2 DEF DigestAt
      <4>2. mails'[g] = mails[g]
        BY <2>3, <3>2 DEF Mailed
      <4> QED BY <1>0, <2>1, <2>3, <3>1, <3>2, <4>1, <4>2 DEF MailsOf
    <3>3. CASE g \in digest[d].rows
      <4>1. DigestAt(g, "sending")' = S \ {d} /\ DigestAt(g, "marking")' = M \cup {d}
        BY <1>0, <2>1, <3>1, <3>3 DEF DigestAt
      <4>2. mails'[g] = mails[g] + 1
        BY <2>3, <3>3 DEF Mailed
      <4>3. Cardinality(S \ {d}) = Cardinality(S) - 1 /\ Cardinality(M \cup {d}) = Cardinality(M) + 1
        BY <2>1, <3>3, FS_AddElement, FS_RemoveElement
      <4>4. bell[g] # "none"
        BY <1>0, <2>1, <3>3 DEF MailsOf
      <4>5. bell'[g] = bell[g] /\ losses' = losses
        BY <1>0, <2>3
      <4>6. /\ Cardinality(DigestAt(g, "sending")') = Cardinality(S) - 1
            /\ Cardinality(DigestAt(g, "marking")') = Cardinality(M) + 1
        BY <4>1, <4>3
      <4>7. mails[g] \in Nat /\ losses \in Nat /\ Cardinality(S) \in Nat /\ Cardinality(M) \in Nat
        BY <2>1
      <4>8. bell[g] = "unsent" => mails[g] <= losses + Cardinality(M)
        BY <2>1 DEF MailsOf
      <4>9. bell[g] = "sent" => mails[g] + Cardinality(S) <= losses + Cardinality(DigestRun)
        BY <2>1 DEF MailsOf
      <4> HIDE DEF S, M
      <4> QED BY <4>2, <4>4, <4>5, <4>6, <4>7, <4>8, <4>9, DigestCounts DEF MailsOf
    <3> QED BY <3>2, <3>3
  <2> QED BY <1>a, <2>2, <2>3
<1> QED BY <1>1, <1>2 DEF NoticesInv

LEMMA DigestEndsInv ==
    ASSUME NoticesInv, NEW d \in DigestRun, MarkDigest(d) \/ LoseMarks(d)
    PROVE  NoticesInv'
<1>0. /\ NoticesTyped /\ KeyHeld /\ digest[d].at = "marking" /\ UNCHANGED <<caller, mails>>
      /\ digest' = [digest EXCEPT ![d] = NoDigest]
      /\ \/ losses' = losses /\ bell' = [f \in Fact |-> IF f \in digest[d].rows THEN "sent" ELSE bell[f]]
         \/ losses' = losses + 1 /\ UNCHANGED bell
  BY DEF NoticesInv, MarkDigest, LoseMarks
<1>1. NoticesTyped'
  BY <1>0 DEF NoticesTyped, NoDigest
<1>2. \A f \in Fact : f \in digest[d].rows => bell[f] # "none"
  BY <1>0 DEF NoticesInv, MailsOf
<1>3. KeyHeld'
  BY <1>0, <1>2 DEF KeyHeld, NoticesTyped
<1>4. ASSUME NEW g \in Fact PROVE MailsOf(g)'
  <2> DEFINE S == DigestAt(g, "sending")
             M == DigestAt(g, "marking")
  <2>1. /\ MailsOf(g) /\ \A e \in DigestRun \ {d} : digest'[e] = digest[e]
        /\ digest'[d].at = "idle"
        /\ IsFiniteSet(S) /\ IsFiniteSet(M) /\ Cardinality(S) \in Nat /\ Cardinality(M) \in Nat
        /\ mails[g] \in Nat /\ losses \in Nat /\ d \notin S
    BY <1>0, DigestCounts DEF NoticesInv, NoDigest, NoticesTyped, DigestAt
  <2>2. DigestAt(g, "sending")' = S /\ DigestAt(g, "marking")' = M \ {d}
    BY <2>1 DEF DigestAt
  <2>3. Cardinality(M \ {d}) \in Nat /\ Cardinality(M \ {d}) >= Cardinality(M) - 1
    BY <2>1, FS_RemoveElement, FS_CardinalityType, FS_Subset
  <2>4. CASE losses' = losses + 1 /\ UNCHANGED bell
    <3>1. mails'[g] = mails[g] /\ \A e \in DigestRun : digest'[e].at # "idle" => digest'[e] = digest[e]
      BY <1>0, <2>1
    <3>2. losses' = losses + 1 /\ bell'[g] = bell[g] /\ UNCHANGED caller
      BY <1>0, <2>4
    <3>3. bell[g] = "none" => MailsOf(g)'
      BY <2>1, <3>1, <3>2 DEF MailsOf
    <3>4. bell[g] # "none" => MailsOf(g)'
      <4>1. /\ Cardinality(DigestAt(g, "sending")') = Cardinality(S)
            /\ Cardinality(DigestAt(g, "marking")') \in Nat
            /\ Cardinality(DigestAt(g, "marking")') >= Cardinality(M) - 1
        BY <2>2, <2>3
      <4>2. mails[g] \in Nat /\ losses \in Nat /\ Cardinality(S) \in Nat /\ Cardinality(M) \in Nat
        BY <2>1
      <4>3. bell[g] = "unsent" => mails[g] <= losses + Cardinality(M)
        BY <2>1 DEF MailsOf, M
      <4>4. bell[g] = "sent" => mails[g] + Cardinality(S) <= losses + Cardinality(DigestRun)
        BY <2>1 DEF MailsOf, S
      <4> HIDE DEF S, M
      <4> QED BY <3>1, <3>2, <4>1, <4>2, <4>3, <4>4, DigestCounts DEF MailsOf
    <3> QED BY <3>3, <3>4
  <2>5. CASE /\ losses' = losses
             /\ bell' = [f \in Fact |-> IF f \in digest[d].rows THEN "sent" ELSE bell[f]]
    <3>1. CASE g \notin digest[d].rows
      <4>1. M \ {d} = M /\ bell'[g] = bell[g]
        BY <2>5, <3>1 DEF DigestAt
      <4> QED BY <1>0, <2>1, <2>2, <2>5, <3>1, <4>1 DEF MailsOf
    <3>2. CASE g \in digest[d].rows
      <4>1. bell'[g] = "sent" /\ bell[g] \in {"unsent", "sent"}
        BY <1>0, <1>2, <2>5, <3>2 DEF NoticesTyped
      <4>2. Cardinality(S) + Cardinality(M) <= Cardinality(DigestRun)
        BY DigestsApart
      <4> QED BY <1>0, <2>1, <2>2, <2>5, <4>1, <4>2, DigestCounts DEF MailsOf
    <3> QED BY <3>1, <3>2
  <2> QED BY <1>0, <2>4, <2>5
<1> QED BY <1>1, <1>3, <1>4 DEF NoticesInv

LEMMA NoticesStepInv == NoticesInv /\ [NoticesNext]_noticesVars => NoticesInv'
<1> SUFFICES ASSUME NoticesInv, [NoticesNext]_noticesVars PROVE NoticesInv'
  OBVIOUS
<1>1. CASE UNCHANGED noticesVars
  BY <1>1 DEF noticesVars, NoticesInv, NoticesTyped, KeyHeld, MailsOf, DigestAt
<1> QED BY <1>1, EmitInv, CallerEndsInv, ReadDigestInv, SendDigestInv, DigestEndsInv DEF NoticesNext

(* For any number of transactions and of overlapping digests: a fact is    *)
(* mailed at most once for each digest run, each commit that failed after  *)
(* its mail and each mail whose reply was lost.                            *)
THEOREM MailedOnceEach == NoticesSpec => []MailedOnce
<1>1. NoticesInv => MailedOnce
  <2> SUFFICES ASSUME NoticesInv, NEW f \in Fact
               PROVE  mails[f] <= Cardinality(DigestRun) + losses
    BY DEF MailedOnce
  <2>1. /\ mails[f] \in Nat /\ losses \in Nat /\ bell[f] \in {"none", "unsent", "sent"}
        /\ MailsOf(f)
    BY DEF NoticesInv, NoticesTyped
  <2> QED BY <2>1, DigestCounts, DigestsApart DEF MailsOf
<1> QED BY <1>1, NoticesInitInv, NoticesStepInv, PTL DEF NoticesSpec

(* A notice is none, unsent or sent, a transaction has one pending, and    *)
(* commits fail as often as they may (models/notification.py).             *)
THEOREM NoticesTypeCorrect == NoticesSpec => []NoticesTypeOK
<1> DEFINE Bounded == losses \in 0..MaxLosses
<1>1. NoticesInit => Bounded
  BY NoticesAssumption DEF NoticesInit
<1>2. Bounded /\ [NoticesNext]_noticesVars => Bounded'
  <2> SUFFICES ASSUME Bounded, [NoticesNext]_noticesVars PROVE Bounded'
    OBVIOUS
  <2> DEFINE Lost == losses < MaxLosses /\ losses' = losses + 1
  <2>1. \A c \in Caller : RollbackCaller(c) => Lost
    BY DEF RollbackCaller
  <2>2. \A d \in DigestRun : LoseMarks(d) => Lost
    BY DEF LoseMarks
  <2>a. ASSUME NEW facts, NEW sent \in BOOLEAN, Send(facts, sent) PROVE Lost \/ UNCHANGED losses
    BY <2>a DEF Send
  <2>3. ASSUME NEW c \in Caller, CommitCaller(c) \/ \E f \in Fact : Emit(c, f)
        PROVE  Lost \/ UNCHANGED losses
    <3> HIDE DEF Lost
    <3>1. CASE CommitCaller(c)
      BY <3>1 DEF CommitCaller
    <3>2. ASSUME NEW f \in Fact, Emit(c, f) PROVE Lost \/ UNCHANGED losses
      BY <2>a, <3>2 DEF Emit
    <3> QED BY <2>3, <3>1, <3>2
  <2>4. ASSUME NEW d \in DigestRun, ReadDigest(d) \/ SendDigest(d) \/ MarkDigest(d)
        PROVE  Lost \/ UNCHANGED losses
    <3> HIDE DEF Lost
    <3>1. CASE ReadDigest(d) \/ MarkDigest(d)
      BY <3>1 DEF ReadDigest, MarkDigest
    <3>2. CASE SendDigest(d)
      BY <2>a, <3>2 DEF SendDigest
    <3> QED BY <2>4, <3>1, <3>2
  <2>5. UNCHANGED noticesVars => UNCHANGED losses
    BY DEF noticesVars
  <2>6. Lost \/ UNCHANGED losses
    <3> HIDE DEF Lost
    <3> QED BY <2>1, <2>2, <2>3, <2>4, <2>5, Zenon DEF NoticesNext
  <2> QED BY <2>6, NoticesAssumption
<1>3. NoticesInv /\ Bounded => NoticesTypeOK
  BY DEF NoticesInv, NoticesTyped, NoticesTypeOK
<1> HIDE DEF Bounded
<1> QED BY <1>1, <1>2, <1>3, NoticesInitInv, NoticesStepInv, PTL DEF NoticesSpec

-----------------------------------------------------------------------------
(***************************************************************************)
(* The inbox.                                                              *)
(***************************************************************************)
Statuses == {"applied", "interview", "rejected"}

SyncRow == [at : {"idle", "listing", "reading"}, for : Mailbox \cup {NoSync.for},
            todo : SUBSET Mail, fresh : SUBSET Mail, flushed : SUBSET Mail,
            sees : Statuses, dirty : SUBSET Mail, locked : SUBSET Mail, alone : BOOLEAN]

InboxTyped ==
    /\ arrived \subseteq Mail /\ recorded \subseteq Mail
    /\ standing \in [Mailbox -> Statuses]
    /\ sync \in [Syncer -> SyncRow]
    /\ \A s \in Syncer : Running(s) => sync[s].for \in Mailbox
    /\ movedBy \in [Mail -> Nat]

(* A message that a sync holds, staged or flushed, is not recorded yet,    *)
(* and what it flushed is its own.                                         *)
HeldBack ==
    /\ \A s \in Syncer : /\ sync[s].dirty \subseteq sync[s].fresh
                         /\ sync[s].locked \subseteq sync[s].flushed
                         /\ sync[s].flushed \cap recorded = {}
    /\ sync["cycle"].flushed \cap sync["route"].flushed = {}

CountedWithRecord == \A m \in Mail : movedBy[m] <= 1 /\ (m \notin recorded => movedBy[m] = 0)

(* What a sync that nobody interfered with made of the status it read.     *)
LooksAhead ==
    \A s \in Syncer : Running(s) /\ sync[s].alone => Rank(sync[s].sees) >= Rank(standing[sync[s].for])

InboxInv == InboxTyped /\ HeldBack /\ CountedWithRecord /\ LooksAhead

LEMMA Ranks == Rank("applied") = 1 /\ Rank("interview") = 2 /\ Rank("rejected") = 3
<1>1. Standing[1] = "applied" /\ Standing[2] = "interview" /\ Standing[3] = "rejected"
  BY DEF Standing
<1> QED BY <1>1 DEF Rank

LEMMA RankInt == \A st \in Statuses : Rank(st) \in 1..3
  BY Ranks DEF Statuses

LEMMA AdvanceUp ==
    ASSUME NEW st \in Statuses, NEW m
    PROVE  Advance(st, m) \in Statuses /\ Rank(Advance(st, m)) >= Rank(st)
  BY Ranks DEF Advance, Statuses

LEMMA TwoSyncers == ASSUME NEW s \in Syncer
                    PROVE  Other(s) \in Syncer /\ Other(s) # s /\ \A o \in Syncer : o = s \/ o = Other(s)
<1>1. \E o \in Syncer : o # s
  BY DEF Syncer
<1> QED BY <1>1 DEF Syncer, Other

LEMMA InboxInitInv == InboxInit => InboxInv
<1> SUFFICES ASSUME InboxInit PROVE InboxInv
  OBVIOUS
<1>1. /\ \A s \in Syncer : sync[s] = NoSync
      /\ NoSync.fresh = {} /\ NoSync.flushed = {} /\ NoSync.dirty = {} /\ NoSync.locked = {}
      /\ NoSync.at = "idle"
  BY DEF InboxInit, NoSync
<1>2. InboxTyped
  <2>1. NoSync \in SyncRow
    BY <1>1 DEF SyncRow, NoSync, Statuses, Syncer
  <2> QED BY <1>1, <2>1 DEF InboxInit, InboxTyped, Running, Statuses
<1>3. HeldBack /\ CountedWithRecord /\ LooksAhead
  BY <1>1 DEF InboxInit, HeldBack, CountedWithRecord, LooksAhead, Running, Syncer
<1> QED BY <1>2, <1>3 DEF InboxInv

(* A step in which no sync stages or stores anything.                      *)
LEMMA InboxQuiet ==
    ASSUME InboxInv, UNCHANGED <<recorded, movedBy, standing>>, arrived' \subseteq Mail,
           sync' \in [Syncer -> SyncRow],
           \A s \in Syncer :
             \/ sync'[s] = NoSync
             \/ /\ sync'[s].for = sync[s].for /\ sync'[s].sees = sync[s].sees
                /\ sync'[s].alone = sync[s].alone /\ Running(s)
                /\ sync'[s].fresh = sync[s].fresh /\ sync'[s].dirty = sync[s].dirty
                /\ sync'[s].flushed = sync[s].flushed /\ sync'[s].locked = sync[s].locked
             \/ sync'[s] = sync[s]
    PROVE  InboxInv'
<1>1. NoSync.fresh = {} /\ NoSync.flushed = {} /\ NoSync.dirty = {} /\ NoSync.locked = {} /\ NoSync.at = "idle"
  BY DEF NoSync
<1>2. InboxTyped'
  BY <1>1 DEF InboxInv, InboxTyped, Running
<1>3. \A s \in Syncer : /\ sync'[s].dirty \subseteq sync'[s].fresh
                         /\ sync'[s].locked \subseteq sync'[s].flushed
                         /\ sync'[s].flushed \cap recorded = {}
                         /\ sync'[s].flushed \subseteq sync[s].flushed
  BY <1>1 DEF InboxInv, HeldBack
<1>4. HeldBack'
  <2>1. "cycle" \in Syncer /\ "route" \in Syncer
    BY DEF Syncer
  <2> QED BY <1>3, <2>1 DEF InboxInv, HeldBack
<1>5. CountedWithRecord'
  BY DEF InboxInv, CountedWithRecord
<1>6. LooksAhead'
  BY <1>1 DEF InboxInv, LooksAhead, Running
<1> QED BY <1>2, <1>4, <1>5, <1>6 DEF InboxInv

(* A sync begins with the status it reads.                                 *)
LEMMA BeginInv ==
    ASSUME InboxInv, NEW s \in Syncer, NEW u \in Mailbox, Begin(s, u),
           UNCHANGED <<arrived, recorded, standing, movedBy>>
    PROVE  InboxInv'
<1> DEFINE r == [NoSync EXCEPT !.at = "listing", !.for = u, !.sees = standing[u]]
<1>1. /\ r \in SyncRow /\ r.for = u /\ r.sees = standing[u]
      /\ r.fresh = {} /\ r.flushed = {} /\ r.dirty = {} /\ r.locked = {}
  BY DEF InboxInv, InboxTyped, SyncRow, NoSync, Statuses
<1>2. sync' = [sync EXCEPT ![s] = r]
  BY DEF Begin
<1> HIDE DEF r
<1>3. sync' \in [Syncer -> SyncRow] /\ sync'[s] = r /\ \A o \in Syncer \ {s} : sync'[o] = sync[o]
  BY <1>1, <1>2 DEF InboxInv, InboxTyped
<1>4. InboxTyped'
  BY <1>1, <1>3 DEF InboxInv, InboxTyped, Running
<1>5. HeldBack'
  <2>1. "cycle" \in Syncer /\ "route" \in Syncer
    BY DEF Syncer
  <2> QED BY <1>1, <1>3, <2>1 DEF InboxInv, HeldBack
<1>6. CountedWithRecord'
  BY DEF InboxInv, CountedWithRecord
<1>7. LooksAhead'
  <2>1. standing[u] \in Statuses
    BY DEF InboxInv, InboxTyped
  <2>2. Rank(r.sees) >= Rank(standing[r.for])
    BY <1>1, <2>1, RankInt
  <2> QED BY <1>3, <2>2 DEF InboxInv, LooksAhead, Running
<1> QED BY <1>4, <1>5, <1>6, <1>7 DEF InboxInv

(* One message is looked at.                                               *)
LEMMA LookInv ==
    ASSUME InboxInv, NEW s \in Syncer, NEW m \in Mail, NEW stage \in BOOLEAN, Look(s, m, stage)
    PROVE  InboxInv'
<1> DEFINE r == [Flushed(sync[s]) EXCEPT !.todo = @ \ {m}]
           next == Advance(r.sees, m)
           staged == [r EXCEPT !.fresh = {m}, !.sees = next,
                               !.dirty = IF next = r.sees THEN {} ELSE {m}]
<1>0. /\ InboxTyped /\ HeldBack /\ CountedWithRecord /\ LooksAhead
      /\ sync[s] \in SyncRow /\ sync[s].at = "reading" /\ UNCHANGED <<arrived, recorded, standing, movedBy>>
      /\ sync[s].fresh \cap recorded = {} /\ sync[s].fresh \cap sync[Other(s)].flushed = {}
  BY DEF InboxInv, InboxTyped, Look, Conflict, FlushWaits
<1>1. /\ r \in SyncRow /\ r.at = "reading" /\ r.for = sync[s].for /\ r.sees = sync[s].sees
      /\ r.alone = sync[s].alone /\ r.fresh = {} /\ r.dirty = {}
      /\ r.flushed = sync[s].flushed \cup sync[s].fresh
      /\ r.locked = sync[s].locked \cup sync[s].dirty
  BY <1>0 DEF SyncRow, Flushed
<1>2. r.sees \in Statuses /\ next \in Statuses /\ Rank(next) >= Rank(r.sees)
  BY <1>1, AdvanceUp DEF SyncRow
<1>3. /\ staged \in SyncRow /\ staged.for = r.for /\ staged.alone = r.alone
      /\ staged.sees = next /\ staged.at = r.at
      /\ staged.flushed = r.flushed /\ staged.locked = r.locked
      /\ staged.dirty \subseteq staged.fresh
  <2> HIDE DEF r, next
  <2> QED BY <1>1, <1>2 DEF SyncRow
<1>4. PICK new \in {r, staged} : sync' = [sync EXCEPT ![s] = new]
  BY DEF Look
<1> HIDE DEF r, next, staged
<1>5. /\ new \in SyncRow /\ new.for = sync[s].for /\ new.alone = sync[s].alone /\ new.at = "reading"
      /\ new.flushed = sync[s].flushed \cup sync[s].fresh
      /\ new.locked = sync[s].locked \cup sync[s].dirty
      /\ new.dirty \subseteq new.fresh
      /\ new.sees \in Statuses /\ Rank(new.sees) >= Rank(sync[s].sees)
  BY <1>1, <1>2, <1>3, <1>4, RankInt
<1>6. sync' \in [Syncer -> SyncRow] /\ sync'[s] = new /\ \A o \in Syncer \ {s} : sync'[o] = sync[o]
  BY <1>0, <1>4, <1>5 DEF InboxTyped
<1>7. InboxTyped'
  BY <1>0, <1>5, <1>6 DEF InboxTyped, Running
<1>8. HeldBack'
  <2>1. new.flushed \cap recorded = {} /\ new.locked \subseteq new.flushed
    BY <1>0, <1>5 DEF HeldBack
  <2>2. sync[s].flushed \cap sync[Other(s)].flushed = {}
    BY <1>0, TwoSyncers DEF HeldBack, Syncer
  <2>3. \A o \in Syncer \ {s} : new.flushed \cap sync'[o].flushed = {}
    BY <1>0, <1>5, <1>6, <2>2, TwoSyncers
  <2>4. \A o \in Syncer : /\ sync'[o].dirty \subseteq sync'[o].fresh
                         /\ sync'[o].locked \subseteq sync'[o].flushed
                         /\ sync'[o].flushed \cap recorded = {}
    BY <1>0, <1>5, <1>6, <2>1 DEF HeldBack
  <2>5. sync'["cycle"].flushed \cap sync'["route"].flushed = {}
    BY <1>6, <2>3 DEF Syncer
  <2> QED BY <1>0, <2>4, <2>5 DEF HeldBack
<1>9. CountedWithRecord'
  BY <1>0 DEF CountedWithRecord
<1>10. LooksAhead'
  <2>1. new.alone => Rank(new.sees) >= Rank(standing[new.for])
    <3>1. sync[s].alone => Rank(sync[s].sees) >= Rank(standing[sync[s].for])
      BY <1>0 DEF LooksAhead, Running
    <3>2. sync[s].sees \in Statuses /\ standing[new.for] \in Statuses
      BY <1>0, <1>5 DEF InboxTyped, Running, SyncRow
    <3> QED BY <1>5, <3>1, <3>2, RankInt
  <2> QED BY <1>0, <1>6, <2>1 DEF LooksAhead, Running
<1> QED BY <1>7, <1>8, <1>9, <1>10 DEF InboxInv

(* A sync stores what it holds.                                            *)
LEMMA StoreInv ==
    ASSUME InboxInv, NEW s \in Syncer, sync[s].at = "reading", Store(s), arrived' = arrived
    PROVE  InboxInv'
<1> DEFINE movers == sync[s].dirty \cup sync[s].locked
<1>0. /\ InboxTyped /\ HeldBack /\ CountedWithRecord /\ LooksAhead
      /\ sync[s] \in SyncRow /\ sync[s].for \in Mailbox
      /\ sync[s].fresh \cap recorded = {} /\ sync[s].fresh \cap sync[Other(s)].flushed = {}
      /\ recorded' = recorded \cup sync[s].flushed \cup sync[s].fresh
      /\ standing' = IF movers = {} THEN standing ELSE [standing EXCEPT ![sync[s].for] = sync[s].sees]
      /\ movedBy' = [m \in Mail |-> IF m \in movers THEN movedBy[m] + 1 ELSE movedBy[m]]
      /\ sync' = [o \in Syncer |->
               IF o = s THEN NoSync
               ELSE [sync[o] EXCEPT !.alone = @ /\ (movers = {} \/ sync[o].for # sync[s].for)]]
  BY DEF InboxInv, InboxTyped, Running, Store, Conflict, FlushWaits
<1>1. movers \subseteq sync[s].flushed \cup sync[s].fresh /\ movers \cap recorded = {}
  BY <1>0 DEF HeldBack
<1> HIDE DEF movers
<1>2. NoSync \in SyncRow /\ NoSync.at = "idle" /\ NoSync.fresh = {} /\ NoSync.flushed = {}
      /\ NoSync.dirty = {} /\ NoSync.locked = {}
  BY DEF NoSync, SyncRow, Statuses
<1>3. /\ sync'[s] = NoSync
      /\ \A o \in Syncer \ {s} :
           /\ sync'[o] \in SyncRow /\ sync'[o].at = sync[o].at /\ sync'[o].for = sync[o].for
           /\ sync'[o].sees = sync[o].sees /\ sync'[o].fresh = sync[o].fresh /\ sync'[o].dirty = sync[o].dirty
           /\ sync'[o].flushed = sync[o].flushed /\ sync'[o].locked = sync[o].locked
           /\ sync'[o].alone => sync[o].alone /\ (movers = {} \/ sync[o].for # sync[s].for)
  <2>1. ASSUME NEW o \in Syncer \ {s}
        PROVE  /\ sync'[o] \in SyncRow /\ sync'[o].at = sync[o].at /\ sync'[o].for = sync[o].for
               /\ sync'[o].sees = sync[o].sees /\ sync'[o].fresh = sync[o].fresh /\ sync'[o].dirty = sync[o].dirty
               /\ sync'[o].flushed = sync[o].flushed /\ sync'[o].locked = sync[o].locked
               /\ sync'[o].alone => sync[o].alone /\ (movers = {} \/ sync[o].for # sync[s].for)
    <3> DEFINE b == sync[o].alone /\ (movers = {} \/ sync[o].for # sync[s].for)
    <3>1. sync[o] \in SyncRow /\ sync'[o] = [sync[o] EXCEPT !.alone = b] /\ b \in BOOLEAN
      BY <1>0 DEF InboxTyped, SyncRow
    <3>2. b => sync[o].alone /\ (movers = {} \/ sync[o].for # sync[s].for)
      OBVIOUS
    <3> HIDE DEF b
    <3>3. sync'[o].alone = b
      BY <3>1 DEF SyncRow
    <3> QED BY <3>1, <3>2, <3>3 DEF SyncRow
  <2> QED BY <1>0, <2>1
<1>4. standing' \in [Mailbox -> Statuses] /\ \A u \in Mailbox : movers = {} \/ u # sync[s].for => standing'[u] = standing[u]
  BY <1>0 DEF InboxTyped, SyncRow
<1>5. InboxTyped'
  <2>1. sync' \in [Syncer -> SyncRow] /\ \A o \in Syncer : sync'[o].at # "idle" => sync'[o].for \in Mailbox
    BY <1>0, <1>2, <1>3 DEF InboxTyped, Running
  <2>2. movedBy' \in [Mail -> Nat]
    BY <1>0 DEF InboxTyped
  <2>3. recorded' \subseteq Mail
    BY <1>0 DEF InboxTyped, SyncRow
  <2> QED BY <1>0, <1>4, <2>1, <2>2, <2>3 DEF InboxTyped, Running
<1>6. HeldBack'
  <2>1. \A o \in Syncer \ {s} : sync[o].flushed \cap recorded' = {}
    BY <1>0, TwoSyncers DEF HeldBack, Syncer
  <2>2. \A o \in Syncer : /\ sync'[o].dirty \subseteq sync'[o].fresh
                         /\ sync'[o].locked \subseteq sync'[o].flushed
                         /\ sync'[o].flushed \cap recorded' = {}
    BY <1>0, <1>2, <1>3, <2>1 DEF HeldBack
  <2>3. sync'["cycle"].flushed \cap sync'["route"].flushed = {}
    BY <1>2, <1>3 DEF Syncer
  <2> QED BY <2>2, <2>3 DEF HeldBack
<1>7. CountedWithRecord'
  BY <1>0, <1>1 DEF CountedWithRecord, InboxTyped
<1>8. LooksAhead'
  <2> SUFFICES ASSUME NEW o \in Syncer, sync'[o].at # "idle", sync'[o].alone
               PROVE  Rank(sync'[o].sees) >= Rank(standing'[sync'[o].for])
    BY DEF LooksAhead, Running
  <2>1. o # s
    BY <1>2, <1>3
  <2>2. sync[o].for \in Mailbox /\ sync[o].alone /\ sync[o].at # "idle"
    BY <1>0, <1>3, <2>1 DEF InboxTyped, Running
  <2>3. standing'[sync[o].for] = standing[sync[o].for]
    BY <1>3, <1>4, <2>1, <2>2
  <2> QED BY <1>0, <1>3, <2>1, <2>2, <2>3 DEF LooksAhead, Running
<1> QED BY <1>5, <1>6, <1>7, <1>8 DEF InboxInv

(* The owner sets the status under the syncs of its mailbox.               *)
LEMMA CorrectInv ==
    ASSUME InboxInv, NEW u \in Mailbox, NEW i \in 1..3, Correct(u, Standing[i])
    PROVE  InboxInv'
<1>0. /\ InboxTyped /\ HeldBack /\ CountedWithRecord /\ LooksAhead
      /\ UNCHANGED <<arrived, recorded, movedBy>>
      /\ standing' = [standing EXCEPT ![u] = Standing[i]] /\ Standing[i] \in Statuses
      /\ sync' = [s \in Syncer |->
           IF Running(s) /\ sync[s].for = u THEN [sync[s] EXCEPT !.alone = FALSE] ELSE sync[s]]
  BY DEF InboxInv, Correct, Standing, Statuses
<1>1. \A o \in Syncer :
        /\ sync'[o] \in SyncRow /\ sync'[o].at = sync[o].at /\ sync'[o].for = sync[o].for
        /\ sync'[o].sees = sync[o].sees /\ sync'[o].fresh = sync[o].fresh /\ sync'[o].dirty = sync[o].dirty
        /\ sync'[o].flushed = sync[o].flushed /\ sync'[o].locked = sync[o].locked
        /\ Running(o) /\ sync'[o].alone => sync[o].alone /\ sync[o].for # u
  BY <1>0 DEF InboxTyped, SyncRow
<1>2. standing' \in [Mailbox -> Statuses] /\ \A v \in Mailbox \ {u} : standing'[v] = standing[v]
  BY <1>0 DEF InboxTyped
<1>3. InboxTyped'
  <2>1. sync' \in [Syncer -> SyncRow]
    BY <1>0, <1>1
  <2> QED BY <1>0, <1>1, <1>2, <2>1 DEF InboxTyped, Running
<1>4. HeldBack'
  <2>1. "cycle" \in Syncer /\ "route" \in Syncer
    BY DEF Syncer
  <2> QED BY <1>0, <1>1, <2>1 DEF HeldBack
<1>5. CountedWithRecord'
  BY <1>0 DEF CountedWithRecord
<1>6. LooksAhead'
  <2> SUFFICES ASSUME NEW o \in Syncer, sync'[o].at # "idle", sync'[o].alone
               PROVE  Rank(sync'[o].sees) >= Rank(standing'[sync'[o].for])
    BY DEF LooksAhead, Running
  <2>1. sync[o].for \in Mailbox /\ sync[o].alone /\ sync[o].for # u /\ Running(o)
    BY <1>0, <1>1 DEF InboxTyped, Running
  <2> QED BY <1>0, <1>1, <1>2, <2>1 DEF LooksAhead
<1> QED BY <1>3, <1>4, <1>5, <1>6 DEF InboxInv

LEMMA InboxStepInv == InboxInv /\ [InboxNext]_inboxVars => InboxInv'
<1> SUFFICES ASSUME InboxInv, [InboxNext]_inboxVars PROVE InboxInv'
  OBVIOUS
<1>0. /\ NoSync \in SyncRow /\ sync \in [Syncer -> SyncRow] /\ arrived \subseteq Mail
  BY DEF NoSync, SyncRow, Statuses, InboxInv, InboxTyped
<1>1. CASE UNCHANGED <<recorded, movedBy, standing, sync>> /\ arrived' \subseteq Mail
  BY <1>0, <1>1, InboxQuiet
<1>2. ASSUME NEW s \in Syncer, ListMessages(s) PROVE InboxInv'
  <2> DEFINE r == [sync[s] EXCEPT !.at = "reading", !.todo = MailOf(sync[s].for)]
  <2>1. /\ sync' = [sync EXCEPT ![s] = r] /\ sync[s].at = "listing" /\ sync[s] \in SyncRow
        /\ MailOf(sync[s].for) \subseteq Mail
    BY <1>0, <1>2 DEF ListMessages, MailOf
  <2>2. /\ r \in SyncRow /\ r.for = sync[s].for /\ r.sees = sync[s].sees
        /\ r.alone = sync[s].alone /\ r.fresh = sync[s].fresh /\ r.dirty = sync[s].dirty
        /\ r.flushed = sync[s].flushed /\ r.locked = sync[s].locked
    BY <2>1 DEF SyncRow
  <2> HIDE DEF r
  <2>3. UNCHANGED <<recorded, movedBy, standing, arrived>> /\ Running(s)
    BY <1>2, <2>1 DEF ListMessages, Running
  <2> QED BY <1>0, <2>1, <2>2, <2>3, InboxQuiet
<1>3. ASSUME NEW s \in Syncer, SyncConflicts(s) \/ ListFails(s) PROVE InboxInv'
  <2>1. UNCHANGED <<recorded, movedBy, standing, arrived>> /\ sync' = [sync EXCEPT ![s] = NoSync]
    BY <1>3 DEF SyncConflicts, ListFails
  <2> QED BY <1>0, <2>1, InboxQuiet
<1>4. ASSUME NEW s \in Syncer, FinishSync(s) PROVE InboxInv'
  BY <1>4, StoreInv DEF FinishSync
<1>5. ASSUME CancelCycle PROVE InboxInv'
  BY <1>5, StoreInv DEF CancelCycle, Syncer
<1>6. ASSUME NEW s \in Syncer, NEW m \in Mail, ReadMessage(s, m) \/ FetchFails(s, m) PROVE InboxInv'
  BY <1>6, LookInv DEF ReadMessage, FetchFails
<1>7. ASSUME NEW u \in Mailbox, TakeUser(u) \/ StartRoute(u) PROVE InboxInv'
  BY <1>7, BeginInv DEF TakeUser, StartRoute, Syncer
<1>8. ASSUME (\E m \in Mail : MailArrives(m)) \/ StartCycle \/ (\E u \in Mailbox : FailUser(u)) PROVE InboxInv'
  BY <1>0, <1>1, <1>8 DEF MailArrives, StartCycle, FailUser
<1> QED BY <1>0, <1>1, <1>2, <1>3, <1>4, <1>5, <1>6, <1>7, <1>8, CorrectInv
        DEF InboxNext, SyncProceeds, inboxVars

LEMMA InboxAlways == InboxSpec => []InboxInv
  BY InboxInitInv, InboxStepInv, PTL DEF InboxSpec

(* However the syncs of any number of mailboxes overlap, are cancelled or  *)
(* fail, an email moves its application once.                              *)
THEOREM EmailMovesOnce == InboxSpec => []MovedOnce
<1>1. InboxInv => MovedOnce
  BY DEF InboxInv, CountedWithRecord, MovedOnce
<1> QED BY <1>1, InboxAlways, PTL

(* What a sync that nobody interfered with stores does not move its        *)
(* application backwards, in whatever order the messages came.             *)
THEOREM AheadOnly == InboxSpec => NeverBackwards
<1>1. ASSUME InboxInv, [InboxNext]_inboxVars, NEW s \in Syncer,
             Running(s), sync[s].alone, sync'[s] = NoSync
      PROVE  Rank(standing'[sync[s].for]) >= Rank(standing[sync[s].for])
  <2>0. /\ Rank(sync[s].sees) >= Rank(standing[sync[s].for]) /\ sync[s].for \in Mailbox
        /\ standing \in [Mailbox -> Statuses] /\ sync \in [Syncer -> SyncRow]
        /\ NoSync.at = "idle" /\ sync[s].at # "idle" /\ standing[sync[s].for] \in Statuses
    BY <1>1 DEF InboxInv, InboxTyped, LooksAhead, Running, NoSync
  <2>1. CASE UNCHANGED standing
    BY <2>0, <2>1, RankInt
  <2>2. ASSUME NEW o \in Syncer, Store(o) PROVE Rank(standing'[sync[s].for]) >= Rank(standing[sync[s].for])
    <3>1. o = s
      BY <1>1, <2>0, <2>2 DEF Store, SyncRow
    <3> QED BY <2>0, <2>2, <3>1, RankInt DEF Store
  <2>3. ASSUME NEW u \in Mailbox, NEW i \in 1..3, Correct(u, Standing[i]) PROVE FALSE
    BY <1>1, <2>0, <2>3 DEF Correct, SyncRow
  <2> QED BY <1>1, <2>1, <2>2, <2>3
          DEF InboxNext, inboxVars, MailArrives, StartCycle, CancelCycle, TakeUser, FailUser, StartRoute,
              SyncProceeds, ListMessages, FinishSync, SyncConflicts, ReadMessage, ListFails, FetchFails,
              Look, Syncer
<1>2. InboxInv /\ [InboxNext]_inboxVars =>
        [\A s \in Syncer :
           Running(s) /\ sync[s].alone /\ sync'[s] = NoSync =>
             Rank(standing'[sync[s].for]) >= Rank(standing[sync[s].for])]_inboxVars
  BY <1>1
<1> QED BY <1>2, InboxAlways, PTL DEF InboxSpec, NeverBackwards

-----------------------------------------------------------------------------
(* A session that still works.  Only a commit of someone who read the row  *)
(* before the session was stored takes it; a check before an apply run is  *)
(* one of those.                                                           *)
ChecksExpired == \A t \in WebTab : tab[t].op = "expire" => ~StillValid(tab[t].snap)

HostsListed == DOMAIN host = Host

StaysUsable(p) ==
    StillValid(session[p]) /\ session'[p].id = session[p].id /\ session'[p].valid
    => \/ session'[p].state = "session_active" \/ session'[p].state \in Pending
       \/ session'[p].state = session[p].state
       \/ ReadBefore(p)

LEMMA ExpiredInit == ConnectInit => ChecksExpired
  BY DEF ConnectInit, ChecksExpired, IdleTab

LEMMA ExpiredStep == ConnectInv /\ ChecksExpired /\ [ConnectNext]_connectVars => ChecksExpired'
<1> SUFFICES ASSUME ConnectInv, ChecksExpired, [ConnectNext]_connectVars PROVE ChecksExpired'
  OBVIOUS
<1>0. tab \in [WebTab -> [op : TabOp, portal : Portal \cup {NoPortal}, snap : StoredRow, to : SessionState]]
  BY DEF ConnectInv, ConnectTyped
<1>1. CASE UNCHANGED tab
  BY <1>1 DEF ChecksExpired
<1>2. ASSUME NEW t \in WebTab, Done(t) PROVE ChecksExpired'
  BY <1>0, <1>2 DEF Done, IdleTab, ChecksExpired
<1>3. ASSUME NEW t \in WebTab, NEW op \in TabOp, NEW p \in Portal, NEW to, Goto(t, op, p, to),
             op = "expire" => ~session[p].valid
      PROVE  ChecksExpired'
  <2>1. AsRead(session[p]).valid = session[p].valid
    BY DEF AsRead, ConnectInv, ConnectTyped, StoredRow
  <2> DEFINE new == [op |-> op, portal |-> p, snap |-> AsRead(session[p]), to |-> to]
  <2>2. tab' = [tab EXCEPT ![t] = new] /\ new.op = op /\ new.snap = AsRead(session[p])
    BY <1>3 DEF Goto
  <2> HIDE DEF new
  <2>3. tab'[t] = new /\ \A u \in WebTab \ {t} : tab'[u] = tab[u]
    BY <1>0, <2>2
  <2>4. new.op = "expire" => ~StillValid(new.snap)
    BY <1>3, <2>1, <2>2 DEF StillValid
  <2> QED BY <2>3, <2>4 DEF ChecksExpired
<1>4. ASSUME NEW t \in WebTab, NEW p \in Portal,
             \/ AskToConnect(t, p) \/ ExpireIfStranded(t, p) \/ CancelConnect(t, p)
             \/ CheckBeforeApply(t, p) \/ Disconnect(t, p) \/ ImportSession(t, p)
      PROVE  ChecksExpired'
  <2>1. PICK op \in TabOp, to \in SessionState : Goto(t, op, p, to) /\ (op = "expire" => ~session[p].valid)
    BY <1>4 DEF AskToConnect, ExpireIfStranded, CancelConnect, CheckBeforeApply, Disconnect,
                ImportSession, TabOp, SessionState
  <2> QED BY <1>3, <2>1
<1>5. ASSUME NEW t \in WebTab, Commit(t) PROVE ChecksExpired'
  BY <1>2, <1>5 DEF Commit, CommitRequest, CommitSettle, CommitExpired, CommitDisconnect, CommitImport
<1>6. ASSUME NEW h \in Host,
             \/ Drive(h) \/ HostDies(h) \/ (\E p \in Portal : Claim(h, p))
             \/ (\E t \in WebTab : CancelLocal(t, h) \/ \E p \in Portal : StartLocal(t, h, p))
      PROVE  UNCHANGED tab
  BY <1>6 DEF Drive, HostDies, Claim, CancelLocal, StartLocal, OpenWindow, SignIn, GiveUp, AttemptFails,
              PersistCookies, PersistRow, Watch, Finish, SettleConnect
<1>7. ClockTick \/ (\E p \in Portal : CookiesExpire(p)) => UNCHANGED tab
  BY DEF ClockTick, CookiesExpire
<1> QED BY <1>1, <1>4, <1>5, <1>6, <1>7 DEF ConnectNext, connectVars

LEMMA HostsStep == HostsListed /\ [ConnectNext]_connectVars => HostsListed'
<1> SUFFICES ASSUME HostsListed, [ConnectNext]_connectVars PROVE HostsListed'
  OBVIOUS
<1>1. CASE UNCHANGED host
  BY <1>1 DEF HostsListed
<1>2. ASSUME NEW h, NEW new, host' = [host EXCEPT ![h] = new] PROVE HostsListed'
  BY <1>2 DEF HostsListed
<1>3. ASSUME NEW h \in Host,
             \/ Drive(h) \/ HostDies(h) \/ (\E p \in Portal : Claim(h, p))
             \/ (\E t \in WebTab : CancelLocal(t, h) \/ \E p \in Portal : StartLocal(t, h, p))
      PROVE  HostsListed'
  <2>1. \/ UNCHANGED host
        \/ \E new : host' = [host EXCEPT ![h] = new]
    BY <1>3 DEF Drive, HostDies, Claim, CancelLocal, StartLocal, OpenWindow, SignIn, GiveUp,
                AttemptFails, Becomes, PersistCookies, PersistRow, Watch, Finish, SettleConnect
  <2> QED BY <1>1, <1>2, <2>1
<1>4. CASE ClockTick
  BY <1>4 DEF ClockTick, HostsListed
<1> QED BY <1>1, <1>3, <1>4 DEF ConnectNext, connectVars, Commit, AskToConnect, ExpireIfStranded,
        CancelConnect, CheckBeforeApply, Disconnect, ImportSession, CookiesExpire, CommitRequest,
        CommitSettle, CommitExpired, CommitDisconnect, CommitImport

(* Writing a state, or the row of a session just stored.                   *)
LEMMA WriteStays ==
    ASSUME ConnectInv, NEW q, NEW snap, NEW state \in SessionState, WriteState(q, snap, state)
    PROVE  \A p \in Portal : session'[p].state = session[p].state \/ (p = q /\ session'[p].state = state)
<1> DEFINE new == [session[q] EXCEPT !.state = state, !.age = 0]
<1>1. session \in [Portal -> StoredRow]
  BY DEF ConnectInv, ConnectTyped
<1>2. session' = session \/ session' = [session EXCEPT ![q] = new]
  BY DEF WriteState
<1>3. q \in Portal => new \in StoredRow /\ new.state = state
  BY <1>1, SetBoth
<1> HIDE DEF new
<1> QED BY <1>1, <1>2, <1>3, PutRow

LEMMA UpsertStays ==
    ASSUME ConnectInv, NEW q, UpsertRow(q)
    PROVE  \A p \in Portal : session'[p] = session[p] \/ session'[p].state = "session_active"
<1> DEFINE new == [id |-> IF Exists(session[q]) THEN session[q].id ELSE rows', state |-> "session_active",
                   stored |-> TRUE, valid |-> TRUE, age |-> 0]
<1>1. session' = [session EXCEPT ![q] = new] /\ new.state = "session_active"
  BY DEF UpsertRow
<1> HIDE DEF new
<1> QED BY <1>1 DEF ConnectInv, ConnectTyped

LEMMA SettleStays ==
    ASSUME NEW snap, NEW state \in {"auth_required", "not_connected"}
    PROVE  /\ SettleTo(snap, state) \in SessionState
           /\ SettleTo(snap, state) = "session_active" \/ ~StillValid(snap)
  BY DEF SettleTo, SessionState

LEMMA UsableStep == ConnectInv /\ ChecksExpired /\ HostsListed /\ [ConnectNext]_connectVars
                    => \A p \in Portal : StaysUsable(p)
<1> SUFFICES ASSUME ConnectInv, ChecksExpired, HostsListed, [ConnectNext]_connectVars,
                    NEW p \in Portal
             PROVE  StaysUsable(p)
  OBVIOUS
<1>0. /\ session \in [Portal -> StoredRow] /\ rows \in Nat
      /\ tab \in [WebTab -> [op : TabOp, portal : Portal \cup {NoPortal}, snap : StoredRow, to : SessionState]]
  BY DEF ConnectInv, ConnectTyped
<1>1. CASE session'[p].state = session[p].state
  BY <1>1 DEF StaysUsable
<1>2. CASE session'[p].state = "session_active" \/ session'[p].state \in Pending
  BY <1>2 DEF StaysUsable
<1>3. CASE StillValid(session[p]) => session'[p].id # session[p].id \/ ~session'[p].valid
  BY <1>3 DEF StaysUsable
<1>4. ASSUME NEW t \in WebTab, CommitRequest(t) PROVE StaysUsable(p)
  <2> DEFINE q == tab[t].portal
  <2>1. CASE session' = session
    BY <1>1, <2>1
  <2>2. CASE session' = [session EXCEPT ![q].state = "interactive_available", ![q].age = 0]
    <3> DEFINE new == [session[q] EXCEPT !.state = "interactive_available", !.age = 0]
    <3>1. session' = [session EXCEPT ![q] = new]
      BY <2>2
    <3>2. q \in Portal => new.state = "interactive_available"
      BY <1>0, SetBoth DEF SessionState
    <3> HIDE DEF new
    <3>3. session'[p] = session[p] \/ session'[p].state = "interactive_available"
      BY <1>0, <3>1, <3>2
    <3> QED BY <1>1, <1>2, <3>3 DEF Pending
  <2>3. CASE session' = [session EXCEPT ![q] = [NoRow EXCEPT !.id = rows', !.state = "interactive_available"]]
    <3> DEFINE new == [NoRow EXCEPT !.id = rows', !.state = "interactive_available"]
    <3>1. session' = [session EXCEPT ![q] = new] /\ new.state = "interactive_available"
      BY <2>3 DEF NoRow
    <3> HIDE DEF new
    <3>2. session'[p] = session[p] \/ session'[p].state = "interactive_available"
      BY <1>0, <3>1
    <3> QED BY <1>1, <1>2, <3>2 DEF Pending
  <2> QED BY <1>4, <2>1, <2>2, <2>3 DEF CommitRequest
<1>5. ASSUME NEW t \in WebTab, CommitSettle(t) \/ CommitExpired(t) PROVE StaysUsable(p)
  <2>1. PICK state \in SessionState :
          /\ WriteState(tab[t].portal, tab[t].snap, state)
          /\ state = "session_active" \/ ~StillValid(tab[t].snap)
    <3>1. CASE CommitSettle(t)
      <4>1. tab[t].to \in {"auth_required", "not_connected"}
        BY <3>1 DEF CommitSettle, ConnectInv
      <4> QED BY <3>1, <4>1, SettleStays DEF CommitSettle
    <3>2. CASE CommitExpired(t)
      BY <3>2 DEF CommitExpired, ChecksExpired, SessionState
    <3> QED BY <1>5, <3>1, <3>2
  <2>2. tab'[t] = IdleTab
    BY <1>0, <1>5 DEF CommitSettle, CommitExpired, Done
  <2>3. session'[p].state = session[p].state \/ (p = tab[t].portal /\ session'[p].state = state)
    BY <2>1, WriteStays
  <2>4. CASE p = tab[t].portal /\ ~StillValid(tab[t].snap)
    BY <2>2, <2>4 DEF StaysUsable, ReadBefore
  <2> QED BY <1>1, <1>2, <2>1, <2>3, <2>4
<1>6. ASSUME NEW t \in WebTab, CommitDisconnect(t) PROVE StaysUsable(p)
  <2>1. session' = [session EXCEPT ![tab[t].portal] = NoRow]
    BY <1>6 DEF CommitDisconnect
  <2>2. session'[p] = session[p] \/ session'[p] = NoRow
    BY <1>0, <2>1
  <2>3. NoRow.valid = FALSE
    BY DEF NoRow
  <2> QED BY <1>1, <1>3, <2>2, <2>3
<1>7. ASSUME NEW t \in WebTab, CommitImport(t) PROVE StaysUsable(p)
  BY <1>1, <1>2, <1>7, UpsertStays DEF CommitImport
<1>8. ASSUME NEW h \in Host, SettleConnect(h) PROVE StaysUsable(p)
  <2> DEFINE to == IF host[h].attempt = "cancelled" THEN "not_connected" ELSE "auth_required"
             state == SettleTo(host[h].snap, to)
  <2>1. state \in SessionState /\ (state = "session_active" \/ ~StillValid(host[h].snap))
    BY SettleStays
  <2>2. WriteState(host[h].portal, host[h].snap, state) /\ host' = [host EXCEPT ![h] = IdleHost]
    BY <1>8 DEF SettleConnect
  <2> HIDE DEF state
  <2>3. session'[p].state = session[p].state \/ (p = host[h].portal /\ session'[p].state = state)
    BY <2>1, <2>2, WriteStays
  <2>4. CASE p = host[h].portal /\ ~StillValid(host[h].snap)
    <3>1. host'[h] = IdleHost
      BY <2>2 DEF HostsListed
    <3> QED BY <2>4, <3>1 DEF StaysUsable, ReadBefore
  <2> QED BY <1>1, <1>2, <2>1, <2>3, <2>4
<1>9. ASSUME NEW h \in Host, PersistRow(h) PROVE StaysUsable(p)
  BY <1>1, <1>2, <1>9, UpsertStays DEF PersistRow
<1>10. ASSUME NEW h \in Host, Watch(h) PROVE StaysUsable(p)
  <2> DEFINE new == [session[host[h].portal] EXCEPT !.age = 0]
  <2>1. host[h].portal \in Portal => new.state = session[host[h].portal].state
    BY <1>0, SetAge
  <2>2. session' = session \/ session' = [session EXCEPT ![host[h].portal] = new]
    BY <1>10 DEF Watch
  <2> HIDE DEF new
  <2> QED BY <1>0, <1>1, <2>1, <2>2
<1>11. ASSUME NEW h \in Host, NEW q \in Portal, Claim(h, q) PROVE StaysUsable(p)
  <2> DEFINE new == [session[q] EXCEPT !.state = "human_verification_required", !.age = 0]
  <2>1. session' = [session EXCEPT ![q] = new]
    BY <1>11 DEF Claim
  <2>2. new.state = "human_verification_required"
    BY <1>0, SetBoth DEF SessionState
  <2> HIDE DEF new
  <2>3. session'[p] = session[p] \/ session'[p].state = "human_verification_required"
    BY <1>0, <2>1, <2>2
  <2> QED BY <1>1, <1>2, <2>3 DEF Pending
<1>12. ASSUME ClockTick PROVE StaysUsable(p)
  <2>1. session'[p] = Aged(session[p]) /\ session[p] \in StoredRow
    BY <1>0, <1>12 DEF ClockTick
  <2>2. Aged(session[p]).state = session[p].state
    BY <2>1 DEF Aged, StoredRow
  <2> QED BY <1>1, <2>1, <2>2
<1>13. ASSUME NEW q \in Portal, CookiesExpire(q) PROVE StaysUsable(p)
  <2>1. session' = [session EXCEPT ![q] = [session[q] EXCEPT !.valid = FALSE]]
    BY <1>13 DEF CookiesExpire
  <2>2. [session[q] EXCEPT !.valid = FALSE].state = session[q].state
    BY <1>0 DEF StoredRow
  <2> QED BY <1>0, <1>1, <2>1, <2>2
<1>14. CASE UNCHANGED session
  BY <1>1, <1>14
<1> QED BY <1>4, <1>5, <1>6, <1>7, <1>8, <1>9, <1>10, <1>11, <1>12, <1>13, <1>14
        DEF ConnectNext, connectVars, Commit, Drive, AskToConnect, ExpireIfStranded, CancelConnect,
            CheckBeforeApply, Disconnect, ImportSession, StartLocal, CancelLocal, HostDies,
            OpenWindow, SignIn, GiveUp, AttemptFails, PersistCookies, Finish

(* Whatever is clicked, cancelled, stranded or imported, a session that    *)
(* still works is taken out of use only by a commit of someone who had     *)
(* read the row before the session was stored.                             *)
THEOREM UsableKept == ConnectSafety => UsableSessionStays
<1>1. ConnectInv /\ ChecksExpired /\ HostsListed /\ [ConnectNext]_connectVars =>
        [\A p \in Portal :
          StillValid(session[p]) /\ session'[p].id = session[p].id /\ session'[p].valid
          => \/ session'[p].state = "session_active" \/ session'[p].state \in Pending
             \/ session'[p].state = session[p].state
             \/ ReadBefore(p)]_connectVars
  BY UsableStep DEF StaysUsable
<1>2. ConnectInit => HostsListed
  BY DEF ConnectInit, HostsListed
<1> QED BY <1>1, <1>2, ConnectInitInv, ConnectStepInv, ExpiredInit, ExpiredStep, HostsStep, PTL
        DEF ConnectSafety, UsableSessionStays

-----------------------------------------------------------------------------
(***************************************************************************)
(* Duplicates of a vacancy.                                                *)
(***************************************************************************)
RowIds == Nat \X Nat

SearchRow == [at : {"idle", "fetching", "storing", "linking", "writing"},
              known : SUBSET RowIds, found : SUBSET Listing, link : SUBSET (RowIds \X RowIds)]

CommitsOrdered ==
    /\ byAge \in Seq(Nat) /\ Len(byAge) = commits
    /\ \A i \in 1..commits : byAge[i] \in 1..commits
    /\ \A i, j \in 1..commits : byAge[i] = byAge[j] => i = j
    /\ \A c \in 1..commits : \E i \in 1..commits : byAge[i] = c

DiscoveryTyped ==
    /\ commits \in Nat
    /\ born \in [Listing -> 0..commits]
    /\ canonical \in [Listing -> RowIds]
    /\ search \in [Searcher -> SearchRow]

(* The order of the rows is that of their commits, with ties, and later    *)
(* commits do not disturb it.                                              *)
Older(q, r) ==
    \E i, j \in 1..commits : byAge[i] = q[2] /\ byAge[j] = r[2] /\ i <= j

LinksBack(r, q) == q # r => Older(q, r) /\ q[1] \in Vacancy(r[1], Listing)

(* A row is linked, or about to be, to one of its vacancy that is no       *)
(* younger.                                                                *)
VacancyInv ==
    /\ DiscoveryTyped /\ CommitsOrdered
    /\ \A l \in Listing : canonical[l] # NoVacancyRow =>
         l \in StoredJobs /\ LinksBack(Row(l), canonical[l])
    /\ \A s \in Searcher : \A p \in search[s].link : LinksBack(p[1], p[2])

LEMMA VacancyMembers ==
    ASSUME NEW ads, NEW l \in ads
    PROVE  l \in Vacancy(l, ads) /\ Vacancy(l, ads) \subseteq ads
BY DEF Vacancy

LEMMA VacancyTransitive ==
    ASSUME NEW ads, NEW l \in ads, NEW m \in Vacancy(l, ads), NEW k \in Vacancy(m, ads)
    PROVE  k \in Vacancy(l, ads)
BY DEF Vacancy

LEMMA VacancySymmetric ==
    ASSUME NEW ads, NEW l \in ads, NEW m \in Vacancy(l, ads)
    PROVE  l \in Vacancy(m, ads)
<1> SUFFICES ASSUME NEW S \in SUBSET ads, m \in S, Neighbours(S, ads) \subseteq S, l \notin S
             PROVE  FALSE
  BY DEF Vacancy
<1>1. Neighbours(ads \ S, ads) \subseteq ads \ S
  BY DEF Neighbours
<1> QED BY <1>1 DEF Vacancy

LEMMA VacancyGrows ==
    ASSUME NEW ads, NEW more, ads \subseteq more, NEW l \in ads, NEW m \in Vacancy(l, ads)
    PROVE  m \in Vacancy(l, more)
<1> SUFFICES ASSUME NEW S \in SUBSET more, l \in S, Neighbours(S, more) \subseteq S
             PROVE  m \in S
  BY DEF Vacancy
<1>1. Neighbours(S \cap ads, ads) \subseteq S \cap ads
  BY DEF Neighbours
<1> QED BY <1>1 DEF Vacancy

LEMMA VacancyInit == DiscoveryInit => VacancyInv
<1> SUFFICES ASSUME DiscoveryInit PROVE VacancyInv
  OBVIOUS
<1>1. NoSearch \in SearchRow /\ NoVacancyRow \in RowIds
  BY DEF NoSearch, SearchRow, NoVacancyRow, RowIds
<1> QED BY <1>1
        DEF DiscoveryInit, VacancyInv, DiscoveryTyped, CommitsOrdered, NoSearch

LEMMA Joined ==
    ASSUME NEW s \in Seq(Nat), NEW t \in Seq(Nat)
    PROVE  /\ s \o t \in Seq(Nat) /\ Len(s \o t) = Len(s) + Len(t)
           /\ \A i \in 1..Len(s) : (s \o t)[i] = s[i]
           /\ \A i \in 1..Len(t) : (s \o t)[i + Len(s)] = t[i]
<1>1. \A i \in 1..Len(s) + Len(t) : (s \o t)[i] = IF i <= Len(s) THEN s[i] ELSE t[i - Len(s)]
  BY ConcatProperties
<1>2. s \o t \in Seq(Nat) /\ Len(s \o t) = Len(s) + Len(t)
  BY ConcatProperties
<1>3. \A i \in 1..Len(s) : (s \o t)[i] = s[i]
  BY <1>1
<1>4. \A i \in 1..Len(t) : (s \o t)[i + Len(s)] = t[i]
  BY <1>1
<1> QED BY <1>2, <1>3, <1>4

LEMMA Part ==
    ASSUME NEW s \in Seq(Nat), NEW a \in Nat \ {0}, NEW b \in Nat, b <= Len(s), a <= b + 1
    PROVE  /\ SubSeq(s, a, b) \in Seq(Nat) /\ Len(SubSeq(s, a, b)) = b - a + 1
           /\ \A i \in 1..b - a + 1 : SubSeq(s, a, b)[i] = s[a + i - 1]
<1>1. \A i \in a..b : s[i] \in Nat
  OBVIOUS
<1>2. a \in Int /\ b \in Int
  OBVIOUS
<1>3. /\ SubSeq(s, a, b) \in Seq(Nat)
      /\ Len(SubSeq(s, a, b)) = IF a <= b THEN b - a + 1 ELSE 0
      /\ \A i \in 1..b - a + 1 : SubSeq(s, a, b)[i] = s[a + i - 1]
  BY <1>1, <1>2, SubSeqProperties
<1>4. Len(SubSeq(s, a, b)) = b - a + 1
  BY <1>3
<1> QED BY <1>3, <1>4

(* A commit inserted as the k-th: the k-th and later ones move up by one.  *)
Insertion(s, k, c) == SubSeq(s, 1, k - 1) \o <<c>> \o SubSeq(s, k, Len(s))

InsertedAt(t, s, n, k, c) ==
    /\ t \in Seq(Nat) /\ Len(t) = n + 1 /\ t[k] = c
    /\ \A i \in 1..n : t[IF i < k THEN i ELSE i + 1] = s[i]

LEMMA Inserted ==
    ASSUME NEW s \in Seq(Nat), NEW n \in Nat, Len(s) = n, NEW k \in 1..n + 1, NEW c \in Nat
    PROVE  InsertedAt(Insertion(s, k, c), s, n, k, c)
<1> DEFINE t     == Insertion(s, k, c)
           lower  == SubSeq(s, 1, k - 1)
           upper == SubSeq(s, k, Len(s))
           last  == <<c>>
           front == lower \o last
<1>1. /\ lower \in Seq(Nat) /\ Len(lower) = k - 1 /\ \A i \in 1..k - 1 : lower[i] = s[i]
      /\ upper \in Seq(Nat) /\ Len(upper) = n - k + 1
      /\ \A i \in 1..n - k + 1 : upper[i] = s[k + i - 1]
  <2>1. k \in Nat \ {0} /\ k - 1 \in Nat /\ k - 1 <= Len(s) /\ 1 <= k - 1 + 1 /\ 1 \in Nat \ {0}
        /\ k - 1 - 1 + 1 = k - 1 /\ Len(s) \in Nat /\ Len(s) <= Len(s) /\ k <= Len(s) + 1
    OBVIOUS
  <2>2. /\ lower \in Seq(Nat) /\ Len(lower) = k - 1 - 1 + 1
        /\ \A i \in 1..k - 1 - 1 + 1 : lower[i] = s[1 + i - 1]
    BY <2>1, Part
  <2>3. /\ upper \in Seq(Nat) /\ Len(upper) = Len(s) - k + 1
        /\ \A i \in 1..Len(s) - k + 1 : upper[i] = s[k + i - 1]
    BY <2>1, Part
  <2>4. \A i \in 1..k - 1 : lower[i] = s[i]
    <3> SUFFICES ASSUME NEW i \in 1..k - 1 PROVE lower[i] = s[i]
      OBVIOUS
    <3>1. 1 + i - 1 = i /\ i \in 1..k - 1 - 1 + 1
      BY <2>1
    <3> QED BY <2>2, <3>1
  <2> QED BY <2>1, <2>2, <2>3, <2>4
<1>2. last \in Seq(Nat) /\ Len(last) = 1 /\ last[1] = c
  OBVIOUS
<1>3. t = front \o upper
  BY DEF Insertion
<1> HIDE DEF t, lower, upper, last
<1>4. /\ front \in Seq(Nat) /\ Len(front) = k /\ front[k] = c
      /\ \A i \in 1..k - 1 : front[i] = s[i]
  <2>1. /\ front \in Seq(Nat) /\ Len(front) = Len(lower) + Len(last)
        /\ \A i \in 1..Len(lower) : front[i] = lower[i]
        /\ \A i \in 1..Len(last) : front[i + Len(lower)] = last[i]
    BY <1>1, <1>2, Joined
  <2> HIDE DEF front
  <2>2. front[1 + (k - 1)] = c /\ 1 + (k - 1) = k
    BY <1>1, <1>2, <2>1
  <2> QED BY <1>1, <1>2, <2>1, <2>2
<1> HIDE DEF front
<1>5. /\ t \in Seq(Nat) /\ Len(t) = n + 1
      /\ \A i \in 1..k : t[i] = front[i]
      /\ \A i \in 1..n - k + 1 : t[i + k] = upper[i]
  <2>1. /\ t \in Seq(Nat) /\ Len(t) = Len(front) + Len(upper)
        /\ \A i \in 1..Len(front) : t[i] = front[i]
        /\ \A i \in 1..Len(upper) : t[i + Len(front)] = upper[i]
    <3>1. /\ front \o upper \in Seq(Nat) /\ Len(front \o upper) = Len(front) + Len(upper)
          /\ \A i \in 1..Len(front) : (front \o upper)[i] = front[i]
          /\ \A i \in 1..Len(upper) : (front \o upper)[i + Len(front)] = upper[i]
      BY <1>1, <1>4, Joined
    <3> QED BY <1>3, <3>1
  <2>2. Len(front) = k /\ Len(upper) = n - k + 1 /\ k + (n - k + 1) = n + 1
    BY <1>1, <1>4
  <2>3. ASSUME NEW i \in 1..n - k + 1 PROVE t[i + k] = upper[i]
    BY <2>1, <2>2
  <2> QED BY <2>1, <2>2, <2>3
<1>6. ASSUME NEW i \in 1..n, i < k PROVE t[i] = s[i]
  BY <1>4, <1>5, <1>6
<1>7. ASSUME NEW i \in 1..n, ~(i < k) PROVE t[i + 1] = s[i]
  <2>1. i + 1 - k \in 1..n - k + 1 /\ i + 1 = (i + 1 - k) + k /\ k + (i + 1 - k) - 1 = i
    BY <1>7
  <2> HIDE DEF t
  <2>2. t[i + 1] = upper[i + 1 - k] /\ upper[i + 1 - k] = s[i]
    <3> DEFINE h == i + 1 - k
    <3>1. h \in 1..n - k + 1 /\ i + 1 = h + k /\ k + h - 1 = i
      BY <2>1
    <3> HIDE DEF h
    <3>2. t[h + k] = upper[h] /\ upper[h] = s[k + h - 1]
      BY <1>1, <1>5, <3>1
    <3> QED BY <3>1, <3>2 DEF h
  <2> QED BY <2>2
<1>8. t[k] = c
  BY <1>4, <1>5
<1> QED BY <1>5, <1>6, <1>7, <1>8 DEF InsertedAt, t

(* The commit of a search takes its place among the earlier ones.          *)
LEMMA CommitPlaced ==
    ASSUME commits \in Nat, CommitsOrdered, commits' = commits + 1, NEW k \in 1..commits + 1,
           InsertedAt(byAge', byAge, commits, k, commits + 1)
    PROVE  CommitsOrdered' /\ \A q, r : Older(q, r) => Older(q, r)'
<1> DEFINE n == commits
           to(i) == IF i < k THEN i ELSE i + 1
<1>1. k \in 1..n + 1 /\ n \in Nat /\ byAge \in Seq(Nat) /\ Len(byAge) = n
  BY DEF CommitsOrdered
<1>2. /\ byAge' \in Seq(Nat) /\ Len(byAge') = n + 1 /\ byAge'[k] = n + 1
      /\ \A i \in 1..n : byAge'[to(i)] = byAge[i]
  BY DEF InsertedAt
<1>3. /\ \A i \in 1..n : to(i) \in 1..n + 1 /\ to(i) # k
      /\ \A i, j \in 1..n : (i < j <=> to(i) < to(j)) /\ (to(i) = to(j) => i = j)
      /\ \A j \in 1..n + 1 : j = k \/ \E i \in 1..n : j = to(i)
  <2>1. ASSUME NEW j \in 1..n + 1, j # k PROVE \E i \in 1..n : j = to(i)
    <3>1. CASE j < k
      <4>1. j \in 1..n /\ to(j) = j
        BY <1>1, <3>1
      <4> QED BY <4>1
    <3>2. CASE j > k
      <4>1. j - 1 \in 1..n /\ to(j - 1) = j
        BY <1>1, <3>2
      <4> QED BY <4>1
    <3> QED BY <1>1, <2>1, <3>1, <3>2
  <2> QED BY <1>1, <2>1
<1> HIDE DEF to
<1>4. CommitsOrdered'
  <2>1. \A i \in 1..n : byAge[i] \in 1..n /\ byAge[i] # n + 1
    BY <1>1 DEF CommitsOrdered
  <2>2. \A j \in 1..n + 1 : byAge'[j] \in 1..n + 1
    <3> SUFFICES ASSUME NEW j \in 1..n + 1 PROVE byAge'[j] \in 1..n + 1
      OBVIOUS
    <3>1. CASE j = k
      BY <1>1, <1>2, <3>1
    <3>2. CASE j # k
      <4>1. PICK i \in 1..n : j = to(i)
        BY <1>3, <3>2
      <4>2. byAge'[j] = byAge[i] /\ byAge[i] \in 1..n
        BY <1>2, <2>1, <4>1
      <4> QED BY <1>1, <4>2
    <3> QED BY <3>1, <3>2
  <2>3. \A i, j \in 1..n + 1 : byAge'[i] = byAge'[j] => i = j
    <3> SUFFICES ASSUME NEW i \in 1..n + 1, NEW j \in 1..n + 1, byAge'[i] = byAge'[j]
                 PROVE  i = j
      OBVIOUS
    <3>1. \A h \in 1..n + 1 : h # k => byAge'[h] # n + 1
      <4> SUFFICES ASSUME NEW h \in 1..n + 1, h # k PROVE byAge'[h] # n + 1
        OBVIOUS
      <4>1. PICK g \in 1..n : h = to(g)
        BY <1>3
      <4> QED BY <1>2, <2>1, <4>1
    <3>2. CASE i = k \/ j = k
      BY <1>2, <3>1, <3>2
    <3>3. CASE i # k /\ j # k
      <4>1. PICK g \in 1..n : i = to(g)
        BY <1>3, <3>3
      <4>2. PICK h \in 1..n : j = to(h)
        BY <1>3, <3>3
      <4>3. byAge[g] = byAge[h]
        BY <1>2, <4>1, <4>2
      <4>4. g = h
        BY <4>3 DEF CommitsOrdered
      <4> QED BY <4>1, <4>2, <4>4
    <3> QED BY <3>2, <3>3
  <2>4. ASSUME NEW c \in 1..n + 1 PROVE \E j \in 1..n + 1 : byAge'[j] = c
    <3>1. CASE c = n + 1
      BY <1>1, <1>2, <3>1
    <3>2. CASE c # n + 1
      <4>1. PICK i \in 1..n : byAge[i] = c
        BY <1>1, <3>2 DEF CommitsOrdered
      <4> QED BY <1>2, <1>3, <4>1
    <3> QED BY <3>1, <3>2
  <2> QED BY <1>1, <1>2, <2>2, <2>3, <2>4 DEF CommitsOrdered
<1>5. ASSUME NEW q, NEW r, Older(q, r) PROVE Older(q, r)'
  <2>1. PICK i \in 1..n, j \in 1..n : byAge[i] = q[2] /\ byAge[j] = r[2] /\ i <= j
    BY <1>5 DEF Older
  <2>2. /\ to(i) \in 1..n + 1 /\ to(j) \in 1..n + 1
        /\ byAge'[to(i)] = q[2] /\ byAge'[to(j)] = r[2]
        /\ to(i) <= to(j)
    BY <1>2, <1>3, <2>1
  <2> QED BY <2>2 DEF Older
<1> QED BY <1>4, <1>5

LEMMA CommitKept ==
    ASSUME commits \in Nat, CommitsOrdered, commits' = commits + 1,
           NEW k \in 1..Len(byAge) + 1, byAge' = Insertion(byAge, k, commits + 1)
    PROVE  CommitsOrdered' /\ \A q, r : Older(q, r) => Older(q, r)'
<1>1. /\ byAge \in Seq(Nat) /\ Len(byAge) = commits /\ k \in 1..commits + 1 /\ commits + 1 \in Nat
  BY DEF CommitsOrdered
<1>2. InsertedAt(Insertion(byAge, k, commits + 1), byAge, commits, k, commits + 1)
  BY <1>1, Inserted
<1> QED BY <1>1, <1>2, CommitPlaced

LEMMA AgeOfRow ==
    ASSUME VacancyInv, NEW l \in StoredJobs
    PROVE  Age(l) \in 1..commits /\ byAge[Age(l)] = born[l]
<1>1. commits \in Nat /\ l \in Listing /\ born[l] \in 0..commits /\ born[l] > 0
  BY DEF StoredJobs, VacancyInv, DiscoveryTyped
<1>2. DOMAIN byAge = 1..commits /\ born[l] \in 1..commits
  BY <1>1 DEF VacancyInv, CommitsOrdered
<1> QED BY <1>2 DEF Age, VacancyInv, CommitsOrdered

(* No row of its vacancy is older than a leader.                           *)
LEMMA LeaderIsFirst ==
    ASSUME VacancyInv, NEW S \in SUBSET StoredJobs, NEW m \in Oldest(S), NEW l \in S
    PROVE  Older(Row(m), Row(l))
<1>1. m \in StoredJobs /\ l \in StoredJobs /\ Age(m) <= Age(l)
  BY DEF Oldest
<1>2. /\ Age(m) \in 1..commits /\ byAge[Age(m)] = born[m]
      /\ Age(l) \in 1..commits /\ byAge[Age(l)] = born[l]
  BY <1>1, AgeOfRow
<1> HIDE DEF Age
<1> QED BY <1>1, <1>2 DEF Older, Row

LEMMA SearchStepInv ==
    ASSUME VacancyInv, NEW s \in Searcher,
           NEW f \in SearchRow, SearchTo(s, f), f.link = {},
           UNCHANGED <<born, byAge, canonical, commits>>
    PROVE  VacancyInv'
<1>1. search' \in [Searcher -> SearchRow]
  BY DEF SearchTo, VacancyInv, DiscoveryTyped
<1>2. \A u \in Searcher : search'[u].link \subseteq search[u].link
  BY DEF SearchTo, VacancyInv, DiscoveryTyped
<1>3. \A q, r : LinksBack(r, q)' <=> LinksBack(r, q)
  BY DEF LinksBack, Older
<1> QED BY <1>1, <1>2, <1>3
        DEF VacancyInv, DiscoveryTyped, CommitsOrdered, StoredJobs, Row

LEMMA StoreResultsInv ==
    ASSUME VacancyInv, NEW s \in Searcher, StoreResults(s)
    PROVE  VacancyInv'
<1>1. NoSearch \in SearchRow /\ [NoSearch EXCEPT !.at = "linking"] \in SearchRow
      /\ [NoSearch EXCEPT !.at = "linking"].link = {}
  BY DEF NoSearch, SearchRow
<1>2. CASE NewResults(s) = {}
  BY <1>1, <1>2, SearchStepInv DEF StoreResults
<1>3. CASE NewResults(s) # {}
  <2>1. /\ commits' = commits + 1 /\ commits \in Nat
        /\ born' = [l \in Listing |-> IF l \in NewResults(s) THEN commits' ELSE born[l]]
        /\ canonical' = canonical
        /\ search' = [search EXCEPT ![s] = [NoSearch EXCEPT !.at = "linking"]]
        /\ NewResults(s) \cap StoredJobs = {}
    BY <1>3 DEF StoreResults, Storable, SearchTo, VacancyInv, DiscoveryTyped
  <2>2. CommitsOrdered' /\ \A q, r : Older(q, r) => Older(q, r)'
    <3>1. PICK k \in 1..Len(byAge) + 1 : byAge' = Insertion(byAge, k, commits + 1)
      BY <1>3 DEF StoreResults, Insertion
    <3>2. commits \in Nat /\ CommitsOrdered
      BY DEF VacancyInv, DiscoveryTyped
    <3> QED BY <2>1, <3>1, <3>2, CommitKept
  <2>3. DiscoveryTyped'
    BY <1>1, <2>1 DEF VacancyInv, DiscoveryTyped
  <2>4. \A l \in StoredJobs : l \in Listing /\ born'[l] = born[l] /\ l \in StoredJobs'
    BY <2>1 DEF StoredJobs
  <2>5. \A q, r : LinksBack(r, q) => LinksBack(r, q)'
    BY <2>2 DEF LinksBack
  <2>6. \A u \in Searcher : search'[u].link \subseteq search[u].link
    BY <1>1, <2>1 DEF VacancyInv, DiscoveryTyped
  <2>7. \A l \in Listing : canonical'[l] # NoVacancyRow =>
          l \in StoredJobs' /\ LinksBack(Row(l), canonical[l])'
    BY <2>1, <2>4, <2>5 DEF VacancyInv, Row
  <2> QED BY <2>1, <2>2, <2>3, <2>5, <2>6, <2>7 DEF VacancyInv
<1> QED BY <1>2, <1>3

LEMMA PlanInv ==
    ASSUME VacancyInv, NEW s \in Searcher, PlanLinks(s)
    PROVE  VacancyInv'
<1>1. PICK leaders \in Leaderships :
        SearchTo(s, IF LinksTo(leaders) = {} THEN NoSearch
                    ELSE [NoSearch EXCEPT !.at = "writing", !.link = LinksTo(leaders)])
  BY DEF PlanLinks
<1> DEFINE link == LinksTo(leaders)
<1>2. UNCHANGED <<born, byAge, canonical, commits>>
  BY DEF PlanLinks
<1>3. ASSUME NEW p \in link
      PROVE  p \in RowIds \X RowIds /\ LinksBack(p[1], p[2])
  <2>1. PICK l \in StoredJobs, m \in leaders :
          p = <<Row(l), Row(m)>> /\ m \in Vacancy(l, StoredJobs)
    BY DEF LinksTo
  <2>2. PICK h \in StoredJobs : m \in Oldest(Vacancy(h, StoredJobs))
    BY <2>1 DEF Vacancies, Leaderships
  <2> DEFINE S == Vacancy(h, StoredJobs)
  <2>3. S \subseteq StoredJobs /\ m \in S
    BY <2>2, VacancyMembers DEF Oldest
  <2>4. l \in Vacancy(m, StoredJobs)
    BY <2>1, VacancySymmetric
  <2>5. l \in S
    BY <2>3, <2>4, VacancyTransitive
  <2>6. Older(Row(m), Row(l))
    BY <2>2, <2>3, <2>5, LeaderIsFirst
  <2>7. StoredJobs \subseteq Listing
    BY DEF StoredJobs
  <2>8. m \in Vacancy(l, Listing)
    BY <2>1, <2>7, VacancyGrows
  <2>9. \A k \in Listing : Row(k) \in RowIds /\ Row(k)[1] = k
    BY DiscoveryAssumption DEF Row, RowIds, VacancyInv, DiscoveryTyped
  <2> QED BY <2>1, <2>3, <2>6, <2>7, <2>8, <2>9 DEF LinksBack
<1>4. link \in SUBSET (RowIds \X RowIds) /\ \A p \in link : LinksBack(p[1], p[2])
  BY <1>3
<1> HIDE DEF link
<1>5. PICK f \in SearchRow : SearchTo(s, f) /\ f.link \in {{}, link}
  <2>1. NoSearch \in SearchRow /\ NoSearch.link = {}
    BY DEF NoSearch, SearchRow
  <2>2. /\ [NoSearch EXCEPT !.at = "writing", !.link = link] \in SearchRow
        /\ [NoSearch EXCEPT !.at = "writing", !.link = link].link = link
    BY <1>4 DEF NoSearch, SearchRow
  <2> QED BY <1>1, <2>1, <2>2 DEF link
<1>6. search' \in [Searcher -> SearchRow]
  BY <1>5 DEF SearchTo, VacancyInv, DiscoveryTyped
<1>7. \A q, r : LinksBack(r, q)' <=> LinksBack(r, q)
  BY <1>2 DEF LinksBack, Older
<1>8. \A u \in Searcher : \A p \in search'[u].link : LinksBack(p[1], p[2])
  BY <1>4, <1>5 DEF SearchTo, VacancyInv, DiscoveryTyped
<1> QED BY <1>2, <1>6, <1>7, <1>8
        DEF VacancyInv, DiscoveryTyped, CommitsOrdered, StoredJobs, Row

LEMMA WriteLinksInv ==
    ASSUME VacancyInv, NEW s \in Searcher, WriteLinks(s)
    PROVE  VacancyInv'
<1> DEFINE link == search[s].link
           written == {p[1] : p \in link}
<1>1. /\ UNCHANGED <<born, byAge, commits>> /\ SearchTo(s, NoSearch)
      /\ link \in SUBSET (RowIds \X RowIds)
  BY DEF WriteLinks, VacancyInv, DiscoveryTyped, SearchRow
<1>2. NoSearch \in SearchRow /\ NoSearch.link = {}
  BY DEF NoSearch, SearchRow
<1>3. search' \in [Searcher -> SearchRow] /\ \A u \in Searcher : search'[u].link \subseteq search[u].link
  BY <1>1, <1>2 DEF SearchTo, VacancyInv, DiscoveryTyped
<1>4. ASSUME NEW l \in Listing
      PROVE  /\ canonical'[l] \in RowIds
             /\ canonical'[l] # NoVacancyRow => l \in StoredJobs /\ LinksBack(Row(l), canonical'[l])
  <2>1. canonical'[l] = IF written \subseteq StoredRows /\ Row(l) \in written
                        THEN (CHOOSE p \in link : p[1] = Row(l))[2] ELSE canonical[l]
    BY DEF WriteLinks
  <2>2. CASE written \subseteq StoredRows /\ Row(l) \in written
    <3>1. PICK p \in link : p[1] = Row(l) /\ canonical'[l] = p[2]
      BY <2>1, <2>2
    <3>2. l \in StoredJobs
      BY <2>2 DEF StoredRows, Row
    <3> QED BY <1>1, <3>1, <3>2 DEF VacancyInv
  <2>3. CASE ~(written \subseteq StoredRows /\ Row(l) \in written)
    BY <2>1, <2>3 DEF VacancyInv, DiscoveryTyped
  <2> QED BY <2>2, <2>3
<1>5. canonical' \in [Listing -> RowIds]
  <2>1. canonical' = [l \in Listing |-> canonical'[l]]
    BY DEF WriteLinks
  <2> QED BY <1>4, <2>1
<1>6. \A q, r : LinksBack(r, q)' <=> LinksBack(r, q)
  BY <1>1 DEF LinksBack, Older
<1> HIDE DEF link, written
<1>7. \A l \in Listing : canonical'[l] # NoVacancyRow =>
        l \in StoredJobs' /\ LinksBack(Row(l), canonical[l])'
  BY <1>1, <1>4 DEF LinksBack, Older, StoredJobs, Row
<1> QED BY <1>1, <1>3, <1>5, <1>6, <1>7
        DEF VacancyInv, DiscoveryTyped, CommitsOrdered

LEMMA DeleteJobInv ==
    ASSUME VacancyInv, NEW l \in Listing, DeleteJob(l)
    PROVE  VacancyInv'
<1>1. /\ UNCHANGED <<byAge, search, commits>>
      /\ \A m \in Listing \ {l} : born'[m] = born[m] /\ canonical'[m] = canonical[m]
      /\ canonical'[l] = NoVacancyRow
      /\ born' \in [Listing -> 0..commits] /\ canonical' \in [Listing -> RowIds]
  BY DEF DeleteJob, VacancyInv, DiscoveryTyped, NoVacancyRow, RowIds
<1>2. \A q, r : LinksBack(r, q)' <=> LinksBack(r, q)
  BY <1>1 DEF LinksBack, Older
<1>3. \A m \in Listing : canonical'[m] # NoVacancyRow =>
        m \in StoredJobs' /\ LinksBack(Row(m), canonical[m])'
  BY <1>1 DEF LinksBack, Older, StoredJobs, Row, VacancyInv
<1> QED BY <1>1, <1>2, <1>3 DEF VacancyInv, DiscoveryTyped, CommitsOrdered

LEMMA VacancyNext == VacancyInv /\ [DiscoveryNext]_discoveryVars => VacancyInv'
<1> SUFFICES ASSUME VacancyInv, [DiscoveryNext]_discoveryVars PROVE VacancyInv'
  OBVIOUS
<1>1. CASE UNCHANGED discoveryVars
  <2>1. UNCHANGED <<born, byAge, canonical, search, commits>>
    BY <1>1 DEF discoveryVars
  <2>2. \A q, r : LinksBack(r, q)' <=> LinksBack(r, q)
    BY <2>1 DEF LinksBack, Older
  <2> QED BY <2>1, <2>2 DEF VacancyInv, DiscoveryTyped, CommitsOrdered, StoredJobs, Row
<1>2. NoSearch \in SearchRow /\ NoSearch.link = {}
  BY DEF NoSearch, SearchRow
<1>3. ASSUME NEW s \in Searcher, StartSearch(s) PROVE VacancyInv'
  <2> DEFINE f == [NoSearch EXCEPT !.at = "fetching", !.known = StoredRows]
  <2>1. StoredRows \subseteq RowIds
    <3>1. \A l \in Listing : l \in Nat
      BY DiscoveryAssumption
    <3>2. \A l \in Listing : born[l] \in Nat
      BY DEF VacancyInv, DiscoveryTyped
    <3> QED BY <3>1, <3>2 DEF StoredRows, StoredJobs, Row, RowIds
  <2>2. f \in SearchRow /\ f.link = {}
    BY <2>1 DEF NoSearch, SearchRow
  <2> QED BY <1>3, <2>2, SearchStepInv DEF StartSearch
<1>4. ASSUME NEW s \in Searcher, FetchNothing(s) \/ LoseResults(s) PROVE VacancyInv'
  BY <1>2, <1>4, SearchStepInv DEF FetchNothing, LoseResults
<1>5. ASSUME NEW s \in Searcher, NEW found \in SUBSET Listing, FetchSome(s, found)
      PROVE  VacancyInv'
  <2> DEFINE f == [search[s] EXCEPT !.at = "storing", !.found = found]
  <2>1. search[s] \in SearchRow /\ \A p \in search[s].link : LinksBack(p[1], p[2])
    BY DEF VacancyInv, DiscoveryTyped
  <2>2. f \in SearchRow /\ f.link = search[s].link
    BY <2>1 DEF SearchRow
  <2>3. /\ UNCHANGED <<born, byAge, canonical, commits>>
        /\ search' \in [Searcher -> SearchRow]
        /\ \A u \in Searcher : search'[u].link = search[u].link
    BY <1>5, <2>2 DEF FetchSome, SearchTo, VacancyInv, DiscoveryTyped
  <2>4. \A q, r : LinksBack(r, q)' <=> LinksBack(r, q)
    BY <2>3 DEF LinksBack, Older
  <2> QED BY <2>3, <2>4
          DEF VacancyInv, DiscoveryTyped, CommitsOrdered, StoredJobs, Row
<1> QED BY <1>1, <1>3, <1>4, <1>5, StoreResultsInv, PlanInv, WriteLinksInv, DeleteJobInv
        DEF DiscoveryNext

(* Of the rows of a vacancy that can be listed the oldest, if it is alone, *)
(* is listed: it could only hide behind one that is no younger.            *)
LEMMA FirstIsListed ==
    ASSUME VacancyInv, NEW l \in StoredJobs \cap Listable,
           NEW first \in ListableOf(l), Oldest(ListableOf(l)) = {first}
    PROVE  first \in Vacancy(l, Listing) /\ Listed(first)
<1>1. /\ StoredJobs \subseteq Listing /\ commits \in Nat
      /\ first \in StoredJobs /\ first \in Listable /\ first \in Vacancy(l, Listing)
  BY DEF ListableOf, StoredJobs, VacancyInv, DiscoveryTyped
<1>2. \A m \in ListableOf(l) : /\ Age(m) \in 1..commits /\ byAge[Age(m)] = born[m]
                              /\ Age(first) <= Age(m)
  BY AgeOfRow DEF ListableOf, Oldest
<1>3. ~HiddenDuplicate(first)
  <2> SUFFICES ASSUME HiddenDuplicate(first) PROVE FALSE
    OBVIOUS
  <2>1. PICK k \in StoredJobs : canonical[first] = Row(k) /\ Row(k) # Row(first) /\ k \in Listable
    BY DEF HiddenDuplicate, StoredRows, Row
  <2>2. canonical[first] # NoVacancyRow
    BY <2>1 DEF NoVacancyRow, Row, StoredJobs
  <2>3. Older(Row(k), Row(first)) /\ k \in Vacancy(first, Listing)
    BY <1>1, <2>1, <2>2 DEF VacancyInv, LinksBack, Row
  <2>4. k \in ListableOf(l)
    BY <1>1, <2>1, <2>3, VacancyTransitive DEF ListableOf
  <2>5. PICK i \in 1..commits, j \in 1..commits : byAge[i] = born[k] /\ byAge[j] = born[first] /\ i <= j
    BY <2>3 DEF Older, Row
  <2> HIDE DEF Age
  <2>6. i = Age(k) /\ j = Age(first)
    <3>1. /\ Age(k) \in 1..commits /\ byAge[Age(k)] = byAge[i]
          /\ Age(first) \in 1..commits /\ byAge[Age(first)] = byAge[j]
      BY <1>2, <2>4, <2>5
    <3>2. \A g, h \in 1..commits : byAge[g] = byAge[h] => g = h
      BY DEF VacancyInv, CommitsOrdered
    <3> QED BY <3>1, <3>2
  <2>7. \A m \in ListableOf(l) : Age(k) <= Age(m)
    BY <1>1, <1>2, <2>4, <2>5, <2>6
  <2>8. k \in Oldest(ListableOf(l))
    BY <2>4, <2>7 DEF Oldest
  <2> QED BY <2>1, <2>8
<1> QED BY <1>1, <1>3 DEF Listed

(* "so a vacancy is never lost" (job_search.py:618-622).  However searches *)
(* overlap, fail and link over one another, and whatever is deleted: a     *)
(* vacancy of stored adverts that can be listed is listed, unless its      *)
(* oldest ones were stored together, with one created_at.                  *)
THEOREM NoVacancyLost == DiscoverySafety => []VacancyIsListed
<1>1. VacancyInv => VacancyIsListed
  BY FirstIsListed DEF VacancyIsListed
<1> QED BY <1>1, VacancyInit, VacancyNext, PTL DEF DiscoverySafety

LEMMA LeaderIsOne ==
    ASSUME NEW leaders \in Leaderships, NEW l \in StoredJobs
    PROVE  \E m \in Vacancy(l, StoredJobs) : Vacancy(l, StoredJobs) \cap leaders = {m}
BY DEF Leaderships, Vacancies

(* A pass whose links fit gives every row the leader of its vacancy, one   *)
(* that nothing hides.                                                     *)
LEMMA Mended ==
    ASSUME VacancyInv, NEW s \in Searcher, Undisturbed(s)
    PROVE  AllListed'
<1>1. StoredJobs' = StoredJobs /\ StoredRows' = StoredRows /\ \A l : Row(l)' = Row(l)
  <2>1. UNCHANGED born
    BY DEF Undisturbed, PlanLinks, WriteLinks
  <2> QED BY <2>1 DEF StoredJobs, StoredRows, Row
<1>2. PICK leaders \in Leaderships :
        \A l \in StoredJobs : \A m \in leaders :
          m \in Vacancy(l, StoredJobs) => canonical'[l] = Row(m)
  <2>1. CASE PlanLinks(s) /\ search'[s] = NoSearch
    <3>1. PICK leaders \in Leaderships :
            SearchTo(s, IF LinksTo(leaders) = {} THEN NoSearch
                        ELSE [NoSearch EXCEPT !.at = "writing", !.link = LinksTo(leaders)])
      BY <2>1 DEF PlanLinks
    <3>2. LinksTo(leaders) = {}
      BY <2>1, <3>1 DEF SearchTo, NoSearch, VacancyInv, DiscoveryTyped
    <3>3. canonical' = canonical
      BY <2>1 DEF PlanLinks
    <3>4. ASSUME NEW l \in StoredJobs, NEW m \in leaders, m \in Vacancy(l, StoredJobs)
          PROVE  canonical[l] = Row(m)
      <4>1. <<l, m>> \in StoredJobs \X leaders
        OBVIOUS
      <4>2. canonical[l] # Row(m) => <<Row(l), Row(m)>> \in LinksTo(leaders)
        BY <3>4, <4>1 DEF LinksTo
      <4> QED BY <3>2, <4>2
    <3> QED BY <3>3, <3>4
  <2>2. ASSUME WriteLinks(s), NEW leaders \in Leaderships, search[s].link = LinksTo(leaders),
               NEW l \in StoredJobs, NEW m \in leaders, m \in Vacancy(l, StoredJobs)
        PROVE  canonical'[l] = Row(m)
    <3> DEFINE link    == LinksTo(leaders)
               written == {p[1] : p \in link}
    <3>1. l \in Listing
      BY DEF StoredJobs
    <3>2. canonical'[l] = IF written \subseteq StoredRows /\ Row(l) \in written
                          THEN (CHOOSE p \in link : p[1] = Row(l))[2] ELSE canonical[l]
      BY <2>2, <3>1 DEF WriteLinks
    <3>3. written \subseteq StoredRows
      BY DEF LinksTo, StoredRows
    <3>4. ASSUME NEW p \in link, p[1] = Row(l) PROVE p[2] = Row(m) /\ canonical[l] # Row(m)
      <4>1. PICK k \in StoredJobs, n \in leaders :
              p = <<Row(k), Row(n)>> /\ n \in Vacancy(k, StoredJobs) /\ canonical[k] # Row(n)
        BY DEF LinksTo
      <4>2. k = l
        BY <3>4, <4>1 DEF Row
      <4>3. n = m
        BY <2>2, <4>1, <4>2, LeaderIsOne
      <4> QED BY <4>1, <4>2, <4>3
    <3>5. CASE canonical[l] = Row(m)
      <4>1. Row(l) \notin written
        BY <3>4, <3>5
      <4> QED BY <3>2, <3>5, <4>1
    <3>6. CASE canonical[l] # Row(m)
      <4>1. <<l, m>> \in StoredJobs \X leaders
        OBVIOUS
      <4>2. <<Row(l), Row(m)>> \in link
        BY <2>2, <3>6, <4>1 DEF LinksTo
      <4>3. Row(l) \in written /\ \E p \in link : p[1] = Row(l)
        BY <4>2
      <4> QED BY <3>2, <3>3, <3>4, <4>3
    <3> QED BY <3>5, <3>6
  <2> QED BY <2>1, <2>2 DEF Undisturbed
<1> SUFFICES ASSUME NEW l \in StoredJobs \cap Listable
             PROVE  \E m \in Vacancy(l, StoredJobs) : Listed(m)'
  BY <1>1 DEF AllListed
<1>3. PICK m \in Vacancy(l, StoredJobs) : Vacancy(l, StoredJobs) \cap leaders = {m}
  BY LeaderIsOne
<1>4. /\ m \in StoredJobs /\ m \in leaders
      /\ l \in Vacancy(l, StoredJobs) /\ m \in Vacancy(m, StoredJobs)
  BY <1>3, VacancyMembers
<1>5. canonical'[l] = Row(m) /\ canonical'[m] = Row(m)
  BY <1>2, <1>3, <1>4
<1>6. CASE m \in Listable
  BY <1>1, <1>3, <1>4, <1>5, <1>6 DEF Listed, HiddenDuplicate
<1>7. CASE m \notin Listable
  BY <1>1, <1>4, <1>5, <1>7 DEF Listed, HiddenDuplicate, Row
<1> QED BY <1>6, <1>7

(* Of every vacancy, ties or none: a pass that no other commit disturbed   *)
(* leaves it listed, whatever the passes before it had linked.             *)
THEOREM PassMends == DiscoverySafety => LinkingMends
<1>1. VacancyInv /\ [DiscoveryNext]_discoveryVars
        => [\A s \in Searcher : Undisturbed(s) => AllListed']_discoveryVars
  BY Mended
<1> QED BY <1>1, VacancyInit, VacancyNext, PTL DEF DiscoverySafety, LinkingMends

LEMMA LeastRow ==
    ASSUME NEW S \in SUBSET Nat, S # {}
    PROVE  \E n \in S : \A m \in S : n <= m
<1>1. PICK n \in S : \A m \in S : ~(<<m, n>> \in OpToRel(<, Nat))
  BY NatLessThanWellFounded, WFMin
<1>2. \A m \in S : ~(m < n)
  BY <1>1 DEF OpToRel
<1> QED BY <1>2

-----------------------------------------------------------------------------
(***************************************************************************)
(* Groups of listings.                                                     *)
(***************************************************************************)
ComparedPairs == UrlPairs \cup MatchPairs

GroupsInv ==
    /\ board \in Seq(Advert) /\ BoardTypeOK
    /\ \A i, j \in Rows : <<board[i].src, board[i].sid>> = <<board[j].src, board[j].sid>> => i = j
    /\ root # <<>> =>
         /\ \A p \in ComparedPairs \ pairs : root[p[1]] = root[p[2]]
         /\ pairs \subseteq ComparedPairs
         /\ \A i, j \in Rows : root[i] = root[j] => j \in Connected(i)

LEMMA SameJobSymmetric ==
    ASSUME NEW a, NEW b, SameJob(a, b)
    PROVE  SameJob(b, a)
<1>1. TitlesMatch(a, b) => TitlesMatch(b, a)
  <2> DEFINE mine  == a.role \ (a.place \cup b.place)
             other == b.role \ (a.place \cup b.place)
  <2>1. b.place \cup a.place = a.place \cup b.place /\ mine \cap other = other \cap mine
        /\ mine \cup other = other \cup mine
    OBVIOUS
  <2> QED BY <2>1, Zenon DEF TitlesMatch
<1>2. CompaniesMatch(a, b) => CompaniesMatch(b, a)
  BY DEF CompaniesMatch
<1>3. LocationsCompatible(a, b) => LocationsCompatible(b, a)
  BY DEF LocationsCompatible
<1> QED BY <1>1, <1>2, <1>3 DEF SameJob, SameUrl

LEMMA NoticedSymmetric ==
    ASSUME NEW a, NEW b, Noticed(a, b)
    PROVE  Noticed(b, a)
<1>1. SameJob(a, b) => SameJob(b, a)
  BY SameJobSymmetric
<1> QED BY <1>1 DEF Noticed, SameUrl

LEMMA ConnectedSelf ==
    ASSUME NEW i \in Rows
    PROVE  i \in Connected(i) /\ Connected(i) \subseteq Rows
BY DEF Connected

LEMMA ConnectedNext ==
    ASSUME NEW i \in Rows, NEW j \in Rows, Noticed(board[i], board[j])
    PROVE  j \in Connected(i)
BY DEF Connected, MatchClosed

LEMMA ConnectedTransitive ==
    ASSUME NEW i \in Rows, NEW j \in Connected(i), NEW k \in Connected(j)
    PROVE  k \in Connected(i)
BY DEF Connected

LEMMA ConnectedSymmetric ==
    ASSUME NEW i \in Rows, NEW j \in Connected(i)
    PROVE  i \in Connected(j)
<1> SUFFICES ASSUME NEW S \in SUBSET Rows, j \in S, MatchClosed(S), i \notin S
             PROVE  FALSE
  BY DEF Connected
<1>1. MatchClosed(Rows \ S)
  BY DEF MatchClosed
<1> QED BY <1>1 DEF Connected

LEMMA ComparedMatch ==
    ASSUME NEW p \in ComparedPairs
    PROVE  p \in Rows \X Rows /\ Noticed(board[p[1]], board[p[2]])
<1>1. CASE p \in UrlPairs
  BY <1>1 DEF UrlPairs, FirstWith, Noticed
<1>2. CASE p \in MatchPairs
  BY <1>2 DEF MatchPairs, Noticed
<1> QED BY <1>1, <1>2 DEF ComparedPairs

LEMMA GroupsInit == BoardInit => GroupsInv
<1> SUFFICES ASSUME BoardInit PROVE GroupsInv
  OBVIOUS
<1>1. board = <<>> /\ Rows = {} /\ root = <<>> /\ pairs = {}
  BY DEF BoardInit, Rows
<1> QED BY <1>1 DEF GroupsInv, BoardTypeOK

LEMMA DiscoverInv ==
    ASSUME GroupsInv, NEW a \in Advert, Discover(a)
    PROVE  GroupsInv'
<1> DEFINE n == Len(board)
<1>1. /\ board \in Seq(Advert) /\ n \in Nat /\ Rows = 1..n
      /\ board' = Append(board, a) /\ root' = <<>> /\ pairs' = {}
  BY DEF Discover, GroupsInv, Rows
<1>2. /\ board' \in Seq(Advert) /\ Rows' = 1..n + 1
      /\ \A i \in 1..n : board'[i] = board[i]
      /\ board'[n + 1] = a
  BY <1>1 DEF Rows
<1>3. \A i \in 1..n + 1 : board'[i] \in Advert
  <2>1. \A i \in 1..n : board[i] \in Advert
    BY <1>1
  <2>2. \A i \in 1..n + 1 : i = n + 1 \/ i \in 1..n
    BY <1>1
  <2> QED BY <1>2, <2>1, <2>2
<1>4. BoardTypeOK'
  BY <1>1, <1>2, <1>3 DEF BoardTypeOK
<1>5. \A i \in 1..n : <<board[i].src, board[i].sid>> # <<a.src, a.sid>>
  BY <1>1 DEF Discover
<1>6. \A i, j \in 1..n : <<board[i].src, board[i].sid>> = <<board[j].src, board[j].sid>> => i = j
  BY <1>1 DEF GroupsInv
<1>7. ASSUME NEW i \in 1..n + 1, NEW j \in 1..n + 1,
             <<board'[i].src, board'[i].sid>> = <<board'[j].src, board'[j].sid>>
      PROVE  i = j
  <2>1. \A h \in 1..n + 1 : h = n + 1 \/ h \in 1..n
    BY <1>1
  <2> QED BY <1>2, <1>5, <1>6, <1>7, <2>1
<1> QED BY <1>1, <1>2, <1>4, <1>7 DEF GroupsInv

LEMMA StartGroupsInv ==
    ASSUME GroupsInv, StartGroups
    PROVE  GroupsInv'
<1>1. /\ UNCHANGED board /\ Rows' = Rows /\ root' = [i \in Rows |-> i] /\ Rows # {}
      /\ pairs' = ComparedPairs /\ ComparedPairs' = ComparedPairs
  BY DEF StartGroups, GroupsInv, Rows, ComparedPairs, UrlPairs, MatchPairs, FirstWith
<1>2. \A i \in Rows : Connected(i)' = Connected(i)
  BY <1>1 DEF Connected, MatchClosed
<1>3. pairs' \subseteq Rows \X Rows
  BY <1>1, ComparedMatch
<1>4. root' # <<>>
  BY <1>1
<1>5. BoardTypeOK'
  BY <1>1, <1>3, <1>4 DEF BoardTypeOK, GroupsInv
<1> QED BY <1>1, <1>2, <1>5, ConnectedSelf DEF GroupsInv

LEMMA UnitePairInv ==
    ASSUME GroupsInv, NEW p \in pairs, UnitePair(p)
    PROVE  GroupsInv'
<1>1. /\ UNCHANGED board /\ Rows' = Rows /\ pairs' = pairs \ {p} /\ ComparedPairs' = ComparedPairs
      /\ root # <<>> /\ root \in [Rows -> Rows] /\ p[1] \in Rows /\ p[2] \in Rows
      /\ p \in ComparedPairs
  BY DEF UnitePair, GroupsInv, BoardTypeOK, Rows, ComparedPairs, UrlPairs, MatchPairs, FirstWith
<1> DEFINE x == root[p[1]]
           y == root[p[2]]
<1>2. PICK least \in {x, y} : root' = [k \in Rows |-> IF root[k] \in {x, y} THEN least ELSE root[k]]
  BY DEF UnitePair, Unite
<1>3. \A i \in Rows : Connected(i)' = Connected(i)
  BY <1>1 DEF Connected, MatchClosed
<1>4. root' \in [Rows -> Rows] /\ root' # <<>>
  BY <1>1, <1>2
<1>5. BoardTypeOK'
  BY <1>1, <1>4 DEF BoardTypeOK, GroupsInv
<1>6. \A q \in ComparedPairs \ pairs' : root'[q[1]] = root'[q[2]]
  <2> SUFFICES ASSUME NEW q \in ComparedPairs \ pairs' PROVE root'[q[1]] = root'[q[2]]
    OBVIOUS
  <2>1. q[1] \in Rows /\ q[2] \in Rows
    BY ComparedMatch
  <2>2. q = p \/ root[q[1]] = root[q[2]]
    BY <1>1 DEF GroupsInv
  <2> QED BY <1>1, <1>2, <2>1, <2>2
<1>7. ASSUME NEW i \in Rows, NEW j \in Rows, root'[i] = root'[j]
      PROVE  j \in Connected(i)
  <2>1. \A g, h \in Rows : root[g] = root[h] => h \in Connected(g)
    BY <1>1 DEF GroupsInv
  <2>2. p[2] \in Connected(p[1]) /\ p[1] \in Connected(p[2])
    BY <1>1, ComparedMatch, ConnectedNext, ConnectedSymmetric
  <2>3. CASE root[i] = root[j]
    BY <2>1, <2>3
  <2>4. CASE root[i] # root[j]
    <3>1. root[i] \in {x, y} /\ root[j] \in {x, y}
      BY <1>1, <1>2, <1>7, <2>4
    <3>2. \A g \in Rows : root[g] = x => p[1] \in Connected(g) /\ g \in Connected(p[1])
      BY <1>1, <2>1
    <3>3. \A g \in Rows : root[g] = y => p[2] \in Connected(g) /\ g \in Connected(p[2])
      BY <1>1, <2>1
    <3>4. CASE root[i] = x /\ root[j] = y
      <4>1. p[1] \in Connected(i) /\ j \in Connected(p[2])
        BY <3>2, <3>3, <3>4
      <4>2. p[2] \in Connected(i)
        BY <2>2, <4>1, ConnectedTransitive
      <4> QED BY <4>1, <4>2, ConnectedTransitive
    <3>5. CASE root[i] = y /\ root[j] = x
      <4>1. p[2] \in Connected(i) /\ j \in Connected(p[1])
        BY <3>2, <3>3, <3>5
      <4>2. p[1] \in Connected(i)
        BY <2>2, <4>1, ConnectedTransitive
      <4> QED BY <4>1, <4>2, ConnectedTransitive
    <3> QED BY <2>4, <3>1, <3>4, <3>5
  <2> QED BY <2>3, <2>4
<1> QED BY <1>1, <1>3, <1>5, <1>6, <1>7 DEF GroupsInv

LEMMA GroupsNext == GroupsInv /\ [BoardNext]_boardVars => GroupsInv'
<1> SUFFICES ASSUME GroupsInv, [BoardNext]_boardVars PROVE GroupsInv'
  OBVIOUS
<1>1. CASE UNCHANGED boardVars
  <2>1. board' = board /\ root' = root /\ pairs' = pairs /\ Rows' = Rows
    BY <1>1 DEF boardVars, Rows
  <2>2. ComparedPairs' = ComparedPairs
    BY <2>1 DEF ComparedPairs, UrlPairs, MatchPairs, FirstWith
  <2>3. \A i \in Rows : Connected(i)' = Connected(i)
    BY <2>1 DEF Connected, MatchClosed
  <2>4. BoardTypeOK'
    BY <2>1 DEF GroupsInv, BoardTypeOK
  <2> QED BY <2>1, <2>2, <2>3, <2>4 DEF GroupsInv
<1> QED BY <1>1, DiscoverInv, StartGroupsInv, UnitePairInv DEF BoardNext

LEMMA GroupsAlways == BoardSpec => []GroupsInv
BY GroupsInit, GroupsNext, PTL DEF BoardSpec

(* "A false merge hides a real job the operator will never see, which is   *)
(* worse than a duplicate" (dedup.py:21-23): at every moment of a grouping *)
(* rows are together only when a chain of matches connects them.           *)
THEOREM NeverMergedFalsely == BoardSpec => []NoFalseMerge
<1>1. GroupsInv => NoFalseMerge
  BY DEF GroupsInv, NoFalseMerge
<1> QED BY <1>1, GroupsAlways, PTL

(* Adverts and roots belong together throughout a run, and a scan compares *)
(* only rows of the board.                                                 *)
THEOREM BoardTypeCorrect == BoardSpec => []BoardTypeOK
<1>1. GroupsInv => BoardTypeOK
  BY DEF GroupsInv
<1> QED BY <1>1, GroupsAlways, PTL

(* The table of a URL leads every row that has it to the first.            *)
LEMMA SameUrlSameRoot ==
    ASSUME GroupsInv, Grouped, NEW field \in {"apply", "advert"}, NEW i \in Rows, NEW j \in Rows,
           SameUrl(field, board[i], board[j])
    PROVE  root[i] = root[j]
<1>1. Rows \subseteq Nat /\ \A g \in Rows : 1..g \subseteq Rows
  BY DEF GroupsInv, Rows
<1> DEFINE T == {h \in Rows : SameUrl(field, board[h], board[j])}
<1>2. i \in T /\ j \in T /\ T \subseteq Nat
  BY <1>1 DEF SameUrl
<1>3. PICK f \in T : \A h \in T : f <= h
  BY <1>2, LeastRow
<1>4. ASSUME NEW k \in T PROVE root[f] = root[k]
  <2>1. CASE f = k
    BY <2>1
  <2>2. CASE f # k
    <3>1. f \in Rows /\ k \in Rows /\ f < k
      BY <1>1, <1>3, <2>2
    <3>2. \A h \in 1..f - 1 : h \in Rows /\ h < f
      BY <1>1, <3>1
    <3>3. \A h \in Rows : SameUrl(field, board[h], board[k]) => SameUrl(field, board[h], board[j])
      BY <1>4 DEF SameUrl
    <3>4. SameUrl(field, board[f], board[k])
      BY <1>4 DEF SameUrl
    <3>5. FirstWith(field, f, k)
      <4>1. ASSUME NEW h \in 1..f - 1 PROVE ~SameUrl(field, board[h], board[k])
        <5>1. h \in Rows /\ ~(f <= h)
          BY <1>1, <3>1, <3>2
        <5>2. h \notin T
          BY <1>3, <5>1
        <5> QED BY <3>3, <5>1, <5>2
      <4> QED BY <3>4, <4>1 DEF FirstWith
    <3>6. <<f, k>> \in UrlPairs
      BY <3>1, <3>5 DEF UrlPairs
    <3> QED BY <3>6 DEF GroupsInv, Grouped, ComparedPairs
  <2> QED BY <2>1, <2>2
<1> QED BY <1>2, <1>4

LEMMA MatchSameRoot ==
    ASSUME GroupsInv, Grouped, NEW i \in Rows, NEW j \in Rows, Noticed(board[i], board[j])
    PROVE  root[i] = root[j]
<1>1. i \in Nat /\ j \in Nat
  BY DEF GroupsInv, Rows
<1>2. CASE SameUrl("apply", board[i], board[j]) \/ SameUrl("advert", board[i], board[j])
  BY <1>2, SameUrlSameRoot
<1>3. CASE board[i].brand = board[j].brand /\ SameJob(board[i], board[j])
  <2>1. SameJob(board[j], board[i])
    BY <1>3, SameJobSymmetric
  <2>2. i = j \/ <<i, j>> \in MatchPairs \/ <<j, i>> \in MatchPairs
    BY <1>1, <1>3, <2>1 DEF MatchPairs
  <2> QED BY <2>2 DEF GroupsInv, Grouped, ComparedPairs
<1> QED BY <1>2, <1>3 DEF Noticed

(* Whatever listings turn up, in whatever order they come and the pairs    *)
(* are united, the groups are the components of what the grouping can      *)
(* notice: a URL in common, or a match between names of one bucket.        *)
THEOREM GroupsComplete == BoardSpec => []GroupsAreComponents
<1>1. ASSUME GroupsInv, Grouped PROVE Groups = {Connected(i) : i \in Rows}
  <2>1. ASSUME NEW i \in Rows PROVE {j \in Rows : root[j] = root[i]} = Connected(i)
    <3> DEFINE S == {j \in Rows : root[j] = root[i]}
    <3>1. MatchClosed(S)
      <4> SUFFICES ASSUME NEW g \in S, NEW h \in Rows,
                          Noticed(board[g], board[h]) \/ Noticed(board[h], board[g])
                   PROVE  root[h] = root[g]
        BY DEF MatchClosed
      <4> QED BY <1>1, MatchSameRoot
    <3>2. Connected(i) \subseteq S
      BY <3>1 DEF Connected
    <3>3. S \subseteq Connected(i)
      BY <1>1 DEF GroupsInv, Grouped
    <3> QED BY <3>2, <3>3
  <2> QED BY <2>1 DEF Groups
<1>2. GroupsInv => GroupsAreComponents
  BY <1>1 DEF GroupsAreComponents
<1> QED BY <1>2, GroupsAlways, PTL

-----------------------------------------------------------------------------
(* Version numbers.  A review that is recording has lost every attempt so  *)
(* far to a version that was stored meanwhile; one that is inserting has   *)
(* read a highest version, which may be stale but not from the future.     *)
Attempts(w, n) ==
    /\ w.tries <= Retries /\ w.base < MaxVersions
    /\ w.used \subseteq 1..n
    /\ w.at = "judged" => w.tries = 0
    /\ w.at = "recording" => w.tries <= w.met
    /\ w.at = "inserting" => w.base <= n /\ w.tries <= w.met + 1
    /\ w.at \in {"recording", "inserting"} => w.content \in Guidance
    /\ w.content = "lost" => Retries <= w.met

SkillsNumbered ==
    /\ \E n \in 0..MaxVersions : StoredSkills = 1..n /\ \A r \in Review : Attempts(review[r], n)
    /\ \A v \in SkillVersion : /\ skill[v].content # "lost"
                               /\ skill[v].active => v \in StoredSkills

LEMMA NumberedInit == SkillInit => SkillsNumbered
<1> SUFFICES ASSUME SkillInit PROVE SkillsNumbered
  OBVIOUS
<1>1. \A v \in SkillVersion : skill[v].content = "none" /\ ~skill[v].active
  BY DEF SkillInit, NoSkill
<1>2. StoredSkills = 1..0 /\ 0 \in 0..MaxVersions
  BY <1>1, SkillAssumption DEF StoredSkills
<1>3. \A r \in Review : Attempts(review[r], 0)
  BY SkillAssumption DEF SkillInit, Attempts, NoReview
<1> QED BY <1>1, <1>2, <1>3 DEF SkillsNumbered

LEMMA MoreStored ==
    ASSUME NEW w \in ReviewRow, NEW n \in Nat, NEW m \in Nat, n <= m, Attempts(w, n)
    PROVE  Attempts(w, m)
<1>1. 1..n \subseteq 1..m /\ w.base \in Nat
  BY DEF ReviewRow
<1> QED BY <1>1 DEF Attempts

(* A review moves and no row of the table changes.                         *)
LEMMA AttemptStep ==
    ASSUME SkillInv, SkillInv', SkillsNumbered, NEW r \in Review, NEW w, ReviewTo(r, w),
           UNCHANGED skill,
           \A n \in 0..MaxVersions : StoredSkills = 1..n /\ Attempts(review[r], n) => Attempts(w, n)
    PROVE  SkillsNumbered'
<1>1. PICK n \in 0..MaxVersions : StoredSkills = 1..n /\ \A q \in Review : Attempts(review[q], n)
  BY DEF SkillsNumbered
<1>2. StoredSkills' = StoredSkills
  BY DEF StoredSkills
<1>3. \A q \in Review : review'[q] = IF q = r THEN w ELSE review[q]
  BY DEF ReviewTo, SkillInv
<1>4. \A q \in Review : Attempts(review'[q], n)
  BY <1>1, <1>3
<1>5. \E m \in 0..MaxVersions : (StoredSkills = 1..m)' /\ \A q \in Review : Attempts(review'[q], m)
  BY <1>1, <1>2, <1>4
<1> QED BY <1>2, <1>5 DEF SkillsNumbered

LEMMA StoredCount ==
    ASSUME NEW n \in Nat, StoredSkills = 1..n
    PROVE  Cardinality(StoredSkills) = n
<1>1. Cardinality(1..n) = IF 1 > n THEN 0 ELSE n - 1 + 1
  BY FS_Interval
<1> QED BY <1>1

(* The steps that touch only the review.                                   *)
LEMMA AttemptMoves ==
    ASSUME SkillInv, SkillInv', SkillsNumbered, NEW r \in Review,
           \/ BeginReview(r) \/ DistilNothing(r) \/ Distil(r) \/ ReadVersion(r) \/ VersionTaken(r)
           \/ DropGuidance(r) \/ (\E v \in SkillVersion : ReadSkill(r, v)) \/ EndReview(r)
           \/ ReviewFails(r)
    PROVE  SkillsNumbered'
<1>0. review[r] \in ReviewRow
  BY DEF SkillInv
<1>1. CASE BeginReview(r)
  <2>1. PICK good \in BOOLEAN, used \in SUBSET ActiveSkills :
          ReviewTo(r, [NoReview EXCEPT !.at = "judged", !.used = used, !.good = good])
    BY <1>1 DEF BeginReview
  <2> DEFINE w == [NoReview EXCEPT !.at = "judged", !.used = used, !.good = good]
  <2>2. w.at = "judged" /\ w.used = used /\ w.tries = 0 /\ w.base = 0 /\ w.met = 0 /\ w.content = "none"
    BY DEF NoReview
  <2>3. used \subseteq StoredSkills /\ UNCHANGED skill
    BY <1>1 DEF ActiveSkills, BeginReview
  <2> HIDE DEF w
  <2>4. \A n \in 0..MaxVersions : StoredSkills = 1..n => Attempts(w, n)
    BY <2>2, <2>3, SkillAssumption DEF Attempts
  <2> QED BY <2>1, <2>3, <2>4, AttemptStep DEF w
<1>2. CASE DistilNothing(r)
  <2> DEFINE w == [review[r] EXCEPT !.at = "scoring", !.todo = review[r].used]
  <2>1. /\ w.at = "scoring" /\ w.used = review[r].used /\ w.tries = review[r].tries
        /\ w.base = review[r].base /\ w.met = review[r].met /\ w.content = review[r].content
    BY <1>0 DEF ReviewRow
  <2>2. ReviewTo(r, w) /\ UNCHANGED skill
    BY <1>2 DEF DistilNothing
  <2> HIDE DEF w
  <2>3. \A n \in 0..MaxVersions : Attempts(review[r], n) => Attempts(w, n)
    BY <2>1 DEF Attempts
  <2> QED BY <2>2, <2>3, AttemptStep
<1>3. CASE Distil(r)
  <2>1. PICK c \in Guidance :
          IF Holding(c) # {}
          THEN ReviewTo(r, [review[r] EXCEPT !.at = "scoring", !.todo = review[r].used])
          ELSE ReviewTo(r, [review[r] EXCEPT !.at = "recording", !.content = c])
    BY <1>3 DEF Distil
  <2>2. UNCHANGED skill /\ review[r].at = "judged"
    BY <1>3 DEF Distil, ReviewAt
  <2>3. CASE Holding(c) # {}
    <3> DEFINE w == [review[r] EXCEPT !.at = "scoring", !.todo = review[r].used]
    <3>1. /\ w.at = "scoring" /\ w.used = review[r].used /\ w.tries = review[r].tries
          /\ w.base = review[r].base /\ w.met = review[r].met /\ w.content = review[r].content
      BY <1>0 DEF ReviewRow
    <3>2. ReviewTo(r, w)
      BY <2>1, <2>3
    <3> HIDE DEF w
    <3>3. \A n \in 0..MaxVersions : Attempts(review[r], n) => Attempts(w, n)
      BY <3>1 DEF Attempts
    <3> QED BY <2>2, <3>2, <3>3, AttemptStep
  <2>4. CASE Holding(c) = {}
    <3> DEFINE w == [review[r] EXCEPT !.at = "recording", !.content = c]
    <3>1. /\ w.at = "recording" /\ w.used = review[r].used /\ w.tries = review[r].tries
          /\ w.base = review[r].base /\ w.met = review[r].met /\ w.content = c
      BY <1>0 DEF ReviewRow
    <3>2. ReviewTo(r, w)
      BY <2>1, <2>4
    <3>3. review[r].met \in Nat /\ c # "lost"
      BY <1>0, SkillAssumption DEF ReviewRow
    <3> HIDE DEF w
    <3>4. \A n \in 0..MaxVersions : Attempts(review[r], n) => Attempts(w, n)
      BY <2>2, <3>1, <3>3 DEF Attempts
    <3> QED BY <2>2, <3>2, <3>4, AttemptStep
  <2> QED BY <2>3, <2>4
<1>4. CASE ReadVersion(r)
  <2> DEFINE w == [review[r] EXCEPT !.at = "inserting", !.base = Cardinality(StoredSkills),
                                    !.tries = @ + 1]
  <2>1. /\ w.at = "inserting" /\ w.used = review[r].used /\ w.tries = review[r].tries + 1
        /\ w.base = Cardinality(StoredSkills) /\ w.met = review[r].met
        /\ w.content = review[r].content
    BY <1>0 DEF ReviewRow
  <2>2. /\ ReviewTo(r, w) /\ UNCHANGED skill /\ review[r].at = "recording"
        /\ review[r].tries < Retries /\ Cardinality(StoredSkills) < MaxVersions
    BY <1>4 DEF ReadVersion, ReviewAt, TriesLeft
  <2>3. review[r].met \in Nat /\ review[r].tries \in Nat
    BY <1>0 DEF ReviewRow
  <2> HIDE DEF w
  <2>4. ASSUME NEW n \in 0..MaxVersions, StoredSkills = 1..n, Attempts(review[r], n)
        PROVE  Attempts(w, n)
    <3>1. n \in Nat /\ w.base = n
      BY <2>1, <2>4, StoredCount, SkillAssumption
    <3> QED BY <2>1, <2>2, <2>3, <2>4, <3>1, SkillAssumption DEF Attempts
  <2> QED BY <2>2, <2>4, AttemptStep
<1>5. CASE VersionTaken(r)
  <2> DEFINE w == [review[r] EXCEPT !.at = "recording", !.met = @ + 1]
  <2>1. /\ w.at = "recording" /\ w.used = review[r].used /\ w.tries = review[r].tries
        /\ w.base = review[r].base /\ w.met = review[r].met + 1 /\ w.content = review[r].content
    BY <1>0 DEF ReviewRow
  <2>2. ReviewTo(r, w) /\ UNCHANGED skill /\ review[r].at = "inserting"
    BY <1>5 DEF VersionTaken, ReviewAt
  <2>3. review[r].met \in Nat /\ review[r].tries \in Nat
    BY <1>0 DEF ReviewRow
  <2> HIDE DEF w
  <2>4. \A n \in 0..MaxVersions : Attempts(review[r], n) => Attempts(w, n)
    BY <2>1, <2>2, <2>3, SkillAssumption DEF Attempts
  <2> QED BY <2>2, <2>4, AttemptStep
<1>6. CASE DropGuidance(r)
  <2> DEFINE w == [review[r] EXCEPT !.at = "scoring", !.todo = review[r].used, !.content = "lost"]
  <2>1. /\ w.at = "scoring" /\ w.used = review[r].used /\ w.tries = review[r].tries
        /\ w.base = review[r].base /\ w.met = review[r].met /\ w.content = "lost"
    BY <1>0 DEF ReviewRow
  <2>2. /\ ReviewTo(r, w) /\ UNCHANGED skill /\ review[r].at = "recording"
        /\ ~(review[r].tries < Retries)
    BY <1>6 DEF DropGuidance, ReviewAt, TriesLeft
  <2>3. review[r].met \in Nat /\ review[r].tries \in Nat
    BY <1>0 DEF ReviewRow
  <2> HIDE DEF w
  <2>4. \A n \in 0..MaxVersions : Attempts(review[r], n) => Attempts(w, n)
    BY <2>1, <2>2, <2>3, SkillAssumption DEF Attempts
  <2> QED BY <2>2, <2>4, AttemptStep
<1>7. ASSUME NEW v \in SkillVersion, ReadSkill(r, v)
      PROVE  SkillsNumbered'
  <2> DEFINE w == [review[r] EXCEPT !.at = "writing", !.scoring = v, !.read = skill[v],
                                    !.todo = @ \ {v}]
  <2>1. /\ w.at = "writing" /\ w.used = review[r].used /\ w.tries = review[r].tries
        /\ w.base = review[r].base /\ w.met = review[r].met /\ w.content = review[r].content
    BY <1>0 DEF ReviewRow
  <2>2. ReviewTo(r, w) /\ UNCHANGED skill
    BY <1>7 DEF ReadSkill
  <2> HIDE DEF w
  <2>3. \A n \in 0..MaxVersions : Attempts(review[r], n) => Attempts(w, n)
    BY <2>1 DEF Attempts
  <2> QED BY <2>2, <2>3, AttemptStep
<1>8. CASE EndReview(r)
  <2> DEFINE w == [NoReview EXCEPT !.kept = TRUE, !.content = review[r].content,
                                   !.met = review[r].met]
  <2>1. /\ w.at = "idle" /\ w.used = {} /\ w.tries = 0 /\ w.base = 0 /\ w.met = review[r].met
        /\ w.content = review[r].content
    BY DEF NoReview
  <2>2. ReviewTo(r, w) /\ UNCHANGED skill
    BY <1>8 DEF EndReview
  <2> HIDE DEF w
  <2>3. \A n \in 0..MaxVersions : Attempts(review[r], n) => Attempts(w, n)
    BY <2>1, SkillAssumption DEF Attempts
  <2> QED BY <2>2, <2>3, AttemptStep
<1>9. CASE ReviewFails(r)
  <2> DEFINE w == [NoReview EXCEPT !.kept = TRUE]
  <2>1. w.at = "idle" /\ w.used = {} /\ w.tries = 0 /\ w.base = 0 /\ w.content = "none"
    BY DEF NoReview
  <2>2. ReviewTo(r, w) /\ UNCHANGED skill
    BY <1>9 DEF ReviewFails
  <2> HIDE DEF w
  <2>3. \A n \in 0..MaxVersions : Attempts(w, n)
    BY <2>1, SkillAssumption DEF Attempts
  <2> QED BY <2>2, <2>3, AttemptStep
<1> QED BY <1>1, <1>2, <1>3, <1>4, <1>5, <1>6, <1>7, <1>8, <1>9

(* A new version is the next one: the review had read the last.            *)
LEMMA NumberedInsert ==
    ASSUME SkillInv, SkillInv', SkillsNumbered, NEW r \in Review, InsertVersion(r)
    PROVE  SkillsNumbered'
<1> DEFINE v   == NextVersion(review[r].base)
           new == [content |-> review[r].content, score |-> 0, active |-> TRUE]
           w   == [review[r] EXCEPT !.at = "scoring", !.todo = review[r].used]
<1>0. review[r] \in ReviewRow
  BY DEF SkillInv
<1>1. PICK n \in 0..MaxVersions : StoredSkills = 1..n /\ \A q \in Review : Attempts(review[q], n)
  BY DEF SkillsNumbered
<1>2. /\ review[r].at = "inserting" /\ v \notin StoredSkills
      /\ skill' = [skill EXCEPT ![v] = new] /\ ReviewTo(r, w)
  BY DEF InsertVersion, ReviewAt
<1>3. review[r].base <= n /\ review[r].base < MaxVersions /\ review[r].content \in Guidance
  BY <1>1, <1>2 DEF Attempts
<1>4. v = n + 1 /\ v \in SkillVersion /\ n \in Nat /\ n + 1 \in 0..MaxVersions
  <2>1. review[r].base \in Nat /\ n \in Nat /\ v = review[r].base + 1
    BY <1>0, SkillAssumption DEF ReviewRow, NextVersion
  <2> HIDE DEF v
  <2>2. ~(v \in 1..n)
    BY <1>1, <1>2
  <2> QED BY <1>3, <2>1, <2>2, SkillAssumption DEF SkillVersion
<1>5. /\ new.content = review[r].content /\ new.content # "none" /\ new.content # "lost"
      /\ new.active = TRUE
  BY <1>3, SkillAssumption
<1>6. /\ w.at = "scoring" /\ w.used = review[r].used /\ w.tries = review[r].tries
      /\ w.base = review[r].base /\ w.met = review[r].met /\ w.content = review[r].content
  BY <1>0 DEF ReviewRow
<1> HIDE DEF v, new, w
<1>7. \A u \in SkillVersion : skill'[u] = IF u = v THEN new ELSE skill[u]
  BY <1>2, <1>4 DEF SkillInv
<1>8. StoredSkills' = 1..n + 1
  <2>1. StoredSkills' = StoredSkills \cup {v}
    BY <1>4, <1>5, <1>7 DEF StoredSkills
  <2> QED BY <1>1, <1>4, <2>1
<1>9. \A q \in Review : Attempts(review'[q], n + 1)
  <2>1. Attempts(w, n + 1)
    <3>1. Attempts(w, n)
      BY <1>1, <1>6 DEF Attempts
    <3>2. 1..n \subseteq 1..n + 1
      BY <1>4
    <3> QED BY <1>6, <3>1, <3>2 DEF Attempts
  <2>2. ASSUME NEW q \in Review PROVE Attempts(review[q], n + 1)
    BY <1>1, <1>4, MoreStored DEF SkillInv
  <2>3. \A q \in Review : review'[q] = IF q = r THEN w ELSE review[q]
    BY <1>2 DEF ReviewTo, SkillInv
  <2> QED BY <2>1, <2>2, <2>3
<1>10. \A u \in SkillVersion : /\ skill'[u].content # "lost"
                               /\ skill'[u].active => u \in StoredSkills'
  BY <1>1, <1>4, <1>5, <1>7, <1>8 DEF SkillsNumbered
<1> QED BY <1>4, <1>8, <1>9, <1>10 DEF SkillsNumbered

(* A score keeps the content and revives nothing.                          *)
LEMMA NumberedWrite ==
    ASSUME SkillInv, SkillInv', SkillsNumbered, NEW r \in Review, WriteScore(r)
    PROVE  SkillsNumbered'
<1> DEFINE v     == review[r].scoring
           score == IF review[r].good THEN review[r].read.score + 1
                    ELSE review[r].read.score - 1
           scored == [skill[v] EXCEPT !.score = score]
           new == [scored EXCEPT !.active = skill[v].active /\ ~Retires(score)]
           w   == [review[r] EXCEPT !.at = "scoring", !.scoring = 0, !.read = NoSkill]
<1>0. review[r] \in ReviewRow /\ v \in SkillVersion /\ skill[v] \in SkillRow
  BY DEF SkillInv, WriteScore, ReviewAt
<1>1. PICK n \in 0..MaxVersions : StoredSkills = 1..n /\ \A q \in Review : Attempts(review[q], n)
  BY DEF SkillsNumbered
<1>2. skill' = [skill EXCEPT ![v] = new] /\ ReviewTo(r, w)
  BY DEF WriteScore
<1>3. new.content = skill[v].content /\ (new.active => skill[v].active)
  <2>1. scored.content = skill[v].content /\ DOMAIN scored = DOMAIN skill[v]
        /\ "active" \in DOMAIN scored /\ "content" \in DOMAIN scored
    BY <1>0 DEF SkillRow
  <2> HIDE DEF scored
  <2> QED BY <2>1
<1>4. /\ w.at = "scoring" /\ w.used = review[r].used /\ w.tries = review[r].tries
      /\ w.base = review[r].base /\ w.met = review[r].met /\ w.content = review[r].content
  BY <1>0 DEF ReviewRow
<1> HIDE DEF new, w
<1>5. \A u \in SkillVersion : /\ skill'[u].content = skill[u].content
                              /\ skill'[u].active => skill[u].active
  BY <1>0, <1>2, <1>3 DEF SkillInv
<1>6. StoredSkills' = StoredSkills
  BY <1>5 DEF StoredSkills
<1>7. \A q \in Review : Attempts(review'[q], n)
  <2>1. Attempts(w, n)
    BY <1>1, <1>4 DEF Attempts
  <2>2. \A q \in Review : review'[q] = IF q = r THEN w ELSE review[q]
    BY <1>2 DEF ReviewTo, SkillInv
  <2> QED BY <1>1, <2>1, <2>2
<1>8. \E m \in 0..MaxVersions : (StoredSkills = 1..m)' /\ \A q \in Review : Attempts(review'[q], m)
  BY <1>1, <1>6, <1>7
<1> QED BY <1>5, <1>6, <1>8 DEF SkillsNumbered

LEMMA NumberedStep ==
    SkillInv /\ SkillInv' /\ SkillsNumbered /\ [SkillNext]_skillVars => SkillsNumbered'
<1> SUFFICES ASSUME SkillInv, SkillInv', SkillsNumbered, [SkillNext]_skillVars
             PROVE  SkillsNumbered'
  OBVIOUS
<1>1. CASE UNCHANGED skillVars
  BY <1>1 DEF skillVars, SkillsNumbered, StoredSkills
<1>2. CASE SkillNext
  BY <1>2, AttemptMoves, NumberedInsert, NumberedWrite DEF SkillNext
<1> QED BY <1>1, <1>2

LEMMA SkillAlways == SkillSpec => [](SkillInv /\ SkillsNumbered)
BY SkillInitInv, SkillStepInv, NumberedInit, NumberedStep, PTL DEF SkillSpec

(* Type correctness, and more: however many reviews record at once and     *)
(* collide, the versions of a domain are numbered without a gap            *)
(* (skills.py:150-185).                                                    *)
THEOREM SkillTypeCorrect == SkillSpec => []SkillTypeOK
<1>1. ASSUME SkillInv, SkillsNumbered PROVE SkillTypeOK
  <2>1. PICK n \in 0..MaxVersions : StoredSkills = 1..n /\ \A q \in Review : Attempts(review[q], n)
    BY <1>1 DEF SkillsNumbered
  <2>2. StoredSkills = 1..Cardinality(StoredSkills)
    BY <2>1, StoredCount, SkillAssumption
  <2>3. ASSUME NEW v \in SkillVersion
        PROVE  /\ skill[v].score \in Int /\ skill[v].active \in BOOLEAN
               /\ skill[v].content \in Guidance \cup {"none"}
               /\ skill[v].active => v \in StoredSkills
               /\ feedback[v].plus \in Nat /\ feedback[v].minus \in Nat
    <3>1. skill[v] \in SkillRow /\ feedback[v] \in Count
      BY <1>1 DEF SkillInv
    <3> QED BY <1>1, <3>1 DEF SkillRow, Count, SkillsNumbered
  <2>4. ASSUME NEW r \in Review
        PROVE  /\ review[r].tries \in 0..Retries /\ review[r].used \subseteq StoredSkills
               /\ review[r].base < MaxVersions
    <3>1. review[r].tries \in Nat
      BY <1>1 DEF SkillInv, ReviewRow
    <3> QED BY <2>1, <3>1, SkillAssumption DEF Attempts
  <2> QED BY <2>2, <2>3, <2>4 DEF SkillTypeOK
<1> QED BY <1>1, SkillAlways, PTL

(* Guidance is dropped for want of a version number only after as many     *)
(* other reviews stored a version meanwhile as there are attempts          *)
(* (skills.py:158-160, 178-185).                                           *)
THEOREM DroppedAfterRaces == SkillSpec => []DroppedOnlyAfterRaces
<1>1. ASSUME SkillsNumbered PROVE DroppedOnlyAfterRaces
  BY <1>1 DEF SkillsNumbered, Attempts, DroppedOnlyAfterRaces
<1> QED BY <1>1, SkillAlways, PTL

-----------------------------------------------------------------------------
(* Questions and answers.  A window answers a question once, and each run  *)
(* asks one: so many answers can there be.                                 *)
Prompted == {w \in PromptTab : prompt[w] # 0}
QuestionsAsked == IF attempt.at = "filling" THEN attempt.no - 1 ELSE attempt.no

AnswersBounded ==
    given + Cardinality(Prompted) <= QuestionsAsked * Cardinality(PromptTab)

RunBounded ==
    /\ attempt.no <= MaxRuns /\ attempt.left \in 0..AskTimeout
    /\ attempt.at \in {"filling", "asking"} => attempt.no \in RunNo
    /\ prompt \in [PromptTab -> 0..MaxRuns]

ListBounded ==
    /\ Len(answers) <= given /\ unexpired \in 0..given
    /\ life \in 1..Forever /\ orphaned \in BOOLEAN
    /\ \A i \in 1..Len(answers) : answers[i].about \in RunNo
    /\ \A n \in RunNo : answer[n] = NoAnswer \/ answer[n].about \in RunNo

ConfirmBounded == RunBounded /\ ListBounded /\ AnswersBounded

LEMMA OneMore == ASSUME NEW a \in Nat, NEW c \in Nat
                 PROVE  (a + 1) * c = a * c + c /\ a * c \in Nat
OBVIOUS

LEMMA MonotoneTimes == ASSUME NEW a \in Nat, NEW b \in Nat, NEW c \in Nat, a <= b
                       PROVE  a * c <= b * c
OBVIOUS

LEMMA PromptedCount ==
    ASSUME NEW S \in SUBSET PromptTab
    PROVE  /\ IsFiniteSet(S) /\ Cardinality(S) \in Nat /\ Cardinality(PromptTab) \in Nat
           /\ Cardinality(S) <= Cardinality(PromptTab)
BY ConfirmationAssumption, FS_Subset, FS_CardinalityType

LEMMA ConfirmBoundedInit == ConfirmInit => ConfirmBounded
<1> SUFFICES ASSUME ConfirmInit PROVE ConfirmBounded
  OBVIOUS
<1>1. RunBounded
  BY ConfirmationAssumption DEF ConfirmInit, RunBounded
<1>2. ListBounded
  <2>1. Forever \in 1..Forever
    BY ConfirmationAssumption DEF Forever
  <2>2. answers = <<>> /\ Len(answers) = 0 /\ given = 0 /\ unexpired = 0 /\ life = Forever
    BY DEF ConfirmInit
  <2>3. orphaned \in BOOLEAN /\ \A n \in RunNo : answer[n] = NoAnswer
    BY DEF ConfirmInit
  <2> QED BY <2>1, <2>2, <2>3 DEF ListBounded
<1>3. AnswersBounded
  <2>1. Prompted = {}
    BY DEF ConfirmInit, Prompted
  <2>2. given = 0 /\ QuestionsAsked = 0
    BY DEF ConfirmInit, QuestionsAsked
  <2>3. Cardinality(PromptTab) \in Nat
    BY PromptedCount
  <2> QED BY <2>1, <2>2, <2>3, FS_EmptySet DEF AnswersBounded
<1> QED BY <1>1, <1>2, <1>3 DEF ConfirmBounded

(* The run goes on: its list is as it was.                                 *)
LEMMA RunBoundedStep ==
    ASSUME ConfirmInv, ConfirmBounded, [ConfirmNext]_confirmVars
    PROVE  RunBounded'
<1>0. /\ attempt \in [no : Nat, at : AttemptAt, timed : BOOLEAN, left : Int]
      /\ RunBounded /\ RunStands
  BY DEF ConfirmInv, ConfirmTyped, ConfirmBounded
<1>1. CASE UNCHANGED confirmVars
  BY <1>0, <1>1 DEF confirmVars, RunBounded
<1>2. CASE BeginAttempt
  BY <1>0, <1>2, ConfirmationAssumption DEF BeginAttempt, RunBounded, RunNo
<1>3. CASE RequestApproval
  <2>1. attempt'.no = attempt.no /\ attempt'.left \in 0..AskTimeout /\ attempt.no \in RunNo
    BY <1>0, <1>3, ConfirmationAssumption DEF RequestApproval, RunBounded
  <2>2. prompt' \in [PromptTab -> 0..MaxRuns]
    <3>1. PICK shown \in SUBSET PromptTab :
            prompt' = [w \in PromptTab |-> IF w \in shown THEN attempt.no ELSE prompt[w]]
      BY <1>3 DEF RequestApproval
    <3>2. attempt.no \in 0..MaxRuns
      BY <2>1 DEF RunNo
    <3> QED BY <1>0, <3>1, <3>2 DEF RunBounded
  <2> QED BY <1>0, <2>1, <2>2 DEF RunBounded
<1>4. CASE RunProceeds
  <2>1. \E at \in AttemptAt \ {"filling", "asking"} : attempt' = [attempt EXCEPT !.at = at]
    BY <1>4 DEF RunProceeds, TakeAnswer, GiveUpAsking, ClickSubmit, StopAgent, EndAttempt,
                CancelAtJobTimeout, Goes, AttemptAt
  <2>2. UNCHANGED prompt
    BY <1>4 DEF RunProceeds, TakeAnswer, GiveUpAsking, ClickSubmit, StopAgent, EndAttempt,
                CancelAtJobTimeout
  <2> QED BY <1>0, <2>1, <2>2 DEF RunBounded
<1>5. ASSUME NEW w \in PromptTab, Dismiss(w) \/ \E r \in Response : PushAnswer(w, r)
      PROVE  RunBounded'
  <2>1. UNCHANGED attempt /\ prompt' = [prompt EXCEPT ![w] = 0]
    BY <1>5 DEF Dismiss, PushAnswer
  <2> QED BY <1>0, <2>1, ConfirmationAssumption DEF RunBounded
<1>6. CASE ExpireAnswers \/ DeliveryFails
  BY <1>0, <1>6 DEF ExpireAnswers, DeliveryFails, RunBounded
<1>7. CASE FiveMinutes
  BY <1>0, <1>7, ConfirmationAssumption DEF FiveMinutes, RunBounded
<1> QED BY <1>1, <1>2, <1>3, <1>4, <1>5, <1>6, <1>7 DEF ConfirmNext

LEMMA ListBoundedStep ==
    ASSUME ConfirmInv, ConfirmBounded, [ConfirmNext]_confirmVars
    PROVE  ListBounded'
<1>0. /\ answers \in Seq(AnswerRecord) /\ given \in Nat /\ Len(answers) \in Nat
      /\ answer \in [RunNo -> AnswerRecord \cup {NoAnswer}]
      /\ ListBounded /\ RunBounded /\ RunStands
  BY DEF ConfirmInv, ConfirmTyped, ConfirmBounded
<1>1. CASE UNCHANGED <<answers, life, unexpired, given, answer, orphaned>>
  BY <1>0, <1>1 DEF ListBounded
<1>2. CASE TakeAnswer
  <2>1. /\ answers # <<>> /\ answers' = Tail(answers) /\ attempt.no \in RunNo
        /\ answer' = [answer EXCEPT ![attempt.no] = Head(answers)]
        /\ life' \in {Forever, life} /\ UNCHANGED <<unexpired, given, orphaned>>
    BY <1>0, <1>2 DEF TakeAnswer, Pop, Goes, RunStands
  <2>2. /\ Len(answers') = Len(answers) - 1 /\ Len(answers) >= 1 /\ Head(answers) = answers[1]
        /\ \A i \in 1..Len(answers') : answers'[i] = answers[i + 1] /\ i + 1 \in 1..Len(answers)
    BY <1>0, <2>1
  <2>3. \A i \in 1..Len(answers') : answers'[i].about \in RunNo
    BY <1>0, <2>2 DEF ListBounded
  <2>4. Head(answers).about \in RunNo
    BY <1>0, <2>2 DEF ListBounded
  <2>5. \A n \in RunNo : answer'[n] = NoAnswer \/ answer'[n].about \in RunNo
    BY <1>0, <2>1, <2>4 DEF ListBounded
  <2>6. Forever \in 1..Forever
    BY ConfirmationAssumption DEF Forever
  <2> QED BY <1>0, <2>1, <2>2, <2>3, <2>5, <2>6 DEF ListBounded
<1>3. ASSUME NEW w \in PromptTab, NEW r \in Response, PushAnswer(w, r)
      PROVE  ListBounded'
  <2> DEFINE new == [id |-> given + 1, says |-> r, about |-> prompt[w]]
  <2>1. /\ given' = given + 1 /\ answers' = Append(answers, new) /\ unexpired' = unexpired + 1
        /\ UNCHANGED <<life, answer, orphaned>> /\ prompt[w] # 0 /\ new.about = prompt[w]
    BY <1>3 DEF PushAnswer
  <2>2. new.about \in RunNo
    BY <1>0, <2>1, ConfirmationAssumption DEF RunBounded, RunNo
  <2> HIDE DEF new
  <2>3. /\ Len(answers') = Len(answers) + 1 /\ answers'[Len(answers) + 1] = new
        /\ \A i \in 1..Len(answers) : answers'[i] = answers[i]
    BY <1>0, <2>1
  <2>4. \A i \in 1..Len(answers') : i \in 1..Len(answers) \/ i = Len(answers) + 1
    BY <1>0, <2>3
  <2> QED BY <1>0, <2>1, <2>2, <2>3, <2>4 DEF ListBounded
<1>4. CASE ExpireAnswers \/ DeliveryFails
  <2>1. UNCHANGED <<answers, given, answer>> /\ unexpired > 0 /\ unexpired' = unexpired - 1
    BY <1>4 DEF ExpireAnswers, DeliveryFails
  <2>2. AnswerLife \in 1..Forever
    BY ConfirmationAssumption DEF Forever
  <2>3. life' \in 1..Forever /\ orphaned' \in BOOLEAN
    BY <1>0, <1>4, <2>2 DEF ExpireAnswers, DeliveryFails, Expire, ListBounded
  <2> QED BY <1>0, <2>1, <2>3 DEF ListBounded
<1>5. CASE FiveMinutes
  <2>1. life' \in 1..Forever /\ UNCHANGED <<unexpired, given, answer, orphaned>>
    BY <1>0, <1>5, ConfirmationAssumption DEF FiveMinutes, ListBounded, Forever
  <2>2. answers' = answers \/ (answers' = <<>> /\ Len(answers') = 0)
    BY <1>5 DEF FiveMinutes
  <2> QED BY <1>0, <2>1, <2>2 DEF ListBounded
<1>6. CASE BeginAttempt \/ RequestApproval \/ GiveUpAsking \/ ClickSubmit \/ StopAgent
           \/ EndAttempt \/ CancelAtJobTimeout \/ (\E w \in PromptTab : Dismiss(w))
           \/ UNCHANGED confirmVars
  BY <1>1, <1>6 DEF BeginAttempt, RequestApproval, GiveUpAsking, ClickSubmit, StopAgent,
       EndAttempt, CancelAtJobTimeout, Dismiss, confirmVars
<1> QED BY <1>2, <1>3, <1>4, <1>5, <1>6 DEF ConfirmNext, RunProceeds

LEMMA AnswersBoundedStep ==
    ASSUME ConfirmInv, ConfirmBounded, [ConfirmNext]_confirmVars
    PROVE  AnswersBounded'
<1> DEFINE C == Cardinality(PromptTab)
<1>0. /\ attempt \in [no : Nat, at : AttemptAt, timed : BOOLEAN, left : Int] /\ given \in Nat
      /\ AnswersBounded /\ RunBounded /\ C \in Nat
  BY PromptedCount DEF ConfirmInv, ConfirmTyped, ConfirmBounded
<1>1. /\ Prompted \subseteq PromptTab /\ Prompted' \subseteq PromptTab
      /\ Cardinality(Prompted) \in Nat /\ Cardinality(Prompted') \in Nat
      /\ Cardinality(Prompted') <= C
  BY PromptedCount DEF Prompted
<1>2. QuestionsAsked \in Nat
  BY <1>0 DEF QuestionsAsked, RunBounded, RunNo
<1> HIDE DEF C
<1>3. ASSUME given' = given, Prompted' = Prompted, QuestionsAsked' \in Nat,
             QuestionsAsked <= QuestionsAsked'
      PROVE  AnswersBounded'
  <2>1. QuestionsAsked * C <= QuestionsAsked' * C /\ QuestionsAsked * C \in Nat
        /\ QuestionsAsked' * C \in Nat
    BY <1>0, <1>2, <1>3, MonotoneTimes, OneMore
  <2> QED BY <1>0, <1>1, <1>3, <2>1 DEF AnswersBounded, C
<1>4. CASE UNCHANGED <<given, prompt, attempt>>
  BY <1>2, <1>3, <1>4 DEF Prompted, QuestionsAsked
<1>5. CASE BeginAttempt
  <2>1. UNCHANGED <<given, prompt>> /\ QuestionsAsked = attempt.no /\ QuestionsAsked' = attempt.no
    BY <1>0, <1>5 DEF BeginAttempt, QuestionsAsked
  <2> QED BY <1>2, <1>3, <2>1 DEF Prompted
<1>6. CASE RequestApproval
  <2>1. /\ given' = given /\ attempt.at = "filling" /\ attempt'.at = "asking"
        /\ attempt'.no = attempt.no
    BY <1>0, <1>6 DEF RequestApproval
  <2>2. QuestionsAsked' = QuestionsAsked + 1
    BY <1>0, <2>1 DEF QuestionsAsked
  <2>3. (QuestionsAsked + 1) * C = QuestionsAsked * C + C /\ QuestionsAsked * C \in Nat
    BY <1>0, <1>2, OneMore
  <2> QED BY <1>0, <1>1, <2>1, <2>2, <2>3 DEF AnswersBounded, C
<1>7. CASE RunProceeds
  <2>1. UNCHANGED <<given, prompt>> /\ attempt'.no = attempt.no /\ attempt'.at # "filling"
    BY <1>0, <1>7 DEF RunProceeds, TakeAnswer, GiveUpAsking, ClickSubmit, StopAgent, EndAttempt,
                      CancelAtJobTimeout, Goes
  <2>2. QuestionsAsked' \in Nat /\ QuestionsAsked <= QuestionsAsked'
    BY <1>0, <1>2, <2>1 DEF QuestionsAsked
  <2> QED BY <1>3, <2>1, <2>2 DEF Prompted
<1>8. ASSUME NEW w \in PromptTab, Dismiss(w) \/ \E r \in Response : PushAnswer(w, r)
      PROVE  AnswersBounded'
  <2>1. /\ prompt' = [prompt EXCEPT ![w] = 0] /\ prompt[w] # 0 /\ UNCHANGED attempt
        /\ given' \in {given, given + 1}
    BY <1>8 DEF Dismiss, PushAnswer
  <2>2. Prompted' = Prompted \ {w} /\ w \in Prompted
    BY <1>0, <2>1 DEF Prompted, RunBounded
  <2>3. Cardinality(Prompted') = Cardinality(Prompted) - 1
    BY <1>1, <2>2, FS_RemoveElement, PromptedCount
  <2>4. QuestionsAsked' = QuestionsAsked
    BY <2>1 DEF QuestionsAsked
  <2>5. QuestionsAsked * C \in Nat
    BY <1>0, <1>2, OneMore
  <2> QED BY <1>0, <1>1, <2>1, <2>3, <2>4, <2>5 DEF AnswersBounded, C
<1>9. CASE FiveMinutes
  <2>1. UNCHANGED <<given, prompt>> /\ attempt'.no = attempt.no /\ attempt'.at = attempt.at
    BY <1>0, <1>9 DEF FiveMinutes
  <2> QED BY <1>2, <1>3, <2>1 DEF Prompted, QuestionsAsked
<1>10. CASE ExpireAnswers \/ DeliveryFails \/ UNCHANGED confirmVars
  BY <1>4, <1>10 DEF ExpireAnswers, DeliveryFails, confirmVars
<1> QED BY <1>5, <1>6, <1>7, <1>8, <1>9, <1>10 DEF ConfirmNext

(* Types of the questions and answers; no more are answered than the       *)
(* windows can have been shown, however they are delivered.                *)
THEOREM ConfirmTypeCorrect == ConfirmSafety => []ConfirmTypeOK
<1>1. ASSUME ConfirmInv, ConfirmBounded PROVE ConfirmTypeOK
  <2> DEFINE C == Cardinality(PromptTab)
  <2>0. /\ attempt \in [no : Nat, at : AttemptAt, timed : BOOLEAN, left : Int] /\ given \in Nat
        /\ answers \in Seq(AnswerRecord) /\ Len(answers) \in Nat
        /\ answer \in [RunNo -> AnswerRecord \cup {NoAnswer}] /\ clicked \subseteq RunNo
        /\ RunBounded /\ ListBounded /\ AnswersBounded /\ AnsweredOnce /\ C \in Nat
    BY <1>1, PromptedCount DEF ConfirmInv, ConfirmTyped, ConfirmBounded
  <2>1. given <= MaxGiven /\ MaxGiven \in Nat
    <3>1. QuestionsAsked \in Nat /\ QuestionsAsked <= MaxRuns /\ MaxRuns \in Nat
      BY <2>0, ConfirmationAssumption DEF QuestionsAsked, RunBounded, RunNo
    <3>2. Cardinality(Prompted) \in Nat
      BY PromptedCount DEF Prompted
    <3> HIDE DEF C
    <3>3. QuestionsAsked * C <= MaxRuns * C /\ QuestionsAsked * C \in Nat /\ MaxRuns * C \in Nat
      BY <2>0, <3>1, MonotoneTimes, OneMore
    <3>4. MaxGiven = MaxRuns * C /\ given + Cardinality(Prompted) <= QuestionsAsked * C
      BY <2>0 DEF MaxGiven, C, AnswersBounded
    <3> QED BY <2>0, <3>2, <3>3, <3>4
  <2> HIDE DEF C
  <2>2. attempt \in [no : 0..MaxRuns, at : AttemptAt, timed : BOOLEAN, left : 0..AskTimeout]
    BY <2>0, ConfirmationAssumption DEF RunBounded
  <2>3. ASSUME NEW a \in AnswerRecord, a.id <= given, a.about \in RunNo
        PROVE  a \in Answer
    BY <2>0, <2>1, <2>3 DEF Answer, AnswerRecord
  <2>4. answers \in Seq(Answer) /\ Len(answers) <= MaxGiven
    <3>1. \A i \in 1..Len(answers) : answers[i] \in Answer
      BY <2>0, <2>3 DEF ListBounded, AnsweredOnce
    <3>2. answers = [i \in 1..Len(answers) |-> answers[i]]
      BY <2>0
    <3> QED BY <2>0, <2>1, <3>1, <3>2, SeqDef DEF ListBounded
  <2>5. answer \in [RunNo -> Answer \cup {NoAnswer}]
    BY <2>0, <2>3 DEF ListBounded, AnsweredOnce
  <2>6. unexpired \in 0..MaxGiven /\ given \in 0..MaxGiven
    BY <2>0, <2>1 DEF ListBounded
  <2> QED BY <2>0, <2>2, <2>4, <2>5, <2>6 DEF ConfirmTypeOK, RunBounded, ListBounded
<1>2. ConfirmInv /\ ConfirmBounded /\ [ConfirmNext]_confirmVars => ConfirmBounded'
  BY RunBoundedStep, ListBoundedStep, AnswersBoundedStep DEF ConfirmBounded
<1> QED BY <1>1, <1>2, ConfirmInitInv, ConfirmStepInv, ConfirmBoundedInit, PTL DEF ConfirmSafety

(* Purging.  What the cron has on its list stays due, and it does not      *)
(* have the account it is deleting on the list as well.                    *)
PurgeTyped ==
    /\ account \in [Owner -> {"live", "deleted", "gone"}]
    /\ daysLeft \in [Owner -> 0..GraceDays]
    /\ files \in [Owner -> 0..MaxFiles]
    /\ kept \in [Owner -> SUBSET Tables]
    /\ storedLate \in [Owner -> BOOLEAN]
    /\ jobOf \in [Job -> Owner \cup {"none"}]
    /\ purge \in PurgeRun
    /\ \A u \in purge.todo : Due(u)
    /\ purge.at = "rows" => purge.user \notin purge.todo /\ Due(purge.user)

LEMMA PurgeTypedStep == PurgeTyped /\ [PurgeNext]_purgeVars => PurgeTyped'
<1> SUFFICES ASSUME PurgeTyped, [PurgeNext]_purgeVars PROVE PurgeTyped'
  OBVIOUS
<1>1. CASE UNCHANGED purgeVars
  BY <1>1 DEF purgeVars, PurgeTyped, Due
<1>2. ASSUME NEW j \in Job, StoreFile(j)
      PROVE  PurgeTyped'
  BY <1>2, PurgeAssumption DEF PurgeTyped, StoreFile, PurgeRun, Due
<1>3. ASSUME NEW j \in Job, StoreRow(j)
      PROVE  PurgeTyped'
  BY <1>3 DEF PurgeTyped, StoreRow, PurgeRun, Due
<1>4. ASSUME NEW j \in Job, EndJob(j) \/ \E u \in Owner : StartJob(j, u)
      PROVE  PurgeTyped'
  BY <1>4 DEF PurgeTyped, EndJob, StartJob, PurgeRun, Due
<1>5. ASSUME NEW u \in Owner, DeleteFiles(u)
      PROVE  PurgeTyped'
  <2>1. files' \in [Owner -> 0..MaxFiles]
    <3>1. files[u] - Removed(files[u]) \in 0..MaxFiles
      BY PurgeAssumption DEF PurgeTyped, Removed
    <3> QED BY <1>5, <3>1 DEF PurgeTyped, DeleteFiles
  <2>2. purge' \in PurgeRun
    BY <1>5 DEF PurgeTyped, DeleteFiles, AtUser, PurgeRun
  <2> QED BY <1>5, <2>1, <2>2 DEF PurgeTyped, DeleteFiles, AtUser, Due
<1>6. CASE StartPurge
  BY <1>6 DEF PurgeTyped, StartPurge, PurgeRun, Due
<1>7. CASE NextDay
  <2>1. daysLeft' \in [Owner -> 0..GraceDays]
    BY <1>7, PurgeAssumption DEF PurgeTyped, NextDay
  <2> QED BY <1>7, <2>1 DEF PurgeTyped, NextDay, NoRun, PurgeRun, Due
<1>8. CASE DeleteRows
  <2>1. /\ account' = [account EXCEPT ![purge.user] = "gone"]
        /\ purge' = [at |-> "next", todo |-> purge.todo, ran |-> purge.ran]
        /\ UNCHANGED <<daysLeft, files, storedLate, jobOf>> /\ purge.at = "rows"
    BY <1>8 DEF DeleteRows, NextUser
  <2>2. purge.user \in Owner /\ purge' \in PurgeRun
    BY <2>1 DEF PurgeTyped, PurgeRun
  <2>3. kept' \in [Owner -> SUBSET Tables]
    <3>1. PICK rest \in SUBSET Tables : kept' = [kept EXCEPT ![purge.user] = rest]
      BY <1>8, <2>2 DEF DeleteRows, PurgeTyped
    <3> QED BY <3>1 DEF PurgeTyped
  <2>4. purge'.at = "next" /\ purge'.todo = purge.todo
    BY <2>1
  <2>5. ASSUME NEW u \in purge.todo PROVE Due(u)'
    <3>1. u # purge.user /\ u \in Owner
      BY <2>1, <2>5 DEF PurgeTyped, PurgeRun
    <3> QED BY <2>1, <2>5, <3>1 DEF PurgeTyped, Due
  <2>6. account' \in [Owner -> {"live", "deleted", "gone"}]
    BY <2>1, <2>2 DEF PurgeTyped
  <2> HIDE DEF PurgeRun
  <2> QED BY <2>1, <2>2, <2>3, <2>4, <2>5, <2>6 DEF PurgeTyped
<1>9. CASE AbortPurge \/ EndPurge
  BY <1>9 DEF PurgeTyped, AbortPurge, EndPurge, NoRun, PurgeRun, Due
<1>10. ASSUME NEW u \in Owner, SoftDelete(u)
       PROVE  PurgeTyped'
  BY <1>10 DEF PurgeTyped, SoftDelete, PurgeRun, Due
<1>11. ASSUME NEW u \in Owner, FilesFail(u)
       PROVE  PurgeTyped'
  <2>1. PICK remaining \in 0..files[u] : files' = [files EXCEPT ![u] = remaining]
    BY <1>11 DEF FilesFail
  <2>2. remaining \in 0..MaxFiles
    BY PurgeAssumption DEF PurgeTyped
  <2>3. purge' = [at |-> "next", todo |-> purge.todo \ {u}, ran |-> purge.ran]
    BY <1>11 DEF FilesFail, SkipUser, NextUser
  <2>4. purge' \in PurgeRun
    BY <2>3 DEF PurgeTyped, PurgeRun
  <2> QED BY <1>11, <2>1, <2>2, <2>3, <2>4 DEF PurgeTyped, FilesFail, Due
<1> QED BY <1>1, <1>2, <1>3, <1>4, <1>5, <1>6, <1>7, <1>8, <1>9, <1>10, <1>11 DEF PurgeNext

(* Types of the purge: whatever fails, the cron only ever deletes accounts *)
(* whose grace period is over (account.py, cron).                          *)
THEOREM PurgeTypeCorrect == PurgeSafety => []PurgeTypeOK
<1>1. PurgeInit => PurgeTyped
  BY PurgeAssumption DEF PurgeInit, PurgeTyped, PurgeRun, NoRun, Due, Tables
<1>2. PurgeTyped => PurgeTypeOK
  BY DEF PurgeTyped, PurgeTypeOK, PurgeRun
<1> QED BY <1>1, <1>2, PurgeTypedStep, PTL DEF PurgeSafety

-----------------------------------------------------------------------------
(* The inbox.  A sync holds nothing but messages of its own mailbox: it    *)
(* lists them, and reads the newest of those that are left.                *)
InboxHolds ==
    /\ recorded \subseteq arrived
    /\ \A s \in Syncer : sync[s].todo \cup sync[s].fresh \cup sync[s].flushed \subseteq MailOf(sync[s].for)
    /\ agentRun \in [Mailbox -> {"none", "running", "done", "error"}]
    /\ visits \subseteq Mailbox /\ poisoned \in BOOLEAN /\ corrections \in 0..MaxCorrections

LEMMA NewestIsOne ==
    ASSUME NEW S \in SUBSET Mail, S # {}
    PROVE  Newest(S) \in S
<1> DEFINE above(m) == {o \in S : ~(o <= m)}
           sizes == {Cardinality(above(m)) : m \in S}
<1>1. IsFiniteSet(S) /\ S \subseteq Nat
  BY InboxAssumption, FS_Subset
<1>2. \A m \in S : IsFiniteSet(above(m)) /\ Cardinality(above(m)) \in Nat
  <2>1. \A m \in S : above(m) \in SUBSET S
    OBVIOUS
  <2> HIDE DEF above
  <2> QED BY <1>1, <2>1, FS_Subset, FS_CardinalityType
<1>3. PICK n \in sizes : \A k \in sizes : n <= k
  <2>1. sizes \in SUBSET Nat /\ sizes # {}
    BY <1>2
  <2> HIDE DEF sizes
  <2> QED BY <2>1, LeastRow
<1>4. PICK m \in S : Cardinality(above(m)) = n
  BY <1>3
<1>5. ASSUME NEW o \in S, ~(o <= m) PROVE FALSE
  <2>1. above(o) \subseteq above(m) /\ o \in above(m) /\ o \notin above(o)
    <3>1. \A x \in S : x \in Nat
      BY <1>1
    <3>2. \A x \in S : ~(x <= o) => ~(x <= m)
      BY <1>5, <3>1
    <3>3. o <= o
      BY <3>1
    <3> QED BY <1>5, <3>2, <3>3
  <2>2. Cardinality(above(m)) <= Cardinality(above(o))
    BY <1>3, <1>4
  <2> HIDE DEF above
  <2>3. Cardinality(above(o)) <= Cardinality(above(m)) /\ Cardinality(above(o)) # Cardinality(above(m))
    BY <1>2, <2>1, FS_Subset
  <2> QED BY <1>2, <2>2, <2>3
<1> QED BY <1>5 DEF Newest

(* Nothing is taken up: a sync that goes on keeps part of what it held.    *)
LEMMA HoldsLess ==
    ASSUME InboxHolds, arrived \subseteq arrived', recorded' \subseteq arrived',
           \A s \in Syncer :
             \/ sync'[s].todo \cup sync'[s].fresh \cup sync'[s].flushed = {}
             \/ /\ sync'[s].for = sync[s].for
                /\ sync'[s].todo \cup sync'[s].fresh \cup sync'[s].flushed
                     \subseteq MailOf(sync[s].for),
           agentRun' \in [Mailbox -> {"none", "running", "done", "error"}],
           visits' \subseteq Mailbox, poisoned' \in BOOLEAN, corrections' \in 0..MaxCorrections
    PROVE  InboxHolds'
<1>1. \A u : MailOf(u) \subseteq MailOf(u)'
  BY DEF MailOf
<1> QED BY <1>1 DEF InboxHolds, MailOf

LEMMA HoldsStep == InboxInv /\ InboxHolds /\ [InboxNext]_inboxVars => InboxHolds'
<1> SUFFICES ASSUME InboxInv, InboxHolds, [InboxNext]_inboxVars PROVE InboxHolds'
  OBVIOUS
<1>0. /\ NoSync.todo = {} /\ NoSync.fresh = {} /\ NoSync.flushed = {} /\ NoSync \in SyncRow
      /\ sync \in [Syncer -> SyncRow] /\ \A s \in Syncer : sync[s].at # "idle" => sync[s].for \in Mailbox
      /\ recorded \subseteq arrived /\ visits \subseteq Mailbox /\ poisoned \in BOOLEAN
      /\ agentRun \in [Mailbox -> {"none", "running", "done", "error"}]
      /\ corrections \in 0..MaxCorrections /\ MaxCorrections \in Nat
      /\ \A s \in Syncer : sync[s].todo \cup sync[s].fresh \cup sync[s].flushed \subseteq MailOf(sync[s].for)
  BY InboxAssumption DEF NoSync, SyncRow, Statuses, InboxInv, InboxTyped, Running, InboxHolds
<1>1. CASE /\ UNCHANGED <<recorded, sync, agentRun, corrections>> /\ arrived \subseteq arrived'
           /\ visits' \subseteq Mailbox /\ poisoned' \in BOOLEAN
  BY <1>0, <1>1, HoldsLess
<1>2. ASSUME NEW s \in Syncer, NEW r, sync' = [sync EXCEPT ![s] = r],
             \/ r.todo \cup r.fresh \cup r.flushed = {}
             \/ r.for = sync[s].for /\ r.todo \cup r.fresh \cup r.flushed \subseteq MailOf(sync[s].for),
             UNCHANGED <<arrived, recorded, corrections>>,
             agentRun' \in [Mailbox -> {"none", "running", "done", "error"}],
             visits' \subseteq Mailbox, poisoned' \in BOOLEAN
      PROVE  InboxHolds'
  <2>1. sync'[s] = r /\ \A o \in Syncer \ {s} : sync'[o] = sync[o]
    BY <1>0, <1>2
  <2>2. \A o \in Syncer :
             \/ sync'[o].todo \cup sync'[o].fresh \cup sync'[o].flushed = {}
             \/ /\ sync'[o].for = sync[o].for
                /\ sync'[o].todo \cup sync'[o].fresh \cup sync'[o].flushed
                     \subseteq MailOf(sync[o].for)
    BY <1>0, <1>2, <2>1
  <2> QED BY <1>0, <1>2, <2>2, HoldsLess
<1>3. ASSUME NEW s \in Syncer, NEW u \in Mailbox, Begin(s, u),
             UNCHANGED <<arrived, recorded, corrections, poisoned>>,
             agentRun' \in [Mailbox -> {"none", "running", "done", "error"}], visits' \subseteq Mailbox
      PROVE  InboxHolds'
  <2> DEFINE r == [NoSync EXCEPT !.at = "listing", !.for = u, !.sees = standing[u]]
  <2>1. r.todo = {} /\ r.fresh = {} /\ r.flushed = {} /\ sync' = [sync EXCEPT ![s] = r]
    BY <1>3 DEF Begin, NoSync
  <2> HIDE DEF r
  <2> QED BY <1>0, <1>2, <1>3, <2>1
<1>4. ASSUME NEW s \in Syncer, ListMessages(s) PROVE InboxHolds'
  <2> DEFINE r == [sync[s] EXCEPT !.at = "reading", !.todo = MailOf(sync[s].for)]
  <2>1. sync[s] \in SyncRow
    BY <1>0
  <2>2. r.for = sync[s].for /\ r.todo = MailOf(sync[s].for) /\ r.fresh = sync[s].fresh /\ r.flushed = sync[s].flushed
    BY <2>1 DEF SyncRow
  <2>3. sync' = [sync EXCEPT ![s] = r] /\ UNCHANGED <<arrived, recorded, corrections, agentRun, visits, poisoned>>
    BY <1>4 DEF ListMessages
  <2> HIDE DEF r
  <2> QED BY <1>0, <1>2, <2>2, <2>3
<1>5. ASSUME NEW s \in Syncer, NEW m \in Mail, NEW stage \in BOOLEAN, Look(s, m, stage) PROVE InboxHolds'
  <2> DEFINE r == [Flushed(sync[s]) EXCEPT !.todo = @ \ {m}]
             next == Advance(r.sees, m)
             staged == [r EXCEPT !.fresh = {m}, !.sees = next,
                                 !.dirty = IF next = r.sees THEN {} ELSE {m}]
  <2>1. sync[s] \in SyncRow
    BY <1>0
  <2>2. r.for = sync[s].for /\ r.todo = sync[s].todo \ {m} /\ r.fresh = {}
        /\ r.flushed = sync[s].flushed \cup sync[s].fresh /\ r \in SyncRow
    BY <2>1 DEF SyncRow, Flushed
  <2>3. m \in sync[s].todo
    BY <1>5, <2>1, NewestIsOne DEF Look, SyncRow
  <2>4. staged.for = r.for /\ staged.todo = r.todo /\ staged.fresh = {m} /\ staged.flushed = r.flushed
    <3> HIDE DEF r, next
    <3> QED BY <2>2 DEF SyncRow
  <2>5. PICK new \in {r, staged} : sync' = [sync EXCEPT ![s] = new]
    BY <1>5 DEF Look
  <2>6. UNCHANGED <<arrived, recorded, corrections, agentRun, visits, poisoned>>
    BY <1>5 DEF Look
  <2> HIDE DEF r, next, staged
  <2>7. new.for = sync[s].for /\ new.todo \cup new.fresh \cup new.flushed \subseteq MailOf(sync[s].for)
    BY <1>0, <2>2, <2>3, <2>4, <2>5
  <2> QED BY <1>0, <1>2, <2>5, <2>6, <2>7
<1>6. ASSUME NEW s \in Syncer, sync[s].at = "reading", Store(s),
             \/ Close(s, "done") /\ visits' = visits
             \/ Close(s, "error") /\ visits' = {},
             UNCHANGED <<arrived, poisoned, corrections>>
      PROVE  InboxHolds'
  <2>1. sync[s].for \in Mailbox /\ recorded' \subseteq arrived
    BY <1>0, <1>6 DEF Store, MailOf
  <2>2. agentRun' \in [Mailbox -> {"none", "running", "done", "error"}] /\ visits' \subseteq Mailbox
    BY <1>0, <1>6, <2>1 DEF Close
  <2>3. ASSUME NEW o \in Syncer
        PROVE  \/ sync'[o] = NoSync
               \/ /\ sync'[o].for = sync[o].for /\ sync'[o].todo = sync[o].todo
                  /\ sync'[o].fresh = sync[o].fresh /\ sync'[o].flushed = sync[o].flushed
    <3>1. CASE o = s
      BY <1>6, <3>1 DEF Store
    <3>2. CASE o # s
      <4> DEFINE b == sync[o].alone /\ (sync[s].dirty \cup sync[s].locked = {} \/ sync[o].for # sync[s].for)
      <4>1. sync'[o] = [sync[o] EXCEPT !.alone = b] /\ sync[o] \in SyncRow
        BY <1>0, <1>6, <3>2 DEF Store
      <4> HIDE DEF b
      <4> QED BY <4>1 DEF SyncRow
    <3> QED BY <3>1, <3>2
  <2>4. \A o \in Syncer :
             \/ sync'[o].todo \cup sync'[o].fresh \cup sync'[o].flushed = {}
             \/ /\ sync'[o].for = sync[o].for
                /\ sync'[o].todo \cup sync'[o].fresh \cup sync'[o].flushed
                     \subseteq MailOf(sync[o].for)
    BY <1>0, <2>3
  <2> QED BY <1>0, <1>6, <2>1, <2>2, <2>4, HoldsLess
<1>7. ASSUME NEW s \in Syncer, SyncConflicts(s) PROVE InboxHolds'
  <2>1. sync' = [sync EXCEPT ![s] = NoSync] /\ poisoned' \in BOOLEAN
        /\ UNCHANGED <<arrived, recorded, corrections, agentRun, visits>>
    BY <1>0, <1>7 DEF SyncConflicts
  <2> QED BY <1>0, <1>2, <2>1
<1>8. ASSUME NEW s \in Syncer, ListFails(s) PROVE InboxHolds'
  <2>1. sync' = [sync EXCEPT ![s] = NoSync] /\ UNCHANGED <<arrived, recorded, corrections, poisoned, visits>>
    BY <1>8 DEF ListFails
  <2>2. agentRun' \in [Mailbox -> {"none", "running", "done", "error"}]
    BY <1>0, <1>8 DEF ListFails, Close
  <2> QED BY <1>0, <1>2, <2>1, <2>2
<1>9. ASSUME NEW u \in Mailbox, NEW i \in 1..3, Correct(u, Standing[i]) PROVE InboxHolds'
  <2>1. \A o \in Syncer : /\ sync'[o].for = sync[o].for /\ sync'[o].todo = sync[o].todo
                          /\ sync'[o].fresh = sync[o].fresh /\ sync'[o].flushed = sync[o].flushed
    BY <1>0, <1>9 DEF Correct, SyncRow
  <2>2. corrections' \in 0..MaxCorrections /\ UNCHANGED <<arrived, recorded, agentRun, visits, poisoned>>
    BY <1>0, <1>9 DEF Correct
  <2> QED BY <1>0, <2>1, <2>2, HoldsLess
<1>10. ASSUME NEW u \in Mailbox, TakeUser(u) \/ StartRoute(u) PROVE InboxHolds'
  BY <1>0, <1>3, <1>10 DEF TakeUser, StartRoute, Syncer
<1>11. ASSUME NEW m \in Mail, MailArrives(m) PROVE InboxHolds'
  BY <1>0, <1>1, <1>11 DEF MailArrives
<1>12. ASSUME StartCycle \/ \E u \in Mailbox : FailUser(u) PROVE InboxHolds'
  BY <1>0, <1>1, <1>12 DEF StartCycle, FailUser
<1>13. ASSUME NEW s \in Syncer, FinishSync(s) PROVE InboxHolds'
  BY <1>6, <1>13 DEF FinishSync
<1>14. ASSUME CancelCycle PROVE InboxHolds'
  BY <1>6, <1>14 DEF CancelCycle, Syncer
<1>15. CASE UNCHANGED inboxVars
  BY <1>0, <1>1, <1>15 DEF inboxVars
<1> QED BY <1>4, <1>5, <1>7, <1>8, <1>9, <1>10, <1>11, <1>12, <1>13, <1>14, <1>15
        DEF InboxNext, SyncProceeds, ReadMessage, FetchFails

(* Type correctness of InboxSync: what is recorded had arrived, and a sync *)
(* holds messages of the mailbox it reads and of no other.                 *)
THEOREM InboxTypeCorrect == InboxSpec => []InboxTypeOK
<1>1. InboxInit => InboxHolds
  <2> SUFFICES ASSUME InboxInit PROVE InboxHolds
    OBVIOUS
  <2>1. NoSync.todo = {} /\ NoSync.fresh = {} /\ NoSync.flushed = {} /\ \A s \in Syncer : sync[s] = NoSync
    BY DEF InboxInit, NoSync
  <2>2. corrections \in 0..MaxCorrections
    BY InboxAssumption DEF InboxInit
  <2> QED BY <2>1, <2>2 DEF InboxInit, InboxHolds
<1>2. InboxInv /\ InboxHolds => InboxTypeOK
  <2>1. {Standing[i] : i \in 1..3} = Statuses
    BY DEF Standing, Statuses
  <2> QED BY <2>1 DEF InboxInv, InboxTyped, HeldBack, InboxHolds, InboxTypeOK, SyncRow
<1>3. InboxSpec => []InboxHolds
  BY <1>1, HoldsStep, InboxAlways, PTL DEF InboxSpec
<1> QED BY <1>2, <1>3, InboxAlways, PTL

-----------------------------------------------------------------------------
(* Type correctness of KeyRing: calls hold keys of the pool, and no        *)
(* cooldown exceeds the long one, however the answers are mixed.           *)
THEOREM KeyRingTypeCorrect == KeyRingSafety => []KeyRingTypeOK
<1> DEFINE HeldTyped == hasCredit \in [Pool -> BOOLEAN] /\ \A c \in Call : calls[c].left \subseteq Pool
<1>1. KeyRingInit => HeldTyped
  BY DEF KeyRingInit, NoCall
<1>2. KeyRingInv /\ HeldTyped /\ [KeyRingNext]_keyRingVars => HeldTyped'
  <2> SUFFICES ASSUME KeyRingInv, HeldTyped, [KeyRingNext]_keyRingVars PROVE HeldTyped'
    OBVIOUS
  <2>1. \A c \in Call : /\ DOMAIN calls[c] = {"left", "answer"} /\ calls[c].left \subseteq Pool
                        /\ DOMAIN calls = Call
    BY DEF KeyRingInv, AnswersKnown
  <2>2. ASSUME NEW c \in Call, BeginCall(c) \/ Respond(c) \/ Resume(c) PROVE HeldTyped'
    <3>1. UNCHANGED hasCredit
      BY <2>2 DEF BeginCall, Respond, Resume
    <3>2. \E r : calls' = [calls EXCEPT ![c] = r] /\ r.left \subseteq Pool
      <4>1. CASE BeginCall(c)
        <5>1. [NoCall EXCEPT !.left = UsableKeys].left \subseteq Pool
          BY DEF NoCall, UsableKeys
        <5> QED BY <4>1, <5>1 DEF BeginCall
      <4>2. CASE Respond(c)
        <5>1. PICK a : calls' = [calls EXCEPT ![c] = [calls[c] EXCEPT !.answer = a]]
          BY <4>2 DEF Respond
        <5>2. [calls[c] EXCEPT !.answer = a].left = calls[c].left
          BY <2>1
        <5> QED BY <2>1, <5>1, <5>2
      <4>3. CASE Resume(c)
        <5>1. [NoCall EXCEPT !.left = calls[c].left \ {OfCall(c)}].left \subseteq Pool /\ NoCall.left = {}
          BY <2>1 DEF NoCall
        <5>2. \E r \in {NoCall, [NoCall EXCEPT !.left = calls[c].left \ {OfCall(c)}]} : calls' = [calls EXCEPT ![c] = r]
          BY <4>3 DEF Resume
        <5> QED BY <5>1, <5>2
      <4> QED BY <2>2, <4>1, <4>2, <4>3
    <3> QED BY <2>1, <3>1, <3>2
  <2>3. ASSUME NEW k \in Pool, RunOut(k) \/ TopUp(k) PROVE HeldTyped'
    BY <2>3 DEF RunOut, TopUp
  <2>4. CASE RingTick
    BY <2>4 DEF RingTick
  <2>5. CASE UNCHANGED keyRingVars
    BY <2>5 DEF keyRingVars
  <2> QED BY <2>2, <2>3, <2>4, <2>5 DEF KeyRingNext
<1>3. KeyRingInv /\ HeldTyped => KeyRingTypeOK
  BY DEF KeyRingInv, CountersTyped, KeyRingTypeOK
<1> QED BY <1>1, <1>2, <1>3, KeyRingInitInv, KeyRingStepInv, PTL DEF KeyRingSafety

-----------------------------------------------------------------------------
(* Searches.  A link names a row that was stored, by the advert and the    *)
(* commit, and every commit stored an advert that is stored still or was   *)
(* deleted.                                                                *)
CommittedRow == Listing \X (1..commits)

SearchesHold ==
    /\ commits \in Nat /\ deletes \in Nat /\ CommitsOrdered
    /\ born \in [Listing -> 0..commits]
    /\ canonical \in [Listing -> CommittedRow \cup {NoVacancyRow}]
    /\ \A l \in Listing : canonical[l] # NoVacancyRow => l \in StoredJobs
    /\ commits <= Cardinality(StoredJobs) + deletes
    /\ search \in [Searcher -> SearchRow]
    /\ \A s \in Searcher : search[s].link \subseteq CommittedRow \X CommittedRow

LEMMA StoredFinite == IsFiniteSet(StoredJobs) /\ Cardinality(StoredJobs) \in Nat
<1>1. StoredJobs \in SUBSET Listing
  BY DEF StoredJobs
<1> QED BY <1>1, DiscoveryAssumption, FS_Subset, FS_CardinalityType

(* What is stored does not change; one search, or the links.               *)
LEMMA SearchesQuiet ==
    ASSUME SearchesHold, UNCHANGED <<born, byAge, commits, deletes>>,
           canonical' \in [Listing -> CommittedRow \cup {NoVacancyRow}],
           \A l \in Listing : canonical'[l] # NoVacancyRow => l \in StoredJobs,
           NEW s \in Searcher, NEW f \in SearchRow, SearchTo(s, f),
           f.link \subseteq CommittedRow \X CommittedRow
    PROVE  SearchesHold'
<1>1. CommittedRow' = CommittedRow /\ StoredJobs' = StoredJobs
  BY DEF CommittedRow, StoredJobs
<1>2. CommitsOrdered'
  BY DEF SearchesHold, CommitsOrdered
<1>3. search' \in [Searcher -> SearchRow] /\ \A o \in Searcher : search'[o].link \subseteq CommittedRow \X CommittedRow
  BY DEF SearchTo, SearchesHold
<1> QED BY <1>1, <1>2, <1>3 DEF SearchesHold

LEMMA SearchesStore ==
    ASSUME SearchesHold, NEW s \in Searcher, StoreResults(s), NewResults(s) # {}
    PROVE  SearchesHold'
<1>1. /\ commits' = commits + 1 /\ commits \in Nat /\ deletes \in Nat
      /\ born' = [l \in Listing |-> IF l \in NewResults(s) THEN commits' ELSE born[l]]
      /\ UNCHANGED <<canonical, deletes>>
      /\ search' = [search EXCEPT ![s] = [NoSearch EXCEPT !.at = "linking"]]
      /\ NewResults(s) \cap StoredJobs = {} /\ NewResults(s) \subseteq Listing
      /\ born \in [Listing -> 0..commits]
  BY DEF StoreResults, Storable, SearchTo, SearchesHold, NewResults, SearchRow
<1>2. CommitsOrdered'
  <2>1. PICK k \in 1..Len(byAge) + 1 : byAge' = Insertion(byAge, k, commits + 1)
    BY <1>1 DEF StoreResults, Insertion
  <2>2. commits' = commits + 1 /\ commits \in Nat /\ CommitsOrdered
    BY <1>1 DEF SearchesHold
  <2> QED BY <2>1, <2>2, CommitKept
<1>3. born' \in [Listing -> 0..commits + 1] /\ StoredJobs' = StoredJobs \cup NewResults(s)
  BY <1>1 DEF StoredJobs
<1>4. commits + 1 <= Cardinality(StoredJobs') + deletes
  <2>1. StoredJobs' \in SUBSET Listing
    BY <1>3 DEF StoredJobs
  <2>2. IsFiniteSet(StoredJobs')
    BY <2>1, DiscoveryAssumption, FS_Subset
  <2>3. Cardinality(StoredJobs) <= Cardinality(StoredJobs') /\ Cardinality(StoredJobs) # Cardinality(StoredJobs')
        /\ Cardinality(StoredJobs') \in Nat
    BY <1>1, <1>3, <2>2, FS_Subset, FS_CardinalityType
  <2>4. commits <= Cardinality(StoredJobs) + deletes
    BY DEF SearchesHold
  <2> QED BY <1>1, <2>3, <2>4, StoredFinite
<1>5. CommittedRow \subseteq CommittedRow'
  BY <1>1 DEF CommittedRow
<1>6. search' \in [Searcher -> SearchRow] /\ \A o \in Searcher : search'[o].link \subseteq CommittedRow \X CommittedRow
  <2>1. [NoSearch EXCEPT !.at = "linking"] \in SearchRow /\ [NoSearch EXCEPT !.at = "linking"].link = {}
    BY DEF NoSearch, SearchRow
  <2> QED BY <1>1, <2>1 DEF SearchesHold
<1>7. canonical' \in [Listing -> CommittedRow' \cup {NoVacancyRow}]
  BY <1>1, <1>5 DEF SearchesHold
<1>8. \A l \in Listing : canonical'[l] # NoVacancyRow => l \in StoredJobs'
  BY <1>1, <1>3 DEF SearchesHold
<1>9. \A o \in Searcher : search'[o].link \subseteq CommittedRow' \X CommittedRow'
  BY <1>5, <1>6
<1> QED BY <1>1, <1>2, <1>3, <1>4, <1>6, <1>7, <1>8, <1>9 DEF SearchesHold

LEMMA SearchesDelete ==
    ASSUME SearchesHold, NEW l \in Listing, DeleteJob(l)
    PROVE  SearchesHold'
<1>1. /\ UNCHANGED <<byAge, search, commits>> /\ l \in StoredJobs
      /\ born' = [born EXCEPT ![l] = 0] /\ canonical' = [canonical EXCEPT ![l] = NoVacancyRow]
      /\ deletes' = deletes + 1 /\ deletes \in Nat /\ commits \in Nat
      /\ born \in [Listing -> 0..commits]
  BY DEF DeleteJob, SearchesHold
<1>2. StoredJobs' = StoredJobs \ {l}
  BY <1>1 DEF StoredJobs
<1>3. Cardinality(StoredJobs') = Cardinality(StoredJobs) - 1
  BY <1>1, <1>2, StoredFinite, FS_RemoveElement
<1>4. commits <= Cardinality(StoredJobs') + deletes'
  BY <1>1, <1>3, StoredFinite DEF SearchesHold
<1>5. CommittedRow' = CommittedRow /\ CommitsOrdered'
  BY <1>1 DEF CommittedRow, SearchesHold, CommitsOrdered
<1>6. \A m \in Listing : canonical'[m] # NoVacancyRow => m \in StoredJobs'
  BY <1>1, <1>2 DEF SearchesHold
<1>7. born' \in [Listing -> 0..commits] /\ canonical' \in [Listing -> CommittedRow \cup {NoVacancyRow}]
  BY <1>1 DEF SearchesHold
<1> QED BY <1>1, <1>4, <1>5, <1>6, <1>7 DEF SearchesHold

LEMMA SearchesPlan ==
    ASSUME SearchesHold, NEW s \in Searcher, PlanLinks(s)
    PROVE  SearchesHold'
<1>1. PICK leaders \in Leaderships :
        SearchTo(s, IF LinksTo(leaders) = {} THEN NoSearch
                    ELSE [NoSearch EXCEPT !.at = "writing", !.link = LinksTo(leaders)])
  BY DEF PlanLinks
<1> DEFINE link == LinksTo(leaders)
<1>2. \A l \in StoredJobs : Row(l) \in CommittedRow
  BY DEF StoredJobs, Row, CommittedRow, SearchesHold
<1>3. \A p \in link : \E l, m \in StoredJobs : p = <<Row(l), Row(m)>>
  BY VacancyMembers DEF LinksTo
<1>4. link \subseteq CommittedRow \X CommittedRow
  BY <1>2, <1>3
<1>5. CommittedRow \subseteq RowIds
  <2>1. Listing \subseteq Nat /\ 1..commits \subseteq Nat
    BY DiscoveryAssumption DEF SearchesHold
  <2> QED BY <2>1 DEF CommittedRow, RowIds
<1> HIDE DEF link
<1>6. PICK f \in SearchRow : SearchTo(s, f) /\ f.link \in {{}, link}
  <2>1. NoSearch \in SearchRow /\ NoSearch.link = {}
    BY DEF NoSearch, SearchRow
  <2>2. /\ [NoSearch EXCEPT !.at = "writing", !.link = link] \in SearchRow
        /\ [NoSearch EXCEPT !.at = "writing", !.link = link].link = link
    BY <1>4, <1>5 DEF NoSearch, SearchRow
  <2> QED BY <1>1, <2>1, <2>2 DEF link
<1>7. UNCHANGED <<born, byAge, canonical, commits, deletes>>
  BY DEF PlanLinks
<1>8. f.link \subseteq CommittedRow \X CommittedRow
  BY <1>4, <1>6
<1> QED BY <1>6, <1>7, <1>8, SearchesQuiet DEF SearchesHold

LEMMA SearchesLink ==
    ASSUME SearchesHold, NEW s \in Searcher, WriteLinks(s)
    PROVE  SearchesHold'
<1> DEFINE link == search[s].link
           written == {p[1] : p \in link}
<1>1. /\ UNCHANGED <<born, byAge, commits, deletes>> /\ SearchTo(s, NoSearch)
      /\ link \subseteq CommittedRow \X CommittedRow
  BY DEF WriteLinks, SearchesHold
<1>2. NoSearch \in SearchRow /\ NoSearch.link = {}
  BY DEF NoSearch, SearchRow
<1>3. ASSUME NEW l \in Listing
      PROVE  /\ canonical'[l] \in CommittedRow \cup {NoVacancyRow}
             /\ canonical'[l] # NoVacancyRow => l \in StoredJobs
  <2>1. canonical'[l] = IF written \subseteq StoredRows /\ Row(l) \in written
                        THEN (CHOOSE p \in link : p[1] = Row(l))[2] ELSE canonical[l]
    BY DEF WriteLinks
  <2>2. CASE written \subseteq StoredRows /\ Row(l) \in written
    <3>1. PICK p \in link : p[1] = Row(l) /\ canonical'[l] = p[2]
      BY <2>1, <2>2
    <3>2. l \in StoredJobs
      BY <2>2 DEF StoredRows, Row
    <3> QED BY <1>1, <3>1, <3>2
  <2>3. CASE ~(written \subseteq StoredRows /\ Row(l) \in written)
    BY <2>1, <2>3 DEF SearchesHold
  <2> QED BY <2>2, <2>3
<1>4. canonical' \in [Listing -> CommittedRow \cup {NoVacancyRow}]
  <2>1. canonical' = [l \in Listing |-> canonical'[l]]
    BY DEF WriteLinks
  <2> QED BY <1>3, <2>1
<1> QED BY <1>1, <1>2, <1>3, <1>4, SearchesQuiet

LEMMA SearchesStep == SearchesHold /\ [DiscoveryNext]_discoveryVars => SearchesHold'
<1> SUFFICES ASSUME SearchesHold, [DiscoveryNext]_discoveryVars PROVE SearchesHold'
  OBVIOUS
<1>1. /\ NoSearch \in SearchRow /\ NoSearch.link = {}
      /\ [NoSearch EXCEPT !.at = "linking"] \in SearchRow /\ [NoSearch EXCEPT !.at = "linking"].link = {}
      /\ canonical \in [Listing -> CommittedRow \cup {NoVacancyRow}]
      /\ \A l \in Listing : canonical[l] # NoVacancyRow => l \in StoredJobs
      /\ search \in [Searcher -> SearchRow]
      /\ \A s \in Searcher : search[s].link \subseteq CommittedRow \X CommittedRow
  BY DEF NoSearch, SearchRow, SearchesHold
<1>2. ASSUME NEW s \in Searcher, StartSearch(s) PROVE SearchesHold'
  <2> DEFINE f == [NoSearch EXCEPT !.at = "fetching", !.known = StoredRows]
  <2>1. StoredRows \subseteq RowIds
    <3>1. \A l \in Listing : l \in Nat /\ born[l] \in Nat
      BY DiscoveryAssumption DEF SearchesHold
    <3> QED BY <3>1 DEF StoredRows, StoredJobs, Row, RowIds
  <2>2. f \in SearchRow /\ f.link = {}
    BY <2>1 DEF NoSearch, SearchRow
  <2> HIDE DEF f
  <2>3. SearchTo(s, f) /\ UNCHANGED <<born, byAge, canonical, commits, deletes>>
    BY <1>2 DEF StartSearch, f
  <2> QED BY <1>1, <2>2, <2>3, SearchesQuiet
<1>3. ASSUME NEW s \in Searcher, NEW found \in SUBSET Listing, FetchSome(s, found) PROVE SearchesHold'
  <2> DEFINE f == [search[s] EXCEPT !.at = "storing", !.found = found]
  <2>1. f \in SearchRow /\ f.link = search[s].link
    BY <1>1 DEF SearchRow
  <2> HIDE DEF f
  <2>2. SearchTo(s, f) /\ UNCHANGED <<born, byAge, canonical, commits, deletes>>
    BY <1>3 DEF FetchSome, f
  <2>3. f.link \subseteq CommittedRow \X CommittedRow
    BY <1>1, <2>1
  <2> QED BY <1>1, <2>1, <2>2, <2>3, SearchesQuiet
<1>4. ASSUME NEW s \in Searcher, FetchNothing(s) \/ LoseResults(s) PROVE SearchesHold'
  <2>1. SearchTo(s, NoSearch) /\ UNCHANGED <<born, byAge, canonical, commits, deletes>>
    BY <1>4 DEF FetchNothing, LoseResults
  <2> QED BY <1>1, <2>1, SearchesQuiet
<1>5. ASSUME NEW s \in Searcher, StoreResults(s) PROVE SearchesHold'
  <2>1. CASE NewResults(s) = {}
    <3>1. SearchTo(s, [NoSearch EXCEPT !.at = "linking"]) /\ UNCHANGED <<born, byAge, canonical, commits, deletes>>
      BY <1>5, <2>1 DEF StoreResults
    <3> QED BY <1>1, <3>1, SearchesQuiet
  <2> QED BY <1>5, <2>1, SearchesStore
<1>6. CASE UNCHANGED discoveryVars
  BY <1>6 DEF discoveryVars, SearchesHold, CommittedRow, StoredJobs, CommitsOrdered
<1> QED BY <1>2, <1>3, <1>4, <1>5, <1>6, SearchesPlan, SearchesLink, SearchesDelete DEF DiscoveryNext

(* Type correctness of Discovery: canonical_job_id names a row some commit *)
(* stored, and stands in a stored row only; the commits that stored jobs   *)
(* are no more than the adverts and the deletions; their order by          *)
(* created_at is a permutation, wherever an overlapping commit falls.      *)
THEOREM DiscoveryTypeCorrect == DiscoverySafety => []DiscoveryTypeOK
<1>1. DiscoveryInit => SearchesHold
  <2> SUFFICES ASSUME DiscoveryInit PROVE SearchesHold
    OBVIOUS
  <2>1. NoSearch \in SearchRow /\ NoSearch.link = {}
    BY DEF NoSearch, SearchRow
  <2>2. commits <= Cardinality(StoredJobs) + deletes /\ commits = 0 /\ deletes = 0
    BY StoredFinite DEF DiscoveryInit
  <2>3. CommitsOrdered
    BY DEF DiscoveryInit, CommitsOrdered
  <2> QED BY <2>1, <2>2, <2>3 DEF DiscoveryInit, SearchesHold
<1>2. SearchesHold => DiscoveryTypeOK
  <2> SUFFICES ASSUME SearchesHold PROVE DiscoveryTypeOK
    OBVIOUS
  <2>1. Len(byAge) = commits /\ {byAge[i] : i \in 1..commits} = 1..commits
    BY DEF SearchesHold, CommitsOrdered
  <2>2. commits \in Nat /\ \A r \in CommittedRow : r[1] \in Listing /\ r[2] \in 1..commits
    BY DEF SearchesHold, CommittedRow
  <2>3. \A l \in Listing : canonical[l] \in CommittedRow \/ canonical[l] = NoVacancyRow
    BY DEF SearchesHold
  <2>4. \A l \in Listing : canonical[l][1] \in Listing \cup {0} /\ canonical[l][2] \in 0..commits
    BY <2>2, <2>3 DEF NoVacancyRow
  <2>5. \A l \in Listing : canonical[l] # NoVacancyRow => l \in StoredJobs
    BY DEF SearchesHold
  <2>6. commits <= Cardinality(Listing) + deletes
    <3>1. StoredJobs \in SUBSET Listing
      BY DEF StoredJobs
    <3>2. Cardinality(StoredJobs) <= Cardinality(Listing) /\ Cardinality(Listing) \in Nat
      BY <3>1, DiscoveryAssumption, FS_Subset, FS_CardinalityType
    <3> QED BY <2>2, <3>2, StoredFinite DEF SearchesHold
  <2>7. \A s \in Searcher : search[s].found \subseteq Listing
    BY DEF SearchesHold, SearchRow
  <2>8. \A s \in Searcher : \A p \in search[s].link : p[1][2] \in 1..commits
    BY <2>2 DEF SearchesHold
  <2> QED BY <2>1, <2>4, <2>5, <2>6, <2>7, <2>8 DEF DiscoveryTypeOK, SearchesHold
<1> QED BY <1>1, <1>2, SearchesStep, PTL DEF DiscoverySafety

-----------------------------------------------------------------------------
(* Rows of platform_sessions.  Every row that was inserted, and every row  *)
(* that a request about to commit or an attempt under way may insert,      *)
(* stands for a command of the owner.  In the queue an attempt inserts     *)
(* only where the owner disconnected the portal under it.                  *)
Asking  == {t \in WebTab : tab[t].op \in {"request", "forget", "import"}}
Drives(h) == host[h].at = "run" /\ host[h].attempt \in {"opening", "awaiting", "capturing", "saved"}
Drivers == {h \in Host : Drives(h)}
Bereft  == {p \in Portal : session[p].id = 0 /\ \E h \in Host : Drives(h) /\ host[h].portal = p}
OwedRows == IF queued THEN Cardinality(Bereft) ELSE Cardinality(Drivers)

RowsCounted == rows + Cardinality(Asking) + OwedRows <= clicks

ConnectRecords ==
    /\ session \in [Portal -> SessionRow] /\ cookies \in [Portal -> BOOLEAN]
    /\ host \in [Host -> HostRecord] /\ tab \in [WebTab -> TabRecord]
    /\ \A t \in WebTab : tab[t].op # "idle" => tab[t].portal \in Portal
    /\ \A h \in Host : host[h].at # "idle" => host[h].portal \in Portal

ConnectHeld ==
    /\ queued \in BOOLEAN /\ clicks \in 0..MaxClicks /\ rows \in Nat
    /\ ConnectRecords /\ RowsCounted

(* Counting.                                                               *)
LEMMA SizesMove ==
    ASSUME NEW U, IsFiniteSet(U), NEW S \in SUBSET U, NEW T \in SUBSET U, NEW x
    PROVE  /\ Cardinality(S) \in Nat /\ Cardinality(T) \in Nat
           /\ T \subseteq S => Cardinality(T) <= Cardinality(S)
           /\ T \subseteq S \cup {x} => Cardinality(T) <= Cardinality(S) + 1
           /\ x \in S /\ T \subseteq S \ {x} => Cardinality(T) <= Cardinality(S) - 1
<1>1. IsFiniteSet(S) /\ IsFiniteSet(T) /\ Cardinality(S) \in Nat /\ Cardinality(T) \in Nat
  BY FS_Subset, FS_CardinalityType
<1>2. T \subseteq S => Cardinality(T) <= Cardinality(S)
  BY <1>1, FS_Subset
<1>3. ASSUME T \subseteq S \cup {x} PROVE Cardinality(T) <= Cardinality(S) + 1
  <2>1. IsFiniteSet(S \cup {x}) /\ Cardinality(S \cup {x}) <= Cardinality(S) + 1 /\ Cardinality(S \cup {x}) \in Nat
    <3>1. IsFiniteSet(S \cup {x})
          /\ Cardinality(S \cup {x}) = IF x \in S THEN Cardinality(S) ELSE Cardinality(S) + 1
      BY <1>1, FS_AddElement
    <3> QED BY <1>1, <3>1
  <2>2. Cardinality(T) <= Cardinality(S \cup {x})
    BY <1>3, <2>1, FS_Subset
  <2> QED BY <1>1, <2>1, <2>2
<1>4. ASSUME x \in S, T \subseteq S \ {x} PROVE Cardinality(T) <= Cardinality(S) - 1
  <2>1. IsFiniteSet(S \ {x}) /\ Cardinality(S \ {x}) = Cardinality(S) - 1
    BY <1>1, <1>4, FS_RemoveElement
  <2>2. Cardinality(T) <= Cardinality(S \ {x})
    BY <1>4, <2>1, FS_Subset
  <2> QED BY <2>1, <2>2
<1> QED BY <1>1, <1>2, <1>3, <1>4

LEMMA HoldsOne ==
    ASSUME NEW U, IsFiniteSet(U), NEW S \in SUBSET U, NEW x \in S
    PROVE  Cardinality(S) >= 1
<1>1. S \ {x} \in SUBSET U
  OBVIOUS
<1>2. Cardinality(S \ {x}) \in Nat /\ Cardinality(S \ {x}) <= Cardinality(S) - 1 /\ Cardinality(S) \in Nat
  BY <1>1, SizesMove
<1> QED BY <1>2

LEMMA ConnectSizes ==
    /\ Cardinality(Asking) \in Nat /\ OwedRows \in Nat
    /\ Cardinality(Asking') \in Nat /\ OwedRows' \in Nat
    /\ Asking' \subseteq Asking => Cardinality(Asking') <= Cardinality(Asking)
    /\ \A t : Asking' \subseteq Asking \cup {t} => Cardinality(Asking') <= Cardinality(Asking) + 1
    /\ \A t \in Asking : Cardinality(Asking) >= 1
    /\ \A t \in Asking : Asking' \subseteq Asking \ {t} => Cardinality(Asking') <= Cardinality(Asking) - 1
<1>1. /\ Asking \in SUBSET WebTab /\ Asking' \in SUBSET WebTab /\ Drivers \in SUBSET Host /\ Drivers' \in SUBSET Host
      /\ Bereft \in SUBSET Portal /\ Bereft' \in SUBSET Portal
      /\ IsFiniteSet(WebTab) /\ IsFiniteSet(Host) /\ IsFiniteSet(Portal)
  BY ConnectAssumption DEF Asking, Drivers, Bereft
<1>2. /\ Cardinality(Drivers) \in Nat /\ Cardinality(Drivers') \in Nat
      /\ Cardinality(Bereft) \in Nat /\ Cardinality(Bereft') \in Nat
  BY <1>1, SizesMove
<1>3. \A t \in Asking : Cardinality(Asking) >= 1
  BY <1>1, HoldsOne
<1> QED BY <1>1, <1>2, <1>3, SizesMove DEF OwedRows

LEMMA OwedMoves ==
    ASSUME queued' = queued, NEW x
    PROVE  /\ (IF queued THEN Bereft' \subseteq Bereft ELSE Drivers' \subseteq Drivers) => OwedRows' <= OwedRows
           /\ (IF queued THEN Bereft' \subseteq Bereft \cup {x} ELSE Drivers' \subseteq Drivers \cup {x})
                => OwedRows' <= OwedRows + 1
           /\ (IF queued THEN x \in Bereft /\ Bereft' \subseteq Bereft \ {x}
                         ELSE x \in Drivers /\ Drivers' \subseteq Drivers \ {x})
                => OwedRows' <= OwedRows - 1
           /\ (IF queued THEN x \in Bereft ELSE x \in Drivers) => OwedRows >= 1
<1>1. /\ Drivers \in SUBSET Host /\ Drivers' \in SUBSET Host
      /\ Bereft \in SUBSET Portal /\ Bereft' \in SUBSET Portal
      /\ IsFiniteSet(Host) /\ IsFiniteSet(Portal)
  BY ConnectAssumption DEF Drivers, Bereft
<1>2. CASE queued
  <2>1. OwedRows = Cardinality(Bereft) /\ OwedRows' = Cardinality(Bereft')
    BY <1>2 DEF OwedRows
  <2>2. x \in Bereft => Cardinality(Bereft) >= 1
    BY <1>1, HoldsOne
  <2>3. /\ Bereft' \subseteq Bereft => Cardinality(Bereft') <= Cardinality(Bereft)
        /\ Bereft' \subseteq Bereft \cup {x} => Cardinality(Bereft') <= Cardinality(Bereft) + 1
        /\ x \in Bereft /\ Bereft' \subseteq Bereft \ {x} => Cardinality(Bereft') <= Cardinality(Bereft) - 1
    BY <1>1, SizesMove
  <2> QED BY <1>2, <2>1, <2>2, <2>3
<1>3. CASE ~queued
  <2>1. OwedRows = Cardinality(Drivers) /\ OwedRows' = Cardinality(Drivers')
    BY <1>3 DEF OwedRows
  <2>2. x \in Drivers => Cardinality(Drivers) >= 1
    BY <1>1, HoldsOne
  <2>3. /\ Drivers' \subseteq Drivers => Cardinality(Drivers') <= Cardinality(Drivers)
        /\ Drivers' \subseteq Drivers \cup {x} => Cardinality(Drivers') <= Cardinality(Drivers) + 1
        /\ x \in Drivers /\ Drivers' \subseteq Drivers \ {x} => Cardinality(Drivers') <= Cardinality(Drivers) - 1
    BY <1>1, SizesMove
  <2> QED BY <1>3, <2>1, <2>2, <2>3
<1> QED BY <1>2, <1>3

(* Rows.                                                                   *)
LEMMA RowChanges ==
    ASSUME NEW r \in SessionRow
    PROVE  /\ r.id \in 0..MaxClicks /\ [r EXCEPT !.age = 0] \in SessionRow /\ [r EXCEPT !.age = 0].id = r.id
           /\ [r EXCEPT !.valid = FALSE] \in SessionRow /\ [r EXCEPT !.valid = FALSE].id = r.id
           /\ Aged(r) \in SessionRow /\ Aged(r).id = r.id
           /\ AsRead(r) \in SessionRow
<1>1. 0 \in 0..StaleAfter + 1 /\ (~(r.age > StaleAfter) => r.age + 1 \in 0..StaleAfter + 1)
  BY ConnectAssumption DEF SessionRow
<1>2. [r EXCEPT !.age = 0] \in SessionRow /\ [r EXCEPT !.age = 0].id = r.id
  BY <1>1 DEF SessionRow
<1>3. [r EXCEPT !.valid = FALSE] \in SessionRow /\ [r EXCEPT !.valid = FALSE].id = r.id
  BY DEF SessionRow
<1>4. Aged(r) \in SessionRow /\ Aged(r).id = r.id
  BY <1>1 DEF SessionRow, Aged, Stale
<1> QED BY <1>2, <1>3, <1>4 DEF AsRead, SessionRow

SessionsKeepIds == session' \in [Portal -> SessionRow] /\ \A p \in Portal : session'[p].id = session[p].id

LEMMA WroteState ==
    ASSUME session \in [Portal -> SessionRow], NEW q, NEW snap, NEW state \in SessionState,
           WriteState(q, snap, state)
    PROVE  SessionsKeepIds
<1> DEFINE s == [session[q] EXCEPT !.state = state]
           new == [s EXCEPT !.age = 0]
<1>1. session' = session \/ session' = [session EXCEPT ![q] = new]
  BY DEF WriteState
<1>2. q \in Portal => s \in SessionRow /\ s.id = session[q].id
  BY DEF SessionRow
<1> HIDE DEF s
<1>3. q \in Portal => new \in SessionRow /\ new.id = session[q].id
  BY <1>2, RowChanges
<1> HIDE DEF new
<1> QED BY <1>1, <1>3 DEF SessionsKeepIds

LEMMA Upserted ==
    ASSUME session \in [Portal -> SessionRow], rows \in Nat, NEW q \in Portal, UpsertRow(q),
           rows' <= MaxClicks
    PROVE  /\ session' \in [Portal -> SessionRow] /\ rows' \in Nat /\ session'[q].id # 0
           /\ \A p \in Portal \ {q} : session'[p] = session[p]
           /\ rows' = IF session[q].id # 0 THEN rows ELSE rows + 1
<1> DEFINE n == IF Exists(session[q]) THEN session[q].id ELSE rows'
           new == [id |-> n, state |-> "session_active", stored |-> TRUE,
                   valid |-> TRUE, age |-> 0]
<1>1. session' = [session EXCEPT ![q] = new] /\ rows' = IF session[q].id # 0 THEN rows ELSE rows + 1
  BY DEF UpsertRow, Exists
<1>2. n \in 0..MaxClicks /\ n # 0
  BY <1>1, ConnectAssumption DEF SessionRow, Exists
<1> HIDE DEF n
<1>3. new \in SessionRow /\ new.id = n
  BY <1>2, ConnectAssumption DEF SessionRow, SessionState
<1> HIDE DEF new
<1> QED BY <1>1, <1>2, <1>3

(* A step that inserts no row and adds to no account.                      *)
LEMMA CountsQuiet ==
    ASSUME ConnectHeld, queued' = queued, rows' = rows, clicks' \in Nat, clicks' >= clicks,
           Asking' \subseteq Asking, IF queued THEN Bereft' \subseteq Bereft ELSE Drivers' \subseteq Drivers
    PROVE  RowsCounted'
<1>1. clicks \in Nat /\ rows \in Nat
  BY ConnectAssumption DEF ConnectHeld
<1> QED BY <1>1, ConnectSizes, OwedMoves DEF ConnectHeld, RowsCounted

(* A request reads a row.                                                  *)
LEMMA GotoHeld ==
    ASSUME ConnectHeld, NEW t \in WebTab, NEW p \in Portal, tab[t].op = "idle",
           NEW op \in TabOp, NEW to \in SessionState, Goto(t, op, p, to),
           UNCHANGED <<queued, rows, session, host>>, cookies' \in [Portal -> BOOLEAN],
           clicks' \in 0..MaxClicks, clicks' >= clicks,
           op \in {"request", "forget", "import"} => clicks' = clicks + 1
    PROVE  ConnectHeld'
<1> DEFINE r == [op |-> op, portal |-> p, snap |-> AsRead(session[p]), to |-> to]
<1>0. /\ clicks \in Nat /\ rows \in Nat /\ ConnectRecords /\ clicks' \in Nat
  BY ConnectAssumption DEF ConnectHeld
<1>1. tab' = [tab EXCEPT ![t] = r] /\ r.op = op /\ r.portal = p /\ r \in TabRecord
  BY <1>0, RowChanges DEF Goto, TabRecord, ConnectRecords, TabOp
<1> HIDE DEF r
<1>2. ConnectRecords'
  BY <1>0, <1>1 DEF ConnectRecords
<1>3. Drivers' = Drivers /\ Bereft' = Bereft
  BY DEF Drivers, Bereft, Drives
<1>4. Asking' \subseteq Asking \cup {t} /\ (op \notin {"request", "forget", "import"} => Asking' \subseteq Asking)
  BY <1>0, <1>1 DEF Asking, ConnectRecords
<1>5. RowsCounted'
  <2>1. CASE op \notin {"request", "forget", "import"}
    BY <1>0, <1>3, <1>4, <2>1, CountsQuiet
  <2>2. CASE op \in {"request", "forget", "import"}
    <3>1. OwedRows' = OwedRows
      BY <1>3 DEF OwedRows
    <3>2. Cardinality(Asking') <= Cardinality(Asking) + 1
      BY <1>4, ConnectSizes
    <3> QED BY <1>0, <2>2, <3>1, <3>2, ConnectSizes DEF ConnectHeld, RowsCounted
  <2> QED BY <2>1, <2>2
<1> QED BY <1>0, <1>2, <1>5 DEF ConnectHeld

(* A request commits.                                                      *)
LEMMA CommitHeld ==
    ASSUME ConnectHeld, NEW t \in WebTab, Commit(t)
    PROVE  ConnectHeld'
<1> DEFINE p == tab[t].portal
<1>0. /\ clicks \in Nat /\ rows \in Nat /\ ConnectRecords /\ MaxClicks \in Nat /\ clicks <= MaxClicks
      /\ session \in [Portal -> SessionRow] /\ tab \in [WebTab -> TabRecord]
  BY ConnectAssumption DEF ConnectHeld, ConnectRecords
<1>1. /\ tab' = [tab EXCEPT ![t] = IdleTab] /\ tab[t].op # "idle"
      /\ UNCHANGED <<queued, cookies, host, clicks>>
  BY DEF Commit, CommitRequest, CommitSettle, CommitExpired, CommitDisconnect, CommitImport, Done, ghosts
<1>2. IdleTab \in TabRecord /\ IdleTab.op = "idle" /\ p \in Portal
  BY <1>0, <1>1, ConnectAssumption DEF IdleTab, TabRecord, NoRow, SessionRow, SessionState, ConnectRecords
<1>3. Asking' \subseteq Asking \ {t} /\ (tab[t].op \in {"request", "forget", "import"} => t \in Asking)
  BY <1>0, <1>1, <1>2 DEF Asking
<1>4. Drivers' = Drivers /\ \A h \in Host : Drives(h)' <=> Drives(h)
  BY <1>1 DEF Drivers, Drives
<1>5. t \in Asking => rows + 1 <= MaxClicks
  BY <1>0, ConnectSizes DEF ConnectHeld, RowsCounted
<1>6. ASSUME session' \in [Portal -> SessionRow], rows' \in Nat, RowsCounted' PROVE ConnectHeld'
  <2>1. ConnectRecords'
    BY <1>0, <1>1, <1>2, <1>6 DEF ConnectRecords
  <2> QED BY <1>1, <1>6, <2>1 DEF ConnectHeld
<1>7. ASSUME SessionsKeepIds, rows' = rows PROVE ConnectHeld'
  <2>1. Bereft' = Bereft
    BY <1>1, <1>4, <1>7 DEF Bereft, SessionsKeepIds
  <2>2. RowsCounted'
    BY <1>0, <1>1, <1>3, <1>4, <1>7, <2>1, CountsQuiet
  <2> QED BY <1>0, <1>6, <1>7, <2>2 DEF SessionsKeepIds
<1>8. ASSUME t \in Asking, session' \in [Portal -> SessionRow], rows' \in {rows, rows + 1},
             \A q \in Portal \ {p} : session'[q] = session[q], session'[p].id # 0
      PROVE  ConnectHeld'
  <2>1. Bereft' \subseteq Bereft
    BY <1>1, <1>4, <1>8 DEF Bereft
  <2>2. OwedRows' <= OwedRows
    BY <1>1, <1>4, <2>1, OwedMoves
  <2>3. Cardinality(Asking') <= Cardinality(Asking) - 1
    BY <1>3, <1>8, ConnectSizes
  <2>4. RowsCounted'
    BY <1>0, <1>1, <1>8, <2>2, <2>3, ConnectSizes DEF ConnectHeld, RowsCounted
  <2> QED BY <1>0, <1>6, <1>8, <2>4
<1>9. CASE CommitRequest(t)
  <2> DEFINE s == tab[t].snap
             insert == ~ Exists(s) /\ ~ Exists(session[p])
             update == Exists(s) /\ session[p].id = s.id /\ s.state # "interactive_available"
             numbered == [NoRow EXCEPT !.id = rows']
             fresh == [numbered EXCEPT !.state = "interactive_available"]
             half == [session[p] EXCEPT !.state = "interactive_available"]
             again == [half EXCEPT !.age = 0]
  <2>1. t \in Asking
    BY <1>3, <1>9 DEF CommitRequest
  <2>2. CASE insert
    <3>1. rows' = rows + 1 /\ session' = [session EXCEPT ![p] = fresh]
      BY <1>9, <2>2 DEF CommitRequest
    <3>2. rows' \in 0..MaxClicks /\ rows' # 0
      BY <1>0, <1>5, <2>1, <3>1
    <3>3. numbered \in SessionRow /\ numbered.id = rows'
      <4>1. NoRow \in SessionRow
        BY ConnectAssumption DEF NoRow, SessionRow, SessionState
      <4> QED BY <3>2, <4>1 DEF SessionRow
    <3> HIDE DEF numbered
    <3>4. fresh \in SessionRow /\ fresh.id = rows'
      BY <3>3 DEF SessionRow, SessionState
    <3> HIDE DEF fresh
    <3> QED BY <1>0, <1>2, <1>8, <2>1, <3>1, <3>2, <3>4
  <2>3. CASE ~insert /\ update
    <3>1. rows' = rows /\ session' = [session EXCEPT ![p] = again]
      BY <1>9, <2>3 DEF CommitRequest
    <3>2. half \in SessionRow /\ half.id = session[p].id
      BY <1>0, <1>2 DEF SessionRow, SessionState
    <3> HIDE DEF half
    <3>3. again \in SessionRow /\ again.id = session[p].id
      BY <3>2, RowChanges
    <3> HIDE DEF again
    <3>4. SessionsKeepIds
      BY <1>0, <1>2, <3>1, <3>3 DEF SessionsKeepIds
    <3> QED BY <1>7, <3>1, <3>4
  <2>4. CASE ~insert /\ ~update
    <3>1. rows' = rows /\ session' = session
      BY <1>9, <2>4 DEF CommitRequest
    <3> QED BY <1>0, <1>7, <3>1 DEF SessionsKeepIds
  <2> QED BY <2>2, <2>3, <2>4
<1>10. CASE CommitSettle(t)
  <2>1. SettleTo(tab[t].snap, tab[t].to) \in SessionState
    BY <1>0 DEF SettleTo, SessionState, TabRecord
  <2> QED BY <1>0, <1>7, <1>10, <2>1, WroteState DEF CommitSettle
<1>11. CASE CommitExpired(t)
  <2>1. "session_expired" \in SessionState
    BY DEF SessionState
  <2> QED BY <1>0, <1>7, <1>11, <2>1, WroteState DEF CommitExpired
<1>12. CASE CommitDisconnect(t)
  <2>1. session' = [session EXCEPT ![p] = NoRow] /\ rows' = rows /\ t \in Asking
    BY <1>3, <1>12 DEF CommitDisconnect
  <2>2. NoRow \in SessionRow
    BY ConnectAssumption DEF NoRow, SessionRow, SessionState
  <2>3. session' \in [Portal -> SessionRow] /\ \A q \in Portal \ {p} : session'[q] = session[q]
    BY <1>0, <2>1, <2>2
  <2>4. Bereft' \subseteq Bereft \cup {p}
    BY <1>1, <1>4, <2>3 DEF Bereft
  <2>5. OwedRows' <= OwedRows + 1
    BY <1>1, <1>4, <2>4, OwedMoves
  <2>6. Cardinality(Asking') <= Cardinality(Asking) - 1
    BY <1>3, <2>1, ConnectSizes
  <2>7. RowsCounted'
    BY <1>0, <1>1, <2>1, <2>5, <2>6, ConnectSizes DEF ConnectHeld, RowsCounted
  <2> QED BY <1>0, <1>6, <2>1, <2>3, <2>7
<1>13. CASE CommitImport(t)
  <2>1. UpsertRow(p) /\ t \in Asking
    BY <1>3, <1>13 DEF CommitImport
  <2>2. rows' \in {rows, rows + 1} /\ rows' <= MaxClicks
    BY <1>0, <1>5, <2>1 DEF UpsertRow
  <2> HIDE DEF p
  <2>3. session' \in [Portal -> SessionRow] /\ session'[p].id # 0 /\ \A q \in Portal \ {p} : session'[q] = session[q]
    BY <1>0, <1>2, <2>1, <2>2, Upserted
  <2> QED BY <1>8, <2>1, <2>2, <2>3
<1> QED BY <1>9, <1>10, <1>11, <1>12, <1>13 DEF Commit
(* An attempt moves on, and inserts no row.                                *)
LEMMA HostHeld ==
    ASSUME ConnectHeld, NEW h \in Host, NEW r \in HostRecord, host' = [host EXCEPT ![h] = r],
           r.at # "idle" => r.portal = host[h].portal /\ host[h].at # "idle",
           r.at = "run" /\ r.attempt \in {"opening", "awaiting", "capturing", "saved"} => Drives(h),
           SessionsKeepIds, UNCHANGED <<queued, rows, tab>>, cookies' \in [Portal -> BOOLEAN],
           clicks' \in 0..MaxClicks, clicks' >= clicks
    PROVE  ConnectHeld'
<1>0. ConnectRecords /\ host \in [Host -> HostRecord] /\ clicks \in Nat /\ clicks' \in Nat
  BY ConnectAssumption DEF ConnectHeld, ConnectRecords
<1>1. /\ host' \in [Host -> HostRecord] /\ \A g \in Host \ {h} : host'[g] = host[g]
      /\ host'[h] = r
  BY <1>0
<1>2. ConnectRecords'
  BY <1>0, <1>1 DEF ConnectRecords, SessionsKeepIds
<1>3. \A g \in Host : Drives(g)' => Drives(g) /\ host'[g].portal = host[g].portal
  BY <1>1 DEF Drives
<1>4. Drivers' \subseteq Drivers /\ Bereft' \subseteq Bereft /\ Asking' = Asking
  BY <1>3 DEF Drivers, Bereft, Asking, SessionsKeepIds
<1>5. RowsCounted'
  BY <1>0, <1>4, CountsQuiet
<1> QED BY <1>2, <1>5 DEF ConnectHeld

LEMMA BecomesHeld ==
    ASSUME ConnectHeld, NEW h \in Host, NEW from, NEW to \in AttemptState, Becomes(h, from, to),
           from \in {"opening", "awaiting", "capturing", "saved"},
           UNCHANGED <<queued, rows, tab, clicks, session>>, cookies' \in [Portal -> BOOLEAN]
    PROVE  ConnectHeld'
<1> DEFINE r == [host[h] EXCEPT !.attempt = to]
<1>0. /\ session \in [Portal -> SessionRow] /\ host \in [Host -> HostRecord]
      /\ clicks \in 0..MaxClicks /\ clicks \in Nat
  BY ConnectAssumption DEF ConnectHeld, ConnectRecords
<1>1. host' = [host EXCEPT ![h] = r] /\ host[h].at = "run" /\ Drives(h)
  BY DEF Becomes, Drives
<1>2. r \in HostRecord /\ r.portal = host[h].portal
  BY <1>0 DEF HostRecord
<1> HIDE DEF r
<1>3. SessionsKeepIds
  BY <1>0 DEF SessionsKeepIds
<1>4. clicks' \in 0..MaxClicks /\ clicks' >= clicks
  BY <1>0
<1>5. UNCHANGED <<queued, rows, tab>>
  OBVIOUS
<1>6. r.at # "idle" => r.portal = host[h].portal /\ host[h].at # "idle"
  BY <1>1, <1>2
<1> QED BY <1>1, <1>2, <1>3, <1>4, <1>5, <1>6, HostHeld

LEMMA PersistHeld ==
    ASSUME ConnectHeld, NEW h \in Host, PersistRow(h)
    PROVE  ConnectHeld'
<1> DEFINE p == host[h].portal
           x == IF queued THEN p ELSE h
           r == [host[h] EXCEPT !.attempt = "connected"]
<1>0. /\ clicks \in Nat /\ rows \in Nat /\ ConnectRecords /\ MaxClicks \in Nat /\ clicks <= MaxClicks
      /\ session \in [Portal -> SessionRow] /\ host \in [Host -> HostRecord] /\ RowsCounted
  BY ConnectAssumption DEF ConnectHeld, ConnectRecords
<1>1. /\ UpsertRow(p) /\ UNCHANGED <<queued, cookies, tab, clicks>> /\ host' = [host EXCEPT ![h] = r]
      /\ host[h].at = "run" /\ Drives(h)
  BY DEF PersistRow, Becomes, Drives
<1>2. r \in HostRecord /\ r.portal = p /\ r.attempt = "connected"
  BY <1>0 DEF HostRecord, AttemptState, Terminal
<1> HIDE DEF r
<1>3. /\ p \in Portal
      /\ host' \in [Host -> HostRecord] /\ \A g \in Host \ {h} : host'[g] = host[g]
      /\ host'[h] = r
  BY <1>0, <1>1, <1>2 DEF ConnectRecords
<1>4. /\ \A g \in Host : Drives(g)' => g # h /\ Drives(g) /\ host'[g].portal = host[g].portal
      /\ Asking' = Asking
  BY <1>1, <1>2, <1>3 DEF Drives, Asking
<1>5. Drivers' \subseteq Drivers \ {h} /\ h \in Drivers
  BY <1>1, <1>4 DEF Drivers
<1>6. rows' = IF session[p].id # 0 THEN rows ELSE rows + 1
  BY <1>1 DEF UpsertRow, Exists
<1>7. session[p].id = 0 => OwedRows >= 1
  <2>1. session[p].id = 0 => p \in Bereft
    BY <1>1, <1>3 DEF Bereft
  <2> QED BY <1>1, <1>5, <2>1, OwedMoves
<1>8. rows' <= MaxClicks
  BY <1>0, <1>6, <1>7, ConnectSizes DEF RowsCounted
<1> HIDE DEF p
<1>9. /\ session' \in [Portal -> SessionRow] /\ rows' \in Nat /\ session'[p].id # 0
      /\ \A q \in Portal \ {p} : session'[q] = session[q]
  BY <1>0, <1>1, <1>3, <1>8, Upserted
<1>10. Bereft' \subseteq Bereft \ {p}
  BY <1>3, <1>4, <1>9 DEF Bereft
<1>11. RowsCounted'
  <2>1. CASE session[p].id # 0
    <3>1. OwedRows' <= OwedRows
      BY <1>1, <1>5, <1>10, OwedMoves
    <3> QED BY <1>0, <1>1, <1>4, <1>6, <2>1, <3>1, ConnectSizes DEF RowsCounted
  <2>2. CASE session[p].id = 0
    <3>1. p \in Bereft
      BY <1>1, <1>3, <2>2 DEF Bereft, p
    <3>2. OwedRows' <= OwedRows - 1
      <4>1. CASE queued
        BY <1>1, <1>10, <3>1, <4>1, OwedMoves
      <4>2. CASE ~queued
        BY <1>1, <1>5, <4>2, OwedMoves
      <4> QED BY <4>1, <4>2
    <3> QED BY <1>0, <1>1, <1>4, <1>6, <2>2, <3>2, ConnectSizes DEF RowsCounted
  <2> QED BY <2>1, <2>2
<1>12. ConnectRecords'
  BY <1>0, <1>1, <1>2, <1>3, <1>9 DEF ConnectRecords
<1> QED BY <1>1, <1>9, <1>11, <1>12 DEF ConnectHeld
LEMMA SettledHeld ==
    ASSUME ConnectHeld, NEW h \in Host, host' = [host EXCEPT ![h] = IdleHost],
           SessionsKeepIds, UNCHANGED <<queued, rows, tab, cookies, clicks>>
    PROVE  ConnectHeld'
<1>1. IdleHost \in HostRecord /\ IdleHost.at = "idle"
  BY ConnectAssumption DEF IdleHost, HostRecord, NoRow, SessionRow, SessionState, AttemptState, Terminal
<1>2. /\ cookies' \in [Portal -> BOOLEAN]
      /\ clicks' \in 0..MaxClicks /\ clicks' >= clicks
  BY ConnectAssumption DEF ConnectHeld, ConnectRecords
<1> QED BY <1>1, <1>2, HostHeld

LEMMA DriveHeld ==
    ASSUME ConnectHeld, NEW h \in Host, Drive(h)
    PROVE  ConnectHeld'
<1> DEFINE p == host[h].portal
<1>0. /\ session \in [Portal -> SessionRow] /\ host \in [Host -> HostRecord]
      /\ cookies \in [Portal -> BOOLEAN] /\ clicks \in 0..MaxClicks /\ clicks \in Nat
      /\ host[h].at # "idle" => p \in Portal
  BY ConnectAssumption DEF ConnectHeld, ConnectRecords
<1>1. /\ {"awaiting", "capturing", "saved", "cancelled", "timed_out", "failed", "connected"}
            \subseteq AttemptState
      /\ {"awaiting", "capturing", "saved", "opening"}
            \subseteq {"opening", "awaiting", "capturing", "saved"}
  BY DEF AttemptState, Terminal
<1>2. session' = session => SessionsKeepIds
  BY <1>0 DEF SessionsKeepIds
<1>3. CASE OpenWindow(h)
  BY <1>0, <1>1, <1>3, BecomesHeld DEF OpenWindow
<1>4. CASE SignIn(h)
  BY <1>0, <1>1, <1>4, BecomesHeld DEF SignIn
<1>5. CASE GiveUp(h)
  BY <1>0, <1>1, <1>5, BecomesHeld DEF GiveUp
<1>6. CASE AttemptFails(h)
  BY <1>0, <1>1, <1>6, BecomesHeld DEF AttemptFails
<1>7. CASE PersistCookies(h)
  <2>1. cookies' \in [Portal -> BOOLEAN]
    BY <1>0, <1>7 DEF PersistCookies, SaveCookies
  <2> QED BY <1>0, <1>1, <1>7, <2>1, BecomesHeld DEF PersistCookies
<1>8. CASE PersistRow(h)
  BY <1>8, PersistHeld
<1>9. CASE Watch(h)
  <2> DEFINE c == [host[h] EXCEPT !.cancelled = TRUE]
             a == [host[h] EXCEPT !.announced = TRUE]
             w == [session[p] EXCEPT !.age = 0]
  <2>1. UNCHANGED <<queued, rows, tab>> /\ cookies' \in [Portal -> BOOLEAN]
        /\ clicks' \in 0..MaxClicks /\ clicks' >= clicks /\ host[h].at = "run" /\ p \in Portal
    BY <1>0, <1>9 DEF Watch, Busy
  <2>2. /\ c \in HostRecord /\ c.portal = p /\ c.attempt = host[h].attempt
        /\ a \in HostRecord /\ a.portal = p /\ a.attempt = host[h].attempt
    BY <1>0 DEF HostRecord
  <2>3. \/ host' = [host EXCEPT ![h] = c] /\ session' = session
        \/ host' = [host EXCEPT ![h] = a] /\ session' = [session EXCEPT ![p] = w]
    BY <1>9 DEF Watch
  <2> HIDE DEF c, a
  <2>4. w \in SessionRow /\ w.id = session[p].id
    BY <1>0, <2>1, RowChanges
  <2> HIDE DEF w, p
  <2>5. SessionsKeepIds
    BY <1>0, <1>2, <2>1, <2>3, <2>4 DEF SessionsKeepIds
  <2>6. \A r \in {c, a} : r.at = "run" => (r.attempt \in {"opening", "awaiting", "capturing", "saved"} => Drives(h))
    BY <2>1, <2>2 DEF Drives
  <2>7. PICK r \in {c, a} : host' = [host EXCEPT ![h] = r]
    BY <2>3
  <2>8. /\ r \in HostRecord
        /\ r.at # "idle" => r.portal = host[h].portal /\ host[h].at # "idle"
        /\ r.at = "run" /\ r.attempt \in {"opening", "awaiting", "capturing", "saved"} => Drives(h)
    BY <2>1, <2>2, <2>6, <2>7 DEF p
  <2> QED BY <2>1, <2>5, <2>7, <2>8, HostHeld
<1>10. CASE Finish(h)
  <2>1. UNCHANGED <<queued, rows, tab, cookies, clicks>> /\ session' = session
    BY <1>10 DEF Finish
  <2>2. CASE host' = [host EXCEPT ![h] = IdleHost]
    BY <1>2, <2>1, <2>2, SettledHeld
  <2>3. CASE host' # [host EXCEPT ![h] = IdleHost]
    <3> DEFINE m == [host[h] EXCEPT !.at = "settle"]
               r == [m EXCEPT !.snap = AsRead(session[p])]
    <3>1. host' = [host EXCEPT ![h] = r] /\ host[h].at = "run" /\ p \in Portal
      BY <1>0, <1>10, <2>3 DEF Finish
    <3>2. m \in HostRecord /\ m.at = "settle" /\ m.portal = p
      BY <1>0 DEF HostRecord
    <3>3. AsRead(session[p]) \in SessionRow
      BY <1>0, <3>1, RowChanges
    <3> HIDE DEF m
    <3>4. r \in HostRecord /\ r.at = "settle" /\ r.portal = p
      BY <3>2, <3>3 DEF HostRecord
    <3> HIDE DEF r
    <3>5. clicks' \in 0..MaxClicks /\ clicks' >= clicks /\ cookies' \in [Portal -> BOOLEAN]
      BY <1>0, <2>1
    <3> QED BY <1>2, <2>1, <3>1, <3>4, <3>5, HostHeld
  <2> QED BY <2>2, <2>3
<1>11. CASE SettleConnect(h)
  <2> DEFINE to == SettleTo(host[h].snap, IF host[h].attempt = "cancelled"
                                          THEN "not_connected" ELSE "auth_required")
  <2>1. /\ WriteState(p, host[h].snap, to) /\ host' = [host EXCEPT ![h] = IdleHost]
        /\ UNCHANGED <<queued, rows, tab, cookies, clicks>>
    BY <1>11 DEF SettleConnect
  <2>2. to \in SessionState
    BY DEF SettleTo, SessionState
  <2> HIDE DEF to
  <2>3. SessionsKeepIds
    BY <1>0, <2>1, <2>2, WroteState
  <2> QED BY <2>1, <2>3, SettledHeld
<1> QED BY <1>3, <1>4, <1>5, <1>6, <1>7, <1>8, <1>9, <1>10, <1>11 DEF Drive

(* A window is opened for a portal.                                        *)
Begun(p, s)   == [IdleHost EXCEPT !.at = "run", !.portal = p, !.snap = s,
                                  !.attempt = "opening", !.left = LoginTimeout]
BegunLocal(p) == [IdleHost EXCEPT !.at = "run", !.portal = p,
                                  !.attempt = "opening", !.left = LoginTimeout]

LEMMA BegunRecord ==
    ASSUME NEW p \in Portal, NEW s \in SessionRow
    PROVE  /\ Begun(p, s) \in HostRecord /\ Begun(p, s).portal = p /\ Begun(p, s).at = "run"
           /\ BegunLocal(p) \in HostRecord /\ BegunLocal(p).portal = p
           /\ BegunLocal(p).at = "run"
<1> DEFINE d1 == [IdleHost EXCEPT !.at = "run"]
           d2 == [d1 EXCEPT !.portal = p]
           d3 == [d2 EXCEPT !.snap = s]
           d4 == [d3 EXCEPT !.attempt = "opening"]
           d5 == [d4 EXCEPT !.left = LoginTimeout]
           e4 == [d2 EXCEPT !.attempt = "opening"]
           e5 == [e4 EXCEPT !.left = LoginTimeout]
<1>0. IdleHost \in HostRecord
  BY ConnectAssumption DEF IdleHost, HostRecord, NoRow, SessionRow, SessionState, AttemptState, Terminal
<1>1. d1 \in HostRecord /\ d1.at = "run"
  BY <1>0 DEF HostRecord
<1> HIDE DEF d1
<1>2. d2 \in HostRecord /\ d2.at = "run" /\ d2.portal = p
  BY <1>1 DEF HostRecord
<1> HIDE DEF d2
<1>3. d3 \in HostRecord /\ d3.at = "run" /\ d3.portal = p
  BY <1>2 DEF HostRecord
<1> HIDE DEF d3
<1>4. d4 \in HostRecord /\ d4.at = "run" /\ d4.portal = p
  BY <1>3 DEF HostRecord, AttemptState
<1>5. e4 \in HostRecord /\ e4.at = "run" /\ e4.portal = p
  BY <1>2 DEF HostRecord, AttemptState
<1> HIDE DEF d4, e4
<1>6. LoginTimeout \in 0..LoginTimeout
  BY ConnectAssumption
<1>7. d5 \in HostRecord /\ d5.at = "run" /\ d5.portal = p
  BY <1>4, <1>6 DEF HostRecord
<1>8. e5 \in HostRecord /\ e5.at = "run" /\ e5.portal = p
  BY <1>5, <1>6 DEF HostRecord
<1> QED BY <1>7, <1>8 DEF Begun, BegunLocal, d4, e4, d3, d2, d1

(* A host claims a request, of which there is a row.                       *)
LEMMA ClaimHeld ==
    ASSUME ConnectHeld, NEW h \in Host, NEW p \in Portal, Claim(h, p)
    PROVE  ConnectHeld'
<1> DEFINE s == [session[p] EXCEPT !.state = "human_verification_required"]
           new == [s EXCEPT !.age = 0]
           r == Begun(p, AsRead(new))
<1>0. /\ session \in [Portal -> SessionRow] /\ host \in [Host -> HostRecord] /\ ConnectRecords
      /\ clicks \in Nat
  BY ConnectAssumption DEF ConnectHeld, ConnectRecords
<1>1. /\ queued /\ session[p].id # 0 /\ session' = [session EXCEPT ![p] = new]
      /\ UNCHANGED <<queued, rows, cookies, tab, clicks>>
  BY DEF Claim, IsUnclaimed, Exists
<1>2. s \in SessionRow /\ s.id = session[p].id
  BY <1>0 DEF SessionRow, SessionState
<1> HIDE DEF s
<1>3. new \in SessionRow /\ new.id = session[p].id
  BY <1>2, RowChanges
<1>4. session'[p] = new
  BY <1>0, <1>1
<1>5. host' = [host EXCEPT ![h] = r]
  BY <1>4 DEF Claim, Begun
<1>6. AsRead(new) \in SessionRow
  BY <1>3, RowChanges
<1> HIDE DEF new
<1>7. r \in HostRecord /\ r.portal = p /\ r.at = "run"
  BY <1>6, BegunRecord
<1> HIDE DEF r
<1>8. /\ host' \in [Host -> HostRecord] /\ \A g \in Host \ {h} : host'[g] = host[g]
      /\ host'[h] = r
      /\ session' \in [Portal -> SessionRow] /\ \A q \in Portal : session'[q].id = session[q].id
  BY <1>0, <1>1, <1>3, <1>5, <1>7
<1>9. Bereft' \subseteq Bereft /\ Asking' = Asking
  BY <1>1, <1>7, <1>8 DEF Bereft, Asking, Drives
<1>10. ConnectRecords'
  BY <1>0, <1>1, <1>7, <1>8 DEF ConnectRecords
<1>11. RowsCounted'
  BY <1>0, <1>1, <1>9, CountsQuiet
<1> QED BY <1>1, <1>10, <1>11 DEF ConnectHeld

(* Without a queue the owner's command starts the attempt.                 *)
LEMMA StartHeld ==
    ASSUME ConnectHeld, NEW t \in WebTab, NEW h \in Host, NEW p \in Portal, StartLocal(t, h, p)
    PROVE  ConnectHeld'
<1> DEFINE r == BegunLocal(p)
<1>0. /\ host \in [Host -> HostRecord] /\ ConnectRecords /\ RowsCounted
      /\ clicks \in Nat /\ rows \in Nat /\ clicks' = clicks + 1 /\ clicks' \in 0..MaxClicks
  BY ConnectAssumption DEF ConnectHeld, ConnectRecords, StartLocal, Click
<1>1. /\ ~queued /\ host' = [host EXCEPT ![h] = r]
      /\ UNCHANGED <<queued, rows, session, cookies, tab>>
  BY DEF StartLocal, BegunLocal
<1>2. r \in HostRecord /\ r.portal = p
  <2>1. NoRow \in SessionRow
    BY ConnectAssumption DEF NoRow, SessionRow, SessionState
  <2> QED BY <2>1, BegunRecord
<1> HIDE DEF r
<1>3. /\ host' \in [Host -> HostRecord] /\ \A g \in Host \ {h} : host'[g] = host[g]
      /\ host'[h] = r
  BY <1>0, <1>1, <1>2
<1>4. Drivers' \subseteq Drivers \cup {h} /\ Asking' = Asking
  BY <1>1, <1>3 DEF Drivers, Asking, Drives
<1>5. ConnectRecords'
  BY <1>0, <1>1, <1>2, <1>3 DEF ConnectRecords
<1>6. OwedRows' <= OwedRows + 1
  BY <1>1, <1>4, OwedMoves
<1>7. RowsCounted'
  BY <1>0, <1>1, <1>4, <1>6, ConnectSizes DEF RowsCounted
<1> QED BY <1>0, <1>1, <1>5, <1>7 DEF ConnectHeld
LEMMA CancelHeld ==
    ASSUME ConnectHeld, NEW t \in WebTab, NEW h \in Host, CancelLocal(t, h)
    PROVE  ConnectHeld'
<1> DEFINE r == [host[h] EXCEPT !.cancelled = TRUE]
<1>0. /\ session \in [Portal -> SessionRow] /\ host \in [Host -> HostRecord]
      /\ cookies \in [Portal -> BOOLEAN] /\ clicks \in Nat
  BY ConnectAssumption DEF ConnectHeld, ConnectRecords
<1>1. /\ host' = [host EXCEPT ![h] = r] /\ host[h].at = "run"
      /\ clicks' \in 0..MaxClicks /\ clicks' >= clicks
      /\ UNCHANGED <<queued, rows, session, cookies, tab>>
  BY <1>0, ConnectAssumption DEF CancelLocal, Click, Busy, ConnectHeld
<1>2. r \in HostRecord /\ r.portal = host[h].portal /\ r.attempt = host[h].attempt
  BY <1>0 DEF HostRecord
<1> HIDE DEF r
<1>3. SessionsKeepIds /\ cookies' \in [Portal -> BOOLEAN]
  BY <1>0, <1>1 DEF SessionsKeepIds
<1>4. /\ r.at # "idle" => r.portal = host[h].portal /\ host[h].at # "idle"
      /\ r.at = "run" /\ r.attempt \in {"opening", "awaiting", "capturing", "saved"} => Drives(h)
  BY <1>1, <1>2 DEF Drives
<1> QED BY <1>1, <1>2, <1>3, <1>4, HostHeld

LEMMA TickHeld ==
    ASSUME ConnectHeld, ClockTick
    PROVE  ConnectHeld'
<1>0. /\ session \in [Portal -> SessionRow] /\ host \in [Host -> HostRecord]
      /\ clicks \in Nat /\ ConnectRecords
  BY ConnectAssumption DEF ConnectHeld, ConnectRecords
<1>1. /\ session' = [p \in Portal |-> Aged(session[p])]
      /\ host' = [h \in Host |-> IF host[h].at = "idle" THEN host[h]
                                 ELSE [host[h] EXCEPT !.left = @ - 1]]
      /\ UNCHANGED <<queued, rows, cookies, tab, clicks>>
  BY DEF ClockTick
<1>2. \A p \in Portal : Aged(session[p]) \in SessionRow /\ Aged(session[p]).id = session[p].id
  BY <1>0, RowChanges
<1>3. SessionsKeepIds
  BY <1>1, <1>2 DEF SessionsKeepIds
<1>4. \A h \in Host : /\ host'[h] \in HostRecord /\ host'[h].at = host[h].at
                      /\ host'[h].portal = host[h].portal /\ host'[h].attempt = host[h].attempt
  <2> TAKE h \in Host
  <2> DEFINE r == [host[h] EXCEPT !.left = host[h].left - 1]
  <2>1. host[h].at # "idle" => host[h].left - 1 \in 0..LoginTimeout
    BY <1>0, ConnectAssumption DEF ClockTick, HostRecord
  <2>2. host[h].at # "idle" => /\ r \in HostRecord /\ r.at = host[h].at /\ r.portal = host[h].portal
                               /\ r.attempt = host[h].attempt
    BY <1>0, <2>1 DEF HostRecord
  <2>3. host'[h] = IF host[h].at = "idle" THEN host[h] ELSE r
    BY <1>1
  <2> HIDE DEF r
  <2> QED BY <1>0, <2>2, <2>3
<1>5. host' \in [Host -> HostRecord]
  BY <1>1, <1>4
<1>6. Drivers' = Drivers /\ Bereft' = Bereft /\ Asking' = Asking
  BY <1>1, <1>3, <1>4 DEF Drivers, Bereft, Drives, Asking, SessionsKeepIds
<1>7. ConnectRecords'
  BY <1>0, <1>1, <1>3, <1>4, <1>5 DEF ConnectRecords, SessionsKeepIds
<1>8. RowsCounted'
  BY <1>0, <1>1, <1>6, CountsQuiet
<1> QED BY <1>1, <1>7, <1>8 DEF ConnectHeld

LEMMA ExpireHeld ==
    ASSUME ConnectHeld, NEW p \in Portal, CookiesExpire(p)
    PROVE  ConnectHeld'
<1> DEFINE new == [session[p] EXCEPT !.valid = FALSE]
<1>0. session \in [Portal -> SessionRow] /\ clicks \in Nat /\ ConnectRecords
  BY ConnectAssumption DEF ConnectHeld, ConnectRecords
<1>1. session' = [session EXCEPT ![p] = new] /\ UNCHANGED <<queued, rows, cookies, host, tab, clicks>>
  BY DEF CookiesExpire
<1>2. new \in SessionRow /\ new.id = session[p].id
  BY <1>0, RowChanges
<1> HIDE DEF new
<1>3. SessionsKeepIds
  BY <1>0, <1>1, <1>2 DEF SessionsKeepIds
<1>4. Drivers' = Drivers /\ Bereft' = Bereft /\ Asking' = Asking
  BY <1>1, <1>3 DEF Drivers, Bereft, Drives, Asking, SessionsKeepIds
<1>5. ConnectRecords'
  BY <1>0, <1>1, <1>3 DEF ConnectRecords, SessionsKeepIds
<1>6. RowsCounted'
  BY <1>0, <1>1, <1>4, CountsQuiet
<1> QED BY <1>1, <1>5, <1>6 DEF ConnectHeld

LEMMA AsksHeld ==
    ASSUME ConnectHeld, NEW t \in WebTab, NEW p \in Portal,
           \/ AskToConnect(t, p) \/ ExpireIfStranded(t, p) \/ CancelConnect(t, p)
           \/ CheckBeforeApply(t, p) \/ Disconnect(t, p) \/ ImportSession(t, p)
    PROVE  ConnectHeld'
<1>0. /\ clicks \in 0..MaxClicks /\ clicks \in Nat /\ cookies \in [Portal -> BOOLEAN]
      /\ Click(t) => clicks' = clicks + 1 /\ clicks' \in 0..MaxClicks /\ clicks' >= clicks
      /\ clicks' = clicks => clicks' >= clicks
      /\ \A b \in BOOLEAN : [cookies EXCEPT ![p] = b] \in [Portal -> BOOLEAN]
  BY ConnectAssumption DEF ConnectHeld, ConnectRecords, Click
<1>1. /\ {"interactive_available", "auth_required", "not_connected", "session_expired",
          "session_active"} \subseteq SessionState
      /\ {"request", "settle", "expire", "forget", "import"} \subseteq TabOp
  BY DEF SessionState, TabOp
<1>2. CASE AskToConnect(t, p)
  BY <1>0, <1>1, <1>2, GotoHeld DEF AskToConnect, Click
<1>3. CASE ExpireIfStranded(t, p)
  BY <1>0, <1>1, <1>3, GotoHeld DEF ExpireIfStranded
<1>4. CASE CancelConnect(t, p)
  BY <1>0, <1>1, <1>4, GotoHeld DEF CancelConnect, Click
<1>5. CASE CheckBeforeApply(t, p)
  BY <1>0, <1>1, <1>5, GotoHeld DEF CheckBeforeApply
<1>6. CASE Disconnect(t, p)
  BY <1>0, <1>1, <1>6, GotoHeld DEF Disconnect, Click
<1>7. CASE ImportSession(t, p)
  BY <1>0, <1>1, <1>7, GotoHeld DEF ImportSession, SaveCookies, Click
<1> QED BY <1>2, <1>3, <1>4, <1>5, <1>6, <1>7

LEMMA ConnectHeldStep ==
    ASSUME ConnectHeld, [ConnectNext]_connectVars
    PROVE  ConnectHeld'
<1>1. CASE UNCHANGED connectVars
  <2>1. UNCHANGED <<queued, session, cookies, host, tab, clicks, rows>>
    BY <1>1 DEF connectVars
  <2>2. Drivers' = Drivers /\ Bereft' = Bereft /\ Asking' = Asking
    BY <2>1 DEF Drivers, Bereft, Drives, Asking
  <2> QED BY <2>1, <2>2 DEF ConnectHeld, ConnectRecords, RowsCounted, OwedRows
<1>2. ASSUME NEW h \in Host, HostDies(h) PROVE ConnectHeld'
  <2>1. SessionsKeepIds
    BY <1>2 DEF HostDies, SessionsKeepIds, ConnectHeld, ConnectRecords
  <2> QED BY <1>2, <2>1, SettledHeld DEF HostDies
<1> QED BY <1>1, <1>2, AsksHeld, StartHeld, CommitHeld, CancelHeld, DriveHeld, ClaimHeld,
           TickHeld, ExpireHeld DEF ConnectNext

LEMMA ConnectHeldInit ==
    ASSUME ConnectInit PROVE ConnectHeld
<1>1. /\ NoRow \in SessionRow /\ NoRow.id = 0 /\ IdleTab \in TabRecord /\ IdleTab.op = "idle"
      /\ IdleHost \in HostRecord /\ IdleHost.at = "idle"
  BY ConnectAssumption DEF NoRow, IdleTab, IdleHost, SessionRow, SessionState, TabRecord, HostRecord,
                           AttemptState, Terminal
<1>2. /\ queued \in BOOLEAN /\ clicks = 0 /\ rows = 0 /\ session = [p \in Portal |-> NoRow]
      /\ cookies = [p \in Portal |-> FALSE] /\ host = [h \in Host |-> IdleHost]
      /\ tab = [t \in WebTab |-> IdleTab]
  BY DEF ConnectInit
<1>3. Asking = {} /\ Drivers = {} /\ Bereft = {}
  BY <1>1, <1>2 DEF Asking, Drivers, Bereft, Drives
<1>4. RowsCounted
  BY <1>2, <1>3, FS_EmptySet DEF RowsCounted, OwedRows
<1>5. ConnectRecords
  BY <1>1, <1>2 DEF ConnectRecords
<1> QED BY <1>2, <1>4, <1>5, ConnectAssumption DEF ConnectHeld

(* Requests, rows, attempts and requests of the web app are what the       *)
(* columns and the code allow, and no more rows are ever inserted than the *)
(* owner gave commands (request_connect, import_session, ConnectManager).  *)
THEOREM ConnectTypeCorrect == ConnectSafety => []ConnectTypeOK
<1>1. ConnectInit => ConnectHeld /\ ConnectInv
  BY ConnectHeldInit, ConnectInitInv
<1>2. ConnectHeld /\ ConnectInv /\ [ConnectNext]_connectVars => (ConnectHeld /\ ConnectInv)'
  BY ConnectHeldStep, ConnectStepInv
<1>3. ConnectHeld /\ ConnectInv => ConnectTypeOK
  <2> SUFFICES ASSUME ConnectHeld, ConnectInv PROVE ConnectTypeOK
    OBVIOUS
  <2>1. rows \in 0..MaxClicks
    BY ConnectAssumption, ConnectSizes DEF ConnectHeld, RowsCounted
  <2> QED BY <2>1 DEF ConnectHeld, ConnectRecords, ConnectTypeOK, ConnectInv, ConnectTyped
<1> QED BY <1>1, <1>2, <1>3, PTL DEF ConnectSafety

-----------------------------------------------------------------------------
(***************************************************************************)
(* The next opening of a run window.                                       *)
(***************************************************************************)
(* ParseHhmm always yields a time of the day.                              *)
LEMMA WindowTimes ==
    ASSUME NEW w \in Window
    PROVE  Start(w) \in Tick /\ End(w) \in Tick
BY LengthAssumption DEF Start, End, ParseHhmm, Tick

(* k days after a weekday is a weekday.                                    *)
LEMMA DayAfterType ==
    ASSUME NEW d \in Weekday, NEW k \in 0 .. 7
    PROVE  DayAfter(d, k) \in Weekday
BY DEF DayAfter, Weekday

(* Least finds the least of a set of offsets.                              *)
LEMMA LeastOffset ==
    ASSUME NEW S \in SUBSET (0 .. 7), S # {}
    PROVE  Least(S) \in S /\ \A j \in S : Least(S) <= j
<1>1. \E k \in S : \A j \in S : k <= j
  <2> SUFFICES ASSUME \A k \in S : \E j \in S : j < k
               PROVE  FALSE
      OBVIOUS
  <2>0. 0 \notin S  OBVIOUS
  <2>1. 1 \notin S  BY <2>0
  <2>2. 2 \notin S  BY <2>0, <2>1
  <2>3. 3 \notin S  BY <2>0, <2>1, <2>2
  <2>4. 4 \notin S  BY <2>0, <2>1, <2>2, <2>3
  <2>5. 5 \notin S  BY <2>0, <2>1, <2>2, <2>3, <2>4
  <2>6. 6 \notin S  BY <2>0, <2>1, <2>2, <2>3, <2>4, <2>5
  <2>7. 7 \notin S  BY <2>0, <2>1, <2>2, <2>3, <2>4, <2>5, <2>6
  <2>8. PICK x \in S : TRUE  OBVIOUS
  <2>9. x \in 0 .. 7  BY <2>8
  <2> QED  BY <2>0, <2>1, <2>2, <2>3, <2>4, <2>5, <2>6, <2>7, <2>8, <2>9
<1> QED  BY <1>1 DEF Least

(* An opening the code names is a time of one of the next seven days,      *)
(* later than now.                                                         *)
LEMMA NextOpeningType ==
    ASSUME NEW w \in Window, NEW t \in Moment
    PROVE  /\ NextOpening(w, t) \in [ahead : 0 .. 7, tick : Tick]
           /\ LET o == NextOpening(w, t)
              IN  o.ahead > 0 \/ o.tick > t.tick
<1>1. Start(w) \in Tick /\ t.tick \in Tick
      BY WindowTimes DEF Moment
<1>2. CASE Offsets(w, t) = {}
      BY <1>1, <1>2 DEF NextOpening
<1>3. CASE Offsets(w, t) # {}
  <2>1. Least(Offsets(w, t)) \in Offsets(w, t)
        BY <1>3, LeastOffset DEF Offsets
  <2> QED  BY <1>1, <1>3, <2>1 DEF NextOpening, Offsets
<1> QED  BY <1>2, <1>3

(* A window that is ever open has a weekday to open on and a time in it.   *)
LEMMA CanOpenParts ==
    ASSUME NEW w \in Window, CanOpen(w)
    PROVE  Start(w) # End(w) /\ \E d \in Weekday : d \in Days(w)
<1>1. PICK u \in Moment : Open(w, u)
      BY DEF CanOpen
<1>2. u.day \in Weekday /\ u.tick \in Tick
      BY DEF Moment
<1>3. u.day \in Days(w) /\ TimeOk(w, u.tick)
      BY <1>1 DEF Open
<1>4. Start(w) \in Int /\ End(w) \in Int /\ u.tick \in Int
      BY <1>2, WindowTimes, LengthAssumption DEF Tick
<1>5. Start(w) # End(w)
      BY <1>3, <1>4 DEF TimeOk
<1> QED  BY <1>2, <1>3, <1>5

(* Such a window opens within a week of any time.                          *)
LEMMA SomeOffset ==
    ASSUME NEW w \in Window, NEW t \in Moment, NEW d \in Weekday, d \in Days(w)
    PROVE  Offsets(w, t) # {}
<1> DEFINE k == IF d > t.day THEN d - t.day ELSE d - t.day + 7
<1>1. t.day \in Weekday
      BY DEF Moment
<1>2. k \in 1 .. 7 /\ DayAfter(t.day, k) = d
      BY <1>1 DEF DayAfter, Weekday
<1> QED  BY <1>2 DEF Offsets

(* The named opening is one: the gate lets the application go then.        *)
LEMMA NextOpeningOpens ==
    ASSUME NEW w \in Window, NEW t \in Moment, CanOpen(w)
    PROVE  Open(w, AtOpening(t, NextOpening(w, t)))
<1>1. Start(w) # End(w) /\ \E d \in Weekday : d \in Days(w)
      BY CanOpenParts
<1>2. Offsets(w, t) # {}
      BY <1>1, SomeOffset
<1>3. Least(Offsets(w, t)) \in Offsets(w, t)
      BY <1>2, LeastOffset DEF Offsets
<1>4. Start(w) \in Int /\ End(w) \in Int
      BY WindowTimes, LengthAssumption DEF Tick
<1>5. TimeOk(w, Start(w))
      BY <1>1, <1>4 DEF TimeOk
<1> QED  BY <1>2, <1>3, <1>5 DEF NextOpening, AtOpening, Open, Offsets

(* For a window within a day nothing between a hold and the named opening  *)
(* is open.                                                                *)
LEMMA NextOpeningFirst ==
    ASSUME NEW w \in Window, NEW t \in Moment,
           Start(w) <= End(w), ~Open(w, t),
           NEW u \in Before(NextOpening(w, t), t)
    PROVE  ~Open(w, AtOpening(t, u))
<1> DEFINE o == NextOpening(w, t)
<1>1. /\ Start(w) \in Int /\ End(w) \in Int /\ t.tick \in Int
      /\ u.ahead \in 0 .. 7 /\ u.tick \in Int
      /\ u.ahead > 0 \/ u.tick > t.tick
      /\ u.ahead < o.ahead \/ (u.ahead = o.ahead /\ u.tick < o.tick)
      BY WindowTimes, LengthAssumption DEF Tick, Moment, Before
<1>2. SUFFICES ASSUME DayAfter(t.day, u.ahead) \in Days(w), TimeOk(w, u.tick)
               PROVE  FALSE
      BY DEF Open, AtOpening
<1>3. Start(w) <= u.tick /\ u.tick < End(w)
      BY <1>1, <1>2 DEF TimeOk
<1>4. u.ahead \in Offsets(w, t)
  <2>1. CASE u.ahead > 0
        BY <1>1, <1>2, <2>1 DEF Offsets
  <2>2. CASE u.ahead = 0
    <3>1. t.day \in Days(w)
          BY <1>2, <2>2 DEF DayAfter, Moment, Weekday
    <3>2. ~(Start(w) <= t.tick /\ t.tick < End(w))
          BY <3>1 DEF Open, TimeOk
    <3>3. Start(w) > t.tick
          BY <1>1, <1>3, <2>2, <3>2
    <3> QED  BY <1>1, <1>2, <3>3 DEF Offsets
  <2> QED  BY <1>1, <2>1, <2>2
<1>5. Offsets(w, t) \in SUBSET (0 .. 7) /\ Offsets(w, t) # {}
      BY <1>4 DEF Offsets
<1>6. Least(Offsets(w, t)) \in 0 .. 7 /\ Least(Offsets(w, t)) <= u.ahead
      BY <1>4, <1>5, LeastOffset
<1>7. o.ahead = Least(Offsets(w, t)) /\ o.tick = Start(w)
      BY <1>5 DEF NextOpening
<1> QED  BY <1>1, <1>3, <1>6, <1>7

-----------------------------------------------------------------------------
(* The holds of the specification.                                         *)

(* What is known of the latest hold; the window never changes.             *)
HoldInv ==
    /\ window \in Window
    /\ clock \in Moment
    /\ hold # NoHold => /\ hold.at \in Moment
                        /\ hold.opening = NextOpening(window, hold.at)
                        /\ ~Open(window, hold.at)

LEMMA LaterType == ASSUME NEW t \in Moment PROVE Later(t) \in Moment
<1>1. DayAfter(t.day, 1) \in Weekday
      BY DayAfterType DEF Moment
<1>2. t.tick + 1 < DayLength => t.tick + 1 \in Tick
      BY LengthAssumption DEF Moment, Tick
<1>3. 0 \in Tick
      BY LengthAssumption DEF Tick
<1> QED  BY <1>1, <1>2, <1>3 DEF Later, Moment

LEMMA HoldInvariant == Spec => []HoldInv
<1>1. Init => HoldInv
      BY WindowAssumption DEF Init, HoldInv
<1>2. HoldInv /\ [Next]_vars => HoldInv'
  <2> SUFFICES ASSUME HoldInv, [Next]_vars
               PROVE  HoldInv'
      OBVIOUS
  <2>1. CASE Release
        BY <2>1 DEF Release, HoldInv
  <2>2. CASE HoldBack
        BY <2>2 DEF HoldBack, HoldInv
  <2>3. CASE EnqueueAgain \/ Submit \/ Create
        BY <2>3 DEF EnqueueAgain, Submit, Create, HoldInv
  <2>4. CASE Pass
        BY <2>4, LaterType DEF Pass, HoldInv
  <2>5. CASE UNCHANGED vars
        BY <2>5 DEF vars, HoldInv
  <2> QED  BY <2>1, <2>2, <2>3, <2>4, <2>5 DEF Next
<1> QED  BY <1>1, <1>2, PTL DEF Spec

(* An application is never woken only to be held by the window again.      *)
THEOREM HoldsNameOpenings == Spec => []HoldNamesOpening
<1>1. HoldInv => HoldNamesOpening
      BY NextOpeningOpens DEF HoldInv, HoldNamesOpening, OpensThen
<1> QED  BY <1>1, HoldInvariant, PTL

(* Within a day, no opening is slept through.                              *)
THEOREM HoldsNameFirstOpenings == Spec => []HoldNamesFirstOpening
<1>1. HoldInv => HoldNamesFirstOpening
      BY NextOpeningFirst DEF HoldInv, HoldNamesFirstOpening, FirstOpening
<1> QED  BY <1>1, HoldInvariant, PTL

-----------------------------------------------------------------------------
(* Types: what matters is that a deferral is never negative, which is that *)
(* a named opening is always later than the hold.                          *)
LEMMA OpeningIsLater ==
    ASSUME NEW w \in Window, NEW t \in Moment
    PROVE  /\ TicksUntil(t, NextOpening(w, t)) \in Nat
           /\ TicksUntil(t, NextOpening(w, t)) > 0
<1> DEFINE o == NextOpening(w, t)
<1>1. /\ o.ahead \in 0 .. 7 /\ o.tick \in Tick /\ t.tick \in Tick
      /\ o.ahead > 0 \/ o.tick > t.tick
  BY NextOpeningType DEF Moment
<1>2. o.ahead * DayLength \in Int /\ (o.ahead > 0 => o.ahead * DayLength >= DayLength)
  <2>1. o.ahead \in {0, 1, 2, 3, 4, 5, 6, 7} /\ DayLength \in Nat
    BY <1>1, LengthAssumption
  <2> HIDE DEF o
  <2> QED BY <2>1
<1> HIDE DEF o
<1>3. o.ahead = 0 => o.ahead * DayLength = 0
  BY LengthAssumption
<1> QED BY <1>1, <1>2, <1>3, LengthAssumption DEF TicksUntil, Tick, o

(* Every stored window, also one whose times do not parse, keeps the state *)
(* of a held application well-formed: its deferral is a duration.          *)
THEOREM WindowTypeCorrect == Spec => []TypeOK
<1>1. Init => TypeOK
  BY WindowAssumption, LengthAssumption DEF Init, TypeOK
<1>2. TypeOK /\ HoldInv /\ HoldInv' /\ [Next]_vars => TypeOK'
  <2> SUFFICES ASSUME TypeOK, HoldInv, HoldInv', [Next]_vars
               PROVE  TypeOK'
    OBVIOUS
  <2>1. clock' \in Moment
    BY DEF HoldInv
  <2>2. CASE Release
    BY <2>1, <2>2, LengthAssumption DEF Release, TypeOK
  <2>3. CASE HoldBack
    <3> DEFINE o == NextOpening(window, clock)
    <3>1. wait' = Capped(TicksUntil(clock, o)) /\ hold' = [at |-> clock, opening |-> o]
      BY <2>3 DEF HoldBack
    <3>2. o \in [ahead : 0 .. 7, tick : Tick] /\ TicksUntil(clock, o) \in Nat
      BY NextOpeningType, OpeningIsLater DEF HoldInv
    <3> HIDE DEF o
    <3>3. wait' \in Nat
      BY <3>1, <3>2, LengthAssumption DEF Capped
    <3>4. hold' \in Hold
      BY <3>1, <3>2 DEF Hold, TypeOK
    <3> QED BY <2>1, <2>3, <3>3, <3>4 DEF HoldBack, TypeOK
  <2>4. CASE EnqueueAgain \/ Submit \/ Create
    BY <2>1, <2>4 DEF EnqueueAgain, Submit, Create, TypeOK
  <2>5. CASE Pass
    BY <2>1, <2>5 DEF Pass, TypeOK
  <2>6. CASE UNCHANGED vars
    BY <2>6 DEF vars, TypeOK
  <2> QED BY <2>2, <2>3, <2>4, <2>5, <2>6 DEF Next
<1> QED BY <1>1, <1>2, HoldInvariant, PTL DEF Spec
=============================================================================
