----------------------------- MODULE RunWindow -----------------------------
(***************************************************************************)
(* The run window of the automation policy: the weekdays and hours in      *)
(* which applications may go out, the wake-up time of an application held  *)
(* outside them, and one application that is held, woken and submitted     *)
(* (_run_window and _next_window_open of core/policy/rules.py, the HOLD    *)
(* branch of _enforce_policy in workers/tasks.py).                         *)
(*                                                                         *)
(* Times are wall-clock times of the operator's time zone, counted in      *)
(* ticks (minutes in the code) of a day of DayLength ticks.  Changes of    *)
(* the clock in spring and autumn are left out.                            *)
(***************************************************************************)
EXTENDS Integers

CONSTANTS
    DayLength,   \* ticks of a day
    MaxDelay,    \* longest deferral of a held application (3600 s)
    MaxRun,      \* longest time from the gate to the submission
    Windows      \* the windows the operator may have stored

Weekday == 0 .. 6                  \* Mon .. Sun
Unknown == 7                       \* a stored name that is no weekday
Tick == 0 .. DayLength - 1
Garbled == -1                      \* a stored time that does not parse

Moment == [day: Weekday, tick: Tick]
Window == [days: SUBSET (Weekday \cup {Unknown}),
           start: Tick \cup {Garbled}, end: Tick \cup {Garbled}]

ASSUME LengthAssumption ==
    DayLength \in Nat \ {0} /\ MaxDelay \in Nat \ {0} /\ MaxRun \in Nat
ASSUME WindowAssumption == Windows \subseteq Window

-----------------------------------------------------------------------------
(* The rule.                                                               *)

(* Mutant: the stored text is taken as it is.                              *)
ParseHhmmRaw(value, default) == value

ParseHhmm(value, default) == IF value \in Tick THEN value ELSE default

Start(w) == ParseHhmm(w.start, 0)
End(w)   == ParseHhmm(w.end, DayLength - 1)
Days(w)  == IF w.days = {} THEN Weekday ELSE w.days

TimeOk(w, n) == IF Start(w) <= End(w)
                THEN Start(w) <= n /\ n < End(w)
                ELSE n >= Start(w) \/ n < End(w)

Open(w, t) == t.day \in Days(w) /\ TimeOk(w, t.tick)

DayAfter(d, k) == IF d + k > 6 THEN d + k - 7 ELSE d + k     \* k \in 0 .. 7

(* Mutants: today is never looked at; the weekdays are not looked at.      *)
OffsetsFromTomorrow(w, t) ==
    {k \in 1 .. 7 : DayAfter(t.day, k) \in Days(w)}
OffsetsEveryDay(w, t) ==
    {k \in 0 .. 7 : k > 0 \/ Start(w) > t.tick}

(* Days ahead on which the window opens later than t.                      *)
Offsets(w, t) ==
    {k \in 0 .. 7 : /\ DayAfter(t.day, k) \in Days(w)
                    /\ k > 0 \/ Start(w) > t.tick}

Least(S) == CHOOSE k \in S : \A j \in S : k <= j

(* When the window next opens after t, as days ahead and a time; without   *)
(* any weekday to open on, this time tomorrow.                             *)
NextOpening(w, t) ==
    IF Offsets(w, t) # {}
    THEN [ahead |-> Least(Offsets(w, t)), tick |-> Start(w)]
    ELSE [ahead |-> 1, tick |-> t.tick]

TicksUntil(t, o) == o.ahead * DayLength + o.tick - t.tick

AtOpening(t, o) == [day |-> DayAfter(t.day, o.ahead), tick |-> o.tick]

-----------------------------------------------------------------------------
(* One application, its deferred job and the clock.                        *)

VARIABLES
    window,   \* the stored run window
    clock,    \* the local time
    app,      \* "queued", "browser" or "sent"
    wait,     \* ticks until the deferred job of a queued application is due
    left,     \* ticks a running submission may still take
    hold      \* the latest hold: when, and the opening it named

vars == <<window, clock, app, wait, left, hold>>

Hold == [at: Moment, opening: [ahead: 0 .. 7, tick: Tick]]
NoHold == [at |-> [day |-> 0, tick |-> 0], opening |-> [ahead |-> -1, tick |-> 0]]

TypeOK ==
    /\ window \in Windows
    /\ clock \in Moment
    /\ app \in {"queued", "browser", "sent"}
    /\ wait \in Nat /\ left \in Nat
    /\ hold \in Hold \cup {NoHold}

Init ==
    /\ window \in Windows
    /\ clock \in Moment
    /\ app = "queued"
    /\ wait = 0 /\ left = 0
    /\ hold = NoHold

(* The policy gate lets the application go ...                             *)
Release ==
    /\ app = "queued" /\ wait = 0
    /\ Open(window, clock)
    /\ app' = "browser" /\ left' = MaxRun
    /\ hold' = NoHold
    /\ UNCHANGED <<window, clock, wait>>

Capped(n) == IF n < MaxDelay THEN n ELSE MaxDelay

(* ... or holds it until the window opens, for an hour at most.            *)
HoldBack ==
    LET opening == NextOpening(window, clock)
    IN  /\ app = "queued" /\ wait = 0
        /\ ~Open(window, clock)
        /\ wait' = Capped(TicksUntil(clock, opening))
        /\ hold' = [at |-> clock, opening |-> opening]
        /\ UNCHANGED <<window, clock, app, left>>

(* The owner enqueues a held application again, without a deferral; at     *)
(* most once a tick, so that time goes on.                                 *)
EnqueueAgain ==
    /\ app = "queued" /\ wait > 0 /\ hold.at # clock
    /\ wait' = 0
    /\ UNCHANGED <<window, clock, app, left, hold>>

Submit ==
    /\ app = "browser"
    /\ app' = "sent" /\ left' = 0
    /\ UNCHANGED <<window, clock, wait, hold>>

(* The next application of the owner.                                      *)
Create ==
    /\ app = "sent"
    /\ app' = "queued" /\ wait' = 0
    /\ UNCHANGED <<window, clock, left, hold>>

Later(t) == IF t.tick + 1 < DayLength THEN [t EXCEPT !.tick = @ + 1]
            ELSE [day |-> DayAfter(t.day, 1), tick |-> 0]

(* A tick passes.  A job that is due is taken at once, and a submission    *)
(* ends in time: the worker is not busy with other applications.           *)
Pass ==
    /\ app = "queued" => wait > 0
    /\ app = "browser" => left > 0
    /\ clock' = Later(clock)
    /\ wait' = IF app = "queued" THEN wait - 1 ELSE wait
    /\ left' = IF app = "browser" THEN left - 1 ELSE left
    /\ UNCHANGED <<window, app, hold>>

Next == Release \/ HoldBack \/ EnqueueAgain \/ Submit \/ Create \/ Pass

Spec == Init /\ [][Next]_vars

Fairness ==
    WF_vars(Release) /\ WF_vars(HoldBack) /\ WF_vars(Submit) /\ WF_vars(Pass)

FairSpec == Spec /\ Fairness

-----------------------------------------------------------------------------
(* Properties.                                                             *)

CanOpen(w) == \E t \in Moment : Open(w, t)

(* What lies between a hold and the opening it names.                      *)
Before(o, t) == {u \in [ahead: 0 .. 7, tick: Tick] :
                   /\ u.ahead > 0 \/ u.tick > t.tick
                   /\ \/ u.ahead < o.ahead
                      \/ u.ahead = o.ahead /\ u.tick < o.tick}

OpensThen(h) == Open(window, AtOpening(h.at, h.opening))

(* A hold names a time at which the gate will let the application go, for  *)
(* overnight windows and for stored values that do not parse too: the      *)
(* search for the opening and the check of the window are separate         *)
(* computations that must agree (rules.py:331-348 against 361-375).        *)
HoldNamesOpening ==
    hold # NoHold /\ CanOpen(window) => OpensThen(hold)

FirstOpening(h) ==
    \A u \in Before(h.opening, h.at) : ~Open(window, AtOpening(h.at, u))

(* For windows within a day it names the first such time: no opening of    *)
(* the week is slept through.                                              *)
HoldNamesFirstOpening ==
    hold # NoHold /\ Start(window) <= End(window) => FirstOpening(hold)

(* "Outside the window everything queues.  Nothing is lost.": if the       *)
(* window is ever open, a queued application goes out, however short the   *)
(* window and although a held job sleeps for up to an hour.                *)
NothingIsLost == (app = "queued" /\ CanOpen(window)) ~> (app = "sent")
=============================================================================
