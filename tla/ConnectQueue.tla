---------------------------- MODULE ConnectQueue ----------------------------
(* Signing in to a job portal (core/automation/connect.py,                 *)
(* services/platform_session.py, api/v1/platform_sessions.py).             *)
(*                                                                         *)
(* A Connect click is a row of platform_sessions in production: an         *)
(* automation host claims it, opens a headed browser, waits for the person *)
(* to sign in and stores the captured cookies (`queued`).  Without a queue *)
(* the API process opens the window itself and keeps the attempt in        *)
(* memory.  Requests of the web app are `tab`s: each reads a row in one    *)
(* step and commits in a later one.                                        *)
EXTENDS Integers, FiniteSets

CONSTANTS
    Portal,         \* the (user, platform) pairs
    Host,           \* automation hosts; attempt slots of the API process without a queue
    WebTab,         \* requests of the web app and checks of apply runs under way
    NoPortal,
    LoginTimeout,   \* LOGIN_TIMEOUT, in ticks
    StaleAfter,     \* _PENDING_STALE_AFTER, in ticks
    MaxClicks       \* bound on the commands of the owner

ASSUME ConnectAssumption ==
    /\ NoPortal \notin Portal
    /\ IsFiniteSet(Portal) /\ IsFiniteSet(Host) /\ IsFiniteSet(WebTab)
    /\ LoginTimeout \in Nat \ {0}
    /\ StaleAfter \in Nat
    /\ LoginTimeout <= StaleAfter
    /\ MaxClicks \in Nat

VARIABLES
    queued,     \* settings.apply_dispatch = "db_queue"; fixed
    session,    \* the platform_sessions row of a portal
    cookies,    \* a storage_state is kept in user_credentials
    host,       \* an attempt and the watcher beside it
    tab,        \* a request between its read and its commit
    clicks,     \* commands of the owner so far
    rows,       \* rows inserted so far; gives ids
    asked,      \* commits that queued a sign-in (ghost)
    opened      \* windows opened for a queued sign-in (ghost)

connectVars == <<queued, session, cookies, host, tab, clicks, rows, asked, opened>>
ghosts      == <<asked, opened>>

SessionState == {"interactive_available", "human_verification_required",
                 "session_active", "session_expired", "auth_required", "not_connected"}
Pending      == {"interactive_available", "human_verification_required"}
Terminal     == {"connected", "failed", "cancelled", "timed_out"}
AttemptState == {"none", "opening", "awaiting", "capturing", "saved"} \cup Terminal

\* id 0 is no row; a row that is deleted and made again has a new id.
SessionRow == [id : 0..MaxClicks, state : SessionState, stored : BOOLEAN,
               valid : BOOLEAN, age : 0..StaleAfter + 1]
NoRow      == [id |-> 0, state |-> "not_connected", stored |-> FALSE,
               valid |-> FALSE, age |-> 0]

HostRecord == [at : {"idle", "run", "settle"}, portal : Portal \cup {NoPortal},
               snap : SessionRow, attempt : AttemptState, cancelled : BOOLEAN,
               announced : BOOLEAN, left : 0..LoginTimeout]
IdleHost   == [at |-> "idle", portal |-> NoPortal, snap |-> NoRow, attempt |-> "none",
               cancelled |-> FALSE, announced |-> FALSE, left |-> 0]

TabRecord  == [op : {"idle", "request", "settle", "expire", "forget", "import"},
               portal : Portal \cup {NoPortal}, snap : SessionRow, to : SessionState]
IdleTab    == [op |-> "idle", portal |-> NoPortal, snap |-> NoRow, to |-> "not_connected"]

ConnectInit ==
    /\ queued \in BOOLEAN
    /\ session = [p \in Portal |-> NoRow]
    /\ cookies = [p \in Portal |-> FALSE]
    /\ host = [h \in Host |-> IdleHost]
    /\ tab = [t \in WebTab |-> IdleTab]
    /\ clicks = 0
    /\ rows = 0
    /\ asked = [p \in Portal |-> 0]
    /\ opened = [p \in Portal |-> 0]
-----------------------------------------------------------------------------
Exists(r)     == r.id # 0
IsPending(r)  == Exists(r) /\ r.state \in Pending

\* Mutant: a request is given up a moment too early.
StaleSoon(r) == r.age >= StaleAfter

Stale(r)      == r.age > StaleAfter
StillValid(r) == r.stored /\ r.valid

\* What a snapshot is used for; nobody looks at its time stamp again.
AsRead(r) == [r EXCEPT !.age = 0]

\* An UPDATE of the row that was read; when it is gone nothing is written.
WriteState(p, snap, state) ==
    session' = IF session[p].id = snap.id /\ Exists(snap)
               THEN [session EXCEPT ![p].state = state, ![p].age = 0]
               ELSE session

\* Mutant: what the row says of a stored session is not looked at.
SettleToAsked(snap, state) == state

\* settle_connect decides on the row as it was read.
SettleTo(snap, state) == IF StillValid(snap) THEN "session_active" ELSE state

Busy(h)      == host[h].at = "run" /\ host[h].attempt \notin Terminal
HasWindow(h) == host[h].at = "run" /\ host[h].attempt \in {"awaiting", "opening"}
-----------------------------------------------------------------------------
(* The web app.                                                            *)

Goto(t, op, p, to) ==
    tab' = [tab EXCEPT ![t] = [op |-> op, portal |-> p, snap |-> AsRead(session[p]), to |-> to]]
Done(t) == tab' = [tab EXCEPT ![t] = IdleTab]

Click(t) == tab[t].op = "idle" /\ clicks < MaxClicks /\ clicks' = clicks + 1

\* request_connect reads the row and returns it while one is pending.
AskToConnect(t, p) ==
    /\ queued
    /\ Click(t)
    /\ ~ (IsPending(session[p]) /\ ~ Stale(session[p]))
    /\ Goto(t, "request", p, "interactive_available")
    /\ UNCHANGED <<queued, rows, session, cookies, host, ghosts>>

\* Its commit.  A concurrent insert breaks the unique key; a request that is
\* still queued, however old, is written with the values it has, so no UPDATE
\* is sent and its age stays.
CommitRequest(t) ==
    LET p == tab[t].portal
        s == tab[t].snap
        insert == ~ Exists(s) /\ ~ Exists(session[p])
        update == Exists(s) /\ session[p].id = s.id /\ s.state # "interactive_available"
    IN
    /\ tab[t].op = "request"
    /\ rows' = IF insert THEN rows + 1 ELSE rows
    /\ session' = IF insert
                  THEN [session EXCEPT ![p] = [NoRow EXCEPT !.id = rows',
                                                            !.state = "interactive_available"]]
                  ELSE IF update
                  THEN [session EXCEPT ![p].state = "interactive_available", ![p].age = 0]
                  ELSE session
    /\ asked' = IF insert \/ update THEN [asked EXCEPT ![p] = @ + 1] ELSE asked
    /\ Done(t)
    /\ UNCHANGED <<queued, cookies, host, clicks, opened>>

\* Mutant: only a request that some host has claimed can be stranded.
ExpireIfClaimed(t, p) ==
    /\ tab[t].op = "idle"
    /\ session[p].state = "human_verification_required" /\ Stale(session[p])
    /\ Goto(t, "settle", p, "auth_required")
    /\ UNCHANGED <<queued, rows, session, cookies, host, clicks, ghosts>>

\* connect_status and list_platforms end a request that no host is working on.
ExpireIfStranded(t, p) ==
    /\ tab[t].op = "idle"
    /\ IsPending(session[p]) /\ Stale(session[p])
    /\ Goto(t, "settle", p, "auth_required")
    /\ UNCHANGED <<queued, rows, session, cookies, host, clicks, ghosts>>

CancelConnect(t, p) ==
    /\ queued
    /\ Click(t)
    /\ IsPending(session[p]) /\ ~ Stale(session[p])
    /\ Goto(t, "settle", p, "not_connected")
    /\ UNCHANGED <<queued, rows, session, cookies, host, ghosts>>

CommitSettle(t) ==
    LET p == tab[t].portal IN
    /\ tab[t].op = "settle"
    /\ WriteState(p, tab[t].snap, SettleTo(tab[t].snap, tab[t].to))
    /\ Done(t)
    /\ UNCHANGED <<queued, rows, cookies, host, clicks, asked, opened>>

\* An apply run finds the sign-in expired (_require_unexpired_session).
CheckBeforeApply(t, p) ==
    /\ tab[t].op = "idle"
    /\ session[p].stored /\ ~ session[p].valid
    /\ session[p].state # "session_expired"
    /\ Goto(t, "expire", p, "session_expired")
    /\ UNCHANGED <<queued, rows, session, cookies, host, clicks, ghosts>>

CommitExpired(t) ==
    /\ tab[t].op = "expire"
    /\ WriteState(tab[t].portal, tab[t].snap, "session_expired")
    /\ Done(t)
    /\ UNCHANGED <<queued, rows, cookies, host, clicks, ghosts>>

\* delete_session: the cookies go in one commit, the row in the next.
Disconnect(t, p) ==
    /\ Click(t)
    /\ Exists(session[p])
    /\ cookies' = [cookies EXCEPT ![p] = FALSE]
    /\ Goto(t, "forget", p, "not_connected")
    /\ UNCHANGED <<queued, rows, session, host, asked, opened>>

CommitDisconnect(t) ==
    LET p == tab[t].portal IN
    /\ tab[t].op = "forget"
    /\ session' = [session EXCEPT ![p] = NoRow]
    /\ Done(t)
    /\ UNCHANGED <<queued, rows, cookies, host, clicks, asked, opened>>

\* import_session stores the cookies, commits, and then upserts the row.
SaveCookies(p) ==
    /\ cookies' = [cookies EXCEPT ![p] = TRUE]

UpsertRow(p) ==
    /\ rows' = IF Exists(session[p]) THEN rows ELSE rows + 1
    /\ session' = [session EXCEPT ![p] = [id |-> IF Exists(@) THEN @.id ELSE rows',
                                          state |-> "session_active", stored |-> TRUE,
                                          valid |-> TRUE, age |-> 0]]

ImportSession(t, p) ==
    /\ Click(t)
    /\ SaveCookies(p)
    /\ Goto(t, "import", p, "session_active")
    /\ UNCHANGED <<queued, rows, session, host, asked, opened>>

CommitImport(t) ==
    /\ tab[t].op = "import"
    /\ UpsertRow(tab[t].portal)
    /\ Done(t)
    /\ UNCHANGED <<queued, cookies, host, clicks, asked, opened>>

\* ConnectManager.start and cancel, in the API process when there is no queue.
StartLocal(t, h, p) ==
    /\ ~ queued
    /\ Click(t)
    /\ host[h] = IdleHost
    /\ ~ \E g \in Host : host[g].portal = p
    /\ host' = [host EXCEPT ![h] = [IdleHost EXCEPT !.at = "run", !.portal = p,
                                    !.attempt = "opening", !.left = LoginTimeout]]
    /\ UNCHANGED <<queued, rows, session, cookies, tab, asked, opened>>

CancelLocal(t, h) ==
    /\ ~ queued
    /\ Click(t)
    /\ Busy(h)
    /\ host' = [host EXCEPT ![h].cancelled = TRUE]
    /\ UNCHANGED <<queued, rows, session, cookies, tab, asked, opened>>

-----------------------------------------------------------------------------
(* The automation host.                                                    *)

\* Mutant: the UPDATE is not conditional on the request being unclaimed.
IsUnsettled(r) == Exists(r) /\ r.state \in Pending

IsUnclaimed(r) == Exists(r) /\ r.state = "interactive_available"

\* claim_connect is one conditional UPDATE.
Claim(h, p) ==
    /\ queued
    /\ host[h] = IdleHost
    /\ IsUnclaimed(session[p])
    /\ session' = [session EXCEPT ![p].state = "human_verification_required", ![p].age = 0]
    /\ host' = [host EXCEPT ![h] = [IdleHost EXCEPT !.at = "run", !.portal = p,
                                    !.snap = AsRead(session'[p]),
                                    !.attempt = "opening", !.left = LoginTimeout]]
    /\ opened' = [opened EXCEPT ![p] = @ + 1]
    /\ UNCHANGED <<queued, rows, cookies, tab, clicks, asked>>

Becomes(h, from, to) ==
    /\ host[h].at = "run" /\ host[h].attempt = from
    /\ host' = [host EXCEPT ![h].attempt = to]

OpenWindow(h) ==
    /\ Becomes(h, "opening", "awaiting")
    /\ UNCHANGED <<queued, rows, session, cookies, tab, clicks, ghosts>>

\* The person signs in.  A cancel that arrives while the cookies are being
\* read is not looked at again.
SignIn(h) ==
    /\ host[h].left > 0
    /\ Becomes(h, "awaiting", "capturing")
    /\ UNCHANGED <<queued, rows, session, cookies, tab, clicks, ghosts>>

\* The watcher's flag is seen, the window is closed by hand, or time is up.
GiveUp(h) ==
    /\ \/ Becomes(h, "awaiting", "cancelled")
       \/ host[h].left = 0 /\ Becomes(h, "awaiting", "timed_out")
    /\ UNCHANGED <<queued, rows, session, cookies, tab, clicks, ghosts>>

\* Any exception of the browser or of the database.
AttemptFails(h) ==
    /\ \E from \in {"opening", "awaiting", "capturing", "saved"} : Becomes(h, from, "failed")
    /\ UNCHANGED <<queued, rows, session, cookies, tab, clicks, ghosts>>

PersistCookies(h) ==
    /\ Becomes(h, "capturing", "saved")
    /\ SaveCookies(host[h].portal)
    /\ UNCHANGED <<queued, rows, session, tab, clicks, asked, opened>>

PersistRow(h) ==
    /\ Becomes(h, "saved", "connected")
    /\ UpsertRow(host[h].portal)
    /\ UNCHANGED <<queued, cookies, tab, clicks, asked, opened>>

SameRow(h) == session[host[h].portal].id = host[h].snap.id

\* The watcher beside a queued attempt: every two seconds it looks at the row.
Watch(h) ==
    LET p == host[h].portal IN
    /\ queued /\ Busy(h)
    /\ IF ~ SameRow(h) \/ ~ IsPending(session[p])
       THEN host' = [host EXCEPT ![h].cancelled = TRUE] /\ UNCHANGED session
       ELSE /\ host[h].attempt = "awaiting" /\ ~ host[h].announced
            /\ host' = [host EXCEPT ![h].announced = TRUE]
            /\ session' = [session EXCEPT ![p].age = 0]
    /\ UNCHANGED <<queued, rows, cookies, tab, clicks, ghosts>>

\* The attempt is over: read the row, and settle it unless it has been.
Finish(h) ==
    LET p == host[h].portal IN
    /\ host[h].at = "run" /\ host[h].attempt \in Terminal
    /\ host' = [host EXCEPT ![h] =
                  IF queued /\ @.attempt # "connected" /\ SameRow(h) /\ IsPending(session[p])
                  THEN [@ EXCEPT !.at = "settle", !.snap = AsRead(session[p])]
                  ELSE IdleHost]
    /\ UNCHANGED <<queued, rows, session, cookies, tab, clicks, ghosts>>

SettleConnect(h) ==
    /\ host[h].at = "settle"
    /\ WriteState(host[h].portal, host[h].snap,
                  SettleTo(host[h].snap, IF host[h].attempt = "cancelled"
                                         THEN "not_connected" ELSE "auth_required"))
    /\ host' = [host EXCEPT ![h] = IdleHost]
    /\ UNCHANGED <<queued, rows, cookies, tab, clicks, ghosts>>

\* The process dies, and its windows with it.
HostDies(h) ==
    /\ host[h].at # "idle"
    /\ host' = [host EXCEPT ![h] = IdleHost]
    /\ UNCHANGED <<queued, rows, session, cookies, tab, clicks, ghosts>>

-----------------------------------------------------------------------------
\* Mutant: the age of a row has no bound.
AgedForever(r) == IF Exists(r) THEN [r EXCEPT !.age = @ + 1] ELSE r

\* An age beyond the limit is not told apart.
Aged(r) == IF Exists(r) /\ ~ Stale(r) THEN [r EXCEPT !.age = @ + 1] ELSE r

\* Time.  The capture loop ends when its time is up, and what follows it
\* takes less than a tick.
ClockTick ==
    /\ \A h \in Host : host[h].at # "idle" => host[h].left > 0
    /\ session' = [p \in Portal |-> Aged(session[p])]
    /\ host' = [h \in Host |-> IF host[h].at = "idle" THEN host[h]
                               ELSE [host[h] EXCEPT !.left = @ - 1]]
    /\ UNCHANGED <<queued, rows, cookies, tab, clicks, ghosts>>

CookiesExpire(p) ==
    /\ session[p].valid
    /\ session' = [session EXCEPT ![p].valid = FALSE]
    /\ UNCHANGED <<queued, rows, cookies, host, tab, clicks, ghosts>>

Drive(h) ==
    \/ OpenWindow(h) \/ SignIn(h) \/ GiveUp(h) \/ AttemptFails(h)
    \/ PersistCookies(h) \/ PersistRow(h) \/ Watch(h) \/ Finish(h) \/ SettleConnect(h)

Commit(t) ==
    \/ CommitRequest(t) \/ CommitSettle(t) \/ CommitExpired(t)
    \/ CommitDisconnect(t) \/ CommitImport(t)

ConnectNext ==
    \/ \E t \in WebTab, p \in Portal :
          \/ AskToConnect(t, p) \/ ExpireIfStranded(t, p) \/ CancelConnect(t, p)
          \/ CheckBeforeApply(t, p) \/ Disconnect(t, p) \/ ImportSession(t, p)
          \/ \E h \in Host : StartLocal(t, h, p)
    \/ \E t \in WebTab : Commit(t) \/ \E h \in Host : CancelLocal(t, h)
    \/ \E h \in Host : Drive(h) \/ HostDies(h) \/ \E p \in Portal : Claim(h, p)
    \/ ClockTick
    \/ \E p \in Portal : CookiesExpire(p)

\* A page that shows a request polls it; time passes; requests and attempts
\* end.  No host need be running.
ConnectFairness ==
    /\ WF_connectVars(ClockTick)
    /\ \A t \in WebTab : WF_connectVars(Commit(t))
    /\ \A h \in Host : WF_connectVars(Drive(h))
    /\ \A p \in Portal : SF_connectVars(\E t \in WebTab : ExpireIfStranded(t, p))

ConnectSafety == ConnectInit /\ [][ConnectNext]_connectVars
ConnectSpec   == ConnectSafety /\ ConnectFairness
-----------------------------------------------------------------------------
(* Properties.                                                             *)

ConnectTypeOK ==
    /\ queued \in BOOLEAN
    /\ session \in [Portal -> SessionRow]
    /\ cookies \in [Portal -> BOOLEAN]
    /\ host \in [Host -> HostRecord]
    /\ tab \in [WebTab -> TabRecord]
    /\ clicks \in 0..MaxClicks
    /\ rows \in 0..MaxClicks
    /\ asked \in [Portal -> Nat] /\ opened \in [Portal -> Nat]

\* However often Connect is clicked and cancelled and however many hosts look,
\* a window is opened once per request (claim_connect).
OneWindowPerRequest == \A p \in Portal : opened[p] <= asked[p]

\* A failed, cancelled or stranded reconnect leaves a session that still works
\* active; it is lost only to a commit of someone who read the row before the
\* session was stored.
ReadBefore(p) ==
    \/ \E t \in WebTab : tab[t].portal = p /\ ~ StillValid(tab[t].snap) /\ tab'[t] = IdleTab
    \/ \E h \in Host : host[h].portal = p /\ ~ StillValid(host[h].snap) /\ host'[h] = IdleHost
UsableSessionStays ==
    [][\A p \in Portal :
          StillValid(session[p]) /\ session'[p].id = session[p].id /\ session'[p].valid
          => \/ session'[p].state = "session_active" \/ session'[p].state \in Pending
             \/ session'[p].state = session[p].state
             \/ ReadBefore(p)]_connectVars

\* A request does not stay in progress for good, although its host may die at
\* any point and no host need ever look.
RequestSettles == \A p \in Portal : IsPending(session[p]) ~> ~ IsPending(session[p])
=============================================================================
