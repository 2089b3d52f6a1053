# CVil-War: TLA+ specification of the backend

CVil-War finds jobs, prepares applications and submits them with a browser
agent.  What it must not do is submit an application twice, submit one its
owner did not agree to, or lose one; around that core stand services with
promises of their own (a sign-in window per request, one successor per refresh
token, a purge that leaves nothing behind, a CV that says what its change log
says).  This directory models the code that decides those things, checks it
with TLC on small instances and proves its main safety results with TLAPS for
all instances.

All paths below are relative to `src/backend/app/` unless they start with
another directory.

## 1. Inventory

| component | state it keeps | operations | hard behaviour | what makes it correct |
|---|---|---|---|---|
| Apply pipeline (`workers/tasks.py`, `_apply`) | the row of an application: `status`, `apply_mode`, `resume_state` | load, review guard, policy gate, APPLYING marker, browser run, one of eight endings | stale ORM snapshots, several runs of one row, death in the middle, an irreversible click | consent before submission, approvals stick, one submission per ask |
| Owner API (`api/v1/applications.py`, `services/application.py`, `dispatch.py`, `approval.py`) | requests in progress | create, approve, bulk approve, status update and re-run, resolve a blocker | read-then-commit, two commits per request, commands during a run | an owner's decision is not undone by a run |
| Database-queue worker (`workers/db_queue.py`) | advisory locks, back-off map | hand back, list, lock, run, unlock, re-check | two workers, crash, runs that outlive 45 minutes | one run per row, nothing stuck, everything tried again |
| arq queue (`services/dispatch.py`, `WorkerSettings`) | jobs by id, retained results | enqueue with dedup, defer, retry, redeliver, time out | dedup against results, late tries, shutdown | a waiting row has a job that will come to it |
| Policy gate and rules (`core/policy`, `services/policy.py`) | the owner's policy; facts counted over the applications | evaluate all rules, worst verdict, waive on approval | check-then-act with parallel workers, retry times | the worst objection decides, caps hold up to the runs under way, holds clear |
| Confirmation before the click (`runtime/confirmation.py`, `intervention.py`) | a Redis list per application | ask, wait, answer | late, double and misdirected answers, a job limit shorter than the question | an approval lets one run click, a question ends |
| Platform sign-in (`core/automation/connect.py`, `services/platform_session.py`) | `platform_sessions` rows, stored cookies | request, claim, capture, cancel, settle, strand, import, disconnect | two hosts, cancel against completion, a host that dies | one window per request, a working session survives, requests settle |
| Sessions, password reset (`api/v1/auth.py`, `services/password_reset.py`) | refresh-token families, reset links | log in, rotate, detect replay, log out, reset, delete | tabs with one cookie, lost replies, sweeps that miss rows in flight | one successor per token, an ended family stays ended |
| Account purge (`services/account.py`, cron) | `deleted_at`, files, rows | mark, remove files, delete rows | partial failure, jobs that outlive the account | nothing but late leftovers, every account purged |
| Assistant tokens (`core/assistant`) | spent nonces | propose, confirm, execute | several instances, restart, no Redis, a claim that comes after the token's end | a confirmation runs once |
| Inbox sync (`services/inbox_sync.py`, `recorder.py`) | communication events, status | classify, stage, commit | cycle against request, one commit for all, rollbacks | a mail moves a row once, and forward |
| Harness skills (`core/harness`) | versions with scores | record, feed back, retire | concurrent reviews with lost updates | retired only with cause |
| Discovery (`services/job_search.py`, `discovery_scheduler.py`) and clustering (`core/job_discovery/dedup.py`) | jobs and their canonical links | search, store, link, delete | overlapping searches, order of the results | a vacancy is listed, groups do not depend on the order |
| Notices and digest (`services/notifications.py`, `digest.py`) | notification rows | emit, mail, digest | mail inside a transaction that may roll back | nothing is mailed twice without a failure |
| LLM key ring (`core/llm/keyring.py`, `client.py`) | parked keys | pick, park, succeed | calls that overlap | a spent key rests |
| Resume versions (`services/resume_intelligence.py`, `resume_tailoring.py`) | lineages of versions | edit, branch, restore, analyse, commit | requests that read before they wait | a lineage forks only where a stale commit or an overlap forks it |
| Resume library (`services/resume.py`, `tailored_resume.py`) | files and rows of CVs | upload, generate, delete, archive, send | file and row in two systems | files match rows but for named failures, a deletion spares what was sent |
| Application score (`services/application_tailoring.py`, `ats_evaluation.py`) | attached CV and its score | tailor, score, gate, attach | three writers with old reads | the score is of the attached CV |
| PDF tailoring (`core/resume_tailoring`) | the file of a pass and its change log | plan, place, score, keep, fit, revert | a long protocol of partial steps | the log says what was changed, no kept wording is worse |
| ATS heuristics, prompts, job sources, documents, email, rate limiter, websocket, frontend | mostly none | text and I/O | external services | section 6 |

The apply components talk through the `applications` table.  The API commits a
status and a stamp; a dispatcher (arq, the database-queue worker, or the API
itself when there is neither) starts a run for a row; the run loads the row,
commits several times, drives the browser and commits the outcome.  There is no
row lock and no version column.  A session keeps the row as it loaded it
(`expire_on_commit=False`, `db/session.py:50-54`) and writes only the columns it
changed, so most of what can go wrong is a decision taken on an old snapshot.
The other services have their own tables and the same habit: read, wait for a
model, a mailbox, a store or a person, and write.  The places where it bites,
each at its line, are `hazards` in `PROJECT.json`.

## 2. Modules

    ApplyPipeline          rows, runs and owner requests; any dispatcher
      MCApplyPipeline      instance: two runs of one row
      ApplyPipelineProofs  types, consent, approvals
    SubmissionLedger       abstract: asks, consents, submissions
    DbQueue                EXTENDS ApplyPipeline with workers, locks, time, faults;
                           INSTANCE SubmissionLedger WITH a refinement mapping
      MCDbQueue            instances: one run that passes, three disagreements
      DbQueueProofs        exclusion, both refinements, consent, approvals, no double submission
    ArqQueue               EXTENDS ApplyPipeline with jobs, results, tries, faults
      MCArqQueue           instances: one run that passes, one disagreement
      ArqQueueProofs       types, refinement, consent, approvals, nothing is forgotten
    PolicyEngine           the gating rules and verdicts, as a function
    PolicyPacing           EXTENDS PolicyEngine: the rules' facts over time, with workers
      MCPolicyPacing       instance: two workers
      PolicyPacingProofs   approvals, types, the caps
    RunWindow, Confirmation, ConnectQueue, Sessions, Purge, AssistantTokens, InboxSync,
    SkillLibrary, Discovery, VacancyGroups, Notices, KeyRing, ResumeVersions,
    ResumeLibrary, ApplicationScore, PdfTailoring
                           one service each; they share no state
      MCServices           all of them, and PolicyPacing on one posting, side by side
      SessionsProofs,
      TailoringProofs (ApplicationScore, PdfTailoring, ResumeLibrary, ResumeVersions),
      ServiceProofs (Confirmation, KeyRing, ConnectQueue, AssistantTokens, SkillLibrary,
                     Purge, Notices, InboxSync, Discovery, VacancyGroups, RunWindow)
      MCServicesProofs     EXTENDS MCServices and these three: types of every part, duplicates

The services do not share variables, so their product would only multiply states.
`MCServices` explores their *disjoint union*: `component` is chosen at the start,
the chosen part runs, the others rest in one of their initial states.  Every
behaviour of every part is a behaviour of the union, and none is lost to the
others; `ServicesFairness` conjoins the fairness of each part's own specification.
Conversely a behaviour of the union is one of each part, with stuttering: that is proved
(section 4).

Definitions named `Mutant: ...` in a comment are wrong versions of the one below
them, used to show that a property notices.

### ApplyPipeline

`row[a]` is a row of the table: status, apply mode (`batch` acts as `review`
everywhere the pipeline looks) and the parts of the JSON column `resume_state`
that steer it: the approval stamp, the pause marker, the waiver note.  A row
that does not exist is "absent".  `run[s]` is what an ORM session of a run
knows: how far `_apply` has got, the attempt number, and the snapshot.
`req[t]` is the same for a request of the owner.  `paused` is the kill switch,
`handed` the rows ever given to arq.  Three ghosts record what the properties
speak about and no guard reads, except that `MaxClicks` bounds one of them:
`asks` counts commits of the owner that made a row claimable, `consent` says
that the owner approved the row or asked for a run, and `sent` counts clicks on
the final Submit.  `acts` counts commands; it bounds them and stands for the
time stamp of an approval, which differs each time.

Every commit goes through `Merge`, which writes the changed columns over the
row as it is *now*, and through the partial unique index `uq_app_active_job`
(`UniqueActive`); a commit that would break it is rolled back and ends the run
or request.  Steps that the code separates by a commit or a read are separate
actions: a run loads in one step and commits in later ones; creating is an
insert, a refresh and a dispatch; updating a status is a read, a commit, a
re-read and a second commit.  The actions of a run follow `_apply` from top to
bottom: `Load`, `StageForReview`, `Gate`, `Requeue`, `MarkApplying`, `Click`,
`Report`, `MarkApplied`, and the endings `MarkNeedsVerification`,
`ApprovalRequired`, `MarkWaitingForSetup`, `MarkFailed`, `TransientError` and
`Abort` (the process dies or an error escapes).

What is abstracted:

- The policy gate raises any set of objections from `Raised`, except that a
  paused policy always holds and a posting already applied to always blocks.
  Objections are told apart by what they do to the run (escalate, hold for
  quality, hold for pacing, block).
- The gate reads the policy and sibling rows and commits in one action.  It does not
  re-read its own row, so a change of that row between the two is still seen as
  the overwrite it is; only a change of the *policy or of a sibling* between
  evaluation and commit is not separated from one just after the commit.
- Declined confirmations, unconfirmed results and cancellation all end in
  `_mark_failed`, hence in `MarkFailed`.
- A batch create is a sequence of single ones; bulk approval is `Approve` of a
  set, single approval of a singleton.
- `Legacy` rows are QUEUED review-mode rows at the start: the comment at
  `workers/tasks.py:463` says earlier releases created them.
- Notes, scores, evidence columns, timeline events, agent-run records and
  published events are left out: they steer nothing here.  Deleting a row is not
  modelled.

### DbQueue

One session per worker.  `worker[w]` is where its pass is and what it has read;
`lock` the advisory locks; `fresh[a]` whether the row was written in the last
45 minutes; `faults` bounds crashes.  A pass is `BeginPass` (the scan of
`release_interrupted`), `Release` (its later commit), `List`, and for each row
`PassOver` or `TryLock`, `StartRun`, `Running`, `Unlock`, `Recheck`; then
`EndPass`.  `Running` is any step of the pipeline's run, or an exception that
escapes it, which the pass catches.  `PassFails` is an exception anywhere else
(`run_forever` goes on); `Crash` also ends the run and frees the worker's
locks, because their connection is gone.  `GrowStale` lets 45 minutes pass for
any APPLYING row, also one whose run is alive.  `BackOffExpires` lets the 15
minutes of `WorkerState` pass.

The window of 20 rows is left out: the model holds when at most 20 rows are
claimable.  So are the loss of the lock's connection while the run goes on and
collisions of the 32-bit lock keys.  On SQLite the lock is a no-op; that case is the
mutant `TryLockAlways`, and it breaks `MutualExclusion`.

### ArqQueue

A session of the pipeline is one of the `max_jobs` slots of the worker.  `job[a][j]`
is the job a row has under an id: the default id, or one of the ids that policy
holds make.  In the code each hold has its own time stamp; `HoldId` bounds how many are
pending together, and a member that is free again stands for a new time stamp.
A job is absent, deferred, queued, in progress, or kept as a result; the model tells
its tries and whether it is older than the kept result.  `EnqueueJobs` is `enqueue_apply`
with a pool, `EnqueueFails` what remains when Redis cannot be reached; `ComeDue`, `TakeJob`,
`ForgetResult`, the ends of a run (`RunJob`, `WaitForSetup`, `RequeueHold`, `RetryLater`) and
the faults `WorkerCrash`, `Shutdown`, `ErrorEscapes` are what arq and its worker do.  arq is external; its definitions are read off the settings and calls
in `dispatch.py` and `tasks.py`, and are marked so in `map`.  `lost` is a ghost: the ways
in which the code itself gives a row up, each by name.

### SubmissionLedger

The promise without the machinery: an application is created, the owner's
commits queue it and may consent to it, and a submission uses up an ask and,
outside autonomous mode, needs a consent given before.  `DbQueue` implements
it under the mapping that reads the mode off the row and keeps the ghosts.

### PolicyEngine and PolicyPacing

`PolicyEngine` is a function of a policy and a context: `Objects` says which of
the 18 gating rules object, `VerdictOf` with what verdict, `Outcomes` collects
them (a rule that raises escalates), `Decision` takes the worst, and
`Enforced` applies the owner's approval as `_apply_owner_approval` does.

`PolicyPacing` lets time pass and workers gate rows against facts counted over
the table, as `build_context` does.  Time is kept as ages: `age[a]` is the number of
ticks since `applied_at`, up to `Old`, which no rule tells from a greater age (or from
no `applied_at`); `newer` is the order of `updated_at`, from which the portal's history
is read.  `work[w]` is the row that a worker is submitting.  Gate and APPLYING commit are one
action: nothing the gate counts changes between them, since APPLYING rows count for
nothing.  `Gated` is the decision, `Release`, `HoldBack`, `Escalate` and `Block` its four
ends, `Submit` and `EndRun` the ends of a run, `HandBack` and `Edit` what the
recovery, the owner and the inbox do to a row.  `ApprovedBefore` are the rows approved when
they were queued.  `paced` is a ghost: the last submission of the row
went through the gate; a status set by hand is not the gate's doing.

Left out: eligibility questions and challenges, which `_enforce_policy` never
passes to the gate; the window (see `RunWindow`); retry times (a held row may be
gated again at any moment, which is sooner and later than the code would); rules
that raise (no fact that `build_context` can assemble makes one raise; the
theorem about approvals allows it); the review guard and snapshots
(`ApplyPipeline`).  Title similarity and salary texts enter as constants.

### RunWindow

The arithmetic of `_run_window`, `_parse_hhmm` and `_next_window_open`, and one
application that is gated, held until the time it was told (an hour at most),
woken, submitted and followed by the next.  Minutes are ticks of a day of
`DayLength`; a stored time that does not parse is `Garbled`.  `hold` keeps the
latest hold: when it was made and which opening it named.  Changes of the clock in spring and
autumn are left out, as is the rounding of the deferral to whole seconds (a job may wake
up to a second early and is then held 30 seconds more).  `Pass` takes a due
job at once: the worker is not busy with other rows.  The database-queue worker
does not use the deferral but comes back every 15 minutes, and can miss a window
shorter than that.

### Confirmation

One application whose runs follow one another.  `attempt` is the run in progress with its
number and its time left (arq limits a job to 600 s; a run of the database queue or of the
API has no limit); `answers` and `life` are the Redis list and its expiry; `unexpired` the
requests between RPUSH and EXPIRE; `prompt` the run a window of the owner shows a question
of.  `RequestApproval` publishes, at best effort; `TakeAnswer` is BLPOP, `GiveUpAsking` its time-out,
`CancelAtJobTimeout` arq's cancellation, `PushAnswer` and `ExpireAnswers` the two halves of the API request.
A tick is five minutes.  `answer`, `clicked` and `orphaned` are ghosts.

### ConnectQueue

`session[p]` is the row of `platform_sessions` (id 0: none), `cookies` the stored state,
`host[h]` an attempt in a browser host with the watcher beside it, `tab[t]` a request between
its read and its commit.  `queued` says whether a queue of hosts serves the requests or the API
process itself (`ConnectManager`).  Commands of the owner: `AskToConnect`, `CancelConnect`,
`Disconnect`, `ImportSession`, `StartLocal`, `CancelLocal`; of pages and runs: `ExpireIfStranded`,
`CheckBeforeApply`.  A host: `Claim` (one conditional UPDATE), `OpenWindow`, `SignIn`, `GiveUp`,
`AttemptFails`, `PersistCookies`, `PersistRow`, `Watch`, `Finish`, `SettleConnect`, `HostDies`.
Time stamps are ages, up to one past the limit.

### Sessions

`tokens` is the table of refresh tokens, `jar` the cookie of a browser, `call[t]` the request of
a tab with what it has read, `links` the reset links.  The claiming UPDATE locks its row until
its call commits; a statement that revokes many rows picks them when it starts, waits for
locked ones, and does not see rows inserted meanwhile (READ COMMITTED): the action that
starts the statement fills `rows`, and `SweepCommit` changes those.  A reply may be lost (`LossyNetwork`).  `ended` and `late` are ghosts.

### AssistantTokens, InboxSync, SkillLibrary, Purge

`AssistantTokens`: a token holds the whole action; the memory is the set of spent nonces, in
Redis (`nonceKey`, with its time to live) or per process (`localSpent`).  `confirming[c]` is a confirmation in
progress: `Verify` checks the token and computes the time to live, `ClaimNonce` or `RefuseClaim` is what
Redis answers some time later, `Execute` runs the action.  Ghosts: `forgetful`, Redis came or went,
or a process restarted without it; `overdue`, the claims that came after their token had expired; `executed`.

`InboxSync`: the cycle takes the users one after the other in one database session, a request
syncs one.  A sync stages rows; the next query flushes them, which locks what they touch (a
second flush of the same key waits, `FlushWaits`), and one commit stores all.  `poisoned` is a
session with a failed transaction.  Matching and classification are constants.

`SkillLibrary`: reviews run concurrently; each reads the greatest version, inserts the next
(unique key, retries), and scores the skills its run had used by a read and a later write.

`Purge`: the mark, the grace period, the daily cron (files, then rows), storage and database
failures, and jobs of the account that keep storing.  `kept` is the set of tables with rows of
the account: those the code lists, and those left to foreign keys.

### Discovery, VacancyGroups, Notices, KeyRing

`Discovery`: a search reads what is stored, asks the sources, stores what is new in one commit
(refused as a whole by the unique key), plans links over the groups it reads and writes them
later.  `byAge` is the order of `created_at`, the *start* of a transaction, so it is not the
order of commits.  `VacancyGroups` is the grouping itself: three signals and a union-find over
buckets.  `board` is the list of adverts in the order they came; `StartGroups` gives each its own
`root` and collects in `pairs` what the tables of URLs and the buckets compare, `UnitePair` unites one
of them, in any order.  The reference definition is the connected components of what it can notice (`Noticed`: a shared URL, or a match within a bucket),
for boards of up to four of eight adverts in every order.

`Notices`: a transaction of a caller with the mail it sends inside, and the digest.  A mail is answered, not sent, or
sent with its reply lost, which the code takes for not sent (`Send`).  `KeyRing`:
calls take the set of usable keys when they start, in the order of the pool (`left`; the next is its least
key); answers come later.  An empty answer frees the key like a good one, but the call goes on.

### ResumeVersions, ResumeLibrary, ApplicationScore, PdfTailoring

`ResumeVersions`: lineages (the master's and each branch's) of numbered versions; edits and
restores build on the head they read, a tailoring commit on the version its analysis named.
`ResumeLibrary`: files and rows of CVs, their locks and discards, deletion with its count of
who was sent the CV, and runs that send one.  `strayed` are the files, `bereft` the rows that a failure
left without their other half: a put that raised after it stored or was the first of two, a refused row nobody
cleaned up after, storage that does not delete, a commit that failed after the file was deleted, a refresh that failed
after the commit, a process that died.  Both are ghosts, and each of their members is added by the action of that failure.
`ApplicationScore`: three writers and the owner on two columns; a score is known by the CV it
is of, `mixed` is a ghost that names an overlap of writers.  `PdfTailoring`: the rounds, gains,
checks, page fitting, revert and change log of one pass; how a line is validated, placed and
measured is a choice of outcomes.

## 3. Runs

| run | instance | properties | states |
|---|---|---|---|
| `core_two_runs` | 1 row (new, or left by an older release), 2 runs (symmetric), 2 commands, no queue, transient errors anywhere | `ReviewNeedsConsent`, `ApprovalSticks` | 1.02 million |
| `db` | 1 row (possibly legacy), 2 workers, 1 command, 1 fault, 2 clicks | `MutualExclusion`, `OneClickPerAsk`, `LeavesApplying`, `WaitingIsTried`, `LedgerSpec` | 233 thousand |
| `arq` | 1 row, 2 slots, 2 hold ids, 2 tries, 2 commands, 1 fault | `NothingForgotten`, `ApplyingEnds` | 168 thousand |
| `policy_workers` | 3 rows (2 approved, 2 for one posting), 2 workers, all caps 1, spacing and cooldown 1 tick, first-run review | `CapsWithinWorkers`, `HoldsClear` | 1.8 thousand |
| `services` | the 17 parts of the table below | 21 invariants, 3 action properties | 944 thousand |
| `services_live` | the 6 parts with liveness, smaller | 5 liveness properties | 45 thousand |

| part | instance in `services` | properties | states |
|---|---|---|---|
| connect | 1 portal, 2 hosts, 2 tabs, 2 commands, a tick to sign in, a tick until stranded | `OneWindowPerRequest`, `UsableSessionStays`; live: `RequestSettles` | 257 thousand |
| confirm | 2 runs, 2 windows, limits 2, 3 and 2 ticks of five minutes | `OneClickPerApproval`; live: `AttemptEnds` | 85 thousand |
| window | 10 windows, 6-tick days, deferral up to 3, runs up to 2, from every moment of the week | `HoldNamesOpening`, `HoldNamesFirstOpening`; live: `WindowLosesNothing` | 3 thousand |
| sessions | 2 tabs of one browser, 3 tokens, 1 link, replies lost | `OneSuccessor`, `EndedStaysEnded`, `DeletedFallsSilent` | 90 thousand |
| assistant | 2 instances, 1 token of 1 tick, 3 confirmations at a time, 2 accepted | `ConfirmedOnce` | 24 thousand |
| inbox | 2 mails (invite, then rejection) to one of 2 mailboxes, cycle and requests, 1 correction | `MovedOnce`, `NeverBackwards` | 113 thousand |
| skills | 3 reviews, 3 versions, 2 retries, retirement after 2 | `RetiredWithCause` | 20 thousand |
| purge | 2 accounts, 1 job, storage and database failures | `LeftoversAreLate`; live: `DeletedIsPurged` | 3 thousand |
| discovery | 3 adverts of one vacancy, 2 of them listable, 2 searches, ties in any order | `VacancyIsListed`, `LinkingMends`; live: `DiscoveryStores` (2 adverts, 1 deletion) | 68 thousand |
| groups | boards of up to 4 of 8 adverts, in every order | `GroupsAreComponents` | 7 thousand |
| notices | 2 facts, 2 callers, 1 digest, 1 loss | `MailedOnce` | 0.3 thousand |
| keyring | 2 keys, 2 calls, cooldowns 3 and 1 | `SpentKeyRests` | 29 thousand |
| versions | master and 1 branch, 1 analysis, 2 editors, 4 versions | `OnlyTailoringForks` | 27 thousand |
| library | 2 requests, 2 files, 1 application, 2 faults | `FilesMatchRows` | 125 thousand |
| score | 1 base, 1 tailored version, 1 request and a run | `ScoreOfAttached` | 7 thousand |
| pdf | 3 lines, 3 rounds, scores 0..3 | `ShippedAsReported` | 9 thousand |
| pacing | 3 rows of one posting, 2 workers, a policy that holds nothing back, 1 edit | `PostingWithinWorkers` | 77 thousand |

`ServicesTypeOK` is the type invariant of whichever part runs.  (`ServicesAssumption`: a run looks at parts
that exist, and an idle worker's row is none of the table's.)

### What the properties say

`ReviewNeedsConsent`: in review mode no run passes the guard, and nothing is
sent, without the owner's consent, whatever holds, retries, hand-backs, lost
updates and re-runs did to the row in between.  `ApprovalSticks`: a row loses
its approval stamp only to a run that had loaded it before the approval - the
lost update that whole-column writes of `resume_state` cannot avoid.
`MutualExclusion`: two workers never run one application, although a hand-back
can return a row whose run is alive.  `OneClickPerAsk`: the employer receives an
application at most once for each time the owner queued it.  `LeavesApplying`,
`WaitingIsTried`: no row is stuck.  `LedgerSpec`: all of the promise at once, as
a refinement.

`NothingForgotten`: under arq a row that waits to go out has a job that will look
at it, or one of the named gaps (an approval that meets a job already started or
a result still kept, Redis gone, tries used up, an escaped error) lost it; no
further gap exists.  `ApplyingEnds`: retries, redeliveries and shutdowns leave no
row APPLYING for ever.

`HoldNamesOpening`: the search for the next opening and the check of the window are
separate computations; a hold never names a moment at which the gate would
refuse again; `HoldNamesFirstOpening`: for windows within a day it skips none.
`WindowLosesNothing`: with one-hour sleeps and windows of a single tick a week an
application still goes out.  `CapsWithinWorkers`: the caps count before a run and
record after it, so they can be overrun by the runs under way; by those and no
more, exact with one worker.  `PostingWithinWorkers` says the same of duplicate
postings gated at one moment, whatever the owner and the inbox edit.  `HoldsClear`: caps and cooldowns
hold only for a time, and one row's holds do not starve another.

`OneClickPerApproval`: no click without an approval, a rejection ends its run, and
no two runs click on one approval.  `AttemptEnds`: a run ends although nobody
answers.  `OneWindowPerRequest`, `UsableSessionStays`, `RequestSettles`: a window per
queued request; a reconnect that fails, is cancelled or stranded leaves a session
that still works active, unless somebody commits who had read the row before the
session was stored; no request stays pending although its host dies.  `OneSuccessor`,
`EndedStaysEnded`, `DeletedFallsSilent`: a token has one successor at most; what a
logout, reset or replay ended while no token was being rotated stays ended; a deleted
account gets one token per tab at most, of calls already in flight.  `ConfirmedOnce`: while Redis answers,
or without it while one process lives, the action of a token runs once, and once more for each confirmation that was
checked in time and claims the nonce after the token has expired.  `MovedOnce`, `NeverBackwards`: however cycle
and request overlap, a mail moves its application once; a sync that nobody interfered with never
moves one backwards although it reads the newest mail first.  `RetiredWithCause`:
lost updates may delay a retirement, never cause one.  `LeftoversAreLate`,
`DeletedIsPurged`: what a purged account leaves was stored by a job that outlived
the removal of its files; every deleted account is purged.  `VacancyIsListed`:
however searches overlap and fail, a vacancy whose oldest listable advert was stored alone is listed.  `LinkingMends`:
so is every other after a pass that nothing disturbed, whatever the passes before it had linked.  `DiscoveryStores`: what the
sources keep carrying is stored in the end although a collision loses a whole
search.  `GroupsAreComponents`: the buckets, shortcuts and union-find compute the components of
what they notice whatever the order.  `MailedOnce`: a fact is mailed again only for a commit that
failed after the mail, for a mail whose reply was lost, or for digests that overlapped.  `SpentKeyRests`: within its cooldown only an answer from
before frees a spent key.  `OnlyTailoringForks`: a number is given twice only by a
tailoring committed on a version that is no longer the head, or by overlapping edits.
`FilesMatchRows`: a file without a row or a row without its file belongs to a request
between the two or to a named failure.
`ScoreOfAttached`: the stored score is of the attached CV, except after a named overlap
or an attachment by hand.  `ShippedAsReported`: the file handed back differs from the
original by exactly what its log says, and keeps no wording of the rounds that scored below it.

### Why the bounds are enough

Every hazard involves one row, two actors and a handful of commits; the instances
have what the shortest counterexample of every mutant and disagreement needs, and
in most cases one more.  A second row matters for the unique index and duplicate
postings only; the proofs cover any number.  Two commands allow an approval and a
re-run (or a withdrawal) in the middle of a run.  One fault suffices for a crash at each point; a restarted
worker is indistinguishable from a new one.  In `db` one click too many shows as two
clicks for one ask; `MaxClicks` 2 does not see a third for two asks, which the theorem covers.
In `window` six ticks a day are enough for a window with a time before, in and
after it, and an overnight one.  In `policy_workers` an hour is 1 tick, a day 2 and a
week 3, so that each cap expires at another time (in pacing, where no cap holds, all are 1); three rows are one more than the
caps allow two workers.

Named bounds of the services: `MaxClicks` (commands of an owner), `MaxRuns`, `MaxTokens`,
`MaxLinks`, `MaxConfirms`, `MaxCorrections`, `MaxVersions`, `MaxFiles`, `MaxDeletes`, `MaxBoard`, `MaxLosses`,
`MaxChanges`, `MaxResumes`, `MaxCvs`, `MaxFaults`, `MaxRounds`, `MaxScore`, `MaxTailored`.  A tailoring pass has
three rounds here and five in the code: two kept rounds and a dropped one are the longest
dependency (`pdf_pipeline.py:334`).  `OneTrouble` keeps failures that part file and row, and runs that send CVs,
out of the same behaviour of the library: runs read files and write neither.  `MaxDeletes` is 0 in `services` and 1 in
`services_live`, which has one advert fewer; `NoVacancyLost` and `PassMends` are for any number of deletions.  Two faults
in the library let one strike the request that another has left something to.  Three confirmations and a token of
one tick are what it takes for two claims on either side of its end, and one that is refused.

Assumptions a run makes about the environment:
`ListLimit` is not exceeded (`MaxFiles = ListLimit`: the storage lists 1000 objects per call);
`TransientAfterClick = FALSE` in `db` (see `transient_resend`); two CVs with equal scores are not told apart from their scores.

Deadlock checking is off where a bounded environment lets the system stop: no more commands
(`core_two_runs`, `arq`), every row decided and old (`policy_workers`), every part's bounds used up
(`services`).  In `db` a worker always polls, and deadlock is checked.

### Fairness

- `db`: a worker takes steps for ever (`run_forever` polls every 30 seconds and logs whatever a
  pass raises; a browser run is bounded by `browser.max_steps`, `config/settings.py:101`, and
  the calls it makes are assumed to return); back-offs expire and APPLYING rows grow stale.
  Weak fairness is enough: a worker's step stays enabled until taken.  Nothing is assumed of the owner.
- `arq`: a deferred job comes due, a free slot takes a queued job, a slot works, a request that has
  committed goes on to enqueue.  All weak.
- `policy_workers`: time passes, a browser run ends, and each row is taken up if it may be
  released, escalated or blocked again and again (strong: a worker visits all claimable rows in turn).
- `services_live`: *connect* - time passes, requests commit, hosts go on; a page that shows a
  stranded request polls it, and it is noticed if it can be again and again (strong).  No host need
  ever look.  *confirm* - five minutes pass, EXPIRE is sent, a run does what it can.  *window* - time
  passes, a due job runs.  *purge* - the cron runs daily, and neither storage nor the database fails
  every time (strong, on the two deletions).  *discovery* - the scheduler repeats its cycle, and now
  and then every source answers (strong); what was fetched is processed.

### Disagreements between the code and what the repository says

Each is a run that must find its one property violated; `findings` quotes the lines.

| run | what happens |
|---|---|
| `withdrawn` | An autonomous row is loaded and cleared by the gate; the owner withdraws it; the run writes APPLYING over the withdrawal and submits.  The re-check that the comment at `workers/tasks.py:454` relies on was made at load. |
| `create_twice` | An autonomous application is APPLIED; creating it again finds the row, and `dispatch_for_mode` sets it back to QUEUED and it is submitted again. |
| `transient_resend` | A timeout after the click puts the row back to QUEUED; the next pass submits it again.  With `TransientAfterClick = FALSE` this cannot happen: that assumption separates `db` from this run, and is a hypothesis of two theorems. |
| `arq_two_jobs` | A hold leaves a deferred job under a second id; an approval enqueues the default id, and two slots work on the row. |
| `stale_answer` | An answer to the question of an ended run waits in the list of the application and lets the next run click. |
| `submitted_cv_deleted` | A CV an employer received is deleted, not archived, when its application was withdrawn since or was given another CV. |

`OneClickPerAsk` counts a second create as an ask (it is a commit of the owner
that queues the row); that a repeated create should *not* count is what
`CreateIsIdempotent` states and the code breaks.

The following were met while modelling and have no run of their own.  Three are stated in
the modules as properties that TLC finds violated: `NoTwins` (two active skills with one content, `core/harness/skills.py:143-145`),
`TabsShareOneRefresh` (`frontend/src/services/api.ts:59-62`: tabs present an exchanged cookie) and `RunsAreClosed` (a
poisoned session leaves an agent run RUNNING, `recorder.py:67-81`).  The others, by reading or from the traces of properties
that had to be weakened:

- A key is mailed again (`notifications.py:13-14`) after a rollback that followed its mail, and by the digest ("not already emailed") when
  Gmail had accepted the mail and the reply was lost: `gmail_send.py:215-217` reports FAILED and the row stays un-emailed.
- A confirmation checked just before its token expires may claim the nonce just after (`core/assistant/tokens.py:126-132`: the check, then
  an awaited SET with a time to live of at least a second).  The key of an earlier confirmation has expired with the token by then, so the
  action runs again.  Line 9 calls the protection best-effort, and lines 10-12 rely on the actions being idempotent.
- "so a vacancy is never lost" (`job_search.py:618-622`): `_link_canonical` reads the rows ordered by `created_at` (line 857), which
  those of one commit share.  Two overlapping passes that see two such rows in different orders link each to the other, and neither is listed until
  the next pass (`VacancyIsListed`, `LinkingMends`).
- The file of a CV may be gone while its row stays, or be left without a row: a commit that fails after `delete_resume` deleted the file (`resume.py:1136-1142`;
  the request can be repeated), a refresh that fails after the commit of a tailored CV (`tailored_resume.py:199-210`), a put that stored and
  raised (`:157-167`, where `stored` is not yet set), the second put of `optimize_resume` (`storage/documents.py:29-38`).  An application that
  begins to send a CV between the count and the deletion loses it (`resume.py:1113-1142`).

- Caps and "never twice to the same posting. A hard invariant" of `docs/AUTOMATION_POLICY.md`
  (2.1, 3.1) hold with one worker only; two that gate two rows of a posting at one time both let it through.  An open circuit breaker never closes by itself (line 33): nothing can succeed
  on the portal, so its count of failures never falls; `HoldsClear` is checked with the breaker off.
- For an overnight window `_next_window_open` names the start on the next selected day, not "the
  next moment the run window is open".  "Submissions land inside working hours" and "stops all submission
  immediately" (4.2): window and kill switch are read at the gate, the submission comes minutes later.
- "A failed attempt never reached the employer" (`workers/tasks.py:322`): an error after the click
  marks FAILED what was sent.
- `docs/AUTOMATION_POLICY.md:243` and `:254` describe verdicts that `core/policy` gives differently;
  "goes out tomorrow" is a rolling 24 hours; the portal's history is ordered by `updated_at`, which any edit changes;
  the deferral is cut to whole seconds (`tasks.py:284-285`).
- "nothing is stored" of a cancelled sign-in (`platform_sessions.py:158`): a capture that has begun is stored.
- An analysis is "never mutated afterward" (`models/resume_intelligence.py:171`), but a commit writes its changes,
  and may be made twice; two first requests make two versions 1.0; profile extraction writes back what it read
  before the model was asked (`services/resume.py:742-821`).
- A tailored CV may be attached to an application that was approved with another: a held row is QUEUED, which tailoring
  may edit (`application_tailoring.py:5-8`, `:70`).  A CV attached by a status update keeps the score of the one before
  (`ats_evaluation.py:332`).  Generation from a DOCX and `optimize_resume` leave a file behind when their row is refused.
- A PDF's page fitting may lower the score below the original's against `pdf_pipeline.py:14-16` (it is reported as
  `ats_cost_of_layout`); the floor of preserved wording holds per round, not over all of them.
- "Every spelling lands in one bucket" (`dedup.py:171-172`) is not so of a name with a word put before it: "The Monzo" and "Monzo"
  match by `companies_match`, but fall into different buckets, so unless they share a URL their adverts are never compared.  A purge leaves
  files beyond the first 1000 (`account.py:53-55`).

## 4. Proofs

| theorem | module | statement |
|---|---|---|
| `TypeCorrect` | ApplyPipelineProofs | `Spec => []TypeOK` |
| `ConsentNeeded` | ApplyPipelineProofs | `Spec => []ReviewNeedsConsent` |
| `ApprovalsStick` | ApplyPipelineProofs | `Spec => ApprovalSticks` |
| `DbTypeCorrect` | DbQueueProofs | `DbSafety => [](DbTypeOK /\ RunLocked)` |
| `NoTwoRuns` | DbQueueProofs | `DbSafety => []MutualExclusion` |
| `DbRefinesPipeline` | DbQueueProofs | `DbSafety => Spec` |
| `DbConsentNeeded`, `DbApprovalsStick` | DbQueueProofs | `DbSafety` gives `[]ReviewNeedsConsent`, `ApprovalSticks` |
| `NoDoubleSubmission` | DbQueueProofs | `~TransientAfterClick` gives `DbSafety => []OneClickPerAsk` |
| `DbRefinesLedger` | DbQueueProofs | `~TransientAfterClick` gives `DbSafety => LedgerSpec` |
| `ArqTypeCorrect`, `ArqRefinesPipeline` | ArqQueueProofs | types; `ArqSafety => Spec` |
| `ArqConsentNeeded`, `ArqApprovalsStick` | ArqQueueProofs | `ArqSafety` gives `[]ReviewNeedsConsent`, `ApprovalSticks` |
| `WaitingIsWatched` | ArqQueueProofs | a handed, claimable row that is not `lost` has a live job or a request |
| `NoneForgotten` | ArqQueueProofs | `"applying" \notin OwnerStatus` gives `ArqSafety => []NothingForgotten` |
| `HoldsNameOpenings`, `HoldsNameFirstOpenings`, `WindowTypeCorrect` | ServiceProofs | `HoldNamesOpening`, `HoldNamesFirstOpening`, types |
| `ApprovalCannotOverride` | PolicyPacingProofs | where a blocking or pacing rule objects, `Enforced` is not "allow", approved or not |
| `PacingTypeCorrect`, `CapsHold`, `OnePerWorker` | PolicyPacingProofs | types, `CapsWithinWorkers`, `PostingWithinWorkers` |
| `SessionsTypeCorrect`, `ExchangedOnce`, `EndedForGood` | SessionsProofs | types, `OneSuccessor`, `EndedStaysEnded` |
| `SilentOnceDeleted` | SessionsProofs | `DeletedFallsSilent` |
| `ConfirmTypeCorrect`, `OneClickEach` | ServiceProofs | types, `OneClickPerApproval` |
| `KeyRingTypeCorrect`, `SpentRests` | ServiceProofs | types, `SpentKeyRests` |
| `ConnectTypeCorrect`, `WindowsAsAsked`, `UsableKept` | ServiceProofs | types, `OneWindowPerRequest`, `UsableSessionStays` |
| `AssistantTypeCorrect`, `RunOnce` | ServiceProofs | types, `ConfirmedOnce` |
| `SkillTypeCorrect`, `RetiredForCause`, `DroppedAfterRaces` | ServiceProofs | types, `RetiredWithCause`, `DroppedOnlyAfterRaces` |
| `PurgeTypeCorrect` | ServiceProofs | types |
| `PurgedIsEmpty` | ServiceProofs | `ForeignKeys` and `MaxFiles <= ListLimit` give `PurgeSafety => []LeftoversAreLate` |
| `NoticesTypeCorrect`, `MailedOnceEach` | ServiceProofs | types, `MailedOnce` |
| `InboxTypeCorrect`, `EmailMovesOnce`, `AheadOnly` | ServiceProofs | types, `MovedOnce`, `NeverBackwards` |
| `DiscoveryTypeCorrect`, `NoVacancyLost`, `PassMends` | ServiceProofs | types, `VacancyIsListed`, `LinkingMends` |
| `BoardTypeCorrect`, `NeverMergedFalsely`, `GroupsComplete` | ServiceProofs | types, `NoFalseMerge`, `GroupsAreComponents` |
| `PdfTypeCorrect`, `TailoringReported` | TailoringProofs | types, `ShippedAsReported` |
| `ScoreTypeCorrect`, `ScoreIsOfAttached` | TailoringProofs | types, `ScoreOfAttached` |
| `LibraryTypeCorrect`, `FilesMatch` | TailoringProofs | types, `FilesMatchRows` |
| `VersionsTypeCorrect`, `TailoringAloneForks` | TailoringProofs | types, `OnlyTailoringForks` |
| `ServicesTypeCorrect`, `PostingPerWorker` | MCServicesProofs | `ServicesSafety` gives `[]ServicesTypeOK`, `[]PostingWithinWorkers` |

They hold for every set of rows, workers, tabs, hosts, keys and requests and every bound.
They rest on the named assumptions of the modules: ids are distinct from the "none"
values, legacy rows respect the unique index, the owner cannot set a row to
"absent", there is no Redis in `DbQueue` and there is in `ArqQueue`, a day has a tick and
stored windows are well-formed, rows, workers, instances, tabs, portals, hosts, adverts and digest runs are
finitely many where they are counted, keys, mails, adverts and uploaded CVs are numbered (the CVs from 1 on), a pass
has a round, and limits are natural numbers.  TLC evaluates every assumption on the instances.

Four theorems have a hypothesis of their own, which is where the promise ends:

- `~TransientAfterClick` (`NoDoubleSubmission`, `DbRefinesLedger`): a browser error after the
  click is retried, and the retry clicks again (section 3).
- `"applying" \notin OwnerStatus` (`NoneForgotten`): `PUT /status` takes any status. A caller that sets
  APPLYING on a row nobody applies for leaves it without a job. The buttons of the web app send other
  statuses; only the card that attaches a CV sends back the status the page shows
  (`AppDetailPage.tsx:58-62`), which may be an old one. `WaitingIsWatched` needs no such hypothesis.
- `ForeignKeys` (`PurgedIsEmpty`): PostgreSQL. SQLite enforces none in this code, so its rows outlive the user.
- `MaxFiles <= ListLimit` (`PurgedIsEmpty`): an account has no more files than one call removes
  (1000 on the hosted storage).

*Type correctness* is inductive as it stands; the lemmas about `Commit`,
`CommitRequest`, `Gate` and `Begin` carry it once each for all the actions
built from them.

*Consent.*  `ReviewNeedsConsent` speaks of runs past the guard and of clicks; what
keeps it true is in snapshots.  `ConsentInv` says of every row in the queue, every snapshot of a run past
the guard and every request that its approval stamp or its place in the queue has a
consent behind it; consents are never withdrawn, so a stale snapshot keeps its own.

*Mutual exclusion* is not inductive: a run knows its row, not its lock.
`RunLocked` adds that a worker past `TryLock` holds the lock of its row and
that a run that is not idle belongs to a worker that is running and has the
same row.  A lock has one holder, so two runs of one row are one.

*No double submission* needs to know where clicks may still come from.
`AsksCover` keeps an ask in reserve for a row that is claimable, for a run on
its way to the browser and for a browser that has not clicked, and two when a
browser is at work while the row has been queued again.  A commit of a run may
only make a row claimable again when its own run ends before the click, and
then the reserve moves from the run to the row; `SnapStatus` (the snapshot of a
run before the browser is claimable) shows that a merge that leaves the status
alone moves nothing.  Mutual exclusion makes sure that only one browser draws
on the reserve.

*The ledger* puts the two together.  A click is the ledger's submission, because
`AsksCover` has an ask left for it and `ConsentInv` a consent or autonomous mode; a request's commit is one
of its decisions, a new row its creation; every other step leaves mode, existence and ghosts
alone (`SameRows`), which makes it a stutter.

*Approvals.*  `ApprovalSticks` is about a step, so what it needs is which approvals a commit can write.  A
run writes back the one it loaded.  A request that approves dates the approval by its command,
which is not 0 (`Dated`); the others leave `resume_state` as they read it, and `Merge` then leaves the
row's own.  Only the insert writes none, over a row that was absent and so carries none (`RowSafe`).

*Refinement of the pipeline* shows each step of a deployment to be a step of the pipeline or
a stutter, so every safety theorem about `Spec` also holds of it.

*Nothing is forgotten.*  `NothingForgotten` counts every request that holds the row, also those that
will not enqueue it, and does not say which job will do what.  `ForgottenInv` does: a claimable row has a
live job or a request *on its way to* `enqueue_job` (`Pledged`); an APPLYING row has a job that was
started before (`Started`), because `_apply` turns an APPLYING row away on a first try, and if that
job is running, its run loaded the row as APPLYING.  Every end of a run then leaves the row at
rest, leaves the job live, or is one of those that set `lost`.  A commit that the unique
index refuses ends a run with the row unchanged; it can only be one that would revive a row, because the
index held before (`PipeInv`), so the row is inactive, at rest.  `ConsentInv` is part of it because it knows that requests hold rows that exist.

*The run window.*  A hold stores what `NextOpening` computes, so the invariant is
a fact about that function at every moment: the least offset whose day is
selected and whose start is still ahead is open at its start, and within a day nothing
earlier is.

*The caps.*  `CapsWithinWorkers` is not inductive: the runs under way will be
submissions.  `ChargesOK` counts them in (`Charged`).  A run is started only when fewer than the
limit are committed (`ApprovalCannotOverride`: not even an approved row gets past), and
then at most one run per worker comes on top.

*Sessions.*  One successor: the claim of a token is its last, and a token names the one it
continues.  Ended families: a token that could still be inserted belongs to a call that
holds the row lock of an ancestor, and the ghost `ended` is only set when there is none.
Silence: tokens handed out after the deletion and calls that may still get one (`Owed`) together
never outnumber the tabs, and the deletion stops further calls from reading the user.

*Questions, windows, tokens, skills, keys.*  Each invariant keeps the missing half in the state: an
answer is in the list or with one run; a queued request that nobody claimed has an ask of its own in
reserve (`WindowKept`); while a token lives the set that is asked knows whether it
was claimed, and a key outlives its token because the time to live was computed from it (`Outlasting`), so only the first claim is in time and any later
one is overdue (`InTime`); each run of an action uses up a claim of its own (`RunsCounted`); a
score that is stored, or was read and is about to be written, lies within the feedback given (`Within`); a parked key's
time only shortens by the clock or by an answer that was under way.

*Sign-ins that work.*  A commit demotes a session only if the snapshot it goes by does not show a session
that works; a check before an apply run, which goes by its own verdict, is shown never to have such a snapshot (`ChecksExpired`).

*Purge, notices, inbox.*  Between the two deletions of an account its files are gone but for late ones (`FilesRemoved`).
A mail beyond the losses is always known to someone who is about to mark it (`MailsOf`), so once a row
is marked only the digests that had read it can mail it again.  A message that a sync holds is not recorded, and two
syncs never hold the same one (`HeldBack`); what a sync that is alone holds as the status is never behind the row's (`LooksAhead`).

*Vacancies.*  A row that is linked to another is linked to one of its vacancy that is *no younger*, and so does every link
a search is about to write (`VacancyInv`): a pass plans only links to a row none is older than, and a
commit that is inserted among the older ones, or a deletion, leaves the order of the others as it was
(`CommitPlaced`).  So the oldest row of a vacancy that can be listed has nothing to hide behind, if it is alone.
A pass whose links fit what is stored gives all rows of a vacancy one leader and the leader itself, so the leader is
listed, or, if it cannot be, hides none of those that can (`Mended`).

*Groups.*  `GroupsInv` says at every moment of a grouping that rows with one root are connected by matches, and
that a compared pair which is no longer pending has one root (`root` is a partition, so uniting never parts a pair).  At the end
nothing is pending.  That comparing only with the first row of a URL, and otherwise within buckets, is enough is the other half (`MatchSameRoot`): a shared URL leads both rows to the first that had it.
A set that noticed matches do not leave then contains every row connected to one of its own.

*Library and versions.*  A request that is to store a row holds a new file that nobody else has (`StoresKnown`), and one that is to delete a row
names a CV that had one (`DeletesKnown`); so a file and its row part only at the step of a request, or where a failure
puts the CV into `strayed` or `bereft`, which never shrink.  `VersionsInv` adds to the types that, unless edits overlapped, what its owner wrote
has a number each and an edit under way has read the highest of them (`HeadsHold`), and that what an editor read is
still there while its line is (`EditorsHold`).

*Tailoring and score.*  The file of the rounds differs from the original by what the log of
rounds says, stage by stage; a score that is not of the attached CV has a named overlap, or a
writer under way that will mend or name it.

*Types that count.*  The bounds in the type invariants are not bookkeeping; each says how much can pile up.  The
rows of `ConnectQueue` and those that a request or an attempt may still insert never outnumber the owner's
commands (`RowsCounted`).  Answers given and windows that still show a question never outnumber the questions asked
times the windows (`AnswersBounded`).  Stored versions of a skill are `1..n`, and a review that has lost `k` inserts has met `k` versions of others
(`SkillsNumbered`), which is also why guidance is dropped only after as many races as there are attempts.  A commit of a search
stores an advert that was not stored, so commits are no more than adverts and deletions.  Tailored CVs are numbered
after the uploaded ones in the order they were made (`VersionsNumbered`), so that a request names a CV that exists.

*The services together.*  `ServicesTypeOK` and `PostingWithinWorkers` are about the union of the parts.  Each step of
the union is a step of every part or leaves it alone (`ConnectRuns` and its like), so a behaviour of the union
satisfies each part's specification and every theorem about it.  For the policy, which is an instance
of `PolicyPacing` with a small table, the lemmas about its steps are taken over (`PacingInvStep`) once
the table is shown to meet their assumptions (`PacingInstance`).

Only model-checked: liveness (`LeavesApplying`, `WaitingIsTried`, `ApplyingEnds`, `HoldsClear`, `RequestSettles`,
`AttemptEnds`, `WindowLosesNothing`, `DeletedIsPurged`, `DiscoveryStores`), which needs fairness and ENABLED and is out of
the provers' reach.  Every invariant, action property and refinement that a passing run checks is a theorem.

Stated in the modules, in no run: `NoFalseMerge` (VacancyGroups) and `DroppedOnlyAfterRaces` (SkillLibrary), which are
theorems; `LeftoverExpires` (Confirmation) and `KeyComesBack` (KeyRing), which TLC confirms on the instances above; and
the four violated ones named in section 3.

## 5. Coverage

`map` in `PROJECT.json` names the lines each definition stands for.  It covers about an eighth of the
implementation.  What remains is named in the next section: nearly all of it is text (prompts,
validators, heuristics), geometry of pages, adapters of job boards, request schemas, and the
React application.

## 6. Not modelled, and why

- *Prompts and standing instructions* (`core/llm/prompts`): text for a language model; no state.
- *ATS scoring, fit analysis, validation of edits, reflow and rendering of pages* (`core/ats`, `core/resume_tailoring/validate.py`,
  `pdf_reflow.py` ...): pure functions of texts and glyph positions.  A reference definition would be
  the same text again; where their outcome steers a protocol (`PdfTailoring`, `ApplicationScore`, the gate) it is a choice.
- *Job sources, document parsing, email and calendar clients*: input and output with external services; their
  failures are choices in `Discovery`, `InboxSync`, `Notices`.
- *The browser agent*: external; its outcomes, as `_apply` tells them apart, are the model's.
- *Rate limiter, database retries*: a counter per window; a retried statement.
- *Progress events, websocket*: best effort by design; nothing depends on their delivery (the prompt of
  `Confirmation`, which may get lost, is the exception and is modelled).
- *Profile extraction, cover letters, notes, evidence, deletion of an application, administration*: single reads and
  writes of one row by its owner.
- *Frontend*: renders what the API returns; that tabs share one cookie and keep the last prompt is
  part of `Sessions` and `Confirmation`.
