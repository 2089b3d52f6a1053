----------------------------- MODULE MCServices -----------------------------
(* Small instances of the parts of the backend that share no state with    *)
(* each other.  A behaviour picks one of them and lets it run alone: the   *)
(* states are the union of theirs, not the product.                        *)
EXTENDS ConnectQueue, Confirmation, RunWindow, Sessions, AssistantTokens, InboxSync,
        SkillLibrary, Purge, Discovery, VacancyGroups, Notices, KeyRing,
        ResumeVersions, ResumeLibrary, ApplicationScore, PdfTailoring, TLC

CONSTANTS
    Component,                              \* the parts a run looks at
    b1, u1, u2, a1, a2, a3, w1, w2, NoApp   \* model values

VARIABLES
    component,                              \* the part that runs; fixed
    status, approved, age, newer, work, acts, paced     \* of PolicyPacing

pacingVars == <<status, approved, age, newer, work, acts, paced>>

-----------------------------------------------------------------------------
(* Small data for the components.                                          *)
OneBrowser == [t \in Tab |-> b1]

TwoMails   == 1..2
ToOneBox   == [m \in TwoMails |-> u1]
InviteThenRejection == <<"interview_invite", "rejection">>

ThirdLikeBoth == {<<1, 3>>, <<2, 3>>}
FirstTwoAlike == {<<1, 2>>}

TwoKeys    == <<"k1", "k2">>

SomeWindows ==
    {[days |-> {0, 1, 4}, start |-> 2, end |-> 4],    \* some weekdays
     [days |-> {}, start |-> 4, end |-> 5],           \* every day, one tick
     [days |-> {2}, start |-> 1, end |-> 2],          \* one tick a week
     [days |-> {6}, start |-> Garbled, end |-> 2],    \* from 00:00
     [days |-> {3, Unknown}, start |-> 3, end |-> Garbled],
     [days |-> {0}, start |-> 3, end |-> 3],          \* never open
     [days |-> {Unknown}, start |-> 1, end |-> 3],    \* never open
     [days |-> {0}, start |-> 4, end |-> 2],          \* overnight, from here on
     [days |-> {0, 1, 2, 3, 4}, start |-> 5, end |-> 1],
     [days |-> {}, start |-> 5, end |-> 0]}

\* Advertised on two portals and by the employer: one role in several spellings.
Ad(src, sid, apply, advert, brand, name, level, role, place) ==
    [src |-> src, sid |-> sid, apply |-> apply, advert |-> advert, brand |-> brand,
     name |-> name, level |-> level, role |-> role, place |-> place]

ProductManager == {"product", "manager"}
SomeAdverts ==
    {Ad("reed", "1", "none", "url1", "monzo", {"monzo"}, "senior", ProductManager, {"london"}),
     Ad("reed", "2", "form", "none", "monzo", {"monzo", "bank"}, "senior", ProductManager, {}),
     Ad("own", "1", "form", "none", "monzo", {"monzo"}, "senior",
        ProductManager \cup {"london"}, {"london"}),
     Ad("own", "2", "none", "url2", "monzo", {"monzo"}, "senior",
        ProductManager \cup {"marketing"}, {"london"}),
     Ad("exa", "1", "none", "url1", "monzo", {"monzo", "bank"}, "staff", ProductManager, {"leeds"}),
     Ad("exa", "2", "none", "none", "monzo", {"monzo", "bank", "uk"}, "senior",
        ProductManager, {"leeds"}),
     Ad("tim", "1", "none", "none", "the", {"the", "monzo"}, "senior", ProductManager, {}),
     Ad("wtj", "1", "none", "url2", "ocado", {"ocado"}, "senior", ProductManager, {"london"})}

\* Two workers, three rows for one posting, a policy that holds nothing back.
Posting == [ats |-> 3, salary |-> 9, other_seniority |-> FALSE,
            employer_blocked |-> FALSE, not_sponsor |-> FALSE]
Lenient == [max_per_day |-> 0, max_per_hour |-> 0, min_between |-> 0, max_per_company |-> 0,
            cooldown |-> 0, paused |-> FALSE, review_above |-> 0, review_first_run |-> FALSE,
            min_ats |-> 2, min_salary |-> 0, exclude_no_sponsorship |-> FALSE,
            pause_on_captcha |-> TRUE, breaker |-> 0]

ThreeRows == {a1, a2, a3}

Pacing == INSTANCE PolicyPacingProofs WITH
    App <- ThreeRows, Worker <- {w1, w2}, Policy <- Lenient,
    Facts <- [a \in ThreeRows |-> Posting],
    PostingOf <- [a \in ThreeRows |-> a1],
    CompanyOf <- [a \in ThreeRows |-> "company"],
    SimilarTo <- [a \in ThreeRows |-> {}],
    PortalOf <- [a \in ThreeRows |-> "portal"],
    HourLength <- 1, DayLength <- 1, WeekLength <- 1, Old <- 2, HistoryLimit <- 25,
    OwnerStatus <- {"interview", "queued"}, MaxCommands <- 1,
    ApprovedBefore <- {}
-----------------------------------------------------------------------------
AnyPart == {"connect", "confirm", "window", "sessions", "assistant", "inbox", "skills", "purge",
         "discovery", "groups", "notices", "keyring", "versions", "library", "score", "pdf",
         "pacing"}

ASSUME ServicesAssumption == Component \subseteq AnyPart /\ NoApp \notin ThreeRows

\* A part that does not run waits in one of its initial states.
Idle(name, choice) == component = name \/ choice

ServicesInit ==
    /\ component \in Component
    /\ ConnectInit
    /\ Idle("connect", queued)
    /\ ConfirmInit
    /\ Init
    /\ Idle("window", (window = CHOOSE w \in Windows : TRUE) /\ clock = [day |-> 0, tick |-> 0])
    /\ SessionsInit
    /\ AssistantInit
    /\ Idle("assistant", redisUp /\ serving = Instance)
    /\ InboxInit
    /\ SkillInit
    /\ PurgeInit
    /\ Idle("purge", files = [u \in Owner |-> 0])
    /\ DiscoveryInit
    /\ BoardInit
    /\ NoticesInit
    /\ KeyRingInit
    /\ ResumeInit
    /\ LibraryInit
    /\ ScoreInit
    /\ Idle("score", row = [status |-> "queued", resume |-> NoCv, score |-> NoCv])
    /\ PdfInit
    /\ Idle("pdf", pass.before = 0)
    /\ Pacing!Init

Rest(name) ==
    /\ IF name = "connect" THEN TRUE ELSE UNCHANGED connectVars
    /\ IF name = "confirm" THEN TRUE ELSE UNCHANGED confirmVars
    /\ IF name = "window" THEN TRUE ELSE UNCHANGED vars
    /\ IF name = "sessions" THEN TRUE ELSE UNCHANGED sessionVars
    /\ IF name = "assistant" THEN TRUE ELSE UNCHANGED assistantVars
    /\ IF name = "inbox" THEN TRUE ELSE UNCHANGED inboxVars
    /\ IF name = "skills" THEN TRUE ELSE UNCHANGED skillVars
    /\ IF name = "purge" THEN TRUE ELSE UNCHANGED purgeVars
    /\ IF name = "discovery" THEN TRUE ELSE UNCHANGED discoveryVars
    /\ IF name = "groups" THEN TRUE ELSE UNCHANGED boardVars
    /\ IF name = "notices" THEN TRUE ELSE UNCHANGED noticesVars
    /\ IF name = "keyring" THEN TRUE ELSE UNCHANGED keyRingVars
    /\ IF name = "versions" THEN TRUE ELSE UNCHANGED resumeVars
    /\ IF name = "library" THEN TRUE ELSE UNCHANGED libraryVars
    /\ IF name = "score" THEN TRUE ELSE UNCHANGED scoreVars
    /\ IF name = "pdf" THEN TRUE ELSE UNCHANGED pdfVars
    /\ IF name = "pacing" THEN TRUE ELSE UNCHANGED pacingVars

\* Bound: a failure that parts file and row, or runs that send CVs, not both in
\* one behaviour.  Runs read files and write neither files nor rows of CVs.
OneTrouble ==
    \/ strayed' = {} /\ bereft' = {}
    \/ \A a \in Application : sending'[a].at = "none" /\ sentWith'[a] = 0

Runs(name, A) == component = name /\ A /\ UNCHANGED component

ServicesNext ==
    \/ Runs("connect", ConnectNext) /\ Rest("connect")
    \/ Runs("confirm", ConfirmNext) /\ Rest("confirm")
    \/ Runs("window", Next) /\ Rest("window")
    \/ Runs("sessions", SessionsNext) /\ Rest("sessions")
    \/ Runs("assistant", AssistantNext) /\ Rest("assistant")
    \/ Runs("inbox", InboxNext) /\ Rest("inbox")
    \/ Runs("skills", SkillNext) /\ Rest("skills")
    \/ Runs("purge", PurgeNext) /\ Rest("purge")
    \/ Runs("discovery", DiscoveryNext) /\ Rest("discovery")
    \/ Runs("groups", BoardNext) /\ Rest("groups")
    \/ Runs("notices", NoticesNext) /\ Rest("notices")
    \/ Runs("keyring", KeyRingNext) /\ Rest("keyring")
    \/ Runs("versions", ResumeNext) /\ Rest("versions")
    \/ Runs("library", LibraryNext /\ OneTrouble) /\ Rest("library")
    \/ Runs("score", ScoreNext) /\ Rest("score")
    \/ Runs("pdf", PdfNext) /\ Rest("pdf")
    \/ Runs("pacing", Pacing!Next) /\ Rest("pacing")

servicesVars ==
    <<component, connectVars, confirmVars, vars, sessionVars, assistantVars, inboxVars,
      skillVars, purgeVars, discoveryVars, boardVars, noticesVars, keyRingVars, resumeVars,
      libraryVars, scoreVars, pdfVars, pacingVars>>

ServicesSafety == ServicesInit /\ [][ServicesNext]_servicesVars

\* The fairness of each part, for the part that runs.
ServicesFairness ==
    /\ WF_connectVars(Runs("connect", ClockTick))
    /\ \A t \in WebTab : WF_connectVars(Runs("connect", Commit(t)))
    /\ \A h \in Host : WF_connectVars(Runs("connect", Drive(h)))
    /\ \A p \in Portal :
         SF_connectVars(Runs("connect", \E t \in WebTab : ExpireIfStranded(t, p)))
    /\ WF_confirmVars(Runs("confirm", FiveMinutes))
    /\ WF_confirmVars(Runs("confirm", ExpireAnswers))
    /\ WF_confirmVars(Runs("confirm", RunProceeds))
    /\ WF_vars(Runs("window", Release)) /\ WF_vars(Runs("window", HoldBack))
    /\ WF_vars(Runs("window", Submit)) /\ WF_vars(Runs("window", Pass))
    /\ WF_purgeVars(Runs("purge", StartPurge)) /\ WF_purgeVars(Runs("purge", NextDay))
    /\ WF_purgeVars(Runs("purge", EndPurge))
    /\ \A u \in Owner : /\ SF_purgeVars(Runs("purge", DeleteFiles(u)))
                        /\ SF_purgeVars(Runs("purge", DeleteRows /\ purge.user = u))
    /\ SF_discoveryVars(Runs("discovery", \E s \in Searcher : FetchSome(s, Listing)))
    /\ \A s \in Searcher :
         /\ WF_discoveryVars(Runs("discovery", StartSearch(s)))
         /\ WF_discoveryVars(Runs("discovery", \/ StoreResults(s) \/ LoseResults(s)
                                               \/ PlanLinks(s) \/ WriteLinks(s)))
    /\ WF_keyRingVars(Runs("keyring", RingTick))
    /\ \A c \in Call : /\ WF_keyRingVars(Runs("keyring", Respond(c)))
                       /\ WF_keyRingVars(Runs("keyring", Resume(c)))

ServicesSpec == ServicesSafety /\ ServicesFairness
-----------------------------------------------------------------------------
\* The part that runs stays well-formed, whatever interleaves in it.
ServicesTypeOK ==
    CASE component = "connect"   -> ConnectTypeOK
      [] component = "confirm"   -> ConfirmTypeOK
      [] component = "window"    -> TypeOK
      [] component = "sessions"  -> SessionsTypeOK
      [] component = "assistant" -> AssistantTypeOK
      [] component = "inbox"     -> InboxTypeOK
      [] component = "skills"    -> SkillTypeOK
      [] component = "purge"     -> PurgeTypeOK
      [] component = "discovery" -> DiscoveryTypeOK
      [] component = "groups"    -> BoardTypeOK
      [] component = "notices"   -> NoticesTypeOK
      [] component = "keyring"   -> KeyRingTypeOK
      [] component = "versions"  -> ResumeTypeOK
      [] component = "library"   -> LibraryTypeOK
      [] component = "score"     -> ScoreTypeOK
      [] component = "pdf"       -> PdfTypeOK
      [] component = "pacing"    -> Pacing!TypeOK

\* One posting is submitted at most once for each worker, of PolicyPacing: two
\* workers may gate rows of it at the same time, and the gate of a third counts
\* what became of theirs, whatever the owner made of them since.
PostingWithinWorkers == Pacing!PostingWithinWorkers

\* A queued application goes out if its window ever opens, of RunWindow.
WindowLosesNothing == component = "window" => NothingIsLost

\* Every advert the sources keep carrying is stored in the end, of Discovery.
DiscoveryStores == component = "discovery" => EveryListingIsStored
=============================================================================
