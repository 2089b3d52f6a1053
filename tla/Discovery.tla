----------------------------- MODULE Discovery -----------------------------
(* Job searches of one user (services/job_search.py) and the scheduler     *)
(* that repeats them (services/discovery_scheduler.py).                    *)
(*                                                                         *)
(* A search reads what is stored, asks the sources, stores what is new in  *)
(* one commit, and then links the rows that describe one vacancy to the    *)
(* oldest of them.  Searches overlap: the owner's and the scheduler's.     *)
EXTENDS Naturals, Sequences, FiniteSets

CONSTANTS
    Searcher,       \* searches that may run at a time
    Listing,        \* adverts the sources carry, by (platform, id)
    Alike,          \* pairs of adverts same_job accepts
    Listable,       \* adverts whose location is verified (uk_eligible)
    MaxDeletes      \* bound on jobs the owner deletes

ASSUME DiscoveryAssumption ==
    /\ Listing \subseteq Nat /\ IsFiniteSet(Listing)
    /\ Alike \subseteq Listing \X Listing /\ Listable \subseteq Listing
    /\ MaxDeletes \in Nat

VARIABLES
    born,           \* the commit that stored an advert's row, 0 if none did
    byAge,          \* the commits in the order of their created_at
    canonical,      \* canonical_job_id: a row, NoVacancyRow if none
    search,         \* what a search in progress knows
    commits,        \* number of commits that stored jobs
    deletes

discoveryVars == <<born, byAge, canonical, search, commits, deletes>>

StoredJobs   == {l \in Listing : born[l] > 0}
Row(l)       == <<l, born[l]>>       \* an advert stored again gets another id
NoVacancyRow == <<0, 0>>
StoredRows   == {Row(l) : l \in StoredJobs}
NoSearch     == [at |-> "idle", known |-> {}, found |-> {}, link |-> {}]
SearchAt(s, at) == search[s].at = at
SearchTo(s, f)  == search' = [search EXCEPT ![s] = f]

DiscoveryInit ==
    /\ born = [l \in Listing |-> 0]
    /\ byAge = <<>>
    /\ canonical = [l \in Listing |-> NoVacancyRow]
    /\ search = [s \in Searcher |-> NoSearch]
    /\ commits = 0
    /\ deletes = 0
-----------------------------------------------------------------------------
(* group: the rows a chain of alike pairs of stored rows connects, that is *)
(* the smallest set with the row and all neighbours of its members.        *)
Neighbours(S, rows) == {m \in rows : \E l \in S : <<l, m>> \in Alike \/ <<m, l>> \in Alike}

Vacancy(l, rows) ==
    {m \in rows : \A S \in SUBSET rows :
                   l \in S /\ Neighbours(S, rows) \subseteq S => m \in S}

Vacancies == {Vacancy(l, StoredJobs) : l \in StoredJobs}

Age(l)    == CHOOSE i \in DOMAIN byAge : byAge[i] = born[l]
Oldest(S) == {l \in S : \A m \in S : Age(l) <= Age(m)}

\* min(cluster) of the rows ordered by created_at.  Rows of one commit share
\* it, and a pass gets them in any order: a leader for every group.
Leaderships ==
    {leaders \in SUBSET UNION {Oldest(S) : S \in Vacancies} :
       \A S \in Vacancies : \E l \in S : S \cap leaders = {l}}

\* Mutant: the leader itself is not stamped.
LinksOfOthers(leaders) ==
    {<<Row(p[1]), Row(p[2])>> :
       p \in {q \in StoredJobs \X leaders : /\ q[2] \in Vacancy(q[1], StoredJobs) \ {q[1]}
                                           /\ canonical[q[1]] # Row(q[2])}}

\* The rows whose link differs from their leader, with the new link.
LinksTo(leaders) ==
    {<<Row(p[1]), Row(p[2])>> :
       p \in {q \in StoredJobs \X leaders : /\ q[2] \in Vacancy(q[1], StoredJobs)
                                           /\ canonical[q[1]] # Row(q[2])}}
-----------------------------------------------------------------------------
\* The owner searches, or the scheduler's cycle reaches the next query.
StartSearch(s) ==
    /\ SearchAt(s, "idle")
    /\ SearchTo(s, [NoSearch EXCEPT !.at = "fetching", !.known = StoredRows])
    /\ UNCHANGED <<born, byAge, canonical, commits, deletes>>

\* A source that fails or misses the deadline contributes nothing.
FetchSome(s, found) ==
    /\ SearchAt(s, "fetching") /\ found # {}
    /\ SearchTo(s, [search[s] EXCEPT !.at = "storing", !.found = found])
    /\ UNCHANGED <<born, byAge, canonical, commits, deletes>>

FetchNothing(s) ==
    /\ SearchAt(s, "fetching")
    /\ SearchTo(s, NoSearch)
    /\ UNCHANGED <<born, byAge, canonical, commits, deletes>>

\* Mutant: every result is inserted.
NewToUser(s) == search[s].found

\* _register folds a result onto the row read before the fetch.
NewResults(s) == {l \in search[s].found : \A k \in search[s].known : k[1] # l}

\* Mutant: no unique constraint.
StorableAlways(s) == search[s].found # {}

\* The commit holds when no new row exists by now (uq_job_platform_id) and no
\* refreshed row (last_seen_at) was deleted meanwhile.
Storable(s) ==
    /\ NewResults(s) \cap StoredJobs = {}
    /\ {k \in search[s].known : k[1] \in search[s].found} \subseteq StoredRows

\* created_at is when the transaction began (server default now()), and that
\* may be before commits of other searches.
StoreResults(s) ==
    /\ SearchAt(s, "storing") /\ Storable(s)
    /\ IF NewResults(s) = {} THEN UNCHANGED <<born, byAge, commits>>
       ELSE /\ commits' = commits + 1
            /\ born' = [l \in Listing |-> IF l \in NewResults(s) THEN commits' ELSE born[l]]
            /\ \E i \in 1..Len(byAge) + 1 :
                 byAge' = SubSeq(byAge, 1, i - 1) \o <<commits'>> \o SubSeq(byAge, i, Len(byAge))
    /\ SearchTo(s, [NoSearch EXCEPT !.at = "linking"])
    /\ UNCHANGED <<canonical, deletes>>

\* Otherwise everything found is dropped, and nothing is linked.
LoseResults(s) ==
    /\ SearchAt(s, "storing") /\ ~Storable(s)
    /\ SearchTo(s, NoSearch)
    /\ UNCHANGED <<born, byAge, canonical, commits, deletes>>

\* assign_canonical_ids reads the rows and computes the links.
PlanLinks(s) ==
    /\ SearchAt(s, "linking")
    /\ \E leaders \in Leaderships :
         SearchTo(s, IF LinksTo(leaders) = {} THEN NoSearch
                     ELSE [NoSearch EXCEPT !.at = "writing", !.link = LinksTo(leaders)])
    /\ UNCHANGED <<born, byAge, canonical, commits, deletes>>

\* One commit; it fails, and is only logged, when a row of it is gone.
WriteLinks(s) ==
    /\ SearchAt(s, "writing")
    /\ LET link    == search[s].link
           written == {p[1] : p \in link}
       IN  canonical' = [l \in Listing |->
                           IF written \subseteq StoredRows /\ Row(l) \in written
                           THEN (CHOOSE p \in link : p[1] = Row(l))[2]
                           ELSE canonical[l]]
    /\ SearchTo(s, NoSearch)
    /\ UNCHANGED <<born, byAge, commits, deletes>>

\* delete_job: links to the row are left as they are.
DeleteJob(l) ==
    /\ l \in StoredJobs /\ deletes < MaxDeletes
    /\ born' = [born EXCEPT ![l] = 0]
    /\ canonical' = [canonical EXCEPT ![l] = NoVacancyRow]
    /\ deletes' = deletes + 1
    /\ UNCHANGED <<byAge, search, commits>>

DiscoveryNext ==
    \/ \E s \in Searcher : \/ StartSearch(s) \/ FetchNothing(s) \/ StoreResults(s)
                           \/ LoseResults(s) \/ PlanLinks(s) \/ WriteLinks(s)
                           \/ \E found \in SUBSET Listing : FetchSome(s, found)
    \/ \E l \in Listing : DeleteJob(l)

\* The cycle is repeated for ever, and now and then every source answers.
DiscoveryFairness ==
    /\ SF_discoveryVars(\E s \in Searcher : FetchSome(s, Listing))
    /\ \A s \in Searcher :
         /\ WF_discoveryVars(StartSearch(s))
         /\ WF_discoveryVars(StoreResults(s) \/ LoseResults(s) \/ PlanLinks(s) \/ WriteLinks(s))

DiscoverySafety == DiscoveryInit /\ [][DiscoveryNext]_discoveryVars
DiscoverySpec   == DiscoverySafety /\ DiscoveryFairness
-----------------------------------------------------------------------------
DiscoveryTypeOK ==
    /\ born \in [Listing -> 0..commits]
    /\ Len(byAge) = commits /\ {byAge[i] : i \in 1..commits} = 1..commits
    /\ \A l \in Listing : /\ canonical[l][1] \in Listing \cup {0}
                           /\ canonical[l][2] \in 0..commits
                           /\ canonical[l] # NoVacancyRow => l \in StoredJobs
    /\ commits <= Cardinality(Listing) + deletes
    /\ \A s \in Searcher : /\ search[s].found \subseteq Listing
                           /\ \A p \in search[s].link : p[1][2] \in 1..commits

\* Mutant: a duplicate is hidden behind a row the list does not show either.
BehindAnyRow(l) == canonical[l] \in StoredRows \ {Row(l)}

\* _not_a_listed_duplicate: hidden behind another row that can be listed.
HiddenDuplicate(l) ==
    canonical[l] \in StoredRows \ {Row(l)} /\ canonical[l][1] \in Listable

Listed(l) == l \in StoredJobs \cap Listable /\ ~HiddenDuplicate(l)

\* "so a vacancy is never lost" (job_search.py:618-622): however passes overlap
\* and commits fail, a vacancy with a stored advert that can be listed is
\* listed.  Two passes that break a tie of the oldest adverts differently can
\* link them to each other; this is of the vacancies whose oldest is alone.
ListableOf(l) == StoredJobs \cap Listable \cap Vacancy(l, Listing)

VacancyIsListed ==
    \A l \in StoredJobs \cap Listable :
      (\E first \in ListableOf(l) : Oldest(ListableOf(l)) = {first}) =>
        \E m \in Vacancy(l, Listing) : Listed(m)

\* Of all vacancies: a pass whose links fit what is stored when it writes
\* them, or that finds nothing to write, leaves every vacancy listed, whatever
\* overlapping passes and commits before it left.
AllListed == \A l \in StoredJobs \cap Listable : \E m \in Vacancy(l, StoredJobs) : Listed(m)

Undisturbed(s) ==
    \/ PlanLinks(s) /\ search'[s] = NoSearch
    \/ WriteLinks(s) /\ \E leaders \in Leaderships : search[s].link = LinksTo(leaders)

LinkingMends == [][\A s \in Searcher : Undisturbed(s) => AllListed']_discoveryVars

\* Although a search that collides with another loses all it found, every
\* advert the sources keep carrying is stored in the end, and again after the
\* owner deleted it.
EveryListingIsStored == \A l \in Listing : []<>(l \in StoredJobs)
=============================================================================
