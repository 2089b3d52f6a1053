--------------------------- MODULE VacancyGroups ---------------------------
(* Which listings describe one vacancy (core/job_discovery/dedup.py).      *)
(*                                                                         *)
(* A listing is a record: src and sid (the board and its id), apply and    *)
(* advert (normalised URLs, "none" if blank), brand and name (the first    *)
(* and all words of the employer), level and role (of the title), place    *)
(* (words of the location).  The board of listings grows one at a time.    *)
EXTENDS Integers, Sequences, FiniteSets

CONSTANTS
    Advert,         \* the listings that may turn up
    MaxBoard        \* bound on the listings grouped

VARIABLES
    board,          \* the rows in the order of their discovery
    root,           \* what find returns for each row; <<>> before a grouping
    pairs           \* pairs of rows the grouping has yet to unite

boardVars == <<board, root, pairs>>

Rows == DOMAIN board
-----------------------------------------------------------------------------
CompaniesMatch(a, b) ==
    a.name # {} /\ b.name # {} /\ (a.name \subseteq b.name \/ b.name \subseteq a.name)

\* Jaccard overlap of the role words, place names removed, at least 0.7.
TitlesMatch(a, b) ==
    LET left  == a.role \ (a.place \cup b.place)
        right == b.role \ (a.place \cup b.place)
    IN  /\ left # {} /\ right # {} /\ a.level = b.level
        /\ 10 * Cardinality(left \cap right) >= 7 * Cardinality(left \cup right)

LocationsCompatible(a, b) == a.place = {} \/ b.place = {} \/ a.place \cap b.place # {}

SameUrl(field, a, b) == a[field] # "none" /\ a[field] = b[field]

SameJob(a, b) ==
    \/ SameUrl("apply", a, b)
    \/ a.src = b.src /\ a.sid = b.sid
    \/ SameUrl("advert", a, b)
    \/ /\ a.src # b.src
       /\ CompaniesMatch(a, b) /\ TitlesMatch(a, b) /\ LocationsCompatible(a, b)
-----------------------------------------------------------------------------
\* The table of a URL holds the first row that had it, of any employer.
FirstWith(field, i, j) ==
    /\ SameUrl(field, board[i], board[j])
    /\ \A h \in 1..i - 1 : ~SameUrl(field, board[h], board[j])

UrlPairs == {p \in Rows \X Rows :
               p[1] < p[2] /\ (FirstWith("apply", p[1], p[2]) \/ FirstWith("advert", p[1], p[2]))}

\* The pairs of rows of one bucket, by company_bucket, that match: a match
\* across two buckets ("monzo", "the monzo") is not looked for.
MatchPairs == {p \in Rows \X Rows : /\ p[1] < p[2] /\ board[p[1]].brand = board[p[2]].brand
                                    /\ SameJob(board[p[1]], board[p[2]])}

\* Mutant: the node is linked, not its root.
LinkNode(i, j) == [root EXCEPT ![j] = root[i]]

\* The greater of the two roots is hung below the smaller.
Unite(i, j) ==
    LET least == IF root[i] < root[j] THEN root[i] ELSE root[j]
    IN  [k \in Rows |-> IF root[k] \in {root[i], root[j]} THEN least ELSE root[k]]

Groups == {{j \in Rows : root[j] = root[i]} : i \in Rows}
-----------------------------------------------------------------------------
BoardInit == board = <<>> /\ root = <<>> /\ pairs = {}

\* A grouping reads the rows once and does not pause; a later one starts anew.
Discover(a) ==
    /\ pairs = {} /\ Len(board) < MaxBoard
    /\ \A i \in Rows : <<board[i].src, board[i].sid>> # <<a.src, a.sid>>
    /\ board' = Append(board, a)
    /\ root' = <<>>
    /\ UNCHANGED pairs

StartGroups ==
    /\ board # <<>> /\ root = <<>>
    /\ root' = [i \in Rows |-> i]
    /\ pairs' = UrlPairs \cup MatchPairs
    /\ UNCHANGED board

\* The code takes the pairs in one order; the groups depend on none.
UnitePair(p) ==
    /\ root' = Unite(p[1], p[2])
    /\ pairs' = pairs \ {p}
    /\ UNCHANGED board

BoardNext ==
    \/ \E a \in Advert : Discover(a)
    \/ StartGroups
    \/ \E p \in pairs : UnitePair(p)

BoardSpec == BoardInit /\ [][BoardNext]_boardVars
-----------------------------------------------------------------------------
BoardTypeOK ==
    /\ \A i \in Rows : board[i] \in Advert
    /\ root \in {<<>>} \cup [Rows -> Rows]
    /\ pairs \subseteq Rows \X Rows
    /\ root = <<>> => pairs = {}

Grouped == board # <<>> /\ root # <<>> /\ pairs = {}

\* What the grouping can notice of two listings: one URL, whoever advertises
\* it, or a match within one bucket.
Noticed(a, b) ==
    \/ SameUrl("apply", a, b) \/ SameUrl("advert", a, b)
    \/ a.brand = b.brand /\ SameJob(a, b)

\* The rows a chain of noticed matches leads to: the smallest set with the row
\* that none of them leaves.
MatchClosed(S) ==
    \A i \in S, j \in Rows : Noticed(board[i], board[j]) \/ Noticed(board[j], board[i]) => j \in S

Connected(i) == {j \in Rows : \A S \in SUBSET Rows : i \in S /\ MatchClosed(S) => j \in S}

\* "A false merge hides a real job the operator will never see" (dedup.py:21-23):
\* at no moment of a grouping are rows together that no chain of matches connects.
NoFalseMerge ==
    root # <<>> => \A i, j \in Rows : root[i] = root[j] => j \in Connected(i)

\* What group is for (dedup.py:1-25): listings are together exactly when a
\* chain of noticed matches connects them, whatever order they came in and the
\* pairs are united in.
GroupsAreComponents == Grouped => Groups = {Connected(i) : i \in Rows}
=============================================================================
