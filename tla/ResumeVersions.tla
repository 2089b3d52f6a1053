--------------------------- MODULE ResumeVersions ---------------------------
(* The versions of a structured resume (services/resume_intelligence.py    *)
(* and services/resume_tailoring.py).                                      *)
(*                                                                         *)
(* The master resume and every role branch are lineages of numbered        *)
(* versions.  Edits and restores build on the head they read; a tailoring  *)
(* analysis names the head of its branch, and the version committed from   *)
(* it, once or several times, hours later, builds on that one.  A request  *)
(* reads and commits in two steps.                                         *)
EXTENDS Naturals, FiniteSets

CONSTANTS
    Branch,         \* role branches an owner may create
    Analysis,       \* job_resume_analyses an owner may ask for
    Editor,         \* requests served at a time
    MaxResumes      \* bound on the versions stored

Master  == "MAIN"

ASSUME VersionsAssumption == MaxResumes \in Nat /\ Master \notin Branch

Lineage == Branch \cup {Master}
Ids     == 1..MaxResumes

VARIABLES
    versions,       \* resume_versions: id -> row
    lastId,         \* ids given out so far
    branches,       \* resume_branches: "none", "live" or "deleted"
    analyses,       \* job_resume_analyses with the change each proposes
    editors,        \* the requests
    overlapped      \* lineages on which two edits or restores overlapped

resumeVars == <<versions, lastId, branches, analyses, editors, overlapped>>

NoRequest  == [op |-> "none"]
NoAnalysis == [state |-> "none"]
Answered(e) == editors' = [editors EXCEPT ![e] = NoRequest]
To(e, req) == editors' = [editors EXCEPT ![e] = req]

VersionsOf(l) == {v \in DOMAIN versions : versions[v].line = l}

\* latest_version: ORDER BY sequence DESC LIMIT 1, so any of those that tie.
Heads(l) == {v \in VersionsOf(l) : \A w \in VersionsOf(l) : versions[w].sequence <= versions[v].sequence}

LineExists(l) == l \in {Master} \cup {b \in Branch : branches[b] = "live"}

\* create_version, with the commit of its caller.
Stored(l, parent, source) ==
    LET seq == IF parent = 0 THEN 1 ELSE versions[parent].sequence + 1
    IN  [v \in DOMAIN versions \cup {lastId + 1} |->
           IF v \in DOMAIN versions THEN versions[v]
           ELSE [line |-> l, sequence |-> seq, parent |-> parent, source |-> source]]

CreateVersion(l, parent, source) ==
    /\ lastId < MaxResumes
    /\ versions' = Stored(l, parent, source)
    /\ lastId' = lastId + 1

Overlap(e, l) ==
    overlapped' = IF \E f \in Editor \ {e} : /\ editors[f].op \in {"boot", "edit", "restore"}
                                        /\ editors[f].line = l
             THEN overlapped \cup {l} ELSE overlapped

ResumeInit ==
    /\ versions = << >>
    /\ lastId = 0
    /\ branches = [b \in Branch |-> "none"]
    /\ analyses = [a \in Analysis |-> NoAnalysis]
    /\ editors = [e \in Editor |-> NoRequest]
    /\ overlapped = {}
-----------------------------------------------------------------------------
\* get_or_create_master, at the start of an edit and of a new branch.
ReadMaster(e, next) ==
    /\ editors[e].op = "none"
    /\ \/ /\ Heads(Master) = {}
          /\ To(e, [op |-> "boot", line |-> Master, next |-> next])
       \/ \E h \in Heads(Master) : To(e, [next EXCEPT !.parent = h])
    /\ UNCHANGED <<versions, lastId, branches, analyses, overlapped>>

BeginEdit(e) == ReadMaster(e, [op |-> "edit", line |-> Master, parent |-> 0])

BeginBranch(e, b) ==
    /\ branches[b] = "none"
    /\ \A f \in Editor : editors[f].op # "none" =>
         editors[f].line # b /\ (editors[f].op = "boot" => editors[f].next.line # b)
    /\ ReadMaster(e, [op |-> "branch", line |-> b, parent |-> 0])

\* The first master version is committed on its own, then the request goes on.
Bootstrap(e) ==
    /\ editors[e].op = "boot"
    /\ CreateVersion(Master, 0, "initial")
    /\ To(e, [editors[e].next EXCEPT !.parent = lastId + 1])
    /\ Overlap(e, Master)
    /\ UNCHANGED <<branches, analyses>>

CommitEdit(e) ==
    /\ editors[e].op = "edit"
    /\ CreateVersion(Master, editors[e].parent, "user_edit")
    /\ Overlap(e, Master)
    /\ Answered(e)
    /\ UNCHANGED <<branches, analyses>>

\* The branch starts a lineage of its own with a copy of the master.
CommitBranch(e) ==
    /\ editors[e].op = "branch"
    /\ CreateVersion(editors[e].line, 0, "initial")
    /\ branches' = [branches EXCEPT ![editors[e].line] = "live"]
    /\ Answered(e)
    /\ UNCHANGED <<analyses, overlapped>>

\* A cascade removes its versions and analyses.
DeleteBranch(b) ==
    /\ branches[b] = "live"
    /\ branches' = [branches EXCEPT ![b] = "deleted"]
    /\ versions' = [v \in DOMAIN versions \ VersionsOf(b) |-> versions[v]]
    /\ analyses' = [a \in Analysis |-> IF analyses[a].state = "made" /\ analyses[a].line = b
                                       THEN [state |-> "deleted"] ELSE analyses[a]]
    /\ UNCHANGED <<lastId, editors, overlapped>>
-----------------------------------------------------------------------------
\* Mutant: the restored version becomes the parent.
FromTarget(v) == {v}

\* restore_version builds on the head, whatever version it copies.
RestoredOnto(v) == Heads(versions[v].line)

BeginRestore(e, v) ==
    /\ editors[e].op = "none"
    /\ \E h \in RestoredOnto(v) : To(e, [op |-> "restore", line |-> versions[v].line, parent |-> h])
    /\ UNCHANGED <<versions, lastId, branches, analyses, overlapped>>

CommitRestore(e) ==
    /\ editors[e].op = "restore" /\ LineExists(editors[e].line)
    /\ CreateVersion(editors[e].line, editors[e].parent, "restored")
    /\ Overlap(e, editors[e].line)
    /\ Answered(e)
    /\ UNCHANGED <<branches, analyses>>
-----------------------------------------------------------------------------
\* tailor_job: the head is read, then the model is asked.
BeginTailor(e, a, b) ==
    /\ editors[e].op = "none" /\ branches[b] = "live" /\ analyses[a] = NoAnalysis
    /\ \A f \in Editor : editors[f].op = "tailor" => editors[f].analysis # a
    /\ \E h \in Heads(b) :
         To(e, [op |-> "tailor", line |-> b, analysis |-> a, parent |-> h])
    /\ UNCHANGED <<versions, lastId, branches, analyses, overlapped>>

\* Without the model, or without evidence, nothing is proposed.
CommitAnalysis(e) ==
    /\ editors[e].op = "tailor" /\ LineExists(editors[e].line)
    /\ \E change \in {"none", "proposed"} :
         analyses' = [analyses EXCEPT ![editors[e].analysis] =
           [state |-> "made", line |-> editors[e].line, base |-> editors[e].parent,
            version |-> 0, change |-> change, changeOf |-> 0]]
    /\ Answered(e)
    /\ UNCHANGED <<versions, lastId, branches, overlapped>>

BeginCommit(e, a, decision) ==
    /\ editors[e].op = "none" /\ analyses[a].state = "made"
    /\ To(e, [op |-> "commit", line |-> analyses[a].line, analysis |-> a,
              parent |-> analyses[a].base, read |-> analyses[a], decision |-> decision])
    /\ UNCHANGED <<versions, lastId, branches, analyses, overlapped>>

\* commit_tailor writes the columns it changed; a rejected change keeps the
\* version an earlier commit gave it.
Decided(row, req, v) ==
    [row EXCEPT !.version  = v,
                !.change   = IF req.read.change \in {"none", req.decision} THEN @ ELSE req.decision,
                !.changeOf = IF req.read.change = "none" \/ req.decision = "rejected" THEN @ ELSE v]

CommitTailor(e) ==
    LET req == editors[e]
    IN  /\ req.op = "commit" /\ analyses[req.analysis].state = "made"
        /\ CreateVersion(req.line, req.parent, "ai_suggestion")
        /\ analyses' = [analyses EXCEPT ![req.analysis] = Decided(@, req, lastId + 1)]
        /\ Answered(e)
        /\ UNCHANGED <<branches, overlapped>>

\* The branch is gone: a foreign key refuses the commit.
RefuseCommit(e) ==
    /\ editors[e].op \in {"restore", "tailor", "commit"}
    /\ ~LineExists(editors[e].line)
    /\ Answered(e)
    /\ UNCHANGED <<versions, lastId, branches, analyses, overlapped>>
-----------------------------------------------------------------------------
Write(e) ==
    \/ Bootstrap(e) \/ CommitEdit(e) \/ CommitBranch(e) \/ CommitRestore(e)
    \/ CommitAnalysis(e) \/ CommitTailor(e) \/ RefuseCommit(e)

ResumeNext ==
    \/ \E e \in Editor :
         \/ BeginEdit(e) \/ Write(e)
         \/ \E b \in Branch : BeginBranch(e, b)
         \/ \E v \in DOMAIN versions : BeginRestore(e, v)
         \/ \E a \in Analysis :
              \/ \E b \in Branch : BeginTailor(e, a, b)
              \/ \E d \in {"accepted", "rejected"} : BeginCommit(e, a, d)
    \/ \E b \in Branch : DeleteBranch(b)

ResumeSpec == ResumeInit /\ [][ResumeNext]_resumeVars
-----------------------------------------------------------------------------
VersionRow == [line : Lineage, sequence : Ids, parent : Ids \cup {0},
        source : {"initial", "user_edit", "restored", "ai_suggestion"}]

\* Rows are well-formed; an analysis that names a version names a stored one.
ResumeTypeOK ==
    /\ DOMAIN versions \subseteq 1..lastId /\ lastId \in Ids \cup {0}
    /\ \A v \in DOMAIN versions : versions[v] \in VersionRow /\ LineExists(versions[v].line)
    /\ branches \in [Branch -> {"none", "live", "deleted"}]
    /\ overlapped \subseteq Lineage
    /\ \A a \in Analysis : analyses[a].state = "made" =>
         {analyses[a].base, analyses[a].version, analyses[a].changeOf} \subseteq DOMAIN versions \cup {0}

\* models/resume_intelligence.py:79-81 calls the sequence "a simple per-lineage
\* incrementing counter".  A number is given twice only by a tailoring committed on a version
\* that is no longer the head, or by edits that overlapped: edits and restores
\* one after the other always make a new head.
OnlyTailoringForks ==
    \A v, w \in DOMAIN versions :
      /\ v # w /\ versions[v].line = versions[w].line /\ versions[v].sequence = versions[w].sequence
      => "ai_suggestion" \in {versions[v].source, versions[w].source} \/ versions[v].line \in overlapped
=============================================================================
