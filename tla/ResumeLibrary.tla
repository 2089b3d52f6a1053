---------------------------- MODULE ResumeLibrary ----------------------------
(* Uploaded and generated CVs: a row and a stored file each                *)
(* (services/resume.py, services/tailored_resume.py).                      *)
(*                                                                         *)
(* The file is stored before its row and removed before it.  A CV made     *)
(* from a PDF is generated under a lock of the process, and its file is    *)
(* discarded if the row cannot be stored; one made from a DOCX or by       *)
(* optimize_resume has neither lock nor discard.  Deleting reads who was   *)
(* sent the CV and acts on it later.                                       *)
EXTENDS Naturals, FiniteSets

CONSTANTS
    CvRequest,      \* requests served at a time, by one process
    Application,    \* applications a CV can be attached to
    MaxCvs,         \* bound on the files ever stored
    MaxFaults       \* bound on failures of the database, the storage or the process

ASSUME LibraryAssumption == MaxCvs \in Nat /\ MaxFaults \in Nat

Cvs == 1..MaxCvs

VARIABLES
    cv,             \* resumes: "none", "live", "archived" or "deleted"
    madeFrom,       \* base_resume_id of a tailored CV, 0 for an upload
    object,         \* the stored files
    lastCv,         \* ids given out
    requests,       \* the requests
    application,    \* status and resume_id of the applications
    sending,        \* the browser run of an application
    sentWith,       \* the CV the employer received, 0 for none
    strayed,        \* files a named failure left without a row
    bereft          \* rows a named failure left without their file

libraryVars == <<cv, madeFrom, object, lastCv, requests, application, sending, sentWith, strayed, bereft>>
rowVars     == <<cv, madeFrom, object, lastCv>>
sendVars    == <<application, sending, sentWith>>
faultVars   == <<strayed, bereft>>

NoWork     == [op |-> "none"]
Work(r, w) == requests' = [requests EXCEPT ![r] = w]
Kept(i)    == cv[i] \in {"live", "archived"}
MayFail    == Cardinality(strayed) + Cardinality(bereft) < MaxFaults
Orphan(i)  == MayFail /\ strayed' = strayed \cup {i} /\ UNCHANGED bereft
Bereave(i) == MayFail /\ bereft' = bereft \cup {i} /\ UNCHANGED strayed

LibraryInit ==
    /\ cv = [i \in Cvs |-> "none"]
    /\ madeFrom = [i \in Cvs |-> 0]
    /\ object = [i \in Cvs |-> FALSE]
    /\ lastCv = 0
    /\ requests = [r \in CvRequest |-> NoWork]
    /\ application = [a \in Application |-> [status |-> "queued", resume |-> 0]]
    /\ sending = [a \in Application |-> [at |-> "none"]]
    /\ sentWith = [a \in Application |-> 0]
    /\ strayed = {}
    /\ bereft = {}
-----------------------------------------------------------------------------
PutFile == lastCv < MaxCvs /\ lastCv' = lastCv + 1 /\ object' = [object EXCEPT ![lastCv + 1] = TRUE]

\* The put, and the row comes next.  A put that raises may have stored the file,
\* and of the two of optimize_resume the second may fail: nobody discards it.
StoreNewFile(r, base, locked) ==
    /\ PutFile
    /\ \/ /\ Work(r, [op |-> "store", cv |-> lastCv + 1, base |-> base, locked |-> locked])
          /\ UNCHANGED faultVars
       \/ Work(r, NoWork) /\ Orphan(lastCv + 1)

\* upload_resume: parse, put the file, then the row.
Upload(r) ==
    /\ requests[r].op = "none" /\ StoreNewFile(r, 0, FALSE)
    /\ UNCHANGED <<cv, madeFrom, sendVars>>

\* generate_tailored_resume of a PDF goes on under the lock.
BeginFromPdf(r, b) ==
    /\ requests[r].op = "none" /\ Kept(b)
    /\ Work(r, [op |-> "wait", base |-> b])
    /\ UNCHANGED <<rowVars, sendVars, faultVars>>

\* generate_tailored_resume of a DOCX, and optimize_resume.
BeginUnlocked(r, b) ==
    /\ requests[r].op = "none" /\ Kept(b)
    /\ Work(r, [op |-> "write", base |-> b, locked |-> FALSE])
    /\ UNCHANGED <<rowVars, sendVars, faultVars>>

LockFree(b) == \A r \in CvRequest : /\ requests[r].op \in {"write", "store"} /\ requests[r].locked
                                    => requests[r].base # b

\* existing_version: the newest one, if its file is still there.
Versions(b) == {i \in Cvs : cv[i] = "live" /\ madeFrom[i] = b}
Reusable(b) == \E i \in Versions(b) : object[i] /\ \A j \in Versions(b) : j <= i

EnterLock(r) ==
    LET b == requests[r].base
    IN  /\ requests[r].op = "wait" /\ LockFree(b)
        /\ \E again \in BOOLEAN :
             Work(r, IF object[b] /\ (again \/ ~Reusable(b))
                     THEN [op |-> "write", base |-> b, locked |-> TRUE] ELSE NoWork)
        /\ UNCHANGED <<rowVars, sendVars, faultVars>>

\* The model is asked meanwhile; a failure before the file is stored leaves nothing.
WriteFile(r) ==
    /\ requests[r].op = "write"
    /\ \/ StoreNewFile(r, requests[r].base, requests[r].locked)
       \/ Work(r, NoWork) /\ UNCHANGED <<object, lastCv, faultVars>>
    /\ UNCHANGED <<cv, madeFrom, sendVars>>

\* Mutant: the file of a refused row stays.
KeepFile(i) == object' = object

\* _discard
Discard(i) == object' = [object EXCEPT ![i] = FALSE]

\* The row is committed.  A refresh that fails after it has a locked generation
\* discard the file of the row.
StoreCv(r) ==
    LET q == requests[r]
    IN  /\ q.op = "store" /\ (q.base # 0 => Kept(q.base))
        /\ cv' = [cv EXCEPT ![q.cv] = "live"]
        /\ madeFrom' = [madeFrom EXCEPT ![q.cv] = q.base]
        /\ \/ UNCHANGED <<object, faultVars>>
           \/ q.locked /\ Discard(q.cv) /\ Bereave(q.cv)
        /\ Work(r, NoWork)
        /\ UNCHANGED <<lastCv, sendVars>>

\* The row is refused: its base was deleted meanwhile, or the database failed.
\* Only a locked generation discards the file, and that may fail too.
RefuseRow(r) ==
    LET q == requests[r]
    IN  /\ q.op = "store"
        /\ \/ q.locked /\ Discard(q.cv) /\ UNCHANGED faultVars
           \/ UNCHANGED object /\ Orphan(q.cv)
           \/ /\ ~q.locked /\ q.base # 0 /\ ~Kept(q.base)
              /\ strayed' = strayed \cup {q.cv} /\ UNCHANGED <<object, bereft>>
        /\ Work(r, NoWork)
        /\ UNCHANGED <<cv, madeFrom, lastCv, sendVars>>
-----------------------------------------------------------------------------
\* _SENT_STATUSES
SentStatus == {"applying", "applied", "interview", "rejected", "offer"}

Submitted(i) == {a \in Application : application[a].resume = i /\ application[a].status \in SentStatus}

BeginDelete(r, i) ==
    /\ requests[r].op = "none" /\ Kept(i)
    /\ IF Submitted(i) # {} THEN cv' = [cv EXCEPT ![i] = "archived"] /\ UNCHANGED requests
       ELSE Work(r, [op |-> "delete", cv |-> i]) /\ UNCHANGED cv
    /\ UNCHANGED <<madeFrom, object, lastCv, sendVars, faultVars>>

\* A failure of the storage does not stop the deletion.
DeleteFile(r) ==
    LET i == requests[r].cv
    IN  /\ requests[r].op = "delete"
        /\ \/ Discard(i) /\ UNCHANGED faultVars
           \/ UNCHANGED object /\ Orphan(i)
        /\ Work(r, [op |-> "forget", cv |-> i])
        /\ UNCHANGED <<cv, madeFrom, lastCv, sendVars>>

\* Applications and versions that name the row lose the reference; a row that
\* is already gone fails the request, and so may the commit.
DeleteRow(r) ==
    LET i == requests[r].cv
    IN  /\ requests[r].op = "forget"
        /\ \/ /\ Kept(i)
              /\ cv' = [cv EXCEPT ![i] = "deleted"]
              /\ madeFrom' = [j \in Cvs |-> IF madeFrom[j] = i THEN 0 ELSE madeFrom[j]]
              /\ application' = [a \in Application |->
                   IF application[a].resume = i THEN [application[a] EXCEPT !.resume = 0]
                   ELSE application[a]]
              /\ UNCHANGED faultVars
           \/ ~Kept(i) /\ UNCHANGED <<cv, madeFrom, application, faultVars>>
           \/ Kept(i) /\ Bereave(i) /\ UNCHANGED <<cv, madeFrom, application>>
        /\ Work(r, NoWork)
        /\ UNCHANGED <<object, lastCv, sending, sentWith>>

\* The process dies: what its requests had begun stays as it is.
InHand(op) == {requests[r].cv : r \in {q \in CvRequest : requests[q].op = op}}

LoseProcess ==
    /\ MayFail /\ \E r \in CvRequest : requests[r].op # "none"
    /\ strayed' = strayed \cup InHand("store")
    /\ bereft' = bereft \cup InHand("forget")
    /\ requests' = [r \in CvRequest |-> NoWork]
    /\ UNCHANGED <<rowVars, sendVars>>
-----------------------------------------------------------------------------
Attach(a, i) ==
    /\ Kept(i) /\ application[a].resume # i
    /\ application' = [application EXCEPT ![a].resume = i]
    /\ UNCHANGED <<rowVars, requests, sending, sentWith, faultVars>>

SetStatus(a, s) == application' = [application EXCEPT ![a].status = s]

Withdraw(a) ==
    /\ application[a].status \in SentStatus \cup {"queued"}
    /\ SetStatus(a, "withdrawn")
    /\ UNCHANGED <<rowVars, requests, sending, sentWith, faultVars>>

\* run_apply, after APPLYING is committed: the row, then its file.
BeginRun(a) ==
    /\ application[a].status = "queued" /\ sending[a].at = "none"
    /\ SetStatus(a, "applying")
    /\ sending' = [sending EXCEPT ![a] = [at |-> "load", cv |-> application[a].resume]]
    /\ UNCHANGED <<rowVars, requests, sentWith, faultVars>>

SendCv(a) ==
    /\ sending[a].at = "load" /\ sending[a].cv # 0 /\ object[sending[a].cv]
    /\ sentWith' = [sentWith EXCEPT ![a] = sending[a].cv]
    /\ sending' = [sending EXCEPT ![a] = [at |-> "sent"]]
    /\ UNCHANGED <<rowVars, requests, application, faultVars>>

EndRun(a) ==
    /\ sending[a].at # "none"
    /\ \E s \in {"applied", "failed"} : (s = "applied" => sending[a].at = "sent") /\ SetStatus(a, s)
    /\ sending' = [sending EXCEPT ![a] = [at |-> "none"]]
    /\ UNCHANGED <<rowVars, requests, sentWith, faultVars>>

LibraryNext ==
    \/ \E r \in CvRequest :
         \/ Upload(r) \/ EnterLock(r) \/ WriteFile(r) \/ StoreCv(r) \/ RefuseRow(r)
         \/ DeleteFile(r) \/ DeleteRow(r)
         \/ \E i \in Cvs : BeginFromPdf(r, i) \/ BeginUnlocked(r, i) \/ BeginDelete(r, i)
    \/ LoseProcess
    \/ \E a \in Application :
         \/ Withdraw(a) \/ BeginRun(a) \/ SendCv(a) \/ EndRun(a)
         \/ \E i \in Cvs : Attach(a, i)

LibrarySpec == LibraryInit /\ [][LibraryNext]_libraryVars
-----------------------------------------------------------------------------
LibraryTypeOK ==
    /\ cv \in [Cvs -> {"none", "live", "archived", "deleted"}]
    /\ madeFrom \in [Cvs -> 0..MaxCvs]
    /\ \A i \in Cvs : madeFrom[i] # 0 => Kept(madeFrom[i])
    /\ object \in [Cvs -> BOOLEAN] /\ lastCv \in 0..MaxCvs
    /\ \A a \in Application : application[a].resume # 0 => Kept(application[a].resume)

\* A file without a row is of a request about to store the row, or of a failure
\* that left it: a put that raised, a refused row that nobody or in vain cleaned
\* up after, storage that does not delete, a process that died.  A row without
\* its file is of a request about to delete the row, or of a commit or refresh
\* that failed, or a process that died, once the file was gone.
FilesMatchRows ==
    \A i \in Cvs :
      /\ object[i] /\ ~Kept(i) => i \in InHand("store") \cup strayed
      /\ Kept(i) /\ ~object[i] => i \in InHand("forget") \cup bereft

\* services/resume.py:1103-1106: a CV "Submitted with at least one application"
\* is "archived instead", so a deletion that begins after that keeps its row.
SubmittedIsArchived ==
    [][\A r \in CvRequest : requests[r].op = "none" /\ requests'[r].op = "delete"
         => \A a \in Application : sentWith[a] # requests'[r].cv]_libraryVars
=============================================================================
