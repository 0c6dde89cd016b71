------------------------------- MODULE BlobStore -------------------------------
(***************************************************************************)
(* The blobs of uploaded papers: upload_paper and delete_paper running in  *)
(* several API replicas over one database and one shared directory.        *)
(* (services/paper_service.py, core/storage.py)                            *)
(*                                                                         *)
(* A blob's key is the checksum of the bytes plus the suffix of the file   *)
(* name.  Papers of several workspaces share a blob; the database rows are *)
(* the only record of who does.  One action is the code between two awaits *)
(* as other processes see it: one file-system call or one transaction.     *)
(* Within a replica nothing else runs between exists() and the end of      *)
(* save(), which do not await.                                             *)
(***************************************************************************)
EXTENDS Integers, FiniteSets

CONSTANTS
    Request,      \* HTTP requests; an upload's paper is named after its request
    Workspace,
    Content,      \* file contents, standing for their SHA-256
    Suffix,       \* suffixes of file names ("x.pdf" and "x" differ in theirs)
    Replica,      \* API processes sharing the storage volume
    Kinds,        \* which requests clients make
    Faults,       \* which failures may happen
    MaxFaults     \* bound on failures

ASSUME BlobStoreAssumption ==
    /\ Kinds \subseteq {"upload", "delete"}
    /\ Faults \subseteq {"crash", "database", "storage"}
    /\ MaxFaults \in Nat

VARIABLES
    papers,    \* the rows of papers, by id
    file,      \* what is stored under each key
    op,        \* what each request is about
    pc,        \* where each request is, or how it was answered
    linked,    \* saves whose open file is still the one stored under the key
    torn,      \* saves whose file another save truncated after they opened it
    orphaned,  \* history: keys that a failing request left to nobody
    cut,       \* history: keys whose last save failed in the middle of its copy
    overlapped,  \* history: have requests about one content overlapped in time?
    faults

vars == <<papers, file, op, pc, linked, torn, orphaned, cut, overlapped, faults>>

Key == Content \X Suffix

UploadStep == {"check", "open", "write", "insert", "refresh"}
DeleteStep == {"remove", "count", "unlink"}
Answer     == {"created", "conflict", "removed", "error"}

Op == [kind : {"upload", "delete"}, paper : Request, workspace : Workspace,
       content : Content, suffix : Suffix, replica : Replica]
NoOp == [kind |-> "none"]

Active(r) == pc[r] \in UploadStep \cup DeleteStep

KeyOf(r) == <<op[r].content, op[r].suffix>>

Goto(r, s) == pc' = [pc EXCEPT ![r] = s]

\* r may take a step: its replica's event loop is not inside another's save.
Scheduled(r) ==
    \A q \in Request \ {r} :
        pc[q] \in {"open", "write"} => op[q].replica # op[r].replica

\* A file is somebody's business while a row references it, an upload is about to
\* insert one, or a deletion has still to count the references or to unlink.
AnswersFor(r, k) == pc[r] \in {"write", "insert", "count", "unlink"} /\ KeyOf(r) = k

\* The keys nobody answers for once the requests of gone are over.
LeftBy(gone) ==
    {k \in Key : /\ \E r \in gone : AnswersFor(r, k)
                 /\ ~\E r \in Request \ gone : AnswersFor(r, k)
                 /\ ~\E p \in papers : KeyOf(p) = k}

\* The keys whose last opener is one of gone.
CutBy(gone) == {KeyOf(r) : r \in (linked \cap gone) \ torn}

\* A request about content c begins.
NotesOverlap(c) ==
    overlapped' = (overlapped \/ \E q \in Request : Active(q) /\ op[q].content = c)

-----------------------------------------------------------------------------
(* upload_paper *)

\* The request is past validation and knows its workspace.
BeginUpload(r) == \E w \in Workspace, c \in Content, s \in Suffix, x \in Replica :
    /\ "upload" \in Kinds
    /\ pc[r] = "new" /\ NotesOverlap(c)
    /\ op' = [op EXCEPT ![r] = [kind |-> "upload", paper |-> r, workspace |-> w,
                                content |-> c, suffix |-> s, replica |-> x]]
    /\ Goto(r, "check")
    /\ UNCHANGED <<papers, file, linked, torn, orphaned, cut, faults>>

\* storage.exists(storage_key)
CheckBlob(r) ==
    /\ pc[r] = "check" /\ Scheduled(r)
    /\ Goto(r, IF file[KeyOf(r)] = "absent" THEN "open" ELSE "insert")
    /\ UNCHANGED <<papers, file, op, linked, torn, orphaned, cut, faults, overlapped>>

\* save() opens the target for writing: it is created, or truncated.
OpenBlob(r) == LET k == KeyOf(r) IN
    /\ pc[r] = "open"
    /\ file' = [file EXCEPT ![k] = "partial"]
    /\ torn' = torn \cup {q \in linked : KeyOf(q) = k}
    /\ linked' = linked \cup {r}
    /\ cut' = cut \ {k}
    /\ Goto(r, "write")
    /\ UNCHANGED <<papers, op, orphaned, faults, overlapped>>

\* Mutant: a save that was truncated pads the hole when it closes its file.
FinishBlob_PadsHole(r) == LET k == KeyOf(r) IN
    /\ pc[r] = "write"
    /\ file' = IF r \notin linked THEN file
               ELSE [file EXCEPT ![k] = IF r \in torn THEN "partial" ELSE "whole"]
    /\ cut' = IF r \in linked \ torn THEN cut \ {k} ELSE cut
    /\ Goto(r, IF file[k] = "absent" THEN "error" ELSE "insert")
    /\ linked' = linked \ {r}
    /\ torn' = torn \ {r}
    /\ UNCHANGED <<papers, op, orphaned, faults, overlapped>>

\* save() has copied every byte and takes the size of the file under the key,
\* which raises when there is none.  A file truncated under the copy has a hole
\* at its beginning, unless nothing had been copied by then.
FinishBlob(r) == LET k == KeyOf(r) IN
    /\ pc[r] = "write"
    /\ \/ r \in linked /\ file' = [file EXCEPT ![k] = "whole"] /\ cut' = cut \ {k}
       \/ (r \in torn \/ r \notin linked) /\ UNCHANGED <<file, cut>>
    /\ Goto(r, IF file[k] = "absent" THEN "error" ELSE "insert")
    /\ linked' = linked \ {r}
    /\ torn' = torn \ {r}
    /\ UNCHANGED <<papers, op, orphaned, faults, overlapped>>

SamePaper(p, r) == op[p].workspace = op[r].workspace /\ op[p].content = op[r].content

\* db.commit(): the unique index decides, whatever was true at the check.
InsertPaper(r) ==
    /\ pc[r] = "insert" /\ Scheduled(r)
    /\ IF \E p \in papers : SamePaper(p, r)
       THEN Goto(r, "conflict") /\ UNCHANGED <<papers, orphaned>>
       ELSE /\ papers' = papers \cup {r} /\ Goto(r, "refresh")
            /\ orphaned' = orphaned \ {KeyOf(r)}
    /\ UNCHANGED <<file, op, linked, torn, cut, faults, overlapped>>

\* db.refresh(paper) raises when the row is gone again, else 201.
RefreshPaper(r) ==
    /\ pc[r] = "refresh" /\ Scheduled(r)
    /\ Goto(r, IF r \in papers THEN "created" ELSE "error")
    /\ UNCHANGED <<papers, file, op, linked, torn, orphaned, cut, faults, overlapped>>

-----------------------------------------------------------------------------
(* delete_paper *)

\* get_paper found the row; a request for a missing one is a 404 and no more.
BeginDelete(r) == \E p \in papers, x \in Replica :
    /\ "delete" \in Kinds
    /\ pc[r] = "new" /\ NotesOverlap(op[p].content)
    /\ op' = [op EXCEPT ![r] = [kind |-> "delete", paper |-> p,
                                workspace |-> op[p].workspace, content |-> op[p].content,
                                suffix |-> op[p].suffix, replica |-> x]]
    /\ Goto(r, "remove")
    /\ UNCHANGED <<papers, file, linked, torn, orphaned, cut, faults>>

\* db.delete and commit.  A row that another request deleted meanwhile is only
\* a warning, and the handler goes on.
RemovePaper(r) ==
    /\ pc[r] = "remove" /\ Scheduled(r)
    /\ papers' = papers \ {op[r].paper}
    /\ Goto(r, "count")
    /\ UNCHANGED <<file, op, linked, torn, orphaned, cut, faults, overlapped>>

\* Mutant: only the references of the caller's own workspace are counted.
CountReferences_OwnWorkspace(r) ==
    /\ pc[r] = "count" /\ Scheduled(r)
    /\ Goto(r, IF \E p \in papers : SamePaper(p, r) THEN "removed" ELSE "unlink")
    /\ UNCHANGED <<papers, file, op, linked, torn, orphaned, cut, faults, overlapped>>

\* The rows with the checksum, in any workspace and with any suffix.
CountReferences(r) ==
    /\ pc[r] = "count" /\ Scheduled(r)
    /\ Goto(r, IF \E p \in papers : op[p].content = op[r].content
               THEN "removed" ELSE "unlink")
    /\ UNCHANGED <<papers, file, op, linked, torn, orphaned, cut, faults, overlapped>>

\* Mutant: the checksum is passed for the storage key; a missing key is no error.
UnlinkBlob_ByChecksum(r) ==
    /\ pc[r] = "unlink" /\ Scheduled(r)
    /\ Goto(r, "removed")
    /\ UNCHANGED <<papers, file, op, linked, torn, orphaned, cut, faults, overlapped>>

\* unlink(missing_ok=True); a save in progress keeps writing to a nameless file.
UnlinkBlob(r) == LET k == KeyOf(r) IN
    /\ pc[r] = "unlink" /\ Scheduled(r)
    /\ file' = [file EXCEPT ![k] = "absent"]
    /\ linked' = {q \in linked : KeyOf(q) # k}
    /\ orphaned' = orphaned \ {k}
    /\ cut' = cut \ {k}
    /\ Goto(r, "removed")
    /\ UNCHANGED <<papers, op, torn, faults, overlapped>>

-----------------------------------------------------------------------------
(* Failures *)

\* A replica dies; the requests it was serving are never answered.
ReplicaDies(x) ==
    /\ "crash" \in Faults /\ faults < MaxFaults
    /\ LET dead == {r \in Request : Active(r) /\ op[r].replica = x} IN
       /\ dead # {}
       /\ pc' = [r \in Request |-> IF r \in dead THEN "error" ELSE pc[r]]
       /\ linked' = linked \ dead
       /\ torn' = torn \ dead
       /\ orphaned' = orphaned \cup LeftBy(dead)
       /\ cut' = cut \cup CutBy(dead)
    /\ faults' = faults + 1
    /\ UNCHANGED <<papers, file, op, overlapped>>

\* A database call raises something other than IntegrityError: a 500.
DatabaseFails(r) ==
    /\ "database" \in Faults /\ faults < MaxFaults
    /\ pc[r] \in {"insert", "refresh", "remove", "count"} /\ Scheduled(r)
    /\ Goto(r, "error")
    /\ orphaned' = orphaned \cup LeftBy({r})
    /\ faults' = faults + 1
    /\ UNCHANGED <<papers, file, op, linked, torn, cut, overlapped>>

\* copyfileobj raises (the volume is full): what was copied stays under the key.
StorageFails(r) ==
    /\ "storage" \in Faults /\ faults < MaxFaults
    /\ pc[r] = "write"
    /\ Goto(r, "error")
    /\ linked' = linked \ {r}
    /\ torn' = torn \ {r}
    /\ orphaned' = orphaned \cup LeftBy({r})
    /\ cut' = cut \cup CutBy({r})
    /\ faults' = faults + 1
    /\ UNCHANGED <<papers, file, op, overlapped>>

-----------------------------------------------------------------------------

Init ==
    /\ papers = {}
    /\ file = [k \in Key |-> "absent"]
    /\ op = [r \in Request |-> NoOp]
    /\ pc = [r \in Request |-> "new"]
    /\ linked = {} /\ torn = {} /\ orphaned = {} /\ cut = {}
    /\ overlapped = FALSE /\ faults = 0

UploadPaper(r) ==
    CheckBlob(r) \/ OpenBlob(r) \/ FinishBlob(r) \/ InsertPaper(r) \/ RefreshPaper(r)
DeletePaper(r) == RemovePaper(r) \/ CountReferences(r) \/ UnlinkBlob(r)

Next ==
    \/ \E r \in Request :
        BeginUpload(r) \/ BeginDelete(r) \/ UploadPaper(r) \/ DeletePaper(r)
            \/ DatabaseFails(r) \/ StorageFails(r)
    \/ \E x \in Replica : ReplicaDies(x)

Spec == Init /\ [][Next]_vars

-----------------------------------------------------------------------------
(* Properties *)

\* Every variable has its type, a request knows the paper it is about, and only
\* a save in progress holds a stored file open.
TypeOK ==
    /\ papers \subseteq Request
    /\ file \in [Key -> {"absent", "partial", "whole"}]
    /\ op \in [Request -> Op \cup {NoOp}]
    /\ pc \in [Request -> {"new"} \cup UploadStep \cup DeleteStep \cup Answer]
    /\ linked \cup torn \subseteq {r \in Request : pc[r] = "write"}
    /\ orphaned \subseteq Key /\ cut \subseteq Key
    /\ overlapped \in BOOLEAN /\ faults \in Nat
    /\ \A r \in Request : pc[r] # "new" => op[r] # NoOp
    /\ \A p \in papers : op[p] # NoOp

\* The file names of one content all have the same suffix.
OneSuffixPerContent ==
    \A q, r \in Request :
        op[q] # NoOp /\ op[r] # NoOp /\ op[q].content = op[r].content =>
            op[q].suffix = op[r].suffix

\* No blob is left behind: when uploads, conflicting uploads and deletions of
\* the same bytes interleave, the last one to leave removes the file.  What stays
\* is a file whose last request failed between the file and the row, and only
\* until a later request takes it over or removes it.
BlobsAccountedFor ==
    OneSuffixPerContent => \A k \in Key : file[k] # "absent" =>
        \/ \E p \in papers : KeyOf(p) = k
        \/ \E r \in Request : AnswersFor(r, k)
        \/ k \in orphaned

\* Deleting a paper, or failing in the middle of it, never takes away the blob of
\* another workspace's paper, as long as requests about the same bytes do not
\* overlap; and every byte of it is stored, unless the save that wrote the file
\* failed in mid-copy, which exists() does not tell from a stored file.
PapersKeepTheirBlob ==
    ~overlapped => \A p \in papers :
        /\ file[KeyOf(p)] # "absent"
        /\ file[KeyOf(p)] = "whole" \/ KeyOf(p) \in cut

\* Saves of the same bytes that open and truncate one file under each other, on
\* any replicas, leave it whole in the end: a file is incomplete only while its
\* last opener is copying, or after that one failed in mid-copy.
IncompleteOnlyWhenCut ==
    \A k \in Key : file[k] = "partial" =>
        \/ \E r \in linked \ torn : KeyOf(r) = k
        \/ k \in cut

\* A file is removed only while no paper references it.
RemovesOnlyUnreferenced ==
    [][\A k \in Key : file'[k] = "absent" /\ file[k] # "absent" =>
        ~\E p \in papers : KeyOf(p) = k]_vars

===============================================================================
