--------------------------- MODULE BlobStore_proofs ---------------------------
(***************************************************************************)
(* Proofs about BlobStore, for any number of requests, workspaces,         *)
(* contents, suffixes and replicas.  No blob is left behind but by a       *)
(* failing request, as long as the file names of a content have one        *)
(* suffix; no file stays incomplete but after a failing save; no paper     *)
(* loses its blob as long as requests about the same content have not      *)
(* overlapped, whatever fails.                                             *)
(***************************************************************************)
EXTENDS BlobStore, TLAPS

-----------------------------------------------------------------------------
(* Types *)

\* A paper's id names a request that has begun.
PapersBegun == \A p \in papers : pc[p] # "new"

\* A file that a save holds open is stored under its key.
LinkedStored == \A q \in linked : file[KeyOf(q)] # "absent"

\* A request that has not begun is about nothing.
BegunOnly == \A q \in Request : pc[q] = "new" => op[q] = NoOp

Typed == TypeOK /\ PapersBegun /\ LinkedStored /\ BegunOnly

LEMMA OpTyped ==
    ASSUME Typed
    PROVE  /\ \A r \in Request : pc[r] # "new" => op[r] \in Op /\ KeyOf(r) \in Key
           /\ \A p \in papers : p \in Request /\ op[p] \in Op /\ KeyOf(p) \in Key
  BY DEF Typed, TypeOK, Op, KeyOf, Key

LEMMA BeginTyped ==
    ASSUME Typed, NEW r \in Request, BeginUpload(r) \/ BeginDelete(r)
    PROVE  Typed'
  <1>1. CASE BeginUpload(r)
    <2>1. PICK w \in Workspace, c \in Content, s \in Suffix, x \in Replica :
            op' = [op EXCEPT ![r] = [kind |-> "upload", paper |-> r, workspace |-> w,
                                     content |-> c, suffix |-> s, replica |-> x]]
      BY <1>1 DEF BeginUpload
    <2>2. op'[r] \in Op /\ op'[r] # NoOp
      BY <2>1 DEF Op, NoOp, Typed, TypeOK
    <2>3. op' \in [Request -> Op \cup {NoOp}]
      BY <2>1, <2>2 DEF Typed, TypeOK
    <2>4. QED
      BY <1>1, <2>1, <2>2, <2>3
      DEF BeginUpload, Typed, TypeOK, PapersBegun, LinkedStored, BegunOnly,
          NotesOverlap, KeyOf, Goto, UploadStep, DeleteStep, Answer
  <1>2. CASE BeginDelete(r)
    <2>1. PICK p \in papers, x \in Replica :
            op' = [op EXCEPT ![r] = [kind |-> "delete", paper |-> p,
                        workspace |-> op[p].workspace, content |-> op[p].content,
                        suffix |-> op[p].suffix, replica |-> x]]
      BY <1>2 DEF BeginDelete
    <2>2. p \in Request /\ op[p] \in Op
      BY OpTyped
    <2>3. op'[r] \in Op /\ op'[r] # NoOp
      BY <2>1, <2>2 DEF Op, NoOp, Typed, TypeOK
    <2>4. op' \in [Request -> Op \cup {NoOp}]
      BY <2>1, <2>3 DEF Typed, TypeOK
    <2>5. QED
      BY <1>2, <2>1, <2>3, <2>4
      DEF BeginDelete, Typed, TypeOK, PapersBegun, LinkedStored, BegunOnly,
          NotesOverlap, KeyOf, Goto, UploadStep, DeleteStep, Answer
  <1>3. QED
    BY <1>1, <1>2

LEMMA StepTyped ==
    ASSUME Typed, NEW r \in Request,
           UploadPaper(r) \/ DeletePaper(r)
    PROVE  TypeOK' /\ PapersBegun' /\ BegunOnly'
  <1> USE OpTyped DEF Typed, TypeOK, PapersBegun, BegunOnly, Goto, UploadStep, DeleteStep, Answer
  <1>1. CASE CheckBlob(r)
    BY <1>1 DEF CheckBlob
  <1>2. CASE OpenBlob(r)
    BY <1>2 DEF OpenBlob
  <1>3. CASE FinishBlob(r)
    BY <1>3 DEF FinishBlob
  <1>4. CASE InsertPaper(r)
    BY <1>4 DEF InsertPaper
  <1>5. CASE RefreshPaper(r)
    BY <1>5 DEF RefreshPaper
  <1>6. CASE RemovePaper(r)
    BY <1>6 DEF RemovePaper
  <1>7. CASE CountReferences(r)
    BY <1>7 DEF CountReferences
  <1>8. CASE UnlinkBlob(r)
    BY <1>8 DEF UnlinkBlob
  <1>9. QED
    BY <1>1, <1>2, <1>3, <1>4, <1>5, <1>6, <1>7, <1>8 DEF UploadPaper, DeletePaper

LEMMA StepKeepsLinked ==
    ASSUME Typed, NEW r \in Request,
           UploadPaper(r) \/ DeletePaper(r)
    PROVE  LinkedStored'
  <1>1. op' = op /\ \A q \in Request : KeyOf(q)' = KeyOf(q)
    BY DEF UploadPaper, DeletePaper, CheckBlob, OpenBlob, FinishBlob, InsertPaper,
           RefreshPaper, RemovePaper, CountReferences, UnlinkBlob, KeyOf
  <1>2. linked \subseteq Request /\ \A q \in linked : KeyOf(q) \in Key
    BY OpTyped DEF Typed, TypeOK
  <1>3. file \in [Key -> {"absent", "partial", "whole"}]
    BY DEF Typed, TypeOK
  <1>4. SUFFICES ASSUME NEW q \in linked' PROVE file'[KeyOf(q)] # "absent"
    BY <1>1 DEF LinkedStored, KeyOf
  <1>5. CASE UNCHANGED <<file, linked>>
    BY <1>5 DEF Typed, LinkedStored
  <1>6. CASE OpenBlob(r)
    <2>1. KeyOf(r) \in Key
      BY <1>6, OpTyped DEF OpenBlob
    <2>2. QED
      BY <1>2, <1>3, <1>6, <2>1 DEF OpenBlob, Typed, LinkedStored
  <1>7. CASE FinishBlob(r)
    BY <1>2, <1>3, <1>7 DEF FinishBlob, Typed, LinkedStored
  <1>8. CASE UnlinkBlob(r)
    BY <1>2, <1>3, <1>8 DEF UnlinkBlob, Typed, LinkedStored
  <1>9. QED
    BY <1>5, <1>6, <1>7, <1>8
    DEF UploadPaper, DeletePaper, CheckBlob, InsertPaper, RefreshPaper, RemovePaper,
        CountReferences

\* A failure ends the requests gone, which leave their files as they are.
FailsFor(gone) ==
    /\ UNCHANGED <<papers, file, op, overlapped>>
    /\ \A q \in Request \ gone : pc'[q] = pc[q]
    /\ \A q \in gone : pc'[q] = "error" /\ Active(q)
    /\ linked' = linked \ gone
    /\ torn' = torn \ gone
    /\ orphaned' = orphaned \cup LeftBy(gone)
    /\ cut' = cut \cup CutBy(gone)
    /\ faults' = faults + 1

Failure ==
    \/ \E r \in Request : DatabaseFails(r) \/ StorageFails(r)
    \/ \E x \in Replica : ReplicaDies(x)

LEMMA FailureShape ==
    ASSUME Typed, Failure
    PROVE  /\ pc' \in [Request -> {"new"} \cup UploadStep \cup DeleteStep \cup Answer]
           /\ \E gone \in SUBSET Request : FailsFor(gone)
  <1> USE DEF Typed, TypeOK, Goto, Answer
  <1>1. ASSUME NEW r \in Request, DatabaseFails(r)
        PROVE  FailsFor({r})
    <2>1. r \notin linked /\ r \notin torn
      BY <1>1 DEF DatabaseFails
    <2>2. CutBy({r}) = {} /\ linked \ {r} = linked /\ torn \ {r} = torn
      BY <2>1 DEF CutBy
    <2>3. Active(r)
      BY <1>1 DEF DatabaseFails, Active, UploadStep, DeleteStep
    <2>4. QED
      BY <1>1, <2>2, <2>3 DEF DatabaseFails, FailsFor
  <1>2. ASSUME NEW r \in Request, StorageFails(r)
        PROVE  FailsFor({r})
    BY <1>2 DEF StorageFails, FailsFor, Active, UploadStep
  <1>3. ASSUME NEW x \in Replica, ReplicaDies(x)
        PROVE  \E gone \in SUBSET Request : FailsFor(gone)
    <2> DEFINE dead == {r \in Request : Active(r) /\ op[r].replica = x}
    <2>1. FailsFor(dead)
      BY <1>3 DEF ReplicaDies, FailsFor
    <2>2. dead \in SUBSET Request
      OBVIOUS
    <2>3. QED
      BY <2>1, <2>2
  <1>4. pc' \in [Request -> {"new"} \cup UploadStep \cup DeleteStep \cup Answer]
    BY DEF Failure, DatabaseFails, StorageFails, ReplicaDies
  <1>5. QED
    BY <1>1, <1>2, <1>3, <1>4 DEF Failure

LEMMA FailureTyped ==
    ASSUME Typed, Failure
    PROVE  Typed'
  <1>1. PICK gone \in SUBSET Request : FailsFor(gone)
    BY FailureShape
  <1>2. \A q : KeyOf(q)' = KeyOf(q)
    BY <1>1 DEF FailsFor, KeyOf
  <1>3. /\ \A q \in Request : pc'[q] = "new" <=> pc[q] = "new"
        /\ \A q \in linked' \cup torn' : q \in Request /\ pc'[q] = "write"
    BY <1>1 DEF FailsFor, Active, UploadStep, DeleteStep, Typed, TypeOK
  <1>4. orphaned' \subseteq Key /\ cut' \subseteq Key
    <2>1. LeftBy(gone) \subseteq Key
      BY DEF LeftBy
    <2>2. \A q \in linked : KeyOf(q) \in Key
      BY OpTyped DEF Typed, TypeOK
    <2>3. CutBy(gone) \subseteq Key
      BY <2>2 DEF CutBy
    <2>4. QED
      BY <1>1, <2>1, <2>3 DEF FailsFor, Typed, TypeOK
  <1>5. TypeOK'
    BY <1>1, <1>3, <1>4, FailureShape DEF FailsFor, Typed, TypeOK
  <1>6. PapersBegun' /\ BegunOnly' /\ LinkedStored'
    BY <1>1, <1>2, <1>3 DEF FailsFor, Typed, TypeOK, PapersBegun, BegunOnly, LinkedStored
  <1>7. QED
    BY <1>5, <1>6 DEF Typed

LEMMA NextTyped == Typed /\ [Next]_vars => Typed'
  <1> SUFFICES ASSUME Typed, [Next]_vars PROVE Typed'
    OBVIOUS
  <1>1. CASE UNCHANGED vars
    BY <1>1 DEF vars, Typed, TypeOK, PapersBegun, LinkedStored, BegunOnly, KeyOf
  <1>2. QED
    BY <1>1, BeginTyped, StepTyped, StepKeepsLinked, FailureTyped DEF Next, Failure, Typed

LEMMA InitTyped == Init => Typed
  <1> SUFFICES ASSUME Init PROVE Typed
    OBVIOUS
  <1>1. overlapped \in BOOLEAN
    BY DEF Init
  <1>2. /\ papers = {} /\ linked = {} /\ torn = {} /\ faults \in Nat
        /\ orphaned = {} /\ cut = {}
        /\ file \in [Key -> {"absent", "partial", "whole"}]
        /\ op \in [Request -> Op \cup {NoOp}] /\ pc \in [Request -> {"new"}]
        /\ \A r \in Request : pc[r] = "new" /\ op[r] = NoOp
    BY DEF Init
  <1>3. QED
    BY <1>1, <1>2 DEF Typed, TypeOK, PapersBegun, LinkedStored, BegunOnly

\* Every variable keeps its type, for any requests, contents and faults.
THEOREM TypeCorrect == Spec => []TypeOK
  <1>1. Typed => TypeOK
    BY DEF Typed
  <1>2. QED
    BY InitTyped, NextTyped, <1>1, PTL DEF Spec

-----------------------------------------------------------------------------
\* A request that has begun stays begun.
LEMMA PapersStayBegun ==
    ASSUME Typed, [Next]_vars
    PROVE  \A q \in Request : pc[q] # "new" => pc'[q] # "new"
  <1>1. CASE Failure
    BY <1>1, FailureShape DEF FailsFor
  <1>2. CASE UNCHANGED vars \/ \E r \in Request : BeginUpload(r) \/ BeginDelete(r)
                                  \/ UploadPaper(r) \/ DeletePaper(r)
    BY <1>2
    DEF vars, BeginUpload, BeginDelete, UploadPaper, DeletePaper, CheckBlob, OpenBlob,
        FinishBlob, InsertPaper, RefreshPaper, RemovePaper, CountReferences, UnlinkBlob,
        Goto, Typed, TypeOK
  <1>3. QED
    BY <1>1, <1>2 DEF Next, Failure

-----------------------------------------------------------------------------
(* No blob is left behind *)

\* What a request is about never changes once it has begun.
LEMMA SuffixBefore ==
    ASSUME Typed, [Next]_vars, OneSuffixPerContent'
    PROVE  OneSuffixPerContent
  <1>1. \A q \in Request : op[q] # NoOp => op'[q] = op[q]
    <2>1. \A q \in Request : pc[q] = "new" => op[q] = NoOp
      BY DEF Typed, BegunOnly
    <2>2. QED
      BY <2>1
      DEF Next, vars, BeginUpload, BeginDelete, UploadPaper, DeletePaper, CheckBlob,
          OpenBlob, FinishBlob, InsertPaper, RefreshPaper, RemovePaper, CountReferences,
          UnlinkBlob, DatabaseFails, StorageFails, ReplicaDies, Typed, TypeOK
  <1>2. QED
    BY <1>1 DEF OneSuffixPerContent

\* A deletion about to remove a row removes one with its own key.
DeletesOwnKey ==
    \A r \in Request : pc[r] = "remove" =>
        pc[op[r].paper] # "new" /\ KeyOf(op[r].paper) = KeyOf(r)

\* Somebody answers for key k, or a request that failed was the last to.
AccountFor(k) ==
    \/ \E p \in papers : KeyOf(p) = k
    \/ \E r \in Request : AnswersFor(r, k)
    \/ k \in orphaned

EveryBlobAccounted ==
    \A k \in Key : file[k] # "absent" => AccountFor(k)

Accounted == Typed /\ DeletesOwnKey /\ EveryBlobAccounted

LEMMA KeepsDeletesOwnKey ==
    ASSUME Typed, DeletesOwnKey, [Next]_vars
    PROVE  DeletesOwnKey'
  <1>1. CASE \E r \in Request : BeginUpload(r) \/ BeginDelete(r)
    <2>1. PICK r \in Request : BeginUpload(r) \/ BeginDelete(r)
      BY <1>1
    <2>2. /\ pc[r] = "new" /\ pc'[r] # "new" /\ op \in [Request -> Op \cup {NoOp}]
          /\ \A q \in Request \ {r} : op'[q] = op[q]
          /\ \A q \in Request \ {r} : pc'[q] = pc[q]
      BY <2>1 DEF BeginUpload, BeginDelete, Goto, Typed, TypeOK
    <2>3. \A q \in Request : pc[q] = "remove" => op[q].paper \in Request
      BY OpTyped DEF Op
    <2>4. CASE BeginUpload(r)
      <3>1. pc'[r] = "check"
        BY <2>4 DEF BeginUpload, Goto, Typed, TypeOK
      <3>2. QED
        BY <2>2, <2>3, <3>1 DEF DeletesOwnKey, KeyOf
    <2>5. CASE BeginDelete(r)
      <3>1. PICK p \in papers, x \in Replica :
              op' = [op EXCEPT ![r] = [kind |-> "delete", paper |-> p,
                          workspace |-> op[p].workspace, content |-> op[p].content,
                          suffix |-> op[p].suffix, replica |-> x]]
        BY <2>5 DEF BeginDelete
      <3>2. p \in Request /\ pc[p] # "new" /\ p # r
        BY <2>2 DEF Typed, TypeOK, PapersBegun
      <3>3. op'[r].paper = p /\ KeyOf(r)' = KeyOf(p) /\ KeyOf(p)' = KeyOf(p)
        BY <2>2, <3>1, <3>2 DEF KeyOf
      <3>4. QED
        BY <2>2, <2>3, <3>2, <3>3 DEF DeletesOwnKey, KeyOf
    <2>6. QED
      BY <2>1, <2>4, <2>5
  <1>2. CASE op' = op /\ \A q \in Request : pc'[q] = "remove" => pc[q] = "remove"
    <2>1. \A q \in Request : pc[q] # "new" => pc'[q] # "new"
      BY PapersStayBegun
    <2>2. QED
      BY <1>2, <2>1, OpTyped DEF DeletesOwnKey, KeyOf, Op
  <1>3. QED
    <2>1. CASE UNCHANGED vars
      BY <1>2, <2>1 DEF vars
    <2>2. CASE \E r \in Request : UploadPaper(r) \/ DeletePaper(r)
      BY <1>2, <2>2
      DEF UploadPaper, DeletePaper, CheckBlob, OpenBlob, FinishBlob, InsertPaper,
          RefreshPaper, RemovePaper, CountReferences, UnlinkBlob, Goto, Typed, TypeOK
    <2>3. CASE Failure
      BY <1>2, <2>3, FailureShape DEF FailsFor
    <2>4. QED
      BY <1>1, <2>1, <2>2, <2>3 DEF Next, Failure

\* With one suffix, the same content is the same key.
LEMMA SameKey ==
    ASSUME OneSuffixPerContent, NEW q \in Request, NEW r \in Request,
           op[q] # NoOp, op[r] # NoOp, op[q].content = op[r].content
    PROVE  KeyOf(q) = KeyOf(r)
  BY DEF OneSuffixPerContent, KeyOf

LEMMA BeginAccounted ==
    ASSUME Accounted, NEW r \in Request, BeginUpload(r) \/ BeginDelete(r)
    PROVE  EveryBlobAccounted'
  <1> SUFFICES ASSUME NEW k \in Key, file'[k] # "absent"
               PROVE  AccountFor(k)'
    BY DEF EveryBlobAccounted, AccountFor
  <1>1. /\ papers' = papers /\ file' = file /\ orphaned' = orphaned
        /\ pc[r] = "new" /\ r \notin papers
        /\ pc' = [pc EXCEPT ![r] = pc'[r]]
        /\ \A q \in Request \ {r} : op'[q] = op[q] /\ pc'[q] = pc[q]
    BY DEF BeginUpload, BeginDelete, Goto, Accounted, Typed, TypeOK, PapersBegun
  <1>2. AccountFor(k)
    BY <1>1 DEF Accounted, EveryBlobAccounted, AccountFor
  <1>3. CASE \E p \in papers : KeyOf(p) = k
    BY <1>1, <1>3 DEF AccountFor, KeyOf, Accounted, Typed, TypeOK
  <1>4. CASE \E q \in Request : AnswersFor(q, k)
    BY <1>1, <1>4 DEF AccountFor, AnswersFor, KeyOf
  <1>5. CASE k \in orphaned
    BY <1>1, <1>5 DEF AccountFor
  <1>6. QED
    BY <1>2, <1>3, <1>4, <1>5 DEF AccountFor

\* No file appears under another key than r's.
CreatesNoOther(r) ==
    \A k \in Key : file'[k] # "absent" => file[k] # "absent" \/ k = KeyOf(r)

\* r answers for its key when it is at step s.
Answering(s) == s \in {"write", "insert", "count", "unlink"}

\* No other file than r's is taken off the list of what failures left.
ForgivesNoOther(r) ==
    \A k \in orphaned : k \in orphaned' \/ k = KeyOf(r)

\* A step of r that leaves op alone, keeps the papers and creates no file only
\* has to show who takes over from r.
LEMMA TakeOver ==
    ASSUME Accounted, NEW r \in Request, NEW s,
           Goto(r, s), UNCHANGED op,
           papers \subseteq papers',
           CreatesNoOther(r), ForgivesNoOther(r),
           \/ Answering(s)
           \/ file'[KeyOf(r)] = "absent"
           \/ ~Answering(pc[r]) /\ file' = file /\ orphaned' = orphaned
           \/ \E p \in papers' : KeyOf(p) = KeyOf(r)
    PROVE  EveryBlobAccounted'
  <1> SUFFICES ASSUME NEW k \in Key, file'[k] # "absent"
               PROVE  AccountFor(k)'
    BY DEF EveryBlobAccounted, AccountFor
  <1>1. /\ \A q \in Request \ {r} : pc'[q] = pc[q]
        /\ pc'[r] = s
        /\ \A q : KeyOf(q)' = KeyOf(q)
    BY DEF Goto, Accounted, Typed, TypeOK, KeyOf
  <1>2. CASE k = KeyOf(r) /\ Answering(s)
    BY <1>1, <1>2 DEF AccountFor, AnswersFor, Answering
  <1>3. CASE k = KeyOf(r) /\ \E p \in papers' : KeyOf(p) = k
    BY <1>1, <1>3 DEF AccountFor
  <1>4. CASE \/ k # KeyOf(r)
             \/ ~Answering(pc[r]) /\ file' = file /\ orphaned' = orphaned
    <2>1. AccountFor(k)
      BY <1>4 DEF CreatesNoOther, Accounted, EveryBlobAccounted, AccountFor
    <2>2. CASE \E p \in papers : KeyOf(p) = k
      BY <1>1, <2>2 DEF AccountFor
    <2>3. CASE \E q \in Request : AnswersFor(q, k)
      <3>1. PICK q \in Request : AnswersFor(q, k)
        BY <2>3
      <3>2. q # r
        BY <1>4, <3>1 DEF AnswersFor, Answering
      <3>3. AnswersFor(q, k)'
        BY <1>1, <3>1, <3>2 DEF AnswersFor
      <3>4. QED
        BY <3>3 DEF AccountFor
    <2>4. CASE k \in orphaned
      BY <1>4, <2>4 DEF ForgivesNoOther, AccountFor
    <2>5. QED
      BY <2>1, <2>2, <2>3, <2>4 DEF AccountFor
  <1>5. QED
    BY <1>2, <1>3, <1>4

LEMMA UploadAccounted ==
    ASSUME Accounted, OneSuffixPerContent, NEW r \in Request, UploadPaper(r)
    PROVE  EveryBlobAccounted'
  <1>1. CASE CheckBlob(r)
    BY <1>1, TakeOver DEF CheckBlob, Answering, CreatesNoOther, ForgivesNoOther
  <1>2. CASE OpenBlob(r)
    <2>1. Goto(r, "write") /\ UNCHANGED <<op, papers>>
      BY <1>2 DEF OpenBlob
    <2>2. CreatesNoOther(r) /\ ForgivesNoOther(r)
      BY <1>2 DEF CreatesNoOther, ForgivesNoOther, OpenBlob, Accounted, Typed, TypeOK
    <2>3. QED
      BY <2>1, <2>2, TakeOver DEF Answering
  <1>3. CASE FinishBlob(r)
    <2>1. \A k \in Key : k # KeyOf(r) => file'[k] = file[k]
      BY <1>3 DEF FinishBlob, Accounted, Typed, TypeOK
    <2>2. CASE file[KeyOf(r)] # "absent"
      <3>1. Goto(r, "insert") /\ UNCHANGED <<op, papers>>
        BY <1>3, <2>2 DEF FinishBlob
      <3>2. CreatesNoOther(r) /\ ForgivesNoOther(r)
        BY <1>3, <2>1 DEF CreatesNoOther, ForgivesNoOther, FinishBlob
      <3>3. QED
        BY <3>1, <3>2, TakeOver DEF Answering
    <2>3. CASE file[KeyOf(r)] = "absent" /\ UNCHANGED file
      BY <1>3, <2>3, TakeOver DEF FinishBlob, Answering, CreatesNoOther, ForgivesNoOther
    <2>4. CASE r \in linked /\ file' = [file EXCEPT ![KeyOf(r)] = "whole"]
      <3>1. file[KeyOf(r)] # "absent"
        BY <2>4 DEF Accounted, Typed, LinkedStored
      <3>2. QED
        BY <2>2, <3>1
    <2>5. QED
      BY <1>3, <2>2, <2>3, <2>4 DEF FinishBlob
  <1>4. CASE InsertPaper(r)
    <2>1. CASE \E p \in papers : SamePaper(p, r)
      <3>1. PICK p \in papers : SamePaper(p, r)
        BY <2>1
      <3>2. KeyOf(p) = KeyOf(r)
        <4>1. op[p] # NoOp /\ op[r] # NoOp /\ p \in Request
          BY <1>4 DEF Accounted, Typed, TypeOK, InsertPaper
        <4>2. op[p].content = op[r].content
          BY <3>1 DEF SamePaper
        <4>3. QED
          BY <4>1, <4>2, SameKey
      <3>3. Goto(r, "conflict") /\ UNCHANGED <<op, papers, file, orphaned>>
        BY <1>4, <2>1 DEF InsertPaper
      <3>4. QED
        BY <3>2, <3>3, TakeOver DEF CreatesNoOther, ForgivesNoOther
    <2>2. CASE ~\E p \in papers : SamePaper(p, r)
      <3>1. /\ Goto(r, "refresh") /\ papers' = papers \cup {r} /\ UNCHANGED <<op, file>>
            /\ orphaned' = orphaned \ {KeyOf(r)}
        BY <1>4, <2>2 DEF InsertPaper
      <3>2. \E p \in papers' : KeyOf(p) = KeyOf(r)
        BY <3>1
      <3>3. QED
        BY <3>1, <3>2, TakeOver DEF CreatesNoOther, ForgivesNoOther
    <2>3. QED
      BY <2>1, <2>2
  <1>5. CASE RefreshPaper(r)
    BY <1>5, TakeOver DEF RefreshPaper, Answering, CreatesNoOther, ForgivesNoOther
  <1>6. QED
    BY <1>1, <1>2, <1>3, <1>4, <1>5 DEF UploadPaper

LEMMA DeleteAccounted ==
    ASSUME Accounted, OneSuffixPerContent, NEW r \in Request, DeletePaper(r)
    PROVE  EveryBlobAccounted'
  <1>1. CASE RemovePaper(r)
    <2> SUFFICES ASSUME NEW k \in Key, file'[k] # "absent"
                 PROVE  AccountFor(k)'
      BY DEF EveryBlobAccounted, AccountFor
    <2>1. /\ op' = op /\ file' = file /\ papers' = papers \ {op[r].paper}
          /\ pc'[r] = "count" /\ \A q \in Request \ {r} : pc'[q] = pc[q]
          /\ op[r] \in Op
      BY <1>1, OpTyped DEF RemovePaper, Goto, Accounted, Typed, TypeOK
    <2>2. AccountFor(k)
      BY <2>1 DEF Accounted, EveryBlobAccounted, AccountFor
    <2>3. CASE \E p \in papers \ {op[r].paper} : KeyOf(p) = k
      BY <2>1, <2>3 DEF AccountFor, KeyOf
    <2>4. CASE KeyOf(op[r].paper) = k
      <3>1. KeyOf(r) = k
        BY <1>1, <2>4 DEF RemovePaper, Accounted, DeletesOwnKey
      <3>2. QED
        BY <2>1, <3>1 DEF AccountFor, AnswersFor, KeyOf
    <2>5. CASE \E q \in Request : AnswersFor(q, k)
      BY <1>1, <2>1, <2>5 DEF AccountFor, AnswersFor, KeyOf, RemovePaper
    <2>6. CASE k \in orphaned
      BY <1>1, <2>6 DEF RemovePaper, AccountFor
    <2>7. QED
      BY <2>2, <2>3, <2>4, <2>5, <2>6 DEF AccountFor
  <1>2. CASE CountReferences(r)
    <2>1. CASE \E p \in papers : op[p].content = op[r].content
      <3>1. PICK p \in papers : op[p].content = op[r].content
        BY <2>1
      <3>2. op[p] # NoOp /\ op[r] # NoOp /\ p \in Request
        BY <1>2 DEF Accounted, Typed, TypeOK, CountReferences
      <3>3. KeyOf(p) = KeyOf(r)
        BY <3>1, <3>2, SameKey
      <3>4. Goto(r, "removed") /\ UNCHANGED <<op, papers, file, orphaned>>
        BY <1>2, <2>1 DEF CountReferences
      <3>5. QED
        BY <3>3, <3>4, TakeOver DEF CreatesNoOther, ForgivesNoOther
    <2>2. CASE ~\E p \in papers : op[p].content = op[r].content
      <3>1. Goto(r, "unlink") /\ UNCHANGED <<op, papers, file, orphaned>>
        BY <1>2, <2>2 DEF CountReferences
      <3>2. QED
        BY <3>1, TakeOver DEF CreatesNoOther, ForgivesNoOther, Answering
    <2>3. QED
      BY <2>1, <2>2
  <1>3. CASE UnlinkBlob(r)
    <2>1. KeyOf(r) \in Key
      BY <1>3, OpTyped DEF Accounted, UnlinkBlob
    <2>2. /\ Goto(r, "removed") /\ UNCHANGED <<op, papers>>
          /\ file'[KeyOf(r)] = "absent"
          /\ CreatesNoOther(r) /\ ForgivesNoOther(r)
      BY <1>3, <2>1 DEF CreatesNoOther, ForgivesNoOther, UnlinkBlob, Accounted, Typed, TypeOK
    <2>3. QED
      BY <2>2, TakeOver
  <1>4. QED
    BY <1>1, <1>2, <1>3 DEF DeletePaper

\* A failure leaves its files to nobody, and that is what orphaned notes.
LEMMA FailureAccounted ==
    ASSUME Accounted, Failure
    PROVE  EveryBlobAccounted'
  <1> SUFFICES ASSUME NEW k \in Key, file'[k] # "absent"
               PROVE  AccountFor(k)'
    BY DEF EveryBlobAccounted, AccountFor
  <1>1. PICK gone \in SUBSET Request : FailsFor(gone)
    BY FailureShape DEF Accounted
  <1>2. AccountFor(k) /\ \A q : KeyOf(q)' = KeyOf(q)
    BY <1>1 DEF FailsFor, KeyOf, Accounted, EveryBlobAccounted, AccountFor
  <1>3. CASE \/ \E p \in papers : KeyOf(p) = k
             \/ k \in orphaned
    BY <1>1, <1>2, <1>3 DEF FailsFor, AccountFor
  <1>4. CASE \E q \in Request \ gone : AnswersFor(q, k)
    BY <1>1, <1>2, <1>4 DEF FailsFor, AccountFor, AnswersFor
  <1>5. CASE k \in LeftBy(gone)
    BY <1>1, <1>5 DEF FailsFor, AccountFor
  <1>6. QED
    BY <1>2, <1>3, <1>4, <1>5 DEF AccountFor, LeftBy

\* While file names have one suffix, every blob is referenced, about to be, about
\* to be removed, or was left by a failing request and by nobody since:
\* overlapping uploads, conflicts and deletions leave none behind.
THEOREM NoBlobLeftBehind == Spec => []BlobsAccountedFor
  <1> DEFINE Inv == Typed /\ DeletesOwnKey /\ (OneSuffixPerContent => EveryBlobAccounted)
  <1>1. Init => Inv
    BY InitTyped DEF Init, EveryBlobAccounted, DeletesOwnKey
  <1>2. Inv /\ [Next]_vars => Inv'
    <2> SUFFICES ASSUME Inv, [Next]_vars PROVE Inv'
      OBVIOUS
    <2>1. Typed' /\ DeletesOwnKey'
      BY NextTyped, KeepsDeletesOwnKey
    <2>2. SUFFICES ASSUME OneSuffixPerContent' PROVE EveryBlobAccounted'
      BY <2>1
    <2>3. OneSuffixPerContent /\ Accounted
      BY <2>2, SuffixBefore DEF Accounted
    <2>4. CASE UNCHANGED vars
      BY <2>3, <2>4 DEF vars, Accounted, EveryBlobAccounted, AccountFor, AnswersFor, KeyOf
    <2>5. CASE Next
      BY <2>3, <2>5, BeginAccounted, UploadAccounted, DeleteAccounted, FailureAccounted
      DEF Next, Failure
    <2>6. QED
      BY <2>4, <2>5
  <1>3. Inv => BlobsAccountedFor
    BY DEF EveryBlobAccounted, BlobsAccountedFor, AccountFor
  <1>4. QED
    BY <1>1, <1>2, <1>3, PTL DEF Spec

-----------------------------------------------------------------------------
(* No file stays incomplete *)

\* Only the last opener of a file holds it untorn: a save that opens the file
\* takes it over, one that ends either completes it or was truncated before.
LEMMA NextIncomplete ==
    ASSUME Typed, IncompleteOnlyWhenCut, [Next]_vars
    PROVE  IncompleteOnlyWhenCut'
  <1> SUFFICES ASSUME NEW k \in Key, file'[k] = "partial"
               PROVE  \/ \E q \in linked' \ torn' : KeyOf(q)' = k
                      \/ k \in cut'
    BY DEF IncompleteOnlyWhenCut
  <1>1. /\ file \in [Key -> {"absent", "partial", "whole"}]
        /\ \A q \in linked \cup torn : q \in Request /\ pc[q] = "write"
    BY DEF Typed, TypeOK
  <1>2. CASE UNCHANGED <<file, linked, torn, cut>> /\ \A q \in linked : op'[q] = op[q]
    BY <1>2 DEF IncompleteOnlyWhenCut, KeyOf
  <1>3. ASSUME NEW r \in Request, BeginUpload(r) \/ BeginDelete(r)
        PROVE  UNCHANGED <<file, linked, torn, cut>> /\ \A q \in linked : op'[q] = op[q]
    <2>1. r \notin linked
      BY <1>1, <1>3 DEF BeginUpload, BeginDelete
    <2>2. \A q \in Request \ {r} : op'[q] = op[q]
      BY <1>3 DEF BeginUpload, BeginDelete, Typed, TypeOK
    <2>3. QED
      BY <1>1, <1>3, <2>1, <2>2 DEF BeginUpload, BeginDelete
  <1>4. ASSUME op' = op
        PROVE  \A q : KeyOf(q)' = KeyOf(q)
    BY <1>4 DEF KeyOf
  <1>5. ASSUME NEW r \in Request, OpenBlob(r)
        PROVE  \/ \E q \in linked' \ torn' : KeyOf(q)' = k
               \/ k \in cut'
    <2>1. r \in linked' \ torn' /\ op' = op
      BY <1>1, <1>5 DEF OpenBlob
    <2>2. CASE k = KeyOf(r)
      BY <1>4, <2>1, <2>2
    <2>3. CASE k # KeyOf(r)
      <3>1. file[k] = "partial"
        BY <1>1, <1>5, <2>3 DEF OpenBlob
      <3>2. CASE k \in cut
        BY <1>5, <2>3, <3>2 DEF OpenBlob
      <3>3. CASE \E q \in linked \ torn : KeyOf(q) = k
        <4>1. PICK q \in linked \ torn : KeyOf(q) = k
          BY <3>3
        <4>2. q \in linked' \ torn'
          BY <1>5, <2>3, <4>1 DEF OpenBlob
        <4>3. QED
          BY <1>4, <2>1, <4>1, <4>2
      <3>4. QED
        BY <3>1, <3>2, <3>3 DEF IncompleteOnlyWhenCut
    <2>4. QED
      BY <2>2, <2>3
  <1>6. ASSUME NEW r \in Request, FinishBlob(r)
        PROVE  \/ \E q \in linked' \ torn' : KeyOf(q)' = k
               \/ k \in cut'
    <2>1. op' = op /\ linked' = linked \ {r} /\ torn' = torn \ {r}
      BY <1>6 DEF FinishBlob
    <2>2. CASE r \in linked /\ file' = [file EXCEPT ![KeyOf(r)] = "whole"]
                            /\ cut' = cut \ {KeyOf(r)}
      <3>1. k # KeyOf(r) /\ file[k] = "partial"
        BY <1>1, <2>2
      <3>2. CASE k \in cut
        BY <2>2, <3>1, <3>2
      <3>3. CASE \E q \in linked \ torn : KeyOf(q) = k
        BY <1>4, <2>1, <3>1, <3>3
      <3>4. QED
        BY <3>1, <3>2, <3>3 DEF IncompleteOnlyWhenCut
    <2>3. CASE (r \in torn \/ r \notin linked) /\ UNCHANGED <<file, cut>>
      <3>1. linked' \ torn' = linked \ torn
        BY <2>1, <2>3
      <3>2. QED
        BY <1>4, <2>1, <2>3, <3>1 DEF IncompleteOnlyWhenCut
    <2>4. QED
      BY <1>6, <2>2, <2>3 DEF FinishBlob
  <1>7. ASSUME NEW r \in Request, UnlinkBlob(r)
        PROVE  \/ \E q \in linked' \ torn' : KeyOf(q)' = k
               \/ k \in cut'
    <2>1. k # KeyOf(r) /\ file[k] = "partial" /\ op' = op
      BY <1>1, <1>7 DEF UnlinkBlob
    <2>2. cut' = cut \ {KeyOf(r)} /\ torn' = torn
          /\ \A q \in linked : KeyOf(q) # KeyOf(r) => q \in linked'
      BY <1>7 DEF UnlinkBlob
    <2>3. QED
      BY <1>4, <2>1, <2>2 DEF IncompleteOnlyWhenCut
  <1>8. CASE Failure
    <2>1. PICK gone \in SUBSET Request : FailsFor(gone)
      BY <1>8, FailureShape
    <2>2. file' = file /\ op' = op
      BY <2>1 DEF FailsFor
    <2>3. CASE \E q \in linked \ torn : KeyOf(q) = k
      <3>1. PICK q \in linked \ torn : KeyOf(q) = k
        BY <2>3
      <3>2. CASE q \in gone
        BY <2>1, <3>1, <3>2 DEF FailsFor, CutBy
      <3>3. CASE q \notin gone
        BY <1>4, <2>1, <2>2, <3>1, <3>3 DEF FailsFor
      <3>4. QED
        BY <3>2, <3>3
    <2>4. CASE k \in cut
      BY <2>1, <2>4 DEF FailsFor
    <2>5. QED
      BY <2>2, <2>3, <2>4 DEF IncompleteOnlyWhenCut
  <1>9. ASSUME NEW r \in Request, \/ CheckBlob(r) \/ InsertPaper(r) \/ RefreshPaper(r)
                                  \/ RemovePaper(r) \/ CountReferences(r)
        PROVE  UNCHANGED <<file, linked, torn, cut, op>>
    BY <1>9 DEF CheckBlob, InsertPaper, RefreshPaper, RemovePaper, CountReferences
  <1>10. CASE UNCHANGED vars
    BY <1>2, <1>10 DEF vars
  <1>11. QED
    BY <1>2, <1>3, <1>5, <1>6, <1>7, <1>8, <1>9, <1>10
    DEF Next, UploadPaper, DeletePaper, Failure

\* Saves that truncate one file under each other leave it whole when the last of
\* them has ended, for any number of saves on any replicas; only one that fails in
\* mid-copy leaves an incomplete file (core/storage.py).
THEOREM NoFileStaysIncomplete == Spec => []IncompleteOnlyWhenCut
  <1>1. Init => IncompleteOnlyWhenCut
    BY DEF Init, IncompleteOnlyWhenCut
  <1>2. QED
    BY <1>1, InitTyped, NextTyped, NextIncomplete, PTL DEF Spec

-----------------------------------------------------------------------------
(* No paper loses its blob *)

PcType == {"new"} \cup UploadStep \cup DeleteStep \cup Answer

\* No two requests about the same content are being served.
OneAtATime ==
    \A q, r \in Request :
        Active(q) /\ Active(r) /\ op[q].content = op[r].content => q = r

\* The file under key k can be read, and in full unless its save was cut short.
Stored(k) == file[k] # "absent" /\ (file[k] = "whole" \/ k \in cut)

EveryPaperStored == \A p \in papers : Stored(KeyOf(p))

\* A save in progress is the only one on its key.
SavesAlone ==
    /\ torn = {}
    /\ \A r \in Request : pc[r] = "open" => file[KeyOf(r)] = "absent"
    /\ \A r \in Request : pc[r] = "write" => r \in linked

\* An upload about to insert its row has its file, a deletion about to remove the
\* file has no paper with its content.
ReadyToFinish ==
    /\ \A r \in Request : pc[r] = "insert" => Stored(KeyOf(r))
    /\ \A r \in Request : pc[r] = "unlink" =>
         \A p \in papers : op[p].content # op[r].content

Kept ==
    /\ Typed /\ IncompleteOnlyWhenCut
    /\ OneAtATime /\ SavesAlone /\ ReadyToFinish /\ EveryPaperStored

LEMMA KeepsOneAtATime ==
    ASSUME Typed, OneAtATime, ~overlapped', [Next]_vars
    PROVE  OneAtATime'
  <1>1. CASE \E r \in Request : BeginUpload(r) \/ BeginDelete(r)
    <2>1. PICK r \in Request : BeginUpload(r) \/ BeginDelete(r)
      BY <1>1
    <2>2. /\ \A q \in Request \ {r} : op'[q] = op[q] /\ pc'[q] = pc[q]
          /\ NotesOverlap(op'[r].content)
      BY <2>1 DEF BeginUpload, BeginDelete, Goto, Typed, TypeOK
    <2>3. \A q \in Request : Active(q) => op[q].content # op'[r].content
      BY <2>2, Zenon DEF NotesOverlap
    <2>4. QED
      BY <2>2, <2>3 DEF OneAtATime, Active
  <1>2. CASE op' = op /\ \A q \in Request : Active(q)' => Active(q)
    BY <1>2 DEF OneAtATime
  <1>3. QED
    <2>1. CASE UNCHANGED vars
      BY <1>2, <2>1 DEF vars, Active
    <2>2. CASE \E r \in Request : UploadPaper(r) \/ DeletePaper(r)
      <3>1. PICK r \in Request : UploadPaper(r) \/ DeletePaper(r)
        BY <2>2
      <3>2. op' = op /\ Active(r) /\ \A q \in Request \ {r} : pc'[q] = pc[q]
        BY <3>1
        DEF UploadPaper, DeletePaper, CheckBlob, OpenBlob, FinishBlob, InsertPaper,
            RefreshPaper, RemovePaper, CountReferences, UnlinkBlob, Goto,
            Typed, TypeOK, Active, UploadStep, DeleteStep
      <3>3. QED
        BY <1>2, <3>2 DEF Active
    <2>3. CASE Failure
      BY <1>2, <2>3, FailureShape DEF FailsFor, Active, UploadStep, DeleteStep
    <2>4. QED
      BY <1>1, <2>1, <2>2, <2>3 DEF Next, Failure

\* The requests being served are about different keys, and those that hold a file
\* open are among them.
LEMMA OtherKeys ==
    ASSUME Kept, NEW r \in Request, Active(r)
    PROVE  /\ op[r] \in Op /\ KeyOf(r) \in Key
           /\ \A q \in Request \ {r} : Active(q) =>
                op[q].content # op[r].content /\ KeyOf(q) # KeyOf(r)
           /\ \A q \in linked \ {r} : KeyOf(q) # KeyOf(r)
  <1>1. pc[r] # "new"
    BY DEF Active, UploadStep, DeleteStep
  <1>2. \A q \in linked : q \in Request /\ Active(q)
    BY DEF Kept, Typed, TypeOK, Active, UploadStep
  <1>3. QED
    BY <1>1, <1>2, OpTyped DEF Kept, OneAtATime, KeyOf

LEMMA BeginKeeps ==
    ASSUME Kept, NEW r \in Request, BeginUpload(r) \/ BeginDelete(r)
    PROVE  SavesAlone' /\ ReadyToFinish' /\ EveryPaperStored'
  <1>1. /\ papers' = papers /\ file' = file /\ pc[r] = "new" /\ r \notin papers
        /\ pc'[r] \in {"check", "remove"}
        /\ UNCHANGED <<linked, torn, cut>>
        /\ \A q \in Request \ {r} : op'[q] = op[q] /\ pc'[q] = pc[q]
    BY DEF BeginUpload, BeginDelete, Goto, Kept, Typed, TypeOK, PapersBegun
  <1>2. papers \subseteq Request \ {r} /\ linked \subseteq Request \ {r}
    BY <1>1 DEF Kept, Typed, TypeOK
  <1>3. \A q \in Request \ {r} : KeyOf(q)' = KeyOf(q)
    BY <1>1 DEF KeyOf
  <1>4. SavesAlone'
    BY <1>1, <1>2, <1>3 DEF Kept, SavesAlone
  <1>5. EveryPaperStored'
    BY <1>1, <1>2, <1>3 DEF Kept, EveryPaperStored, Stored
  <1>6. ReadyToFinish'
    BY <1>1, <1>2, <1>3 DEF Kept, ReadyToFinish, Stored
  <1>7. QED
    BY <1>4, <1>5, <1>6

\* A step that leaves op alone and spoils no stored file, adds no paper, and sends
\* no request into insert or unlink.
LEMMA HarmlessKeeps ==
    ASSUME Kept, UNCHANGED op, papers' \subseteq papers,
           \A k \in Key : Stored(k) => Stored(k)',
           \A q \in Request : pc'[q] \in {"insert", "unlink"} => pc'[q] = pc[q]
    PROVE  ReadyToFinish' /\ EveryPaperStored'
  <1>1. \A q : KeyOf(q)' = KeyOf(q)
    BY DEF KeyOf
  <1>2. /\ \A q \in Request : pc[q] = "insert" => KeyOf(q) \in Key
        /\ \A q \in papers : KeyOf(q) \in Key
    BY OpTyped DEF Kept
  <1>3. QED
    BY <1>1, <1>2 DEF Kept, ReadyToFinish, EveryPaperStored

LEMMA UploadSavesAlone ==
    ASSUME Kept, NEW r \in Request, UploadPaper(r)
    PROVE  SavesAlone'
  <1>1. Active(r)
    BY DEF UploadPaper, CheckBlob, OpenBlob, FinishBlob, InsertPaper, RefreshPaper,
           Active, UploadStep
  <1>2. /\ \A q \in Request \ {r} : pc'[q] = pc[q]
        /\ \A q : KeyOf(q)' = KeyOf(q)
    BY DEF UploadPaper, CheckBlob, OpenBlob, FinishBlob, InsertPaper, RefreshPaper,
           Goto, Kept, Typed, TypeOK, KeyOf
  <1>3. /\ KeyOf(r) \in Key
        /\ \A q \in linked \ {r} : KeyOf(q) # KeyOf(r)
        /\ \A q \in Request \ {r} : pc[q] \in {"open", "write"} => KeyOf(q) # KeyOf(r)
    BY <1>1, OtherKeys DEF Active, UploadStep
  <1>4. \A q \in Request : pc[q] \in {"open", "write"} => KeyOf(q) \in Key
    BY OpTyped DEF Kept
  <1>5. linked \subseteq {q \in Request : pc[q] = "write"} /\ pc \in [Request -> PcType]
    BY DEF Kept, Typed, TypeOK, PcType
  <1>6. file \in [Key -> {"absent", "partial", "whole"}]
    BY DEF Kept, Typed, TypeOK
  <1>7. CASE CheckBlob(r)
    <2>1. UNCHANGED <<file, linked, torn>> /\ pc'[r] # "write"
      BY <1>5, <1>7 DEF CheckBlob, Goto
    <2>2. pc'[r] = "open" => file[KeyOf(r)] = "absent"
      BY <1>5, <1>7 DEF CheckBlob, Goto
    <2>3. QED
      BY <1>2, <2>1, <2>2 DEF Kept, SavesAlone
  <1>8. CASE OpenBlob(r)
    <2>1. torn' = {} /\ linked' = linked \cup {r}
      <3>1. r \notin linked
        BY <1>5, <1>8 DEF OpenBlob
      <3>2. QED
        BY <1>3, <1>8, <3>1 DEF OpenBlob, Kept, SavesAlone
    <2>2. /\ pc'[r] = "write"
          /\ file' = [file EXCEPT ![KeyOf(r)] = "partial"]
      BY <1>5, <1>8 DEF OpenBlob, Goto
    <2>3. \A q \in Request : pc'[q] = "open" => file'[KeyOf(q)] = "absent"
      BY <1>2, <1>3, <1>4, <1>6, <2>2 DEF Kept, SavesAlone
    <2>4. QED
      BY <1>2, <2>1, <2>2, <2>3 DEF Kept, SavesAlone
  <1>9. CASE FinishBlob(r)
    <2>1. r \in linked /\ r \notin torn
      BY <1>9 DEF FinishBlob, Kept, SavesAlone
    <2>2. /\ pc'[r] \in {"error", "insert"}
          /\ file' = [file EXCEPT ![KeyOf(r)] = "whole"]
          /\ linked' = linked \ {r} /\ torn' = {}
      BY <1>5, <1>9, <2>1 DEF FinishBlob, Goto, Kept, SavesAlone
    <2>3. \A q \in Request : pc'[q] = "open" => file'[KeyOf(q)] = "absent"
      BY <1>2, <1>3, <1>4, <1>6, <2>2 DEF Kept, SavesAlone
    <2>4. QED
      BY <1>2, <2>2, <2>3 DEF Kept, SavesAlone
  <1>10. CASE InsertPaper(r) \/ RefreshPaper(r)
    <2>1. UNCHANGED <<file, linked, torn>> /\ pc'[r] \notin {"open", "write"}
      BY <1>5, <1>10 DEF InsertPaper, RefreshPaper, Goto
    <2>2. QED
      BY <1>2, <2>1 DEF Kept, SavesAlone
  <1>11. QED
    BY <1>7, <1>8, <1>9, <1>10 DEF UploadPaper

LEMMA UploadKeeps ==
    ASSUME Kept, NEW r \in Request, UploadPaper(r)
    PROVE  ReadyToFinish' /\ EveryPaperStored'
  <1>1. Active(r)
    BY DEF UploadPaper, CheckBlob, OpenBlob, FinishBlob, InsertPaper, RefreshPaper,
           Active, UploadStep
  <1>2. /\ \A q \in Request \ {r} : pc'[q] = pc[q]
        /\ op' = op
        /\ \A q : KeyOf(q)' = KeyOf(q)
    BY DEF UploadPaper, CheckBlob, OpenBlob, FinishBlob, InsertPaper, RefreshPaper,
           Goto, Kept, Typed, TypeOK, KeyOf
  <1>3. /\ KeyOf(r) \in Key
        /\ \A q \in linked \ {r} : KeyOf(q) # KeyOf(r)
        /\ \A q \in Request \ {r} : Active(q) => op[q].content # op[r].content
    BY <1>1, OtherKeys
  <1>4. file \in [Key -> {"absent", "partial", "whole"}] /\ pc \in [Request -> PcType]
    BY DEF Kept, Typed, TypeOK, PcType
  <1>5. CASE CheckBlob(r)
    <2>1. r \notin linked
      BY <1>5 DEF CheckBlob, Kept, Typed, TypeOK
    <2>2. pc'[r] = "insert" => Stored(KeyOf(r))
      BY <1>3, <1>4, <1>5, <2>1 DEF CheckBlob, Goto, Kept, IncompleteOnlyWhenCut, Stored
    <2>3. pc'[r] # "unlink" /\ UNCHANGED <<file, cut, papers>>
      BY <1>4, <1>5 DEF CheckBlob, Goto
    <2>4. QED
      BY <1>2, <2>2, <2>3 DEF Kept, ReadyToFinish, EveryPaperStored, Stored
  <1>6. CASE OpenBlob(r)
    <2>1. /\ file[KeyOf(r)] = "absent"
          /\ file' = [file EXCEPT ![KeyOf(r)] = "partial"] /\ cut' = cut \ {KeyOf(r)}
      BY <1>6 DEF OpenBlob, Kept, SavesAlone
    <2>2. \A k \in Key : Stored(k) => Stored(k)'
      BY <1>2, <1>4, <2>1 DEF Stored
    <2>3. pc'[r] = "write" /\ papers' = papers
      BY <1>4, <1>6 DEF OpenBlob, Goto
    <2>4. QED
      BY <1>2, <2>2, <2>3, HarmlessKeeps
  <1>7. CASE FinishBlob(r)
    <2>1. /\ file' = [file EXCEPT ![KeyOf(r)] = "whole"] /\ cut' = cut \ {KeyOf(r)}
          /\ papers' = papers
      BY <1>7 DEF FinishBlob, Kept, SavesAlone
    <2>2. pc'[r] # "unlink"
      BY <1>4, <1>7 DEF FinishBlob, Goto
    <2>3. \A k \in Key : Stored(k) => Stored(k)'
      BY <1>2, <1>4, <2>1 DEF Stored
    <2>4. Stored(KeyOf(r))'
      BY <1>2, <1>3, <1>4, <2>1 DEF Stored
    <2>5. EveryPaperStored'
      BY <1>2, <2>1, <2>3, OpTyped DEF Kept, EveryPaperStored
    <2>6. \A q \in Request : pc'[q] = "insert" => Stored(KeyOf(q))'
      <3>1. \A q \in Request : pc[q] = "insert" => KeyOf(q) \in Key
        BY OpTyped DEF Kept
      <3>2. QED
        BY <1>2, <2>3, <2>4, <3>1 DEF Kept, ReadyToFinish
    <2>7. QED
      BY <1>2, <2>1, <2>2, <2>5, <2>6 DEF Kept, ReadyToFinish
  <1>8. CASE InsertPaper(r)
    <2>1. UNCHANGED <<file, cut>> /\ Stored(KeyOf(r)) /\ papers' \subseteq papers \cup {r}
      BY <1>8 DEF InsertPaper, Kept, ReadyToFinish
    <2>2. pc'[r] \notin {"insert", "unlink"}
      BY <1>4, <1>8 DEF InsertPaper, Goto
    <2>3. \A q \in Request \ {r} : pc[q] = "unlink" => op[q].content # op[r].content
      BY <1>3 DEF Active, DeleteStep
    <2>4. QED
      BY <1>2, <2>1, <2>2, <2>3 DEF Kept, ReadyToFinish, EveryPaperStored, Stored
  <1>9. CASE RefreshPaper(r)
    <2>1. pc'[r] \notin {"insert", "unlink"} /\ UNCHANGED <<papers, file, cut>>
      BY <1>4, <1>9 DEF RefreshPaper, Goto
    <2>2. QED
      BY <1>2, <2>1, HarmlessKeeps DEF Stored
  <1>10. QED
    BY <1>5, <1>6, <1>7, <1>8, <1>9 DEF UploadPaper

LEMMA DeleteKeeps ==
    ASSUME Kept, NEW r \in Request, DeletePaper(r)
    PROVE  SavesAlone' /\ ReadyToFinish' /\ EveryPaperStored'
  <1>1. Active(r)
    BY DEF DeletePaper, RemovePaper, CountReferences, UnlinkBlob, Active, DeleteStep
  <1>2. /\ \A q \in Request \ {r} : pc'[q] = pc[q]
        /\ pc'[r] \notin {"open", "write", "insert"}
        /\ UNCHANGED <<op, torn>>
        /\ \A q : KeyOf(q)' = KeyOf(q)
    BY DEF DeletePaper, RemovePaper, CountReferences, UnlinkBlob, Goto, Kept, Typed,
           TypeOK, KeyOf
  <1>3. /\ KeyOf(r) \in Key
        /\ \A q \in linked : KeyOf(q) # KeyOf(r)
        /\ \A q \in Request \ {r} : pc[q] = "insert" => KeyOf(q) # KeyOf(r)
    <2>1. r \notin linked
      BY DEF DeletePaper, RemovePaper, CountReferences, UnlinkBlob, Kept, Typed, TypeOK
    <2>2. QED
      BY <1>1, <2>1, OtherKeys DEF Active, UploadStep
  <1>4. file \in [Key -> {"absent", "partial", "whole"}] /\ pc \in [Request -> PcType]
    BY DEF Kept, Typed, TypeOK, PcType
  <1>5. CASE RemovePaper(r)
    <2>1. /\ pc'[r] = "count" /\ papers' \subseteq papers
          /\ UNCHANGED <<file, linked, cut>>
      BY <1>4, <1>5 DEF RemovePaper, Goto
    <2>2. ReadyToFinish' /\ EveryPaperStored'
      BY <1>2, <2>1, HarmlessKeeps DEF Stored
    <2>3. QED
      BY <1>2, <2>1, <2>2 DEF Kept, SavesAlone
  <1>6. CASE CountReferences(r)
    <2>1. /\ UNCHANGED <<papers, file, linked, cut>>
          /\ pc'[r] = "unlink" => \A p \in papers : op[p].content # op[r].content
      BY <1>4, <1>6 DEF CountReferences, Goto
    <2>2. QED
      BY <1>2, <2>1 DEF Kept, SavesAlone, ReadyToFinish, EveryPaperStored, Stored
  <1>7. CASE UnlinkBlob(r)
    <2>1. /\ papers' = papers /\ pc'[r] = "removed" /\ linked' = linked
          /\ file' = [file EXCEPT ![KeyOf(r)] = "absent"] /\ cut' = cut \ {KeyOf(r)}
      BY <1>3, <1>4, <1>7 DEF UnlinkBlob, Goto
    <2>2. \A p \in papers : KeyOf(p) # KeyOf(r)
      BY <1>7 DEF UnlinkBlob, Kept, ReadyToFinish, KeyOf
    <2>3. /\ \A p \in papers : KeyOf(p) \in Key
          /\ \A q \in Request : pc[q] # "new" => KeyOf(q) \in Key
      BY OpTyped DEF Kept
    <2>4. SavesAlone'
      BY <1>2, <1>3, <1>4, <2>1, <2>3 DEF Kept, SavesAlone
    <2>5. EveryPaperStored'
      BY <1>2, <1>4, <2>1, <2>2, <2>3 DEF Kept, EveryPaperStored, Stored
    <2>6. ReadyToFinish'
      BY <1>2, <1>3, <1>4, <2>1, <2>3 DEF Kept, ReadyToFinish, Stored
    <2>7. QED
      BY <2>4, <2>5, <2>6
  <1>8. QED
    BY <1>5, <1>6, <1>7 DEF DeletePaper

LEMMA FailureKeeps ==
    ASSUME Kept, Failure
    PROVE  SavesAlone' /\ ReadyToFinish' /\ EveryPaperStored'
  <1>1. PICK gone \in SUBSET Request : FailsFor(gone)
    BY FailureShape DEF Kept
  <1>2. \A q : KeyOf(q)' = KeyOf(q)
    BY <1>1 DEF FailsFor, KeyOf
  <1>3. \A q \in Request : pc'[q] = pc[q] \/ pc'[q] = "error"
    BY <1>1 DEF FailsFor
  <1>4. SavesAlone'
    BY <1>1, <1>2 DEF FailsFor, Kept, SavesAlone
  <1>5. \A k \in Key : Stored(k) => Stored(k)'
    BY <1>1 DEF FailsFor, Stored
  <1>6. UNCHANGED op /\ papers' \subseteq papers
    BY <1>1 DEF FailsFor
  <1>7. QED
    BY <1>3, <1>4, <1>5, <1>6, HarmlessKeeps

\* As long as requests about the same content have not overlapped, every paper
\* keeps a file under its key, whatever replicas die and calls fail, and all of it
\* unless the save that wrote the file was cut short.
THEOREM NoBlobTakenAway == Spec => []PapersKeepTheirBlob
  <1> DEFINE Inv == Typed /\ (~overlapped => Kept)
  <1>1. Init => Inv
    BY InitTyped
    DEF Init, Kept, IncompleteOnlyWhenCut, OneAtATime, SavesAlone, ReadyToFinish, EveryPaperStored, Active,
        UploadStep, DeleteStep
  <1>2. Inv /\ [Next]_vars => Inv'
    <2> SUFFICES ASSUME Inv, [Next]_vars PROVE Inv'
      OBVIOUS
    <2>1. Typed'
      BY NextTyped
    <2>2. SUFFICES ASSUME ~overlapped' PROVE Kept'
      BY <2>1
    <2>3. ~overlapped
      <3>1. CASE \E r \in Request : BeginUpload(r) \/ BeginDelete(r)
        BY <2>2, <3>1 DEF BeginUpload, BeginDelete, NotesOverlap
      <3>2. CASE overlapped' = overlapped
        BY <2>2, <3>2
      <3>3. QED
        BY <3>1, <3>2
        DEF Next, vars, UploadPaper, DeletePaper, CheckBlob, OpenBlob, FinishBlob,
            InsertPaper, RefreshPaper, RemovePaper, CountReferences, UnlinkBlob,
            DatabaseFails, StorageFails, ReplicaDies
    <2>4. Kept
      BY <2>3
    <2>5. OneAtATime'
      BY <2>2, <2>4, KeepsOneAtATime DEF Kept
    <2>6. IncompleteOnlyWhenCut'
      BY <2>4, NextIncomplete DEF Kept
    <2>7. CASE UNCHANGED vars
      BY <2>1, <2>4, <2>5, <2>6, <2>7
      DEF vars, Kept, SavesAlone, ReadyToFinish, EveryPaperStored, Stored, KeyOf
    <2>8. CASE Next
      BY <2>1, <2>4, <2>5, <2>6, <2>8, BeginKeeps, UploadSavesAlone, UploadKeeps, DeleteKeeps,
         FailureKeeps
      DEF Next, Failure, Kept
    <2>9. QED
      BY <2>7, <2>8
  <1>3. Inv => PapersKeepTheirBlob
    BY DEF Kept, EveryPaperStored, Stored, PapersKeepTheirBlob
  <1>4. QED
    BY <1>1, <1>2, <1>3, PTL DEF Spec

===============================================================================
