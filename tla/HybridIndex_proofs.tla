-------------------------- MODULE HybridIndex_proofs --------------------------
(***************************************************************************)
(* Proofs about HybridIndex, for any papers, users, replicas, workers,     *)
(* rebuilds and searches, and whatever fails.                              *)
(***************************************************************************)
EXTENDS HybridIndex, TLAPS, FiniteSetTheorems

-----------------------------------------------------------------------------
(* Types *)

\* A parse that is published gets a number within the bound.
LEMMA NewChunk ==
    ASSUME TypeOK, NEW p \in Paper, gen[p] < MaxParses
    PROVE  /\ [paper |-> p, gen |-> gen[p] + 1] \in Chunk
           /\ gen[p] + 1 \in 0..MaxParses
  BY HybridIndexAssumption DEF TypeOK, Chunk

LEMMA InitTyped == Init => TypeOK
  <1>1. Init => /\ papers \subseteq Paper /\ gen \in [Paper -> 0..MaxParses]
                /\ rows \subseteq Chunk /\ embedded \subseteq rows
                /\ dense \subseteq Chunk /\ serving \subseteq Server
                /\ sparse \in [Process -> SUBSET Chunk]
    BY HybridIndexAssumption DEF Init
  <1>2. Init => /\ task \in [Worker -> {"idle", "embed", "flag"}]
                /\ taken \in [Worker -> SUBSET Chunk]
                /\ rb \in [Rebuild -> {"unused", "query", "fill", "ended"}]
                /\ on \in [Rebuild -> Server \cup {"none"}]
                /\ \A i \in Rebuild : Running(i) => on[i] \in Server
                /\ snapshot \in [Rebuild -> SUBSET Chunk]
                /\ promised \in [Server -> SUBSET Chunk]
    BY DEF Init, Running
  <1>3. Init => /\ sc \in [Search -> {"new", "search", "done", "failed"}]
                /\ query \in [Search -> Query \cup {NoQuery}]
                /\ allowed \in [Search -> SUBSET Paper]
                /\ waiting \in [Search -> SUBSET {"dense", "sparse"}]
                /\ \A s \in Search : sc[s] # "new" => query[s] \in Query
    BY DEF Init
  <1>4. Init => /\ hits \in [Search -> SUBSET Chunk]
                /\ result \in [Search -> SUBSET Chunk]
                /\ due \in [Search -> SUBSET Chunk]
    BY DEF Init
  <1>5. QED
    BY <1>1, <1>2, <1>3, <1>4 DEF TypeOK

\* The papers and their indexing keep the types.
LEMMA IndexingTyped ==
    ASSUME TypeOK
    PROVE  /\ \A p \in Paper : Upload(p) \/ Publish(p) \/ Delete(p) => TypeOK'
           /\ \A w \in Worker : Index(w) => TypeOK'
  <1>1. ASSUME NEW p \in Paper, Upload(p) PROVE TypeOK'
    BY <1>1 DEF TypeOK, Upload, taskVars, rbVars, searchVars, Running
  <1>2. ASSUME NEW p \in Paper, Publish(p) PROVE TypeOK'
    <2>1. /\ [paper |-> p, gen |-> gen[p] + 1] \in Chunk
          /\ gen[p] + 1 \in 0..MaxParses
      BY <1>2, NewChunk DEF Publish
    <2>2. /\ gen' \in [Paper -> 0..MaxParses]
          /\ rows' \subseteq Chunk /\ embedded' \subseteq rows'
      BY <1>2, <2>1 DEF TypeOK, Publish, ChunksOf
    <2>3. QED
      BY <1>2, <2>2 DEF TypeOK, Publish, taskVars, rbVars, searchVars, Running
  <1>3. ASSUME NEW p \in Paper, Delete(p) PROVE TypeOK'
    BY <1>3 DEF TypeOK, Delete, ChunksOf, taskVars, rbVars, searchVars, Running
  <1>4. ASSUME NEW w \in Worker, StartIndexing(w) PROVE TypeOK'
    BY <1>4 DEF TypeOK, StartIndexing, ChunksOf, dbVars, rbVars, searchVars, Running
  <1>5. ASSUME NEW w \in Worker, IndexBatch(w) PROVE TypeOK'
    BY <1>5 DEF TypeOK, IndexBatch, Process, dbVars, rbVars, searchVars, Running
  <1>6. ASSUME NEW w \in Worker, FlagBatch(w) PROVE TypeOK'
    BY <1>6 DEF TypeOK, FlagBatch, rbVars, searchVars, Running
  <1>7. ASSUME NEW w \in Worker, IndexingFails(w) PROVE TypeOK'
    BY <1>7 DEF TypeOK, IndexingFails, Process, dbVars, rbVars, searchVars, Running
  <1>8. QED
    BY <1>1, <1>2, <1>3, <1>4, <1>5, <1>6, <1>7 DEF Index

\* So do starts and rebuilds.
LEMMA RebuildTyped ==
    ASSUME TypeOK
    PROVE  /\ \A x \in Server, i \in Rebuild : Start(x, i) \/ BeginRebuild(x, i) => TypeOK'
           /\ \A i \in Rebuild : ReadRows(i) \/ Fill(i) \/ RebuildFails(i) => TypeOK'
  <1>1. ASSUME NEW x \in Server, NEW i \in Rebuild, Start(x, i) PROVE TypeOK'
    <2>1. /\ serving' \subseteq Server
          /\ sparse' \in [Process -> SUBSET Chunk]
          /\ promised' \in [Server -> SUBSET Chunk]
          /\ sc' \in [Search -> {"new", "search", "done", "failed"}]
          /\ \A s \in Search : sc'[s] # "new" => query'[s] \in Query
      BY <1>1 DEF TypeOK, Start, Process
    <2>2. /\ rb' \in [Rebuild -> {"unused", "query", "fill", "ended"}]
          /\ on' \in [Rebuild -> Server \cup {"none"}]
          /\ \A j \in Rebuild : Running(j)' => on'[j] \in Server
      BY <1>1 DEF TypeOK, Start, Running
    <2>3. QED
      BY <1>1, <2>1, <2>2 DEF TypeOK, Start, dbVars, taskVars
  <1>2. ASSUME NEW x \in Server, NEW i \in Rebuild, BeginRebuild(x, i) PROVE TypeOK'
    BY <1>2 DEF TypeOK, BeginRebuild, Process, Running, dbVars, taskVars, searchVars
  <1>3. ASSUME NEW i \in Rebuild, ReadRows(i) PROVE TypeOK'
    BY <1>3 DEF TypeOK, ReadRows, Running, dbVars, taskVars, searchVars
  <1>4. ASSUME NEW i \in Rebuild, Fill(i) PROVE TypeOK'
    BY <1>4 DEF TypeOK, Fill, Process, Running, dbVars, taskVars, searchVars
  <1>5. ASSUME NEW i \in Rebuild, RebuildFails(i) PROVE TypeOK'
    BY <1>5 DEF TypeOK, RebuildFails, Running, dbVars, taskVars, searchVars
  <1>6. QED
    BY <1>1, <1>2, <1>3, <1>4, <1>5

\* What is visible in a replica's index are chunk ids.
LEMMA VisibleChunks ==
    ASSUME TypeOK, NEW x \in Server
    PROVE  Visible(x) \subseteq Chunk
  BY DEF TypeOK, Visible, Process

\* So do searches.
LEMMA SearchTyped ==
    ASSUME TypeOK, NEW s \in Search, Retrieve(s)
    PROVE  TypeOK'
  <1>1. ASSUME NEW u \in User, NEW x \in serving, NEW only \in SUBSET Paper,
               BeginSearch(s, u, x, only)
        PROVE  TypeOK'
    <2>1. [user |-> u, server |-> x, only |-> only] \in Query
      BY DEF Query, TypeOK
    <2>2. /\ query' \in [Search -> Query \cup {NoQuery}]
          /\ allowed' \in [Search -> SUBSET Paper]
          /\ due' \in [Search -> SUBSET Chunk]
          /\ sc' \in [Search -> {"new", "search", "done", "failed"}]
          /\ \A t \in Search : sc'[t] # "new" => query'[t] \in Query
      BY <1>1, <2>1 DEF TypeOK, Matching, BeginSearch, MayRead
    <2>3. QED
      BY <1>1, <2>2 DEF TypeOK, BeginSearch, dbVars, taskVars, rbVars, Running
  <1>2. CASE AskDense(s)
    BY <1>2 DEF TypeOK, AskDense, Best, Matching, dbVars, taskVars, rbVars, Running
  <1>3. CASE AskSparse(s)
    <2>1. query[s].server \in Server
      BY <1>3 DEF TypeOK, AskSparse, Query
    <2>2. hits' \in [Search -> SUBSET Chunk]
      BY <1>3, <2>1, VisibleChunks DEF TypeOK, AskSparse, Matching
    <2>3. QED
      BY <1>3, <2>2 DEF TypeOK, AskSparse, dbVars, taskVars, rbVars, Running
  <1>4. CASE Load(s)
    BY <1>4 DEF TypeOK, Load, Best, dbVars, taskVars, rbVars, Running
  <1>5. CASE SearchFails(s)
    BY <1>5 DEF TypeOK, SearchFails, dbVars, taskVars, rbVars, Running
  <1>6. QED
    BY <1>1, <1>2, <1>3, <1>4, <1>5 DEF Retrieve

LEMMA NextTyped == TypeOK /\ [Next]_vars => TypeOK'
  <1>1. TypeOK /\ Next => TypeOK'
    BY IndexingTyped, RebuildTyped, SearchTyped DEF Next
  <1>2. TypeOK /\ UNCHANGED vars => TypeOK'
    BY DEF vars, TypeOK, dbVars, taskVars, rbVars, searchVars, Running
  <1>3. QED
    BY <1>1, <1>2

\* Every variable keeps its type, for any constants.
THEOREM TypeCorrect == Spec => []TypeOK
  BY InitTyped, NextTyped, PTL DEF Spec

-----------------------------------------------------------------------------
(* Rebuilds *)

\* The rows of a paper are those of its last parse, and a paper has to be there
\* for them.
CurrentRows == \A c \in rows : c.paper \in papers /\ c.gen = gen[c.paper]

\* What was ever read is no newer than the last parse.
PastReads ==
    /\ \A i \in Rebuild : \A c \in snapshot[i] : c.gen <= gen[c.paper]
    /\ \A x \in Server : \A c \in promised[x] : c.gen <= gen[c.paper]

Querying(x) == \E i \in Rebuild : rb[i] = "query" /\ on[i] = x

\* What a replica has read and still exists can be found in its index, or a
\* rebuild is going to read it again.
Covered ==
    \A x \in Server : Querying(x) \/ promised[x] \cap rows \subseteq Visible(x)

RebuildInv == CurrentRows /\ PastReads /\ Covered

LEMMA InitRebuild == Init => RebuildInv
  BY DEF Init, RebuildInv, CurrentRows, PastReads, Covered

\* Papers come, are parsed and go.
LEMMA PapersRebuild ==
    ASSUME TypeOK, RebuildInv, NEW p \in Paper, Upload(p) \/ Publish(p) \/ Delete(p)
    PROVE  RebuildInv'
  <1>1. CASE Upload(p)
    BY <1>1 DEF TypeOK, RebuildInv, CurrentRows, PastReads, Covered, Querying, Visible,
                Upload, rbVars
  <1>2. CASE Publish(p)
    <2>1. CurrentRows'
      BY <1>2 DEF TypeOK, RebuildInv, CurrentRows, Publish, ChunksOf, Chunk
    <2>2. \A q \in Paper : gen[q] <= gen'[q]
      BY <1>2, HybridIndexAssumption DEF TypeOK, Publish
    <2>3. PastReads'
      <3>1. ASSUME NEW c \in Chunk, c.gen <= gen[c.paper]
            PROVE  c.gen <= gen'[c.paper]
        <4>1. c.paper \in Paper /\ c.gen \in Int
          BY DEF Chunk
        <4>2. gen[c.paper] \in Int /\ gen'[c.paper] \in Int
          BY <4>1, <1>2, HybridIndexAssumption DEF TypeOK, Publish
        <4>3. QED
          BY <2>2, <3>1, <4>1, <4>2
      <3>2. QED
        BY <1>2, <3>1 DEF TypeOK, RebuildInv, PastReads, Publish, rbVars
    <2>4. ASSUME NEW x \in Server PROVE promised[x] \cap rows' \subseteq promised[x] \cap rows
      <3>1. gen[p] \in Nat
        BY HybridIndexAssumption DEF TypeOK
      <3>2. [paper |-> p, gen |-> gen[p] + 1] \notin promised[x]
        BY <3>1 DEF RebuildInv, PastReads
      <3>3. QED
        BY <1>2, <3>2 DEF Publish
    <2>5. Covered'
      BY <1>2, <2>4 DEF RebuildInv, Covered, Querying, Visible, Publish, rbVars
    <2>6. QED
      BY <2>1, <2>3, <2>5 DEF RebuildInv
  <1>3. CASE Delete(p)
    BY <1>3 DEF TypeOK, RebuildInv, CurrentRows, PastReads, Covered, Querying, Visible,
                Delete, ChunksOf, rbVars
  <1>4. QED
    BY <1>1, <1>2, <1>3

\* A worker writes to its own index only.
LEMMA IndexingRebuild ==
    ASSUME TypeOK, RebuildInv, NEW w \in Worker, Index(w)
    PROVE  RebuildInv'
  <1>1. /\ UNCHANGED <<papers, gen, rows, rbVars>>
        /\ \A x \in Server : sparse'[x] = sparse[x]
    BY HybridIndexAssumption
    DEF TypeOK, Process, Index, StartIndexing, IndexBatch, FlagBatch, IndexingFails, dbVars
  <1>2. \A x \in Server : Visible(x)' = Visible(x) /\ Querying(x)' = Querying(x)
    BY <1>1 DEF Visible, Querying, rbVars
  <1>3. QED
    BY <1>1, <1>2 DEF RebuildInv, CurrentRows, PastReads, Covered, rbVars

\* Clear, query and fill.
LEMMA RebuildsRebuild ==
    ASSUME TypeOK, RebuildInv
    PROVE  /\ \A x \in Server, i \in Rebuild : Start(x, i) \/ BeginRebuild(x, i) => RebuildInv'
           /\ \A i \in Rebuild : ReadRows(i) \/ Fill(i) \/ RebuildFails(i) => RebuildInv'
  <1>1. ASSUME NEW x \in Server, NEW i \in Rebuild, Start(x, i) PROVE RebuildInv'
    <2>1. CurrentRows' /\ PastReads'
      BY <1>1 DEF TypeOK, RebuildInv, CurrentRows, PastReads, Start, dbVars
    <2>2. Querying(x)'
      BY <1>1 DEF TypeOK, Querying, Start
    <2>3. ASSUME NEW y \in Server, y # x
          PROVE  Querying(y)' \/ (promised[y] \cap rows)' \subseteq Visible(y)'
      <3>1. ASSUME NEW j \in Rebuild, on[j] = y, Running(j)
            PROVE  rb'[j] = rb[j] /\ on'[j] = y /\ snapshot'[j] = snapshot[j]
        BY <1>1, <2>3, <3>1 DEF TypeOK, Start, Running
      <3>2. CASE Querying(y)
        BY <3>1, <3>2 DEF Querying, Running
      <3>3. CASE promised[y] \cap rows \subseteq Visible(y)
        <4>1. Visible(y) \subseteq Visible(y)'
          <5>1. sparse'[y] = sparse[y]
            BY <1>1, <2>3 DEF TypeOK, Start, Process
          <5>2. \A j \in Rebuild : rb[j] = "fill" /\ on[j] = y =>
                    rb'[j] = "fill" /\ on'[j] = y /\ snapshot'[j] = snapshot[j]
            BY <3>1 DEF Running
          <5>3. QED
            BY <5>1, <5>2 DEF Visible
        <4>2. promised'[y] = promised[y] /\ rows' = rows
          BY <1>1, <2>3 DEF TypeOK, Start, dbVars
        <4>3. QED
          BY <3>3, <4>1, <4>2
      <3>4. QED
        BY <3>2, <3>3 DEF RebuildInv, Covered
    <2>4. QED
      BY <2>1, <2>2, <2>3 DEF RebuildInv, Covered
  <1>2. ASSUME NEW x \in Server, NEW i \in Rebuild, BeginRebuild(x, i) PROVE RebuildInv'
    <2>1. CurrentRows' /\ PastReads'
      BY <1>2 DEF RebuildInv, CurrentRows, PastReads, BeginRebuild, dbVars
    <2>2. Querying(x)'
      BY <1>2 DEF TypeOK, Querying, BeginRebuild
    <2>3. ASSUME NEW y \in Server, y # x
          PROVE  Querying(y)' \/ (promised[y] \cap rows)' \subseteq Visible(y)'
      <3>1. sparse'[y] = sparse[y]
        BY <1>2, <2>3 DEF TypeOK, BeginRebuild, Process
      <3>2. \A j \in Rebuild : Running(j) => rb'[j] = rb[j] /\ on'[j] = on[j]
        BY <1>2 DEF TypeOK, BeginRebuild, Running
      <3>3. Querying(y) => Querying(y)'
        BY <3>2 DEF Querying, Running
      <3>4. Visible(y) \subseteq Visible(y)'
        BY <1>2, <3>1, <3>2 DEF Visible, Running, BeginRebuild
      <3>5. QED
        BY <1>2, <3>3, <3>4 DEF RebuildInv, Covered, BeginRebuild, dbVars
    <2>4. QED
      BY <2>1, <2>2, <2>3 DEF RebuildInv, Covered
  <1>3. ASSUME NEW i \in Rebuild, ReadRows(i) PROVE RebuildInv'
    <2>1. CurrentRows'
      BY <1>3 DEF RebuildInv, CurrentRows, ReadRows, dbVars
    <2>2. PastReads'
      <3>1. \A c \in rows : c.gen <= gen[c.paper]
        BY HybridIndexAssumption DEF TypeOK, RebuildInv, CurrentRows, Chunk
      <3>2. QED
        BY <1>3, <3>1 DEF TypeOK, RebuildInv, PastReads, ReadRows, dbVars
    <2>3. ASSUME NEW y \in Server
          PROVE  Querying(y)' \/ (promised[y] \cap rows)' \subseteq Visible(y)'
      <3>1. CASE on[i] = y
        BY <1>3, <3>1 DEF TypeOK, ReadRows, Visible, dbVars
      <3>2. CASE on[i] # y
        <4>1. Querying(y) => Querying(y)'
          BY <1>3, <3>2 DEF TypeOK, Querying, ReadRows
        <4>2. Visible(y) \subseteq Visible(y)'
          BY <1>3, <3>2 DEF TypeOK, Visible, ReadRows
        <4>3. QED
          BY <1>3, <4>1, <4>2 DEF RebuildInv, Covered, ReadRows, dbVars
      <3>3. QED
        BY <3>1, <3>2
    <2>4. QED
      BY <2>1, <2>2, <2>3 DEF RebuildInv, Covered
  <1>4. ASSUME NEW i \in Rebuild, Fill(i) PROVE RebuildInv'
    <2>1. CurrentRows' /\ PastReads'
      BY <1>4 DEF TypeOK, RebuildInv, CurrentRows, PastReads, Fill, Running, dbVars
    <2>2. ASSUME NEW y \in Server
          PROVE  Querying(y)' \/ (promised[y] \cap rows)' \subseteq Visible(y)'
      <3>1. Querying(y) => Querying(y)'
        BY <1>4 DEF TypeOK, Querying, Fill
      <3>2. CASE on[i] = y
        <4>1. /\ promised'[y] = promised[y] \cup snapshot[i]
              /\ sparse'[y] = sparse[y] \cup snapshot[i]
          BY <1>4, <3>2 DEF TypeOK, Fill, Process
        <4>2. \A j \in Rebuild \ {i} : rb'[j] = rb[j]
          BY <1>4 DEF TypeOK, Fill
        <4>3. Visible(y) \subseteq Visible(y)'
          BY <1>4, <4>1, <4>2 DEF Visible, Fill
        <4>4. snapshot[i] \subseteq Visible(y)'
          BY <4>1 DEF Visible
        <4>5. QED
          BY <1>4, <3>1, <4>1, <4>3, <4>4 DEF RebuildInv, Covered, Fill, dbVars
      <3>3. CASE on[i] # y
        <4>1. promised'[y] = promised[y] /\ sparse'[y] = sparse[y]
          BY <1>4, <3>3 DEF TypeOK, Fill, Process
        <4>2. \A j \in Rebuild : on[j] = y => rb'[j] = rb[j]
          BY <1>4, <3>3 DEF TypeOK, Fill
        <4>3. Visible(y) \subseteq Visible(y)'
          BY <1>4, <4>1, <4>2 DEF Visible, Fill
        <4>4. QED
          BY <1>4, <3>1, <4>1, <4>3 DEF RebuildInv, Covered, Fill, dbVars
      <3>4. QED
        BY <3>2, <3>3
    <2>3. QED
      BY <2>1, <2>2 DEF RebuildInv, Covered
  <1>5. ASSUME NEW i \in Rebuild, RebuildFails(i) PROVE RebuildInv'
    <2>1. on[i] \in Server
      BY <1>5 DEF TypeOK, RebuildFails, Running
    <2>2. CurrentRows' /\ PastReads'
      BY <1>5, <2>1 DEF TypeOK, RebuildInv, CurrentRows, PastReads, RebuildFails, dbVars
    <2>3. ASSUME NEW y \in Server, y # on[i]
          PROVE  Querying(y)' \/ (promised[y] \cap rows)' \subseteq Visible(y)'
      <3>1. Querying(y) => Querying(y)'
        BY <1>5, <2>3 DEF TypeOK, Querying, RebuildFails
      <3>2. Visible(y) \subseteq Visible(y)'
        BY <1>5, <2>3 DEF TypeOK, Visible, RebuildFails
      <3>3. promised'[y] = promised[y] /\ rows' = rows
        BY <1>5, <2>3 DEF TypeOK, RebuildFails, dbVars
      <3>4. QED
        BY <3>1, <3>2, <3>3 DEF RebuildInv, Covered
    <2>4. promised'[on[i]] = {}
      BY <1>5, <2>1 DEF TypeOK, RebuildFails
    <2>5. QED
      BY <2>2, <2>3, <2>4 DEF RebuildInv, Covered
  <1>6. QED
    BY <1>1, <1>2, <1>3, <1>4, <1>5

\* Searches only read.
LEMMA SearchesRead ==
    ASSUME NEW s \in Search, Retrieve(s)
    PROVE  UNCHANGED <<dbVars, dense, sparse, serving, taskVars, rbVars>>
  BY DEF Retrieve, BeginSearch, AskDense, AskSparse, Load, SearchFails

LEMMA NextRebuild == TypeOK /\ RebuildInv /\ [Next]_vars => RebuildInv'
  <1>1. TypeOK /\ RebuildInv /\ Next => RebuildInv'
    <2>1. ASSUME RebuildInv, NEW s \in Search, Retrieve(s) PROVE RebuildInv'
      BY <2>1, SearchesRead
      DEF RebuildInv, CurrentRows, PastReads, Covered, Querying, Visible, dbVars, rbVars
    <2>2. QED
      BY <2>1, PapersRebuild, IndexingRebuild, RebuildsRebuild DEF Next
  <1>2. RebuildInv /\ UNCHANGED vars => RebuildInv'
    BY DEF vars, RebuildInv, CurrentRows, PastReads, Covered, Querying, Visible, dbVars, rbVars
  <1>3. QED
    BY <1>1, <1>2

\* Overlapping rebuilds of a replica's index never lose a row that one of them
\* has read, for any number of replicas, rebuilds and restarts.
THEOREM WarmComplete == Spec => []WarmIndexIsComplete
  <1>1. RebuildInv => WarmIndexIsComplete
    BY DEF RebuildInv, Covered, Querying, Visible, WarmIndexIsComplete, Settled, Running
  <1>2. QED
    BY <1>1, InitTyped, NextTyped, InitRebuild, NextRebuild, PTL DEF Spec

-----------------------------------------------------------------------------
(* Searches *)

\* Search s may show paper p.
MayShow(s, p) ==
    /\ OwnerOf[p] = query[s].user
    /\ query[s].only = {} \/ p \in query[s].only

\* A search looks at papers it may show only, and shows nothing else; before it
\* begins it has seen nothing.
Scoped ==
    \A s \in Search :
        /\ sc[s] = "new" => hits[s] = {} /\ result[s] = {}
        /\ sc[s] # "new" => \A p \in allowed[s] : MayShow(s, p)
        /\ \A c \in hits[s] \cup result[s] : c.paper \in allowed[s]

LEMMA InitScoped == Init => Scoped
  BY DEF Init, Scoped

\* Steps of a search.
LEMMA SearchScoped ==
    ASSUME TypeOK, Scoped, NEW s \in Search, Retrieve(s)
    PROVE  Scoped'
  <1>1. ASSUME NEW u \in User, NEW x \in serving, NEW only \in SUBSET Paper,
               BeginSearch(s, u, x, only)
        PROVE  Scoped'
    <2>1. /\ sc[s] = "new" /\ sc'[s] # "new"
          /\ query'[s] = [user |-> u, server |-> x, only |-> only]
          /\ allowed'[s] = MayRead(u, only)
          /\ UNCHANGED <<hits, result>>
      BY <1>1 DEF TypeOK, BeginSearch
    <2>2. \A t \in Search \ {s} :
            sc'[t] = sc[t] /\ query'[t] = query[t] /\ allowed'[t] = allowed[t]
      BY <1>1 DEF TypeOK, BeginSearch
    <2>3. \A p \in allowed'[s] : MayShow(s, p)'
      BY <2>1 DEF MayShow, MayRead
    <2>4. \A t \in Search \ {s} : \A p \in allowed[t] : MayShow(t, p)' <=> MayShow(t, p)
      BY <2>2 DEF MayShow
    <2>5. QED
      BY <2>1, <2>2, <2>3, <2>4 DEF Scoped
  <1>2. CASE AskDense(s)
    <2>1. \A c \in hits'[s] : c \in hits[s] \/ c.paper \in allowed[s]
      BY <1>2 DEF TypeOK, AskDense, Best, Matching
    <2>2. \A t \in Search \ {s} : hits'[t] = hits[t]
      BY <1>2 DEF TypeOK, AskDense
    <2>3. sc[s] # "new" /\ UNCHANGED <<sc, query, allowed, result>>
      BY <1>2 DEF AskDense
    <2>4. QED
      BY <2>1, <2>2, <2>3 DEF Scoped, MayShow
  <1>3. CASE AskSparse(s)
    <2>1. \A c \in hits'[s] : c \in hits[s] \/ c.paper \in allowed[s]
      BY <1>3 DEF TypeOK, AskSparse, Matching
    <2>2. \A t \in Search \ {s} : hits'[t] = hits[t]
      BY <1>3 DEF TypeOK, AskSparse
    <2>3. sc[s] # "new" /\ UNCHANGED <<sc, query, allowed, result>>
      BY <1>3 DEF AskSparse
    <2>4. QED
      BY <2>1, <2>2, <2>3 DEF Scoped, MayShow
  <1>4. CASE Load(s)
    <2>1. \A c \in result'[s] : c \in hits[s]
      BY <1>4 DEF TypeOK, Load, Best
    <2>2. \A t \in Search \ {s} : result'[t] = result[t] /\ sc'[t] = sc[t]
      BY <1>4 DEF TypeOK, Load
    <2>3. sc[s] # "new" /\ sc'[s] # "new" /\ UNCHANGED <<query, allowed, hits>>
      BY <1>4 DEF TypeOK, Load
    <2>4. QED
      BY <2>1, <2>2, <2>3 DEF Scoped, MayShow
  <1>5. CASE SearchFails(s)
    BY <1>5 DEF TypeOK, SearchFails, Scoped, MayShow
  <1>6. QED
    BY <1>1, <1>2, <1>3, <1>4, <1>5 DEF Retrieve

\* Any other step leaves a search alone, or fails it when its replica restarts.
LEMMA OthersLeaveSearches ==
    ASSUME TypeOK, [Next]_vars, ~(\E s \in Search : Retrieve(s))
    PROVE  /\ UNCHANGED <<query, allowed, waiting, hits, result, due>>
           /\ \A s \in Search : sc'[s] = sc[s] \/ (sc[s] = "search" /\ sc'[s] = "failed")
  <1>1. CASE UNCHANGED searchVars
    BY <1>1 DEF searchVars
  <1>2. CASE \E x \in Server, i \in Rebuild : Start(x, i)
    BY <1>2 DEF TypeOK, Start
  <1>3. QED
    BY <1>1, <1>2
    DEF Next, vars, Upload, Publish, Delete, Index, StartIndexing, IndexBatch, FlagBatch,
        IndexingFails, BeginRebuild, ReadRows, Fill, RebuildFails

LEMMA NextScoped == TypeOK /\ Scoped /\ [Next]_vars => Scoped'
  <1>1. ASSUME TypeOK, Scoped, [Next]_vars, ~(\E s \in Search : Retrieve(s))
        PROVE  Scoped'
    BY <1>1, OthersLeaveSearches DEF Scoped, MayShow
  <1>2. QED
    BY <1>1, SearchScoped

\* Nobody is shown a passage of somebody else's paper, or of a paper outside the
\* filter, for any papers, users and interleaving.
THEOREM Authorization == Spec => []SearchIsAuthorized
  <1>1. TypeOK /\ Scoped => SearchIsAuthorized
    BY DEF Scoped, SearchIsAuthorized, Authorized, MayShow
  <1>2. QED
    BY <1>1, InitTyped, NextTyped, InitScoped, NextScoped, PTL DEF Spec

\* Passages are loaded from the rows of one moment, which are of one parse.
LEMMA NextUnmixed ==
    TypeOK /\ RebuildInv /\ NoMixedParses /\ [Next]_vars => NoMixedParses'
  <1>1. ASSUME TypeOK, RebuildInv, NoMixedParses, NEW s \in Search, Retrieve(s)
        PROVE  NoMixedParses'
    <2>1. CASE Load(s)
      <3>1. \A c, d \in result'[s] : c.paper = d.paper => c.gen = d.gen
        BY <1>1, <2>1 DEF TypeOK, Load, RebuildInv, CurrentRows
      <3>2. \A t \in Search \ {s} : result'[t] = result[t]
        BY <2>1 DEF TypeOK, Load
      <3>3. QED
        BY <1>1, <3>1, <3>2 DEF NoMixedParses
    <2>2. CASE UNCHANGED result
      BY <1>1, <2>2 DEF NoMixedParses
    <2>3. QED
      BY <1>1, <2>1, <2>2 DEF Retrieve, BeginSearch, AskDense, AskSparse, SearchFails
  <1>2. ASSUME TypeOK, NoMixedParses, [Next]_vars, ~(\E s \in Search : Retrieve(s))
        PROVE  NoMixedParses'
    BY <1>2, OthersLeaveSearches DEF NoMixedParses
  <1>3. QED
    BY <1>1, <1>2

\* No search mixes the passages of two parses of a paper.
THEOREM Unmixed == Spec => []NoMixedParses
  <1>1. Init => NoMixedParses
    BY DEF Init, NoMixedParses
  <1>2. QED
    BY <1>1, InitTyped, NextTyped, InitRebuild, NextRebuild, NextUnmixed, PTL DEF Spec

-----------------------------------------------------------------------------
(* What is embedded is found *)

\* Enough candidates for every chunk there can be.
Ample == Candidates > Cardinality(Chunk)

LEMMA ChunkFinite == IsFiniteSet(Chunk) /\ Cardinality(Chunk) \in Nat
  <1> DEFINE pair == [c \in Chunk |-> <<c.paper, c.gen>>]
  <1>0. MaxParses \in Int /\ IsFiniteSet(Paper)
    BY HybridIndexAssumption
  <1>a. IsFiniteSet(1..MaxParses)
    BY <1>0, FS_Interval
  <1>1. IsFiniteSet(Paper \X (1..MaxParses))
    BY <1>0, <1>a, FS_Product
  <1>2. pair \in [Chunk -> Paper \X (1..MaxParses)]
    BY DEF Chunk
  <1>3. ASSUME NEW c \in Chunk, NEW d \in Chunk, pair[c] = pair[d]
        PROVE  c = d
    BY <1>3 DEF Chunk
  <1>4. pair \in Injection(Chunk, Paper \X (1..MaxParses))
    BY <1>2, <1>3 DEF Injection, IsInjective
  <1>5. IsFiniteSet(Chunk)
    BY <1>1, <1>4, FS_Injection
  <1>6. QED
    BY <1>5, FS_CardinalityType

\* With that many candidates the best matches are all matches.
LEMMA BestIsAll ==
    ASSUME Ample, NEW S \in SUBSET Chunk, NEW H \in Best(S)
    PROVE  H = S
  <1>1. H \subseteq Chunk
    BY DEF Best
  <1>2. Cardinality(H) <= Cardinality(Chunk) /\ IsFiniteSet(H)
    BY <1>1, ChunkFinite, FS_Subset
  <1>3. Cardinality(H) # Candidates
    BY <1>2, ChunkFinite, FS_CardinalityType, HybridIndexAssumption DEF Ample
  <1>4. QED
    BY <1>3 DEF Best

\* Flags follow the vector store.
Backed ==
    /\ embedded \subseteq dense
    /\ \A w \in Worker : task[w] = "flag" => taken[w] \subseteq dense

\* A search expects chunks of the vector store only, and has found them once the
\* store has answered.
Expecting ==
    \A s \in Search :
        /\ sc[s] = "new" => "dense" \in waiting[s]
        /\ due[s] \subseteq Matching(dense, allowed[s])
        /\ Ample /\ sc[s] = "search" /\ "dense" \notin waiting[s] => due[s] \subseteq hits[s]

LEMMA InitBacked == Init => Backed /\ Expecting
  BY DEF Init, Backed, Expecting

\* Nothing is ever removed from the vector store.
LEMMA DenseGrows == TypeOK /\ [Next]_vars => dense \subseteq dense'
  BY DEF Next, vars, Upload, Publish, Delete, Index, StartIndexing, IndexBatch, FlagBatch,
         IndexingFails, Start, BeginRebuild, ReadRows, Fill, RebuildFails, Retrieve,
         BeginSearch, AskDense, AskSparse, Load, SearchFails

LEMMA NextBacked == TypeOK /\ Backed /\ [Next]_vars => Backed'
  <1> SUFFICES ASSUME TypeOK, Backed, [Next]_vars PROVE Backed'
    OBVIOUS
  <1>1. ASSUME NEW p \in Paper, Upload(p) \/ Publish(p) \/ Delete(p) PROVE Backed'
    BY <1>1 DEF Backed, Upload, Publish, Delete, taskVars
  <1>2. ASSUME NEW w \in Worker, StartIndexing(w) \/ IndexBatch(w) PROVE Backed'
    BY <1>2 DEF TypeOK, Backed, StartIndexing, IndexBatch, dbVars
  <1>3. ASSUME NEW w \in Worker, FlagBatch(w) \/ IndexingFails(w) PROVE Backed'
    BY <1>3 DEF TypeOK, Backed, FlagBatch, IndexingFails, dbVars
  <1>4. CASE UNCHANGED <<embedded, dense, taskVars>>
    BY <1>4 DEF Backed, taskVars
  <1>5. QED
    BY <1>1, <1>2, <1>3, <1>4
    DEF Next, vars, dbVars, Index, Start, BeginRebuild, ReadRows, Fill, RebuildFails,
        Retrieve, BeginSearch, AskDense, AskSparse, Load, SearchFails

LEMMA NextExpecting == TypeOK /\ Backed /\ Expecting /\ [Next]_vars => Expecting'
  <1> SUFFICES ASSUME TypeOK, Backed, Expecting, [Next]_vars PROVE Expecting'
    OBVIOUS
  <1>1. dense \subseteq dense'
    BY DenseGrows
  <1>2. ASSUME NEW s \in Search, Retrieve(s) PROVE Expecting'
    <2>1. ASSUME NEW u \in User, NEW x \in serving, NEW only \in SUBSET Paper,
                 BeginSearch(s, u, x, only)
          PROVE  Expecting'
      <3>1. /\ sc[s] = "new" /\ sc'[s] # "new"
            /\ allowed'[s] = MayRead(u, only)
            /\ due'[s] = Matching(embedded, MayRead(u, only))
            /\ UNCHANGED <<waiting, hits, dense>>
        BY <2>1 DEF TypeOK, BeginSearch
      <3>2. \A t \in Search \ {s} :
              sc'[t] = sc[t] /\ due'[t] = due[t] /\ allowed'[t] = allowed[t]
        BY <2>1 DEF TypeOK, BeginSearch
      <3>3. due'[s] \subseteq Matching(dense, allowed[s])'
        BY <3>1 DEF Backed, Matching
      <3>4. QED
        BY <3>1, <3>2, <3>3 DEF Expecting, Matching
    <2>2. CASE AskDense(s)
      <3>1. PICK best \in Best(Matching(dense, allowed[s])) :
              hits' = [hits EXCEPT ![s] = @ \cup best]
        BY <2>2 DEF AskDense
      <3>2. Ample => best = Matching(dense, allowed[s])
        BY BestIsAll DEF TypeOK, Matching
      <3>3. Ample => due[s] \subseteq hits'[s]
        BY <3>1, <3>2 DEF TypeOK, Expecting
      <3>4. /\ UNCHANGED <<dense, sc, allowed, due>>
            /\ sc[s] # "new"
            /\ \A t \in Search \ {s} : waiting'[t] = waiting[t] /\ hits'[t] = hits[t]
        BY <2>2, <3>1 DEF TypeOK, AskDense
      <3>5. QED
        BY <3>3, <3>4 DEF Expecting
    <2>3. CASE AskSparse(s)
      <3>1. /\ UNCHANGED <<dense, sc, allowed, due>>
            /\ \A t \in Search : hits[t] \subseteq hits'[t]
            /\ \A t \in Search : "dense" \in waiting'[t] <=> "dense" \in waiting[t]
        BY <2>3 DEF TypeOK, AskSparse
      <3>2. QED
        BY <3>1 DEF Expecting
    <2>4. CASE Load(s) \/ SearchFails(s)
      <3>1. /\ UNCHANGED <<dense, allowed, due, waiting, hits>>
            /\ sc'[s] \notin {"new", "search"}
            /\ \A t \in Search \ {s} : sc'[t] = sc[t]
        BY <2>4 DEF TypeOK, Load, SearchFails
      <3>2. QED
        BY <3>1 DEF Expecting
    <2>5. QED
      BY <1>2, <2>1, <2>2, <2>3, <2>4 DEF Retrieve
  <1>3. CASE ~(\E s \in Search : Retrieve(s))
    BY <1>1, <1>3, OthersLeaveSearches DEF Expecting, Matching
  <1>4. QED
    BY <1>2, <1>3

\* What was embedded when a search began is found, with enough candidates,
\* whatever is indexed, rebuilt, restarted or deleted meanwhile.
THEOREM Findable == Spec => EmbeddedIsFindable
  <1> DEFINE Finds == \A s \in Search :
                Loads(s) /\ Ample => due[s] \cap rows \subseteq result'[s]
  <1>1. TypeOK /\ Expecting /\ [Next]_vars => [Finds]_vars
    <2> SUFFICES ASSUME TypeOK, Expecting, Next, NEW s \in Search, Loads(s), Ample
                 PROVE  due[s] \cap rows \subseteq result'[s]
      OBVIOUS
    <2>1. Load(s)
      <3>1. PICK t \in Search : Retrieve(t)
        BY OthersLeaveSearches DEF Loads
      <3>2. \A r \in Search \ {t} : sc'[r] = sc[r]
        BY <3>1 DEF TypeOK, Retrieve, BeginSearch, AskDense, AskSparse, Load, SearchFails
      <3>3. t = s
        BY <3>2 DEF Loads
      <3>4. QED
        BY <3>1, <3>3
        DEF TypeOK, Loads, Retrieve, BeginSearch, AskDense, AskSparse, SearchFails
    <2>2. PICK fused \in Best(hits[s]) : result' = [result EXCEPT ![s] = fused \cap rows]
      BY <2>1 DEF Load
    <2>3. fused = hits[s]
      BY <2>2, BestIsAll DEF TypeOK
    <2>4. due[s] \subseteq hits[s]
      BY <2>1 DEF Expecting, Load
    <2>5. QED
      BY <2>2, <2>3, <2>4 DEF TypeOK
  <1>2. [][Finds]_vars => EmbeddedIsFindable
    BY PTL DEF EmbeddedIsFindable, Ample
  <1>3. QED
    BY <1>1, <1>2, InitTyped, NextTyped, InitBacked, NextBacked, NextExpecting, PTL
    DEF Spec

===============================================================================
