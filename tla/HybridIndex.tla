------------------------------ MODULE HybridIndex ------------------------------
(***************************************************************************)
(* Hybrid search over two indexes with different lives: the dense vectors  *)
(* in a store all processes share, and a BM25 index in the memory of each  *)
(* process, rebuilt from the database when an API replica starts or an     *)
(* administrator asks for it.  (retrieval/service.py, retrieval/indexer.py,*)
(* retrieval/sparse.py, main.py)                                           *)
(*                                                                         *)
(* What Ingestion says in detail is summarised here: a parse replaces a    *)
(* paper's chunks in one transaction, one chunk standing for all, and a    *)
(* worker embeds what is not embedded.  Scores and ranks are left open: a  *)
(* retriever may return any choice of its best matches.                    *)
(***************************************************************************)
EXTENDS Integers, FiniteSets

CONSTANTS
    Paper, User,
    OwnerOf,        \* the user who owns the workspace of each paper
    Server,         \* API replicas
    Worker,         \* Celery workers
    Rebuild,        \* rebuilds of a BM25 index
    Search,         \* search requests
    MaxParses,      \* bound on the parses of a paper
    Candidates,     \* candidate_count
    MayFail         \* may database, stores and providers fail?

ASSUME HybridIndexAssumption ==
    /\ IsFiniteSet(Paper)
    /\ OwnerOf \in [Paper -> User]
    /\ Server \cap Worker = {}
    /\ MaxParses \in Nat
    /\ Candidates \in Nat
    /\ MayFail \in BOOLEAN

VARIABLES
    papers,         \* the rows of papers
    gen,            \* how many parses of each paper were published
    rows,           \* the rows of document_chunks
    embedded,       \* those with is_embedded
    dense,          \* chunk ids in the vector store, Qdrant as deployed: the memory and
                    \* FAISS backends hold theirs in each process (Ranking)
    sparse,         \* chunk ids in the BM25 index of each process
    serving,        \* replicas that have started up
    task, taken,    \* where each worker's index_paper is, and its chunks
    rb, on,         \* where each rebuild is, and in which replica
    snapshot,       \* the rows its query returned
    sc, query,      \* where each search is, and what it asks where
    allowed,        \* the papers it may return
    waiting,        \* the retrievers that have not answered it
    hits,           \* chunk ids the retrievers have answered
    result,         \* the chunks whose rows were loaded, before reranking and the cut
    promised,       \* history: rows the finished rebuilds of a replica have read
    due             \* history: chunks a search could have expected at its start

dbVars     == <<papers, gen, rows, embedded>>
taskVars   == <<task, taken>>
rbVars     == <<rb, on, snapshot, promised>>
searchVars == <<sc, query, allowed, waiting, hits, result, due>>
vars == <<dbVars, dense, sparse, serving, taskVars, rbVars, searchVars>>

Process == Server \cup Worker

Chunk == [paper : Paper, gen : 1..MaxParses]

Query == [user : User, server : Server, only : SUBSET Paper]

ChunksOf(p) == {c \in rows : c.paper = p}

\* The matching chunks of the papers in P.
Matching(S, P) == {c \in S : c.paper \in P}

\* The best of S by any scores: all of it, or as many as asked for.
Best(S) == {H \in SUBSET S : \/ H = S /\ Cardinality(S) <= Candidates
                             \/ Cardinality(H) = Candidates}

-----------------------------------------------------------------------------
(* Papers and their indexing *)

Upload(p) ==
    /\ p \notin papers /\ gen[p] = 0
    /\ papers' = papers \cup {p}
    /\ UNCHANGED <<gen, rows, embedded, dense, sparse, serving, taskVars, rbVars, searchVars>>

\* A parse, the first one or that of a redelivered process_paper.
Publish(p) ==
    /\ p \in papers /\ gen[p] < MaxParses
    /\ gen' = [gen EXCEPT ![p] = @ + 1]
    /\ rows' = (rows \ ChunksOf(p)) \cup {[paper |-> p, gen |-> gen[p] + 1]}
    /\ embedded' = embedded \ ChunksOf(p)
    /\ UNCHANGED <<papers, dense, sparse, serving, taskVars, rbVars, searchVars>>

\* delete_paper leaves the vectors and the BM25 entries where they are.
Delete(p) ==
    /\ p \in papers
    /\ papers' = papers \ {p}
    /\ rows' = rows \ ChunksOf(p)
    /\ embedded' = embedded \ ChunksOf(p)
    /\ UNCHANGED <<gen, dense, sparse, serving, taskVars, rbVars, searchVars>>

\* Mutant: the chunks are flagged when they are picked up.
StartIndexing_FlagsFirst(w) == \E p \in papers : LET work == ChunksOf(p) \ embedded IN
    /\ task[w] = "idle" /\ work # {}
    /\ task' = [task EXCEPT ![w] = "embed"]
    /\ taken' = [taken EXCEPT ![w] = work]
    /\ embedded' = embedded \cup work
    /\ UNCHANGED <<papers, gen, rows, dense, sparse, serving, rbVars, searchVars>>

StartIndexing(w) == \E p \in papers : LET work == ChunksOf(p) \ embedded IN
    /\ task[w] = "idle" /\ work # {}
    /\ task' = [task EXCEPT ![w] = "embed"]
    /\ taken' = [taken EXCEPT ![w] = work]
    /\ UNCHANGED <<dbVars, dense, sparse, serving, rbVars, searchVars>>

\* The upsert into the shared store, and bm25.add in the worker's own memory.
IndexBatch(w) ==
    /\ task[w] = "embed"
    /\ dense' = dense \cup taken[w]
    /\ sparse' = [sparse EXCEPT ![w] = @ \cup taken[w]]
    /\ task' = [task EXCEPT ![w] = "flag"]
    /\ UNCHANGED <<dbVars, serving, taken, rbVars, searchVars>>

FlagBatch(w) ==
    /\ task[w] = "flag"
    /\ embedded' = embedded \cup (taken[w] \cap rows)
    /\ task' = [task EXCEPT ![w] = "idle"]
    /\ taken' = [taken EXCEPT ![w] = {}]
    /\ UNCHANGED <<papers, gen, rows, dense, sparse, serving, rbVars, searchVars>>

\* The run raises, and a worker that dies loses its memory too; a retry or a
\* redelivery starts over.
IndexingFails(w) ==
    /\ MayFail /\ task[w] # "idle"
    /\ task' = [task EXCEPT ![w] = "idle"]
    /\ taken' = [taken EXCEPT ![w] = {}]
    /\ sparse' \in {sparse, [sparse EXCEPT ![w] = {}]}
    /\ UNCHANGED <<dbVars, dense, serving, rbVars, searchVars>>

-----------------------------------------------------------------------------
(* Start-up and rebuild_sparse_index: clear, one awaited query, fill *)

Running(i) == rb[i] \in {"query", "fill"}

\* A replica is started, or restarted: its memory and its requests are gone, and
\* lifespan rebuilds the index before the replica serves.
Start(x, i) ==
    /\ rb[i] = "unused"
    /\ serving' = serving \ {x}
    /\ sparse' = [sparse EXCEPT ![x] = {}]
    /\ promised' = [promised EXCEPT ![x] = {}]
    /\ rb' = [j \in Rebuild |-> IF j = i THEN "query"
                                ELSE IF Running(j) /\ on[j] = x THEN "ended" ELSE rb[j]]
    /\ on' = [on EXCEPT ![i] = x]
    /\ sc' = [s \in Search |-> IF sc[s] = "search" /\ query[s].server = x
                               THEN "failed" ELSE sc[s]]
    /\ UNCHANGED <<dbVars, dense, taskVars, snapshot, query, allowed, waiting, hits,
                   result, due>>

\* POST /admin/reindex-sparse.  A second one may come before the first is done.
BeginRebuild(x, i) ==
    /\ x \in serving /\ rb[i] = "unused"
    /\ sparse' = [sparse EXCEPT ![x] = {}]
    /\ rb' = [rb EXCEPT ![i] = "query"]
    /\ on' = [on EXCEPT ![i] = x]
    /\ UNCHANGED <<dbVars, dense, serving, taskVars, snapshot, promised, searchVars>>

\* The database answers; the process gets to see it later.
ReadRows(i) ==
    /\ rb[i] = "query"
    /\ snapshot' = [snapshot EXCEPT ![i] = rows]
    /\ rb' = [rb EXCEPT ![i] = "fill"]
    /\ UNCHANGED <<dbVars, dense, sparse, serving, taskVars, on, promised, searchVars>>

\* Mutant: the rows replace the index instead of being added to a cleared one.
Fill_Replaces(i) ==
    /\ rb[i] = "fill"
    /\ sparse' = [sparse EXCEPT ![on[i]] = snapshot[i]]
    /\ promised' = [promised EXCEPT ![on[i]] = @ \cup snapshot[i]]
    /\ rb' = [rb EXCEPT ![i] = "ended"]
    /\ serving' = serving \cup {on[i]}
    /\ UNCHANGED <<dbVars, dense, taskVars, on, snapshot, searchVars>>

\* bm25.add for every row, whether its chunk is embedded or not.
Fill(i) ==
    /\ rb[i] = "fill"
    /\ sparse' = [sparse EXCEPT ![on[i]] = @ \cup snapshot[i]]
    /\ promised' = [promised EXCEPT ![on[i]] = @ \cup snapshot[i]]
    /\ rb' = [rb EXCEPT ![i] = "ended"]
    /\ serving' = serving \cup {on[i]}
    /\ UNCHANGED <<dbVars, dense, taskVars, on, snapshot, searchVars>>

\* The query raises: the index stays as empty as it was cleared, and a replica
\* that was starting up serves all the same.
RebuildFails(i) ==
    /\ MayFail /\ rb[i] = "query"
    /\ promised' = [promised EXCEPT ![on[i]] = {}]
    /\ rb' = [rb EXCEPT ![i] = "ended"]
    /\ serving' = serving \cup {on[i]}
    /\ UNCHANGED <<dbVars, dense, sparse, taskVars, on, snapshot, searchVars>>

-----------------------------------------------------------------------------
(* retrieve *)

\* _allowed_paper_ids: the papers user u may read among those asked about.
MayRead(u, only) == {p \in papers : OwnerOf[p] = u /\ (only = {} \/ p \in only)}

\* Mutant: the caller's paper filter is pushed down without the papers it may see.
BeginSearch_FilterOnly(s, u, x, only) ==
    LET mine == IF only = {} THEN MayRead(u, only) ELSE only IN
    /\ sc[s] = "new"
    /\ query' = [query EXCEPT ![s] = [user |-> u, server |-> x, only |-> only]]
    /\ allowed' = [allowed EXCEPT ![s] = mine]
    /\ due' = [due EXCEPT ![s] = Matching(embedded, mine)]
    /\ sc' = [sc EXCEPT ![s] = IF mine = {} THEN "done" ELSE "search"]
    /\ UNCHANGED <<dbVars, dense, sparse, serving, taskVars, rbVars, waiting, hits, result>>

\* Without a paper the caller may read, the search is over.
BeginSearch(s, u, x, only) ==
    LET mine == MayRead(u, only) IN
    /\ sc[s] = "new"
    /\ query' = [query EXCEPT ![s] = [user |-> u, server |-> x, only |-> only]]
    /\ allowed' = [allowed EXCEPT ![s] = mine]
    /\ due' = [due EXCEPT ![s] = Matching(embedded, mine)]
    /\ sc' = [sc EXCEPT ![s] = IF mine = {} THEN "done" ELSE "search"]
    /\ UNCHANGED <<dbVars, dense, sparse, serving, taskVars, rbVars, waiting, hits, result>>

\* The two retrievers run concurrently, so in either order.
AskDense(s) ==
    /\ sc[s] = "search" /\ "dense" \in waiting[s]
    /\ \E best \in Best(Matching(dense, allowed[s])) :
        hits' = [hits EXCEPT ![s] = @ \cup best]
    /\ waiting' = [waiting EXCEPT ![s] = @ \ {"dense"}]
    /\ UNCHANGED <<dbVars, dense, sparse, serving, taskVars, rbVars, sc, query, allowed,
                   result, due>>

\* What a thread reading the index of replica x may find: a fill is under way
\* from the moment the rows have been read.
Visible(x) == sparse[x] \cup UNION {snapshot[i] : i \in {j \in Rebuild : rb[j] = "fill" /\ on[j] = x}}

\* Only chunks that share a term with the query have a score.
AskSparse(s) ==
    /\ sc[s] = "search" /\ "sparse" \in waiting[s]
    /\ \E best \in SUBSET Matching(Visible(query[s].server), allowed[s]) :
        /\ Cardinality(best) <= Candidates
        /\ hits' = [hits EXCEPT ![s] = @ \cup best]
    /\ waiting' = [waiting EXCEPT ![s] = @ \ {"sparse"}]
    /\ UNCHANGED <<dbVars, dense, sparse, serving, taskVars, rbVars, sc, query, allowed,
                   result, due>>

\* Mutant: the chunks are taken from the indexes, not from the database.
Load_FromIndex(s) ==
    /\ sc[s] = "search" /\ waiting[s] = {}
    /\ \E fused \in Best(hits[s]) : result' = [result EXCEPT ![s] = fused]
    /\ sc' = [sc EXCEPT ![s] = "done"]
    /\ UNCHANGED <<dbVars, dense, sparse, serving, taskVars, rbVars, query, allowed, waiting,
                   hits, due>>

\* reciprocal_rank_fusion keeps the best of both lists, and _load_chunks drops
\* what has no row any more.  The reranker's order and its cut to the limit of the
\* request (service.py:185-188) are left out: result is what it is handed, and
\* Ranking has the rest.
Load(s) ==
    /\ sc[s] = "search" /\ waiting[s] = {}
    /\ \E fused \in Best(hits[s]) : result' = [result EXCEPT ![s] = fused \cap rows]
    /\ sc' = [sc EXCEPT ![s] = "done"]
    /\ UNCHANGED <<dbVars, dense, sparse, serving, taskVars, rbVars, query, allowed, waiting,
                   hits, due>>

\* The embedding provider, a store or the database raises: no result.
SearchFails(s) ==
    /\ MayFail /\ sc[s] = "search"
    /\ sc' = [sc EXCEPT ![s] = "failed"]
    /\ UNCHANGED <<dbVars, dense, sparse, serving, taskVars, rbVars, query, allowed, waiting,
                   hits, result, due>>

-----------------------------------------------------------------------------

NoQuery == [user |-> "none", server |-> "none", only |-> {}]

Init ==
    /\ papers = {} /\ gen = [p \in Paper |-> 0]
    /\ rows = {} /\ embedded = {}
    /\ dense = {}
    /\ sparse = [x \in Process |-> {}]
    /\ serving = {}
    /\ task = [w \in Worker |-> "idle"] /\ taken = [w \in Worker |-> {}]
    /\ rb = [i \in Rebuild |-> "unused"]
    /\ on = [i \in Rebuild |-> "none"]
    /\ snapshot = [i \in Rebuild |-> {}]
    /\ promised = [x \in Server |-> {}]
    /\ sc = [s \in Search |-> "new"]
    /\ query = [s \in Search |-> NoQuery]
    /\ allowed = [s \in Search |-> {}]
    /\ waiting = [s \in Search |-> {"dense", "sparse"}]
    /\ hits = [s \in Search |-> {}]
    /\ result = [s \in Search |-> {}]
    /\ due = [s \in Search |-> {}]

Index(w) == StartIndexing(w) \/ IndexBatch(w) \/ FlagBatch(w) \/ IndexingFails(w)
Retrieve(s) ==
    \/ \E u \in User, x \in serving, only \in SUBSET Paper : BeginSearch(s, u, x, only)
    \/ AskDense(s) \/ AskSparse(s) \/ Load(s) \/ SearchFails(s)

Next ==
    \/ \E p \in Paper : Upload(p) \/ Publish(p) \/ Delete(p)
    \/ \E w \in Worker : Index(w)
    \/ \E x \in Server, i \in Rebuild : Start(x, i) \/ BeginRebuild(x, i)
    \/ \E i \in Rebuild : ReadRows(i) \/ Fill(i) \/ RebuildFails(i)
    \/ \E s \in Search : Retrieve(s)

Spec == Init /\ [][Next]_vars

-----------------------------------------------------------------------------
(* Properties *)

\* Every variable has its type, a flag is only set on an existing row, and a
\* search that has begun knows what it was asked.
TypeOK ==
    /\ papers \subseteq Paper /\ gen \in [Paper -> 0..MaxParses]
    /\ rows \subseteq Chunk /\ embedded \subseteq rows
    /\ dense \subseteq Chunk
    /\ sparse \in [Process -> SUBSET Chunk]
    /\ serving \subseteq Server
    /\ task \in [Worker -> {"idle", "embed", "flag"}]
    /\ taken \in [Worker -> SUBSET Chunk]
    /\ rb \in [Rebuild -> {"unused", "query", "fill", "ended"}]
    /\ on \in [Rebuild -> Server \cup {"none"}]
    /\ \A i \in Rebuild : Running(i) => on[i] \in Server
    /\ snapshot \in [Rebuild -> SUBSET Chunk]
    /\ promised \in [Server -> SUBSET Chunk]
    /\ sc \in [Search -> {"new", "search", "done", "failed"}]
    /\ query \in [Search -> Query \cup {NoQuery}]
    /\ allowed \in [Search -> SUBSET Paper]
    /\ waiting \in [Search -> SUBSET {"dense", "sparse"}]
    /\ hits \in [Search -> SUBSET Chunk]
    /\ result \in [Search -> SUBSET Chunk]
    /\ due \in [Search -> SUBSET Chunk]
    /\ \A s \in Search : sc[s] # "new" => query[s] \in Query

\* Search s may show chunk c: its paper belongs to the user who asked and is one
\* of those asked about.
Authorized(s, c) ==
    /\ OwnerOf[c.paper] = query[s].user
    /\ query[s].only = {} \/ c.paper \in query[s].only

\* A search returns passages of the caller's own papers only, and only of those
\* the filter names, although both indexes hold everybody's chunks.
SearchIsAuthorized ==
    \A s \in Search : \A c \in result[s] : Authorized(s, c)

\* A search never mixes the passages of two parses of a paper, although the
\* indexes keep the chunks of every parse and a parse may be published between
\* any two of its steps.
NoMixedParses ==
    \A s \in Search : \A c, d \in result[s] : c.paper = d.paper => c.gen = d.gen

\* Search s ends in this step, with its passages loaded.
Loads(s) == sc[s] = "search" /\ sc'[s] = "done"

\* A chunk that was marked embedded when a search began is among those the search
\* loads, to be reranked and cut, as long as it retrieves enough candidates and the
\* chunk's row is still there: indexing, rebuilds and other deletions that go on
\* meanwhile do not hide it (service.py:143-166).
EmbeddedIsFindable ==
    [][\A s \in Search :
        Loads(s) /\ Candidates > Cardinality(Chunk) => due[s] \cap rows \subseteq result'[s]]_vars

Settled(x) == x \in serving /\ \A i \in Rebuild : ~(Running(i) /\ on[i] = x)

\* Whatever the rebuilds of a replica have read, when they overlap as well, is in
\* its index once they are done, except for rows that are gone by then.
WarmIndexIsComplete ==
    \A x \in Server : Settled(x) => promised[x] \cap rows \subseteq sparse[x]

===============================================================================
