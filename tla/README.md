# ResearchMind AI in TLA+

ResearchMind is a research assistant over a personal library of papers. A FastAPI
backend (several replicas) takes uploads and questions; Celery workers turn a paper
into chunks, vectors, graph nodes and experiment results; a corrective RAG loop and a
graph of eleven agents answer questions with a language model. Python under
`src/backend/app`, a Next.js client under `src/frontend`. Paths below are relative to
`src/backend/app` unless they start with `src/`.

The modules here model the parts whose correctness depends on the order of things:
what runs between two awaits, what a crash or a redelivered message leaves behind, what
is read before and used after somebody else has written, which error is retried where.
TLC checks them on small instances; TLAPS proves most of the safety properties for
every instance.

## The system

| component | state | operations | interacts with | what is hard |
|---|---|---|---|---|
| ingestion pipeline (`worker/tasks.py`, `worker/celery_app.py`) | `papers.status`, chunk rows, `is_embedded`, mirrored entities, results; messages in Redis | `process_paper`, `embed_paper`, `build_graph`, `extract_results`, each with its retries | API queues it; writes Postgres, Qdrant, Neo4j | late acknowledgement and redelivery, partial failure between stores, deletion under running tasks, exceptions nobody catches |
| paper service and storage (`services/paper_service.py`, `core/storage.py`) | `papers` rows, files keyed by checksum and suffix | upload, delete | several replicas share one volume | check-then-act on files and rows, shared blobs, saves that truncate each other, a copy cut short |
| hybrid retrieval (`retrieval/`, `main.py`) | shared vector store; one BM25 index per process | index a paper, rebuild at start or on demand, search | workers index, replicas search, both read rows | stale and missing entries, overlapping rebuilds, access control over shared indexes, cuts before the ranking that matters |
| embedding providers (`retrieval/embeddings.py`) | the `_payload` method of an instance | embed passages, embed a query | indexer and search; vendors' HTTP APIs | what is retried, replies out of order, a method swapped for one call and put back |
| corrective RAG (`llm/rag.py`, `llm/context.py`, `api/v1/endpoints/chat.py`) | one request: chunks, sources, grade, verdict, usage | answer, stream | retrieval, gateway | conditional calls, merged results, a packer that drops and shortens |
| LLM gateway (`llm/gateway.py`) | providers, `total_usage` | complete, stream | vendors' HTTP APIs | retries, fallback, which error is which |
| research agent graph (`agents/`) | `ResearchState` | eleven agents, a conditional cycle | retrieval, gateway, knowledge graph | failing agents that leave stale state, bounded cycle, recursion limit |
| research stream (`agents/graph.py`, `api/v1/endpoints/research.py`, the client's `client.ts` and `research-console.tsx`) | what was emitted, bytes under way, the frame buffer, the screen | run, read, show | one HTTP response | frames split over reads, responses that break off |
| knowledge graph (`graph/`) | Neo4j or an in-memory store with a file; `extracted_entities` | merge, delete, neighbours; networks, overview, expansion of a question | built by a worker, read by requests | aliases, shared nodes, deletion, two stores written one after the other, several statements per view |
| analyses (`research/`) | read only, except experiment results | comparison, contradictions, gaps, trends, review | rows, retrieval, gateway | rows that change between scope and report, ties, empty inputs, one numbering for many sections |
| parsing and chunking (`ingestion/`) | none | text to chunks and references | called by `process_paper` | windows, overlaps, nesting of headings |
| accounts and API keys (`services/`, `core/security.py`) | users, workspaces, hashed keys | register, log in, create, use and revoke a key | every request | concurrent registration, use against revocation |
| evaluation (`eval/`, `src/backend/scripts`) | the results so far | run a benchmark and gate the build | answers | ratios over nothing, cases skipped or failed |
| middleware, migrations, deployment | counters, schema | — | | — |

What makes each component correct, in short: a paper settles, is shown whole and loses
no work (ingestion); a row has its file and a file a row (storage); searches are
authorized, unmixed and find what is indexed, nearest or best first (retrieval); a vector
belongs to its text and its use (embeddings); sources, citations, confidence and cost of an
answer belong together (RAG); calls end, neither too early nor too late (gateway, agents);
the screen shows the run it was asked for, whole or with an error (stream); the graph has
what was built and nothing else, and its views count what is there (graph); what is reported
is real, in scope and complete (analyses); nothing of a text is lost (chunking); one account
per address, and a revoked key stays revoked (accounts); the gate opens only for answers
somebody measured (evaluation). The complete list of what can go wrong, with the line and
the property that would show it, is under `hazards` in `PROJECT.json`; the status of every
component is under `components`.

## Modules

| module | models | main correspondences |
|---|---|---|
| `Ingestion` | the four tasks, the upload and delete handlers around them, broker and workers | one action per commit, external write or message sent; `pc[w]` is the next one of a worker, `job[w]` its message, `seen`/`todo` what it has read |
| `PaperLifecycle` | what a client polling the status may see (abstract) | implemented by `Ingestion`: `status <- row`, `version <- gen`, `shown <- ` generations of the chunk rows |
| `BlobStore` | `upload_paper`, `delete_paper`, `LocalStorageBackend` | one action per file-system call or transaction; nothing of the same replica runs between `exists` and the end of `save`; `orphaned` and `cut` record what failing requests left, and nothing reads them |
| `HybridIndex` | `index_paper`, `rebuild_sparse_index`, `lifespan`, `retrieve` | one action per awaited read or write; `sparse` has one set per process, `dense` one for all, as Qdrant is; `result` is what is loaded for the reranker |
| `ResearchGraph` | `build_graph` and the agents | one action per superstep; `resilient` is `AgentFails`; the edges are `Successor` |
| `LLMGateway` | `_HttpProvider.complete`, `LLMGateway.complete` | one action per HTTP post |
| `ContextPacking` | `pack_context`, `_shrink_by_extraction` | operators: the packing loop as a fold |
| `GroundedAnswer` | `answer_question`, `stream_answer` and their helpers | composes the two above: a stage waits for a completion, the gateway moves, the stage reads it; one action per stage |
| `GraphStore` | `graph/schema.py` and the statements of both graph stores | operators on a graph `[nodes, edges, indexes]`; `neighbors` as breadth-first frontiers |
| `KnowledgeGraph` | `build_paper_graph`, the mirror, the memory backend's file, removal | one action per statement or commit of a build; `Write` is a statement of either store with its flush; `Opened` is what a process loads |
| `Networks` | `graph/analytics.py`, `graph/retrieval.py`, the graph endpoints | one action per statement of a request; `view` is what it has read so far |
| `Selections`, `RankFusion` | comprehensions with a condition; `reciprocal_rank_fusion` | operators; scores are exact fractions, and a stable sort is `RankedBy`, which puts an element where the number of those before it says |
| `Ranking` | `BM25Index`, the memory and FAISS vector stores, `retrieve`, the rerankers | one action per change of an index; a search is one action, its rows another |
| `Embeddings` | the hosted providers and their callers | `payload` is the method of each instance; one action per await of a call |
| `Chunking` | `chunk_document`, `chunk_text`, `parse_references` | the loops over sentences, paragraphs and sections as folds; a character is its place in the document |
| `Analyses` | comparison, conflicts, claims, gaps, trends | operators on sets of rows; a pass over rows in their order is a fold |
| `Experiments` | `extract_results`, `_persist_results` and the insight endpoints | composes `Analyses` with tasks and deletions: the scope of a request and each of its queries is a step, and `request.report` what it has read or reports |
| `LiteratureReview` | `research/review.py` | one action per await of a section; sections run side by side |
| `Accounts` | registration, login, tokens, API keys | one action per statement or commit; `req` is what each request has read |
| `EventStream` | a research run from the agents to the screen | a frame is some cells and two newlines, a read any number of cells; `Pieces` is `split`, `Remaining` is `frames.pop()` |
| `Benchmark` | `eval/runner.py`, `eval/metrics.py` | one action per case; a text is its set of content words |
| `MC*` | the instances TLC checks | |
| `*_proofs` | theorems and their proofs | `Services_proofs` is about the modules of `MCServices`, `Ranking_proofs` about `Ranking` and `Chunking`, `Library_proofs` about the others of `MCLibrary` and `ResearchGraph`; `Recursion_proofs` holds the lemmas on induction, folds and finite sets that they and `GroundedAnswer_proofs` cite |

`MCServices` instantiates `KnowledgeGraph`, `Accounts`, `EventStream` and `Embeddings`;
`MCLibrary` instantiates `Chunking`, `Ranking`, `Experiments`, `LiteratureReview`, `Networks`
and `Benchmark`. The parts of each share no state, so one run explores their union: a
variable that never changes, `service` or `part`, says which of them a behaviour is about,
and the others rest. Nothing is claimed about the parts of a union acting at once.

Data is abstracted to what the properties tell apart. Texts, drafts and passage lists of
`ResearchGraph` are version numbers; a file is absent, partial or whole; one chunk stands
for an embedding batch (`Ingestion`) or for a whole parse (`HybridIndex`); similarities and
ratings in `Ranking` are any numbers given to the chunks. What a language model
replies is any of the replies the code tells apart, the ones it cannot parse included.
Sizes of chunks and sentences are numbers in `ContextPacking`, because the packer is about
them; a vector is the text and the task it was computed for.

`HybridIndex` summarises `Ingestion` (a parse replaces the chunks in one transaction, a
worker embeds what is not embedded) and leaves the order of hits open, which `Ranking` has in
detail over indexes that change only between searches; `ResearchGraph` summarises
retrieval, packing and verification, which the other modules have in detail.

Operators named `Definition_Something` next to a definition are faulty variants of it, each
the form a plausible bug would take; `PROJECT.json` names, for every property, the variants
that must violate it.

## Properties

A component whose promise has several sides states it as a conjunction of named parts, each
with a comment that says what it promises, and some with the type invariant:

* `PromptIsGrounded`: `AnswerHasSource`, `FirstFindingsKept`, `ContextFits`, `CitationsResolve`.
* `GraphIsSound`: `IndexesAreExact`, `EdgesFitSchema`, `CitationsStayInside`,
  `NeighborsAreShortest`; `BuildsAreKept`: `BuildIsWhole`, `MirrorIsBacked`, `RestartKeepsGraph`.
* `AccountsAreSound`: `OneAccountPerAddress`, `AccountsHaveWorkspace`, `ExactlyOneWins`,
  `RevocationIsFinal`.
* `IndexesAnswerExactly`: `StatisticsAreExact`, `SearchFindsEveryMatch`, `DenseIsNearest`;
  `RankingIsFair`: `FusionIsFair`, `ResultIsTheBest`.
* `StoredAsWritten`: `NoSectionIsLost`, `BudgetIsKept`, `PathsNameTheNesting`,
  `ReferencesAreTheEntries`.
* `ReportIsSound`: `RowsAreOneExtraction`, `ReportStaysInScope`, `TableIsComplete`,
  `ConflictsAreReal`, `ClaimsAreComparedAcrossPapers`, `GapsAreHoles`, `TrendsAddUp`.
* `ReviewIsSound`: `MarkersMeanOnePaper`, `ReviewIsWhole`, `FailsForTwoReasons`.
* `NetworksAreSound`: `AuthorsAreJoined`, `CitationsAreCounted`, `EntitiesAreCounted` (with
  `HeadlinesAreExact` and `DegreesAreExact`), `ExpansionIsFair`.

Of such a conjunction several faulty variants are named, one for each part that a bug could
break alone. The type invariants of the modules with proofs are theorems.

## Runs

All bounds are constants of the `.cfg` files. Deadlock is not checked: every instance
really stops when its papers, requests or run are finished.

| run | instance | what it shows |
|---|---|---|
| `ingestion_safety` | 1 paper, 2 workers, 2 batches, every fault, 1 redelivery or loss | rows follow their paper, flags never run ahead of the stores, a ready paper is whole, no paper and no chunk is stranded silently, and the pipeline implements `PaperLifecycle` |
| `ingestion_live` | 1 paper, 2 workers, 1 batch; provider outages, 1 worker loss or redelivery | every upload settles, every ready paper is embedded or a task failed for good |
| `ingestion_stuck` (violated) | 1 worker, unexpected exceptions | `StatusSettles` fails, see below |
| `blob_safety` | 4 requests, 2 workspaces, 2 replicas, 2 suffixes, 2 crashes, database or storage failures | no file is left behind but by a request that failed before its row; saves that truncate one file under each other leave it whole; no paper without its file while requests on the same bytes did not overlap |
| `blob_reference` (violated) | 3 requests, 1 replica, no failure | `RemovesOnlyUnreferenced` fails, see below |
| `index` | 2 papers, 2 users, 3 parses, 1 worker, 1 replica, 3 rebuilds or 1 search | searches authorized, unmixed and complete whatever is indexed, deleted or restarted meanwhile; overlapping rebuilds never lose a row one of them has read |
| `research_safety` | any agent fails, up to 5 failures, limit 20 | revisions bounded, none goes to the verifier unread, verdict and citations belong to the answer, every run with room left ends with a result |
| `research_loop` (violated) | critic and reflector fail, up to 4 times, LangGraph's limit 25 | `LoopIsBounded` fails, see below |
| `answers` | every option of a request, with and without fallback; any ≤ 2 of 3 chunks per retrieval; 3 posts per provider | the gateway gives up only when it has to; sources, citations, confidence and usage fit; every question ends |
| `answers_fallback` (violated) | the same | `FallsBackOnOutageOnly` fails, see below |
| `services`, graph | 2 building processes, either backend, 3 papers in 2 workspaces, 2 texts of a paper, 1 retry, 2 of reparse, deletion, removal, lost process and broken file | indexes of the store are exact, edges fit the schema, paths are shortest; a finished build is in graph and mirror and survives a restart; removing a paper removes only what is its own |
| `services`, accounts | 3 requests of any kind, 2 addresses, 1 expiry, 1 failure | one account per address and never without its workspace; keys change by their owner only, and for good once revoked |
| `services`, stream | 2 questions, up to 3 steps each, frames of 2 cells and 2 newlines | the console shows the steps of its question in order, once, and a result or an error |
| `services`, embeddings | 2 calls, 3 attempts each, 4 failures, OpenAI or Jina | every text gets its vector, computed for its use; attempts are neither too few nor too many |
| `library`, chunking | up to 4 headings of 3 levels or 3 paragraphs of sentences of 1, 3 and 9 characters; `max_chars` 7, overlap 2; texts of up to 5 lines | no character is lost or out of order, chunks keep the budget and name their section, references are the entries of the last bibliography |
| `library`, ranking | 5 chunks of 2 papers, one of them only in the vector store; 3 filters, limits 1 and 2, multiplier 2, pool of 3, over-fetch 2, `RRF_K` 0 | BM25 statistics are those of the chunks indexed, searches find every match, fusion rewards agreement, the result is the best of the pool |
| `library`, experiments | 4 papers, one of them foreign; 2 extractions with 2 attempts, 2 sets of findings; one extraction that starts again or one deletion in a behaviour, between any two queries of a request; a comparison of everything, or of one metric and one data set | rows of a paper are one extraction; reports name only the caller's papers, real conflicts, comparable claims, true holes, and trends that add up |
| `library`, review | 3 papers, 2 taken, outlines of up to 4 items, 3 of them read, some unusable, one no list at all, 1 outage | a marker means one paper, a review has between one section and as many as were asked for, and fails for a retrieval that raises or an outline that is no list |
| `library`, networks | 4 papers, limits of 2, 1 deletion or new build between any two statements | networks show what they count; both halves of the overview stay in scope and are exact when nothing changed between them; expansions are in scope, ranked and complete where no limit cuts |
| `library`, benchmark | data sets of up to 2 cases, 72 answers or an error, with and without a model | an open gate means that the answers were asked for, came, have sources and are neither invented nor miscited |

Why the bounds are enough to be interesting. Two workers are what a redelivered message
needs to overlap with its first delivery, and two batches let one be flagged while the
other is not; one retry (the code has 2 or 3) separates a first, a repeated and an
exhausted attempt. Four requests are two uploads and two deletions in any roles. Two
parses make stale chunks, and `Candidates` is larger than the number of chunks in
`index`, because `EmbeddedIsFindable` says nothing of a search that asks for too
few; one replica is enough there, because replicas share only the vector store, which the
worker writes. Two failures and four requests leave a cut file to a later
upload and to a deletion. A recursion limit of 20 lies between the supersteps of a run with few
failures and one with five, so both sides of `RoomLeft` occur. The three chunks of
`MCGroundedAnswer` are sized so that a pair of them fits whole, ends in an excerpt, ends in
an excerpt that overruns the budget by one token, or loses its second with and without room
for one.

In `services`, two building processes with one retry each contain every way two statements of
two builds can meet; the papers share entities under one and under two labels, cite each other
within and across workspaces, and one has the name of a model. Three requests are two that
race and one that sees the result. Two questions make a stale screen possible, and frames of
two cells split before, inside and behind an event and between its newlines. Three attempts
are what the code makes, and four failures exhaust one call and reach the other. In
`library`, each size is the smallest at which its case happens: a sentence longer than a chunk,
one that fits only alone, a paragraph that is cut; a section below a deeper one; a chunk crowded
out of the over-fetch; a metric for which lower is better and a value of zero; a paper asked
for twice and one that is foreign; two papers of one title; a byline that repeats a name; an
answer that cites only sources it does not have.

Two constraints keep the unions small. In `services`, two builds overlap until the second
disturbance has happened, and run one at a time after it (`OneAtATimeAtTheEnd`): every
interleaving of two builds with one disturbance is explored, and what a second one finds when
it strikes. In `library`, a behaviour of the experiments has one extraction that starts again
or one deletion, not both (`OneDisturbance`); of the vectors the farthest come first
(`FarthestFirst`), so that the order of arrival is never the order asked for. The theorems below need neither these
constraints nor the bounds.

Fairness. `Ingestion`: weak fairness of each worker's steps (Celery children keep taking
messages and a task under way goes on) and of the handler between its commit and
`.delay`; none of clients and faults. `ResearchGraph`: weak fairness of the next
superstep; LangGraph runs it as soon as the last one returned. `GroundedAnswer`: weak
fairness of the next step; every post has an HTTP timeout and a coroutine whose reply has
arrived is resumed; a stream's token events are bounded. Nothing assumes that a provider
recovers or that a retry succeeds.

## What the checks found

* `ingestion_stuck`. `_process_paper` marks a paper failed for three exception types only,
  and `process_paper` never retries. Any other exception leaves the paper `processing`,
  though docs/api.md tells clients to poll until `ready` or `failed`.
* `blob_reference`. `delete_paper` unlinks after it has counted the references, without
  holding anything: an upload of the same bytes may commit its row in between and loses its
  file.
* `research_loop`. The revision cap is enforced by a critic that succeeds. When critic and
  reflector both fail the stale `needs_revision` sends them round until LangGraph aborts the
  run.
* `answers_fallback`. The gateway's docstring excludes 4xx from the fallback; the code
  catches every `LLMError`, which a 4xx raises too.

Divergences met while modelling that have no run of their own; the properties say what the
code does, with the exception named.

* Ingestion and storage. A second parse queues `embed_paper` without `reindex`, so the vectors of
  the replaced chunks stay in the store (searches drop them when they load the rows, which
  `NoMixedParses` shows). A crash during `save` leaves a truncated file under its final key, and
  later uploads of the same bytes take it for the whole; a second replica that found no file
  truncates one that was finished meanwhile, for the time of its own copy. A request that fails between
  the file and its row leaves the file; nothing collects such files. When the broker is down after
  the commit of an upload, the paper stays pending: `NoStrandedPaper` is stated of the others.
* Retrieval. `index_paper` adds to the BM25 index of the worker's process, and no replica that
  searches sees the entries before it restarts or rebuilds, although indexer.py:42-43 says that
  dense and sparse must stay in sync. `year_from` and `year_to` of the filters are never
  applied, and the section filter comes after the cut to the candidates, where service.py:41-45
  says before scoring. FAISS fetches ten times the limit and filters afterwards
  (vector_store.py:219): enough foreign chunks crowd out every hit. A chunk that both
  retrievers find beats a single hit for certain only up to rank 62, while a list may have 200
  entries.
* Answers. A verification that cannot be parsed is reported as support with confidence 0.5; a
  4xx whose body says "server error" is retried, because that is how the retry loop recognises a
  5xx; a failing verification throws away the answer it was to verify.
* Chunking. A heading without a body is dropped (chunking.py:103), and the breadcrumb of its
  subsections names whatever section came before it. The overlap carried over may make a chunk
  longer than `max_chars` by the overlap and its separator, which test_chunking.py:96-106
  allows for; fragments below `MIN_CHUNK_CHARS` are dropped.
* Knowledge graph. `remove_paper_from_graph` has no caller outside the tests, so deleted papers
  stay in the graph, as do edges a later parse no longer yields; build_graph's worker passes no
  gateway, so extraction by a model never runs. The citation network cuts its nodes to the limit
  and not its edges (analytics.py:142), so beyond 80 papers edges dangle. `expand` limits the
  siblings of a seed before it drops the excluded papers (retrieval.py:146-152), so excluded
  papers can hide related ones. A byline that repeats a name joins an author to himself.
* Analyses. Two overlapping extractions of a paper leave the rows of both under READ COMMITTED
  (extraction.py:308). Of two rows of a paper with one key the last of an unordered query is
  compared (contradictions.py:130); claims are keyed by title (contradictions.py:231). Ids that
  repeat in a request count twice in the coverage. An entity seen in exactly two years is
  always emerging. The sections of a review retrieve at the same time over one database session
  (review.py:301), and a retrieval that raises fails the whole review, although a draft that
  fails costs one section. An outline whose `sections` is an object, a number or `true` raises at
  review.py:181, outside the try, and fails the review too, although the docstring (review.py:155)
  promises the standard structure. The queries of a report are separate statements, so what they
  read may differ; the two halves of the graph overview (analytics.py:239, retrieval.py:192) may
  disagree for the same reason.
* Agents. When every critic fails before the first revision, the first draft is verified unread;
  when a critic fails later, its stale verdict sends the draft round again. The summarizer puts a
  summary in front of the final answer that no verifier has read (agents.py:557-562): the confidence
  shown is that of the answer below it.
* Evaluation and client. The docstring of `run_benchmark` gates the aggregate (runner.py:264), the
  code gates every graded case; the threshold on citations is 0 and not among the settings
  (runner.py:67-76). In the console the guard on `isRunning` keeps the abort of an earlier run,
  three lines below it, from ever having one to abort (research-console.tsx:25-28).

## Proofs

Every listed theorem holds for all values of the constants. The only assumptions are the
named `ASSUME`s of the modules. They say which constants are numbers, sets or sequences, that
names which the code keeps apart are different, that retry counts, limits and sizes are
positive where the settings make them so, that what a request carries (a shelf of papers, the
texts of a case, the rows of an extraction) is finite, and, for `ContextPacking`, that a chunk
fits the budget and sentences have at least 20 characters, as the splitter and the defaults
guarantee, and for `Chunking`, that the budget of a chunk, 512 tokens of 4 characters, is at least
twice the 80 characters below which it is dropped.

* `Ingestion_proofs`: `TypeCorrect`, `RowsFollow`, `ReadyWhole`, `FlagsBacked`, `NoStranded`,
  `NoEmbeddingLost`, and `Refinement` (`Spec => Lifecycle!Spec`). Three
  layers: types with the message each task holds (`JobMatchesStep`); the tables and stores with
  what a task relies on between two of its steps (`InFlight`: a paper being parsed is no longer
  pending, a batch about to be flagged is in the store, nodes precede edges precede the mirror);
  and, for lost work, how each step hands on the work it carries (`NothingLost`, `Kept`).
* `BlobStore_proofs`: `TypeCorrect`, `NoBlobLeftBehind`, `NoFileStaysIncomplete`, `NoBlobTakenAway`.
  The first needs, besides types, that a deletion about to remove a row has the key of that paper
  (`DeletesOwnKey`), and that every stored key has somebody to answer for it or was left by a request
  that failed (`AccountFor`, step by step). Incomplete files are followed by their last opener, which
  is in `linked` and not in `torn` until it ends. The third is inductive with: one request per
  content at a time (`OneAtATime`), a save is alone and linked
  while nobody overlaps (`SavesAlone`), an upload past its check or save has its file
  (`ReadyToFinish`), and every paper has its file.
* `HybridIndex_proofs`: `TypeCorrect`, `Authorization`, `Unmixed`, `Findable`, `WarmComplete`. Authorization needs
  only that `allowed` was computed for the query; `Findable` follows what each retriever has
  returned or will return (`Backed`, `Expecting`), with enough candidates (`Ample`);
  `WarmComplete` relates index, snapshots and promises of each replica (`CurrentRows`,
  `PastReads`, `Covered`).
* `Library_proofs`, agents: `TypeCorrect`, `RevisionsBounded`, `RunsToTheEnd`, `VerdictFitsAnswer`,
  `RevisionsAreReread`, `MarkersFit`. The
  bound on the supersteps counts them against revisions and failures, position by position
  in the graph; a critic that requests a revision still has one to spend. That no revision goes
  out unread is part of `Consistent`: whatever the critic leaves standing is about the last draft a
  critic has read, and a failing critic changes neither.
* `GroundedAnswer_proofs`: `GatewayPersists`, `UsageReported`, `CitationsValid`, `ConfidenceEarned`,
  `PromptStaysGrounded`. The gateway's invariant says that the primary is exhausted once the
  fallback is asked, the fallback untouched before, and that a provider being asked has attempts
  left; usage lags `total_usage` by the one completion that was answered and not yet read;
  citations are empty until the sources are final. For the prompt, packing and merging are
  runs of states (`PackRuns`, `MergeRuns`): a packed chunk extends the last state and stays in the
  budget (`AddExtends`, `KeptFits`), and packings of two budgets agree up to the first chunk that only
  one of them takes (`PackingsAgree`), so the first findings stay in front after a merge.
* `Services_proofs`, accounts: `AccountsTypeCorrect`, `AccountsStaySound`, `CallersHaveAccounts`,
  `KeysChangeByOwnerOnly`. The core of the invariant is `AddressesAreHeldOnce`, over the rows that are
  committed and those inserted and not yet committed; around it, where each request is in its
  endpoint (`InOrder`), what it was told (`Answered`), and that what was revoked when it arrived
  is revoked still.
* `Services_proofs`, knowledge graph: `GraphStaysSound`, `BuildsStayKept`, `OnlyPapersGo`. First each
  operation of a store keeps the indexes exact, a loaded file included; then the projection of a
  paper has edges between its own nodes only; then `KnowledgeInv` says how far each build has come,
  as what is in the store plus what it has still to write. The breadth-first search is a run of
  rounds (`FrontiersRun`, `TrailsRun`), and a node is in the frontier of round k exactly when its
  shortest path has k edges (`SearchIsShortest`), to any depth and along any types.
* `Services_proofs`, embeddings: `EmbeddingsStayFit`. `EmbeddingsInv` says which task the payload of an
  instance names at each stage of the call that uses it. `ReplyIsSorted`: whatever order the items of
  a reply come in, the vectors are in the order of the texts.
* `Services_proofs`, stream: `StreamStaysWhole`. `StreamInv` says that what the buffer and the wire hold is
  the frames behind the first d events of the response, in order and cut anywhere (`Follows`),
  while the console shows those d. A text is split at the ends of its frames and nowhere else
  (`FramesAreSplit`, `PiecesAreTexts`), so a read moves d on by the frames it completes and keeps
  the rest, and a response read to its end leaves nothing in the buffer.
* `Library_proofs`, reviews and benchmark: `ReviewsStaySound`, by sections that each keep to the
  passages they retrieved; `GateStaysHonest`, by results that each answer for their case, with
  lemmas on the scores: they are shares, an invention and a false citation score zero,
  and what passes a stricter threshold passes a laxer one.
* `Library_proofs`, experiments: `RowsStayOneExtraction` and `ReportsStaySound`. The rows of a paper come
  from one run as long as two runs of it have not overlapped, deletion and redelivery included.
  Between two queries a request knows what the ones before returned (`Knows`), and `ReadKeeps` turns
  one query into a step of the invariant. What a report says follows from the rows that were read, one
  lemma per analysis: a best cell
  exists and no other beats it, conflicts are exactly the pairs that differ, claims are paired
  across papers, a gap is not covered by any row, the counts of a trend add up (`SizesAddUp`), and
  one pass over the rows keeps the best of each year, whatever their order (`PassKeepsBest`).
* `Library_proofs`, networks: `NetworksStaySound`. `NetworksInv` says what a request has read so far:
  papers of the caller, still on the shelf unless something changed (`PapersAreThere`), and of an
  expansion each row once, by the seeds whose turn has been (`ExpansionReads`). An edge between
  authors is counted once for every paper of both by following their places in its byline
  (`PairsAreCounted`); a ranking is a strict order of the papers found, so that each has its own
  place in it (`PathsAreRanked`, `PlacesAreCounted`).
* `Ranking_proofs`: `IndexesStayExact`, `RankingStaysFair`. `IndexesInv` says that the statistics are exact
  (`Exact`), that the FAISS index is the records whenever it is built, and what an answer under way
  has found. Every term that is counted is counted once per document because adding removes the
  old version first, and removing a paper is a run of removals, each of which keeps `Exact`. The
  rest rests on `RankedBy` being a stable sort: the elements before one are fewer than those before
  the next, so every place of the list has one element. A nearest list that is fetched, filtered and
  cut is a beginning of the one that is filtered first, and is as long when the foreign records
  fit into what the over-fetch adds. `FairInv` carries the answer through fusion, load and reranking:
  the score of a fused hit grows with either rank, two ranks up to `RrfK + 2` sum to no less than the
  first place alone, and a cut keeps what comes before what it keeps.
* `Ranking_proofs`, documents: `DocumentsAreStoredAsWritten`. What was made so far is what the two
  passes make of the document (`ChunkingIInv`); the rest is about what they make. Each of the three
  nested loops has an invariant. For the sentences of an overlong paragraph, `SplitInv`: every
  character read is in a piece or in the current one, no piece is longer than the budget with its
  overlap, and some piece is long enough to be kept, or the current piece holds the whole text. For
  the paragraphs of a section, `PackInv`: the same of parts, where a part closed for being full
  stands for a kept one, as a part below the minimum and a paragraph below it fit together. For
  the sections, `ChunkInv`: the stack is the headings the section is nested in (`NestingGrows`),
  and the chunks are the kept parts of the sections read. As no two sections share a character, a
  chunk belongs to one. The bibliography is an interval of lines (`SectionIs`), so entries end
  before the next begins (`EntriesAreApart`), and the references are a beginning of them
  (`ReferencesAreFirst`).
* `Recursion_proofs`: the prover takes no induction theorem over a predicate, so induction is over
  a set of numbers and goes by its least counterexample; from it, recursive functions and folds
  have values that satisfy their equations (`RecursionExists`, `FoldExists`), and finite sets have
  extremes, finite images and listings, and every member its place in a strict order of them.

Only model-checked:

* the liveness properties (`StatusSettles`, `ChunksGetEmbedded`, `AnswerArrives`, `QuestionEnds`),
  which need fairness and ENABLED, out of the prover's reach;
* the four violated properties, which TLC refutes.

Every invariant and every action property of a passing run is a theorem.

## Not modelled, and why

* `Ingestion`: figure and table rows, written in the same transaction as the chunks; eager
  mode, which runs the tasks inside the request; `reindex=True`, which nothing queues. Two
  overlapping `process_paper` transactions may also collide on the unique index of
  (paper_id, chunk_index): that is one of the exceptions `RunRaises` stands for.
* `BlobStore`: figure blobs; validation (a precondition of the modelled upload).
* `HybridIndex`, `Ranking`: the memory and FAISS stores as stores of each process, with the loss of
  the vectors on a restart without a file: memory is the default of config.py:47 and Qdrant what is
  deployed. `HybridIndex` ends where the rows are loaded; the reranking and the cut to the limit behind
  it (service.py:185-188) are in `Ranking`, so "found" means there: among the candidates.
  Further: two processes that create the Qdrant collection at once; the
  requests Qdrant is sent; lexical and cross-encoder scores, which are any numbers. BM25 weights
  are modelled by their sign and by what matches.
* `Embeddings`: the numbers of a vector and their normalization; the hash and BGE providers,
  which compute without awaiting anybody.
* `GroundedAnswer`: `compress_context`, which nothing calls; the gateway used by two requests at
  once, whose only shared state is `total_usage`, added to without an await.
* `KnowledgeGraph`, `Networks`: extraction by a model, which no caller asks for; the gazetteer's
  patterns, which decide only which entities a text has; `validate_cypher` and the natural
  language queries, which read one statement; adoption by year, for which `Analyses` has the
  series.
* `Experiments`, `LiteratureReview`: the patterns that find results in a text, the paper matrix,
  stated gaps (find_stated_gaps, whose query no other finding uses), suggested directions, the second
  query of a step for the titles or chunks of what the first has found, bibliographies in BibTeX
  (whose keys may collide) and other
  renderings.
* `Accounts`: hashing and encoding; deactivated accounts, which nothing in the code makes.
* `Benchmark`: `judge_case`, which nothing calls; averages, which no decision uses; the corpus of
  the script.
* The rate limiter, a library's, which keeps its counters per process; PDF parsing, OCR, tables
  and figures; the agents' calculator and web search; prompts, metrics, logging, HTTP headers,
  the other pages of the client, migrations, deployment manifests: text and I/O.

## Plan

Done, in this order: `Ingestion` with `PaperLifecycle`, `BlobStore`, `ResearchGraph`, `HybridIndex`,
`LLMGateway`/`ContextPacking`/`GroundedAnswer`, `GraphStore`/`KnowledgeGraph`, `Accounts`,
`Embeddings`, `EventStream`, `Analyses`/`Experiments`, `LiteratureReview`, `Networks`, `Benchmark`,
`RankFusion`/`Ranking`, `Chunking`, each with its proofs.

Next, the most important first:

1. That `HybridIndex`'s summary of a parse is implemented by `Ingestion`.
2. `Chunking`: that the pieces of a text come in its order, and repeat no more than the overlap.
