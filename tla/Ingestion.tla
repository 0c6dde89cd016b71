------------------------------- MODULE Ingestion -------------------------------
(***************************************************************************)
(* The ingestion pipeline of a paper: the API inserts a row and queues     *)
(* process_paper; Celery workers parse it, publish its chunks and queue    *)
(* embed_paper, build_graph and extract_results; a client may delete the   *)
(* paper at any moment.  (worker/tasks.py, retrieval/indexer.py,           *)
(* graph/builder.py, research/extraction.py, services/paper_service.py)    *)
(*                                                                         *)
(* One action is the code between two awaits that other processes can      *)
(* observe: a committed transaction, a write to an external store, a       *)
(* message sent.  Each action reads what the code has read by then, so a   *)
(* stale read stays stale.  Blobs are the subject of BlobStore, the        *)
(* per-process BM25 statistics (which no task reads) of HybridIndex.       *)
(***************************************************************************)
EXTENDS Integers, FiniteSets

CONSTANTS
    Paper,          \* paper ids; an id is a fresh uuid, so it is used once
    Worker,         \* Celery prefork children, each running one task at a time
    Batch,          \* numbers of a parsed paper's batches of chunks; a chunk set is
                    \* embedded batch by batch, so one chunk stands for each
    MaxRetries,     \* max_retries of each task decorator
    GraphEnabled,   \* settings.graph_extraction_enabled
    Faults,         \* which failures of the environment may happen
    MaxFaults       \* bound on redeliveries and worker losses

Task == {"process", "embed", "graph", "extract"}

FaultKind == {"unexpected", "provider", "broker", "visibility", "crash", "child"}

ASSUME IngestionAssumption ==
    /\ Batch \subseteq Int
    /\ MaxRetries \in [Task -> Nat]
    /\ GraphEnabled \in BOOLEAN
    /\ Faults \subseteq FaultKind
    /\ MaxFaults \in Nat

VARIABLES
    row,        \* papers.status, or "unborn" / "deleted" when there is no row
    gen,        \* how many chunk sets were published for the paper so far
    chunks,     \* the rows of document_chunks
    embedded,   \* the chunk rows with is_embedded
    mirrored,   \* papers whose extracted_entities rows were committed
    results,    \* papers whose experiment_results rows were committed
    vectors,    \* chunk ids in the dense vector store
    graph,      \* <<paper, part>> written to the graph store
    queue,      \* copies of each message waiting in the broker
    unqueued,   \* papers committed by the API whose .delay has not run yet
    pc, job, restored, seen, todo,   \* what each worker is doing
    lost,       \* history: <<task, paper>> whose work ended undone for good
    faults      \* redeliveries and worker losses so far

dbVars     == <<row, gen, chunks, embedded, mirrored, results>>
storeVars  == <<vectors, graph>>
workerVars == <<pc, job, restored, seen, todo>>
vars == <<dbVars, storeVars, workerVars, queue, unqueued, lost, faults>>

Status == {"pending", "processing", "ready", "failed"}
RowState == Status \cup {"unborn", "deleted"}

Chunk == [paper : Paper, gen : Nat, pos : Batch]

\* The messages that can exist: no task is re-published past its max_retries.
JobsOf(t) == [task : {t}, paper : Paper, tries : 0..MaxRetries[t]]
Sendable == UNION {JobsOf(t) : t \in Task}

ProcessStep == {"mark", "parse", "delay_embed", "delay_graph", "delay_extract"}
EmbedStep   == {"embed", "flag"}
GraphStep   == {"nodes", "edges", "mirror"}
Step == {"idle", "persist"} \cup ProcessStep \cup EmbedStep \cup GraphStep

NoJob == [task |-> "none", paper |-> "none", tries |-> 0]

-----------------------------------------------------------------------------
(* Helpers *)

Present(p) == row[p] \in Status

ChunksOf(p) == {c \in chunks : c.paper = p}

Parsed(p, g) == {[paper |-> p, gen |-> g, pos |-> b] : b \in Batch}

\* index_paper walks its snapshot batch by batch, in chunk_index order.
FirstBatch(S) == {c \in S : \A d \in S : c.pos <= d.pos}

Msg(t, p, n) == [task |-> t, paper |-> p, tries |-> n]

Sent(m) == queue' = [queue EXCEPT ![m] = @ + 1]

\* The task returned or raised: with acks_late the message is acknowledged now.
Done(w) ==
    /\ pc' = [pc EXCEPT ![w] = "idle"]
    /\ job' = [job EXCEPT ![w] = NoJob]
    /\ restored' = [restored EXCEPT ![w] = FALSE]
    /\ seen' = [seen EXCEPT ![w] = "unborn"]
    /\ todo' = [todo EXCEPT ![w] = {}]

Goto(w, s) ==
    /\ pc' = [pc EXCEPT ![w] = s]
    /\ UNCHANGED <<job, restored, seen, todo>>

Lose(w) == lost' = lost \cup {<<job[w].task, job[w].paper>>}

\* An exception no handler of the task catches: the task fails, nothing retries it.
Fails(w) == Done(w) /\ Lose(w) /\ UNCHANGED queue

\* raise self.retry(exc=exc): publish the next attempt, or give up past the cap.
Retries(w) ==
    /\ Done(w)
    /\ IF job[w].tries < MaxRetries[job[w].task]
       THEN Sent(Msg(job[w].task, job[w].paper, job[w].tries + 1)) /\ UNCHANGED lost
       ELSE Lose(w) /\ UNCHANGED queue

\* A worker takes a message for task t; Enter is the first thing the task does.
Receives(w, t, p, n) ==
    /\ pc[w] = "idle"
    /\ queue[Msg(t, p, n)] > 0
    /\ queue' = [queue EXCEPT ![Msg(t, p, n)] = @ - 1]

Begins(w, t, p, n, step, snapshot, work) ==
    /\ pc' = [pc EXCEPT ![w] = step]
    /\ job' = [job EXCEPT ![w] = Msg(t, p, n)]
    /\ seen' = [seen EXCEPT ![w] = snapshot]
    /\ todo' = [todo EXCEPT ![w] = work]
    /\ UNCHANGED restored

-----------------------------------------------------------------------------
(* The API *)

\* upload_paper committed the row; the handler has not called .delay yet.
Upload(p) ==
    /\ row[p] = "unborn"
    /\ row' = [row EXCEPT ![p] = "pending"]
    /\ unqueued' = unqueued \cup {p}
    /\ UNCHANGED <<gen, chunks, embedded, mirrored, results, storeVars, workerVars,
                   queue, lost, faults>>

QueueProcessing(p) ==
    /\ p \in unqueued
    /\ unqueued' = unqueued \ {p}
    /\ Sent(Msg("process", p, 0))
    /\ UNCHANGED <<dbVars, storeVars, workerVars, lost, faults>>

\* The broker is unreachable, or the API process dies, between commit and .delay.
QueueingFails(p) ==
    /\ "broker" \in Faults
    /\ p \in unqueued
    /\ unqueued' = unqueued \ {p}
    /\ lost' = lost \cup {<<"process", p>>}
    /\ UNCHANGED <<dbVars, storeVars, workerVars, queue, faults>>

\* delete_paper: the row and, by cascade, every row that references it.
Delete(p) ==
    /\ Present(p)
    /\ row' = [row EXCEPT ![p] = "deleted"]
    /\ chunks' = chunks \ ChunksOf(p)
    /\ embedded' = embedded \ ChunksOf(p)
    /\ mirrored' = mirrored \ {p}
    /\ results' = results \ {p}
    /\ UNCHANGED <<gen, storeVars, workerVars, queue, unqueued, lost, faults>>

-----------------------------------------------------------------------------
(* process_paper *)

StartProcess(w) == \E p \in Paper, n \in 0..MaxRetries["process"] :
    /\ Receives(w, "process", p, n)
    /\ IF Present(p)
       THEN Begins(w, "process", p, n, "mark", row[p], {})
       ELSE UNCHANGED workerVars
    /\ UNCHANGED <<dbVars, storeVars, unqueued, lost, faults>>

\* Mutant: the task starts parsing without committing the new status.
MarkProcessing_Skipped(w) ==
    /\ pc[w] = "mark"
    /\ Goto(w, "parse")
    /\ UNCHANGED <<dbVars, storeVars, queue, unqueued, lost, faults>>

\* The ORM writes only what changed: a row already read as processing is not
\* updated, and an update that matches no row raises StaleDataError.
MarkProcessing(w) == LET p == job[w].paper IN
    /\ pc[w] = "mark"
    /\ \/ /\ seen[w] = "processing"
          /\ Goto(w, "parse")
          /\ UNCHANGED <<row, queue, lost>>
       \/ /\ seen[w] # "processing" /\ Present(p)
          /\ row' = [row EXCEPT ![p] = "processing"]
          /\ Goto(w, "parse")
          /\ UNCHANGED <<queue, lost>>
       \/ /\ seen[w] # "processing" /\ ~Present(p)
          /\ Fails(w)
          /\ UNCHANGED row
    /\ UNCHANGED <<gen, chunks, embedded, mirrored, results, storeVars, unqueued, faults>>

\* Mutant: the parse error is logged and swallowed.
ParseFails_Swallowed(w) ==
    /\ pc[w] = "parse"
    /\ Done(w)
    /\ UNCHANGED <<dbVars, storeVars, queue, unqueued, lost, faults>>

\* PdfParseError or OSError: the paper is marked failed, its old chunks stay.
ParseFails(w) == LET p == job[w].paper IN
    /\ pc[w] = "parse"
    /\ IF Present(p)
       THEN /\ row' = [row EXCEPT ![p] = "failed"]
            /\ Done(w)
            /\ UNCHANGED <<queue, lost>>
       ELSE Fails(w) /\ UNCHANGED row
    /\ UNCHANGED <<gen, chunks, embedded, mirrored, results, storeVars, unqueued, faults>>

\* Mutant: the chunks of the previous parse are not deleted.
Publish_KeepsOldChunks(w) == LET p == job[w].paper IN
    /\ pc[w] = "parse" /\ Present(p)
    /\ row' = [row EXCEPT ![p] = "ready"]
    /\ gen' = [gen EXCEPT ![p] = @ + 1]
    /\ chunks' = chunks \cup Parsed(p, gen[p] + 1)
    /\ Goto(w, "delay_embed")
    /\ UNCHANGED <<embedded, mirrored, results, storeVars, queue, unqueued, lost, faults>>

\* One transaction: status ready, old assets and chunks out, new ones in.
Publish(w) == LET p == job[w].paper IN
    /\ pc[w] = "parse"
    /\ IF Present(p)
       THEN /\ row' = [row EXCEPT ![p] = "ready"]
            /\ gen' = [gen EXCEPT ![p] = @ + 1]
            /\ chunks' = (chunks \ ChunksOf(p)) \cup Parsed(p, gen[p] + 1)
            /\ embedded' = embedded \ ChunksOf(p)
            /\ Goto(w, "delay_embed")
            /\ UNCHANGED <<queue, lost>>
       ELSE Fails(w) /\ UNCHANGED <<row, gen, chunks, embedded>>
    /\ UNCHANGED <<mirrored, results, storeVars, unqueued, faults>>

\* embed_paper.delay, build_graph.delay and extract_results.delay, in that order.
Chain(w) == LET p == job[w].paper IN
    /\ \/ /\ pc[w] = "delay_embed"
          /\ Sent(Msg("embed", p, 0)) /\ Goto(w, "delay_graph")
       \/ /\ pc[w] = "delay_graph"
          /\ Sent(Msg("graph", p, 0)) /\ Goto(w, "delay_extract")
       \/ /\ pc[w] = "delay_extract"
          /\ Sent(Msg("extract", p, 0)) /\ Done(w)
    /\ UNCHANGED <<dbVars, storeVars, unqueued, lost, faults>>

-----------------------------------------------------------------------------
(* embed_paper, with reindex = False as process_paper queues it *)

\* Mutant: an embed_paper that finds another one running on the paper returns.
StartEmbed_Exclusive(w) == \E p \in Paper, n \in 0..MaxRetries["embed"] :
    LET work == ChunksOf(p) \ embedded IN
    /\ Receives(w, "embed", p, n)
    /\ IF work # {} /\ \A v \in Worker : ~(pc[v] \in EmbedStep /\ job[v].paper = p)
       THEN Begins(w, "embed", p, n, "embed", "unborn", work)
       ELSE UNCHANGED workerVars
    /\ UNCHANGED <<dbVars, storeVars, unqueued, lost, faults>>

StartEmbed(w) == \E p \in Paper, n \in 0..MaxRetries["embed"] :
    LET work == ChunksOf(p) \ embedded IN
    /\ Receives(w, "embed", p, n)
    /\ IF work # {}
       THEN Begins(w, "embed", p, n, "embed", "unborn", work)
       ELSE UNCHANGED workerVars
    /\ UNCHANGED <<dbVars, storeVars, unqueued, lost, faults>>

\* The provider answered and the batch is upserted; the flag is not yet set.
EmbedBatch(w) ==
    /\ pc[w] = "embed"
    /\ vectors' = vectors \cup FirstBatch(todo[w])
    /\ Goto(w, "flag")
    /\ UNCHANGED <<dbVars, graph, queue, unqueued, lost, faults>>

\* Mutant: the UPDATE names every chunk of the run, not those of the batch.
FlagBatch_WholeRun(w) ==
    /\ pc[w] = "flag"
    /\ embedded' = embedded \cup (todo[w] \cap chunks)
    /\ Done(w)
    /\ UNCHANGED <<row, gen, chunks, mirrored, results, storeVars, queue, unqueued,
                   lost, faults>>

\* UPDATE ... WHERE id IN batch: rows replaced meanwhile match nothing.
FlagBatch(w) == LET batch == FirstBatch(todo[w]) IN
    /\ pc[w] = "flag"
    /\ embedded' = embedded \cup (batch \cap chunks)
    /\ IF todo[w] = batch
       THEN Done(w)
       ELSE /\ pc' = [pc EXCEPT ![w] = "embed"]
            /\ todo' = [todo EXCEPT ![w] = @ \ batch]
            /\ UNCHANGED <<job, restored, seen>>
    /\ UNCHANGED <<row, gen, chunks, mirrored, results, storeVars, queue, unqueued,
                   lost, faults>>

\* Mutant: the provider error is logged and the task returns.
EmbeddingFails_Logged(w) ==
    /\ "provider" \in Faults
    /\ pc[w] = "embed"
    /\ Done(w)
    /\ UNCHANGED <<dbVars, storeVars, queue, unqueued, lost, faults>>

\* EmbeddingError: the provider stayed unavailable through its own retries.
EmbeddingFails(w) ==
    /\ "provider" \in Faults
    /\ pc[w] = "embed"
    /\ Retries(w)
    /\ UNCHANGED <<dbVars, storeVars, unqueued, faults>>

-----------------------------------------------------------------------------
(* build_graph: any exception is retried, a missing paper included *)

StartGraph(w) == \E p \in Paper, n \in 0..MaxRetries["graph"] :
    /\ Receives(w, "graph", p, n)
    /\ IF GraphEnabled
       THEN Begins(w, "graph", p, n, "nodes", row[p], {})
       ELSE UNCHANGED workerVars
    /\ UNCHANGED <<dbVars, storeVars, unqueued, lost, faults>>

\* build_paper_graph raises ValueError when it read no row.
GraphPaperMissing(w) ==
    /\ pc[w] = "nodes" /\ seen[w] \notin Status
    /\ Retries(w)
    /\ UNCHANGED <<dbVars, storeVars, unqueued, faults>>

WriteGraph(w) == LET p == job[w].paper IN
    /\ \/ /\ pc[w] = "nodes" /\ seen[w] \in Status
          /\ graph' = graph \cup {<<p, "nodes">>} /\ Goto(w, "edges")
       \/ /\ pc[w] = "edges"
          /\ graph' = graph \cup {<<p, "edges">>} /\ Goto(w, "mirror")
    /\ UNCHANGED <<dbVars, vectors, queue, unqueued, lost, faults>>

\* Mutant: extracted_entities has no foreign key to papers.
MirrorEntities_NoForeignKey(w) ==
    /\ pc[w] = "mirror"
    /\ mirrored' = mirrored \cup {job[w].paper}
    /\ Done(w)
    /\ UNCHANGED <<row, gen, chunks, embedded, results, storeVars, queue, unqueued,
                   lost, faults>>

\* _mirror_entities: inserting for a paper that is gone breaks the foreign key,
\* committing an empty extraction does not.
MirrorEntities(w) == LET p == job[w].paper IN
    /\ pc[w] = "mirror"
    /\ IF Present(p)
       THEN mirrored' = mirrored \cup {p} /\ Done(w) /\ UNCHANGED <<queue, lost>>
       ELSE /\ Retries(w) \/ (Done(w) /\ UNCHANGED <<queue, lost>>)
            /\ UNCHANGED mirrored
    /\ UNCHANGED <<row, gen, chunks, embedded, results, storeVars, unqueued, faults>>

-----------------------------------------------------------------------------
(* extract_results *)

StartExtract(w) == \E p \in Paper, n \in 0..MaxRetries["extract"] :
    /\ Receives(w, "extract", p, n)
    /\ Begins(w, "extract", p, n, "persist", row[p], {})
    /\ UNCHANGED <<dbVars, storeVars, unqueued, lost, faults>>

\* extract_experiments raises ValueError when it read no row.
ExtractPaperMissing(w) ==
    /\ pc[w] = "persist" /\ seen[w] \notin Status
    /\ Retries(w)
    /\ UNCHANGED <<dbVars, storeVars, unqueued, faults>>

\* _persist_results, with the same two outcomes for a paper deleted since the
\* read; a paper without text returns before it.
PersistResults(w) == LET p == job[w].paper IN
    /\ pc[w] = "persist" /\ seen[w] \in Status
    /\ \/ /\ Present(p)
          /\ results' = results \cup {p} /\ Done(w) /\ UNCHANGED <<queue, lost>>
       \/ /\ ~Present(p)
          /\ Retries(w) /\ UNCHANGED results
       \/ Done(w) /\ UNCHANGED <<queue, lost, results>>
    /\ UNCHANGED <<row, gen, chunks, embedded, mirrored, storeVars, unqueued, faults>>

-----------------------------------------------------------------------------
(* Failures *)

\* Any other exception (database, OCR, vector store, ...) inside a running task.
RunRaises(w) ==
    /\ "unexpected" \in Faults
    /\ pc[w] # "idle"
    /\ IF job[w].task \in {"graph", "extract"} THEN Retries(w) ELSE Fails(w)
    /\ UNCHANGED <<dbVars, storeVars, unqueued, faults>>

\* The broker's visibility timeout expires: the message is handed out again
\* while the first delivery is still running.
Redeliver(w) ==
    /\ "visibility" \in Faults /\ faults < MaxFaults
    /\ pc[w] # "idle" /\ ~restored[w]
    /\ Sent(job[w])
    /\ restored' = [restored EXCEPT ![w] = TRUE]
    /\ faults' = faults + 1
    /\ UNCHANGED <<dbVars, storeVars, pc, job, seen, todo, unqueued, lost>>

\* Mutant: messages are acknowledged on receipt (task_acks_late off).
WorkerDies_AckedEarly(w) ==
    /\ "crash" \in Faults /\ faults < MaxFaults
    /\ pc[w] # "idle"
    /\ Done(w)
    /\ faults' = faults + 1
    /\ UNCHANGED <<dbVars, storeVars, queue, unqueued, lost>>

\* The whole worker dies: its unacknowledged message returns to the queue,
\* unless the visibility timeout had already returned it.
WorkerDies(w) ==
    /\ "crash" \in Faults /\ faults < MaxFaults
    /\ pc[w] # "idle"
    /\ Done(w)
    /\ IF restored[w] THEN Lose(w) /\ UNCHANGED queue ELSE Sent(job[w]) /\ UNCHANGED lost
    /\ faults' = faults + 1
    /\ UNCHANGED <<dbVars, storeVars, unqueued>>

\* The prefork child is killed under the task: Celery acknowledges the message
\* and records WorkerLostError (task_reject_on_worker_lost is not set).
ChildDies(w) ==
    /\ "child" \in Faults /\ faults < MaxFaults
    /\ pc[w] # "idle"
    /\ Fails(w)
    /\ faults' = faults + 1
    /\ UNCHANGED <<dbVars, storeVars, unqueued>>

-----------------------------------------------------------------------------

Init ==
    /\ row = [p \in Paper |-> "unborn"]
    /\ gen = [p \in Paper |-> 0]
    /\ chunks = {} /\ embedded = {} /\ mirrored = {} /\ results = {}
    /\ vectors = {} /\ graph = {}
    /\ queue = [m \in Sendable |-> 0]
    /\ unqueued = {}
    /\ pc = [w \in Worker |-> "idle"]
    /\ job = [w \in Worker |-> NoJob]
    /\ restored = [w \in Worker |-> FALSE]
    /\ seen = [w \in Worker |-> "unborn"]
    /\ todo = [w \in Worker |-> {}]
    /\ lost = {}
    /\ faults = 0

RunProcess(w) ==
    StartProcess(w) \/ MarkProcessing(w) \/ ParseFails(w) \/ Publish(w) \/ Chain(w)
RunEmbed(w) == StartEmbed(w) \/ EmbedBatch(w) \/ FlagBatch(w) \/ EmbeddingFails(w)
RunGraph(w) == StartGraph(w) \/ GraphPaperMissing(w) \/ WriteGraph(w) \/ MirrorEntities(w)
RunExtract(w) == StartExtract(w) \/ ExtractPaperMissing(w) \/ PersistResults(w)

Work(w) == RunProcess(w) \/ RunEmbed(w) \/ RunGraph(w) \/ RunExtract(w)

Disturb(w) == RunRaises(w) \/ Redeliver(w) \/ WorkerDies(w) \/ ChildDies(w)

Next ==
    \/ \E p \in Paper : Upload(p) \/ QueueProcessing(p) \/ QueueingFails(p) \/ Delete(p)
    \/ \E w \in Worker : Work(w) \/ Disturb(w)

Spec == Init /\ [][Next]_vars

\* Workers keep taking steps and the handler that committed a row reaches its
\* .delay; clients and failures owe nothing.
FairSpec ==
    /\ Spec
    /\ \A w \in Worker : WF_vars(Work(w))
    /\ \A p \in Paper : WF_vars(QueueProcessing(p) \/ QueueingFails(p))

-----------------------------------------------------------------------------
(* Properties *)

\* Every variable has its type.
TypeOK ==
    /\ row \in [Paper -> RowState]
    /\ gen \in [Paper -> Nat]
    /\ chunks \subseteq Chunk /\ embedded \subseteq chunks
    /\ mirrored \subseteq Paper /\ results \subseteq Paper
    /\ vectors \subseteq Chunk /\ graph \subseteq Paper \X {"nodes", "edges"}
    /\ queue \in [Sendable -> Nat]
    /\ unqueued \subseteq Paper
    /\ pc \in [Worker -> Step]
    /\ job \in [Worker -> Sendable \cup {NoJob}]
    /\ restored \in [Worker -> BOOLEAN]
    /\ seen \in [Worker -> RowState]
    /\ todo \in [Worker -> SUBSET Chunk]
    /\ lost \subseteq Task \X Paper
    /\ faults \in Nat

\* A row of a child table never outlives its paper, whatever a task that was
\* running when the paper was deleted writes afterwards.
RowsFollowPaper ==
    /\ \A c \in chunks : Present(c.paper)
    /\ \A p \in mirrored \cup results : Present(p)

\* A client that polls "ready" finds the chunks of one parse, all of them:
\* the status and the chunks are published together, and two runs of
\* process_paper on the same paper never mix their chunks.
ReadyIsWhole ==
    \A p \in Paper : row[p] = "ready" =>
        gen[p] > 0 /\ ChunksOf(p) = Parsed(p, gen[p])

\* The database never claims more than the external stores hold: a chunk marked
\* is_embedded has its vector, a mirrored paper its nodes and edges.
FlagsBackedByStores ==
    /\ embedded \subseteq vectors
    /\ \A p \in mirrored : <<p, "nodes">> \in graph /\ <<p, "edges">> \in graph

Shown == [p \in Paper |-> {c.gen : c \in ChunksOf(p)}]

Lifecycle == INSTANCE PaperLifecycle WITH status <- row, version <- gen, shown <- Shown

\* What a polling client sees of a paper is PaperLifecycle, whose comments say
\* what it promises: the pipeline implements it.

ImplementsLifecycle == Lifecycle!Spec

Queued(t, p) == \E n \in 0..MaxRetries[t] : queue[Msg(t, p, n)] > 0

Running(w, p, steps) == pc[w] \in steps /\ job[w].paper = p

\* A run of process_paper that will still settle the status is waiting or running.
WillProcess(p) ==
    \/ p \in unqueued
    \/ Queued("process", p)
    \/ \E w \in Worker : Running(w, p, {"mark", "parse"})

\* A paper shown as pending or processing has a run that will settle it, unless
\* a run of process_paper on it failed for good: no redelivery, worker loss or
\* second run can strand it silently.
NoStrandedPaper ==
    \A p \in Paper : row[p] \in {"pending", "processing"} =>
        WillProcess(p) \/ <<"process", p>> \in lost

\* Chunk c is in the hands of an embed_paper that is queued, about to be queued,
\* or running with c in its snapshot.
WillEmbed(c) ==
    \/ Queued("embed", c.paper)
    \/ \E w \in Worker : Running(w, c.paper, {"delay_embed"})
    \/ \E w \in Worker : Running(w, c.paper, EmbedStep) /\ c \in todo[w]

\* A ready paper's chunk that is not embedded yet is still on its way, unless a
\* task on that paper failed for good: replacing the chunks under a running
\* embed_paper never leaves a new chunk that nobody will embed.
NoLostEmbedding ==
    \A c \in chunks \ embedded : row[c.paper] = "ready" =>
        \/ WillProcess(c.paper) \/ WillEmbed(c)
        \/ <<"process", c.paper>> \in lost \/ <<"embed", c.paper>> \in lost

\* Polling the status ends: an uploaded paper becomes ready or failed, or is deleted.
StatusSettles ==
    \A p \in Paper :
        row[p] \in {"pending", "processing"} ~> row[p] \in {"ready", "failed", "deleted"}

\* Every chunk set of a paper is eventually embedded as a whole or replaced, or
\* a task on the paper failed for good.
ChunksGetEmbedded ==
    \A p \in Paper :
        row[p] = "ready" ~>
            \/ ChunksOf(p) \subseteq embedded
            \/ row[p] # "ready"
            \/ <<"process", p>> \in lost \/ <<"embed", p>> \in lost

===============================================================================
