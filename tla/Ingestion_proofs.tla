--------------------------- MODULE Ingestion_proofs ---------------------------
(***************************************************************************)
(* Proofs about Ingestion, for any papers, workers, batches, retry budgets *)
(* and faults.  The invariants are proved in layers: the types first, with *)
(* the message each running task holds; then what the tables and stores    *)
(* contain; then that no work is lost.                                     *)
(***************************************************************************)
EXTENDS Ingestion, TLAPS

-----------------------------------------------------------------------------
(* Layer 1: types *)

\* A worker inside a task holds a message of that task.
JobMatchesStep ==
    \A w \in Worker :
        /\ pc[w] \in ProcessStep => job[w] \in JobsOf("process")
        /\ pc[w] \in EmbedStep   => job[w] \in JobsOf("embed")
        /\ pc[w] \in GraphStep   => job[w] \in JobsOf("graph")
        /\ pc[w] = "persist"     => job[w] \in JobsOf("extract")

Typed == TypeOK /\ JobMatchesStep

StoreTyped ==
    /\ row \in [Paper -> RowState]
    /\ gen \in [Paper -> Nat]
    /\ chunks \subseteq Chunk /\ embedded \subseteq chunks
    /\ mirrored \subseteq Paper /\ results \subseteq Paper
    /\ vectors \subseteq Chunk /\ graph \subseteq Paper \X {"nodes", "edges"}

BrokerTyped ==
    /\ queue \in [Sendable -> Nat]
    /\ unqueued \subseteq Paper
    /\ lost \subseteq Task \X Paper
    /\ faults \in Nat

WorkersTyped ==
    /\ pc \in [Worker -> Step]
    /\ job \in [Worker -> Sendable \cup {NoJob}]
    /\ restored \in [Worker -> BOOLEAN]
    /\ seen \in [Worker -> RowState]
    /\ todo \in [Worker -> SUBSET Chunk]
    /\ JobMatchesStep

\* The three groups of variables are typed separately.
LEMMA TypedParts == Typed <=> StoreTyped /\ BrokerTyped /\ WorkersTyped
  BY DEF Typed, TypeOK, StoreTyped, BrokerTyped, WorkersTyped


\* A task that entered step s holds a message of the task s belongs to.
Matches(m, s) ==
    /\ s \in ProcessStep => m \in JobsOf("process")
    /\ s \in EmbedStep   => m \in JobsOf("embed")
    /\ s \in GraphStep   => m \in JobsOf("graph")
    /\ s = "persist"     => m \in JobsOf("extract")

\* The messages of a task are messages.
LEMMA JobsSendable == \A t \in Task : JobsOf(t) \subseteq Sendable
  BY DEF Sendable

LEMMA MsgTyped ==
    ASSUME NEW t \in Task, NEW p \in Paper, NEW n \in 0..MaxRetries[t]
    PROVE  Msg(t, p, n) \in JobsOf(t)
  BY DEF Msg, JobsOf

\* A busy worker holds a message; its paper and its attempt are in range.
LEMMA BusyHolds ==
    ASSUME WorkersTyped, NEW w \in Worker, pc[w] # "idle"
    PROVE  /\ job[w] \in Sendable
           /\ job[w].task \in Task /\ job[w].paper \in Paper
           /\ job[w].tries \in 0..MaxRetries[job[w].task]
           /\ job[w] \in JobsOf(job[w].task)
  <1>1. pc[w] \in Step
    BY DEF WorkersTyped
  <1>2. PICK t \in Task : job[w] \in JobsOf(t)
    BY <1>1 DEF WorkersTyped, JobMatchesStep, Step, Task
  <1>3. QED
    BY <1>2, JobsSendable DEF JobsOf

\* Finishing a task keeps the workers typed.
LEMMA DoneTyped ==
    ASSUME WorkersTyped, NEW w \in Worker, Done(w)
    PROVE  WorkersTyped'
  <1>1. /\ pc' \in [Worker -> Step] /\ job' \in [Worker -> Sendable \cup {NoJob}]
        /\ restored' \in [Worker -> BOOLEAN] /\ seen' \in [Worker -> RowState]
        /\ todo' \in [Worker -> SUBSET Chunk]
    BY DEF WorkersTyped, Done, Step, RowState
  <1>2. JobMatchesStep'
    BY DEF WorkersTyped, JobMatchesStep, Done, ProcessStep, EmbedStep, GraphStep
  <1>3. QED
    BY <1>1, <1>2 DEF WorkersTyped

\* So does moving to the next step of the same task.
LEMMA GotoTyped ==
    ASSUME WorkersTyped, NEW w \in Worker, NEW s \in Step, Goto(w, s), Matches(job[w], s)
    PROVE  WorkersTyped'
  <1>1. JobMatchesStep'
    BY DEF WorkersTyped, JobMatchesStep, Goto, Matches
  <1>2. QED
    BY <1>1 DEF WorkersTyped, Goto

\* And taking a new message.
LEMMA BeginsTyped ==
    ASSUME WorkersTyped, NEW w \in Worker, NEW t \in Task, NEW p \in Paper,
           NEW n \in 0..MaxRetries[t], NEW s \in Step, NEW r \in RowState,
           NEW S \in SUBSET Chunk, Begins(w, t, p, n, s, r, S), Matches(Msg(t, p, n), s)
    PROVE  WorkersTyped'
  <1>1. Msg(t, p, n) \in Sendable
    BY MsgTyped, JobsSendable
  <1>2. JobMatchesStep'
    BY DEF WorkersTyped, JobMatchesStep, Begins, Matches
  <1>3. QED
    BY <1>1, <1>2 DEF WorkersTyped, Begins

\* Sending a message keeps the queue typed.
LEMMA SentTyped ==
    ASSUME BrokerTyped, NEW m \in Sendable, Sent(m)
    PROVE  queue' \in [Sendable -> Nat]
  BY DEF BrokerTyped, Sent

\* Giving up on the message a busy worker holds keeps `lost` typed.
LEMMA LoseTyped ==
    ASSUME WorkersTyped, BrokerTyped, NEW w \in Worker, pc[w] # "idle", Lose(w)
    PROVE  lost' \subseteq Task \X Paper
  BY BusyHolds DEF BrokerTyped, Lose

\* A failing or retrying task keeps workers, queue and `lost` typed.
LEMMA FailsTyped ==
    ASSUME WorkersTyped, BrokerTyped, NEW w \in Worker, pc[w] # "idle", Fails(w)
    PROVE  /\ WorkersTyped'
           /\ queue' \in [Sendable -> Nat] /\ lost' \subseteq Task \X Paper
  BY DoneTyped, LoseTyped DEF Fails, BrokerTyped

\* The next attempt of a message below its cap is a message.
LEMMA NextAttempt ==
    ASSUME WorkersTyped, NEW w \in Worker, pc[w] # "idle",
           job[w].tries < MaxRetries[job[w].task]
    PROVE  /\ job[w].tries + 1 \in 0..MaxRetries[job[w].task]
           /\ Msg(job[w].task, job[w].paper, job[w].tries + 1) \in Sendable
  <1>1. /\ job[w].task \in Task /\ job[w].paper \in Paper
        /\ job[w].tries \in 0..MaxRetries[job[w].task]
    BY BusyHolds
  <1>2. job[w].tries + 1 \in 0..MaxRetries[job[w].task]
    BY <1>1, IngestionAssumption
  <1>3. QED
    BY <1>1, <1>2, MsgTyped, JobsSendable

LEMMA RetriesTyped ==
    ASSUME WorkersTyped, BrokerTyped, NEW w \in Worker, pc[w] # "idle", Retries(w)
    PROVE  /\ WorkersTyped'
           /\ queue' \in [Sendable -> Nat] /\ lost' \subseteq Task \X Paper
  <1>1. WorkersTyped'
    BY DoneTyped DEF Retries
  <1>2. CASE job[w].tries < MaxRetries[job[w].task]
    BY <1>1, <1>2, NextAttempt, SentTyped DEF Retries, BrokerTyped
  <1>3. CASE ~(job[w].tries < MaxRetries[job[w].task])
    BY <1>1, <1>3, LoseTyped DEF Retries, BrokerTyped
  <1>4. QED
    BY <1>2, <1>3

\* Taking a message out of the queue keeps the queue typed.
LEMMA ReceivesTyped ==
    ASSUME BrokerTyped, NEW w, NEW t \in Task, NEW p \in Paper,
           NEW n \in 0..MaxRetries[t], Receives(w, t, p, n)
    PROVE  queue' \in [Sendable -> Nat] /\ queue[Msg(t, p, n)] \in Nat \ {0}
  <1>1. Msg(t, p, n) \in Sendable
    BY MsgTyped, JobsSendable
  <1>2. QED
    BY <1>1 DEF BrokerTyped, Receives

\* The chunks a Parsed set or a batch is made of are chunks.
LEMMA ChunkSets ==
    ASSUME StoreTyped, NEW p \in Paper, NEW S \in SUBSET Chunk
    PROVE  /\ Parsed(p, gen[p] + 1) \subseteq Chunk
           /\ ChunksOf(p) \subseteq chunks
           /\ FirstBatch(S) \subseteq Chunk
  BY DEF StoreTyped, Parsed, Chunk, ChunksOf, FirstBatch

LEMMA SeenTyped ==
    ASSUME StoreTyped, NEW p \in Paper
    PROVE  row[p] \in RowState
  BY DEF StoreTyped

USE DEF dbVars, storeVars, workerVars

\* What the API does keeps every variable typed.
LEMMA ApiTyped ==
    ASSUME Typed, NEW p \in Paper,
           Upload(p) \/ QueueProcessing(p) \/ QueueingFails(p) \/ Delete(p)
    PROVE  Typed'
  <1> USE TypedParts
  <1>1. CASE Upload(p) \/ Delete(p)
    <2>1. StoreTyped'
      BY <1>1 DEF Upload, Delete, StoreTyped, RowState, Status, ChunksOf
    <2>2. BrokerTyped' /\ WorkersTyped'
      BY <1>1 DEF Upload, Delete, BrokerTyped, WorkersTyped, JobMatchesStep
    <2>3. QED
      BY <2>1, <2>2 DEF Typed, TypeOK, StoreTyped, BrokerTyped, WorkersTyped
  <1>2. CASE QueueProcessing(p) \/ QueueingFails(p)
    <2>1. Msg("process", p, 0) \in Sendable
      BY MsgTyped, JobsSendable, IngestionAssumption DEF Task
    <2>2. BrokerTyped'
      BY <1>2, <2>1, SentTyped DEF QueueProcessing, QueueingFails, BrokerTyped, Task
    <2>3. StoreTyped' /\ WorkersTyped'
      BY <1>2 DEF QueueProcessing, QueueingFails, StoreTyped, WorkersTyped, JobMatchesStep
    <2>4. QED
      BY <2>2, <2>3 DEF Typed, TypeOK, StoreTyped, BrokerTyped, WorkersTyped
  <1>3. QED
    BY <1>1, <1>2

\* So does every step of process_paper.
LEMMA ProcessTyped ==
    ASSUME Typed, NEW w \in Worker, RunProcess(w)
    PROVE  Typed'
  <1> DEFINE p == job[w].paper
  <1>0. StoreTyped /\ BrokerTyped /\ WorkersTyped
    BY TypedParts
  <1> SUFFICES StoreTyped' /\ BrokerTyped' /\ WorkersTyped'
    BY DEF Typed, TypeOK, StoreTyped, BrokerTyped, WorkersTyped
  <1>1. CASE StartProcess(w)
    <2>1. PICK q \in Paper, n \in 0..MaxRetries["process"] :
            /\ Receives(w, "process", q, n)
            /\ IF Present(q) THEN Begins(w, "process", q, n, "mark", row[q], {})
                             ELSE UNCHANGED workerVars
            /\ UNCHANGED <<dbVars, storeVars, unqueued, lost, faults>>
      BY <1>1 DEF StartProcess
    <2>2. BrokerTyped'
      BY <1>0, <2>1, ReceivesTyped DEF BrokerTyped, Task
    <2>3. CASE Present(q)
      <3>1. row[q] \in RowState
        BY <1>0, SeenTyped
      <3>2. Matches(Msg("process", q, n), "mark")
        BY MsgTyped DEF Matches, EmbedStep, GraphStep, Task
      <3>3. WorkersTyped'
        BY <1>0, <2>1, <2>3, <3>1, <3>2, BeginsTyped DEF Step, ProcessStep, Task
      <3>4. QED
        BY <1>0, <2>1, <2>2, <3>3 DEF StoreTyped
    <2>4. CASE ~Present(q)
      BY <1>0, <2>1, <2>2, <2>4 DEF StoreTyped, WorkersTyped, JobMatchesStep
    <2>5. QED
      BY <2>3, <2>4
  <1>2. CASE MarkProcessing(w)
    <2>1. pc[w] = "mark" /\ pc[w] # "idle" /\ Matches(job[w], "parse")
      BY <1>0, <1>2 DEF MarkProcessing, WorkersTyped, JobMatchesStep, ProcessStep, EmbedStep,
                        GraphStep, Matches
    <2>2. WorkersTyped' /\ BrokerTyped'
      <3>1. CASE Goto(w, "parse") /\ UNCHANGED <<queue, lost>>
        BY <1>0, <1>2, <2>1, <3>1, GotoTyped DEF MarkProcessing, BrokerTyped, Step, ProcessStep
      <3>2. CASE Fails(w)
        BY <1>0, <1>2, <2>1, <3>2, FailsTyped DEF MarkProcessing, BrokerTyped
      <3>3. QED
        BY <1>2, <3>1, <3>2 DEF MarkProcessing
    <2>3. StoreTyped'
      BY <1>0, <1>2 DEF MarkProcessing, StoreTyped, RowState, Status
    <2>4. QED
      BY <2>2, <2>3
  <1>3. CASE ParseFails(w)
    <2>1. pc[w] # "idle"
      BY <1>3 DEF ParseFails
    <2>2. WorkersTyped' /\ BrokerTyped'
      BY <1>0, <1>3, <2>1, DoneTyped, FailsTyped DEF ParseFails, BrokerTyped
    <2>3. StoreTyped'
      BY <1>0, <1>3 DEF ParseFails, StoreTyped, RowState, Status
    <2>4. QED
      BY <2>2, <2>3
  <1>4. CASE Publish(w)
    <2>1. pc[w] # "idle" /\ Matches(job[w], "delay_embed") /\ p \in Paper
      BY <1>0, <1>4, BusyHolds DEF Publish, WorkersTyped, JobMatchesStep, ProcessStep,
                        EmbedStep, GraphStep, Matches
    <2>2. WorkersTyped' /\ BrokerTyped'
      BY <1>0, <1>4, <2>1, GotoTyped, FailsTyped DEF Publish, BrokerTyped, Step, ProcessStep
    <2>3. StoreTyped'
      <3>1. CASE Present(p)
        <4>1. /\ row' \in [Paper -> RowState] /\ gen' \in [Paper -> Nat]
              /\ UNCHANGED <<mirrored, results, vectors, graph>>
          BY <1>0, <1>4, <2>1, <3>1 DEF Publish, StoreTyped, RowState, Status
        <4>2. /\ chunks' = (chunks \ ChunksOf(p)) \cup Parsed(p, gen[p] + 1)
              /\ embedded' = embedded \ ChunksOf(p)
          BY <1>4, <3>1 DEF Publish
        <4>3. Parsed(p, gen[p] + 1) \subseteq Chunk
          BY <1>0, <2>1, ChunkSets
        <4>4. chunks' \subseteq Chunk /\ embedded' \subseteq chunks'
          BY <1>0, <4>2, <4>3 DEF StoreTyped
        <4>5. QED
          BY <1>0, <4>1, <4>4 DEF StoreTyped
      <3>2. CASE ~Present(p)
        BY <1>0, <1>4, <3>2 DEF Publish, StoreTyped
      <3>3. QED
        BY <3>1, <3>2
    <2>4. QED
      BY <2>2, <2>3
  <1>5. CASE Chain(w)
    <2>1. /\ pc[w] # "idle" /\ p \in Paper
          /\ Matches(job[w], "delay_graph") /\ Matches(job[w], "delay_extract")
      BY <1>0, <1>5, BusyHolds DEF Chain, WorkersTyped, JobMatchesStep, ProcessStep,
                        EmbedStep, GraphStep, Matches
    <2>2. \A t \in Task : Msg(t, p, 0) \in Sendable
      BY <2>1, MsgTyped, JobsSendable, IngestionAssumption
    <2>3. BrokerTyped'
      BY <1>0, <1>5, <2>2, SentTyped DEF Chain, BrokerTyped, Task
    <2>4. WorkersTyped'
      BY <1>0, <1>5, <2>1, GotoTyped, DoneTyped DEF Chain, Step, ProcessStep
    <2>5. QED
      BY <1>0, <1>5, <2>3, <2>4 DEF Chain, StoreTyped
  <1>6. QED
    BY <1>1, <1>2, <1>3, <1>4, <1>5 DEF RunProcess

\* And every step of the three downstream tasks.
LEMMA DownstreamTyped ==
    ASSUME Typed, NEW w \in Worker, RunEmbed(w) \/ RunGraph(w) \/ RunExtract(w)
    PROVE  Typed'
  <1> DEFINE p == job[w].paper
  <1>0. StoreTyped /\ BrokerTyped /\ WorkersTyped
    BY TypedParts
  <1> SUFFICES StoreTyped' /\ BrokerTyped' /\ WorkersTyped'
    BY DEF Typed, TypeOK, StoreTyped, BrokerTyped, WorkersTyped
  <1>s. pc[w] \in EmbedStep \cup GraphStep \cup {"persist"} =>
          /\ pc[w] # "idle" /\ p \in Paper
          /\ pc[w] \in EmbedStep => job[w] \in JobsOf("embed")
          /\ pc[w] \in GraphStep => job[w] \in JobsOf("graph")
    BY <1>0, BusyHolds DEF WorkersTyped, JobMatchesStep, EmbedStep, GraphStep
  <1>1. CASE StartEmbed(w)
    <2>1. PICK q \in Paper, n \in 0..MaxRetries["embed"] :
            /\ Receives(w, "embed", q, n)
            /\ \/ Begins(w, "embed", q, n, "embed", "unborn", ChunksOf(q) \ embedded)
               \/ UNCHANGED workerVars
            /\ UNCHANGED <<dbVars, storeVars, unqueued, lost, faults>>
      BY <1>1 DEF StartEmbed
    <2>2. BrokerTyped'
      BY <1>0, <2>1, ReceivesTyped DEF BrokerTyped, Task
    <2>3. Matches(Msg("embed", q, n), "embed") /\ ChunksOf(q) \ embedded \in SUBSET Chunk
      BY <1>0, MsgTyped, ChunkSets
         DEF Matches, ProcessStep, EmbedStep, GraphStep, Task, StoreTyped
    <2>4. WorkersTyped'
      <3>1. CASE Begins(w, "embed", q, n, "embed", "unborn", ChunksOf(q) \ embedded)
        BY <1>0, <2>3, <3>1, BeginsTyped DEF Step, EmbedStep, Task, RowState
      <3>2. CASE UNCHANGED workerVars
        BY <1>0, <3>2 DEF WorkersTyped, JobMatchesStep
      <3>3. QED
        BY <2>1, <3>1, <3>2
    <2>5. QED
      BY <1>0, <2>1, <2>2, <2>4 DEF StoreTyped
  <1>2. CASE EmbedBatch(w)
    <2>1. Matches(job[w], "flag")
      BY <1>2, <1>s DEF EmbedBatch, Matches, ProcessStep, EmbedStep, GraphStep
    <2>2. WorkersTyped'
      BY <1>0, <1>2, <2>1, GotoTyped DEF EmbedBatch, Step, EmbedStep
    <2>3. todo[w] \in SUBSET Chunk
      BY <1>0 DEF WorkersTyped
    <2>4. FirstBatch(todo[w]) \subseteq Chunk
      BY <2>3 DEF FirstBatch
    <2>5. QED
      BY <1>0, <1>2, <2>2, <2>4 DEF EmbedBatch, StoreTyped, BrokerTyped
  <1>3. CASE FlagBatch(w)
    <2>1. WorkersTyped'
      <3>1. CASE Done(w)
        BY <1>0, <3>1, DoneTyped
      <3>2. CASE /\ pc' = [pc EXCEPT ![w] = "embed"]
                 /\ todo' = [todo EXCEPT ![w] = @ \ FirstBatch(todo[w])]
                 /\ UNCHANGED <<job, restored, seen>>
        <4>1. JobMatchesStep'
          BY <1>0, <1>3, <1>s, <3>2
             DEF FlagBatch, WorkersTyped, JobMatchesStep, ProcessStep, EmbedStep, GraphStep
        <4>2. QED
          BY <1>0, <3>2, <4>1 DEF WorkersTyped, Step, EmbedStep
      <3>3. QED
        BY <1>3, <3>1, <3>2 DEF FlagBatch
    <2>2. QED
      BY <1>0, <1>3, <2>1 DEF FlagBatch, StoreTyped, BrokerTyped
  <1>4. CASE EmbeddingFails(w)
    BY <1>0, <1>4, RetriesTyped DEF EmbeddingFails, StoreTyped, BrokerTyped
  <1>5. CASE StartGraph(w)
    <2>1. PICK q \in Paper, n \in 0..MaxRetries["graph"] :
            /\ Receives(w, "graph", q, n)
            /\ \/ Begins(w, "graph", q, n, "nodes", row[q], {})
               \/ UNCHANGED workerVars
            /\ UNCHANGED <<dbVars, storeVars, unqueued, lost, faults>>
      BY <1>5 DEF StartGraph
    <2>2. BrokerTyped'
      BY <1>0, <2>1, ReceivesTyped DEF BrokerTyped, Task
    <2>3. Matches(Msg("graph", q, n), "nodes") /\ row[q] \in RowState
      BY <1>0, MsgTyped, SeenTyped DEF Matches, ProcessStep, EmbedStep, Task
    <2>4. WorkersTyped'
      <3>1. CASE Begins(w, "graph", q, n, "nodes", row[q], {})
        BY <1>0, <2>3, <3>1, BeginsTyped DEF Step, GraphStep, Task
      <3>2. CASE UNCHANGED workerVars
        BY <1>0, <3>2 DEF WorkersTyped, JobMatchesStep
      <3>3. QED
        BY <2>1, <3>1, <3>2
    <2>5. QED
      BY <1>0, <2>1, <2>2, <2>4 DEF StoreTyped
  <1>6. CASE GraphPaperMissing(w)
    BY <1>0, <1>6, RetriesTyped DEF GraphPaperMissing, StoreTyped, BrokerTyped
  <1>7. CASE WriteGraph(w)
    <2>1. p \in Paper /\ Matches(job[w], "edges") /\ Matches(job[w], "mirror")
      BY <1>7, <1>s DEF WriteGraph, Matches, ProcessStep, EmbedStep, GraphStep
    <2>2. WorkersTyped'
      BY <1>0, <1>7, <2>1, GotoTyped DEF WriteGraph, Step, GraphStep
    <2>3. QED
      BY <1>0, <1>7, <2>1, <2>2 DEF WriteGraph, StoreTyped, BrokerTyped
  <1>8. CASE MirrorEntities(w)
    <2>1. p \in Paper /\ pc[w] # "idle"
      BY <1>8, <1>s DEF MirrorEntities, GraphStep
    <2>2. WorkersTyped' /\ BrokerTyped'
      BY <1>0, <1>8, <2>1, DoneTyped, RetriesTyped DEF MirrorEntities, BrokerTyped
    <2>3. QED
      BY <1>0, <1>8, <2>1, <2>2 DEF MirrorEntities, StoreTyped
  <1>9. CASE StartExtract(w)
    <2>1. PICK q \in Paper, n \in 0..MaxRetries["extract"] :
            /\ Receives(w, "extract", q, n)
            /\ Begins(w, "extract", q, n, "persist", row[q], {})
            /\ UNCHANGED <<dbVars, storeVars, unqueued, lost, faults>>
      BY <1>9 DEF StartExtract
    <2>2. BrokerTyped'
      BY <1>0, <2>1, ReceivesTyped DEF BrokerTyped, Task
    <2>3. Matches(Msg("extract", q, n), "persist") /\ row[q] \in RowState
      BY <1>0, MsgTyped, SeenTyped DEF Matches, ProcessStep, EmbedStep, GraphStep, Task
    <2>4. WorkersTyped'
      BY <1>0, <2>1, <2>3, BeginsTyped DEF Step, Task
    <2>5. QED
      BY <1>0, <2>1, <2>2, <2>4 DEF StoreTyped
  <1>10. CASE ExtractPaperMissing(w)
    BY <1>0, <1>10, RetriesTyped DEF ExtractPaperMissing, StoreTyped, BrokerTyped
  <1>11. CASE PersistResults(w)
    <2>1. p \in Paper /\ pc[w] # "idle"
      BY <1>11, <1>s DEF PersistResults
    <2>2. WorkersTyped' /\ BrokerTyped'
      BY <1>0, <1>11, <2>1, DoneTyped, RetriesTyped DEF PersistResults, BrokerTyped
    <2>3. QED
      BY <1>0, <1>11, <2>1, <2>2 DEF PersistResults, StoreTyped
  <1>12. QED
    BY <1>1, <1>2, <1>3, <1>4, <1>5, <1>6, <1>7, <1>8, <1>9, <1>10, <1>11
       DEF RunEmbed, RunGraph, RunExtract

\* And every failure.
LEMMA DisturbTyped ==
    ASSUME Typed, NEW w \in Worker, Disturb(w)
    PROVE  Typed'
  <1>0. StoreTyped /\ BrokerTyped /\ WorkersTyped
    BY TypedParts
  <1>1. pc[w] # "idle" /\ job[w] \in Sendable
    BY <1>0, BusyHolds DEF Disturb, RunRaises, Redeliver, WorkerDies, ChildDies
  <1>2. StoreTyped'
    BY <1>0 DEF Disturb, RunRaises, Redeliver, WorkerDies, ChildDies, StoreTyped
  <1>3. BrokerTyped' /\ WorkersTyped'
    <2>1. CASE RunRaises(w)
      BY <1>0, <1>1, <2>1, FailsTyped, RetriesTyped DEF RunRaises, BrokerTyped
    <2>2. CASE Redeliver(w)
      BY <1>0, <1>1, <2>2, SentTyped DEF Redeliver, BrokerTyped, WorkersTyped, JobMatchesStep
    <2>3. CASE WorkerDies(w)
      BY <1>0, <1>1, <2>3, DoneTyped, SentTyped, LoseTyped DEF WorkerDies, BrokerTyped
    <2>4. CASE ChildDies(w)
      BY <1>0, <1>1, <2>4, FailsTyped DEF ChildDies, BrokerTyped
    <2>5. QED
      BY <2>1, <2>2, <2>3, <2>4 DEF Disturb
  <1>4. QED
    BY <1>2, <1>3 DEF Typed, TypeOK, StoreTyped, BrokerTyped, WorkersTyped

\* Type correctness: no run of the pipeline leaves the types, whatever fails.
\* In particular a flag is never set on a chunk that has no row (embedded is a
\* subset of chunks), and no task is re-published past its retry budget.
THEOREM TypedInvariant == Spec => []Typed
  <1>1. Init => Typed
    BY IngestionAssumption DEF Init, Typed, TypeOK, JobMatchesStep, RowState, Status, Step,
       ProcessStep, EmbedStep, GraphStep
  <1>2. Typed /\ [Next]_vars => Typed'
    <2>1. ASSUME Typed, UNCHANGED vars PROVE Typed'
      BY <2>1 DEF Typed, TypeOK, JobMatchesStep, vars
    <2>2. QED
      BY <2>1, ApiTyped, ProcessTyped, DownstreamTyped, DisturbTyped DEF Next, Work
  <1>3. QED
    BY <1>1, <1>2, PTL DEF Spec

THEOREM TypeCorrect == Spec => []TypeOK
  BY TypedInvariant, PTL DEF Typed

-----------------------------------------------------------------------------
(* Layer 2: what the tables and the stores contain *)

\* What a task relies on between two of its steps.  A paper being parsed was
\* seen processing: a stale read of "processing" was never followed by pending.
InFlight ==
    \A w \in Worker : LET p == job[w].paper IN
        /\ pc[w] = "mark" =>
              row[p] # "unborn" /\ (seen[w] = "processing" => row[p] # "pending")
        /\ pc[w] = "parse" => row[p] \notin {"unborn", "pending"}
        /\ pc[w] = "flag" => FirstBatch(todo[w]) \subseteq vectors
        /\ pc[w] \in {"edges", "mirror"} => <<p, "nodes">> \in graph
        /\ pc[w] = "mirror" => <<p, "edges">> \in graph

Content == RowsFollowPaper /\ ReadyIsWhole /\ FlagsBackedByStores /\ InFlight

\* A step that leaves the database and the stores alone preserves Content if
\* the workers it moves enter no step that relies on something.
LEMMA QuietContent ==
    ASSUME Content, NEW w \in Worker, UNCHANGED <<dbVars, storeVars>>,
           \A v \in Worker \ {w} : UNCHANGED <<pc[v], job[v], seen[v], todo[v]>>,
           \/ pc'[w] \notin {"mark", "parse", "flag", "edges", "mirror"}
           \/ UNCHANGED <<pc[w], job[w], seen[w], todo[w]>>
    PROVE  Content'
  <1>1. RowsFollowPaper' /\ ReadyIsWhole' /\ FlagsBackedByStores'
    BY DEF Content, RowsFollowPaper, ReadyIsWhole, FlagsBackedByStores, Present, ChunksOf, Parsed
  <1>2. InFlight'
    BY DEF Content, InFlight, FirstBatch
  <1>3. QED
    BY <1>1, <1>2 DEF Content

\* Ending a task, by whatever way, relies on nothing.
LEMMA DoneQuiet ==
    ASSUME Typed, NEW w \in Worker, Done(w)
    PROVE  /\ pc'[w] = "idle"
           /\ \A v \in Worker \ {w} : UNCHANGED <<pc[v], job[v], seen[v], todo[v]>>
  BY DEF Typed, TypeOK, Done

LEMMA ApiContent ==
    ASSUME Typed, Content, NEW p \in Paper,
           Upload(p) \/ QueueProcessing(p) \/ QueueingFails(p) \/ Delete(p)
    PROVE  Content'
  <1>1. CASE Upload(p)
    <2>1. RowsFollowPaper' /\ ReadyIsWhole' /\ FlagsBackedByStores'
      BY <1>1 DEF Upload, Typed, TypeOK, Content, RowsFollowPaper, ReadyIsWhole,
                  FlagsBackedByStores, Present, ChunksOf, Parsed, Status
    <2>2. InFlight'
      BY <1>1 DEF Upload, Typed, TypeOK, Content, InFlight
    <2>3. QED
      BY <2>1, <2>2 DEF Content
  <1>2. CASE QueueProcessing(p) \/ QueueingFails(p)
    BY <1>2 DEF QueueProcessing, QueueingFails, Content, RowsFollowPaper, ReadyIsWhole,
                FlagsBackedByStores, InFlight, Present, ChunksOf, Parsed
  <1>3. CASE Delete(p)
    <2>1. RowsFollowPaper'
      BY <1>3 DEF Delete, Typed, TypeOK, Content, RowsFollowPaper, Present, ChunksOf
    <2>2. ReadyIsWhole'
      BY <1>3 DEF Delete, Typed, TypeOK, Content, ReadyIsWhole, ChunksOf, Parsed
    <2>3. FlagsBackedByStores' /\ InFlight'
      BY <1>3 DEF Delete, Typed, TypeOK, Content, FlagsBackedByStores, InFlight, FirstBatch,
                  Present, Status
    <2>4. QED
      BY <2>1, <2>2, <2>3 DEF Content
  <1>4. QED
    BY <1>1, <1>2, <1>3

\* Marking an existing paper processing or failed disturbs no table.
LEMMA Restatus ==
    ASSUME Typed, Content, NEW p \in Paper, Present(p), NEW s \in {"processing", "failed"},
           row' = [row EXCEPT ![p] = s],
           UNCHANGED <<gen, chunks, embedded, mirrored, results, storeVars>>
    PROVE  RowsFollowPaper' /\ ReadyIsWhole' /\ FlagsBackedByStores'
  <1>1. \A q \in Paper : Present(q) <=> Present(q)'
    BY DEF Typed, TypeOK, Present, Status
  <1>2. RowsFollowPaper'
    BY <1>1 DEF Typed, TypeOK, Content, RowsFollowPaper, Chunk
  <1>3. ReadyIsWhole'
    BY DEF Typed, TypeOK, Content, ReadyIsWhole, ChunksOf, Parsed
  <1>4. QED
    BY <1>2, <1>3 DEF Content, FlagsBackedByStores

LEMMA ProcessContent ==
    ASSUME Typed, Content, NEW w \in Worker, RunProcess(w)
    PROVE  Content'
  <1> DEFINE p == job[w].paper
  <1>0. WorkersTyped /\ StoreTyped
    BY TypedParts
  <1>p. pc[w] # "idle" => p \in Paper
    BY <1>0, BusyHolds
  <1>1. CASE StartProcess(w)
    <2>1. PICK q \in Paper, n \in 0..MaxRetries["process"] :
            /\ \/ Present(q) /\ Begins(w, "process", q, n, "mark", row[q], {})
               \/ UNCHANGED workerVars
            /\ UNCHANGED <<dbVars, storeVars>>
      BY <1>1 DEF StartProcess
    <2>2. InFlight'
      BY <1>0, <2>1 DEF Begins, Msg, Present, Status, WorkersTyped, Content, InFlight
    <2>3. QED
      BY <2>1, <2>2 DEF Content, RowsFollowPaper, ReadyIsWhole, FlagsBackedByStores, Present,
                        ChunksOf, Parsed
  <1>2. CASE MarkProcessing(w)
    <2>0. p \in Paper
      BY <1>2, <1>p DEF MarkProcessing
    <2>1. CASE seen[w] = "processing" /\ Goto(w, "parse") /\ UNCHANGED row
      <3>1. RowsFollowPaper' /\ ReadyIsWhole' /\ FlagsBackedByStores'
        BY <1>2, <2>1 DEF MarkProcessing, Content, RowsFollowPaper, ReadyIsWhole,
                  FlagsBackedByStores, Present, ChunksOf, Parsed
      <3>2. InFlight'
        BY <1>0, <1>2, <2>1 DEF MarkProcessing, Goto, WorkersTyped, Content, InFlight, FirstBatch
      <3>3. QED
        BY <3>1, <3>2 DEF Content
    <2>2. CASE /\ Present(p) /\ row' = [row EXCEPT ![p] = "processing"]
               /\ Goto(w, "parse")
      <3>1. RowsFollowPaper' /\ ReadyIsWhole' /\ FlagsBackedByStores'
        BY <1>2, <2>0, <2>2, Restatus DEF MarkProcessing
      <3>2. InFlight'
        BY <1>0, <1>2, <2>0, <2>2 DEF MarkProcessing, Goto, StoreTyped, WorkersTyped, Content,
                  InFlight, FirstBatch
      <3>3. QED
        BY <3>1, <3>2 DEF Content
    <2>3. CASE Fails(w) /\ UNCHANGED row
      BY <1>2, <2>3, DoneQuiet, QuietContent DEF MarkProcessing, Fails
    <2>4. QED
      BY <1>2, <2>1, <2>2, <2>3 DEF MarkProcessing
  <1>3. CASE ParseFails(w)
    <2>0. p \in Paper /\ Done(w)
      BY <1>3, <1>p DEF ParseFails, Fails
    <2>1. CASE Present(p)
      <3>1. RowsFollowPaper' /\ ReadyIsWhole' /\ FlagsBackedByStores'
        BY <1>3, <2>0, <2>1, Restatus DEF ParseFails
      <3>2. row' = [row EXCEPT ![p] = "failed"] /\ UNCHANGED <<vectors, graph>>
        BY <1>3, <2>1 DEF ParseFails
      <3>3. InFlight'
        BY <1>0, <2>0, <3>2 DEF Done, StoreTyped, WorkersTyped, Content, InFlight, FirstBatch
      <3>4. QED
        BY <3>1, <3>3 DEF Content
    <2>2. CASE ~Present(p)
      BY <1>3, <2>2, DoneQuiet, QuietContent DEF ParseFails, Fails
    <2>3. QED
      BY <2>1, <2>2
  <1>4. CASE Publish(w)
    <2>0. p \in Paper
      BY <1>4, <1>p DEF Publish
    <2>1. CASE Present(p)
      <3>1. /\ row' = [row EXCEPT ![p] = "ready"]
            /\ gen' = [gen EXCEPT ![p] = @ + 1]
            /\ chunks' = (chunks \ ChunksOf(p)) \cup Parsed(p, gen[p] + 1)
            /\ embedded' = embedded \ ChunksOf(p)
            /\ Goto(w, "delay_embed")
            /\ UNCHANGED <<mirrored, results, storeVars>>
        BY <1>4, <2>1 DEF Publish
      <3>2. RowsFollowPaper'
        BY <1>0, <2>0, <2>1, <3>1 DEF StoreTyped, Content, RowsFollowPaper, Present, Parsed, Status
      <3>3. ASSUME NEW q \in Paper, row'[q] = "ready"
            PROVE  gen'[q] > 0 /\ ChunksOf(q)' = Parsed(q, gen'[q])
        <4>1. CASE q = p
          BY <1>0, <2>0, <3>1, <4>1 DEF StoreTyped, ChunksOf, Parsed
        <4>2. CASE q # p
          BY <1>0, <2>0, <3>1, <3>3, <4>2 DEF StoreTyped, Content, ReadyIsWhole, ChunksOf, Parsed
        <4>3. QED
          BY <4>1, <4>2
      <3>4. ReadyIsWhole'
        BY <3>3 DEF ReadyIsWhole, Parsed
      <3>5. FlagsBackedByStores' /\ InFlight'
        BY <1>0, <2>0, <2>1, <3>1 DEF Goto, StoreTyped, WorkersTyped, Content,
                  FlagsBackedByStores, InFlight, FirstBatch
      <3>6. QED
        BY <3>2, <3>4, <3>5 DEF Content
    <2>2. CASE ~Present(p)
      BY <1>4, <2>2, DoneQuiet, QuietContent DEF Publish, Fails
    <2>3. QED
      BY <2>1, <2>2
  <1>5. CASE Chain(w)
    <2>1. UNCHANGED <<dbVars, storeVars>>
      BY <1>5 DEF Chain
    <2>2. CASE Done(w)
      BY <2>1, <2>2, DoneQuiet, QuietContent
    <2>3. CASE Goto(w, "delay_graph") \/ Goto(w, "delay_extract")
      BY <1>0, <2>1, <2>3, QuietContent DEF Goto, WorkersTyped
    <2>4. QED
      BY <1>5, <2>2, <2>3 DEF Chain
  <1>6. QED
    BY <1>1, <1>2, <1>3, <1>4, <1>5 DEF RunProcess

LEMMA DownstreamContent ==
    ASSUME Typed, Content, NEW w \in Worker, RunEmbed(w) \/ RunGraph(w) \/ RunExtract(w)
    PROVE  Content'
  <1> DEFINE p == job[w].paper
  <1>0. WorkersTyped /\ StoreTyped
    BY TypedParts
  <1>p. pc[w] # "idle" => p \in Paper
    BY <1>0, BusyHolds
  <1>1. CASE StartEmbed(w) \/ StartGraph(w) \/ StartExtract(w)
    <2>1. PICK t \in Task, q \in Paper, n \in Nat, s \in {"embed", "nodes", "persist"},
               r \in RowState, S \in SUBSET Chunk :
            /\ Begins(w, t, q, n, s, r, S) \/ UNCHANGED workerVars
            /\ UNCHANGED <<dbVars, storeVars>>
      <3>1. CASE StartEmbed(w)
        <4>1. PICK q \in Paper, n \in 0..MaxRetries["embed"] :
                /\ \/ Begins(w, "embed", q, n, "embed", "unborn", ChunksOf(q) \ embedded)
                   \/ UNCHANGED workerVars
                /\ UNCHANGED <<dbVars, storeVars>>
          BY <3>1 DEF StartEmbed
        <4>2. ChunksOf(q) \ embedded \in SUBSET Chunk
          BY <1>0 DEF StoreTyped, ChunksOf
        <4>3. QED
          BY <4>1, <4>2, IngestionAssumption DEF Task, RowState
      <3>2. CASE StartGraph(w)
        <4>1. PICK q \in Paper, n \in 0..MaxRetries["graph"] :
                /\ \/ Begins(w, "graph", q, n, "nodes", row[q], {})
                   \/ UNCHANGED workerVars
                /\ UNCHANGED <<dbVars, storeVars>>
          BY <3>2 DEF StartGraph
        <4>2. QED
          BY <1>0, <4>1, SeenTyped, IngestionAssumption DEF Task
      <3>3. CASE StartExtract(w)
        <4>1. PICK q \in Paper, n \in 0..MaxRetries["extract"] :
                /\ Begins(w, "extract", q, n, "persist", row[q], {})
                /\ UNCHANGED <<dbVars, storeVars>>
          BY <3>3 DEF StartExtract
        <4>2. QED
          BY <1>0, <4>1, SeenTyped, IngestionAssumption DEF Task
      <3>4. QED
        BY <1>1, <3>1, <3>2, <3>3
    <2>2. CASE Begins(w, t, q, n, s, r, S)
      BY <1>0, <2>1, <2>2, QuietContent DEF Begins, WorkersTyped
    <2>3. CASE UNCHANGED workerVars
      BY <2>1, <2>3, QuietContent
    <2>4. QED
      BY <2>1, <2>2, <2>3
  <1>2. CASE EmbedBatch(w)
    <2>1. RowsFollowPaper' /\ ReadyIsWhole' /\ FlagsBackedByStores'
      BY <1>2 DEF EmbedBatch, Content, RowsFollowPaper, ReadyIsWhole, FlagsBackedByStores,
                  Present, ChunksOf, Parsed
    <2>2. InFlight'
      BY <1>0, <1>2 DEF EmbedBatch, Goto, WorkersTyped, Content, InFlight, FirstBatch
    <2>3. QED
      BY <2>1, <2>2 DEF Content
  <1>3. CASE FlagBatch(w)
    <2>1. FirstBatch(todo[w]) \subseteq vectors
      BY <1>3 DEF FlagBatch, Content, InFlight
    <2>2. RowsFollowPaper' /\ ReadyIsWhole' /\ FlagsBackedByStores'
      BY <1>3, <2>1 DEF FlagBatch, Content, RowsFollowPaper, ReadyIsWhole, FlagsBackedByStores,
                  Present, ChunksOf, Parsed
    <2>3. InFlight'
      BY <1>0, <1>3 DEF FlagBatch, Done, WorkersTyped, Content, InFlight, FirstBatch
    <2>4. QED
      BY <2>2, <2>3 DEF Content
  <1>4. CASE EmbeddingFails(w) \/ GraphPaperMissing(w) \/ ExtractPaperMissing(w)
    BY <1>4, DoneQuiet, QuietContent
       DEF EmbeddingFails, GraphPaperMissing, ExtractPaperMissing, Retries
  <1>5. CASE WriteGraph(w)
    <2>1. RowsFollowPaper' /\ ReadyIsWhole' /\ FlagsBackedByStores'
      BY <1>5 DEF WriteGraph, Content, RowsFollowPaper, ReadyIsWhole, FlagsBackedByStores,
                  Present, ChunksOf, Parsed
    <2>2. InFlight'
      BY <1>0, <1>5 DEF WriteGraph, Goto, WorkersTyped, Content, InFlight, FirstBatch
    <2>3. QED
      BY <2>1, <2>2 DEF Content
  <1>6. CASE MirrorEntities(w)
    <2>0. p \in Paper
      BY <1>6, <1>p DEF MirrorEntities
    <2>1. Done(w)
      BY <1>6 DEF MirrorEntities, Retries
    <2>2. /\ mirrored' = mirrored \/ (Present(p) /\ mirrored' = mirrored \cup {p})
          /\ UNCHANGED <<row, gen, chunks, embedded, results, storeVars>>
      BY <1>6 DEF MirrorEntities
    <2>3. <<p, "nodes">> \in graph /\ <<p, "edges">> \in graph
      BY <1>6 DEF MirrorEntities, Content, InFlight
    <2>4. RowsFollowPaper' /\ ReadyIsWhole' /\ FlagsBackedByStores'
      BY <2>0, <2>2, <2>3 DEF Content, RowsFollowPaper, ReadyIsWhole, FlagsBackedByStores,
                  Present, ChunksOf, Parsed
    <2>5. InFlight'
      BY <1>0, <2>1, <2>2 DEF Done, WorkersTyped, Content, InFlight, FirstBatch
    <2>6. QED
      BY <2>4, <2>5 DEF Content
  <1>7. CASE PersistResults(w)
    <2>1. Done(w)
      BY <1>7 DEF PersistResults, Retries
    <2>2. /\ results' = results \/ (Present(p) /\ results' = results \cup {p})
          /\ UNCHANGED <<row, gen, chunks, embedded, mirrored, storeVars>>
      BY <1>7 DEF PersistResults
    <2>3. RowsFollowPaper' /\ ReadyIsWhole' /\ FlagsBackedByStores'
      BY <2>2 DEF Content, RowsFollowPaper, ReadyIsWhole, FlagsBackedByStores,
                  Present, ChunksOf, Parsed
    <2>4. InFlight'
      BY <1>0, <2>1, <2>2 DEF Done, WorkersTyped, Content, InFlight, FirstBatch
    <2>5. QED
      BY <2>3, <2>4 DEF Content
  <1>8. QED
    BY <1>1, <1>2, <1>3, <1>4, <1>5, <1>6, <1>7 DEF RunEmbed, RunGraph, RunExtract

LEMMA DisturbContent ==
    ASSUME Typed, Content, NEW w \in Worker, Disturb(w)
    PROVE  Content'
  <1>1. UNCHANGED <<dbVars, storeVars>>
    BY DEF Disturb, RunRaises, Redeliver, WorkerDies, ChildDies
  <1>2. CASE Done(w)
    BY <1>1, <1>2, DoneQuiet, QuietContent
  <1>3. CASE Redeliver(w)
    BY <1>1, <1>3, QuietContent DEF Redeliver
  <1>4. QED
    BY <1>2, <1>3 DEF Disturb, RunRaises, WorkerDies, ChildDies, Fails, Retries

\* The second inductive layer.
THEOREM ContentInvariant == Spec => []Content
  <1>1. Init => Content
    BY DEF Init, Content, RowsFollowPaper, ReadyIsWhole, FlagsBackedByStores, InFlight,
           Status, Present
  <1>2. Typed /\ Content /\ [Next]_vars => Content'
    <2>1. ASSUME Content, UNCHANGED vars PROVE Content'
      BY <2>1 DEF vars, Content, RowsFollowPaper, ReadyIsWhole, FlagsBackedByStores, InFlight,
                  Present, ChunksOf, Parsed, FirstBatch
    <2>2. QED
      BY <2>1, ApiContent, ProcessContent, DownstreamContent, DisturbContent DEF Next, Work
  <1>3. QED
    BY <1>1, <1>2, TypedInvariant, PTL DEF Spec

\* A ready paper shows the chunks of exactly one parse, all of them, whatever
\* duplicate runs, deletions and failures surround it.
THEOREM ReadyWhole == Spec => []ReadyIsWhole
  BY ContentInvariant, PTL DEF Content

\* No child row outlives its paper.
THEOREM RowsFollow == Spec => []RowsFollowPaper
  BY ContentInvariant, PTL DEF Content

\* The flags in the database never run ahead of the external stores.
THEOREM FlagsBacked == Spec => []FlagsBackedByStores
  BY ContentInvariant, PTL DEF Content

-----------------------------------------------------------------------------
(* Layer 3: no work is lost silently *)

NothingLost == NoStrandedPaper /\ NoLostEmbedding

\* The steps at which a worker is itself the reason why work on its paper goes on.
Carrying == {"mark", "parse", "delay_embed"} \cup EmbedStep

\* Nobody lost a message of process_paper or embed_paper in this step.
Kept ==
    /\ unqueued \subseteq unqueued'
    /\ lost \subseteq lost'
    /\ \A t \in {"process", "embed"}, q \in Paper : Queued(t, q) => Queued(t, q)'

LEMMA SentKeeps ==
    ASSUME BrokerTyped, NEW t \in Task, NEW p \in Paper, NEW n \in 0..MaxRetries[t],
           Sent(Msg(t, p, n))
    PROVE  /\ Queued(t, p)'
           /\ \A u \in Task, q \in Paper : Queued(u, q) => Queued(u, q)'
  <1>1. Msg(t, p, n) \in Sendable
    BY MsgTyped, JobsSendable
  <1>2. /\ queue'[Msg(t, p, n)] > 0
        /\ \A m \in Sendable : queue[m] > 0 => queue'[m] > 0
    BY <1>1 DEF BrokerTyped, Sent
  <1>3. \A u \in Task, q \in Paper : \A k \in 0..MaxRetries[u] : Msg(u, q, k) \in Sendable
    BY MsgTyped, JobsSendable
  <1>4. QED
    BY <1>2, <1>3 DEF Queued

LEMMA ReceivesKeeps ==
    ASSUME BrokerTyped, NEW w, NEW t \in Task, NEW p \in Paper, NEW n \in 0..MaxRetries[t],
           Receives(w, t, p, n)
    PROVE  \A u \in Task, q \in Paper :
              Queued(u, q) /\ (u # t \/ q # p) => Queued(u, q)'
  <1>1. Msg(t, p, n) \in Sendable
    BY MsgTyped, JobsSendable
  <1>2. \A m \in Sendable : m # Msg(t, p, n) => queue'[m] = queue[m]
    BY <1>1 DEF BrokerTyped, Receives
  <1>3. \A u \in Task, q \in Paper : \A k \in 0..MaxRetries[u] : Msg(u, q, k) \in Sendable
    BY MsgTyped, JobsSendable
  <1>4. \A u \in Task, q \in Paper : \A k \in 0..MaxRetries[u] :
            (u # t \/ q # p) => Msg(u, q, k) # Msg(t, p, n)
    BY DEF Msg
  <1>5. QED
    BY <1>2, <1>3, <1>4 DEF Queued

\* A step of worker w that keeps what w carries keeps all work.
LEMMA CarryKeeps ==
    ASSUME Typed, NothingLost, NEW w \in Worker, Kept,
           UNCHANGED <<row, chunks, embedded>>,
           \A v \in Worker \ {w} : UNCHANGED <<pc[v], job[v], todo[v]>>,
           pc[w] \notin Carrying \/ UNCHANGED <<pc[w], job[w], todo[w]>>
    PROVE  NothingLost'
  <1>1. \A q \in Paper : WillProcess(q) => WillProcess(q)'
    BY DEF Kept, WillProcess, Running, Carrying
  <1>2. \A c \in chunks : c.paper \in Paper
    BY DEF Typed, TypeOK, Chunk
  <1>3. \A c \in chunks : WillEmbed(c) => WillEmbed(c)'
    BY <1>2 DEF Kept, WillEmbed, Running, Carrying
  <1>4. NoStrandedPaper'
    BY <1>1 DEF NothingLost, NoStrandedPaper, Kept
  <1>5. NoLostEmbedding'
    BY <1>1, <1>2, <1>3 DEF NothingLost, NoLostEmbedding, Kept
  <1>6. QED
    BY <1>4, <1>5 DEF NothingLost

\* A task that ends undone hands its work over to a queued message or to `lost`.
LEMMA EndKeeps ==
    ASSUME Typed, NothingLost, NEW w \in Worker, NEW t \in Task, NEW p \in Paper,
           job[w].task = t, job[w].paper = p, Done(w), Kept,
           UNCHANGED <<row, chunks, embedded>>,
           Queued(t, p)' \/ <<t, p>> \in lost'
    PROVE  NothingLost'
  <1>1. /\ pc[w] \in ProcessStep => t = "process"
        /\ pc[w] \in EmbedStep => t = "embed"
    BY DEF Typed, JobMatchesStep, JobsOf
  <1>2. \A v \in Worker \ {w} : UNCHANGED <<pc[v], job[v], todo[v]>>
    BY DoneQuiet
  <1>3. ASSUME NEW q \in Paper, WillProcess(q)
        PROVE  WillProcess(q)' \/ <<"process", q>> \in lost'
    <2>1. CASE Running(w, q, {"mark", "parse"})
      <3>1. t = "process" /\ p = q
        BY <1>1, <2>1 DEF Running, ProcessStep
      <3>2. QED
        BY <3>1 DEF WillProcess
    <2>2. CASE ~Running(w, q, {"mark", "parse"})
      BY <1>2, <1>3, <2>2 DEF Kept, WillProcess, Running
    <2>3. QED
      BY <2>1, <2>2
  <1>4. \A c \in chunks : c.paper \in Paper
    BY DEF Typed, TypeOK, Chunk
  <1>5. ASSUME NEW c \in chunks, WillEmbed(c)
        PROVE  \/ WillProcess(c.paper)' \/ WillEmbed(c)'
               \/ <<"process", c.paper>> \in lost' \/ <<"embed", c.paper>> \in lost'
    <2>1. CASE Running(w, c.paper, {"delay_embed"})
      <3>1. t = "process" /\ p = c.paper
        BY <1>1, <2>1 DEF Running, ProcessStep
      <3>2. QED
        BY <3>1 DEF WillProcess
    <2>2. CASE Running(w, c.paper, EmbedStep)
      <3>1. t = "embed" /\ p = c.paper
        BY <1>1, <2>2 DEF Running
      <3>2. QED
        BY <3>1 DEF WillEmbed
    <2>3. CASE ~Running(w, c.paper, {"delay_embed"}) /\ ~Running(w, c.paper, EmbedStep)
      BY <1>2, <1>4, <1>5, <2>3 DEF Kept, WillEmbed, Running
    <2>4. QED
      BY <2>1, <2>2, <2>3
  <1>6. NoStrandedPaper'
    BY <1>3 DEF NothingLost, NoStrandedPaper, Kept
  <1>7. NoLostEmbedding'
    BY <1>3, <1>4, <1>5 DEF NothingLost, NoLostEmbedding, Kept
  <1>8. QED
    BY <1>6, <1>7 DEF NothingLost

\* The two ways a task ends undone.
LEMMA FailsKeeps ==
    ASSUME Typed, NothingLost, NEW w \in Worker, pc[w] # "idle", Fails(w),
           UNCHANGED <<row, chunks, embedded, unqueued>>
    PROVE  NothingLost'
  <1>1. PICK t \in Task, p \in Paper : job[w].task = t /\ job[w].paper = p
    BY TypedParts, BusyHolds
  <1>2. Kept /\ Done(w) /\ <<t, p>> \in lost'
    BY <1>1 DEF Fails, Lose, Kept, Queued
  <1>3. QED
    BY <1>1, <1>2, EndKeeps

LEMMA RetriesKeeps ==
    ASSUME Typed, NothingLost, NEW w \in Worker, pc[w] # "idle", Retries(w),
           UNCHANGED <<row, chunks, embedded, unqueued>>
    PROVE  NothingLost'
  <1>0. BrokerTyped /\ WorkersTyped
    BY TypedParts
  <1>1. PICK t \in Task, p \in Paper : job[w].task = t /\ job[w].paper = p
    BY <1>0, BusyHolds
  <1>n. PICK n \in 0..MaxRetries[t] : job[w].tries = n
    BY <1>0, <1>1, BusyHolds
  <1>2. CASE n < MaxRetries[t]
    <2>1. n + 1 \in 0..MaxRetries[t]
      BY <1>0, <1>1, <1>n, <1>2, NextAttempt
    <2>2. Done(w) /\ UNCHANGED lost /\ Sent(Msg(t, p, n + 1))
      BY <1>1, <1>n, <1>2 DEF Retries
    <2>3. Kept /\ Queued(t, p)'
      BY <1>0, <2>1, <2>2, SentKeeps DEF Kept, Task
    <2>4. QED
      BY <1>1, <2>2, <2>3, EndKeeps
  <1>3. CASE ~(n < MaxRetries[t])
    <2>1. Kept /\ Done(w) /\ <<t, p>> \in lost'
      BY <1>1, <1>n, <1>3 DEF Retries, Lose, Kept, Queued
    <2>2. QED
      BY <1>1, <2>1, EndKeeps
  <1>4. QED
    BY <1>2, <1>3

LEMMA ApiKeeps ==
    ASSUME Typed, Content, NothingLost, NEW p \in Paper,
           Upload(p) \/ QueueProcessing(p) \/ QueueingFails(p) \/ Delete(p)
    PROVE  NothingLost'
  <1>0. BrokerTyped
    BY TypedParts
  <1>c. \A c \in chunks : c.paper \in Paper
    BY DEF Typed, TypeOK, Chunk
  <1>1. CASE Upload(p)
    <2>1. \A c \in chunks : c.paper # p
      BY <1>1 DEF Upload, Content, RowsFollowPaper, Present, Status
    <2>2. p \in unqueued' /\ \A q \in Paper : WillProcess(q) => WillProcess(q)'
      BY <1>1 DEF Upload, WillProcess, Queued, Running
    <2>3. \A c \in chunks : WillEmbed(c) => WillEmbed(c)'
      BY <1>1 DEF Upload, WillEmbed, Queued, Running
    <2>4. NoStrandedPaper'
      BY <1>1, <2>2 DEF Upload, Typed, TypeOK, NothingLost, NoStrandedPaper, WillProcess
    <2>5. NoLostEmbedding'
      BY <1>1, <1>c, <2>1, <2>2, <2>3
         DEF Upload, Typed, TypeOK, NothingLost, NoLostEmbedding
    <2>6. QED
      BY <2>4, <2>5 DEF NothingLost
  <1>2. CASE QueueProcessing(p) \/ QueueingFails(p)
    <2>1. \A q \in Paper : WillProcess(q) => WillProcess(q)' \/ <<"process", q>> \in lost'
      <3>1. CASE QueueProcessing(p)
        <4>1. Queued("process", p)' /\ \A q \in Paper : Queued("process", q) => Queued("process", q)'
          BY <1>0, <3>1, SentKeeps, IngestionAssumption DEF QueueProcessing, Task
        <4>2. QED
          BY <3>1, <4>1 DEF QueueProcessing, WillProcess, Running
      <3>2. CASE QueueingFails(p)
        BY <3>2 DEF QueueingFails, WillProcess, Queued, Running
      <3>3. QED
        BY <1>2, <3>1, <3>2
    <2>2. \A c \in chunks : WillEmbed(c) => WillEmbed(c)'
      <3>1. CASE QueueProcessing(p)
        <4>1. \A q \in Paper : Queued("embed", q) => Queued("embed", q)'
          BY <1>0, <3>1, SentKeeps, IngestionAssumption DEF QueueProcessing, Task
        <4>2. QED
          BY <1>c, <3>1, <4>1 DEF QueueProcessing, WillEmbed, Running
      <3>2. CASE QueueingFails(p)
        BY <3>2 DEF QueueingFails, WillEmbed, Queued, Running
      <3>3. QED
        BY <1>2, <3>1, <3>2
    <2>3. UNCHANGED <<row, chunks, embedded>> /\ lost \subseteq lost'
      BY <1>2 DEF QueueProcessing, QueueingFails
    <2>4. QED
      BY <1>c, <2>1, <2>2, <2>3 DEF NothingLost, NoStrandedPaper, NoLostEmbedding
  <1>3. CASE Delete(p)
    <2>1. \A q \in Paper : WillProcess(q) => WillProcess(q)'
      BY <1>3 DEF Delete, WillProcess, Queued, Running
    <2>2. \A c \in chunks : WillEmbed(c) => WillEmbed(c)'
      BY <1>3 DEF Delete, WillEmbed, Queued, Running
    <2>3. NoStrandedPaper'
      BY <1>3, <2>1 DEF Delete, Typed, TypeOK, NothingLost, NoStrandedPaper
    <2>4. NoLostEmbedding'
      BY <1>3, <1>c, <2>1, <2>2 DEF Delete, Typed, TypeOK, NothingLost, NoLostEmbedding, ChunksOf
    <2>5. QED
      BY <2>3, <2>4 DEF NothingLost
  <1>4. QED
    BY <1>1, <1>2, <1>3

LEMMA ProcessKeeps ==
    ASSUME Typed, Content, NothingLost, NEW w \in Worker, RunProcess(w)
    PROVE  NothingLost'
  <1>0. BrokerTyped /\ WorkersTyped /\ StoreTyped
    BY TypedParts
  <1>c. \A c \in chunks : c.paper \in Paper
    BY DEF Typed, TypeOK, Chunk
  <1>1. CASE StartProcess(w)
    <2>1. PICK p \in Paper, n \in 0..MaxRetries["process"] :
            /\ Receives(w, "process", p, n)
            /\ IF Present(p) THEN Begins(w, "process", p, n, "mark", row[p], {})
                             ELSE UNCHANGED workerVars
            /\ UNCHANGED <<dbVars, storeVars, unqueued, lost, faults>>
      BY <1>1 DEF StartProcess
    <2>2. \A u \in Task, q \in Paper :
              Queued(u, q) /\ (u # "process" \/ q # p) => Queued(u, q)'
      BY <1>0, <2>1, ReceivesKeeps DEF Task
    <2>3. pc[w] = "idle" /\ \A v \in Worker \ {w} : UNCHANGED <<pc[v], job[v], todo[v]>>
      BY <1>0, <2>1 DEF Receives, Begins, WorkersTyped
    <2>4. Present(p) => Running(w, p, {"mark", "parse"})'
      BY <1>0, <2>1 DEF Begins, Msg, Running, WorkersTyped
    <2>5. \A q \in Paper : Present(q) /\ WillProcess(q) => WillProcess(q)'
      BY <2>1, <2>2, <2>3, <2>4 DEF WillProcess, Running, Task
    <2>6. \A c \in chunks : WillEmbed(c) => WillEmbed(c)'
      BY <1>c, <2>2, <2>3 DEF WillEmbed, Running, Task, EmbedStep
    <2>7. QED
      BY <1>c, <2>1, <2>5, <2>6
         DEF NothingLost, NoStrandedPaper, NoLostEmbedding, Present, Status
  <1>2. CASE MarkProcessing(w)
    <2>1. PICK p \in Paper : job[w].paper = p
      BY <1>0, <1>2, BusyHolds DEF MarkProcessing
    <2>2. CASE Goto(w, "parse") /\ UNCHANGED <<queue, lost>>
      <3>1. Running(w, p, {"mark", "parse"})'
        BY <1>0, <2>1, <2>2 DEF Goto, Running, WorkersTyped
      <3>2. \A v \in Worker \ {w} : UNCHANGED <<pc[v], job[v], todo[v]>>
        BY <1>0, <2>2 DEF Goto, WorkersTyped
      <3>3. \A q \in Paper : WillProcess(q) => WillProcess(q)'
        BY <1>2, <2>1, <2>2, <3>1, <3>2 DEF MarkProcessing, WillProcess, Queued, Running
      <3>4. WillProcess(p)'
        BY <3>1 DEF WillProcess
      <3>5. \A c \in chunks : WillEmbed(c) => WillEmbed(c)'
        BY <1>2, <2>2, <3>2 DEF MarkProcessing, WillEmbed, Queued, Running, EmbedStep
      <3>6. /\ \A q \in Paper \ {p} : row'[q] = row[q]
            /\ UNCHANGED <<chunks, embedded, lost>>
        BY <1>0, <1>2, <2>1, <2>2 DEF MarkProcessing, StoreTyped
      <3>7. QED
        BY <1>c, <3>3, <3>4, <3>5, <3>6 DEF NothingLost, NoStrandedPaper, NoLostEmbedding
    <2>3. CASE Fails(w) /\ UNCHANGED row
      BY <1>2, <2>3, FailsKeeps DEF MarkProcessing
    <2>4. QED
      BY <1>2, <2>2, <2>3 DEF MarkProcessing
  <1>3. CASE ParseFails(w) \/ Publish(w)
    <2>1. PICK p \in Paper : job[w].paper = p
      BY <1>0, <1>3, BusyHolds DEF ParseFails, Publish
    <2>2. CASE Present(p)
      <3>1. /\ row'[p] \notin {"pending", "processing"}
            /\ \A q \in Paper \ {p} : row'[q] = row[q]
            /\ UNCHANGED <<queue, lost, unqueued>>
            /\ \A c \in chunks' : c.paper # p => c \in chunks
            /\ \A c \in chunks' : c.paper # p => (c \in embedded => c \in embedded')
        BY <1>0, <1>3, <2>1, <2>2 DEF ParseFails, Publish, StoreTyped, Parsed, ChunksOf
      <3>2. \A v \in Worker \ {w} : UNCHANGED <<pc[v], job[v], todo[v]>>
        BY <1>0, <1>3, <2>1, <2>2, DoneQuiet DEF ParseFails, Publish, Goto, WorkersTyped
      <3>3. \A q \in Paper \ {p} : WillProcess(q) => WillProcess(q)'
        BY <2>1, <3>1, <3>2 DEF WillProcess, Queued, Running
      <3>4. \A c \in chunks : c.paper # p /\ WillEmbed(c) => WillEmbed(c)'
        BY <2>1, <3>1, <3>2 DEF WillEmbed, Queued, Running
      <3>5. NoStrandedPaper'
        BY <3>1, <3>3 DEF NothingLost, NoStrandedPaper
      <3>6. ASSUME NEW c \in chunks' \ embedded', row'[c.paper] = "ready", c.paper = p
            PROVE  WillEmbed(c)'
        <4>1. Publish(w)
          BY <1>0, <1>3, <2>1, <2>2, <3>6 DEF ParseFails, StoreTyped
        <4>2. Running(w, p, {"delay_embed"})'
          BY <1>0, <2>1, <2>2, <4>1 DEF Publish, Goto, Running, WorkersTyped
        <4>3. QED
          BY <3>6, <4>2 DEF WillEmbed
      <3>7. \A c \in chunks' : c.paper \in Paper
        BY <1>0, <1>c, <1>3, <2>1, <2>2 DEF ParseFails, Publish, Parsed, ChunksOf
      <3>8. ASSUME NEW c \in chunks' \ embedded', row'[c.paper] = "ready", c.paper # p
            PROVE  \/ WillProcess(c.paper)' \/ WillEmbed(c)'
                   \/ <<"process", c.paper>> \in lost' \/ <<"embed", c.paper>> \in lost'
        BY <3>1, <3>3, <3>4, <3>7, <3>8 DEF NothingLost, NoLostEmbedding
      <3>9. NoLostEmbedding'
        BY <3>6, <3>8 DEF NoLostEmbedding
      <3>10. QED
        BY <3>5, <3>9 DEF NothingLost
    <2>3. CASE ~Present(p)
      BY <1>3, <2>1, <2>3, FailsKeeps DEF ParseFails, Publish
    <2>4. QED
      BY <2>2, <2>3
  <1>4. CASE Chain(w)
    <2>1. PICK p \in Paper : job[w].paper = p
      BY <1>0, <1>4, BusyHolds DEF Chain
    <2>2. ASSUME NEW t \in Task, Sent(Msg(t, p, 0))
          PROVE  Kept /\ Queued(t, p)'
      BY <1>0, <1>4, <2>2, SentKeeps, IngestionAssumption DEF Chain, Kept, Task
    <2>3. UNCHANGED <<row, chunks, embedded, unqueued, lost>>
      BY <1>4 DEF Chain
    <2>4. CASE pc[w] = "delay_embed" /\ Sent(Msg("embed", p, 0)) /\ Goto(w, "delay_graph")
      <3>1. Kept /\ Queued("embed", p)'
        BY <2>2, <2>4 DEF Task
      <3>2. \A v \in Worker \ {w} : UNCHANGED <<pc[v], job[v], todo[v]>>
        BY <1>0, <2>4 DEF Goto, WorkersTyped
      <3>3. \A q \in Paper : WillProcess(q) => WillProcess(q)'
        BY <2>3, <2>4, <3>1, <3>2 DEF Kept, WillProcess, Running
      <3>4. \A c \in chunks : WillEmbed(c) => WillEmbed(c)'
        BY <1>c, <2>1, <2>4, <3>1, <3>2 DEF Kept, WillEmbed, Running, EmbedStep
      <3>5. QED
        BY <1>c, <2>3, <3>3, <3>4 DEF NothingLost, NoStrandedPaper, NoLostEmbedding
    <2>5. CASE pc[w] = "delay_graph" /\ Sent(Msg("graph", p, 0)) /\ Goto(w, "delay_extract")
      <3>1. Kept /\ \A v \in Worker \ {w} : UNCHANGED <<pc[v], job[v], todo[v]>>
        BY <1>0, <2>2, <2>5 DEF Task, Goto, WorkersTyped
      <3>2. QED
        BY <2>3, <2>5, <3>1, CarryKeeps DEF Carrying, EmbedStep
    <2>6. CASE pc[w] = "delay_extract" /\ Sent(Msg("extract", p, 0)) /\ Done(w)
      <3>1. Kept /\ \A v \in Worker \ {w} : UNCHANGED <<pc[v], job[v], todo[v]>>
        BY <2>2, <2>6, DoneQuiet DEF Task
      <3>2. QED
        BY <2>3, <2>6, <3>1, CarryKeeps DEF Carrying, EmbedStep
    <2>7. QED
      BY <1>4, <2>1, <2>4, <2>5, <2>6 DEF Chain
  <1>5. QED
    BY <1>1, <1>2, <1>3, <1>4 DEF RunProcess

LEMMA EmbedKeeps ==
    ASSUME Typed, Content, NothingLost, NEW w \in Worker, RunEmbed(w)
    PROVE  NothingLost'
  <1>0. BrokerTyped /\ WorkersTyped /\ StoreTyped
    BY TypedParts
  <1>c. \A c \in chunks : c.paper \in Paper
    BY DEF Typed, TypeOK, Chunk
  <1>1. CASE StartEmbed(w)
    <2>1. PICK p \in Paper, n \in 0..MaxRetries["embed"] :
            /\ Receives(w, "embed", p, n)
            /\ IF ChunksOf(p) \ embedded # {}
               THEN Begins(w, "embed", p, n, "embed", "unborn", ChunksOf(p) \ embedded)
               ELSE UNCHANGED workerVars
            /\ UNCHANGED <<dbVars, storeVars, unqueued, lost, faults>>
      BY <1>1 DEF StartEmbed
    <2>2. \A u \in Task, q \in Paper :
              Queued(u, q) /\ (u # "embed" \/ q # p) => Queued(u, q)'
      BY <1>0, <2>1, ReceivesKeeps DEF Task
    <2>3. pc[w] = "idle" /\ \A v \in Worker \ {w} : UNCHANGED <<pc[v], job[v], todo[v]>>
      BY <1>0, <2>1 DEF Receives, Begins, WorkersTyped
    <2>4. \A q \in Paper : WillProcess(q) => WillProcess(q)'
      BY <2>1, <2>2, <2>3 DEF WillProcess, Running, Task
    <2>5. ASSUME NEW c \in chunks \ embedded, WillEmbed(c)
          PROVE  WillEmbed(c)'
      <3>1. CASE c.paper = p
        <4>1. c \in ChunksOf(p) \ embedded
          BY <2>5, <3>1 DEF ChunksOf
        <4>2. Running(w, p, EmbedStep)' /\ c \in todo'[w]
          BY <1>0, <2>1, <4>1 DEF Begins, Msg, Running, WorkersTyped, EmbedStep
        <4>3. QED
          BY <3>1, <4>2 DEF WillEmbed
      <3>2. CASE c.paper # p
        BY <1>c, <2>2, <2>3, <2>5, <3>2 DEF WillEmbed, Running, Task, EmbedStep
      <3>3. QED
        BY <3>1, <3>2
    <2>6. QED
      BY <1>c, <2>1, <2>4, <2>5 DEF NothingLost, NoStrandedPaper, NoLostEmbedding
  <1>2. CASE EmbedBatch(w)
    <2>1. \A v \in Worker \ {w} : UNCHANGED <<pc[v], job[v], todo[v]>>
      BY <1>0, <1>2 DEF EmbedBatch, Goto, WorkersTyped
    <2>2. \A q \in Paper : WillProcess(q) => WillProcess(q)'
      BY <1>2, <2>1 DEF EmbedBatch, WillProcess, Queued, Running
    <2>3. \A q \in Paper : Running(w, q, EmbedStep) => Running(w, q, EmbedStep)'
      BY <1>0, <1>2 DEF EmbedBatch, Goto, Running, WorkersTyped, EmbedStep
    <2>4. \A c \in chunks : WillEmbed(c) => WillEmbed(c)'
      BY <1>c, <1>2, <2>1, <2>3 DEF EmbedBatch, Goto, WillEmbed, Queued, Running
    <2>5. QED
      BY <1>c, <1>2, <2>2, <2>4 DEF EmbedBatch, NothingLost, NoStrandedPaper, NoLostEmbedding
  <1>3. CASE FlagBatch(w)
    <2>1. /\ pc[w] = "flag" /\ FirstBatch(todo[w]) \subseteq todo[w]
          /\ embedded' = embedded \cup (FirstBatch(todo[w]) \cap chunks)
          /\ UNCHANGED <<row, chunks, queue, unqueued, lost>>
      BY <1>3 DEF FlagBatch, FirstBatch
    <2>2. \A v \in Worker \ {w} : UNCHANGED <<pc[v], job[v], todo[v]>>
      BY <1>0, <1>3, DoneQuiet DEF FlagBatch, WorkersTyped
    <2>3. \A q \in Paper : WillProcess(q) => WillProcess(q)'
      BY <2>1, <2>2 DEF WillProcess, Queued, Running
    <2>4. ASSUME NEW c \in chunks \ embedded', WillEmbed(c)
          PROVE  WillEmbed(c)'
      <3>1. CASE Running(w, c.paper, EmbedStep) /\ c \in todo[w]
        <4>1. c \notin FirstBatch(todo[w])
          BY <2>1, <2>4
        <4>2. /\ pc' = [pc EXCEPT ![w] = "embed"] /\ UNCHANGED job
              /\ todo' = [todo EXCEPT ![w] = @ \ FirstBatch(todo[w])]
          BY <1>3, <3>1, <4>1 DEF FlagBatch
        <4>3. Running(w, c.paper, EmbedStep)' /\ c \in todo'[w]
          BY <1>0, <3>1, <4>1, <4>2 DEF Running, WorkersTyped, EmbedStep
        <4>4. QED
          BY <4>3 DEF WillEmbed
      <3>2. CASE ~(Running(w, c.paper, EmbedStep) /\ c \in todo[w])
        BY <2>1, <2>2, <2>4, <3>2 DEF WillEmbed, Queued, Running
      <3>3. QED
        BY <3>1, <3>2
    <2>5. QED
      BY <1>c, <2>1, <2>3, <2>4 DEF NothingLost, NoStrandedPaper, NoLostEmbedding
  <1>4. CASE EmbeddingFails(w)
    BY <1>4, RetriesKeeps DEF EmbeddingFails
  <1>5. QED
    BY <1>1, <1>2, <1>3, <1>4 DEF RunEmbed

\* build_graph and extract_results carry no work of the other two tasks.
LEMMA OthersKeep ==
    ASSUME Typed, Content, NothingLost, NEW w \in Worker, RunGraph(w) \/ RunExtract(w)
    PROVE  NothingLost'
  <1>0. BrokerTyped /\ WorkersTyped /\ StoreTyped
    BY TypedParts
  <1>1. CASE StartGraph(w) \/ StartExtract(w)
    <2>1. PICK t \in {"graph", "extract"} : \E p \in Paper : \E n \in 0..MaxRetries[t] :
            Receives(w, t, p, n)
      BY <1>1 DEF StartGraph, StartExtract
    <2>2. PICK p \in Paper : \E n \in 0..MaxRetries[t] : Receives(w, t, p, n)
      BY <2>1
    <2>3. PICK n \in 0..MaxRetries[t] : Receives(w, t, p, n)
      BY <2>2
    <2>4. UNCHANGED <<row, chunks, embedded, unqueued, lost>>
      BY <1>1 DEF StartGraph, StartExtract
    <2>5. \A u \in {"process", "embed"}, q \in Paper : Queued(u, q) => Queued(u, q)'
      <3>1. t \in Task /\ \A u \in {"process", "embed"} : u \in Task /\ u # t
        BY DEF Task
      <3>2. \A u \in Task, q \in Paper :
                Queued(u, q) /\ (u # t \/ q # p) => Queued(u, q)'
        BY <1>0, <2>3, <3>1, ReceivesKeeps
      <3>3. QED
        BY <3>1, <3>2
    <2>6. Kept
      BY <2>4, <2>5 DEF Kept
    <2>7. pc[w] = "idle"
      BY <2>3 DEF Receives
    <2>8. \A v \in Worker \ {w} : UNCHANGED <<pc[v], job[v], todo[v]>>
      BY <1>0, <1>1 DEF StartGraph, StartExtract, Begins, WorkersTyped
    <2>9. QED
      BY <2>4, <2>6, <2>7, <2>8, CarryKeeps DEF Carrying, EmbedStep
  <1>2. CASE GraphPaperMissing(w) \/ ExtractPaperMissing(w)
    BY <1>2, RetriesKeeps DEF GraphPaperMissing, ExtractPaperMissing
  <1>3. CASE WriteGraph(w)
    <2>1. Kept /\ UNCHANGED <<row, chunks, embedded>> /\ pc[w] \notin Carrying
      BY <1>3 DEF WriteGraph, Kept, Queued, Carrying, EmbedStep
    <2>2. \A v \in Worker \ {w} : UNCHANGED <<pc[v], job[v], todo[v]>>
      BY <1>0, <1>3 DEF WriteGraph, Goto, WorkersTyped
    <2>3. QED
      BY <2>1, <2>2, CarryKeeps
  <1>4. CASE MirrorEntities(w) \/ PersistResults(w)
    <2>1. /\ UNCHANGED <<row, chunks, embedded, unqueued>>
          /\ pc[w] \notin Carrying /\ pc[w] # "idle"
      BY <1>4 DEF MirrorEntities, PersistResults, Carrying, EmbedStep
    <2>2. CASE Retries(w)
      BY <2>1, <2>2, RetriesKeeps
    <2>3. CASE Done(w) /\ UNCHANGED <<queue, lost>>
      <3>1. Kept
        BY <2>1, <2>3 DEF Kept, Queued
      <3>2. QED
        BY <2>1, <2>3, <3>1, DoneQuiet, CarryKeeps
    <2>4. QED
      BY <1>4, <2>2, <2>3 DEF MirrorEntities, PersistResults
  <1>5. QED
    BY <1>1, <1>2, <1>3, <1>4 DEF RunGraph, RunExtract

LEMMA DisturbKeeps ==
    ASSUME Typed, Content, NothingLost, NEW w \in Worker, Disturb(w)
    PROVE  NothingLost'
  <1>0. BrokerTyped /\ WorkersTyped
    BY TypedParts
  <1>1. pc[w] # "idle" /\ UNCHANGED <<row, chunks, embedded, unqueued>>
    BY DEF Disturb, RunRaises, Redeliver, WorkerDies, ChildDies
  <1>2. PICK t \in Task, p \in Paper : job[w].task = t /\ job[w].paper = p
    BY <1>0, <1>1, BusyHolds
  <1>3. PICK n \in 0..MaxRetries[t] : job[w].tries = n
    BY <1>0, <1>1, <1>2, BusyHolds
  <1>4. job[w] = Msg(t, p, n)
    BY <1>0, <1>1, <1>2, <1>3, BusyHolds DEF Msg, JobsOf
  <1>5. CASE Fails(w)
    BY <1>1, <1>5, FailsKeeps
  <1>6. CASE Retries(w)
    BY <1>1, <1>6, RetriesKeeps
  <1>7. CASE Redeliver(w)
    <2>1. Kept
      BY <1>0, <1>4, <1>7, SentKeeps DEF Redeliver, Kept, Task
    <2>2. QED
      BY <1>1, <1>7, <2>1, CarryKeeps DEF Redeliver
  <1>8. CASE WorkerDies(w)
    <2>1. Done(w)
      BY <1>8 DEF WorkerDies
    <2>2. CASE restored[w]
      <3>1. Kept /\ <<t, p>> \in lost'
        BY <1>1, <1>2, <1>8, <2>2 DEF WorkerDies, Lose, Kept, Queued
      <3>2. QED
        BY <1>1, <1>2, <2>1, <3>1, EndKeeps
    <2>3. CASE ~restored[w]
      <3>1. Sent(Msg(t, p, n)) /\ UNCHANGED lost
        BY <1>4, <1>8, <2>3 DEF WorkerDies
      <3>2. Kept /\ Queued(t, p)'
        BY <1>0, <1>1, <3>1, SentKeeps DEF Kept, Task
      <3>3. QED
        BY <1>1, <1>2, <2>1, <3>2, EndKeeps
    <2>4. QED
      BY <2>2, <2>3
  <1>9. QED
    BY <1>5, <1>6, <1>7, <1>8 DEF Disturb, RunRaises, ChildDies

\* The third inductive layer.
THEOREM NothingLostInvariant == Spec => []NothingLost
  <1>1. Init => NothingLost
    BY DEF Init, NothingLost, NoStrandedPaper, NoLostEmbedding
  <1>2. Typed /\ Content /\ NothingLost /\ [Next]_vars => NothingLost'
    <2>1. ASSUME NothingLost, UNCHANGED vars PROVE NothingLost'
      BY <2>1 DEF vars, NothingLost, NoStrandedPaper, NoLostEmbedding, WillProcess, WillEmbed,
                  Queued, Running
    <2>2. QED
      BY <2>1, ApiKeeps, ProcessKeeps, EmbedKeeps, OthersKeep, DisturbKeeps DEF Next, Work
  <1>3. QED
    BY <1>1, <1>2, TypedInvariant, ContentInvariant, PTL DEF Spec

\* A paper shown as pending or processing has a run that will settle it, or a
\* run of process_paper on it failed for good.
THEOREM NoStranded == Spec => []NoStrandedPaper
  BY NothingLostInvariant, PTL DEF NothingLost

\* A ready paper's chunk that is not embedded is still on its way, or a task on
\* that paper failed for good.
THEOREM NoEmbeddingLost == Spec => []NoLostEmbedding
  BY NothingLostInvariant, PTL DEF NothingLost

-----------------------------------------------------------------------------
(* The pipeline implements PaperLifecycle *)

\* A step that touches no status, version or chunk is a stutter of the lifecycle.
LEMMA QuietStutters ==
    ASSUME UNCHANGED <<row, gen, chunks>>
    PROVE  UNCHANGED Lifecycle!vars
  BY DEF Lifecycle!vars, Shown, ChunksOf

\* Each of the five actions that a client can see is an action of the lifecycle.
LEMMA VisibleSteps ==
    ASSUME Typed, Content, NEW p \in Paper,
           \/ Upload(p) \/ Delete(p)
           \/ \E w \in Worker :
                 job[w].paper = p /\ (MarkProcessing(w) \/ ParseFails(w) \/ Publish(w))
    PROVE  Lifecycle!Next \/ UNCHANGED Lifecycle!vars
  <1>0. row \in [Paper -> RowState] /\ gen \in [Paper -> Nat] /\ chunks \subseteq Chunk
    BY DEF Typed, TypeOK
  <1>q. UNCHANGED chunks => UNCHANGED Shown
    BY DEF Shown, ChunksOf
  <1>1. CASE Upload(p)
    <2>1. Lifecycle!Create(p)
      BY <1>q, <1>1 DEF Upload, Lifecycle!Create, Lifecycle!Becomes
    <2>2. QED
      BY <2>1 DEF Lifecycle!Next
  <1>2. CASE Delete(p)
    <2>1. Shown' = [Shown EXCEPT ![p] = {}]
      <3>1. ChunksOf(p)' = {} /\ \A q \in Paper \ {p} : ChunksOf(q)' = ChunksOf(q)
        BY <1>2 DEF Delete, ChunksOf
      <3>2. QED
        BY <3>1 DEF Shown
    <2>2. Lifecycle!Remove(p)
      BY <1>2, <2>1 DEF Delete, Present, Status, Lifecycle!Remove, Lifecycle!Becomes
    <2>3. QED
      BY <2>2 DEF Lifecycle!Next
  <1>3. ASSUME NEW w \in Worker, MarkProcessing(w), job[w].paper = p
        PROVE  Lifecycle!Next \/ UNCHANGED Lifecycle!vars
    <2>1. CASE UNCHANGED row
      BY <1>3, <2>1, QuietStutters DEF MarkProcessing
    <2>2. CASE Present(p) /\ row' = [row EXCEPT ![p] = "processing"]
      <3>1. Lifecycle!Begin(p)
        BY <1>q, <1>3, <2>2
           DEF MarkProcessing, Present, Status, Lifecycle!Begin, Lifecycle!Becomes
      <3>2. QED
        BY <3>1 DEF Lifecycle!Next
    <2>3. QED
      BY <1>3, <2>1, <2>2 DEF MarkProcessing
  <1>4. ASSUME NEW w \in Worker, ParseFails(w), job[w].paper = p
        PROVE  Lifecycle!Next \/ UNCHANGED Lifecycle!vars
    <2>1. CASE Present(p)
      <3>1. row[p] \in {"processing", "ready", "failed"}
        BY <1>4, <2>1 DEF ParseFails, Present, Status, Content, InFlight
      <3>2. Lifecycle!Fail(p)
        BY <1>q, <1>4, <2>1, <3>1 DEF ParseFails, Lifecycle!Fail, Lifecycle!Becomes
      <3>3. QED
        BY <3>2 DEF Lifecycle!Next
    <2>2. CASE ~Present(p)
      BY <1>4, <2>2, QuietStutters DEF ParseFails
    <2>3. QED
      BY <2>1, <2>2
  <1>5. ASSUME NEW w \in Worker, Publish(w), job[w].paper = p
        PROVE  Lifecycle!Next \/ UNCHANGED Lifecycle!vars
    <2>1. CASE Present(p)
      <3>1. row[p] \in {"processing", "ready", "failed"}
        BY <1>5, <2>1 DEF Publish, Present, Status, Content, InFlight
      <3>2. PICK s \in {{}, {gen[p] + 1}} : {c.gen : c \in Parsed(p, gen[p] + 1)} = s
        <4>1. CASE Batch = {}
          BY <4>1 DEF Parsed
        <4>2. CASE Batch # {}
          BY <4>2 DEF Parsed
        <4>3. QED
          BY <4>1, <4>2
      <3>3. chunks' = (chunks \ ChunksOf(p)) \cup Parsed(p, gen[p] + 1)
        BY <1>5, <2>1 DEF Publish
      <3>4. /\ ChunksOf(p)' = Parsed(p, gen[p] + 1)
            /\ \A q \in Paper \ {p} : ChunksOf(q)' = ChunksOf(q)
        BY <3>3 DEF ChunksOf, Parsed
      <3>5. Shown' = [Shown EXCEPT ![p] = s]
        BY <3>2, <3>4 DEF Shown
      <3>6. Lifecycle!Publish(p)
        BY <1>5, <2>1, <3>1, <3>5 DEF Publish, Lifecycle!Publish, Lifecycle!Becomes
      <3>7. QED
        BY <3>6 DEF Lifecycle!Next
    <2>2. CASE ~Present(p)
      BY <1>5, <2>2, QuietStutters DEF Publish
    <2>3. QED
      BY <2>1, <2>2
  <1>6. QED
    BY <1>1, <1>2, <1>3, <1>4, <1>5

\* Refinement: pending is always followed by processing, ready appears exactly
\* when a whole new chunk set does, and deletion is final.
THEOREM Refinement == Spec => ImplementsLifecycle
  <1>1. Init => Lifecycle!Init
    BY DEF Init, Lifecycle!Init, Shown, ChunksOf
  <1>2. Typed /\ Content /\ [Next]_vars => [Lifecycle!Next]_(Lifecycle!vars)
    <2> SUFFICES ASSUME Typed, Content, [Next]_vars
                 PROVE  Lifecycle!Next \/ UNCHANGED Lifecycle!vars
      OBVIOUS
    <2>1. CASE UNCHANGED vars
      BY <2>1, QuietStutters DEF vars
    <2>2. ASSUME NEW p \in Paper,
                 Upload(p) \/ QueueProcessing(p) \/ QueueingFails(p) \/ Delete(p)
          PROVE  Lifecycle!Next \/ UNCHANGED Lifecycle!vars
      BY <2>2, VisibleSteps, QuietStutters DEF QueueProcessing, QueueingFails
    <2>3. ASSUME NEW w \in Worker, MarkProcessing(w) \/ ParseFails(w) \/ Publish(w)
          PROVE  Lifecycle!Next \/ UNCHANGED Lifecycle!vars
      <3>1. job[w].paper \in Paper
        BY <2>3, TypedParts, BusyHolds DEF MarkProcessing, ParseFails, Publish
      <3>2. QED
        BY <2>3, <3>1, VisibleSteps
    <2>4. ASSUME NEW w \in Worker, Work(w) \/ Disturb(w),
                 ~(MarkProcessing(w) \/ ParseFails(w) \/ Publish(w))
          PROVE  UNCHANGED <<row, gen, chunks>>
      BY <2>4 DEF Work, RunProcess, RunEmbed, RunGraph, RunExtract, StartProcess, Chain,
           StartEmbed, EmbedBatch, FlagBatch, EmbeddingFails, StartGraph, GraphPaperMissing,
           WriteGraph, MirrorEntities, StartExtract, ExtractPaperMissing, PersistResults,
           Disturb, RunRaises, Redeliver, WorkerDies, ChildDies
    <2>5. QED
      BY <2>1, <2>2, <2>3, <2>4, QuietStutters DEF Next
  <1>3. QED
    BY <1>1, <1>2, TypedInvariant, ContentInvariant, PTL
       DEF Spec, ImplementsLifecycle, Lifecycle!Spec

===============================================================================
