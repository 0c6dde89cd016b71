---------------------------- MODULE KnowledgeGraph ----------------------------
(* The build_graph task: a parsed paper is projected into the knowledge graph    *)
(* and mirrored into the extracted_entities table (graph/builder.py,             *)
(* graph/extraction.py, worker/tasks.py).  Each worker process runs one task at  *)
(* a time, and every await of the task is a step: between two of them other      *)
(* workers build, papers are parsed again or deleted, calls fail and processes   *)
(* die.  A behaviour uses one of the two backends: with "neo4j" all processes    *)
(* write one server, a statement at a time; with "memory" each process keeps a   *)
(* graph of its own and overwrites one shared file after every change.           *)
(*                                                                               *)
(* build_graph passes no gateway on, so extract_entities never asks the model:   *)
(* what is found in a text is a function of the text.                            *)
EXTENDS GraphStore

CONSTANTS
    Paper, Process, NoPaper,
    NoStore,           \* the process has not called get_graph_store yet
    WorkspaceOf,       \* Paper -> workspace
    MaxVersion,        \* bound: parses of one paper
    Found,             \* [Paper -> [1..MaxVersion -> set of entity uids in the text]]
    Metadata,          \* [Paper -> set of Author and Venue uids]
    TitleOf,           \* [Paper -> normalized title]
    References,        \* [Paper -> set of titles in its bibliography]
    Queued,            \* papers whose build_graph message waits at first
    MaxRetries,        \* of the task (2 in the code)
    MaxEvents          \* bound: parses, deletions, removals and faults in one behaviour

PaperNode(p) == <<"Paper", p>>

(* The order of GAZETTEER, and the relationship each of its labels stands for.   *)
GazetteerOrder == <<"Dataset", "Model", "Metric", "Task", "Method", "Benchmark">>

RelationForLabel ==
    [Dataset |-> "USES_DATASET", Model |-> "PROPOSES", Metric |-> "REPORTS",
     Task |-> "ADDRESSES", Method |-> "USES_METHOD", Benchmark |-> "EVALUATES_ON"]

ASSUME KnowledgeAssumption ==
    /\ \A p \in Paper : PaperNode(p) \in Uid
    /\ Found \in [Paper -> [1 .. MaxVersion ->
                        SUBSET {u \in Uid : u[1] \in DOMAIN RelationForLabel}]]
    /\ Metadata \in [Paper -> SUBSET {u \in Uid : u[1] \in {"Author", "Venue"}}]
    /\ Queued \subseteq Paper /\ NoPaper \notin Paper
    /\ NoStore \notin Graph /\ "server" \notin Process
    /\ MaxVersion \in Nat \ {0} /\ MaxRetries \in Nat /\ MaxEvents \in Nat

(* Where an element stands in a sequence.                                        *)
Position(order, x) == CHOOSE i \in DOMAIN order : order[i] = x

-------------------------------------------------------------------------------
(* The projection of one paper.                                                  *)

(* entity_nodes is keyed by the name alone: of two entities with one name the    *)
(* one whose label comes last in the gazetteer is kept.                          *)
EntityNamed(key, entities) ==
    LET found   == {m \in entities : m[2] = key}
        rank(m) == Position(GazetteerOrder, m[1])
    IN CHOOSE m \in found : \A n \in found : rank(n) <= rank(m)

(* A name in a relation is the paper if it is the paper's title.                 *)
ResolveEndpoint(key, p, entities) ==
    IF key = TitleOf[p] THEN PaperNode(p) ELSE EntityNamed(key, entities)

MetadataEdges(p) ==
    {[type  |-> IF m[1] = "Author" THEN "AUTHORED_BY" ELSE "PUBLISHED_IN",
      start |-> PaperNode(p), end |-> m] : m \in Metadata[p]}

(* Mutant: the shape of a relation is not looked at.                             *)
RelationEdges_AnyShape(p, entities) ==
    {[type |-> RelationForLabel[m[1]], start |-> PaperNode(p),
      end |-> ResolveEndpoint(m[2], p, entities)] : m \in entities}

(* The gazetteer relates the paper to every entity it finds; a relation that the *)
(* resolved ends do not fit is dropped.                                          *)
RelationEdges(p, entities) ==
    {e \in {[type |-> RelationForLabel[m[1]], start |-> PaperNode(p),
             end |-> ResolveEndpoint(m[2], p, entities)] : m \in entities} :
        FitsSchema(e)}

CitationEdges(p, cites) ==
    {[type |-> "CITES", start |-> PaperNode(p), end |-> PaperNode(q)] : q \in cites}

(* Mutant: the cited papers are not put among the nodes.                         *)
ProjectedNodes_NoCited(p, entities, cites) ==
    {PaperNode(p)} \cup Metadata[p] \cup entities

ProjectedNodes(p, entities, cites) ==
    {PaperNode(q) : q \in cites \cup {p}} \cup Metadata[p] \cup entities

ProjectedEdges(p, entities, cites) ==
    MetadataEdges(p) \cup RelationEdges(p, entities) \cup CitationEdges(p, cites)

-------------------------------------------------------------------------------
VARIABLES
    backend,      \* "memory" or "neo4j": the setting all processes share
    version,      \* parses of the paper so far, 0 once its row is deleted
    mirror,       \* extracted_entities: [Paper -> set of <<label, key>>]
    queue,        \* build_graph messages [paper, parse, tries]
    store,        \* the graph a process or the server holds
    file,         \* what is on disk: nodes and edges
    pc, msg,      \* what each process is doing, and for which message
    text,         \* the entities it extracted
    cited,        \* the papers it found cited
    todo,         \* the nodes, then the edges, it has still to write
    replaced,     \* mirror rows its transaction deleted and has not committed
    events,       \* how many disturbances there were
    removals,     \* history: how many of them were removals from the graph
    writers,      \* history: the processes that have written the file
    disturbed     \* history: a removal ran since this build began

buildVars == <<pc, msg, text, cited, todo, replaced>>
dataVars  == <<version, mirror, queue>>
graphVars == <<store, file, writers>>
vars == <<backend, dataVars, graphVars, buildVars, events, removals, disturbed>>

Server  == "server"
NoMsg   == [paper |-> NoPaper, parse |-> 0, tries |-> 0]

Message == [paper : Paper, parse : 1 .. MaxVersion, tries : 0 .. MaxRetries]
Step    == {"idle", "cites", "nodes", "edges", "delete", "commit"}

(* The store a process writes to.                                                *)
StoreOf(w) == IF backend = "neo4j" THEN Server ELSE w

TypeOK ==
    /\ backend \in {"memory", "neo4j"}
    /\ version \in [Paper -> 0 .. MaxVersion]
    /\ mirror \in [Paper -> SUBSET Uid]
    /\ queue \subseteq Message
    /\ DOMAIN store = Process \cup {Server}
    /\ \A s \in Process \cup {Server} : store[s] # NoStore => store[s] \in Graph
    /\ file.nodes \subseteq Uid /\ file.edges \subseteq Edge
    /\ pc \in [Process -> Step]
    /\ msg \in [Process -> Message \cup {NoMsg}]
    /\ text \in [Process -> SUBSET Uid]
    /\ cited \in [Process -> SUBSET Paper]
    /\ todo \in [Process -> SUBSET (Uid \cup Edge)]
    /\ replaced \in [Process -> SUBSET Uid]
    /\ events \in 0 .. MaxEvents /\ removals \in 0 .. MaxEvents
    /\ writers \subseteq Process
    /\ disturbed \in [Process -> BOOLEAN]

Init ==
    /\ backend \in {"memory", "neo4j"}
    /\ version = [p \in Paper |-> 1]
    /\ mirror = [p \in Paper |-> {}]
    /\ queue = {[paper |-> p, parse |-> 1, tries |-> 0] : p \in Queued}
    /\ store = [s \in Process \cup {Server} |-> IF s = Server THEN EmptyGraph ELSE NoStore]
    /\ file = Saved(EmptyGraph)
    /\ pc = [w \in Process |-> "idle"]
    /\ msg = [w \in Process |-> NoMsg]
    /\ text = [w \in Process |-> {}]
    /\ cited = [w \in Process |-> {}]
    /\ todo = [w \in Process |-> {}]
    /\ replaced = [w \in Process |-> {}]
    /\ events = 0 /\ removals = 0
    /\ writers = {}
    /\ disturbed = [w \in Process |-> FALSE]

-------------------------------------------------------------------------------
(* Around the task.                                                              *)

(* A transaction that has deleted rows of p and not yet committed holds them.    *)
MirrorLocked(p) == \E w \in Process : replaced[w] # {} /\ msg[w].paper = p

(* process_paper: the paper is parsed again and its graph queued again.          *)
Reparse(p) ==
    /\ version[p] \in 1 .. MaxVersion - 1
    /\ version' = [version EXCEPT ![p] = version[p] + 1]
    /\ queue' = queue \cup {[paper |-> p, parse |-> version[p] + 1, tries |-> 0]}
    /\ events < MaxEvents /\ events' = events + 1
    /\ UNCHANGED <<backend, mirror, graphVars, buildVars, removals, disturbed>>

(* delete_paper: the row goes, its mirrored rows by cascade; the graph stays.    *)
DeleteRow(p) ==
    /\ version[p] > 0
    /\ ~MirrorLocked(p)
    /\ version' = [version EXCEPT ![p] = 0]
    /\ mirror' = [mirror EXCEPT ![p] = {}]
    /\ events < MaxEvents /\ events' = events + 1
    /\ UNCHANGED <<backend, queue, graphVars, buildVars, removals, disturbed>>

(* A process of the memory backend loads the file when it first asks for a store.*)
Opened(w) == IF store[StoreOf(w)] = NoStore THEN Loaded(file) ELSE store[StoreOf(w)]

(* Mutant: the memory backend leaves the file as it is.                          *)
Write_NoFlush(w, g) ==
    /\ store' = [store EXCEPT ![StoreOf(w)] = g]
    /\ writers' = writers \cup {w}
    /\ UNCHANGED file

(* Every write replaces the graph; the memory backend flushes all of it.         *)
Write(w, g) ==
    /\ store' = [store EXCEPT ![StoreOf(w)] = g]
    /\ IF backend = "memory"
       THEN file' = Saved(g) /\ writers' = writers \cup {w}
       ELSE UNCHANGED <<file, writers>>

(* remove_paper_from_graph: the node and its edges first, the rows after.  No    *)
(* endpoint calls it; an idle process runs its two halves here.                  *)
RemovePaper(w, p) ==
    /\ pc[w] = "idle"
    /\ events < MaxEvents
    /\ ~MirrorLocked(p)
    /\ removals' = removals + 1 /\ events' = events + 1
    /\ IF PaperNode(p) \in Opened(w).nodes
       THEN Write(w, DeletePaper(Opened(w), PaperNode(p)))
       ELSE /\ store' = [store EXCEPT ![StoreOf(w)] = Opened(w)]
            /\ UNCHANGED <<file, writers>>
    /\ mirror' = [mirror EXCEPT ![p] = {}]
    /\ disturbed' = [v \in Process |-> TRUE]
    /\ UNCHANGED <<backend, version, queue, buildVars>>

-------------------------------------------------------------------------------
(* build_paper_graph in process w.                                               *)

Idle(w) ==
    /\ pc' = [pc EXCEPT ![w] = "idle"]
    /\ msg' = [msg EXCEPT ![w] = NoMsg]
    /\ text' = [text EXCEPT ![w] = {}]
    /\ cited' = [cited EXCEPT ![w] = {}]
    /\ todo' = [todo EXCEPT ![w] = {}]
    /\ replaced' = [replaced EXCEPT ![w] = {}]

(* Mutant: every failure puts the message back.                                  *)
Retried_Always(m) == queue' = queue \cup {[m EXCEPT !.tries = m.tries + 1]}

(* self.retry: the message comes back until its retries are used up.             *)
Retried(m) ==
    queue' = IF m.tries < MaxRetries
             THEN queue \cup {[m EXCEPT !.tries = m.tries + 1]} ELSE queue

(* extract_entities on the text the paper has now.                               *)
ExtractEntities(p) == Found[p][version[p]]

(* The paper and the text of its chunks; a paper that is gone is an error.       *)
Begin(w, m) ==
    /\ pc[w] = "idle" /\ m \in queue
    /\ store' = [store EXCEPT ![StoreOf(w)] = Opened(w)]
    /\ IF version[m.paper] = 0
       THEN /\ queue' = (queue \ {m}) \cup
                        (IF m.tries < MaxRetries
                         THEN {[m EXCEPT !.tries = m.tries + 1]} ELSE {})
            /\ UNCHANGED <<buildVars, disturbed>>
       ELSE /\ queue' = queue \ {m}
            /\ pc' = [pc EXCEPT ![w] = "cites"]
            /\ msg' = [msg EXCEPT ![w] = m]
            /\ text' = [text EXCEPT ![w] = ExtractEntities(m.paper)]
            /\ disturbed' = [disturbed EXCEPT ![w] = FALSE]
            /\ UNCHANGED <<cited, todo, replaced>>
    /\ UNCHANGED <<backend, version, mirror, file, writers, events, removals>>

(* Mutant: a cited title is looked for in every workspace.                       *)
CitedPapers_AnyWorkspace(p) ==
    {q \in Paper \ {p} : version[p] > 0 /\ version[q] > 0 /\ TitleOf[q] \in References[p]}

(* Only works that are themselves papers of the workspace.                       *)
CitedPapers(p) ==
    {q \in Paper \ {p} : /\ version[p] > 0 /\ version[q] > 0
                         /\ WorkspaceOf[q] = WorkspaceOf[p]
                         /\ TitleOf[q] \in References[p]}

(* The rows one statement of an upsert writes, out of the rows that are left: the *)
(* memory backend takes all at once, the database a statement per label (per      *)
(* signature, for relationships).                                                 *)
LabelOrder == <<"Paper", "Author", "Venue">> \o GazetteerOrder

NodeStatement(N) ==
    IF backend = "memory" THEN N
    ELSE {n \in N : \A m \in N : Position(LabelOrder, n[1]) <= Position(LabelOrder, m[1])}

TypeOrder == <<"AUTHORED_BY", "PUBLISHED_IN", "USES_DATASET", "PROPOSES", "REPORTS",
               "ADDRESSES", "USES_METHOD", "EVALUATES_ON", "CITES">>

EdgeStatement(E) ==
    IF backend = "memory" THEN E
    ELSE {e \in E : \A d \in E : Position(TypeOrder, e.type) <= Position(TypeOrder, d.type)}

ReadCitations(w) ==
    /\ pc[w] = "cites"
    /\ LET p == msg[w].paper
           q == CitedPapers(p)
       IN /\ cited' = [cited EXCEPT ![w] = q]
          /\ todo' = [todo EXCEPT ![w] = ProjectedNodes(p, text[w], q)]
    /\ pc' = [pc EXCEPT ![w] = "nodes"]
    /\ UNCHANGED <<backend, dataVars, graphVars, msg, text, replaced,
                   events, removals, disturbed>>

(* What follows the last statement of an upsert.                                 *)
EdgesOf(w) == ProjectedEdges(msg[w].paper, text[w], cited[w])

WriteNodes(w) ==
    /\ pc[w] = "nodes"
    /\ LET rows == NodeStatement(todo[w])
           left == todo[w] \ rows
       IN /\ Write(w, UpsertNodes(store[StoreOf(w)], rows))
          /\ todo' = [todo EXCEPT ![w] = IF left # {} THEN left ELSE EdgesOf(w)]
          /\ pc' = [pc EXCEPT ![w] = IF left # {} THEN "nodes"
                                     ELSE IF EdgesOf(w) = {} THEN "delete" ELSE "edges"]
    /\ UNCHANGED <<backend, dataVars, msg, text, cited, replaced,
                   events, removals, disturbed>>

WriteEdges(w) ==
    /\ pc[w] = "edges"
    /\ LET g    == store[StoreOf(w)]
           rows == EdgeStatement(todo[w])
           left == todo[w] \ rows
       IN /\ Write(w, IF backend = "memory" THEN UpsertRelationships(g, rows)
                                            ELSE MergeRelationships(g, rows))
          /\ todo' = [todo EXCEPT ![w] = left]
          /\ pc' = [pc EXCEPT ![w] = IF left # {} THEN "edges" ELSE "delete"]
    /\ UNCHANGED <<backend, dataVars, msg, text, cited, replaced,
                   events, removals, disturbed>>

(* _mirror_entities: the delete waits for rows another transaction holds, ...    *)
MirrorDelete(w) ==
    /\ pc[w] = "delete"
    /\ ~MirrorLocked(msg[w].paper)
    /\ replaced' = [replaced EXCEPT ![w] = mirror[msg[w].paper]]
    /\ pc' = [pc EXCEPT ![w] = "commit"]
    /\ UNCHANGED <<backend, dataVars, graphVars, msg, text, cited, todo,
                   events, removals, disturbed>>

(* ... and the inserts fail for a paper that is gone, or on a row that was       *)
(* committed since; then the transaction is undone and the task retried.         *)
MirrorCommit(w) ==
    /\ pc[w] = "commit"
    /\ LET p == msg[w].paper
           kept == mirror[p] \ replaced[w]
       IN IF version[p] > 0 /\ kept \cap text[w] = {}
          THEN mirror' = [mirror EXCEPT ![p] = kept \cup text[w]] /\ UNCHANGED queue
          ELSE \/ version[p] = 0 /\ text[w] = {} /\ UNCHANGED <<mirror, queue>>
               \/ text[w] # {} /\ Retried(msg[w]) /\ UNCHANGED mirror
    /\ Idle(w)
    /\ UNCHANGED <<backend, version, graphVars, events, removals, disturbed>>

(* Any await of the task may fail: a database or driver error.                   *)
Fail(w) ==
    /\ pc[w] # "idle"
    /\ events < MaxEvents
    /\ events' = events + 1
    /\ Retried(msg[w])
    /\ Idle(w)
    /\ UNCHANGED <<backend, version, mirror, graphVars, removals, disturbed>>

(* The process dies: its message was not acknowledged and is delivered again.    *)
Crash(w) ==
    /\ store[w] # NoStore \/ pc[w] # "idle"
    /\ events < MaxEvents
    /\ events' = events + 1
    /\ store' = [store EXCEPT ![w] = NoStore]
    /\ queue' = IF pc[w] = "idle" THEN queue ELSE queue \cup {msg[w]}
    /\ Idle(w)
    /\ UNCHANGED <<backend, version, mirror, file, writers, removals, disturbed>>

(* The visibility timeout passes: a second copy runs next to the first.          *)
Redeliver(w) ==
    /\ pc[w] # "idle"
    /\ events < MaxEvents
    /\ events' = events + 1
    /\ queue' = queue \cup {msg[w]}
    /\ UNCHANGED <<backend, version, mirror, graphVars, buildVars, removals, disturbed>>

Next ==
    \/ \E p \in Paper : Reparse(p) \/ DeleteRow(p)
    \/ \E w \in Process :
         \/ \E p \in Paper : RemovePaper(w, p)
         \/ \E m \in queue : Begin(w, m)
         \/ ReadCitations(w) \/ WriteNodes(w) \/ WriteEdges(w)
         \/ MirrorDelete(w) \/ MirrorCommit(w)
         \/ Fail(w) \/ Crash(w) \/ Redeliver(w)

Spec == Init /\ [][Next]_vars

-------------------------------------------------------------------------------
(* Properties.                                                                   *)

Stores == {store[s] : s \in {x \in Process \cup {Server} : store[x] # NoStore}}

(* The two indexes of a store list exactly the edges of the store, each at both  *)
(* of its ends, and no edge hangs loose: whatever mixture of builds, removals    *)
(* and restarts came before (InMemoryGraphStore keeps four dictionaries in step).*)
IndexesAreExact ==
    \A g \in Stores :
        /\ Ends(g.edges) \subseteq g.nodes
        /\ \A u \in Uid : /\ g.out[u] = {e \in g.edges : e.start = u}
                          /\ g.in[u]  = {e \in g.edges : e.end = u}

(* No stored edge joins labels its type does not allow, although one name may be *)
(* a dataset and a benchmark and a title may be the name of a model.             *)
EdgesFitSchema == \A g \in Stores : \A e \in g.edges : FitsSchema(e)

(* A citation stays inside a workspace.                                          *)
CitationsStayInside ==
    \A g \in Stores : \A e \in g.edges :
        e.type = "CITES" => WorkspaceOf[e.start[2]] = WorkspaceOf[e.end[2]]

(* Both backends reach the same nodes at the same distances: what the search of  *)
(* the embedded store reports for a node is the length of the shortest trail the *)
(* database would return for it.  (Looked at while no build is under way.)       *)
NeighborsAreShortest ==
    (\A w \in Process : pc[w] = "idle") =>
    \A g \in Stores : \A u \in g.nodes, depth \in {1, 3},
        wanted \in {{}, {"CITES", "USES_DATASET"}} :
            LET rows == {r \in TrailRows(g, u, depth, wanted) : r.node # u} IN
            Neighbors(g, u, depth, wanted) =
                {r \in rows : \A s \in rows : s.node = r.node => r.distance <= s.distance}

(* When a build comes to its mirror, all it was to write is in the store,        *)
(* whatever other builds wrote meanwhile, provided nothing was removed: above    *)
(* all every entity whose name no other label and no title shares is linked.     *)
BuildIsWhole ==
    \A w \in Process : pc[w] \in {"delete", "commit"} /\ ~disturbed[w] =>
        LET g == store[StoreOf(w)]
            p == msg[w].paper
        IN /\ ProjectedNodes(p, text[w], cited[w]) \subseteq g.nodes
           /\ \A m \in text[w] :
                (m[2] # TitleOf[p] /\ \A n \in text[w] : n[2] = m[2] => n = m) =>
                   \E e \in g.edges : e.start = PaperNode(p) /\ e.end = m
           /\ \A q \in cited[w] : \E e \in g.edges :
                e.type = "CITES" /\ e.start = PaperNode(p) /\ e.end = PaperNode(q)

(* The relational copy never names an entity the graph lacks: with the server    *)
(* always, with the file as long as one process only has written it.             *)
MirrorIsBacked ==
    \A p \in Paper :
        /\ backend = "neo4j" => mirror[p] \subseteq store[Server].nodes
        /\ backend = "memory" /\ Cardinality(writers) <= 1 => mirror[p] \subseteq file.nodes

(* A process that starts again finds the graph it had: what the only writer of   *)
(* the file holds is what Loaded makes of the file, indexes and all.             *)
RestartKeepsGraph ==
    \A w \in Process :
        backend = "memory" /\ writers \subseteq {w} /\ store[w] # NoStore
            => store[w] = Loaded(file)

(* Nothing but a removal, and a start from the file, takes anything out of a     *)
(* store; and a removal takes one paper's node with the edges it is an end of,   *)
(* never an entity or paper that others share.                                   *)
OnlyThePaperGoes ==
    [][\A s \in Process \cup {Server} :
        store[s] # NoStore /\ store'[s] # NoStore =>
            LET goneNodes == store[s].nodes \ store'[s].nodes
                goneEdges == store[s].edges \ store'[s].edges
            IN /\ goneNodes # {} \/ goneEdges # {} => removals' > removals
               /\ Cardinality(goneNodes) <= 1
               /\ \A n \in goneNodes : n[1] = "Paper"
               /\ \A e \in goneEdges : {e.start, e.end} \cap goneNodes # {}]_vars

(* Whatever builds, removals and faults came before, the graph means something:  *)
(* its indexes are exact, its edges fit their labels and stay in a workspace,    *)
(* both backends answer a traversal alike, and no message is retried past its    *)
(* limit (store.py:127-199, schema.py:91-99, builder.py:151-177,                 *)
(* tasks.py:292-296).                                                            *)
GraphIsSound ==
    /\ TypeOK
    /\ IndexesAreExact
    /\ EdgesFitSchema /\ CitationsStayInside
    /\ NeighborsAreShortest

(* What a build has written is there: in the store when it comes to the mirror,  *)
(* behind every mirrored row, and again after a restart (builder.py:98-100,      *)
(* 213-235, store.py:86-125).                                                    *)
BuildsAreKept == BuildIsWhole /\ MirrorIsBacked /\ RestartKeepsGraph

===============================================================================
