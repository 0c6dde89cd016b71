------------------------------ MODULE GraphStore ------------------------------
(* The values the two graph backends keep and what their operations do to them  *)
(* (graph/store.py, graph/schema.py).  A node is its uid <<label, key>>, an edge *)
(* is its uid [type, start, end]: names, years and confidences are left out.     *)
(* A graph is a record of nodes, edges and the two indexes _out and _in of the   *)
(* embedded backend; a node without an entry in an index has the empty set, as   *)
(* the defaultdict gives it.  The database backend is the same record, its       *)
(* indexes being the server's own.                                               *)
EXTENDS Naturals, FiniteSets, Sequences

CONSTANT Uid                 \* every <<label, key>> a behaviour can mention

ASSUME UidsArePairs == \A u \in Uid : u = <<u[1], u[2]>>

(* Which relationship may join which labels.                                     *)
AllowedEdges ==
    [AUTHORED_BY     |-> <<"Paper", "Author">>,
     AFFILIATED_WITH |-> <<"Author", "Institution">>,
     CITES           |-> <<"Paper", "Paper">>,
     EVALUATES_ON    |-> <<"Paper", "Benchmark">>,
     USES_DATASET    |-> <<"Paper", "Dataset">>,
     PROPOSES        |-> <<"Paper", "Model">>,
     USES_METHOD     |-> <<"Paper", "Method">>,
     REPORTS         |-> <<"Paper", "Metric">>,
     ADDRESSES       |-> <<"Paper", "Task">>,
     PUBLISHED_IN    |-> <<"Paper", "Venue">>,
     COMPARES_TO     |-> <<"Model", "Model">>]

Edge == [type : DOMAIN AllowedEdges, start : Uid, end : Uid]

(* GraphRelationship refuses every other shape with a ValueError.                *)
FitsSchema(e) == <<e.start[1], e.end[1]>> = AllowedEdges[e.type]

Ends(E) == {e.start : e \in E} \cup {e.end : e \in E}

Graph == [nodes : SUBSET Uid, edges : SUBSET Edge,
          out : [Uid -> SUBSET Edge], in : [Uid -> SUBSET Edge]]

EmptyGraph == [nodes |-> {}, edges |-> {},
               out |-> [u \in Uid |-> {}], in |-> [u \in Uid |-> {}]]

-------------------------------------------------------------------------------
(* Writes.                                                                       *)

RegisterEdges(g, N, E) ==
    [nodes |-> N,
     edges |-> g.edges \cup E,
     out   |-> [u \in Uid |-> g.out[u] \cup {e \in E : e.start = u}],
     in    |-> [u \in Uid |-> g.in[u]  \cup {e \in E : e.end   = u}]]

UpsertNodes(g, N) == [g EXCEPT !.nodes = g.nodes \cup N]

(* The embedded store creates an end that is missing.                            *)
UpsertRelationships(g, E) == RegisterEdges(g, g.nodes \cup Ends(E), E)

(* The database matches both ends first: a row whose end is missing writes       *)
(* nothing and raises nothing.                                                   *)
MergeRelationships(g, E) ==
    RegisterEdges(g, g.nodes, {e \in E : {e.start, e.end} \subseteq g.nodes})

(* Mutant: the edges are taken out of the index of one end only.                 *)
DeletePaper_OneEnd(g, u) ==
    LET attached == g.out[u] \cup g.in[u] IN
    [nodes |-> g.nodes \ {u},
     edges |-> g.edges \ attached,
     out   |-> [x \in Uid |-> IF x = u THEN {} ELSE g.out[x] \ attached],
     in    |-> [x \in Uid |-> IF x = u THEN {} ELSE g.in[x]]]

(* Mutant: whatever the paper was connected to goes with it.                     *)
DeletePaper_WithNeighbours(g, u) ==
    LET attached == g.out[u] \cup g.in[u]
        gone     == Ends(attached) \cup {u}
        lost     == {e \in g.edges : {e.start, e.end} \cap gone # {}}
    IN [nodes |-> g.nodes \ gone,
        edges |-> g.edges \ lost,
        out   |-> [x \in Uid |-> g.out[x] \ lost],
        in    |-> [x \in Uid |-> g.in[x] \ lost]]

(* Both indexes are popped for the paper; the other end of each edge forgets it. *)
DeletePaper(g, u) ==
    LET attached == g.out[u] \cup g.in[u] IN
    [nodes |-> g.nodes \ {u},
     edges |-> g.edges \ attached,
     out   |-> [x \in Uid |-> IF x = u THEN {} ELSE g.out[x] \ attached],
     in    |-> [x \in Uid |-> IF x = u THEN {} ELSE g.in[x] \ attached]]

(* The file the embedded store writes after every change, and what a process     *)
(* that starts makes of it.                                                      *)
Saved(g) == [nodes |-> g.nodes, edges |-> g.edges]

Loaded(file) ==
    RegisterEdges(EmptyGraph, file.nodes,
                  {e \in file.edges : {e.start, e.end} \subseteq file.nodes})

-------------------------------------------------------------------------------
(* Reads.  wanted is the set of relationship types to follow, {} being all.      *)

Followed(e, wanted) == wanted = {} \/ e.type \in wanted

(* Mutant: the search follows edges in their own direction only.                 *)
Adjacent_OutOnly(g, u, wanted) ==
    {e.end : e \in {d \in g.out[u] : Followed(d, wanted)}}

(* The nodes one edge away, read from the indexes.                               *)
Adjacent(g, u, wanted) ==
    {e.end   : e \in {d \in g.out[u] : Followed(d, wanted)}}
        \cup {e.start : e \in {d \in g.in[u] : Followed(d, wanted)}}

(* The breadth-first search of the embedded store: the frontier after each       *)
(* round, and everything seen until then.  Which of several edges a node is      *)
(* reported with depends on the order of a Python set and is left out.           *)
Frontiers(g, start, depth, wanted) ==
    LET round[d \in 0 .. depth] ==
          IF d = 0 THEN [frontier |-> {start}, seen |-> {start}]
          ELSE LET before == round[d - 1]
                   next   == (UNION {Adjacent(g, u, wanted) : u \in before.frontier})
                               \ before.seen
               IN [frontier |-> next, seen |-> before.seen \cup next]
    IN round

Neighbors(g, start, depth, wanted) ==
    IF start \notin g.nodes THEN {}
    ELSE UNION {{[node |-> u, distance |-> d] :
                    u \in Frontiers(g, start, depth, wanted)[d].frontier} :
                d \in 1 .. depth}

(* The database's answer: one row for the end of every trail (a path that uses   *)
(* no relationship twice) of 1 .. depth relationships, in either direction; a    *)
(* cycle leads back to the start.                                                *)
TrailRows(g, start, depth, wanted) ==
    LET step(t) == {[at |-> IF e.start = t.at THEN e.end ELSE e.start,
                     used |-> t.used \cup {e}] :
                       e \in {d \in g.edges \ t.used :
                                 Followed(d, wanted) /\ t.at \in {d.start, d.end}}}
        trails[d \in 0 .. depth] ==
          IF d = 0 THEN {[at |-> start, used |-> {}]}
          ELSE UNION {step(t) : t \in trails[d - 1]}
    IN IF start \notin g.nodes THEN {}
       ELSE UNION {{[node |-> t.at, distance |-> d] : t \in trails[d]} : d \in 1 .. depth}

===============================================================================
