------------------------------ MODULE MCServices ------------------------------
(* Instances of KnowledgeGraph, Accounts, EventStream and Embeddings for TLC.    *)
(* These services share no state, so one run explores their union: `service`     *)
(* says which of them a behaviour is about, and the others rest.                 *)
(*                                                                               *)
(* The graph: a paper named like a model that uses a name which is a dataset and *)
(* a benchmark, one that cites it, and a paper of another workspace with the     *)
(* title of the second.                                                          *)
EXTENDS KnowledgeGraph, Accounts, EventStream, Embeddings

VARIABLE service

Papers     == {"p1", "p2", "p3"}
Workspaces == [p1 |-> "a", p2 |-> "a", p3 |-> "b"]
Titles     == [p1 |-> "bert", p2 |-> "t2", p3 |-> "t2"]
Cites      == [p1 |-> {"t2"}, p2 |-> {"bert"}, p3 |-> {}]
People     == [p1 |-> {<<"Author", "ann">>}, p2 |-> {<<"Author", "ann">>}, p3 |-> {}]
Glue       == {<<"Dataset", "glue">>, <<"Benchmark", "glue">>}
Texts      == [p1 |-> <<Glue, {<<"Model", "bert">>, <<"Dataset", "squad">>}>>,
               p2 |-> <<{<<"Dataset", "glue">>, <<"Dataset", "squad">>}, {}>>,
               p3 |-> <<{}, {}>>]
Uids       == {PaperNode(p) : p \in Paper} \cup UNION {Metadata[p] : p \in Paper}
                 \cup UNION {Found[p][v] : p \in Paper, v \in 1 .. MaxVersion}

Texts2     == {<<"a">>, <<"a", "b">>}

ServiceSymmetry == Permutations(Process) \cup Permutations(Request)

(* Two builds run side by side until the last disturbance, and after it one at a time. *)
OneAtATimeAtTheEnd == events < MaxEvents \/ \E w \in Process : pc[w] = "idle"

ServicesInit ==
    /\ service \in {"graph", "accounts", "stream", "embeddings"}
    /\ Init
    /\ AccountsInit
    /\ StreamInit
    /\ EmbeddingsInit
    /\ service # "graph" => backend = "neo4j"
    /\ service # "embeddings" => vendor = "openai"

ServicesNext ==
    /\ UNCHANGED service
    /\ \/ /\ service = "graph" /\ Next
          /\ UNCHANGED <<accountVars, streamVars, embeddingVars>>
       \/ /\ service = "accounts" /\ AccountsNext
          /\ UNCHANGED <<vars, streamVars, embeddingVars>>
       \/ /\ service = "stream" /\ StreamNext
          /\ UNCHANGED <<vars, accountVars, embeddingVars>>
       \/ /\ service = "embeddings" /\ EmbeddingsNext
          /\ UNCHANGED <<vars, accountVars, streamVars>>

ServicesSpec ==
    ServicesInit /\ [][ServicesNext]_<<service, vars, accountVars, streamVars, embeddingVars>>

===============================================================================
