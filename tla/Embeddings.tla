------------------------------ MODULE Embeddings ------------------------------
(*****************************************************************************)
(* The hosted embedding providers (retrieval/embeddings.py) and their         *)
(* callers, the indexer with a batch of passages and the search with one      *)
(* query.  Every await of a call is a step, so calls run side by side.        *)
(*                                                                            *)
(* The payload of the Jina provider names a task, and embed_query replaces    *)
(* the method of its own instance that builds it while it waits.  A vector is *)
(* the text it was computed for and the task it was computed under; its       *)
(* numbers and their normalization are left out.                              *)
(*****************************************************************************)
EXTENDS Integers, FiniteSetsExt, SequencesExt

CONSTANTS
    Call,         \* the calls of a behaviour
    Batches,      \* the sequences of texts the indexer may send
    QueryText,    \* what a search asks
    MaxTries,     \* MAX_RETRIES
    MaxTroubles   \* bound: transient failures of the service in one behaviour

ASSUME EmbeddingsAssumption ==
    /\ MaxTries \in Nat \ {0} /\ MaxTroubles \in Nat
    /\ \A texts \in Batches : texts # <<>> /\ texts \in Seq(ToSet(texts))

VARIABLES
    vendor,     \* the provider the settings name: "openai" or "jina"
    payload,    \* the task the _payload of each instance puts into a request
    calls,      \* each call: stage, use, instance, texts, tries, original, sent, result
    troubles    \* how often the service has failed for a while

embeddingVars == <<vendor, payload, calls, troubles>>

(* The task a class names for passages, and for queries.                         *)
PassageTask == IF vendor = "jina" THEN "retrieval.passage" ELSE "none"
QueryTask   == IF vendor = "jina" THEN "retrieval.query" ELSE "none"
TaskFor(use) == IF use = "query" THEN QueryTask ELSE PassageTask

(* Mutant: one instance is kept and given to every caller.                       *)
InstanceFor_Shared(c) == CHOOSE d \in Call : TRUE

(* get_embedding_provider makes an instance for every caller.                    *)
InstanceFor(c) == c

Begun(c, use, texts) ==
    [stage |-> "posting", use |-> use, texts |-> texts, tries |-> 1,
     original |-> payload[InstanceFor(c)], sent |-> "none", result |-> <<>>]

(* index_paper has a batch embedded.                                             *)
EmbedDocuments(c, texts) ==
    /\ calls[c].stage = "unused"
    /\ calls' = [calls EXCEPT ![c] = Begun(c, "passage", texts)]
    /\ UNCHANGED <<vendor, payload, troubles>>

(* retrieve has its query embedded: Jina swaps the payload first.                *)
EmbedQuery(c) ==
    /\ calls[c].stage = "unused"
    /\ calls' = [calls EXCEPT ![c] = Begun(c, "query", <<QueryText>>)]
    /\ payload' = [payload EXCEPT ![InstanceFor(c)] = QueryTask]
    /\ UNCHANGED <<vendor, troubles>>

(* Every attempt builds its request anew.                                        *)
Post(c) ==
    /\ calls[c].stage = "posting"
    /\ calls' = [calls EXCEPT ![c].stage = "waiting", ![c].sent = payload[InstanceFor(c)]]
    /\ UNCHANGED <<vendor, payload, troubles>>

(* The finally clause of embed_query, whatever way the call ends.                *)
Restored(c) ==
    IF calls[c].use = "query" THEN [payload EXCEPT ![InstanceFor(c)] = calls[c].original]
    ELSE payload

(* Mutant: the vectors are taken in the order they come.                         *)
ParseReply_AsItComes(items) == [i \in DOMAIN items |-> items[i].embedding]

(* _parse: sorted by the index each item echoes, so that the item in a place has   *)
(* as many items of a smaller index as there are places before it.                *)
ParseReply(items) ==
    LET Smaller(i) == {j \in DOMAIN items : items[j].index < items[i].index}
        ItemAt(place) == CHOOSE i \in DOMAIN items : Cardinality(Smaller(i)) = place - 1
    IN  [place \in DOMAIN items |-> items[ItemAt(place)].embedding]

(* A reply with an item for every text, in any order.                            *)
Answer(c, order) ==
    /\ calls[c].stage = "waiting"
    /\ LET items == [i \in DOMAIN order |->
             [index |-> order[i], embedding |-> <<calls[c].texts[order[i]], calls[c].sent>>]]
       IN  calls' = [calls EXCEPT ![c].stage = "done", ![c].result = ParseReply(items)]
    /\ payload' = Restored(c)
    /\ UNCHANGED <<vendor, troubles>>

(* A client error raises EmbeddingError at once; a body that does not parse, or  *)
(* one with too few items, raises here or in the zip of the caller.              *)
Reject(c) ==
    /\ calls[c].stage = "waiting"
    /\ calls' = [calls EXCEPT ![c].stage = "refused"]
    /\ payload' = Restored(c)
    /\ UNCHANGED <<vendor, troubles>>

(* Mutant: the number of attempts is not looked at.                              *)
MayRetry_Always(tries) == TRUE

MayRetry(tries) == tries < MaxTries

(* 429, 5xx, a timeout or a lost connection: again after a pause, or the end.    *)
Trouble(c) ==
    /\ calls[c].stage = "waiting"
    /\ troubles < MaxTroubles
    /\ troubles' = troubles + 1
    /\ IF MayRetry(calls[c].tries)
       THEN /\ calls' = [calls EXCEPT ![c].stage = "posting", ![c].tries = @ + 1]
            /\ UNCHANGED payload
       ELSE /\ calls' = [calls EXCEPT ![c].stage = "exhausted"]
            /\ payload' = Restored(c)
    /\ UNCHANGED vendor

EmbeddingsInit ==
    /\ vendor \in {"openai", "jina"}
    /\ payload = [c \in Call |-> PassageTask]
    /\ calls = [c \in Call |-> [stage |-> "unused", use |-> "none", texts |-> <<>>, tries |-> 0,
                                original |-> "none", sent |-> "none", result |-> <<>>]]
    /\ troubles = 0

EmbeddingsNext ==
    \E c \in Call :
        \/ \E texts \in Batches : EmbedDocuments(c, texts)
        \/ EmbedQuery(c)
        \/ Post(c)
        \/ \E order \in SetToSeqs(DOMAIN calls[c].texts) : Answer(c, order)
        \/ Reject(c)
        \/ Trouble(c)

EmbeddingsSpec == EmbeddingsInit /\ [][EmbeddingsNext]_embeddingVars

(* Whatever calls run side by side and however often they are tried again, every *)
(* text gets its own vector, computed for the use it is put to; a call gives up  *)
(* for trouble only after MAX_RETRIES attempts and never makes more; and an      *)
(* instance no call is using builds requests for passages (embeddings.py:120-160,*)
(* 209-222).                                                                     *)
EmbeddingsFitTheirUse ==
    \A c \in Call :
        /\ calls[c].stage = "done" =>
             calls[c].result = [i \in DOMAIN calls[c].texts |->
                                  <<calls[c].texts[i], TaskFor(calls[c].use)>>]
        /\ calls[c].tries <= MaxTries
        /\ calls[c].stage = "exhausted" => calls[c].tries = MaxTries
        /\ calls[c].stage \notin {"posting", "waiting"} => payload[InstanceFor(c)] = PassageTask

===============================================================================
