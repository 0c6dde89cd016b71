-------------------------------- MODULE Ranking --------------------------------
(***************************************************************************)
(* How a query is ranked: the BM25 index and its corpus statistics, the    *)
(* memory and FAISS vector stores, reciprocal rank fusion, the load of the *)
(* rows and the reranker, over stores whose contents change between        *)
(* queries.  Who may see which paper is HybridIndex's subject; here the    *)
(* filter is any a caller may pass.                                        *)
(***************************************************************************)
EXTENDS Integers, Sequences, FiniteSets, SequencesExt, RankFusion

CONSTANTS
  Chunk,          \* the chunks that exist
  PaperOf,        \* PaperOf[c]: the paper a chunk belongs to
  KindOf,         \* KindOf[c]: its kind, the other key filters name
  Text,           \* Text[c]: the token sequences a chunk may hold, over time
  Stopword,       \* the tokens tokenize drops
  Query,          \* the token sequences a caller may ask
  Filter,         \* the filters: functions from some of {"paper", "kind"} to sets
  Rows,           \* the sets of chunks whose rows a query may find
  Ratings,        \* the scores a reranker may give, functions on Chunk
  Limit,          \* the limits a caller may ask
  Similarity,     \* Similarity[c]: the dot product of c's vector and the query's
  OverFetch,      \* 10: how many times the limit FAISS fetches under a filter
  Multiplier,     \* CANDIDATE_MULTIPLIER, 4
  MaxCandidates,  \* MAX_CANDIDATES, 200
  Faiss,          \* TRUE when VECTOR_STORE_BACKEND is faiss
  Persisted,      \* TRUE when the vector store has a persist_path
  NoAnswer        \* a model value: no query is being answered

ASSUME RankingAssumption ==
  /\ OverFetch \in Nat \ {0} /\ Multiplier \in Nat \ {0}
  /\ MaxCandidates \in Nat \ {0} /\ Limit \subseteq Nat \ {0}
  /\ Similarity \in [Chunk -> Int] /\ \A Rating \in Ratings : Rating \in [Chunk -> Int]
  /\ \A c \in Chunk : \A text \in Text[c] : text \in Seq(Range(text))
  /\ \A query \in Query : query \in Seq(Range(query))
  /\ Faiss \in BOOLEAN /\ Persisted \in BOOLEAN

VARIABLES
  bm25,     \* BM25Index: its _documents (chunk -> tokens), _document_frequency, _total_length
  records,  \* VectorStore._records: the chunks, in dict order
  faiss,    \* FaissVectorStore: its _ids, and whether _index is built
  answer    \* what the last query gave, or NoAnswer

rankingVars == <<bm25, records, faiss, answer>>

Terms(tokens) == {tokens[i] : i \in DOMAIN tokens}

\* tokenize keeps the order and the repetitions, and drops the stopwords.
Tokenize(text) == Chosen(text, {i \in DOMAIN text : text[i] \notin Stopword})

\* _matches: every key must hold one of the values asked; a missing key asks nothing.
Matches(c, filters) ==
  \A key \in DOMAIN filters :
    (IF key = "paper" THEN PaperOf[c] ELSE KindOf[c]) \in filters[key]

-----------------------------------------------------------------------------
(* BM25Index.                                                              *)

EmptyIndex == [documents |-> [c \in {} |-> <<>>],
               documentFrequency |-> [t \in {} |-> 0],
               totalLength |-> 0]

FrequencyIn(index, term) ==
  IF term \in DOMAIN index.documentFrequency THEN index.documentFrequency[term] ELSE 0

(* Mutant: a term keeps its count when a document that held it goes. *)
RemoveUnlocked_KeepsTerms(index, c) ==
  IF c \notin DOMAIN index.documents THEN index
  ELSE [index EXCEPT !.documents = [d \in DOMAIN @ \ {c} |-> @[d]],
                     !.totalLength = @ - Len(index.documents[c])]

\* _remove_unlocked: terms that no longer appear anywhere lose their entry.
RemoveUnlocked(index, c) ==
  LET gone == Terms(index.documents[c])
      left == [t \in DOMAIN index.documentFrequency |->
                 index.documentFrequency[t] - (IF t \in gone THEN 1 ELSE 0)]
  IN  IF c \notin DOMAIN index.documents THEN index
      ELSE [documents |-> [d \in DOMAIN index.documents \ {c} |-> index.documents[d]],
            documentFrequency |-> [t \in {u \in DOMAIN left : left[u] > 0} |-> left[t]],
            totalLength |-> index.totalLength - Len(index.documents[c])]

\* add: a chunk added again is removed first.
AddDocument(index, c, text) ==
  LET tokens == Tokenize(text)
      rest == RemoveUnlocked(index, c)
  IN  [documents |-> [d \in DOMAIN rest.documents \cup {c} |->
                        IF d = c THEN tokens ELSE rest.documents[d]],
       documentFrequency |-> [t \in DOMAIN rest.documentFrequency \cup Terms(tokens) |->
                                FrequencyIn(rest, t) + (IF t \in Terms(tokens) THEN 1 ELSE 0)],
       totalLength |-> rest.totalLength + Len(tokens)]

(* Mutant: the logarithm without the one the code adds inside it. *)
HasWeight_Classic(index, term) ==
  LET n == Cardinality(DOMAIN index.documents)
      f == FrequencyIn(index, term)
  IN  f # 0 /\ n > 2 * f

\* _idf is positive for a term that occurs iff (n - f + 0.5) / (f + 0.5) > 0.
HasWeight(index, term) ==
  LET n == Cardinality(DOMAIN index.documents)
      f == FrequencyIn(index, term)
  IN  f # 0 /\ 2 * (n - f) + 1 > 0

\* The chunks search gives a positive score: the terms they share have weight.
\* Only the sign of a score is kept; a caller sees the chunks in some order of it.
SparseFound(index, query, filters) ==
  LET asked == Terms(Tokenize(query))
  IN  {c \in DOMAIN index.documents :
         /\ Matches(c, filters)
         /\ \E t \in asked \cap Terms(index.documents[c]) : HasWeight(index, t)}

\* search divides a document's length by the average one as soon as a query term
\* occurs in a document that passes the filters.
DividesByZero(index, query, filters) ==
  /\ index.totalLength = 0
  /\ \E c \in DOMAIN index.documents :
       Matches(c, filters) /\ Terms(Tokenize(query)) \cap Terms(index.documents[c]) # {}

-----------------------------------------------------------------------------
(* InMemoryVectorStore and FaissVectorStore.                               *)

Closer == {cd \in Chunk \X Chunk : Similarity[cd[1]] > Similarity[cd[2]]}

\* The records among these that pass the filters, in the same order.
Matching(ids, filters) == Chosen(ids, {i \in DOMAIN ids : Matches(ids[i], filters)})

\* InMemoryVectorStore.search: every record, filtered, then sorted, then cut.
ExactSearch(limit, filters) ==
  FirstOf(RankedBy(Matching(records, filters), Closer), limit)

\* The ids search would use: _rebuild runs first when there is no index.
SearchedIds == IF faiss.built THEN faiss.ids ELSE records

(* Mutant: as many records as the caller wants are fetched, filter or not. *)
Fetch_AsAsked(limit, filters) == Min0(Len(SearchedIds), limit)

\* How many records FaissVectorStore.search asks the index for.
Fetch(limit, filters) ==
  Min0(Len(SearchedIds), IF DOMAIN filters = {} THEN limit ELSE limit * OverFetch)

\* FaissVectorStore.search: the nearest are fetched, then filtered, then cut.
FaissSearch(limit, filters) ==
  LET fetched == FirstOf(RankedBy(SearchedIds, Closer), Fetch(limit, filters))
  IN  FirstOf(Matching(fetched, filters), limit)

\* A position of the index whose record is gone is a KeyError.
LooksUpNothing(limit, filters) ==
  LET nearest == RankedBy(SearchedIds, Closer)
  IN  \E i \in 1 .. Fetch(limit, filters) : nearest[i] \notin Range(records)

DenseSearch(limit, filters) ==
  IF Faiss THEN FaissSearch(limit, filters) ELSE ExactSearch(limit, filters)

RankingInit ==
  /\ bm25 = EmptyIndex
  /\ records = <<>>
  /\ faiss = [ids |-> <<>>, built |-> FALSE]
  /\ answer = NoAnswer

-----------------------------------------------------------------------------
(* The indexes change.                                                     *)

\* A rebuild of the FAISS index follows every change of the records.
Rebuilt == faiss' = IF Faiss THEN [ids |-> records', built |-> TRUE] ELSE faiss

\* BM25Index.add.
Add(c, text) ==
  /\ bm25' = AddDocument(bm25, c, text)
  /\ UNCHANGED <<records, faiss, answer>>

(* Mutant: every chunk is appended, known or not. *)
Upsert_AppendsAgain(c) ==
  /\ records' = Append(records, c)
  /\ Rebuilt
  /\ UNCHANGED <<bm25, answer>>

\* VectorStore.upsert: a known chunk keeps its place among the records.
Upsert(c) ==
  /\ records' = IF c \in Range(records) THEN records ELSE Append(records, c)
  /\ Rebuilt
  /\ UNCHANGED <<bm25, answer>>

\* BM25Index.remove_paper.
RemovePaper(p) ==
  /\ bm25' = LET doomed == SetToSeq({c \in DOMAIN bm25.documents : PaperOf[c] = p})
             IN  FoldLeft(RemoveUnlocked, bm25, doomed)
  /\ UNCHANGED <<records, faiss, answer>>

\* VectorStore.delete_by_paper.
DeleteByPaper(p) ==
  /\ records' = Chosen(records, {i \in DOMAIN records : PaperOf[records[i]] # p})
  /\ Rebuilt
  /\ UNCHANGED <<bm25, answer>>

\* A new process: an empty BM25 index, the records that were persisted, no FAISS
\* index until somebody searches.
Restart ==
  /\ bm25' = EmptyIndex
  /\ records' = IF Persisted THEN records ELSE <<>>
  /\ faiss' = [ids |-> <<>>, built |-> FALSE]
  /\ UNCHANGED answer

-----------------------------------------------------------------------------
(* retrieve.                                                               *)

\* How many candidates each retriever is asked for.
Candidates(limit) == Min0(MaxCandidates, Max0(limit * Multiplier, limit))

Better(pool, Rating) == {cd \in Range(pool) \X Range(pool) : Rating[cd[1]] > Rating[cd[2]]}

(* Mutant: the pool is cut to the limit before the reranker has seen it. *)
Rerank_CutFirst(pool, Rating, limit) == RankedBy(FirstOf(pool, limit), Better(pool, Rating))

\* Reranker.rerank: sorted by score, equal scores in the order they came, then cut.
Rerank(pool, Rating, limit) ==
  FirstOf(RankedBy(pool, Better(pool, Rating)), limit)

\* NoOpReranker.score: descending, so that the order stays.
NoOpScore(pool) ==
  [c \in Range(pool) |-> Len(pool) - (CHOOSE i \in DOMAIN pool : pool[i] = c) + 1]

\* A query whose rows are those in `rows`, with a reranker that gives these scores.
\* The sparse list is in the order of scores that are not modelled: any order.
\* (The fused list is bound by a quantifier, so that TLC computes it once.)
Retrieve(query, filters, limit, rows, Rating, useReranker) ==
  LET pool == Candidates(limit)
      dense == DenseSearch(pool, filters)
      failed == \/ DividesByZero(bm25, query, filters)
                \/ Faiss /\ LooksUpNothing(pool, filters)
  IN  /\ answer = NoAnswer
      /\ \E order \in SetToSeqs(SparseFound(bm25, query, filters)) :
         \E fused \in {FirstOf(Fuse(dense, FirstOf(order, pool)), pool)} :
           LET loaded == Chosen(fused, {i \in DOMAIN fused : fused[i] \in rows})
               given == IF useReranker THEN Rating ELSE NoOpScore(loaded)
           IN  answer' = [query |-> query, filters |-> filters, limit |-> limit,
                          order |-> order, dense |-> dense, sparse |-> FirstOf(order, pool),
                          fused |-> fused, loaded |-> loaded, score |-> given,
                          result |-> Rerank(loaded, given, limit), failed |-> failed]
      /\ faiss' = IF Faiss /\ ~ faiss.built THEN [ids |-> records, built |-> TRUE] ELSE faiss
      /\ UNCHANGED <<bm25, records>>

\* The answer is on its way, and the next request comes.
Return ==
  /\ answer # NoAnswer
  /\ answer' = NoAnswer
  /\ UNCHANGED <<bm25, records, faiss>>

RankingNext ==
  \/ answer = NoAnswer /\ \/ \E c \in Chunk : \E text \in Text[c] : Add(c, text)
                          \/ \E c \in Chunk : Upsert(c)
                          \/ \E c \in Chunk : RemovePaper(PaperOf[c])
                          \/ \E c \in Chunk : DeleteByPaper(PaperOf[c])
                          \/ Restart
  \/ \E query \in Query, filters \in Filter, limit \in Limit, rows \in Rows,
        Rating \in Ratings, useReranker \in BOOLEAN :
       Retrieve(query, filters, limit, rows, Rating, useReranker)
  \/ Return

RankingSpec == RankingInit /\ [][RankingNext]_rankingVars

-----------------------------------------------------------------------------
(* What should hold.                                                       *)

\* Every part of the state has its type.
RankingTypeOK ==
  /\ DOMAIN bm25.documents \subseteq Chunk
  /\ \A c \in DOMAIN bm25.documents : bm25.documents[c] \in Seq((UNION {Terms(t) : t \in Text[c]}) \ Stopword)
  /\ bm25.totalLength \in Nat
  /\ records \in Seq(Chunk) /\ IsInjective(records)
  /\ faiss.ids \in Seq(Chunk) /\ faiss.built \in BOOLEAN

\* However chunks were added, replaced and removed, the statistics BM25 scores with
\* are those of the documents that are there (sparse.py:91-142): no term counts a
\* document that is gone and none is left with a count of zero.
StatisticsAreExact ==
  LET held == UNION {Terms(bm25.documents[c]) : c \in DOMAIN bm25.documents}
  IN  /\ DOMAIN bm25.documentFrequency = held
      /\ \A t \in held : bm25.documentFrequency[t] =
           Cardinality({c \in DOMAIN bm25.documents : t \in Terms(bm25.documents[c])})
      /\ bm25.totalLength =
           Cardinality(UNION {{c} \X DOMAIN bm25.documents[c] : c \in DOMAIN bm25.documents})

Answered == answer # NoAnswer

\* Every chunk that holds a query term and passes the filters is found, how common
\* its terms may be (sparse.py:144-150: the smoothing "keeps terms appearing in most
\* documents from going negative"), and no query divides by an average length of
\* zero or looks a vanished record up (sparse.py:183-185, vector_store.py:224).
SearchFindsEveryMatch ==
  Answered =>
    LET asked == Terms(Tokenize(answer.query))
    IN  /\ ~ answer.failed
        /\ Range(answer.order) = {c \in DOMAIN bm25.documents :
              Matches(c, answer.filters) /\ asked \cap Terms(bm25.documents[c]) # {}}

\* What FAISS gives is the exact result or a beginning of it, and the whole of it
\* as long as no more than nine pools of foreign records crowd the filter out
\* (vector_store.py:166-168 calls the over-fetch "correct if occasionally wasteful").
DenseIsNearest ==
  Answered =>
    LET pool == Candidates(answer.limit)
        exact == ExactSearch(pool, answer.filters)
        foreign == {c \in Range(records) : ~ Matches(c, answer.filters)}
    IN  /\ IsPrefix(answer.dense, exact)
        /\ Cardinality(foreign) <= pool * (OverFetch - 1) => answer.dense = exact

\* Where a chunk stands in a list, past its end when it is not there.
PlaceIn(list, c) == IF RankIn(list, c) = 0 THEN Len(list) + 1 ELSE RankIn(list, c)

\* Fusion is fair: every chunk found is kept once while there is room, one that
\* stands no lower in either list and higher in one comes first, and one that both
\* retrievers found comes before any that a single one found, as far down as rank
\* RRF_K + 2; below that a first place outweighs it (fusion.py:54-56, 80-86).
FusionIsFair ==
  Answered =>
    LET found == Range(answer.dense) \cup Range(answer.sparse)
        Both(c) == RankIn(answer.dense, c) # 0 /\ RankIn(answer.sparse, c) # 0
        Agreed(c) ==
          /\ RankIn(answer.dense, c) \in 1 .. RrfK + 2
          /\ RankIn(answer.sparse, c) \in 1 .. RrfK + 2
        Dominates(a, b) ==
          /\ PlaceIn(answer.dense, a) <= PlaceIn(answer.dense, b)
          /\ PlaceIn(answer.sparse, a) <= PlaceIn(answer.sparse, b)
          /\ PlaceIn(answer.dense, a) + PlaceIn(answer.sparse, a) <
             PlaceIn(answer.dense, b) + PlaceIn(answer.sparse, b)
    IN  /\ Range(answer.fused) \subseteq found /\ IsInjective(answer.fused)
        /\ Len(answer.fused) = Min0(Candidates(answer.limit), Cardinality(found))
        /\ \A a, b \in found :
             /\ Dominates(a, b) \/ (Agreed(a) /\ ~ Both(b))
             /\ RankIn(answer.fused, b) # 0
             => PlaceIn(answer.fused, a) < PlaceIn(answer.fused, b)

\* The answer is the best of the pool by the reranker's scores, never only the best
\* of the first few, and without a reranker the fused order is kept
\* (service.py:33-36, reranker.py:54-70, 156-158).
ResultIsTheBest ==
  Answered =>
    LET chosen == Range(answer.result)
        Rated(c) == answer.score[c]
    IN  /\ Len(answer.result) = Min0(answer.limit, Len(answer.loaded))
        /\ chosen \subseteq Range(answer.loaded) /\ IsInjective(answer.result)
        /\ \A c \in chosen, d \in Range(answer.loaded) :
             \/ c = d \/ Rated(c) > Rated(d)
             \/ Rated(c) = Rated(d) /\ RankIn(answer.fused, c) < RankIn(answer.fused, d)
             \/ d \in chosen /\ RankIn(answer.result, d) < RankIn(answer.result, c)

\* The indexes a search asks answer exactly for what they hold, after any additions,
\* replacements, removals and restarts: the BM25 statistics and matches, and the
\* nearest vectors as far as the over-fetch reaches (sparse.py:91-199,
\* vector_store.py:94-237).
IndexesAnswerExactly ==
  /\ RankingTypeOK
  /\ StatisticsAreExact
  /\ SearchFindsEveryMatch
  /\ DenseIsNearest

\* The way from the two lists to the answer is fair: fusion lets agreement win, and
\* no cut loses a passage that outranks one returned (fusion.py:37-86,
\* service.py:143-201, reranker.py:43-70).
RankingIsFair == FusionIsFair /\ ResultIsTheBest

================================================================================
