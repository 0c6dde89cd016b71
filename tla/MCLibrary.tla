------------------------------- MODULE MCLibrary -------------------------------
(***************************************************************************)
(* The read side of the library on small instances: chunking and           *)
(* references, ranking, experiments and the analyses over them, literature *)
(* reviews, networks, and the benchmark that measures the answers.  These  *)
(* parts share no state, so one run explores their union:                  *)
(* `part` says which of them a behaviour is about, and the others rest.    *)
(***************************************************************************)
EXTENDS Chunking, Ranking, Experiments, LiteratureReview, Networks, Benchmark

CONSTANTS p1, p2, p3, p4, c1, c2, c3, c4, c5

VARIABLE part

-----------------------------------------------------------------------------
(* Chunking.                                                               *)

\* A sentence of n characters: positions that name their place in the document.
Sentence(section, p, s, n) == [k \in 1 .. n |-> <<section, p, s, k>>]

\* A body whose paragraphs have sentences of these lengths.
Body(section, lengths) ==
  [p \in DOMAIN lengths |-> [s \in DOMAIN lengths[p] |-> Sentence(section, p, s, lengths[p][s])]]

Lengths == {1, 3, 9}
Paragraphs == {<<n>> : n \in Lengths} \cup {<<m, n>> : m, n \in Lengths}
Bodies == {<<p>> : p \in Paragraphs} \cup {<<p, q>> : p, q \in Paragraphs}
          \cup {<<<<m>>, p, <<n>>>> : m, n \in Lengths, p \in Paragraphs}

\* One section with any body, or a preamble and up to four headings of any level,
\* with a body or without.
Documents ==
  {[preamble |-> Body(0, lengths), headings |-> <<>>] : lengths \in Bodies}
  \cup {[preamble |-> Body(0, pre),
         headings |-> [i \in DOMAIN shape |->
           [title |-> <<"h1", "h2", "h3", "h4">>[i], level |-> shape[i][1],
            body |-> Body(i, shape[i][2])]]] :
        pre \in {<<>>, <<<<3>>>>},
        shape \in UNION {[1 .. n -> (1 .. 3) \X {<<>>, <<<<1>>>>}] : n \in 1 .. 4}}

OneDocument == [preamble |-> <<>>, headings |-> <<>>]

Texts == UNION {[1 .. n -> {"references", "appendix", "marker", "marker+text", "text", "blank"}] :
                  n \in 0 .. 5}

\* A document to chunk, or a text to search for references.
Inputs == {[document |-> d, lines |-> <<>>] : d \in Documents \cup {OneDocument}}
          \cup {[document |-> OneDocument, lines |-> text] : text \in Texts}

-----------------------------------------------------------------------------
(* Ranking.                                                                *)

Chunks == {c1, c2, c3, c4, c5}
PaperOfChunk == c1 :> p1 @@ c2 :> p1 @@ c3 :> p2 @@ c4 :> p1 @@ c5 :> p1
KindOfChunk == c1 :> "text" @@ c2 :> "table" @@ c3 :> "text" @@ c4 :> "text"
               @@ c5 :> "text"
ChunkTexts == c1 :> {<<"squad">>, <<"the">>} @@ c2 :> {<<"bert", "squad", "the">>}
              @@ c3 :> {<<"bert">>, <<"squad", "bert">>} @@ c4 :> {<<"bert", "bert">>} @@ c5 :> {}
Stopwords == {"the"}
Queries == {<<"squad", "the">>}
Filters == {[k \in {} |-> {}], [k \in {"paper"} |-> {p2}],
            [k \in {"paper", "kind"} |-> IF k = "paper" THEN {p1, p2} ELSE {"text"}]}
Similarities == c1 :> 4 @@ c2 :> 3 @@ c3 :> 1 @@ c4 :> 3 @@ c5 :> 2
\* One chunk has lost its row.
RowSets == {{c1, c2, c3}}
RatingFunctions == {c1 :> 1 @@ c2 :> 1 @@ c3 :> 2 @@ c4 :> 2 @@ c5 :> 0}

\* The nearest vectors are inserted last; the two that are equally near in any order.
FarthestFirst ==
  \A i, j \in DOMAIN records : i < j => Similarities[records[i]] <= Similarities[records[j]]

-----------------------------------------------------------------------------
(* Experiments.                                                            *)

Papers == {p1, p2, p3, p4}
Owners == p1 :> "caller" @@ p2 :> "caller" @@ p3 :> "caller" @@ p4 :> "other"
Keys == "SQuAD" :> "squad" @@ "squad" :> "squad" @@ "GLUE" :> "glue"
Finding(model, dataset, metric, value) ==
  [model |-> model, dataset |-> dataset, metric |-> metric, value |-> value]
ExtractionSets ==
  {{Finding("bert", "SQuAD", "f1", 90), Finding("bert", "squad", "f1", 0), Finding("ours", "GLUE", "loss", 4)},
   {Finding("ours", "GLUE", "loss", 2), Finding("bert", "GLUE", "loss", 5), Finding("ours", NoDataset, "f1", 7)}}
Asks == {<<>>, <<p2, p4, p2, p1>>}
Picks == {[metrics |-> {}, datasets |-> {}], [metrics |-> {"f1"}, datasets |-> {"squad"}]}
Years == p1 :> 2019 @@ p2 :> 2021 @@ p3 :> NoYear @@ p4 :> 2019
Titles == p1 :> "A Survey" @@ p2 :> "Another" @@ p3 :> "A Survey" @@ p4 :> "Foreign"
PaperClaims == p1 :> {"a1", "a2"} @@ p2 :> {"b1"} @@ p3 :> {"c1"} @@ p4 :> {"d1"}
RelatedClaims == {{"a1", "b1"}, {"a2", "b1"}, {"a1", "a2"}, {"b1", "c1"}}
Mentions ==
  {{[paper |-> p1, entity |-> "SQuAD"], [paper |-> p2, entity |-> "SQuAD"],
    [paper |-> p1, entity |-> "BERT"], [paper |-> p4, entity |-> "BERT"]}}

\* One extraction that starts again, or one deletion, in a behaviour.
OneDisturbance ==
  Cardinality({t \in Task : tasks[t].attempt > 1}) + Cardinality(Papers \ present) <= 1

-----------------------------------------------------------------------------
(* Reviews.                                                                *)

ReviewPapers == {p1, p2, p3}
ReviewYears == p1 :> 2019 @@ p2 :> 2021 @@ p3 :> 2019
\* No item, none that is usable among those that are read, two of three, and no list.
OutlineReplies == {<<>>, <<FALSE, FALSE, FALSE, TRUE>>, <<TRUE, FALSE, TRUE>>, Malformed}

-----------------------------------------------------------------------------
(* Networks.                                                               *)

\* Two papers of one title, and a byline that repeats a name.
Titled == p1 :> "t1" @@ p2 :> "t2" @@ p3 :> "t1" @@ p4 :> "t2"
Bylines == p1 :> <<"ada", "alan">> @@ p2 :> <<"alan", "ada", "grace">>
           @@ p3 :> <<"ada", "ada">> @@ p4 :> <<"eve">>
Bibliographies == p1 :> <<>> @@ p2 :> <<"t1", "t1", "unknown">> @@ p3 :> <<"t2", "t1">>
                  @@ p4 :> <<"t1">>
Squad == <<"Dataset", "squad">>
SquadToo == <<"Benchmark", "squad">>
Bert == <<"Model", "bert">>
Builds == p1 :> {{Squad, Bert}} @@ p2 :> {{Squad, SquadToo, Bert}, {Squad}}
          @@ p3 :> {{Bert}, {Squad, SquadToo}} @@ p4 :> {{Squad, Bert}}
\* One paper spells a model in its own way.
Spellings ==
  [p \in Papers |-> (Squad :> "SQuAD" @@ SquadToo :> "SQuAD"
                     @@ Bert :> IF p = p2 THEN "Bert" ELSE "BERT")]
Excludable == {{}, {p1}}

-----------------------------------------------------------------------------
(* The benchmark.                                                          *)

EvalCase(id, truth, refusal, needsModel) ==
  [id |-> id, question |-> {"squad", "score"}, truth |-> truth, refusal |-> refusal,
   needsModel |-> needsModel]
DataSets ==
  LET grounded == EvalCase("grounded", {"bert"}, FALSE, FALSE)
      refused == EvalCase("refused", {}, TRUE, TRUE)
      asked == EvalCase("asked", {}, FALSE, TRUE)
  IN  {<<>>, <<refused>>, <<grounded, refused>>, <<grounded, asked>>, <<grounded, grounded>>}
Sentences == {<<>>, <<{}>>, <<{"squad"}, {"bert", "a", "b", "c"}>>, <<{"a"}>>}
Replies ==
  {[sentences |-> s, cited |-> c, sources |-> found, declines |-> d] :
     s \in Sentences, c \in {{}, {1}, {2, 3}}, d \in BOOLEAN,
     found \in {<<>>, <<{"squad"}>>, <<{"squad"}, {"bert"}>>}}
Gate == [faithfulness |-> 6, precision |-> 3, citations |-> 5]

-----------------------------------------------------------------------------

Init ==
  /\ part \in {"chunking", "ranking", "experiments", "review", "networks", "benchmark"}
  /\ ChunkingInit
  /\ part # "chunking" => document = OneDocument /\ lines = <<>>
  /\ RankingInit
  /\ ExperimentsInit
  /\ ReviewInit
  /\ NetworksInit
  /\ part # "networks" => entityRows = [p \in Corpus |-> CHOOSE e \in Mirrored[p] : TRUE]
  /\ BenchmarkInit
  /\ part # "benchmark" => caseList = <<>> /\ realModel

Next ==
  /\ UNCHANGED part
  /\ \/ /\ part = "chunking" /\ ChunkingNext
        /\ UNCHANGED <<rankingVars, experimentVars, reviewVars, networkVars, benchmarkVars>>
     \/ /\ part = "ranking" /\ RankingNext
        /\ UNCHANGED <<chunkingVars, experimentVars, reviewVars, networkVars, benchmarkVars>>
     \/ /\ part = "experiments" /\ ExperimentsNext
        /\ UNCHANGED <<chunkingVars, rankingVars, reviewVars, networkVars, benchmarkVars>>
     \/ /\ part = "review" /\ ReviewNext
        /\ UNCHANGED <<chunkingVars, rankingVars, experimentVars, networkVars, benchmarkVars>>
     \/ /\ part = "networks" /\ NetworksNext
        /\ UNCHANGED <<chunkingVars, rankingVars, experimentVars, reviewVars, benchmarkVars>>
     \/ /\ part = "benchmark" /\ BenchmarkNext
        /\ UNCHANGED <<chunkingVars, rankingVars, experimentVars, reviewVars, networkVars>>

Spec == Init /\ [][Next]_<<part, chunkingVars, rankingVars, experimentVars,
                          reviewVars, networkVars, benchmarkVars>>
================================================================================
