------------------------------- MODULE Benchmark -------------------------------
(***************************************************************************)
(* The evaluation harness: a benchmark asks its cases one after the other, *)
(* scores every answer against the passages it was given, and ends in the  *)
(* boolean the continuous integration goes by (eval/runner.py, metrics.py, *)
(* dataset.py, scripts/run_benchmark.py).                                   *)
(*                                                                         *)
(* A text is the set of content words tokenize leaves of it, an answer a   *)
(* sequence of such sentences with the numbers it cites; scores are exact  *)
(* fractions.  answer_question is any answer, or an error.                 *)
(***************************************************************************)
EXTENDS Integers, FiniteSetsExt, SequencesExt

CONSTANTS
  Cases,        \* the data sets: sequences of [id, question, truth, refusal, needsModel]
  Answers,      \* what answer_question may return: [sentences, cited, sources, declines]
  Threshold,    \* [faithfulness, precision, citations], in tenths
  StricterBy    \* by how much a second gate is stricter, in tenths

ASSUME BenchmarkAssumption ==
  /\ StricterBy \in Nat
  /\ Threshold \in [{"faithfulness", "precision", "citations"} -> 0 .. 10]
  /\ \A cases \in Cases :
       /\ cases \in Seq(ToSet(cases))
       /\ \A case \in ToSet(cases) : IsFiniteSet(case.question) /\ IsFiniteSet(case.truth)
  /\ \A answer \in Answers :
       /\ IsFiniteSet(answer.cited)
       /\ \A texts \in {answer.sentences, answer.sources} :
            texts \in Seq(ToSet(texts)) /\ \A text \in ToSet(texts) : IsFiniteSet(text)

VARIABLES
  caseList,   \* the cases load_cases returned
  realModel,  \* the primary provider is not the echo
  report      \* results so far, one per case

benchmarkVars == <<caseList, realModel, report>>

-----------------------------------------------------------------------------
(* The metrics.                                                            *)

Ratio(part, whole) == [part |-> part, whole |-> whole]
Zero == Ratio(0, 1)
One  == Ratio(1, 1)
AtLeast(ratio, tenths) == 10 * ratio.part >= tenths * ratio.whole

\* _overlap, against SUPPORT_THRESHOLD: a claim without content words is supported.
Supported(claim, evidence) ==
  claim = {} \/ 10 * Cardinality(claim \cap evidence) >= 3 * Cardinality(claim)

Evidence(answer) == UNION ToSet(answer.sources)

Faithfulness(answer) ==
  IF answer.sentences = <<>> \/ answer.sources = <<>> THEN Zero
  ELSE Ratio(Cardinality({i \in DOMAIN answer.sentences :
                            Supported(answer.sentences[i], Evidence(answer))}),
             Len(answer.sentences))

\* context_precision: a passage that overlaps the question or the expected answer.
Precision(case, answer) ==
  IF answer.sources = <<>> THEN Zero
  ELSE Ratio(Cardinality({i \in DOMAIN answer.sources :
                            \/ Supported(case.question, answer.sources[i])
                            \/ case.truth # {} /\ Supported(case.truth, answer.sources[i])}),
             Len(answer.sources))

Recall(case, answer) ==
  IF case.truth = {} THEN One
  ELSE Ratio(Cardinality(case.truth \cap Evidence(answer)), Cardinality(case.truth))

Relevancy(case, answer) ==
  IF case.question = {} THEN Zero
  ELSE Ratio(Cardinality(case.question \cap UNION ToSet(answer.sentences)),
             Cardinality(case.question))

(* Mutant: as many markers as there are sources are valid, whichever they are. *)
CitationValidity_ByCount(answer) ==
  IF answer.cited = {} THEN Zero
  ELSE Ratio(Min({Len(answer.sources), Cardinality(answer.cited)}), Cardinality(answer.cited))

\* citation_validity: the distinct markers that name a source, of all markers.
CitationValidity(answer) ==
  IF answer.cited = {} THEN Zero
  ELSE Ratio(Cardinality(answer.cited \cap DOMAIN answer.sources), Cardinality(answer.cited))

ScoreCase(case, answer) ==
  [faithfulness |-> Faithfulness(answer), precision |-> Precision(case, answer),
   recall |-> Recall(case, answer), relevancy |-> Relevancy(case, answer),
   citations |-> CitationValidity(answer)]

NoScores == [k \in {"faithfulness", "precision", "recall", "relevancy", "citations"} |-> Zero]

-----------------------------------------------------------------------------
(* The gate.                                                               *)

(* Mutant: a case that expects a refusal is graded like the others. *)
Failures_NoRefusals(case, refused, scores, threshold) ==
  (IF refused THEN {"refused"} ELSE {})
  \cup {k \in DOMAIN threshold : ~AtLeast(scores[k], threshold[k])}

\* _evaluate: a case that expects a refusal asks for nothing else.
Failures(case, refused, scores, threshold) ==
  IF case.refusal THEN IF refused THEN {} ELSE {"answered"}
  ELSE (IF refused THEN {"refused"} ELSE {})
       \cup {k \in DOMAIN threshold : ~AtLeast(scores[k], threshold[k])}

\* run_case.
Evaluated(case, answer) ==
  LET scores == ScoreCase(case, answer)
      refused == answer.declines \/ answer.sources = <<>>
  IN  [case |-> case, answer |-> answer, scores |-> scores, refused |-> refused,
       skipped |-> FALSE, passed |-> Failures(case, refused, scores, Threshold) = {}]

NoReply == [sentences |-> <<>>, cited |-> {}, sources |-> <<>>, declines |-> FALSE]

Skipped(case) ==
  [case |-> case, answer |-> NoReply, scores |-> NoScores, refused |-> FALSE,
   skipped |-> TRUE, passed |-> TRUE]

(* Mutant: a case that raised is set aside. *)
Errored_Skipped(case) == Skipped(case)

Errored(case) ==
  [case |-> case, answer |-> NoReply, scores |-> NoScores, refused |-> FALSE,
   skipped |-> FALSE, passed |-> FALSE]

Graded(results) == {i \in DOMAIN results : ~results[i].skipped}

(* Mutant: what was not graded has not failed. *)
GatePassed_Vacuously(results) == \A i \in DOMAIN results : results[i].passed

\* EvalReport.passed, the exit status of the script.
GatePassed(results) ==
  Graded(results) # {} /\ \A i \in Graded(results) : results[i].passed

Case == caseList[Len(report) + 1]

\* One round of the loop of run_benchmark.
SkipCase ==
  /\ Len(report) < Len(caseList)
  /\ Case.needsModel /\ ~realModel
  /\ report' = Append(report, Skipped(Case))
  /\ UNCHANGED <<caseList, realModel>>

RunCase(answer) ==
  /\ Len(report) < Len(caseList)
  /\ ~Case.needsModel \/ realModel
  /\ report' = Append(report, Evaluated(Case, answer))
  /\ UNCHANGED <<caseList, realModel>>

CaseRaises ==
  /\ Len(report) < Len(caseList)
  /\ ~Case.needsModel \/ realModel
  /\ report' = Append(report, Errored(Case))
  /\ UNCHANGED <<caseList, realModel>>

BenchmarkInit ==
  /\ caseList \in {d \in Cases : \A i, j \in DOMAIN d : d[i].id = d[j].id => i = j}
  /\ realModel \in BOOLEAN
  /\ report = <<>>

BenchmarkNext ==
  \/ SkipCase
  \/ \E answer \in Answers : RunCase(answer)
  \/ CaseRaises

BenchmarkSpec == BenchmarkInit /\ [][BenchmarkNext]_benchmarkVars

-----------------------------------------------------------------------------

\* The gate means what the build trusts it for.  When it is open, some case was
\* really asked, every case that was asked came back, every answer that was wanted
\* has sources, and any answer that fabricates throughout or cites no source at all
\* is caught where the threshold is not zero.  A stricter gate opens for no report
\* the laxer one rejects, and every score is a share of something
\* (runner.py:88-103, 173-205, 278-306, metrics.py:99-194).
GateIsHonest ==
  LET strict == [k \in DOMAIN Threshold |-> Threshold[k] + StricterBy]
      PassesStrictly(r) == Failures(r.case, r.refused, r.scores, strict) = {}
  IN  /\ \A i \in DOMAIN report : \A k \in DOMAIN report[i].scores :
           LET s == report[i].scores[k] IN s.whole > 0 /\ s.part \in 0 .. s.whole
      /\ Len(report) = Len(caseList) /\ GatePassed(report) =>
           /\ realModel \/ \E i \in DOMAIN caseList : ~caseList[i].needsModel
           /\ \A i \in DOMAIN caseList : caseList[i].needsModel /\ realModel => ~report[i].skipped
           /\ \A i \in Graded(report) :
                LET r == report[i]
                    invented == \A s \in ToSet(r.answer.sentences) :
                                  s # {} /\ s \cap Evidence(r.answer) = {}
                    miscited == r.answer.cited \cap DOMAIN r.answer.sources = {}
                IN  IF r.case.refusal THEN r.answer.declines \/ r.answer.sources = <<>>
                    ELSE /\ r.answer # NoReply /\ r.answer.sources # <<>>
                         /\ Threshold.faithfulness > 0 => ~invented
                         /\ Threshold.citations > 0 => ~miscited
      /\ \A i \in Graded(report) :
           report[i].answer # NoReply /\ PassesStrictly(report[i]) => report[i].passed

================================================================================
