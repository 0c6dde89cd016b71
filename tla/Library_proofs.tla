----------------------------- MODULE Library_proofs -----------------------------
(***************************************************************************)
(* What holds of the read side of the library for every instance: reviews, *)
(* the gate of the benchmark, the rows of the experiments and the reports  *)
(* made of them, the networks and expansions of the corpus, and the graph  *)
(* of agents that answers out of all of it.                                *)
(***************************************************************************)
EXTENDS Experiments, LiteratureReview, Networks, Benchmark, ResearchGraph, Recursion_proofs

-----------------------------------------------------------------------------
(* Reviews.                                                                *)

Stages == {"retrieving", "writing", "done", "raised"}

SectionState == [stage : Stages, passages : SUBSET Shelf, cited : SUBSET Nat]

ReviewTyped ==
  /\ onShelf \subseteq Shelf
  /\ sources \in Seq(Shelf)
  /\ sections \in Seq(SectionState)
  /\ outlined \in [reply : Seq(BOOLEAN) \cup {Malformed}, most : Nat]
  /\ phase \in {"loading", "planning", "drafting", "answered", "empty", "failed"}
  /\ outages \in Nat

\* A section stands for a heading of the outline: there is none before the outline or
\* when it raised, and from one to as many as the request asked for after it.
SectionsFollowOutline ==
  /\ sections = <<>> <=> (phase \in {"loading", "planning", "empty"} \/ outlined.reply = Malformed)
  /\ outlined.reply = Malformed => phase = "failed"
  /\ Len(sections) <= outlined.most

\* A section cites nothing before its text is there.
CitesWhenDone == \A i \in DOMAIN sections :
  sections[i].stage \in {"retrieving", "writing", "raised"} => sections[i].cited = {}

\* The inductive invariant of the reviews.
ReviewInv ==
  ReviewTyped /\ SectionsFollowOutline /\ CitesWhenDone /\ ReviewIsSound


LEMMA PlannedIsPositive ==
  ASSUME ReviewAssumption, NEW outline \in Outlines \ {Malformed}, NEW most \in MaxSections
  PROVE  Planned(outline, most) \in 1 .. most
<1> DEFINE U == Usable(outline)
<1>1. outline \in Seq(BOOLEAN) /\ most \in Nat \ {0} /\ DefaultSections \in Nat \ {0}
  BY DEF ReviewAssumption
<1>2. DOMAIN outline = 1 .. Len(outline) /\ Len(outline) \in Nat
  BY <1>1
<1>3. IsFiniteSet(1 .. Len(outline))
  BY <1>2, FS_Interval
<1>4. IsFiniteSet(U)
  BY <1>2, <1>3, FS_Subset DEF Usable
<1>5. Cardinality(U) \in Nat /\ (U # {} => Cardinality(U) # 0)
  BY <1>4, FS_CardinalityType, FS_EmptySet
<1>6. QED
  BY <1>1, <1>5 DEF Planned, Smallest

LEMMA ReviewInitially == ASSUME ReviewAssumption, ReviewInit PROVE ReviewInv
<1>1. outlined = [reply |-> <<>>, most |-> 0] /\ sections = <<>> /\ phase = "loading"
  BY DEF ReviewInit
<1>2. <<>> \in Seq(BOOLEAN) /\ Malformed \notin Seq(BOOLEAN)
  BY DEF ReviewAssumption
<1>3. outlined.reply # Malformed /\ outlined \in [reply : Seq(BOOLEAN) \cup {Malformed}, most : Nat]
  BY <1>1, <1>2
<1>4. ReviewTyped
  BY <1>1, <1>3 DEF ReviewInit, ReviewTyped
<1>5. QED
  BY <1>1, <1>3, <1>4
     DEF ReviewInv, SectionsFollowOutline, CitesWhenDone, ReviewIsSound,
         MarkersMeanOnePaper, ReviewIsWhole, FailsForTwoReasons

LEMMA LoadSourcesKeeps ==
  ASSUME ReviewAssumption, ReviewInv, NEW papers \in SUBSET onShelf,
         NEW loaded \in SetToSeqs(papers), LoadSources(loaded)
  PROVE  ReviewInv'
<1>1. IsFiniteSet(papers)
  BY FS_Subset DEF ReviewAssumption, ReviewInv, ReviewTyped
<1>2. Cardinality(papers) \in Nat
  BY <1>1, FS_CardinalityType
<1>3. loaded \in [1 .. Cardinality(papers) -> papers]
  BY DEF SetToSeqs
<1>4. loaded \in Seq(Shelf)
  BY <1>2, <1>3 DEF ReviewInv, ReviewTyped
<1>5. phase = "loading" /\ sections = <<>> /\ sections' = <<>>
  BY DEF LoadSources, ReviewInv, SectionsFollowOutline
<1>6. ReviewTyped'
  BY <1>4 DEF ReviewInv, ReviewTyped, LoadSources
<1>7. phase' \in {"empty", "planning"} /\ outlined' = outlined
  BY DEF LoadSources
<1>8. outlined.reply # Malformed /\ Len(sections') <= outlined.most
  BY <1>5 DEF ReviewInv, SectionsFollowOutline
<1>9. QED
  BY <1>5, <1>6, <1>7, <1>8
     DEF ReviewInv, SectionsFollowOutline, CitesWhenDone, ReviewIsSound,
         MarkersMeanOnePaper, ReviewIsWhole, FailsForTwoReasons

LEMMA PlanOutlineKeeps ==
  ASSUME ReviewAssumption, ReviewInv, NEW outline \in Outlines, NEW most \in MaxSections,
         PlanOutline(outline, most)
  PROVE  ReviewInv'
<1> DEFINE n == Planned(outline, most)
<1>0. outline \in Outlines \ {Malformed} /\ outline \in Seq(BOOLEAN) /\ most \in Nat
  BY DEF PlanOutline, ReviewAssumption
<1>1. n \in 1 .. most
  BY <1>0, PlannedIsPositive
<1>2. sections' = [i \in 1 .. n |-> NewSection]
  BY DEF PlanOutline
<1> HIDE DEF n
<1>3. NewSection \in SectionState /\ NewSection.cited = {} /\ NewSection.stage = "retrieving"
  BY DEF NewSection, SectionState, Stages
<1>4. DOMAIN sections' = 1 .. n /\ sections' \in Seq(SectionState) /\ sections' # <<>>
        /\ Len(sections') = n
  BY <1>0, <1>1, <1>2, <1>3
<1>5. \A i \in DOMAIN sections' : sections'[i] = NewSection
  BY <1>2, <1>4
<1>6. phase' = "drafting"
  BY <1>4 DEF PlanOutline
<1>7. ReviewTyped'
  BY <1>0, <1>4, <1>6 DEF ReviewInv, ReviewTyped, PlanOutline
<1>8. outlined'.reply # Malformed /\ outlined'.most = most
  BY <1>0 DEF PlanOutline
<1>9. QED
  BY <1>0, <1>1, <1>3, <1>4, <1>5, <1>6, <1>7, <1>8
     DEF ReviewInv, SectionsFollowOutline, CitesWhenDone, ReviewIsSound,
         MarkersMeanOnePaper, ReviewIsWhole, FailsForTwoReasons

LEMMA OutlineRaisesKeeps ==
  ASSUME ReviewAssumption, ReviewInv, NEW most \in MaxSections, OutlineRaises(most)
  PROVE  ReviewInv'
<1>1. most \in Nat /\ outlined' = [reply |-> Malformed, most |-> most]
  BY DEF OutlineRaises, ReviewAssumption
<1>2. phase = "planning" /\ sections = <<>> /\ sections' = <<>> /\ phase' = "failed"
  BY DEF OutlineRaises, ReviewInv, SectionsFollowOutline
<1>3. ReviewTyped'
  BY <1>1, <1>2 DEF ReviewInv, ReviewTyped, OutlineRaises
<1>4. QED
  BY <1>1, <1>2, <1>3
     DEF ReviewInv, SectionsFollowOutline, CitesWhenDone, ReviewIsSound,
         MarkersMeanOnePaper, ReviewIsWhole, FailsForTwoReasons

\* What every step of one section has in common: it replaces that section, keeps the
\* numbering, and ends the review as the gather does.
LEMMA SectionStepKeeps ==
  ASSUME ReviewInv, NEW i \in DOMAIN sections, NEW after \in SectionState,
         sections' = [sections EXCEPT ![i] = after],
         sections[i].stage \in {"retrieving", "writing"},
         after.stage # "done" => after.cited = {},
         \A n \in after.cited : n \in DOMAIN sources /\ sources[n] \in after.passages,
         IF after.stage = "raised" THEN phase' = "failed" ELSE phase' = Gathered(sections'),
         UNCHANGED <<onShelf, sources, outlined>>, outages' \in Nat
  PROVE  ReviewInv'
<1>1. sections \in Seq(SectionState) /\ sections' \in Seq(SectionState)
  BY DEF ReviewInv, ReviewTyped
<1>2. /\ DOMAIN sections' = DOMAIN sections /\ sections # <<>> /\ sections' # <<>>
      /\ Len(sections') = Len(sections) /\ Len(sections) \in Nat \ {0}
  BY <1>1
<1>3. sections'[i] = after /\ \A j \in DOMAIN sections : j # i => sections'[j] = sections[j]
  BY <1>1
<1>4. /\ phase \in {"drafting", "answered", "failed"} /\ outlined.reply # Malformed
      /\ Len(sections) <= outlined.most /\ outlined.most \in Nat
  BY <1>2 DEF ReviewInv, ReviewTyped, SectionsFollowOutline
<1>5. phase # "answered"
  BY DEF ReviewInv, ReviewIsSound, ReviewIsWhole
<1>6. phase' \in {"drafting", "answered", "failed"}
  BY <1>4 DEF Gathered
<1>7. ReviewTyped'
  BY <1>1, <1>6 DEF ReviewInv, ReviewTyped
<1>8. SectionsFollowOutline'
  BY <1>2, <1>4, <1>6 DEF SectionsFollowOutline
<1>9. CitesWhenDone'
  BY <1>2, <1>3 DEF ReviewInv, CitesWhenDone
<1>10. MarkersMeanOnePaper'
  BY <1>2, <1>3 DEF ReviewInv, ReviewIsSound, MarkersMeanOnePaper
<1>11. ReviewIsWhole'
  BY <1>2, <1>4, <1>5 DEF Gathered, ReviewIsWhole
<1>12. FailsForTwoReasons'
  <2>1. phase = "failed" <=> \E j \in DOMAIN sections : sections[j].stage = "raised"
    BY <1>4 DEF ReviewInv, ReviewIsSound, FailsForTwoReasons
  <2>2. CASE after.stage = "raised"
    BY <1>2, <1>3, <1>4, <2>2 DEF FailsForTwoReasons
  <2>3. CASE after.stage # "raised"
    <3>1. phase' = "failed" <=> phase = "failed"
      BY <2>3, <1>4 DEF Gathered
    <3>2. (\E j \in DOMAIN sections' : sections'[j].stage = "raised")
            <=> \E j \in DOMAIN sections : sections[j].stage = "raised"
      BY <2>3, <1>2, <1>3
    <3>3. QED
      BY <1>4, <2>1, <3>1, <3>2 DEF FailsForTwoReasons
  <2>4. QED
    BY <2>2, <2>3
<1>13. QED
  BY <1>7, <1>8, <1>9, <1>10, <1>11, <1>12 DEF ReviewInv, ReviewIsSound


LEMMA RetrieveForKeeps ==
  ASSUME ReviewInv, NEW i \in DOMAIN sections, NEW passages \in SUBSET Shelf,
         RetrieveFor(i, passages)
  PROVE  ReviewInv'
<1> DEFINE stage == IF passages = {} THEN "done" ELSE "writing"
           after == [sections[i] EXCEPT !.stage = stage, !.passages = passages]
<1>1. stage \in {"done", "writing"}
  OBVIOUS
<1>2. /\ sections' = [sections EXCEPT ![i].stage = stage, ![i].passages = passages]
      /\ sections[i].stage = "retrieving" /\ phase' = Gathered(sections')
      /\ UNCHANGED <<onShelf, sources, outlined, outages>>
  BY Zenon DEF RetrieveFor
<1> HIDE DEF stage
<1>3. sections \in Seq(SectionState) /\ sections[i] \in SectionState
  BY DEF ReviewInv, ReviewTyped
<1>4. sections[i].stage = "retrieving" /\ sections[i].cited = {}
  BY <1>2 DEF ReviewInv, CitesWhenDone
<1>5. after \in SectionState /\ after.cited = {} /\ after.stage \in {"done", "writing"}
  BY <1>1, <1>3, <1>4 DEF SectionState, Stages
<1>6. sections' = [sections EXCEPT ![i] = after]
  BY <1>3, <1>2
<1>7. phase' = Gathered(sections') /\ UNCHANGED <<onShelf, sources, outlined, outages>> /\ outages' \in Nat
  BY <1>2 DEF ReviewInv, ReviewTyped
<1> HIDE DEF after
<1>8. QED
  BY <1>4, <1>5, <1>6, <1>7, SectionStepKeeps

LEMMA RetrievalRaisesKeeps ==
  ASSUME ReviewAssumption, ReviewInv, NEW i \in DOMAIN sections, RetrievalRaises(i)
  PROVE  ReviewInv'
<1> DEFINE after == [sections[i] EXCEPT !.stage = "raised"]
<1>1. sections \in Seq(SectionState) /\ sections[i] \in SectionState
  BY DEF ReviewInv, ReviewTyped
<1>2. sections[i].stage = "retrieving" /\ sections[i].cited = {}
  BY DEF RetrievalRaises, ReviewInv, CitesWhenDone
<1>3. after \in SectionState /\ after.cited = {} /\ after.stage = "raised"
  BY <1>1, <1>2 DEF SectionState, Stages
<1>4. sections' = [sections EXCEPT ![i] = after]
  BY <1>1 DEF RetrievalRaises
<1>5. phase' = "failed" /\ UNCHANGED <<onShelf, sources, outlined>> /\ outages' \in Nat
  BY DEF RetrievalRaises, ReviewInv, ReviewTyped
<1> HIDE DEF after
<1>6. QED
  BY <1>2, <1>3, <1>4, <1>5, SectionStepKeeps

\* Whatever markers a text holds, those that are kept name papers of the section.
LEMMA KeptMarkersResolve ==
  ASSUME NEW markers, NEW passages, NEW n \in ResolveCitations(markers, passages)
  PROVE  n \in DOMAIN sources /\ sources[n] \in passages
<1>1. PICK p \in passages \cap Range(sources) : n = NumberOf(p)
  BY DEF ResolveCitations, Available
<1>2. sources[NumberOf(p)] = p
  BY DEF NumberOf, Range
<1>3. QED
  BY <1>1, <1>2 DEF ResolveCitations

LEMMA DraftKeeps ==
  ASSUME ReviewInv, NEW i \in DOMAIN sections,
         NEW markers \in SUBSET (1 .. Len(sources) + 1), Draft(i, markers)
  PROVE  ReviewInv'
<1> DEFINE cites == ResolveCitations(markers, sections[i].passages)
           after == [sections[i] EXCEPT !.stage = "done", !.cited = cites]
<1>1. sections \in Seq(SectionState) /\ sections[i] \in SectionState
  BY DEF ReviewInv, ReviewTyped
<1>2. sections[i].stage = "writing"
  BY DEF Draft
<1>3. cites \in SUBSET Nat
  <2>1. sources \in Seq(Shelf)
    BY DEF ReviewInv, ReviewTyped
  <2>2. cites \subseteq markers /\ markers \subseteq Nat
    BY <2>1 DEF ResolveCitations
  <2>3. QED
    BY <2>2
<1>4. \A n \in cites : n \in DOMAIN sources /\ sources[n] \in sections[i].passages
  BY KeptMarkersResolve
<1>5. sections' = [sections EXCEPT ![i] = after]
  BY <1>1 DEF Draft
<1> HIDE DEF cites
<1>6. after \in SectionState /\ after.cited = cites /\ after.stage = "done"
        /\ after.passages = sections[i].passages
  BY <1>1, <1>3 DEF SectionState, Stages
<1>7. phase' = Gathered(sections') /\ UNCHANGED <<onShelf, sources, outlined, outages>> /\ outages' \in Nat
  BY DEF Draft, ReviewInv, ReviewTyped
<1> HIDE DEF after
<1>8. QED
  BY <1>2, <1>4, <1>5, <1>6, <1>7, SectionStepKeeps

LEMMA DraftFailsKeeps ==
  ASSUME ReviewInv, NEW i \in DOMAIN sections, DraftFails(i)
  PROVE  ReviewInv'
<1> DEFINE after == [sections[i] EXCEPT !.stage = "done"]
<1>1. sections \in Seq(SectionState) /\ sections[i] \in SectionState
  BY DEF ReviewInv, ReviewTyped
<1>2. sections[i].stage = "writing" /\ sections[i].cited = {}
  BY DEF DraftFails, ReviewInv, CitesWhenDone
<1>3. after \in SectionState /\ after.cited = {} /\ after.stage = "done"
  BY <1>1, <1>2 DEF SectionState, Stages
<1>4. sections' = [sections EXCEPT ![i] = after]
  BY <1>1 DEF DraftFails
<1>5. phase' = Gathered(sections') /\ UNCHANGED <<onShelf, sources, outlined>> /\ outages' \in Nat
  BY DEF DraftFails, ReviewInv, ReviewTyped
<1> HIDE DEF after
<1>6. QED
  BY <1>2, <1>3, <1>4, <1>5, SectionStepKeeps

LEMMA LosePaperKeeps == ASSUME ReviewInv, NEW p \in Shelf, LosePaper(p) PROVE ReviewInv'
BY DEF LosePaper, ReviewInv, ReviewTyped, SectionsFollowOutline, CitesWhenDone, ReviewIsSound,
       MarkersMeanOnePaper, ReviewIsWhole, FailsForTwoReasons

LEMMA ReviewIdles == ASSUME ReviewInv, UNCHANGED reviewVars PROVE ReviewInv'
BY DEF reviewVars, ReviewInv, ReviewTyped, SectionsFollowOutline, CitesWhenDone, ReviewIsSound,
       MarkersMeanOnePaper, ReviewIsWhole, FailsForTwoReasons

LEMMA ReviewStepKeeps ==
  ASSUME ReviewAssumption, ReviewInv, [ReviewNext]_reviewVars
  PROVE  ReviewInv'
<1>1. CASE \E papers \in SUBSET onShelf : \E loaded \in SetToSeqs(papers) : LoadSources(loaded)
  BY <1>1, ReviewAssumption, LoadSourcesKeeps
<1>2. CASE \E outline \in Outlines, most \in MaxSections : PlanOutline(outline, most)
  BY <1>2, ReviewAssumption, PlanOutlineKeeps
<1>3. CASE \E most \in MaxSections : OutlineRaises(most)
  BY <1>3, ReviewAssumption, OutlineRaisesKeeps
<1>4. CASE \E i \in DOMAIN sections : \E passages \in SUBSET Shelf : RetrieveFor(i, passages)
  BY <1>4, RetrieveForKeeps
<1>5. CASE \E i \in DOMAIN sections : RetrievalRaises(i)
  BY <1>5, ReviewAssumption, RetrievalRaisesKeeps
<1>6. CASE \E i \in DOMAIN sections :
             \E markers \in SUBSET (1 .. Len(sources) + 1) : Draft(i, markers)
  BY <1>6, DraftKeeps
<1>7. CASE \E i \in DOMAIN sections : DraftFails(i)
  BY <1>7, DraftFailsKeeps
<1>8. CASE \E p \in Shelf : LosePaper(p)
  BY <1>8, LosePaperKeeps
<1>9. CASE UNCHANGED reviewVars
  BY <1>9, ReviewIdles
<1>10. QED
  BY <1>1, <1>2, <1>4, <1>5, <1>6, <1>7, <1>8, <1>9, <1>3 DEF ReviewNext

\* However many sections are drafted at once, whatever the model writes, and whatever is
\* deleted meanwhile: a marker that is kept resolves to a paper among its section's own
\* passages, an answered review is whole, and only a retrieval that raises or a malformed
\* outline keeps one from being answered.
THEOREM ReviewsStaySound == ReviewSpec => []ReviewIsSound
<1>1. ReviewInit => ReviewInv
  BY ReviewAssumption, ReviewInitially
<1>2. ReviewInv /\ [ReviewNext]_reviewVars => ReviewInv'
  BY ReviewAssumption, ReviewStepKeeps
<1>3. ReviewInv => ReviewIsSound
  BY DEF ReviewInv
<1>4. QED
  BY <1>1, <1>2, <1>3, PTL DEF ReviewSpec

-----------------------------------------------------------------------------
(* The benchmark.                                                          *)

\* What one round of the loop leaves: a case set aside because it needs a model there
\* is not, an answer with its scores, or an error.
IsResultOf(result, case) ==
  \/ result = Skipped(case) /\ case.needsModel /\ ~realModel
  \/ /\ \E answer \in Answers : result = Evaluated(case, answer)
     /\ ~case.needsModel \/ realModel
  \/ result = Errored(case)

\* The inductive invariant of the benchmark: result by result, the report is about the
\* cases that were loaded, in their order.
BenchmarkInv ==
  /\ caseList \in Cases
  /\ Len(report) \in Nat /\ DOMAIN report = 1 .. Len(report)
  /\ report \in Seq(ToSet(report))
  /\ Len(report) <= Len(caseList)
  /\ \A i \in DOMAIN report : IsResultOf(report[i], caseList[i])

LEMMA RatioOfSubset ==
  ASSUME NEW S, NEW T, IsFiniteSet(S), T \subseteq S, S # {}
  PROVE  LET s == Ratio(Cardinality(T), Cardinality(S)) IN s.whole > 0 /\ s.part \in 0 .. s.whole
<1>1. Cardinality(S) \in Nat /\ Cardinality(S) # 0
  BY FS_CardinalityType, FS_EmptySet
<1>2. Cardinality(T) \in Nat /\ Cardinality(T) <= Cardinality(S)
  BY FS_Subset, FS_CardinalityType
<1>3. QED
  BY <1>1, <1>2 DEF Ratio

LEMMA RatioOfPositions ==
  ASSUME NEW q, q \in Seq(ToSet(q)), q # <<>>, NEW T \in SUBSET DOMAIN q
  PROVE  LET s == Ratio(Cardinality(T), Len(q)) IN s.whole > 0 /\ s.part \in 0 .. s.whole
<1>1. DOMAIN q = 1 .. Len(q) /\ Len(q) \in Nat /\ Len(q) # 0
  OBVIOUS
<1>2. IsFiniteSet(1 .. Len(q)) /\ Cardinality(1 .. Len(q)) = Len(q)
  BY <1>1, FS_Interval
<1>3. Cardinality(T) \in Nat /\ Cardinality(T) <= Len(q)
  BY <1>1, <1>2, FS_Subset, FS_CardinalityType
<1>4. QED
  BY <1>1, <1>3 DEF Ratio

Share(s) == s.whole \in Nat /\ s.whole > 0 /\ s.part \in 0 .. s.whole

LEMMA ZeroIsShare == Share(Zero) /\ Share(One)
BY DEF Share, Zero, One, Ratio

\* Every score of an answer is a share of something.
LEMMA ScoresAreShares ==
  ASSUME BenchmarkAssumption, NEW cases \in Cases, NEW case \in ToSet(cases),
         NEW answer \in Answers
  PROVE  /\ Share(Faithfulness(answer))
         /\ Share(Precision(case, answer))
         /\ Share(Recall(case, answer))
         /\ Share(Relevancy(case, answer))
         /\ Share(CitationValidity(answer))
<1>1. /\ IsFiniteSet(case.question) /\ IsFiniteSet(case.truth) /\ IsFiniteSet(answer.cited)
      /\ answer.sentences \in Seq(ToSet(answer.sentences))
      /\ answer.sources \in Seq(ToSet(answer.sources))
  BY DEF BenchmarkAssumption
<1>2. Share(Faithfulness(answer))
  <2>1. CASE answer.sentences = <<>> \/ answer.sources = <<>>
    BY <2>1, ZeroIsShare DEF Faithfulness
  <2>2. CASE ~(answer.sentences = <<>> \/ answer.sources = <<>>)
    <3> DEFINE T == {i \in DOMAIN answer.sentences :
                       Supported(answer.sentences[i], Evidence(answer))}
    <3>1. Faithfulness(answer) = Ratio(Cardinality(T), Len(answer.sentences))
      BY <2>2 DEF Faithfulness
    <3>2. T \in SUBSET DOMAIN answer.sentences
      OBVIOUS
    <3> HIDE DEF T
    <3>3. Len(answer.sentences) \in Nat
      BY <1>1
    <3>4. QED
      BY <1>1, <2>2, <3>1, <3>2, <3>3, RatioOfPositions DEF Share, Ratio
  <2>3. QED
    BY <2>1, <2>2
<1>3. Share(Precision(case, answer))
  <2>1. CASE answer.sources = <<>>
    BY <2>1, ZeroIsShare DEF Precision
  <2>2. CASE answer.sources # <<>>
    <3> DEFINE T == {i \in DOMAIN answer.sources :
                       \/ Supported(case.question, answer.sources[i])
                       \/ case.truth # {} /\ Supported(case.truth, answer.sources[i])}
    <3>1. Precision(case, answer) = Ratio(Cardinality(T), Len(answer.sources))
      BY <2>2 DEF Precision
    <3>2. T \in SUBSET DOMAIN answer.sources
      OBVIOUS
    <3> HIDE DEF T
    <3>3. Len(answer.sources) \in Nat
      BY <1>1
    <3>4. QED
      BY <1>1, <2>2, <3>1, <3>2, <3>3, RatioOfPositions DEF Share, Ratio
  <2>3. QED
    BY <2>1, <2>2
<1>4. \A S, T : IsFiniteSet(S) /\ S # {} /\ T \subseteq S => Share(Ratio(Cardinality(T), Cardinality(S)))
  <2> SUFFICES ASSUME NEW S, NEW T, IsFiniteSet(S), S # {}, T \subseteq S
               PROVE  Share(Ratio(Cardinality(T), Cardinality(S)))
    OBVIOUS
  <2>1. Cardinality(S) \in Nat
    BY FS_CardinalityType
  <2>2. QED
    BY <2>1, RatioOfSubset DEF Share, Ratio
<1>5. Share(Recall(case, answer))
  <2>1. case.truth \cap Evidence(answer) \subseteq case.truth
    OBVIOUS
  <2>2. QED
    BY <1>1, <1>4, <2>1, ZeroIsShare DEF Recall
<1>6. Share(Relevancy(case, answer))
  <2>1. case.question \cap UNION ToSet(answer.sentences) \subseteq case.question
    OBVIOUS
  <2>2. QED
    BY <1>1, <1>4, <2>1, ZeroIsShare DEF Relevancy
<1>7. Share(CitationValidity(answer))
  <2>1. answer.cited \cap DOMAIN answer.sources \subseteq answer.cited
    OBVIOUS
  <2>2. QED
    BY <1>1, <1>4, <2>1, ZeroIsShare DEF CitationValidity
<1>8. QED
  BY <1>2, <1>3, <1>5, <1>6, <1>7

Score == {"faithfulness", "precision", "recall", "relevancy", "citations"}

LEMMA ResultsHaveShares ==
  ASSUME BenchmarkAssumption, NEW cases \in Cases, NEW case \in ToSet(cases),
         NEW result, IsResultOf(result, case)
  PROVE  \A k \in DOMAIN result.scores : Share(result.scores[k])
<1>1. \A k \in DOMAIN NoScores : Share(NoScores[k])
  BY ZeroIsShare DEF NoScores
<1>2. CASE result = Skipped(case) \/ result = Errored(case)
  BY <1>1, <1>2 DEF Skipped, Errored
<1>3. ASSUME NEW answer \in Answers, result = Evaluated(case, answer)
      PROVE  \A k \in DOMAIN result.scores : Share(result.scores[k])
  <2>1. result.scores = ScoreCase(case, answer)
    BY <1>3 DEF Evaluated
  <2>2. DOMAIN ScoreCase(case, answer) = Score
    BY DEF ScoreCase, Score
  <2>3. /\ ScoreCase(case, answer)["faithfulness"] = Faithfulness(answer)
        /\ ScoreCase(case, answer)["precision"] = Precision(case, answer)
        /\ ScoreCase(case, answer)["recall"] = Recall(case, answer)
        /\ ScoreCase(case, answer)["relevancy"] = Relevancy(case, answer)
        /\ ScoreCase(case, answer)["citations"] = CitationValidity(answer)
    BY DEF ScoreCase
  <2>4. QED
    BY <2>1, <2>2, <2>3, ScoresAreShares DEF Score
<1>4. QED
  BY <1>2, <1>3 DEF IsResultOf

\* A threshold above zero is not met by a score of zero, and one that is met is met when
\* it is lowered.
LEMMA NothingIsNotEnough ==
  ASSUME NEW s, Share(s), s.part = 0, NEW t \in Nat, t > 0
  PROVE  ~AtLeast(s, t)
<1>1. s.whole \in Nat /\ s.whole > 0
  BY DEF Share
<1>2. t * s.whole \in Nat /\ t * s.whole > 0
  BY <1>1
<1>3. 10 * s.part = 0
  OBVIOUS
<1>4. QED
  BY <1>2, <1>3 DEF AtLeast

LEMMA LaxerIsEasier ==
  ASSUME NEW s, Share(s), NEW t \in Nat, NEW d \in Nat, AtLeast(s, t + d)
  PROVE  AtLeast(s, t)
<1>1. s.whole \in Nat /\ s.part \in Nat
  BY DEF Share
<1>2. (t + d) * s.whole = t * s.whole + d * s.whole /\ d * s.whole >= 0
      /\ t * s.whole \in Nat /\ d * s.whole \in Nat
  BY <1>1
<1>3. QED
  BY <1>1, <1>2 DEF AtLeast

\* An answer whose sentences share no word with its sources is not faithful at all, and
\* one whose markers name no source has no valid citation.
LEMMA InventionScoresZero ==
  ASSUME BenchmarkAssumption, NEW answer \in Answers,
         \A s \in ToSet(answer.sentences) : s # {} /\ s \cap Evidence(answer) = {}
  PROVE  Faithfulness(answer).part = 0
<1>1. CASE answer.sentences = <<>> \/ answer.sources = <<>>
  BY <1>1 DEF Faithfulness, Zero, Ratio
<1>2. CASE ~(answer.sentences = <<>> \/ answer.sources = <<>>)
  <2>1. ASSUME NEW i \in DOMAIN answer.sentences
        PROVE  ~Supported(answer.sentences[i], Evidence(answer))
    <3> DEFINE s == answer.sentences[i]
    <3>1. s \in ToSet(answer.sentences)
      BY DEF ToSet
    <3>2. s # {} /\ s \cap Evidence(answer) = {} /\ IsFiniteSet(s)
      BY <3>1 DEF BenchmarkAssumption
    <3>3. Cardinality(s) \in Nat /\ Cardinality(s) # 0 /\ Cardinality({}) = 0
      BY <3>2, FS_CardinalityType, FS_EmptySet
    <3> HIDE DEF s
    <3>4. Cardinality(s \cap Evidence(answer)) = 0
      BY <3>2, <3>3
    <3>5. ~Supported(s, Evidence(answer))
      BY <3>2, <3>3, <3>4 DEF Supported
    <3>6. QED
      BY <3>5 DEF s
  <2>2. {i \in DOMAIN answer.sentences : Supported(answer.sentences[i], Evidence(answer))} = {}
    BY <2>1
  <2>3. QED
    BY <1>2, <2>2, FS_EmptySet DEF Faithfulness, Ratio
<1>3. QED
  BY <1>1, <1>2

LEMMA MiscitationScoresZero ==
  ASSUME NEW answer, answer.cited \cap DOMAIN answer.sources = {}
  PROVE  CitationValidity(answer).part = 0
BY FS_EmptySet DEF CitationValidity, Zero, Ratio

\* What an open gate says of a case that was asked.
LEMMA PassedMeansAsked ==
  ASSUME BenchmarkAssumption, NEW cases \in Cases, NEW case \in ToSet(cases),
         NEW r, IsResultOf(r, case), ~r.skipped, r.passed
  PROVE  LET invented == \A s \in ToSet(r.answer.sentences) :
                           s # {} /\ s \cap Evidence(r.answer) = {}
             miscited == r.answer.cited \cap DOMAIN r.answer.sources = {}
         IN  IF r.case.refusal THEN r.answer.declines \/ r.answer.sources = <<>>
             ELSE /\ r.answer # NoReply /\ r.answer.sources # <<>>
                  /\ Threshold.faithfulness > 0 => ~invented
                  /\ Threshold.citations > 0 => ~miscited
<1>1. PICK answer \in Answers : r = Evaluated(case, answer)
  BY DEF IsResultOf, Skipped, Errored
<1> DEFINE scores == ScoreCase(case, answer)
           refused == answer.declines \/ answer.sources = <<>>
<1>2. r.answer = answer /\ r.case = case /\ Failures(case, refused, scores, Threshold) = {}
  BY <1>1 DEF Evaluated
<1>3. /\ scores["faithfulness"] = Faithfulness(answer)
      /\ scores["citations"] = CitationValidity(answer)
  BY DEF ScoreCase
<1> HIDE DEF scores
<1>4. CASE case.refusal
  BY <1>2, <1>4 DEF Failures
<1>5. CASE ~case.refusal
  <2>1. ~refused /\ \A k \in DOMAIN Threshold : AtLeast(scores[k], Threshold[k])
    BY <1>2, <1>5 DEF Failures
  <2>2. answer.sources # <<>> /\ answer # NoReply
    BY <2>1 DEF NoReply
  <2>3. /\ Threshold \in [{"faithfulness", "precision", "citations"} -> 0 .. 10]
        /\ Threshold["faithfulness"] \in Nat /\ Threshold["citations"] \in Nat
    BY DEF BenchmarkAssumption
  <2>4. AtLeast(Faithfulness(answer), Threshold["faithfulness"])
        /\ AtLeast(CitationValidity(answer), Threshold["citations"])
    BY <1>3, <2>1, <2>3
  <2>5. Share(Faithfulness(answer)) /\ Share(CitationValidity(answer))
    BY ScoresAreShares
  <2>6. Threshold["faithfulness"] > 0 =>
          ~ \A s \in ToSet(answer.sentences) : s # {} /\ s \cap Evidence(answer) = {}
    BY <2>3, <2>4, <2>5, InventionScoresZero, NothingIsNotEnough
  <2>7. Threshold["citations"] > 0 => answer.cited \cap DOMAIN answer.sources # {}
    BY <2>3, <2>4, <2>5, MiscitationScoresZero, NothingIsNotEnough
  <2>8. QED
    BY <1>2, <1>5, <2>2, <2>6, <2>7
<1>6. QED
  BY <1>4, <1>5

\* A stricter gate opens for no result the laxer one rejects.
LEMMA StricterImpliesLaxer ==
  ASSUME BenchmarkAssumption, NEW cases \in Cases, NEW case \in ToSet(cases),
         NEW r, IsResultOf(r, case), ~r.skipped, r.answer # NoReply,
         Failures(r.case, r.refused, r.scores,
                  [k \in DOMAIN Threshold |-> Threshold[k] + StricterBy]) = {}
  PROVE  r.passed
<1>1. PICK answer \in Answers : r = Evaluated(case, answer)
  BY DEF IsResultOf, Skipped, Errored
<1> DEFINE scores == ScoreCase(case, answer)
           refused == answer.declines \/ answer.sources = <<>>
           strict == [k \in DOMAIN Threshold |-> Threshold[k] + StricterBy]
<1>2. /\ r.case = case /\ r.refused = refused /\ r.scores = scores
      /\ r.passed = (Failures(case, refused, scores, Threshold) = {})
  BY <1>1 DEF Evaluated
<1>3. Failures(case, refused, scores, strict) = {}
  BY <1>2
<1>4. DOMAIN strict = DOMAIN Threshold /\ \A k \in DOMAIN Threshold :
        Threshold[k] \in Nat /\ k \in Score /\ strict[k] = Threshold[k] + StricterBy
  BY DEF BenchmarkAssumption, Score
<1>5. \A k \in Score : Share(scores[k])
  <2>1. DOMAIN r.scores = Score
    BY <1>2 DEF ScoreCase, Score
  <2>2. QED
    BY <1>2, <2>1, ResultsHaveShares
<1> HIDE DEF scores, strict, refused
<1>6. CASE case.refusal
  BY <1>2, <1>3, <1>6 DEF Failures
<1>7. CASE ~case.refusal
  <2>1. ~refused /\ \A k \in DOMAIN Threshold : AtLeast(scores[k], Threshold[k] + StricterBy)
    BY <1>3, <1>4, <1>7 DEF Failures
  <2>2. \A k \in DOMAIN Threshold : AtLeast(scores[k], Threshold[k])
    BY <1>4, <1>5, <2>1, LaxerIsEasier DEF BenchmarkAssumption
  <2>3. Failures(case, refused, scores, Threshold) = {}
    BY <1>7, <2>1, <2>2 DEF Failures
  <2>4. QED
    BY <1>2, <2>3
<1>8. QED
  BY <1>6, <1>7

LEMMA GateFollows ==
  ASSUME BenchmarkAssumption, BenchmarkInv
  PROVE  GateIsHonest
<1> DEFINE strict == [k \in DOMAIN Threshold |-> Threshold[k] + StricterBy]
<1>1. caseList \in Seq(ToSet(caseList)) /\ Len(caseList) \in Nat
  BY DEF BenchmarkInv, BenchmarkAssumption
<1>2. \A i \in DOMAIN report : i \in DOMAIN caseList /\ caseList[i] \in ToSet(caseList)
                               /\ IsResultOf(report[i], caseList[i])
  BY <1>1 DEF BenchmarkInv, ToSet
<1>3. \A i \in DOMAIN report : \A k \in DOMAIN report[i].scores :
        Share(report[i].scores[k])
  BY <1>2, ResultsHaveShares DEF BenchmarkInv
<1>4. ASSUME Len(report) = Len(caseList), GatePassed(report)
      PROVE  realModel \/ \E i \in DOMAIN caseList : ~caseList[i].needsModel
  <2>1. PICK i \in DOMAIN report : ~report[i].skipped
    BY <1>4 DEF GatePassed, Graded
  <2>2. ~(report[i] = Skipped(caseList[i]))
    BY <2>1 DEF Skipped
  <2>3. report[i].passed
    BY <2>1, <1>4 DEF GatePassed, Graded
  <2>4. ~(report[i] = Errored(caseList[i]))
    BY <2>3 DEF Errored
  <2>5. QED
    BY <1>2, <2>2, <2>4 DEF IsResultOf
<1>5. ASSUME Len(report) = Len(caseList), NEW i \in DOMAIN caseList,
             caseList[i].needsModel /\ realModel
      PROVE  ~report[i].skipped
  <2>1. i \in DOMAIN report
    BY <1>1, <1>5 DEF BenchmarkInv
  <2>2. report[i] = Errored(caseList[i])
        \/ \E answer \in Answers : report[i] = Evaluated(caseList[i], answer)
    BY <1>2, <1>5, <2>1 DEF IsResultOf
  <2>3. \A answer \in Answers : ~Evaluated(caseList[i], answer).skipped
    BY DEF Evaluated
  <2>4. QED
    BY <2>2, <2>3 DEF Errored
<1>6. ASSUME GatePassed(report), NEW i \in Graded(report)
      PROVE  LET r == report[i]
                 invented == \A s \in ToSet(r.answer.sentences) :
                               s # {} /\ s \cap Evidence(r.answer) = {}
                 miscited == r.answer.cited \cap DOMAIN r.answer.sources = {}
             IN  IF r.case.refusal THEN r.answer.declines \/ r.answer.sources = <<>>
                 ELSE /\ r.answer # NoReply /\ r.answer.sources # <<>>
                      /\ Threshold.faithfulness > 0 => ~invented
                      /\ Threshold.citations > 0 => ~miscited
  <2>1. i \in DOMAIN report /\ ~report[i].skipped /\ report[i].passed
    BY <1>6 DEF GatePassed, Graded
  <2>2. caseList \in Cases
    BY DEF BenchmarkInv
  <2>3. QED
    BY <1>2, <2>1, <2>2, PassedMeansAsked
<1>7. ASSUME NEW i \in Graded(report), report[i].answer # NoReply,
             Failures(report[i].case, report[i].refused, report[i].scores, strict) = {}
      PROVE  report[i].passed
  <2>1. i \in DOMAIN report /\ ~report[i].skipped
    BY DEF Graded
  <2>2. caseList \in Cases
    BY DEF BenchmarkInv
  <2>3. QED
    BY <1>2, <1>7, <2>1, <2>2, StricterImpliesLaxer
<1> HIDE DEF strict
<1>8. QED
  BY <1>3, <1>4, <1>5, <1>6, <1>7 DEF GateIsHonest, Share, strict

LEMMA BenchmarkInitially == ASSUME BenchmarkAssumption, BenchmarkInit PROVE BenchmarkInv
<1>1. caseList \in Cases /\ Len(caseList) \in Nat /\ report = <<>>
  BY DEF BenchmarkInit, BenchmarkAssumption
<1>2. QED
  BY <1>1 DEF BenchmarkInv, ToSet

\* One more result keeps the ones there are.
LEMMA AppendKeeps ==
  ASSUME BenchmarkAssumption, BenchmarkInv, Len(report) < Len(caseList),
         UNCHANGED <<caseList, realModel>>,
         NEW result, IsResultOf(result, Case), report' = Append(report, result)
  PROVE  BenchmarkInv'
<1>1. caseList \in Seq(ToSet(caseList)) /\ Len(caseList) \in Nat
  BY DEF BenchmarkInv, BenchmarkAssumption
<1>2. report \in Seq(ToSet(report) \cup {result}) /\ result \in ToSet(report) \cup {result}
  BY DEF BenchmarkInv, ToSet
<1>3. /\ report' \in Seq(ToSet(report) \cup {result}) /\ Len(report') = Len(report) + 1
      /\ \A i \in DOMAIN report : report'[i] = report[i]
      /\ report'[Len(report) + 1] = result
  BY <1>2
<1>4. report' \in Seq(ToSet(report'))
  BY <1>3 DEF ToSet
<1>5. \A i \in DOMAIN report' : IsResultOf(report'[i], caseList[i])
  BY <1>3 DEF BenchmarkInv, Case
<1>6. \A i \in DOMAIN report' : IsResultOf(report[i], caseList[i])'
  BY <1>5 DEF IsResultOf
<1>7. QED
  BY <1>1, <1>3, <1>4, <1>6 DEF BenchmarkInv

LEMMA BenchmarkStepKeeps ==
  ASSUME BenchmarkAssumption, BenchmarkInv, [BenchmarkNext]_benchmarkVars
  PROVE  BenchmarkInv'
<1>1. CASE SkipCase
  <2>1. IsResultOf(Skipped(Case), Case)
    BY <1>1 DEF SkipCase, IsResultOf
  <2>2. QED
    BY <1>1, <2>1, AppendKeeps DEF SkipCase
<1>2. ASSUME NEW answer \in Answers, RunCase(answer)
      PROVE  BenchmarkInv'
  <2>1. IsResultOf(Evaluated(Case, answer), Case)
    BY <1>2 DEF RunCase, IsResultOf
  <2>2. QED
    BY <1>2, <2>1, AppendKeeps DEF RunCase
<1>3. CASE CaseRaises
  <2>1. IsResultOf(Errored(Case), Case)
    BY DEF IsResultOf
  <2>2. QED
    BY <1>3, <2>1, AppendKeeps DEF CaseRaises
<1>4. CASE UNCHANGED benchmarkVars
  BY <1>4 DEF benchmarkVars, BenchmarkInv, IsResultOf
<1>5. QED
  BY <1>1, <1>2, <1>3, <1>4 DEF BenchmarkNext

\* The exit status of the benchmark means what the build trusts it for, for every data
\* set, every answer and every threshold: an open gate has asked some case, every case
\* it asked came back, inventions and false citations are caught, and a stricter gate
\* opens for no report the laxer one rejects.
THEOREM GateStaysHonest == BenchmarkSpec => []GateIsHonest
<1>1. BenchmarkInit => BenchmarkInv
  BY BenchmarkAssumption, BenchmarkInitially
<1>2. BenchmarkInv /\ [BenchmarkNext]_benchmarkVars => BenchmarkInv'
  BY BenchmarkAssumption, BenchmarkStepKeeps
<1>3. BenchmarkInv => GateIsHonest
  BY BenchmarkAssumption, GateFollows
<1>4. QED
  BY <1>1, <1>2, <1>3, PTL DEF BenchmarkSpec

-----------------------------------------------------------------------------
(* The rows of the experiments.                                            *)

TaskStage == {"idle", "sent", "read", "deleted", "done", "failed"}

\* What the rules found, and the rows that are made of it.
FoundItem == UNION Extraction
Row == [id : Task \X Nat, paper : Library, model : {f.model : f \in FoundItem},
        dataset : {f.dataset : f \in FoundItem}, metric : {f.metric : f \in FoundItem},
        value : {f.value : f \in FoundItem}]

RowsTyped ==
  /\ present \subseteq Library
  /\ results \subseteq Row
  /\ tasks \in [Task -> [stage : TaskStage, paper : Library \cup {Nothing}, attempt : Nat,
                         found : SUBSET FoundItem, doomed : SUBSET Row]]
  /\ \A t \in Task : tasks[t].stage # "idle" => tasks[t].paper \in Library
  /\ \A t \in Task : \A r \in tasks[t].doomed : r.paper = tasks[t].paper

\* Two runs that work on one paper at once have left a mark.
OverlapsAreMarked == \A t, u \in Running :
  t # u /\ tasks[t].paper = tasks[u].paper => tasks[t].paper \in overlap

\* A run that is alone with its paper has seen every row it is about to replace.
DeletesWhatItReplaces == \A t \in Task :
  tasks[t].stage = "deleted" /\ tasks[t].paper \notin overlap =>
    \A r \in results : r.paper = tasks[t].paper => r \in tasks[t].doomed

\* The inductive invariant of the rows.
RowsInv ==
  RowsTyped /\ OverlapsAreMarked /\ DeletesWhatItReplaces /\ RowsAreOneExtraction

LEMMA RowsInitially == ASSUME ExperimentsInit PROVE RowsInv
<1>1. RowsTyped
  BY DEF ExperimentsInit, RowsTyped, TaskStage
<1>2. Running = {} /\ OverlapsAreMarked
  BY DEF ExperimentsInit, Running, OverlapsAreMarked
<1>3. DeletesWhatItReplaces
  BY DEF ExperimentsInit, DeletesWhatItReplaces
<1>4. \A p : RunsOf(p) = {} /\ Cardinality(RunsOf(p)) = 0
  <2>1. \A p : RunsOf(p) = {}
    BY DEF ExperimentsInit, RunsOf
  <2>2. QED
    BY <2>1, FS_EmptySet
<1>5. RowsAreOneExtraction
  BY <1>4 DEF ExperimentsInit, RowsAreOneExtraction
<1>6. QED
  BY <1>1, <1>2, <1>3, <1>5 DEF RowsInv

\* A step that leaves the rows alone keeps them whole.
LEMMA RowsUntouched ==
  ASSUME RowsAreOneExtraction, UNCHANGED <<present, results>>, overlap \subseteq overlap'
  PROVE  RowsAreOneExtraction'
BY DEF RowsAreOneExtraction, RunsOf

LEMMA DeliverKeeps ==
  ASSUME RowsInv, NEW t \in Task, NEW p \in Library, Deliver(t, p)
  PROVE  RowsInv'
<1>1. tasks'[t].stage = "sent" /\ \A u \in Task \ {t} : tasks'[u] = tasks[u]
  BY DEF Deliver, RowsInv, RowsTyped
<1>2. RowsTyped'
  BY DEF Deliver, RowsInv, RowsTyped, TaskStage
<1>3. \A u \in Running' : u \in Running /\ u # t
  BY <1>1 DEF Running
<1>4. OverlapsAreMarked'
  BY <1>1, <1>3 DEF Deliver, RowsInv, OverlapsAreMarked, Running
<1>5. DeletesWhatItReplaces'
  BY <1>1 DEF Deliver, RowsInv, DeletesWhatItReplaces
<1>6. QED
  BY <1>2, <1>4, <1>5, RowsUntouched DEF Deliver, RowsInv

LEMMA ExtractKeeps ==
  ASSUME RowsInv, NEW t \in Task, NEW found \in Extraction \cup {Nothing}, Extract(t, found)
  PROVE  RowsInv'
<1>1. /\ tasks[t].stage = "sent" /\ tasks'[t].paper = tasks[t].paper
      /\ tasks'[t].stage = IF found = Nothing THEN "done" ELSE "read"
      /\ \A u \in Task \ {t} : tasks'[u] = tasks[u]
  BY DEF Extract, RowsInv, RowsTyped
<1>2. (IF found = Nothing THEN {} ELSE found) \in SUBSET FoundItem
  BY DEF FoundItem
<1>3. RowsTyped'
  <2> DEFINE new == [tasks[t] EXCEPT !.stage = IF found = Nothing THEN "done" ELSE "read",
                                     !.found = IF found = Nothing THEN {} ELSE found]
  <2>1. tasks' = [tasks EXCEPT ![t] = new] /\ UNCHANGED <<present, results>>
    BY DEF Extract, RowsInv, RowsTyped
  <2>2. /\ new \in [stage : TaskStage, paper : Library \cup {Nothing}, attempt : Nat,
                    found : SUBSET FoundItem, doomed : SUBSET Row]
        /\ new.paper = tasks[t].paper /\ new.doomed = tasks[t].doomed
    <3>1. tasks[t] \in [stage : TaskStage, paper : Library \cup {Nothing}, attempt : Nat,
                         found : SUBSET FoundItem, doomed : SUBSET Row]
      BY DEF RowsInv, RowsTyped
    <3>2. {"done", "read"} \subseteq TaskStage
      BY DEF TaskStage
    <3>3. QED
      BY <1>2, <3>1, <3>2
  <2> HIDE DEF new
  <2>3. QED
    BY <1>1, <2>1, <2>2 DEF RowsInv, RowsTyped
<1>4. overlap \subseteq overlap'
  BY DEF Extract
<1>5. OverlapsAreMarked'
  <2> SUFFICES ASSUME NEW u \in Running', NEW v \in Running', u # v,
                      tasks'[u].paper = tasks'[v].paper
               PROVE  tasks'[u].paper \in overlap'
    BY DEF OverlapsAreMarked
  <2>1. u \in Task /\ v \in Task
    BY DEF Running
  <2>2. CASE u # t /\ v # t
    BY <1>1, <1>4, <2>1, <2>2 DEF Running, RowsInv, OverlapsAreMarked
  <2>3. CASE u = t \/ v = t
    <3>1. PICK w \in {u, v} : w # t
      OBVIOUS
    <3>2. w \in Running /\ tasks[w].paper = tasks[t].paper /\ tasks'[u].paper = tasks[t].paper
      BY <1>1, <2>1, <2>3, <3>1 DEF Running
    <3>3. found # Nothing
      BY <1>1, <2>3 DEF Running
    <3>4. QED
      BY <3>2, <3>3 DEF Extract
  <2>4. QED
    BY <2>2, <2>3
<1>6. DeletesWhatItReplaces'
  <2> SUFFICES ASSUME NEW u \in Task, tasks'[u].stage = "deleted", tasks'[u].paper \notin overlap',
                      NEW r \in results', r.paper = tasks'[u].paper
               PROVE  r \in tasks'[u].doomed
    BY DEF DeletesWhatItReplaces
  <2>1. u # t /\ tasks'[u] = tasks[u]
    BY <1>1
  <2>2. r \in results
    BY DEF Extract
  <2>3. QED
    BY <1>4, <2>1, <2>2 DEF RowsInv, DeletesWhatItReplaces
<1>7. QED
  BY <1>3, <1>4, <1>5, <1>6, RowsUntouched DEF Extract, RowsInv

LEMMA DeleteRowsKeeps ==
  ASSUME RowsInv, NEW t \in Task, DeleteRows(t)
  PROVE  RowsInv'
<1>1. /\ tasks[t].stage = "read" /\ tasks'[t].paper = tasks[t].paper
      /\ tasks'[t].stage = "deleted"
      /\ tasks'[t].doomed = {r \in results : r.paper = tasks[t].paper}
      /\ \A u \in Task \ {t} : tasks'[u] = tasks[u]
  BY DEF DeleteRows, RowsInv, RowsTyped
<1>2. {r \in results : r.paper = tasks[t].paper} \in SUBSET Row
  BY DEF RowsInv, RowsTyped
<1>3. RowsTyped'
  <2> DEFINE new == [tasks[t] EXCEPT !.stage = "deleted",
                                     !.doomed = {r \in results : r.paper = tasks[t].paper}]
  <2>1. tasks' = [tasks EXCEPT ![t] = new] /\ UNCHANGED <<present, results>>
    BY DEF DeleteRows, RowsInv, RowsTyped
  <2>2. /\ new \in [stage : TaskStage, paper : Library \cup {Nothing}, attempt : Nat,
                    found : SUBSET FoundItem, doomed : SUBSET Row]
        /\ new.paper = tasks[t].paper /\ \A r \in new.doomed : r.paper = new.paper
    <3>1. tasks[t] \in [stage : TaskStage, paper : Library \cup {Nothing}, attempt : Nat,
                         found : SUBSET FoundItem, doomed : SUBSET Row]
      BY DEF RowsInv, RowsTyped
    <3>2. "deleted" \in TaskStage
      BY DEF TaskStage
    <3>3. QED
      BY <1>2, <3>1, <3>2
  <2> HIDE DEF new
  <2>3. tasks[t].paper \in Library
    BY <1>1 DEF RowsInv, RowsTyped
  <2>4. QED
    BY <1>1, <2>1, <2>2, <2>3 DEF RowsInv, RowsTyped
<1>4. Running' = Running /\ \A u \in Task : tasks'[u].paper = tasks[u].paper
  BY <1>1 DEF Running
<1>5. OverlapsAreMarked'
  <2> SUFFICES ASSUME NEW u \in Running', NEW v \in Running', u # v,
                      tasks'[u].paper = tasks'[v].paper
               PROVE  tasks'[u].paper \in overlap'
    BY DEF OverlapsAreMarked
  <2>1. u \in Running /\ v \in Running /\ u \in Task /\ v \in Task
    BY <1>4 DEF Running
  <2>2. tasks[u].paper \in overlap
    BY <1>4, <2>1 DEF RowsInv, OverlapsAreMarked
  <2>3. overlap' = overlap
    BY DEF DeleteRows
  <2>4. QED
    BY <1>4, <2>1, <2>2, <2>3
<1>6. DeletesWhatItReplaces'
  <2> SUFFICES ASSUME NEW u \in Task, tasks'[u].stage = "deleted", tasks'[u].paper \notin overlap',
                      NEW r \in results', r.paper = tasks'[u].paper
               PROVE  r \in tasks'[u].doomed
    BY DEF DeletesWhatItReplaces
  <2>1. r \in results /\ overlap' = overlap
    BY DEF DeleteRows
  <2>2. CASE u = t
    BY <1>1, <2>1, <2>2
  <2>3. CASE u # t
    BY <1>1, <2>1, <2>3 DEF RowsInv, DeletesWhatItReplaces
  <2>4. QED
    BY <2>2, <2>3
<1>7. QED
  BY <1>3, <1>5, <1>6, RowsUntouched DEF DeleteRows, RowsInv

\* The commit of a run that was alone with its paper leaves the rows of that run only.
LEMMA CommitRowsKeeps ==
  ASSUME RowsInv, NEW t \in Task, CommitRows(t)
  PROVE  RowsInv'
<1> DEFINE p == tasks[t].paper
           new == RowsOf(t, tasks[t].found)
<1>1. /\ tasks[t].stage = "deleted" /\ tasks'[t].stage = "done" /\ p \in present
      /\ tasks'[t].paper = p /\ \A u \in Task \ {t} : tasks'[u] = tasks[u]
  BY DEF CommitRows, RowsInv, RowsTyped
<1>2. results' = (results \ tasks[t].doomed) \cup new /\ UNCHANGED <<present, overlap>>
  BY DEF CommitRows
<1>3. \A r \in new : r \in Row /\ r.paper = p /\ r.id = <<t, tasks[t].attempt>>
  <2>1. p \in Library /\ tasks[t].attempt \in Nat /\ tasks[t].found \subseteq FoundItem
    BY <1>1 DEF RowsInv, RowsTyped
  <2>2. QED
    BY <2>1 DEF RowsOf, Row
<1> HIDE DEF new
<1>4. RowsTyped'
  <2> DEFINE last == [tasks[t] EXCEPT !.stage = "done", !.found = {}, !.doomed = {}]
  <2>1. tasks' = [tasks EXCEPT ![t] = last] /\ results' \subseteq Row /\ present' = present
    BY <1>2, <1>3 DEF CommitRows, RowsInv, RowsTyped
  <2>2. /\ last \in [stage : TaskStage, paper : Library \cup {Nothing}, attempt : Nat,
                     found : SUBSET FoundItem, doomed : SUBSET Row]
        /\ last.paper = tasks[t].paper /\ last.doomed = {}
    <3>1. tasks[t] \in [stage : TaskStage, paper : Library \cup {Nothing}, attempt : Nat,
                         found : SUBSET FoundItem, doomed : SUBSET Row]
      BY DEF RowsInv, RowsTyped
    <3>2. "done" \in TaskStage
      BY DEF TaskStage
    <3>3. QED
      BY <3>1, <3>2
  <2> HIDE DEF last
  <2>3. tasks[t].paper \in Library
    BY <1>1 DEF RowsInv, RowsTyped
  <2>4. QED
    BY <2>1, <2>2, <2>3 DEF RowsInv, RowsTyped
<1>5. \A u \in Running' : u \in Running /\ u # t /\ tasks'[u].paper = tasks[u].paper
  BY <1>1 DEF Running
<1>6. OverlapsAreMarked'
  BY <1>2, <1>5 DEF RowsInv, OverlapsAreMarked
<1>7. DeletesWhatItReplaces'
  <2> SUFFICES ASSUME NEW u \in Task, tasks'[u].stage = "deleted", tasks'[u].paper \notin overlap',
                      NEW r \in results', r.paper = tasks'[u].paper
               PROVE  r \in tasks'[u].doomed
    BY DEF DeletesWhatItReplaces
  <2>1. u # t /\ tasks'[u] = tasks[u]
    BY <1>1
  <2>2. u \in Running /\ t \in Running
    BY <1>1, <2>1 DEF Running
  <2>3. tasks[u].paper # p
    BY <1>2, <2>1, <2>2 DEF RowsInv, OverlapsAreMarked
  <2>4. r \in results
    BY <1>2, <1>3, <2>1, <2>3
  <2>5. QED
    BY <1>2, <2>1, <2>4 DEF RowsInv, DeletesWhatItReplaces
<1>8. \A r \in results' : r.paper \in present'
  BY <1>1, <1>2, <1>3 DEF RowsInv, RowsAreOneExtraction
<1>9. ASSUME NEW q \in present' \ overlap'
      PROVE  Cardinality(RunsOf(q)') <= 1
  <2>1. CASE q # p
    <3>1. \A r : r \in results' /\ r.paper = q <=> r \in results /\ r.paper = q
      BY <1>2, <1>3, <2>1 DEF RowsInv, RowsTyped
    <3>2. RunsOf(q)' = RunsOf(q)
      BY <3>1 DEF RunsOf
    <3>3. QED
      BY <3>2, <1>2, <1>9 DEF RowsInv, RowsAreOneExtraction
  <2>2. CASE q = p
    <3>1. \A r \in results : r.paper = p => r \in tasks[t].doomed
      BY <1>1, <1>2, <1>9, <2>2 DEF RowsInv, DeletesWhatItReplaces
    <3>2. RunsOf(q)' \subseteq {<<t, tasks[t].attempt>>}
      BY <1>2, <1>3, <2>2, <3>1 DEF RunsOf
    <3>3. IsFiniteSet({<<t, tasks[t].attempt>>}) /\ Cardinality({<<t, tasks[t].attempt>>}) = 1
      BY FS_Singleton
    <3>4. QED
      BY <3>2, <3>3, FS_Subset
  <2>3. QED
    BY <2>1, <2>2
<1>10. QED
  BY <1>4, <1>6, <1>7, <1>8, <1>9 DEF RowsInv, RowsAreOneExtraction

LEMMA FailTaskKeeps ==
  ASSUME RowsInv, NEW t \in Task, FailTask(t)
  PROVE  RowsInv'
<1>1. /\ tasks'[t].stage \in {"sent", "failed"} /\ UNCHANGED <<present, results, overlap>>
      /\ \A u \in Task \ {t} : tasks'[u] = tasks[u]
  BY DEF FailTask, RowsInv, RowsTyped
<1>2. RowsTyped'
  <2> DEFINE new ==
       [stage |-> IF tasks[t].attempt < MaxAttempts THEN "sent" ELSE "failed",
        paper |-> tasks[t].paper,
        attempt |-> IF tasks[t].attempt < MaxAttempts THEN tasks[t].attempt + 1 ELSE tasks[t].attempt,
        found |-> {}, doomed |-> {}]
  <2>1. tasks' = [tasks EXCEPT ![t] = new]
    BY DEF FailTask
  <2>2. /\ new \in [stage : TaskStage, paper : Library \cup {Nothing}, attempt : Nat,
                    found : SUBSET FoundItem, doomed : SUBSET Row]
        /\ new.paper = tasks[t].paper /\ new.doomed = {} /\ tasks[t].stage # "idle"
    BY DEF RowsInv, RowsTyped, TaskStage, FailTask
  <2> HIDE DEF new
  <2>3. QED
    BY <1>1, <2>1, <2>2 DEF RowsInv, RowsTyped
<1>3. \A u \in Running' : u \in Running /\ u # t
  BY <1>1 DEF Running
<1>4. OverlapsAreMarked'
  BY <1>1, <1>3 DEF RowsInv, OverlapsAreMarked, Running
<1>5. DeletesWhatItReplaces'
  BY <1>1 DEF RowsInv, DeletesWhatItReplaces
<1>6. QED
  BY <1>1, <1>2, <1>4, <1>5, RowsUntouched DEF RowsInv

LEMMA DeletePaperRowKeeps ==
  ASSUME RowsInv, NEW p \in Library, DeletePaperRow(p)
  PROVE  RowsInv'
<1>1. /\ UNCHANGED <<tasks, overlap>> /\ present' = present \ {p}
      /\ results' = {r \in results : r.paper # p}
  BY DEF DeletePaperRow
<1>2. RowsTyped'
  BY <1>1 DEF RowsInv, RowsTyped
<1>3. OverlapsAreMarked'
  BY <1>1 DEF RowsInv, OverlapsAreMarked, Running
<1>4. DeletesWhatItReplaces'
  BY <1>1 DEF RowsInv, DeletesWhatItReplaces
<1>5. ASSUME NEW q \in present' \ overlap'
      PROVE  Cardinality(RunsOf(q)') <= 1
  <2>1. \A r : r \in results' /\ r.paper = q <=> r \in results /\ r.paper = q
    BY <1>1, <1>5
  <2>2. RunsOf(q)' = RunsOf(q)
    BY <2>1 DEF RunsOf
  <2>3. QED
    BY <2>2, <1>1, <1>5 DEF RowsInv, RowsAreOneExtraction
<1>6. \A r \in results' : r.paper \in present'
  BY <1>1 DEF RowsInv, RowsAreOneExtraction
<1>7. QED
  BY <1>2, <1>3, <1>4, <1>5, <1>6 DEF RowsInv, RowsAreOneExtraction

\* A request of /insights reads the rows and changes none.
LEMMA RequestsKeep ==
  ASSUME RowsInv, UNCHANGED <<present, results, tasks, overlap>>
  PROVE  RowsInv'
<1>1. RowsTyped'
  BY DEF RowsInv, RowsTyped
<1>2. OverlapsAreMarked'
  BY DEF RowsInv, OverlapsAreMarked, Running
<1>3. DeletesWhatItReplaces'
  BY DEF RowsInv, DeletesWhatItReplaces
<1>4. QED
  BY <1>1, <1>2, <1>3, RowsUntouched DEF RowsInv

LEMMA RowsStepKeeps ==
  ASSUME RowsInv, [ExperimentsNext]_experimentVars
  PROVE  RowsInv'
<1>1. ASSUME NEW t \in Task, NEW p \in Library, Deliver(t, p) PROVE RowsInv'
  BY <1>1, DeliverKeeps
<1>2. ASSUME NEW t \in Task, NEW found \in Extraction \cup {Nothing}, Extract(t, found)
      PROVE  RowsInv'
  BY <1>2, ExtractKeeps
<1>3. ASSUME NEW t \in Task, DeleteRows(t) PROVE RowsInv'
  BY <1>3, DeleteRowsKeeps
<1>4. ASSUME NEW t \in Task, CommitRows(t) PROVE RowsInv'
  BY <1>4, CommitRowsKeeps
<1>5. ASSUME NEW t \in Task, FailTask(t) PROVE RowsInv'
  BY <1>5, FailTaskKeeps
<1>6. ASSUME NEW p \in Library, DeletePaperRow(p) PROVE RowsInv'
  BY <1>6, DeletePaperRowKeeps
<1>7. CASE Insights
  <2>1. UNCHANGED <<present, results, tasks, overlap>>
    BY <1>7
    DEF Insights, BeginRequest, Compare, ReadResults, ReadClaims, CheckConsistency, ReadMentions,
        FindGaps, FindConflicts, ReadPapers, ReadTrends, FindTrends, EndRequest, Reads
  <2>2. QED
    BY <2>1, RequestsKeep
<1>8. CASE UNCHANGED experimentVars
  BY <1>8, RequestsKeep DEF experimentVars
<1>9. QED
  BY <1>1, <1>2, <1>3, <1>4, <1>5, <1>6, <1>7, <1>8 DEF ExperimentsNext, ExtractResults

\* However often extract_results is delivered, retried or run twice at once, and whenever
\* papers are deleted: the rows belong to papers that exist, and those of a paper come
\* from one run unless two runs of that paper have overlapped.  The delete and the
\* inserts of _persist_results are one transaction, but only the rows that were committed
\* when it deleted are replaced (extraction.py:305-329).
THEOREM RowsStayOneExtraction == ExperimentsSpec => []RowsAreOneExtraction
<1>1. ExperimentsInit => RowsInv
  BY RowsInitially
<1>2. RowsInv /\ [ExperimentsNext]_experimentVars => RowsInv'
  BY RowsStepKeeps
<1>3. RowsInv => RowsAreOneExtraction
  BY DEF RowsInv
<1>4. QED
  BY <1>1, <1>2, <1>3, PTL DEF ExperimentsSpec

-----------------------------------------------------------------------------
(* Reports.                                                                *)

\* Finitely many mentions, each by its fields.
MentionsFinite(M) ==
  IsFiniteSet(M) /\ \A m \in M : m = [paper |-> m.paper, entity |-> m.entity]

\* The rows and the mentions of a library are finitely many.
RowsFinite ==
  /\ IsFiniteSet(results) /\ \A t \in Task : IsFiniteSet(tasks[t].found)
  /\ MentionsFinite(mentions)

\* A request keeps its fields, and its scope once it has one.
RequestTyped ==
  /\ request = [stage |-> request.stage, kind |-> request.kind, ids |-> request.ids,
                asked |-> request.asked, rows |-> request.rows, report |-> request.report]
  /\ request.stage # "none" => request.ids \in Seq(Library)

\* Rows in the scope of the request.
InScope(rows) ==
  rows \subseteq Row /\ IsFiniteSet(rows) /\ \A r \in rows : r.paper \in Range(request.ids)

\* What was read for a report belongs to the papers in its scope.
ReadInScope ==
  request.stage # "none" =>
    /\ \A p \in Range(request.ids) : OwnedBy[p] = "caller"
    /\ request.asked # <<>> => Range(request.ids) \subseteq Range(request.asked)
    /\ InScope(request.rows)

\* Between two queries, a request has what the ones before have returned.
Knows ==
  /\ request.stage = "matched" =>
       request.kind = "consistency" /\ request.report.kept \in OnePerPaper(request.rows)
  /\ request.stage = "covered" =>
       request.kind = "gaps" /\ MentionsFinite(request.report.mentioned)
  /\ request.stage = "gaps" =>
       /\ request.kind = "gaps"
       /\ request.report = [coverage |-> request.report.coverage,
                            mentioned |-> request.report.mentioned,
                            untested |-> request.report.untested, conflicts |-> {}]
  /\ request.stage = "listed" =>
       request.kind = "trends" /\ IsFiniteSet(request.report.listed)
  /\ request.stage = "counted" =>
       /\ request.kind = "trends" /\ IsFiniteSet(request.report.listed)
       /\ MentionsFinite(request.report.mentioned)

\* The inductive invariant of the reports.
ReportInv ==
  /\ RowsInv /\ RowsFinite /\ RequestTyped /\ ReadInScope /\ Knows
  /\ TableIsComplete /\ ConflictsAreReal /\ ClaimsAreComparedAcrossPapers
  /\ GapsAreHoles /\ TrendsAddUp

-----------------------------------------------------------------------------
(* What the analyses compute.                                              *)

LEMMA RowValues ==
  \A r \in Row : r.value \in Int
<1>1. \A f \in FoundItem : f.value \in Int
  BY ExperimentsAssumption DEF FoundItem
<1>2. QED
  BY <1>1 DEF Row

\* The best cell of a group is there, and no cell of the group beats it.
LEMMA BestIsUnbeaten ==
  ASSUME NEW cells \in SUBSET Row, IsFiniteSet(cells), cells # {},
         \A r, s \in cells : r.metric = s.metric
  PROVE  Best(cells) \in cells /\ \A s \in cells : ~ Beats(s, Best(cells))
<1> DEFINE V == [r \in cells |-> r.value]
           values == {V[r] : r \in cells}
<1>1. \A r \in cells : V[r] = r.value /\ r.value \in Int
  BY RowValues
<1>2. IsFiniteSet(values)
  <2>1. DOMAIN V = cells /\ V = [r \in cells |-> V[r]]
    OBVIOUS
  <2> HIDE DEF V
  <2>2. QED
    BY <2>1, ImageIsFinite
<1>3. values \in SUBSET Int /\ values # {}
  BY <1>1
<1>4. PICK top \in values, bottom \in values : \A x \in values : top >= x /\ bottom <= x
  <2> HIDE DEF values
  <2>1. QED
    BY <1>2, <1>3, ExtremesExist
<1>5. PICK r \in cells : r.value = IF HigherIsBetter(r.metric) THEN top ELSE bottom
  <2>1. PICK a \in cells, b \in cells : a.value = top /\ b.value = bottom
    BY <1>1, <1>4
  <2>2. a.metric = b.metric
    OBVIOUS
  <2>3. QED
    BY <2>1, <2>2
<1>6. \A s \in cells : ~ Beats(s, r)
  <2> SUFFICES ASSUME NEW s \in cells PROVE ~ Beats(s, r)
    OBVIOUS
  <2>1. s.value \in Int /\ top \in Int /\ bottom \in Int /\ top >= s.value /\ bottom <= s.value
    BY <1>1, <1>3, <1>4
  <2>2. s.metric = r.metric
    OBVIOUS
  <2>3. QED
    BY <1>5, <2>1, <2>2 DEF Beats
<1>7. QED
  BY <1>5, <1>6 DEF Best

\* Of two rows with one metric, a row that is not beaten has at least as good a value.
LEMMA UnbeatenIsBest ==
  ASSUME NEW r \in Row, NEW s \in Row, r.metric = s.metric, ~ Beats(s, r)
  PROVE  IF r.metric \in LowerIsBetter THEN r.value <= s.value ELSE r.value >= s.value
BY RowValues DEF Beats, HigherIsBetter

\* The sizes of disjoint parts add up to the size of the whole.
LEMMA SizesAddUp ==
  ASSUME NEW S, IsFiniteSet(S), NEW U, IsFiniteSet(U), NEW C \in [S -> SUBSET U],
         \A x, y \in S : x # y => C[x] \cap C[y] = {},
         NEW F, \A x \in S : F[x] = Cardinality(C[x])
  PROVE  SumOver(F, S) = Cardinality(UNION {C[x] : x \in S})
<1> DEFINE Parts(s) == UNION {C[x] : x \in s}
           Pick(s) == CHOOSE x \in s : TRUE
           sum == CHOOSE f : f = [s \in SUBSET S |->
                    IF s = {} THEN 0 ELSE F[Pick(s)] + f[s \ {Pick(s)}]]
           size == [s \in SUBSET S |-> Cardinality(Parts(s))]
<1>1. SumOver(F, S) = sum[S]
  BY DEF SumOver, MapThenSumSet, MapThenFoldSet
<1>2. \A s \in SUBSET S : s # {} => Pick(s) \in s
  OBVIOUS
<1>3. \A s \in SUBSET S : IsFiniteSet(Parts(s)) /\ Cardinality(Parts(s)) \in Nat
  BY FS_Subset, FS_CardinalityType
<1>4. ASSUME NEW s \in SUBSET S, NEW x \in s
      PROVE  Cardinality(Parts(s)) = F[x] + Cardinality(Parts(s \ {x}))
  <2> DEFINE A == C[x]
             B == Parts(s \ {x})
  <2>1. Parts(s) = A \cup B
    OBVIOUS
  <2>2. A \cap B = {}
    OBVIOUS
  <2>3. A \in SUBSET U /\ IsFiniteSet(A) /\ IsFiniteSet(B) /\ Cardinality(A) = F[x]
    BY <1>3, FS_Subset
  <2>4. Cardinality(A) \in Nat /\ Cardinality(B) \in Nat /\ Cardinality({}) = 0
    BY <2>3, FS_CardinalityType, FS_EmptySet
  <2> HIDE DEF A, B, Parts
  <2>5. Cardinality(A \cup B) = Cardinality(A) + Cardinality(B) - Cardinality(A \cap B)
    BY <2>3, FS_Union
  <2>6. Cardinality(A \cap B) = 0
    BY <2>2, <2>4
  <2>7. Cardinality(A \cup B) = F[x] + Cardinality(B)
    BY <2>3, <2>4, <2>5, <2>6
  <2>8. QED
    BY <2>1, <2>7 DEF B
<1>5. Cardinality(Parts({})) = 0
  <2>1. Parts({}) = {}
    OBVIOUS
  <2>2. QED
    BY <2>1, FS_EmptySet
<1> HIDE DEF Parts
<1>6. size = [s \in SUBSET S |-> IF s = {} THEN 0 ELSE F[Pick(s)] + size[s \ {Pick(s)}]]
  <2> HIDE DEF Pick
  <2>1. \A s \in SUBSET S : s \ {Pick(s)} \in SUBSET S
    OBVIOUS
  <2>2. \A s \in SUBSET S : Cardinality(Parts(s)) =
          IF s = {} THEN 0 ELSE F[Pick(s)] + Cardinality(Parts(s \ {Pick(s)}))
    BY <1>2, <1>4, <1>5
  <2>3. QED
    BY <2>1, <2>2
<1>7. sum = [s \in SUBSET S |-> IF s = {} THEN 0 ELSE F[Pick(s)] + sum[s \ {Pick(s)}]]
  <2> HIDE DEF size, Pick
  <2>1. PICK f : f = size
    OBVIOUS
  <2>2. f = [s \in SUBSET S |-> IF s = {} THEN 0 ELSE F[Pick(s)] + f[s \ {Pick(s)}]]
    BY <1>6, <2>1
  <2>3. QED
    BY <2>2
<1> HIDE DEF sum
<1>8. \A s \in SUBSET S : s \in {t \in SUBSET S : sum[t] = Cardinality(Parts(t))}
  <2> HIDE DEF size, Pick
  <2> DEFINE T == {k \in Nat : \A t \in SUBSET S : Cardinality(t) = k => sum[t] = Cardinality(Parts(t))}
  <2>1. \A t \in SUBSET S : IsFiniteSet(t) /\ Cardinality(t) \in Nat
    BY FS_Subset, FS_CardinalityType
  <2>2. 0 \in T
    <3> SUFFICES ASSUME NEW t \in SUBSET S, Cardinality(t) = 0
                 PROVE  sum[t] = Cardinality(Parts(t))
      OBVIOUS
    <3>1. t = {}
      BY <2>1, FS_EmptySet
    <3>2. QED
      BY <1>5, <1>7, <3>1
  <2>3. ASSUME NEW k \in Nat, k \in T PROVE k + 1 \in T
    <3> SUFFICES ASSUME NEW t \in SUBSET S, Cardinality(t) = k + 1
                 PROVE  sum[t] = Cardinality(Parts(t))
      OBVIOUS
    <3>1. IsFiniteSet(t) /\ Cardinality({}) = 0 /\ k + 1 # 0 /\ k + 1 - 1 = k
      BY <2>1, FS_EmptySet
    <3>2. t # {} /\ Pick(t) \in t /\ t \ {Pick(t)} \in SUBSET S
      BY <1>2, <3>1
    <3>3. Cardinality(t \ {Pick(t)}) = Cardinality(t) - 1
      BY <3>1, <3>2, FS_RemoveElement
    <3>4. Cardinality(t \ {Pick(t)}) = k
      BY <3>1, <3>3
    <3>5. sum[t \ {Pick(t)}] = Cardinality(Parts(t \ {Pick(t)}))
      BY <2>3, <3>2, <3>4
    <3>6. sum[t] = F[Pick(t)] + sum[t \ {Pick(t)}]
      BY <1>7, <3>2
    <3>7. QED
      BY <1>4, <3>2, <3>5, <3>6
  <2> HIDE DEF T
  <2>4. \A k \in Nat : k \in T
    BY <2>2, <2>3, Induction
  <2>5. QED
    BY <2>1, <2>4 DEF T
<1>9. QED
  BY <1>1, <1>8 DEF Parts

\* The scope of a request: papers the caller may read, of those it names if it names any.
LEMMA ScopeIsOwn ==
  ASSUME NEW asked \in Seq(Library), present \subseteq Library
  PROVE  /\ Scope(asked) \in Seq(Accessible)
         /\ asked # <<>> => Range(Scope(asked)) \subseteq Range(asked)
<1>1. CASE asked = <<>>
  <2>1. IsFiniteSet(Accessible)
    BY ExperimentsAssumption, FS_Subset DEF Accessible
  <2>2. QED
    BY <1>1, <2>1, SetToSeqLists DEF Scope
<1>2. CASE asked # <<>>
  <2> DEFINE n == Len(asked)
             V == Seq(Accessible \cap Range(asked))
             Taken(ids, p) == IF p \in Accessible THEN Append(ids, p) ELSE ids
             fold == CHOOSE f : f = [t \in SUBSET DOMAIN asked |->
                       IF t = {} THEN <<>> ELSE Taken(f[t \ {Max(t)}], asked[Max(t)])]
  <2>1. n \in Nat /\ DOMAIN asked = 1 .. n /\ \A i \in 1 .. n : asked[i] \in Range(asked)
    BY DEF Range
  <2> HIDE DEF n
  <2>2. Scope(asked) = fold[1 .. n]
    BY <1>2, <2>1 DEF Scope, FoldLeft, MapThenFoldSet
  <2>3. \A ids \in V, i \in 1 .. n : Taken(ids, asked[i]) \in V
    BY <2>1
  <2>4. <<>> \in V
    OBVIOUS
  <2> HIDE DEF V, Taken
  <2>5. fold = [t \in SUBSET (1 .. n) |->
                  IF t = {} THEN <<>> ELSE Taken(fold[t \ {Max(t)}], asked[Max(t)])]
    <3> DEFINE G == [x \in V \X (1 .. n) |-> Taken(x[1], asked[x[2]])]
    <3>1. G \in [V \X (1 .. n) -> V]
      BY <2>3
    <3>2. PICK f : IsFold(f, n, V, <<>>, G)
      <4> HIDE DEF G
      <4>1. QED
        BY <2>1, <2>4, <3>1, FoldExists
    <3>3. \A t \in SUBSET (1 .. n) : t # {} => Max(t) \in 1 .. n /\ t \ {Max(t)} \in SUBSET (1 .. n)
      BY <2>1, NonEmptyHasMax
    <3>4. \A t \in SUBSET (1 .. n) :
            f[t] = IF t = {} THEN <<>> ELSE Taken(f[t \ {Max(t)}], asked[Max(t)])
      BY <3>2, <3>3 DEF IsFold
    <3>5. f = [t \in SUBSET (1 .. n) |->
                 IF t = {} THEN <<>> ELSE Taken(f[t \ {Max(t)}], asked[Max(t)])]
      BY <3>2, <3>4 DEF IsFold
    <3>6. QED
      BY <2>1, <3>5
  <2> HIDE DEF fold
  <2>6. \A i \in 0 .. n : i \in {k \in 0 .. n : fold[1 .. k] \in V}
    <3> DEFINE T == {k \in 0 .. n : fold[1 .. k] \in V}
    <3>1. 0 \in T
      BY <2>1, <2>4, <2>5
    <3>2. ASSUME NEW i \in 1 .. n, i - 1 \in T PROVE i \in T
      <4>1. Max(1 .. i) = i /\ (1 .. i) \ {i} = 1 .. i - 1 /\ 1 .. i # {} /\ 1 .. i \in SUBSET (1 .. n)
        BY <2>1, TopOfInterval
      <4>2. fold[1 .. i] = Taken(fold[1 .. i - 1], asked[i])
        BY <2>5, <4>1
      <4>3. i \in 0 .. n
        BY <2>1
      <4>4. QED
        BY <2>3, <3>2, <4>2, <4>3
    <3> HIDE DEF T
    <3>3. QED
      BY <2>1, <3>1, <3>2, InductionTo DEF T
  <2>7. Scope(asked) \in V
    BY <2>1, <2>2, <2>6
  <2>8. QED
    BY <1>2, <2>7 DEF V, Range
<1>3. QED
  BY <1>1, <1>2

-----------------------------------------------------------------------------
(* The reports.                                                            *)

\* What one SELECT of a request returns: rows of its scope, finitely many.
LEMMA RowsReadTyped ==
  ASSUME RowsInv, RowsFinite
  PROVE  InScope(RowsRead)
BY FS_Subset DEF RowsRead, RowsInv, RowsTyped, RowsFinite, InScope

\* The fields of a request after a query.
LEMMA ReadsSets ==
  ASSUME RequestTyped, NEW stage, NEW rows, NEW known, Reads(stage, rows, known)
  PROVE  /\ request' = [stage |-> stage, kind |-> request.kind, ids |-> request.ids,
                        asked |-> request.asked, rows |-> rows, report |-> known]
         /\ request'.stage = stage /\ request'.kind = request.kind
         /\ request'.ids = request.ids /\ request'.asked = request.asked
         /\ request'.rows = rows /\ request'.report = known
<1>1. request' = [stage |-> stage, kind |-> request.kind, ids |-> request.ids,
                  asked |-> request.asked, rows |-> rows, report |-> known]
  BY DEF RequestTyped, Reads
<1>2. QED
  BY <1>1

\* A comparison table of the rows that were read.
LEMMA CompareIsComplete ==
  ASSUME RowsInv, RowsFinite, RequestTyped, NEW minPapers \in MinPapers, NEW filter,
         Compare(minPapers, filter)
  PROVE  TableIsComplete'
<1> DEFINE rows == Selected(filter)
           table == ComparisonTable(rows, minPapers)
           named == {r \in rows : r.dataset # NoDataset}
           Alike(r) == {s \in named : s.dataset = r.dataset /\ s.metric = r.metric}
           Few(r) == Cardinality({s.paper : s \in Alike(r)}) < minPapers
           shown == {r \in named : ~ Few(r)}
           Group(r) == [dataset |-> r.dataset, metric |-> r.metric,
                        cells |-> Alike(r), best |-> Best(Alike(r))]
<1>1. request'.rows = rows /\ request'.report.comparison = table /\ request'.report.minPapers = minPapers
  <2>1. /\ request'.rows = rows
        /\ request'.report = [minPapers |-> minPapers, comparison |-> table]
    BY ReadsSets DEF Compare
  <2>2. QED
    BY <2>1
<1>2. rows \subseteq Row /\ IsFiniteSet(rows) /\ minPapers \in Nat
  BY RowsReadTyped, ExperimentsAssumption, FS_Subset DEF Selected, InScope
<1> HIDE DEF rows
<1>3. \A r : IsFiniteSet(Alike(r)) /\ IsFiniteSet({s.paper : s \in Alike(r)})
             /\ Cardinality({s.paper : s \in Alike(r)}) \in Nat
  <2> SUFFICES ASSUME NEW r
               PROVE  IsFiniteSet(Alike(r)) /\ IsFiniteSet({s.paper : s \in Alike(r)})
    BY FS_CardinalityType
  <2> DEFINE f == [s \in Alike(r) |-> s.paper]
  <2>1. IsFiniteSet(Alike(r))
    BY <1>2, FS_Subset
  <2>2. DOMAIN f = Alike(r) /\ f = [s \in Alike(r) |-> f[s]] /\ {f[s] : s \in Alike(r)} = {s.paper : s \in Alike(r)}
    OBVIOUS
  <2> HIDE DEF f, Alike
  <2>3. IsFiniteSet({f[s] : s \in Alike(r)})
    BY <2>1, <2>2, ImageIsFinite
  <2>4. QED
    BY <2>1, <2>2, <2>3
<1>4. table.table = {Group(r) : r \in shown} /\ table.ungrouped = Cardinality(rows \ named)
  <2>1. \A r \in named : ~ Few(r) <=> Cardinality({s.paper : s \in Alike(r)}) >= minPapers
    <3> SUFFICES ASSUME NEW r \in named
                 PROVE  ~ Few(r) <=> Cardinality({s.paper : s \in Alike(r)}) >= minPapers
      OBVIOUS
    <3> DEFINE count == Cardinality({s.paper : s \in Alike(r)})
    <3>1. count \in Nat /\ minPapers \in Nat
      BY <1>2, <1>3
    <3>2. Few(r) <=> count < minPapers
      OBVIOUS
    <3> HIDE DEF count, Few
    <3>3. ~ Few(r) <=> count >= minPapers
      BY <3>1, <3>2
    <3>4. QED
      BY <3>3 DEF count
  <2>2. QED
    BY <2>1 DEF ComparisonTable
<1>5. Cardinality(rows \ named) = Cardinality(rows) - Cardinality(named)
  <2>1. rows \cap named = named
    OBVIOUS
  <2> HIDE DEF named
  <2>2. QED
    BY <1>2, <2>1, FS_Difference
<1>6. \A r \in named : r \in Alike(r) /\ \A s \in Alike(r) : Alike(s) = Alike(r)
  OBVIOUS
<1>7. ASSUME NEW r \in named
      PROVE  LET here == {g \in table.table : r \in g.cells}
             IN  IF Few(r) THEN here = {}
                 ELSE Cardinality(here) = 1 /\ \A g \in here : g.cells = Alike(r)
  <2> DEFINE here == {g \in table.table : r \in g.cells}
  <2>1. \A s \in shown : r \in Alike(s) => Alike(s) = Alike(r) /\ ~ Few(r) /\ Group(s) = Group(r)
    OBVIOUS
  <2>2. \A g \in here : g = Group(r) /\ ~ Few(r)
    <3> HIDE DEF Few, Alike
    <3>1. QED
      BY <1>4, <2>1
  <2>3. ~ Few(r) => Group(r) \in here
    <3> HIDE DEF Few, Alike
    <3>1. QED
      BY <1>4, <1>6
  <2>4. Group(r).cells = Alike(r)
    OBVIOUS
  <2> HIDE DEF here, Group, Alike, Few
  <2>5. ~ Few(r) => here = {Group(r)}
    BY <2>2, <2>3
  <2>6. ~ Few(r) => Cardinality(here) = 1
    BY <2>5, FS_Singleton
  <2>7. Few(r) => here = {}
    BY <2>2
  <2>8. QED
    BY <2>2, <2>4, <2>6, <2>7 DEF here
<1>8. ASSUME NEW g \in table.table, NEW r \in g.cells
      PROVE  IF g.metric \in LowerIsBetter THEN g.best.value <= r.value ELSE g.best.value >= r.value
  <2>1. PICK q \in shown : g = Group(q)
    BY <1>4
  <2>2. g.cells = Alike(q) /\ g.best = Best(Alike(q)) /\ g.metric = q.metric
    BY <2>1
  <2>3. Alike(q) \in SUBSET Row /\ Alike(q) # {} /\ \A a, b \in Alike(q) : a.metric = b.metric
    BY <1>2, <1>6
  <2>4. r \in Alike(q) /\ \A a \in Alike(q) : a.metric = q.metric
    BY <2>2
  <2> HIDE DEF Alike
  <2>5. Best(Alike(q)) \in Alike(q) /\ \A s \in Alike(q) : ~ Beats(s, Best(Alike(q)))
    BY <1>3, <2>3, BestIsUnbeaten
  <2>6. QED
    BY <2>2, <2>3, <2>4, <2>5, UnbeatenIsBest
<1> HIDE DEF table, named
<1>9. QED
  BY <1>1, <1>4, <1>5, <1>7, <1>8 DEF TableIsComplete, named

\* Two values differ by 5% when their gap is at least a twentieth of each.
LEMMA DifferAsStated ==
  ASSUME NEW a \in Row, NEW b \in Row
  PROVE  Differ(a, b) <=>
           LET gap == Magnitude(a.value - b.value)
           IN  gap # 0 /\ ~ (\A x \in {a.value, b.value} : 20 * gap < Magnitude(x))
               /\ \A x \in {a.value, b.value} : 20 * gap >= Magnitude(x)
<1> DEFINE x == a.value
           y == b.value
<1>1. x \in Int /\ y \in Int
  BY RowValues
<1> HIDE DEF x, y
<1>2. ASSUME NEW u \in Int PROVE Magnitude(u) \in Nat
  BY DEF Magnitude
<1>3. Magnitude(x - y) # 0 <=> x # y
  BY <1>1 DEF Magnitude
<1>4. Magnitude(x) \in Nat /\ Magnitude(y) \in Nat /\ Magnitude(x - y) \in Nat
  BY <1>1, <1>2
<1>5. \A m, n, g \in Nat : 20 * g >= Larger(m, n) <=>
        ~ (20 * g < m /\ 20 * g < n) /\ 20 * g >= m /\ 20 * g >= n
  BY DEF Larger
<1>6. 20 * Magnitude(x - y) >= Larger(Magnitude(x), Magnitude(y)) <=>
        /\ ~ (20 * Magnitude(x - y) < Magnitude(x) /\ 20 * Magnitude(x - y) < Magnitude(y))
        /\ 20 * Magnitude(x - y) >= Magnitude(x) /\ 20 * Magnitude(x - y) >= Magnitude(y)
  <2> HIDE DEF Magnitude, Larger
  <2>1. QED
    BY <1>4, <1>5
<1>7. Differ(a, b) <=> x # y /\ 20 * Magnitude(x - y) >= Larger(Magnitude(x), Magnitude(y))
  BY DEF Differ, x, y
<1>8. QED
  BY <1>3, <1>6, <1>7 DEF x, y

\* What a check of the consistency reports.
LEMMA ConsistencySets ==
  ASSUME RequestTyped, NEW judged, NEW verdicts, CheckConsistency(judged, verdicts)
  PROVE  /\ request'.ids = request.ids /\ request'.rows = request.rows
         /\ request'.report.conflicts = NumericConflicts(request.ids, request.report.kept)
         /\ request'.report.contradictions = {pair \in judged : verdicts[pair] = "contradiction"}
         /\ request'.report.agreements = {pair \in judged : verdicts[pair] = "agreement"}
<1> DEFINE made == [conflicts |-> NumericConflicts(request.ids, request.report.kept),
                    contradictions |-> {pair \in judged : verdicts[pair] = "contradiction"},
                    agreements |-> {pair \in judged : verdicts[pair] = "agreement"},
                    titled |-> request.report.titled]
<1>1. Reads("reported", request.rows, made)
  BY DEF CheckConsistency
<1>2. /\ request'.ids = request.ids /\ request'.rows = request.rows /\ request'.report = made
  <2> HIDE DEF made
  <2>1. QED
    BY <1>1, ReadsSets
<1>3. QED
  BY <1>2

\* The conflicts among the rows that were read.
LEMMA ConflictsFollow ==
  ASSUME ReadInScope, Knows, RequestTyped, NEW judged, NEW verdicts,
         CheckConsistency(judged, verdicts)
  PROVE  ConflictsAreReal'
<1> DEFINE rows == request.rows
           kept == request.report.kept
           keyed == {r \in rows : r.dataset # NoDataset}
           found == NumericConflicts(request.ids, kept)
           once == \A r, s \in rows :
                     r.paper = s.paper /\ r.dataset # NoDataset /\ s.dataset # NoDataset
                     /\ SameKey(r, s) => r = s
           Apart(r, s) == LET gap == Magnitude(r.value - s.value)
                          IN  gap # 0 /\ ~ (\A x \in {r.value, s.value} : 20 * gap < Magnitude(x))
                              /\ \A x \in {r.value, s.value} : 20 * gap >= Magnitude(x)
           pairs == {x \in rows \X rows :
                       LET r == x[1] s == x[2]
                       IN  /\ r.dataset # NoDataset /\ s.dataset # NoDataset
                           /\ r.paper # s.paper /\ SameKey(r, s) /\ Apart(r, s)}
           kpairs == {y \in kept \X kept : /\ y[1].paper # y[2].paper
                                           /\ SameKey(y[1], y[2]) /\ Differ(y[1], y[2])}
<1>1. /\ kept \in OnePerPaper(rows) /\ request.ids \in Seq(Library)
      /\ request'.rows = rows /\ request'.report.conflicts = found
  BY ConsistencySets DEF CheckConsistency, RequestTyped, Knows
<1>2. rows \subseteq Row /\ \A r \in rows : r.paper \in Range(request.ids)
  BY DEF ReadInScope, InScope, CheckConsistency
<1> HIDE DEF rows, kept
<1>3. /\ kept \subseteq keyed
      /\ \A r \in keyed : Cardinality({k \in kept : k.paper = r.paper /\ SameKey(k, r)}) = 1
  BY <1>1 DEF OnePerPaper
<1>4. \A r, s \in rows : Differ(r, s) <=> Apart(r, s)
  BY <1>2, DifferAsStated
<1> HIDE DEF Apart
<1>5. found \subseteq {{x[1], x[2]} : x \in kpairs}
  BY DEF NumericConflicts
<1>6. kpairs \subseteq pairs
  BY <1>3, <1>4
<1>7. ASSUME once, NEW x \in pairs PROVE {x[1], x[2]} \in found
  <2>1. /\ x[1] \in keyed /\ x[2] \in keyed /\ x[1].paper # x[2].paper /\ SameKey(x[1], x[2])
        /\ Differ(x[1], x[2]) /\ x = <<x[1], x[2]>>
    BY <1>4
  <2>2. ASSUME NEW r \in keyed PROVE r \in kept
    <3>1. {k \in kept : k.paper = r.paper /\ SameKey(k, r)} # {}
      BY <1>3, FS_EmptySet
    <3>2. PICK k \in kept : k.paper = r.paper /\ SameKey(k, r)
      BY <3>1
    <3>3. k = r
      BY <1>3, <1>7, <3>2
    <3>4. QED
      BY <3>2, <3>3
  <2>3. x \in kpairs
    <3> HIDE DEF keyed, pairs
    <3>1. QED
      BY <2>1, <2>2
  <2>4. ~ (Len(request.ids) < 2)
    <3>1. PICK i \in DOMAIN request.ids : request.ids[i] = x[1].paper
      BY <1>2, <2>1 DEF Range
    <3>2. PICK j \in DOMAIN request.ids : request.ids[j] = x[2].paper
      BY <1>2, <2>1 DEF Range
    <3>3. i # j /\ i \in 1 .. Len(request.ids) /\ j \in 1 .. Len(request.ids) /\ Len(request.ids) \in Nat
      BY <1>1, <2>1, <3>1, <3>2
    <3>4. QED
      BY <3>3
  <2>5. QED
    BY <2>3, <2>4 DEF NumericConflicts
<1> HIDE DEF found, pairs, kpairs
<1>8. found \subseteq {{x[1], x[2]} : x \in pairs}
  BY <1>5, <1>6
<1>9. once => found = {{x[1], x[2]} : x \in pairs}
  BY <1>7, <1>8
<1>10. QED
  BY <1>1, <1>8, <1>9 DEF ConflictsAreReal, pairs, Apart

\* The claims that are compared, and how many.
LEMMA PairsAcrossPapers ==
  ASSUME NEW ids \in Seq(Library), NEW papers, NEW judged \in JudgedPairs(ids, papers)
  PROVE  /\ IsFiniteSet(judged) /\ Cardinality(judged) <= MaxPairs
         /\ \A pair \in judged : \E p, q \in Range(ids) :
              p # q /\ pair \cap ClaimsOf[p] # {} /\ pair \cap ClaimsOf[q] # {}
<1> DEFINE holders == ClaimHolders(ids, papers)
           pairs == CandidatePairs(ids, papers)
<1>1. MaxPairs \in Nat /\ IsFiniteSet(Related)
  BY ExperimentsAssumption
<1>2. CASE Len(ids) < 2
  <2>1. judged = {}
    BY <1>2 DEF JudgedPairs
  <2>2. QED
    BY <1>1, <2>1, FS_EmptySet
<1>3. CASE ~ (Len(ids) < 2)
  <2>1. /\ judged \subseteq pairs
        /\ Cardinality(judged) = IF Cardinality(pairs) < MaxPairs THEN Cardinality(pairs) ELSE MaxPairs
    BY <1>3 DEF JudgedPairs
  <2>2. IsFiniteSet(pairs)
    BY <1>1, FS_Subset DEF CandidatePairs
  <2>3. Cardinality(pairs) \in Nat /\ IsFiniteSet(judged)
    <3> HIDE DEF pairs
    <3>1. QED
      BY <2>1, <2>2, FS_Subset, FS_CardinalityType
  <2>4. Cardinality(judged) <= MaxPairs
    <3> HIDE DEF pairs
    <3>1. QED
      BY <1>1, <2>1, <2>3
  <2>5. ASSUME NEW pair \in judged
        PROVE  \E p, q \in Range(ids) :
                 p # q /\ pair \cap ClaimsOf[p] # {} /\ pair \cap ClaimsOf[q] # {}
    <3>1. pair \in pairs
      BY <2>1
    <3>2. PICK cd \in UNION {ClaimsOf[ids[ij[1]]] \X ClaimsOf[ids[ij[2]]] :
                               ij \in {x \in holders \X holders : x[1] < x[2]}} :
            pair = {cd[1], cd[2]}
      BY <3>1 DEF CandidatePairs
    <3>3. PICK i \in holders, j \in holders :
            i < j /\ cd[1] \in ClaimsOf[ids[i]] /\ cd[2] \in ClaimsOf[ids[j]]
      <4> HIDE DEF holders
      <4>1. QED
        BY <3>2
    <3>4. i \in DOMAIN ids /\ j \in DOMAIN ids /\ i \in Nat /\ j \in Nat
      BY DEF ClaimHolders
    <3>5. TitleOf[ids[j]] = TitleOf[ids[i]] => j <= i
      BY DEF ClaimHolders
    <3>6. ids[i] # ids[j]
      BY <3>3, <3>4, <3>5
    <3>7. QED
      BY <3>2, <3>3, <3>4, <3>6 DEF Range
  <2>6. QED
    BY <2>3, <2>4, <2>5
<1>4. QED
  BY <1>2, <1>3

\* A check of the consistency gives at most one verdict on a pair.
LEMMA ClaimsFollow ==
  ASSUME RequestTyped, NEW judged, NEW verdicts, CheckConsistency(judged, verdicts)
  PROVE  ClaimsAreComparedAcrossPapers'
<1> DEFINE against == {pair \in judged : verdicts[pair] = "contradiction"}
           alike == {pair \in judged : verdicts[pair] = "agreement"}
           given == against \cup alike
<1>1. /\ request'.ids = request.ids /\ request.ids \in Seq(Library)
      /\ judged \in JudgedPairs(request.ids, request.report.titled)
      /\ request'.report.contradictions = against /\ request'.report.agreements = alike
  BY ConsistencySets DEF CheckConsistency, RequestTyped
<1>2. /\ IsFiniteSet(judged) /\ Cardinality(judged) <= MaxPairs
      /\ \A pair \in judged : \E p, q \in Range(request.ids) :
           p # q /\ pair \cap ClaimsOf[p] # {} /\ pair \cap ClaimsOf[q] # {}
  BY <1>1, PairsAcrossPapers
<1>3. against \cap alike = {} /\ given \subseteq judged
  OBVIOUS
<1> HIDE DEF against, alike
<1>4. Cardinality(given) <= MaxPairs
  <2>1. Cardinality(given) <= Cardinality(judged) /\ IsFiniteSet(given)
    BY <1>2, <1>3, FS_Subset
  <2>2. Cardinality(given) \in Nat /\ Cardinality(judged) \in Nat /\ MaxPairs \in Nat
    BY <1>2, <2>1, FS_CardinalityType, ExperimentsAssumption
  <2> HIDE DEF given
  <2>3. QED
    BY <1>2, <2>1, <2>2
<1>5. QED
  BY <1>1, <1>2, <1>3, <1>4 DEF ClaimsAreComparedAcrossPapers

\* An entity that some listed paper mentions is missing where no mention says otherwise.
LEMMA CoverageIsReal ==
  ASSUME NEW ids \in Seq(Library), NEW M, IsFiniteSet(M),
         NEW g \in CoverageGaps(ids, M)
  PROVE  /\ g.missing # {} /\ g.missing \subseteq Range(ids)
         /\ \A p \in g.missing : [paper |-> p, entity |-> g.entity] \notin M
         /\ \E m \in M : m.entity = g.entity /\ m.paper \in Range(ids)
<1> DEFINE listed == Range(ids)
           Covered(e) == {m.paper : m \in {x \in M : x.entity = e /\ x.paper \in listed}}
           total == Len(ids)
<1>1. total \in Nat
  OBVIOUS
<1> HIDE DEF listed
<1>2. PICK e : /\ g = [entity |-> e, missing |-> listed \ Covered(e)] /\ total >= 3
               /\ 10 * Cardinality(Covered(e)) >= 4 * total /\ listed \ Covered(e) # {}
  <2>1. ~ (total < 3)
    BY DEF CoverageGaps
  <2>2. g \in {[entity |-> e, missing |-> listed \ Covered(e)] : e \in
                {x \in {m.entity : m \in M} :
                   /\ 10 * Cardinality(Covered(x)) >= 4 * total
                   /\ Cardinality(Covered(x)) < total
                   /\ listed \ Covered(x) # {}}}
    BY <2>1 DEF CoverageGaps, listed
  <2> HIDE DEF Covered
  <2>3. total >= 3
    BY <1>1, <2>1
  <2>4. QED
    BY <2>2, <2>3
<1>3. g.entity = e /\ g.missing = listed \ Covered(e)
  BY <1>2
<1>4. Covered(e) # {}
  <2> SUFFICES ASSUME Covered(e) = {} PROVE FALSE
    OBVIOUS
  <2>1. Cardinality(Covered(e)) = 0
    BY FS_EmptySet
  <2> HIDE DEF Covered, total
  <2>2. QED
    BY <1>1, <1>2, <2>1
<1>5. \E m \in M : m.entity = e /\ m.paper \in listed
  BY <1>4
<1>6. ASSUME NEW p \in listed \ Covered(e) PROVE [paper |-> p, entity |-> e] \notin M
  <2> SUFFICES ASSUME [paper |-> p, entity |-> e] \in M PROVE p \in Covered(e)
    BY <1>6
  <2>1. [paper |-> p, entity |-> e].paper = p /\ [paper |-> p, entity |-> e].entity = e
    OBVIOUS
  <2>2. QED
    BY <1>6, <2>1
<1> HIDE DEF Covered
<1>7. QED
  BY <1>2, <1>3, <1>5, <1>6 DEF listed

\* A model is untested on a dataset that some row names and no row has with the model.
LEMMA UntestedIsReal ==
  ASSUME NEW ids, NEW rows, NEW g \in EvaluationGaps(ids, rows), NEW d \in g.untested
  PROVE  /\ ~ \E r \in rows : r.model = g.model /\ r.dataset # NoDataset /\ KeyOf[r.dataset] = d
         /\ \E r \in rows : r.dataset # NoDataset /\ KeyOf[r.dataset] = d
<1> DEFINE keyed == {r \in rows : r.dataset # NoDataset}
           models == {r.model : r \in keyed}
           datasets == {KeyOf[r.dataset] : r \in keyed}
           Tested(m) == {KeyOf[r.dataset] : r \in {x \in keyed : x.model = m}}
<1>1. PICK m \in models : g = [model |-> m, untested |-> datasets \ Tested(m)]
  BY DEF EvaluationGaps
<1>2. g.model = m /\ d \in datasets /\ d \notin Tested(m)
  BY <1>1
<1>3. QED
  BY <1>2

\* The gaps in the mentions and in the rows that were read.
LEMMA GapsFollow ==
  ASSUME Knows, RequestTyped, FindGaps
  PROVE  GapsAreHoles' /\ Knows'
<1> DEFINE M == request.report.mentioned
           made == [coverage |-> CoverageGaps(request.ids, M), mentioned |-> M,
                      untested |-> EvaluationGaps(request.ids, RowsRead), conflicts |-> {}]
<1>1. request.stage = "covered" /\ Reads("gaps", RowsRead, made)
  BY DEF FindGaps
<1>2. /\ request'.stage = "gaps" /\ request'.kind = request.kind /\ request'.ids = request.ids
      /\ request'.rows = RowsRead /\ request'.report = made
  <2> HIDE DEF made
  <2>1. QED
    BY <1>1, ReadsSets
<1>3. /\ made.coverage = CoverageGaps(request.ids, M) /\ made.mentioned = M
      /\ made.untested = EvaluationGaps(request.ids, RowsRead)
      /\ made = [coverage |-> made.coverage, mentioned |-> made.mentioned,
                 untested |-> made.untested, conflicts |-> {}]
  OBVIOUS
<1> HIDE DEF made
<1>4. Knows'
  BY <1>1, <1>2, <1>3 DEF Knows
<1>5. request.ids \in Seq(Library) /\ IsFiniteSet(M)
  BY <1>1 DEF RequestTyped, Knows, MentionsFinite
<1> HIDE DEF M
<1>6. GapsAreHoles'
  BY <1>2, <1>3, <1>5, CoverageIsReal, UntestedIsReal DEF GapsAreHoles
<1>7. QED
  BY <1>4, <1>6

\* Papers counted by their years are all counted.
LEMMA YearsAddUp ==
  ASSUME NEW P, IsFiniteSet(P), NEW years, years = {YearOf[p] : p \in P},
         NEW F, \A y \in years : F[y] = Cardinality({p \in P : YearOf[p] = y})
  PROVE  SumOver(F, years) = Cardinality(P)
<1> DEFINE f == [p \in P |-> YearOf[p]]
           C == [y \in years |-> {p \in P : YearOf[p] = y}]
<1>1. IsFiniteSet(years)
  <2>1. DOMAIN f = P /\ f = [p \in P |-> f[p]] /\ {f[p] : p \in P} = years
    OBVIOUS
  <2> HIDE DEF f
  <2>2. IsFiniteSet({f[p] : p \in P})
    BY <2>1, ImageIsFinite
  <2>3. QED
    BY <2>1, <2>2
<1>2. C \in [years -> SUBSET P]
  OBVIOUS
<1>3. \A y \in years : C[y] = {p \in P : YearOf[p] = y}
  OBVIOUS
<1>4. \A x, y \in years : x # y => C[x] \cap C[y] = {}
  <2> HIDE DEF C
  <2>1. QED
    BY <1>3
<1>5. UNION {C[y] : y \in years} = P
  <2>1. \A p \in P : YearOf[p] \in years /\ p \in C[YearOf[p]]
    BY <1>3
  <2> HIDE DEF C
  <2>2. QED
    BY <1>2, <2>1
<1>6. \A y \in years : F[y] = Cardinality(C[y])
  BY <1>3
<1> HIDE DEF C
<1>7. SumOver(F, years) = Cardinality(UNION {C[y] : y \in years})
  BY <1>1, <1>2, <1>4, <1>6, SizesAddUp
<1>8. QED
  BY <1>5, <1>7

\* The timeline has every listed paper in one year, or undated.
LEMMA TimelineAddsUp ==
  ASSUME NEW listed, IsFiniteSet(listed)
  PROVE  LET timeline == Timeline(listed)
         IN  SumOver(timeline.years, DOMAIN timeline.years) + timeline.undated = Cardinality(listed)
<1> DEFINE P == {q \in listed : Dated(q)}
           years == {YearOf[p] : p \in P}
           F == Timeline(listed).years
           undated == {p \in listed : ~ Dated(p)}
<1>1. /\ DOMAIN F = years /\ Timeline(listed).undated = Cardinality(undated)
      /\ \A y \in years : F[y] = Cardinality({p \in listed : YearOf[p] = y})
  BY DEF Timeline
<1>2. \A y \in years : {p \in listed : YearOf[p] = y} = {p \in P : YearOf[p] = y}
  BY DEF Dated
<1>3. \A y \in years : F[y] = Cardinality({p \in P : YearOf[p] = y})
  <2> HIDE DEF F, P
  <2>1. QED
    BY <1>1, <1>2
<1>4. IsFiniteSet(P) /\ IsFiniteSet(undated)
  BY FS_Subset
<1>5. SumOver(F, years) = Cardinality(P)
  <2> HIDE DEF F, P
  <2>1. QED
    BY <1>3, <1>4, YearsAddUp
<1>6. P = listed \ undated /\ listed \cap undated = undated
  OBVIOUS
<1> HIDE DEF P, undated, F, years
<1>7. Cardinality(P) = Cardinality(listed) - Cardinality(undated)
  BY <1>6, FS_Difference
<1>8. Cardinality(listed) \in Nat /\ Cardinality(undated) \in Nat
  BY <1>4, FS_CardinalityType
<1>9. QED
  BY <1>1, <1>5, <1>7, <1>8 DEF F

\* The years of an entity count the dated, listed papers that mention it.
LEMMA SeriesAddsUp ==
  ASSUME NEW K, MentionsFinite(K), NEW e, NEW listed
  PROVE  LET series == Series(e, listed, K)
         IN  SumOver(series, DOMAIN series) =
               Cardinality({m \in K : m.entity = e /\ m.paper \in listed /\ Dated(m.paper)})
<1> DEFINE M == {m \in K : m.entity = e /\ m.paper \in listed /\ Dated(m.paper)}
           f == [m \in M |-> m.paper]
           P == {m.paper : m \in M}
           years == {YearOf[p] : p \in P}
           F == Series(e, listed, K)
<1>1. IsFiniteSet(M)
  BY FS_Subset DEF MentionsFinite
<1>2. \A m, n \in M : f[m] = f[n] => m = n
  BY DEF MentionsFinite
<1>3. DOMAIN f = M /\ f = [m \in M |-> f[m]] /\ {f[m] : m \in M} = P
  OBVIOUS
<1>4. IsFiniteSet(P) /\ Cardinality(P) = Cardinality(M)
  <2> HIDE DEF f, M, P
  <2>1. IsFiniteSet({f[m] : m \in M}) /\ Cardinality({f[m] : m \in M}) = Cardinality(M)
    BY <1>1, <1>2, <1>3, ImageIsFinite
  <2>2. QED
    BY <1>3, <2>1
<1>5. F = [y \in years |-> Cardinality({p \in P : YearOf[p] = y})]
  BY DEF Series
<1>6. DOMAIN F = years /\ \A y \in years : F[y] = Cardinality({p \in P : YearOf[p] = y})
  <2> HIDE DEF F, P
  <2>1. QED
    BY <1>5
<1>7. SumOver(F, years) = Cardinality(P)
  <2> HIDE DEF F, P
  <2>1. QED
    BY <1>4, <1>6, YearsAddUp
<1> HIDE DEF P, F, years
<1>8. QED
  BY <1>4, <1>6, <1>7 DEF F

\* After i rows, the best of each year among them.
BestOfFirst(best, s, i) ==
  /\ DOMAIN best = {YearKey(s[j]) : j \in 1 .. i}
  /\ \A k \in DOMAIN best :
       /\ \E j \in 1 .. i : best[k] = s[j]
       /\ YearKey(best[k]) = k
       /\ \A j \in 1 .. i : YearKey(s[j]) = k => ~ Beats(s[j], best[k])

LEMMA KeepBestKeeps ==
  ASSUME NEW s \in Seq(Row), NEW i \in 1 .. Len(s), NEW best, BestOfFirst(best, s, i - 1)
  PROVE  BestOfFirst(KeepBest(best, s[i]), s, i)
<1> DEFINE r == s[i]
           key == YearKey(r)
           new == KeepBest(best, r)
<1>1. /\ \A j : j \in 1 .. i <=> j \in 1 .. i - 1 \/ j = i
      /\ \A j \in 1 .. i : s[j] \in Row /\ s[j].value \in Int
  BY RowValues
<1>2. \A a, b, c \in Row : YearKey(a) = YearKey(b) /\ YearKey(b) = YearKey(c)
        /\ Beats(a, b) /\ ~ Beats(c, b) => ~ Beats(c, a)
  <2> SUFFICES ASSUME NEW a \in Row, NEW b \in Row, NEW c \in Row, YearKey(a) = YearKey(b),
                      YearKey(b) = YearKey(c), Beats(a, b), ~ Beats(c, b)
               PROVE  ~ Beats(c, a)
    OBVIOUS
  <2>1. a.metric = b.metric /\ b.metric = c.metric
    BY DEF YearKey
  <2>2. a.value \in Int /\ b.value \in Int /\ c.value \in Int
    BY RowValues
  <2>3. QED
    BY <2>1, <2>2 DEF Beats
<1>3. \A a \in Row : ~ Beats(a, a)
  BY RowValues DEF Beats
<1>4. CASE key \in DOMAIN best /\ ~ Beats(r, best[key])
  <2>1. new = best
    BY <1>4 DEF KeepBest
  <2>2. DOMAIN best = {YearKey(s[j]) : j \in 1 .. i}
    BY <1>1, <1>4 DEF BestOfFirst
  <2>3. ASSUME NEW k \in DOMAIN best
        PROVE  /\ \E j \in 1 .. i : best[k] = s[j]
               /\ YearKey(best[k]) = k
               /\ \A j \in 1 .. i : YearKey(s[j]) = k => ~ Beats(s[j], best[k])
    BY <1>1, <1>4 DEF BestOfFirst
  <2>4. QED
    BY <2>1, <2>2, <2>3 DEF BestOfFirst
<1>5. CASE ~ (key \in DOMAIN best /\ ~ Beats(r, best[key]))
  <2>1. /\ DOMAIN new = DOMAIN best \cup {key} /\ new[key] = r
        /\ \A k \in DOMAIN best : k # key => new[k] = best[k]
    BY <1>5 DEF KeepBest
  <2> HIDE DEF new
  <2>2. DOMAIN new = {YearKey(s[j]) : j \in 1 .. i}
    BY <1>1, <2>1 DEF BestOfFirst
  <2>3. ASSUME NEW k \in DOMAIN new
        PROVE  /\ \E j \in 1 .. i : new[k] = s[j]
               /\ YearKey(new[k]) = k
               /\ \A j \in 1 .. i : YearKey(s[j]) = k => ~ Beats(s[j], new[k])
    <3>1. CASE k # key
      <4>1. k \in DOMAIN best /\ new[k] = best[k] /\ YearKey(s[i]) # k
        BY <2>1, <2>3, <3>1
      <4>2. QED
        BY <1>1, <4>1 DEF BestOfFirst
    <3>2. CASE k = key
      <4>1. new[k] = s[i] /\ YearKey(s[i]) = k /\ i \in 1 .. i /\ s[i] \in Row
        BY <1>1, <2>1, <3>2
      <4>2. ASSUME NEW j \in 1 .. i - 1, YearKey(s[j]) = k PROVE ~ Beats(s[j], s[i])
        <5>1. k \in DOMAIN best /\ ~ Beats(s[j], best[k]) /\ YearKey(best[k]) = k
          BY <4>2 DEF BestOfFirst
        <5>2. PICK l \in 1 .. i - 1 : best[k] = s[l]
          BY <5>1 DEF BestOfFirst
        <5>3. Beats(s[i], best[k])
          BY <1>5, <3>2, <5>1
        <5>4. s[j] \in Row /\ best[k] \in Row
          BY <1>1, <5>2
        <5>5. QED
          BY <1>2, <4>1, <4>2, <5>1, <5>3, <5>4
      <4>3. QED
        BY <1>1, <1>3, <4>1, <4>2
    <3>3. QED
      BY <3>1, <3>2
  <2>4. QED
    BY <2>2, <2>3 DEF BestOfFirst, new
<1>6. QED
  BY <1>4, <1>5

\* The pass over the rows ends with the best of each year among all of them.
LEMMA PassKeepsBest ==
  ASSUME NEW s \in Seq(Row)
  PROVE  BestOfFirst(FoldLeft(KeepBest, [k \in {} |-> {}], s), s, Len(s))
<1> DEFINE n == Len(s)
           D == {s[j] : j \in 1 .. n}
           V == UNION {[K -> D] : K \in SUBSET {YearKey(r) : r \in D}}
           none == [k \in {} |-> {}]
           fold == CHOOSE f : f = [t \in SUBSET DOMAIN s |->
                     IF t = {} THEN none ELSE KeepBest(f[t \ {Max(t)}], s[Max(t)])]
<1>1. n \in Nat /\ DOMAIN s = 1 .. n /\ n = Len(s)
  OBVIOUS
<1>2. FoldLeft(KeepBest, none, s) = fold[1 .. n]
  BY DEF FoldLeft, MapThenFoldSet
<1> HIDE DEF n
<1>3. none \in V
  <2>1. none \in [{} -> D] /\ {} \in SUBSET {YearKey(r) : r \in D}
    OBVIOUS
  <2> HIDE DEF none, D
  <2>2. QED
    BY <2>1
<1>4. ASSUME NEW best \in V, NEW i \in 1 .. n PROVE KeepBest(best, s[i]) \in V
  <2> DEFINE Keys == {YearKey(r) : r \in D}
  <2>1. s[i] \in D /\ YearKey(s[i]) \in Keys
    OBVIOUS
  <2> HIDE DEF D
  <2>2. PICK K \in SUBSET Keys : best \in [K -> D]
    OBVIOUS
  <2>3. KeepBest(best, s[i]) \in [K -> D] \/ KeepBest(best, s[i]) \in [K \cup {YearKey(s[i])} -> D]
    BY <2>1, <2>2 DEF KeepBest
  <2>4. K \cup {YearKey(s[i])} \in SUBSET Keys
    BY <2>1
  <2> HIDE DEF Keys
  <2>5. QED
    BY <2>2, <2>3, <2>4 DEF Keys
<1> HIDE DEF V, none
<1>5. fold = [t \in SUBSET (1 .. n) |-> IF t = {} THEN none ELSE KeepBest(fold[t \ {Max(t)}], s[Max(t)])]
  <2> DEFINE G == [x \in V \X (1 .. n) |-> KeepBest(x[1], s[x[2]])]
  <2>1. G \in [V \X (1 .. n) -> V]
    BY <1>4
  <2>2. PICK f : IsFold(f, n, V, none, G)
    <3> HIDE DEF G
    <3>1. QED
      BY <1>1, <1>3, <2>1, FoldExists
  <2>3. \A t \in SUBSET (1 .. n) : t # {} => Max(t) \in 1 .. n /\ t \ {Max(t)} \in SUBSET (1 .. n)
    BY <1>1, NonEmptyHasMax
  <2>4. \A t \in SUBSET (1 .. n) :
          f[t] = IF t = {} THEN none ELSE KeepBest(f[t \ {Max(t)}], s[Max(t)])
    BY <2>2, <2>3 DEF IsFold
  <2>5. f = [t \in SUBSET (1 .. n) |->
               IF t = {} THEN none ELSE KeepBest(f[t \ {Max(t)}], s[Max(t)])]
    BY <2>2, <2>4 DEF IsFold
  <2>6. QED
    BY <1>1, <2>5
<1> HIDE DEF fold
<1> DEFINE T == {i \in 0 .. n : BestOfFirst(fold[1 .. i], s, i)}
<1>6. 0 \in T
  <2>1. fold[1 .. 0] = none
    BY <1>5
  <2>2. BestOfFirst(none, s, 0)
    BY DEF BestOfFirst, none
  <2>3. QED
    BY <1>1, <2>1, <2>2
<1>7. ASSUME NEW i \in 1 .. n, i - 1 \in T PROVE i \in T
  <2>1. Max(1 .. i) = i /\ (1 .. i) \ {i} = 1 .. i - 1 /\ 1 .. i # {} /\ 1 .. i \in SUBSET (1 .. n)
    BY <1>1, TopOfInterval
  <2>2. fold[1 .. i] = KeepBest(fold[1 .. i - 1], s[i])
    BY <1>5, <2>1
  <2>3. BestOfFirst(KeepBest(fold[1 .. i - 1], s[i]), s, i)
    BY <1>1, <1>7, KeepBestKeeps
  <2>4. i \in 0 .. n
    BY <1>1
  <2>5. QED
    BY <2>2, <2>3, <2>4
<1> HIDE DEF T
<1>8. n \in T
  <2>1. \A i \in 1 .. n : i - 1 \in T => i \in T
    BY <1>7
  <2>2. n \in 0 .. n
    BY <1>1
  <2>3. QED
    BY <1>1, <1>6, <2>1, <2>2, InductionTo
<1>9. QED
  BY <1>1, <1>2, <1>8 DEF T, none

\* A point of a progression is the best value its year's rows report.
LEMMA PointsAreBest ==
  ASSUME NEW rows \in SUBSET Row, IsFiniteSet(rows),
         NEW g \in Progressions(rows), NEW y \in DOMAIN g.points
  PROVE  LET Of == {r.value : r \in {x \in rows : /\ x.dataset = g.dataset
                                                  /\ x.metric = g.metric
                                                  /\ YearOf[x.paper] = y}}
         IN  /\ g.points[y] \in Of
             /\ \A v \in Of : IF g.metric \in LowerIsBetter THEN g.points[y] <= v
                              ELSE g.points[y] >= v
<1> DEFINE dated == {r \in rows : r.dataset # NoDataset /\ Dated(r.paper)}
           s == SetToSeq(dated)
           best == FoldLeft(KeepBest, [k \in {} |-> {}], s)
           Years(x) == {k[2] : k \in {z \in DOMAIN best : z[1] = x}}
<1>1. IsFiniteSet(dated) /\ dated \subseteq Row
  BY FS_Subset
<1> DEFINE Of == {r.value : r \in {x \in rows : /\ x.dataset = g.dataset
                                                /\ x.metric = g.metric
                                                /\ YearOf[x.paper] = y}}
<1>2. g \in {[dataset |-> x[1], metric |-> x[2],
               points |-> [z \in Years(x) |-> best[<<x, z>>].value]] :
               x \in {h \in {k[1] : k \in DOMAIN best} : Cardinality(Years(h)) >= 2}}
  BY DEF Progressions
<1> HIDE DEF best
<1>3. PICK x : /\ x \in {k[1] : k \in DOMAIN best}
               /\ g = [dataset |-> x[1], metric |-> x[2],
                       points |-> [z \in Years(x) |-> best[<<x, z>>].value]]
  <2> HIDE DEF Years
  <2>1. QED
    BY <1>2
<1>4. y \in Years(x) /\ g.points[y] = best[<<x, y>>].value /\ g.dataset = x[1] /\ g.metric = x[2]
  <2> HIDE DEF Years
  <2>1. QED
    BY <1>3
<1>5. s \in Seq(dated) /\ (\A r \in dated : \E i \in DOMAIN s : s[i] = r)
  <2> HIDE DEF dated
  <2>1. QED
    BY <1>1, SetToSeqLists
<1> HIDE DEF s
<1>6. s \in Seq(Row) /\ DOMAIN s = 1 .. Len(s) /\ \A i \in 1 .. Len(s) : s[i] \in dated
  BY <1>1, <1>5
<1> HIDE DEF dated
<1>7. BestOfFirst(best, s, Len(s))
  BY <1>6, PassKeepsBest DEF best
<1>8. PICK k \in DOMAIN best : k[1] = x /\ k[2] = y
  BY <1>4
<1>9. PICK j \in 1 .. Len(s) : YearKey(s[j]) = k
  BY <1>7, <1>8 DEF BestOfFirst
<1>10. k = <<x, y>> /\ x = <<x[1], x[2]>>
  BY <1>8, <1>9 DEF YearKey
<1> DEFINE b == best[k]
<1>11. /\ \E i \in 1 .. Len(s) : b = s[i]
       /\ YearKey(b) = k
       /\ \A i \in 1 .. Len(s) : YearKey(s[i]) = k => ~ Beats(s[i], b)
  BY <1>7, <1>8 DEF BestOfFirst
<1> HIDE DEF b
<1>12. b \in dated /\ b \in rows /\ b \in Row /\ g.points[y] = b.value
  BY <1>4, <1>6, <1>10, <1>11 DEF b, dated
<1>13. /\ b.dataset = g.dataset /\ b.metric = g.metric /\ YearOf[b.paper] = y
       /\ b.dataset # NoDataset /\ YearOf[b.paper] # NoYear
  BY <1>4, <1>10, <1>11, <1>12 DEF YearKey, dated, Dated
<1>14. ASSUME NEW r \in rows, r.dataset = g.dataset, r.metric = g.metric, YearOf[r.paper] = y
       PROVE  IF g.metric \in LowerIsBetter THEN g.points[y] <= r.value ELSE g.points[y] >= r.value
  <2>1. r \in dated
    BY <1>13, <1>14 DEF dated, Dated
  <2>2. PICK i \in 1 .. Len(s) : s[i] = r
    BY <1>5, <1>6, <2>1
  <2>3. YearKey(s[i]) = k
    BY <1>4, <1>10, <1>14, <2>2 DEF YearKey
  <2>4. ~ Beats(r, b) /\ r.metric = b.metric /\ r \in Row
    BY <1>11, <1>13, <1>14, <2>2, <2>3
  <2>5. QED
    BY <1>12, <1>13, <2>4, UnbeatenIsBest
<1>15. QED
  BY <1>12, <1>13, <1>14

\* A report on trends adds up.
LEMMA TrendsFollow ==
  ASSUME RowsInv, RowsFinite, RequestTyped, Knows, FindTrends
  PROVE  TrendsAddUp'
<1> DEFINE listed == request.report.listed
           dated == request.report.dated
           K == request.report.mentioned
           entities == {m.entity : m \in K}
           made == [timeline |-> Timeline(listed), listed |-> listed, dated |-> dated,
                      mentioned |-> K, series |-> [e \in entities |-> Series(e, dated, K)],
                      progressions |-> Progressions(RowsRead)]
<1>1. Reads("reported", RowsRead, made)
  BY DEF FindTrends
<1>2. request'.rows = RowsRead /\ request'.report = made
  <2> HIDE DEF made
  <2>1. QED
    BY <1>1, ReadsSets
<1>3. RowsRead \in SUBSET Row /\ IsFiniteSet(RowsRead)
  BY RowsReadTyped DEF InScope
<1>4. IsFiniteSet(listed) /\ MentionsFinite(K)
  BY DEF Knows, FindTrends
<1>5. /\ made.timeline = Timeline(listed) /\ made.listed = listed /\ made.dated = dated
      /\ made.mentioned = K /\ DOMAIN made.series = entities
      /\ \A e \in entities : made.series[e] = Series(e, dated, K)
      /\ made.progressions = Progressions(RowsRead)
  OBVIOUS
<1> HIDE DEF listed, dated, K, entities, made
<1>6. SumOver(made.timeline.years, DOMAIN made.timeline.years) + made.timeline.undated
        = Cardinality(made.listed)
  BY <1>4, <1>5, TimelineAddsUp
<1>7. \A e \in entities :
        SumOver(made.series[e], DOMAIN made.series[e]) =
          Cardinality({m \in K : m.entity = e /\ m.paper \in dated /\ Dated(m.paper)})
  BY <1>4, <1>5, SeriesAddsUp
<1>8. \A g \in made.progressions : \A y \in DOMAIN g.points :
        LET Of == {r.value : r \in {x \in RowsRead : /\ x.dataset = g.dataset
                                                     /\ x.metric = g.metric
                                                     /\ YearOf[x.paper] = y}}
        IN  /\ g.points[y] \in Of
            /\ \A v \in Of : IF g.metric \in LowerIsBetter THEN g.points[y] <= v
                             ELSE g.points[y] >= v
  BY <1>3, <1>5, PointsAreBest
<1>9. QED
  BY <1>2, <1>5, <1>6, <1>7, <1>8 DEF TrendsAddUp

LEMMA ReportsInitially == ASSUME ExperimentsInit PROVE ReportInv
<1>1. RowsInv
  BY RowsInitially
<1>2. RowsFinite
  <2>1. results = {} /\ \A t \in Task : tasks[t].found = {}
    BY DEF ExperimentsInit
  <2>2. IsFiniteSet(mentions) /\ \A m \in mentions : m = [paper |-> m.paper, entity |-> m.entity]
    BY ExperimentsAssumption DEF ExperimentsInit
  <2>3. QED
    BY <2>1, <2>2, FS_EmptySet DEF RowsFinite, MentionsFinite
<1>3. request = [stage |-> "none", kind |-> "trends", ids |-> <<>>, asked |-> <<>>,
                 rows |-> {}, report |-> Nothing]
  BY DEF ExperimentsInit
<1>4. RequestTyped /\ ReadInScope /\ Knows
  BY <1>3 DEF RequestTyped, ReadInScope, Knows
<1>5. QED
  BY <1>1, <1>2, <1>3, <1>4
     DEF ReportInv, Reported, TableIsComplete, ConflictsAreReal, ClaimsAreComparedAcrossPapers,
         GapsAreHoles, TrendsAddUp

\* What a task or a deletion does to the rows leaves every report as it is.
LEMMA ReportUntouched ==
  ASSUME ReportInv, RowsInv', RowsFinite', UNCHANGED request
  PROVE  ReportInv'
<1>1. RequestTyped' /\ ReadInScope' /\ Knows'
  BY DEF ReportInv, RequestTyped, ReadInScope, InScope, Knows
<1>2. TableIsComplete'
  BY DEF ReportInv, TableIsComplete, Reported
<1>3. ConflictsAreReal'
  BY DEF ReportInv, ConflictsAreReal, Reported
<1>4. ClaimsAreComparedAcrossPapers' /\ GapsAreHoles'
  BY DEF ReportInv, ClaimsAreComparedAcrossPapers, GapsAreHoles, Reported
<1>5. TrendsAddUp'
  BY DEF ReportInv, TrendsAddUp, Reported
<1>6. QED
  BY <1>1, <1>2, <1>3, <1>4, <1>5 DEF ReportInv

\* A task keeps its findings, and the rows, finite.
LEMMA TasksStayFinite ==
  ASSUME RowsInv, RowsFinite, NEW t \in Task, UNCHANGED mentions,
         \/ \E p \in Library : Deliver(t, p)
         \/ \E found \in Extraction \cup {Nothing} : Extract(t, found)
         \/ DeleteRows(t) \/ CommitRows(t) \/ FailTask(t)
  PROVE  RowsFinite'
<1>1. /\ tasks \in [Task -> [stage : TaskStage, paper : Library \cup {Nothing}, attempt : Nat,
                             found : SUBSET FoundItem, doomed : SUBSET Row]]
      /\ IsFiniteSet(results) /\ \A u \in Task : IsFiniteSet(tasks[u].found)
      /\ IsFiniteSet({})
  BY FS_EmptySet DEF RowsInv, RowsTyped, RowsFinite
<1>2. ASSUME NEW new, IsFiniteSet(new.found), tasks' = [tasks EXCEPT ![t] = new], IsFiniteSet(results')
      PROVE  RowsFinite'
  <2>1. \A u \in Task : tasks'[u] = IF u = t THEN new ELSE tasks[u]
    BY <1>1, <1>2
  <2>2. \A u \in Task : IsFiniteSet(tasks'[u].found)
    BY <1>1, <1>2, <2>1
  <2>3. QED
    BY <1>2, <2>2 DEF RowsFinite
<1>3. ASSUME NEW p \in Library, Deliver(t, p) PROVE RowsFinite'
  <2> DEFINE new == [stage |-> "sent", paper |-> p, attempt |-> 1, found |-> {}, doomed |-> {}]
  <2>1. tasks' = [tasks EXCEPT ![t] = new] /\ UNCHANGED results /\ new.found = {}
    BY <1>3 DEF Deliver
  <2> HIDE DEF new
  <2>2. QED
    BY <1>1, <1>2, <2>1
<1>4. ASSUME NEW found \in Extraction \cup {Nothing}, Extract(t, found) PROVE RowsFinite'
  <2> DEFINE new == [tasks[t] EXCEPT !.stage = IF found = Nothing THEN "done" ELSE "read",
                                     !.found = IF found = Nothing THEN {} ELSE found]
  <2>1. tasks' = [tasks EXCEPT ![t] = new] /\ UNCHANGED results
    BY <1>1, <1>4 DEF Extract
  <2>2. new.found = IF found = Nothing THEN {} ELSE found
    BY <1>1
  <2>3. found # Nothing => IsFiniteSet(found)
    BY ExperimentsAssumption
  <2> HIDE DEF new
  <2>4. QED
    BY <1>1, <1>2, <2>1, <2>2, <2>3
<1>5. CASE DeleteRows(t)
  <2> DEFINE new == [tasks[t] EXCEPT !.stage = "deleted",
                                     !.doomed = {r \in results : r.paper = tasks[t].paper}]
  <2>1. tasks' = [tasks EXCEPT ![t] = new] /\ UNCHANGED results
    BY <1>1, <1>5 DEF DeleteRows
  <2>2. new.found = tasks[t].found
    BY <1>1
  <2> HIDE DEF new
  <2>3. QED
    BY <1>1, <1>2, <2>1, <2>2
<1>6. CASE CommitRows(t)
  <2> DEFINE new == [tasks[t] EXCEPT !.stage = "done", !.found = {}, !.doomed = {}]
             found == tasks[t].found
             f == [x \in found |-> [id |-> <<t, tasks[t].attempt>>, paper |-> tasks[t].paper,
                                    model |-> x.model, dataset |-> x.dataset,
                                    metric |-> x.metric, value |-> x.value]]
  <2>1. /\ tasks' = [tasks EXCEPT ![t] = new]
        /\ results' = (results \ tasks[t].doomed) \cup RowsOf(t, found)
    BY <1>1, <1>6 DEF CommitRows
  <2>2. new.found = {}
    BY <1>1
  <2>3. DOMAIN f = found /\ f = [x \in found |-> f[x]] /\ {f[x] : x \in found} = RowsOf(t, found)
    BY DEF RowsOf
  <2>4. IsFiniteSet(found)
    BY <1>1
  <2> HIDE DEF new, f, found
  <2>5. IsFiniteSet(RowsOf(t, found))
    BY <2>3, <2>4, ImageIsFinite
  <2>6. IsFiniteSet(results \ tasks[t].doomed)
    BY <1>1, FS_Subset
  <2>7. IsFiniteSet(results')
    BY <2>1, <2>5, <2>6, FS_Union
  <2>8. QED
    BY <1>1, <1>2, <2>1, <2>2, <2>7
<1>7. CASE FailTask(t)
  BY <1>1, <1>2, <1>7 DEF FailTask
<1>8. QED
  BY <1>3, <1>4, <1>5, <1>6, <1>7

LEMMA DeletionStaysFinite ==
  ASSUME RowsFinite, NEW p \in Library, DeletePaperRow(p)
  PROVE  RowsFinite'
<1>1. results' \subseteq results /\ mentions' \subseteq mentions /\ UNCHANGED tasks
  BY DEF DeletePaperRow
<1>2. QED
  BY <1>1, FS_Subset DEF RowsFinite, MentionsFinite

\* A request that begins has the papers of its caller in its scope, and no report yet.
LEMMA BeginRequestKeeps ==
  ASSUME ReportInv, RowsInv', NEW kind \in Kinds, NEW asked \in Asked, BeginRequest(kind, asked)
  PROVE  ReportInv'
<1>1. request' = [stage |-> "scoped", kind |-> kind, ids |-> Scope(asked), asked |-> asked,
                  rows |-> {}, report |-> Nothing]
  BY DEF BeginRequest
<1>2. asked \in Seq(Library) /\ present \subseteq Library
  BY ExperimentsAssumption DEF ReportInv, RowsInv, RowsTyped
<1>3. /\ Scope(asked) \in Seq(Accessible)
      /\ asked # <<>> => Range(Scope(asked)) \subseteq Range(asked)
  BY <1>2, ScopeIsOwn
<1>4. /\ Scope(asked) \in Seq(Library)
      /\ \A p \in Range(Scope(asked)) : OwnedBy[p] = "caller"
  <2>1. Accessible \subseteq Library /\ \A p \in Accessible : OwnedBy[p] = "caller"
    BY <1>2 DEF Accessible
  <2>2. \A p \in Range(Scope(asked)) : p \in Accessible
    BY <1>3 DEF Range
  <2>3. Scope(asked) \in Seq(Library)
    BY <1>3, <2>1
  <2>4. QED
    BY <2>1, <2>2, <2>3
<1>5. RequestTyped' /\ ReadInScope' /\ Knows'
  BY <1>1, <1>3, <1>4, FS_EmptySet DEF RequestTyped, ReadInScope, Knows, InScope
<1>6. RowsFinite'
  BY DEF BeginRequest, RowsFinite, ReportInv
<1>7. request'.stage = "scoped"
  BY <1>1
<1>8. QED
  BY <1>5, <1>6, <1>7
     DEF ReportInv, Reported, TableIsComplete, ConflictsAreReal, ClaimsAreComparedAcrossPapers,
         GapsAreHoles, TrendsAddUp

\* What a query returns: the report it makes has to be what is stated of its kind, and
\* until the last query the request knows what was returned.
LEMMA ReadKeeps ==
  ASSUME ReportInv, RowsInv', NEW stage, NEW rows, NEW known, Reads(stage, rows, known),
         request.stage # "none", stage # "none", InScope(rows), Knows',
         stage \in {"gaps", "reported"} /\ request.kind = "gaps" => GapsAreHoles',
         stage = "reported" /\ request.kind = "comparison" => TableIsComplete',
         stage = "reported" /\ request.kind = "consistency"
           => ConflictsAreReal' /\ ClaimsAreComparedAcrossPapers',
         stage = "reported" /\ request.kind = "trends" => TrendsAddUp'
  PROVE  ReportInv'
<1>1. /\ request' = [stage |-> stage, kind |-> request.kind, ids |-> request.ids,
                     asked |-> request.asked, rows |-> rows, report |-> known]
      /\ request'.stage = stage /\ request'.kind = request.kind
      /\ request'.ids = request.ids /\ request'.asked = request.asked
      /\ request'.rows = rows /\ request'.report = known
  <2>1. RequestTyped
    BY DEF ReportInv
  <2>2. QED
    BY <2>1, ReadsSets
<1>2. RequestTyped'
  BY <1>1 DEF ReportInv, RequestTyped
<1>3. ReadInScope'
  BY <1>1 DEF ReportInv, ReadInScope, InScope
<1>4. RowsFinite'
  BY DEF Reads, RowsFinite, ReportInv
<1>5. GapsAreHoles'
  BY <1>1 DEF GapsAreHoles
<1>6. TableIsComplete'
  BY <1>1 DEF Reported, TableIsComplete
<1>7. ConflictsAreReal'
  BY <1>1 DEF Reported, ConflictsAreReal
<1>8. ClaimsAreComparedAcrossPapers'
  BY <1>1 DEF Reported, ClaimsAreComparedAcrossPapers
<1>9. TrendsAddUp'
  BY <1>1 DEF Reported, TrendsAddUp
<1>10. QED
  BY <1>2, <1>3, <1>4, <1>5, <1>6, <1>7, <1>8, <1>9 DEF ReportInv

\* What the request knows after a query that is not its last.
LEMMA KnowsAfter ==
  ASSUME RequestTyped, NEW stage, NEW rows, NEW known, Reads(stage, rows, known),
         stage = "matched" => request.kind = "consistency" /\ known.kept \in OnePerPaper(rows),
         stage = "covered" => request.kind = "gaps" /\ MentionsFinite(known.mentioned),
         stage = "gaps" => /\ request.kind = "gaps"
                           /\ known = [coverage |-> known.coverage, mentioned |-> known.mentioned,
                                       untested |-> known.untested, conflicts |-> {}],
         stage = "listed" => request.kind = "trends" /\ IsFiniteSet(known.listed),
         stage = "counted" => /\ request.kind = "trends" /\ IsFiniteSet(known.listed)
                              /\ MentionsFinite(known.mentioned)
  PROVE  Knows'
BY ReadsSets DEF Knows, MentionsFinite

\* The papers of a scope are finitely many.
LEMMA ScopeIsFinite ==
  ASSUME ReportInv PROVE IsFiniteSet(Range(request.ids) \cap present)
<1>1. present \subseteq Library
  BY DEF ReportInv, RowsInv, RowsTyped
<1>2. QED
  BY <1>1, ExperimentsAssumption, FS_Subset

LEMMA CompareKeeps ==
  ASSUME ReportInv, RowsInv', NEW minPapers \in MinPapers, NEW filter, Compare(minPapers, filter)
  PROVE  ReportInv'
<1> DEFINE known == [minPapers |-> minPapers,
                     comparison |-> ComparisonTable(Selected(filter), minPapers)]
<1>1. RowsInv /\ RowsFinite /\ RequestTyped
  BY DEF ReportInv
<1>2. TableIsComplete'
  BY <1>1, CompareIsComplete
<1>3. /\ request.stage = "scoped" /\ request.kind = "comparison"
      /\ Reads("reported", Selected(filter), known)
  BY DEF Compare
<1>4. InScope(Selected(filter))
  BY <1>1, RowsReadTyped, FS_Subset DEF Selected, InScope
<1> HIDE DEF known
<1>5. Knows'
  BY <1>1, <1>3, KnowsAfter
<1>6. QED
  BY <1>2, <1>3, <1>4, <1>5, ReadKeeps

LEMMA ReadResultsKeeps ==
  ASSUME ReportInv, RowsInv', NEW kept, ReadResults(kept)
  PROVE  ReportInv'
<1> DEFINE known == [kept |-> kept, titled |-> {}, seen |-> 0]
<1>1. RowsInv /\ RowsFinite /\ RequestTyped
  BY DEF ReportInv
<1>2. /\ request.stage = "scoped" /\ request.kind = "consistency" /\ kept \in OnePerPaper(RowsRead)
      /\ Reads("matched", RowsRead, known)
  BY DEF ReadResults
<1>3. known.kept = kept
  OBVIOUS
<1> HIDE DEF known
<1>4. Knows'
  BY <1>1, <1>2, <1>3, KnowsAfter
<1>5. QED
  BY <1>1, <1>2, <1>4, RowsReadTyped, ReadKeeps

LEMMA ReadClaimsKeeps ==
  ASSUME ReportInv, RowsInv', ReadClaims
  PROVE  ReportInv'
<1> DEFINE p == request.ids[request.report.seen + 1]
           known == [kept |-> request.report.kept,
                     titled |-> request.report.titled \cup ({p} \cap present),
                     seen |-> request.report.seen + 1]
<1>1. RequestTyped
  BY DEF ReportInv
<1>2. request.stage = "matched" /\ Reads("matched", request.rows, known)
  BY DEF ReadClaims
<1>3. /\ request.kind = "consistency" /\ request.report.kept \in OnePerPaper(request.rows)
      /\ InScope(request.rows)
  BY <1>2 DEF ReportInv, Knows, ReadInScope
<1>4. known.kept = request.report.kept
  OBVIOUS
<1> HIDE DEF known
<1>5. Knows'
  BY <1>1, <1>2, <1>3, <1>4, KnowsAfter
<1>6. QED
  BY <1>2, <1>3, <1>5, ReadKeeps

LEMMA CheckConsistencyKeeps ==
  ASSUME ReportInv, RowsInv', NEW judged, NEW verdicts, CheckConsistency(judged, verdicts)
  PROVE  ReportInv'
<1> DEFINE known == [conflicts |-> NumericConflicts(request.ids, request.report.kept),
                     contradictions |-> {pair \in judged : verdicts[pair] = "contradiction"},
                     agreements |-> {pair \in judged : verdicts[pair] = "agreement"},
                     titled |-> request.report.titled]
<1>1. RequestTyped
  BY DEF ReportInv
<1>2. request.stage = "matched" /\ Reads("reported", request.rows, known)
  BY DEF CheckConsistency
<1>3. request.kind = "consistency" /\ InScope(request.rows)
  BY <1>2 DEF ReportInv, Knows, ReadInScope
<1>4. ConflictsAreReal' /\ ClaimsAreComparedAcrossPapers'
  BY ConflictsFollow, ClaimsFollow DEF ReportInv
<1> HIDE DEF known
<1>5. Knows'
  BY <1>1, <1>2, KnowsAfter
<1>6. QED
  BY <1>2, <1>3, <1>4, <1>5, ReadKeeps

LEMMA ReadMentionsKeeps ==
  ASSUME ReportInv, RowsInv', ReadMentions
  PROVE  ReportInv'
<1> DEFINE known == [mentioned |-> mentions]
<1>1. RequestTyped /\ MentionsFinite(mentions)
  BY DEF ReportInv, RowsFinite
<1>2. request.stage = "scoped" /\ request.kind = "gaps" /\ Reads("covered", {}, known)
  BY DEF ReadMentions
<1>3. known.mentioned = mentions
  OBVIOUS
<1> HIDE DEF known
<1>4. Knows'
  BY <1>1, <1>2, <1>3, KnowsAfter
<1>5. InScope({})
  BY FS_EmptySet DEF InScope
<1>6. QED
  BY <1>2, <1>4, <1>5, ReadKeeps

LEMMA FindGapsKeeps ==
  ASSUME ReportInv, RowsInv', FindGaps
  PROVE  ReportInv'
<1> DEFINE M == request.report.mentioned
           known == [coverage |-> CoverageGaps(request.ids, M), mentioned |-> M,
                     untested |-> EvaluationGaps(request.ids, RowsRead), conflicts |-> {}]
<1>1. RowsInv /\ RowsFinite /\ RequestTyped /\ Knows
  BY DEF ReportInv
<1>2. request.stage = "covered" /\ Reads("gaps", RowsRead, known)
  BY DEF FindGaps
<1>3. request.kind = "gaps"
  BY <1>1, <1>2 DEF Knows
<1>4. GapsAreHoles'
  BY <1>1, GapsFollow
<1>5. known = [coverage |-> known.coverage, mentioned |-> known.mentioned,
               untested |-> known.untested, conflicts |-> {}]
  OBVIOUS
<1> HIDE DEF known
<1>6. Knows'
  BY <1>1, <1>2, <1>3, <1>5, KnowsAfter
<1>7. QED
  BY <1>1, <1>2, <1>3, <1>4, <1>6, RowsReadTyped, ReadKeeps

\* The last query adds the conflicts, and leaves the gaps that were found.
LEMMA FindConflictsKeeps ==
  ASSUME ReportInv, RowsInv', NEW kept, FindConflicts(kept)
  PROVE  ReportInv'
<1> DEFINE known == [request.report EXCEPT !.conflicts = NumericConflicts(request.ids, kept)]
<1>1. RequestTyped /\ Knows /\ GapsAreHoles
  BY DEF ReportInv
<1>2. request.stage = "gaps" /\ Reads("reported", request.rows, known)
  BY DEF FindConflicts
<1>3. /\ request.kind = "gaps" /\ InScope(request.rows)
      /\ request.report = [coverage |-> request.report.coverage,
                           mentioned |-> request.report.mentioned,
                           untested |-> request.report.untested, conflicts |-> {}]
  BY <1>2 DEF ReportInv, Knows, ReadInScope
<1>4. /\ known.coverage = request.report.coverage /\ known.mentioned = request.report.mentioned
      /\ known.untested = request.report.untested
  BY <1>3
<1> HIDE DEF known
<1>5. /\ request'.stage = "reported" /\ request'.kind = "gaps" /\ request'.ids = request.ids
      /\ request'.rows = request.rows /\ request'.report = known
  BY <1>1, <1>2, <1>3, ReadsSets
<1>6. GapsAreHoles'
  BY <1>1, <1>2, <1>3, <1>4, <1>5 DEF GapsAreHoles
<1>7. Knows'
  BY <1>1, <1>2, KnowsAfter
<1>8. QED
  BY <1>2, <1>3, <1>6, <1>7, ReadKeeps

LEMMA ReadPapersKeeps ==
  ASSUME ReportInv, RowsInv', ReadPapers
  PROVE  ReportInv'
<1> DEFINE known == [listed |-> Range(request.ids) \cap present]
<1>1. RequestTyped
  BY DEF ReportInv
<1>2. request.stage = "scoped" /\ request.kind = "trends" /\ Reads("listed", {}, known)
  BY DEF ReadPapers
<1>3. IsFiniteSet(known.listed)
  BY ScopeIsFinite
<1> HIDE DEF known
<1>4. Knows'
  BY <1>1, <1>2, <1>3, KnowsAfter
<1>5. InScope({})
  BY FS_EmptySet DEF InScope
<1>6. QED
  BY <1>2, <1>4, <1>5, ReadKeeps

LEMMA ReadTrendsKeeps ==
  ASSUME ReportInv, RowsInv', ReadTrends
  PROVE  ReportInv'
<1> DEFINE known == [listed |-> request.report.listed, dated |-> Range(request.ids) \cap present,
                     mentioned |-> mentions]
<1>1. RequestTyped /\ MentionsFinite(mentions)
  BY DEF ReportInv, RowsFinite
<1>2. request.stage = "listed" /\ Reads("counted", {}, known)
  BY DEF ReadTrends
<1>3. request.kind = "trends" /\ IsFiniteSet(request.report.listed)
  BY <1>2 DEF ReportInv, Knows
<1>4. known.listed = request.report.listed /\ known.mentioned = mentions
  OBVIOUS
<1> HIDE DEF known
<1>5. Knows'
  BY <1>1, <1>2, <1>3, <1>4, KnowsAfter
<1>6. InScope({})
  BY FS_EmptySet DEF InScope
<1>7. QED
  BY <1>2, <1>3, <1>5, <1>6, ReadKeeps

LEMMA FindTrendsKeeps ==
  ASSUME ReportInv, RowsInv', FindTrends
  PROVE  ReportInv'
<1>1. RowsInv /\ RowsFinite /\ RequestTyped /\ Knows
  BY DEF ReportInv
<1>2. TrendsAddUp'
  BY <1>1, TrendsFollow
<1>3. PICK known : request.stage = "counted" /\ Reads("reported", RowsRead, known)
  BY DEF FindTrends
<1>4. request.kind = "trends"
  BY <1>1, <1>3 DEF Knows
<1>5. Knows'
  BY <1>1, <1>3, KnowsAfter
<1>6. QED
  BY <1>1, <1>2, <1>3, <1>4, <1>5, RowsReadTyped, ReadKeeps

LEMMA EndRequestKeeps ==
  ASSUME ReportInv, RowsInv', EndRequest
  PROVE  ReportInv'
<1>1. request' = [stage |-> "none", kind |-> request.kind, ids |-> <<>>, asked |-> <<>>,
                  rows |-> {}, report |-> Nothing]
  BY DEF EndRequest, ReportInv, RequestTyped
<1>2. RequestTyped' /\ ReadInScope' /\ Knows'
  BY <1>1 DEF RequestTyped, ReadInScope, Knows
<1>3. RowsFinite'
  BY DEF EndRequest, RowsFinite, ReportInv
<1>4. request'.stage = "none"
  BY <1>1
<1>5. QED
  BY <1>2, <1>3, <1>4
     DEF ReportInv, Reported, TableIsComplete, ConflictsAreReal, ClaimsAreComparedAcrossPapers,
         GapsAreHoles, TrendsAddUp

LEMMA ReportStepKeeps ==
  ASSUME ReportInv, [ExperimentsNext]_experimentVars
  PROVE  ReportInv'
<1>1. RowsInv'
  BY RowsStepKeeps DEF ReportInv
<1>2. ASSUME NEW t \in Task, ExtractResults(t) PROVE ReportInv'
  <2>1. UNCHANGED <<mentions, request>>
    BY <1>2 DEF ExtractResults, Deliver, Extract, DeleteRows, CommitRows, FailTask
  <2>2. RowsFinite'
    BY <1>2, <2>1, TasksStayFinite DEF ReportInv, ExtractResults
  <2>3. QED
    BY <1>1, <2>1, <2>2, ReportUntouched
<1>3. ASSUME NEW p \in Library, DeletePaperRow(p) PROVE ReportInv'
  <2>1. RowsFinite' /\ UNCHANGED request
    BY <1>3, DeletionStaysFinite DEF ReportInv, DeletePaperRow
  <2>2. QED
    BY <1>1, <2>1, ReportUntouched
<1>4. CASE \E kind \in Kinds, asked \in Asked : BeginRequest(kind, asked)
  BY <1>1, <1>4, BeginRequestKeeps
<1>5. CASE \E minPapers \in MinPapers, filter \in Filtered : Compare(minPapers, filter)
  BY <1>1, <1>5, CompareKeeps
<1>6. CASE \E kept \in OnePerPaper(RowsRead) : ReadResults(kept)
  BY <1>1, <1>6, ReadResultsKeeps
<1>7. CASE ReadClaims
  BY <1>1, <1>7, ReadClaimsKeeps
<1>8. CASE \E judged \in JudgedPairs(request.ids, request.report.titled) :
             \E verdicts \in [judged -> {"contradiction", "agreement", "none"}] :
               CheckConsistency(judged, verdicts)
  BY <1>1, <1>8, CheckConsistencyKeeps
<1>9. CASE ReadMentions
  BY <1>1, <1>9, ReadMentionsKeeps
<1>10. CASE FindGaps
  BY <1>1, <1>10, FindGapsKeeps
<1>11. CASE \E kept \in OnePerPaper(RowsRead) : FindConflicts(kept)
  BY <1>1, <1>11, FindConflictsKeeps
<1>12. CASE ReadPapers
  BY <1>1, <1>12, ReadPapersKeeps
<1>13. CASE ReadTrends
  BY <1>1, <1>13, ReadTrendsKeeps
<1>14. CASE FindTrends
  BY <1>1, <1>14, FindTrendsKeeps
<1>15. CASE EndRequest
  BY <1>1, <1>15, EndRequestKeeps
<1>16. CASE UNCHANGED experimentVars
  <2>1. UNCHANGED <<results, tasks, mentions, request>>
    BY <1>16 DEF experimentVars
  <2>2. RowsFinite'
    BY <2>1 DEF RowsFinite, ReportInv
  <2>3. QED
    BY <1>1, <2>1, <2>2, ReportUntouched
<1>17. QED
  BY <1>2, <1>3, <1>4, <1>5, <1>6, <1>7, <1>8, <1>9, <1>10, <1>11, <1>12, <1>13, <1>14, <1>15, <1>16
  DEF ExperimentsNext, Insights

\* For every library, every order of tasks, deletions and requests, and every choice the
\* queries leave open: a report speaks of the caller's papers, and each table, conflict,
\* gap and trend in it follows from the rows it read (insights.py:56-266).
THEOREM ReportsStaySound == ExperimentsSpec => []ReportIsSound
<1>1. ExperimentsInit => ReportInv
  BY ReportsInitially
<1>2. ReportInv /\ [ExperimentsNext]_experimentVars => ReportInv'
  BY ReportStepKeeps
<1>3. ReportInv => ReportStaysInScope
  BY DEF ReportInv, ReadInScope, InScope, ReportStaysInScope
<1>4. ReportInv => ReportIsSound
  BY <1>3 DEF ReportInv, RowsInv, ReportIsSound
<1>5. QED
  BY <1>1, <1>2, <1>4, PTL DEF ExperimentsSpec

-----------------------------------------------------------------------------
(* Networks.                                                               *)

\* The listings of finitely many bylines are finitely many.
LEMMA ListingsAreFinite ==
  ASSUME NetworksAssumption, NEW P \in SUBSET Corpus
  PROVE  IsFiniteSet(Listings(P)) /\ IsFiniteSet(Together(P)) /\ IsFiniteSet(P)
<1> DEFINE Of(p) == {<<p, i>> : i \in DOMAIN Byline[p]}
           all == [p \in P |-> Of(p)]
<1>1. IsFiniteSet(P)
  BY FS_Subset DEF NetworksAssumption
<1>2. ASSUME NEW p \in P PROVE IsFiniteSet(Of(p))
  <2> DEFINE S == DOMAIN Byline[p]
             f == [i \in S |-> <<p, i>>]
  <2>1. S = 1 .. Len(Byline[p]) /\ Len(Byline[p]) \in Nat
    BY DEF NetworksAssumption
  <2>2. IsFiniteSet(S)
    <3>1. PICK n \in Nat : S = 1 .. n
      BY <2>1
    <3>2. n \in Int /\ 1 \in Int
      OBVIOUS
    <3>3. IsFiniteSet(1 .. n)
      BY <3>2, FS_Interval
    <3>4. QED
      BY <3>1, <3>3
  <2>3. DOMAIN f = S /\ f = [i \in S |-> f[i]] /\ Of(p) = {f[i] : i \in S}
    OBVIOUS
  <2> HIDE DEF S, f
  <2>4. QED
    BY <2>2, <2>3, ImageIsFinite
<1>3. DOMAIN all = P /\ all = [p \in P |-> all[p]] /\ \A p \in P : all[p] = Of(p)
  OBVIOUS
<1>4. Listings(P) = UNION {all[p] : p \in P}
  BY DEF Listings
<1> HIDE DEF Of, all
<1>5. IsFiniteSet({all[p] : p \in P})
  BY <1>1, <1>3, ImageIsFinite
<1>6. IsFiniteSet(Listings(P))
  <2>1. \A T \in {all[p] : p \in P} : IsFiniteSet(T)
    BY <1>2, <1>3
  <2>2. QED
    BY <1>4, <1>5, <2>1, FS_UNION
<1>7. Together(P) \in SUBSET (Listings(P) \X Listings(P))
  BY DEF Together
<1>8. QED
  BY <1>1, <1>6, <1>7, FS_Product, FS_Subset

\* Where a name stands in a byline that repeats none, and which papers have it.
PlaceOf(p, name) == CHOOSE i \in DOMAIN Byline[p] : Byline[p][i] = name

Wrote(P, names) == {p \in P : \A name \in names : name \in ToSet(Byline[p])}

\* An author is counted once for every paper that has the name.
LEMMA AuthorsAreCounted ==
  ASSUME NetworksAssumption, NEW P \in SUBSET Corpus, NEW names, NEW name \in names,
         Wrote(P, names) # {}
  PROVE  Cardinality(Wrote(P, names)) <= AuthorWeights(P)[name]
<1> DEFINE W == Wrote(P, names)
           L == {l \in Listings(P) : NameAt(l) = name}
           f == [p \in W |-> <<p, PlaceOf(p, name)>>]
<1>1. \A p \in W : PlaceOf(p, name) \in DOMAIN Byline[p] /\ Byline[p][PlaceOf(p, name)] = name
  BY DEF Wrote, PlaceOf, ToSet
<1>2. \A p \in W : f[p] \in L
  BY <1>1 DEF Wrote, Listings, NameAt
<1>3. IsFiniteSet(L) /\ IsFiniteSet(W) /\ IsFiniteSet(P)
  <2>1. L \in SUBSET Listings(P) /\ W \in SUBSET P
    BY DEF Wrote
  <2>2. QED
    BY <2>1, ListingsAreFinite, FS_Subset
<1>4. DOMAIN f = W /\ f = [p \in W |-> f[p]] /\ \A p, q \in W : f[p] = f[q] => p = q
  OBVIOUS
<1>5. AuthorWeights(P)[name] = Cardinality(L)
  <2>1. PICK p \in W : TRUE
    OBVIOUS
  <2>2. name \in {NameAt(l) : l \in Listings(P)}
    BY <1>2, <2>1
  <2>3. QED
    BY <2>2 DEF AuthorWeights
<1> HIDE DEF W, L, f
<1>6. Cardinality({f[p] : p \in W}) = Cardinality(W)
  BY <1>3, <1>4, ImageIsFinite
<1>7. {f[p] : p \in W} \in SUBSET L
  BY <1>2
<1>8. Cardinality({f[p] : p \in W}) <= Cardinality(L)
  BY <1>3, <1>7, FS_Subset
<1>9. QED
  BY <1>5, <1>6, <1>8 DEF W

\* An edge of the author network counts the papers both of its ends wrote.
LEMMA PairsAreCounted ==
  ASSUME NetworksAssumption, NEW P \in SUBSET Corpus, \A p \in P : IsInjective(Byline[p]),
         NEW e \in DOMAIN PairWeights(P)
  PROVE  PairWeights(P)[e] = Cardinality(Wrote(P, e)) /\ Wrote(P, e) # {}
<1> DEFINE T == {lm \in Together(P) : {NameAt(lm[1]), NameAt(lm[2])} = e}
           f == [lm \in T |-> lm[1][1]]
<1>1. PairWeights(P)[e] = Cardinality(T) /\ T # {}
  BY DEF PairWeights
<1>2. \A lm \in T : \E p \in P : \E i, j \in DOMAIN Byline[p] :
        lm = <<<<p, i>>, <<p, j>>>> /\ i < j /\ e = {Byline[p][i], Byline[p][j]}
  <2> SUFFICES ASSUME NEW lm \in T
               PROVE  \E p \in P : \E i, j \in DOMAIN Byline[p] :
                        lm = <<<<p, i>>, <<p, j>>>> /\ i < j /\ e = {Byline[p][i], Byline[p][j]}
    OBVIOUS
  <2>1. PICK l \in Listings(P), m \in Listings(P) : lm = <<l, m>>
    BY DEF Together
  <2>2. PICK p \in P : \E i \in DOMAIN Byline[p] : l = <<p, i>>
    BY DEF Listings
  <2>3. PICK q \in P : \E j \in DOMAIN Byline[q] : m = <<q, j>>
    BY DEF Listings
  <2>4. PICK i \in DOMAIN Byline[p] : l = <<p, i>>
    BY <2>2
  <2>5. PICK j \in DOMAIN Byline[q] : m = <<q, j>>
    BY <2>3
  <2>6. p = q /\ i < j /\ e = {Byline[p][i], Byline[q][j]}
    BY <2>1, <2>4, <2>5 DEF Together, NameAt
  <2>7. QED
    BY <2>1, <2>4, <2>5, <2>6
<1>3. \A p \in P : DOMAIN Byline[p] \subseteq Int
                   /\ \A i, j \in DOMAIN Byline[p] : Byline[p][i] = Byline[p][j] => i = j
  BY DEF NetworksAssumption, IsInjective
<1>4. {f[lm] : lm \in T} = Wrote(P, e)
  <2>1. ASSUME NEW lm \in T PROVE lm[1][1] \in Wrote(P, e)
    BY <1>2 DEF Wrote, ToSet
  <2>2. ASSUME NEW q \in Wrote(P, e) PROVE \E lm \in T : lm[1][1] = q
    <3>1. PICK lm \in T : TRUE
      BY <1>1
    <3> PICK p \in P : \E i, j \in DOMAIN Byline[p] : i < j /\ e = {Byline[p][i], Byline[p][j]}
      BY <1>2, <3>1
    <3>2. PICK i, j \in DOMAIN Byline[p] : i < j /\ e = {Byline[p][i], Byline[p][j]}
      OBVIOUS
    <3>3. Byline[p][i] # Byline[p][j]
      BY <1>3, <3>2
    <3>4. PICK k \in DOMAIN Byline[q] : Byline[q][k] = Byline[p][i]
      BY <3>2 DEF Wrote, ToSet
    <3>5. PICK h \in DOMAIN Byline[q] : Byline[q][h] = Byline[p][j]
      BY <3>2 DEF Wrote, ToSet
    <3>6. q \in P /\ k # h /\ k \in Int /\ h \in Int
      BY <1>3, <3>3, <3>4, <3>5 DEF Wrote
    <3>7. <<q, k>> \in Listings(P) /\ <<q, h>> \in Listings(P)
      BY <3>6 DEF Listings
    <3>8. CASE k < h
      <4>1. <<<<q, k>>, <<q, h>>>> \in T
        BY <3>2, <3>4, <3>5, <3>7, <3>8 DEF Together, NameAt
      <4>2. QED
        BY <4>1
    <3>9. CASE h < k
      <4>1. <<<<q, h>>, <<q, k>>>> \in Together(P)
        BY <3>7, <3>9 DEF Together
      <4>2. {NameAt(<<q, h>>), NameAt(<<q, k>>)} = e
        BY <3>2, <3>4, <3>5 DEF NameAt
      <4>3. <<<<q, h>>, <<q, k>>>> \in T
        BY <4>1, <4>2
      <4> DEFINE no == <<<<q, h>>, <<q, k>>>>
      <4>4. no[1][1] = q /\ no \in T
        BY <4>3
      <4> HIDE DEF T, no
      <4>5. QED
        BY <4>4
    <3>10. k < h \/ h < k
      BY <3>6
    <3>11. QED
      BY <3>8, <3>9, <3>10
  <2>3. \A lm \in T : f[lm] = lm[1][1]
    OBVIOUS
  <2> HIDE DEF T, f
  <2>4. QED
    BY <2>1, <2>2, <2>3
<1>5. \A lm, no \in T : f[lm] = f[no] => lm = no
  <2> SUFFICES ASSUME NEW lm \in T, NEW no \in T, lm[1][1] = no[1][1]
               PROVE  lm = no
    OBVIOUS
  <2> PICK p \in P : \E i, j \in DOMAIN Byline[p] :
        lm = <<<<p, i>>, <<p, j>>>> /\ i < j /\ e = {Byline[p][i], Byline[p][j]}
    BY <1>2
  <2>1. PICK i, j \in DOMAIN Byline[p] :
          lm = <<<<p, i>>, <<p, j>>>> /\ i < j /\ e = {Byline[p][i], Byline[p][j]}
    OBVIOUS
  <2> PICK q \in P : \E k, h \in DOMAIN Byline[q] :
        no = <<<<q, k>>, <<q, h>>>> /\ k < h /\ e = {Byline[q][k], Byline[q][h]}
    BY <1>2
  <2>2. PICK k, h \in DOMAIN Byline[q] :
          no = <<<<q, k>>, <<q, h>>>> /\ k < h /\ e = {Byline[q][k], Byline[q][h]}
    OBVIOUS
  <2>3. p = q
    BY <2>1, <2>2
  <2>4. i \in Int /\ j \in Int /\ k \in Int /\ h \in Int
    BY <1>3
  <2>5. (i = k /\ j = h) \/ (i = h /\ j = k)
    <3>1. {Byline[p][i], Byline[p][j]} = {Byline[p][k], Byline[p][h]}
      BY <2>1, <2>2, <2>3
    <3>2. Byline[p][i] # Byline[p][j]
      <4>1. i # j
        BY <2>1, <2>4
      <4>2. QED
        BY <1>3, <4>1
    <3>3. \/ Byline[p][i] = Byline[p][k] /\ Byline[p][j] = Byline[p][h]
          \/ Byline[p][i] = Byline[p][h] /\ Byline[p][j] = Byline[p][k]
      BY <3>1, <3>2
    <3>4. QED
      BY <1>3, <2>3, <3>3
  <2>6. i = k /\ j = h
    BY <2>1, <2>2, <2>4, <2>5
  <2>7. QED
    BY <2>1, <2>2, <2>3, <2>6
<1>6. DOMAIN f = T /\ f = [lm \in T |-> f[lm]] /\ T \in SUBSET Together(P)
  OBVIOUS
<1>7. IsFiniteSet(T)
  BY <1>6, ListingsAreFinite, FS_Subset
<1> HIDE DEF T, f
<1>8. Cardinality({f[lm] : lm \in T}) = Cardinality(T)
  BY <1>5, <1>6, <1>7, ImageIsFinite
<1>9. {f[lm] : lm \in T} # {}
  BY <1>1
<1>10. QED
  BY <1>1, <1>4, <1>8, <1>9

\* The edges of an entity are as many as the papers that carry it.
LEMMA CarriersAreCounted ==
  ASSUME NetworksAssumption, NEW P \in SUBSET Corpus, NEW e
  PROVE  /\ Cardinality({<<p, e>> : p \in Carriers(P, e)}) = Cardinality(Carriers(P, e))
         /\ IsFiniteSet(Carriers(P, e)) /\ Cardinality(Carriers(P, e)) <= Cardinality(P)
<1> DEFINE S == Carriers(P, e)
           f == [p \in S |-> <<p, e>>]
<1>1. S \in SUBSET P /\ IsFiniteSet(P)
  BY ListingsAreFinite DEF Carriers
<1>2. IsFiniteSet(S) /\ Cardinality(S) <= Cardinality(P)
  <2> HIDE DEF S
  <2>1. QED
    BY <1>1, FS_Subset
<1>3. DOMAIN f = S /\ f = [p \in S |-> f[p]] /\ \A p, q \in S : f[p] = f[q] => p = q
  OBVIOUS
<1>4. {<<p, e>> : p \in S} = {f[p] : p \in S}
  OBVIOUS
<1> HIDE DEF S, f
<1>5. Cardinality({f[p] : p \in S}) = Cardinality(S)
  BY ONLY <1>2, <1>3, ImageIsFinite
<1>6. QED
  BY <1>2, <1>4, <1>5 DEF S

\* Entities that builds mirror, and the papers a caller may see.
AllEntities == UNION {UNION Mirrored[p] : p \in Corpus}
Callers == {p \in Corpus : HeldBy[p] = "caller"}

\* What an expansion keeps of its request and of what it has read.
ExpansionView ==
  [stage : {"asked", "seeded", "expanded"}, kind : {"expansion"}, ids : SUBSET Callers,
   began : Nat, question : Questions, excluded : Exclusions, seeds : Seq(AllEntities),
   next : Nat, rows : SUBSET (Callers \X AllEntities), found : Seq(Callers \X AllEntities),
   related : Seq(Callers)]

NetworksTyped ==
  /\ shelved \subseteq Corpus
  /\ entityRows \in [Corpus -> SUBSET AllEntities]
  /\ \A p \in Corpus : IsFiniteSet(entityRows[p])
  /\ changes \in Nat
  /\ view.ids \subseteq Callers /\ view.began \in Nat /\ view.began <= changes
  /\ view.stage \in {"asked", "seeded", "expanded"} => view \in ExpansionView

\* While nothing has changed since a request began, its papers are all there.
PapersAreThere == changes = view.began => view.ids \subseteq shelved

\* Between the two statements of the citation network and of the overview.
TitlesAreRead ==
  view.stage = "titled" =>
    view.kind = "citations" /\ Found0 \subseteq view.papers /\ view.papers \subseteq Corpus
HeadlinesAreCounted ==
  view.stage = "headed" =>
    /\ view.kind = "overview" /\ \A h \in view.nodes : view.weights[h] <= Cardinality(view.ids)
    /\ changes = view.began => HeadlinesAreExact

\* The entities the question names, and whether a statement may have been cut.
Named == {e \in UNION {entityRows[p] : p \in view.ids} : e[2] \in view.question}
Uncut ==
  /\ changes = view.began
  /\ \A e \in UNION {entityRows[p] : p \in view.ids} :
       Cardinality(Carriers(view.ids, e)) <= MaxRelated
  /\ Cardinality(Named) <= MaxSeeds

\* ExpansionIsFair, with what it says of uncut statements by its name.
FairExpansion ==
  view.stage = "expanded" =>
    LET related == view.related
        Shared(p) == {row[2] : row \in {r \in view.rows : r[1] = p}}
        reached == {row[1] : row \in view.rows} \ view.excluded
    IN  /\ IsInjective(related) /\ Len(related) <= MaxRelated
        /\ ToSet(related) \subseteq {p \in reached : HeldBy[p] = "caller"}
        /\ \A i, j \in DOMAIN related :
             i < j => Cardinality(Shared(related[i])) >= Cardinality(Shared(related[j]))
        /\ \A p \in reached \ ToSet(related), q \in ToSet(related) :
             Cardinality(Shared(p)) <= Cardinality(Shared(q))
        /\ Uncut => reached = {p \in view.ids \ view.excluded :
                                 \E e \in entityRows[p] : e[2] \in view.question}

\* Nothing is read before the seeds.
ExpansionBegins ==
  view.stage = "asked" =>
    view.seeds = <<>> /\ view.next = 1 /\ view.rows = {} /\ view.found = <<>>

\* What has been read of the seeds so far: each row once, those that are not excluded as
\* paths; and all of it, as long as no statement is cut.
ExpansionReads ==
  view.stage \in {"seeded", "expanded"} =>
    /\ IsInjective(view.seeds) /\ view.next \in 1 .. Len(view.seeds) + 1
    /\ \A row \in view.rows : row[1] \in view.ids
                              /\ \E k \in 1 .. view.next - 1 : row[2] = view.seeds[k]
    /\ IsInjective(view.found)
    /\ ToSet(view.found) = {row \in view.rows : row[1] \notin view.excluded}
    /\ Uncut =>
         /\ ToSet(view.seeds) = Named
         /\ \A k \in 1 .. view.next - 1 : \A p \in view.ids :
              <<p, view.seeds[k]>> \in view.rows <=> view.seeds[k] \in entityRows[p]

\* No seed is left when the paths are ranked.
AllSeedsRead == view.stage = "expanded" => view.next = Len(view.seeds) + 1

NetworksInv ==
  /\ NetworksTyped /\ PapersAreThere /\ TitlesAreRead /\ HeadlinesAreCounted
  /\ ExpansionBegins /\ ExpansionReads /\ AllSeedsRead
  /\ NetworksAreSound

LEMMA NetworksInitially == ASSUME NetworksAssumption, NetworksInit PROVE NetworksInv
<1>1. /\ view.stage = "none" /\ view.ids = {} /\ view.began = 0 /\ changes = 0
      /\ shelved = Corpus
  BY DEF NetworksInit
<1>2. entityRows \in [Corpus -> SUBSET AllEntities]
      /\ \A p \in Corpus : IsFiniteSet(entityRows[p])
  <2>1. DOMAIN entityRows = Corpus /\ entityRows = [p \in Corpus |-> entityRows[p]]
        /\ \A p \in Corpus : entityRows[p] \in Mirrored[p]
    BY DEF NetworksInit
  <2>2. \A p \in Corpus : \A entities \in Mirrored[p] :
          entities \in SUBSET AllEntities /\ IsFiniteSet(entities)
    BY DEF NetworksAssumption, AllEntities
  <2> HIDE DEF NetworksAssumption
  <2>3. QED
    BY <2>1, <2>2
<1>3. QED
  BY <1>1, <1>2
  DEF NetworksInv, NetworksTyped, PapersAreThere, TitlesAreRead, HeadlinesAreCounted,
      ExpansionBegins, ExpansionReads, AllSeedsRead, NetworksAreSound, AuthorsAreJoined,
      CitationsAreCounted,
      EntitiesAreCounted, ExpansionIsFair, ShownAs

\* A change of the library: a request that began before it sees that something changed,
\* and finds no paper it did not find before.
LEMMA LibraryChanges ==
  ASSUME NetworksInv, shelved' \subseteq shelved, view' = view, changes' = changes + 1,
         entityRows' \in [Corpus -> SUBSET AllEntities],
         \A p \in Corpus : IsFiniteSet(entityRows'[p])
  PROVE  NetworksInv'
<1>1. changes' # view'.began /\ changes' \in Nat /\ view'.began <= changes' /\ view' = view
  BY DEF NetworksInv, NetworksTyped
<1>2. NetworksTyped' /\ PapersAreThere' /\ HeadlinesAreCounted' /\ ExpansionBegins' /\ AllSeedsRead'
  BY <1>1
  DEF NetworksInv, NetworksTyped, PapersAreThere, HeadlinesAreCounted, ExpansionBegins, AllSeedsRead
<1>3. TitlesAreRead'
  BY DEF NetworksInv, TitlesAreRead, Found0
<1>4. ~ Uncut'
  BY <1>1 DEF Uncut
<1>5. ExpansionReads'
  BY <1>4 DEF NetworksInv, ExpansionReads
<1>6. AuthorsAreJoined' /\ CitationsAreCounted' /\ EntitiesAreCounted'
  BY <1>1 DEF NetworksInv, NetworksAreSound, AuthorsAreJoined, CitationsAreCounted,
              EntitiesAreCounted, ShownAs
<1>7. ExpansionIsFair'
  BY <1>1 DEF NetworksInv, NetworksAreSound, ExpansionIsFair
<1>8. QED
  BY <1>2, <1>3, <1>5, <1>6, <1>7 DEF NetworksInv, NetworksAreSound

LEMMA RemoveFromShelfKeeps ==
  ASSUME NetworksInv, NEW p \in Corpus, RemoveFromShelf(p)
  PROVE  NetworksInv'
<1>1. entityRows' \in [Corpus -> SUBSET AllEntities] /\ \A q \in Corpus : IsFiniteSet(entityRows'[q])
  BY FS_EmptySet DEF RemoveFromShelf, NetworksInv, NetworksTyped
<1>2. QED
  BY <1>1, LibraryChanges DEF RemoveFromShelf

LEMMA MirrorAgainKeeps ==
  ASSUME NetworksAssumption, NetworksInv, NEW p \in Corpus, NEW entities \in Mirrored[p],
         MirrorAgain(p, entities)
  PROVE  NetworksInv'
<1>1. IsFiniteSet(entities) /\ entities \in SUBSET AllEntities
  BY DEF NetworksAssumption, AllEntities
<1>2. entityRows' \in [Corpus -> SUBSET AllEntities] /\ \A q \in Corpus : IsFiniteSet(entityRows'[q])
  BY <1>1 DEF MirrorAgain, NetworksInv, NetworksTyped
<1>3. QED
  BY <1>2, LibraryChanges DEF MirrorAgain

LEMMA AskViewKeeps ==
  ASSUME NetworksAssumption, NetworksInv,
         NEW kind \in {"authors", "citations", "entities", "overview"}, AskView(kind)
  PROVE  NetworksInv'
<1>1. /\ view'.stage = "scoped" /\ view'.ids = Accessible0 /\ view'.began = changes
      /\ shelved' = shelved /\ entityRows' = entityRows /\ changes' = changes
  BY DEF AskView
<1>2. Accessible0 \subseteq Callers /\ Accessible0 \subseteq shelved
  BY DEF NetworksInv, NetworksTyped, Accessible0, Callers
<1>3. QED
  BY <1>1, <1>2
  DEF NetworksInv, NetworksTyped, PapersAreThere, TitlesAreRead, HeadlinesAreCounted,
      ExpansionBegins, ExpansionReads, AllSeedsRead, NetworksAreSound, AuthorsAreJoined,
      CitationsAreCounted, EntitiesAreCounted, ExpansionIsFair, ShownAs

\* A request that shows its result keeps all but what is said of that result.
LEMMA ShowingKeeps ==
  ASSUME NetworksInv, UNCHANGED <<shelved, entityRows, changes>>,
         view'.stage \in {"shown", "titled", "headed"}, view'.ids = view.ids,
         view'.began = view.began
  PROVE  /\ NetworksTyped' /\ PapersAreThere' /\ ExpansionBegins' /\ ExpansionReads'
         /\ AllSeedsRead' /\ ExpansionIsFair'
BY DEF NetworksInv, NetworksTyped, PapersAreThere, ExpansionBegins, ExpansionReads,
       AllSeedsRead, ExpansionIsFair

LEMMA ShowAuthorsKeeps ==
  ASSUME NetworksAssumption, NetworksInv, ShowAuthors
  PROVE  NetworksInv'
<1> DEFINE P == Found0
           counts == AuthorWeights(P)
           pairs == PairWeights(P)
<1>1. PICK nodes \in TopOf(DOMAIN counts, counts, MaxNodes) :
        Show(nodes, counts, {[ends |-> e, weight |-> pairs[e]] : e \in CoauthorEdges(nodes, pairs)}, P)
  BY DEF ShowAuthors
<1> DEFINE edges == {[ends |-> e, weight |-> pairs[e]] : e \in CoauthorEdges(nodes, pairs)}
<1>2. /\ view'.stage = "shown" /\ view'.kind = "authors" /\ view'.ids = view.ids
      /\ view'.began = view.began /\ view'.nodes = nodes /\ view'.weights = counts
      /\ view'.edges = edges /\ view'.papers = P /\ UNCHANGED <<shelved, entityRows, changes>>
  BY <1>1 DEF Show, ShowAuthors
<1>3. P \in SUBSET Corpus
  BY DEF NetworksInv, NetworksTyped, Found0, Callers
<1> HIDE DEF P, counts, pairs
<1>4. ASSUME NEW e \in edges
      PROVE  e.ends \subseteq nodes /\ e.ends \in DOMAIN pairs /\ e.weight = pairs[e.ends]
  BY DEF CoauthorEdges
<1> HIDE DEF edges
<1>5. ASSUME \A p \in P : IsInjective(Byline[p]), NEW e \in edges
      PROVE  /\ e.weight = Cardinality(Wrote(P, e.ends))
             /\ \A name \in e.ends : e.weight <= counts[name]
  BY <1>3, <1>4, <1>5, PairsAreCounted, AuthorsAreCounted DEF pairs, counts
<1>6. AuthorsAreJoined'
  <2>1. ASSUME NEW e
        PROVE  Wrote(P, e) = {p \in P : \A name \in e : p \in {q \in P : name \in ToSet(Byline[q])}}
    BY DEF Wrote
  <2>2. (\A p \in P : IsInjective(Byline[p])) =>
          \A e \in edges :
            /\ e.weight = Cardinality({p \in P : \A name \in e.ends :
                                        p \in {q \in P : name \in ToSet(Byline[q])}})
            /\ \A name \in e.ends : e.weight <= counts[name]
    BY <1>5, <2>1
  <2>3. QED
    BY <1>2, <1>4, <2>2 DEF AuthorsAreJoined
<1>7. /\ TitlesAreRead' /\ HeadlinesAreCounted' /\ CitationsAreCounted' /\ EntitiesAreCounted'
  BY <1>2 DEF TitlesAreRead, HeadlinesAreCounted, CitationsAreCounted, EntitiesAreCounted, ShownAs
<1>8. QED
  BY <1>2, <1>6, <1>7, ShowingKeeps DEF NetworksInv, NetworksAreSound

LEMMA ReadTitlesKeeps ==
  ASSUME NetworksInv, ReadTitles
  PROVE  NetworksInv'
<1>1. /\ view'.stage = "titled" /\ view'.ids = view.ids /\ view'.began = view.began
      /\ view'.papers = Found0 /\ UNCHANGED <<shelved, entityRows, changes>>
  BY DEF ReadTitles
<1>2. TitlesAreRead'
  <2>1. view'.kind = "citations" /\ Found0' = Found0
    BY <1>1 DEF ReadTitles, Found0
  <2>2. Found0 \subseteq Corpus
    BY DEF Found0, NetworksInv, NetworksTyped
  <2>3. QED
    BY <1>1, <2>1, <2>2 DEF TitlesAreRead
<1>3. /\ HeadlinesAreCounted' /\ AuthorsAreJoined' /\ CitationsAreCounted' /\ EntitiesAreCounted'
  BY <1>1 DEF HeadlinesAreCounted, AuthorsAreJoined, CitationsAreCounted, EntitiesAreCounted, ShownAs
<1>4. QED
  BY <1>1, <1>2, <1>3, ShowingKeeps DEF NetworksInv, NetworksAreSound

\* A network no limit cuts shows all there is.
LEMMA NothingIsCut ==
  ASSUME NEW S, IsFiniteSet(S), NEW weight, NEW n \in Nat, Cardinality(S) <= n,
         NEW kept \in TopOf(S, weight, n)
  PROVE  kept = S
<1>1. Cardinality(S) \in Nat
  BY FS_CardinalityType
<1>2. Min({n, Cardinality(S)}) = Cardinality(S)
  BY <1>1, MinOfTwo
<1>3. kept \in SUBSET S /\ Cardinality(kept) = Cardinality(S)
  BY <1>2 DEF TopOf
<1>4. QED
  BY <1>3, FS_Subset

LEMMA ShowCitationsKeeps ==
  ASSUME NetworksAssumption, NetworksInv, ShowCitations
  PROVE  NetworksInv'
<1> DEFINE P == view.papers
<1>1. PICK index \in TitleIndexes(P) :
        \E nodes \in TopOf(P, CitationWeights(P, Found0, index), MaxNodes) :
          Show(nodes, CitationWeights(P, Found0, index), Resolved(Found0, index), P)
  BY DEF ShowCitations
<1> DEFINE weights == CitationWeights(P, Found0, index)
           edges == Resolved(Found0, index)
<1>2. PICK nodes \in TopOf(P, weights, MaxNodes) : Show(nodes, weights, edges, P)
  BY <1>1
<1>3. /\ view'.stage = "shown" /\ view'.kind = view.kind /\ view'.ids = view.ids
      /\ view'.began = view.began /\ view'.nodes = nodes /\ view'.weights = weights
      /\ view'.edges = edges /\ view'.papers = P /\ UNCHANGED <<shelved, entityRows, changes>>
  BY <1>2 DEF Show
<1>4. Found0 \subseteq P /\ P \in SUBSET Corpus
  BY DEF ShowCitations, NetworksInv, TitlesAreRead
<1>5. \A e \in edges : e[1] # e[2] /\ {e[1], e[2]} \subseteq P
  <2> SUFFICES ASSUME NEW e \in edges PROVE e[1] # e[2] /\ {e[1], e[2]} \subseteq P
    OBVIOUS
  <2>1. PICK p \in Found0 : \E t \in DOMAIN index : e = <<p, index[t]>>
    BY DEF Resolved
  <2>2. PICK t \in DOMAIN index : e = <<p, index[t]>>
    BY <2>1
  <2>3. index[t] \in P
    BY DEF TitleIndexes
  <2>4. QED
    BY <1>4, <2>2, <2>3 DEF Resolved
<1>6. \A q \in nodes : weights[q] = 1 + Cardinality({e \in edges : e[2] = q})
  BY DEF TopOf, CitationWeights
<1>7. Cardinality(P) <= MaxNodes => nodes = P
  BY <1>4, ListingsAreFinite, NothingIsCut DEF NetworksAssumption
<1>8. CitationsAreCounted'
  <2> HIDE DEF weights, edges, P
  <2>1. QED
    BY <1>3, <1>5, <1>6, <1>7 DEF CitationsAreCounted
<1>9. QED
  <2>1. view.kind = "citations"
    BY DEF ShowCitations, NetworksInv, TitlesAreRead
  <2>2. TitlesAreRead' /\ HeadlinesAreCounted' /\ AuthorsAreJoined' /\ EntitiesAreCounted'
    BY <1>3, <2>1 DEF TitlesAreRead, HeadlinesAreCounted, AuthorsAreJoined, EntitiesAreCounted, ShownAs
  <2>3. QED
    BY <1>3, <1>8, <2>2, ShowingKeeps DEF NetworksInv, NetworksAreSound

LEMMA ShowEntitiesKeeps ==
  ASSUME NetworksAssumption, NetworksInv, NEW labels, NEW minPapers, ShowEntities(labels, minPapers)
  PROVE  NetworksInv'
<1> DEFINE counts == EntityWeights(Found0, labels)
           shared == {e \in DOMAIN counts : counts[e] >= minPapers}
           Edges(nodes) == UNION {{<<p, e>> : p \in Carriers(Found0, e)} : e \in nodes}
<1>1. PICK nodes \in TopOf(shared, counts, MaxNodes) : Show(nodes, counts, Edges(nodes), Found0)
  BY DEF ShowEntities
<1>2. /\ view'.stage = "shown" /\ view'.kind = "entities" /\ view'.ids = view.ids
      /\ view'.began = view.began /\ view'.nodes = nodes /\ view'.weights = counts
      /\ view'.edges = Edges(nodes) /\ UNCHANGED <<shelved, entityRows, changes>>
  BY <1>1 DEF Show, ShowEntities
<1>3. Found0 \in SUBSET Corpus
  BY DEF NetworksInv, NetworksTyped, Found0, Callers
<1>4. \A e \in nodes : counts[e] = Cardinality({x \in Edges(nodes) : x[2] = e})
  <2> SUFFICES ASSUME NEW e \in nodes
               PROVE  counts[e] = Cardinality({x \in Edges(nodes) : x[2] = e})
    OBVIOUS
  <2>1. counts[e] = Cardinality(Carriers(Found0, e))
    BY DEF TopOf, EntityWeights
  <2>2. {x \in Edges(nodes) : x[2] = e} = {<<p, e>> : p \in Carriers(Found0, e)}
    OBVIOUS
  <2>3. QED
    BY <1>3, <2>1, <2>2, CarriersAreCounted
<1>5. EntitiesAreCounted'
  <2> HIDE DEF counts, Edges
  <2>1. QED
    BY <1>2, <1>4 DEF EntitiesAreCounted, ShownAs
<1>6. TitlesAreRead' /\ HeadlinesAreCounted' /\ AuthorsAreJoined' /\ CitationsAreCounted'
  BY <1>2 DEF TitlesAreRead, HeadlinesAreCounted, AuthorsAreJoined, CitationsAreCounted, ShownAs
<1>7. QED
  BY <1>2, <1>5, <1>6, ShowingKeeps DEF NetworksInv, NetworksAreSound

LEMMA ReadHeadlinesKeeps ==
  ASSUME NetworksAssumption, NetworksInv, ReadHeadlines
  PROVE  NetworksInv'
<1> DEFINE counts == HeadlineWeights(Found0)
           At(h) == {p \in Found0 : h \in Headlines(p)}
<1>1. PICK top \in TopOf(DOMAIN counts, counts, MaxNodes) :
        view' = [stage |-> "headed", kind |-> view.kind, ids |-> view.ids, began |-> view.began,
                 nodes |-> top, weights |-> counts]
  BY DEF ReadHeadlines
<1>2. /\ view'.stage = "headed" /\ view'.kind = "overview" /\ view'.ids = view.ids
      /\ view'.began = view.began /\ view'.nodes = top /\ view'.weights = counts
      /\ UNCHANGED <<shelved, entityRows, changes>>
  BY <1>1 DEF ReadHeadlines
<1>3. Found0 \in SUBSET Corpus /\ view.ids \in SUBSET Corpus /\ Found0 \in SUBSET view.ids
  BY DEF NetworksInv, NetworksTyped, Found0, Callers
<1>4. IsFiniteSet(Found0) /\ IsFiniteSet(view.ids) /\ Cardinality(Found0) <= Cardinality(view.ids)
  BY <1>3, ListingsAreFinite, FS_Subset
<1>5. \A h \in top : counts[h] = Cardinality(At(h))
  BY DEF TopOf, HeadlineWeights
<1>6. \A h \in top : counts[h] <= Cardinality(view.ids)
  <2> SUFFICES ASSUME NEW h \in top PROVE counts[h] <= Cardinality(view.ids)
    OBVIOUS
  <2>1. At(h) \in SUBSET Found0
    OBVIOUS
  <2> HIDE DEF At, counts
  <2>2. IsFiniteSet(At(h)) /\ Cardinality(At(h)) <= Cardinality(Found0)
    BY <1>4, <2>1, FS_Subset
  <2>3. QED
    BY <1>4, <1>5, <2>2, FS_CardinalityType
<1>7. changes = view.began => HeadlinesAreExact'
  <2> SUFFICES ASSUME changes = view.began PROVE HeadlinesAreExact'
    OBVIOUS
  <2>1. Found0 = view.ids
    BY DEF NetworksInv, PapersAreThere, Found0
  <2>2. \A p : Headlines(p)' = Headlines(p)
    BY <1>2 DEF Headlines
  <2>3. \A h \in top : {p \in view.ids : h \in Headlines(p)'} = At(h)
    BY <2>1, <2>2
  <2> HIDE DEF counts, At
  <2>4. QED
    BY <1>2, <1>5, <2>3 DEF HeadlinesAreExact
<1>8. HeadlinesAreCounted'
  <2> HIDE DEF counts
  <2>1. QED
    BY <1>2, <1>6, <1>7 DEF HeadlinesAreCounted
<1>9. TitlesAreRead' /\ AuthorsAreJoined' /\ CitationsAreCounted' /\ EntitiesAreCounted'
  BY <1>2 DEF TitlesAreRead, AuthorsAreJoined, CitationsAreCounted, EntitiesAreCounted, ShownAs
<1>10. QED
  BY <1>2, <1>8, <1>9, ShowingKeeps DEF NetworksInv, NetworksAreSound

LEMMA ShowOverviewKeeps ==
  ASSUME NetworksInv, ShowOverview
  PROVE  NetworksInv'
<1> DEFINE degrees == Degrees(Found0)
<1>1. PICK top \in TopOf(DOMAIN degrees, degrees, MaxNodes) :
        Show(view.nodes, view.weights, {<<p, degrees[p]>> : p \in top}, top)
  BY DEF ShowOverview
<1>2. top \subseteq view.ids
  BY DEF TopOf, Degrees, Found0
<1> DEFINE edges == {<<p, degrees[p]>> : p \in top}
<1>3. \A x \in edges : x[1] \in view.ids /\ x[2] = Cardinality({e[2] : e \in entityRows[x[1]]})
  <2>1. \A p \in top : degrees[p] = Cardinality({e[2] : e \in entityRows[p]})
    BY DEF TopOf, Degrees
  <2> HIDE DEF degrees
  <2>2. \A x \in edges : x[1] \in top /\ x[2] = degrees[x[1]]
    OBVIOUS
  <2>3. QED
    BY <1>2, <2>1, <2>2
<1> HIDE DEF edges, degrees
<1>4. /\ view'.stage = "shown" /\ view'.kind = "overview" /\ view'.ids = view.ids
      /\ view'.began = view.began /\ view'.nodes = view.nodes /\ view'.weights = view.weights
      /\ view'.edges = edges /\ UNCHANGED <<shelved, entityRows, changes>>
  BY <1>1 DEF Show, ShowOverview, NetworksInv, HeadlinesAreCounted, edges
<1>5. DegreesAreExact' /\ (HeadlinesAreExact => HeadlinesAreExact')
  BY <1>3, <1>4 DEF DegreesAreExact, HeadlinesAreExact, Headlines
<1>6. EntitiesAreCounted'
  BY <1>3, <1>4, <1>5 DEF EntitiesAreCounted, ShownAs, ShowOverview, NetworksInv, HeadlinesAreCounted
<1>7. TitlesAreRead' /\ HeadlinesAreCounted' /\ AuthorsAreJoined' /\ CitationsAreCounted'
  BY <1>4 DEF TitlesAreRead, HeadlinesAreCounted, AuthorsAreJoined, CitationsAreCounted, ShownAs
<1>8. QED
  BY <1>4, <1>6, <1>7, ShowingKeeps DEF NetworksInv, NetworksAreSound

\* An expansion touches nothing that is said of the networks.
LEMMA ExpandingKeeps ==
  ASSUME NetworksInv, UNCHANGED <<shelved, entityRows, changes>>, view' \in ExpansionView,
         view'.began = view.began, view'.ids = view.ids
  PROVE  /\ NetworksTyped' /\ PapersAreThere' /\ TitlesAreRead' /\ HeadlinesAreCounted'
         /\ AuthorsAreJoined' /\ CitationsAreCounted' /\ EntitiesAreCounted'
<1>1. view'.stage \in {"asked", "seeded", "expanded"}
  BY DEF ExpansionView
<1>2. NetworksTyped'
  BY <1>1 DEF NetworksInv, NetworksTyped, ExpansionView
<1>3. QED
  BY <1>1, <1>2 DEF NetworksInv, PapersAreThere, TitlesAreRead, HeadlinesAreCounted, AuthorsAreJoined,
                    CitationsAreCounted, EntitiesAreCounted, ShownAs

LEMMA AskExpansionKeeps ==
  ASSUME NetworksAssumption, NetworksInv, NEW question \in Questions, NEW excluded \in Exclusions,
         AskExpansion(question, excluded)
  PROVE  NetworksInv'
<1>1. /\ view'.stage = "asked" /\ view'.ids = Accessible0 /\ view'.began = changes
      /\ view'.seeds = <<>> /\ view'.next = 1 /\ view'.rows = {} /\ view'.found = <<>>
      /\ shelved' = shelved /\ entityRows' = entityRows /\ changes' = changes
  BY DEF AskExpansion
<1>2. Accessible0 \subseteq Callers /\ Accessible0 \subseteq shelved
  BY DEF NetworksInv, NetworksTyped, Accessible0, Callers
<1>3. view' \in ExpansionView
  BY <1>2 DEF AskExpansion, ExpansionView, NetworksInv, NetworksTyped
<1>4. NetworksTyped'
  BY <1>1, <1>2, <1>3 DEF NetworksInv, NetworksTyped
<1>5. QED
  BY <1>1, <1>2, <1>4
  DEF NetworksInv, PapersAreThere, TitlesAreRead, HeadlinesAreCounted,
      ExpansionBegins, ExpansionReads, AllSeedsRead, NetworksAreSound, AuthorsAreJoined,
      CitationsAreCounted, EntitiesAreCounted, ExpansionIsFair, ShownAs

\* A statement whose limit is not reached finds all there is.
LEMMA SomeAreFound ==
  ASSUME NEW S, IsFiniteSet(S), NEW n \in Nat, NEW kept \in SomeOf(S, n)
  PROVE  /\ kept \in SUBSET S /\ IsFiniteSet(kept)
         /\ Cardinality(S) <= n => kept = S
<1>1. Cardinality(S) \in Nat
  BY FS_CardinalityType
<1>2. kept \in SUBSET S /\ Cardinality(kept) = Min({n, Cardinality(S)})
  BY DEF SomeOf, kSubset
<1>3. ASSUME Cardinality(S) <= n PROVE Min({n, Cardinality(S)}) = Cardinality(S)
  <2> DEFINE c == Cardinality(S)
             m == Min({n, c})
  <2>1. n \in Int /\ c \in Int /\ c <= n
    BY <1>1, <1>3
  <2> HIDE DEF c
  <2>2. m \in {n, c} /\ m <= n /\ m <= c
    BY <2>1, MinOfTwo
  <2> HIDE DEF m
  <2>3. m = c
    BY <2>1, <2>2
  <2>4. QED
    BY <2>3 DEF m, c
<1>4. ASSUME Cardinality(S) <= n PROVE kept = S
  <2>1. Cardinality(kept) = Cardinality(S)
    BY <1>2, <1>3, <1>4
  <2>2. QED
    BY ONLY <1>2, <2>1, IsFiniteSet(S), FS_Subset
<1>5. IsFiniteSet(kept)
  BY <1>2, FS_Subset
<1>6. QED
  BY <1>2, <1>4, <1>5

LEMMA EntitiesAreFinite ==
  ASSUME NetworksAssumption, NetworksTyped, NEW P \in SUBSET Corpus
  PROVE  IsFiniteSet(UNION {entityRows[p] : p \in P})
<1> DEFINE f == [p \in P |-> entityRows[p]]
<1>1. IsFiniteSet(P) /\ DOMAIN f = P /\ f = [p \in P |-> f[p]]
  BY ListingsAreFinite
<1>2. {entityRows[p] : p \in P} = {f[p] : p \in P}
  OBVIOUS
<1>3. \A T \in {f[p] : p \in P} : IsFiniteSet(T)
  BY DEF NetworksTyped
<1> HIDE DEF f
<1>4. IsFiniteSet({f[p] : p \in P})
  BY <1>1, ImageIsFinite
<1>5. QED
  BY <1>2, <1>3, <1>4, FS_UNION

LEMMA ReadSeedsKeeps ==
  ASSUME NetworksAssumption, NetworksInv, ReadSeeds
  PROVE  NetworksInv'
<1> DEFINE named == {e \in UNION {entityRows[p] : p \in Found0} : e[2] \in view.question}
<1>1. PICK kept \in SomeOf(named, MaxSeeds) : \E seeds \in SetToSeqs(kept) :
        view' = [view EXCEPT !.stage = "seeded", !.seeds = seeds]
  BY DEF ReadSeeds
<1>2. PICK seeds \in SetToSeqs(kept) : view' = [view EXCEPT !.stage = "seeded", !.seeds = seeds]
  BY <1>1
<1>3. Found0 \in SUBSET Corpus /\ view.stage = "asked" /\ UNCHANGED <<shelved, entityRows, changes>>
  BY DEF ReadSeeds, NetworksInv, NetworksTyped, Found0, Callers
<1>4. IsFiniteSet(named)
  <2>1. named \in SUBSET UNION {entityRows[p] : p \in Found0}
    OBVIOUS
  <2>2. QED
    BY <1>3, <2>1, EntitiesAreFinite, FS_Subset DEF NetworksInv
<1>5. kept \in SUBSET named /\ IsFiniteSet(kept) /\ (Cardinality(named) <= MaxSeeds => kept = named)
  BY <1>4, SomeAreFound DEF NetworksAssumption
<1>6. named \in SUBSET AllEntities
  BY DEF Found0, NetworksInv, NetworksTyped, Callers
<1>7. seeds \in Seq(kept) /\ IsInjective(seeds) /\ ToSet(seeds) = kept
  BY <1>5, ListedIsAll
<1>8. seeds \in Seq(AllEntities)
  BY <1>5, <1>6, <1>7
<1>9. view \in ExpansionView /\ view.seeds = <<>> /\ view.next = 1 /\ view.rows = {} /\ view.found = <<>>
  BY <1>3 DEF NetworksInv, NetworksTyped, ExpansionBegins
<1>10. view' \in ExpansionView
  BY <1>2, <1>8, <1>9 DEF ExpansionView
<1>11. /\ view'.stage = "seeded" /\ view'.seeds = seeds /\ view'.ids = view.ids
       /\ view'.began = view.began /\ view'.question = view.question
       /\ view'.excluded = view.excluded /\ view'.next = 1 /\ view'.rows = {} /\ view'.found = <<>>
  BY <1>2, <1>9 DEF ExpansionView
<1>12. Uncut' => ToSet(seeds) = Named'
  <2> SUFFICES ASSUME Uncut' PROVE ToSet(seeds) = Named'
    OBVIOUS
  <2>1. Found0 = view.ids
    BY <1>3, <1>11 DEF Uncut, NetworksInv, PapersAreThere, Found0
  <2>2. Named' = named
    BY <1>3, <1>11, <2>1 DEF Named
  <2>3. QED
    BY <1>5, <1>7, <2>2 DEF Uncut
<1>13. ExpansionReads'
  <2>1. Len(seeds) \in Nat
    BY <1>7
  <2>2. ToSet(<<>>) = {} /\ IsInjective(<<>>)
    BY DEF ToSet, IsInjective
  <2> HIDE DEF named
  <2>3. QED
    BY <1>7, <1>11, <1>12, <2>1, <2>2 DEF ExpansionReads
<1>14. ExpansionBegins' /\ AllSeedsRead' /\ ExpansionIsFair'
  BY <1>11 DEF ExpansionBegins, AllSeedsRead, ExpansionIsFair
<1>15. QED
  BY <1>3, <1>10, <1>11, <1>13, <1>14, ExpandingKeeps DEF NetworksInv, NetworksAreSound

LEMMA ReadSiblingsKeeps ==
  ASSUME NetworksAssumption, NetworksInv, ReadSiblings
  PROVE  NetworksInv'
<1> DEFINE k == view.next
           seed == view.seeds[k]
<1>1. PICK siblings \in SomeOf(SiblingsOf(seed), MaxRelated) :
        \E order \in SetToSeqs(siblings \ view.excluded) :
          view' = [view EXCEPT !.next = @ + 1,
                               !.rows = @ \cup {<<p, seed>> : p \in siblings},
                               !.found = @ \o [i \in DOMAIN order |-> <<order[i], seed>>]]
  BY DEF ReadSiblings
<1>2. PICK order \in SetToSeqs(siblings \ view.excluded) :
        view' = [view EXCEPT !.next = @ + 1,
                             !.rows = @ \cup {<<p, seed>> : p \in siblings},
                             !.found = @ \o [i \in DOMAIN order |-> <<order[i], seed>>]]
  BY <1>1
<1> DEFINE new == {<<p, seed>> : p \in siblings}
           paths == [i \in DOMAIN order |-> <<order[i], seed>>]
<1>3. view \in ExpansionView /\ view.stage = "seeded" /\ k \in 1 .. Len(view.seeds)
      /\ UNCHANGED <<shelved, entityRows, changes>>
  BY DEF ReadSiblings, NetworksInv, NetworksTyped, ExpansionReads
<1>4. /\ Found0 \in SUBSET Corpus /\ view.ids \subseteq Callers /\ Found0 \subseteq view.ids
      /\ seed \in AllEntities /\ k \in Nat
  BY <1>3 DEF NetworksInv, NetworksTyped, Found0, Callers, ExpansionView
<1>5. siblings \in SUBSET Carriers(Found0, seed) /\ IsFiniteSet(siblings)
      /\ (Cardinality(Carriers(Found0, seed)) <= MaxRelated => siblings = Carriers(Found0, seed))
  <2>1. IsFiniteSet(Carriers(Found0, seed)) /\ MaxRelated \in Nat
    BY <1>4, CarriersAreCounted DEF NetworksAssumption
  <2>2. siblings \in SomeOf(Carriers(Found0, seed), MaxRelated)
    BY DEF SiblingsOf
  <2> HIDE DEF seed
  <2>3. QED
    BY <2>1, <2>2, SomeAreFound
<1>6. /\ order \in Seq(siblings \ view.excluded) /\ IsInjective(order)
      /\ ToSet(order) = siblings \ view.excluded
  <2>1. IsFiniteSet(siblings \ view.excluded)
    BY <1>5, FS_Difference
  <2>2. QED
    BY <2>1, ListedIsAll
<1>7. siblings \subseteq Callers /\ new \in SUBSET (Callers \X AllEntities)
  BY <1>4, <1>5 DEF Carriers
<1>8. /\ paths \in Seq(Callers \X AllEntities) /\ IsInjective(paths)
      /\ ToSet(paths) = {row \in new : row[1] \notin view.excluded}
  <2>1. DOMAIN order = 1 .. Len(order) /\ Len(order) \in Nat
        /\ \A i \in DOMAIN order : order[i] \in siblings \ view.excluded
    BY <1>6
  <2>2. paths \in Seq(Callers \X AllEntities)
    BY <1>4, <1>7, <2>1
  <2>3. IsInjective(paths)
    BY <1>6 DEF IsInjective
  <2>4. ToSet(paths) = {<<p, seed>> : p \in ToSet(order)}
    BY DEF ToSet
  <2>5. QED
    BY <1>6, <2>2, <2>3, <2>4
<1>9. /\ view'.stage = "seeded" /\ view'.seeds = view.seeds /\ view'.ids = view.ids
      /\ view'.began = view.began /\ view'.question = view.question
      /\ view'.excluded = view.excluded /\ view'.next = k + 1
      /\ view'.rows = view.rows \cup new /\ view'.found = view.found \o paths
  BY <1>2, <1>3 DEF ExpansionView
<1>10. /\ IsInjective(view.seeds) /\ IsInjective(view.found)
       /\ \A row \in view.rows : row[1] \in view.ids /\ \E h \in 1 .. k - 1 : row[2] = view.seeds[h]
       /\ ToSet(view.found) = {row \in view.rows : row[1] \notin view.excluded}
       /\ view.found \in Seq(Callers \X AllEntities)
  BY <1>3 DEF NetworksInv, ExpansionReads, ExpansionView
<1>11. \A h \in 1 .. k - 1 : h \in DOMAIN view.seeds /\ view.seeds[h] # seed
  BY <1>3, <1>4, <1>10 DEF ExpansionView, IsInjective
<1>12. \A row \in view.rows : row[2] # seed
  BY <1>10, <1>11
<1>13. /\ view.found \o paths \in Seq(Callers \X AllEntities) /\ IsInjective(view.found \o paths)
       /\ ToSet(view.found \o paths) = ToSet(view.found) \cup ToSet(paths)
  <2>1. ToSet(view.found) \cap ToSet(paths) = {}
    <3>1. \A row \in ToSet(view.found) : row[2] # seed
      BY <1>10, <1>12
    <3>2. \A row \in ToSet(paths) : row[2] = seed
      BY <1>8
    <3> HIDE DEF paths, seed
    <3>3. QED
      BY <3>1, <3>2
  <2> HIDE DEF paths
  <2>2. QED
    BY <1>8, <1>10, <2>1, ListedOneAfterTheOther
<1>14. view' \in ExpansionView
  <2>1. view' = [view EXCEPT !.next = k + 1, !.rows = view.rows \cup new,
                             !.found = view.found \o paths]
    BY <1>2, <1>3 DEF ExpansionView
  <2>2. k + 1 \in Nat /\ view.rows \cup new \in SUBSET (Callers \X AllEntities)
    BY <1>3, <1>4, <1>7 DEF ExpansionView
  <2> HIDE DEF paths, new, k
  <2>3. QED
    BY <1>3, <1>13, <2>1, <2>2 DEF ExpansionView
<1>15. \A row \in view.rows \cup new :
         row[1] \in view.ids /\ \E h \in 1 .. k : row[2] = view.seeds[h]
  <2>1. ASSUME NEW row \in new PROVE row[1] \in view.ids /\ row[2] = view.seeds[k]
    BY <1>4, <1>5 DEF Carriers
  <2>2. k \in 1 .. k /\ \A h \in 1 .. k - 1 : h \in 1 .. k
    BY <1>3, <1>4
  <2> HIDE DEF new, k
  <2>3. QED
    BY <1>10, <2>1, <2>2
<1>16. ASSUME Uncut
       PROVE  \A h \in 1 .. k : \A p \in view.ids :
                <<p, view.seeds[h]>> \in view.rows \cup new <=> view.seeds[h] \in entityRows[p]
  <2>1. Found0 = view.ids
    BY <1>16 DEF Uncut, NetworksInv, PapersAreThere, Found0
  <2>2. ToSet(view.seeds) = Named
        /\ \A h \in 1 .. k - 1 : \A p \in view.ids :
             <<p, view.seeds[h]>> \in view.rows <=> view.seeds[h] \in entityRows[p]
    BY <1>3, <1>16 DEF NetworksInv, ExpansionReads
  <2>3. seed \in Named
    BY <1>3, <2>2 DEF ToSet, ExpansionView
  <2>4. siblings = Carriers(view.ids, seed)
    BY <1>5, <1>16, <2>1, <2>3 DEF Uncut, Named
  <2>5. ASSUME NEW p \in view.ids
        PROVE  <<p, seed>> \in view.rows \cup new <=> seed \in entityRows[p]
    BY <1>12, <2>4 DEF Carriers
  <2>6. ASSUME NEW h \in 1 .. k - 1, NEW p \in view.ids
        PROVE  <<p, view.seeds[h]>> \in view.rows \cup new <=> view.seeds[h] \in entityRows[p]
    BY <1>11, <2>2
  <2>7. \A h \in 1 .. k : h = k \/ h \in 1 .. k - 1
    BY <1>4
  <2> HIDE DEF new
  <2>8. QED
    BY <2>5, <2>6, <2>7
<1>17. Uncut' <=> Uncut
  BY <1>3, <1>9 DEF Uncut, Named, Carriers
<1>18. Uncut => ToSet(view.seeds) = Named'
  BY <1>3, <1>9 DEF NetworksInv, ExpansionReads, Named
<1>19. ToSet(view.found \o paths) = {row \in view.rows \cup new : row[1] \notin view.excluded}
  <2> HIDE DEF new, paths
  <2>1. QED
    BY <1>8, <1>10, <1>13
<1>20. ExpansionReads'
  <2>1. k + 1 \in 1 .. Len(view.seeds) + 1 /\ k + 1 - 1 = k
    BY <1>3, <1>4 DEF ExpansionView
  <2>2. view'.next - 1 = k
    <3>1. view'.next = k + 1 /\ k \in Nat
      BY <1>4, <1>9
    <3> HIDE DEF k
    <3>2. QED
      BY <3>1
  <2> HIDE DEF new, paths, k
  <2>3. Uncut' =>
          /\ ToSet(view'.seeds) = Named'
          /\ \A h \in 1 .. k : \A p \in view'.ids :
               <<p, view'.seeds[h]>> \in view'.rows <=> view'.seeds[h] \in entityRows'[p]
    BY <1>3, <1>9, <1>16, <1>17, <1>18
  <2>4. /\ IsInjective(view'.seeds) /\ view'.next \in 1 .. Len(view'.seeds) + 1
        /\ \A row \in view'.rows : row[1] \in view'.ids /\ \E h \in 1 .. k : row[2] = view'.seeds[h]
        /\ IsInjective(view'.found)
        /\ ToSet(view'.found) = {row \in view'.rows : row[1] \notin view'.excluded}
    BY <1>9, <1>10, <1>13, <1>15, <1>19, <2>1
  <2>5. QED
    BY <2>2, <2>3, <2>4 DEF ExpansionReads
<1>21. ExpansionBegins' /\ AllSeedsRead' /\ ExpansionIsFair'
  BY <1>9 DEF ExpansionBegins, AllSeedsRead, ExpansionIsFair
<1>22. QED
  BY <1>3, <1>9, <1>14, <1>20, <1>21, ExpandingKeeps DEF NetworksInv, NetworksAreSound

\* The papers the paths lead to, and where the paths to one of them stand.
ReachedBy(found) == {path[1] : path \in ToSet(found)}
PlacesOf(found, p) == {i \in DOMAIN found : found[i][1] = p}

LEMMA PathsAreCounted ==
  ASSUME NEW P, NEW E, NEW found \in Seq(P \X E)
  PROVE  /\ \A p : IsFiniteSet(PlacesOf(found, p)) /\ Strength(found, p) \in Nat
         /\ \A p \in ReachedBy(found) : FirstAt(found, p) \in Nat
                                        /\ FirstAt(found, p) \in PlacesOf(found, p)
<1>1. PICK n \in Nat : DOMAIN found = 1 .. n
  OBVIOUS
<1>2. IsFiniteSet(1 .. n)
  <2>1. 1 \in Int /\ n \in Int
    OBVIOUS
  <2>2. QED
    BY <2>1, FS_Interval
<1>3. ASSUME NEW p PROVE IsFiniteSet(PlacesOf(found, p)) /\ PlacesOf(found, p) \in SUBSET Nat
  <2>1. PlacesOf(found, p) \in SUBSET (1 .. n)
    BY <1>1 DEF PlacesOf
  <2>2. QED
    BY <1>2, <2>1, FS_Subset
<1>4. ASSUME NEW p PROVE Strength(found, p) \in Nat
  BY <1>3, FS_CardinalityType DEF Strength, PlacesOf
<1>5. ASSUME NEW p \in ReachedBy(found)
      PROVE  FirstAt(found, p) \in PlacesOf(found, p)
  <2>1. PlacesOf(found, p) # {}
    BY DEF ReachedBy, ToSet, PlacesOf
  <2>2. \E m \in PlacesOf(found, p) : \A k \in PlacesOf(found, p) : m <= k
    BY <1>3, <2>1, LeastExists
  <2>3. Min(PlacesOf(found, p)) \in PlacesOf(found, p)
    BY <2>2 DEF Min
  <2>4. QED
    BY <2>3 DEF FirstAt, PlacesOf
<1>6. QED
  BY <1>3, <1>4, <1>5

\* The pairs of papers of which the first is ranked before the second.
Ranking0(found) == {pq \in ReachedBy(found) \X ReachedBy(found) : Precedes(found, pq[1], pq[2])}

LEMMA PathsAreRanked ==
  ASSUME NEW P, NEW E, NEW found \in Seq(P \X E)
  PROVE  Orders(Ranking0(found), ReachedBy(found))
<1> DEFINE S == ReachedBy(found)
           s(p) == Strength(found, p)
           f(p) == FirstAt(found, p)
<1>1. \A p \in S : s(p) \in Nat /\ f(p) \in Nat
  BY PathsAreCounted
<1>2. \A p, q \in S : f(p) = f(q) => p = q
  <2>1. \A p \in S : f(p) \in PlacesOf(found, p)
    BY PathsAreCounted
  <2> HIDE DEF S, f
  <2>2. QED
    BY <2>1 DEF PlacesOf
<1>3. \A p, q \in S : <<p, q>> \in Ranking0(found) <=> s(p) > s(q) \/ (s(p) = s(q) /\ f(p) < f(q))
  BY DEF Ranking0, Precedes
<1> HIDE DEF S, s, f
<1>4. \A x \in S : <<x, x>> \notin Ranking0(found)
  BY <1>1, <1>3
<1>5. \A x, y, z \in S : <<x, y>> \in Ranking0(found) /\ <<y, z>> \in Ranking0(found) =>
                           <<x, z>> \in Ranking0(found)
  <2> SUFFICES ASSUME NEW x \in S, NEW y \in S, NEW z \in S,
                      <<x, y>> \in Ranking0(found), <<y, z>> \in Ranking0(found)
               PROVE  <<x, z>> \in Ranking0(found)
    OBVIOUS
  <2>1. s(x) \in Nat /\ s(y) \in Nat /\ s(z) \in Nat /\ f(x) \in Nat /\ f(y) \in Nat /\ f(z) \in Nat
    BY <1>1
  <2>2. /\ s(x) > s(y) \/ (s(x) = s(y) /\ f(x) < f(y))
        /\ s(y) > s(z) \/ (s(y) = s(z) /\ f(y) < f(z))
    BY <1>3
  <2>3. s(x) > s(z) \/ (s(x) = s(z) /\ f(x) < f(z))
    BY <2>1, <2>2
  <2>4. QED
    BY <1>3, <2>3
<1>6. \A x, y \in S : x = y \/ <<x, y>> \in Ranking0(found) \/ <<y, x>> \in Ranking0(found)
  <2> SUFFICES ASSUME NEW x \in S, NEW y \in S, x # y
               PROVE  <<x, y>> \in Ranking0(found) \/ <<y, x>> \in Ranking0(found)
    OBVIOUS
  <2>1. s(x) \in Nat /\ s(y) \in Nat /\ f(x) \in Nat /\ f(y) \in Nat /\ f(x) # f(y)
    BY <1>1, <1>2
  <2>2. \/ s(x) > s(y) \/ (s(x) = s(y) /\ f(x) < f(y))
        \/ s(y) > s(x) \/ (s(y) = s(x) /\ f(y) < f(x))
    BY <2>1
  <2>3. QED
    BY <1>3, <2>2
<1>7. QED
  BY <1>4, <1>5, <1>6 DEF Orders, S

\* Ranking lists every paper once, those with more paths first.
LEMMA RankedPathsAreOrdered ==
  ASSUME NEW P, IsFiniteSet(P), NEW E, NEW found \in Seq(P \X E)
  PROVE  LET ranked == RankedPaths(found) IN
         /\ ranked \in Seq(ReachedBy(found)) /\ IsInjective(ranked)
         /\ ToSet(ranked) = ReachedBy(found)
         /\ \A i, j \in DOMAIN ranked :
              i < j => Strength(found, ranked[i]) >= Strength(found, ranked[j])
<1> DEFINE S == ReachedBy(found)
           R == Ranking0(found)
           n == Cardinality(S)
           ranked == RankedPaths(found)
           c(p) == Cardinality(Below(S, R, p))
<1>1. S \in SUBSET P
  BY DEF ReachedBy, ToSet
<1>2. IsFiniteSet(S) /\ n \in Nat
  BY <1>1, FS_Subset, FS_CardinalityType
<1>3. /\ \A x \in S : c(x) \in 0 .. n - 1
      /\ \A x, y \in S : <<x, y>> \in R <=> c(x) < c(y)
      /\ \A x, y \in S : c(x) = c(y) => x = y
      /\ \A k \in 0 .. n - 1 : \E x \in S : c(x) = k
  <2>1. Orders(R, S)
    BY PathsAreRanked
  <2> HIDE DEF R, S
  <2>2. QED
    BY ONLY <1>2, <2>1, PlacesAreCounted
<1>4. \A p \in S : {q \in S : Precedes(found, q, p)} = Below(S, R, p)
  BY DEF Below, Ranking0
<1> DEFINE At(k) == CHOOSE p \in S : Cardinality({q \in S : Precedes(found, q, p)}) = k - 1
<1>5. ranked = [k \in 1 .. n |-> At(k)]
  BY DEF RankedPaths, ReachedBy
<1>6. ASSUME NEW k, \E p \in S : c(p) = k - 1
       PROVE  At(k) \in S /\ c(At(k)) = k - 1
  <2>1. \E p \in S : Cardinality({q \in S : Precedes(found, q, p)}) = k - 1
    BY <1>4, <1>6
  <2>2. At(k) \in S /\ Cardinality({q \in S : Precedes(found, q, At(k))}) = k - 1
    BY <2>1
  <2>3. QED
    BY <1>4, <2>2
<1> HIDE DEF S, R, n, ranked, c, At
<1>7. \A k \in 1 .. n : ranked[k] \in S /\ c(ranked[k]) = k - 1
  <2> SUFFICES ASSUME NEW k \in 1 .. n PROVE ranked[k] \in S /\ c(ranked[k]) = k - 1
    OBVIOUS
  <2>1. k - 1 \in 0 .. n - 1
    BY <1>2
  <2>2. \E p \in S : c(p) = k - 1
    BY <1>3, <2>1
  <2>3. QED
    BY <1>5, <1>6, <2>2
<1>8. ranked \in Seq(S) /\ DOMAIN ranked = 1 .. n
  BY <1>2, <1>5, <1>7
<1>9. IsInjective(ranked)
  <2>1. \A i, j \in 1 .. n : i - 1 = j - 1 => i = j
    BY <1>2
  <2>2. QED
    BY <1>7, <1>8, <2>1 DEF IsInjective
<1>10. ToSet(ranked) = S
  <2>1. ASSUME NEW p \in S PROVE \E k \in 1 .. n : ranked[k] = p
    <3>1. c(p) + 1 \in 1 .. n /\ c(p) + 1 - 1 = c(p)
      BY <1>2, <1>3
    <3>2. QED
      BY <1>3, <1>7, <3>1
  <2>2. QED
    BY <1>7, <1>8, <2>1 DEF ToSet
<1>11. \A i, j \in 1 .. n : i < j => Strength(found, ranked[i]) >= Strength(found, ranked[j])
  <2> SUFFICES ASSUME NEW i \in 1 .. n, NEW j \in 1 .. n, i < j
               PROVE  Strength(found, ranked[i]) >= Strength(found, ranked[j])
    OBVIOUS
  <2>1. c(ranked[i]) < c(ranked[j])
    BY <1>2, <1>7
  <2>2. <<ranked[i], ranked[j]>> \in R
    BY <1>3, <1>7, <2>1
  <2>3. Precedes(found, ranked[i], ranked[j])
    BY <2>2 DEF R, Ranking0
  <2>4. Strength(found, ranked[i]) \in Nat /\ Strength(found, ranked[j]) \in Nat
    BY PathsAreCounted
  <2>5. QED
    BY <2>3, <2>4 DEF Precedes
<1>12. QED
  BY <1>8, <1>9, <1>10, <1>11 DEF S, ranked

\* The rows whose papers are not excluded, and the entities rows give a paper.
Allowed(rows, excluded) == {row \in rows : row[1] \notin excluded}
SharedBy(rows, p) == {row[2] : row \in {r \in rows : r[1] = p}}

\* As many paths lead to a paper as it shares entities with the question.
LEMMA StrengthIsShared ==
  ASSUME NEW rows, NEW excluded, NEW found, IsInjective(found), ToSet(found) = Allowed(rows, excluded),
         \A path \in ToSet(found) : path = <<path[1], path[2]>>,
         NEW p \in ReachedBy(found), IsFiniteSet(PlacesOf(found, p))
  PROVE  Strength(found, p) = Cardinality(SharedBy(rows, p))
<1> DEFINE D == PlacesOf(found, p)
           f == [i \in D |-> found[i][2]]
<1>1. IsFiniteSet(D)
  OBVIOUS
<1>2. DOMAIN f = D /\ f = [i \in D |-> f[i]]
  OBVIOUS
<1>3. \A i \in DOMAIN found : found[i] = <<found[i][1], found[i][2]>> /\ found[i] \in rows
                              /\ found[i][1] \notin excluded
  <2> SUFFICES ASSUME NEW i \in DOMAIN found
               PROVE  found[i] = <<found[i][1], found[i][2]>> /\ found[i] \in rows
                      /\ found[i][1] \notin excluded
    OBVIOUS
  <2>1. found[i] \in ToSet(found)
    BY DEF ToSet
  <2>2. QED
    BY <2>1 DEF Allowed
<1>4. \A i, j \in D : f[i] = f[j] => i = j
  BY <1>3 DEF PlacesOf, IsInjective
<1>5. p \notin excluded
  BY DEF ReachedBy, Allowed
<1>6. {f[i] : i \in D} = {row[2] : row \in {r \in rows : r[1] = p}}
  <2>1. ASSUME NEW i \in D PROVE \E row \in rows : row[1] = p /\ row[2] = f[i]
    BY <1>3 DEF PlacesOf
  <2>2. ASSUME NEW row \in rows, row[1] = p PROVE \E i \in D : f[i] = row[2]
    <3>1. row \in ToSet(found)
      BY <1>5, <2>2 DEF Allowed
    <3>2. PICK i \in DOMAIN found : found[i] = row
      BY <3>1 DEF ToSet
    <3>3. QED
      BY <2>2, <3>2 DEF PlacesOf
  <2> HIDE DEF D, f
  <2>3. QED
    BY <2>1, <2>2
<1> HIDE DEF f, D
<1>7. Cardinality({f[i] : i \in D}) = Cardinality(D)
  BY <1>1, <1>2, <1>4, DistinctImages
<1>8. QED
  BY <1>6, <1>7 DEF Strength, PlacesOf, D, SharedBy

\* What is kept of a ranking is its beginning, and what is left out is ranked lower.
LEMMA RankPathsKeeps ==
  ASSUME NetworksAssumption, NEW P, IsFiniteSet(P), NEW E, NEW found \in Seq(P \X E)
  PROVE  LET related == RankPaths(found) IN
         /\ related \in Seq(ReachedBy(found)) /\ IsInjective(related) /\ Len(related) <= MaxRelated
         /\ \A i, j \in DOMAIN related :
              i < j => Strength(found, related[i]) >= Strength(found, related[j])
         /\ \A p \in ReachedBy(found) \ ToSet(related), q \in ToSet(related) :
              Strength(found, p) <= Strength(found, q)
<1> DEFINE S == ReachedBy(found)
           ranked == RankedPaths(found)
           n == Len(ranked)
           m == Min({MaxRelated, n})
           related == RankPaths(found)
<1>1. /\ ranked \in Seq(S) /\ IsInjective(ranked) /\ ToSet(ranked) = S
      /\ \A i, j \in DOMAIN ranked :
           i < j => Strength(found, ranked[i]) >= Strength(found, ranked[j])
  BY RankedPathsAreOrdered
<1>2. MaxRelated \in Nat
  BY DEF NetworksAssumption
<1>3. related = SubSeq(ranked, 1, m)
  BY DEF RankPaths
<1> HIDE DEF S, ranked, related
<1>4. n \in Nat /\ m \in Nat /\ m <= MaxRelated /\ m <= n /\ DOMAIN ranked = 1 .. n
  <2>1. n \in Nat /\ n \in Int /\ MaxRelated \in Int /\ DOMAIN ranked = 1 .. n
    BY <1>1, <1>2
  <2>2. m \in {MaxRelated, n} /\ m <= MaxRelated /\ m <= n
    BY <2>1, MinOfTwo
  <2> HIDE DEF m, n
  <2>3. QED
    BY <1>2, <2>1, <2>2
<1> HIDE DEF m
<1>5. /\ related \in Seq(S) /\ Len(related) = m /\ DOMAIN related = 1 .. m
      /\ \A i \in 1 .. m : related[i] = ranked[i] /\ i \in 1 .. n
  BY <1>1, <1>3, <1>4
<1> HIDE DEF n
<1>6. IsInjective(related)
  BY <1>1, <1>4, <1>5 DEF IsInjective
<1>7. \A i, j \in DOMAIN related :
        i < j => Strength(found, related[i]) >= Strength(found, related[j])
  BY <1>1, <1>4, <1>5
<1>8. ASSUME NEW p \in S \ ToSet(related), NEW q \in ToSet(related)
      PROVE  Strength(found, p) <= Strength(found, q)
  <2>1. PICK i \in 1 .. n : ranked[i] = p
    BY <1>1, <1>4 DEF ToSet
  <2>2. PICK j \in 1 .. m : ranked[j] = q /\ j \in 1 .. n
    BY <1>5 DEF ToSet
  <2>3. i \notin 1 .. m
    BY <1>5, <2>1 DEF ToSet
  <2>4. j < i
    BY <1>4, <2>3
  <2>5. Strength(found, q) >= Strength(found, p)
    BY <1>1, <1>4, <2>1, <2>2, <2>4
  <2>6. Strength(found, p) \in Nat /\ Strength(found, q) \in Nat
    BY PathsAreCounted
  <2>7. QED
    BY <2>5, <2>6
<1>9. QED
  BY <1>4, <1>5, <1>6, <1>7, <1>8 DEF S, related

LEMMA FinishExpansionKeeps ==
  ASSUME NetworksAssumption, NetworksInv, FinishExpansion
  PROVE  NetworksInv'
<1> DEFINE found == view.found
           related == RankPaths(found)
           Shared(p) == {row[2] : row \in {r \in view.rows : r[1] = p}}
           reached == {row[1] : row \in view.rows} \ view.excluded
<1>1. view \in ExpansionView /\ view.stage = "seeded" /\ view.next > Len(view.seeds)
      /\ UNCHANGED <<shelved, entityRows, changes>>
  BY DEF FinishExpansion, NetworksInv, NetworksTyped
<1>2. /\ IsInjective(view.seeds) /\ view.next \in 1 .. Len(view.seeds) + 1
      /\ \A row \in view.rows : row[1] \in view.ids
                                /\ \E k \in 1 .. view.next - 1 : row[2] = view.seeds[k]
      /\ IsInjective(found) /\ ToSet(found) = {row \in view.rows : row[1] \notin view.excluded}
      /\ Uncut => /\ ToSet(view.seeds) = Named
                  /\ \A k \in 1 .. view.next - 1 : \A p \in view.ids :
                       <<p, view.seeds[k]>> \in view.rows <=> view.seeds[k] \in entityRows[p]
  BY <1>1 DEF NetworksInv, ExpansionReads
<1>3. Len(view.seeds) \in Nat /\ view.next = Len(view.seeds) + 1
  BY <1>1, <1>2 DEF ExpansionView
<1>4. IsFiniteSet(Callers) /\ found \in Seq(Callers \X AllEntities)
      /\ view.rows \in SUBSET (Callers \X AllEntities)
  <2>1. Callers \in SUBSET Corpus
    BY DEF Callers
  <2>2. QED
    BY <1>1, <2>1, ListingsAreFinite DEF ExpansionView
<1>5. ReachedBy(found) = reached
  BY <1>2 DEF ReachedBy
<1>6. ReachedBy(found) \subseteq Callers
  BY <1>4, <1>5
<1>7. ASSUME NEW p, p \in ReachedBy(found)
      PROVE  Strength(found, p) = Cardinality(Shared(p))
  <2> DEFINE rows == view.rows
             excluded == view.excluded
  <2>1. /\ rows \in SUBSET (Callers \X AllEntities) /\ found \in Seq(Callers \X AllEntities)
        /\ IsInjective(found) /\ ToSet(found) = Allowed(rows, excluded)
        /\ \A path \in ToSet(found) : path = <<path[1], path[2]>>
    BY <1>2, <1>4 DEF Allowed
  <2> HIDE DEF found, rows, excluded
  <2>2. IsFiniteSet(PlacesOf(found, p))
    BY <2>1, PathsAreCounted
  <2>3. Strength(found, p) = Cardinality(SharedBy(rows, p))
    BY <1>7, <2>1, <2>2, StrengthIsShared
  <2>4. QED
    BY <2>3 DEF rows, SharedBy
<1>8. /\ related \in Seq(ReachedBy(found)) /\ IsInjective(related) /\ Len(related) <= MaxRelated
      /\ \A i, j \in DOMAIN related :
           i < j => Strength(found, related[i]) >= Strength(found, related[j])
      /\ \A p \in ReachedBy(found) \ ToSet(related), q \in ToSet(related) :
           Strength(found, p) <= Strength(found, q)
  <2> HIDE DEF found
  <2>1. QED
    BY <1>4, RankPathsKeeps
<1> HIDE DEF found, related
<1>9. view' = [view EXCEPT !.stage = "expanded", !.related = related]
  BY DEF FinishExpansion, related, found
<1>10. /\ view'.stage = "expanded" /\ view'.related = related /\ view'.seeds = view.seeds
       /\ view'.ids = view.ids /\ view'.began = view.began /\ view'.question = view.question
       /\ view'.excluded = view.excluded /\ view'.next = view.next
       /\ view'.rows = view.rows /\ view'.found = view.found
  BY <1>1, <1>9 DEF ExpansionView
<1>11. view' \in ExpansionView
  <2>1. related \in Seq(Callers)
    BY <1>6, <1>8
  <2>2. QED
    BY <1>1, <1>9, <2>1 DEF ExpansionView
<1>12. Uncut' = Uncut /\ Named' = Named
  BY <1>1, <1>10 DEF Uncut, Named, Carriers
<1>13. ExpansionReads'
  <2>1. \A h \in 1 .. view.next - 1 : \A p \in view.ids : entityRows'[p] = entityRows[p]
    BY <1>1
  <2>2. QED
    BY <1>1, <1>2, <1>10, <1>12 DEF ExpansionReads, found
<1>14. ExpansionBegins' /\ AllSeedsRead'
  BY <1>3, <1>10 DEF ExpansionBegins, AllSeedsRead
<1>15. ToSet(related) \subseteq reached /\ \A i \in DOMAIN related : related[i] \in reached
  <2>1. \A i \in DOMAIN related : related[i] \in ReachedBy(found)
    BY <1>8
  <2>2. QED
    BY <1>5, <2>1 DEF ToSet
<1>16. ToSet(related) \subseteq {p \in reached : HeldBy[p] = "caller"}
  BY <1>5, <1>6, <1>15 DEF Callers
<1>17. /\ \A i, j \in DOMAIN related :
            i < j => Cardinality(Shared(related[i])) >= Cardinality(Shared(related[j]))
       /\ \A p \in reached \ ToSet(related), q \in ToSet(related) :
            Cardinality(Shared(p)) <= Cardinality(Shared(q))
  <2> HIDE DEF reached, Shared
  <2>1. QED
    BY <1>5, <1>7, <1>8, <1>15
<1>18. ASSUME Uncut
       PROVE  reached = {p \in view.ids \ view.excluded : \E e \in entityRows[p] : e[2] \in view.question}
  <2> DEFINE seeds == view.seeds
  <2>1. \A k \in 1 .. Len(seeds) : \A p \in view.ids :
          <<p, seeds[k]>> \in view.rows <=> seeds[k] \in entityRows[p]
    BY <1>2, <1>3, <1>18
  <2>2. ToSet(seeds) = Named /\ DOMAIN seeds = 1 .. Len(seeds)
    BY <1>1, <1>2, <1>18 DEF ExpansionView
  <2>3. ASSUME NEW p \in reached
        PROVE  p \in view.ids /\ \E e \in entityRows[p] : e[2] \in view.question
    <3>1. PICK row \in view.rows : row[1] = p
      OBVIOUS
    <3>2. PICK k \in 1 .. Len(seeds) : row[2] = seeds[k]
      BY <1>2, <1>3
    <3>3. p \in view.ids /\ row = <<p, seeds[k]>>
      BY <1>2, <1>4, <3>1, <3>2
    <3>4. seeds[k] \in entityRows[p]
      BY <2>1, <3>3
    <3>5. seeds[k] \in Named
      BY <2>2 DEF ToSet
    <3>6. QED
      BY <3>3, <3>4, <3>5 DEF Named
  <2>4. ASSUME NEW p \in view.ids \ view.excluded, NEW e \in entityRows[p], e[2] \in view.question
        PROVE  p \in reached
    <3>1. e \in Named
      BY <2>4 DEF Named
    <3>2. PICK k \in 1 .. Len(seeds) : seeds[k] = e
      BY <2>2, <3>1 DEF ToSet
    <3>3. <<p, e>> \in view.rows
      BY <2>1, <3>2
    <3>4. QED
      BY <3>3
  <2>5. reached \subseteq view.ids \ view.excluded
    BY <1>2
  <2> HIDE DEF reached
  <2>6. QED
    BY <2>3, <2>4, <2>5
<1>19. ExpansionIsFair'
  <2>1. FairExpansion'
    <3> DEFINE reached1 == {row[1] : row \in view'.rows} \ view'.excluded
               Shared1(p) == {row[2] : row \in {r \in view'.rows : r[1] = p}}
    <3>1. reached1 = reached /\ \A p : Shared1(p) = Shared(p)
      BY <1>10
    <3>2. Uncut' => reached1 = {p \in view'.ids \ view'.excluded :
                                  \E e \in entityRows'[p] : e[2] \in view'.question}
      BY <1>1, <1>10, <1>12, <1>18, <3>1
    <3>3. /\ \A i, j \in DOMAIN related :
               i < j => Cardinality(Shared1(related[i])) >= Cardinality(Shared1(related[j]))
          /\ \A p \in reached1 \ ToSet(related), q \in ToSet(related) :
               Cardinality(Shared1(p)) <= Cardinality(Shared1(q))
      <4> HIDE DEF reached, reached1, Shared, Shared1
      <4>1. QED
        BY <1>17, <3>1
    <3>4. ToSet(related) \subseteq {p \in reached1 : HeldBy[p] = "caller"}
      BY <1>16, <3>1
    <3> HIDE DEF reached
    <3>5. QED
      BY <1>8, <1>10, <3>2, <3>3, <3>4 DEF FairExpansion
  <2>2. QED
    BY <2>1 DEF FairExpansion, ExpansionIsFair, Uncut, Named
<1>20. QED
  BY <1>1, <1>10, <1>11, <1>13, <1>14, <1>19, ExpandingKeeps DEF NetworksInv, NetworksAreSound

\* Whatever is deleted or mirrored between the statements of a request: author networks
\* join authors they show and weigh an edge by the papers both wrote; citation networks
\* weigh a node by the edges into it; entity networks count papers; an overview is exact
\* unless something changed since its request began; and expansions name
\* papers of the caller, none excluded, none twice, the strongest first, and miss none
\* when nothing was cut and nothing changed (analytics.py, graph/retrieval.py).
THEOREM NetworksStaySound == NetworksSpec => []NetworksAreSound
<1>1. NetworksInit => NetworksInv
  BY NetworksInitially, NetworksAssumption
<1>2. ASSUME NetworksInv, [NetworksNext]_networkVars PROVE NetworksInv'
  <2>1. CASE UNCHANGED networkVars
    <3>1. shelved' = shelved /\ entityRows' = entityRows /\ changes' = changes /\ view' = view
      BY <2>1 DEF networkVars
    <3>2. (HeadlinesAreExact <=> HeadlinesAreExact') /\ (DegreesAreExact <=> DegreesAreExact')
      BY <3>1 DEF HeadlinesAreExact, DegreesAreExact, Headlines
    <3>3. NetworksTyped' /\ PapersAreThere' /\ TitlesAreRead' /\ HeadlinesAreCounted'
          /\ ExpansionBegins' /\ AllSeedsRead'
      BY <1>2, <3>1, <3>2 DEF NetworksInv, NetworksTyped, PapersAreThere, TitlesAreRead,
                        HeadlinesAreCounted, ExpansionBegins, AllSeedsRead, Found0
    <3>4. ExpansionReads'
      <4>1. (Uncut' <=> Uncut) /\ Named' = Named
        BY <3>1 DEF Uncut, Named, Carriers
      <4>2. ExpansionReads
        BY <1>2 DEF NetworksInv
      <4>3. QED
        BY <3>1, <4>1, <4>2 DEF ExpansionReads
    <3>5. AuthorsAreJoined' /\ CitationsAreCounted' /\ EntitiesAreCounted'
      BY <1>2, <3>1, <3>2 DEF NetworksInv, NetworksAreSound, AuthorsAreJoined, CitationsAreCounted,
                        EntitiesAreCounted, ShownAs
    <3>6. ExpansionIsFair'
      BY <1>2, <3>1 DEF NetworksInv, NetworksAreSound, ExpansionIsFair, Carriers
    <3>7. QED
      BY <3>3, <3>4, <3>5, <3>6 DEF NetworksInv, NetworksAreSound
  <2>2. CASE \E p \in Corpus : RemoveFromShelf(p)
    BY <1>2, <2>2, RemoveFromShelfKeeps
  <2>3. CASE \E p \in Corpus : \E entities \in Mirrored[p] : MirrorAgain(p, entities)
    BY <1>2, <2>3, MirrorAgainKeeps, NetworksAssumption
  <2>4. CASE \E kind \in {"authors", "citations", "entities", "overview"} : AskView(kind)
    BY <1>2, <2>4, AskViewKeeps, NetworksAssumption
  <2>5. CASE ShowAuthors
    BY <1>2, <2>5, ShowAuthorsKeeps, NetworksAssumption
  <2>6. CASE ReadTitles
    BY <1>2, <2>6, ReadTitlesKeeps
  <2>7. CASE ShowCitations
    BY <1>2, <2>7, ShowCitationsKeeps, NetworksAssumption
  <2>8. CASE \E labels \in LabelFilters, minPapers \in MinShared : ShowEntities(labels, minPapers)
    BY <1>2, <2>8, ShowEntitiesKeeps, NetworksAssumption
  <2>9. CASE ReadHeadlines
    BY <1>2, <2>9, ReadHeadlinesKeeps, NetworksAssumption
  <2>10. CASE ShowOverview
    BY <1>2, <2>10, ShowOverviewKeeps
  <2>11. CASE \E question \in Questions, excluded \in Exclusions : AskExpansion(question, excluded)
    BY <1>2, <2>11, AskExpansionKeeps, NetworksAssumption
  <2>12. CASE ReadSeeds
    BY <1>2, <2>12, ReadSeedsKeeps, NetworksAssumption
  <2>13. CASE ReadSiblings
    BY <1>2, <2>13, ReadSiblingsKeeps, NetworksAssumption
  <2>14. CASE FinishExpansion
    BY <1>2, <2>14, FinishExpansionKeeps, NetworksAssumption
  <2>15. QED
    BY <1>2, <2>1, <2>2, <2>3, <2>4, <2>5, <2>6, <2>7, <2>8, <2>9, <2>10, <2>11, <2>12, <2>13, <2>14
    DEF NetworksNext
<1>3. NetworksInv => NetworksAreSound
  BY DEF NetworksInv
<1>4. QED
  BY <1>1, <1>2, <1>3, PTL DEF NetworksSpec

-----------------------------------------------------------------------------
(* The graph of agents, for any revision cap, any recursion limit and any *)
(* agents that fail: a run is bounded by counting supersteps against       *)
(* revisions and failures.  Types and steps.                               *)

\* Where a run goes next.
LEMMA SuccessorOf ==
    ASSUME NEW a \in Agent, NEW revise \in BOOLEAN
    PROVE  /\ Successor(a, revise) \in Agent \cup {"end"}
           /\ Successor("planner", revise) = "retriever"
           /\ Successor("retriever", revise) = "graph_retriever"
           /\ Successor("graph_retriever", revise) = "web_search"
           /\ Successor("web_search", revise) = "ranker"
           /\ Successor("ranker", revise) = "reasoner"
           /\ Successor("reasoner", revise) = "critic"
           /\ Successor("critic", revise) = IF revise THEN "reflector" ELSE "verifier"
           /\ Successor("reflector", revise) = "critic"
           /\ Successor("verifier", revise) = "citation"
           /\ Successor("citation", revise) = "summarizer"
           /\ Successor("summarizer", revise) = "end"
  BY DEF Successor, Agent

\* The bookkeeping of one node.
LEMMA RunTyped ==
    ASSUME TypeOK, NEW a \in Agent, NEW revise \in BOOLEAN, Runs(a, revise)
    PROVE  /\ node' \in Agent \cup {"end", "aborted"}
           /\ supersteps' \in 0..RecursionLimit
           /\ passes' \in Nat
           /\ needs_revision' \in BOOLEAN
  BY SuccessorOf, ResearchGraphAssumption DEF TypeOK, Runs

\* Whatever an agent does, it is one node that returns.
LEMMA AgentReturns ==
    ASSUME TypeOK, AgentActs
    PROVE  \E a \in Agent, revise \in BOOLEAN : Returns(a, revise)
  <1>1. CASE Criticise
    <2>1. CASE draft = 0 \/ chunks = 0
      BY <1>1, <2>1 DEF Criticise, Agent
    <2>2. CASE ~(draft = 0 \/ chunks = 0)
      <3>1. PICK wants \in BOOLEAN : Returns("critic", Revise(wants))
        BY <1>1, <2>2 DEF Criticise
      <3>2. Revise(wants) \in BOOLEAN
        BY DEF Revise
      <3>3. QED
        BY <3>1, <3>2 DEF Agent
    <2>3. QED
      BY <2>1, <2>2
  <1>2. CASE ~Criticise
    <2>1. PICK a \in Agent : Succeeds(a)
      BY <1>2 DEF AgentActs, Prepare, Retrieve, GraphRetrieve, Rank, Reason, Reflect, Verify,
                  Cite, Summarize, Agent
    <2>2. QED
      BY <2>1 DEF Succeeds, TypeOK
  <1>3. QED
    BY <1>1, <1>2

LEMMA AgentTyped ==
    ASSUME TypeOK, AgentActs
    PROVE  TypeOK'
  <1>1. PICK a \in Agent, revise \in BOOLEAN : Returns(a, revise)
    BY AgentReturns
  <1>2. /\ node' \in Agent \cup {"end", "aborted"}
        /\ supersteps' \in 0..RecursionLimit
        /\ passes' \in Nat
        /\ needs_revision' \in BOOLEAN
        /\ failures' \in 0..MaxFailures /\ criticFailures' \in 0..failures'
    BY <1>1, RunTyped DEF Returns, TypeOK
  <1>3. CASE (\E b \in Agent : Prepare(b)) \/ Retrieve \/ GraphRetrieve \/ Rank \/ Reason
    <2>1. /\ chunks' \in Nat /\ draft' \in Nat /\ draftOn' \in Nat
      BY <1>3 DEF TypeOK, Prepare, Retrieve, GraphRetrieve, Rank, Reason, answerVars
    <2>2. UNCHANGED <<critique, revision_count, verification, confidence, final>>
      BY <1>3 DEF Prepare, Retrieve, GraphRetrieve, Rank, Reason, qualityVars
    <2>3. QED
      BY <1>2, <2>1, <2>2 DEF TypeOK
  <1>4. CASE Criticise
    <2>1. critique' \in [of : Nat, wants : BOOLEAN]
      <3>1. critique \in [of : Nat, wants : BOOLEAN] /\ draft \in Nat
        BY DEF TypeOK
      <3>2. CASE draft = 0 \/ chunks = 0
        BY <1>4, <3>1, <3>2 DEF Criticise
      <3>3. CASE ~(draft = 0 \/ chunks = 0)
        <4>1. PICK wants \in BOOLEAN : critique' = [of |-> draft, wants |-> wants]
          BY <1>4, <3>3 DEF Criticise
        <4>2. QED
          BY <3>1, <4>1
      <3>4. QED
        BY <3>2, <3>3
    <2>2. UNCHANGED <<answerVars, revision_count, verification, confidence, final>>
      BY <1>4 DEF Criticise
    <2>3. QED
      BY <1>2, <2>1, <2>2 DEF TypeOK, answerVars
  <1>5. CASE Reflect
    BY <1>2, <1>5 DEF Reflect, TypeOK
  <1>6. CASE Verify
    <2>1. /\ verification' \in [of : Nat, reply : Reply \cup {"none"}, supported : BOOLEAN]
          /\ confidence' \in 0..100
      <3>1. CASE draft = 0 \/ chunks = 0
        BY <1>6, <3>1 DEF TypeOK, Verify
      <3>2. CASE ~(draft = 0 \/ chunks = 0)
        <4>1. PICK reply \in Reply, stated \in {0, 20, 90} :
                /\ verification' = [of |-> draft, reply |-> reply,
                                    supported |-> reply # "unsupported"]
                /\ confidence' = IF reply = "unparseable" THEN 50
                                 ELSE Capped(reply, stated)
          BY <1>6, <3>2 DEF Verify
        <4>2. confidence' \in 0..100
          BY <4>1 DEF Capped
        <4>3. (reply # "unsupported") \in BOOLEAN /\ draft \in Nat
          BY DEF TypeOK
        <4>4. QED
          BY <4>1, <4>2, <4>3
      <3>3. QED
        BY <3>1, <3>2
    <2>2. UNCHANGED <<answerVars, critique, revision_count, final>>
      BY <1>6 DEF Verify
    <2>3. QED
      BY <1>2, <2>1, <2>2 DEF TypeOK, answerVars
  <1>7. CASE Cite \/ Summarize
    <2>1. final' \in [of : Nat, summary : BOOLEAN]
      <3>1. Answer \in Nat /\ draft \in Nat /\ final \in [of : Nat, summary : BOOLEAN]
        BY DEF Answer, TypeOK
      <3>2. CASE Cite
        BY <3>1, <3>2 DEF Cite
      <3>3. CASE Summarize
        <4>1. final' = final \/ final' = [of |-> Answer, summary |-> TRUE]
          BY <3>3 DEF Summarize
        <4>2. [of |-> Answer, summary |-> TRUE] \in [of : Nat, summary : BOOLEAN]
          BY <3>1
        <4>3. QED
          BY <3>1, <4>1, <4>2
      <3>4. QED
        BY <1>7, <3>2, <3>3
    <2>2. UNCHANGED <<answerVars, qualityVars>>
      BY <1>7 DEF Cite, Summarize
    <2>3. QED
      BY <1>2, <2>1, <2>2 DEF TypeOK, answerVars, qualityVars
  <1>8. QED
    BY <1>3, <1>4, <1>5, <1>6, <1>7 DEF AgentActs

LEMMA FailureTyped ==
    ASSUME TypeOK, NEW a \in Agent, AgentFails(a)
    PROVE  TypeOK'
  <1>1. /\ node' \in Agent \cup {"end", "aborted"}
        /\ supersteps' \in 0..RecursionLimit
        /\ passes' \in Nat
        /\ needs_revision' \in BOOLEAN
    BY RunTyped DEF AgentFails, TypeOK
  <1>2. failures' \in 0..MaxFailures /\ criticFailures' \in 0..failures'
    BY ResearchGraphAssumption DEF AgentFails, TypeOK
  <1>3. QED
    BY <1>1, <1>2 DEF AgentFails, TypeOK, answerVars, qualityVars

LEMMA NextTyped == TypeOK /\ [Next]_vars => TypeOK'
  <1>1. TypeOK /\ UNCHANGED vars => TypeOK'
    BY DEF TypeOK, vars, answerVars, qualityVars
  <1>2. TypeOK /\ Abort => TypeOK'
    BY DEF TypeOK, Abort, answerVars, qualityVars
  <1>3. QED
    BY <1>1, <1>2, AgentTyped, FailureTyped DEF Next

LEMMA InitTyped == Init => TypeOK
  <1> SUFFICES ASSUME Init PROVE TypeOK
    OBVIOUS
  <1>1. verification \in [of : Nat, reply : Reply \cup {"none"}, supported : BOOLEAN]
    BY DEF Init, Unverified
  <1>2. /\ node \in Agent /\ needs_revision \in BOOLEAN
        /\ critique \in [of : Nat, wants : BOOLEAN] /\ final \in [of : Nat, summary : BOOLEAN]
    BY DEF Init, Agent, Uncriticised, Unanswered
  <1>3. /\ supersteps \in 0..RecursionLimit
        /\ failures \in 0..MaxFailures /\ criticFailures \in 0..failures
    BY ResearchGraphAssumption DEF Init
  <1>4. /\ chunks \in Nat /\ draft \in Nat /\ draftOn \in Nat /\ revision_count \in Nat
        /\ passes \in Nat /\ confidence \in 0..100
    BY DEF Init
  <1>5. QED
    BY <1>1, <1>2, <1>3, <1>4 DEF TypeOK

\* Every variable keeps its type.
THEOREM TypeCorrect == Spec => []TypeOK
  BY InitTyped, NextTyped, PTL DEF Spec

-----------------------------------------------------------------------------
(* The length of a run *)

\* Supersteps before node n in a run without revisions.
Before(n) ==
    CASE n = "planner"         -> 0
      [] n = "retriever"       -> 1
      [] n = "graph_retriever" -> 2
      [] n = "web_search"      -> 3
      [] n = "ranker"          -> 4
      [] n = "reasoner"        -> 5
      [] n = "critic"          -> 6
      [] n = "reflector"       -> 7
      [] n = "verifier"        -> 7
      [] n = "citation"        -> 8
      [] n = "summarizer"      -> 9
      [] n = "end"             -> 10

\* A pass through the reflector costs two supersteps; it is either a revision or a
\* failure; and one more revision than the cap needs a critic that failed.
Counted ==
    /\ node # "aborted" => supersteps = Before(node) + 2 * passes
    /\ passes + criticFailures <= revision_count + failures
    /\ RevisionsWithinBudget
    /\ node = "reflector" => revision_count < MaxRevisions + criticFailures

LEMMA AgentCounted ==
    ASSUME TypeOK, Counted, AgentActs
    PROVE  Counted'
  <1>1. CASE Reflect
    <2>1. /\ node = "reflector" /\ node' = "critic" /\ supersteps' = supersteps + 1
          /\ passes' = passes + 1 /\ revision_count' = revision_count + 1
          /\ UNCHANGED <<failures, criticFailures>>
      BY <1>1, SuccessorOf DEF Reflect, Succeeds, Returns, Runs, TypeOK, Agent
    <2>2. QED
      BY <2>1, ResearchGraphAssumption DEF Counted, Before, RevisionsWithinBudget, TypeOK
  <1>2. CASE Criticise
    <2>1. PICK revise \in BOOLEAN : /\ Returns("critic", revise)
                                    /\ revise => revision_count < MaxRevisions
      BY <1>2 DEF Criticise, Revise
    <2>2. revise \in BOOLEAN /\ (revise => revision_count < MaxRevisions)
      BY <2>1
    <2>3. /\ node = "critic" /\ node' = (IF revise THEN "reflector" ELSE "verifier")
          /\ supersteps' = supersteps + 1
          /\ UNCHANGED <<passes, revision_count, failures, criticFailures>>
      BY <1>2, <2>1, <2>2, SuccessorOf DEF Criticise, Returns, Runs, Agent
    <2>4. QED
      BY <2>2, <2>3, ResearchGraphAssumption
      DEF Counted, Before, RevisionsWithinBudget, TypeOK
  <1>3. CASE ~Reflect /\ ~Criticise
    <2>1. PICK a \in Agent \ {"reflector", "critic"} : Succeeds(a)
      BY <1>3 DEF AgentActs, Prepare, Retrieve, GraphRetrieve, Rank, Reason, Verify, Cite,
                  Summarize, Agent
    <2>2. /\ node' = Successor(node, needs_revision) /\ supersteps' = supersteps + 1
          /\ node \in Agent \ {"reflector", "critic"}
          /\ UNCHANGED <<passes, failures, criticFailures>>
      BY <2>1 DEF Succeeds, Returns, Runs
    <2>3. revision_count' = revision_count
      BY <1>3 DEF AgentActs, Prepare, Retrieve, GraphRetrieve, Rank, Reason, Verify, Cite,
                  Summarize, qualityVars
    <2>4. Before(node') = Before(node) + 1 /\ node' \notin {"reflector", "aborted"}
      BY <2>2, SuccessorOf DEF Before, Agent, TypeOK
    <2>5. Before(node) \in Nat /\ node # "aborted"
      BY <2>2 DEF Before, Agent
    <2>6. QED
      BY <2>2, <2>3, <2>4, <2>5 DEF Counted, RevisionsWithinBudget, TypeOK
  <1>4. QED
    BY <1>1, <1>2, <1>3

LEMMA FailureCounted ==
    ASSUME TypeOK, Counted, NEW a \in Agent, AgentFails(a)
    PROVE  Counted'
  <1>1. /\ node = a /\ node' = Successor(a, needs_revision) /\ supersteps' = supersteps + 1
        /\ passes' = (IF a = "reflector" THEN passes + 1 ELSE passes)
        /\ failures' = failures + 1
        /\ criticFailures' = (IF a = "critic" THEN criticFailures + 1 ELSE criticFailures)
        /\ revision_count' = revision_count
    BY DEF AgentFails, Runs, qualityVars
  <1>2. CASE a = "reflector"
    BY <1>1, <1>2, SuccessorOf, ResearchGraphAssumption
    DEF Counted, Before, RevisionsWithinBudget, TypeOK, Agent
  <1>3. CASE a = "critic"
    BY <1>1, <1>3, SuccessorOf, ResearchGraphAssumption
    DEF Counted, Before, RevisionsWithinBudget, TypeOK, Agent
  <1>4. CASE a \notin {"reflector", "critic"}
    <2>1. Before(node') = Before(node) + 1 /\ node' \notin {"reflector", "aborted"}
      BY <1>1, <1>4, SuccessorOf DEF Before, Agent, TypeOK
    <2>2. Before(node) \in Nat /\ node # "aborted"
      BY <1>1 DEF Before, Agent
    <2>3. QED
      BY <1>1, <1>4, <2>1, <2>2 DEF Counted, RevisionsWithinBudget, TypeOK
  <1>5. QED
    BY <1>2, <1>3, <1>4

LEMMA AbortCounted ==
    ASSUME TypeOK, Counted, Abort
    PROVE  Counted'
  BY DEF Abort, Counted, RevisionsWithinBudget, qualityVars

THEOREM CountedInvariant == Spec => [](TypeOK /\ Counted)
  <1>1. Init => Counted
    BY ResearchGraphAssumption DEF Init, Counted, Before, RevisionsWithinBudget
  <1>2. TypeOK /\ Counted /\ [Next]_vars => Counted'
    <2>1. Counted /\ UNCHANGED vars => Counted'
      BY DEF Counted, RevisionsWithinBudget, vars, qualityVars
    <2>2. QED
      BY <2>1, AgentCounted, FailureCounted, AbortCounted DEF Next
  <1>3. QED
    BY <1>1, <1>2, InitTyped, NextTyped, PTL DEF Spec

\* The draft is revised at most as often as the cap and the failures of the critic
\* allow.
THEOREM RevisionsBounded == Spec => []RevisionsWithinBudget
  <1>1. Counted => RevisionsWithinBudget
    BY DEF Counted
  <1>2. QED
    BY <1>1, CountedInvariant, PTL

\* Room for more failures is room for fewer.
LEMMA RoomMonotone ==
    ASSUME NEW base \in Nat, NEW limit \in Nat, NEW m \in Nat, NEW n \in Nat,
           m <= n, base + n + n <= limit
    PROVE  base + m + m <= limit
  OBVIOUS

\* While LangGraph's limit has room for two supersteps per revision and failure, a
\* run is not aborted, whichever agents fail.
THEOREM RunsToTheEnd == Spec => []NeverAborted
  <1>1. Init => NeverAborted
    BY DEF Init, NeverAborted
  <1>2. (TypeOK /\ Counted) /\ NeverAborted /\ [Next]_vars => NeverAborted'
    <2> SUFFICES ASSUME TypeOK, Counted, NeverAborted, [Next]_vars, RoomLeft'
                 PROVE  node' # "aborted"
      BY DEF NeverAborted
    <2>0. failures \in Nat /\ failures' \in Nat /\ failures' >= failures
      BY AgentReturns DEF TypeOK, Next, vars, Returns, AgentFails, Abort
    <2>1. RoomLeft /\ node # "aborted"
      <3>1. 10 + 2 * MaxRevisions + failures' + failures' <= RecursionLimit
        BY DEF RoomLeft
      <3>2. RoomLeft
        <4>1. 10 + 2 * MaxRevisions \in Nat /\ RecursionLimit \in Nat
          BY ResearchGraphAssumption
        <4>2. 10 + 2 * MaxRevisions + failures + failures <= RecursionLimit
          BY <2>0, <3>1, <4>1, RoomMonotone
        <4>3. QED
          BY <4>2 DEF RoomLeft
      <3>3. QED
        BY <3>2 DEF NeverAborted
    <2>2. CASE UNCHANGED vars
      BY <2>1, <2>2 DEF vars
    <2>3. CASE \E a \in Agent, revise \in BOOLEAN : Runs(a, revise)
      BY <2>3, SuccessorOf DEF Runs, Agent
    <2>4. CASE Abort
      <3>1. Before(node) \in 0..9
        BY <2>4 DEF Abort, Before, Agent
      <3>2. supersteps <= 9 + 2 * passes
        BY <2>1, <3>1 DEF Counted, TypeOK
      <3>3. passes <= MaxRevisions + failures
        BY ResearchGraphAssumption DEF Counted, RevisionsWithinBudget, TypeOK
      <3>4. supersteps < RecursionLimit
        BY <2>1, <3>2, <3>3, ResearchGraphAssumption DEF TypeOK, RoomLeft
      <3>5. QED
        BY <2>4, <3>4, ResearchGraphAssumption DEF Abort, TypeOK
    <2>5. QED
      <3>1. AgentActs => \E a \in Agent, revise \in BOOLEAN : Runs(a, revise)
        BY AgentReturns DEF Returns
      <3>2. (\E a \in Agent : AgentFails(a)) =>
                \E a \in Agent, revise \in BOOLEAN : Runs(a, revise)
        BY DEF AgentFails, TypeOK
      <3>3. QED
        BY <2>2, <2>3, <2>4, <3>1, <3>2 DEF Next
  <1>3. QED
    BY <1>1, <1>2, CountedInvariant, PTL DEF Spec

-----------------------------------------------------------------------------
(* What the result is about *)

\* Before the reasoner there is no draft; before the verifier there is no verdict
\* on it; before the citation agent there is no final answer.
Drafting == {"planner", "retriever", "graph_retriever", "web_search", "ranker", "reasoner"}
Revising == {"critic", "reflector"}

Consistent ==
    /\ node \in Drafting => draft = 0 /\ critique = Uncriticised /\ revision_count = 0
    /\ node \in Drafting \cup Revising \cup {"verifier"} => verification = Unverified
    /\ node \in Drafting \cup Revising \cup {"verifier"} => confidence = 0
    /\ node \in Drafting \cup Revising \cup {"verifier", "citation"} => final = Unanswered
    /\ confidence > 0 => verification.of = draft
    /\ final.of \in {0, draft}
    /\ needs_revision => draft # 0
    /\ node = "reflector" => needs_revision
    /\ node = "critic" /\ ~needs_revision => critique.of = 0 /\ revision_count = 0
    /\ MarkersMatchSources
    /\ CriticHasTheLastWord

\* A step along an edge never goes back from one phase of the run to an earlier one.
LEMMA PhasesAdvance ==
    ASSUME TypeOK, NEW a \in Agent, NEW revise \in BOOLEAN, Runs(a, revise)
    PROVE  /\ node = a /\ needs_revision' = revise
           /\ node' \in Drafting => node \in Drafting \ {"reasoner"}
           /\ node' \in Revising => node \in Revising \cup {"reasoner"}
           /\ node' = "reflector" => revise
           /\ node' = "verifier" => node = "critic"
           /\ node' = "citation" => node = "verifier"
  BY SuccessorOf DEF Runs, Agent, Drafting, Revising

LEMMA DraftingConsistent ==
    ASSUME TypeOK, Consistent,
           (\E a \in Agent : Prepare(a)) \/ Retrieve \/ GraphRetrieve \/ Rank \/ Reason
    PROVE  Consistent'
  <1>1. PICK a \in Drafting : Succeeds(a)
    BY DEF Prepare, Retrieve, GraphRetrieve, Rank, Reason, Drafting
  <1>2. a \in Agent /\ needs_revision \in BOOLEAN /\ Runs(a, needs_revision)
    BY <1>1 DEF Succeeds, Returns, Drafting, Agent, TypeOK
  <1>3. node = a /\ node \in Drafting
    BY <1>1, <1>2 DEF Runs
  <1>4. UNCHANGED <<critique, revision_count, verification, confidence, final>>
    BY DEF Prepare, Retrieve, GraphRetrieve, Rank, Reason, qualityVars
  <1>5. /\ draft = 0 /\ verification = Unverified /\ confidence = 0 /\ final = Unanswered
        /\ critique = Uncriticised /\ revision_count = 0 /\ ~needs_revision
    BY <1>3 DEF Consistent
  <1>6. /\ needs_revision' = needs_revision /\ node' # "reflector"
        /\ node' \notin {"verifier", "citation", "summarizer", "end"}
    BY <1>2, <1>3, <1>5, PhasesAdvance, SuccessorOf DEF Runs, Drafting
  <1>7. CASE Reason
    <2>1. node = "reasoner" /\ draftOn' = chunks'
      BY <1>7 DEF Reason, Succeeds, Returns, Runs
    <2>2. node' \notin Drafting
      BY <1>2, <2>1, PhasesAdvance
    <2>3. QED
      BY <1>4, <1>5, <1>6, <2>1, <2>2
      DEF Consistent, MarkersMatchSources, CriticHasTheLastWord, Unverified, Uncriticised,
          Unanswered
  <1>8. CASE ~Reason
    <2>1. draft' = draft
      BY <1>8 DEF Prepare, Retrieve, GraphRetrieve, Rank, answerVars
    <2>2. QED
      BY <1>4, <1>5, <1>6, <2>1
      DEF Consistent, MarkersMatchSources, CriticHasTheLastWord, Unverified, Uncriticised,
          Unanswered
  <1>9. QED
    BY <1>7, <1>8

LEMMA RevisingConsistent ==
    ASSUME TypeOK, Consistent, Criticise \/ Reflect
    PROVE  Consistent'
  <1>1. PICK a \in Revising, revise \in BOOLEAN : Runs(a, revise)
    BY DEF Criticise, Revise, Reflect, Succeeds, Returns, Revising, TypeOK
  <1>2. a \in Agent /\ node \in Revising /\ node' \notin Drafting
    BY <1>1, PhasesAdvance DEF Runs, Revising, Drafting, Agent
  <1>3. /\ UNCHANGED <<verification, confidence, final, chunks, draftOn>>
        /\ verification = Unverified /\ confidence = 0 /\ final = Unanswered
    BY <1>2 DEF Criticise, Reflect, answerVars, Consistent
  <1>4. CASE Criticise
    <2>1. draft' = draft /\ (needs_revision' => draft # 0) /\ revision_count' = revision_count
      BY <1>4 DEF Criticise, Returns, Runs, answerVars
    <2>2. /\ node' = "reflector" => needs_revision'
          /\ node' \in {"reflector", "verifier"}
      <3>1. PICK verdict \in BOOLEAN : Returns("critic", verdict)
        BY <1>4 DEF Criticise, Revise
      <3>2. QED
        BY <3>1, SuccessorOf DEF Returns, Runs, Agent
    <2>3. CriticHasTheLastWord'
      <3>1. CASE draft = 0 \/ chunks = 0
        BY <1>3, <2>1, <3>1 DEF CriticHasTheLastWord
      <3>2. CASE ~(draft = 0 \/ chunks = 0)
        <4>1. PICK wants \in BOOLEAN : /\ Returns("critic", Revise(wants))
                                       /\ critique' = [of |-> draft, wants |-> wants]
          BY <1>4, <3>2 DEF Criticise
        <4>2. node' # "reflector" => ~Revise(wants)
          BY <4>1, SuccessorOf DEF Returns, Runs, Agent, Revise
        <4>3. wants /\ ~Revise(wants) => revision_count >= MaxRevisions
          BY ResearchGraphAssumption DEF Revise, TypeOK
        <4>4. QED
          BY <2>1, <4>1, <4>2, <4>3 DEF CriticHasTheLastWord
      <3>3. QED
        BY <3>1, <3>2
    <2>4. QED
      BY <1>2, <1>3, <2>1, <2>2, <2>3
      DEF Consistent, MarkersMatchSources, CriticHasTheLastWord, Unverified, Uncriticised,
          Unanswered
  <1>5. CASE Reflect
    <2>1. node = "reflector" /\ draft # 0 /\ draft' # 0 /\ draftOn = chunks
      BY <1>5 DEF Reflect, Succeeds, Returns, Runs, Consistent, MarkersMatchSources, TypeOK
    <2>2. node' = "critic" /\ needs_revision' /\ needs_revision
      BY <1>5, SuccessorOf DEF Reflect, Succeeds, Returns, Runs, Agent, TypeOK, Consistent
    <2>3. QED
      BY <1>2, <1>3, <2>1, <2>2
      DEF Consistent, MarkersMatchSources, CriticHasTheLastWord, Unverified, Uncriticised,
          Unanswered
  <1>6. QED
    BY <1>4, <1>5

\* Once the verifier has run, the answer, the passages and the verdict stay.
LEMMA ClosingConsistent ==
    ASSUME TypeOK, Consistent, Verify \/ Cite \/ Summarize
    PROVE  Consistent'
  <1>1. PICK a \in {"verifier", "citation", "summarizer"} : Succeeds(a)
    BY DEF Verify, Cite, Summarize
  <1>2. a \in Agent /\ needs_revision \in BOOLEAN /\ Runs(a, needs_revision)
    BY <1>1 DEF Succeeds, Returns, Agent, TypeOK
  <1>3. /\ node = a /\ needs_revision' = needs_revision
        /\ node' \notin Drafting \cup Revising \cup {"verifier"}
        /\ node' = "citation" => node = "verifier"
    BY <1>1, <1>2, PhasesAdvance DEF Drafting, Revising
  <1>4. UNCHANGED <<chunks, draft, draftOn, critique, revision_count, criticFailures>>
    BY DEF Verify, Cite, Summarize, answerVars, qualityVars, Succeeds, Returns
  <1>5. /\ node' \notin {"reflector", "critic"} /\ (needs_revision' => draft' # 0) /\ MarkersMatchSources'
        /\ CriticHasTheLastWord'
    BY <1>1, <1>3, <1>4 DEF Revising, Consistent, MarkersMatchSources, CriticHasTheLastWord
  <1>6. CASE Verify
    <2>1. final' = Unanswered
      BY <1>6 DEF Verify, Succeeds, Returns, Runs, Consistent
    <2>2. confidence' > 0 => verification'.of = draft
      BY <1>6 DEF Verify
    <2>3. QED
      BY <1>3, <1>4, <1>5, <2>1, <2>2 DEF Consistent, Unanswered
  <1>7. CASE Cite \/ Summarize
    <2>1. UNCHANGED <<verification, confidence>> /\ final'.of \in {0, draft}
      BY <1>7 DEF Cite, Summarize, Answer, qualityVars, Consistent
    <2>2. node' # "citation"
      BY <1>3, <1>7 DEF Cite, Summarize, Succeeds, Returns, Runs
    <2>3. QED
      BY <1>3, <1>4, <1>5, <2>1, <2>2 DEF Consistent
  <1>8. QED
    BY <1>6, <1>7

\* A failing agent, or an aborted run, changes no text and no verdict.
LEMMA FailureConsistent ==
    ASSUME TypeOK, Consistent, (\E a \in Agent : AgentFails(a)) \/ Abort
    PROVE  Consistent'
  <1>1. UNCHANGED <<chunks, draft, draftOn, critique, revision_count, verification, confidence,
                    final, needs_revision>>
    BY DEF AgentFails, Abort, Runs, answerVars, qualityVars
  <1>2. CASE Abort
    BY <1>1, <1>2
    DEF Abort, Consistent, MarkersMatchSources, CriticHasTheLastWord, Drafting, Revising
  <1>3. CASE \E a \in Agent : AgentFails(a)
    <2>1. PICK a \in Agent : /\ Runs(a, needs_revision)
                             /\ criticFailures' = IF a = "critic" THEN criticFailures + 1
                                                  ELSE criticFailures
      BY <1>3 DEF AgentFails
    <2>2. needs_revision \in BOOLEAN
      BY DEF TypeOK
    <2>3. /\ node' \in Drafting => node \in Drafting
          /\ node' \in Revising => node \in Revising \cup Drafting
          /\ node' = "reflector" => needs_revision
          /\ node' = "verifier" => node \in Revising
          /\ node' = "citation" => node = "verifier"
      BY <2>1, <2>2, PhasesAdvance DEF Drafting, Revising
    <2>4. node' = "critic" /\ ~needs_revision => critique.of = 0 /\ revision_count = 0
      <3>1. node' = "critic" => node \in {"reasoner", "reflector"}
        BY <2>1, <2>2, SuccessorOf DEF Runs, Agent
      <3>2. QED
        BY <3>1 DEF Consistent, Drafting, Uncriticised
    <2>5. CriticHasTheLastWord'
      <3>1. CASE node \in {"verifier", "citation", "summarizer", "end"}
        BY <1>1, <2>1, <3>1 DEF CriticHasTheLastWord, Consistent, TypeOK
      <3>2. CASE node = "critic"
        <4>1. node' = (IF needs_revision THEN "reflector" ELSE "verifier") /\ criticFailures' > 0
          BY <2>1, <2>2, <3>2, SuccessorOf DEF Runs, Agent, TypeOK
        <4>2. QED
          BY <1>1, <3>2, <4>1 DEF CriticHasTheLastWord, Consistent
      <3>3. CASE node \in Drafting \cup {"reflector"}
        <4>1. node' \notin {"verifier", "citation", "summarizer", "end"}
          BY <2>1, <2>2, <3>3, SuccessorOf DEF Runs, Drafting, Agent
        <4>2. QED
          BY <4>1 DEF CriticHasTheLastWord
      <3>4. QED
        BY <2>1, <3>1, <3>2, <3>3 DEF Runs, Agent, Drafting
    <2>6. QED
      BY <1>1, <2>3, <2>4, <2>5 DEF Consistent, MarkersMatchSources
  <1>4. QED
    BY <1>2, <1>3

THEOREM ConsistentInvariant == Spec => []Consistent
  <1>1. Init => Consistent
    BY DEF Init, Consistent, MarkersMatchSources, CriticHasTheLastWord, Unverified, Uncriticised,
           Unanswered, Drafting
  <1>2. TypeOK /\ Consistent /\ [Next]_vars => Consistent'
    <2>1. Consistent /\ UNCHANGED vars => Consistent'
      BY DEF Consistent, MarkersMatchSources, CriticHasTheLastWord, vars, answerVars,
             qualityVars
    <2>2. QED
      BY <2>1, DraftingConsistent, RevisingConsistent, ClosingConsistent,
         FailureConsistent DEF Next, AgentActs
  <1>3. QED
    BY <1>1, <1>2, TypeCorrect, PTL DEF Spec

\* Confidence and verification are about the answer in the result.
THEOREM VerdictFitsAnswer == Spec => []VerifiedIsAnswered
  <1>1. Consistent => VerifiedIsAnswered
    BY DEF Consistent, VerifiedIsAnswered, Answer
  <1>2. QED
    BY <1>1, ConsistentInvariant, PTL

\* Citation markers index the passages the answer was written from.
THEOREM MarkersFit == Spec => []MarkersMatchSources
  <1>1. Consistent => MarkersMatchSources
    BY DEF Consistent
  <1>2. QED
    BY <1>1, ConsistentInvariant, PTL

\* A draft is never verified that no critic has read as it is, unless every critic has
\* failed before the first revision: a critic that fails after one leaves the verdict
\* that asked for it standing, and the draft goes back (agents.py:72-89, graph.py:95).
THEOREM RevisionsAreReread == Spec => []CriticHasTheLastWord
  <1>1. Consistent => CriticHasTheLastWord
    BY DEF Consistent
  <1>2. QED
    BY <1>1, ConsistentInvariant, PTL

================================================================================
