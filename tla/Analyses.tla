-------------------------------- MODULE Analyses --------------------------------
(***************************************************************************)
(* What the analyses of research/ compute from the rows they read: the     *)
(* comparison table, numeric conflicts, gaps, progressions and trends, and *)
(* the claims worth comparing.  Rows come back from the database in an     *)
(* order no query asks for, so wherever the code lets the last or the first *)
(* row win, the result here is a set of possible results.                  *)
(***************************************************************************)
EXTENDS Integers, Sequences, FiniteSets, SequencesExt

CONSTANTS
  NoDataset,      \* a row whose dataset_name and dataset_key are NULL
  KeyOf,          \* KeyOf[d]: normalize_key of a dataset's name as a paper spells it
  LowerIsBetter,  \* LOWER_IS_BETTER
  YearOf,         \* YearOf[p]: published_year
  NoYear,         \* published_year is NULL
  TitleOf,        \* TitleOf[p]: title, or the file name
  ClaimsOf,       \* ClaimsOf[p]: what extract_claims finds in a paper
  Related,        \* the sets {c, d} of claims whose topical overlap passes the threshold
  MaxPairs        \* MAX_CLAIM_PAIRS

Magnitude(x) == IF x < 0 THEN -x ELSE x
Larger(a, b) == IF a > b THEN a ELSE b
Dated(p) == YearOf[p] # NoYear

\* The sum of the values of f over a finite part of its domain.
SumOver(f, S) == MapThenSumSet(LAMBDA x : f[x], S)

-----------------------------------------------------------------------------
(* comparison.py                                                           *)

HigherIsBetter(metric) == metric \notin LowerIsBetter

(* Mutant: the largest value is the best of every metric. *)
Beats_AlwaysHigher(a, b) == a.value > b.value

Beats(a, b) == IF HigherIsBetter(a.metric) THEN a.value > b.value ELSE a.value < b.value

Best(cells) == CHOOSE r \in cells : \A s \in cells : ~ Beats(s, r)

\* build_comparison_table: rows with a dataset are grouped by the dataset's name,
\* as its paper spells it, and the metric; groups of too few papers are left out.
\* The order of rows and cells is layout.
ComparisonTable(rows, minPapers) ==
  LET grouped == {r \in rows : r.dataset # NoDataset}
      Cells(r) == {s \in grouped : s.dataset = r.dataset /\ s.metric = r.metric}
      shown == {r \in grouped : Cardinality({s.paper : s \in Cells(r)}) >= minPapers}
  IN  [table |-> {[dataset |-> r.dataset, metric |-> r.metric,
                   cells |-> Cells(r), best |-> Best(Cells(r))] : r \in shown},
       ungrouped |-> Cardinality(rows \ grouped)]

-----------------------------------------------------------------------------
(* contradictions.py                                                       *)

(* Mutant: two values that are both zero pass the threshold. *)
Differ_ZeroScale(a, b) ==
  20 * Magnitude(a.value - b.value) >= Larger(Magnitude(a.value), Magnitude(b.value))

\* relative_gap >= NUMERIC_CONFLICT_THRESHOLD: a gap of 5% of the larger value, and
\* none between two zeros, whose scale is 1e-9.
Differ(a, b) ==
  /\ a.value # b.value
  /\ 20 * Magnitude(a.value - b.value) >= Larger(Magnitude(a.value), Magnitude(b.value))

SameKey(a, b) ==
  /\ a.model = b.model /\ a.metric = b.metric
  /\ KeyOf[a.dataset] = KeyOf[b.dataset]

\* by_paper: of the rows of a paper with one key, the last the query returned.
OnePerPaper(rows) ==
  LET keyed == {r \in rows : r.dataset # NoDataset}
  IN  {kept \in SUBSET keyed :
         \A r \in keyed : Cardinality({k \in kept : k.paper = r.paper /\ SameKey(k, r)}) = 1}

\* find_numeric_conflicts, for the rows that were kept.
NumericConflicts(paperIds, kept) ==
  IF Len(paperIds) < 2 THEN {}
  ELSE {{x[1], x[2]} : x \in {y \in kept \X kept : /\ y[1].paper # y[2].paper
                                                   /\ SameKey(y[1], y[2])
                                                   /\ Differ(y[1], y[2])}}

\* claims_by_paper is keyed by title: of two papers with one title the later stays.
ClaimHolders(paperIds, papers) ==
  LET told == {i \in DOMAIN paperIds : paperIds[i] \in papers /\ ClaimsOf[paperIds[i]] # {}}
  IN  {i \in told : \A j \in told : TitleOf[paperIds[j]] = TitleOf[paperIds[i]] => j <= i}

(* Mutant: the claims of one paper are compared with each other as well. *)
CandidatePairs_AnyTwo(paperIds, papers) ==
  LET claims == UNION {ClaimsOf[paperIds[i]] : i \in ClaimHolders(paperIds, papers)}
  IN  {pair \in SUBSET claims : Cardinality(pair) = 2 /\ pair \in Related}

\* _candidate_pairs: related claims of papers with different titles.
CandidatePairs(paperIds, papers) ==
  LET holders == ClaimHolders(paperIds, papers)
  IN  {{cd[1], cd[2]} : cd \in UNION {ClaimsOf[paperIds[ij[1]]] \X ClaimsOf[paperIds[ij[2]]] :
                                        ij \in {x \in holders \X holders : x[1] < x[2]}}}
      \cap Related

\* The pairs that are put to the model: the most related ones, whichever they are.
JudgedPairs(paperIds, papers) ==
  LET pairs == CandidatePairs(paperIds, papers)
  IN  IF Len(paperIds) < 2 THEN {{}}
      ELSE {s \in SUBSET pairs :
              Cardinality(s) = IF Cardinality(pairs) < MaxPairs THEN Cardinality(pairs) ELSE MaxPairs}

-----------------------------------------------------------------------------
(* gaps.py                                                                 *)

(* Mutant: the papers without the entity are the ones the list says have it. *)
CoverageGaps_Swapped(paperIds, mentions) ==
  LET Covered(e) == {m.paper : m \in {x \in mentions : x.entity = e /\ x.paper \in Range(paperIds)}}
  IN  IF Len(paperIds) < 3 THEN {}
      ELSE {[entity |-> e, missing |-> Covered(e)] : e \in
              {x \in {m.entity : m \in mentions} : Covered(x) # {} /\ Covered(x) # Range(paperIds)}}

\* find_coverage_gaps: entities of at least 40% of the listed papers, not of all.
CoverageGaps(paperIds, mentions) ==
  LET listed == Range(paperIds)
      Covered(e) == {m.paper : m \in {x \in mentions : x.entity = e /\ x.paper \in listed}}
      total == Len(paperIds)
  IN  IF total < 3 THEN {}
      ELSE {[entity |-> e, missing |-> listed \ Covered(e)] : e \in
              {x \in {m.entity : m \in mentions} :
                 /\ 10 * Cardinality(Covered(x)) >= 4 * total
                 /\ Cardinality(Covered(x)) < total
                 /\ listed \ Covered(x) # {}}}

\* find_evaluation_gaps: a model's datasets that others were evaluated on, as keys.
EvaluationGaps(paperIds, rows) ==
  LET keyed == {r \in rows : r.dataset # NoDataset}
      models == {r.model : r \in keyed}
      datasets == {KeyOf[r.dataset] : r \in keyed}
      Tested(m) == {KeyOf[r.dataset] : r \in {x \in keyed : x.model = m}}
  IN  IF Len(paperIds) < 2 \/ Cardinality(models) < 2 \/ Cardinality(datasets) < 2 THEN {}
      ELSE {[model |-> m, untested |-> datasets \ Tested(m)] :
              m \in {x \in models : datasets \ Tested(x) # {}}}

-----------------------------------------------------------------------------
(* trends.py                                                               *)

\* build_timeline: how many papers of each year, and how many without one.
Timeline(listed) ==
  [years |-> [y \in {YearOf[p] : p \in {q \in listed : Dated(q)}} |->
                Cardinality({p \in listed : YearOf[p] = y})],
   undated |-> Cardinality({p \in listed : ~ Dated(p)})]

\* entity_trends: how many dated papers mention the entity, by year.
Series(entity, listed, mentions) ==
  LET by == {m.paper : m \in {x \in mentions : x.entity = entity /\ x.paper \in listed /\ Dated(x.paper)}}
  IN  [y \in {YearOf[p] : p \in by} |-> Cardinality({p \in by : YearOf[p] = y})]

\* EntityTrend.direction: the two latest years against those before.
Direction(series) ==
  LET years == DOMAIN series
      recent == {y \in years : Cardinality({z \in years : z > y}) < 2}
      now == SumOver(series, recent)
      before == SumOver(series, years \ recent)
  IN  CASE Cardinality(years) < 2 -> "new"
        [] Cardinality(years) >= 2 /\ before = 0 -> "emerging"
        [] before > 0 /\ 2 * now >= 3 * before -> "rising"
        [] before > 0 /\ 2 * now <= before -> "declining"
        [] OTHER -> "steady"

\* Where metric_progressions keeps the best value of a row's year.
YearKey(r) == <<<<r.dataset, r.metric>>, YearOf[r.paper]>>

\* One row of the pass: it is kept when it is the first of its year or beats the best.
KeepBest(best, r) ==
  IF YearKey(r) \in DOMAIN best /\ ~ Beats(r, best[YearKey(r)]) THEN best
  ELSE [k \in DOMAIN best \cup {YearKey(r)} |-> IF k = YearKey(r) THEN r ELSE best[k]]

\* metric_progressions: one pass over the rows keeps the best of each year.
Progressions(rows) ==
  LET best == FoldLeft(KeepBest, [k \in {} |-> {}],
                       SetToSeq({r \in rows : r.dataset # NoDataset /\ Dated(r.paper)}))
      Years(g) == {k[2] : k \in {x \in DOMAIN best : x[1] = g}}
  IN  {[dataset |-> g[1], metric |-> g[2], points |-> [y \in Years(g) |-> best[<<g, y>>].value]] :
         g \in {h \in {k[1] : k \in DOMAIN best} : Cardinality(Years(h)) >= 2}}
================================================================================
