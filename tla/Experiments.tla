------------------------------ MODULE Experiments ------------------------------
(***************************************************************************)
(* The extract_results task of the workers, which replaces a paper's rows  *)
(* of experiment_results, and the requests of /insights, which read the    *)
(* rows of a library while tasks run and papers are deleted.               *)
(***************************************************************************)
EXTENDS Analyses

CONSTANTS
  Library,     \* the papers, of this caller and of others
  OwnedBy,     \* OwnedBy[p]: "caller" or "other"
  Extraction,  \* what the rules may find in a paper: sets of [model, dataset, metric, value]
  MaxTasks,    \* how many extract_results messages are delivered, duplicates included
  MaxAttempts, \* 1 + max_retries of extract_results
  MaxDeletions, \* how many papers are deleted
  Asked,       \* the paper_ids a request may carry, in its order
  Kinds,       \* the requests: "comparison", "consistency", "gaps", "trends"
  MinPapers,   \* the min_papers_per_row a comparison may ask for
  Filtered,    \* the [metrics, datasets] it may ask for, each empty for all of them
  Mention,     \* the sets of extracted_entities rows [paper, entity] there may be
  Nothing      \* a model value: no report

ASSUME ExperimentsAssumption ==
  /\ MaxTasks \in Nat /\ MaxAttempts \in Nat \ {0} /\ MaxDeletions \in Nat
  /\ IsFiniteSet(Library) /\ IsFiniteSet(Related) /\ MaxPairs \in Nat /\ MinPapers \subseteq Nat
  /\ \A ids \in Asked : ids \in Seq(Library)
  /\ \A found \in Extraction : IsFiniteSet(found) /\ \A f \in found : f.value \in Int
  /\ \A mentioned \in Mention :
       /\ IsFiniteSet(mentioned)
       /\ \A m \in mentioned : m = [paper |-> m.paper, entity |-> m.entity]

VARIABLES
  present,   \* the papers whose row exists
  results,   \* experiment_results: [id, paper, model, dataset, metric, value]
  tasks,     \* tasks[t]: an extract_results message and how far its run is
  overlap,   \* the papers two of whose extractions have run at once
  mentions,  \* extracted_entities, as the graph build left it
  request    \* a request of /insights, what it has read and what it reports

experimentVars == <<present, results, tasks, overlap, mentions, request>>

Task == 1 .. MaxTasks
Running == {t \in Task : tasks[t].stage \in {"read", "deleted"}}

\* The rows a run of the task inserts: each has an identity of its own.
RowsOf(t, found) ==
  {[id |-> <<t, tasks[t].attempt>>, paper |-> tasks[t].paper, model |-> f.model,
    dataset |-> f.dataset, metric |-> f.metric, value |-> f.value] : f \in found}

-----------------------------------------------------------------------------
(* extract_results.                                                        *)

\* process_paper sends the message, or the broker delivers one a second time.
Deliver(t, p) ==
  /\ tasks[t].stage = "idle"
  /\ \A u \in Task : u < t => tasks[u].stage # "idle"
  /\ tasks' = [tasks EXCEPT ![t] = [stage |-> "sent", paper |-> p, attempt |-> 1,
                                    found |-> {}, doomed |-> {}]]
  /\ UNCHANGED <<present, results, overlap, mentions, request>>

\* The paper and its chunks are read and the rules run over them.  A paper that is
\* gone is a ValueError, which is retried like any error; one without text ends the
\* task before it touches a row.
Extract(t, found) ==
  /\ tasks[t].stage = "sent"
  /\ tasks[t].paper \in present
  /\ tasks' = [tasks EXCEPT ![t].stage = IF found = Nothing THEN "done" ELSE "read",
                            ![t].found = IF found = Nothing THEN {} ELSE found]
  /\ overlap' = IF found # Nothing /\ \E u \in Running : tasks[u].paper = tasks[t].paper
                THEN overlap \cup {tasks[t].paper} ELSE overlap
  /\ UNCHANGED <<present, results, mentions, request>>

\* _persist_results deletes the rows it can see: those that are committed now.
DeleteRows(t) ==
  /\ tasks[t].stage = "read"
  /\ tasks' = [tasks EXCEPT ![t].stage = "deleted",
                            ![t].doomed = {r \in results : r.paper = tasks[t].paper}]
  /\ UNCHANGED <<present, results, overlap, mentions, request>>

(* Mutant: the rows of the last extraction stay. *)
CommitRows_NoDelete(t) ==
  /\ tasks[t].stage = "deleted"
  /\ tasks[t].paper \in present
  /\ results' = results \cup RowsOf(t, tasks[t].found)
  /\ tasks' = [tasks EXCEPT ![t] = [@ EXCEPT !.stage = "done", !.found = {}, !.doomed = {}]]
  /\ UNCHANGED <<present, overlap, mentions, request>>

\* The transaction commits: the rows it deleted go and its own appear, in one step.
\* Rows another transaction has inserted since the deletion are not among them.
CommitRows(t) ==
  /\ tasks[t].stage = "deleted"
  /\ tasks[t].paper \in present
  /\ results' = (results \ tasks[t].doomed) \cup RowsOf(t, tasks[t].found)
  /\ tasks' = [tasks EXCEPT ![t] = [@ EXCEPT !.stage = "done", !.found = {}, !.doomed = {}]]
  /\ UNCHANGED <<present, overlap, mentions, request>>

\* The paper is gone, at the start (ValueError) or at the insert (its foreign key),
\* or the database or the worker fails: rolled back, and retried while retries last.
FailTask(t) ==
  /\ tasks[t].stage \in {"sent", "read", "deleted"}
  /\ tasks' = [tasks EXCEPT ![t] =
       [stage |-> IF tasks[t].attempt < MaxAttempts THEN "sent" ELSE "failed",
        paper |-> tasks[t].paper,
        attempt |-> IF tasks[t].attempt < MaxAttempts THEN tasks[t].attempt + 1 ELSE tasks[t].attempt,
        found |-> {}, doomed |-> {}]]
  /\ UNCHANGED <<present, results, overlap, mentions, request>>

\* delete_paper: the rows go with the paper, by ON DELETE CASCADE.
DeletePaperRow(p) ==
  /\ p \in present
  /\ Cardinality(Library \ present) < MaxDeletions
  /\ present' = present \ {p}
  /\ results' = {r \in results : r.paper # p}
  /\ mentions' = {m \in mentions : m.paper # p}
  /\ UNCHANGED <<tasks, overlap, request>>

-----------------------------------------------------------------------------
(* /insights.                                                              *)

Accessible == {p \in present : OwnedBy[p] = "caller"}

(* Mutant: the papers a request names are taken as they come. *)
Scope_AsAsked(asked) == IF asked = <<>> THEN SetToSeq(Accessible) ELSE asked

\* _scope: the whole library, or those of the papers asked for that are in it.
Scope(asked) ==
  IF asked = <<>> THEN SetToSeq(Accessible)
  ELSE FoldLeft(LAMBDA ids, p : IF p \in Accessible THEN Append(ids, p) ELSE ids, <<>>, asked)

\* A request arrives and its scope is read.
BeginRequest(kind, asked) ==
  /\ request.stage = "none"
  /\ request' = [stage |-> "scoped", kind |-> kind, ids |-> Scope(asked), asked |-> asked,
                 rows |-> {}, report |-> Nothing]
  /\ UNCHANGED <<present, results, tasks, overlap, mentions>>

\* The rows one SELECT of a request returns: those of the scope that exist now.
RowsRead == {r \in results : r.paper \in Range(request.ids)}

\* A query of a request has returned: what the request knows until the next one.
Reads(stage, rows, known) ==
  /\ request' = [request EXCEPT !.stage = stage, !.rows = rows, !.report = known]
  /\ UNCHANGED <<present, results, tasks, overlap, mentions>>

\* The rows a comparison asks for: those with one of the metrics and of the datasets.
Selected(filter) ==
  {r \in RowsRead :
     /\ filter.metrics = {} \/ r.metric \in filter.metrics
     /\ filter.datasets = {} \/ (r.dataset # NoDataset /\ KeyOf[r.dataset] \in filter.datasets)}

\* build_comparison_table, one query.
Compare(minPapers, filter) ==
  /\ request.stage = "scoped" /\ request.kind = "comparison"
  /\ LET rows == Selected(filter)
     IN  Reads("reported", rows,
               [minPapers |-> minPapers, comparison |-> ComparisonTable(rows, minPapers)])

\* analyze_consistency: find_numeric_conflicts reads the rows, of which it keeps one
\* per paper and key.
ReadResults(kept) ==
  /\ request.stage = "scoped" /\ request.kind = "consistency"
  /\ kept \in OnePerPaper(RowsRead)
  /\ Reads("matched", RowsRead, [kept |-> kept, titled |-> {}, seen |-> 0])

\* compare_claims reads paper after paper, each with its chunks; one that is gone by
\* then has no claims.
ReadClaims ==
  /\ request.stage = "matched" /\ Len(request.ids) >= 2
  /\ request.report.seen < Len(request.ids)
  /\ LET p == request.ids[request.report.seen + 1]
     IN  Reads("matched", request.rows,
               [kept |-> request.report.kept,
                titled |-> request.report.titled \cup ({p} \cap present),
                seen |-> request.report.seen + 1])

\* The conflicts, and the claims each judged on its own; a judgement that fails,
\* cannot be read or says "unrelated" leaves no trace.
CheckConsistency(judged, verdicts) ==
  /\ request.stage = "matched"
  /\ Len(request.ids) < 2 \/ request.report.seen = Len(request.ids)
  /\ judged \in JudgedPairs(request.ids, request.report.titled)
  /\ verdicts \in [judged -> {"contradiction", "agreement", "none"}]
  /\ Reads("reported", request.rows,
           [conflicts |-> NumericConflicts(request.ids, request.report.kept),
            contradictions |-> {pair \in judged : verdicts[pair] = "contradiction"},
            agreements |-> {pair \in judged : verdicts[pair] = "agreement"},
            titled |-> request.report.titled])

\* discover_gaps: find_coverage_gaps reads the mentions.
ReadMentions ==
  /\ request.stage = "scoped" /\ request.kind = "gaps"
  /\ Reads("covered", {}, [mentioned |-> mentions])

\* find_evaluation_gaps reads the rows; both kinds of gap are known now.
FindGaps ==
  /\ request.stage = "covered"
  /\ Reads("gaps", RowsRead,
           [coverage |-> CoverageGaps(request.ids, request.report.mentioned),
            mentioned |-> request.report.mentioned,
            untested |-> EvaluationGaps(request.ids, RowsRead),
            conflicts |-> {}])

\* find_numeric_conflicts reads the rows again, for the conflicts among them.
FindConflicts(kept) ==
  /\ request.stage = "gaps"
  /\ kept \in OnePerPaper(RowsRead)
  /\ Reads("reported", request.rows,
           [request.report EXCEPT !.conflicts = NumericConflicts(request.ids, kept)])

\* analyze_trends: build_timeline reads the papers.
ReadPapers ==
  /\ request.stage = "scoped" /\ request.kind = "trends"
  /\ Reads("listed", {}, [listed |-> Range(request.ids) \cap present])

\* entity_trends reads the mentions, joined with the papers.
ReadTrends ==
  /\ request.stage = "listed"
  /\ Reads("counted", {}, [listed |-> request.report.listed,
                           dated |-> Range(request.ids) \cap present,
                           mentioned |-> mentions])

\* metric_progressions reads the rows.
FindTrends ==
  /\ request.stage = "counted"
  /\ LET read == request.report
     IN  Reads("reported", RowsRead,
               [timeline |-> Timeline(read.listed), listed |-> read.listed,
                dated |-> read.dated, mentioned |-> read.mentioned,
                series |-> [e \in {m.entity : m \in read.mentioned} |->
                              Series(e, read.dated, read.mentioned)],
                progressions |-> Progressions(RowsRead)])

EndRequest ==
  /\ request.stage = "reported"
  /\ request' = [request EXCEPT !.stage = "none", !.ids = <<>>, !.asked = <<>>, !.rows = {},
                                !.report = Nothing]
  /\ UNCHANGED <<present, results, tasks, overlap, mentions>>

-----------------------------------------------------------------------------

ExperimentsInit ==
  /\ present = Library
  /\ results = {}
  /\ tasks = [t \in Task |-> [stage |-> "idle", paper |-> Nothing, attempt |-> 0,
                              found |-> {}, doomed |-> {}]]
  /\ overlap = {}
  /\ mentions \in Mention
  /\ request = [stage |-> "none", kind |-> "trends", ids |-> <<>>, asked |-> <<>>,
                rows |-> {}, report |-> Nothing]

ExtractResults(t) ==
  \/ \E p \in Library : Deliver(t, p)
  \/ \E found \in Extraction \cup {Nothing} : Extract(t, found)
  \/ DeleteRows(t)
  \/ CommitRows(t)
  \/ FailTask(t)

Insights ==
  \/ \E kind \in Kinds, asked \in Asked : BeginRequest(kind, asked)
  \/ \E minPapers \in MinPapers, filter \in Filtered : Compare(minPapers, filter)
  \/ \E kept \in OnePerPaper(RowsRead) : ReadResults(kept)
  \/ ReadClaims
  \/ /\ request.stage = "matched"
     /\ \E judged \in JudgedPairs(request.ids, request.report.titled) :
          \E verdicts \in [judged -> {"contradiction", "agreement", "none"}] :
            CheckConsistency(judged, verdicts)
  \/ ReadMentions
  \/ FindGaps
  \/ \E kept \in OnePerPaper(RowsRead) : FindConflicts(kept)
  \/ ReadPapers
  \/ ReadTrends
  \/ FindTrends
  \/ EndRequest

ExperimentsNext ==
  \/ \E t \in Task : ExtractResults(t)
  \/ \E p \in Library : DeletePaperRow(p)
  \/ Insights

ExperimentsSpec == ExperimentsInit /\ [][ExperimentsNext]_experimentVars

-----------------------------------------------------------------------------
(* What should hold.                                                       *)

\* The runs whose rows a paper has now.
RunsOf(p) == {r.id : r \in {x \in results : x.paper = p}}

\* Every reader sees whole extractions: rows belong to papers that exist, and a
\* paper's rows are what one run found, or several only where extractions of that
\* paper have overlapped (extraction.py:305-329: the delete, the flush and the
\* inserts are one transaction, and nothing keeps two of them apart).
RowsAreOneExtraction ==
  /\ \A r \in results : r.paper \in present
  /\ \A p \in present \ overlap : Cardinality(RunsOf(p)) <= 1

Reported(kind) == request.stage = "reported" /\ request.kind = kind

\* A report is about papers of the caller that the caller asked for, whatever else
\* the request named (insights.py:56-63).
ReportStaysInScope ==
  request.stage # "none" =>
    /\ \A r \in request.rows : OwnedBy[r.paper] = "caller"
    /\ request.asked # <<>> => Range(request.ids) \subseteq Range(request.asked)

\* Every row that names a dataset stands in exactly one group of the table unless
\* its group has too few papers, and no cell beats the one marked best
\* (comparison.py:113-142, 153-158).
TableIsComplete ==
  Reported("comparison") =>
    LET groups == request.report.comparison.table
        named == {r \in request.rows : r.dataset # NoDataset}
    IN  /\ request.report.comparison.ungrouped = Cardinality(request.rows) - Cardinality(named)
        /\ \A r \in named :
             LET alike == {s \in named : s.dataset = r.dataset /\ s.metric = r.metric}
                 here == {g \in groups : r \in g.cells}
             IN  IF Cardinality({s.paper : s \in alike}) < request.report.minPapers
                 THEN here = {}
                 ELSE Cardinality(here) = 1 /\ \A g \in here : g.cells = alike
        /\ \A g \in groups : \A r \in g.cells :
             IF g.metric \in LowerIsBetter THEN g.best.value <= r.value ELSE g.best.value >= r.value

\* A numeric conflict is between two papers' own rows that differ by 5% or more, and
\* no such pair is missed when every paper reports one value per model, dataset and
\* metric; equal values are never a conflict (contradictions.py:56-59, 129-147).
ConflictsAreReal ==
  Reported("consistency") =>
    LET found == request.report.conflicts
        once == \A r, s \in request.rows :
                  r.paper = s.paper /\ r.dataset # NoDataset /\ s.dataset # NoDataset
                  /\ SameKey(r, s) => r = s
        Apart(r, s) == LET gap == Magnitude(r.value - s.value)
                       IN  gap # 0 /\ ~ (\A x \in {r.value, s.value} : 20 * gap < Magnitude(x))
                           /\ \A x \in {r.value, s.value} : 20 * gap >= Magnitude(x)
        pairs == {x \in request.rows \X request.rows :
                    LET r == x[1] s == x[2]
                    IN  /\ r.dataset # NoDataset /\ s.dataset # NoDataset
                        /\ r.paper # s.paper /\ SameKey(r, s) /\ Apart(r, s)}
    IN  /\ found \subseteq {{x[1], x[2]} : x \in pairs}
        /\ once => found = {{x[1], x[2]} : x \in pairs}

\* Claims are compared across papers only, each pair once, never more than
\* MAX_CLAIM_PAIRS of them, and a verdict is about a pair that was compared
\* (contradictions.py:233-253, 256-274).
ClaimsAreComparedAcrossPapers ==
  Reported("consistency") =>
    LET verdicts == request.report.contradictions \cup request.report.agreements
    IN  /\ Cardinality(verdicts) <= MaxPairs
        /\ request.report.contradictions \cap request.report.agreements = {}
        /\ \A pair \in verdicts : \E p, q \in Range(request.ids) :
             p # q /\ pair \cap ClaimsOf[p] # {} /\ pair \cap ClaimsOf[q] # {}

\* A gap is a hole the corpus shows: a paper listed as missing an entity does not
\* mention it while other papers do, and a model is called untested on a dataset only
\* when no row read has the two together (gaps.py:106-126, 150-181).
GapsAreHoles ==
  request.stage \in {"gaps", "reported"} /\ request.kind = "gaps" =>
    /\ \A g \in request.report.coverage :
         /\ g.missing # {} /\ g.missing \subseteq Range(request.ids)
         /\ \A p \in g.missing : [paper |-> p, entity |-> g.entity] \notin request.report.mentioned
         /\ \E m \in request.report.mentioned :
              m.entity = g.entity /\ m.paper \in Range(request.ids)
    /\ \A g \in request.report.untested : \A d \in g.untested :
         /\ ~ \E r \in request.rows : r.model = g.model /\ r.dataset # NoDataset /\ KeyOf[r.dataset] = d
         /\ \E r \in request.rows : r.dataset # NoDataset /\ KeyOf[r.dataset] = d

\* A trend report adds up: every listed paper is in one year of the timeline or
\* undated, an entity's years count the dated papers that mention it when they are
\* counted, and a point of a progression is the best value any paper of that year
\* reports, in whatever order the rows were read (trends.py:128-140, 172-188, 218-240).
TrendsAddUp ==
  Reported("trends") =>
    LET report == request.report
        years == DOMAIN report.timeline.years
        Of(g, y) == {r.value : r \in {x \in request.rows : /\ x.dataset = g.dataset
                                                          /\ x.metric = g.metric
                                                          /\ YearOf[x.paper] = y}}
    IN  /\ SumOver(report.timeline.years, years) + report.timeline.undated
           = Cardinality(report.listed)
        /\ \A e \in DOMAIN report.series :
             SumOver(report.series[e], DOMAIN report.series[e]) =
               Cardinality({m \in report.mentioned :
                              m.entity = e /\ m.paper \in report.dated /\ Dated(m.paper)})
        /\ \A g \in report.progressions : \A y \in DOMAIN g.points :
             /\ g.points[y] \in Of(g, y)
             /\ \A v \in Of(g, y) :
                  IF g.metric \in LowerIsBetter THEN g.points[y] <= v ELSE g.points[y] >= v

\* Whatever tasks and deletions come between the queries of a report, the rows are
\* whole extractions, it speaks of the caller's papers, and each of its tables,
\* conflicts, gaps and trends follows from the rows it read (insights.py:56-266).
ReportIsSound ==
  /\ RowsAreOneExtraction
  /\ ReportStaysInScope
  /\ TableIsComplete
  /\ ConflictsAreReal
  /\ ClaimsAreComparedAcrossPapers
  /\ GapsAreHoles
  /\ TrendsAddUp

================================================================================
