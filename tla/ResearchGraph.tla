----------------------------- MODULE ResearchGraph -----------------------------
(***************************************************************************)
(* One run of the multi-agent research graph: eleven agents in a fixed     *)
(* order, with a conditional cycle between the critic and the reflector.   *)
(* (agents/graph.py, agents/agents.py, agents/state.py)                    *)
(*                                                                         *)
(* LangGraph runs one node per superstep and merges what the node returns  *)
(* into the shared state.  An agent that raises changes nothing but the    *)
(* steps and errors (resilient), and the graph goes on along its edges.    *)
(* Texts and passage lists are version numbers, 0 for an empty one.        *)
(***************************************************************************)
EXTENDS Integers, FiniteSets

CONSTANTS
    MaxRevisions,     \* MAX_REVISIONS
    RecursionLimit,   \* supersteps LangGraph allows a run
    Failing,          \* agents that may raise
    MaxFailures       \* bound on how often agents raise in a run

Agent == {"planner", "retriever", "graph_retriever", "web_search", "ranker", "reasoner",
          "critic", "reflector", "verifier", "citation", "summarizer"}

ASSUME ResearchGraphAssumption ==
    /\ MaxRevisions \in Nat
    /\ RecursionLimit \in Nat
    /\ Failing \subseteq Agent
    /\ MaxFailures \in Nat

VARIABLES
    node,             \* the agent to run next, "end" or "aborted"
    supersteps,       \* nodes run so far
    chunks,           \* version of the passage list
    draft, draftOn,   \* version of draft_answer, and the passages it cites
    critique,         \* the draft a critic last read, and whether it asked for a revision
    needs_revision,
    revision_count,
    verification,     \* what the verifier reported, and on which draft
    confidence,       \* in per cent
    final,            \* final_answer: the draft in it, and whether a summary stands before it
    passes,           \* history: visits of the reflector
    failures,         \* errors recorded, all agents
    criticFailures    \* those of the critic

answerVars  == <<chunks, draft, draftOn>>
qualityVars == <<critique, revision_count, verification, confidence>>
vars == <<node, supersteps, answerVars, needs_revision, qualityVars, final, passes, failures, criticFailures>>

Uncriticised == [of |-> 0, wants |-> FALSE]
Unanswered == [of |-> 0, summary |-> FALSE]
Unverified == [of |-> 0, reply |-> "none", supported |-> FALSE]

\* What the model can make of a verification prompt.
Reply == {"supported", "unsupported", "unparseable"}

-----------------------------------------------------------------------------
(* Topology *)

\* Mutant: the draft is verified before it is criticised.
Successor_VerifyFirst(a, revise) ==
    CASE a = "planner"         -> "retriever"
      [] a = "retriever"       -> "graph_retriever"
      [] a = "graph_retriever" -> "web_search"
      [] a = "web_search"      -> "ranker"
      [] a = "ranker"          -> "reasoner"
      [] a = "reasoner"        -> "verifier"
      [] a = "verifier"        -> "critic"
      [] a = "critic"          -> IF revise THEN "reflector" ELSE "citation"
      [] a = "reflector"       -> "critic"
      [] a = "citation"        -> "summarizer"
      [] a = "summarizer"      -> "end"

\* Mutant: a revision is trusted, not criticised again.
Successor_TrustRevision(a, revise) ==
    CASE a = "planner"         -> "retriever"
      [] a = "retriever"       -> "graph_retriever"
      [] a = "graph_retriever" -> "web_search"
      [] a = "web_search"      -> "ranker"
      [] a = "ranker"          -> "reasoner"
      [] a = "reasoner"        -> "critic"
      [] a = "critic"          -> IF revise THEN "reflector" ELSE "verifier"
      [] a = "reflector"       -> "verifier"
      [] a = "verifier"        -> "citation"
      [] a = "citation"        -> "summarizer"
      [] a = "summarizer"      -> "end"

\* Mutant: the passages are ranked after the answer was drafted from them.
Successor_RankLate(a, revise) ==
    CASE a = "planner"         -> "retriever"
      [] a = "retriever"       -> "graph_retriever"
      [] a = "graph_retriever" -> "web_search"
      [] a = "web_search"      -> "reasoner"
      [] a = "reasoner"        -> "ranker"
      [] a = "ranker"          -> "critic"
      [] a = "critic"          -> IF revise THEN "reflector" ELSE "verifier"
      [] a = "reflector"       -> "critic"
      [] a = "verifier"        -> "citation"
      [] a = "citation"        -> "summarizer"
      [] a = "summarizer"      -> "end"

\* The edges of build_graph, with _route_after_critic.
Successor(a, revise) ==
    CASE a = "planner"         -> "retriever"
      [] a = "retriever"       -> "graph_retriever"
      [] a = "graph_retriever" -> "web_search"
      [] a = "web_search"      -> "ranker"
      [] a = "ranker"          -> "reasoner"
      [] a = "reasoner"        -> "critic"
      [] a = "critic"          -> IF revise THEN "reflector" ELSE "verifier"
      [] a = "reflector"       -> "critic"
      [] a = "verifier"        -> "citation"
      [] a = "citation"        -> "summarizer"
      [] a = "summarizer"      -> "end"

\* Agent a runs in this superstep and leaves needs_revision at revise; the edge
\* out of it is chosen on the merged state.
Runs(a, revise) ==
    /\ node = a
    /\ supersteps < RecursionLimit
    /\ supersteps' = supersteps + 1
    /\ passes' = IF a = "reflector" THEN passes + 1 ELSE passes
    /\ needs_revision' = revise
    /\ node' = Successor(a, revise)

Returns(a, revise) == Runs(a, revise) /\ UNCHANGED <<failures, criticFailures>>

\* Every agent but the critic leaves the verdict alone.
Succeeds(a) == Returns(a, needs_revision)

-----------------------------------------------------------------------------
(* Agents *)

\* The planner and the web search prepare prompts and queries, nothing that the
\* control depends on.
Prepare(a) ==
    /\ a \in {"planner", "web_search"}
    /\ Succeeds(a)
    /\ UNCHANGED <<answerVars, qualityVars, final>>

\* The merged results of all sub-questions, possibly none.
Retrieve ==
    /\ Succeeds("retriever")
    /\ chunks' \in {0, chunks + 1}
    /\ UNCHANGED <<draft, draftOn, qualityVars, final>>

\* Passages of graph-linked papers are appended, or there are none.
GraphRetrieve ==
    /\ Succeeds("graph_retriever")
    /\ chunks' \in {chunks, chunks + 1}
    /\ UNCHANGED <<draft, draftOn, qualityVars, final>>

\* Sorted and packed into the budget; every passage may turn out too large.
Rank ==
    /\ Succeeds("ranker")
    /\ IF chunks = 0 THEN UNCHANGED chunks ELSE chunks' \in {0, chunks + 1}
    /\ UNCHANGED <<draft, draftOn, qualityVars, final>>

\* A canned answer without passages; with them the model's text, perhaps empty.
Reason ==
    /\ Succeeds("reasoner")
    /\ draft' \in (IF chunks = 0 THEN {1} ELSE {0, 1})
    /\ draftOn' = chunks
    /\ UNCHANGED <<chunks, qualityVars, final>>

\* Mutant: the cap lets one revision too many through.
Revise_LateCap(wants) == wants /\ revision_count <= MaxRevisions

\* Mutant: the critic has no cap.
Revise_NoCap(wants) == wants

\* What the critic makes of the model's wish: a draft revised often enough goes on.
Revise(wants) == wants /\ revision_count < MaxRevisions

\* Nothing to criticise: no revision, and the last critique stays.  Otherwise the model
\* decides; a critique that cannot be read asks for nothing.
Criticise ==
    /\ IF draft = 0 \/ chunks = 0
       THEN Returns("critic", FALSE) /\ UNCHANGED critique
       ELSE \E wants \in BOOLEAN :
              /\ Returns("critic", Revise(wants))
              /\ critique' = [of |-> draft, wants |-> wants]
    /\ UNCHANGED <<answerVars, revision_count, verification, confidence, final>>

\* Mutant: only a rewrite that changed the text counts as a revision.
Reflect_CountsChanges ==
    /\ Succeeds("reflector")
    /\ draft' \in {draft, draft + 1}
    /\ revision_count' = revision_count + (draft' - draft)
    /\ UNCHANGED <<chunks, draftOn, critique, verification, confidence, final>>

\* The previous draft is kept when the model returns nothing.
Reflect ==
    /\ Succeeds("reflector")
    /\ draft' \in {draft, draft + 1}
    /\ revision_count' = revision_count + 1
    /\ UNCHANGED <<chunks, draftOn, critique, verification, confidence, final>>

Capped(reply, c) == IF reply = "unsupported" /\ c > 35 THEN 35 ELSE c

\* verify_answer takes an unreadable reply for support with confidence 0.5; a
\* stated lack of support caps the confidence at 0.35.
Verify ==
    /\ Succeeds("verifier")
    /\ IF draft = 0 \/ chunks = 0
       THEN confidence' = 0 /\ UNCHANGED verification
       ELSE \E reply \in Reply, stated \in {0, 20, 90} :
            /\ verification' = [of |-> draft, reply |-> reply,
                                supported |-> reply # "unsupported"]
            /\ confidence' = IF reply = "unparseable" THEN 50 ELSE Capped(reply, stated)
    /\ UNCHANGED <<answerVars, critique, revision_count, final>>

\* The draft becomes the final answer, its markers resolved against the passages.
Cite ==
    /\ Succeeds("citation")
    /\ final' = [of |-> draft, summary |-> FALSE]
    /\ UNCHANGED <<answerVars, qualityVars>>

\* The text of a finished run: final_answer or draft_answer.
Answer == IF final.of = 0 THEN draft ELSE final.of

\* The model's summary is put in front of a long answer, also when no final answer was
\* set.  Nothing verifies the summary.
Summarize ==
    /\ Succeeds("summarizer")
    /\ \/ UNCHANGED final
       \/ Answer # 0 /\ final' = [of |-> Answer, summary |-> TRUE]
    /\ UNCHANGED <<answerVars, qualityVars>>

-----------------------------------------------------------------------------
(* Failures *)

\* Mutant: a failing agent clears the verdict of the critic.
AgentFails_ClearsVerdict(a) ==
    /\ a \in Failing /\ failures < MaxFailures
    /\ Runs(a, FALSE)
    /\ failures' = failures + 1
    /\ criticFailures' = IF a = "critic" THEN criticFailures + 1 ELSE criticFailures
    /\ UNCHANGED <<answerVars, qualityVars, final>>

\* The wrapper of resilient: one step, one error, nothing else.  A critic that
\* fails leaves needs_revision as the last critic set it.
AgentFails(a) ==
    /\ a \in Failing /\ failures < MaxFailures
    /\ Runs(a, needs_revision)
    /\ failures' = failures + 1
    /\ criticFailures' = IF a = "critic" THEN criticFailures + 1 ELSE criticFailures
    /\ UNCHANGED <<answerVars, qualityVars, final>>

\* GraphRecursionError: the run ends without a result.
Abort ==
    /\ node \in Agent
    /\ supersteps >= RecursionLimit
    /\ node' = "aborted"
    /\ UNCHANGED <<supersteps, answerVars, needs_revision, qualityVars, final, passes,
                   failures, criticFailures>>

-----------------------------------------------------------------------------

Init ==
    /\ node = "planner"
    /\ supersteps = 0
    /\ chunks = 0 /\ draft = 0 /\ draftOn = 0
    /\ critique = Uncriticised /\ needs_revision = FALSE /\ revision_count = 0
    /\ verification = Unverified /\ confidence = 0
    /\ final = Unanswered
    /\ passes = 0 /\ failures = 0 /\ criticFailures = 0

AgentActs ==
    \/ \E a \in Agent : Prepare(a)
    \/ Retrieve \/ GraphRetrieve \/ Rank \/ Reason \/ Criticise \/ Reflect \/ Verify
    \/ Cite \/ Summarize

Next == AgentActs \/ (\E a \in Agent : AgentFails(a)) \/ Abort

Spec == Init /\ [][Next]_vars

\* LangGraph runs the next node as soon as the last one returned.
FairSpec == Spec /\ WF_vars(Next)

-----------------------------------------------------------------------------
(* Properties *)

\* Every variable has its type, and a verification is of some draft.
TypeOK ==
    /\ node \in Agent \cup {"end", "aborted"}
    /\ supersteps \in 0..RecursionLimit
    /\ chunks \in Nat /\ draft \in Nat /\ draftOn \in Nat
    /\ critique \in [of : Nat, wants : BOOLEAN]
    /\ needs_revision \in BOOLEAN /\ revision_count \in Nat
    /\ verification \in [of : Nat, reply : Reply \cup {"none"}, supported : BOOLEAN]
    /\ confidence \in 0..100
    /\ final \in [of : Nat, summary : BOOLEAN]
    /\ passes \in Nat /\ failures \in 0..MaxFailures /\ criticFailures \in 0..failures

\* The draft is rewritten at most MaxRevisions times, plus once for every critic
\* that failed and left the verdict of an earlier one standing.
RevisionsWithinBudget == revision_count <= MaxRevisions + criticFailures

\* LangGraph's limit leaves room for two supersteps per revision and failure so far.
RoomLeft == 10 + 2 * MaxRevisions + failures + failures <= RecursionLimit

\* Whichever agents fail, a run is not aborted while the limit leaves room for
\* the failures it has seen.
NeverAborted == RoomLeft => node # "aborted"

\* The verification and the confidence of the result are about the answer in it, not
\* about a draft that was revised afterwards.  They say nothing of a summary the
\* summarizer put in front (agents.py:483-506, 557-562).
VerifiedIsAnswered ==
    node = "end" /\ confidence > 0 => verification.of = Answer

\* The numbers an answer cites index the passage list it was written from, the
\* list the result returns as its sources.
MarkersMatchSources ==
    draft # 0 => draftOn = chunks

\* "Back to the critic so a revision is re-checked rather than trusted" (graph.py:95):
\* a draft that goes to the verifier has been read by a critic in the form it goes there,
\* and if that critic asked for more the cap is reached.  A critic that fails cannot let
\* a revision through, since the verdict that asked for it still stands; it lets through
\* only the first draft, when no critic has read anything.
CriticHasTheLastWord ==
    node \in {"verifier", "citation", "summarizer", "end"} /\ draft # 0 /\ chunks # 0 =>
        \/ critique.of = draft /\ (critique.wants => revision_count >= MaxRevisions)
        \/ critique.of = 0 /\ revision_count = 0 /\ criticFailures > 0

\* Every run reaches its result, unless more agents failed in it than the limit
\* leaves room for.
AnswerArrives == <>(node = "end" \/ ~RoomLeft)

\* The cycle is bounded by MAX_REVISIONS.
LoopIsBounded == passes <= MaxRevisions

===============================================================================
