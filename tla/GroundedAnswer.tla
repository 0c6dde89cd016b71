---------------------------- MODULE GroundedAnswer ----------------------------
(***************************************************************************)
(* One question asked over the library: retrieval, a graded second         *)
(* attempt, an answer from the packed sources, and its verification; or    *)
(* the same streamed without grading and verification.                     *)
(* (llm/rag.py, api/v1/endpoints/chat.py)                                  *)
(*                                                                         *)
(* What the model is asked for comes through the gateway of LLMGateway;    *)
(* what it replies is chosen where the reply is read.                      *)
(***************************************************************************)
EXTENDS LLMGateway, ContextPacking

CONSTANTS
    Limit,       \* chunks one retrieval returns at most
    Markers,     \* source numbers an answer may cite
    Stated,      \* confidences a verifier may state, in per cent
    MaxTokens    \* bound on the token events of a stream

ASSUME AnswerAssumption ==
    /\ Limit \in Nat /\ MaxTokens \in Nat
    /\ Markers \subseteq Nat
    /\ Stated \subseteq Int

VARIABLES
    request,     \* the options of the request
    stage,       \* what the request waits for, or how it ended
    hits,        \* chunks of the first retrieval
    chunks,      \* chunks merged so far
    sources,     \* the packed chunks the answer is written from
    grade,       \* sufficient, insufficient, or not graded
    verdict,     \* the verifier's reply, and the confidence taken from it
    cited,       \* source numbers extracted from the answer
    usage,       \* completions the answer is charged for
    events       \* kinds of the events streamed to the client

foundVars  == <<hits, chunks>>
resultVars == <<sources, grade, verdict, cited>>
vars == <<gatewayVars, request, stage, foundVars, resultVars, usage, events>>

NoVerdict == [reply |-> "none", confidence |-> 0]

\* A ranked result of one retrieval.
Found == {list \in SeqOf(Chunk, Limit) : IsInjective(list)}

\* The request goes on to stage s with a completion, or without one.
Await(s) == stage' = s /\ Ask
Goto(s)  == stage' = s /\ call' = "none" /\ UNCHANGED <<provider, posts, refused>>

-----------------------------------------------------------------------------
(* Answering *)

\* Mutant: the model is asked although nothing was found.
Compose_Regardless(found) ==
    /\ sources' = Pack(found).kept
    /\ Await("answer")

\* A canned answer when nothing was found; otherwise the chunks are packed and the
\* model is asked.
Compose(found) ==
    \/ found = <<>> /\ Goto("done") /\ UNCHANGED sources
    \/ found # <<>> /\ sources' = Pack(found).kept /\ Await("answer")

\* An empty result is graded insufficient without asking the model.
Retrieve ==
    /\ stage = "retrieve" /\ ~request.streaming
    /\ \E found \in Found :
        /\ hits' = found /\ chunks' = found
        /\ \/ ~request.corrective /\ Compose(found) /\ UNCHANGED grade
           \/ request.corrective /\ found # <<>> /\ Await("grade") /\ UNCHANGED <<sources, grade>>
           \/ /\ request.corrective /\ found = <<>>
              /\ grade' = "insufficient"
              /\ Await("rewrite")
              /\ UNCHANGED sources
    /\ UNCHANGED <<configured, completions, request, verdict, cited, usage, events>>

\* A stage reads the completion it waited for.
Reads(s) == stage = s /\ call = "answered" /\ usage' = usage + 1

\* A grade that cannot be parsed counts as sufficient.
Grade ==
    /\ Reads("grade")
    /\ \/ grade' = "sufficient" /\ Compose(chunks)
       \/ grade' = "insufficient" /\ Await("rewrite") /\ UNCHANGED sources
    /\ UNCHANGED <<configured, completions, request, foundVars, verdict, cited, events>>

\* Mutant: the rewrite is not charged to the answer.
Rewrite_Free ==
    /\ stage = "rewrite" /\ call = "answered" /\ UNCHANGED usage
    /\ (Goto("again") /\ UNCHANGED sources) \/ Compose(chunks)
    /\ UNCHANGED <<configured, completions, request, foundVars, grade, verdict, cited, events>>

\* The rewritten query is searched for, unless it is empty or the question again.
Rewrite ==
    /\ Reads("rewrite")
    /\ (Goto("again") /\ UNCHANGED sources) \/ Compose(chunks)
    /\ UNCHANGED <<configured, completions, request, foundVars, grade, verdict, cited, events>>

\* Mutant: the second result replaces the first.
Merge_Replace(first, second) == second

\* What the second retrieval adds, behind what the first one found.
Merge(first, second) ==
    FoldLeft(LAMBDA merged, c : IF c \in ToSet(first) THEN merged ELSE Append(merged, c),
             first, second)

RetrieveAgain ==
    /\ stage = "again"
    /\ \E found \in Found :
        /\ chunks' = Merge(chunks, found)
        /\ Compose(chunks')
    /\ UNCHANGED <<configured, completions, request, hits, grade, verdict, cited, usage, events>>

\* Mutant: markers are checked against everything retrieved.
Citations_OfChunks(markers) == markers \cap (1..Len(chunks))

\* extract_citations: markers beyond the sources are discarded.
Citations(markers) == markers \cap (1..Len(sources))

\* The model's text, of which only the markers matter here.
Answer ==
    /\ Reads("answer")
    /\ \E markers \in SUBSET Markers : cited' = Citations(markers)
    /\ IF request.verify THEN Await("verify") ELSE Goto("done")
    /\ UNCHANGED <<configured, completions, request, foundVars, sources, grade, verdict, events>>

\* A reply that cannot be parsed counts as support with confidence 0.5.
Verify ==
    /\ Reads("verify")
    /\ \/ \E reply \in {"supported", "unsupported"}, stated \in Stated :
            verdict' = [reply |-> reply, confidence |-> stated]
       \/ verdict' = [reply |-> "unparsed", confidence |-> 50]
    /\ Goto("done")
    /\ UNCHANGED <<configured, completions, request, foundVars, sources, grade, cited, events>>

\* Mutant: a verdict can only raise the score.
Score_NeverLowered ==
    LET base == 50 + (IF grade = "sufficient" THEN 20 ELSE 0) + (IF cited # {} THEN 10 ELSE 0)
    IN  IF verdict.reply = "none" \/ base > verdict.confidence THEN base ELSE verdict.confidence

\* The score before it is cut off at 1.0: lowered to 0.35 by an unsupported
\* verdict, raised to the stated confidence by any other.
Score ==
    LET base == 50 + (IF grade = "sufficient" THEN 20 ELSE 0) + (IF cited # {} THEN 10 ELSE 0)
    IN  CASE verdict.reply = "none"        -> base
          [] verdict.reply = "unsupported" -> 35
          [] OTHER -> IF base > verdict.confidence THEN base ELSE verdict.confidence

\* RagAnswer.confidence, in per cent.
Confidence == IF sources = <<>> THEN 0 ELSE IF Score > 100 THEN 100 ELSE Score

-----------------------------------------------------------------------------
(* Streaming *)

\* The sources are sent before the first token; a stream with nothing to show is
\* complete at once.
StreamSources ==
    /\ stage = "retrieve" /\ request.streaming
    /\ \E found \in Found :
        /\ hits' = found /\ chunks' = found
        /\ \/ /\ found = <<>>
              /\ stage' = "done"
              /\ events' = <<"sources", "token", "done">>
              /\ UNCHANGED sources
           \/ /\ found # <<>>
              /\ stage' = "stream"
              /\ sources' = Pack(found).kept
              /\ events' = <<"sources">>
    /\ UNCHANGED <<gatewayVars, request, grade, verdict, cited, usage>>

\* The primary streams on its own: no retry, no fallback, no count of usage.
StreamToken ==
    /\ stage = "stream"
    /\ Len(events) <= MaxTokens
    /\ events' = Append(events, "token")
    /\ UNCHANGED <<gatewayVars, request, stage, foundVars, resultVars, usage>>

StreamEnds ==
    /\ stage = "stream"
    /\ \E markers \in SUBSET Markers : cited' = Citations(markers)
    /\ stage' = "done"
    /\ events' = Append(events, "done")
    /\ UNCHANGED <<gatewayVars, request, foundVars, sources, grade, verdict, usage>>

-----------------------------------------------------------------------------
(* Failures *)

Fail ==
    /\ stage' = "failed"
    /\ UNCHANGED <<gatewayVars, request, foundVars, resultVars, usage, events>>

\* The database, the embedder or an index raises.
RetrievalFails == stage \in {"retrieve", "again"} /\ Fail

\* Mutant: only LLMError is expected, another exception leaves the request waiting.
CallFails_LLMErrorOnly == call = "raised" /\ stage # "failed" /\ Fail

\* An error of the gateway ends the request, also after the answer was written.
CallFails == call \in {"raised", "crashed"} /\ stage # "failed" /\ Fail

\* A JSON verdict whose confidence is no number, or whose claims are no list.
VerdictMalformed == stage = "verify" /\ call = "answered" /\ Fail

\* An error status, or a connection that breaks: no done event is sent.
StreamFails == stage = "stream" /\ Fail

-----------------------------------------------------------------------------

Init ==
    /\ GatewayInit
    /\ request \in [streaming : BOOLEAN, corrective : BOOLEAN, verify : BOOLEAN]
    /\ stage = "retrieve"
    /\ hits = <<>> /\ chunks = <<>> /\ sources = <<>>
    /\ grade = "none" /\ verdict = NoVerdict /\ cited = {}
    /\ usage = 0 /\ events = <<>>

\* While a completion is in flight, only the gateway moves.
Completes ==
    /\ GatewayNext
    /\ UNCHANGED <<request, stage, foundVars, resultVars, usage, events>>

Next ==
    \/ Completes
    \/ Retrieve \/ Grade \/ Rewrite \/ RetrieveAgain \/ Answer \/ Verify
    \/ StreamSources \/ StreamToken \/ StreamEnds
    \/ RetrievalFails \/ CallFails \/ VerdictMalformed \/ StreamFails

Spec == Init /\ [][Next]_vars

\* Every post is under a timeout, and a coroutine whose reply is there goes on.
FairSpec == Spec /\ WF_vars(Next)

-----------------------------------------------------------------------------
(* Properties *)

Stage == {"retrieve", "grade", "rewrite", "again", "answer", "verify", "stream", "done", "failed"}

TypeOK ==
    /\ GatewayTypeOK
    /\ request \in [streaming : BOOLEAN, corrective : BOOLEAN, verify : BOOLEAN]
    /\ stage \in Stage
    /\ hits \in Found
    /\ IsInjective(chunks) /\ ToSet(chunks) \subseteq Chunk
    /\ ToSet(sources) \subseteq ToSet(chunks)
    /\ grade \in {"none", "sufficient", "insufficient"}
    /\ verdict.reply \in {"none", "supported", "unsupported", "unparsed"}
    /\ verdict.confidence \in Int
    /\ cited \in SUBSET Markers
    /\ usage \in Nat
    /\ ToSet(events) \subseteq {"sources", "token", "done"}

\* The model is asked to answer, and an answer is verified and streamed, only with
\* at least one source in the prompt.
AnswerHasSource == stage \in {"answer", "verify", "stream"} => sources # <<>>

\* A corrective second retrieval never pushes a chunk of the first one out of the
\* sources: they come first and are packed as they would have been alone.
FirstFindingsKept == sources # <<>> => IsPrefix(Pack(hits).kept, sources)

\* The sources exceed the token budget by less than the blanks and remainders an
\* excerpt gains when its sentences are joined.
ContextFits == Pack(chunks).used < Budget + SentenceLimit

\* More than 0.8 is shown only for an answer the verifier read and supported, more
\* than 0.35 never for one it found unsupported, and nothing for a canned answer.
ConfidenceIsEarned ==
    stage = "done" =>
        /\ Confidence > 80 => verdict.reply = "supported"
        /\ Confidence > 35 => verdict.reply # "unsupported"
        /\ Confidence > 0  => sources # <<>>

\* Every number shown as cited is that of a source shown with the answer.
CitationsResolve == cited \subseteq 1..Len(sources)

\* What the model is asked to answer from: retrieved chunks only, at least one, the
\* first findings in front, within the budget; and what the answer cites is among
\* them (rag.py:109-121, 250-281, context.py:75-130).
PromptIsGrounded ==
    TypeOK /\ AnswerHasSource /\ FirstFindingsKept /\ ContextFits /\ CitationsResolve

\* The usage an answer reports counts each completion it caused exactly once,
\* graded, rewritten and verified ones included.
UsageIsComplete == stage = "done" => usage = completions

\* Every question is answered or fails.
QuestionEnds == <>(stage \in {"done", "failed"})

\* The fallback is asked only when the primary did not reject the request itself.
FallsBackOnOutageOnly ==
    [][provider = "primary" /\ provider' = "fallback" => "primary" \notin refused']_vars

===============================================================================
