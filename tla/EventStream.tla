------------------------------ MODULE EventStream ------------------------------
(*****************************************************************************)
(* The stream of a research run, from the agents to the screen: what         *)
(* stream_research yields (agents/graph.py), the frames event_stream makes    *)
(* of it (endpoints/research.py), the bytes as reads deliver them, the frame  *)
(* buffer of streamResearch (client.ts) and the state of the console          *)
(* (research-console.tsx).                                                    *)
(*                                                                            *)
(* A frame is FrameLength cells of one event and two newlines; a read takes   *)
(* any number of the cells that are under way.  Events hold no newline:       *)
(* json.dumps escapes them.                                                   *)
(*****************************************************************************)
EXTENDS Integers, Sequences, SequencesExt, Selections

CONSTANTS
    MaxSteps,       \* bound: agents one run goes through
    MaxQuestions,   \* bound: questions asked one after the other
    FrameLength     \* into how many cells the text of a frame is cut

ASSUME StreamAssumption == {MaxSteps, MaxQuestions, FrameLength} \subseteq Nat \ {0}

VARIABLES
    run,       \* the server's side: state.steps, emitted and how far the run is
    wire,      \* cells sent and not read
    buffer,    \* cells read of which no frame has been made
    console    \* steps, result, isRunning and error of the component; questions asked

streamVars == <<run, wire, buffer, console>>

Newline == [event |-> "newline", number |-> 0, part |-> 0]

(* An event of the run and the frame it is sent as.                              *)
Event(kind, number) == [kind |-> kind, number |-> number]

(* The text of a frame, and two newlines behind it.                              *)
FrameCells == FrameLength + 2

Framed(e) ==
    [i \in 1 .. FrameCells |->
        IF i <= FrameLength THEN [event |-> e.kind, number |-> e.number, part |-> i] ELSE Newline]

(* The frames of some events, one behind the other.                              *)
FramedAll(events) ==
    [c \in 1 .. Len(events) * FrameCells |->
        Framed(events[((c - 1) \div FrameCells) + 1])[((c - 1) % FrameCells) + 1]]

-------------------------------------------------------------------------------
(* The server.                                                                   *)

(* Mutant: emitted keeps the value it started with.                              *)
NewSteps_All(steps, emitted) == [i \in 1 .. steps |-> Event("step", i)]

(* steps[emitted:] of a snapshot: the steps no event has been yielded for.       *)
NewSteps(steps, emitted) == [i \in 1 .. steps - emitted |-> Event("step", emitted + i)]

(* A snapshot of the graph: the initial state has no step, and every node that   *)
(* completes adds its own, whether it succeeded or not.                          *)
Snapshot ==
    /\ run.stage \in {"started", "running"}
    /\ LET steps == IF run.stage = "started" THEN 0 ELSE run.steps + 1
       IN  /\ steps <= MaxSteps
           /\ wire' = wire \o FramedAll(NewSteps(steps, run.emitted))
           /\ run' = [stage |-> "running", steps |-> steps, emitted |-> steps]
    /\ UNCHANGED <<buffer, console>>

(* The graph has ended: the result, the last frame, and the response is complete.*)
Complete ==
    /\ run.stage = "running"
    /\ wire' = wire \o FramedAll(<<Event("result", 0), Event("[DONE]", 0)>>)
    /\ run' = [run EXCEPT !.stage = "closed"]
    /\ UNCHANGED <<buffer, console>>

(* The run raises, or the connection is lost: the response stays incomplete, and *)
(* what is under way is lost from some point on.                                 *)
Break(kept) ==
    /\ run.stage \in {"started", "running", "closed"}
    /\ run.stage = "closed" => kept < Len(wire)
    /\ run' = [run EXCEPT !.stage = "broken"]
    /\ wire' = SubSeq(wire, 1, kept)
    /\ UNCHANGED <<buffer, console>>

-------------------------------------------------------------------------------
(* The browser.                                                                  *)

(* Where a text is split: the places before "\n\n".                              *)
Boundaries(cells) ==
    {i \in 1 .. Len(cells) - 1 : cells[i] = Newline /\ cells[i + 1] = Newline}

(* split("\n\n"): the pieces, the last of which has no boundary behind it.       *)
Pieces(cells) ==
    LET ends  == Ascending(Boundaries(cells))
        first(k) == IF k = 1 THEN 1 ELSE ends[k - 1] + 2
        last(k)  == IF k > Len(ends) THEN Len(cells) ELSE ends[k] - 1
    IN  [k \in 1 .. Len(ends) + 1 |-> SubSeq(cells, first(k), last(k))]

(* Mutant: the last piece is taken for a frame like the others.                  *)
Remaining_Nothing(cells) == <<>>

(* frames.pop(): the last piece waits for the rest of its frame.                 *)
Remaining(cells) == Last(Pieces(cells))

(* A frame that parses holds one whole event, and [DONE] is skipped; what does   *)
(* not parse is dropped without a word.                                          *)
Parses(frame) ==
    \E e \in {Event("result", 0)} \cup {Event("step", i) : i \in 1 .. MaxSteps} :
        frame = SubSeq(Framed(e), 1, FrameLength)

Parsed(cells) ==
    LET frames == Pieces(cells)
        valid  == Ascending({k \in 1 .. Len(frames) - 1 : Parses(frames[k])})
    IN  [i \in DOMAIN valid |->
            Event(Head(frames[valid[i]]).event, Head(frames[valid[i]]).number)]

StepsIn(events) ==
    LET steps == Ascending({i \in DOMAIN events : events[i].kind = "step"})
    IN  [i \in DOMAIN steps |-> events[steps[i]].number]

(* Mutant: the last answer stays on the screen.                                  *)
Cleared_KeepsResult ==
    [console EXCEPT !.isRunning = TRUE, !.steps = <<>>, !.error = FALSE, !.asked = @ + 1]

(* handleSubmit, up to its first await.                                          *)
Cleared ==
    [console EXCEPT !.isRunning = TRUE, !.steps = <<>>, !.result = FALSE, !.error = FALSE,
                    !.asked = @ + 1]

Submit ==
    /\ ~console.isRunning
    /\ console.asked < MaxQuestions
    /\ console' = Cleared
    /\ run' = [stage |-> "requested", steps |-> 0, emitted |-> 0]
    /\ wire' = <<>>
    /\ buffer' = <<>>

(* The response begins, or is an error.                                          *)
Respond ==
    /\ run.stage = "requested"
    /\ run' = [run EXCEPT !.stage = "started"]
    /\ UNCHANGED <<wire, buffer, console>>

Refuse ==
    /\ run.stage = "requested"
    /\ run' = [run EXCEPT !.stage = "none"]
    /\ console' = [console EXCEPT !.isRunning = FALSE, !.error = TRUE]
    /\ UNCHANGED <<wire, buffer>>

(* reader.read() gives n cells: every frame they complete is parsed and shown.   *)
Read(n) ==
    /\ console.isRunning
    /\ LET cells == buffer \o SubSeq(wire, 1, n)
           events == Parsed(cells)
       IN  /\ buffer' = Remaining(cells)
           /\ console' = [console EXCEPT
                !.steps = @ \o StepsIn(events),
                !.result = @ \/ \E i \in DOMAIN events : events[i].kind = "result"]
    /\ wire' = SubSeq(wire, n + 1, Len(wire))
    /\ UNCHANGED run

(* Mutant: a response that breaks off is taken for one that has ended.           *)
ReadBreak_AsEnd ==
    /\ console.isRunning /\ run.stage = "broken" /\ wire = <<>>
    /\ console' = [console EXCEPT !.isRunning = FALSE]
    /\ run' = [run EXCEPT !.stage = "none"]
    /\ UNCHANGED <<wire, buffer>>

(* reader.read() is done: the loop ends.                                         *)
ReadEnd ==
    /\ console.isRunning /\ run.stage = "closed" /\ wire = <<>>
    /\ console' = [console EXCEPT !.isRunning = FALSE]
    /\ run' = [run EXCEPT !.stage = "none"]
    /\ UNCHANGED <<wire, buffer>>

(* reader.read() rejects: the response was not complete.                         *)
ReadBreak ==
    /\ console.isRunning /\ run.stage = "broken" /\ wire = <<>>
    /\ console' = [console EXCEPT !.isRunning = FALSE, !.error = TRUE]
    /\ run' = [run EXCEPT !.stage = "none"]
    /\ UNCHANGED <<wire, buffer>>

-------------------------------------------------------------------------------

StreamInit ==
    /\ run = [stage |-> "none", steps |-> 0, emitted |-> 0]
    /\ wire = <<>>
    /\ buffer = <<>>
    /\ console = [steps |-> <<>>, result |-> FALSE, isRunning |-> FALSE, error |-> FALSE, asked |-> 0]

StreamNext ==
    \/ Submit
    \/ Respond
    \/ Refuse
    \/ Snapshot
    \/ Complete
    \/ \E kept \in 0 .. Len(wire) : Break(kept)
    \/ \E n \in 1 .. Len(wire) : Read(n)
    \/ ReadEnd
    \/ ReadBreak

StreamSpec == StreamInit /\ [][StreamNext]_streamVars

-------------------------------------------------------------------------------
(* However the bytes of a run are split over reads and wherever the response     *)
(* breaks off, the console shows the steps of the question it was asked last, in *)
(* their order, each once and none skipped; a result stands only below all the   *)
(* steps of its run; and a run that is over has shown its result or an error     *)
(* (graph.py:157-167, research.py:107-116, client.ts:286-316,                    *)
(* research-console.tsx:25-65).                                                  *)
StreamIsWhole ==
    /\ \A i \in DOMAIN console.steps : console.steps[i] = i
    /\ Len(console.steps) <= run.steps
    /\ console.result => Len(console.steps) = run.steps
    /\ console.asked > 0 /\ ~console.isRunning =>
          /\ console.result \/ console.error
          /\ ~console.error => Len(console.steps) = run.steps
    /\ console.isRunning => ~console.error

===============================================================================
