---------------------------- MODULE PaperLifecycle ----------------------------
(***************************************************************************)
(* What the API promises about one paper to a client that polls `status`,  *)
(* without workers, messages or retries: a pending paper is always seen    *)
(* processing before it settles, the status becomes ready in the very step *)
(* that replaces the paper's chunks by those of a newer parse, a failure   *)
(* leaves the chunks alone, and a deleted paper stays deleted with nothing *)
(* left to show.                                                           *)
(***************************************************************************)
EXTENDS Naturals

CONSTANT Paper

VARIABLES
    status,     \* "unborn", the four PaperStatus values, or "deleted"
    version,    \* how many parses were published
    shown       \* the versions whose chunks can be read: none, or the last

vars == <<status, version, shown>>

Init ==
    /\ status = [p \in Paper |-> "unborn"]
    /\ version = [p \in Paper |-> 0]
    /\ shown = [p \in Paper |-> {}]

Becomes(p, s) == status' = [status EXCEPT ![p] = s]

Create(p) ==
    /\ status[p] = "unborn" /\ Becomes(p, "pending")
    /\ UNCHANGED <<version, shown>>

Begin(p) ==
    /\ status[p] \notin {"unborn", "deleted"} /\ Becomes(p, "processing")
    /\ UNCHANGED <<version, shown>>

\* A second delivery of the same task may settle a paper that is settled already.
Fail(p) ==
    /\ status[p] \in {"processing", "ready", "failed"} /\ Becomes(p, "failed")
    /\ UNCHANGED <<version, shown>>

\* A parse that found no text shows nothing.
Publish(p) ==
    /\ status[p] \in {"processing", "ready", "failed"} /\ Becomes(p, "ready")
    /\ version' = [version EXCEPT ![p] = @ + 1]
    /\ \E s \in {{}, {version[p] + 1}} : shown' = [shown EXCEPT ![p] = s]

Remove(p) ==
    /\ status[p] \notin {"unborn", "deleted"} /\ Becomes(p, "deleted")
    /\ shown' = [shown EXCEPT ![p] = {}]
    /\ UNCHANGED version

Next == \E p \in Paper : Create(p) \/ Begin(p) \/ Fail(p) \/ Publish(p) \/ Remove(p)

Spec == Init /\ [][Next]_vars

===============================================================================
