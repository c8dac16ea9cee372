---- MODULE Preload ----
(***************************************************************************)
(* PredictiveEngine: one background thread for the whole program reads      *)
(* ahead while an engine waits for the model.  Its std::thread handle and   *)
(* its flag are used by every engine without a lock.                       *)
(*                                                                         *)
(* What it reads goes to a cache nobody looks into, and is left out.       *)
(***************************************************************************)
EXTENDS Integers, FiniteSets

CONSTANTS
    Engines,    \* threads running submitMessage
    MaxRuns     \* bound: threads started

VARIABLES
    preloading,     \* preloading_
    handle,         \* preloadThread_: 0, or the run it is joinable with
    running,        \* runs of runPreload that have not returned
    runs,           \* runs started so far
    pc,             \* where each engine is
    exited,         \* ~PredictiveEngine has run
    shared,         \* two engines were between Start and the end of a turn
    terminated      \* a joinable handle was overwritten or destroyed, or
                    \* joined twice: std::terminate or undefined behaviour

vars == <<preloading, handle, running, runs, pc, exited, shared, terminated>>

Init ==
    /\ preloading = FALSE /\ handle = 0 /\ running = {} /\ runs = 0
    /\ pc = [e \in Engines |-> "idle"]
    /\ exited = FALSE /\ shared = FALSE /\ terminated = FALSE

\* startPreloading returns at once if the flag is up.
MayStart == ~preloading

\* submitMessage calls startPreloading before it asks the model.
Start(e) ==
    /\ pc[e] = "idle" /\ ~exited
    /\ pc' = [pc EXCEPT ![e] = IF MayStart THEN "starting" ELSE "asking"]
    /\ shared' = (shared \/ \E other \in Engines \ {e} : pc[other] # "idle")
    /\ UNCHANGED <<preloading, handle, running, runs, exited, terminated>>

\* preloading_ = true; preloadThread_ = std::thread(...).
Assign(e) ==
    /\ pc[e] = "starting" /\ runs < MaxRuns
    /\ preloading' = TRUE
    /\ runs' = runs + 1
    /\ handle' = runs + 1
    /\ running' = running \cup {runs + 1}
    /\ terminated' = (terminated \/ handle # 0)
    /\ pc' = [pc EXCEPT ![e] = "asking"]
    /\ UNCHANGED <<exited, shared>>

\* The request failed: the turn is left without stopPreloading.
RequestFails(e) ==
    /\ pc[e] = "asking"
    /\ pc' = [pc EXCEPT ![e] = "idle"]
    /\ UNCHANGED <<preloading, handle, running, runs, exited, shared, terminated>>

\* stopPreloading, after a reply.
Stop(e) ==
    /\ pc[e] = "asking"
    /\ preloading' = FALSE
    /\ pc' = [pc EXCEPT ![e] = "stopping"]
    /\ UNCHANGED <<handle, running, runs, exited, shared, terminated>>

\* if (preloadThread_.joinable()) preloadThread_.join();
Join(e) ==
    /\ pc[e] = "stopping"
    /\ pc' = [pc EXCEPT ![e] = IF handle = 0 THEN "idle" ELSE "joining"]
    /\ UNCHANGED <<preloading, handle, running, runs, exited, shared, terminated>>

Joined(e) ==
    /\ pc[e] = "joining" /\ handle \notin running
    /\ terminated' = (terminated \/ handle = 0)
    /\ handle' = 0
    /\ pc' = [pc EXCEPT ![e] = "idle"]
    /\ UNCHANGED <<preloading, running, runs, exited, shared>>

\* runPreload returns: it has read enough, or it sees the flag down.
RunEnds ==
    /\ \E r \in running : running' = running \ {r}
    /\ UNCHANGED <<preloading, handle, runs, pc, exited, shared, terminated>>

NotJoined == handle

\* ~PredictiveEngine joins what is still joinable.
AtExit == 0

\* The program ends when no conversation runs.
Exit ==
    /\ ~exited /\ \A e \in Engines : pc[e] = "idle"
    /\ exited' = TRUE /\ preloading' = FALSE
    /\ handle' = AtExit
    /\ terminated' = (terminated \/ AtExit # 0)
    /\ running' = running \ {handle}
    /\ UNCHANGED <<runs, pc, shared>>

Next ==
    \/ \E e \in Engines : Start(e) \/ Assign(e) \/ RequestFails(e) \/ Stop(e) \/ Join(e) \/ Joined(e)
    \/ RunEnds \/ Exit

Spec == Init /\ [][Next]_vars

---------------------------------------------------------------------------
\* The thread handle is never overwritten, destroyed or joined in a state that
\* ends the program, whichever turns fail and whenever the thread returns, as
\* long as no turn of another engine overlaps.  (Two engines, as a sub-agent and
\* its parent are, may both find the flag down and both assign the handle.)
NeverTerminates == ~shared => ~terminated
====
