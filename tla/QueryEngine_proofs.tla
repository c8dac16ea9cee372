------------------------- MODULE QueryEngine_proofs -------------------------
(***************************************************************************)
(* What holds of the turn loop for every set of tools, every filter and  *)
(* every bound: which gates a tool passes before it runs, what may still *)
(* begin once the engine is interrupted, which results the history holds *)
(* and what of it is on disk, over crashes and restarts, what failures   *)
(* cost of it, and that every variable keeps its type.                   *)
(***************************************************************************)
EXTENDS QueryEngine, Lists_proofs, SequenceTheorems, TLAPS

Serving == {"serve", "run", "serve text", "run text", "collect"}

(* The types the control of the loop rests on, and how the stages of the *)
(* calls follow the program counter.                                     *)
ControlInv ==
  /\ interrupted \in BOOLEAN /\ pc \in Phases
  /\ calls \in Seq(Call) /\ parsed \in Seq(Parsed)
  /\ nextId \in Nat /\ turnCount \in Nat
  /\ stage \in [DOMAIN stage -> Stages]
  /\ pc = "stream" => DOMAIN stage = {}
  /\ pc = "parse" => parsed # <<>> /\ DOMAIN stage = {}
  /\ pc \in Serving => DOMAIN stage = DOMAIN calls

(* A call leaves the engine's thread only if its tool is safe there.     *)
Threaded == {"queued", "launched", "looked", "running", "finished"}
ThreadsAreSafe ==
  \A i \in DOMAIN stage :
    stage[i] \in Threaded => i \in DOMAIN calls /\ calls[i].tool \in ConcurrencySafe

GateInv == ControlInv /\ ThreadsAreSafe /\ UnsafeToolsAreGated

(* The engine's thread has a call at its gates, or will take one to them *)
(* without a look at interrupted_.                                       *)
MayStart ==
  \/ pc \in {"stream", "parse"}
  \/ \E i \in DOMAIN stage : stage[i] = "gated"
  \/ Len(calls) = 1 /\ \E i \in DOMAIN stage : stage[i] = "serial"

(* The threads of a batch run once the engine's thread has served its own*)
(* calls, which it serves one at a time.                                 *)
Running == {"launched", "looked", "running", "finished"}
TurnsAreTaken ==
  /\ \A i, j \in DOMAIN stage :
       stage[i] \in Running => stage[j] \notin {"serial", "gated", "executing"}
  /\ \A i, j \in DOMAIN stage :
       stage[i] \in {"gated", "executing"} /\ stage[j] \in {"gated", "executing"} => i = j
  /\ \A i \in DOMAIN stage : stage[i] \in {"gated", "executing"} => pc \in {"run", "run text"}
  /\ \A i \in DOMAIN stage : stage[i] = "serial" => pc \in Serving \ {"collect"}
  /\ \A i \in DOMAIN stage : stage[i] \in Running => pc \in {"serve", "collect"}

(* What begins after an interrupt: threads past their look at it, or one *)
(* call, which is then the last that can begin.                          *)
LateBound ==
  /\ ~interrupted => late = {}
  /\ late \subseteq past \/ \A c, d \in late : c = d
  /\ MayStart => late = {}
  /\ interrupted => \A i \in DOMAIN stage : stage[i] = "looked" => calls[i] \in past
  /\ \A i \in DOMAIN stage : stage[i] = "looked" => late \subseteq past

LateInv == ControlInv /\ TurnsAreTaken /\ LateBound

(* The empty and the one-element tuple, as sequences and as functions.   *)
LEMMA EmptyTuple ==
  ASSUME NEW S
  PROVE  <<>> \in Seq(S) /\ DOMAIN <<>> = {} /\ <<>> \in [{} -> S]
<1>1. DOMAIN <<>> = {}
  OBVIOUS
<1>q. QED
  BY <1>1

(* The stages of a reply whose only call was parsed from its text.       *)
LEMMA OneTuple ==
  ASSUME NEW S, NEW e \in S
  PROVE  /\ <<e>> \in Seq(S) /\ DOMAIN <<e>> = {1} /\ Len(<<e>>) = 1
         /\ <<e>>[1] = e /\ <<e>> \in [{1} -> S]
<1>1. DOMAIN <<e>> = {1} /\ <<e>>[1] = e
  OBVIOUS
<1>q. QED
  BY <1>1

(* A sequence of at least one element has its first one.                 *)
LEMMA FirstElement ==
  ASSUME NEW S, NEW s \in Seq(S), s # <<>>
  PROVE  s[1] \in S
<1>1. Len(s) \in Nat \ {0}
  BY EmptySeq
<1>q. QED
  BY <1>1

(* An engine just constructed has well-formed control state.             *)
LEMMA InitControl == Init => ControlInv
<1>1. SUFFICES ASSUME interrupted = FALSE, pc = "idle", turnCount = 0, nextId = 0,
                      calls = <<>>, parsed = <<>>, stage = <<>>
               PROVE  ControlInv
  BY Zenon DEF Init
<1>2. /\ calls \in Seq(Call) /\ parsed \in Seq(Parsed)
      /\ stage \in [DOMAIN stage -> Stages]
  BY <1>1, EmptyTuple
<1>q. QED
  BY <1>1, <1>2 DEF ControlInv, Phases, Serving

(* Every step of the loop keeps the control types.                       *)
LEMMA ControlStep ==
  ASSUME ControlInv, [Next]_vars
  PROVE  ControlInv'
<1> USE DEF ControlInv, Phases, Serving, Stages, history, recovery, reply, world, executed
<1>0. CASE UNCHANGED vars
  BY <1>0 DEF vars
<1>1. CASE Submit
  BY <1>1 DEF Submit
<1>2. CASE Complete
  BY <1>2 DEF Complete
<1>3. CASE LoopExit
  BY <1>3 DEF LoopExit
<1>4. CASE BudgetExceeded
  BY <1>4 DEF BudgetExceeded
<1>5. CASE BeginTurn
  BY <1>5 DEF BeginTurn
<1>6. CASE StreamText
  <2>1. parsed' \in Seq(Parsed)
    <3>1. PICK formatted \in TextFormats :
            IF formatted THEN \E p \in Parsed : parsed' = <<p>> ELSE parsed' = <<>>
      BY <1>6 DEF StreamText
    <3>2. CASE formatted
      <4>1. PICK p \in Parsed : parsed' = <<p>>
        BY <3>1, <3>2
      <4>q. QED
        BY <4>1, OneTuple
    <3>3. CASE ~formatted
      BY <3>1, <3>3, EmptyTuple
    <3>q. QED
      BY <3>2, <3>3
  <2>q. QED
    BY <2>1, <1>6 DEF StreamText
<1>7. CASE StreamToolUse
  BY <1>7 DEF StreamToolUse, Call, Ids
<1>8. CASE ApiTooLong
  BY <1>8 DEF ApiTooLong, TrimAndRetry
<1>9. CASE ApiOverloaded
  BY <1>9 DEF ApiOverloaded
<1>10. CASE ApiFails
  BY <1>10 DEF ApiFails
<1>11. CASE RetryAfterMaxTokens
  BY <1>11 DEF RetryAfterMaxTokens
<1>12. CASE AddAssistant
  BY <1>12 DEF AddAssistant, Partitioned, Serially
<1>13. CASE AbandonSerial
  BY <1>13 DEF AbandonSerial, Skips, Drop
<1>14. ASSUME NEW i, StartTool(i) PROVE ControlInv'
  BY <1>14 DEF StartTool, At, To
<1>15. ASSUME NEW i, RefuseTool(i) PROVE ControlInv'
  BY <1>15 DEF RefuseTool, At, To, Returns
<1>16. ASSUME NEW i, FinishTool(i) PROVE ControlInv'
  BY <1>16 DEF FinishTool, At, To, Returns
<1>29. ASSUME NEW i, ProcessToolUse(i) PROVE ControlInv'
  BY <1>29 DEF ProcessToolUse, First, At, To
<1>17. ASSUME NEW i, LaunchWorker(i) PROVE ControlInv'
  BY <1>17 DEF LaunchWorker, First, At, To
<1>18. CASE LaunchesOver
  BY <1>18 DEF LaunchesOver, Drop
<1>19. ASSUME NEW i, Collect(i) PROVE ControlInv'
  BY <1>19 DEF Collect, At, To
<1>20. CASE Summarise
  <2>1. turnCount' = turnCount + 1
    BY <1>20 DEF Summarise
  <2>2. pc' \in {"done", "idle"}
    BY Zenon, <1>20 DEF Summarise
  <2>3. /\ interrupted' = interrupted /\ calls' = calls /\ parsed' = parsed
        /\ nextId' = nextId /\ stage' = stage
    BY <1>20 DEF Summarise
  <2>4. turnCount \in Nat
    OBVIOUS
  <2>5. turnCount' \in Nat
    BY ONLY <2>1, <2>4
  <2>q. QED
    BY <2>2, <2>3, <2>5
<1>21. CASE DetectLoop
  BY <1>21 DEF DetectLoop, Collected, AfterDetection
<1>22. CASE ParseText
  <2>1. parsed[1] \in Parsed
    BY FirstElement, <1>22 DEF ParseText
  <2>2. TextCall \in Call
    BY <2>1 DEF TextCall, Call, Parsed, Ids
  <2>3. calls' \in Seq(Call) /\ DOMAIN calls' = {1}
    BY <2>2, OneTuple, <1>22 DEF ParseText
  <2>4. stage' \in [DOMAIN stage' -> Stages] /\ DOMAIN stage' = {1}
    BY OneTuple, <1>22 DEF ParseText
  <2>q. QED
    BY <2>3, <2>4, <1>22 DEF ParseText
<1>23. CASE DetectTextLoop
  BY <1>23 DEF DetectTextLoop, AfterDetection
<1>24. ASSUME NEW i, WorkerStarts(i) PROVE ControlInv'
  <2>1. i \in DOMAIN stage /\ pc # "stream" /\ pc # "parse"
    BY <1>24 DEF WorkerStarts, At
  <2>2. stage' \in [DOMAIN stage -> Stages] /\ DOMAIN stage' = DOMAIN stage
    BY <1>24 DEF WorkerStarts, To
  <2>q. QED
    BY <2>1, <2>2, <1>24 DEF WorkerStarts
<1>30. ASSUME NEW i, WorkerLooks(i) PROVE ControlInv'
  <2>1. i \in DOMAIN stage /\ pc # "stream" /\ pc # "parse"
    BY <1>30 DEF WorkerLooks, At
  <2>2. stage' \in [DOMAIN stage -> Stages] /\ DOMAIN stage' = DOMAIN stage
    BY <1>30 DEF WorkerLooks, To
  <2>q. QED
    BY <2>1, <2>2, <1>30 DEF WorkerLooks
<1>25. ASSUME NEW i, WorkerFinishes(i) PROVE ControlInv'
  <2>1. i \in DOMAIN stage /\ pc # "stream" /\ pc # "parse"
    BY <1>25 DEF WorkerFinishes, At
  <2>2. stage' \in [DOMAIN stage -> Stages] /\ DOMAIN stage' = DOMAIN stage
    BY <1>25 DEF WorkerFinishes, To
  <2>q. QED
    BY <2>1, <2>2, <1>25 DEF WorkerFinishes
<1>26. CASE Interrupt \/ SwitchModel
  BY <1>26 DEF Interrupt, SwitchModel
<1>27. CASE Crash
  <2>1. calls' \in Seq(Call) /\ parsed' \in Seq(Parsed) /\ DOMAIN stage' = {}
    BY EmptyTuple, <1>27 DEF Crash
  <2>2. stage' \in [DOMAIN stage' -> Stages]
    BY <2>1, EmptyTuple, <1>27 DEF Crash
  <2>q. QED
    BY <2>1, <2>2, <1>27 DEF Crash
<1>28. CASE Resume
  BY <1>28 DEF Resume
<1>q. QED
  BY <1>0, <1>1, <1>2, <1>3, <1>4, <1>5, <1>6, <1>7, <1>8, <1>9, <1>10, <1>11, <1>12, <1>13,
     <1>14, <1>15, <1>16, <1>17, <1>18, <1>19, <1>20, <1>21, <1>22, <1>23, <1>24, <1>25,
     <1>26, <1>27, <1>28, <1>29, <1>30
  DEF Next, Engine, Turn, Stream, StreamEnds, ServeTool, ServeBatch, Decide, Worker,
      Quiet, vars

(* Every step keeps what the gates rest on.                              *)
LEMMA GateStep ==
  ASSUME GateInv, [Next]_vars
  PROVE  ThreadsAreSafe' /\ UnsafeToolsAreGated'
<1> USE DEF GateInv, ThreadsAreSafe, Threaded, UnsafeToolsAreGated,
            history, recovery, reply, world, executed
<1>1. SUFFICES ASSUME ~UNCHANGED <<stage, calls, ran>>
               PROVE  ThreadsAreSafe' /\ UnsafeToolsAreGated'
  OBVIOUS
<1>2. CASE UNCHANGED vars
  BY <1>1, <1>2 DEF vars
<1>3. CASE Submit \/ Complete \/ LoopExit \/ BudgetExceeded \/ StreamText
  BY <1>1, <1>3, Zenon DEF Submit, Complete, LoopExit, BudgetExceeded, StreamText
<1>4. CASE ApiTooLong \/ ApiOverloaded \/ ApiFails \/ RetryAfterMaxTokens
  BY <1>1, <1>4, Zenon DEF ApiTooLong, ApiOverloaded, ApiFails, RetryAfterMaxTokens
<1>5. CASE Summarise \/ DetectLoop \/ DetectTextLoop
  BY <1>1, <1>5, Zenon DEF Summarise, DetectLoop, DetectTextLoop
<1>6. CASE Interrupt \/ SwitchModel \/ Resume
  BY <1>1, <1>6, Zenon DEF Interrupt, SwitchModel, Resume
<1>7. CASE BeginTurn
  BY <1>7, EmptyTuple DEF BeginTurn
<1>8. CASE StreamToolUse
  BY <1>8 DEF StreamToolUse, ControlInv
<1>9. CASE AddAssistant
  BY <1>9 DEF AddAssistant, Partitioned, Serially, ControlInv
<1>10. CASE AbandonSerial \/ LaunchesOver
  BY <1>10 DEF AbandonSerial, LaunchesOver, Drop
<1>11. ASSUME NEW i, StartTool(i)
       PROVE  ThreadsAreSafe' /\ UnsafeToolsAreGated'
  <2>1. ThreadsAreSafe'
    BY <1>11 DEF StartTool, To
  <2>2. /\ AllowSubagents \/ calls[i].tool # AgentTool
        /\ AllowedTools = {} \/ calls[i].tool \in AllowedTools
        /\ calls[i].tool \in Registered \ McpTools => calls[i].tool \notin Refused
    BY <1>11, ToolsAssumption DEF StartTool, Admitted, Nested, Filtered
  <2>3. ran' = ran \cup {calls[i]}
    BY <1>11 DEF StartTool, Began
  <2>q. QED
    BY <2>1, <2>2, <2>3
<1>12. ASSUME NEW i, ProcessToolUse(i) \/ RefuseTool(i) \/ FinishTool(i) \/ Collect(i)
       PROVE  ThreadsAreSafe' /\ UnsafeToolsAreGated'
  BY <1>12 DEF ProcessToolUse, RefuseTool, FinishTool, Collect, To
<1>13. ASSUME NEW i, LaunchWorker(i) \/ WorkerLooks(i) \/ WorkerFinishes(i)
       PROVE  ThreadsAreSafe' /\ UnsafeToolsAreGated'
  BY <1>13 DEF LaunchWorker, WorkerLooks, WorkerFinishes, To, At, First
<1>14. ASSUME NEW i, WorkerStarts(i)
       PROVE  ThreadsAreSafe' /\ UnsafeToolsAreGated'
  <2>1. calls[i].tool \in ConcurrencySafe
    BY <1>14 DEF WorkerStarts, At
  <2>2. ThreadsAreSafe'
    BY <1>14 DEF WorkerStarts, At, To
  <2>3. ran' = ran \/ ran' = ran \cup {calls[i]}
    BY <1>14 DEF WorkerStarts, Began
  <2>q. QED
    BY <2>1, <2>2, <2>3
<1>15. CASE ParseText
  <2>1. stage' = <<"serial">> /\ ran' = ran
    BY <1>15, Zenon DEF ParseText
  <2>2. \A i \in DOMAIN stage' : stage'[i] = "serial"
    BY <2>1
  <2>q. QED
    BY <2>1, <2>2
<1>16. CASE Crash
  BY <1>16, EmptyTuple DEF Crash
<1>q. QED
  BY <1>2, <1>3, <1>4, <1>5, <1>6, <1>7, <1>8, <1>9, <1>10, <1>11, <1>12, <1>13,
     <1>14, <1>15, <1>16
  DEF Next, Engine, Turn, Stream, StreamEnds, ServeTool, ServeBatch, Decide, Worker,
      Quiet, vars

LEMMA SerialTuple == DOMAIN <<"serial">> = {1} /\ <<"serial">>[1] = "serial"
  OBVIOUS

(* Every step keeps the order in which the calls of a batch are served.  *)
LEMMA TurnsStep ==
  ASSUME ControlInv, TurnsAreTaken, [Next]_vars
  PROVE  TurnsAreTaken'
<1> USE DEF TurnsAreTaken, Running, Serving, history, recovery, reply, world, executed
<1>e. ASSUME NEW i \in DOMAIN stage, NEW s, stage' = [stage EXCEPT ![i] = s]
      PROVE  /\ DOMAIN stage' = DOMAIN stage /\ stage'[i] = s
             /\ \A j \in DOMAIN stage : j = i \/ stage'[j] = stage[j]
  BY ONLY <1>e
<1>1. CASE UNCHANGED vars
  BY <1>1, Zenon DEF vars
<1>2. CASE Submit \/ Complete \/ LoopExit \/ BudgetExceeded
  BY <1>2 DEF Submit, Complete, LoopExit, BudgetExceeded
<1>3. CASE BeginTurn
  BY <1>3, EmptyTuple DEF BeginTurn
<1>4. CASE StreamText \/ StreamToolUse
  BY <1>4 DEF StreamText, StreamToolUse
<1>5. CASE ApiTooLong \/ ApiOverloaded \/ ApiFails \/ RetryAfterMaxTokens
  BY <1>5 DEF ApiTooLong, ApiOverloaded, ApiFails, RetryAfterMaxTokens, ControlInv
<1>6. CASE AddAssistant
  BY <1>6 DEF AddAssistant, Partitioned, ControlInv
<1>7. CASE AbandonSerial
  BY <1>7 DEF AbandonSerial, Drop
<1>8. ASSUME NEW i, ProcessToolUse(i) PROVE TurnsAreTaken'
  <2>1. /\ i \in DOMAIN stage /\ stage[i] = "serial" /\ stage' = [stage EXCEPT ![i] = "gated"]
        /\ pc \in {"serve", "serve text"}
        /\ pc' = IF pc = "serve" THEN "run" ELSE "run text"
    BY <1>8, Zenon DEF ProcessToolUse, First, At, To
  <2>2. /\ pc' \in {"run", "run text"} /\ pc \notin {"run", "run text"}
        /\ i \in DOMAIN stage /\ stage[i] = "serial"
    BY <2>1
  <2>3. /\ DOMAIN stage' = DOMAIN stage /\ stage'[i] = "gated"
        /\ \A j \in DOMAIN stage : j = i \/ stage'[j] = stage[j]
    BY <1>e, <2>1, Zenon
  <2>q. QED
    BY <2>2, <2>3
<1>9. ASSUME NEW i, StartTool(i) PROVE TurnsAreTaken'
  <2>1. /\ i \in DOMAIN stage /\ stage[i] = "gated" /\ stage' = [stage EXCEPT ![i] = "executing"]
        /\ pc' = pc
    BY <1>9, Zenon DEF StartTool, At, To
  <2>2. /\ DOMAIN stage' = DOMAIN stage /\ stage'[i] = "executing"
        /\ \A j \in DOMAIN stage : j = i \/ stage'[j] = stage[j]
    BY <1>e, <2>1, Zenon
  <2>3. i \in DOMAIN stage /\ stage[i] = "gated" /\ pc' = pc
    BY <2>1
  <2>q. QED
    BY <2>2, <2>3
<1>10. ASSUME NEW i, RefuseTool(i) \/ FinishTool(i) PROVE TurnsAreTaken'
  <2>1. /\ i \in DOMAIN stage /\ (stage[i] = "gated" \/ stage[i] = "executing")
        /\ stage' = [stage EXCEPT ![i] = "answered"] /\ Returns
    BY <1>10, Zenon DEF RefuseTool, FinishTool, At, To
  <2>2. pc' \in {"serve", "serve text"}
    BY <2>1 DEF Returns
  <2>3. \A j \in DOMAIN stage : stage[j] \in {"gated", "executing"} => j = i
    BY <2>1
  <2>4. /\ DOMAIN stage' = DOMAIN stage /\ stage'[i] = "answered"
        /\ \A j \in DOMAIN stage : j = i \/ stage'[j] = stage[j]
    BY <1>e, <2>1, Zenon
  <2>q. QED
    BY <2>1, <2>2, <2>3, <2>4
<1>11. ASSUME NEW i, LaunchWorker(i) PROVE TurnsAreTaken'
  BY <1>11 DEF LaunchWorker, First, At, To, None
<1>12. CASE LaunchesOver
  BY <1>12 DEF LaunchesOver, Drop, None
<1>13. ASSUME NEW i, Collect(i) PROVE TurnsAreTaken'
  BY <1>13 DEF Collect, At, To
<1>14. CASE Summarise \/ DetectLoop
  <2>1. pc = "collect" /\ stage' = stage /\ \A i \in DOMAIN stage : ~OnThread(i)
    BY <1>14, Zenon DEF Summarise, DetectLoop, Collected
  <2>2. \A i \in DOMAIN stage : stage[i] \notin {"serial", "gated", "executing"} \cup Running
    BY <2>1 DEF OnThread, At
  <2>q. QED
    BY <2>1, <2>2
<1>15. CASE DetectTextLoop
  <2>1. pc = "serve text" /\ stage' = stage /\ None("serial")
    BY <1>15, Zenon DEF DetectTextLoop
  <2>2. \A i \in DOMAIN stage : stage[i] \notin {"serial", "gated", "executing"}
    BY <2>1 DEF None
  <2>3. \A i \in DOMAIN stage : stage[i] \notin Running
    BY <2>1
  <2>q. QED
    BY <2>1, <2>2, <2>3
<1>16. CASE ParseText
  <2>1. \A i \in DOMAIN stage' : i = 1 /\ stage'[i] = "serial"
    <3>1. stage' = <<"serial">>
      BY <1>16, Zenon DEF ParseText
    <3>q. QED
      BY <3>1, SerialTuple, Zenon
  <2>2. pc' = "serve text"
    BY <1>16 DEF ParseText
  <2>q. QED
    BY <2>1, <2>2
<1>17. ASSUME NEW i, WorkerLooks(i) \/ WorkerStarts(i) \/ WorkerFinishes(i)
       PROVE  TurnsAreTaken'
  <2>1. /\ i \in DOMAIN stage /\ pc' = pc
        /\ stage[i] = "launched" \/ stage[i] = "looked" \/ stage[i] = "running"
    BY <1>17, Zenon DEF WorkerLooks, WorkerStarts, WorkerFinishes, At
  <2>2. PICK s : s \in Running /\ stage' = [stage EXCEPT ![i] = s]
    <3>1. \/ stage' = [stage EXCEPT ![i] = IF interrupted THEN "finished" ELSE "looked"]
          \/ stage' = [stage EXCEPT ![i] = "running"]
          \/ stage' = [stage EXCEPT ![i] = "finished"]
      BY <1>17, Zenon DEF WorkerLooks, WorkerStarts, WorkerFinishes, To
    <3>q. QED
      BY <3>1
  <2>3. stage[i] \in Running
    BY <2>1
  <2>4. /\ DOMAIN stage' = DOMAIN stage /\ stage'[i] = s
        /\ \A j \in DOMAIN stage : j = i \/ stage'[j] = stage[j]
    BY <1>e, <2>1, <2>2, Zenon
  <2>5. i \in DOMAIN stage /\ pc' = pc /\ s \in Running
    BY <2>1, <2>2, Zenon
  <2>q. QED
    BY <2>3, <2>4, <2>5
<1>18. CASE Interrupt \/ SwitchModel
  BY <1>18 DEF Interrupt, SwitchModel
<1>19. CASE Crash
  BY <1>19, EmptyTuple DEF Crash
<1>20. CASE Resume
  BY <1>20 DEF Resume
<1>q. QED
  BY <1>1, <1>2, <1>3, <1>4, <1>5, <1>6, <1>7, <1>8, <1>9, <1>10, <1>11, <1>12, <1>13,
     <1>14, <1>15, <1>16, <1>17, <1>18, <1>19, <1>20
  DEF Next, Engine, Turn, Stream, StreamEnds, ServeTool, ServeBatch, Decide, Worker,
      Quiet, vars

(* A reply's only call is the only one with a stage.                     *)
LEMMA OnlyCall ==
  ASSUME ControlInv, pc \in Serving, Len(calls) = 1, NEW i \in DOMAIN stage
  PROVE  DOMAIN stage = {i}
<1>1. calls \in Seq(Call) /\ DOMAIN stage = DOMAIN calls
  BY Zenon DEF ControlInv
<1>2. DOMAIN calls = 1..1
  BY ONLY <1>1, Len(calls) = 1
<1>q. QED
  BY <1>1, <1>2

(* Every step keeps what bounds the late starts.                         *)
LEMMA LateStep ==
  ASSUME LateInv, [Next]_vars
  PROVE  LateBound'
<1>k. ASSUME interrupted' = interrupted, calls' = calls, late' = late, past' = past,
             late = {} \/ ~MayStart',
             \A j \in DOMAIN stage' : stage'[j] = "looked" => j \in DOMAIN stage /\ stage[j] = "looked"
      PROVE  LateBound'
  <2>1. late' \subseteq past' \/ \A c, d \in late' : c = d
    BY <1>k DEF LateInv, LateBound
  <2>2. (~interrupted => late = {})' /\ (MayStart' => late' = {})
    BY <1>k DEF LateInv, LateBound
  <2>3. interrupted' => \A i \in DOMAIN stage' : stage'[i] = "looked" => calls'[i] \in past'
    BY <1>k DEF LateInv, LateBound
  <2>4. \A i \in DOMAIN stage' : stage'[i] = "looked" => late' \subseteq past'
    BY <1>k DEF LateInv, LateBound
  <2>q. QED
    BY <2>1, <2>2, <2>3, <2>4, Zenon DEF LateBound
<1> USE DEF LateInv, LateBound, MayStart, history, recovery, reply, world, executed
<1>1. CASE UNCHANGED vars
  BY <1>1, Zenon DEF vars
<1>2. CASE Submit
  BY <1>2 DEF Submit
<1>3. CASE Complete \/ LoopExit \/ BudgetExceeded
  BY <1>3 DEF Complete, LoopExit, BudgetExceeded
<1>4. CASE BeginTurn
  BY <1>4, EmptyTuple DEF BeginTurn
<1>5. CASE StreamText \/ StreamToolUse
  BY <1>5 DEF StreamText, StreamToolUse, ControlInv
<1>6. CASE ApiTooLong \/ ApiOverloaded \/ ApiFails \/ RetryAfterMaxTokens
  BY <1>6 DEF ApiTooLong, ApiOverloaded, ApiFails, RetryAfterMaxTokens, ControlInv
<1>7. CASE AddAssistant
  BY <1>7 DEF AddAssistant, Partitioned, ControlInv
<1>8. CASE AbandonSerial
  BY <1>8 DEF AbandonSerial, Drop
<1>9. ASSUME NEW i, ProcessToolUse(i) PROVE LateBound'
  <2>1. late = {}
    <3>1. ~Skips
      BY <1>9, Zenon DEF ProcessToolUse
    <3>2. i \in DOMAIN stage /\ stage[i] = "serial" /\ pc \in {"serve", "serve text"}
      BY <1>9, Zenon DEF ProcessToolUse, First, At
    <3>3. DOMAIN stage = DOMAIN calls /\ calls \in Seq(Call)
      BY <3>2 DEF ControlInv, Serving
    <3>4. Len(calls) \in Nat \ {0}
      <4>1. i \in DOMAIN calls /\ calls \in Seq(Call)
        BY <3>2, <3>3, Zenon
      <4>2. calls # <<>>
        BY <4>1, EmptyTuple, Zenon
      <4>q. QED
        BY <4>1, <4>2, EmptySeq
    <3>5. Len(calls) = 1 \/ ~interrupted
      <4> DEFINE n == Len(calls)
      <4> HIDE DEF n
      <4>0. n \in Nat \ {0}
        BY <3>4 DEF n
      <4>1. ~(n > 1) => n = 1
        BY ONLY <4>0
      <4> USE DEF n
      <4>q. QED
        BY <3>1, <4>1, Zenon DEF Skips
    <3>q. QED
      BY <3>2, <3>5
  <2>2. /\ i \in DOMAIN stage /\ stage' = [stage EXCEPT ![i] = "gated"]
        /\ UNCHANGED <<interrupted, calls, late, past>>
    BY <1>9, Zenon DEF ProcessToolUse, First, At, To
  <2>3. \A j \in DOMAIN stage' : stage'[j] = "looked" => j \in DOMAIN stage /\ stage[j] = "looked"
    BY ONLY <2>2
  <2>4. interrupted' = interrupted /\ calls' = calls /\ late' = late /\ past' = past
    BY <2>2, Zenon
  <2> HIDE DEF LateInv, LateBound, MayStart
  <2>q. QED
    BY <1>k, <2>1, <2>3, <2>4
<1>10. ASSUME NEW i, StartTool(i) PROVE LateBound'
  <2>1. late = {} /\ i \in DOMAIN stage /\ stage[i] = "gated"
    BY <1>10, Zenon DEF StartTool, At
  <2>2. /\ stage' = [stage EXCEPT ![i] = "executing"] /\ pc' = pc /\ pc \in {"run", "run text"}
        /\ interrupted' = interrupted /\ calls' = calls /\ past' = past
        /\ late' = IF interrupted THEN late \cup {calls[i]} ELSE late
    BY <1>10, Zenon DEF StartTool, To, Began
  <2>3. /\ DOMAIN stage' = DOMAIN stage /\ stage'[i] = "executing"
        /\ \A j \in DOMAIN stage : j = i \/ stage'[j] = stage[j]
    BY ONLY <2>1, <2>2
  <2>4. \A j \in DOMAIN stage : /\ stage[j] = "gated" => j = i
                               /\ stage[j] # "looked"
    BY <2>1 DEF TurnsAreTaken, Running
  <2>5. Len(calls) = 1 => DOMAIN stage = {i}
    BY <2>1, <2>2, OnlyCall DEF Serving
  <2>6. \A j \in DOMAIN stage' : stage'[j] # "gated" /\ stage'[j] # "looked"
    BY <2>3, <2>4
  <2>7. Len(calls') = 1 => \A j \in DOMAIN stage' : stage'[j] # "serial"
    BY <2>2, <2>3, <2>5
  <2>8. ~MayStart'
    BY <2>2, <2>6, <2>7
  <2>9. late' \in {{}, {calls[i]}} /\ (~interrupted => late' = {})
    BY <2>1, <2>2
  <2>10. interrupted' = interrupted
    BY <2>2
  <2> HIDE DEF MayStart
  <2>q. QED
    BY <2>6, <2>8, <2>9, <2>10
<1>11. ASSUME NEW i, RefuseTool(i) PROVE LateBound'
  <2>1. late = {}
    BY <1>11, Zenon DEF RefuseTool, At
  <2>2. /\ i \in DOMAIN stage /\ stage' = [stage EXCEPT ![i] = "answered"]
        /\ UNCHANGED <<interrupted, calls, late, past>>
    BY <1>11, Zenon DEF RefuseTool, At, To
  <2>3. \A j \in DOMAIN stage' : stage'[j] = "looked" => j \in DOMAIN stage /\ stage[j] = "looked"
    BY ONLY <2>2
  <2>4. interrupted' = interrupted /\ calls' = calls /\ late' = late /\ past' = past
    BY <2>2, Zenon
  <2> HIDE DEF LateInv, LateBound, MayStart
  <2>q. QED
    BY <1>k, <2>1, <2>3, <2>4
<1>12. ASSUME NEW i, FinishTool(i) PROVE LateBound'
  <2>1. /\ i \in DOMAIN stage /\ stage[i] = "executing" /\ pc \in {"run", "run text"}
        /\ stage' = [stage EXCEPT ![i] = "answered"] /\ Returns
        /\ UNCHANGED <<interrupted, calls, late, past>>
    BY <1>12, Zenon DEF FinishTool, At, To
  <2>2. /\ DOMAIN stage' = DOMAIN stage /\ stage'[i] = "answered"
        /\ \A j \in DOMAIN stage : j = i \/ stage'[j] = stage[j]
    BY ONLY <2>1
  <2>3. pc' \in {"serve", "serve text"}
    BY ONLY <2>1 DEF Returns
  <2>4. Len(calls) = 1 => DOMAIN stage = {i}
    BY <2>1, OnlyCall DEF Serving
  <2>5. \A j \in DOMAIN stage : stage[j] = "gated" => j = i
    BY <2>1 DEF TurnsAreTaken
  <2>6. ~MayStart'
    <3>1. \A j \in DOMAIN stage' : stage'[j] # "gated"
      BY <2>2, <2>5
    <3>2. Len(calls') = 1 => \A j \in DOMAIN stage' : stage'[j] # "serial"
      BY <2>1, <2>2, <2>4
    <3>q. QED
      BY <2>3, <3>1, <3>2
  <2>7. \A j \in DOMAIN stage' : stage'[j] = "looked" => j \in DOMAIN stage /\ stage[j] = "looked"
    BY <2>2
  <2>8. interrupted' = interrupted /\ calls' = calls /\ late' = late /\ past' = past
    BY <2>1, Zenon
  <2> HIDE DEF LateInv, LateBound, MayStart
  <2>q. QED
    BY <1>k, <2>6, <2>7, <2>8
<1>13. ASSUME NEW i, LaunchWorker(i) \/ Collect(i) PROVE LateBound'
  <2>1. /\ i \in DOMAIN stage /\ pc' = pc
        /\ interrupted' = interrupted /\ calls' = calls /\ late' = late /\ past' = past
        /\ \/ stage' = [stage EXCEPT ![i] = "launched"]
           \/ stage' = [stage EXCEPT ![i] = "answered"]
    BY <1>13, Zenon DEF LaunchWorker, Collect, First, At, To
  <2>2. \A j \in DOMAIN stage' : j \in DOMAIN stage
                               /\ (stage'[j] \in {"gated", "serial", "looked"} => stage'[j] = stage[j])
    BY ONLY <2>1
  <2>3. MayStart' => MayStart
    BY <2>1, <2>2
  <2>4. \A j \in DOMAIN stage' : stage'[j] = "looked" => j \in DOMAIN stage /\ stage[j] = "looked"
    BY ONLY <2>2
  <2>5. late = {} \/ ~MayStart'
    <3> HIDE DEF MayStart
    <3>q. QED
      BY <2>3
  <2> HIDE DEF LateInv, LateBound, MayStart
  <2>q. QED
    BY <1>k, <2>1, <2>4, <2>5
<1>14. CASE LaunchesOver
  BY <1>14 DEF LaunchesOver, Drop
<1>15. CASE Summarise \/ DetectLoop \/ DetectTextLoop
  <2>1. /\ stage' = stage /\ pc' \in {"done", "idle", "loop"}
        /\ interrupted' = interrupted /\ calls' = calls /\ late' = late /\ past' = past
    BY <1>15, Zenon DEF Summarise, DetectLoop, DetectTextLoop, AfterDetection
  <2>2. MayStart' => MayStart
    BY <2>1
  <2>3. late = {} \/ ~MayStart'
    <3> HIDE DEF MayStart
    <3>q. QED
      BY <2>2
  <2>4. \A j \in DOMAIN stage' : stage'[j] = "looked" => j \in DOMAIN stage /\ stage[j] = "looked"
    BY <2>1
  <2> HIDE DEF LateInv, LateBound, MayStart
  <2>q. QED
    BY <1>k, <2>1, <2>3, <2>4
<1>16. CASE ParseText
  <2>1. late' = {} /\ pc' = "serve text"
    BY <1>16, Zenon DEF ParseText
  <2>2. \A i \in DOMAIN stage' : stage'[i] = "serial"
    <3>1. stage' = <<"serial">>
      BY <1>16, Zenon DEF ParseText
    <3>q. QED
      BY <3>1, SerialTuple, Zenon
  <2>q. QED
    BY <2>1, <2>2
<1>17. ASSUME NEW i, WorkerLooks(i) PROVE LateBound'
  BY <1>17 DEF WorkerLooks, At, To
<1>18. ASSUME NEW i, WorkerStarts(i) PROVE LateBound'
  BY <1>18 DEF WorkerStarts, At, To, Began, TurnsAreTaken, Running, Serving
<1>19. ASSUME NEW i, WorkerFinishes(i) PROVE LateBound'
  BY <1>19 DEF WorkerFinishes, At, To
<1>20. CASE Interrupt
  BY <1>20 DEF Interrupt, Standing
<1>21. CASE SwitchModel \/ Resume
  BY <1>21 DEF SwitchModel, Resume
<1>22. CASE Crash
  BY <1>22, EmptyTuple DEF Crash
<1>q. QED
  BY <1>1, <1>2, <1>3, <1>4, <1>5, <1>6, <1>7, <1>8, <1>9, <1>10, <1>11, <1>12, <1>13,
     <1>14, <1>15, <1>16, <1>17, <1>18, <1>19, <1>20, <1>21, <1>22
  DEF Next, Engine, Turn, Stream, StreamEnds, ServeTool, ServeBatch, Decide, Worker,
      Quiet, vars

(* The program counter, the stages of the calls and the types of the     *)
(* locals agree in every state: a batch is served exactly over its calls.*)
THEOREM TypeControl == Spec => []ControlInv
<1>1. Init => ControlInv
  BY InitControl
<1>2. ControlInv /\ [Next]_vars => ControlInv'
  BY ControlStep
<1>q. QED
  BY <1>1, <1>2, PTL DEF Spec

(* However replies mix safe and stateful calls, and whatever interrupts  *)
(* them: a tool that is not concurrency-safe has passed every gate.      *)
THEOREM GatesHold == Spec => []UnsafeToolsAreGated
<1>1. Init => GateInv
  <2>1. SUFFICES ASSUME stage = <<>>, ran = {}, ControlInv PROVE GateInv
    BY InitControl, Zenon DEF Init
  <2>q. QED
    BY <2>1 DEF GateInv, ThreadsAreSafe, UnsafeToolsAreGated
<1>2. GateInv /\ [Next]_vars => GateInv'
  BY ControlStep, GateStep DEF GateInv
<1>3. GateInv => UnsafeToolsAreGated
  BY DEF GateInv
<1>q. QED
  BY <1>1, <1>2, <1>3, PTL DEF Spec

(* After an interrupt the only tools that begin are those whose threads  *)
(* had looked at it before, or a single one on the engine's own thread,  *)
(* for batches of any size and over any number of prompts.               *)
THEOREM LateStartsAreBounded == Spec => []LateStartsAreFew
<1>1. Init => LateInv
  <2>1. SUFFICES ASSUME late = {}, pc = "idle", stage = <<>>, ControlInv PROVE LateInv
    BY InitControl, Zenon DEF Init
  <2>q. QED
    BY <2>1, EmptyTuple DEF LateInv, LateBound, MayStart, TurnsAreTaken
<1>2. LateInv /\ [Next]_vars => LateInv'
  BY ControlStep, TurnsStep, LateStep DEF LateInv
<1>3. LateInv => LateStartsAreFew
  BY Zenon DEF LateInv, LateBound, LateStartsAreFew
<1>q. QED
  BY <1>1, <1>2, <1>3, PTL DEF Spec

-----------------------------------------------------------------------------
(* A message with a tool_use of id, a message whose tool_uses were parsed*)
(* from a text, and a result: the fields the history is judged by.       *)
Msg == MessageOf(Ids)
Uses(m, id) == \E j \in DOMAIN m.uses : m.uses[j] = id

LEMMA Constructors ==
  /\ User \in Msg /\ User.uses = <<>> /\ User.answers = {}
  /\ \A s \in Seq(Ids) :
       Assistant(s) \in Msg /\ Assistant(s).uses = s /\ Assistant(s).answers = {}
  /\ \A id \in Ids :
       /\ ToolResult(id) \in Msg
       /\ ToolResult(id).uses = <<>> /\ ToolResult(id).answers = {id}
<1>1. <<>> \in Seq(Ids)
  BY EmptySeq
<1>q. QED
  BY <1>1 DEF Msg, MessageOf, User, Assistant, ToolResult, NoBoundary

(* What the transcript keeps of a message, and a second round trip.      *)
LEMMA RestoredFields ==
  ASSUME NEW m \in Msg
  PROVE  /\ Restored(m) \in Msg
         /\ Restored(m).uses = m.uses /\ Restored(m).answers = m.answers
         /\ Restored(Restored(m)) = Restored(m)
  BY DEF Msg, MessageOf, Restored, NoBoundary

(* The reply the id at i answers, named: the closest message before it   *)
(* that is no result uses id, and nothing in between answers it.         *)
Answers(ms, i, id) ==
  \E r \in 1..(i - 1) :
    /\ ms[r].answers = {} /\ Uses(ms[r], id)
    /\ \A k \in (r + 1)..(i - 1) : ms[k].answers # {} /\ id \notin ms[k].answers

LEMMA AnswersAreRequested ==
  ASSUME NEW ms, NEW i \in Nat, NEW id, Answers(ms, i, id)
  PROVE  AnswersRequest(ms, i, id)
<1>1. PICK r \in 1..(i - 1) :
        /\ ms[r].answers = {} /\ Uses(ms[r], id)
        /\ \A k \in (r + 1)..(i - 1) : ms[k].answers # {} /\ id \notin ms[k].answers
  BY DEF Answers
<1> DEFINE before == {k \in 1..(i - 1) : ms[k].answers = {}}
<1>2. r \in before /\ \A j \in before : j <= r
  BY <1>1
<1>3. \A k \in before : (\A j \in before : j <= k) => k = r
  BY <1>2
<1>4. RequestOf(ms, i) = IF before = {} THEN 0 ELSE CHOOSE k \in before : \A j \in before : j <= k
  BY DEF RequestOf
<1> HIDE DEF before
<1>5. RequestOf(ms, i) = r
  BY <1>2, <1>3, <1>4
<1>q. QED
  BY <1>1, <1>5 DEF AnswersRequest, Uses

(* Only what stands before a result decides whether it answers.          *)
LEMMA AnswersFromPrefix ==
  ASSUME NEW ms, NEW ns, NEW i \in Nat, NEW id, Answers(ms, i, id),
         \A k \in 1..(i - 1) :
           ns[k].answers = ms[k].answers /\ (Uses(ms[k], id) => Uses(ns[k], id))
  PROVE  Answers(ns, i, id)
<1>1. PICK r \in 1..(i - 1) :
        /\ ms[r].answers = {} /\ Uses(ms[r], id)
        /\ \A k \in (r + 1)..(i - 1) : ms[k].answers # {} /\ id \notin ms[k].answers
  BY DEF Answers
<1>2. ns[r].answers = {} /\ Uses(ns[r], id)
  BY <1>1
<1>3. \A k \in (r + 1)..(i - 1) : ns[k].answers # {} /\ id \notin ns[k].answers
  BY <1>1
<1>q. QED
  BY <1>2, <1>3 DEF Answers

(* What appendDelta writes, and where it leaves the index.               *)
LEMMA DeltaIsWritten ==
  ASSUME NEW ms \in Seq(Msg), transcript \in Seq(Msg), persisted \in Nat,
         Len(transcript) = persisted, persisted <= Len(ms), persistTranscriptDelta(ms)
  PROVE  /\ transcript' \in Seq(Msg) /\ persisted' \in Nat
         /\ Len(transcript') = persisted' /\ persisted <= persisted' /\ persisted' <= Len(ms)
         /\ \A i \in 1..persisted : transcript'[i] = transcript[i]
         /\ \A i \in (persisted + 1)..persisted' : transcript'[i] = ms[i]
         /\ DiskOpens = {TRUE} => persisted' = Len(ms)
<1>1. PICK opened \in DiskOpens :
        /\ transcript' = AppendedLines(transcript, ms, persisted, opened)
        /\ persisted' = AppendedIndex(ms, persisted, opened)
  BY DEF persistTranscriptDelta
<1>2. Len(ms) \in Nat
  BY LenProperties
<1>3. CASE opened /\ persisted < Len(ms)
  <2> DEFINE delta == SubSeq(ms, persisted + 1, Len(ms))
  <2>1. transcript' = transcript \o delta /\ persisted' = Len(ms)
    BY <1>1, <1>3 DEF AppendedLines, AppendedIndex
  <2>2. /\ delta \in Seq(Msg) /\ Len(delta) = Len(ms) - persisted
        /\ \A i \in 1..(Len(ms) - persisted) : delta[i] = ms[persisted + i]
    <3>1. \A i \in (persisted + 1)..Len(ms) : ms[i] \in Msg
      BY <1>2, ElementOfSeq
    <3>2. /\ delta \in Seq(Msg)
          /\ Len(delta) = IF persisted + 1 <= Len(ms) THEN Len(ms) - (persisted + 1) + 1 ELSE 0
          /\ \A i \in 1..(Len(ms) - (persisted + 1) + 1) :
               delta[i] = ms[(persisted + 1) + i - 1]
      BY <1>2, <3>1, SubSeqProperties
    <3> HIDE DEF delta
    <3>q. QED
      BY <1>2, <1>3, <3>2
  <2> HIDE DEF delta
  <2>3. /\ transcript \o delta \in Seq(Msg)
        /\ Len(transcript \o delta) = Len(transcript) + Len(delta)
        /\ \A i \in 1..(Len(transcript) + Len(delta)) :
             (transcript \o delta)[i] =
               IF i <= Len(transcript) THEN transcript[i] ELSE delta[i - Len(transcript)]
    BY <2>2, ConcatProperties
  <2>4. ASSUME NEW i \in (persisted + 1)..Len(ms) PROVE transcript'[i] = ms[i]
    <3>1. transcript'[i] = delta[i - persisted]
      BY <1>2, <2>1, <2>2, <2>3
    <3>2. i - persisted \in 1..(Len(ms) - persisted) /\ persisted + (i - persisted) = i
      BY <1>2
    <3>q. QED
      BY <2>2, <3>1, <3>2
  <2>5. \A i \in 1..persisted : transcript'[i] = transcript[i]
    BY <1>2, <1>3, <2>1, <2>2, <2>3
  <2>6. Len(transcript') = persisted' /\ transcript' \in Seq(Msg)
    BY <1>2, <2>1, <2>2, <2>3
  <2>7. \A i \in (persisted + 1)..persisted' : transcript'[i] = ms[i]
    BY <2>1, <2>4
  <2>8. persisted' \in Nat /\ persisted <= persisted' /\ persisted' <= Len(ms)
    BY <1>2, <1>3, <2>1
  <2>q. QED
    BY <2>1, <2>5, <2>6, <2>7, <2>8, Zenon
<1>4. CASE ~(opened /\ persisted < Len(ms))
  <2>1. transcript' = transcript
    BY <1>1, <1>4 DEF AppendedLines
  <2>2. persisted' = persisted
    BY <1>1, <1>2, <1>4 DEF AppendedIndex
  <2>3. DiskOpens = {TRUE} => persisted' = Len(ms)
    BY <1>2, <1>4, <2>2
  <2>4. (persisted + 1)..persisted = {} /\ persisted <= persisted
    OBVIOUS
  <2>q. QED
    BY <2>1, <2>2, <2>3, <2>4, Zenon
<1>q. QED
  BY <1>3, <1>4

(***************************************************************************)
(* The history and its file, as long as nothing shortens the history: the*)
(* context stays below every threshold, no failure asks for a trim and no*)
(* reply is cut at max_tokens.                                           *)
(***************************************************************************)
HistoryOnlyGrows ==
  Contexts = {"low"} /\ ApiErrors \subseteq {"other"} /\ "max_tokens" \notin StopReasons

(* A message's tool_uses come from the API or from a text, never both.   *)
OneSource(m) == IsTextCall(m) => \A j \in DOMAIN m.uses : m.uses[j][1] = "text"

(* A line stands for its message, or for the text a call was parsed from.*)
SameLine(line, m) ==
  line.answers = m.answers /\ (Restored(line) = Restored(m) \/ IsTextCall(m))

NativeAnswered(ms) ==
  \A i \in DOMAIN ms : \A id \in ms[i].answers : id[1] = "call" => Answers(ms, i, id)

FileInv ==
  /\ messages \in Seq(Msg) /\ transcript \in Seq(Msg) /\ persisted \in Nat /\ crashes \in Nat
  /\ \A i \in DOMAIN messages : OneSource(messages[i])
  /\ \A i \in DOMAIN transcript : OneSource(transcript[i])
  /\ IF pc = "down" THEN /\ messages = <<>> /\ crashes # 0
                         /\ NativeAnswered(transcript)
                    ELSE /\ persisted <= Len(messages) /\ Len(transcript) = persisted
                         /\ \A i \in 1..persisted : SameLine(transcript[i], messages[i])
  /\ \A i \in DOMAIN messages : \A id \in messages[i].answers :
       crashes = 0 \/ id[1] = "call" => Answers(messages, i, id)

(* What FileInv says of the run's properties.                            *)
LEMMA FilesAreFaithful == FileInv => TranscriptIsPrefix /\ ResultsArePaired
<1> SUFFICES ASSUME FileInv PROVE TranscriptIsPrefix /\ ResultsArePaired
  OBVIOUS
<1>1. TranscriptIsPrefix
  BY DEF FileInv, TranscriptIsPrefix, SameLine
<1>2. ASSUME NEW i \in DOMAIN messages, NEW id \in messages[i].answers,
             crashes = 0 \/ id[1] = "call"
      PROVE  AnswersRequest(messages, i, id)
  <2>1. i \in Nat
    BY LenProperties DEF FileInv
  <2>2. Answers(messages, i, id)
    BY <1>2 DEF FileInv
  <2>q. QED
    BY <2>1, <2>2, AnswersAreRequested
<1>q. QED
  BY <1>1, <1>2, Zenon DEF ResultsArePaired

(* A text call does not use the id of a call of the API.                 *)
LEMMA TextCallsAreNotNative ==
  ASSUME NEW m, OneSource(m), NEW id, id[1] = "call", Uses(m, id)
  PROVE  ~IsTextCall(m)
  BY DEF OneSource, Uses

(* Messages that grow by at most one, written out or not.                *)
LEMMA HistoryGrows ==
  ASSUME FileInv, pc # "down", pc' # "down", crashes' = crashes,
         \/ messages' = messages
         \/ \E m \in Msg :
              /\ messages' = Append(messages, m)
              /\ OneSource(m)
              /\ \A id \in m.answers : Answers(messages, Len(messages) + 1, id),
         UNCHANGED <<transcript, persisted>> \/ persistTranscriptDelta(messages')
  PROVE  FileInv'
<1>0. /\ messages \in Seq(Msg) /\ transcript \in Seq(Msg) /\ persisted \in Nat /\ crashes \in Nat
      /\ Len(messages) \in Nat /\ Len(transcript) \in Nat
      /\ DOMAIN messages = 1..Len(messages) /\ DOMAIN transcript = 1..Len(transcript)
      /\ persisted <= Len(messages) /\ Len(transcript) = persisted
      /\ \A i \in 1..persisted : SameLine(transcript[i], messages[i])
  BY LenProperties DEF FileInv
<1> DEFINE Grown == /\ messages' \in Seq(Msg) /\ Len(messages') \in Nat
                    /\ Len(messages) <= Len(messages') /\ DOMAIN messages' = 1..Len(messages')
                    /\ \A i \in 1..Len(messages) : messages'[i] = messages[i]
                    /\ \A i \in (Len(messages) + 1)..Len(messages') :
                         /\ OneSource(messages'[i])
                         /\ i = Len(messages) + 1
                         /\ \A id \in messages'[i].answers :
                              Answers(messages, Len(messages) + 1, id)
<1>1. Grown
  <2>1. CASE messages' = messages
    <3>1. (Len(messages) + 1)..Len(messages) = {} /\ Len(messages) <= Len(messages)
      BY <1>0
    <3>q. QED
      BY <1>0, <2>1, <3>1, Zenon
  <2>2. ASSUME NEW m \in Msg, messages' = Append(messages, m), OneSource(m),
               \A id \in m.answers : Answers(messages, Len(messages) + 1, id)
        PROVE  Grown
    <3>1. /\ messages' \in Seq(Msg) /\ Len(messages') = Len(messages) + 1
          /\ \A i \in 1..Len(messages) : messages'[i] = messages[i]
          /\ messages'[Len(messages) + 1] = m
      <4> DEFINE ms == Append(messages, m)
      <4>1. /\ ms \in Seq(Msg) /\ Len(ms) = Len(messages) + 1
            /\ \A i \in 1..Len(messages) : ms[i] = messages[i]
            /\ ms[Len(messages) + 1] = m
        <5>1. messages \in Seq(Msg) /\ m \in Msg
          BY <1>0
        <5>q. QED
          BY ONLY <5>1, AppendProperties
      <4>2. messages' = ms
        BY <2>2
      <4> HIDE DEF ms
      <4>q. QED
        BY <4>1, <4>2, Zenon
    <3>2. DOMAIN messages' = 1..Len(messages') /\ Len(messages') \in Nat
      BY <3>1, LenProperties
    <3>3. Len(messages) <= Len(messages')
      BY <1>0, <3>1
    <3>4. \A i \in (Len(messages) + 1)..Len(messages') : i = Len(messages) + 1
      BY <1>0, <3>1
    <3>q. QED
      BY <2>2, <3>1, <3>2, <3>3, <3>4, Zenon
  <2>q. QED
    BY <2>1, <2>2, Zenon
<1>g. /\ Len(messages') \in Nat /\ Len(messages) <= Len(messages')
      /\ DOMAIN messages' = 1..Len(messages') /\ messages' \in Seq(Msg)
      /\ \A i \in 1..Len(messages) : messages'[i] = messages[i]
  BY <1>1, Zenon
<1>h. \A i \in (Len(messages) + 1)..Len(messages') :
         /\ OneSource(messages'[i])
         /\ \A id \in messages'[i].answers : Answers(messages, i, id)
  BY <1>1, Zenon
<1> HIDE DEF Grown
<1>n. /\ persisted \in Nat /\ Len(messages) \in Nat /\ Len(messages') \in Nat
      /\ persisted <= Len(messages) /\ Len(messages) <= Len(messages')
  BY <1>0, <1>g, Zenon
<1>p. persisted <= Len(messages')
  BY ONLY <1>n
<1>2. /\ transcript' \in Seq(Msg) /\ persisted' \in Nat
      /\ Len(transcript') = persisted' /\ persisted <= persisted' /\ persisted' <= Len(messages')
      /\ \A i \in 1..persisted : transcript'[i] = transcript[i]
      /\ \A i \in (persisted + 1)..persisted' : transcript'[i] = messages'[i]
  <2>1. CASE UNCHANGED <<transcript, persisted>>
    <3>1. (persisted + 1)..persisted = {} /\ persisted <= persisted
      BY <1>0
    <3>q. QED
      BY <1>0, <1>p, <2>1, <3>1, Zenon
  <2>2. CASE persistTranscriptDelta(messages')
    BY <1>0, <1>g, <1>p, <2>2, DeltaIsWritten, Zenon
  <2>q. QED
    BY <2>1, <2>2, Zenon
<1>m. ASSUME NEW i \in DOMAIN messages'
      PROVE  i \in Nat /\ (i \in 1..Len(messages) \/ i \in (Len(messages) + 1)..Len(messages'))
  <2>1. i \in 1..Len(messages')
    BY <1>g, Zenon
  <2>q. QED
    BY ONLY <1>n, <2>1
<1>3. ASSUME NEW i \in DOMAIN messages' PROVE OneSource(messages'[i])
  BY <1>0, <1>g, <1>h, <1>m, Zenon DEF FileInv
<1>4. DOMAIN transcript' = 1..persisted'
  BY <1>2, LenProperties
<1>s. \A i \in 1..persisted' : i \in 1..persisted \/ i \in (persisted + 1)..persisted'
  BY <1>0, <1>2
<1>5. ASSUME NEW i \in DOMAIN transcript' PROVE OneSource(transcript'[i])
  <2>1. CASE i \in 1..persisted
    BY <1>0, <1>2, <2>1, Zenon DEF FileInv
  <2>2. CASE i \in (persisted + 1)..persisted'
    <3>1. i \in DOMAIN messages'
      <4>1. persisted' \in Nat /\ persisted' <= Len(messages')
        BY <1>2, Zenon
      <4>2. i \in 1..Len(messages')
        BY ONLY <1>n, <2>2, <4>1
      <4>q. QED
        BY <1>g, <4>2, Zenon
    <3>q. QED
      BY <1>2, <1>3, <2>2, <3>1, Zenon
  <2>q. QED
    BY <1>4, <1>s, <2>1, <2>2, Zenon
<1>6. ASSUME NEW i \in 1..persisted' PROVE SameLine(transcript'[i], messages'[i])
  <2>1. CASE i \in 1..persisted
    <3>1. i \in 1..Len(messages)
      BY <1>0, <2>1
    <3>q. QED
      BY <1>0, <1>g, <1>2, <2>1, <3>1, Zenon
  <2>2. CASE i \in (persisted + 1)..persisted'
    BY <1>2, <2>2, Zenon DEF SameLine
  <2>q. QED
    BY <1>s, <2>1, <2>2, Zenon
<1>7. ASSUME NEW i \in DOMAIN messages', NEW id \in messages'[i].answers,
             crashes' = 0 \/ id[1] = "call"
      PROVE  Answers(messages', i, id)
  <2>0. i \in Nat /\ (i \in 1..Len(messages) \/ i \in (Len(messages) + 1)..Len(messages'))
    BY <1>m
  <2>1. Answers(messages, i, id)
    BY <1>0, <1>g, <1>h, <1>7, <2>0, Zenon DEF FileInv
  <2>2. ASSUME NEW k \in 1..(i - 1) PROVE messages'[k] = messages[k]
    <3>1. k \in 1..Len(messages)
      <4>1. i <= Len(messages) + 1
        <5>1. i \in (Len(messages) + 1)..Len(messages') => i = Len(messages) + 1
          BY <1>1, Zenon DEF Grown
        <5>q. QED
          BY ONLY <1>n, <2>0, <5>1
      <4>q. QED
        BY ONLY <1>n, <2>0, <4>1, k \in 1..(i - 1)
    <3>q. QED
      BY <1>g, <3>1
  <2>q. QED
    BY <2>0, <2>1, <2>2, AnswersFromPrefix, Zenon
<1>q. QED
  <2>1. /\ messages' \in Seq(Msg) /\ transcript' \in Seq(Msg) /\ persisted' \in Nat
        /\ crashes' \in Nat
    BY <1>0, <1>2, <1>g, Zenon
  <2>q. QED
    BY <1>2, <1>3, <1>5, <1>6, <1>7, <2>1, Zenon DEF FileInv

(* How the stages follow the program counter: a call parsed from a text  *)
(* never leaves the engine's thread, none waits while the threads are    *)
(* collected, and nothing is unfinished once the batch is left.          *)
Over == {"answered", "dropped"}
StageInv ==
  /\ pc \notin Serving => \A i \in DOMAIN stage : stage[i] \in Over
  /\ pc \in {"serve text", "run text"} =>
       \A i \in DOMAIN stage : stage[i] \in {"serial", "gated", "executing", "answered"}
  /\ pc = "collect" => None("serial") /\ None("queued")

(* The ids of one reply differ: the API numbers its calls.               *)
CallsInv ==
  /\ pc = "stream" =>
       \A i \in DOMAIN calls : calls[i].id[1] = "call" /\ calls[i].id[2] \in 0..(nextId - 1)
  /\ pc \in Serving => calls # <<>>
  /\ pc \in {"stream"} \cup Serving =>
       \A i, j \in DOMAIN calls : calls[i].id = calls[j].id => i = j

(* A text that is a call is not empty, so its message is the last one.   *)
TextInv ==
  /\ pc = "stream" /\ parsed # <<>> => text # NoText
  /\ pc = "parse" => messages # <<>> /\ messages[Len(messages)].answers = {}

(* The message of the calls being served, and behind it the results of   *)
(* exactly the answered ones.                                            *)
ServedAt(r) ==
  /\ messages[r].uses = IdsOf(calls) /\ messages[r].answers = {}
  /\ \A k \in (r + 1)..Len(messages) :
       \E i \in DOMAIN calls : messages[k] = ToolResult(calls[i].id) /\ stage[i] = "answered"
  /\ \A i \in DOMAIN calls : stage[i] = "answered" =>
       \E k \in (r + 1)..Len(messages) : messages[k] = ToolResult(calls[i].id)
ServedInv == pc \in Serving => \E r \in DOMAIN messages : ServedAt(r)

BatchInv == ControlInv /\ TurnsAreTaken /\ StageInv /\ CallsInv /\ TextInv /\ ServedInv

(* The result of a call not answered yet answers the message it came in. *)
LEMMA OpenCallsCanBeAnswered ==
  ASSUME BatchInv, FileInv, pc \in Serving, NEW i \in DOMAIN stage, stage[i] # "answered"
  PROVE  /\ i \in DOMAIN calls /\ calls[i].id \in Ids
         /\ Answers(messages, Len(messages) + 1, calls[i].id)
<1>1. i \in DOMAIN calls /\ calls \in Seq(Call)
  BY DEF BatchInv, ControlInv
<1>2. ASSUME NEW j \in DOMAIN calls PROVE calls[j].id \in Ids
  <2>1. calls[j] \in Call
    BY ONLY <1>1, j \in DOMAIN calls
  <2>q. QED
    BY ONLY <2>1 DEF Call
<1>3. PICK r \in DOMAIN messages : ServedAt(r)
  BY DEF BatchInv, ServedInv
<1>4. messages \in Seq(Msg) /\ Len(messages) \in Nat /\ DOMAIN messages = 1..Len(messages)
  BY LenProperties DEF FileInv
<1>5. Uses(messages[r], calls[i].id)
  BY <1>1, <1>3 DEF ServedAt, IdsOf, Uses
<1>6. ASSUME NEW k \in (r + 1)..Len(messages)
      PROVE  messages[k].answers # {} /\ calls[i].id \notin messages[k].answers
  <2>1. PICK j \in DOMAIN calls : messages[k] = ToolResult(calls[j].id) /\ stage[j] = "answered"
    BY <1>3 DEF ServedAt
  <2>2. calls[j].id \in Ids /\ j # i
    BY <1>2, <2>1
  <2>3. messages[k].answers = {calls[j].id}
    BY <2>1, <2>2, Constructors
  <2>4. calls[j].id # calls[i].id
    BY <1>1, <2>2 DEF BatchInv, CallsInv
  <2>q. QED
    BY <2>3, <2>4
<1>7. r \in 1..((Len(messages) + 1) - 1) /\ (Len(messages) + 1) - 1 = Len(messages)
  BY <1>4
<1>8. messages[r].answers = {}
  BY <1>3 DEF ServedAt
<1>q. QED
  BY <1>1, <1>2, <1>5, <1>6, <1>7, <1>8 DEF Answers

(* A text that turns out to be a call replaces the message it came in.   *)
LEMMA TextBecomesCall ==
  ASSUME BatchInv, FileInv, ParseText
  PROVE  /\ messages' \in Seq(Msg) /\ Len(messages') = Len(messages) /\ Len(messages) \in Nat \ {0}
         /\ \A i \in 1..(Len(messages) - 1) : messages'[i] = messages[i]
         /\ TextCall.id \in Ids /\ TextCall.id[1] = "text"
         /\ messages'[Len(messages)].uses = <<TextCall.id>>
         /\ messages'[Len(messages)].answers = {}
         /\ messages[Len(messages)].answers = {}
<1>0. messages \in Seq(Msg) /\ pc = "parse" /\ turnCount \in Nat
  BY DEF FileInv, ParseText, BatchInv, ControlInv
<1>1. messages # <<>> /\ messages[Len(messages)].answers = {}
  BY <1>0 DEF BatchInv, TextInv
<1>2. Len(messages) \in Nat \ {0}
  BY <1>0, <1>1, EmptySeq
<1> DEFINE kept == SubSeq(messages, 1, Len(messages) - 1)
           new == Assistant(<<TextCall.id>>)
<1>3. /\ kept \in Seq(Msg) /\ Len(kept) = Len(messages) - 1
      /\ \A i \in 1..(Len(messages) - 1) : kept[i] = messages[i]
  <2>1. \A i \in 1..(Len(messages) - 1) : messages[i] \in Msg
    BY <1>0, <1>2, ElementOfSeq
  <2>2. 1 \in Int /\ Len(messages) - 1 \in Int
    BY ONLY <1>2
  <2>3. /\ kept \in Seq(Msg)
        /\ Len(kept) = IF 1 <= Len(messages) - 1 THEN Len(messages) - 1 - 1 + 1 ELSE 0
        /\ \A i \in 1..(Len(messages) - 1 - 1 + 1) : kept[i] = messages[1 + i - 1]
    BY ONLY <2>1, <2>2, SubSeqProperties
  <2> HIDE DEF kept
  <2>4. Len(kept) = Len(messages) - 1
    <3>1. \A n \in Nat \ {0} : (IF 1 <= n - 1 THEN n - 1 - 1 + 1 ELSE 0) = n - 1
      OBVIOUS
    <3>q. QED
      BY <1>2, <2>3, <3>1, Zenon
  <2>5. ASSUME NEW i \in 1..(Len(messages) - 1) PROVE kept[i] = messages[i]
    <3>1. i \in 1..(Len(messages) - 1 - 1 + 1) /\ 1 + i - 1 = i
      BY ONLY <1>2, i \in 1..(Len(messages) - 1)
    <3>q. QED
      BY <2>3, <3>1, Zenon
  <2>q. QED
    BY <2>3, <2>4, <2>5, Zenon
<1>4. TextCall.id \in Ids /\ TextCall.id[1] = "text"
  BY <1>0 DEF TextCall, Ids
<1>5. new \in Msg /\ new.uses = <<TextCall.id>> /\ new.answers = {}
  BY <1>4, OneTuple, Constructors
<1>6. messages' = Append(kept, new)
  BY DEF ParseText, WithTextCall
<1> HIDE DEF kept, new
<1>7. /\ Append(kept, new) \in Seq(Msg) /\ Len(Append(kept, new)) = Len(kept) + 1
      /\ \A i \in 1..Len(kept) : Append(kept, new)[i] = kept[i]
      /\ Append(kept, new)[Len(kept) + 1] = new
  BY <1>3, <1>5, AppendProperties
<1>8. (Len(messages) - 1) + 1 = Len(messages)
  BY <1>2
<1>q. QED
  BY <1>1, <1>2, <1>3, <1>4, <1>5, <1>6, <1>7, <1>8, Zenon

(* A step that leaves the history alone, or that the process survives.   *)
LEMMA HistoryIsKept ==
  ASSUME FileInv, UNCHANGED <<messages, transcript, persisted, crashes>>,
         pc' = "down" <=> pc = "down"
  PROVE  FileInv'
<1>1. messages' = messages /\ transcript' = transcript /\ persisted' = persisted
      /\ crashes' = crashes
  OBVIOUS
<1>2. CASE pc = "down"
  BY <1>1, <1>2, Zenon DEF FileInv
<1>3. CASE pc # "down"
  BY <1>1, <1>3, Zenon DEF FileInv
<1>q. QED
  BY <1>2, <1>3, Zenon

(* The file answers the native calls that the history answers.           *)
LEMMA CrashLeavesAnswers ==
  ASSUME FileInv, pc # "down"
  PROVE  NativeAnswered(transcript)
<1> SUFFICES ASSUME NEW i \in DOMAIN transcript, NEW id \in transcript[i].answers, id[1] = "call"
             PROVE  Answers(transcript, i, id)
  BY DEF NativeAnswered
<1>1. /\ messages \in Seq(Msg) /\ transcript \in Seq(Msg) /\ persisted \in Nat
      /\ persisted <= Len(messages) /\ Len(transcript) = persisted
      /\ \A k \in 1..persisted : SameLine(transcript[k], messages[k])
  BY DEF FileInv
<1>2. /\ DOMAIN messages = 1..Len(messages) /\ DOMAIN transcript = 1..persisted
      /\ Len(messages) \in Nat
  BY <1>1, LenProperties
<1>3. \A k \in 1..persisted : k \in DOMAIN messages
  BY <1>1, <1>2
<1>4. i \in 1..persisted /\ i \in Nat /\ \A k \in 1..(i - 1) : k \in 1..persisted
  BY <1>1, <1>2
<1>5. Answers(messages, i, id)
  <2>1. id \in messages[i].answers
    BY <1>1, <1>4 DEF SameLine
  <2>q. QED
    BY <1>3, <1>4, <2>1, Zenon DEF FileInv
<1>6. ASSUME NEW k \in 1..(i - 1)
      PROVE  /\ transcript[k].answers = messages[k].answers
             /\ Uses(messages[k], id) => Uses(transcript[k], id)
  <2>1. SameLine(transcript[k], messages[k]) /\ k \in DOMAIN messages /\ k \in DOMAIN transcript
    BY <1>1, <1>2, <1>3, <1>4
  <2>2. messages[k] \in Msg /\ transcript[k] \in Msg
    BY <1>1, <2>1
  <2>3. ASSUME Uses(messages[k], id) PROVE Uses(transcript[k], id)
    <3>1. ~IsTextCall(messages[k])
      BY <2>1, <2>3, TextCallsAreNotNative, Zenon DEF FileInv
    <3>2. Restored(transcript[k]) = Restored(messages[k])
      BY <2>1, <3>1 DEF SameLine
    <3>3. transcript[k].uses = messages[k].uses
      BY <2>2, <3>2, RestoredFields
    <3>q. QED
      BY <2>3, <3>3 DEF Uses
  <2>q. QED
    BY <2>1, <2>3 DEF SameLine
<1>q. QED
  BY <1>4, <1>5, <1>6, AnswersFromPrefix

(* --continue takes over what the dead process wrote.                    *)
LEMMA ResumedHistory ==
  ASSUME FileInv, Resume
  PROVE  FileInv'
<1>1. /\ pc = "down" /\ pc' = "idle" /\ messages' = Load(transcript)
      /\ persisted' = Len(transcript) /\ transcript' = transcript /\ crashes' = crashes
  BY DEF Resume, world
<1>2. /\ transcript \in Seq(Msg) /\ crashes \in Nat /\ crashes # 0 /\ NativeAnswered(transcript)
      /\ \A i \in DOMAIN transcript : OneSource(transcript[i])
  BY <1>1 DEF FileInv
<1>3. Len(transcript) \in Nat /\ DOMAIN transcript = 1..Len(transcript)
  BY <1>2, LenProperties
<1>4. \A i \in DOMAIN transcript : transcript[i] \in Msg
  BY <1>2
<1>5. /\ messages' \in Seq(Msg) /\ Len(messages') = Len(transcript)
      /\ DOMAIN messages' = DOMAIN transcript
      /\ \A i \in DOMAIN transcript : messages'[i] = Restored(transcript[i])
  <2>1. messages' = [i \in 1..Len(transcript) |-> Restored(transcript[i])]
    BY <1>1, <1>3 DEF Load
  <2>2. \A i \in 1..Len(transcript) : Restored(transcript[i]) \in Msg
    BY <1>3, <1>4, RestoredFields
  <2>q. QED
    BY <1>3, <2>1, <2>2
<1>6. \A i \in DOMAIN transcript : /\ messages'[i].uses = transcript[i].uses
                                   /\ messages'[i].answers = transcript[i].answers
                                   /\ Restored(messages'[i]) = Restored(transcript[i])
  BY <1>4, <1>5, RestoredFields
<1>7. \A i \in DOMAIN messages' : OneSource(messages'[i])
  BY <1>2, <1>5, <1>6 DEF OneSource, IsTextCall
<1>8. ASSUME NEW i \in DOMAIN messages', NEW id \in messages'[i].answers, id[1] = "call"
      PROVE  Answers(messages', i, id)
  <2>1. Answers(transcript, i, id)
    BY <1>2, <1>5, <1>6, <1>8 DEF NativeAnswered
  <2>2. i \in Nat /\ \A k \in 1..(i - 1) : k \in DOMAIN transcript
    BY <1>3, <1>5
  <2>q. QED
    BY <1>6, <2>1, <2>2, AnswersFromPrefix DEF Uses
<1>9. \A i \in 1..persisted' : SameLine(transcript'[i], messages'[i])
  BY <1>1, <1>3, <1>6 DEF SameLine
<1>10. /\ persisted' \in Nat /\ persisted' <= Len(messages') /\ Len(transcript') = persisted'
       /\ pc' # "down" /\ crashes' # 0 /\ crashes' \in Nat /\ transcript' \in Seq(Msg)
       /\ \A i \in DOMAIN transcript' : OneSource(transcript'[i])
  BY <1>1, <1>2, <1>3, <1>5
<1>q. QED
  BY <1>5, <1>7, <1>8, <1>9, <1>10, Zenon DEF FileInv

(* A text call replaces the last message, whatever the file holds of it. *)
LEMMA ReplacedHistory ==
  ASSUME BatchInv, FileInv, ParseText
  PROVE  FileInv'
<1> DEFINE n == Len(messages)
<1>1. /\ messages' \in Seq(Msg) /\ Len(messages') = n /\ n \in Nat \ {0}
      /\ \A i \in 1..(n - 1) : messages'[i] = messages[i]
      /\ TextCall.id[1] = "text"
      /\ messages'[n].uses = <<TextCall.id>> /\ messages'[n].answers = {}
      /\ messages[n].answers = {}
  BY TextBecomesCall
<1>2. /\ pc = "parse" /\ pc' = "serve text"
      /\ transcript' = transcript /\ persisted' = persisted /\ crashes' = crashes
  BY DEF ParseText, world
<1>3. /\ messages \in Seq(Msg) /\ transcript \in Seq(Msg) /\ persisted \in Nat /\ crashes \in Nat
      /\ persisted <= n /\ Len(transcript) = persisted
      /\ \A i \in 1..persisted : SameLine(transcript[i], messages[i])
      /\ \A i \in DOMAIN messages : OneSource(messages[i])
      /\ \A i \in DOMAIN transcript : OneSource(transcript[i])
  BY <1>2 DEF FileInv
<1>4. DOMAIN messages = 1..n /\ DOMAIN messages' = 1..n
  BY <1>1, <1>3, LenProperties
<1> HIDE DEF n
<1>5. \A i \in 1..n : i = n \/ i \in 1..(n - 1)
  BY <1>1
<1>6. IsTextCall(messages'[n]) /\ OneSource(messages'[n])
  <2>1. DOMAIN <<TextCall.id>> = {1} /\ <<TextCall.id>>[1] = TextCall.id
    OBVIOUS
  <2>q. QED
    BY <1>1, <2>1, Zenon DEF IsTextCall, OneSource
<1>7. \A i \in DOMAIN messages' : OneSource(messages'[i])
  BY <1>1, <1>3, <1>4, <1>5, <1>6, Zenon
<1>8. ASSUME NEW i \in 1..persisted PROVE SameLine(transcript'[i], messages'[i])
  <2>0. i \in 1..n
    BY <1>1, <1>3
  <2>1. CASE i = n
    BY <1>1, <1>2, <1>3, <1>6, <2>1, Zenon DEF SameLine
  <2>2. CASE i \in 1..(n - 1)
    BY <1>1, <1>2, <1>3, <2>2, Zenon
  <2>q. QED
    BY <1>5, <2>0, <2>1, <2>2
<1>9. ASSUME NEW i \in DOMAIN messages', NEW id \in messages'[i].answers,
             crashes' = 0 \/ id[1] = "call"
      PROVE  Answers(messages', i, id)
  <2>1. i \in 1..(n - 1) /\ messages'[i] = messages[i]
    BY <1>1, <1>4, <1>5, <1>9, Zenon
  <2>2. Answers(messages, i, id)
    <3>1. i \in DOMAIN messages /\ id \in messages[i].answers
      BY <1>4, <1>9, <2>1, Zenon
    <3>q. QED
      BY <1>2, <1>9, <3>1, Zenon DEF FileInv
  <2>3. i \in Nat /\ \A k \in 1..(i - 1) : k \in 1..(n - 1)
    BY <1>1, <2>1
  <2>q. QED
    BY <1>1, <2>2, <2>3, AnswersFromPrefix, Zenon
<1>10. persisted' <= Len(messages') /\ Len(transcript') = persisted' /\ pc' # "down"
  BY <1>1, <1>2, <1>3
<1>q. QED
  BY <1>1, <1>2, <1>3, <1>7, <1>8, <1>9, <1>10, Zenon DEF FileInv

(* Messages that answer nothing, and whose tool_uses have one source.    *)
LEMMA PlainMessages ==
  /\ User \in Msg /\ OneSource(User) /\ User.answers = {}
  /\ Assistant(<<>>) \in Msg /\ OneSource(Assistant(<<>>)) /\ Assistant(<<>>).answers = {}
  /\ \A id \in Ids : ToolResult(id) \in Msg /\ OneSource(ToolResult(id))
                     /\ ToolResult(id).answers = {id}
<1>1. <<>> \in Seq(Ids) /\ DOMAIN <<>> = {}
  BY EmptySeq
<1>q. QED
  BY <1>1, Constructors DEF OneSource, IsTextCall

(* The reply as the history takes it.                                    *)
LEMMA ReplyEnters ==
  ASSUME BatchInv, FileInv, pc = "stream"
  PROVE  /\ Assistant(IdsOf(calls)) \in Msg /\ OneSource(Assistant(IdsOf(calls)))
         /\ Assistant(IdsOf(calls)).uses = IdsOf(calls)
         /\ Assistant(IdsOf(calls)).answers = {}
<1>1. calls \in Seq(Call) /\ \A i \in DOMAIN calls : calls[i].id[1] = "call"
  BY DEF BatchInv, ControlInv, CallsInv
<1>2. ASSUME NEW i \in DOMAIN calls PROVE calls[i].id \in Ids
  <2>1. calls[i] \in Call
    BY ONLY <1>1, i \in DOMAIN calls
  <2>q. QED
    BY ONLY <2>1 DEF Call
<1>3. IdsOf(calls) \in Seq(Ids)
  BY ONLY <1>1, <1>2 DEF IdsOf
<1>4. \A i \in DOMAIN IdsOf(calls) : IdsOf(calls)[i][1] = "call"
  BY ONLY <1>1 DEF IdsOf
<1>5. /\ Assistant(IdsOf(calls)) \in Msg
      /\ Assistant(IdsOf(calls)).uses = IdsOf(calls)
      /\ Assistant(IdsOf(calls)).answers = {}
  BY <1>3, Constructors
<1>q. QED
  BY <1>4, <1>5 DEF OneSource, IsTextCall

(* What the pre-flight check does while the context is small.            *)
LEMMA TurnsKeepTheHistory ==
  ASSUME HistoryOnlyGrows, BeginTurn
  PROVE  UNCHANGED <<messages, collapsed>>
<1>1. \A ms : Preflight(ms) => messages' = ms /\ UNCHANGED collapsed
  BY DEF Preflight, HistoryOnlyGrows
<1>2. \A ms, o : \A pressure \in Contexts : compactIfNeeded(ms, pressure, o) = ms
  BY DEF compactIfNeeded, HistoryOnlyGrows
<1>3. \/ \E pressure \in Contexts, oversized \in Selections(messages) :
            Preflight(compactIfNeeded(messages, pressure, oversized))
      \/ Preflight(messages)
  BY DEF BeginTurn
<1>q. QED
  BY <1>1, <1>2, <1>3

(* No path through the loop, the batch, a crash or a resume puts a result*)
(* where it does not belong or lets file and history differ.             *)
LEMMA FileStep ==
  ASSUME HistoryOnlyGrows, BatchInv, FileInv, [Next]_vars
  PROVE  FileInv'
<1> USE DEF history, world
<1>a. ASSUME UNCHANGED <<messages, transcript, persisted, crashes>>,
             pc # "down", pc' # "down"
      PROVE  FileInv'
  BY <1>a, HistoryIsKept
<1>b. ASSUME UNCHANGED <<messages, transcript, persisted, crashes, pc>>
      PROVE  FileInv'
  BY <1>b, HistoryIsKept
<1>c. ASSUME NEW m \in Msg, m.answers = {}, OneSource(m),
             messages' = messages \/ messages' = Append(messages, m),
             UNCHANGED <<transcript, persisted>> \/ persistTranscriptDelta(messages'),
             crashes' = crashes, pc # "down", pc' # "down"
      PROVE  FileInv'
  <2>1. \A id \in m.answers : Answers(messages, Len(messages) + 1, id)
    BY <1>c
  <2>q. QED
    BY <1>c, <2>1, HistoryGrows
<1>d. ASSUME NEW i \in DOMAIN stage, stage[i] # "answered", pc \in Serving, pc' # "down",
             messages' = Append(messages, ToolResult(calls[i].id)),
             UNCHANGED <<transcript, persisted, crashes>>
      PROVE  FileInv'
  <2>1. calls[i].id \in Ids /\ Answers(messages, Len(messages) + 1, calls[i].id)
    BY <1>d, OpenCallsCanBeAnswered
  <2>2. pc # "down"
    BY <1>d DEF Serving
  <2>3. /\ ToolResult(calls[i].id) \in Msg /\ OneSource(ToolResult(calls[i].id))
        /\ ToolResult(calls[i].id).answers = {calls[i].id}
    BY <2>1, PlainMessages
  <2>4. \A id \in ToolResult(calls[i].id).answers : Answers(messages, Len(messages) + 1, id)
    BY <2>1, <2>3
  <2>q. QED
    BY <1>d, <2>2, <2>3, <2>4, HistoryGrows
<1>1. CASE UNCHANGED vars
  BY <1>1, <1>b DEF vars
<1>2. CASE Submit
  BY <1>2, <1>c, PlainMessages DEF Submit
<1>3. CASE Complete
  BY <1>3, <1>c, PlainMessages DEF Complete
<1>4. CASE LoopExit \/ BudgetExceeded \/ ApiFails
  BY <1>4, <1>a DEF LoopExit, BudgetExceeded, ApiFails
<1>5. CASE BeginTurn
  <2>1. messages' = messages
    BY <1>5, TurnsKeepTheHistory
  <2>q. QED
    BY <1>5, <2>1, <1>a DEF BeginTurn
<1>6. CASE StreamText \/ StreamToolUse \/ AbandonSerial
  BY <1>6, <1>b DEF StreamText, StreamToolUse, AbandonSerial
<1>7. CASE ApiTooLong \/ ApiOverloaded \/ RetryAfterMaxTokens
  BY <1>7 DEF ApiTooLong, ApiOverloaded, RetryAfterMaxTokens, HistoryOnlyGrows
<1>8. CASE AddAssistant
  <2>1. pc = "stream" /\ pc' \in {"serve", "parse", "done"} /\ crashes' = crashes
    BY <1>8, Zenon DEF AddAssistant
  <2>2. messages' = messages \/ messages' = Append(messages, Assistant(IdsOf(calls)))
    BY <1>8 DEF AddAssistant, WithReply
  <2>3. persistTranscriptDelta(messages')
    BY <1>8 DEF AddAssistant, PersistReply
  <2>q. QED
    BY <1>c, <2>1, <2>2, <2>3, ReplyEnters
<1>9. ASSUME NEW i, StartTool(i) \/ ProcessToolUse(i) \/ LaunchWorker(i) PROVE FileInv'
  BY <1>9, <1>a DEF StartTool, ProcessToolUse, LaunchWorker
<1>10. ASSUME NEW i, RefuseTool(i) PROVE FileInv'
  BY <1>10, <1>d DEF RefuseTool, At, ErrorResult, Serving, Returns
<1>11. ASSUME NEW i, FinishTool(i) PROVE FileInv'
  BY <1>11, <1>d DEF FinishTool, At, Serving, Returns
<1>12. CASE LaunchesOver
  BY <1>12, <1>a DEF LaunchesOver
<1>13. ASSUME NEW i, WorkerLooks(i) \/ WorkerStarts(i) \/ WorkerFinishes(i) PROVE FileInv'
  BY <1>13, <1>b DEF WorkerLooks, WorkerStarts, WorkerFinishes
<1>14. ASSUME NEW i, Collect(i) PROVE FileInv'
  BY <1>14, <1>d DEF Collect, At, Serving
<1>15. CASE Summarise
  <2>1. /\ pc = "collect" /\ pc' \in {"done", "idle"}
        /\ UNCHANGED <<transcript, persisted, crashes>>
    BY <1>15, Zenon DEF Summarise, Collected
  <2>2. messages' = messages \/ messages' = Append(messages, Assistant(<<>>))
    BY <1>15, Zenon DEF Summarise
  <2>q. QED
    BY <1>c, <2>1, <2>2, PlainMessages
<1>16. CASE DetectLoop \/ DetectTextLoop
  <2>1. /\ pc # "down" /\ pc' \in {"done", "loop"}
        /\ UNCHANGED <<transcript, persisted, crashes>>
    BY <1>16 DEF DetectLoop, DetectTextLoop, Collected, AfterDetection
  <2>2. messages' = messages \/ messages' = Append(messages, User)
    BY <1>16 DEF DetectLoop, DetectTextLoop, AfterDetection
  <2>q. QED
    BY <1>c, <2>1, <2>2, PlainMessages
<1>17. CASE ParseText
  BY <1>17, ReplacedHistory
<1>18. CASE Interrupt \/ SwitchModel
  BY <1>18, <1>b DEF Interrupt, SwitchModel
<1>19. CASE Crash
  <2>1. NativeAnswered(transcript) /\ crashes \in Nat
    BY <1>19, CrashLeavesAnswers DEF Crash, FileInv
  <2>2. /\ messages' = <<>> /\ persisted' = 0 /\ transcript' = transcript
        /\ pc' = "down" /\ crashes' = crashes + 1
    BY <1>19 DEF Crash
  <2>3. crashes' \in Nat /\ crashes' # 0
    BY ONLY <2>1, <2>2
  <2>4. messages' \in Seq(Msg) /\ DOMAIN messages' = {}
    BY <2>2, EmptyTuple
  <2>5. /\ transcript' \in Seq(Msg) /\ \A i \in DOMAIN transcript' : OneSource(transcript'[i])
        /\ NativeAnswered(transcript') /\ persisted' \in Nat
    BY <2>1, <2>2 DEF FileInv
  <2>q. QED
    BY <2>2, <2>3, <2>4, <2>5, Zenon DEF FileInv
<1>20. CASE Resume
  BY <1>20, ResumedHistory
<1>q. QED
  BY <1>1, <1>2, <1>3, <1>4, <1>5, <1>6, <1>7, <1>8, <1>9, <1>10, <1>11, <1>12, <1>13,
     <1>14, <1>15, <1>16, <1>17, <1>18, <1>19, <1>20
  DEF Next, Engine, Turn, Stream, StreamEnds, ServeTool, ServeBatch, Decide, Worker,
      Quiet, vars

(* Every step keeps the stages in line with the loop.                    *)
LEMMA StageStep ==
  ASSUME HistoryOnlyGrows, BatchInv, [Next]_vars
  PROVE  StageInv'
<1> USE DEF history, recovery, reply, world, executed
<1>0. ControlInv /\ TurnsAreTaken /\ StageInv
  BY DEF BatchInv
<1>a. ASSUME UNCHANGED <<stage, pc>>
      PROVE  StageInv'
  BY <1>0, <1>a, Zenon DEF StageInv, None
<1>b. ASSUME pc' \notin Serving, stage' = stage \/ stage' = <<>>,
             \A i \in DOMAIN stage : stage[i] \in Over
      PROVE  StageInv'
  <2>1. \A i \in DOMAIN stage' : stage'[i] \in Over
    BY <1>b, EmptyTuple
  <2>q. QED
    BY <1>b, <2>1 DEF StageInv, Serving
<1>c. pc \notin Serving => \A i \in DOMAIN stage : stage[i] \in Over
  BY <1>0 DEF StageInv
<1>d. ASSUME NEW i \in DOMAIN stage, NEW s \in Stages \ {"serial", "queued", "dropped"},
             stage' = [stage EXCEPT ![i] = s], pc \in Serving, pc' \in Serving,
             pc' \in {"serve text", "run text"} =>
               pc \in {"serve text", "run text"} /\ s \in {"gated", "executing", "answered"},
             pc' = "collect" => pc = "collect"
      PROVE  StageInv'
  <2>1. \A j \in DOMAIN stage' : j \in DOMAIN stage /\ stage'[j] \in {s, stage[j]}
    BY <1>0, <1>d DEF ControlInv
  <2>q. QED
    BY <1>0, <1>d, <2>1 DEF StageInv, None
<1>1. CASE UNCHANGED vars
  BY <1>1, <1>a DEF vars
<1>2. CASE Submit \/ Complete \/ LoopExit \/ BudgetExceeded
  BY <1>2, <1>b, <1>c DEF Submit, Complete, LoopExit, BudgetExceeded, Serving
<1>3. CASE BeginTurn
  BY <1>3, <1>b, <1>c DEF BeginTurn, Serving
<1>4. CASE StreamText \/ StreamToolUse \/ Interrupt \/ SwitchModel
  BY <1>4, <1>a DEF StreamText, StreamToolUse, Interrupt, SwitchModel
<1>5. CASE ApiTooLong \/ ApiOverloaded \/ RetryAfterMaxTokens
  BY <1>5 DEF ApiTooLong, ApiOverloaded, RetryAfterMaxTokens, HistoryOnlyGrows
<1>6. CASE ApiFails
  BY <1>6, <1>b, <1>c DEF ApiFails, Serving
<1>7. CASE AddAssistant
  <2>1. CASE calls # <<>> /\ ~interrupted
    <3>1. pc' = "serve"
      BY <1>7, <2>1, Zenon DEF AddAssistant
    <3>q. QED
      BY <3>1 DEF StageInv, Serving
  <2>2. CASE ~(calls # <<>> /\ ~interrupted)
    <3>1. pc = "stream" /\ pc' \in {"parse", "done"} /\ stage' = stage
      BY <1>7, <2>2, Zenon DEF AddAssistant
    <3>q. QED
      BY <1>b, <1>c, <3>1 DEF Serving
  <2>q. QED
    BY <2>1, <2>2
<1>8. CASE AbandonSerial
  <2>1. pc = "serve" /\ pc' = "serve"
    BY <1>8, Zenon DEF AbandonSerial
  <2>q. QED
    BY <2>1 DEF StageInv, Serving
<1>9. ASSUME NEW i, ProcessToolUse(i) \/ StartTool(i) PROVE StageInv'
  BY <1>9, <1>d DEF ProcessToolUse, StartTool, First, At, To, Serving, Stages
<1>10. ASSUME NEW i, RefuseTool(i) \/ FinishTool(i) PROVE StageInv'
  BY <1>10, <1>d DEF RefuseTool, FinishTool, At, To, Returns, Serving, Stages
<1>12. ASSUME NEW i, LaunchWorker(i) PROVE StageInv'
  BY <1>12, <1>d DEF LaunchWorker, First, At, To, Serving, Stages
<1>13. CASE LaunchesOver
  <2>1. /\ pc' = "collect" /\ None("serial")
        /\ stage' = [i \in DOMAIN stage |-> IF stage[i] = "queued" THEN "dropped" ELSE stage[i]]
    BY <1>13 DEF LaunchesOver, Drop
  <2>q. QED
    BY <2>1 DEF StageInv, None, Serving
<1>14. ASSUME NEW i, WorkerLooks(i) \/ WorkerStarts(i) \/ WorkerFinishes(i) PROVE StageInv'
  <2>1. /\ i \in DOMAIN stage /\ stage[i] \in {"launched", "looked", "running"}
        /\ \E s \in {"looked", "running", "finished"} : stage' = [stage EXCEPT ![i] = s]
        /\ pc' = pc
    BY <1>14 DEF WorkerLooks, WorkerStarts, WorkerFinishes, At, To
  <2>2. pc \in Serving /\ pc \notin {"serve text", "run text"}
    BY <1>0, <2>1 DEF StageInv, Over
  <2>q. QED
    BY <1>d, <2>1, <2>2 DEF Stages
<1>15. ASSUME NEW i, Collect(i) PROVE StageInv'
  BY <1>15, <1>d DEF Collect, At, To, Serving, Stages
<1>16. CASE Summarise \/ DetectLoop
  <2>1. Collected /\ pc' \in {"done", "idle", "loop"} /\ stage' = stage
    BY <1>16, Zenon DEF Summarise, DetectLoop, AfterDetection
  <2>2. \A i \in DOMAIN stage : stage[i] \in Over
    BY <1>0, <2>1
       DEF Collected, OnThread, At, StageInv, None, Over, ControlInv, Stages, TurnsAreTaken
  <2>q. QED
    BY <1>b, <2>1, <2>2 DEF Serving
<1>17. CASE DetectTextLoop
  <2>1. pc = "serve text" /\ None("serial") /\ pc' \in {"done", "loop"} /\ stage' = stage
    BY <1>17, Zenon DEF DetectTextLoop, AfterDetection
  <2>2. \A i \in DOMAIN stage : stage[i] \in Over
    BY <1>0, <2>1 DEF StageInv, None, Over, TurnsAreTaken
  <2>q. QED
    BY <1>b, <2>1, <2>2 DEF Serving
<1>18. CASE ParseText
  <2>1. pc' = "serve text" /\ stage' = <<"serial">>
    BY <1>18, Zenon DEF ParseText
  <2>2. \A i \in DOMAIN stage' : stage'[i] = "serial"
    <3>1. DOMAIN <<"serial">> = {1} /\ <<"serial">>[1] = "serial"
      OBVIOUS
    <3>q. QED
      BY <2>1, <3>1, Zenon
  <2>q. QED
    BY <2>1, <2>2 DEF StageInv, None, Serving
<1>19. CASE Crash
  <2>1. pc' = "down" /\ stage' = <<>> /\ DOMAIN stage' = {}
    BY <1>19, EmptyTuple DEF Crash
  <2>q. QED
    BY <2>1 DEF StageInv, Serving
<1>20. CASE Resume
  BY <1>20, <1>b, <1>c DEF Resume, Serving
<1>q. QED
  BY <1>1, <1>2, <1>3, <1>4, <1>5, <1>6, <1>7, <1>8, <1>9, <1>10, <1>12, <1>13,
     <1>14, <1>15, <1>16, <1>17, <1>18, <1>19, <1>20
  DEF Next, Engine, Turn, Stream, StreamEnds, ServeTool, ServeBatch, Decide, Worker,
      Quiet, vars

(* Every step keeps the ids of a reply apart.                            *)
LEMMA CallsStep ==
  ASSUME HistoryOnlyGrows, BatchInv, [Next]_vars
  PROVE  CallsInv'
<1> USE DEF history, recovery, reply, world, executed
<1>0. ControlInv /\ CallsInv
  BY DEF BatchInv
<1>a. ASSUME UNCHANGED <<calls, nextId>>, pc' = pc \/ (pc \in Serving /\ pc' \in Serving)
      PROVE  CallsInv'
  BY <1>0, <1>a DEF CallsInv, Serving
<1>b. ASSUME pc' \notin {"stream"} \cup Serving
      PROVE  CallsInv'
  BY <1>b DEF CallsInv
<1>1. CASE UNCHANGED vars
  BY <1>1, <1>a DEF vars
<1>2. CASE Submit \/ Complete \/ LoopExit \/ BudgetExceeded \/ ApiFails
  BY <1>2, <1>b DEF Submit, Complete, LoopExit, BudgetExceeded, ApiFails, Serving
<1>3. CASE BeginTurn
  <2>1. calls' = <<>> /\ pc' = "stream" /\ DOMAIN calls' = {}
    BY <1>3, EmptyTuple DEF BeginTurn
  <2>q. QED
    BY <2>1 DEF CallsInv, Serving
<1>4. CASE StreamText \/ Interrupt \/ SwitchModel
  BY <1>4, <1>a DEF StreamText, Interrupt, SwitchModel
<1>5. CASE StreamToolUse
  <2>1. PICK tool \in Tools, input \in Inputs :
          calls' = Append(calls, [id |-> <<"call", nextId>>, tool |-> tool, input |-> input])
    BY <1>5 DEF StreamToolUse
  <2> DEFINE c == [id |-> <<"call", nextId>>, tool |-> tool, input |-> input]
  <2>2. /\ pc = "stream" /\ pc' = "stream" /\ nextId' = nextId + 1 /\ nextId \in Nat
        /\ calls \in Seq(Call) /\ Len(calls) \in Nat /\ DOMAIN calls = 1..Len(calls)
    BY <1>0, <1>5, LenProperties DEF StreamToolUse, ControlInv
  <2>3. c \in Call /\ c.id[1] = "call" /\ c.id[2] = nextId
    BY <2>2 DEF Call, Ids
  <2>4. calls' = Append(calls, c)
    BY <2>1
  <2> HIDE DEF c
  <2>5. /\ calls' \in Seq(Call) /\ Len(calls') = Len(calls) + 1
        /\ \A i \in 1..Len(calls) : calls'[i] = calls[i]
        /\ calls'[Len(calls) + 1] = c
    BY <2>2, <2>3, <2>4, AppendProperties
  <2>6. DOMAIN calls' = 1..(Len(calls) + 1)
    BY <2>5, LenProperties
  <2>7. \A i \in DOMAIN calls' : i \in DOMAIN calls \/ i = Len(calls) + 1
    BY <2>2, <2>6
  <2>8. \A i \in DOMAIN calls : calls[i].id[1] = "call" /\ calls[i].id[2] \in 0..(nextId - 1)
    BY <1>0, <2>2 DEF CallsInv
  <2>9. \A i \in DOMAIN calls : calls[i].id # c.id
    BY <2>2, <2>3, <2>8
  <2>10. \A i, j \in DOMAIN calls' : calls'[i].id = calls'[j].id => i = j
    BY <1>0, <2>2, <2>5, <2>7, <2>9 DEF CallsInv
  <2>11. \A i \in DOMAIN calls' : calls'[i].id[1] = "call" /\ calls'[i].id[2] \in 0..(nextId' - 1)
    <3>1. \A k : k \in 0..(nextId - 1) \/ k = nextId => k \in 0..(nextId' - 1)
      BY <2>2
    <3>q. QED
      BY <2>2, <2>3, <2>5, <2>7, <2>8, <3>1
  <2>q. QED
    BY <2>2, <2>10, <2>11 DEF CallsInv, Serving
<1>6. CASE ApiTooLong \/ ApiOverloaded \/ RetryAfterMaxTokens
  BY <1>6 DEF ApiTooLong, ApiOverloaded, RetryAfterMaxTokens, HistoryOnlyGrows
<1>7. CASE AddAssistant
  <2>1. pc = "stream" /\ calls' = calls /\ (pc' \in Serving => calls # <<>>) /\ pc' # "stream"
    BY <1>7 DEF AddAssistant, Serving
  <2>q. QED
    BY <1>0, <2>1 DEF CallsInv
<1>8. CASE AbandonSerial \/ LaunchesOver
  BY <1>8, <1>a DEF AbandonSerial, LaunchesOver, Serving
<1>9. ASSUME NEW i, ProcessToolUse(i) \/ StartTool(i) \/ RefuseTool(i) \/ FinishTool(i)
      PROVE  CallsInv'
  BY <1>9, <1>a DEF ProcessToolUse, StartTool, RefuseTool, FinishTool, Returns, Serving
<1>10. ASSUME NEW i, LaunchWorker(i) \/ Collect(i) \/ Worker(i) PROVE CallsInv'
  BY <1>10, <1>a DEF LaunchWorker, Collect, Worker, WorkerLooks, WorkerStarts, WorkerFinishes
<1>11. CASE Summarise \/ DetectLoop \/ DetectTextLoop
  <2>1. pc' \in {"done", "idle", "loop"}
    BY <1>11, Zenon DEF Summarise, DetectLoop, DetectTextLoop, AfterDetection
  <2>q. QED
    BY <1>b, <2>1 DEF Serving
<1>12. CASE ParseText
  <2>1. pc' = "serve text" /\ calls' = <<TextCall>>
    BY <1>12, Zenon DEF ParseText
  <2>2. DOMAIN <<TextCall>> = {1} /\ <<TextCall>> # <<>>
    OBVIOUS
  <2>3. DOMAIN calls' = {1} /\ calls' # <<>>
    BY <2>1, <2>2, Zenon
  <2>q. QED
    BY <2>1, <2>3 DEF CallsInv, Serving
<1>13. CASE Crash \/ Resume
  BY <1>13, <1>b DEF Crash, Resume, Serving
<1>q. QED
  BY <1>1, <1>2, <1>3, <1>4, <1>5, <1>6, <1>7, <1>8, <1>9, <1>10, <1>11, <1>12, <1>13
  DEF Next, Engine, Turn, Stream, StreamEnds, ServeTool, ServeBatch, Decide, Worker,
      Quiet, vars

(* Every step keeps a text that is a call the last message.              *)
LEMMA TextStep ==
  ASSUME HistoryOnlyGrows, BatchInv, FileInv, [Next]_vars
  PROVE  TextInv'
<1> USE DEF history, recovery, reply, world, executed
<1>0. ControlInv /\ TextInv /\ messages \in Seq(Msg)
  BY DEF BatchInv, FileInv
<1>a. ASSUME UNCHANGED <<messages, text, parsed, pc>>
      PROVE  TextInv'
  BY <1>0, <1>a DEF TextInv
<1>b. ASSUME pc' \notin {"stream", "parse"}
      PROVE  TextInv'
  BY <1>b DEF TextInv
<1>1. CASE UNCHANGED vars
  BY <1>1, <1>a DEF vars
<1>2. CASE Submit \/ Complete \/ LoopExit \/ BudgetExceeded \/ ApiFails
  BY <1>2, <1>b DEF Submit, Complete, LoopExit, BudgetExceeded, ApiFails
<1>3. CASE BeginTurn
  BY <1>3 DEF BeginTurn, TextInv
<1>4. CASE StreamText
  <2>1. pc = "stream" /\ pc' = pc /\ text' \in Texts
    BY <1>4, Zenon DEF StreamText
  <2>2. text' # NoText /\ pc' # "parse"
    BY <2>1, ToolsAssumption
  <2>q. QED
    BY <2>1, <2>2, Zenon DEF TextInv
<1>5. CASE StreamToolUse \/ Interrupt \/ SwitchModel
  BY <1>5, <1>a DEF StreamToolUse, Interrupt, SwitchModel
<1>6. CASE ApiTooLong \/ ApiOverloaded \/ RetryAfterMaxTokens
  BY <1>6 DEF ApiTooLong, ApiOverloaded, RetryAfterMaxTokens, HistoryOnlyGrows
<1>7. CASE AddAssistant
  <2>1. pc = "stream" /\ pc' \in {"serve", "parse", "done"} /\ messages' = WithReply
    BY <1>7, Zenon DEF AddAssistant
  <2>2. CASE pc' = "parse"
    <3>1. parsed # <<>>
      BY <1>7, <2>2 DEF AddAssistant
    <3>2. text # NoText
      BY <1>0, <2>1, <3>1 DEF TextInv
    <3>3. messages' = Append(messages, Assistant(IdsOf(calls)))
      BY <2>1, <3>2 DEF WithReply
    <3>4. /\ Assistant(IdsOf(calls)) \in Msg /\ Assistant(IdsOf(calls)).answers = {}
      BY <2>1, ReplyEnters
    <3>5. messages' # <<>> /\ messages'[Len(messages')] = Assistant(IdsOf(calls))
      <4> DEFINE m == Assistant(IdsOf(calls))
      <4> HIDE DEF m
      <4>1. m \in Msg /\ messages' = Append(messages, m)
        BY <3>3, <3>4 DEF m
      <4>2. messages' # <<>> /\ messages'[Len(messages')] = m
        BY <1>0, <4>1, AppendProperties
      <4>q. QED
        BY <4>2 DEF m
    <3>q. QED
      BY <2>2, <3>4, <3>5 DEF TextInv
  <2>3. CASE pc' # "parse"
    BY <1>b, <2>1, <2>3
  <2>q. QED
    BY <2>2, <2>3
<1>8. CASE AbandonSerial \/ LaunchesOver
  BY <1>8, <1>b DEF AbandonSerial, LaunchesOver
<1>9. ASSUME NEW i, ProcessToolUse(i) \/ StartTool(i) \/ RefuseTool(i) \/ FinishTool(i)
      PROVE  TextInv'
  BY <1>9, <1>b DEF ProcessToolUse, StartTool, RefuseTool, FinishTool, Returns
<1>10. ASSUME NEW i, LaunchWorker(i) \/ Collect(i) PROVE TextInv'
  BY <1>10, <1>b DEF LaunchWorker, Collect
<1>11. ASSUME NEW i, Worker(i) PROVE TextInv'
  BY <1>11, <1>a DEF Worker, WorkerLooks, WorkerStarts, WorkerFinishes
<1>12. CASE Summarise \/ DetectLoop \/ DetectTextLoop
  <2>1. pc' \in {"done", "idle", "loop"}
    BY <1>12, Zenon DEF Summarise, DetectLoop, DetectTextLoop, AfterDetection
  <2>q. QED
    BY <1>b, <2>1
<1>13. CASE ParseText \/ Crash \/ Resume
  BY <1>13, <1>b DEF ParseText, Crash, Resume
<1>q. QED
  BY <1>1, <1>2, <1>3, <1>4, <1>5, <1>6, <1>7, <1>8, <1>9, <1>10, <1>11, <1>12, <1>13
  DEF Next, Engine, Turn, Stream, StreamEnds, ServeTool, ServeBatch, Decide, Worker,
      Quiet, vars

(* Every step keeps the results behind the message of their calls.       *)
LEMMA ServedStep ==
  ASSUME HistoryOnlyGrows, BatchInv, FileInv, [Next]_vars
  PROVE  ServedInv'
<1> USE DEF history, recovery, reply, world, executed
<1>0. ControlInv /\ StageInv /\ ServedInv /\ messages \in Seq(Msg)
  BY DEF BatchInv, FileInv
<1>l. Len(messages) \in Nat /\ DOMAIN messages = 1..Len(messages)
  BY <1>0, LenProperties
<1>a. ASSUME pc \in Serving, UNCHANGED <<messages, calls>>,
             \A j \in DOMAIN calls : stage'[j] = "answered" <=> stage[j] = "answered"
      PROVE  ServedInv'
  <2>1. PICK r \in DOMAIN messages : ServedAt(r)
    BY <1>0, <1>a DEF ServedInv
  <2>2. messages' = messages /\ calls' = calls
    BY <1>a
  <2>3. \A k \in (r + 1)..Len(messages) :
          \E i \in DOMAIN calls : messages[k] = ToolResult(calls[i].id) /\ stage[i] = "answered"
    BY <2>1, Zenon DEF ServedAt
  <2>4. \A k \in (r + 1)..Len(messages) :
          \E i \in DOMAIN calls : messages[k] = ToolResult(calls[i].id) /\ stage'[i] = "answered"
    BY <1>a, <2>3, Zenon
  <2>5. \A i \in DOMAIN calls : stage'[i] = "answered" =>
          \E k \in (r + 1)..Len(messages) : messages[k] = ToolResult(calls[i].id)
    BY <1>a, <2>1, Zenon DEF ServedAt
  <2>6. messages[r].uses = IdsOf(calls) /\ messages[r].answers = {}
    BY <2>1, Zenon DEF ServedAt
  <2>q. QED
    BY <2>2, <2>4, <2>5, <2>6, Zenon DEF ServedInv, ServedAt
<1>b. ASSUME pc' \notin Serving
      PROVE  ServedInv'
  BY <1>b, Zenon DEF ServedInv
<1>c. ASSUME pc \in Serving, NEW i \in DOMAIN stage, calls' = calls,
             messages' = Append(messages, ToolResult(calls[i].id)),
             stage' = [stage EXCEPT ![i] = "answered"]
      PROVE  ServedInv'
  <2>1. PICK r \in DOMAIN messages : ServedAt(r)
    BY <1>0, <1>c DEF ServedInv
  <2>2. i \in DOMAIN calls /\ DOMAIN stage = DOMAIN calls /\ calls \in Seq(Call)
    BY <1>0, <1>c DEF ControlInv
  <2>3. calls[i].id \in Ids
    <3>1. calls[i] \in Call
      BY ONLY <2>2
    <3>q. QED
      BY ONLY <3>1 DEF Call
  <2> DEFINE m == ToolResult(calls[i].id)
  <2>4. m \in Msg /\ messages' = Append(messages, m) /\ m = ToolResult(calls[i].id)
    BY <1>c, <2>3, Constructors
  <2> HIDE DEF m
  <2>5. /\ Len(messages') = Len(messages) + 1
        /\ \A k \in 1..Len(messages) : messages'[k] = messages[k]
        /\ messages'[Len(messages) + 1] = m
    BY <1>0, <2>4, AppendProperties
  <2>6. DOMAIN messages' = 1..(Len(messages) + 1)
    <3>1. messages' \in Seq(Msg)
      BY <1>0, <2>4, AppendProperties
    <3>q. QED
      BY <2>5, <3>1, LenProperties
  <2>7. r \in 1..Len(messages) /\ r \in DOMAIN messages'
    BY <1>l, <2>6
  <2>8. messages'[r] = messages[r]
    BY <2>5, <2>7, Zenon
  <2>9. \A j \in DOMAIN calls : stage'[j] = IF j = i THEN "answered" ELSE stage[j]
    BY <1>0, <1>c, <2>2 DEF ControlInv
  <2>10. \A k \in (r + 1)..Len(messages') :
           (k \in (r + 1)..Len(messages) /\ k \in 1..Len(messages)) \/ k = Len(messages) + 1
    BY <1>l, <2>5, <2>7
  <2>11. \A k \in (r + 1)..Len(messages) :
           k \in (r + 1)..Len(messages') /\ k \in 1..Len(messages)
    BY <1>l, <2>5, <2>7
  <2>12. Len(messages) + 1 \in (r + 1)..Len(messages')
    BY <1>l, <2>5, <2>7
  <2>13. ASSUME NEW k \in (r + 1)..Len(messages')
         PROVE  \E j \in DOMAIN calls :
                  messages'[k] = ToolResult(calls[j].id) /\ stage'[j] = "answered"
    <3>1. CASE k \in (r + 1)..Len(messages) /\ k \in 1..Len(messages)
      <4>1. PICK j \in DOMAIN calls : messages[k] = ToolResult(calls[j].id) /\ stage[j] = "answered"
        BY <2>1, <3>1, Zenon DEF ServedAt
      <4>2. stage'[j] = "answered"
        BY <2>9, <4>1
      <4>q. QED
        BY <2>5, <3>1, <4>1, <4>2, Zenon
    <3>2. CASE k = Len(messages) + 1
      BY <2>2, <2>4, <2>5, <2>9, <3>2, Zenon
    <3>q. QED
      BY <2>10, <3>1, <3>2, Zenon
  <2>14. ASSUME NEW j \in DOMAIN calls, stage'[j] = "answered"
         PROVE  \E k \in (r + 1)..Len(messages') : messages'[k] = ToolResult(calls[j].id)
    <3>1. CASE j = i
      BY <2>4, <2>5, <2>12, <3>1, Zenon
    <3>2. CASE j # i
      <4>1. stage[j] = "answered"
        BY <2>9, <2>14, <3>2
      <4>2. PICK k \in (r + 1)..Len(messages) : messages[k] = ToolResult(calls[j].id)
        BY <2>1, <4>1, Zenon DEF ServedAt
      <4>q. QED
        BY <2>5, <2>11, <4>2, Zenon
    <3>q. QED
      BY <3>1, <3>2
  <2>15. messages'[r].uses = IdsOf(calls) /\ messages'[r].answers = {}
    BY <2>1, <2>8, Zenon DEF ServedAt
  <2>q. QED
    BY <1>c, <2>7, <2>13, <2>14, <2>15, Zenon DEF ServedInv, ServedAt
<1>d. ASSUME pc \in Serving, UNCHANGED <<messages, calls>>, NEW i \in DOMAIN stage,
             NEW s \in Stages, s # "answered", stage[i] # "answered",
             stage' = [stage EXCEPT ![i] = s]
      PROVE  ServedInv'
  <2>1. \A j \in DOMAIN calls : stage'[j] = IF j = i THEN s ELSE stage[j]
    BY <1>0, <1>d DEF ControlInv
  <2>2. \A j \in DOMAIN calls : stage'[j] = "answered" <=> stage[j] = "answered"
    BY <1>d, <2>1
  <2>q. QED
    BY <1>a, <1>d, <2>2
<1>e. ASSUME pc \in Serving, UNCHANGED <<messages, calls>>, NEW s, s # "answered",
             stage' = [i \in DOMAIN stage |-> IF stage[i] = s THEN "dropped" ELSE stage[i]]
      PROVE  ServedInv'
  <2>1. \A j \in DOMAIN calls : stage'[j] = IF stage[j] = s THEN "dropped" ELSE stage[j]
    BY <1>0, <1>e DEF ControlInv
  <2>2. \A j \in DOMAIN calls : stage'[j] = "answered" <=> stage[j] = "answered"
    BY <1>e, <2>1
  <2>q. QED
    BY <1>a, <1>e, <2>2
<1>f. ASSUME UNCHANGED <<messages, calls, stage, pc>>
      PROVE  ServedInv'
  <2>1. CASE pc \in Serving
    BY <1>a, <1>f, <2>1
  <2>2. CASE pc \notin Serving
    BY <1>b, <1>f, <2>2
  <2>q. QED
    BY <2>1, <2>2
<1>1. CASE UNCHANGED vars
  BY <1>1, <1>f DEF vars
<1>2. CASE Submit \/ Complete \/ LoopExit \/ BudgetExceeded \/ ApiFails \/ BeginTurn
  BY <1>2, <1>b DEF Submit, Complete, LoopExit, BudgetExceeded, ApiFails, BeginTurn, Serving
<1>3. CASE StreamText \/ StreamToolUse
  BY <1>3, <1>b DEF StreamText, StreamToolUse, Serving
<1>4. CASE Interrupt \/ SwitchModel
  BY <1>4, <1>f DEF Interrupt, SwitchModel
<1>6. CASE ApiTooLong \/ ApiOverloaded \/ RetryAfterMaxTokens
  BY <1>6 DEF ApiTooLong, ApiOverloaded, RetryAfterMaxTokens, HistoryOnlyGrows
<1>7. CASE AddAssistant
  <2>1. CASE calls # <<>> /\ ~interrupted
    <3> DEFINE m == Assistant(IdsOf(calls))
    <3>1. /\ pc = "stream" /\ stage' = Partitioned /\ calls' = calls
          /\ messages' = Append(messages, m)
      BY <1>7, <2>1 DEF AddAssistant, WithReply
    <3>2. m \in Msg /\ m.uses = IdsOf(calls) /\ m.answers = {}
      BY <3>1, ReplyEnters
    <3> HIDE DEF m
    <3>3. /\ messages' \in Seq(Msg) /\ Len(messages') = Len(messages) + 1
          /\ messages'[Len(messages) + 1] = m
      BY <1>0, <3>1, <3>2, AppendProperties
    <3>4. Len(messages) + 1 \in DOMAIN messages' /\ ((Len(messages) + 1) + 1)..Len(messages') = {}
      BY <1>l, <3>3, LenProperties
    <3>5. \A i \in DOMAIN calls : stage'[i] # "answered"
      BY <3>1 DEF Partitioned
    <3>q. QED
      <4> DEFINE n == Len(messages) + 1
      <4>1. /\ messages'[n].uses = IdsOf(calls') /\ messages'[n].answers = {}
            /\ (n + 1)..Len(messages') = {}
        BY <3>1, <3>2, <3>3, <3>4, Zenon
      <4>2. n \in DOMAIN messages'
        BY <3>4
      <4>3. \A i \in DOMAIN calls' : stage'[i] # "answered"
        BY <3>1, <3>5, Zenon
      <4> HIDE DEF n
      <4>q. QED
        BY <4>1, <4>2, <4>3, Zenon DEF ServedInv, ServedAt
  <2>2. CASE ~(calls # <<>> /\ ~interrupted)
    <3>1. pc' \in {"parse", "done"}
      BY <1>7, <2>2, Zenon DEF AddAssistant
    <3>q. QED
      BY <1>b, <3>1 DEF Serving
  <2>q. QED
    BY <2>1, <2>2
<1>8. CASE AbandonSerial \/ LaunchesOver
  BY <1>8, <1>e DEF AbandonSerial, LaunchesOver, Drop, Serving
<1>9. ASSUME NEW i, ProcessToolUse(i) \/ StartTool(i) PROVE ServedInv'
  BY <1>9, <1>d DEF ProcessToolUse, StartTool, First, At, To, Serving, Stages
<1>10. ASSUME NEW i, RefuseTool(i) PROVE ServedInv'
  BY <1>10, <1>c DEF RefuseTool, At, To, ErrorResult, Serving
<1>11. ASSUME NEW i, FinishTool(i) \/ Collect(i) PROVE ServedInv'
  BY <1>11, <1>c DEF FinishTool, Collect, At, To, Serving
<1>12. ASSUME NEW i, LaunchWorker(i) PROVE ServedInv'
  BY <1>12, <1>d DEF LaunchWorker, First, At, To, Serving, Stages
<1>14. ASSUME NEW i, WorkerLooks(i) \/ WorkerStarts(i) \/ WorkerFinishes(i) PROVE ServedInv'
  <2>1. /\ i \in DOMAIN stage /\ stage[i] \in {"launched", "looked", "running"}
        /\ \E s \in {"looked", "running", "finished"} : stage' = [stage EXCEPT ![i] = s]
        /\ UNCHANGED <<messages, calls>>
    BY <1>14 DEF WorkerLooks, WorkerStarts, WorkerFinishes, At, To
  <2>2. pc \in Serving
    BY <1>0, <2>1 DEF StageInv, Over
  <2>q. QED
    BY <1>d, <2>1, <2>2 DEF Stages
<1>16. CASE Summarise \/ DetectLoop \/ DetectTextLoop
  <2>1. pc' \in {"done", "idle", "loop"}
    BY <1>16, Zenon DEF Summarise, DetectLoop, DetectTextLoop, AfterDetection
  <2>q. QED
    BY <1>b, <2>1 DEF Serving
<1>18. CASE ParseText
  <2>1. /\ calls' = <<TextCall>> /\ stage' = <<"serial">>
    BY <1>18, Zenon DEF ParseText
  <2>2. /\ Len(messages') = Len(messages) /\ messages' \in Seq(Msg) /\ Len(messages) \in Nat \ {0}
        /\ messages'[Len(messages)].uses = <<TextCall.id>>
        /\ messages'[Len(messages)].answers = {}
    BY <1>18, TextBecomesCall
  <2>3. Len(messages) \in DOMAIN messages' /\ (Len(messages) + 1)..Len(messages') = {}
    BY <2>2, LenProperties
  <2>4. /\ IdsOf(calls') = <<TextCall.id>> /\ DOMAIN calls' = {1}
        /\ \A i \in DOMAIN calls' : stage'[i] # "answered"
    BY ONLY <2>1 DEF IdsOf
  <2> DEFINE n == Len(messages)
  <2>5. /\ messages'[n].uses = IdsOf(calls') /\ messages'[n].answers = {}
        /\ (n + 1)..Len(messages') = {} /\ n \in DOMAIN messages'
    BY <2>2, <2>3, <2>4, Zenon
  <2> HIDE DEF n
  <2>q. QED
    BY <2>4, <2>5, Zenon DEF ServedInv, ServedAt
<1>19. CASE Crash \/ Resume
  BY <1>19, <1>b DEF Crash, Resume, Serving
<1>q. QED
  BY <1>1, <1>2, <1>3, <1>4, <1>6, <1>7, <1>8, <1>9, <1>10, <1>11, <1>12,
     <1>14, <1>16, <1>18, <1>19
  DEF Next, Engine, Turn, Stream, StreamEnds, ServeTool, ServeBatch, Decide, Worker,
      Quiet, vars

(* What a history leaves open.  A call of the batch being served may be  *)
(* pending; any other is answered, before the next message that calls    *)
(* tools, or was cut.                                                    *)
Pending(id) == pc \in Serving /\ \E c \in DOMAIN calls : calls[c].id = id /\ stage[c] \notin Over
Ordered(ms) ==
  \A i, r \in DOMAIN ms : \A id :
    i < r /\ Uses(ms[i], id) /\ ms[r].uses # <<>> =>
      id \in abandoned \/ \E k \in (i + 1)..r : id \in ms[k].answers
Answered(ms) ==
  \A i \in DOMAIN ms : \A id : Uses(ms[i], id) => id \in abandoned \/ AnsweredBehind(ms, i, id)

(* A line on disk calls what its message does, or what was cut of the    *)
(* text that has become a call since.                                    *)
LinesInv ==
  \A i \in 1..persisted :
    transcript[i].uses = messages[i].uses \/ \A id : Uses(transcript[i], id) => id \in abandoned

LastIsCut == \A id : Uses(messages[Len(messages)], id) => id \in abandoned

OpenInv ==
  /\ Ordered(messages)
  /\ \A i \in DOMAIN messages : \A id :
       Uses(messages[i], id) => id \in abandoned \/ AnsweredBehind(messages, i, id) \/ Pending(id)
  /\ pc = "parse" => LastIsCut
  /\ IF pc = "down" THEN Ordered(transcript) /\ Answered(transcript) ELSE LinesInv

(* What OpenInv says in the words of the run's property.                 *)
LEMMA NothingIsOpen ==
  ASSUME BatchInv, OpenInv
  PROVE  RequestIsAnswered
<1> SUFFICES ASSUME ~BatchIsOpen PROVE Settled(messages)
  BY DEF RequestIsAnswered
<1>1. ASSUME NEW id PROVE ~Pending(id)
  <2>1. pc \notin Serving \/ (pc = "collect" /\ Collected)
    BY DEF BatchIsOpen, Serving
  <2>2. CASE pc = "collect" /\ Collected
    <3>1. \A i \in DOMAIN stage : stage[i] \in Over
      BY <2>2 DEF BatchInv, Collected, OnThread, At, StageInv, None, Over, ControlInv, Stages,
                  TurnsAreTaken
    <3>2. DOMAIN stage = DOMAIN calls
      BY <2>2 DEF BatchInv, ControlInv, Serving
    <3>q. QED
      BY <3>1, <3>2 DEF Pending
  <2>q. QED
    BY <2>1, <2>2 DEF Pending
<1>2. \A i \in DOMAIN messages : \A id :
        Uses(messages[i], id) => id \in abandoned \/ AnsweredBehind(messages, i, id)
  BY <1>1, Zenon DEF OpenInv
<1>q. QED
  BY <1>2, Zenon DEF Settled, Uses

(* A history that grows by at most one message keeps what is open known. *)
LEMMA OpenGrows ==
  ASSUME FileInv, OpenInv, pc # "down", pc' # "down", abandoned \subseteq abandoned', NEW m \in Msg,
         messages' = messages \/ messages' = Append(messages, m),
         \A id : Pending(id) => \/ Pending(id)' \/ id \in abandoned'
                               \/ (messages' = Append(messages, m) /\ id \in m.answers),
         m.uses # <<>> => /\ \A id : ~Pending(id)
                          /\ \A id : Uses(m, id) => Pending(id)' \/ id \in abandoned',
         UNCHANGED <<transcript, persisted>> \/ persistTranscriptDelta(messages'),
         pc' = "parse" => LastIsCut'
  PROVE  OpenInv'
<1> DEFINE n == Len(messages)
<1>0. /\ messages \in Seq(Msg) /\ transcript \in Seq(Msg) /\ persisted \in Nat
      /\ n \in Nat /\ Len(transcript) \in Nat
      /\ DOMAIN messages = 1..n /\ DOMAIN transcript = 1..Len(transcript)
      /\ persisted <= n /\ Len(transcript) = persisted
  BY LenProperties DEF FileInv
<1>1. /\ messages' \in Seq(Msg)
      /\ \A i \in 1..n : messages'[i] = messages[i]
      /\ \/ messages' = messages /\ Len(messages') = n
         \/ /\ messages' = Append(messages, m) /\ Len(messages') = n + 1
            /\ messages'[n + 1] = m
  <2>1. CASE messages' = messages
    BY <1>0, <2>1
  <2>2. CASE messages' = Append(messages, m)
    <3>1. /\ Append(messages, m) \in Seq(Msg) /\ Len(Append(messages, m)) = n + 1
          /\ \A i \in 1..n : Append(messages, m)[i] = messages[i]
          /\ Append(messages, m)[n + 1] = m
      BY <1>0, AppendProperties
    <3>q. QED
      BY <2>2, <3>1, Zenon
  <2>q. QED
    BY <2>1, <2>2
<1>2. DOMAIN messages' = 1..Len(messages') /\ Len(messages') \in Nat /\ n <= Len(messages')
  BY <1>0, <1>1, LenProperties
<1> HIDE DEF n
<1>3. \A i \in DOMAIN messages' :
        \/ i \in 1..n /\ i \in DOMAIN messages /\ messages'[i] = messages[i]
        \/ i = n + 1 /\ messages'[i] = m /\ messages' = Append(messages, m)
  <2> TAKE i \in DOMAIN messages'
  <2>1. i \in 1..Len(messages') /\ n \in Nat /\ DOMAIN messages = 1..n
    BY <1>0, <1>2
  <2>2. CASE Len(messages') = n
    BY <1>1, <2>1, <2>2
  <2>3. CASE messages' = Append(messages, m) /\ Len(messages') = n + 1 /\ messages'[n + 1] = m
    <3>1. i \in 1..n \/ i = n + 1
      BY ONLY <2>1, <2>3
    <3>q. QED
      BY <1>1, <2>1, <2>3, <3>1, Zenon
  <2>q. QED
    BY <1>1, <2>2, <2>3, Zenon
<1>4. \A i \in 1..n : messages'[i].answers = messages[i].answers
  BY <1>1
<1>5. Ordered(messages)'
  <2> SUFFICES ASSUME NEW i \in DOMAIN messages', NEW r \in DOMAIN messages', NEW id,
                      i < r, Uses(messages'[i], id), messages'[r].uses # <<>>
               PROVE  id \in abandoned' \/ \E k \in (i + 1)..r : id \in messages'[k].answers
    BY DEF Ordered
  <2>1. i \in 1..n /\ i \in DOMAIN messages /\ Uses(messages[i], id)
    <3>1. i # n + 1
      BY <1>0, <1>3
    <3>q. QED
      BY <1>3, <3>1
  <2>2. CASE r \in 1..n /\ r \in DOMAIN messages /\ messages'[r] = messages[r]
    <3>1. id \in abandoned \/ \E k \in (i + 1)..r : id \in messages[k].answers
      BY <2>1, <2>2, Zenon DEF OpenInv, Ordered
    <3>2. \A k \in (i + 1)..r : k \in 1..n
      BY <1>0, <2>1, <2>2
    <3>q. QED
      BY <1>4, <3>1, <3>2
  <2>3. CASE r = n + 1 /\ messages'[r] = m
    <3>1. id \in abandoned \/ AnsweredBehind(messages, i, id)
      BY <2>1, <2>3, Zenon DEF OpenInv
    <3>2. \A k \in (i + 1)..n : k \in 1..n /\ k \in (i + 1)..r
      BY <1>0, <2>1, <2>3
    <3>3. AnsweredBehind(messages, i, id) => \E k \in (i + 1)..r : id \in messages'[k].answers
      BY <1>4, <3>2, Zenon DEF AnsweredBehind, n
    <3>q. QED
      BY <3>1, <3>3
  <2>q. QED
    BY <1>3, <2>2, <2>3
<1>6. ASSUME NEW i \in DOMAIN messages', NEW id, Uses(messages'[i], id)
      PROVE  id \in abandoned' \/ AnsweredBehind(messages', i, id) \/ Pending(id)'
  <2>1. CASE i \in 1..n /\ i \in DOMAIN messages /\ messages'[i] = messages[i]
    <3>1. id \in abandoned \/ AnsweredBehind(messages, i, id) \/ Pending(id)
      BY <1>6, <2>1, Zenon DEF OpenInv
    <3>2. ASSUME AnsweredBehind(messages, i, id) PROVE AnsweredBehind(messages', i, id)
      <4>1. PICK k \in (i + 1)..n : id \in messages[k].answers
        BY <3>2 DEF AnsweredBehind, n
      <4>2. k \in 1..n /\ k \in (i + 1)..Len(messages')
        <5>1. /\ n \in Nat /\ Len(messages') \in Nat /\ n <= Len(messages')
              /\ i \in 1..n /\ k \in (i + 1)..n
          BY <1>0, <1>2, <2>1, <4>1, Zenon
        <5>q. QED
          BY ONLY <5>1
      <4>q. QED
        BY <1>4, <4>1, <4>2, Zenon DEF AnsweredBehind
    <3>3. ASSUME messages' = Append(messages, m), id \in m.answers
          PROVE  AnsweredBehind(messages', i, id) \/ messages' = messages
      <4>1. CASE Len(messages') = n + 1 /\ messages'[n + 1] = m
        <5>1. n + 1 \in (i + 1)..Len(messages')
          BY <1>0, <2>1, <4>1
        <5>q. QED
          BY <3>3, <4>1, <5>1, Zenon DEF AnsweredBehind
      <4>q. QED
        BY <1>1, <4>1
    <3>4. messages' = messages => messages' # Append(messages, m)
      <4>1. Len(Append(messages, m)) = Len(messages) + 1 /\ Len(messages) \in Nat
        BY <1>0, AppendProperties, LenProperties
      <4>q. QED
        BY <4>1
    <3>q. QED
      BY <3>1, <3>2, <3>3, <3>4
  <2>2. CASE i = n + 1 /\ messages'[i] = m
    <3>1. m.uses # <<>>
      BY <1>6, <2>2 DEF Uses
    <3>q. QED
      BY <1>6, <2>2, <3>1
  <2>q. QED
    BY <1>3, <2>1, <2>2
<1>7. LinesInv'
  <2>1. ASSUME NEW i \in 1..persisted
        PROVE  messages[i].uses = messages'[i].uses /\ i \in 1..n
    BY <1>0, <1>1
  <2>2. CASE UNCHANGED <<transcript, persisted>>
    BY <2>1, <2>2, Zenon DEF OpenInv, LinesInv
  <2>3. CASE persistTranscriptDelta(messages')
    <3>1. persisted <= Len(messages')
      <4>1. /\ n \in Nat /\ Len(messages') \in Nat /\ n <= Len(messages')
            /\ persisted \in Nat /\ persisted <= n
        BY <1>0, <1>2, Zenon
      <4>q. QED
        BY ONLY <4>1
    <3>2. /\ persisted' \in Nat
          /\ \A i \in 1..persisted : transcript'[i] = transcript[i]
          /\ \A i \in (persisted + 1)..persisted' : transcript'[i] = messages'[i]
      BY <1>0, <1>1, <2>3, <3>1, DeltaIsWritten, Zenon
    <3>3. \A i \in 1..persisted' : i \in 1..persisted \/ i \in (persisted + 1)..persisted'
      BY <1>0, <3>2
    <3>4. \A i \in 1..persisted :
            \/ transcript[i].uses = messages[i].uses
            \/ \A id : Uses(transcript[i], id) => id \in abandoned
      BY Zenon DEF OpenInv, LinesInv
    <3>5. ASSUME NEW i \in 1..persisted'
          PROVE  \/ transcript'[i].uses = messages'[i].uses
                 \/ \A id : Uses(transcript'[i], id) => id \in abandoned'
      <4>1. CASE i \in 1..persisted
        BY <2>1, <3>2, <3>4, <4>1
      <4>2. CASE i \in (persisted + 1)..persisted'
        BY <3>2, <4>2
      <4>q. QED
        BY <3>3, <4>1, <4>2
    <3>q. QED
      BY <3>5, Zenon DEF LinesInv
  <2>q. QED
    BY <2>2, <2>3
<1>q. QED
  BY <1>5, <1>6, <1>7, Zenon DEF OpenInv

(* A text that becomes a call replaces the last message, whose own calls *)
(* were cut, and is served at once.                                      *)
LEMMA OpenReplaced ==
  ASSUME BatchInv, FileInv, OpenInv, ParseText
  PROVE  OpenInv'
<1> DEFINE n == Len(messages)
<1>1. /\ messages' \in Seq(Msg) /\ Len(messages') = n /\ n \in Nat \ {0}
      /\ \A i \in 1..(n - 1) : messages'[i] = messages[i]
      /\ messages'[n].uses = <<TextCall.id>> /\ messages'[n].answers = {}
      /\ messages[n].answers = {}
  BY TextBecomesCall
<1>2. /\ pc = "parse" /\ pc' = "serve text" /\ abandoned' = abandoned
      /\ transcript' = transcript /\ persisted' = persisted
      /\ calls' = <<TextCall>> /\ stage' = <<"serial">>
  BY DEF ParseText, executed
<1>3. messages \in Seq(Msg) /\ persisted \in Nat /\ persisted <= n
  BY <1>2 DEF FileInv
<1>4. DOMAIN messages = 1..n /\ DOMAIN messages' = 1..n
  BY <1>1, <1>3, LenProperties
<1>5. LastIsCut /\ LinesInv /\ Ordered(messages)
  BY <1>2 DEF OpenInv
<1> HIDE DEF n
<1>6. PICK d : d = TextCall.id /\ Pending(d)'
  <2> SUFFICES ASSUME NEW d, d = TextCall.id PROVE Pending(d)'
    OBVIOUS
  <2>1. DOMAIN <<TextCall>> = {1} /\ <<TextCall>>[1] = TextCall /\ <<"serial">>[1] = "serial"
    OBVIOUS
  <2>2. pc' \in Serving /\ stage'[1] \notin Over
    BY <1>2, <2>1 DEF Serving, Over
  <2>3. 1 \in DOMAIN calls' /\ calls'[1].id = d
    BY <1>2, <2>1, Zenon
  <2>q. QED
    BY <2>2, <2>3, Zenon DEF Pending
<1>7. ASSUME NEW i \in 1..(n - 1), NEW id, Uses(messages[i], id)
      PROVE  id \in abandoned \/ \E k \in (i + 1)..(n - 1) : id \in messages'[k].answers
  <2>1. ~Pending(id)
    BY <1>2 DEF Pending, Serving
  <2>2. i \in DOMAIN messages
    BY <1>1, <1>4
  <2>3. id \in abandoned \/ AnsweredBehind(messages, i, id)
    BY <1>7, <2>1, <2>2, Zenon DEF OpenInv
  <2>4. ASSUME NEW k \in (i + 1)..n, id \in messages[k].answers
        PROVE  k \in (i + 1)..(n - 1) /\ id \in messages'[k].answers
    <3>1. k # n
      BY <1>1, <2>4
    <3>2. k \in (i + 1)..(n - 1) /\ k \in 1..(n - 1)
      BY <1>1, <3>1
    <3>q. QED
      BY <1>1, <2>4, <3>2
  <2>q. QED
    BY <2>3, <2>4, Zenon DEF AnsweredBehind, n
<1>8. \A i \in 1..n : i = n \/ i \in 1..(n - 1)
  BY <1>1
<1>9. Ordered(messages)'
  <2> SUFFICES ASSUME NEW i \in DOMAIN messages', NEW r \in DOMAIN messages', NEW id,
                      i < r, Uses(messages'[i], id), messages'[r].uses # <<>>
               PROVE  id \in abandoned' \/ \E k \in (i + 1)..r : id \in messages'[k].answers
    BY DEF Ordered
  <2>1. i \in 1..(n - 1) /\ i \in DOMAIN messages /\ Uses(messages[i], id)
    <3>1. i \in 1..(n - 1)
      BY <1>1, <1>4
    <3>q. QED
      BY <1>1, <1>4, <3>1
  <2>2. CASE r = n
    <3>1. \A k \in (i + 1)..(n - 1) : k \in (i + 1)..r
      BY <1>1, <2>2
    <3>q. QED
      BY <1>2, <1>7, <2>1, <3>1
  <2>3. CASE r \in 1..(n - 1)
    <3>1. r \in DOMAIN messages /\ messages[r].uses # <<>>
      BY <1>1, <1>4, <2>3
    <3>2. id \in abandoned \/ \E k \in (i + 1)..r : id \in messages[k].answers
      BY <1>5, <2>1, <3>1, Zenon DEF Ordered
    <3>3. \A k \in (i + 1)..r : k \in 1..(n - 1)
      BY <1>1, <2>1, <2>3
    <3>q. QED
      BY <1>1, <1>2, <3>2, <3>3
  <2>q. QED
    BY <1>4, <1>8, <2>2, <2>3
<1>10. ASSUME NEW i \in DOMAIN messages', NEW id, Uses(messages'[i], id)
       PROVE  id \in abandoned' \/ AnsweredBehind(messages', i, id) \/ Pending(id)'
  <2>1. CASE i = n
    <3>1. id = TextCall.id
      <4>1. DOMAIN <<TextCall.id>> = {1} /\ <<TextCall.id>>[1] = TextCall.id
        OBVIOUS
      <4>q. QED
        BY <1>1, <1>10, <2>1, <4>1, Zenon DEF Uses
    <3>q. QED
      BY <1>6, <3>1, Zenon
  <2>2. CASE i \in 1..(n - 1)
    <3>1. id \in abandoned \/ \E k \in (i + 1)..(n - 1) : id \in messages'[k].answers
      BY <1>1, <1>7, <1>10, <2>2
    <3>2. \A k \in (i + 1)..(n - 1) : k \in (i + 1)..Len(messages')
      BY <1>1
    <3>q. QED
      BY <1>2, <3>1, <3>2, Zenon DEF AnsweredBehind
  <2>q. QED
    BY <1>4, <1>8, <2>1, <2>2
<1>11. LinesInv'
  <2> SUFFICES ASSUME NEW i \in 1..persisted
               PROVE  \/ transcript[i].uses = messages'[i].uses
                      \/ \A id : Uses(transcript[i], id) => id \in abandoned
    BY <1>2, Zenon DEF LinesInv
  <2>1. i \in 1..n
    BY <1>1, <1>3
  <2>2. transcript[i].uses = messages[i].uses \/ \A id : Uses(transcript[i], id) => id \in abandoned
    BY <1>5, Zenon DEF LinesInv
  <2>3. CASE i = n
    BY <1>5, <2>2, <2>3 DEF LastIsCut, n, Uses
  <2>4. CASE i \in 1..(n - 1)
    BY <1>1, <2>2, <2>4
  <2>q. QED
    BY <1>8, <2>1, <2>3, <2>4
<1>q. QED
  BY <1>2, <1>9, <1>10, <1>11, Zenon DEF OpenInv

(* When the process dies, only the last message on disk that calls tools *)
(* can have a call open, and that is cut.                                *)
LEMMA OpenAfterCrash ==
  ASSUME FileInv, OpenInv, Crash
  PROVE  OpenInv'
<1>1. /\ pc # "down" /\ pc' = "down" /\ messages' = <<>> /\ transcript' = transcript
      /\ abandoned' = abandoned \cup CallsOfLast(transcript)
  BY DEF Crash
<1>2. /\ messages \in Seq(Msg) /\ transcript \in Seq(Msg) /\ persisted \in Nat
      /\ persisted <= Len(messages) /\ Len(transcript) = persisted
      /\ \A k \in 1..persisted : SameLine(transcript[k], messages[k])
  BY <1>1 DEF FileInv
<1>3. /\ DOMAIN messages = 1..Len(messages) /\ DOMAIN transcript = 1..persisted
      /\ Len(messages) \in Nat
  BY <1>2, LenProperties
<1>4. \A k \in 1..persisted : k \in DOMAIN messages /\ k \in DOMAIN transcript
  BY <1>2, <1>3
<1>5. ASSUME NEW r \in 1..persisted, transcript[r].uses # <<>>
      PROVE  messages[r].uses # <<>>
  <2>1. messages[r] \in Msg /\ transcript[r] \in Msg /\ SameLine(transcript[r], messages[r])
    BY <1>2, <1>4
  <2>2. CASE IsTextCall(messages[r])
    <3>1. DOMAIN messages[r].uses # {} /\ DOMAIN <<>> = {}
      BY <2>2, EmptyTuple DEF IsTextCall
    <3>q. QED
      BY <3>1
  <2>3. CASE Restored(transcript[r]) = Restored(messages[r])
    BY <1>5, <2>1, <2>3, RestoredFields
  <2>q. QED
    BY <2>1, <2>2, <2>3 DEF SameLine
<1>6. ASSUME NEW i \in 1..persisted, NEW r \in 1..persisted, NEW id,
             i < r, Uses(transcript[i], id), transcript[r].uses # <<>>
      PROVE  id \in abandoned \/ \E k \in (i + 1)..r : id \in transcript[k].answers
  <2>1. Uses(messages[i], id) \/ id \in abandoned
    <3>1. transcript[i].uses = messages[i].uses \/ \A d : Uses(transcript[i], d) => d \in abandoned
      BY <1>1, Zenon DEF OpenInv, LinesInv
    <3>q. QED
      BY <1>6, <3>1 DEF Uses
  <2>2. messages[r].uses # <<>> /\ i \in DOMAIN messages /\ r \in DOMAIN messages
    BY <1>4, <1>5, <1>6
  <2>3. Ordered(messages)
    BY DEF OpenInv
  <2>4. id \in abandoned \/ \E k \in (i + 1)..r : id \in messages[k].answers
    BY <1>6, <2>1, <2>2, <2>3, Zenon DEF Ordered
  <2>5. \A k \in (i + 1)..r : k \in 1..persisted
    BY <1>2
  <2>q. QED
    BY <1>2, <2>4, <2>5 DEF SameLine
<1>7. Ordered(transcript)'
  BY <1>1, <1>3, <1>6 DEF Ordered
<1>8. ASSUME NEW i \in 1..persisted, NEW id, Uses(transcript[i], id)
      PROVE  id \in abandoned' \/ AnsweredBehind(transcript, i, id)
  <2>1. transcript[i].uses # <<>>
    BY <1>8, EmptyTuple DEF Uses
  <2>2. CASE \A k \in DOMAIN transcript : transcript[k].uses # <<>> => k <= i
    <3>1. i \in LastRequest(transcript)
      BY <1>4, <2>1, <2>2 DEF LastRequest
    <3>2. id \in CallsOfLast(transcript)
      BY <1>8, <3>1 DEF CallsOfLast, Uses
    <3>q. QED
      BY <1>1, <3>2
  <2>3. CASE ~\A k \in DOMAIN transcript : transcript[k].uses # <<>> => k <= i
    <3>1. PICK r \in 1..persisted : transcript[r].uses # <<>> /\ ~(r <= i)
      BY <1>3, <2>3
    <3>2. i < r
      BY <3>1
    <3>3. id \in abandoned \/ \E k \in (i + 1)..r : id \in transcript[k].answers
      BY <1>6, <1>8, <3>1, <3>2
    <3>4. \A k \in (i + 1)..r : k \in (i + 1)..Len(transcript)
      BY <1>2
    <3>q. QED
      BY <1>1, <3>3, <3>4 DEF AnsweredBehind
  <2>q. QED
    BY <2>2, <2>3
<1>9. Answered(transcript)'
  BY <1>1, <1>3, <1>8, Zenon DEF Answered, AnsweredBehind
<1>10. DOMAIN messages' = {}
  BY <1>1, EmptyTuple
<1>q. QED
  BY <1>1, <1>7, <1>9, <1>10, Zenon DEF OpenInv, Ordered

(* --continue takes over no more open calls than the file has.           *)
LEMMA OpenResumed ==
  ASSUME FileInv, OpenInv, Resume
  PROVE  OpenInv'
<1>1. /\ pc = "down" /\ pc' = "idle" /\ messages' = Load(transcript) /\ abandoned' = abandoned
      /\ persisted' = Len(transcript) /\ transcript' = transcript
  BY DEF Resume, executed
<1>2. transcript \in Seq(Msg) /\ Ordered(transcript) /\ Answered(transcript)
  BY <1>1 DEF FileInv, OpenInv
<1>3. Len(transcript) \in Nat /\ DOMAIN transcript = 1..Len(transcript)
  BY <1>2, LenProperties
<1>4. \A i \in DOMAIN transcript : transcript[i] \in Msg
  BY <1>2
<1>5. /\ Len(messages') = Len(transcript) /\ DOMAIN messages' = DOMAIN transcript
      /\ \A i \in DOMAIN transcript : messages'[i] = Restored(transcript[i])
  <2>1. messages' = [i \in 1..Len(transcript) |-> Restored(transcript[i])]
    BY <1>1, <1>3 DEF Load
  <2>2. \A i \in 1..Len(transcript) : Restored(transcript[i]) \in Msg
    BY <1>3, <1>4, RestoredFields
  <2>q. QED
    BY <1>3, <2>1, <2>2
<1>6. \A i \in DOMAIN transcript : /\ messages'[i].uses = transcript[i].uses
                                   /\ messages'[i].answers = transcript[i].answers
  BY <1>4, <1>5, RestoredFields
<1>7. Ordered(messages)'
  <2> SUFFICES ASSUME NEW i \in DOMAIN messages', NEW r \in DOMAIN messages', NEW id,
                      i < r, Uses(messages'[i], id), messages'[r].uses # <<>>
               PROVE  id \in abandoned' \/ \E k \in (i + 1)..r : id \in messages'[k].answers
    BY DEF Ordered
  <2>1. Uses(transcript[i], id) /\ transcript[r].uses # <<>>
    BY <1>5, <1>6 DEF Uses
  <2>2. id \in abandoned \/ \E k \in (i + 1)..r : id \in transcript[k].answers
    BY <1>2, <1>5, <2>1 DEF Ordered
  <2>3. \A k \in (i + 1)..r : k \in DOMAIN transcript
    BY <1>3, <1>5
  <2>q. QED
    BY <1>1, <1>6, <2>2, <2>3
<1>8. ASSUME NEW i \in DOMAIN messages', NEW id, Uses(messages'[i], id)
      PROVE  id \in abandoned' \/ AnsweredBehind(messages', i, id)
  <2>1. id \in abandoned \/ AnsweredBehind(transcript, i, id)
    BY <1>2, <1>5, <1>6, <1>8 DEF Uses, Answered
  <2>2. \A k \in (i + 1)..Len(transcript) : k \in DOMAIN transcript
    BY <1>3, <1>5
  <2>q. QED
    BY <1>1, <1>5, <1>6, <2>1, <2>2 DEF AnsweredBehind
<1>9. LinesInv'
  BY <1>1, <1>3, <1>6 DEF LinesInv
<1>q. QED
  BY <1>1, <1>7, <1>8, <1>9, Zenon DEF OpenInv

(* No path through the batch, a crash or a resume leaves a call open that*)
(* is neither pending nor cut.                                           *)
LEMMA OpenStep ==
  ASSUME HistoryOnlyGrows, BatchInv, FileInv, OpenInv, [Next]_vars
  PROVE  OpenInv'
<1> USE DEF history, recovery, reply, world, executed
<1>0. ControlInv /\ StageInv /\ TurnsAreTaken
  BY DEF BatchInv
<1>u. User \in Msg /\ User.uses = <<>> /\ User.answers = {}
  BY Constructors
<1>s. pc \notin Serving => \A id : ~Pending(id)
  BY Zenon DEF Pending
<1>o. (\A i \in DOMAIN stage : stage[i] \in Over) => \A id : ~Pending(id)
  <2>1. pc \in Serving => DOMAIN stage = DOMAIN calls
    BY <1>0 DEF ControlInv
  <2>q. QED
    BY <2>1, Zenon DEF Pending
<1>a. ASSUME UNCHANGED <<messages, transcript, persisted>>, pc # "down", pc' # "down",
             abandoned \subseteq abandoned',
             \A id : Pending(id) => Pending(id)' \/ id \in abandoned',
             pc' = "parse" => pc = "parse"
      PROVE  OpenInv'
  <2>1. pc' = "parse" => LastIsCut'
    BY <1>a DEF OpenInv, LastIsCut
  <2>2. messages' = messages /\ UNCHANGED <<transcript, persisted>>
    BY <1>a
  <2>3. \A id : Pending(id) => \/ Pending(id)' \/ id \in abandoned'
                              \/ (messages' = Append(messages, User) /\ id \in User.answers)
    BY <1>a, Zenon
  <2>q. QED
    BY <1>a, <1>u, <2>1, <2>2, <2>3, OpenGrows, Zenon
<1>b. ASSUME UNCHANGED <<messages, transcript, persisted, calls, stage, pc, abandoned>>, pc # "down"
      PROVE  OpenInv'
  <2>1. \A id : Pending(id) => Pending(id)'
    BY <1>b DEF Pending
  <2>q. QED
    BY <1>a, <1>b, <2>1
<1>c. ASSUME NEW m \in Msg, m.uses = <<>>, m.answers = {},
             messages' = messages \/ messages' = Append(messages, m),
             \A id : ~Pending(id), abandoned' = abandoned,
             pc # "down", pc' \notin {"down", "parse"},
             UNCHANGED <<transcript, persisted>> \/ persistTranscriptDelta(messages')
      PROVE  OpenInv'
  BY <1>c, OpenGrows
<1>t. ASSUME NEW i \in DOMAIN stage, NEW s, s \notin Over, stage' = [stage EXCEPT ![i] = s],
             UNCHANGED <<messages, transcript, persisted, calls, abandoned>>,
             pc \in Serving, pc' \in Serving
      PROVE  OpenInv'
  <2>1. \A j \in DOMAIN stage : stage'[j] = IF j = i THEN s ELSE stage[j]
    BY <1>0, <1>t DEF ControlInv
  <2>2. DOMAIN stage = DOMAIN calls /\ calls' = calls
    BY <1>0, <1>t DEF ControlInv
  <2>3. \A id : Pending(id) => Pending(id)'
    BY <1>t, <2>1, <2>2 DEF Pending
  <2>q. QED
    BY <1>a, <1>t, <2>3 DEF Serving
<1>r. ASSUME NEW i \in DOMAIN stage, stage[i] # "answered",
             stage' = [stage EXCEPT ![i] = "answered"],
             messages' = Append(messages, ToolResult(calls[i].id)),
             UNCHANGED <<transcript, persisted, calls, abandoned>>,
             pc \in Serving, pc' \in Serving
      PROVE  OpenInv'
  <2>1. \A j \in DOMAIN stage : stage'[j] = IF j = i THEN "answered" ELSE stage[j]
    BY <1>0, <1>r DEF ControlInv
  <2>2. DOMAIN stage = DOMAIN calls /\ calls' = calls /\ calls[i].id \in Ids
    BY <1>0, <1>r, OpenCallsCanBeAnswered DEF ControlInv
  <2> DEFINE m == ToolResult(calls[i].id)
  <2>3. m \in Msg /\ m.uses = <<>> /\ m.answers = {calls[i].id} /\ messages' = Append(messages, m)
    BY <1>r, <2>2, Constructors
  <2> HIDE DEF m
  <2>4. \A id : Pending(id) => Pending(id)' \/ id \in m.answers
    BY <1>r, <2>1, <2>2, <2>3 DEF Pending
  <2>5. pc # "down" /\ pc' # "down" /\ pc' # "parse"
    BY <1>r DEF Serving
  <2>q. QED
    BY <1>r, <2>3, <2>4, <2>5, OpenGrows
<1>d. ASSUME NEW s, Drop(s), UNCHANGED <<messages, transcript, persisted, calls>>,
             pc \in Serving, pc' \in Serving
      PROVE  OpenInv'
  <2>1. /\ abandoned' = abandoned \cup IdsAt(Standing(s))
        /\ \A j \in DOMAIN stage : stage'[j] = IF stage[j] = s THEN "dropped" ELSE stage[j]
    BY <1>d DEF Drop
  <2>2. DOMAIN stage = DOMAIN calls /\ calls' = calls
    BY <1>0, <1>d DEF ControlInv
  <2>3. \A id : Pending(id) => Pending(id)' \/ id \in abandoned'
    BY <1>d, <2>1, <2>2 DEF Pending, IdsAt, Standing
  <2>q. QED
    BY <1>a, <1>d, <2>1, <2>3 DEF Serving
<1>1. CASE UNCHANGED vars
  BY <1>1 DEF vars, OpenInv, Ordered, Answered, AnsweredBehind, Pending, LastIsCut, LinesInv
<1>2. CASE Submit \/ Complete
  <2>1. /\ pc \notin Serving /\ pc # "down" /\ pc' \notin {"down", "parse"}
        /\ abandoned' = abandoned
        /\ messages' = messages \/ messages' = Append(messages, User)
        /\ persistTranscriptDelta(messages')
    BY <1>2 DEF Submit, Complete, Serving
  <2>q. QED
    BY <1>c, <1>s, <1>u, <2>1
<1>3. CASE LoopExit \/ BudgetExceeded \/ ApiFails
  <2>1. /\ pc \notin Serving /\ pc # "down" /\ pc' \notin {"down", "parse"}
        /\ abandoned' = abandoned
        /\ UNCHANGED <<messages, transcript, persisted>>
    BY <1>3 DEF LoopExit, BudgetExceeded, ApiFails, Serving
  <2>q. QED
    BY <1>c, <1>s, <1>u, <2>1
<1>4. CASE BeginTurn
  <2>1. messages' = messages
    BY <1>4, TurnsKeepTheHistory
  <2>2. /\ pc \notin Serving /\ pc # "down" /\ pc' \notin {"down", "parse"}
        /\ abandoned' = abandoned
        /\ UNCHANGED <<transcript, persisted>>
    BY <1>4 DEF BeginTurn, Serving
  <2>q. QED
    BY <1>c, <1>s, <1>u, <2>1, <2>2
<1>5. CASE StreamText \/ StreamToolUse
  <2>1. /\ pc \notin Serving /\ pc # "down" /\ pc' \notin {"down", "parse"}
        /\ abandoned' = abandoned
        /\ UNCHANGED <<messages, transcript, persisted>>
    BY <1>5 DEF StreamText, StreamToolUse, Serving
  <2>q. QED
    BY <1>c, <1>s, <1>u, <2>1
<1>6. CASE ApiTooLong \/ ApiOverloaded \/ RetryAfterMaxTokens
  BY <1>6 DEF ApiTooLong, ApiOverloaded, RetryAfterMaxTokens, HistoryOnlyGrows
<1>7. CASE AddAssistant
  <2> DEFINE m == Assistant(IdsOf(calls))
  <2>1. /\ pc = "stream" /\ pc' \in {"serve", "parse", "done"} /\ calls' = calls
        /\ messages' = WithReply /\ persistTranscriptDelta(messages')
        /\ IF calls # <<>> /\ ~interrupted
           THEN pc' = "serve" /\ stage' = Partitioned /\ abandoned' = abandoned
           ELSE abandoned' = abandoned \cup IdsAt(DOMAIN calls)
    BY <1>7 DEF AddAssistant, PersistReply
  <2>2. m \in Msg /\ m.uses = IdsOf(calls) /\ m.answers = {}
    BY <2>1, ReplyEnters
  <2>3. \A id : Uses(m, id) => \E c \in DOMAIN calls : calls[c].id = id
    BY <2>2 DEF Uses, IdsOf
  <2>4. pc \notin Serving /\ pc # "down" /\ pc' # "down"
    BY <2>1 DEF Serving
  <2>5. messages' = messages \/ messages' = Append(messages, m)
    BY <2>1 DEF WithReply
  <2>6. \A id : Uses(m, id) => Pending(id)' \/ id \in abandoned'
    <3>1. CASE calls # <<>> /\ ~interrupted
      <4>1. pc' \in Serving /\ \A c \in DOMAIN calls : stage'[c] \notin Over
        BY <2>1, <3>1 DEF Partitioned, Over, Serving
      <4>q. QED
        BY <2>1, <2>3, <4>1, Zenon DEF Pending
    <3>2. CASE ~(calls # <<>> /\ ~interrupted)
      BY <2>1, <2>3, <3>2 DEF IdsAt
    <3>q. QED
      BY <3>1, <3>2
  <2>7. ASSUME pc' = "parse" PROVE LastIsCut'
    <3>1. parsed # <<>> /\ abandoned' = abandoned \cup IdsAt(DOMAIN calls)
      BY <1>7, <2>1, <2>7 DEF AddAssistant
    <3>2. text # NoText
      BY <2>1, <3>1 DEF BatchInv, TextInv
    <3>3. messages' = Append(messages, m)
      BY <2>1, <3>2 DEF WithReply
    <3>4. messages \in Seq(Msg)
      BY DEF FileInv
    <3>5. messages'[Len(messages')] = m
      <4> HIDE DEF m
      <4>q. QED
        BY <2>2, <3>3, <3>4, AppendProperties
    <3>6. \A id : Uses(m, id) => id \in abandoned'
      BY <2>3, <3>1 DEF IdsAt
    <3>q. QED
      BY <3>5, <3>6, Zenon DEF LastIsCut
  <2> HIDE DEF m
  <2>8. abandoned \subseteq abandoned'
    BY <2>1
  <2>q. QED
    BY <1>s, <2>1, <2>2, <2>4, <2>5, <2>6, <2>7, <2>8, OpenGrows, Zenon
<1>8. CASE AbandonSerial \/ LaunchesOver
  <2>1. /\ Drop("serial") \/ Drop("queued")
        /\ UNCHANGED <<messages, transcript, persisted, calls>>
        /\ pc \in Serving /\ pc' \in Serving
    BY <1>8 DEF AbandonSerial, LaunchesOver, Serving
  <2>q. QED
    BY <1>d, <2>1
<1>9. ASSUME NEW i, ProcessToolUse(i) \/ StartTool(i) PROVE OpenInv'
  BY <1>9, <1>t DEF ProcessToolUse, StartTool, First, At, To, Serving, Over, Began
<1>10. ASSUME NEW i, RefuseTool(i) PROVE OpenInv'
  BY <1>10, <1>r DEF RefuseTool, At, To, ErrorResult, Serving, Returns
<1>11. ASSUME NEW i, FinishTool(i) \/ Collect(i) PROVE OpenInv'
  BY <1>11, <1>r DEF FinishTool, Collect, At, To, Serving, Returns
<1>12. ASSUME NEW i, LaunchWorker(i) PROVE OpenInv'
  BY <1>12, <1>t DEF LaunchWorker, First, At, To, Serving, Over
<1>13. ASSUME NEW i, WorkerLooks(i) \/ WorkerStarts(i) \/ WorkerFinishes(i) PROVE OpenInv'
  <2>1. /\ i \in DOMAIN stage /\ stage[i] \in {"launched", "looked", "running"}
        /\ \E s \in {"looked", "running", "finished"} : stage' = [stage EXCEPT ![i] = s]
        /\ UNCHANGED <<messages, transcript, persisted, calls, abandoned, pc>>
    BY <1>13 DEF WorkerLooks, WorkerStarts, WorkerFinishes, At, To, Began
  <2>2. pc \in Serving
    BY <1>0, <2>1 DEF StageInv, Over
  <2>q. QED
    BY <1>t, <2>1, <2>2 DEF Over
<1>14. CASE Summarise \/ DetectLoop \/ DetectTextLoop
  <2>1. /\ pc # "down" /\ pc' \in {"done", "idle", "loop"} /\ abandoned' = abandoned
        /\ UNCHANGED <<transcript, persisted>>
    BY <1>14, Zenon DEF Summarise, DetectLoop, DetectTextLoop, AfterDetection, Collected
  <2>2. \A i \in DOMAIN stage : stage[i] \in Over
    <3>1. CASE Collected
      BY <1>0, <3>1
         DEF Collected, OnThread, At, StageInv, None, Over, ControlInv, Stages, TurnsAreTaken
    <3>2. CASE DetectTextLoop
      BY <1>0, <3>2 DEF DetectTextLoop, StageInv, None, Over, TurnsAreTaken
    <3>q. QED
      BY <1>14, <3>1, <3>2 DEF Summarise, DetectLoop
  <2>3. \/ messages' = messages \/ messages' = Append(messages, User)
        \/ messages' = Append(messages, Assistant(<<>>))
    BY <1>14, Zenon DEF Summarise, DetectLoop, DetectTextLoop, AfterDetection
  <2>4. Assistant(<<>>) \in Msg /\ Assistant(<<>>).uses = <<>> /\ Assistant(<<>>).answers = {}
    BY EmptySeq, Constructors
  <2>q. QED
    BY <1>c, <1>o, <1>u, <2>1, <2>2, <2>3, <2>4
<1>15. CASE ParseText
  BY <1>15, OpenReplaced
<1>16. CASE Interrupt \/ SwitchModel
  BY <1>16, <1>b DEF Interrupt, SwitchModel
<1>17. CASE Crash
  BY <1>17, OpenAfterCrash
<1>18. CASE Resume
  BY <1>18, OpenResumed
<1>q. QED
  BY <1>1, <1>2, <1>3, <1>4, <1>5, <1>6, <1>7, <1>8, <1>9, <1>10, <1>11, <1>12, <1>13,
     <1>14, <1>15, <1>16, <1>17, <1>18
  DEF Next, Engine, Turn, Stream, StreamEnds, ServeTool, ServeBatch, Decide, Worker,
      Quiet, vars

(* The calls being served were written with the message they came in.    *)
DiskInv ==
  pc \in Serving =>
    \A i \in DOMAIN calls : calls[i].id[1] = "call" => calls[i].id \in UsesOf(transcript)

LEMMA DiskStep ==
  ASSUME HistoryOnlyGrows, DiskOpens = {TRUE}, BatchInv, FileInv, DiskInv, [Next]_vars
  PROVE  DiskInv'
<1> USE DEF history, recovery, reply, world, executed
<1>a. ASSUME UNCHANGED <<transcript, calls>>, pc' \in Serving => pc \in Serving
      PROVE  DiskInv'
  BY <1>a, Zenon DEF DiskInv
<1>b. ASSUME pc' \notin Serving
      PROVE  DiskInv'
  BY <1>b, Zenon DEF DiskInv
<1>1. CASE UNCHANGED vars
  BY <1>1, <1>a DEF vars
<1>2. CASE Submit \/ Complete \/ LoopExit \/ BudgetExceeded \/ ApiFails \/ BeginTurn
  BY <1>2, <1>b DEF Submit, Complete, LoopExit, BudgetExceeded, ApiFails, BeginTurn, Serving
<1>3. CASE StreamText \/ StreamToolUse
  BY <1>3, <1>b DEF StreamText, StreamToolUse, Serving
<1>4. CASE Interrupt \/ SwitchModel
  BY <1>4, <1>a DEF Interrupt, SwitchModel
<1>6. CASE ApiTooLong \/ ApiOverloaded \/ RetryAfterMaxTokens
  BY <1>6 DEF ApiTooLong, ApiOverloaded, RetryAfterMaxTokens, HistoryOnlyGrows
<1>7. CASE AddAssistant
  <2>1. CASE calls # <<>> /\ ~interrupted
    <3> DEFINE m == Assistant(IdsOf(calls))
    <3>1. /\ pc = "stream" /\ calls' = calls
          /\ WithReply = Append(messages, m) /\ persistTranscriptDelta(WithReply)
      BY <1>7, <2>1 DEF AddAssistant, WithReply, PersistReply
    <3>2. m \in Msg /\ m.uses = IdsOf(calls)
      BY <3>1, ReplyEnters
    <3> HIDE DEF m
    <3>3. /\ messages \in Seq(Msg) /\ transcript \in Seq(Msg) /\ persisted \in Nat
          /\ Len(messages) \in Nat
          /\ persisted <= Len(messages) /\ Len(transcript) = persisted
      BY <3>1, LenProperties DEF FileInv
    <3>4. /\ WithReply \in Seq(Msg) /\ Len(WithReply) = Len(messages) + 1
          /\ WithReply[Len(messages) + 1] = m
      BY <3>1, <3>2, <3>3, AppendProperties
    <3>5. persisted <= Len(WithReply)
      BY <3>3, <3>4
    <3>6. /\ transcript' \in Seq(Msg) /\ Len(transcript') = persisted'
          /\ persisted' = Len(messages) + 1
          /\ \A i \in (persisted + 1)..persisted' : transcript'[i] = WithReply[i]
      BY <3>1, <3>3, <3>4, <3>5, DeltaIsWritten
    <3>7. Len(messages) + 1 \in (persisted + 1)..persisted'
      BY <3>3, <3>6
    <3>8. Len(messages) + 1 \in DOMAIN transcript'
      BY <3>3, <3>6, LenProperties
    <3>9. transcript'[Len(messages) + 1].uses = IdsOf(calls)
      BY <3>2, <3>4, <3>6, <3>7
    <3>10. ASSUME NEW i \in DOMAIN calls PROVE calls[i].id \in UsesOf(transcript')
      <4>1. i \in DOMAIN IdsOf(calls) /\ IdsOf(calls)[i] = calls[i].id
        BY DEF IdsOf
      <4>q. QED
        BY <3>8, <3>9, <4>1 DEF UsesOf
    <3>q. QED
      BY <3>1, <3>10, Zenon DEF DiskInv
  <2>2. CASE ~(calls # <<>> /\ ~interrupted)
    <3>1. pc' \in {"parse", "done"}
      BY <1>7, <2>2, Zenon DEF AddAssistant
    <3>q. QED
      BY <1>b, <3>1 DEF Serving
  <2>q. QED
    BY <2>1, <2>2
<1>8. CASE AbandonSerial \/ LaunchesOver
  BY <1>8, <1>a DEF AbandonSerial, LaunchesOver, Serving
<1>9. ASSUME NEW i, ProcessToolUse(i) \/ StartTool(i) \/ RefuseTool(i) \/ FinishTool(i)
      PROVE  DiskInv'
  BY <1>9, <1>a DEF ProcessToolUse, StartTool, RefuseTool, FinishTool, Serving
<1>10. ASSUME NEW i, LaunchWorker(i) \/ Collect(i) \/ Worker(i) PROVE DiskInv'
  BY <1>10, <1>a
     DEF LaunchWorker, Collect, Worker, WorkerLooks, WorkerStarts, WorkerFinishes, Serving
<1>16. CASE Summarise \/ DetectLoop \/ DetectTextLoop
  <2>1. pc' \in {"done", "idle", "loop"}
    BY <1>16, Zenon DEF Summarise, DetectLoop, DetectTextLoop, AfterDetection
  <2>q. QED
    BY <1>b, <2>1 DEF Serving
<1>18. CASE ParseText
  <2>1. calls' = <<TextCall>> /\ TextCall.id[1] = "text"
    BY <1>18 DEF ParseText, TextCall
  <2>2. DOMAIN <<TextCall>> = {1} /\ <<TextCall>>[1] = TextCall
    OBVIOUS
  <2>3. \A i \in DOMAIN calls' : calls'[i].id[1] # "call"
    BY <2>1, <2>2
  <2>q. QED
    BY <2>3, Zenon DEF DiskInv
<1>19. CASE Crash \/ Resume
  BY <1>19, <1>b DEF Crash, Resume, Serving
<1>q. QED
  BY <1>1, <1>2, <1>3, <1>4, <1>6, <1>7, <1>8, <1>9, <1>10, <1>16, <1>18, <1>19
  DEF Next, Engine, Turn, Stream, StreamEnds, ServeTool, ServeBatch, Decide, Worker,
      Quiet, vars

(* The inductive invariant of the history, and where it starts.          *)
HistoryInv == BatchInv /\ FileInv /\ OpenInv

LEMMA InitHistory == Init => HistoryInv
<1>1. SUFFICES ASSUME messages = <<>>, transcript = <<>>, persisted = 0, crashes = 0, stage = <<>>,
                      pc = "idle", ControlInv
               PROVE  HistoryInv
  BY InitControl, Zenon DEF Init
<1>2. /\ messages \in Seq(Msg) /\ transcript \in Seq(Msg) /\ DOMAIN messages = {}
      /\ DOMAIN transcript = {} /\ DOMAIN stage = {}
      /\ Len(messages) = 0 /\ Len(transcript) = 0 /\ 1..0 = {} /\ 0 \in Nat /\ 0 <= 0
  BY <1>1, EmptyTuple, EmptySeq
<1>3. FileInv
  BY <1>1, <1>2 DEF FileInv
<1>4. OpenInv
  BY <1>1, <1>2, Zenon DEF OpenInv, Ordered, LinesInv
<1>5. TurnsAreTaken
  BY <1>2, Zenon DEF TurnsAreTaken
<1>q. QED
  BY <1>1, <1>2, <1>3, <1>4, <1>5
  DEF HistoryInv, BatchInv, StageInv, CallsInv, TextInv, ServedInv, Serving

LEMMA HistoryStep == HistoryOnlyGrows /\ HistoryInv /\ [Next]_vars => HistoryInv'
  BY ControlStep, TurnsStep, StageStep, CallsStep, TextStep, ServedStep, FileStep, OpenStep
  DEF HistoryInv, BatchInv

(* Whatever was refused, failed or run on threads: each result in the    *)
(* history answers the call it stands behind, once, and whenever no call *)
(* is being served every call of the history has its result, except for  *)
(* those that Esc dropped and those of the last reply on disk when the   *)
(* process died.  For histories of any length over any number of prompts,*)
(* interrupts and crashes, as long as nothing shortens them.             *)
THEOREM ResultsAnswerCalls ==
  ASSUME HistoryOnlyGrows
  PROVE  Spec => []HistoryIsAnswered
<1>1. Init => HistoryInv
  BY InitHistory
<1>2. HistoryInv /\ [Next]_vars => HistoryInv'
  BY HistoryStep
<1>3. HistoryInv => HistoryIsAnswered
  BY FilesAreFaithful, NothingIsOpen DEF HistoryInv, HistoryIsAnswered
<1>q. QED
  BY <1>1, <1>2, <1>3, PTL DEF Spec

(* The file is the history up to what is pending in every state, and what*)
(* --continue loads from it is well formed, also with a file that need not  *)
(* always open, and over any number of crashes.                          *)
THEOREM FileFollowsHistory ==
  ASSUME HistoryOnlyGrows
  PROVE  Spec => []TranscriptIsFaithful
<1>1. Init => HistoryInv
  BY InitHistory
<1>2. HistoryInv /\ [Next]_vars => HistoryInv'
  BY HistoryStep
<1>3. HistoryInv => TranscriptIsFaithful
  BY FilesAreFaithful DEF HistoryInv, TranscriptIsFaithful
<1>q. QED
  BY <1>1, <1>2, <1>3, PTL DEF Spec

(* As long as the file opens, a tool the API called runs only when its   *)
(* call is on disk, so that a crash loses its result at most.            *)
THEOREM CallsAreWrittenFirst ==
  ASSUME HistoryOnlyGrows, DiskOpens = {TRUE}
  PROVE  Spec => []CallsAreOnDisk
<1>1. Init => HistoryInv /\ DiskInv
  <2>1. Init => DiskInv
    BY DEF Init, DiskInv, Serving
  <2>q. QED
    BY <2>1, InitHistory
<1>2. HistoryInv /\ DiskInv /\ [Next]_vars => HistoryInv' /\ DiskInv'
  BY HistoryStep, DiskStep DEF HistoryInv
<1>3. HistoryInv /\ DiskInv => CallsAreOnDisk
  <2> SUFFICES ASSUME HistoryInv, DiskInv, NEW i \in DOMAIN stage,
                      At(i, "executing") \/ At(i, "running"), calls[i].id[1] = "call"
               PROVE  calls[i].id \in UsesOf(transcript)
    BY DEF CallsAreOnDisk
  <2>1. pc \in Serving
    BY DEF HistoryInv, BatchInv, StageInv, Over, At
  <2>2. i \in DOMAIN calls
    BY <2>1 DEF HistoryInv, BatchInv, ControlInv
  <2>q. QED
    BY <2>1, <2>2 DEF DiskInv
<1>q. QED
  BY <1>1, <1>2, <1>3, PTL DEF Spec

-----------------------------------------------------------------------------
(***************************************************************************)
(* What failures cost: the histories that compactions leave, and the      *)
(* breaker.  No assumption on how full the context gets or how requests   *)
(* fail.                                                                  *)
(***************************************************************************)

(* A part of a history is one.                                           *)
LEMMA PartOf ==
  ASSUME NEW ms \in Seq(Msg), NEW a \in Nat \ {0}, NEW b \in Int, b <= Len(ms)
  PROVE  /\ SubSeq(ms, a, b) \in Seq(Msg)
         /\ Len(SubSeq(ms, a, b)) = IF a <= b THEN b - a + 1 ELSE 0
<1>1. Len(ms) \in Nat /\ DOMAIN ms = 1..Len(ms)
  BY LenProperties
<1>2. \A i \in a..b : ms[i] \in Msg
  BY <1>1, ElementOfSeq
<1>q. QED
  BY ONLY <1>2, a \in Int, b \in Int, SubSeqProperties

LEMMA BoundaryIsMessage ==
  System(CompactBoundary) \in Msg /\ System(MicroBoundary) \in Msg
<1>1. User \in Msg
  BY Constructors
<1>q. QED
  BY <1>1 DEF Msg, MessageOf, System, NoBoundary, CompactBoundary, MicroBoundary

(* The split point is a position of the history or its end.              *)
LEMMA SplitPoint ==
  ASSUME NEW ms \in Seq(Msg), NEW point \in Int, point <= Len(ms)
  PROVE  adjustSplitPoint(ms, point) \in Int /\ adjustSplitPoint(ms, point) <= Len(ms)
<1>1. Len(ms) \in Nat
  BY LenProperties
<1>2. adjustSplitPoint(ms, point) \in {point, point - 1, (point - 1) + 1, point + 1}
  BY DEF adjustSplitPoint
<1>3. adjustSplitPoint(ms, point) = point + 1 => point < Len(ms)
  BY <1>1 DEF adjustSplitPoint
<1>q. QED
  BY ONLY <1>1, <1>2, <1>3, point \in Int, point <= Len(ms)

(* A summary that was made shortens the history; otherwise it is as it   *)
(* was.                                                                  *)
LEMMA SummaryShortens ==
  ASSUME NEW ms \in Seq(Msg), NEW keepRecent \in Nat
  PROVE  LET s == Summarized(ms, keepRecent) IN
         /\ s.messages \in Seq(Msg)
         /\ \/ s.count = 0 /\ s.messages = ms
            \/ s.count > 0 /\ Len(s.messages) < Len(ms)
<1> DEFINE s == Summarized(ms, keepRecent)
           keepStart == adjustSplitPoint(ms, Len(ms) - keepRecent)
           tail == SubSeq(ms, keepStart + 1, Len(ms))
<1>1. Len(ms) \in Nat /\ Len(ms) - keepRecent \in Int /\ Len(ms) - keepRecent <= Len(ms)
  BY LenProperties
<1>2. keepStart \in Int /\ keepStart <= Len(ms)
  BY <1>1, SplitPoint
<1>3. CASE Len(ms) <= keepRecent + 2 \/ keepStart <= 1
  BY <1>3 DEF Summarized
<1>4. CASE ~(Len(ms) <= keepRecent + 2 \/ keepStart <= 1)
  <2>1. s.messages = <<System(CompactBoundary)>> \o tail /\ s.count = keepStart
    BY <1>4 DEF Summarized
  <2>2. keepStart \in Nat \ {0, 1} /\ keepStart + 1 \in Nat \ {0} /\ Len(ms) \in Int
        /\ Len(ms) <= Len(ms)
    BY <1>1, <1>2, <1>4
  <2> HIDE DEF keepStart, s
  <2>3. /\ tail \in Seq(Msg)
        /\ Len(tail) = IF keepStart + 1 <= Len(ms) THEN Len(ms) - (keepStart + 1) + 1 ELSE 0
    BY <2>2, PartOf
  <2>4. Len(tail) + 1 < Len(ms)
    BY <1>1, <1>2, <2>2, <2>3
  <2> HIDE DEF tail
  <2>5. /\ <<System(CompactBoundary)>> \in Seq(Msg)
        /\ Len(<<System(CompactBoundary)>>) = 1
    BY BoundaryIsMessage, OneTuple
  <2>6. PICK one : one = <<System(CompactBoundary)>>
    OBVIOUS
  <2>7. one \o tail \in Seq(Msg) /\ Len(one \o tail) = 1 + Len(tail)
    BY <2>3, <2>5, <2>6, ConcatProperties
  <2>8. Len(tail) \in Nat
    BY <2>3, LenProperties
  <2>q. QED
    BY <2>1, <2>2, <2>4, <2>6, <2>7, <2>8 DEF s
<1>q. QED
  BY <1>3, <1>4

(* The last of some positions is one of them.                            *)
LEMMA LastIsOne ==
  ASSUME NEW n \in Nat, NEW cut \in SUBSET (1..n), cut # {}
  PROVE  (CHOOSE i \in cut : \A j \in cut : j <= i) \in cut
<1> DEFINE mirrored == {n - i : i \in cut}
<1>1. mirrored \subseteq Nat /\ mirrored # {}
  <2>1. PICK i : i \in cut
    OBVIOUS
  <2>2. n - i \in mirrored
    BY <2>1
  <2>3. \A j \in cut : n - j \in Nat
    OBVIOUS
  <2>q. QED
    BY <2>2, <2>3
<1>2. PICK k \in mirrored : \A j \in mirrored : ~(j < k)
  BY <1>1, LeastOf
<1>3. PICK i \in cut : k = n - i
  BY <1>2
<1>4. \A j \in cut : j <= i
  <2> TAKE j \in cut
  <2>1. n - j \in mirrored
    OBVIOUS
  <2>q. QED
    BY <1>2, <1>3, <2>1
<1>q. QED
  BY <1>4

(* A micro compaction leaves a history, which it changes only if it says *)
(* so.                                                                   *)
LEMMA MicroLeavesHistory ==
  ASSUME NEW ms \in Seq(Msg), NEW oversized, oversized \subseteq DOMAIN ms
  PROVE  LET m == MicroCompact(ms, oversized) IN
         /\ m.messages \in Seq(Msg)
         /\ (m.count = 0 /\ m.messages = ms) \/ m.count = 1
<1> DEFINE cut == {i \in oversized : i <= Len(ms) - MicroKeepRecent}
           last == CHOOSE i \in cut : \A j \in cut : j <= i
           before == SubSeq(ms, 1, last)
           after == SubSeq(ms, last + 1, Len(ms))
<1>1. Len(ms) \in Nat /\ DOMAIN ms = 1..Len(ms)
  BY LenProperties
<1>2. CASE cut = {}
  BY <1>2 DEF MicroCompact
<1>3. CASE cut # {}
  <2>1. MicroCompact(ms, oversized)
          = [messages |-> before \o <<System(MicroBoundary)>> \o after, count |-> 1]
    BY <1>3 DEF MicroCompact
  <2>2. cut \in SUBSET (1..Len(ms))
    BY <1>1
  <2> HIDE DEF cut
  <2>3. last \in cut
    BY <1>1, <1>3, <2>2, LastIsOne
  <2> HIDE DEF last
  <2>4. /\ last \in Int /\ last <= Len(ms) /\ 1 \in Nat \ {0}
        /\ last + 1 \in Nat \ {0} /\ Len(ms) \in Int /\ Len(ms) <= Len(ms)
    BY <1>1, <2>2, <2>3
  <2>5. before \in Seq(Msg) /\ after \in Seq(Msg)
    BY <2>4, PartOf
  <2>6. PICK one : one = <<System(MicroBoundary)>>
    OBVIOUS
  <2>7. one \in Seq(Msg)
    BY <2>6, BoundaryIsMessage, OneTuple
  <2> HIDE DEF before, after
  <2>8. before \o one \in Seq(Msg)
    BY <2>5, <2>7, ConcatProperties
  <2>9. (before \o one) \o after \in Seq(Msg)
    BY <2>5, <2>8, ConcatProperties
  <2>q. QED
    BY <2>1, <2>6, <2>9
<1>q. QED
  BY <1>2, <1>3

(* Trimming a prompt that is too long leaves a history, and the old one  *)
(* if it reports that it failed.                                         *)
LEMMA FailedTrimKeeps ==
  ASSUME NEW ms \in Seq(Msg), NEW oversized, oversized \subseteq DOMAIN ms
  PROVE  LET t == handlePromptTooLong(ms, oversized) IN
         /\ t.messages \in Seq(Msg)
         /\ t.success \/ t.messages = ms
<1>1. AutoKeepRecent \in Nat
  BY KeepRecentAssumption
<1> DEFINE micro == MicroCompact(ms, oversized)
           fewer == removeOldSystemMessages(ms)
           auto == Summarized(ms, AutoKeepRecent)
           t == handlePromptTooLong(ms, oversized)
<1>2. micro.messages \in Seq(Msg)
  BY MicroLeavesHistory
<1>3. fewer \in Seq(Msg)
  BY PickedFrom DEF removeOldSystemMessages, Picked, Lists!Picked
<1>4. /\ auto.messages \in Seq(Msg)
      /\ \/ auto.count = 0 /\ auto.messages = ms
         \/ auto.count > 0 /\ Len(auto.messages) < Len(ms)
  BY <1>1, SummaryShortens
<1>5. t = IF micro.count > 0 THEN [messages |-> micro.messages, success |-> TRUE]
          ELSE IF Len(fewer) < Len(ms) THEN [messages |-> fewer, success |-> TRUE]
          ELSE [messages |-> auto.messages,
                success  |-> auto.count > 0 /\ Len(auto.messages) < Len(ms)]
  BY Zenon DEF handlePromptTooLong, forceCompact, AutoCompact
<1> HIDE DEF micro, fewer, auto, t
<1>6. CASE micro.count > 0
  <2>1. t = [messages |-> micro.messages, success |-> TRUE]
    BY <1>5, <1>6, Zenon
  <2>2. t.messages = micro.messages /\ t.success
    BY <2>1
  <2>q. QED
    BY <1>2, <2>2 DEF t
<1>7. CASE ~(micro.count > 0) /\ Len(fewer) < Len(ms)
  <2>1. t = [messages |-> fewer, success |-> TRUE]
    BY <1>5, <1>7, Zenon
  <2>2. t.messages = fewer /\ t.success
    BY <2>1
  <2>q. QED
    BY <1>3, <2>2 DEF t
<1>8. CASE ~(micro.count > 0) /\ ~(Len(fewer) < Len(ms))
  <2>1. t = [messages |-> auto.messages,
             success  |-> auto.count > 0 /\ Len(auto.messages) < Len(ms)]
    BY <1>5, <1>8, Zenon
  <2>2. t.messages = auto.messages
    BY <2>1, Zenon
  <2>3. t.success = (auto.count > 0 /\ Len(auto.messages) < Len(ms))
    BY <2>1, Zenon
  <2>q. QED
    BY <1>4, <2>2, <2>3 DEF t
<1>q. QED
  BY <1>6, <1>7, <1>8 DEF t

(* A trim before the prompt is given up: none with the breaker open, and *)
(* the breaker counts no further than it opens.                          *)
LEMMA TrimLeavesHistory ==
  ASSUME NEW ms \in Seq(Msg), NEW oversized, oversized \subseteq DOMAIN ms,
         TrimUnlessOpen(ms, oversized)
  PROVE  /\ messages' \in Seq(Msg)
         /\ breaker = MAX_COMPACTION_FAILURES => messages' = ms
         /\ breaker \in 0..MAX_COMPACTION_FAILURES => breaker' \in 0..MAX_COMPACTION_FAILURES
<1>n. MAX_COMPACTION_FAILURES \in Nat
  BY NumbersAssumption
<1>1. CASE BreakerClosed
  <2>1. /\ messages' = handlePromptTooLong(ms, oversized).messages
        /\ breaker' = 0 \/ breaker' = breaker + 1
    BY <1>1 DEF TrimUnlessOpen
  <2>2. messages' \in Seq(Msg)
    BY <2>1, FailedTrimKeeps
  <2>q. QED
    BY <1>1, <1>n, <2>1, <2>2 DEF BreakerClosed
<1>2. CASE ~BreakerClosed
  BY <1>2 DEF TrimUnlessOpen
<1>q. QED
  BY <1>1, <1>2

(* A prompt that is too long is trimmed and taken again; given up, with  *)
(* the breaker open, it leaves the history.                              *)
LEMMA RetryLeavesHistory ==
  ASSUME messages \in Seq(Msg), NEW oversized \in Selections(messages),
         TrimAndRetry(messages, oversized)
  PROVE  /\ messages' \in Seq(Msg)
         /\ pc' = "done" /\ breaker = MAX_COMPACTION_FAILURES => messages' = messages
         /\ breaker \in 0..MAX_COMPACTION_FAILURES => breaker' \in 0..MAX_COMPACTION_FAILURES
<1>1. oversized \subseteq DOMAIN messages
  BY DEF Selections
<1> DEFINE trimmed == handlePromptTooLong(messages, oversized)
<1>2. trimmed.messages \in Seq(Msg) /\ (trimmed.success \/ trimmed.messages = messages)
  BY <1>1, FailedTrimKeeps
<1>3. \/ trimmed.success /\ pc' = "loop" /\ messages' = trimmed.messages /\ breaker' = breaker
      \/ ~trimmed.success /\ messages' = trimmed.messages /\ breaker' = breaker
      \/ ~trimmed.success /\ TrimUnlessOpen(trimmed.messages, oversized)
  BY Zenon DEF TrimAndRetry
<1> HIDE DEF trimmed
<1>4. ASSUME ~trimmed.success, TrimUnlessOpen(trimmed.messages, oversized)
      PROVE  TrimUnlessOpen(messages, oversized)
  <2>1. trimmed.messages = messages
    BY <1>2, <1>4
  <2>q. QED
    BY <1>4, <2>1
<1>q. QED
  BY <1>1, <1>2, <1>3, <1>4, TrimLeavesHistory

LEMMA CollapseLeavesHistory ==
  ASSUME NEW ms \in Seq(Msg), NEW now
  PROVE  collapseOldMessages(ms, now) \in Seq(Msg)
<1>1. Len(ms) \in Nat /\ DOMAIN ms = 1..Len(ms)
  BY LenProperties
<1> DEFINE it(i) == IF i \in now THEN [ms[i] EXCEPT !.uses = <<>>, !.answers = {}] ELSE ms[i]
<1>2. ASSUME NEW i \in 1..Len(ms) PROVE it(i) \in Msg
  <2>1. ms[i] \in Msg /\ <<>> \in Seq(Ids)
    BY <1>2, ElementOfSeq, EmptySeq
  <2>2. PICK m : m = ms[i]
    OBVIOUS
  <2>3. [m EXCEPT !.uses = <<>>, !.answers = {}] \in Msg
    BY <2>1, <2>2 DEF Msg, MessageOf
  <2>q. QED
    BY <2>1, <2>2, <2>3
<1>3. collapseOldMessages(ms, now) = [i \in 1..Len(ms) |-> it(i)]
  BY <1>1 DEF collapseOldMessages
<1> HIDE DEF it
<1>4. \A i \in 1..Len(ms) : it(i) \in Msg
  BY <1>2
<1>5. [i \in 1..Len(ms) |-> it(i)] \in Seq(Msg)
  BY <1>1, <1>4
<1>q. QED
  BY <1>3, <1>5

(* Before a turn the history may be compacted, collapsed, or both.       *)
LEMMA PreflightLeavesHistory ==
  ASSUME NEW ms \in Seq(Msg), Preflight(ms)
  PROVE  messages' \in Seq(Msg) /\ (collapsed \subseteq Nat => collapsed' \subseteq Nat)
<1>1. CASE messages' = ms /\ UNCHANGED collapsed
  BY <1>1
<1>2. ASSUME NEW pressure, NEW substantial \in Selections(ms),
             LET now == CollapsedNow(ms, collapsed, substantial)
                 compact == collapseOldMessages(ms, now)
             IN  IF pressure = "over95"
                 THEN messages' = forceCompact(compact).messages /\ collapsed' = {}
                 ELSE messages' = compact /\ collapsed' = collapsed \cup now
      PROVE  messages' \in Seq(Msg) /\ (collapsed \subseteq Nat => collapsed' \subseteq Nat)
  <2>1. PICK now : now = CollapsedNow(ms, collapsed, substantial)
    OBVIOUS
  <2>2. PICK compact : compact = collapseOldMessages(ms, now)
    OBVIOUS
  <2>3. compact \in Seq(Msg)
    BY <2>2, CollapseLeavesHistory
  <2>4. Len(ms) \in Nat
    BY LenProperties
  <2>5. now \subseteq Nat
    BY <2>1, <2>4 DEF CollapsedNow
  <2>6. CASE pressure = "over95"
    <3>1. messages' = Summarized(compact, AutoKeepRecent).messages /\ collapsed' = {}
      BY <1>2, <2>1, <2>2, <2>6 DEF forceCompact, AutoCompact
    <3>q. QED
      BY <2>3, <3>1, SummaryShortens, KeepRecentAssumption
  <2>7. CASE pressure # "over95"
    BY <1>2, <2>1, <2>2, <2>3, <2>5, <2>7
  <2>q. QED
    BY <2>6, <2>7
<1>q. QED
  BY <1>1, <1>2, Zenon DEF Preflight

LEMMA CompactLeavesHistory ==
  ASSUME NEW ms \in Seq(Msg), NEW pressure, NEW oversized, oversized \subseteq DOMAIN ms
  PROVE  compactIfNeeded(ms, pressure, oversized) \in Seq(Msg)
<1>1. compactIfNeeded(ms, pressure, oversized)
        \in {Summarized(ms, ReactiveKeepRecent).messages, Summarized(ms, AutoKeepRecent).messages,
             MicroCompact(ms, oversized).messages, ms}
  BY DEF compactIfNeeded, ReactiveCompact, AutoCompact
<1>q. QED
  BY <1>1, SummaryShortens, MicroLeavesHistory, KeepRecentAssumption

LEMMA SelectionsAre ==
  ASSUME NEW ms, NEW at \in Selections(ms)
  PROVE  at \subseteq DOMAIN ms
  BY DEF Selections

(* What is written of a history, and what is loaded.                     *)
LEMMA FileStaysTyped ==
  ASSUME NEW ms \in Seq(Msg), transcript \in Seq(Msg), persisted \in Nat,
         persistTranscriptDelta(ms)
  PROVE  transcript' \in Seq(Msg) /\ persisted' \in Nat
<1>1. PICK opened \in DiskOpens :
        /\ transcript' = AppendedLines(transcript, ms, persisted, opened)
        /\ persisted' = AppendedIndex(ms, persisted, opened)
  BY DEF persistTranscriptDelta
<1>2. Len(ms) \in Nat /\ Len(ms) \in Int /\ Len(ms) <= Len(ms) /\ persisted + 1 \in Nat \ {0}
  BY LenProperties
<1>3. SubSeq(ms, persisted + 1, Len(ms)) \in Seq(Msg)
  BY <1>2, PartOf
<1>4. PICK delta : delta = SubSeq(ms, persisted + 1, Len(ms))
  OBVIOUS
<1>5. transcript \o delta \in Seq(Msg)
  BY <1>3, <1>4, ConcatProperties
<1>6. transcript' \in {transcript, transcript \o delta}
  BY <1>1, <1>4 DEF AppendedLines
<1>7. persisted' \in {persisted, Len(ms)}
  BY <1>1 DEF AppendedIndex
<1>q. QED
  BY <1>2, <1>5, <1>6, <1>7

LEMMA LoadLeavesHistory ==
  ASSUME NEW ms \in Seq(Msg)
  PROVE  Load(ms) \in Seq(Msg) /\ Len(ms) \in Nat
<1>1. Len(ms) \in Nat /\ DOMAIN ms = 1..Len(ms)
  BY LenProperties
<1>2. \A i \in 1..Len(ms) : Restored(ms[i]) \in Msg
  BY <1>1, ElementOfSeq, RestoredFields
<1>3. Load(ms) = [i \in 1..Len(ms) |-> Restored(ms[i])]
  BY <1>1 DEF Load
<1>q. QED
  BY ONLY <1>1, <1>2, <1>3

HistoryTypes == messages \in Seq(Msg) /\ transcript \in Seq(Msg) /\ persisted \in Nat

(* A message appended to a history.                                      *)
LEMMA OneMore ==
  ASSUME NEW ms \in Seq(Msg), NEW m \in Msg
  PROVE  Append(ms, m) \in Seq(Msg)
  BY AppendProperties

LEMMA HistoryTypesStep ==
  ASSUME GateInv, HistoryTypes, [Next]_vars
  PROVE  HistoryTypes'
<1>0. CASE UNCHANGED vars
  BY <1>0 DEF vars, HistoryTypes
<1>a. ASSUME UNCHANGED history PROVE HistoryTypes'
  BY <1>a DEF HistoryTypes, history
<1>b. ASSUME UNCHANGED <<transcript, persisted>>, messages' \in Seq(Msg) PROVE HistoryTypes'
  BY <1>b DEF HistoryTypes
<1>t. messages \in Seq(Msg) /\ transcript \in Seq(Msg) /\ persisted \in Nat
  BY DEF HistoryTypes
<1>c. /\ calls \in Seq(Call)
      /\ \A i \in DOMAIN calls : calls[i].id \in Ids
      /\ pc \in Serving => DOMAIN stage = DOMAIN calls
  <2>1. calls \in Seq(Call) /\ (pc \in Serving => DOMAIN stage = DOMAIN calls)
    BY DEF GateInv, ControlInv
  <2>2. \A i \in DOMAIN calls : calls[i] \in Call
    BY <2>1
  <2>q. QED
    BY <2>1, <2>2 DEF Call
<1>d. \A i \in DOMAIN calls : Append(messages, ToolResult(calls[i].id)) \in Seq(Msg)
  BY <1>c, <1>t, Constructors, OneMore
<1>u. User \in Msg /\ Assistant(<<>>) \in Msg /\ Assistant(IdsOf(calls)) \in Msg
  <2>1. Len(calls) \in Nat /\ DOMAIN calls = 1..Len(calls)
    BY <1>c, LenProperties
  <2>2. IdsOf(calls) = [i \in 1..Len(calls) |-> calls[i].id]
    BY <2>1 DEF IdsOf
  <2>3. IdsOf(calls) \in Seq(Ids)
    BY ONLY <1>c, <2>1, <2>2
  <2>4. <<>> \in Seq(Ids)
    BY EmptySeq
  <2>q. QED
    BY <2>3, <2>4, Constructors
<1>1. CASE Submit
  <2>1. messages' = Append(messages, User) /\ persistTranscriptDelta(messages')
    BY <1>1 DEF Submit
  <2>2. messages' \in Seq(Msg)
    BY <1>t, <1>u, <2>1, OneMore
  <2>q. QED
    BY <1>t, <2>1, <2>2, FileStaysTyped DEF HistoryTypes
<1>2. CASE Complete
  <2>1. messages' = messages /\ persistTranscriptDelta(messages)
    BY <1>2 DEF Complete
  <2>q. QED
    BY <1>t, <2>1, FileStaysTyped DEF HistoryTypes
<1>3. CASE BeginTurn
  <2>1. \/ \E pressure \in Contexts, oversized \in Selections(messages) :
             Preflight(compactIfNeeded(messages, pressure, oversized))
        \/ Preflight(messages)
    BY <1>3 DEF BeginTurn
  <2>2. \A pressure \in Contexts, oversized \in Selections(messages) :
          compactIfNeeded(messages, pressure, oversized) \in Seq(Msg)
    BY <1>t, SelectionsAre, CompactLeavesHistory
  <2>3. messages' \in Seq(Msg)
    BY <1>t, <2>1, <2>2, PreflightLeavesHistory
  <2>q. QED
    BY <1>b, <1>3, <2>3 DEF BeginTurn
<1>4. CASE ApiTooLong
  <2>1. PICK oversized \in Selections(messages) : TrimAndRetry(messages, oversized)
    BY <1>4 DEF ApiTooLong
  <2>2. messages' \in Seq(Msg)
    BY <1>t, <2>1, RetryLeavesHistory
  <2>q. QED
    BY <1>b, <1>4, <2>2 DEF ApiTooLong
<1>5. CASE ApiOverloaded
  <2>1. PICK oversized \in Selections(messages) : TrimUnlessOpen(messages, oversized)
    BY <1>5 DEF ApiOverloaded
  <2>2. messages' \in Seq(Msg)
    BY <1>t, <2>1, SelectionsAre, TrimLeavesHistory
  <2>q. QED
    BY <1>b, <1>5, <2>2 DEF ApiOverloaded
<1>6. CASE RetryAfterMaxTokens
  <2>1. messages' \in {messages, Summarized(messages, AutoKeepRecent).messages}
    BY <1>6 DEF RetryAfterMaxTokens, MaxTokensRecovery, handleMaxOutputTokens, forceCompact,
                AutoCompact
  <2>2. messages' \in Seq(Msg)
    BY <1>t, <2>1, SummaryShortens, KeepRecentAssumption
  <2>q. QED
    BY <1>b, <1>6, <2>2 DEF RetryAfterMaxTokens
<1>7. CASE AddAssistant
  <2>1. messages' = WithReply /\ persistTranscriptDelta(WithReply)
    BY <1>7 DEF AddAssistant, PersistReply
  <2>2. WithReply \in Seq(Msg)
    BY <1>t, <1>u, OneMore DEF WithReply
  <2>q. QED
    BY <1>t, <2>1, <2>2, FileStaysTyped DEF HistoryTypes
<1>8. ASSUME NEW i, RefuseTool(i) \/ FinishTool(i) \/ Collect(i) PROVE HistoryTypes'
  <2>1. /\ messages' = Append(messages, ToolResult(calls[i].id))
        /\ i \in DOMAIN stage /\ pc \in Serving /\ UNCHANGED <<transcript, persisted>>
    <3>1. CASE RefuseTool(i)
      <4>1. messages' = Append(messages, ToolResult(calls[i].id)) /\ i \in DOMAIN stage
        BY <3>1, Zenon DEF RefuseTool, ErrorResult, At
      <4>2. transcript' = transcript /\ persisted' = persisted
        BY <3>1, Zenon DEF RefuseTool
      <4>3. pc \in {"run", "run text"}
        BY <3>1, Zenon DEF RefuseTool
      <4>4. pc \in Serving
        BY <4>3, Zenon DEF Serving
      <4>q. QED
        BY <4>1, <4>2, <4>4, Zenon
    <3>2. CASE FinishTool(i)
      <4>1. messages' = Append(messages, ToolResult(calls[i].id)) /\ i \in DOMAIN stage
        BY <3>2, Zenon DEF FinishTool, At
      <4>2. transcript' = transcript /\ persisted' = persisted
        BY <3>2, Zenon DEF FinishTool
      <4>3. pc \in {"run", "run text"}
        BY <3>2, Zenon DEF FinishTool
      <4>4. pc \in Serving
        BY <4>3, Zenon DEF Serving
      <4>q. QED
        BY <4>1, <4>2, <4>4, Zenon
    <3>3. CASE Collect(i)
      BY <3>3 DEF Collect, At, Serving, recovery, world, executed
    <3>q. QED
      BY <1>8, <3>1, <3>2, <3>3
  <2>q. QED
    BY <1>b, <1>c, <1>d, <2>1
<1>9. CASE Summarise \/ DetectLoop \/ DetectTextLoop
  <2>1. /\ UNCHANGED <<transcript, persisted>>
        /\ messages' \in {messages, Append(messages, Assistant(<<>>)), Append(messages, User)}
    <3>1. CASE Summarise
      <4>1. UNCHANGED <<transcript, persisted>>
        BY <3>1 DEF Summarise
      <4>2. messages' = messages \/ messages' = Append(messages, Assistant(<<>>))
        BY Zenon, <3>1 DEF Summarise
      <4>q. QED
        BY <4>1, <4>2
    <3>2. \A stops, warns : AfterDetection(stops, warns)
            => messages' = messages \/ messages' = Append(messages, User)
      BY DEF AfterDetection
    <3>3. CASE DetectLoop
      <4>1. \E stops, warns : AfterDetection(stops, warns)
        BY <3>3, Zenon DEF DetectLoop
      <4>2. UNCHANGED <<transcript, persisted>>
        BY <3>3, Zenon DEF DetectLoop
      <4>q. QED
        BY <3>2, <4>1, <4>2
    <3>4. CASE DetectTextLoop
      <4>1. \E stops, warns : AfterDetection(stops, warns)
        BY <3>4, Zenon DEF DetectTextLoop
      <4>2. UNCHANGED <<transcript, persisted>>
        BY <3>4, Zenon DEF DetectTextLoop
      <4>q. QED
        BY <3>2, <4>1, <4>2
    <3>q. QED
      BY <1>9, <3>1, <3>3, <3>4
  <2>q. QED
    BY <1>b, <1>t, <1>u, <2>1, OneMore
<1>10. CASE ParseText
  <2>1. /\ messages' = Append(SubSeq(messages, 1, Len(messages) - 1), Assistant(<<TextCall.id>>))
        /\ UNCHANGED <<transcript, persisted>>
    BY <1>10, Zenon DEF ParseText, WithTextCall
  <2>2. Len(messages) \in Nat
    BY <1>t, LenProperties
  <2>3. 1 \in Nat \ {0} /\ Len(messages) - 1 \in Int /\ Len(messages) - 1 <= Len(messages)
    BY <2>2
  <2>4. SubSeq(messages, 1, Len(messages) - 1) \in Seq(Msg)
    BY <1>t, <2>3, PartOf
  <2>5. TextCall.id \in Ids
    BY DEF TextCall, Ids, GateInv, ControlInv
  <2>6. Assistant(<<TextCall.id>>) \in Msg
    BY <2>5, OneTuple, Constructors
  <2>q. QED
    BY <1>b, <2>1, <2>4, <2>6, OneMore
<1>11. CASE Crash
  BY <1>11, <1>t, EmptySeq DEF Crash, HistoryTypes
<1>12. CASE Resume
  BY <1>12, <1>t, LoadLeavesHistory DEF Resume, HistoryTypes
<1>13. CASE \/ LoopExit \/ BudgetExceeded \/ Stream \/ ApiFails \/ AbandonSerial
            \/ LaunchesOver \/ Interrupt \/ SwitchModel \/ Quiet
  BY <1>13, <1>a DEF LoopExit, BudgetExceeded, Stream, StreamText, StreamToolUse, ApiFails,
     AbandonSerial, LaunchesOver, Interrupt, SwitchModel, Quiet, vars, history
<1>14. ASSUME NEW i, \/ ProcessToolUse(i) \/ StartTool(i) \/ LaunchWorker(i)
                     \/ WorkerLooks(i) \/ WorkerStarts(i) \/ WorkerFinishes(i)
       PROVE  HistoryTypes'
  <2>1. UNCHANGED history
    BY <1>14, Zenon DEF ProcessToolUse, StartTool, LaunchWorker, WorkerLooks, WorkerStarts,
       WorkerFinishes
  <2>q. QED
    BY <1>a, <2>1
<1>q. QED
  BY <1>0, <1>1, <1>2, <1>3, <1>4, <1>5, <1>6, <1>7, <1>8, <1>9, <1>10, <1>11, <1>12, <1>13,
     <1>14
  DEF Next, Engine, Turn, StreamEnds, ServeTool, ServeBatch, Decide, Worker

(* Once too many trims have failed, a failed request leaves the history. *)
LEMMA BreakerStep ==
  ASSUME HistoryTypes, [Next]_vars, pc = "stream", pc' = "done",
         breaker = MAX_COMPACTION_FAILURES
  PROVE  messages' \in {messages, WithReply}
<1>t. messages \in Seq(Msg)
  BY DEF HistoryTypes
<1>1. CASE ApiTooLong
  <2>1. PICK oversized \in Selections(messages) : TrimAndRetry(messages, oversized)
    BY <1>1 DEF ApiTooLong
  <2>q. QED
    BY <1>t, <2>1, RetryLeavesHistory
<1>2. CASE ApiOverloaded
  <2>1. PICK oversized \in Selections(messages) : TrimUnlessOpen(messages, oversized)
    BY <1>2 DEF ApiOverloaded
  <2>q. QED
    BY <1>t, <2>1, SelectionsAre, TrimLeavesHistory
<1>3. CASE ApiFails
  BY <1>3 DEF ApiFails, history
<1>4. CASE AddAssistant
  BY <1>4, Zenon DEF AddAssistant
<1>5. CASE UNCHANGED vars \/ Interrupt \/ SwitchModel \/ Quiet \/ Stream \/ Submit \/ Complete
           \/ Turn \/ Crash \/ Resume \/ RetryAfterMaxTokens \/ Decide
  BY <1>5 DEF vars, Interrupt, SwitchModel, Quiet, Stream, StreamText, StreamToolUse, Submit,
     Complete, Turn, LoopExit, BudgetExceeded, BeginTurn, Crash, Resume, RetryAfterMaxTokens,
     Decide, Summarise, DetectLoop, ParseText, DetectTextLoop, Collected
<1>6. CASE ServeTool \/ ServeBatch
  <2>1. pc \in Serving
    BY <1>6 DEF ServeTool, ServeBatch, AbandonSerial, ProcessToolUse, StartTool, RefuseTool,
       FinishTool, LaunchesOver, LaunchWorker, Collect, Serving
  <2>q. QED
    BY <2>1 DEF Serving
<1>7. ASSUME NEW i, Worker(i) PROVE FALSE
  <2>1. pc' = pc
    BY <1>7, Zenon DEF Worker, WorkerLooks, WorkerStarts, WorkerFinishes
  <2>q. QED
    BY <2>1
<1>q. QED
  BY <1>1, <1>2, <1>3, <1>4, <1>5, <1>6, <1>7 DEF Next, Engine, StreamEnds

LEMMA HistoryStartsTyped == Init => GateInv /\ HistoryTypes
<1>1. SUFFICES ASSUME stage = <<>>, ran = {}, ControlInv, messages = <<>>, transcript = <<>>,
                      persisted = 0
               PROVE  GateInv /\ HistoryTypes
  BY InitControl, Zenon DEF Init
<1>2. <<>> \in Seq(Msg)
  BY EmptySeq
<1>q. QED
  BY <1>1, <1>2 DEF GateInv, ThreadsAreSafe, UnsafeToolsAreGated, HistoryTypes

(* However requests fail and whatever is compacted, for histories of any *)
(* length: with the breaker open a failure that ends the prompt costs no *)
(* context, because a trim that reports failure has changed nothing      *)
(* (ErrorRecovery::handlePromptTooLong, submitMessage's 503 and 529).    *)
THEOREM OpenBreakerKeeps == Spec => OpenBreakerKeepsHistory
<1>1. GateInv /\ HistoryTypes /\ [Next]_vars => (GateInv /\ HistoryTypes)'
  BY ControlStep, GateStep, HistoryTypesStep DEF GateInv
<1>2. GateInv /\ HistoryTypes /\ [Next]_vars
        => [(pc = "stream" /\ pc' = "done" /\ breaker = MAX_COMPACTION_FAILURES) =>
               messages' \in {messages, WithReply}]_vars
  BY BreakerStep
<1>q. QED
  BY <1>1, <1>2, HistoryStartsTyped, PTL DEF Spec, OpenBreakerKeepsHistory

CountersInv ==
  /\ breaker \in 0..MAX_COMPACTION_FAILURES /\ attempts \in 0..MAX_RECOVERY_ATTEMPTS
  /\ collapsed \subseteq Nat
  /\ prompts \in 0..MaxPrompts /\ crashes \in 0..MaxCrashes

(* No counter passes its limit: a trim is tried only with the breaker    *)
(* closed, and a reply cut short is asked again only so often.           *)
LEMMA CountersStep ==
  ASSUME HistoryTypes, CountersInv, [Next]_vars
  PROVE  CountersInv'
<1> USE DEF history, recovery, reply, world, executed
<1>n. /\ maxTurns \in Nat /\ MAX_COMPACTION_FAILURES \in Nat /\ MaxPrompts \in Nat
      /\ MaxCrashes \in Nat /\ MAX_RECOVERY_ATTEMPTS \in Nat
  BY NumbersAssumption, KeepRecentAssumption
<1>a. ASSUME UNCHANGED <<breaker, attempts, collapsed, prompts, crashes>>
      PROVE  CountersInv'
  BY <1>a DEF CountersInv
<1>0. CASE UNCHANGED vars
  BY <1>0, <1>a DEF vars
<1>1. CASE Submit
  BY <1>1, <1>n DEF Submit, CountersInv
<1>2. CASE Complete \/ LoopExit \/ BudgetExceeded \/ Stream \/ ApiFails
  BY <1>2, <1>a, Zenon DEF Complete, LoopExit, BudgetExceeded, Stream, StreamText,
     StreamToolUse, ApiFails
<1>3. CASE BeginTurn
  <2>1. \/ \E pressure \in Contexts, oversized \in Selections(messages) :
             Preflight(compactIfNeeded(messages, pressure, oversized))
        \/ Preflight(messages)
    BY <1>3 DEF BeginTurn
  <2>2. messages \in Seq(Msg)
    BY DEF HistoryTypes
  <2>3. \A pressure \in Contexts, oversized \in Selections(messages) :
          compactIfNeeded(messages, pressure, oversized) \in Seq(Msg)
    BY <2>2, SelectionsAre, CompactLeavesHistory
  <2>4. collapsed \subseteq Nat
    BY DEF CountersInv
  <2>5. collapsed' \subseteq Nat
    BY <2>1, <2>2, <2>3, <2>4, PreflightLeavesHistory
  <2>6. /\ breaker' = breaker /\ attempts' = attempts /\ prompts' = prompts
        /\ crashes' = crashes
    BY <1>3, Zenon DEF BeginTurn
  <2>q. QED
    BY <2>5, <2>6 DEF CountersInv
<1>4. CASE ApiTooLong \/ ApiOverloaded
  <2>1. messages \in Seq(Msg) /\ breaker \in 0..MAX_COMPACTION_FAILURES
    BY DEF HistoryTypes, CountersInv
  <2>2. PICK oversized \in Selections(messages) :
          TrimAndRetry(messages, oversized) \/ TrimUnlessOpen(messages, oversized)
    BY <1>4 DEF ApiTooLong, ApiOverloaded
  <2>3. breaker' \in 0..MAX_COMPACTION_FAILURES
    BY <2>1, <2>2, SelectionsAre, RetryLeavesHistory, TrimLeavesHistory
  <2>4. UNCHANGED <<attempts, collapsed, prompts, crashes>>
    BY <1>4, Zenon DEF ApiTooLong, ApiOverloaded
  <2>q. QED
    BY <2>3, <2>4 DEF CountersInv
<1>5. CASE RetryAfterMaxTokens
  <2>1. attempts' = attempts + 1 /\ breaker' = 0
        /\ handleMaxOutputTokens(messages, attempts + 1).success
    BY <1>5, Zenon DEF RetryAfterMaxTokens, MaxTokensRecovery
  <2>2. ~(attempts + 1 > MAX_RECOVERY_ATTEMPTS)
    BY <2>1 DEF handleMaxOutputTokens
  <2>3. /\ collapsed' = collapsed /\ prompts' = prompts
        /\ crashes' = crashes
    BY <1>5, Zenon DEF RetryAfterMaxTokens
  <2>4. attempts \in 0..MAX_RECOVERY_ATTEMPTS
    BY DEF CountersInv
  <2>5. attempts' \in 0..MAX_RECOVERY_ATTEMPTS /\ breaker' \in 0..MAX_COMPACTION_FAILURES
    BY <1>n, <2>1, <2>2, <2>4
  <2>q. QED
    BY <2>3, <2>5 DEF CountersInv
<1>6. CASE AddAssistant
  <2>1. breaker' = 0 /\ (attempts' = attempts \/ attempts' = 0)
    BY <1>6, Zenon DEF AddAssistant
  <2>2. /\ collapsed' = collapsed /\ prompts' = prompts
        /\ crashes' = crashes
    BY <1>6, Zenon DEF AddAssistant
  <2>q. QED
    BY <1>n, <2>1, <2>2 DEF CountersInv
<1>7. ASSUME NEW i, \/ ProcessToolUse(i) \/ StartTool(i) \/ RefuseTool(i) \/ FinishTool(i)
                    \/ LaunchWorker(i) \/ Collect(i)
                    \/ WorkerLooks(i) \/ WorkerStarts(i) \/ WorkerFinishes(i)
      PROVE  CountersInv'
  BY <1>7, <1>a, Zenon DEF ProcessToolUse, StartTool, RefuseTool, FinishTool, LaunchWorker,
     Collect, WorkerLooks, WorkerStarts, WorkerFinishes
<1>9. CASE AbandonSerial \/ LaunchesOver \/ Decide
  BY <1>9, <1>a, Zenon DEF AbandonSerial, LaunchesOver, Decide, Summarise, DetectLoop,
     ParseText, DetectTextLoop
<1>10. CASE Interrupt \/ SwitchModel \/ Resume \/ Quiet
  BY <1>10, <1>a, Zenon DEF Interrupt, SwitchModel, Resume, Quiet, vars
<1>11. CASE Crash
  BY <1>11, <1>n DEF Crash, CountersInv
<1>q. QED
  BY <1>0, <1>1, <1>2, <1>3, <1>4, <1>5, <1>6, <1>7, <1>9, <1>10, <1>11
  DEF Next, Engine, Turn, StreamEnds, ServeTool, ServeBatch, Worker

ReplyInv ==
  /\ text \in Texts \cup {NoText} /\ stage \in Seq(Stages) /\ isLocal \in BOOLEAN

(* A sequence with one element changed, or some.                         *)
LEMMA StagesStay ==
  ASSUME NEW s \in Seq(Stages), NEW i, NEW v \in Stages, NEW w \in Stages
  PROVE  /\ [s EXCEPT ![i] = v] \in Seq(Stages)
         /\ [k \in DOMAIN s |-> IF s[k] = w THEN v ELSE s[k]] \in Seq(Stages)
<1>1. Len(s) \in Nat /\ DOMAIN s = 1..Len(s) /\ \A k \in 1..Len(s) : s[k] \in Stages
  BY LenProperties, ElementOfSeq
<1>2. [s EXCEPT ![i] = v] = [k \in 1..Len(s) |-> IF k = i THEN v ELSE s[k]]
  BY <1>1
<1> DEFINE it(k) == IF k = i THEN v ELSE s[k]
           or(k) == IF s[k] = w THEN v ELSE s[k]
<1>3. \A k \in 1..Len(s) : it(k) \in Stages /\ or(k) \in Stages
  BY <1>1
<1> HIDE DEF it, or
<1>4. [k \in 1..Len(s) |-> it(k)] \in Seq(Stages) /\ [k \in 1..Len(s) |-> or(k)] \in Seq(Stages)
  BY <1>1, <1>3
<1>q. QED
  BY <1>1, <1>2, <1>4, Zenon DEF it, or

LEMMA ReplyStep ==
  ASSUME GateInv, ReplyInv, [Next]_vars
  PROVE  ReplyInv'
<1> USE DEF history, recovery, reply, world, executed
<1>s. /\ stage \in Seq(Stages) /\ calls \in Seq(Call) /\ <<>> \in Seq(Stages)
      /\ {"serial", "gated", "executing", "answered", "queued", "launched", "looked", "running",
          "finished", "dropped"} = Stages
      /\ (pc \in Serving => DOMAIN stage = DOMAIN calls)
  BY EmptySeq DEF ReplyInv, GateInv, ControlInv, Stages
<1>a. ASSUME UNCHANGED <<text, isLocal>>, stage' \in Seq(Stages) PROVE ReplyInv'
  BY <1>a DEF ReplyInv
<1>b. ASSUME UNCHANGED <<text, isLocal, stage>> PROVE ReplyInv'
  BY <1>b DEF ReplyInv
<1>0. CASE UNCHANGED vars
  BY <1>0, <1>b DEF vars
<1>1. CASE Submit \/ Complete \/ LoopExit \/ BudgetExceeded \/ ApiTooLong \/ ApiOverloaded
           \/ ApiFails \/ RetryAfterMaxTokens \/ StreamToolUse
  BY <1>1, <1>b, Zenon DEF Submit, Complete, LoopExit, BudgetExceeded, ApiTooLong,
     ApiOverloaded, ApiFails, RetryAfterMaxTokens, StreamToolUse
<1>2. CASE BeginTurn
  <2>1. text' = NoText /\ stage' = <<>> /\ isLocal' = isLocal
    BY <1>2, Zenon DEF BeginTurn
  <2>q. QED
    BY <1>s, <2>1 DEF ReplyInv
<1>3. CASE StreamText
  <2>1. text' \in Texts /\ UNCHANGED <<stage, isLocal>>
    BY <1>3, Zenon DEF StreamText
  <2>q. QED
    BY <2>1 DEF ReplyInv
<1>4. CASE AddAssistant
  <2>1. stage' = Partitioned \/ stage' = stage
    BY <1>4, Zenon DEF AddAssistant
  <2>2. Len(calls) \in Nat /\ DOMAIN calls = 1..Len(calls)
    BY <1>s, LenProperties
  <2>3. Partitioned \in Seq(Stages)
    BY <2>2 DEF Partitioned, Stages
  <2>4. UNCHANGED <<text, isLocal>>
    BY <1>4, Zenon DEF AddAssistant
  <2>q. QED
    BY <1>a, <1>s, <2>1, <2>3, <2>4
<1>5. CASE AbandonSerial \/ LaunchesOver
  <2>1. Drop("serial") \/ Drop("queued")
    BY <1>5, Zenon DEF AbandonSerial, LaunchesOver
  <2>2. stage' \in Seq(Stages)
    <3>1. \A w \in Stages : [k \in DOMAIN stage |-> IF stage[k] = w THEN "dropped" ELSE stage[k]]
                              \in Seq(Stages)
      <4>1. "dropped" \in Stages
        BY DEF Stages
      <4>q. QED
        BY <1>s, <4>1, StagesStay
    <3>2. "serial" \in Stages /\ "queued" \in Stages
      BY DEF Stages
    <3>q. QED
      BY <2>1, <3>1, <3>2 DEF Drop
  <2>3. UNCHANGED <<text, isLocal>>
    BY <1>5, Zenon DEF AbandonSerial, LaunchesOver
  <2>q. QED
    BY <1>a, <2>2, <2>3
<1>6. ASSUME NEW i, NEW v \in Stages, To(i, v) PROVE stage' \in Seq(Stages)
  BY <1>6, <1>s, StagesStay DEF To
<1>v. /\ "gated" \in Stages /\ "executing" \in Stages /\ "answered" \in Stages
      /\ "launched" \in Stages /\ "looked" \in Stages /\ "running" \in Stages
      /\ "finished" \in Stages
  BY DEF Stages
<1>7. ASSUME NEW i, \/ ProcessToolUse(i) \/ StartTool(i) \/ RefuseTool(i) \/ FinishTool(i)
                    \/ LaunchWorker(i) \/ Collect(i)
                    \/ WorkerLooks(i) \/ WorkerStarts(i) \/ WorkerFinishes(i)
      PROVE  ReplyInv'
  <2>1. \/ To(i, "gated") \/ To(i, "executing") \/ To(i, "answered") \/ To(i, "launched")
        \/ To(i, "looked") \/ To(i, "running") \/ To(i, "finished")
    <3>1. WorkerLooks(i) => To(i, "finished") \/ To(i, "looked")
      BY DEF WorkerLooks
    <3>q. QED
      BY <1>7, <3>1, Zenon DEF ProcessToolUse, StartTool, RefuseTool, FinishTool, LaunchWorker,
         Collect, WorkerStarts, WorkerFinishes
  <2>2. UNCHANGED <<text, isLocal>>
    BY <1>7, Zenon DEF ProcessToolUse, StartTool, RefuseTool, FinishTool, LaunchWorker,
       Collect, WorkerLooks, WorkerStarts, WorkerFinishes
  <2>q. QED
    BY <1>6, <1>a, <1>v, <2>1, <2>2, Zenon
<1>9. CASE Summarise \/ DetectLoop \/ DetectTextLoop
  BY <1>9, <1>b, Zenon DEF Summarise, DetectLoop, DetectTextLoop
<1>10. CASE ParseText
  <2>1. stage' = <<"serial">> /\ UNCHANGED <<text, isLocal>>
    BY <1>10, Zenon DEF ParseText
  <2>2. "serial" \in Stages
    BY DEF Stages
  <2>q. QED
    BY <1>a, <2>1, <2>2, OneTuple
<1>11. CASE SwitchModel
  <2>1. isLocal' = FALSE /\ UNCHANGED <<text, stage, ran>>
    BY <1>11, Zenon DEF SwitchModel
  <2>q. QED
    BY <2>1 DEF ReplyInv
<1>12. CASE Interrupt \/ Resume \/ Quiet
  BY <1>12, <1>b, Zenon DEF Interrupt, Resume, Quiet, vars
<1>13. CASE Crash
  <2>1. text' = NoText /\ stage' = <<>> /\ isLocal' \in Locals
    BY <1>13, Zenon DEF Crash
  <2>2. Locals \subseteq BOOLEAN
    BY SwitchesAssumption
  <2>3. isLocal' \in BOOLEAN
    BY <2>1, <2>2, Zenon
  <2>q. QED
    BY <1>s, <2>1, <2>3 DEF ReplyInv
<1>q. QED
  BY <1>0, <1>1, <1>2, <1>3, <1>4, <1>5, <1>7, <1>9, <1>10, <1>11, <1>12, <1>13
  DEF Next, Engine, Turn, Stream, StreamEnds, ServeTool, ServeBatch, Decide, Worker

ExecutedInv ==
  /\ ran \subseteq Call /\ late \subseteq Call /\ past \subseteq Call
  /\ abandoned \subseteq Ids

(* What the histories of a run record is calls and their ids.            *)
LEMMA ExecutedStep ==
  ASSUME GateInv, HistoryTypes, ExecutedInv, [Next]_vars
  PROVE  ExecutedInv'
<1> USE DEF history, recovery, reply, world, executed
<1>c. /\ \A i \in DOMAIN calls : calls[i] \in Call /\ calls[i].id \in Ids
      /\ pc \in Serving => DOMAIN stage = DOMAIN calls
  <2>1. calls \in Seq(Call) /\ (pc \in Serving => DOMAIN stage = DOMAIN calls)
    BY DEF GateInv, ControlInv
  <2>2. \A i \in DOMAIN calls : calls[i] \in Call
    BY <2>1, ElementOfSeq, LenProperties
  <2>q. QED
    BY <2>1, <2>2 DEF Call
<1>l. \A i \in DOMAIN stage : stage[i] \in Threaded => i \in DOMAIN calls
  BY DEF GateInv, ThreadsAreSafe
<1>a. ASSUME UNCHANGED executed PROVE ExecutedInv'
  BY <1>a DEF ExecutedInv
<1>b. ASSUME UNCHANGED <<ran, late, past>>, NEW ids \in SUBSET Ids,
             abandoned' = abandoned \cup ids
      PROVE  ExecutedInv'
  BY <1>b DEF ExecutedInv
<1>0. CASE UNCHANGED vars
  BY <1>0, <1>a DEF vars
<1>1. CASE Submit
  BY <1>1 DEF Submit, ExecutedInv
<1>2. CASE \/ Complete \/ Turn \/ Stream \/ ApiTooLong \/ ApiOverloaded \/ ApiFails
           \/ RetryAfterMaxTokens \/ Decide \/ SwitchModel \/ Resume \/ Quiet
  BY <1>2, <1>a, Zenon DEF Complete, Turn, LoopExit, BudgetExceeded, BeginTurn, Stream, StreamText,
     StreamToolUse, ApiTooLong, ApiOverloaded, ApiFails, RetryAfterMaxTokens, Decide, Summarise,
     DetectLoop, ParseText, DetectTextLoop, SwitchModel, Resume, Quiet, vars
<1>3. CASE AddAssistant
  <2>1. /\ UNCHANGED <<ran, late, past>>
        /\ abandoned' = abandoned \/ abandoned' = abandoned \cup IdsAt(DOMAIN calls)
    BY <1>3, Zenon DEF AddAssistant
  <2>2. IdsAt(DOMAIN calls) \in SUBSET Ids
    BY <1>c DEF IdsAt
  <2>q. QED
    BY <1>a, <1>b, <2>1, <2>2, Zenon
<1>4. CASE AbandonSerial \/ LaunchesOver
  <2>1. pc \in Serving /\ \E s : Drop(s)
    <3>1. pc = "serve"
      BY <1>4, Zenon DEF AbandonSerial, LaunchesOver
    <3>2. \E s : Drop(s)
      BY <1>4, Zenon DEF AbandonSerial, LaunchesOver
    <3>q. QED
      BY <3>1, <3>2 DEF Serving
  <2>2. PICK s : Drop(s)
    BY <2>1
  <2>3. IdsAt(Standing(s)) \in SUBSET Ids
    BY <1>c, <2>1 DEF IdsAt, Standing
  <2>4. UNCHANGED <<ran, late, past>> /\ abandoned' = abandoned \cup IdsAt(Standing(s))
    BY <2>2, Zenon DEF Drop
  <2>q. QED
    BY <1>b, <2>3, <2>4, Zenon
<1>5. ASSUME NEW i, StartTool(i) \/ WorkerStarts(i) PROVE ExecutedInv'
  <2>1. i \in DOMAIN calls
    <3>1. CASE StartTool(i)
      <4>1. pc \in {"run", "run text"} /\ i \in DOMAIN stage
        BY <3>1, Zenon DEF StartTool, At
      <4>q. QED
        BY <1>c, <4>1 DEF Serving
    <3>2. CASE WorkerStarts(i)
      <4>1. i \in DOMAIN stage /\ stage[i] = "looked"
        BY <3>2, Zenon DEF WorkerStarts, At
      <4>q. QED
        BY <1>l, <4>1 DEF Threaded
    <3>q. QED
      BY <1>5, <3>1, <3>2
  <2>2. Began(calls[i])
    BY <1>5, Zenon DEF StartTool, WorkerStarts
  <2>3. calls[i] \in Call
    BY <1>c, <2>1
  <2> DEFINE c == calls[i]
  <2>4. c \in Call /\ ran' = ran \cup {c} /\ late' \in {late, late \cup {c}}
        /\ past' = past /\ abandoned' = abandoned
    BY <2>2, <2>3 DEF Began
  <2> HIDE DEF c
  <2>q. QED
    BY <2>4 DEF ExecutedInv
<1>6. ASSUME NEW i, \/ ProcessToolUse(i) \/ RefuseTool(i) \/ FinishTool(i) \/ LaunchWorker(i)
                    \/ Collect(i) \/ WorkerLooks(i) \/ WorkerFinishes(i)
      PROVE  ExecutedInv'
  BY <1>6, <1>a, Zenon DEF ProcessToolUse, RefuseTool, FinishTool, LaunchWorker, Collect,
     WorkerLooks, WorkerFinishes
<1>7. CASE Interrupt
  <2>1. past' = {calls[i] : i \in Standing("looked")} /\ UNCHANGED <<ran, late, abandoned>>
    BY <1>7, Zenon DEF Interrupt
  <2>2. \A i \in Standing("looked") : calls[i] \in Call
    BY <1>c, <1>l DEF Standing, Threaded
  <2>q. QED
    BY <2>1, <2>2 DEF ExecutedInv
<1>8. CASE Crash
  <2>1. /\ ran' = ran /\ late' = {} /\ past' = {}
        /\ abandoned' = abandoned \cup CallsOfLast(transcript)
    BY <1>8, Zenon DEF Crash
  <2>2. ASSUME NEW i \in LastRequest(transcript), NEW j \in DOMAIN transcript[i].uses
        PROVE  transcript[i].uses[j] \in Ids
    <3>1. transcript \in Seq(Msg) /\ i \in DOMAIN transcript
      BY DEF HistoryTypes, LastRequest
    <3>2. transcript[i] \in Msg
      BY <3>1, ElementOfSeq, LenProperties
    <3>3. transcript[i].uses \in Seq(Ids)
      BY <3>2 DEF Msg, MessageOf
    <3>q. QED
      BY <2>2, <3>3, ElementOfSeq, LenProperties
  <2>3. CallsOfLast(transcript) \subseteq Ids
    BY <2>2 DEF CallsOfLast
  <2>q. QED
    BY <2>1, <2>3 DEF ExecutedInv
<1>q. QED
  BY <1>0, <1>1, <1>2, <1>3, <1>4, <1>5, <1>6, <1>7, <1>8
  DEF Next, Engine, StreamEnds, ServeTool, ServeBatch, Worker

(* Every variable keeps the type of its declaration, whatever is         *)
(* compacted, retried, interrupted, crashed and resumed.                 *)
THEOREM TypesAreKept == Spec => []TypeOK
<1> DEFINE Inv == GateInv /\ HistoryTypes /\ CountersInv /\ ReplyInv /\ ExecutedInv
<1>1. Init => CountersInv /\ ReplyInv /\ ExecutedInv
  <2>1. SUFFICES ASSUME breaker = 0, attempts = 0, collapsed = {}, prompts = 0, crashes = 0,
                        late = {}, past = {}, abandoned = {}, text = NoText, stage = <<>>,
                        ran = {}, isLocal \in Locals
                 PROVE  CountersInv /\ ReplyInv /\ ExecutedInv
    BY Zenon DEF Init
  <2>2. /\ MAX_COMPACTION_FAILURES \in Nat /\ MaxPrompts \in Nat /\ MaxCrashes \in Nat
        /\ MAX_RECOVERY_ATTEMPTS \in Nat
    BY NumbersAssumption, KeepRecentAssumption
  <2>3. isLocal \in BOOLEAN
    BY <2>1, SwitchesAssumption, Zenon
  <2>4. <<>> \in Seq(Stages)
    BY EmptySeq
  <2>q. QED
    BY <2>1, <2>2, <2>3, <2>4 DEF CountersInv, ReplyInv, ExecutedInv
<1>2. Inv /\ [Next]_vars => Inv'
  BY ControlStep, GateStep, HistoryTypesStep, CountersStep, ReplyStep, ExecutedStep DEF GateInv
<1>3. Inv => TypeOK
  BY Zenon DEF GateInv, ControlInv, HistoryTypes, CountersInv, ReplyInv, ExecutedInv,
     TypeOK, Msg
<1> HIDE DEF Inv
<1>4. Init => Inv
  BY <1>1, HistoryStartsTyped DEF Inv
<1>q. QED
  BY <1>2, <1>3, <1>4, PTL DEF Spec
=============================================================================
