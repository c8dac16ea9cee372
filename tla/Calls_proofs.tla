---- MODULE Calls_proofs ----
(***************************************************************************)
(* Theorems about what the program asks of others, for every value of the  *)
(* constants: the sub-agents, a call of the model's API, a connection to   *)
(* an MCP server and a command of the shell, each proved of the            *)
(* component's own specification, and all together of the run of the       *)
(* components side by side (MCCalls!SideBySide).                           *)
(***************************************************************************)
EXTENDS MCCalls, SequenceTheorems, FiniteSetTheorems, TLAPS

---------------------------------------------------------------------------
(* Sub-agents (AgentManager): what getResult reports of an agent stays     *)
(* true, and the slots are neither lost nor multiplied.                    *)

Started == {"queued", "working", "done"}

\* The types that the arguments below use.
Types ==
    /\ nextId \in 0..MaxAgents
    /\ thread \in [Agents -> {"none"} \cup Started]
    /\ status \in [Agents -> {"PENDING", "RUNNING", "COMPLETED", "FAILED"}]
    /\ interrupted \in [Agents -> BOOLEAN]
    /\ count \in Int
    /\ phase \in [Callers -> {"idle", "split", "wait", "report"}]
    /\ plan \in [Callers -> Seq(Agents)]
    /\ told \in [Agents -> {"PENDING", "RUNNING", "COMPLETED", "FAILED"}]

\* A caller that collects results has an agent left to ask for.
PlansAreOpen == \A c \in Callers : phase[c] # "idle" => plan[c] # <<>>

\* Between the end of the wait and the reading of the status the agent is done,
\* unless it was given up.
ReportsAreDue ==
    \A c \in Callers : phase[c] = "report" =>
        thread[Head(plan[c])] = "done" \/ interrupted[Head(plan[c])]

\* An id that has not been given has no thread.
FreshIds == \A a \in Agents : a > nextId => thread[a] = "none"

\* No agent has the Agent tool.
AgentsWaitForNobody == \A a \in Agents : phase[a] = "idle"

AnswerInv == Types /\ PlansAreOpen /\ ReportsAreDue /\ FreshIds /\ AnswerIsFinal

---------------------------------------------------------------------------
\* The first element of a sequence that is not empty belongs to its set.
LEMMA HeadInSet ==
    ASSUME NEW S, NEW s \in Seq(S), s # <<>>
    PROVE  Head(s) \in S /\ Len(s) \in Nat \ {0} /\ Tail(s) \in Seq(S)
           /\ (Len(s) # 1 => Tail(s) # <<>>)
  <1>1. Len(s) \in Nat \ {0}
    BY EmptySeq
  <1>2. Head(s) \in S /\ Tail(s) \in Seq(S) /\ Len(Tail(s)) = Len(s) - 1
    BY HeadTailProperties
  <1>3. Len(s) # 1 => Tail(s) # <<>>
    BY <1>1, <1>2, EmptySeq
  <1> QED BY <1>1, <1>2, <1>3

\* A new agent takes an id that nothing refers to.
LEMMA NewAgentKeeps ==
    ASSUME AnswerInv, NewAgent
    PROVE  /\ nextId' \in 0..MaxAgents
           /\ thread' \in [Agents -> {"none"} \cup Started]
           /\ status' \in [Agents -> {"PENDING", "RUNNING", "COMPLETED", "FAILED"}]
           /\ FreshIds' /\ AnswerIsFinal'
           /\ \A a \in Agents : thread[a] = "done" => thread'[a] = "done"
           /\ nextId + 1 \in Agents
  <1>1. nextId + 1 \in Agents /\ thread[nextId + 1] = "none" /\ nextId' = nextId + 1
    BY MaxAgentsAssumption DEF NewAgent, AnswerInv, Types, FreshIds, Agents
  <1>2. thread' \in [Agents -> {"none"} \cup Started]
    BY <1>1 DEF NewAgent, AnswerInv, Types, Started
  <1>3. status' \in [Agents -> {"PENDING", "RUNNING", "COMPLETED", "FAILED"}]
    BY <1>1 DEF NewAgent, AnswerInv, Types
  <1>4. \A a \in Agents : a # nextId + 1 => thread'[a] = thread[a] /\ status'[a] = status[a]
    BY DEF NewAgent, AnswerInv, Types
  <1>5. FreshIds'
    BY <1>1, <1>4, MaxAgentsAssumption DEF AnswerInv, Types, FreshIds, Agents
  <1>6. AnswerIsFinal'
    BY <1>1, <1>4 DEF NewAgent, AnswerInv, AnswerIsFinal
  <1>7. nextId' \in 0..MaxAgents
    BY <1>1, MaxAgentsAssumption DEF Agents
  <1> QED BY <1>1, <1>2, <1>3, <1>4, <1>5, <1>6, <1>7

\* Every step keeps the invariant behind AnswerIsFinal.
LEMMA AnswerStep == AnswerInv /\ [Next]_vars => AnswerInv'
  <1> SUFFICES ASSUME AnswerInv, [Next]_vars PROVE AnswerInv'
    OBVIOUS
  <1> USE DEF Callers
  <1>1. CASE UNCHANGED vars
    BY <1>1 DEF vars, AnswerInv, Types, PlansAreOpen, ReportsAreDue, FreshIds, AnswerIsFinal
  <1>2. ASSUME NEW c \in Callers, SpawnInBackground(c) PROVE AnswerInv'
    <2>1. NewAgent /\ UNCHANGED <<phase, plan, interrupted, count, told>>
      BY <1>2 DEF SpawnInBackground, NewAgent
    <2>2. ReportsAreDue'
      BY <2>1, NewAgentKeeps, HeadInSet DEF AnswerInv, Types, PlansAreOpen, ReportsAreDue
    <2> QED BY <2>1, <2>2, NewAgentKeeps DEF AnswerInv, Types, PlansAreOpen
  <1>3. ASSUME NEW c \in Callers, SpawnAndWait(c) PROVE AnswerInv'
    <2>1. /\ NewAgent /\ UNCHANGED <<interrupted, count, told>>
          /\ plan' = [plan EXCEPT ![c] = <<nextId + 1>>]
          /\ phase' = [phase EXCEPT ![c] = "wait"]
      BY <1>3 DEF SpawnAndWait, NewAgent
    <2>2. Types'
      BY <2>1, NewAgentKeeps DEF AnswerInv, Types
    <2>3. PlansAreOpen'
      BY <2>1 DEF AnswerInv, Types, PlansAreOpen
    <2>4. ReportsAreDue'
      BY <2>1, NewAgentKeeps, HeadInSet DEF AnswerInv, Types, PlansAreOpen, ReportsAreDue
    <2> QED BY <2>1, <2>2, <2>3, <2>4, NewAgentKeeps DEF AnswerInv
  <1>4. ASSUME NEW c \in Callers, SpawnSubTask(c) PROVE AnswerInv'
    <2>1. /\ NewAgent /\ UNCHANGED <<interrupted, count, told>>
          /\ plan' = [plan EXCEPT ![c] = Append(@, nextId + 1)]
          /\ phase' = [phase EXCEPT ![c] = "split"]
      BY <1>4 DEF SpawnSubTask, NewAgent
    <2>2. Types'
      BY <2>1, NewAgentKeeps DEF AnswerInv, Types
    <2>3. plan[c] \in Seq(Agents) /\ nextId + 1 \in Agents
      BY NewAgentKeeps, <2>1 DEF AnswerInv, Types
    <2>4. PlansAreOpen'
      <3>1. Append(plan[c], nextId + 1) # <<>>
        BY <2>3, AppendProperties
      <3> QED BY <2>1, <3>1 DEF AnswerInv, Types, PlansAreOpen
    <2>5. ReportsAreDue'
      BY <2>1, NewAgentKeeps, HeadInSet DEF AnswerInv, Types, PlansAreOpen, ReportsAreDue
    <2> QED BY <2>1, <2>2, <2>4, <2>5, NewAgentKeeps DEF AnswerInv
  <1>5. ASSUME NEW c \in Callers, CollectSubTasks(c) PROVE AnswerInv'
    BY <1>5
       DEF CollectSubTasks, AnswerInv, Types, PlansAreOpen, ReportsAreDue, FreshIds,
           AnswerIsFinal
  <1>6. ASSUME NEW c \in Callers, ResultIsReady(c) PROVE AnswerInv'
    BY <1>6
       DEF ResultIsReady, ReadyWhenDone, AnswerInv, Types, PlansAreOpen, ReportsAreDue,
           FreshIds, AnswerIsFinal
  <1>7. ASSUME NEW c \in Callers, TimesOut(c) PROVE AnswerInv'
    <2> DEFINE h == Head(plan[c])
    <2>1. h \in Agents
      BY <1>7, HeadInSet DEF TimesOut, AnswerInv, Types, PlansAreOpen
    <2>2. /\ status' = [status EXCEPT ![h] = "FAILED"]
          /\ interrupted' = [interrupted EXCEPT ![h] = TRUE]
          /\ phase' = [phase EXCEPT ![c] = "report"]
          /\ UNCHANGED <<nextId, thread, count, plan, told>>
      BY <1>7 DEF TimesOut
    <2> HIDE DEF h
    <2>3. Types' /\ PlansAreOpen' /\ FreshIds'
      BY <1>7, <2>1, <2>2 DEF TimesOut, AnswerInv, Types, PlansAreOpen, FreshIds
    <2>4. AnswerIsFinal'
      BY <2>1, <2>2 DEF AnswerInv, Types, AnswerIsFinal
    <2>5. ASSUME NEW d \in Callers, phase'[d] = "report"
          PROVE  thread'[Head(plan'[d])] = "done" \/ interrupted'[Head(plan'[d])]
      <3>1. CASE d = c
        BY <3>1, <2>1, <2>2 DEF AnswerInv, Types, h
      <3>2. CASE d # c
        <4>1. phase[d] = "report"
          BY <3>2, <2>2, <2>5 DEF AnswerInv, Types
        <4>2. Head(plan[d]) \in Agents
          BY <4>1, HeadInSet DEF AnswerInv, Types, PlansAreOpen
        <4> QED BY <4>1, <4>2, <2>1, <2>2 DEF AnswerInv, Types, ReportsAreDue
      <3> QED BY <3>1, <3>2
    <2> QED BY <2>3, <2>4, <2>5 DEF AnswerInv, ReportsAreDue
  <1>8. ASSUME NEW c \in Callers, Report(c) PROVE AnswerInv'
    <2> DEFINE h == Head(plan[c])
    <2>1. h \in Agents /\ plan[c] \in Seq(Agents) /\ plan[c] # <<>>
      BY <1>8, HeadInSet DEF Report, AnswerInv, Types, PlansAreOpen
    <2>2. /\ told' = [told EXCEPT ![h] = status[h]]
          /\ plan' = [plan EXCEPT ![c] = Tail(plan[c])]
          /\ phase' = [phase EXCEPT ![c] = IF Len(plan[c]) = 1 THEN "idle" ELSE "wait"]
          /\ UNCHANGED <<nextId, thread, status, interrupted, count>>
      BY <1>8 DEF Report
    <2>3. thread[h] = "done" \/ interrupted[h]
      BY <1>8 DEF Report, AnswerInv, ReportsAreDue
    <2> HIDE DEF h
    <2>4. Types'
      BY <2>1, <2>2, HeadInSet DEF AnswerInv, Types
    <2>5. PlansAreOpen'
      BY <2>1, <2>2, HeadInSet DEF AnswerInv, Types, PlansAreOpen
    <2>6. ReportsAreDue'
      BY <2>2 DEF AnswerInv, Types, ReportsAreDue
    <2>7. AnswerIsFinal'
      BY <2>1, <2>2, <2>3 DEF AnswerInv, Types, AnswerIsFinal
    <2>8. FreshIds'
      BY <2>2 DEF AnswerInv, FreshIds
    <2> QED BY <2>4, <2>5, <2>6, <2>7, <2>8 DEF AnswerInv
  <1>9. ASSUME NEW a \in Agents, Acquire(a) PROVE AnswerInv'
    <2>1. Types' /\ PlansAreOpen'
      BY <1>9 DEF Acquire, AnswerInv, Types, PlansAreOpen, Started
    <2>2. ReportsAreDue'
      BY <1>9, HeadInSet DEF Acquire, AnswerInv, Types, PlansAreOpen, ReportsAreDue
    <2>3. FreshIds' /\ AnswerIsFinal'
      BY <1>9 DEF Acquire, AnswerInv, Types, FreshIds, AnswerIsFinal
    <2> QED BY <2>1, <2>2, <2>3 DEF AnswerInv
  <1>10. ASSUME NEW a \in Agents, Finish(a) PROVE AnswerInv'
    <2>1. PICK s \in {"COMPLETED", "FAILED"} : status' = [status EXCEPT ![a] = s]
      BY <1>10 DEF Finish
    <2>2. /\ thread[a] = "working"
          /\ thread' = [thread EXCEPT ![a] = "done"] /\ count' = count + 1
          /\ UNCHANGED <<nextId, interrupted, phase, plan, told>>
      BY <1>10 DEF Finish, ReleasedSlot
    <2>3. Types' /\ PlansAreOpen'
      BY <2>1, <2>2 DEF AnswerInv, Types, PlansAreOpen, Started
    <2>4. ReportsAreDue'
      BY <2>2, HeadInSet DEF AnswerInv, Types, PlansAreOpen, ReportsAreDue
    <2>5. FreshIds' /\ AnswerIsFinal'
      BY <2>1, <2>2 DEF AnswerInv, Types, FreshIds, AnswerIsFinal
    <2> QED BY <2>3, <2>4, <2>5 DEF AnswerInv
  <1> QED
    BY <1>1, <1>2, <1>3, <1>4, <1>5, <1>6, <1>7, <1>8, <1>9, <1>10 DEF Next

LEMMA AnswerInit == Init => AnswerInv
  BY MaxAgentsAssumption, SlotsAssumption, EmptySeq
     DEF Init, AnswerInv, Types, PlansAreOpen, ReportsAreDue, FreshIds, AnswerIsFinal, Started

(* What getResult said of an agent stays what the agent ended with, unless *)
(* the wait timed out.                                                     *)
THEOREM AnswersAreFinal == Spec => []AnswerIsFinal
  <1>1. AnswerInv => AnswerIsFinal
    BY DEF AnswerInv
  <1> QED BY <1>1, AnswerInit, AnswerStep, PTL DEF Spec

---------------------------------------------------------------------------
LEMMA WorkingIsFinite == IsFiniteSet(Working)
  <1>1. IsFiniteSet(1..MaxAgents)
    BY MaxAgentsAssumption, FS_Interval
  <1> QED BY <1>1, FS_Subset DEF Working, Agents

(* The slots that are free and the agents at work always add up to Slots,  *)
(* and no agent at work waits for another.                                 *)
THEOREM SlotsAreKept == Spec => []SlotsAreForWork
  <1>1. AnswerInv /\ Init => AgentsWaitForNobody /\ SlotsAreForWork
    <2> SUFFICES ASSUME Init PROVE AgentsWaitForNobody /\ SlotsAreForWork
      OBVIOUS
    <2>1. Working = {}
      BY DEF Init, Working
    <2>2. Cardinality(Working) = 0
      BY <2>1, FS_EmptySet
    <2> QED BY <2>1, <2>2, SlotsAssumption
               DEF Init, AgentsWaitForNobody, SlotsAreForWork, Callers
  <1>2. ASSUME AnswerInv, AgentsWaitForNobody, SlotsAreForWork, [Next]_vars
        PROVE  AgentsWaitForNobody' /\ SlotsAreForWork'
    <2> USE DEF Callers
    <2>0. \A c \in Engines : c \notin Agents
      BY EnginesAssumption DEF Agents
    <2>1. ASSUME UNCHANGED <<thread, count>>, AgentsWaitForNobody' PROVE SlotsAreForWork'
      BY <2>1, <1>2 DEF SlotsAreForWork, AgentsWaitForNobody, Working
    <2>2. ASSUME NewAgent, AgentsWaitForNobody' PROVE SlotsAreForWork'
      <3>1. thread[nextId + 1] = "none" /\ nextId + 1 \in Agents
        BY <2>2, <1>2, NewAgentKeeps DEF AnswerInv, Types, FreshIds, Agents
      <3>2. Working' = Working
        BY <3>1, <2>2, <1>2 DEF NewAgent, AnswerInv, Types, Working
      <3> QED BY <3>2, <2>2, <1>2
                 DEF NewAgent, SlotsAreForWork, AgentsWaitForNobody, Working
    <2>3. CASE UNCHANGED vars
      BY <2>3, <1>2 DEF vars, AgentsWaitForNobody, SlotsAreForWork, Working
    <2>4. ASSUME NEW c \in Callers, SpawnInBackground(c)
          PROVE  AgentsWaitForNobody' /\ SlotsAreForWork'
      <3>1. AgentsWaitForNobody'
        BY <2>4, <1>2 DEF SpawnInBackground, AgentsWaitForNobody
      <3> QED BY <3>1, <2>2, <2>4 DEF SpawnInBackground
    <2>5. ASSUME NEW c \in Callers, SpawnAndWait(c) \/ SpawnSubTask(c)
          PROVE  AgentsWaitForNobody' /\ SlotsAreForWork'
      <3>1. AgentsWaitForNobody'
        BY <2>0, <2>5, <1>2
           DEF SpawnAndWait, SpawnSubTask, MaySpawn, AgentsWaitForNobody, AnswerInv, Types
      <3> QED BY <3>1, <2>2, <2>5 DEF SpawnAndWait, SpawnSubTask
    <2>6. ASSUME NEW c \in Callers,
                 CollectSubTasks(c) \/ ResultIsReady(c) \/ TimesOut(c) \/ Report(c)
          PROVE  AgentsWaitForNobody' /\ SlotsAreForWork'
      <3>1. c \notin Agents
        BY <2>6, <1>2
           DEF CollectSubTasks, ResultIsReady, TimesOut, Report, AgentsWaitForNobody
      <3>2. AgentsWaitForNobody'
        BY <2>6, <3>1, <1>2
           DEF CollectSubTasks, ResultIsReady, TimesOut, Report, AgentsWaitForNobody,
               AnswerInv, Types
      <3> QED BY <3>2, <2>1, <2>6 DEF CollectSubTasks, ResultIsReady, TimesOut, Report
    <2>7. ASSUME NEW a \in Agents, Acquire(a)
          PROVE  AgentsWaitForNobody' /\ SlotsAreForWork'
      <3>1. Working' = Working \cup {a} /\ a \notin Working
        BY <2>7, <1>2 DEF Acquire, AnswerInv, Types, Working
      <3>2. Cardinality(Working') = Cardinality(Working) + 1
        BY <3>1, WorkingIsFinite, FS_AddElement
      <3>3. Cardinality(Working) \in Nat
        BY WorkingIsFinite, FS_CardinalityType
      <3>4. AgentsWaitForNobody'
        BY <2>7, <1>2 DEF Acquire, AgentsWaitForNobody
      <3>5. count' = count - 1 /\ count > 0 /\ count \in Int
        BY <2>7, <1>2 DEF Acquire, AnswerInv, Types
      <3> QED BY <3>2, <3>3, <3>4, <3>5, <1>2, SlotsAssumption
              DEF SlotsAreForWork, AgentsWaitForNobody, Working
    <2>8. ASSUME NEW a \in Agents, Finish(a)
          PROVE  AgentsWaitForNobody' /\ SlotsAreForWork'
      <3>1. Working' = Working \ {a} /\ a \in Working
        BY <2>8, <1>2 DEF Finish, AnswerInv, Types, Working
      <3>2. Cardinality(Working') = Cardinality(Working) - 1
        BY <3>1, WorkingIsFinite, FS_RemoveElement
      <3>3. Cardinality(Working) \in Nat
        BY WorkingIsFinite, FS_CardinalityType
      <3>4. AgentsWaitForNobody'
        BY <2>8, <1>2 DEF Finish, AgentsWaitForNobody
      <3>5. count' = count + 1 /\ count \in Int
        BY <2>8, <1>2 DEF Finish, ReleasedSlot, AnswerInv, Types
      <3> QED BY <3>2, <3>3, <3>4, <3>5, <1>2, SlotsAssumption
              DEF SlotsAreForWork, AgentsWaitForNobody, Working
    <2> QED BY <2>3, <2>4, <2>5, <2>6, <2>7, <2>8, <1>2 DEF Next
  <1> QED BY <1>1, <1>2, AnswerInit, AnswerStep, PTL DEF Spec

---------------------------------------------------------------------------
(* One call of the model's API (ApiClient).                                *)

\* A call that is delivered belongs to the attempt that streams: the remote
\* client opens nothing before, the local one opens nothing at all.
ApiTypes == attempt \in Int /\ open \subseteq Int /\ given \in Seq(SUBSET Int)
OpenIsCurrent == kind = "remote" /\ pc = "stream" => open \subseteq {attempt}
LocalOpensNothing == kind = "local" => open = {}
WholeInv == ApiTypes /\ OpenIsCurrent /\ LocalOpensNothing /\ CallsAreWhole

\* One more call of a single attempt leaves all calls whole.
LEMMA OneMoreIsWhole ==
  ASSUME WholeInv, kind' = kind, given' = Append(given, {attempt})
  PROVE  CallsAreWhole' /\ given' \in Seq(SUBSET Int)
  <1>1. {attempt} \in SUBSET Int /\ given \in Seq(SUBSET Int)
    BY DEF WholeInv, ApiTypes
  <1>2. Api!Cardinality({attempt}) = 1
    <2>1. Api!Cardinality({attempt}) = Cardinality({attempt})
      BY DEF Api!Cardinality, Cardinality
    <2> QED BY <2>1, FS_Singleton
  <1>3. given' \in Seq(SUBSET Int)
    BY <1>1, AppendProperties
  <1>4. DOMAIN given' = 1..(Len(given) + 1) /\ DOMAIN given = 1..Len(given)
    BY <1>1, <1>3, AppendProperties, LenProperties
  <1>5. ASSUME NEW i \in DOMAIN given', kind # "compat" PROVE Api!Cardinality(given'[i]) = 1
    <2>1. CASE i \in DOMAIN given
      BY <2>1, <1>1, <1>4, <1>5, AppendProperties
         DEF WholeInv, CallsAreWhole, Api!CallsAreWhole
    <2>2. CASE i = Len(given) + 1
      BY <2>2, <1>1, <1>2, AppendProperties
    <2> QED BY <2>1, <2>2, <1>1, <1>4, <1>5, LenProperties
  <1> QED BY <1>3, <1>5 DEF CallsAreWhole, Api!CallsAreWhole

\* The steps that deliver nothing.
LEMMA NothingIsDelivered ==
  ASSUME WholeInv, UNCHANGED <<kind, given>>
  PROVE  CallsAreWhole' /\ given' \in Seq(SUBSET Int)
  BY DEF WholeInv, ApiTypes, CallsAreWhole, Api!CallsAreWhole

\* Every step of the client keeps the invariant behind CallsAreWhole.
LEMMA WholeStep == WholeInv /\ [Api!Next]_(Api!vars) => WholeInv'
  <1> SUFFICES ASSUME WholeInv, [Api!Next]_(Api!vars) PROVE WholeInv'
    OBVIOUS
  <1> USE DEF Api!local, Api!body
  <1>1. CASE UNCHANGED Api!vars \/ Api!Rest \/ Api!Esc
    <2>1. UNCHANGED <<kind, attempt, open, given, pc>>
      BY <1>1 DEF Api!vars, Api!Rest, Api!Esc
    <2> QED BY <2>1, NothingIsDelivered
            DEF WholeInv, ApiTypes, OpenIsCurrent, LocalOpensNothing
  <1>2. CASE Api!Ask
    <2>1. kind' = kind /\ pc' = "build" /\ attempt' = 1 /\ open' = {} /\ given' = <<>>
      BY <1>2 DEF Api!Ask
    <2>2. DOMAIN given' = {} /\ given' \in Seq(SUBSET Int)
      BY <2>1, EmptySeq
    <2>3. CallsAreWhole'
      BY <2>2 DEF CallsAreWhole, Api!CallsAreWhole
    <2> QED BY <2>1, <2>2, <2>3 DEF WholeInv, ApiTypes, OpenIsCurrent, LocalOpensNothing
  <1>3. CASE Api!Build
    BY <1>3, NothingIsDelivered
       DEF Api!Build, Api!OpenAtStart, WholeInv, ApiTypes, OpenIsCurrent, LocalOpensNothing
  <1>4. CASE Api!Delta
    BY <1>4, NothingIsDelivered
       DEF Api!Delta, WholeInv, ApiTypes, OpenIsCurrent, LocalOpensNothing
  <1>5. CASE Api!CallEnds
    <2>1. given' = Append(given, {attempt}) /\ UNCHANGED <<kind, pc, attempt>> /\ open' = {}
      BY <1>5 DEF Api!CallEnds, WholeInv, OpenIsCurrent
    <2> QED BY <2>1, OneMoreIsWhole
            DEF WholeInv, ApiTypes, OpenIsCurrent, LocalOpensNothing
  <1>6. CASE Api!StreamEnds
    <2>1. UNCHANGED <<kind, attempt>> /\ pc' = "idle" /\ open' = {}
      BY <1>6 DEF Api!StreamEnds
    <2>2. CallsAreWhole' /\ given' \in Seq(SUBSET Int)
      <3>1. CASE Api!RemoteDone
        BY <3>1, <2>1, NothingIsDelivered DEF Api!RemoteDone
      <3>2. CASE Api!CompatDone
        <4>1. open \in SUBSET Int /\ given \in Seq(SUBSET Int)
          BY DEF WholeInv, ApiTypes
        <4>2. given' \in Seq(SUBSET Int)
          BY <3>2, <4>1, AppendProperties DEF Api!CompatDone
        <4> QED BY <3>2, <2>1, <4>2 DEF Api!CompatDone, CallsAreWhole, Api!CallsAreWhole
      <3>3. CASE Api!LocalDone
        <4>1. PICK found \in Api!ParseToolCall : given' = given \o found
          BY <3>3 DEF Api!LocalDone
        <4>2. given \in Seq(SUBSET Int) /\ {attempt} \in SUBSET Int
          BY DEF WholeInv, ApiTypes
        <4>3. CASE found = <<>>
          BY <4>1, <4>2, <4>3, <2>1, ConcatEmptySeq, NothingIsDelivered
        <4>4. CASE found = <<{attempt}>>
          BY <4>1, <4>2, <4>4, <2>1, AppendIsConcat, OneMoreIsWhole
        <4> QED BY <4>3, <4>4 DEF Api!ParseToolCall
      <3> QED BY <1>6, <3>1, <3>2, <3>3 DEF Api!StreamEnds
    <2> QED BY <2>1, <2>2 DEF WholeInv, ApiTypes, OpenIsCurrent, LocalOpensNothing
  <1>7. CASE Api!Fail
    <2>1. UNCHANGED <<kind, attempt, open, given>>
      BY <1>7 DEF Api!Fail
    <2>2. pc' # "stream"
      BY <1>7 DEF Api!Fail, Api!RemoteFails, Api!CompatFails
    <2> QED BY <2>1, <2>2, NothingIsDelivered
            DEF WholeInv, ApiTypes, OpenIsCurrent, LocalOpensNothing
  <1>8. CASE Api!Retry
    BY <1>8, NothingIsDelivered
       DEF Api!Retry, Api!NextAttempt, WholeInv, ApiTypes, OpenIsCurrent, LocalOpensNothing
  <1> QED BY <1>1, <1>2, <1>3, <1>4, <1>5, <1>6, <1>7, <1>8 DEF Api!Next

LEMMA WholeInit == Api!Init => WholeInv
  <1> SUFFICES ASSUME Api!Init PROVE WholeInv
    OBVIOUS
  <1>1. DOMAIN given = {} /\ given \in Seq(SUBSET Int)
    BY EmptySeq DEF Api!Init
  <1> QED BY <1>1 DEF Api!Init, WholeInv, ApiTypes, OpenIsCurrent, LocalOpensNothing,
                      CallsAreWhole, Api!CallsAreWhole

(* A tool call that the remote or the local client delivers was put        *)
(* together from one attempt, however often the transfer broke before.     *)
THEOREM DeliveredCallsAreWhole == Api!Spec => []CallsAreWhole
  <1>1. WholeInv => CallsAreWhole
    BY DEF WholeInv
  <1> QED BY <1>1, WholeInit, WholeStep, PTL DEF Api!Spec

---------------------------------------------------------------------------
\* What was left out of the last body is among the ids that stay frozen, and
\* no body is longer than the history.
WireTypes == results \in Int /\ \E n \in Int : n <= results /\ DOMAIN wire = 1..n
StubsAreFrozen == \A i \in DOMAIN wire : wire[i] = "stub" => i \in cleared
ClearedInv == WireTypes /\ StubsAreFrozen

\* A new body freezes no less than the one before.
LEMMA FrozenGrows ==
  \A n, before, gap : before \subseteq Api!Frozen(n, before, gap)
  BY DEF Api!Frozen

\* A body that is built has all results, and a stub for a frozen one unless it
\* is cut down anyway.
LEMMA BuiltBody ==
  ASSUME NEW n, NEW frozen, NEW lv
  PROVE  /\ DOMAIN Api!Wire(n, frozen, lv) = 1..n
         /\ \A i \in 1..n : Api!Wire(n, frozen, lv)[i] = "stub" => i \in frozen
         /\ \A i \in 1..n : i \in frozen => Api!Wire(n, frozen, lv)[i] # "full"
  BY DEF Api!Wire

\* A step of the client builds a body or leaves the last one as it is.
LEMMA BodyStep ==
  ASSUME ClearedInv, [Api!Next]_(Api!vars)
  PROVE  ClearedInv' /\ (\A i \in DOMAIN wire : i \in DOMAIN wire' /\ wire[i] = "stub" => wire'[i] # "full")
  <1> USE DEF Api!local, Api!body
  <1>1. ASSUME UNCHANGED <<results, cleared, wire>>
        PROVE  ClearedInv' /\ (\A i \in DOMAIN wire : i \in DOMAIN wire' /\ wire[i] = "stub" => wire'[i] # "full")
    BY <1>1 DEF ClearedInv, WireTypes, StubsAreFrozen
  <1>2. CASE Api!Ask
    <2>1. results' \in Int /\ results' > results /\ UNCHANGED <<cleared, wire>>
      BY <1>2 DEF Api!Ask, ClearedInv, WireTypes
    <2> QED BY <2>1 DEF ClearedInv, WireTypes, StubsAreFrozen
  <1>3. CASE Api!Build
    <2>1. CASE UNCHANGED <<results, cleared, wire>>
      BY <2>1, <1>1
    <2>2. CASE kind = "remote"
      <3>1. PICK gap \in BOOLEAN : cleared' = Api!Frozen(results, cleared, gap)
        BY <2>2, <1>3 DEF Api!Build, Api!AlreadyFrozen
      <3>2. wire' = Api!Wire(results, cleared', level) /\ results' = results
        BY <2>2, <1>3 DEF Api!Build
      <3>3. cleared \subseteq cleared'
        BY <3>1, FrozenGrows
      <3>4. /\ DOMAIN wire' = 1..results
            /\ \A i \in 1..results : wire'[i] = "stub" => i \in cleared'
            /\ \A i \in 1..results : i \in cleared' => wire'[i] # "full"
        BY <3>2, BuiltBody
      <3> QED BY <3>2, <3>3, <3>4 DEF ClearedInv, WireTypes, StubsAreFrozen
    <2> QED BY <1>3, <2>1, <2>2 DEF Api!Build
  <1>4. CASE \/ UNCHANGED Api!vars \/ Api!Delta \/ Api!CallEnds \/ Api!StreamEnds \/ Api!Fail
             \/ Api!Retry \/ Api!Esc \/ Api!Rest
    <2>1. UNCHANGED <<results, cleared, wire>>
      BY <1>4 DEF Api!vars, Api!Delta, Api!CallEnds, Api!StreamEnds, Api!Fail, Api!Retry,
                  Api!Esc, Api!Rest
    <2> QED BY <2>1, <1>1
  <1> QED BY <1>2, <1>3, <1>4 DEF Api!Next

(* A tool result once sent as a stub is never sent whole again, however    *)
(* the budget, the gaps between requests and the retries fall.             *)
THEOREM StubsStayStubs == Api!Spec => ClearedStaysCleared
  <1>1. Api!Init => ClearedInv
    <2> SUFFICES ASSUME Api!Init PROVE ClearedInv
      OBVIOUS
    <2>1. wire = <<>> /\ results = 0
      BY DEF Api!Init
    <2>2. DOMAIN wire = 1..0
      BY <2>1
    <2> QED BY <2>1, <2>2 DEF ClearedInv, WireTypes, StubsAreFrozen
  <1>2. ClearedInv /\ [Api!Next]_(Api!vars) => ClearedInv'
    BY BodyStep
  <1>3. ClearedInv /\ [Api!Next]_(Api!vars) =>
          [\A i \in DOMAIN wire : i \in DOMAIN wire' /\ wire[i] = "stub" => wire'[i] # "full"]_(Api!vars)
    BY BodyStep
  <1> QED BY <1>1, <1>2, <1>3, PTL
             DEF Api!Spec, ClearedStaysCleared, Api!ClearedStaysCleared

---------------------------------------------------------------------------
\* After Esc an attempt that was under way may still begin; while nothing has
\* been begun since, one may.
EscInv ==
  /\ afterEsc \in Int
  /\ ~esc => afterEsc = 0
  /\ kind = "remote" => afterEsc <= 1
  /\ kind = "remote" /\ pc \in {"build", "backoff", "again"} => afterEsc = 0

\* Every step keeps the bound on the attempts after Esc.
LEMMA EscStep == EscInv /\ [Api!Next]_(Api!vars) => EscInv'
  <1> SUFFICES ASSUME EscInv, [Api!Next]_(Api!vars) PROVE EscInv'
    OBVIOUS
  <1> USE DEF EscInv, Api!local, Api!body
  <1>1. CASE UNCHANGED Api!vars
    BY <1>1 DEF Api!vars
  <1>2. CASE Api!Ask \/ Api!Delta \/ Api!CallEnds \/ Api!StreamEnds \/ Api!Rest
    BY <1>2 DEF Api!Ask, Api!Delta, Api!CallEnds, Api!StreamEnds, Api!Rest, Api!vars
  <1>3. CASE Api!Build
    BY <1>3 DEF Api!Build
  <1>4. CASE Api!Fail
    <2>1. UNCHANGED <<kind, esc, afterEsc>> /\ pc = "stream"
      BY <1>4 DEF Api!Fail
    <2>2. CASE esc /\ kind = "remote"
      <3>1. pc' = "idle"
        BY <2>2, <1>4 DEF Api!Fail, Api!RemoteFails, Api!CompatFails, Api!Aborted
      <3> QED BY <3>1, <2>1
    <2> QED BY <2>1, <2>2
  <1>5. CASE Api!Retry
    BY <1>5 DEF Api!Retry
  <1>6. CASE Api!Esc
    BY <1>6 DEF Api!Esc
  <1> QED BY <1>1, <1>2, <1>3, <1>4, <1>5, <1>6 DEF Api!Next

(* After Esc the remote client begins at most one more attempt, the one    *)
(* whose sleep or build was under way.                                     *)
THEOREM EscIsHeeded == Api!Spec => []Api!EscEndsTheCall
  <1>1. Api!Init => EscInv
    BY DEF Api!Init, EscInv
  <1>2. EscInv => Api!EscEndsTheCall
    BY DEF EscInv, Api!EscEndsTheCall
  <1> QED BY <1>1, <1>2, EscStep, PTL DEF Api!Spec

---------------------------------------------------------------------------
(* One connection to an MCP server, shared by its callers (McpClient).     *)

Responses == [id : Int, conn : Int]

\* The requests and the responses that are somewhere: with the server, on the
\* wire, put down for a caller or remembered by one.
Pending == {r \in flight \cup inbox \cup responses \cup {mine[c] : c \in McpCallers} : r.id > 0}

McpTypes ==
  /\ mcpNextId \in Int /\ mcpNextId > 0 /\ conn \in Int
  /\ flight \cup inbox \cup responses \subseteq Responses
  /\ mine \in [McpCallers -> Responses]
  /\ got \in [McpCallers -> Responses]
\* An id belongs to one connection, because ids go on across reconnections.
IdsAreUsedOnce == \A r, s \in Pending : r.id = s.id => r = s
IdsAreOld == \A r \in Pending : r.id < mcpNextId
OnlyResponsesArePutDown == \A r \in responses : r.id > 0
GotIsMine == \A c \in McpCallers : got[c] # Mcp!NoAnswer => got[c] = mine[c]
McpInv == McpTypes /\ IdsAreUsedOnce /\ IdsAreOld /\ OnlyResponsesArePutDown /\ GotIsMine

\* A step that adds nothing, or one request under a fresh id.
LEMMA PendingStep ==
  ASSUME McpInv, mcpNextId' \in Int, NEW k \in Int,
         \/ Pending' \subseteq Pending /\ mcpNextId' = mcpNextId
         \/ /\ Pending' \subseteq Pending \cup {[id |-> mcpNextId, conn |-> k]}
            /\ mcpNextId' = mcpNextId + 1
  PROVE  IdsAreUsedOnce' /\ IdsAreOld'
  <1>1. \A r \in Pending : r.id \in Int /\ r.id < mcpNextId
    BY DEF McpInv, McpTypes, IdsAreOld, Pending, Responses
  <1>2. mcpNextId \in Int
    BY DEF McpInv, McpTypes
  <1> QED BY <1>1, <1>2 DEF McpInv, IdsAreUsedOnce, IdsAreOld

\* A caller's response is the one to its own request.
LEMMA ResponseIsMine ==
  ASSUME McpInv, NEW c \in McpCallers, NEW r \in responses, r.id = mine[c].id
  PROVE  r = mine[c]
  BY DEF McpInv, OnlyResponsesArePutDown, IdsAreUsedOnce, Pending

\* Every step keeps the invariant, and what a caller is given is its own.
LEMMA McpStep ==
  ASSUME McpInv, [Mcp!Next]_(Mcp!vars)
  PROVE  McpInv' /\ (\A c \in McpCallers : got'[c] # Mcp!NoAnswer => got'[c] = mine'[c])
  <1> SUFFICES McpInv'
    BY DEF McpInv, GotIsMine
  <1> USE DEF Mcp!link, Mcp!calls, Mcp!tools
  <1>a. ASSUME UNCHANGED <<mcpNextId, conn, mine, got>>,
               flight' \cup inbox' \cup responses' \subseteq flight \cup inbox \cup responses,
               \A r \in responses' : r.id > 0
        PROVE  McpInv'
    <2>1. Pending' \subseteq Pending
      BY <1>a DEF Pending
    <2>2. IdsAreUsedOnce' /\ IdsAreOld'
      BY <1>a, <2>1, PendingStep DEF McpInv, McpTypes
    <2>3. McpTypes' /\ OnlyResponsesArePutDown' /\ GotIsMine'
      BY <1>a DEF McpInv, McpTypes, OnlyResponsesArePutDown, GotIsMine
    <2> QED BY <2>2, <2>3 DEF McpInv
  <1>b. ASSUME UNCHANGED <<mcpNextId, conn, mine, got, responses, flight>>,
               NEW r \in Responses, r.id <= 0, inbox' = inbox \cup {r}
        PROVE  McpInv'
    <2>1. Pending' \subseteq Pending
      BY <1>b DEF Pending, Responses
    <2>2. IdsAreUsedOnce' /\ IdsAreOld'
      BY <1>b, <2>1, PendingStep DEF McpInv, McpTypes
    <2>3. McpTypes' /\ OnlyResponsesArePutDown' /\ GotIsMine'
      BY <1>b DEF McpInv, McpTypes, OnlyResponsesArePutDown, GotIsMine
    <2> QED BY <2>2, <2>3 DEF McpInv
  <1>c. ASSUME NEW c \in McpCallers, NEW k \in Int, k = conn',
               mine' = [mine EXCEPT ![c] = [id |-> mcpNextId, conn |-> k]],
               got' = [got EXCEPT ![c] = Mcp!NoAnswer],
               mcpNextId' = mcpNextId + 1,
               flight' \subseteq flight \cup {[id |-> mcpNextId, conn |-> k]},
               UNCHANGED <<inbox, responses>>
        PROVE  McpInv'
    <2> DEFINE new == [id |-> mcpNextId, conn |-> k]
    <2>1. new \in Responses /\ Mcp!NoAnswer \in Responses
      BY <1>c DEF Responses, McpInv, McpTypes, Mcp!NoAnswer
    <2>2. McpTypes' /\ OnlyResponsesArePutDown'
      BY <1>c, <2>1 DEF McpInv, McpTypes, OnlyResponsesArePutDown
    <2>3. Pending' \subseteq Pending \cup {new}
      BY <1>c DEF Pending, McpInv, McpTypes
    <2>4. IdsAreUsedOnce' /\ IdsAreOld'
      BY <1>c, <2>2, <2>3, PendingStep DEF McpTypes
    <2>5. GotIsMine'
      BY <1>c, <2>1 DEF McpInv, McpTypes, GotIsMine
    <2> QED BY <2>2, <2>4, <2>5 DEF McpInv
  <1>1. CASE UNCHANGED Mcp!vars
    BY <1>1, <1>a DEF Mcp!vars, McpInv, OnlyResponsesArePutDown
  <1>2. ASSUME NEW c \in McpCallers,
               \/ Mcp!GetClient(c) \/ Mcp!Reconnect(c) \/ Mcp!CannotConnect(c)
               \/ Mcp!InitFails(c) \/ Mcp!TimesOut(c) \/ Mcp!ListTools(c) \/ Mcp!Store(c)
        PROVE  McpInv'
    <2>1. /\ UNCHANGED <<mcpNextId, conn, mine, got, flight>>
          /\ inbox' \subseteq inbox /\ responses' \subseteq responses
      BY <1>2 DEF Mcp!GetClient, Mcp!Reconnect, Mcp!CannotConnect, Mcp!InitFails,
                  Mcp!TimesOut, Mcp!ListTools, Mcp!Store
    <2> QED BY <2>1, <1>a DEF McpInv, OnlyResponsesArePutDown
  <1>3. ASSUME NEW c \in McpCallers, Mcp!Initialized(c) \/ Mcp!Listed(c) PROVE McpInv'
    <2>1. /\ UNCHANGED <<mcpNextId, conn, mine, got, flight, inbox>>
          /\ responses' \subseteq responses
      BY <1>3 DEF Mcp!Initialized, Mcp!Listed
    <2> QED BY <2>1, <1>a DEF McpInv, OnlyResponsesArePutDown
  <1>4. ASSUME NEW c \in McpCallers, Mcp!Connect(c) PROVE McpInv'
    <2>1. mine' = [mine EXCEPT ![c] = [id |-> mcpNextId, conn |-> conn + 1]]
          /\ conn' = conn + 1 /\ conn + 1 \in Int
      BY <1>4 DEF Mcp!Connect, Mcp!FirstIdOfConnection, McpInv, McpTypes
    <2>2. mine'[c] = [id |-> mcpNextId, conn |-> conn + 1]
      BY <2>1 DEF McpInv, McpTypes
    <2> QED BY <2>1, <2>2, <1>4, <1>c DEF Mcp!Connect, Mcp!FirstIdOfConnection
  <1>5. ASSUME NEW c \in McpCallers, Mcp!Send(c) PROVE McpInv'
    <2>1. CASE mcpOpen
      <3>1. mine' = [mine EXCEPT ![c] = [id |-> mcpNextId, conn |-> conn]]
            /\ conn' = conn /\ conn \in Int
        BY <1>5, <2>1 DEF Mcp!Send, Mcp!Request, McpInv, McpTypes
      <3>2. mine'[c] = [id |-> mcpNextId, conn |-> conn]
        BY <3>1 DEF McpInv, McpTypes
      <3> QED BY <3>1, <3>2, <1>5, <2>1, <1>c DEF Mcp!Send
    <2>2. CASE ~mcpOpen
      <3>1. UNCHANGED <<mcpNextId, conn, mine, flight, inbox, responses>>
            /\ got' = [got EXCEPT ![c] = Mcp!NoAnswer]
        BY <1>5, <2>2 DEF Mcp!Send
      <3>2. McpTypes' /\ OnlyResponsesArePutDown' /\ GotIsMine'
        BY <3>1
           DEF McpInv, McpTypes, OnlyResponsesArePutDown, GotIsMine, Mcp!NoAnswer, Responses
      <3>3. Pending' = Pending
        BY <3>1 DEF Pending
      <3> QED BY <3>1, <3>2, <3>3 DEF McpInv, IdsAreUsedOnce, IdsAreOld
    <2> QED BY <2>1, <2>2
  <1>6. ASSUME NEW c \in McpCallers, Mcp!Answered(c) PROVE McpInv'
    <2>1. PICK r \in responses : /\ r.id = mine[c].id
                                 /\ got' = [got EXCEPT ![c] = r]
                                 /\ responses' = responses \ {r}
      BY <1>6 DEF Mcp!Answered
    <2>2. UNCHANGED <<mcpNextId, conn, mine, flight, inbox>>
      BY <1>6 DEF Mcp!Answered
    <2>3. r = mine[c]
      BY <2>1, ResponseIsMine
    <2>4. McpTypes' /\ OnlyResponsesArePutDown' /\ GotIsMine'
      BY <2>1, <2>2, <2>3 DEF McpInv, McpTypes, OnlyResponsesArePutDown, GotIsMine
    <2>5. Pending' \subseteq Pending
      BY <2>1, <2>2 DEF Pending
    <2>6. IdsAreUsedOnce' /\ IdsAreOld'
      BY <2>2, <2>5, PendingStep DEF McpInv, McpTypes
    <2> QED BY <2>4, <2>6 DEF McpInv
  <1>7. CASE Mcp!ServerAnswers
    <2>1. PICK r \in flight : flight' = flight \ {r} /\ Mcp!Deliver(r)
      BY <1>7 DEF Mcp!ServerAnswers
    <2>2. inbox' \subseteq inbox \cup {r}
      BY <2>1 DEF Mcp!Deliver
    <2>3. UNCHANGED <<mcpNextId, conn, mine, got, responses>>
      BY <1>7 DEF Mcp!ServerAnswers
    <2> QED BY <2>1, <2>2, <2>3, <1>a DEF McpInv, OnlyResponsesArePutDown
  <1>8. CASE Mcp!ToolsChange \/ Mcp!ServerAsks
    <2>1. Mcp!Change \in Responses /\ Mcp!Change.id <= 0
          /\ Mcp!Ask \in Responses /\ Mcp!Ask.id <= 0
      BY DEF Mcp!Change, Mcp!Ask, Responses, McpInv, McpTypes
    <2> QED BY <1>8, <2>1, <1>b DEF Mcp!ToolsChange, Mcp!ServerAsks
  <1>9. CASE Mcp!ReaderTakes
    <2>1. PICK r \in inbox : /\ inbox' = inbox \ {r}
                             /\ responses' = IF r.id > 0 THEN responses \cup {r} ELSE responses
      BY <1>9 DEF Mcp!ReaderTakes
    <2>2. UNCHANGED <<mcpNextId, conn, mine, got, flight>>
      BY <1>9 DEF Mcp!ReaderTakes
    <2> QED BY <2>1, <2>2, <1>a DEF McpInv, OnlyResponsesArePutDown
  <1>10. CASE Mcp!ServerDies \/ Mcp!StreamIsGone \/ Mcp!ReaderReplies \/ Mcp!ReaderLeaves
    <2>1. UNCHANGED <<mcpNextId, conn, mine, got, inbox, responses>> /\ flight' \subseteq flight
      BY <1>10 DEF Mcp!ServerDies, Mcp!StreamIsGone, Mcp!ReaderReplies, Mcp!ReaderLeaves
    <2> QED BY <2>1, <1>a DEF McpInv, OnlyResponsesArePutDown
  <1> QED BY <1>1, <1>2, <1>3, <1>4, <1>5, <1>6, <1>7, <1>8, <1>9, <1>10
          DEF Mcp!Next, Mcp!Step

(* A caller is given the server's response to its own request, whoever     *)
(* reconnects, times out or lists tools meanwhile: the safety half of      *)
(* ConnectionIsSound.                                                      *)
THEOREM AnswersMatchRequests == Mcp!Spec => Mcp!AnswersMatch
  <1>1. Mcp!Init => McpInv
    BY DEF Mcp!Init, McpInv, McpTypes, IdsAreUsedOnce, IdsAreOld, OnlyResponsesArePutDown,
           GotIsMine, Pending, Responses, Mcp!NoAnswer
  <1>2. McpInv /\ [Mcp!Next]_(Mcp!vars) => McpInv'
    BY McpStep
  <1>3. McpInv /\ [Mcp!Next]_(Mcp!vars) =>
          [\A c \in McpCallers : got'[c] # Mcp!NoAnswer => got'[c] = mine'[c]]_(Mcp!vars)
    BY McpStep
  <1> QED BY <1>1, <1>2, <1>3, PTL DEF Mcp!Spec, Mcp!AnswersMatch

---------------------------------------------------------------------------
(* One command of the shell (Shell).                                       *)

\* Past the wait on Windows the shell was killed or had exited.
JoiningIsAfterTheEnd == call = "joining" => child # "running"
ShellInv == Shell!ShellIsGone /\ JoiningIsAfterTheEnd

\* Every step of the call, of its reader and of the command keeps it.
LEMMA ShellStep == ShellInv /\ [Shell!Next]_(Shell!vars) => ShellInv'
  <1> SUFFICES ASSUME ShellInv, [Shell!Next]_(Shell!vars) PROVE ShellInv'
    OBVIOUS
  <1> USE DEF ShellInv, Shell!ShellIsGone, JoiningIsAfterTheEnd, Shell!command, Shell!clock
  <1>1. CASE UNCHANGED Shell!vars
    BY <1>1 DEF Shell!vars
  <1>2. CASE Shell!Start \/ Shell!CannotStart
    BY <1>2 DEF Shell!Start, Shell!CannotStart
  <1>3. CASE \/ Shell!Prints \/ Shell!StartsHelper \/ (\E w \in writers : Shell!Releases(w))
             \/ Shell!Exits \/ Shell!DeadlinePasses \/ Shell!Esc
    BY <1>3 DEF Shell!Prints, Shell!StartsHelper, Shell!Releases, Shell!Exits,
                Shell!DeadlinePasses, Shell!Esc
  <1>4. CASE \/ Shell!PosixGivesUp \/ Shell!PosixReads \/ Shell!PosixSeesEof
             \/ Shell!PosixSelectTimesOut \/ Shell!PosixChecks
    BY <1>4 DEF Shell!PosixGivesUp, Shell!PosixReads, Shell!PosixSeesEof,
                Shell!PosixSelectTimesOut, Shell!PosixChecks, Shell!Killed
  <1>5. CASE Shell!WindowsWaitEnds \/ Shell!WindowsJoins
    BY <1>5 DEF Shell!WindowsWaitEnds, Shell!WindowsJoins, Shell!Killed
  <1>6. CASE Shell!PopenReads \/ Shell!PopenSeesEof \/ Shell!Reaps
    BY <1>6 DEF Shell!PopenReads, Shell!PopenSeesEof, Shell!Reaps
  <1>7. CASE Shell!ReaderReads \/ Shell!ReaderSeesEof
    BY <1>7 DEF Shell!ReaderReads, Shell!ReaderSeesEof
  <1> QED BY <1>1, <1>2, <1>3, <1>4, <1>5, <1>6, <1>7
          DEF Shell!Next, Shell!Waits, Shell!Reads

(* A call that has returned leaves no shell running, in any of the three   *)
(* loops and however it ended: the safety half of CallsEnd.                *)
THEOREM NoShellIsLeft == Shell!Spec => []Shell!ShellIsGone
  <1>1. Shell!Init => ShellInv
    BY DEF Shell!Init, ShellInv, Shell!ShellIsGone, JoiningIsAfterTheEnd
  <1>2. ShellInv => Shell!ShellIsGone
    BY DEF ShellInv
  <1> QED BY <1>1, <1>2, ShellStep, PTL DEF Shell!Spec

---------------------------------------------------------------------------
(* The components side by side (MCCalls!SideBySide). A component that does *)
(* not run stays where it is, so each of them follows its own              *)
(* specification, and what is proved of that holds of the run.             *)

\* Each component begins where it may begin,
LEMMA InitOfEach == SideBySideInit => Init /\ Api!Init /\ Mcp!Init /\ Shell!Init
  BY DEF SideBySideInit

\* and makes its own step or none.
LEMMA StepOfEach ==
  [SideBySideNext]_allVars => /\ [Next]_vars /\ [Api!Next]_(Api!vars)
                              /\ [Mcp!Next]_(Mcp!vars) /\ [Shell!Next]_(Shell!vars)
  <1> USE DEF vars, Api!vars, Mcp!vars, Mcp!link, Mcp!calls, Mcp!tools, Shell!vars,
              apiVars, mcpVars, shellVars
  <1>1. CASE UNCHANGED allVars
    BY <1>1 DEF allVars
  <1>2. CASE SideBySideNext
    BY <1>2 DEF SideBySideNext
  <1> QED BY <1>1, <1>2

(* All of it holds of the components side by side, which is what is run.   *)
THEOREM CallsAreSafe ==
  SideBySide => /\ [](AnswerIsFinal /\ CallsAreWhole /\ Shell!ShellIsGone)
                /\ ClearedStaysCleared /\ Mcp!AnswersMatch
  <1>1. SideBySide => Spec /\ Api!Spec /\ Mcp!Spec /\ Shell!Spec
    BY InitOfEach, StepOfEach, PTL DEF SideBySide, Spec, Api!Spec, Mcp!Spec, Shell!Spec
  <1> QED BY <1>1, AnswersAreFinal, DeliveredCallsAreWhole, StubsStayStubs,
             AnswersMatchRequests, NoShellIsLeft, PTL
===========================================================================
