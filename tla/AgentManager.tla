---- MODULE AgentManager ----
(***************************************************************************)
(* AgentManager: sub-agents run on threads of their own, at most Slots at a *)
(* time.  They are spawned by an engine's Agent tool, in the foreground or  *)
(* in the background, and by the Coordinator, which spawns one per subtask  *)
(* and then waits for each in turn.                                        *)
(*                                                                         *)
(* A sub-agent's own conversation is one action, Finish: what it sends and  *)
(* runs is QueryEngine's business.  cancelAgent, killAgent and cleanup are  *)
(* called by nobody.                                                       *)
(***************************************************************************)
EXTENDS Integers, Sequences, FiniteSets

CONSTANTS
    Engines,        \* threads that run submitMessage for a user
    Slots,          \* agentSlots(): 4
    MaxAgents,      \* bound: agents ever spawned
    MaxSubTasks     \* subtasks the Coordinator takes from a reply: 10

ASSUME SlotsAssumption == Slots \in Nat \ {0}
ASSUME MaxAgentsAssumption == MaxAgents \in Nat
ASSUME EnginesAssumption == Engines \cap (1..MaxAgents) = {}

Agents == 1..MaxAgents
Callers == Engines \cup Agents

VARIABLES
    nextId,         \* nextId_
    thread,         \* the agent's thread
    status,         \* AgentInstance::status
    interrupted,    \* AgentInstance::interrupted
    count,          \* free slots
    phase,          \* where a caller is in the Agent tool or in Coordinator::execute
    plan,           \* agents it waits for, in order
    told            \* the status getResult returned

vars == <<nextId, thread, status, interrupted, count, phase, plan, told>>

Init ==
    /\ nextId = 0
    /\ thread = [a \in Agents |-> "none"]
    /\ status = [a \in Agents |-> "PENDING"]
    /\ interrupted = [a \in Agents |-> FALSE]
    /\ count = Slots
    /\ phase = [c \in Callers |-> "idle"]
    /\ plan = [c \in Callers |-> <<>>]
    /\ told = [a \in Agents |-> "PENDING"]

---------------------------------------------------------------------------
\* Spawning.

AnyConversation(c) == c \in Engines \/ (c \in Agents /\ thread[c] = "working")

\* processToolUse refuses the Agent tool when allowSubagents is false, as it is
\* in every sub-agent's configuration.
MaySpawn(c) == c \in Engines

\* spawnAgent: the thread starts and asks for a slot.
NewAgent ==
    /\ nextId < MaxAgents
    /\ nextId' = nextId + 1
    /\ thread' = [thread EXCEPT ![nextId + 1] = "queued"]
    /\ status' = [status EXCEPT ![nextId + 1] = "RUNNING"]
    /\ UNCHANGED <<interrupted, count, told>>

SpawnInBackground(c) ==
    /\ MaySpawn(c) /\ phase[c] = "idle"
    /\ NewAgent
    /\ UNCHANGED <<phase, plan>>

SpawnAndWait(c) ==
    /\ MaySpawn(c) /\ phase[c] = "idle"
    /\ NewAgent
    /\ plan' = [plan EXCEPT ![c] = <<nextId + 1>>]
    /\ phase' = [phase EXCEPT ![c] = "wait"]

\* Coordinator::execute spawns all its subtasks' agents first.
SpawnSubTask(c) ==
    /\ c \in Engines /\ phase[c] \in {"idle", "split"}
    /\ Len(plan[c]) < MaxSubTasks
    /\ NewAgent
    /\ plan' = [plan EXCEPT ![c] = Append(@, nextId + 1)]
    /\ phase' = [phase EXCEPT ![c] = "split"]

CollectSubTasks(c) ==
    /\ phase[c] = "split"
    /\ phase' = [phase EXCEPT ![c] = "wait"]
    /\ UNCHANGED <<nextId, thread, status, interrupted, count, plan, told>>

---------------------------------------------------------------------------
\* An agent's thread.

Acquire(a) ==
    /\ thread[a] = "queued" /\ count > 0
    /\ count' = count - 1
    /\ thread' = [thread EXCEPT ![a] = "working"]
    /\ UNCHANGED <<nextId, status, interrupted, phase, plan, told>>

LeakedSlot == count

\* ~SlotGuard, however submitMessage ended.
ReleasedSlot == count + 1

\* The conversation ends or throws.  Nothing reads interrupted.
Finish(a) ==
    /\ thread[a] = "working" /\ phase[a] = "idle"
    /\ thread' = [thread EXCEPT ![a] = "done"]
    /\ \E s \in {"COMPLETED", "FAILED"} : status' = [status EXCEPT ![a] = s]
    /\ count' = ReleasedSlot
    /\ UNCHANGED <<nextId, interrupted, phase, plan, told>>

---------------------------------------------------------------------------
\* getResult of the first agent of the plan, blocking.

ReadyAtOnce(a) == TRUE

ReadyWhenDone(a) == thread[a] = "done"

ResultIsReady(c) ==
    /\ phase[c] = "wait" /\ ReadyWhenDone(Head(plan[c]))
    /\ phase' = [phase EXCEPT ![c] = "report"]
    /\ UNCHANGED <<nextId, thread, status, interrupted, count, plan, told>>

\* 1800 seconds: the agent counts as failed and its thread goes on.
TimesOut(c) ==
    /\ phase[c] = "wait" /\ thread[Head(plan[c])] # "done"
    /\ status' = [status EXCEPT ![Head(plan[c])] = "FAILED"]
    /\ interrupted' = [interrupted EXCEPT ![Head(plan[c])] = TRUE]
    /\ phase' = [phase EXCEPT ![c] = "report"]
    /\ UNCHANGED <<nextId, thread, count, plan, told>>

\* The status is read after the wait, without a lock.
Report(c) ==
    /\ phase[c] = "report"
    /\ told' = [told EXCEPT ![Head(plan[c])] = status[Head(plan[c])]]
    /\ plan' = [plan EXCEPT ![c] = Tail(@)]
    /\ phase' = [phase EXCEPT ![c] = IF Len(plan[c]) = 1 THEN "idle" ELSE "wait"]
    /\ UNCHANGED <<nextId, thread, status, interrupted, count>>

Next ==
    \/ \E c \in Callers :
         \/ SpawnInBackground(c) \/ SpawnAndWait(c) \/ SpawnSubTask(c) \/ CollectSubTasks(c)
         \/ ResultIsReady(c) \/ TimesOut(c) \/ Report(c)
    \/ \E a \in Agents : Acquire(a) \/ Finish(a)

Spec == Init /\ [][Next]_vars

\* A thread that finds a slot takes it, and a conversation ends: its turns are
\* limited and every transfer has a time-out.
Fairness == \A a \in Agents : WF_vars(Acquire(a)) /\ WF_vars(Finish(a))
FairSpec == Spec /\ Fairness

---------------------------------------------------------------------------
Working == {a \in Agents : thread[a] = "working"}

TypeOK ==
    /\ nextId \in 0..MaxAgents
    /\ thread \in [Agents -> {"none", "queued", "working", "done"}]
    /\ status \in [Agents -> {"PENDING", "RUNNING", "COMPLETED", "FAILED"}]
    /\ interrupted \in [Agents -> BOOLEAN]
    /\ count \in Int
    /\ phase \in [Callers -> {"idle", "split", "wait", "report"}]
    /\ plan \in [Callers -> Seq(Agents)]
    /\ told \in [Agents -> {"PENDING", "RUNNING", "COMPLETED", "FAILED"}]

\* The free slots are those no conversation holds, so never more than Slots
\* agents work, and none that holds one waits for another agent: agents cannot
\* wait for each other in a circle through the semaphore.
SlotsAreForWork ==
    /\ count >= 0 /\ count + Cardinality(Working) = Slots
    /\ \A a \in Working : phase[a] = "idle"

\* What getResult says of an agent stays true, unless the wait timed out: a
\* caller is never told of a state the agent then leaves.
AnswerIsFinal ==
    \A a \in Agents : told[a] # "PENDING" /\ ~interrupted[a] =>
        thread[a] = "done" /\ told[a] = status[a]

\* An agent that waits for a slot gets one, whatever ends the others.
QueuedAgentsStart == \A a \in Agents : thread[a] = "queued" ~> thread[a] = "working"
====
