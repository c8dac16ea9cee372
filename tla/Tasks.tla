------------------------------- MODULE Tasks -------------------------------
(***************************************************************************)
(* The task store and the threads that report into it: background Bash     *)
(* commands and monitors.  TaskStore::get returns a pointer that is used   *)
(* after the store's lock is given up, so every field a thread writes is a *)
(* step of its own, and TaskUpdate may erase the entry between two of them.*)
(***************************************************************************)
EXTENDS Naturals, FiniteSets

CONSTANTS MaxTasks,   \* tasks created in all
          NoTask,     \* an entry that was never created or was erased
          NoOne       \* no TaskStop call is under way

Ids == 1 .. MaxTasks
Started == 0          \* "Running: ...": the description a task starts with

VARIABLES tasks,      \* id -> entry: status, command and the output shown
          nextId,
          commands,   \* commands and monitors started so far
          worker,     \* command -> its thread: kind, the id it reports to, step
          stopping,   \* the task a TaskStop call has looked at
          stray       \* a thread has written through a pointer to an erased entry

vars == <<tasks, nextId, commands, worker, stopping, stray>>

Statuses == {"pending", "in_progress", "completed", "running", "killed"}
Idle == [kind |-> "none", id |-> 1, at |-> "over"]

Init == /\ tasks = [i \in Ids |-> NoTask]
        /\ nextId = 0
        /\ commands = 0
        /\ worker = [c \in Ids |-> Idle]
        /\ stopping = NoOne
        /\ stray = FALSE

Exists(i) == tasks[i] # NoTask

\* Mutant of FreshId: the number of tasks in the store names the next one.
SizeOfStore == Cardinality({i \in Ids : Exists(i)}) + 1

FreshId == nextId + 1

\* TaskStore::create, for the command c or for a plan item of the model (c = 0).
Create(c) == /\ FreshId \in Ids
             /\ nextId' = nextId + 1
             /\ tasks' = [tasks EXCEPT ![FreshId] =
                           [status |-> "pending", command |-> c, shown |-> Started]]

TaskCreate == Create(0) /\ UNCHANGED <<commands, worker, stopping, stray>>

RunInBackground(kind) == /\ commands < MaxTasks
                         /\ commands' = commands + 1
                         /\ Create(commands')
                         /\ worker' = [worker EXCEPT ![commands'] =
                              [kind |-> kind, id |-> FreshId,
                               at |-> IF kind = "monitor" THEN "claim" ELSE "run"]]
                         /\ UNCHANGED <<stopping, stray>>

-----------------------------------------------------------------------------
At(c, kind, step) == worker[c].kind = kind /\ worker[c].at = step

Goto(c, step) == worker' = [worker EXCEPT ![c].at = step]

\* A write through the pointer a thread holds; the entry may be gone.
Writes(c, field, value) ==
    LET i == worker[c].id IN
    IF Exists(i) THEN tasks' = [tasks EXCEPT ![i][field] = value] /\ UNCHANGED stray
                 ELSE stray' = TRUE /\ UNCHANGED tasks

\* A background Bash command: its output is collected to the end, the entry is
\* looked up once, then the status and the output are written in that order.
BashEnds(c) == /\ At(c, "bash", "run")
               /\ Goto(c, IF Exists(worker[c].id) THEN "status" ELSE "over")
               /\ UNCHANGED <<tasks, nextId, commands, stopping, stray>>

BashCompletes(c) == /\ At(c, "bash", "status")
                    /\ Writes(c, "status", "completed")
                    /\ Goto(c, "output")
                    /\ UNCHANGED <<nextId, commands, stopping>>

BashShows(c) == /\ At(c, "bash", "output")
                /\ Writes(c, "shown", c)
                /\ Goto(c, "over")
                /\ UNCHANGED <<nextId, commands, stopping>>

\* A monitor looks its entry up before it starts and keeps the pointer.
MonitorClaims(c) == /\ At(c, "monitor", "claim")
                    /\ IF Exists(worker[c].id)
                       THEN Writes(c, "status", "running") /\ Goto(c, "run")
                       ELSE Goto(c, "over") /\ UNCHANGED <<tasks, stray>>
                    /\ UNCHANGED <<nextId, commands, stopping>>

MonitorShows(c) == /\ At(c, "monitor", "run")
                   /\ Writes(c, "shown", c)
                   /\ UNCHANGED <<nextId, commands, worker, stopping>>

\* It ends with its command or at its deadline, and completes its task unless
\* that is "stopped", a status nothing sets any more (TaskStop says "killed").
MonitorEnds(c) == /\ At(c, "monitor", "run")
                  /\ Writes(c, "status", "completed")
                  /\ Goto(c, "output")
                  /\ UNCHANGED <<nextId, commands, stopping>>

MonitorLeaves(c) == /\ At(c, "monitor", "output")
                    /\ Goto(c, "over")
                    /\ UNCHANGED <<tasks, nextId, commands, stopping, stray>>

-----------------------------------------------------------------------------
\* TaskUpdate: any status the model writes; "deleted" erases the entry.
TaskUpdate(i) == /\ Exists(i)
                 /\ \/ \E s \in {"in_progress", "completed"} :
                          tasks' = [tasks EXCEPT ![i].status = s]
                    \/ tasks' = [tasks EXCEPT ![i] = NoTask]
                 /\ UNCHANGED <<nextId, commands, worker, stopping, stray>>

\* TaskStop tests the status through a pointer, then takes the lock again.
StopTests(i) == /\ stopping = NoOne
                /\ Exists(i)
                /\ tasks[i].status \in {"in_progress", "pending"}
                /\ stopping' = i
                /\ UNCHANGED <<tasks, nextId, commands, worker, stray>>

StopWrites == /\ stopping # NoOne
              /\ tasks' = IF Exists(stopping)
                          THEN [tasks EXCEPT ![stopping].status = "killed"]
                          ELSE tasks
              /\ stopping' = NoOne
              /\ UNCHANGED <<nextId, commands, worker, stray>>

Thread(c) == \/ BashEnds(c) \/ BashCompletes(c) \/ BashShows(c)
             \/ MonitorClaims(c) \/ MonitorShows(c) \/ MonitorEnds(c) \/ MonitorLeaves(c)

\* One engine thread runs the tools, so no TaskUpdate comes inside a TaskStop.
Tool == \/ stopping = NoOne /\ (TaskCreate \/ \E k \in {"bash", "monitor"} : RunInBackground(k))
        \/ \E i \in Ids : StopTests(i) \/ (stopping = NoOne /\ TaskUpdate(i))
        \/ StopWrites

Next == Tool \/ \E c \in Ids : Thread(c)

Spec == Init /\ [][Next]_vars

-----------------------------------------------------------------------------
TypeOK == /\ tasks \in [Ids -> {NoTask} \union
                         [status : Statuses, command : {0} \union Ids, shown : {Started} \union Ids]]
          /\ nextId \in 0 .. MaxTasks
          /\ commands \in 0 .. MaxTasks
          /\ stopping \in Ids \union {NoOne}
          /\ stray \in BOOLEAN

\* A task shows its own command's output or none: a thread that reports after
\* its task was deleted and others were created never writes into one of them.
ResultsAreOwn == \A i \in Ids : Exists(i) => tasks[i].shown \in {Started, tasks[i].command}

\* "Stop a running task by its ID.": what TaskStop reported as stopped is not
\* completed by its thread afterwards.
StopsLast == [][\A i \in Ids : Exists(i) /\ Exists(i)' /\ tasks[i].status = "killed" =>
                  tasks'[i].status # "completed" \/ TaskUpdate(i)]_vars
=============================================================================
