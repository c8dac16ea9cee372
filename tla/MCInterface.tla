---------------------------- MODULE MCInterface -----------------------------
(***************************************************************************)
(* What the users see and steer - their requests, permissions, the         *)
(* terminal, the key reader, commands, background tasks, the phone - side  *)
(* by side. The components share no state, so a behaviour runs one of them *)
(* and the others stay where they start: TLC explores each by itself.      *)
(* Fairness is that of the router, while it is the one that runs.          *)
(***************************************************************************)
EXTENDS SessionRouter

CONSTANTS Tools, MaxDenials, MaxStarts
(* It counts denials. *)
ASSUME GateAssumption == MaxDenials \in Nat
VARIABLES mode, allow, deny, saved, denials, allowAll, asking, ran, starts, up
permissionsVars == <<mode, allow, deny, saved, denials, allowAll, asking, ran, starts, up>>
Gate == INSTANCE Permissions

CONSTANTS Elicits
VARIABLES main, tty, armed, busy, watcher, interrupted, aborted, keysAsking, before, elicit,
          eof, quit, late
keysVars == <<main, tty, armed, busy, watcher, interrupted, aborted, keysAsking, before,
              elicit, eof, quit, late>>
Keys == INSTANCE Console WITH asking <- keysAsking

VARIABLES streamState, todo, writing, active, screenShutdown, worker, stdout, agent
screenVars == <<streamState, todo, writing, active, screenShutdown, worker, stdout, agent>>
Screen == INSTANCE Terminal WITH shutdown <- screenShutdown

CONSTANTS PhoneClients, Main, NoThread, MaxTries
(* There are finitely many sockets; threads and the absence of one differ. *)
ASSUME PhoneAssumption ==
  /\ IsFiniteSet(PhoneClients)
  /\ Main \notin PhoneClients /\ NoThread \notin PhoneClients \union {Main}
VARIABLES window, tries, file, socket, phoneClients, phoneMutex, sending, inTurn, engine,
          router, http
phoneVars == <<window, tries, file, socket, phoneClients, phoneMutex, sending, inTurn,
               engine, router, http>>
Phone == INSTANCE RemoteControl WITH Clients <- PhoneClients, clients <- phoneClients,
         mutex <- phoneMutex

CONSTANTS MaxPasses, MaxModels, MaxAgents
VARIABLES running, left, inPrompt, promptsInterrupted, cancelled, apiClient, alive, agents,
          on
promptsVars == <<running, left, inPrompt, promptsInterrupted, cancelled, apiClient,
                 alive, agents, on>>
Prompts == INSTANCE Commands WITH interrupted <- promptsInterrupted

CONSTANTS MaxTasks, NoTask, NoOne
(* It bounds the ids. *)
ASSUME TaskAssumption == MaxTasks \in Nat
VARIABLES tasks, nextId, commands, taskStoreWorker, stopping, stray
taskStoreVars == <<tasks, nextId, commands, taskStoreWorker, stopping, stray>>
TaskStore == INSTANCE Tasks WITH worker <- taskStoreWorker

CONSTANTS Engines, MaxRuns
VARIABLES preloading, handle, aheadRunning, runs, aheadPc, exited, shared, terminated
aheadVars == <<preloading, handle, aheadRunning, runs, aheadPc, exited, shared, terminated>>
Ahead == INSTANCE Preload WITH running <- aheadRunning, pc <- aheadPc

VARIABLE component   \* the one that runs
allVars == <<vars, permissionsVars, keysVars, screenVars, phoneVars, promptsVars,
             taskStoreVars, aheadVars, component>>

RunsOnly(c) == component = c /\ UNCHANGED component

SideBySideInit ==
  /\ component \in {"requests", "permissions", "keys", "screen", "phone", "prompts", "taskStore",
     "ahead"}
  /\ Init
  /\ Gate!Init
  /\ Keys!Init
  /\ Screen!Init
  /\ Phone!Init
  /\ Prompts!Init
  /\ TaskStore!Init
  /\ Ahead!Init
  /\ component # "permissions" => saved = [mode |-> "default", allow |-> {}, deny |-> {}]

SideBySideNext ==
  \/ /\ RunsOnly("requests") /\ Next
     /\ UNCHANGED <<permissionsVars, keysVars, screenVars, phoneVars, promptsVars,
                     taskStoreVars, aheadVars>>
  \/ /\ RunsOnly("permissions") /\ Gate!Next
     /\ UNCHANGED <<vars, keysVars, screenVars, phoneVars, promptsVars, taskStoreVars,
                     aheadVars>>
  \/ /\ RunsOnly("keys") /\ Keys!Next
     /\ UNCHANGED <<vars, permissionsVars, screenVars, phoneVars, promptsVars,
                     taskStoreVars, aheadVars>>
  \/ /\ RunsOnly("screen") /\ Screen!Next
     /\ UNCHANGED <<vars, permissionsVars, keysVars, phoneVars, promptsVars, taskStoreVars,
                     aheadVars>>
  \/ /\ RunsOnly("phone") /\ Phone!Next
     /\ UNCHANGED <<vars, permissionsVars, keysVars, screenVars, promptsVars, taskStoreVars,
                     aheadVars>>
  \/ /\ RunsOnly("prompts") /\ Prompts!Next
     /\ UNCHANGED <<vars, permissionsVars, keysVars, screenVars, phoneVars, taskStoreVars,
                     aheadVars>>
  \/ /\ RunsOnly("taskStore") /\ TaskStore!Next
     /\ UNCHANGED <<vars, permissionsVars, keysVars, screenVars, phoneVars, promptsVars,
                     aheadVars>>
  \/ /\ RunsOnly("ahead") /\ Ahead!Next
     /\ UNCHANGED <<vars, permissionsVars, keysVars, screenVars, phoneVars, promptsVars,
                     taskStoreVars>>

Alone(A) ==
  /\ RunsOnly("requests") /\ A
  /\ UNCHANGED <<permissionsVars, keysVars, screenVars, phoneVars, promptsVars,
                 taskStoreVars, aheadVars>>

SideBySide ==
  /\ SideBySideInit /\ [][SideBySideNext]_allVars
  /\ \A c \in Clients : WF_allVars(Alone(NotifyOne(c)))
  /\ \A w \in Workers : WF_allVars(Alone(Worker(w)))
  /\ WF_allVars(Alone(NotifyAll)) /\ WF_allVars(Alone(Join))

(* No rule and no mode lets a refused call run.                            *)
DeniedCallsWait == Gate!DeniedCallsWait
(* The watcher gives the keys up after one read at most, and a prompt      *)
(* finds the terminal as it should be.                                     *)
KeyboardIsShared == Keys!KeyboardIsShared
(* No frame of the spinner falls into the text.                            *)
NoFrameInText == Screen!NoFrameInText
(* A send reaches a socket that is open.                                   *)
SendsReachOpenSockets == Phone!SendsReachOpenSockets
(* An agent that is waited for has its client.                             *)
AgentsKeepTheirClient == Prompts!AgentsKeepTheirClient
(* A task shows the output of its own command.                             *)
ResultsAreOwn == TaskStore!ResultsAreOwn
(* The handle of the preload thread is never overwritten.                  *)
NeverTerminates == Ahead!NeverTerminates
=============================================================================
