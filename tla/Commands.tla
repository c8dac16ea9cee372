------------------------------ MODULE Commands ------------------------------
(***************************************************************************)
(* The slash commands that do more than print: those that submit prompts   *)
(* of their own, /model, which gives the engine another API client, and    *)
(* the switches of AppState.  A command runs on the input thread while     *)
(* sub-agents started by earlier prompts go on with the client they were   *)
(* given; Ctrl+C may come at any step.  The commands that change the       *)
(* history or the session id are in Sessions, the permission mode is in    *)
(* Permissions, /api in Startup.                                           *)
(***************************************************************************)
EXTENDS Integers, FiniteSets

CONSTANTS
  MaxPasses,    \* the largest N of /passes N, 10 in the code
  MaxModels,    \* bound: how many times /model makes a client
  MaxAgents     \* bound: sub-agents, queued for a slot or running, at a time

(* A command by the numbers of prompts it may hand to the engine.          *)
review         == [name |-> "review", prompts |-> {0, 1}]  \* 0: no diff
pr             == [name |-> "pr", prompts |-> {0, 1}]      \* 0: runs gh
issue          == [name |-> "issue", prompts |-> {0, 1}]   \* 1: create
summary        == [name |-> "summary", prompts |-> {0, 1}] \* 0: too short
autofixPr      == [name |-> "autofix-pr", prompts |-> {1}]
bughunter      == [name |-> "bughunter", prompts |-> {1}]
passes         == [name |-> "passes", prompts |-> 0..MaxPasses]
securityReview == [name |-> "security-review", prompts |-> {1}]
releaseNotes   == [name |-> "release-notes", prompts |-> {0, 1}]
workflows      == [name |-> "workflows", prompts |-> {0, 1}]
message        == [name |-> "message", prompts |-> {1}]
(* Both need CommandContext.apiClient, which nothing sets.                 *)
coordinator    == [name |-> "coordinator", prompts |-> {0}]
btw            == [name |-> "btw", prompts |-> {0}]

Lines == {review, pr, issue, summary, autofixPr, bughunter, passes, message,
          securityReview, releaseNotes, workflows, coordinator, btw}

VARIABLES
  running,      \* the command the input thread is in, or "none"
  left,         \* how many of its prompts have not been submitted
  inPrompt,     \* the engine is inside submitMessage
  interrupted,  \* interrupted_
  cancelled,    \* Ctrl+C came during a prompt of the running command
  apiClient,    \* the engine's client; 0 is the one made at the start
  alive,        \* the clients that have not been destroyed
  agents,       \* the sub-agents: each one's client, and who waits for it
  on            \* the switches of AppState that are on

promptVars == <<running, left, inPrompt, interrupted, cancelled>>
clientVars == <<apiClient, alive, agents>>
commandVars == <<promptVars, clientVars, on>>

Init ==
  /\ running = "none" /\ left = 0 /\ inPrompt = FALSE
  /\ interrupted = FALSE /\ cancelled = FALSE
  /\ apiClient = 0 /\ alive = {0} /\ agents = {}
  /\ on = {}

-----------------------------------------------------------------------------
(* The input loop reads a line: a command, or a message for the engine.    *)
ReadLine ==
  /\ running = "none"
  /\ \E line \in Lines : /\ running' = line.name
                         /\ left' \in line.prompts
  /\ cancelled' = FALSE
  /\ UNCHANGED <<inPrompt, interrupted, clientVars, on>>

(* submitMessage clears interrupted_ before anything else.                 *)
Submit ==
  /\ running # "none" /\ left > 0 /\ ~inPrompt
  /\ left' = left - 1 /\ inPrompt' = TRUE /\ interrupted' = FALSE
  /\ UNCHANGED <<running, cancelled, clientVars, on>>

(* A prompt's tool starts an agent, which keeps the engine's client, and    *)
(* waits for it unless it is to run in the background.                     *)
StartAgent ==
  /\ inPrompt /\ Cardinality(agents) < MaxAgents
  /\ \E waiting \in {"prompt", "nobody"} :
       agents' = agents \cup {[client |-> apiClient, waiting |-> waiting]}
  /\ UNCHANGED <<promptVars, apiClient, alive, on>>

(* After half an hour the tool gives up; the agent goes on.                *)
GiveUp ==
  /\ \E a \in agents :
       /\ a.waiting = "prompt"
       /\ agents' = (agents \ {a}) \cup {[a EXCEPT !.waiting = "nobody"]}
  /\ UNCHANGED <<promptVars, apiClient, alive, on>>

(* The tool's wait: Ctrl+C does not end it.                                *)
AgentsAnswered == \A a \in agents : a.waiting # "prompt"

(* Without it.                                                             *)
AgentsLeft == TRUE

MayEnd == AgentsAnswered

PromptEnds ==
  /\ MayEnd
  /\ inPrompt /\ inPrompt' = FALSE
  /\ UNCHANGED <<running, left, interrupted, cancelled, clientVars, on>>

CommandEnds ==
  /\ running # "none" /\ left = 0 /\ ~inPrompt
  /\ running' = "none"
  /\ UNCHANGED <<left, inPrompt, interrupted, cancelled, clientVars, on>>

AgentEnds ==
  /\ \E a \in agents : agents' = agents \ {a}
  /\ UNCHANGED <<promptVars, apiClient, alive, on>>

(* SIGINT, or the console's control handler.                               *)
CtrlC ==
  /\ interrupted' = TRUE /\ cancelled' = (cancelled \/ inPrompt)
  /\ UNCHANGED <<running, left, inPrompt, clientVars, on>>

(* /model keeps the client it made in a static pointer: the one it made    *)
(* before is destroyed, the one made at the start never is.                *)
ModelClient(new) ==
  /\ apiClient' = new
  /\ alive' = {0, new}

SwitchModel ==
  /\ running = "none"
  /\ \E new \in 1..MaxModels : /\ new \notin alive /\ new = apiClient + 1
                               /\ ModelClient(new)
  /\ UNCHANGED <<promptVars, agents, on>>

-----------------------------------------------------------------------------
Flipped(switch) ==
  on' = IF switch \in on THEN on \ {switch} ELSE on \cup {switch}

Fast == Flipped("fastMode")
Brief == Flipped("fastMode")
Plan == Flipped("planMode")
Buddy == Flipped("planMode")
Vim == Flipped("vimMode")
Verbose == Flipped("verbose")
(* /thinking flips, or is told which way.                                  *)
Thinking == \/ Flipped("thinking")
            \/ \E to \in {on \cup {"thinking"}, on \ {"thinking"}} : on' = to
(* /effort: low turns thinking off, medium and high turn it on.            *)
Effort == \E to \in {on \cup {"thinking"}, on \ {"thinking"}} : on' = to

Flip ==
  /\ running = "none"
  /\ Fast \/ Brief \/ Plan \/ Buddy \/ Vim \/ Verbose \/ Thinking \/ Effort
  /\ UNCHANGED <<promptVars, clientVars>>

Next == \/ ReadLine \/ Submit \/ StartAgent \/ GiveUp \/ PromptEnds \/ CommandEnds
        \/ AgentEnds \/ CtrlC \/ SwitchModel \/ Flip

Spec == Init /\ [][Next]_commandVars

-----------------------------------------------------------------------------
(* /model destroys the client it made before while agents go on with       *)
(* theirs (ExtendedCommands.h:950).  An agent that its prompt waits for has *)
(* its client as long as the wait lasts, however prompts, cancellations,   *)
(* time-outs and switches follow each other; only one in the background,   *)
(* or one that the wait gave up, can be left with a destroyed client, and  *)
(* only if a /model had made it: those started before the first keep       *)
(* theirs to the end.                                                      *)
AgentsKeepTheirClient ==
  /\ apiClient \in alive
  /\ \A a \in agents : a.client \notin alive => a.waiting = "nobody" /\ a.client # 0

(* Ctrl+C during a prompt cancels the command: none of its prompts is      *)
(* submitted after it (/keybindings: "Cancel current operation").  /passes *)
(* goes on with the next pass, which clears interrupted_.                  *)
CancelEndsTheCommand == [][Submit => ~cancelled]_commandVars
=============================================================================
