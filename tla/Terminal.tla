------------------------------ MODULE Terminal ------------------------------
(***************************************************************************)
(* Who writes the terminal: the engine's callbacks, the spinner's one      *)
(* long-lived thread, and the lines of background sub-agents.  The stdout  *)
(* mutex is held by the spinner and the sub-agents; the callbacks write    *)
(* without it and rely on Spinner::stop having silenced the spinner.       *)
(***************************************************************************)
EXTENDS Naturals, Sequences

VARIABLES streamState,  \* what the turn is showing
          todo,         \* what is left of the callback that is running
          writing,      \* a callback is in the middle of a write to std::cout
          active,       \* Spinner::active_
          shutdown,     \* Spinner::shutdown_
          worker,       \* the spinner's thread
          stdout,       \* who holds the stdout mutex
          agent         \* a background sub-agent's activity line

vars == <<streamState, todo, writing, active, shutdown, worker, stdout, agent>>

NoTurn == "none"

Init == /\ streamState = NoTurn
        /\ todo = <<>>
        /\ writing = FALSE
        /\ active = FALSE
        /\ shutdown = FALSE
        /\ worker = "test"
        /\ stdout = "free"
        /\ agent = "idle"

-----------------------------------------------------------------------------
\* The callbacks, as the steps they make on the terminal.
StopSpinner == <<"clear", "quiet">>
StartSpinner == StopSpinner \o <<"announce", "activate", "notify">>
WriteText == <<"write", "wrote">>

Calls(steps, to) == /\ todo = <<>>
                    /\ ~shutdown
                    /\ todo' = steps
                    /\ streamState' = to
                    /\ UNCHANGED <<writing, active, shutdown, worker, stdout, agent>>

InTurn == streamState # NoTurn

TurnStarts == /\ streamState = NoTurn
              /\ Calls(StartSpinner, "waiting")

OnText == InTurn /\ Calls((IF streamState = "responding" THEN <<>> ELSE StopSpinner) \o WriteText,
                          "responding")

OnThinking == InTurn /\ streamState # "thinking" /\ Calls(StopSpinner \o StartSpinner, "thinking")

\* Agent and AskUserQuestion take the console over: no spinner beside them.
OnToolUse == InTurn /\ \E takesConsole \in BOOLEAN :
    Calls(StopSpinner \o WriteText \o (IF takesConsole THEN WriteText ELSE StartSpinner), "tool")

OnToolResult == InTurn /\ Calls(StopSpinner \o WriteText \o StartSpinner, "waiting")

OnAskPermission == InTurn /\ Calls(StopSpinner \o WriteText, streamState)

\* onComplete and onError: the turn goes on to its end in submitMessage.
OnComplete == InTurn /\ Calls(StopSpinner \o WriteText, "waiting")

TurnEnds == InTurn /\ Calls(StopSpinner, NoTurn)

\* The spinner is destroyed when main returns.
ProgramEnds == /\ streamState = NoTurn
               /\ todo = <<>>
               /\ ~shutdown
               /\ active' = FALSE
               /\ shutdown' = TRUE
               /\ todo' = <<"notify", "join">>
               /\ UNCHANGED <<streamState, writing, worker, stdout, agent>>

Callback == \/ TurnStarts \/ OnText \/ OnThinking \/ OnToolUse \/ OnToolResult
            \/ OnAskPermission \/ OnComplete \/ TurnEnds \/ ProgramEnds

-----------------------------------------------------------------------------
Next1(op) == todo # <<>> /\ Head(todo) = op
Done == todo' = Tail(todo)

\* stop(): returns at once when another stop has already cleared the flag.
Clear == /\ Next1("clear")
         /\ active' = FALSE
         /\ todo' = IF active THEN Tail(todo) ELSE Tail(Tail(todo))
         /\ UNCHANGED <<streamState, writing, shutdown, worker, stdout, agent>>

\* ... and otherwise takes the mutex once, which waits a frame under way out.
Quiet == /\ Next1("quiet")
         /\ stdout = "free"
         /\ Done
         /\ UNCHANGED <<streamState, writing, active, shutdown, worker, stdout, agent>>

Announce == /\ Next1("announce")
            /\ stdout = "free"
            /\ Done
            /\ UNCHANGED <<streamState, writing, active, shutdown, worker, stdout, agent>>

Activate == /\ Next1("activate")
            /\ active' = TRUE
            /\ Done
            /\ UNCHANGED <<streamState, writing, shutdown, worker, stdout, agent>>

\* notify_one is called without the spinner's mutex: it wakes a thread that
\* waits, and does nothing for one that has tested but does not wait yet.
Notify == /\ Next1("notify")
          /\ worker' = IF worker = "waiting" THEN "test" ELSE worker
          /\ Done
          /\ UNCHANGED <<streamState, writing, active, shutdown, stdout, agent>>

Write == /\ Next1("write")
         /\ writing' = TRUE
         /\ Done
         /\ UNCHANGED <<streamState, active, shutdown, worker, stdout, agent>>

Wrote == /\ Next1("wrote")
         /\ writing' = FALSE
         /\ Done
         /\ UNCHANGED <<streamState, active, shutdown, worker, stdout, agent>>

Join == /\ Next1("join")
        /\ worker = "gone"
        /\ Done
        /\ UNCHANGED <<streamState, writing, active, shutdown, worker, stdout, agent>>

MainStep == Clear \/ Quiet \/ Announce \/ Activate \/ Notify \/ Write \/ Wrote \/ Join

-----------------------------------------------------------------------------
Moves(from, to) == worker = from /\ worker' = to

\* The loop's test, the wait's test of its condition, and the wait itself.
Tests == /\ Moves("test", IF shutdown THEN "gone" ELSE IF active THEN "spin" ELSE "blocking")
         /\ UNCHANGED stdout
Blocks == Moves("blocking", "waiting") /\ UNCHANGED stdout

\* One frame every 80 ms while the flag is up.
Spins == Moves("spin", IF active THEN "lock" ELSE "test") /\ UNCHANGED stdout
Locks == Moves("lock", "recheck") /\ stdout = "free" /\ stdout' = "spinner"

\* Mutant of Rechecks: the frame is drawn on the strength of the first test.
DrawsAnyway == Moves("recheck", "frame") /\ UNCHANGED stdout

Rechecks == \/ active /\ Moves("recheck", "frame") /\ UNCHANGED stdout
            \/ ~active /\ Moves("recheck", "test") /\ stdout' = "free"
Draws == Moves("frame", "spin") /\ stdout' = "free"

SpinnerThread == /\ Tests \/ Blocks \/ Spins \/ Locks \/ Rechecks \/ Draws
                 /\ UNCHANGED <<streamState, todo, writing, active, shutdown, agent>>

\* AgentActivitySink: a line of a background sub-agent, under the mutex.
AgentPrints == /\ \/ agent = "idle" /\ stdout = "free" /\ agent' = "line" /\ stdout' = "agent"
                  \/ agent = "line" /\ agent' = "idle" /\ stdout' = "free"
               /\ UNCHANGED <<streamState, todo, writing, active, shutdown, worker>>

Next == Callback \/ MainStep \/ SpinnerThread \/ AgentPrints

Spec == Init /\ [][Next]_vars

Fairness == WF_vars(MainStep) /\ SF_vars(SpinnerThread) /\ WF_vars(AgentPrints)

FairSpec == Spec /\ Fairness

-----------------------------------------------------------------------------
\* Once stop() has returned the spinner draws no frame, so no frame ever falls
\* into the middle of a callback's text, which is written without the mutex.
NoFrameInText == ~(writing /\ worker = "frame")

\* "ALL terminal output must go through this": nobody writes while somebody
\* else is in the middle of a write.
OneWriter == ~(writing /\ (worker = "frame" \/ agent = "line"))

\* The program can leave: the spinner's destructor joins its thread.
SpinnerIsJoined == shutdown ~> (todo = <<>>)
=============================================================================
