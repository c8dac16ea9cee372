---- MODULE Console ----
(***************************************************************************)
(* Who reads the terminal: the input loop between turns, and during a turn  *)
(* the key watcher, a thread that only looks for Esc, and the selector of a *)
(* permission prompt or of AskUserQuestion.  An MCP server may ask the user *)
(* for a line from its reader thread at any time.                          *)
(*                                                                         *)
(* This is the POSIX build.  In raw mode a read does not wait, so a line    *)
(* read then is an end of file, and std::cin remembers it.                 *)
(***************************************************************************)
EXTENDS Integers

CONSTANTS
    Elicits         \* some MCP server asks for lines

VARIABLES
    main,           \* where the input loop is
    tty,            \* the terminal's mode
    armed, busy,    \* kwTurnActive; the ConsoleInputGuard counter
    watcher,        \* where the key watcher is
    interrupted,    \* the engine's interrupted_
    aborted,        \* kwAborted
    asking, before, \* where the selector is; the mode it found
    elicit,         \* where the MCP reader thread is
    eof,            \* std::cin has met the end of the file
    quit,           \* history: the user asked to leave
    late            \* history: reads the watcher began since it last had to yield

vars == <<main, tty, armed, busy, watcher, interrupted, aborted, asking, before, elicit, eof, quit,
          late>>
keys == <<armed, watcher, interrupted, aborted, late>>
prompts == <<busy, asking, before, elicit>>

Init ==
    /\ main = "prompt" /\ tty = "cooked"
    /\ armed = FALSE /\ busy = 0 /\ watcher = "idle"
    /\ interrupted = FALSE /\ aborted = FALSE
    /\ asking = "no" /\ before = "cooked" /\ elicit = "no"
    /\ eof = FALSE /\ quit = FALSE /\ late = 0

---------------------------------------------------------------------------
\* The input loop.

\* A message; an empty line, a command and a "!" line come back to the prompt.
ReadMessage ==
    /\ main = "prompt" /\ ~eof
    /\ main' = "enter" /\ aborted' = FALSE
    /\ UNCHANGED <<tty, armed, watcher, interrupted, late, prompts, eof, quit>>

\* /exit, :q of the vim mode or Ctrl-D.
ReadQuit ==
    /\ main = "prompt" /\ ~eof
    /\ quit' = TRUE /\ main' = "exit"
    /\ UNCHANGED <<tty, keys, prompts, eof>>

\* An empty line at the end of the file ends the loop.
ReadEof ==
    /\ main = "prompt" /\ eof
    /\ main' = "exit"
    /\ UNCHANGED <<tty, keys, prompts, eof, quit>>

EnterRaw ==
    /\ main = "enter"
    /\ tty' = "raw" /\ main' = "arm"
    /\ UNCHANGED <<keys, prompts, eof, quit>>

Arm ==
    /\ main = "arm"
    /\ armed' = TRUE /\ main' = "submit"
    /\ UNCHANGED <<tty, watcher, interrupted, aborted, late, prompts, eof, quit>>

\* submitMessage begins by clearing interrupted_.
Submit ==
    /\ main = "submit"
    /\ interrupted' = FALSE /\ main' = "turn"
    /\ UNCHANGED <<tty, armed, watcher, aborted, late, prompts, eof, quit>>

\* The turn is over, has been interrupted or has thrown: all three lead here.
TurnEnds ==
    /\ main = "turn" /\ asking = "no"
    /\ armed' = FALSE /\ main' = "leave" /\ late' = 0
    /\ UNCHANGED <<tty, watcher, interrupted, aborted, prompts, eof, quit>>

Kept == tty

\* leaveRaw: what was typed is dropped and the mode restored.
Restored == "cooked"

LeaveRaw ==
    /\ main = "leave"
    /\ tty' = Restored /\ main' = "prompt"
    /\ UNCHANGED <<keys, prompts, eof, quit>>

\* The watcher is joined once, at the end.
Leave ==
    /\ main = "exit" /\ watcher = "idle"
    /\ main' = "done"
    /\ UNCHANGED <<tty, keys, prompts, eof, quit>>

---------------------------------------------------------------------------
\* The key watcher.  It tests the two flags one after the other and then reads: for
\* 20 ms, and after the byte that begins an escape sequence twice 40 ms more for
\* the rest.

Watch(from, to) == watcher = from /\ watcher' = to

SeesTurn ==
    /\ Watch("idle", "test") /\ main # "exit" /\ armed
    /\ UNCHANGED <<main, tty, armed, interrupted, aborted, late, prompts, eof, quit>>

\* consoleInputBusy is not asked.
AtOnce == TRUE

NobodyAsks == busy = 0

MayRead == NobodyAsks

SeesBusy ==
    /\ Watch("test", IF MayRead THEN "begin" ELSE "idle")
    /\ UNCHANGED <<main, tty, armed, interrupted, aborted, late, prompts, eof, quit>>

\* The keys are the prompt's, or the input loop's.
MustYield == busy > 0 \/ ~armed

BeginRead ==
    /\ Watch("begin", "block")
    /\ late' = IF MustYield /\ late < 2 THEN late + 1 ELSE late
    /\ UNCHANGED <<main, tty, armed, interrupted, aborted, prompts, eof, quit>>

\* Nothing came, or a key that is not Esc: dropped.
ReadNothing ==
    /\ watcher \in {"block", "peek"}
    /\ watcher' = "idle"
    /\ UNCHANGED <<main, tty, armed, interrupted, aborted, late, prompts, eof, quit>>

ReadEscByte ==
    /\ watcher = "block"
    /\ watcher' = "peek"
    /\ UNCHANGED <<main, tty, armed, interrupted, aborted, late, prompts, eof, quit>>

\* A lone Esc: interrupt(), then kwAborted.
Interrupt ==
    /\ watcher = "peek"
    /\ interrupted' = TRUE /\ watcher' = "mark"
    /\ UNCHANGED <<main, tty, armed, aborted, late, prompts, eof, quit>>

MarkAborted ==
    /\ watcher = "mark"
    /\ aborted' = TRUE /\ watcher' = "idle"
    /\ UNCHANGED <<main, tty, armed, interrupted, late, prompts, eof, quit>>

---------------------------------------------------------------------------
\* KeyboardSelector::select, on the thread of the turn.

\* A call of AskUserQuestion, or a permission prompt, puts one question after
\* the other.
AskUserQuestion == main = "turn" /\ asking = "no"

\* The guard is claimed.
Ask ==
    /\ AskUserQuestion
    /\ busy' = busy + 1 /\ asking' = "wait" /\ late' = 0
    /\ UNCHANGED <<main, tty, armed, watcher, interrupted, aborted, before, elicit, eof, quit>>

\* 35 ms later, whatever the watcher is doing by then.
SelectKeys ==
    /\ asking = "wait"
    /\ before' = tty /\ tty' = "raw" /\ asking' = "keys"
    /\ UNCHANGED <<main, keys, busy, elicit, eof, quit>>

\* Enter on an option, Esc, or a shortcut.
Choose ==
    /\ asking = "keys"
    /\ tty' = before /\ busy' = busy - 1 /\ asking' = "no"
    /\ UNCHANGED <<main, keys, before, elicit, eof, quit>>

\* Enter on "[Type response...]": the mode the selector found comes back for
\* the line.
ChooseTyping ==
    /\ asking = "keys"
    /\ tty' = before /\ asking' = "line"
    /\ UNCHANGED <<main, keys, busy, before, elicit, eof, quit>>

TypeAnswer ==
    /\ asking = "line"
    /\ eof' = (eof \/ tty = "raw")
    /\ tty' = before /\ busy' = busy - 1 /\ asking' = "no"
    /\ UNCHANGED <<main, keys, before, elicit, quit>>

\* onElicitation: getUserInput, with no guard.
Elicit ==
    /\ Elicits /\ elicit = "no"
    /\ elicit' = "line"
    /\ UNCHANGED <<main, tty, keys, busy, asking, before, eof, quit>>

ElicitLine ==
    /\ elicit = "line"
    /\ eof' = (eof \/ tty = "raw")
    /\ elicit' = "no"
    /\ UNCHANGED <<main, tty, keys, busy, asking, before, quit>>

Next ==
    \/ ReadMessage \/ ReadQuit \/ ReadEof \/ EnterRaw \/ Arm \/ Submit \/ TurnEnds \/ LeaveRaw
    \/ Leave
    \/ SeesTurn \/ SeesBusy \/ BeginRead \/ ReadNothing \/ ReadEscByte \/ Interrupt \/ MarkAborted
    \/ Ask \/ SelectKeys \/ Choose \/ ChooseTyping \/ TypeAnswer \/ Elicit \/ ElicitLine

Spec == Init /\ [][Next]_vars

---------------------------------------------------------------------------
\* From the moment a prompt claims the guard or the turn disarms the watcher,
\* the watcher begins at most one read more, the one it had tested the flags for:
\* the prompt can lose one key to it, or one escape sequence, and no other.  (It can
\* lose that one: main.cpp:1764 tests and then reads, the 35 ms that
\* KeyboardSelector.h:134 waits are less than the 100 an escape sequence takes, and
\* the comment at main.cpp:1772, "so we don't double-read", does not hold.  What an
\* MCP server's elicitation reads, with no guard, is not counted.)
WatcherYields == late <= 1

\* Whatever prompts a turn has shown, the user types the next message in cooked
\* mode, with the guard free for the turn to come.
PromptIsCooked == main = "prompt" => tty = "cooked" /\ busy = 0

\* The terminal is handed from one reader to the next: the watcher gives it up
\* after one read at most, and neither a turn's raw mode nor its guard is left
\* behind for the prompt.
KeyboardIsShared == WatcherYields /\ PromptIsCooked
====
