------------------------------- MODULE Shell -------------------------------
(***************************************************************************)
(* One command run by Bash, PowerShell, REPL or ProcessRunner: the child   *)
(* shell, the pipe its output comes through and the call that waits for    *)
(* it.  The wait is a poll loop around select and waitpid on POSIX, a wait *)
(* on the process beside a reader thread on Windows, and a popen loop for  *)
(* REPL and background commands.  Output is counted in chunks.             *)
(***************************************************************************)
EXTENDS Naturals

CONSTANTS Styles,     \* subset of {"posix", "windows", "popen"}
          MaxPiped,   \* chunks the pipe holds
          MaxOutput   \* chunks a result holds before it is cut (100 KB)

VARIABLES style,      \* which of the loops runs this command
          call,       \* what the calling thread is doing
          reader,     \* the Windows reader thread
          child,      \* the shell: none, running, exited or reaped
          writers,    \* who holds the pipe's write end
          piped,      \* chunks written and not read
          output,     \* chunks in the result
          late,       \* the deadline has passed
          aborted,    \* Esc was pressed
          timedOut    \* the result says "command timed out"

command == <<child, writers, piped>>
clock == <<late, aborted>>
vars == <<style, call, reader, child, writers, piped, output, late, aborted, timedOut>>

Init == /\ style \in Styles
        /\ call = "idle"
        /\ reader = "done"
        /\ child = "none"
        /\ writers = {}
        /\ piped = 0
        /\ output = 0
        /\ late = FALSE
        /\ aborted = FALSE
        /\ timedOut = FALSE

Start == /\ call \in {"idle", "returned"}
         /\ style' \in Styles
         /\ call' = "waiting"
         /\ reader' = IF style' = "windows" THEN "reading" ELSE "done"
         /\ child' = "running"
         /\ writers' = {"shell"}
         /\ piped' = 0
         /\ output' = 0
         /\ late' = FALSE
         /\ timedOut' = FALSE
         /\ aborted' \in BOOLEAN

\* A pipe or a process that cannot be created: the call fails at once.
CannotStart == /\ call \in {"idle", "returned"}
               /\ call' = "returned"
               /\ child' = "none"
               /\ UNCHANGED <<style, reader, writers, piped, output, clock, timedOut>>

-----------------------------------------------------------------------------
\* The command: it prints, leaves a helper behind that keeps the pipe open,
\* closes its own output, exits.
Prints == /\ writers # {}
          /\ call # "returned"
          /\ piped < MaxPiped
          /\ piped' = piped + 1
          /\ UNCHANGED <<style, call, reader, child, writers, output, clock, timedOut>>

StartsHelper == /\ child = "running"
                /\ "shell" \in writers
                /\ writers' = writers \union {"helper"}
                /\ UNCHANGED <<style, call, reader, child, piped, output, clock, timedOut>>

Releases(w) == /\ w \in writers
               /\ writers' = writers \ {w}
               /\ UNCHANGED <<style, call, reader, child, piped, output, clock, timedOut>>

Exits == /\ child = "running"
         /\ child' = "exited"
         /\ writers' = writers \ {"shell"}
         /\ UNCHANGED <<style, call, reader, piped, output, clock, timedOut>>

DeadlinePasses == /\ call \notin {"idle", "returned"}
                  /\ ~late
                  /\ late' = TRUE
                  /\ UNCHANGED <<style, call, reader, command, output, aborted, timedOut>>

Esc == /\ ~aborted
       /\ call # "returned"
       /\ aborted' = TRUE
       /\ UNCHANGED <<style, call, reader, command, output, late, timedOut>>

-----------------------------------------------------------------------------
\* Mutant of Killed: the deadline is reported and nothing is killed.
Spared == UNCHANGED <<child, writers>>

\* kill(pid, SIGKILL) and TerminateProcess: the shell ends, a helper does not.
Killed == /\ child' = IF child = "running" THEN "exited" ELSE child
          /\ writers' = writers \ {"shell"}

\* The command's output is lost with the pipe when the caller closes it.
Closed == piped' = 0

AtEof == piped = 0 /\ writers = {}

IsCut(n) == n > MaxOutput

PosixGivesUp == /\ style = "posix"
                /\ call = "waiting"
                /\ late \/ aborted
                /\ Killed
                /\ timedOut' = TRUE
                /\ call' = "reaping"
                /\ Closed
                /\ UNCHANGED <<style, reader, output, clock>>

PosixReads == /\ style = "posix"
              /\ call = "waiting"
              /\ ~late /\ ~aborted
              /\ piped > 0
              /\ output' = output + 1
              /\ IF IsCut(output + 1)
                 THEN Killed /\ Closed /\ call' = "reaping"
                 ELSE piped' = piped - 1 /\ UNCHANGED <<call, child, writers>>
              /\ UNCHANGED <<style, reader, clock, timedOut>>

PosixSeesEof == /\ style = "posix"
                /\ call = "waiting"
                /\ ~late /\ ~aborted
                /\ AtEof
                /\ call' = "reaping"
                /\ UNCHANGED <<style, reader, command, output, clock, timedOut>>

\* select saw nothing for 100 ms; waitpid(WNOHANG) is a step of its own, and
\* what the command prints in between is never read.
PosixSelectTimesOut == /\ style = "posix"
                       /\ call = "waiting"
                       /\ ~late /\ ~aborted
                       /\ piped = 0 /\ writers # {}
                       /\ call' = "checking"
                       /\ UNCHANGED <<style, reader, command, output, clock, timedOut>>

PosixChecks == /\ call = "checking"
               /\ IF child = "exited"
                  THEN child' = "reaped" /\ call' = "returned" /\ Closed
                  ELSE call' = "waiting" /\ UNCHANGED <<child, piped>>
               /\ UNCHANGED <<style, reader, writers, output, clock, timedOut>>

\* Mutant of Reaps: the last waitpid is given WNOHANG too.
ReapsAtOnce == /\ call = "reaping"
               /\ child' = IF child = "exited" THEN "reaped" ELSE child
               /\ call' = "returned"
               /\ UNCHANGED <<style, reader, writers, piped, output, clock, timedOut>>

\* The last waitpid has neither a deadline nor a look at the abort flag.
Reaps == /\ call = "reaping"
         /\ child = "exited"
         /\ child' = "reaped"
         /\ call' = "returned"
         /\ UNCHANGED <<style, reader, writers, piped, output, clock, timedOut>>

-----------------------------------------------------------------------------
\* WaitForSingleObject returns at the exit or the deadline, never for an abort.
WindowsWaitEnds == /\ style = "windows"
                   /\ call = "waiting"
                   /\ late \/ child = "exited"
                   /\ IF child = "running" \/ aborted
                      THEN Killed /\ timedOut' = TRUE
                      ELSE UNCHANGED <<child, writers, timedOut>>
                   /\ call' = "joining"
                   /\ UNCHANGED <<style, reader, piped, output, clock>>

ReaderReads == /\ reader = "reading"
               /\ piped > 0
               /\ piped' = piped - 1
               /\ output' = output + 1
               /\ reader' = IF IsCut(output + 1) THEN "done" ELSE "reading"
               /\ UNCHANGED <<style, call, child, writers, clock, timedOut>>

ReaderSeesEof == /\ reader = "reading"
                 /\ AtEof
                 /\ reader' = "done"
                 /\ UNCHANGED <<style, call, command, output, clock, timedOut>>

WindowsJoins == /\ call = "joining"
                /\ reader = "done"
                /\ call' = "returned"
                /\ child' = "reaped"
                /\ Closed
                /\ UNCHANGED <<style, reader, writers, output, clock, timedOut>>

-----------------------------------------------------------------------------
\* fgets until the end of the file, the cut, or (REPL) an abort seen after a
\* line; pclose then closes the pipe and waits for the shell.
PopenReads == /\ style = "popen"
              /\ call = "waiting"
              /\ piped > 0
              /\ output' = output + 1
              /\ \/ ~IsCut(output + 1) /\ piped' = piped - 1 /\ UNCHANGED call
                 \/ (IsCut(output + 1) \/ aborted) /\ Closed /\ call' = "reaping"
              /\ UNCHANGED <<style, reader, child, writers, clock, timedOut>>

PopenSeesEof == /\ style = "popen"
                /\ call = "waiting"
                /\ AtEof
                /\ call' = "reaping"
                /\ UNCHANGED <<style, reader, command, output, clock, timedOut>>

Waits == \/ PosixGivesUp \/ PosixReads \/ PosixSeesEof \/ PosixSelectTimesOut \/ PosixChecks
         \/ WindowsWaitEnds \/ WindowsJoins
         \/ PopenReads \/ PopenSeesEof
         \/ Reaps

Reads == ReaderReads \/ ReaderSeesEof

Next == \/ Start \/ CannotStart
        \/ Prints \/ StartsHelper \/ (\E w \in writers : Releases(w)) \/ Exits
        \/ DeadlinePasses \/ Esc
        \/ Waits \/ Reads

Spec == Init /\ [][Next]_vars

\* Threads run and time passes; the command promises nothing.
Fairness == WF_vars(Waits) /\ WF_vars(Reads) /\ WF_vars(DeadlinePasses)

FairSpec == Spec /\ Fairness

-----------------------------------------------------------------------------
\* When a call has returned its shell runs no more: whichever of the three
\* loops ran it and however it ended (end of output, cut result, deadline,
\* abort), no shell is left running behind the result.
ShellIsGone == call = "returned" => child # "running"

\* What a call may wait for without end: on POSIX a shell that closed its
\* output and goes on running (the last waitpid has no deadline), on Windows a
\* helper that keeps the pipe open (the join has none), under popen either.
HeldUp == CASE style = "posix"   -> child = "running" /\ "shell" \notin writers
            [] style = "windows" -> "helper" \in writers
            [] style = "popen"   -> child = "running" \/ writers # {}

\* A call returns, by its deadline at the latest, unless the command holds it
\* up for ever in the way its loop does not watch.
CallsReturn == []<>(call \in {"idle", "returned"}) \/ <>[]HeldUp

\* Every call comes back, and its shell is gone by then.
CallsEnd == []ShellIsGone /\ CallsReturn
=============================================================================
