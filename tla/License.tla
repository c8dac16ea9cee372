------------------------------ MODULE License ------------------------------
(***************************************************************************)
(* Activation and trial state: the values kept in the Windows registry or, *)
(* by the POSIX build, in the file ~/.crab/license.<appKey>, read and       *)
(* written by every running copy of the program without a lock.  A process *)
(* evaluates the state when it starts, may activate (online or offline),   *)
(* and in trial mode counts its run after a minute and exits when its time *)
(* is over.  No write reports that it failed.                              *)
(***************************************************************************)
EXTENDS Naturals, Sequences

CONSTANTS Processes,       \* copies of the program and --activate commands
          Stores,          \* "registry" (one value at a time), "file" (all at once)
          MaxActivations,  \* tokens the server issues
          MaxStarts        \* starts of all processes together

ValueNames == {"token", "sig", "trialRuns"}
Activation == <<"token", "sig">>     \* key and edition are written around them
None == 0

VARIABLES store,      \* the build's
          kept,       \* the stored values
          tmp,        \* the file's .tmp, if there is one: <<its values>>
          state,      \* process -> where it is
          run,        \* process -> the number of the trial run it counts
          read,       \* process -> the values it has read so far
          writes,     \* process -> the writes it still has to make
          rewrite,    \* process -> how far its rewriting of the file is
          issued,     \* tokens issued so far
          starts,
          reported,   \* the activation last reported to the user as done
          minutes,    \* trial runs that lasted a minute
          harmed      \* history: since the last activation began one of its
                      \* writes, or any of the file, failed, or two rewritings met

vars == <<store, kept, tmp, state, run, read, writes, rewrite, issued, starts, reported,
          minutes, harmed>>
files == <<store, tmp, rewrite, harmed>>

Nothing == [n \in ValueNames |-> None]

Init == /\ store \in Stores
        /\ kept = Nothing
        /\ tmp = <<>>
        /\ state = [p \in Processes |-> "off"]
        /\ run = [p \in Processes |-> 0]
        /\ read = [p \in Processes |-> Nothing]
        /\ writes = [p \in Processes |-> <<>>]
        /\ rewrite = [p \in Processes |-> "no"]
        /\ issued = 0
        /\ starts = 0
        /\ reported = None
        /\ minutes = 0
        /\ harmed = FALSE

Move(p, s) == state' = [state EXCEPT ![p] = s]

\* Nobody else is activating or deactivating: one user does either at a time.
Saving(p) == writes[p] # <<>>
Changing == {"saving", "clearing"}
AloneAtTheKeys(p) == \A q \in Processes \ {p} : state[q] \notin Changing

-----------------------------------------------------------------------------
Starts(p) == /\ state[p] = "off"
             /\ starts < MaxStarts
             /\ starts' = starts + 1
             /\ \/ Move(p, "loading")        \* an ordinary start
                \/ Move(p, "activating")     \* --activate, --activate-offline
                \/ /\ AloneAtTheKeys(p)      \* --deactivate
                   /\ writes' = [writes EXCEPT ![p] = <<<<"token", None>>, <<"sig", None>>>>]
                   /\ Move(p, "clearing")
             /\ state'[p] # "clearing" => UNCHANGED writes
             /\ reported' = IF state'[p] = "clearing" THEN None ELSE reported
             /\ UNCHANGED <<kept, run, read, issued, minutes, files>>

\* loadActivation reads the token, then the signature, each by itself.
LoadsToken(p) == /\ state[p] = "loading"
                 /\ read' = [read EXCEPT ![p].token = kept.token]
                 /\ Move(p, "evaluating")
                 /\ UNCHANGED <<kept, run, writes, issued, starts, reported, minutes, files>>

\* verifyToken: the signature must be the one issued with the token.
Verified(token, sig) == token # None /\ token = sig

AllowanceForRun(n) == IF n <= 1 THEN 30 ELSE IF n = 2 THEN 10 ELSE 0

Evaluates(p) ==
    /\ state[p] = "evaluating"
    /\ LET n == kept.trialRuns + 1 IN
       /\ run' = [run EXCEPT ![p] = n]
       /\ Move(p, IF Verified(read[p].token, kept.sig) THEN "activated"
                  ELSE IF AllowanceForRun(n) > 0 THEN "trialPrompt" ELSE "locked")
    /\ read' = [read EXCEPT ![p] = Nothing]
    /\ UNCHANGED <<kept, writes, issued, starts, reported, minutes, files>>

\* A key typed at either prompt is activated; an empty line starts the trial or
\* leaves the locked program.
Answers(p) == /\ state[p] \in {"trialPrompt", "locked"}
              /\ \/ Move(p, "activating")
                 \/ state[p] = "trialPrompt" /\ Move(p, "trial")
                 \/ state[p] = "locked" /\ Move(p, "off")
              /\ UNCHANGED <<kept, run, read, writes, issued, starts, reported, minutes, files>>

\* activate and activateOffline: the token is verified before it is saved.
Issues(p) == /\ state[p] = "activating"
             /\ AloneAtTheKeys(p)
             /\ ~Saving(p)
             /\ issued < MaxActivations
             /\ issued' = issued + 1
             /\ writes' = [writes EXCEPT ![p] = [i \in 1 .. 2 |-> <<Activation[i], issued'>>]]
             /\ Move(p, "saving")
             /\ reported' = None
             /\ harmed' = \E q \in Processes : rewrite[q] # "no"
             /\ UNCHANGED <<store, kept, tmp, run, read, rewrite, starts, minutes>>

\* Bad key, refused by the server, no mirror answers: the command exits, the
\* trial goes on, the locked program asks again.
NotActivated(p) ==
    /\ state[p] = "activating"
    /\ Move(p, CASE run[p] = 0 -> "off"
                 [] run[p] \in {1, 2} -> "trial"
                 [] OTHER -> "locked")
    /\ UNCHANGED <<kept, run, read, writes, issued, starts, reported, minutes, files>>

-----------------------------------------------------------------------------
\* A write is over, done or not: regWriteStr and posixWriteStr return nothing, and
\* saveActivation returns true.
Returns(p) == writes' = [writes EXCEPT ![p] = Tail(writes[p])]

Rewrite(p, s) == rewrite' = [rewrite EXCEPT ![p] = s]
Damage(harm) == harmed' = (harmed \/ harm)

\* The one value is written without the others (a mutant of the next).
ReadsNone(p) ==
    LET w == Head(writes[p]) IN
    /\ rewrite[p] = "no"
    /\ read' = [read EXCEPT ![p] = [Nothing EXCEPT ![w[1]] = w[2]]]
    /\ Damage(\E q \in Processes : rewrite[q] # "no")
    /\ Rewrite(p, "read")
    /\ UNCHANGED <<kept, tmp, writes>>

\* posixReadAll: the file is read whole, or cannot be opened, and one value changed.
ReadsAll(p) ==
    LET w == Head(writes[p]) IN
    /\ rewrite[p] = "no"
    /\ \E found \in {kept, Nothing} :
         /\ read' = [read EXCEPT ![p] = [found EXCEPT ![w[1]] = w[2]]]
         /\ Damage(found # kept \/ \E q \in Processes : rewrite[q] # "no")
    /\ Rewrite(p, "read")
    /\ UNCHANGED <<kept, tmp, writes>>

\* posixWriteAll: .tmp, the same for all processes, is truncated and written, not
\* always to its end.
WritesTmp(p) ==
    /\ rewrite[p] = "read"
    /\ \/ tmp' = <<read[p]>> /\ UNCHANGED harmed
       \/ tmp' = <<Nothing>> /\ Damage(TRUE)
    /\ Rewrite(p, "written")
    /\ read' = [read EXCEPT ![p] = Nothing]
    /\ UNCHANGED <<kept, writes>>

\* .tmp is renamed over the file, if another process has not done so.
Renames(p) ==
    /\ rewrite[p] = "written"
    /\ kept' = IF tmp = <<>> THEN kept ELSE tmp[1]
    /\ tmp' = <<>>
    /\ Rewrite(p, "no")
    /\ Returns(p)
    /\ UNCHANGED <<read, harmed>>

\* .tmp cannot be opened, or not be renamed and is removed.
RewriteFails(p) ==
    /\ \/ rewrite[p] = "read" /\ UNCHANGED tmp
       \/ rewrite[p] = "written" /\ tmp' = <<>>
    /\ Rewrite(p, "no")
    /\ Returns(p)
    /\ read' = [read EXCEPT ![p] = Nothing]
    /\ Damage(TRUE)
    /\ UNCHANGED kept

WholeFile(p) == ReadsAll(p) \/ WritesTmp(p) \/ Renames(p) \/ RewriteFails(p)

\* regWriteStr, regWriteDword, regDelValue: one value at a time, if the key opens.
OneValue(p) ==
    LET w == Head(writes[p]) IN
    /\ \/ kept' = [kept EXCEPT ![w[1]] = w[2]] /\ UNCHANGED harmed
       \/ Damage(state[p] = "saving") /\ UNCHANGED kept
    /\ Returns(p)
    /\ UNCHANGED <<tmp, read, rewrite>>

Writes(p) == /\ Saving(p)
             /\ IF store = "file" THEN WholeFile(p) ELSE OneValue(p)
             /\ UNCHANGED <<store, state, run, issued, starts, reported, minutes>>

\* The last write is done: "Activated!", "cleared", or the trial goes on.
Saved(p) == /\ ~Saving(p)
            /\ \/ /\ state[p] = "saving"
                  /\ reported' = issued
                  /\ Move(p, IF run[p] = 0 THEN "off" ELSE "activated")
               \/ state[p] = "clearing" /\ Move(p, "off") /\ UNCHANGED reported
               \/ state[p] = "counting" /\ Move(p, "counted") /\ UNCHANGED reported
            /\ UNCHANGED <<kept, run, read, writes, issued, starts, minutes, files>>

-----------------------------------------------------------------------------
\* commitTrialRun after a minute of use: the count never goes down by it.
CountsRun(p) == /\ state[p] = "trial"
                /\ minutes' = minutes + 1
                /\ IF kept.trialRuns < run[p]
                   THEN /\ writes' = [writes EXCEPT ![p] = <<<<"trialRuns", run[p]>>>>]
                        /\ Move(p, "counting")
                   ELSE Move(p, "counted") /\ UNCHANGED writes
                /\ UNCHANGED <<kept, run, read, issued, starts, reported, files>>

\* The user leaves, the trial time is over (_Exit), or the process is killed
\* wherever it is; what it has not written is not written.
Ends(p) == /\ state[p] # "off"
           /\ Move(p, "off")
           /\ run' = [run EXCEPT ![p] = 0]
           /\ read' = [read EXCEPT ![p] = Nothing]
           /\ writes' = [writes EXCEPT ![p] = <<>>]
           /\ Rewrite(p, "no")
           /\ UNCHANGED <<store, kept, tmp, issued, starts, reported, minutes, harmed>>

Next == \E p \in Processes :
          \/ Starts(p) \/ LoadsToken(p) \/ Evaluates(p) \/ Answers(p)
          \/ Issues(p) \/ NotActivated(p) \/ Writes(p) \/ Saved(p)
          \/ CountsRun(p) \/ Ends(p)

Spec == Init /\ [][Next]_vars

-----------------------------------------------------------------------------
\* "Activated!" is lasting: once an activation was reported, the stored token
\* verifies until the user activates again or deactivates, whatever trial runs of
\* other copies are being counted meanwhile and wherever they are killed.  It is not
\* where one of its own writes failed unnoticed, nor, for the file, which every write
\* makes anew from what it read, where a later write failed or two processes were
\* rewriting at once.
ReportedIsKept == reported # None /\ ~harmed => Verified(kept.token, kept.sig)

\* Only runs that lasted a minute use up the trial, however many copies run at
\* once and wherever they are killed.
TrialIsUsedByMinutes == kept.trialRuns <= minutes
=============================================================================
