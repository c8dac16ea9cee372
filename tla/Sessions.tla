------------------------------ MODULE Sessions ------------------------------
(***************************************************************************)
(* The transcript files and the commands that rewrite the history or name  *)
(* another file under it: /clear, /new, /rewind, /rename, /tag, /fork,     *)
(* /resume, a restart with or without --continue or --new, a crash at any  *)
(* step.  Turns are as QueryEngine has them, reduced to what they push and *)
(* when they persist; compaction, which shortens a history too, is in      *)
(* QueryEngine.  The SQLite rows that /resume falls back to when a session *)
(* has no transcript are left out.                                         *)
(***************************************************************************)
EXTENDS Integers, Sequences, FiniteSets

CONSTANTS
  SessionIds,    \* the names a transcript can have
  ForkIds,       \* those that /fork makes up
  MaxMessages    \* bound: messages said over all runs

ASSUME SessionsAssumption ==
  /\ ForkIds \subseteq SessionIds /\ MaxMessages \in Nat

Kinds == {"prompt", "call", "result", "answer"}
Entries == [id : Nat, kind : Kinds]
Threads == {"main", "handler"}   \* those that call persistTranscriptDelta

VARIABLES
  pc,         \* the process is down, at its prompt or inside a turn
  messages,   \* messages_ of the engine
  persisted,  \* lastPersistedIndex_
  sessionId,  \* sessionId_
  save,       \* where a thread is inside persistTranscriptDelta
  returned,   \* what appendDelta has returned to it
  files,      \* the transcripts
  forks,      \* the files of data/forks
  forked,     \* the forks that have been made
  said        \* how many messages there have been

saving == <<save, returned>>
disk == <<files, forks, forked>>
vars == <<pc, messages, persisted, sessionId, save, returned, files, forks, forked, said>>

Idle == [t \in Threads |-> "idle"]

Init ==
  /\ pc = "down" /\ messages = <<>> /\ persisted = 0 /\ sessionId \in SessionIds
  /\ save = Idle /\ returned = [t \in Threads |-> 0]
  /\ files = [s \in SessionIds |-> <<>>]
  /\ forks = [f \in ForkIds |-> <<>>] /\ forked = {} /\ said = 0

-----------------------------------------------------------------------------
(* Start.  The newest transcript is taken up again unless --new is given   *)
(* or there is none; only --continue loads it.                             *)
LastId(s) == files[s][Len(files[s])].id
IsNewest(s) ==
  /\ files[s] # <<>>
  /\ \A other \in SessionIds : files[other] # <<>> => LastId(other) <= LastId(s)
IsUnused(s) == s \in SessionIds \ ForkIds /\ files[s] = <<>>

Reused(forceNew) ==
  IF ~forceNew /\ \E s \in SessionIds : IsNewest(s)
  THEN {s \in SessionIds : IsNewest(s)} ELSE {s \in SessionIds : IsUnused(s)}

(* Mutant: the index is left as it was.                                    *)
SetMessagesOnly(loaded) == messages' = loaded /\ persisted' = persisted

(* setMessages: what was loaded counts as persisted.                       *)
SetMessages(loaded) == messages' = loaded /\ persisted' = Len(loaded)

Start(forceNew, continue) ==
  /\ pc = "down" /\ pc' = "prompt"
  /\ \E s \in Reused(forceNew) :
       /\ sessionId' = s
       /\ IF continue /\ files[s] # <<>> THEN SetMessages(files[s])
          ELSE messages' = <<>> /\ persisted' = 0
  /\ UNCHANGED <<saving, disk, said>>

(* The process ends: by /exit, a kill or a closed window, at any step.     *)
Die ==
  /\ pc # "down" /\ pc' = "down"
  /\ messages' = <<>> /\ persisted' = 0
  /\ save' = Idle /\ returned' = [t \in Threads |-> 0]
  /\ UNCHANGED <<sessionId, disk, said>>

-----------------------------------------------------------------------------
(* persistTranscriptDelta: appendDelta writes what is past the index, or   *)
(* finds nothing past it, or cannot open the file; its result becomes the  *)
(* index.                                                                  *)
Delta == SubSeq(messages, persisted + 1, Len(messages))

WriteDelta(t) ==
  \/ /\ persisted >= Len(messages)
     /\ returned' = [returned EXCEPT ![t] = Len(messages)] /\ UNCHANGED files
  \/ /\ persisted < Len(messages)
     /\ \/ /\ files' = [files EXCEPT ![sessionId] = @ \o Delta]
           /\ returned' = [returned EXCEPT ![t] = Len(messages)]
        \/ returned' = [returned EXCEPT ![t] = persisted] /\ UNCHANGED files

Write(t) ==
  /\ pc # "down" /\ save[t] = "write"
  /\ save' = [save EXCEPT ![t] = "advance"]
  /\ WriteDelta(t)
  /\ UNCHANGED <<pc, messages, persisted, sessionId, forks, forked, said>>

Advance(t) ==
  /\ pc # "down" /\ save[t] = "advance"
  /\ save' = [save EXCEPT ![t] = "idle"]
  /\ persisted' = returned[t] /\ returned' = [returned EXCEPT ![t] = 0]
  /\ UNCHANGED <<pc, messages, sessionId, disk, said>>

-----------------------------------------------------------------------------
(* A turn, on the main thread, which does nothing else while it persists.  *)
AtPrompt == pc = "prompt" /\ save["main"] = "idle"
InTurn == pc = "turn" /\ save["main"] = "idle"
Persists == save' = [save EXCEPT !["main"] = "write"]
PersistsNothing == save' = save
LastKind == messages[Len(messages)].kind

Push(kind) ==
  /\ said < MaxMessages /\ said' = said + 1
  /\ messages' = Append(messages, [id |-> said + 1, kind |-> kind])
  /\ UNCHANGED <<persisted, sessionId, returned, disk>>

(* Mutant: the prompt waits for the reply to be persisted.                 *)
SubmitUnsaved ==
  /\ AtPrompt /\ pc' = "turn"
  /\ Push("prompt") /\ PersistsNothing

(* The prompt is persisted before anything else happens.                   *)
Submit ==
  /\ AtPrompt /\ pc' = "turn"
  /\ Push("prompt") /\ Persists

(* A reply is persisted before its calls run.                              *)
Reply ==
  /\ InTurn /\ LastKind \in {"prompt", "result"}
  /\ \E kind \in {"call", "answer"} : Push(kind)
  /\ Persists /\ UNCHANGED pc

(* A result is not: the next reply or the end of the prompt takes it along. *)
Result ==
  /\ InTurn /\ LastKind = "call"
  /\ Push("result") /\ PersistsNothing /\ UNCHANGED pc

(* The end of the prompt, whatever ended it.                               *)
Complete ==
  /\ InTurn /\ pc' = "prompt" /\ Persists
  /\ UNCHANGED <<messages, persisted, sessionId, returned, disk, said>>

-----------------------------------------------------------------------------
(* The commands.                                                           *)
Commanded == AtPrompt /\ UNCHANGED <<pc, saving, said>>

(* /clear and /new: the messages go, the index stays.                      *)
Clear ==
  /\ Commanded /\ messages' = <<>>
  /\ UNCHANGED <<persisted, sessionId, disk>>

(* /rewind: the index stays as well.                                       *)
Rewind(count) ==
  /\ Commanded /\ count < Len(messages)
  /\ messages' = SubSeq(messages, 1, Len(messages) - count)
  /\ UNCHANGED <<persisted, sessionId, disk>>

(* /rename and /tag: from now on another file is written.                  *)
SetSessionId(s) ==
  /\ Commanded /\ sessionId' = s
  /\ UNCHANGED <<messages, persisted, disk>>

(* /fork saves the history in a file of its own and goes on under a new    *)
(* id, with the index it had.                                              *)
Fork(f) ==
  /\ Commanded /\ f \notin forked /\ files[f] = <<>>
  /\ forked' = forked \cup {f}
  /\ forks' = [forks EXCEPT ![f] = messages]
  /\ sessionId' = f
  /\ UNCHANGED <<messages, persisted, files>>

(* deserializeMessages keeps the messages that have a text.                *)
HasText(entry) == entry.kind \in {"prompt", "answer"}
Textful(saved) == {i \in DOMAIN saved : HasText(saved[i])}
Selections(saved) ==
  {f \in [1..Cardinality(Textful(saved)) -> Textful(saved)] :
     \A i, j \in DOMAIN f : i < j => f[i] < f[j]}

(* /resume of a fork, and of a session: the id stays the engine's own.     *)
ResumeFork(f) ==
  /\ Commanded /\ f \in forked
  /\ \E kept \in Selections(forks[f]) :
       SetMessages([i \in DOMAIN kept |-> forks[f][kept[i]]])
  /\ UNCHANGED <<sessionId, disk>>

Resume(s) ==
  /\ Commanded /\ files[s] # <<>>
  /\ SetMessages(files[s])
  /\ UNCHANGED <<sessionId, disk>>

Command ==
  \/ Clear \/ \E count \in 1..MaxMessages : Rewind(count)
  \/ \E s \in SessionIds : SetSessionId(s) \/ Resume(s)
  \/ \E f \in ForkIds : Fork(f) \/ ResumeFork(f)

Turn == Submit \/ Reply \/ Result \/ Complete

Next ==
  \/ \E forceNew, continue \in BOOLEAN : Start(forceNew, continue)
  \/ Die \/ Turn \/ Command
  \/ \E t \in Threads : Write(t) \/ Advance(t)

Spec == Init /\ [][Next]_vars

(* consoleCtrlHandler of main.cpp: when the window is closed, Windows runs *)
(* it on a thread of its own, and it flushes the transcript of the engine  *)
(* while the main thread goes on.                                          *)
Flush ==
  /\ pc # "down" /\ save["handler"] = "idle"
  /\ save' = [save EXCEPT !["handler"] = "write"]
  /\ UNCHANGED <<pc, messages, persisted, sessionId, returned, disk, said>>

ClosingSpec == Init /\ [][Next \/ Flush]_vars

-----------------------------------------------------------------------------
TypeOK ==
  /\ pc \in {"down", "prompt", "turn"}
  /\ messages \in Seq(Entries) /\ persisted \in Nat /\ sessionId \in SessionIds
  /\ save \in [Threads -> {"idle", "write", "advance"}]
  /\ returned \in [Threads -> Nat]
  /\ files \in [SessionIds -> Seq(Entries)] /\ forks \in [ForkIds -> Seq(Entries)]
  /\ forked \subseteq ForkIds /\ said \in 0..MaxMessages

(* Whatever commands, restarts and crashes come together, the transcripts  *)
(* stay one log: no message is written twice, into one file or two, and    *)
(* none behind a newer one.                                                *)
Transcripts == INSTANCE Journal WITH Files <- SessionIds
JournalGrows == Transcripts!JournalSpec

(* README.md: "a mid-turn crash loses at most the in-flight tool's result, *)
(* never the whole turn": a reply, a call or a result in the history is on *)
(* disk or past the index, and will be written, although /clear, /new and  *)
(* /rewind leave an index past the end of the history.  (The prompt after  *)
(* one of them is lost: it only brings the index back.)                    *)
OnDisk(entry) ==
  \/ \E s \in SessionIds : \E i \in DOMAIN files[s] : files[s][i] = entry
  \/ \E f \in ForkIds : \E i \in DOMAIN forks[f] : forks[f][i] = entry

Index == IF save["main"] = "advance" THEN returned["main"] ELSE persisted
RepliesAreSaved ==
  \A i \in DOMAIN messages :
    messages[i].kind # "prompt" => i > Index \/ OnDisk(messages[i])

(* QueryEngine.h on flushTranscript: "Safe to call anytime; it only        *)
(* appends the delta past lastPersistedIndex_": no message is in the       *)
(* transcripts twice.                                                      *)
WrittenOnce ==
  \A s, t \in SessionIds : \A i \in DOMAIN files[s], j \in DOMAIN files[t] :
    files[s][i].id = files[t][j].id => s = t /\ i = j
=============================================================================
