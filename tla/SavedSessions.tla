---------------------------- MODULE SavedSessions ----------------------------
(***************************************************************************)
(* The rows of SessionManager: one per session that createSession named,   *)
(* overwritten after every prompt with the texts of the last messages and  *)
(* at the end of the program with all of them, and read by /resume for a   *)
(* session that has no transcript.  main keeps the id it started with; the *)
(* engine's changes with /rename, /tag and /fork.  A session is the second *)
(* in which it was made.  Transcripts are those of Sessions, written when  *)
(* a prompt has ended.                                                     *)
(***************************************************************************)
EXTENDS Integers, Sequences

History == INSTANCE Messages

CONSTANTS
  MaxSecond,   \* bound: seconds that pass, and so sessions
  KeepLast,    \* the 50 messages of SessionAutoSave
  MaxSaid      \* bound: messages said over all starts

NoName == 0                  \* the empty id of a session that could not be made
SessionNames == 1..MaxSecond

VARIABLES
  pc,           \* the process is down or at its prompt
  clock,        \* the second it is
  sessionId,    \* main's: the row that is written
  engineId,     \* the engine's: the transcript that is written
  messages,     \* messages_ of the engine
  persisted,    \* lastPersistedIndex_
  transcripts,  \* data/sessions/*.jsonl
  rows,         \* the table sessions: the context of each id it has
  told,         \* the history each row was written from
  said          \* how many messages there have been

store == <<transcripts, rows, told>>
vars == <<pc, clock, sessionId, engineId, messages, persisted, transcripts, rows, told, said>>

Init ==
  /\ pc = "down" /\ clock = 1 /\ sessionId = NoName /\ engineId = NoName
  /\ messages = <<>> /\ persisted = 0 /\ said = 0
  /\ transcripts = [s \in SessionNames |-> <<>>]
  /\ rows = <<>> /\ told = <<>>

-----------------------------------------------------------------------------
(* What a row keeps of a message.  The end of the program writes its text  *)
(* and its blocks, the end of a prompt the text alone.                     *)
NothingSaid == 0
Flat(message) == [role |-> message.role, text |-> message.text, blocks |-> NothingSaid]
Whole(message) == [Flat(message) EXCEPT !.blocks = message.text]

LastOf(n, s) == SubSeq(s, IF Len(s) > n THEN Len(s) - n + 1 ELSE 1, Len(s))
AutoSaved(history) == [i \in DOMAIN LastOf(KeepLast, history) |-> Flat(LastOf(KeepLast, history)[i])]
Serialized(history) == [i \in DOMAIN history |-> Whole(history[i])]

(* Mutant: the text is looked for in the blocks alone.                     *)
TextInBlocks(saved) == saved.blocks

(* deserializeMessages takes the text, or else that of the first block.    *)
TextOf(saved) == IF saved.text # NothingSaid THEN saved.text ELSE saved.blocks

(* Messages without a text are skipped, and what is restored counts as     *)
(* persisted.                                                              *)
HasText(message) == message.text # NothingSaid
WithText(ms) == History!Picked(ms, {i \in DOMAIN ms : HasText(ms[i])})
Deserialized(context) ==
  WithText([i \in DOMAIN context |-> [role |-> context[i].role, text |-> TextOf(context[i])]])

(* UPDATE finds the row by its id.  It changes nothing, and says so to     *)
(* nobody, when there is no such row; it fails while another holds the     *)
(* file.                                                                   *)
UpdateContext(s, context, history) ==
  \/ UNCHANGED <<rows, told>>
  \/ /\ s \in DOMAIN rows
     /\ rows' = [rows EXCEPT ![s] = context]
     /\ told' = [told EXCEPT ![s] = history]

(* INSERT of the id of this second, refused when there is one already.     *)
Extended(f, s, value) == [x \in DOMAIN f \cup {s} |-> IF x = s THEN value ELSE f[x]]
CreateSession ==
  IF clock \in DOMAIN rows
  THEN sessionId' = NoName /\ UNCHANGED <<rows, told>>
  ELSE \/ sessionId' = NoName /\ UNCHANGED <<rows, told>>
       \/ /\ sessionId' = clock
          /\ rows' = Extended(rows, clock, <<>>)
          /\ told' = Extended(told, clock, <<>>)

-----------------------------------------------------------------------------
(* Start takes up the newest transcript unless --new is given or there is  *)
(* none, and makes a session otherwise; only --continue loads it.          *)
LastText(s) == transcripts[s][Len(transcripts[s])].order
HasTranscript(s) == s # NoName /\ transcripts[s] # <<>>
IsNewest(s) ==
  /\ HasTranscript(s)
  /\ \A other \in SessionNames : HasTranscript(other) => LastText(other) <= LastText(s)

Load(history) == messages' = history /\ persisted' = Len(history)

Start(forceNew, continue) ==
  /\ pc = "down" /\ pc' = "prompt"
  /\ IF ~forceNew /\ \E s \in SessionNames : IsNewest(s)
     THEN /\ sessionId' = CHOOSE s \in SessionNames : IsNewest(s)
          /\ UNCHANGED <<rows, told>>
     ELSE CreateSession
  /\ engineId' = sessionId'
  /\ IF continue /\ HasTranscript(engineId') THEN Load(transcripts[engineId'])
     ELSE Load(<<>>)
  /\ UNCHANGED <<clock, transcripts, said>>

Stops ==
  /\ pc' = "down" /\ messages' = <<>> /\ persisted' = 0
  /\ sessionId' = NoName /\ engineId' = NoName
  /\ UNCHANGED <<clock, transcripts, said>>

(* The program ends at its prompt and writes the whole history.            *)
Exit ==
  /\ pc = "prompt" /\ Stops
  /\ IF messages # <<>> THEN UpdateContext(sessionId, Serialized(messages), messages)
     ELSE UNCHANGED <<rows, told>>

(* It dies.                                                                *)
Die == pc # "down" /\ Stops /\ UNCHANGED <<rows, told>>

Tick ==
  /\ clock < MaxSecond /\ clock' = clock + 1
  /\ UNCHANGED <<pc, sessionId, engineId, messages, persisted, store, said>>

-----------------------------------------------------------------------------
(* A prompt with what comes of it: it may be interrupted after a call, and *)
(* calls and their results have no text.  A death inside it leaves no more *)
(* than one before it.                                                     *)
Outcomes == {<<"assistant">>, <<"call", "user">>, <<"call", "user", "assistant">>}

Exchange(outcome) ==
  LET Spoke(role, n) == [role |-> role, text |-> n, order |-> n]
      Silent(role, n) == [role |-> role, text |-> NothingSaid, order |-> n]
  IN  <<Spoke("user", said + 1)>>
      \o [i \in DOMAIN outcome |->
            IF outcome[i] = "assistant" THEN Spoke("assistant", said + 1 + i)
            ELSE Silent(IF outcome[i] = "call" THEN "assistant" ELSE "user", said + 1 + i)]

(* The transcript takes what is past the index; without an id it is not    *)
(* written.                                                                *)
Persist ==
  IF engineId = NoName THEN UNCHANGED <<transcripts, persisted>>
  ELSE /\ transcripts' = [transcripts EXCEPT ![engineId] =
                            @ \o SubSeq(messages', persisted + 1, Len(messages'))]
       /\ persisted' = Len(messages')

(* onComplete saves the row of main's session.                             *)
Prompt(outcome) ==
  /\ pc = "prompt"
  /\ said + 1 + Len(outcome) <= MaxSaid /\ said' = said + 1 + Len(outcome)
  /\ messages' = messages \o Exchange(outcome)
  /\ Persist
  /\ IF sessionId # NoName THEN UpdateContext(sessionId, AutoSaved(messages'), messages')
     ELSE UNCHANGED <<rows, told>>
  /\ UNCHANGED <<pc, clock, sessionId, engineId>>

-----------------------------------------------------------------------------
(* The commands.                                                           *)
Rename(s) ==
  /\ pc = "prompt" /\ engineId' = s
  /\ UNCHANGED <<pc, clock, sessionId, messages, persisted, store, said>>

(* A transcript is removed by hand, between two starts.                    *)
Removed(s) ==
  /\ pc = "down" /\ HasTranscript(s) /\ transcripts' = [transcripts EXCEPT ![s] = <<>>]
  /\ UNCHANGED <<pc, clock, sessionId, engineId, messages, persisted, rows, told, said>>

(* /resume reads the transcript or else the row; an empty row is said to   *)
(* hold nothing.                                                           *)
Resume(s) ==
  /\ pc = "prompt"
  /\ \/ HasTranscript(s) /\ Load(transcripts[s])
     \/ /\ ~HasTranscript(s) /\ s \in DOMAIN rows /\ rows[s] # <<>>
        /\ Load([i \in DOMAIN Deserialized(rows[s]) |->
                   [role |-> Deserialized(rows[s])[i].role,
                    text |-> Deserialized(rows[s])[i].text,
                    order |-> Deserialized(rows[s])[i].text]])
  /\ UNCHANGED <<pc, clock, sessionId, engineId, store, said>>

Next ==
  \/ \E forceNew, continue \in BOOLEAN : Start(forceNew, continue)
  \/ Exit \/ Die \/ Tick
  \/ \E outcome \in Outcomes : Prompt(outcome)
  \/ \E s \in SessionNames : Rename(s) \/ Removed(s) \/ Resume(s)

Spec == Init /\ [][Next]_vars

-----------------------------------------------------------------------------
TypeOK ==
  /\ pc \in {"down", "prompt"} /\ clock \in 1..MaxSecond
  /\ {sessionId, engineId} \subseteq SessionNames \cup {NoName}
  /\ persisted \in 0..Len(messages) /\ said \in 0..MaxSaid
  /\ DOMAIN rows \subseteq SessionNames /\ DOMAIN told = DOMAIN rows

EndsWith(whole, end) ==
  Len(end) <= Len(whole) /\ end = SubSeq(whole, Len(whole) - Len(end) + 1, Len(whole))

(* SessionAutoSave.h: rows are written "so it round-trips through          *)
(* deserializeMessages".  Whoever wrote a row last, in this start or an    *)
(* earlier one, after a resume or under another name: what is restored     *)
(* from it is the end of the dialogue that was on the screen, every text   *)
(* under its role, and an answer that closed it is there.                  *)
Spoken(history) ==
  WithText([i \in DOMAIN history |-> [role |-> history[i].role, text |-> history[i].text]])

RowsRoundTrip ==
  \A s \in DOMAIN rows :
    /\ EndsWith(Spoken(told[s]), Deserialized(rows[s]))
    /\ told[s] # <<>> /\ HasText(told[s][Len(told[s])]) => Deserialized(rows[s]) # <<>>
=============================================================================
