--------------------------- MODULE Stores_proofs ---------------------------
(***************************************************************************)
(* Theorems about what is stored and read back, for transcripts, files, rows*)
(* and indexes of any length: the transcripts of the sessions (Sessions), the*)
(* rows of the sessions (SavedSessions), the vector index (RagIndex) and the*)
(* lines of the settings (Startup).                                        *)
(***************************************************************************)
EXTENDS MCFiles, Lists_proofs, SequenceTheorems, FiniteSetTheorems, NaturalsInduction,
        WellFoundedInduction, TLAPS

-----------------------------------------------------------------------------
(* The transcripts (Sessions).                                             *)
(*                                                                         *)
(* JournalGrows is not inductive: it needs to know that everything past    *)
(* the index is newer than all that is on disk (PendingIsNewer), and that  *)
(* between a write and the assignment of its result the index that counts  *)
(* is that result (Index).  RepliesAreSaved needs the bound of the index   *)
(* inside a turn (IndexInTurn): the persist of the prompt is what brings   *)
(* an index left past the end by /clear or /rewind back.                   *)

Numbered ==
  /\ \A s \in SessionIds : \A i \in DOMAIN files[s] : files[s][i].id <= said
  /\ \A f \in ForkIds : \A i \in DOMAIN forks[f] : forks[f][i].id <= said
  /\ \A i \in DOMAIN messages : messages[i].id <= said

PendingIsNewer ==
  \A i \in DOMAIN messages : i > Index =>
    \A s \in SessionIds : \A k \in DOMAIN files[s] : files[s][k].id < messages[i].id

PendingIncreases ==
  \A i, j \in DOMAIN messages : Index < i /\ i < j => messages[i].id < messages[j].id

HandlerIdle == save["handler"] = "idle"
DownIsIdle == pc = "down" => save["main"] = "idle"

JournalInv ==
  TypeOK /\ HandlerIdle /\ DownIsIdle /\ Numbered /\ PendingIsNewer /\ PendingIncreases

IndexInTurn == pc = "turn" /\ save["main"] # "write" => Index <= Len(messages)
UnmadeForks == \A f \in ForkIds \ forked : forks[f] = <<>>
SavedInv == JournalInv /\ RepliesAreSaved /\ IndexInTurn /\ UnmadeForks

-----------------------------------------------------------------------------
(* What a concatenation appends can be read off the result.                *)
LEMMA PastOfConcat ==
  ASSUME NEW S, NEW a \in Seq(S), NEW b \in Seq(S)
  PROVE  SubSeq(a \o b, Len(a) + 1, Len(a \o b)) = b
<1>1. /\ Len(a \o b) = Len(a) + Len(b) /\ a \o b \in Seq(S)
      /\ \A i \in 1..Len(b) : (a \o b)[Len(a) + i] = b[i]
  BY SMT
<1>2. Len(SubSeq(a \o b, Len(a) + 1, Len(a \o b))) = Len(b)
  BY <1>1, SMT
<1> QED
  BY <1>1, <1>2, SMT

(* What appendDelta writes is the part of the history past the index.      *)
LEMMA DeltaIsPending ==
  ASSUME TypeOK, persisted < Len(messages)
  PROVE  /\ Delta \in Seq(Entries) /\ Len(Delta) = Len(messages) - persisted
         /\ \A i \in DOMAIN Delta : persisted + i \in DOMAIN messages
                                     /\ Delta[i] = messages[persisted + i]
  BY SMT DEF TypeOK, Delta

(* deserializeMessages yields messages of what was saved.                  *)
LEMMA SelectionsAreEntries ==
  ASSUME NEW saved \in Seq(Entries), NEW chosen \in Selections(saved)
  PROVE  /\ [i \in DOMAIN chosen |-> saved[chosen[i]]] \in Seq(Entries)
         /\ \A i \in DOMAIN chosen : chosen[i] \in DOMAIN saved
<1> DEFINE n == Cardinality(Textful(saved))
<1>1. Textful(saved) \subseteq 1..Len(saved) /\ Len(saved) \in Nat
  BY SMT DEF Textful
<1>2. n \in Nat
  <2>1. IsFiniteSet(1..Len(saved))
    BY <1>1, FS_Interval
  <2> QED
    BY <1>1, <2>1, FS_Subset, FS_CardinalityType
<1>3. chosen \in [1..n -> Textful(saved)]
  BY DEF Selections
<1>4. \A i \in 1..n : saved[chosen[i]] \in Entries /\ chosen[i] \in DOMAIN saved
  BY <1>1, <1>3, SMT
<1>5. [i \in 1..n |-> saved[chosen[i]]] \in Seq(Entries)
  BY <1>2, <1>4, SMT
<1> QED
  BY <1>3, <1>4, <1>5

(* A concatenation holds what it starts with.                              *)
LEMMA ConcatKeeps ==
  ASSUME NEW S, NEW a \in Seq(S), NEW b \in Seq(S), NEW i \in DOMAIN a
  PROVE  i \in DOMAIN (a \o b) /\ (a \o b)[i] = a[i]
BY SMT

(* The ids of messages are numbers.                                        *)
LEMMA IdsAreNumbers ==
  ASSUME NEW s \in Seq(Entries), NEW i \in DOMAIN s
  PROVE  s[i] \in Entries /\ s[i].id \in Nat
<1>1. s[i] \in Entries
  BY SMT
<1> QED
  BY <1>1 DEF Entries

-----------------------------------------------------------------------------
LEMMA JournalInit ==
  ASSUME Init
  PROVE  SavedInv /\ Transcripts!JournalInit
<1>1. /\ messages = <<>> /\ DOMAIN messages = {} /\ pc = "down" /\ said = 0
      /\ files = [s \in SessionIds |-> <<>>] /\ forks = [f \in ForkIds |-> <<>>]
      /\ save = Idle
  BY SMT DEF Init
<1>2. \A s \in SessionIds : DOMAIN files[s] = {}
  BY <1>1, SMT
<1>3. TypeOK /\ HandlerIdle /\ DownIsIdle
  <2>1. 0 \in 0..MaxMessages /\ <<>> \in Seq(Entries)
    BY SessionsAssumption, SMT
  <2> QED
    BY <2>1 DEF Init, TypeOK, HandlerIdle, DownIsIdle, Idle, Threads
<1>4. Numbered /\ PendingIsNewer /\ PendingIncreases
  BY <1>1, <1>2 DEF Numbered, PendingIsNewer, PendingIncreases
<1>5. RepliesAreSaved /\ IndexInTurn /\ UnmadeForks
  BY <1>1 DEF RepliesAreSaved, IndexInTurn, UnmadeForks
<1> QED
  BY <1>1, <1>3, <1>4, <1>5 DEF SavedInv, JournalInv, Transcripts!JournalInit

(* A step that leaves the files alone and makes nothing pending, or drops  *)
(* some of what is.                                                        *)
LEMMA NothingNewPending ==
  ASSUME JournalInv, TypeOK', HandlerIdle', DownIsIdle', files' = files, said' = said,
         \/ forks' = forks
         \/ \A f \in ForkIds : \A i \in DOMAIN forks'[f] : forks'[f][i].id <= said,
         \A i \in DOMAIN messages' : messages'[i].id <= said,
         \A i \in DOMAIN messages' : i > Index' =>
           i \in DOMAIN messages /\ i > Index /\ messages'[i] = messages[i]
  PROVE  JournalInv'
<1>1. Numbered'
  BY SMT DEF JournalInv, Numbered
<1>2. Index' \in Nat /\ DOMAIN messages' \subseteq Nat /\ DOMAIN messages \subseteq Nat /\ Index \in Nat
  BY SMT DEF JournalInv, TypeOK, Index, Threads
<1>3. PendingIsNewer'
  BY SMT DEF JournalInv, PendingIsNewer
<1>4. PendingIncreases'
  <2> SUFFICES ASSUME NEW i \in DOMAIN messages', NEW j \in DOMAIN messages', Index' < i, i < j
               PROVE  messages'[i].id < messages'[j].id
    BY DEF PendingIncreases
  <2>1. i > Index' /\ j > Index'
    BY <1>2, SMT
  <2>2. /\ i \in DOMAIN messages /\ j \in DOMAIN messages /\ Index < i
        /\ messages'[i] = messages[i] /\ messages'[j] = messages[j]
    BY <1>2, <2>1, SMT
  <2> QED
    BY <2>2 DEF JournalInv, PendingIncreases
<1> QED
  BY <1>1, <1>3, <1>4 DEF JournalInv

(* A new message is newer than everything there is.                        *)
LEMMA PushKeepsJournal ==
  ASSUME JournalInv, save["main"] = "idle", NEW kind \in Kinds, Push(kind),
         pc' \in {"prompt", "turn"}, pc # "down", Persists \/ PersistsNothing
  PROVE  JournalInv' /\ Index' = Index /\ Len(messages') = Len(messages) + 1
         /\ \A i \in DOMAIN messages' :
              \/ i \in DOMAIN messages /\ messages'[i] = messages[i]
              \/ i = Len(messages) + 1 /\ messages'[i].kind = kind
<1> DEFINE new == [id |-> said + 1, kind |-> kind]
<1>1. new \in Entries /\ said \in Nat /\ said' = said + 1 /\ said' \in 0..MaxMessages
  <2>1. said \in 0..MaxMessages /\ said < MaxMessages /\ said' = said + 1
    BY DEF JournalInv, TypeOK, Push
  <2>2. said \in Nat /\ said' \in 0..MaxMessages
    BY <2>1, SessionsAssumption, SMT
  <2>3. said + 1 \in Nat
    BY <2>2, SMT
  <2> QED
    BY <2>1, <2>2, <2>3 DEF Entries
<1>2. /\ messages' = Append(messages, new) /\ messages \in Seq(Entries)
      /\ UNCHANGED <<persisted, sessionId, returned, files, forks, forked>>
  BY DEF JournalInv, TypeOK, Push, disk
<1>3. /\ messages' \in Seq(Entries) /\ Len(messages') = Len(messages) + 1
      /\ \A i \in DOMAIN messages : messages'[i] = messages[i]
      /\ messages'[Len(messages) + 1] = new
      /\ DOMAIN messages' = DOMAIN messages \cup {Len(messages) + 1}
      /\ DOMAIN messages = 1..Len(messages) /\ Len(messages) \in Nat
  BY <1>1, <1>2, SMT
<1>4. /\ save' \in [Threads -> {"idle", "write", "advance"}]
      /\ save'["handler"] = save["handler"] /\ save'["main"] # "advance"
  BY SMT DEF Persists, PersistsNothing, JournalInv, TypeOK, Threads
<1>5. Index' = Index /\ Index \in Nat
  BY <1>2, <1>4, SMT DEF Index, JournalInv, TypeOK
<1>6. TypeOK' /\ HandlerIdle' /\ DownIsIdle'
  BY <1>1, <1>2, <1>3, <1>4 DEF JournalInv, TypeOK, HandlerIdle, DownIsIdle
<1>7. \A i \in DOMAIN messages : messages[i].id \in Nat /\ messages[i].id <= said
  BY <1>2, IdsAreNumbers DEF JournalInv, Numbered
<1>8. \A s \in SessionIds : \A k \in DOMAIN files[s] : files[s][k].id \in Nat /\ files[s][k].id <= said
  BY IdsAreNumbers DEF JournalInv, Numbered, TypeOK
<1>13. \A f \in ForkIds : \A i \in DOMAIN forks[f] : forks[f][i].id \in Nat /\ forks[f][i].id <= said
  BY IdsAreNumbers DEF JournalInv, Numbered, TypeOK
<1>9. Numbered'
  BY <1>1, <1>2, <1>3, <1>7, <1>8, <1>13, SMT DEF Numbered
<1>10. PendingIsNewer'
  BY <1>1, <1>2, <1>3, <1>5, <1>8, SMT DEF JournalInv, PendingIsNewer
<1>11. PendingIncreases'
  <2> SUFFICES ASSUME NEW i \in DOMAIN messages', NEW j \in DOMAIN messages', Index < i, i < j
               PROVE  messages'[i].id < messages'[j].id
    BY <1>5 DEF PendingIncreases
  <2>1. i \in DOMAIN messages
    BY <1>3, SMT
  <2>2. CASE j \in DOMAIN messages
    BY <1>3, <2>1, <2>2 DEF JournalInv, PendingIncreases
  <2>3. CASE j = Len(messages) + 1
    BY <1>1, <1>3, <1>7, <2>1, <2>3, SMT
  <2> QED
    BY <1>3, <2>2, <2>3
<1>12. \A i \in DOMAIN messages' :
         \/ i \in DOMAIN messages /\ messages'[i] = messages[i]
         \/ i = Len(messages) + 1 /\ messages'[i].kind = kind
  BY <1>3
<1> QED
  BY <1>3, <1>5, <1>6, <1>9, <1>10, <1>11, <1>12 DEF JournalInv

(* setMessages leaves nothing pending.                                     *)
LEMMA SetMessagesKeepsJournal ==
  ASSUME JournalInv, NEW loaded \in Seq(Entries), SetMessages(loaded),
         \A i \in DOMAIN loaded : loaded[i].id <= said,
         save["main"] = "idle", save' = save, returned' = returned, pc' = "prompt",
         sessionId' \in SessionIds,
         UNCHANGED <<files, said>>, forks' = forks, forked' = forked
  PROVE  JournalInv'
<1>1. messages' = loaded /\ persisted' = Len(loaded) /\ Len(loaded) \in Nat /\ DOMAIN loaded = 1..Len(loaded)
  BY SMT DEF SetMessages
<1>2. TypeOK' /\ HandlerIdle' /\ DownIsIdle'
  BY <1>1 DEF JournalInv, TypeOK, HandlerIdle, DownIsIdle
<1>3. Index' = Len(loaded)
  BY <1>1 DEF Index
<1>4. \A i \in DOMAIN messages' : ~(i > Index')
  BY <1>1, <1>3, SMT
<1> QED
  BY <1>1, <1>2, <1>4, NothingNewPending

(* The step that writes: what is pending is newer than all that is on      *)
(* disk, so it makes a step of the journal, and nothing stays pending.     *)
LEMMA WriteIsAppend ==
  ASSUME JournalInv, Write("main"), persisted < Len(messages),
         files' = [files EXCEPT ![sessionId] = @ \o Delta],
         returned' = [returned EXCEPT !["main"] = Len(messages)]
  PROVE  JournalInv' /\ Transcripts!JournalNext
<1>1. /\ UNCHANGED <<pc, messages, persisted, sessionId, forks, forked, said>>
      /\ save["main"] = "write" /\ pc # "down"
      /\ save' = [save EXCEPT !["main"] = "advance"]
  BY DEF Write
<1>2. /\ messages \in Seq(Entries) /\ persisted \in Nat /\ sessionId \in SessionIds
      /\ files \in [SessionIds -> Seq(Entries)] /\ said \in 0..MaxMessages
      /\ Len(messages) \in Nat /\ DOMAIN messages = 1..Len(messages)
  BY SMT DEF JournalInv, TypeOK
<1>3. Index = persisted
  BY <1>1 DEF Index
<1>4. /\ Delta \in Seq(Entries) /\ Len(Delta) = Len(messages) - persisted
      /\ \A i \in DOMAIN Delta : persisted + i \in DOMAIN messages
                                  /\ Delta[i] = messages[persisted + i]
  BY DeltaIsPending DEF JournalInv
<1>5. \A i \in DOMAIN Delta : persisted + i > Index /\ i \in 1..Len(Delta)
  BY <1>2, <1>3, <1>4, SMT
<1>6. Transcripts!Increasing(Delta)
  <2> SUFFICES ASSUME NEW i \in DOMAIN Delta, NEW j \in DOMAIN Delta, i < j
               PROVE  Delta[i].id < Delta[j].id
    BY DEF Transcripts!Increasing
  <2>1. Index < persisted + i /\ persisted + i < persisted + j
    BY <1>2, <1>3, <1>5, SMT
  <2> QED
    BY <1>4, <2>1 DEF JournalInv, PendingIncreases
<1>7. Transcripts!NewerThanAll(Delta)
  BY <1>4, <1>5 DEF JournalInv, PendingIsNewer, Transcripts!NewerThanAll
<1>8. /\ files'[sessionId] = files[sessionId] \o Delta
      /\ files' \in [SessionIds -> Seq(Entries)]
      /\ \A s \in SessionIds \ {sessionId} : files'[s] = files[s]
  BY <1>2, <1>4, SMT
<1>9. Transcripts!Past(sessionId) = Delta
  BY <1>2, <1>4, <1>8, PastOfConcat DEF Transcripts!Past
<1>10. Transcripts!JournalNext
  BY <1>2, <1>4, <1>6, <1>7, <1>9 DEF Transcripts!JournalNext, Transcripts!AppendNewer
<1>11. TypeOK' /\ HandlerIdle' /\ DownIsIdle' /\ Index' = Len(messages)
  BY <1>1, <1>2, <1>8 DEF JournalInv, TypeOK, HandlerIdle, DownIsIdle, Index, Threads
<1>12. Numbered'
  <2>1. \A i \in DOMAIN Delta : Delta[i].id <= said
    BY <1>4 DEF JournalInv, Numbered
  <2>2. \A i \in DOMAIN files'[sessionId] : files'[sessionId][i].id <= said
    <3> SUFFICES ASSUME NEW i \in DOMAIN files'[sessionId]
                 PROVE  files'[sessionId][i].id <= said
      OBVIOUS
    <3>1. \/ i \in DOMAIN files[sessionId] /\ files'[sessionId][i] = files[sessionId][i]
          \/ /\ i - Len(files[sessionId]) \in DOMAIN Delta
             /\ files'[sessionId][i] = Delta[i - Len(files[sessionId])]
      BY <1>2, <1>4, <1>8, SMT
    <3> QED
      BY <1>2, <2>1, <3>1 DEF JournalInv, Numbered
  <2> QED
    BY <1>1, <1>8, <2>2 DEF JournalInv, Numbered
<1>13. \A i \in DOMAIN messages' : ~(i > Index')
  BY <1>1, <1>2, <1>11, SMT
<1>14. PendingIsNewer'
  BY <1>13 DEF PendingIsNewer
<1>15. PendingIncreases'
  <2> SUFFICES ASSUME NEW i \in DOMAIN messages', Index' < i
               PROVE  FALSE
    BY DEF PendingIncreases
  <2> QED
    BY <1>1, <1>2, <1>11, SMT
<1> QED
  BY <1>10, <1>11, <1>12, <1>14, <1>15 DEF JournalInv

(* The other results of appendDelta, and the assignment of any of them.    *)
LEMMA WriteNothing ==
  ASSUME JournalInv, Write("main"), files' = files,
         \/ persisted >= Len(messages) /\ returned' = [returned EXCEPT !["main"] = Len(messages)]
         \/ returned' = [returned EXCEPT !["main"] = persisted]
  PROVE  JournalInv'
<1>1. /\ UNCHANGED <<pc, messages, persisted, sessionId, forks, forked, said>>
      /\ save["main"] = "write" /\ pc # "down"
      /\ save' = [save EXCEPT !["main"] = "advance"]
  BY DEF Write
<1>2. /\ messages \in Seq(Entries) /\ persisted \in Nat
      /\ Len(messages) \in Nat /\ DOMAIN messages = 1..Len(messages)
  BY SMT DEF JournalInv, TypeOK
<1>3. Index = persisted
  BY <1>1 DEF Index
<1>4. /\ TypeOK' /\ HandlerIdle' /\ DownIsIdle'
      /\ \/ Index' = persisted
         \/ persisted >= Len(messages) /\ Index' = Len(messages)
  BY <1>1, <1>2 DEF JournalInv, TypeOK, HandlerIdle, DownIsIdle, Index, Threads
<1>5. \A i \in DOMAIN messages' : i > Index' => i > Index
  BY <1>1, <1>2, <1>3, <1>4, SMT
<1>6. \A i \in DOMAIN messages' : messages'[i].id <= said
  BY <1>1 DEF JournalInv, Numbered
<1>7. \A i \in DOMAIN messages' : i > Index' => /\ i \in DOMAIN messages /\ i > Index
                                                /\ messages'[i] = messages[i]
  BY <1>1, <1>5
<1> QED
  BY <1>1, <1>4, <1>6, <1>7, NothingNewPending

LEMMA AdvanceKeepsJournal ==
  ASSUME JournalInv, Advance("main")
  PROVE  JournalInv' /\ files' = files /\ Index' = Index /\ messages' = messages
<1>1. /\ UNCHANGED <<pc, messages, sessionId, files, forks, forked, said>>
      /\ save["main"] = "advance" /\ pc # "down"
      /\ save' = [save EXCEPT !["main"] = "idle"]
      /\ persisted' = returned["main"] /\ returned' = [returned EXCEPT !["main"] = 0]
  BY DEF Advance, disk
<1>2. TypeOK' /\ HandlerIdle' /\ DownIsIdle' /\ Index' = Index
  BY <1>1, SMT DEF JournalInv, TypeOK, HandlerIdle, DownIsIdle, Index, Threads
<1>3. \A i \in DOMAIN messages' : messages'[i].id <= said
  BY <1>1 DEF JournalInv, Numbered
<1> QED
  BY <1>1, <1>2, <1>3, NothingNewPending

(* Every step keeps the invariant and is a step of the journal or none.    *)
LEMMA JournalStep ==
  ASSUME JournalInv, Next
  PROVE  JournalInv' /\ (Transcripts!JournalNext \/ UNCHANGED files)
<1> USE DEF JournalInv
<1>0. /\ \A s \in SessionIds : \A i \in DOMAIN files[s] : files[s][i].id <= said
      /\ \A f \in ForkIds : \A i \in DOMAIN forks[f] : forks[f][i].id <= said
      /\ \A i \in DOMAIN messages : messages[i].id <= said
      /\ messages \in Seq(Entries) /\ Len(messages) \in Nat /\ DOMAIN messages = 1..Len(messages)
      /\ persisted \in Nat /\ files \in [SessionIds -> Seq(Entries)]
  BY SMT DEF Numbered, TypeOK
<1>1. ASSUME NEW forceNew \in BOOLEAN, NEW continue \in BOOLEAN, Start(forceNew, continue)
      PROVE  JournalInv' /\ UNCHANGED files
  <2>1. /\ pc = "down" /\ pc' = "prompt" /\ save["main"] = "idle"
        /\ UNCHANGED <<save, returned, files, forks, forked, said>>
    BY <1>1 DEF Start, DownIsIdle, saving, disk
  <2>2. PICK s \in Reused(forceNew) :
          /\ sessionId' = s
          /\ IF continue /\ files[s] # <<>> THEN SetMessages(files[s])
             ELSE messages' = <<>> /\ persisted' = 0
    BY <1>1 DEF Start
  <2>3. s \in SessionIds
    BY DEF Reused
  <2>4. \/ SetMessages(files[s]) \/ SetMessages(<<>>)
    BY <2>2, SMT DEF SetMessages
  <2>5. <<>> \in Seq(Entries) /\ DOMAIN <<>> = {}
    BY SMT
  <2>6. CASE SetMessages(files[s])
    BY <1>0, <2>1, <2>2, <2>3, <2>6, SetMessagesKeepsJournal
  <2>7. CASE SetMessages(<<>>)
    BY <2>1, <2>2, <2>3, <2>5, <2>7, SetMessagesKeepsJournal
  <2> QED
    BY <2>1, <2>4, <2>6, <2>7
<1>2. ASSUME Die
      PROVE  JournalInv' /\ UNCHANGED files
  <2>1. /\ pc' = "down" /\ messages' = <<>> /\ persisted' = 0 /\ save' = Idle
        /\ returned' = [t \in Threads |-> 0]
        /\ UNCHANGED <<sessionId, files, forks, forked, said>>
    BY <1>2 DEF Die, disk
  <2>2. <<>> \in Seq(Entries) /\ DOMAIN <<>> = {}
    BY SMT
  <2>3. TypeOK' /\ HandlerIdle' /\ DownIsIdle'
    BY <2>1, <2>2 DEF TypeOK, HandlerIdle, DownIsIdle, Idle, Threads
  <2> QED
    BY <2>1, <2>2, <2>3, NothingNewPending
<1>3. ASSUME Turn
      PROVE  JournalInv' /\ UNCHANGED files
  <2>1. ASSUME Submit PROVE JournalInv' /\ UNCHANGED files
    BY <2>1, PushKeepsJournal DEF Submit, AtPrompt, Kinds, Push, disk
  <2>2. ASSUME Reply PROVE JournalInv' /\ UNCHANGED files
    BY <2>2, PushKeepsJournal DEF Reply, InTurn, Kinds, Push, disk
  <2>3. ASSUME Result PROVE JournalInv' /\ UNCHANGED files
    BY <2>3, PushKeepsJournal DEF Result, InTurn, Kinds, Push, disk
  <2>4. ASSUME Complete PROVE JournalInv' /\ UNCHANGED files
    <3>1. /\ pc' = "prompt" /\ save["main"] = "idle" /\ save' = [save EXCEPT !["main"] = "write"]
          /\ UNCHANGED <<messages, persisted, sessionId, returned, files, forks, forked, said>>
      BY <2>4 DEF Complete, InTurn, Persists, disk
    <3>2. TypeOK' /\ HandlerIdle' /\ DownIsIdle' /\ Index' = Index
      BY <3>1 DEF TypeOK, HandlerIdle, DownIsIdle, Threads, Index
    <3> QED
      BY <1>0, <3>1, <3>2, NothingNewPending
  <2> QED
    BY <1>3, <2>1, <2>2, <2>3, <2>4 DEF Turn
<1>4. ASSUME Command
      PROVE  JournalInv' /\ UNCHANGED files
  <2>0. /\ save["main"] = "idle" /\ pc = "prompt" /\ pc' = "prompt"
        /\ UNCHANGED <<save, returned, said>>
    BY <1>4 DEF Command, Clear, Rewind, SetSessionId, Resume, Fork, ResumeFork, Commanded,
                AtPrompt, saving
  <2>1. ASSUME Clear PROVE JournalInv' /\ UNCHANGED files
    <3>1. messages' = <<>> /\ UNCHANGED <<persisted, sessionId, files, forks, forked>>
      BY <2>1 DEF Clear, disk
    <3>2. <<>> \in Seq(Entries) /\ DOMAIN <<>> = {}
      BY SMT
    <3>3. TypeOK' /\ HandlerIdle' /\ DownIsIdle'
      BY <2>0, <3>1, <3>2 DEF TypeOK, HandlerIdle, DownIsIdle
    <3> QED
      BY <2>0, <3>1, <3>2, <3>3, NothingNewPending
  <2>2. ASSUME NEW count \in 1..MaxMessages, Rewind(count) PROVE JournalInv' /\ UNCHANGED files
    <3>1. /\ messages' = SubSeq(messages, 1, Len(messages) - count) /\ count < Len(messages)
          /\ UNCHANGED <<persisted, sessionId, files, forks, forked>>
      BY <2>2 DEF Rewind, disk
    <3>2. /\ messages' \in Seq(Entries)
          /\ \A i \in DOMAIN messages' : i \in DOMAIN messages /\ messages'[i] = messages[i]
      BY <1>0, <3>1, SMT
    <3>3. TypeOK' /\ HandlerIdle' /\ DownIsIdle' /\ Index' = Index
      BY <2>0, <3>1, <3>2 DEF TypeOK, HandlerIdle, DownIsIdle, Index
    <3> QED
      BY <1>0, <2>0, <3>1, <3>2, <3>3, NothingNewPending
  <2>3. ASSUME NEW s \in SessionIds, SetSessionId(s) PROVE JournalInv' /\ UNCHANGED files
    <3>1. sessionId' = s /\ UNCHANGED <<messages, persisted, files, forks, forked>>
      BY <2>3 DEF SetSessionId, disk
    <3>2. TypeOK' /\ HandlerIdle' /\ DownIsIdle' /\ Index' = Index
      BY <2>0, <3>1 DEF TypeOK, HandlerIdle, DownIsIdle, Index
    <3> QED
      BY <1>0, <2>0, <3>1, <3>2, NothingNewPending
  <2>4. ASSUME NEW s \in SessionIds, Resume(s) PROVE JournalInv' /\ UNCHANGED files
    BY <1>0, <2>0, <2>4, SetMessagesKeepsJournal DEF Resume, disk, TypeOK
  <2>5. ASSUME NEW f \in ForkIds, Fork(f) PROVE JournalInv' /\ UNCHANGED files
    <3>1. /\ sessionId' = f /\ forked' = forked \cup {f}
          /\ forks' = [forks EXCEPT ![f] = messages] /\ UNCHANGED <<messages, persisted, files>>
      BY <2>5 DEF Fork
    <3>2. TypeOK' /\ HandlerIdle' /\ DownIsIdle' /\ Index' = Index
      BY <2>0, <3>1, SessionsAssumption DEF TypeOK, HandlerIdle, DownIsIdle, Index
    <3>3. \A g \in ForkIds : \A i \in DOMAIN forks'[g] : forks'[g][i].id <= said
      BY <1>0, <3>1 DEF TypeOK
    <3> QED
      BY <1>0, <2>0, <3>1, <3>2, <3>3, NothingNewPending
  <2>6. ASSUME NEW f \in ForkIds, ResumeFork(f) PROVE JournalInv' /\ UNCHANGED files
    <3>1. forks[f] \in Seq(Entries) /\ UNCHANGED <<sessionId, files, forks, forked>>
      BY <2>6 DEF TypeOK, ResumeFork, disk
    <3>2. PICK chosen \in Selections(forks[f]) : SetMessages([i \in DOMAIN chosen |-> forks[f][chosen[i]]])
      BY <2>6 DEF ResumeFork
    <3> DEFINE loaded == [i \in DOMAIN chosen |-> forks[f][chosen[i]]]
    <3>3. loaded \in Seq(Entries) /\ \A i \in DOMAIN chosen : chosen[i] \in DOMAIN forks[f]
      BY <3>1, SelectionsAreEntries
    <3>4. \A i \in DOMAIN loaded : loaded[i].id <= said
      BY <1>0, <3>3
    <3> HIDE DEF loaded
    <3>5. sessionId' \in SessionIds
      BY <3>1 DEF TypeOK
    <3> QED
      BY <1>0, <2>0, <3>1, <3>2, <3>3, <3>4, <3>5, SetMessagesKeepsJournal DEF loaded
  <2> QED
    BY <1>4, <2>1, <2>2, <2>3, <2>4, <2>5, <2>6 DEF Command
<1>5. ASSUME NEW t \in Threads, Write(t)
      PROVE  JournalInv' /\ (Transcripts!JournalNext \/ UNCHANGED files)
  <2>1. t = "main" /\ WriteDelta("main")
    BY <1>5 DEF Write, HandlerIdle, Threads
  <2> QED
    BY <1>5, <2>1, WriteIsAppend, WriteNothing DEF WriteDelta
<1>6. ASSUME NEW t \in Threads, Advance(t)
      PROVE  JournalInv' /\ UNCHANGED files
  <2>1. t = "main"
    BY <1>6 DEF Advance, HandlerIdle, Threads
  <2> QED
    BY <1>6, <2>1, AdvanceKeepsJournal
<1> QED
  BY <1>1, <1>2, <1>3, <1>4, <1>5, <1>6 DEF Next

-----------------------------------------------------------------------------
FilesGrow == \A s \in SessionIds : \A i \in DOMAIN files[s] :
  i \in DOMAIN files'[s] /\ files'[s][i] = files[s][i]
ForksGrow == \A f \in ForkIds : \A i \in DOMAIN forks[f] :
  i \in DOMAIN forks'[f] /\ forks'[f][i] = forks[f][i]

(* A reply of the next state is still past the index, or was saved before, *)
(* or comes from the disk.                                                 *)
LEMMA RepliesStaySaved ==
  ASSUME RepliesAreSaved, FilesGrow, ForksGrow,
         \A i \in DOMAIN messages' : messages'[i].kind # "prompt" =>
           \/ i > Index'
           \/ i \in DOMAIN messages /\ messages'[i] = messages[i] /\ ~(i > Index)
           \/ OnDisk(messages'[i])
  PROVE  RepliesAreSaved'
<1> SUFFICES ASSUME NEW i \in DOMAIN messages', messages'[i].kind # "prompt", ~(i > Index')
             PROVE  OnDisk(messages[i])'
  BY DEF RepliesAreSaved
<1>1. OnDisk(messages'[i])
  BY DEF RepliesAreSaved
<1> QED
  BY <1>1 DEF OnDisk, FilesGrow, ForksGrow

LEMMA SavedStep ==
  ASSUME SavedInv, Next
  PROVE  RepliesAreSaved' /\ IndexInTurn' /\ UnmadeForks'
<1> USE DEF SavedInv, JournalInv
<1>0. /\ messages \in Seq(Entries) /\ Len(messages) \in Nat /\ DOMAIN messages = 1..Len(messages)
      /\ persisted \in Nat /\ files \in [SessionIds -> Seq(Entries)] /\ sessionId \in SessionIds
      /\ forks \in [ForkIds -> Seq(Entries)] /\ Index \in Nat
      /\ \A i \in DOMAIN messages : messages[i].kind # "prompt" => i > Index \/ OnDisk(messages[i])
      /\ \A i \in DOMAIN messages : i \in Nat
  BY SMT DEF TypeOK, RepliesAreSaved, Index, Threads
<1>a. files' = files => FilesGrow
  BY DEF FilesGrow
<1>b. forks' = forks => ForksGrow
  BY DEF ForksGrow
<1>c. forks' = forks /\ forked' = forked => UnmadeForks'
  BY DEF UnmadeForks
<1>1. ASSUME NEW forceNew \in BOOLEAN, NEW continue \in BOOLEAN, Start(forceNew, continue)
      PROVE  RepliesAreSaved' /\ IndexInTurn' /\ UnmadeForks'
  <2>1. pc' = "prompt" /\ UNCHANGED <<files, forks, forked>>
    BY <1>1 DEF Start, disk
  <2>2. PICK s \in Reused(forceNew) :
          \/ messages' = files[s]
          \/ messages' = <<>>
    BY <1>1 DEF Start, SetMessages
  <2>3. s \in SessionIds /\ DOMAIN <<>> = {}
    BY DEF Reused
  <2>4. \A i \in DOMAIN messages' : OnDisk(messages'[i])
    BY <2>2, <2>3 DEF OnDisk
  <2> QED
    BY <1>a, <1>b, <1>c, <2>1, <2>4, RepliesStaySaved DEF IndexInTurn
<1>2. ASSUME Die
      PROVE  RepliesAreSaved' /\ IndexInTurn' /\ UnmadeForks'
  <2>1. messages' = <<>> /\ DOMAIN messages' = {} /\ pc' = "down" /\ UNCHANGED <<forks, forked>>
    BY <1>2, SMT DEF Die, disk
  <2> QED
    BY <1>c, <2>1 DEF RepliesAreSaved, IndexInTurn
<1>3. ASSUME Turn
      PROVE  RepliesAreSaved' /\ IndexInTurn' /\ UnmadeForks'
  <2>0. save["main"] = "idle" /\ pc \in {"prompt", "turn"} /\ save \in [Threads -> {"idle", "write", "advance"}]
    BY <1>3 DEF Turn, Submit, Reply, Result, Complete, AtPrompt, InTurn, TypeOK
  <2>1. ASSUME NEW kind \in Kinds, Push(kind), pc' \in {"prompt", "turn"}, Persists \/ PersistsNothing,
               kind # "prompt" => pc = "turn", kind = "prompt" => Persists
        PROVE  RepliesAreSaved' /\ IndexInTurn' /\ UnmadeForks'
    <3>1. UNCHANGED <<files, forks, forked>>
      BY <2>1 DEF Push, disk
    <3>2. Index' = Index /\ Len(messages') = Len(messages) + 1
      BY <2>0, <2>1, PushKeepsJournal
    <3>3. \A i \in DOMAIN messages' :
              \/ i \in DOMAIN messages /\ messages'[i] = messages[i]
              \/ i = Len(messages) + 1 /\ messages'[i].kind = kind
      BY <2>0, <2>1, PushKeepsJournal
    <3>4. kind # "prompt" => Index <= Len(messages)
      BY <2>0, <2>1 DEF IndexInTurn
    <3>5. kind # "prompt" => Len(messages) + 1 > Index'
      BY <1>0, <3>2, <3>4, SMT
    <3>6. \A i \in DOMAIN messages' : messages'[i].kind # "prompt" =>
            \/ i > Index'
            \/ i \in DOMAIN messages /\ messages'[i] = messages[i] /\ ~(i > Index)
      BY <3>2, <3>3, <3>5
    <3>7. RepliesAreSaved'
      BY <1>a, <1>b, <3>1, <3>6, RepliesStaySaved
    <3>8. kind = "prompt" => save'["main"] = "write"
      BY <2>0, <2>1 DEF Persists, Threads
    <3>9. IndexInTurn'
      <4>1. CASE kind = "prompt"
        BY <3>8, <4>1 DEF IndexInTurn
      <4>2. CASE kind # "prompt"
        BY <1>0, <3>2, <3>4, <4>2, SMT DEF IndexInTurn
      <4> QED
        BY <4>1, <4>2
    <3> QED
      BY <1>c, <3>1, <3>7, <3>9
  <2>2. ASSUME Submit PROVE RepliesAreSaved' /\ IndexInTurn' /\ UnmadeForks'
    BY <2>1, <2>2 DEF Submit, Kinds
  <2>3. ASSUME Reply PROVE RepliesAreSaved' /\ IndexInTurn' /\ UnmadeForks'
    BY <2>1, <2>3 DEF Reply, InTurn, Kinds
  <2>4. ASSUME Result PROVE RepliesAreSaved' /\ IndexInTurn' /\ UnmadeForks'
    BY <2>1, <2>4 DEF Result, InTurn, Kinds
  <2>5. ASSUME Complete PROVE RepliesAreSaved' /\ IndexInTurn' /\ UnmadeForks'
    <3>1. /\ pc' = "prompt" /\ save' = [save EXCEPT !["main"] = "write"]
          /\ UNCHANGED <<messages, persisted, files, forks, forked>>
      BY <2>5 DEF Complete, Persists, disk
    <3>2. Index' = Index
      BY <2>0, <3>1 DEF Index, Threads
    <3> QED
      BY <1>a, <1>b, <1>c, <3>1, <3>2, RepliesStaySaved DEF IndexInTurn
  <2> QED
    BY <1>3, <2>2, <2>3, <2>4, <2>5 DEF Turn
<1>4. ASSUME Command
      PROVE  RepliesAreSaved' /\ IndexInTurn' /\ UnmadeForks'
  <2>0. /\ save["main"] = "idle" /\ pc' = "prompt" /\ UNCHANGED <<save, returned>>
    BY <1>4 DEF Command, Clear, Rewind, SetSessionId, Resume, Fork, ResumeFork, Commanded,
                AtPrompt, saving
  <2>i. IndexInTurn'
    BY <2>0 DEF IndexInTurn
  <2>1. ASSUME Clear PROVE RepliesAreSaved' /\ UnmadeForks'
    <3>1. messages' = <<>> /\ DOMAIN messages' = {} /\ UNCHANGED <<forks, forked>>
      BY <2>1, SMT DEF Clear, disk
    <3> QED
      BY <1>c, <3>1 DEF RepliesAreSaved
  <2>2. ASSUME NEW count \in 1..MaxMessages, Rewind(count) PROVE RepliesAreSaved' /\ UnmadeForks'
    <3>1. /\ messages' = SubSeq(messages, 1, Len(messages) - count) /\ count < Len(messages)
          /\ UNCHANGED <<persisted, files, forks, forked>>
      BY <2>2 DEF Rewind, disk
    <3>2. \A i \in DOMAIN messages' : i \in DOMAIN messages /\ messages'[i] = messages[i]
      BY <1>0, <3>1, SMT
    <3>3. Index' = Index
      BY <2>0, <3>1 DEF Index
    <3> QED
      BY <1>a, <1>b, <1>c, <3>1, <3>2, <3>3, RepliesStaySaved
  <2>3. ASSUME NEW s \in SessionIds, SetSessionId(s) PROVE RepliesAreSaved' /\ UnmadeForks'
    <3>1. UNCHANGED <<messages, persisted, files, forks, forked>>
      BY <2>3 DEF SetSessionId, disk
    <3>2. Index' = Index
      BY <2>0, <3>1 DEF Index
    <3> QED
      BY <1>a, <1>b, <1>c, <3>1, <3>2, RepliesStaySaved
  <2>4. ASSUME NEW s \in SessionIds, Resume(s) PROVE RepliesAreSaved' /\ UnmadeForks'
    <3>1. messages' = files[s] /\ UNCHANGED <<files, forks, forked>>
      BY <2>4 DEF Resume, SetMessages, disk
    <3>2. \A i \in DOMAIN messages' : OnDisk(messages'[i])
      BY <3>1 DEF OnDisk
    <3> QED
      BY <1>a, <1>b, <1>c, <3>1, <3>2, RepliesStaySaved
  <2>5. ASSUME NEW f \in ForkIds, Fork(f) PROVE RepliesAreSaved' /\ UnmadeForks'
    <3>1. /\ f \notin forked /\ forked' = forked \cup {f}
          /\ forks' = [forks EXCEPT ![f] = messages] /\ UNCHANGED <<messages, persisted, files>>
      BY <2>5 DEF Fork
    <3>2. forks[f] = <<>> /\ DOMAIN forks[f] = {}
      BY <3>1, SMT DEF UnmadeForks
    <3>3. ForksGrow
      BY <1>0, <3>1, <3>2 DEF ForksGrow
    <3>4. Index' = Index
      BY <2>0, <3>1 DEF Index
    <3>5. UnmadeForks'
      BY <1>0, <3>1 DEF UnmadeForks
    <3> QED
      BY <1>a, <3>1, <3>3, <3>4, <3>5, RepliesStaySaved
  <2>6. ASSUME NEW f \in ForkIds, ResumeFork(f) PROVE RepliesAreSaved' /\ UnmadeForks'
    <3>1. UNCHANGED <<files, forks, forked>>
      BY <2>6 DEF ResumeFork, disk
    <3>2. PICK chosen \in Selections(forks[f]) : messages' = [i \in DOMAIN chosen |-> forks[f][chosen[i]]]
      BY <2>6 DEF ResumeFork, SetMessages
    <3>3. \A i \in DOMAIN chosen : chosen[i] \in DOMAIN forks[f]
      BY <1>0, SelectionsAreEntries
    <3>4. \A i \in DOMAIN messages' : OnDisk(messages'[i])
      BY <3>2, <3>3 DEF OnDisk
    <3> QED
      BY <1>a, <1>b, <1>c, <3>1, <3>4, RepliesStaySaved
  <2> QED
    BY <1>4, <2>i, <2>1, <2>2, <2>3, <2>4, <2>5, <2>6 DEF Command
<1>5. ASSUME NEW t \in Threads, Write(t)
      PROVE  RepliesAreSaved' /\ IndexInTurn' /\ UnmadeForks'
  <2>0. /\ t = "main" /\ WriteDelta("main") /\ save["main"] = "write"
        /\ save' = [save EXCEPT !["main"] = "advance"]
        /\ UNCHANGED <<pc, messages, persisted, sessionId, forks, forked>>
    BY <1>5 DEF Write, HandlerIdle, Threads
  <2>1. Index = persisted /\ Index' = returned'["main"]
    BY <2>0 DEF Index, TypeOK, Threads
  <2>2. CASE persisted >= Len(messages) /\ returned' = [returned EXCEPT !["main"] = Len(messages)]
             /\ UNCHANGED files
    <3>1. Index' = Len(messages)
      BY <2>1, <2>2 DEF TypeOK, Threads
    <3>2. \A i \in DOMAIN messages : ~(i > Index)
      BY <1>0, <2>1, <2>2, SMT
    <3>3. IndexInTurn'
      BY <1>0, <2>0, <3>1, SMT DEF IndexInTurn
    <3>4. RepliesAreSaved'
      BY <1>a, <1>b, <2>0, <2>2, <3>2, RepliesStaySaved
    <3> QED
      BY <1>c, <2>0, <3>3, <3>4
  <2>3. CASE persisted < Len(messages) /\ files' = [files EXCEPT ![sessionId] = @ \o Delta]
             /\ returned' = [returned EXCEPT !["main"] = Len(messages)]
    <3>1. Index' = Len(messages)
      BY <2>1, <2>3 DEF TypeOK, Threads
    <3>2. IndexInTurn'
      BY <1>0, <2>0, <3>1, SMT DEF IndexInTurn
    <3>3. /\ Delta \in Seq(Entries) /\ Len(Delta) = Len(messages) - persisted
          /\ \A i \in DOMAIN Delta : persisted + i \in DOMAIN messages
                                      /\ Delta[i] = messages[persisted + i]
      BY <2>3, DeltaIsPending
    <3>4. files'[sessionId] = files[sessionId] \o Delta
      BY <1>0, <2>3
    <3>5. FilesGrow
      <4> SUFFICES ASSUME NEW s \in SessionIds, NEW i \in DOMAIN files[s]
                   PROVE  i \in DOMAIN files'[s] /\ files'[s][i] = files[s][i]
        BY DEF FilesGrow
      <4>1. CASE s = sessionId
        <5>1. files[sessionId] \in Seq(Entries) /\ i \in DOMAIN files[sessionId]
          BY <1>0, <4>1
        <5>2. /\ i \in DOMAIN (files[sessionId] \o Delta)
              /\ (files[sessionId] \o Delta)[i] = files[sessionId][i]
          BY <3>3, <5>1, ConcatKeeps
        <5> QED
          BY <3>4, <4>1, <5>2
      <4>2. CASE s # sessionId
        BY <1>0, <2>3, <4>2
      <4> QED
        BY <4>1, <4>2
    <3>6. ASSUME NEW i \in DOMAIN messages, i > Index
          PROVE  OnDisk(messages[i])'
      <4> DEFINE k == Len(files[sessionId]) + (i - persisted)
      <4>1. i - persisted \in DOMAIN Delta /\ Delta[i - persisted] = messages[i]
        BY <1>0, <2>1, <3>3, <3>6, SMT
      <4>2. k \in DOMAIN files'[sessionId] /\ files'[sessionId][k] = Delta[i - persisted]
        BY <1>0, <3>3, <3>4, <4>1, SMT
      <4>3. messages'[i] = messages[i]
        BY <2>0
      <4> QED
        BY <1>0, <4>1, <4>2, <4>3 DEF OnDisk
    <3>7. ASSUME NEW i \in DOMAIN messages, messages[i].kind # "prompt", ~(i > Index)
          PROVE  OnDisk(messages[i])'
      <4>1. OnDisk(messages[i])
        BY <1>0, <3>7
      <4>2. messages'[i] = messages[i] /\ ForksGrow
        BY <1>b, <2>0
      <4> QED
        BY <3>5, <4>1, <4>2 DEF OnDisk, FilesGrow, ForksGrow
    <3>8. RepliesAreSaved'
      BY <2>0, <3>6, <3>7 DEF RepliesAreSaved
    <3> QED
      BY <1>c, <2>0, <3>2, <3>8
  <2>4. CASE persisted < Len(messages) /\ returned' = [returned EXCEPT !["main"] = persisted]
             /\ UNCHANGED files
    <3>1. Index' = Index
      BY <2>1, <2>4 DEF TypeOK, Threads
    <3>2. IndexInTurn'
      BY <1>0, <2>0, <2>1, <2>4, <3>1, SMT DEF IndexInTurn
    <3>3. RepliesAreSaved'
      BY <1>a, <1>b, <2>0, <2>4, <3>1, RepliesStaySaved
    <3> QED
      BY <1>c, <2>0, <3>2, <3>3
  <2> QED
    BY <2>0, <2>2, <2>3, <2>4 DEF WriteDelta
<1>6. ASSUME NEW t \in Threads, Advance(t)
      PROVE  RepliesAreSaved' /\ IndexInTurn' /\ UnmadeForks'
  <2>1. t = "main"
    BY <1>6 DEF Advance, HandlerIdle, Threads
  <2>2. files' = files /\ Index' = Index /\ messages' = messages
    BY <1>6, <2>1, AdvanceKeepsJournal
  <2>3. UNCHANGED <<pc, forks, forked>> /\ save["main"] = "advance"
    BY <1>6, <2>1 DEF Advance, disk
  <2> QED
    BY <1>a, <1>b, <1>c, <2>2, <2>3, RepliesStaySaved DEF IndexInTurn
<1> QED
  BY <1>1, <1>2, <1>3, <1>4, <1>5, <1>6 DEF Next

-----------------------------------------------------------------------------
LEMMA SavedInvHolds == Spec => []SavedInv
<1>1. Init => SavedInv
  BY JournalInit
<1>2. SavedInv /\ [Next]_vars => SavedInv'
  <2>1. CASE Next
    BY <2>1, JournalStep, SavedStep DEF SavedInv
  <2>2. CASE UNCHANGED vars
    BY <2>2 DEF vars, SavedInv, JournalInv, TypeOK, HandlerIdle, DownIsIdle, Numbered,
                PendingIsNewer, PendingIncreases, IndexInTurn, UnmadeForks, RepliesAreSaved,
                Index, OnDisk
  <2> QED
    BY <2>1, <2>2
<1> QED
  BY <1>1, <1>2, PTL DEF Spec

(* The sessions implement the journal: every step of the program leaves    *)
(* the transcripts alone or appends to one of them messages newer than all *)
(* that any of them holds, whatever commands, restarts, crashes and files  *)
(* that cannot be opened came before.                                      *)
THEOREM SessionsImplementJournal == Spec => JournalGrows
<1>1. Init => Transcripts!JournalInit
  BY JournalInit
<1>2. SavedInv /\ [Next]_vars => [Transcripts!JournalNext]_files
  BY JournalStep DEF SavedInv, vars
<1> QED
  BY <1>1, <1>2, SavedInvHolds, PTL
     DEF Spec, JournalGrows, Transcripts!JournalSpec

(* Every reply, call and result of the history is in a transcript or a     *)
(* fork, or is past the index and will be written: the loss after /clear   *)
(* and /rewind never reaches beyond the prompt.                            *)
THEOREM RepliesAreAlwaysSaved == Spec => []RepliesAreSaved
<1>1. SavedInv => RepliesAreSaved
  BY DEF SavedInv
<1> QED
  BY <1>1, SavedInvHolds, PTL

-----------------------------------------------------------------------------
(* The rows of the sessions (SavedSessions).                               *)

Roles == {"user", "assistant"}
RowMessages == [role : Roles, text : Int, order : Int]
RowEntries == [role : Roles, text : Int, blocks : Int]
RowTexts == [role : Roles, text : Int]
SaidTexts == {b \in RowTexts : b.text # 0}

\* The role and the text of every message.
Bare(h) == [i \in DOMAIN h |-> [role |-> h[i].role, text |-> h[i].text]]

\* A row restores to the end of what the history it was written from says.
RowGood(row, h) ==
  /\ h \in Seq(RowMessages) /\ row \in Seq(RowEntries)
  /\ Rows!EndsWith(Rows!Spoken(h), Rows!Deserialized(row))
  /\ h # <<>> /\ Rows!HasText(h[Len(h)]) => Rows!Deserialized(row) # <<>>

LEMMA RowsPick ==
    ASSUME NEW s \in Seq(RowTexts)
    PROVE  /\ Rows!WithText(s) = Lists!Picked(s, Those(s, SaidTexts))
           /\ Rows!WithText(s) \in Seq(RowTexts)
  <1>1. {i \in DOMAIN s : Rows!HasText(s[i])} = Those(s, SaidTexts)
    BY DEF Rows!HasText, Rows!NothingSaid, Those, SaidTexts
  <1>2. Rows!WithText(s) = Lists!Picked(s, Those(s, SaidTexts))
    BY <1>1 DEF Rows!WithText, Rows!History!Picked, Lists!Picked
  <1>3. Lists!Picked(s, Those(s, SaidTexts)) \in Seq(RowTexts)
    BY PickedFrom
  <1> QED BY <1>2, <1>3

LEMMA BareOf ==
    ASSUME NEW h \in Seq(RowMessages)
    PROVE  /\ Bare(h) \in Seq(RowTexts) /\ Len(Bare(h)) = Len(h)
           /\ \A i \in 1..Len(h) : Bare(h)[i] = [role |-> h[i].role, text |-> h[i].text]
           /\ Rows!Spoken(h) = Rows!WithText(Bare(h))
  <1>1. Len(h) \in Nat /\ DOMAIN h = 1..Len(h) /\ \A i \in 1..Len(h) : h[i] \in RowMessages
    OBVIOUS
  <1>2. \A i \in 1..Len(h) : [role |-> h[i].role, text |-> h[i].text] \in RowTexts
    BY <1>1 DEF RowMessages, RowTexts
  <1>3. Bare(h) = [i \in 1..Len(h) |-> [role |-> h[i].role, text |-> h[i].text]]
    BY <1>1 DEF Bare
  <1>4. Bare(h) \in Seq(RowTexts) /\ Len(Bare(h)) = Len(h)
    BY <1>1, <1>2, <1>3
  <1> QED BY <1>3, <1>4 DEF Rows!Spoken, Bare

\* What is restored are the texts that were written, whether flat or whole.
LEMMA RestoresTexts ==
    ASSUME NEW h \in Seq(RowMessages), NEW row,
           row = [i \in 1..Len(h) |-> row[i]], Len(row) = Len(h),
           \A i \in 1..Len(h) : row[i] = Rows!Flat(h[i]) \/ row[i] = Rows!Whole(h[i])
    PROVE  row \in Seq(RowEntries) /\ Rows!Deserialized(row) = Rows!Spoken(h)
  <1>1. Len(h) \in Nat /\ \A i \in 1..Len(h) : h[i] \in RowMessages
    OBVIOUS
  <1>2. ASSUME NEW i \in 1..Len(h)
        PROVE  /\ row[i] \in RowEntries /\ row[i].role = h[i].role
               /\ Rows!TextOf(row[i]) = h[i].text
    <2>1. /\ Rows!Flat(h[i]) = [role |-> h[i].role, text |-> h[i].text, blocks |-> 0]
          /\ Rows!Whole(h[i]) = [role |-> h[i].role, text |-> h[i].text, blocks |-> h[i].text]
      BY DEF Rows!Flat, Rows!Whole, Rows!NothingSaid
    <2>2. h[i].role \in Roles /\ h[i].text \in Int
      BY <1>1 DEF RowMessages
    <2>3. CASE row[i] = Rows!Flat(h[i])
      BY <2>1, <2>2, <2>3 DEF RowEntries, Rows!TextOf, Rows!NothingSaid
    <2>4. CASE row[i] = Rows!Whole(h[i])
      BY <2>1, <2>2, <2>4 DEF RowEntries, Rows!TextOf, Rows!NothingSaid
    <2> QED BY <2>3, <2>4
  <1>a. DOMAIN row = 1..Len(h) /\ DOMAIN h = 1..Len(h)
    BY <1>1
  <1>3. [i \in DOMAIN row |-> [role |-> row[i].role, text |-> Rows!TextOf(row[i])]]
          = [i \in DOMAIN h |-> [role |-> h[i].role, text |-> h[i].text]]
    BY <1>2, <1>a
  <1>4. Rows!Deserialized(row) = Rows!Spoken(h)
    BY <1>3 DEF Rows!Deserialized, Rows!Spoken
  <1>5. row \in Seq(RowEntries)
    <2>1. row \in [1..Len(h) -> RowEntries]
      BY <1>2
    <2> QED BY <1>1, <2>1
  <1> QED BY <1>4, <1>5

LEMMA RestoredTexts ==
    ASSUME NEW row \in Seq(RowEntries)
    PROVE  Rows!Deserialized(row) \in Seq(RowTexts)
  <1> DEFINE texts == [i \in DOMAIN row |-> [role |-> row[i].role, text |-> Rows!TextOf(row[i])]]
  <1>1. Len(row) \in Nat /\ DOMAIN row = 1..Len(row) /\ \A i \in 1..Len(row) : row[i] \in RowEntries
    OBVIOUS
  <1>2. ASSUME NEW i \in 1..Len(row)
        PROVE  [role |-> row[i].role, text |-> Rows!TextOf(row[i])] \in RowTexts
    BY <1>1 DEF RowEntries, RowTexts, Rows!TextOf
  <1>3. texts = [i \in 1..Len(row) |-> [role |-> row[i].role, text |-> Rows!TextOf(row[i])]]
    BY <1>1
  <1>4. texts \in Seq(RowTexts)
    BY <1>1, <1>2, <1>3
  <1> HIDE DEF texts
  <1>5. Rows!WithText(texts) \in Seq(RowTexts)
    BY <1>4, RowsPick
  <1> QED BY <1>5 DEF Rows!Deserialized, texts

LEMMA EndOfItself ==
    ASSUME NEW M, NEW a \in Seq(M), NEW b \in Seq(M)
    PROVE  Rows!EndsWith(a \o b, b)
  <1>1. PICK c : c = a \o b
    OBVIOUS
  <1>2. /\ c \in Seq(M) /\ Len(c) = Len(a) + Len(b) /\ Len(a) \in Nat /\ Len(b) \in Nat
        /\ \A i \in 1..(Len(a) + Len(b)) : c[i] = IF i <= Len(a) THEN a[i] ELSE b[i - Len(a)]
    BY <1>1, ConcatProperties
  <1>3. PICK m : m = Len(c) - Len(b) + 1
    OBVIOUS
  <1>4. m = Len(a) + 1 /\ m \in 1..(Len(c) + 1) /\ Len(c) \in m - 1..Len(c)
    BY <1>2, <1>3
  <1>5. PICK e : e = SubSeq(c, m, Len(c))
    OBVIOUS
  <1>6. \A i \in m..Len(c) : c[i] \in M
    BY <1>2, <1>4
  <1>7. /\ e \in Seq(M) /\ Len(e) = Len(b)
        /\ \A i \in 1..Len(b) : e[i] = c[m + i - 1]
    <2>1. Len(c) - m + 1 = Len(b)
      BY <1>2, <1>4
    <2> QED BY <1>2, <1>4, <1>5, <1>6, <2>1
  <1>8. ASSUME NEW i \in 1..Len(b) PROVE e[i] = b[i]
    <2>1. m + i - 1 = Len(a) + i /\ Len(a) + i \in 1..(Len(a) + Len(b))
          /\ ~(Len(a) + i <= Len(a)) /\ (Len(a) + i) - Len(a) = i
      <3>1. m = Len(a) + 1 /\ Len(a) \in Nat /\ Len(b) \in Nat /\ i \in 1..Len(b)
        BY <1>2, <1>4
      <3> QED BY <3>1
    <2> QED BY <2>1, <1>2, <1>7
  <1>9. e = b
    BY <1>7, <1>8, SeqEqual
  <1>10. Len(b) <= Len(c)
    BY <1>2
  <1> QED BY <1>1, <1>3, <1>5, <1>9, <1>10 DEF Rows!EndsWith

\* A text at the end is among those that are restored.
LEMMA LastIsSaid ==
    ASSUME NEW h \in Seq(RowMessages), h # <<>>, Rows!HasText(h[Len(h)])
    PROVE  Rows!Spoken(h) # <<>>
  <1> DEFINE b == Bare(h)
             n == Len(h)
             p == Lists!Picked(b, Those(b, SaidTexts))
  <1>1. b \in Seq(RowTexts) /\ Len(b) = n /\ b[n] = [role |-> h[n].role, text |-> h[n].text]
        /\ Rows!Spoken(h) = Rows!WithText(b) /\ n \in 1..n /\ h[n] \in RowMessages
    <2>1. n \in 1..n /\ h[n] \in RowMessages
      OBVIOUS
    <2> QED BY <2>1, BareOf
  <1> HIDE DEF b
  <1>2. n \in Those(b, SaidTexts)
    BY <1>1 DEF Those, SaidTexts, RowTexts, Rows!HasText, Rows!NothingSaid, RowMessages
  <1>3. IsFrom(p, b, Those(b, SaidTexts))
    BY <1>1, PickedFrom
  <1>4. \E j \in 1..Len(p) : TRUE
    BY <1>1, <1>2, <1>3 DEF IsFrom, From
  <1>5. p # <<>>
    BY <1>4
  <1> QED BY <1>1, <1>5, RowsPick

\* The row that is written when the program ends.
LEMMA WholeRow ==
    ASSUME NEW h \in Seq(RowMessages)
    PROVE  RowGood(Rows!Serialized(h), h)
  <1> DEFINE row == Rows!Serialized(h)
  <1>1. Len(h) \in Nat /\ DOMAIN h = 1..Len(h)
    OBVIOUS
  <1>2. row = [i \in 1..Len(h) |-> Rows!Whole(h[i])]
    BY <1>1 DEF Rows!Serialized
  <1>3. /\ Len(row) = Len(h) /\ row = [i \in 1..Len(h) |-> row[i]]
        /\ \A i \in 1..Len(h) : row[i] = Rows!Whole(h[i])
    <2>1. \A i \in 1..Len(h) : row[i] = Rows!Whole(h[i])
      BY <1>2
    <2> QED BY <1>1, <1>2, <2>1
  <1> HIDE DEF row
  <1>4. row \in Seq(RowEntries) /\ Rows!Deserialized(row) = Rows!Spoken(h)
    BY <1>3, RestoresTexts
  <1>5. PICK s : s = Rows!Spoken(h)
    OBVIOUS
  <1>6. s \in Seq(RowTexts)
    BY <1>5, BareOf, RowsPick
  <1>7. <<>> \in Seq(RowTexts) /\ <<>> \o s = s
    BY <1>6
  <1>8. Rows!EndsWith(s, s)
    BY <1>6, <1>7, EndOfItself
  <1>9. h # <<>> /\ Rows!HasText(h[Len(h)]) => s # <<>>
    BY <1>5, LastIsSaid
  <1> QED BY <1>4, <1>5, <1>8, <1>9 DEF RowGood, row

\* The row that is written after a prompt.
LEMMA FlatRow ==
    ASSUME NEW h \in Seq(RowMessages)
    PROVE  RowGood(Rows!AutoSaved(h), h)
  <1> DEFINE L == Len(h)
             from == IF L > KeepLast THEN L - KeepLast + 1 ELSE 1
             a == SubSeq(h, 1, from - 1)
             e == SubSeq(h, from, L)
             row == Rows!AutoSaved(h)
  <1>1. L \in Nat /\ KeepLast \in Nat /\ KeepLast > 0 /\ \A i \in 1..L : h[i] \in RowMessages
    BY RowsAssumption
  <1>2. from \in 1..(L + 1) /\ (L > 0 => from <= L)
    BY <1>1
  <1>3. Rows!LastOf(KeepLast, h) = e
    BY DEF Rows!LastOf
  <1> HIDE DEF from
  <1>4. /\ a \in Seq(RowMessages) /\ Len(a) = from - 1
        /\ \A i \in 1..(from - 1) : a[i] = h[i]
    <2>1. \A i \in 1..(from - 1) : h[i] \in RowMessages
      BY <1>1, <1>2
    <2>2. PICK f : f = from - 1
      OBVIOUS
    <2>3. f \in 0..L /\ f \in Nat /\ \A i \in 1..f : h[i] \in RowMessages
      BY <1>1, <1>2, <2>1, <2>2
    <2>4. SubSeq(h, 1, f) \in Seq(RowMessages) /\ Len(SubSeq(h, 1, f)) = f
          /\ \A i \in 1..f : SubSeq(h, 1, f)[i] = h[i]
      BY <2>3 DEF L
    <2> QED BY <2>2, <2>4
  <1>5. /\ e \in Seq(RowMessages) /\ Len(e) = L - from + 1
        /\ \A i \in 1..(L - from + 1) : e[i] = h[from + i - 1]
    <2>1. \A i \in from..L : h[i] \in RowMessages
      BY <1>1, <1>2
    <2>2. L - from + 1 \in Nat /\ from \in Nat
      BY <1>1, <1>2
    <2> QED BY <1>1, <1>2, <2>1, <2>2 DEF L
  <1>6. h = a \o e
    <2> HIDE DEF a, e
    <2>1. PICK c : c = a \o e
      OBVIOUS
    <2>2. /\ c \in Seq(RowMessages) /\ Len(c) = Len(a) + Len(e)
          /\ \A i \in 1..(Len(a) + Len(e)) : c[i] = IF i <= Len(a) THEN a[i] ELSE e[i - Len(a)]
      BY <1>4, <1>5, <2>1, ConcatProperties
    <2>3. Len(c) = L /\ Len(a) + Len(e) = L
      BY <1>1, <1>2, <1>4, <1>5, <2>2
    <2>4. ASSUME NEW i \in 1..L PROVE c[i] = h[i]
      <3>1. CASE i <= from - 1
        <4>1. i \in 1..(from - 1)
          BY <3>1, <1>2
        <4>2. i \in 1..(Len(a) + Len(e)) /\ i <= Len(a)
          BY <2>3, <4>1, <1>2, <1>4
        <4> QED BY <4>1, <4>2, <2>2, <1>4
      <3>2. CASE ~(i <= from - 1)
        <4>1. i - (from - 1) \in 1..(L - from + 1) /\ from + (i - (from - 1)) - 1 = i
          BY <3>2, <1>1, <1>2
        <4>2. ~(i <= Len(a)) /\ i - Len(a) = i - (from - 1)
          BY <3>2, <1>4
        <4>3. c[i] = e[i - (from - 1)]
          BY <4>2, <2>2, <2>3
        <4>4. e[i - (from - 1)] = h[from + (i - (from - 1)) - 1]
          BY <4>1, <1>5
        <4> QED BY <4>1, <4>3, <4>4
      <3> QED BY <3>1, <3>2
    <2>5. h \in Seq(RowMessages) /\ Len(h) = L
      OBVIOUS
    <2>6. c = h
      BY <2>2, <2>3, <2>4, <2>5, SeqEqual DEF L
    <2> QED BY <2>1, <2>6
  <1> HIDE DEF a, e
  <1>7. row = [i \in 1..Len(e) |-> Rows!Flat(e[i])]
    <2>1. DOMAIN e = 1..Len(e)
      BY <1>5
    <2> QED BY <1>3, <2>1 DEF Rows!AutoSaved
  <1>8. /\ Len(row) = Len(e) /\ row = [i \in 1..Len(e) |-> row[i]]
        /\ \A i \in 1..Len(e) : row[i] = Rows!Flat(e[i])
    <2>1. Len(e) \in Nat /\ \A i \in 1..Len(e) : row[i] = Rows!Flat(e[i])
      BY <1>5, <1>7
    <2> QED BY <1>7, <2>1
  <1> HIDE DEF row
  <1>9. row \in Seq(RowEntries) /\ Rows!Deserialized(row) = Rows!Spoken(e)
    BY <1>5, <1>8, RestoresTexts
  <1>10. /\ Bare(a) \in Seq(RowTexts) /\ Bare(e) \in Seq(RowTexts)
         /\ Len(Bare(a)) = Len(a) /\ Len(Bare(e)) = Len(e)
         /\ \A i \in 1..Len(a) : Bare(a)[i] = [role |-> a[i].role, text |-> a[i].text]
         /\ \A i \in 1..Len(e) : Bare(e)[i] = [role |-> e[i].role, text |-> e[i].text]
    BY <1>4, <1>5, BareOf
  <1>11. Bare(h) = Bare(a) \o Bare(e)
    <2> HIDE DEF L
    <2>1. PICK x, y : x = Bare(a) /\ y = Bare(e)
      OBVIOUS
    <2>a. PICK c : c = x \o y
      OBVIOUS
    <2>b. x \in Seq(RowTexts) /\ y \in Seq(RowTexts)
      BY <1>10, <2>1
    <2>c. /\ c \in Seq(RowTexts) /\ Len(c) = Len(x) + Len(y)
          /\ \A i \in 1..(Len(x) + Len(y)) : c[i] = IF i <= Len(x) THEN x[i] ELSE y[i - Len(x)]
      BY <2>a, <2>b, ConcatProperties
    <2>2. /\ c \in Seq(RowTexts) /\ Len(c) = Len(a) + Len(e)
          /\ \A i \in 1..(Len(a) + Len(e)) :
               c[i] = IF i <= Len(a) THEN Bare(a)[i] ELSE Bare(e)[i - Len(a)]
      BY <2>1, <2>c, <1>10
    <2>3. /\ Len(h) = Len(a) + Len(e)
          /\ \A i \in 1..(Len(a) + Len(e)) : h[i] = IF i <= Len(a) THEN a[i] ELSE e[i - Len(a)]
      BY <1>4, <1>5, <1>6, ConcatProperties
    <2>4. /\ Bare(h) \in Seq(RowTexts) /\ Len(Bare(h)) = Len(h)
          /\ \A i \in 1..Len(h) : Bare(h)[i] = [role |-> h[i].role, text |-> h[i].text]
      BY BareOf
    <2>5. ASSUME NEW i \in 1..Len(h) PROVE c[i] = Bare(h)[i]
      <3>0. Len(a) \in Nat /\ Len(e) \in Nat
        BY <1>4, <1>5
      <3>1. i \in 1..(Len(a) + Len(e)) /\ Len(a) \in Nat /\ Len(e) \in Nat
        BY <2>3, <3>0
      <3>2. CASE i <= Len(a)
        <4>1. i \in 1..Len(a) /\ h[i] = a[i] /\ c[i] = Bare(a)[i]
          BY <3>1, <3>2, <2>2, <2>3
        <4> QED BY <4>1, <1>10, <2>4
      <3>3. CASE ~(i <= Len(a))
        <4>1. i - Len(a) \in 1..Len(e)
          BY <3>1, <3>3
        <4>2. h[i] = e[i - Len(a)] /\ c[i] = Bare(e)[i - Len(a)]
          BY <3>1, <3>3, <2>2, <2>3
        <4> QED BY <4>1, <4>2, <1>10, <2>4
      <3> QED BY <3>2, <3>3
    <2>6. c = Bare(h)
      BY <2>2, <2>3, <2>4, <2>5, SeqEqual
    <2> QED BY <2>1, <2>a, <2>6
  <1>12. Rows!Spoken(h) = Rows!Spoken(a) \o Rows!Spoken(e)
    <2>1. Lists!Picked(Bare(a) \o Bare(e), Those(Bare(a) \o Bare(e), SaidTexts))
            = Lists!Picked(Bare(a), Those(Bare(a), SaidTexts))
                \o Lists!Picked(Bare(e), Those(Bare(e), SaidTexts))
      BY <1>10, PickedOfBoth
    <2>2. Bare(h) \in Seq(RowTexts)
      BY BareOf
    <2>3. /\ Rows!Spoken(a) = Lists!Picked(Bare(a), Those(Bare(a), SaidTexts))
          /\ Rows!Spoken(e) = Lists!Picked(Bare(e), Those(Bare(e), SaidTexts))
          /\ Rows!Spoken(h) = Lists!Picked(Bare(h), Those(Bare(h), SaidTexts))
      BY <1>4, <1>5, <1>10, <2>2, BareOf, RowsPick
    <2> QED BY <1>11, <2>1, <2>3
  <1>13. Rows!Spoken(a) \in Seq(RowTexts) /\ Rows!Spoken(e) \in Seq(RowTexts)
    BY <1>4, <1>5, BareOf, RowsPick
  <1>14. Rows!EndsWith(Rows!Spoken(h), Rows!Spoken(e))
    BY <1>12, <1>13, EndOfItself
  <1>15. ASSUME h # <<>>, Rows!HasText(h[Len(h)]) PROVE Rows!Spoken(e) # <<>>
    <2>1. L > 0 /\ from <= L
      BY <1>1, <1>2, <1>15
    <2>2. L - from + 1 \in 1..(L - from + 1) /\ from + (L - from + 1) - 1 = L /\ Len(e) = L - from + 1
      BY <1>1, <1>2, <1>5, <2>1
    <2>3. e[Len(e)] = h[L] /\ e # <<>>
      BY <2>2, <1>5
    <2> QED BY <1>5, <1>15, <2>3, LastIsSaid DEF L
  <1> QED BY <1>9, <1>14, <1>15 DEF RowGood, row

LEMMA EmptyRow == RowGood(<<>>, <<>>)
  <1>1. <<>> \in Seq(RowMessages) /\ DOMAIN <<>> = {}
    OBVIOUS
  <1>2. Rows!Serialized(<<>>) = <<>>
    BY <1>1 DEF Rows!Serialized
  <1> QED BY <1>1, <1>2, WholeRow

RowsGood == DOMAIN told = DOMAIN rows /\ \A s \in DOMAIN rows : RowGood(rows[s], told[s])

RowsInv ==
  /\ rowsMessages \in Seq(RowMessages) /\ rowsPersisted \in Nat /\ rowsSaid \in Nat
  /\ transcripts \in [Rows!SessionNames -> Seq(RowMessages)]
  /\ clock \in Rows!SessionNames
  /\ rowsSessionId \in Rows!SessionNames \cup {0} /\ engineId \in Rows!SessionNames \cup {0}
  /\ RowsGood

LEMMA RowsInit == Rows!Init => RowsInv
  <1> SUFFICES ASSUME Rows!Init PROVE RowsInv
    OBVIOUS
  <1>1. 1 \in Rows!SessionNames
    BY RowsAssumption DEF Rows!SessionNames
  <1>2. <<>> \in Seq(RowMessages) /\ DOMAIN <<>> = {}
    OBVIOUS
  <1>3. [s \in Rows!SessionNames |-> <<>>] \in [Rows!SessionNames -> Seq(RowMessages)]
    BY <1>2
  <1> QED BY <1>1, <1>2, <1>3 DEF Rows!Init, Rows!NoName, RowsInv, RowsGood

LEMMA RowIsUpdated ==
    ASSUME NEW s, NEW row, NEW h, RowGood(row, h), RowsGood, Rows!UpdateContext(s, row, h)
    PROVE  RowsGood'
  <1>1. CASE UNCHANGED <<rows, told>>
    BY <1>1 DEF RowsGood
  <1>2. CASE /\ s \in DOMAIN rows /\ rows' = [rows EXCEPT ![s] = row]
             /\ told' = [told EXCEPT ![s] = h]
    <2>1. DOMAIN told' = DOMAIN rows' /\ DOMAIN rows' = DOMAIN rows
      BY <1>2 DEF RowsGood
    <2>2. ASSUME NEW x \in DOMAIN rows' PROVE RowGood(rows'[x], told'[x])
      <3>1. x \in DOMAIN rows /\ x \in DOMAIN told
        BY <2>1 DEF RowsGood
      <3>2. CASE x = s
        <4>1. rows'[x] = row /\ told'[x] = h
          BY <1>2, <3>1, <3>2
        <4> QED BY <4>1
      <3>3. CASE x # s
        <4>1. rows'[x] = rows[x] /\ told'[x] = told[x]
          BY <1>2, <3>1, <3>3
        <4> QED BY <3>1, <4>1 DEF RowsGood
      <3> QED BY <3>2, <3>3
    <2> QED BY <2>1, <2>2 DEF RowsGood
  <1> QED BY <1>1, <1>2 DEF Rows!UpdateContext

LEMMA RowIsCreated ==
    ASSUME RowsGood, clock \in Rows!SessionNames, Rows!CreateSession
    PROVE  RowsGood' /\ rowsSessionId' \in Rows!SessionNames \cup {0}
  <1>1. CASE rowsSessionId' = Rows!NoName /\ UNCHANGED <<rows, told>>
    BY <1>1 DEF RowsGood, Rows!NoName
  <1>2. CASE /\ rowsSessionId' = clock
             /\ rows' = Rows!Extended(rows, clock, <<>>)
             /\ told' = Rows!Extended(told, clock, <<>>)
    <2>1. /\ rows' = [x \in DOMAIN rows \cup {clock} |-> IF x = clock THEN <<>> ELSE rows[x]]
          /\ told' = [x \in DOMAIN told \cup {clock} |-> IF x = clock THEN <<>> ELSE told[x]]
      BY <1>2 DEF Rows!Extended
    <2>2. DOMAIN told' = DOMAIN rows' /\ DOMAIN rows' = DOMAIN rows \cup {clock}
      BY <2>1 DEF RowsGood
    <2>3. ASSUME NEW x \in DOMAIN rows' PROVE RowGood(rows'[x], told'[x])
      <3>1. CASE x = clock
        <4>1. rows'[x] = <<>> /\ told'[x] = <<>>
          BY <2>1, <2>2, <3>1
        <4> QED BY <4>1, EmptyRow
      <3>2. CASE x # clock
        <4>1. x \in DOMAIN rows /\ rows'[x] = rows[x] /\ told'[x] = told[x]
          BY <2>1, <2>2, <3>2
        <4> QED BY <4>1 DEF RowsGood
      <3> QED BY <3>1, <3>2
    <2> QED BY <1>2, <2>2, <2>3 DEF RowsGood
  <1> QED BY <1>1, <1>2 DEF Rows!CreateSession

LEMMA ExchangeIs ==
    ASSUME rowsSaid \in Nat, NEW outcome \in Rows!Outcomes
    PROVE  Rows!Exchange(outcome) \in Seq(RowMessages) /\ Len(outcome) \in Nat
  <1> DEFINE n == rowsSaid
             Spoke(role, i) == [role |-> role, text |-> i, order |-> i]
             Silent(role, i) == [role |-> role, text |-> 0, order |-> i]
             rest == [i \in DOMAIN outcome |->
                        IF outcome[i] = "assistant" THEN Spoke("assistant", n + 1 + i)
                        ELSE Silent(IF outcome[i] = "call" THEN "assistant" ELSE "user", n + 1 + i)]
             first == <<Spoke("user", n + 1)>>
  <1>1. outcome \in Seq({"assistant", "call", "user"}) /\ Len(outcome) \in Nat
    <2>1. /\ <<"assistant">> \in Seq({"assistant", "call", "user"})
          /\ <<"call", "user">> \in Seq({"assistant", "call", "user"})
          /\ <<"call", "user", "assistant">> \in Seq({"assistant", "call", "user"})
      OBVIOUS
    <2>2. outcome \in Seq({"assistant", "call", "user"})
      BY <2>1 DEF Rows!Outcomes
    <2> QED BY <2>2
  <1>2. DOMAIN outcome = 1..Len(outcome)
    BY <1>1
  <1>3. \A i \in 1..Len(outcome) : rest[i] \in RowMessages
    <2> TAKE i \in 1..Len(outcome)
    <2>1. \E r \in Roles, x \in Int, y \in Int : rest[i] = [role |-> r, text |-> x, order |-> y]
      <3>1. "user" \in Roles /\ "assistant" \in Roles /\ 0 \in Int /\ n + 1 + i \in Int
        BY DEF Roles
      <3>2. rest[i] = IF outcome[i] = "assistant" THEN Spoke("assistant", n + 1 + i)
                      ELSE Silent(IF outcome[i] = "call" THEN "assistant" ELSE "user", n + 1 + i)
        BY <1>2
      <3>3. CASE outcome[i] = "assistant"
        BY <3>1, <3>2, <3>3
      <3>4. CASE outcome[i] # "assistant" /\ outcome[i] = "call"
        BY <3>1, <3>2, <3>4
      <3>5. CASE outcome[i] # "assistant" /\ outcome[i] # "call"
        BY <3>1, <3>2, <3>5
      <3> QED BY <3>3, <3>4, <3>5
    <2> QED BY <2>1 DEF RowMessages
  <1>4. rest \in Seq(RowMessages)
    BY <1>1, <1>2, <1>3
  <1>5. first \in Seq(RowMessages)
    <2>1. Spoke("user", n + 1) \in RowMessages
      BY DEF RowMessages, Roles
    <2> QED BY <2>1
  <1>6. Rows!Exchange(outcome) = first \o rest
    BY DEF Rows!Exchange, Rows!NothingSaid
  <1> HIDE DEF first, rest
  <1>7. first \o rest \in Seq(RowMessages)
    BY <1>4, <1>5, ConcatProperties
  <1> QED BY <1>1, <1>6, <1>7

LEMMA RowsStep == RowsInv /\ [Rows!Next]_rowsVars => RowsInv'
  <1> SUFFICES ASSUME RowsInv, [Rows!Next]_rowsVars PROVE RowsInv'
    OBVIOUS
  <1>0. /\ rowsMessages \in Seq(RowMessages) /\ rowsPersisted \in Nat /\ rowsSaid \in Nat
        /\ transcripts \in [Rows!SessionNames -> Seq(RowMessages)]
        /\ clock \in Rows!SessionNames
        /\ rowsSessionId \in Rows!SessionNames \cup {0} /\ engineId \in Rows!SessionNames \cup {0}
        /\ RowsGood
    BY DEF RowsInv
  <1>1. ASSUME UNCHANGED rowsVars PROVE RowsInv'
    BY <1>1 DEF RowsInv, RowsGood, rowsVars
  <1>2. ASSUME UNCHANGED <<rows, told>> PROVE RowsGood'
    BY <1>0, <1>2 DEF RowsGood
  <1>3. <<>> \in Seq(RowMessages) /\ 0 \in Nat /\ Len(<<>>) = 0
    OBVIOUS
  <1>4. ASSUME NEW forceNew \in BOOLEAN, NEW continue \in BOOLEAN, Rows!Start(forceNew, continue)
        PROVE  RowsInv'
    <2>1. rowsSessionId' \in Rows!SessionNames \cup {0} /\ RowsGood'
      <3>1. CASE ~forceNew /\ \E s \in Rows!SessionNames : Rows!IsNewest(s)
        <4>1. rowsSessionId' = (CHOOSE s \in Rows!SessionNames : Rows!IsNewest(s))
              /\ UNCHANGED <<rows, told>>
          BY <1>4, <3>1 DEF Rows!Start
        <4>2. rowsSessionId' \in Rows!SessionNames
          BY <3>1, <4>1
        <4> QED BY <1>2, <4>1, <4>2
      <3>2. CASE ~(~forceNew /\ \E s \in Rows!SessionNames : Rows!IsNewest(s))
        <4>1. Rows!CreateSession
          BY <1>4, <3>2, Zenon DEF Rows!Start
        <4> QED BY <1>0, <4>1, RowIsCreated
      <3> QED BY <3>1, <3>2
    <2>2. engineId' = rowsSessionId' /\ clock' = clock /\ transcripts' = transcripts
          /\ rowsSaid' = rowsSaid
      BY <1>4 DEF Rows!Start
    <2>3. rowsMessages' \in Seq(RowMessages) /\ rowsPersisted' \in Nat
      <3>1. CASE continue /\ Rows!HasTranscript(engineId')
        <4>1. rowsMessages' = transcripts[engineId'] /\ rowsPersisted' = Len(transcripts[engineId'])
          BY <1>4, <3>1 DEF Rows!Start, Rows!Load
        <4>2. engineId' \in Rows!SessionNames
          BY <2>1, <2>2, <3>1 DEF Rows!HasTranscript, Rows!NoName
        <4>3. transcripts[engineId'] \in Seq(RowMessages)
          BY <1>0, <4>2
        <4> QED BY <4>1, <4>3
      <3>2. CASE ~(continue /\ Rows!HasTranscript(engineId'))
        <4>1. rowsMessages' = <<>> /\ rowsPersisted' = Len(<<>>)
          BY <1>4, <3>2 DEF Rows!Start, Rows!Load
        <4> QED BY <1>3, <4>1
      <3> QED BY <3>1, <3>2
    <2> QED BY <1>0, <2>1, <2>2, <2>3 DEF RowsInv
  <1>5. ASSUME Rows!Stops, RowsGood' PROVE RowsInv'
    BY <1>0, <1>3, <1>5 DEF RowsInv, Rows!Stops, Rows!NoName
  <1>6. ASSUME Rows!Exit PROVE RowsInv'
    <2>1. CASE rowsMessages # <<>>
      <3>1. Rows!UpdateContext(rowsSessionId, Rows!Serialized(rowsMessages), rowsMessages)
        BY <1>6, <2>1 DEF Rows!Exit
      <3>2. RowsGood'
        BY <1>0, <3>1, WholeRow, RowIsUpdated
      <3> QED BY <1>5, <1>6, <3>2 DEF Rows!Exit
    <2>2. CASE rowsMessages = <<>>
      BY <1>2, <1>5, <1>6, <2>2 DEF Rows!Exit
    <2> QED BY <2>1, <2>2
  <1>7. ASSUME Rows!Die PROVE RowsInv'
    BY <1>2, <1>5, <1>7 DEF Rows!Die
  <1>8. ASSUME Rows!Tick PROVE RowsInv'
    <2>1. clock < MaxSecond /\ clock' = clock + 1
          /\ UNCHANGED <<rowsSessionId, engineId, rowsMessages, rowsPersisted, transcripts, rows,
                         told, rowsSaid>>
      BY <1>8 DEF Rows!Tick, Rows!store
    <2>2. clock' \in Rows!SessionNames
      BY <1>0, <2>1, RowsAssumption DEF Rows!SessionNames
    <2>3. RowsGood'
      BY <1>2, <2>1
    <2> QED BY <1>0, <2>1, <2>2, <2>3 DEF RowsInv
  <1>9. ASSUME NEW outcome \in Rows!Outcomes, Rows!Prompt(outcome) PROVE RowsInv'
    <2>1. rowsMessages' = rowsMessages \o Rows!Exchange(outcome)
          /\ rowsSaid' = rowsSaid + 1 + Len(outcome)
          /\ clock' = clock /\ rowsSessionId' = rowsSessionId /\ engineId' = engineId
      BY <1>9 DEF Rows!Prompt
    <2>2. rowsMessages' \in Seq(RowMessages) /\ rowsSaid' \in Nat
      <3>1. Rows!Exchange(outcome) \in Seq(RowMessages) /\ Len(outcome) \in Nat
        BY <1>0, ExchangeIs
      <3> QED BY <1>0, <2>1, <3>1, ConcatProperties
    <2>3. rowsPersisted' \in Nat /\ transcripts' \in [Rows!SessionNames -> Seq(RowMessages)]
      <3>1. CASE engineId = Rows!NoName
        BY <1>0, <1>9, <3>1 DEF Rows!Prompt, Rows!Persist
      <3>2. CASE engineId # Rows!NoName
        <4> DEFINE more == SubSeq(rowsMessages', rowsPersisted + 1, Len(rowsMessages'))
        <4>1. transcripts' = [transcripts EXCEPT ![engineId] = @ \o more]
              /\ rowsPersisted' = Len(rowsMessages')
          BY <1>9, <3>2 DEF Rows!Prompt, Rows!Persist
        <4>2. Len(rowsMessages') \in Nat /\ rowsPersisted + 1 \in Nat /\ rowsPersisted + 1 >= 1
          BY <1>0, <2>2
        <4>3. more \in Seq(RowMessages)
          BY <2>2, <4>2
        <4>4. engineId \in Rows!SessionNames /\ transcripts[engineId] \in Seq(RowMessages)
          BY <1>0, <3>2 DEF Rows!NoName
        <4> HIDE DEF more
        <4>5. transcripts[engineId] \o more \in Seq(RowMessages)
          BY <4>3, <4>4, ConcatProperties
        <4> QED BY <1>0, <4>1, <4>2, <4>4, <4>5
      <3> QED BY <3>1, <3>2
    <2>4. RowsGood'
      <3>1. CASE rowsSessionId # Rows!NoName
        <4>1. Rows!UpdateContext(rowsSessionId, Rows!AutoSaved(rowsMessages'), rowsMessages')
          BY <1>9, <3>1 DEF Rows!Prompt
        <4> QED BY <1>0, <2>2, <4>1, FlatRow, RowIsUpdated
      <3>2. CASE rowsSessionId = Rows!NoName
        BY <1>2, <1>9, <3>2 DEF Rows!Prompt
      <3> QED BY <3>1, <3>2
    <2> QED BY <1>0, <2>1, <2>2, <2>3, <2>4 DEF RowsInv
  <1>10. ASSUME NEW s \in Rows!SessionNames, Rows!Rename(s) PROVE RowsInv'
    BY <1>0, <1>2, <1>10 DEF RowsInv, Rows!Rename, Rows!store
  <1>11. ASSUME NEW s \in Rows!SessionNames, Rows!Removed(s) PROVE RowsInv'
    <2>1. transcripts' \in [Rows!SessionNames -> Seq(RowMessages)]
      BY <1>0, <1>3, <1>11 DEF Rows!Removed
    <2> QED BY <1>0, <1>2, <1>11, <2>1 DEF RowsInv, Rows!Removed
  <1>12. ASSUME NEW s \in Rows!SessionNames, Rows!Resume(s) PROVE RowsInv'
    <2>1. UNCHANGED <<clock, rowsSessionId, engineId, transcripts, rows, told, rowsSaid>>
      BY <1>12 DEF Rows!Resume, Rows!store
    <2>2. rowsMessages' \in Seq(RowMessages) /\ rowsPersisted' \in Nat
      <3>1. CASE Rows!HasTranscript(s) /\ Rows!Load(transcripts[s])
        <4>1. transcripts[s] \in Seq(RowMessages)
          BY <1>0
        <4> QED BY <3>1, <4>1 DEF Rows!Load
      <3>2. CASE /\ s \in DOMAIN rows
                 /\ Rows!Load([i \in DOMAIN Rows!Deserialized(rows[s]) |->
                                 [role |-> Rows!Deserialized(rows[s])[i].role,
                                  text |-> Rows!Deserialized(rows[s])[i].text,
                                  order |-> Rows!Deserialized(rows[s])[i].text]])
        <4> DEFINE d == Rows!Deserialized(rows[s])
                   back == [i \in DOMAIN d |-> [role |-> d[i].role, text |-> d[i].text,
                                                order |-> d[i].text]]
        <4>1. rows[s] \in Seq(RowEntries)
          BY <1>0, <3>2 DEF RowsGood, RowGood
        <4>2. d \in Seq(RowTexts)
          BY <4>1, RestoredTexts
        <4>3. rowsMessages' = back /\ rowsPersisted' = Len(back)
          BY <3>2 DEF Rows!Load
        <4> HIDE DEF d
        <4>4. DOMAIN d = 1..Len(d) /\ Len(d) \in Nat /\ \A i \in 1..Len(d) : d[i] \in RowTexts
          BY <4>2
        <4>5. \A i \in 1..Len(d) : back[i] \in RowMessages
          BY <4>4 DEF RowTexts, RowMessages
        <4>6. back \in Seq(RowMessages)
          BY <4>4, <4>5
        <4> HIDE DEF back
        <4> QED BY <4>3, <4>6
      <3> QED BY <1>12, <3>1, <3>2 DEF Rows!Resume
    <2> QED BY <1>0, <1>2, <2>1, <2>2 DEF RowsInv
  <1> QED BY <1>1, <1>4, <1>6, <1>7, <1>8, <1>9, <1>10, <1>11, <1>12 DEF Rows!Next

LEMMA RowsSound == RowsInv => Rows!RowsRoundTrip
  BY DEF RowsInv, RowsGood, RowGood, Rows!RowsRoundTrip

\* What a row of the table restores is the end of the dialogue it was written from,
\* and something of it whenever the dialogue ends in words (SessionAutoSave::save
\* and serializeMessages against deserializeMessages).
THEOREM RowsStayReadable == Rows!Spec => []RowsRoundTrip
  <1>1. UNCHANGED Rows!vars => UNCHANGED rowsVars
    BY DEF Rows!vars, rowsVars
  <1>2. RowsInv => RowsRoundTrip
    BY RowsSound DEF RowsRoundTrip
  <1>3. RowsInv /\ [Rows!Next]_(Rows!vars) => RowsInv'
    BY <1>1, RowsStep
  <1> QED BY <1>2, <1>3, RowsInit, PTL DEF Rows!Spec

-----------------------------------------------------------------------------
(* The vector index (RagIndex).                                            *)

RagHolds == {"row", "vector", "id", "rebuilding"}
RagSteps == {"idle", "searched"} \cup RagHolds

\* Who changes the index holds the lock, and while it is adding a chunk nobody else touches
\* the table: the id it will put down is that of the row it took the vector from.
RagInv ==
  /\ documents \in Seq(Int) /\ nextId \in Int /\ vectors \in Seq(Int) /\ idMap \in Seq(Int)
  /\ ragPc \in [RagThreads -> RagSteps]
  /\ \A t \in RagThreads : ragPc[t] \in RagHolds => ragLock = t
  /\ ~ragInitialized => \A t \in RagThreads : ragPc[t] = "idle"
  /\ \A t \in RagThreads : ragPc[t] \in {"vector", "id"} => documents # <<>>
  /\ \A t \in RagThreads : ragPc[t] = "id" => vectors = Append(idMap, documents[Len(documents)])
  /\ (\A t \in RagThreads : ragPc[t] # "id") => vectors = idMap

LEMMA RagInit == Rag!Init => RagInv
  BY DEF Rag!Init, RagInv, RagSteps, RagHolds

LEMMA RagStep == RagInv /\ [Rag!Next]_ragVars => RagInv'
  <1> SUFFICES ASSUME RagInv, [Rag!Next]_ragVars PROVE RagInv'
    OBVIOUS
  <1> USE DEF RagSteps, RagHolds
  <1>1. ASSUME UNCHANGED ragVars PROVE RagInv'
    BY <1>1 DEF RagInv, ragVars
  <1>2. ASSUME Rag!InitRag PROVE RagInv'
    BY <1>2 DEF RagInv, Rag!InitRag, Rag!LoadIndexFromDatabase, Rag!callVars
  <1>3. ASSUME Rag!Ends PROVE RagInv'
    BY <1>3 DEF RagInv, Rag!Ends
  <1>4. ASSUME NEW t \in RagThreads, Rag!AddDocument(t) PROVE RagInv'
    BY <1>4, RagAssumption DEF RagInv, Rag!AddDocument, Rag!At, Rag!indexVars
  <1>5. ASSUME NEW t \in RagThreads, Rag!AllAdded(t) PROVE RagInv'
    BY <1>5, RagAssumption DEF RagInv, Rag!AllAdded, Rag!Returns, Rag!indexVars
  <1>6. ASSUME NEW t \in RagThreads, Rag!InsertRow(t) PROVE RagInv'
    <2>1. /\ documents' = Append(documents, nextId) /\ nextId' = nextId + 1
          /\ ragPc[t] = "row" /\ ragPc' = [ragPc EXCEPT ![t] = "vector"]
          /\ vectors' = vectors /\ idMap' = idMap /\ ragLock' = ragLock
          /\ ragInitialized' = ragInitialized
      BY <1>6 DEF Rag!InsertRow, Rag!At
    <2>2. documents' \in Seq(Int) /\ documents' # <<>> /\ nextId' \in Int
      BY <2>1 DEF RagInv
    <2>3. \A u \in RagThreads : ragPc[u] # "id"
      BY <2>1 DEF RagInv
    <2> QED BY <2>1, <2>2, <2>3 DEF RagInv
  <1>7. ASSUME NEW t \in RagThreads, Rag!InsertFails(t) PROVE RagInv'
    BY <1>7, RagAssumption DEF RagInv, Rag!InsertFails, Rag!Returns, Rag!indexVars
  <1>8. ASSUME NEW t \in RagThreads, Rag!AddVector(t) PROVE RagInv'
    <2>1. /\ vectors' = Append(vectors, documents[Len(documents)])
          /\ ragPc[t] = "vector" /\ ragPc' = [ragPc EXCEPT ![t] = "id"]
          /\ documents' = documents /\ nextId' = nextId /\ idMap' = idMap
          /\ ragLock' = ragLock /\ ragInitialized' = ragInitialized
      BY <1>8 DEF Rag!AddVector, Rag!At, Rag!NewestRow
    <2>2. documents[Len(documents)] \in Int
      BY <2>1 DEF RagInv
    <2>3. vectors' \in Seq(Int)
      BY <2>1, <2>2 DEF RagInv
    <2>4. \A u \in RagThreads : ragPc[u] # "id"
      BY <2>1 DEF RagInv
    <2>5. vectors' = Append(idMap', documents'[Len(documents')])
      BY <2>1, <2>4 DEF RagInv
    <2> QED BY <2>1, <2>3, <2>4, <2>5 DEF RagInv
  <1>9. ASSUME NEW t \in RagThreads, Rag!AddThrows(t) PROVE RagInv'
    BY <1>9, RagAssumption DEF RagInv, Rag!AddThrows, Rag!Returns, Rag!indexVars
  <1>10. ASSUME NEW t \in RagThreads, Rag!MapId(t) PROVE RagInv'
    <2>1. /\ idMap' = Append(idMap, documents[Len(documents)])
          /\ ragPc[t] = "id" /\ ragPc' = [ragPc EXCEPT ![t] = "row"]
          /\ documents' = documents /\ nextId' = nextId /\ vectors' = vectors
          /\ ragLock' = ragLock /\ ragInitialized' = ragInitialized
      BY <1>10 DEF Rag!MapId, Rag!At, Rag!PushId, Rag!PushRowId, Rag!NewestRow
    <2>2. documents[Len(documents)] \in Int
      BY <2>1 DEF RagInv
    <2>3. idMap' \in Seq(Int)
      BY <2>1, <2>2 DEF RagInv
    <2>4. \A u \in RagThreads : ragPc'[u] # "id"
      BY <2>1 DEF RagInv
    <2>5. vectors' = idMap'
      BY <2>1 DEF RagInv
    <2> QED BY <2>1, <2>3, <2>4, <2>5 DEF RagInv
  <1>11. ASSUME NEW t \in RagThreads, Rag!Rebuild(t), documents' \in Seq(Int) PROVE RagInv'
    <2>1. /\ ragPc[t] = "idle" /\ ragPc' = [ragPc EXCEPT ![t] = "rebuilding"]
          /\ ragLock = RagNoOne /\ ragLock' = t /\ nextId' = nextId /\ vectors' = vectors
          /\ idMap' = idMap /\ ragInitialized /\ ragInitialized' = ragInitialized
      BY <1>11 DEF Rag!Rebuild, Rag!At
    <2>2. \A u \in RagThreads : ragPc[u] \notin RagHolds
      BY <2>1, RagAssumption DEF RagInv
    <2>3. \A u \in RagThreads : ragPc'[u] \notin {"row", "vector", "id"}
      BY <2>1, <2>2 DEF RagInv
    <2>4. vectors = idMap
      BY <2>2 DEF RagInv
    <2>5. \A u \in RagThreads : ragPc'[u] \in RagHolds => ragLock' = u
      BY <2>1, <2>2 DEF RagInv
    <2>6. ragPc' \in [RagThreads -> RagSteps]
      BY <2>1 DEF RagInv
    <2>7. /\ documents' \in Seq(Int) /\ nextId' \in Int /\ vectors' \in Seq(Int)
          /\ idMap' \in Seq(Int)
      BY <1>11, <2>1 DEF RagInv
    <2>8. ragInitialized'
      BY <2>1
    <2>9. /\ \A u \in RagThreads : ragPc'[u] \in {"vector", "id"} => documents' # <<>>
          /\ \A u \in RagThreads : ragPc'[u] = "id" => vectors' = Append(idMap', documents'[Len(documents')])
      BY <2>3
    <2>10. vectors' = idMap'
      BY <2>1, <2>4
    <2> QED BY <2>5, <2>6, <2>7, <2>8, <2>9, <2>10 DEF RagInv
  <1>12. ASSUME NEW t \in RagThreads, Rag!DeleteDocument(t) PROVE RagInv'
    <2>1. Rag!Rebuild(t)
      BY <1>12 DEF Rag!DeleteDocument
    <2>2. PICK i \in DOMAIN documents :
            documents' = SubSeq(documents, 1, i - 1) \o SubSeq(documents, i + 1, Len(documents))
      BY <1>12 DEF Rag!DeleteDocument
    <2>3. documents \in Seq(Int)
      BY DEF RagInv
    <2>4. SubSeq(documents, 1, i - 1) \in Seq(Int)
          /\ SubSeq(documents, i + 1, Len(documents)) \in Seq(Int)
      BY <2>3
    <2>5. documents' \in Seq(Int)
      BY <2>2, <2>4, ConcatProperties
    <2> QED BY <2>1, <2>5, <1>11
  <1>13. ASSUME NEW t \in RagThreads, Rag!Clear(t) PROVE RagInv'
    BY <1>11, <1>13 DEF Rag!Clear
  <1>14. ASSUME NEW t \in RagThreads, Rag!SearchIndex(t) PROVE RagInv'
    BY <1>14 DEF RagInv, Rag!SearchIndex, Rag!At, Rag!indexVars
  <1>15. ASSUME NEW t \in RagThreads, Rag!ReadIdMap(t) PROVE RagInv'
    BY <1>15 DEF RagInv, Rag!ReadIdMap, Rag!At, Rag!indexVars
  <1> QED BY <1>1, <1>2, <1>3, <1>4, <1>5, <1>6, <1>7, <1>8, <1>9, <1>10, <1>12, <1>13,
             <1>14, <1>15 DEF Rag!Next

LEMMA RagSound == RagInv => Rag!VectorsFindTheirRows
  <1> SUFFICES ASSUME RagInv PROVE Rag!VectorsFindTheirRows
    OBVIOUS
  <1>1. idMap \in Seq(Int) /\ vectors \in Seq(Int)
    BY DEF RagInv
  <1>2. CASE \E t \in RagThreads : ragPc[t] = "id"
    <2>1. PICK x : x = documents[Len(documents)]
      OBVIOUS
    <2>2. vectors = Append(idMap, x)
      BY <1>2, <2>1 DEF RagInv
    <2>3. Len(vectors) = Len(idMap) + 1 /\ Len(idMap) \in Nat
          /\ \A i \in 1..Len(idMap) : vectors[i] = idMap[i]
      BY <1>1, <2>2
    <2>4. PICK p : p = SubSeq(vectors, 1, Len(idMap))
      OBVIOUS
    <2>5. p \in Seq(Int) /\ Len(p) = Len(idMap) /\ \A i \in 1..Len(idMap) : p[i] = vectors[i]
      BY <1>1, <2>3, <2>4
    <2>6. p = idMap
      BY <1>1, <2>3, <2>5, SeqEqual
    <2> QED BY <1>2, <2>3, <2>4, <2>6 DEF Rag!VectorsFindTheirRows
  <1>3. CASE \A t \in RagThreads : ragPc[t] # "id"
    <2>1. vectors = idMap
      BY <1>3 DEF RagInv
    <2>2. SubSeq(vectors, 1, Len(idMap)) = idMap
      BY <1>1, <2>1
    <2> QED BY <1>1, <2>1, <2>2 DEF Rag!VectorsFindTheirRows
  <1> QED BY <1>2, <1>3

\* A search answers a vector with the row the vector was computed from, whatever
\* other threads add and rebuild (RAGManager's mutex around the index and idMap).
THEOREM VectorsStayWithTheirRows == Rag!Spec => []VectorsFindTheirRows
  <1>1. UNCHANGED Rag!ragVars => UNCHANGED ragVars
    BY DEF Rag!ragVars, Rag!indexVars, Rag!callVars, ragVars
  <1>2. RagInv => VectorsFindTheirRows
    BY RagSound DEF VectorsFindTheirRows
  <1>3. RagInv /\ [Rag!Next]_(Rag!ragVars) => RagInv'
    BY <1>1, RagStep
  <1> QED BY <1>2, <1>3, RagInit, PTL DEF Rag!Spec

-----------------------------------------------------------------------------
(* The settings (Startup).                                                 *)

LEMMA FirstLine ==
    ASSUME NEW N, N \subseteq Nat, N # {}
    PROVE  Settings!Min(N) \in N /\ \A j \in N : Settings!Min(N) <= j
  <1>1. PICK i \in N : \A j \in N : ~(j < i)
    BY LeastOf
  <1>2. \A j \in N : i <= j
    BY <1>1
  <1> QED BY <1>2 DEF Settings!Min

LEMMA FirstLineIs ==
    ASSUME NEW N, N \subseteq Nat, NEW m \in N, \A j \in N : m <= j
    PROVE  Settings!Min(N) = m
  <1>1. Settings!Min(N) \in N /\ \A j \in N : Settings!Min(N) <= j
    BY FirstLine
  <1>2. Settings!Min(N) <= m /\ m <= Settings!Min(N)
    BY <1>1
  <1>3. m \in Nat /\ Settings!Min(N) \in Nat
    BY <1>1
  <1> QED BY <1>2, <1>3

\* A file is a list of lines, of which only the structure is looked at.
Line == [indented : BOOLEAN, key : {"#", "provider", "api", "base_url", "model", "llm"},
         value : Values \cup {NoValue}]

\* The value of a setting is that of its first line.
Has(lines, s) == Settings!LinesOf(lines, s) # {}
ValueOf(lines, s) ==
  IF Has(lines, s) THEN lines[Settings!Min(Settings!LinesOf(lines, s))].value ELSE NoValue

LEMMA ValueAt ==
    ASSUME NEW lines, NEW s, NEW m \in Settings!LinesOf(lines, s),
           Settings!LinesOf(lines, s) \subseteq Nat, \A j \in Settings!LinesOf(lines, s) : m <= j
    PROVE  ValueOf(lines, s) = lines[m].value
  <1>1. Settings!Min(Settings!LinesOf(lines, s)) = m
    BY FirstLineIs
  <1> QED BY <1>1 DEF ValueOf, Has

IsAt(lines, s, i) ==
  IF s = "model" THEN lines[i].key = s /\ lines[i].indented /\ Settings!InApi(lines, i)
  ELSE lines[i].key = s /\ ~lines[i].indented

LEMMA LinesAre ==
    ASSUME NEW lines \in Seq(Line), NEW s
    PROVE  /\ Settings!LinesOf(lines, s) = {i \in 1..Len(lines) : IsAt(lines, s, i)}
           /\ Settings!LinesOf(lines, s) \subseteq Nat
  <1>1. DOMAIN lines = 1..Len(lines) /\ Len(lines) \in Nat
    OBVIOUS
  <1>2. Settings!LinesOf(lines, s) = {i \in 1..Len(lines) : IsAt(lines, s, i)}
    BY <1>1, Zenon DEF Settings!LinesOf, IsAt
  <1>3. 1..Len(lines) \subseteq Nat
    BY <1>1
  <1> QED BY <1>2, <1>3

\* Whether a line is in the block depends on the lines up to it.
LEMMA InApiAlike ==
    ASSUME NEW old, NEW new, NEW i \in Nat,
           \A k \in 1..i : new[k].key = old[k].key /\ new[k].indented = old[k].indented
    PROVE  Settings!InApi(old, i) <=> Settings!InApi(new, i)
  <1>1. ASSUME NEW x, NEW y, Settings!InApi(x, i),
               \A k \in 1..i : y[k].key = x[k].key /\ y[k].indented = x[k].indented
        PROVE  Settings!InApi(y, i)
    <2>1. PICK a \in 1..(i - 1) :
            /\ x[a].key = "api" /\ ~x[a].indented
            /\ \A k \in (a + 1)..i : x[k].indented \/ x[k].key = "#"
      BY <1>1 DEF Settings!InApi
    <2>2. a \in 1..i /\ \A k \in (a + 1)..i : k \in 1..i
      OBVIOUS
    <2>3. /\ y[a].key = "api" /\ ~y[a].indented
          /\ \A k \in (a + 1)..i : y[k].indented \/ y[k].key = "#"
      BY <1>1, <2>1, <2>2
    <2> QED BY <2>3 DEF Settings!InApi
  <1>2. \A k \in 1..i : old[k].key = new[k].key /\ old[k].indented = new[k].indented
    OBVIOUS
  <1>3. Settings!InApi(old, i) => Settings!InApi(new, i)
    BY <1>1
  <1>4. Settings!InApi(new, i) => Settings!InApi(old, i)
    BY <1>1, <1>2
  <1> QED BY <1>3, <1>4

LEMMA IsAtAlike ==
    ASSUME NEW old, NEW new, NEW s, NEW i \in Nat \ {0},
           \A k \in 1..i : new[k].key = old[k].key /\ new[k].indented = old[k].indented
    PROVE  IsAt(old, s, i) <=> IsAt(new, s, i)
  <1>1. Settings!InApi(old, i) <=> Settings!InApi(new, i)
    BY InApiAlike
  <1>2. i \in 1..i
    OBVIOUS
  <1> QED BY <1>1, <1>2 DEF IsAt

\* The line of a setting, as it is written.
NewLine(s, v) == [indented |-> (s = "model"), key |-> s, value |-> v]

\* Case 1 of the edit: the setting has a line, and that line takes the value.
LEMMA ValueReplaced ==
    ASSUME NEW lines \in Seq(Line), NEW s \in Settings!Setting, NEW v \in Values, Has(lines, s)
    PROVE  LET new == [lines EXCEPT ![Settings!Min(Settings!LinesOf(lines, s))] = NewLine(s, v)]
           IN  /\ new \in Seq(Line) /\ ValueOf(new, s) = v
               /\ \A r \in Settings!Setting \ {s} : ValueOf(new, r) = ValueOf(lines, r)
  <1> DEFINE m == Settings!Min(Settings!LinesOf(lines, s))
             new == [lines EXCEPT ![m] = NewLine(s, v)]
  <1>1. m \in Settings!LinesOf(lines, s) /\ \A j \in Settings!LinesOf(lines, s) : m <= j
    BY LinesAre, FirstLine DEF Has
  <1>2. m \in 1..Len(lines) /\ IsAt(lines, s, m) /\ Len(lines) \in Nat
    BY <1>1, LinesAre
  <1> HIDE DEF m
  <1>3. NewLine(s, v) \in Line
    BY DEF NewLine, Line, Settings!Setting
  <1>4. /\ new \in Seq(Line) /\ Len(new) = Len(lines) /\ new[m] = NewLine(s, v)
        /\ \A k \in 1..Len(lines) : k # m => new[k] = lines[k]
    BY <1>2, <1>3
  <1> HIDE DEF new
  <1>5. \A k \in 1..Len(lines) : new[k].key = lines[k].key /\ new[k].indented = lines[k].indented
    <2>1. lines[m].key = s /\ lines[m].indented = (s = "model") /\ lines[m].indented \in BOOLEAN
      <3>1. lines[m] \in Line
        BY <1>2
      <3>2. lines[m].indented \in BOOLEAN
        BY <3>1 DEF Line
      <3>3. s = "model" => lines[m].indented
        BY <1>2 DEF IsAt
      <3>4. s # "model" => ~lines[m].indented
        BY <1>2 DEF IsAt
      <3> QED BY <1>2, <3>2, <3>3, <3>4 DEF IsAt
    <2>2. NewLine(s, v).key = s /\ NewLine(s, v).indented = (s = "model")
      BY DEF NewLine
    <2> QED BY <1>4, <2>1, <2>2
  <1>6. \A r \in Settings!Setting : Settings!LinesOf(new, r) = Settings!LinesOf(lines, r)
    <2> TAKE r \in Settings!Setting
    <2>1. \A i \in 1..Len(lines) : IsAt(lines, r, i) <=> IsAt(new, r, i)
      <3> TAKE i \in 1..Len(lines)
      <3>1. i \in Nat \ {0} /\ \A k \in 1..i : k \in 1..Len(lines)
        BY <1>2
      <3>2. \A k \in 1..i : new[k].key = lines[k].key /\ new[k].indented = lines[k].indented
        BY <1>5, <3>1
      <3> QED BY <3>1, <3>2, IsAtAlike
    <2> QED BY <1>4, <2>1, LinesAre
  <1>7. ValueOf(new, s) = v
    <2>1. ValueOf(new, s) = new[m].value
      BY <1>6 DEF ValueOf, Has, m
    <2> QED BY <1>4, <2>1 DEF NewLine
  <1>8. ASSUME NEW r \in Settings!Setting \ {s} PROVE ValueOf(new, r) = ValueOf(lines, r)
    <2>1. CASE Has(lines, r)
      <3> DEFINE n == Settings!Min(Settings!LinesOf(lines, r))
      <3>1. n \in Settings!LinesOf(lines, r)
        BY <2>1, LinesAre, FirstLine DEF Has
      <3>2. n \in 1..Len(lines) /\ lines[n].key = r
        BY <3>1, LinesAre DEF IsAt
      <3>3. n # m
        BY <1>2, <3>2 DEF IsAt
      <3>4. new[n] = lines[n]
        BY <1>4, <3>2, <3>3
      <3> QED BY <1>6, <2>1, <3>4 DEF ValueOf, Has
    <2>2. CASE ~Has(lines, r)
      BY <1>6, <2>2 DEF ValueOf, Has
    <2> QED BY <2>1, <2>2
  <1> QED BY <1>4, <1>7, <1>8 DEF new, m

\* The new list begins with the old one: a setting that has no line further back keeps its value.
LEMMA ValueBefore ==
    ASSUME NEW old \in Seq(Line), NEW new \in Seq(Line), Len(old) <= Len(new),
           \A k \in 1..Len(old) : new[k] = old[k], NEW r,
           \A k \in (Len(old) + 1)..Len(new) : ~IsAt(new, r, k)
    PROVE  ValueOf(new, r) = ValueOf(old, r)
  <1>1. Len(old) \in Nat /\ Len(new) \in Nat
    OBVIOUS
  <1>2. \A i \in 1..Len(old) : IsAt(old, r, i) <=> IsAt(new, r, i)
    <2> TAKE i \in 1..Len(old)
    <2>1. i \in Nat \ {0} /\ \A k \in 1..i : k \in 1..Len(old)
      BY <1>1
    <2> QED BY <2>1, IsAtAlike
  <1>3. Settings!LinesOf(new, r) = Settings!LinesOf(old, r)
    <2>1. Settings!LinesOf(old, r) = {i \in 1..Len(old) : IsAt(old, r, i)}
      BY LinesAre
    <2>2. Settings!LinesOf(new, r) = {i \in 1..Len(new) : IsAt(new, r, i)}
      BY LinesAre
    <2>3. ASSUME NEW i PROVE i \in 1..Len(new) /\ IsAt(new, r, i) <=> i \in 1..Len(old) /\ IsAt(old, r, i)
      <3>1. i \in 1..Len(old) => i \in 1..Len(new)
        BY <1>1
      <3>2. i \in 1..Len(new) => i \in 1..Len(old) \/ i \in (Len(old) + 1)..Len(new)
        BY <1>1
      <3> QED BY <1>2, <3>1, <3>2
    <2> QED BY <2>1, <2>2, <2>3
  <1>4. CASE Has(old, r)
    <2>1. Settings!Min(Settings!LinesOf(old, r)) \in 1..Len(old)
      BY <1>4, LinesAre, FirstLine DEF Has
    <2> QED BY <1>3, <2>1 DEF ValueOf, Has
  <1>5. CASE ~Has(old, r)
    BY <1>3, <1>5 DEF ValueOf, Has
  <1> QED BY <1>4, <1>5

\* Case 2: no line of its own, and a top-level key goes to the end.
LEMMA ValueAppended ==
    ASSUME NEW lines \in Seq(Line), NEW v \in Values, ~Has(lines, "provider")
    PROVE  LET new == Append(lines, NewLine("provider", v))
           IN  /\ new \in Seq(Line) /\ ValueOf(new, "provider") = v
               /\ ValueOf(new, "model") = ValueOf(lines, "model")
  <1> DEFINE n == Len(lines)
             new == Append(lines, NewLine("provider", v))
  <1>1. NewLine("provider", v) \in Line /\ NewLine("provider", v).key = "provider"
        /\ ~NewLine("provider", v).indented /\ NewLine("provider", v).value = v
    BY DEF NewLine, Line
  <1>2. /\ n \in Nat /\ new \in Seq(Line) /\ Len(new) = n + 1
        /\ new[n + 1] = NewLine("provider", v)
        /\ \A k \in 1..n : new[k] = lines[k]
    BY <1>1
  <1> HIDE DEF new
  <1>3. ASSUME NEW k \in (n + 1)..Len(new) PROVE ~IsAt(new, "model", k)
    <2>1. k = n + 1
      BY <1>2
    <2> QED BY <1>1, <1>2, <2>1 DEF IsAt
  <1>4. ValueOf(new, "model") = ValueOf(lines, "model")
    BY <1>2, <1>3, ValueBefore
  <1>5. Settings!LinesOf(new, "provider") = {n + 1}
    <2>1. Settings!LinesOf(new, "provider") = {i \in 1..(n + 1) : IsAt(new, "provider", i)}
      BY <1>2, LinesAre
    <2>2. IsAt(new, "provider", n + 1)
      BY <1>1, <1>2 DEF IsAt
    <2>3. \A i \in 1..n : ~IsAt(new, "provider", i)
      <3>1. \A i \in 1..n : ~IsAt(lines, "provider", i)
        BY LinesAre DEF Has
      <3> QED BY <3>1, <1>2 DEF IsAt
    <2> QED BY <2>1, <2>2, <2>3, <1>2
  <1>6. ValueOf(new, "provider") = v
    <2>1. ValueOf(new, "provider") = new[n + 1].value
      BY <1>2, <1>5, ValueAt
    <2> QED BY <1>1, <1>2, <2>1
  <1> QED BY <1>2, <1>4, <1>6 DEF new

\* Case 3: no block, and the block goes to the end with its line.
LEMMA BlockAppended ==
    ASSUME NEW lines \in Seq(Line), NEW v \in Values, Settings!ApiLines(lines) = {}
    PROVE  LET new == lines \o <<[indented |-> FALSE, key |-> "api", value |-> NoValue],
                                 NewLine("model", v)>>
           IN  /\ new \in Seq(Line) /\ ValueOf(new, "model") = v
               /\ ValueOf(new, "provider") = ValueOf(lines, "provider")
  <1> DEFINE n == Len(lines)
             api == [indented |-> FALSE, key |-> "api", value |-> NoValue]
             its == NewLine("model", v)
             two == <<api, its>>
             new == lines \o two
  <1>1. /\ api \in Line /\ api.key = "api" /\ ~api.indented
        /\ its \in Line /\ its.key = "model" /\ its.indented /\ its.value = v
    BY DEF NewLine, Line
  <1> HIDE DEF api, its
  <1>2. two \in Seq(Line) /\ Len(two) = 2 /\ two[1] = api /\ two[2] = its
    BY <1>1
  <1> HIDE DEF two
  <1>3. /\ n \in Nat /\ new \in Seq(Line) /\ Len(new) = n + 2
        /\ \A k \in 1..(n + 2) : new[k] = IF k <= n THEN lines[k] ELSE two[k - n]
    <2>1. n \in Nat
      OBVIOUS
    <2>2. /\ new \in Seq(Line) /\ Len(new) = Len(lines) + Len(two)
          /\ \A k \in 1..(Len(lines) + Len(two)) :
               new[k] = IF k <= Len(lines) THEN lines[k] ELSE two[k - Len(lines)]
      BY <1>2, ConcatProperties
    <2> QED BY <1>2, <2>1, <2>2
  <1> HIDE DEF new
  <1>4. (\A k \in 1..n : new[k] = lines[k]) /\ new[n + 1] = api /\ new[n + 2] = its
    <2>1. \A k \in 1..n : k \in 1..(n + 2) /\ k <= n
      BY <1>3
    <2>2. n + 1 \in 1..(n + 2) /\ ~(n + 1 <= n) /\ (n + 1) - n = 1
      BY <1>3
    <2>3. n + 2 \in 1..(n + 2) /\ ~(n + 2 <= n) /\ (n + 2) - n = 2
      BY <1>3
    <2> QED BY <1>2, <1>3, <2>1, <2>2, <2>3
  <1>5. ASSUME NEW k \in (n + 1)..Len(new) PROVE ~IsAt(new, "provider", k)
    <2>1. k = n + 1 \/ k = n + 2
      BY <1>3
    <2> QED BY <1>1, <1>4, <2>1 DEF IsAt
  <1>6. ValueOf(new, "provider") = ValueOf(lines, "provider")
    BY <1>3, <1>4, <1>5, ValueBefore
  <1>7. IsAt(new, "model", n + 2)
    <2>1. n + 1 \in 1..((n + 2) - 1) /\ \A k \in ((n + 1) + 1)..(n + 2) : k = n + 2
      BY <1>3
    <2>2. Settings!InApi(new, n + 2)
      BY <1>1, <1>4, <2>1 DEF Settings!InApi
    <2> QED BY <1>1, <1>4, <2>2 DEF IsAt
  <1>8. ASSUME NEW i \in 1..(n + 1) PROVE ~IsAt(new, "model", i)
    <2> SUFFICES ASSUME IsAt(new, "model", i) PROVE FALSE
      OBVIOUS
    <2>1. PICK a \in 1..(i - 1) : new[a].key = "api" /\ ~new[a].indented
      BY DEF IsAt, Settings!InApi
    <2>2. a \in 1..n
      BY <1>3
    <2>3. a \in Settings!ApiLines(lines)
      BY <1>4, <2>1, <2>2 DEF Settings!ApiLines
    <2> QED BY <2>3
  <1>9. Settings!LinesOf(new, "model") = {n + 2}
    <2>1. Settings!LinesOf(new, "model") = {i \in 1..(n + 2) : IsAt(new, "model", i)}
      BY <1>3, LinesAre
    <2>2. \A i \in 1..(n + 2) : i = n + 2 \/ i \in 1..(n + 1)
      BY <1>3
    <2>3. n + 2 \in 1..(n + 2)
      BY <1>3
    <2> QED BY <1>7, <1>8, <2>1, <2>2, <2>3
  <1>10. ValueOf(new, "model") = v
    <2>0. /\ n + 2 \in Settings!LinesOf(new, "model")
          /\ Settings!LinesOf(new, "model") \subseteq Nat
          /\ \A j \in Settings!LinesOf(new, "model") : n + 2 <= j
      BY <1>3, <1>9
    <2>1. ValueOf(new, "model") = new[n + 2].value
      BY <2>0, ValueAt
    <2> QED BY <1>1, <1>4, <2>1
  <1> QED BY <1>3, <1>6, <1>10 DEF new, two, its, api

\* Case 4: the block is there, and the line goes first in it.
LEMMA ValueInserted ==
    ASSUME NEW lines \in Seq(Line), NEW v \in Values, Settings!ApiLines(lines) # {}
    PROVE  LET api == Settings!Min(Settings!ApiLines(lines))
               new == Append(SubSeq(lines, 1, api), NewLine("model", v))
                        \o SubSeq(lines, api + 1, Len(lines))
           IN  /\ new \in Seq(Line) /\ ValueOf(new, "model") = v
               /\ ValueOf(new, "provider") = ValueOf(lines, "provider")
  <1> DEFINE n == Len(lines)
             m == Settings!Min(Settings!ApiLines(lines))
             its == NewLine("model", v)
             a == SubSeq(lines, 1, m)
             b == SubSeq(lines, m + 1, n)
             new == Append(a, its) \o b
  <1>1. n \in Nat /\ DOMAIN lines = 1..n /\ \A i \in 1..n : lines[i] \in Line
    OBVIOUS
  <1>2. m \in Settings!ApiLines(lines) /\ \A j \in Settings!ApiLines(lines) : m <= j
    <2>1. Settings!ApiLines(lines) \subseteq Nat
      BY <1>1 DEF Settings!ApiLines
    <2> QED BY <2>1, FirstLine
  <1>3. m \in 1..n /\ lines[m].key = "api" /\ ~lines[m].indented
    BY <1>1, <1>2 DEF Settings!ApiLines
  <1> HIDE DEF m
  <1>4. its \in Line /\ its.key = "model" /\ its.indented /\ its.value = v
    BY DEF NewLine, Line
  <1> HIDE DEF its
  <1>5. a \in Seq(Line) /\ Len(a) = m /\ \A i \in 1..m : a[i] = lines[i]
    <2>1. \A i \in 1..m : lines[i] \in Line
      BY <1>1, <1>3
    <2> QED BY <1>1, <1>3, <2>1
  <1>6. b \in Seq(Line) /\ Len(b) = n - m /\ \A i \in 1..(n - m) : b[i] = lines[m + i]
    <2>0. PICK f : f = m + 1
      OBVIOUS
    <2>1. f \in 1..(n + 1) /\ n \in f - 1..n /\ n - f + 1 = n - m
      BY <1>1, <1>3, <2>0
    <2>2. \A i \in f..n : lines[i] \in Line
      BY <1>1, <2>1
    <2>3. SubSeq(lines, f, n) \in Seq(Line) /\ Len(SubSeq(lines, f, n)) = n - m
          /\ \A i \in 1..(n - m) : SubSeq(lines, f, n)[i] = lines[f + i - 1]
      BY <1>1, <2>1, <2>2
    <2>4. \A i \in 1..(n - m) : f + i - 1 = m + i
      BY <1>1, <1>3, <2>0
    <2> QED BY <2>0, <2>3, <2>4
  <1> HIDE DEF a, b, n
  <1>7. PICK c : c = Append(a, its)
    OBVIOUS
  <1>8. c \in Seq(Line) /\ Len(c) = m + 1 /\ c[m + 1] = its /\ \A i \in 1..m : c[i] = lines[i]
    BY <1>4, <1>5, <1>7
  <1>9. /\ new \in Seq(Line) /\ Len(new) = Len(c) + Len(b)
        /\ \A i \in 1..(Len(c) + Len(b)) : new[i] = IF i <= Len(c) THEN c[i] ELSE b[i - Len(c)]
    <2>1. new = c \o b
      BY <1>7
    <2> HIDE DEF new
    <2> QED BY <1>6, <1>8, <2>1, ConcatProperties
  <1> HIDE DEF new
  <1>10. m \in Nat /\ n - m \in Nat /\ Len(c) + Len(b) = n + 1
    BY <1>1, <1>3, <1>6, <1>8
  <1>11. /\ \A i \in 1..m : new[i] = lines[i]
         /\ new[m + 1] = its
         /\ \A i \in (m + 1)..n : new[i + 1] = lines[i]
    <2>1. \A i \in 1..(m + 1) : i \in 1..(n + 1) /\ i <= Len(c)
      BY <1>3, <1>8, <1>10
    <2>2. \A i \in 1..(m + 1) : new[i] = c[i]
      BY <1>9, <1>10, <2>1
    <2>3. ASSUME NEW i \in (m + 1)..n PROVE new[i + 1] = lines[i]
      <3>1. i + 1 \in 1..(n + 1) /\ ~(i + 1 <= m + 1) /\ (i + 1) - (m + 1) = i - m
            /\ i - m \in 1..(n - m) /\ m + (i - m) = i
        BY <1>1, <1>3, <1>10
      <3> QED BY <1>6, <1>8, <1>9, <1>10, <3>1
    <2> QED BY <1>8, <1>10, <2>2, <2>3
  <1>12. IsAt(new, "model", m + 1)
    <2>1. m \in 1..((m + 1) - 1) /\ \A k \in (m + 1)..(m + 1) : k = m + 1
      BY <1>3, <1>10
    <2>2. new[m].key = "api" /\ ~new[m].indented
      BY <1>3, <1>10, <1>11
    <2>3. Settings!InApi(new, m + 1)
      BY <1>4, <1>11, <2>1, <2>2 DEF Settings!InApi
    <2> QED BY <1>4, <1>11, <2>3 DEF IsAt
  <1>13. ASSUME NEW i \in 1..m PROVE ~IsAt(new, "model", i)
    <2> SUFFICES ASSUME IsAt(new, "model", i) PROVE FALSE
      OBVIOUS
    <2>1. PICK x \in 1..(i - 1) : new[x].key = "api" /\ ~new[x].indented
      BY DEF IsAt, Settings!InApi
    <2>2. x \in 1..m /\ x \in 1..n /\ x < m
      BY <1>1, <1>3
    <2>3. x \in Settings!ApiLines(lines)
      BY <1>1, <1>11, <2>1, <2>2 DEF Settings!ApiLines
    <2> QED BY <1>2, <1>10, <2>2, <2>3
  <1>14. ValueOf(new, "model") = v
    <2>1. Len(new) = n + 1
      BY <1>9, <1>10
    <2>2. Settings!LinesOf(new, "model") = {i \in 1..(n + 1) : IsAt(new, "model", i)}
          /\ Settings!LinesOf(new, "model") \subseteq Nat
      BY <1>9, <2>1, LinesAre
    <2>3. m + 1 \in Settings!LinesOf(new, "model")
      BY <1>3, <1>1, <1>12, <2>2
    <2>4. \A j \in Settings!LinesOf(new, "model") : m + 1 <= j
      BY <1>10, <1>13, <2>2
    <2>5. ValueOf(new, "model") = new[m + 1].value
      BY <2>2, <2>3, <2>4, ValueAt
    <2> QED BY <1>4, <1>11, <2>5
  \* The other setting's lines after the block's beginning move by one.
  <1>15. ValueOf(new, "provider") = ValueOf(lines, "provider")
    <2> DEFINE old == Settings!LinesOf(lines, "provider")
               shifted == Settings!LinesOf(new, "provider")
    <2>1. old = {i \in 1..n : IsAt(lines, "provider", i)} /\ old \subseteq Nat
      BY LinesAre DEF n
    <2>2. shifted = {i \in 1..(n + 1) : IsAt(new, "provider", i)} /\ shifted \subseteq Nat
      BY <1>9, <1>10, LinesAre
    <2>3. \A i \in 1..m : i \in old <=> i \in shifted
      <3> TAKE i \in 1..m
      <3>1. i \in 1..n /\ i \in 1..(n + 1)
        BY <1>1, <1>3, <1>10
      <3>2. new[i] = lines[i]
        BY <1>11
      <3>3. IsAt(lines, "provider", i) <=> IsAt(new, "provider", i)
        BY <3>2 DEF IsAt
      <3> QED BY <2>1, <2>2, <3>1, <3>3
    <2>4. m + 1 \notin shifted
      BY <1>4, <1>11, <2>2 DEF IsAt
    <2>5. \A i \in (m + 1)..n : i \in old <=> i + 1 \in shifted
      <3> TAKE i \in (m + 1)..n
      <3>1. i \in 1..n /\ i + 1 \in 1..(n + 1)
        BY <1>1, <1>3, <1>10
      <3>2. new[i + 1] = lines[i]
        BY <1>11
      <3>3. IsAt(lines, "provider", i) <=> IsAt(new, "provider", i + 1)
        BY <3>2 DEF IsAt
      <3> QED BY <2>1, <2>2, <3>1, <3>3
    <2>6. \A j \in shifted : j \in 1..m \/ j - 1 \in (m + 1)..n
      BY <1>1, <1>3, <1>10, <2>2, <2>4
    <2> HIDE DEF old, shifted
    <2>7. CASE old = {}
      <3>1. shifted = {}
        <4> SUFFICES ASSUME NEW j \in shifted PROVE FALSE
          OBVIOUS
        <4>1. j \in Nat /\ (j - 1) + 1 = j
          BY <2>2
        <4> QED BY <2>3, <2>5, <2>6, <2>7, <4>1
      <3> QED BY <2>7, <3>1 DEF ValueOf, Has, old, shifted
    <2>8. CASE old # {}
      <3>0. Settings!Min(old) \in old /\ \A j \in old : Settings!Min(old) <= j
        BY <2>1, <2>8, FirstLine
      <3>1. PICK f : f \in old /\ f = Settings!Min(old) /\ \A j \in old : f <= j
        BY <3>0
      <3>2. ValueOf(lines, "provider") = lines[f].value
        BY <2>8, <3>1 DEF ValueOf, Has, old
      <3>3. CASE f <= m
        <4>1. f \in 1..m /\ f \in shifted
          BY <2>1, <2>3, <3>1, <3>3, <1>10
        <4>2. ASSUME NEW j \in shifted PROVE f <= j
          <5>1. CASE j \in 1..m
            BY <2>3, <3>1, <5>1
          <5>2. CASE j - 1 \in (m + 1)..n
            BY <2>2, <3>3, <5>2, <1>10, <4>1
          <5> QED BY <2>6, <5>1, <5>2
        <4>3. ValueOf(new, "provider") = new[f].value
          BY <2>2, <4>1, <4>2, ValueAt DEF shifted
        <4> QED BY <1>11, <3>2, <4>1, <4>3
      <3>4. CASE ~(f <= m)
        <4>1. f \in (m + 1)..n /\ f + 1 \in shifted /\ f \in Nat
          BY <2>1, <2>5, <3>1, <3>4, <1>10, <1>1
        <4>2. ASSUME NEW j \in shifted PROVE f + 1 <= j
          <5>1. CASE j \in 1..m
            BY <2>3, <3>1, <3>4, <5>1, <1>10, <4>1
          <5>2. CASE j - 1 \in (m + 1)..n
            <6>1. j \in Nat /\ (j - 1) + 1 = j
              BY <2>2
            <6>2. j - 1 \in old
              BY <2>5, <5>2, <6>1
            <6> QED BY <3>1, <4>1, <6>1, <6>2
          <5> QED BY <2>6, <5>1, <5>2
        <4>3. ValueOf(new, "provider") = new[f + 1].value
          BY <2>2, <4>1, <4>2, ValueAt DEF shifted
        <4> QED BY <1>11, <3>2, <4>1, <4>3
      <3> QED BY <3>3, <3>4
    <2> QED BY <2>7, <2>8
  <1> QED BY <1>9, <1>14, <1>15 DEF new, a, b, its, n, m

\* An edit of one setting gives it the value and leaves the other.
LEMMA WritesItsLine ==
    ASSUME NEW lines \in Seq(Line), NEW s \in Settings!Setting, NEW v \in Values
    PROVE  LET new == Settings!WriteYamlValue(lines, s, v)
           IN  /\ new \in Seq(Line) /\ ValueOf(new, s) = v
               /\ \A r \in Settings!Setting \ {s} : ValueOf(new, r) = ValueOf(lines, r)
  <1> DEFINE new == Settings!WriteYamlValue(lines, s, v)
  <1>1. Settings!L(s = "model", s, v) = NewLine(s, v)
    BY DEF Settings!L, NewLine
  <1>2. s = "provider" \/ s = "model"
    BY DEF Settings!Setting
  <1>3. CASE Has(lines, s)
    <2> DEFINE its == [lines EXCEPT ![Settings!Min(Settings!LinesOf(lines, s))] = NewLine(s, v)]
    <2>1. new = its
      BY <1>1, <1>3 DEF Settings!WriteYamlValue, Settings!WithLine, Has
    <2>2. /\ its \in Seq(Line) /\ ValueOf(its, s) = v
          /\ \A r \in Settings!Setting \ {s} : ValueOf(its, r) = ValueOf(lines, r)
      BY <1>3, ValueReplaced
    <2> HIDE DEF new, its
    <2>3. /\ new \in Seq(Line) /\ ValueOf(new, s) = v
          /\ \A r \in Settings!Setting \ {s} : ValueOf(new, r) = ValueOf(lines, r)
      BY <2>1, <2>2
    <2> QED BY <2>3 DEF new
  <1>4. CASE ~Has(lines, s) /\ s = "provider"
    <2>1. new = Append(lines, NewLine("provider", v))
      BY <1>1, <1>4 DEF Settings!WriteYamlValue, Settings!WithLine, Has
    <2> HIDE DEF new
    <2>2. new \in Seq(Line) /\ ValueOf(new, "provider") = v
          /\ ValueOf(new, "model") = ValueOf(lines, "model")
      BY <1>4, <2>1, ValueAppended
    <2>3. \A r \in Settings!Setting \ {s} : r = "model"
      BY <1>4 DEF Settings!Setting
    <2>4. new \in Seq(Line) /\ ValueOf(new, s) = v
          /\ \A r \in Settings!Setting \ {s} : ValueOf(new, r) = ValueOf(lines, r)
      BY <1>4, <2>2, <2>3
    <2> QED BY <2>4 DEF new
  <1>5. CASE ~Has(lines, s) /\ s = "model" /\ Settings!ApiLines(lines) # {}
    <2> DEFINE api == Settings!Min(Settings!ApiLines(lines))
               its == Append(SubSeq(lines, 1, api), NewLine("model", v))
                        \o SubSeq(lines, api + 1, Len(lines))
    <2>1. new = its
      BY <1>1, <1>5, Zenon DEF Settings!WriteYamlValue, Settings!WithLine, Has
    <2>2. its \in Seq(Line) /\ ValueOf(its, "model") = v
          /\ ValueOf(its, "provider") = ValueOf(lines, "provider")
      BY <1>5, ValueInserted
    <2> HIDE DEF its, new
    <2>3. new \in Seq(Line) /\ ValueOf(new, s) = v
      BY <1>5, <2>1, <2>2
    <2>4. \A r \in Settings!Setting \ {s} : r = "provider"
      BY <1>5 DEF Settings!Setting
    <2> QED BY <2>1, <2>2, <2>3, <2>4 DEF new
  <1>6. CASE ~Has(lines, s) /\ s = "model" /\ Settings!ApiLines(lines) = {}
    <2> DEFINE its == lines \o <<[indented |-> FALSE, key |-> "api", value |-> NoValue],
                                 NewLine("model", v)>>
    <2>a. Settings!L(FALSE, "api", NoValue) = [indented |-> FALSE, key |-> "api", value |-> NoValue]
      BY DEF Settings!L
    <2>1. new = its
      BY <1>1, <1>6, <2>a DEF Settings!WriteYamlValue, Settings!WithLine, Has
    <2>2. its \in Seq(Line) /\ ValueOf(its, "model") = v
          /\ ValueOf(its, "provider") = ValueOf(lines, "provider")
      BY <1>6, BlockAppended
    <2> HIDE DEF its, new
    <2>3. new \in Seq(Line) /\ ValueOf(new, s) = v
      BY <1>6, <2>1, <2>2
    <2>4. \A r \in Settings!Setting \ {s} : r = "provider"
      BY <1>6 DEF Settings!Setting
    <2> QED BY <2>1, <2>2, <2>3, <2>4 DEF new
  <1> QED BY <1>2, <1>3, <1>4, <1>5, <1>6

\* What the user put in the file is there to be read, whether or not the rest of it is.
SettingsInv ==
  /\ file \in Seq(Line) /\ DOMAIN wanted = Settings!Setting
  /\ \A s \in Settings!Setting : wanted[s] = ValueOf(file, s)

LEMMA ReadsValue ==
    ASSUME NEW lines, Settings!Readable(lines), NEW s
    PROVE  Settings!Loaded(lines, s) = ValueOf(lines, s)
  BY DEF Settings!Loaded, ValueOf, Has

LEMMA FilesAre ==
    /\ \A lines \in Settings!UsersFiles : lines \in Seq(Line) /\ Settings!Readable(lines)
    /\ Settings!DefaultFile \in Seq(Line) /\ Settings!Readable(Settings!DefaultFile)
  <1>1. PICK shipped : shipped = Settings!Shipped
    OBVIOUS
  <1>2. shipped \in Values /\ shipped \notin BadValues /\ NoValue \notin BadValues
    BY <1>1, SettingsAssumption DEF Settings!Shipped
  <1> DEFINE Good == {l \in Line : l.value \notin BadValues}
  <1>3. \A lines \in Seq(Good) : lines \in Seq(Line) /\ Settings!Readable(lines)
    <2> TAKE lines \in Seq(Good)
    <2>1. Len(lines) \in Nat /\ lines \in [1..Len(lines) -> Good]
      OBVIOUS
    <2>2. \A i \in DOMAIN lines : lines[i] \in Line /\ lines[i].value \notin BadValues
      BY <2>1
    <2>3. lines \in [1..Len(lines) -> Line]
      BY <2>1
    <2>4. lines \in Seq(Line)
      BY <2>1, <2>3
    <2> QED BY <2>2, <2>4 DEF Settings!Readable
  <1>4. ASSUME NEW indented \in BOOLEAN, NEW v \in {NoValue, shipped},
               NEW part \in {"#", "provider", "api", "base_url", "model", "llm"}
        PROVE  Settings!L(indented, part, v) \in Good
    BY <1>2 DEF Settings!L, Line
  <1>5. PICK top, prov, api, base, mod, llm :
          /\ top = Settings!L(FALSE, "#", NoValue)
          /\ prov = Settings!L(FALSE, "provider", shipped)
          /\ api = Settings!L(FALSE, "api", NoValue)
          /\ base = Settings!L(TRUE, "base_url", shipped)
          /\ mod = Settings!L(TRUE, "model", shipped)
          /\ llm = Settings!L(FALSE, "llm", NoValue)
    OBVIOUS
  <1>6. {top, prov, api, base, mod, llm} \subseteq Good
    <2>1. TRUE \in BOOLEAN /\ FALSE \in BOOLEAN
      OBVIOUS
    <2> QED BY <1>4, <1>5, <2>1
  <1>7. Settings!DefaultFile = <<top, prov, api, base, mod, llm, mod>>
    BY <1>1, <1>5 DEF Settings!DefaultFile
  <1>8. Settings!UsersFiles = {<<>>, Settings!DefaultFile, <<llm, mod>>, <<api, top, mod>>,
                               <<prov, llm, mod, api>>}
    BY <1>1, <1>5 DEF Settings!UsersFiles
  <1> HIDE DEF Good
  <1>9. /\ <<>> \in Seq(Good) /\ <<top, prov, api, base, mod, llm, mod>> \in Seq(Good)
        /\ <<llm, mod>> \in Seq(Good) /\ <<api, top, mod>> \in Seq(Good)
        /\ <<prov, llm, mod, api>> \in Seq(Good)
    BY <1>6
  <1> QED BY <1>3, <1>7, <1>8, <1>9

LEMMA SettingsInit == Settings!Init => SettingsInv
  <1> SUFFICES ASSUME Settings!Init PROVE SettingsInv
    OBVIOUS
  <1>1. file \in Seq(Line) /\ Settings!Readable(file)
    BY FilesAre DEF Settings!Init
  <1>2. wanted = [s \in Settings!Setting |-> Settings!Loaded(file, s)]
    BY DEF Settings!Init
  <1> QED BY <1>1, <1>2, ReadsValue DEF SettingsInv

LEMMA SettingsStep == SettingsInv /\ [Settings!Next]_settingsVars => SettingsInv'
  <1> SUFFICES ASSUME SettingsInv, [Settings!Next]_settingsVars PROVE SettingsInv'
    OBVIOUS
  <1>0. /\ file \in Seq(Line) /\ DOMAIN wanted = Settings!Setting
        /\ \A s \in Settings!Setting : wanted[s] = ValueOf(file, s)
    BY DEF SettingsInv
  <1>1. ASSUME file' = file, wanted' = wanted PROVE SettingsInv'
    BY <1>0, <1>1 DEF SettingsInv
  <1>2. ASSUME Settings!Start PROVE SettingsInv'
    <2>1. CASE file = <<>>
      <3>1. /\ file' = Settings!DefaultFile
            /\ wanted' = [s \in Settings!Setting |-> Settings!Loaded(Settings!DefaultFile, s)]
        BY <1>2, <2>1 DEF Settings!Start, Settings!Resolved
      <3> QED BY <3>1, FilesAre, ReadsValue DEF SettingsInv
    <2>2. CASE file # <<>>
      <3>1. file' = file /\ wanted' = wanted
        BY <1>2, <2>2 DEF Settings!Start, Settings!Resolved
      <3> QED BY <1>1, <3>1
    <2> QED BY <2>1, <2>2
  <1>3. ASSUME Settings!SetField PROVE SettingsInv'
    <2>1. PICK s \in Settings!Setting, v \in Values :
            /\ file' = Settings!WriteYamlValue(file, s, v)
            /\ wanted' = [wanted EXCEPT ![s] = v]
      BY <1>3 DEF Settings!SetField
    <2>2. /\ file' \in Seq(Line) /\ ValueOf(file', s) = v
          /\ \A r \in Settings!Setting \ {s} : ValueOf(file', r) = ValueOf(file, r)
      BY <1>0, <2>1, WritesItsLine
    <2>3. DOMAIN wanted' = Settings!Setting /\ wanted'[s] = v
          /\ \A r \in Settings!Setting \ {s} : wanted'[r] = wanted[r]
      BY <1>0, <2>1
    <2> QED BY <1>0, <2>2, <2>3 DEF SettingsInv
  <1>4. ASSUME Settings!Quit PROVE SettingsInv'
    BY <1>1, <1>4 DEF Settings!Quit
  <1>5. ASSUME UNCHANGED settingsVars PROVE SettingsInv'
    BY <1>1, <1>5 DEF settingsVars
  <1> QED BY <1>2, <1>3, <1>4, <1>5 DEF Settings!Next

LEMMA FirstIsGiven ==
    ASSUME NEW a, NEW b, NEW c
    PROVE  /\ a = NoValue /\ b # NoValue => Settings!FirstGiven(<<a, b, c>>) = b
           /\ a = NoValue /\ b = NoValue /\ c # NoValue => Settings!FirstGiven(<<a, b, c>>) = c
  <1> DEFINE values == <<a, b, c>>
             givenAt == {i \in DOMAIN values : values[i] # NoValue}
  <1>1. DOMAIN values = {1, 2, 3} /\ values[1] = a /\ values[2] = b /\ values[3] = c
    OBVIOUS
  <1>2. Settings!FirstGiven(values) = IF givenAt = {} THEN NoValue ELSE values[Settings!Min(givenAt)]
    BY Zenon DEF Settings!FirstGiven
  <1> HIDE DEF values
  <1>3. givenAt \subseteq Nat
    BY <1>1
  <1>4. ASSUME a = NoValue, b # NoValue PROVE Settings!FirstGiven(values) = b
    <2>1. 2 \in givenAt /\ \A j \in givenAt : 2 <= j
      BY <1>1, <1>4
    <2>2. Settings!Min(givenAt) = 2
      BY <1>3, <2>1, FirstLineIs
    <2> QED BY <1>1, <1>2, <2>1, <2>2
  <1>5. ASSUME a = NoValue, b = NoValue, c # NoValue PROVE Settings!FirstGiven(values) = c
    <2>1. 3 \in givenAt /\ \A j \in givenAt : 3 <= j
      BY <1>1, <1>5
    <2>2. Settings!Min(givenAt) = 3
      BY <1>3, <2>1, FirstLineIs
    <2> QED BY <1>1, <1>2, <2>1, <2>2
  <1> QED BY <1>4, <1>5 DEF values

LEMMA SettingsSound ==
    ASSUME SettingsInv, Settings!Start, NEW s \in Settings!Setting, Settings!Readable(file),
           wanted'[s] # NoValue, cli'[s] = NoValue, s = "provider" => env'[s] = NoValue
    PROVE  used'[s] = wanted'[s]
  <1>1. PICK c, e \in [Settings!Setting -> (Values \ BadValues) \cup {NoValue}] :
          /\ cli' = c /\ env' = e
          /\ used' = [r \in Settings!Setting |-> Settings!Chosen(r, c, e)]
    BY DEF Settings!Start
  <1>2. used'[s] = Settings!Chosen(s, c, e)
    BY <1>1
  <1>3. Settings!Loaded(Settings!Resolved, s) = wanted'[s]
    <2>1. CASE file = <<>>
      BY <2>1 DEF Settings!Start, Settings!Resolved
    <2>2. CASE file # <<>>
      <3>1. wanted'[s] = ValueOf(file, s) /\ Settings!Resolved = file
        BY <2>2 DEF Settings!Start, Settings!Resolved, SettingsInv
      <3> QED BY <3>1, ReadsValue
    <2> QED BY <2>1, <2>2
  <1>4. CASE s = "provider"
    <2>1. Settings!Chosen(s, c, e) = Settings!FirstGiven(<<e[s], c[s], wanted'[s]>>)
      BY <1>3, <1>4, Zenon DEF Settings!Chosen
    <2> QED BY <1>1, <1>2, <1>4, <2>1, FirstIsGiven
  <1>5. CASE s # "provider"
    <2>1. Settings!Chosen(s, c, e) = Settings!FirstGiven(<<c[s], wanted'[s], e[s]>>)
      BY <1>3, <1>5, Zenon DEF Settings!Chosen
    <2> QED BY <1>1, <1>2, <1>5, <2>1, FirstIsGiven
  <1> QED BY <1>4, <1>5

\* For a file of any length and any order of its lines, the value the user saved
\* last is the one the next start uses, unless the command line, or the provider's
\* variable, says otherwise (writeYamlValue of /api against main's loading of config.yaml).
THEOREM SavedStaysUsed == Settings!Spec => SavedIsUsed
  <1>1. UNCHANGED Settings!startupVars => UNCHANGED settingsVars
    BY DEF Settings!startupVars, settingsVars
  <1>2. SettingsInv /\ [Settings!Next]_(Settings!startupVars) => SettingsInv'
    BY <1>1, SettingsStep
  <1>3. SettingsInv /\ [Settings!Next]_(Settings!startupVars)
          => [Settings!Start => \A s \in Settings!Setting :
                /\ Settings!Readable(file) /\ wanted'[s] # NoValue /\ cli'[s] = NoValue
                /\ s = "provider" => env'[s] = NoValue
                => used'[s] = wanted'[s]]_(Settings!startupVars)
    BY SettingsSound
  <1> QED BY <1>2, <1>3, SettingsInit, PTL
          DEF Settings!Spec, SavedIsUsed, Settings!SavedIsUsed

-----------------------------------------------------------------------------
(* The components side by side.                                            *)

\* Each component starts in one of its initial states,
LEMMA StoresStart ==
    SideBySideInit => Init /\ Rows!Init /\ Rag!Init /\ Settings!Init
  BY DEF SideBySideInit

\* and makes its own step or none.
LEMMA StoresStep ==
    [SideBySideNext]_allVars =>
        /\ [Next]_vars /\ [Rows!Next]_(Rows!vars) /\ [Rag!Next]_(Rag!ragVars)
        /\ [Settings!Next]_(Settings!startupVars)
  <1> SUFFICES ASSUME [SideBySideNext]_allVars
               PROVE  /\ [Next]_vars /\ [Rows!Next]_(Rows!vars) /\ [Rag!Next]_(Rag!ragVars)
                      /\ [Settings!Next]_(Settings!startupVars)
    OBVIOUS
  <1>0. [Next]_vars
    BY DEF SideBySideNext, allVars
  <1>1. Rows!Next \/ UNCHANGED rowsVars
    BY DEF SideBySideNext, allVars
  <1>2. Rag!Next \/ UNCHANGED ragVars
    BY DEF SideBySideNext, allVars
  <1>3. Settings!Next \/ UNCHANGED settingsVars
    BY DEF SideBySideNext, allVars
  <1>4. UNCHANGED rowsVars => UNCHANGED Rows!vars
    BY DEF rowsVars, Rows!vars
  <1>5. UNCHANGED ragVars => UNCHANGED Rag!ragVars
    BY DEF ragVars, Rag!ragVars, Rag!indexVars, Rag!callVars
  <1>6. UNCHANGED settingsVars => UNCHANGED Settings!startupVars
    BY DEF settingsVars, Settings!startupVars
  <1> QED BY <1>0, <1>1, <1>2, <1>3, <1>4, <1>5, <1>6

\* What is stored is read back in what is run, the components side by side.
THEOREM StoresAreKept ==
    SideBySide => /\ [](RepliesAreSaved /\ RowsRoundTrip /\ VectorsFindTheirRows)
                  /\ JournalGrows /\ SavedIsUsed
  <1>1. SideBySide => Spec /\ Rows!Spec /\ Rag!Spec /\ Settings!Spec
    BY StoresStart, StoresStep, PTL
       DEF SideBySide, Spec, Rows!Spec, Rag!Spec, Settings!Spec
  <1>2. Spec => JournalGrows
    BY SessionsImplementJournal
  <1>3. Settings!Spec => SavedIsUsed
    BY SavedStaysUsed
  <1> HIDE DEF JournalGrows, SavedIsUsed
  <1> QED BY <1>1, <1>2, <1>3, RepliesAreAlwaysSaved, RowsStayReadable,
             VectorsStayWithTheirRows, PTL

=============================================================================
