------------------------------ MODULE Messages ------------------------------
(***************************************************************************)
(* The conversation history: core/Message.h, core/Message.cpp and the      *)
(* JSONL round trip of core/TranscriptStore.h.  A message keeps what the   *)
(* control of the program looks at: its role, the ids of its tool_use      *)
(* blocks, the ids its tool_result blocks answer, the isToolUseResult flag *)
(* and the system subtype of the boundaries compaction inserts.  Text,     *)
(* timestamps and uuids are left out.                                      *)
(***************************************************************************)
EXTENDS Integers, Sequences

NoBoundary == "none"
CompactBoundary == "COMPACT_BOUNDARY"
MicroBoundary == "MICROCOMPACT_BOUNDARY"

User == [role |-> "user", uses |-> <<>>, answers |-> {},
         flagged |-> FALSE, boundary |-> NoBoundary]

Assistant(ids) == [User EXCEPT !.role = "assistant", !.uses = ids]

ToolResult(id) == [User EXCEPT !.answers = {id}, !.flagged = TRUE]

System(subtype) == [User EXCEPT !.role = "system", !.boundary = subtype]

MessageOf(Ids) == [role : {"user", "assistant", "system"}, uses : Seq(Ids),
                   answers : SUBSET Ids, flagged : BOOLEAN,
                   boundary : {NoBoundary, CompactBoundary, MicroBoundary}]

(***************************************************************************)
(* What a message becomes after TranscriptStore::messageToEntry and        *)
(* TranscriptStore::load: the content blocks survive; isToolUseResult,     *)
(* which only makeToolResult sets, and the system subtype do not.          *)
(***************************************************************************)
Restored(m) == [m EXCEPT !.flagged = FALSE, !.boundary = NoBoundary]

Load(lines) == [i \in DOMAIN lines |-> Restored(lines[i])]

(***************************************************************************)
(* TranscriptStore::appendDelta as QueryEngine::persistTranscriptDelta     *)
(* calls it: the lines the file holds afterwards, and the new              *)
(* lastPersistedIndex_.  A file that cannot be opened leaves the index; an *)
(* index at or past the end is moved back to the end and writes nothing.   *)
(***************************************************************************)
(* Mutant: the index is taken for that of the first line to write.         *)
AppendedWithLast(lines, messages, from, opened) ==
  IF opened /\ from < Len(messages)
  THEN lines \o SubSeq(messages, IF from = 0 THEN 1 ELSE from, Len(messages))
  ELSE lines

AppendedLines(lines, messages, from, opened) ==
  IF opened /\ from < Len(messages)
  THEN lines \o SubSeq(messages, from + 1, Len(messages))
  ELSE lines

AppendedIndex(messages, from, opened) ==
  IF opened \/ from >= Len(messages) THEN Len(messages) ELSE from

-----------------------------------------------------------------------------
(* The elements at some positions, in their order: what a loop leaves that *)
(* goes through a list and copies those it keeps.                          *)
Picked(list, at) ==
  LET picked[n \in 0..Len(list)] ==
        IF n = 0 THEN <<>>
        ELSE IF n \in at THEN Append(picked[n - 1], list[n])
        ELSE picked[n - 1]
  IN  picked[Len(list)]

UsesOf(messages) ==
  UNION {{messages[i].uses[j] : j \in DOMAIN messages[i].uses} : i \in DOMAIN messages}

AnswersOf(messages) == UNION {messages[i].answers : i \in DOMAIN messages}

(***************************************************************************)
(* The position of the assistant message a tool_result at i must answer:   *)
(* the closest message before it that is not itself a tool_result.         *)
(***************************************************************************)
RequestOf(messages, i) ==
  LET before == {k \in 1..(i - 1) : messages[k].answers = {}}
  IN  IF before = {} THEN 0 ELSE CHOOSE k \in before : \A j \in before : j <= k

(* The result of id at i answers a tool_use of the message its batch       *)
(* belongs to, and nothing in that batch has answered id before.           *)
AnswersRequest(messages, i, id) ==
  /\ RequestOf(messages, i) # 0
  /\ \E j \in DOMAIN messages[RequestOf(messages, i)].uses :
        messages[RequestOf(messages, i)].uses[j] = id
  /\ \A k \in (RequestOf(messages, i) + 1)..(i - 1) : id \notin messages[k].answers

(* Every tool_result answers a tool_use of the assistant message right     *)
(* before its batch, and no tool_use is answered twice in one batch: the   *)
(* shape the Messages API accepts.                                         *)
Paired(messages) ==
  \A i \in DOMAIN messages : \A id \in messages[i].answers : AnswersRequest(messages, i, id)
=============================================================================
