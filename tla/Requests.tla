------------------------------ MODULE Requests ------------------------------
(***************************************************************************)
(* What a client sends of the history: api/RemoteAPIClient.cpp,            *)
(* api/OpenAICompatClient.cpp, api/LocalLLMClient.cpp and the conversion   *)
(* of core/Message.cpp.  The history grows as submitMessage makes it grow; *)
(* a request that fails, an Esc, a warning of the loop detector, a compact *)
(* step or a reload may come between any two messages.  A block is its     *)
(* type and the call it belongs to; the text a reply carries before its    *)
(* calls is left out.                                                      *)
(***************************************************************************)
EXTENDS Compaction, SequencesExt

CONSTANTS
  BatchSizes,   \* how many tools a reply may call
  MediaCalls,   \* the calls whose result carries an image or a document
  Operations,   \* which of "reload" and "micro" happen
  MaxHistory    \* bound on the length of the history

VARIABLES
  messages,     \* messages_
  unanswered,   \* the calls of the batch being served
  stage,        \* "idle", "asking" before a request, "serving" a batch
  abandoned     \* the calls that Esc, a crash or a reload left without a result

vars == <<messages, unanswered, stage, abandoned>>

-----------------------------------------------------------------------------
Block(type, id) == [type |-> type, id |-> id]
Text == Block("text", 0)

(* Message::toApiJson: whatever is not a user message is an assistant's.   *)
Content(m) ==
  IF m.answers # {} THEN SetToSeq({Block("tool_result", id) : id \in m.answers})
  ELSE IF m.uses = <<>> THEN <<Text>>
  ELSE [i \in DOMAIN m.uses |-> Block("tool_use", m.uses[i])]
ApiRole(m) == IF m.role = "user" THEN "user" ELSE "assistant"
toApiJson(m) == [role |-> ApiRole(m), content |-> Content(m)]

Results(content) == {i \in DOMAIN content : content[i].type = "tool_result"}
Others(content) == DOMAIN content \ Results(content)
hoistToolResults(content) ==
  Picked(content, Results(content)) \o Picked(content, Others(content))

(* Mutant: each message is sent as one of its own.                         *)
EachAlone(wire, m) == Append(wire, m)

(* Consecutive user messages become one, its results first.                *)
Merged(wire, m) ==
  IF wire # <<>> /\ Last(wire).role = "user" /\ m.role = "user"
  THEN [wire EXCEPT ![Len(wire)].content = hoistToolResults(@ \o m.content)]
  ELSE Append(wire, m)

AnthropicMessages(ms) ==
  LET wire[n \in 0..Len(ms)] ==
        IF n = 0 THEN <<>> ELSE Merged(wire[n - 1], toApiJson(ms[n]))
  IN  wire[Len(ms)]

(* The OpenAI format: a message with the flag of makeToolResult is a tool  *)
(* message; without it, its result is no text and so it is sent empty.     *)
CompatMessage(m) ==
  IF m.flagged THEN [role |-> "tool", content |-> Content(m)]
  ELSE [role |-> ApiRole(m), content |-> Picked(Content(m), Others(Content(m)))]
CompatMessages(ms) == [i \in DOMAIN ms |-> CompatMessage(ms[i])]

(* The prompt of a local model: the same, but what is empty is left out.   *)
LocalPrompt(ms) ==
  Picked(CompatMessages(ms), {i \in DOMAIN ms : CompatMessage(ms[i]).content # <<>>})

-----------------------------------------------------------------------------
Init == messages = <<>> /\ unanswered = {} /\ stage = "idle" /\ abandoned = {}

Fits(n) == Len(messages) + n <= MaxHistory
NextCall == Cardinality(UsesOf(messages))

Prompt ==
  /\ stage = "idle" /\ Fits(1)
  /\ messages' = Append(messages, User)
  /\ stage' = "asking" /\ UNCHANGED <<unanswered, abandoned>>

Reply(n) ==
  /\ stage = "asking" /\ Fits(n + 1)
  /\ LET ids == [i \in 1..n |-> NextCall + i] IN
     /\ messages' = Append(messages, Assistant(ids))
     /\ unanswered' = ToSet(ids)
  /\ stage' = IF n = 0 THEN "idle" ELSE "serving"
  /\ UNCHANGED abandoned

(* The request fails, Esc comes first or the reply is empty.               *)
NoReply ==
  /\ stage = "asking"
  /\ stage' = "idle" /\ UNCHANGED <<messages, unanswered, abandoned>>

Answer ==
  /\ stage = "serving"
  /\ \E id \in unanswered :
       /\ messages' = Append(messages, ToolResult(id))
       /\ unanswered' = unanswered \ {id}
  /\ UNCHANGED <<stage, abandoned>>

(* Esc drops the calls of the batch that did not begin; nothing puts a     *)
(* result in their place, neither then nor when a request is built.  What  *)
(* is read back after a crash ends the same way.                           *)
Abandon ==
  /\ stage = "serving"
  /\ stage' = "idle" /\ unanswered' = {}
  /\ abandoned' = abandoned \cup unanswered
  /\ UNCHANGED messages

Served == stage = "serving" /\ unanswered = {}
AskAgain == Served /\ stage' = "asking" /\ UNCHANGED <<messages, unanswered, abandoned>>
Warn ==
  /\ Served /\ Fits(1)
  /\ messages' = Append(messages, User)
  /\ stage' = "asking" /\ UNCHANGED <<unanswered, abandoned>>

(* Message::fromApiJson throws on a result whose content is an array, and  *)
(* TranscriptStore::load skips the line.                                   *)
Readable(m) == m.answers \cap MediaCalls = {}
Reload ==
  /\ "reload" \in Operations /\ stage = "idle"
  /\ LET read == {i \in DOMAIN messages : Readable(messages[i])} IN
     /\ messages' = Load(Picked(messages, read))
     /\ abandoned' = abandoned \cup UNION {messages[i].answers : i \in DOMAIN messages \ read}
  /\ UNCHANGED <<unanswered, stage>>

(* Between a turn and the next, or after a prompt that was too long.       *)
Micro ==
  /\ "micro" \in Operations /\ stage = "asking" /\ Fits(1)
  /\ \E i \in DOMAIN messages : messages' = MicroCompact(messages, {i}).messages
  /\ UNCHANGED <<unanswered, stage, abandoned>>

(* A session that has grown to the bound asks nothing more.                *)
Full == stage = "idle" /\ ~Fits(1) /\ UNCHANGED vars

Next ==
  \/ Prompt \/ (\E n \in BatchSizes : Reply(n)) \/ NoReply
  \/ Answer \/ Abandon \/ AskAgain \/ Warn
  \/ Reload \/ Micro \/ Full

Spec == Init /\ [][Next]_vars

-----------------------------------------------------------------------------
IdsIn(m, type) == {m.content[i].id : i \in {j \in DOMAIN m.content : m.content[j].type = type}}

(* Results answer the calls of the last message that has no results.       *)
ResultsFollowCalls(wire) ==
  \A i \in DOMAIN wire : IdsIn(wire[i], "tool_result") # {} =>
    \E k \in 1..(i - 1) :
      /\ IdsIn(wire[i], "tool_result") \subseteq IdsIn(wire[k], "tool_use")
      /\ \A j \in (k + 1)..(i - 1) : IdsIn(wire[j], "tool_result") # {}

(* A call is answered by the message behind it, unless it was abandoned.    *)
CallsAreAnswered(wire) ==
  \A i \in DOMAIN wire :
    IdsIn(wire[i], "tool_use") \ abandoned \subseteq
      IF i < Len(wire) THEN IdsIn(wire[i + 1], "tool_result") ELSE {}

(* Whatever failed, was abandoned, warned about or reloaded before: a      *)
(* request to Anthropic never has two user messages in a row, and results  *)
(* lead theirs; no call is sent without its result right behind it but     *)
(* those that were abandoned, which no client repairs; and no client sends *)
(* a result that does not follow its call.                                 *)
RequestIsAccepted ==
  stage = "asking" =>
    LET wire == AnthropicMessages(messages) IN
    /\ \A i \in 1..(Len(wire) - 1) : {wire[i].role, wire[i + 1].role} # {"user"}
    /\ \A i \in DOMAIN wire : \A j \in DOMAIN wire[i].content :
         wire[i].content[j].type = "tool_result" =>
           \A k \in 1..j : wire[i].content[k].type = "tool_result"
    /\ ResultsFollowCalls(wire) /\ CallsAreAnswered(wire)
    /\ ResultsFollowCalls(CompatMessages(messages))
    /\ ResultsFollowCalls(LocalPrompt(messages))
=============================================================================
