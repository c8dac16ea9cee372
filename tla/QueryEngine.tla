---------------------------- MODULE QueryEngine ----------------------------
(***************************************************************************)
(* core/QueryEngine.cpp: one conversation, its turn loop and its           *)
(* transcript.  A prompt starts submitMessage on the engine's thread; a    *)
(* loop of turns streams a reply, appends it, persists it, serves its tool *)
(* calls and decides whether to go on.  The Esc watcher interrupts from    *)
(* another thread, concurrency-safe tools of a batch run on threads of     *)
(* their own, and the process may die and come back with --continue.        *)
(***************************************************************************)
EXTENDS Compaction, FiniteSets

CONSTANTS
  Tools,                   \* the tool names a reply may carry
  AgentTool,               \* "Agent"
  McpTools,                \* the proxies of MCP servers, whose names begin with mcp__
  Registered,              \* the tools of config_.toolRegistry
  ConcurrencySafe,         \* those whose isConcurrencySafe() is true
  AllowedTools,            \* config_.allowedTools; empty means no filter
  AllowSubagents,          \* config_.allowSubagents
  Refused,                 \* the tools the permission engine or the user refuses
  Inputs, Texts,           \* tool inputs and non-empty assistant texts
  Locals,                  \* whether the configured client may be a local model
  Budgeted,                \* a query token budget is configured
  maxTurns,                \* config_.maxTurns
  CompactEvery,            \* 3: compactIfNeeded runs on every third turn
  Contexts,                \* the pressures the context may reach
  ApiErrors,               \* the API failures that may happen
  StopReasons,             \* the stop reasons a reply may end with
  DiskOpens,               \* whether the transcript file may fail to open
  TextFormats,             \* whether a text may parse as a tool call
  MAX_COMPACTION_FAILURES, \* 3 in QueryEngine.h
  Similar, NoText,
  kRepeatWarnThreshold, kRepeatBreakThreshold,
  kSameToolWarnThreshold, kSameToolBreakThreshold,
  MaxPrompts, MaxCrashes, MaxBatch   \* bounds of the model

ASSUME ToolsAssumption ==
  /\ Registered \subseteq Tools /\ ConcurrencySafe \subseteq Registered
  /\ McpTools \subseteq Registered
  /\ NoText \notin Texts

ASSUME NumbersAssumption ==
  /\ maxTurns \in Nat /\ CompactEvery \in Nat \ {0} /\ MAX_COMPACTION_FAILURES \in Nat
  /\ MaxPrompts \in Nat /\ MaxCrashes \in Nat /\ MaxBatch \in Nat

ASSUME SwitchesAssumption ==
  /\ Contexts \subseteq Pressures /\ "low" \in Contexts
  /\ ApiErrors \subseteq {"too_long", "overloaded", "other"}
  /\ StopReasons \subseteq {"end_turn", "max_tokens"}
  /\ DiskOpens \subseteq BOOLEAN /\ TextFormats \subseteq BOOLEAN
  /\ Locals \subseteq BOOLEAN /\ Locals # {} /\ Budgeted \in BOOLEAN /\ AllowSubagents \in BOOLEAN

Detector == INSTANCE LoopDetector

Ids == ({"call"} \X Nat) \cup ({"text"} \X Nat)
Call == [id : Ids, tool : Tools, input : Inputs]
Parsed == [tool : Tools, input : Inputs]

VARIABLES
  messages,     \* messages_
  transcript,   \* the lines of the session's JSONL file
  persisted,    \* lastPersistedIndex_
  interrupted,  \* interrupted_
  breaker,      \* consecutiveCompactionFailures_
  attempts,     \* the static maxTokensRecoveryAttempt
  collapsed,    \* the indices contextCollapse_ has summarised
  pc,           \* where the engine's thread is
  turnCount, calls, text, detector,   \* locals of submitMessage
  parsed,       \* the tool call its text parses as, in a sequence of at most one
  stage,        \* how far each call of the turn has come
  isLocal,      \* apiClient->isLocal()
  nextId, prompts, crashes,   \* ids given out by the API; bounds
  ran,          \* history: every call whose tool began to execute
  late,         \* history: those that began since the engine was interrupted
  past,         \* history: those whose threads were past their look at it then
  abandoned     \* history: the calls that Esc dropped or a crash left open

history == <<messages, transcript, persisted>>
recovery == <<breaker, attempts, collapsed>>
reply == <<calls, text, parsed, stage>>
world == <<isLocal, nextId, prompts, crashes>>
executed == <<ran, late, past, abandoned>>
vars == <<messages, transcript, persisted, interrupted, breaker, attempts, collapsed, pc,
          turnCount, calls, text, parsed, detector, stage,
          isLocal, nextId, prompts, crashes, ran, late, past, abandoned>>

Init ==
  /\ messages = <<>> /\ transcript = <<>> /\ persisted = 0
  /\ interrupted = FALSE /\ breaker = 0 /\ attempts = 0 /\ collapsed = {}
  /\ pc = "idle" /\ turnCount = 0
  /\ calls = <<>> /\ text = NoText /\ parsed = <<>> /\ detector = Detector!Fresh
  /\ stage = <<>>
  /\ isLocal \in Locals /\ nextId = 0 /\ prompts = 0 /\ crashes = 0
  /\ ran = {} /\ late = {} /\ past = {} /\ abandoned = {}

-----------------------------------------------------------------------------
(* persistTranscriptDelta when messages_ is ms.                            *)
persistTranscriptDelta(ms) ==
  \E opened \in DiskOpens :
    /\ transcript' = AppendedLines(transcript, ms, persisted, opened)
    /\ persisted' = AppendedIndex(ms, persisted, opened)

(* submitMessage up to the turn loop.                                      *)
Submit ==
  /\ pc = "idle" /\ prompts < MaxPrompts
  /\ prompts' = prompts + 1
  /\ interrupted' = FALSE /\ late' = {} /\ past' = {}
  /\ messages' = Append(messages, User)
  /\ persistTranscriptDelta(messages')
  /\ turnCount' = 0 /\ detector' = Detector!Fresh
  /\ pc' = "loop"
  /\ UNCHANGED <<recovery, reply, isLocal, nextId, crashes, ran, abandoned>>

(* After the loop: the budget is reset and what is left is persisted.      *)
Complete ==
  /\ pc = "done"
  /\ persistTranscriptDelta(messages)
  /\ pc' = "idle"
  /\ UNCHANGED <<messages, interrupted, recovery, turnCount, reply, detector,
                 world, executed>>

LoopExit ==
  /\ pc = "loop"
  /\ turnCount >= maxTurns \/ interrupted
  /\ pc' = "done"
  /\ UNCHANGED <<history, interrupted, recovery, turnCount, reply, detector,
                 world, executed>>

BudgetExceeded ==
  /\ pc = "loop" /\ turnCount < maxTurns /\ ~interrupted
  /\ Budgeted
  /\ turnCount' = turnCount + 1
  /\ pc' = "done"
  /\ UNCHANGED <<history, interrupted, recovery, reply, detector, world, executed>>

(* Which messages have a block worth collapsing or truncating: none, all,  *)
(* or a single one.                                                        *)
Selections(ms) == {{}, DOMAIN ms} \cup {{i} : i \in DOMAIN ms}

(* The pre-flight check: under pressure the older messages are collapsed,  *)
(* and if that and snipping free too little the history is force-compacted.*)
Preflight(ms) ==
  \/ messages' = ms /\ UNCHANGED collapsed
  \/ \E pressure \in Contexts \ {"low"}, substantial \in Selections(ms) :
       LET now == CollapsedNow(ms, collapsed, substantial)
           compact == collapseOldMessages(ms, now)
       IN  IF pressure = "over95"
           THEN messages' = forceCompact(compact).messages /\ collapsed' = {}
           ELSE messages' = compact /\ collapsed' = collapsed \cup now

BeginTurn ==
  /\ pc = "loop" /\ turnCount < maxTurns /\ ~interrupted
  /\ turnCount' = turnCount + 1
  /\ IF turnCount' % CompactEvery = 0
     THEN \E pressure \in Contexts, oversized \in Selections(messages) :
            Preflight(compactIfNeeded(messages, pressure, oversized))
     ELSE Preflight(messages)
  /\ calls' = <<>> /\ text' = NoText /\ parsed' = <<>> /\ stage' = <<>>
  /\ pc' = "stream"
  /\ UNCHANGED <<transcript, persisted, interrupted, breaker, attempts, detector,
                 world, executed>>

-----------------------------------------------------------------------------
(* streamChat: the callback drops every event once interrupted_ is set.    *)
StreamText ==
  /\ pc = "stream" /\ ~interrupted /\ text = NoText
  /\ text' \in Texts
  /\ \E formatted \in TextFormats :
       IF formatted THEN \E p \in Parsed : parsed' = <<p>> ELSE parsed' = <<>>
  /\ UNCHANGED <<history, interrupted, recovery, pc, turnCount, calls, stage, detector,
                 world, executed>>

StreamToolUse ==
  /\ pc = "stream" /\ ~interrupted /\ Len(calls) < MaxBatch
  /\ \E tool \in Tools, input \in Inputs :
       calls' = Append(calls, [id |-> <<"call", nextId>>, tool |-> tool, input |-> input])
  /\ nextId' = nextId + 1
  /\ UNCHANGED <<history, interrupted, recovery, pc, turnCount, text, parsed, stage, detector,
                 isLocal, prompts, crashes, executed>>

(* An APIError the client could not retry away.  A prompt that is too long *)
(* is trimmed and the turn taken again; a 503 or 529 trims what it can,    *)
(* unless the breaker is open, and ends the prompt; any other ends it.  One *)
(* whose prompt no trim shortens may also be a 503 or 529.                 *)
(* Mutant: one trim too many.                                              *)
BreakerClosedLate == breaker <= MAX_COMPACTION_FAILURES
BreakerClosed == breaker < MAX_COMPACTION_FAILURES

TrimUnlessOpen(ms, oversized) ==
  LET trimmed == handlePromptTooLong(ms, oversized) IN
  IF BreakerClosed
  THEN /\ messages' = trimmed.messages
       /\ breaker' = IF trimmed.success THEN 0 ELSE breaker + 1
  ELSE messages' = ms /\ UNCHANGED breaker

TrimAndRetry(ms, oversized) ==
  LET trimmed == handlePromptTooLong(ms, oversized) IN
  IF trimmed.success
  THEN pc' = "loop" /\ messages' = trimmed.messages /\ UNCHANGED breaker
  ELSE /\ pc' = "done"
       /\ \/ messages' = trimmed.messages /\ UNCHANGED breaker
          \/ "overloaded" \in ApiErrors /\ TrimUnlessOpen(trimmed.messages, oversized)

(* Mutant: the retry gives its turn back.                                  *)
ApiTooLongUncounted ==
  /\ pc = "stream" /\ "too_long" \in ApiErrors
  /\ \E oversized \in Selections(messages) : TrimAndRetry(messages, oversized)
  /\ turnCount' = turnCount - 1
  /\ UNCHANGED <<transcript, persisted, interrupted, attempts, collapsed, reply, detector,
                 world, executed>>

ApiTooLong ==
  /\ pc = "stream" /\ "too_long" \in ApiErrors
  /\ \E oversized \in Selections(messages) : TrimAndRetry(messages, oversized)
  /\ UNCHANGED <<transcript, persisted, interrupted, attempts, collapsed, turnCount, reply,
                 detector, world, executed>>

ApiOverloaded ==
  /\ pc = "stream" /\ "overloaded" \in ApiErrors
  /\ \E oversized \in Selections(messages) : TrimUnlessOpen(messages, oversized)
  /\ pc' = "done"
  /\ UNCHANGED <<transcript, persisted, interrupted, attempts, collapsed, turnCount, reply,
                 detector, world, executed>>

ApiFails ==
  /\ pc = "stream" /\ "other" \in ApiErrors
  /\ pc' = "done"
  /\ UNCHANGED <<history, interrupted, recovery, turnCount, reply, detector,
                 world, executed>>

(* A reply cut at max_tokens while it was calling tools is dropped and the *)
(* turn taken again on a compacted history; when that fails, the attempts  *)
(* start over and the reply is taken as it is.  (cappedMaxTokens_ starts   *)
(* at ESCALATED_MAX_TOKENS, so the escalation before it never happens.)    *)
MaxTokensRecovery == handleMaxOutputTokens(messages, attempts + 1)

RetryAfterMaxTokens ==
  /\ pc = "stream" /\ "max_tokens" \in StopReasons /\ calls # <<>>
  /\ MaxTokensRecovery.success
  /\ messages' = MaxTokensRecovery.messages
  /\ attempts' = attempts + 1
  /\ breaker' = 0
  /\ pc' = "loop"
  /\ UNCHANGED <<transcript, persisted, interrupted, collapsed, turnCount, reply, detector,
                 world, executed>>

IdsOf(cs) == [i \in DOMAIN cs |-> cs[i].id]
IdsAt(positions) == {calls[i].id : i \in positions}
(* Mutant: a reply without text is not appended, whatever it calls.        *)
WithReplyIfText == IF text = NoText THEN messages
                   ELSE Append(messages, Assistant(IdsOf(calls)))
WithReply == IF text = NoText /\ calls = <<>> THEN messages
             ELSE Append(messages, Assistant(IdsOf(calls)))

(* One call alone is served by the engine's own thread; of several, the    *)
(* concurrency-safe ones go to threads of their own.                       *)
Serially(c) == Len(calls) = 1 \/ c.tool \notin ConcurrencySafe
(* Mutant: every call of a batch is queued for a thread.                   *)
PartitionedAsSafe ==
  [i \in DOMAIN calls |-> IF Len(calls) = 1 THEN "serial" ELSE "queued"]
Partitioned ==
  [i \in DOMAIN calls |-> IF Serially(calls[i]) THEN "serial" ELSE "queued"]

(* Mutant: the transcript is written before the reply is appended.         *)
PersistReplyTooEarly == persistTranscriptDelta(messages)
PersistReply == persistTranscriptDelta(WithReply)

(* The reply enters the history and the transcript; its calls are served   *)
(* unless the engine was interrupted, else its text may be one.            *)
AddAssistant ==
  /\ pc = "stream"
  /\ \/ UNCHANGED attempts
     \/ /\ "max_tokens" \in StopReasons /\ calls # <<>>
        /\ ~MaxTokensRecovery.success
        /\ attempts' = 0
  /\ breaker' = 0
  /\ messages' = WithReply
  /\ PersistReply
  /\ IF calls # <<>> /\ ~interrupted
     THEN pc' = "serve" /\ stage' = Partitioned /\ UNCHANGED abandoned
     ELSE /\ pc' = IF parsed # <<>> THEN "parse" ELSE "done"
          /\ abandoned' = abandoned \cup IdsAt(DOMAIN calls)
          /\ UNCHANGED stage
  /\ UNCHANGED <<interrupted, collapsed, turnCount, calls, text, parsed, detector, world,
                 ran, late, past>>

-----------------------------------------------------------------------------
(* processToolUse.  Before a tool runs: the sub-agent guard, the filter,   *)
(* the MCP route, the registry, validation, permission and the hooks.      *)
Nested(c) == ~AllowSubagents /\ c.tool = AgentTool
Filtered(c) == AllowedTools # {} /\ c.tool \notin AllowedTools
Admitted(c) == /\ ~Nested(c) /\ ~Filtered(c)
               /\ c.tool \in McpTools \/ (c.tool \in Registered /\ c.tool \notin Refused)

Began(c) == /\ ran' = ran \cup {c}
            /\ late' = IF interrupted THEN late \cup {c} ELSE late
            /\ UNCHANGED <<past, abandoned>>

At(i, s) == i \in DOMAIN stage /\ stage[i] = s
First(i, s) == At(i, s) /\ \A j \in DOMAIN stage : stage[j] = s => i <= j
None(s) == \A i \in DOMAIN stage : stage[i] # s
To(i, s) == stage' = [stage EXCEPT ![i] = s]
Standing(s) == {i \in DOMAIN stage : stage[i] = s}
Drop(s) == /\ stage' = [i \in DOMAIN stage |-> IF stage[i] = s THEN "dropped" ELSE stage[i]]
           /\ abandoned' = abandoned \cup IdsAt(Standing(s))
           /\ UNCHANGED <<ran, late, past>>

(* In a batch the loop over serialCalls looks at interrupted_ before each  *)
(* call; a call alone, native or parsed from text, is not looked at.       *)
SkipsNever == FALSE   \* mutant: the loop does not look at interrupted_
Skips == Len(calls) > 1 /\ interrupted

AbandonSerial ==
  /\ pc = "serve" /\ Skips /\ ~None("serial")
  /\ Drop("serial")
  /\ UNCHANGED <<history, interrupted, recovery, pc, turnCount, calls, text, parsed, detector,
                 world>>

(* The call meets the gates, where the permission prompt and the hooks may *)
(* hold it for long; nothing looks at interrupted_ again before it runs.   *)
ProcessToolUse(i) ==
  /\ pc \in {"serve", "serve text"} /\ ~Skips /\ First(i, "serial")
  /\ To(i, "gated")
  /\ pc' = IF pc = "serve" THEN "run" ELSE "run text"
  /\ UNCHANGED <<history, interrupted, recovery, turnCount, calls, text, parsed, detector,
                 world, executed>>

Returns == pc' = IF pc = "run" THEN "serve" ELSE "serve text"

StartTool(i) ==
  /\ pc \in {"run", "run text"} /\ At(i, "gated")
  /\ Admitted(calls[i])
  /\ Began(calls[i])
  /\ To(i, "executing")
  /\ UNCHANGED <<history, interrupted, recovery, pc, turnCount, calls, text, parsed, detector,
                 world>>

(* Mutant: an early return that pushes no result.                          *)
NoErrorResult(c) == messages
ErrorResult(c) == Append(messages, ToolResult(c.id))

(* Any call but a filtered or nested one may also fail validation, be      *)
(* blocked by a hook or find its MCP server down: an error result.         *)
RefuseTool(i) ==
  /\ pc \in {"run", "run text"} /\ At(i, "gated")
  /\ messages' = ErrorResult(calls[i])
  /\ To(i, "answered") /\ Returns
  /\ UNCHANGED <<transcript, persisted, interrupted, recovery, turnCount, calls, text, parsed,
                 detector, world, executed>>

FinishTool(i) ==
  /\ pc \in {"run", "run text"} /\ At(i, "executing")
  /\ messages' = Append(messages, ToolResult(calls[i].id))
  /\ To(i, "answered") /\ Returns
  /\ UNCHANGED <<transcript, persisted, interrupted, recovery, turnCount, calls, text, parsed,
                 detector, world, executed>>

(* The threads of the batch.  Launching looks at interrupted_ before each  *)
(* thread; a thread looks once more and later calls the tool, past no gate.*)
LaunchWorker(i) ==
  /\ pc = "serve" /\ None("serial") /\ ~interrupted
  /\ First(i, "queued")
  /\ To(i, "launched")
  /\ UNCHANGED <<history, interrupted, recovery, pc, turnCount, calls, text, parsed, detector,
                 world, executed>>

LaunchesOver ==
  /\ pc = "serve" /\ None("serial")
  /\ None("queued") \/ interrupted
  /\ Drop("queued")
  /\ pc' = "collect"
  /\ UNCHANGED <<history, interrupted, recovery, turnCount, calls, text, parsed, detector,
                 world>>

WorkerLooks(i) ==
  /\ At(i, "launched")
  /\ To(i, IF interrupted THEN "finished" ELSE "looked")
  /\ UNCHANGED <<history, interrupted, recovery, pc, turnCount, calls, text, parsed, detector,
                 world, executed>>

WorkerStarts(i) ==
  /\ At(i, "looked")
  /\ To(i, "running") /\ Began(calls[i])
  /\ UNCHANGED <<history, interrupted, recovery, pc, turnCount, calls, text, parsed, detector,
                 world>>

WorkerFinishes(i) ==
  /\ At(i, "running")
  /\ To(i, "finished")
  /\ UNCHANGED <<history, interrupted, recovery, pc, turnCount, calls, text, parsed, detector,
                 world, executed>>

(* future.get() in the order of the calls.                                 *)
OnThread(i) ==
  At(i, "launched") \/ At(i, "looked") \/ At(i, "running") \/ At(i, "finished")

Collect(i) ==
  /\ pc = "collect" /\ At(i, "finished")
  /\ \A j \in 1..(i - 1) : ~OnThread(j)
  /\ messages' = Append(messages, ToolResult(calls[i].id))
  /\ To(i, "answered")
  /\ UNCHANGED <<transcript, persisted, interrupted, recovery, pc, turnCount, calls, text,
                 parsed, detector, world, executed>>

Collected == pc = "collect" /\ \A i \in DOMAIN stage : ~OnThread(i)

-----------------------------------------------------------------------------
(* A local model gets one more turn to summarise, outside the try block:   *)
(* an exception leaves submitMessage before anything is persisted.         *)
Summarise ==
  /\ Collected /\ isLocal
  /\ turnCount' = turnCount + 1
  /\ \/ pc' = "done" /\ UNCHANGED messages
     \/ /\ turnCount' < maxTurns /\ ~interrupted
        /\ pc' = "done" /\ messages' = Append(messages, Assistant(<<>>))
     \/ turnCount' < maxTurns /\ ApiErrors # {} /\ pc' = "idle" /\ UNCHANGED messages
  /\ UNCHANGED <<transcript, persisted, interrupted, recovery, reply, detector,
                 world, executed>>

AfterDetection(stops, warns) ==
  /\ pc' = IF stops THEN "done" ELSE "loop"
  /\ messages' = IF warns /\ ~stops THEN Append(messages, User) ELSE messages

DetectLoop ==
  /\ Collected /\ ~isLocal
  /\ detector' = Detector!AfterNative(detector, calls, text)
  /\ AfterDetection(Detector!StopsNative(detector'), Detector!WarnsNative(detector'))
  /\ UNCHANGED <<transcript, persisted, interrupted, recovery, turnCount, reply,
                 world, executed>>

(* A text that parses as a tool call: the assistant message just appended  *)
(* is replaced by a tool_use named after the turn, and the call is served. *)
TextCall == [id |-> <<"text", turnCount>>, tool |-> parsed[1].tool, input |-> parsed[1].input]

(* Mutant: the text stays in the history, without the call.                *)
WithTextKept == messages
WithTextCall == Append(SubSeq(messages, 1, Len(messages) - 1), Assistant(<<TextCall.id>>))

ParseText ==
  /\ pc = "parse"
  /\ messages' = WithTextCall
  /\ calls' = <<TextCall>> /\ stage' = <<"serial">>
  /\ pc' = "serve text"
  /\ UNCHANGED <<transcript, persisted, interrupted, recovery, turnCount, text, parsed, detector,
                 world, executed>>

DetectTextLoop ==
  /\ pc = "serve text" /\ None("serial")
  /\ detector' = Detector!AfterTextual(detector, calls[1])
  /\ AfterDetection(Detector!StopsTextual(detector'), Detector!WarnsTextual(detector'))
  /\ UNCHANGED <<transcript, persisted, interrupted, recovery, turnCount, reply,
                 world, executed>>

-----------------------------------------------------------------------------
(* /model: the local client is swapped for a remote one.                   *)
SwitchModel ==
  /\ pc = "idle" /\ isLocal
  /\ isLocal' = FALSE
  /\ UNCHANGED <<history, interrupted, recovery, pc, turnCount, reply, detector,
                 nextId, prompts, crashes, executed>>

(* Esc, Ctrl-C: another thread sets interrupted_.                          *)
Interrupt ==
  /\ pc # "down" /\ ~interrupted
  /\ interrupted' = TRUE
  /\ past' = {calls[i] : i \in Standing("looked")}
  /\ UNCHANGED <<history, recovery, pc, turnCount, reply, detector, world, ran, late, abandoned>>

(* The last message that calls tools, and its calls.                       *)
LastRequest(ms) == {i \in DOMAIN ms : /\ ms[i].uses # <<>>
                                      /\ \A k \in DOMAIN ms : ms[k].uses # <<>> => k <= i}
CallsOfLast(ms) == UNION {{ms[i].uses[j] : j \in DOMAIN ms[i].uses} : i \in LastRequest(ms)}

(* The process dies: only the transcript is left.                          *)
Crash ==
  /\ pc # "down" /\ crashes < MaxCrashes
  /\ crashes' = crashes + 1
  /\ messages' = <<>> /\ persisted' = 0 /\ UNCHANGED transcript
  /\ interrupted' = FALSE /\ breaker' = 0 /\ attempts' = 0 /\ collapsed' = {}
  /\ pc' = "down" /\ turnCount' = 0
  /\ calls' = <<>> /\ text' = NoText /\ parsed' = <<>> /\ detector' = Detector!Fresh
  /\ stage' = <<>> /\ late' = {} /\ past' = {} /\ isLocal' \in Locals
  /\ abandoned' = abandoned \cup CallsOfLast(transcript)
  /\ UNCHANGED <<nextId, prompts, ran>>

(* A new process started with --continue: setMessages(load(sessionId)).    *)
Resume ==
  /\ pc = "down"
  /\ messages' = Load(transcript)
  /\ persisted' = Len(transcript)
  /\ pc' = "idle"
  /\ UNCHANGED <<transcript, interrupted, recovery, turnCount, reply, detector,
                 world, executed>>

(* The user has no further prompt.                                         *)
Quiet == pc = "idle" /\ prompts = MaxPrompts /\ UNCHANGED vars

Turn == LoopExit \/ BudgetExceeded \/ BeginTurn
Stream == StreamText \/ StreamToolUse
StreamEnds == ApiTooLong \/ ApiOverloaded \/ ApiFails \/ RetryAfterMaxTokens \/ AddAssistant
ServeTool == \/ AbandonSerial
             \/ \E i \in DOMAIN stage :
                  ProcessToolUse(i) \/ StartTool(i) \/ RefuseTool(i) \/ FinishTool(i)
ServeBatch == \/ LaunchesOver
              \/ \E i \in DOMAIN stage : LaunchWorker(i) \/ Collect(i)
Decide == Summarise \/ DetectLoop \/ ParseText \/ DetectTextLoop
Worker(i) == WorkerLooks(i) \/ WorkerStarts(i) \/ WorkerFinishes(i)

Engine == Turn \/ StreamEnds \/ ServeTool \/ ServeBatch \/ Decide \/ Complete

Next ==
  \/ Submit \/ Engine \/ Stream
  \/ \E i \in 1..MaxBatch : Worker(i)
  \/ Interrupt \/ SwitchModel \/ Crash \/ Resume \/ Quiet

Spec == Init /\ [][Next]_vars

(* The engine's thread runs while it can: a stream ends, a tool returns, a *)
(* permission prompt is answered; so does every thread of a batch.         *)
Fairness == WF_vars(Engine) /\ \A i \in 1..MaxBatch : WF_vars(Worker(i))
FairSpec == Spec /\ Fairness

-----------------------------------------------------------------------------
(* The type invariant: every variable holds a value its declaration in     *)
(* QueryEngine.h, or the local in submitMessage, can hold.                 *)
Phases == {"idle", "loop", "stream", "parse", "serve", "run", "serve text", "run text",
           "collect", "done", "down"}

Stages == {"serial", "gated", "executing", "answered", "queued", "launched", "looked",
           "running", "finished", "dropped"}

TypeOK ==
  /\ messages \in Seq(MessageOf(Ids)) /\ transcript \in Seq(MessageOf(Ids))
  /\ persisted \in Nat
  /\ interrupted \in BOOLEAN
  /\ breaker \in 0..MAX_COMPACTION_FAILURES /\ attempts \in 0..MAX_RECOVERY_ATTEMPTS
  /\ collapsed \subseteq Nat
  /\ pc \in Phases
  /\ turnCount \in Nat
  /\ calls \in Seq(Call) /\ text \in Texts \cup {NoText} /\ parsed \in Seq(Parsed)
  /\ stage \in Seq(Stages)
  /\ isLocal \in BOOLEAN /\ nextId \in Nat /\ prompts \in 0..MaxPrompts /\ crashes \in 0..MaxCrashes
  /\ ran \subseteq Call /\ late \subseteq Call /\ past \subseteq Call /\ abandoned \subseteq Ids

(* Whatever was interrupted, failed to open, crashed or was resumed, the   *)
(* transcript is the history up to lastPersistedIndex_: appendDelta never  *)
(* skips, repeats or reorders a message.  (Histories nothing shortens; a   *)
(* reply that turns out to be a call in text was written before that.)     *)
IsTextCall(m) == \E j \in DOMAIN m.uses : m.uses[j][1] = "text"
TranscriptIsPrefix ==
  pc # "down" =>
    /\ persisted <= Len(messages) /\ Len(transcript) = persisted
    /\ \A i \in 1..persisted :
         Restored(transcript[i]) = Restored(messages[i]) \/ IsTextCall(messages[i])

(* A tool the API called runs only once that call is in the transcript:    *)
(* "a hard exit loses at most the in-flight tool's result, never the       *)
(* assistant message and the tool calls that produced this turn".          *)
CallsAreOnDisk ==
  \A i \in DOMAIN stage :
    (At(i, "executing") \/ At(i, "running")) /\ calls[i].id[1] = "call" =>
      calls[i].id \in UsesOf(transcript)

(* Every tool_result in the history answers a tool_use of the assistant    *)
(* message its batch belongs to, once: partitioning, threads, interrupts   *)
(* and text formats never misplace a result, nor does --continue, which    *)
(* loses only the calls that were parsed from texts.                       *)
ResultsArePaired ==
  \A i \in DOMAIN messages : \A id \in messages[i].answers :
    crashes = 0 \/ id[1] = "call" => AnswersRequest(messages, i, id)

(* What --continue loads after a crash is well formed, too.                *)
TranscriptIsFaithful == TranscriptIsPrefix /\ ResultsArePaired

(* Whenever no call is being served - when the model is asked, in the first *)
(* turn of a prompt or a later one, when a prompt ends and after --continue *)
(* - every call the history holds, however old, has its result behind it,  *)
(* except for those Esc dropped before they were served and those of the   *)
(* last reply on disk when the process died.  (The code sends those as     *)
(* they are: nothing repairs the history.)                                 *)
AnsweredBehind(ms, i, id) == \E k \in (i + 1)..Len(ms) : id \in ms[k].answers
Settled(ms) ==
  \A i \in DOMAIN ms : \A j \in DOMAIN ms[i].uses :
    ms[i].uses[j] \in abandoned \/ AnsweredBehind(ms, i, ms[i].uses[j])

BatchIsOpen ==
  \/ pc \in {"serve", "run", "serve text", "run text"}
  \/ pc = "collect" /\ ~Collected
RequestIsAnswered == ~BatchIsOpen => Settled(messages)

(* The history never answers a call that was not made, nor twice, and no   *)
(* path through a batch, a refusal, a failure, a thread, a resume or a     *)
(* text format leaves a call open; only Esc and a crash do.                *)
HistoryIsAnswered == ResultsArePaired /\ RequestIsAnswered

(* Esc stops a batch: of what begins to execute after it, either all are   *)
(* calls whose threads had looked at interrupted_ before, or it is a single *)
(* one, on the engine's thread: the call at its gates, a reply's only call, *)
(* or one parsed from a text.                                              *)
LateStartsAreFew == \A c, d \in late : c = d \/ {c, d} \subseteq past

(* No tool outside the concurrency-safe ones executes unless the sub-agent *)
(* guard, the filter and the permission gate admitted it: the partition of *)
(* a batch never hands a stateful call to a thread, which has no gate.     *)
(* (The MCP route has no permission check, so a refusal does not reach it.)*)
UnsafeToolsAreGated ==
  \A c \in ran : c.tool \notin ConcurrencySafe =>
    /\ AllowSubagents \/ c.tool # AgentTool
    /\ AllowedTools = {} \/ c.tool \in AllowedTools
    /\ c.tool \in Registered \ McpTools => c.tool \notin Refused

(* QueryEngine.h: "Tool filter: if non-empty, only these tools are         *)
(* available (for sub-agents)".                                            *)
FilteredToolsNeverRun == \A c \in ran : ~Filtered(c)

(* Once MAX_COMPACTION_FAILURES trims in a row have failed, an API failure *)
(* that ends the prompt no longer rewrites the history: "we just preserve  *)
(* context and tell the user to wait".                                     *)
OpenBreakerKeepsHistory ==
  [][(pc = "stream" /\ pc' = "done" /\ breaker = MAX_COMPACTION_FAILURES) =>
       messages' \in {messages, WithReply}]_vars

(* Every prompt ends: submitMessage returns, or the process is gone.       *)
EveryPromptEnds == pc # "idle" ~> pc \in {"idle", "down"}

(* What a failing API may cost: the retries of one prompt end, and failures *)
(* of many prompts do not eat the history away.                            *)
FailuresAreBounded == OpenBreakerKeepsHistory /\ EveryPromptEnds
=============================================================================
