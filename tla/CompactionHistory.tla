-------------------------- MODULE CompactionHistory --------------------------
(***************************************************************************)
(* A history that turns make longer and the compaction functions shorter,  *)
(* in any order: what a long session does to it.  One Turn appends what    *)
(* submitMessage appends for a turn with n tool calls.                     *)
(***************************************************************************)
EXTENDS Compaction, FiniteSets

CONSTANTS
  BatchSizes,      \* how many tools a turn may call
  Operations,      \* the compactions that may happen
  MaxLength, MaxCalls  \* bounds on the length of the history and on the calls

VARIABLES
  messages,
  turn,       \* numbers the tool calls
  before,     \* the history the last compaction worked on
  op          \* the last step

vars == <<messages, turn, before, op>>

Init == messages = <<User>> /\ turn = 0 /\ before = <<User>> /\ op = "none"

Became(ms, o) == messages' = ms /\ before' = messages /\ op' = o /\ UNCHANGED turn

Prompt ==
  /\ Len(messages) < MaxLength
  /\ messages' = Append(messages, User)
  /\ op' = "grow" /\ before' = <<>> /\ UNCHANGED turn

Turn(n) ==
  /\ Len(messages) + n < MaxLength /\ turn + n <= MaxCalls
  /\ LET Id(i) == <<"call", turn + i>> IN
     messages' = messages \o <<Assistant([i \in 1..n |-> Id(i)])>>
                   \o [i \in 1..n |-> ToolResult(Id(i))]
  /\ turn' = turn + n /\ op' = "grow" /\ before' = <<>>

Auto == AutoCompact(messages).count > 0 /\ Became(AutoCompact(messages).messages, "auto")

Reactive ==
  ReactiveCompact(messages).count > 0 /\ Became(ReactiveCompact(messages).messages, "reactive")

Micro == \E i \in DOMAIN messages :
           /\ Len(messages) < MaxLength
           /\ MicroCompact(messages, {i}).count > 0
           /\ Became(MicroCompact(messages, {i}).messages, "micro")

TooLong == LET trimmed == handlePromptTooLong(messages, {}) IN
           /\ trimmed.success
           /\ Became(trimmed.messages,
                     IF trimmed.messages = removeOldSystemMessages(messages) THEN "systems"
                     ELSE "fallback")

(* /resume loads what was written: flags and subtypes are gone.            *)
Reload == Became(Load(messages), "reload")

(* A session stops growing at the bound and has nothing left to compact.   *)
Stay == Len(messages) >= MaxLength /\ UNCHANGED vars

Next ==
  \/ Prompt \/ (\E n \in BatchSizes : Turn(n)) \/ Stay
  \/ "auto" \in Operations /\ Auto
  \/ "reactive" \in Operations /\ Reactive
  \/ "micro" \in Operations /\ Micro
  \/ "too_long" \in Operations /\ TooLong
  \/ "reload" \in Operations /\ Reload

Spec == Init /\ [][Next]_vars

-----------------------------------------------------------------------------
(* However often the history is compacted, it starts with its one summary: *)
(* a summary never piles up on another and never ends up inside.           *)
OneSummary ==
  \A i \in DOMAIN messages : messages[i].boundary = CompactBoundary => i = 1

(* What a summary drops is a prefix, and it keeps the recent messages: all *)
(* of them but the one the split point may step over.                      *)
RecentSurvives ==
  LET kept == IF op = "auto" THEN AutoKeepRecent - 1 ELSE ReactiveKeepRecent - 1
      Recent(ms) == SubSeq(ms, Len(ms) - kept + 1, Len(ms))
  IN  op \in {"auto", "reactive"} => Recent(messages) = Recent(before)

(* Compaction only ever orphans the results that lead the history, right   *)
(* after its boundaries: every other result still follows the assistant    *)
(* message that asked for it, with nothing but results and boundaries in   *)
(* between.                                                                *)
IsResultOrBoundary(m) == m.answers # {} \/ m.role = "system"
Leading(i) == \A j \in 1..i : IsResultOrBoundary(messages[j])
OrphansAreLeading ==
  \A i \in DOMAIN messages : \A id \in messages[i].answers :
    \/ Leading(i)
    \/ \E k \in 1..(i - 1) : /\ id \in UsesOf(<<messages[k]>>)
                            /\ \A j \in (k + 1)..(i - 1) : IsResultOrBoundary(messages[j])

(* Dropping old SYSTEM messages touches nothing of the dialogue.           *)
DialogueSurvives ==
  LET Dialogue(ms) == Picked(ms, OfDialogue(ms))
  IN  op = "systems" => Dialogue(messages) = Dialogue(before)

(* Prompts, turns, compactions of every kind and reloads, in any order,    *)
(* leave one summary, the recent messages, the dialogue and at most        *)
(* leading orphans.                                                        *)
RewritesAreSound == OneSummary /\ RecentSurvives /\ OrphansAreLeading /\ DialogueSurvives

(* AutoCompactStrategy.h: "Don't split between assistant tool_use and user *)
(* tool_result".                                                           *)
PairsAreNotSplit == op = "auto" /\ Paired(before) => Paired(messages)
=============================================================================
