----------------------------- MODULE Compaction -----------------------------
(***************************************************************************)
(* The functions that shrink a history: core/AutoCompactStrategy.h,        *)
(* core/ReactiveCompactStrategy.h, core/MicroCompactStrategy.h, core/      *)
(* ContextCollapseStrategy.h, core/HistoryCompactor.h, core/ErrorRecovery.h*)
(* and core/ContextCollapse.cpp.  Token estimates are data: how full the   *)
(* context is (a pressure) and which messages carry an oversized or        *)
(* substantial block (a set of positions) are parameters.  Truncating a    *)
(* block in place changes no field of the abstract message.                *)
(***************************************************************************)
EXTENDS Messages

CONSTANTS
  AutoKeepRecent,          \* 10 in AutoCompactStrategy::compact
  ReactiveKeepRecent,      \* 5 in ReactiveCompactStrategy::compact
  MicroKeepRecent,         \* 10 in MicroCompactStrategy::compact
  CollapseKeepRecent,      \* 6 in the pre-flight call of collapseOldMessages
  MAX_RECOVERY_ATTEMPTS    \* 3 in ErrorRecovery

ASSUME KeepRecentAssumption ==
  /\ AutoKeepRecent \in Nat /\ ReactiveKeepRecent \in Nat
  /\ MicroKeepRecent \in Nat /\ CollapseKeepRecent \in Nat
  /\ MAX_RECOVERY_ATTEMPTS \in Nat

(* The token estimate against the thresholds of the strategies.            *)
Pressures == {"low", "over60", "over75", "over95"}

-----------------------------------------------------------------------------
(* The split point counts the messages that are dropped, as in the code;   *)
(* ms[point + 1] is the first one kept.                                    *)
(* Mutant: the split point runs to the end.                                *)
splitPointAtEnd(ms, point) == Len(ms)

adjustSplitPoint(ms, point) ==
  LET back == IF point > 0 /\ ms[point + 1].flagged THEN point - 1 ELSE point
  IN  IF point >= Len(ms) THEN point
      ELSE IF back < Len(ms) - 1 /\ ms[back + 1].uses # <<>> THEN back + 1
      ELSE back

(* The body the auto and the reactive strategy share; the count is         *)
(* CompactMetadata::messagesSummarized.                                    *)
(* Mutant: the first message of the history is kept before the summary.    *)
SummarizedAfterFirst(ms, keepRecent) ==
  LET keepStart == adjustSplitPoint(ms, Len(ms) - keepRecent)
  IN  IF Len(ms) <= keepRecent + 2 \/ keepStart <= 1
      THEN [messages |-> ms, count |-> 0]
      ELSE [messages |-> <<ms[1], System(CompactBoundary)>> \o SubSeq(ms, keepStart + 1, Len(ms)),
            count |-> keepStart]

Summarized(ms, keepRecent) ==
  LET keepStart == adjustSplitPoint(ms, Len(ms) - keepRecent)
  IN  IF Len(ms) <= keepRecent + 2 \/ keepStart <= 1
      THEN [messages |-> ms, count |-> 0]
      ELSE [messages |-> <<System(CompactBoundary)>> \o SubSeq(ms, keepStart + 1, Len(ms)),
            count |-> keepStart]

AutoCompact(ms) == Summarized(ms, AutoKeepRecent)
ReactiveCompact(ms) == Summarized(ms, ReactiveKeepRecent)

(* Oversized blocks of the older messages are cut in place and a boundary  *)
(* goes right after the last message that had one.                         *)
MicroCompact(ms, oversized) ==
  LET cut == {i \in oversized : i <= Len(ms) - MicroKeepRecent}
      last == CHOOSE i \in cut : \A j \in cut : j <= i
  IN  IF cut = {} THEN [messages |-> ms, count |-> 0]
      ELSE [messages |-> SubSeq(ms, 1, last) \o <<System(MicroBoundary)>>
                           \o SubSeq(ms, last + 1, Len(ms)),
            count |-> 1]

(* HistoryCompactor::compactIfNeeded: the first strategy whose threshold   *)
(* is passed runs.  The collapse strategy rewrites result text only, and   *)
(* the snip strategy, at 0.80, is behind the auto strategy, at 0.75.       *)
compactIfNeeded(ms, pressure, oversized) ==
  CASE pressure = "over95" -> ReactiveCompact(ms).messages
    [] pressure = "over75" -> AutoCompact(ms).messages
    [] pressure = "over60" -> MicroCompact(ms, oversized).messages
    [] OTHER -> ms

forceCompact(ms) == AutoCompact(ms)

-----------------------------------------------------------------------------
OfDialogue(ms) == {i \in DOMAIN ms : ms[i].role # "system"}
Marks(ms) ==
  {i \in DOMAIN ms : ms[i].role = "system" /\ ms[i].boundary = CompactBoundary}
LastMark(ms) == {i \in Marks(ms) : \A j \in Marks(ms) : j <= i}

(* Mutant: what is kept is what the user wrote.                            *)
removeAllButUser(ms) == Picked(ms, {i \in DOMAIN ms : ms[i].role = "user"})

(* Only the last COMPACT_BOUNDARY survives among the SYSTEM messages.      *)
removeOldSystemMessages(ms) == Picked(ms, OfDialogue(ms) \cup LastMark(ms))

handlePromptTooLong(ms, oversized) ==
  LET micro == MicroCompact(ms, oversized)
      fewer == removeOldSystemMessages(ms)
      auto  == forceCompact(ms)
  IN  IF micro.count > 0 THEN [messages |-> micro.messages, success |-> TRUE]
      ELSE IF Len(fewer) < Len(ms) THEN [messages |-> fewer, success |-> TRUE]
      ELSE [messages |-> auto.messages,
            success  |-> auto.count > 0 /\ Len(auto.messages) < Len(ms)]

handleMaxOutputTokens(ms, attempt) ==
  IF attempt > MAX_RECOVERY_ATTEMPTS THEN [messages |-> ms, success |-> FALSE]
  ELSE [messages |-> forceCompact(ms).messages, success |-> forceCompact(ms).count > 0]

(* ContextCollapse::collapseOldMessages: a message of substantial content  *)
(* that was not collapsed before (by its index) becomes its summary text.  *)
CollapsedNow(ms, collapsed, substantial) ==
  {i \in substantial \ collapsed :
     i \in 1..(Len(ms) - CollapseKeepRecent) /\ ms[i].boundary = NoBoundary}

collapseOldMessages(ms, now) ==
  [i \in DOMAIN ms |-> IF i \in now THEN [ms[i] EXCEPT !.uses = <<>>, !.answers = {}]
                       ELSE ms[i]]
=============================================================================
