------------------------------ MODULE SizeCheck ------------------------------
(***************************************************************************)
(* The size check submitMessage makes before every request (core/          *)
(* QueryEngine.cpp), with what it calls: core/ContextCollapse.cpp, core/   *)
(* MessageSnip.cpp and the strategies of core/HistoryCompactor.h, on       *)
(* messages whose blocks have lengths.  One prompt after another makes the *)
(* history longer; the check estimates it, partly from the count the API   *)
(* reported last, and shrinks it in up to four layers.  Texts are ASCII:   *)
(* a length in characters stands for a text.  Module Compaction has the    *)
(* same rewrites with the calls they keep or orphan.                       *)
(***************************************************************************)
EXTENDS Integers, Sequences, FiniteSets, FiniteSetsExt

History == INSTANCE Messages

CONSTANTS
  Window,              \* the effective window: the model's less 20000
  CompactBuffer,       \* 13000
  BlockingBuffer,      \* 3000
  CollapseKeepRecent, SnipKeepRecent,                   \* 6 and 4
  AutoKeepRecent, ReactiveKeepRecent, MicroKeepRecent,  \* 10, 5 and 10
  CompactEvery,        \* 3 turns
  SummaryChars,        \* length of AutoCompactStrategy's summary
  TextSizes, ResultSizes,  \* lengths of what users, the model and tools say
  CacheHits,           \* may the API leave the cached part out of its count
  MaxBatch,            \* bound: calls of a reply
  MaxLength            \* bound: length of a history that grows

AUTOCOMPACT_THRESHOLD == Window - CompactBuffer
BLOCKING_LIMIT == Window - BlockingBuffer

VARIABLES
  messages,
  known, knownAt,   \* lastKnownInputTokens_, lastKnownTokensAtMessageIndex_
  collapsed,        \* contextCollapse_.collapsed_, by position
  estimate,         \* estimatedTokens
  turn,             \* turnCount, modulo CompactEvery
  pc,
  before,           \* the history this check began with
  shrunk            \* did this check find the history too large

vars == <<messages, known, knownAt, collapsed, estimate, turn, pc, before, shrunk>>

-----------------------------------------------------------------------------
Block(kind, chars) == [kind |-> kind, chars |-> chars]
Message(from, blocks) == [from |-> from, blocks |-> blocks]
Marked(m) == m.from \in {"summary", "notice"}     \* isMeta or isCompactSummary

Placeholder == 20         \* "[snipped: N chars]"
Notice == 40              \* what a rewrite says of itself
CallChars == 60           \* the name and the input of a tool_use

Positions(ms) == UNION {{i} \X DOMAIN ms[i].blocks : i \in DOMAIN ms}
At(ms, p) == ms[p[1]].blocks[p[2]]
Chars(ms, at) == MapThenSumSet(LAMBDA p : At(ms, p).chars, at)
Old(ms, keep) == {p \in Positions(ms) : p[1] <= Len(ms) - keep}

(* The estimate of the check: characters divided by 3, or by 4 for what    *)
(* was added since the API counted.                                        *)
Estimated(ms, at, ratio) == MapThenSumSet(LAMBDA p : At(ms, p).chars \div ratio, at)
estimateTokens(chars) == IF chars = 0 THEN 0 ELSE chars \div 4 + 1

(* The blocks at some positions are cut to a length.                       *)
Cut(ms, at, chars) ==
  [i \in DOMAIN ms |-> [ms[i] EXCEPT !.blocks =
     [b \in DOMAIN @ |-> IF <<i, b>> \in at THEN [@[b] EXCEPT !.chars = chars] ELSE @[b]]]]

-----------------------------------------------------------------------------
(* Layer 1: an old message of at least 50 tokens becomes a summary of its  *)
(* first call or result, or of its text.                                   *)
generateSummary(m) ==
  LET calls == {b \in DOMAIN m.blocks : m.blocks[b].kind # "text"}
      first == m.blocks[IF calls = {} THEN 1 ELSE Min(calls)].chars
  IN  Block("text", IF calls = {} THEN Min({first, 83}) ELSE Min({first, 50}) + 25)

ToCollapse(ms, done) ==
  {i \in 1..(Len(ms) - CollapseKeepRecent) :
     /\ ~Marked(ms[i]) /\ i \notin done
     /\ estimateTokens(Chars(ms, {i} \X DOMAIN ms[i].blocks)) >= 50}

collapseOldMessages(ms, now) ==
  [i \in DOMAIN ms |-> IF i \in now THEN [ms[i] EXCEPT !.blocks = <<generateSummary(ms[i])>>]
                       ELSE ms[i]]

(* Layer 2: the largest old blocks become placeholders until enough is     *)
(* freed; among blocks of one size any may go first.                       *)
Freed(ms, at) ==
  MapThenSumSet(LAMBDA p : estimateTokens(At(ms, p).chars) - estimateTokens(Placeholder), at)

(* Mutant: the recent messages are not spared.                             *)
CandidatesAnywhere(ms) ==
  {p \in Positions(ms) : /\ ~Marked(ms[p[1]]) /\ At(ms, p).kind \in {"text", "result"}
                         /\ estimateTokens(At(ms, p).chars) >= 30}

Candidates(ms) ==
  {p \in Old(ms, SnipKeepRecent) :
     /\ ~Marked(ms[p[1]]) /\ At(ms, p).kind \in {"text", "result"}
     /\ estimateTokens(At(ms, p).chars) >= 30}

snipLargest(ms, target) ==
  {at \in SUBSET Candidates(ms) :
     /\ \A p \in at, q \in Candidates(ms) \ at : At(ms, p).chars >= At(ms, q).chars
     /\ Freed(ms, at) >= target \/ at = Candidates(ms)
     /\ \A p \in at : (\A q \in at : At(ms, p).chars <= At(ms, q).chars)
                        => Freed(ms, at \ {p}) < target}

(* Layer 4: old results over 200 characters become placeholders, and if    *)
(* that is not enough, old texts over 200 characters lose their end.       *)
snipOldToolResults(ms) ==
  {p \in Old(ms, SnipKeepRecent) :
     ~Marked(ms[p[1]]) /\ At(ms, p).kind = "result" /\ At(ms, p).chars > 200}

LongTexts(ms) ==
  {p \in Old(ms, SnipKeepRecent) : At(ms, p).kind = "text" /\ At(ms, p).chars > 200}

-----------------------------------------------------------------------------
(* The strategies.  A summary takes the place of what is not recent; the   *)
(* split point steps over a call next to its result.                       *)
HasCall(m) == \E b \in DOMAIN m.blocks : m.blocks[b].kind = "use"

adjustSplitPoint(ms, point) ==
  LET back == IF point > 0 /\ ms[point + 1].from = "result" THEN point - 1 ELSE point
  IN  IF point >= Len(ms) THEN point
      ELSE IF back < Len(ms) - 1 /\ HasCall(ms[back + 1]) THEN back + 1
      ELSE back

Summarized(ms, keep, chars) ==
  LET start == adjustSplitPoint(ms, Len(ms) - keep)
  IN  IF Len(ms) <= keep + 2 \/ start <= 1 THEN ms
      ELSE <<Message("summary", <<Block("text", chars)>>)>> \o SubSeq(ms, start + 1, Len(ms))

MicroCompact(ms) ==
  LET old     == Old(ms, MicroKeepRecent)
      results == {p \in old : At(ms, p).kind = "result" /\ At(ms, p).chars > 2000}
      texts   == {p \in old : At(ms, p).kind = "text" /\ At(ms, p).chars > 3000}
      cut     == Cut(Cut(ms, results, 535), texts, 816)
      last    == Max({p[1] : p \in results \cup texts})
  IN  IF results \cup texts = {} THEN ms
      ELSE SubSeq(cut, 1, last) \o <<Message("notice", <<Block("text", Notice)>>)>>
             \o SubSeq(cut, last + 1, Len(cut))

estimateMessages(ms) == MapThenSumSet(LAMBDA p : At(ms, p).chars \div 4 + 1, Positions(ms))

(* ContextCollapseStrategy: three old results in a row, each right after a *)
(* message that called a reading tool, become notes.  A result is not such *)
(* a message, so the second of a batch does not count.                     *)
isReadOrSearchResult(ms, i) == ms[i].from = "result" /\ i > 1 /\ HasCall(ms[i - 1])

ReadRuns(ms) ==
  LET old == {i \in 1..(Len(ms) - MicroKeepRecent) : isReadOrSearchResult(ms, i)}
  IN  {i \in old : \E first \in (i - 2)..i : first..(first + 2) \subseteq old}

ContextCollapse(ms) ==
  Cut(ms, {p \in Positions(ms) : p[1] \in ReadRuns(ms) /\ At(ms, p).kind = "result"}, Notice)

(* The first strategy that is triggered runs.  EnhancedSnipStrategy waits  *)
(* for 80 %, behind AutoCompactStrategy with 75 %.                         *)
compactIfNeeded(ms) ==
  LET full == 100 * estimateMessages(ms)
  IN  CASE full > 95 * Window -> Summarized(ms, ReactiveKeepRecent, Notice)
        [] full > 75 * Window -> Summarized(ms, AutoKeepRecent, SummaryChars)
        [] full > 60 * Window -> MicroCompact(ms)
        [] OTHER -> ContextCollapse(ms)

(* ErrorRecovery::handlePromptTooLong: cut, or drop the notices, or        *)
(* summarize; there is at most one summary.                                *)
handlePromptTooLong(ms) ==
  LET fewer == History!Picked(ms, {i \in DOMAIN ms : ms[i].from # "notice"})
  IN  IF MicroCompact(ms) # ms THEN MicroCompact(ms)
      ELSE IF fewer # ms THEN fewer
      ELSE Summarized(ms, AutoKeepRecent, SummaryChars)

-----------------------------------------------------------------------------
Init ==
  /\ messages = <<>> /\ before = <<>>
  /\ known = 0 /\ knownAt = 0 /\ collapsed = {} /\ estimate = 0 /\ turn = 0
  /\ pc = "idle" /\ shrunk = FALSE

Submit ==
  /\ pc = "idle" /\ Len(messages) < MaxLength
  /\ \E n \in TextSizes : messages' = Append(messages, Message("user", <<Block("text", n)>>))
  /\ pc' = "turn" /\ turn' = 0
  /\ UNCHANGED <<known, knownAt, collapsed, estimate, before, shrunk>>

BeginTurn ==
  /\ pc = "turn"
  /\ turn' = (turn + 1) % CompactEvery
  /\ messages' = IF turn' = 0 THEN compactIfNeeded(messages) ELSE messages
  /\ pc' = "check"
  /\ UNCHANGED <<known, knownAt, collapsed, estimate, before, shrunk>>

Check ==
  /\ pc = "check"
  /\ estimate' = IF known > 0 /\ knownAt > 0
                 THEN known + Estimated(messages, {p \in Positions(messages) : p[1] > knownAt}, 4)
                 ELSE Estimated(messages, Positions(messages), 3)
  /\ shrunk' = (estimate' > AUTOCOMPACT_THRESHOLD)
  /\ pc' = IF shrunk' THEN "collapse" ELSE "block"
  /\ before' = messages
  /\ UNCHANGED <<messages, known, knownAt, collapsed, turn>>

Collapse ==
  /\ pc = "collapse"
  /\ LET now == ToCollapse(messages, collapsed)
         Tokens(ms) == MapThenSumSet(LAMBDA i : estimateTokens(Chars(ms, {i} \X DOMAIN ms[i].blocks)), now)
     IN  /\ messages' = collapseOldMessages(messages, now)
         /\ collapsed' = collapsed \cup now
         /\ estimate' = estimate - (Tokens(messages) - Tokens(messages'))
  /\ pc' = "snip"
  /\ UNCHANGED <<known, knownAt, turn, before, shrunk>>

Snip ==
  /\ pc = "snip"
  /\ LET target == estimate - (AUTOCOMPACT_THRESHOLD * 4) \div 5 IN
     IF estimate > AUTOCOMPACT_THRESHOLD /\ target > 0
     THEN \E at \in snipLargest(messages, target) :
            /\ messages' = Cut(messages, at, Placeholder)
            /\ estimate' = estimate - Freed(messages, at)
     ELSE UNCHANGED <<messages, estimate>>
  /\ pc' = "compact"
  /\ UNCHANGED <<known, knownAt, collapsed, turn, before, shrunk>>

Compact ==
  /\ pc = "compact" /\ pc' = "block"
  /\ IF estimate > AUTOCOMPACT_THRESHOLD
     THEN /\ messages' = Summarized(messages, AutoKeepRecent, SummaryChars)
          /\ collapsed' = {} /\ known' = 0 /\ knownAt' = 0
          /\ estimate' = Estimated(messages', {p \in Positions(messages') :
                                                 At(messages', p).kind # "use"}, 3)
     ELSE UNCHANGED <<messages, collapsed, known, knownAt, estimate>>
  /\ UNCHANGED <<turn, before, shrunk>>

(* The brute force leaves the estimate as it is.                           *)
Truncate ==
  /\ pc = "block" /\ pc' = "ask"
  /\ LET at   == snipOldToolResults(messages)
         left == estimate - Freed(messages, at)
         cut  == Cut(messages, at, Placeholder)
     IN  IF estimate > BLOCKING_LIMIT
         THEN /\ estimate' = left
              /\ messages' = IF left > BLOCKING_LIMIT THEN Cut(cut, LongTexts(cut), 162) ELSE cut
         ELSE UNCHANGED <<messages, estimate>>
  /\ UNCHANGED <<known, knownAt, collapsed, turn, before, shrunk>>

-----------------------------------------------------------------------------
(* The API counts what it read, or, when the prefix of the request was in  *)
(* its cache, only the rest of it.                                         *)
Usage ==
  {Estimated(messages, Positions(messages), 4)} \cup
    IF CacheHits THEN {Estimated(messages, {p \in Positions(messages) : p[1] = Len(messages)}, 4)} ELSE {}

Answered == estimate' = 0 /\ before' = <<>> /\ shrunk' = FALSE

Reply ==
  /\ pc = "ask" /\ Len(messages) < MaxLength
  /\ \E n \in Usage \cup {0} : IF n > 0 THEN known' = n /\ knownAt' = Len(messages)
                               ELSE UNCHANGED <<known, knownAt>>
  /\ \/ /\ \E n \in TextSizes :
             messages' = Append(messages, Message("assistant", <<Block("text", n)>>))
        /\ pc' = "idle"
     \/ /\ \E calls \in 1..Min({MaxBatch, MaxLength - Len(messages)}) :
              \E size \in [1..calls -> ResultSizes] :
             messages' = Append(messages, Message("assistant", [i \in 1..calls |-> Block("use", CallChars)]))
                           \o [i \in 1..calls |-> Message("result", <<Block("result", size[i])>>)]
        /\ pc' = "turn"
  /\ Answered /\ UNCHANGED <<collapsed, turn>>

ApiFails ==
  /\ pc = "ask" /\ pc' = "idle"
  /\ Answered /\ UNCHANGED <<messages, known, knownAt, collapsed, turn>>

TooLong ==
  /\ pc = "ask"
  /\ messages' = handlePromptTooLong(messages)
  /\ pc' = IF messages' # messages THEN "turn" ELSE "idle"
  /\ Answered /\ UNCHANGED <<known, knownAt, collapsed, turn>>

Next == Submit \/ BeginTurn \/ Check \/ Collapse \/ Snip \/ Compact \/ Truncate
          \/ Reply \/ ApiFails \/ TooLong

Spec == Init /\ [][Next]_vars

-----------------------------------------------------------------------------
TypeOK ==
  /\ pc \in {"idle", "turn", "check", "collapse", "snip", "compact", "block", "ask"}
  /\ known \in Nat /\ knownAt \in Nat /\ collapsed \subseteq 1..(MaxLength + 1)
  /\ turn \in 0..(CompactEvery - 1)

(* Whatever the layers did to the history, the model sees the last         *)
(* messages as they were.                                                  *)
Last(ms) == SubSeq(ms, Max({1, Len(ms) - SnipKeepRecent + 1}), Len(ms))
RecentIsKept == pc = "ask" => Last(messages) = Last(before)

(* A request the check still takes for too large has nothing old left to   *)
(* cut: neither a long result nor, after the summary, a long text.         *)
CutToTheLimit ==
  pc = "ask" /\ estimate > BLOCKING_LIMIT
    => snipOldToolResults(messages) = {} /\ LongTexts(messages) = {}

(* The size check cuts all it may, and only what it may.                   *)
RequestsAreTrimmed == RecentIsKept /\ CutToTheLimit

(* QueryEngine.cpp: "Sizing to the REAL limit compacts BEFORE the request  *)
(* is rejected": a request over the limit was found to be.                 *)
OversizedIsShrunk ==
  pc = "ask" /\ Estimated(messages, Positions(messages), 4) > BLOCKING_LIMIT => shrunk
=============================================================================
