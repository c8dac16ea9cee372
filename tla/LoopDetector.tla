---------------------------- MODULE LoopDetector ----------------------------
(***************************************************************************)
(* The repetition detector of QueryEngine::submitMessage: the locals       *)
(* recentToolCalls, lastAssistantText, consecutiveRepeatCount,             *)
(* lastToolNameSet and sameToolNameStreak, as one record, and the two      *)
(* blocks of the turn loop that update them: one after a turn with native  *)
(* tool calls, one after a turn whose text was parsed as a tool call.      *)
(***************************************************************************)
EXTENDS Integers, Sequences

CONSTANTS
  Similar,                 \* pairs <<now, before>> of texts the code calls similar
  NoText,                  \* the empty assistant text
  kRepeatWarnThreshold, kRepeatBreakThreshold,
  kSameToolWarnThreshold, kSameToolBreakThreshold

Fresh == [recent |-> <<>>, text |-> NoText, repeats |-> 0, names |-> <<>>, streak |-> 0]

(* A signature is the tool names with the first bytes of their inputs.     *)
Signature(calls) == [i \in DOMAIN calls |-> <<calls[i].tool, calls[i].input>>]
NamesIn(signature) == [i \in DOMAIN signature |-> signature[i][1]]

IsRepeat(d, signature, text) ==
  /\ d.recent # <<>>
  /\ \/ signature = d.recent
     \/ /\ NamesIn(signature) = NamesIn(d.recent)
        /\ text # NoText /\ d.text # NoText
        /\ <<text, d.text>> \in Similar

(* Mutant: a turn that repeats nothing does not reset the count.           *)
AfterNativeNoReset(d, calls, text) ==
  LET signature == Signature(calls) IN
  [recent  |-> signature, text |-> text,
   repeats |-> IF IsRepeat(d, signature, text) THEN d.repeats + 1 ELSE d.repeats,
   names   |-> NamesIn(signature),
   streak  |-> IF NamesIn(signature) = d.names THEN d.streak + 1 ELSE 0]

AfterNative(d, calls, text) ==
  LET signature == Signature(calls) IN
  [recent  |-> signature,
   text    |-> text,
   repeats |-> IF IsRepeat(d, signature, text) THEN d.repeats + 1 ELSE 0,
   names   |-> NamesIn(signature),
   streak  |-> IF NamesIn(signature) = d.names THEN d.streak + 1 ELSE 0]

(* The text-based block compares signatures only and leaves the text, the  *)
(* name set and the streak as they were.                                   *)
(* Mutant: the signature of a text-based turn is not remembered.           *)
AfterTextualForgets(d, call) ==
  LET signature == Signature(<<call>>) IN
  [d EXCEPT !.repeats = IF d.recent # <<>> /\ signature = d.recent THEN d.repeats + 1 ELSE 0]

AfterTextual(d, call) ==
  LET signature == Signature(<<call>>) IN
  [d EXCEPT !.recent = signature,
            !.repeats = IF d.recent # <<>> /\ signature = d.recent THEN d.repeats + 1 ELSE 0]

StopsNative(d) == d.repeats >= kRepeatBreakThreshold \/ d.streak >= kSameToolBreakThreshold
(* Mutant: only exact repeats are warned about.                            *)
WarnsOnRepeats(d) == d.repeats >= kRepeatWarnThreshold
WarnsNative(d) == d.repeats >= kRepeatWarnThreshold \/ d.streak >= kSameToolWarnThreshold
StopsTextual(d) == d.repeats >= kRepeatBreakThreshold
WarnsTextual(d) == d.repeats >= kRepeatWarnThreshold
=============================================================================
