---------------------------- MODULE LoopDetection ----------------------------
(***************************************************************************)
(* The repetition detector over the turns of one prompt: the model keeps   *)
(* calling tools, natively or in its text, and the loop of submitMessage   *)
(* warns it and finally stops.  One step is one turn; the history of turns *)
(* is kept to say what a stop or a missing stop means.                     *)
(***************************************************************************)
EXTENDS LoopDetector, FiniteSets

CONSTANTS Batches, TextCalls, Texts, MaxTurns

VARIABLES
  detector,   \* the locals of submitMessage
  turns,      \* the turns taken: their signature, whether native, their text
  warned,     \* a warning was pushed to the history
  stopped     \* the loop was broken out of

vars == <<detector, turns, warned, stopped>>

Init == detector = Fresh /\ turns = <<>> /\ warned = FALSE /\ stopped = FALSE

NativeTurn(calls, text) ==
  /\ ~stopped /\ Len(turns) < MaxTurns
  /\ detector' = AfterNative(detector, calls, text)
  /\ turns' = Append(turns, [signature |-> Signature(calls), native |-> TRUE, text |-> text])
  /\ stopped' = StopsNative(detector')
  /\ warned' = (warned \/ (WarnsNative(detector') /\ ~stopped'))

TextualTurn(call) ==
  /\ ~stopped /\ Len(turns) < MaxTurns
  /\ detector' = AfterTextual(detector, call)
  /\ turns' = Append(turns, [signature |-> Signature(<<call>>), native |-> FALSE,
                             text |-> NoText])
  /\ stopped' = StopsTextual(detector')
  /\ warned' = (warned \/ (WarnsTextual(detector') /\ ~stopped'))

(* The loop is over, by a stop or by the turn limit.                       *)
Ended == (stopped \/ Len(turns) = MaxTurns) /\ UNCHANGED vars

Next ==
  \/ \E calls \in Batches, text \in Texts \cup {NoText} : NativeTurn(calls, text)
  \/ \E call \in TextCalls : TextualTurn(call)
  \/ Ended

Spec == Init /\ [][Next]_vars

-----------------------------------------------------------------------------
LastTurns(n) == SubSeq(turns, Len(turns) - n + 1, Len(turns))
NativesFrom(i) == {j \in i..Len(turns) : turns[j].native}
SameNames(ts) == \A i, j \in DOMAIN ts : NamesIn(ts[i].signature) = NamesIn(ts[j].signature)
SameCalls(ts) == \A i, j \in DOMAIN ts : ts[i].signature = ts[j].signature

(* The last turns all called the same tools, or the last native ones did.  *)
Repeats ==
  \/ /\ Len(turns) > kRepeatBreakThreshold
     /\ SameNames(LastTurns(kRepeatBreakThreshold + 1))
  \/ \E i \in DOMAIN turns :
        /\ Cardinality(NativesFrom(i)) > kSameToolBreakThreshold
        /\ SameNames([j \in NativesFrom(i) |-> turns[j]])

(* The very same call over and over, native, in text or mixed.             *)
RunsAway ==
  /\ Len(turns) > kRepeatBreakThreshold
  /\ SameCalls(LastTurns(kRepeatBreakThreshold + 1))

(* A prompt is cut short only when the model did repeat itself, and always *)
(* when it makes the very same call over and over; it was warned before.   *)
OnlyRunawaysAreStopped == (stopped => Repeats /\ warned) /\ (RunsAway => stopped)
=============================================================================
