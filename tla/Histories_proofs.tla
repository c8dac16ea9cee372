-------------------------- MODULE Histories_proofs --------------------------
(***************************************************************************)
(* Theorems about the history of messages, for histories of any length:    *)
(* what its compactions and reloads keep (CompactionHistory), what the     *)
(* size check cuts (SizeCheck), what the clients send of it (Requests),    *)
(* and these three beside the others, in the specification that is run.    *)
(***************************************************************************)
EXTENDS MCFiles, Lists_proofs, SequenceTheorems, FiniteSetTheorems, NaturalsInduction,
        WellFoundedInduction, TLAPS

-----------------------------------------------------------------------------
(* The history and its compactions (CompactionHistory).                    *)

LEMMA RewritesPicks ==
    ASSUME NEW s, NEW A
    PROVE  Rewrites!Picked(s, A) = Lists!Picked(s, A)
  BY DEF Rewrites!Picked, Lists!Picked

CallIds == {"call"} \X Int

\* Messages as the program makes them: a boundary is of the system, and the system
\* calls and answers nothing.
MadeMessages == {m \in Rewrites!MessageOf(CallIds) :
               /\ m.boundary # Rewrites!NoBoundary => m.role = "system"
               /\ m.role = "system" => m.uses = <<>> /\ m.answers = {}}

Asks(m, id) == \E j \in DOMAIN m.uses : m.uses[j] = id
Beside(m) == m.answers # {} \/ m.role = "system"

\* OneSummary and OrphansAreLeading of a history.
SummaryLeads(ms) ==
  \A i \in 1..Len(ms) : ms[i].boundary = Rewrites!CompactBoundary => i = 1
HasAsker(ms, i, id) ==
  \E k \in 1..(i - 1) : Asks(ms[k], id) /\ \A j \in (k + 1)..(i - 1) : Beside(ms[j])
LeadsAll(ms, i) == \A j \in 1..i : Beside(ms[j])
Answered(ms) ==
  \A i \in 1..Len(ms) : \A id \in ms[i].answers : LeadsAll(ms, i) \/ HasAsker(ms, i, id)

LEMMA MessagesAre ==
    /\ Rewrites!User \in MadeMessages /\ Rewrites!User.boundary = "none"
    /\ Rewrites!User.answers = {} /\ Rewrites!User.role = "user"
    /\ \A n \in Nat : \A called \in [1..n -> CallIds] :
         /\ Rewrites!Assistant(called) \in MadeMessages /\ Rewrites!Assistant(called).boundary = "none"
         /\ Rewrites!Assistant(called).answers = {} /\ Rewrites!Assistant(called).uses = called
    /\ \A id \in CallIds :
         /\ Rewrites!ToolResult(id) \in MadeMessages /\ Rewrites!ToolResult(id).boundary = "none"
         /\ Rewrites!ToolResult(id).answers = {id}
    /\ \A b \in {Rewrites!CompactBoundary, Rewrites!MicroBoundary} :
         /\ Rewrites!System(b) \in MadeMessages /\ Rewrites!System(b).boundary = b
         /\ Rewrites!System(b).answers = {} /\ Rewrites!System(b).role = "system"
    /\ \A m \in MadeMessages :
         /\ Rewrites!Restored(m) \in MadeMessages /\ Rewrites!Restored(m).boundary = "none"
         /\ Rewrites!Restored(m).answers = m.answers /\ Rewrites!Restored(m).uses = m.uses
         /\ Rewrites!Restored(m).role = m.role
  <1> USE DEF MadeMessages, Rewrites!MessageOf, Rewrites!NoBoundary, Rewrites!CompactBoundary,
              Rewrites!MicroBoundary
  <1>0. <<>> \in Seq(CallIds)
    OBVIOUS
  <1>1. /\ Rewrites!User \in MadeMessages /\ Rewrites!User.boundary = "none"
        /\ Rewrites!User.answers = {} /\ Rewrites!User.role = "user"
    BY <1>0 DEF Rewrites!User
  <1>2. ASSUME NEW n \in Nat, NEW called \in [1..n -> CallIds]
        PROVE  /\ Rewrites!Assistant(called) \in MadeMessages /\ Rewrites!Assistant(called).boundary = "none"
               /\ Rewrites!Assistant(called).answers = {} /\ Rewrites!Assistant(called).uses = called
    <2>1. called \in Seq(CallIds)
      OBVIOUS
    <2> QED BY <2>1 DEF Rewrites!User, Rewrites!Assistant
  <1>3. ASSUME NEW id \in CallIds
        PROVE  /\ Rewrites!ToolResult(id) \in MadeMessages /\ Rewrites!ToolResult(id).boundary = "none"
               /\ Rewrites!ToolResult(id).answers = {id}
    BY <1>0 DEF Rewrites!User, Rewrites!ToolResult
  <1>4. ASSUME NEW b \in {Rewrites!CompactBoundary, Rewrites!MicroBoundary}
        PROVE  /\ Rewrites!System(b) \in MadeMessages /\ Rewrites!System(b).boundary = b
               /\ Rewrites!System(b).answers = {} /\ Rewrites!System(b).role = "system"
    BY <1>0 DEF Rewrites!User, Rewrites!System
  <1>5. ASSUME NEW m \in MadeMessages
        PROVE  /\ Rewrites!Restored(m) \in MadeMessages /\ Rewrites!Restored(m).boundary = "none"
               /\ Rewrites!Restored(m).answers = m.answers /\ Rewrites!Restored(m).uses = m.uses
               /\ Rewrites!Restored(m).role = m.role
    BY DEF Rewrites!Restored
  <1> QED BY <1>1, <1>2, <1>3, <1>4, <1>5

LEMMA UsesOfOne ==
    ASSUME NEW m, NEW id
    PROVE  id \in Rewrites!UsesOf(<<m>>) <=> Asks(m, id)
  <1>1. DOMAIN <<m>> = {1} /\ <<m>>[1] = m
    OBVIOUS
  <1>2. Rewrites!UsesOf(<<m>>) = {m.uses[j] : j \in DOMAIN m.uses}
    BY <1>1 DEF Rewrites!UsesOf
  <1> QED BY <1>2 DEF Asks

\* A history that only gets longer, each new result behind its call.
LEMMA AnsweredLonger ==
    ASSUME NEW old, NEW new, Len(old) \in Nat, Len(new) \in Nat, Len(old) <= Len(new),
           \A i \in 1..Len(old) : new[i] = old[i], Answered(old),
           \A i \in (Len(old) + 1)..Len(new) : \A id \in new[i].answers : HasAsker(new, i, id)
    PROVE  Answered(new)
  <1> SUFFICES ASSUME NEW i \in 1..Len(new), NEW id \in new[i].answers,
                      ~ HasAsker(new, i, id)
               PROVE  LeadsAll(new, i)
    BY DEF Answered
  <1>1. i \in 1..Len(old) /\ \A j \in 1..i : new[j] = old[j]
    OBVIOUS
  <1>2. ~ HasAsker(old, i, id)
    <2> SUFFICES ASSUME HasAsker(old, i, id) PROVE FALSE
      OBVIOUS
    <2>1. PICK k \in 1..(i - 1) : Asks(old[k], id) /\ \A j \in (k + 1)..(i - 1) : Beside(old[j])
      BY DEF HasAsker
    <2>2. new[k] = old[k] /\ \A j \in (k + 1)..(i - 1) : new[j] = old[j]
      BY <1>1
    <2> QED BY <2>1, <2>2 DEF HasAsker
  <1>3. LeadsAll(old, i)
    BY <1>1, <1>2 DEF Answered
  <1> QED BY <1>1, <1>3 DEF LeadsAll

\* o says of each message of the new history which of the old it is, 0 for one that was put
\* in: the order stays, and what is left out of the dialogue is its beginning.
Shorter(o, old, new) ==
  /\ o \in [1..Len(new) -> 0..Len(old)]
  /\ \A j \in 1..Len(new) :
       IF o[j] = 0 THEN new[j].role = "system" /\ new[j].answers = {}
       ELSE /\ new[j].role = old[o[j]].role /\ new[j].uses = old[o[j]].uses
            /\ new[j].answers = old[o[j]].answers
  /\ \A i, j \in 1..Len(new) : i < j /\ o[i] # 0 /\ o[j] # 0 => o[i] < o[j]
  /\ \A k \in 1..Len(old) : old[k].role # "system" =>
       \/ \E j \in 1..Len(new) : o[j] = k
       \/ \A j \in 1..Len(new) : o[j] # 0 => k < o[j]

LEMMA AnsweredShorter ==
    ASSUME NEW old, NEW new, Len(old) \in Nat, Len(new) \in Nat, Answered(old),
           \A i \in 1..Len(old) : old[i].role = "system" => old[i].uses = <<>>,
           NEW o, Shorter(o, old, new)
    PROVE  Answered(new)
  <1> SUFFICES ASSUME NEW j \in 1..Len(new), NEW id \in new[j].answers
               PROVE  LeadsAll(new, j) \/ HasAsker(new, j, id)
    BY DEF Answered
  <1>1. o[j] # 0 /\ o[j] \in 1..Len(old) /\ id \in old[o[j]].answers
    BY DEF Shorter
  <1>2. \A n \in 1..Len(new) : o[n] = 0 => Beside(new[n])
    BY DEF Shorter, Beside
  <1>3. \A n \in 1..Len(new) : o[n] # 0 => o[n] \in 1..Len(old) /\ (Beside(old[o[n]]) => Beside(new[n]))
    BY DEF Shorter, Beside
  <1>4. \A n \in 1..j : o[n] # 0 => o[n] \in 1..o[j]
    <2> TAKE n \in 1..j
    <2>1. n \in 1..Len(new) /\ (n = j \/ n < j)
      OBVIOUS
    <2>2. o[n] \in 0..Len(old) /\ o[j] \in 0..Len(old)
      BY <2>1 DEF Shorter
    <2>3. n < j /\ o[n] # 0 => o[n] < o[j]
      BY <1>1, <2>1 DEF Shorter
    <2> QED BY <2>1, <2>2, <2>3
  <1>5. CASE LeadsAll(old, o[j])
    <2>1. ASSUME NEW n \in 1..j PROVE Beside(new[n])
      <3>1. n \in 1..Len(new)
        OBVIOUS
      <3>2. CASE o[n] = 0
        BY <3>1, <3>2, <1>2
      <3>3. CASE o[n] # 0
        <4>1. Beside(old[o[n]])
          BY <3>3, <1>4, <1>5 DEF LeadsAll
        <4> QED BY <3>1, <3>3, <4>1, <1>3
      <3> QED BY <3>2, <3>3
    <2> QED BY <2>1 DEF LeadsAll
  <1>6. CASE ~ LeadsAll(old, o[j])
    <2>1. HasAsker(old, o[j], id)
      BY <1>1, <1>6 DEF Answered
    <2>2. PICK k \in 1..(o[j] - 1) : /\ Asks(old[k], id)
                                     /\ \A i \in (k + 1)..(o[j] - 1) : Beside(old[i])
      BY <2>1 DEF HasAsker
    <2>3. Beside(old[o[j]])
      BY <1>1 DEF Beside
    <2>4. k \in 1..Len(old) /\ k < o[j] /\ k \in Nat
      BY <1>1, <2>2
    <2>5. old[k].role # "system"
      <3>1. old[k].uses # <<>>
        BY <2>2 DEF Asks
      <3> QED BY <3>1, <2>4
    <2>6. CASE \E n \in 1..Len(new) : o[n] = k
      <3>1. PICK n \in 1..Len(new) : o[n] = k
        BY <2>6
      <3>2. n < j
        <4>1. n # j
          BY <2>4, <3>1
        <4>2. ~(j < n)
          <5>1. j < n /\ o[n] # 0 => o[j] < o[n]
            BY <1>1 DEF Shorter
          <5> QED BY <1>1, <2>4, <3>1, <5>1
        <4> QED BY <4>1, <4>2
      <3>3. Asks(new[n], id)
        <4>1. o[n] # 0
          BY <2>4, <3>1
        <4>2. new[n].uses = old[k].uses
          BY <3>1, <4>1 DEF Shorter
        <4> QED BY <2>2, <4>2 DEF Asks
      <3>4. ASSUME NEW i \in (n + 1)..(j - 1) PROVE Beside(new[i])
        <4>1. i \in 1..Len(new) /\ i \in 1..j /\ n < i /\ i < j
          OBVIOUS
        <4>2. CASE o[i] = 0
          BY <4>1, <4>2, <1>2
        <4>3. CASE o[i] # 0
          <5>1. k < o[i]
            <6>1. n < i /\ o[n] # 0 /\ o[i] # 0 => o[n] < o[i]
              BY <4>1 DEF Shorter
            <6> QED BY <2>4, <3>1, <4>1, <4>3, <6>1
          <5>2. o[i] < o[j]
            BY <1>1, <4>1, <4>3 DEF Shorter
          <5>3. o[i] \in (k + 1)..(o[j] - 1)
            BY <1>1, <1>3, <2>4, <4>1, <4>3, <5>1, <5>2
          <5>4. Beside(old[o[i]])
            BY <5>3, <2>2
          <5> QED BY <4>1, <4>3, <5>4, <1>3
        <4> QED BY <4>2, <4>3
      <3>5. n \in 1..(j - 1)
        BY <3>2
      <3>6. HasAsker(new, j, id)
        BY <3>3, <3>4, <3>5 DEF HasAsker
      <3> QED BY <3>6
    <2>7. CASE \A n \in 1..Len(new) : o[n] # 0 => k < o[n]
      <3>1. ASSUME NEW n \in 1..j PROVE Beside(new[n])
        <4>1. n \in 1..Len(new)
          OBVIOUS
        <4>2. CASE o[n] = 0
          BY <4>1, <4>2, <1>2
        <4>3. CASE o[n] # 0
          <5>1. o[n] \in (k + 1)..(o[j] - 1) \/ o[n] = o[j]
            BY <1>1, <1>3, <1>4, <2>4, <2>7, <4>1, <4>3
          <5>2. Beside(old[o[n]])
            BY <5>1, <2>2, <2>3
          <5> QED BY <4>1, <4>3, <5>2, <1>3
        <4> QED BY <4>2, <4>3
      <3> QED BY <3>1 DEF LeadsAll
    <2> QED BY <2>4, <2>5, <2>6, <2>7 DEF Shorter
  <1> QED BY <1>5, <1>6

\* A summary takes the place of all but the recent messages.
Recent(ms, keep) == SubSeq(ms, Len(ms) - (keep - 1) + 1, Len(ms))

LEMMA NothingAfter ==
    ASSUME NEW s, NEW m \in Int, NEW n \in Int, m > n
    PROVE  SubSeq(s, m, n) = <<>>
  OBVIOUS

LEMMA SplitPoint ==
    ASSUME NEW ms \in Seq(MadeMessages), NEW keep \in Nat, keep <= Len(ms)
    PROVE  LET at == Rewrites!adjustSplitPoint(ms, Len(ms) - keep)
           IN  at \in Int /\ at <= Len(ms) /\ at <= Len(ms) - keep + 1
  <1>1. Len(ms) \in Nat
    OBVIOUS
  <1> DEFINE p == Len(ms) - keep
             back == IF p > 0 /\ ms[p + 1].flagged THEN p - 1 ELSE p
  <1>2. p \in Nat
    BY <1>1
  <1>3. back \in Int /\ back <= p
    BY <1>2
  <1>4. Rewrites!adjustSplitPoint(ms, p)
          = IF p >= Len(ms) THEN p
            ELSE IF back < Len(ms) - 1 /\ ms[back + 1].uses # <<>> THEN back + 1 ELSE back
    BY DEF Rewrites!adjustSplitPoint
  <1> HIDE DEF back
  <1>5. CASE p >= Len(ms)
    BY <1>1, <1>2, <1>4, <1>5
  <1>6. CASE ~(p >= Len(ms))
    BY <1>1, <1>2, <1>3, <1>4, <1>6
  <1> QED BY <1>5, <1>6

LEMMA Summarizes ==
    ASSUME NEW ms \in Seq(MadeMessages), NEW keep \in Nat, SummaryLeads(ms), Answered(ms),
           Rewrites!Summarized(ms, keep).count > 0
    PROVE  LET new == Rewrites!Summarized(ms, keep).messages
           IN  /\ new \in Seq(MadeMessages) /\ SummaryLeads(new) /\ Answered(new)
               /\ Recent(new, keep) = Recent(ms, keep)
  <1> DEFINE L == Len(ms)
             at == Rewrites!adjustSplitPoint(ms, L - keep)
             mark == Rewrites!System(Rewrites!CompactBoundary)
             rest == SubSeq(ms, at + 1, L)
             new == <<mark>> \o rest
  <1>1. L \in Nat /\ \A i \in 1..L : ms[i] \in MadeMessages
    OBVIOUS
  <1>2. ~(L <= keep + 2 \/ at <= 1) /\ Rewrites!Summarized(ms, keep).messages = new
    <2> DEFINE all == Rewrites!Summarized(ms, keep)
    <2>1. all = IF L <= keep + 2 \/ at <= 1 THEN [messages |-> ms, count |-> 0]
                ELSE [messages |-> new, count |-> at]
      BY Zenon DEF Rewrites!Summarized
    <2>2. all.count > 0
      OBVIOUS
    <2> HIDE DEF all, L, at, new
    <2>3. ~(L <= keep + 2 \/ at <= 1)
      <3> SUFFICES ASSUME L <= keep + 2 \/ at <= 1 PROVE FALSE
        OBVIOUS
      <3>1. all = [messages |-> ms, count |-> 0]
        BY <2>1
      <3>2. all.count = 0
        BY <3>1
      <3> QED BY <2>2, <3>2
    <2>4. all = [messages |-> new, count |-> at]
      BY <2>1, <2>3
    <2>5. all.messages = new
      BY <2>4
    <2> QED BY <2>3, <2>5 DEF all
  <1> HIDE DEF L, at, new
  <1>3. keep <= L
    BY <1>1, <1>2
  <1>4. at \in Int /\ at <= L /\ at <= L - keep + 1
    BY <1>3, SplitPoint DEF at, L
  <1>5. at \in Nat /\ 1 < at /\ L - at \in Nat
    BY <1>1, <1>2, <1>4
  <1>6. rest \in Seq(MadeMessages) /\ Len(rest) = L - at
        /\ \A i \in 1..(L - at) : rest[i] = ms[at + i]
    <2>1. \A i \in (at + 1)..L : ms[i] \in MadeMessages
      BY <1>1, <1>5
    <2>2. /\ rest \in Seq(MadeMessages)
          /\ Len(rest) = IF at + 1 <= L THEN L - (at + 1) + 1 ELSE 0
          /\ \A i \in 1..(L - (at + 1) + 1) : rest[i] = ms[(at + 1) + i - 1]
      BY <1>1, <1>5, <2>1, SubSeqProperties
    <2>3. L - (at + 1) + 1 = L - at /\ \A i \in 1..(L - at) : (at + 1) + i - 1 = at + i
      BY <1>1, <1>5
    <2>4. Len(rest) = L - at
      BY <1>1, <1>5, <2>2
    <2> QED BY <2>2, <2>3, <2>4
  <1>7. mark \in MadeMessages /\ mark.role = "system" /\ mark.answers = {}
    BY MessagesAre
  <1> HIDE DEF rest, mark
  <1>8. new \in Seq(MadeMessages) /\ Len(new) = L - at + 1 /\ new[1] = mark
        /\ \A j \in 2..(L - at + 1) : new[j] = ms[at + j - 1]
    <2>1. <<mark>> \in Seq(MadeMessages) /\ Len(<<mark>>) = 1 /\ <<mark>>[1] = mark
      BY <1>7
    <2>2. /\ new \in Seq(MadeMessages) /\ Len(new) = 1 + Len(rest)
          /\ \A j \in 1..(1 + Len(rest)) : new[j] = IF j <= 1 THEN <<mark>>[j] ELSE rest[j - 1]
      BY <2>1, <1>6, ConcatProperties DEF new
    <2>3. \A j \in 2..(L - at + 1) : j - 1 \in 1..(L - at) /\ j \in 1..(1 + Len(rest)) /\ ~(j <= 1)
                                     /\ at + (j - 1) = at + j - 1
      BY <1>5, <1>6
    <2>4. 1 \in 1..(1 + Len(rest)) /\ 1 + Len(rest) = L - at + 1
      BY <1>5, <1>6
    <2>5. new[1] = mark
      BY <2>1, <2>2, <2>4
    <2>6. \A j \in 2..(L - at + 1) : new[j] = ms[at + j - 1]
      BY <1>6, <2>2, <2>3
    <2> QED BY <2>2, <2>4, <2>5, <2>6
  <1>9. SummaryLeads(new)
    <2> SUFFICES ASSUME NEW j \in 1..Len(new), new[j].boundary = Rewrites!CompactBoundary, j # 1
                 PROVE  FALSE
      BY DEF SummaryLeads
    <2>1. j \in 2..(L - at + 1) /\ at + j - 1 \in 1..L /\ at + j - 1 # 1
      BY <1>1, <1>5, <1>8
    <2> QED BY <2>1, <1>8 DEF SummaryLeads, L
  <1>10. Answered(new)
    <2> DEFINE o == [j \in 1..Len(new) |-> IF j = 1 THEN 0 ELSE at + j - 1]
    <2>1. \A j \in 1..Len(new) : o[j] = IF j = 1 THEN 0 ELSE at + j - 1
      OBVIOUS
    <2>2. \A j \in 1..Len(new) : o[j] \in 0..Len(ms)
      BY <1>1, <1>5, <1>8, <2>1 DEF L
    <2>3. o \in [1..Len(new) -> 0..Len(ms)]
      BY <2>2
    <2> HIDE DEF o
    <2>4. ASSUME NEW j \in 1..Len(new)
          PROVE  IF o[j] = 0 THEN new[j].role = "system" /\ new[j].answers = {}
                 ELSE /\ new[j].role = ms[o[j]].role /\ new[j].uses = ms[o[j]].uses
                      /\ new[j].answers = ms[o[j]].answers
      <3>1. CASE j = 1
        BY <3>1, <1>7, <1>8, <2>1
      <3>2. CASE j # 1
        <4>1. j \in 2..(L - at + 1) /\ at + j - 1 # 0
          BY <3>2, <1>5, <1>8
        <4> QED BY <3>2, <4>1, <1>8, <2>1
      <3> QED BY <3>1, <3>2
    <2>5. \A i, j \in 1..Len(new) : i < j /\ o[i] # 0 /\ o[j] # 0 => o[i] < o[j]
      BY <1>5, <1>8, <2>1
    <2>6. ASSUME NEW k \in 1..Len(ms)
          PROVE  \/ \E j \in 1..Len(new) : o[j] = k
                 \/ \A j \in 1..Len(new) : o[j] # 0 => k < o[j]
      <3>1. CASE k > at
        <4>1. k - at + 1 \in 1..Len(new) /\ k - at + 1 # 1 /\ at + (k - at + 1) - 1 = k
          BY <3>1, <1>1, <1>5, <1>8 DEF L
        <4>2. o[k - at + 1] = k
          BY <4>1, <2>1
        <4> QED BY <4>1, <4>2
      <3>2. CASE k <= at
        <4>1. \A j \in 1..Len(new) : o[j] # 0 => k < o[j]
          BY <3>2, <1>5, <1>8, <2>1
        <4> QED BY <4>1
      <3> QED BY <3>1, <3>2, <1>5
    <2>7. Shorter(o, ms, new)
      BY <2>3, <2>4, <2>5, <2>6 DEF Shorter
    <2>8. \A i \in 1..Len(ms) : ms[i].role = "system" => ms[i].uses = <<>>
      BY <1>1 DEF L, MadeMessages
    <2>9. Len(new) \in Nat /\ Len(ms) \in Nat
      BY <1>1, <1>8, <1>5 DEF L
    <2> QED BY <2>7, <2>8, <2>9, AnsweredShorter
  <1>11. Recent(new, keep) = Recent(ms, keep)
    <2> DEFINE N == Len(new)
               a == SubSeq(new, N - (keep - 1) + 1, N)
               b == SubSeq(ms, L - (keep - 1) + 1, L)
    <2>1. N = L - at + 1 /\ N \in Nat
      BY <1>5, <1>8
    <2>2. \A j \in 1..N : new[j] \in MadeMessages
      BY <1>8
    <2> HIDE DEF N
    <2>3. CASE keep <= 1
      <3>1. N - (keep - 1) + 1 > N /\ L - (keep - 1) + 1 > L
            /\ N - (keep - 1) + 1 \in Int /\ L - (keep - 1) + 1 \in Int
        BY <2>1, <2>3, <1>1
      <3>2. a = <<>> /\ b = <<>>
        <4>1. PICK m, l : m = N - (keep - 1) + 1 /\ l = L - (keep - 1) + 1
          OBVIOUS
        <4>2. m \in Int /\ m > N /\ l \in Int /\ l > L
          BY <3>1, <4>1
        <4>3. SubSeq(new, m, N) = <<>> /\ SubSeq(ms, l, L) = <<>>
          BY <4>2, <2>1, <1>1, NothingAfter
        <4> QED BY <4>1, <4>3
      <3> QED BY <3>2 DEF Recent, N, L
    <2>4. CASE keep > 1
      <3>1. keep - 1 \in Nat /\ N - (keep - 1) + 1 \in 2..(N + 1) /\ L - (keep - 1) + 1 \in 1..(L + 1)
        BY <2>1, <2>4, <1>1, <1>2, <1>4
      <3>2. N - (N - (keep - 1) + 1) + 1 = keep - 1 /\ L - (L - (keep - 1) + 1) + 1 = keep - 1
        BY <2>1, <1>1
      <3>3. N - (keep - 1) + 1 <= N /\ L - (keep - 1) + 1 <= L
        BY <2>1, <2>4, <1>1
      <3>4. a \in Seq(MadeMessages) /\ Len(a) = keep - 1
            /\ \A i \in 1..(keep - 1) : a[i] = new[(N - (keep - 1) + 1) + i - 1]
        <4>1. N - (keep - 1) + 1 \in 1..(N + 1)
          BY <3>1
        <4>2. \A i \in (N - (keep - 1) + 1)..N : new[i] \in MadeMessages
          BY <4>1, <2>1, <2>2
        <4>3. new \in Seq(MadeMessages)
          BY <1>8
        <4>4. PICK m : m = N - (keep - 1) + 1
          OBVIOUS
        <4>5. m \in 1..(N + 1) /\ m <= N /\ N - m + 1 = keep - 1 /\ \A i \in m..N : new[i] \in MadeMessages
          BY <4>1, <4>2, <4>4, <3>2, <3>3
        <4>6. SubSeq(new, m, N) \in Seq(MadeMessages) /\ Len(SubSeq(new, m, N)) = keep - 1
              /\ \A i \in 1..(keep - 1) : SubSeq(new, m, N)[i] = new[m + i - 1]
          BY <4>3, <4>5, <2>1, SubSeqProperties DEF N
        <4> QED BY <4>4, <4>6
      <3>5. b \in Seq(MadeMessages) /\ Len(b) = keep - 1
            /\ \A i \in 1..(keep - 1) : b[i] = ms[(L - (keep - 1) + 1) + i - 1]
        <4>1. PICK m : m = L - (keep - 1) + 1
          OBVIOUS
        <4>2. m \in 1..(L + 1) /\ m <= L /\ L - m + 1 = keep - 1 /\ \A i \in m..L : ms[i] \in MadeMessages
          BY <4>1, <3>1, <3>2, <3>3, <1>1
        <4>3. SubSeq(ms, m, L) \in Seq(MadeMessages) /\ Len(SubSeq(ms, m, L)) = keep - 1
              /\ \A i \in 1..(keep - 1) : SubSeq(ms, m, L)[i] = ms[m + i - 1]
          BY <4>2, <1>1, SubSeqProperties DEF L
        <4> QED BY <4>1, <4>3
      <3>6. ASSUME NEW i \in 1..(keep - 1) PROVE a[i] = b[i]
        <4>1. (N - (keep - 1) + 1) + i - 1 \in 2..(L - at + 1)
          BY <3>1, <2>1
        <4>2. at + ((N - (keep - 1) + 1) + i - 1) - 1 = (L - (keep - 1) + 1) + i - 1
          BY <3>1, <2>1, <1>1, <1>5
        <4> QED BY <4>1, <4>2, <3>4, <3>5, <1>8
      <3> HIDE DEF a, b
      <3>7. a = b
        BY <3>1, <3>4, <3>5, <3>6, SeqEqual
      <3> QED BY <3>7 DEF a, b, Recent, N, L
    <2> QED BY <2>3, <2>4
  <1> QED BY <1>2, <1>8, <1>9, <1>10, <1>11 DEF new

\* The notice of the micro compaction goes between two messages.
LEMMA MicroCompacts ==
    ASSUME NEW ms \in Seq(MadeMessages), SummaryLeads(ms), Answered(ms), NEW i \in DOMAIN ms,
           Rewrites!MicroCompact(ms, {i}).count > 0
    PROVE  LET new == Rewrites!MicroCompact(ms, {i}).messages
           IN  new \in Seq(MadeMessages) /\ SummaryLeads(new) /\ Answered(new)
  <1> DEFINE L == Len(ms)
             cut == {j \in {i} : j <= L - MicroKeepRecent}
             last == CHOOSE j \in cut : \A k \in cut : k <= j
             mark == Rewrites!System(Rewrites!MicroBoundary)
             new == SubSeq(ms, 1, last) \o <<mark>> \o SubSeq(ms, last + 1, L)
             all == Rewrites!MicroCompact(ms, {i})
  <1>1. L \in Nat /\ \A j \in 1..L : ms[j] \in MadeMessages
    OBVIOUS
  <1>2. i \in 1..L
    OBVIOUS
  <1>3. all = IF cut = {} THEN [messages |-> ms, count |-> 0] ELSE [messages |-> new, count |-> 1]
    BY Zenon DEF Rewrites!MicroCompact
  <1>4. all.count > 0
    OBVIOUS
  <1>5. cut # {}
    <2> HIDE DEF all, new, last, cut
    <2> SUFFICES ASSUME cut = {} PROVE FALSE
      OBVIOUS
    <2>1. all = [messages |-> ms, count |-> 0]
      BY <1>3
    <2>2. all.count = 0
      BY <2>1
    <2> QED BY <1>4, <2>2
  <1>6. last = i
    <2>1. cut = {i}
      BY <1>5
    <2>2. last \in cut
      <3>1. \E j \in cut : \A k \in cut : k <= j
        BY <2>1, <1>2
      <3> QED BY <3>1
    <2> QED BY <2>1, <2>2
  <1> DEFINE a == SubSeq(ms, 1, i)
             b == SubSeq(ms, i + 1, L)
             made == a \o <<mark>> \o b
  <1>7. all.messages = made
    <2>1. all.messages = new
      <3> HIDE DEF all, new, last, cut
      <3>1. all = [messages |-> new, count |-> 1]
        BY <1>3, <1>5
      <3> QED BY <3>1
    <2> HIDE DEF all, mark
    <2> QED BY <1>6, <2>1
  <1> HIDE DEF all, new, last, cut, L
  <1>8. mark \in MadeMessages /\ mark.role = "system" /\ mark.answers = {}
        /\ mark.boundary # Rewrites!CompactBoundary
    BY MessagesAre DEF Rewrites!MicroBoundary, Rewrites!CompactBoundary
  <1> HIDE DEF mark
  <1>9. /\ made \in Seq(MadeMessages) /\ Len(made) = L + 1
        /\ \A j \in 1..i : made[j] = ms[j]
        /\ made[i + 1] = mark
        /\ \A j \in (i + 2)..(L + 1) : made[j] = ms[j - 1]
    <2>1. a \in Seq(MadeMessages) /\ Len(a) = i /\ \A j \in 1..i : a[j] = ms[j]
      <3>1. \A j \in 1..i : ms[j] \in MadeMessages
        BY <1>1, <1>2
      <3> QED BY <1>1, <1>2, <3>1 DEF L
    <2>2. b \in Seq(MadeMessages) /\ Len(b) = L - i /\ \A j \in 1..(L - i) : b[j] = ms[i + j]
      <3>1. \A j \in (i + 1)..L : ms[j] \in MadeMessages
        BY <1>1, <1>2
      <3> QED BY <1>1, <1>2, <3>1 DEF L
    <2> HIDE DEF a, b
    <2>3. PICK c : c = a \o <<mark>>
      OBVIOUS
    <2>4. <<mark>> \in Seq(MadeMessages) /\ Len(<<mark>>) = 1 /\ <<mark>>[1] = mark
      BY <1>8
    <2>5. /\ c \in Seq(MadeMessages) /\ Len(c) = Len(a) + 1
          /\ \A j \in 1..(Len(a) + 1) : c[j] = IF j <= Len(a) THEN a[j] ELSE <<mark>>[j - Len(a)]
      BY <2>1, <2>3, <2>4, ConcatProperties
    <2>6. Len(c) = i + 1 /\ (\A j \in 1..i : c[j] = ms[j]) /\ c[i + 1] = mark
      <3>1. \A j \in 1..i : j \in 1..(Len(a) + 1) /\ j <= Len(a)
        BY <1>2, <2>1
      <3>2. i + 1 \in 1..(Len(a) + 1) /\ ~(i + 1 <= Len(a)) /\ (i + 1) - Len(a) = 1
        <4>1. i \in Nat /\ Len(a) = i
          BY <1>1, <1>2, <2>1
        <4>2. i + 1 \in 1..(i + 1) /\ ~(i + 1 <= i) /\ (i + 1) - i = 1
          BY <4>1
        <4> QED BY <4>1, <4>2
      <3> QED BY <3>1, <3>2, <2>1, <2>4, <2>5
    <2>7. made = c \o b
      BY <2>3
    <2> HIDE DEF made
    <2>8. /\ made \in Seq(MadeMessages) /\ Len(made) = Len(c) + Len(b)
          /\ \A j \in 1..(Len(c) + Len(b)) : made[j] = IF j <= Len(c) THEN c[j] ELSE b[j - Len(c)]
      BY <2>2, <2>5, <2>7, ConcatProperties
    <2>9. Len(made) = L + 1 /\ Len(c) + Len(b) = L + 1
      BY <2>2, <2>6, <2>8, <1>1, <1>2
    <2>10. \A j \in 1..(i + 1) : j \in 1..(Len(c) + Len(b)) /\ j <= Len(c)
      BY <2>6, <2>9, <1>1, <1>2
    <2>11. (\A j \in 1..i : made[j] = ms[j]) /\ made[i + 1] = mark
      BY <2>6, <2>8, <2>10, <1>2
    <2>12. ASSUME NEW j \in (i + 2)..(L + 1) PROVE made[j] = ms[j - 1]
      <3>1. j \in 1..(Len(c) + Len(b)) /\ ~(j <= Len(c)) /\ j - Len(c) = j - (i + 1)
            /\ j - (i + 1) \in 1..(L - i) /\ i + (j - (i + 1)) = j - 1
        <4>1. i \in Nat /\ j \in Nat /\ j >= i + 2 /\ j <= L + 1 /\ Len(c) = i + 1
          BY <1>1, <1>2, <2>6
        <4>2. ~(j <= Len(c)) /\ j - Len(c) = j - (i + 1)
          BY <4>1
        <4>3. j \in 1..(Len(c) + Len(b))
          BY <4>1, <2>9, <1>1
        <4>4. j - (i + 1) \in 1..(L - i) /\ i + (j - (i + 1)) = j - 1
          BY <4>1, <1>1
        <4> QED BY <4>2, <4>3, <4>4
      <3> QED BY <3>1, <2>2, <2>8
    <2> QED BY <2>8, <2>9, <2>11, <2>12
  <1> HIDE DEF made
  <1>10. SummaryLeads(made)
    <2> SUFFICES ASSUME NEW j \in 1..Len(made), made[j].boundary = Rewrites!CompactBoundary
                 PROVE  j = 1
      BY DEF SummaryLeads
    <2>1. CASE j <= i
      <3>1. j \in 1..Len(ms) /\ made[j] = ms[j]
        BY <2>1, <1>1, <1>2, <1>9 DEF L
      <3> QED BY <3>1 DEF SummaryLeads
    <2>2. CASE j = i + 1
      BY <2>2, <1>8, <1>9
    <2>3. CASE j > i + 1
      <3>1. j - 1 \in 1..Len(ms) /\ made[j] = ms[j - 1] /\ j - 1 # 1
        BY <2>3, <1>1, <1>2, <1>9 DEF L
      <3> QED BY <3>1 DEF SummaryLeads
    <2> QED BY <2>1, <2>2, <2>3, <1>2
  <1>11. Answered(made)
    <2> DEFINE o == [j \in 1..Len(made) |-> IF j <= i THEN j ELSE IF j = i + 1 THEN 0 ELSE j - 1]
    <2>1. \A j \in 1..Len(made) : o[j] = IF j <= i THEN j ELSE IF j = i + 1 THEN 0 ELSE j - 1
      OBVIOUS
    <2>2. \A j \in 1..Len(made) : o[j] \in 0..Len(ms)
      BY <1>1, <1>2, <1>9, <2>1 DEF L
    <2>3. o \in [1..Len(made) -> 0..Len(ms)]
      BY <2>2
    <2> HIDE DEF o
    <2>4. ASSUME NEW j \in 1..Len(made)
          PROVE  IF o[j] = 0 THEN made[j].role = "system" /\ made[j].answers = {}
                 ELSE /\ made[j].role = ms[o[j]].role /\ made[j].uses = ms[o[j]].uses
                      /\ made[j].answers = ms[o[j]].answers
      <3>1. CASE j <= i
        <4>1. o[j] = j /\ o[j] # 0 /\ made[j] = ms[j]
          BY <3>1, <1>2, <1>9, <2>1
        <4> QED BY <4>1
      <3>2. CASE j = i + 1
        <4>1. o[j] = 0
          BY <3>2, <1>2, <2>1
        <4> QED BY <4>1, <3>2, <1>8, <1>9
      <3>3. CASE j > i + 1
        <4>1. o[j] = j - 1 /\ o[j] # 0
          BY <3>3, <1>2, <2>1
        <4>2. j \in (i + 2)..(L + 1)
          BY <3>3, <1>2, <1>9
        <4> QED BY <4>1, <4>2, <1>9
      <3> QED BY <3>1, <3>2, <3>3, <1>2
    <2>5. \A g, j \in 1..Len(made) : g < j /\ o[g] # 0 /\ o[j] # 0 => o[g] < o[j]
      BY <1>1, <1>2, <1>9, <2>1
    <2>6. ASSUME NEW k \in 1..Len(ms) PROVE \E j \in 1..Len(made) : o[j] = k
      <3>1. CASE k <= i
        <4>1. k \in 1..Len(made) /\ o[k] = k
          BY <3>1, <1>1, <1>2, <1>9, <2>1 DEF L
        <4> QED BY <4>1
      <3>2. CASE k > i
        <4>1. k + 1 \in 1..Len(made) /\ ~(k + 1 <= i) /\ k + 1 # i + 1
          BY <3>2, <1>1, <1>2, <1>9 DEF L
        <4>2. o[k + 1] = k
          BY <4>1, <2>1
        <4> QED BY <4>1, <4>2
      <3> QED BY <3>1, <3>2, <1>2
    <2>7. Shorter(o, ms, made)
      BY <2>3, <2>4, <2>5, <2>6 DEF Shorter
    <2>8. \A j \in 1..Len(ms) : ms[j].role = "system" => ms[j].uses = <<>>
      BY <1>1 DEF L, MadeMessages
    <2>9. Len(made) \in Nat /\ Len(ms) \in Nat
      BY <1>1, <1>9 DEF L
    <2> QED BY <2>7, <2>8, <2>9, AnsweredShorter
  <1> QED BY <1>7, <1>9, <1>10, <1>11 DEF all

\* Old boundaries are dropped: what is left is the dialogue and the summary.
LEMMA RemovesSystems ==
    ASSUME NEW ms \in Seq(MadeMessages), SummaryLeads(ms), Answered(ms)
    PROVE  LET new == Rewrites!removeOldSystemMessages(ms)
           IN  /\ new \in Seq(MadeMessages) /\ SummaryLeads(new) /\ Answered(new)
               /\ Rewrites!Picked(new, Rewrites!OfDialogue(new))
                    = Rewrites!Picked(ms, Rewrites!OfDialogue(ms))
  <1> DEFINE A == Rewrites!OfDialogue(ms) \cup Rewrites!LastMark(ms)
             new == Lists!Picked(ms, A)
             Q == {m \in MadeMessages : m.role # "system"}
  <1>1. Rewrites!removeOldSystemMessages(ms) = new
    BY RewritesPicks DEF Rewrites!removeOldSystemMessages
  <1>2. \A s \in Seq(MadeMessages) : Rewrites!OfDialogue(s) = Those(s, Q)
    BY DEF Rewrites!OfDialogue, Those
  <1>3. Those(ms, Q) \subseteq A
    BY <1>2
  <1>4. Len(ms) \in Nat /\ \A i \in 1..Len(ms) : ms[i] \in MadeMessages
    OBVIOUS
  <1> HIDE DEF A
  <1>5. new \in Seq(MadeMessages) /\ Len(new) \in Nat /\ IsFrom(new, ms, A)
    <2>1. new \in Seq(MadeMessages) /\ IsFrom(new, ms, A)
      BY PickedFrom
    <2> QED BY <2>1
  <1>6. Lists!Picked(new, Those(new, Q)) = Lists!Picked(ms, Those(ms, Q))
    BY <1>3, PickedTwice
  <1>7. Rewrites!Picked(new, Rewrites!OfDialogue(new))
          = Rewrites!Picked(ms, Rewrites!OfDialogue(ms))
    BY <1>2, <1>5, <1>6, RewritesPicks
  <1> HIDE DEF new
  <1>8. PICK f : From(f, new, ms, A)
    BY <1>5 DEF IsFrom
  <1>9. f \in [1..Len(new) -> 1..Len(ms)] /\ \A j \in 1..Len(new) : new[j] = ms[f[j]]
    BY <1>8 DEF From
  <1>10. SummaryLeads(new)
    <2> SUFFICES ASSUME NEW j \in 1..Len(new), new[j].boundary = Rewrites!CompactBoundary,
                        j # 1
                 PROVE  FALSE
      BY DEF SummaryLeads
    <2>1. f[j] = 1
      BY <1>9 DEF SummaryLeads
    <2>2. 1 \in 1..Len(new) /\ 1 < j
      BY <1>5
    <2>3. f[1] < f[j] /\ f[1] \in 1..Len(ms)
      BY <1>8, <2>2 DEF From
    <2> QED BY <2>1, <2>3
  <1>11. Answered(new)
    <2>1. f \in [1..Len(new) -> 0..Len(ms)] /\ \A j \in 1..Len(new) : f[j] # 0
      BY <1>4, <1>9
    <2>2. \A i, j \in 1..Len(new) : i < j => f[i] < f[j]
      BY <1>8 DEF From
    <2>3. ASSUME NEW k \in 1..Len(ms), ms[k].role # "system"
          PROVE  \E j \in 1..Len(new) : f[j] = k
      <3>1. k \in A
        <4>1. k \in Rewrites!OfDialogue(ms)
          BY <1>4, <2>3 DEF Rewrites!OfDialogue
        <4> QED BY <4>1 DEF A
      <3> QED BY <3>1, <1>8 DEF From
    <2>4. Shorter(f, ms, new)
      BY <2>1, <2>2, <2>3, <1>9 DEF Shorter
    <2>5. \A j \in 1..Len(ms) : ms[j].role = "system" => ms[j].uses = <<>>
      BY <1>4 DEF MadeMessages
    <2> QED BY <2>4, <2>5, <1>4, <1>5, AnsweredShorter
  <1> QED BY <1>1, <1>5, <1>7, <1>10, <1>11

LEMMA Loads ==
    ASSUME NEW ms \in Seq(MadeMessages), Answered(ms)
    PROVE  LET new == Rewrites!Load(ms)
           IN  new \in Seq(MadeMessages) /\ SummaryLeads(new) /\ Answered(new)
  <1> DEFINE new == Rewrites!Load(ms)
  <1>1. Len(ms) \in Nat /\ DOMAIN ms = 1..Len(ms) /\ \A i \in 1..Len(ms) : ms[i] \in MadeMessages
    OBVIOUS
  <1>2. new = [i \in 1..Len(ms) |-> Rewrites!Restored(ms[i])]
    BY <1>1 DEF Rewrites!Load
  <1>3. \A i \in 1..Len(ms) :
          /\ new[i] \in MadeMessages /\ new[i].boundary = "none" /\ new[i].answers = ms[i].answers
          /\ new[i].uses = ms[i].uses /\ new[i].role = ms[i].role
    BY <1>1, <1>2, MessagesAre
  <1>4. new \in Seq(MadeMessages) /\ Len(new) = Len(ms)
    BY <1>1, <1>2, <1>3
  <1> HIDE DEF new
  <1>5. SummaryLeads(new)
    BY <1>3, <1>4 DEF SummaryLeads, Rewrites!CompactBoundary
  <1>6. Answered(new)
    <2>1. PICK o : o = [j \in 1..Len(new) |-> j]
      OBVIOUS
    <2>2. o \in [1..Len(new) -> 0..Len(ms)] /\ \A j \in 1..Len(new) : o[j] = j /\ o[j] # 0
      BY <1>1, <1>4, <2>1
    <2>3. Shorter(o, ms, new)
      BY <1>3, <1>4, <2>2 DEF Shorter
    <2>4. \A j \in 1..Len(ms) : ms[j].role = "system" => ms[j].uses = <<>>
      BY <1>1 DEF MadeMessages
    <2> QED BY <2>3, <2>4, <1>1, <1>4, AnsweredShorter
  <1> QED BY <1>4, <1>5, <1>6 DEF new

\* A prompt and a turn make the history longer.
LEMMA Prompts ==
    ASSUME NEW ms \in Seq(MadeMessages), SummaryLeads(ms), Answered(ms)
    PROVE  LET new == Append(ms, Rewrites!User)
           IN  new \in Seq(MadeMessages) /\ SummaryLeads(new) /\ Answered(new)
  <1> DEFINE u == Rewrites!User
             new == Append(ms, u)
  <1>1. u \in MadeMessages /\ u.answers = {} /\ u.boundary # Rewrites!CompactBoundary
    BY MessagesAre DEF Rewrites!CompactBoundary
  <1> HIDE DEF u
  <1>2. new \in Seq(MadeMessages) /\ Len(new) = Len(ms) + 1 /\ Len(ms) \in Nat
        /\ new[Len(ms) + 1] = u /\ \A i \in 1..Len(ms) : new[i] = ms[i]
    BY <1>1
  <1> HIDE DEF new
  <1>3. SummaryLeads(new)
    BY <1>1, <1>2 DEF SummaryLeads
  <1>4. \A i \in (Len(ms) + 1)..Len(new) : \A id \in new[i].answers : HasAsker(new, i, id)
    BY <1>1, <1>2
  <1>5. Answered(new)
    BY <1>2, <1>4, AnsweredLonger
  <1> QED BY <1>2, <1>3, <1>5 DEF new, u

LEMMA Turns ==
    ASSUME NEW ms \in Seq(MadeMessages), SummaryLeads(ms), Answered(ms), NEW n \in Nat,
           NEW called \in [1..n -> CallIds]
    PROVE  LET new == ms \o <<Rewrites!Assistant(called)>>
                        \o [i \in 1..n |-> Rewrites!ToolResult(called[i])]
           IN  new \in Seq(MadeMessages) /\ SummaryLeads(new) /\ Answered(new)
  <1> DEFINE L == Len(ms)
             asks == Rewrites!Assistant(called)
             served == [i \in 1..n |-> Rewrites!ToolResult(called[i])]
             new == ms \o <<asks>> \o served
  <1>1. asks \in MadeMessages /\ asks.answers = {} /\ asks.boundary = "none" /\ asks.uses = called
    BY MessagesAre
  <1>2. served \in Seq(MadeMessages) /\ Len(served) = n
        /\ \A i \in 1..n : served[i].answers = {called[i]} /\ served[i].boundary = "none"
    <2>1. \A i \in 1..n : /\ served[i] \in MadeMessages /\ served[i].answers = {called[i]}
                          /\ served[i].boundary = "none"
      BY MessagesAre
    <2> QED BY <2>1
  <1> HIDE DEF asks, served
  <1>3. L \in Nat /\ \A i \in 1..L : ms[i] \in MadeMessages
    OBVIOUS
  <1>4. /\ new \in Seq(MadeMessages) /\ Len(new) = L + 1 + n
        /\ (\A i \in 1..L : new[i] = ms[i]) /\ new[L + 1] = asks
        /\ \A i \in 1..n : new[L + 1 + i] = served[i]
    <2>1. <<asks>> \in Seq(MadeMessages) /\ Len(<<asks>>) = 1 /\ <<asks>>[1] = asks
      BY <1>1
    <2>2. PICK c : c = ms \o <<asks>>
      OBVIOUS
    <2>3. /\ c \in Seq(MadeMessages) /\ Len(c) = Len(ms) + 1
          /\ \A j \in 1..(Len(ms) + 1) : c[j] = IF j <= Len(ms) THEN ms[j] ELSE <<asks>>[j - Len(ms)]
      BY <2>1, <2>2, ConcatProperties
    <2>4. (\A j \in 1..L : c[j] = ms[j]) /\ c[L + 1] = asks
      <3>1. L + 1 \in 1..(L + 1) /\ ~(L + 1 <= L) /\ (L + 1) - L = 1 /\ 1..L \subseteq 1..(L + 1)
        BY <1>3
      <3> QED BY <3>1, <2>1, <2>3 DEF L
    <2>a. new = c \o served
      BY <2>2
    <2> HIDE DEF new
    <2>5. /\ new \in Seq(MadeMessages) /\ Len(new) = Len(c) + Len(served)
          /\ \A j \in 1..(Len(c) + Len(served)) :
               new[j] = IF j <= Len(c) THEN c[j] ELSE served[j - Len(c)]
      BY <1>2, <2>3, <2>a, ConcatProperties
    <2>6. Len(c) = L + 1 /\ Len(served) = n
      BY <2>3, <1>2 DEF L
    <2>7. \A j \in 1..(L + 1) : new[j] = c[j]
      <3>1. \A j \in 1..(L + 1) : j \in 1..(L + 1 + n) /\ j <= L + 1
        BY <1>3
      <3> QED BY <3>1, <2>5, <2>6
    <2>8. ASSUME NEW i \in 1..n PROVE new[L + 1 + i] = served[i]
      <3>1. L + 1 + i \in 1..(L + 1 + n) /\ ~(L + 1 + i <= L + 1) /\ (L + 1 + i) - (L + 1) = i
        BY <1>3
      <3> QED BY <3>1, <2>5, <2>6
    <2> QED BY <2>4, <2>5, <2>6, <2>7, <2>8, <1>3
  <1> HIDE DEF new
  <1>5. \A i \in (L + 1)..Len(new) : new[i].boundary # Rewrites!CompactBoundary
    <2> TAKE i \in (L + 1)..Len(new)
    <2>1. CASE i = L + 1
      BY <2>1, <1>1, <1>4 DEF Rewrites!CompactBoundary
    <2>2. CASE i # L + 1
      <3>1. i - (L + 1) \in 1..n /\ L + 1 + (i - (L + 1)) = i
        BY <2>2, <1>3, <1>4
      <3>2. new[i] = served[i - (L + 1)]
        BY <3>1, <1>4
      <3> QED BY <3>1, <3>2, <1>2 DEF Rewrites!CompactBoundary
    <2> QED BY <2>1, <2>2
  <1>6. SummaryLeads(new)
    <2> SUFFICES ASSUME NEW j \in 1..Len(new), new[j].boundary = Rewrites!CompactBoundary
                 PROVE  j = 1
      BY DEF SummaryLeads
    <2>1. j \in 1..L
      BY <1>3, <1>4, <1>5
    <2> QED BY <2>1, <1>4 DEF SummaryLeads, L
  <1>7. ASSUME NEW i \in (L + 1)..Len(new), NEW id \in new[i].answers
        PROVE  HasAsker(new, i, id)
    <2>1. i # L + 1
      BY <1>1, <1>4
    <2>2. i - (L + 1) \in 1..n /\ L + 1 + (i - (L + 1)) = i
      BY <2>1, <1>3, <1>4
    <2>3. new[i] = served[i - (L + 1)]
      BY <2>2, <1>4
    <2>4. id = called[i - (L + 1)]
      BY <2>2, <2>3, <1>2
    <2>5. Asks(new[L + 1], id)
      BY <2>2, <2>4, <1>1, <1>4 DEF Asks
    <2>6. ASSUME NEW j \in ((L + 1) + 1)..(i - 1) PROVE Beside(new[j])
      <3>1. j - (L + 1) \in 1..n /\ L + 1 + (j - (L + 1)) = j
        BY <1>3, <1>4
      <3>2. new[j] = served[j - (L + 1)]
        BY <3>1, <1>4
      <3> QED BY <3>1, <3>2, <1>2 DEF Beside
    <2>7. L + 1 \in 1..(i - 1)
      BY <2>1, <1>3
    <2> QED BY <2>5, <2>6, <2>7 DEF HasAsker
  <1>8. Answered(new)
    <2>1. Len(ms) \in Nat /\ Len(new) \in Nat /\ Len(ms) <= Len(new)
      BY <1>3, <1>4 DEF L
    <2> QED BY <2>1, <1>4, <1>7, AnsweredLonger DEF L
  <1> QED BY <1>4, <1>6, <1>8 DEF new, asks, served

\* What a step leaves of the history, whatever it was.
RewritesInv ==
  /\ rewritesMessages \in Seq(MadeMessages) /\ turn \in Nat
  /\ SummaryLeads(rewritesMessages) /\ Answered(rewritesMessages)
  /\ Rewrites!RecentSurvives /\ Rewrites!DialogueSurvives

LEMMA RewritesInit == Rewrites!Init => RewritesInv
  <1> SUFFICES ASSUME Rewrites!Init PROVE RewritesInv
    OBVIOUS
  <1>1. rewritesMessages = <<Rewrites!User>> /\ turn = 0 /\ op = "none"
    BY DEF Rewrites!Init
  <1>2. <<>> \in Seq(MadeMessages) /\ Len(<<>>) = 0 /\ SummaryLeads(<<>>) /\ Answered(<<>>)
    BY DEF SummaryLeads, Answered
  <1>3. Append(<<>>, Rewrites!User) = <<Rewrites!User>>
    OBVIOUS
  <1>4. /\ rewritesMessages \in Seq(MadeMessages) /\ SummaryLeads(rewritesMessages)
        /\ Answered(rewritesMessages)
    BY <1>1, <1>2, <1>3, Prompts
  <1>5. Rewrites!RecentSurvives /\ Rewrites!DialogueSurvives
    BY <1>1 DEF Rewrites!RecentSurvives, Rewrites!DialogueSurvives
  <1> QED BY <1>1, <1>4, <1>5 DEF RewritesInv

LEMMA RewritesStep == RewritesInv /\ [Rewrites!Next]_rewritesVars => RewritesInv'
  <1> SUFFICES ASSUME RewritesInv, [Rewrites!Next]_rewritesVars PROVE RewritesInv'
    OBVIOUS
  <1> DEFINE ms == rewritesMessages
  <1>1. ms \in Seq(MadeMessages) /\ turn \in Nat /\ SummaryLeads(ms) /\ Answered(ms)
    BY DEF RewritesInv
  <1>2. AutoKeepRecent \in Nat /\ ReactiveKeepRecent \in Nat /\ BatchSizes \subseteq Nat
    BY RewritesAssumption
  <1>3. ASSUME UNCHANGED rewritesVars PROVE RewritesInv'
    BY <1>3 DEF RewritesInv, rewritesVars, Rewrites!RecentSurvives, Rewrites!DialogueSurvives
  \* A step of another kind than a summary or a removal need only keep the history in form.
  <1>4. ASSUME ms' \in Seq(MadeMessages), turn' \in Nat, SummaryLeads(ms'), Answered(ms'),
               op' \notin {"auto", "reactive", "systems"}
        PROVE  RewritesInv'
    BY <1>4 DEF RewritesInv, Rewrites!RecentSurvives, Rewrites!DialogueSurvives
  <1>5. ASSUME Rewrites!Prompt PROVE RewritesInv'
    <2>1. ms' = Append(ms, Rewrites!User) /\ op' = "grow" /\ turn' = turn
      BY <1>5 DEF Rewrites!Prompt
    <2>2. ms' \in Seq(MadeMessages) /\ SummaryLeads(ms') /\ Answered(ms')
      BY <1>1, <2>1, Prompts
    <2> QED BY <1>1, <1>4, <2>1, <2>2
  <1>6. ASSUME NEW n \in BatchSizes, Rewrites!Turn(n) PROVE RewritesInv'
    <2> DEFINE called == [i \in 1..n |-> <<"call", turn + i>>]
    <2>1. n \in Nat
      BY <1>2
    <2>2. called \in [1..n -> CallIds] /\ \A i \in 1..n : called[i] = <<"call", turn + i>>
      BY <1>1, <2>1 DEF CallIds
    <2>3. ms' = ms \o <<Rewrites!Assistant(called)>>
                  \o [i \in 1..n |-> Rewrites!ToolResult(<<"call", turn + i>>)]
      BY <1>6 DEF Rewrites!Turn
    <2>4. [i \in 1..n |-> Rewrites!ToolResult(<<"call", turn + i>>)]
            = [i \in 1..n |-> Rewrites!ToolResult(called[i])]
      BY <2>2
    <2> HIDE DEF called
    <2>5. turn' = turn + n /\ op' = "grow"
      BY <1>6 DEF Rewrites!Turn
    <2>6. ms' \in Seq(MadeMessages) /\ SummaryLeads(ms') /\ Answered(ms')
      BY <1>1, <2>1, <2>2, <2>3, <2>4, Turns
    <2>7. turn' \in Nat /\ op' \notin {"auto", "reactive", "systems"}
      BY <1>1, <2>1, <2>5
    <2> QED BY <1>4, <2>6, <2>7
  <1>7. ASSUME Rewrites!Auto PROVE RewritesInv'
    <2>1. /\ Rewrites!Summarized(ms, AutoKeepRecent).count > 0
          /\ ms' = Rewrites!Summarized(ms, AutoKeepRecent).messages
          /\ before' = ms /\ op' = "auto" /\ turn' = turn
      BY <1>7 DEF Rewrites!Auto, Rewrites!AutoCompact, Rewrites!Became
    <2>2. /\ ms' \in Seq(MadeMessages) /\ SummaryLeads(ms') /\ Answered(ms')
          /\ Recent(ms', AutoKeepRecent) = Recent(ms, AutoKeepRecent)
      BY <1>1, <1>2, <2>1, Summarizes
    <2>3. Recent(ms', AutoKeepRecent) = Recent(before', AutoKeepRecent)
      BY <2>1, <2>2
    <2>4. Rewrites!RecentSurvives'
      BY <2>1, <2>3 DEF Rewrites!RecentSurvives, Recent
    <2>5. Rewrites!DialogueSurvives'
      BY <2>1 DEF Rewrites!DialogueSurvives
    <2> QED BY <1>1, <2>1, <2>2, <2>4, <2>5 DEF RewritesInv
  <1>8. ASSUME Rewrites!Reactive PROVE RewritesInv'
    <2>1. /\ Rewrites!Summarized(ms, ReactiveKeepRecent).count > 0
          /\ ms' = Rewrites!Summarized(ms, ReactiveKeepRecent).messages
          /\ before' = ms /\ op' = "reactive" /\ turn' = turn
      BY <1>8 DEF Rewrites!Reactive, Rewrites!ReactiveCompact, Rewrites!Became
    <2>2. /\ ms' \in Seq(MadeMessages) /\ SummaryLeads(ms') /\ Answered(ms')
          /\ Recent(ms', ReactiveKeepRecent) = Recent(ms, ReactiveKeepRecent)
      BY <1>1, <1>2, <2>1, Summarizes
    <2>3. Recent(ms', ReactiveKeepRecent) = Recent(before', ReactiveKeepRecent)
      BY <2>1, <2>2
    <2>4. Rewrites!RecentSurvives'
      BY <2>1, <2>3 DEF Rewrites!RecentSurvives, Recent
    <2>5. Rewrites!DialogueSurvives'
      BY <2>1 DEF Rewrites!DialogueSurvives
    <2> QED BY <1>1, <2>1, <2>2, <2>4, <2>5 DEF RewritesInv
  <1>9. ASSUME Rewrites!Micro PROVE RewritesInv'
    <2>1. PICK i \in DOMAIN ms : /\ Rewrites!MicroCompact(ms, {i}).count > 0
                                 /\ ms' = Rewrites!MicroCompact(ms, {i}).messages
                                 /\ op' = "micro" /\ turn' = turn
      BY <1>9 DEF Rewrites!Micro, Rewrites!Became
    <2>2. ms' \in Seq(MadeMessages) /\ SummaryLeads(ms') /\ Answered(ms')
      BY <1>1, <2>1, MicroCompacts
    <2> QED BY <1>1, <1>4, <2>1, <2>2
  <1>10. ASSUME Rewrites!TooLong PROVE RewritesInv'
    <2> DEFINE fewer == Rewrites!removeOldSystemMessages(ms)
               auto == Rewrites!Summarized(ms, AutoKeepRecent)
               trimmed == Rewrites!handlePromptTooLong(ms, {})
    <2>1. ~(Rewrites!MicroCompact(ms, {}).count > 0)
      BY DEF Rewrites!MicroCompact
    <2>2. trimmed = IF Len(fewer) < Len(ms) THEN [messages |-> fewer, success |-> TRUE]
                    ELSE [messages |-> auto.messages,
                          success |-> auto.count > 0 /\ Len(auto.messages) < Len(ms)]
      BY <2>1, Zenon DEF Rewrites!handlePromptTooLong, Rewrites!forceCompact, Rewrites!AutoCompact
    <2>3. /\ trimmed.success /\ ms' = trimmed.messages /\ before' = ms /\ turn' = turn
          /\ op' = IF trimmed.messages = fewer THEN "systems" ELSE "fallback"
      BY <1>10, Zenon DEF Rewrites!TooLong, Rewrites!Became
    <2>4. /\ fewer \in Seq(MadeMessages) /\ SummaryLeads(fewer) /\ Answered(fewer)
          /\ Rewrites!Picked(fewer, Rewrites!OfDialogue(fewer))
               = Rewrites!Picked(ms, Rewrites!OfDialogue(ms))
      BY <1>1, RemovesSystems
    <2>5. auto.count > 0 => /\ auto.messages \in Seq(MadeMessages)
                            /\ SummaryLeads(auto.messages) /\ Answered(auto.messages)
      BY <1>1, <1>2, Summarizes
    <2> HIDE DEF fewer, auto, trimmed
    <2>6. ms' = fewer \/ (auto.count > 0 /\ ms' = auto.messages)
      <3>1. CASE Len(fewer) < Len(ms)
        <4>1. trimmed = [messages |-> fewer, success |-> TRUE]
          BY <2>2, <3>1
        <4>2. trimmed.messages = fewer
          BY <4>1
        <4> QED BY <2>3, <4>2
      <3>2. CASE ~(Len(fewer) < Len(ms))
        <4>1. trimmed = [messages |-> auto.messages,
                         success |-> auto.count > 0 /\ Len(auto.messages) < Len(ms)]
          BY <2>2, <3>2
        <4>2. trimmed.messages = auto.messages
              /\ trimmed.success = (auto.count > 0 /\ Len(auto.messages) < Len(ms))
          BY <4>1
        <4>3. auto.count > 0
          BY <2>3, <4>2
        <4> QED BY <2>3, <4>2, <4>3
      <3> QED BY <3>1, <3>2
    <2>7. ms' \in Seq(MadeMessages) /\ SummaryLeads(ms') /\ Answered(ms')
      BY <2>4, <2>5, <2>6
    <2>8. op' = "systems" => ms' = fewer
      BY <2>3
    <2>9. op' \in {"systems", "fallback"}
      BY <2>3
    <2>10. Rewrites!RecentSurvives'
      BY <2>9 DEF Rewrites!RecentSurvives
    <2>11. Rewrites!DialogueSurvives'
      <3>1. op' = "systems" => Rewrites!Picked(ms', Rewrites!OfDialogue(ms'))
                                 = Rewrites!Picked(before', Rewrites!OfDialogue(before'))
        BY <2>3, <2>4, <2>8
      <3> QED BY <3>1 DEF Rewrites!DialogueSurvives
    <2> QED BY <1>1, <2>3, <2>7, <2>10, <2>11 DEF RewritesInv
  <1>11. ASSUME Rewrites!Reload PROVE RewritesInv'
    <2>1. ms' = Rewrites!Load(ms) /\ op' = "reload" /\ turn' = turn
      BY <1>11 DEF Rewrites!Reload, Rewrites!Became
    <2>2. ms' \in Seq(MadeMessages) /\ SummaryLeads(ms') /\ Answered(ms')
      BY <1>1, <2>1, Loads
    <2> QED BY <1>1, <1>4, <2>1, <2>2
  <1>12. ASSUME Rewrites!Stay PROVE RewritesInv'
    BY <1>3, <1>12 DEF Rewrites!Stay, Rewrites!vars, rewritesVars
  <1> QED BY <1>3, <1>5, <1>6, <1>7, <1>8, <1>9, <1>10, <1>11, <1>12 DEF Rewrites!Next

LEMMA RewritesSound == RewritesInv => Rewrites!RewritesAreSound
  <1> SUFFICES ASSUME RewritesInv PROVE Rewrites!RewritesAreSound
    OBVIOUS
  <1> DEFINE ms == rewritesMessages
  <1>1. ms \in Seq(MadeMessages) /\ SummaryLeads(ms) /\ Answered(ms)
    BY DEF RewritesInv
  <1>2. DOMAIN ms = 1..Len(ms) /\ Len(ms) \in Nat
    BY <1>1
  <1>3. Rewrites!OneSummary
    BY <1>1, <1>2 DEF Rewrites!OneSummary, SummaryLeads
  <1>4. Rewrites!OrphansAreLeading
    <2> SUFFICES ASSUME NEW i \in DOMAIN ms, NEW id \in ms[i].answers
                 PROVE  \/ Rewrites!Leading(i)
                        \/ \E k \in 1..(i - 1) :
                             /\ id \in Rewrites!UsesOf(<<ms[k]>>)
                             /\ \A j \in (k + 1)..(i - 1) : Rewrites!IsResultOrBoundary(ms[j])
      BY DEF Rewrites!OrphansAreLeading
    <2>1. LeadsAll(ms, i) \/ HasAsker(ms, i, id)
      BY <1>1, <1>2 DEF Answered
    <2>2. CASE LeadsAll(ms, i)
      BY <2>2 DEF LeadsAll, Beside, Rewrites!Leading, Rewrites!IsResultOrBoundary
    <2>3. CASE HasAsker(ms, i, id)
      <3>1. PICK k \in 1..(i - 1) : Asks(ms[k], id) /\ \A j \in (k + 1)..(i - 1) : Beside(ms[j])
        BY <2>3 DEF HasAsker
      <3>2. id \in Rewrites!UsesOf(<<ms[k]>>)
        BY <3>1, UsesOfOne
      <3>3. \A j \in (k + 1)..(i - 1) : Rewrites!IsResultOrBoundary(ms[j])
        BY <3>1 DEF Beside, Rewrites!IsResultOrBoundary
      <3> QED BY <3>2, <3>3
    <2> QED BY <2>1, <2>2, <2>3
  <1> QED BY <1>3, <1>4 DEF Rewrites!RewritesAreSound, RewritesInv

\* However the history was compacted and reloaded, there is one summary at most,
\* and it is in front; each result follows its call or an orphan that leads; the
\* recent messages and the dialogue are those of before (core/QueryEngine.cpp and
\* the strategies of compact/, TranscriptStore::load).
THEOREM RewritesStaySound == Rewrites!Spec => []RewritesAreSound
  <1>1. UNCHANGED Rewrites!vars => UNCHANGED rewritesVars
    BY DEF Rewrites!vars, rewritesVars
  <1>2. RewritesInv => RewritesAreSound
    BY RewritesSound DEF RewritesAreSound
  <1>3. RewritesInv /\ [Rewrites!Next]_(Rewrites!vars) => RewritesInv'
    BY <1>1, RewritesStep
  <1> QED BY <1>2, <1>3, RewritesInit, PTL DEF Rewrites!Spec

-----------------------------------------------------------------------------
(* The sizeOf check (SizeCheck).                                             *)

Blocks == [kind : {"text", "use", "result"}, chars : Int]
SizeMessages ==
  [from : {"user", "assistant", "result", "summary", "notice"}, blocks : Seq(Blocks) \ {<<>>}]

\* The two histories end alike, in what the check must not touch.
SameEnd(ms, other) ==
  /\ Len(ms) = Len(other)
  /\ \A i \in 1..Len(ms) : i > Len(ms) - SnipKeepRecent => ms[i] = other[i]

LEMMA SizesMax ==
    ASSUME NEW n \in Int
    PROVE  Sizes!Max({1, n}) = IF n >= 1 THEN n ELSE 1
  <1>1. CASE n >= 1
    <2>1. \E x \in {1, n} : \A y \in {1, n} : x >= y
      BY <1>1
    <2>2. \A x \in {1, n} : (\A y \in {1, n} : x >= y) => x = n
      BY <1>1
    <2> QED BY <1>1, <2>1, <2>2 DEF Sizes!Max
  <1>2. CASE ~(n >= 1)
    <2>1. \E x \in {1, n} : \A y \in {1, n} : x >= y
      BY <1>2
    <2>2. \A x \in {1, n} : (\A y \in {1, n} : x >= y) => x = 1
      BY <1>2
    <2> QED BY <1>2, <2>1, <2>2 DEF Sizes!Max
  <1> QED BY <1>1, <1>2

\* The greatest of some positions of a list.
LEMMA SizesLast ==
    ASSUME NEW n \in Nat, NEW N, N \subseteq 1..n, N # {}
    PROVE  Sizes!Max(N) \in N
  <1> DEFINE gaps == {n - i : i \in N}
  <1>1. gaps \subseteq Nat /\ gaps # {}
    <2>1. \A i \in N : n - i \in Nat
      OBVIOUS
    <2> QED BY <2>1
  <1>2. PICK g \in gaps : \A h \in gaps : ~(h < g)
    BY <1>1, LeastOf
  <1>3. PICK i \in N : g = n - i
    BY <1>2
  <1>4. \A j \in N : i >= j
    <2> TAKE j \in N
    <2>1. n - j \in gaps /\ ~(n - j < n - i)
      BY <1>2, <1>3
    <2> QED BY <2>1
  <1> QED BY <1>4 DEF Sizes!Max

LEMMA EndsOf ==
    ASSUME NEW ms \in Seq(SizeMessages), NEW other \in Seq(SizeMessages),
           Len(ms) >= SnipKeepRecent, Len(other) >= SnipKeepRecent,
           \A i \in 1..SnipKeepRecent :
             ms[Len(ms) - SnipKeepRecent + i] = other[Len(other) - SnipKeepRecent + i]
    PROVE  Sizes!Last(ms) = Sizes!Last(other)
  <1> DEFINE N == Len(ms)
             M == Len(other)
             K == SnipKeepRecent
  <1>1. N \in Nat /\ M \in Nat /\ K \in Nat
    BY SizesAssumption
  <1>2. Sizes!Max({1, N - K + 1}) = N - K + 1 /\ Sizes!Max({1, M - K + 1}) = M - K + 1
    <2>1. N - K + 1 \in Int /\ M - K + 1 \in Int /\ N - K + 1 >= 1 /\ M - K + 1 >= 1
      BY <1>1
    <2> QED BY <2>1, SizesMax
  <1>3. PICK x, y : x = N - K + 1 /\ y = M - K + 1
    OBVIOUS
  <1>0. N >= K /\ M >= K
    OBVIOUS
  <1> HIDE DEF N, M, K
  <1>4. /\ x \in 1..(N + 1) /\ N \in (x - 1)..N /\ N - x + 1 = K
        /\ y \in 1..(M + 1) /\ M \in (y - 1)..M /\ M - y + 1 = K
    BY <1>0, <1>1, <1>3
  <1> USE DEF N, M, K
  <1>5. (\A i \in x..N : ms[i] \in SizeMessages) /\ \A i \in y..M : other[i] \in SizeMessages
    BY <1>1, <1>4
  <1> HIDE DEF N, M, K
  <1>6. /\ SubSeq(ms, x, N) \in Seq(SizeMessages) /\ Len(SubSeq(ms, x, N)) = K
        /\ \A i \in 1..K : SubSeq(ms, x, N)[i] = ms[x + i - 1]
    <2>1. x <= N + 1 /\ Len(ms) = N
      BY <1>4 DEF N
    <2>2. Len(SubSeq(ms, x, N)) = IF x <= N THEN N - x + 1 ELSE 0
      BY <1>1, <1>4, <1>5, <2>1, SubSeqProperties
    <2>3. Len(SubSeq(ms, x, N)) = K
      BY <1>1, <1>4, <2>2
    <2>4. /\ SubSeq(ms, x, N) \in Seq(SizeMessages)
          /\ \A i \in 1..(N - x + 1) : SubSeq(ms, x, N)[i] = ms[x + i - 1]
      BY <1>1, <1>4, <1>5, <2>1, SubSeqProperties
    <2> QED BY <1>4, <2>3, <2>4
  <1>7. /\ SubSeq(other, y, M) \in Seq(SizeMessages) /\ Len(SubSeq(other, y, M)) = K
        /\ \A i \in 1..K : SubSeq(other, y, M)[i] = other[y + i - 1]
    <2>1. y <= M + 1 /\ Len(other) = M
      BY <1>4 DEF M
    <2>2. Len(SubSeq(other, y, M)) = IF y <= M THEN M - y + 1 ELSE 0
      BY <1>1, <1>4, <1>5, <2>1, SubSeqProperties
    <2>3. Len(SubSeq(other, y, M)) = K
      BY <1>1, <1>4, <2>2
    <2>4. /\ SubSeq(other, y, M) \in Seq(SizeMessages)
          /\ \A i \in 1..(M - y + 1) : SubSeq(other, y, M)[i] = other[y + i - 1]
      BY <1>1, <1>4, <1>5, <2>1, SubSeqProperties
    <2> QED BY <1>4, <2>3, <2>4
  <1> USE DEF N, M, K
  <1>8. \A i \in 1..K : ms[x + i - 1] = other[y + i - 1]
    <2>1. \A i \in 1..K : x + i - 1 = N - K + i /\ y + i - 1 = M - K + i
      BY <1>1, <1>3
    <2> QED BY <2>1
  <1>9. SubSeq(ms, x, N) = SubSeq(other, y, M)
    BY <1>6, <1>7, <1>8, SeqEqual
  <1> QED BY <1>2, <1>3, <1>9 DEF Sizes!Last

LEMMA SameEndIsLast ==
    ASSUME NEW ms \in Seq(SizeMessages), NEW other \in Seq(SizeMessages), SameEnd(ms, other)
    PROVE  Sizes!Last(ms) = Sizes!Last(other)
  <1> DEFINE N == Len(ms)
  <1>1. N \in Nat /\ Len(other) = N /\ SnipKeepRecent \in Nat
    BY SizesAssumption DEF SameEnd
  <1>2. CASE N >= SnipKeepRecent
    <2>1. \A i \in 1..SnipKeepRecent :
            ms[N - SnipKeepRecent + i] = other[N - SnipKeepRecent + i]
      BY <1>1, <1>2 DEF SameEnd
    <2> QED BY <1>1, <1>2, <2>1, EndsOf
  <1>3. CASE ~(N >= SnipKeepRecent)
    <2>1. \A i \in 1..N : ms[i] = other[i]
      BY <1>1, <1>3 DEF SameEnd
    <2>2. ms = other
      BY <1>1, <2>1, SeqEqual
    <2> QED BY <2>2
  <1> QED BY <1>2, <1>3

LEMMA CutKeeps ==
    ASSUME NEW ms \in Seq(SizeMessages), NEW at, NEW chars \in Int
    PROVE  LET new == Sizes!Cut(ms, at, chars)
           IN  /\ new \in Seq(SizeMessages) /\ Len(new) = Len(ms)
               /\ \A i \in 1..Len(ms) :
                    /\ new[i].from = ms[i].from /\ DOMAIN new[i].blocks = DOMAIN ms[i].blocks
                    /\ \A b \in DOMAIN ms[i].blocks :
                         new[i].blocks[b] = IF <<i, b>> \in at THEN [ms[i].blocks[b] EXCEPT !.chars = chars]
                                            ELSE ms[i].blocks[b]
                    /\ (\A b \in DOMAIN ms[i].blocks : <<i, b>> \notin at) => new[i] = ms[i]
  <1> DEFINE new == Sizes!Cut(ms, at, chars)
             cut(i) == [b \in DOMAIN ms[i].blocks |->
                          IF <<i, b>> \in at THEN [ms[i].blocks[b] EXCEPT !.chars = chars]
                          ELSE ms[i].blocks[b]]
  <1>1. Len(ms) \in Nat /\ DOMAIN ms = 1..Len(ms) /\ \A i \in 1..Len(ms) : ms[i] \in SizeMessages
    OBVIOUS
  <1>2. new = [i \in 1..Len(ms) |-> [ms[i] EXCEPT !.blocks = cut(i)]]
    BY <1>1 DEF Sizes!Cut
  <1>3. ASSUME NEW i \in 1..Len(ms)
        PROVE  /\ new[i] \in SizeMessages
               /\ new[i].from = ms[i].from /\ DOMAIN new[i].blocks = DOMAIN ms[i].blocks
               /\ \A b \in DOMAIN ms[i].blocks :
                    new[i].blocks[b] = IF <<i, b>> \in at THEN [ms[i].blocks[b] EXCEPT !.chars = chars]
                                       ELSE ms[i].blocks[b]
               /\ (\A b \in DOMAIN ms[i].blocks : <<i, b>> \notin at) => new[i] = ms[i]
    <2>1. PICK m : m = ms[i]
      OBVIOUS
    <2>2. m \in SizeMessages
      BY <1>1, <2>1
    <2>3. m.blocks \in Seq(Blocks) /\ m.blocks # <<>> /\ m = [from |-> m.from, blocks |-> m.blocks]
      BY <2>2 DEF SizeMessages
    <2>4. PICK n \in Nat : n = Len(m.blocks) /\ DOMAIN m.blocks = 1..n
      BY <2>3
    <2>5. \A b \in 1..n : m.blocks[b] \in Blocks
      BY <2>3, <2>4
    <2>6. PICK c : c = cut(i)
      OBVIOUS
    <2>7. c = [b \in 1..n |-> IF <<i, b>> \in at THEN [m.blocks[b] EXCEPT !.chars = chars]
                              ELSE m.blocks[b]]
      BY <2>1, <2>4, <2>6
    <2>8. \A b \in 1..n : c[b] \in Blocks
      BY <2>5, <2>7 DEF Blocks
    <2>9. c \in Seq(Blocks) /\ Len(c) = n /\ DOMAIN c = 1..n
      <3>1. c \in [1..n -> Blocks]
        BY <2>7, <2>8
      <3> QED BY <3>1
    <2>10. c # <<>>
      BY <2>3, <2>4, <2>9
    <2>11. new[i] = [from |-> m.from, blocks |-> c]
      <3> HIDE DEF new
      <3>1. new[i] = [m EXCEPT !.blocks = c]
        BY <1>2, <2>1, <2>6
      <3>2. [m EXCEPT !.blocks = c] = [from |-> m.from, blocks |-> c]
        BY <2>2 DEF SizeMessages
      <3> QED BY <3>1, <3>2
    <2> HIDE DEF new, cut
    <2>12. new[i] \in SizeMessages
      BY <2>2, <2>9, <2>10, <2>11 DEF SizeMessages
    <2>13. new[i].from = m.from /\ new[i].blocks = c
      BY <2>11
    <2>14. \A b \in 1..n : c[b] = IF <<i, b>> \in at THEN [m.blocks[b] EXCEPT !.chars = chars]
                                  ELSE m.blocks[b]
      BY <2>7
    <2>15. ASSUME \A b \in 1..n : <<i, b>> \notin at PROVE new[i] = m
      <3>1. \A b \in 1..n : c[b] = m.blocks[b]
        BY <2>14, <2>15
      <3>2. c = m.blocks
        BY <2>3, <2>4, <2>9, <3>1, SeqEqual
      <3> QED BY <2>3, <2>11, <3>2
    <2> QED BY <2>1, <2>4, <2>9, <2>12, <2>13, <2>14, <2>15
  <1> HIDE DEF cut
  <1>4. new \in Seq(SizeMessages) /\ Len(new) = Len(ms)
    <2>1. new \in [1..Len(ms) -> SizeMessages]
      BY <1>2, <1>3
    <2> QED BY <1>1, <2>1
  <1> QED BY <1>3, <1>4

\* What is cut is old.
LEMMA CutKeepsEnd ==
    ASSUME NEW ms \in Seq(SizeMessages), NEW at, NEW chars \in Int,
           \A p \in at : p[1] <= Len(ms) - SnipKeepRecent
    PROVE  SameEnd(Sizes!Cut(ms, at, chars), ms)
  <1>1. ASSUME NEW i \in 1..Len(ms), i > Len(ms) - SnipKeepRecent
        PROVE  Sizes!Cut(ms, at, chars)[i] = ms[i]
    <2>1. \A b \in DOMAIN ms[i].blocks : <<i, b>> \notin at
      <3> SUFFICES ASSUME NEW b \in DOMAIN ms[i].blocks, <<i, b>> \in at PROVE FALSE
        OBVIOUS
      <3>1. <<i, b>>[1] = i
        OBVIOUS
      <3>2. i <= Len(ms) - SnipKeepRecent
        BY <3>1
      <3> QED BY <1>1, <3>2, SizesAssumption
    <2> QED BY <2>1, CutKeeps
  <1>2. Len(Sizes!Cut(ms, at, chars)) = Len(ms)
    BY CutKeeps
  <1> QED BY <1>1, <1>2 DEF SameEnd

LEMMA CollapseKeeps ==
    ASSUME NEW ms \in Seq(SizeMessages), NEW now, \A i \in now : i <= Len(ms) - SizesCollapseKeepRecent
    PROVE  LET new == Sizes!collapseOldMessages(ms, now)
           IN  new \in Seq(SizeMessages) /\ SameEnd(new, ms)
  <1> DEFINE new == Sizes!collapseOldMessages(ms, now)
  <1>1. Len(ms) \in Nat /\ DOMAIN ms = 1..Len(ms) /\ \A i \in 1..Len(ms) : ms[i] \in SizeMessages
    OBVIOUS
  <1>2. new = [i \in 1..Len(ms) |->
                 IF i \in now THEN [ms[i] EXCEPT !.blocks = <<Sizes!generateSummary(ms[i])>>]
                 ELSE ms[i]]
    BY <1>1 DEF Sizes!collapseOldMessages
  <1> HIDE DEF new
  <1>3. ASSUME NEW m \in SizeMessages
        PROVE  [m EXCEPT !.blocks = <<Sizes!generateSummary(m)>>] \in SizeMessages
    <2>1. m.blocks \in Seq(Blocks) /\ m.blocks # <<>>
      BY DEF SizeMessages
    <2>2. PICK n \in Nat : n = Len(m.blocks) /\ DOMAIN m.blocks = 1..n /\ 1 \in 1..n
      BY <2>1
    <2>3. \A b \in 1..n : m.blocks[b].chars \in Int
      <3>1. \A b \in 1..n : m.blocks[b] \in Blocks
        BY <2>1, <2>2
      <3> QED BY <3>1 DEF Blocks
    <2> DEFINE calls == {b \in DOMAIN m.blocks : m.blocks[b].kind # "text"}
               first == m.blocks[IF calls = {} THEN 1 ELSE Sizes!Min(calls)].chars
    <2>4. calls \subseteq 1..n
      BY <2>2
    <2>5. first \in Int
      <3>1. CASE calls = {}
        BY <2>2, <2>3, <3>1
      <3>2. CASE calls # {}
        <4>1. PICK i \in calls : \A j \in calls : ~(j < i)
          <5>1. calls \subseteq Nat
            BY <2>4
          <5> HIDE DEF calls
          <5> QED BY <3>2, <5>1, LeastOf
        <4>2. \A j \in calls : i <= j
          BY <2>4, <4>1
        <4>3. Sizes!Min(calls) \in calls
          BY <4>2 DEF Sizes!Min
        <4>4. Sizes!Min(calls) \in 1..n
          BY <2>4, <4>3
        <4> QED BY <2>3, <3>2, <4>4
      <3> QED BY <3>1, <3>2
    <2> HIDE DEF first
    <2>6. \A k \in {50, 83} : Sizes!Min({first, k}) \in Int
      <3> TAKE k \in {50, 83}
      <3>1. \E x \in {first, k} : \A y \in {first, k} : x <= y
        BY <2>5
      <3>2. Sizes!Min({first, k}) \in {first, k}
        BY <3>1 DEF Sizes!Min
      <3> QED BY <2>5, <3>2
    <2>7. Sizes!generateSummary(m)
            = Sizes!Block("text", IF calls = {} THEN Sizes!Min({first, 83}) ELSE Sizes!Min({first, 50}) + 25)
      BY DEF Sizes!generateSummary, first
    <2>8. PICK c : c = IF calls = {} THEN Sizes!Min({first, 83}) ELSE Sizes!Min({first, 50}) + 25
      OBVIOUS
    <2>9. c \in Int
      BY <2>6, <2>8
    <2>10. PICK g : g = Sizes!generateSummary(m)
      OBVIOUS
    <2>11. g \in Blocks
      BY <2>7, <2>8, <2>9, <2>10 DEF Sizes!Block, Blocks
    <2>12. <<g>> \in Seq(Blocks) /\ <<g>> # <<>>
      BY <2>11
    <2>13. [m EXCEPT !.blocks = <<g>>] \in SizeMessages
      BY <2>12 DEF SizeMessages
    <2> QED BY <2>10, <2>13
  <1>4. \A i \in 1..Len(ms) : new[i] \in SizeMessages
    BY <1>1, <1>2, <1>3
  <1>5. new \in Seq(SizeMessages) /\ Len(new) = Len(ms)
    <2>1. new \in [1..Len(ms) -> SizeMessages]
      BY <1>2, <1>4
    <2> QED BY <1>1, <2>1
  <1>6. ASSUME NEW i \in 1..Len(ms), i > Len(ms) - SnipKeepRecent PROVE new[i] = ms[i]
    <2>1. i \notin now
      BY <1>1, <1>6, SizesAssumption
    <2> QED BY <1>2, <2>1
  <1> QED BY <1>5, <1>6 DEF SameEnd, new

SizeMark(from, chars) == Sizes!Message(from, <<Sizes!Block("text", chars)>>)

LEMMA MarksAre ==
    ASSUME NEW from \in {"user", "assistant", "summary", "notice"}, NEW chars \in Int
    PROVE  SizeMark(from, chars) \in SizeMessages
  <1>1. PICK b : b = Sizes!Block("text", chars)
    OBVIOUS
  <1>2. b \in Blocks
    BY <1>1 DEF Sizes!Block, Blocks
  <1>3. <<b>> \in Seq(Blocks) /\ <<b>> # <<>>
    BY <1>2
  <1> QED BY <1>1, <1>3 DEF SizeMark, Sizes!Message, SizeMessages

LEMMA SizesSplit ==
    ASSUME NEW ms \in Seq(SizeMessages), NEW keep \in Nat, keep <= Len(ms)
    PROVE  LET at == Sizes!adjustSplitPoint(ms, Len(ms) - keep)
           IN  at \in Int /\ at <= Len(ms) - keep + 1
  <1>1. Len(ms) \in Nat
    OBVIOUS
  <1> DEFINE p == Len(ms) - keep
             back == IF p > 0 /\ ms[p + 1].from = "result" THEN p - 1 ELSE p
  <1>2. p \in Nat
    BY <1>1
  <1>3. back \in Int /\ back <= p
    BY <1>2
  <1>4. Sizes!adjustSplitPoint(ms, p)
          = IF p >= Len(ms) THEN p
            ELSE IF back < Len(ms) - 1 /\ Sizes!HasCall(ms[back + 1]) THEN back + 1 ELSE back
    BY DEF Sizes!adjustSplitPoint
  <1> HIDE DEF back
  <1>5. CASE p >= Len(ms)
    BY <1>1, <1>2, <1>4, <1>5
  <1>6. CASE ~(p >= Len(ms))
    BY <1>1, <1>2, <1>3, <1>4, <1>6
  <1> QED BY <1>5, <1>6

\* A summary stands for what is not recent.
LEMMA SizesSummarize ==
    ASSUME NEW ms \in Seq(SizeMessages), NEW keep \in Nat, NEW chars \in Int
    PROVE  LET new == Sizes!Summarized(ms, keep, chars)
           IN  /\ new \in Seq(SizeMessages)
               /\ SnipKeepRecent < keep => Sizes!Last(new) = Sizes!Last(ms)
  <1> DEFINE L == Len(ms)
             at == Sizes!adjustSplitPoint(ms, L - keep)
             mark == SizeMark("summary", chars)
             rest == SubSeq(ms, at + 1, L)
             new == <<mark>> \o rest
  <1>1. L \in Nat /\ \A i \in 1..L : ms[i] \in SizeMessages
    OBVIOUS
  <1>2. Sizes!Summarized(ms, keep, chars) = IF L <= keep + 2 \/ at <= 1 THEN ms ELSE new
    BY Zenon DEF Sizes!Summarized, SizeMark
  <1> HIDE DEF L, at
  <1>3. SUFFICES ASSUME ~(L <= keep + 2 \/ at <= 1)
                 PROVE  /\ new \in Seq(SizeMessages)
                        /\ SnipKeepRecent < keep => Sizes!Last(new) = Sizes!Last(ms)
    BY <1>2
  <1>4. at \in Int /\ at <= L - keep + 1
    BY <1>1, <1>3, SizesSplit DEF at, L
  <1>5. at \in Nat /\ 1 < at
    BY <1>3, <1>4
  <1>6. /\ rest \in Seq(SizeMessages) /\ Len(rest) = IF at + 1 <= L THEN L - (at + 1) + 1 ELSE 0
        /\ \A i \in 1..(L - (at + 1) + 1) : rest[i] = ms[(at + 1) + i - 1]
    <2>1. \A i \in (at + 1)..L : ms[i] \in SizeMessages
      BY <1>1, <1>5
    <2> QED BY <1>1, <1>5, <2>1, SubSeqProperties
  <1>7. mark \in SizeMessages
    BY MarksAre
  <1> HIDE DEF rest, mark
  <1>8. /\ new \in Seq(SizeMessages) /\ Len(new) = 1 + Len(rest)
        /\ \A j \in 1..(1 + Len(rest)) : new[j] = IF j <= 1 THEN <<mark>>[j] ELSE rest[j - 1]
    <2>1. <<mark>> \in Seq(SizeMessages) /\ Len(<<mark>>) = 1
      BY <1>7
    <2> QED BY <2>1, <1>6, ConcatProperties
  <1> HIDE DEF new
  <1>9. ASSUME SnipKeepRecent < keep PROVE Sizes!Last(new) = Sizes!Last(ms)
    <2> DEFINE K == SnipKeepRecent
    <2>1. K \in Nat /\ K < keep
      BY <1>9, SizesAssumption
    <2> HIDE DEF K
    <2>2. K <= L - at
      BY <1>1, <1>4, <2>1
    <2>3. Len(rest) = L - at /\ L - at \in Nat
      BY <1>1, <1>5, <1>6, <2>1, <2>2
    <2>4. Len(new) = L - at + 1 /\ Len(new) \in Nat /\ Len(new) >= K /\ L >= K
      BY <1>1, <1>3, <1>5, <1>8, <2>1, <2>2, <2>3
    <2>5. ASSUME NEW i \in 1..K PROVE new[Len(new) - K + i] = ms[L - K + i]
      <3>1. L - at + 1 - K + i \in 2..(L - at + 1)
        BY <1>1, <1>5, <2>1, <2>2
      <3>2. PICK j : j = L - at + 1 - K + i
        OBVIOUS
      <3>3. j \in 1..(1 + Len(rest)) /\ ~(j <= 1)
        BY <3>1, <3>2, <2>3
      <3>4. j - 1 \in 1..(L - (at + 1) + 1) /\ (at + 1) + (j - 1) - 1 = L - K + i
        BY <1>1, <1>5, <2>1, <3>1, <3>2
      <3>5. new[j] = rest[j - 1]
        BY <1>8, <3>3
      <3>6. rest[j - 1] = ms[(at + 1) + (j - 1) - 1]
        BY <1>6, <3>4
      <3>7. Len(new) - K + i = j
        BY <1>1, <1>5, <2>1, <2>4, <3>2
      <3> QED BY <3>4, <3>5, <3>6, <3>7
    <2>6. Len(new) >= SnipKeepRecent /\ Len(ms) >= SnipKeepRecent
      BY <2>4 DEF K, L
    <2>7. \A i \in 1..SnipKeepRecent :
            new[Len(new) - SnipKeepRecent + i] = ms[Len(ms) - SnipKeepRecent + i]
      BY <2>5 DEF K, L
    <2> QED BY <1>8, <2>6, <2>7, EndsOf
  <1> QED BY <1>8, <1>9

LEMMA PositionsAre ==
    ASSUME NEW ms \in Seq(SizeMessages), NEW p \in Sizes!Positions(ms)
    PROVE  /\ p = <<p[1], p[2]>> /\ p[1] \in 1..Len(ms) /\ p[2] \in DOMAIN ms[p[1]].blocks
           /\ Sizes!At(ms, p) = ms[p[1]].blocks[p[2]]
  <1>1. PICK i \in DOMAIN ms : p \in {i} \X DOMAIN ms[i].blocks
    BY DEF Sizes!Positions
  <1>2. p = <<p[1], p[2]>> /\ p[1] = i /\ p[2] \in DOMAIN ms[i].blocks
    BY <1>1
  <1>3. DOMAIN ms = 1..Len(ms)
    OBVIOUS
  <1> QED BY <1>1, <1>2, <1>3 DEF Sizes!At

LEMMA SizesMicro ==
    ASSUME NEW ms \in Seq(SizeMessages)
    PROVE  Sizes!MicroCompact(ms) \in Seq(SizeMessages)
  <1> DEFINE old == Sizes!Old(ms, SizesMicroKeepRecent)
             served == {p \in old : Sizes!At(ms, p).kind = "result" /\ Sizes!At(ms, p).chars > 2000}
             texts == {p \in old : Sizes!At(ms, p).kind = "text" /\ Sizes!At(ms, p).chars > 3000}
             cut == Sizes!Cut(Sizes!Cut(ms, served, 535), texts, 816)
             at == {p[1] : p \in served \cup texts}
             last == Sizes!Max(at)
             mark == SizeMark("notice", Sizes!Notice)
             new == SubSeq(cut, 1, last) \o <<mark>> \o SubSeq(cut, last + 1, Len(cut))
  <1>1. Sizes!MicroCompact(ms) = IF served \cup texts = {} THEN ms ELSE new
    BY Zenon DEF Sizes!MicroCompact, SizeMark
  <1>2. cut \in Seq(SizeMessages) /\ Len(cut) = Len(ms)
    <2>1. Sizes!Cut(ms, served, 535) \in Seq(SizeMessages)
          /\ Len(Sizes!Cut(ms, served, 535)) = Len(ms)
      BY CutKeeps
    <2>2. PICK c : c = Sizes!Cut(ms, served, 535)
      OBVIOUS
    <2>3. Sizes!Cut(c, texts, 816) \in Seq(SizeMessages) /\ Len(Sizes!Cut(c, texts, 816)) = Len(c)
      BY <2>1, <2>2, CutKeeps
    <2> QED BY <2>1, <2>2, <2>3
  <1>3. at \subseteq 1..Len(ms)
    <2> SUFFICES ASSUME NEW p \in old PROVE p[1] \in 1..Len(ms)
      OBVIOUS
    <2>1. p \in Sizes!Positions(ms)
      BY DEF Sizes!Old
    <2> QED BY <2>1, PositionsAre
  <1>4. mark \in SizeMessages
    BY MarksAre DEF Sizes!Notice
  <1>5. served \cup texts # {} => at # {}
    OBVIOUS
  <1> HIDE DEF served, texts, at, cut, mark
  <1>6. ASSUME served \cup texts # {} PROVE new \in Seq(SizeMessages)
    <2>1. Len(ms) \in Nat /\ at # {}
      BY <1>5, <1>6
    <2>2. last \in at
      BY <1>3, <2>1, SizesLast
    <2> HIDE DEF last
    <2>3. last \in 1..Len(ms)
      BY <1>3, <2>2
    <2>4. \A i \in 1..Len(ms) : cut[i] \in SizeMessages
      BY <1>2
    <2>5. SubSeq(cut, 1, last) \in Seq(SizeMessages)
      <3>1. \A i \in 1..last : cut[i] \in SizeMessages
        BY <2>1, <2>3, <2>4
      <3>2. 1 \in Int /\ last \in Int
        BY <2>3
      <3> QED BY <3>1, <3>2, SubSeqProperties
    <2>6. SubSeq(cut, last + 1, Len(cut)) \in Seq(SizeMessages)
      <3>1. \A i \in (last + 1)..Len(cut) : cut[i] \in SizeMessages
        BY <1>2, <2>1, <2>3, <2>4
      <3>2. last + 1 \in Int /\ Len(cut) \in Int
        BY <1>2, <2>1, <2>3
      <3> QED BY <3>1, <3>2, SubSeqProperties
    <2>7. <<mark>> \in Seq(SizeMessages)
      BY <1>4
    <2>8. PICK a, b, c : a = SubSeq(cut, 1, last) /\ b = <<mark>> /\ c = SubSeq(cut, last + 1, Len(cut))
      OBVIOUS
    <2>9. a \o b \in Seq(SizeMessages)
      BY <2>5, <2>7, <2>8
    <2>10. (a \o b) \o c \in Seq(SizeMessages)
      BY <2>6, <2>8, <2>9
    <2> QED BY <2>8, <2>10
  <1> QED BY <1>1, <1>6

LEMMA SizesContext ==
    ASSUME NEW ms \in Seq(SizeMessages)
    PROVE  Sizes!ContextCollapse(ms) \in Seq(SizeMessages)
  BY CutKeeps DEF Sizes!ContextCollapse, Sizes!Notice

LEMMA SizesCompactIfNeeded ==
    ASSUME NEW ms \in Seq(SizeMessages)
    PROVE  Sizes!compactIfNeeded(ms) \in Seq(SizeMessages)
  <1>1. Sizes!compactIfNeeded(ms)
          \in {Sizes!Summarized(ms, SizesReactiveKeepRecent, Sizes!Notice),
               Sizes!Summarized(ms, SizesAutoKeepRecent, SummaryChars),
               Sizes!MicroCompact(ms), Sizes!ContextCollapse(ms)}
    BY DEF Sizes!compactIfNeeded
  <1>2. Sizes!Notice \in Int
    BY DEF Sizes!Notice
  <1>3. Sizes!Summarized(ms, SizesReactiveKeepRecent, Sizes!Notice) \in Seq(SizeMessages)
    BY <1>2, SizesAssumption, SizesSummarize
  <1>4. Sizes!Summarized(ms, SizesAutoKeepRecent, SummaryChars) \in Seq(SizeMessages)
    BY SizesAssumption, SizesSummarize
  <1> QED BY <1>1, <1>3, <1>4, SizesMicro, SizesContext

LEMMA SizesTooLong ==
    ASSUME NEW ms \in Seq(SizeMessages)
    PROVE  Sizes!handlePromptTooLong(ms) \in Seq(SizeMessages)
  <1> DEFINE fewer == Sizes!History!Picked(ms, {i \in DOMAIN ms : ms[i].from # "notice"})
  <1>1. fewer \in Seq(SizeMessages)
    <2>1. fewer = Lists!Picked(ms, {i \in DOMAIN ms : ms[i].from # "notice"})
      BY DEF Sizes!History!Picked, Lists!Picked
    <2> QED BY <2>1, PickedFrom
  <1>2. Sizes!Summarized(ms, SizesAutoKeepRecent, SummaryChars) \in Seq(SizeMessages)
    BY SizesAssumption, SizesSummarize
  <1>3. Sizes!handlePromptTooLong(ms)
          = IF Sizes!MicroCompact(ms) # ms THEN Sizes!MicroCompact(ms)
            ELSE IF fewer # ms THEN fewer
            ELSE Sizes!Summarized(ms, SizesAutoKeepRecent, SummaryChars)
    BY Zenon DEF Sizes!handlePromptTooLong
  <1> HIDE DEF fewer
  <1> QED BY <1>1, <1>2, <1>3, SizesMicro

\* The check has changed only what is not recent.
SizesInv ==
  /\ sizesMessages \in Seq(SizeMessages) /\ sizesBefore \in Seq(SizeMessages)
  /\ sizesPc \in {"collapse", "snip", "compact", "block", "ask"}
       => Sizes!Last(sizesMessages) = Sizes!Last(sizesBefore)
  /\ Sizes!CutToTheLimit

LEMMA SizesInit == Sizes!Init => SizesInv
  <1> SUFFICES ASSUME Sizes!Init PROVE SizesInv
    OBVIOUS
  <1>1. sizesMessages = <<>> /\ sizesBefore = <<>> /\ sizesPc = "idle"
    BY DEF Sizes!Init
  <1>2. <<>> \in Seq(SizeMessages)
    OBVIOUS
  <1> QED BY <1>1, <1>2 DEF SizesInv, Sizes!CutToTheLimit

\* The brute force leaves nothing old that is long.
LEMMA TruncateCutsAll ==
    ASSUME NEW ms \in Seq(SizeMessages)
    PROVE  LET cut == Sizes!Cut(ms, Sizes!snipOldToolResults(ms), Sizes!Placeholder)
               new == Sizes!Cut(cut, Sizes!LongTexts(cut), 162)
           IN  /\ cut \in Seq(SizeMessages) /\ SameEnd(cut, ms)
               /\ new \in Seq(SizeMessages) /\ SameEnd(new, ms)
               /\ Sizes!snipOldToolResults(new) = {} /\ Sizes!LongTexts(new) = {}
  <1> DEFINE at == Sizes!snipOldToolResults(ms)
             cut == Sizes!Cut(ms, at, Sizes!Placeholder)
             texts == Sizes!LongTexts(cut)
             new == Sizes!Cut(cut, texts, 162)
             N == Len(ms)
  <1>1. Sizes!Placeholder \in Int /\ Sizes!Placeholder = 20 /\ N \in Nat /\ 162 \in Int
    BY DEF Sizes!Placeholder
  <1>2. /\ cut \in Seq(SizeMessages) /\ Len(cut) = N
        /\ \A i \in 1..N :
             /\ cut[i].from = ms[i].from /\ DOMAIN cut[i].blocks = DOMAIN ms[i].blocks
             /\ \A b \in DOMAIN ms[i].blocks :
                  cut[i].blocks[b] = IF <<i, b>> \in at THEN [ms[i].blocks[b] EXCEPT !.chars = 20]
                                     ELSE ms[i].blocks[b]
    BY <1>1, CutKeeps
  <1>3. SameEnd(cut, ms)
    <2>1. \A p \in at : p[1] <= Len(ms) - SnipKeepRecent
      BY DEF Sizes!snipOldToolResults, Sizes!Old
    <2> HIDE DEF at
    <2> QED BY <1>1, <2>1, CutKeepsEnd
  <1>a. PICK c : c = cut
    OBVIOUS
  <1>4. /\ new \in Seq(SizeMessages) /\ Len(new) = N
        /\ \A i \in 1..N :
             /\ new[i].from = c[i].from /\ DOMAIN new[i].blocks = DOMAIN c[i].blocks
             /\ \A b \in DOMAIN c[i].blocks :
                  new[i].blocks[b] = IF <<i, b>> \in texts THEN [c[i].blocks[b] EXCEPT !.chars = 162]
                                     ELSE c[i].blocks[b]
    <2>1. /\ c \in Seq(SizeMessages) /\ Len(c) = N /\ texts = Sizes!LongTexts(c)
          /\ new = Sizes!Cut(c, texts, 162)
      BY <1>2, <1>a
    <2> HIDE DEF new, texts, cut
    <2> QED BY <1>1, <2>1, CutKeeps
  <1>5. SameEnd(new, cut)
    <2>1. \A p \in texts : p[1] <= Len(cut) - SnipKeepRecent
      BY DEF Sizes!LongTexts, Sizes!Old
    <2>2. PICK t : t = texts
      OBVIOUS
    <2>3. SameEnd(Sizes!Cut(c, t, 162), c)
      BY <1>1, <1>2, <1>a, <2>1, <2>2, CutKeepsEnd
    <2> QED BY <1>a, <2>2, <2>3
  <1> HIDE DEF new, cut
  <1>6. SameEnd(new, ms)
    BY <1>2, <1>3, <1>4, <1>5 DEF SameEnd
  <1>7. \A p \in Sizes!Positions(ms) : p \in at
          <=> /\ p[1] <= N - SnipKeepRecent
              /\ ~Sizes!Marked(ms[p[1]]) /\ ms[p[1]].blocks[p[2]].kind = "result"
              /\ ms[p[1]].blocks[p[2]].chars > 200
    BY DEF Sizes!snipOldToolResults, Sizes!Old, Sizes!At
  <1>8. \A p \in Sizes!Positions(c) : p \in texts
          <=> /\ p[1] <= N - SnipKeepRecent
              /\ c[p[1]].blocks[p[2]].kind = "text" /\ c[p[1]].blocks[p[2]].chars > 200
    BY <1>2, <1>a DEF Sizes!LongTexts, Sizes!Old, Sizes!At
  <1> HIDE DEF at, texts
  <1>9. ASSUME NEW p \in Sizes!Positions(new)
        PROVE  /\ p[1] \in 1..N /\ p = <<p[1], p[2]>>
               /\ p[2] \in DOMAIN ms[p[1]].blocks /\ p[2] \in DOMAIN c[p[1]].blocks
               /\ p \in Sizes!Positions(ms) /\ p \in Sizes!Positions(c)
               /\ Sizes!At(new, p) = new[p[1]].blocks[p[2]]
               /\ ms[p[1]].blocks[p[2]] \in Blocks
    <2>1. p[1] \in 1..N /\ p = <<p[1], p[2]>> /\ p[2] \in DOMAIN new[p[1]].blocks
          /\ Sizes!At(new, p) = new[p[1]].blocks[p[2]]
      BY <1>4, PositionsAre
    <2>2. p[2] \in DOMAIN ms[p[1]].blocks /\ p[2] \in DOMAIN c[p[1]].blocks
      BY <1>2, <1>4, <1>a, <2>1
    <2>3. DOMAIN ms = 1..N /\ DOMAIN c = 1..N
      BY <1>2, <1>a
    <2>4. p \in {p[1]} \X DOMAIN ms[p[1]].blocks /\ p \in {p[1]} \X DOMAIN c[p[1]].blocks
      BY <2>1, <2>2
    <2>5. ms[p[1]] \in SizeMessages
      BY <2>1
    <2>6. ms[p[1]].blocks \in Seq(Blocks)
      BY <2>5 DEF SizeMessages
    <2>7. ms[p[1]].blocks[p[2]] \in Blocks
      BY <2>2, <2>6
    <2> QED BY <2>1, <2>2, <2>3, <2>4, <2>7 DEF Sizes!Positions
  <1>10. ASSUME NEW p \in Sizes!Positions(new), p[1] <= N - SnipKeepRecent
         PROVE  /\ ~(~Sizes!Marked(new[p[1]]) /\ Sizes!At(new, p).kind = "result"
                       /\ Sizes!At(new, p).chars > 200)
                /\ ~(Sizes!At(new, p).kind = "text" /\ Sizes!At(new, p).chars > 200)
    <2>1. PICK i, b : i = p[1] /\ b = p[2]
      OBVIOUS
    <2>2. i \in 1..N /\ p = <<i, b>> /\ b \in DOMAIN ms[i].blocks /\ b \in DOMAIN c[i].blocks
          /\ Sizes!At(new, p) = new[i].blocks[b] /\ ms[i].blocks[b] \in Blocks
      BY <1>9, <2>1
    <2>3. PICK x, y, z : x = ms[i].blocks[b] /\ y = c[i].blocks[b] /\ z = new[i].blocks[b]
      OBVIOUS
    <2>4. y = IF p \in at THEN [x EXCEPT !.chars = 20] ELSE x
      BY <1>2, <1>a, <2>2, <2>3
    <2>5. z = IF p \in texts THEN [y EXCEPT !.chars = 162] ELSE y
      BY <1>4, <2>2, <2>3
    <2>6. p \in at <=> ~Sizes!Marked(ms[i]) /\ x.kind = "result" /\ x.chars > 200
      BY <1>7, <1>9, <1>10, <2>1, <2>3
    <2>7. p \in texts <=> y.kind = "text" /\ y.chars > 200
      BY <1>8, <1>9, <1>10, <2>1, <2>3
    <2>8. Sizes!Marked(new[i]) <=> Sizes!Marked(ms[i])
      BY <1>2, <1>4, <1>a, <2>2 DEF Sizes!Marked
    <2>9. x \in Blocks
      BY <2>2, <2>3
    <2>10. y \in Blocks /\ y.kind = x.kind /\ (p \in at => y.chars = 20) /\ (p \notin at => y = x)
      BY <2>4, <2>9 DEF Blocks
    <2>11. z.kind = y.kind /\ (p \in texts => z.chars = 162) /\ (p \notin texts => z = y)
      BY <2>5, <2>10 DEF Blocks
    <2>12. ~(z.kind = "text" /\ z.chars > 200)
      BY <2>7, <2>11
    <2>13. ~(~Sizes!Marked(new[i]) /\ z.kind = "result" /\ z.chars > 200)
      <3> SUFFICES ASSUME ~Sizes!Marked(ms[i]), z.kind = "result", z.chars > 200 PROVE FALSE
        BY <2>8
      <3>1. y.kind = "result" /\ x.kind = "result"
        BY <2>10, <2>11
      <3>2. p \notin texts /\ z = y
        BY <2>7, <2>11, <3>1
      <3>3. p \notin at /\ y = x
        BY <2>10, <3>2
      <3> QED BY <2>6, <3>1, <3>2, <3>3
    <2> QED BY <2>1, <2>2, <2>3, <2>12, <2>13
  <1>11. Sizes!snipOldToolResults(new) = {} /\ Sizes!LongTexts(new) = {}
    BY <1>4, <1>10 DEF Sizes!snipOldToolResults, Sizes!LongTexts, Sizes!Old
  <1> QED BY <1>2, <1>3, <1>4, <1>6, <1>11 DEF new, cut, at, texts

\* What is added to a history is a message.
LEMMA SizesGrow ==
    ASSUME NEW ms \in Seq(SizeMessages), NEW from \in {"user", "assistant"}, NEW n \in Int
    PROVE  Append(ms, SizeMark(from, n)) \in Seq(SizeMessages)
  <1>1. PICK m : m = SizeMark(from, n)
    OBVIOUS
  <1>2. m \in SizeMessages
    BY <1>1, MarksAre
  <1> QED BY <1>1, <1>2

LEMMA SizesBatch ==
    ASSUME NEW ms \in Seq(SizeMessages), NEW calls \in Nat, calls >= 1,
           NEW sizeOf \in [1..calls -> ResultSizes]
    PROVE  Append(ms, Sizes!Message("assistant",
                        [i \in 1..calls |-> Sizes!Block("use", Sizes!CallChars)]))
             \o [i \in 1..calls |-> Sizes!Message("result", <<Sizes!Block("result", sizeOf[i])>>)]
           \in Seq(SizeMessages)
  <1> DEFINE uses == [i \in 1..calls |-> Sizes!Block("use", Sizes!CallChars)]
             served == [i \in 1..calls |-> Sizes!Message("result", <<Sizes!Block("result", sizeOf[i])>>)]
             sayings == Sizes!Message("assistant", uses)
  <1>1. Sizes!Block("use", Sizes!CallChars) \in Blocks
    BY DEF Sizes!Block, Sizes!CallChars, Blocks
  <1>2. uses \in Seq(Blocks) /\ Len(uses) = calls
    <2>1. uses \in [1..calls -> Blocks]
      BY <1>1
    <2> QED BY <2>1
  <1>3. uses # <<>>
    BY <1>2
  <1>4. sayings \in SizeMessages
    BY <1>2, <1>3 DEF Sizes!Message, SizeMessages
  <1>5. ASSUME NEW i \in 1..calls
        PROVE  Sizes!Message("result", <<Sizes!Block("result", sizeOf[i])>>) \in SizeMessages
    <2>1. sizeOf[i] \in Int
      BY SizesAssumption
    <2>2. PICK b : b = Sizes!Block("result", sizeOf[i])
      OBVIOUS
    <2>3. b \in Blocks
      BY <2>1, <2>2 DEF Sizes!Block, Blocks
    <2>4. <<b>> \in Seq(Blocks) /\ <<b>> # <<>>
      BY <2>3
    <2> QED BY <2>2, <2>4 DEF Sizes!Message, SizeMessages
  <1>6. served \in Seq(SizeMessages)
    <2>1. served \in [1..calls -> SizeMessages]
      BY <1>5
    <2> HIDE DEF served
    <2> QED BY <2>1
  <1> HIDE DEF uses, served, sayings
  <1>7. Append(ms, sayings) \in Seq(SizeMessages)
    BY <1>4
  <1>8. Append(ms, sayings) \o served \in Seq(SizeMessages)
    BY <1>6, <1>7
  <1> QED BY <1>8 DEF uses, served, sayings

LEMMA SizesStep == SizesInv /\ [Sizes!Next]_sizesVars => SizesInv'
  <1> DEFINE ms == sizesMessages
  <1> SUFFICES ASSUME SizesInv, [Sizes!Next]_sizesVars PROVE SizesInv'
    OBVIOUS
  <1> USE DEF sizesVars
  <1>1. /\ ms \in Seq(SizeMessages) /\ sizesBefore \in Seq(SizeMessages)
        /\ sizesPc \in {"collapse", "snip", "compact", "block", "ask"}
             => Sizes!Last(ms) = Sizes!Last(sizesBefore)
    BY DEF SizesInv
  <1>2. ASSUME sizesPc' # "ask" PROVE Sizes!CutToTheLimit'
    BY <1>2 DEF Sizes!CutToTheLimit
  <1>3. CASE UNCHANGED sizesVars
    <2>1. Sizes!CutToTheLimit'
      BY <1>3 DEF SizesInv, Sizes!CutToTheLimit, Sizes!snipOldToolResults, Sizes!LongTexts,
                  Sizes!Old, Sizes!Positions, Sizes!At, Sizes!Marked, Sizes!BLOCKING_LIMIT
    <2>2. (sizesPc \in {"collapse", "snip", "compact", "block", "ask"}
             => Sizes!Last(ms) = Sizes!Last(sizesBefore))'
      BY <1>1, <1>3
    <2> QED BY <1>1, <1>3, <2>1, <2>2 DEF SizesInv
  <1>4. ASSUME ms' \in Seq(SizeMessages), sizesBefore' \in Seq(SizeMessages),
               sizesPc' \in {"idle", "turn", "check"}
        PROVE  SizesInv'
    BY <1>2, <1>4 DEF SizesInv
  <1>5. ASSUME Sizes!Submit PROVE SizesInv'
    <2>1. PICK n \in TextSizes : ms' = Append(ms, SizeMark("user", n))
      BY <1>5 DEF Sizes!Submit, SizeMark
    <2>2. ms' \in Seq(SizeMessages)
      BY <1>1, <2>1, SizesAssumption, SizesGrow
    <2> QED BY <1>1, <1>4, <1>5, <2>2 DEF Sizes!Submit
  <1>6. ASSUME Sizes!BeginTurn PROVE SizesInv'
    <2>1. ms' \in {Sizes!compactIfNeeded(ms), ms}
      BY <1>6 DEF Sizes!BeginTurn
    <2>2. ms' \in Seq(SizeMessages)
      BY <1>1, <2>1, SizesCompactIfNeeded
    <2> QED BY <1>1, <1>4, <1>6, <2>2 DEF Sizes!BeginTurn
  <1>7. ASSUME Sizes!Check PROVE SizesInv'
    <2>1. ms' = ms /\ sizesBefore' = ms /\ sizesPc' # "ask"
      BY <1>7, Zenon DEF Sizes!Check
    <2>2. (Sizes!Last(sizesMessages) = Sizes!Last(sizesBefore))'
      BY <2>1
    <2> QED BY <1>1, <1>2, <2>1, <2>2 DEF SizesInv
  <1>8. ASSUME ms' \in Seq(SizeMessages), Sizes!Last(ms') = Sizes!Last(ms),
               sizesBefore' = sizesBefore,
               sizesPc \in {"collapse", "snip", "compact", "block", "ask"},
               Sizes!CutToTheLimit'
        PROVE  SizesInv'
    <2>1. Sizes!Last(sizesMessages)' = Sizes!Last(sizesBefore)'
      BY <1>1, <1>8 DEF Sizes!Last
    <2> QED BY <1>1, <1>8, <2>1 DEF SizesInv
  <1>9. ASSUME Sizes!Collapse PROVE SizesInv'
    <2>1. ms' = Sizes!collapseOldMessages(ms, Sizes!ToCollapse(ms, collapsed))
      BY <1>9, Zenon DEF Sizes!Collapse
    <2>2. \A i \in Sizes!ToCollapse(ms, collapsed) : i <= Len(ms) - SizesCollapseKeepRecent
      <3>1. Len(ms) \in Nat
        BY <1>1
      <3> QED BY <3>1, SizesAssumption DEF Sizes!ToCollapse
    <2>3. ms' \in Seq(SizeMessages) /\ SameEnd(ms', ms)
      BY <1>1, <2>1, <2>2, CollapseKeeps
    <2>4. Sizes!Last(ms') = Sizes!Last(ms)
      BY <1>1, <2>3, SameEndIsLast
    <2>5. sizesPc = "collapse" /\ sizesPc' = "snip" /\ sizesBefore' = sizesBefore
      BY <1>9 DEF Sizes!Collapse
    <2> QED BY <1>2, <1>8, <2>3, <2>4, <2>5
  <1>10. ASSUME Sizes!Snip PROVE SizesInv'
    <2>1. sizesPc = "snip" /\ sizesPc' = "compact" /\ sizesBefore' = sizesBefore
      BY <1>10 DEF Sizes!Snip
    <2>2. ms' = ms \/ \E at : /\ ms' = Sizes!Cut(ms, at, Sizes!Placeholder)
                              /\ at \subseteq Sizes!Candidates(ms)
      BY <1>10 DEF Sizes!Snip, Sizes!snipLargest
    <2>3. ms' \in Seq(SizeMessages) /\ Sizes!Last(ms') = Sizes!Last(ms)
      <3>1. CASE ms' = ms
        BY <1>1, <3>1
      <3>2. CASE ms' # ms
        <4>1. PICK at : /\ ms' = Sizes!Cut(ms, at, Sizes!Placeholder)
                        /\ at \subseteq Sizes!Candidates(ms)
          BY <2>2, <3>2
        <4>2. \A p \in at : p[1] <= Len(ms) - SnipKeepRecent
          BY <4>1 DEF Sizes!Candidates, Sizes!Old
        <4>3. Sizes!Placeholder \in Int
          BY DEF Sizes!Placeholder
        <4>4. ms' \in Seq(SizeMessages)
          BY <1>1, <4>1, <4>3, CutKeeps
        <4>5. SameEnd(ms', ms)
          BY <1>1, <4>1, <4>2, <4>3, CutKeepsEnd
        <4> QED BY <1>1, <4>4, <4>5, SameEndIsLast
      <3> QED BY <3>1, <3>2
    <2> QED BY <1>2, <1>8, <2>1, <2>3
  <1>11. ASSUME Sizes!Compact PROVE SizesInv'
    <2>1. sizesPc = "compact" /\ sizesPc' = "block" /\ sizesBefore' = sizesBefore
      BY <1>11 DEF Sizes!Compact
    <2>2. ms' \in {Sizes!Summarized(ms, SizesAutoKeepRecent, SummaryChars), ms}
      BY <1>11, Zenon DEF Sizes!Compact
    <2>3. SizesAutoKeepRecent \in Nat /\ SummaryChars \in Int /\ SnipKeepRecent < SizesAutoKeepRecent
      BY SizesAssumption
    <2>4. LET new == Sizes!Summarized(ms, SizesAutoKeepRecent, SummaryChars)
          IN  new \in Seq(SizeMessages) /\ Sizes!Last(new) = Sizes!Last(ms)
      BY <1>1, <2>3, SizesSummarize
    <2>5. ms' \in Seq(SizeMessages) /\ Sizes!Last(ms') = Sizes!Last(ms)
      BY <1>1, <2>2, <2>4
    <2> QED BY <1>2, <1>8, <2>1, <2>5
  <1>12. ASSUME Sizes!Truncate PROVE SizesInv'
    <2> DEFINE cut == Sizes!Cut(ms, Sizes!snipOldToolResults(ms), Sizes!Placeholder)
               new == Sizes!Cut(cut, Sizes!LongTexts(cut), 162)
               remains == estimate - Sizes!Freed(ms, Sizes!snipOldToolResults(ms))
    <2>1. sizesPc = "block" /\ sizesPc' = "ask" /\ sizesBefore' = sizesBefore
      BY <1>12 DEF Sizes!Truncate
    <2>2. IF estimate > Sizes!BLOCKING_LIMIT
          THEN estimate' = remains /\ ms' = IF remains > Sizes!BLOCKING_LIMIT THEN new ELSE cut
          ELSE estimate' = estimate /\ ms' = ms
      BY <1>12, Zenon DEF Sizes!Truncate
    <2>3. /\ cut \in Seq(SizeMessages) /\ SameEnd(cut, ms)
          /\ new \in Seq(SizeMessages) /\ SameEnd(new, ms)
          /\ Sizes!snipOldToolResults(new) = {} /\ Sizes!LongTexts(new) = {}
      BY <1>1, TruncateCutsAll
    <2> HIDE DEF cut, new, remains
    <2>4. /\ ms' \in {ms, cut, new}
          /\ estimate' > Sizes!BLOCKING_LIMIT => ms' = new
      <3>1. CASE estimate > Sizes!BLOCKING_LIMIT
        BY <2>2, <3>1
      <3>2. CASE ~(estimate > Sizes!BLOCKING_LIMIT)
        BY <2>2, <3>2
      <3> QED BY <3>1, <3>2
    <2>5. ms' \in Seq(SizeMessages) /\ Sizes!Last(ms') = Sizes!Last(ms)
      BY <1>1, <2>3, <2>4, SameEndIsLast
    <2>6. Sizes!CutToTheLimit'
      <3> SUFFICES ASSUME (estimate > Sizes!BLOCKING_LIMIT)'
                   PROVE  (Sizes!snipOldToolResults(ms) = {} /\ Sizes!LongTexts(ms) = {})'
        BY DEF Sizes!CutToTheLimit
      <3>1. ms' = new
        BY <2>4 DEF Sizes!BLOCKING_LIMIT
      <3>2. Sizes!snipOldToolResults(ms') = {} /\ Sizes!LongTexts(ms') = {}
        BY <2>3, <3>1
      <3> QED BY <3>2 DEF Sizes!snipOldToolResults, Sizes!LongTexts, Sizes!Old,
                          Sizes!Positions, Sizes!At, Sizes!Marked
    <2> QED BY <1>8, <2>1, <2>5, <2>6
  <1>13. ASSUME Sizes!Answered PROVE sizesBefore' \in Seq(SizeMessages)
    <2>1. <<>> \in Seq(SizeMessages)
      OBVIOUS
    <2> QED BY <1>13, <2>1 DEF Sizes!Answered
  <1>14. ASSUME Sizes!Reply PROVE SizesInv'
    <2>1. Sizes!Answered /\ sizesPc' \in {"idle", "turn"}
      BY <1>14 DEF Sizes!Reply
    <2>2. ms' \in Seq(SizeMessages)
      <3>1. CASE \E n \in TextSizes : ms' = Append(ms, SizeMark("assistant", n))
        BY <1>1, <3>1, SizesAssumption, SizesGrow
      <3>2. CASE \E calls \in 1..Sizes!Min({MaxBatch, SizesMaxLength - Len(ms)}) :
                   \E sizeOf \in [1..calls -> ResultSizes] :
                     ms' = Append(ms, Sizes!Message("assistant",
                                        [i \in 1..calls |-> Sizes!Block("use", Sizes!CallChars)]))
                             \o [i \in 1..calls |->
                                   Sizes!Message("result", <<Sizes!Block("result", sizeOf[i])>>)]
        <4>1. PICK calls \in 1..Sizes!Min({MaxBatch, SizesMaxLength - Len(ms)}) :
                   \E sizeOf \in [1..calls -> ResultSizes] :
                     ms' = Append(ms, Sizes!Message("assistant",
                                        [i \in 1..calls |-> Sizes!Block("use", Sizes!CallChars)]))
                             \o [i \in 1..calls |->
                                   Sizes!Message("result", <<Sizes!Block("result", sizeOf[i])>>)]
          BY <3>2
        <4>2. calls \in Nat /\ calls >= 1
          OBVIOUS
        <4> QED BY <1>1, <4>1, <4>2, SizesBatch
      <3> QED BY <1>14, <3>1, <3>2, Zenon DEF Sizes!Reply, SizeMark
    <2> QED BY <1>4, <1>13, <2>1, <2>2
  <1>15. ASSUME Sizes!ApiFails PROVE SizesInv'
    BY <1>1, <1>4, <1>13, <1>15 DEF Sizes!ApiFails
  <1>16. ASSUME Sizes!TooLong PROVE SizesInv'
    <2>1. ms' = Sizes!handlePromptTooLong(ms) /\ sizesPc' \in {"idle", "turn"} /\ Sizes!Answered
      BY <1>16 DEF Sizes!TooLong
    <2> QED BY <1>1, <1>4, <1>13, <2>1, SizesTooLong
  <1> QED BY <1>3, <1>5, <1>6, <1>7, <1>9, <1>10, <1>11, <1>12, <1>14, <1>15, <1>16
          DEF Sizes!Next

LEMMA SizesSound == SizesInv => Sizes!RequestsAreTrimmed
  BY DEF SizesInv, Sizes!RequestsAreTrimmed, Sizes!RecentIsKept

\* A request that is still too large has nothing left in it that could be cut,
\* and neither the cuts nor the collapse reach the recent messages
\* (the layers of submitMessage before it asks).
THEOREM RequestsStayTrimmed == Sizes!Spec => []Sizes!RequestsAreTrimmed
  <1>1. UNCHANGED Sizes!vars => UNCHANGED sizesVars
    BY DEF Sizes!vars, sizesVars
  <1>2. SizesInv /\ [Sizes!Next]_(Sizes!vars) => SizesInv'
    BY <1>1, SizesStep
  <1> QED BY <1>2, SizesInit, SizesSound, PTL DEF Sizes!Spec

-----------------------------------------------------------------------------
(* What is sent of a history (Requests).                                   *)

\* Messages as the program makes them: only an assistant calls, only a user answers,
\* and one result at a time.
WireMessages ==
  {m \in [role : {"user", "assistant"}, uses : Seq(Nat), answers : SUBSET Nat,
          flagged : BOOLEAN, boundary : {"none"}] :
     /\ m.uses # <<>> => m.role = "assistant"
     /\ m.answers # {} => m.role = "user" /\ m.uses = <<>> /\ \E id \in Nat : m.answers = {id}
     /\ m.flagged => m.answers # {}}

UsesIn(m) == {m.uses[u] : u \in DOMAIN m.uses}

\* The results of i answer calls of k, and what lies between are results.
AnswersTo(ms, i, k) ==
  /\ ms[i].answers \subseteq UsesIn(ms[k])
  /\ \A j \in (k + 1)..(i - 1) : ms[j].answers # {} /\ (ms[i].flagged => ms[j].flagged)
Follow(ms) ==
  \A i \in 1..Len(ms) : ms[i].answers # {} => \E k \in 1..(i - 1) : AnswersTo(ms, i, k)

Serves(ms, called, k) ==
  /\ called \subseteq UsesIn(ms[k])
  /\ \A j \in (k + 1)..Len(ms) : ms[j].answers # {} /\ ms[j].flagged

\* A call is gone, is answered behind its message with none but the user's between,
\* or is open in the last message that calls.
AnsweredBehind(ms, k, x) ==
  \E j \in (k + 1)..Len(ms) :
    x \in ms[j].answers /\ \A l \in (k + 1)..j : ms[l].role = "user"
OpenAtTheEnd(ms, k, x, open) ==
  x \in open /\ \A l \in (k + 1)..Len(ms) : ms[l].role = "user"
Accounted(ms, gone, open) ==
  \A k \in 1..Len(ms) : \A x \in UsesIn(ms[k]) :
    x \in gone \/ AnsweredBehind(ms, k, x) \/ OpenAtTheEnd(ms, k, x, open)

\* Results follow their calls, the batch being served is the last one, and every call
\* is accounted for.
WireInv ==
  /\ wireMessages \in Seq(WireMessages)
  /\ Follow(wireMessages)
  /\ Accounted(wireMessages, abandoned, unanswered)
  /\ stage # "serving" => unanswered = {}
  /\ stage = "serving" => \E k \in 1..Len(wireMessages) : Serves(wireMessages, unanswered, k)

LEMMA WireMessagesAre ==
    /\ Wire!User \in WireMessages /\ Wire!User.answers = {}
    /\ \A n \in Nat : \A called \in [1..n -> Nat] :
         /\ Wire!Assistant(called) \in WireMessages /\ Wire!Assistant(called).answers = {}
         /\ UsesIn(Wire!Assistant(called)) = Wire!ToSet(called)
    /\ \A id \in Nat :
         /\ Wire!ToolResult(id) \in WireMessages /\ Wire!ToolResult(id).answers = {id}
         /\ Wire!ToolResult(id).flagged
    /\ \A m \in WireMessages :
         /\ Wire!Restored(m) \in WireMessages /\ Wire!Restored(m).answers = m.answers
         /\ Wire!Restored(m).uses = m.uses /\ ~Wire!Restored(m).flagged
  <1> USE DEF WireMessages, Wire!NoBoundary
  <1>0. <<>> \in Seq(Nat)
    OBVIOUS
  <1>1. Wire!User \in WireMessages /\ Wire!User.answers = {}
    BY <1>0 DEF Wire!User
  <1>2. ASSUME NEW n \in Nat, NEW called \in [1..n -> Nat]
        PROVE  /\ Wire!Assistant(called) \in WireMessages /\ Wire!Assistant(called).answers = {}
               /\ UsesIn(Wire!Assistant(called)) = Wire!ToSet(called)
    <2>1. called \in Seq(Nat)
      OBVIOUS
    <2> QED BY <2>1 DEF Wire!User, Wire!Assistant, UsesIn, Wire!ToSet
  <1>3. ASSUME NEW id \in Nat
        PROVE  /\ Wire!ToolResult(id) \in WireMessages /\ Wire!ToolResult(id).answers = {id}
               /\ Wire!ToolResult(id).flagged
    BY <1>0 DEF Wire!User, Wire!ToolResult
  <1>4. ASSUME NEW m \in WireMessages
        PROVE  /\ Wire!Restored(m) \in WireMessages /\ Wire!Restored(m).answers = m.answers
               /\ Wire!Restored(m).uses = m.uses /\ ~Wire!Restored(m).flagged
    BY DEF Wire!Restored
  <1> QED BY <1>1, <1>2, <1>3, <1>4

LEMMA ImageIsFinite ==
    ASSUME NEW n \in Nat, NEW f, DOMAIN f = 1..n
    PROVE  IsFiniteSet({f[i] : i \in 1..n})
  <1> DEFINE T == {f[i] : i \in 1..n}
             g == [i \in 1..n |-> f[i]]
  <1>1. g \in Surjection(1..n, T)
    BY DEF Surjection
  <1>2. IsFiniteSet(1..n)
    BY FS_Interval
  <1> HIDE DEF T, g
  <1>3. IsFiniteSet(T)
    BY <1>1, <1>2, FS_Surjection
  <1> QED BY <1>3 DEF T

LEMMA SameCardinality ==
    ASSUME NEW S
    PROVE  Wire!Cardinality(S) = Cardinality(S)
  BY DEF Wire!Cardinality, Cardinality

LEMMA CallsAreCounted ==
    ASSUME NEW ms \in Seq(WireMessages)
    PROVE  Wire!Cardinality(Wire!UsesOf(ms)) \in Nat
  <1> DEFINE f == [i \in 1..Len(ms) |-> UsesIn(ms[i])]
             T == {f[i] : i \in 1..Len(ms)}
  <1>1. Len(ms) \in Nat /\ DOMAIN ms = 1..Len(ms)
    OBVIOUS
  <1>2. IsFiniteSet(T)
    <2>1. DOMAIN f = 1..Len(ms)
      OBVIOUS
    <2> HIDE DEF f
    <2> QED BY <1>1, <2>1, ImageIsFinite
  <1>3. Wire!UsesOf(ms) = UNION T
    BY <1>1 DEF Wire!UsesOf, UsesIn
  <1>4. ASSUME NEW i \in 1..Len(ms) PROVE IsFiniteSet(UsesIn(ms[i]))
    <2>1. ms[i] \in WireMessages
      BY <1>1
    <2>2. ms[i].uses \in Seq(Nat)
      BY <2>1 DEF WireMessages
    <2>3. PICK s \in Seq(Nat) : s = ms[i].uses
      BY <2>2
    <2>4. Len(s) \in Nat /\ DOMAIN s = 1..Len(s)
      OBVIOUS
    <2> QED BY <2>3, <2>4, ImageIsFinite DEF UsesIn
  <1>5. \A S \in T : IsFiniteSet(S)
    BY <1>4
  <1> HIDE DEF T
  <1>6. IsFiniteSet(UNION T)
    BY <1>2, <1>5, FS_UNION
  <1> QED BY <1>3, <1>6, FS_CardinalityType, SameCardinality

\* A message that answers nothing may follow; a result may follow the batch it is of.
LEMMA FollowGrows ==
    ASSUME NEW ms \in Seq(WireMessages), Follow(ms), NEW m \in WireMessages,
           m.answers # {} => \E k \in 1..Len(ms) : Serves(ms, m.answers, k)
    PROVE  Append(ms, m) \in Seq(WireMessages) /\ Follow(Append(ms, m))
  <1> DEFINE new == Append(ms, m)
             L == Len(ms)
  <1>1. new \in Seq(WireMessages) /\ Len(new) = L + 1 /\ L \in Nat /\ new[L + 1] = m
        /\ \A i \in 1..L : new[i] = ms[i]
    OBVIOUS
  <1> HIDE DEF new
  <1>2. ASSUME NEW i \in 1..(L + 1), new[i].answers # {}
        PROVE  \E k \in 1..(i - 1) : AnswersTo(new, i, k)
    <2>1. CASE i = L + 1
      <3>1. PICK k \in 1..L : Serves(ms, m.answers, k)
        BY <1>1, <1>2, <2>1
      <3>2. \A j \in (k + 1)..L : j \in 1..L
        BY <1>1
      <3>3. AnswersTo(new, L + 1, k)
        BY <1>1, <3>1, <3>2 DEF Serves, AnswersTo
      <3> QED BY <1>1, <2>1, <3>3
    <2>2. CASE i # L + 1
      <3>1. i \in 1..L
        BY <2>2, <1>1
      <3>2. PICK k \in 1..(i - 1) : AnswersTo(ms, i, k)
        BY <1>1, <1>2, <3>1 DEF Follow
      <3>3. k \in 1..L /\ \A j \in (k + 1)..(i - 1) : j \in 1..L
        BY <1>1, <3>1
      <3>4. AnswersTo(new, i, k)
        BY <1>1, <3>1, <3>2, <3>3 DEF AnswersTo
      <3> QED BY <3>4
    <2> QED BY <2>1, <2>2
  <1> QED BY <1>1, <1>2 DEF Follow, new

\* A reload drops results only, and the flag.
LEMMA Reloads ==
    ASSUME NEW ms \in Seq(WireMessages), Follow(ms)
    PROVE  LET new == Wire!Load(Wire!Picked(ms, {i \in DOMAIN ms : Wire!Readable(ms[i])}))
           IN  new \in Seq(WireMessages) /\ Follow(new)
  <1> DEFINE A == {i \in DOMAIN ms : Wire!Readable(ms[i])}
             p == Wire!Picked(ms, A)
             new == Wire!Load(p)
  <1>0. p = Lists!Picked(ms, A)
    BY DEF Wire!Picked, Lists!Picked
  <1>1. p \in Seq(WireMessages) /\ IsFrom(p, ms, A)
    BY <1>0, PickedFrom
  <1>2. PICK f : From(f, p, ms, A)
    BY <1>1 DEF IsFrom
  <1>3. \A i \in 1..Len(ms) : ms[i].answers = {} => i \in A
    BY DEF Wire!Readable
  <1> HIDE DEF p, A
  <1>4. new \in Seq(WireMessages) /\ Len(new) = Len(p) /\ Len(p) \in Nat
        /\ \A j \in 1..Len(p) : /\ new[j].answers = p[j].answers /\ new[j].uses = p[j].uses
                                /\ ~new[j].flagged
    <2>1. new = [j \in 1..Len(p) |-> Wire!Restored(p[j])]
      BY <1>1 DEF Wire!Load
    <2>2. \A j \in 1..Len(p) : p[j] \in WireMessages
      BY <1>1
    <2>3. \A j \in 1..Len(p) : new[j] = Wire!Restored(p[j])
      BY <2>1
    <2>4. new \in [1..Len(p) -> WireMessages]
      BY <2>1, <2>2, WireMessagesAre
    <2> HIDE DEF new
    <2>5. Len(p) \in Nat
      BY <1>1
    <2>6. new \in Seq(WireMessages) /\ Len(new) = Len(p)
      BY <2>4, <2>5
    <2> QED BY <2>2, <2>3, <2>5, <2>6, WireMessagesAre
  <1> HIDE DEF new
  <1>5. ASSUME NEW i \in 1..Len(p), new[i].answers # {}
        PROVE  \E k \in 1..(i - 1) : AnswersTo(new, i, k)
    <2>1. f[i] \in 1..Len(ms) /\ p[i] = ms[f[i]]
      BY <1>2 DEF From
    <2>2. ms[f[i]].answers # {} /\ ms[f[i]].answers = new[i].answers
      BY <1>4, <1>5, <2>1
    <2>3. PICK l \in 1..(f[i] - 1) : AnswersTo(ms, f[i], l)
      BY <2>1, <2>2 DEF Follow
    <2>4. l \in 1..Len(ms) /\ l < f[i]
      BY <2>1
    <2>5. ms[l].answers = {}
      <3>1. ms[l] \in WireMessages
        BY <2>4
      <3>2. UsesIn(ms[l]) # {}
        BY <2>2, <2>3 DEF AnswersTo
      <3>3. ms[l].uses # <<>>
        BY <3>2 DEF UsesIn
      <3> QED BY <3>1, <3>3 DEF WireMessages
    <2>6. PICK k \in 1..Len(p) : f[k] = l
      BY <1>2, <1>3, <2>4, <2>5 DEF From
    <2>7. \A x, y \in 1..Len(p) : x < y => f[x] < f[y]
      BY <1>2 DEF From
    <2>8. \A x \in 1..Len(p) : f[x] \in 1..Len(ms)
      BY <1>2 DEF From
    <2>9. k < i
      <3> SUFFICES ASSUME ~(k < i) PROVE FALSE
        OBVIOUS
      <3>1. i < k \/ i = k
        BY <1>4
      <3>2. f[i] < f[k] \/ f[i] = f[k]
        BY <2>7, <3>1
      <3> QED BY <2>1, <2>4, <2>6, <2>8, <3>2
    <2>10. new[i].answers \subseteq UsesIn(new[k])
      <3>1. p[k] = ms[l]
        BY <1>2, <2>6 DEF From
      <3> QED BY <1>4, <2>2, <2>3, <3>1 DEF AnswersTo, UsesIn
    <2>11. ASSUME NEW j \in (k + 1)..(i - 1) PROVE new[j].answers # {}
      <3>1. j \in 1..Len(p) /\ k < j /\ j < i
        BY <1>4
      <3>2. f[k] < f[j] /\ f[j] < f[i] /\ f[j] \in 1..Len(ms)
        BY <2>7, <2>8, <3>1
      <3>3. f[j] \in (l + 1)..(f[i] - 1)
        BY <2>1, <2>4, <2>6, <3>2
      <3>4. ms[f[j]].answers # {}
        BY <2>3, <3>3 DEF AnswersTo
      <3>5. p[j] = ms[f[j]]
        BY <1>2, <3>1 DEF From
      <3> QED BY <1>4, <3>1, <3>4, <3>5
    <2>12. AnswersTo(new, i, k)
      BY <1>4, <2>10, <2>11 DEF AnswersTo
    <2> QED BY <1>4, <2>9, <2>12
  <1> QED BY <1>4, <1>5 DEF Follow, new, p, A

\* A message accounts for the calls it answers and for those it makes.
LEMMA AccountedGrows ==
    ASSUME NEW ms \in Seq(WireMessages), NEW m \in WireMessages, NEW gone, NEW open, NEW still,
           Accounted(ms, gone, open), UsesIn(m) \subseteq still,
           open \subseteq still \cup m.answers, m.role # "user" => open = {}
    PROVE  Accounted(Append(ms, m), gone, still)
  <1> DEFINE new == Append(ms, m)
             L == Len(ms)
  <1>1. new \in Seq(WireMessages) /\ Len(new) = L + 1 /\ L \in Nat /\ new[L + 1] = m
        /\ \A i \in 1..L : new[i] = ms[i]
    OBVIOUS
  <1> HIDE DEF new
  <1>2. ASSUME NEW k \in 1..(L + 1), NEW x \in UsesIn(new[k]), x \notin gone
        PROVE  AnsweredBehind(new, k, x) \/ OpenAtTheEnd(new, k, x, still)
    <2>1. CASE k = L + 1
      <3>1. x \in still
        BY <1>1, <1>2, <2>1
      <3>2. ((L + 1) + 1)..(L + 1) = {}
        BY <1>1
      <3> QED BY <1>1, <2>1, <3>1, <3>2 DEF OpenAtTheEnd
    <2>2. CASE k # L + 1
      <3>1. k \in 1..L /\ new[k] = ms[k]
        BY <1>1, <2>2
      <3>2. AnsweredBehind(ms, k, x) \/ OpenAtTheEnd(ms, k, x, open)
        BY <1>2, <3>1 DEF Accounted
      <3>3. CASE AnsweredBehind(ms, k, x)
        <4>1. PICK j \in (k + 1)..L :
                x \in ms[j].answers /\ \A l \in (k + 1)..j : ms[l].role = "user"
          BY <3>3 DEF AnsweredBehind
        <4>2. j \in (k + 1)..(L + 1) /\ j \in 1..L /\ \A l \in (k + 1)..j : l \in 1..L
          BY <1>1, <3>1
        <4>3. x \in new[j].answers /\ \A l \in (k + 1)..j : new[l].role = "user"
          BY <1>1, <4>1, <4>2
        <4> QED BY <1>1, <4>2, <4>3 DEF AnsweredBehind
      <3>4. CASE OpenAtTheEnd(ms, k, x, open)
        <4>1. x \in open /\ m.role = "user" /\ \A l \in (k + 1)..L : ms[l].role = "user"
          BY <3>4 DEF OpenAtTheEnd
        <4>2. \A l \in (k + 1)..(L + 1) : l = L + 1 \/ (l \in (k + 1)..L /\ l \in 1..L)
          BY <1>1, <3>1
        <4>3. \A l \in (k + 1)..(L + 1) : new[l].role = "user"
          BY <1>1, <4>1, <4>2
        <4>4. L + 1 \in (k + 1)..(L + 1)
          BY <1>1, <3>1
        <4>5. CASE x \in m.answers
          BY <1>1, <4>3, <4>4, <4>5 DEF AnsweredBehind
        <4>6. CASE x \in still
          BY <1>1, <4>3, <4>6 DEF OpenAtTheEnd
        <4> QED BY <4>1, <4>5, <4>6
      <3> QED BY <3>2, <3>3, <3>4
    <2> QED BY <2>1, <2>2
  <1> QED BY <1>1, <1>2 DEF Accounted, new

\* What a reload drops is gone.
LEMMA AccountedReloads ==
    ASSUME NEW ms \in Seq(WireMessages), NEW gone, Accounted(ms, gone, {})
    PROVE  LET readable == {i \in DOMAIN ms : Wire!Readable(ms[i])}
               droppedIds == UNION {ms[i].answers : i \in DOMAIN ms \ readable}
           IN  Accounted(Wire!Load(Wire!Picked(ms, readable)), gone \cup droppedIds, {})
  <1> DEFINE A == {i \in DOMAIN ms : Wire!Readable(ms[i])}
             droppedIds == UNION {ms[i].answers : i \in DOMAIN ms \ A}
             p == Wire!Picked(ms, A)
             new == Wire!Load(p)
  <1>0. p = Lists!Picked(ms, A)
    BY DEF Wire!Picked, Lists!Picked
  <1>1. p \in Seq(WireMessages) /\ IsFrom(p, ms, A)
    BY <1>0, PickedFrom
  <1>2. PICK f : From(f, p, ms, A)
    BY <1>1 DEF IsFrom
  <1>3. \A j \in 1..Len(ms) : \A x \in ms[j].answers : j \in A \/ x \in droppedIds
    <2>1. DOMAIN ms = 1..Len(ms)
      OBVIOUS
    <2> HIDE DEF A
    <2> QED BY <2>1
  <1> HIDE DEF p, A, droppedIds
  <1>4. Len(new) = Len(p) /\ Len(p) \in Nat
        /\ \A j \in 1..Len(p) : /\ new[j].answers = p[j].answers /\ new[j].uses = p[j].uses
                                /\ new[j].role = p[j].role
    <2>1. new = [j \in 1..Len(p) |-> Wire!Restored(p[j])]
      BY <1>1 DEF Wire!Load
    <2>2. \A j \in 1..Len(p) : p[j] \in WireMessages
      BY <1>1
    <2>3. \A j \in 1..Len(p) : new[j] = Wire!Restored(p[j])
      BY <2>1
    <2>4. new \in [1..Len(p) -> WireMessages]
      BY <2>1, <2>2, WireMessagesAre
    <2> HIDE DEF new
    <2>5. Len(p) \in Nat
      BY <1>1
    <2>6. Len(new) = Len(p)
      BY <2>4, <2>5
    <2>7. \A m \in WireMessages : /\ Wire!Restored(m).answers = m.answers
                                   /\ Wire!Restored(m).uses = m.uses
                                   /\ Wire!Restored(m).role = m.role
      BY DEF Wire!Restored, WireMessages
    <2> QED BY <2>2, <2>3, <2>5, <2>6, <2>7
  <1> HIDE DEF new
  <1>5. /\ \A x, y \in 1..Len(p) : x < y => f[x] < f[y]
        /\ \A x \in 1..Len(p) : f[x] \in 1..Len(ms) /\ p[x] = ms[f[x]]
        /\ \A i \in 1..Len(ms) : i \in A => \E j \in 1..Len(p) : f[j] = i
    BY <1>2 DEF From
  <1>6. ASSUME NEW k \in 1..Len(p), NEW x \in UsesIn(new[k]), x \notin gone \cup droppedIds
        PROVE  AnsweredBehind(new, k, x)
    <2>1. f[k] \in 1..Len(ms) /\ x \in UsesIn(ms[f[k]])
      BY <1>4, <1>5, <1>6 DEF UsesIn
    <2>2. AnsweredBehind(ms, f[k], x)
      BY <1>6, <2>1 DEF Accounted, OpenAtTheEnd
    <2>3. PICK j \in (f[k] + 1)..Len(ms) :
            x \in ms[j].answers /\ \A l \in (f[k] + 1)..j : ms[l].role = "user"
      BY <2>2 DEF AnsweredBehind
    <2>4. j \in 1..Len(ms) /\ f[k] < j
      BY <2>1
    <2>5. j \in A
      BY <1>3, <1>6, <2>3, <2>4
    <2>6. PICK i \in 1..Len(p) : f[i] = j
      BY <1>5, <2>4, <2>5
    <2>7. k < i
      <3> SUFFICES ASSUME ~(k < i) PROVE FALSE
        OBVIOUS
      <3>1. i < k \/ i = k
        BY <1>4
      <3>2. f[i] < f[k] \/ f[i] = f[k]
        BY <1>5, <3>1
      <3> QED BY <2>1, <2>4, <2>6, <3>2
    <2>8. ASSUME NEW l \in (k + 1)..i PROVE new[l].role = "user"
      <3>1. l \in 1..Len(p) /\ k < l /\ (l = i \/ l < i)
        BY <1>4
      <3>2. f[k] < f[l] /\ (f[l] = f[i] \/ f[l] < f[i]) /\ f[l] \in 1..Len(ms)
        BY <1>5, <3>1
      <3>3. f[l] \in (f[k] + 1)..j
        BY <2>1, <2>4, <2>6, <3>2
      <3>4. ms[f[l]].role = "user"
        BY <2>3, <3>3
      <3>5. p[l] = ms[f[l]]
        BY <1>5, <3>1
      <3> QED BY <1>4, <3>1, <3>4, <3>5
    <2>9. x \in new[i].answers /\ i \in (k + 1)..Len(p)
      BY <1>4, <1>5, <2>3, <2>6, <2>7
    <2> QED BY <1>4, <2>8, <2>9 DEF AnsweredBehind
  <1> QED BY <1>4, <1>6 DEF Accounted, new, p, A, droppedIds

LEMMA WireInit == Wire!Init => WireInv
  <1> SUFFICES ASSUME Wire!Init PROVE WireInv
    OBVIOUS
  <1>1. wireMessages = <<>> /\ stage = "idle" /\ unanswered = {}
    BY DEF Wire!Init
  <1>2. <<>> \in Seq(WireMessages) /\ 1..Len(<<>>) = {}
    OBVIOUS
  <1> QED BY <1>1, <1>2 DEF WireInv, Follow, Accounted

LEMMA WireStep ==
  "micro" \notin WireOperations /\ WireInv /\ [Wire!Next]_wireVars => WireInv'
  <1> DEFINE ms == wireMessages
  <1> SUFFICES ASSUME "micro" \notin WireOperations, WireInv, [Wire!Next]_wireVars
               PROVE  WireInv'
    OBVIOUS
  <1>1. /\ ms \in Seq(WireMessages) /\ Follow(ms)
        /\ Accounted(ms, abandoned, unanswered)
        /\ stage # "serving" => unanswered = {}
    BY DEF WireInv
  <1>2. CASE UNCHANGED wireVars
    <2>1. /\ wireMessages' = wireMessages /\ unanswered' = unanswered /\ stage' = stage
          /\ abandoned' = abandoned
      BY <1>2 DEF wireVars
    <2>2. (stage = "serving" => \E k \in 1..Len(ms) : Serves(ms, unanswered, k))'
      BY <2>1 DEF WireInv
    <2>3. Follow(ms)'
      BY <1>1, <2>1
    <2>4. Accounted(ms, abandoned, unanswered)'
      BY <1>1, <2>1
    <2> QED BY <1>1, <2>1, <2>2, <2>3, <2>4 DEF WireInv
  <1>3. ASSUME ms' = ms, stage' # "serving", unanswered' = {}, Accounted(ms, abandoned', {})
        PROVE  WireInv'
    <2>1. Follow(ms)'
      BY <1>1, <1>3
    <2>2. Accounted(ms, abandoned, unanswered)'
      BY <1>3
    <2> QED BY <1>1, <1>3, <2>1, <2>2 DEF WireInv
  <1>4. ASSUME NEW m \in WireMessages, ms' = Append(ms, m), m.answers = {}
        PROVE  ms' \in Seq(WireMessages) /\ Follow(ms')
    <2>1. Append(ms, m) \in Seq(WireMessages) /\ Follow(Append(ms, m))
      BY <1>1, <1>4, FollowGrows
    <2> QED BY <1>4, <2>1
  <1>5. ASSUME ms' = Append(ms, Wire!User), stage # "serving", stage' # "serving",
               unanswered' = unanswered, abandoned' = abandoned
        PROVE  WireInv'
    <2>1. PICK m : m = Wire!User
      OBVIOUS
    <2>2. m \in WireMessages /\ m.answers = {}
      BY <2>1, WireMessagesAre
    <2>3. UsesIn(m) = {}
      <3>1. m.uses = <<>>
        BY <2>1 DEF Wire!User
      <3> QED BY <3>1 DEF UsesIn
    <2>4. ms' \in Seq(WireMessages) /\ Follow(ms')
      BY <1>4, <1>5, <2>1, <2>2
    <2>5. unanswered = {}
      BY <1>1, <1>5
    <2>6. Accounted(Append(ms, m), abandoned, unanswered)
      BY <1>1, <2>2, <2>3, <2>5, AccountedGrows
    <2>7. Accounted(ms, abandoned, unanswered)'
      BY <1>5, <2>1, <2>6
    <2> QED BY <1>5, <2>4, <2>5, <2>7 DEF WireInv
  <1>6. ASSUME Wire!Prompt PROVE WireInv'
    BY <1>5, <1>6 DEF Wire!Prompt
  <1>7. ASSUME NEW n \in WireBatchSizes, Wire!Reply(n) PROVE WireInv'
    <2> DEFINE called == [i \in 1..n |-> Wire!NextCall + i]
               m == Wire!Assistant(called)
    <2>1. n \in Nat
      BY WireAssumption
    <2>2. called \in [1..n -> Nat]
      <3>1. PICK c : c = Wire!NextCall
        OBVIOUS
      <3>2. c \in Nat
        BY <1>1, <3>1, CallsAreCounted DEF Wire!NextCall
      <3>3. \A i \in 1..n : c + i \in Nat
        BY <3>2
      <3> QED BY <3>1, <3>3
    <2>3. /\ ms' = Append(ms, m) /\ unanswered' = Wire!ToSet(called)
          /\ stage' = IF n = 0 THEN "idle" ELSE "serving"
          /\ stage = "asking" /\ abandoned' = abandoned
      BY <1>7 DEF Wire!Reply
    <2>a. n = 0 => Wire!ToSet(called) = {}
      BY DEF Wire!ToSet
    <2> HIDE DEF called
    <2>4. m \in WireMessages /\ m.answers = {} /\ UsesIn(m) = Wire!ToSet(called)
      BY <2>1, <2>2, WireMessagesAre
    <2> HIDE DEF m
    <2>5. ms' \in Seq(WireMessages) /\ Follow(ms')
      BY <1>4, <2>3, <2>4
    <2>6. Len(ms') = Len(ms) + 1 /\ ms'[Len(ms) + 1] = m /\ Len(ms) \in Nat
      BY <1>1, <2>3, <2>4
    <2>7. Serves(ms', unanswered', Len(ms) + 1)
      BY <2>3, <2>4, <2>6 DEF Serves
    <2>8. Len(ms) + 1 \in 1..Len(ms')
      BY <2>6
    <2>9. unanswered = {}
      BY <1>1, <2>3
    <2>10. Accounted(Append(ms, m), abandoned, unanswered')
      BY <1>1, <2>3, <2>4, <2>9, AccountedGrows
    <2>11. Accounted(ms, abandoned, unanswered)'
      BY <2>3, <2>10
    <2>12. stage' # "serving" => unanswered' = {}
      BY <2>3, <2>a
    <2> QED BY <2>5, <2>7, <2>8, <2>11, <2>12 DEF WireInv
  <1>8. ASSUME Wire!NoReply PROVE WireInv'
    <2>1. /\ ms' = ms /\ stage' # "serving" /\ unanswered' = unanswered
          /\ abandoned' = abandoned /\ unanswered = {}
      BY <1>1, <1>8 DEF Wire!NoReply
    <2> QED BY <1>1, <1>3, <2>1
  <1>9. ASSUME Wire!Answer PROVE WireInv'
    <2>1. PICK id \in unanswered : /\ ms' = Append(ms, Wire!ToolResult(id))
                                   /\ unanswered' = unanswered \ {id}
      BY <1>9 DEF Wire!Answer
    <2>2. stage = "serving" /\ stage' = stage /\ abandoned' = abandoned
      BY <1>9 DEF Wire!Answer
    <2>3. PICK k \in 1..Len(ms) : Serves(ms, unanswered, k)
      BY <2>2 DEF WireInv
    <2>4. id \in Nat
      <3>1. ms[k] \in WireMessages /\ id \in UsesIn(ms[k])
        BY <1>1, <2>3 DEF Serves
      <3>2. ms[k].uses \in Seq(Nat)
        BY <3>1 DEF WireMessages
      <3> QED BY <3>1, <3>2 DEF UsesIn
    <2>5. PICK m : m = Wire!ToolResult(id)
      OBVIOUS
    <2>6. m \in WireMessages /\ m.answers = {id} /\ m.flagged
      BY <2>4, <2>5, WireMessagesAre
    <2>7. Serves(ms, m.answers, k)
      BY <2>3, <2>6 DEF Serves
    <2>8. Append(ms, m) \in Seq(WireMessages) /\ Follow(Append(ms, m))
      BY <1>1, <2>6, <2>7, FollowGrows
    <2>9. Len(ms') = Len(ms) + 1 /\ Len(ms) \in Nat /\ ms'[Len(ms) + 1] = m
          /\ \A i \in 1..Len(ms) : ms'[i] = ms[i]
      BY <1>1, <2>1, <2>5, <2>6
    <2>10. Serves(ms', unanswered', k)
      <3>1. unanswered' \subseteq UsesIn(ms'[k])
        BY <2>1, <2>3, <2>9 DEF Serves
      <3>2. ASSUME NEW j \in (k + 1)..Len(ms') PROVE ms'[j].answers # {} /\ ms'[j].flagged
        <4>1. j = Len(ms) + 1 \/ j \in (k + 1)..Len(ms)
          BY <2>9
        <4>2. \A i \in (k + 1)..Len(ms) : i \in 1..Len(ms)
          BY <2>9
        <4> QED BY <4>1, <4>2, <2>3, <2>6, <2>9 DEF Serves
      <3> QED BY <3>1, <3>2 DEF Serves
    <2>11. k \in 1..Len(ms')
      BY <2>9
    <2>12. UsesIn(m) = {} /\ m.role = "user"
      <3>1. m.uses = <<>> /\ m.role = "user"
        BY <2>6 DEF WireMessages
      <3> QED BY <3>1 DEF UsesIn
    <2>13. Accounted(Append(ms, m), abandoned, unanswered')
      BY <1>1, <2>1, <2>6, <2>12, AccountedGrows
    <2>14. Accounted(ms, abandoned, unanswered)'
      BY <2>1, <2>2, <2>5, <2>13
    <2> QED BY <2>1, <2>2, <2>5, <2>8, <2>10, <2>11, <2>14 DEF WireInv
  <1>10. ASSUME Wire!Abandon PROVE WireInv'
    <2>1. /\ ms' = ms /\ stage' # "serving" /\ unanswered' = {}
          /\ abandoned' = abandoned \cup unanswered
      BY <1>10 DEF Wire!Abandon
    <2>2. Accounted(ms, abandoned', {})
      BY <1>1, <2>1 DEF Accounted, OpenAtTheEnd
    <2> QED BY <1>3, <2>1, <2>2
  <1>11. ASSUME Wire!AskAgain PROVE WireInv'
    <2>1. /\ ms' = ms /\ stage' # "serving" /\ unanswered' = unanswered
          /\ abandoned' = abandoned /\ unanswered = {}
      BY <1>11 DEF Wire!AskAgain, Wire!Served
    <2> QED BY <1>1, <1>3, <2>1
  <1>12. ASSUME Wire!Warn PROVE WireInv'
    <2>1. ms' = Append(ms, Wire!User) /\ unanswered = {} /\ unanswered' = unanswered
          /\ stage' # "serving" /\ abandoned' = abandoned
      BY <1>12 DEF Wire!Warn, Wire!Served
    <2>2. PICK m : m = Wire!User
      OBVIOUS
    <2>3. m \in WireMessages /\ m.answers = {}
      BY <2>2, WireMessagesAre
    <2>4. UsesIn(m) = {}
      <3>1. m.uses = <<>>
        BY <2>2 DEF Wire!User
      <3> QED BY <3>1 DEF UsesIn
    <2>5. ms' \in Seq(WireMessages) /\ Follow(ms')
      BY <1>4, <2>1, <2>2, <2>3
    <2>6. Accounted(Append(ms, m), abandoned, unanswered)
      BY <1>1, <2>1, <2>3, <2>4, AccountedGrows
    <2>7. Accounted(ms, abandoned, unanswered)'
      BY <2>1, <2>2, <2>6
    <2> QED BY <2>1, <2>5, <2>7 DEF WireInv
  <1>13. ASSUME Wire!Reload PROVE WireInv'
    <2> DEFINE readable == {i \in DOMAIN ms : Wire!Readable(ms[i])}
               droppedIds == UNION {ms[i].answers : i \in DOMAIN ms \ readable}
    <2>1. /\ ms' = Wire!Load(Wire!Picked(ms, readable)) /\ abandoned' = abandoned \cup droppedIds
          /\ stage = "idle" /\ stage' # "serving" /\ unanswered' = unanswered
      BY <1>13 DEF Wire!Reload
    <2>2. ms' \in Seq(WireMessages) /\ Follow(ms')
      BY <1>1, <2>1, Reloads
    <2>3. unanswered = {}
      BY <1>1, <2>1
    <2>4. Accounted(Wire!Load(Wire!Picked(ms, readable)), abandoned \cup droppedIds, {})
      BY <1>1, <2>3, AccountedReloads
    <2> HIDE DEF readable, droppedIds
    <2>5. Accounted(ms, abandoned, unanswered)'
      BY <2>1, <2>3, <2>4
    <2> QED BY <2>1, <2>2, <2>3, <2>5 DEF WireInv
  <1>14. ASSUME Wire!Micro PROVE FALSE
    BY <1>14 DEF Wire!Micro
  <1>15. ASSUME Wire!Full PROVE WireInv'
    BY <1>2, <1>15 DEF Wire!Full, Wire!vars, wireVars
  <1> QED BY <1>2, <1>6, <1>7, <1>8, <1>9, <1>10, <1>11, <1>12, <1>13, <1>14, <1>15
          DEF Wire!Next

-----------------------------------------------------------------------------
(* The blocks of what is sent.                                             *)

WireBlocks == [type : {"text", "tool_use", "tool_result"}, id : Nat]
ApiMessages == [role : {"user", "assistant"}, content : Seq(WireBlocks)]

LEMMA OneBlock ==
    ASSUME NEW x
    PROVE  Wire!SetToSeq({x}) = <<x>>
  <1>1. Wire!Cardinality({x}) = 1 /\ 1..1 = {1}
    <2>1. Cardinality({x}) = 1
      BY FS_Singleton
    <2>2. Wire!Cardinality({x}) = Cardinality({x})
      BY SameCardinality
    <2>3. 1..1 = {1}
      OBVIOUS
    <2> QED BY <2>1, <2>2, <2>3
  <1>2. \A f : f \in [1..1 -> {x}] <=> f = <<x>>
    <2> TAKE f
    <2>1. <<x>> = [i \in 1..1 |-> x]
      OBVIOUS
    <2> QED BY <1>1, <2>1
  <1>3. <<x>> \in [1..Wire!Cardinality({x}) -> {x}] /\ Wire!IsInjective(<<x>>)
    <2>1. DOMAIN <<x>> = {1}
      OBVIOUS
    <2> QED BY <1>1, <1>2, <2>1 DEF Wire!IsInjective
  <1>4. Wire!SetToSeq({x}) \in [1..Wire!Cardinality({x}) -> {x}]
    <2>1. \E f \in [1..Wire!Cardinality({x}) -> {x}] : Wire!IsInjective(f)
      BY <1>3
    <2> QED BY <2>1, Zenon DEF Wire!SetToSeq
  <1> QED BY <1>1, <1>2, <1>4

\* A message is a result, a text or some calls.
LEMMA ContentIs ==
    ASSUME NEW m \in WireMessages
    PROVE  LET c == Wire!Content(m)
           IN  /\ c \in Seq(WireBlocks) /\ c # <<>>
               /\ m.answers # {} => /\ \A j \in DOMAIN c : c[j].type = "tool_result"
                                    /\ {c[j].id : j \in DOMAIN c} = m.answers
               /\ m.answers = {} => /\ \A j \in DOMAIN c : c[j].type # "tool_result"
                                    /\ UsesIn(m) \subseteq
                                         {c[j].id : j \in {i \in DOMAIN c : c[i].type = "tool_use"}}
  <1> DEFINE c == Wire!Content(m)
  <1>1. CASE m.answers # {}
    <2>1. PICK id \in Nat : m.answers = {id}
      BY <1>1 DEF WireMessages
    <2>2. PICK b : b = Wire!Block("tool_result", id)
      OBVIOUS
    <2>3. {Wire!Block("tool_result", d) : d \in m.answers} = {b}
      BY <2>1, <2>2
    <2>4. c = <<b>>
      BY <1>1, <2>3, OneBlock DEF Wire!Content
    <2>5. b \in WireBlocks /\ b.type = "tool_result" /\ b.id = id
      BY <2>2 DEF Wire!Block, WireBlocks
    <2> HIDE DEF c
    <2>6. DOMAIN c = {1} /\ c[1] = b
      BY <2>4
    <2>7. c \in Seq(WireBlocks) /\ c # <<>>
      BY <2>4, <2>5
    <2> QED BY <1>1, <2>1, <2>5, <2>6, <2>7 DEF c
  <1>2. CASE m.answers = {} /\ m.uses = <<>>
    <2>1. c = <<Wire!Text>>
      BY <1>2 DEF Wire!Content
    <2>2. PICK b : b = Wire!Text
      OBVIOUS
    <2>3. b \in WireBlocks /\ b.type = "text"
      BY <2>2 DEF Wire!Text, Wire!Block, WireBlocks
    <2> HIDE DEF c
    <2>4. c \in Seq(WireBlocks) /\ c # <<>> /\ DOMAIN c = {1} /\ c[1] = b
      BY <2>1, <2>2, <2>3
    <2>5. UsesIn(m) = {}
      BY <1>2 DEF UsesIn
    <2> QED BY <1>2, <2>3, <2>4, <2>5 DEF c
  <1>3. CASE m.answers = {} /\ m.uses # <<>>
    <2>1. PICK s \in Seq(Nat) : s = m.uses
      BY DEF WireMessages
    <2>2. c = [i \in DOMAIN s |-> Wire!Block("tool_use", s[i])]
      BY <1>3, <2>1 DEF Wire!Content
    <2>3. Len(s) \in Nat /\ DOMAIN s = 1..Len(s) /\ s # <<>>
      BY <1>3, <2>1
    <2>4. \A i \in 1..Len(s) : s[i] \in Nat
      OBVIOUS
    <2>5. \A i \in 1..Len(s) : /\ Wire!Block("tool_use", s[i]) \in WireBlocks
                               /\ Wire!Block("tool_use", s[i]).type = "tool_use"
                               /\ Wire!Block("tool_use", s[i]).id = s[i]
      BY <2>4 DEF Wire!Block, WireBlocks
    <2> HIDE DEF c
    <2>6. c \in [1..Len(s) -> WireBlocks] /\ DOMAIN c = 1..Len(s)
      BY <2>2, <2>3, <2>5
    <2>7. c \in Seq(WireBlocks) /\ c # <<>>
      <3>1. c \in Seq(WireBlocks) /\ Len(c) = Len(s)
        BY <2>3, <2>6
      <3> QED BY <2>3, <3>1
    <2>8. \A i \in 1..Len(s) : c[i].type = "tool_use" /\ c[i].id = s[i]
      BY <2>2, <2>3, <2>5
    <2>9. UsesIn(m) = {s[i] : i \in 1..Len(s)}
      BY <2>1, <2>3 DEF UsesIn
    <2> QED BY <1>3, <2>6, <2>7, <2>8, <2>9 DEF c
  <1> QED BY <1>1, <1>2, <1>3

IdsOf(c, type) == {c[j].id : j \in {i \in DOMAIN c : c[i].type = type}}
ResultsLead(c) ==
  \A j \in DOMAIN c : c[j].type = "tool_result" => \A k \in 1..j : c[k].type = "tool_result"

LEMMA Hoists ==
    ASSUME NEW c \in Seq(WireBlocks)
    PROVE  LET h == Wire!hoistToolResults(c)
           IN  /\ h \in Seq(WireBlocks) /\ ResultsLead(h)
               /\ \A type : IdsOf(h, type) = IdsOf(c, type)
  <1> DEFINE A == Wire!Results(c)
             B == Wire!Others(c)
             a == Lists!Picked(c, A)
             b == Lists!Picked(c, B)
             h == a \o b
  <1>1. Wire!hoistToolResults(c) = h
    BY DEF Wire!hoistToolResults, Wire!Picked, Lists!Picked
  <1>2. a \in Seq(WireBlocks) /\ IsFrom(a, c, A)
    BY PickedFrom
  <1>3. b \in Seq(WireBlocks) /\ IsFrom(b, c, B)
    BY PickedFrom
  <1>4. PICK f : From(f, a, c, A)
    BY <1>2 DEF IsFrom
  <1>5. PICK g : From(g, b, c, B)
    BY <1>3 DEF IsFrom
  <1>6. \A j \in 1..Len(a) : /\ a[j].type = "tool_result"
                             /\ f[j] \in DOMAIN c /\ a[j] = c[f[j]]
    BY <1>4 DEF From, Wire!Results
  <1>7. \A j \in 1..Len(b) : /\ b[j].type # "tool_result"
                             /\ g[j] \in DOMAIN c /\ b[j] = c[g[j]]
    BY <1>5 DEF From, Wire!Others, Wire!Results
  <1> HIDE DEF a, b
  <1>8. /\ h \in Seq(WireBlocks) /\ Len(h) = Len(a) + Len(b) /\ DOMAIN h = 1..(Len(a) + Len(b))
        /\ \A j \in 1..(Len(a) + Len(b)) : h[j] = IF j <= Len(a) THEN a[j] ELSE b[j - Len(a)]
    <2>1. h \in Seq(WireBlocks)
      BY <1>2, <1>3
    <2>2. Len(h) = Len(a) + Len(b)
          /\ \A j \in 1..(Len(a) + Len(b)) : h[j] = IF j <= Len(a) THEN a[j] ELSE b[j - Len(a)]
      BY <1>2, <1>3, ConcatProperties
    <2> HIDE DEF h
    <2>3. DOMAIN h = 1..Len(h)
      BY <2>1
    <2> QED BY <2>1, <2>2, <2>3
  <1>9. Len(a) \in Nat /\ Len(b) \in Nat
    BY <1>2, <1>3
  <1> HIDE DEF h
  <1>10. \A j \in DOMAIN h : j > Len(a) => j - Len(a) \in 1..Len(b)
    BY <1>8, <1>9
  <1>11. ResultsLead(h)
    <2> SUFFICES ASSUME NEW j \in DOMAIN h, h[j].type = "tool_result", NEW k \in 1..j
                 PROVE  h[k].type = "tool_result"
      BY DEF ResultsLead
    <2>1. j <= Len(a)
      <3> SUFFICES ASSUME ~(j <= Len(a)) PROVE FALSE
        OBVIOUS
      <3>1. j - Len(a) \in 1..Len(b) /\ h[j] = b[j - Len(a)]
        BY <1>8, <1>9, <1>10
      <3> QED BY <1>7, <3>1
    <2>2. k \in 1..Len(a) /\ k \in 1..(Len(a) + Len(b)) /\ k <= Len(a)
      BY <1>8, <1>9, <2>1
    <2> QED BY <1>6, <1>8, <2>2
  <1>12. ASSUME NEW type, NEW j \in DOMAIN h, h[j].type = type PROVE h[j].id \in IdsOf(c, type)
    <2>1. CASE j <= Len(a)
      <3>1. j \in 1..Len(a) /\ h[j] = a[j]
        BY <1>8, <1>9, <2>1
      <3>2. f[j] \in DOMAIN c /\ h[j] = c[f[j]]
        BY <1>6, <3>1
      <3> QED BY <1>12, <3>2 DEF IdsOf
    <2>2. CASE ~(j <= Len(a))
      <3>1. j - Len(a) \in 1..Len(b) /\ h[j] = b[j - Len(a)]
        BY <1>8, <1>9, <1>10, <2>2
      <3>2. g[j - Len(a)] \in DOMAIN c /\ h[j] = c[g[j - Len(a)]]
        BY <1>7, <3>1
      <3> QED BY <1>12, <3>2 DEF IdsOf
    <2> QED BY <2>1, <2>2
  <1>13. \A type : IdsOf(h, type) \subseteq IdsOf(c, type)
    BY <1>12 DEF IdsOf
  <1>14. ASSUME NEW type, NEW i \in DOMAIN c, c[i].type = type PROVE c[i].id \in IdsOf(h, type)
    <2>1. i \in 1..Len(c) /\ (i \in A \/ i \in B)
      BY DEF Wire!Others
    <2> HIDE DEF A, B
    <2>2. CASE i \in A
      <3>1. PICK j \in 1..Len(a) : f[j] = i
        BY <1>4, <2>1, <2>2 DEF From
      <3>2. a[j] = c[i]
        BY <1>4, <3>1 DEF From
      <3>3. j \in DOMAIN h /\ h[j] = a[j]
        BY <1>8, <1>9
      <3> QED BY <1>14, <3>2, <3>3 DEF IdsOf
    <2>3. CASE i \in B
      <3>1. PICK j \in 1..Len(b) : g[j] = i
        BY <1>5, <2>1, <2>3 DEF From
      <3>2. b[j] = c[i]
        BY <1>5, <3>1 DEF From
      <3>3. Len(a) + j \in DOMAIN h /\ ~(Len(a) + j <= Len(a)) /\ (Len(a) + j) - Len(a) = j
        BY <1>8, <1>9
      <3>4. h[Len(a) + j] = b[j]
        BY <1>8, <3>3
      <3> QED BY <1>14, <3>2, <3>3, <3>4 DEF IdsOf
    <2> QED BY <2>1, <2>2, <2>3
  <1>15. \A type : IdsOf(c, type) \subseteq IdsOf(h, type)
    BY <1>14 DEF IdsOf
  <1>16. ASSUME NEW type PROVE IdsOf(h, type) = IdsOf(c, type)
    <2>1. IdsOf(h, type) \subseteq IdsOf(c, type) /\ IdsOf(c, type) \subseteq IdsOf(h, type)
      BY <1>13, <1>15
    <2> QED BY <2>1
  <1> QED BY <1>1, <1>8, <1>11, <1>16

\* The blocks of two lists, one behind the other, are the blocks of both.
LEMMA Joins ==
    ASSUME NEW x \in Seq(WireBlocks), NEW y \in Seq(WireBlocks), NEW type
    PROVE  IdsOf(x \o y, type) = IdsOf(x, type) \cup IdsOf(y, type)
  <1>1. PICK z : z = x \o y
    OBVIOUS
  <1>2. /\ Len(x) \in Nat /\ Len(y) \in Nat /\ DOMAIN x = 1..Len(x) /\ DOMAIN y = 1..Len(y)
        /\ DOMAIN z = 1..(Len(x) + Len(y))
        /\ \A i \in 1..(Len(x) + Len(y)) : z[i] = IF i <= Len(x) THEN x[i] ELSE y[i - Len(x)]
    <2>1. z \in Seq(WireBlocks) /\ Len(z) = Len(x) + Len(y)
          /\ \A i \in 1..(Len(x) + Len(y)) : z[i] = IF i <= Len(x) THEN x[i] ELSE y[i - Len(x)]
      BY <1>1, ConcatProperties
    <2> QED BY <2>1
  <1>3. ASSUME NEW j \in DOMAIN z, z[j].type = type
        PROVE  z[j].id \in IdsOf(x, type) \cup IdsOf(y, type)
    <2>1. CASE j <= Len(x)
      <3>1. j \in DOMAIN x /\ z[j] = x[j]
        BY <1>2, <2>1
      <3> QED BY <1>3, <3>1 DEF IdsOf
    <2>2. CASE ~(j <= Len(x))
      <3>1. j - Len(x) \in DOMAIN y /\ z[j] = y[j - Len(x)]
        BY <1>2, <2>2
      <3> QED BY <1>3, <3>1 DEF IdsOf
    <2> QED BY <2>1, <2>2
  <1>4. ASSUME NEW j \in DOMAIN x, x[j].type = type PROVE x[j].id \in IdsOf(z, type)
    <2>1. j \in DOMAIN z /\ z[j] = x[j]
      BY <1>2
    <2> QED BY <1>4, <2>1 DEF IdsOf
  <1>5. ASSUME NEW j \in DOMAIN y, y[j].type = type PROVE y[j].id \in IdsOf(z, type)
    <2>1. Len(x) + j \in DOMAIN z /\ ~(Len(x) + j <= Len(x)) /\ (Len(x) + j) - Len(x) = j
      BY <1>2
    <2>2. z[Len(x) + j] = y[j]
      BY <1>2, <2>1
    <2> QED BY <1>5, <2>1, <2>2 DEF IdsOf
  <1>6. IdsOf(z, type) \subseteq IdsOf(x, type) \cup IdsOf(y, type)
    BY <1>3 DEF IdsOf
  <1>7. IdsOf(x, type) \subseteq IdsOf(z, type)
    BY <1>4 DEF IdsOf
  <1>8. IdsOf(y, type) \subseteq IdsOf(z, type)
    BY <1>5 DEF IdsOf
  <1>9. IdsOf(z, type) = IdsOf(x, type) \cup IdsOf(y, type)
    BY <1>6, <1>7, <1>8
  <1> QED BY <1>1, <1>9

\* Only a message that calls has calls.
LEMMA CallsAre ==
    ASSUME NEW m \in WireMessages
    PROVE  IdsOf(Wire!toApiJson(m).content, "tool_use") \subseteq UsesIn(m)
  <1>1. PICK c : c = Wire!Content(m)
    OBVIOUS
  <1>2. Wire!toApiJson(m).content = c
    BY <1>1 DEF Wire!toApiJson
  <1>3. /\ c \in Seq(WireBlocks)
        /\ m.answers # {} => \A j \in DOMAIN c : c[j].type = "tool_result"
    BY <1>1, ContentIs
  <1>4. CASE m.answers # {}
    BY <1>2, <1>3, <1>4 DEF IdsOf
  <1>5. CASE m.answers = {} /\ m.uses = <<>>
    <2>1. PICK b : b = Wire!Text
      OBVIOUS
    <2>2. c = <<b>> /\ b.type = "text"
      BY <1>1, <1>5, <2>1 DEF Wire!Content, Wire!Text, Wire!Block
    <2>3. DOMAIN c = {1} /\ c[1] = b
      BY <2>2
    <2> QED BY <1>2, <2>2, <2>3 DEF IdsOf
  <1>6. CASE m.answers = {} /\ m.uses # <<>>
    <2>1. PICK s \in Seq(Nat) : s = m.uses
      BY DEF WireMessages
    <2>2. c = [i \in DOMAIN s |-> Wire!Block("tool_use", s[i])]
      BY <1>1, <1>6, <2>1 DEF Wire!Content
    <2>3. DOMAIN c = DOMAIN s /\ \A i \in DOMAIN s : c[i].id = s[i]
      BY <2>2 DEF Wire!Block
    <2> QED BY <1>2, <2>1, <2>3 DEF IdsOf, UsesIn
  <1> QED BY <1>4, <1>5, <1>6

\* What the list that is sent keeps to, and what it ends with.
WireOK(w) ==
  /\ \A i \in 1..(Len(w) - 1) : ~(w[i].role = "user" /\ w[i + 1].role = "user")
  /\ \A i \in 1..Len(w) : ResultsLead(w[i].content)
  /\ \A i \in 1..Len(w) : IdsOf(w[i].content, "tool_result") # {} =>
       i > 1 /\ IdsOf(w[i].content, "tool_result") \subseteq IdsOf(w[i - 1].content, "tool_use")
IsLastCaller(ms, n, k) ==
  ms[k].role = "assistant" /\ \A j \in (k + 1)..n : ms[j].role = "user"
EndsWith(w, ms, n) ==
  \A k \in 1..n : IsLastCaller(ms, n, k) =>
    IF k = n THEN Len(w) > 0 /\ w[Len(w)] = Wire!toApiJson(ms[k])
    ELSE Len(w) > 1 /\ w[Len(w) - 1] = Wire!toApiJson(ms[k]) /\ w[Len(w)].role = "user"

LEMMA JsonIs ==
    ASSUME NEW m \in WireMessages
    PROVE  LET a == Wire!toApiJson(m)
           IN  /\ a \in ApiMessages /\ a.role = m.role /\ ResultsLead(a.content)
               /\ IdsOf(a.content, "tool_result") = m.answers
               /\ m.answers = {} => UsesIn(m) \subseteq IdsOf(a.content, "tool_use")
  <1>1. PICK a : a = Wire!toApiJson(m)
    OBVIOUS
  <1>2. PICK c : c = Wire!Content(m)
    OBVIOUS
  <1>3. m.role \in {"user", "assistant"}
    BY DEF WireMessages
  <1>4. a.role = m.role /\ a.content = c /\ a = [role |-> m.role, content |-> c]
    BY <1>1, <1>2, <1>3 DEF Wire!toApiJson, Wire!ApiRole
  <1>5. /\ c \in Seq(WireBlocks)
        /\ m.answers # {} => /\ \A j \in DOMAIN c : c[j].type = "tool_result"
                             /\ {c[j].id : j \in DOMAIN c} = m.answers
        /\ m.answers = {} => /\ \A j \in DOMAIN c : c[j].type # "tool_result"
                             /\ UsesIn(m) \subseteq
                                  {c[j].id : j \in {i \in DOMAIN c : c[i].type = "tool_use"}}
    BY <1>2, ContentIs
  <1>6. ResultsLead(c)
    <2>1. CASE m.answers # {}
      <3>1. \A j \in DOMAIN c : \A k \in 1..j : k \in DOMAIN c
        BY <1>5
      <3> QED BY <1>5, <2>1, <3>1 DEF ResultsLead
    <2>2. CASE m.answers = {}
      BY <1>5, <2>2 DEF ResultsLead
    <2> QED BY <2>1, <2>2
  <1>7. IdsOf(c, "tool_result") = m.answers
    <2>1. CASE m.answers # {}
      <3>1. {i \in DOMAIN c : c[i].type = "tool_result"} = DOMAIN c
        BY <1>5, <2>1
      <3> QED BY <1>5, <2>1, <3>1 DEF IdsOf
    <2>2. CASE m.answers = {}
      <3>1. {i \in DOMAIN c : c[i].type = "tool_result"} = {}
        BY <1>5, <2>2
      <3> QED BY <2>2, <3>1 DEF IdsOf
    <2> QED BY <2>1, <2>2
  <1>8. m.answers = {} => UsesIn(m) \subseteq IdsOf(c, "tool_use")
    BY <1>5 DEF IdsOf
  <1> QED BY <1>1, <1>3, <1>4, <1>5, <1>6, <1>7, <1>8 DEF ApiMessages

\* A result comes after the calls of the last assistant, with results between.
LEMMA CallerOf ==
    ASSUME NEW ms \in Seq(WireMessages), Follow(ms), NEW n \in 1..Len(ms), ms[n].answers # {}
    PROVE  \E k \in 1..(n - 1) : /\ IsLastCaller(ms, n - 1, k) /\ ms[k].answers = {}
                                 /\ ms[n].answers \subseteq UsesIn(ms[k])
  <1>1. PICK k \in 1..(n - 1) : AnswersTo(ms, n, k)
    BY DEF Follow
  <1>2. Len(ms) \in Nat /\ \A i \in 1..Len(ms) : ms[i] \in WireMessages
    OBVIOUS
  <1>3. UsesIn(ms[k]) # {}
    BY <1>1 DEF AnswersTo
  <1>4. ms[k].uses # <<>>
    BY <1>3 DEF UsesIn
  <1>5. k \in 1..Len(ms)
    BY <1>2
  <1>6. ms[k].role = "assistant" /\ ms[k].answers = {}
    BY <1>2, <1>4, <1>5 DEF WireMessages
  <1>7. ASSUME NEW j \in (k + 1)..(n - 1) PROVE ms[j].role = "user"
    <2>1. j \in 1..Len(ms) /\ ms[j].answers # {}
      BY <1>1, <1>2 DEF AnswersTo
    <2> QED BY <1>2, <2>1 DEF WireMessages
  <1> QED BY <1>1, <1>6, <1>7 DEF IsLastCaller, AnswersTo

LEMMA Merges ==
    ASSUME NEW ms \in Seq(WireMessages), Follow(ms), NEW n \in 1..Len(ms),
           NEW w \in Seq(ApiMessages), WireOK(w), EndsWith(w, ms, n - 1)
    PROVE  LET v == Wire!Merged(w, Wire!toApiJson(ms[n]))
           IN  v \in Seq(ApiMessages) /\ WireOK(v) /\ EndsWith(v, ms, n)
  <1> DEFINE L == Len(w)
             v == Wire!Merged(w, Wire!toApiJson(ms[n]))
  <1>1. L \in Nat /\ Len(ms) \in Nat /\ n \in Nat /\ n >= 1
        /\ (\A i \in 1..L : w[i] \in ApiMessages) /\ \A i \in 1..Len(ms) : ms[i] \in WireMessages
    OBVIOUS
  <1>2. PICK a : a = Wire!toApiJson(ms[n])
    OBVIOUS
  <1>3. /\ a \in ApiMessages /\ a.role = ms[n].role /\ ResultsLead(a.content)
        /\ IdsOf(a.content, "tool_result") = ms[n].answers
    BY <1>1, <1>2, JsonIs
  <1>4. ASSUME ms[n].answers # {}
        PROVE  \E k \in 1..(n - 1) :
                 /\ IsLastCaller(ms, n - 1, k) /\ Wire!toApiJson(ms[k]).role = "assistant"
                 /\ ms[n].answers \subseteq IdsOf(Wire!toApiJson(ms[k]).content, "tool_use")
    <2>1. PICK k \in 1..(n - 1) : /\ IsLastCaller(ms, n - 1, k) /\ ms[k].answers = {}
                                  /\ ms[n].answers \subseteq UsesIn(ms[k])
      BY <1>4, CallerOf
    <2>2. ms[k] \in WireMessages
      BY <1>1
    <2>3. /\ Wire!toApiJson(ms[k]).role = ms[k].role
          /\ UsesIn(ms[k]) \subseteq IdsOf(Wire!toApiJson(ms[k]).content, "tool_use")
      BY <2>1, <2>2, JsonIs
    <2> QED BY <2>1, <2>3 DEF IsLastCaller
  <1>5. \A k \in 1..n : Wire!toApiJson(ms[k]).role = ms[k].role
    <2>1. \A k \in 1..n : ms[k] \in WireMessages
      BY <1>1
    <2> QED BY <2>1, JsonIs
  <1>6. \A k \in 1..(n - 1) : IsLastCaller(ms, n - 1, k) =>
          IF k = n - 1 THEN L > 0 /\ w[L] = Wire!toApiJson(ms[k])
          ELSE L > 1 /\ w[L - 1] = Wire!toApiJson(ms[k]) /\ w[L].role = "user"
    BY DEF EndsWith
  <1>7. \A k \in 1..n : IsLastCaller(ms, n, k) =>
          /\ k = n => ms[n].role = "assistant"
          /\ k # n => k \in 1..(n - 1) /\ IsLastCaller(ms, n - 1, k) /\ ms[n].role = "user"
    BY <1>1 DEF IsLastCaller
  <1>8. v = IF w # <<>> /\ w[L].role = "user" /\ a.role = "user"
            THEN [w EXCEPT ![L].content = Wire!hoistToolResults(w[L].content \o a.content)]
            ELSE Append(w, a)
    BY <1>2 DEF Wire!Merged, Wire!Last
  <1>9. w # <<>> <=> L > 0
    OBVIOUS
  <1>a. \A k \in 1..(n - 1) : IsLastCaller(ms, n - 1, k) => ms[k].role = "assistant"
    BY DEF IsLastCaller
  <1> HIDE DEF v, L
  <1>10. CASE w # <<>> /\ w[L].role = "user" /\ a.role = "user"
    <2>1. PICK h : h = Wire!hoistToolResults(w[L].content \o a.content)
      OBVIOUS
    <2>2. L > 0 /\ L \in 1..L /\ w[L] \in ApiMessages
      BY <1>1, <1>9, <1>10
    <2>3. PICK x, y : x = w[L].content /\ y = a.content
      OBVIOUS
    <2>4. x \in Seq(WireBlocks) /\ y \in Seq(WireBlocks)
      BY <1>3, <2>2, <2>3 DEF ApiMessages
    <2>5. x \o y \in Seq(WireBlocks)
      BY <2>4
    <2>6. /\ h \in Seq(WireBlocks) /\ ResultsLead(h)
          /\ \A type : IdsOf(h, type) = IdsOf(x \o y, type)
      BY <2>1, <2>3, <2>5, Hoists
    <2>7. \A type : IdsOf(x \o y, type) \subseteq IdsOf(x, type) \cup IdsOf(y, type)
      BY <2>4, Joins
    <2>8. v = [w EXCEPT ![L].content = h]
      BY <1>8, <1>10, <2>1
    <2>9. /\ v \in Seq(ApiMessages) /\ Len(v) = L
          /\ \A i \in 1..L : v[i] = IF i = L THEN [w[L] EXCEPT !.content = h] ELSE w[i]
      <3>1. DOMAIN w = 1..L
        BY DEF L
      <3>2. v = [i \in 1..L |-> IF i = L THEN [w[L] EXCEPT !.content = h] ELSE w[i]]
        BY <2>2, <2>8, <3>1
      <3>3. [w[L] EXCEPT !.content = h] \in ApiMessages
        BY <2>2, <2>6 DEF ApiMessages
      <3>4. v \in [1..L -> ApiMessages]
        BY <1>1, <3>2, <3>3
      <3>5. v \in Seq(ApiMessages) /\ Len(v) = L
        BY <1>1, <3>4
      <3> QED BY <3>2, <3>5
    <2>10. v[L].role = "user" /\ v[L].content = h
      BY <1>10, <2>2, <2>9 DEF ApiMessages
    <2>11. ASSUME NEW k \in 1..(n - 1), IsLastCaller(ms, n - 1, k)
           PROVE  L > 1 /\ w[L - 1] = Wire!toApiJson(ms[k])
      <3>1. Wire!toApiJson(ms[k]).role = "assistant"
        BY <1>1, <1>5, <1>a, <2>11
      <3>2. k # n - 1
        BY <1>6, <1>10, <2>11, <3>1
      <3> QED BY <1>6, <2>11, <3>2
    <2>12. WireOK(v)
      <3>1. \A i \in 1..L : v[i].role = w[i].role
        BY <1>10, <2>9, <2>10
      <3>2. \A i \in 1..(L - 1) : ~(v[i].role = "user" /\ v[i + 1].role = "user")
        <4>1. \A i \in 1..(L - 1) : i \in 1..L /\ i + 1 \in 1..L
          BY <1>1
        <4> QED BY <3>1, <4>1 DEF WireOK, L
      <3>3. \A i \in 1..L : ResultsLead(v[i].content)
        BY <2>6, <2>9, <2>10 DEF WireOK, L
      <3>4. ASSUME NEW i \in 1..L, IdsOf(v[i].content, "tool_result") # {}
            PROVE  /\ i > 1
                   /\ IdsOf(v[i].content, "tool_result") \subseteq IdsOf(v[i - 1].content, "tool_use")
        <4>1. CASE i # L
          <5>1. v[i] = w[i]
            BY <2>9, <4>1
          <5>2. i > 1 /\ IdsOf(w[i].content, "tool_result") \subseteq IdsOf(w[i - 1].content, "tool_use")
            BY <3>4, <5>1 DEF WireOK, L
          <5>3. i - 1 \in 1..L /\ i - 1 # L
            BY <1>1, <5>2
          <5> QED BY <2>9, <5>1, <5>2, <5>3
        <4>2. CASE i = L
          <5>1. IdsOf(v[i].content, "tool_result")
                  \subseteq IdsOf(x, "tool_result") \cup ms[n].answers
            BY <1>3, <2>3, <2>6, <2>7, <2>10, <4>2
          <5>2. IdsOf(x, "tool_result") # {} =>
                  L > 1 /\ IdsOf(x, "tool_result") \subseteq IdsOf(w[L - 1].content, "tool_use")
            BY <2>2, <2>3 DEF WireOK, L
          <5>3. ms[n].answers # {} =>
                  L > 1 /\ ms[n].answers \subseteq IdsOf(w[L - 1].content, "tool_use")
            BY <1>4, <2>11
          <5>4. L > 1
            BY <3>4, <5>1, <5>2, <5>3
          <5>5. v[L - 1] = w[L - 1]
            <6>1. L - 1 \in 1..L /\ L - 1 # L
              BY <1>1, <5>4
            <6> QED BY <2>9, <6>1
          <5> QED BY <4>2, <5>1, <5>2, <5>3, <5>4, <5>5
        <4> QED BY <4>1, <4>2
      <3> QED BY <2>9, <3>2, <3>3, <3>4 DEF WireOK
    <2>13. EndsWith(v, ms, n)
      <3> SUFFICES ASSUME NEW k \in 1..n, IsLastCaller(ms, n, k)
                   PROVE  IF k = n THEN Len(v) > 0 /\ v[Len(v)] = Wire!toApiJson(ms[k])
                          ELSE /\ Len(v) > 1 /\ v[Len(v) - 1] = Wire!toApiJson(ms[k])
                               /\ v[Len(v)].role = "user"
        BY DEF EndsWith
      <3>1. k # n
        BY <1>3, <1>7, <1>10
      <3>2. k \in 1..(n - 1) /\ IsLastCaller(ms, n - 1, k)
        BY <1>7, <3>1
      <3>3. L > 1 /\ w[L - 1] = Wire!toApiJson(ms[k])
        BY <2>11, <3>2
      <3>4. L - 1 \in 1..L /\ L - 1 # L
        BY <1>1, <3>3
      <3>5. v[L - 1] = w[L - 1]
        BY <2>9, <3>4
      <3> QED BY <2>9, <2>10, <3>1, <3>3, <3>5
    <2> QED BY <2>9, <2>12, <2>13 DEF v
  <1>11. CASE ~(w # <<>> /\ w[L].role = "user" /\ a.role = "user")
    <2>1. v = Append(w, a)
      BY <1>8, <1>11
    <2>2. v \in Seq(ApiMessages) /\ Len(v) = L + 1 /\ v[L + 1] = a
          /\ \A i \in 1..L : v[i] = w[i]
      BY <1>3, <2>1 DEF L
    <2>3. ASSUME NEW k \in 1..(n - 1), IsLastCaller(ms, n - 1, k), a.role = "user"
          PROVE  L > 0 /\ w[L] = Wire!toApiJson(ms[k])
      <3>1. k = n - 1
        <4> SUFFICES ASSUME k # n - 1 PROVE FALSE
          OBVIOUS
        <4>1. L > 1 /\ w[L].role = "user"
          BY <1>6, <2>3
        <4>2. w # <<>>
          BY <1>1, <1>9, <4>1
        <4> QED BY <1>11, <2>3, <4>1, <4>2
      <3> QED BY <1>6, <2>3, <3>1
    <2>4. WireOK(v)
      <3>1. ASSUME NEW i \in 1..L, v[i].role = "user", v[i + 1].role = "user" PROVE FALSE
        <4>1. CASE i = L
          <5>1. L > 0
            BY <1>1, <3>1, <4>1
          <5> QED BY <1>9, <1>11, <2>2, <3>1, <4>1, <5>1
        <4>2. CASE i # L
          <5>1. i \in 1..(L - 1) /\ i + 1 \in 1..L
            BY <1>1, <4>2
          <5> QED BY <2>2, <3>1, <5>1 DEF WireOK, L
        <4> QED BY <4>1, <4>2
      <3>2. ASSUME NEW i \in 1..(L + 1) PROVE ResultsLead(v[i].content)
        <4>1. CASE i = L + 1
          BY <1>3, <2>2, <4>1
        <4>2. CASE i # L + 1
          <5>1. i \in 1..L
            BY <1>1, <4>2
          <5> QED BY <2>2, <5>1 DEF WireOK, L
        <4> QED BY <4>1, <4>2
      <3>3. ASSUME NEW i \in 1..(L + 1), IdsOf(v[i].content, "tool_result") # {}
            PROVE  /\ i > 1
                   /\ IdsOf(v[i].content, "tool_result") \subseteq IdsOf(v[i - 1].content, "tool_use")
        <4>1. CASE i # L + 1
          <5>0. i \in 1..L
            BY <1>1, <4>1
          <5>1. i \in 1..L /\ v[i] = w[i]
            BY <2>2, <5>0
          <5>2. i > 1 /\ IdsOf(w[i].content, "tool_result") \subseteq IdsOf(w[i - 1].content, "tool_use")
            BY <3>3, <5>1 DEF WireOK, L
          <5>3. i - 1 \in 1..L
            BY <1>1, <5>1, <5>2
          <5> QED BY <2>2, <5>1, <5>2, <5>3
        <4>2. CASE i = L + 1
          <5>1. IdsOf(v[i].content, "tool_result") = ms[n].answers /\ ms[n].answers # {}
            BY <1>3, <2>2, <3>3, <4>2
          <5>2. ms[n].role = "user"
            BY <1>1, <5>1 DEF WireMessages
          <5>3. PICK k \in 1..(n - 1) :
                  /\ IsLastCaller(ms, n - 1, k)
                  /\ ms[n].answers \subseteq IdsOf(Wire!toApiJson(ms[k]).content, "tool_use")
            BY <1>4, <5>1
          <5>4. L > 0 /\ w[L] = Wire!toApiJson(ms[k])
            BY <1>3, <2>3, <5>2, <5>3
          <5>5. L \in 1..L /\ (L + 1) - 1 = L /\ L + 1 > 1
            BY <1>1, <5>4
          <5> QED BY <2>2, <4>2, <5>1, <5>3, <5>4, <5>5
        <4> QED BY <4>1, <4>2
      <3>4. (L + 1) - 1 = L
        BY <1>1
      <3> QED BY <2>2, <3>1, <3>2, <3>3, <3>4 DEF WireOK
    <2>5. EndsWith(v, ms, n)
      <3> SUFFICES ASSUME NEW k \in 1..n, IsLastCaller(ms, n, k)
                   PROVE  IF k = n THEN Len(v) > 0 /\ v[Len(v)] = Wire!toApiJson(ms[k])
                          ELSE /\ Len(v) > 1 /\ v[Len(v) - 1] = Wire!toApiJson(ms[k])
                               /\ v[Len(v)].role = "user"
        BY DEF EndsWith
      <3>1. CASE k = n
        BY <1>1, <1>2, <2>2, <3>1
      <3>2. CASE k # n
        <4>1. k \in 1..(n - 1) /\ IsLastCaller(ms, n - 1, k) /\ a.role = "user"
          BY <1>3, <1>7, <3>2
        <4>2. L > 0 /\ w[L] = Wire!toApiJson(ms[k])
          BY <2>3, <4>1
        <4>3. L \in 1..L /\ (L + 1) - 1 = L /\ L + 1 > 1
          BY <1>1, <4>2
        <4> QED BY <2>2, <3>2, <4>1, <4>2, <4>3
      <3> QED BY <3>1, <3>2
    <2> QED BY <2>2, <2>4, <2>5 DEF v
  <1> QED BY <1>10, <1>11

\* What is merged: the last message gets the blocks, or there is one more.
LEMMA MergedIs ==
    ASSUME NEW w \in Seq(ApiMessages), NEW a \in ApiMessages
    PROVE  LET v == Wire!Merged(w, a)
               L == Len(w)
           IN  IF L > 0 /\ w[L].role = "user" /\ a.role = "user"
               THEN /\ Len(v) = L /\ \A i \in 1..(L - 1) : v[i] = w[i]
                    /\ \A type : IdsOf(v[L].content, type)
                                  = IdsOf(w[L].content, type) \cup IdsOf(a.content, type)
               ELSE Len(v) = L + 1 /\ v[L + 1] = a /\ \A i \in 1..L : v[i] = w[i]
  <1>1. PICK v : v = Wire!Merged(w, a)
    OBVIOUS
  <1>2. PICK L : L = Len(w)
    OBVIOUS
  <1>3. L \in Nat /\ (w # <<>> <=> L > 0) /\ DOMAIN w = 1..L
    BY <1>2
  <1>4. v = IF w # <<>> /\ w[L].role = "user" /\ a.role = "user"
            THEN [w EXCEPT ![L].content = Wire!hoistToolResults(w[L].content \o a.content)]
            ELSE Append(w, a)
    BY <1>1, <1>2 DEF Wire!Merged, Wire!Last
  <1>5. CASE L > 0 /\ w[L].role = "user" /\ a.role = "user"
    <2>1. PICK x, y, h : x = w[L].content /\ y = a.content /\ h = Wire!hoistToolResults(x \o y)
      OBVIOUS
    <2>2. L \in 1..L /\ w[L] \in ApiMessages
      BY <1>2, <1>3, <1>5
    <2>3. x \in Seq(WireBlocks) /\ y \in Seq(WireBlocks)
      BY <2>1, <2>2 DEF ApiMessages
    <2>4. x \o y \in Seq(WireBlocks)
      BY <2>3
    <2>5. \A type : IdsOf(h, type) = IdsOf(x, type) \cup IdsOf(y, type)
      <3> TAKE type
      <3>1. IdsOf(h, type) = IdsOf(x \o y, type)
        BY <2>1, <2>4, Hoists
      <3>2. IdsOf(x \o y, type) = IdsOf(x, type) \cup IdsOf(y, type)
        BY <2>3, Joins
      <3> QED BY <3>1, <3>2
    <2>6. v = [w EXCEPT ![L].content = h]
      BY <1>3, <1>4, <1>5, <2>1
    <2>7. v = [i \in 1..L |-> IF i = L THEN [w[L] EXCEPT !.content = h] ELSE w[i]]
      BY <1>3, <2>2, <2>6
    <2>8. Len(v) = L /\ v[L].content = h /\ \A i \in 1..(L - 1) : v[i] = w[i]
      <3>1. DOMAIN v = 1..L
        BY <2>7
      <3>2. v[L] = [w[L] EXCEPT !.content = h]
        BY <2>2, <2>7
      <3>3. v[L].content = h
        BY <2>2, <3>2 DEF ApiMessages
      <3>4. \A i \in 1..(L - 1) : i \in 1..L /\ i # L
        BY <1>3
      <3>5. \A i \in 1..(L - 1) : v[i] = w[i]
        BY <2>7, <3>4
      <3>6. Len(v) = L
        BY ONLY <1>3, <2>7
      <3> QED BY <3>3, <3>5, <3>6
    <2> QED BY <1>1, <1>2, <1>5, <2>1, <2>5, <2>8
  <1>6. CASE ~(L > 0 /\ w[L].role = "user" /\ a.role = "user")
    <2>1. v = Append(w, a)
      BY <1>3, <1>4, <1>6
    <2>2. Len(v) = L + 1 /\ v[L + 1] = a /\ \A i \in 1..L : v[i] = w[i]
      BY <1>2, <2>1
    <2> QED BY <1>1, <1>2, <1>6, <2>2
  <1> QED BY <1>5, <1>6

\* Each call that is sent is one of a message k, which is at the end while the user's
\* messages follow, and what follows it sends the results that are behind k.
IsAtTheEnd(w, ms, n, k, i) == IsLastCaller(ms, n, k) => i = IF k = n THEN Len(w) ELSE Len(w) - 1
SendsBehind(w, ms, n, k, i, x) ==
  \A j \in (k + 1)..n :
    (x \in ms[j].answers /\ \A l \in (k + 1)..j : ms[l].role = "user") =>
      i < Len(w) /\ x \in IdsOf(w[i + 1].content, "tool_result")
Kept(w, ms, n) ==
  \A i \in 1..Len(w) : \A x \in IdsOf(w[i].content, "tool_use") :
    \E k \in 1..n : /\ x \in UsesIn(ms[k]) /\ IsAtTheEnd(w, ms, n, k, i)
                     /\ SendsBehind(w, ms, n, k, i, x)

LEMMA CallsStayKept ==
    ASSUME NEW ms \in Seq(WireMessages), NEW n \in 1..Len(ms),
           NEW w \in Seq(ApiMessages), EndsWith(w, ms, n - 1), Kept(w, ms, n - 1)
    PROVE  Kept(Wire!Merged(w, Wire!toApiJson(ms[n])), ms, n)
  <1>1. PICK a : a = Wire!toApiJson(ms[n])
    OBVIOUS
  <1>2. PICK v : v = Wire!Merged(w, a)
    OBVIOUS
  <1>3. PICK L : L = Len(w)
    OBVIOUS
  <1>4. L \in Nat /\ Len(ms) \in Nat /\ n \in Nat /\ n >= 1
        /\ \A i \in 1..Len(ms) : ms[i] \in WireMessages
    BY <1>3
  <1>5. /\ a \in ApiMessages /\ a.role = ms[n].role
        /\ IdsOf(a.content, "tool_result") = ms[n].answers
        /\ IdsOf(a.content, "tool_use") \subseteq UsesIn(ms[n])
    BY <1>1, <1>4, JsonIs, CallsAre
  <1>6. \A k \in 1..(n - 1) : IsLastCaller(ms, n - 1, k) =>
          /\ k = n - 1 => w[L].role = "assistant"
          /\ k # n - 1 => L > 1 /\ w[L].role = "user"
    <2> SUFFICES ASSUME NEW k \in 1..(n - 1), IsLastCaller(ms, n - 1, k)
                 PROVE  /\ k = n - 1 => w[L].role = "assistant"
                        /\ k # n - 1 => L > 1 /\ w[L].role = "user"
      OBVIOUS
    <2>1. IF k = n - 1 THEN Len(w) > 0 /\ w[Len(w)] = Wire!toApiJson(ms[k])
          ELSE Len(w) > 1 /\ w[Len(w) - 1] = Wire!toApiJson(ms[k]) /\ w[Len(w)].role = "user"
      BY DEF EndsWith
    <2>2. ms[k] \in WireMessages /\ ms[k].role = "assistant"
      BY <1>4 DEF IsLastCaller
    <2>3. Wire!toApiJson(ms[k]).role = "assistant"
      BY <2>2, JsonIs
    <2> QED BY <1>3, <2>1, <2>3
  <1>7. IF L > 0 /\ w[L].role = "user" /\ a.role = "user"
        THEN /\ Len(v) = L /\ \A i \in 1..(L - 1) : v[i] = w[i]
             /\ \A type : IdsOf(v[L].content, type)
                           = IdsOf(w[L].content, type) \cup IdsOf(a.content, type)
        ELSE Len(v) = L + 1 /\ v[L + 1] = a /\ \A i \in 1..L : v[i] = w[i]
    BY <1>2, <1>3, <1>5, MergedIs
  <1>8. \A k \in 1..(n - 1) : IsLastCaller(ms, n, k) =>
          IsLastCaller(ms, n - 1, k) /\ ms[n].role = "user"
    BY <1>4 DEF IsLastCaller
  <1>9. ASSUME NEW k \in 1..(n - 1), NEW x \in UsesIn(ms[k]),
               \A l \in (k + 1)..n : ms[l].role = "user"
        PROVE  IsLastCaller(ms, n - 1, k) /\ ms[n].role = "user"
    <2>1. ms[k] \in WireMessages /\ ms[k].uses # <<>>
      BY <1>4, <1>9 DEF UsesIn
    <2>2. ms[k].role = "assistant"
      BY <2>1 DEF WireMessages
    <2>3. n \in (k + 1)..n /\ \A j \in (k + 1)..(n - 1) : j \in (k + 1)..n
      BY <1>4
    <2> QED BY <1>9, <2>2, <2>3 DEF IsLastCaller
  <1>10. ASSUME NEW i \in 1..L, NEW x \in IdsOf(w[i].content, "tool_use")
         PROVE  \E k \in 1..(n - 1) : /\ x \in UsesIn(ms[k]) /\ IsAtTheEnd(w, ms, n - 1, k, i)
                                       /\ SendsBehind(w, ms, n - 1, k, i, x)
    BY <1>3, <1>10 DEF Kept
  <1>11. ASSUME NEW i \in 1..L, NEW k \in 1..(n - 1), NEW x \in UsesIn(ms[k]),
                IsAtTheEnd(w, ms, n - 1, k, i), SendsBehind(w, ms, n - 1, k, i, x)
         PROVE  IsAtTheEnd(v, ms, n, k, i) /\ SendsBehind(v, ms, n, k, i, x)
    <2>1. CASE L > 0 /\ w[L].role = "user" /\ a.role = "user"
      <3>1. Len(v) = L /\ (\A j \in 1..(L - 1) : v[j] = w[j])
            /\ \A type : IdsOf(v[L].content, type)
                           = IdsOf(w[L].content, type) \cup IdsOf(a.content, type)
        BY <1>7, <2>1
      <3>2. IsLastCaller(ms, n - 1, k) => i = L - 1
        BY <1>3, <1>6, <1>11, <2>1 DEF IsAtTheEnd
      <3>3. IsAtTheEnd(v, ms, n, k, i)
        BY <1>4, <1>8, <3>1, <3>2 DEF IsAtTheEnd
      <3>4. ASSUME NEW j \in (k + 1)..n, x \in ms[j].answers,
                   \A l \in (k + 1)..j : ms[l].role = "user"
            PROVE  i < L /\ x \in IdsOf(v[i + 1].content, "tool_result")
        <4>1. CASE j = n
          <5>1. i = L - 1 /\ i + 1 = L
            <6>1. \A l \in (k + 1)..n : ms[l].role = "user"
              BY <3>4, <4>1
            <6>2. IsLastCaller(ms, n - 1, k)
              BY <1>9, <6>1
            <6>3. i = L - 1
              BY <3>2, <6>2
            <6> QED BY <1>4, <6>3
          <5>2. x \in IdsOf(a.content, "tool_result")
            BY <1>5, <3>4, <4>1
          <5>3. x \in IdsOf(v[L].content, "tool_result")
            BY <3>1, <5>2
          <5>4. i < L
            BY <1>4, <5>1
          <5> QED BY <5>1, <5>3, <5>4
        <4>2. CASE j # n
          <5>1. j \in (k + 1)..(n - 1)
            BY <1>4, <4>2
          <5>2. i < L /\ x \in IdsOf(w[i + 1].content, "tool_result")
            BY <1>3, <1>11, <3>4, <5>1 DEF SendsBehind
          <5>3. i + 1 = L \/ i + 1 \in 1..(L - 1)
            BY <1>4, <5>2
          <5> QED BY <3>1, <5>2, <5>3
        <4> QED BY <4>1, <4>2
      <3> QED BY <3>1, <3>3, <3>4 DEF SendsBehind
    <2>2. CASE ~(L > 0 /\ w[L].role = "user" /\ a.role = "user")
      <3>1. Len(v) = L + 1 /\ v[L + 1] = a /\ \A j \in 1..L : v[j] = w[j]
        BY <1>7, <2>2
      <3>2. IsLastCaller(ms, n - 1, k) /\ ms[n].role = "user" => i = L
        <4> SUFFICES ASSUME IsLastCaller(ms, n - 1, k), ms[n].role = "user" PROVE i = L
          OBVIOUS
        <4>1. k = n - 1
          BY <1>4, <1>5, <1>6, <2>2
        <4> QED BY <1>3, <1>11, <4>1 DEF IsAtTheEnd
      <3>3. IsAtTheEnd(v, ms, n, k, i)
        BY <1>4, <1>8, <3>1, <3>2 DEF IsAtTheEnd
      <3>4. ASSUME NEW j \in (k + 1)..n, x \in ms[j].answers,
                   \A l \in (k + 1)..j : ms[l].role = "user"
            PROVE  i < L + 1 /\ x \in IdsOf(v[i + 1].content, "tool_result")
        <4>1. CASE j = n
          <5>1. i = L
            BY <1>9, <3>2, <3>4, <4>1
          <5> QED BY <1>4, <1>5, <3>1, <3>4, <4>1, <5>1
        <4>2. CASE j # n
          <5>1. j \in (k + 1)..(n - 1)
            BY <1>4, <4>2
          <5>2. i < L /\ x \in IdsOf(w[i + 1].content, "tool_result")
            BY <1>3, <1>11, <3>4, <5>1 DEF SendsBehind
          <5>3. i + 1 \in 1..L
            BY <1>4, <5>2
          <5> QED BY <1>4, <3>1, <5>2, <5>3
        <4> QED BY <4>1, <4>2
      <3> QED BY <3>1, <3>3, <3>4 DEF SendsBehind
    <2> QED BY <2>1, <2>2
  <1>12. ASSUME NEW i \in 1..Len(v), NEW x \in IdsOf(v[i].content, "tool_use")
         PROVE  \E k \in 1..n : /\ x \in UsesIn(ms[k]) /\ IsAtTheEnd(v, ms, n, k, i)
                                 /\ SendsBehind(v, ms, n, k, i, x)
    <2>1. ASSUME i \in 1..L, x \in IdsOf(w[i].content, "tool_use")
          PROVE  \E k \in 1..n : /\ x \in UsesIn(ms[k]) /\ IsAtTheEnd(v, ms, n, k, i)
                                  /\ SendsBehind(v, ms, n, k, i, x)
      <3>1. PICK k \in 1..(n - 1) : /\ x \in UsesIn(ms[k]) /\ IsAtTheEnd(w, ms, n - 1, k, i)
                                    /\ SendsBehind(w, ms, n - 1, k, i, x)
        BY <1>10, <2>1
      <3>2. IsAtTheEnd(v, ms, n, k, i) /\ SendsBehind(v, ms, n, k, i, x)
        BY <1>11, <2>1, <3>1
      <3>3. k \in 1..n
        BY <1>4
      <3> QED BY <3>1, <3>2, <3>3
    <2>2. CASE L > 0 /\ w[L].role = "user" /\ a.role = "user"
      <3>1. UsesIn(ms[n]) = {}
        <4>1. ms[n] \in WireMessages /\ ms[n].role = "user"
          BY <1>4, <1>5, <2>2
        <4>2. ms[n].uses = <<>>
          BY <4>1 DEF WireMessages
        <4> QED BY <4>2 DEF UsesIn
      <3>2. Len(v) = L /\ (\A j \in 1..(L - 1) : v[j] = w[j])
            /\ IdsOf(v[L].content, "tool_use")
                  = IdsOf(w[L].content, "tool_use") \cup IdsOf(a.content, "tool_use")
        BY <1>7, <2>2
      <3>3. i = L \/ i \in 1..(L - 1)
        BY <1>4, <3>2
      <3>4. i \in 1..L /\ x \in IdsOf(w[i].content, "tool_use")
        BY <1>5, <1>12, <3>1, <3>2, <3>3
      <3> QED BY <2>1, <3>4
    <2>3. CASE ~(L > 0 /\ w[L].role = "user" /\ a.role = "user")
      <3>1. Len(v) = L + 1 /\ v[L + 1] = a /\ \A j \in 1..L : v[j] = w[j]
        BY <1>7, <2>3
      <3>2. CASE i = L + 1
        <4>1. x \in UsesIn(ms[n]) /\ n \in 1..n /\ (n + 1)..n = {}
          BY <1>4, <1>5, <1>12, <3>1, <3>2
        <4>2. IsAtTheEnd(v, ms, n, n, i) /\ SendsBehind(v, ms, n, n, i, x)
          BY <3>1, <3>2, <4>1 DEF IsAtTheEnd, SendsBehind
        <4> QED BY <4>1, <4>2
      <3>3. CASE i # L + 1
        <4>1. i \in 1..L /\ v[i] = w[i]
          BY <1>4, <3>1, <3>3
        <4> QED BY <1>12, <2>1, <4>1
      <3> QED BY <3>2, <3>3
    <2> QED BY <2>2, <2>3
  <1>13. Kept(v, ms, n)
    BY <1>12 DEF Kept
  <1> QED BY <1>1, <1>2, <1>13

\* The fold of the messages into what is sent.
Folds(ms, g) ==
  g = [n \in 0..Len(ms) |-> IF n = 0 THEN <<>> ELSE Wire!Merged(g[n - 1], Wire!toApiJson(ms[n]))]

LEMMA MergesOnce ==
    ASSUME NEW w \in Seq(ApiMessages), NEW m \in WireMessages
    PROVE  Wire!Merged(w, Wire!toApiJson(m)) \in Seq(ApiMessages)
  <1>1. PICK a : a = Wire!toApiJson(m)
    OBVIOUS
  <1>2. a \in ApiMessages
    BY <1>1, JsonIs
  <1>3. Wire!Merged(w, a) = IF w # <<>> /\ w[Len(w)].role = "user" /\ a.role = "user"
          THEN [w EXCEPT ![Len(w)].content = Wire!hoistToolResults(w[Len(w)].content \o a.content)]
          ELSE Append(w, a)
    BY DEF Wire!Merged, Wire!Last
  <1>4. CASE w # <<>>
    <2>1. Len(w) \in 1..Len(w) /\ w[Len(w)] \in ApiMessages /\ DOMAIN w = 1..Len(w)
      BY <1>4
    <2>2. PICK x, y : x = w[Len(w)].content /\ y = a.content
      OBVIOUS
    <2>3. x \in Seq(WireBlocks) /\ y \in Seq(WireBlocks)
      BY <1>2, <2>1, <2>2 DEF ApiMessages
    <2>4. x \o y \in Seq(WireBlocks)
      BY <2>3
    <2>5. PICK h : h = Wire!hoistToolResults(x \o y)
      OBVIOUS
    <2>6. h \in Seq(WireBlocks)
      BY <2>4, <2>5, Hoists
    <2>7. [w[Len(w)] EXCEPT !.content = h] \in ApiMessages
      BY <2>1, <2>6 DEF ApiMessages
    <2>8. [w EXCEPT ![Len(w)].content = h] \in Seq(ApiMessages)
      <3>1. PICK z \in ApiMessages : z = [w[Len(w)] EXCEPT !.content = h]
        BY <2>7
      <3>2. [w EXCEPT ![Len(w)] = z] \in Seq(ApiMessages)
        BY <2>1
      <3>3. [w EXCEPT ![Len(w)].content = h] = [w EXCEPT ![Len(w)] = z]
        BY <2>1, <3>1
      <3> QED BY <3>2, <3>3
    <2> QED BY <1>1, <1>2, <1>3, <2>2, <2>5, <2>8
  <1>5. CASE w = <<>>
    BY <1>1, <1>2, <1>3, <1>5
  <1> QED BY <1>4, <1>5

LEMMA Folded ==
    ASSUME NEW ms \in Seq(WireMessages)
    PROVE  \E g : /\ g[0] = <<>> /\ Wire!AnthropicMessages(ms) = g[Len(ms)]
                  /\ \A n \in 1..Len(ms) : g[n] = Wire!Merged(g[n - 1], Wire!toApiJson(ms[n]))
  <1> DEFINE step == [i \in 1..Len(ms) |-> [x \in Seq(ApiMessages) |->
                        Wire!Merged(x, Wire!toApiJson(ms[i]))]]
  <1>1. Len(ms) \in Nat /\ <<>> \in Seq(ApiMessages) /\ \A i \in 1..Len(ms) : ms[i] \in WireMessages
    OBVIOUS
  <1>2. step \in [1..Len(ms) -> [Seq(ApiMessages) -> Seq(ApiMessages)]]
    BY <1>1, MergesOnce
  <1>3. \A i \in 1..Len(ms) : \A x \in Seq(ApiMessages) :
          step[i][x] = Wire!Merged(x, Wire!toApiJson(ms[i]))
    OBVIOUS
  <1> HIDE DEF step
  <1>4. HasRun(Seq(ApiMessages), Len(ms), <<>>, step)
    BY <1>1, <1>2, Loop
  <1>5. PICK g \in [0..Len(ms) -> Seq(ApiMessages)] :
          g[0] = <<>> /\ \A i \in 1..Len(ms) : g[i] = step[i][g[i - 1]]
    BY <1>4 DEF HasRun, Runs
  <1>6. ASSUME NEW i \in 1..Len(ms) PROVE g[i] = Wire!Merged(g[i - 1], Wire!toApiJson(ms[i]))
    <2>1. i - 1 \in 0..Len(ms)
      BY <1>1
    <2>2. g[i - 1] \in Seq(ApiMessages)
      BY <1>5, <2>1
    <2> QED BY <1>3, <1>5, <2>2
  <1>7. Folds(ms, g)
    <2> DEFINE body == [n \in 0..Len(ms) |-> IF n = 0 THEN <<>>
                          ELSE Wire!Merged(g[n - 1], Wire!toApiJson(ms[n]))]
    <2>1. ASSUME NEW n \in 0..Len(ms) PROVE g[n] = body[n]
      <3>1. n = 0 \/ n \in 1..Len(ms)
        BY <1>1
      <3> QED BY <3>1, <1>5, <1>6
    <2>2. DOMAIN g = DOMAIN body /\ g = [n \in DOMAIN g |-> g[n]]
      BY <1>5
    <2> HIDE DEF body
    <2>3. body = [n \in DOMAIN body |-> body[n]]
      BY DEF body
    <2>4. g = body
      BY <2>1, <2>2, <2>3, <1>5
    <2> QED BY <2>4 DEF Folds, body
  <1>8. PICK k : k = CHOOSE f : Folds(ms, f)
    OBVIOUS
  <1>9. Folds(ms, k)
    BY <1>7, <1>8
  <1>10. Wire!AnthropicMessages(ms) = k[Len(ms)]
    BY <1>8 DEF Wire!AnthropicMessages, Folds
  <1>11. k[0] = <<>> /\ \A n \in 1..Len(ms) : k[n] = Wire!Merged(k[n - 1], Wire!toApiJson(ms[n]))
    <2>1. 0 \in 0..Len(ms) /\ \A n \in 1..Len(ms) : n \in 0..Len(ms) /\ n # 0
      BY <1>1
    <2> QED BY <1>9, <2>1 DEF Folds
  <1> QED BY <1>10, <1>11

LEMMA AnthropicIsOK ==
    ASSUME NEW ms \in Seq(WireMessages), Follow(ms)
    PROVE  LET w == Wire!AnthropicMessages(ms) IN
             w \in Seq(ApiMessages) /\ WireOK(w) /\ Kept(w, ms, Len(ms))
  <1>1. PICK g : /\ g[0] = <<>> /\ Wire!AnthropicMessages(ms) = g[Len(ms)]
                 /\ \A n \in 1..Len(ms) : g[n] = Wire!Merged(g[n - 1], Wire!toApiJson(ms[n]))
    BY Folded
  <1> DEFINE P(n) == /\ g[n] \in Seq(ApiMessages) /\ WireOK(g[n]) /\ EndsWith(g[n], ms, n)
                     /\ Kept(g[n], ms, n)
             T == {n \in 0..Len(ms) : P(n)}
  <1>2. Len(ms) \in Nat
    OBVIOUS
  <1>3. 0 \in T
    <2>1. <<>> \in Seq(ApiMessages) /\ Len(<<>>) = 0 /\ 1..0 = {} /\ 1..(0 - 1) = {}
      OBVIOUS
    <2>2. WireOK(<<>>) /\ EndsWith(<<>>, ms, 0) /\ Kept(<<>>, ms, 0)
      BY <2>1 DEF WireOK, EndsWith, Kept
    <2>3. 0 \in 0..Len(ms)
      BY <1>2
    <2> QED BY <1>1, <2>1, <2>2, <2>3
  <1>4. ASSUME NEW n \in 1..Len(ms), n - 1 \in T PROVE n \in T
    <2>1. P(n - 1) /\ n \in 0..Len(ms)
      BY <1>2, <1>4
    <2>2. PICK w \in Seq(ApiMessages) : w = g[n - 1]
      BY <2>1
    <2>3. WireOK(w) /\ EndsWith(w, ms, n - 1) /\ Kept(w, ms, n - 1)
      BY <2>1, <2>2
    <2>4. LET v == Wire!Merged(w, Wire!toApiJson(ms[n]))
          IN  v \in Seq(ApiMessages) /\ WireOK(v) /\ EndsWith(v, ms, n) /\ Kept(v, ms, n)
      BY <2>3, Merges, CallsStayKept
    <2>5. g[n] = Wire!Merged(w, Wire!toApiJson(ms[n]))
      BY <1>1, <2>2
    <2>6. P(n)
      BY <2>4, <2>5
    <2> QED BY <2>1, <2>6
  <1> HIDE DEF P
  <1>5. 0..Len(ms) \subseteq T
    BY <1>2, <1>3, <1>4, UpTo
  <1>6. P(Len(ms))
    BY <1>2, <1>5
  <1> QED BY <1>1, <1>6 DEF P

\* The other format: a result with its flag is a message, a result without it is nothing.
LEMMA CompatIs ==
    ASSUME NEW m \in WireMessages
    PROVE  LET c == Wire!CompatMessage(m).content
           IN  /\ IdsOf(c, "tool_result") = IF m.flagged THEN m.answers ELSE {}
               /\ m.answers = {} => UsesIn(m) \subseteq IdsOf(c, "tool_use")
  <1>1. PICK d : d = Wire!Content(m)
    OBVIOUS
  <1>2. /\ d \in Seq(WireBlocks)
        /\ m.answers # {} => /\ \A j \in DOMAIN d : d[j].type = "tool_result"
                             /\ {d[j].id : j \in DOMAIN d} = m.answers
        /\ m.answers = {} => /\ \A j \in DOMAIN d : d[j].type # "tool_result"
                             /\ UsesIn(m) \subseteq
                                  {d[j].id : j \in {i \in DOMAIN d : d[i].type = "tool_use"}}
    BY <1>1, ContentIs
  <1>3. CASE m.flagged
    <2>1. m.answers # {}
      BY <1>3 DEF WireMessages
    <2>2. Wire!CompatMessage(m).content = d
      BY <1>1, <1>3 DEF Wire!CompatMessage
    <2>3. {i \in DOMAIN d : d[i].type = "tool_result"} = DOMAIN d
      BY <1>2, <2>1
    <2>4. IdsOf(d, "tool_result") = m.answers
      BY <1>2, <2>1, <2>3 DEF IdsOf
    <2> QED BY <1>3, <2>1, <2>2, <2>4
  <1>4. CASE ~m.flagged
    <2> DEFINE A == Wire!Others(d)
               c == Lists!Picked(d, A)
    <2>1. Wire!CompatMessage(m).content = c
      BY <1>1, <1>4 DEF Wire!CompatMessage, Wire!Picked, Lists!Picked
    <2>2. IsFrom(c, d, A) /\ c \in Seq(WireBlocks)
      BY <1>2, PickedFrom
    <2>3. PICK f : From(f, c, d, A)
      BY <2>2 DEF IsFrom
    <2> HIDE DEF c
    <2>4. DOMAIN c = 1..Len(c) /\ DOMAIN d = 1..Len(d)
      BY <1>2, <2>2
    <2>5. \A j \in 1..Len(c) : c[j].type # "tool_result"
      BY <2>3 DEF From, Wire!Others, Wire!Results
    <2>6. IdsOf(c, "tool_result") = {}
      BY <2>4, <2>5 DEF IdsOf
    <2>7. ASSUME m.answers = {}, NEW x \in UsesIn(m) PROVE x \in IdsOf(c, "tool_use")
      <3>1. PICK i \in DOMAIN d : d[i].type = "tool_use" /\ d[i].id = x
        BY <1>2, <2>7
      <3>2. i \in A
        BY <1>2, <2>7 DEF Wire!Others, Wire!Results
      <3> HIDE DEF A
      <3>3. PICK j \in 1..Len(c) : f[j] = i
        BY <2>3, <2>4, <3>2 DEF From
      <3>4. c[j] = d[i]
        BY <2>3, <3>3 DEF From
      <3> QED BY <2>4, <3>1, <3>4 DEF IdsOf
    <2> QED BY <1>4, <2>1, <2>6, <2>7
  <1> QED BY <1>3, <1>4

LEMMA CompatIsOK ==
    ASSUME NEW ms \in Seq(WireMessages), Follow(ms)
    PROVE  Wire!ResultsFollowCalls(Wire!CompatMessages(ms))
  <1> DEFINE C == Wire!CompatMessages(ms)
  <1>1. Len(ms) \in Nat /\ DOMAIN ms = 1..Len(ms) /\ \A i \in 1..Len(ms) : ms[i] \in WireMessages
    OBVIOUS
  <1>2. DOMAIN C = 1..Len(ms) /\ \A i \in 1..Len(ms) : C[i] = Wire!CompatMessage(ms[i])
    BY <1>1 DEF Wire!CompatMessages
  <1> HIDE DEF C
  <1>3. \A i \in 1..Len(ms) :
          /\ Wire!IdsIn(C[i], "tool_result") = IF ms[i].flagged THEN ms[i].answers ELSE {}
          /\ ms[i].answers = {} => UsesIn(ms[i]) \subseteq Wire!IdsIn(C[i], "tool_use")
    <2> TAKE i \in 1..Len(ms)
    <2>1. ms[i] \in WireMessages /\ C[i] = Wire!CompatMessage(ms[i])
      BY <1>1, <1>2
    <2>2. \A type : Wire!IdsIn(C[i], type) = IdsOf(Wire!CompatMessage(ms[i]).content, type)
      BY <2>1 DEF Wire!IdsIn, IdsOf
    <2> QED BY <2>1, <2>2, CompatIs
  <1>4. ASSUME NEW i \in 1..Len(ms), Wire!IdsIn(C[i], "tool_result") # {}
        PROVE  \E k \in 1..(i - 1) :
                 /\ Wire!IdsIn(C[i], "tool_result") \subseteq Wire!IdsIn(C[k], "tool_use")
                 /\ \A j \in (k + 1)..(i - 1) : Wire!IdsIn(C[j], "tool_result") # {}
    <2>1. ms[i].flagged /\ ms[i].answers # {} /\ Wire!IdsIn(C[i], "tool_result") = ms[i].answers
      BY <1>3, <1>4
    <2>2. PICK k \in 1..(i - 1) : AnswersTo(ms, i, k)
      BY <2>1 DEF Follow
    <2>3. k \in 1..Len(ms) /\ \A j \in (k + 1)..(i - 1) : j \in 1..Len(ms)
      BY <1>1
    <2>4. ms[k].answers = {}
      <3>1. UsesIn(ms[k]) # {}
        BY <2>1, <2>2 DEF AnswersTo
      <3>2. ms[k].uses # <<>>
        BY <3>1 DEF UsesIn
      <3> QED BY <1>1, <2>3, <3>2 DEF WireMessages
    <2>5. Wire!IdsIn(C[i], "tool_result") \subseteq Wire!IdsIn(C[k], "tool_use")
      BY <1>3, <2>1, <2>2, <2>3, <2>4 DEF AnswersTo
    <2>6. \A j \in (k + 1)..(i - 1) : Wire!IdsIn(C[j], "tool_result") # {}
      BY <1>3, <2>1, <2>2, <2>3 DEF AnswersTo
    <2> QED BY <2>5, <2>6
  <1> QED BY <1>2, <1>4 DEF Wire!ResultsFollowCalls, C

\* What neither calls nor answers may be left out.
LEMMA FollowsWithout ==
    ASSUME NEW S, NEW C \in Seq(S), NEW A, Wire!ResultsFollowCalls(C),
           \A i \in 1..Len(C) :
             Wire!IdsIn(C[i], "tool_result") # {} \/ Wire!IdsIn(C[i], "tool_use") # {} => i \in A
    PROVE  Wire!ResultsFollowCalls(Lists!Picked(C, A))
  <1> DEFINE p == Lists!Picked(C, A)
  <1>1. p \in Seq(S) /\ IsFrom(p, C, A)
    BY PickedFrom
  <1>2. PICK f : From(f, p, C, A)
    BY <1>1 DEF IsFrom
  <1> HIDE DEF p
  <1>3. Len(C) \in Nat /\ Len(p) \in Nat /\ DOMAIN p = 1..Len(p) /\ DOMAIN C = 1..Len(C)
    BY <1>1
  <1>4. /\ \A x, y \in 1..Len(p) : x < y => f[x] < f[y]
        /\ \A x \in 1..Len(p) : f[x] \in 1..Len(C) /\ p[x] = C[f[x]]
        /\ \A i \in 1..Len(C) : i \in A => \E j \in 1..Len(p) : f[j] = i
    BY <1>2 DEF From
  <1>5. ASSUME NEW i \in 1..Len(p), Wire!IdsIn(p[i], "tool_result") # {}
        PROVE  \E k \in 1..(i - 1) :
                 /\ Wire!IdsIn(p[i], "tool_result") \subseteq Wire!IdsIn(p[k], "tool_use")
                 /\ \A j \in (k + 1)..(i - 1) : Wire!IdsIn(p[j], "tool_result") # {}
    <2>1. f[i] \in 1..Len(C) /\ p[i] = C[f[i]]
      BY <1>4
    <2>2. PICK l \in 1..(f[i] - 1) :
            /\ Wire!IdsIn(C[f[i]], "tool_result") \subseteq Wire!IdsIn(C[l], "tool_use")
            /\ \A j \in (l + 1)..(f[i] - 1) : Wire!IdsIn(C[j], "tool_result") # {}
      BY <1>3, <1>5, <2>1 DEF Wire!ResultsFollowCalls
    <2>3. l \in 1..Len(C) /\ l < f[i]
      BY <1>3, <2>1
    <2>4. Wire!IdsIn(C[l], "tool_use") # {}
      BY <1>5, <2>1, <2>2
    <2>5. PICK k \in 1..Len(p) : f[k] = l
      BY <1>4, <2>3, <2>4
    <2>6. k < i
      <3> SUFFICES ASSUME ~(k < i) PROVE FALSE
        OBVIOUS
      <3>1. i < k \/ i = k
        BY <1>3
      <3>2. f[i] < f[k] \/ f[i] = f[k]
        BY <1>4, <3>1
      <3> QED BY <2>1, <2>3, <2>5, <3>2
    <2>7. ASSUME NEW j \in (k + 1)..(i - 1) PROVE Wire!IdsIn(p[j], "tool_result") # {}
      <3>1. j \in 1..Len(p) /\ k < j /\ j < i
        BY <1>3
      <3>2. f[k] < f[j] /\ f[j] < f[i] /\ f[j] \in 1..Len(C)
        BY <1>4, <3>1
      <3>3. f[j] \in (l + 1)..(f[i] - 1)
        BY <2>1, <2>3, <2>5, <3>2
      <3> QED BY <1>4, <2>2, <3>1, <3>3
    <2>8. p[k] = C[l]
      BY <1>4, <2>5
    <2>9. k \in 1..(i - 1)
      BY <1>3, <2>6
    <2> QED BY <2>1, <2>2, <2>7, <2>8, <2>9
  <1> QED BY <1>3, <1>5 DEF Wire!ResultsFollowCalls, p

LEMMA LocalIsOK ==
    ASSUME NEW ms \in Seq(WireMessages), Follow(ms)
    PROVE  Wire!ResultsFollowCalls(Wire!LocalPrompt(ms))
  <1> DEFINE C == Wire!CompatMessages(ms)
             A == {i \in DOMAIN ms : Wire!CompatMessage(ms[i]).content # <<>>}
             S == {Wire!CompatMessage(m) : m \in WireMessages}
  <1>1. Len(ms) \in Nat /\ DOMAIN ms = 1..Len(ms) /\ \A i \in 1..Len(ms) : ms[i] \in WireMessages
    OBVIOUS
  <1>2. C = [i \in 1..Len(ms) |-> Wire!CompatMessage(ms[i])]
    BY <1>1 DEF Wire!CompatMessages
  <1>3. \A i \in 1..Len(ms) : Wire!CompatMessage(ms[i]) \in S
    BY <1>1
  <1>4. Wire!LocalPrompt(ms) = Lists!Picked(C, A)
    BY DEF Wire!LocalPrompt, Wire!Picked, Lists!Picked
  <1>5. Wire!ResultsFollowCalls(C)
    BY CompatIsOK
  <1> HIDE DEF S
  <1>6. C \in Seq(S) /\ Len(C) = Len(ms)
    <2>1. C \in [1..Len(ms) -> S]
      BY <1>2, <1>3
    <2> HIDE DEF C
    <2> QED BY <1>1, <2>1
  <1>7. \A i \in 1..Len(C) : C[i] = Wire!CompatMessage(ms[i])
    BY <1>2, <1>6
  <1> HIDE DEF C
  <1>8. ASSUME NEW i \in 1..Len(C), NEW type, Wire!IdsIn(C[i], type) # {} PROVE i \in A
    <2>1. C[i].content # <<>>
      <3> SUFFICES ASSUME C[i].content = <<>> PROVE FALSE
        OBVIOUS
      <3>1. DOMAIN C[i].content = {}
        OBVIOUS
      <3> QED BY <1>8, <3>1 DEF Wire!IdsIn
    <2> QED BY <1>1, <1>6, <1>7, <2>1
  <1> HIDE DEF A
  <1> QED BY <1>4, <1>5, <1>6, <1>8, FollowsWithout

LEMMA WireSound == WireInv => Wire!RequestIsAccepted
  <1> SUFFICES ASSUME WireInv PROVE Wire!RequestIsAccepted
    OBVIOUS
  <1> DEFINE ms == wireMessages
  <1>1. ms \in Seq(WireMessages) /\ Follow(ms) /\ Accounted(ms, abandoned, unanswered)
    BY DEF WireInv
  <1>2. PICK w : w = Wire!AnthropicMessages(wireMessages)
    OBVIOUS
  <1>3. w \in Seq(ApiMessages) /\ WireOK(w) /\ Kept(w, wireMessages, Len(wireMessages))
    BY <1>1, <1>2, AnthropicIsOK
  <1>4. Len(w) \in Nat /\ DOMAIN w = 1..Len(w) /\ \A i \in 1..Len(w) : w[i] \in ApiMessages
    BY <1>3
  <1>5. \A i \in 1..(Len(w) - 1) : {w[i].role, w[i + 1].role} # {"user"}
    BY <1>3 DEF WireOK
  <1>6. \A i \in DOMAIN w : \A j \in DOMAIN w[i].content :
          w[i].content[j].type = "tool_result" =>
            \A k \in 1..j : w[i].content[k].type = "tool_result"
    BY <1>3, <1>4 DEF WireOK, ResultsLead
  <1>7. ASSUME NEW i \in DOMAIN w, Wire!IdsIn(w[i], "tool_result") # {}
        PROVE  \E k \in 1..(i - 1) :
                 /\ Wire!IdsIn(w[i], "tool_result") \subseteq Wire!IdsIn(w[k], "tool_use")
                 /\ \A j \in (k + 1)..(i - 1) : Wire!IdsIn(w[j], "tool_result") # {}
    <2>1. \A m, type : Wire!IdsIn(m, type) = IdsOf(m.content, type)
      BY DEF Wire!IdsIn, IdsOf
    <2>2. i > 1 /\ IdsOf(w[i].content, "tool_result") \subseteq IdsOf(w[i - 1].content, "tool_use")
      BY <1>3, <1>4, <1>7, <2>1 DEF WireOK
    <2>3. i - 1 \in 1..(i - 1) /\ ((i - 1) + 1)..(i - 1) = {}
      BY <1>4, <2>2
    <2>4. Wire!IdsIn(w[i], "tool_result") \subseteq Wire!IdsIn(w[i - 1], "tool_use")
      BY <2>1, <2>2
    <2> QED BY <2>3, <2>4
  <1>8. Wire!ResultsFollowCalls(w)
    BY <1>7 DEF Wire!ResultsFollowCalls
  <1>9. Wire!ResultsFollowCalls(Wire!CompatMessages(wireMessages))
        /\ Wire!ResultsFollowCalls(Wire!LocalPrompt(wireMessages))
    BY <1>1, CompatIsOK, LocalIsOK
  <1>10. ASSUME stage = "asking", NEW i \in DOMAIN w,
                NEW x \in Wire!IdsIn(w[i], "tool_use"), x \notin abandoned
         PROVE  i < Len(w) /\ x \in Wire!IdsIn(w[i + 1], "tool_result")
    <2>1. \A m, type : Wire!IdsIn(m, type) = IdsOf(m.content, type)
      BY DEF Wire!IdsIn, IdsOf
    <2>2. i \in 1..Len(w) /\ x \in IdsOf(w[i].content, "tool_use")
      BY <1>4, <1>10, <2>1
    <2>3. PICK k \in 1..Len(ms) : x \in UsesIn(ms[k]) /\ SendsBehind(w, ms, Len(ms), k, i, x)
      BY <1>3, <2>2 DEF Kept
    <2>4. unanswered = {}
      BY <1>10 DEF WireInv
    <2>5. AnsweredBehind(ms, k, x)
      BY <1>1, <1>10, <2>3, <2>4 DEF Accounted, OpenAtTheEnd
    <2> HIDE DEF ms
    <2>6. i < Len(w) /\ x \in IdsOf(w[i + 1].content, "tool_result")
      BY <2>3, <2>5 DEF AnsweredBehind, SendsBehind
    <2> QED BY <2>1, <2>6
  <1>11. stage = "asking" => Wire!CallsAreAnswered(w)
    BY <1>10 DEF Wire!CallsAreAnswered
  <1> QED BY <1>2, <1>5, <1>6, <1>8, <1>9, <1>11 DEF Wire!RequestIsAccepted

\* Without the micro compaction, which may put its boundary between a call and its
\* results, every client sends the results right after their calls; Anthropic's gets
\* them first in their message and no two user messages in a row, and no call without
\* its result right behind it but those that Esc, a crash or a reload abandoned (the
\* bodies the clients build, Message::toApiJson, hoistToolResults).
THEOREM RequestsStayAccepted ==
    ASSUME "micro" \notin WireOperations
    PROVE  Wire!Spec => []Wire!RequestIsAccepted
  <1>1. UNCHANGED Wire!vars => UNCHANGED wireVars
    BY DEF Wire!vars, wireVars
  <1>2. WireInv /\ [Wire!Next]_(Wire!vars) => WireInv'
    BY <1>1, WireStep
  <1> QED BY <1>2, WireInit, WireSound, PTL DEF Wire!Spec

-----------------------------------------------------------------------------
(* The components side by side.                                            *)

\* Each component starts in one of its initial states,
LEMMA HistoriesStart == SideBySideInit => Rewrites!Init /\ Sizes!Init /\ Wire!Init
  BY DEF SideBySideInit

\* and makes its own step or none.
LEMMA HistoriesStep ==
    [SideBySideNext]_allVars =>
        /\ [Rewrites!Next]_(Rewrites!vars) /\ [Sizes!Next]_(Sizes!vars)
        /\ [Wire!Next]_(Wire!vars)
  <1> SUFFICES ASSUME [SideBySideNext]_allVars
               PROVE  /\ [Rewrites!Next]_(Rewrites!vars) /\ [Sizes!Next]_(Sizes!vars)
                      /\ [Wire!Next]_(Wire!vars)
    OBVIOUS
  <1>1. Rewrites!Next \/ UNCHANGED rewritesVars
    BY DEF SideBySideNext, allVars
  <1>2. Sizes!Next \/ UNCHANGED sizesVars
    BY DEF SideBySideNext, allVars
  <1>3. Wire!Next \/ UNCHANGED wireVars
    BY DEF SideBySideNext, allVars
  <1>4. UNCHANGED rewritesVars => UNCHANGED Rewrites!vars
    BY DEF rewritesVars, Rewrites!vars
  <1>5. UNCHANGED sizesVars => UNCHANGED Sizes!vars
    BY DEF sizesVars, Sizes!vars
  <1>6. UNCHANGED wireVars => UNCHANGED Wire!vars
    BY DEF wireVars, Wire!vars
  <1> QED BY <1>1, <1>2, <1>3, <1>4, <1>5, <1>6

\* Both together, of what is run: what is sent of a history is cut while it is too
\* large, and answers every call that was not abandoned right behind it.
THEOREM RequestsStayFit ==
    ASSUME "micro" \notin WireOperations
    PROVE  SideBySide => [](RequestsAreFit /\ RewritesAreSound)
  <1>1. SideBySide => Rewrites!Spec /\ Sizes!Spec /\ Wire!Spec
    BY HistoriesStart, HistoriesStep, PTL DEF SideBySide, Rewrites!Spec, Sizes!Spec, Wire!Spec
  <1>2. Wire!Spec => []Wire!RequestIsAccepted
    BY RequestsStayAccepted
  <1>3. RequestsAreFit <=> Sizes!RequestsAreTrimmed /\ Wire!RequestIsAccepted
    BY DEF RequestsAreFit
  <1> QED BY <1>1, <1>2, <1>3, RewritesStaySound, RequestsStayTrimmed, PTL

=============================================================================
