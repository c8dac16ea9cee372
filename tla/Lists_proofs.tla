---------------------------- MODULE Lists_proofs ----------------------------
(***************************************************************************)
(* Lemmas about loops and about lists that are picked from: what the rewrites*)
(* of a history, the rows of a session and the requests have in common     *)
(* (Messages!Picked).  A loop over a list is a function on 0..Len, and what it*)
(* computes is proved by induction on the positions, as a set of those at  *)
(* which it holds.                                                         *)
(***************************************************************************)
EXTENDS Integers, Sequences, SequenceTheorems, FiniteSetTheorems, NaturalsInduction,
        WellFoundedInduction, TLAPS

-----------------------------------------------------------------------------
(* Numbers, and loops over them.                                          *)

LEMMA LeastOf ==
    ASSUME NEW N, N \subseteq Nat, N # {}
    PROVE  \E i \in N : \A j \in N : ~(j < i)
  <1>1. IsWellFoundedOn(OpToRel(<, Nat), Nat)
    BY NatLessThanWellFounded
  <1>2. PICK i \in N : \A j \in N : ~(<<j, i>> \in OpToRel(<, Nat))
    BY <1>1, WFMin
  <1> QED BY <1>2 DEF OpToRel

\* Induction up to n.
LEMMA UpTo ==
    ASSUME NEW n \in Nat, NEW T, 0 \in T, \A i \in 1..n : i - 1 \in T => i \in T
    PROVE  0..n \subseteq T
  <1> SUFFICES ASSUME (0..n) \ T # {} PROVE FALSE
    OBVIOUS
  <1>0. (0..n) \ T \subseteq Nat
    OBVIOUS
  <1>1. PICK i \in (0..n) \ T : \A j \in (0..n) \ T : ~(j < i)
    BY <1>0, LeastOf
  <1>2. i \in 1..n /\ i - 1 \in 0..n /\ i - 1 < i
    BY <1>1
  <1>3. i - 1 \in T
    BY <1>1, <1>2
  <1> QED BY <1>1, <1>2, <1>3

Runs(S, n, start, step, g) ==
  /\ g \in [0..n -> S] /\ g[0] = start
  /\ \A i \in 1..n : g[i] = step[i][g[i - 1]]
HasRun(S, n, start, step) == \E g : Runs(S, n, start, step, g)

\* A loop has a run: of values in S, from start, by step.
LEMMA Loop ==
    ASSUME NEW S, NEW n \in Nat, NEW start \in S, NEW step \in [1..n -> [S -> S]]
    PROVE  HasRun(S, n, start, step)
  <1> DEFINE T == {m \in 0..n : HasRun(S, m, start, step)}
  <1>1. 0 \in T
    <2> DEFINE g == [i \in 0..0 |-> start]
    <2>1. 0 \in 0..0 /\ 0 \in 0..n
      OBVIOUS
    <2>2. g \in [0..0 -> S] /\ g[0] = start
      BY <2>1
    <2>3. \A i \in 1..0 : FALSE
      OBVIOUS
    <2> HIDE DEF g
    <2>4. Runs(S, 0, start, step, g)
      BY <2>2, <2>3 DEF Runs
    <2> QED BY <2>1, <2>4 DEF HasRun
  <1>2. ASSUME NEW m \in 1..n, m - 1 \in T PROVE m \in T
    <2>1. PICK h : Runs(S, m - 1, start, step, h)
      BY <1>2 DEF HasRun
    <2> DEFINE g == [i \in 0..m |-> IF i = m THEN step[m][h[m - 1]] ELSE h[i]]
    <2>2. h[m - 1] \in S /\ step[m] \in [S -> S] /\ \A i \in 0..(m - 1) : h[i] \in S
      BY <2>1 DEF Runs
    <2>3. step[m][h[m - 1]] \in S
      BY <2>2
    <2>4. g \in [0..m -> S]
      BY <2>2, <2>3
    <2>5. g[0] = start
      BY <2>1 DEF Runs
    <2>6. ASSUME NEW i \in 1..m PROVE g[i] = step[i][g[i - 1]]
      <3>1. CASE i = m
        <4>1. m \in 0..m /\ m - 1 \in 0..m /\ m - 1 # m
          OBVIOUS
        <4>2. g[m] = step[m][h[m - 1]] /\ g[m - 1] = h[m - 1]
          BY <4>1
        <4> QED BY <3>1, <4>2
      <3>2. CASE i # m
        <4>1. i \in 1..(m - 1) /\ i \in 0..m /\ i - 1 \in 0..m /\ i - 1 # m
          BY <3>2
        <4>2. g[i] = h[i] /\ g[i - 1] = h[i - 1]
          BY <3>2, <4>1
        <4> QED BY <2>1, <4>1, <4>2 DEF Runs
      <3> QED BY <3>1, <3>2
    <2> HIDE DEF g
    <2>7. Runs(S, m, start, step, g)
      BY <2>4, <2>5, <2>6 DEF Runs
    <2> QED BY <2>7 DEF HasRun
  <1> HIDE DEF T
  <1>3. 0..n \subseteq T
    BY <1>1, <1>2, UpTo
  <1> QED BY <1>3 DEF T

-----------------------------------------------------------------------------
(* Lists that are picked from.                                             *)

Lists == INSTANCE Messages

Picks(s, A, k) ==
  k = [n \in 0..Len(s) |-> IF n = 0 THEN <<>>
                           ELSE IF n \in A THEN Append(k[n - 1], s[n])
                           ELSE k[n - 1]]

\* What has been picked at each position: the recursion is that of a function there is.
LEMMA PickedRun ==
    ASSUME NEW M, NEW s \in Seq(M), NEW A
    PROVE  \E k \in [0..Len(s) -> Seq(M)] : Picks(s, A, k) /\ Lists!Picked(s, A) = k[Len(s)]
  <1> DEFINE step == [i \in 1..Len(s) |-> [x \in Seq(M) |->
                        IF i \in A THEN Append(x, s[i]) ELSE x]]
  <1>1. Len(s) \in Nat /\ <<>> \in Seq(M) /\ step \in [1..Len(s) -> [Seq(M) -> Seq(M)]]
    OBVIOUS
  <1> HIDE DEF step
  <1>a. HasRun(Seq(M), Len(s), <<>>, step)
    BY <1>1, Loop
  <1>2. PICK g \in [0..Len(s) -> Seq(M)] :
          g[0] = <<>> /\ \A i \in 1..Len(s) : g[i] = step[i][g[i - 1]]
    BY <1>a DEF HasRun, Runs
  <1>3. ASSUME NEW i \in 1..Len(s)
        PROVE  g[i] = IF i \in A THEN Append(g[i - 1], s[i]) ELSE g[i - 1]
    <2>a. i - 1 \in 0..Len(s)
      BY <1>1
    <2>1. i - 1 \in 0..Len(s) /\ g[i - 1] \in Seq(M)
      BY <1>2, <2>a
    <2>2. step[i][g[i - 1]] = IF i \in A THEN Append(g[i - 1], s[i]) ELSE g[i - 1]
      BY <2>1 DEF step
    <2>3. g[i] = step[i][g[i - 1]]
      BY <1>2
    <2> QED BY <2>2, <2>3
  <1>4. Picks(s, A, g)
    <2> DEFINE body == [n \in 0..Len(s) |-> IF n = 0 THEN <<>>
                                            ELSE IF n \in A THEN Append(g[n - 1], s[n])
                                            ELSE g[n - 1]]
    <2>1. ASSUME NEW n \in 0..Len(s) PROVE g[n] = body[n]
      <3>1. n = 0 \/ n \in 1..Len(s)
        BY <1>1
      <3> QED BY <3>1, <1>2, <1>3
    <2>2. DOMAIN g = DOMAIN body /\ g = [n \in DOMAIN g |-> g[n]]
      BY <1>2
    <2> HIDE DEF body
    <2>3. body = [n \in DOMAIN body |-> body[n]]
      BY DEF body
    <2>4. g = body
      BY <2>1, <2>2, <2>3, <1>2
    <2> QED BY <2>4 DEF Picks, body
  <1>5. PICK k : k = CHOOSE f : Picks(s, A, f)
    OBVIOUS
  <1>6. Picks(s, A, k)
    BY <1>4, <1>5
  <1>7. Lists!Picked(s, A) = k[Len(s)]
    BY <1>5 DEF Lists!Picked, Picks
  <1>8. k \in [0..Len(s) -> Seq(M)]
    <2> DEFINE T == {n \in 0..Len(s) : k[n] \in Seq(M)}
    <2>1. 0 \in T
      BY <1>1, <1>6 DEF Picks
    <2>2. ASSUME NEW n \in 1..Len(s), n - 1 \in T PROVE n \in T
      <3>1. k[n - 1] \in Seq(M) /\ n \in 0..Len(s) /\ n # 0 /\ s[n] \in M
        BY <1>1, <2>2
      <3>2. k[n] = IF n \in A THEN Append(k[n - 1], s[n]) ELSE k[n - 1]
        BY <1>6, <3>1 DEF Picks
      <3>3. Append(k[n - 1], s[n]) \in Seq(M)
        BY <3>1
      <3> QED BY <3>1, <3>2, <3>3
    <2> HIDE DEF T
    <2>3. 0..Len(s) \subseteq T
      BY <1>1, <2>1, <2>2, UpTo
    <2> QED BY <2>3, <1>6 DEF T, Picks
  <1> QED BY <1>6, <1>7, <1>8

\* As long as two lists and what is picked of them agree, so does what has been picked.
LEMMA PickedAlike ==
    ASSUME NEW s, NEW t, NEW A, NEW B, NEW k, NEW h, Picks(s, A, k), Picks(t, B, h),
           Len(s) \in Nat, Len(t) \in Nat, NEW m \in Nat, m <= Len(s), m <= Len(t),
           \A i \in 1..m : s[i] = t[i] /\ (i \in A <=> i \in B)
    PROVE  k[m] = h[m]
  <1> DEFINE T == {n \in 0..m : k[n] = h[n]}
  <1>1. 0 \in T
    BY DEF Picks
  <1>2. ASSUME NEW n \in 1..m, n - 1 \in T PROVE n \in T
    <2>1. n \in 0..Len(s) /\ n \in 0..Len(t) /\ n # 0 /\ n \in 0..m
      OBVIOUS
    <2>2. k[n - 1] = h[n - 1]
      BY <1>2
    <2>3. k[n] = IF n \in A THEN Append(k[n - 1], s[n]) ELSE k[n - 1]
      BY <2>1 DEF Picks
    <2>4. h[n] = IF n \in B THEN Append(h[n - 1], t[n]) ELSE h[n - 1]
      BY <2>1 DEF Picks
    <2>5. s[n] = t[n] /\ (n \in A <=> n \in B)
      OBVIOUS
    <2> QED BY <2>1, <2>2, <2>3, <2>4, <2>5
  <1> HIDE DEF T
  <1>3. 0..m \subseteq T
    BY <1>1, <1>2, UpTo
  <1>4. m \in 0..m
    OBVIOUS
  <1> QED BY <1>3, <1>4 DEF T

LEMMA PickedSame ==
    ASSUME NEW M, NEW s \in Seq(M), NEW A, NEW B, \A i \in 1..Len(s) : i \in A <=> i \in B
    PROVE  Lists!Picked(s, A) = Lists!Picked(s, B)
  <1>1. PICK k : Picks(s, A, k) /\ Lists!Picked(s, A) = k[Len(s)]
    BY PickedRun
  <1>2. PICK h : Picks(s, B, h) /\ Lists!Picked(s, B) = h[Len(s)]
    BY PickedRun
  <1>3. Len(s) \in Nat /\ Len(s) <= Len(s)
    OBVIOUS
  <1>4. k[Len(s)] = h[Len(s)]
    BY <1>1, <1>2, <1>3, PickedAlike
  <1> QED BY <1>1, <1>2, <1>4

LEMMA PickedOfNone ==
    ASSUME NEW A
    PROVE  Lists!Picked(<<>>, A) = <<>>
  <1>1. <<>> \in Seq({}) /\ Len(<<>>) = 0 /\ 0 \in 0..0
    OBVIOUS
  <1>2. PICK k : Picks(<<>>, A, k) /\ Lists!Picked(<<>>, A) = k[Len(<<>>)]
    BY <1>1, PickedRun
  <1>3. k[0] = <<>>
    BY <1>1, <1>2 DEF Picks
  <1> QED BY <1>1, <1>2, <1>3

LEMMA PickedOfLonger ==
    ASSUME NEW M, NEW s \in Seq(M), NEW x \in M, NEW A
    PROVE  Lists!Picked(Append(s, x), A)
             = IF Len(s) + 1 \in A THEN Append(Lists!Picked(s, A), x) ELSE Lists!Picked(s, A)
  <1> DEFINE t == Append(s, x)
             n == Len(s)
  <1>1. t \in Seq(M) /\ n \in Nat /\ Len(t) = n + 1 /\ t[n + 1] = x /\ \A i \in 1..n : s[i] = t[i]
    OBVIOUS
  <1> HIDE DEF t
  <1>2. PICK k : Picks(s, A, k) /\ Lists!Picked(s, A) = k[n]
    BY PickedRun
  <1>3. PICK h : Picks(t, A, h) /\ Lists!Picked(t, A) = h[Len(t)]
    BY <1>1, PickedRun
  <1>4. n \in Nat /\ Len(t) \in Nat /\ n <= n /\ n <= Len(t)
    BY <1>1
  <1>5. k[n] = h[n]
    <2> HIDE DEF n
    <2>1. \A i \in 1..n : s[i] = t[i] /\ (i \in A <=> i \in A)
      BY <1>1
    <2> QED BY <1>2, <1>3, <1>4, <2>1, PickedAlike DEF n
  <1>6. n + 1 \in 0..Len(t) /\ n + 1 # 0 /\ (n + 1) - 1 = n
    BY <1>1
  <1>7. h[n + 1] = IF n + 1 \in A THEN Append(h[n], t[n + 1]) ELSE h[n]
    BY <1>3, <1>6 DEF Picks
  <1> QED BY <1>1, <1>2, <1>3, <1>5, <1>7 DEF t

\* Induction on the length of a list: what holds of the empty list and is kept when an
\* element is put behind it holds of all.
LEMMA ListInduction ==
    ASSUME NEW M, NEW T, <<>> \in T, \A s \in Seq(M), x \in M : s \in T => Append(s, x) \in T
    PROVE  Seq(M) \subseteq T
  <1> SUFFICES ASSUME NEW s \in Seq(M) PROVE s \in T
    OBVIOUS
  <1>1. Len(s) \in Nat
    OBVIOUS
  <1> DEFINE first == [n \in 0..Len(s) |-> SubSeq(s, 1, n)]
             N == {n \in 0..Len(s) : first[n] \in T}
  <1>a. \A n \in 0..Len(s) : first[n] = SubSeq(s, 1, n)
    OBVIOUS
  <1> HIDE DEF first
  <1>2. 0 \in N
    <2>1. SubSeq(s, 1, 0) = <<>>
      OBVIOUS
    <2> QED BY <1>1, <1>a, <2>1
  <1>3. ASSUME NEW n \in 1..Len(s), n - 1 \in N PROVE n \in N
    <2>0. n - 1 \in 0..Len(s) /\ n \in 0..Len(s) /\ n \in 1..Len(s) /\ first[n - 1] \in T
      BY <1>1, <1>3
    <2>1. SubSeq(s, 1, n - 1) \in Seq(M) /\ s[n] \in M /\ SubSeq(s, 1, n - 1) \in T
      <3>1. first[n - 1] = SubSeq(s, 1, n - 1)
        BY <2>0, <1>a
      <3>2. \A i \in 1..(n - 1) : s[i] \in M
        BY <1>1
      <3>3. SubSeq(s, 1, n - 1) \in Seq(M)
        BY <1>1, <2>0, <3>2, SubSeqProperties
      <3> QED BY <2>0, <3>1, <3>3
    <2>2. SubSeq(s, 1, n) = Append(SubSeq(s, 1, n - 1), s[n])
      <3> DEFINE a == SubSeq(s, 1, n - 1)
                 b == SubSeq(s, 1, n)
      <3>1. a \in Seq(M) /\ Len(a) = n - 1 /\ \A i \in 1..(n - 1) : a[i] = s[i]
        <4>1. \A i \in 1..(n - 1) : s[i] \in M
          OBVIOUS
        <4> QED BY <1>1, <4>1, SubSeqProperties
      <3>2. b \in Seq(M) /\ Len(b) = n /\ \A i \in 1..n : b[i] = s[i]
        <4>1. \A i \in 1..n : s[i] \in M
          OBVIOUS
        <4> QED BY <1>1, <4>1, SubSeqProperties
      <3> HIDE DEF a, b
      <3>3. Append(a, s[n]) \in Seq(M) /\ Len(Append(a, s[n])) = n
            /\ Append(a, s[n])[n] = s[n] /\ \A i \in 1..(n - 1) : Append(a, s[n])[i] = a[i]
        BY <3>1, <2>1
      <3>4. \A i \in 1..n : b[i] = Append(a, s[n])[i]
        BY <3>1, <3>2, <3>3
      <3>5. b = Append(a, s[n])
        BY <3>2, <3>3, <3>4, SeqEqual
      <3> QED BY <3>5 DEF a, b
    <2>3. first[n] \in T
      BY <1>a, <2>0, <2>1, <2>2
    <2> QED BY <2>0, <2>3
  <1> HIDE DEF N
  <1>4. 0..Len(s) \subseteq N
    BY <1>1, <1>2, <1>3, UpTo
  <1>5. SubSeq(s, 1, Len(s)) = s
    OBVIOUS
  <1>6. Len(s) \in N
    BY <1>1, <1>4
  <1> QED BY <1>1, <1>5, <1>6, <1>a DEF N

\* Where the picked elements come from: f keeps the order and leaves nothing out.
From(f, p, s, A) ==
  /\ f \in [1..Len(p) -> 1..Len(s)]
  /\ \A i, j \in 1..Len(p) : i < j => f[i] < f[j]
  /\ \A j \in 1..Len(p) : f[j] \in A /\ p[j] = s[f[j]]
  /\ \A i \in 1..Len(s) : i \in A => \E j \in 1..Len(p) : f[j] = i
IsFrom(p, s, A) == \E f : From(f, p, s, A)

LEMMA PickedFrom ==
    ASSUME NEW M, NEW s \in Seq(M), NEW A
    PROVE  /\ Lists!Picked(s, A) \in Seq(M)
           /\ Len(Lists!Picked(s, A)) <= Len(s)
           /\ IsFrom(Lists!Picked(s, A), s, A)
  <1> DEFINE P(r) == /\ Lists!Picked(r, A) \in Seq(M)
                     /\ Len(Lists!Picked(r, A)) <= Len(r)
                     /\ IsFrom(Lists!Picked(r, A), r, A)
             T == {r \in Seq(M) : P(r)}
  <1>1. <<>> \in T
    <2>1. Lists!Picked(<<>>, A) = <<>>
      BY PickedOfNone
    <2>2. <<>> \in Seq(M) /\ Len(<<>>) = 0 /\ 1..0 = {} /\ 0 <= 0
      OBVIOUS
    <2> DEFINE f == [i \in 1..0 |-> i]
    <2>3. f \in [1..0 -> 1..0]
      OBVIOUS
    <2> HIDE DEF f
    <2>4. From(f, <<>>, <<>>, A)
      BY <2>2, <2>3 DEF From
    <2>5. IsFrom(<<>>, <<>>, A)
      BY <2>4 DEF IsFrom
    <2> QED BY <2>1, <2>2, <2>5
  <1>2. ASSUME NEW r \in Seq(M), NEW x \in M, r \in T PROVE Append(r, x) \in T
    <2> DEFINE t == Append(r, x)
    <2>1. t \in Seq(M) /\ Len(r) \in Nat /\ Len(t) = Len(r) + 1 /\ t[Len(r) + 1] = x
          /\ \A i \in 1..Len(r) : t[i] = r[i]
      OBVIOUS
    <2>2. Lists!Picked(t, A) = IF Len(r) + 1 \in A THEN Append(Lists!Picked(r, A), x)
                               ELSE Lists!Picked(r, A)
      BY PickedOfLonger
    <2> HIDE DEF t
    <2>3. PICK p : p = Lists!Picked(r, A)
      OBVIOUS
    <2>4. p \in Seq(M) /\ Len(p) \in Nat /\ Len(p) <= Len(r)
      BY <1>2, <2>3
    <2>5. PICK f : From(f, p, r, A)
      BY <1>2, <2>3 DEF IsFrom
    <2>6. CASE Len(r) + 1 \in A
      <3> DEFINE q == Append(p, x)
                 g == [j \in 1..(Len(p) + 1) |-> IF j = Len(p) + 1 THEN Len(r) + 1 ELSE f[j]]
      <3>1. q \in Seq(M) /\ Len(q) = Len(p) + 1 /\ q[Len(p) + 1] = x
            /\ \A i \in 1..Len(p) : q[i] = p[i]
        BY <2>4
      <3>2. Lists!Picked(t, A) = q
        BY <2>2, <2>3, <2>6
      <3> HIDE DEF q
      <3>3. \A j \in 1..Len(p) : f[j] \in 1..Len(r) /\ f[j] \in A /\ p[j] = r[f[j]]
        BY <2>5 DEF From
      <3>4. \A j \in 1..(Len(p) + 1) : g[j] \in 1..Len(t)
        BY <2>1, <2>4, <3>3
      <3>5. g[Len(p) + 1] = Len(r) + 1 /\ \A j \in 1..Len(p) : g[j] = f[j]
        BY <2>4
      <3>6. g \in [1..Len(q) -> 1..Len(t)]
        BY <3>1, <3>4
      <3> HIDE DEF g
      <3>7. ASSUME NEW i \in 1..Len(q), NEW j \in 1..Len(q), i < j PROVE g[i] < g[j]
        <4>1. i \in 1..Len(p) /\ (j \in 1..Len(p) \/ j = Len(p) + 1)
          BY <2>4, <3>1, <3>7
        <4>2. CASE j \in 1..Len(p)
          BY <4>1, <4>2, <3>5, <3>7, <2>5 DEF From
        <4>3. CASE j = Len(p) + 1
          BY <4>1, <4>3, <3>3, <3>5, <2>1
        <4> QED BY <4>1, <4>2, <4>3
      <3>8. ASSUME NEW j \in 1..Len(q) PROVE g[j] \in A /\ q[j] = t[g[j]]
        <4>1. j \in 1..Len(p) \/ j = Len(p) + 1
          BY <2>4, <3>1
        <4>2. CASE j \in 1..Len(p)
          <5>1. g[j] = f[j] /\ q[j] = p[j] /\ f[j] \in 1..Len(r) /\ f[j] \in A /\ p[j] = r[f[j]]
            BY <4>2, <3>1, <3>3, <3>5
          <5>2. t[f[j]] = r[f[j]]
            BY <5>1, <2>1
          <5> QED BY <5>1, <5>2
        <4>3. CASE j = Len(p) + 1
          <5>1. g[j] = Len(r) + 1 /\ q[j] = x /\ t[Len(r) + 1] = x
            BY <4>3, <3>1, <3>5, <2>1
          <5> QED BY <5>1, <2>6
        <4> QED BY <4>1, <4>2, <4>3
      <3>9. ASSUME NEW i \in 1..Len(t), i \in A PROVE \E j \in 1..Len(q) : g[j] = i
        <4>1. i \in 1..Len(r) \/ i = Len(r) + 1
          BY <2>1
        <4>2. CASE i \in 1..Len(r)
          <5>1. PICK j \in 1..Len(p) : f[j] = i
            BY <2>5, <3>9, <4>2 DEF From
          <5>2. j \in 1..Len(q)
            BY <2>4, <3>1
          <5> QED BY <5>1, <5>2, <3>5
        <4>3. CASE i = Len(r) + 1
          <5>1. Len(p) + 1 \in 1..Len(q)
            BY <2>4, <3>1
          <5> QED BY <4>3, <5>1, <3>5
        <4> QED BY <4>1, <4>2, <4>3
      <3>10. From(g, q, t, A)
        BY <3>6, <3>7, <3>8, <3>9 DEF From
      <3>11. Len(q) <= Len(t)
        BY <3>1, <2>1, <2>4
      <3>12. P(t)
        BY <3>1, <3>2, <3>10, <3>11 DEF IsFrom
      <3> QED BY <3>12, <2>1 DEF t
    <2>7. CASE Len(r) + 1 \notin A
      <3>1. Lists!Picked(t, A) = p
        BY <2>2, <2>3, <2>7
      <3>2. f \in [1..Len(p) -> 1..Len(t)]
        <4>1. \A j \in 1..Len(p) : f[j] \in 1..Len(t)
          BY <2>1, <2>5 DEF From
        <4> QED BY <4>1, <2>5 DEF From
      <3>3. \A j \in 1..Len(p) : f[j] \in A /\ p[j] = t[f[j]]
        BY <2>1, <2>5 DEF From
      <3>4. \A i \in 1..Len(t) : i \in A => \E j \in 1..Len(p) : f[j] = i
        BY <2>1, <2>5, <2>7 DEF From
      <3>5. From(f, p, t, A)
        BY <2>5, <3>2, <3>3, <3>4 DEF From
      <3>6. Len(p) <= Len(t)
        BY <2>1, <2>4
      <3>7. P(t)
        BY <2>4, <3>1, <3>5, <3>6 DEF IsFrom
      <3> QED BY <3>7, <2>1 DEF t
    <2> QED BY <2>6, <2>7
  <1> HIDE DEF T
  <1>3. Seq(M) \subseteq T
    BY <1>1, <1>2, ListInduction
  <1>4. s \in T
    BY <1>3
  <1> QED BY <1>4 DEF T

\* The positions of the elements of a kind.
Those(s, Q) == {i \in DOMAIN s : s[i] \in Q}

LEMMA ThoseOfLonger ==
    ASSUME NEW M, NEW s \in Seq(M), NEW x \in M, NEW Q
    PROVE  Lists!Picked(Append(s, x), Those(Append(s, x), Q))
             = IF x \in Q THEN Append(Lists!Picked(s, Those(s, Q)), x)
               ELSE Lists!Picked(s, Those(s, Q))
  <1> DEFINE t == Append(s, x)
  <1>1. t \in Seq(M) /\ Len(s) \in Nat /\ Len(t) = Len(s) + 1 /\ t[Len(s) + 1] = x
        /\ DOMAIN t = 1..(Len(s) + 1) /\ DOMAIN s = 1..Len(s)
        /\ \A i \in 1..Len(s) : s[i] = t[i]
    OBVIOUS
  <1>2. Lists!Picked(t, Those(t, Q))
          = IF Len(s) + 1 \in Those(t, Q) THEN Append(Lists!Picked(s, Those(t, Q)), x)
            ELSE Lists!Picked(s, Those(t, Q))
    BY PickedOfLonger
  <1> HIDE DEF t
  <1>3. Len(s) + 1 \in Those(t, Q) <=> x \in Q
    BY <1>1 DEF Those
  <1>4. \A i \in 1..Len(s) : i \in Those(t, Q) <=> i \in Those(s, Q)
    BY <1>1 DEF Those
  <1>5. Lists!Picked(s, Those(t, Q)) = Lists!Picked(s, Those(s, Q))
    BY <1>4, PickedSame
  <1> QED BY <1>2, <1>3, <1>5 DEF t

\* Elements of other kinds may go before or with them.
LEMMA PickedTwice ==
    ASSUME NEW M, NEW s \in Seq(M), NEW Q, NEW A, Those(s, Q) \subseteq A
    PROVE  LET p == Lists!Picked(s, A)
           IN  Lists!Picked(p, Those(p, Q)) = Lists!Picked(s, Those(s, Q))
  <1> DEFINE Of(r) == Lists!Picked(r, Those(r, Q))
             P(r) == Those(r, Q) \subseteq A => Of(Lists!Picked(r, A)) = Of(r)
             T == {r \in Seq(M) : P(r)}
  <1>1. <<>> \in T
    BY PickedOfNone
  <1>2. ASSUME NEW r \in Seq(M), NEW x \in M, r \in T PROVE Append(r, x) \in T
    <2> DEFINE t == Append(r, x)
               p == Lists!Picked(r, A)
    <2>1. t \in Seq(M) /\ Len(r) \in Nat /\ Len(t) = Len(r) + 1 /\ t[Len(r) + 1] = x
          /\ DOMAIN t = 1..(Len(r) + 1) /\ DOMAIN r = 1..Len(r)
          /\ \A i \in 1..Len(r) : r[i] = t[i]
      OBVIOUS
    <2>2. p \in Seq(M)
      BY PickedFrom
    <2>3. Lists!Picked(t, A) = IF Len(r) + 1 \in A THEN Append(p, x) ELSE p
      BY PickedOfLonger
    <2>4. Of(t) = IF x \in Q THEN Append(Of(r), x) ELSE Of(r)
      BY ThoseOfLonger
    <2>5. Of(Append(p, x)) = IF x \in Q THEN Append(Of(p), x) ELSE Of(p)
      BY <2>2, ThoseOfLonger
    <2> HIDE DEF t, p, Of
    <2>6. SUFFICES ASSUME Those(t, Q) \subseteq A PROVE Of(Lists!Picked(t, A)) = Of(t)
      BY <2>1 DEF t
    <2>7. Those(r, Q) \subseteq A /\ (x \in Q => Len(r) + 1 \in A)
      BY <2>1, <2>6 DEF Those
    <2>8. Of(p) = Of(r)
      BY <1>2, <2>7 DEF p
    <2>9. CASE Len(r) + 1 \in A
      BY <2>3, <2>4, <2>5, <2>8, <2>9
    <2>10. CASE Len(r) + 1 \notin A
      BY <2>3, <2>4, <2>7, <2>8, <2>10
    <2> QED BY <2>9, <2>10
  <1> HIDE DEF T
  <1>3. Seq(M) \subseteq T
    BY <1>1, <1>2, ListInduction
  <1>4. s \in T
    BY <1>3
  <1> QED BY <1>4 DEF T

\* What is picked of two lists put together.
LEMMA PickedOfBoth ==
    ASSUME NEW M, NEW a \in Seq(M), NEW b \in Seq(M), NEW Q
    PROVE  Lists!Picked(a \o b, Those(a \o b, Q))
             = Lists!Picked(a, Those(a, Q)) \o Lists!Picked(b, Those(b, Q))
  <1> DEFINE Of(r) == Lists!Picked(r, Those(r, Q))
             T == {r \in Seq(M) : Of(a \o r) = Of(a) \o Of(r)}
  <1>0. Of(a) \in Seq(M)
    BY PickedFrom
  <1>1. <<>> \in T
    <2>1. Of(<<>>) = <<>> /\ <<>> \in Seq(M)
      BY PickedOfNone
    <2>2. PICK p : p = Of(a)
      OBVIOUS
    <2>3. a \o <<>> = a /\ p \o <<>> = p
      BY <1>0, <2>2
    <2>4. Of(a \o <<>>) = Of(a)
      BY <2>3
    <2>5. Of(a) \o Of(<<>>) = Of(a)
      BY <2>1, <2>2, <2>3
    <2> HIDE DEF Of
    <2> QED BY <2>1, <2>4, <2>5
  <1>2. ASSUME NEW r \in Seq(M), NEW x \in M, r \in T PROVE Append(r, x) \in T
    <2>1. a \o r \in Seq(M) /\ Append(r, x) \in Seq(M)
      OBVIOUS
    <2>2. Of(Append(a \o r, x)) = IF x \in Q THEN Append(Of(a \o r), x) ELSE Of(a \o r)
      BY <2>1, ThoseOfLonger
    <2>3. Of(Append(r, x)) = IF x \in Q THEN Append(Of(r), x) ELSE Of(r)
      BY ThoseOfLonger
    <2>4. Of(r) \in Seq(M)
      BY PickedFrom
    <2>5. Of(a \o r) = Of(a) \o Of(r)
      BY <1>2
    <2> HIDE DEF Of
    <2>6. a \o Append(r, x) = Append(a \o r, x)
      OBVIOUS
    <2>7. Of(a) \o Append(Of(r), x) = Append(Of(a) \o Of(r), x)
      BY <1>0, <2>4
    <2>8. Of(a \o Append(r, x)) = Of(a) \o Of(Append(r, x))
      BY <2>2, <2>3, <2>5, <2>6, <2>7
    <2> QED BY <2>1, <2>8
  <1> HIDE DEF T
  <1>3. Seq(M) \subseteq T
    BY <1>1, <1>2, ListInduction
  <1>4. b \in T
    BY <1>3
  <1> QED BY <1>4 DEF T

=============================================================================
