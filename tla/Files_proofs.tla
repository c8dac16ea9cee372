---------------------------- MODULE Files_proofs ----------------------------
(***************************************************************************)
(* Theorems about what the program keeps and reads - files, lists, caches, *)
(* the logins, the license, the memories, the context of the local model - *)
(* for every value of the constants: one invariant for each component of   *)
(* MCFiles that has one in the provers' reach, proved of the component's   *)
(* own specification, and all of them together of the run of the           *)
(* components side by side (MCFiles!SideBySide).                           *)
(*                                                                         *)
(* Each section gives the inductive invariant, the lemma that a step keeps *)
(* it, with one step per action, and the theorem.                          *)
(***************************************************************************)
EXTENDS MCFiles, SequenceTheorems, FiniteSetTheorems, NaturalsInduction,
        WellFoundedInduction, TLAPS

-----------------------------------------------------------------------------
(* Sequences.                                                              *)

Holds(s, x) == \E i \in 1..Len(s) : s[i] = x

LEMMA FirstAdded ==
    ASSUME NEW S, NEW s \in Seq(S), NEW e \in S
    PROVE  /\ <<e>> \o s \in Seq(S)
           /\ \A x : Holds(<<e>> \o s, x) <=> x = e \/ Holds(s, x)
  <1>1. <<e>> \in Seq(S) /\ Len(<<e>>) = 1 /\ <<e>>[1] = e
    OBVIOUS
  <1>2. <<e>> \o s \in Seq(S) /\ Len(<<e>> \o s) = Len(s) + 1 /\ Len(s) \in Nat
        /\ \A i \in 1..(Len(s) + 1) : (<<e>> \o s)[i] = IF i = 1 THEN e ELSE s[i - 1]
    BY <1>1, ConcatProperties
  <1> DEFINE t == <<e>> \o s
  <1> HIDE DEF t
  <1>3. t \in Seq(S) /\ Len(t) = Len(s) + 1 /\ Len(s) \in Nat
        /\ \A i \in 1..(Len(s) + 1) : t[i] = IF i = 1 THEN e ELSE s[i - 1]
    BY <1>2 DEF t
  <1>4. ASSUME NEW x, Holds(s, x) PROVE Holds(t, x)
    <2>1. PICK i \in 1..Len(s) : s[i] = x
      BY <1>4 DEF Holds
    <2>2. i + 1 \in 1..(Len(s) + 1) /\ (i + 1) - 1 = i /\ i + 1 # 1
      BY <1>3
    <2> QED BY <2>1, <2>2, <1>3 DEF Holds
  <1>5. ASSUME NEW x, Holds(t, x), x # e PROVE Holds(s, x)
    <2>1. PICK i \in 1..Len(t) : t[i] = x
      BY <1>5 DEF Holds
    <2>2. i # 1 /\ i \in 1..(Len(s) + 1)
      BY <2>1, <1>3, <1>5
    <2>3. i - 1 \in 1..Len(s) /\ s[i - 1] = x
      BY <2>1, <2>2, <1>3
    <2> QED BY <2>3 DEF Holds
  <1>6. Holds(t, e)
    <2>1. 1 \in 1..(Len(s) + 1) /\ t[1] = e
      BY <1>3
    <2> QED BY <2>1, <1>3 DEF Holds
  <1> QED BY <1>2, <1>4, <1>5, <1>6 DEF t

\* An element that is moved to the front takes no other away.
LEMMA MovedToFront ==
    ASSUME NEW S, NEW s \in Seq(S), NEW at \in 1..Len(s)
    PROVE  LET t == <<s[at]>> \o (SubSeq(s, 1, at - 1) \o SubSeq(s, at + 1, Len(s)))
           IN  t \in Seq(S) /\ \A x : Holds(s, x) => Holds(t, x)
  <1>1. Len(s) \in Nat /\ \A i \in 1..Len(s) : s[i] \in S
    OBVIOUS
  <1>2. PICK l : l = SubSeq(s, 1, at - 1)
    OBVIOUS
  <1>3. l \in Seq(S) /\ Len(l) = at - 1 /\ \A i \in 1..(at - 1) : l[i] = s[i]
    BY <1>1, <1>2, SubSeqProperties
  <1>4. PICK r : r = SubSeq(s, at + 1, Len(s))
    OBVIOUS
  <1>5. r \in Seq(S) /\ Len(r) = Len(s) - at /\ \A i \in 1..(Len(s) - at) : r[i] = s[at + i]
    <2>1. \A i \in (at + 1)..Len(s) : s[i] \in S
      BY <1>1
    <2>2. /\ r \in Seq(S)
          /\ Len(r) = IF at + 1 <= Len(s) THEN Len(s) - (at + 1) + 1 ELSE 0
          /\ \A i \in 1..(Len(s) - (at + 1) + 1) : r[i] = s[(at + 1) + i - 1]
      BY <1>1, <1>4, <2>1, SubSeqProperties
    <2>3. Len(s) - (at + 1) + 1 = Len(s) - at
          /\ \A i \in 1..(Len(s) - at) : (at + 1) + i - 1 = at + i
      BY <1>1
    <2>4. Len(r) = Len(s) - at
      BY <2>2, <1>1
    <2> QED BY <2>2, <2>3, <2>4
  <1>6. PICK m : m = l \o r
    OBVIOUS
  <1>7. /\ m \in Seq(S) /\ Len(m) = Len(s) - 1
        /\ \A i \in 1..(Len(s) - 1) : m[i] = IF i < at THEN s[i] ELSE s[i + 1]
    <2>1. /\ m \in Seq(S) /\ Len(m) = Len(l) + Len(r)
          /\ \A i \in 1..(Len(l) + Len(r)) : m[i] = IF i <= Len(l) THEN l[i] ELSE r[i - Len(l)]
      BY <1>3, <1>5, <1>6, ConcatProperties
    <2>2. Len(l) + Len(r) = Len(s) - 1
      BY <1>1, <1>3, <1>5
    <2>3. ASSUME NEW i \in 1..(Len(s) - 1) PROVE m[i] = IF i < at THEN s[i] ELSE s[i + 1]
      <3>1. CASE i < at
        <4>1. i <= Len(l) /\ i \in 1..(at - 1)
          BY <3>1, <1>1, <1>3
        <4> QED BY <4>1, <3>1, <2>1, <2>2, <1>3
      <3>2. CASE i >= at
        <4>1. ~(i <= Len(l)) /\ i - Len(l) \in 1..(Len(s) - at) /\ at + (i - Len(l)) = i + 1
              /\ ~(i < at)
          BY <3>2, <1>1, <1>3
        <4> QED BY <4>1, <2>1, <2>2, <1>5
      <3> QED BY <3>1, <3>2, <1>1
    <2> QED BY <2>1, <2>2, <2>3
  <1>8. ASSUME NEW i \in 1..Len(s), i # at PROVE Holds(m, s[i])
    <2>1. CASE i < at
      <3>1. i \in 1..(Len(s) - 1)
        BY <2>1, <1>1
      <3> QED BY <3>1, <2>1, <1>7 DEF Holds
    <2>2. CASE i > at
      <3>1. i - 1 \in 1..(Len(s) - 1) /\ (i - 1) + 1 = i /\ ~(i - 1 < at)
        BY <2>2, <1>1
      <3>2. m[i - 1] = s[i]
        BY <3>1, <1>7
      <3> QED BY <3>1, <3>2, <1>7 DEF Holds
    <2> QED BY <2>1, <2>2, <1>8, <1>1
  <1>9. s[at] \in S
    BY <1>1
  <1>10. <<s[at]>> \o m \in Seq(S) /\ \A x : Holds(<<s[at]>> \o m, x) <=> x = s[at] \/ Holds(m, x)
    BY <1>7, <1>9, FirstAdded
  <1>11. ASSUME NEW x, Holds(s, x) PROVE x = s[at] \/ Holds(m, x)
    <2>1. PICK i \in 1..Len(s) : s[i] = x
      BY <1>11 DEF Holds
    <2> QED BY <2>1, <1>8
  <1>12. <<s[at]>> \o m = <<s[at]>> \o (SubSeq(s, 1, at - 1) \o SubSeq(s, at + 1, Len(s)))
    BY <1>2, <1>4, <1>6
  <1> QED BY <1>10, <1>11, <1>12

\* The end of a sequence.
LEMMA LastTaken ==
    ASSUME NEW S, NEW s \in Seq(S), s # <<>>
    PROVE  /\ s[Len(s)] \in S
           /\ SubSeq(s, 1, Len(s) - 1) \in Seq(S)
           /\ \A x : Holds(s, x) => x = s[Len(s)] \/ Holds(SubSeq(s, 1, Len(s) - 1), x)
           /\ Holds(s, s[Len(s)])
  <1>1. Len(s) \in Nat \ {0} /\ \A i \in 1..Len(s) : s[i] \in S
    BY EmptySeq
  <1>2. PICK f : f = SubSeq(s, 1, Len(s) - 1)
    OBVIOUS
  <1>3. f \in Seq(S) /\ Len(f) = Len(s) - 1 /\ \A i \in 1..(Len(s) - 1) : f[i] = s[i]
    <2>1. \A i \in 1..(Len(s) - 1) : s[i] \in S
      BY <1>1
    <2>2. /\ f \in Seq(S)
          /\ Len(f) = IF 1 <= Len(s) - 1 THEN (Len(s) - 1) - 1 + 1 ELSE 0
          /\ \A i \in 1..((Len(s) - 1) - 1 + 1) : f[i] = s[1 + i - 1]
      BY <1>1, <1>2, <2>1, SubSeqProperties
    <2>3. \A n \in Nat \ {0} :
            /\ (IF 1 <= n - 1 THEN (n - 1) - 1 + 1 ELSE 0) = n - 1
            /\ (n - 1) - 1 + 1 = n - 1 /\ \A i \in 1..(n - 1) : 1 + i - 1 = i
      OBVIOUS
    <2>4. Len(f) = Len(s) - 1 /\ (Len(s) - 1) - 1 + 1 = Len(s) - 1
          /\ \A i \in 1..(Len(s) - 1) : 1 + i - 1 = i
      BY <1>1, <2>2, <2>3
    <2> QED BY <2>2, <2>4
  <1>4. ASSUME NEW x, Holds(s, x), x # s[Len(s)] PROVE Holds(f, x)
    <2>1. PICK i \in 1..Len(s) : s[i] = x
      BY <1>4 DEF Holds
    <2>2. i \in 1..(Len(s) - 1)
      BY <2>1, <1>1, <1>4
    <2> QED BY <2>1, <2>2, <1>3 DEF Holds
  <1>5. Len(s) \in 1..Len(s)
    BY <1>1
  <1> QED BY <1>1, <1>2, <1>3, <1>4, <1>5 DEF Holds

\* A set of natural numbers that is not empty has a least element.
LEMMA LeastOf ==
    ASSUME NEW N, N \subseteq Nat, N # {}
    PROVE  \E i \in N : \A j \in N : ~(j < i)
  <1>1. IsWellFoundedOn(OpToRel(<, Nat), Nat)
    BY NatLessThanWellFounded
  <1>2. PICK i \in N : \A j \in N : ~(<<j, i>> \in OpToRel(<, Nat))
    BY <1>1, WFMin
  <1> QED BY <1>2 DEF OpToRel

-----------------------------------------------------------------------------
(* The tools a request offers (ToolOffers).                                *)

Remote(o) == o.model \notin {Offers!Nothing, Offers!Local}
UsableIn(o) == {t \in Tools : o.plan => t \in ReadOnly}
Found(e) == AlwaysLoad \cup Offers!Discovered(results[e])

\* The types that the arguments below use.
OfferTypes ==
    /\ results \in [Offers!Engines -> Seq(SUBSET Tools)]
    /\ offer = [e \in Offers!Engines |-> offer[e]]
    /\ allowed = [e \in Offers!Engines |-> allowed[e]]
    /\ grew = [e \in Offers!Engines |-> grew[e]]

\* What a request does not offer it names.
RestIsNamed ==
    \A e \in Offers!Engines :
        Remote(offer[e]) /\ allowed[e] = {} =>
            UsableIn(offer[e]) \subseteq offer[e].tools \cup offer[e].deferred

\* While the history only grows, it still holds what the offer came from.
OfferIsFound ==
    \A e \in Offers!Engines :
        Remote(offer[e]) /\ grew[e] =>
            IF allowed[e] # {} THEN offer[e].tools \subseteq offer[e].servers \cup allowed[e]
            ELSE offer[e].tools \subseteq offer[e].servers \cup (UsableIn(offer[e]) \cap Found(e))

OffersInv == OfferTypes /\ RestIsNamed /\ OfferIsFound

LEMMA NothingOffered == ~Remote(Offers!NoOffer)
  BY DEF Remote, Offers!NoOffer

LEMMA OffersInitially == Offers!Init => OffersInv
  <1> SUFFICES ASSUME Offers!Init PROVE OffersInv
    OBVIOUS
  <1>1. OfferTypes
    BY DEF Offers!Init, OfferTypes
  <1>2. \A e \in Offers!Engines : offer[e] = Offers!NoOffer
    BY DEF Offers!Init
  <1> QED BY <1>1, <1>2, NothingOffered DEF OffersInv, RestIsNamed, OfferIsFound

\* A history with a result more has found no less.
LEMMA MoreIsFound ==
    ASSUME NEW s \in Seq(SUBSET Tools), NEW names \in SUBSET Tools
    PROVE  /\ Append(s, names) \in Seq(SUBSET Tools)
           /\ Offers!Discovered(s) \subseteq Offers!Discovered(Append(s, names))
  <1>1. /\ DOMAIN s = 1..Len(s) /\ Len(s) \in Nat
        /\ DOMAIN Append(s, names) = 1..(Len(s) + 1)
        /\ \A i \in 1..Len(s) : Append(s, names)[i] = s[i]
    OBVIOUS
  <1>2. \A i \in DOMAIN s : i \in DOMAIN Append(s, names) /\ Append(s, names)[i] = s[i]
    BY <1>1
  <1> QED BY <1>2 DEF Offers!Discovered

\* The offer of a prompt.
LEMMA OfferIsBuilt ==
    ASSUME OffersInv, NEW e \in Offers!Engines, Offers!Submit(e)
    PROVE  /\ OffersInv'
           /\ grew[e] => ~Offers!Withdrawn(offer[e], offer'[e])
           /\ \A d \in Offers!Engines : d # e => offer'[d] = offer[d]
  <1> DEFINE o == offer'[e]
  <1>1. /\ offer' = [offer EXCEPT ![e] = o]
        /\ o.tools = IF model = Offers!Local THEN {} ELSE Offers!BuiltIn(e) \cup connected
        /\ o.deferred = IF model = Offers!Local THEN {} ELSE Offers!DeferredNames(e)
        /\ o.plan = planMode /\ o.model = model /\ o.servers = connected
    BY DEF Offers!Submit, Offers!BuildModelConfig, OffersInv, OfferTypes
  <1>2. /\ grew' = [grew EXCEPT ![e] = TRUE]
        /\ allowed' = allowed /\ results' = results
    BY DEF Offers!Submit
  <1>3. UsableIn(o) = Offers!Usable
    BY <1>1 DEF UsableIn, Offers!Usable
  <1>4. CASE ~Remote(o)
    <2>1. OffersInv'
      BY <1>1, <1>2, <1>4 DEF OffersInv, OfferTypes, RestIsNamed, OfferIsFound, Remote, UsableIn, Found
    <2>2. ~Offers!Withdrawn(offer[e], o)
      BY <1>4 DEF Remote, Offers!Withdrawn, Offers!SameWorld
    <2>3. \A d \in Offers!Engines : d # e => offer'[d] = offer[d]
      BY <1>1 DEF OffersInv, OfferTypes
    <2> QED BY <2>1, <2>2, <2>3
  <1>5. CASE Remote(o)
    <2>1. model # Offers!Local
      BY <1>1, <1>5 DEF Remote
    <2>2. allowed[e] = {} => /\ Offers!BuiltIn(e) = UsableIn(o) \cap Found(e)
                             /\ Offers!DeferredNames(e) = UsableIn(o) \ Found(e)
      BY <1>3 DEF Offers!BuiltIn, Offers!DeferredNames, Offers!DiscoveredTools, Found
    <2>3. allowed[e] # {} => Offers!BuiltIn(e) = allowed[e]
      BY DEF Offers!BuiltIn
    <2>4. o.tools = Offers!BuiltIn(e) \cup connected /\ o.deferred = Offers!DeferredNames(e)
      BY <1>1, <2>1
    <2>5. ASSUME allowed[e] = {}
          PROVE  /\ UsableIn(o) \subseteq o.tools \cup o.deferred
                 /\ o.tools \subseteq o.servers \cup (UsableIn(o) \cap Found(e))
      BY <1>1, <2>2, <2>4, <2>5
    <2>6. ASSUME allowed[e] # {}
          PROVE  o.tools \subseteq o.servers \cup allowed[e]
      BY <1>1, <2>3, <2>4, <2>6
    <2>7. OfferTypes'
      BY <1>1, <1>2 DEF OffersInv, OfferTypes
    <2>8. \A d \in Offers!Engines : d # e => offer'[d] = offer[d] /\ grew'[d] = grew[d]
      BY <1>1, <1>2 DEF OffersInv, OfferTypes
    <2>9. RestIsNamed'
      BY <1>2, <2>5, <2>8 DEF OffersInv, RestIsNamed, Remote, UsableIn
    <2>10. OfferIsFound'
      BY <1>2, <2>5, <2>6, <2>8 DEF OffersInv, OfferIsFound, Remote, UsableIn, Found
    <2>11. grew[e] => ~Offers!Withdrawn(offer[e], o)
      <3> SUFFICES ASSUME grew[e], Offers!SameWorld(offer[e], o)
                   PROVE  offer[e].tools \subseteq o.tools
        BY DEF Offers!Withdrawn
      <3>1. Remote(offer[e]) /\ UsableIn(offer[e]) = UsableIn(o) /\ offer[e].servers = connected
        BY <1>1 DEF Offers!SameWorld, Remote, UsableIn
      <3>2. CASE allowed[e] = {}
        <4>1. offer[e].tools \subseteq offer[e].servers \cup (UsableIn(offer[e]) \cap Found(e))
          BY <3>1, <3>2 DEF OffersInv, OfferIsFound
        <4> QED BY <2>2, <2>4, <3>1, <3>2, <4>1
      <3>3. CASE allowed[e] # {}
        <4>1. offer[e].tools \subseteq offer[e].servers \cup allowed[e]
          BY <3>1, <3>3 DEF OffersInv, OfferIsFound
        <4> QED BY <2>3, <2>4, <3>1, <3>3, <4>1
      <3> QED BY <3>2, <3>3
    <2> QED BY <2>7, <2>8, <2>9, <2>10, <2>11 DEF OffersInv
  <1> QED BY <1>4, <1>5

LEMMA OffersSteps ==
    ASSUME OffersInv, [Offers!Next]_(Offers!vars)
    PROVE  /\ OffersInv'
           /\ \A e \in Offers!Engines :
                grew[e] => ~Offers!Withdrawn(offer[e], offer'[e])
  <1> DEFINE Same == \A e \in Offers!Engines : ~Offers!Withdrawn(offer[e], offer[e])
  <1>1. Same
    BY DEF Offers!Withdrawn
  <1>2. ASSUME UNCHANGED <<allowed, offer, results>>,
               \A e \in Offers!Engines : grew'[e] => grew[e], OfferTypes'
        PROVE  /\ OffersInv'
               /\ \A e \in Offers!Engines : grew[e] => ~Offers!Withdrawn(offer[e], offer'[e])
    BY <1>1, <1>2 DEF OffersInv, RestIsNamed, OfferIsFound, Remote, UsableIn, Found
  <1>3. ASSUME UNCHANGED <<allowed, offer, results, grew>>
        PROVE  /\ OffersInv'
               /\ \A e \in Offers!Engines : grew[e] => ~Offers!Withdrawn(offer[e], offer'[e])
    BY <1>2, <1>3 DEF OffersInv, OfferTypes
  <1>4. ASSUME NEW e \in Offers!Engines, Offers!Submit(e)
        PROVE  /\ OffersInv'
               /\ \A d \in Offers!Engines : grew[d] => ~Offers!Withdrawn(offer[d], offer'[d])
    BY <1>1, <1>4, OfferIsBuilt
  <1>5. ASSUME NEW e \in Offers!Engines, NEW names \in SUBSET Tools,
               Offers!Discovers(e, names), UNCHANGED <<allowed, offer, grew>>
        PROVE  /\ OffersInv'
               /\ \A d \in Offers!Engines : grew[d] => ~Offers!Withdrawn(offer[d], offer'[d])
    <2>1. results' = [results EXCEPT ![e] = Append(results[e], names)]
      BY <1>5 DEF Offers!Discovers
    <2>2. OfferTypes'
      BY <1>5, <2>1, MoreIsFound DEF OffersInv, OfferTypes
    <2>3. \A d \in Offers!Engines :
             Offers!Discovered(results[d]) \subseteq Offers!Discovered(results'[d])
      <3> TAKE d \in Offers!Engines
      <3>1. CASE d = e
        <4>1. results'[d] = Append(results[d], names) /\ results[d] \in Seq(SUBSET Tools)
          BY <2>1, <3>1 DEF OffersInv, OfferTypes
        <4> QED BY <4>1, MoreIsFound
      <3>2. CASE d # e
        BY <2>1, <3>2 DEF OffersInv, OfferTypes
      <3> QED BY <3>1, <3>2
    <2>4. \A d \in Offers!Engines : Found(d) \subseteq AlwaysLoad \cup Offers!Discovered(results'[d])
      BY <2>3 DEF Found
    <2>5. RestIsNamed'
      BY <1>5 DEF OffersInv, RestIsNamed, Remote, UsableIn
    <2>6. OfferIsFound'
      <3> SUFFICES ASSUME NEW d \in Offers!Engines, Remote(offer[d]), grew[d], allowed[d] = {}
                   PROVE  offer[d].tools \subseteq offer[d].servers \cup
                            (UsableIn(offer[d]) \cap (AlwaysLoad \cup Offers!Discovered(results'[d])))
        BY <1>5 DEF OffersInv, OfferIsFound, Remote, UsableIn, Found
      <3>1. offer[d].tools \subseteq offer[d].servers \cup (UsableIn(offer[d]) \cap Found(d))
        BY DEF OffersInv, OfferIsFound
      <3> QED BY <2>4, <3>1
    <2> QED BY <1>1, <1>5, <2>2, <2>5, <2>6 DEF OffersInv
  <1>6. ASSUME NEW e \in Offers!Engines, NEW names \in Offers!Finds,
               Offers!Select(e, names) \/ Offers!Keywords(e, names)
        PROVE  /\ OffersInv'
               /\ \A d \in Offers!Engines : grew[d] => ~Offers!Withdrawn(offer[d], offer'[d])
    <2>1. names \in SUBSET Tools /\ names \cap Deferring \in SUBSET Tools
      BY DEF Offers!Finds
    <2> QED BY <1>5, <1>6, <2>1 DEF Offers!Select, Offers!Keywords, Offers!NextTurn
  <1>7. ASSUME NEW e \in Offers!Engines,
               Offers!Answer(e) \/ (\E on \in BOOLEAN : Offers!SetPlanMode(e, on))
        PROVE  /\ OffersInv'
               /\ \A d \in Offers!Engines : grew[d] => ~Offers!Withdrawn(offer[d], offer'[d])
    BY <1>3, <1>7 DEF Offers!Answer, Offers!SetPlanMode, Offers!NextTurn
  <1>8. ASSUME NEW tools, Offers!Spawn(tools)
        PROVE  /\ OffersInv'
               /\ \A d \in Offers!Engines : grew[d] => ~Offers!Withdrawn(offer[d], offer'[d])
    <2>1. /\ allowed' = [allowed EXCEPT !["sub"] = tools]
          /\ offer' = [offer EXCEPT !["sub"] = Offers!NoOffer]
          /\ results' = [results EXCEPT !["sub"] = <<>>]
          /\ grew' = grew
      BY <1>8 DEF Offers!Spawn
    <2>2. OfferTypes'
      <3>1. <<>> \in Seq(SUBSET Tools)
        BY EmptySeq
      <3> QED BY <2>1, <3>1 DEF OffersInv, OfferTypes
    <2>3. \A d \in Offers!Engines :
             \/ offer'[d] = Offers!NoOffer
             \/ offer'[d] = offer[d] /\ allowed'[d] = allowed[d] /\ results'[d] = results[d]
      BY <2>1 DEF OffersInv, OfferTypes
    <2>4. RestIsNamed'
      BY <2>3, NothingOffered DEF OffersInv, RestIsNamed, UsableIn, Remote
    <2>5. OfferIsFound'
      BY <2>1, <2>3, NothingOffered DEF OffersInv, OfferIsFound, UsableIn, Remote, Found
    <2>6. \A d \in Offers!Engines : ~Offers!Withdrawn(offer[d], offer'[d])
      BY <1>1, <2>3, NothingOffered DEF Remote, Offers!Withdrawn, Offers!SameWorld, Offers!NoOffer
    <2> QED BY <2>2, <2>4, <2>5, <2>6 DEF OffersInv
  <1>9. ASSUME NEW last \in 0..MaxResults, Offers!Rewrite(last)
        PROVE  /\ OffersInv'
               /\ \A d \in Offers!Engines : grew[d] => ~Offers!Withdrawn(offer[d], offer'[d])
    <2>1. /\ allowed' = allowed /\ offer' = offer
          /\ grew' = [grew EXCEPT !["main"] = FALSE]
          /\ \E s : results' = [results EXCEPT !["main"] = s] /\ s \in Seq(SUBSET Tools)
      <3>1. /\ last \in Nat /\ results["main"] \in Seq(SUBSET Tools)
            /\ last < Len(results["main"])
        BY <1>9 DEF Offers!Rewrite, OffersInv, OfferTypes, Offers!Engines
      <3>2. /\ SubSeq(results["main"], 1, last) \in Seq(SUBSET Tools)
            /\ SubSeq(results["main"], Len(results["main"]) - last + 1, Len(results["main"]))
                 \in Seq(SUBSET Tools)
        BY <3>1
      <3> QED BY <1>9, <3>2 DEF Offers!Rewrite, Offers!AtPrompt
    <2>2. OfferTypes'
      BY <2>1 DEF OffersInv, OfferTypes
    <2>3. RestIsNamed'
      BY <2>1 DEF OffersInv, RestIsNamed, Remote, UsableIn
    <2>4. \A d \in Offers!Engines : grew'[d] => grew[d] /\ results'[d] = results[d]
      BY <2>1 DEF OffersInv, OfferTypes
    <2>5. OfferIsFound'
      BY <2>1, <2>4 DEF OffersInv, OfferIsFound, Remote, UsableIn, Found
    <2> QED BY <1>1, <2>1, <2>2, <2>3, <2>5 DEF OffersInv
  <1>10. ASSUME \/ Offers!TogglePlan
                \/ \E name \in Models : Offers!ModelCommand(name)
                \/ \E tools \in SUBSET ServerTools : Offers!Connect(tools)
                \/ UNCHANGED Offers!vars
         PROVE  /\ OffersInv'
                /\ \A d \in Offers!Engines : grew[d] => ~Offers!Withdrawn(offer[d], offer'[d])
    BY <1>3, <1>10 DEF Offers!TogglePlan, Offers!ModelCommand, Offers!Connect, Offers!AtPrompt,
       Offers!vars
  <1>11. CASE Offers!Next
    BY <1>4, <1>6, <1>7, <1>8, <1>9, <1>10, <1>11 DEF Offers!Next, Offers!Turn
  <1> QED BY <1>10, <1>11

\* From one prompt to the next, while the mode, the servers and the model stay
\* and the history only grows, no tool is withdrawn, and one that is not
\* offered is named (buildModelConfig against the search of the history).
THEOREM NoToolIsWithdrawn == Offers!Spec => ToolsStayOffered
  <1>1. ASSUME OffersInv
        PROVE  \A e \in Offers!Engines : ~Offers!Unreachable(e)
    BY <1>1 DEF OffersInv, RestIsNamed, Remote, UsableIn, Offers!Unreachable
  <1>2. OffersInv /\ [Offers!Next]_(Offers!vars) => OffersInv'
    BY OffersSteps
  <1>3. ASSUME OffersInv, OffersInv', [Offers!Next]_(Offers!vars)
        PROVE  [\A e \in Offers!Engines : offersPc'[e] = "turn" =>
                  (grew[e] => ~Offers!Withdrawn(offer[e], offer'[e]))
                  /\ ~Offers!Unreachable(e)']_(Offers!vars)
    <2>1. \A e \in Offers!Engines : grew[e] => ~Offers!Withdrawn(offer[e], offer'[e])
      BY <1>3, OffersSteps
    <2>2. \A e \in Offers!Engines : ~Offers!Unreachable(e)'
      BY <1>3 DEF OffersInv, RestIsNamed, Remote, UsableIn, Offers!Unreachable, Offers!Engines
    <2> QED BY <2>1, <2>2
  <1> QED BY <1>2, <1>3, OffersInitially, PTL DEF Offers!Spec, ToolsStayOffered, Offers!ToolsStayOffered

-----------------------------------------------------------------------------
(* The repetition detector (LoopDetection).                                *)

Signatures == {Loops!Signature(b) : b \in Batches \cup {<<c>> : c \in TextCalls}}
TurnsTaken == [signature : Signatures, native : BOOLEAN, text : Texts \cup {NoText}]

\* The types that the arguments below use.
LoopsTypes ==
    /\ detector = [recent |-> detector.recent, text |-> detector.text,
                        repeats |-> detector.repeats, names |-> detector.names,
                        streak |-> detector.streak]
    /\ detector.repeats \in Nat /\ detector.streak \in Nat
    /\ turns \in Seq(TurnsTaken)
    /\ warned \in BOOLEAN /\ stopped \in BOOLEAN

\* As many turns as it counts repeated the tools of the one before, and no
\* fewer than repeated its very calls.
RepeatsCount ==
    /\ Len(turns) = 0 => detector.recent = <<>> /\ detector.repeats = 0
    /\ Len(turns) > 0 =>
         /\ detector.recent # <<>> /\ detector.repeats < Len(turns)
         /\ detector.recent = turns[Len(turns)].signature
         /\ \A i \in (Len(turns) - detector.repeats)..Len(turns) :
              Loops!NamesIn(turns[i].signature) = Loops!NamesIn(detector.recent)
    /\ \A k \in Nat :
         /\ k < Len(turns)
         /\ \A i \in (Len(turns) - k)..Len(turns) : turns[i].signature = detector.recent
         => detector.repeats >= k

\* The streak counts native turns that called the same tools.
StreakCounts ==
    /\ detector.names = <<>> => detector.streak = 0
    /\ detector.names # <<>> =>
         \E i \in DOMAIN turns :
           /\ Cardinality(Loops!NativesFrom(i)) > detector.streak
           /\ \A j \in Loops!NativesFrom(i) :
                Loops!NamesIn(turns[j].signature) = detector.names

\* The counts stop the loop, and warn before they do.
CountsStop ==
    /\ \/ detector.repeats >= kRepeatBreakThreshold
       \/ detector.streak >= kSameToolBreakThreshold
       => stopped
    /\ stopped =>
       \/ detector.repeats >= kRepeatBreakThreshold
       \/ detector.streak >= kSameToolBreakThreshold
    /\ \/ detector.repeats >= kRepeatWarnThreshold
       \/ detector.streak >= kSameToolWarnThreshold
       => warned

LoopsInv == LoopsTypes /\ RepeatsCount /\ StreakCounts /\ CountsStop

LEMMA LoopsCount == \A S : Loops!Cardinality(S) = Cardinality(S)
  BY DEF Loops!Cardinality, Cardinality

LEMMA TurnAppended ==
    ASSUME turns \in Seq(TurnsTaken), NEW t \in TurnsTaken, turns' = Append(turns, t)
    PROVE  /\ turns' \in Seq(TurnsTaken) /\ Len(turns') = Len(turns) + 1
           /\ \A i \in 1..Len(turns) : turns'[i] = turns[i]
           /\ turns'[Len(turns) + 1] = t
  OBVIOUS

LEMMA SignatureIsSomething ==
    ASSUME NEW s \in Signatures
    PROVE  s # <<>> /\ Loops!NamesIn(s) # <<>>
  <1>1. PICK b \in Batches \cup {<<c>> : c \in TextCalls} : s = Loops!Signature(b)
    BY DEF Signatures
  <1>2. DOMAIN b # {}
    BY <1>1, LoopsAssumption
  <1>3. DOMAIN s = DOMAIN b /\ DOMAIN Loops!NamesIn(s) = DOMAIN b
    BY <1>1 DEF Loops!Signature, Loops!NamesIn
  <1>4. DOMAIN <<>> = {}
    OBVIOUS
  <1> QED BY <1>2, <1>3, <1>4

\* How a turn moves the count of repeats, in either block.
LEMMA RepeatsStep ==
    ASSUME LoopsTypes, RepeatsCount, NEW t \in TurnsTaken, turns' = Append(turns, t),
           detector'.recent = t.signature,
           \/ detector'.repeats = 0 /\ t.signature # detector.recent
           \/ /\ detector'.repeats = detector.repeats + 1
              /\ detector.recent # <<>>
              /\ Loops!NamesIn(t.signature) = Loops!NamesIn(detector.recent)
    PROVE  RepeatsCount'
  <1> DEFINE n == Len(turns)
  <1>1. /\ n \in Nat /\ detector.repeats \in Nat /\ detector'.repeats \in Nat
        /\ Len(turns') = n + 1
        /\ \A i \in 1..n : turns'[i] = turns[i]
        /\ turns'[n + 1] = t
    BY TurnAppended DEF LoopsTypes
  <1>2. t.signature # <<>>
    BY SignatureIsSomething DEF TurnsTaken
  <1>3. CASE detector'.repeats = 0 /\ t.signature # detector.recent
    <2>1. \A i \in (n + 1 - detector'.repeats)..(n + 1) :
             Loops!NamesIn(turns'[i].signature) = Loops!NamesIn(t.signature)
      <3> TAKE i \in (n + 1 - detector'.repeats)..(n + 1)
      <3>1. i = n + 1
        BY <1>1, <1>3
      <3> QED BY <1>1, <3>1
    <2>2. ASSUME NEW k \in Nat, k < n + 1,
                 \A i \in (n + 1 - k)..(n + 1) : turns'[i].signature = t.signature
          PROVE  detector'.repeats >= k
      <3>1. CASE k = 0
        BY <1>1, <3>1
      <3>2. CASE k > 0
        <4>1. n \in (n + 1 - k)..(n + 1) /\ n \in 1..n /\ n > 0
          BY <1>1, <2>2, <3>2
        <4>2. turns[n].signature = t.signature
          BY <1>1, <2>2, <4>1
        <4>3. (0 < n /\ \A i \in (n - 0)..n : turns[i].signature = t.signature)
          BY <4>1, <4>2
        <4>4. turns[n].signature = detector.recent
          BY <4>1 DEF RepeatsCount
        <4> QED BY <1>3, <4>2, <4>4
      <3> QED BY <3>1, <3>2
    <2> QED BY <1>1, <1>2, <1>3, <2>1, <2>2 DEF RepeatsCount
  <1>4. CASE /\ detector'.repeats = detector.repeats + 1
             /\ detector.recent # <<>>
             /\ Loops!NamesIn(t.signature) = Loops!NamesIn(detector.recent)
    <2>0. n > 0 /\ detector.repeats < n
      BY <1>1, <1>4 DEF RepeatsCount
    <2>1. \A i \in (n + 1 - detector'.repeats)..(n + 1) :
             Loops!NamesIn(turns'[i].signature) = Loops!NamesIn(t.signature)
      <3> TAKE i \in (n + 1 - detector'.repeats)..(n + 1)
      <3>1. CASE i = n + 1
        BY <1>1, <3>1
      <3>2. CASE i # n + 1
        <4>1. i \in (n - detector.repeats)..n /\ i \in 1..n
          BY <1>1, <1>4, <2>0, <3>2
        <4>2. Loops!NamesIn(turns[i].signature) = Loops!NamesIn(detector.recent)
          BY <2>0, <4>1 DEF RepeatsCount
        <4> QED BY <1>1, <1>4, <4>1, <4>2
      <3> QED BY <3>1, <3>2
    <2>2. ASSUME NEW k \in Nat, k < n + 1,
                 \A i \in (n + 1 - k)..(n + 1) : turns'[i].signature = t.signature
          PROVE  detector'.repeats >= k
      <3>1. CASE k = 0
        BY <1>1, <3>1
      <3>2. CASE k > 0
        <4>1. k - 1 \in Nat /\ k - 1 < n
          BY <1>1, <2>2, <3>2
        <4>2. \A i \in (n - (k - 1))..n : i \in (n + 1 - k)..(n + 1) /\ i \in 1..n
          BY <1>1, <2>2, <3>2
        <4>3. \A i \in (n - (k - 1))..n : turns[i].signature = t.signature
          BY <1>1, <2>2, <4>2
        <4>4. turns[n].signature = t.signature
          BY <1>1, <4>1, <4>3
        <4>5. turns[n].signature = detector.recent
          BY <1>1, <2>0 DEF RepeatsCount
        <4>6. detector.repeats >= k - 1
          BY <4>1, <4>3, <4>4, <4>5 DEF RepeatsCount
        <4> QED BY <1>1, <1>4, <4>6, <4>1
      <3> QED BY <3>1, <3>2
    <2>3. detector'.repeats < n + 1
      BY <1>1, <1>4, <2>0
    <2> QED BY <1>1, <1>2, <2>1, <2>2, <2>3 DEF RepeatsCount
  <1> QED BY <1>3, <1>4

\* How a native turn moves the streak: it goes on, or it starts again.
LEMMA StreakStep ==
    ASSUME LoopsTypes, StreakCounts, NEW t \in TurnsTaken, t.native, turns' = Append(turns, t),
           detector'.names = Loops!NamesIn(t.signature),
           detector'.streak = IF Loops!NamesIn(t.signature) = detector.names
                                   THEN detector.streak + 1 ELSE 0
    PROVE  StreakCounts'
  <1> DEFINE n == Len(turns)
             F(i) == Loops!NativesFrom(i)
  <1>1. /\ n \in Nat /\ detector.streak \in Nat
        /\ DOMAIN turns = 1..n /\ DOMAIN turns' = 1..(n + 1) /\ Len(turns') = n + 1
        /\ \A i \in 1..n : turns'[i] = turns[i]
        /\ turns'[n + 1] = t
    BY TurnAppended DEF LoopsTypes
  <1>2. \A i \in 1..n : F(i)' = F(i) \cup {n + 1} /\ n + 1 \notin F(i) /\ IsFiniteSet(F(i))
    <2> TAKE i \in 1..n
    <2>1. F(i) = {j \in i..n : turns[j].native} /\ F(i)' = {j \in i..(n + 1) : turns'[j].native}
      BY <1>1 DEF Loops!NativesFrom
    <2>2. \A j \in i..n : j \in 1..n
      BY <1>1
    <2>3. i..(n + 1) = (i..n) \cup {n + 1}
      BY <1>1
    <2>4. F(i)' = F(i) \cup {n + 1}
      BY <1>1, <2>1, <2>2, <2>3
    <2>5. n + 1 \notin F(i)
      BY <1>1, <2>1
    <2>6. F(i) \subseteq i..n /\ IsFiniteSet(i..n)
      BY <1>1, <2>1, FS_Interval
    <2>7. IsFiniteSet(F(i))
      BY <2>6, FS_Subset
    <2> QED BY <2>4, <2>5, <2>7
  <1>3. Loops!NamesIn(t.signature) # <<>>
    BY SignatureIsSomething DEF TurnsTaken
  <1>4. CASE Loops!NamesIn(t.signature) = detector.names
    <2>1. PICK i \in 1..n :
             /\ Cardinality(F(i)) > detector.streak
             /\ \A j \in F(i) : Loops!NamesIn(turns[j].signature) = detector.names
      BY <1>1, <1>3, <1>4 DEF StreakCounts
    <2>2. Cardinality(F(i)) \in Nat /\ Cardinality(F(i)') = Cardinality(F(i)) + 1
      BY <1>2, FS_CardinalityType, FS_AddElement
    <2>3. Cardinality(F(i)') > detector'.streak
      BY <1>1, <1>4, <2>1, <2>2
    <2>4. \A j \in F(i)' : Loops!NamesIn(turns'[j].signature) = detector'.names
      <3> TAKE j \in F(i)'
      <3>1. CASE j = n + 1
        BY <1>1, <3>1
      <3>2. CASE j # n + 1
        <4>1. j \in F(i)
          BY <1>2, <3>2
        <4>2. F(i) \subseteq i..n
          BY DEF Loops!NativesFrom
        <4>3. j \in 1..n
          BY <1>1, <4>1, <4>2
        <4> QED BY <1>1, <1>4, <2>1, <4>1, <4>3
      <3> QED BY <3>1, <3>2
    <2>5. i \in DOMAIN turns'
      BY <1>1
    <2> QED BY <1>3, <2>3, <2>4, <2>5 DEF StreakCounts
  <1>5. CASE Loops!NamesIn(t.signature) # detector.names
    <2> PICK m \in Nat : m = n + 1
      BY <1>1
    <2>1. F(m)' = {m}
      <3>1. F(m)' = {j \in m..m : turns'[j].native}
        BY <1>1 DEF Loops!NativesFrom
      <3>2. m..m = {m}
        OBVIOUS
      <3> QED BY <1>1, <3>1, <3>2
    <2>2. Cardinality({m}) = 1
      BY FS_Singleton
    <2>3. Cardinality(F(m)') > detector'.streak
      <3>1. detector'.streak = 0
        BY <1>5
      <3>2. Cardinality(F(m)') = 1
        BY <2>1, <2>2, Zenon
      <3> HIDE DEF F
      <3> QED BY <3>1, <3>2
    <2>4. \A j \in F(m)' : Loops!NamesIn(turns'[j].signature) = detector'.names
      BY <1>1, <2>1
    <2>5. m \in DOMAIN turns'
      BY <1>1
    <2> QED BY <1>3, <2>3, <2>4, <2>5 DEF StreakCounts
  <1> QED BY <1>4, <1>5

\* A turn that is not native leaves the streak.
LEMMA StreakStays ==
    ASSUME LoopsTypes, StreakCounts, NEW t \in TurnsTaken, ~t.native, turns' = Append(turns, t),
           detector'.names = detector.names,
           detector'.streak = detector.streak
    PROVE  StreakCounts'
  <1> DEFINE n == Len(turns)
             F(i) == Loops!NativesFrom(i)
  <1>1. /\ n \in Nat
        /\ DOMAIN turns = 1..n /\ DOMAIN turns' = 1..(n + 1) /\ Len(turns') = n + 1
        /\ \A i \in 1..n : turns'[i] = turns[i]
        /\ turns'[n + 1] = t
    BY TurnAppended DEF LoopsTypes
  <1>2. \A i \in 1..n : F(i)' = F(i)
    <2> TAKE i \in 1..n
    <2>1. F(i) = {j \in i..n : turns[j].native} /\ F(i)' = {j \in i..(n + 1) : turns'[j].native}
      BY <1>1 DEF Loops!NativesFrom
    <2>2. \A j \in i..n : j \in 1..n
      BY <1>1
    <2>3. i..(n + 1) = (i..n) \cup {n + 1}
      BY <1>1
    <2> QED BY <1>1, <2>1, <2>2, <2>3
  <1>3. CASE detector.names # <<>>
    <2>1. PICK i \in 1..n :
             /\ Cardinality(F(i)) > detector.streak
             /\ \A j \in F(i) : Loops!NamesIn(turns[j].signature) = detector.names
      BY <1>1, <1>3 DEF StreakCounts
    <2>2. F(i)' = F(i) /\ i \in DOMAIN turns'
      BY <1>1, <1>2
    <2>3. \A j \in F(i) : j \in 1..n
      BY <1>1 DEF Loops!NativesFrom
    <2>4. \A j \in F(i)' : Loops!NamesIn(turns'[j].signature) = detector'.names
      BY <1>1, <2>1, <2>2, <2>3
    <2>5. Cardinality(F(i)') > detector'.streak
      BY <2>1, <2>2
    <2> QED BY <1>3, <2>2, <2>4, <2>5 DEF StreakCounts
  <1>4. CASE detector.names = <<>>
    BY <1>4 DEF StreakCounts
  <1> QED BY <1>3, <1>4

LEMMA LoopsInitially == Loops!Init => LoopsInv
  <1> SUFFICES ASSUME Loops!Init PROVE LoopsInv
    OBVIOUS
  <1> USE DEF Loops!Init, Loops!Fresh
  <1>1. LoopsTypes
    <2>1. turns \in Seq(TurnsTaken)
      BY EmptySeq
    <2>3. warned \in BOOLEAN /\ stopped \in BOOLEAN
      BY Zenon
    <2>2. detector = [recent |-> <<>>, text |-> NoText, repeats |-> 0,
                           names |-> <<>>, streak |-> 0]
      BY Zenon
    <2> QED BY <2>1, <2>2, <2>3 DEF LoopsTypes
  <1>2. RepeatsCount
    BY DEF RepeatsCount
  <1>3. StreakCounts
    BY DEF StreakCounts
  <1>4. CountsStop
    BY LoopsAssumption DEF CountsStop
  <1> QED BY <1>1, <1>2, <1>3, <1>4 DEF LoopsInv

LEMMA LoopsSteps == LoopsInv /\ [Loops!Next]_(Loops!vars) => LoopsInv'
  <1> SUFFICES ASSUME LoopsInv, [Loops!Next]_(Loops!vars) PROVE LoopsInv'
    OBVIOUS
  <1> DEFINE d == detector
  <1>0. /\ d.repeats \in Nat /\ d.streak \in Nat /\ warned \in BOOLEAN /\ stopped \in BOOLEAN
        /\ turns \in Seq(TurnsTaken)
    BY DEF LoopsInv, LoopsTypes
  <1>1. ASSUME NEW batch \in Batches, NEW words \in Texts \cup {NoText},
               Loops!NativeTurn(batch, words)
        PROVE  LoopsInv'
    <2> DEFINE s == Loops!Signature(batch)
               t == [signature |-> s, native |-> TRUE, text |-> words]
               r == Loops!IsRepeat(d, s, words)
    <2>1. t \in TurnsTaken /\ s \in Signatures /\ t.native /\ t.signature = s
      BY DEF TurnsTaken, Signatures
    <2>2. /\ turns' = Append(turns, t)
          /\ d' = [recent |-> s, text |-> words, repeats |-> IF r THEN d.repeats + 1 ELSE 0,
                   names |-> Loops!NamesIn(s),
                   streak |-> IF Loops!NamesIn(s) = d.names THEN d.streak + 1 ELSE 0]
          /\ ~stopped
      BY <1>1 DEF Loops!NativeTurn, Loops!AfterNative
    <2>3. /\ d'.recent = s /\ d'.names = Loops!NamesIn(s)
          /\ d'.repeats = IF r THEN d.repeats + 1 ELSE 0
          /\ d'.streak = IF Loops!NamesIn(s) = d.names THEN d.streak + 1 ELSE 0
      BY <2>2
    <2>4. turns' \in Seq(TurnsTaken)
      BY <1>0, <2>1, <2>2, TurnAppended
    <2>5. /\ stopped' = Loops!StopsNative(d')
          /\ warned' = (warned \/ (Loops!WarnsNative(d') /\ ~stopped'))
      BY <1>1 DEF Loops!NativeTurn
    <2>6. LoopsTypes'
      BY <1>0, <2>2, <2>3, <2>4, <2>5 DEF LoopsTypes, Loops!StopsNative
    <2>7. \/ d'.repeats = 0 /\ s # d.recent
          \/ /\ d'.repeats = d.repeats + 1 /\ d.recent # <<>>
             /\ Loops!NamesIn(s) = Loops!NamesIn(d.recent)
      <3>1. CASE r
        BY <2>3, <3>1 DEF Loops!IsRepeat
      <3>2. CASE ~r
        <4>1. d.recent = <<>> \/ s # d.recent
          BY <3>2 DEF Loops!IsRepeat
        <4> QED BY <2>1, <2>3, <3>2, <4>1, SignatureIsSomething
      <3> QED BY <3>1, <3>2
    <2>8. RepeatsCount'
      BY <2>1, <2>2, <2>3, <2>7, RepeatsStep DEF LoopsInv
    <2>9. StreakCounts'
      BY <2>1, <2>2, <2>3, StreakStep DEF LoopsInv
    <2>10. CountsStop'
      <3>1. /\ d'.repeats \in Nat /\ d'.repeats <= d.repeats + 1
            /\ d'.streak \in Nat /\ d'.streak <= d.streak + 1
        BY <1>0, <2>3
      <3>2. /\ d.repeats < kRepeatBreakThreshold /\ d.streak < kSameToolBreakThreshold
        BY <1>0, <2>2, LoopsAssumption DEF LoopsInv, CountsStop
      <3>3. stopped' => warned
        BY <1>0, <2>5, <3>1, <3>2, LoopsAssumption DEF LoopsInv, CountsStop, Loops!StopsNative
      <3> QED BY <2>5, <3>3 DEF CountsStop, Loops!StopsNative, Loops!WarnsNative
    <2> QED BY <2>6, <2>8, <2>9, <2>10 DEF LoopsInv
  <1>2. ASSUME NEW call \in TextCalls, Loops!TextualTurn(call)
        PROVE  LoopsInv'
    <2> DEFINE s == Loops!Signature(<<call>>)
               t == [signature |-> s, native |-> FALSE, text |-> NoText]
               r == d.recent # <<>> /\ s = d.recent
    <2>1. t \in TurnsTaken /\ s \in Signatures /\ ~t.native /\ t.signature = s
      BY DEF TurnsTaken, Signatures
    <2>2. /\ turns' = Append(turns, t)
          /\ d' = [d EXCEPT !.recent = s, !.repeats = IF r THEN d.repeats + 1 ELSE 0]
          /\ ~stopped
      BY <1>2 DEF Loops!TextualTurn, Loops!AfterTextual
    <2>3. /\ d' = [recent |-> s, text |-> d.text, repeats |-> IF r THEN d.repeats + 1 ELSE 0,
                   names |-> d.names, streak |-> d.streak]
          /\ d'.recent = s /\ d'.names = d.names /\ d'.streak = d.streak
          /\ d'.repeats = IF r THEN d.repeats + 1 ELSE 0
      BY <2>2 DEF LoopsInv, LoopsTypes
    <2>4. turns' \in Seq(TurnsTaken)
      BY <1>0, <2>1, <2>2, TurnAppended
    <2>5. /\ stopped' = Loops!StopsTextual(d')
          /\ warned' = (warned \/ (Loops!WarnsTextual(d') /\ ~stopped'))
      BY <1>2 DEF Loops!TextualTurn
    <2>6. LoopsTypes'
      BY <1>0, <2>3, <2>4, <2>5 DEF LoopsTypes, Loops!StopsTextual
    <2>7. \/ d'.repeats = 0 /\ s # d.recent
          \/ /\ d'.repeats = d.repeats + 1 /\ d.recent # <<>>
             /\ Loops!NamesIn(s) = Loops!NamesIn(d.recent)
      BY <2>1, <2>3, SignatureIsSomething
    <2>8. RepeatsCount'
      BY <2>1, <2>2, <2>3, <2>7, RepeatsStep DEF LoopsInv
    <2>9. StreakCounts'
      BY <2>1, <2>2, <2>3, StreakStays DEF LoopsInv
    <2>10. CountsStop'
      <3>1. /\ d'.repeats \in Nat /\ d'.repeats <= d.repeats + 1
            /\ d'.streak = d.streak
        BY <1>0, <2>3
      <3>2. /\ d.repeats < kRepeatBreakThreshold /\ d.streak < kSameToolBreakThreshold
        BY <1>0, <2>2, LoopsAssumption DEF LoopsInv, CountsStop
      <3>3. stopped' => warned
        BY <1>0, <2>5, <3>1, <3>2, LoopsAssumption DEF LoopsInv, CountsStop, Loops!StopsTextual
      <3>4. d.streak >= kSameToolWarnThreshold => warned
        BY DEF LoopsInv, CountsStop
      <3>5. stopped' <=> d'.repeats >= kRepeatBreakThreshold
        BY <2>5 DEF Loops!StopsTextual
      <3>6. d'.repeats >= kRepeatWarnThreshold => warned'
        BY <2>5, <3>3 DEF Loops!WarnsTextual
      <3>7. d'.streak < kSameToolBreakThreshold
        BY <3>1, <3>2
      <3>8. d'.streak >= kSameToolWarnThreshold => warned'
        BY <2>5, <3>1, <3>4
      <3> QED BY <3>1, <3>5, <3>6, <3>7, <3>8, LoopsAssumption, <1>0 DEF CountsStop
    <2> QED BY <2>6, <2>8, <2>9, <2>10 DEF LoopsInv
  <1>3. CASE UNCHANGED Loops!vars
    BY <1>3 DEF Loops!vars, LoopsInv, LoopsTypes, RepeatsCount, StreakCounts, CountsStop,
       Loops!NativesFrom
  <1> QED BY <1>1, <1>2, <1>3 DEF Loops!Next, Loops!Ended

LEMMA LoopsMeans ==
    ASSUME LoopsInv
    PROVE  Loops!OnlyRunawaysAreStopped
  <1> DEFINE n == Len(turns)
             k == kRepeatBreakThreshold
             d == detector
             last == Loops!LastTurns(k + 1)
  <1>1. /\ n \in Nat /\ k \in Nat /\ turns \in Seq(TurnsTaken) /\ DOMAIN turns = 1..n
        /\ d.repeats \in Nat /\ d.streak \in Nat
    BY LoopsAssumption DEF LoopsInv, LoopsTypes
  <1>2. ASSUME n > k
        PROVE  /\ DOMAIN last = 1..(k + 1)
               /\ \A i \in 1..(k + 1) : last[i] = turns[n - k - 1 + i]
    <2>1. last = SubSeq(turns, n - k, n)
      BY <1>1 DEF Loops!LastTurns
    <2>2. n - k \in 1..(n + 1) /\ n - (n - k) + 1 = k + 1 /\ n - k <= n
          /\ \A i \in (n - k)..n : turns[i] \in TurnsTaken
      BY <1>1, <1>2
    <2>3. last \in Seq(TurnsTaken) /\ Len(last) = k + 1
          /\ \A i \in 1..(k + 1) : last[i] = turns[(n - k) + i - 1]
      <3> HIDE DEF n, k, last
      <3> QED BY <1>1, <2>1, <2>2, SubSeqProperties
    <2>4. DOMAIN last = 1..(k + 1)
      <3> HIDE DEF n, k, last
      <3> QED BY <2>3
    <2>5. \A i \in 1..(k + 1) : (n - k) + i - 1 = n - k - 1 + i
      <3> HIDE DEF n, k
      <3> QED BY <1>1
    <2> QED BY <2>3, <2>4, <2>5
  <1>3. ASSUME d.repeats >= k
        PROVE  n > k /\ Loops!SameNames(last)
    <2>1. n > 0 /\ n > k
      BY <1>1, <1>3, LoopsAssumption DEF LoopsInv, RepeatsCount
    <2>2. \A i \in 1..(k + 1) :
             Loops!NamesIn(turns[n - k - 1 + i].signature) = Loops!NamesIn(d.recent)
      <3> TAKE i \in 1..(k + 1)
      <3>1. n - k - 1 + i \in (n - d.repeats)..n
        BY <1>1, <1>3, <2>1
      <3> QED BY <2>1, <3>1 DEF LoopsInv, RepeatsCount
    <2> QED BY <1>2, <2>1, <2>2 DEF Loops!SameNames
  <1>4. ASSUME d.streak >= kSameToolBreakThreshold
        PROVE  Loops!Repeats
    <2>1. d.names # <<>>
      BY <1>4, LoopsAssumption DEF LoopsInv, StreakCounts
    <2>2. PICK i \in DOMAIN turns :
             /\ Cardinality(Loops!NativesFrom(i)) > d.streak
             /\ \A j \in Loops!NativesFrom(i) : Loops!NamesIn(turns[j].signature) = d.names
      BY <2>1 DEF LoopsInv, StreakCounts
    <2>3. Loops!NativesFrom(i) \subseteq i..n /\ i \in Nat
      BY <1>1 DEF Loops!NativesFrom
    <2>4. Cardinality(Loops!NativesFrom(i)) \in Nat
      <3>1. IsFiniteSet(i..n)
        BY <1>1, <2>3, FS_Interval
      <3>2. IsFiniteSet(Loops!NativesFrom(i))
        BY <2>3, <3>1, FS_Subset
      <3> QED BY <3>2, FS_CardinalityType
    <2>5. Loops!Cardinality(Loops!NativesFrom(i)) > kSameToolBreakThreshold
      BY <1>1, <1>4, <2>2, <2>4, LoopsCount, LoopsAssumption
    <2>6. Loops!SameNames([j \in Loops!NativesFrom(i) |-> turns[j]])
      BY <2>2 DEF Loops!SameNames
    <2> QED BY <2>5, <2>6 DEF Loops!Repeats
  <1>5. stopped => Loops!Repeats /\ warned
    BY <1>1, <1>3, <1>4, LoopsAssumption DEF LoopsInv, CountsStop, Loops!Repeats
  <1>6. ASSUME Loops!RunsAway
        PROVE  stopped
    <2>1. n > k /\ Loops!SameCalls(last)
      BY <1>6 DEF Loops!RunsAway
    <2>2. \A i \in (n - k)..n : turns[i].signature = turns[n].signature
      <3> TAKE i \in (n - k)..n
      <3>1. /\ i - n + k + 1 \in 1..(k + 1) /\ k + 1 \in 1..(k + 1)
            /\ n - k - 1 + (i - n + k + 1) = i /\ n - k - 1 + (k + 1) = n
        BY <1>1, <2>1
      <3>2. last[i - n + k + 1] = turns[i] /\ last[k + 1] = turns[n]
        BY <1>2, <2>1, <3>1
      <3>3. last[i - n + k + 1].signature = last[k + 1].signature
        BY <1>2, <2>1, <3>1 DEF Loops!SameCalls
      <3> QED BY <3>2, <3>3
    <2>3. d.recent = turns[n].signature
      BY <1>1, <2>1 DEF LoopsInv, RepeatsCount
    <2>4. d.repeats >= k
      BY <1>1, <2>1, <2>2, <2>3 DEF LoopsInv, RepeatsCount
    <2> QED BY <2>4 DEF LoopsInv, CountsStop
  <1> QED BY <1>5, <1>6 DEF Loops!OnlyRunawaysAreStopped

\* The loop of submitMessage is broken out of only when the model did repeat
\* itself and was warned of it, and always when it makes the very same calls
\* over and over.
THEOREM OnlyRunawaysStop == Loops!Spec => []OnlyRunawaysAreStopped
  <1>1. LoopsInv => OnlyRunawaysAreStopped
    BY LoopsMeans DEF OnlyRunawaysAreStopped
  <1> QED BY <1>1, LoopsInitially, LoopsSteps, PTL DEF Loops!Spec

-----------------------------------------------------------------------------
(* The memories of a project and their index (MemoryFiles).                *)

Lines == [name : Names, version : Int]

\* The types that the arguments below use.
MemoryTypes ==
    /\ memoriesFiles \in [Names -> Int] /\ version \in Nat
    /\ index \in Seq(Lines) /\ latest \subseteq Lines /\ damaged \subseteq Names
    /\ unindexed \subseteq [line : Lines, whole : BOOLEAN]

\* The latest memory is in its file; and while a save has not reached the index its
\* name is damaged, its file has what it saved, and nothing later is the latest.
MemoryInv ==
    /\ MemoryTypes /\ Memories!IndexDescribesFiles
    /\ \A line \in latest :
         memoriesFiles[line.name] = line.version /\ line.version # Memories!Missing
    /\ \A s \in unindexed : s.line.version # Memories!Missing =>
         /\ s.line.name \in damaged /\ latest \subseteq {s.line}
         /\ s.whole => memoriesFiles[s.line.name] = s.line.version

LEMMA MemoryCounts == \A S : Memories!Cardinality(S) = Cardinality(S)
  BY DEF Memories!Cardinality, Cardinality

\* SetToSeq lists a finite set.
LEMMA SetIsListed ==
    ASSUME NEW S, IsFiniteSet(S)
    PROVE  /\ Cardinality(S) \in Nat
           /\ Memories!SetToSeq(S) \in [1..Cardinality(S) -> S]
           /\ \A x \in S : \E i \in 1..Cardinality(S) : Memories!SetToSeq(S)[i] = x
  <1> DEFINE n == Cardinality(S)
             f == Memories!SetToSeq(S)
             One(g) == \A i, j \in DOMAIN g : g[i] = g[j] => i = j
  <1>1. n \in Nat /\ ExistsBijection(1..n, S)
    BY FS_CardinalityType
  <1>2. \E g \in [1..n -> S] : One(g)
    <2>1. PICK g : g \in Bijection(1..n, S)
      BY <1>1 DEF ExistsBijection
    <2>2. g \in [1..n -> S] /\ \A i, j \in 1..n : g[i] = g[j] => i = j
      BY <2>1 DEF Bijection, Injection, IsInjective
    <2> QED BY <2>2
  <1>3. f = CHOOSE g \in [1..n -> S] : One(g)
    BY MemoryCounts DEF Memories!SetToSeq, Memories!IsInjective
  <1>4. f \in [1..n -> S] /\ One(f)
    <2> HIDE DEF f, One
    <2> QED BY <1>2, <1>3
  <1>5. f \in Injection(1..n, S)
    <2> HIDE DEF f
    <2> QED BY <1>4 DEF Injection, IsInjective
  <1>6. Cardinality(1..n) = n
    BY <1>1, FS_Interval
  <1>7. f \in Surjection(1..n, S)
    <2> HIDE DEF f
    <2> QED BY <1>5, <1>6, FS_Injection
  <1>8. \A x \in S : \E i \in 1..n : f[i] = x
    <2> HIDE DEF f
    <2> QED BY <1>7 DEF Surjection
  <1> QED BY <1>1, <1>4, <1>8

\* An entry takes the place of every line that mentions it, and has one.
Updates(new, given, entry) ==
    /\ new \in Seq(Lines)
    /\ \E i \in DOMAIN new : new[i] = entry
    /\ \A i \in DOMAIN new :
         \/ new[i] = entry
         \/ i \in DOMAIN given /\ new[i] = given[i] /\ given[i].name # entry.name
LEMMA IndexIsUpdated ==
    ASSUME NEW given \in Seq(Lines), NEW entry \in Lines,
           NEW new, new = Memories!UpdateIndex(given, entry)
    PROVE  Updates(new, given, entry)
  <1>1. CASE \E i \in DOMAIN given : Memories!Mentions(given[i], entry.name)
    <2>1. new = [i \in DOMAIN given |-> IF Memories!Mentions(given[i], entry.name)
                                        THEN entry ELSE given[i]]
      BY <1>1 DEF Memories!UpdateIndex
    <2>2. \A i \in DOMAIN given : given[i] \in Lines
      OBVIOUS
    <2>3. new \in Seq(Lines) /\ DOMAIN new = DOMAIN given
      <3>1. DOMAIN given = 1..Len(given) /\ Len(given) \in Nat
        OBVIOUS
      <3>2. new = [i \in 1..Len(given) |-> IF Memories!Mentions(given[i], entry.name)
                                           THEN entry ELSE given[i]]
        BY <2>1, <3>1
      <3>3. \A i \in 1..Len(given) : new[i] \in Lines
        BY <2>2, <3>1, <3>2
      <3> QED BY <3>1, <3>2, <3>3, IsASeq
    <2>4. \A i \in DOMAIN given :
             \/ new[i] = entry
             \/ new[i] = given[i] /\ ~Memories!Mentions(given[i], entry.name)
      BY <2>1
    <2>5. \E i \in DOMAIN new : new[i] = entry
      BY <1>1, <2>1
    <2> QED BY <2>3, <2>4, <2>5 DEF Memories!Mentions, Updates
  <1>2. CASE ~\E i \in DOMAIN given : Memories!Mentions(given[i], entry.name)
    <2>1. new = Append(given, entry)
      BY <1>2 DEF Memories!UpdateIndex
    <2>2. /\ new \in Seq(Lines) /\ DOMAIN given = 1..Len(given)
          /\ DOMAIN new = 1..(Len(given) + 1) /\ Len(given) \in Nat
          /\ new[Len(given) + 1] = entry
          /\ \A i \in 1..Len(given) : new[i] = given[i]
      BY <2>1, AppendProperties
    <2>3. \A i \in DOMAIN given : given[i].name # entry.name
      BY <1>2 DEF Memories!Mentions
    <2>4. \A i \in DOMAIN new : i = Len(given) + 1 \/ i \in DOMAIN given
      BY <2>2
    <2>5. Len(given) + 1 \in DOMAIN new
      BY <2>2
    <2> QED BY <2>2, <2>3, <2>4, <2>5 DEF Updates
  <1> QED BY <1>1, <1>2

\* What is read back has one line for each file there is.
LEMMA FilesAreLoaded ==
    ASSUME NEW dir \in [Names -> Int], NEW new, new = Memories!LoadAll(dir)
    PROVE  /\ new \in Seq(Lines)
           /\ \A i \in DOMAIN new :
                dir[new[i].name] = new[i].version /\ new[i].version # Memories!Missing
           /\ \A n \in Names : dir[n] # Memories!Missing => \E i \in DOMAIN new : new[i].name = n
  <1> DEFINE S == {n \in Names : dir[n] # Memories!Missing}
             order == Memories!SetToSeq(S)
  <1>1. /\ Cardinality(S) \in Nat /\ order \in [1..Cardinality(S) -> S]
        /\ \A x \in S : \E i \in 1..Cardinality(S) : order[i] = x
    <2>1. IsFiniteSet(S)
      BY MemoriesAssumption, FS_Subset
    <2> HIDE DEF S
    <2> QED BY <2>1, SetIsListed
  <1>2. new = [i \in 1..Cardinality(S) |-> [name |-> order[i], version |-> dir[order[i]]]]
    BY MemoryCounts DEF Memories!LoadAll, Memories!LoadMemoryFile, Memories!Line
  <1>3. \A n \in S : n \in Names /\ dir[n] # Memories!Missing
    OBVIOUS
  <1>4. \A n \in Names : dir[n] # Memories!Missing => n \in S
    OBVIOUS
  <1> DEFINE c == Cardinality(S)
  <1>5. \A i \in 1..c : /\ new[i] \in Lines /\ new[i].name = order[i] /\ order[i] \in S
                        /\ new[i].version = dir[order[i]]
    <2> HIDE DEF S, order
    <2> QED BY <1>1, <1>2, <1>3 DEF Lines
  <1>6. new \in Seq(Lines) /\ DOMAIN new = 1..c
    <2> HIDE DEF S, order
    <2> QED BY <1>1, <1>2, <1>5, IsASeq
  <1> HIDE DEF S, order
  <1>7. \A i \in DOMAIN new : dir[new[i].name] = new[i].version /\ new[i].version # Memories!Missing
    <2> TAKE i \in DOMAIN new
    <2>1. new[i].name = order[i] /\ order[i] \in S /\ new[i].version = dir[order[i]]
      BY <1>5, <1>6
    <2> QED BY <1>3, <2>1
  <1>8. ASSUME NEW n \in Names, dir[n] # Memories!Missing
        PROVE  \E i \in DOMAIN new : new[i].name = n
    <2>1. n \in S
      BY <1>4, <1>8
    <2>2. PICK i \in 1..c : order[i] = n
      BY <1>1, <2>1
    <2>3. new[i].name = n /\ i \in DOMAIN new
      BY <1>5, <1>6, <2>2
    <2> QED BY <2>3
  <1> QED BY <1>6, <1>7, <1>8

\* What is written of some lines is where it was.
LEMMA IndexIsWritten ==
    ASSUME NEW lines \in Seq(Lines), NEW n \in 0..Len(lines), NEW new,
           new = Memories!Written(lines, n)
    PROVE  new \in Seq(Lines) /\ DOMAIN new = 1..n /\ \A i \in 1..n : new[i] = lines[i]
  <1>1. Len(lines) \in Nat /\ n \in Nat /\ \A i \in 1..n : lines[i] \in Lines
    OBVIOUS
  <1>2. PICK q : q = SubSeq(lines, 1, n)
    OBVIOUS
  <1>3. new = q
    BY <1>2 DEF Memories!Written
  <1>4. q \in Seq(Lines)
    BY <1>1, <1>2, SubSeqProperties
  <1>5. Len(q) = IF 1 <= n THEN n - 1 + 1 ELSE 0
    BY <1>1, <1>2, SubSeqProperties
  <1>6. \A i \in 1..(n - 1 + 1) : q[i] = lines[1 + i - 1]
    BY <1>1, <1>2, SubSeqProperties
  <1>7. Len(q) = n
    BY <1>1, <1>5
  <1>8. DOMAIN q = 1..Len(q)
    BY <1>4
  <1>9. \A i \in 1..n : i \in 1..(n - 1 + 1) /\ 1 + i - 1 = i
    BY <1>1
  <1>10. \A i \in 1..n : q[i] = lines[i]
    BY <1>6, <1>9
  <1> QED BY <1>3, <1>4, <1>7, <1>8, <1>10

LEMMA MemoryInitially == Memories!Init => MemoryInv
  <1> SUFFICES ASSUME Memories!Init PROVE MemoryInv
    OBVIOUS
  <1>1. index = <<>> /\ latest = {} /\ unindexed = {} /\ damaged = {}
    BY DEF Memories!Init
  <1>2. MemoryTypes
    BY <1>1 DEF Memories!Init, Memories!Missing, MemoryTypes
  <1>3. DOMAIN index = {}
    BY <1>1
  <1>4. Memories!IndexDescribesFiles
    BY <1>1, <1>3 DEF Memories!IndexDescribesFiles
  <1> QED BY <1>1, <1>2, <1>4 DEF MemoryInv

\* A save and a removal damage one name, and leave the lines of the others true.
LEMMA MemoryChanged ==
    ASSUME MemoryInv, NEW name \in Names, NEW number \in Int,
           memoriesFiles' = [memoriesFiles EXCEPT ![name] = number],
           index' = index, damaged' = damaged \cup {name}, version' \in Nat,
           unindexed' \subseteq [line : Lines, whole : BOOLEAN], latest' \subseteq Lines,
           \A line \in latest' : line.name = name \/ line \in latest
    PROVE  MemoryTypes' /\ Memories!IndexDescribesFiles'
  <1>1. MemoryTypes /\ Memories!IndexDescribesFiles
    BY DEF MemoryInv
  <1>2. MemoryTypes'
    BY <1>1 DEF MemoryTypes
  <1>3. ASSUME NEW i \in DOMAIN index', index'[i].name \notin damaged'
        PROVE  /\ memoriesFiles'[index'[i].name] = index'[i].version
               /\ index'[i].version # Memories!Missing
    <2>1. i \in DOMAIN index /\ index'[i] = index[i] /\ index[i].name \notin damaged
          /\ index[i].name # name
      BY <1>3
    <2>2. index[i].name \in Names
      <3>1. index[i] \in Lines
        BY <1>1, <2>1 DEF MemoryTypes
      <3> QED BY <3>1 DEF Lines
    <2>3. memoriesFiles'[index[i].name] = memoriesFiles[index[i].name]
      BY <1>1, <2>1, <2>2 DEF MemoryTypes
    <2> QED BY <1>1, <2>1, <2>3 DEF Memories!IndexDescribesFiles
  <1>4. ASSUME NEW line \in latest', line.name \notin damaged'
        PROVE  \E i \in DOMAIN index' : index'[i] = line
    BY <1>1, <1>4 DEF Memories!IndexDescribesFiles
  <1>5. Memories!IndexDescribesFiles'
    BY <1>3, <1>4 DEF Memories!IndexDescribesFiles, Memories!Missing
  <1> QED BY <1>2, <1>5

LEMMA MemorySaved ==
    ASSUME MemoryInv, NEW name \in Names, NEW whole \in BOOLEAN, Memories!SaveMemory(name, whole)
    PROVE  MemoryInv'
  <1>1. PICK entry : entry = Memories!Line(name, version + 1)
    OBVIOUS
  <1>2. PICK number : number = IF whole THEN version + 1 ELSE -(version + 1)
    OBVIOUS
  <1>3. /\ version' = version + 1 /\ latest' = IF whole THEN {entry} ELSE {}
        /\ memoriesFiles' = [memoriesFiles EXCEPT ![name] = number]
        /\ unindexed' = {[line |-> entry, whole |-> whole]}
        /\ damaged' = damaged \cup {name} /\ index' = index
    BY <1>1, <1>2 DEF Memories!SaveMemory
  <1>4. MemoryTypes /\ version \in Nat
    BY DEF MemoryInv, MemoryTypes
  <1>5. /\ entry \in Lines /\ entry.name = name /\ entry.version = version + 1
        /\ number \in Int
        /\ whole => number = entry.version
    BY <1>1, <1>2, <1>4 DEF Memories!Line, Lines
  <1>6. version' \in Nat /\ version' # Memories!Missing /\ entry.version = version'
    BY <1>3, <1>4, <1>5 DEF Memories!Missing
  <1>7. latest' \subseteq {entry} /\ (latest' # {} => whole)
    <2>1. CASE whole
      BY <1>3, <2>1
    <2>2. CASE ~whole
      BY <1>3, <2>2
    <2> QED BY <2>1, <2>2
  <1>8. unindexed' \subseteq [line : Lines, whole : BOOLEAN]
    BY <1>3, <1>5
  <1>9. latest' \subseteq Lines /\ \A line \in latest' : line.name = name
    BY <1>5, <1>7
  <1>10. MemoryTypes' /\ Memories!IndexDescribesFiles'
    BY <1>3, <1>5, <1>6, <1>8, <1>9, MemoryChanged
  <1>11. memoriesFiles'[name] = number
    <2>1. memoriesFiles \in [Names -> Int]
      BY <1>4 DEF MemoryTypes
    <2>2. memoriesFiles' = [memoriesFiles EXCEPT ![name] = number]
      BY <1>3
    <2> QED BY ONLY <2>1, <2>2, name \in Names
  <1>a. entry.name = name /\ entry.version # Memories!Missing
    BY <1>5, <1>6
  <1>b. whole => memoriesFiles'[name] = entry.version
    BY <1>5, <1>11, Zenon
  <1>12. \A line \in latest' : memoriesFiles'[line.name] = line.version
                               /\ line.version # Memories!Missing
    <2> TAKE line \in latest'
    <2>1. line = entry /\ whole
      BY <1>7
    <2> QED BY <1>a, <1>b, <2>1, Zenon
  <1>13. \A s \in unindexed' : s.line.name \in damaged' /\ latest' \subseteq {s.line}
                               /\ (s.whole => memoriesFiles'[s.line.name] = s.line.version)
    <2> TAKE s \in unindexed'
    <2>1. s.line = entry /\ s.whole = whole
      BY <1>3
    <2>2. name \in damaged'
      BY <1>3
    <2> QED BY <1>7, <1>a, <1>b, <2>1, <2>2, Zenon
  <1> QED BY <1>10, <1>12, <1>13 DEF MemoryInv, Memories!Missing

LEMMA MemoryDeleted ==
    ASSUME MemoryInv, NEW name \in Names, Memories!Delete(name)
    PROVE  MemoryInv'
  <1>1. PICK entry : entry = Memories!Line(name, Memories!Missing)
    OBVIOUS
  <1>2. /\ memoriesFiles' = [memoriesFiles EXCEPT ![name] = Memories!Missing]
        /\ latest' = {line \in latest : line.name # name}
        /\ unindexed' = {[line |-> entry, whole |-> TRUE]}
        /\ damaged' = damaged \cup {name} /\ index' = index /\ version' = version
    BY <1>1 DEF Memories!Delete
  <1>3. MemoryTypes /\ version \in Nat /\ latest \subseteq Lines
    BY DEF MemoryInv, MemoryTypes
  <1>4. entry \in Lines /\ entry.version = Memories!Missing /\ Memories!Missing \in Int
    BY <1>1 DEF Memories!Line, Lines, Memories!Missing
  <1>5. unindexed' \subseteq [line : Lines, whole : BOOLEAN]
    BY <1>2, <1>4
  <1>6. MemoryTypes' /\ Memories!IndexDescribesFiles'
    BY <1>2, <1>3, <1>4, <1>5, MemoryChanged
  <1>7. ASSUME NEW line \in latest'
        PROVE  memoriesFiles'[line.name] = line.version /\ line.version # Memories!Missing
    <2>1. line \in latest /\ line.name # name /\ line \in Lines
      BY <1>2, <1>3
    <2>2. memoriesFiles[line.name] = line.version /\ line.version # Memories!Missing
      BY <2>1 DEF MemoryInv
    <2>3. memoriesFiles'[line.name] = memoriesFiles[line.name]
      BY <1>2, <1>3, <2>1 DEF MemoryTypes, Lines
    <2> QED BY <2>2, <2>3
  <1>8. \A s \in unindexed' : s.line.version = Memories!Missing
    BY <1>2, <1>4
  <1> QED BY <1>6, <1>7, <1>8 DEF MemoryInv, Memories!Missing

LEMMA MemoryIndexed ==
    ASSUME MemoryInv, Memories!UpdateTheIndex
    PROVE  MemoryInv'
  <1>1. PICK s \in unindexed :
          /\ s.line.version # Memories!Missing /\ unindexed' = {}
          /\ \/ index' = index /\ damaged' = damaged
             \/ \E given \in {index, <<>>} :
                  \E n \in 0..Len(Memories!UpdateIndex(given, s.line)) :
                    /\ index' = Memories!Written(Memories!UpdateIndex(given, s.line), n)
                    /\ damaged' = IF n = Len(Memories!UpdateIndex(given, s.line)) /\ s.whole
                                  THEN damaged \ {s.line.name} ELSE damaged
    BY DEF Memories!UpdateTheIndex
  <1>2. memoriesFiles' = memoriesFiles /\ version' = version /\ latest' = latest
    BY DEF Memories!UpdateTheIndex
  <1>3. MemoryTypes /\ Memories!IndexDescribesFiles
    BY DEF MemoryInv
  <1>4. /\ s.line \in Lines /\ s.whole \in BOOLEAN /\ s.line.name \in damaged
        /\ latest \subseteq {s.line}
        /\ s.whole => memoriesFiles[s.line.name] = s.line.version
    BY <1>1, <1>3 DEF MemoryInv, MemoryTypes
  <1>5. \A line \in latest' : memoriesFiles'[line.name] = line.version
                              /\ line.version # Memories!Missing
    BY <1>2 DEF MemoryInv
  <1>6. CASE index' = index /\ damaged' = damaged
    <2>1. MemoryTypes'
      BY <1>1, <1>2, <1>3, <1>6 DEF MemoryTypes
    <2>2. Memories!IndexDescribesFiles'
      BY <1>2, <1>3, <1>6 DEF Memories!IndexDescribesFiles, Memories!Missing
    <2> QED BY <1>1, <1>5, <2>1, <2>2 DEF MemoryInv, Memories!Missing
  <1>7. ASSUME NEW given \in {index, <<>>},
               NEW n \in 0..Len(Memories!UpdateIndex(given, s.line)),
               index' = Memories!Written(Memories!UpdateIndex(given, s.line), n),
               damaged' = IF n = Len(Memories!UpdateIndex(given, s.line)) /\ s.whole
                          THEN damaged \ {s.line.name} ELSE damaged
        PROVE  MemoryInv'
    <2>1. PICK entry \in Lines : entry = s.line
      BY <1>4
    <2>2. PICK lines : lines = Memories!UpdateIndex(given, entry)
      OBVIOUS
    <2>3. given \in Seq(Lines) /\ \A i \in DOMAIN given : i \in DOMAIN index /\ given[i] = index[i]
      <3>1. index \in Seq(Lines) /\ <<>> \in Seq(Lines) /\ DOMAIN <<>> = {}
        BY <1>3 DEF MemoryTypes
      <3> QED BY <3>1
    <2>4. /\ lines \in Seq(Lines)
          /\ \E i \in DOMAIN lines : lines[i] = entry
          /\ \A i \in DOMAIN lines :
               \/ lines[i] = entry
               \/ i \in DOMAIN given /\ lines[i] = given[i] /\ given[i].name # entry.name
      <3>1. given \in Seq(Lines) /\ entry \in Lines
        BY <2>1, <2>3
      <3>2. Updates(lines, given, entry)
        BY <2>2, <3>1, IndexIsUpdated
      <3> QED BY <3>2 DEF Updates
    <2>5. n \in 0..Len(lines) /\ index' = Memories!Written(lines, n)
          /\ damaged' = IF n = Len(lines) /\ s.whole THEN damaged \ {entry.name} ELSE damaged
      BY <1>7, <2>1, <2>2
    <2>6. index' \in Seq(Lines) /\ DOMAIN index' = 1..n /\ \A i \in 1..n : index'[i] = lines[i]
      BY <2>4, <2>5, IndexIsWritten
    <2>7. DOMAIN lines = 1..Len(lines) /\ Len(lines) \in Nat /\ 1..n \subseteq DOMAIN lines
      BY <2>4, <2>5
    <2>8. entry.name \notin damaged' => n = Len(lines) /\ s.whole
      BY <1>4, <2>1, <2>5
    <2>9. ASSUME NEW i \in DOMAIN index', index'[i].name \notin damaged'
          PROVE  /\ memoriesFiles'[index'[i].name] = index'[i].version
                 /\ index'[i].version # Memories!Missing
      <3>1. index'[i] = lines[i] /\ i \in DOMAIN lines
        BY <2>6, <2>7
      <3>2. CASE lines[i] = entry
        BY <1>1, <1>2, <1>4, <2>1, <2>8, <2>9, <3>1, <3>2
      <3>3. CASE i \in DOMAIN given /\ lines[i] = given[i] /\ given[i].name # entry.name
        <4>1. i \in DOMAIN index /\ index'[i] = index[i] /\ index[i].name # entry.name
          BY <2>3, <3>1, <3>3
        <4>2. index[i].name \notin damaged
          BY <2>5, <2>9, <4>1
        <4> QED BY <1>2, <1>3, <4>1, <4>2 DEF Memories!IndexDescribesFiles
      <3> QED BY <2>4, <3>1, <3>2, <3>3
    <2>10. ASSUME NEW line \in latest', line.name \notin damaged'
           PROVE  \E i \in DOMAIN index' : index'[i] = line
      <3>1. line = entry
        BY <1>2, <1>4, <2>1
      <3>2. n = Len(lines)
        BY <2>8, <2>10, <3>1
      <3> QED BY <2>4, <2>6, <2>7, <3>1, <3>2
    <2>11. Memories!IndexDescribesFiles'
      BY <2>9, <2>10 DEF Memories!IndexDescribesFiles, Memories!Missing
    <2>12. damaged' \subseteq Names
      BY <1>3, <2>5 DEF MemoryTypes
    <2>13. MemoryTypes'
      BY <1>1, <1>2, <1>3, <2>6, <2>12 DEF MemoryTypes
    <2> QED BY <1>1, <1>5, <2>11, <2>13 DEF MemoryInv, Memories!Missing
  <1> QED BY <1>1, <1>6, <1>7

LEMMA MemoryRebuilt ==
    ASSUME MemoryInv, Memories!RebuildIndex
    PROVE  MemoryInv'
  <1>1. PICK lines : lines = Memories!LoadAll(memoriesFiles)
    OBVIOUS
  <1>2. /\ unindexed' = {}
        /\ \/ index' = index /\ damaged' = damaged
           \/ \E n \in 0..Len(lines) :
                /\ index' = Memories!Written(lines, n)
                /\ damaged' = {lines[i].name : i \in (n + 1)..Len(lines)}
    BY <1>1 DEF Memories!RebuildIndex
  <1>3. memoriesFiles' = memoriesFiles /\ version' = version /\ latest' = latest
    BY DEF Memories!RebuildIndex
  <1>4. MemoryTypes /\ Memories!IndexDescribesFiles
    BY DEF MemoryInv
  <1>5. \A line \in latest : memoriesFiles[line.name] = line.version
                             /\ line.version # Memories!Missing
    BY DEF MemoryInv
  <1>6. CASE index' = index /\ damaged' = damaged
    <2>1. MemoryTypes'
      BY <1>2, <1>3, <1>4, <1>6 DEF MemoryTypes
    <2>2. Memories!IndexDescribesFiles'
      BY <1>3, <1>4, <1>6 DEF Memories!IndexDescribesFiles, Memories!Missing
    <2> QED BY <1>2, <1>3, <1>5, <2>1, <2>2 DEF MemoryInv, Memories!Missing
  <1>7. ASSUME NEW n \in 0..Len(lines), index' = Memories!Written(lines, n),
               damaged' = {lines[i].name : i \in (n + 1)..Len(lines)}
        PROVE  MemoryInv'
    <2>1. /\ lines \in Seq(Lines)
          /\ \A i \in DOMAIN lines : /\ memoriesFiles[lines[i].name] = lines[i].version
                                     /\ lines[i].version # Memories!Missing
          /\ \A m \in Names : memoriesFiles[m] # Memories!Missing =>
               \E i \in DOMAIN lines : lines[i].name = m
      <3>1. memoriesFiles \in [Names -> Int]
        BY <1>4 DEF MemoryTypes
      <3> QED BY <1>1, <3>1, FilesAreLoaded
    <2>2. index' \in Seq(Lines) /\ DOMAIN index' = 1..n /\ \A i \in 1..n : index'[i] = lines[i]
      BY <1>7, <2>1, IndexIsWritten
    <2>3. DOMAIN lines = 1..Len(lines) /\ Len(lines) \in Nat /\ 1..n \subseteq DOMAIN lines
          /\ \A i \in DOMAIN lines : lines[i] \in Lines
      BY <2>1
    <2>4. \A i \in DOMAIN index' : /\ memoriesFiles'[index'[i].name] = index'[i].version
                                   /\ index'[i].version # Memories!Missing
      BY <1>3, <2>1, <2>2, <2>3
    <2>5. ASSUME NEW line \in latest', line.name \notin damaged'
          PROVE  \E i \in DOMAIN index' : index'[i] = line
      <3>1. line \in Lines /\ memoriesFiles[line.name] = line.version
            /\ line.version # Memories!Missing
        BY <1>3, <1>4, <1>5 DEF MemoryTypes
      <3>2. line.name \in Names
        BY <3>1 DEF Lines
      <3>3. PICK i \in DOMAIN lines : lines[i].name = line.name
        BY <2>1, <3>1, <3>2
      <3>4. lines[i] = line
        BY <2>1, <2>3, <3>1, <3>3 DEF Lines
      <3>5. i \in 1..n
        BY <1>7, <2>3, <2>5, <3>3
      <3> QED BY <2>2, <3>4, <3>5
    <2>6. Memories!IndexDescribesFiles'
      BY <2>4, <2>5 DEF Memories!IndexDescribesFiles, Memories!Missing
    <2>7. damaged' \subseteq Names
      <3>1. \A i \in (n + 1)..Len(lines) : i \in DOMAIN lines
        BY <2>3
      <3>2. \A i \in DOMAIN lines : lines[i].name \in Names
        BY <2>3 DEF Lines
      <3> QED BY <1>7, <3>1, <3>2
    <2>8. MemoryTypes'
      BY <1>2, <1>3, <1>4, <2>2, <2>7 DEF MemoryTypes
    <2> QED BY <1>2, <1>3, <1>5, <2>6, <2>8 DEF MemoryInv, Memories!Missing
  <1> QED BY <1>2, <1>6, <1>7

LEMMA MemorySteps == MemoryInv /\ [Memories!Next]_(Memories!vars) => MemoryInv'
  <1> SUFFICES ASSUME MemoryInv, [Memories!Next]_(Memories!vars) PROVE MemoryInv'
    OBVIOUS
  <1>1. ASSUME UNCHANGED <<memoriesFiles, index, version, latest, damaged>>,
               unindexed' \subseteq unindexed
        PROVE  MemoryInv'
    <2>1. MemoryTypes'
      BY <1>1 DEF MemoryInv, MemoryTypes
    <2>2. Memories!IndexDescribesFiles'
      BY <1>1 DEF MemoryInv, Memories!IndexDescribesFiles, Memories!Missing
    <2> QED BY <1>1, <2>1, <2>2 DEF MemoryInv, Memories!Missing
  <1>2. CASE Memories!Prompt \/ Memories!Exit \/ Memories!End
    <2>1. UNCHANGED <<memoriesFiles, index, version, latest, damaged>>
          /\ unindexed' \subseteq unindexed
      BY <1>2 DEF Memories!Prompt, Memories!Exit, Memories!End, Memories!directory
    <2> QED BY <1>1, <2>1
  <1>3. CASE \E local \in BOOLEAN : Memories!Start(local)
    BY <1>1, <1>3 DEF Memories!Start, Memories!directory
  <1>4. ASSUME NEW name \in Names, Memories!Delete(name)
        PROVE  MemoryInv'
    BY <1>4, MemoryDeleted
  <1>5. ASSUME NEW name \in Names, NEW whole \in BOOLEAN, Memories!Extract(name, whole)
        PROVE  MemoryInv'
    BY <1>5, MemorySaved DEF Memories!Extract
  <1>6. CASE UNCHANGED Memories!vars
    BY <1>1, <1>6 DEF Memories!vars
  <1> QED BY <1>2, <1>3, <1>4, <1>5, <1>6, MemoryIndexed, MemoryRebuilt DEF Memories!Next

\* Whatever is extracted, overwritten and deleted, with writes that fail and deaths
\* between a file and the index: but for the names that a failure damaged and no later
\* success repaired, each line of MEMORY.md stands for a memory file with what was saved
\* there last, and the latest memory has a line (updateIndex searches the index for the
\* text of the name, rebuildIndex makes it anew).
THEOREM IndexIsTrue == Memories!Spec => []IndexDescribesFiles
  <1>1. MemoryInv => IndexDescribesFiles
    BY DEF MemoryInv, IndexDescribesFiles
  <1> QED BY <1>1, MemoryInitially, MemorySteps, PTL DEF Memories!Spec

-----------------------------------------------------------------------------
(* What a conversation has read of a file (FileTools).                     *)

ReadSteps == {"map", "copy", "unmap", "dedup", "record"}
Copied == {"unmap", "dedup", "record"}
WriteSteps == {"write", "wrote"}
FileRecords == [stamp : Nat, version : Nat]

\* The types that the arguments below use.
ToolTypes ==
    /\ fileToolsVersion \in Nat /\ stamp \in Nat
    /\ state \in [Conversations -> FileRecords \cup {NoRecord}]
    /\ fileToolsPc \in [FileTool!Threads -> {"idle"} \cup ReadSteps \cup WriteSteps]
    /\ moved \in [FileTool!Threads -> BOOLEAN]
    /\ copy = [t \in FileTool!Threads |-> copy[t]]
    /\ seen = [c \in Conversations |-> seen[c]]

\* A write runs beside no other call of its conversation.
WritesAlone(c) ==
    \A t, u \in FileTool!ThreadsOf(c) :
        fileToolsPc[t] \in WriteSteps /\ u # t => fileToolsPc[u] = "idle"

\* A record is of the version last opened, unless the file moved under that call
\* or a write is still to be recorded.
RecordIsOfSeen(c) ==
    /\ state[c] # NoRecord /\ seen[c] # NoRecord
    /\ \A t \in FileTool!ThreadsOf(c) : fileToolsPc[t] # "wrote"
    => seen[c] = state[c].version

\* As long as nobody else changed the file under a thread's call: what a reader has
\* in hand is what the file holds, what it wrote is still there, and a writer that was
\* let through has opened what the file holds or could not be told of a change.
ThreadIsRight(t) ==
    ~moved[t] =>
        /\ fileToolsPc[t] \in Copied => copy[t] = fileToolsVersion
        /\ fileToolsPc[t] = "wrote" => seen[FileTool!Conv(t)] = fileToolsVersion
        /\ fileToolsPc[t] = "write" =>
             \/ FileTool!Hidden(FileTool!Conv(t))
             \/ /\ state[FileTool!Conv(t)] # NoRecord
                /\ seen[FileTool!Conv(t)] \in {NoRecord, fileToolsVersion}

ToolInv ==
    /\ ToolTypes /\ ~blind
    /\ \A c \in Conversations : WritesAlone(c) /\ RecordIsOfSeen(c)
    /\ \A t \in FileTool!Threads : ThreadIsRight(t)

LEMMA ThreadsBelong ==
    /\ \A t \in FileTool!Threads : FileTool!Conv(t) \in Conversations
                                   /\ t \in FileTool!ThreadsOf(FileTool!Conv(t))
    /\ \A c : \A t \in FileTool!ThreadsOf(c) : t \in FileTool!Threads /\ FileTool!Conv(t) = c
  BY DEF FileTool!Threads, FileTool!Conv, FileTool!ThreadsOf

\* No thread of a conversation comes to write beside another call of it.
LEMMA StaysAlone ==
    ASSUME ToolInv, NEW t \in FileTool!Threads, NEW s,
           fileToolsPc' = [fileToolsPc EXCEPT ![t] = s],
           s # "idle" =>
             \/ /\ s \notin WriteSteps
                /\ \A u \in FileTool!ThreadsOf(FileTool!Conv(t)) : fileToolsPc[u] \notin WriteSteps
             \/ \A u \in FileTool!ThreadsOf(FileTool!Conv(t)) : u # t => fileToolsPc[u] = "idle",
           NEW c \in Conversations
    PROVE  WritesAlone(c)'
  <1>c. FileTool!ThreadsOf(c)' = FileTool!ThreadsOf(c)
    BY DEF FileTool!ThreadsOf, FileTool!Threads, FileTool!Conv
  <1> SUFFICES ASSUME NEW x \in FileTool!ThreadsOf(c), NEW u \in FileTool!ThreadsOf(c),
                      fileToolsPc'[x] \in WriteSteps, u # x
               PROVE  fileToolsPc'[u] = "idle"
    BY <1>c DEF WritesAlone
  <1>1. x \in FileTool!Threads /\ u \in FileTool!Threads
        /\ FileTool!Conv(x) = c /\ FileTool!Conv(u) = c
    BY ThreadsBelong
  <1>2. /\ \A y \in FileTool!Threads : y # t => fileToolsPc'[y] = fileToolsPc[y]
        /\ fileToolsPc'[t] = s
    BY DEF ToolInv, ToolTypes
  <1>3. WritesAlone(c)
    BY DEF ToolInv
  <1>4. CASE x # t /\ u # t
    BY <1>1, <1>2, <1>3, <1>4 DEF WritesAlone
  <1>5. CASE x = t
    <2>1. s \in WriteSteps /\ s # "idle"
      BY <1>2, <1>5 DEF WriteSteps
    <2>2. u \in FileTool!ThreadsOf(FileTool!Conv(t))
      BY <1>1, <1>5
    <2> QED BY <1>1, <1>2, <1>5, <2>1, <2>2
  <1>6. CASE u = t /\ x # t
    <2>1. fileToolsPc[x] \in WriteSteps /\ "idle" \notin WriteSteps
      BY <1>1, <1>2, <1>6 DEF WriteSteps
    <2>2. x \in FileTool!ThreadsOf(FileTool!Conv(t))
      BY <1>1, <1>6
    <2> QED BY <1>2, <1>6, <2>1, <2>2
  <1> QED BY <1>4, <1>5, <1>6

\* A step of one thread that leaves the file, the records and what was seen alone.
LEMMA ReadStep ==
    ASSUME ToolInv, NEW t \in FileTool!Threads, NEW s \in {"idle"} \cup ReadSteps,
           fileToolsPc' = [fileToolsPc EXCEPT ![t] = s],
           s # "idle" => \A u \in FileTool!ThreadsOf(FileTool!Conv(t)) :
                           fileToolsPc[u] \notin WriteSteps,
           fileToolsPc[t] # "wrote",
           UNCHANGED <<fileToolsVersion, stamp, state, seen, blind>>,
           NEW b \in BOOLEAN, moved' = [moved EXCEPT ![t] = b],
           NEW v, copy' = [copy EXCEPT ![t] = v],
           s \in Copied => \/ v = fileToolsVersion
                           \/ fileToolsPc[t] \in Copied /\ v = copy[t] /\ b = moved[t]
    PROVE  ToolInv'
  <1>1. ToolTypes'
    BY DEF ToolInv, ToolTypes, FileTool!Threads
  <1>2. s \notin WriteSteps
    BY DEF WriteSteps, ReadSteps
  <1>3. ASSUME NEW c \in Conversations PROVE WritesAlone(c)'
    BY <1>2, StaysAlone
  <1>4. /\ fileToolsPc'[t] = s /\ copy'[t] = v /\ moved'[t] = b
        /\ \A u \in FileTool!Threads : u # t =>
             fileToolsPc'[u] = fileToolsPc[u] /\ copy'[u] = copy[u] /\ moved'[u] = moved[u]
    BY DEF ToolInv, ToolTypes
  <1>5. ASSUME NEW c \in Conversations PROVE RecordIsOfSeen(c)'
    <2>1. RecordIsOfSeen(c)
      BY DEF ToolInv
    <2>2. FileTool!ThreadsOf(c)' = FileTool!ThreadsOf(c)
      BY DEF FileTool!ThreadsOf, FileTool!Threads, FileTool!Conv
    <2>3. ASSUME \A u \in FileTool!ThreadsOf(c) : fileToolsPc'[u] # "wrote"
          PROVE  \A u \in FileTool!ThreadsOf(c) : fileToolsPc[u] # "wrote"
      BY <1>4, <2>3, ThreadsBelong
    <2> QED BY <2>1, <2>2, <2>3 DEF RecordIsOfSeen
  <1>6. ASSUME NEW u \in FileTool!Threads PROVE ThreadIsRight(u)'
    <2>1. ThreadIsRight(u)
      BY DEF ToolInv
    <2>2. FileTool!Hidden(FileTool!Conv(u))' = FileTool!Hidden(FileTool!Conv(u))
          /\ FileTool!Conv(u)' = FileTool!Conv(u)
      BY DEF FileTool!Hidden, FileTool!Conv
    <2>3. CASE u # t
      BY <1>4, <2>1, <2>2, <2>3 DEF ThreadIsRight
    <2>4. CASE u = t
      <3>1. s # "wrote" /\ s # "write"
        BY <1>2 DEF WriteSteps
      <3>2. ASSUME ~b, s \in Copied PROVE v = fileToolsVersion
        BY <2>1, <2>4, <3>2 DEF ThreadIsRight
      <3> QED BY <1>4, <2>4, <3>1, <3>2 DEF ThreadIsRight
    <2> QED BY <2>3, <2>4
  <1>7. ~blind'
    BY DEF ToolInv
  <1> QED BY <1>1, <1>3, <1>5, <1>6, <1>7 DEF ToolInv, FileTool!Threads

\* Beside a reader nobody of its conversation writes.
LEMMA ReadersBeside ==
    ASSUME ToolInv, NEW t \in FileTool!Threads, fileToolsPc[t] \in ReadSteps
    PROVE  \A u \in FileTool!ThreadsOf(FileTool!Conv(t)) : fileToolsPc[u] \notin WriteSteps
  <1>1. WritesAlone(FileTool!Conv(t)) /\ t \in FileTool!ThreadsOf(FileTool!Conv(t))
    BY ThreadsBelong DEF ToolInv
  <1>2. fileToolsPc[t] # "idle" /\ fileToolsPc[t] \notin WriteSteps
    BY DEF ReadSteps, WriteSteps
  <1> QED BY <1>1, <1>2 DEF WritesAlone

\* The time and the content of the file are recorded as the thread ends: what it has in
\* hand or has just written is what the file holds, or the file moved under it.
LEMMA Recorded ==
    ASSUME ToolInv, NEW t \in FileTool!Threads,
           fileToolsPc' = [fileToolsPc EXCEPT ![t] = "idle"],
           state' = [state EXCEPT ![FileTool!Conv(t)] = FileTool!Now],
           \A u \in FileTool!ThreadsOf(FileTool!Conv(t)) : u # t => fileToolsPc[u] \notin WriteSteps,
           UNCHANGED <<fileToolsVersion, stamp, blind>>,
           moved' = [moved EXCEPT ![t] = FALSE],
           NEW w, copy' = [copy EXCEPT ![t] = w],
           NEW v \in {NoRecord, fileToolsVersion}, seen' = [seen EXCEPT ![FileTool!Conv(t)] = v]
    PROVE  ToolInv'
  <1>0. FileTool!Conv(t) \in Conversations
    BY ThreadsBelong
  <1>n. FileTool!Now \in FileRecords /\ FileTool!Now.version = fileToolsVersion
    BY DEF FileTool!Now, FileRecords, ToolInv, ToolTypes
  <1>1. ToolTypes'
    BY <1>0, <1>n DEF ToolInv, ToolTypes, FileTool!Threads
  <1>3. ASSUME NEW c \in Conversations PROVE WritesAlone(c)'
    BY StaysAlone
  <1>4. /\ fileToolsPc'[t] = "idle"
        /\ \A u \in FileTool!Threads : u # t =>
             fileToolsPc'[u] = fileToolsPc[u] /\ copy'[u] = copy[u] /\ moved'[u] = moved[u]
        /\ \A c \in Conversations : c # FileTool!Conv(t) => state'[c] = state[c] /\ seen'[c] = seen[c]
        /\ state'[FileTool!Conv(t)] = FileTool!Now /\ seen'[FileTool!Conv(t)] = v
    BY <1>0 DEF ToolInv, ToolTypes
  <1>5. ASSUME NEW c \in Conversations PROVE RecordIsOfSeen(c)'
    <2>1. CASE c = FileTool!Conv(t)
      BY <1>4, <1>n, <2>1 DEF RecordIsOfSeen
    <2>2. CASE c # FileTool!Conv(t)
      <3>1. RecordIsOfSeen(c)
        BY DEF ToolInv
      <3>2. FileTool!ThreadsOf(c)' = FileTool!ThreadsOf(c)
        BY DEF FileTool!ThreadsOf, FileTool!Threads, FileTool!Conv
      <3>3. \A u \in FileTool!ThreadsOf(c) : fileToolsPc'[u] = fileToolsPc[u]
        BY <1>4, <2>2, ThreadsBelong
      <3> QED BY <1>4, <2>2, <3>1, <3>2, <3>3 DEF RecordIsOfSeen
    <2> QED BY <2>1, <2>2
  <1>6. ASSUME NEW u \in FileTool!Threads PROVE ThreadIsRight(u)'
    <2>1. ThreadIsRight(u) /\ FileTool!Conv(u) \in Conversations
          /\ u \in FileTool!ThreadsOf(FileTool!Conv(u))
      BY ThreadsBelong DEF ToolInv
    <2>c. FileTool!Conv(u)' = FileTool!Conv(u)
      BY DEF FileTool!Conv
    <2>2. CASE u = t
      BY <1>4, <2>2 DEF ThreadIsRight, Copied
    <2>3. CASE u # t /\ FileTool!Conv(u) = FileTool!Conv(t)
      <3>1. fileToolsPc[u] # "write" /\ fileToolsPc[u] # "wrote"
        BY <2>1, <2>3 DEF WriteSteps
      <3> QED BY <1>4, <2>1, <2>3, <3>1 DEF ThreadIsRight
    <2>4. CASE u # t /\ FileTool!Conv(u) # FileTool!Conv(t)
      <3>1. state'[FileTool!Conv(u)] = state[FileTool!Conv(u)]
            /\ seen'[FileTool!Conv(u)] = seen[FileTool!Conv(u)]
        BY <1>4, <2>1, <2>4
      <3>2. FileTool!Hidden(FileTool!Conv(u))' = FileTool!Hidden(FileTool!Conv(u))
        BY <2>c, <3>1 DEF FileTool!Hidden
      <3> QED BY <1>4, <2>1, <2>c, <2>4, <3>1, <3>2 DEF ThreadIsRight
    <2> QED BY <2>2, <2>3, <2>4
  <1>7. ~blind'
    BY DEF ToolInv
  <1> QED BY <1>1, <1>3, <1>5, <1>6, <1>7 DEF ToolInv, FileTool!Threads

\* The checks of a write find the file as the conversation has opened it.
LEMMA WriteBegins ==
    ASSUME ToolInv, NEW t \in FileTool!Threads, FileTool!BeginWrite(t)
    PROVE  ToolInv'
  <1> DEFINE d == FileTool!Conv(t)
  <1>0. d \in Conversations /\ RecordIsOfSeen(d)
    BY ThreadsBelong DEF ToolInv
  <1>a. /\ \A u \in FileTool!ThreadsOf(d) : fileToolsPc[u] = "idle"
        /\ FileTool!MayWrite(d)
        /\ fileToolsPc' = [fileToolsPc EXCEPT ![t] = "write"]
        /\ UNCHANGED <<fileToolsVersion, stamp, state, copy, moved, seen, blind>>
    BY DEF FileTool!BeginWrite, FileTool!Go, FileTool!file, FileTool!ghosts
  <1>1. ToolTypes'
    BY <1>a DEF ToolInv, ToolTypes, WriteSteps, FileTool!Threads
  <1>2. FileTool!Hidden(d) \/ seen[d] \in {NoRecord, fileToolsVersion}
    <2> SUFFICES ASSUME ~FileTool!Hidden(d), seen[d] # NoRecord
                 PROVE  seen[d] = fileToolsVersion
      OBVIOUS
    <2>1. state[d] # NoRecord
          /\ (stamp > state[d].stamp => state[d].version = fileToolsVersion)
      BY <1>a DEF FileTool!MayWrite
    <2>2. seen[d] = state[d].version
      BY <2>1, <1>0, <1>a DEF RecordIsOfSeen
    <2>3. stamp <= state[d].stamp => state[d].version = fileToolsVersion
      BY <2>1 DEF FileTool!Hidden
    <2>4. stamp \in Nat /\ state[d].stamp \in Nat
      BY <2>1, <1>0 DEF ToolInv, ToolTypes, FileRecords
    <2>5. stamp > state[d].stamp \/ stamp <= state[d].stamp
      BY <2>4
    <2> QED BY <2>1, <2>2, <2>3, <2>5
  <1> HIDE DEF d
  <1>3. /\ fileToolsPc'[t] = "write"
        /\ \A u \in FileTool!Threads : u # t => fileToolsPc'[u] = fileToolsPc[u]
    BY <1>a DEF ToolInv, ToolTypes
  <1>4. ASSUME NEW c \in Conversations PROVE WritesAlone(c)'
    BY <1>a, StaysAlone DEF d
  <1>5. ASSUME NEW c \in Conversations PROVE RecordIsOfSeen(c)'
    <2>1. RecordIsOfSeen(c)
      BY DEF ToolInv
    <2>2. FileTool!ThreadsOf(c)' = FileTool!ThreadsOf(c)
      BY DEF FileTool!ThreadsOf, FileTool!Threads, FileTool!Conv
    <2>3. ASSUME \A u \in FileTool!ThreadsOf(c) : fileToolsPc'[u] # "wrote"
          PROVE  \A u \in FileTool!ThreadsOf(c) : fileToolsPc[u] # "wrote"
      BY <1>3, <1>a, <2>3, ThreadsBelong DEF d
    <2> QED BY <1>a, <2>1, <2>2, <2>3 DEF RecordIsOfSeen
  <1>6. ASSUME NEW u \in FileTool!Threads PROVE ThreadIsRight(u)'
    <2>1. ThreadIsRight(u)
      BY DEF ToolInv
    <2>2. FileTool!Hidden(FileTool!Conv(u))' = FileTool!Hidden(FileTool!Conv(u))
          /\ FileTool!Conv(u)' = FileTool!Conv(u)
      BY <1>a DEF FileTool!Hidden, FileTool!Conv
    <2>3. CASE u # t
      BY <1>a, <1>3, <2>1, <2>2, <2>3 DEF ThreadIsRight
    <2>4. CASE u = t
      <3>1. (state[FileTool!Conv(t)] # NoRecord)'
        BY <1>a DEF FileTool!MayWrite, FileTool!Conv, d
      <3> QED BY <1>a, <1>2, <1>3, <2>2, <2>4, <3>1 DEF ThreadIsRight, Copied, d
    <2> QED BY <2>3, <2>4
  <1>7. ~blind'
    BY <1>a DEF ToolInv
  <1> QED BY <1>1, <1>4, <1>5, <1>6, <1>7 DEF ToolInv, FileTool!Threads

\* After a change nothing is claimed of the calls under way that are not the writer's own.
LEMMA ChangedUnder ==
    ASSUME ToolInv, NEW own, FileTool!Change(own), NEW u \in FileTool!Threads, u \notin own,
           fileToolsPc'[u] = fileToolsPc[u]
    PROVE  ThreadIsRight(u)'
  <1>1. moved' = [t \in FileTool!Threads |-> t \notin own /\ (moved[t] \/ fileToolsPc[t] # "idle")]
    BY DEF FileTool!Change
  <1>2. moved'[u] = (moved[u] \/ fileToolsPc[u] # "idle")
    BY <1>1, Zenon
  <1>3. ~moved'[u] => fileToolsPc'[u] = "idle"
    BY <1>2
  <1>4. "idle" \notin Copied
    BY DEF Copied
  <1> QED BY <1>3, <1>4 DEF ThreadIsRight

LEMMA ChangedTypes ==
    ASSUME ToolTypes, NEW own, FileTool!Change(own)
    PROVE  /\ fileToolsVersion' \in Nat /\ stamp' \in Nat
           /\ moved' \in [FileTool!Threads -> BOOLEAN]
  <1>1. fileToolsVersion' \in Nat /\ stamp' \in Nat
    BY DEF FileTool!Change
  <1>2. moved' = [t \in FileTool!Threads |-> t \notin own /\ (moved[t] \/ fileToolsPc[t] # "idle")]
    BY DEF FileTool!Change
  <1>3. moved' \in [FileTool!Threads -> BOOLEAN]
    BY <1>2, Zenon
  <1> QED BY <1>1, <1>3

LEMMA FileWritten ==
    ASSUME ToolInv, NEW t \in FileTool!Threads, FileTool!WriteFile(t)
    PROVE  ToolInv'
  <1> DEFINE d == FileTool!Conv(t)
  <1>0. d \in Conversations /\ t \in FileTool!ThreadsOf(d) /\ WritesAlone(d) /\ RecordIsOfSeen(d)
    BY ThreadsBelong DEF ToolInv
  <1>a. /\ fileToolsPc[t] = "write" /\ FileTool!Change({t})
        /\ blind' = (blind \/ FileTool!WritesBlind(t))
        /\ UNCHANGED <<state, copy>>
    BY DEF FileTool!WriteFile
  <1>b. PICK s \in {"idle", "wrote"} :
          /\ fileToolsPc' = [fileToolsPc EXCEPT ![t] = s]
          /\ s = "wrote" => seen' = [seen EXCEPT ![d] = fileToolsVersion']
          /\ s = "idle" => seen' = seen
    BY DEF FileTool!WriteFile, FileTool!Go
  <1>1. ToolTypes'
    <2>1. fileToolsVersion' \in Nat /\ stamp' \in Nat
          /\ moved' \in [FileTool!Threads -> BOOLEAN]
      BY <1>a, ChangedTypes DEF ToolInv
    <2>2. seen' = [c \in Conversations |-> seen'[c]]
      BY <1>b DEF ToolInv, ToolTypes
    <2>3. copy' = [u \in FileTool!Threads |-> copy'[u]]
          /\ state' \in [Conversations -> FileRecords \cup {NoRecord}]
      BY <1>a DEF ToolInv, ToolTypes
    <2>4. fileToolsPc' \in [FileTool!Threads -> {"idle"} \cup ReadSteps \cup WriteSteps]
      BY <1>b DEF ToolInv, ToolTypes, WriteSteps
    <2> QED BY <2>1, <2>2, <2>3, <2>4 DEF ToolTypes, FileTool!Threads
  <1>2. \A u \in FileTool!ThreadsOf(d) : u # t => fileToolsPc[u] = "idle"
    BY <1>0, <1>a DEF WritesAlone, WriteSteps
  <1>3. /\ fileToolsPc'[t] = s
        /\ \A u \in FileTool!Threads : u # t => fileToolsPc'[u] = fileToolsPc[u]
    BY <1>b DEF ToolInv, ToolTypes
  <1>4. ~blind'
    <2>1. ThreadIsRight(t) /\ ~blind
      BY DEF ToolInv
    <2>2. ~FileTool!WritesBlind(t)
      BY <1>a, <2>1 DEF ThreadIsRight, FileTool!WritesBlind
    <2> QED BY <1>a, <2>1, <2>2
  <1>5. ASSUME NEW c \in Conversations PROVE WritesAlone(c)'
    BY <1>b, <1>2, StaysAlone
  <1>6. ASSUME NEW c \in Conversations PROVE RecordIsOfSeen(c)'
    <2>1. RecordIsOfSeen(c)
      BY DEF ToolInv
    <2>2. FileTool!ThreadsOf(c)' = FileTool!ThreadsOf(c)
      BY DEF FileTool!ThreadsOf, FileTool!Threads, FileTool!Conv
    <2>3. CASE c = d /\ s = "wrote"
      <3>1. fileToolsPc'[t] = "wrote" /\ t \in FileTool!ThreadsOf(c)'
        BY <1>0, <1>3, <2>2, <2>3
      <3> QED BY <3>1 DEF RecordIsOfSeen
    <2>4. CASE c # d \/ s = "idle"
      <3>1. seen'[c] = seen[c]
        BY <1>0, <1>b, <2>4 DEF ToolInv, ToolTypes
      <3>2. ASSUME \A u \in FileTool!ThreadsOf(c) : fileToolsPc'[u] # "wrote"
            PROVE  \A u \in FileTool!ThreadsOf(c) : fileToolsPc[u] # "wrote"
        BY <1>3, <1>a, <3>2, ThreadsBelong
      <3> QED BY <1>a, <2>1, <2>2, <3>1, <3>2 DEF RecordIsOfSeen
    <2> QED BY <2>3, <2>4
  <1>7. ASSUME NEW u \in FileTool!Threads PROVE ThreadIsRight(u)'
    <2>1. CASE u # t
      BY <1>a, <1>3, <2>1, ChangedUnder
    <2>2. CASE u = t
      <3>1. s = "wrote" => seen'[d] = fileToolsVersion'
        BY <1>0, <1>b DEF ToolInv, ToolTypes
      <3>2. fileToolsPc'[u] \notin Copied /\ fileToolsPc'[u] # "write"
        BY <1>3, <2>2 DEF Copied
      <3>3. FileTool!Conv(u)' = d
        BY <2>2 DEF FileTool!Conv
      <3> QED BY <1>3, <2>2, <3>1, <3>2, <3>3 DEF ThreadIsRight
    <2> QED BY <2>1, <2>2
  <1> QED BY <1>1, <1>4, <1>5, <1>6, <1>7 DEF ToolInv, FileTool!Threads

LEMMA ChangedOutside ==
    ASSUME ToolInv, FileTool!Outside
    PROVE  ToolInv'
  <1>1. FileTool!Change({}) /\ UNCHANGED <<state, fileToolsPc, copy, seen, blind>>
    BY DEF FileTool!Outside
  <1>2. ToolTypes'
    <2>1. fileToolsVersion' \in Nat /\ stamp' \in Nat
          /\ moved' \in [FileTool!Threads -> BOOLEAN]
      BY <1>1, ChangedTypes DEF ToolInv
    <2> QED BY <1>1, <2>1 DEF ToolInv, ToolTypes, FileTool!Threads
  <1>3. ASSUME NEW c \in Conversations PROVE WritesAlone(c)' /\ RecordIsOfSeen(c)'
    <2>1. WritesAlone(c) /\ RecordIsOfSeen(c)
      BY DEF ToolInv
    <2>2. FileTool!ThreadsOf(c)' = FileTool!ThreadsOf(c)
      BY DEF FileTool!ThreadsOf, FileTool!Threads, FileTool!Conv
    <2> QED BY <1>1, <2>1, <2>2 DEF WritesAlone, RecordIsOfSeen
  <1>4. ASSUME NEW u \in FileTool!Threads PROVE ThreadIsRight(u)'
    BY <1>1, ChangedUnder
  <1> QED BY <1>1, <1>2, <1>3, <1>4 DEF ToolInv, FileTool!Threads

LEMMA ToolStep == ToolInv /\ [FileTool!Next]_(FileTool!vars) => ToolInv'
  <1> SUFFICES ASSUME ToolInv, [FileTool!Next]_(FileTool!vars)
               PROVE  ToolInv'
    OBVIOUS
  <1> USE DEF FileTool!file, FileTool!ghosts, FileTool!Go, FileTool!Ends
  <1>v. ASSUME NEW t \in FileTool!Threads
        PROVE  copy = [copy EXCEPT ![t] = copy[t]] /\ moved = [moved EXCEPT ![t] = moved[t]]
               /\ moved[t] \in BOOLEAN
    BY DEF ToolInv, ToolTypes
  <1>0. ASSUME UNCHANGED <<fileToolsVersion, stamp, state, fileToolsPc, copy, moved, seen, blind>>
        PROVE  ToolInv'
    BY <1>0 DEF ToolInv, ToolTypes, WritesAlone, RecordIsOfSeen, ThreadIsRight,
                FileTool!Hidden, FileTool!Threads, FileTool!ThreadsOf, FileTool!Conv
  <1>1. ASSUME NEW t \in FileTool!Threads, NEW r \in Ranges, FileTool!BeginRead(t, r)
        PROVE  ToolInv'
    <2>1. CASE dedup[r] = stamp
      BY <1>0, <1>1, <2>1 DEF FileTool!BeginRead
    <2>2. CASE dedup[r] # stamp
      <3>1. /\ fileToolsPc[t] = "idle" /\ fileToolsPc' = [fileToolsPc EXCEPT ![t] = "map"]
            /\ \A u \in FileTool!ThreadsOf(FileTool!Conv(t)) : fileToolsPc[u] \notin WriteSteps
            /\ UNCHANGED <<fileToolsVersion, stamp, state, copy, moved, seen, blind>>
        BY <1>1, <2>2 DEF FileTool!BeginRead, FileTool!MayRead, FileTool!Reading, WriteSteps
      <3>2. copy' = [copy EXCEPT ![t] = copy[t]] /\ moved' = [moved EXCEPT ![t] = moved[t]]
        BY <3>1, <1>v
      <3>3. "map" \in ReadSteps /\ "map" \notin Copied /\ fileToolsPc[t] # "wrote"
        BY <3>1 DEF ReadSteps, Copied
      <3> QED BY <1>v, <3>1, <3>2, <3>3, ReadStep
    <2> QED BY <2>1, <2>2
  <1>2. ASSUME NEW t \in FileTool!Threads,
               FileTool!MapView(t) \/ FileTool!CopyLines(t) \/ FileTool!Unmap(t) \/ FileTool!StoreDedup(t)
        PROVE  ToolInv'
    <2>1. /\ fileToolsPc[t] \in ReadSteps
          /\ UNCHANGED <<fileToolsVersion, stamp, state, moved, seen, blind>>
      BY <1>2 DEF FileTool!MapView, FileTool!CopyLines, FileTool!Unmap, FileTool!StoreDedup, ReadSteps
    <2>2. \E s \in ReadSteps :
            /\ fileToolsPc' = [fileToolsPc EXCEPT ![t] = s]
            /\ \/ copy' = [copy EXCEPT ![t] = fileToolsVersion]
               \/ copy' = copy /\ (s \in Copied => fileToolsPc[t] \in Copied)
      <3>1. CASE FileTool!MapView(t)
        BY <3>1 DEF FileTool!MapView, ReadSteps, Copied
      <3>2. CASE FileTool!CopyLines(t)
        BY <3>2 DEF FileTool!CopyLines, ReadSteps
      <3>3. CASE FileTool!Unmap(t) \/ FileTool!StoreDedup(t)
        BY <3>3 DEF FileTool!Unmap, FileTool!StoreDedup, ReadSteps, Copied
      <3> QED BY <1>2, <3>1, <3>2, <3>3
    <2>3. PICK s \in ReadSteps :
            /\ fileToolsPc' = [fileToolsPc EXCEPT ![t] = s]
            /\ \/ copy' = [copy EXCEPT ![t] = fileToolsVersion]
               \/ copy' = copy /\ (s \in Copied => fileToolsPc[t] \in Copied)
      BY <2>2
    <2>4. \A u \in FileTool!ThreadsOf(FileTool!Conv(t)) : fileToolsPc[u] \notin WriteSteps
      BY <2>1, ReadersBeside
    <2>5. fileToolsPc[t] # "wrote" /\ moved' = [moved EXCEPT ![t] = moved[t]]
      BY <1>v, <2>1 DEF ReadSteps
    <2>6. CASE copy' = [copy EXCEPT ![t] = fileToolsVersion]
      BY <1>v, <2>1, <2>3, <2>4, <2>5, <2>6, ReadStep
    <2>7. CASE copy' = copy /\ (s \in Copied => fileToolsPc[t] \in Copied)
      <3>1. copy' = [copy EXCEPT ![t] = copy[t]]
        BY <2>7, <1>v
      <3> QED BY <1>v, <2>1, <2>3, <2>4, <2>5, <2>7, <3>1, ReadStep
    <2> QED BY <2>3, <2>6, <2>7
  <1>3. ASSUME NEW t \in FileTool!Threads, FileTool!Record(t)
        PROVE  ToolInv'
    <2>1. PICK v : v = IF moved[t] THEN NoRecord ELSE copy[t]
      OBVIOUS
    <2>2. v \in {NoRecord, fileToolsVersion}
      <3>1. ThreadIsRight(t) /\ fileToolsPc[t] \in Copied
        BY <1>3 DEF FileTool!Record, ToolInv, Copied
      <3> QED BY <2>1, <3>1 DEF ThreadIsRight
    <2>3. /\ fileToolsPc' = [fileToolsPc EXCEPT ![t] = "idle"]
          /\ state' = [state EXCEPT ![FileTool!Conv(t)] = FileTool!Now]
          /\ seen' = [seen EXCEPT ![FileTool!Conv(t)] = v]
          /\ copy' = [copy EXCEPT ![t] = 0] /\ moved' = [moved EXCEPT ![t] = FALSE]
          /\ UNCHANGED <<fileToolsVersion, stamp, blind>>
      BY <1>3, <2>1 DEF FileTool!Record
    <2>4. \A u \in FileTool!ThreadsOf(FileTool!Conv(t)) : fileToolsPc[u] \notin WriteSteps
      BY <1>3, ReadersBeside DEF FileTool!Record, ReadSteps
    <2> QED BY <2>2, <2>3, <2>4, Recorded
  <1>4. ASSUME NEW t \in FileTool!Threads, FileTool!ReadWhole(t)
        PROVE  ToolInv'
    <2>1. /\ fileToolsPc[t] = "idle" /\ fileToolsPc' = [fileToolsPc EXCEPT ![t] = "record"]
          /\ \A u \in FileTool!ThreadsOf(FileTool!Conv(t)) : fileToolsPc[u] \notin WriteSteps
          /\ copy' = [copy EXCEPT ![t] = fileToolsVersion]
          /\ UNCHANGED <<fileToolsVersion, stamp, state, moved, seen, blind>>
      BY <1>4 DEF FileTool!ReadWhole, FileTool!MayRead, FileTool!Reading, WriteSteps
    <2>2. moved' = [moved EXCEPT ![t] = moved[t]] /\ "record" \in ReadSteps
          /\ fileToolsPc[t] # "wrote"
      BY <1>v, <2>1 DEF ReadSteps
    <2> QED BY <1>v, <2>1, <2>2, ReadStep
  <1>5. ASSUME NEW t \in FileTool!Threads, FileTool!RecordWrite(t)
        PROVE  ToolInv'
    <2>0. FileTool!Conv(t) \in Conversations /\ t \in FileTool!ThreadsOf(FileTool!Conv(t))
      BY ThreadsBelong
    <2>1. PICK v : v = IF moved[t] THEN NoRecord ELSE seen[FileTool!Conv(t)]
      OBVIOUS
    <2>2. v \in {NoRecord, fileToolsVersion}
      <3>1. ThreadIsRight(t) /\ fileToolsPc[t] = "wrote"
        BY <1>5 DEF FileTool!RecordWrite, ToolInv
      <3> QED BY <2>1, <3>1 DEF ThreadIsRight
    <2>3. seen' = [seen EXCEPT ![FileTool!Conv(t)] = v]
      BY <1>5, <2>1 DEF FileTool!RecordWrite
    <2>4. /\ fileToolsPc' = [fileToolsPc EXCEPT ![t] = "idle"]
          /\ state' = [state EXCEPT ![FileTool!Conv(t)] = FileTool!Now]
          /\ copy' = [copy EXCEPT ![t] = copy[t]] /\ moved' = [moved EXCEPT ![t] = FALSE]
          /\ UNCHANGED <<fileToolsVersion, stamp, blind>>
      BY <1>5, <1>v DEF FileTool!RecordWrite
    <2>5. \A u \in FileTool!ThreadsOf(FileTool!Conv(t)) : u # t => fileToolsPc[u] \notin WriteSteps
      <3>1. WritesAlone(FileTool!Conv(t)) /\ fileToolsPc[t] \in WriteSteps
        BY <1>5, <2>0 DEF FileTool!RecordWrite, ToolInv, WriteSteps
      <3>2. "idle" \notin WriteSteps
        BY DEF WriteSteps
      <3> QED BY <2>0, <3>1, <3>2 DEF WritesAlone
    <2> QED BY <2>2, <2>3, <2>4, <2>5, Recorded
  <1>6. ASSUME NEW t \in FileTool!Threads, FileTool!WriteFails(t)
        PROVE  ToolInv'
    <2>1. copy' = [copy EXCEPT ![t] = copy[t]]
      BY <1>6, <1>v DEF FileTool!WriteFails
    <2>2. "idle" \notin Copied
      BY DEF Copied
    <2>3. /\ fileToolsPc[t] = "write" /\ fileToolsPc' = [fileToolsPc EXCEPT ![t] = "idle"]
          /\ moved' = [moved EXCEPT ![t] = FALSE]
          /\ UNCHANGED <<fileToolsVersion, stamp, state, seen, blind>>
      BY <1>6 DEF FileTool!WriteFails
    <2> QED BY <2>1, <2>2, <2>3, ReadStep
  <1> QED BY <1>0, <1>1, <1>2, <1>3, <1>4, <1>5, <1>6, ChangedOutside, WriteBegins, FileWritten
          DEF FileTool!Next, FileTool!vars

(* For any number of conversations, of threads to run their reads and of   *)
(* ranges to read: none writes over a version of the file that it has not  *)
(* opened to read, in whole or in part, unless the file changed inside one *)
(* of its own calls, or without its time going past the recorded one       *)
(* (readFileState_, handleTextRead, FileWriteTool::call).                  *)
THEOREM WritesAreNotBlind == FileTool!Spec => []NoBlindWrites
  <1>1. FileTool!Init => ToolInv
    <2> SUFFICES ASSUME FileTool!Init PROVE ToolInv
      OBVIOUS
    <2>1. ToolTypes
      BY DEF FileTool!Init, ToolTypes
    <2>2. ~blind /\ \A t \in FileTool!Threads : fileToolsPc[t] = "idle"
      BY DEF FileTool!Init
    <2>3. \A c \in Conversations : state[c] = NoRecord
      BY DEF FileTool!Init
    <2>4. \A c \in Conversations : WritesAlone(c) /\ RecordIsOfSeen(c)
      BY <2>2, <2>3, ThreadsBelong DEF WritesAlone, RecordIsOfSeen, WriteSteps
    <2>5. \A t \in FileTool!Threads : ThreadIsRight(t)
      BY <2>2 DEF ThreadIsRight, Copied
    <2> QED BY <2>1, <2>2, <2>4, <2>5 DEF ToolInv
  <1>2. ToolInv => NoBlindWrites
    BY DEF ToolInv, NoBlindWrites, FileTool!NoBlindWrites
  <1> QED BY <1>1, <1>2, ToolStep, PTL DEF FileTool!Spec

-----------------------------------------------------------------------------
(* Logins to MCP servers (McpTokens).                                      *)

LoginTypes ==
    /\ token = [p \in Processes |-> token[p]]
    /\ loginPc = [p \in Processes |-> loginPc[p]]
    /\ issued \in Nat /\ live \subseteq Nat \ {0}
    /\ provider = "plain" => live = {}

Keeps(p) == loginPc[p] \in {"save", "write"}

\* A refresh token that is used once is used by one process.
OneConnects ==
    provider = "rotates" /\ ~lost =>
        \A p, q \in Processes : Login!Busy(p) /\ Login!Busy(q) => p = q

\* What a process is about to save, the endpoint honours.
SavesLive ==
    \A p \in Processes :
        Keeps(p) /\ ~lost /\ provider # "plain" => token[p].refresh \in live

\* A login is in the file, or a process is on its way there with one.
LoginIsSomewhere ==
    live # {} /\ ~lost => loginDisk.refresh \in live \/ \E p \in Processes : Keeps(p)

\* Only tokens that were issued are too old.
AgedOnes == issued \in Nat /\ aged \subseteq 1..issued

LoginInv == LoginTypes /\ OneConnects /\ SavesLive /\ LoginIsSomewhere

\* A process goes on to a step that saves nothing, and nothing else changes
\* but what it holds.
LEMMA ConnectStep ==
    ASSUME LoginInv, NEW p \in Processes, NEW s, s \notin {"save", "write"},
           ~Keeps(p), Login!Busy(p) \/ s \in {"off", "on"},
           loginPc' = [loginPc EXCEPT ![p] = s],
           NEW t, token' = [token EXCEPT ![p] = t],
           UNCHANGED <<loginDisk, provider, issued, live>>,
           lost => lost'
    PROVE  LoginInv'
  <1>1. LoginTypes'
    BY DEF LoginInv, LoginTypes
  <1>2. loginPc'[p] = s /\ \A q \in Processes \ {p} : loginPc'[q] = loginPc[q] /\ token'[q] = token[q]
    BY DEF LoginInv, LoginTypes
  <1>3. \A q \in Processes : Keeps(q)' <=> Keeps(q)
    BY <1>2 DEF Keeps
  <1>4. \A q \in Processes : Login!Busy(q)' => Login!Busy(q)
    BY <1>2 DEF Login!Busy
  <1>5. OneConnects'
    BY <1>4 DEF LoginInv, OneConnects
  <1>6. SavesLive'
    BY <1>2, <1>3 DEF LoginInv, SavesLive
  <1>7. LoginIsSomewhere'
    BY <1>3 DEF LoginInv, LoginIsSomewhere
  <1> QED BY <1>1, <1>5, <1>6, <1>7 DEF LoginInv

\* A token of the endpoint's answer.
LEMMA AnswerIsLive ==
    ASSUME LoginInv, NEW old, old = 0 \/ old \in live, Login!Accept(old),
           provider # "plain", NEW a \in Login!Answers(old),
           NEW t, t = Login!Refreshed(old, a) \/ (old = 0 /\ t = a)
    PROVE  /\ live' \subseteq Nat \ {0} /\ issued' \in Nat
           /\ t.refresh \in live'
           /\ provider # "rotates" => live \subseteq live'
           /\ live' # {}
  <1> DEFINE n == issued + 1
  <1>1. n \in Nat \ {0} /\ live \subseteq Nat \ {0} /\ issued' = n
    BY DEF LoginInv, LoginTypes, Login!Accept
  <1>2. CASE provider = "rotates"
    <2>1. live' = (live \ {old}) \cup {n}
      BY <1>2 DEF Login!Accept
    <2>2. a.refresh = n
      BY <1>2 DEF Login!Answers
    <2>3. t.refresh = n
      BY <2>2, <1>1 DEF Login!Refreshed
    <2> QED BY <1>1, <1>2, <2>1, <2>3
  <1>3. CASE provider # "rotates" /\ old = 0
    <2>1. live' = live \cup {n}
      BY <1>3 DEF Login!Accept
    <2>2. a.refresh = n
      BY <1>3 DEF Login!Answers
    <2>3. t.refresh = n
      BY <2>2, <1>1 DEF Login!Refreshed
    <2> QED BY <1>1, <2>1, <2>3
  <1>4. CASE provider # "rotates" /\ old # 0
    <2>1. live' = live
      BY <1>4 DEF Login!Accept
    <2>2. /\ a \in [access : {n}, life : Login!Lives, refresh : {0, old}]
      BY <1>4 DEF Login!Answers
    <2>3. t.refresh = old
      BY <2>2, <1>4 DEF Login!Refreshed
    <2> QED BY <1>1, <1>4, <2>1, <2>3
  <1> QED BY <1>2, <1>3, <1>4

\* Where there are no refresh tokens, none is ever honoured.
LEMMA PlainAccept ==
    ASSUME LoginInv, NEW old, Login!Accept(old), provider = "plain"
    PROVE  live' = {} /\ issued' \in Nat
  BY DEF LoginInv, LoginTypes, Login!Accept

\* A process has a token that the endpoint honours and will save it.
LEMMA GrantStep ==
    ASSUME LoginInv, NEW p \in Processes, Login!Busy(p), NEW old, old = 0 \/ old \in live,
           Login!Accept(old), NEW a \in Login!Answers(old),
           NEW t, t = Login!Refreshed(old, a) \/ (old = 0 /\ t = a),
           token' = [token EXCEPT ![p] = t],
           loginPc' = [loginPc EXCEPT ![p] = "save"],
           loginDisk' = loginDisk, lost => lost'
    PROVE  LoginInv'
  <1>1. provider' = provider
    BY DEF Login!Accept
  <1>2. loginPc'[p] = "save" /\ token'[p] = t
        /\ \A q \in Processes \ {p} : loginPc'[q] = loginPc[q] /\ token'[q] = token[q]
    BY DEF LoginInv, LoginTypes
  <1>3. /\ token' = [q \in Processes |-> token'[q]] /\ loginPc' = [q \in Processes |-> loginPc'[q]]
    BY DEF LoginInv, LoginTypes
  <1>4. \A q \in Processes : Login!Busy(q)' => Login!Busy(q)
    BY <1>2 DEF Login!Busy
  <1>5. OneConnects'
    BY <1>1, <1>4 DEF LoginInv, OneConnects
  <1>6. Keeps(p)'
    BY <1>2 DEF Keeps
  <1>7. LoginIsSomewhere'
    BY <1>6 DEF LoginIsSomewhere
  <1>8. LoginTypes' /\ SavesLive'
    <2>1. CASE provider = "plain"
      BY <1>1, <1>3, <2>1, PlainAccept DEF LoginTypes, SavesLive
    <2>2. CASE provider # "plain"
      <3>1. /\ live' \subseteq Nat \ {0} /\ issued' \in Nat
            /\ t.refresh \in live'
            /\ provider # "rotates" => live \subseteq live'
        BY <2>2, AnswerIsLive
      <3>2. LoginTypes'
        BY <3>1, <1>1, <1>3, <2>2 DEF LoginTypes
      <3>3. ASSUME NEW q \in Processes, Keeps(q)', ~lost'
            PROVE  token'[q].refresh \in live'
        <4>1. CASE q = p
          BY <4>1, <3>1, <1>2
        <4>2. CASE q # p
          <5>1. Keeps(q) /\ ~lost /\ token'[q] = token[q]
            BY <4>2, <3>3, <1>2 DEF Keeps
          <5>2. token[q].refresh \in live
            BY <5>1, <2>2 DEF LoginInv, SavesLive
          <5>3. provider # "rotates"
            BY <5>1, <4>2 DEF LoginInv, OneConnects, Login!Busy, Keeps
          <5> QED BY <5>1, <5>2, <5>3, <3>1
        <4> QED BY <4>1, <4>2
      <3> QED BY <3>2, <3>3 DEF SavesLive
    <2> QED BY <2>1, <2>2
  <1> QED BY <1>5, <1>7, <1>8 DEF LoginInv

\* The endpoint has granted a refresh, and the process goes to the browser.
LEMMA RefusedStep ==
    ASSUME LoginInv, NEW p \in Processes, loginPc[p] = "refresh",
           token[p].refresh \in live, Login!Accept(token[p].refresh),
           NEW t, token' = [token EXCEPT ![p] = t],
           loginPc' = [loginPc EXCEPT ![p] = "browser"],
           loginDisk' = loginDisk, lost => lost', provider = "rotates" => lost'
    PROVE  LoginInv'
  <1>1. provider # "plain" /\ token[p].refresh # 0
    BY DEF LoginInv, LoginTypes
  <1>2. /\ provider' = provider /\ issued' = issued + 1
        /\ live' = IF provider = "rotates"
                   THEN (live \ {token[p].refresh}) \cup {issued + 1} ELSE live
    BY <1>1 DEF Login!Accept
  <1>3. loginPc'[p] = "browser"
        /\ \A q \in Processes \ {p} : loginPc'[q] = loginPc[q] /\ token'[q] = token[q]
    BY DEF LoginInv, LoginTypes
  <1>4. LoginTypes'
    <2>1. token' = [q \in Processes |-> token'[q]] /\ loginPc' = [q \in Processes |-> loginPc'[q]]
      BY DEF LoginInv, LoginTypes
    <2>2. issued \in Nat /\ live \subseteq Nat \ {0}
      BY DEF LoginInv, LoginTypes
    <2>3. issued + 1 \in Nat \ {0}
      BY <2>2
    <2>4. live' \subseteq live \cup {issued + 1}
      BY <1>2
    <2>5. issued' \in Nat /\ live' \subseteq Nat \ {0}
      <3>1. issued' = issued + 1
        BY <1>2
      <3> QED BY <3>1, <2>2, <2>3, <2>4
    <2> QED BY <1>1, <1>2, <2>5, <2>1, <2>3 DEF LoginTypes
  <1>5. CASE provider = "rotates"
    BY <1>2, <1>4, <1>5 DEF LoginInv, OneConnects, SavesLive, LoginIsSomewhere
  <1>6. CASE provider # "rotates"
    <2>1. live' = live
      BY <1>2, <1>6
    <2>2. \A q \in Processes : Keeps(q)' <=> Keeps(q)
      BY <1>3 DEF Keeps
    <2>3. SavesLive'
      BY <1>2, <1>3, <2>1, <2>2 DEF LoginInv, SavesLive, Keeps
    <2>4. OneConnects' /\ LoginIsSomewhere'
      BY <1>2, <1>6, <2>1, <2>2 DEF LoginInv, OneConnects, LoginIsSomewhere
    <2> QED BY <1>4, <2>3, <2>4 DEF LoginInv
  <1> QED BY <1>5, <1>6

\* A token that has not been issued is not too old.
LEMMA AgedStep == AgedOnes /\ [Login!Next]_(Login!vars) => AgedOnes'
  <1> SUFFICES ASSUME AgedOnes, [Login!Next]_(Login!vars)
               PROVE  AgedOnes'
    OBVIOUS
  <1> USE DEF Login!local, Login!endpoint
  <1>1. CASE UNCHANGED <<issued, aged>>
    BY <1>1 DEF AgedOnes
  <1>2. CASE issued' = issued + 1 /\ aged' = aged
    BY <1>2 DEF AgedOnes
  <1>3. CASE Login!Age
    BY <1>3 DEF AgedOnes, Login!Age
  <1>4. ASSUME NEW p \in Processes,
               Login!Refresh(p) \/ Login!RefreshFails(p) \/ Login!ExchangeCode(p)
        PROVE  AgedOnes'
    BY <1>1, <1>2, <1>4 DEF Login!Refresh, Login!RefreshFails, Login!ExchangeCode, Login!Accept
  <1>5. ASSUME NEW p \in Processes,
               \/ Login!LoadToken(p) \/ Login!Authorize(p) \/ Login!NoCode(p) \/ Login!OpenFile(p)
               \/ Login!WriteFile(p) \/ Login!CannotSave(p) \/ Login!Disconnect(p) \/ Login!Die(p)
        PROVE  AgedOnes'
    BY <1>1, <1>5 DEF Login!LoadToken, Login!Authorize, Login!NoCode, Login!OpenFile,
       Login!WriteFile, Login!CannotSave, Login!Disconnect, Login!Die
  <1>6. CASE Login!Callback \/ Login!Revoke \/ UNCHANGED Login!vars
    BY <1>1, <1>6 DEF Login!Callback, Login!Revoke, Login!vars
  <1> QED BY <1>3, <1>4, <1>5, <1>6 DEF Login!Next

LEMMA LoginStep == LoginInv /\ AgedOnes /\ [Login!Next]_(Login!vars) => LoginInv'
  <1> SUFFICES ASSUME LoginInv, AgedOnes, [Login!Next]_(Login!vars)
               PROVE  LoginInv'
    OBVIOUS
  <1> USE DEF Login!local, Login!endpoint, Login!Go, Login!Hold, Login!ClosePort
  <1>t. \A p \in Processes : token = [token EXCEPT ![p] = token[p]]
    BY DEF LoginInv, LoginTypes
  <1>0. ASSUME UNCHANGED <<token, loginPc, issued, provider, lost, loginDisk>>,
               live' = live \/ (live' = {} /\ \A p \in Processes : ~Login!Busy(p))
        PROVE  LoginInv'
    <2>1. LoginTypes' /\ OneConnects'
      BY <1>0 DEF LoginInv, LoginTypes, OneConnects, Login!Busy
    <2>2. live' # live => \A p \in Processes : ~Keeps(p)
      BY <1>0 DEF Login!Busy, Keeps
    <2>3. SavesLive' /\ LoginIsSomewhere'
      BY <1>0, <2>2 DEF LoginInv, SavesLive, LoginIsSomewhere, Keeps
    <2> QED BY <2>1, <2>3 DEF LoginInv
  <1>1. ASSUME NEW p \in Processes, Login!LoadToken(p)
        PROVE  LoginInv'
    <2>1. PICK s \in {"on", "refresh", "browser"} : loginPc' = [loginPc EXCEPT ![p] = s]
      BY <1>1 DEF Login!LoadToken
    <2>2. /\ loginPc[p] = "off" /\ token' = [token EXCEPT ![p] = loginDisk]
          /\ lost' = (lost \/ (provider = "rotates"
                               /\ \E q \in Processes \ {p} : Login!Busy(q)))
          /\ UNCHANGED <<loginDisk, provider, issued, live>>
      BY <1>1 DEF Login!LoadToken
    <2>3. loginPc'[p] = s
          /\ \A q \in Processes \ {p} : loginPc'[q] = loginPc[q] /\ token'[q] = token[q]
      BY <2>1, <2>2 DEF LoginInv, LoginTypes
    <2>4. LoginTypes'
      BY <2>1, <2>2 DEF LoginInv, LoginTypes
    <2>5. \A q \in Processes : Keeps(q)' <=> Keeps(q)
      BY <2>2, <2>3 DEF Keeps
    <2>6. OneConnects'
      <3> SUFFICES ASSUME provider = "rotates", ~lost', NEW q \in Processes, NEW r \in Processes,
                          Login!Busy(q)', Login!Busy(r)'
                   PROVE  q = r
        BY <2>2 DEF OneConnects
      <3>1. \A o \in Processes \ {p} : ~Login!Busy(o)
        BY <2>2
      <3>2. \A o \in Processes \ {p} : ~Login!Busy(o)'
        BY <3>1, <2>3 DEF Login!Busy
      <3> QED BY <3>2
    <2>7. SavesLive' /\ LoginIsSomewhere'
      <3>1. ~Keeps(p) /\ (lost => lost')
        BY <2>2 DEF Keeps
      <3> QED BY <3>1, <2>2, <2>3, <2>5 DEF LoginInv, SavesLive, LoginIsSomewhere
    <2> QED BY <2>4, <2>6, <2>7 DEF LoginInv
  <1>2. ASSUME NEW p \in Processes, Login!Refresh(p)
        PROVE  LoginInv'
    <2>1. PICK a \in Login!Answers(token[p].refresh) :
            LET t == Login!Refreshed(token[p].refresh, a)
            IN  /\ token' = [token EXCEPT ![p] = t]
                /\ loginPc' = [loginPc EXCEPT
                                 ![p] = IF Login!IsExpired(t) THEN "browser" ELSE "save"]
                /\ lost' = (lost \/ (provider = "rotates" /\ t.life = "short"))
      BY <1>2 DEF Login!Refresh
    <2> DEFINE t == Login!Refreshed(token[p].refresh, a)
    <2>2. /\ loginPc[p] = "refresh" /\ token[p].refresh \in live
          /\ Login!Accept(token[p].refresh) /\ loginDisk' = loginDisk
          /\ Login!Busy(p)
      BY <1>2 DEF Login!Refresh, Login!Busy
    <2>3. CASE ~Login!IsExpired(t)
      BY <2>1, <2>2, <2>3, GrantStep
    <2>4. CASE Login!IsExpired(t)
      <3>1. provider = "rotates" => t.life = "short"
        <4> SUFFICES ASSUME provider = "rotates" PROVE t.life = "short"
          OBVIOUS
        <4>1. a \in [access : {issued + 1}, life : {"long", "short"}, refresh : {issued + 1}]
          BY DEF Login!Answers, Login!Lives
        <4>2. issued + 1 # 0
          BY DEF LoginInv, LoginTypes
        <4>3. t = a
          BY <4>1, <4>2 DEF Login!Refreshed
        <4>4. a.access = issued + 1 /\ a.life \in {"long", "short"}
          BY <4>1
        <4>5. a.access \notin aged \/ a.life = "short"
          BY <4>4 DEF AgedOnes
        <4> QED BY <4>2, <4>3, <4>4, <4>5, <2>4 DEF Login!IsExpired
      <3> QED BY <2>1, <2>2, <2>4, <3>1, RefusedStep
    <2> QED BY <2>3, <2>4
  <1>3. ASSUME NEW p \in Processes, Login!RefreshFails(p)
        PROVE  LoginInv'
    <2>1. /\ loginPc[p] = "refresh" /\ loginPc' = [loginPc EXCEPT ![p] = "browser"]
          /\ token' = [token EXCEPT ![p] = token[p]] /\ loginDisk' = loginDisk
          /\ ~Keeps(p) /\ Login!Busy(p)
      BY <1>3, <1>t DEF Login!RefreshFails, Keeps, Login!Busy
    <2>2. CASE UNCHANGED <<provider, issued, live, lost>>
      BY <2>1, <2>2, ConnectStep
    <2>3. CASE /\ token[p].refresh \in live
               /\ Login!Accept(token[p].refresh)
               /\ lost' = (lost \/ provider = "rotates")
      BY <2>1, <2>3, RefusedStep
    <2> QED BY <1>3, <2>2, <2>3 DEF Login!RefreshFails
  <1>4. ASSUME NEW p \in Processes, Login!Authorize(p) \/ Login!NoCode(p) \/ Login!Disconnect(p)
        PROVE  LoginInv'
    <2>1. /\ ~Keeps(p)
          /\ \E s \in {"wait", "on", "off"} :
               (Login!Busy(p) \/ s \in {"off", "on"}) /\ loginPc' = [loginPc EXCEPT ![p] = s]
          /\ \E t : token' = [token EXCEPT ![p] = t]
          /\ UNCHANGED <<loginDisk, provider, issued, live, lost>>
      BY <1>4, <1>t DEF Login!Authorize, Login!NoCode, Login!Disconnect, Keeps, Login!Busy
    <2> QED BY <2>1, ConnectStep
  <1>5. ASSUME NEW p \in Processes, Login!ExchangeCode(p)
        PROVE  LoginInv'
    <2>1. PICK a \in Login!Answers(0) : token' = [token EXCEPT ![p] = a]
      BY <1>5 DEF Login!ExchangeCode
    <2>2. /\ Login!Accept(0) /\ loginPc' = [loginPc EXCEPT ![p] = "save"]
          /\ loginDisk' = loginDisk /\ lost' = lost /\ Login!Busy(p)
      BY <1>5 DEF Login!ExchangeCode, Login!Busy
    <2> QED BY <2>1, <2>2, GrantStep
  <1>6. ASSUME NEW p \in Processes, Login!OpenFile(p)
        PROVE  LoginInv'
    <2>1. /\ loginPc[p] = "save" /\ loginPc' = [loginPc EXCEPT ![p] = "write"]
          /\ UNCHANGED <<token, provider, issued, live, lost>>
      BY <1>6 DEF Login!OpenFile
    <2>2. loginPc'[p] = "write" /\ \A q \in Processes \ {p} : loginPc'[q] = loginPc[q]
      BY <2>1 DEF LoginInv, LoginTypes
    <2>3. \A q \in Processes : (Keeps(q)' <=> Keeps(q)) /\ (Login!Busy(q)' <=> Login!Busy(q))
      BY <2>1, <2>2 DEF Keeps, Login!Busy
    <2>4. Keeps(p)'
      BY <2>2 DEF Keeps
    <2>5. LoginTypes' /\ LoginIsSomewhere'
      BY <2>1, <2>4 DEF LoginInv, LoginTypes, LoginIsSomewhere
    <2>6. OneConnects' /\ SavesLive'
      BY <2>1, <2>3 DEF LoginInv, OneConnects, SavesLive
    <2> QED BY <2>5, <2>6 DEF LoginInv
  <1>7. ASSUME NEW p \in Processes, Login!WriteFile(p)
        PROVE  LoginInv'
    <2>1. /\ loginPc[p] = "write" /\ loginPc' = [loginPc EXCEPT ![p] = "on"]
          /\ loginDisk' = token[p]
          /\ UNCHANGED <<token, provider, issued, live, lost>>
      BY <1>7 DEF Login!WriteFile
    <2>2. loginPc'[p] = "on" /\ \A q \in Processes \ {p} : loginPc'[q] = loginPc[q]
      BY <2>1 DEF LoginInv, LoginTypes
    <2>3. \A q \in Processes : (Keeps(q)' => Keeps(q)) /\ (Login!Busy(q)' => Login!Busy(q))
      BY <2>1, <2>2 DEF Keeps, Login!Busy
    <2>4. live # {} /\ ~lost => token[p].refresh \in live
      BY <2>1 DEF LoginInv, LoginTypes, SavesLive, Keeps
    <2>5. LoginTypes' /\ LoginIsSomewhere'
      BY <2>1, <2>4 DEF LoginInv, LoginTypes, LoginIsSomewhere
    <2>6. OneConnects' /\ SavesLive'
      BY <2>1, <2>3 DEF LoginInv, OneConnects, SavesLive
    <2> QED BY <2>5, <2>6 DEF LoginInv
  <1>8. ASSUME NEW p \in Processes, Login!CannotSave(p)
        PROVE  LoginInv'
    <2>1. lost' /\ loginPc' = [loginPc EXCEPT ![p] = "on"]
          /\ UNCHANGED <<token, provider, issued, live>>
      BY <1>8 DEF Login!CannotSave
    <2> QED BY <2>1 DEF LoginInv, LoginTypes, OneConnects, SavesLive, LoginIsSomewhere
  <1>9. ASSUME NEW p \in Processes, Login!Die(p)
        PROVE  LoginInv'
    <2>1. /\ loginPc' = [loginPc EXCEPT ![p] = "off"]
          /\ lost' = (lost \/ loginPc[p] \in {"save", "write"})
          /\ UNCHANGED <<token, loginDisk, provider, issued, live>>
      BY <1>9 DEF Login!Die
    <2>2. CASE Keeps(p)
      BY <2>1, <2>2 DEF Keeps, LoginInv, LoginTypes, OneConnects, SavesLive, LoginIsSomewhere
    <2>3. CASE ~Keeps(p)
      <3>1. token' = [token EXCEPT ![p] = token[p]]
        BY <2>1, <1>t
      <3> QED BY <2>1, <2>3, <3>1, ConnectStep
    <2> QED BY <2>2, <2>3
  <1>10. CASE Login!Callback \/ Login!Age \/ Login!Revoke \/ UNCHANGED Login!vars
    BY <1>0, <1>10 DEF Login!Callback, Login!Age, Login!Revoke, Login!vars
  <1> QED BY <1>1, <1>2, <1>3, <1>4, <1>5, <1>6, <1>7, <1>8, <1>9, <1>10 DEF Login!Next

(* For any number of processes that share the file: a login the endpoint   *)
(* still honours is in the file whenever nobody is connecting, unless it   *)
(* was lost in one of the ways connect() does nothing about (MCPOAuth's    *)
(* refreshToken, exchangeCode and saveToken).                              *)
THEOREM LoginsAreKept == Login!Spec => []LoginIsKept
  <1>1. Login!Init => LoginInv /\ AgedOnes
    BY DEF AgedOnes, Login!Init, LoginInv, LoginTypes, OneConnects, SavesLive, LoginIsSomewhere, Keeps,
       Login!Busy
  <1>2. LoginInv => LoginIsKept
    BY DEF LoginInv, LoginIsSomewhere, Keeps, LoginIsKept, Login!LoginIsKept, Login!Busy
  <1> QED BY <1>1, <1>2, LoginStep, AgedStep, PTL DEF Login!Spec

-----------------------------------------------------------------------------
(* The stored activation (License).                                        *)

Calm == {"off", "loading", "evaluating", "activated", "trialPrompt", "locked", "activating",
         "trial", "counted"}
Editing == {"saving", "clearing"}
BothValues(n) == <<<<"token", n>>, <<"sig", n>>>>
LastValue(n) == <<<<"sig", n>>>>

\* What a process has still to write, and what it has written of it.
WritesLeft(p) ==
    /\ licenseState[p] \in Calm => writes[p] = <<>>
    /\ licenseState[p] = "counting" =>
         writes[p] = <<>> \/ \E n : writes[p] = <<<<"trialRuns", n>>>>
    /\ licenseState[p] = "clearing" => writes[p] \in {BothValues(0), LastValue(0), <<>>}
    /\ licenseState[p] = "saving" =>
         /\ licenseIssued # 0
         /\ \/ writes[p] = BothValues(licenseIssued)
            \/ writes[p] = LastValue(licenseIssued) /\ (~harmed => kept.token = licenseIssued)
            \/ /\ writes[p] = <<>>
               /\ ~harmed => kept.token = licenseIssued /\ kept.sig = licenseIssued

\* Values after a process's next write, of a token and its signature.
LandsAs(values, p) ==
    \A n \in {"token", "sig"} :
        values[n] = [kept EXCEPT ![Head(writes[p])[1]] = Head(writes[p])[2]][n]

\* As long as nothing failed, one process at a time rewrites the file, and what it
\* has read or written to .tmp is the file but for its one value.
RewriteIsRight(p) ==
    /\ rewrite[p] # "no" => store = "file" /\ writes[p] # <<>>
    /\ ~harmed /\ rewrite[p] # "no" =>
         \A q \in LicenseProcesses : q # p => rewrite[q] = "no"
    /\ ~harmed /\ rewrite[p] = "read" => LandsAs(read[p], p)
    /\ ~harmed /\ rewrite[p] = "written" => tmp # <<>> /\ LandsAs(tmp[1], p)

Names3 == {"token", "sig", "trialRuns"}
LicenseTypes ==
    /\ DOMAIN kept = Names3 /\ (tmp # <<>> => DOMAIN tmp[1] = Names3)
    /\ \A p \in LicenseProcesses : DOMAIN read[p] = Names3
    /\ read = [p \in LicenseProcesses |-> read[p]]
    /\ licenseState \in [LicenseProcesses -> Calm \cup Editing \cup {"counting"}]
    /\ writes = [p \in LicenseProcesses |-> writes[p]]
    /\ rewrite = [p \in LicenseProcesses |-> rewrite[p]]
    /\ licenseIssued \in Nat

\* One user at a time activates or deactivates.
OneUserEdits ==
    \A p, q \in LicenseProcesses :
        p # q => ~(licenseState[p] \in Editing /\ licenseState[q] \in Editing)

\* While an activation is reported nobody is at it.
ReportStands ==
    reported # 0 =>
        /\ ~harmed => kept.token = reported /\ kept.sig = reported
        /\ \A p \in LicenseProcesses : licenseState[p] \notin Editing

LicenseInv ==
    /\ LicenseTypes /\ OneUserEdits /\ ReportStands
    /\ \A p \in LicenseProcesses : WritesLeft(p) /\ RewriteIsRight(p)

LEMMA ShortWrites ==
    /\ \A n : Head(BothValues(n)) = <<"token", n>> /\ Tail(BothValues(n)) = LastValue(n)
              /\ BothValues(n) # <<>> /\ BothValues(n) # LastValue(n)
    /\ \A n : Head(LastValue(n)) = <<"sig", n>> /\ Tail(LastValue(n)) = <<>>
              /\ LastValue(n) # <<>>
    /\ \A n : Head(<<<<"trialRuns", n>>>>) = <<"trialRuns", n>>
              /\ Tail(<<<<"trialRuns", n>>>>) = <<>>
    /\ \A n : [i \in 1..2 |-> <<Activation!Activation[i], n>>] = BothValues(n)
  <1>1. \A a, b : Head(<<a, b>>) = a /\ Tail(<<a, b>>) = <<b>> /\ <<a, b>> # <<>>
                  /\ <<a, b>> # <<b>>
    OBVIOUS
  <1>2. \A b : Head(<<b>>) = b /\ Tail(<<b>>) = <<>> /\ <<b>> # <<>>
    OBVIOUS
  <1>3. \A n : [i \in 1..2 |-> <<Activation!Activation[i], n>>] = BothValues(n)
    BY DEF Activation!Activation, BothValues
  <1> QED BY <1>1, <1>2, <1>3, Zenon DEF BothValues, LastValue

LEMMA RewriteStays ==
    ASSUME NEW p \in LicenseProcesses, RewriteIsRight(p),
           writes'[p] = writes[p], rewrite'[p] = rewrite[p], read'[p] = read[p],
           \A q \in LicenseProcesses : rewrite'[q] # "no" => rewrite[q] # "no",
           store' = store, tmp' = tmp, kept' = kept, ~harmed' => ~harmed
    PROVE  RewriteIsRight(p)'
  BY DEF RewriteIsRight, LandsAs

\* A process that neither edits nor rewrites goes on to something that does not edit.
LEMMA CalmStep ==
    ASSUME LicenseInv, NEW p \in LicenseProcesses, NEW s \in Calm \cup {"counting"},
           licenseState' = [licenseState EXCEPT ![p] = s],
           licenseIssued' = licenseIssued, reported' = reported, harmed' = harmed,
           store' = store, kept' = kept, tmp' = tmp,
           NEW m, DOMAIN m = Names3, read' = [read EXCEPT ![p] = m],
           rewrite' = [rewrite EXCEPT ![p] = "no"],
           NEW w, writes' = [writes EXCEPT ![p] = w],
           s \in Calm => w = <<>>,
           s = "counting" => w = <<>> \/ \E n : w = <<<<"trialRuns", n>>>>
    PROVE  LicenseInv'
  <1>2. /\ licenseState'[p] = s /\ writes'[p] = w /\ rewrite'[p] = "no" /\ read'[p] = m
        /\ \A q \in LicenseProcesses \ {p} :
             /\ licenseState'[q] = licenseState[q] /\ writes'[q] = writes[q]
             /\ rewrite'[q] = rewrite[q] /\ read'[q] = read[q]
    BY DEF LicenseInv, LicenseTypes
  <1>1. LicenseTypes'
    <2>1. \A q \in LicenseProcesses : DOMAIN read'[q] = Names3
      BY <1>2 DEF LicenseInv, LicenseTypes
    <2> QED BY <2>1 DEF LicenseInv, LicenseTypes
  <1>3. s \notin Editing
    BY DEF Calm, Editing
  <1>4. OneUserEdits' /\ ReportStands'
    BY <1>2, <1>3 DEF LicenseInv, OneUserEdits, ReportStands
  <1>5. WritesLeft(p)' /\ RewriteIsRight(p)'
    BY <1>2, <1>3 DEF WritesLeft, RewriteIsRight, Editing
  <1>6. ASSUME NEW q \in LicenseProcesses, q # p PROVE WritesLeft(q)' /\ RewriteIsRight(q)'
    <2>1. RewriteIsRight(q) /\ \A r \in LicenseProcesses : rewrite'[r] # "no" => rewrite[r] # "no"
      BY <1>2 DEF LicenseInv
    <2>2. RewriteIsRight(q)'
      BY <1>2, <1>6, <2>1, RewriteStays
    <2> QED BY <1>2, <1>6, <2>2 DEF LicenseInv, WritesLeft
  <1> QED BY <1>1, <1>4, <1>5, <1>6 DEF LicenseInv

\* A user who is alone at the keys begins to edit.
LEMMA EditBegins ==
    ASSUME LicenseInv, NEW p \in LicenseProcesses, NEW s \in Editing,
           \A q \in LicenseProcesses \ {p} : licenseState[q] \notin Editing,
           licenseState' = [licenseState EXCEPT ![p] = s], rewrite[p] = "no",
           reported' = 0, UNCHANGED <<store, kept, tmp, read, rewrite>>, licenseIssued' \in Nat,
           \/ harmed' = harmed
           \/ harmed' = \E q \in LicenseProcesses : rewrite[q] # "no",
           NEW w, writes' = [writes EXCEPT ![p] = w],
           s = "saving" => licenseIssued' # 0 /\ w = BothValues(licenseIssued'),
           s = "clearing" => w = BothValues(0)
    PROVE  LicenseInv'
  <1>1. LicenseTypes'
    BY DEF LicenseInv, LicenseTypes
  <1>2. licenseState'[p] = s /\ writes'[p] = w
        /\ \A q \in LicenseProcesses \ {p} : licenseState'[q] = licenseState[q]
                                             /\ writes'[q] = writes[q]
    BY DEF LicenseInv, LicenseTypes
  <1>3. OneUserEdits' /\ ReportStands'
    BY <1>2 DEF LicenseInv, OneUserEdits, ReportStands
  <1>4. WritesLeft(p)' /\ RewriteIsRight(p)'
    BY <1>2 DEF WritesLeft, RewriteIsRight, Editing, Calm
  <1>5. ASSUME NEW q \in LicenseProcesses, q # p PROVE WritesLeft(q)' /\ RewriteIsRight(q)'
    <2>1. licenseState[q] \notin Editing /\ licenseState'[q] = licenseState[q]
          /\ writes'[q] = writes[q]
      BY <1>2, <1>5
    <2>2. RewriteIsRight(q)'
      <3>1. RewriteIsRight(q)
        BY DEF LicenseInv
      <3>2. CASE harmed' = harmed
        BY <2>1, <3>1, <3>2, RewriteStays
      <3>3. CASE harmed' = \E r \in LicenseProcesses : rewrite[r] # "no"
        <4>1. harmed' \/ rewrite[q] = "no"
          BY <3>3
        <4> QED BY <2>1, <3>1, <4>1 DEF RewriteIsRight
      <3> QED BY <3>2, <3>3
    <2> QED BY <2>1, <2>2 DEF LicenseInv, WritesLeft, Editing
  <1> QED BY <1>1, <1>3, <1>4, <1>5 DEF LicenseInv

\* The process that rewrites the file has come a step further, and not to its end.
LEMMA RewriteGoesOn ==
    ASSUME LicenseInv, NEW p \in LicenseProcesses, writes[p] # <<>>, store = "file",
           UNCHANGED <<store, licenseState, writes, licenseIssued, reported, kept>>,
           NEW s, rewrite' = [rewrite EXCEPT ![p] = s],
           NEW m, DOMAIN m = Names3, read' = [read EXCEPT ![p] = m],
           tmp' # <<>> => DOMAIN tmp'[1] = Names3,
           ~harmed' => ~harmed /\ \A q \in LicenseProcesses : q # p => rewrite[q] = "no",
           ~harmed' /\ s = "read" => LandsAs(m, p),
           ~harmed' /\ s = "written" => tmp' # <<>> /\ LandsAs(tmp'[1], p)
    PROVE  LicenseInv'
  <1>1. /\ rewrite'[p] = s /\ read'[p] = m
        /\ \A q \in LicenseProcesses \ {p} : rewrite'[q] = rewrite[q] /\ read'[q] = read[q]
    BY DEF LicenseInv, LicenseTypes
  <1>2. LicenseTypes'
    <2>1. \A q \in LicenseProcesses : DOMAIN read'[q] = Names3
      BY <1>1 DEF LicenseInv, LicenseTypes
    <2> QED BY <2>1 DEF LicenseInv, LicenseTypes
  <1>3. OneUserEdits' /\ ReportStands'
    BY DEF LicenseInv, OneUserEdits, ReportStands
  <1>4. ASSUME NEW q \in LicenseProcesses PROVE WritesLeft(q)'
    <2>1. WritesLeft(q)
      BY DEF LicenseInv
    <2> QED BY <2>1 DEF WritesLeft
  <1>5. RewriteIsRight(p)'
    <2>1. ~harmed' => \A q \in LicenseProcesses : q # p => rewrite'[q] = "no"
      BY <1>1
    <2>2. /\ ~harmed' /\ s = "read" => LandsAs(read[p], p)'
          /\ ~harmed' /\ s = "written" => tmp' # <<>> /\ LandsAs(tmp[1], p)'
      BY <1>1 DEF LandsAs
    <2> QED BY <1>1, <2>1, <2>2 DEF RewriteIsRight
  <1>6. ASSUME NEW q \in LicenseProcesses, q # p PROVE RewriteIsRight(q)'
    <2>1. RewriteIsRight(q) /\ rewrite'[q] = rewrite[q]
      BY <1>1, <1>6 DEF LicenseInv
    <2>2. ~harmed' => rewrite'[q] = "no"
      BY <1>1, <1>6
    <2> QED BY <2>1, <2>2 DEF RewriteIsRight
  <1> QED BY <1>2, <1>3, <1>4, <1>5, <1>6 DEF LicenseInv

\* A write is over: its value is stored as it should be, or something failed.
LEMMA WriteReturns ==
    ASSUME LicenseInv, NEW p \in LicenseProcesses, writes[p] # <<>>,
           UNCHANGED <<store, licenseState, licenseIssued, reported>>,
           writes' = [writes EXCEPT ![p] = Tail(writes[p])],
           rewrite' = [rewrite EXCEPT ![p] = "no"],
           NEW m, DOMAIN m = Names3, read' = [read EXCEPT ![p] = m],
           DOMAIN kept' = Names3, tmp' # <<>> => DOMAIN tmp'[1] = Names3,
           ~harmed' => ~harmed,
           \/ harmed'
           \/ /\ LandsAs(kept', p)
              /\ \A q \in LicenseProcesses : q # p => rewrite[q] = "no"
           \/ /\ kept' = kept /\ licenseState[p] # "saving"
              /\ \A q \in LicenseProcesses : q # p => rewrite[q] = "no"
    PROVE  LicenseInv'
  <1> DEFINE w == Head(writes[p])
  <1>1. /\ rewrite'[p] = "no" /\ read'[p] = m /\ writes'[p] = Tail(writes[p])
        /\ \A q \in LicenseProcesses \ {p} : /\ rewrite'[q] = rewrite[q] /\ read'[q] = read[q]
                                             /\ writes'[q] = writes[q]
    BY DEF LicenseInv, LicenseTypes
  <1>2. LicenseTypes' /\ OneUserEdits'
    <2>1. \A q \in LicenseProcesses : DOMAIN read'[q] = Names3
      BY <1>1 DEF LicenseInv, LicenseTypes
    <2> QED BY <2>1 DEF LicenseInv, LicenseTypes, OneUserEdits
  <1>3. ASSUME NEW q \in LicenseProcesses PROVE RewriteIsRight(q)'
    <2>1. RewriteIsRight(q)
      BY DEF LicenseInv
    <2>2. rewrite'[q] # "no" => store' = "file" /\ writes'[q] # <<>>
      BY <1>1, <2>1 DEF RewriteIsRight
    <2>3. CASE harmed'
      BY <2>2, <2>3 DEF RewriteIsRight
    <2>4. CASE ~harmed'
      BY <1>1, <2>2, <2>4 DEF RewriteIsRight
    <2> QED BY <2>3, <2>4
  <1>s. licenseState[p] \in {"saving", "clearing", "counting"}
    BY DEF LicenseInv, LicenseTypes, WritesLeft, Editing
  <1>4. CASE licenseState[p] = "counting"
    <2>1. PICK n : writes[p] = <<<<"trialRuns", n>>>>
      BY <1>4 DEF LicenseInv, WritesLeft
    <2>2. w = <<"trialRuns", n>> /\ writes'[p] = <<>>
      BY <2>1, <1>1, ShortWrites, Zenon
    <2>3. w[1] = "trialRuns"
      BY <2>2
    <2>4. ~harmed' => kept'.token = kept.token /\ kept'.sig = kept.sig
      <3>1. LandsAs(kept', p) => kept'.token = kept.token /\ kept'.sig = kept.sig
        BY <2>3 DEF LandsAs, LicenseInv, LicenseTypes
      <3> QED BY <3>1
    <2>5. ReportStands'
      BY <2>4 DEF LicenseInv, ReportStands
    <2>6. WritesLeft(p)'
      BY <2>2, <1>4 DEF WritesLeft, Calm
    <2>7. ASSUME NEW q \in LicenseProcesses, q # p PROVE WritesLeft(q)'
      <3>1. WritesLeft(q) /\ writes'[q] = writes[q]
        BY <1>1, <2>7 DEF LicenseInv
      <3> QED BY <2>4, <3>1 DEF WritesLeft
    <2> QED BY <1>2, <1>3, <2>5, <2>6, <2>7 DEF LicenseInv
  <1>5. CASE licenseState[p] \in Editing
    <2>1. \A q \in LicenseProcesses \ {p} : licenseState[q] \notin Editing
      BY <1>5 DEF LicenseInv, OneUserEdits
    <2>2. reported = 0
      BY <1>5 DEF LicenseInv, ReportStands
    <2>3. ReportStands'
      BY <2>2 DEF ReportStands
    <2>4. ASSUME NEW q \in LicenseProcesses, q # p PROVE WritesLeft(q)'
      <3>1. WritesLeft(q) /\ writes'[q] = writes[q] /\ licenseState[q] \notin Editing
        BY <1>1, <2>1, <2>4 DEF LicenseInv
      <3> QED BY <3>1 DEF WritesLeft, Editing
    <2>5. WritesLeft(p)'
      <3>1. CASE licenseState[p] = "clearing"
        <4>1. writes[p] \in {BothValues(0), LastValue(0)}
          BY <3>1 DEF LicenseInv, WritesLeft
        <4>2. writes'[p] \in {LastValue(0), <<>>}
          BY <4>1, <1>1, ShortWrites, Zenon
        <4> QED BY <4>2, <3>1 DEF WritesLeft, Calm
      <3>2. CASE licenseState[p] = "saving" /\ writes[p] = BothValues(licenseIssued)
        <4>1. w = <<"token", licenseIssued>> /\ writes'[p] = LastValue(licenseIssued)
          BY <3>2, <1>1, ShortWrites, Zenon
        <4>2. ~harmed' => kept'.token = licenseIssued
          <5>1. LandsAs(kept', p) => kept'.token = licenseIssued
            BY <4>1 DEF LandsAs, LicenseInv, LicenseTypes, Names3
          <5> QED BY <3>2, <5>1
        <4>3. licenseIssued # 0
          BY <3>2 DEF LicenseInv, WritesLeft
        <4> QED BY <4>1, <4>2, <4>3, <3>2 DEF WritesLeft, Calm
      <3>3. CASE licenseState[p] = "saving" /\ writes[p] # BothValues(licenseIssued)
        <4>1. writes[p] = LastValue(licenseIssued) /\ (~harmed => kept.token = licenseIssued)
              /\ licenseIssued # 0
          BY <3>3 DEF LicenseInv, WritesLeft
        <4>0. writes[p] = LastValue(licenseIssued)
          BY <4>1
        <4>2. w = <<"sig", licenseIssued>> /\ writes'[p] = <<>>
          BY <4>0, <1>1, ShortWrites, Zenon
        <4>3. ~harmed' => kept'.token = licenseIssued /\ kept'.sig = licenseIssued
          <5>1. LandsAs(kept', p) => kept'.token = kept.token /\ kept'.sig = licenseIssued
            BY <4>2 DEF LandsAs, LicenseInv, LicenseTypes, Names3
          <5> QED BY <3>3, <4>1, <5>1
        <4> QED BY <4>1, <4>2, <4>3, <3>3 DEF WritesLeft, Calm
      <3> QED BY <3>1, <3>2, <3>3, <1>5 DEF Editing
    <2> QED BY <1>2, <1>3, <2>3, <2>4, <2>5 DEF LicenseInv
  <1> QED BY <1>s, <1>4, <1>5 DEF Editing

LEMMA NothingHas == DOMAIN Activation!Nothing = Names3
  BY DEF Activation!Nothing, Activation!ValueNames, Names3

\* A step of the rewriting of the file.
LEMMA FileRewritten ==
    ASSUME LicenseInv, NEW p \in LicenseProcesses, writes[p] # <<>>, Activation!WholeFile(p), store = "file",
           UNCHANGED <<store, licenseState, licenseIssued, reported>>
    PROVE  LicenseInv'
  <1> USE DEF Activation!Rewrite, Activation!Returns, Activation!Damage
  <1>r. RewriteIsRight(p) /\ LicenseTypes
    BY DEF LicenseInv
  <1>1. CASE Activation!ReadsAll(p)
    <2> DEFINE w == Head(writes[p])
    <2>1. PICK old \in {kept, Activation!Nothing} :
            /\ read' = [read EXCEPT ![p] = [old EXCEPT ![w[1]] = w[2]]]
            /\ harmed' = (harmed \/ old # kept \/ \E q \in LicenseProcesses : rewrite[q] # "no")
      BY <1>1 DEF Activation!ReadsAll
    <2>2. /\ rewrite' = [rewrite EXCEPT ![p] = "read"]
          /\ UNCHANGED <<kept, tmp, writes>>
      BY <1>1 DEF Activation!ReadsAll
    <2>3. DOMAIN [old EXCEPT ![w[1]] = w[2]] = Names3
      BY <1>r, <2>1, NothingHas DEF LicenseTypes
    <2>4. ~harmed' => old = kept /\ ~harmed
                      /\ \A q \in LicenseProcesses : q # p => rewrite[q] = "no"
      BY <2>1
    <2>5. ~harmed' => LandsAs([old EXCEPT ![w[1]] = w[2]], p)
      BY <2>4 DEF LandsAs
    <2>6. tmp' # <<>> => DOMAIN tmp'[1] = Names3
      BY <1>r, <2>2 DEF LicenseTypes
    <2>7. PICK m : m = [old EXCEPT ![w[1]] = w[2]]
      OBVIOUS
    <2>8. /\ DOMAIN m = Names3 /\ read' = [read EXCEPT ![p] = m]
          /\ ~harmed' => LandsAs(m, p)
      BY <2>1, <2>3, <2>5, <2>7, Zenon
    <2> HIDE DEF w
    <2>9. UNCHANGED <<store, licenseState, writes, licenseIssued, reported, kept>>
      BY <2>2
    <2>10. "read" # "written"
      OBVIOUS
    <2> QED BY <2>2, <2>4, <2>6, <2>8, <2>9, <2>10, RewriteGoesOn, Zenon
  <1>2. CASE Activation!WritesTmp(p)
    <2>1. /\ rewrite[p] = "read" /\ rewrite' = [rewrite EXCEPT ![p] = "written"]
          /\ read' = [read EXCEPT ![p] = Activation!Nothing]
          /\ UNCHANGED <<kept, writes>>
          /\ \/ tmp' = <<read[p]>> /\ harmed' = harmed
             \/ tmp' = <<Activation!Nothing>> /\ harmed'
      BY <1>2 DEF Activation!WritesTmp
    <2>2. tmp' # <<>> /\ DOMAIN tmp'[1] = Names3
      BY <1>r, <2>1, NothingHas DEF LicenseTypes
    <2>3. ~harmed' => /\ ~harmed /\ tmp'[1] = read[p] /\ LandsAs(read[p], p)
                      /\ \A q \in LicenseProcesses : q # p => rewrite[q] = "no"
      BY <1>r, <2>1 DEF RewriteIsRight
    <2>4. ~harmed' => LandsAs(tmp'[1], p)
      BY <2>3 DEF LandsAs
    <2>5. /\ ~harmed' => ~harmed /\ \A q \in LicenseProcesses : q # p => rewrite[q] = "no"
          /\ UNCHANGED <<store, licenseState, writes, licenseIssued, reported, kept>>
      BY <2>1, <2>3
    <2>6. /\ rewrite' = [rewrite EXCEPT ![p] = "written"]
          /\ read' = [read EXCEPT ![p] = Activation!Nothing]
          /\ "written" # "read"
      BY <2>1
    <2> QED BY <2>2, <2>4, <2>5, <2>6, NothingHas, RewriteGoesOn, Zenon
  <1>3. CASE Activation!Renames(p)
    <2>1. /\ rewrite[p] = "written" /\ rewrite' = [rewrite EXCEPT ![p] = "no"]
          /\ kept' = IF tmp = <<>> THEN kept ELSE tmp[1]
          /\ tmp' = <<>> /\ writes' = [writes EXCEPT ![p] = Tail(writes[p])]
          /\ UNCHANGED <<read, harmed>>
      BY <1>3 DEF Activation!Renames
    <2>2. DOMAIN kept' = Names3 /\ read' = [read EXCEPT ![p] = read[p]] /\ DOMAIN read[p] = Names3
      BY <1>r, <2>1 DEF LicenseTypes
    <2>3. ~harmed' => LandsAs(kept', p) /\ \A q \in LicenseProcesses : q # p => rewrite[q] = "no"
      BY <1>r, <2>1 DEF RewriteIsRight
    <2>4. ~harmed' => ~harmed
      BY <2>1
    <2> QED BY <2>1, <2>2, <2>3, <2>4, WriteReturns
  <1>4. CASE Activation!RewriteFails(p)
    <2>1. /\ rewrite' = [rewrite EXCEPT ![p] = "no"] /\ harmed' /\ kept' = kept
          /\ tmp' = tmp \/ tmp' = <<>>
          /\ writes' = [writes EXCEPT ![p] = Tail(writes[p])]
          /\ read' = [read EXCEPT ![p] = Activation!Nothing]
      BY <1>4 DEF Activation!RewriteFails
    <2>2. DOMAIN kept' = Names3 /\ (tmp' # <<>> => DOMAIN tmp'[1] = Names3)
      BY <1>r, <2>1 DEF LicenseTypes
    <2> QED BY <2>1, <2>2, NothingHas, WriteReturns
  <1> QED BY <1>1, <1>2, <1>3, <1>4 DEF Activation!WholeFile

\* A write of one value to the registry, where nobody rewrites a file.
LEMMA ValueWritten ==
    ASSUME LicenseInv, NEW p \in LicenseProcesses, writes[p] # <<>>, Activation!OneValue(p), store # "file",
           UNCHANGED <<store, licenseState, licenseIssued, reported>>
    PROVE  LicenseInv'
  <1> DEFINE w == Head(writes[p])
  <1>1. /\ \/ kept' = [kept EXCEPT ![w[1]] = w[2]] /\ harmed' = harmed
           \/ harmed' = (harmed \/ licenseState[p] = "saving") /\ kept' = kept
        /\ writes' = [writes EXCEPT ![p] = Tail(writes[p])]
        /\ UNCHANGED <<tmp, read, rewrite>>
    BY DEF Activation!OneValue, Activation!Returns, Activation!Damage
  <1>2. LicenseTypes /\ \A q \in LicenseProcesses : rewrite[q] = "no"
    BY DEF LicenseInv, RewriteIsRight
  <1>3. /\ rewrite' = [rewrite EXCEPT ![p] = "no"] /\ read' = [read EXCEPT ![p] = read[p]]
        /\ DOMAIN read[p] = Names3 /\ DOMAIN kept' = Names3
        /\ tmp' # <<>> => DOMAIN tmp'[1] = Names3
    BY <1>1, <1>2 DEF LicenseTypes
  <1>4. kept' = [kept EXCEPT ![w[1]] = w[2]] => LandsAs(kept', p)
    <2>1. PICK e : e = [kept EXCEPT ![w[1]] = w[2]]
      OBVIOUS
    <2>2. LandsAs(e, p)
      BY <2>1, Zenon DEF LandsAs
    <2>3. kept' = e => LandsAs(kept', p)
      BY <2>2, Zenon
    <2> QED BY <2>1, <2>3
  <1>5. /\ ~harmed' => ~harmed
        /\ \/ harmed' \/ LandsAs(kept', p)
           \/ kept' = kept /\ licenseState[p] # "saving"
    <2>2. CASE kept' = [kept EXCEPT ![w[1]] = w[2]] /\ harmed' = harmed
      BY <2>2, <1>4, Zenon
    <2>3. CASE harmed' = (harmed \/ licenseState[p] = "saving") /\ kept' = kept
      BY <2>3, Zenon
    <2> QED BY <1>1, <2>2, <2>3, Zenon
  <1> HIDE DEF w
  <1> QED BY <1>1, <1>2, <1>3, <1>5, WriteReturns

LEMMA LicenseStep ==
    ASSUME LicenseInv, [Activation!Next]_(Activation!vars)
    PROVE  LicenseInv'
  <1> USE DEF Activation!Move, Activation!Saving, Activation!None, Activation!files
  <1>w. ASSUME NEW p \in LicenseProcesses
        PROVE  /\ licenseState[p] \in Calm => writes[p] = <<>>
               /\ writes[p] = <<>> => rewrite = [rewrite EXCEPT ![p] = "no"] /\ rewrite[p] = "no"
               /\ writes = [writes EXCEPT ![p] = writes[p]]
               /\ read = [read EXCEPT ![p] = read[p]] /\ DOMAIN read[p] = Names3
    <2>1. writes[p] = <<>> => rewrite[p] = "no"
      BY DEF LicenseInv, RewriteIsRight
    <2> QED BY <2>1 DEF LicenseInv, LicenseTypes, WritesLeft
  <1>0. CASE UNCHANGED Activation!vars
    BY <1>0 DEF Activation!vars, LicenseInv, LicenseTypes, OneUserEdits, ReportStands, WritesLeft,
                RewriteIsRight, LandsAs
  <1>1. ASSUME NEW p \in LicenseProcesses, Activation!Starts(p)
        PROVE  LicenseInv'
    <2>1. licenseState[p] = "off"
          /\ UNCHANGED <<store, kept, tmp, read, rewrite, licenseIssued, harmed>>
      BY <1>1 DEF Activation!Starts
    <2>2. /\ writes[p] = <<>> /\ rewrite[p] = "no" /\ rewrite' = [rewrite EXCEPT ![p] = "no"]
          /\ read' = [read EXCEPT ![p] = read[p]] /\ DOMAIN read[p] = Names3
      BY <2>1, <1>w DEF Calm
    <2>3. \/ /\ \E s \in {"loading", "activating"} :
                  licenseState' = [licenseState EXCEPT ![p] = s]
             /\ UNCHANGED <<writes, reported>>
          \/ /\ \A q \in LicenseProcesses \ {p} : licenseState[q] \notin Activation!Changing
             /\ licenseState' = [licenseState EXCEPT ![p] = "clearing"]
             /\ writes' = [writes EXCEPT ![p] = BothValues(0)]
             /\ reported' = 0
      BY <1>1 DEF Activation!Starts, Activation!AloneAtTheKeys, BothValues, LicenseInv, LicenseTypes
    <2>4. CASE /\ \E s \in {"loading", "activating"} :
                     licenseState' = [licenseState EXCEPT ![p] = s]
               /\ UNCHANGED <<writes, reported>>
      <3>1. PICK s \in {"loading", "activating"} : licenseState' = [licenseState EXCEPT ![p] = s]
        BY <2>4
      <3>2. writes' = [writes EXCEPT ![p] = <<>>]
        BY <2>2, <2>4, <1>w
      <3>3. s \in Calm
        BY DEF Calm
      <3> QED BY <3>1, <3>2, <3>3, <2>1, <2>2, <2>4, CalmStep DEF Calm
    <2>5. CASE /\ \A q \in LicenseProcesses \ {p} : licenseState[q] \notin Activation!Changing
               /\ licenseState' = [licenseState EXCEPT ![p] = "clearing"]
               /\ writes' = [writes EXCEPT ![p] = BothValues(0)]
               /\ reported' = 0
      <3>1. \A q \in LicenseProcesses \ {p} : licenseState[q] \notin Editing
        BY <2>5 DEF Activation!Changing, Editing
      <3>2. licenseIssued' \in Nat
        BY <2>1 DEF LicenseInv, LicenseTypes
      <3> QED BY <3>1, <3>2, <2>1, <2>2, <2>5, EditBegins DEF Editing
    <2> QED BY <2>3, <2>4, <2>5
  <1>2. ASSUME NEW p \in LicenseProcesses,
               \/ Activation!LoadsToken(p) \/ Activation!Evaluates(p) \/ Activation!Answers(p)
               \/ Activation!NotActivated(p)
        PROVE  LicenseInv'
    <2>1. /\ licenseState[p] \in Calm
          /\ \E s \in Calm : licenseState' = [licenseState EXCEPT ![p] = s]
          /\ UNCHANGED <<store, kept, tmp, rewrite, licenseIssued, reported, harmed, writes>>
      BY <1>2 DEF Activation!LoadsToken, Activation!Evaluates, Activation!Answers,
         Activation!NotActivated, Calm
    <2>2. PICK s \in Calm : licenseState' = [licenseState EXCEPT ![p] = s]
      BY <2>1
    <2>3. /\ writes' = [writes EXCEPT ![p] = <<>>] /\ s # "counting"
          /\ rewrite' = [rewrite EXCEPT ![p] = "no"]
      BY <2>1, <1>w DEF Calm
    <2>4. \E m : read' = [read EXCEPT ![p] = m] /\ DOMAIN m = Names3
      <3>1. CASE Activation!LoadsToken(p)
        <4>1. read' = [read EXCEPT ![p].token = kept.token]
          BY <3>1 DEF Activation!LoadsToken
        <4>2. read' = [read EXCEPT ![p] = [read[p] EXCEPT !.token = kept.token]]
          BY <4>1
        <4>3. DOMAIN [read[p] EXCEPT !.token = kept.token] = Names3
          BY <1>w
        <4> QED BY <4>2, <4>3
      <3>2. CASE Activation!Evaluates(p)
        BY <3>2, NothingHas DEF Activation!Evaluates
      <3>3. CASE Activation!Answers(p) \/ Activation!NotActivated(p)
        BY <3>3, <1>w DEF Activation!Answers, Activation!NotActivated
      <3> QED BY <1>2, <3>1, <3>2, <3>3
    <2>5. PICK m : read' = [read EXCEPT ![p] = m] /\ DOMAIN m = Names3
      BY <2>4
    <2> QED BY <2>1, <2>2, <2>3, <2>5, CalmStep
  <1>3. ASSUME NEW p \in LicenseProcesses, Activation!Issues(p)
        PROVE  LicenseInv'
    <2>1. /\ licenseIssued' = licenseIssued + 1
          /\ writes' = [writes EXCEPT
                          ![p] = [i \in 1..2 |-> <<Activation!Activation[i], licenseIssued'>>]]
          /\ licenseState' = [licenseState EXCEPT ![p] = "saving"]
          /\ reported' = 0 /\ UNCHANGED <<store, kept, tmp, read, rewrite>>
          /\ writes[p] = <<>>
          /\ harmed' = \E q \in LicenseProcesses : rewrite[q] # "no"
          /\ \A q \in LicenseProcesses \ {p} : licenseState[q] \notin Activation!Changing
      BY <1>3 DEF Activation!Issues, Activation!AloneAtTheKeys
    <2>2. licenseIssued' \in Nat /\ licenseIssued' # 0
      BY <2>1 DEF LicenseInv, LicenseTypes
    <2>3. writes' = [writes EXCEPT ![p] = BothValues(licenseIssued')]
      BY <2>1, ShortWrites, Zenon
    <2>4. \A q \in LicenseProcesses \ {p} : licenseState[q] \notin Editing
      BY <2>1 DEF Activation!Changing, Editing
    <2>5. rewrite[p] = "no"
      BY <2>1, <1>w
    <2> QED BY <2>1, <2>2, <2>3, <2>4, <2>5, EditBegins DEF Editing
  <1>4. ASSUME NEW p \in LicenseProcesses, Activation!Writes(p)
        PROVE  LicenseInv'
    <2>1. writes[p] # <<>> /\ UNCHANGED <<store, licenseState, licenseIssued, reported>>
          /\ IF store = "file" THEN Activation!WholeFile(p) ELSE Activation!OneValue(p)
      BY <1>4 DEF Activation!Writes
    <2> QED BY <2>1, ValueWritten, FileRewritten
  <1>5. ASSUME NEW p \in LicenseProcesses, Activation!Saved(p)
        PROVE  LicenseInv'
    <2>1. writes[p] = <<>>
          /\ UNCHANGED <<store, kept, tmp, read, licenseIssued, writes, rewrite, harmed>>
      BY <1>5 DEF Activation!Saved
    <2>2. /\ writes' = [writes EXCEPT ![p] = <<>>] /\ rewrite' = [rewrite EXCEPT ![p] = "no"]
          /\ read' = [read EXCEPT ![p] = read[p]] /\ DOMAIN read[p] = Names3
      BY <2>1, <1>w
    <2>3. CASE licenseState[p] = "saving"
      <3>1. /\ reported' = licenseIssued
            /\ \E s \in {"off", "activated"} : licenseState' = [licenseState EXCEPT ![p] = s]
        BY <1>5, <2>3 DEF Activation!Saved
      <3>2. ~harmed => kept.token = licenseIssued /\ kept.sig = licenseIssued
        BY <2>1, <2>3, ShortWrites DEF LicenseInv, WritesLeft
      <3>3. /\ licenseState'[p] \in Calm
            /\ \A q \in LicenseProcesses \ {p} : licenseState'[q] = licenseState[q]
        BY <3>1 DEF LicenseInv, LicenseTypes, Calm
      <3>4. \A q \in LicenseProcesses : licenseState'[q] \notin Editing
        BY <3>3, <2>3 DEF LicenseInv, OneUserEdits, Editing, Calm
      <3>5. ReportStands' /\ OneUserEdits'
        BY <3>1, <3>2, <3>4, <2>1 DEF ReportStands, OneUserEdits
      <3>6. LicenseTypes'
        BY <3>1, <2>1 DEF LicenseInv, LicenseTypes, Calm
      <3>7. WritesLeft(p)'
        BY <3>3, <2>1 DEF WritesLeft, Calm
      <3>8. ASSUME NEW q \in LicenseProcesses, q # p PROVE WritesLeft(q)'
        BY <3>3, <3>8, <2>1 DEF LicenseInv, WritesLeft
      <3>9. ASSUME NEW q \in LicenseProcesses PROVE RewriteIsRight(q)'
        <4>1. RewriteIsRight(q)
          BY DEF LicenseInv
        <4> QED BY <2>1, <4>1, RewriteStays
      <3> QED BY <3>5, <3>6, <3>7, <3>8, <3>9 DEF LicenseInv
    <2>4. CASE licenseState[p] # "saving"
      <3>1. /\ \E s \in {"off", "counted"} : licenseState' = [licenseState EXCEPT ![p] = s]
            /\ reported' = reported
        BY <1>5, <2>4 DEF Activation!Saved
      <3>2. PICK s \in {"off", "counted"} : licenseState' = [licenseState EXCEPT ![p] = s]
        BY <3>1
      <3>3. s \in Calm /\ s # "counting"
        BY DEF Calm
      <3> QED BY <3>1, <3>2, <3>3, <2>1, <2>2, CalmStep
    <2> QED BY <2>3, <2>4
  <1>6. ASSUME NEW p \in LicenseProcesses, Activation!CountsRun(p)
        PROVE  LicenseInv'
    <2>1. /\ licenseState[p] = "trial"
          /\ UNCHANGED <<store, kept, tmp, read, rewrite, licenseIssued, reported, harmed>>
          /\ \/ /\ writes' = [writes EXCEPT ![p] = <<<<"trialRuns", run[p]>>>>]
                /\ licenseState' = [licenseState EXCEPT ![p] = "counting"]
             \/ /\ UNCHANGED writes
                /\ licenseState' = [licenseState EXCEPT ![p] = "counted"]
      BY <1>6 DEF Activation!CountsRun
    <2>c. /\ rewrite' = [rewrite EXCEPT ![p] = "no"]
          /\ read' = [read EXCEPT ![p] = read[p]] /\ DOMAIN read[p] = Names3
      BY <2>1, <1>w DEF Calm
    <2>2. CASE /\ writes' = [writes EXCEPT ![p] = <<<<"trialRuns", run[p]>>>>]
               /\ licenseState' = [licenseState EXCEPT ![p] = "counting"]
      <3>1. "counting" \notin Calm
        BY DEF Calm
      <3> QED BY <2>1, <2>2, <2>c, <3>1, CalmStep
    <2>3. CASE /\ UNCHANGED writes
               /\ licenseState' = [licenseState EXCEPT ![p] = "counted"]
      <3>1. writes' = [writes EXCEPT ![p] = <<>>] /\ "counted" \in Calm
        BY <2>1, <2>3, <1>w DEF Calm
      <3> QED BY <2>1, <2>3, <2>c, <3>1, CalmStep
    <2> QED BY <2>1, <2>2, <2>3
  <1>7. ASSUME NEW p \in LicenseProcesses, Activation!Ends(p)
        PROVE  LicenseInv'
    <2>1. "off" \in Calm
      BY DEF Calm
    <2>2. /\ licenseState' = [licenseState EXCEPT ![p] = "off"]
          /\ writes' = [writes EXCEPT ![p] = <<>>]
          /\ rewrite' = [rewrite EXCEPT ![p] = "no"]
          /\ read' = [read EXCEPT ![p] = Activation!Nothing]
          /\ UNCHANGED <<store, kept, tmp, licenseIssued, reported, harmed>>
      BY <1>7 DEF Activation!Ends, Activation!Rewrite
    <2> QED BY <2>1, <2>2, NothingHas, CalmStep
  <1> QED BY <1>0, <1>1, <1>2, <1>3, <1>4, <1>5, <1>6, <1>7 DEF Activation!Next

(* In either build, for any number of copies of the program: an activation *)
(* that was reported stays stored until the user activates again or        *)
(* deactivates, whatever trial runs other copies count meanwhile and        *)
(* wherever they are killed, unless one of its own writes failed unnoticed *)
(* or, for the file, a later write failed or two copies rewrote it at once *)
(* (activate, commitTrialRun, regWriteStr, posixWriteStr).                 *)
THEOREM ReportsAreKept == Activation!Spec => []ReportedIsKept
  <1>1. Activation!Init => LicenseInv
    <2> SUFFICES ASSUME Activation!Init PROVE LicenseInv
      OBVIOUS
    <2>1. LicenseTypes
      <3>1. \A p \in LicenseProcesses : read[p] = Activation!Nothing
        BY DEF Activation!Init
      <3> QED BY <3>1, NothingHas DEF Activation!Init, LicenseTypes, Calm
    <2>2. \A p \in LicenseProcesses : WritesLeft(p) /\ RewriteIsRight(p)
      BY DEF Activation!Init, WritesLeft, RewriteIsRight, Calm
    <2>3. OneUserEdits /\ ReportStands
      BY DEF Activation!Init, Activation!None, OneUserEdits, ReportStands, Editing
    <2> QED BY <2>1, <2>2, <2>3 DEF LicenseInv
  <1>2. LicenseInv /\ [Activation!Next]_(Activation!vars) => LicenseInv'
    BY LicenseStep
  <1>3. LicenseInv => ReportedIsKept
    BY DEF LicenseInv, ReportStands, ReportedIsKept, Activation!ReportedIsKept,
       Activation!Verified, Activation!None
  <1> QED BY <1>1, <1>2, <1>3, PTL DEF Activation!Spec

-----------------------------------------------------------------------------
(* The cache of experts (ExpertCache).                                     *)

AtWork == {"reading", "inserting", "evicting"}

\* The types that the arguments below use.
StreamerTypes ==
    /\ expertsCache \subseteq Experts
    /\ lru \in Seq(Experts)
    /\ size \in Nat
    /\ expertsPc \in [ExpertsThreads -> {"idle"} \cup AtWork]
    /\ DOMAIN key = ExpertsThreads
    /\ \A t \in ExpertsThreads : expertsPc[t] # "idle" => key[t] \in Experts

\* What is pinned is cached and is never looked for in a file, as long as the
\* streamer is up.
PinnedStay ==
    /\ pinned \subseteq expertsCache
    /\ \A t \in ExpertsThreads : expertsPc[t] # "idle" => key[t] \notin pinned
    /\ initialized => Shared \cap location \subseteq pinned
    /\ ~initialized => \A t \in ExpertsThreads : expertsPc[t] = "idle"

\* The counter bounds the entries, and the list names each of them.
EntriesAreListed ==
    /\ Cardinality(expertsCache) <= size /\ size <= MaxCache
    /\ \A e \in expertsCache : Holds(lru, e)

StreamerInv == StreamerTypes /\ PinnedStay /\ EntriesAreListed

LEMMA StreamerCounts == \A S : Streamer!Cardinality(S) = Cardinality(S)
  BY DEF Streamer!Cardinality, Cardinality

LEMMA CacheCounts ==
    ASSUME NEW C, C \subseteq Experts
    PROVE  /\ Cardinality(C) \in Nat
           /\ \A e : Cardinality(C \ {e}) = IF e \in C THEN Cardinality(C) - 1 ELSE Cardinality(C)
           /\ \A e : Cardinality(C \cup {e}) <= Cardinality(C) + 1
  <1>1. IsFiniteSet(C)
    BY StreamerAssumption, FS_Subset
  <1>2. Cardinality(C) \in Nat
    BY <1>1, FS_CardinalityType
  <1>3. \A e : Cardinality(C \ {e}) = IF e \in C THEN Cardinality(C) - 1 ELSE Cardinality(C)
    BY <1>1, FS_RemoveElement
  <1>4. \A e : Cardinality(C \cup {e}) = IF e \in C THEN Cardinality(C) ELSE Cardinality(C) + 1
    BY <1>1, FS_AddElement
  <1>5. \A e : Cardinality(C \cup {e}) <= Cardinality(C) + 1
    BY <1>2, <1>4
  <1> QED BY <1>2, <1>3, <1>5

LEMMA StreamerMeans ==
    ASSUME StreamerInv
    PROVE  Streamer!CacheIsBounded
  <1>1. \A e \in expertsCache : e \in Streamer!ToSet(lru)
    <2> TAKE e \in expertsCache
    <2>1. PICK i \in 1..Len(lru) : lru[i] = e
      BY DEF StreamerInv, EntriesAreListed, Holds
    <2> QED BY <2>1 DEF StreamerInv, StreamerTypes, Streamer!ToSet
  <1> QED BY <1>1, StreamerCounts DEF StreamerInv, EntriesAreListed, PinnedStay,
            Streamer!CacheIsBounded

LEMMA StreamerStarts ==
    ASSUME Streamer!Init
    PROVE  StreamerInv
  <1>1. location \in SUBSET Experts
    BY DEF Streamer!Init, Streamer!ScanExpertDirectory, Streamer!ParseGGUFExpertOffsets
  <1>2. /\ pinned = Shared \cap location /\ expertsCache = pinned /\ size = Cardinality(pinned)
        /\ lru \in Streamer!SetToSeqs(pinned) /\ size <= MaxCache
        /\ expertsPc = [t \in ExpertsThreads |-> "idle"] /\ initialized = TRUE
    BY StreamerCounts DEF Streamer!Init, Streamer!PreloadSharedExperts
  <1>3. pinned \subseteq Experts /\ IsFiniteSet(pinned) /\ size \in Nat
    BY <1>1, <1>2, StreamerAssumption, FS_Subset, FS_CardinalityType
  <1>4. /\ lru \in [1..size -> pinned]
        /\ \A i, j \in 1..size : i # j => lru[i] # lru[j]
    BY <1>2, StreamerCounts DEF Streamer!SetToSeqs
  <1>5. lru \in Seq(Experts) /\ Len(lru) = size
    BY <1>3, <1>4
  <1>6. \A e \in pinned : \E i \in 1..size : lru[i] = e
    <2>1. IsFiniteSet(1..size) /\ Cardinality(1..size) = size
      BY <1>3, FS_Interval
    <2>2. lru \in Injection(1..size, pinned)
      BY <1>4 DEF Injection, IsInjective
    <2>3. lru \in Surjection(1..size, pinned)
      <3>1. Cardinality(1..size) = Cardinality(pinned)
        BY <2>1, <1>2
      <3> QED BY <3>1, <2>2, <1>3, FS_Injection
    <2> QED BY <2>3 DEF Surjection
  <1>7. EntriesAreListed
    <2>1. Cardinality(expertsCache) <= size
      BY <1>2, <1>3
    <2>2. \A e \in expertsCache : Holds(lru, e)
      BY <1>2, <1>5, <1>6 DEF Holds
    <2> QED BY <2>1, <2>2, <1>2 DEF EntriesAreListed
  <1>8. StreamerTypes /\ PinnedStay
    BY <1>2, <1>3, <1>5 DEF StreamerTypes, PinnedStay, Streamer!Init
  <1> QED BY <1>7, <1>8 DEF StreamerInv

\* touchLRU loses no key.
LEMMA TouchedKeeps ==
    ASSUME lru \in Seq(Experts), NEW k \in Experts
    PROVE  /\ Streamer!Touched(k) \in Seq(Experts)
           /\ \A x : Holds(lru, x) => Holds(Streamer!Touched(k), x)
  <1>n. DOMAIN lru = 1..Len(lru) /\ Len(lru) \in Nat
    OBVIOUS
  <1>1. CASE ~\E i \in DOMAIN lru : lru[i] = k
    BY <1>1 DEF Streamer!Touched
  <1>2. CASE \E i \in DOMAIN lru : lru[i] = k
    <2> DEFINE First(i) == lru[i] = k /\ \A j \in 1..(i - 1) : lru[j] # k
               N == {i \in 1..Len(lru) : lru[i] = k}
    <2>1. PICK at : at = CHOOSE i \in DOMAIN lru : First(i)
      OBVIOUS
    <2>2. \E i \in DOMAIN lru : First(i)
      <3>1. N # {} /\ N \subseteq Nat
        BY <1>2, <1>n
      <3> HIDE DEF N
      <3>2. PICK i \in N : \A j \in N : ~(j < i)
        BY <3>1, LeastOf
      <3>3. i \in 1..Len(lru) /\ lru[i] = k
        BY DEF N
      <3>4. \A j \in 1..(i - 1) : lru[j] # k
        BY <3>2, <3>3, <1>n DEF N
      <3> QED BY <3>3, <3>4, <1>n
    <2>3. at \in 1..Len(lru) /\ lru[at] = k
      BY <2>1, <2>2, <1>n
    <2>4. Streamer!Touched(k) =
            <<lru[at]>> \o (SubSeq(lru, 1, at - 1) \o SubSeq(lru, at + 1, Len(lru)))
      BY <1>2, <2>1, <2>3 DEF Streamer!Touched, Streamer!RemoveAt
    <2> QED BY <2>3, <2>4, MovedToFront
  <1> QED BY <1>1, <1>2

LEMMA StreamerStep == StreamerInv /\ [Streamer!Next]_(Streamer!expertVars) => StreamerInv'
  <1> SUFFICES ASSUME StreamerInv, [Streamer!Next]_(Streamer!expertVars)
               PROVE  StreamerInv'
    OBVIOUS
  <1> USE DEF Streamer!fileVars, Streamer!cacheVars, Streamer!threadVars
  <1>1. CASE UNCHANGED Streamer!expertVars
    BY <1>1 DEF Streamer!expertVars, StreamerInv, StreamerTypes, PinnedStay, EntriesAreListed
  <1>2. ASSUME NEW t \in ExpertsThreads, NEW k \in Experts,
               Streamer!Lookup(t, k) \/ Streamer!Prefetch(t, k), k \in expertsCache
        PROVE  StreamerInv'
    <2>1. /\ initialized /\ expertsPc[t] = "idle"
          /\ key' = [key EXCEPT ![t] = k] /\ lru' = Streamer!Touched(k)
          /\ UNCHANGED <<expertsPc, expertsCache, pinned, size, initialized, location>>
      BY <1>2 DEF Streamer!Lookup, Streamer!Prefetch
    <2>2. lru' \in Seq(Experts) /\ \A x : Holds(lru, x) => Holds(lru', x)
      BY <2>1, TouchedKeeps DEF StreamerInv, StreamerTypes
    <2>3. StreamerTypes'
      BY <2>1, <2>2 DEF StreamerInv, StreamerTypes
    <2>4. PinnedStay'
      BY <2>1 DEF StreamerInv, StreamerTypes, PinnedStay
    <2>5. EntriesAreListed'
      BY <2>1, <2>2 DEF StreamerInv, EntriesAreListed
    <2> QED BY <2>3, <2>4, <2>5 DEF StreamerInv
  <1>3. ASSUME NEW t \in ExpertsThreads, NEW k \in Experts,
               Streamer!Lookup(t, k) \/ Streamer!Prefetch(t, k), k \notin expertsCache
        PROVE  StreamerInv'
    <2>1. /\ initialized /\ expertsPc[t] = "idle"
          /\ key' = [key EXCEPT ![t] = k]
          /\ \/ expertsPc' = [expertsPc EXCEPT ![t] = "reading"]
             \/ expertsPc' = [expertsPc EXCEPT ![t] = "evicting"]
          /\ UNCHANGED <<lru, expertsCache, pinned, size, initialized, location>>
      BY <1>3 DEF Streamer!Lookup, Streamer!Prefetch, Streamer!ReadExpert
    <2>2. k \notin pinned
      BY <1>3 DEF StreamerInv, PinnedStay
    <2>3. StreamerTypes'
      BY <2>1 DEF StreamerInv, StreamerTypes, AtWork
    <2>4. PinnedStay'
      BY <2>1, <2>2 DEF StreamerInv, StreamerTypes, PinnedStay
    <2>5. EntriesAreListed'
      BY <2>1 DEF StreamerInv, EntriesAreListed
    <2> QED BY <2>3, <2>4, <2>5 DEF StreamerInv
  <1>4. ASSUME NEW t \in ExpertsThreads, Streamer!Read(t) \/ Streamer!Insert(t)
        PROVE  StreamerInv'
    <2>1. /\ expertsPc[t] # "idle"
          /\ \E s \in {"idle"} \cup AtWork : expertsPc' = [expertsPc EXCEPT ![t] = s]
          /\ UNCHANGED <<key, lru, expertsCache, pinned, size, initialized, location>>
      BY <1>4 DEF Streamer!Read, Streamer!Insert, Streamer!ReadExpert, AtWork
    <2>2. StreamerTypes'
      BY <2>1 DEF StreamerInv, StreamerTypes
    <2>3. PinnedStay'
      BY <2>1 DEF StreamerInv, StreamerTypes, PinnedStay
    <2>4. EntriesAreListed'
      BY <2>1 DEF StreamerInv, EntriesAreListed
    <2> QED BY <2>2, <2>3, <2>4 DEF StreamerInv
  <1>5. ASSUME NEW t \in ExpertsThreads, Streamer!Evict(t)
        PROVE  StreamerInv'
    <2>1. /\ lru # <<>> /\ Streamer!Evicted
          /\ UNCHANGED <<location, expertsPc, key, initialized>>
      BY <1>5 DEF Streamer!Evict, Streamer!EvictLRU
    <2> DEFINE victim == lru[Len(lru)]
               rest == SubSeq(lru, 1, Len(lru) - 1)
    <2>2. victim \in Experts /\ rest \in Seq(Experts)
          /\ \A x : Holds(lru, x) => x = victim \/ Holds(rest, x)
      BY <2>1, LastTaken DEF StreamerInv, StreamerTypes
    <2>3. \/ /\ victim \in pinned /\ lru' = <<victim>> \o rest
             /\ UNCHANGED <<expertsCache, pinned, size>>
          \/ /\ victim \notin pinned /\ lru' = rest
             /\ expertsCache' = expertsCache \ {victim}
             /\ size' = IF victim \in expertsCache THEN size - 1 ELSE size
             /\ UNCHANGED pinned
      BY <2>1 DEF Streamer!Evicted, Streamer!Last, Streamer!Front
    <2> HIDE DEF victim, rest
    <2>4. CASE victim \in pinned
      <3>1. /\ lru' = <<victim>> \o rest
            /\ UNCHANGED <<expertsCache, pinned, size, location, expertsPc, key, initialized>>
        BY <2>1, <2>3, <2>4
      <3>2. lru' \in Seq(Experts) /\ \A x : Holds(lru, x) => Holds(lru', x)
        BY <3>1, <2>2, FirstAdded
      <3>3. StreamerTypes' /\ PinnedStay'
        BY <3>1, <3>2 DEF StreamerInv, StreamerTypes, PinnedStay
      <3>4. EntriesAreListed'
        BY <3>1, <3>2 DEF StreamerInv, EntriesAreListed
      <3> QED BY <3>3, <3>4 DEF StreamerInv
    <2>5. CASE victim \notin pinned
      <3>1. /\ lru' = rest /\ expertsCache' = expertsCache \ {victim}
            /\ size' = IF victim \in expertsCache THEN size - 1 ELSE size
            /\ UNCHANGED <<pinned, location, expertsPc, key, initialized>>
        BY <2>1, <2>3, <2>5
      <3>2. /\ Cardinality(expertsCache) \in Nat
            /\ Cardinality(expertsCache') =
                 IF victim \in expertsCache THEN Cardinality(expertsCache) - 1
                                            ELSE Cardinality(expertsCache)
            /\ Cardinality(expertsCache') \in Nat
        BY <3>1, CacheCounts DEF StreamerInv, StreamerTypes
      <3>3. size' \in Nat /\ Cardinality(expertsCache') <= size' /\ size' <= MaxCache
        <4>1. size \in Nat /\ MaxCache \in Nat /\ Cardinality(expertsCache) <= size
              /\ size <= MaxCache
          BY StreamerAssumption DEF StreamerInv, StreamerTypes, EntriesAreListed
        <4> QED BY <4>1, <3>1, <3>2
      <3>4. \A e \in expertsCache' : Holds(lru', e)
        BY <3>1, <2>2 DEF StreamerInv, EntriesAreListed
      <3>5. StreamerTypes' /\ PinnedStay'
        BY <3>1, <3>3, <2>2, <2>5 DEF StreamerInv, StreamerTypes, PinnedStay
      <3> QED BY <3>3, <3>4, <3>5 DEF StreamerInv, EntriesAreListed
    <2> QED BY <2>4, <2>5
  <1>6. ASSUME NEW t \in ExpertsThreads, Streamer!Inserted(t)
        PROVE  StreamerInv'
    <2>1. /\ expertsPc[t] = "evicting" /\ expertsPc' = [expertsPc EXCEPT ![t] = "idle"]
          /\ UNCHANGED <<location, key, initialized>>
      BY <1>6 DEF Streamer!Inserted
    <2>2. CASE Streamer!NoRoom
      <3>1. UNCHANGED <<expertsCache, pinned, lru, size>>
        BY <1>6, <2>2 DEF Streamer!Inserted
      <3>2. StreamerTypes' /\ PinnedStay'
        BY <2>1, <3>1 DEF StreamerInv, StreamerTypes, PinnedStay
      <3>3. EntriesAreListed'
        BY <3>1 DEF StreamerInv, EntriesAreListed
      <3> QED BY <3>2, <3>3 DEF StreamerInv
    <2>3. CASE ~Streamer!NoRoom
      <3>1. /\ lru' = <<key[t]>> \o lru /\ expertsCache' = expertsCache \cup {key[t]}
            /\ size' = size + 1 /\ pinned' = pinned \ {key[t]}
        BY <1>6, <2>3 DEF Streamer!Inserted, Streamer!Locked
      <3>2. key[t] \in Experts /\ key[t] \notin pinned
        BY <2>1 DEF StreamerInv, StreamerTypes, PinnedStay
      <3>3. lru' \in Seq(Experts) /\ \A x : Holds(lru', x) <=> x = key[t] \/ Holds(lru, x)
        BY <3>1, <3>2, FirstAdded DEF StreamerInv, StreamerTypes
      <3>4. /\ Cardinality(expertsCache) \in Nat /\ Cardinality(expertsCache') \in Nat
            /\ Cardinality(expertsCache') <= Cardinality(expertsCache) + 1
        BY <3>1, <3>2, CacheCounts DEF StreamerInv, StreamerTypes
      <3>5. size' \in Nat /\ Cardinality(expertsCache') <= size' /\ size' <= MaxCache
        <4>1. size \in Nat /\ MaxCache \in Nat /\ Cardinality(expertsCache) <= size
              /\ ~(size + 1 > MaxCache)
          BY <2>3, StreamerAssumption DEF StreamerInv, StreamerTypes, EntriesAreListed,
             Streamer!NoRoom
        <4> QED BY <4>1, <3>1, <3>4
      <3>6. \A e \in expertsCache' : Holds(lru', e)
        BY <3>1, <3>3 DEF StreamerInv, EntriesAreListed
      <3>7. pinned' = pinned
        BY <3>1, <3>2
      <3>8. StreamerTypes'
        BY <2>1, <3>1, <3>2, <3>3, <3>5 DEF StreamerInv, StreamerTypes
      <3>9. PinnedStay'
        BY <2>1, <3>1, <3>2, <3>7 DEF StreamerInv, StreamerTypes, PinnedStay
      <3> QED BY <3>5, <3>6, <3>8, <3>9 DEF StreamerInv, EntriesAreListed
    <2> QED BY <2>2, <2>3
  <1>7. ASSUME Streamer!Shutdown
        PROVE  StreamerInv'
    <2>1. /\ \A t \in ExpertsThreads : expertsPc[t] = "idle"
          /\ expertsCache' = {} /\ pinned' = {} /\ lru' = <<>> /\ size' = 0
          /\ initialized' = FALSE /\ UNCHANGED <<expertsPc, key, location>>
      BY <1>7 DEF Streamer!Shutdown
    <2>2. Cardinality(expertsCache') = 0
      BY <2>1, FS_EmptySet
    <2>3. EntriesAreListed'
      BY <2>1, <2>2, StreamerAssumption DEF EntriesAreListed
    <2>4. StreamerTypes' /\ PinnedStay'
      BY <2>1 DEF StreamerInv, StreamerTypes, PinnedStay
    <2> QED BY <2>3, <2>4 DEF StreamerInv
  <1> QED BY <1>1, <1>2, <1>3, <1>4, <1>5, <1>6, <1>7 DEF Streamer!Next

(* For any number of threads, experts and any size of the cache, the cache *)
(* stays in its bound, every entry can be evicted, and the shared experts  *)
(* stay in it until shutdown, whatever the threads look up, miss and       *)
(* prefetch meanwhile (insertCache and evictLRU, under m_cacheMutex).      *)
THEOREM CacheStaysBounded == Streamer!Spec => []CacheIsBounded
  <1>1. Streamer!Spec => []StreamerInv
    BY StreamerStarts, StreamerStep, PTL DEF Streamer!Spec
  <1>2. StreamerInv => CacheIsBounded
    BY StreamerMeans DEF CacheIsBounded
  <1> QED BY <1>1, <1>2, PTL

-----------------------------------------------------------------------------
(* The local model (LocalModel).                                           *)

Generating == {"prefill", "decode"}

\* The types that the arguments below use.
ModelTypes ==
    /\ nCtx \in Nat
    /\ memory = [c \in Callers |-> memory[c]] /\ llmPc = [c \in Callers |-> llmPc[c]]
    /\ input = [c \in Callers |-> input[c]] /\ fed = [c \in Callers |-> fed[c]]
    /\ met = [c \in Callers |-> met[c]]
    /\ \A c \in Callers : llmPc[c] \in Generating \union {"idle"}

\* A call that met no other has the context to itself: it holds what the call
\* fed and no more.
ContextIsItsOwn ==
    \A c \in Callers :
        llmPc[c] \in Generating /\ ~met[c] =>
            /\ memory[c] = fed[c] /\ stale = 0
            /\ \A d \in Callers : d # c => llmPc[d] = "idle" /\ memory[d] = 0

\* The prompt leaves the answer its room.
AnswerHasRoom ==
    \A c \in Callers : llmPc[c] \in Generating => input[c] + MaxTokens <= nCtx

ModelInv == ModelTypes /\ ContextIsItsOwn /\ AnswerHasRoom

LEMMA CutLeavesRoom ==
    ASSUME ModelTypes, NEW n \in Lengths
    PROVE  Model!CutLength(n) + MaxTokens <= nCtx
  <1>1. /\ n \in Int /\ nCtx \in Int /\ MaxTokens \in Int /\ KeepFront \in Int /\ Reserve \in Int
        /\ Reserve >= 0
    BY ModelAssumption DEF ModelTypes
  <1> QED BY <1>1 DEF Model!CutLength, Model!KeepBack, Model!Room

LEMMA ModelInitially == Model!Init => ModelInv
  BY ModelAssumption
     DEF Model!Init, ModelInv, ModelTypes, ContextIsItsOwn, AnswerHasRoom, Generating

\* A call begins: the memory is its own, and whoever else was at work has met it.
LEMMA GenerateSteps ==
    ASSUME ModelInv, NEW c \in Callers, NEW n \in Lengths, Model!GenerateRaw(c, n)
    PROVE  ModelInv'
  <1> USE DEF ModelInv, ModelTypes, Generating
  <1>1. /\ nCtx' = nCtx /\ llmPc[c] = "idle"
        /\ memory' = [d \in Callers |-> 0] /\ stale' = 0
        /\ met' = [d \in Callers |-> IF d = c THEN \E e \in Callers \ {c} : llmPc[e] # "idle"
                                     ELSE met[d] \/ llmPc[d] # "idle"]
    BY DEF Model!GenerateRaw, Model!ClearMemory, Model!Cleared, Model!Meets
  <1>2. \A d \in Callers : d # c => (llmPc[d] \in Generating => met'[d])
    BY <1>1
  <1>3. ~met'[c] => \A d \in Callers : d # c => llmPc[d] = "idle"
    BY <1>1
  <1>4. met' = [d \in Callers |-> met'[d]]
    BY <1>1
  <1>5. CASE Model!Truncated(n) < 0
    <2>1. UNCHANGED <<llmPc, input, fed>>
      BY <1>5 DEF Model!GenerateRaw
    <2>2. ContextIsItsOwn'
      BY <1>1, <1>2, <2>1 DEF ContextIsItsOwn
    <2>3. AnswerHasRoom'
      BY <1>1, <2>1 DEF AnswerHasRoom
    <2> QED BY <1>1, <1>4, <2>1, <2>2, <2>3
  <1>6. CASE ~(Model!Truncated(n) < 0)
    <2>1. /\ llmPc' = [llmPc EXCEPT ![c] = "prefill"]
          /\ input' = [input EXCEPT ![c] = Model!CutLength(n)]
          /\ fed' = [fed EXCEPT ![c] = 0]
      BY <1>6 DEF Model!GenerateRaw, Model!Truncated
    <2>2. Model!CutLength(n) + MaxTokens <= nCtx
      BY CutLeavesRoom
    <2>3. /\ fed'[c] = 0 /\ input'[c] = Model!CutLength(n)
          /\ \A d \in Callers : d # c => llmPc'[d] = llmPc[d] /\ input'[d] = input[d]
          /\ \A d \in Callers : memory'[d] = 0
      BY <1>1, <2>1
    <2>4. ContextIsItsOwn'
      BY <1>1, <1>2, <1>3, <2>3 DEF ContextIsItsOwn
    <2>5. AnswerHasRoom'
      BY <1>1, <2>2, <2>3 DEF AnswerHasRoom
    <2> QED BY <1>1, <1>4, <2>1, <2>4, <2>5
  <1> QED BY <1>5, <1>6

\* A call ends: its tokens are the next call's to clear, and one that met no
\* other leaves no one at work.
LEMMA EndsSteps ==
    ASSUME ModelInv, NEW c \in Callers, NEW how, llmPc[c] \in Generating, Model!Ends(c, how)
    PROVE  ModelInv'
  <1> USE DEF ModelInv, ModelTypes, Generating
  <1>1. /\ llmPc' = [llmPc EXCEPT ![c] = "idle"] /\ memory' = [memory EXCEPT ![c] = 0]
        /\ UNCHANGED <<nCtx, input, fed, met>>
    BY DEF Model!Ends
  <1>2. \A d \in Callers : llmPc'[d] \in Generating => d # c /\ llmPc[d] = llmPc'[d] /\ met[d]
    BY <1>1 DEF ContextIsItsOwn
  <1> QED BY <1>1, <1>2 DEF ContextIsItsOwn, AnswerHasRoom

LEMMA ModelSteps ==
    ASSUME ModelInv, [Model!Next]_(Model!modelVars)
    PROVE  ModelInv'
  <1> USE DEF ModelInv, ModelTypes, Generating
  <1>1. ASSUME NEW c \in Callers, NEW n, llmPc[c] \in Generating, Model!Decodes(c, n),
               UNCHANGED <<nCtx, stale, llmPc, input, met>>
        PROVE  ModelInv'
    <2>1. /\ memory' = [memory EXCEPT ![c] = @ + n] /\ fed' = [fed EXCEPT ![c] = @ + n]
      BY <1>1 DEF Model!Decodes
    <2>2. ContextIsItsOwn'
      BY <1>1, <2>1 DEF ContextIsItsOwn
    <2> QED BY <1>1, <2>1, <2>2 DEF AnswerHasRoom
  <1>2. ASSUME NEW c \in Callers, Model!Prefilled(c)
        PROVE  ModelInv'
    BY <1>2 DEF Model!Prefilled, ContextIsItsOwn, AnswerHasRoom
  <1>3. ASSUME UNCHANGED <<nCtx, memory, stale, llmPc, input, fed, met>>
        PROVE  ModelInv'
    BY <1>3 DEF ContextIsItsOwn, AnswerHasRoom
  <1>4. ASSUME NEW c \in Callers, Model!Prefill(c) \/ Model!Token(c)
        PROVE  ModelInv'
    BY <1>1, <1>4 DEF Model!Prefill, Model!Token
  <1>5. ASSUME NEW c \in Callers, Model!DecodeFails(c) \/ Model!Complete(c)
        PROVE  ModelInv'
    BY <1>5, EndsSteps DEF Model!DecodeFails, Model!Complete
  <1> QED BY <1>2, <1>3, <1>4, <1>5, GenerateSteps
          DEF Model!Next, Model!NothingToFeed, Model!modelVars

\* Whatever was in the context before, a call that no other one meets samples
\* each token from its own prompt and answer and nothing else, and the answer
\* fits (generateRaw clears the memory of the context and cuts the prompt).
THEOREM AnswersAreTheCallersOwn == Model!Spec => []AnswersComeFromThePrompt
  <1>1. ModelInv => AnswersComeFromThePrompt
    BY DEF ModelInv, ContextIsItsOwn, AnswerHasRoom, Generating, AnswersComeFromThePrompt,
       Model!AnswersComeFromThePrompt
  <1>2. ModelInv /\ [Model!Next]_(Model!modelVars) => ModelInv'
    BY ModelSteps
  <1> QED BY <1>1, <1>2, ModelInitially, PTL DEF Model!Spec

-----------------------------------------------------------------------------
(* The components side by side.                                            *)

\* Each component starts in one of its initial states,
LEMMA InitOfEach ==
    SideBySideInit => /\ Offers!Init /\ Loops!Init /\ Memories!Init /\ FileTool!Init
                      /\ Login!Init /\ Streamer!Init
  BY DEF SideBySideInit

\* and makes its own step or none.
LEMMA StepOfEach ==
    [SideBySideNext]_allVars =>
        /\ [Offers!Next]_(Offers!vars) /\ [Loops!Next]_(Loops!vars)
        /\ [Memories!Next]_(Memories!vars) /\ [FileTool!Next]_(FileTool!vars)
        /\ [Login!Next]_(Login!vars) /\ [Streamer!Next]_(Streamer!expertVars)
  <1> SUFFICES ASSUME [SideBySideNext]_allVars
               PROVE  /\ [Offers!Next]_(Offers!vars) /\ [Loops!Next]_(Loops!vars)
                      /\ [Memories!Next]_(Memories!vars) /\ [FileTool!Next]_(FileTool!vars)
                      /\ [Login!Next]_(Login!vars) /\ [Streamer!Next]_(Streamer!expertVars)
    OBVIOUS
  <1>1. Offers!Next \/ UNCHANGED offersVars
    BY DEF SideBySideNext, allVars
  <1>2. Loops!Next \/ UNCHANGED loopsVars
    BY DEF SideBySideNext, allVars
  <1>3. Memories!Next \/ UNCHANGED memoriesVars
    BY DEF SideBySideNext, allVars
  <1>4. FileTool!Next \/ UNCHANGED fileToolsVars
    BY DEF SideBySideNext, allVars
  <1>5. Login!Next \/ UNCHANGED loginVars
    BY DEF SideBySideNext, allVars
  <1>6. Streamer!Next \/ UNCHANGED expertsVars
    BY DEF SideBySideNext, allVars
  <1>7. UNCHANGED offersVars => UNCHANGED Offers!vars
    BY DEF offersVars, Offers!vars
  <1>8. UNCHANGED loopsVars => UNCHANGED Loops!vars
    BY DEF loopsVars, Loops!vars
  <1>9. UNCHANGED memoriesVars => UNCHANGED Memories!vars
    BY DEF memoriesVars, Memories!vars
  <1>10. UNCHANGED fileToolsVars => UNCHANGED FileTool!vars
    BY DEF fileToolsVars, FileTool!vars
  <1>11. UNCHANGED loginVars => UNCHANGED Login!vars
    BY DEF loginVars, Login!vars, Login!local, Login!endpoint
  <1>12. UNCHANGED expertsVars => UNCHANGED Streamer!expertVars
    BY DEF expertsVars, Streamer!expertVars, Streamer!fileVars, Streamer!cacheVars, Streamer!threadVars
  <1> QED BY <1>1, <1>2, <1>3, <1>4, <1>5, <1>6, <1>7, <1>8, <1>9, <1>10, <1>11, <1>12

\* What needs no hypothesis holds of the components side by side, which is what
\* is run.
THEOREM FilesAreSafe ==
    SideBySide => /\ [](/\ OnlyRunawaysAreStopped /\ IndexDescribesFiles /\ NoBlindWrites
                        /\ LoginIsKept /\ CacheIsBounded)
                  /\ ToolsStayOffered
  <1>1. SideBySide => /\ Offers!Spec /\ Loops!Spec /\ Memories!Spec /\ FileTool!Spec
                      /\ Login!Spec /\ Streamer!Spec
    BY InitOfEach, StepOfEach, PTL
       DEF SideBySide, Offers!Spec, Loops!Spec, Memories!Spec, FileTool!Spec, Login!Spec,
           Streamer!Spec
  <1> QED BY <1>1, OnlyRunawaysStop, IndexIsTrue, WritesAreNotBlind, LoginsAreKept,
             CacheStaysBounded, NoToolIsWithdrawn, PTL

=============================================================================
