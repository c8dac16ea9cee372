-------------------------- MODULE Interface_proofs --------------------------
(***************************************************************************)
(* Theorems about what the users see and steer, for every value of the     *)
(* constants: of the router, that its queue stays in order and no client   *)
(* stays marked as generating once nobody works for it; one invariant for  *)
(* each other component of MCInterface, proved of the component's own      *)
(* specification; and all of them together of the run of the components    *)
(* side by side (MCInterface!SideBySide).                                  *)
(*                                                                         *)
(* Each section gives the inductive invariant, the lemma that a step keeps *)
(* it, with one step per action, and the theorem.                          *)
(***************************************************************************)
EXTENDS MCInterface, SequenceTheorems, FiniteSetTheorems, TLAPS

-----------------------------------------------------------------------------
(* The router (SessionRouter): its queue and its marks.                    *)

Ordered(q) ==
  \A i, j \in DOMAIN q : i < j =>
    \/ q[i].priority > q[j].priority
    \/ q[i].priority = q[j].priority /\ q[i].id < q[j].id

(* Every id in the queue was given out before.                             *)
Older(q, n) == \A i \in DOMAIN q : q[i].id < n

(* Where the last request of an ordered queue belongs: behind everything   *)
(* at least as urgent.  The order is written out, position by position.    *)
Place(q, r) ==
  [k \in 1..(Len(q) + 1) |->
     IF k <= Len(q) /\ q[k].priority >= r.priority THEN k
     ELSE IF k = 1 \/ q[k - 1].priority >= r.priority THEN Len(q) + 1
     ELSE k - 1]

(* A queue in order with one request pushed behind it has a stable order.  *)
LEMMA PlaceIsStable ==
  ASSUME NEW q \in Seq(Requests), Ordered(q), NEW r \in Requests
  PROVE  /\ Place(q, r) \in Bijections(DOMAIN Append(q, r))
         /\ InOrder(Append(q, r), Place(q, r))
<1> DEFINE n == Len(q)
           f == Place(q, r)
           a == Append(q, r)
<1>1. n \in Nat /\ DOMAIN q = 1..n /\ DOMAIN a = 1..(n + 1) /\ DOMAIN f = 1..(n + 1)
  BY DEF Place
<1>2. /\ a[n + 1] = r
      /\ \A k \in 1..n : a[k] = q[k] /\ q[k] \in Requests
  OBVIOUS
<1>3. r.priority \in Nat /\ \A k \in 1..n : q[k].priority \in Nat
  BY <1>2, RouterAssumption DEF Requests
<1>4. \A i, j \in 1..n : i < j => q[i].priority >= q[j].priority
  <2> SUFFICES ASSUME NEW i \in 1..n, NEW j \in 1..n, i < j
               PROVE  q[i].priority >= q[j].priority
    OBVIOUS
  <2>1. \/ q[i].priority > q[j].priority
        \/ q[i].priority = q[j].priority /\ q[i].id < q[j].id
    BY <1>1 DEF Ordered
  <2>2. q[i].priority \in Nat /\ q[j].priority \in Nat
    BY <1>3
  <2>q. QED
    BY <2>1, <2>2
<1>5. f \in [1..(n + 1) -> 1..(n + 1)]
  BY <1>1 DEF Place
<1>6. \A i, j \in 1..(n + 1) : i < j => f[i] # f[j]
  <2> SUFFICES ASSUME NEW i \in 1..(n + 1), NEW j \in 1..(n + 1), i < j
               PROVE  f[i] # f[j]
    OBVIOUS
  <2>1. CASE q[i].priority >= r.priority
    <3>1. f[i] = i
      BY <2>1, <1>1 DEF Place
    <3>2. f[j] = j \/ f[j] = n + 1 \/ (f[j] = j - 1 /\ ~(q[j - 1].priority >= r.priority))
      BY <1>1 DEF Place
    <3>q. QED
      BY <3>1, <3>2, <2>1, <1>1
  <2>2. CASE ~(q[i].priority >= r.priority)
    <3>1. \A k \in i..n : ~(q[k].priority >= r.priority)
      BY <2>2, <1>1, <1>3, <1>4
    <3>2. f[j] = j - 1
      BY <3>1, <1>1 DEF Place
    <3>3. f[i] = n + 1 \/ f[i] = i - 1
      BY <2>2, <1>1 DEF Place
    <3>q. QED
      BY <3>2, <3>3, <1>1
  <2>q. QED
    BY <2>1, <2>2
<1>7. f \in Bijections(DOMAIN a)
  BY <1>1, <1>5, <1>6 DEF Bijections
<1>8. ASSUME NEW i \in 1..(n + 1), NEW j \in 1..(n + 1), i < j
      PROVE  \/ a[f[i]].priority > a[f[j]].priority
             \/ a[f[i]].priority = a[f[j]].priority /\ f[i] < f[j]
  <2>1. CASE q[i].priority >= r.priority
    <3>1. f[i] = i /\ i \in 1..n
      BY <2>1, <1>8, <1>1 DEF Place
    <3>2. CASE f[j] = n + 1
      BY <3>1, <3>2, <2>1, <1>2, <1>3, <1>1
    <3>3. CASE f[j] # n + 1
      <4>1. f[j] \in 1..n /\ f[j] >= i
        BY <3>3, <1>1, <1>5, <1>8 DEF Place
      <4>2. f[j] > i
        BY <4>1, <3>1, <1>6, <1>8, <1>1
      <4>q. QED
        BY <3>1, <4>1, <4>2, <1>2, <1>3, <1>4, <1>1
    <3>q. QED
      BY <3>2, <3>3
  <2>2. CASE ~(q[i].priority >= r.priority)
    <3>1. \A k \in i..n : ~(q[k].priority >= r.priority)
      BY <2>2, <1>1, <1>3, <1>4, <1>8
    <3>2. f[j] = j - 1 /\ j - 1 \in i..n
      BY <3>1, <1>8, <1>1 DEF Place
    <3>3. f[i] = n + 1 \/ (f[i] = i - 1 /\ i - 1 \in 1..n)
      BY <2>2, <1>8, <1>1 DEF Place
    <3>4. CASE f[i] = n + 1
      <4>1. a[f[i]] = r /\ a[f[j]] = q[j - 1]
        BY <3>2, <3>4, <1>2, <1>1, <1>8
      <4>q. QED
        BY <4>1, <3>1, <3>2, <1>3, <1>1, <1>8
    <3>5. CASE f[i] = i - 1 /\ i - 1 \in 1..n
      BY <3>5, <3>2, <1>2, <1>3, <1>4, <1>1, <1>8
    <3>q. QED
      BY <3>3, <3>4, <3>5
  <2>q. QED
    BY <2>1, <2>2
<1>q. QED
  BY <1>7, <1>8, <1>1 DEF InOrder

(* What stable_sort makes of an ordered queue and one younger request.     *)
LEMMA SortedIsOrdered ==
  ASSUME NEW q \in Seq(Requests), Ordered(q),
         NEW r \in Requests, Older(q, r.id)
  PROVE  LET s == StablySorted(Append(q, r)) IN
           s \in Seq(Requests) /\ Ordered(s) /\ Older(s, r.id + 1)
<1> DEFINE n == Len(q)
           a == Append(q, r)
           f == StableOrder(a)
           s == StablySorted(a)
<1>1. n \in Nat /\ DOMAIN q = 1..n /\ DOMAIN a = 1..(n + 1)
  OBVIOUS
<1>2. /\ a[n + 1] = r
      /\ \A k \in 1..n : a[k] = q[k] /\ q[k] \in Requests
  OBVIOUS
<1>3. f \in Bijections(DOMAIN a) /\ InOrder(a, f)
  <2>1. \E g \in Bijections(DOMAIN a) : InOrder(a, g)
    BY PlaceIsStable
  <2>q. QED
    BY <2>1 DEF StableOrder
<1>4. f \in [1..(n + 1) -> 1..(n + 1)]
  BY <1>1, <1>3 DEF Bijections
<1>5. s = [i \in 1..(n + 1) |-> a[f[i]]]
  BY <1>1 DEF StablySorted
<1>6. \A k \in 1..(n + 1) : a[k] \in Requests
  BY <1>1, <1>2
<1>7. s \in Seq(Requests) /\ DOMAIN s = 1..(n + 1)
  BY <1>1, <1>4, <1>5, <1>6
<1>8. \A k \in 1..(n + 1) : a[k].id < r.id + 1
  <2>1. r.id \in Nat /\ \A k \in 1..n : q[k].id \in Nat
    BY <1>2 DEF Requests
  <2>2. \A k \in 1..n : q[k].id < r.id
    BY <1>1 DEF Older
  <2>q. QED
    BY <2>1, <2>2, <1>1, <1>2
<1>9. \A k, l \in 1..(n + 1) : k < l /\ a[k].priority = a[l].priority => a[k].id < a[l].id
  <2> SUFFICES ASSUME NEW k \in 1..(n + 1), NEW l \in 1..(n + 1), k < l,
                      a[k].priority = a[l].priority
               PROVE  a[k].id < a[l].id
    OBVIOUS
  <2>1. k \in 1..n
    BY <1>1
  <2>2. CASE l = n + 1
    BY <2>1, <2>2, <1>1, <1>2 DEF Older
  <2>3. CASE l # n + 1
    <3>1. l \in 1..n
      BY <2>3, <1>1
    <3>2. q[k].priority \in Nat /\ q[k].priority = q[l].priority
      BY <2>1, <3>1, <1>2, RouterAssumption DEF Requests
    <3>3. q[k].id < q[l].id
      BY <2>1, <3>1, <3>2, <1>1 DEF Ordered
    <3>q. QED
      BY <2>1, <3>1, <3>3, <1>2
  <2>q. QED
    BY <2>2, <2>3
<1>10. Ordered(s)
  <2> SUFFICES ASSUME NEW i \in 1..(n + 1), NEW j \in 1..(n + 1), i < j
               PROVE  \/ s[i].priority > s[j].priority
                      \/ s[i].priority = s[j].priority /\ s[i].id < s[j].id
    BY <1>7 DEF Ordered
  <2>1. s[i] = a[f[i]] /\ s[j] = a[f[j]] /\ f[i] \in 1..(n + 1) /\ f[j] \in 1..(n + 1)
    BY <1>4, <1>5
  <2>2. \/ a[f[i]].priority > a[f[j]].priority
        \/ a[f[i]].priority = a[f[j]].priority /\ f[i] < f[j]
    BY <1>3, <1>4 DEF InOrder
  <2>q. QED
    BY <2>1, <2>2, <1>9
<1>11. Older(s, r.id + 1)
  BY <1>4, <1>5, <1>7, <1>8 DEF Older
<1>q. QED
  BY <1>7, <1>10, <1>11

-----------------------------------------------------------------------------
(* The queue, with the ages of its requests, and the types it needs.       *)
RouterInv ==
  /\ TypeOK
  /\ Ordered(requestQueue)
  /\ Older(requestQueue, accepted)

(* A request leaves the queue at its front.                                *)
LEMMA TailIsOrdered ==
  ASSUME NEW q \in Seq(Requests), q # <<>>, Ordered(q), NEW n, Older(q, n)
  PROVE  Tail(q) \in Seq(Requests) /\ Ordered(Tail(q)) /\ Older(Tail(q), n)
<1>1. /\ Tail(q) \in Seq(Requests) /\ Len(Tail(q)) = Len(q) - 1 /\ Len(q) \in Nat \ {0}
      /\ \A i \in 1..(Len(q) - 1) : Tail(q)[i] = q[i + 1]
  OBVIOUS
<1>2. Ordered(Tail(q))
  <2> SUFFICES ASSUME NEW i \in 1..(Len(q) - 1), NEW j \in 1..(Len(q) - 1), i < j
               PROVE  \/ Tail(q)[i].priority > Tail(q)[j].priority
                      \/ /\ Tail(q)[i].priority = Tail(q)[j].priority
                         /\ Tail(q)[i].id < Tail(q)[j].id
    BY <1>1 DEF Ordered
  <2>1. i + 1 \in DOMAIN q /\ j + 1 \in DOMAIN q /\ i + 1 < j + 1
    BY <1>1
  <2>2. \/ q[i + 1].priority > q[j + 1].priority
        \/ q[i + 1].priority = q[j + 1].priority /\ q[i + 1].id < q[j + 1].id
    BY <2>1 DEF Ordered
  <2>q. QED
    BY <2>2, <1>1
<1>3. Older(Tail(q), n)
  BY <1>1 DEF Older
<1>q. QED
  BY <1>1, <1>2, <1>3

(* A request of priority 0 goes to the back unsorted, and belongs there.   *)
LEMMA PushedIsOrdered ==
  ASSUME RouterInv, NEW r \in Requests, r.id = accepted
  PROVE  /\ Queued(r) \in Seq(Requests)
         /\ Ordered(Queued(r)) /\ Older(Queued(r), accepted + 1)
<1> DEFINE q == requestQueue
           n == Len(q)
<1>1. /\ q \in Seq(Requests) /\ n \in Nat /\ DOMAIN q = 1..n
      /\ Ordered(q) /\ Older(q, r.id) /\ r.id \in Nat
  BY DEF RouterInv, TypeOK, Requests
<1>2. CASE r.priority > 0
  BY <1>1, <1>2, SortedIsOrdered DEF Queued
<1>3. CASE ~(r.priority > 0)
  <2>1. Queued(r) = Append(q, r)
    BY <1>3 DEF Queued
  <2>2. /\ Append(q, r) \in Seq(Requests) /\ DOMAIN Append(q, r) = 1..(n + 1)
        /\ Append(q, r)[n + 1] = r /\ \A k \in 1..n : Append(q, r)[k] = q[k]
    BY <1>1
  <2>3. /\ r.priority = 0
        /\ \A k \in 1..n : q[k].priority \in Nat /\ q[k].id \in Nat /\ q[k].id < r.id
    <3>1. r.priority \in Nat /\ r.priority = 0
      <4>1. r.priority \in Priorities
        BY DEF Requests
      <4>2. r.priority \in Nat
        BY <4>1, RouterAssumption
      <4>q. QED
        BY <4>2, <1>3
    <3>2. \A k \in 1..n : q[k] \in Requests
      BY <1>1
    <3>3. \A k \in 1..n : q[k].priority \in Nat /\ q[k].id \in Nat
      BY <3>2, RouterAssumption DEF Requests
    <3>4. \A k \in 1..n : q[k].id < r.id
      BY <1>1 DEF Older
    <3>q. QED
      BY <3>1, <3>3, <3>4
  <2>4. Ordered(Append(q, r))
    <3> SUFFICES ASSUME NEW i \in 1..(n + 1), NEW j \in 1..(n + 1), i < j
                 PROVE  LET a == Append(q, r) IN
                          \/ a[i].priority > a[j].priority
                          \/ a[i].priority = a[j].priority /\ a[i].id < a[j].id
      BY <2>2 DEF Ordered
    <3>1. CASE j = n + 1
      BY <3>1, <2>2, <2>3, <1>1
    <3>2. CASE j # n + 1
      <4>1. i \in 1..n /\ j \in 1..n
        BY <3>2, <1>1
      <4>q. QED
        BY <4>1, <2>2, <1>1 DEF Ordered
    <3>q. QED
      BY <3>1, <3>2
  <2>5. Older(Append(q, r), accepted + 1)
    BY <2>2, <2>3, <1>1 DEF Older
  <2>q. QED
    BY <2>1, <2>2, <2>4, <2>5
<1>q. QED
  BY <1>2, <1>3

(* No request is a sequence of requests.                                   *)
LEMMA NoRequests == <<>> \in Seq(Requests) /\ DOMAIN <<>> = {}
  OBVIOUS

(* A router starts with an empty queue and idle workers.                   *)
LEMMA RouterInit == Init => RouterInv
<1> SUFFICES ASSUME Init PROVE RouterInv
  OBVIOUS
<1>1. DOMAIN requestQueue = {} /\ requestQueue \in Seq(Requests)
  BY NoRequests DEF Init
<1>2. TypeOK
  <2>1. req \in [Workers -> Seq(Requests)] /\ \A w \in Workers : pc[w] = "test"
    BY NoRequests DEF Init
  <2>2. \A w \in Workers : pc[w] \notin Holding
    BY <2>1 DEF Holding, Marked
  <2>3. pc \in [Workers -> Waiting \cup {"blocking"} \cup Holding]
    BY DEF Init, Waiting
  <2>4. accepted \in 0..MaxRequests
    BY RouterAssumption DEF Init
  <2>q. QED
    BY <1>1, <2>1, <2>2, <2>3, <2>4 DEF Init, TypeOK
<1>q. QED
  BY <1>1, <1>2 DEF RouterInv, Ordered, Older

(* Every step keeps the types and the order of the queue.                  *)
LEMMA RouterStep == RouterInv /\ [Next]_vars => RouterInv'
<1> SUFFICES ASSUME RouterInv, [Next]_vars PROVE RouterInv'
  OBVIOUS
<1> USE RouterAssumption DEF RouterInv, clients, closer, Goes, At, Forgets, Waiting, Marked, Holding
<1>1. ASSUME NEW c \in Clients, RegisterClient(c) \/ DisconnectClient(c) PROVE RouterInv'
  BY <1>1 DEF RegisterClient, DisconnectClient, TypeOK
<1>2. ASSUME NEW c \in Clients, NEW priority \in Priorities, SubmitRequest(c, priority)
      PROVE  RouterInv'
  <2> DEFINE r == [id |-> accepted, client |-> c, priority |-> priority]
  <2>1. r \in Requests /\ r.id = accepted
    BY DEF Requests, TypeOK
  <2>2. Queued(r) \in Seq(Requests) /\ Ordered(Queued(r)) /\ Older(Queued(r), accepted + 1)
    BY <2>1, PushedIsOrdered
  <2>3. requestQueue' = Queued(r) /\ accepted' = accepted + 1 /\ accepted' \in 0..MaxRequests
    BY <1>2 DEF SubmitRequest, TypeOK
  <2>q. QED
    BY <1>2, <2>2, <2>3 DEF SubmitRequest, TypeOK
<1>3. ASSUME NEW c \in Clients, NotifyOne(c) PROVE RouterInv'
  BY <1>3 DEF NotifyOne, WakesOne, Asleep, TypeOK
<1>4. ASSUME NEW w \in Workers, Take(w) PROVE RouterInv'
  <2>1. Head(requestQueue) \in Requests
    BY <1>4 DEF Take, TypeOK
  <2>2. <<Head(requestQueue)>> \in Seq(Requests) /\ Len(<<Head(requestQueue)>>) = 1
    BY <2>1
  <2>3. Tail(requestQueue) \in Seq(Requests) /\ Ordered(Tail(requestQueue))
          /\ Older(Tail(requestQueue), accepted)
    BY <1>4, TailIsOrdered DEF Take, TypeOK
  <2>q. QED
    BY <1>4, <2>2, <2>3 DEF Take, TypeOK
<1>5. ASSUME NEW w \in Workers,
             \/ TestLoop(w) \/ Leave(w) \/ FindsNothing(w) \/ Block(w) \/ SpuriousWakeup(w)
      PROVE  RouterInv'
  BY <1>5 DEF TestLoop, Leave, FindsNothing, Block, SpuriousWakeup, TypeOK
<1>6. ASSUME NEW w \in Workers, Process(w) PROVE RouterInv'
  <2>1. CASE FindSession(w)
    <3>1. req' \in [Workers -> Seq(Requests)]
      BY <2>1, NoRequests DEF FindSession, TypeOK
    <3>2. pc' \in [Workers -> Waiting \cup {"blocking"} \cup Holding]
      BY <2>1 DEF FindSession, TypeOK
    <3>3. \A v \in Workers : pc'[v] \in Holding => Len(req'[v]) = 1
      BY <2>1 DEF FindSession, TypeOK
    <3>q. QED
      BY <2>1, <3>1, <3>2, <3>3 DEF FindSession, TypeOK
  <2>2. CASE Mark(w)
    BY <2>2 DEF Mark, TypeOK
  <2>3. CASE Generated(w)
    BY <2>3 DEF Generated, Unmarked, TypeOK
  <2>4. CASE Finish(w)
    <3>1. req' \in [Workers -> Seq(Requests)]
      BY <2>4, NoRequests DEF Finish, TypeOK
    <3>2. \A v \in Workers : pc'[v] \in Holding => Len(req'[v]) = 1
      BY <2>4 DEF Finish, TypeOK
    <3>3. /\ pc' \in [Workers -> Waiting \cup {"blocking"} \cup Holding]
          /\ isGenerating' \in [Clients -> BOOLEAN]
      BY <2>4 DEF Finish, Guarded, Unmarked, TypeOK
    <3>q. QED
      BY <2>4, <3>1, <3>2, <3>3 DEF Finish, TypeOK
  <2>q. QED
    BY <1>6, <2>1, <2>2, <2>3, <2>4 DEF Process
<1>7. CASE Closer
  <2>1. CASE RaiseFlag
    BY <2>1 DEF RaiseFlag, TypeOK
  <2>2. CASE NotifyAll
    BY <2>2 DEF NotifyAll, TypeOK
  <2>3. CASE Join
    BY <2>3 DEF Join, TypeOK
  <2>q. QED
    BY <1>7, <2>1, <2>2, <2>3 DEF Closer
<1>8. CASE UNCHANGED vars
  BY <1>8 DEF vars, TypeOK
<1>q. QED
  BY <1>1, <1>2, <1>3, <1>4, <1>5, <1>6, <1>7, <1>8 DEF Next, Client, Worker, Closed

(* The router's types, and the order in which it serves: for any number of *)
(* clients, workers and priorities, a request never overtakes an earlier   *)
(* one of its own priority or a more urgent one.                           *)
THEOREM QueueStaysInOrder == Spec => [](TypeOK /\ QueueIsInOrder)
<1>1. RouterInv => TypeOK /\ QueueIsInOrder
  BY DEF RouterInv, Ordered, QueueIsInOrder
<1>q. QED
  BY RouterInit, RouterStep, <1>1, PTL DEF Spec

(* Every step keeps the marks: the worker that marked a client is still    *)
(* inside its request, or has just reset the mark.                         *)
LEMMA MarksStep ==
  ASSUME TypeOK, NobodyStuckGenerating, [Next]_vars
  PROVE  NobodyStuckGenerating'
<1> DEFINE Works(c) == \E w \in Workers : pc[w] \in Marked /\ ClientOf(w) = c
<1> SUFFICES ASSUME NEW c \in Clients, isGenerating'[c]
             PROVE  \E w \in Workers : pc'[w] \in Marked /\ (ClientOf(w))' = c
  BY DEF NobodyStuckGenerating
<1> USE DEF Goes, At, Forgets, Marked, ClientOf
<1>1. ASSUME UNCHANGED isGenerating,
             \A w \in Workers : pc[w] \in Marked => pc'[w] = pc[w] /\ req'[w] = req[w]
      PROVE  \E w \in Workers : pc'[w] \in Marked /\ (ClientOf(w))' = c
  <2>1. PICK w \in Workers : pc[w] \in Marked /\ ClientOf(w) = c
    BY <1>1 DEF NobodyStuckGenerating
  <2>q. QED
    BY <2>1, <1>1
<1>2. ASSUME NEW w \in Workers, Mark(w)
      PROVE  \E v \in Workers : pc'[v] \in Marked /\ (ClientOf(v))' = c
  <2>1. CASE c = ClientOf(w)
    BY <2>1, <1>2 DEF Mark, TypeOK
  <2>2. CASE c # ClientOf(w)
    <3>1. isGenerating[c]
      BY <2>2, <1>2 DEF Mark, TypeOK
    <3>2. PICK v \in Workers : pc[v] \in Marked /\ ClientOf(v) = c
      BY <3>1 DEF NobodyStuckGenerating
    <3>q. QED
      BY <3>2, <1>2 DEF Mark, TypeOK
  <2>q. QED
    BY <2>1, <2>2
<1>3. ASSUME NEW w \in Workers, Generated(w) \/ Finish(w)
      PROVE  \E v \in Workers : pc'[v] \in Marked /\ (ClientOf(v))' = c
  <2>1. isGenerating' = Unmarked(w)
    BY <1>3 DEF Generated, Finish, Guarded
  <2>2. isGenerating[c] /\ c # ClientOf(w)
    BY <2>1 DEF Unmarked, TypeOK
  <2>3. PICK v \in Workers : pc[v] \in Marked /\ ClientOf(v) = c
    BY <2>2 DEF NobodyStuckGenerating
  <2>4. v # w
    BY <2>2, <2>3
  <2>5. pc'[v] = pc[v] /\ req'[v] = req[v]
    BY <2>4, <1>3 DEF Generated, Finish, TypeOK
  <2>q. QED
    BY <2>3, <2>5
<1>4. CASE \E d \in Clients : Client(d) \/ NotifyOne(d)
  BY <1>4, <1>1 DEF Client, RegisterClient, DisconnectClient, SubmitRequest, NotifyOne,
                    WakesOne, Asleep, TypeOK
<1>5. ASSUME NEW w \in Workers,
             \/ TestLoop(w) \/ Take(w) \/ Leave(w) \/ FindsNothing(w) \/ Block(w)
             \/ SpuriousWakeup(w) \/ FindSession(w)
      PROVE  \E v \in Workers : pc'[v] \in Marked /\ (ClientOf(v))' = c
  BY <1>5, <1>1 DEF TestLoop, Take, Leave, FindsNothing, Block, SpuriousWakeup, FindSession,
                    TypeOK
<1>6. CASE Closer
  BY <1>6, <1>1 DEF Closer, RaiseFlag, NotifyAll, Join, TypeOK
<1>7. CASE UNCHANGED vars
  BY <1>7, <1>1 DEF vars
<1>q. QED
  BY <1>2, <1>3, <1>4, <1>5, <1>6, <1>7 DEF Next, Worker, Process, Closed

(* SessionRouter.cpp: "Ensure the "generating" flag is cleared no matter   *)
(* how we leave this function": whoever returns or throws, and however     *)
(* many workers serve one client, no mark outlives its request.            *)
THEOREM MarksAreReset == Spec => []NobodyStuckGenerating
<1>1. Init => NobodyStuckGenerating
  BY DEF Init, NobodyStuckGenerating
<1>2. TypeOK /\ NobodyStuckGenerating /\ [Next]_vars => NobodyStuckGenerating'
  BY MarksStep
<1>q. QED
  BY <1>1, <1>2, QueueStaysInOrder, PTL DEF Spec

-----------------------------------------------------------------------------
(* Permissions (Gate): what check answers, and what the user is asked.     *)

\* Why a call ran: the mode that allowed it, or who approved it.
Whys == Gate!Modes \cup Gate!Approvals
\* The types, as far as the argument needs them.
GateTypes ==
  /\ mode \in Gate!Modes
  /\ saved.mode \in Gate!Modes
  /\ denials \in [Tools -> 0..MaxDenials]
  /\ asking \subseteq Gate!Actions
  /\ ran \subseteq [action : Gate!Actions, why : Whys]
  /\ up \in BOOLEAN

\* The user is asked about a call some deny rule matches only because its tool
\* has been denied often enough; the count does not fall while he thinks.
AskedForAReason ==
  \A a \in asking : a \in deny /\ a.kind # "protected" => denials[a.tool] = MaxDenials

\* A program that is not running asks nothing and has run nothing, so the rules
\* that Start loads meet no call they were not consulted for.
GateInv == GateTypes /\ AskedForAReason /\ DeniedCallsWait /\ (~up => ran = {} /\ asking = {})

\* A denial counts up to the bound and no other tool's count changes.
LEMMA DenialsGrow ==
    ASSUME GateTypes, NEW a \in Gate!Actions, Gate!Denied(a)
    PROVE  /\ denials' \in [Tools -> 0..MaxDenials]
           /\ \A t \in Tools : denials[t] = MaxDenials => denials'[t] = MaxDenials
  BY GateAssumption DEF Gate!Denied, GateTypes, Gate!Actions

\* What ran last is recorded with its reason.
LEMMA RunTyped ==
    ASSUME GateTypes, NEW a \in Gate!Actions, NEW w \in Whys, Gate!Run(a, w)
    PROVE  ran' \subseteq [action : Gate!Actions, why : Whys]
  BY DEF Gate!Run

\* What check answers: it allows no protected removal, and a call a deny rule
\* matches only in bypass mode; it asks about such a call after enough denials.
LEMMA CheckedCalls ==
  ASSUME GateTypes, NEW a \in Gate!Actions
  PROVE  /\ Gate!Check(a) = "allow" =>
              a.kind # "protected" /\ (a \in deny => mode = "bypass")
         /\ Gate!Check(a) = "ask" /\ a \in deny /\ a.kind # "protected" =>
              denials[a.tool] = MaxDenials
  BY GateAssumption DEF Gate!Check, Gate!MatchRules, GateTypes, Gate!Actions

\* Every step keeps the invariant behind DeniedCallsWait.
LEMMA GateStep == GateInv /\ [Gate!Next]_(Gate!vars) => GateInv'
  <1> SUFFICES ASSUME GateInv, [Gate!Next]_(Gate!vars) PROVE GateInv'
    OBVIOUS
  <1> USE DEF GateInv
  <1>1. ASSUME NEW a \in Gate!Actions, Gate!Call(a) PROVE GateInv'
    <2>1. CASE Gate!Check(a) = "allow"
      <3>1. Gate!Run(a, mode) /\ UNCHANGED <<denials, asking, mode, allow, deny, saved, up, allowAll>>
        BY <1>1, <2>1 DEF Gate!Call, Gate!rules
      <3>2. GateTypes'
        BY <3>1, RunTyped DEF GateTypes, Whys, Gate!Approvals
      <3>3. DeniedCallsWait'
        BY <3>1, <2>1, CheckedCalls, mode \in Gate!Modes
           DEF DeniedCallsWait, Gate!DeniedCallsWait, Gate!Approvals, Gate!Run, Gate!Modes, GateTypes
      <3> QED BY <3>1, <3>2, <3>3, <1>1 DEF AskedForAReason, Gate!Call
    <2>2. CASE Gate!Check(a) = "deny"
      <3>1. Gate!Denied(a) /\ UNCHANGED <<ran, asking, mode, allow, deny, saved, up, allowAll>>
        BY <1>1, <2>2 DEF Gate!Call, Gate!rules
      <3>2. GateTypes'
        BY <3>1, DenialsGrow DEF GateTypes
      <3> QED BY <3>1, <3>2, DenialsGrow
                 DEF AskedForAReason, DeniedCallsWait, Gate!DeniedCallsWait, Gate!Approvals, GateTypes,
                     Gate!Actions
    <2>3. CASE Gate!Check(a) = "ask"
      <3>1. CASE allowAll
        <4>1. Gate!Run(a, "all") /\ UNCHANGED <<denials, asking, mode, allow, deny, saved, up, allowAll>>
          BY <1>1, <2>3, <3>1 DEF Gate!Call, Gate!rules
        <4>2. GateTypes'
          BY <4>1, RunTyped DEF GateTypes, Whys, Gate!Approvals
        <4>3. DeniedCallsWait'
          BY <4>1, <2>3, <3>1, CheckedCalls
             DEF DeniedCallsWait, Gate!DeniedCallsWait, Gate!Approvals, Gate!Run, Gate!Modes
        <4> QED BY <4>1, <4>2, <4>3, <1>1 DEF AskedForAReason, Gate!Call
      <3>2. CASE ~allowAll
        <4>1. asking' = {a} /\ UNCHANGED <<denials, ran, mode, allow, deny, saved, up, allowAll>>
          BY <1>1, <2>3, <3>2 DEF Gate!Call, Gate!rules
        <4> QED BY <4>1, <2>3, <1>1, CheckedCalls
                   DEF AskedForAReason, GateTypes, DeniedCallsWait, Gate!DeniedCallsWait, Gate!Approvals,
                       Gate!Call
      <3> QED BY <3>1, <3>2
    <2> QED BY <2>1, <2>2, <2>3, <1>1 DEF Gate!Call
  <1>2. ASSUME NEW a \in Gate!Actions, Gate!AgentCall(a) PROVE GateInv'
    <2>1. CASE Gate!Check(a) = "deny"
      <3>1. Gate!Denied(a) /\ UNCHANGED <<ran, asking, mode, allow, deny, saved, up, allowAll>>
        BY <1>2, <2>1 DEF Gate!AgentCall, Gate!rules
      <3>2. GateTypes'
        BY <3>1, DenialsGrow DEF GateTypes
      <3> QED BY <3>1, <3>2, DenialsGrow
                 DEF AskedForAReason, DeniedCallsWait, Gate!DeniedCallsWait, Gate!Approvals, GateTypes,
                     Gate!Actions
    <2>2. CASE Gate!Check(a) = "ask"
      <3>1. Gate!Run(a, "agent") /\ UNCHANGED <<denials, asking, mode, allow, deny, saved, up, allowAll>>
        BY <1>2, <2>2 DEF Gate!AgentCall, Gate!rules
      <3>2. GateTypes'
        BY <3>1, RunTyped DEF GateTypes, Whys, Gate!Approvals
      <3>3. DeniedCallsWait'
        BY <3>1, <2>2, CheckedCalls
           DEF DeniedCallsWait, Gate!DeniedCallsWait, Gate!Approvals, Gate!Run, Gate!Modes
      <3> QED BY <3>1, <3>2, <3>3, <1>2 DEF AskedForAReason, Gate!AgentCall
    <2>3. CASE Gate!Check(a) \notin {"deny", "ask"}
      <3>1. Gate!Run(a, mode) /\ UNCHANGED <<denials, asking, mode, allow, deny, saved, up, allowAll>>
        BY <1>2, <2>3 DEF Gate!AgentCall, Gate!rules
      <3>2. GateTypes'
        BY <3>1, RunTyped DEF GateTypes, Whys, Gate!Approvals
      <3>3. Gate!Check(a) = "allow"
        BY <2>3 DEF Gate!Check, Gate!MatchRules
      <3>4. DeniedCallsWait'
        BY <3>1, <3>3, CheckedCalls, mode \in Gate!Modes
           DEF DeniedCallsWait, Gate!DeniedCallsWait, Gate!Approvals, Gate!Run, Gate!Modes, GateTypes
      <3> QED BY <3>1, <3>2, <3>4, <1>2 DEF AskedForAReason, Gate!AgentCall
    <2> QED BY <2>1, <2>2, <2>3
  <1>3. CASE Gate!Answer
    <2> PICK a \in asking :
         \/ Gate!Run(a, "user") /\ UNCHANGED <<denials, allowAll>>
         \/ Gate!Run(a, "all") /\ allowAll' = TRUE /\ UNCHANGED denials
         \/ Gate!Denied(a) /\ UNCHANGED <<ran, allowAll>>
      BY <1>3 DEF Gate!Answer
    <2>1. asking' = {} /\ UNCHANGED <<mode, allow, deny, saved, up>> /\ a \in Gate!Actions /\ up
      BY <1>3 DEF Gate!Answer, Gate!rules, GateTypes
    <2>2. ASSUME NEW w \in {"user", "all"}, Gate!Run(a, w), UNCHANGED denials PROVE GateInv'
      <3>1. GateTypes'
        BY <2>1, <2>2, RunTyped DEF GateTypes, Whys, Gate!Approvals
      <3>2. DeniedCallsWait'
        BY <2>1, <2>2
           DEF DeniedCallsWait, Gate!DeniedCallsWait, Gate!Approvals, Gate!Run, Gate!Modes, AskedForAReason
      <3> QED BY <2>1, <3>1, <3>2 DEF AskedForAReason
    <2>3. ASSUME Gate!Denied(a), UNCHANGED ran PROVE GateInv'
      <3>1. GateTypes'
        BY <2>1, <2>3, DenialsGrow DEF GateTypes
      <3> QED BY <2>1, <2>3, <3>1, DenialsGrow
           DEF AskedForAReason, DeniedCallsWait, Gate!DeniedCallsWait, Gate!Approvals, GateTypes, Gate!Actions
    <2> QED BY <2>2, <2>3
  <1>4. CASE Gate!SetMode
    BY <1>4
       DEF Gate!SetMode, GateTypes, AskedForAReason, DeniedCallsWait, Gate!DeniedCallsWait, Gate!Approvals
  <1>5. CASE Gate!Exit
    <2>1. saved'.mode \in Gate!Modes
      BY <1>5 DEF Gate!Exit, GateTypes
    <2> QED
      BY <1>5, <2>1
         DEF Gate!Exit, Gate!rules, GateTypes, AskedForAReason, DeniedCallsWait,
             Gate!DeniedCallsWait, Gate!Approvals
  <1>6. CASE Gate!Start
    <2>1. denials' \in [Tools -> 0..MaxDenials]
      BY <1>6, GateAssumption DEF Gate!Start
    <2> QED
      BY <1>6, <2>1
         DEF Gate!Start, GateTypes, AskedForAReason, DeniedCallsWait, Gate!DeniedCallsWait, Gate!Approvals
  <1>7. CASE UNCHANGED Gate!vars
    BY <1>7 DEF Gate!vars, GateTypes, AskedForAReason, DeniedCallsWait, Gate!DeniedCallsWait, Gate!Approvals
  <1> QED BY <1>1, <1>2, <1>3, <1>4, <1>5, <1>6, <1>7 DEF Gate!Next

\* No rule and no mode lets a protected removal run, nor outside bypass a call that
\* a deny rule matches, however modes, denials, approvals, sub-agents and restarts
\* follow each other (PermissionEngine::check).
THEOREM DeniedCallsAreHeld == Gate!Spec => []DeniedCallsWait
  <1>1. Gate!Init => GateInv
    <2> SUFFICES ASSUME Gate!Init PROVE GateInv
      OBVIOUS
    <2>1. denials \in [Tools -> 0..MaxDenials] /\ up
      BY GateAssumption DEF Gate!Init
    <2> QED BY <2>1
               DEF Gate!Init, GateInv, GateTypes, AskedForAReason, DeniedCallsWait,
                   Gate!DeniedCallsWait, Gate!Approvals
  <1>2. GateInv => DeniedCallsWait
    BY DEF GateInv
  <1> QED BY <1>1, <1>2, GateStep, PTL DEF Gate!Spec

-----------------------------------------------------------------------------
(* The key reader (Keys).                                                  *)

\* The terminal is raw exactly while the input loop is between enterRaw and
\* leaveRaw; a prompt comes only inside a turn, holds the guard once and found the
\* terminal raw, so that what it restores is what the turn expects.  The watcher
\* that has tested a flag has begun no read since it had to yield.
KeysInv ==
  /\ main \in {"prompt", "enter", "arm", "submit", "turn", "leave", "exit", "done"}
  /\ armed \in BOOLEAN
  /\ armed <=> main \in {"submit", "turn"}
  /\ keysAsking \in {"no", "wait", "keys", "line"}
  /\ busy = IF keysAsking = "no" THEN 0 ELSE 1
  /\ keysAsking # "no" => main = "turn"
  /\ tty = IF main \in {"arm", "submit", "turn", "leave"} THEN "raw" ELSE "cooked"
  /\ keysAsking \in {"keys", "line"} => before = "raw"
  /\ late \in {0, 1}
  /\ watcher = "begin" /\ Keys!MustYield => late = 0
  /\ watcher = "test" /\ busy = 0 /\ ~armed => late = 0

\* Every step keeps it.
LEMMA KeysStep == KeysInv /\ [Keys!Next]_(Keys!vars) => KeysInv'
  <1> SUFFICES ASSUME KeysInv, [Keys!Next]_(Keys!vars) PROVE KeysInv'
    OBVIOUS
  <1> USE DEF KeysInv, Keys!MustYield, Keys!keys, Keys!prompts
  <1>1. CASE Keys!ReadMessage \/ Keys!ReadQuit \/ Keys!ReadEof \/ Keys!EnterRaw
    BY <1>1 DEF Keys!ReadMessage, Keys!ReadQuit, Keys!ReadEof, Keys!EnterRaw
  <1>2. CASE Keys!Submit \/ Keys!LeaveRaw \/ Keys!Leave
    BY <1>2 DEF Keys!Submit, Keys!LeaveRaw, Keys!Restored, Keys!Leave
  <1>10. CASE Keys!Arm
    BY <1>10 DEF Keys!Arm
  <1>11. CASE Keys!TurnEnds
    BY <1>11 DEF Keys!TurnEnds
  <1>3. CASE Keys!SeesTurn \/ Keys!SeesBusy
    BY <1>3 DEF Keys!SeesTurn, Keys!SeesBusy, Keys!Watch, Keys!MayRead, Keys!NobodyAsks
  <1>4. CASE Keys!BeginRead
    BY <1>4 DEF Keys!BeginRead, Keys!Watch
  <1>5. CASE Keys!ReadNothing \/ Keys!ReadEscByte \/ Keys!Interrupt \/ Keys!MarkAborted
    BY <1>5 DEF Keys!ReadNothing, Keys!ReadEscByte, Keys!Interrupt, Keys!MarkAborted
  <1>6. CASE Keys!Ask
    BY <1>6 DEF Keys!Ask, Keys!AskUserQuestion
  <1>7. CASE Keys!SelectKeys \/ Keys!Choose \/ Keys!ChooseTyping \/ Keys!TypeAnswer
    BY <1>7 DEF Keys!SelectKeys, Keys!Choose, Keys!ChooseTyping, Keys!TypeAnswer
  <1>8. CASE Keys!Elicit \/ Keys!ElicitLine
    BY <1>8 DEF Keys!Elicit, Keys!ElicitLine
  <1>9. CASE UNCHANGED Keys!vars
    BY <1>9 DEF Keys!vars
  <1> QED BY <1>1, <1>2, <1>3, <1>4, <1>5, <1>6, <1>7, <1>8, <1>9, <1>10, <1>11 DEF Keys!Next

\* The terminal is handed from one reader to the next: whenever the watcher tests
\* its two flags between the steps of a turn and of its prompts, it begins at most
\* one read after it had to yield, and the terminal is as the next prompt expects.
THEOREM KeyboardIsHandedOver == Keys!Spec => []KeyboardIsShared
  <1>1. Keys!Init => KeysInv
    BY DEF Keys!Init, KeysInv, Keys!MustYield
  <1>2. KeysInv => KeyboardIsShared
    BY DEF KeysInv, KeyboardIsShared, Keys!KeyboardIsShared, Keys!WatcherYields,
           Keys!PromptIsCooked
  <1> QED BY <1>1, <1>2, KeysStep, PTL DEF Keys!Spec

-----------------------------------------------------------------------------
(* Who writes the terminal (Screen).                                       *)

\* What a callback does to the terminal, one step at a time.
Ops == {"clear", "quiet", "announce", "activate", "notify", "write", "wrote", "join"}
\* What is left of a callback: the flag is cleared right before the mutex is
\* taken once, a write ends right after it begins, and the spinner is not started
\* before a write.
Shaped(s) ==
  /\ s \in Seq(Ops)
  /\ \A k \in 1..Len(s) :
       /\ s[k] = "clear" => k < Len(s) /\ s[k+1] = "quiet"
       /\ k < Len(s) /\ s[k+1] = "quiet" => s[k] = "clear"
       /\ s[k] = "write" => k < Len(s) /\ s[k+1] = "wrote"
       /\ s[k] = "activate" => \A j \in k..Len(s) : s[j] \notin {"write", "wrote"}

\* The step is still to come.
Has(s, op) == \E k \in 1..Len(s) : s[k] = op
\* The callback is about to stop the spinner.
Silences(s) == s # <<>> /\ Head(s) = "clear"

\* A frame is drawn under the mutex and only while the flag is up, or while a
\* stop has cleared it and has not yet taken the mutex; whoever still writes has
\* the flag down, or stops the spinner first.
ScreenInv ==
  /\ Shaped(todo)
  /\ worker \in {"test", "blocking", "waiting", "spin", "lock", "recheck", "frame", "gone"}
  /\ stdout = "spinner" <=> worker \in {"recheck", "frame"}
  /\ stdout = "agent" <=> agent = "line"
  /\ worker = "frame" => active \/ screenShutdown \/ (todo # <<>> /\ Head(todo) = "quiet")
  /\ todo # <<>> /\ Head(todo) = "quiet" => ~active
  /\ Has(todo, "write") \/ Has(todo, "wrote") => ~screenShutdown /\ (Silences(todo) \/ ~active)
  /\ writing => todo # <<>> /\ Head(todo) = "wrote"
  /\ streamState = "responding" => ~Has(todo, "activate") /\ (Silences(todo) \/ ~active)

\* What is left after a step has the same shape.
LEMMA ShapedTail ==
    ASSUME NEW s, Shaped(s), s # <<>>
    PROVE  /\ Shaped(Tail(s))
           /\ \A op : Has(Tail(s), op) => Has(s, op)
           /\ Has(s, Head(s))
           /\ Head(s) = "clear" => /\ Tail(s) # <<>> /\ Head(Tail(s)) = "quiet"
           /\ Tail(s) # <<>> /\ Head(Tail(s)) = "quiet" => Head(s) = "clear"
           /\ Head(s) = "write" => /\ Tail(s) # <<>> /\ Head(Tail(s)) = "wrote"
           /\ Head(s) = "activate" => ~Has(Tail(s), "write") /\ ~Has(Tail(s), "wrote")
  <1> DEFINE t == Tail(s)
  <1>1. /\ Len(s) \in Nat \ {0} /\ t \in Seq(Ops) /\ Len(t) = Len(s) - 1
        /\ \A k \in 1..Len(t) : t[k] = s[k + 1]
        /\ Head(s) = s[1]
    BY EmptySeq, HeadTailProperties DEF Shaped
  <1>2. Shaped(t)
    <2> SUFFICES ASSUME NEW k \in 1..Len(t)
                 PROVE  /\ t[k] = "clear" => k < Len(t) /\ t[k+1] = "quiet"
                        /\ k < Len(t) /\ t[k+1] = "quiet" => t[k] = "clear"
                        /\ t[k] = "write" => k < Len(t) /\ t[k+1] = "wrote"
                        /\ t[k] = "activate" =>
                             \A j \in k..Len(t) : t[j] \notin {"write", "wrote"}
      BY <1>1 DEF Shaped
    <2>1. t[k] = s[k+1] /\ k + 1 \in 1..Len(s) /\ (k < Len(t) => t[k+1] = s[(k+1)+1])
      BY <1>1
    <2> HIDE DEF t
    <2>2. \A j \in k..Len(t) : t[j] = s[j+1] /\ j + 1 \in (k+1)..Len(s)
      BY <1>1
    <2> QED BY <2>1, <2>2, <1>1 DEF Shaped
  <1>3. t # <<>> => Len(t) \in Nat \ {0} /\ Head(t) = t[1]
    BY <1>1, EmptySeq, HeadTailProperties
  <1>4. \A op : Has(t, op) => Has(s, op)
    <2> HIDE DEF t
    <2> QED BY <1>1 DEF Has
  <1>5. Len(t) > 0 => t # <<>> /\ Head(t) = s[2]
    <2> HIDE DEF t
    <2> QED BY <1>1, <1>3
  <1> HIDE DEF t
  <1>6. Head(s) = "activate" => ~Has(t, "write") /\ ~Has(t, "wrote")
    BY <1>1 DEF Has, Shaped
  <1>7. Head(s) \in {"clear", "write"} => Len(t) > 0
    BY <1>1 DEF Shaped
  <1>8. Has(s, Head(s))
    BY <1>1 DEF Has
  <1>9. t # <<>> /\ Head(t) = "quiet" => Head(s) = "clear"
    BY <1>1, <1>3 DEF Shaped
  <1> QED BY <1>1, <1>2, <1>4, <1>5, <1>6, <1>7, <1>8, <1>9 DEF Shaped, t

\* A part of a callback that starts no spinner.
Quietly(s) == Shaped(s) /\ ~Has(s, "activate")

\* Such a part may be followed by another.
LEMMA ShapedConcat ==
    ASSUME NEW s, NEW t, Quietly(s), Shaped(t), s # <<>>, t # <<>>, Head(t) # "quiet"
    PROVE  /\ Shaped(s \o t)
           /\ \A op : Has(s \o t, op) => Has(s, op) \/ Has(t, op)
           /\ s \o t # <<>> /\ Head(s \o t) = Head(s)
  <1> DEFINE u == s \o t
  <1>1. /\ Len(s) \in Nat \ {0} /\ Len(t) \in Nat \ {0}
        /\ Len(u) = Len(s) + Len(t) /\ u \in Seq(Ops)
        /\ \A k \in 1..Len(u) : u[k] = IF k <= Len(s) THEN s[k] ELSE t[k - Len(s)]
    BY EmptySeq, LenProperties, ConcatProperties DEF Shaped, Quietly
  <1>2. u # <<>> /\ Head(u) = u[1] /\ Head(s) = s[1] /\ Head(t) = t[1]
    BY <1>1, EmptySeq, HeadTailProperties DEF Shaped, Quietly
  <1> HIDE DEF u
  <1>3. \A op : Has(u, op) => Has(s, op) \/ Has(t, op)
    <2> SUFFICES ASSUME NEW op, NEW k \in 1..Len(u), u[k] = op PROVE Has(s, op) \/ Has(t, op)
      BY DEF Has
    <2>1. CASE k <= Len(s)
      BY <1>1, <2>1 DEF Has
    <2>2. CASE k > Len(s)
      <3>1. k - Len(s) \in 1..Len(t) /\ t[k - Len(s)] = op
        BY <1>1, <2>2
      <3> QED BY <3>1 DEF Has
    <2> QED BY <2>1, <2>2, <1>1
  <1>4. Shaped(u)
    <2> SUFFICES ASSUME NEW k \in 1..Len(u)
                 PROVE  /\ u[k] = "clear" => k < Len(u) /\ u[k+1] = "quiet"
                        /\ k < Len(u) /\ u[k+1] = "quiet" => u[k] = "clear"
                        /\ u[k] = "write" => k < Len(u) /\ u[k+1] = "wrote"
                        /\ u[k] = "activate" =>
                             \A j \in k..Len(u) : u[j] \notin {"write", "wrote"}
      BY <1>1 DEF Shaped
    <2>1. CASE k <= Len(s)
      <3>1. u[k] = s[k] /\ k \in 1..Len(s) /\ (k < Len(s) => u[k+1] = s[k+1])
        BY <1>1, <2>1
      <3>3. k = Len(s) => u[k+1] # "quiet"
        BY <1>1, <1>2
      <3>2. u[k] # "activate"
        BY <3>1 DEF Quietly, Has
      <3> QED BY <3>1, <3>2, <3>3, <1>1 DEF Quietly, Shaped
    <2>2. CASE k > Len(s)
      <3> PICK m \in 1..Len(t) : k = m + Len(s)
        <4>1. k - Len(s) \in 1..Len(t) /\ k = (k - Len(s)) + Len(s)
          BY <1>1, <2>2
        <4> QED BY <4>1
      <3>1. u[k] = t[m] /\ (k < Len(u) <=> m < Len(t)) /\ (m < Len(t) => u[k+1] = t[m+1])
        BY <1>1, <2>2
      <3>2. \A j \in k..Len(u) : u[j] = t[j - Len(s)] /\ j - Len(s) \in m..Len(t)
        BY <1>1, <2>2
      <3>3. t[m] = "activate" => \A j \in m..Len(t) : t[j] \notin {"write", "wrote"}
        BY DEF Shaped
      <3> QED BY <3>1, <3>2, <3>3 DEF Shaped
    <2> QED BY <2>1, <2>2, <1>1
  <1> QED BY <1>1, <1>2, <1>3, <1>4 DEF u

\* The parts the callbacks are put together from.
LEMMA CallbacksAreShaped ==
  /\ Quietly(Screen!StopSpinner) /\ Silences(Screen!StopSpinner)
  /\ Quietly(Screen!WriteText) /\ Screen!WriteText # <<>> /\ Head(Screen!WriteText) = "write"
  /\ Quietly(<<"notify", "join">>)
  /\ ~Has(<<"notify", "join">>, "write") /\ ~Has(<<"notify", "join">>, "wrote")
  /\ <<"notify", "join">> # <<>> /\ Head(<<"notify", "join">>) = "notify"
  /\ Shaped(Screen!StartSpinner) /\ Silences(Screen!StartSpinner)
  <1>1. /\ Quietly(<<"clear", "quiet">>) /\ Quietly(<<"write", "wrote">>)
        /\ Quietly(<<"notify", "join">>)
    BY DEF Quietly, Shaped, Ops, Has
  <1>2. /\ Shaped(<<"announce", "activate", "notify">>)
        /\ <<"announce", "activate", "notify">> # <<>>
        /\ Head(<<"announce", "activate", "notify">>) = "announce"
    BY DEF Shaped, Ops
  <1>3. /\ <<"clear", "quiet">> # <<>> /\ Head(<<"clear", "quiet">>) = "clear"
        /\ <<"write", "wrote">> # <<>> /\ Head(<<"write", "wrote">>) = "write"
        /\ <<"notify", "join">> # <<>> /\ Head(<<"notify", "join">>) = "notify"
    OBVIOUS
  <1>4. ~Has(<<"notify", "join">>, "write") /\ ~Has(<<"notify", "join">>, "wrote")
    BY DEF Has
  <1> QED BY <1>1, <1>2, <1>3, <1>4, ShapedConcat
          DEF Screen!StartSpinner, Screen!StopSpinner, Screen!WriteText, Silences

\* A callback begins: it stops the spinner first, unless text follows text.
LEMMA CallKeeps ==
    ASSUME ScreenInv, NEW s, NEW to, Screen!Calls(s, to), Shaped(s), s # <<>>,
           Head(s) # "quiet", Silences(s) \/ ~active, to = "responding" => ~Has(s, "activate")
    PROVE  ScreenInv'
  <1>1. todo = <<>> /\ ~screenShutdown /\ todo' = s /\ streamState' = to
    BY DEF Screen!Calls
  <1>2. UNCHANGED <<writing, active, screenShutdown, worker, stdout, agent>>
    BY DEF Screen!Calls
  <1> QED BY <1>1, <1>2 DEF ScreenInv

\* Every step of a callback, of the spinner's thread and of a sub-agent keeps it.
LEMMA ScreenStep == ScreenInv /\ [Screen!Next]_(Screen!vars) => ScreenInv'
  <1> SUFFICES ASSUME ScreenInv, [Screen!Next]_(Screen!vars) PROVE ScreenInv'
    OBVIOUS
  <1>1. CASE Screen!Callback
    <2> USE CallbacksAreShaped, ShapedConcat
    <2> DEFINE stopThenWrite == Screen!StopSpinner \o Screen!WriteText
    <2>1. Quietly(stopThenWrite) /\ stopThenWrite # <<>> /\ Head(stopThenWrite) = "clear"
      BY DEF Quietly, Silences
    <2>2. /\ Quietly(Screen!StopSpinner) /\ Screen!StopSpinner # <<>>
          /\ Head(Screen!StopSpinner) = "clear"
      BY DEF Silences
    <2>3. /\ Shaped(Screen!StartSpinner) /\ Screen!StartSpinner # <<>>
          /\ Head(Screen!StartSpinner) = "clear"
      BY DEF Silences
    <2> HIDE DEF stopThenWrite
    <2>4. ASSUME NEW s, NEW to, Screen!Calls(s, to), Quietly(s), s # <<>>, Head(s) = "clear"
          PROVE  ScreenInv'
      BY <2>4, CallKeeps DEF Quietly, Silences
    <2>5. ASSUME NEW s, NEW to, Screen!Calls(s, to), Shaped(s), s # <<>>, Head(s) = "clear",
                 to # "responding"
          PROVE  ScreenInv'
      BY <2>5, CallKeeps DEF Silences
    <2>6. CASE Screen!TurnStarts
      BY <2>6, <2>3, <2>5 DEF Screen!TurnStarts
    <2>7. CASE Screen!OnText
      <3>1. CASE streamState = "responding"
        <4>1. Screen!Calls(<<>> \o Screen!WriteText, "responding")
          BY <2>7, <3>1 DEF Screen!OnText
        <4>2. <<>> \o Screen!WriteText = Screen!WriteText
          BY ConcatEmptySeq DEF Quietly, Shaped
        <4>3. ~active
          BY <3>1, <4>1 DEF ScreenInv, Silences, Screen!Calls
        <4> QED BY <4>1, <4>2, <4>3, CallKeeps DEF Quietly
      <3>2. CASE streamState # "responding"
        BY <2>7, <3>2, <2>1, <2>4 DEF Screen!OnText, stopThenWrite
      <3> QED BY <3>1, <3>2
    <2>8. CASE Screen!OnThinking
      BY <2>8, <2>2, <2>3, <2>5 DEF Screen!OnThinking
    <2>9. CASE Screen!OnToolUse
      <3> PICK takesConsole \in BOOLEAN :
            Screen!Calls(stopThenWrite \o (IF takesConsole THEN Screen!WriteText
                                                           ELSE Screen!StartSpinner), "tool")
        BY <2>9 DEF Screen!OnToolUse, stopThenWrite
      <3>1. CASE takesConsole
        BY <3>1, <2>1, <2>5 DEF Quietly
      <3>2. CASE ~takesConsole
        BY <3>2, <2>1, <2>3, <2>5
      <3> QED BY <3>1, <3>2
    <2>10. CASE Screen!OnToolResult
      BY <2>10, <2>1, <2>3, <2>5 DEF Screen!OnToolResult, stopThenWrite
    <2>11. CASE Screen!OnAskPermission \/ Screen!OnComplete
      BY <2>11, <2>1, <2>4 DEF Screen!OnAskPermission, Screen!OnComplete, stopThenWrite
    <2>12. CASE Screen!TurnEnds
      BY <2>12, <2>2, <2>4 DEF Screen!TurnEnds
    <2>13. CASE Screen!ProgramEnds
      BY <2>13 DEF Screen!ProgramEnds, ScreenInv, Quietly, Silences, Screen!NoTurn
    <2> QED BY <2>6, <2>7, <2>8, <2>9, <2>10, <2>11, <2>12, <2>13, <1>1 DEF Screen!Callback
  <1>2. CASE Screen!Clear
    <2>1. /\ Shaped(Tail(todo)) /\ Tail(todo) # <<>> /\ Head(Tail(todo)) = "quiet"
          /\ \A op : Has(Tail(todo), op) => Has(todo, op)
      BY <1>2, ShapedTail DEF Screen!Clear, Screen!Next1, ScreenInv
    <2>2. CASE active
      BY <1>2, <2>1, <2>2 DEF Screen!Clear, Screen!Next1, ScreenInv
    <2>3. CASE ~active
      BY <1>2, <2>1, <2>3, ShapedTail DEF Screen!Clear, Screen!Next1, ScreenInv
    <2> QED BY <2>2, <2>3
  <1>3. CASE Screen!Quiet
    BY <1>3, ShapedTail DEF Screen!Quiet, Screen!Next1, Screen!Done, ScreenInv, Silences
  <1>4. CASE Screen!Announce
    BY <1>4, ShapedTail DEF Screen!Announce, Screen!Next1, Screen!Done, ScreenInv, Silences
  <1>5. CASE Screen!Activate
    BY <1>5, ShapedTail DEF Screen!Activate, Screen!Next1, Screen!Done, ScreenInv, Silences
  <1>6. CASE Screen!Notify
    BY <1>6, ShapedTail DEF Screen!Notify, Screen!Next1, Screen!Done, ScreenInv, Silences
  <1>7. CASE Screen!Write
    BY <1>7, ShapedTail DEF Screen!Write, Screen!Next1, Screen!Done, ScreenInv, Silences
  <1>8. CASE Screen!Wrote
    BY <1>8, ShapedTail DEF Screen!Wrote, Screen!Next1, Screen!Done, ScreenInv, Silences
  <1>9. CASE Screen!Join
    BY <1>9, ShapedTail DEF Screen!Join, Screen!Next1, Screen!Done, ScreenInv, Silences
  <1>10. CASE Screen!SpinnerThread
    <2> USE DEF Screen!Moves, ScreenInv, Silences
    <2>1. UNCHANGED <<streamState, todo, writing, active, screenShutdown, agent>>
      BY <1>10 DEF Screen!SpinnerThread
    <2>2. CASE Screen!Tests \/ Screen!Blocks \/ Screen!Spins
      BY <2>1, <2>2 DEF Screen!Tests, Screen!Blocks, Screen!Spins
    <2>3. CASE Screen!Locks
      BY <2>1, <2>3 DEF Screen!Locks
    <2>4. CASE Screen!Rechecks
      BY <2>1, <2>4 DEF Screen!Rechecks
    <2>5. CASE Screen!Draws
      BY <2>1, <2>5 DEF Screen!Draws
    <2> QED BY <2>2, <2>3, <2>4, <2>5, <1>10 DEF Screen!SpinnerThread
  <1>11. CASE Screen!AgentPrints
    BY <1>11 DEF Screen!AgentPrints, ScreenInv, Silences
  <1>12. CASE UNCHANGED Screen!vars
    BY <1>12 DEF Screen!vars, ScreenInv, Silences
  <1> QED BY <1>1, <1>2, <1>3, <1>4, <1>5, <1>6, <1>7, <1>8, <1>9, <1>10, <1>11, <1>12
          DEF Screen!Next, Screen!MainStep

\* No frame of the spinner falls into the text a callback writes without the
\* mutex: Spinner::stop has returned by then, and nothing has started it again.
THEOREM FramesStayOutOfText == Screen!Spec => []NoFrameInText
  <1>1. Screen!Init => ScreenInv
    BY DEF Screen!Init, ScreenInv, Shaped, Has, Silences, Screen!NoTurn
  <1>2. ScreenInv => NoFrameInText
    <2> SUFFICES ASSUME ScreenInv, writing PROVE worker # "frame"
      BY DEF NoFrameInText, Screen!NoFrameInText
    <2>1. todo # <<>> /\ Head(todo) = "wrote" /\ Has(todo, "wrote")
      BY ShapedTail DEF ScreenInv
    <2> QED BY <2>1 DEF ScreenInv, Silences
  <1> QED BY <1>1, <1>2, ScreenStep, PTL DEF Screen!Spec

-----------------------------------------------------------------------------
(* Remote control (Phone).                                                 *)

\* Whoever still sends holds the mutex and is inside a turn, and the sockets it
\* has left are open, as those of the list are; once main leaves, its own turn
\* is over.
PhoneInv ==
  /\ window \in {"starting", "open", "leaving", "over"}
  /\ socket \in [PhoneClients -> {"none", "open", "closed"}]
  /\ phoneClients \subseteq {c \in PhoneClients : socket[c] = "open"}
  /\ sending \in [Phone!Threads -> SUBSET PhoneClients]
  /\ \A t \in Phone!Threads : \A c \in sending[t] : socket[c] = "open"
  /\ \A t \in Phone!Threads : sending[t] # {} => phoneMutex = t /\ t \in inTurn
  /\ window = "leaving" => Main \notin inTurn

\* The instance counts as FiniteSets does.
LEMMA SizesAgree == \A S : Phone!Cardinality(S) = Cardinality(S)
  BY DEF Phone!Cardinality, Cardinality

\* Every step keeps the invariant.
LEMMA PhoneStep == PhoneInv /\ [Phone!Next]_(Phone!vars) => PhoneInv'
  <1> SUFFICES ASSUME PhoneInv, [Phone!Next]_(Phone!vars) PROVE PhoneInv'
    OBVIOUS
  <1> USE DEF PhoneInv, Phone!server, Phone!Threads
  <1>1. CASE Phone!PortIsTaken \/ Phone!Opens \/ Phone!HttpChat \/ Phone!RouterGoes
            \/ Phone!HttpStops
    BY <1>1
       DEF Phone!PortIsTaken, Phone!Opens, Phone!HttpChat, Phone!RouterGoes, Phone!HttpStops
  <1>2. ASSUME NEW t \in Phone!Threads, NEW R \in SUBSET phoneClients, Phone!Sends(t, R),
               t \in inTurn
        PROVE  PhoneInv'
    BY <1>2, PhoneAssumption DEF Phone!Sends
  <1>3. CASE Phone!Broadcast
    BY <1>2, <1>3 DEF Phone!Broadcast
  <1>4. CASE Phone!Submit \/ Phone!Leave \/ Phone!Over
    BY <1>4 DEF Phone!Submit, Phone!Leave, Phone!Over
  <1>6. ASSUME NEW c \in PhoneClients, Phone!Connect(c) \/ Phone!Close(c) \/ Phone!Frees(c)
        PROVE  PhoneInv'
    <2>1. phoneMutex = NoThread => \A t \in Phone!Threads : sending[t] = {}
      BY PhoneAssumption
    <2>2. CASE Phone!Connect(c)
      BY <2>1, <2>2 DEF Phone!Connect
    <2>3. CASE Phone!Close(c)
      BY <2>1, <2>3 DEF Phone!Close, Phone!Forgets
    <2>4. CASE Phone!Frees(c)
      BY <2>4 DEF Phone!Frees
    <2> QED BY <1>6, <2>2, <2>3, <2>4
  <1>7. ASSUME NEW c \in PhoneClients, Phone!Answer(c) PROVE PhoneInv'
    BY <1>2, <1>7 DEF Phone!Answer
  <1>8. ASSUME NEW c \in PhoneClients, Phone!Inject(c) PROVE PhoneInv'
    BY <1>8, PhoneAssumption DEF Phone!Inject
  <1>9. ASSUME NEW t \in Phone!Threads, Phone!SendOne(t) PROVE PhoneInv'
    <2> PICK c \in sending[t] : sending' = [sending EXCEPT ![t] = @ \ {c}]
      BY <1>9 DEF Phone!SendOne
    <2>1. UNCHANGED <<window, socket, phoneClients, inTurn>>
      BY <1>9 DEF Phone!SendOne
    <2>2. Cardinality(sending[t]) = 1 => sending'[t] = {}
      <3>1. IsFiniteSet(sending[t])
        BY PhoneAssumption, FS_Subset
      <3> QED BY <3>1, FS_Singleton
    <2>3. sending' \in [Phone!Threads -> SUBSET PhoneClients]
      OBVIOUS
    <2>4. \A u \in Phone!Threads \ {t} : sending[u] = {} /\ sending'[u] = {}
      BY <1>9 DEF Phone!SendOne
    <2>5. sending'[t] # {} => phoneMutex' = t /\ t \in inTurn'
      <3>1. phoneMutex' = IF Cardinality(sending[t]) = 1 THEN NoThread ELSE t
        BY <1>9, SizesAgree DEF Phone!SendOne
      <3>2. t \in inTurn
        OBVIOUS
      <3> QED BY <2>1, <2>2, <3>1, <3>2
    <2> QED BY <2>1, <2>3, <2>4, <2>5
  <1>10. ASSUME NEW t \in Phone!Threads, Phone!TurnEnds(t) PROVE PhoneInv'
    BY <1>10 DEF Phone!TurnEnds
  <1>11. CASE UNCHANGED Phone!vars
    BY <1>11 DEF Phone!vars
  <1> QED BY <1>1, <1>3, <1>4, <1>6, <1>7, <1>8, <1>9, <1>10, <1>11 DEF Phone!Next

\* A send reaches a socket that is open, although sockets close, are freed and
\* the window is taken down while turns broadcast and answer.
THEOREM PhonesAreSentToWhileOpen == Phone!Spec => []SendsReachOpenSockets
  <1>1. Phone!Init => PhoneInv
    BY DEF Phone!Init, PhoneInv
  <1>2. PhoneInv => SendsReachOpenSockets
    BY DEF PhoneInv, SendsReachOpenSockets, Phone!SendsReachOpenSockets
  <1> QED BY <1>1, <1>2, PhoneStep, PTL DEF Phone!Spec

-----------------------------------------------------------------------------
(* Commands (Prompts).                                                     *)

\* An agent that is waited for is waited for by a prompt of a running command, and
\* holds the engine's present client; the first client is never destroyed.
PromptsInv ==
  /\ inPrompt => running # "none"
  /\ agents \subseteq [client : Int, waiting : {"prompt", "nobody"}]
  /\ \A a \in agents : a.waiting = "prompt" => inPrompt
  /\ 0 \in alive /\ apiClient \in Int
  /\ AgentsKeepTheirClient

\* Every step of the commands keeps it.
LEMMA PromptsStep == PromptsInv /\ [Prompts!Next]_(Prompts!commandVars) => PromptsInv'
  <1> SUFFICES ASSUME PromptsInv, [Prompts!Next]_(Prompts!commandVars) PROVE PromptsInv'
    OBVIOUS
  <1> USE DEF PromptsInv, AgentsKeepTheirClient, Prompts!AgentsKeepTheirClient,
              Prompts!clientVars, Prompts!promptVars
  <1>1. CASE Prompts!ReadLine \/ Prompts!Submit \/ Prompts!CommandEnds \/ Prompts!CtrlC
    BY <1>1 DEF Prompts!ReadLine, Prompts!Submit, Prompts!CommandEnds, Prompts!CtrlC
  <1>2. CASE Prompts!StartAgent
    <2> PICK w \in {"prompt", "nobody"} :
          agents' = agents \cup {[client |-> apiClient, waiting |-> w]}
      BY <1>2 DEF Prompts!StartAgent
    <2>1. inPrompt /\ UNCHANGED <<running, inPrompt, apiClient, alive>>
      BY <1>2 DEF Prompts!StartAgent
    <2> QED BY <2>1
  <1>3. CASE Prompts!GiveUp
    <2> PICK a \in agents : agents' = (agents \ {a}) \cup {[a EXCEPT !.waiting = "nobody"]}
      BY <1>3 DEF Prompts!GiveUp
    <2>1. a.waiting = "prompt" /\ UNCHANGED <<running, inPrompt, apiClient, alive>>
      BY <1>3 DEF Prompts!GiveUp
    <2> QED BY <2>1
  <1>4. CASE Prompts!PromptEnds
    BY <1>4 DEF Prompts!PromptEnds, Prompts!MayEnd, Prompts!AgentsAnswered
  <1>5. CASE Prompts!AgentEnds
    BY <1>5 DEF Prompts!AgentEnds
  <1>6. CASE Prompts!SwitchModel
    BY <1>6 DEF Prompts!SwitchModel, Prompts!ModelClient
  <1>7. CASE Prompts!Flip
    BY <1>7 DEF Prompts!Flip
  <1>8. CASE UNCHANGED Prompts!commandVars
    BY <1>8 DEF Prompts!commandVars
  <1> QED BY <1>1, <1>2, <1>3, <1>4, <1>5, <1>6, <1>7, <1>8 DEF Prompts!Next

\* An agent that a prompt waits for has its client as long as the wait lasts,
\* whatever /model, Ctrl+C and time-outs do; only agents in the background that a
\* client of /model's serves can lose it.
THEOREM WaitedAgentsKeepTheirClient == Prompts!Spec => []AgentsKeepTheirClient
  <1>1. Prompts!Init => PromptsInv
    BY DEF Prompts!Init, PromptsInv, AgentsKeepTheirClient, Prompts!AgentsKeepTheirClient
  <1>2. PromptsInv => AgentsKeepTheirClient
    BY DEF PromptsInv
  <1> QED BY <1>1, <1>2, PromptsStep, PTL DEF Prompts!Spec

-----------------------------------------------------------------------------
(* Background tasks (TaskStore).                                           *)

\* An entry, the steps of a thread, a thread, and whether it was started.
Entries == [status : TaskStore!Statuses, command : Nat, shown : Nat]
Steps == {"claim", "run", "status", "output", "over"}
Reporters == [kind : {"none", "bash", "monitor"}, id : Nat, at : Steps]
Known(c) == taskStoreWorker[c].kind # "none"

TaskTypes ==
  /\ tasks \in [TaskStore!Ids -> {NoTask} \cup Entries]
  /\ taskStoreWorker \in [TaskStore!Ids -> Reporters]
  /\ nextId \in 0..MaxTasks /\ commands \in Nat

\* A thread's id has been given, and the entry of that id is its own or gone.
HoldsItsOwn(c) ==
  LET i == taskStoreWorker[c].id
  IN  i \in 1..nextId /\ (TaskStore!Exists(i) => tasks[i].command = c)

\* An id is given once: an entry's id, and the id a thread reports to, are behind
\* the counter, and the entry of that id is still the thread's own or gone.
TasksInv ==
  /\ TaskTypes
  /\ \A i \in TaskStore!Ids : TaskStore!Exists(i) => i <= nextId
  /\ \A c \in TaskStore!Ids : Known(c) => HoldsItsOwn(c)
  /\ ResultsAreOwn

\* A step that creates no task: entries keep their command, and show what they
\* showed or their own command's output.
KeepsEntries ==
  /\ tasks' \in [TaskStore!Ids -> {NoTask} \cup Entries]
  /\ \A i \in TaskStore!Ids : TaskStore!Exists(i)' =>
       /\ TaskStore!Exists(i) /\ tasks'[i].command = tasks[i].command
       /\ tasks'[i].shown \in {tasks[i].shown, tasks[i].command}

\* A thread goes on reporting to the id it was started for.
KeepsReporters ==
  /\ taskStoreWorker' \in [TaskStore!Ids -> Reporters]
  /\ \A d \in TaskStore!Ids : /\ taskStoreWorker'[d].kind = taskStoreWorker[d].kind
                             /\ taskStoreWorker'[d].id = taskStoreWorker[d].id

\* Such a step keeps the invariant.
LEMMA KeptIsEnough ==
  ASSUME TasksInv, KeepsEntries, KeepsReporters, UNCHANGED <<nextId, commands>> PROVE TasksInv'
  <1>1. TaskTypes'
    BY DEF TasksInv, TaskTypes, KeepsEntries, KeepsReporters
  <1>2. ResultsAreOwn'
    BY DEF TasksInv, KeepsEntries, ResultsAreOwn, TaskStore!ResultsAreOwn, TaskStore!Started
  <1>3. (\A i \in TaskStore!Ids : TaskStore!Exists(i) => i <= nextId)'
    BY DEF TasksInv, KeepsEntries
  <1>4. ASSUME NEW c \in TaskStore!Ids, Known(c)'
        PROVE  HoldsItsOwn(c)'
    <2>1. Known(c) /\ taskStoreWorker'[c].id = taskStoreWorker[c].id
      BY <1>4 DEF Known, KeepsReporters
    <2>2. taskStoreWorker[c].id \in 1..nextId /\ taskStoreWorker[c].id \in TaskStore!Ids
      BY <2>1, TaskAssumption DEF TasksInv, HoldsItsOwn, TaskTypes, TaskStore!Ids
    <2> QED BY <2>1, <2>2 DEF KeepsEntries, TasksInv, HoldsItsOwn, TaskStore!Exists
  <1> QED BY <1>1, <1>2, <1>3, <1>4 DEF TasksInv

\* What changes neither is such a step.
LEMMA UnchangedKeeps ==
  ASSUME TasksInv
  PROVE  /\ UNCHANGED tasks => KeepsEntries
         /\ UNCHANGED taskStoreWorker => KeepsReporters
  BY DEF TasksInv, TaskTypes, KeepsEntries, KeepsReporters, TaskStore!Exists

\* So is a thread's move to its next step,
LEMMA GotoKeeps ==
  ASSUME TasksInv, NEW c \in TaskStore!Ids, NEW step \in Steps, TaskStore!Goto(c, step)
  PROVE  KeepsReporters
  BY DEF TasksInv, TaskTypes, TaskStore!Goto, KeepsReporters, Reporters

\* and its write through the pointer it holds, of its entry or of a stray one.
LEMMA WriteKeeps ==
  ASSUME TasksInv, NEW c \in TaskStore!Ids, Known(c),
     \/ TaskStore!Writes(c, "status", "completed")
     \/ TaskStore!Writes(c, "status", "running")
     \/ TaskStore!Writes(c, "shown", c)
  PROVE  KeepsEntries
  <1> DEFINE i == taskStoreWorker[c].id
  <1>1. i \in TaskStore!Ids
    BY TaskAssumption DEF TasksInv, TaskStore!Ids, TaskTypes, HoldsItsOwn
  <1>2. CASE tasks[i] = NoTask
    BY <1>2, UnchangedKeeps DEF TaskStore!Writes, TaskStore!Exists
  <1>3. CASE tasks[i] # NoTask
    <2>1. tasks[i] \in Entries /\ tasks[i].command = c
      BY <1>1, <1>3 DEF TasksInv, TaskTypes, HoldsItsOwn, TaskStore!Exists
    <2>2. tasks \in [TaskStore!Ids -> {NoTask} \cup Entries]
      BY DEF TasksInv, TaskTypes
    <2>3. \/ tasks' = [tasks EXCEPT ![i]["status"] = "completed"]
          \/ tasks' = [tasks EXCEPT ![i]["status"] = "running"]
          \/ tasks' = [tasks EXCEPT ![i]["shown"] = c]
      BY <1>3 DEF TaskStore!Writes, TaskStore!Exists
    <2> HIDE DEF i
    <2> QED BY <1>1, <1>3, <2>1, <2>2, <2>3, TaskAssumption
               DEF KeepsEntries, Entries, TaskStore!Exists, TaskStore!Statuses,
                   TaskStore!Ids
  <1> QED BY <1>2, <1>3

\* A new entry takes an id nothing refers to.
LEMMA CreateKeeps ==
  ASSUME TasksInv, NEW c \in Nat, TaskStore!Create(c)
  PROVE  /\ nextId' = nextId + 1 /\ nextId' \in TaskStore!Ids
         /\ tasks' \in [TaskStore!Ids -> {NoTask} \cup Entries]
         /\ \A i \in TaskStore!Ids \ {nextId'} : tasks'[i] = tasks[i]
         /\ tasks'[nextId'].command = c
         /\ ResultsAreOwn' /\ (\A i \in TaskStore!Ids : TaskStore!Exists(i) => i <= nextId)'
  <1> DEFINE new == [status |-> "pending", command |-> c, shown |-> 0]
  <1>1. /\ nextId' = nextId + 1 /\ nextId' \in TaskStore!Ids
        /\ tasks' = [tasks EXCEPT ![nextId'] = new]
    BY DEF TaskStore!Create, TaskStore!FreshId, TaskStore!Started
  <1>2. tasks \in [TaskStore!Ids -> {NoTask} \cup Entries] /\ nextId \in 0..MaxTasks
    BY DEF TasksInv, TaskTypes
  <1>3. new \in Entries
    BY DEF Entries, TaskStore!Statuses
  <1>4. new.shown = 0 /\ new.command = c
    OBVIOUS
  <1> HIDE DEF new
  <1>5. /\ tasks' \in [TaskStore!Ids -> {NoTask} \cup Entries] /\ tasks'[nextId'] = new
        /\ \A i \in TaskStore!Ids \ {nextId'} : tasks'[i] = tasks[i]
    BY <1>1, <1>2, <1>3
  <1>6. ASSUME NEW i \in TaskStore!Ids, tasks'[i] # NoTask
        PROVE  tasks'[i].shown \in {0, tasks'[i].command} /\ i <= nextId'
    <2>1. CASE i = nextId'
      BY <1>1, <1>2, <1>4, <1>5, <2>1
    <2>2. CASE i # nextId'
      <3>1. tasks'[i] = tasks[i]
        BY <1>5, <2>2
      <3> QED BY <3>1, <1>1, <1>2, <1>6
                 DEF TasksInv, ResultsAreOwn, TaskStore!ResultsAreOwn, TaskStore!Exists,
            TaskStore!Started, TaskStore!Ids
    <2> QED BY <2>1, <2>2
  <1>7. ResultsAreOwn' /\ (\A i \in TaskStore!Ids : TaskStore!Exists(i) => i <= nextId)'
    BY <1>6 DEF ResultsAreOwn, TaskStore!ResultsAreOwn, TaskStore!Exists, TaskStore!Started
  <1> QED BY <1>1, <1>4, <1>5, <1>7

\* Every step keeps the invariant.
LEMMA TasksStep == TasksInv /\ [TaskStore!Next]_(TaskStore!vars) => TasksInv'
  <1> SUFFICES ASSUME TasksInv, [TaskStore!Next]_(TaskStore!vars) PROVE TasksInv'
    OBVIOUS
  <1>2. CASE TaskStore!TaskCreate
    <2>1. TaskStore!Create(0) /\ UNCHANGED <<commands, taskStoreWorker>>
      BY <1>2 DEF TaskStore!TaskCreate
    <2>2. TaskTypes'
      BY <2>1, CreateKeeps, TaskAssumption DEF TasksInv, TaskTypes, TaskStore!Ids
    <2>3. ASSUME NEW c \in TaskStore!Ids, Known(c)'
        PROVE  HoldsItsOwn(c)'
      BY <2>1, <2>3, CreateKeeps, TaskAssumption
         DEF TasksInv, TaskTypes, HoldsItsOwn, TaskStore!Ids, Known, TaskStore!Exists
    <2> QED BY <2>1, <2>2, <2>3, CreateKeeps DEF TasksInv
  <1>3. ASSUME NEW k \in {"bash", "monitor"}, TaskStore!RunInBackground(k) PROVE TasksInv'
    <2>1. /\ commands' = commands + 1 /\ TaskStore!Create(commands')
          /\ taskStoreWorker' = [taskStoreWorker EXCEPT ![commands'] =
               [kind |-> k, id |-> nextId + 1, at |-> IF k = "monitor" THEN "claim" ELSE "run"]]
          /\ commands' \in TaskStore!Ids /\ commands' \in Nat
      BY <1>3, TaskAssumption
         DEF TaskStore!RunInBackground, TaskStore!FreshId, TasksInv, TaskTypes,
             TaskStore!Ids
    <2>2. nextId' = nextId + 1 /\ nextId' \in TaskStore!Ids
      BY <2>1, CreateKeeps
    <2>3. taskStoreWorker' \in [TaskStore!Ids -> Reporters]
      <3>1. [kind |-> k, id |-> nextId + 1,
             at |-> IF k = "monitor" THEN "claim" ELSE "run"] \in Reporters
        BY DEF TasksInv, TaskTypes, Reporters, Steps
      <3> QED BY <2>1, <3>1 DEF TasksInv, TaskTypes
    <2>4. TaskTypes'
      BY <2>1, <2>2, <2>3, CreateKeeps, TaskAssumption
         DEF TasksInv, TaskTypes, TaskStore!Ids
    <2>5. ASSUME NEW c \in TaskStore!Ids, Known(c)'
        PROVE  HoldsItsOwn(c)'
      <3>1. CASE c = commands'
        BY <2>1, <2>2, <3>1, CreateKeeps DEF TasksInv, TaskTypes, HoldsItsOwn, TaskStore!Ids
      <3>2. CASE c # commands'
        <4>1. taskStoreWorker'[c] = taskStoreWorker[c]
          BY <2>1, <3>2 DEF TasksInv, TaskTypes
        <4> QED BY <2>1, <4>1, <2>5, CreateKeeps, TaskAssumption
                   DEF TasksInv, TaskTypes, HoldsItsOwn, TaskStore!Ids, Known, TaskStore!Exists
      <3> QED BY <3>1, <3>2
    <2> QED BY <2>1, <2>4, <2>5, CreateKeeps DEF TasksInv
  <1>4. ASSUME NEW i \in TaskStore!Ids, TaskStore!TaskUpdate(i) PROVE TasksInv'
    <2>1. KeepsEntries
      BY <1>4
         DEF TaskStore!TaskUpdate, TasksInv, TaskTypes, TaskStore!Exists, Entries,
             TaskStore!Statuses, KeepsEntries
    <2> QED BY <1>4, <2>1, UnchangedKeeps, KeptIsEnough DEF TaskStore!TaskUpdate
  <1>5. ASSUME NEW i \in TaskStore!Ids, TaskStore!StopTests(i) PROVE TasksInv'
    BY <1>5, UnchangedKeeps, KeptIsEnough DEF TaskStore!StopTests
  <1>6. CASE TaskStore!StopWrites
    <2>1. KeepsEntries
      BY <1>6
         DEF TaskStore!StopWrites, TasksInv, TaskTypes, TaskStore!Exists, Entries,
             TaskStore!Statuses, KeepsEntries
    <2> QED BY <1>6, <2>1, UnchangedKeeps, KeptIsEnough DEF TaskStore!StopWrites
  <1>7. ASSUME NEW c \in TaskStore!Ids, TaskStore!Thread(c) PROVE TasksInv'
    <2> USE DEF TaskStore!BashEnds, TaskStore!BashCompletes, TaskStore!BashShows,
        TaskStore!MonitorClaims, TaskStore!MonitorShows, TaskStore!MonitorEnds,
        TaskStore!MonitorLeaves
    <2>1. Known(c) /\ UNCHANGED <<nextId, commands>>
      BY <1>7 DEF TaskStore!Thread, TaskStore!At, Known
    <2>2. (\E step \in Steps : TaskStore!Goto(c, step)) \/ UNCHANGED taskStoreWorker
      BY <1>7 DEF TaskStore!Thread, Steps
    <2>3. KeepsReporters
      BY <2>2, GotoKeeps, UnchangedKeeps
    <2>4. \/ UNCHANGED tasks
          \/ TaskStore!Writes(c, "status", "completed")
          \/ TaskStore!Writes(c, "status", "running")
          \/ TaskStore!Writes(c, "shown", c)
      BY <1>7 DEF TaskStore!Thread
    <2>5. KeepsEntries
      BY <2>1, <2>4, WriteKeeps, UnchangedKeeps
    <2> QED BY <2>1, <2>3, <2>5, KeptIsEnough
  <1>8. CASE UNCHANGED TaskStore!vars
    BY <1>8, UnchangedKeeps, KeptIsEnough DEF TaskStore!vars
  <1> QED BY <1>2, <1>3, <1>4, <1>5, <1>6, <1>7, <1>8 DEF TaskStore!Next, TaskStore!Tool

\* A task shows its own command's output or none, although threads report after
\* their tasks were deleted and others were created (TaskStore::get).
THEOREM ResultsStayOwn == TaskStore!Spec => []ResultsAreOwn
  <1>1. TaskStore!Init => TasksInv
    <2> SUFFICES ASSUME TaskStore!Init PROVE TasksInv
      OBVIOUS
    <2>1. TaskStore!Idle \in Reporters /\ TaskStore!Idle.kind = "none"
      BY DEF Reporters, TaskStore!Idle, Steps
    <2>2. TaskTypes
      BY <2>1, TaskAssumption DEF TaskStore!Init, TaskTypes
    <2> QED BY <2>1, <2>2
               DEF TaskStore!Init, TasksInv, Known, TaskStore!Exists, ResultsAreOwn,
            TaskStore!ResultsAreOwn
  <1>2. TasksInv => ResultsAreOwn
    BY DEF TasksInv
  <1> QED BY <1>1, <1>2, TasksStep, PTL DEF TaskStore!Spec

-----------------------------------------------------------------------------
(* Predictive preloading (Ahead).                                          *)

\* As long as no two turns overlap: a handle is left behind only with the flag
\* up (startPreloading then returns) or on the way through stopPreloading, which
\* joins it; so whoever assigns it finds none.
AheadInv ==
  /\ runs \in Nat /\ handle \in Nat
  /\ aheadPc \in [Engines -> {"idle", "starting", "asking", "stopping", "joining"}]
  /\ preloading \in BOOLEAN /\ shared \in BOOLEAN
  /\ shared \/ /\ ~terminated
               /\ \A e, f \in Engines : aheadPc[e] # "idle" /\ aheadPc[f] # "idle" => e = f
               /\ ~preloading /\ (\A e \in Engines : aheadPc[e] \notin {"stopping", "joining"})
                    => handle = 0
               /\ \A e \in Engines : aheadPc[e] = "joining" => handle # 0
               /\ \A e \in Engines : aheadPc[e] = "starting" => ~preloading
               /\ \A e \in Engines : aheadPc[e] \in {"stopping", "joining"} => ~preloading

\* Every step keeps it.
LEMMA AheadStep == AheadInv /\ [Ahead!Next]_(Ahead!vars) => AheadInv'
  <1> SUFFICES ASSUME AheadInv, [Ahead!Next]_(Ahead!vars) PROVE AheadInv'
    OBVIOUS
  <1> USE DEF AheadInv
  <1>1. ASSUME NEW e \in Engines, Ahead!Start(e) PROVE AheadInv'
    BY <1>1 DEF Ahead!Start, Ahead!MayStart
  <1>2. ASSUME NEW e \in Engines, Ahead!Assign(e) PROVE AheadInv'
    BY <1>2 DEF Ahead!Assign
  <1>3. ASSUME NEW e \in Engines, Ahead!RequestFails(e) PROVE AheadInv'
    BY <1>3 DEF Ahead!RequestFails
  <1>4. ASSUME NEW e \in Engines, Ahead!Stop(e) PROVE AheadInv'
    BY <1>4 DEF Ahead!Stop
  <1>5. ASSUME NEW e \in Engines, Ahead!Join(e) PROVE AheadInv'
    BY <1>5 DEF Ahead!Join
  <1>6. ASSUME NEW e \in Engines, Ahead!Joined(e) PROVE AheadInv'
    BY <1>6 DEF Ahead!Joined
  <1>7. CASE Ahead!RunEnds
    BY <1>7 DEF Ahead!RunEnds
  <1>8. CASE Ahead!Exit
    BY <1>8 DEF Ahead!Exit, Ahead!AtExit
  <1>9. CASE UNCHANGED Ahead!vars
    BY <1>9 DEF Ahead!vars
  <1> QED BY <1>1, <1>2, <1>3, <1>4, <1>5, <1>6, <1>7, <1>8, <1>9 DEF Ahead!Next

\* The handle of the preload thread is never overwritten, destroyed or joined
\* twice while turns do not overlap, whichever of them fail.
THEOREM PreloadNeverTerminates == Ahead!Spec => []NeverTerminates
  <1>1. Ahead!Init => AheadInv
    <2> SUFFICES ASSUME Ahead!Init PROVE AheadInv
      OBVIOUS
    <2>1. shared \in BOOLEAN /\ preloading \in BOOLEAN /\ ~terminated /\ ~preloading
      BY Zenon DEF Ahead!Init
    <2> QED BY <2>1 DEF Ahead!Init, AheadInv
  <1>2. AheadInv => NeverTerminates
    BY DEF AheadInv, NeverTerminates, Ahead!NeverTerminates
  <1> QED BY <1>1, <1>2, AheadStep, PTL DEF Ahead!Spec

-----------------------------------------------------------------------------
(* The components side by side.                                            *)

\* Each component starts in one of its initial states,
LEMMA InitOfEach ==
  SideBySideInit => /\ Init /\ Gate!Init /\ Keys!Init /\ Screen!Init /\ Phone!Init
                    /\ Prompts!Init /\ TaskStore!Init /\ Ahead!Init
  BY DEF SideBySideInit
\* and makes its own step or none.
LEMMA StepOfEach ==
  [SideBySideNext]_allVars =>
     /\ [Next]_vars
     /\ [Gate!Next]_(Gate!vars) /\ [Keys!Next]_(Keys!vars) /\ [Screen!Next]_(Screen!vars)
     /\ [Phone!Next]_(Phone!vars) /\ [Prompts!Next]_(Prompts!commandVars)
     /\ [TaskStore!Next]_(TaskStore!vars) /\ [Ahead!Next]_(Ahead!vars)
  <1> USE DEF Gate!vars, Keys!vars, Screen!vars, Phone!vars, Phone!server,
              Prompts!commandVars, Prompts!promptVars, Prompts!clientVars,
              TaskStore!vars, Ahead!vars
  <1> USE DEF permissionsVars, keysVars, screenVars, phoneVars, promptsVars,
              taskStoreVars, aheadVars
  <1>1. CASE UNCHANGED allVars
    BY <1>1 DEF allVars
  <1>2. CASE SideBySideNext
    BY <1>2 DEF SideBySideNext
  <1> QED BY <1>1, <1>2

\* All of it holds of the components side by side, which is what is run.
THEOREM InterfaceIsSafe ==
    SideBySide => [](/\ QueueIsInOrder /\ NobodyStuckGenerating
                     /\ DeniedCallsWait /\ KeyboardIsShared /\ NoFrameInText
                     /\ SendsReachOpenSockets /\ AgentsKeepTheirClient /\ ResultsAreOwn
                     /\ NeverTerminates)
  <1>1. SideBySide => /\ Spec /\ Gate!Spec /\ Keys!Spec /\ Screen!Spec /\ Phone!Spec
                      /\ Prompts!Spec /\ TaskStore!Spec /\ Ahead!Spec
    BY InitOfEach, StepOfEach, PTL
       DEF SideBySide, Spec, Gate!Spec, Keys!Spec, Screen!Spec, Phone!Spec, Prompts!Spec,
           TaskStore!Spec, Ahead!Spec
  <1> QED BY <1>1, QueueStaysInOrder, MarksAreReset, DeniedCallsAreHeld,
             KeyboardIsHandedOver, FramesStayOutOfText, PhonesAreSentToWhileOpen,
             WaitedAgentsKeepTheirClient, ResultsStayOwn, PreloadNeverTerminates, PTL
=============================================================================
