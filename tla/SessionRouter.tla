--------------------------- MODULE SessionRouter ---------------------------
(***************************************************************************)
(* core/SessionRouter.cpp: requests of several clients, one queue, a few   *)
(* worker threads.  Client threads push under the mutex and notify after   *)
(* unlocking; a worker evaluates the predicate of its wait under the       *)
(* mutex, and blocks in a later step; shutdown raises its flag and         *)
(* notifies without the mutex.  Request texts, the events sent to clients, *)
(* session->messages, which no later request reads, and interrupted, which *)
(* abortClient sets and nothing reads, are left out.                       *)
(***************************************************************************)
EXTENDS Integers, Sequences, FiniteSets

CONSTANTS
  Workers,      \* the maxConcurrent_ threads of workers_
  Clients,      \* the ids registerClient may give out
  Priorities,   \* the priorities submitRequest may be given
  Nobody,       \* the holder of a free mutex
  MaxRequests   \* bound: requests accepted in a run

ASSUME RouterAssumption ==
  /\ Priorities \subseteq Nat /\ MaxRequests \in Nat
  /\ Nobody \notin Workers

Requests == [id : Nat, client : Clients, priority : Priorities]

VARIABLES
  session,       \* sessions_: unknown, connected or disconnected
  requestQueue,  \* requestQueue_
  mutex,         \* the worker inside mutex_ across a step, or Nobody
  shutdown,      \* shutdown_
  closing,       \* how far shutdown() has come
  pc,            \* where each worker is
  req,           \* the request it took, in a sequence of at most one
  submitter,     \* each client's thread: idle, or about to notify
  isGenerating,  \* of each session
  accepted       \* how many requests were pushed

clients == <<session, submitter, accepted>>
closer == <<shutdown, closing>>
vars == <<session, requestQueue, mutex, shutdown, closing, pc, req, submitter,
          isGenerating, accepted>>

Init ==
  /\ session = [c \in Clients |-> "unknown"]
  /\ requestQueue = <<>> /\ mutex = Nobody
  /\ shutdown = FALSE /\ closing = "open"
  /\ pc = [w \in Workers |-> "test"] /\ req = [w \in Workers |-> <<>>]
  /\ submitter = [c \in Clients |-> "idle"]
  /\ isGenerating = [c \in Clients |-> FALSE]
  /\ accepted = 0

Free == mutex = Nobody
Alive == closing # "closed"

-----------------------------------------------------------------------------
(* The calls of the clients' threads.                                      *)
RegisterClient(c) ==
  /\ Alive /\ Free /\ session[c] = "unknown"
  /\ session' = [session EXCEPT ![c] = "connected"]
  /\ UNCHANGED <<requestQueue, mutex, closer, pc, req, submitter, isGenerating, accepted>>

DisconnectClient(c) ==
  /\ Alive /\ Free /\ session[c] = "connected"
  /\ session' = [session EXCEPT ![c] = "disconnected"]
  /\ UNCHANGED <<requestQueue, mutex, closer, pc, req, submitter, isGenerating, accepted>>

(* Mutant: std::sort, which may turn equals around.                        *)
InAnyOrder(q, f) ==
  \A i, j \in DOMAIN f : i < j =>
    \/ q[f[i]].priority > q[f[j]].priority
    \/ q[f[i]].priority = q[f[j]].priority /\ f[i] > f[j]

(* std::stable_sort by descending priority: the permutation that moves the *)
(* more urgent request forward and keeps the order of equals.              *)
InOrder(q, f) ==
  \A i, j \in DOMAIN f : i < j =>
    \/ q[f[i]].priority > q[f[j]].priority
    \/ q[f[i]].priority = q[f[j]].priority /\ f[i] < f[j]

Bijections(S) == {f \in [S -> S] : \A i, j \in S : f[i] = f[j] => i = j}
StableOrder(q) == CHOOSE f \in Bijections(DOMAIN q) : InOrder(q, f)
StablySorted(q) == [i \in DOMAIN q |-> q[StableOrder(q)[i]]]

Queued(r) ==
  IF r.priority > 0 THEN StablySorted(Append(requestQueue, r)) ELSE Append(requestQueue, r)

(* An unknown or disconnected client's request is dropped with a warning.  *)
SubmitRequest(c, priority) ==
  /\ Alive /\ Free /\ submitter[c] = "idle" /\ accepted < MaxRequests
  /\ session[c] = "connected"
  /\ accepted' = accepted + 1
  /\ requestQueue' = Queued([id |-> accepted, client |-> c, priority |-> priority])
  /\ submitter' = [submitter EXCEPT ![c] = "notify"]
  /\ UNCHANGED <<session, mutex, closer, pc, req, isGenerating>>

(* cv_.notify_one, without the mutex; a notification nobody waits for is   *)
(* lost.                                                                   *)
Asleep == {w \in Workers : pc[w] = "asleep"}
(* Mutant: the notification reaches nobody.                                *)
WakesNobody == pc' = pc
WakesOne ==
  IF Asleep = {} THEN pc' = pc
  ELSE \E w \in Asleep : pc' = [pc EXCEPT ![w] = "wait"]

NotifyOne(c) ==
  /\ Alive /\ submitter[c] = "notify"
  /\ WakesOne
  /\ submitter' = [submitter EXCEPT ![c] = "idle"]
  /\ UNCHANGED <<session, requestQueue, mutex, closer, req, isGenerating, accepted>>

-----------------------------------------------------------------------------
(* workerLoop.                                                             *)
At(w, from) == pc[w] = from
Goes(w, from, to) == At(w, from) /\ pc' = [pc EXCEPT ![w] = to]

TestLoop(w) ==
  /\ Goes(w, "test", IF shutdown THEN "gone" ELSE "wait")
  /\ UNCHANGED <<clients, requestQueue, mutex, closer, req, isGenerating>>

(* The predicate, under the mutex: the front of the queue is taken, or the *)
(* worker leaves, or it is about to block and still holds the mutex.       *)
(* Mutant: the request is popped before it is moved out.                   *)
TakesNone(w) ==
  /\ At(w, "wait") /\ Free /\ requestQueue # <<>>
  /\ req' = [req EXCEPT ![w] = <<>>]
  /\ requestQueue' = Tail(requestQueue)
  /\ pc' = [pc EXCEPT ![w] = "process"]
  /\ UNCHANGED <<clients, mutex, closer, isGenerating>>

Take(w) ==
  /\ At(w, "wait") /\ Free /\ requestQueue # <<>>
  /\ req' = [req EXCEPT ![w] = <<Head(requestQueue)>>]
  /\ requestQueue' = Tail(requestQueue)
  /\ pc' = [pc EXCEPT ![w] = "process"]
  /\ UNCHANGED <<clients, mutex, closer, isGenerating>>

Leave(w) ==
  /\ Free /\ requestQueue = <<>> /\ shutdown
  /\ Goes(w, "wait", "gone")
  /\ UNCHANGED <<clients, requestQueue, mutex, closer, req, isGenerating>>

(* Mutant: the predicate does not look at shutdown_.                       *)
FindsNothingEver(w) ==
  /\ Free /\ requestQueue = <<>>
  /\ Goes(w, "wait", "blocking")
  /\ mutex' = w
  /\ UNCHANGED <<clients, requestQueue, closer, req, isGenerating>>

FindsNothing(w) ==
  /\ Free /\ requestQueue = <<>> /\ ~shutdown
  /\ Goes(w, "wait", "blocking")
  /\ mutex' = w
  /\ UNCHANGED <<clients, requestQueue, closer, req, isGenerating>>

Block(w) ==
  /\ Goes(w, "blocking", "asleep")
  /\ mutex' = Nobody
  /\ UNCHANGED <<clients, requestQueue, closer, req, isGenerating>>

SpuriousWakeup(w) ==
  /\ Goes(w, "asleep", "wait")
  /\ UNCHANGED <<clients, requestQueue, mutex, closer, req, isGenerating>>

(* processRequest.  The client is looked up under the mutex and marked     *)
(* after it; the guard resets the mark on every way out.                   *)
ClientOf(w) == req[w][1].client
Forgets(w) == req' = [req EXCEPT ![w] = <<>>]

FindSession(w) ==
  /\ At(w, "process") /\ Free
  /\ IF session[ClientOf(w)] = "connected"
     THEN Goes(w, "process", "mark") /\ UNCHANGED req
     ELSE Goes(w, "process", "test") /\ Forgets(w)
  /\ UNCHANGED <<clients, requestQueue, mutex, closer, isGenerating>>

Mark(w) ==
  /\ Goes(w, "mark", "generating")
  /\ isGenerating' = [isGenerating EXCEPT ![ClientOf(w)] = TRUE]
  /\ UNCHANGED <<clients, requestQueue, mutex, closer, req>>

Unmarked(w) == [isGenerating EXCEPT ![ClientOf(w)] = FALSE]

(* submitMessage returns.                                                  *)
Generated(w) ==
  /\ Goes(w, "generating", "complete")
  /\ isGenerating' = Unmarked(w)
  /\ UNCHANGED <<clients, requestQueue, mutex, closer, req>>

(* Mutant: no guard resets the mark.                                       *)
Forgotten(w) == isGenerating
Guarded(w) == Unmarked(w)

(* The "complete" event is sent, or submitMessage or a callback throws and *)
(* the worker reports the error: the guard has run in either case.         *)
Finish(w) ==
  /\ At(w, "complete") \/ At(w, "generating")
  /\ pc' = [pc EXCEPT ![w] = "test"]
  /\ isGenerating' = Guarded(w)
  /\ Forgets(w)
  /\ UNCHANGED <<clients, requestQueue, mutex, closer>>

-----------------------------------------------------------------------------
(* shutdown: the flag, the notification, the join of every worker.         *)
RaiseFlag ==
  /\ closing = "open"
  /\ shutdown' = TRUE /\ closing' = "notify"
  /\ UNCHANGED <<clients, requestQueue, mutex, pc, req, isGenerating>>

NotifyAll ==
  /\ closing = "notify"
  /\ pc' = [w \in Workers |-> IF pc[w] = "asleep" THEN "wait" ELSE pc[w]]
  /\ closing' = "join"
  /\ UNCHANGED <<clients, requestQueue, mutex, shutdown, req, isGenerating>>

Join ==
  /\ closing = "join" /\ \A w \in Workers : pc[w] = "gone"
  /\ closing' = "closed"
  /\ UNCHANGED <<clients, requestQueue, mutex, shutdown, pc, req, isGenerating>>

(* The destructor has returned: there is no router left to call.           *)
Closed == ~Alive /\ UNCHANGED vars

Client(c) == \/ RegisterClient(c) \/ DisconnectClient(c)
             \/ \E priority \in Priorities : SubmitRequest(c, priority)
Process(w) == FindSession(w) \/ Mark(w) \/ Generated(w) \/ Finish(w)
Worker(w) == TestLoop(w) \/ Take(w) \/ Leave(w) \/ FindsNothing(w) \/ Block(w) \/ Process(w)
Closer == RaiseFlag \/ NotifyAll \/ Join

Next ==
  \/ \E c \in Clients : Client(c) \/ NotifyOne(c)
  \/ \E w \in Workers : Worker(w) \/ SpuriousWakeup(w)
  \/ Closer \/ Closed

Spec == Init /\ [][Next]_vars

(* The threads run: a client's thread goes on to its notification, a       *)
(* worker's thread goes on while it can, and a turn returns or throws      *)
(* (EveryPromptEnds of QueryEngine).  No fairness makes a worker wake up   *)
(* by itself, and none starts the shutdown, which goes on once started.    *)
Fairness ==
  /\ \A c \in Clients : WF_vars(NotifyOne(c))
  /\ \A w \in Workers : WF_vars(Worker(w))
  /\ WF_vars(NotifyAll) /\ WF_vars(Join)
FairSpec == Spec /\ Fairness

-----------------------------------------------------------------------------
(* The type invariant: the queue holds requests of known clients, and a    *)
(* worker past Take has one.                                               *)
Waiting == {"test", "wait", "asleep", "gone"}
Marked == {"generating", "complete"}
Holding == {"process", "mark"} \cup Marked

TypeOK ==
  /\ session \in [Clients -> {"unknown", "connected", "disconnected"}]
  /\ requestQueue \in Seq(Requests) /\ accepted \in 0..MaxRequests
  /\ mutex \in Workers \cup {Nobody}
  /\ shutdown \in BOOLEAN /\ closing \in {"open", "notify", "join", "closed"}
  /\ pc \in [Workers -> Waiting \cup {"blocking"} \cup Holding]
  /\ req \in [Workers -> Seq(Requests)]
  /\ \A w \in Workers : pc[w] \in Holding => Len(req[w]) = 1
  /\ submitter \in [Clients -> {"idle", "notify"}]
  /\ isGenerating \in [Clients -> BOOLEAN]

(* The queue is always served in order: a request stands behind every more *)
(* urgent one and behind every earlier one of its own priority, although   *)
(* it is sorted only when a request of positive priority is pushed.        *)
QueueIsInOrder ==
  \A i, j \in DOMAIN requestQueue : i < j =>
    \/ requestQueue[i].priority > requestQueue[j].priority
    \/ /\ requestQueue[i].priority = requestQueue[j].priority
       /\ requestQueue[i].id < requestQueue[j].id

(* SessionRouter.cpp: "Ensure the "generating" flag is cleared no matter   *)
(* how we leave this function": a client marked as generating has a worker *)
(* inside its request, also when two workers serve one client and one of   *)
(* them throws.                                                            *)
NobodyStuckGenerating ==
  \A c \in Clients : isGenerating[c] =>
    \E w \in Workers : pc[w] \in Marked /\ ClientOf(w) = c

(* The wait of a worker misses no request: one that was pushed is taken in *)
(* the end, unless the router shuts down.                                  *)
IsQueued(n) == \E i \in DOMAIN requestQueue : requestQueue[i].id = n
RequestsAreTaken ==
  \A n \in 0..(MaxRequests - 1) : IsQueued(n) ~> (~IsQueued(n) \/ shutdown)

(* shutdown returns if its notification found no worker between its        *)
(* predicate and its block.  (One that was there sleeps through it: the    *)
(* flag is raised without the mutex, and then the join never returns.)     *)
ShutdownEnds ==
  (closing = "join" /\ \A w \in Workers : pc[w] \notin {"blocking", "asleep"})
    ~> closing = "closed"

(* No notification that could be heard is slept through.                   *)
WorkersWakeUp == RequestsAreTaken /\ ShutdownEnds
=============================================================================
