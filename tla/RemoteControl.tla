---------------------------- MODULE RemoteControl ----------------------------
(***************************************************************************)
(* One window's remote control: the WebSocket server phones connect to,    *)
(* the messages the engine's callbacks broadcast to them, what a phone     *)
(* sends (a chat for the session router, a message injected into the main  *)
(* conversation), the HTTP chat, the discovery file, and the order in      *)
(* which main takes all of it down.  The server library (ixwebsocket) is   *)
(* external: it frees a socket after its Close callback has returned.      *)
(***************************************************************************)
EXTENDS Naturals, FiniteSets

CONSTANTS Clients,   \* sockets of phones
          Main,      \* the thread of the input loop
          NoThread,  \* nobody holds the mutex
          MaxTries   \* ports tried from the first one on

Threads == Clients \union {Main}    \* the library runs a thread per socket

VARIABLES window,    \* starting, open, leaving (main returns) or over
          tries,     \* ports tried
          file,      \* the discovery file exists
          socket,    \* socket -> what the library knows of it
          clients,   \* clients_: the pointers kept
          mutex,     \* who holds the server's mutex
          sending,   \* thread -> the sockets it still has to send to
          inTurn,    \* the threads inside g_queryEngine->submitMessage
          engine,    \* g_queryEngine is set
          router,    \* the SessionRouter of main's frame exists
          http       \* the HTTP thread: off, idle or in a chat

server == <<socket, clients, mutex, sending>>
vars == <<window, tries, file, server, inTurn, engine, router, http>>

Init == /\ window = "starting"
        /\ tries = 0
        /\ file = FALSE
        /\ socket = [c \in Clients |-> "none"]
        /\ clients = {}
        /\ mutex = NoThread
        /\ sending = [t \in Threads |-> {}]
        /\ inTurn = {}
        /\ engine = TRUE
        /\ router = FALSE
        /\ http = "off"

-----------------------------------------------------------------------------
\* start(): a port that answers a connect test, or that cannot be listened on,
\* is passed over.  Without any the window goes on without remote control.
PortIsTaken == /\ window = "starting"
               /\ tries < MaxTries
               /\ tries' = tries + 1
               /\ UNCHANGED <<window, file, server, inTurn, engine, router, http>>

Serves == file

Opens == /\ window = "starting"
         /\ window' = "open"
         /\ http' = "idle"
         /\ file' = (tries < MaxTries)
         /\ router' = TRUE
         /\ UNCHANGED <<tries, server, inTurn, engine>>

-----------------------------------------------------------------------------
\* The callbacks of the library.  A client's thread is busy while it sends.
Quiet(c) == sending[c] = {} /\ c \notin inTurn

Connect(c) == /\ Serves
              /\ socket[c] = "none"
              /\ mutex = NoThread
              /\ socket' = [socket EXCEPT ![c] = "open"]
              /\ clients' = clients \union {c}
              /\ UNCHANGED <<window, tries, file, mutex, sending, inTurn, engine, router, http>>

\* Mutant of Forgets: the id's maps are cleaned and the list is not.
ForgetsTheId(c) == UNCHANGED clients

Forgets(c) == clients' = clients \ {c}

Close(c) == /\ socket[c] = "open"
            /\ Quiet(c)
            /\ mutex = NoThread
            /\ Forgets(c)
            /\ socket' = [socket EXCEPT ![c] = "closed"]
            /\ UNCHANGED <<window, tries, file, mutex, sending, inTurn, engine, router, http>>

Frees(c) == /\ socket[c] = "closed"
            /\ socket' = [socket EXCEPT ![c] = "none"]
            /\ UNCHANGED <<window, tries, file, clients, mutex, sending, inTurn, engine, router, http>>

-----------------------------------------------------------------------------
\* broadcast() and sendToClient() keep the mutex from the look-up to the last
\* send.
Sends(t, receivers) == /\ mutex = NoThread
                       /\ receivers # {}
                       /\ mutex' = t
                       /\ sending' = [sending EXCEPT ![t] = receivers]
                       /\ UNCHANGED <<window, tries, file, socket, clients, inTurn, engine, router, http>>

\* A turn's callbacks: the console's broadcast, an injected turn's answer its
\* own client.
Broadcast == Main \in inTurn /\ Sends(Main, clients)
Answer(c) == c \in inTurn /\ sending[c] = {} /\ Sends(c, clients \intersect {c})

SendOne(t) == /\ mutex = t
              /\ \E c \in sending[t] : sending' = [sending EXCEPT ![t] = @ \ {c}]
              /\ mutex' = IF Cardinality(sending[t]) = 1 THEN NoThread ELSE t
              /\ UNCHANGED <<window, tries, file, socket, clients, inTurn, engine, router, http>>

-----------------------------------------------------------------------------
Submit == /\ window = "open"
          /\ Main \notin inTurn
          /\ inTurn' = inTurn \union {Main}
          /\ UNCHANGED <<window, tries, file, server, engine, router, http>>

\* inject_main runs the main conversation on the socket's thread; it tests that
\* the engine is set and nothing else.
Inject(c) == /\ socket[c] = "open"
             /\ Quiet(c)
             /\ engine
             /\ inTurn' = inTurn \union {c}
             /\ UNCHANGED <<window, tries, file, server, engine, router, http>>

TurnEnds(t) == /\ t \in inTurn
               /\ sending[t] = {}
               /\ inTurn' = inTurn \ {t}
               /\ UNCHANGED <<window, tries, file, server, engine, router, http>>

\* POST /chat: a call of the window's API client beside its turns.
HttpChat == /\ http \in {"idle", "chat"}
            /\ http' = IF http = "idle" THEN "chat" ELSE "idle"
            /\ UNCHANGED <<window, tries, file, server, inTurn, engine, router>>

-----------------------------------------------------------------------------
\* The input loop ends; main resets the engine and returns: the router and then
\* the HTTP server are destroyed with its frame, the WebSocket server, a
\* static, after that.  stop(), which would remove the file, has no caller.
Leave == /\ window = "open"
         /\ Main \notin inTurn
         /\ window' = "leaving"
         /\ engine' = FALSE
         /\ UNCHANGED <<tries, file, server, inTurn, router, http>>

RouterGoes == /\ window = "leaving"
              /\ router
              /\ router' = FALSE
              /\ UNCHANGED <<window, tries, file, server, inTurn, engine, http>>

HttpStops == /\ window = "leaving"
             /\ ~router
             /\ http = "idle"
             /\ http' = "off"
             /\ UNCHANGED <<window, tries, file, server, inTurn, engine, router>>

\* The singleton's members go in the reverse order of their declaration: handler
\* and lists first, and then the server, whose threads may be in a callback that
\* uses them.  What that does is undefined, so the model ends with the lists.
Over == /\ window = "leaving"
        /\ http = "off"
        /\ window' = "over"
        /\ clients' = {}
        /\ UNCHANGED <<tries, file, socket, mutex, sending, inTurn, engine, router, http>>

Next == \/ window # "over" /\ ( \/ PortIsTaken \/ Opens
                                \/ Broadcast \/ Submit \/ HttpChat
                                \/ Leave \/ RouterGoes \/ HttpStops \/ Over
                                \/ \E c \in Clients : Connect(c) \/ Close(c) \/ Frees(c)
                                                      \/ Answer(c) \/ Inject(c)
                                \/ \E t \in Threads : SendOne(t) \/ TurnEnds(t) )

Spec == Init /\ [][Next]_vars

-----------------------------------------------------------------------------
\* A send never reaches a socket the library has freed: the list's pointers are
\* of open sockets, and a socket cannot close between a broadcast's look-up and
\* its last send, because its Close callback needs the mutex.
SendsReachOpenSockets == /\ \A c \in clients : socket[c] = "open"
                         /\ \A t \in Threads : \A c \in sending[t] : socket[c] = "open"

\* "closed windows then stop showing up as live": a discovery file is of a
\* window that still runs.
FilesAreOfLiveWindows == file => window # "over"

\* The main conversation runs one turn at a time.
OneTurnAtATime == Cardinality(inTurn) <= 1

\* No injected turn outlives the engine it runs on.
TurnsHaveAnEngine == inTurn # {} => engine
=============================================================================
