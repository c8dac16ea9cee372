---- MODULE McpClient ----
(***************************************************************************)
(* MCPClient and MCPServerManager: one server, reached through a transport, *)
(* shared by several callers.  A reader thread puts the responses where the *)
(* callers that sent the requests wait for them; the manager reconnects a   *)
(* client it finds dropped, and caches the tools of the server until a      *)
(* notification says that they have changed.                               *)
(***************************************************************************)
EXTENDS Integers, FiniteSets

CONSTANTS
    Callers,        \* threads that use the manager
    NoCaller,
    Transport,      \* "sse", "http" or "stdio"
    MaxId,          \* bound: requests sent
    MaxConn,        \* bound: connections made
    MaxVersion      \* bound: changes of the server's tools

VARIABLES
    alive,          \* the server (or its stream) is up
    open,           \* the transport's open_
    connected, running,     \* connected_, readerRunning_
    reader,         \* "none", "loop", "serve" or "gone": returned but not joined
    conn,           \* number of this connection
    nextId,         \* nextId_
    flight,         \* requests the server has not answered
    inbox,          \* what the transport has for the reader
    responses,      \* responses_
    phase,          \* what each caller is doing
    mine,           \* the request it waits for
    got,            \* the answer its last request got
    holder,         \* who holds the manager's mutex
    version,        \* the server's tools
    cache, valid    \* toolCache_, toolCacheValid_

link == <<alive, open, connected, running, reader, conn>>
calls == <<phase, mine, got>>
tools == <<version, cache, valid>>
vars == <<link, nextId, flight, inbox, responses, calls, holder, tools>>

Request(id) == [id |-> id, conn |-> conn]
NoAnswer == [id |-> 0, conn |-> 0]
NoTools == -1                            \* the list of a server that gave none
Change == [id |-> 0, conn |-> conn]      \* tools/list_changed on the wire
Ask == [id |-> -1, conn |-> conn]        \* a request of the server: ping, sampling, elicitation

\* The server was added at the start of the program: addServer connected it.
Init ==
    /\ alive = TRUE /\ open = TRUE /\ connected = TRUE /\ running = TRUE
    /\ reader = "loop" /\ conn = 1
    /\ nextId = 2
    /\ flight = {} /\ inbox = {} /\ responses = {}
    /\ phase = [c \in Callers |-> "idle"]
    /\ mine = [c \in Callers |-> NoAnswer]
    /\ got = [c \in Callers |-> NoAnswer]
    /\ holder = NoCaller
    /\ version = 0 /\ cache = 0 /\ valid = FALSE

---------------------------------------------------------------------------
\* Getting a client, connecting and asking.

\* getClient of a connected client, for callTool and its like.
GetClient(c) ==
    /\ phase[c] = "idle" /\ holder = NoCaller
    /\ connected
    /\ phase' = [phase EXCEPT ![c] = "ready"]
    /\ UNCHANGED <<link, nextId, flight, inbox, responses, mine, got, holder, tools>>

\* getClient of a dropped one: attemptReconnect stops the transport, joins the
\* reader (which returns within a second) and forgets the responses.  Nobody
\* who waits for one is told.
Reconnect(c) ==
    /\ phase[c] = "idle" /\ holder = NoCaller
    /\ ~connected /\ conn < MaxConn
    /\ holder' = c
    /\ phase' = [phase EXCEPT ![c] = "connect"]
    /\ running' = FALSE /\ open' = FALSE /\ reader' = "none"
    /\ responses' = {} /\ inbox' = {}
    /\ UNCHANGED <<alive, connected, conn, nextId, flight, mine, got, tools>>

RestartedIds == 1

\* Ids go on from the connection before.
FirstIdOfConnection == nextId

\* connect(): token, transport, reader thread, initialize request.
Connect(c) ==
    /\ phase[c] = "connect" /\ nextId < MaxId
    /\ alive' = TRUE /\ open' = TRUE /\ connected' = TRUE /\ running' = TRUE
    /\ reader' = "loop" /\ conn' = conn + 1
    /\ mine' = [mine EXCEPT ![c] = [id |-> FirstIdOfConnection, conn |-> conn + 1]]
    /\ got' = [got EXCEPT ![c] = NoAnswer]
    /\ nextId' = FirstIdOfConnection + 1
    /\ flight' = {mine'[c]}
    /\ phase' = [phase EXCEPT ![c] = "init"]
    /\ UNCHANGED <<inbox, responses, holder, tools>>

\* makeTransport or start() fails: the caller goes on with a closed client.
CannotConnect(c) ==
    /\ phase[c] = "connect"
    /\ phase' = [phase EXCEPT ![c] = "ready"]
    /\ holder' = NoCaller
    /\ UNCHANGED <<link, nextId, flight, inbox, responses, mine, got, tools>>

\* The answer to initialize; the capabilities are recorded and confirmed.
Initialized(c) ==
    /\ phase[c] = "init"
    /\ \E r \in responses : r.id = mine[c].id /\ responses' = responses \ {r}
    /\ phase' = [phase EXCEPT ![c] = "ready"]
    /\ holder' = NoCaller
    /\ UNCHANGED <<link, nextId, flight, inbox, mine, got, tools>>

\* initialize fails: disconnect(), which joins the reader, and does nothing if
\* the reader has already noticed that the stream is gone.
InitFails(c) ==
    /\ phase[c] = "init"
    /\ ~ \E r \in responses : r.id = mine[c].id
    /\ connected => reader # "serve"
    /\ phase' = [phase EXCEPT ![c] = "ready"]
    /\ holder' = NoCaller
    /\ IF connected
       THEN connected' = FALSE /\ running' = FALSE /\ open' = FALSE /\ reader' = "none" /\ inbox' = {}
       ELSE UNCHANGED <<connected, running, open, reader, inbox>>
    /\ UNCHANGED <<alive, conn, nextId, flight, responses, mine, got, tools>>

\* sendRequest: one id per request.  A transport that is closed is an error.
Send(c) ==
    /\ phase[c] = "ready"
    /\ IF open
       THEN /\ nextId < MaxId
            /\ mine' = [mine EXCEPT ![c] = Request(nextId)]
            /\ nextId' = nextId + 1
            /\ flight' = flight \cup {mine'[c]}
            /\ phase' = [phase EXCEPT ![c] = IF holder = c THEN "list" ELSE "wait"]
            /\ UNCHANGED cache
       ELSE /\ phase' = [phase EXCEPT ![c] = IF holder = c THEN "store" ELSE "idle"]
            /\ cache' = IF holder = c THEN NoTools ELSE cache
            /\ UNCHANGED <<mine, nextId, flight>>
    /\ got' = [got EXCEPT ![c] = NoAnswer]
    /\ UNCHANGED <<link, inbox, responses, holder, version, valid>>

\* The response is there: it is taken out and returned.
Answered(c) ==
    /\ phase[c] = "wait"
    /\ \E r \in responses :
         /\ r.id = mine[c].id
         /\ got' = [got EXCEPT ![c] = r]
         /\ responses' = responses \ {r}
    /\ phase' = [phase EXCEPT ![c] = "idle"]
    /\ UNCHANGED <<link, nextId, flight, inbox, mine, holder, tools>>

\* Thirty seconds without it.
TimesOut(c) ==
    /\ phase[c] \in {"wait", "list"}
    /\ ~ \E r \in responses : r.id = mine[c].id
    /\ phase' = [phase EXCEPT ![c] = IF @ = "list" THEN "store" ELSE "idle"]
    /\ cache' = IF phase[c] = "list" THEN NoTools ELSE cache
    /\ UNCHANGED <<link, nextId, flight, inbox, responses, mine, got, holder, version, valid>>

---------------------------------------------------------------------------
\* The cache of tools.

\* getAllTools without a valid cache asks every connected client, holding the
\* mutex; a dropped one is passed over.
ListTools(c) ==
    /\ phase[c] = "idle" /\ holder = NoCaller /\ ~valid
    /\ holder' = c
    /\ IF connected
       THEN phase' = [phase EXCEPT ![c] = "ready"] /\ UNCHANGED cache
       ELSE phase' = [phase EXCEPT ![c] = "store"] /\ cache' = NoTools
    /\ UNCHANGED <<link, nextId, flight, inbox, responses, mine, got, version, valid>>

\* The answer to tools/list lists the tools of when the server gave it.
Listed(c) ==
    /\ phase[c] = "list"
    /\ \E r \in responses : r.id = mine[c].id /\ responses' = responses \ {r}
    /\ phase' = [phase EXCEPT ![c] = "store"]
    /\ cache' = version
    /\ UNCHANGED <<link, nextId, flight, inbox, mine, got, holder, version, valid>>

\* toolCache_ = all; toolCacheValid_ = true, of an empty list too.
Store(c) ==
    /\ phase[c] = "store"
    /\ valid' = TRUE
    /\ phase' = [phase EXCEPT ![c] = "idle"]
    /\ holder' = NoCaller
    /\ UNCHANGED <<link, nextId, flight, inbox, responses, mine, got, version, cache>>

---------------------------------------------------------------------------
\* The server, the transport and the reader thread.

\* What arrives on the transport that is open is queued for the reader; the
\* HTTP transport queues the body of a POST on the thread that sent it.
Deliver(r) == inbox' = IF r.conn = conn /\ open THEN inbox \cup {r} ELSE inbox

\* The server answers in any order, if at all.
ServerAnswers ==
    /\ alive
    /\ \E r \in flight : flight' = flight \ {r} /\ Deliver(r)
    /\ UNCHANGED <<link, nextId, responses, calls, holder, tools>>

\* The server's tools change and it says so.
ToolsChange ==
    /\ alive /\ open /\ version < MaxVersion
    /\ version' = version + 1
    /\ inbox' = inbox \cup {Change}
    /\ UNCHANGED <<link, nextId, flight, responses, calls, holder, cache, valid>>

\* A server asks for samples or answers while it works on a request.
ServerAsks ==
    /\ alive /\ open /\ flight # {}
    /\ inbox' = inbox \cup {Ask}
    /\ UNCHANGED <<link, nextId, flight, responses, calls, holder, tools>>

\* The child process or the connection dies, with what it had not answered.
ServerDies ==
    /\ alive
    /\ alive' = FALSE /\ flight' = {}
    /\ UNCHANGED <<open, connected, running, reader, conn, nextId, inbox, responses, calls, holder, tools>>

NoTransport == {}

\* Only the SSE transport closes itself when its stream ends: a POST that fails
\* leaves the HTTP one open, and at the end of a child's output readLine
\* returns an empty line, which receive() skips.
SelfClosing == {"sse"}

StreamIsGone ==
    /\ Transport \in SelfClosing
    /\ ~alive /\ open
    /\ open' = FALSE
    /\ UNCHANGED <<alive, connected, running, reader, conn, nextId, flight, inbox, responses, calls, holder, tools>>

\* The handler that addServer installs for tools/list_changed.
Invalidate == valid' = FALSE

\* readLoop takes a response, a notification, or a request of the server, which
\* it serves before it takes anything else.
ReaderTakes ==
    /\ reader = "loop"
    /\ \E r \in inbox :
         /\ inbox' = inbox \ {r}
         /\ responses' = IF r.id > 0 THEN responses \cup {r} ELSE responses
         /\ IF r.id = 0 THEN Invalidate ELSE UNCHANGED valid
         /\ reader' = IF r.id = -1 THEN "serve" ELSE "loop"
    /\ UNCHANGED <<alive, open, connected, running, conn, nextId, flight, calls, holder, version, cache>>

\* The handler asks the model or the user, and the reply is sent, if it still
\* can be.
ReaderReplies ==
    /\ reader = "serve"
    /\ reader' = "loop"
    /\ UNCHANGED <<alive, open, connected, running, conn, nextId, flight, inbox, responses, calls, holder, tools>>

\* receive() failed on a closed transport: the loop ends and marks the client
\* for reconnection.
ReaderLeaves ==
    /\ reader = "loop" /\ ~open
    /\ reader' = "gone"
    /\ connected' = FALSE
    /\ UNCHANGED <<alive, open, running, conn, nextId, flight, inbox, responses, calls, holder, tools>>

Step(c) ==
    \/ GetClient(c) \/ Reconnect(c) \/ Connect(c) \/ CannotConnect(c)
    \/ Initialized(c) \/ InitFails(c) \/ Send(c) \/ Answered(c) \/ TimesOut(c)
    \/ ListTools(c) \/ Listed(c) \/ Store(c)

Next ==
    \/ \E c \in Callers : Step(c)
    \/ ServerAnswers \/ ToolsChange \/ ServerDies \/ StreamIsGone
    \/ ServerAsks \/ ReaderTakes \/ ReaderReplies \/ ReaderLeaves

Spec == Init /\ [][Next]_vars

\* The transport's and the client's reader threads go on, and a caller's wait
\* ends; nothing makes the server answer, a caller call, or the user answer a
\* question of the server.
Caller(c) == \/ Connect(c) \/ CannotConnect(c) \/ Initialized(c) \/ InitFails(c)
             \/ Send(c) \/ Answered(c) \/ TimesOut(c) \/ Listed(c) \/ Store(c)
Fairness ==
    /\ WF_vars(StreamIsGone) /\ WF_vars(ReaderTakes) /\ WF_vars(ReaderLeaves)
    /\ \A c \in Callers : WF_vars(Caller(c))
FairSpec == Spec /\ Fairness

---------------------------------------------------------------------------
\* A caller gets the response to its own request and to none of an earlier
\* connection, however late responses are and whoever reconnects meanwhile.
AnswersMatch == [][\A c \in Callers : got'[c] # NoAnswer => got'[c] = mine'[c]]_vars

\* A server that goes away is noticed: the client stops counting as connected,
\* so that the next getClient reconnects it, unless the reader waits for the
\* user to answer a question of the server.
DropsAreNoticed == ~alive ~> ~connected \/ alive \/ reader = "serve"

\* What callers rely on when they call a tool of a server.
ConnectionIsSound == AnswersMatch /\ DropsAreNoticed
====
