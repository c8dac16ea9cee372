------------------------------ MODULE TeamMode ------------------------------
(***************************************************************************)
(* How main.cpp joins the web sockets of network/MobileWebSocket.h to the  *)
(* router.  A socket is known by an id of its own, which is what every     *)
(* message is handed over with; registering asks the router for a session  *)
(* and drops the id the session got.                                       *)
(***************************************************************************)
EXTENDS SessionRouter

CONSTANT Sockets   \* those of Clients that are ids of sockets; the others are session ids

VARIABLES
  registered,   \* the sockets that have sent "register"
  unheard       \* those whose "chat" was dropped although they had registered

teamVars == <<vars, registered, unheard>>

TeamInit == Init /\ registered = {} /\ unheard = {}

SessionIds == Clients \ Sockets

Register(s) ==
  /\ \E c \in SessionIds : RegisterClient(c)
  /\ registered' = registered \cup {s}
  /\ UNCHANGED unheard

(* A "chat" carries no priority; an unknown client's is dropped.           *)
Chat(s) ==
  \/ SubmitRequest(s, 0) /\ UNCHANGED <<registered, unheard>>
  \/ /\ Alive /\ Free /\ session[s] # "connected"
     /\ unheard' = IF s \in registered THEN unheard \cup {s} ELSE unheard
     /\ UNCHANGED <<vars, registered>>

Router == /\ \/ \E c \in Clients : NotifyOne(c)
             \/ \E w \in Workers : Worker(w) \/ SpuriousWakeup(w)
             \/ Closer \/ Closed
          /\ UNCHANGED <<registered, unheard>>

TeamNext == (\E s \in Sockets : Register(s) \/ Chat(s)) \/ Router

TeamSpec == TeamInit /\ [][TeamNext]_teamVars

-----------------------------------------------------------------------------
(* README.md: "Team Mode enables multiple developers to connect to a       *)
(* single CloseCrab server and work in parallel": the chat of a client     *)
(* that has registered is a request of the router.                         *)
RegisteredChatsAreQueued == unheard = {}
=============================================================================
