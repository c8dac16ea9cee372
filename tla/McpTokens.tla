---- MODULE McpTokens ----
(***************************************************************************)
(* MCPOAuth and the first half of MCPClient::connect: the login to a remote *)
(* MCP server.  A token is read from the server's file, refreshed if it has *)
(* expired, replaced by a login in the browser if that fails, and saved.    *)
(* Processes started in one directory share the file and the callback port. *)
(*                                                                         *)
(* Access and refresh tokens are numbers, 0 for the empty string.           *)
(***************************************************************************)
EXTENDS Naturals

CONSTANTS
    Processes,
    NoProcess,
    Providers,      \* how the token endpoint treats refresh tokens:
                    \* "keeps", "rotates" (each is used once) or "plain" (none)
    MaxToken        \* bound: tokens issued

VARIABLES
    disk,           \* data/mcp-tokens/<server>.json
    token,          \* connect()'s token
    pc, code,       \* what connect() is doing; authCode is there
    port,           \* the process that listens on the callback port
    provider, issued,
    live,           \* refresh tokens that the endpoint accepts
    aged,           \* access tokens whose time is over
    lost            \* history: a token was lost in a way connect() cannot help

local == <<token, pc, code, port>>
endpoint == <<provider, issued, live>>
vars == <<disk, local, endpoint, aged, lost>>

Tokens == [access : 0..MaxToken, refresh : 0..MaxToken, life : {"long", "short", "unknown"}]
NoToken == [access |-> 0, refresh |-> 0, life |-> "unknown"]

Init ==
    /\ disk = NoToken
    /\ token = [p \in Processes |-> NoToken]
    /\ pc = [p \in Processes |-> "off"]
    /\ code = [p \in Processes |-> FALSE]
    /\ port = NoProcess
    /\ provider \in Providers /\ issued = 0
    /\ live = {} /\ aged = {}
    /\ lost = FALSE

Go(p, step) == pc' = [pc EXCEPT ![p] = step]
Hold(p, t) == token' = [token EXCEPT ![p] = t]
Busy(p) == pc[p] \notin {"off", "on"}

\* A minute early; a token that never says when is taken to be valid.
IsExpired(t) ==
    \/ t.access = 0
    \/ t.life = "short"
    \/ t.life = "long" /\ t.access \in aged

---------------------------------------------------------------------------
\* What the token endpoint answers.

Lives == IF provider = "plain" THEN {"unknown"} ELSE {"long", "short"}

\* A new access token.  A provider that keeps refresh tokens may leave them out
\* of its answer to a refresh.
Answers(old) ==
    LET n == issued + 1
    IN  [access : {n}, life : Lives,
         refresh : CASE provider = "plain" -> {0}
                     [] provider = "rotates" -> {n}
                     [] OTHER -> IF old = 0 THEN {n} ELSE {0, old}]

\* The endpoint's own record of the refresh tokens.
Accept(old) ==
    /\ issued < MaxToken /\ issued' = issued + 1
    /\ live' = CASE provider = "plain" -> live
                 [] provider = "rotates" -> (live \ {old}) \cup {issued + 1}
                 [] OTHER -> IF old = 0 THEN live \cup {issued + 1} ELSE live
    /\ UNCHANGED provider

---------------------------------------------------------------------------
\* connect().

\* A file that is missing or half written gives no token.
LoadToken(p) ==
    /\ pc[p] = "off"
    /\ Hold(p, disk)
    /\ Go(p, IF ~IsExpired(disk) THEN "on"
             ELSE IF disk.refresh # 0 THEN "refresh" ELSE "browser")
    /\ lost' = (lost \/ (provider = "rotates" /\ \E q \in Processes \ {p} : Busy(q)))
    /\ UNCHANGED <<disk, code, port, endpoint, aged>>

DropsOld(old, answer) == answer

\* The refresh token is kept if the answer has none.
Refreshed(old, answer) ==
    IF answer.refresh = 0 THEN [answer EXCEPT !.refresh = old] ELSE answer

\* After that the token is saved, unless it counts as expired at once.
Refresh(p) ==
    /\ pc[p] = "refresh"
    /\ token[p].refresh \in live
    /\ Accept(token[p].refresh)
    /\ \E a \in Answers(token[p].refresh) :
         LET t == Refreshed(token[p].refresh, a)
         IN  /\ Hold(p, t)
             /\ Go(p, IF IsExpired(t) THEN "browser" ELSE "save")
             /\ lost' = (lost \/ (provider = "rotates" /\ t.life = "short"))
    /\ UNCHANGED <<disk, code, port, aged>>

\* No answer, or one that is not 2xx or holds no token; the request may have
\* been served all the same.
RefreshFails(p) ==
    /\ pc[p] = "refresh"
    /\ \/ UNCHANGED <<endpoint, lost>>
       \/ /\ token[p].refresh \in live
          /\ Accept(token[p].refresh)
          /\ lost' = (lost \/ provider = "rotates")
    /\ Go(p, "browser")
    /\ UNCHANGED <<disk, token, code, port, aged>>

\* authorize: the callback server listens if the port is free, the browser is
\* opened in any case.
Authorize(p) ==
    /\ pc[p] = "browser"
    /\ port' = IF port = NoProcess THEN p ELSE port
    /\ code' = [code EXCEPT ![p] = FALSE]
    /\ Go(p, "wait")
    /\ UNCHANGED <<disk, token, endpoint, aged, lost>>

\* The user logs in on the page that some process opened: the browser is sent
\* to whoever listens.
Callback ==
    /\ port # NoProcess /\ ~code[port]
    /\ code' = [code EXCEPT ![port] = TRUE]
    /\ UNCHANGED <<disk, token, pc, port, endpoint, aged, lost>>

ClosePort(p) == port' = IF port = p THEN NoProcess ELSE port

\* exchangeCode.
ExchangeCode(p) ==
    /\ pc[p] = "wait" /\ code[p]
    /\ Accept(0)
    /\ \E a \in Answers(0) : Hold(p, a)
    /\ ClosePort(p)
    /\ Go(p, "save")
    /\ UNCHANGED <<disk, code, aged, lost>>

\* 120 seconds without a callback, a callback with an error, or a code that
\* cannot be exchanged: connect() goes on without a token and saves nothing.
NoCode(p) ==
    /\ pc[p] = "wait"
    /\ Hold(p, NoToken)
    /\ ClosePort(p)
    /\ Go(p, "on")
    /\ UNCHANGED <<disk, code, endpoint, aged, lost>>

\* saveToken truncates the file and writes it, or cannot open it.
OpenFile(p) ==
    /\ pc[p] = "save"
    /\ disk' = NoToken
    /\ Go(p, "write")
    /\ UNCHANGED <<token, code, port, endpoint, aged, lost>>

WriteFile(p) ==
    /\ pc[p] = "write"
    /\ disk' = token[p]
    /\ Go(p, "on")
    /\ UNCHANGED <<token, code, port, endpoint, aged, lost>>

CannotSave(p) ==
    /\ pc[p] = "save"
    /\ lost' = TRUE
    /\ Go(p, "on")
    /\ UNCHANGED <<disk, token, code, port, endpoint, aged>>

\* disconnect, before the manager's next attempt.
Disconnect(p) ==
    /\ pc[p] = "on"
    /\ Go(p, "off")
    /\ UNCHANGED <<disk, token, code, port, endpoint, aged, lost>>

\* The process dies; between the grant of a token and the end of its write the
\* token dies with it.
Die(p) ==
    /\ Busy(p)
    /\ lost' = (lost \/ pc[p] \in {"save", "write"})
    /\ ClosePort(p)
    /\ Go(p, "off")
    /\ UNCHANGED <<disk, token, code, endpoint, aged>>

---------------------------------------------------------------------------
\* Time passes; the user or the provider withdraws the login, at a time when
\* nobody is connecting.
Age ==
    /\ aged' = 1..issued /\ aged' # aged
    /\ UNCHANGED <<disk, local, endpoint, lost>>

Revoke ==
    /\ live # {} /\ \A p \in Processes : ~Busy(p)
    /\ live' = {}
    /\ UNCHANGED <<disk, local, provider, issued, aged, lost>>

Next ==
    \/ \E p \in Processes :
         \/ LoadToken(p) \/ Refresh(p) \/ RefreshFails(p) \/ Authorize(p) \/ ExchangeCode(p)
         \/ NoCode(p) \/ OpenFile(p) \/ WriteFile(p) \/ CannotSave(p) \/ Disconnect(p) \/ Die(p)
    \/ Callback \/ Age \/ Revoke

Spec == Init /\ [][Next]_vars

---------------------------------------------------------------------------
TypeOK ==
    /\ disk \in Tokens /\ token \in [Processes -> Tokens]
    /\ port \in Processes \cup {NoProcess}
    /\ issued \in 0..MaxToken /\ live \subseteq 1..MaxToken /\ aged \subseteq 1..MaxToken

\* A login the endpoint still honours is in the file whenever nobody is
\* connecting, however often it has been refreshed, refused, unanswered or
\* repeated in the browser.  The exceptions are the ways a token can get lost
\* that connect() does nothing about: a death or a failed write before it is
\* saved, and, where refresh tokens are used once, an answer that did not
\* arrive, two processes at once, or a lifetime within the minute that
\* isExpired takes off.
LoginIsKept ==
    (\A p \in Processes : ~Busy(p)) /\ live # {} => disk.refresh \in live \/ lost
====
