------------------------------ MODULE MCCalls -------------------------------
(***************************************************************************)
(* What the program asks of others, and reads of what they give it, side   *)
(* by side: the sub-agents, a call of the model's API, a connection to an  *)
(* MCP server, a shell command, a search on the threads of the pool, the   *)
(* lines of a stream that comes in pieces, and the tokens of a text. They  *)
(* share no state, so a behaviour runs one of them and the others stay     *)
(* where they start: TLC explores each by itself. A component that does    *)
(* not run has no fair action enabled.                                     *)
(***************************************************************************)
EXTENDS AgentManager

CONSTANTS MaxRetries, CompatRetries, FallbackThreshold, KeepRecent, KeepTail, Budget,
          MaxResults, MaxCalls
VARIABLES kind, pc, attempt, streak, model, level, strip, open, given, results, cleared,
          wire, used, esc, afterEsc
apiVars == <<kind, pc, attempt, streak, model, level, strip, open, given, results, cleared,
             wire, used, esc, afterEsc>>
Api == INSTANCE ApiClient

CONSTANTS McpCallers, NoCaller, Transport, MaxId, MaxConn, MaxVersion
VARIABLES alive, mcpOpen, connected, running, reader, conn, mcpNextId, flight, inbox,
          responses, mcpPhase, mine, got, holder, version, cache, valid
mcpVars == <<alive, mcpOpen, connected, running, reader, conn, mcpNextId, flight, inbox,
             responses, mcpPhase, mine, got, holder, version, cache, valid>>
Mcp == INSTANCE McpClient WITH Callers <- McpCallers, open <- mcpOpen, nextId <- mcpNextId,
         phase <- mcpPhase

CONSTANTS Styles, MaxPiped, MaxOutput
VARIABLES style, call, shellReader, child, writers, piped, output, late, aborted, timedOut
shellVars == <<style, call, shellReader, child, writers, piped, output, late, aborted,
               timedOut>>
Shell == INSTANCE Shell WITH reader <- shellReader

CONSTANTS Files, Path, SearchLines, Upper, Extensions, Troubles, Calls,
          SearchMaxResults, MaxFiles, MaxFileLines, PoolSize
VARIABLES searchCall, rg, trouble, ahead, kept, task, searchResults, total, answer, searchPc
searchVars == <<searchCall, rg, trouble, ahead, kept, task, searchResults, total, answer,
                searchPc>>
Searches == INSTANCE Search WITH Lines <- SearchLines, MaxResults <- SearchMaxResults,
         call <- searchCall, results <- searchResults, pc <- searchPc

CONSTANTS Letters, Marks, Blank, Vocabularies, MergeLists, MaxWord, MaxModel, MaxQuery,
          MaxText
VARIABLES modelType, vocab, merges, query, document, ids, types
tokensVars == <<modelType, vocab, merges, query, document, ids, types>>
Tokens == INSTANCE Tokenizer

CONSTANTS LineKinds, StreamsMaxLines, MaxAgain, MaxAttempts
VARIABLES streamReader, streamAttempt, sent, buffer, event, data, streamGiven, postPath,
          carried, ended
streamsVars == <<streamReader, streamAttempt, sent, buffer, event, data, streamGiven, postPath,
                 carried, ended>>
Stream == INSTANCE Streams WITH MaxLines <- StreamsMaxLines, reader <- streamReader,
         attempt <- streamAttempt, given <- streamGiven

(* A tree of three files and the searches of it.                           *)
Tree == <<<<"a", ".", "h">>, <<"b", "/", "a", ".", "h">>, <<"c", "/", "b", "a", ".", "p">>>>
Words == <<<<"x", "y", "y", "X">>, <<"\"", "'", "x">>, <<"x", "x", "x">>>>
UpperCase == [w \in {"x", "\""} |-> IF w = "x" THEN {"X"} ELSE {}]
KnownTypes == [t \in {"c"} |-> {<<"c">>, <<"h">>}]
Trouble(unreadable, hard) == [unreadable |-> unreadable, hard |-> hard]
SomeTroubles == {Trouble({}, {}), Trouble({3}, {}), Trouble({}, {3})}

GlobCall(glob, where) == [tool |-> "Glob", glob |-> glob, where |-> where]
GrepCall(pattern, mode, icase, before, after, type, glob, limit, where) ==
  [tool |-> "Grep", pattern |-> pattern, mode |-> mode, icase |-> icase, before |-> before,
   after |-> after, type |-> type, glob |-> glob, limit |-> limit, where |-> where]
SomeSearches ==
  {GlobCall(g, "directory") :
     g \in {<<"*", "*", "/", "a", ".", "h">>, <<"*", ".", "?">>, <<"*", "*">>}}
  \cup {GlobCall(<<"*">>, w) : w \in {"file", "nothing"}}
  \cup {GrepCall("x", "content", TRUE, b[1], b[2], t, <<>>, l, "directory") :
          b \in {<<1, 0>>, <<0, 1>>}, t \in {"", "c"}, l \in {0, 3, 5, 6}}
  \cup {GrepCall("\"", m, FALSE, 0, 0, "p", g, 2, w) :
          m \in {"count", "content"}, g \in {<<>>, <<"*", ".", "?">>},
          w \in {"directory", "file", "nothing"}}

(* Lines of a stream, and models to split words with.                      *)
SomeLines == {<<"nl">>, <<"data:", "x", "cr", "nl">>, <<"data:", "nl">>,
              <<"event:", "x", "nl">>, <<"x", "nl">>}
Begins(t) == [text |-> t, continues |-> FALSE]
Goes(t) == [text |-> t, continues |-> TRUE]
SomeVocabularies == {{Begins(<<"a">>), Begins(<<"a", "b">>), Goes(<<"b">>), Goes(<<"a">>),
                      Begins(<<"m">>)},
                     {Begins(<<"a">>), Begins(<<"b">>), Goes(<<"b", "a">>), Goes(<<"b">>),
                      Begins(<<"a", "b">>)}}
Trained ==
  {<<<<<<"a">>, <<"b">>>>, <<<<"a", "b">>, <<"a">>>>, <<<<"b">>, <<"b">>>>>>,
   <<<<<<"a">>, <<"a">>>>, <<<<"a", "a">>, <<"a", "a">>>>, <<<<"a">>, <<"b">>>>>>,
   <<<<<<"b">>, <<"a">>>>, <<<<"a">>, <<"b">>>>, <<<<"a", "b">>, <<"a">>>>,
     <<<<"b", "a">>, <<"b", "a">>>>>>}

VARIABLE component   \* the one that runs
allVars == <<vars, apiVars, mcpVars, shellVars, searchVars, tokensVars, streamsVars,
             component>>

RunsOnly(c) == component = c /\ UNCHANGED component

SideBySideInit ==
  /\ component \in {"agents", "api", "mcp", "shell", "search", "tokens", "streams"}
  /\ Init
  /\ Api!Init
  /\ Mcp!Init
  /\ Shell!Init
  /\ Searches!Init
  /\ Tokens!Init
  /\ Stream!Init
  /\ component # "api" => kind = "remote"
  /\ component # "shell" => style = "posix"
  /\ component # "tokens" => modelType = "BPE" /\ merges = CHOOSE m \in MergeLists : TRUE
  /\ component # "streams" => streamReader = "mcp"
  /\ component # "search" => /\ searchCall = GlobCall(<<"*">>, "file") /\ ~rg
                             /\ trouble = Trouble({}, {}) /\ ahead = <<1, 2, 3>>

SideBySideNext ==
  \/ /\ RunsOnly("agents") /\ Next
     /\ UNCHANGED <<apiVars, mcpVars, shellVars, searchVars, tokensVars, streamsVars>>
  \/ /\ RunsOnly("api") /\ Api!Next
     /\ UNCHANGED <<vars, mcpVars, shellVars, searchVars, tokensVars, streamsVars>>
  \/ /\ RunsOnly("mcp") /\ Mcp!Next
     /\ UNCHANGED <<vars, apiVars, shellVars, searchVars, tokensVars, streamsVars>>
  \/ /\ RunsOnly("shell") /\ Shell!Next
     /\ UNCHANGED <<vars, apiVars, mcpVars, searchVars, tokensVars, streamsVars>>
  \/ /\ RunsOnly("search") /\ Searches!Next
     /\ UNCHANGED <<vars, apiVars, mcpVars, shellVars, tokensVars, streamsVars>>
  \/ /\ RunsOnly("tokens") /\ Tokens!Next
     /\ UNCHANGED <<vars, apiVars, mcpVars, shellVars, searchVars, streamsVars>>
  \/ /\ RunsOnly("streams") /\ Stream!Next
     /\ UNCHANGED <<vars, apiVars, mcpVars, shellVars, searchVars, tokensVars>>

(* The fairness of each component, while it is the one that runs.          *)
Alone(c, A) == component = c /\ A

SideBySide ==
  /\ SideBySideInit /\ [][SideBySideNext]_allVars
  /\ \A a \in Agents : WF_vars(Alone("agents", Acquire(a))) /\ WF_vars(Alone("agents", Finish(a)))
  /\ WF_apiVars(Alone("api", Api!Build)) /\ WF_apiVars(Alone("api", Api!StreamEnds \/ Api!Fail))
  /\ WF_apiVars(Alone("api", Api!Retry))
  /\ WF_mcpVars(Alone("mcp", Mcp!StreamIsGone)) /\ WF_mcpVars(Alone("mcp", Mcp!ReaderTakes))
  /\ WF_mcpVars(Alone("mcp", Mcp!ReaderLeaves))
  /\ \A c \in McpCallers : WF_mcpVars(Alone("mcp", Mcp!Caller(c)))
  /\ WF_shellVars(Alone("shell", Shell!Waits)) /\ WF_shellVars(Alone("shell", Shell!Reads))
  /\ WF_shellVars(Alone("shell", Shell!DeadlinePasses))

(* A call is delivered only by the attempt that streamed all of it.        *)
CallsAreWhole == Api!CallsAreWhole
(* A tool result sent without its text is never sent with it again.        *)
ClearedStaysCleared == Api!ClearedStaysCleared
(* streamChat returns.                                                     *)
EveryCallEnds == Api!EveryCallEnds
(* A caller gets the server's answer to its own request, and a stream that *)
(* ended is noticed.                                                       *)
ConnectionIsSound == Mcp!ConnectionIsSound
(* A call of the shell returns, and leaves no shell behind.                *)
CallsEnd == Shell!CallsEnd
(* A search whose matches fit its limits gives all of them, in order.      *)
SearchIsComplete == Searches!SearchIsComplete
(* What comes in is handed on as what it says: the events of a stream,     *)
(* however it is cut up, and the tokens of a text as the models were       *)
(* trained on them.                                                        *)
ReadingIsExact ==
  /\ Stream!StreamsAreRead
  /\ Tokens!EncodingIsExact
=============================================================================
