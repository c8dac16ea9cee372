# Verification of CloseCrab-Unified

TLA+ models of the parts of CloseCrab-Unified in which order, interruption,
failure, stale state and concurrency decide whether the assistant behaves: the
conversation engine and its tool batches, the transcripts and the commands that
rewrite a history, compaction and the size check before a request, the clients of
the model APIs, the sub-agents, the MCP client and its logins, shells and searches,
the file tools, permissions, the terminal and its threads, the router and the
remote control, the saved sessions, memories, settings and licence, and the
caches behind local inference and retrieval. TLC checks them on small instances,
TLAPS proves the most important safety properties for every value of the
constants. `PROJECT.json` holds the map from every definition to the source lines
it models, the runs, the mutants that show that each property can fail, the
hazards and the theorems.

Source paths below are relative to `src/src/`.

## Inventory

| Component | State | Operations | Hard behaviour | What makes it correct |
|---|---|---|---|---|
| Conversation engine, `core/QueryEngine.cpp` | `messages_`, `lastPersistedIndex_`, `interrupted_`, the compaction breaker, a function-static recovery counter, the locals of `submitMessage` | `submitMessage`, `processToolUse`, `interrupt`, `setMessages`, `clearMessages`, `flushTranscript` | Esc from another thread at any point; threads of a batch; API errors and retries; death between a reply and its tools | every call that is not dropped answered once and in its batch; calls on disk before they run; gates passed before a tool runs; few late starts after Esc; every prompt ends |
| Requests of the engine | system prompt, offered tools, the last token count | `buildSystemPrompt`, `buildModelConfig`, the pre-flight check | cached prompts, discovery through the history, remembered counts and indices | no tool is withdrawn; what is too large is cut, and only then |
| Messages and API clients, `core/Message.*`, `api/*` | roles, blocks, ids; attempts, cleared results | `toApiJson`, `fromApiJson`, `streamChat` | flags that do not survive the file; broken streams, retries, fallback, Esc | requests have the form the API accepts; calls are whole; attempts end |
| Transcript store, `core/TranscriptStore.h` | one JSONL file per session | `appendDelta`, `load`, `list` | an index into a vector that shrinks; files that cannot be opened; a second flushing thread | the files are one log without repeats |
| Session commands and saved rows, `commands/*`, `core/SessionManager.cpp` | history, session id, fork files, SQLite rows, AppState | `/clear`, `/new`, `/rewind`, `/rename`, `/tag`, `/fork`, `/resume`, `/model`, `/passes` ... | long sequences of legal commands around stale indices, ids and clients | replies are saved; the log stays a log; a row gives back what it was written from |
| Compaction, `core/*Strategy.h`, `HistoryCompactor.h`, `ErrorRecovery.h`, `ContextCollapse.cpp`, `MessageSnip.cpp` | the history | strategies, recovery, collapse, snips | sequences of compactions, reloads | one summary; recent messages and dialogue survive; results keep their calls |
| Loop detector, in `submitMessage` | streak, repeats, last signature and text | update after native and textual turns | two kinds of turns share one detector | stops are justified, runaways stop, warnings come first |
| Session router, `core/SessionRouter.*` | queue, sessions, `shutdown_`, per-client marks | register, disconnect, submit, abort, worker loop, shutdown | a condition variable, notifications outside the lock, exceptions in workers | order of service, marks reset, requests taken, shutdown ends |
| Team mode and remote control, `main.cpp`, `network/MobileWebSocket.h` | sockets, session ids, discovery file | register, chat, inject, broadcast, HTTP chat, leaving | two name spaces for one client; raw pointers to sockets; a second caller of the engine | a registered client is heard; sends reach open sockets |
| Sub-agents, `agents/AgentManager.*`, `coordinator/Coordinator.h` | agents, four slots | spawn, getResult, coordinate | time-outs racing late answers | slots conserved, one final answer, queued agents start |
| Permission engine, `permissions/*` | rules, modes, denial counts | check, remember, reset, save | order of rules, counters at limits, restarts | what is denied or protected takes an approval |
| File tools, `tools/File*`, `core/MmapCache.h` | read state, mapped views | read, edit, write | files that change under a conversation, reads of a few lines | no write over a version that was never opened |
| Shells and searches, `tools/BashTool` ..., `tools/GrepTool`, `tools/GlobTool` | child, pipe, deadline; walk, pool, totals | run, poll, kill; walk, search, merge | deadline, Esc, end of output and exit race; threads finish in any order | calls return and leave no shell; a search within its limits is complete |
| MCP client, `mcp/*` | connection, ids, inbox, tool cache; tokens | connect, call, reader, reconnect; refresh, login, save | late answers, dropped streams; lost answers and rotated tokens | answers reach their requests; a login lasts |
| Terminal, `ui/*`, `main.cpp` | spinner thread, key watcher, selector, terminal mode | callbacks, prompts, Esc | several threads on one keyboard and one screen | the watcher hands the keys over, no frame in the text |
| Settings and start, `config/*`, `main.cpp` | `config.yaml`, environment, options | start, `/api` | text edits among comments and blocks | what was saved is used |
| Memories, `memory/*` | files, index, cache | extract, save, delete | names that are parts of names; file and index written apart | the index describes the files, but for what a failure damaged |
| Tasks, `tools/TaskTools` | task store, threads | create, update, stop, report | threads that outlive entries | a task shows its own output |
| Licence, `license/*` | stored activation, trial runs | start, activate, count | several processes write three values, or one file; writes that fail | what was reported is kept, unless a write failed |
| Local inference, `llm/*`, `ssd/*` | context, batches; expert cache | generate; look up, prefetch, evict | lengths at the edge; callers that share a context; two threads miss together | answers come from their prompt; the cache keeps its bound |
| Retrieval, `rag/*` | rows, vectors, id map | add, search, delete, rebuild | partial failure, ids with gaps | vectors find their rows |
| Predictive engine, `core/PredictiveEngine.h` | one thread handle | start, stop, exit | failed turns, exit | no joinable handle is overwritten |

How they interact. The input loop of `main.cpp` calls `submitMessage` on its own
thread, or runs a command on the engine between two prompts. The key watcher
and the signal handler only set `interrupted_`. `submitMessage` measures and
shrinks its history, asks the API client for a stream of events, hands
concurrency-safe calls of a batch to `std::async` threads and everything else to
`processToolUse`, and persists through `TranscriptStore`; after the prompt the
input loop writes the SQLite row. The Agent tool starts threads with engines of
their own, which share the API client, the file tool and the permission callback.
On Windows the console handler flushes the transcript from one more thread. The
web socket's threads submit to the router, whose workers each build a fresh engine
per request, or call the main engine directly; the HTTP server does the latter,
too. MCP servers are reached through one reader thread each.

## Modules

Each component has a module; modules that interact through shared state extend
one another (`CompactionHistory` and `QueryEngine` extend `Compaction`, which
extends `Messages`; `TeamMode` extends `SessionRouter`, `Requests` extends
`Compaction`), the detector is
instantiated, and what one component promises another is a constant of the latter
(`Refused` is the verdict of the permission engine, `ApiErrors` what a client gives
up with, `Contexts` the pressure the size check finds).

| Module | Models | Notes |
|---|---|---|
| `Messages` | `Message.*`, `TranscriptStore::appendDelta/messageToEntry/load` | a message is its role, the calls it makes, the calls it answers and what compaction looks at; `Picked` is the loop that copies what it keeps of a list, which compaction, requests and rows share |
| `LoopDetector`, `LoopDetection` | the detector and the turns it sees | pure operators, used by `LoopDetection` and `QueryEngine` |
| `Compaction` | the strategies, `compactIfNeeded`, `forceCompact`, `ErrorRecovery`, the collapse | operators on a history; token counts become a chosen pressure |
| `CompactionHistory` | a long session: turns, compactions, reloads in any order | |
| `SizeCheck` | the four layers of the pre-flight check: `ContextCollapse`, `MessageSnip`, a compaction and brute force, with the estimates they compare | messages as lengths of their blocks; limits scaled down |
| `Requests` | what the three clients send of a history | blocks as types and call ids; which calls Esc, a crash or a reload abandoned |
| `QueryEngine` | `submitMessage`, `processToolUse`, batch threads, Esc, crash, `--continue` | extends `Compaction`, instantiates `LoopDetector` |
| `ToolOffers` | system prompt and tools of a request, ToolSearch, plan mode, `/model`, MCP servers | two engines, a main one and a sub-agent |
| `ApiClient` | `streamChat` of the remote, compatible and local client | a call is the set of attempts its input came from |
| `Streams` | `StreamParser` and its two users, the read loop of the SSE transport | bytes are field names, ends of lines and the rest; pieces end anywhere |
| `AgentManager` | spawn, threads, slots, `getResult`, `Coordinator::execute` | a conversation is one action |
| `Journal` | the abstract promise of all transcripts together | no code of its own |
| `Sessions` | transcripts, commands, restarts; `ClosingSpec` adds `consoleCtrlHandler`, a second persisting thread | implements `Journal` with `Files <- SessionIds` |
| `SavedSessions` | `SessionManager`, `SessionAutoSave`, `/resume` and main's two ids | a session is named by the second it was made in |
| `SessionRouter` | the router with its condition variable | |
| `TeamMode` | `main.cpp`'s wiring of sockets to it | extends `SessionRouter` |
| `RemoteControl` | `MobileWebSocket`, HTTP chat, `inject_main`, main's teardown | the socket library is external |
| `Permissions` | `PermissionEngine::check`, denials, modes, saved rules, the callbacks that approve | the calls a rule matches are a set; nothing adds a rule at run time (`addAllowRule` and its like have no caller) |
| `FileTools` | Read, Write, Edit, `MmapCache`, the read state | the content is a version, the time one of a few milliseconds and may stand still; a read shows a range and is recorded as any other |
| `Shell` | Bash, PowerShell, REPL, Monitor, `ProcessRunner` | three wait loops: POSIX, Windows, popen |
| `Search` | Glob and Grep, the thread pool, ripgrep | a real matcher on paths of letters; the inputs are in `MCCalls` |
| `McpClient` | `MCPClient`, the transports' reader, `MCPServerManager` | one server, several callers |
| `McpTokens` | `MCPOAuth`, the first half of `connect` | tokens are numbers, the endpoint is external |
| `Console` | input loop, key watcher, selector, elicitation | POSIX build; the watcher's two tests and its read are steps of their own |
| `Terminal` | spinner and callbacks | |
| `Commands` | commands that prompt, `/model`, switches, the sub-agents and the client each was given | |
| `Tasks` | `TaskStore`, background commands, monitors | |
| `Startup` | `Config`, `/api`, main's precedence | two settings stand for all |
| `MemoryFiles` | `FileMemoryManager`, `MemoryExtractor`, `/memory` | names and which is part of which; a memory and its line are written in two steps that may fail |
| `License` | `LicenseCore`, `LicenseGate` | the registry and the POSIX file; signatures are pairs of token and signature |
| `Preload` | `PredictiveEngine`'s thread handle | |
| `ExpertCache` | `SSDExpertStreamer`'s cache | eviction is one action per turn |
| `RagIndex` | `RAGManager` | CPU build; `init` has no caller at this commit |
| `Tokenizer` | `HFTokenizer` | letters, marks and blanks; WordPiece and BPE |
| `LocalModel` | `LLMEngine::generateRaw` | lengths in tokens; several callers, no lock |
| `Lists_proofs` | | lemmas about loops and about lists that are picked from |
| `Histories_proofs`, `Stores_proofs`, `Files_proofs` | | theorems about the components of `MCFiles`, which they extend |
| `QueryEngine_proofs`, `Calls_proofs`, `Interface_proofs` | | theorems; the last two extend the MC module of their name |
| `MCCalls`, `MCFiles`, `MCInterface` | | components side by side, see Runs |

### QueryEngine

`pc` is where the engine's thread is: `loop` (top of the turn loop), `stream`
(inside `streamChat`), `serve`/`run` (a call on its own thread), `collect`
(`future.get()` in order), `parse`, `serve text`/`run text` (a call found in the
text), `done`, `idle` (back at the prompt), `down`. `stage` says how far each call
of the turn has come: `serial`, `gated` (past every gate, the prompt answered, the
tool not yet called), `executing`, `answered`, or for a thread `queued`, `launched`,
`looked` (it has tested `interrupted_`, line 1049, and not yet called the tool, line
1070), `running`, `finished`, and `dropped` when an interrupt skips it.
`Interrupt` and the workers interleave with the engine's thread everywhere, since
`interrupted_` is an atomic nobody locks. The order of the gates in
`processToolUse` is kept in `Admitted`: sub-agent guard, filter, MCP route,
registry, validation, permission, hooks. `ran`, `late`, `past` and `abandoned` are
history variables: what began to execute, what of it after the interrupt, which of
those were on threads that had looked before, and the calls that Esc dropped or a
crash left open. Nothing repairs the history of such calls: the next request carries
them as they are, and `HistoryIsAnswered` says that they are the only ones.

Contents are abstracted: a text is a model value, a tool input a model value, the
API gives every call a fresh id, and token counts are a pressure out of
`Contexts`. An API failure is one of three classes; the retry ladder below it is
`ApiClient`.

### Sessions

Turns are reduced to what they push (prompt, call, result, answer) and to where
they persist: after the prompt, after a reply, at the end, never after a result.
`persistTranscriptDelta` is two steps, `Write` (read the index, append the lines)
and `Advance` (assign the result of `appendDelta`), so a crash or the close
handler (`Flush`, only in `ClosingSpec`) can come between. `Index` is the index that counts: the result once there
is one. A file may fail to open at any write. A session is down or up; `Start`
takes up the newest transcript, as `list(1)` does, or a new id with `--new`, and
loads it only with `--continue`.

### SessionRouter

A worker's wait is `FindsNothing` (the predicate is false; the mutex is still
held) and `Block` (it sleeps and the mutex is free), because `shutdown()` raises
its flag and notifies without the mutex. A notification wakes one sleeper if there
is one and is lost otherwise; `SpuriousWakeup` is allowed and never relied on.
`Finish` is both the normal end and the exception that unwinds through the guard.

### SizeCheck

`Measure` is the estimate: what the API counted for an earlier request plus the
characters of the messages behind the remembered index, or everything. `Shrink`
composes the layers in the code's order: collapse while layer after layer is still
too large, snip the largest block, run the first strategy that triggers, and
delete what stands before the last messages. Texts are lengths in characters of
ASCII, four to a token, with the code's rounding; the limits are constants scaled
to a window of a thousand, the counts of messages kept are constants, too.
`CacheHits` says whether the count the API reports leaves out cached tokens.

### ApiClient, McpClient, McpTokens, Shell

An attempt of `ApiClient` is a step each for building the body, every event of the
stream, its end or failure and the sleep; `open` holds the attempts whose deltas
are in the half-built call. `McpClient` steps over the transport's queue, the
reader, the response map and the manager's mutex; a server may drop, answer late or
ask back while it works on a request. In `McpTokens` the endpoint keeps its own
record of the refresh tokens it accepts, and an answer may be lost after it was
served. `Shell` follows the three loops check by check: whether the deadline is
tested before or after the read decides what is lost.

### Components with history variables

Some properties need to remember: `seen`, `moved` and `blind` in `FileTools` (what a
conversation opened last; did somebody else change the file inside one of its calls;
did it write over what it had not opened), `harmed` in `License` (a write failed, or
two processes rewrote the file at once), `met` in `LocalModel` (another call used the
context meanwhile), `damaged` in `MemoryFiles` (the names whose file or line a failure
left wrong), `late` in `Console` (reads the watcher began after it had to yield),
`abandoned` in `Requests`, `lost` in `McpTokens`, `told` in `AgentManager` and `SavedSessions`,
`ran` in `Permissions`, `terminated`/`shared` in `Preload`. They are assigned next
to the step they record and read by no guard. Each stands for a case the code does
nothing about, which the property next to it names; the mutants show that the case
is not what keeps the property true.

## Runs

| Run | Shows | Bounds |
|---|---|---|
| `batches` | results paired with calls, every call but the abandoned ones answered when its batch is over, on disk before they run, the file the history up to what is pending, late starts only of threads that had looked or of one call, unsafe tools gated | two prompts of one turn, a crash, up to two calls; four tools: safe and filtered out (`Read`), unsafe (`Edit`), refused (`Bash`), `Agent`; native and text calls; remote |
| `recovery` | every prompt ends; an open breaker leaves the history alone | all API errors, `max_tokens`, budget, compaction under pressure, a crash and `--continue`, local and remote, breaker and recovery limit one |
| `calls` | whoever waits for another gets its answer, once and as what it says; the waits end | two engines, three agents on two slots; four attempts on the three clients; two callers and two connections; three shells' loops; a tree of three files on two threads; streams of four lines of five kinds cut anywhere, and a repeated transfer; texts of four characters |
| `files` | what one step leaves for a later one is right when it is used | see the constants of `MCFiles.cfg`: four messages in sessions and size check, seven in compaction, two processes, three memories, three experts in a cache of two, two threads; a file of two contents and two times, read by two conversations; the licence in either store with three starts; two callers of the local model |
| `interface` | requests are served in order and none is slept through; the watcher gives the keys up after one read; no frame in the text; no send to a freed socket; no rule or mode lets a denied or protected call run; an agent that is waited for keeps its client; one answer for each task | two workers, two clients, two priorities, two requests; two tasks; two phones; two engines; two agents and two clients made by `/model` |

`MCCalls`, `MCFiles` and `MCInterface` put components that share no state side by
side: a variable says which one runs, and the others stay where they start, so TLC
explores each component's whole state space by itself and never their product. A
component with several initial states is pinned to one of them while another runs.
The fairness of a component holds for the steps taken while it is the one that
runs, which is its own fairness formula, conjunct by conjunct. Deadlock is not
checked there: a component may really end (the program exits, the licence locks,
every bound is used up). `batches` and `recovery` end in explicit stutters
(`Closed`, `Quiet`, `Ended`, `Stay`) and keep the deadlock check.

Why the bounds are enough. Two calls make a batch: partition, thread order,
collection order and an Esc between two starts all show; a third call adds only
another position. Two prompts make a request that must carry what the first left,
calls that Esc dropped or a crash left open included. One turn a prompt keeps the
interleavings of a batch small: the summary turn of a local model and a second turn
of the same prompt are in `recovery` and in the proofs.
The thresholds of the detector, the counts of messages a compaction keeps, the
retries, slots and cache sizes are constants, so that small ones exercise
warn-then-stop, the last attempt and a full cache. Two callers, processes or threads
show every race of two; an agent more than there are slots queues. Two requests on
two workers give the same client served twice, an urgent request overtaking, and a
shutdown with work queued. A refresh and a login need two tokens. A size check needs
one message too many, a batch of two results and a compaction before it.

The proofs remove the bounds for the theorems listed below.

### Fairness

`QueryEngine!FairSpec` makes the engine's thread and the batch threads run while
they can: a stream ends (the API client has time-outs), a tool returns, a permission
prompt is answered. It gives no fairness to the user, to Esc, to a crash or to
`Resume`. `SessionRouter!FairSpec` makes the workers, the pending notifications and a
shutdown that has started go on; no fairness wakes a sleeping worker, and none
starts a shutdown. `AgentManager` lets a thread that finds a slot take it and a
conversation end, since its turns are limited and every transfer has a time-out.
`ApiClient` lets a body be built, a stream end or fail (curl's time-outs) and a sleep
pass; nothing makes the server succeed. `McpClient` lets the reader and the callers
take their steps and a broken stream be seen by the transport; nothing makes a
server answer. `Shell` lets the loop run and the clock reach the deadline; nothing
makes the command end.

### Disagreements between the code and its documentation

| Run | What it shows |
|---|---|
| `filter_bypass` | `QueryEngine.h:41` says the filter leaves only the listed tools available. In a reply with two or more calls, a concurrency-safe tool runs on a thread that applies no filter. |
| `compacted_lost` | `QueryEngine.cpp:982` says a hard exit never loses the tool calls of the turn. After a compaction has shortened the history below the index, the reply is not written. |
| `split` | `AutoCompactStrategy.h:90` says not to split a call from its result. Only one message is looked at, so the second result of a batch of two is cut off. |
| `flush_race` | `QueryEngine.h:110` says flushing is safe at any time. The close handler's thread can write the same delta as the main thread. |
| `chat_dropped` | `README.md:765` says team mode serves several developers. Chats are submitted under the socket's id, sessions have another, so every chat is dropped. |
| `unmeasured` | `QueryEngine.cpp:700` says the pre-flight check compacts before a request is rejected. A compaction leaves the remembered index past the end of the shorter history; what is added then is not counted and the request goes out over the limit. |
| `unmapped` | `MmapCache.h:26` says the cache is thread-safe. Its pointers are used after the mutex is released, and a read unmaps its file when it is done, so of two parallel reads of one file (`FileReadTool_Enhanced.h:514`) one copies out of a view that is gone. |

Observed while modelling, without a run of their own. The first group is visible in
the models (a constant or a guard of the module shows the case):

- The MCP route of `processToolUse` (`core/QueryEngine.cpp:404`) comes before the
  permission check, so `UnsafeToolsAreGated` exempts MCP proxies from refusals.
- `submitMessage` never repairs its history: calls that Esc dropped (`core/QueryEngine.cpp:1030`,
  `:1049`) and calls a crash left open stay without a result, and
  `RemoteAPIClient.cpp:106` sends them so, which the API may refuse. `abandoned` in
  `QueryEngine` and `Requests` is the set of them.
- Esc between a thread's test (`core/QueryEngine.cpp:1049`) and its call of the tool
  (`:1070`), or behind the permission prompt (`:478` before `:537`), does not stop the
  tool: every thread that had looked begins.
- A hard exit loses the finished results of a whole batch, not only the one in
  flight: results are persisted with the next reply or at the end of the prompt.
- A call parsed from text replaces an assistant message that has been persisted
  as text, so the transcript keeps the text and not the call.
- `MicroCompactStrategy` inserts a boundary before the persisted index, which does
  not move with it, so the last persisted message is written again; and its notice
  can come between a call and its results (`MicroCompactStrategy.h:69`).
- After `/clear`, `/new` and `/rewind` the index is past the end of the history; the
  next prompt is not written and only brings the index back. `RepliesAreSaved`
  says that the loss ends there. `/fork` goes on under a new id with the old index:
  the new transcript starts in the middle.
- A lost wake-up at shutdown: if the flag and the notification fall between a
  worker's predicate and its block, the worker sleeps on and `join` never returns.
- The detector stops one turn later than its threshold's name says, and a turn
  without calls does not reset it.
- `SizeCheck`: with prompt caching the reported input tokens leave out cached ones, so
  the remembered count is too small (`CacheHits`); a compaction, a snip or a collapse
  leaves it stale, so that the check after a failed request shrinks again; a window
  of 33000 or less makes the threshold negative; the brute-force layer deletes the
  summary of the compaction just made (`core/QueryEngine.cpp:766`).
- `McpTokens`: a token whose life is 60 s or less counts as expired at once, so a browser
  opens although the refresh succeeded; an answer lost after it was served, a failed
  save or a process that dies loses a rotated refresh token.
- `McpClient`: the reader answers a server's questions itself, so callers time out
  meanwhile; a stdio server that ends is not noticed.
- `Preload`: two engines may assign the one thread handle (`shared`), which ends the
  process; `NeverTerminates` is about one engine at a time.
- `FileTools`: a read of a few lines, or one cut at the limits, is recorded as a view of
  the whole file (`FileReadTool_Enhanced.h:556`, `Tool.h:101`), so a conversation may
  write over lines it was never shown; `NoBlindWrites` is about versions, not lines.
  A change in the millisecond of the recorded time is not noticed (`FileWriteTool.h:56`
  compares with `>`), nor is one that moves the time back.
- `FileTools`: with two lanes the reads of a batch also update the read state without a
  lock (`core/QueryEngine.cpp:1064`).
- `Search`: a file with more matching lines than `head_limit` is dropped whole and still
  counted, so a search may say that nothing matches (`GrepTool.h:181`,
  `MatchesAreNotDenied`).
- `Streams`: `OpenAICompatClient` keeps its parser across retries, so the line a broken
  transfer left is glued to the first line of the next (`OpenAICompatClient.cpp:280`).
- `Commands`: `/passes` goes on with its next pass after Ctrl+C (`CancelEndsTheCommand`);
  a second `/model` destroys the client that agents in the background, or given up by
  their wait, go on using (`ExtendedCommands.h:950`); `AgentsKeepTheirClient` says that
  no others are hit.
- `Startup`: a value of the environment does not win over the file for every setting
  (`main.cpp:833`, `PriorityIsCliEnvFile`).
- `Terminal`: the main thread writes while the spinner draws (`OneWriter`), and a lost
  wake-up delays the spinner's end (`TerminalUI.h:196`). 
- `Console`: the selector may be left with the terminal still raw
  (`KeyboardSelector.h:176`). The watcher tests `consoleInputBusy` and then reads
  (`main.cpp:1764`), for up to 100 ms inside an escape sequence, while the selector
  waits 35 ms (`KeyboardSelector.h:134`): it can take one key, or one sequence, from a
  prompt, which the comment at `main.cpp:1772` excludes. An elicitation reads its line
  with no guard at all (`main.cpp:1142`) and is in no property.
- `RemoteControl`: `MobileWebSocket::stop` has no caller, so the discovery file
  outlives the program (`FilesAreOfLiveWindows`); `inject_main` and HTTP `/chat` enter
  the engine while the input loop is inside it (`main.cpp:1624`, `main.cpp:1972`).
- `Tasks`: a stopped task may be reported completed (`TaskTools.h:165`, `StopsLast`).
- `License`: a write that fails is not noticed in either build (`LicenseCore.cpp:402`,
  `:491`) and `saveActivation` still reports success (`:527`); the POSIX file is rewritten
  whole from what was read, through one `.tmp` that processes share, so a trial run
  counted at the same time can bring back the values from before an activation.
  `harmed` marks these cases.
- `Permissions`: `ExtendedCommands.h:993` registers `/permissions` over `main.cpp`'s.
  `PermissionEngine.cpp:99` calls protected removals "never auto-approved"; the callbacks
  of sub-agents (`AgentManager.cpp:170`), of the router (`SessionRouter.cpp:243`) and of
  `ExtendedCommands.h:388` approve them with everything else, and so does the user's
  Allow All.
- `SavedSessions`: ids collide within a second, and the session then has no id and no
  transcript; an UPDATE of a row that is gone saves nothing and says nothing;
  restored rows and forks count as persisted although the transcript does not hold
  them (`core/QueryEngine.cpp:1514`).
- `MemoryFiles`: an index update replaces every line whose text contains the name. The
  file and the index are written one after the other, a failed write of the index is
  ignored (`FileMemoryManager.h:217`), and a death in between leaves a memory without a
  line or with an old one, until it is saved again or the index is rebuilt.
- `LocalModel`: a cap of 64000 tokens against a context of 32768 (`QueryEngine.h:128`)
  makes the room for a prompt negative, and `resize` throws (`LLMEngine.cpp:269`). Nothing
  locks the context that the main engine, sub-agents and router workers share: calls that
  meet clear and fill each other's memory (`met`).
- `Requests`: after a reload `isToolUseResult` is lost, and clients of the OpenAI form
  send reloaded results empty.

The second group is only known from reading:

- `abortClient` sets a flag nothing reads, and every request of the router starts with
  an empty history although the session keeps its messages.
- The text collapse needs a run of results longer than single-call turns leave.
- `systemPromptDirty_` is never set again after the first prompt; no tool overrides
  `shouldDefer`, so ToolSearch's keywords find nothing; plan mode filters what is
  offered and is not enforced when a tool runs.
- The expert cache and the retrieval index have no caller at this commit
  (`LLMEngine::initSSDStreaming`, `RAGManager::init`); the index's `rebuildIndex` locks
  a mutex its caller holds on the path of `RAGManager.cpp:532`.
- `main.cpp:888` passes `cpuMoe` where the number of parallel sequences is expected.
- A failed API call still makes a sub-agent COMPLETED (`AgentManager.cpp:177`).
- A plugin with a `skills/` directory replaces the project's skills
  (`PluginManager.h` calls `SkillDirectory::loadFromDirectory` with the plugin's root).

## Proofs

All theorems are about the specification of a component without fairness, for every
value of the constants. The hypotheses are the named assumptions of the modules
(limits are numbers, thresholds in their order, sets finite where something is
counted) and, where a theorem says `ASSUME`, one more that its text names.
`MCCalls`, `MCFiles` and `MCInterface` hold the assumptions on the constants of the
components they instantiate, so that TLC evaluates them on the values of the runs.
The proof modules that extend them end with a theorem about the specification that
is run (`CallsAreSafe`, `FilesAreSafe`, `InterfaceIsSafe`, `RequestsStayFit`,
`StoresAreKept`): the components side by side take the steps of each component or
none, so what holds of each holds of all.

Each section states the inductive invariant, the lemma that a step keeps it, with
one step per action, and the theorem. What the invariants add to the properties:

**QueryEngine_proofs.**
- `TypeControl`, `GatesHold`, `LateStartsAreBounded`. `UnsafeToolsAreGated` is not
  inductive, as nothing in it says which calls may be on a thread; `GateInv` adds
  `ThreadsAreSafe` (a call is on a thread only if its tool is concurrency-safe), so a
  start on the engine's thread comes from `Admitted` and one on a thread from the
  partition. `LateBound` says that after a late start on the engine's thread no call
  is left that may begin (`MayStart`), and that a thread still between its look and its
  call after an interrupt had looked before it, as had all that began late by then.
- `ResultsAnswerCalls`, `FileFollowsHistory`, `CallsAreWrittenFirst`: `HistoryIsAnswered`,
  `TranscriptIsFaithful` and `CallsAreOnDisk`, over any number of prompts, turns,
  interrupts and crashes. The hypothesis `HistoryOnlyGrows` says that the context stays
  low and no failure asks for a trim, so that no compaction runs; with one the second
  half fails, as `compacted_lost` shows. `CallsAreWrittenFirst` also assumes that the
  file opens. `HistoryInv` ties the stage of each call to the tail of the history: the
  results behind the last request are those of the calls that were answered, in their
  order, and ids not yet given occur nowhere; the file is the history up to the
  persisted index, a text-format call standing for the text it was parsed from. Calls
  that have no result are those in `abandoned`, which only an Esc before a call is
  served and a death with a batch open add to.
- `TypesAreKept`: `TypeOK`, with every compaction, retry and crash included, so without
  `HistoryOnlyGrows`. It takes four parts together. `GateInv` types the control.
  `HistoryTypes`: each trim leaves a history (`SplitPoint` keeps a summary's split within
  the list, so that its tail is a part of it). `CountersInv`: failures and retries stop
  at their limits, because every step that raises one has read it first. `ReplyInv`
  types the text of a reply and the stages of its calls.
- `OpenBreakerKeeps`: the safety half of `FailuresAreBounded`, also with compaction. With
  the breaker open a 503 or 529 trims nothing; a prompt that was too long is trimmed
  whatever the breaker says, and ends only if that failed. `FailedTrimKeeps`: a failed
  trim has changed nothing, as a summary either shortens the history or is not made
  (`SummaryShortens`) and micro compaction counts what it changes (`MicroLeavesHistory`).

**Lists_proofs.** No state, only the lemmas that the next two modules, and the
trims of `QueryEngine_proofs`, share. A loop of the
code is a recursive function on `0..n`, and `UpTo` is induction in the form the provers
can use: a *set* of positions that holds 0 and with each position the next holds all of
them, which follows from the least element of its complement. From it: a loop has one
run (`Runs`), a list picked from another (`Picked`) keeps order, roles and ends, picking
twice is picking once, and picking distributes over concatenation.

**Histories_proofs.**
- `RewritesStaySound`: `RewritesAreSound`, for histories of any length. `RewritesInv`
  states "results follow their calls" with a witness: an answer has an asker
  (`HasAsker`) with only results and system messages in between, or nothing but those
  before it (`LeadsAll`), which is the orphaned head a summary leaves and
  `processMessages` drops. Each rewrite is a removal or a replacement of a prefix, and
  each of the two keeps this form; the calls of a removed prefix leave orphans at the
  head only.
- `RequestsStayTrimmed`: the size half of `RequestsAreFit`. `SizesInv` adds that every
  layer before the brute force leaves the recent end as it was, block by block
  (`SameEnd`), so that "nothing old is long" is about the same messages. The assumption
  that what is snipped is not newer than what is collapsed or summarized
  (`SizesAssumption`) is the relation of the code's constants 6, 4 and 10.
- `RequestsStayAccepted`: the other half, for the three clients and the reload. `WireInv`
  says that each result answers a call of one message and that between the two are only
  results (`AnswersTo`), and that the batch being served is the last one (`Serves`).
  What a client sends is a loop over the history; the lemmas say of each loop what its
  last message is at each position, from which the order of the results, the turns of
  the roles and the results behind each call follow; a call without one is abandoned.
  It assumes that `MicroCompactStrategy` does not run, whose notice may come between a
  call and its results (`MicroCompactStrategy.h:69`).
- `RequestsStayFit`: both, and `RewritesAreSound`, of the specification that is run.

**Stores_proofs.**
- `SessionsImplementJournal`: `Spec => Journal!JournalSpec`, every step of the program
  leaves the transcripts alone or appends to one of them messages newer than everything
  in all of them. The invariant behind it, `JournalInv`, says that what lies past
  `Index` is newer than all that is on disk and increases (`PendingIsNewer`,
  `PendingIncreases`); a shortened history, a restored one and a failed write all keep
  that. `RepliesAreAlwaysSaved`: `RepliesAreSaved`; the missing link is `IndexInTurn`,
  that inside a turn the index is within the history, which holds because the prompt
  is persisted before anything else is pushed. Both are about the main thread alone;
  `flush_race` runs the module's `ClosingSpec`, with the close handler, and shows that
  they fail there.
- `RowsStayReadable`: a row restores to the end of what the history it was written from
  says (`RowGood`), for every way of cutting it off, with and without text, and whatever
  was restored before; `RowsInv` ties each row to the history it was last written from.
- `VectorsStayWithTheirRows`: the property fails between the vector and its id, while
  the lock is held; `RagInv` says what is missing then, the id of the row just inserted,
  that one thread at most is there, and that the two lists are equal otherwise.
- `SavedStaysUsed`: for a file of any length, the loop of `writeYamlValue` changes the
  line that is read back and no line that another setting is read from (`ValueOf`).

**Interface_proofs.**
- `QueueStaysInOrder`: the step that needs work is a push without a sort, in order
  because its priority is zero and nothing is less urgent. `MarksAreReset`:
  `NobodyStuckGenerating` for any number of workers on one client.
- `DeniedCallsAreHeld`: a refused call about which the user is being asked has used up
  the denials of its tool (`AskedForAReason`). What runs without a question is approved
  by the user's Allow All or by a sub-agent's callback; no rule and no mode is enough.
- `KeyboardIsHandedOver`, `FramesStayOutOfText`, `PreloadNeverTerminates`: invariants over
  the program counters of two threads, with the flag and the mutex between them. For the
  keyboard: a watcher that has begun a read since it had to yield is not past its tests
  again before the prompt or the turn is over; and the mode and the guard follow from
  where the input loop and the selector are (`KeysInv`).
- `PhonesAreSentToWhileOpen`: the sockets a thread still has to send to are open, and it
  holds the mutex that a closing socket needs to leave the list (`PhoneInv`).
- `ResultsStayOwn`: the entry of the id a thread reports to is its own or gone
  (`HoldsItsOwn`), as ids are not given twice.
- `WaitedAgentsKeepTheirClient`: an agent that is waited for was started in the prompt
  that still runs, and `/model` is read only between prompts, so its client is the
  engine's (`PromptsInv`); with the wait given up or in the background it is not.

**Calls_proofs.**
- `AnswersAreFinal`: the status is read one step after the wait ended, so `AnswerInv`
  adds that at that point the agent is done or was given up (`ReportsAreDue`), that a
  plan has a next agent (`PlansAreOpen`), and that an id not yet given has no thread
  (`FreshIds`). `SlotsAreKept`: the counter and the working threads always add up to the
  slots; no agent waits for another (`AgentsWaitForNobody`), because agents do not get
  the Agent tool.
- `DeliveredCallsAreWhole`: what is half built belongs to the current attempt.
  `StubsStayStubs`, `EscIsHeeded`: an action property and a bound, from the same module.
- `AnswersMatchRequests`: of all that is under way, queued or put down, two with one id
  are one, and all ids are older than the next (`IdsAreUsedOnce`, `IdsAreOld`).
  `NoShellIsLeft`: the threads are joined only behind the shell's end or its kill.
  Both are the safety half of a property whose other half is liveness.

**Files_proofs.**
- `NoToolIsWithdrawn`: an offer of a history that grows is within what the always-loaded
  tools, the servers and the discoveries give (`OfferIsFound`), and discoveries only grow.
- `OnlyRunawaysStop`: the detector's counters are tied to the turns they stand for
  (`RepeatsCount`, `StreakCounts`: so many last turns did name the same tools), which is
  what the code's two integers leave out, and a count is below its limit until the turn
  that stops (`CountsStop`).
- `IndexIsTrue`: a search by text leaves the line of every other file current or takes
  it out; between a file and its line the name is damaged, and only a save of that name
  or a rebuild that succeeds takes it from `damaged`.
- `WritesAreNotBlind`: a record is of the content its conversation opened last
  (`RecordIsOfSeen`), a write runs beside no other call of its conversation
  (`WritesAlone`), and as long as nobody else changed the file under a call, what a reader
  has in hand is what the file holds, and a writer that was let through has opened what
  it holds or could not be told of a change (`ThreadIsRight`).
- `LoginsAreKept`: a live refresh token is in the file, in the hands of the one process
  that connects, or lost in a way the model records (`LoginIsSomewhere`).
- `ReportsAreKept`: what each process has still to write and what it has written of it
  (`WritesLeft`), in either store; with no write failed and one process at a time at the
  file, what that process has read, or put into `.tmp`, is the file but for its one value
  (`RewriteIsRight`).
- `CacheStaysBounded`: the counter bounds the entries and the list names each of them
  (`EntriesAreListed`), and nobody looks in a file for what is pinned (`PinnedStay`).
- `AnswersAreTheCallersOwn`: while a call meets no other, all that is in the context is
  its own (`ContextIsItsOwn`), because it begins by clearing what is left of earlier ones,
  and its answer has room (`AnswerHasRoom`).

Only model-checked, and why:

- Liveness under fairness, which the prover does not handle: `WorkersWakeUp`,
  `QueuedAgentsStart`, `EveryCallEnds`, and the other halves of `FailuresAreBounded`,
  `ConnectionIsSound` and `CallsEnd`.
- `ReadingIsExact` (the encoding of a text by merges, and a stream cut into lines) and
  `SearchIsComplete`: what recursion over the data itself computes of any input. Unlike
  the loops of `Lists_proofs` these have no position on which a set could be built
  without restating the function.
- `HistoryIsAnswered` and `TranscriptIsFaithful` across a compaction of the engine's
  history (`HistoryOnlyGrows` excludes it; the second is false there). What the trims
  keep of a history is proved of the rewrites themselves, in `Histories_proofs`.

## Not modelled

`PROJECT.json` gives the reason for each component. In short:

- Texts and numbers: prompts, formats, the JSON of an event, embeddings, sampling, hashes and
  signatures; the vendored `tweetnacl`.
- What a data race does to memory: where two threads enter the same object without a
  lock the models say that they do, not what is left of a vector afterwards.
- Half-written lines of a transcript (`TranscriptStore.h:85`; the loader skips what it
  cannot parse), per-project buckets, the events and messages the router keeps for its
  clients, requests still queued when it shuts down (`SessionRouter.cpp:115`).
- An Esc pressed just before `submitMessage` clears the flag (`QueryEngine.cpp:603`).
- `EnhancedSnip`, which stands behind a strategy that always triggers before it, and
  code without a caller: `StreamingToolExecutor`, `MagicDocs`, `AutoDream`,
  `SharedKnowledge`, `StatsEngine`, `ProcessSandbox`, `SettingsSync`, `FeatureFlags`,
  `Notifier`, the suggestion and summary services, `SSEServer`, `RemoteSession`, the
  bridge, `WordPieceTokenizer`, `MultilineInput`, `TabComplete`, `FileWatcher`,
  `ModelRouter`, `GitTracker`, `FileChangeTracker`, `CompactWarning`, the language
  servers (none is ever added), `AgentManager::cancelAgent/killAgent/cleanup`,
  `CronTools::checkAndFire`, `MobileWebSocket::stop`.

## Plan

What is left, in order of worth:

1. Proofs that are still open: what a compaction keeps of a history of the engine
   (`ResultsAnswerCalls` without `HistoryOnlyGrows`, for which `RewritesInv` has the
   lemmas), the requests with a micro compaction between whole turns only
   (`RequestsStayAccepted` without its hypothesis), and the streams of `ReadingIsExact`.
2. Hooks, plugins and skills, and the classifier of shell commands.
3. The composition of `QueryEngine` with a nested engine and with a second caller.
4. An abstract specification for the MCP client (requests are answered at most once
   and by their own answer) and the refinement that shows it.
