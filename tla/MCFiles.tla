------------------------------ MODULE MCFiles -------------------------------
(***************************************************************************)
(* What is kept between steps - sessions, transcripts, histories, the      *)
(* tools a prompt is offered, files, indexes, caches, logins, the          *)
(* configuration - side by side. The components share no state, so a       *)
(* behaviour runs one of them and the others stay where they start: TLC    *)
(* explores each by itself. A component that has several initial states    *)
(* and does not run stays in one of them.                                  *)
(***************************************************************************)
EXTENDS Sessions

CONSTANTS Tools, AlwaysLoad, ReadOnly, Deferring, Search, ServerTools, SubTools, Models,
          MaxPrompts, MaxResults
VARIABLES model, planMode, connected, allowed, system, offer, results, grew, offersPc,
          prompts
offersVars == <<model, planMode, connected, allowed, system, offer, results, grew, offersPc,
                prompts>>
Offers == INSTANCE ToolOffers WITH pc <- offersPc

CONSTANTS Similar, NoText, kRepeatWarnThreshold, kRepeatBreakThreshold,
          kSameToolWarnThreshold, kSameToolBreakThreshold, Batches, TextCalls, Texts,
          MaxTurns
(* A batch has a call; the warning comes before the stop. *)
ASSUME LoopsAssumption ==
  /\ \A b \in Batches : DOMAIN b # {}
  /\ kRepeatWarnThreshold \in Nat \ {0} /\ kRepeatBreakThreshold \in Nat
  /\ kRepeatWarnThreshold < kRepeatBreakThreshold
  /\ kSameToolWarnThreshold \in Nat \ {0} /\ kSameToolBreakThreshold \in Nat
  /\ kSameToolWarnThreshold < kSameToolBreakThreshold
VARIABLES detector, turns, warned, stopped
loopsVars == <<detector, turns, warned, stopped>>
Loops == INSTANCE LoopDetection

CONSTANTS AutoKeepRecent, ReactiveKeepRecent, MicroKeepRecent, CollapseKeepRecent,
          MAX_RECOVERY_ATTEMPTS, BatchSizes, Operations, MaxLength, MaxCalls
(* What is kept and called is counted. *)
ASSUME RewritesAssumption ==
  /\ AutoKeepRecent \in Nat /\ ReactiveKeepRecent \in Nat /\ MicroKeepRecent \in Nat
  /\ BatchSizes \subseteq Nat
VARIABLES rewritesMessages, turn, before, op
rewritesVars == <<rewritesMessages, turn, before, op>>
Rewrites == INSTANCE CompactionHistory WITH messages <- rewritesMessages

CONSTANTS Window, CompactBuffer, BlockingBuffer, SizesCollapseKeepRecent, SnipKeepRecent,
          SizesAutoKeepRecent, SizesReactiveKeepRecent, SizesMicroKeepRecent, CompactEvery,
          SummaryChars, TextSizes, ResultSizes, CacheHits, MaxBatch, SizesMaxLength
(* 6, 4 and 10 messages are kept: what is snipped is not newer than what is *)
(* collapsed or summarized. *)
ASSUME SizesAssumption ==
  /\ SizesCollapseKeepRecent \in Nat /\ SnipKeepRecent \in Nat /\ SizesAutoKeepRecent \in Nat
  /\ SizesReactiveKeepRecent \in Nat /\ SizesMicroKeepRecent \in Nat
  /\ SnipKeepRecent <= SizesCollapseKeepRecent /\ SnipKeepRecent < SizesAutoKeepRecent
  /\ TextSizes \subseteq Int /\ ResultSizes \subseteq Int /\ SummaryChars \in Int
VARIABLES sizesMessages, known, knownAt, collapsed, estimate, sizesTurn, sizesPc,
          sizesBefore, shrunk
sizesVars == <<sizesMessages, known, knownAt, collapsed, estimate, sizesTurn, sizesPc,
               sizesBefore, shrunk>>
Sizes == INSTANCE SizeCheck WITH CollapseKeepRecent <- SizesCollapseKeepRecent,
         AutoKeepRecent <- SizesAutoKeepRecent,
         ReactiveKeepRecent <- SizesReactiveKeepRecent,
         MicroKeepRecent <- SizesMicroKeepRecent, MaxLength <- SizesMaxLength,
         messages <- sizesMessages, turn <- sizesTurn, pc <- sizesPc, before <- sizesBefore

CONSTANTS WireBatchSizes, MediaCalls, WireOperations, MaxHistory
(* Calls are counted. *)
ASSUME WireAssumption == WireBatchSizes \subseteq Nat
VARIABLES wireMessages, unanswered, stage, abandoned
wireVars == <<wireMessages, unanswered, stage, abandoned>>
Wire == INSTANCE Requests WITH BatchSizes <- WireBatchSizes, Operations <- WireOperations,
         messages <- wireMessages

CONSTANTS MaxSecond, KeepLast, MaxSaid
(* A row keeps a message, and time passes. *)
ASSUME RowsAssumption == KeepLast \in Nat \ {0} /\ MaxSecond \in Nat \ {0}
VARIABLES rowsPc, clock, rowsSessionId, engineId, rowsMessages, rowsPersisted, transcripts,
          rows, told, rowsSaid
rowsVars == <<rowsPc, clock, rowsSessionId, engineId, rowsMessages, rowsPersisted,
              transcripts, rows, told, rowsSaid>>
Rows == INSTANCE SavedSessions WITH pc <- rowsPc, sessionId <- rowsSessionId,
         messages <- rowsMessages, persisted <- rowsPersisted, said <- rowsSaid

CONSTANTS Names, PartOf, MinMessages, MaxVersion, MemoriesMaxMessages
(* There are finitely many names. *)
ASSUME MemoriesAssumption == IsFiniteSet(Names)
VARIABLES memoriesPc, isLocal, memoriesMessages, memoriesFiles, index, cache, version,
          latest, unindexed, damaged
memoriesVars == <<memoriesPc, isLocal, memoriesMessages, memoriesFiles, index, cache,
                  version, latest, unindexed, damaged>>
Memories == INSTANCE MemoryFiles WITH MaxMessages <- MemoriesMaxMessages, pc <- memoriesPc,
         messages <- memoriesMessages, files <- memoriesFiles

CONSTANTS Conversations, Lanes, NoRecord, Ranges, FileToolsMaxVersion, MaxStamp
VARIABLES fileToolsVersion, stamp, mapped, dedup, state, fileToolsPc, range, copy, moved,
          seen, blind, fault
fileToolsVars == <<fileToolsVersion, stamp, mapped, dedup, state, fileToolsPc, range, copy,
                   moved, seen, blind, fault>>
FileTool == INSTANCE FileTools WITH MaxVersion <- FileToolsMaxVersion,
         version <- fileToolsVersion, pc <- fileToolsPc

CONSTANTS Processes, NoProcess, Providers, MaxToken
VARIABLES loginDisk, token, loginPc, code, port, provider, issued, live, aged, lost
loginVars == <<loginDisk, token, loginPc, code, port, provider, issued, live, aged, lost>>
Login == INSTANCE McpTokens WITH disk <- loginDisk, pc <- loginPc

CONSTANTS Values, BadValues, NoValue, MaxLines
(* Some value can be read, and no value is missing for its quotes. *)
ASSUME SettingsAssumption ==
  NoValue \notin BadValues /\ \E v \in Values : v \notin BadValues
VARIABLES file, wanted, cli, env, used, up
settingsVars == <<file, wanted, cli, env, used, up>>
Settings == INSTANCE Startup

CONSTANTS LicenseProcesses, Stores, MaxActivations, MaxStarts
VARIABLES store, kept, tmp, licenseState, run, read, writes, rewrite, licenseIssued, starts,
          reported, minutes, harmed
licenseVars == <<store, kept, tmp, licenseState, run, read, writes, rewrite, licenseIssued,
                 starts, reported, minutes, harmed>>
Activation == INSTANCE License WITH Processes <- LicenseProcesses, state <- licenseState,
         issued <- licenseIssued

CONSTANTS ExpertsThreads, Experts, Shared, MaxCache, NoOne
(* The cache has a size, and a model finitely many experts. *)
ASSUME StreamerAssumption == MaxCache \in Nat /\ IsFiniteSet(Experts)
VARIABLES location, useMemoryMap, expertsMapped, expertsCache, pinned, lru, size, lock,
          expertsPc, key, initialized
expertsVars == <<location, useMemoryMap, expertsMapped, expertsCache, pinned, lru, size,
                 lock, expertsPc, key, initialized>>
Streamer == INSTANCE ExpertCache WITH Threads <- ExpertsThreads, mapped <- expertsMapped,
         cache <- expertsCache, pc <- expertsPc

CONSTANTS RagThreads, MaxId, MaxChunks, RagNoOne
(* A free lock is held by no thread. *)
ASSUME RagAssumption == RagNoOne \notin RagThreads
VARIABLES documents, nextId, vectors, idMap, trained, ragLock, ragPc, left, found,
          ragInitialized
ragVars == <<documents, nextId, vectors, idMap, trained, ragLock, ragPc, left, found,
             ragInitialized>>
Rag == INSTANCE RagIndex WITH Threads <- RagThreads, NoOne <- RagNoOne, lock <- ragLock,
         pc <- ragPc, initialized <- ragInitialized

CONSTANTS Callers, Contexts, MaxTokens, KeepFront, Reserve, BatchSize, Lengths
(* Lengths are counted. *)
ASSUME ModelAssumption ==
  /\ Contexts \subseteq Nat /\ Lengths \subseteq Nat
  /\ MaxTokens \in Nat /\ KeepFront \in Nat /\ Reserve \in Nat
VARIABLES nCtx, memory, stale, llmPc, input, fed, answered, met
llmVars == <<nCtx, memory, stale, llmPc, input, fed, answered, met>>
Model == INSTANCE LocalModel WITH pc <- llmPc

ToolCall(t, i) == [tool |-> t, input |-> i]
SimilarTexts == {<<"a", "a">>, <<"b", "b">>}
SomeBatches == {<<ToolCall("Read", 1)>>, <<ToolCall("Read", 2)>>,
                <<ToolCall("Read", 1), ToolCall("Grep", 1)>>}
SomeTextCalls == {ToolCall("Read", 1)}
Parts == {<<"project_x", "big_project_x">>}
VARIABLE component   \* the one that runs
allVars == <<vars, offersVars, loopsVars, rewritesVars, sizesVars, wireVars, rowsVars,
             memoriesVars, fileToolsVars, loginVars, settingsVars, licenseVars, expertsVars,
             ragVars, llmVars, component>>

RunsOnly(c) == component = c /\ UNCHANGED component

SideBySideInit ==
  /\ component \in {"sessions", "offers", "loops", "rewrites", "sizes", "wire", "rows",
     "memories", "fileTools", "login", "settings", "license", "experts", "rag", "llm"}
  /\ Init
  /\ Offers!Init
  /\ Loops!Init
  /\ Rewrites!Init
  /\ Sizes!Init
  /\ Wire!Init
  /\ Rows!Init
  /\ Memories!Init
  /\ FileTool!Init
  /\ Login!Init
  /\ Settings!Init
  /\ Activation!Init
  /\ Streamer!Init
  /\ Rag!Init
  /\ Model!Init
  /\ component # "offers" => model = "a"
  /\ component # "fileTools" => fileToolsVersion = 0
  /\ component # "login" => provider = "keeps"
  /\ component # "settings" => file = <<>>
  /\ component # "license" => store = CHOOSE s \in Stores : TRUE
  /\ component # "experts" => location = Experts /\ useMemoryMap
  /\ component # "rag" => trained
  /\ component # "llm" => nCtx = CHOOSE n \in Contexts : TRUE
  /\ component # "sessions" => sessionId = CHOOSE s \in SessionIds : TRUE

SideBySideNext ==
  \/ /\ RunsOnly("sessions") /\ Next
     /\ UNCHANGED <<offersVars, loopsVars, rewritesVars, sizesVars, wireVars, rowsVars,
                     memoriesVars, fileToolsVars, loginVars, settingsVars, licenseVars,
                     expertsVars, ragVars, llmVars>>
  \/ /\ RunsOnly("offers") /\ Offers!Next
     /\ UNCHANGED <<vars, loopsVars, rewritesVars, sizesVars, wireVars, rowsVars,
                     memoriesVars, fileToolsVars, loginVars, settingsVars, licenseVars,
                     expertsVars, ragVars, llmVars>>
  \/ /\ RunsOnly("loops") /\ Loops!Next
     /\ UNCHANGED <<vars, offersVars, rewritesVars, sizesVars, wireVars, rowsVars,
                     memoriesVars, fileToolsVars, loginVars, settingsVars, licenseVars,
                     expertsVars, ragVars, llmVars>>
  \/ /\ RunsOnly("rewrites") /\ Rewrites!Next
     /\ UNCHANGED <<vars, offersVars, loopsVars, sizesVars, wireVars, rowsVars,
                     memoriesVars, fileToolsVars, loginVars, settingsVars, licenseVars,
                     expertsVars, ragVars, llmVars>>
  \/ /\ RunsOnly("sizes") /\ Sizes!Next
     /\ UNCHANGED <<vars, offersVars, loopsVars, rewritesVars, wireVars, rowsVars,
                     memoriesVars, fileToolsVars, loginVars, settingsVars, licenseVars,
                     expertsVars, ragVars, llmVars>>
  \/ /\ RunsOnly("wire") /\ Wire!Next
     /\ UNCHANGED <<vars, offersVars, loopsVars, rewritesVars, sizesVars, rowsVars,
                     memoriesVars, fileToolsVars, loginVars, settingsVars, licenseVars,
                     expertsVars, ragVars, llmVars>>
  \/ /\ RunsOnly("rows") /\ Rows!Next
     /\ UNCHANGED <<vars, offersVars, loopsVars, rewritesVars, sizesVars, wireVars,
                     memoriesVars, fileToolsVars, loginVars, settingsVars, licenseVars,
                     expertsVars, ragVars, llmVars>>
  \/ /\ RunsOnly("memories") /\ Memories!Next
     /\ UNCHANGED <<vars, offersVars, loopsVars, rewritesVars, sizesVars, wireVars,
                     rowsVars, fileToolsVars, loginVars, settingsVars, licenseVars,
                     expertsVars, ragVars, llmVars>>
  \/ /\ RunsOnly("fileTools") /\ FileTool!Next
     /\ UNCHANGED <<vars, offersVars, loopsVars, rewritesVars, sizesVars, wireVars,
                     rowsVars, memoriesVars, loginVars, settingsVars, licenseVars,
                     expertsVars, ragVars, llmVars>>
  \/ /\ RunsOnly("login") /\ Login!Next
     /\ UNCHANGED <<vars, offersVars, loopsVars, rewritesVars, sizesVars, wireVars,
                     rowsVars, memoriesVars, fileToolsVars, settingsVars, licenseVars,
                     expertsVars, ragVars, llmVars>>
  \/ /\ RunsOnly("settings") /\ Settings!Next
     /\ UNCHANGED <<vars, offersVars, loopsVars, rewritesVars, sizesVars, wireVars,
                     rowsVars, memoriesVars, fileToolsVars, loginVars, licenseVars,
                     expertsVars, ragVars, llmVars>>
  \/ /\ RunsOnly("license") /\ Activation!Next
     /\ UNCHANGED <<vars, offersVars, loopsVars, rewritesVars, sizesVars, wireVars,
                     rowsVars, memoriesVars, fileToolsVars, loginVars, settingsVars,
                     expertsVars, ragVars, llmVars>>
  \/ /\ RunsOnly("experts") /\ Streamer!Next
     /\ UNCHANGED <<vars, offersVars, loopsVars, rewritesVars, sizesVars, wireVars,
                     rowsVars, memoriesVars, fileToolsVars, loginVars, settingsVars,
                     licenseVars, ragVars, llmVars>>
  \/ /\ RunsOnly("rag") /\ Rag!Next
     /\ UNCHANGED <<vars, offersVars, loopsVars, rewritesVars, sizesVars, wireVars,
                     rowsVars, memoriesVars, fileToolsVars, loginVars, settingsVars,
                     licenseVars, expertsVars, llmVars>>
  \/ /\ RunsOnly("llm") /\ Model!Next
     /\ UNCHANGED <<vars, offersVars, loopsVars, rewritesVars, sizesVars, wireVars,
                     rowsVars, memoriesVars, fileToolsVars, loginVars, settingsVars,
                     licenseVars, expertsVars, ragVars>>

SideBySide == SideBySideInit /\ [][SideBySideNext]_allVars

(* No tool is withdrawn while the model, the mode and the servers stay.    *)
ToolsStayOffered == Offers!ToolsStayOffered
(* A prompt is stopped when the model repeats itself, and only then.       *)
OnlyRunawaysAreStopped == Loops!OnlyRunawaysAreStopped
(* Rewrites keep one summary, the recent messages, the dialogue and        *)
(* leading orphans only.                                                   *)
RewritesAreSound == Rewrites!RewritesAreSound
(* A row gives back the end of the dialogue it was written from.           *)
RowsRoundTrip == Rows!RowsRoundTrip
(* The index of the memories describes the files there are.                *)
IndexDescribesFiles == Memories!IndexDescribesFiles
(* A conversation overwrites only what it has seen.                        *)
NoBlindWrites == FileTool!NoBlindWrites
(* A login to an MCP server lasts as long as its provider lets it.         *)
LoginIsKept == Login!LoginIsKept
(* What the user saved is what the next start uses.                        *)
SavedIsUsed == Settings!SavedIsUsed
(* An activation that was reported is still stored.                        *)
ReportedIsKept == Activation!ReportedIsKept
(* The cache stays in its bound and every entry can be evicted.            *)
CacheIsBounded == Streamer!CacheIsBounded
(* A vector is answered with the row it was computed from.                 *)
VectorsFindTheirRows == Rag!VectorsFindTheirRows
(* A token is sampled from the prompt and its answer alone.                *)
AnswersComeFromThePrompt == Model!AnswersComeFromThePrompt
(* What is sent of a history has the form the API accepts, and is cut      *)
(* while it is too large.                                                  *)
RequestsAreFit ==
  /\ Sizes!RequestsAreTrimmed
  /\ Wire!RequestIsAccepted
=============================================================================
