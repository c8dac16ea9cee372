----------------------------- MODULE ToolOffers ------------------------------
(***************************************************************************)
(* What a request tells the model: the system prompt, which is written     *)
(* once per engine, and the tools, which are chosen once per prompt from   *)
(* the core tools, those ToolSearch has named in the history, and those of *)
(* the MCP servers.  Plan mode, the model, the servers and the history     *)
(* change under it.  coordinatorMode is set by nobody and left out.        *)
(***************************************************************************)
EXTENDS Naturals, Sequences, FiniteSets

CONSTANTS
  Tools,         \* the registered tools that are enabled and not hidden
  AlwaysLoad,    \* ALWAYS_LOAD
  ReadOnly,      \* those that are isReadOnly
  Deferring,     \* those whose shouldDefer says so; no tool of the code does
  Search,        \* "ToolSearch"
  ServerTools,   \* what MCP servers may bring
  SubTools,      \* the allowedTools of the kinds of sub-agents
  Models,        \* remote models
  MaxPrompts,    \* bound: prompts of an engine
  MaxResults     \* bound: results in a history

Engines == {"main", "sub"}
Local == "local"             \* the model that runs here, and has no tools field
Nothing == "nothing"

VARIABLES
  model,       \* appState.currentModel and the client behind it
  planMode,    \* appState.planMode
  connected,   \* the tools of the MCP servers that are connected
  allowed,     \* allowedTools of an engine; empty: all
  system,      \* cachedSystemPrompt_, once it is written
  offer,       \* modelConfig of a prompt
  results,     \* the results of the history: the tools each one names
  grew,        \* the history has only grown since the last offer
  pc,          \* an engine is gone, idle or awaits the reply to a request
  prompts      \* how many an engine has had

appState == <<model, planMode, connected>>
vars == <<model, planMode, connected, allowed, system, offer, results, grew,
          pc, prompts>>

NoOffer == [tools |-> {}, deferred |-> {}, plan |-> FALSE, model |-> Nothing,
            servers |-> {}]

Init ==
  /\ model \in Models \cup {Local} /\ planMode = FALSE /\ connected = {}
  /\ allowed = [e \in Engines |-> {}]
  /\ system = [e \in Engines |-> <<>>] /\ offer = [e \in Engines |-> NoOffer]
  /\ results = [e \in Engines |-> <<>>] /\ grew = [e \in Engines |-> TRUE]
  /\ pc = [e \in Engines |-> IF e = "main" THEN "idle" ELSE "gone"]
  /\ prompts = [e \in Engines |-> 0]

-----------------------------------------------------------------------------
(* buildSystemPrompt: built by the first prompt and never again, for       *)
(* nobody sets systemPromptDirty_.                                         *)
Usable == {t \in Tools : planMode => t \in ReadOnly}

BuildSystemPrompt(e) ==
  system' = IF system[e] # <<>> THEN system ELSE [system EXCEPT ![e] =
    <<[tools |-> IF model = Local THEN Usable ELSE {}, model |-> model, plan |-> planMode]>>]

(* buildModelConfig.  A sub-agent's tools are named; the others are core   *)
(* or were named by a result, as far as the mode admits them.              *)
Discovered(history) == UNION {history[i] : i \in DOMAIN history}

(* Mutant: only the last result is looked at.                              *)
LastDiscovered(e) == {t \in Usable : results[e] # <<>> /\ t \in results[e][Len(results[e])]}

DiscoveredTools(e) == Usable \cap Discovered(results[e])

BuiltIn(e) ==
  IF allowed[e] # {} THEN allowed[e]
  ELSE (Usable \cap AlwaysLoad) \cup DiscoveredTools(e)

(* The description of ToolSearch names what is left.                       *)
DeferredNames(e) ==
  IF allowed[e] # {} THEN {} ELSE Usable \ (AlwaysLoad \cup Discovered(results[e]))

BuildModelConfig(e) ==
  offer' = [offer EXCEPT ![e] =
    [tools |-> IF model = Local THEN {} ELSE BuiltIn(e) \cup connected,
     deferred |-> IF model = Local THEN {} ELSE DeferredNames(e),
     plan |-> planMode, model |-> model, servers |-> connected]]

(* submitMessage builds both, before its first turn.                       *)
Submit(e) ==
  /\ pc[e] = "idle" /\ prompts[e] < MaxPrompts
  /\ prompts' = [prompts EXCEPT ![e] = @ + 1]
  /\ BuildSystemPrompt(e) /\ BuildModelConfig(e)
  /\ pc' = [pc EXCEPT ![e] = "turn"] /\ grew' = [grew EXCEPT ![e] = TRUE]
  /\ UNCHANGED <<appState, allowed, results>>

-----------------------------------------------------------------------------
(* The reply ends the prompt or calls a tool, and the next request follows *)
(* with what the prompt began with.                                        *)
NextTurn(e) ==
  pc[e] = "turn" /\ UNCHANGED <<allowed, system, offer, grew, pc, prompts>>

Answer(e) ==
  /\ pc[e] = "turn" /\ pc' = [pc EXCEPT ![e] = IF e = "main" THEN "idle" ELSE "gone"]
  /\ UNCHANGED <<appState, allowed, system, offer, results, grew, prompts>>

(* ToolSearch: select takes any registered tool by its name; words are     *)
(* looked for in the tools that defer themselves.                          *)
Discovers(e, found) ==
  /\ Search \in offer[e].tools /\ Len(results[e]) < MaxResults
  /\ results' = [results EXCEPT ![e] = Append(@, found)]

Finds == {{}} \cup {{t} : t \in Tools}
Select(e, names) == NextTurn(e) /\ Discovers(e, names) /\ UNCHANGED appState
Keywords(e, matching) ==
  NextTurn(e) /\ Discovers(e, matching \cap Deferring) /\ UNCHANGED appState

(* EnterPlanMode and ExitPlanMode, which must have been discovered.        *)
SetPlanMode(e, on) ==
  /\ planMode # on /\ offer[e].tools \ AlwaysLoad # {}
  /\ NextTurn(e) /\ planMode' = on
  /\ UNCHANGED <<model, connected, results>>

(* A sub-agent gets an engine of its own, with the tools of its kind.      *)
Spawn(tools) ==
  /\ pc["main"] = "turn" /\ pc["sub"] = "gone"
  /\ pc' = [pc EXCEPT !["sub"] = "idle"]
  /\ allowed' = [allowed EXCEPT !["sub"] = tools]
  /\ system' = [system EXCEPT !["sub"] = <<>>]
  /\ offer' = [offer EXCEPT !["sub"] = NoOffer]
  /\ results' = [results EXCEPT !["sub"] = <<>>]
  /\ prompts' = [prompts EXCEPT !["sub"] = MaxPrompts - 1]
  /\ UNCHANGED <<appState, grew>>

-----------------------------------------------------------------------------
(* What changes between prompts.                                           *)
AtPrompt ==
  pc["main"] = "idle" /\ UNCHANGED <<allowed, system, offer, pc, prompts>>

TogglePlan ==
  /\ AtPrompt /\ planMode' = ~planMode
  /\ UNCHANGED <<model, connected, results, grew>>

ModelCommand(name) ==
  /\ AtPrompt /\ model' = name
  /\ UNCHANGED <<planMode, connected, results, grew>>

(* Compaction, /clear and /rewind keep some of the results.                *)
Rewrite(kept) ==
  /\ AtPrompt /\ kept < Len(results["main"])
  /\ \/ results' = [results EXCEPT !["main"] = SubSeq(@, 1, kept)]
     \/ results' = [results EXCEPT !["main"] = SubSeq(@, Len(@) - kept + 1, Len(@))]
  /\ grew' = [grew EXCEPT !["main"] = FALSE]
  /\ UNCHANGED appState

(* Servers connect, leave and change their lists at any time; a prompt     *)
(* sees it when it begins.                                                 *)
Connect(tools) ==
  /\ AtPrompt /\ connected' = tools
  /\ UNCHANGED <<model, planMode, results, grew>>

Turn(e) ==
  \/ Submit(e) \/ Answer(e)
  \/ \E found \in Finds : Select(e, found) \/ Keywords(e, found)
  \/ \E on \in BOOLEAN : SetPlanMode(e, on)

Next ==
  \/ \E e \in Engines : Turn(e)
  \/ \E tools \in SubTools : Spawn(tools)
  \/ TogglePlan
  \/ \E name \in Models : ModelCommand(name)
  \/ \E kept \in 0..MaxResults : Rewrite(kept)
  \/ \E tools \in SUBSET ServerTools : Connect(tools)

Spec == Init /\ [][Next]_vars

-----------------------------------------------------------------------------
TypeOK ==
  /\ model \in Models \cup {Local} /\ planMode \in BOOLEAN
  /\ connected \subseteq ServerTools
  /\ results \in [Engines -> Seq(SUBSET Tools)]
  /\ pc \in [Engines -> {"gone", "idle", "turn"}]
  /\ prompts \in [Engines -> 0..MaxPrompts]

(* QueryEngine.cpp: the tools array is "cache-stable".  From one prompt to *)
(* the next, while the mode, the servers and the model are the same and    *)
(* the history only grew, no tool is withdrawn; and one that is not        *)
(* offered is named, so that it can be asked for.                          *)
SameWorld(old, new) ==
  /\ {old.model, new.model} \cap {Nothing, Local} = {}
  /\ old.plan = new.plan /\ old.servers = new.servers

Withdrawn(old, new) == SameWorld(old, new) /\ ~(old.tools \subseteq new.tools)
Unreachable(e) ==
  LET o == offer[e]
  IN  /\ o.model \notin {Nothing, Local} /\ allowed[e] = {}
      /\ ~({t \in Tools : o.plan => t \in ReadOnly} \subseteq o.tools \cup o.deferred)

ToolsStayOffered ==
  [][\A e \in Engines : pc'[e] = "turn" =>
       (grew[e] => ~Withdrawn(offer[e], offer'[e])) /\ ~Unreachable(e)']_vars
=============================================================================
