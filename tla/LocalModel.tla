----------------------------- MODULE LocalModel -----------------------------
(***************************************************************************)
(* LLMEngine::generateRaw, the streaming one that LocalLLMClient calls: it *)
(* clears the memory of the one llama context, cuts the prompt to what the *)
(* context leaves beside the answer, prefills it batch by batch, and then  *)
(* samples and decodes one token at a time.  Nothing locks the context;    *)
(* its callers are the engine, its sub-agents and the router's workers,    *)
(* each on a thread of its own.  Their decodes are interleaved here; what  *)
(* llama.cpp makes of two at one instant is beyond the model, and no       *)
(* property speaks of a call that another one met.  Lengths are counted in *)
(* tokens.                                                                 *)
(***************************************************************************)
EXTENDS Integers, FiniteSetsExt

CONSTANTS
  Callers,
  Contexts,    \* the context sizes: by the size of the model 32K, 64K, 128K
  MaxTokens,   \* of an answer; the engine asks for 64000
  KeepFront,   \* tokens kept of the prompt's start, 200 in the code
  Reserve,     \* tokens left free, 4 in the code
  BatchSize,   \* 2048 in the code
  Lengths      \* the lengths of prompts

VARIABLES
  nCtx,
  memory,    \* of each caller the tokens of its current call in the context
  stale,     \* tokens of finished calls
  pc,        \* "idle", "prefill", "decode"
  input,     \* the length of the prompt as it was cut
  fed,       \* of it, or of it and the answer, the tokens decoded
  answered,  \* how the last call ended: "none", "done", "empty", "threw"
  met        \* a ghost: another call used the context while this one did

modelVars == <<nCtx, memory, stale, pc, input, fed, answered, met>>

Init ==
  /\ nCtx \in Contexts
  /\ memory = [c \in Callers |-> 0] /\ stale = 0
  /\ pc = [c \in Callers |-> "idle"] /\ input = [c \in Callers |-> 0]
  /\ fed = [c \in Callers |-> 0] /\ answered = [c \in Callers |-> "none"]
  /\ met = [c \in Callers |-> FALSE]

-----------------------------------------------------------------------------
Room == nCtx - MaxTokens - Reserve
KeepBack == nCtx - KeepFront - MaxTokens - Reserve

(* The cut prompt; resize to a negative length throws.                     *)
CutLength(n) ==
  IF n <= Room THEN n
  ELSE IF KeepBack > 0 /\ n > KeepFront + KeepBack THEN KeepFront + KeepBack
  ELSE Room

(* Without room for the answer.                                            *)
CutToContext(n) == IF n > nCtx THEN nCtx ELSE n

Truncated(n) == CutLength(n)

(* llama_memory_clear.                                                     *)
Cleared == memory' = [c \in Callers |-> 0] /\ stale' = 0

(* Without it the context goes on from the last call.                      *)
NotCleared == UNCHANGED <<memory, stale>>

ClearMemory == Cleared

(* The call c takes the context, whoever else is using it.                 *)
Meets(c) ==
  met' = [d \in Callers |-> IF d = c THEN \E e \in Callers \ {c} : pc[e] # "idle"
                            ELSE met[d] \/ pc[d] # "idle"]

GenerateRaw(c, n) ==
  /\ pc[c] = "idle" /\ n > 0
  /\ ClearMemory
  /\ Meets(c)
  /\ IF Truncated(n) < 0
     THEN /\ answered' = [answered EXCEPT ![c] = "threw"]
          /\ UNCHANGED <<pc, input, fed>>
     ELSE /\ pc' = [pc EXCEPT ![c] = "prefill"]
          /\ input' = [input EXCEPT ![c] = Truncated(n)]
          /\ fed' = [fed EXCEPT ![c] = 0]
          /\ UNCHANGED answered
  /\ UNCHANGED nCtx

(* A prompt that gives no tokens is reported complete.                     *)
NothingToFeed(c) ==
  /\ pc[c] = "idle"
  /\ answered' = [answered EXCEPT ![c] = "empty"]
  /\ UNCHANGED <<nCtx, memory, stale, pc, input, fed, met>>

Ends(c, how) ==
  /\ pc' = [pc EXCEPT ![c] = "idle"]
  /\ answered' = [answered EXCEPT ![c] = how]
  /\ memory' = [memory EXCEPT ![c] = 0] /\ stale' = stale + memory[c]
  /\ UNCHANGED <<nCtx, input, fed, met>>

(* llama_decode takes n more tokens if the context has room for them.      *)
Used == stale + MapThenSumSet(LAMBDA c : memory[c], Callers)

Decodes(c, n) ==
  /\ Used + n <= nCtx
  /\ memory' = [memory EXCEPT ![c] = @ + n]
  /\ fed' = [fed EXCEPT ![c] = @ + n]

Prefill(c) ==
  /\ pc[c] = "prefill" /\ fed[c] < input[c]
  /\ Decodes(c, Min({BatchSize, input[c] - fed[c]}))
  /\ UNCHANGED <<nCtx, stale, pc, input, answered, met>>

Prefilled(c) ==
  /\ pc[c] = "prefill" /\ fed[c] = input[c]
  /\ pc' = [pc EXCEPT ![c] = "decode"]
  /\ UNCHANGED <<nCtx, memory, stale, input, fed, answered, met>>

(* A failed llama_decode is logged: the caller sees an answer, empty if it *)
(* failed in the prompt.                                                   *)
DecodeFails(c) ==
  \/ pc[c] = "prefill" /\ fed[c] < input[c] /\ Ends(c, "empty")
  \/ pc[c] = "decode" /\ fed[c] - input[c] < MaxTokens /\ Ends(c, "done")

Token(c) ==
  /\ pc[c] = "decode" /\ fed[c] - input[c] < MaxTokens
  /\ Decodes(c, 1)
  /\ UNCHANGED <<nCtx, stale, pc, input, answered, met>>

(* The end-of-sequence token, or maxTokens of them.                        *)
Complete(c) == pc[c] = "decode" /\ Ends(c, "done")

Next ==
  \E c \in Callers :
    \/ \E n \in Lengths : GenerateRaw(c, n)
    \/ NothingToFeed(c)
    \/ Prefill(c) \/ Prefilled(c) \/ DecodeFails(c) \/ Token(c) \/ Complete(c)

Spec == Init /\ [][Next]_modelVars

-----------------------------------------------------------------------------
(* Whatever the calls before it left in the context, and however they      *)
(* ended, a call that no other one meets samples each token from its own   *)
(* prompt and answer and nothing else, and the rest of the answer has its  *)
(* place (generateTokensStreaming, LLMEngine.cpp:222).  Excepted: a prompt *)
(* cut to no tokens, whose first token is sampled from what the last call  *)
(* left; calls that meet, which the code lets clear and fill each other's  *)
(* memory.                                                                 *)
AnswersComeFromThePrompt ==
  \A c \in Callers :
    pc[c] = "decode" /\ input[c] > 0 /\ ~met[c] =>
      /\ memory[c] = fed[c] /\ stale = 0
      /\ \A d \in Callers \ {c} : memory[d] = 0
      /\ input[c] + MaxTokens <= nCtx
=============================================================================
