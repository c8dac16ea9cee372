---- MODULE ApiClient ----
(***************************************************************************)
(* One conversation's requests to a model: RemoteAPIClient (Anthropic wire  *)
(* format, ten attempts), OpenAICompatClient (withRetry, one tool call per  *)
(* reply) and LocalLLMClient (the model's text is searched for a call).     *)
(*                                                                         *)
(* A reply is the sequence of tool calls it delivers; what matters of a     *)
(* call is from which attempts its input was put together.  Of the history  *)
(* only the tool results are kept, numbered from the oldest, because they   *)
(* are what a request body may cut down.                                    *)
(***************************************************************************)
EXTENDS Integers, Sequences, FiniteSets, FiniteSetsExt

CONSTANTS
    MaxRetries,         \* attempts of RemoteAPIClient::streamChat (10)
    CompatRetries,      \* retries of withRetry in OpenAICompatClient (3)
    FallbackThreshold,  \* failures in a row before the other model (3)
    KeepRecent,         \* results kept after a gap (5)
    KeepTail,           \* results among the last four messages
    Budget,             \* full results that fit MAX_MESSAGES_SIZE
    MaxResults,         \* bound: results in the conversation
    MaxCalls            \* bound: calls delivered by one streamChat

VARIABLES
    kind,       \* which client the session uses
    pc,         \* "idle", "build", "stream", "backoff" or "again"
    attempt, streak, model, level, strip,   \* locals of streamChat
    open,       \* currentTool*: <<>> or the attempts whose deltas it holds
    given,      \* calls delivered by this streamChat: sets of attempts
    results,    \* tool results in the history
    cleared,    \* clearedToolUseIds_
    wire,       \* what the last body held for each result
    used,       \* lastRequestEpochMs_ # 0
    esc,        \* the engine's interrupted_, read through abortFlag
    afterEsc    \* history variable: attempts begun since Esc

vars == <<kind, pc, attempt, streak, model, level, strip, open, given,
          results, cleared, wire, used, esc, afterEsc>>
local == <<attempt, streak, model, level, strip>>
body == <<cleared, wire, used>>

\* Error classes: what classifyHttpStatus and the message text tell apart.
Failures == [type : {"network", "server", "overloaded", "rate"}, size : BOOLEAN]
            \cup [type : {"auth", "invalid", "toolong", "unknown"}, size : {FALSE}]

Retryable(f) == f.type \in {"network", "server", "overloaded", "rate"}

Init ==
    /\ kind \in {"remote", "compat", "local"}
    /\ pc = "idle"
    /\ attempt = 0 /\ streak = 0 /\ model = "main" /\ level = 0 /\ strip = FALSE
    /\ open = {} /\ given = <<>>
    /\ results = 0 /\ cleared = {} /\ wire = <<>> /\ used = FALSE
    /\ esc = FALSE /\ afterEsc = 0

\* submitMessage enters streamChat with the results of the turns before.
Ask ==
    /\ pc = "idle"
    /\ results < MaxResults
    /\ \E n \in (results + 1)..MaxResults : results' = n
    /\ pc' = "build"
    /\ attempt' = 1 /\ streak' = 0 /\ model' = "main" /\ level' = 0 /\ strip' = FALSE
    /\ open' = {} /\ given' = <<>>
    /\ esc' = FALSE /\ afterEsc' = 0
    /\ UNCHANGED <<kind, body>>

---------------------------------------------------------------------------
\* The request body.

\* The ids frozen after a build: those already frozen, all but the recent
\* ones if the prompt cache has expired, then the oldest until it fits.
Frozen(n, before, gap) ==
    LET aged == IF gap THEN before \cup 1..(n - KeepRecent) ELSE before
        Fits(k) == Cardinality((1..n) \ (aged \cup 1..k)) <= Budget
        limit == IF n > KeepTail THEN n - KeepTail ELSE 0
        need == {k \in 0..limit : Fits(k) \/ k = limit}
    IN  aged \cup 1..Min(need)

NothingFrozen == {}

\* The first pass over the messages re-applies every earlier decision.
AlreadyFrozen == cleared

\* applyRetryCompaction: the tail that a retry leaves alone.
RetryTail(lv) == IF lv >= 2 THEN 1 ELSE KeepTail

\* How each result travels: whole, as its stub, or cut down for a retry.
Wire(n, frozen, lv) ==
    [i \in 1..n |-> IF lv > 0 /\ i <= n - RetryTail(lv) THEN "cut"
                    ELSE IF i \in frozen THEN "stub" ELSE "full"]

KeptOpen == open

\* currentTool* are locals of an attempt in the remote client, and of the whole
\* streamChat in the compatible one.
OpenAtStart == IF kind = "remote" THEN {} ELSE open

\* The remote client builds the body anew for every attempt; the compatible
\* one built it before its first, and the local one has a prompt.
Build ==
    /\ pc = "build"
    /\ pc' = "stream"
    /\ afterEsc' = IF esc THEN afterEsc + 1 ELSE afterEsc
    /\ IF kind = "remote"
       THEN \E gap \in IF used THEN BOOLEAN ELSE {FALSE} :
              /\ cleared' = Frozen(results, AlreadyFrozen, gap)
              /\ wire' = Wire(results, cleared', level)
              /\ used' = TRUE
       ELSE UNCHANGED body
    /\ open' = OpenAtStart
    /\ UNCHANGED <<kind, local, given, results, esc>>

---------------------------------------------------------------------------
\* The stream of one attempt.

\* A piece of a tool call arrives.  The remote client opens a call at its
\* start event; the compatible one keeps one call for the whole streamChat.
Delta ==
    /\ pc = "stream" /\ kind # "local"
    /\ Len(given) < MaxCalls
    /\ open' = open \cup {attempt}
    /\ UNCHANGED <<kind, pc, local, given, results, body, esc, afterEsc>>

\* content_block_stop: the remote client delivers the call it has open.
CallEnds ==
    /\ pc = "stream" /\ kind = "remote"
    /\ open # {}
    /\ given' = Append(given, open)
    /\ open' = {}
    /\ UNCHANGED <<kind, pc, local, results, body, esc, afterEsc>>

\* The stream ends well.  A call still open in the remote client is dropped;
\* "[DONE]" delivers the compatible client's, and the end of generation the one
\* that parseToolCall finds in the local model's text, if there is one.
RemoteDone == kind = "remote" /\ given' = given
CompatDone == kind = "compat" /\ given' = IF open = {} THEN given ELSE Append(given, open)

ParseToolCall == {<<>>, <<{attempt}>>}
LocalDone == kind = "local" /\ \E found \in ParseToolCall : given' = given \o found

StreamEnds ==
    /\ pc = "stream" /\ (RemoteDone \/ CompatDone \/ LocalDone)
    /\ pc' = "idle" /\ open' = {}
    /\ UNCHANGED <<kind, local, results, body, esc, afterEsc>>

NeverAborted == FALSE

\* The abort flag as the catch clause reads it.
Aborted == esc

\* A 400 is put down to the context_management field, once.
BlamesField(f) == f.type = "invalid" /\ ~strip /\ attempt < MaxRetries

\* performCurlSSE throws.  The failure counts are capped where nothing beyond
\* them makes a difference.
RemoteFails(f) ==
    /\ kind = "remote"
    /\ CASE Aborted -> pc' = "idle" /\ UNCHANGED <<streak, model, level, strip>>
         [] ~Aborted /\ BlamesField(f) ->
              pc' = "again" /\ strip' = TRUE /\ UNCHANGED <<streak, model, level>>
         [] ~Aborted /\ ~BlamesField(f) /\ ~Retryable(f) ->
              pc' = "idle" /\ UNCHANGED <<streak, model, level, strip>>
         [] ~Aborted /\ Retryable(f) ->
              /\ LET switch == streak + 1 >= FallbackThreshold /\ model # "fallback"
                 IN  /\ model' = IF switch THEN "fallback" ELSE model
                     /\ streak' = IF switch THEN 0 ELSE Min({streak + 1, FallbackThreshold})
              /\ level' = IF f.size /\ attempt < MaxRetries THEN Min({level + 1, 2}) ELSE level
              /\ pc' = IF attempt < MaxRetries THEN "backoff" ELSE "idle"
              /\ UNCHANGED strip

\* withRetry around performOAICurl; the parser and the open call live outside
\* it, and nothing looks at the abort flag.
CompatFails(f) ==
    /\ kind = "compat"
    /\ pc' = IF Retryable(f) /\ attempt <= CompatRetries THEN "backoff" ELSE "idle"
    /\ UNCHANGED <<streak, model, level, strip>>

\* The transfer fails.  Events of this attempt were delivered only if the
\* connection broke: an HTTP error has no event stream.
Fail ==
    /\ pc = "stream"
    /\ \E f \in Failures :
         /\ f.type # "network" => attempt \notin open \cup UNION {given[i] : i \in DOMAIN given}
         /\ RemoteFails(f) \/ CompatFails(f)
    /\ UNCHANGED <<kind, attempt, open, given, results, body, esc, afterEsc>>

UncountedAttempt == attempt

NextAttempt == attempt + 1

\* The sleep between two attempts is over, or there was none.
Retry ==
    /\ pc \in {"backoff", "again"}
    /\ pc' = "build" /\ attempt' = NextAttempt
    /\ UNCHANGED <<kind, streak, model, level, strip, open, given, results, body, esc, afterEsc>>

\* Esc raises interrupted_, which the transfer's progress callback reads.
Esc ==
    /\ pc # "idle" /\ ~esc
    /\ esc' = TRUE
    /\ UNCHANGED <<kind, pc, local, open, given, results, body, afterEsc>>

Rest == pc = "idle" /\ results = MaxResults /\ UNCHANGED vars

Next == Ask \/ Build \/ Delta \/ CallEnds \/ StreamEnds \/ Fail \/ Retry \/ Esc \/ Rest

Spec == Init /\ [][Next]_vars

\* curl's time-outs end a transfer one way or the other, sleeps end, and the
\* client's own steps are taken; nothing makes the server send a call.
Fairness == WF_vars(Build) /\ WF_vars(StreamEnds \/ Fail) /\ WF_vars(Retry)
FairSpec == Spec /\ Fairness

---------------------------------------------------------------------------
\* A call the remote or local client delivers was put together from the deltas
\* of one attempt: a broken transfer leaves nothing behind for the next one.
CallsAreWhole == kind # "compat" => \A i \in DOMAIN given : Cardinality(given[i]) = 1

\* After Esc the remote client starts at most one more attempt, the one whose
\* sleep or build was under way.
EscEndsTheCall == kind = "remote" => afterEsc <= 1

\* A result once sent as its stub is never sent whole again, so that the prefix
\* the server has cached keeps its bytes.
ClearedStaysCleared ==
    [][\A i \in DOMAIN wire : i \in DOMAIN wire' /\ wire[i] = "stub" => wire'[i] # "full"]_vars

\* Every call of streamChat ends, whatever the server answers.
EveryCallEnds == pc # "idle" ~> pc = "idle"
====
