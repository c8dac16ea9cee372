---- MODULE Permissions ----
(***************************************************************************)
(* PermissionEngine as processToolUse uses it: a call is checked, perhaps   *)
(* asked about, and runs or counts as a denial of its tool.  The rules and  *)
(* the mode come from the settings file and go back to it when the program  *)
(* ends in order; nothing adds a rule in between.  The engines of          *)
(* sub-agents, of the router and of the coordinator share the rules, and   *)
(* their callbacks approve whatever they are asked.                        *)
(*                                                                         *)
(* An action stands for the calls the same rules match; which patterns      *)
(* match it is a set, for glob matching on text is not what is asked here.  *)
(***************************************************************************)
EXTENDS Integers, FiniteSets

CONSTANTS
    Tools,          \* tool names; each has the actions below
    MaxDenials,     \* denials that make check ask: 3
    MaxStarts       \* bound: times the program is started

\* What check looks at: whether the tool is read-only or destructive, and
\* whether the command removes a protected path.
Actions == [tool : Tools, kind : {"read", "write", "destroy", "protected"}]

Modes == {"default", "auto", "bypass"}

VARIABLES
    mode, allow, deny,      \* mode_ and the actions some rule of each list matches
    saved,                  \* the settings file
    denials,                \* denialCounts_, up to MaxDenials
    allowAll,               \* autoApproveSession of the input loop
    asking,                 \* the call the user is asked about, in a set
    ran,                    \* history: the call that ran last, and why, in a set
    starts, up              \* times started; the program runs

vars == <<mode, allow, deny, saved, denials, allowAll, asking, ran, starts, up>>
rules == <<mode, allow, deny>>

Init ==
    /\ \E a, d \in Actions :
         saved \in [mode : Modes, allow : {{}, {a}}, deny : {{}, {d}}]
    /\ mode = saved.mode /\ allow = saved.allow /\ deny = saved.deny
    /\ denials = [t \in Tools |-> 0]
    /\ allowAll = FALSE /\ asking = {} /\ ran = {}
    /\ starts = 1 /\ up = TRUE

AllowRulesFirst(a) ==
    IF a \in allow THEN "allow" ELSE IF a \in deny THEN "deny" ELSE "none"

\* matchRules: a deny rule beats an allow rule.
MatchRules(a) ==
    IF a \in deny THEN "deny" ELSE IF a \in allow THEN "allow" ELSE "none"

\* check: a protected removal is always asked about, bypass allows the rest, a
\* tool denied often enough is asked about whatever the rules say.
Check(a) ==
    CASE a.kind = "protected" -> "ask"
      [] a.kind # "protected" /\ mode = "bypass" -> "allow"
      [] OTHER ->
           IF denials[a.tool] >= MaxDenials THEN "ask"
           ELSE IF MatchRules(a) # "none" THEN MatchRules(a)
           ELSE IF a.kind = "read" THEN "allow"
           ELSE IF mode = "auto" /\ a.kind # "destroy" THEN "allow" ELSE "ask"

Run(a, why) == ran' = {[action |-> a, why |-> why]}
Denied(a) == denials' = [denials EXCEPT ![a.tool] = IF @ < MaxDenials THEN @ + 1 ELSE @]

\* A call of the user's conversation; only one is checked at a time.
Call(a) ==
    /\ up /\ asking = {}
    /\ \/ /\ Check(a) = "allow"
          /\ Run(a, mode) /\ UNCHANGED <<denials, asking>>
       \/ /\ Check(a) = "deny"
          /\ Denied(a) /\ UNCHANGED <<ran, asking>>
       \/ /\ Check(a) = "ask"
          /\ IF allowAll THEN Run(a, "all") /\ UNCHANGED asking
                         ELSE asking' = {a} /\ UNCHANGED ran
          /\ UNCHANGED denials
    /\ UNCHANGED <<rules, saved, allowAll, starts, up>>

\* A call of an engine without a user: its callback approves whatever is asked.
AgentCall(a) ==
    /\ up
    /\ IF Check(a) = "deny" THEN Denied(a) /\ UNCHANGED ran
       ELSE Run(a, IF Check(a) = "ask" THEN "agent" ELSE mode) /\ UNCHANGED denials
    /\ UNCHANGED <<rules, saved, allowAll, asking, starts, up>>

\* "Allow", "Deny" (or a text of the user's own), or "Allow All".
Answer ==
    /\ \E a \in asking :
         \/ Run(a, "user") /\ UNCHANGED <<denials, allowAll>>
         \/ Run(a, "all") /\ allowAll' = TRUE /\ UNCHANGED denials
         \/ Denied(a) /\ UNCHANGED <<ran, allowAll>>
    /\ asking' = {}
    /\ UNCHANGED <<rules, saved, starts, up>>

\* /permissions; the input loop takes commands between two prompts.
SetMode ==
    /\ up /\ asking = {}
    /\ \E m \in Modes \ {mode} : mode' = m
    /\ UNCHANGED <<allow, deny, saved, denials, allowAll, asking, ran, starts, up>>

\* main() returns and saves the rules, or the process is ended and does not.
Exit ==
    /\ up /\ asking = {}
    /\ saved' \in {saved, [mode |-> mode, allow |-> allow, deny |-> deny]}
    /\ up' = FALSE /\ ran' = {}
    /\ UNCHANGED <<rules, denials, allowAll, asking, starts>>

Start ==
    /\ ~up /\ starts < MaxStarts
    /\ mode' = saved.mode /\ allow' = saved.allow /\ deny' = saved.deny
    /\ denials' = [t \in Tools |-> 0]
    /\ allowAll' = FALSE
    /\ starts' = starts + 1 /\ up' = TRUE
    /\ UNCHANGED <<saved, asking, ran>>

Next == (\E a \in Actions : Call(a) \/ AgentCall(a)) \/ Answer \/ SetMode \/ Exit \/ Start

Spec == Init /\ [][Next]_vars

---------------------------------------------------------------------------
\* Who can approve a call that check asks about: the user, the Allow All he gave
\* before, or the callback of an engine without a user.
Approvals == {"user", "all", "agent"}

\* No rule and no mode lets a protected removal run, not even bypass, nor outside
\* bypass a call that a deny rule matches: each takes one of the approvals, and
\* the latter only after its tool has been denied often enough for check to ask
\* (PermissionEngine::check; denials of the user's calls and of the agents' count
\* together).  Sub-agents approve without a question, which the comment at
\* PermissionEngine.cpp:99, "never auto-approved", does not say; the user's own
\* calls go unasked only while his Allow All lasts, which is until the program ends.
DeniedCallsWait ==
    \A r \in ran :
        /\ r.action.kind = "protected" => r.why \in Approvals
        /\ r.action \in deny /\ r.action.kind # "protected" /\ r.why # "bypass" =>
               r.why \in Approvals /\ denials[r.action.tool] = MaxDenials
        /\ r.why = "all" => allowAll
====
