------------------------------ MODULE ToolGate ------------------------------
(***************************************************************************)
(* The tool round of the agent loop: the calls of one answer of the model  *)
(* pass the tool policy (agent/tool-execution/policy.ts, permission.ts,    *)
(* tool-risk.ts), run between the hooks (hooks/) - all at once when they   *)
(* only read, one after the other when not - and each is given an answer   *)
(* (agent/loop.ts, round/pre-loop.ts).                                     *)
(*                                                                         *)
(* A call is a tool, the files it names and what its parameters match: a   *)
(* global deny rule, one of the safety policies, or nothing.  What a tool  *)
(* writes is which files exist.                                            *)
(***************************************************************************)
EXTENDS Naturals, Sequences, FiniteSets

CONSTANTS
  Paths,        \* files the calls name
  Tools,        \* of each tool what its descriptor says
  Batches,      \* the calls one answer of the model holds
  GateSets,     \* the gates that may be closed in a round
  Forbidden,    \* tools the mode contract does not allow
  RuleSets,     \* what permissions.json of the user and of the project may say
  RateCap,      \* RATE_CAPS; a category it does not name has none
  MaxToolRounds

ToolCalls ==
  [tool : DOMAIN Tools, files : SUBSET Paths,
   matches : {"nothing", "global deny", "safety policy"}]

ASSUME ToolGateAssumption ==
  /\ MaxToolRounds \in Nat /\ \A c \in DOMAIN RateCap : RateCap[c] \in Nat
  /\ Batches \subseteq Seq(ToolCalls)

VARIABLES
  mode,      \* permission mode: "full" or "strict"
  rules,     \* the rules of both configurations
  toolRound,
  phase,     \* "asked" while the model is asked for its calls, "calls" while they run
  closed,    \* gates closed in this round
  batch,     \* the calls of this round
  at,        \* the call the loop is at
  ruling,    \* of each call what the preview ruled, when there was one
  parallel,  \* the calls run at once
  used,      \* calls counted in this round, by category
  fate,      \* of each call what became of it
  late,      \* calls that were given up and still run
  present,   \* files that exist
  readFiles, \* files the write guard knows as read
  seen,      \* files whose content was answered to the model
  searchDown \* webSearchFailedThisTurn

gateVars == <<mode, rules, toolRound, phase, closed, batch, at, ruling, parallel, used, fate, late,
              present, readFiles, seen, searchDown>>

Categories == {"safe", "file", "network", "shell", "git"}
Indices == DOMAIN batch
Fates == {"waiting", "running", "ok", "failed", "timed out", "refused"}
NoneUsed == [c \in Categories |-> 0]

ToolGateTypeOK ==
  /\ mode \in {"full", "strict"} /\ rules \in RuleSets /\ toolRound \in 0..MaxToolRounds
  /\ phase \in {"asked", "calls"} /\ batch \in Batches \cup {<<>>} /\ at \in 1..Len(batch) + 1
  /\ ruling \in [Indices -> {"allowed", "blocked", "open"}] /\ parallel \in BOOLEAN
  /\ used \in [Categories -> Nat] /\ fate \in [Indices -> Fates]
  /\ late \subseteq ToolCalls
  /\ present \subseteq Paths /\ readFiles \subseteq Paths /\ seen \subseteq Paths

ToolGateInit ==
  /\ mode \in {"full", "strict"} /\ rules \in RuleSets /\ toolRound = 0
  /\ phase = "calls" /\ closed = {} /\ batch = <<>> /\ at = 1 /\ ruling = <<>> /\ parallel = FALSE /\ used = NoneUsed
  /\ fate = <<>> /\ late = {} /\ present \in SUBSET Paths /\ readFiles = {} /\ seen = {}
  /\ searchDown = FALSE

-----------------------------------------------------------------------------
(* The policy                                                              *)

Category(c) == Tools[c.tool].category
Readonly(c) == Tools[c.tool].readonly
Risk(c) == IF c.matches = "global deny" THEN 5 ELSE Tools[c.tool].risk
HighRisk(c) == Risk(c) >= 4
Named(c, side) == c.tool \in rules[side]

CategoryDefault(category) == IF category \in {"safe", "git"} THEN "allow" ELSE "ask"

Default(c) ==
  IF Tools[c.tool].declared # "none" THEN Tools[c.tool].declared
  ELSE CategoryDefault(Category(c))

\* Mutant: what the project allows is allowed before the user's rules are read.
ProjectFirst(c) ==
  IF c.matches = "global deny" THEN "deny"
  ELSE IF Named(c, "projectAllow") THEN "allow"
  ELSE IF Named(c, "userDeny") \/ Named(c, "projectDeny") THEN "deny"
  ELSE IF Named(c, "userAllow") THEN "allow" ELSE Default(c)

\* PermissionGate.check; nothing in the program sets a session override.
Permission(c) ==
  IF c.matches = "global deny" \/ Named(c, "userDeny") \/ Named(c, "projectDeny") THEN "deny"
  ELSE IF Named(c, "projectAllow") \/ Named(c, "userAllow") THEN "allow" ELSE Default(c)

\* An "ask" is promoted in full mode; nothing asks the user.
PermissionBlocks(c) == Permission(c) = "deny" \/ (Permission(c) = "ask" /\ mode = "strict")

\* In full mode the risk has the last word.
RiskHeld(c) == HighRisk(c) /\ mode = "full"

OverCap(c, count) == Category(c) \in DOMAIN RateCap /\ count[Category(c)] >= RateCap[Category(c)]

\* evaluateToolPolicy: what refuses a call.
PolicyBlocks(c, count) ==
  \/ OverCap(c, count)
  \/ PermissionBlocks(c)
  \/ ~Readonly(c) /\ closed \cap {"readonly", "ripple", "planning", "readiness"} # {}
  \/ c.tool = "web_search" /\ searchDown
  \/ "mode contract" \in closed /\ c.tool \in Forbidden
  \/ RiskHeld(c)

\* Whatever becomes of a call, it counts.
Taken(c) == [used EXCEPT ![Category(c)] = @ + 1]

-----------------------------------------------------------------------------
(* The hooks                                                               *)

Edits == {"edit_file", "edit_fim", "multi_edit"}

\* The files an edit must have read: those it overwrites.
WritePaths(c) ==
  IF c.tool = "write_file" THEN c.files \cap present
  ELSE IF c.tool \in Edits THEN c.files ELSE {}

\* runBefore: the first hook that blocks ends the chain - the safety policies, then the
\* write guard.
HooksBlock(c) == c.matches = "safety policy" \/ ~(WritePaths(c) \subseteq readFiles)

\* Mutant: a read that failed is recorded as well.
RecordsAnyRead(c, ok) == IF c.tool = "read_file" THEN readFiles \cup c.files ELSE readFiles

\* writeGuardAfter
ReadRecorded(c, ok) ==
  IF c.tool = "read_file" /\ ok THEN readFiles \cup c.files ELSE readFiles

\* The journal guard looks at what was written when it has been written.
Vetoable(c) == c.tool \in {"write_file", "edit_file", "edit_fim", "shell"}

\* What a tool leaves behind: a shell command may create and delete, whether it succeeds
\* or not; a file tool that succeeds creates what it writes.
Effects(c, ok) ==
  IF Category(c) = "shell" THEN SUBSET Paths
  ELSE IF ok /\ ~Readonly(c) THEN {present \cup c.files} ELSE {present}

-----------------------------------------------------------------------------
(* The round                                                               *)

\* Mutant: one call that only reads is enough.
SomeRead(b) == Len(b) > 1 /\ \E i \in DOMAIN b : Readonly(b[i])

AllRead(b) ==
  /\ Len(b) > 1
  /\ \A i \in DOMAIN b : /\ Readonly(b[i]) /\ b[i].tool # "web_search"
                         /\ ~Tools[b[i].tool].streams /\ Tools[b[i].tool].concurrent

\* previewRateLimits when the call is ruled on: every call before it counts.
PreviewUsed(b, i) ==
  [c \in Categories |-> Cardinality({j \in 1..i - 1 : Category(b[j]) = c})]

\* The gates are evaluated, then the model is asked.
PreRound ==
  /\ phase = "calls" /\ at > Len(batch) /\ toolRound < MaxToolRounds
  /\ toolRound' = toolRound + 1 /\ phase' = "asked"
  /\ closed' \in GateSets
  /\ UNCHANGED <<mode, rules, batch, at, ruling, parallel, used, fate, late, present,
                 readFiles, seen, searchDown>>

\* Its calls.  When all of them only read, all are ruled on first, and if all may run they
\* run at once.
Answered(b) ==
  LET candidate == "planning" \notin closed /\ AllRead(b)
      allowed(i) == ~PolicyBlocks(b[i], PreviewUsed(b, i))
      atOnce == candidate /\ \A i \in DOMAIN b : allowed(i)
  IN /\ phase = "asked"
     /\ phase' = "calls" /\ batch' = b /\ at' = 1 /\ used' = NoneUsed /\ parallel' = atOnce
     /\ ruling' = [i \in DOMAIN b |->
          IF ~candidate THEN "open" ELSE IF allowed(i) THEN "allowed" ELSE "blocked"]
     /\ fate' = [i \in DOMAIN b |->
          IF ~atOnce THEN "waiting" ELSE IF HooksBlock(b[i]) THEN "refused" ELSE "running"]
     /\ UNCHANGED <<mode, rules, toolRound, closed, late, present, readFiles, seen, searchDown>>

Awaited == {i \in Indices : fate[i] = "running"}
Here == batch[at]
Ruled == IF ruling[at] = "open" THEN PolicyBlocks(Here, used) ELSE ruling[at] = "blocked"

Waiting == phase = "calls" /\ at <= Len(batch) /\ fate[at] = "waiting"
PlanOnly == "planning" \in closed /\ toolRound > 1

\* What the for-loop does before a call runs.  A refusal by rate or by permission is
\* answered and not shown, so a web search refused that way does not count as failed.
StartCall ==
  LET refused == PlanOnly \/ Ruled \/ HooksBlock(Here)
      unshown == PlanOnly \/ OverCap(Here, used) \/ PermissionBlocks(Here)
  IN /\ Waiting
     /\ used' = IF PlanOnly THEN used ELSE Taken(Here)
     /\ fate' = [fate EXCEPT ![at] = IF refused THEN "refused" ELSE "running"]
     /\ at' = IF refused THEN at + 1 ELSE at
     /\ searchDown' = (searchDown \/ (refused /\ Here.tool = "web_search" /\ ~unshown))
     /\ UNCHANGED <<mode, rules, toolRound, phase, closed, batch, ruling, parallel, late,
                    present, readFiles, seen>>

\* A tool returns, and the hooks after it run.
Return(i, ok, vetoed) ==
  /\ i \in Awaited
  /\ vetoed => ok /\ Vetoable(batch[i])
  /\ fate' = [fate EXCEPT ![i] = IF ok /\ ~vetoed THEN "ok" ELSE "failed"]
  /\ readFiles' = ReadRecorded(batch[i], ok)
  /\ present' \in Effects(batch[i], ok)
  /\ UNCHANGED <<mode, rules, toolRound, phase, closed, batch, at, ruling, parallel, used,
                 late, seen, searchDown>>

\* Mutant: nothing ends a tool that streams.
OnlyPlainTools(c) == ~Tools[c.tool].streams

\* withToolTimeout for the others, the timer of shellStream for a shell command.
HasTimer(c) == TRUE

\* A call is given up; what it started goes on.
GiveUpCall(i) ==
  /\ i \in Awaited /\ HasTimer(batch[i])
  /\ fate' = [fate EXCEPT ![i] = "timed out"]
  /\ late' = late \cup {batch[i]}
  /\ UNCHANGED <<mode, rules, toolRound, phase, closed, batch, at, ruling, parallel, used,
                 present, readFiles, seen, searchDown>>

\* A call that was given up ends after all, with nobody to see it.
LateEnd(c, ok) ==
  /\ c \in late
  /\ late' = late \ {c}
  /\ present' \in Effects(c, ok)
  /\ UNCHANGED <<mode, rules, toolRound, phase, closed, batch, at, ruling, parallel, used, fate,
                 readFiles, seen, searchDown>>

\* The answer to the call the loop is at; those that ran at once are answered when all have
\* ended.
Collect ==
  /\ phase = "calls" /\ at <= Len(batch) /\ Awaited = {} /\ fate[at] # "waiting"
  /\ at' = at + 1
  /\ used' = IF parallel THEN Taken(Here) ELSE used
  /\ seen' = IF fate[at] = "ok" /\ Here.tool = "read_file" THEN seen \cup Here.files ELSE seen
  /\ searchDown' = (searchDown \/ (Here.tool = "web_search" /\ fate[at] # "ok"))
  /\ UNCHANGED <<mode, rules, toolRound, phase, closed, batch, ruling, parallel, fate, late,
                 present, readFiles>>

ToolGateNext ==
  \/ PreRound \/ StartCall \/ Collect
  \/ \E b \in Batches : Answered(b)
  \/ \E i \in Indices : GiveUpCall(i) \/ \E ok, vetoed \in BOOLEAN : Return(i, ok, vetoed)
  \/ \E c \in late, ok \in BOOLEAN : LateEnd(c, ok)

\* The loop goes on and timers run out; a tool may never return.
ToolGateFairness ==
  /\ WF_gateVars(StartCall) /\ WF_gateVars(Collect)
  /\ WF_gateVars(\E i \in Indices : GiveUpCall(i))

-----------------------------------------------------------------------------
Ran == {i \in Indices : fate[i] \notin {"waiting", "refused"}}

\* A call that changes something is awaited alone: no other awaited call sees it half done.
WritesAlone ==
  \A i \in Awaited : ~Readonly(batch[i]) => Awaited = {i}

\* What runs, runs by right: no call a deny rule of either configuration names, whatever an
\* allow rule says, in full mode no call of high risk, and no edit of a file whose content
\* was not answered to the model before.
RunsByRight ==
  /\ \A i \in Ran : /\ ~Named(batch[i], "userDeny") /\ ~Named(batch[i], "projectDeny")
                    /\ batch[i].matches # "global deny" /\ ~(mode = "full" /\ HighRisk(batch[i]))
  /\ \A i \in Awaited : batch[i].tool \in Edits => batch[i].files \subseteq seen

\* Every round comes to its end: each call is refused, returns or is given up.
RoundsEnd == (phase = "calls" /\ at <= Len(batch)) ~> (at > Len(batch))
=============================================================================
