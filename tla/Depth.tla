--------------------------------- MODULE Depth ---------------------------------
(***************************************************************************)
(* What the loop keeps beside the work of a run: the state machine and its *)
(* contracts (agent/state-machine.ts, agent/contracts.ts), how deep the    *)
(* next round thinks (agent/router.ts), and the counts of what the gates   *)
(* let through, kept in a file over runs (agent/gates/telemetry.ts).       *)
(*                                                                         *)
(* A round either ends in a text, which the gates may hold, or runs tools; *)
(* only then the state of the run is brought up to date.                   *)
(***************************************************************************)
EXTENDS Naturals, Sequences, FiniteSets, FiniteSetsExt

CONSTANTS
  Asks,        \* prompts: intent and the score of their words
  Efforts,     \* options.thinkEffort: "none", "high", "max"
  RoundTools,  \* sets of tools that one round may run
  RoundsLimit, \* the loop's maxRounds
  SafetyLimit, \* 50: rounds after which a contract is fatal
  ErrorLimit,  \* 3: errors in a row that force the deepest thinking
  FilesLimit,  \* 5: files changed that force it
  MaxDepthRuns, \* bound on the runs
  GateNames    \* gates whose outcomes are counted

ASSUME DepthAssumption ==
  /\ {RoundsLimit, SafetyLimit, ErrorLimit, FilesLimit, MaxDepthRuns} \subseteq Nat
  /\ \A a \in Asks : a.score \in Nat
  /\ "torn" \notin GateNames

VARIABLES
  ask, effort,
  machine,     \* sm.ctx.state
  roundNo,     \* the loop's round
  seenRounds,  \* state.roundNum: rounds with tools
  lastTools, lastFiles, lastFailed, lastFim, \* state.priorTools, ...
  inARow,      \* consecutiveErrors
  failures,    \* taskToolErrors
  touched,     \* taskModifiedFiles
  wanted,      \* requestedMaxThinking
  thinks,      \* the decision for this round
  stage,        \* "decide", "work", "over"
  wished,      \* deeper thinking was asked for in the last round
  hits,        \* GateTelemetry of the run
  hitsFile,    \* .wolf/gate-telemetry.json: counts, or Torn
  counted,     \* all outcomes of runs that wrote their counts
  here,        \* the outcomes of this run
  depthRuns

memo  == <<machine, seenRounds, lastTools, lastFiles, lastFailed, lastFim>>
sums  == <<inARow, failures, touched, wanted, wished>>
tally == <<hitsFile, counted, depthRuns>>
depthVars == <<ask, effort, memo, roundNo, sums, thinks, stage, hits, here, tally>>

(***************************************************************************)
(* The state machine.                                                      *)
(***************************************************************************)
AllowedTransitions ==
  [idle |-> {"understand"},
   understand |-> {"search", "plan", "code", "blocked"},
   search |-> {"search", "plan", "code", "understand", "blocked"},
   plan |-> {"code", "search", "blocked"},
   code |-> {"verify", "code", "search", "blocked"},
   verify |-> {"done", "repair", "blocked"},
   repair |-> {"code", "search", "blocked"},
   done |-> {}, blocked |-> {}]

SearchTools == {"read_file", "web_search", "find_symbol"}
WriteTools  == {"write_file", "edit_file", "edit_fim"} \* not multi_edit
VerifyTools == {"shell", "typescript"}                 \* the tool is called "typecheck"

\* Mutant: a verification that passed ends the work, whether a round is left or not.
DoneWhenVerified(tools, failed, last) ==
  IF last \/ (machine = "verify" /\ ~failed) THEN "done"
  ELSE IF tools \cap VerifyTools # {} THEN "verify"
  ELSE IF tools \cap WriteTools # {} THEN "code" ELSE machine

\* updateStateMachine: where the round wants to go, the first condition that holds.
Aim(tools, failed, last) ==
  IF last THEN "done"
  ELSE IF failed /\ machine # "repair" THEN "repair"
  ELSE IF tools \cap VerifyTools # {} /\ machine \in {"code", "repair"} THEN "verify"
  ELSE IF tools \cap WriteTools # {} /\ machine \notin {"code", "verify", "repair"} THEN "code"
  ELSE IF tools \cap SearchTools # {} /\ machine \in {"understand", "search"} THEN "search"
  ELSE machine

\* transition throws on what is not allowed; the update swallows it and stays.
Moved(tools, failed, last) ==
  LET to == Aim(tools, failed, last)
  IN IF to \in AllowedTransitions[machine] THEN to ELSE machine

(***************************************************************************)
(* The contracts, as the quality gate asks them.                           *)
(***************************************************************************)
\* buildAgentContractContext: a state is made up for the contracts; the machine is not asked.
ContractState ==
  IF failures > 0 THEN "repair"
  ELSE IF touched > 0 \/ lastTools \cap (WriteTools \cup {"multi_edit"}) # {} THEN "verify"
  ELSE "done"

\* validateContracts for DONE, which has no precondition: the two invariants and the
\* postcondition of the state.
Violations ==
  (IF roundNo > SafetyLimit THEN {"rounds"} ELSE {})
  \cup (IF failures >= 3 /\ ContractState \notin {"repair", "blocked"} THEN {"drifting"} ELSE {})
  \cup (IF ContractState = "verify" /\ failures > 0 THEN {"errors"} ELSE {})
FatalViolations == Violations \cap {"rounds"}

(***************************************************************************)
(* The router.                                                             *)
(***************************************************************************)
\* READONLY_TOOLS
Readonly == {"read_file", "find_symbol", "web_search", "request_deeper_thinking"}

\* scoreThinkingNeed
Score ==
  ask.score + (IF lastFailed THEN 4 ELSE 0) + (IF lastFim THEN 4 ELSE 0)
  + (IF lastFiles >= 3 THEN 3 ELSE IF lastFiles >= 2 THEN 1 ELSE 0)
  + (IF lastTools \subseteq Readonly THEN 0 ELSE 2)

\* decideMaxTokens
MaxTokens(budget) ==
  IF lastFim THEN 4096
  ELSE IF "write_file" \in lastTools THEN 16384
  ELSE IF budget >= 32768 THEN 6144
  ELSE IF budget = 0 THEN 1024
  ELSE IF lastFiles >= 3 THEN 6144 ELSE 3072

NoThinking == [budget |-> 0, tokens |-> MaxTokens(0)]
Thinking(budget) == [budget |-> budget, tokens |-> MaxTokens(budget)]

ForcesMax == ask.intent # "readonly" /\ (inARow >= ErrorLimit \/ touched >= FilesLimit)

ReadOnlySoFar == lastTools # {} /\ lastTools \subseteq Readonly

\* decideThinkingPlan; how: the effort, "max" when deeper thinking is wanted.
Decided(how) ==
  IF ForcesMax /\ how # "high" THEN [budget |-> 32768, tokens |-> 8192]
  ELSE IF seenRounds = 0 /\ Score < (IF ask.intent = "readonly" THEN 7 ELSE 6) THEN NoThinking
  ELSE IF seenRounds > 0 /\ lastTools = {} THEN NoThinking
  ELSE IF seenRounds > 0 /\ ReadOnlySoFar /\ Score < 7 THEN NoThinking
  ELSE IF how = "max" \/ Score >= 11 THEN Thinking(32768)
  ELSE IF lastFim \/ lastFailed \/ lastFiles >= 3 \/ Score >= 6 THEN Thinking(16384)
  ELSE Thinking(8192)

(***************************************************************************)
(* The counts of the gates.                                                *)
(***************************************************************************)
Zero == [g \in GateNames |-> [passes |-> 0, blocks |-> 0]]
Record(h, g, outcome) == [h EXCEPT ![g][outcome] = @ + 1]
Sum2(h, k) ==
  [g \in GateNames |-> [passes |-> h[g].passes + k[g].passes, blocks |-> h[g].blocks + k[g].blocks]]

Torn == [torn |-> TRUE]

\* Mutant: the counts of earlier runs are not read.
LoadsNothing(file) == Zero
\* loadFromFile with its catch, and merge: a file that cannot be read counts nothing.
Loaded(file) == IF file = Torn THEN Zero ELSE Sum2(Zero, file)

StartsRun ==
  /\ machine' = "understand" /\ roundNo' = 0 /\ seenRounds' = 0
  /\ lastTools' = {} /\ lastFiles' = 0 /\ lastFailed' = FALSE /\ lastFim' = FALSE
  /\ inARow' = 0 /\ failures' = 0 /\ touched' = 0 /\ wanted' = FALSE /\ wished' = FALSE
  /\ stage' = "decide" /\ here' = Zero
  /\ thinks' = [budget |-> 0, tokens |-> 1024]

DepthInit ==
  /\ ask \in Asks /\ effort \in Efforts
  /\ machine = "understand" /\ roundNo = 0 /\ seenRounds = 0
  /\ lastTools = {} /\ lastFiles = 0 /\ lastFailed = FALSE /\ lastFim = FALSE
  /\ inARow = 0 /\ failures = 0 /\ touched = 0 /\ wanted = FALSE /\ wished = FALSE
  /\ stage = "decide" /\ here = Zero /\ hits = Zero
  /\ thinks = [budget |-> 0, tokens |-> 1024]
  /\ hitsFile = Zero /\ counted = Zero /\ depthRuns = 1

\* The head of a round: the decision, then the gates before the request.
Decide ==
  /\ stage = "decide"
  /\ thinks' = Decided(IF wanted THEN "max" ELSE effort)
  /\ stage' = "work"
  /\ \E g \in GateNames :
       hits' = Record(hits, g, "passes") /\ here' = Record(here, g, "passes")
  /\ UNCHANGED <<ask, effort, memo, roundNo, sums, tally>>

LastOfAll == roundNo + 1 >= RoundsLimit

\* updateState
UpdateState(tools, changes, hadError) ==
  /\ seenRounds' = seenRounds + 1
  /\ lastTools' = tools /\ lastFiles' = changes
  /\ lastFailed' = hadError /\ lastFim' = ("edit_fim" \in tools)

\* The results of the round's tools are counted as they come.
CountErrors(failed) ==
  /\ failures' = IF failed THEN failures + 1 ELSE failures
  /\ inARow' = IF failed THEN inARow + 1 ELSE 0

\* Tools run, perhaps too often stopped by a gate.
RunTools ==
  /\ stage = "work"
  /\ \E tools \in RoundTools, failed \in BOOLEAN, changes \in {0, 1, 3}, blocked \in BOOLEAN :
       /\ changes > 0 => tools \cap (WriteTools \cup {"multi_edit"}) # {}
       /\ CountErrors(failed)
       /\ touched' = touched + changes
       /\ wished' = ("request_deeper_thinking" \in tools)
       /\ \/ \* gate overflow: the transition is not guarded, and the run returns
             /\ blocked
             /\ machine' = "blocked"
             /\ stage' = "over"
             /\ wanted' = (wanted \/ wished')
             /\ UNCHANGED <<roundNo, seenRounds, lastTools, lastFiles, lastFailed, lastFim>>
          \/ /\ ~blocked
             /\ machine' = Moved(tools, failed, LastOfAll)
             \* the request of this round is taken back before the next one decides
             /\ wanted' = FALSE
             /\ UpdateState(tools, changes, failed)
             /\ IF LastOfAll THEN stage' = "over" /\ UNCHANGED roundNo
                ELSE stage' = "decide" /\ roundNo' = roundNo + 1
  /\ UNCHANGED <<ask, effort, thinks, hits, here, tally>>

\* A text that the quality gate holds: for a fatal contract, or for what AgentLoop models.
\* Nothing of the state is brought up to date.
TextHeld ==
  /\ stage = "work" /\ ~LastOfAll
  /\ touched > 0 \/ failures > 0
  /\ stage' = "decide" /\ roundNo' = roundNo + 1
  /\ wished' = FALSE
  /\ \E g \in GateNames :
       hits' = Record(hits, g, "blocks") /\ here' = Record(here, g, "blocks")
  /\ UNCHANGED <<ask, effort, memo, inARow, failures, touched, wanted, thinks, tally>>

\* A text that is let through.
TextEnds ==
  /\ stage = "work"
  /\ LastOfAll \/ FatalViolations = {} \/ (touched = 0 /\ failures = 0)
  /\ stage' = "over"
  /\ UNCHANGED <<ask, effort, memo, roundNo, sums, thinks, hits, here, tally>>

\* Mutant: the counts are added to the file once more.
AddsAgain == Sum2(hits, hits)
ToSave == hits

\* flushTelemetry, and the next run on the project; or the file is torn while it is written.
FlushAndRestart ==
  /\ stage = "over" /\ depthRuns < MaxDepthRuns
  /\ \/ hitsFile' = ToSave /\ counted' = Sum2(counted, here)
     \/ hitsFile' = Torn /\ counted' = Zero
  /\ depthRuns' = depthRuns + 1
  /\ hits' = Loaded(hitsFile')
  /\ ask' \in Asks /\ effort' \in Efforts
  /\ StartsRun

\* The user breaks the run off: its counts are not written.
BrokenOff ==
  /\ stage # "over" /\ depthRuns < MaxDepthRuns
  /\ depthRuns' = depthRuns + 1
  /\ hits' = Loaded(hitsFile)
  /\ ask' \in Asks /\ effort' \in Efforts
  /\ StartsRun
  /\ UNCHANGED <<hitsFile, counted>>

DepthNext == Decide \/ RunTools \/ TextHeld \/ TextEnds \/ FlushAndRestart \/ BrokenOff

(***************************************************************************)
(* Properties.                                                             *)
(***************************************************************************)
\* Wherever a gate may overflow, the machine can be sent to BLOCKED: loop.ts:1507 does not
\* catch what transition throws, and a throw there would end the run without its cleanup.
BlockingNeverThrows == stage = "work" => "blocked" \in AllowedTransitions[machine]

\* A round that wrote and failed is followed by one that thinks with 16k at least, whatever
\* the prompt was like; errors in a row that reach the limit by 32k, unless the user asked
\* for less.
TroubleIsHeeded ==
  stage = "work" /\ seenRounds > 0 =>
    /\ lastFailed /\ ~(lastTools \subseteq Readonly) => thinks.budget >= 16384
    /\ inARow >= ErrorLimit /\ ask.intent # "readonly" /\ effort # "high" => thinks.budget = 32768

\* The counts of the gates add up over the runs: what a run starts from is what the runs
\* before it have written, no outcome twice and none left out, and a torn file counts for
\* nothing afterwards.
CountsAddUp == hits = Sum2(counted, here)

\* The watch over the rounds never gets in the way, sees trouble, and keeps its books.
RunIsWatched == BlockingNeverThrows /\ TroubleIsHeeded /\ CountsAddUp

\* Stated, not holding: a round after a request for deeper thinking thinks with 32k ("the next
\* round will use thinking max 32K", bootstrap.ts:78).  The wish is taken back at the end
\* of the round that made it (loop.ts:1667).
WishIsGranted == stage = "work" /\ wished => thinks.budget = 32768

\* Stated, not holding: REPAIR is left again when the repair is written (state-machine.ts:4-6).
\* Every way out of it that a round may aim at is one that the table does not allow.
RepairIsLeft ==
  [][machine = "repair" /\ seenRounds' > seenRounds /\ ~lastFailed' /\ lastTools' \cap WriteTools # {}
       => machine' # "repair"]_depthVars

\* Stated, not holding: a fatal contract ends the run ("Terminate and report",
\* contracts.ts:145).  It holds the final answer instead, until the rounds are used up.
FatalEnds == [][FatalViolations # {} /\ stage = "work" => stage' = "over"]_depthVars
=============================================================================
