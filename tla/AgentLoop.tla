------------------------------ MODULE AgentLoop ------------------------------
(***************************************************************************)
(* One run of the agent loop (agent/loop.ts): rounds of asking the model,  *)
(* running the tools it calls and deciding whether it may stop.            *)
(*                                                                         *)
(* A reply without tool calls goes through the completion gates, in order: *)
(* ripple exit, planning, task tracker, quality (gates/completion.ts), the *)
(* external gate (completion-gate.ts), the judge (flash-judge.ts), the     *)
(* evidence and truthfulness gates (completion-orchestrator.ts).  A reply  *)
(* with tool calls runs them one by one under the tool policy and then     *)
(* settles the round: ripple obligations, the verified-write stop, gate    *)
(* overflow, plan acceptance, the batch type check, the task tracker.      *)
(*                                                                         *)
(* What the gates read is what the loop remembers (typecheck, verified,    *)
(* owed, tracker); what is true is kept beside it: broken, whether the     *)
(* project fails to compile, and trust, whether the loop saw every write   *)
(* and no pass it was told of was false (nothing written yet, so far, or   *)
(* not any more).                                                          *)
(*                                                                         *)
(* The ripple filter of the pre-round gates is not here: with cache-stable *)
(* tools, the default, the list of tools is the same in every round, and   *)
(* pending obligations only add a warning to the prompt.                   *)
(***************************************************************************)
EXTENDS Naturals

CONSTANTS
  Settings,      \* the settings a run may start with
  Callers,       \* files that use the module under change
  MaxRounds,     \* options.maxRounds
  MaxCalls,      \* bound on the tool calls of one reply
  MaxNodes,      \* bound on the nodes of a master plan
  MaxRejections, \* 3: a thin plan is let through after so many
  OverflowLimit, \* 5: blocks of one gate that end the run
  JudgeFrom,     \* 3: the first round that is judged
  JudgeLimit     \* 3: calls of the judge in one task

ASSUME BoundsAssumption ==
  /\ MaxRounds \in Nat \ {0} /\ MaxCalls \in Nat \ {0} /\ MaxNodes \in Nat \ {0}
  /\ MaxRejections \in Nat /\ OverflowLimit \in Nat \ {0}
  /\ JudgeFrom \in Nat /\ JudgeLimit \in Nat
ASSUME CallersAssumption == {"lib", "doc"} \cap Callers = {}

TsFiles  == {"lib"} \cup Callers
Files    == TsFiles \cup {"doc"}       \* "doc" is not a TypeScript file
Kinds    == {"typecheck", "test"}      \* kinds of verification a tracker requires
Gates    == {"obligations", "required_files"}
Origins  == {"none", "keyword", "triage", "node"}
Outcomes == {"going", "plan_ready", "delivered", "verified", "blocked", "overflow", "context",
             "stream", "empty", "restart", "budget", "silent"}

\* checker: "lsp", a language server with cached diagnostics (and tsc); "tsc";
\* "none", also the compiler whose output is taken for a missing one.
\* complex: the triage wants a plan first; approved: the user confirmed one before.
Setting == [intent: {"readonly", "narrow_edit", "long_task"}, checker: {"lsp", "tsc", "none"},
            complex: BOOLEAN, approved: BOOLEAN]
ASSUME SettingsAssumption ==
  /\ Settings \subseteq Setting
  /\ \A s \in Settings : /\ s.complex => s.intent = "long_task"
                         /\ s.approved => s.complex

\* named: the steps that are not verifications stand for files and carry the ids of
\* their kind of tracker.  marked: those steps are marked as done.
\* proofs: verificationEvidence.
Tracker == [origin: Origins, phase: {"none", "planning", "building", "complete"},
            named: BOOLEAN, marked: BOOLEAN, proofs: SUBSET Kinds]
NoTracker == [origin |-> "none", phase |-> "none", named |-> FALSE, marked |-> FALSE,
              proofs |-> {}]

\* The variables of one iteration of the loop.
\* removed: the TypeScript files modified were all deleted again by a rollback.
Turn == [calls: 0..MaxCalls, text: BOOLEAN, modified: SUBSET Files, removed: BOOLEAN,
         reported: SUBSET Callers, results: BOOLEAN, passed: SUBSET Kinds,
         finishing: BOOLEAN, lacking: BOOLEAN, replan: BOOLEAN]
NewTurn == [calls |-> 0, text |-> FALSE, modified |-> {}, removed |-> FALSE,
            reported |-> {}, results |-> FALSE, passed |-> {},
            finishing |-> FALSE, lacking |-> FALSE, replan |-> FALSE]

VARIABLES
  setting,    \* what is fixed when the run starts
  round, pc,
  tracker,    \* taskTracker
  left,       \* nodes of the master plan after the current one
  rejections, \* planningRejections
  judged,     \* calls of the judge
  owed,       \* callers with a pending ripple obligation
  typecheck,  \* lastTypecheck
  verified,   \* what lastVerificationResults holds: nothing, something, or a
              \* type check that passed
  ledger,     \* kinds with a passed entry in the evidence ledger
  wrote,      \* taskHadWrite
  erred,      \* taskToolErrors > 0
  selfEdited, \* runtimeSelfEditFiles is not empty
  counts,     \* gateBlockCounts
  turn,
  outcome,    \* how the run ended
  broken, trust, \* the truth: see above
  streak      \* tool rounds in a row that ended with obligations pending

plan     == <<tracker, left, rejections>>
memory   == <<owed, typecheck, verified, ledger, wrote, erred, selfEdited, counts>>
truth    == <<broken, trust, streak>>
vars     == <<setting, round, pc, tracker, left, rejections, judged, owed, typecheck, verified,
              ledger, wrote, erred, selfEdited, counts, turn, outcome, broken, trust, streak>>

TypeOK ==
  /\ setting \in Settings
  /\ round \in 0..MaxRounds
  /\ pc \in {"open", "gates", "external", "judge", "evidence", "tools", "ripple", "overflow",
             "settle", "track", "decide", "finish", "ended"}
  /\ tracker \in Tracker
  /\ left \in 0..MaxNodes
  /\ rejections \in 0..MaxRejections
  /\ judged \in 0..JudgeLimit
  /\ owed \subseteq Callers
  /\ typecheck \in {"none", "passed", "failed"}
  /\ verified \in {"nothing", "something", "types"}
  /\ wrote \in BOOLEAN /\ erred \in BOOLEAN /\ selfEdited \in BOOLEAN
  /\ ledger \subseteq Kinds
  /\ counts \in [Gates -> [count: 0..OverflowLimit, seen: 0..MaxRounds]]
  /\ turn \in Turn
  /\ outcome \in Outcomes
  /\ broken \in BOOLEAN
  /\ trust \in {"untouched", "tracked", "lost"}
  /\ streak \in 0..OverflowLimit

-----------------------------------------------------------------------------
(***************************************************************************)
(* Rounds.                                                                 *)
(***************************************************************************)
LastRound == round + 1 >= MaxRounds

Stop(why) == pc' = "ended" /\ outcome' = why /\ UNCHANGED <<round, turn>>

\* Mutant: a retry does not count as a round.
SameRound ==
  pc' = "open" /\ turn' = NewTurn /\ UNCHANGED <<round, outcome>>

\* "continue" of the loop: on the last round it leaves the loop, past the only
\* place that notes that the rounds ran out.
NextRound ==
  IF LastRound
  THEN Stop("silent")
  ELSE pc' = "open" /\ round' = round + 1 /\ turn' = NewTurn /\ UNCHANGED outcome

\* The next stage of the same round.
Pass(stage) == pc' = stage /\ UNCHANGED <<round, outcome>>

(***************************************************************************)
(* The task tracker.                                                       *)
(***************************************************************************)
Tracked == tracker.origin # "none"

\* updateTaskTrackerAfterTools looks for the ids of a packet's steps only while a
\* master plan is active, and for the ids of the old template otherwise: the steps of
\* a packet made from the prompt are never done.
Markable(t)  == t.named /\ t.origin \in {"triage", "node"}
StepsDone(t) == t.phase # "planning" /\ t.marked /\ t.proofs = Kinds

\* missingTaskRequirements
Missing == Tracked /\ ~StepsDone(tracker)

NodeTracker(named) ==
  [origin |-> "node", phase |-> "building", named |-> named, marked |-> FALSE, proofs |-> {}]

\* activateMasterPlan
ActivatePlan ==
  /\ \E named \in BOOLEAN : tracker' = NodeTracker(named)
  /\ left' \in 0..MaxNodes - 1

Init ==
  /\ setting \in Settings
  /\ \/ setting.intent # "long_task" /\ tracker = NoTracker
     \/ /\ setting.intent = "long_task"
        /\ \E o \in {"keyword", "triage"}, n \in BOOLEAN :
             /\ setting.complex => o = "triage"
             /\ o = "keyword" => n
             /\ tracker = [origin |-> o, named |-> n, marked |-> FALSE, proofs |-> {},
                           phase |-> IF setting.complex THEN "planning" ELSE "building"]
  /\ round = 0 /\ pc = "open" /\ outcome = "going" /\ turn = NewTurn
  /\ left = 0 /\ rejections = 0 /\ judged = 0
  /\ owed = {} /\ typecheck = "none" /\ verified = "nothing" /\ ledger = {}
  /\ wrote = FALSE /\ erred = FALSE /\ selfEdited = FALSE
  /\ counts = [g \in Gates |-> [count |-> 0, seen |-> 0]]
  /\ broken \in BOOLEAN /\ trust = "untouched" /\ streak = 0

(***************************************************************************)
(* Asking the model.                                                       *)
(***************************************************************************)
\* The context budget is used up, the stream fails for good, or the reply is empty.
RoundEnds ==
  /\ pc = "open"
  /\ \E why \in {"context", "stream", "empty"} : Stop(why)
  /\ UNCHANGED <<setting, plan, judged, memory, truth>>

\* A stream error that can be retried.
StreamFails ==
  /\ pc = "open"
  /\ IF LastRound THEN Stop("blocked") ELSE NextRound
  /\ UNCHANGED <<setting, plan, judged, memory, truth>>

TextReply ==
  /\ pc = "open"
  /\ Pass("gates")
  /\ UNCHANGED <<setting, plan, judged, memory, truth, turn>>

\* Tool calls, with or without text beside them; the text matters to a plan only.
ToolReply ==
  /\ pc = "open"
  /\ Pass("tools")
  /\ \E text \in BOOLEAN : /\ text => tracker.phase = "planning"
                          /\ turn' = [turn EXCEPT !.text = text]
  /\ UNCHANGED <<setting, plan, judged, memory, truth>>

(***************************************************************************)
(* The completion gates, for a reply without tool calls.                   *)
(***************************************************************************)
\* A gate that does not let go: the model is asked again, or the run is blocked.
Held == IF LastRound THEN Stop("blocked") ELSE NextRound

\* The gates of the chain let everything through on the last round.
RippleHolds  == setting.intent # "readonly" /\ owed # {} /\ ~LastRound
PlanHolds    == tracker.phase = "planning" /\ ~LastRound
TrackerHolds == Missing /\ tracker.phase # "complete" /\ ~LastRound
QualityReads == setting.intent # "readonly" /\ (wrote \/ erred) /\ ~LastRound

RippleExit ==
  /\ pc = "gates" /\ RippleHolds
  /\ NextRound
  /\ UNCHANGED <<setting, plan, judged, memory, truth>>

\* The plan is too thin; not more than MaxRejections times.
PlanRejected ==
  /\ pc = "gates" /\ ~RippleHolds /\ PlanHolds
  /\ ~setting.approved /\ rejections < MaxRejections
  /\ rejections' = rejections + 1
  /\ NextRound
  /\ UNCHANGED <<setting, tracker, left, judged, memory, truth>>

\* The user confirmed a plan before the run, or the plan passes and options.autoApprovePlan
\* is set.
PlanAccepted ==
  /\ pc = "gates" /\ ~RippleHolds /\ PlanHolds
  /\ ActivatePlan
  /\ rejections' = 0
  /\ NextRound
  /\ UNCHANGED <<setting, judged, memory, truth>>

\* The plan passes and the run stops for the approval.
PlanReady ==
  /\ pc = "gates" /\ ~RippleHolds /\ PlanHolds
  /\ ~setting.approved
  /\ rejections' = 0
  /\ Stop("plan_ready")
  /\ UNCHANGED <<setting, tracker, left, judged, memory, truth>>

TrackerGate ==
  /\ pc = "gates" /\ ~RippleHolds /\ ~PlanHolds /\ TrackerHolds
  /\ NextRound
  /\ UNCHANGED <<setting, plan, judged, memory, truth>>

\* A low confidence and fatal contract violations also keep the run going.
QualityGate ==
  /\ pc = "gates" /\ ~RippleHolds /\ ~PlanHolds /\ ~TrackerHolds /\ QualityReads
  /\ NextRound
  /\ UNCHANGED <<setting, plan, judged, memory, truth>>

ChainPasses ==
  /\ pc = "gates" /\ ~RippleHolds /\ ~PlanHolds /\ ~TrackerHolds
  /\ ~(QualityReads /\ typecheck = "failed")
  /\ Pass("external")
  /\ UNCHANGED <<setting, plan, judged, memory, truth, turn>>

\* Mutant: the gate no longer reads the last type check.
IgnoresTypecheck ==
  /\ ~Missing /\ owed = {} /\ ~erred
  /\ wrote => verified # "nothing" \/ typecheck = "passed"

\* evaluateCompletionGate.  Every mode contract has "no tool errors" among its
\* exit criteria and taskToolErrors is never reset.
NothingMissing ==
  /\ ~Missing
  /\ owed = {}
  /\ typecheck # "failed"
  /\ ~erred
  /\ wrote => verified # "nothing" \/ typecheck = "passed"

ExternalGate ==
  /\ pc = "external"
  /\ IF NothingMissing THEN Pass("judge") /\ UNCHANGED turn ELSE Held
  /\ UNCHANGED <<setting, plan, judged, memory, truth>>

JudgeDue == judged < JudgeLimit /\ round >= JudgeFrom /\ (Tracked \/ wrote \/ erred)

\* The judge is not due, or the cost mode skips it.
JudgeSkipped ==
  /\ pc = "judge"
  /\ Pass("evidence")
  /\ UNCHANGED <<setting, plan, judged, memory, truth, turn>>

Judge ==
  /\ pc = "judge" /\ JudgeDue
  /\ judged' = judged + 1
  /\ \/ Pass("evidence") /\ UNCHANGED turn \* SATISFIED
     \/ NextRound                          \* NOT_SATISFIED, on the last round too
     \/ Stop("blocked")                    \* IMPOSSIBLE
  /\ UNCHANGED <<setting, plan, memory, truth>>

\* canClaimDone
CanClaim ==
  \/ ~Tracked
  \/ tracker.phase = "complete"
  \/ StepsDone(tracker) /\ Kinds \subseteq ledger

\* What the final text may claim, and what backs it (checkClaimEvidenceContradictions).
Backed(claim) ==
  CASE claim = "typecheck"      -> "typecheck" \in ledger \/ typecheck = "passed"
    [] claim = "test"           -> "test" \in ledger
    [] claim = "implementation" -> wrote

EvidenceGate ==
  /\ pc = "evidence"
  /\ \/ ~CanClaim
     \/ \E claim \in {"typecheck", "test", "implementation"} : ~Backed(claim)
  /\ Held
  /\ UNCHANGED <<setting, plan, judged, memory, truth>>

\* tryNodeTransition: another node takes over, or waits for what it depends on and
\* the finished tracker stays.
NextNode ==
  /\ pc = "evidence" /\ CanClaim
  /\ tracker.origin = "node" /\ left > 0
  /\ \/ /\ left' = left - 1
        /\ \E named \in BOOLEAN : tracker' = NodeTracker(named)
     \/ UNCHANGED <<left, tracker>>
  /\ NextRound
  /\ UNCHANGED <<setting, rejections, judged, memory, truth>>

Deliver ==
  /\ pc = "evidence" /\ CanClaim
  /\ tracker.origin = "node" => left = 0
  /\ Stop("delivered")
  /\ UNCHANGED <<setting, plan, judged, memory, truth>>

(***************************************************************************)
(* Tool calls.                                                             *)
(***************************************************************************)
\* A round that starts while the tracker waits for a plan runs no tool, except
\* the first round.
Barred   == tracker.phase = "planning" /\ round > 0
MoreCalls == pc = "tools" /\ turn.calls < MaxCalls

\* Mutant: the policy does not look at the phase of the tracker.
WritesInPlanning == setting.intent # "readonly" /\ ~Barred

\* evaluateToolPolicy lets a tool through that is not read-only.
MayWrite == setting.intent # "readonly" /\ tracker.phase # "planning"

\* What the loop reads out of the text of any result: an error by its words, and a
\* failed type check, or one that could not run, by its words too.
ReadsText ==
  /\ erred' \in {erred, TRUE}
  /\ \/ typecheck' \in {typecheck, "failed"} /\ UNCHANGED trust
     \/ typecheck' = "passed" /\ trust' = "lost"

\* A tool that reads, that fails, or that the policy refuses.
OtherTool ==
  /\ MoreCalls
  /\ turn' = [turn EXCEPT !.calls = @ + 1]
  /\ IF Barred THEN UNCHANGED <<erred, typecheck, trust>> ELSE ReadsText
  /\ UNCHANGED <<setting, round, pc, outcome, plan, judged, owed, verified, ledger, wrote,
                 selfEdited, counts, broken, streak>>

\* What the type check of the project answers.
Verdicts ==
  CASE setting.checker = "lsp"  -> BOOLEAN
    [] setting.checker = "tsc"  -> {~broken}
    [] setting.checker = "none" -> {FALSE}

\* A verification tool.  What fails reads like an error.  A shell command only has to
\* name the compiler for its exit code to count: a pass that is none misleads the loop.
VerifyTool(kind) ==
  /\ MoreCalls /\ ~Barred
  /\ \E ok \in BOOLEAN :
       /\ kind = "test" \/ ok \notin Verdicts => MayWrite
       /\ turn' = [turn EXCEPT !.calls = @ + 1, !.results = TRUE,
                               !.passed = IF ok THEN @ \cup {kind} ELSE @]
       /\ erred' \in IF ok THEN {erred, TRUE} ELSE {TRUE}
       /\ typecheck' = IF kind # "typecheck" THEN typecheck ELSE IF ok THEN "passed" ELSE "failed"
       /\ trust' = IF kind = "typecheck" /\ ok /\ TRUE \notin Verdicts THEN "lost" ELSE trust
  /\ UNCHANGED <<setting, round, pc, outcome, plan, judged, owed, verified, ledger, wrote,
                 selfEdited, counts, broken, streak>>

\* A write tool, or a rollback, changes the files F; gone: the rollback deletes them.
\* Any change of a TypeScript file may break the project or repair it.
WriteTool(F, gone) ==
  /\ MoreCalls /\ MayWrite
  /\ gone => F \subseteq TsFiles
  /\ \E reported \in IF "lib" \in F /\ ~gone THEN SUBSET (Callers \ F) ELSE {{}} :
       turn' = [turn EXCEPT !.calls = @ + 1, !.modified = @ \cup F,
                            !.reported = @ \cup reported,
                            !.removed = IF F \cap TsFiles = {} THEN @
                                        ELSE gone /\ (@ \/ turn.modified \cap TsFiles \subseteq F)]
  /\ broken' \in IF F \cap TsFiles = {} THEN {broken} ELSE BOOLEAN
  /\ trust' = IF F \cap TsFiles # {} /\ trust = "untouched" THEN "tracked" ELSE trust
  /\ wrote' = TRUE
  /\ erred' \in {erred, TRUE}
  /\ UNCHANGED <<setting, round, pc, outcome, plan, judged, owed, typecheck, verified, ledger,
                 selfEdited, counts, streak>>

\* A shell command changes files and the loop does not know.
ShellEdit ==
  /\ MoreCalls /\ MayWrite
  /\ turn' = [turn EXCEPT !.calls = @ + 1]
  /\ broken' \in BOOLEAN /\ trust' = "lost"
  /\ erred' \in {erred, TRUE}
  /\ UNCHANGED <<setting, round, pc, outcome, plan, judged, owed, typecheck, verified, ledger,
                 wrote, selfEdited, counts, streak>>

CallsDone ==
  /\ pc = "tools" /\ turn.calls > 0
  /\ Pass("ripple")
  /\ UNCHANGED <<setting, plan, judged, memory, truth, turn>>

-----------------------------------------------------------------------------
(***************************************************************************)
(* The end of a round that called tools.                                   *)
(***************************************************************************)
WroteTs == turn.modified \cap TsFiles # {}

\* runRippleVerification: the cached diagnostics of a language server may be old, and
\* files that are gone are not looked at.
RippleVerdicts ==
  IF ~WroteTs \/ turn.removed THEN {"passed"}
  ELSE CASE setting.checker = "lsp"  -> {"passed", "failed"}
         [] setting.checker = "tsc"  -> {IF ~broken THEN "passed" ELSE "failed"}
         [] setting.checker = "none" -> {"unavailable"}

\* Obligations are resolved, the new ones are added, and a narrow edit may have found
\* its end.
RippleCheck ==
  /\ pc = "ripple"
  /\ IF turn.modified = {}
     THEN UNCHANGED <<owed, typecheck, turn>>
     ELSE \E verdict \in RippleVerdicts, lacking \in BOOLEAN :
            /\ lacking => setting.intent = "narrow_edit"
            /\ owed' = (IF verdict = "passed" THEN owed \ turn.modified ELSE owed)
                        \cup (turn.reported \ turn.modified)
            /\ typecheck' =
                 CASE verdict = "passed" -> IF typecheck = "failed" THEN "failed" ELSE "passed"
                              [] verdict = "failed" -> "failed"
                              [] verdict = "unavailable" -> "passed"
            /\ turn' = [turn EXCEPT
                 !.lacking = lacking,
                 !.finishing = /\ setting.intent = "narrow_edit" /\ WroteTs
                               /\ owed' = {} /\ typecheck' = "passed" /\ ~lacking]
  /\ Pass("overflow")
  /\ UNCHANGED <<setting, plan, judged, verified, ledger, wrote, erred, selfEdited, counts,
                 truth>>

Blocking == (IF owed # {} THEN {"obligations"} ELSE {})
            \cup (IF turn.lacking THEN {"required_files"} ELSE {})

\* Mutant: the entry of a gate that blocks is not marked as seen.
NeverSeen(g) ==
  LET n == counts[g].count + (IF g \in Blocking THEN 1 ELSE 0)
  IN  IF round - counts[g].seen >= 2
      THEN [count |-> 0, seen |-> 0] ELSE [count |-> n, seen |-> counts[g].seen]

Counted(g) ==
  IF g \in Blocking THEN [count |-> counts[g].count + 1, seen |-> round]
  ELSE IF round - counts[g].seen >= 2 THEN [count |-> 0, seen |-> 0]
  ELSE counts[g]

\* processGateOverflow
Overflow ==
  /\ pc = "overflow"
  /\ counts' = [g \in Gates |-> Counted(g)]
  /\ streak' = IF owed # {} THEN streak + 1 ELSE 0
  /\ IF \E g \in Gates : counts'[g].count >= OverflowLimit
     THEN Stop("overflow")
     ELSE Pass("settle") /\ UNCHANGED turn
  /\ UNCHANGED <<setting, plan, judged, owed, typecheck, verified, ledger, wrote, erred,
                 selfEdited, broken, trust>>

\* A plan beside tool calls.  The approved plan is not handed over (no caller gives
\* options.planText, and lastPlanText is never set): only the phase changes.
AcceptPlan ==
  /\ pc = "settle"
  /\ IF ~(tracker.phase = "planning" /\ turn.text)
     THEN UNCHANGED <<tracker, left, turn>>
     ELSE IF setting.approved
     THEN tracker' = [tracker EXCEPT !.phase = "building"] /\ UNCHANGED <<left, turn>>
     ELSE \/ ActivatePlan /\ UNCHANGED turn
          \/ turn' = [turn EXCEPT !.replan = ~LastRound] /\ UNCHANGED <<tracker, left>>
  /\ Pass("track")
  /\ UNCHANGED <<setting, rejections, judged, memory, truth>>

\* Mutant: no batch type check, the verdict of the ripple verification stays.
NoBatch == typecheck

\* runTypeScriptNoEmit, once for all the files of the round.
BatchCheck ==
  IF ~WroteTs THEN typecheck
  ELSE IF setting.checker = "none" \/ ~broken THEN "passed" ELSE "failed"

\* The batch type check, then updateTaskTrackerAfterTools.
Track ==
  /\ pc = "track"
  /\ typecheck' = BatchCheck
  /\ IF ~Tracked \/ tracker.phase = "complete"
     THEN UNCHANGED <<tracker, ledger>>
     ELSE /\ \E marked \in {tracker.marked,
                             tracker.marked \/ (Markable(tracker) /\ turn.modified # {})} :
               LET t == [tracker EXCEPT
                          !.marked = marked,
                          !.proofs = @ \cup turn.passed
                                     \cup (IF typecheck' = "passed" THEN {"typecheck"} ELSE {})]
               IN  tracker' = IF StepsDone(t) THEN [t EXCEPT !.phase = "complete"] ELSE t
          /\ ledger' = ledger \cup turn.passed
  /\ verified' = IF "typecheck" \in turn.passed THEN "types"
                 ELSE IF turn.results /\ verified = "nothing" THEN "something" ELSE verified
  /\ Pass("decide")
  /\ UNCHANGED <<setting, left, rejections, judged, owed, wrote, erred, selfEdited,
                 counts, turn, truth>>

\* Planning goes on.
Replan ==
  /\ pc = "decide" /\ turn.replan
  /\ NextRound
  /\ UNCHANGED <<setting, plan, judged, memory, truth>>

\* The runtime self-edit gate: restart once a type check has passed.
SelfEditGate ==
  /\ pc = "decide" /\ ~turn.replan
  /\ selfEdited' \in {selfEdited, selfEdited \/ turn.modified # {}}
  /\ IF ~selfEdited' THEN Pass("finish") /\ UNCHANGED turn
     ELSE IF verified = "types" THEN Stop("restart")
     ELSE IF ~LastRound THEN NextRound
     ELSE Pass("finish") /\ UNCHANGED turn
  /\ UNCHANGED <<setting, plan, judged, owed, typecheck, verified, ledger, wrote, erred,
                 counts, truth>>

\* The verified-write stop of a narrow edit, or the next round.
FinishRound ==
  /\ pc = "finish"
  /\ IF ~Missing /\ turn.finishing THEN Stop("verified")
     ELSE IF LastRound THEN Stop("budget")
     ELSE NextRound
  /\ UNCHANGED <<setting, plan, judged, memory, truth>>

Ended == pc = "ended" /\ UNCHANGED vars

Ask   == RoundEnds \/ StreamFails \/ TextReply \/ ToolReply
Chain == \/ RippleExit \/ PlanRejected \/ PlanAccepted \/ PlanReady \/ TrackerGate
         \/ QualityGate \/ ChainPasses
Claim == ExternalGate \/ JudgeSkipped \/ Judge \/ EvidenceGate \/ NextNode \/ Deliver
Tools == \/ OtherTool \/ ShellEdit \/ CallsDone
         \/ \E kind \in Kinds : VerifyTool(kind)
         \/ \E F \in {{"doc"}} \cup ((SUBSET TsFiles) \ {{}}), gone \in BOOLEAN :
              WriteTool(F, gone)
Settle == \/ RippleCheck \/ Overflow \/ AcceptPlan \/ Track \/ Replan \/ SelfEditGate
          \/ FinishRound

Next == Ask \/ Chain \/ Claim \/ Tools \/ Settle \/ Ended

Spec == Init /\ [][Next]_vars /\ WF_vars(Next)

-----------------------------------------------------------------------------
(***************************************************************************)
(* What the loop promises.                                                 *)
(***************************************************************************)
\* A delivered result compiles, when the compiler is asked and the loop saw every
\* write: no order of writes, rollbacks, failed rounds, judgements and node changes
\* lets an answer through on a type check that is older than the code.
DeliveredCompiles ==
  outcome = "delivered" /\ setting.checker = "tsc" /\ trust = "tracked" => ~broken

Clean ==
  /\ owed = {} /\ typecheck # "failed" /\ ~erred
  /\ Tracked => /\ tracker.phase = "complete" /\ tracker.marked /\ tracker.proofs = Kinds
                /\ "test" \in ledger

\* An answer is delivered, and a node of the plan gives way to the next, only with no
\* obligation pending, no failed type check, no tool error, and the tracker that is
\* held finished with its tests on record; what the gates saw still holds after the
\* judge has been asked.
FinishesClean ==
  [][(outcome = "going" /\ outcome' = "delivered") \/ left' < left => Clean]_vars

\* Obligations nobody resolves end the run: it does not go round on them for ever,
\* whatever happens to the counters in rounds without tools.
StuckIsBounded == pc = "open" => streak < OverflowLimit

\* A complex task is written by the nodes of a plan: nothing is written before a plan
\* is active.
BuildsOnPlan ==
  setting.complex /\ ~setting.approved /\ wrote => tracker.origin = "node"

Stage == [open |-> 0, gates |-> 1, external |-> 2, judge |-> 3, evidence |-> 4, tools |-> 5,
          ripple |-> 6, overflow |-> 7, settle |-> 8, track |-> 9, decide |-> 10,
          finish |-> 11, ended |-> 12]

Rises ==
  \/ round' > round
  \/ round' = round /\ Stage[pc'] > Stage[pc]
  \/ round' = round /\ pc' = pc /\ turn'.calls > turn.calls

\* Every run ends: a step goes to a later round, to a later stage of the round or to the
\* next of its tool calls, and all three are bounded; each retry, rejection, judgement,
\* repair and node change costs a round.
Advances == [][Rises]_vars

\* "Plan text from a prior plan_ready event - passed back by CLI when user approves
\* the plan" (agent/loop-types.ts): an approved task is written by its plan too.
ApprovedPlanIsKept ==
  setting.approved /\ wrote => tracker.origin = "node"

\* "TypeScript verification passed." says the stop after a verified write
\* (agent/completion-orchestrator.ts): the loop has no failed type check then.
VerifiedStopIsVerified == outcome = "verified" => typecheck # "failed"
=============================================================================
