--------------------------- MODULE AgentLoopProofs ---------------------------
(***************************************************************************)
(* Theorems about AgentLoop for every number of rounds, calls, nodes and   *)
(* callers and every choice of the limits.                                 *)
(*                                                                         *)
(*   TypeInv    types, and no gate at its limit while the run goes on      *)
(*   PlanFirst  a complex task waits for its plan before it writes         *)
(*   Compiles   the last type check is about the code as it is             *)
(*   Gated      what the gates saw holds until the answer is given         *)
(*                                                                         *)
(* Each is kept by every action; TypeInv comes first, the others cite it.  *)
(***************************************************************************)
EXTENDS AgentLoop, TLAPS

USE BoundsAssumption, CallersAssumption, SettingsAssumption

(***************************************************************************)
(* Type correctness and the counters of the gate overflow.                 *)
(***************************************************************************)

(* While the run goes on no gate is at its limit, and a row of rounds with *)
(* obligations pending is counted in full.                                 *)
Counters ==
  /\ pc # "ended" => \A g \in Gates : counts[g].count < OverflowLimit
  /\ streak <= counts["obligations"].count

TypeInv == TypeOK /\ Counters

LEMMA NewTurnType == NewTurn \in Turn
  BY DEF NewTurn, Turn

LEMMA NodeTrackerType == ASSUME NEW n \in BOOLEAN PROVE NodeTracker(n) \in Tracker
  BY DEF NodeTracker, Tracker, Origins, Kinds

(* A further call in a reply. *)
LEMMA CalledType ==
  ASSUME TypeOK, MoreCalls
  PROVE  [turn EXCEPT !.calls = @ + 1] \in Turn
<1>1. turn \in Turn /\ turn.calls < MaxCalls
  BY DEF TypeOK, MoreCalls
<1>2. QED
  BY <1>1 DEF Turn

LEMMA VerifiedType ==
  ASSUME turn \in Turn, NEW c \in 0..MaxCalls, NEW P \in SUBSET Kinds
  PROVE  [turn EXCEPT !.calls = c, !.results = TRUE, !.passed = P] \in Turn
  BY DEF Turn

LEMMA WrittenType ==
  ASSUME turn \in Turn, NEW c \in 0..MaxCalls, NEW m \in SUBSET Files,
         NEW r \in SUBSET Callers, NEW g \in BOOLEAN
  PROVE  [turn EXCEPT !.calls = c, !.modified = m, !.reported = r, !.removed = g] \in Turn
  BY DEF Turn

LEMMA TypeInit == Init => TypeInv
<1> SUFFICES ASSUME Init PROVE TypeInv
  OBVIOUS
<1>1. tracker \in Tracker
  <2>1. CASE tracker = NoTracker
    BY <2>1 DEF Tracker, NoTracker, Origins, Kinds
  <2>2. CASE tracker # NoTracker
    <3>1. PICK o \in {"keyword", "triage"}, n \in BOOLEAN :
            tracker = [origin |-> o, phase |-> IF setting.complex THEN "planning" ELSE "building",
                       named |-> n, marked |-> FALSE, proofs |-> {}]
      BY <2>2 DEF Init
    <3>2. (IF setting.complex THEN "planning" ELSE "building") \in {"planning", "building"}
      OBVIOUS
    <3> HIDE DEF Init
    <3>3. QED
      BY <3>1, <3>2 DEF Tracker, Origins, Kinds
  <2>3. QED
    BY <2>1, <2>2
<1>2. counts \in [Gates -> [count: 0..OverflowLimit, seen: 0..MaxRounds]]
  BY DEF Init
<1>3. Counters
  BY DEF Init, Gates, Counters
<1>4. /\ round \in 0..MaxRounds /\ left \in 0..MaxNodes /\ rejections \in 0..MaxRejections
      /\ judged \in 0..JudgeLimit /\ streak \in 0..OverflowLimit
  BY DEF Init
<1>5. wrote \in BOOLEAN /\ erred \in BOOLEAN /\ selfEdited \in BOOLEAN /\ broken \in BOOLEAN
  BY DEF Init
<1>6. QED
  BY <1>1, <1>2, <1>3, <1>4, <1>5, NewTurnType DEF Init, TypeInv, TypeOK, Outcomes

LEMMA TypeStep == TypeInv /\ [Next]_vars => TypeInv'
<1> SUFFICES ASSUME TypeInv, [Next]_vars PROVE TypeInv'
  OBVIOUS
<1> USE DEF TypeInv, TypeOK, Counters
<1>1. CASE RoundEnds
  BY <1>1 DEF RoundEnds, Stop, plan, memory, truth, Outcomes
<1>2. CASE StreamFails
  BY NewTurnType, <1>2 DEF StreamFails, Stop, NextRound, LastRound, plan, memory,
         truth, Outcomes
<1>3. CASE TextReply
  BY <1>3 DEF TextReply, Pass, plan, memory, truth
<1>4. CASE ToolReply
  BY <1>4 DEF ToolReply, Pass, plan, memory, truth, Turn
<1>5. CASE RippleExit
  BY NewTurnType, <1>5 DEF RippleExit, NextRound, plan, memory, truth, Stop,
         LastRound, Outcomes
<1>6. CASE PlanRejected
  BY NewTurnType, <1>6 DEF PlanRejected, NextRound, memory, truth, Stop, LastRound,
         Outcomes
<1>7. CASE PlanAccepted
  BY NewTurnType, NodeTrackerType, <1>7 DEF PlanAccepted, NextRound, memory, truth,
         ActivatePlan, Stop, LastRound, Outcomes
<1>8. CASE PlanReady
  BY <1>8 DEF PlanReady, Stop, memory, truth, Outcomes
<1>9. CASE TrackerGate
  BY NewTurnType, <1>9 DEF TrackerGate, NextRound, plan, memory, truth, Stop,
         LastRound, Outcomes
<1>10. CASE QualityGate
  BY NewTurnType, <1>10 DEF QualityGate, NextRound, plan, memory, truth, Stop,
         LastRound, Outcomes
<1>11. CASE ChainPasses
  BY <1>11 DEF ChainPasses, Pass, plan, memory, truth
<1>12. CASE ExternalGate
  BY NewTurnType, <1>12 DEF ExternalGate, Pass, plan, memory, truth, Held, Stop,
         NextRound, LastRound, Outcomes
<1>13. CASE JudgeSkipped
  BY <1>13 DEF JudgeSkipped, Pass, plan, memory, truth
<1>14. CASE Judge
  BY NewTurnType, <1>14 DEF Judge, Stop, Pass, NextRound, plan, memory, truth,
         JudgeDue, LastRound, Outcomes
<1>15. CASE EvidenceGate
  BY NewTurnType, <1>15 DEF EvidenceGate, plan, memory, truth, Held, Stop, NextRound,
         LastRound, Outcomes
<1>16. CASE NextNode
  BY NewTurnType, NodeTrackerType, <1>16 DEF NextNode, NextRound, memory, truth,
         Stop, LastRound, Outcomes
<1>17. CASE Deliver
  BY <1>17 DEF Deliver, Stop, plan, memory, truth, Outcomes
<1>18. CASE OtherTool
  <2>1. turn' \in Turn
    BY <1>18, CalledType DEF OtherTool
  <2>2. erred' \in BOOLEAN /\ typecheck' \in {"none", "passed", "failed"}
      /\ trust' \in {"untouched", "tracked", "lost"}
    BY <1>18 DEF OtherTool, ReadsText, Barred
  <2>3. QED
    BY <1>18, <2>1, <2>2 DEF OtherTool, plan
<1>19. CASE ShellEdit
  <2>1. turn' \in Turn
    BY <1>19, CalledType DEF ShellEdit
  <2>2. QED
    BY <1>19, <2>1 DEF ShellEdit, plan
<1>20. CASE CallsDone
  BY <1>20 DEF CallsDone, Pass, plan, memory, truth
<1>21. ASSUME NEW kind \in Kinds, VerifyTool(kind)
      PROVE  TypeInv'
  <2>1. PICK ok \in BOOLEAN :
         /\ turn' = [turn EXCEPT !.calls = @ + 1, !.results = TRUE,
                                 !.passed = IF ok THEN @ \cup {kind} ELSE @]
         /\ erred' \in IF ok THEN {erred, TRUE} ELSE {TRUE}
         /\ typecheck' = IF kind # "typecheck" THEN typecheck
                         ELSE IF ok THEN "passed" ELSE "failed"
         /\ trust' = IF kind = "typecheck" /\ ok /\ TRUE \notin Verdicts
                     THEN "lost" ELSE trust
    BY <1>21, Zenon DEF VerifyTool
  <2>2. turn' \in Turn
    <3>1. turn.calls < MaxCalls
      BY <1>21 DEF VerifyTool, MoreCalls
    <3> DEFINE passed2 == IF ok THEN turn.passed \cup {kind} ELSE turn.passed
    <3>2. passed2 \in SUBSET Kinds
      BY <1>21 DEF Turn
    <3>3. turn' = [turn EXCEPT !.calls = @ + 1, !.results = TRUE, !.passed = passed2]
      BY <2>1
    <3> HIDE DEF passed2
    <3>4. turn.calls + 1 \in 0..MaxCalls
      BY <3>1 DEF Turn
    <3>5. QED
      BY <3>2, <3>3, <3>4, VerifiedType
  <2>3. /\ erred' \in BOOLEAN /\ typecheck' \in {"none", "passed", "failed"}
        /\ trust' \in {"untouched", "tracked", "lost"}
    BY <2>1
  <2>4. QED
    BY <1>21, <2>2, <2>3 DEF VerifyTool, plan
<1>22. ASSUME NEW F \in {{"doc"}} \cup ((SUBSET TsFiles) \ {{}}), NEW gone \in BOOLEAN,
             WriteTool(F, gone)
      PROVE  TypeInv'
  <2>1. turn' \in Turn
    <3> DEFINE gone2 == IF F \cap TsFiles = {} THEN turn.removed
                        ELSE gone /\ (turn.removed \/ turn.modified \cap TsFiles \subseteq F)
    <3>1. PICK reported \in (IF "lib" \in F /\ ~gone THEN SUBSET (Callers \ F) ELSE {{}}) :
            turn' = [turn EXCEPT !.calls = @ + 1, !.modified = @ \cup F,
                                 !.reported = @ \cup reported, !.removed = gone2]
      BY <1>22 DEF WriteTool
    <3>2. gone2 \in BOOLEAN
      BY DEF Turn
    <3>3. F \subseteq Files
      BY DEF Files, TsFiles
    <3>4. turn.calls < MaxCalls
      BY <1>22 DEF WriteTool, MoreCalls
    <3> HIDE DEF gone2
    <3>5. QED
      <4> DEFINE m == turn.modified \cup F
                 r == turn.reported \cup reported
      <4>1. m \subseteq Files /\ r \subseteq Callers
        BY <3>3 DEF Turn
      <4>2. turn' = [turn EXCEPT !.calls = @ + 1, !.modified = m, !.reported = r, !.removed = gone2]
        BY <3>1
      <4> HIDE DEF m, r
      <4>3. QED
        <5>1. turn.calls + 1 \in 0..MaxCalls
          BY <3>4 DEF Turn
        <5>2. QED
          BY <3>2, <4>1, <4>2, <5>1, WrittenType
  <2>2. broken' \in BOOLEAN /\ erred' \in BOOLEAN /\ wrote' \in BOOLEAN
      /\ trust' \in {"untouched", "tracked", "lost"}
    BY <1>22 DEF WriteTool
  <2>3. QED
    BY <1>22, <2>1, <2>2 DEF WriteTool, plan
<1>23. CASE RippleCheck
  <2>1. CASE turn.modified = {}
    BY <1>23, <2>1 DEF RippleCheck, Pass, plan, truth
  <2>2. CASE turn.modified # {}
    <3> DEFINE fin == /\ setting.intent = "narrow_edit" /\ WroteTs
                      /\ owed' = {} /\ typecheck' = "passed" /\ ~turn'.lacking
    <3>1. PICK verdict \in {"passed", "failed", "unavailable"}, lacking \in BOOLEAN :
            /\ owed' = (IF verdict = "passed" THEN owed \ turn.modified ELSE owed)
                        \cup (turn.reported \ turn.modified)
            /\ typecheck' = CASE verdict = "passed" -> IF typecheck = "failed" THEN "failed" ELSE "passed"
                              [] verdict = "failed" -> "failed"
                              [] verdict = "unavailable" -> "passed"
            /\ turn' = [turn EXCEPT
                 !.lacking = lacking,
                 !.finishing = /\ setting.intent = "narrow_edit" /\ WroteTs
                               /\ owed' = {} /\ typecheck' = "passed" /\ ~lacking]
      <4>1. setting.checker \in {"lsp", "tsc", "none"}
        BY DEF Setting
      <4>2. RippleVerdicts \subseteq {"passed", "failed", "unavailable"}
        BY <4>1 DEF RippleVerdicts
      <4>3. QED
        BY <1>23, <2>2, <4>2 DEF RippleCheck
    <3>2. owed' \subseteq Callers
      BY <3>1 DEF Turn
    <3>3. typecheck' \in {"none", "passed", "failed"}
      BY <3>1
    <3>4. turn' \in Turn
      <4> DEFINE ends == /\ setting.intent = "narrow_edit" /\ WroteTs
                         /\ owed' = {} /\ typecheck' = "passed" /\ ~lacking
      <4>1. turn' = [turn EXCEPT !.lacking = lacking, !.finishing = ends]
        BY <3>1
      <4>2. ends \in BOOLEAN
        OBVIOUS
      <4> HIDE DEF ends
      <4>3. QED
        BY <4>1, <4>2 DEF Turn
    <3>5. QED
      BY <1>23, <3>2, <3>3, <3>4 DEF RippleCheck, Pass, plan, truth
  <2>3. QED
    BY <2>1, <2>2
<1>24. CASE Overflow
  <2>1. \A g \in Gates : counts[g].count \in 0..OverflowLimit - 1 /\ counts[g].seen \in 0..MaxRounds
    BY <1>24 DEF Overflow
  <2>2. \A g \in Gates : Counted(g) \in [count: 0..OverflowLimit, seen: 0..MaxRounds]
    BY <2>1 DEF Counted
  <2>3. counts' \in [Gates -> [count: 0..OverflowLimit, seen: 0..MaxRounds]]
    BY <1>24, <2>2 DEF Overflow
  <2>4. streak' \in 0..OverflowLimit /\ streak' <= counts'["obligations"].count
    <3>1. "obligations" \in Gates /\ counts'["obligations"] = Counted("obligations")
      BY <1>24 DEF Overflow, Gates
    <3>2. CASE owed # {}
      <4>1. Counted("obligations").count = counts["obligations"].count + 1
        BY <3>2 DEF Counted, Blocking
      <4>2. QED
        BY <1>24, <2>1, <3>1, <3>2, <4>1 DEF Overflow
    <3>3. CASE owed = {}
      BY <1>24, <2>3, <3>1, <3>3 DEF Overflow
    <3>4. QED
      BY <3>2, <3>3
  <2>5. CASE \E g \in Gates : counts'[g].count >= OverflowLimit
    BY <1>24, <2>3, <2>4, <2>5 DEF Overflow, Stop, plan, Outcomes
  <2>6. CASE \A g \in Gates : counts'[g].count < OverflowLimit
    <3>1. Pass("settle") /\ UNCHANGED turn
      BY <1>24, <2>1, <2>2, <2>3, <2>6 DEF Overflow
    <3>2. QED
      BY <1>24, <2>3, <2>4, <2>6, <3>1 DEF Overflow, Pass, plan
  <2>7. QED
    <3>1. \A g \in Gates : counts'[g].count \in Nat
      BY <2>3
    <3>2. QED
      BY <2>5, <2>6, <3>1
<1>25. CASE AcceptPlan
  <2>1. tracker' \in Tracker /\ left' \in 0..MaxNodes /\ turn' \in Turn
    <3>1. CASE UNCHANGED <<tracker, left, turn>>
      BY <3>1
    <3>2. CASE tracker' = [tracker EXCEPT !.phase = "building"] /\ UNCHANGED <<left, turn>>
      BY <3>2 DEF Tracker
    <3>3. CASE ActivatePlan /\ UNCHANGED turn
      BY <3>3, NodeTrackerType DEF ActivatePlan
    <3>4. CASE turn' = [turn EXCEPT !.replan = ~LastRound] /\ UNCHANGED <<tracker, left>>
      <4>1. (~LastRound) \in BOOLEAN
        BY DEF LastRound
      <4>2. QED
        BY <3>4, <4>1 DEF Turn
    <3>5. QED
      BY <1>25, <3>1, <3>2, <3>3, <3>4 DEF AcceptPlan
  <2>2. QED
    BY <1>25, <2>1 DEF AcceptPlan, Pass, memory, truth
<1>26. CASE Track
  <2>1. typecheck' \in {"none", "passed", "failed"}
    BY <1>26 DEF Track, BatchCheck
  <2>2. tracker' \in Tracker /\ ledger' \subseteq Kinds
    <3>1. CASE UNCHANGED <<tracker, ledger>>
      BY <3>1
    <3>2. CASE Tracked /\ tracker.phase # "complete"
      <4> DEFINE proofs == tracker.proofs \cup turn.passed
                           \cup (IF typecheck' = "passed" THEN {"typecheck"} ELSE {})
      <4> DEFINE t(m) == [tracker EXCEPT !.marked = m, !.proofs = proofs]
      <4>1. proofs \subseteq Kinds
        BY DEF Tracker, Turn, Kinds
      <4>2. PICK m \in {tracker.marked, tracker.marked \/ (Markable(tracker) /\ turn.modified # {})} :
              tracker' = IF StepsDone(t(m)) THEN [t(m) EXCEPT !.phase = "complete"] ELSE t(m)
        BY <1>26, <3>2 DEF Track
      <4>3. m \in BOOLEAN
        BY DEF Tracker
      <4> HIDE DEF proofs
      <4>4. t(m) \in Tracker
        BY <4>1, <4>3 DEF Tracker
      <4> HIDE DEF t
      <4>5. tracker' \in Tracker
        BY <4>2, <4>4 DEF Tracker
      <4>6. QED
        BY <1>26, <3>2, <4>5 DEF Track, Turn
    <3>3. QED
      BY <1>26, <3>1, <3>2 DEF Track
  <2>3. QED
    BY <1>26, <2>1, <2>2 DEF Track, Pass, truth
<1>27. CASE Replan
  BY NewTurnType, <1>27 DEF Replan, NextRound, plan, memory, truth, Stop, LastRound,
         Outcomes
<1>28. CASE SelfEditGate
  <2>1. selfEdited' \in BOOLEAN
    BY <1>28 DEF SelfEditGate
  <2>2. /\ UNCHANGED <<setting, plan, judged, owed, typecheck, verified, ledger, wrote, erred, counts, truth>>
        /\ pc = "decide"
        /\ (Pass("finish") /\ UNCHANGED turn) \/ Stop("restart") \/ NextRound
    BY <1>28 DEF SelfEditGate
  <2>3. QED
    <3>1. CASE Pass("finish") /\ UNCHANGED turn
      BY <2>1, <2>2, <3>1 DEF Pass, plan, truth
    <3>2. CASE Stop("restart")
      BY <2>1, <2>2, <3>2 DEF Stop, plan, truth, Outcomes
    <3>3. CASE NextRound
      BY <2>1, <2>2, <3>3, NewTurnType DEF Stop, NextRound, LastRound, plan, truth,
         Outcomes
    <3>4. QED
      BY <2>2, <3>1, <3>2, <3>3
<1>29. CASE FinishRound
  BY NewTurnType, <1>29 DEF FinishRound, Stop, NextRound, LastRound, plan, memory,
         truth, Outcomes
<1>30. CASE UNCHANGED vars
  BY <1>30 DEF vars
<1>q. QED
  BY <1>1, <1>2, <1>3, <1>4, <1>5, <1>6, <1>7, <1>8, <1>9, <1>10, <1>11, <1>12, <1>13,
     <1>14, <1>15, <1>16, <1>17, <1>18, <1>19, <1>20, <1>21, <1>22, <1>23, <1>24, <1>25,
     <1>26, <1>27, <1>28, <1>29, <1>30 DEF
         Next, Ask, Chain, Claim, Tools, Settle, Ended

(* Every variable keeps its type: the counters of rejections, judgements, blocks and
   nodes never leave their bounds (their guards sit in five different modules). *)
THEOREM TypeCorrect == Spec => []TypeOK
<1>1. TypeInv => TypeOK
  BY DEF TypeInv
<1>2. QED
  BY <1>1, TypeInit, TypeStep, PTL DEF Spec

(* Obligations that stay pending in OverflowLimit rounds of tools in a row end the run
   (gates/overflow.ts). *)
THEOREM StuckEnds == Spec => []StuckIsBounded
<1>1. TypeInv => StuckIsBounded
  <2> SUFFICES ASSUME TypeInv, pc = "open" PROVE streak < OverflowLimit
    BY DEF StuckIsBounded
  <2>1. counts["obligations"].count < OverflowLimit /\ streak <= counts["obligations"].count
    BY DEF TypeInv, Counters, Gates
  <2>2. counts["obligations"].count \in Nat /\ streak \in Nat
    BY DEF TypeInv, TypeOK, Gates
  <2>3. QED
    BY <2>1, <2>2
<1>2. QED
  BY <1>1, TypeInit, TypeStep, PTL DEF Spec

(***************************************************************************)
(* A complex task is built on a plan.                                      *)
(***************************************************************************)

(* Until a plan is active the tracker of the prompt waits for it and       *)
(* nothing is written.                                                     *)
PlanFirst ==
  setting.complex /\ ~setting.approved =>
    tracker.origin = "node" \/ (tracker.phase = "planning" /\ ~wrote)

(* What updateTaskTrackerAfterTools may do to a tracker.                   *)
TrackerGrows ==
  /\ tracker'.origin = tracker.origin
  /\ (tracker'.phase = "planning") <=> (tracker.phase = "planning")
  /\ (tracker'.marked => tracker.marked \/ turn.modified # {})
  /\ tracker'.proofs \subseteq tracker.proofs \cup turn.passed \cup {"typecheck"}
  /\ (StepsDone(tracker') => tracker'.phase = "complete")
  /\ ledger' = ledger \cup turn.passed

LEMMA TrackShape == ASSUME TypeOK, Track PROVE UNCHANGED <<tracker, ledger>> \/ TrackerGrows
<1> SUFFICES ASSUME ~(~Tracked \/ tracker.phase = "complete") PROVE TrackerGrows
  BY DEF Track
<1>1. tracker \in Tracker /\ turn.passed \subseteq Kinds
  BY DEF TypeOK, Turn
<1>2. tracker.proofs \subseteq Kinds /\ tracker.marked \in BOOLEAN
  BY <1>1 DEF Tracker
<1> DEFINE Q == tracker.proofs \cup turn.passed
                \cup (IF typecheck' = "passed" THEN {"typecheck"} ELSE {})
<1>3. Q \subseteq Kinds /\ Q \subseteq tracker.proofs \cup turn.passed \cup {"typecheck"}
  BY <1>1, <1>2 DEF Kinds
<1>4. PICK m \in {tracker.marked, tracker.marked \/ (Markable(tracker) /\ turn.modified # {})} :
        LET t == [tracker EXCEPT !.marked = m, !.proofs = Q]
        IN  tracker' = IF StepsDone(t) THEN [t EXCEPT !.phase = "complete"] ELSE t
  BY DEF Track
<1>5. m \in BOOLEAN /\ (m => tracker.marked \/ turn.modified # {})
  BY <1>2
<1>6. ledger' = ledger \cup turn.passed
  BY DEF Track
<1> HIDE DEF Q
<1> DEFINE t == [tracker EXCEPT !.marked = m, !.proofs = Q]
<1>7. /\ t \in Tracker /\ t.origin = tracker.origin /\ t.phase = tracker.phase
      /\ t.marked = m /\ t.proofs = Q
  BY <1>1, <1>3, <1>5 DEF Tracker
<1>8. tracker' = IF StepsDone(t) THEN [t EXCEPT !.phase = "complete"] ELSE t
  BY <1>4
<1> HIDE DEF t
<1>9. /\ tracker'.origin = t.origin /\ tracker'.marked = t.marked /\ tracker'.proofs = t.proofs
      /\ tracker'.phase = IF StepsDone(t) THEN "complete" ELSE t.phase
  BY <1>7, <1>8 DEF Tracker
<1>10. StepsDone(t) => t.phase # "planning"
  BY DEF StepsDone
<1>11. StepsDone(tracker') => StepsDone(t)
  BY <1>8
<1>12. (tracker'.phase = "planning") <=> (tracker.phase = "planning")
  BY <1>7, <1>9, <1>10
<1>13. tracker'.marked => tracker.marked \/ turn.modified # {}
  BY <1>5, <1>7, <1>9
<1>14. StepsDone(tracker') => tracker'.phase = "complete"
  BY <1>9, <1>11
<1>15. tracker'.origin = tracker.origin
  BY <1>7, <1>9
<1>16. tracker'.proofs \subseteq tracker.proofs \cup turn.passed \cup {"typecheck"}
  BY <1>3, <1>7, <1>9
<1>17. QED
  BY <1>6, <1>12, <1>13, <1>14, <1>15, <1>16 DEF TrackerGrows

LEMMA PlanFirstStep == TypeInv /\ PlanFirst /\ [Next]_vars => PlanFirst'
<1> SUFFICES ASSUME TypeInv, PlanFirst, [Next]_vars PROVE PlanFirst'
  OBVIOUS
<1> USE DEF PlanFirst
<1>1. CASE RoundEnds
  BY <1>1 DEF RoundEnds, Stop, plan, memory, truth
<1>2. CASE StreamFails
  BY <1>2 DEF StreamFails, Stop, NextRound, LastRound, plan, memory, truth
<1>3. CASE TextReply
  BY <1>3 DEF TextReply, Pass, plan, memory, truth
<1>4. CASE ToolReply
  BY <1>4 DEF ToolReply, Pass, plan, memory, truth
<1>5. CASE RippleExit
  BY <1>5 DEF RippleExit, NextRound, plan, memory, truth, Stop, LastRound
<1>6. CASE PlanRejected
  BY <1>6 DEF PlanRejected, NextRound, memory, truth, Stop, LastRound
<1>7. CASE PlanAccepted
  BY <1>7 DEF PlanAccepted, NextRound, memory, truth, ActivatePlan, Stop, LastRound,
         NodeTracker
<1>8. CASE PlanReady
  BY <1>8 DEF PlanReady, Stop, memory, truth
<1>9. CASE TrackerGate
  BY <1>9 DEF TrackerGate, NextRound, plan, memory, truth, Stop, LastRound
<1>10. CASE QualityGate
  BY <1>10 DEF QualityGate, NextRound, plan, memory, truth, Stop, LastRound
<1>11. CASE ChainPasses
  BY <1>11 DEF ChainPasses, Pass, plan, memory, truth
<1>12. CASE ExternalGate
  BY <1>12 DEF ExternalGate, Pass, plan, memory, truth, Held, Stop, NextRound,
         LastRound
<1>13. CASE JudgeSkipped
  BY <1>13 DEF JudgeSkipped, Pass, plan, memory, truth
<1>14. CASE Judge
  BY <1>14 DEF Judge, Stop, Pass, NextRound, plan, memory, truth, LastRound
<1>15. CASE EvidenceGate
  BY <1>15 DEF EvidenceGate, plan, memory, truth, Held, Stop, NextRound, LastRound
<1>16. CASE NextNode
  BY <1>16 DEF NextNode, NextRound, memory, truth, NodeTracker, Stop, LastRound
<1>17. CASE Deliver
  BY <1>17 DEF Deliver, Stop, plan, memory, truth
<1>18. CASE OtherTool
  BY <1>18 DEF OtherTool, plan
<1>19. CASE ShellEdit
  BY <1>19 DEF ShellEdit, plan, MayWrite
<1>20. CASE CallsDone
  BY <1>20 DEF CallsDone, Pass, plan, memory, truth
<1>21. ASSUME NEW kind \in Kinds, VerifyTool(kind)
      PROVE  PlanFirst'
  BY <1>21 DEF VerifyTool, plan, MayWrite
<1>22. ASSUME NEW F \in {{"doc"}} \cup ((SUBSET TsFiles) \ {{}}), NEW gone \in BOOLEAN,
             WriteTool(F, gone)
      PROVE  PlanFirst'
  <2>1. UNCHANGED <<setting, tracker>> /\ tracker.phase # "planning"
    BY <1>22 DEF WriteTool, MayWrite, plan
  <2>2. setting.complex /\ ~setting.approved => tracker.origin = "node"
    BY <2>1
  <2>3. setting' = setting /\ tracker' = tracker
    BY <2>1
  <2>4. QED
    BY <2>2, <2>3, Zenon
<1>23. CASE RippleCheck
  BY <1>23 DEF RippleCheck, Pass, plan, truth
<1>24. CASE Overflow
  BY <1>24 DEF Overflow, Stop, Pass, plan
<1>25. CASE AcceptPlan
  BY <1>25 DEF AcceptPlan, ActivatePlan, NodeTracker, memory
<1>26. CASE Track
  BY TrackShape, <1>26 DEF Track, TypeInv, TrackerGrows
<1>27. CASE Replan
  BY <1>27 DEF Replan, NextRound, plan, memory, truth, Stop, LastRound
<1>28. CASE SelfEditGate
  BY <1>28 DEF SelfEditGate, Stop, Pass, NextRound, LastRound, plan, truth
<1>29. CASE FinishRound
  BY <1>29 DEF FinishRound, Stop, NextRound, LastRound, plan, memory, truth
<1>30. CASE UNCHANGED vars
  BY <1>30 DEF vars
<1>q. QED
  BY <1>1, <1>2, <1>3, <1>4, <1>5, <1>6, <1>7, <1>8, <1>9, <1>10, <1>11, <1>12, <1>13,
     <1>14, <1>15, <1>16, <1>17, <1>18, <1>19, <1>20, <1>21, <1>22, <1>23, <1>24, <1>25,
     <1>26, <1>27, <1>28, <1>29, <1>30 DEF
         Next, Ask, Chain, Claim, Tools, Settle, Ended

(* Nothing is written for a complex task before the nodes of a plan hold the tracker:
   the tool policy, the pre-round gates and the planning gate agree on the phase. *)
THEOREM PlanBeforeWrite == Spec => []BuildsOnPlan
<1>1. Init => PlanFirst
  BY DEF Init, PlanFirst, Setting
<1>2. PlanFirst => BuildsOnPlan
  BY DEF PlanFirst, BuildsOnPlan
<1>3. QED
  BY <1>1, <1>2, TypeInit, TypeStep, PlanFirstStep, PTL DEF Spec

(***************************************************************************)
(* What is delivered compiles.                                             *)
(***************************************************************************)

(* The last type check is about the code unless the round has written a    *)
(* TypeScript file and has not come to its batch check.                    *)
Fresh ==
  \/ pc \notin {"tools", "ripple", "overflow", "settle", "track", "ended"}
  \/ pc # "ended" /\ ~WroteTs

Compiles ==
  /\ pc # "ended" => outcome = "going"
  /\ pc \in {"judge", "evidence"} => typecheck # "failed"
  /\ (setting.checker = "tsc" /\ trust = "tracked") =>
       /\ (Fresh /\ typecheck # "failed") => ~broken
       /\ outcome = "delivered" => ~broken

LEMMA CompilesStep == TypeInv /\ Compiles /\ [Next]_vars => Compiles'
<1> SUFFICES ASSUME TypeInv, Compiles, [Next]_vars PROVE Compiles'
  OBVIOUS
<1>1. turn \in Turn
  BY DEF TypeInv, TypeOK
<1> USE DEF Compiles, Fresh, WroteTs
<1>2. CASE RoundEnds
  BY <1>2 DEF RoundEnds, Stop, plan, memory, truth
<1>3. CASE StreamFails
  BY <1>3 DEF StreamFails, Stop, NextRound, LastRound, plan, memory, truth, NewTurn
<1>4. CASE TextReply
  BY <1>4 DEF TextReply, Pass, plan, memory, truth
<1>5. CASE ToolReply
  BY <1>5 DEF ToolReply, Pass, plan, memory, truth
<1>6. CASE RippleExit
  BY <1>6 DEF RippleExit, NextRound, plan, memory, truth, Stop, LastRound, NewTurn
<1>7. CASE PlanRejected
  BY <1>7 DEF PlanRejected, NextRound, memory, truth, Stop, LastRound, NewTurn
<1>8. CASE PlanAccepted
  BY <1>8 DEF PlanAccepted, NextRound, memory, truth, ActivatePlan, Stop, LastRound,
         NewTurn, NodeTracker
<1>9. CASE PlanReady
  BY <1>9 DEF PlanReady, Stop, memory, truth
<1>10. CASE TrackerGate
  BY <1>10 DEF TrackerGate, NextRound, plan, memory, truth, Stop, LastRound, NewTurn
<1>11. CASE QualityGate
  BY <1>11 DEF QualityGate, NextRound, plan, memory, truth, Stop, LastRound, NewTurn
<1>12. CASE ChainPasses
  BY <1>12 DEF ChainPasses, Pass, plan, memory, truth
<1>13. CASE ExternalGate
  BY <1>13 DEF ExternalGate, Pass, plan, memory, truth, Held, NothingMissing, Stop,
         NextRound, LastRound, NewTurn
<1>14. CASE JudgeSkipped
  BY <1>14 DEF JudgeSkipped, Pass, plan, memory, truth
<1>15. CASE Judge
  BY <1>15 DEF Judge, Stop, Pass, NextRound, plan, memory, truth, LastRound, NewTurn
<1>16. CASE EvidenceGate
  BY <1>16 DEF EvidenceGate, plan, memory, truth, Held, Stop, NextRound, LastRound,
         NewTurn
<1>17. CASE NextNode
  BY <1>17 DEF NextNode, NextRound, memory, truth, NodeTracker, Stop, LastRound,
         NewTurn
<1>18. CASE Deliver
  BY <1>18 DEF Deliver, Stop, plan, memory, truth
<1>19. CASE OtherTool
  <2>1. turn'.modified = turn.modified
    BY <1>19, <1>1 DEF OtherTool, MoreCalls, Turn
  <2>2. pc = "tools" /\ UNCHANGED <<setting, pc, outcome, broken>>
    BY <1>19 DEF OtherTool, MoreCalls
  <2>3. UNCHANGED <<typecheck, trust>> \/ (typecheck' = "failed" /\ UNCHANGED trust) \/ trust' = "lost"
    BY <1>19 DEF OtherTool, ReadsText
  <2>4. QED
    BY <2>1, <2>2, <2>3
<1>20. CASE ShellEdit
  BY <1>20 DEF ShellEdit, plan, MayWrite, MoreCalls
<1>21. CASE CallsDone
  BY <1>21 DEF CallsDone, Pass, plan, memory, truth
<1>22. ASSUME NEW kind \in Kinds, VerifyTool(kind)
      PROVE  Compiles'
  <2>1. turn'.modified = turn.modified
    BY <1>22, <1>1 DEF VerifyTool, MoreCalls, Turn
  <2>2. /\ pc = "tools" /\ UNCHANGED <<setting, pc, outcome, broken>>
        /\ trust' \in {trust, "lost"}
    BY <1>22 DEF VerifyTool, MoreCalls
  <2>3. \/ typecheck' = typecheck
        \/ typecheck' = "failed"
        \/ trust' = "lost"
        \/ setting.checker = "tsc" => ~broken
    BY <1>22 DEF VerifyTool, Verdicts
  <2>4. QED
    BY <2>1, <2>2, <2>3
<1>23. ASSUME NEW F \in {{"doc"}} \cup ((SUBSET TsFiles) \ {{}}), NEW gone \in BOOLEAN,
             WriteTool(F, gone)
      PROVE  Compiles'
  <2>1. turn'.modified = turn.modified \cup F
    BY <1>23, <1>1 DEF WriteTool, Turn
  <2>2. pc = "tools" /\ UNCHANGED <<setting, pc, outcome, typecheck>>
    BY <1>23 DEF WriteTool, MoreCalls
  <2>3. CASE F \cap TsFiles = {}
    <3>1. UNCHANGED <<broken, trust>>
      BY <1>23, <2>3 DEF WriteTool
    <3>2. QED
      BY <2>1, <2>2, <2>3, <3>1
  <2>4. CASE F \cap TsFiles # {}
    BY <2>1, <2>2, <2>4
  <2>5. QED
    BY <2>3, <2>4
<1>24. CASE RippleCheck
  <2>1. /\ pc = "ripple" /\ pc' = "overflow"
        /\ UNCHANGED <<setting, outcome, broken, trust>>
    BY <1>24 DEF RippleCheck, Pass, truth
  <2>2. turn'.modified = turn.modified
    BY <1>24, <1>1 DEF RippleCheck, Turn
  <2>3. ~WroteTs /\ typecheck = "failed" => typecheck' = "failed"
    BY <1>24 DEF RippleCheck, RippleVerdicts
  <2>4. Fresh' /\ typecheck' # "failed" => Fresh /\ typecheck # "failed"
    BY <2>1, <2>2, <2>3
  <2>5. QED
    BY <2>1, <2>4
<1>25. CASE Overflow
  BY <1>25 DEF Overflow, Stop, Pass, plan
<1>26. CASE AcceptPlan
  <2>1. pc = "settle" /\ pc' = "track" /\ UNCHANGED <<setting, outcome, typecheck, broken, trust>>
    BY <1>26 DEF AcceptPlan, Pass, memory, truth
  <2>2. turn'.modified = turn.modified
    BY <1>26, <1>1 DEF AcceptPlan, Turn
  <2>3. QED
    BY <2>1, <2>2
<1>27. CASE Track
  BY <1>27 DEF Track, Pass, truth, BatchCheck
<1>28. CASE Replan
  BY <1>28 DEF Replan, NextRound, plan, memory, truth, Stop, LastRound, NewTurn
<1>29. CASE SelfEditGate
  BY <1>29 DEF SelfEditGate, Stop, Pass, NextRound, LastRound, plan, truth, NewTurn
<1>30. CASE FinishRound
  BY <1>30 DEF FinishRound, Stop, NextRound, LastRound, plan, memory, truth, NewTurn
<1>31. CASE UNCHANGED vars
  BY <1>31 DEF vars
<1>q. QED
  BY <1>2, <1>3, <1>4, <1>5, <1>6, <1>7, <1>8, <1>9, <1>10, <1>11, <1>12, <1>13, <1>14,
     <1>15, <1>16, <1>17, <1>18, <1>19, <1>20, <1>21, <1>22, <1>23, <1>24, <1>25, <1>26,
     <1>27, <1>28, <1>29, <1>30, <1>31 DEF
         Next, Ask, Chain, Claim, Tools, Settle, Ended

(* A delivered result compiles when tsc answers and the loop saw every write: every
   round that writes ends in a batch type check, no gate lets a failed one through, and
   nothing between the two writes. *)
THEOREM DeliveryCompiles == Spec => []DeliveredCompiles
<1>1. Init => Compiles
  BY DEF Init, Compiles
<1>2. Compiles => DeliveredCompiles
  BY DEF Compiles, DeliveredCompiles
<1>3. QED
  BY <1>1, <1>2, TypeInit, TypeStep, CompilesStep, PTL DEF Spec

(***************************************************************************)
(* Every run ends.                                                         *)
(***************************************************************************)

LEMMA StepRises == TypeInv /\ [Next]_vars => Rises \/ UNCHANGED vars
<1> SUFFICES ASSUME TypeInv, [Next]_vars PROVE Rises \/ UNCHANGED vars
  OBVIOUS
<1>1. turn \in Turn /\ turn.calls \in Nat /\ round \in Nat
  BY DEF TypeInv, TypeOK, Turn
<1> USE DEF Rises, Stage
<1>2. CASE RoundEnds
  BY <1>1, <1>2 DEF RoundEnds, Stop
<1>3. CASE StreamFails
  BY <1>1, <1>3 DEF StreamFails, Stop, NextRound, LastRound
<1>4. CASE TextReply
  BY <1>1, <1>4 DEF TextReply, Pass
<1>5. CASE ToolReply
  BY <1>1, <1>5 DEF ToolReply, Pass
<1>6. CASE RippleExit
  BY <1>1, <1>6 DEF RippleExit, NextRound, Stop, LastRound
<1>7. CASE PlanRejected
  BY <1>1, <1>7 DEF PlanRejected, NextRound, Stop, LastRound
<1>8. CASE PlanAccepted
  BY <1>1, <1>8 DEF PlanAccepted, NextRound, Stop, LastRound
<1>9. CASE PlanReady
  BY <1>1, <1>9 DEF PlanReady, Stop
<1>10. CASE TrackerGate
  BY <1>1, <1>10 DEF TrackerGate, NextRound, Stop, LastRound
<1>11. CASE QualityGate
  BY <1>1, <1>11 DEF QualityGate, NextRound, Stop, LastRound
<1>12. CASE ChainPasses
  BY <1>1, <1>12 DEF ChainPasses, Pass
<1>13. CASE ExternalGate
  BY <1>1, <1>13 DEF ExternalGate, Pass, Held, Stop, NextRound, LastRound
<1>14. CASE JudgeSkipped
  BY <1>1, <1>14 DEF JudgeSkipped, Pass
<1>15. CASE Judge
  BY <1>1, <1>15 DEF Judge, Stop, Pass, NextRound, LastRound
<1>16. CASE EvidenceGate
  BY <1>1, <1>16 DEF EvidenceGate, Held, Stop, NextRound, LastRound
<1>17. CASE NextNode
  BY <1>1, <1>17 DEF NextNode, NextRound, Stop, LastRound
<1>18. CASE Deliver
  BY <1>1, <1>18 DEF Deliver, Stop
<1>19. CASE OtherTool
  BY <1>19, <1>1 DEF OtherTool, MoreCalls, Turn
<1>20. CASE ShellEdit
  BY <1>20, <1>1 DEF ShellEdit, MoreCalls, Turn
<1>21. CASE CallsDone
  BY <1>1, <1>21 DEF CallsDone, Pass
<1>22. ASSUME NEW kind \in Kinds, VerifyTool(kind)
      PROVE  Rises \/ UNCHANGED vars
  BY <1>22, <1>1 DEF VerifyTool, MoreCalls, Turn
<1>23. ASSUME NEW F \in {{"doc"}} \cup ((SUBSET TsFiles) \ {{}}), NEW gone \in BOOLEAN,
             WriteTool(F, gone)
      PROVE  Rises \/ UNCHANGED vars
  BY <1>23, <1>1 DEF WriteTool, MoreCalls, Turn
<1>24. CASE RippleCheck
  <2>1. pc = "ripple" /\ Pass("overflow")
    BY <1>24 DEF RippleCheck
  <2>2. QED
    BY <2>1, <1>1 DEF Pass
<1>25. CASE Overflow
  BY <1>1, <1>25 DEF Overflow, Stop, Pass
<1>26. CASE AcceptPlan
  BY <1>1, <1>26 DEF AcceptPlan, Pass, LastRound
<1>27. CASE Track
  BY <1>1, <1>27 DEF Track, Pass
<1>28. CASE Replan
  BY <1>1, <1>28 DEF Replan, NextRound, Stop, LastRound
<1>29. CASE SelfEditGate
  BY <1>1, <1>29 DEF SelfEditGate, Stop, Pass, NextRound, LastRound
<1>30. CASE FinishRound
  BY <1>1, <1>30 DEF FinishRound, Stop, NextRound, LastRound
<1>31. CASE UNCHANGED vars
  BY <1>1, <1>31 DEF vars
<1>q. QED
  BY <1>2, <1>3, <1>4, <1>5, <1>6, <1>7, <1>8, <1>9, <1>10, <1>11, <1>12, <1>13, <1>14,
     <1>15, <1>16, <1>17, <1>18, <1>19, <1>20, <1>21, <1>22, <1>23, <1>24, <1>25, <1>26,
     <1>27, <1>28, <1>29, <1>30, <1>31 DEF
         Next, Ask, Chain, Claim, Tools, Settle, Ended

(* Each step advances; rounds, stages and tool calls are bounded, so no sequence of
   retries, rejections, judgements, repairs and node changes keeps a run going. *)
THEOREM StepsAdvance == Spec => Advances
<1>1. TypeInv /\ [Next]_vars => [Rises]_vars
  BY StepRises
<1>2. QED
  BY <1>1, TypeInit, TypeStep, PTL DEF Spec, Advances

(***************************************************************************)
(* What is finished is clean.                                              *)
(***************************************************************************)

(* What the gates have seen holds until the answer is given.               *)
GatesSaw ==
  pc \in {"judge", "evidence"} => owed = {} /\ typecheck # "failed" /\ ~erred /\ ~Missing

(* A tracker that waits for its plan has done nothing and has no node.     *)
PlanningIdle ==
  /\ tracker.phase = "planning" => ~tracker.marked /\ turn.modified = {}
  /\ (tracker.phase = "planning" /\ pc # "ended") => left = 0

(* A tracker that is finished says so, and its tests are on record.        *)
FinishedOnRecord ==
  /\ StepsDone(tracker) => tracker.phase = "complete"
  /\ "test" \in tracker.proofs => "test" \in ledger

Gated == GatesSaw /\ PlanningIdle /\ FinishedOnRecord

LEMMA NodeTrackerIdle ==
  ASSUME NEW n \in BOOLEAN
  PROVE  /\ ~StepsDone(NodeTracker(n)) /\ NodeTracker(n).phase = "building"
         /\ NodeTracker(n).proofs = {} /\ NodeTracker(n).marked = FALSE
  BY DEF NodeTracker, StepsDone, Kinds

LEMMA GatedInit == Init => Gated
  BY DEF Init, Gated, GatesSaw, PlanningIdle, FinishedOnRecord, NoTracker, NewTurn,
         StepsDone, Kinds

LEMMA GatedStep == TypeInv /\ Gated /\ [Next]_vars => Gated'
<1> SUFFICES ASSUME TypeInv, Gated, [Next]_vars PROVE Gated'
  OBVIOUS
<1>1. turn \in Turn /\ tracker \in Tracker
  BY DEF TypeInv, TypeOK
<1> USE DEF Gated, GatesSaw, PlanningIdle, FinishedOnRecord
<1>2. CASE RoundEnds
  BY <1>1, <1>2 DEF RoundEnds, Stop, plan, memory, truth
<1>3. CASE StreamFails
  BY <1>1, <1>3 DEF StreamFails, Stop, NextRound, LastRound, plan, memory, truth,
         NewTurn
<1>4. CASE TextReply
  BY <1>1, <1>4 DEF TextReply, Pass, plan, memory, truth
<1>5. CASE ToolReply
  BY <1>1, <1>5 DEF ToolReply, Pass, plan, memory, truth
<1>6. CASE RippleExit
  BY <1>1, <1>6 DEF RippleExit, NextRound, plan, memory, truth, Stop, LastRound,
         NewTurn
<1>7. CASE PlanRejected
  BY <1>1, <1>7 DEF PlanRejected, NextRound, memory, truth, Stop, LastRound, NewTurn
<1>8. CASE PlanAccepted
  <2>1. \E n \in BOOLEAN : tracker' = NodeTracker(n)
    BY <1>8 DEF PlanAccepted, ActivatePlan
  <2>2. pc' \in {"open", "ended"}
    BY <1>8 DEF PlanAccepted, NextRound, Stop
  <2>3. QED
    BY <2>1, <2>2, NodeTrackerIdle
<1>9. CASE PlanReady
  BY <1>1, <1>9 DEF PlanReady, Stop, memory, truth
<1>10. CASE TrackerGate
  BY <1>1, <1>10 DEF TrackerGate, NextRound, plan, memory, truth, Stop, LastRound,
         NewTurn
<1>11. CASE QualityGate
  BY <1>1, <1>11 DEF QualityGate, NextRound, plan, memory, truth, Stop, LastRound,
         NewTurn
<1>12. CASE ChainPasses
  BY <1>1, <1>12 DEF ChainPasses, Pass, plan, memory, truth
<1>13. CASE ExternalGate
  BY <1>1, <1>13 DEF ExternalGate, Pass, plan, memory, truth, Held, NothingMissing,
         Stop, NextRound, LastRound, Missing, NewTurn, Tracked, StepsDone, Kinds
<1>14. CASE JudgeSkipped
  BY <1>1, <1>14 DEF JudgeSkipped, Pass, plan, memory, truth, Missing, Tracked,
         StepsDone
<1>15. CASE Judge
  BY <1>1, <1>15 DEF Judge, Stop, Pass, NextRound, plan, memory, truth, LastRound,
         NewTurn, Missing, Tracked, StepsDone
<1>16. CASE EvidenceGate
  BY <1>1, <1>16 DEF EvidenceGate, plan, memory, truth, Held, Stop, NextRound,
         LastRound, NewTurn
<1>17. CASE NextNode
  <2>1. pc = "evidence" /\ pc' \in {"open", "ended"} /\ (turn' = NewTurn \/ turn' = turn) /\ UNCHANGED ledger
    BY <1>17 DEF NextNode, NextRound, Stop, memory
  <2>2. CASE \E n \in BOOLEAN : tracker' = NodeTracker(n)
    BY <2>1, <2>2, NodeTrackerIdle
  <2>3. CASE UNCHANGED <<left, tracker>>
    BY <2>1, <2>3 DEF NewTurn, StepsDone
  <2>4. QED
    BY <1>17, <2>2, <2>3 DEF NextNode
<1>18. CASE Deliver
  BY <1>1, <1>18 DEF Deliver, Stop, plan, memory, truth
<1>19. CASE OtherTool
  BY <1>1, <1>19 DEF OtherTool, plan, MoreCalls
<1>20. CASE ShellEdit
  BY <1>1, <1>20 DEF ShellEdit, plan, MayWrite, MoreCalls
<1>21. CASE CallsDone
  BY <1>1, <1>21 DEF CallsDone, Pass, plan, memory, truth
<1>22. ASSUME NEW kind \in Kinds, VerifyTool(kind)
      PROVE  Gated'
  BY <1>1, <1>22 DEF VerifyTool, plan, MayWrite, MoreCalls
<1>23. ASSUME NEW F \in {{"doc"}} \cup ((SUBSET TsFiles) \ {{}}), NEW gone \in BOOLEAN,
             WriteTool(F, gone)
      PROVE  Gated'
  BY <1>1, <1>23 DEF WriteTool, plan, MayWrite, MoreCalls
<1>24. CASE RippleCheck
  BY <1>1, <1>24 DEF RippleCheck, Pass, plan, truth
<1>25. CASE Overflow
  BY <1>1, <1>25 DEF Overflow, Stop, Pass, plan
<1>26. CASE AcceptPlan
  <2>1. pc = "settle" /\ pc' = "track" /\ UNCHANGED ledger
    BY <1>26 DEF AcceptPlan, Pass, memory
  <2>2. turn'.modified = turn.modified
    BY <1>26, <1>1 DEF AcceptPlan, Turn
  <2>3. CASE UNCHANGED <<tracker, left>>
    BY <2>1, <2>2, <2>3 DEF StepsDone
  <2>4. CASE \E n \in BOOLEAN : tracker' = NodeTracker(n)
    BY <2>1, <2>4, NodeTrackerIdle
  <2>5. CASE tracker.phase = "planning" /\ tracker' = [tracker EXCEPT !.phase = "building"]
    <3>1. /\ tracker'.phase = "building" /\ ~tracker'.marked
          /\ tracker'.proofs = tracker.proofs
      BY <1>1, <2>5 DEF Tracker
    <3>2. QED
      BY <2>1, <3>1 DEF StepsDone
  <2>6. QED
    BY <1>26, <2>3, <2>4, <2>5 DEF AcceptPlan, ActivatePlan
<1>27. CASE Track
  <2>1. pc = "track" /\ pc' = "decide" /\ UNCHANGED <<left, turn>>
    BY <1>27 DEF Track, Pass
  <2>2. CASE UNCHANGED <<tracker, ledger>>
    BY <2>1, <2>2 DEF StepsDone
  <2>3. CASE TrackerGrows
    BY <2>1, <2>3 DEF TrackerGrows
  <2>4. QED
    BY <1>27, <2>2, <2>3, TrackShape DEF TypeInv
<1>28. CASE Replan
  BY <1>1, <1>28 DEF Replan, NextRound, plan, memory, truth, Stop, LastRound, NewTurn
<1>29. CASE SelfEditGate
  BY <1>1, <1>29 DEF SelfEditGate, Stop, Pass, NextRound, LastRound, plan, truth,
         NewTurn
<1>30. CASE FinishRound
  BY <1>1, <1>30 DEF FinishRound, Stop, NextRound, LastRound, plan, memory, truth,
         Missing, NewTurn, Tracked, StepsDone, Kinds
<1>31. CASE UNCHANGED vars
  BY <1>31 DEF vars, Missing, Tracked, StepsDone
<1>q. QED
  BY <1>2, <1>3, <1>4, <1>5, <1>6, <1>7, <1>8, <1>9, <1>10, <1>11, <1>12, <1>13, <1>14,
     <1>15, <1>16, <1>17, <1>18, <1>19, <1>20, <1>21, <1>22, <1>23, <1>24, <1>25, <1>26,
     <1>27, <1>28, <1>29, <1>30, <1>31 DEF
         Next, Ask, Chain, Claim, Tools, Settle, Ended

LEMMA CleanStep == TypeInv /\ Gated /\ [Next]_vars =>
  ((outcome = "going" /\ outcome' = "delivered") \/ left' < left => Clean)
<1> SUFFICES ASSUME TypeInv, Gated, [Next]_vars,
                    (outcome = "going" /\ outcome' = "delivered") \/ left' < left
             PROVE  Clean
  OBVIOUS
<1>1. left \in 0..MaxNodes
  BY DEF TypeInv, TypeOK
<1>2. pc = "evidence" => Clean
  BY DEF Gated, GatesSaw, FinishedOnRecord, Clean, Missing, StepsDone, Kinds
<1> USE DEF Stop
<1>3. CASE RoundEnds
  BY <1>1, <1>2, <1>3 DEF RoundEnds, Stop, plan, memory, truth
<1>4. CASE StreamFails
  BY <1>1, <1>2, <1>4 DEF StreamFails, Stop, NextRound, LastRound, plan, memory, truth
<1>5. CASE TextReply
  BY <1>1, <1>2, <1>5 DEF TextReply, Pass, plan, memory, truth
<1>6. CASE ToolReply
  BY <1>1, <1>2, <1>6 DEF ToolReply, Pass, plan, memory, truth
<1>7. CASE RippleExit
  BY <1>1, <1>2, <1>7 DEF RippleExit, NextRound, plan, memory, truth, Stop, LastRound
<1>8. CASE PlanRejected
  BY <1>1, <1>2, <1>8 DEF PlanRejected, NextRound, memory, truth, Stop, LastRound
<1>9. CASE PlanAccepted
  <2>1. left = 0 /\ left' \in Nat /\ outcome' # "delivered"
    BY <1>9 DEF PlanAccepted, ActivatePlan, NextRound, PlanHolds, Gated, PlanningIdle
  <2>2. QED
    BY <2>1
<1>10. CASE PlanReady
  BY <1>1, <1>2, <1>10 DEF PlanReady, Stop, memory, truth
<1>11. CASE TrackerGate
  BY <1>1, <1>2, <1>11 DEF TrackerGate, NextRound, plan, memory, truth, Stop,
         LastRound
<1>12. CASE QualityGate
  BY <1>1, <1>2, <1>12 DEF QualityGate, NextRound, plan, memory, truth, Stop,
         LastRound
<1>13. CASE ChainPasses
  BY <1>1, <1>2, <1>13 DEF ChainPasses, Pass, plan, memory, truth
<1>14. CASE ExternalGate
  BY <1>1, <1>2, <1>14 DEF ExternalGate, Pass, plan, memory, truth, Held, Stop,
         NextRound, LastRound
<1>15. CASE JudgeSkipped
  BY <1>1, <1>2, <1>15 DEF JudgeSkipped, Pass, plan, memory, truth
<1>16. CASE Judge
  BY <1>1, <1>2, <1>16 DEF Judge, Stop, Pass, NextRound, plan, memory, truth,
         LastRound
<1>17. CASE EvidenceGate
  BY <1>1, <1>2, <1>17 DEF EvidenceGate, plan, memory, truth, Held, Stop, NextRound,
         LastRound
<1>18. CASE NextNode
  BY <1>1, <1>2, <1>18 DEF NextNode, NextRound, memory, truth, Stop, LastRound
<1>19. CASE Deliver
  BY <1>1, <1>2, <1>19 DEF Deliver, Stop, plan, memory, truth
<1>20. CASE OtherTool
  BY <1>1, <1>2, <1>20 DEF OtherTool, plan
<1>21. CASE ShellEdit
  BY <1>1, <1>2, <1>21 DEF ShellEdit, plan
<1>22. CASE CallsDone
  BY <1>1, <1>2, <1>22 DEF CallsDone, Pass, plan, memory, truth
<1>23. ASSUME NEW kind \in Kinds, VerifyTool(kind)
      PROVE  Clean
  BY <1>1, <1>2, <1>23 DEF VerifyTool, plan
<1>24. ASSUME NEW F \in {{"doc"}} \cup ((SUBSET TsFiles) \ {{}}), NEW gone \in BOOLEAN,
             WriteTool(F, gone)
      PROVE  Clean
  BY <1>1, <1>2, <1>24 DEF WriteTool, plan
<1>25. CASE RippleCheck
  <2>1. UNCHANGED <<outcome, left>>
    BY <1>25 DEF RippleCheck, Pass, plan
  <2>2. QED
    BY <1>1, <2>1
<1>26. CASE Overflow
  BY <1>1, <1>2, <1>26 DEF Overflow, Stop, Pass, plan
<1>27. CASE AcceptPlan
  <2>1. UNCHANGED outcome /\ (left' = left \/ (left = 0 /\ left' \in Nat))
    BY <1>27 DEF AcceptPlan, ActivatePlan, Pass, Gated, PlanningIdle
  <2>2. QED
    BY <1>1, <2>1
<1>28. CASE Track
  BY <1>1, <1>2, <1>28 DEF Track, Pass, truth
<1>29. CASE Replan
  BY <1>1, <1>2, <1>29 DEF Replan, NextRound, plan, memory, truth, Stop, LastRound
<1>30. CASE SelfEditGate
  BY <1>1, <1>2, <1>30 DEF SelfEditGate, Stop, Pass, NextRound, LastRound, plan, truth
<1>31. CASE FinishRound
  BY <1>1, <1>2, <1>31 DEF FinishRound, Stop, NextRound, LastRound, plan, memory,
         truth
<1>32. CASE UNCHANGED vars
  BY <1>1, <1>2, <1>32 DEF vars
<1>q. QED
  BY <1>3, <1>4, <1>5, <1>6, <1>7, <1>8, <1>9, <1>10, <1>11, <1>12, <1>13, <1>14, <1>15,
     <1>16, <1>17, <1>18, <1>19, <1>20, <1>21, <1>22, <1>23, <1>24, <1>25, <1>26, <1>27,
     <1>28, <1>29, <1>30, <1>31, <1>32 DEF
         Next, Ask, Chain, Claim, Tools, Settle, Ended

(* An answer is delivered, and a node gives way to the next, only when nothing is
   owed, failed or missing at that moment: what the external gate saw outlives the judge. *)
THEOREM FinishedIsClean == Spec => FinishesClean
<1>1. TypeInv /\ Gated /\ [Next]_vars =>
        [(outcome = "going" /\ outcome' = "delivered") \/ left' < left => Clean]_vars
  BY CleanStep
<1>2. QED
  BY <1>1, TypeInit, TypeStep, GatedInit, GatedStep, PTL DEF Spec, FinishesClean

=============================================================================
