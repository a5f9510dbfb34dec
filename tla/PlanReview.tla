------------------------------ MODULE PlanReview ------------------------------
(***************************************************************************)
(* From the text of a plan to a plan that is worked on: the planning gate  *)
(* (agent/planning-gate.ts), the nodes, packets and trackers made from the *)
(* lines of the text (agent/master-plan.ts, agent/task-packet.ts), the     *)
(* structural validator (agent/plan-validator.ts) and the revision of a    *)
(* plan by the model (revisePlan of agent/master-plan.ts, which only tests *)
(* call).                                                                  *)
(*                                                                         *)
(* A line is what the parser asks of it: whether it is a list item, speaks *)
(* of integration, which files and which checks it names.  A text has its  *)
(* lines and the signals the gate looks for.                               *)
(***************************************************************************)
EXTENDS Naturals, Sequences, FiniteSets, SequencesExt

CONSTANTS
  PlanTexts,    \* what the model writes as a plan
  Replies,      \* what the planner answers when a plan is revised
  PacketForms,  \* task packets read as JSON: for every field what stands there
  MaxRefused,   \* 3: rejections before a plan is passed by force
  MaxNodesRead, \* 8: nodes taken from a reply
  MaxRevisions  \* bound on the revisions

\* What the parser asks of a line, and what the model answers for a node.
Lines == [item : BOOLEAN, joins : BOOLEAN, files : SUBSET STRING, hints : SUBSET STRING,
          words : STRING]
Marks == {"good", "blank", "absent", "odd"}

ASSUME TextsAssumption == \A text \in PlanTexts : text.lines \in Seq(Lines)
ASSUME RepliesAssumption ==
  /\ Replies \subseteq Seq([line : Lines, deps : SUBSET Nat]) /\ MaxNodesRead \in Nat

VARIABLES
  reviewStage,  \* "planning", "working"
  refusals,     \* planningRejections
  planNodes,    \* plan.nodes
  activeId,     \* plan.current
  report,       \* the errors of plan._lastValidation
  revisions

reviewVars == <<reviewStage, refusals, planNodes, activeId, report, revisions>>

(***************************************************************************)
(* The planning gate.                                                      *)
(***************************************************************************)
Signals == {"long", "problem", "assumptions", "risk", "tradeoff", "checklist", "verification"}

\* Four of the seven signals, or three when a deliverable is named beside them.
Evaluated(text) ==
  LET score == Cardinality(text.says) + (IF text.names THEN 1 ELSE 0)
      missing == Cardinality(Signals \ text.says)
  IN missing <= 4 /\ score >= 4

(***************************************************************************)
(* Nodes, packets and trackers.                                            *)
(***************************************************************************)
\* buildPacketFromLine: the files are the scope, or else the words of the line; what the
\* line does not ask to check is a type check.
PacketOf(line) ==
  [scope  |-> IF line.files # {} THEN line.files ELSE {line.words},
   checks |-> IF line.hints # {} THEN line.hints ELSE {"typecheck"},
   done   |-> TRUE]

\* createMinimumViablePacket, from a text that was refused and the goal.
MinimumPacket(text) ==
  LET named == UNION {line.files : line \in ToSet(text.lines)}
  IN [scope |-> IF named # {} THEN named ELSE {"goal"}, checks |-> {"typecheck"}, done |-> TRUE]

\* validateTaskPacket, its errors; createTaskTrackerFromPacket throws at the first.
PacketErrors(p) ==
  {e \in {"scope", "verification"} : (e = "scope" /\ p.scope = {}) \/ (e = "verification" /\ p.checks = {})}

\* createTaskTrackerFromPacket: the items of the scope, the first of them running, and
\* then the checks.
StepsOf(p) == {<<"scope", item>> : item \in p.scope} \cup {<<"verify", kind>> : kind \in p.checks}

\* Array.filter: what stands at the positions in `keep`.
Filtered(list, keep) ==
  LET upTo[i \in 0..Len(list)] ==
        IF i = 0 THEN <<>>
        ELSE IF i \in keep THEN Append(upTo[i - 1], list[i]) ELSE upTo[i - 1]
  IN upTo[Len(list)]

NodeOf(id, packet, deps, status) ==
  [id |-> id, packet |-> packet, steps |-> StepsOf(packet), deps |-> deps, status |-> status]

\* Mutant: a node that integrates the others waits for itself as well.
WaitsForItself(i) == 1..i

\* "depends on all prior"
Prior(i) == 1..(i - 1)

\* nodesFromPlanText with createMasterPlan and the transfer of the dependencies by
\* activateMasterPlan: list items only, numbered as they come; without any, the goal.
NodesFromPlanText(text) ==
  LET items == Filtered(text.lines, {i \in DOMAIN text.lines : text.lines[i].item})
      node(i) == NodeOf(i, PacketOf(items[i]), IF items[i].joins THEN Prior(i) ELSE {},
                        IF i = 1 THEN "active" ELSE "pending")
      goal == [files |-> {}, hints |-> {}, words |-> "goal"]
  IN IF items = <<>> THEN <<NodeOf(1, PacketOf(goal), {}, "active")>>
     ELSE [i \in DOMAIN items |-> node(i)]

(***************************************************************************)
(* The validator.                                                          *)
(***************************************************************************)
IdsOf(list) == {list[i].id : i \in DOMAIN list}
NodeWith(list, id) == list[CHOOSE i \in DOMAIN list :
  list[i].id = id /\ \A j \in DOMAIN list : list[j].id = id => i <= j]

DepsWithin(list, id) == NodeWith(list, id).deps \cap IdsOf(list)

\* What a search has still to do: to go through a dependency, to enter a node, to leave it.
ToGo(list) == {t \in {"go"} \X IdsOf(list) \X IdsOf(list) : t[3] \in DepsWithin(list, t[2])}
Ahead(list, w) ==
  w.open \cup {<<"enter", id, id>> : id \in {i \in IdsOf(list) : w.colour[i] = "white"}}
         \cup {<<"leave", id, id>> : id \in {i \in IdsOf(list) : w.colour[i] # "black"}}

\* dfs of checkCycles, with the nodes that are entered and not left in `path`: white, gray
\* while it is on the path, black.
Enter(w, id) == [w EXCEPT !.colour[id] = "gray", !.path = Append(w.path, id)]
Leave(w) == [w EXCEPT !.colour[Last(w.path)] = "black", !.path = Front(w.path)]
Through(w, t) ==
  LET left == [w EXCEPT !.open = w.open \ {t}]
  IN IF w.colour[t[3]] = "white" THEN Enter(left, t[3])
     ELSE IF w.colour[t[3]] = "gray" THEN [left EXCEPT !.found = w.found \cup {t[3]}]
     ELSE left

\* On from the end of the path, or from the next node of the plan.
WalkOn(list, w) ==
  LET on == {t \in w.open : t[2] = Last(w.path)}
      roots == {i \in DOMAIN list : w.colour[list[i].id] = "white"}
  IN IF w.path # <<>>
     THEN IF on # {} THEN Through(w, CHOOSE t \in on : TRUE) ELSE Leave(w)
     ELSE IF roots # {} THEN Enter(w, list[CHOOSE i \in roots : \A j \in roots : i <= j].id)
     ELSE w

CheckCycles(list) ==
  LET unseen == [colour |-> [id \in IdsOf(list) |-> "white"], path |-> <<>>,
                 open |-> ToGo(list), found |-> {}]
      steps == Cardinality(Ahead(list, unseen))
      walk[k \in 0..steps] == IF k = 0 THEN unseen ELSE WalkOn(list, walk[k - 1])
  IN walk[steps].found

\* validatePlan, its errors; what is only advised (titles, scope) is left out.
Validated(list) ==
  (IF list = <<>> THEN {"nonEmpty"} ELSE {})
  \cup (IF \E i, j \in DOMAIN list : i # j /\ list[i].id = list[j].id THEN {"uniqueness"} ELSE {})
  \cup (IF CheckCycles(list) # {} THEN {"cycle"} ELSE {})
  \cup (IF \E n \in ToSet(list) : ~(n.deps \subseteq IdsOf(list)) THEN {"dependency"} ELSE {})
  \cup (IF \E n \in ToSet(list) : n.steps = {} THEN {"tracker"} ELSE {})
  \cup (IF \E n \in ToSet(list) : n.packet.checks = {} THEN {"verification"} ELSE {})

(***************************************************************************)
(* Task packets read as JSON (parseTaskPacketJson).                        *)
(***************************************************************************)
Strings == {"taskId", "nodeId", "title", "goal"}
Required == Strings \cup {"scope", "doneCriteria", "verification", "ripplePolicy", "contextBudget"}

ASSUME FormsAssumption ==
  \A form \in PacketForms : /\ Required \subseteq DOMAIN form
                            /\ \A f \in DOMAIN form : form[f] \in Marks

\* validateTaskPacketJsonShape: required, of its type, not blank, and nothing else; only
\* the criteria may be empty.
ShapeErrors(form) ==
  {f \in Required : form[f] \in {"absent", "odd"} \/ (form[f] = "blank" /\ f # "doneCriteria")}
  \cup {f \in DOMAIN form \ Required : form[f] # "absent"}

ParseTaskPacketJson(form) ==
  ShapeErrors(form) = {} /\ \A f \in {"title", "goal", "nodeId", "scope", "verification"} : form[f] # "blank"

(***************************************************************************)
(* Steps.                                                                  *)
(***************************************************************************)
ReviewInit ==
  /\ reviewStage = "planning" /\ refusals = 0 /\ planNodes = <<>> /\ activeId = 0
  /\ report = {} /\ revisions = 0

\* evaluatePlanForcePass
ForcePass == refusals >= MaxRefused

RefusePlan(text) ==
  /\ reviewStage = "planning" /\ ~Evaluated(text) /\ ~ForcePass
  /\ refusals' = refusals + 1
  /\ UNCHANGED <<reviewStage, planNodes, activeId, report, revisions>>

Start(list) ==
  /\ reviewStage = "planning" /\ reviewStage' = "working"
  /\ \A n \in ToSet(list) : PacketErrors(n.packet) = {}
  /\ planNodes' = list /\ activeId' = 1 /\ report' = Validated(list)
  /\ UNCHANGED <<refusals, revisions>>

\* A text that passes is the plan ...
AcceptText(text) == Evaluated(text) /\ Start(NodesFromPlanText(text))

\* ... and when none did, the packet made from the last one is the only node of it.
AcceptByForce(text) ==
  /\ ~Evaluated(text) /\ ForcePass
  /\ Start(<<NodeOf(1, MinimumPacket(text), {}, "active")>>)

\* The task tool closes a node, whichever it is.
CloseNode(i, status) ==
  /\ reviewStage = "working" /\ planNodes[i].status \in {"pending", "active"}
  /\ planNodes' = [planNodes EXCEPT ![i].status = status]
  /\ UNCHANGED <<reviewStage, refusals, activeId, report, revisions>>

\* revisePlan: what is settled stays, what the model answers comes behind it under the
\* numbers after the largest that stayed, and the first of the new nodes is active.  An
\* answer that cannot be read, or has no nodes, leaves the plan as it is.
Revise(reply) ==
  LET settled == {i \in DOMAIN planNodes : planNodes[i].status \in {"done", "skipped"}}
      frozen == Filtered(planNodes, settled)
      top == IF frozen = <<>> THEN 0
             ELSE CHOOSE m \in IdsOf(frozen) : \A id \in IdsOf(frozen) : id <= m
      read == SubSeq(reply, 1, IF Len(reply) < MaxNodesRead THEN Len(reply) ELSE MaxNodesRead)
      node(i) == NodeOf(top + i, PacketOf(read[i].line), read[i].deps \ {0},
                        IF i = 1 THEN "active" ELSE "pending")
      list == frozen \o [i \in 1..Len(read) |-> node(i)]
  IN /\ reviewStage = "working" /\ revisions < MaxRevisions
     /\ Len(frozen) < Len(planNodes) /\ reply # <<>>
     /\ planNodes' = list /\ activeId' = top + 1 /\ report' = Validated(list)
     /\ revisions' = revisions + 1
     /\ UNCHANGED <<reviewStage, refusals>>

ReviewNext ==
  \/ \E text \in PlanTexts : RefusePlan(text) \/ AcceptText(text) \/ AcceptByForce(text)
  \/ \E i \in DOMAIN planNodes, status \in {"done", "skipped"} : CloseNode(i, status)
  \/ \E reply \in Replies : Revise(reply)

-----------------------------------------------------------------------------
\* Whatever text the gate lets through, and however little of a plan is in it, what is
\* made of it can be worked on: the validator finds no error in it.
PlansAreClean == reviewStage = "working" /\ revisions = 0 => report = {}

\* A cycle of the plan: nodes each of which waits for one of them.
Cyclic(list) ==
  \E S \in (SUBSET IdsOf(list)) \ {{}} : \A id \in S : NodeWith(list, id).deps \cap S # {}

\* The search finds a cycle in just those plans that have one.
CyclesAreFound == ("cycle" \in report) <=> Cyclic(planNodes)

\* A packet that is read as JSON makes a tracker: nothing the reader lets through is
\* refused afterwards.
ReadPacketsAreSound ==
  \A form \in PacketForms : ParseTaskPacketJson(form) =>
    /\ \A f \in Required \ {"doneCriteria"} : form[f] = "good"
    /\ \A f \in DOMAIN form \ Required : form[f] = "absent"

\* "Severity "error" blocks execution" (plan-validator.ts:9).  The report is only shown
\* to the model, so this does not hold.
ErrorsBlock == [][report # {} => planNodes' = planNodes \/ revisions' # revisions]_reviewVars
=============================================================================
