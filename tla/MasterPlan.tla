----------------------------- MODULE MasterPlan -----------------------------
(***************************************************************************)
(* The master plan of a long task (agent/master-plan.ts), the task tool    *)
(* that edits it (runtime/bootstrap.ts), the node transition of the loop   *)
(* (agent/loop.ts) and the mode contract that follows the active node      *)
(* (agent/mode-contract.ts).                                               *)
(*                                                                         *)
(* The plan is a list of nodes; createMasterPlan numbers them from 1 and   *)
(* addNode, which no caller gives an afterId, appends under the largest    *)
(* number plus one, so the list is always sorted and is a function from    *)
(* numbers to nodes here.  A number is used again once the node that held  *)
(* the largest one is removed; the tag of a node is its identity as an     *)
(* object, which its tracker shares.                                       *)
(*                                                                         *)
(* The loop keeps two things the plan knows nothing about: held, the node  *)
(* whose tracker its completion gates read, and mode, which decides what   *)
(* tools the model may call.  Nothing in src/ calls markNodeBlocked,       *)
(* blockTask or the plan's revisePlan, so no node is ever "blocked".       *)
(***************************************************************************)
EXTENDS Naturals, FiniteSets

CONSTANTS
  MaxNodes,  \* bound on the nodes created in one run
  MaxListed, \* bound on the nodes the plan text lists
  MaxDeps    \* bound on the depends_on of one task call

ASSUME MaxNodesAssumption  == MaxNodes \in Nat \ {0}
ASSUME MaxListedAssumption == MaxListed \in 1..MaxNodes
ASSUME MaxDepsAssumption   == MaxDeps \in Nat

Ids      == 1..MaxNodes
Tags     == 1..MaxNodes
NoId     == 0      \* plan.current = ""
NoTag    == 0
Statuses == {"pending", "active", "done", "skipped"}
Settled  == {"done", "skipped"}
Modes    == {"planner", "coder", "review", "repair", "report"}
Node     == [tag: Tags, status: Statuses, deps: SUBSET Ids,
             evidence: {"none", "verified", "claimed", "dropped"}]

VARIABLES
  nodes,    \* plan.nodes, by number
  current,  \* plan.current
  born,     \* how many nodes have been created
  held,     \* tag of the node whose tracker the loop holds
  complete, \* tags of the nodes whose tracker has nothing missing
  errors,   \* "none"; "some": taskToolErrors > 0; "many": errorCount >= 3
  mode,     \* the active mode contract
  pc        \* "planning", "running", "delivered"

vars == <<nodes, current, born, held, complete, errors, mode, pc>>

TypeOK ==
  /\ DOMAIN nodes \subseteq Ids
  /\ nodes \in [DOMAIN nodes -> Node]
  /\ current \in Ids \cup {NoId}
  /\ born \in 0..MaxNodes
  /\ held \in Tags \cup {NoTag}
  /\ complete \subseteq Tags
  /\ errors \in {"none", "some", "many"}
  /\ mode \in Modes
  /\ pc \in {"planning", "running", "delivered"}

(***************************************************************************)
(* The plan and its lists.                                                 *)
(***************************************************************************)
NewNode(tag, status, deps) ==
  [tag |-> tag, status |-> status, deps |-> deps, evidence |-> "none"]

Pending(p)      == {i \in DOMAIN p : p[i].status = "pending"}
PlanComplete(p) == \A i \in DOMAIN p : p[i].status \in Settled
IsFirst(i, S)   == i \in S /\ \A j \in S : i <= j

\* Mutant: the next number is the length of the list plus one.
CountPlusOne(p, id) == id = Cardinality(DOMAIN p) + 1

\* nextNodeId: one more than the largest number in use
IsNextId(p, id) ==
  /\ \A i \in DOMAIN p : i < id
  /\ id = 1 \/ id - 1 \in DOMAIN p

\* A number nobody holds counts as a dependency that is met.
DepsSettled(p, i) == \A d \in p[i].deps \cap DOMAIN p : p[d].status \in Settled
CanActivate(p, i) == p[i].status \notin Settled /\ DepsSettled(p, i)

\* The node that is started parks the one that was current.
Activated(p, i) ==
  [j \in DOMAIN p |->
     IF j = i THEN [p[j] EXCEPT !.status = "active"]
     ELSE IF j = current /\ p[j].status = "active"
          THEN [p[j] EXCEPT !.status = "pending"]
          ELSE p[j]]

\* Mutant: plan.current is not updated.
ForgetsCurrent(p, i) ==
  /\ nodes' = IF CanActivate(p, i) THEN Activated(p, i) ELSE p
  /\ UNCHANGED current

\* activateNode, on the plan p that the caller has already changed
ActivateNode(p, i) ==
  IF CanActivate(p, i)
  THEN nodes' = Activated(p, i) /\ current' = i
  ELSE nodes' = p /\ UNCHANGED current

\* Mutant: the last node that waits is activated.
LastPending(p)  == \E i \in Pending(p) : /\ \A j \in Pending(p) : j <= i
                                         /\ ActivateNode(p, i)

\* The first node that waits is activated, if what it depends on is settled.
FirstPending(p) == \E i \in Pending(p) : IsFirst(i, Pending(p)) /\ ActivateNode(p, i)

\* Mutant: plan.current is cleared although the next node is activated.
ClearsAlways(p) ==
  /\ current' = NoId
  /\ nodes' = IF Pending(p) = {} THEN p
              ELSE LET i == CHOOSE x \in Pending(p) : IsFirst(x, Pending(p))
                   IN  IF CanActivate(p, i) THEN Activated(p, i) ELSE p

\* What removeNode and skipNode do when the node was the current one.
MoveOn(p) ==
  IF Pending(p) = {} THEN nodes' = p /\ current' = NoId ELSE FirstPending(p)

(***************************************************************************)
(* Mode contract: shouldTransitionMode and the tools a mode leaves open.   *)
(***************************************************************************)
\* Mutant: a node that is being worked on keeps the planner's tools.
PlannerNodeMode(status) == IF status = "done" THEN "review" ELSE "planner"

\* NODE_STATUS_MODE_MAP
NodeMode(status) ==
  CASE status = "pending"  -> "planner"
    [] status = "active"   -> "coder"
    [] status \in Settled  -> "review"

\* shouldTransitionMode, for the plan p whose current number is c; rippling says
\* whether ripple obligations are pending.
SyncedMode(p, c, rippling) ==
  IF PlanComplete(p) /\ mode # "report" THEN "report"
  ELSE IF errors = "many" /\ mode # "repair" THEN "repair"
  ELSE IF rippling THEN mode
  ELSE IF c \in DOMAIN p /\ mode \notin {"repair", "report"} THEN NodeMode(p[c].status)
  ELSE mode

SyncMode == \E rippling \in BOOLEAN : mode' = SyncedMode(nodes', current', rippling)

\* Neither the task tool nor a write tool is on the list of the other modes.
ToolsOpen == mode \in {"coder", "repair"}

(***************************************************************************)
(* Loop.                                                                   *)
(***************************************************************************)
Init ==
  /\ nodes = [i \in {} |-> NewNode(1, "pending", {})]
  /\ current = NoId
  /\ born = 0
  /\ held = NoTag
  /\ complete = {}
  /\ errors = "none"
  /\ mode = "coder"
  /\ pc = "planning"

\* activateMasterPlan: the accepted plan text gives n nodes; those whose title
\* speaks of integration depend on all nodes before them.  A plan that was
\* passed by force, or has no list, gives one node.
ActivateMasterPlan(n, joins) ==
  /\ pc = "planning"
  /\ nodes' = [i \in 1..n |-> NewNode(i, IF i = 1 THEN "active" ELSE "pending",
                                      IF i \in joins THEN 1..(i - 1) ELSE {})]
  /\ current' = 1
  /\ born' = n
  /\ held' = 1
  /\ pc' = "running"
  /\ SyncMode
  /\ UNCHANGED <<complete, errors>>

\* A tool call fails, or its result reads like a failure.
ToolError ==
  /\ pc # "delivered"
  /\ errors # "many"
  /\ errors' \in {"some", "many"}
  /\ UNCHANGED <<nodes, current, born, held, complete, mode, pc>>

\* updateTaskTrackerAfterTools: the last step of the tracker in hand is done.
TrackerCompletes ==
  /\ pc = "running" /\ ToolsOpen
  /\ complete' = complete \cup {held}
  /\ UNCHANGED <<nodes, current, born, held, errors, mode, pc>>

\* markNodeDone does nothing for a number that is not in the plan.
MarkedDone(p) ==
  [i \in DOMAIN p |->
     IF i = current THEN [p[i] EXCEPT !.status = "done", !.evidence = "verified"]
     ELSE p[i]]

\* tryNodeTransition, once every completion gate has passed.  The gates read
\* the tracker in hand, and no mode contract lets a run with a tool error pass.
GatesPass == pc = "running" /\ held \in complete /\ errors = "none"

NodeTransition ==
  /\ GatesPass
  /\ LET p == MarkedDone(nodes)
     IN IF Pending(p) = {}
        THEN /\ nodes' = p
             /\ pc' = "delivered"
             /\ UNCHANGED <<current, held>>
        ELSE /\ FirstPending(p)
             /\ held' = IF current' \in DOMAIN p THEN p[current'].tag ELSE held
             /\ UNCHANGED pc
  /\ SyncMode
  /\ UNCHANGED <<born, complete, errors>>

(***************************************************************************)
(* The operations of the task tool.                                        *)
(***************************************************************************)
TaskToolOpen == pc = "running" /\ ToolsOpen

\* depends_on is whatever the model wrote.
TaskAdd(deps) ==
  /\ TaskToolOpen
  /\ born < MaxNodes /\ Cardinality(deps) <= MaxDeps
  /\ \E id \in Ids :
       /\ IsNextId(nodes, id)
       /\ nodes' = [i \in DOMAIN nodes \cup {id} |->
                      IF i = id THEN NewNode(born + 1, "pending", deps) ELSE nodes[i]]
  /\ born' = born + 1
  /\ UNCHANGED <<current, held, complete, errors, mode, pc>>

TaskDone(i) ==
  /\ TaskToolOpen
  /\ i \in DOMAIN nodes
  /\ nodes' = [nodes EXCEPT ![i].status = "done", ![i].evidence = "claimed"]
  /\ UNCHANGED <<current, born, held, complete, errors, mode, pc>>

TaskRemove(i) ==
  /\ TaskToolOpen
  /\ i \in DOMAIN nodes /\ nodes[i].status # "done"
  /\ LET p == [j \in DOMAIN nodes \ {i} |-> nodes[j]]
     IN  IF i = current THEN MoveOn(p) ELSE nodes' = p /\ UNCHANGED current
  /\ UNCHANGED <<born, held, complete, errors, mode, pc>>

\* Mutant: a node that is done may be skipped.
SkipsAnything(i) ==
  /\ TaskToolOpen
  /\ i \in DOMAIN nodes
  /\ LET p == [nodes EXCEPT ![i].status = "skipped", ![i].evidence = "dropped"]
     IN  IF i = current THEN MoveOn(p) ELSE nodes' = p /\ UNCHANGED current
  /\ UNCHANGED <<born, held, complete, errors, mode, pc>>

TaskSkip(i) ==
  /\ TaskToolOpen
  /\ i \in DOMAIN nodes /\ nodes[i].status # "done"
  /\ LET p == [nodes EXCEPT ![i].status = "skipped", ![i].evidence = "dropped"]
     IN  IF i = current THEN MoveOn(p) ELSE nodes' = p /\ UNCHANGED current
  /\ UNCHANGED <<born, held, complete, errors, mode, pc>>

Next ==
  \/ \E n \in 1..MaxListed : \E joins \in SUBSET (1..n) : ActivateMasterPlan(n, joins)
  \/ ToolError
  \/ TrackerCompletes
  \/ NodeTransition
  \/ \E deps \in SUBSET Ids : TaskAdd(deps)
  \/ \E i \in Ids : TaskDone(i) \/ TaskRemove(i) \/ TaskSkip(i)

Spec == Init /\ [][Next]_vars

-----------------------------------------------------------------------------
(***************************************************************************)
(* Properties.                                                             *)
(***************************************************************************)

\* At most one node is active and it is the one plan.current names, whatever
\* the task tool adds, drops and skips: planStateInput, the checkpoint and the
\* prompt all take the first for the second.
ActiveIsCurrent ==
  \A i \in DOMAIN nodes : nodes[i].status = "active" => i = current

\* A node that is being worked on never waits for a node of a smaller number:
\* what activateNode checked stays true, although numbers are used again.
OrderRespected ==
  \A i \in DOMAIN nodes : nodes[i].status = "active" =>
    \A d \in nodes[i].deps \cap DOMAIN nodes : d < i => nodes[d].status \in Settled

LowerDeps(p) == \A i \in DOMAIN p : \A d \in p[i].deps : d < i

\* In a plan whose dependencies point backwards the transition hands the loop
\* a node to work on, with the tracker of that node: the run is never left on
\* the node it has just marked done while others wait.
HandsOver ==
  [][/\ LowerDeps(nodes) /\ pc' = "running"
     /\ \E i \in DOMAIN nodes \cap DOMAIN nodes' :
          nodes[i].evidence # "verified" /\ nodes'[i].evidence = "verified"
     => \E i \in DOMAIN nodes' :
          i = current' /\ nodes'[i].status = "active" /\ nodes'[i].tag = held']_vars

\* In such a plan the mode contract never takes the write tools and the task
\* tool away from a run that has not delivered: there is always a way on.
WorkableMode == pc = "running" /\ LowerDeps(nodes) => ToolsOpen

\* "master-plan: all nodes complete" is only reported of a plan whose nodes are
\* all done or skipped, although the transition only looks for nodes that wait.
DeliveredIsComplete == pc = "delivered" => PlanComplete(nodes)

\* A node that is done stays in the plan, done, for the rest of the run.
DoneIsFinal ==
  [][\A i \in DOMAIN nodes : nodes[i].status = "done" =>
       /\ i \in DOMAIN nodes'
       /\ nodes'[i].status = "done"
       /\ nodes'[i].tag = nodes[i].tag]_vars

\* The loop marks a node as verified only after the tracker of that node has
\* passed the completion gates (loop.ts:496).
VerifiedMeansGated ==
  \A i \in DOMAIN nodes : nodes[i].evidence = "verified" => nodes[i].tag \in complete
=============================================================================
