-------------------------- MODULE MasterPlanProofs --------------------------
(***************************************************************************)
(* Theorems about MasterPlan for plans and dependency lists of every       *)
(* length: all the properties its runs check on small instances.           *)
(*                                                                         *)
(* Every operation is a change of the node list followed, at most, by one  *)
(* activation; the lemmas say what each of the two keeps of a plan p with  *)
(* the current number c: SoundPlan(p, c).  Three facts make the invariant  *)
(* inductive: a running loop holds a tracker, a plan that is still         *)
(* awaited is empty and in mode "coder", and a running plan whose          *)
(* dependencies point backwards has its tools open (WorkableMode): a       *)
(* transition closes them only when it cannot activate the first node      *)
(* that waits, and with the tools closed the plan no longer changes, so    *)
(* it cannot come to point backwards afterwards.                           *)
(***************************************************************************)
EXTENDS MCMasterPlan, SequenceTheorems, FiniteSetTheorems, WellFoundedInduction, TLAPS

PlanType(p) == DOMAIN p \subseteq Ids /\ p \in [DOMAIN p -> Node]

OnlyActive(p, c) == \A i \in DOMAIN p : p[i].status = "active" => i = c

InOrder(p) ==
  \A i \in DOMAIN p : p[i].status = "active" =>
    \A d \in p[i].deps \cap DOMAIN p : d < i => p[d].status \in Settled

SoundPlan(p, c) == PlanType(p) /\ c \in Ids \cup {NoId} /\ OnlyActive(p, c) /\ InOrder(p)

(* q is p but for nodes that were not settled becoming active or pending. *)
Restarted(p, q) ==
  /\ DOMAIN q = DOMAIN p
  /\ \A i \in DOMAIN p :
       /\ q[i].tag = p[i].tag /\ q[i].deps = p[i].deps
       /\ q[i].evidence = p[i].evidence
       /\ p[i].status \in Settled => q[i].status = p[i].status

Awaited == pc = "planning" => DOMAIN nodes = {} /\ mode = "coder"
Holding == pc # "planning" => held \in Tags

Inv ==
  /\ TypeOK
  /\ ActiveIsCurrent
  /\ OrderRespected
  /\ WorkableMode
  /\ Awaited
  /\ Holding
  /\ DeliveredIsComplete

USE MaxNodesAssumption, MaxListedAssumption, MaxDepsAssumption

(***************************************************************************)
(* Lemmas about the plan.                                                  *)
(***************************************************************************)

(* One activation keeps a sound plan sound and touches no settled node. *)
LEMMA ActivationSound ==
  ASSUME NEW p, SoundPlan(p, current), NEW i \in DOMAIN p, ActivateNode(p, i)
  PROVE  SoundPlan(nodes', current') /\ Restarted(p, nodes')
<1>1. CASE ~CanActivate(p, i)
  BY <1>1 DEF ActivateNode, SoundPlan, Restarted, PlanType
<1>2. CASE CanActivate(p, i)
  <2> DEFINE q == Activated(p, i)
  <2>1. nodes' = q /\ current' = i  BY <1>2 DEF ActivateNode
  <2>2. DOMAIN q = DOMAIN p  BY DEF Activated
  <2>3. ASSUME NEW j \in DOMAIN p
        PROVE  /\ q[j] \in Node
               /\ q[j].tag = p[j].tag /\ q[j].deps = p[j].deps
               /\ q[j].evidence = p[j].evidence
               /\ p[j].status \in Settled => q[j].status = p[j].status
               /\ q[j].status = "active" => j = i
    <3>1. p[j] \in Node  BY DEF SoundPlan, PlanType
    <3>2. CASE j = i
      <4>1. q[j] = [p[j] EXCEPT !.status = "active"]  BY <3>2 DEF Activated
      <4>2. p[j].status \notin Settled  BY <1>2, <3>2 DEF CanActivate
      <4>3. /\ q[j] \in Node /\ q[j].status = "active" /\ q[j].tag = p[j].tag
            /\ q[j].deps = p[j].deps /\ q[j].evidence = p[j].evidence
        <5> HIDE DEF q
        <5> QED BY <3>1, <4>1 DEF Node, Statuses
      <4> QED BY <3>2, <4>2, <4>3
    <3>3. CASE j # i /\ j = current /\ p[j].status = "active"
      <4>1. q[j] = [p[j] EXCEPT !.status = "pending"]  BY <3>3 DEF Activated
      <4>2. /\ q[j] \in Node /\ q[j].status = "pending" /\ q[j].tag = p[j].tag
            /\ q[j].deps = p[j].deps /\ q[j].evidence = p[j].evidence
        <5> HIDE DEF q
        <5> QED BY <3>1, <4>1 DEF Node, Statuses
      <4> QED BY <3>3, <4>2 DEF Settled
    <3>4. CASE j # i /\ ~(j = current /\ p[j].status = "active")
      <4>1. q[j] = p[j]  BY <3>4 DEF Activated
      <4>2. p[j].status # "active"  BY <3>4 DEF SoundPlan, OnlyActive
      <4> QED BY <3>1, <4>1, <4>2
    <3> QED BY <3>2, <3>3, <3>4
  <2>4. PlanType(q)
    <3>1. q \in [DOMAIN p -> Node]  BY <2>3 DEF Activated
    <3> QED BY <2>2, <3>1 DEF PlanType, SoundPlan
  <2>5. Restarted(p, q)  BY <2>2, <2>3 DEF Restarted
  <2>6. OnlyActive(q, i)  BY <2>2, <2>3 DEF OnlyActive
  <2>7. InOrder(q)
    <3> SUFFICES ASSUME NEW j \in DOMAIN q, q[j].status = "active",
                        NEW d \in q[j].deps \cap DOMAIN q, d < j
                 PROVE  q[d].status \in Settled
      BY DEF InOrder
    <3>1. j = i /\ d \in p[i].deps \cap DOMAIN p  BY <2>2, <2>3
    <3>2. p[d].status \in Settled  BY <1>2, <3>1 DEF CanActivate, DepsSettled
    <3> QED BY <2>3, <3>1, <3>2
  <2>8. i \in Ids  BY DEF SoundPlan, PlanType
  <2> QED BY <2>1, <2>4, <2>5, <2>6, <2>7, <2>8 DEF SoundPlan
<1> QED BY <1>1, <1>2

(* So does the activation of the first node that waits. *)
LEMMA FirstPendingSound ==
  ASSUME NEW p, SoundPlan(p, current), FirstPending(p)
  PROVE  SoundPlan(nodes', current') /\ Restarted(p, nodes')
<1>1. PICK i \in Pending(p) : ActivateNode(p, i)  BY DEF FirstPending
<1> QED BY <1>1, ActivationSound DEF Pending

(* And what removeNode and skipNode do when the current node is gone. *)
LEMMA MoveOnSound ==
  ASSUME NEW p, SoundPlan(p, current), OnlyActive(p, NoId), MoveOn(p)
  PROVE  SoundPlan(nodes', current') /\ Restarted(p, nodes')
<1>1. CASE Pending(p) = {}
  <2>1. nodes' = p /\ current' = NoId  BY <1>1 DEF MoveOn
  <2> QED BY <2>1 DEF SoundPlan, Restarted
<1>2. CASE Pending(p) # {}
  BY <1>2, FirstPendingSound DEF MoveOn
<1> QED BY <1>1, <1>2

(* Settling a node keeps a plan sound; when it is the current one nothing *)
(* is active any more.                                                    *)
LEMMA SettleSound ==
  ASSUME SoundPlan(nodes, current), NEW i \in Ids, NEW p,
         DOMAIN p = DOMAIN nodes, p \in [DOMAIN p -> Node],
         \A j \in DOMAIN p : j # i => p[j] = nodes[j],
         i \in DOMAIN p => p[i].status \in Settled
  PROVE  SoundPlan(p, current) /\ (i = current => OnlyActive(p, NoId))
<1>1. PlanType(p)  BY DEF SoundPlan, PlanType
<1>2. \A j \in DOMAIN p : p[j].status = "active" => j # i /\ p[j] = nodes[j]
  BY DEF Settled
<1>3. OnlyActive(p, current) /\ (i = current => OnlyActive(p, NoId))
  BY <1>2 DEF SoundPlan, OnlyActive
<1>4. InOrder(p)
  <2> SUFFICES ASSUME NEW j \in DOMAIN p, p[j].status = "active",
                      NEW d \in p[j].deps \cap DOMAIN p, d < j
               PROVE  p[d].status \in Settled
    BY DEF InOrder
  <2>1. nodes[j].status = "active" /\ d \in nodes[j].deps \cap DOMAIN nodes
    BY <1>2
  <2>2. nodes[d].status \in Settled  BY <2>1 DEF SoundPlan, InOrder
  <2> QED BY <2>2
<1> QED BY <1>1, <1>3, <1>4 DEF SoundPlan

(* So does taking a node out of it. *)
LEMMA RemoveSound ==
  ASSUME SoundPlan(nodes, current), NEW i \in DOMAIN nodes, NEW p,
         p = [j \in DOMAIN nodes \ {i} |-> nodes[j]]
  PROVE  SoundPlan(p, current) /\ (i = current => OnlyActive(p, NoId))
<1>1. DOMAIN p = DOMAIN nodes \ {i} /\ \A j \in DOMAIN p : p[j] = nodes[j]
  OBVIOUS
<1>2. PlanType(p)  BY DEF SoundPlan, PlanType
<1>3. OnlyActive(p, current) /\ (i = current => OnlyActive(p, NoId))
  BY <1>1 DEF SoundPlan, OnlyActive
<1>4. InOrder(p)  BY <1>1 DEF SoundPlan, InOrder
<1> QED BY <1>2, <1>3, <1>4 DEF SoundPlan

(* In a plan whose dependencies point backwards and that has no active node, *)
(* the first that waits can be started.                                       *)
LEMMA FirstCanStart ==
  ASSUME NEW p, PlanType(p), LowerDeps(p), NEW i \in Pending(p),
         IsFirst(i, Pending(p)),
         \A j \in DOMAIN p : p[j].status # "active"
  PROVE  CanActivate(p, i)
<1>1. i \in DOMAIN p /\ p[i].status = "pending"  BY DEF Pending
<1>2. ASSUME NEW d \in p[i].deps \cap DOMAIN p  PROVE p[d].status \in Settled
  <2>1. d < i  BY <1>1 DEF LowerDeps
  <2>2. d \in Nat /\ i \in Nat  BY <1>1 DEF PlanType, Ids
  <2>3. d \notin Pending(p)  BY <2>1, <2>2 DEF IsFirst
  <2>4. p[d] \in Node /\ p[d].status \in Statuses  BY DEF PlanType, Node
  <2> QED BY <2>3, <2>4 DEF Pending, Statuses, Settled
<1> QED BY <1>1, <1>2 DEF CanActivate, DepsSettled, Settled

(* Marking the current node leaves the others alone and nothing active. *)
LEMMA MarkedSound ==
  ASSUME SoundPlan(nodes, current), NEW p, p = MarkedDone(nodes)
  PROVE  /\ SoundPlan(p, current)
         /\ \A i \in DOMAIN p : p[i].status # "active"
         /\ DOMAIN p = DOMAIN nodes
         /\ \A i \in DOMAIN p : /\ p[i].deps = nodes[i].deps
                                /\ p[i].tag = nodes[i].tag
                                /\ nodes[i].status = "done" => p[i].status = "done"
<1>1. \A i \in DOMAIN nodes : nodes[i] \in Node  BY DEF SoundPlan, PlanType
<1>2. /\ DOMAIN p = DOMAIN nodes /\ p \in [DOMAIN p -> Node]
      /\ \A i \in DOMAIN p : /\ p[i].deps = nodes[i].deps
                             /\ p[i].tag = nodes[i].tag
                             /\ nodes[i].status = "done" => p[i].status = "done"
      /\ \A i \in DOMAIN p : i # current => p[i] = nodes[i]
      /\ current \in DOMAIN p => p[current].status \in Settled
  BY <1>1 DEF MarkedDone, Node, Statuses, Settled
<1>3. CASE current \in Ids
  <2>1. SoundPlan(p, current) /\ OnlyActive(p, NoId)  BY <1>2, <1>3, SettleSound
  <2>2. NoId \notin DOMAIN p  BY <2>1 DEF SoundPlan, PlanType, Ids, NoId
  <2> QED BY <1>2, <2>1, <2>2 DEF OnlyActive
<1>4. CASE current \notin Ids
  <2>1. current \notin DOMAIN nodes  BY <1>4 DEF SoundPlan, PlanType
  <2>2. p = nodes  BY <2>1 DEF MarkedDone, SoundPlan, PlanType
  <2>3. \A i \in DOMAIN nodes : nodes[i].status # "active"
    BY <2>1 DEF SoundPlan, OnlyActive
  <2> QED BY <1>2, <2>2, <2>3
<1> QED BY <1>3, <1>4

(* The numbers the plan gives are above all those in use. *)
LEMMA Fresh ==
  ASSUME NEW p, NEW id \in Ids, IsNextId(p, id)
  PROVE  id \notin DOMAIN p /\ \A i \in DOMAIN p : i < id
BY DEF IsNextId, Ids

(***************************************************************************)
(* The operations keep the plan sound.                                     *)
(***************************************************************************)
LEMMA SoundNow == ASSUME Inv PROVE SoundPlan(nodes, current)
BY DEF Inv, TypeOK, ActiveIsCurrent, OrderRespected, SoundPlan, PlanType,
       OnlyActive, InOrder

LEMMA PlanStep ==
  ASSUME Inv, [Next]_vars
  PROVE  SoundPlan(nodes', current')
<1>0. SoundPlan(nodes, current)  BY SoundNow
<1>1. ASSUME NEW n \in 1..MaxListed, NEW joins \in SUBSET (1..n),
             ActivateMasterPlan(n, joins)
      PROVE  SoundPlan(nodes', current')
  <2> DEFINE s(i) == IF i = 1 THEN "active" ELSE "pending"
  <2>1. n \in Nat /\ 1..n \subseteq Ids /\ 1 \in 1..n  BY DEF Ids
  <2>2. \A i \in 1..n :
          NewNode(i, s(i), IF i \in joins THEN 1..(i - 1) ELSE {}) \in Node
    BY <2>1 DEF NewNode, Node, Tags, Ids, Statuses
  <2>3. /\ DOMAIN nodes' = 1..n /\ nodes' \in [1..n -> Node] /\ current' = 1
        /\ \A i \in 1..n : nodes'[i].status = s(i)
        /\ \A i \in 1..n : \A d \in nodes'[i].deps : d < i /\ 1 <= d
    BY <1>1, <2>1, <2>2 DEF ActivateMasterPlan, NewNode
  <2>4. OnlyActive(nodes', current')  BY <2>3 DEF OnlyActive
  <2>5. InOrder(nodes')  BY <2>3 DEF InOrder
  <2> QED BY <2>1, <2>3, <2>4, <2>5 DEF SoundPlan, PlanType
<1>2. CASE ToolError  BY <1>0, <1>2 DEF ToolError
<1>3. CASE TrackerCompletes  BY <1>0, <1>3 DEF TrackerCompletes
<1>4. CASE NodeTransition
  <2> DEFINE p == MarkedDone(nodes)
  <2>1. SoundPlan(p, current)  BY <1>0, MarkedSound
  <2> HIDE DEF p
  <2>2. \/ nodes' = p /\ current' = current
        \/ FirstPending(p)
    BY <1>4 DEF NodeTransition, p
  <2> QED BY <2>1, <2>2, FirstPendingSound
<1>5. ASSUME NEW deps \in SUBSET Ids, TaskAdd(deps)
      PROVE  SoundPlan(nodes', current')
  <2>1. PICK id \in Ids :
          /\ IsNextId(nodes, id)
          /\ nodes' = [i \in DOMAIN nodes \cup {id} |->
                        IF i = id THEN NewNode(born + 1, "pending", deps)
                        ELSE nodes[i]]
    BY <1>5 DEF TaskAdd
  <2>2. id \notin DOMAIN nodes /\ \A i \in DOMAIN nodes : i < id
    BY <1>0, <2>1, Fresh DEF SoundPlan, PlanType
  <2>3. NewNode(born + 1, "pending", deps) \in Node
    BY <1>5 DEF TaskAdd, NewNode, Node, Tags, Statuses, Inv, TypeOK
  <2>4. /\ DOMAIN nodes' = DOMAIN nodes \cup {id}
        /\ nodes'[id] = NewNode(born + 1, "pending", deps)
        /\ \A i \in DOMAIN nodes : nodes'[i] = nodes[i]
        /\ current' = current
    BY <1>5, <2>1, <2>2 DEF TaskAdd
  <2>5. PlanType(nodes')
    <3>1. \A i \in DOMAIN nodes : nodes[i] \in Node  BY <1>0 DEF SoundPlan, PlanType
    <3>2. nodes' \in [DOMAIN nodes \cup {id} -> Node]  BY <2>1, <2>3, <3>1
    <3> QED BY <1>0, <2>4, <3>2 DEF SoundPlan, PlanType
  <2>6. \A i \in DOMAIN nodes' : nodes'[i].status = "active" => i \in DOMAIN nodes
    BY <2>4 DEF NewNode
  <2>7. OnlyActive(nodes', current')  BY <1>0, <2>4, <2>6 DEF SoundPlan, OnlyActive
  <2>8. InOrder(nodes')
    <3> SUFFICES ASSUME NEW j \in DOMAIN nodes', nodes'[j].status = "active",
                        NEW d \in nodes'[j].deps \cap DOMAIN nodes', d < j
                 PROVE  nodes'[d].status \in Settled
      BY DEF InOrder
    <3>1. j \in DOMAIN nodes /\ j < id  BY <2>2, <2>6
    <3>2. j \in Nat /\ id \in Nat /\ d \in Nat
      BY <2>5 , <3>1, <1>0 DEF SoundPlan, PlanType, Ids
    <3>3. d \in DOMAIN nodes  BY <2>4, <3>1, <3>2
    <3> QED BY <1>0, <2>4, <3>1, <3>3 DEF SoundPlan, InOrder
  <2> QED BY <1>0, <2>4, <2>5, <2>7, <2>8 DEF SoundPlan
<1>6. ASSUME NEW i \in Ids, TaskDone(i)  PROVE SoundPlan(nodes', current')
  <2>1. /\ DOMAIN nodes' = DOMAIN nodes /\ nodes' \in [DOMAIN nodes' -> Node]
        /\ \A j \in DOMAIN nodes' : j # i => nodes'[j] = nodes[j]
        /\ nodes'[i].status \in Settled /\ current' = current
    <3>1. \A j \in DOMAIN nodes : nodes[j] \in Node  BY <1>0 DEF SoundPlan, PlanType
    <3> QED BY <1>0, <1>6, <3>1
            DEF TaskDone, SoundPlan, PlanType, Node, Statuses, Settled
  <2> QED BY <1>0, <2>1, SettleSound
<1>7. ASSUME NEW i \in Ids, TaskRemove(i)  PROVE SoundPlan(nodes', current')
  <2> DEFINE p == [j \in DOMAIN nodes \ {i} |-> nodes[j]]
  <2>1. i \in DOMAIN nodes  BY <1>7 DEF TaskRemove
  <2>2. SoundPlan(p, current) /\ (i = current => OnlyActive(p, NoId))
    BY <1>0, <2>1, RemoveSound
  <2>3. IF i = current THEN MoveOn(p) ELSE nodes' = p /\ current' = current
    BY <1>7 DEF TaskRemove
  <2> HIDE DEF p
  <2> QED BY <2>2, <2>3, MoveOnSound
<1>8. ASSUME NEW i \in Ids, TaskSkip(i)  PROVE SoundPlan(nodes', current')
  <2> DEFINE p == [nodes EXCEPT ![i].status = "skipped", ![i].evidence = "dropped"]
  <2>1. /\ DOMAIN p = DOMAIN nodes /\ p \in [DOMAIN p -> Node]
        /\ \A j \in DOMAIN p : j # i => p[j] = nodes[j]
        /\ i \in DOMAIN p => p[i].status \in Settled
    <3>1. \A j \in DOMAIN nodes : nodes[j] \in Node  BY <1>0 DEF SoundPlan, PlanType
    <3> QED BY <1>0, <1>8, <3>1
            DEF TaskSkip, SoundPlan, PlanType, Node, Statuses, Settled
  <2>2. IF i = current THEN MoveOn(p) ELSE nodes' = p /\ current' = current
    BY <1>8 DEF TaskSkip
  <2> HIDE DEF p
  <2>3. SoundPlan(p, current) /\ (i = current => OnlyActive(p, NoId))
    BY <1>0, <2>1, SettleSound
  <2> QED BY <2>2, <2>3, MoveOnSound
<1>9. CASE UNCHANGED vars  BY <1>0, <1>9 DEF vars
<1> QED BY <1>1, <1>2, <1>3, <1>4, <1>5, <1>6, <1>7, <1>8, <1>9 DEF Next

(***************************************************************************)
(* The rest of the state.                                                  *)
(***************************************************************************)
LEMMA ModeType ==
  ASSUME mode \in Modes, PlanType(nodes'), SyncMode
  PROVE  mode' \in Modes
<1>1. PICK r \in BOOLEAN : mode' = SyncedMode(nodes', current', r)  BY DEF SyncMode
<1>2. ASSUME current' \in DOMAIN nodes'
      PROVE  NodeMode(nodes'[current'].status) \in Modes
  <2>1. nodes'[current'].status \in Statuses  BY <1>2 DEF PlanType, Node
  <2> QED BY <2>1 DEF NodeMode, Statuses, Settled, Modes
<1>3. "report" \in Modes /\ "repair" \in Modes  BY DEF Modes
<1> HIDE DEF Modes
<1> QED BY <1>1, <1>2, <1>3 DEF SyncedMode

(* A plan in mode "coder" or "repair" whose current node is active stays in *)
(* one of them: nothing is complete, and an active node asks for "coder".   *)
LEMMA ModeOpen ==
  ASSUME SyncMode, ToolsOpen, current' \in DOMAIN nodes',
         nodes'[current'].status = "active"
  PROVE  ToolsOpen'
<1>1. PICK r \in BOOLEAN : mode' = SyncedMode(nodes', current', r)  BY DEF SyncMode
<1>2. ~PlanComplete(nodes')  BY DEF PlanComplete, Settled
<1>3. NodeMode("active") = "coder"  BY DEF NodeMode, Settled
<1> QED BY <1>1, <1>2, <1>3 DEF SyncedMode, ToolsOpen

LEMMA TypeStep ==
  ASSUME Inv, [Next]_vars
  PROVE  TypeOK' /\ Holding'
<1>0. SoundPlan(nodes', current') /\ SoundPlan(nodes, current)  BY PlanStep, SoundNow
<1>1. PlanType(nodes') /\ current' \in Ids \cup {NoId}  BY <1>0 DEF SoundPlan
<1>2. TypeOK /\ Holding  BY DEF Inv
<1> SUFFICES /\ born' \in 0..MaxNodes /\ held' \in Tags \cup {NoTag}
             /\ complete' \subseteq Tags
             /\ errors' \in {"none", "some", "many"} /\ mode' \in Modes
             /\ pc' \in {"planning", "running", "delivered"}
             /\ Holding'
  BY <1>1 DEF TypeOK, PlanType
<1> USE DEF TypeOK, Holding
<1>3. ASSUME NEW n \in 1..MaxListed, NEW joins \in SUBSET (1..n),
             ActivateMasterPlan(n, joins)
      PROVE  /\ born' \in 0..MaxNodes /\ held' \in Tags
             /\ UNCHANGED <<complete, errors>> /\ SyncMode
             /\ pc' = "running"
  BY <1>3 DEF ActivateMasterPlan, Tags
<1>4. ASSUME NEW n \in 1..MaxListed, NEW joins \in SUBSET (1..n),
             ActivateMasterPlan(n, joins)
      PROVE  mode' \in Modes
  BY <1>1, <1>2, <1>4, <1>3, ModeType
<1>5. CASE ToolError  BY <1>2, <1>5 DEF ToolError
<1>6. CASE TrackerCompletes  BY <1>2, <1>6 DEF TrackerCompletes
<1>7. CASE NodeTransition
  <2> DEFINE p == MarkedDone(nodes)
  <2>1. mode' \in Modes
    <3>1. SyncMode  BY <1>7 DEF NodeTransition
    <3> QED BY <1>1, <1>2, <3>1, ModeType
  <2>2. SoundPlan(p, current)  BY <1>0, MarkedSound
  <2>3. \A i \in DOMAIN p : p[i].tag \in Tags
    <3> HIDE DEF p
    <3> QED BY <2>2 DEF SoundPlan, PlanType, Node
  <2>4. held' \in Tags \cup {held}  BY <1>7, <2>3 DEF NodeTransition
  <2>5. pc' \in {"running", "delivered"} /\ pc = "running"
    BY <1>7 DEF NodeTransition, GatesPass
  <2> QED BY <1>2, <1>7, <2>1, <2>4, <2>5 DEF NodeTransition
<1>8. ASSUME NEW deps \in SUBSET Ids, TaskAdd(deps)
      PROVE  born' \in 0..MaxNodes /\ UNCHANGED <<held, complete, errors, mode, pc>>
  BY <1>2, <1>8 DEF TaskAdd
<1>9. ASSUME NEW i \in Ids, TaskDone(i) \/ TaskRemove(i) \/ TaskSkip(i)
      PROVE  UNCHANGED <<born, held, complete, errors, mode, pc>>
  BY <1>9 DEF TaskDone, TaskRemove, TaskSkip
<1>10. CASE UNCHANGED vars  BY <1>2, <1>10 DEF vars
<1> QED BY <1>2, <1>3, <1>4, <1>5, <1>6, <1>7, <1>8, <1>9, <1>10 DEF Next

(* What a transition does to a plan whose dependencies point backwards: it *)
(* delivers a settled plan or hands over an active node.                   *)
LEMMA TransitionHands ==
  ASSUME Inv, NodeTransition, LowerDeps(nodes), pc' = "running"
  PROVE  /\ current' \in DOMAIN nodes'
         /\ nodes'[current'].status = "active"
         /\ nodes'[current'].tag = held'
<1> DEFINE p == MarkedDone(nodes)
<1>0. SoundPlan(nodes, current)  BY SoundNow
<1>1. /\ SoundPlan(p, current)
      /\ \A i \in DOMAIN p : p[i].status # "active"
      /\ DOMAIN p = DOMAIN nodes
      /\ \A i \in DOMAIN p : p[i].deps = nodes[i].deps
  BY <1>0, MarkedSound
<1>2. Pending(p) # {} /\ FirstPending(p)
      /\ held' = IF current' \in DOMAIN p THEN p[current'].tag ELSE held
  BY DEF NodeTransition
<1> HIDE DEF p
<1>3. LowerDeps(p) /\ PlanType(p)  BY <1>1 DEF LowerDeps, SoundPlan
<1>4. PICK i \in Pending(p) : IsFirst(i, Pending(p)) /\ ActivateNode(p, i)
  BY <1>2 DEF FirstPending
<1>5. CanActivate(p, i)  BY <1>1, <1>3, <1>4, FirstCanStart
<1>6. nodes' = Activated(p, i) /\ current' = i /\ i \in DOMAIN p
  BY <1>4, <1>5 DEF ActivateNode, Pending
<1>7. p[i] \in Node  BY <1>3, <1>6 DEF PlanType
<1>8. /\ nodes'[i].status = "active" /\ nodes'[i].tag = p[i].tag
      /\ i \in DOMAIN nodes'
  BY <1>6, <1>7 DEF Activated, Node
<1> QED BY <1>2, <1>6, <1>8

LEMMA OpenStep ==
  ASSUME Inv, [Next]_vars
  PROVE  WorkableMode'
<1>0. SoundPlan(nodes, current) /\ WorkableMode /\ TypeOK /\ Awaited  BY SoundNow DEF Inv
<1>1. ASSUME NEW n \in 1..MaxListed, NEW joins \in SUBSET (1..n),
             ActivateMasterPlan(n, joins)
      PROVE  ToolsOpen'
  <2>1. 1 \in DOMAIN nodes' /\ nodes'[1].status = "active" /\ current' = 1
    BY <1>1 DEF ActivateMasterPlan, NewNode
  <2>2. ToolsOpen /\ SyncMode
    BY <1>0, <1>1 DEF ActivateMasterPlan, Awaited, ToolsOpen
  <2> QED BY <2>1, <2>2, ModeOpen
<1>2. CASE ToolError
  BY <1>0, <1>2 DEF ToolError, WorkableMode, ToolsOpen
<1>3. CASE TrackerCompletes
  BY <1>0, <1>3 DEF TrackerCompletes, WorkableMode, ToolsOpen
<1>4. CASE NodeTransition
  <2> SUFFICES ASSUME pc' = "running", LowerDeps(nodes')  PROVE ToolsOpen'
    BY DEF WorkableMode
  <2> DEFINE p == MarkedDone(nodes)
  <2>1. /\ SoundPlan(p, current) /\ DOMAIN p = DOMAIN nodes
        /\ \A i \in DOMAIN p : p[i].deps = nodes[i].deps
    BY <1>0, MarkedSound
  <2>2. FirstPending(p)  BY <1>4 DEF NodeTransition
  <2> HIDE DEF p
  <2>3. Restarted(p, nodes')  BY <2>1, <2>2, FirstPendingSound
  <2>4. LowerDeps(nodes)  BY <2>1, <2>3 DEF Restarted, LowerDeps
  <2>5. ToolsOpen /\ SyncMode
    BY <1>0, <1>4, <2>4 DEF NodeTransition, GatesPass, WorkableMode
  <2>6. current' \in DOMAIN nodes' /\ nodes'[current'].status = "active"
    BY <1>4, <2>4, TransitionHands
  <2> QED BY <2>5, <2>6, ModeOpen
<1>5. ASSUME NEW deps \in SUBSET Ids, TaskAdd(deps)  PROVE ToolsOpen'
  BY <1>5 DEF TaskAdd, TaskToolOpen, ToolsOpen
<1>6. ASSUME NEW i \in Ids, TaskDone(i) \/ TaskRemove(i) \/ TaskSkip(i)
      PROVE  ToolsOpen'
  BY <1>6 DEF TaskDone, TaskRemove, TaskSkip, TaskToolOpen, ToolsOpen
<1>7. CASE UNCHANGED vars
  BY <1>0, <1>7 DEF vars, WorkableMode, LowerDeps, ToolsOpen
<1>8. ToolsOpen' => WorkableMode'  BY DEF WorkableMode
<1> QED BY <1>1, <1>2, <1>3, <1>4, <1>5, <1>6, <1>7, <1>8 DEF Next

LEMMA DeliveredStep ==
  ASSUME Inv, [Next]_vars
  PROVE  DeliveredIsComplete' /\ Awaited'
<1>0. /\ SoundPlan(nodes, current) /\ Awaited /\ DeliveredIsComplete
  BY SoundNow DEF Inv
<1> USE DEF DeliveredIsComplete, Awaited
<1>1. ASSUME NEW n \in 1..MaxListed, NEW joins \in SUBSET (1..n),
             ActivateMasterPlan(n, joins)
      PROVE  pc' = "running"
  BY <1>1 DEF ActivateMasterPlan
<1>2. CASE ToolError  BY <1>0, <1>2 DEF ToolError, PlanComplete
<1>3. CASE TrackerCompletes  BY <1>3 DEF TrackerCompletes
<1>4. CASE NodeTransition
  <2> DEFINE p == MarkedDone(nodes)
  <2>1. SoundPlan(p, current) /\ \A i \in DOMAIN p : p[i].status # "active"
    BY <1>0, MarkedSound
  <2>2. CASE Pending(p) = {}
    <3>1. nodes' = p /\ pc' = "delivered"  BY <1>4, <2>2 DEF NodeTransition
    <3> HIDE DEF p
    <3>2. \A i \in DOMAIN p : p[i].status \in Statuses
      BY <2>1 DEF SoundPlan, PlanType, Node
    <3>3. PlanComplete(p)
      BY <2>1, <2>2, <3>2 DEF PlanComplete, Pending, Statuses, Settled
    <3> QED BY <3>1, <3>3 DEF PlanComplete
  <2>3. CASE Pending(p) # {}
    <3>1. pc' = "running"  BY <1>4, <2>3 DEF NodeTransition, GatesPass
    <3> QED BY <3>1
  <2> QED BY <2>2, <2>3
<1>5. ASSUME NEW deps \in SUBSET Ids, TaskAdd(deps)  PROVE pc' = "running"
  BY <1>5 DEF TaskAdd, TaskToolOpen
<1>6. ASSUME NEW i \in Ids, TaskDone(i) \/ TaskRemove(i) \/ TaskSkip(i)
      PROVE  pc' = "running"
  BY <1>6 DEF TaskDone, TaskRemove, TaskSkip, TaskToolOpen
<1>7. CASE UNCHANGED vars  BY <1>0, <1>7 DEF vars, PlanComplete
<1> QED BY <1>1, <1>2, <1>3, <1>4, <1>5, <1>6, <1>7 DEF Next

(***************************************************************************)
(* The theorems.                                                           *)
(***************************************************************************)
LEMMA InvInit == Init => Inv
<1> SUFFICES ASSUME Init PROVE Inv  OBVIOUS
<1>1. DOMAIN nodes = {} /\ nodes \in [DOMAIN nodes -> Node]  BY DEF Init
<1> QED BY <1>1 DEF Init, Inv, TypeOK, Modes, Tags, ActiveIsCurrent,
                    OrderRespected, WorkableMode, Awaited, Holding,
                    DeliveredIsComplete

LEMMA InvStep == Inv /\ [Next]_vars => Inv'
<1> SUFFICES ASSUME Inv, [Next]_vars PROVE Inv'  OBVIOUS
<1>1. SoundPlan(nodes', current')  BY PlanStep
<1>2. ActiveIsCurrent' /\ OrderRespected'
  BY <1>1 DEF SoundPlan, OnlyActive, InOrder, ActiveIsCurrent, OrderRespected
<1> QED BY <1>2, TypeStep, OpenStep, DeliveredStep DEF Inv

THEOREM InvHolds == Spec => []Inv
BY InvInit, InvStep, PTL DEF Spec

(* Every variable keeps its type, whatever the task tool does to the plan. *)
THEOREM TypeCorrect == Spec => []TypeOK
<1>1. Inv => TypeOK  BY DEF Inv
<1> QED BY InvHolds, <1>1, PTL

(* Only the node plan.current names is active. *)
THEOREM OneActiveNode == Spec => []ActiveIsCurrent
<1>1. Inv => ActiveIsCurrent  BY DEF Inv
<1> QED BY InvHolds, <1>1, PTL

(* An active node waits for no node of a smaller number. *)
THEOREM OrderKept == Spec => []OrderRespected
<1>1. Inv => OrderRespected  BY DEF Inv
<1> QED BY InvHolds, <1>1, PTL

(* A running plan whose dependencies point backwards has its tools. *)
THEOREM ToolsStayOpen == Spec => []WorkableMode
<1>1. Inv => WorkableMode  BY DEF Inv
<1> QED BY InvHolds, <1>1, PTL

(* Only a settled plan is delivered. *)
THEOREM DeliveryComplete == Spec => []DeliveredIsComplete
<1>1. Inv => DeliveredIsComplete  BY DEF Inv
<1> QED BY InvHolds, <1>1, PTL

DoneKept ==
  \A i \in DOMAIN nodes : nodes[i].status = "done" =>
    /\ i \in DOMAIN nodes'
    /\ nodes'[i].status = "done"
    /\ nodes'[i].tag = nodes[i].tag

LEMMA DoneStep == Inv /\ [Next]_vars => DoneKept
<1> SUFFICES ASSUME Inv, [Next]_vars PROVE DoneKept  OBVIOUS
<1>0. SoundPlan(nodes, current) /\ Awaited  BY SoundNow DEF Inv
<1>t. \A i \in DOMAIN nodes : nodes[i] \in Node  BY <1>0 DEF SoundPlan, PlanType
<1>r. ASSUME NEW p, Restarted(p, nodes'),
             \A i \in DOMAIN nodes : nodes[i].status = "done" =>
               i \in DOMAIN p /\ p[i].status = "done" /\ p[i].tag = nodes[i].tag
      PROVE  DoneKept
  BY <1>r DEF Restarted, DoneKept, Settled
<1>1. ASSUME NEW n \in 1..MaxListed, NEW joins \in SUBSET (1..n),
             ActivateMasterPlan(n, joins)
      PROVE  DoneKept
  BY <1>0, <1>1 DEF ActivateMasterPlan, Awaited, DoneKept
<1>2. CASE ToolError  BY <1>2 DEF ToolError, DoneKept
<1>3. CASE TrackerCompletes  BY <1>3 DEF TrackerCompletes, DoneKept
<1>4. CASE NodeTransition
  <2> DEFINE p == MarkedDone(nodes)
  <2>1. /\ SoundPlan(p, current) /\ DOMAIN p = DOMAIN nodes
        /\ \A i \in DOMAIN p : /\ p[i].tag = nodes[i].tag
                               /\ nodes[i].status = "done" => p[i].status = "done"
    BY <1>0, MarkedSound
  <2>2. nodes' = p \/ FirstPending(p)  BY <1>4 DEF NodeTransition
  <2> HIDE DEF p
  <2>3. Restarted(p, nodes')
    BY <2>1, <2>2, FirstPendingSound DEF Restarted
  <2> QED BY <1>r, <2>1, <2>3
<1>5. ASSUME NEW deps \in SUBSET Ids, TaskAdd(deps)  PROVE DoneKept
  <2>1. PICK id \in Ids :
          /\ IsNextId(nodes, id)
          /\ nodes' = [i \in DOMAIN nodes \cup {id} |->
                        IF i = id THEN NewNode(born + 1, "pending", deps)
                        ELSE nodes[i]]
    BY <1>5 DEF TaskAdd
  <2>2. id \notin DOMAIN nodes  BY <1>0, <2>1, Fresh
  <2> QED BY <2>1, <2>2 DEF DoneKept
<1>6. ASSUME NEW i \in Ids, TaskDone(i)  PROVE DoneKept
  BY <1>t, <1>6 DEF TaskDone, DoneKept, Node
<1>7. ASSUME NEW i \in Ids, TaskRemove(i)  PROVE DoneKept
  <2> DEFINE p == [j \in DOMAIN nodes \ {i} |-> nodes[j]]
  <2>1. i \in DOMAIN nodes /\ nodes[i].status # "done"  BY <1>7 DEF TaskRemove
  <2>2. SoundPlan(p, current) /\ (i = current => OnlyActive(p, NoId))
    BY <1>0, <2>1, RemoveSound
  <2>3. \A j \in DOMAIN nodes : nodes[j].status = "done" =>
          j \in DOMAIN p /\ p[j].status = "done" /\ p[j].tag = nodes[j].tag
    BY <2>1
  <2>4. IF i = current THEN MoveOn(p) ELSE nodes' = p /\ current' = current
    BY <1>7 DEF TaskRemove
  <2> HIDE DEF p
  <2>5. Restarted(p, nodes')  BY <2>2, <2>4, MoveOnSound DEF Restarted
  <2> QED BY <1>r, <2>3, <2>5
<1>8. ASSUME NEW i \in Ids, TaskSkip(i)  PROVE DoneKept
  <2> DEFINE p == [nodes EXCEPT ![i].status = "skipped", ![i].evidence = "dropped"]
  <2>1. /\ DOMAIN p = DOMAIN nodes /\ p \in [DOMAIN p -> Node]
        /\ \A j \in DOMAIN p : j # i => p[j] = nodes[j]
        /\ i \in DOMAIN p => p[i].status \in Settled
    BY <1>t, <1>0, <1>8
       DEF TaskSkip, SoundPlan, PlanType, Node, Statuses, Settled
  <2>2. nodes[i].status # "done"  BY <1>8 DEF TaskSkip
  <2>3. IF i = current THEN MoveOn(p) ELSE nodes' = p /\ current' = current
    BY <1>8 DEF TaskSkip
  <2> HIDE DEF p
  <2>4. SoundPlan(p, current) /\ (i = current => OnlyActive(p, NoId))
    BY <1>0, <2>1, SettleSound
  <2>5. Restarted(p, nodes')  BY <2>3, <2>4, MoveOnSound DEF Restarted
  <2> QED BY <1>r, <2>1, <2>2, <2>5
<1>9. CASE UNCHANGED vars  BY <1>9 DEF vars, DoneKept
<1> QED BY <1>1, <1>2, <1>3, <1>4, <1>5, <1>6, <1>7, <1>8, <1>9 DEF Next

(* A node that is done stays in the plan, done. *)
THEOREM DoneStays == Spec => DoneIsFinal
<1>1. Inv /\ [Next]_vars => [DoneKept]_vars  BY DoneStep
<1> QED BY InvHolds, <1>1, PTL DEF Spec, DoneIsFinal, DoneKept

Verifies ==
  \E i \in DOMAIN nodes \cap DOMAIN nodes' :
    nodes[i].evidence # "verified" /\ nodes'[i].evidence = "verified"

(* Only the transition marks a node as verified. *)
LEMMA VerifiedByTransition ==
  ASSUME Inv, [Next]_vars, Verifies
  PROVE  NodeTransition
<1>0. SoundPlan(nodes, current) /\ Awaited  BY SoundNow DEF Inv
<1>t. \A i \in DOMAIN nodes : nodes[i] \in Node  BY <1>0 DEF SoundPlan, PlanType
<1>r. ASSUME NEW p, Restarted(p, nodes'),
             \A j \in DOMAIN p : j \in DOMAIN nodes
               /\ (p[j].evidence = nodes[j].evidence \/ p[j].evidence # "verified")
      PROVE  FALSE
  BY <1>r DEF Restarted, Verifies
<1>1. ASSUME NEW n \in 1..MaxListed, NEW joins \in SUBSET (1..n),
             ActivateMasterPlan(n, joins)
      PROVE  FALSE
  BY <1>0, <1>1 DEF ActivateMasterPlan, Awaited, Verifies
<1>2. CASE ToolError  BY <1>2 DEF ToolError, Verifies
<1>3. CASE TrackerCompletes  BY <1>3 DEF TrackerCompletes, Verifies
<1>5. ASSUME NEW deps \in SUBSET Ids, TaskAdd(deps)  PROVE FALSE
  <2>1. PICK id \in Ids :
          /\ IsNextId(nodes, id)
          /\ nodes' = [i \in DOMAIN nodes \cup {id} |->
                        IF i = id THEN NewNode(born + 1, "pending", deps)
                        ELSE nodes[i]]
    BY <1>5 DEF TaskAdd
  <2>2. id \notin DOMAIN nodes  BY <1>0, <2>1, Fresh
  <2> QED BY <2>1, <2>2 DEF Verifies
<1>6. ASSUME NEW i \in Ids, TaskDone(i)  PROVE FALSE
  BY <1>t, <1>6 DEF TaskDone, Verifies, Node
<1>7. ASSUME NEW i \in Ids, TaskRemove(i)  PROVE FALSE
  <2> DEFINE p == [j \in DOMAIN nodes \ {i} |-> nodes[j]]
  <2>1. i \in DOMAIN nodes  BY <1>7 DEF TaskRemove
  <2>2. SoundPlan(p, current) /\ (i = current => OnlyActive(p, NoId))
    BY <1>0, <2>1, RemoveSound
  <2>3. \A j \in DOMAIN p : j \in DOMAIN nodes /\ p[j].evidence = nodes[j].evidence
    OBVIOUS
  <2>4. IF i = current THEN MoveOn(p) ELSE nodes' = p /\ current' = current
    BY <1>7 DEF TaskRemove
  <2> HIDE DEF p
  <2>5. Restarted(p, nodes')  BY <2>2, <2>4, MoveOnSound DEF Restarted
  <2> QED BY <1>r, <2>3, <2>5
<1>8. ASSUME NEW i \in Ids, TaskSkip(i)  PROVE FALSE
  <2> DEFINE p == [nodes EXCEPT ![i].status = "skipped", ![i].evidence = "dropped"]
  <2>1. /\ DOMAIN p = DOMAIN nodes /\ p \in [DOMAIN p -> Node]
        /\ \A j \in DOMAIN p : j # i => p[j] = nodes[j]
        /\ i \in DOMAIN p => p[i].status \in Settled
        /\ p[i].evidence = "dropped"
    BY <1>t, <1>0, <1>8
       DEF TaskSkip, SoundPlan, PlanType, Node, Statuses, Settled
  <2>2. IF i = current THEN MoveOn(p) ELSE nodes' = p /\ current' = current
    BY <1>8 DEF TaskSkip
  <2> HIDE DEF p
  <2>3. SoundPlan(p, current) /\ (i = current => OnlyActive(p, NoId))
    BY <1>0, <2>1, SettleSound
  <2>4. Restarted(p, nodes')  BY <2>2, <2>3, MoveOnSound DEF Restarted
  <2> QED BY <1>r, <2>1, <2>4
<1>9. CASE UNCHANGED vars  BY <1>9 DEF vars, Verifies
<1> QED BY <1>1, <1>2, <1>3, <1>5, <1>6, <1>7, <1>8, <1>9 DEF Next

HandedOver ==
  /\ LowerDeps(nodes) /\ pc' = "running"
  /\ Verifies
  => \E i \in DOMAIN nodes' :
       i = current' /\ nodes'[i].status = "active" /\ nodes'[i].tag = held'

(* A transition of a plan whose dependencies point backwards hands the loop *)
(* an active node and its tracker, or delivers.                             *)
THEOREM TransitionHandsOver == Spec => HandsOver
<1>1. Inv /\ [Next]_vars => [HandedOver]_vars
  <2> SUFFICES ASSUME Inv, [Next]_vars, LowerDeps(nodes), pc' = "running", Verifies
               PROVE  \E i \in DOMAIN nodes' :
                        /\ i = current' /\ nodes'[i].status = "active"
                        /\ nodes'[i].tag = held'
    BY DEF HandedOver
  <2>1. NodeTransition  BY VerifiedByTransition
  <2> QED BY <2>1, TransitionHands
<1> QED BY InvHolds, <1>1, PTL DEF Spec, HandsOver, HandedOver, Verifies
-----------------------------------------------------------------------------
(***************************************************************************)
(* Testimony, for every list of commands, final answers and words of the   *)
(* judge, and every limit.  What passed into the ledger or the tracker was *)
(* seen, whichever way it took, and once the judge was asked the reasons   *)
(* to ask it do not go away: the rounds, the changes and the troubles only *)
(* grow.                                                                   *)
(***************************************************************************)
TestSeen  == Seen({"test", "curl"})
BuildSeen == Seen({"build"})

LedgerIsTrue ==
  /\ HasEvidence("test") => TestSeen
  /\ HasEvidence("build") => BuildSeen
  /\ "test" \in proofs => TestSeen

JudgeStaysDue ==
  asked > 0 => taskRound >= FirstJudged /\ (task # Untracked \/ changed \/ trouble)

Earned ==
  /\ compiles \in {"unknown", "passed", "failed"}
  /\ taskRound \in Nat /\ asked \in Nat /\ asked <= MaxAsked
  /\ LedgerIsTrue
  /\ phase = "complete" => task \subseteq proofs
  /\ JudgeStaysDue
  /\ ClaimsWereSeen /\ ChecksWerePassed /\ JudgeIsHeard

(* What a command is taken for is a word that it has. *)
LEMMA KindIsAWord ==
  ASSUME NEW words
  PROVE  /\ DetectKind(words) \in {"lint", "typecheck", "test", "build", "smoke", "unknown"}
         /\ DetectKind(words) = "test" => "test" \in words
         /\ DetectKind(words) = "build" => "build" \in words
         /\ DetectKind(words) = "smoke" => "curl" \in words
BY DEF DetectKind

LEMMA KindOfEvidence ==
  ASSUME NEW kind \in {"lint", "typecheck", "test", "build", "smoke"}
  PROVE  /\ ToEvidenceKind(kind) = "test" <=> kind \in {"test", "smoke"}
         /\ ToEvidenceKind(kind) = "build" <=> kind = "build"
BY DEF ToEvidenceKind

(* Whatever passes the last gates was earned. *)
LEMMA LastGatesAreEarned ==
  ASSUME Earned, NEW text, LastGates(text), answer' = text, ended = "going",
         UNCHANGED work
  PROVE  ClaimsWereSeen' /\ ChecksWerePassed'
<1>1. CASE ended' # "done"
  BY <1>1 DEF ClaimsWereSeen, ChecksWerePassed
<1>2. CASE ended' = "done"
  <2>1. MayClaimDone /\ Contradictions(text) = {}
    BY <1>2 DEF LastGates, HoldOrBlock
  <2>2. ASSUME NEW c \in TruthClaims(text) PROVE ClaimIsBacked(c)
    BY <2>1, <2>2 DEF Contradictions
  <2>3. ASSUME NEW c \in TruthClaims(text)
        PROVE  /\ c \in {"tests", "all"} => TestSeen
               /\ c = "build" => BuildSeen
               /\ c = "implementation" => changed
    <3>1. ClaimIsBacked(c)
      BY <2>2
    <3>2. c \in {"tests", "all"} => HasEvidence("test")
      BY <3>1 DEF ClaimIsBacked
    <3>3. c = "build" => HasEvidence("build")
      BY <3>1 DEF ClaimIsBacked
    <3>4. c = "implementation" => changed
      BY <3>1 DEF ClaimIsBacked
    <3> QED
      BY <3>2, <3>3, <3>4 DEF Earned, LedgerIsTrue
  <2>4. task # Untracked /\ "test" \in task => TestSeen
    <3>1. CASE phase = "complete"
      BY <3>1 DEF Earned, LedgerIsTrue
    <3>2. CASE phase # "complete" /\ task # Untracked /\ "test" \in task
      <4>1. ToEvidenceKind("test") \in RequiredEvidence
        BY <3>2 DEF RequiredEvidence
      <4>2. HasEvidence("test")
        BY <2>1, <3>2, <4>1, KindOfEvidence DEF MayClaimDone
      <4> QED
        BY <4>2 DEF Earned, LedgerIsTrue
    <3> QED
      BY <3>1, <3>2
  <2>5. ClaimsWereSeen'
    BY <2>3 DEF ClaimsWereSeen, Seen, TestSeen, BuildSeen, TruthClaims, work
  <2> QED
    BY <2>4, <2>5 DEF ChecksWerePassed, Seen, TestSeen, work
<1> QED
  BY <1>1, <1>2

LEMMA RunCommandEarned ==
  ASSUME TestimonyAssumption, Earned, RunCommand
  PROVE  Earned'
<1>1. PICK words \in Commands, ok \in BOOLEAN :
        /\ seen' = IF ok THEN seen \cup words ELSE seen
        /\ trouble' = (trouble \/ ~ok)
        /\ compiles' = IF DetectKind(words) # "typecheck" THEN compiles
                       ELSE IF ok THEN "passed" ELSE "failed"
        /\ proofs' = ProofsWith(IF ok /\ DetectKind(words) # "unknown" THEN {DetectKind(words)} ELSE {},
                                compiles' = "passed")
        /\ evidence' = EvidenceWith(DetectKind(words), ok)
  BY DEF RunCommand
<1>2. /\ ended = "going" /\ ended' = "going" /\ task' = task /\ changed' = changed
      /\ taskRound' = taskRound + 1 /\ asked' = asked
      /\ phase' = IF TrackerTakes /\ task \subseteq proofs' THEN "complete" ELSE phase
  BY DEF RunCommand, WorkRound, judged
<1>3. seen \subseteq seen' /\ (ok => words \subseteq seen')
  BY <1>1
<1>4. compiles' \in {"unknown", "passed", "failed"}
  BY <1>1 DEF Earned
<1>5. HasEvidence("test")' => TestSeen'
  <2>1. CASE HasEvidence("test")
    BY <2>1, <1>3 DEF Earned, LedgerIsTrue, TestSeen, Seen
  <2>2. CASE <<ToEvidenceKind(DetectKind(words)), ok>> = <<"test", TRUE>> /\ DetectKind(words) # "unknown"
    BY <2>2, <1>3, KindIsAWord, KindOfEvidence DEF TestSeen, Seen
  <2> QED
    BY <1>1, <2>1, <2>2 DEF HasEvidence, EvidenceWith
<1>6. HasEvidence("build")' => BuildSeen'
  <2>1. CASE HasEvidence("build")
    BY <2>1, <1>3 DEF Earned, LedgerIsTrue, BuildSeen, Seen
  <2>2. CASE <<ToEvidenceKind(DetectKind(words)), ok>> = <<"build", TRUE>> /\ DetectKind(words) # "unknown"
    BY <2>2, <1>3, KindIsAWord, KindOfEvidence DEF BuildSeen, Seen
  <2> QED
    BY <1>1, <2>1, <2>2 DEF HasEvidence, EvidenceWith
<1>7. "test" \in proofs' => TestSeen'
  <2>1. CASE "test" \in proofs
    BY <2>1, <1>3 DEF Earned, LedgerIsTrue, TestSeen, Seen
  <2>2. CASE ok /\ DetectKind(words) = "test"
    BY <2>2, <1>3, KindIsAWord DEF TestSeen, Seen
  <2> QED
    BY <1>1, <2>1, <2>2 DEF ProofsWith
<1>8. phase' = "complete" => task' \subseteq proofs'
  BY <1>1, <1>2 DEF Earned, ProofsWith
<1>9. taskRound' \in Nat /\ asked' \in Nat /\ asked' <= MaxAsked /\ JudgeStaysDue'
  <2>1. taskRound \in Nat /\ FirstJudged \in Nat
    BY DEF Earned, TestimonyAssumption
  <2>2. trouble => trouble'
    BY <1>1
  <2> QED
    BY <1>2, <2>1, <2>2 DEF Earned, JudgeStaysDue
<1>10. ClaimsWereSeen' /\ ChecksWerePassed' /\ JudgeIsHeard'
  BY <1>2 DEF ClaimsWereSeen, ChecksWerePassed, JudgeIsHeard
<1> QED
  BY <1>4, <1>5, <1>6, <1>7, <1>8, <1>9, <1>10 DEF Earned, LedgerIsTrue

LEMMA EditFilesEarned ==
  ASSUME TestimonyAssumption, Earned, EditFiles
  PROVE  Earned'
<1>1. /\ ended = "going" /\ ended' = "going" /\ task' = task /\ changed' = TRUE
      /\ taskRound' = taskRound + 1 /\ asked' = asked /\ evidence' = evidence
      /\ phase' = IF TrackerTakes /\ task \subseteq proofs' THEN "complete" ELSE phase
      /\ proofs' = ProofsWith({}, compiles' = "passed")
  BY DEF EditFiles, WorkRound, judged
<1>2. seen \subseteq seen' /\ compiles' \in {"unknown", "passed", "failed"}
  BY DEF EditFiles, Earned
<1>3. LedgerIsTrue'
  BY <1>1, <1>2 DEF Earned, LedgerIsTrue, HasEvidence, ProofsWith, TestSeen, BuildSeen, Seen
<1>4. phase' = "complete" => task' \subseteq proofs'
  BY <1>1 DEF Earned, ProofsWith
<1>5. taskRound' \in Nat /\ asked' \in Nat /\ asked' <= MaxAsked /\ JudgeStaysDue'
  BY <1>1 DEF Earned, JudgeStaysDue, TestimonyAssumption
<1>6. ClaimsWereSeen' /\ ChecksWerePassed' /\ JudgeIsHeard'
  BY <1>1 DEF ClaimsWereSeen, ChecksWerePassed, JudgeIsHeard
<1> QED
  BY <1>2, <1>3, <1>4, <1>5, <1>6 DEF Earned

LEMMA AutoFinishEarned ==
  ASSUME TestimonyAssumption, Earned, AutoFinish
  PROVE  Earned'
<1>1. /\ ended' = "verified" /\ task' = task /\ changed' = TRUE /\ compiles' = "passed"
      /\ taskRound' = taskRound + 1 /\ asked' = asked /\ evidence' = evidence
      /\ phase' = phase /\ proofs' = proofs
  BY DEF AutoFinish, WorkRound, judged
<1>2. seen \subseteq seen'
  BY DEF AutoFinish
<1>3. LedgerIsTrue'
  BY <1>1, <1>2 DEF Earned, LedgerIsTrue, HasEvidence, TestSeen, BuildSeen, Seen
<1>4. taskRound' \in Nat /\ asked' \in Nat /\ asked' <= MaxAsked /\ JudgeStaysDue'
  BY <1>1 DEF Earned, JudgeStaysDue, TestimonyAssumption
<1>5. ClaimsWereSeen' /\ ChecksWerePassed' /\ JudgeIsHeard'
  BY <1>1 DEF ClaimsWereSeen, ChecksWerePassed, JudgeIsHeard
<1> QED
  BY <1>1, <1>3, <1>4, <1>5 DEF Earned

(* Back to work or blocked: the round grows at most. *)
LEMMA RoundGrows ==
  ASSUME taskRound \in Nat, ended = "going",
         \/ HoldOrBlock
         \/ \E text : LastGates(text)
  PROVE  taskRound' \in Nat /\ taskRound' >= taskRound
BY DEF HoldOrBlock, LastGates

LEMMA WorkKept ==
  ASSUME Earned, UNCHANGED work
  PROVE  /\ compiles' \in {"unknown", "passed", "failed"}
         /\ LedgerIsTrue'
         /\ phase' = "complete" => task' \subseteq proofs'
         /\ task' = task /\ changed' = changed /\ trouble' = trouble
<1>1. /\ seen' = seen /\ compiles' = compiles /\ evidence' = evidence /\ proofs' = proofs
      /\ phase' = phase /\ task' = task /\ changed' = changed /\ trouble' = trouble
  BY DEF work
<1>2. LedgerIsTrue'
  BY <1>1 DEF Earned, LedgerIsTrue, HasEvidence, TestSeen, BuildSeen, Seen
<1> QED
  BY <1>1, <1>2 DEF Earned

LEMMA HeldForQualityEarned ==
  ASSUME TestimonyAssumption, Earned, HeldForQuality
  PROVE  Earned'
<1>1. UNCHANGED work /\ asked' = asked /\ ended = "going" /\ HoldOrBlock
  BY DEF HeldForQuality, judged
<1>2. taskRound' \in Nat /\ taskRound' >= taskRound
  BY <1>1, RoundGrows DEF Earned
<1>3. ended' # "done"
  BY <1>1 DEF HoldOrBlock
<1>4. JudgeStaysDue'
  BY <1>1, <1>2, WorkKept DEF Earned, JudgeStaysDue, TestimonyAssumption
<1>5. ClaimsWereSeen' /\ ChecksWerePassed' /\ JudgeIsHeard'
  BY <1>3 DEF ClaimsWereSeen, ChecksWerePassed, JudgeIsHeard
<1> QED
  BY <1>1, <1>2, <1>4, <1>5, WorkKept DEF Earned

LEMMA AnswerUnjudgedEarned ==
  ASSUME TestimonyAssumption, Earned, AnswerUnjudged
  PROVE  Earned'
<1>1. PICK text \in FinalTexts : answer' = text /\ LastGates(text)
  BY DEF AnswerUnjudged
<1>2. UNCHANGED work /\ asked' = asked /\ ended = "going" /\ ~JudgeIsDue
  BY DEF AnswerUnjudged, judged
<1>3. taskRound' \in Nat /\ taskRound' >= taskRound
  BY <1>1, <1>2, RoundGrows DEF Earned
<1>4. JudgeStaysDue'
  BY <1>2, <1>3, WorkKept DEF Earned, JudgeStaysDue, TestimonyAssumption
<1>5. ClaimsWereSeen' /\ ChecksWerePassed'
  BY <1>1, <1>2, LastGatesAreEarned
<1>6. JudgeIsHeard'
  <2>1. asked > 0 => BreakerIsOpen
    BY <1>2 DEF JudgeIsDue, Earned, JudgeStaysDue
  <2>2. asked > 0 => asked = MaxAsked
    BY <2>1 DEF BreakerIsOpen, Earned, TestimonyAssumption
  <2> QED
    BY <1>2, <2>2 DEF JudgeIsHeard
<1> QED
  BY <1>2, <1>3, <1>4, <1>5, <1>6, WorkKept DEF Earned

LEMMA AnswerJudgedEarned ==
  ASSUME TestimonyAssumption, Earned, AnswerJudged
  PROVE  Earned'
<1>1. PICK text \in FinalTexts :
        /\ answer' = text
        /\ \/ verdict' = "SATISFIED" /\ LastGates(text)
           \/ verdict' = "IMPOSSIBLE" /\ ended' = "blocked" /\ UNCHANGED taskRound
           \/ /\ verdict' = "NOT_SATISFIED"
              /\ IF RoundLeft THEN taskRound' = taskRound + 1 /\ UNCHANGED ended
                 ELSE ended' = "silent" /\ UNCHANGED taskRound
  BY DEF AnswerJudged
<1>2. UNCHANGED work /\ asked' = asked + 1 /\ ended = "going" /\ JudgeIsDue
  BY DEF AnswerJudged
<1>3. taskRound' \in Nat /\ taskRound' >= taskRound
  <2>1. taskRound \in Nat
    BY DEF Earned
  <2>2. CASE LastGates(text)
    BY <1>2, <2>1, <2>2, RoundGrows
  <2>3. CASE taskRound' = taskRound \/ taskRound' = taskRound + 1
    BY <2>1, <2>3
  <2> QED
    BY <1>1, <2>2, <2>3
<1>4. asked' \in Nat /\ asked' <= MaxAsked
  BY <1>2 DEF JudgeIsDue, BreakerIsOpen, Earned, TestimonyAssumption
<1>5. JudgeStaysDue'
  BY <1>2, <1>3, WorkKept DEF Earned, JudgeStaysDue, JudgeIsDue, TestimonyAssumption
<1>6. ClaimsWereSeen' /\ ChecksWerePassed'
  <2>1. CASE LastGates(text)
    BY <1>1, <1>2, <2>1, LastGatesAreEarned
  <2>2. CASE ended' # "done"
    BY <2>2 DEF ClaimsWereSeen, ChecksWerePassed
  <2> QED
    BY <1>1, <1>2, <2>1, <2>2
<1>7. JudgeIsHeard'
  BY <1>1, <1>2 DEF JudgeIsHeard
<1> QED
  BY <1>2, <1>3, <1>4, <1>5, <1>6, <1>7, WorkKept DEF Earned

LEMMA EarnedKept == Earned /\ [TestimonyNext]_judgeVars => Earned'
<1> SUFFICES ASSUME Earned, [TestimonyNext]_judgeVars PROVE Earned'
  OBVIOUS
<1>1. CASE UNCHANGED judgeVars
  <2>1. UNCHANGED work /\ asked' = asked /\ taskRound' = taskRound /\ ended' = ended
        /\ verdict' = verdict /\ answer' = answer
    BY <1>1 DEF judgeVars, work
  <2>2. ClaimsWereSeen' /\ ChecksWerePassed' /\ JudgeIsHeard' /\ JudgeStaysDue'
    BY <2>1 DEF Earned, work, ClaimsWereSeen, ChecksWerePassed, JudgeIsHeard, JudgeStaysDue,
                Seen, TruthClaims
  <2> QED
    BY <2>1, <2>2, WorkKept DEF Earned
<1> QED
  BY <1>1, TestimonyAssumption, RunCommandEarned, EditFilesEarned, AutoFinishEarned,
     HeldForQualityEarned, AnswerUnjudgedEarned, AnswerJudgedEarned DEF TestimonyNext

(* A failed test outweighs every other score. *)
LEMMA FailedTestsRetry ==
  ASSUME compiles \in {"unknown", "passed", "failed"}, TestFailed(results)
  PROVE  Recommended = {"retry"}
<1>1. TestScore(results) = -6908
  BY DEF TestScore, TestFailed
<1>2. ASSUME NEW i \in 1..4
      PROVE  TypecheckScore(compiles, i) \in Int /\ TypecheckScore(compiles, i) <= 0
  BY DEF TypecheckScore, Half
<1>3. ASSUME NEW d \in {"none", "allow", "warn", "block"}
      PROVE  RippleScore(d) \in Int /\ RippleScore(d) <= 0
  BY DEF RippleScore, Half
<1>4. ASSUME NEW i \in 1..4, NEW d \in {"none", "allow", "warn", "block"}
      PROVE  Recommendation(results, compiles, i, d) = "retry"
  <2>1. TenfoldLog(results, compiles, i, d) < -6931
    <3>1. PICK t \in Int, r \in Int :
            t = TypecheckScore(compiles, i) /\ r = RippleScore(d) /\ t <= 0 /\ r <= 0
      BY <1>2, <1>3
    <3>2. TenfoldLog(results, compiles, i, d) = 4 * (-6908) + 3 * t + 2 * r + (-693)
      BY <1>1, <3>1 DEF TenfoldLog, Half
    <3> QED
      BY <3>1, <3>2
  <2> QED
    BY <2>1 DEF Recommendation
<1>5. "retry" \in Recommended
  BY <1>4 DEF Recommended
<1> QED
  BY <1>4, <1>5 DEF Recommended

LEMMA EarnedAtFirst == TestimonyInit => Earned
BY TestimonyAssumption
DEF TestimonyInit, TestimonyAssumption, Earned, LedgerIsTrue, HasEvidence, JudgeStaysDue,
    ClaimsWereSeen, ChecksWerePassed, JudgeIsHeard

LEMMA EarnedSuffices == Earned => VerdictsAreEarned
BY FailedTestsRetry DEF Earned, VerdictsAreEarned, FailedTestsHold

(* A run that follows TestimonyNext from its start never delivers a claim that no command   *)
(* has shown, nor a tracked task whose tests never passed, nor an answer against a judge    *)
(* that may still be asked; and a failed test holds the answer: the confidence gate, the    *)
(* evidence gate and the judge of completion-orchestrator.ts taken together.                *)
THEOREM AnswersAreEarned ==
  TestimonyInit /\ [][TestimonyNext]_judgeVars => []VerdictsAreEarned
BY EarnedAtFirst, EarnedSuffices, EarnedKept, PTL
-----------------------------------------------------------------------------
(***************************************************************************)
(* Depth, for every set of prompts, tools and gates, and every limit.  As  *)
(* long as a run is not over the machine is in a state that may be         *)
(* blocked, the thinking of a round at work is the one decided from what   *)
(* the round before it left, and the file holds what was counted.          *)
(***************************************************************************)
Going == {"understand", "search", "plan", "code", "verify", "repair"}
Tallies == [GateNames -> [passes : Nat, blocks : Nat]]

MachineIsGoing == stage # "over" => machine \in Going

ThinksAsDecided ==
  stage = "work" => thinks = Decided(IF wanted THEN "max" ELSE effort)

Counting ==
  /\ counted \in Tallies /\ here \in Tallies
  /\ Loaded(hitsFile) = counted
  /\ CountsAddUp

Watched == seenRounds \in Nat /\ MachineIsGoing /\ ThinksAsDecided /\ Counting

(* Whatever a state of the machine aims at, it stays among those that may be blocked unless *)
(* the round is the last.                                                                   *)
LEMMA MovesAmongGoing ==
  ASSUME machine \in Going, NEW tools, NEW failed
  PROVE  Moved(tools, failed, FALSE) \in Going
<1>1. Aim(tools, failed, FALSE) \in Going
  BY DEF Aim, Going
<1> QED
  BY <1>1 DEF Moved

LEMMA GoingMayBlock ==
  ASSUME machine \in Going
  PROVE  "blocked" \in AllowedTransitions[machine]
BY DEF Going, AllowedTransitions

(* What is decided after a round in trouble. *)
LEMMA TroubleDecides ==
  ASSUME seenRounds \in Nat, seenRounds > 0, ThinksAsDecided, stage = "work"
  PROVE  TroubleIsHeeded
<1>1. PICK how : how = IF wanted THEN "max" ELSE effort
  OBVIOUS
<1>2. thinks = Decided(how)
  BY <1>1 DEF ThinksAsDecided
<1>3. ASSUME lastFailed, ~(lastTools \subseteq Readonly)
      PROVE  thinks.budget >= 16384
  <2>1. seenRounds # 0 /\ lastTools # {} /\ ~ReadOnlySoFar
    BY <1>3 DEF ReadOnlySoFar
  <2>2. \/ thinks = [budget |-> 32768, tokens |-> 8192]
        \/ thinks = Thinking(32768)
        \/ thinks = Thinking(16384)
    BY <1>2, <1>3, <2>1 DEF Decided
  <2>3. thinks.budget = 32768 \/ thinks.budget = 16384
    BY <2>2 DEF Thinking
  <2> QED
    BY <2>3
<1>4. ASSUME inARow >= ErrorLimit, ask.intent # "readonly", effort # "high"
      PROVE  thinks.budget = 32768
  <2>1. ForcesMax /\ how # "high"
    BY <1>1, <1>4 DEF ForcesMax
  <2>2. thinks = [budget |-> 32768, tokens |-> 8192]
    BY <1>2, <2>1 DEF Decided
  <2> QED
    BY <2>2
<1> QED
  BY <1>3, <1>4 DEF TroubleIsHeeded

(* Adding counts gate by gate. *)
LEMMA SumsAreTallies ==
  ASSUME NEW h \in Tallies, NEW k \in Tallies
  PROVE  Sum2(h, k) \in Tallies
<1>1. ASSUME NEW g \in GateNames
      PROVE  [passes |-> h[g].passes + k[g].passes, blocks |-> h[g].blocks + k[g].blocks]
               \in [passes : Nat, blocks : Nat]
  <2>1. h[g] \in [passes : Nat, blocks : Nat] /\ k[g] \in [passes : Nat, blocks : Nat]
    BY DEF Tallies
  <2> QED
    BY <2>1
<1> QED
  BY <1>1 DEF Sum2, Tallies

LEMMA ZeroIsTally == Zero \in Tallies
BY DEF Zero, Tallies

LEMMA ZeroAdds ==
  ASSUME NEW h \in Tallies
  PROVE  Sum2(h, Zero) = h /\ Sum2(Zero, h) = h
<1>1. ASSUME NEW g \in GateNames
      PROVE  /\ [passes |-> h[g].passes + Zero[g].passes, blocks |-> h[g].blocks + Zero[g].blocks] = h[g]
             /\ [passes |-> Zero[g].passes + h[g].passes, blocks |-> Zero[g].blocks + h[g].blocks] = h[g]
  <2>1. h[g] \in [passes : Nat, blocks : Nat]
    BY DEF Tallies
  <2>2. h[g] = [passes |-> h[g].passes, blocks |-> h[g].blocks] /\ h[g].passes \in Nat /\ h[g].blocks \in Nat
    BY <2>1
  <2>3. Zero[g].passes = 0 /\ Zero[g].blocks = 0
    BY DEF Zero
  <2>4. /\ h[g].passes + Zero[g].passes = h[g].passes /\ h[g].blocks + Zero[g].blocks = h[g].blocks
        /\ Zero[g].passes + h[g].passes = h[g].passes /\ Zero[g].blocks + h[g].blocks = h[g].blocks
    BY <2>2, <2>3
  <2> QED
    BY <2>2, <2>4
<1>2. h = [g \in GateNames |-> h[g]]
  BY DEF Tallies
<1> QED
  BY <1>1, <1>2 DEF Sum2

LEMMA RecordingAdds ==
  ASSUME NEW h \in Tallies, NEW k \in Tallies, NEW g \in GateNames,
         NEW outcome \in {"passes", "blocks"}
  PROVE  /\ Record(k, g, outcome) \in Tallies
         /\ Record(Sum2(h, k), g, outcome) = Sum2(h, Record(k, g, outcome))
<1>1. \A f \in GateNames : /\ h[f] \in [passes : Nat, blocks : Nat]
                           /\ k[f] \in [passes : Nat, blocks : Nat]
  BY DEF Tallies
<1>2. Record(k, g, outcome) \in Tallies
  <2>1. k[g] \in [passes : Nat, blocks : Nat] /\ k[g][outcome] + 1 \in Nat
    BY <1>1
  <2>2. [k[g] EXCEPT ![outcome] = @ + 1] \in [passes : Nat, blocks : Nat]
    BY <2>1
  <2>3. Record(k, g, outcome) = [k EXCEPT ![g] = [k[g] EXCEPT ![outcome] = @ + 1]]
    BY DEF Record
  <2> QED
    BY <2>2, <2>3 DEF Tallies
<1>3. ASSUME NEW f \in GateNames
      PROVE  Record(Sum2(h, k), g, outcome)[f] = Sum2(h, Record(k, g, outcome))[f]
  <2>1. Sum2(h, k)[f] = [passes |-> h[f].passes + k[f].passes, blocks |-> h[f].blocks + k[f].blocks]
    BY DEF Sum2
  <2>2. CASE f # g
    <3>1. Record(k, g, outcome)[f] = k[f]
      BY <2>2 DEF Record, Tallies
    <3>2. Record(Sum2(h, k), g, outcome)[f] = Sum2(h, k)[f]
      BY <2>2 DEF Record, Sum2
    <3> QED
      BY <2>1, <3>1, <3>2 DEF Sum2
  <2>3. CASE f = g
    <3>1. Record(k, g, outcome)[g] = [k[g] EXCEPT ![outcome] = @ + 1]
      BY DEF Record, Tallies
    <3>2. Record(Sum2(h, k), g, outcome)[g] = [Sum2(h, k)[g] EXCEPT ![outcome] = @ + 1]
      BY DEF Record, Sum2
    <3>3. Sum2(h, Record(k, g, outcome))[g] =
            [passes |-> h[g].passes + Record(k, g, outcome)[g].passes,
             blocks |-> h[g].blocks + Record(k, g, outcome)[g].blocks]
      BY DEF Sum2
    <3>4. CASE outcome = "passes"
      <4>1. Record(k, g, outcome)[g].passes = k[g].passes + 1 /\ Record(k, g, outcome)[g].blocks = k[g].blocks
        BY <1>1, <3>1, <3>4
      <4>2. Record(Sum2(h, k), g, outcome)[g] =
              [passes |-> (h[g].passes + k[g].passes) + 1, blocks |-> h[g].blocks + k[g].blocks]
        BY <2>1, <2>3, <3>2, <3>4
      <4>3. (h[g].passes + k[g].passes) + 1 = h[g].passes + (k[g].passes + 1)
        BY <1>1
      <4> QED
        BY <2>3, <3>3, <4>1, <4>2, <4>3
    <3>5. CASE outcome = "blocks"
      <4>1. Record(k, g, outcome)[g].blocks = k[g].blocks + 1 /\ Record(k, g, outcome)[g].passes = k[g].passes
        BY <1>1, <3>1, <3>5
      <4>2. Record(Sum2(h, k), g, outcome)[g] =
              [passes |-> h[g].passes + k[g].passes, blocks |-> (h[g].blocks + k[g].blocks) + 1]
        BY <2>1, <2>3, <3>2, <3>5
      <4>3. (h[g].blocks + k[g].blocks) + 1 = h[g].blocks + (k[g].blocks + 1)
        BY <1>1
      <4> QED
        BY <2>3, <3>3, <4>1, <4>2, <4>3
    <3> QED
      BY <3>4, <3>5
  <2> QED
    BY <2>2, <2>3
<1>4. /\ Record(Sum2(h, k), g, outcome) = [f \in GateNames |-> Record(Sum2(h, k), g, outcome)[f]]
      /\ Sum2(h, Record(k, g, outcome)) = [f \in GateNames |-> Sum2(h, Record(k, g, outcome))[f]]
  BY DEF Record, Sum2
<1> QED
  BY <1>2, <1>3, <1>4

(* Counts are no torn file. *)
LEMMA TalliesAreWhole ==
  ASSUME NEW h \in Tallies
  PROVE  h # Torn /\ Loaded(h) = h
<1>1. "torn" \notin DOMAIN h
  BY DepthAssumption DEF DepthAssumption, Tallies
<1>2. "torn" \in DOMAIN Torn
  BY DEF Torn
<1> QED
  BY <1>1, <1>2, ZeroAdds DEF Loaded

(* An outcome is counted in the run and in the sum alike. *)
LEMMA OutcomeCounts ==
  ASSUME Counting, NEW g \in GateNames, NEW outcome \in {"passes", "blocks"},
         hits' = Record(hits, g, outcome), here' = Record(here, g, outcome), UNCHANGED tally
  PROVE  Counting'
<1>1. counted' = counted /\ hitsFile' = hitsFile
  BY DEF tally
<1>2. here' \in Tallies /\ hits' = Sum2(counted, here')
  BY RecordingAdds DEF Counting, CountsAddUp
<1> QED
  BY <1>1, <1>2 DEF Counting, CountsAddUp, Loaded

LEMMA CountsRest ==
  ASSUME Counting, UNCHANGED <<hits, here, tally>>
  PROVE  Counting'
BY DEF Counting, CountsAddUp, Loaded, tally

(* A new run starts from what the file holds. *)
LEMMA CountsStart ==
  ASSUME counted' \in Tallies, here' = Zero, hits' = Loaded(hitsFile'),
         Loaded(hitsFile') = counted'
  PROVE  Counting'
<1>1. hits' = Sum2(counted', here')
  BY ZeroAdds
<1> QED
  BY <1>1, ZeroIsTally DEF Counting, CountsAddUp, Loaded

LEMMA StartIsWatched ==
  ASSUME StartsRun, Counting'
  PROVE  Watched'
BY DEF StartsRun, Watched, MachineIsGoing, ThinksAsDecided, Going

LEMMA DecideWatched ==
  ASSUME Watched, Decide
  PROVE  Watched'
<1>1. /\ stage = "decide" /\ stage' = "work" /\ machine' = machine /\ seenRounds' = seenRounds
      /\ UNCHANGED <<ask, effort, memo, roundNo, sums, tally>>
      /\ thinks' = Decided(IF wanted THEN "max" ELSE effort)
  BY DEF Decide, memo
<1>2. Counting'
  <2>1. PICK g \in GateNames : hits' = Record(hits, g, "passes") /\ here' = Record(here, g, "passes")
    BY DEF Decide
  <2> QED
    BY <1>1, <2>1, OutcomeCounts DEF Watched
<1>3. ThinksAsDecided'
  BY <1>1 DEF ThinksAsDecided, Decided, ForcesMax, Score, ReadOnlySoFar, NoThinking, Thinking,
              MaxTokens, memo, sums
<1> QED
  BY <1>1, <1>2, <1>3 DEF Watched, MachineIsGoing

LEMMA RunToolsWatched ==
  ASSUME Watched, RunTools
  PROVE  Watched'
<1>1. /\ stage = "work" /\ UNCHANGED <<hits, here, tally>> /\ stage' # "work"
  BY DEF RunTools
<1>2. seenRounds' \in Nat
  BY DEF RunTools, UpdateState, Watched
<1>3. MachineIsGoing'
  <2>1. \/ stage' = "over"
        \/ \E tools, failed : ~LastOfAll /\ machine' = Moved(tools, failed, LastOfAll)
    BY DEF RunTools
  <2>2. ASSUME NEW tools, NEW failed, ~LastOfAll, machine' = Moved(tools, failed, LastOfAll)
        PROVE  machine' \in Going
    <3>1. machine \in Going
      BY <1>1 DEF Watched, MachineIsGoing
    <3>2. LastOfAll = FALSE
      BY <2>2 DEF LastOfAll
    <3>3. Moved(tools, failed, FALSE) \in Going
      BY <3>1, MovesAmongGoing
    <3> QED
      BY <2>2, <3>2, <3>3
  <2> QED
    BY <2>1, <2>2 DEF MachineIsGoing
<1> QED
  BY <1>1, <1>2, <1>3, CountsRest DEF Watched, ThinksAsDecided

LEMMA TextHeldWatched ==
  ASSUME Watched, TextHeld
  PROVE  Watched'
<1>1. /\ stage = "work" /\ stage' = "decide" /\ machine' = machine /\ seenRounds' = seenRounds
      /\ UNCHANGED tally
  BY DEF TextHeld, memo
<1>2. PICK g \in GateNames : hits' = Record(hits, g, "blocks") /\ here' = Record(here, g, "blocks")
  BY DEF TextHeld
<1>3. Counting'
  BY <1>1, <1>2, OutcomeCounts DEF Watched
<1> QED
  BY <1>1, <1>3 DEF Watched, MachineIsGoing, ThinksAsDecided

LEMMA TextEndsWatched ==
  ASSUME Watched, TextEnds
  PROVE  Watched'
<1>1. stage' = "over" /\ seenRounds' = seenRounds /\ UNCHANGED <<hits, here, tally>>
  BY DEF TextEnds, memo
<1> QED
  BY <1>1, CountsRest DEF Watched, MachineIsGoing, ThinksAsDecided

LEMMA FlushAndRestartWatched ==
  ASSUME Watched, FlushAndRestart
  PROVE  Watched'
<1>1. /\ StartsRun /\ here' = Zero /\ hits' = Loaded(hitsFile')
      /\ \/ hitsFile' = hits /\ counted' = Sum2(counted, here)
         \/ hitsFile' = Torn /\ counted' = Zero
  BY DEF FlushAndRestart, StartsRun, ToSave
<1>2. hits = Sum2(counted, here) /\ hits \in Tallies
  BY SumsAreTallies DEF Watched, Counting, CountsAddUp
<1>3. counted' \in Tallies /\ Loaded(hitsFile') = counted'
  <2>1. CASE hitsFile' = hits /\ counted' = Sum2(counted, here)
    BY <1>2, <2>1, TalliesAreWhole
  <2>2. CASE hitsFile' = Torn /\ counted' = Zero
    BY <2>2, ZeroIsTally DEF Loaded
  <2> QED
    BY <1>1, <2>1, <2>2
<1> QED
  BY <1>1, <1>3, CountsStart, StartIsWatched

LEMMA BrokenOffWatched ==
  ASSUME Watched, BrokenOff
  PROVE  Watched'
<1>1. StartsRun /\ here' = Zero /\ hits' = Loaded(hitsFile') /\ hitsFile' = hitsFile /\ counted' = counted
  BY DEF BrokenOff, StartsRun
<1>2. counted' \in Tallies /\ Loaded(hitsFile') = counted'
  BY <1>1 DEF Watched, Counting
<1> QED
  BY <1>1, <1>2, CountsStart, StartIsWatched

LEMMA WatchedKept == Watched /\ [DepthNext]_depthVars => Watched'
<1> SUFFICES ASSUME Watched, [DepthNext]_depthVars PROVE Watched'
  OBVIOUS
<1>1. CASE UNCHANGED depthVars
  <2>1. UNCHANGED <<hits, here, tally>> /\ UNCHANGED <<ask, effort, memo, sums, thinks, stage>>
    BY <1>1 DEF depthVars
  <2>2. ThinksAsDecided'
    BY <2>1 DEF Watched, ThinksAsDecided, Decided, ForcesMax, Score, ReadOnlySoFar, NoThinking,
                Thinking, MaxTokens, memo, sums
  <2> QED
    BY <2>1, <2>2, CountsRest DEF Watched, MachineIsGoing, memo
<1> QED
  BY <1>1, DecideWatched, RunToolsWatched, TextHeldWatched, TextEndsWatched,
     FlushAndRestartWatched, BrokenOffWatched DEF DepthNext

LEMMA WatchedAtFirst == DepthInit => Watched
<1> SUFFICES ASSUME DepthInit PROVE Watched
  OBVIOUS
<1>1. hitsFile = Zero /\ counted = Zero /\ here = Zero /\ hits = Zero
  BY DEF DepthInit
<1>2. Loaded(hitsFile) = counted /\ hits = Sum2(counted, here)
  BY <1>1, ZeroIsTally, ZeroAdds, TalliesAreWhole
<1> QED
  BY <1>1, <1>2, ZeroIsTally
  DEF DepthInit, Watched, MachineIsGoing, ThinksAsDecided, Counting, CountsAddUp, Going

LEMMA WatchedSuffices == Watched => RunIsWatched
<1> SUFFICES ASSUME Watched PROVE RunIsWatched
  OBVIOUS
<1>1. BlockingNeverThrows
  BY GoingMayBlock DEF Watched, MachineIsGoing, BlockingNeverThrows
<1>2. TroubleIsHeeded
  <2>1. CASE stage = "work" /\ seenRounds > 0
    BY <2>1, TroubleDecides DEF Watched
  <2> QED
    BY <2>1 DEF TroubleIsHeeded
<1> QED
  BY <1>1, <1>2 DEF RunIsWatched, Watched, Counting

(* Wherever a gate may overflow the machine lets itself be blocked, a round that wrote and   *)
(* failed is followed by one that thinks harder, and the counts of the gates add up over all *)
(* runs, broken off, torn or finished (state-machine.ts, router.ts, gates/telemetry.ts).     *)
THEOREM RunsAreWatched == DepthInit /\ [][DepthNext]_depthVars => []RunIsWatched
BY WatchedAtFirst, WatchedSuffices, WatchedKept, PTL
-----------------------------------------------------------------------------
(***************************************************************************)
(* PlanReview, for every set of texts, replies and packets.  checkCycles   *)
(* is a search; that it finds something just when there is a cycle is      *)
(* proved from what holds between two of its steps, by counting what it    *)
(* has still to do.  Induction over the steps of a loop is an argument     *)
(* about the least step at which something would fail (LeastExists), and   *)
(* that a function defined by recursion exists is proved the same way      *)
(* (RecursionExists).                                                      *)
(***************************************************************************)
(* A set of natural numbers that has a member has a least one.             *)
LEMMA LeastExists ==
  ASSUME NEW S \in SUBSET Nat, S # {}
  PROVE  \E x \in S : \A y \in S : x <= y
<1> DEFINE below == {p \in Nat \X Nat : p[1] < p[2]}
<1>1. IsWellFoundedOn(below, Nat)
  BY NatLessThanWellFounded, Zenon DEF OpToRel
<1>2. \A x, y \in Nat : y < x => <<y, x>> \in below
  OBVIOUS
<1> HIDE DEF below
<1>3. \E x \in S : \A y \in S : ~ (<<y, x>> \in below)
  BY <1>1, WFMin
<1>4. PICK x \in S : \A y \in S : ~ (<<y, x>> \in below)
  BY <1>3
<1>5. \A y \in S : ~ (y < x)
  BY <1>2, <1>4
<1> QED
  BY <1>4, <1>5

Unfolds(g, n, a, F) == g = [i \in 0..n |-> IF i = 0 THEN a ELSE F[i][g[i - 1]]]

(* A function on 0..n that is defined by what it is at 0 and by a step.    *)
LEMMA RecursionExists ==
  ASSUME NEW n \in Nat, NEW S, NEW a \in S, NEW F \in [1..n -> [S -> S]]
  PROVE  \E g \in [0..n -> S] : Unfolds(g, n, a, F)
<1> DEFINE Is(g, k) == g = [i \in 0..k |-> IF i = 0 THEN a ELSE F[i][g[i - 1]]]
           without == {k \in 0..n : ~ \E g \in [0..k -> S] : Is(g, k)}
<1>1. SUFFICES ASSUME without # {} PROVE FALSE
  <2>1. n \notin without => \E g \in [0..n -> S] : Is(g, n)
    OBVIOUS
  <2> HIDE DEF without
  <2> QED
    BY <2>1 DEF Unfolds
<1>5. without \in SUBSET Nat /\ without \subseteq 0..n
  OBVIOUS
<1>6. \A k \in 0..n : k \notin without => \E g \in [0..k -> S] : Is(g, k)
  OBVIOUS
<1>7. \A k \in without : ~ \E g \in [0..k -> S] : Is(g, k)
  OBVIOUS
<1> HIDE DEF without
<1>2. PICK k \in without : \A j \in without : k <= j
  BY <1>1, <1>5, LeastExists
<1>3. CASE k = 0
  <2> DEFINE g == [i \in 0..0 |-> a]
  <2>1. g \in [0..0 -> S] /\ Is(g, 0)
    OBVIOUS
  <2> QED
    BY <1>2, <1>3, <1>7, <2>1
<1>4. CASE k # 0
  <2>1. k - 1 \in 0..n /\ k \in 1..n /\ k - 1 \notin without
    BY <1>2, <1>4, <1>5
  <2>2. PICK h \in [0..(k - 1) -> S] : Is(h, k - 1)
    BY <1>6, <2>1
  <2> DEFINE g == [i \in 0..k |-> IF i = k THEN F[k][h[k - 1]] ELSE h[i]]
  <2>3. g \in [0..k -> S]
    BY <2>1
  <2>4. Is(g, k)
    <3>1. ASSUME NEW i \in 0..k
          PROVE  g[i] = IF i = 0 THEN a ELSE F[i][g[i - 1]]
      <4>1. CASE i = 0
        BY <2>1, <2>2, <4>1
      <4>2. CASE i = k
        BY <2>1, <4>2
      <4>3. CASE i # 0 /\ i # k
        <5>1. i \in 0..(k - 1) /\ i - 1 \in 0..(k - 1) /\ i - 1 # k
          BY <2>1, <4>3
        <5>2. g[i] = h[i] /\ g[i - 1] = h[i - 1]
          BY <2>1, <4>3, <5>1
        <5>3. h[i] = IF i = 0 THEN a ELSE F[i][h[i - 1]]
          BY <2>2, <5>1
        <5> QED
          BY <4>3, <5>2, <5>3
      <4> QED
        BY <4>1, <4>2, <4>3
    <3> QED
      BY <3>1
  <2> QED
    BY <1>2, <1>7, <2>3, <2>4
<1> QED
  BY <1>3, <1>4


(* A plan is a list of nodes.                                              *)
IsList(list) == list \in Seq(ToSet(list))

LEMMA IdsAreFinite ==
  ASSUME NEW list, IsList(list)
  PROVE  IsFiniteSet(IdsOf(list)) /\ DOMAIN list \in SUBSET Nat
<1> DEFINE f == [i \in DOMAIN list |-> list[i].id]
<1>1. DOMAIN list = 1..Len(list) /\ Len(list) \in Nat
  BY DEF IsList
<1>2. f \in Surjection(DOMAIN list, IdsOf(list))
  BY DEF Surjection, IdsOf
<1>3. IsFiniteSet(DOMAIN list)
  BY <1>1, FS_Interval
<1> HIDE DEF f
<1> QED
  BY <1>1, <1>2, <1>3, FS_Surjection

(* What holds of the search of checkCycles between two steps of it: the    *)
(* gray nodes are those on the path, each waits for the next one, what has *)
(* been gone through leads to a black node or along the path, and as long  *)
(* as nothing is found no set of black nodes waits for itself.             *)
Colours == {"white", "gray", "black"}
Walks(list) ==
  [colour : [IdsOf(list) -> Colours], path : Seq(IdsOf(list)), open : SUBSET ToGo(list),
   found : SUBSET IdsOf(list)]

GrayIsPath(list, w) ==
  /\ \A i \in DOMAIN w.path : w.colour[w.path[i]] = "gray"
  /\ \A i, j \in DOMAIN w.path : w.path[i] = w.path[j] => i = j
  /\ \A id \in IdsOf(list) :
       w.colour[id] = "gray" => \E i \in DOMAIN w.path : w.path[i] = id

NextOnPath(w, t) ==
  \E i \in 1..(Len(w.path) - 1) : t[2] = w.path[i] /\ t[3] = w.path[i + 1]

PathWaits(list, w) ==
  \A i \in 1..(Len(w.path) - 1) : w.path[i + 1] \in DepsWithin(list, w.path[i])

GoneThrough(list, w) ==
  \A t \in ToGo(list) \ w.open :
    /\ w.colour[t[2]] # "white"
    /\ w.colour[t[3]] = "black" \/ w.found # {} \/ NextOnPath(w, t)

StillOpen(list, w) == \A t \in w.open : w.colour[t[2]] # "black"

FoundIsCycle(list, w) == w.found # {} => Cyclic(list)

NoneWaits(list, S) == \E id \in S : DepsWithin(list, id) \cap S = {}
Black(list, w) == {id \in IdsOf(list) : w.colour[id] = "black"}
BlackIsSettled(list, w) ==
  w.found = {} => \A S \in SUBSET Black(list, w) : S # {} => NoneWaits(list, S)

Searching(list, w) ==
  /\ w \in Walks(list)
  /\ GrayIsPath(list, w) /\ PathWaits(list, w) /\ GoneThrough(list, w)
  /\ StillOpen(list, w) /\ FoundIsCycle(list, w) /\ BlackIsSettled(list, w)

LEMMA ToGoIs ==
  ASSUME NEW list, NEW t \in ToGo(list)
  PROVE  t[1] = "go" /\ t[2] \in IdsOf(list) /\ t[3] \in DepsWithin(list, t[2]) /\ t[3] \in IdsOf(list)
BY DEF ToGo, DepsWithin

LEMMA DepIsToGo ==
  ASSUME NEW list, NEW id \in IdsOf(list), NEW d \in DepsWithin(list, id)
  PROVE  <<"go", id, d>> \in ToGo(list)
<1>1. d \in IdsOf(list)
  BY DEF DepsWithin
<1> QED
  BY <1>1 DEF ToGo

(* A node is entered from the end of the path, or from nowhere.            *)
LEMMA EnterKeeps ==
  ASSUME NEW list, NEW w, Searching(list, w), NEW id \in IdsOf(list), w.colour[id] = "white",
         NEW open \in SUBSET w.open, NEW v,
         v = [colour |-> [w.colour EXCEPT ![id] = "gray"], path |-> Append(w.path, id),
              open |-> open, found |-> w.found],
         w.path # <<>> => id \in DepsWithin(list, w.path[Len(w.path)]),
         \A t \in w.open \ open : w.path # <<>> /\ t[2] = w.path[Len(w.path)] /\ t[3] = id
  PROVE  Searching(list, v)
<1> DEFINE n == Len(w.path)  ListIds == IdsOf(list)
<1>1. /\ w.colour \in [ListIds -> Colours] /\ w.path \in Seq(ListIds) /\ w.open \in SUBSET ToGo(list)
      /\ w.found \in SUBSET ListIds /\ n \in Nat /\ DOMAIN w.path = 1..n
      /\ \A i \in 1..n : w.path[i] \in ListIds
  BY DEF Searching, Walks
<1>2. /\ v.colour = [w.colour EXCEPT ![id] = "gray"] /\ v.path = Append(w.path, id)
      /\ v.open = open /\ v.found = w.found
  OBVIOUS
<1>3. /\ v.colour \in [ListIds -> Colours] /\ v.colour[id] = "gray"
      /\ \A d \in ListIds : d # id => v.colour[d] = w.colour[d]
  BY <1>1, <1>2 DEF Colours
<1>4. /\ v.path \in Seq(ListIds) /\ Len(v.path) = n + 1 /\ DOMAIN v.path = 1..(n + 1)
      /\ v.path[n + 1] = id /\ \A i \in 1..n : v.path[i] = w.path[i]
  BY <1>1, <1>2
<1>5. v \in Walks(list)
  BY <1>1, <1>3, <1>4 DEF Walks
<1>6. w.path = <<>> <=> n = 0
  BY <1>1
<1> HIDE DEF n
<1>7. GrayIsPath(list, w)
  BY DEF Searching
<1>8. \A i \in 1..n : w.path[i] # id /\ w.colour[w.path[i]] = "gray"
  BY <1>1, <1>7 DEF GrayIsPath
<1>9. GrayIsPath(list, v)
  <2>1. \A i \in 1..(n + 1) : v.colour[v.path[i]] = "gray"
    BY <1>1, <1>3, <1>4, <1>8
  <2>2. \A i, j \in 1..(n + 1) : v.path[i] = v.path[j] => i = j
    <3> TAKE i, j \in 1..(n + 1)
    <3> SUFFICES ASSUME v.path[i] = v.path[j] PROVE i = j
      OBVIOUS
    <3>1. CASE i \in 1..n /\ j \in 1..n
      <4>1. \A k, l \in 1..n : w.path[k] = w.path[l] => k = l
        BY <1>1, <1>7 DEF GrayIsPath
      <4>2. v.path[i] = w.path[i] /\ v.path[j] = w.path[j]
        BY <1>4, <3>1
      <4> QED
        BY <3>1, <4>1, <4>2
    <3>2. CASE i = n + 1 /\ j \in 1..n
      <4>1. v.path[i] = id /\ v.path[j] = w.path[j] /\ w.path[j] # id
        BY <1>4, <1>8, <3>2
      <4> QED
        BY <4>1
    <3>3. CASE i \in 1..n /\ j = n + 1
      <4>1. v.path[j] = id /\ v.path[i] = w.path[i] /\ w.path[i] # id
        BY <1>4, <1>8, <3>3
      <4> QED
        BY <4>1
    <3>4. i \in 1..n \/ i = n + 1
      BY <1>1
    <3>5. j \in 1..n \/ j = n + 1
      BY <1>1
    <3> QED
      BY <3>1, <3>2, <3>3, <3>4, <3>5
  <2>3. ASSUME NEW d \in ListIds, v.colour[d] = "gray"
        PROVE  \E i \in 1..(n + 1) : v.path[i] = d
    <3>1. CASE d = id
      BY <1>1, <1>4, <3>1
    <3>2. CASE d # id
      <4>1. PICK i \in 1..n : w.path[i] = d
        BY <1>1, <1>3, <1>7, <2>3, <3>2 DEF GrayIsPath
      <4> QED
        BY <1>1, <1>4, <4>1
    <3> QED
      BY <3>1, <3>2
  <2> QED
    BY <1>4, <2>1, <2>2, <2>3 DEF GrayIsPath
<1>10. PathWaits(list, v)
  <2> SUFFICES ASSUME NEW i \in 1..n
               PROVE  v.path[i + 1] \in DepsWithin(list, v.path[i])
    BY <1>1, <1>4 DEF PathWaits
  <2>1. CASE i = n
    <3>1. id \in DepsWithin(list, w.path[n]) /\ v.path[i + 1] = id /\ v.path[i] = w.path[n]
      BY <1>1, <1>4, <1>6, <2>1 DEF n
    <3> QED
      BY <3>1
  <2>2. CASE i # n
    <3>1. i \in 1..(n - 1) /\ i + 1 \in 1..n
      BY <1>1, <2>2
    <3>2. w.path[i + 1] \in DepsWithin(list, w.path[i])
      BY <3>1 DEF Searching, PathWaits, n
    <3> QED
      BY <1>4, <3>1, <3>2
  <2> QED
    BY <2>1, <2>2
<1>11. \A t : NextOnPath(w, t) => NextOnPath(v, t)
  <2> SUFFICES ASSUME NEW t, NextOnPath(w, t) PROVE NextOnPath(v, t)
    OBVIOUS
  <2>1. PICK i \in 1..(n - 1) : t[2] = w.path[i] /\ t[3] = w.path[i + 1]
    BY DEF NextOnPath, n
  <2>2. i \in 1..n /\ i + 1 \in 1..n /\ i \in 1..((n + 1) - 1)
    BY <1>1
  <2>3. t[2] = v.path[i] /\ t[3] = v.path[i + 1] /\ i \in 1..(Len(v.path) - 1)
    BY <1>4, <2>1, <2>2
  <2> QED
    BY <2>3 DEF NextOnPath
<1>12. GoneThrough(list, v)
  <2> SUFFICES ASSUME NEW t \in ToGo(list), t \notin open
               PROVE  /\ v.colour[t[2]] # "white"
                      /\ v.colour[t[3]] = "black" \/ v.found # {} \/ NextOnPath(v, t)
    BY <1>2 DEF GoneThrough
  <2>1. t[2] \in ListIds /\ t[3] \in ListIds
    BY ToGoIs
  <2>2. CASE t \notin w.open
    <3>1. /\ w.colour[t[2]] # "white"
          /\ w.colour[t[3]] = "black" \/ w.found # {} \/ NextOnPath(w, t)
      BY <2>2 DEF Searching, GoneThrough
    <3>2. v.colour[t[2]] # "white" /\ (w.colour[t[3]] = "black" => v.colour[t[3]] = "black")
      BY <1>3, <2>1, <3>1
    <3> QED
      BY <1>2, <1>11, <3>1, <3>2
  <2>3. CASE t \in w.open
    <3>1. n # 0 /\ t[2] = w.path[n] /\ t[3] = id
      BY <1>6, <2>3 DEF n
    <3>2. n \in 1..n /\ n \in 1..(Len(v.path) - 1)
      BY <1>1, <1>4, <3>1
    <3>3. t[2] = v.path[n] /\ t[3] = v.path[n + 1]
      BY <1>4, <3>1, <3>2
    <3>4. v.colour[t[2]] = "gray"
      BY <1>3, <1>8, <2>1, <3>1, <3>2
    <3> QED
      BY <3>2, <3>3, <3>4 DEF NextOnPath
  <2> QED
    BY <2>2, <2>3
<1>13. StillOpen(list, v)
  <2> SUFFICES ASSUME NEW t \in open PROVE v.colour[t[2]] # "black"
    BY <1>2 DEF StillOpen
  <2>1. t \in w.open /\ t[2] \in ListIds
    BY <1>1, ToGoIs
  <2> QED
    BY <1>3, <2>1 DEF Searching, StillOpen
<1>14. FoundIsCycle(list, v)
  BY <1>2 DEF Searching, FoundIsCycle
<1>15. Black(list, v) = Black(list, w)
  BY <1>3 DEF Black
<1>16. BlackIsSettled(list, v)
  BY <1>2, <1>15 DEF Searching, BlackIsSettled
<1> QED
  BY <1>5, <1>9, <1>10, <1>12, <1>13, <1>14, <1>16 DEF Searching


(* The end of the path is left when nothing is to be gone through from it: *)
(* what it waits for is black, so it is part of no circle of black nodes.  *)
LEMMA LeaveKeeps ==
  ASSUME NEW list, NEW w, Searching(list, w), w.path # <<>>, NEW u, u = w.path[Len(w.path)],
         \A t \in w.open : t[2] # u, NEW v,
         v = [colour |-> [w.colour EXCEPT ![u] = "black"], path |-> Front(w.path),
              open |-> w.open, found |-> w.found]
  PROVE  Searching(list, v)
<1> DEFINE n == Len(w.path)  ListIds == IdsOf(list)
<1>1. /\ w.colour \in [ListIds -> Colours] /\ w.path \in Seq(ListIds) /\ w.open \in SUBSET ToGo(list)
      /\ w.found \in SUBSET ListIds /\ n \in Nat /\ n # 0 /\ DOMAIN w.path = 1..n
      /\ \A i \in 1..n : w.path[i] \in ListIds
  BY DEF Searching, Walks
<1>2. /\ v.colour = [w.colour EXCEPT ![u] = "black"] /\ v.path = Front(w.path)
      /\ v.open = w.open /\ v.found = w.found
  OBVIOUS
<1>3. u = w.path[n] /\ u \in ListIds /\ n \in 1..n
  BY <1>1
<1>4. /\ v.colour \in [ListIds -> Colours] /\ v.colour[u] = "black"
      /\ \A d \in ListIds : d # u => v.colour[d] = w.colour[d]
  BY <1>1, <1>2, <1>3 DEF Colours
<1>5. /\ v.path \in Seq(ListIds) /\ Len(v.path) = n - 1 /\ DOMAIN v.path = 1..(n - 1)
      /\ \A i \in 1..(n - 1) : v.path[i] = w.path[i]
  <2>1. v.path = SubSeq(w.path, 1, n - 1)
    BY <1>2 DEF Front
  <2>2. \A i \in 1..(n - 1) : w.path[i] \in ListIds
    BY <1>1
  <2>3. n - 1 \in Nat
    BY <1>1
  <2>5. n - 1 <= n /\ n \in Nat
    BY <1>1
  <2> DEFINE m == n - 1
  <2>6. m \in Nat /\ \A i \in 1..m : i \in 1..n
    BY <2>3, <2>5
  <2>7. v.path = SubSeq(w.path, 1, m) /\ \A i \in 1..m : w.path[i] \in ListIds
    BY <2>1, <2>2
  <2> HIDE DEF m, n, ListIds
  <2>8. 1 \in Int /\ m \in Int
    BY <2>6
  <2>9. /\ SubSeq(w.path, 1, m) \in Seq(ListIds)
        /\ Len(SubSeq(w.path, 1, m)) = IF 1 <= m THEN m - 1 + 1 ELSE 0
        /\ \A i \in 1..(m - 1 + 1) : SubSeq(w.path, 1, m)[i] = w.path[1 + i - 1]
    BY <2>7, <2>8, SubSeqProperties
  <2>10. m - 1 + 1 = m /\ (IF 1 <= m THEN m - 1 + 1 ELSE 0) = m /\ \A i \in 1..m : 1 + i - 1 = i
    BY <2>6
  <2>11. /\ v.path \in Seq(ListIds) /\ Len(v.path) = m
         /\ \A i \in 1..m : v.path[i] = w.path[i]
    BY <2>7, <2>9, <2>10
  <2>12. DOMAIN v.path = 1..Len(v.path)
    BY <2>11
  <2> QED
    BY <2>11, <2>12 DEF m
<1>6. v \in Walks(list)
  BY <1>1, <1>2, <1>4, <1>5 DEF Walks
<1> HIDE DEF n
<1>7. GrayIsPath(list, w) /\ GoneThrough(list, w) /\ StillOpen(list, w)
  BY DEF Searching
<1>8. \A i \in 1..(n - 1) : i \in 1..n /\ w.path[i] # u
  <2> TAKE i \in 1..(n - 1)
  <2>1. i \in 1..n /\ i # n
    BY <1>1
  <2> QED
    BY <1>1, <1>3, <1>7, <2>1 DEF GrayIsPath
<1>9. w.colour[u] = "gray"
  BY <1>1, <1>3, <1>7 DEF GrayIsPath
<1>10. GrayIsPath(list, v)
  <2>1. \A i \in 1..(n - 1) : v.colour[v.path[i]] = "gray"
    <3> TAKE i \in 1..(n - 1)
    <3>1. i \in DOMAIN w.path /\ w.path[i] # u /\ v.path[i] = w.path[i] /\ w.path[i] \in ListIds
      BY <1>1, <1>5, <1>8
    <3>2. w.colour[w.path[i]] = "gray"
      BY <1>7, <3>1 DEF GrayIsPath
    <3> QED
      BY <1>4, <3>1, <3>2
  <2>2. \A i, j \in 1..(n - 1) : v.path[i] = v.path[j] => i = j
    <3> TAKE i, j \in 1..(n - 1)
    <3>1. /\ i \in DOMAIN w.path /\ j \in DOMAIN w.path
          /\ v.path[i] = w.path[i] /\ v.path[j] = w.path[j]
      BY <1>1, <1>5, <1>8
    <3> QED
      BY <1>7, <3>1 DEF GrayIsPath
  <2>3. ASSUME NEW d \in ListIds, v.colour[d] = "gray"
        PROVE  \E i \in 1..(n - 1) : v.path[i] = d
    <3>1. d # u /\ w.colour[d] = "gray"
      BY <1>4, <2>3
    <3>2. PICK i \in 1..n : w.path[i] = d
      BY <1>1, <1>7, <3>1 DEF GrayIsPath
    <3>3. i \in 1..(n - 1)
      BY <1>1, <1>3, <3>1, <3>2
    <3> QED
      BY <1>5, <3>2, <3>3
  <2> QED
    BY <1>5, <2>1, <2>2, <2>3 DEF GrayIsPath
<1>11. PathWaits(list, v)
  <2> SUFFICES ASSUME NEW i \in 1..((n - 1) - 1)
               PROVE  v.path[i + 1] \in DepsWithin(list, v.path[i])
    BY <1>5 DEF PathWaits
  <2>1. i \in 1..(n - 1) /\ i + 1 \in 1..(n - 1)
    BY <1>1
  <2>2. w.path[i + 1] \in DepsWithin(list, w.path[i])
    BY <2>1 DEF Searching, PathWaits, n
  <2> QED
    BY <1>5, <2>1, <2>2
<1>12. GoneThrough(list, v)
  <2> SUFFICES ASSUME NEW t \in ToGo(list), t \notin w.open
               PROVE  /\ v.colour[t[2]] # "white"
                      /\ v.colour[t[3]] = "black" \/ v.found # {} \/ NextOnPath(v, t)
    BY <1>2 DEF GoneThrough
  <2>1. t[2] \in ListIds /\ t[3] \in ListIds
    BY ToGoIs
  <2>2. /\ w.colour[t[2]] # "white"
        /\ w.colour[t[3]] = "black" \/ w.found # {} \/ NextOnPath(w, t)
    BY <1>7 DEF GoneThrough
  <2>3. v.colour[t[2]] # "white" /\ (w.colour[t[3]] = "black" => v.colour[t[3]] = "black")
    BY <1>4, <2>1, <2>2
  <2>4. ASSUME NextOnPath(w, t) PROVE v.colour[t[3]] = "black" \/ NextOnPath(v, t)
    <3>1. PICK i \in 1..(n - 1) : t[2] = w.path[i] /\ t[3] = w.path[i + 1]
      BY <2>4 DEF NextOnPath, n
    <3>2. CASE i + 1 = n
      BY <1>3, <1>4, <3>1, <3>2
    <3>3. CASE i + 1 # n
      <4>1. i + 1 \in 1..(n - 1) /\ i \in 1..((n - 1) - 1)
        BY <1>1, <3>3
      <4>2. t[2] = v.path[i] /\ t[3] = v.path[i + 1] /\ i \in 1..(Len(v.path) - 1)
        BY <1>5, <3>1, <4>1
      <4> QED
        BY <4>2 DEF NextOnPath
    <3> QED
      BY <3>2, <3>3
  <2> QED
    BY <1>2, <2>2, <2>3, <2>4
<1>13. StillOpen(list, v)
  <2> SUFFICES ASSUME NEW t \in w.open PROVE v.colour[t[2]] # "black"
    BY <1>2 DEF StillOpen
  <2>1. t[2] \in ListIds /\ t[2] # u
    BY <1>1, ToGoIs
  <2> QED
    BY <1>4, <1>7, <2>1 DEF StillOpen
<1>14. FoundIsCycle(list, v)
  BY <1>2 DEF Searching, FoundIsCycle
<1>15. Black(list, v) = Black(list, w) \cup {u} /\ u \notin Black(list, w)
  BY <1>3, <1>4, <1>9 DEF Black
<1>16. ASSUME w.found = {}, NEW d \in DepsWithin(list, u) PROVE d \in Black(list, w)
  <2>1. <<"go", u, d>> \in ToGo(list) /\ d \in ListIds
    BY <1>3, DepIsToGo DEF DepsWithin
  <2>2. <<"go", u, d>> \notin w.open
    OBVIOUS
  <2>3. w.colour[d] = "black" \/ NextOnPath(w, <<"go", u, d>>)
    BY <1>7, <1>16, <2>1, <2>2 DEF GoneThrough
  <2>4. ~NextOnPath(w, <<"go", u, d>>)
    BY <1>8 DEF NextOnPath, n
  <2> QED
    BY <2>1, <2>3, <2>4 DEF Black
<1>17. ASSUME w.found = {}, NEW id \in Black(list, w) PROVE u \notin DepsWithin(list, id)
  <2> SUFFICES ASSUME u \in DepsWithin(list, id) PROVE FALSE
    OBVIOUS
  <2>1. id \in ListIds /\ w.colour[id] = "black"
    BY DEF Black
  <2>2. <<"go", id, u>> \in ToGo(list)
    BY <2>1, DepIsToGo
  <2>3. <<"go", id, u>> \notin w.open
    BY <1>7, <2>1 DEF StillOpen
  <2>4. w.colour[u] = "black" \/ NextOnPath(w, <<"go", id, u>>)
    BY <1>7, <1>17, <2>2, <2>3 DEF GoneThrough
  <2>5. ASSUME NextOnPath(w, <<"go", id, u>>) PROVE FALSE
    <3>1. PICK i \in 1..(n - 1) : id = w.path[i]
      BY <2>5 DEF NextOnPath, n
    <3>2. i \in DOMAIN w.path
      BY <1>1, <1>8
    <3> QED
      BY <1>7, <2>1, <3>1, <3>2 DEF GrayIsPath
  <2> QED
    BY <1>9, <2>4, <2>5
<1>18. BlackIsSettled(list, v)
  <2> SUFFICES ASSUME w.found = {}, NEW S \in SUBSET (Black(list, w) \cup {u}), S # {}
               PROVE  NoneWaits(list, S)
    BY <1>2, <1>15 DEF BlackIsSettled
  <2> DEFINE T == S \ {u}
  <2>1. CASE T = {}
    <3>1. S = {u}
      BY <2>1
    <3>2. u \notin DepsWithin(list, u)
      BY <1>15, <1>16
    <3> QED
      BY <3>1, <3>2 DEF NoneWaits
  <2>2. CASE T # {}
    <3>1. T \in SUBSET Black(list, w)
      OBVIOUS
    <3> HIDE DEF T
    <3>2. NoneWaits(list, T)
      BY <2>2, <3>1 DEF Searching, BlackIsSettled
    <3>3. PICK id \in T : DepsWithin(list, id) \cap T = {}
      BY <3>2 DEF NoneWaits
    <3>4. u \notin DepsWithin(list, id)
      BY <1>17, <3>1, <3>3
    <3>5. id \in S /\ DepsWithin(list, id) \cap S = {}
      BY <3>3, <3>4 DEF T
    <3> QED
      BY <3>5 DEF NoneWaits
  <2> QED
    BY <2>1, <2>2
<1> QED
  BY <1>6, <1>10, <1>11, <1>12, <1>13, <1>14, <1>18 DEF Searching

(* A dependency on a node of the path closes a circle: from that node to   *)
(* the end of the path each waits for one of them.                         *)
LEMMA GrayIsCycle ==
  ASSUME NEW list, NEW w, Searching(list, w), NEW d \in IdsOf(list), w.colour[d] = "gray",
         w.path # <<>>, d \in DepsWithin(list, w.path[Len(w.path)])
  PROVE  Cyclic(list)
<1> DEFINE n == Len(w.path)  ListIds == IdsOf(list)
<1>1. /\ n \in Nat /\ n # 0 /\ DOMAIN w.path = 1..n /\ \A i \in 1..n : w.path[i] \in ListIds
  BY DEF Searching, Walks
<1>2. PICK k \in 1..n : w.path[k] = d
  BY <1>1 DEF Searching, GrayIsPath
<1> DEFINE S == {w.path[i] : i \in k..n}
<1>3. S \in SUBSET ListIds /\ d \in S /\ S # {}
  <2>1. k \in k..n /\ \A i \in k..n : i \in 1..n
    BY <1>1, <1>2
  <2>2. \A i \in k..n : w.path[i] \in ListIds
    BY <1>1, <2>1
  <2> HIDE DEF n
  <2>3. d \in S
    BY <1>2, <2>1
  <2> QED
    BY <2>2, <2>3
<1>4. ASSUME NEW id \in S PROVE NodeWith(list, id).deps \cap S # {}
  <2>1. PICK i \in k..n : id = w.path[i]
    OBVIOUS
  <2>2. CASE i = n
    BY <1>3, <2>1, <2>2 DEF DepsWithin
  <2>3. CASE i # n
    <3>1. i \in 1..(n - 1) /\ i + 1 \in k..n
      BY <1>1, <1>2, <2>3
    <3>2. w.path[i + 1] \in DepsWithin(list, w.path[i])
      BY <3>1 DEF Searching, PathWaits
    <3>3. w.path[i + 1] \in S
      BY <3>1
    <3> QED
      BY <2>1, <3>2, <3>3 DEF DepsWithin
  <2> QED
    BY <2>2, <2>3
<1> HIDE DEF S
<1> QED
  BY <1>3, <1>4 DEF Cyclic

(* A dependency on a node that has been entered is only gone through.      *)
LEMMA PassKeeps ==
  ASSUME NEW list, NEW w, Searching(list, w), w.path # <<>>, NEW t \in w.open,
         t[2] = w.path[Len(w.path)], w.colour[t[3]] # "white", NEW v,
         v = [colour |-> w.colour, path |-> w.path, open |-> w.open \ {t},
              found |-> IF w.colour[t[3]] = "gray" THEN w.found \cup {t[3]} ELSE w.found]
  PROVE  Searching(list, v)
<1> DEFINE n == Len(w.path)  ListIds == IdsOf(list)
<1>1. /\ w.colour \in [ListIds -> Colours] /\ w.path \in Seq(ListIds) /\ w.open \in SUBSET ToGo(list)
      /\ w.found \in SUBSET ListIds /\ n \in Nat /\ n # 0 /\ DOMAIN w.path = 1..n
  BY DEF Searching, Walks
<1>2. /\ v.colour = w.colour /\ v.path = w.path /\ v.open = w.open \ {t}
      /\ v.found = IF w.colour[t[3]] = "gray" THEN w.found \cup {t[3]} ELSE w.found
  OBVIOUS
<1>3. t[2] \in ListIds /\ t[3] \in ListIds /\ t[3] \in DepsWithin(list, t[2])
  BY <1>1, ToGoIs
<1>4. w.colour[t[2]] = "gray" /\ w.colour[t[3]] \in {"gray", "black"}
  BY <1>1, <1>3 DEF Searching, GrayIsPath, Colours
<1>5. v \in Walks(list)
  BY <1>1, <1>2, <1>3 DEF Walks
<1>6. GrayIsPath(list, v) /\ PathWaits(list, v) /\ StillOpen(list, v)
  BY <1>2 DEF Searching, GrayIsPath, PathWaits, StillOpen
<1>7. GoneThrough(list, v)
  <2> SUFFICES ASSUME NEW s \in ToGo(list), s \notin w.open \/ s = t
               PROVE  /\ w.colour[s[2]] # "white"
                      /\ w.colour[s[3]] = "black" \/ v.found # {} \/ NextOnPath(w, s)
    BY <1>2 DEF GoneThrough, NextOnPath
  <2>1. CASE s = t
    BY <1>2, <1>4, <2>1
  <2>2. CASE s \notin w.open
    BY <1>2, <2>2 DEF Searching, GoneThrough
  <2> QED
    BY <2>1, <2>2
<1>8. FoundIsCycle(list, v)
  <2>1. CASE w.colour[t[3]] = "gray"
    BY <1>3, <2>1, GrayIsCycle DEF FoundIsCycle
  <2>2. CASE w.colour[t[3]] # "gray"
    BY <1>2, <2>2 DEF Searching, FoundIsCycle
  <2> QED
    BY <2>1, <2>2
<1>9. BlackIsSettled(list, v)
  <2>1. Black(list, v) = Black(list, w) /\ (v.found = {} => w.found = {})
    BY <1>2 DEF Black
  <2> QED
    BY <2>1 DEF Searching, BlackIsSettled
<1> QED
  BY <1>5, <1>6, <1>7, <1>8, <1>9 DEF Searching

(* What the steps of the search make of it, field by field.                *)
IsSearch(w) ==
  w \in [colour : {w.colour}, path : {w.path}, open : {w.open}, found : {w.found}]

LEMMA WalkIsSearch == ASSUME NEW list, NEW w \in Walks(list) PROVE IsSearch(w)
BY DEF Walks, IsSearch

LEMMA FieldsChanged ==
  ASSUME NEW w, IsSearch(w), NEW x
  PROVE  /\ [w EXCEPT !.open = x] = [colour |-> w.colour, path |-> w.path, open |-> x, found |-> w.found]
         /\ [w EXCEPT !.path = x] = [colour |-> w.colour, path |-> x, open |-> w.open, found |-> w.found]
         /\ [w EXCEPT !.found = x] = [colour |-> w.colour, path |-> w.path, open |-> w.open, found |-> x]
<1>1. [w EXCEPT !.open = x] = [colour |-> w.colour, path |-> w.path, open |-> x, found |-> w.found]
  BY DEF IsSearch
<1>2. [w EXCEPT !.path = x] = [colour |-> w.colour, path |-> x, open |-> w.open, found |-> w.found]
  BY DEF IsSearch
<1>3. [w EXCEPT !.found = x] = [colour |-> w.colour, path |-> w.path, open |-> w.open, found |-> x]
  BY DEF IsSearch
<1> QED
  BY <1>1, <1>2, <1>3

Painted(w, id, c, x) == [w EXCEPT !.colour[id] = c, !.path = x]

LEMMA ColourAndPath ==
  ASSUME NEW w, IsSearch(w), NEW id, NEW c, NEW x
  PROVE  Painted(w, id, c, x) =
           [colour |-> [w.colour EXCEPT ![id] = c], path |-> x, open |-> w.open, found |-> w.found]
<1> DEFINE v == [w EXCEPT !.colour[id] = c]
<1>1. v = [colour |-> [w.colour EXCEPT ![id] = c], path |-> w.path, open |-> w.open, found |-> w.found]
  BY DEF IsSearch
<1>2. Painted(w, id, c, x) = [v EXCEPT !.path = x]
  BY DEF IsSearch, Painted
<1> HIDE DEF v
<1>3. IsSearch(v)
  BY <1>1 DEF IsSearch
<1>4. [v EXCEPT !.path = x] = [colour |-> v.colour, path |-> x, open |-> v.open, found |-> v.found]
  BY <1>3, FieldsChanged
<1> QED
  BY <1>1, <1>2, <1>4

LEMMA EnterIs ==
  ASSUME NEW list, NEW w \in Walks(list), NEW id \in IdsOf(list)
  PROVE  Enter(w, id) = [colour |-> [w.colour EXCEPT ![id] = "gray"], path |-> Append(w.path, id),
                         open |-> w.open, found |-> w.found]
<1> DEFINE x == Append(w.path, id)
<1>1. Enter(w, id) = Painted(w, id, "gray", x)
  BY DEF Enter, Painted
<1> HIDE DEF x
<1>2. Enter(w, id) = [colour |-> [w.colour EXCEPT ![id] = "gray"], path |-> x,
                      open |-> w.open, found |-> w.found]
  BY <1>1, WalkIsSearch, ColourAndPath
<1> QED
  BY <1>2 DEF x

LEMMA LeaveIs ==
  ASSUME NEW list, NEW w \in Walks(list)
  PROVE  Leave(w) = [colour |-> [w.colour EXCEPT ![w.path[Len(w.path)]] = "black"],
                     path |-> Front(w.path), open |-> w.open, found |-> w.found]
<1>1. Leave(w) = Painted(w, w.path[Len(w.path)], "black", Front(w.path))
  BY DEF Leave, Last, Painted
<1> QED
  BY <1>1, WalkIsSearch, ColourAndPath

LEMMA ThroughIs ==
  ASSUME NEW list, NEW w \in Walks(list), NEW t \in w.open
  PROVE  /\ w.colour[t[3]] = "white" =>
              Through(w, t) = [colour |-> [w.colour EXCEPT ![t[3]] = "gray"],
                               path |-> Append(w.path, t[3]),
                               open |-> w.open \ {t}, found |-> w.found]
         /\ w.colour[t[3]] # "white" =>
              Through(w, t) = [colour |-> w.colour, path |-> w.path, open |-> w.open \ {t},
                               found |-> IF w.colour[t[3]] = "gray"
                                         THEN w.found \cup {t[3]} ELSE w.found]
<1> DEFINE left == [w EXCEPT !.open = w.open \ {t}]
<1>1. left = [colour |-> w.colour, path |-> w.path, open |-> w.open \ {t}, found |-> w.found]
  BY WalkIsSearch, FieldsChanged
<1>2. /\ w.colour[t[3]] = "white" => Through(w, t) = Enter(left, t[3])
      /\ w.colour[t[3]] = "gray" => Through(w, t) = [left EXCEPT !.found = w.found \cup {t[3]}]
      /\ w.colour[t[3]] \notin {"white", "gray"} => Through(w, t) = left
  BY DEF Through
<1> HIDE DEF left
<1>3. t[3] \in IdsOf(list) /\ left \in Walks(list)
  BY <1>1, ToGoIs DEF Walks
<1>4. CASE w.colour[t[3]] = "white"
  <2>1. Enter(left, t[3]) = [colour |-> [left.colour EXCEPT ![t[3]] = "gray"],
                             path |-> Append(left.path, t[3]),
                             open |-> left.open, found |-> left.found]
    BY <1>3, EnterIs
  <2>2. left.colour = w.colour /\ left.path = w.path /\ left.open = w.open \ {t} /\ left.found = w.found
    BY <1>1
  <2> QED
    BY <1>2, <1>4, <2>1, <2>2
<1>5. CASE w.colour[t[3]] = "gray"
  <2>1. [left EXCEPT !.found = w.found \cup {t[3]}]
          = [colour |-> left.colour, path |-> left.path, open |-> left.open,
             found |-> w.found \cup {t[3]}]
    BY <1>3, WalkIsSearch, FieldsChanged
  <2> QED
    BY <1>1, <1>2, <1>5, <2>1
<1>6. CASE w.colour[t[3]] \notin {"white", "gray"}
  BY <1>1, <1>2, <1>6
<1> QED
  BY <1>4, <1>5, <1>6

(* What is still to do, as the members of it.                              *)
LEMMA AheadIs ==
  ASSUME NEW list, NEW w \in Walks(list)
  PROVE  /\ \A t \in w.open : t \in Ahead(list, w)
         /\ \A id \in IdsOf(list) : <<"enter", id, id>> \in Ahead(list, w) <=> w.colour[id] = "white"
         /\ \A id \in IdsOf(list) : <<"leave", id, id>> \in Ahead(list, w) <=> w.colour[id] # "black"
         /\ \A t \in ToGo(list) : t \in Ahead(list, w) <=> t \in w.open
<1>1. \A t \in w.open : t[1] = "go"
  BY ToGoIs DEF Walks
<1>2. \A t \in ToGo(list) : t[1] = "go"
  BY ToGoIs
<1> QED
  BY <1>1, <1>2 DEF Ahead

LEMMA AheadShrinks ==
  ASSUME NEW list, NEW w \in Walks(list), NEW v \in Walks(list), v.open \subseteq w.open,
         \A id \in IdsOf(list) : /\ v.colour[id] = "white" => w.colour[id] = "white"
                                 /\ w.colour[id] = "black" => v.colour[id] = "black"
  PROVE  Ahead(list, v) \subseteq Ahead(list, w)
BY DEF Ahead

(* A step of the search keeps what holds of it, and leaves less to do.     *)
Advances(list, w, v) ==
  /\ Searching(list, v) /\ Ahead(list, v) \subseteq Ahead(list, w)
  /\ Ahead(list, w) # {} => \E a \in Ahead(list, w) : a \notin Ahead(list, v)

LEMMA EnterAdvances ==
  ASSUME NEW list, NEW w, Searching(list, w), NEW id \in IdsOf(list), w.colour[id] = "white",
         NEW open \in SUBSET w.open, NEW v,
         v = [colour |-> [w.colour EXCEPT ![id] = "gray"], path |-> Append(w.path, id),
              open |-> open, found |-> w.found],
         Searching(list, v)
  PROVE  Advances(list, w, v)
<1>1. w \in Walks(list) /\ v \in Walks(list)
  BY DEF Searching
<1>2. /\ v.open \subseteq w.open /\ v.colour[id] = "gray"
      /\ \A d \in IdsOf(list) : d # id => v.colour[d] = w.colour[d]
  BY <1>1 DEF Walks
<1>3. Ahead(list, v) \subseteq Ahead(list, w)
  BY <1>1, <1>2, AheadShrinks
<1>4. <<"enter", id, id>> \in Ahead(list, w) /\ <<"enter", id, id>> \notin Ahead(list, v)
  BY <1>1, <1>2, AheadIs
<1> QED
  BY <1>3, <1>4 DEF Advances

LEMMA LeaveAdvances ==
  ASSUME NEW list, NEW w, Searching(list, w), w.path # <<>>,
         \A t \in w.open : t[2] # w.path[Len(w.path)]
  PROVE  Advances(list, w, Leave(w))
<1> DEFINE u == w.path[Len(w.path)]  v == Leave(w)
<1>1. w \in Walks(list)
  BY DEF Searching
<1>2. v = [colour |-> [w.colour EXCEPT ![u] = "black"], path |-> Front(w.path),
           open |-> w.open, found |-> w.found]
  BY <1>1, LeaveIs
<1>3. u \in IdsOf(list) /\ w.colour[u] = "gray"
  <2>1. Len(w.path) \in DOMAIN w.path /\ \A i \in DOMAIN w.path : w.path[i] \in IdsOf(list)
    BY <1>1 DEF Walks
  <2> QED
    BY <2>1 DEF Searching, GrayIsPath
<1> HIDE DEF v
<1>4. Searching(list, v)
  BY <1>2, LeaveKeeps
<1>5. /\ v \in Walks(list) /\ v.open = w.open /\ v.colour[u] = "black"
      /\ \A d \in IdsOf(list) : d # u => v.colour[d] = w.colour[d]
  BY <1>1, <1>2, <1>3, <1>4 DEF Walks, Searching
<1> HIDE DEF u
<1>6. Ahead(list, v) \subseteq Ahead(list, w)
  BY <1>1, <1>3, <1>5, AheadShrinks
<1>7. <<"leave", u, u>> \in Ahead(list, w) /\ <<"leave", u, u>> \notin Ahead(list, v)
  BY <1>1, <1>3, <1>5, AheadIs
<1> QED
  BY <1>4, <1>6, <1>7 DEF Advances, v

LEMMA ThroughAdvances ==
  ASSUME NEW list, NEW w, Searching(list, w), w.path # <<>>, NEW t \in w.open,
         t[2] = w.path[Len(w.path)]
  PROVE  Advances(list, w, Through(w, t))
<1> DEFINE v == Through(w, t)
<1>1. w \in Walks(list) /\ t \in ToGo(list)
  BY DEF Searching, Walks
<1>2. t[3] \in IdsOf(list) /\ t[3] \in DepsWithin(list, t[2])
  BY <1>1, ToGoIs
<1>3. CASE w.colour[t[3]] = "white"
  <2>1. v = [colour |-> [w.colour EXCEPT ![t[3]] = "gray"], path |-> Append(w.path, t[3]),
             open |-> w.open \ {t}, found |-> w.found]
    BY <1>1, <1>3, ThroughIs
  <2> DEFINE open == w.open \ {t}
  <2>2. open \in SUBSET w.open /\ \A s \in w.open \ open : s = t
    OBVIOUS
  <2>3. \A s \in w.open \ open : w.path # <<>> /\ s[2] = w.path[Len(w.path)] /\ s[3] = t[3]
    BY <2>2
  <2>4. v = [colour |-> [w.colour EXCEPT ![t[3]] = "gray"], path |-> Append(w.path, t[3]),
             open |-> open, found |-> w.found]
    BY <2>1
  <2> HIDE DEF v, open
  <2>5. Searching(list, v)
    BY <1>2, <1>3, <2>2, <2>3, <2>4, EnterKeeps
  <2>6. Advances(list, w, v)
    BY <1>2, <1>3, <2>2, <2>4, <2>5, EnterAdvances
  <2> QED
    BY <2>6 DEF v
<1>4. CASE w.colour[t[3]] # "white"
  <2>1. v = [colour |-> w.colour, path |-> w.path, open |-> w.open \ {t},
             found |-> IF w.colour[t[3]] = "gray" THEN w.found \cup {t[3]} ELSE w.found]
    BY <1>1, <1>4, ThroughIs
  <2> HIDE DEF v
  <2>2. Searching(list, v)
    BY <1>4, <2>1, PassKeeps
  <2>3. v \in Walks(list) /\ v.colour = w.colour /\ v.open = w.open \ {t}
    BY <2>1, <2>2 DEF Searching
  <2>4. Ahead(list, v) \subseteq Ahead(list, w)
    BY <1>1, <2>3, AheadShrinks
  <2>5. t \in Ahead(list, w) /\ t \notin Ahead(list, v)
    BY <1>1, <2>3, AheadIs
  <2> QED
    BY <2>2, <2>4, <2>5 DEF Advances, v
<1> QED
  BY <1>3, <1>4

(* When the path has ended and no node is white, nothing is left to do.    *)
LEMMA NothingAhead ==
  ASSUME NEW list, NEW w, Searching(list, w), w.path = <<>>,
         \A id \in IdsOf(list) : w.colour[id] # "white"
  PROVE  Ahead(list, w) = {}
<1>1. w \in Walks(list) /\ DOMAIN w.path = {}
  BY DEF Searching, Walks
<1>2. \A id \in IdsOf(list) : w.colour[id] = "black"
  BY <1>1 DEF Searching, GrayIsPath, Walks, Colours
<1>3. w.open = {}
  <2> SUFFICES ASSUME NEW t \in w.open PROVE FALSE
    OBVIOUS
  <2>1. t[2] \in IdsOf(list)
    BY <1>1, ToGoIs DEF Walks
  <2> QED
    BY <1>2, <2>1 DEF Searching, StillOpen
<1> QED
  BY <1>2, <1>3 DEF Ahead

LEMMA WalkOnAdvances ==
  ASSUME NEW list, IsList(list), NEW w, Searching(list, w)
  PROVE  Advances(list, w, WalkOn(list, w))
<1> DEFINE on == {t \in w.open : t[2] = Last(w.path)}
           roots == {i \in DOMAIN list : w.colour[list[i].id] = "white"}
<1>1. w \in Walks(list)
  BY DEF Searching
<1>2. CASE w.path # <<>> /\ on # {}
  <2> DEFINE t == CHOOSE t \in on : TRUE
  <2>1. t \in w.open /\ t[2] = w.path[Len(w.path)]
    BY <1>2 DEF Last
  <2>2. WalkOn(list, w) = Through(w, t)
    BY <1>2 DEF WalkOn
  <2> HIDE DEF t
  <2>3. Advances(list, w, Through(w, t))
    BY <1>2, <2>1, ThroughAdvances
  <2> QED
    BY <2>2, <2>3
<1>3. CASE w.path # <<>> /\ on = {}
  <2>1. \A t \in w.open : t[2] # w.path[Len(w.path)]
    BY <1>3 DEF Last
  <2>2. WalkOn(list, w) = Leave(w)
    BY <1>3 DEF WalkOn
  <2> QED
    BY <1>3, <2>1, <2>2, LeaveAdvances
<1>4. CASE w.path = <<>> /\ roots # {}
  <2>1. roots \in SUBSET Nat
    BY IdsAreFinite
  <2> DEFINE i == CHOOSE i \in roots : \A j \in roots : i <= j
             id == list[i].id
  <2> HIDE DEF roots
  <2>2. \E x \in roots : \A y \in roots : x <= y
    BY <1>4, <2>1, LeastExists
  <2>3. i \in roots
    BY <2>2
  <2>4. WalkOn(list, w) = Enter(w, id)
    BY <1>4 DEF WalkOn, roots
  <2> HIDE DEF i
  <2>5. id \in IdsOf(list) /\ w.colour[id] = "white"
    BY <2>3 DEF roots, IdsOf
  <2> DEFINE v == Enter(w, id)
  <2> HIDE DEF id
  <2>6. v = [colour |-> [w.colour EXCEPT ![id] = "gray"], path |-> Append(w.path, id),
             open |-> w.open, found |-> w.found]
    BY <1>1, <2>5, EnterIs
  <2> HIDE DEF v
  <2>7. w.open \in SUBSET w.open /\ \A t \in w.open \ w.open : w.path # <<>> /\ t[2] = w.path[Len(w.path)] /\ t[3] = id
    OBVIOUS
  <2>8. w.path # <<>> => id \in DepsWithin(list, w.path[Len(w.path)])
    BY <1>4
  <2>9. Searching(list, v)
    BY <2>5, <2>6, <2>7, <2>8, EnterKeeps
  <2>10. Advances(list, w, v)
    BY <2>5, <2>6, <2>7, <2>9, EnterAdvances
  <2> QED
    BY <2>4, <2>10 DEF v
<1>5. CASE w.path = <<>> /\ roots = {}
  <2>1. WalkOn(list, w) = w
    BY <1>5 DEF WalkOn
  <2>2. \A id \in IdsOf(list) : w.colour[id] # "white"
    BY <1>5 DEF IdsOf
  <2>3. Ahead(list, w) = {}
    BY <1>5, <2>2, NothingAhead
  <2> QED
    BY <2>1, <2>3 DEF Advances
<1> QED
  BY <1>2, <1>3, <1>4, <1>5

LEMMA AheadIsFinite ==
  ASSUME NEW list, IsList(list), NEW w \in Walks(list)
  PROVE  IsFiniteSet(Ahead(list, w)) /\ Cardinality(Ahead(list, w)) \in Nat
<1> DEFINE ListIds == IdsOf(list)
           all == ({"go", "enter", "leave"} \X ListIds) \X ListIds
           f == [p \in all |-> <<p[1][1], p[1][2], p[2]>>]
           img == {f[p] : p \in all}
<1>1. IsFiniteSet(ListIds)
  BY IdsAreFinite
<1>2. IsFiniteSet({"go", "enter", "leave"})
  <2>1. IsFiniteSet({}) /\ \A S, x : IsFiniteSet(S) => IsFiniteSet(S \cup {x})
    BY FS_EmptySet, FS_AddElement
  <2>2. IsFiniteSet((({} \cup {"go"}) \cup {"enter"}) \cup {"leave"})
    BY <2>1
  <2>3. (({} \cup {"go"}) \cup {"enter"}) \cup {"leave"} = {"go", "enter", "leave"}
    OBVIOUS
  <2> QED
    BY <2>2, <2>3
<1>3. IsFiniteSet(all)
  <2> HIDE DEF ListIds
  <2>1. IsFiniteSet({"go", "enter", "leave"} \X ListIds)
    BY <1>1, <1>2, FS_Product
  <2> QED
    BY <1>1, <2>1, FS_Product
<1>4. f \in Surjection(all, img)
  <2> HIDE DEF all
  <2> QED
    BY DEF Surjection
<1>5. \A a \in {"go", "enter", "leave"}, i, j \in ListIds : <<a, i, j>> \in img
  <2> TAKE a \in {"go", "enter", "leave"}, i, j \in ListIds
  <2>1. <<<<a, i>>, j>> \in all /\ f[<<<<a, i>>, j>>] = <<a, i, j>>
    OBVIOUS
  <2> QED
    BY <2>1
<1> HIDE DEF f, all
<1>6. IsFiniteSet(img)
  <2> HIDE DEF img
  <2> QED
    BY <1>3, <1>4, FS_Surjection
<1> HIDE DEF img
<1>7. Ahead(list, w) \in SUBSET img
  <2>1. w.open \subseteq ToGo(list)
    BY DEF Walks
  <2>2. \A t \in ToGo(list) : t \in img
    BY <1>5 DEF ToGo
  <2>3. \A id \in ListIds : <<"enter", id, id>> \in img /\ <<"leave", id, id>> \in img
    BY <1>5
  <2> QED
    BY <2>1, <2>2, <2>3 DEF Ahead
<1> QED
  BY <1>6, <1>7, FS_Subset, FS_CardinalityType

LEMMA FewerAhead ==
  ASSUME NEW list, IsList(list), NEW w, Searching(list, w), NEW v, Advances(list, w, v),
         Ahead(list, w) # {}
  PROVE  Cardinality(Ahead(list, v)) + 1 <= Cardinality(Ahead(list, w))
<1> DEFINE V == Ahead(list, v)  W == Ahead(list, w)
<1>1. IsFiniteSet(W) /\ Cardinality(W) \in Nat /\ Cardinality(V) \in Nat
  BY AheadIsFinite DEF Searching, Advances
<1>2. V \in SUBSET W /\ V # W
  BY DEF Advances
<1> HIDE DEF V, W
<1>3. Cardinality(V) <= Cardinality(W) /\ Cardinality(W) # Cardinality(V)
  BY <1>1, <1>2, FS_Subset
<1> QED
  BY <1>1, <1>3 DEF V, W

Unseen(list) == [colour |-> [id \in IdsOf(list) |-> "white"], path |-> <<>>,
                 open |-> ToGo(list), found |-> {}]

LEMMA UnseenIsSearching ==
  ASSUME NEW list
  PROVE  Searching(list, Unseen(list))
<1> DEFINE w == Unseen(list)
<1>1. /\ w.colour = [id \in IdsOf(list) |-> "white"] /\ w.path = <<>>
      /\ w.open = ToGo(list) /\ w.found = {}
  BY DEF Unseen
<1>2. w \in Walks(list)
  BY DEF Unseen, Walks, Colours
<1> HIDE DEF w
<1>3. \A id \in IdsOf(list) : w.colour[id] = "white"
  BY <1>1
<1>4. GrayIsPath(list, w) /\ PathWaits(list, w) /\ GoneThrough(list, w) /\ FoundIsCycle(list, w)
  BY <1>1, <1>3 DEF GrayIsPath, PathWaits, GoneThrough, FoundIsCycle
<1>5. StillOpen(list, w)
  BY <1>1, <1>3, ToGoIs DEF StillOpen
<1>6. BlackIsSettled(list, w)
  BY <1>1, <1>3 DEF BlackIsSettled, Black
<1> QED
  BY <1>2, <1>4, <1>5, <1>6 DEF Searching, w

(* The search is as long as what it has to do: at its end nothing is left. *)
LEMMA SearchEnds ==
  ASSUME NEW list, IsList(list)
  PROVE  \E w : Searching(list, w) /\ Ahead(list, w) = {} /\ CheckCycles(list) = w.found
<1> DEFINE unseen == [colour |-> [id \in IdsOf(list) |-> "white"], path |-> <<>>,
                      open |-> ToGo(list), found |-> {}]
           steps == Cardinality(Ahead(list, unseen))
           walk[k \in 0..steps] == IF k = 0 THEN unseen ELSE WalkOn(list, walk[k - 1])
           S == {w \in Walks(list) : Searching(list, w)}
           F == [k \in 1..steps |-> [w \in S |-> WalkOn(list, w)]]
<1>1. CheckCycles(list) = walk[steps].found
  BY DEF CheckCycles
<1>2. unseen \in S
  BY UnseenIsSearching DEF Unseen, Searching
<1>3. steps \in Nat
  <2> HIDE DEF unseen
  <2> QED
    BY <1>2, AheadIsFinite
<1>4. \A w \in S : WalkOn(list, w) \in S
  BY WalkOnAdvances DEF Advances, Searching
<1>5. F \in [1..steps -> [S -> S]]
  <2> HIDE DEF S, steps
  <2> QED
    BY <1>4
<1> HIDE DEF F
<1>6. PICK g \in [0..steps -> S] : Unfolds(g, steps, unseen, F)
  <2> HIDE DEF S, steps, unseen
  <2> QED
    BY <1>2, <1>3, <1>5, RecursionExists
<1>7. g = [k \in 0..steps |-> IF k = 0 THEN unseen ELSE WalkOn(list, g[k - 1])]
  <2> HIDE DEF steps, unseen
  <2>1. ASSUME NEW k \in 0..steps
        PROVE  g[k] = IF k = 0 THEN unseen ELSE WalkOn(list, g[k - 1])
    <3>1. CASE k = 0
      BY <1>6, <3>1 DEF Unfolds
    <3>2. CASE k # 0
      <4> HIDE DEF S
      <4>1. k \in 1..steps /\ k - 1 \in 0..steps /\ g[k - 1] \in S
        BY <1>3, <1>6, <3>2
      <4>2. g[k] = F[k][g[k - 1]]
        BY <1>6, <3>2 DEF Unfolds
      <4>3. F[k][g[k - 1]] = WalkOn(list, g[k - 1])
        BY <4>1 DEF F
      <4> QED
        BY <3>2, <4>2, <4>3
    <3> QED
      BY <3>1, <3>2
  <2> QED
    BY <1>6, <2>1
<1>8. walk = [k \in 0..steps |-> IF k = 0 THEN unseen ELSE WalkOn(list, walk[k - 1])]
  <2> HIDE DEF steps, unseen
  <2> QED
    BY <1>7
<1>9. walk[0] = unseen /\ \A k \in 1..steps : walk[k] = WalkOn(list, walk[k - 1])
  <2> HIDE DEF walk, steps, unseen
  <2> QED
    BY <1>3, <1>8
<1> HIDE DEF walk
<1> DEFINE Fits(k) == /\ Searching(list, walk[k])
                      /\ \/ Ahead(list, walk[k]) = {}
                         \/ Cardinality(Ahead(list, walk[k])) + k <= steps
           odd == {k \in 0..steps : ~Fits(k)}
<1>10. Fits(0)
  <2>1. Cardinality(Ahead(list, walk[0])) = steps /\ Searching(list, walk[0])
    BY <1>2, <1>9
  <2> HIDE DEF unseen, S, steps
  <2> QED
    BY <1>3, <2>1
<1> HIDE DEF steps, unseen, S
<1>11. ASSUME NEW k \in 1..steps, Fits(k - 1) PROVE Fits(k)
  <2>1. walk[k] = WalkOn(list, walk[k - 1]) /\ Searching(list, walk[k - 1])
    BY <1>9, <1>11
  <2>2. Advances(list, walk[k - 1], walk[k])
    BY <2>1, WalkOnAdvances
  <2>3. Searching(list, walk[k])
    BY <2>2 DEF Advances
  <2>4. CASE Ahead(list, walk[k - 1]) = {}
    BY <2>2, <2>3, <2>4 DEF Advances
  <2>5. CASE Ahead(list, walk[k - 1]) # {}
    <3>1. Cardinality(Ahead(list, walk[k - 1])) + (k - 1) <= steps
      BY <1>11, <2>5
    <3>2. Cardinality(Ahead(list, walk[k])) + 1 <= Cardinality(Ahead(list, walk[k - 1]))
      BY <2>1, <2>2, <2>5, FewerAhead
    <3>3. Cardinality(Ahead(list, walk[k])) \in Nat /\ Cardinality(Ahead(list, walk[k - 1])) \in Nat
      BY <2>1, <2>3, AheadIsFinite DEF Searching
    <3> QED
      BY <1>3, <2>3, <3>1, <3>2, <3>3
  <2> QED
    BY <2>4, <2>5
<1>12. odd = {}
  <2> SUFFICES ASSUME odd # {} PROVE FALSE
    OBVIOUS
  <2>1. odd \in SUBSET Nat /\ odd \subseteq 0..steps
    BY <1>3
  <2>2. \A k \in odd : ~Fits(k)
    OBVIOUS
  <2>3. \A k \in 0..steps : k \notin odd => Fits(k)
    OBVIOUS
  <2> HIDE DEF odd, Fits
  <2>4. PICK k \in odd : \A j \in odd : k <= j
    BY <2>1, LeastExists
  <2>5. k # 0 /\ k \in 0..steps
    BY <1>10, <2>1, <2>2
  <2>6. k \in 1..steps /\ k - 1 \in 0..steps /\ k - 1 \notin odd
    BY <1>3, <2>1, <2>4, <2>5
  <2>7. Fits(k - 1)
    BY <2>3, <2>6
  <2>8. Fits(k)
    BY <1>11, <2>6, <2>7
  <2> QED
    BY <2>2, <2>4, <2>8
<1>13. Fits(steps)
  <2>1. steps \in 0..steps /\ \A k \in 0..steps : k \notin odd => Fits(k)
    BY <1>3
  <2> HIDE DEF odd, Fits
  <2> QED
    BY <1>12, <2>1
<1>14. Ahead(list, walk[steps]) = {}
  <2> SUFFICES ASSUME Ahead(list, walk[steps]) # {} PROVE FALSE
    OBVIOUS
  <2>1. walk[steps] \in Walks(list) /\ Cardinality(Ahead(list, walk[steps])) + steps <= steps
    BY <1>13 DEF Searching
  <2>2. IsFiniteSet(Ahead(list, walk[steps])) /\ Cardinality(Ahead(list, walk[steps])) \in Nat
    BY <2>1, AheadIsFinite
  <2>3. Cardinality(Ahead(list, walk[steps])) = 0
    BY <1>3, <2>1, <2>2
  <2> QED
    BY <2>2, <2>3, FS_EmptySet
<1> QED
  BY <1>1, <1>13, <1>14

(* checkCycles finds something in just those plans that have a circle of   *)
(* nodes each of which waits for another one of them.                      *)
THEOREM CyclesFound ==
  ASSUME NEW list, IsList(list)
  PROVE  CheckCycles(list) # {} <=> Cyclic(list)
<1>1. PICK w : Searching(list, w) /\ Ahead(list, w) = {} /\ CheckCycles(list) = w.found
  BY SearchEnds
<1>2. w.found # {} => Cyclic(list)
  BY <1>1 DEF Searching, FoundIsCycle
<1>3. \A id \in IdsOf(list) : w.colour[id] = "black"
  BY <1>1, AheadIs DEF Searching
<1>4. ASSUME w.found = {}, NEW S \in SUBSET IdsOf(list), S # {},
             \A id \in S : NodeWith(list, id).deps \cap S # {}
      PROVE  FALSE
  <2>1. S \in SUBSET Black(list, w)
    BY <1>3 DEF Black
  <2>2. NoneWaits(list, S)
    BY <1>1, <1>4, <2>1 DEF Searching, BlackIsSettled
  <2>3. PICK id \in S : DepsWithin(list, id) \cap S = {}
    BY <2>2 DEF NoneWaits
  <2>4. PICK d \in S : d \in NodeWith(list, id).deps
    BY <1>4
  <2> QED
    BY <2>3, <2>4 DEF DepsWithin
<1>5. ASSUME w.found = {}, Cyclic(list) PROVE FALSE
  <2>1. PICK S \in (SUBSET IdsOf(list)) \ {{}} : \A id \in S : NodeWith(list, id).deps \cap S # {}
    BY <1>5, Zenon DEF Cyclic
  <2>2. S \in SUBSET IdsOf(list) /\ S # {}
    BY <2>1
  <2> QED
    BY <1>4, <1>5, <2>1, <2>2
<1> QED
  BY <1>1, <1>2, <1>5

(* What Array.filter leaves is a list of the same things.                  *)
LEMMA FilteredIsList ==
  ASSUME NEW S, NEW list \in Seq(S), NEW keep
  PROVE  Filtered(list, keep) \in Seq(S)
<1> DEFINE n == Len(list)
           upTo[i \in 0..Len(list)] ==
             IF i = 0 THEN <<>>
             ELSE IF i \in keep THEN Append(upTo[i - 1], list[i]) ELSE upTo[i - 1]
           F == [i \in 1..n |-> [s \in Seq(S) |-> IF i \in keep THEN Append(s, list[i]) ELSE s]]
<1>1. n \in Nat /\ \A i \in 1..n : list[i] \in S
  OBVIOUS
<1>2. F \in [1..n -> [Seq(S) -> Seq(S)]]
  <2>1. \A i \in 1..n : \A s \in Seq(S) : Append(s, list[i]) \in Seq(S)
    BY <1>1
  <2> HIDE DEF n
  <2> QED
    BY <2>1
<1> HIDE DEF F
<1>3. PICK g \in [0..n -> Seq(S)] : Unfolds(g, n, <<>>, F)
  <2>1. <<>> \in Seq(S)
    OBVIOUS
  <2> DEFINE T == Seq(S)
  <2> HIDE DEF n, T
  <2>2. \E g \in [0..n -> T] : Unfolds(g, n, <<>>, F)
    BY <1>1, <1>2, <2>1, RecursionExists DEF T
  <2> QED
    BY <2>2 DEF T
<1>4. g = [i \in 0..Len(list) |-> IF i = 0 THEN <<>>
             ELSE IF i \in keep THEN Append(g[i - 1], list[i]) ELSE g[i - 1]]
  <2>1. ASSUME NEW i \in 0..n
        PROVE  g[i] = IF i = 0 THEN <<>>
                      ELSE IF i \in keep THEN Append(g[i - 1], list[i]) ELSE g[i - 1]
    <3>1. CASE i = 0
      BY <1>3, <3>1 DEF Unfolds
    <3>2. CASE i # 0
      <4>1. i \in 1..n /\ i - 1 \in 0..n /\ g[i - 1] \in Seq(S)
        BY <1>1, <3>2
      <4>2. g[i] = F[i][g[i - 1]]
        BY <1>3, <3>2 DEF Unfolds
      <4>3. F[i][g[i - 1]] = IF i \in keep THEN Append(g[i - 1], list[i]) ELSE g[i - 1]
        BY <4>1 DEF F
      <4> QED
        BY <3>2, <4>2, <4>3
    <3> QED
      BY <3>1, <3>2
  <2> QED
    BY <2>1
<1>5. upTo = [i \in 0..Len(list) |-> IF i = 0 THEN <<>>
                ELSE IF i \in keep THEN Append(upTo[i - 1], list[i]) ELSE upTo[i - 1]]
  BY <1>4
<1>6. Filtered(list, keep) = upTo[n]
  BY DEF Filtered
<1> HIDE DEF upTo
<1> DEFINE odd == {i \in 0..n : upTo[i] \notin Seq(S)}
<1>7. odd = {}
  <2> SUFFICES ASSUME odd # {} PROVE FALSE
    OBVIOUS
  <2>1. odd \in SUBSET Nat
    OBVIOUS
  <2>2. PICK k \in odd : \A j \in odd : k <= j
    <3> HIDE DEF odd
    <3> QED
      BY <2>1, LeastExists
  <2>3. CASE k = 0
    BY <1>5, <2>2, <2>3
  <2>4. CASE k # 0
    <3>1. k \in 1..n /\ k - 1 \in 0..n
      BY <1>1, <2>2, <2>4
    <3>5. k \in Nat /\ ~(k <= k - 1)
      BY <3>1
    <3>6. k - 1 \notin odd
      BY <2>2, <3>5
    <3>2. upTo[k - 1] \in Seq(S)
      BY <3>1, <3>6
    <3>3. upTo[k] = IF k \in keep THEN Append(upTo[k - 1], list[k]) ELSE upTo[k - 1]
      <4>1. k \in 0..n /\ k # 0
        BY <1>1, <3>1
      <4> HIDE DEF odd
      <4> QED
        BY <1>5, <4>1
    <3>4. upTo[k] \in Seq(S)
      BY <1>1, <3>1, <3>2, <3>3
    <3> QED
      BY <2>2, <3>4
  <2> QED
    BY <2>3, <2>4
<1> QED
  BY <1>1, <1>6, <1>7

LEMMA SeqIsList ==
  ASSUME NEW S, NEW list \in Seq(S)
  PROVE  /\ IsList(list) /\ \A n \in ToSet(list) : n \in S
         /\ DOMAIN list = 1..Len(list) /\ Len(list) \in Nat /\ \A i \in DOMAIN list : list[i] \in S
<1>1. DOMAIN list = 1..Len(list) /\ Len(list) \in Nat /\ \A i \in DOMAIN list : list[i] \in S
  OBVIOUS
<1>2. \A i \in DOMAIN list : list[i] \in ToSet(list)
  BY DEF ToSet
<1>3. \A n \in ToSet(list) : n \in S
  BY <1>1 DEF ToSet
<1>4. list \in Seq(ToSet(list))
  <2> DEFINE T == ToSet(list)
  <2> HIDE DEF T
  <2>1. list = [i \in 1..Len(list) |-> list[i]]
    OBVIOUS
  <2> QED
    BY <1>1, <1>2, <2>1 DEF T
<1> QED
  BY <1>1, <1>3, <1>4 DEF IsList

(* The node of an id is the first that has it.                             *)
LEMMA NodeWithIs ==
  ASSUME NEW list, IsList(list), NEW i \in DOMAIN list,
         \A j \in DOMAIN list : list[j].id = list[i].id => i <= j
  PROVE  NodeWith(list, list[i].id) = list[i]
<1> DEFINE first(k) == k \in DOMAIN list /\ list[k].id = list[i].id
                         /\ \A j \in DOMAIN list : list[j].id = list[i].id => k <= j
           x == CHOOSE k \in DOMAIN list : list[k].id = list[i].id
                         /\ \A j \in DOMAIN list : list[j].id = list[i].id => k <= j
<1>1. DOMAIN list \in SUBSET Nat
  BY IdsAreFinite
<1>2. first(i)
  OBVIOUS
<1>3. first(x)
  BY <1>2
<1>4. x = i
  <2>1. x <= i /\ i <= x /\ x \in Nat /\ i \in Nat
    BY <1>1, <1>2, <1>3
  <2> HIDE DEF x
  <2> QED
    BY <2>1
<1>5. NodeWith(list, list[i].id) = list[x]
  BY DEF NodeWith
<1> QED
  BY <1>4, <1>5

LEMMA FirstOfId ==
  ASSUME NEW list, IsList(list), NEW id \in IdsOf(list)
  PROVE  \E i \in DOMAIN list : /\ list[i].id = id
                                /\ \A j \in DOMAIN list : list[j].id = list[i].id => i <= j
<1> DEFINE S == {i \in DOMAIN list : list[i].id = id}
<1>1. S \in SUBSET Nat /\ S # {}
  BY IdsAreFinite DEF IdsOf
<1> HIDE DEF S
<1>2. PICK i \in S : \A j \in S : i <= j
  BY <1>1, LeastExists
<1> QED
  BY <1>2 DEF S

(* Whether a plan has a circle is a matter of its ids and dependencies.    *)
LEMMA CyclicSame ==
  ASSUME NEW a, IsList(a), NEW b, IsList(b), DOMAIN a = DOMAIN b,
         \A i \in DOMAIN a : a[i].id = b[i].id /\ a[i].deps = b[i].deps
  PROVE  Cyclic(a) <=> Cyclic(b)
<1>1. IdsOf(a) = IdsOf(b)
  BY DEF IdsOf
<1>2. ASSUME NEW id \in IdsOf(a) PROVE NodeWith(a, id).deps = NodeWith(b, id).deps
  <2>1. PICK i \in DOMAIN a : /\ a[i].id = id
                              /\ \A j \in DOMAIN a : a[j].id = a[i].id => i <= j
    BY FirstOfId
  <2>2. b[i].id = id /\ \A j \in DOMAIN b : b[j].id = b[i].id => i <= j
    BY <2>1
  <2>3. NodeWith(a, id) = a[i]
    BY <2>1, NodeWithIs
  <2>4. NodeWith(b, id) = b[i]
    BY <2>1, <2>2, NodeWithIs
  <2> QED
    BY <2>3, <2>4
<1> QED
  BY <1>1, <1>2 DEF Cyclic

(* A plan that is numbered as it comes, in which nodes wait for earlier ones, passes.      *)
Numbered(list) ==
  \A i \in DOMAIN list : /\ list[i].id = i /\ list[i].deps \subseteq 1..(i - 1)
                         /\ list[i].steps # {} /\ list[i].packet.checks # {}

LEMMA NumberedPasses ==
  ASSUME NEW list, IsList(list), list # <<>>, Numbered(list)
  PROVE  Validated(list) = {}
<1>1. DOMAIN list = 1..Len(list) /\ Len(list) \in Nat
  BY DEF IsList
<1>2. IdsOf(list) = 1..Len(list)
  BY <1>1 DEF IdsOf, Numbered
<1>3. ASSUME NEW i \in DOMAIN list PROVE NodeWith(list, i) = list[i]
  <2>1. list[i].id = i /\ \A j \in DOMAIN list : list[j].id = list[i].id => i <= j
    BY <1>1 DEF Numbered
  <2> QED
    BY <2>1, NodeWithIs
<1>4. ~Cyclic(list)
  <2> SUFFICES ASSUME Cyclic(list) PROVE FALSE
    OBVIOUS
  <2>1. PICK S \in (SUBSET IdsOf(list)) \ {{}} : \A id \in S : NodeWith(list, id).deps \cap S # {}
    BY Zenon DEF Cyclic
  <2>2. S \in SUBSET Nat /\ S # {} /\ S \subseteq DOMAIN list
    BY <1>1, <1>2, <2>1
  <2>3. PICK x \in S : \A y \in S : x <= y
    BY <2>2, LeastExists
  <2>4. PICK d \in S : d \in list[x].deps
    BY <1>3, <2>1, <2>2, <2>3
  <2>5. d \in 1..(x - 1) /\ x <= d /\ x \in Nat /\ d \in Nat
    BY <2>2, <2>3, <2>4 DEF Numbered
  <2> QED
    BY <2>5
<1>5. CheckCycles(list) = {}
  BY <1>4, CyclesFound
<1>6. ~ \E i, j \in DOMAIN list : i # j /\ list[i].id = list[j].id
  BY DEF Numbered
<1>7. \A n \in ToSet(list) : /\ n.deps \subseteq IdsOf(list) /\ n.steps # {}
                             /\ n.packet.checks # {}
  <2> SUFFICES ASSUME NEW i \in DOMAIN list
               PROVE  /\ list[i].deps \subseteq IdsOf(list) /\ list[i].steps # {}
                      /\ list[i].packet.checks # {}
    BY DEF ToSet
  <2>1. 1..(i - 1) \subseteq 1..Len(list)
    BY <1>1
  <2> QED
    BY <1>2, <2>1 DEF Numbered
<1> QED
  BY <1>5, <1>6, <1>7 DEF Validated

LEMMA CycleReported ==
  ASSUME NEW list, IsList(list)
  PROVE  "cycle" \in Validated(list) <=> Cyclic(list)
<1>1. CheckCycles(list) # {} <=> Cyclic(list)
  BY CyclesFound
<1>2. "cycle" \in Validated(list) <=> CheckCycles(list) # {}
  BY DEF Validated
<1> QED
  BY <1>1, <1>2

(* What stands in a plan.  (Two words are named: the provers do not know   *)
(* that they are strings.)                                                 *)
Words == STRING \cup {"goal", "typecheck"}
Packet == [scope : SUBSET Words, checks : SUBSET Words, done : BOOLEAN]
PlanNode == [id : Nat, packet : Packet, steps : SUBSET ({"scope", "verify"} \X Words),
             deps : SUBSET Nat, status : {"pending", "active", "done", "skipped"}]

LEMMA PacketsAreWhole ==
  /\ \A line \in Lines : /\ PacketOf(line) \in Packet /\ PacketOf(line).scope # {}
                         /\ PacketOf(line).checks # {}
  /\ \A text \in PlanTexts : /\ MinimumPacket(text) \in Packet /\ MinimumPacket(text).scope # {}
                             /\ MinimumPacket(text).checks # {}
<1>1. ASSUME NEW line \in Lines
      PROVE  /\ PacketOf(line) \in Packet /\ PacketOf(line).scope # {}
             /\ PacketOf(line).checks # {}
  <2> DEFINE scope == IF line.files # {} THEN line.files ELSE {line.words}
             checks == IF line.hints # {} THEN line.hints ELSE {"typecheck"}
  <2>3. /\ line.files \in SUBSET Words /\ line.hints \in SUBSET Words /\ line.words \in Words
        /\ "typecheck" \in Words
    BY DEF Lines, Words
  <2>4. scope \in SUBSET Words /\ scope # {}
    BY <2>3
  <2>5. checks \in SUBSET Words /\ checks # {}
    BY <2>3
  <2>1. /\ scope \in SUBSET Words /\ scope # {} /\ checks \in SUBSET Words /\ checks # {}
    BY <2>4, <2>5
  <2>2. PacketOf(line) = [scope |-> scope, checks |-> checks, done |-> TRUE]
    BY DEF PacketOf
  <2> HIDE DEF scope, checks
  <2> QED
    BY <2>1, <2>2 DEF Packet
<1>2. ASSUME NEW text \in PlanTexts
      PROVE  /\ MinimumPacket(text) \in Packet /\ MinimumPacket(text).scope # {}
             /\ MinimumPacket(text).checks # {}
  <2> DEFINE named == UNION {line.files : line \in ToSet(text.lines)}
             scope == IF named # {} THEN named ELSE {"goal"}
  <2>1. \A line \in ToSet(text.lines) : line \in Lines
    BY TextsAssumption, SeqIsList DEF TextsAssumption
  <2>2. named \in SUBSET Words
    BY <2>1 DEF Lines, Words
  <2>3. MinimumPacket(text) = [scope |-> scope, checks |-> {"typecheck"}, done |-> TRUE]
    BY DEF MinimumPacket
  <2> HIDE DEF named
  <2>4. scope \in SUBSET Words /\ scope # {}
    <3>1. "goal" \in Words
      BY DEF Words
    <3> QED
      BY <2>2, <3>1
  <2> DEFINE checks == {"typecheck"}
  <2>5. checks \in SUBSET Words /\ checks # {}
    BY DEF Words
  <2>6. MinimumPacket(text) = [scope |-> scope, checks |-> checks, done |-> TRUE]
    BY <2>3
  <2> HIDE DEF scope, checks
  <2> QED
    BY <2>4, <2>5, <2>6 DEF Packet
<1> QED
  BY <1>1, <1>2

LEMMA NodeOfIs ==
  ASSUME NEW id \in Nat, NEW p \in Packet, p.scope # {}, NEW deps \in SUBSET Nat,
         NEW status \in {"pending", "active"}
  PROVE  /\ NodeOf(id, p, deps, status) \in PlanNode /\ NodeOf(id, p, deps, status).id = id
         /\ NodeOf(id, p, deps, status).packet = p /\ NodeOf(id, p, deps, status).deps = deps
         /\ NodeOf(id, p, deps, status).steps # {}
<1>1. p.scope \in SUBSET Words /\ p.checks \in SUBSET Words
  BY DEF Packet
<1>2. StepsOf(p) \in SUBSET ({"scope", "verify"} \X Words)
  BY <1>1 DEF StepsOf
<1>3. StepsOf(p) # {}
  <2>1. PICK item \in p.scope : TRUE
    OBVIOUS
  <2>2. <<"scope", item>> \in StepsOf(p)
    BY <2>1 DEF StepsOf
  <2> QED
    BY <2>2
<1>4. NodeOf(id, p, deps, status) = [id |-> id, packet |-> p, steps |-> StepsOf(p), deps |-> deps,
                                     status |-> status]
  BY DEF NodeOf
<1> QED
  BY <1>2, <1>3, <1>4 DEF PlanNode

LEMMA PlansFromText ==
  ASSUME NEW text \in PlanTexts
  PROVE  /\ NodesFromPlanText(text) \in Seq(PlanNode) /\ NodesFromPlanText(text) # <<>>
         /\ Numbered(NodesFromPlanText(text))
<1> DEFINE items == Filtered(text.lines, {i \in DOMAIN text.lines : text.lines[i].item})
           goal == [files |-> {}, hints |-> {}, words |-> "goal"]
           node(i) == NodeOf(i, PacketOf(items[i]), IF items[i].joins THEN Prior(i) ELSE {},
                             IF i = 1 THEN "active" ELSE "pending")
           list == NodesFromPlanText(text)
<1>1. items \in Seq(Lines)
  BY TextsAssumption, FilteredIsList DEF TextsAssumption
<1>2. /\ items = <<>> => list = <<NodeOf(1, PacketOf(goal), {}, "active")>>
      /\ items # <<>> => list = [i \in DOMAIN items |-> node(i)]
  BY DEF NodesFromPlanText
<1> HIDE DEF list, items
<1>3. CASE items = <<>>
  <2> DEFINE p == PacketOf(goal)
  <2>1. p = [scope |-> {"goal"}, checks |-> {"typecheck"}, done |-> TRUE]
    BY DEF PacketOf
  <2>6. {"goal"} \in SUBSET Words /\ {"typecheck"} \in SUBSET Words
    BY DEF Words
  <2>7. p.scope = {"goal"} /\ p.checks = {"typecheck"}
    BY <2>1
  <2>8. p \in Packet
    <3> DEFINE a == {"goal"}  b == {"typecheck"}
    <3>1. p = [scope |-> a, checks |-> b, done |-> TRUE] /\ a \in SUBSET Words /\ b \in SUBSET Words
      BY <2>1, <2>6
    <3> HIDE DEF a, b, p
    <3> QED
      BY <3>1 DEF Packet
  <2>2. p \in Packet /\ p.scope # {} /\ p.checks # {}
    BY <2>7, <2>8
  <2> DEFINE one == NodeOf(1, p, {}, "active")
  <2> HIDE DEF p
  <2>3. /\ one \in PlanNode /\ one.id = 1 /\ one.packet = p /\ one.deps = {} /\ one.steps # {}
    BY <2>2, NodeOfIs
  <2>4. list = <<one>>
    BY <1>2, <1>3 DEF p
  <2> HIDE DEF one
  <2>5. list \in Seq(PlanNode) /\ list # <<>> /\ DOMAIN list = {1} /\ list[1] = one
    BY <2>3, <2>4
  <2> QED
    BY <2>2, <2>3, <2>5 DEF Numbered, list
<1>4. CASE items # <<>>
  <2>1. DOMAIN items = 1..Len(items) /\ Len(items) \in Nat /\ \A i \in DOMAIN items : items[i] \in Lines
    BY <1>1
  <2>2. ASSUME NEW i \in DOMAIN items
        PROVE  /\ node(i) \in PlanNode /\ node(i).id = i /\ node(i).deps \subseteq 1..(i - 1)
               /\ node(i).steps # {} /\ node(i).packet.checks # {}
    <3> DEFINE p == PacketOf(items[i])
               deps == IF items[i].joins THEN Prior(i) ELSE {}
               status == IF i = 1 THEN "active" ELSE "pending"
    <3>1. i \in Nat
      BY <2>1
    <3>2. p \in Packet /\ p.scope # {} /\ p.checks # {}
      BY <2>1, PacketsAreWhole
    <3>3. deps \in SUBSET Nat /\ deps \subseteq 1..(i - 1) /\ status \in {"pending", "active"}
      BY <3>1 DEF Prior
    <3>4. node(i) = NodeOf(i, p, deps, status)
      OBVIOUS
    <3> HIDE DEF p, deps, status, node
    <3>5. /\ node(i) \in PlanNode /\ node(i).id = i /\ node(i).packet = p /\ node(i).deps = deps
          /\ node(i).steps # {}
      BY <3>1, <3>2, <3>3, <3>4, NodeOfIs
    <3> QED
      BY <3>2, <3>3, <3>5
  <2> HIDE DEF node
  <2>3. list = [i \in DOMAIN items |-> node(i)] /\ Len(items) # 0
    BY <1>1, <1>2, <1>4
  <2>4. list \in Seq(PlanNode) /\ DOMAIN list = DOMAIN items /\ list # <<>>
        /\ \A i \in DOMAIN list : list[i] = node(i)
    BY <2>1, <2>2, <2>3
  <2> QED
    BY <2>2, <2>4 DEF Numbered, list
<1> QED
  BY <1>3, <1>4

(***************************************************************************)
(* The invariant.                                                          *)
(***************************************************************************)
Reviewed ==
  /\ planNodes \in Seq(PlanNode) /\ revisions \in Nat
  /\ reviewStage = "planning" => revisions = 0
  /\ PlansAreClean /\ CyclesAreFound

LEMMA CyclesNext == CyclesAreFound' <=> (("cycle" \in report') <=> Cyclic(planNodes'))
BY DEF CyclesAreFound, Cyclic, IdsOf, NodeWith

LEMMA StartReviewed ==
  ASSUME Reviewed, NEW list \in Seq(PlanNode), list # <<>>, Numbered(list), Start(list)
  PROVE  Reviewed'
<1>1. /\ planNodes' = list /\ report' = Validated(list) /\ revisions' = revisions
      /\ reviewStage' = "working"
  BY DEF Start
<1>2. IsList(list)
  BY SeqIsList
<1>3. Validated(list) = {} /\ ("cycle" \in Validated(list) <=> Cyclic(list))
  BY <1>2, NumberedPasses, CycleReported
<1>4. CyclesAreFound'
  BY <1>1, <1>3, CyclesNext
<1> QED
  BY <1>1, <1>3, <1>4 DEF Reviewed, PlansAreClean

LEMMA CloseReviewed ==
  ASSUME Reviewed, NEW i \in DOMAIN planNodes, NEW status \in {"done", "skipped"},
         CloseNode(i, status)
  PROVE  Reviewed'
<1>1. /\ planNodes' = [planNodes EXCEPT ![i].status = status]
      /\ UNCHANGED <<reviewStage, report, revisions>>
  BY DEF CloseNode
<1>2. /\ DOMAIN planNodes = 1..Len(planNodes) /\ Len(planNodes) \in Nat
      /\ \A j \in DOMAIN planNodes : planNodes[j] \in PlanNode
  BY DEF Reviewed
<1>3. /\ DOMAIN planNodes' = DOMAIN planNodes
      /\ \A j \in DOMAIN planNodes :
           planNodes'[j] = IF j = i THEN [planNodes[i] EXCEPT !.status = status] ELSE planNodes[j]
  BY <1>1
<1>4. \A n \in PlanNode : /\ [n EXCEPT !.status = status] \in PlanNode
                          /\ [n EXCEPT !.status = status].id = n.id
                          /\ [n EXCEPT !.status = status].deps = n.deps
  BY DEF PlanNode
<1>5. \A j \in DOMAIN planNodes : /\ planNodes'[j] \in PlanNode
                                  /\ planNodes'[j].id = planNodes[j].id
                                  /\ planNodes'[j].deps = planNodes[j].deps
  BY <1>2, <1>3, <1>4
<1>6. planNodes' \in Seq(PlanNode)
  <2>1. planNodes' = [j \in 1..Len(planNodes) |-> planNodes'[j]]
    BY <1>1, <1>2, <1>3
  <2> QED
    BY <1>2, <1>5, <2>1
<1>7. Cyclic(planNodes) <=> Cyclic(planNodes')
  <2>1. IsList(planNodes) /\ IsList(planNodes')
    BY <1>6, SeqIsList DEF Reviewed
  <2> DEFINE new == planNodes'
  <2>2. IsList(new) /\ DOMAIN planNodes = DOMAIN new
        /\ \A j \in DOMAIN planNodes : planNodes[j].id = new[j].id /\ planNodes[j].deps = new[j].deps
    BY <1>3, <1>5, <2>1
  <2> HIDE DEF new
  <2>3. Cyclic(planNodes) <=> Cyclic(new)
    BY <2>1, <2>2, CyclicSame
  <2> QED
    BY <2>3 DEF new
<1>8. CyclesAreFound'
  BY <1>1, <1>7, CyclesNext DEF Reviewed, CyclesAreFound
<1> QED
  BY <1>1, <1>6, <1>8 DEF Reviewed, PlansAreClean

(* Among the ids of a list that has any there is a largest.                *)
LEMMA LargestId ==
  ASSUME NEW list \in Seq(PlanNode), list # <<>>
  PROVE  \E m \in IdsOf(list) : \A id \in IdsOf(list) : id <= m
<1> DEFINE Bound(b, k) == \A i \in 1..k : list[i].id <= b
           n == Len(list)
           odd == {k \in 0..n : ~ \E b \in Nat : Bound(b, k)}
<1>1. n \in Nat /\ n # 0 /\ DOMAIN list = 1..n /\ \A i \in 1..n : list[i].id \in Nat
  <2>1. /\ DOMAIN list = 1..Len(list) /\ Len(list) \in Nat
        /\ \A i \in DOMAIN list : list[i] \in PlanNode
    BY SeqIsList
  <2>2. n # 0
    OBVIOUS
  <2>3. \A x \in PlanNode : x.id \in Nat
    BY DEF PlanNode
  <2> QED
    BY <2>1, <2>2, <2>3
<1> HIDE DEF n
<1>2. odd = {}
  <2> SUFFICES ASSUME odd # {} PROVE FALSE
    OBVIOUS
  <2>9. 0..n \subseteq Nat
    BY <1>1
  <2>1. odd \in SUBSET Nat /\ odd \subseteq 0..n
    <3> HIDE DEF Bound
    <3> QED
      BY <2>9
  <2>2. \A k \in odd : ~ \E b \in Nat : Bound(b, k)
    OBVIOUS
  <2>3. \A k \in 0..n : k \notin odd => \E b \in Nat : Bound(b, k)
    OBVIOUS
  <2> HIDE DEF odd
  <2>4. PICK k \in odd : \A j \in odd : k <= j
    BY <2>1, LeastExists
  <2>5. k # 0
    <3>1. Bound(0, 0)
      OBVIOUS
    <3> HIDE DEF Bound
    <3> QED
      BY <2>2, <2>4, <3>1
  <2>6. k \in 1..n /\ k - 1 \in 0..n /\ k - 1 \notin odd
    BY <1>1, <2>1, <2>4, <2>5
  <2>7. PICK b \in Nat : Bound(b, k - 1)
    BY <2>3, <2>6
  <2> DEFINE c == IF list[k].id <= b THEN b ELSE list[k].id
  <2>8. c \in Nat /\ Bound(c, k)
    <3>1. list[k].id \in Nat /\ c \in Nat /\ b <= c /\ list[k].id <= c
      BY <1>1, <2>6
    <3> HIDE DEF c
    <3>2. ASSUME NEW i \in 1..k PROVE list[i].id <= c
      <4>1. CASE i = k
        BY <3>1, <4>1
      <4>2. CASE i # k
        <5>1. i \in 1..(k - 1) /\ i \in 1..n
          BY <1>1, <2>6, <4>2
        <5>2. list[i].id <= b /\ list[i].id \in Nat
          BY <1>1, <2>7, <5>1
        <5> QED
          BY <3>1, <5>2
      <4> QED
        BY <4>1, <4>2
    <3> QED
      BY <3>1, <3>2
  <2> HIDE DEF c, Bound
  <2> QED
    BY <2>2, <2>4, <2>8
<1> DEFINE bounds == {b \in Nat : Bound(b, n)}
<1>3. bounds # {} /\ bounds \in SUBSET Nat
  <2>1. n \in 0..n
    BY <1>1
  <2> HIDE DEF Bound
  <2> QED
    BY <1>2, <2>1
<1>4. PICK m \in bounds : \A b \in bounds : m <= b
  <2> HIDE DEF bounds
  <2> QED
    BY <1>3, LeastExists
<1>5. m \in Nat /\ \A i \in 1..n : list[i].id <= m
  BY <1>4
<1>6. \E i \in 1..n : list[i].id = m
  <2> SUFFICES ASSUME \A i \in 1..n : list[i].id # m PROVE FALSE
    OBVIOUS
  <2>1. 1 \in 1..n /\ list[1].id \in Nat /\ list[1].id <= m /\ list[1].id # m
    BY <1>1, <1>5
  <2>2. m - 1 \in Nat /\ ~(m <= m - 1)
    BY <1>5, <2>1
  <2>3. \A i \in 1..n : list[i].id <= m - 1
    BY <1>1, <1>5
  <2>4. m - 1 \in bounds
    BY <2>2, <2>3
  <2> QED
    BY <1>4, <2>2, <2>4
<1> QED
  BY <1>1, <1>5, <1>6 DEF IdsOf

LEMMA ReviseReviewed ==
  ASSUME Reviewed, NEW reply \in Replies, Revise(reply)
  PROVE  Reviewed'
<1> DEFINE settled == {i \in DOMAIN planNodes : planNodes[i].status \in {"done", "skipped"}}
           frozen == Filtered(planNodes, settled)
           top == IF frozen = <<>> THEN 0
                  ELSE CHOOSE m \in IdsOf(frozen) : \A id \in IdsOf(frozen) : id <= m
           read == SubSeq(reply, 1, IF Len(reply) < MaxNodesRead THEN Len(reply) ELSE MaxNodesRead)
           node(i) == NodeOf(top + i, PacketOf(read[i].line), read[i].deps \ {0},
                             IF i = 1 THEN "active" ELSE "pending")
           list == frozen \o [i \in 1..Len(read) |-> node(i)]
<1>1. /\ planNodes' = list /\ report' = Validated(list) /\ revisions' = revisions + 1
      /\ reviewStage = "working" /\ reviewStage' = reviewStage
  BY DEF Revise
<1>2. frozen \in Seq(PlanNode)
  BY FilteredIsList DEF Reviewed
<1>3. top \in Nat
  <2>1. IdsOf(frozen) \in SUBSET Nat
    <3>1. \A i \in DOMAIN frozen : frozen[i] \in PlanNode
      BY <1>2, SeqIsList
    <3>2. \A x \in PlanNode : x.id \in Nat
      BY DEF PlanNode
    <3> HIDE DEF frozen
    <3> QED
      BY <3>1, <3>2 DEF IdsOf
  <2> HIDE DEF frozen
  <2>2. frozen # <<>> => \E m \in IdsOf(frozen) : \A id \in IdsOf(frozen) : id <= m
    BY <1>2, LargestId
  <2> QED
    BY <2>1, <2>2
<1> HIDE DEF top, frozen
<1> DEFINE Reply == [line : Lines, deps : SUBSET Nat]
<1>4. Len(read) \in Nat /\ \A i \in 1..Len(read) : read[i] \in Reply
  <2> DEFINE k == IF Len(reply) < MaxNodesRead THEN Len(reply) ELSE MaxNodesRead
  <2>1. reply \in Seq(Reply) /\ MaxNodesRead \in Nat
    BY RepliesAssumption DEF RepliesAssumption
  <2>2. Len(reply) \in Nat /\ \A i \in 1..Len(reply) : reply[i] \in Reply
    <3> HIDE DEF Reply
    <3> QED
      BY <2>1, SeqIsList
  <2>3. k \in Int /\ k <= Len(reply) /\ 0 <= k
    BY <2>1, <2>2
  <2>4. read = SubSeq(reply, 1, k)
    OBVIOUS
  <2> HIDE DEF k, Reply
  <2>5. \A i \in 1..k : reply[i] \in Reply
    BY <2>2, <2>3
  <2>6. SubSeq(reply, 1, k) \in Seq(Reply)
    BY <2>3, <2>5, SubSeqProperties
  <2> HIDE DEF read
  <2> QED
    BY <2>4, <2>6
<1> HIDE DEF read
<1>5. list \in Seq(PlanNode)
  <2>1. ASSUME NEW i \in 1..Len(read) PROVE node(i) \in PlanNode
    <3> DEFINE p == PacketOf(read[i].line)
               deps == read[i].deps \ {0}
               status == IF i = 1 THEN "active" ELSE "pending"
    <3>1. top + i \in Nat /\ deps \in SUBSET Nat /\ read[i].line \in Lines
          /\ status \in {"pending", "active"}
      BY <1>3, <1>4
    <3>2. p \in Packet /\ p.scope # {}
      BY <3>1, PacketsAreWhole
    <3>3. node(i) = NodeOf(top + i, p, deps, status)
      OBVIOUS
    <3> HIDE DEF p, deps, status, node
    <3> QED
      BY <3>1, <3>2, <3>3, NodeOfIs
  <2> HIDE DEF node
  <2>2. [i \in 1..Len(read) |-> node(i)] \in Seq(PlanNode)
    BY <1>4, <2>1
  <2> QED
    BY <1>2, <2>2
<1> HIDE DEF list
<1>6. "cycle" \in Validated(list) <=> Cyclic(list)
  BY <1>5, SeqIsList, CycleReported
<1>7. CyclesAreFound'
  BY <1>1, <1>6, CyclesNext
<1> QED
  BY <1>1, <1>5, <1>7 DEF Reviewed, PlansAreClean

LEMMA ReviewedKept == Reviewed /\ [ReviewNext]_reviewVars => Reviewed'
<1> SUFFICES ASSUME Reviewed, [ReviewNext]_reviewVars PROVE Reviewed'
  OBVIOUS
<1>1. CASE UNCHANGED reviewVars
  <2>1. CyclesAreFound'
    BY <1>1, CyclesNext DEF reviewVars, Reviewed, CyclesAreFound
  <2> QED
    BY <1>1, <2>1 DEF reviewVars, Reviewed, PlansAreClean
<1>2. ASSUME NEW text \in PlanTexts, RefusePlan(text) PROVE Reviewed'
  <2>1. UNCHANGED <<reviewStage, planNodes, report, revisions>>
    BY <1>2 DEF RefusePlan
  <2>2. CyclesAreFound'
    BY <2>1, CyclesNext DEF Reviewed, CyclesAreFound
  <2> QED
    BY <2>1, <2>2 DEF Reviewed, PlansAreClean
<1>3. ASSUME NEW text \in PlanTexts, AcceptText(text) PROVE Reviewed'
  BY <1>3, PlansFromText, StartReviewed DEF AcceptText
<1>4. ASSUME NEW text \in PlanTexts, AcceptByForce(text) PROVE Reviewed'
  <2> DEFINE p == MinimumPacket(text)
             one == NodeOf(1, p, {}, "active")
  <2>1. p \in Packet /\ p.scope # {} /\ p.checks # {}
    BY PacketsAreWhole
  <2> HIDE DEF p
  <2>2. /\ one \in PlanNode /\ one.id = 1 /\ one.packet = p /\ one.deps = {} /\ one.steps # {}
    BY <2>1, NodeOfIs
  <2>3. Start(<<one>>)
    BY <1>4 DEF AcceptByForce, p
  <2> HIDE DEF one
  <2>4. <<one>> \in Seq(PlanNode) /\ <<one>> # <<>>
    BY <2>2
  <2>5. Numbered(<<one>>)
    BY <2>1, <2>2 DEF Numbered
  <2> QED
    BY <2>3, <2>4, <2>5, StartReviewed
<1>5. ASSUME NEW i \in DOMAIN planNodes, NEW status \in {"done", "skipped"}, CloseNode(i, status)
      PROVE  Reviewed'
  BY <1>5, CloseReviewed
<1>6. ASSUME NEW reply \in Replies, Revise(reply) PROVE Reviewed'
  BY <1>6, ReviseReviewed
<1> QED
  BY <1>1, <1>2, <1>3, <1>4, <1>5, <1>6 DEF ReviewNext

LEMMA ReviewedAtFirst == ReviewInit => Reviewed
<1> SUFFICES ASSUME ReviewInit PROVE Reviewed
  OBVIOUS
<1>1. planNodes = <<>> /\ report = {} /\ revisions = 0
  BY DEF ReviewInit
<1>2. ~Cyclic(planNodes)
  <2>1. IdsOf(planNodes) = {}
    BY <1>1 DEF IdsOf
  <2> QED
    BY <2>1 DEF Cyclic
<1> QED
  BY <1>1, <1>2 DEF Reviewed, PlansAreClean, CyclesAreFound

LEMMA PacketsReadSound == ReadPacketsAreSound
<1> SUFFICES ASSUME NEW form \in PacketForms, ParseTaskPacketJson(form)
             PROVE  /\ \A f \in Required \ {"doneCriteria"} : form[f] = "good"
                    /\ \A f \in DOMAIN form \ Required : form[f] = "absent"
  BY DEF ReadPacketsAreSound
<1>1. Required \subseteq DOMAIN form /\ \A f \in DOMAIN form : form[f] \in Marks
  BY FormsAssumption DEF FormsAssumption
<1>2. ShapeErrors(form) = {}
  BY DEF ParseTaskPacketJson
<1>3. ASSUME NEW f \in Required, f # "doneCriteria" PROVE form[f] = "good"
  <2>1. form[f] \notin {"absent", "odd"} /\ form[f] # "blank"
    BY <1>2, <1>3 DEF ShapeErrors
  <2> QED
    BY <1>1, <2>1 DEF Marks
<1>4. ASSUME NEW f \in DOMAIN form \ Required PROVE form[f] = "absent"
  BY <1>2 DEF ShapeErrors
<1> QED
  BY <1>3, <1>4

-----------------------------------------------------------------------------
(* The texts of the plan, the verdicts on a final answer and the watch over the rounds,     *)
(* whichever of the modules is explored (PlanReview, Testimony and Depth): what a text is   *)
(* made into can be worked on, an answer is delivered as it was earned, and the run is      *)
(* watched to its end.                                                                      *)
THEOREM ReviewsSound == PlansSpec => []ReviewsAreSound
<1> DEFINE All == Reviewed /\ Earned /\ Watched
<1>1. PlansInit => All
  BY ReviewedAtFirst, EarnedAtFirst, WatchedAtFirst DEF PlansInit
<1>2. All /\ [PlansNext]_plans => All'
  <2>1. [PlansNext]_plans => /\ [ReviewNext]_reviewVars /\ [TestimonyNext]_judgeVars
                             /\ [DepthNext]_depthVars
    BY DEF PlansNext, plans
  <2> QED
    BY <2>1, ReviewedKept, EarnedKept, WatchedKept
<1>3. All => ReviewsAreSound
  <2>1. Reviewed => PlansAreSound
    BY PacketsReadSound DEF Reviewed, PlansAreSound
  <2> QED
    BY <2>1, EarnedSuffices, WatchedSuffices DEF ReviewsAreSound
<1> QED
  BY <1>1, <1>2, <1>3, PTL DEF PlansSpec
=============================================================================
