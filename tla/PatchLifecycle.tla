--------------------------- MODULE PatchLifecycle ---------------------------
(***************************************************************************)
(* What a managed patch transaction promises, without temp files, journal, *)
(* registry or system calls: the state diagram PR-4.1 draws, and what each *)
(* state means for the files on disk.  A file is only ever given the       *)
(* content of a call that has been verified, and a call is rolled back     *)
(* with nothing of its content left, unless its restore stopped at an      *)
(* error.                                                                  *)
(***************************************************************************)
EXTENDS TLAPS

CONSTANTS
  Call,   \* transactions; also the content each of them writes
  File,
  Plain   \* content that no transaction wrote

VARIABLES
  disk,   \* what each file holds
  state,  \* PatchState of each transaction
  halted  \* transactions whose restore stopped at an error

vars == <<disk, state, halted>>

Open == {"proposed", "applied_to_temp", "verified"}

Init ==
  /\ disk \in [File -> Plain]
  /\ state = [c \in Call |-> "none"]
  /\ halted = {}

(* The forward edges of VALID_TRANSITIONS. *)
Advance(c, from, to) ==
  /\ state[c] = from
  /\ state' = [state EXCEPT ![c] = to]
  /\ UNCHANGED <<disk, halted>>

Install(c, f) ==
  /\ state[c] = "verified"
  /\ disk' = [disk EXCEPT ![f] = c]
  /\ UNCHANGED <<state, halted>>

RollBack(c) ==
  /\ state[c] \in Open
  /\ state' = [state EXCEPT ![c] = "rolled_back"]
  /\ \/ UNCHANGED halted /\ \A f \in File : disk[f] # c
     \/ halted' = halted \cup {c}
  /\ UNCHANGED disk

(* An undo that failed without a transaction of its own. *)
HaltUndo(c) ==
  halted' = halted \cup {c} /\ UNCHANGED <<disk, state>>

(* Content that an undo or another program may put in place of a file: it  *)
(* is never that of a transaction that was rolled back.                    *)
Settled == {c \in Call : state[c] \in {"verified", "committed"}} \cup halted

Disturb(f, v) ==
  /\ v \in Plain \cup Settled
  /\ disk' = [disk EXCEPT ![f] = v]
  /\ UNCHANGED <<state, halted>>

Next ==
  \/ \E c \in Call :
       \/ Advance(c, "none", "proposed")
       \/ Advance(c, "proposed", "applied_to_temp")
       \/ Advance(c, "applied_to_temp", "verified")
       \/ Advance(c, "verified", "committed")
       \/ RollBack(c) \/ HaltUndo(c)
       \/ \E f \in File : Install(c, f)
  \/ \E f \in File, v \in Plain \cup Call : Disturb(f, v)

Spec == Init /\ [][Next]_vars

(* No file ever shows the content of a transaction that is unverified or   *)
(* cleanly rolled back.                                                    *)
VisibleIsVerified ==
  \A f \in File : disk[f] \in Call => disk[f] \in Settled

-----------------------------------------------------------------------------
(* What the lifecycle gives its users; PatchTransaction implements it, so it *)
(* gives them the same.                                                    *)
Inv == /\ DOMAIN state = Call
       /\ VisibleIsVerified

LEMMA InitVisible == ASSUME Call \cap Plain = {} PROVE Init => Inv
BY DEF Init, Inv, VisibleIsVerified

(* A transaction leaves Settled only by a clean rollback, and then no file *)
(* shows its content.                                                      *)
LEMMA NextVisible ==
  ASSUME Call \cap Plain = {}, Inv, [Next]_vars
  PROVE  Inv'
<1> USE DEF Inv, VisibleIsVerified, Settled
<1>1. ASSUME NEW c \in Call, Advance(c, "none", "proposed") \/ Advance(c, "proposed", "applied_to_temp")
  PROVE  Inv'
  BY <1>1 DEF Advance
<1>2. ASSUME NEW c \in Call, Advance(c, "applied_to_temp", "verified") \/ Advance(c, "verified", "committed")
  PROVE  Inv'
  BY <1>2 DEF Advance
<1>3. ASSUME NEW c \in Call, RollBack(c)
  PROVE  Inv'
  BY <1>3 DEF RollBack, Open
<1>4. ASSUME NEW c \in Call, HaltUndo(c)
  PROVE  Inv'
  BY <1>4 DEF HaltUndo
<1>5. ASSUME NEW c \in Call, NEW f \in File, Install(c, f)
  PROVE  Inv'
  BY <1>5 DEF Install
<1>6. ASSUME NEW f \in File, NEW v \in Plain \cup Call, Disturb(f, v)
  PROVE  Inv'
  BY <1>6 DEF Disturb
<1>7. CASE UNCHANGED vars
  BY <1>7 DEF vars
<1> QED
  BY <1>1, <1>2, <1>3, <1>4, <1>5, <1>6, <1>7 DEF Next

(* No file ever shows the content of a transaction that has not been       *)
(* verified, or that was rolled back without an error: whoever reads the    *)
(* project between two system calls of the write layer sees checked edits. *)
THEOREM VisibleEdits ==
  ASSUME Call \cap Plain = {} PROVE Spec => []VisibleIsVerified
<1>1. Inv => VisibleIsVerified
  BY DEF Inv
<1> QED
  BY InitVisible, NextVisible, <1>1, PTL DEF Spec
=============================================================================
