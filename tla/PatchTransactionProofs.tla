----------------------- MODULE PatchTransactionProofs -----------------------
(***************************************************************************)
(* Theorems about PatchTransaction for every number of calls and files,    *)
(* every choice of tools and verification outcomes and every bound:        *)
(*   - type correctness;                                                   *)
(*   - WriteAhead: what a call has put on disk is covered by the journal;  *)
(*   - NoResidue: a cleanly rolled back call leaves nothing behind;        *)
(*   - CommitIsWhole, RollbackRestores and NoLostUpdate, step by step;     *)
(*   - without edit_fim, the refinement of PatchLifecycle.                 *)
(* They need more than they say: who may be between two system calls       *)
(* (Exclusion), where a call stands (Loops, Stages), what the journal      *)
(* covers (Journaled, Authored, TornCovered), where the content of a call  *)
(* that has not committed can be (Contained, Visible) and what the loops   *)
(* have done so far (Alone).                                               *)
(***************************************************************************)
EXTENDS PatchTransaction, TLAPS

(* The synchronous stretches. *)
SyncPc == {"snapshot", "staging", "committing", "renaming", "restoring",
           "rewriting"}

Exclusion ==
  /\ \A c \in Call : pc[c] \in SyncPc => thread = c
  /\ \A c \in Call : thread = c => pc[c] \in SyncPc

(* What is known of a call from where it is. *)
LoopsOf(c) ==
  /\ kind[c] # "rollback" => todo[c] \subseteq files[c]
  /\ pc[c] \in {"renaming", "rewriting"} => cur[c] \in todo[c]
  /\ pc[c] \notin {"renaming", "rewriting"} => cur[c] = NoFile
  /\ kind[c] # "rollback" => target[c] = c
  /\ pc[c] \in {"restoring", "rewriting"} => todo[c] \subseteq files[target[c]]
  /\ pc[c] = "idle" => kind[c] = "none"
  /\ pc[c] \notin {"idle", "restoring", "rewriting", "done", "dead"}
       => kind[c] \in {"write", "edit", "fim"}
  /\ pc[c] \in {"restoring", "rewriting"} => kind[c] \notin {"none", "fim"}
  /\ pc[c] \in {"fimopen", "fimwrite"} => kind[c] = "fim"
  /\ pc[c] \in {"staging", "verifying", "committing", "renaming"}
       => kind[c] # "fim"
  /\ pc[c] \in {"restoring", "rewriting"} /\ kind[c] # "rollback"
       => state[c] # "committed"
  /\ state[c] \in {"committed", "rolled_back"} => pc[c] = "done"
  /\ pc[c] \in {"idle", "reading", "snapshot"} \/ kind[c] = "fim"
       => state[c] = "none"

Loops == \A c \in Call : LoopsOf(c)

JournalOf(c) ==
  /\ pc[c] \notin {"idle", "reading", "snapshot", "done", "dead"}
       /\ kind[c] # "rollback" => c \in journal
  /\ c \in journal => pc[c] \notin {"idle", "reading", "snapshot"}
  /\ kind[c] = "rollback" => target[c] \in journal

Journaled == \A c \in Call : JournalOf(c)

(* Whatever a call has written is in its journaled transaction. *)
Authored ==
  \A f \in File, c \in Call :
    (disk[f] = c \/ \E d \in Call : snap[d][f] = c)
      => c \in journal /\ f \in files[c]

(* The first snapshot of a file that has since been torn was not torn. *)
Whole(f) == \E t \in journal : f \in files[t] /\ snap[t][f] # Torn
TornCovered ==
  \A f \in File :
    disk[f] = Torn \/ (\E d \in Call : snap[d][f] = Torn) => Whole(f)

(* A managed call that has neither committed, nor died, nor stopped in its *)
(* restore.                                                                *)
Pending(c) ==
  kind[c] # "fim" /\ state[c] # "committed" /\ pc[c] # "dead"
    /\ c \notin halted

ContainedAt(c, f) ==
  /\ \A d \in Call : snap[d][f] # c
  /\ disk[f] = c =>
       \/ pc[c] \in {"committing", "renaming"}
       \/ pc[c] \in {"restoring", "rewriting"} /\ kind[c] # "rollback"
            /\ f \in todo[c]

Contained ==
  \A c \in Call : Pending(c) => \A f \in File : ContainedAt(c, f)

JournalInv == TypeOK /\ Loops /\ Journaled /\ Authored /\ TornCovered
ResidueInv == JournalInv /\ Exclusion /\ Contained

(***************************************************************************)
(* Type correctness.                                                       *)
(***************************************************************************)
USE DEF Goto, Fault, callVars, envVars

LEMMA TypeStep ==
  ASSUME TypeOK, NEW c \in Call, Step(c)
  PROVE  TypeOK'
<1> USE DEF TypeOK, Content, PatchState, Pc, AllKinds
<1>1. CASE Reject(c)  BY <1>1 DEF Reject
<1>2. CASE BeginInit(c)  BY <1>2 DEF BeginInit
<1>3. CASE InitFails(c)  BY <1>3 DEF InitFails
<1>4. CASE PersistJournal(c)
  <2>1. CASE kind[c] = "fim"  BY <1>4, <2>1 DEF PersistJournal, Register
  <2>2. CASE kind[c] # "fim"
    <3>1. state' \in [Call -> PatchState]  BY <1>4, <2>2 DEF PersistJournal, Register
    <3>2. pc' \in [Call -> Pc]  BY <1>4, <2>2 DEF PersistJournal, Register
    <3>3. /\ UNCHANGED <<disk, callVars, seen, snap, temp, cur, outcome,
                         thread, envVars>>
          /\ journal' = journal \cup {c} /\ registry' = registry \cup {c}
          /\ todo' = [todo EXCEPT ![c] = files[c]]
      BY <1>4, <2>2 DEF PersistJournal, Register
    <3>4. todo' \in [Call -> SUBSET File]  BY <3>3
    <3> QED BY <3>1, <3>2, <3>3, <3>4
  <2> QED BY <2>1, <2>2
<1>5. CASE StageDone(c)  BY <1>5 DEF StageDone, Staged
<1>6. CASE StageFails(c)  BY <1>6 DEF StageFails, EnterRollback
<1>7. CASE VerifyPass(c)  BY <1>7 DEF VerifyPass
<1>8. CASE VerifyReject(c)
  <2>1. temp' \in [Call -> SUBSET File]  BY <1>8 DEF VerifyReject
  <2>2. faults' \in Nat  BY <1>8 DEF VerifyReject
  <2> QED BY <1>8, <2>1, <2>2 DEF VerifyReject
<1>9. CASE VerifyThrow(c)  BY <1>9 DEF VerifyThrow, EnterRollback
<1>10. CASE RenameFails(c)  BY <1>10 DEF RenameFails, EnterRollback
<1>11. CASE CommitDone(c)
  <2>1. temp' \in [Call -> SUBSET File]  BY <1>11 DEF CommitDone, CommitReturn
  <2>2. faults' \in Nat  BY <1>11 DEF CommitDone, CommitReturn
  <2> QED BY <1>11, <2>1, <2>2 DEF CommitDone, CommitReturn
<1>12. CASE RestoreDone(c)
  <2>1. temp' \in [Call -> SUBSET File]  BY <1>12 DEF RestoreDone, Finish
  <2>2. faults' \in Nat  BY <1>12 DEF RestoreDone, Finish
  <2> QED BY <1>12, <2>1, <2>2 DEF RestoreDone, Finish
<1>13. CASE RestoreFails(c)  BY <1>13 DEF RestoreFails
<1>14. CASE FimFails(c)  BY <1>14 DEF FimFails
<1>15. ASSUME NEW f \in File, Read(c, f) PROVE TypeOK'
  BY <1>15 DEF Read
<1>16. ASSUME NEW f \in File, ReadMissing(c, f) PROVE TypeOK'
  BY <1>16 DEF ReadMissing
<1>17. ASSUME NEW f \in File, Snapshot(c, f) PROVE TypeOK'
  BY <1>17 DEF Snapshot
<1>18. ASSUME NEW f \in File, Stage(c, f) PROVE TypeOK'
  BY <1>18 DEF Stage
<1>19. ASSUME NEW f \in File, CheckBase(c, f) PROVE TypeOK'
  BY <1>19 DEF CheckBase
<1>20. ASSUME NEW f \in File, CheckFails(c, f) PROVE TypeOK'
  BY <1>20 DEF CheckFails, EnterRollback
<1>21. ASSUME NEW f \in File, Rename(c, f) PROVE TypeOK'
  BY <1>21 DEF Rename
<1>22. ASSUME NEW f \in File, RestoreOpen(c, f) PROVE TypeOK'
  BY <1>22 DEF RestoreOpen
<1>23. ASSUME NEW f \in File, RestoreWrite(c, f) PROVE TypeOK'
  BY <1>23 DEF RestoreWrite
<1>24. ASSUME NEW f \in File, RestoreDelete(c, f) PROVE TypeOK'
  BY <1>24 DEF RestoreDelete
<1>25. ASSUME NEW f \in File, FimOpen(c, f) PROVE TypeOK'
  BY <1>25 DEF FimOpen
<1>26. ASSUME NEW f \in File, FimWrite(c, f) PROVE TypeOK'
  BY <1>26 DEF FimWrite
<1> QED
  BY <1>1, <1>2, <1>3, <1>4, <1>5, <1>6, <1>7, <1>8, <1>9, <1>10, <1>11, <1>12, <1>13,
     <1>14, <1>15, <1>16, <1>17, <1>18, <1>19, <1>20, <1>21, <1>22, <1>23, <1>24, <1>25,
     <1>26 DEF Step

LEMMA TypeNext ==
  ASSUME TypeOK, [Next]_vars
  PROVE  TypeOK'
<1> USE DEF TypeOK, Content, PatchState, Pc, AllKinds
<1>1. ASSUME NEW c \in Call, Step(c) PROVE TypeOK'
  BY <1>1, TypeStep
<1>2. ASSUME NEW c \in Call, NEW k \in AllKinds, NEW fs \in SUBSET File,
             Start(c, k, fs)
      PROVE  TypeOK'
  BY <1>2 DEF Start
<1>3. ASSUME NEW c \in Call, NEW t \in Call, StartRollback(c, t)
      PROVE  TypeOK'
  BY <1>3 DEF StartRollback
<1>4. ASSUME NEW f \in File, NEW v \in {Original, Foreign, Absent},
             ForeignWrite(f, v)
      PROVE  TypeOK'
  BY <1>4 DEF ForeignWrite
<1>5. ASSUME NEW c \in Call, PurgeTemp(c) PROVE TypeOK'
  BY <1>5 DEF PurgeTemp
<1>6. CASE Crash  BY <1>6 DEF Crash
<1>7. CASE UNCHANGED vars  BY <1>7 DEF vars
<1> QED BY <1>1, <1>2, <1>3, <1>4, <1>5, <1>6, <1>7
        DEF Next, Begin, Environment

(* Every variable keeps its type.                                          *)
THEOREM TypeCorrect == Spec => []TypeOK
<1>1. Init => TypeOK
  BY DEF Init, TypeOK, Content, PatchState, Pc, AllKinds
<1>2. TypeOK /\ [Next]_vars => TypeOK'
  BY TypeNext
<1> QED BY <1>1, <1>2, PTL DEF Spec

(***************************************************************************)
(* Where a call stands.                                                    *)
(***************************************************************************)
LEMMA LoopsStep ==
  ASSUME TypeOK, Loops, NEW c \in Call, Step(c), NEW d \in Call
  PROVE  LoopsOf(d)'
<1> USE DEF TypeOK, Loops, LoopsOf
<1>1. CASE Reject(c)  BY <1>1 DEF Reject
<1>2. CASE BeginInit(c)  BY <1>2 DEF BeginInit
<1>3. CASE InitFails(c)  BY <1>3 DEF InitFails
<1>4. CASE PersistJournal(c)  BY <1>4 DEF PersistJournal, Register
<1>5. CASE StageDone(c)  BY <1>5 DEF StageDone, Staged
<1>6. CASE StageFails(c)  BY <1>6 DEF StageFails, EnterRollback
<1>7. CASE VerifyPass(c)  BY <1>7 DEF VerifyPass
<1>8. CASE VerifyReject(c)  BY <1>8 DEF VerifyReject
<1>9. CASE VerifyThrow(c)  BY <1>9 DEF VerifyThrow, EnterRollback
<1>10. CASE RenameFails(c)  BY <1>10 DEF RenameFails, EnterRollback
<1>11. CASE CommitDone(c)  BY <1>11 DEF CommitDone, CommitReturn
<1>12. CASE RestoreDone(c)  BY <1>12 DEF RestoreDone, Finish
<1>13. CASE RestoreFails(c)  BY <1>13 DEF RestoreFails
<1>14. CASE FimFails(c)  BY <1>14 DEF FimFails
<1>15. ASSUME NEW f \in File, Read(c, f) PROVE LoopsOf(d)'
  BY <1>15 DEF Read
<1>16. ASSUME NEW f \in File, ReadMissing(c, f) PROVE LoopsOf(d)'
  BY <1>16 DEF ReadMissing
<1>17. ASSUME NEW f \in File, Snapshot(c, f) PROVE LoopsOf(d)'
  BY <1>17 DEF Snapshot
<1>18. ASSUME NEW f \in File, Stage(c, f) PROVE LoopsOf(d)'
  BY <1>18 DEF Stage
<1>19. ASSUME NEW f \in File, CheckBase(c, f) PROVE LoopsOf(d)'
  BY <1>19 DEF CheckBase
<1>20. ASSUME NEW f \in File, CheckFails(c, f) PROVE LoopsOf(d)'
  BY <1>20 DEF CheckFails, EnterRollback
<1>21. ASSUME NEW f \in File, Rename(c, f) PROVE LoopsOf(d)'
  BY <1>21 DEF Rename
<1>22. ASSUME NEW f \in File, RestoreOpen(c, f) PROVE LoopsOf(d)'
  BY <1>22 DEF RestoreOpen
<1>23. ASSUME NEW f \in File, RestoreWrite(c, f) PROVE LoopsOf(d)'
  BY <1>23 DEF RestoreWrite
<1>24. ASSUME NEW f \in File, RestoreDelete(c, f) PROVE LoopsOf(d)'
  BY <1>24 DEF RestoreDelete
<1>25. ASSUME NEW f \in File, FimOpen(c, f) PROVE LoopsOf(d)'
  BY <1>25 DEF FimOpen
<1>26. ASSUME NEW f \in File, FimWrite(c, f) PROVE LoopsOf(d)'
  BY <1>26 DEF FimWrite
<1> QED
  BY <1>1, <1>2, <1>3, <1>4, <1>5, <1>6, <1>7, <1>8, <1>9, <1>10, <1>11, <1>12, <1>13,
     <1>14, <1>15, <1>16, <1>17, <1>18, <1>19, <1>20, <1>21, <1>22, <1>23, <1>24, <1>25,
     <1>26 DEF Step

(***************************************************************************)
(* The journal covers what calls write.                                    *)
(***************************************************************************)
LEMMA JournaledStep ==
  ASSUME TypeOK, Loops, Journaled, NEW c \in Call, Step(c), NEW d \in Call
  PROVE  JournalOf(d)'
<1> USE DEF TypeOK, Loops, LoopsOf, Journaled, JournalOf
<1>1. CASE Reject(c)  BY <1>1 DEF Reject
<1>2. CASE BeginInit(c)  BY <1>2 DEF BeginInit
<1>3. CASE InitFails(c)  BY <1>3 DEF InitFails
<1>4. CASE PersistJournal(c)  BY <1>4 DEF PersistJournal, Register
<1>5. CASE StageDone(c)  BY <1>5 DEF StageDone, Staged
<1>6. CASE StageFails(c)  BY <1>6 DEF StageFails, EnterRollback
<1>7. CASE VerifyPass(c)  BY <1>7 DEF VerifyPass
<1>8. CASE VerifyReject(c)  BY <1>8 DEF VerifyReject
<1>9. CASE VerifyThrow(c)  BY <1>9 DEF VerifyThrow, EnterRollback
<1>10. CASE RenameFails(c)  BY <1>10 DEF RenameFails, EnterRollback
<1>11. CASE CommitDone(c)  BY <1>11 DEF CommitDone, CommitReturn
<1>12. CASE RestoreDone(c)  BY <1>12 DEF RestoreDone, Finish
<1>13. CASE RestoreFails(c)  BY <1>13 DEF RestoreFails
<1>14. CASE FimFails(c)  BY <1>14 DEF FimFails
<1>15. ASSUME NEW f \in File, Read(c, f) PROVE JournalOf(d)'
  BY <1>15 DEF Read
<1>16. ASSUME NEW f \in File, ReadMissing(c, f) PROVE JournalOf(d)'
  BY <1>16 DEF ReadMissing
<1>17. ASSUME NEW f \in File, Snapshot(c, f) PROVE JournalOf(d)'
  BY <1>17 DEF Snapshot
<1>18. ASSUME NEW f \in File, Stage(c, f) PROVE JournalOf(d)'
  BY <1>18 DEF Stage
<1>19. ASSUME NEW f \in File, CheckBase(c, f) PROVE JournalOf(d)'
  BY <1>19 DEF CheckBase
<1>20. ASSUME NEW f \in File, CheckFails(c, f) PROVE JournalOf(d)'
  BY <1>20 DEF CheckFails, EnterRollback
<1>21. ASSUME NEW f \in File, Rename(c, f) PROVE JournalOf(d)'
  BY <1>21 DEF Rename
<1>22. ASSUME NEW f \in File, RestoreOpen(c, f) PROVE JournalOf(d)'
  BY <1>22 DEF RestoreOpen
<1>23. ASSUME NEW f \in File, RestoreWrite(c, f) PROVE JournalOf(d)'
  BY <1>23 DEF RestoreWrite
<1>24. ASSUME NEW f \in File, RestoreDelete(c, f) PROVE JournalOf(d)'
  BY <1>24 DEF RestoreDelete
<1>25. ASSUME NEW f \in File, FimOpen(c, f) PROVE JournalOf(d)'
  BY <1>25 DEF FimOpen
<1>26. ASSUME NEW f \in File, FimWrite(c, f) PROVE JournalOf(d)'
  BY <1>26 DEF FimWrite
<1> QED
  BY <1>1, <1>2, <1>3, <1>4, <1>5, <1>6, <1>7, <1>8, <1>9, <1>10, <1>11, <1>12, <1>13,
     <1>14, <1>15, <1>16, <1>17, <1>18, <1>19, <1>20, <1>21, <1>22, <1>23, <1>24, <1>25,
     <1>26 DEF Step

LEMMA AuthoredStep ==
  ASSUME TypeOK, Loops, Journaled, Authored, NEW c \in Call, Step(c)
  PROVE  Authored'
<1> USE NamesAssumption DEF TypeOK, Loops, LoopsOf, Journaled, JournalOf, Authored
<1>1. CASE Reject(c)  BY <1>1 DEF Reject
<1>2. CASE BeginInit(c)  BY <1>2 DEF BeginInit
<1>3. CASE InitFails(c)  BY <1>3 DEF InitFails
<1>4. CASE PersistJournal(c)  BY <1>4 DEF PersistJournal, Register
<1>5. CASE StageDone(c)  BY <1>5 DEF StageDone, Staged
<1>6. CASE StageFails(c)  BY <1>6 DEF StageFails, EnterRollback
<1>7. CASE VerifyPass(c)  BY <1>7 DEF VerifyPass
<1>8. CASE VerifyReject(c)  BY <1>8 DEF VerifyReject
<1>9. CASE VerifyThrow(c)  BY <1>9 DEF VerifyThrow, EnterRollback
<1>10. CASE RenameFails(c)  BY <1>10 DEF RenameFails, EnterRollback
<1>11. CASE CommitDone(c)  BY <1>11 DEF CommitDone, CommitReturn
<1>12. CASE RestoreDone(c)  BY <1>12 DEF RestoreDone, Finish
<1>13. CASE RestoreFails(c)  BY <1>13 DEF RestoreFails
<1>14. CASE FimFails(c)  BY <1>14 DEF FimFails
<1>15. ASSUME NEW f \in File, Read(c, f) PROVE Authored'
  BY <1>15 DEF Read
<1>16. ASSUME NEW f \in File, ReadMissing(c, f) PROVE Authored'
  BY <1>16 DEF ReadMissing
<1>17. ASSUME NEW f \in File, Snapshot(c, f) PROVE Authored'
  BY <1>17 DEF Snapshot
<1>18. ASSUME NEW f \in File, Stage(c, f) PROVE Authored'
  BY <1>18 DEF Stage
<1>19. ASSUME NEW f \in File, CheckBase(c, f) PROVE Authored'
  BY <1>19 DEF CheckBase
<1>20. ASSUME NEW f \in File, CheckFails(c, f) PROVE Authored'
  BY <1>20 DEF CheckFails, EnterRollback
<1>21. ASSUME NEW f \in File, Rename(c, f) PROVE Authored'
  <2>1. c \in journal /\ f \in files[c]  BY <1>21 DEF Rename
  <2>2. /\ disk' = [disk EXCEPT ![f] = c]
        /\ UNCHANGED <<snap, journal, files>>
    BY <1>21 DEF Rename
  <2> QED BY <2>1, <2>2
<1>22. ASSUME NEW f \in File, RestoreOpen(c, f) PROVE Authored'
  BY <1>22 DEF RestoreOpen
<1>23. ASSUME NEW f \in File, RestoreWrite(c, f) PROVE Authored'
  BY <1>23 DEF RestoreWrite
<1>24. ASSUME NEW f \in File, RestoreDelete(c, f) PROVE Authored'
  BY <1>24 DEF RestoreDelete
<1>25. ASSUME NEW f \in File, FimOpen(c, f) PROVE Authored'
  BY <1>25 DEF FimOpen
<1>26. ASSUME NEW f \in File, FimWrite(c, f) PROVE Authored'
  <2>1. c \in journal /\ f \in files[c]  BY <1>26 DEF FimWrite
  <2>2. /\ disk' = [disk EXCEPT ![f] = c]
        /\ UNCHANGED <<snap, journal, files>>
    BY <1>26 DEF FimWrite
  <2> QED BY <2>1, <2>2
<1> QED
  BY <1>1, <1>2, <1>3, <1>4, <1>5, <1>6, <1>7, <1>8, <1>9, <1>10, <1>11, <1>12, <1>13,
     <1>14, <1>15, <1>16, <1>17, <1>18, <1>19, <1>20, <1>21, <1>22, <1>23, <1>24, <1>25,
     <1>26 DEF Step

LEMMA TornCoveredStep ==
  ASSUME TypeOK, Loops, Journaled, TornCovered,
         NEW c \in Call, Step(c), NEW g \in File,
         disk'[g] = Torn \/ \E d \in Call : snap'[d][g] = Torn
  PROVE  Whole(g)'
<1> USE NamesAssumption DEF TypeOK, Loops, LoopsOf, Journaled, JournalOf, TornCovered, Whole
<1>1. CASE Reject(c)  BY <1>1 DEF Reject
<1>2. CASE BeginInit(c)  BY <1>2 DEF BeginInit
<1>3. CASE InitFails(c)  BY <1>3 DEF InitFails
<1>4. CASE PersistJournal(c)  BY <1>4 DEF PersistJournal, Register
<1>5. CASE StageDone(c)  BY <1>5 DEF StageDone, Staged
<1>6. CASE StageFails(c)  BY <1>6 DEF StageFails, EnterRollback
<1>7. CASE VerifyPass(c)  BY <1>7 DEF VerifyPass
<1>8. CASE VerifyReject(c)  BY <1>8 DEF VerifyReject
<1>9. CASE VerifyThrow(c)  BY <1>9 DEF VerifyThrow, EnterRollback
<1>10. CASE RenameFails(c)  BY <1>10 DEF RenameFails, EnterRollback
<1>11. CASE CommitDone(c)  BY <1>11 DEF CommitDone, CommitReturn
<1>12. CASE RestoreDone(c)  BY <1>12 DEF RestoreDone, Finish
<1>13. CASE RestoreFails(c)  BY <1>13 DEF RestoreFails
<1>14. CASE FimFails(c)  BY <1>14 DEF FimFails
<1>15. ASSUME NEW f \in File, Read(c, f) PROVE Whole(g)'
  BY <1>15 DEF Read
<1>16. ASSUME NEW f \in File, ReadMissing(c, f) PROVE Whole(g)'
  BY <1>16 DEF ReadMissing
<1>17. ASSUME NEW f \in File, Snapshot(c, f) PROVE Whole(g)'
  BY <1>17 DEF Snapshot
<1>18. ASSUME NEW f \in File, Stage(c, f) PROVE Whole(g)'
  BY <1>18 DEF Stage
<1>19. ASSUME NEW f \in File, CheckBase(c, f) PROVE Whole(g)'
  BY <1>19 DEF CheckBase
<1>20. ASSUME NEW f \in File, CheckFails(c, f) PROVE Whole(g)'
  BY <1>20 DEF CheckFails, EnterRollback
<1>21. ASSUME NEW f \in File, Rename(c, f) PROVE Whole(g)'
  BY <1>21 DEF Rename
<1>22. ASSUME NEW f \in File, RestoreOpen(c, f) PROVE Whole(g)'
  <2>1. target[c] \in journal /\ f \in files[target[c]]
    BY <1>22 DEF RestoreOpen
  <2>2. Whole(f)
    <3>1. CASE snap[target[c]][f] = Torn
      <4>1. target[c] \in Call /\ \E d \in Call : snap[d][f] = Torn  BY <2>1, <3>1
      <4> QED BY <4>1
    <3>2. CASE snap[target[c]][f] # Torn  BY <2>1, <3>2
    <3> QED BY <3>1, <3>2
  <2>3. /\ disk' = [disk EXCEPT ![f] = Torn]
        /\ UNCHANGED <<snap, journal, files>>
    BY <1>22 DEF RestoreOpen
  <2>4. CASE g = f  BY <2>2, <2>3, <2>4
  <2>5. CASE g # f
    <3>1. disk[g] = Torn \/ \E d \in Call : snap[d][g] = Torn
      BY <2>3, <2>5
    <3> QED BY <3>1, <2>3
  <2> QED BY <2>4, <2>5
<1>23. ASSUME NEW f \in File, RestoreWrite(c, f) PROVE Whole(g)'
  <2>1. /\ disk' = [disk EXCEPT ![f] = snap[target[c]][f]]
        /\ UNCHANGED <<snap, journal, files>>
    BY <1>23 DEF RestoreWrite
  <2>2. disk[g] = Torn \/ \E d \in Call : snap[d][g] = Torn  BY <2>1
  <2> QED BY <2>1, <2>2
<1>24. ASSUME NEW f \in File, RestoreDelete(c, f) PROVE Whole(g)'
  BY <1>24 DEF RestoreDelete
<1>25. ASSUME NEW f \in File, FimOpen(c, f) PROVE Whole(g)'
  <2>1. c \in journal /\ f \in files[c]  BY <1>25 DEF FimOpen
  <2>2. Whole(f)
    <3>1. CASE snap[c][f] = Torn
      <4>1. c \in Call /\ \E d \in Call : snap[d][f] = Torn  BY <2>1, <3>1
      <4> QED BY <4>1
    <3>2. CASE snap[c][f] # Torn  BY <2>1, <3>2
    <3> QED BY <3>1, <3>2
  <2>3. /\ disk' = [disk EXCEPT ![f] = Torn]
        /\ UNCHANGED <<snap, journal, files>>
    BY <1>25 DEF FimOpen
  <2>4. CASE g = f  BY <2>2, <2>3, <2>4
  <2>5. CASE g # f
    <3>1. disk[g] = Torn \/ \E d \in Call : snap[d][g] = Torn
      BY <2>3, <2>5
    <3> QED BY <3>1, <2>3
  <2> QED BY <2>4, <2>5
<1>26. ASSUME NEW f \in File, FimWrite(c, f) PROVE Whole(g)'
  BY <1>26 DEF FimWrite
<1> QED
  BY <1>1, <1>2, <1>3, <1>4, <1>5, <1>6, <1>7, <1>8, <1>9, <1>10, <1>11, <1>12, <1>13,
     <1>14, <1>15, <1>16, <1>17, <1>18, <1>19, <1>20, <1>21, <1>22, <1>23, <1>24, <1>25,
     <1>26 DEF Step

LEMMA JournalInvNext ==
  ASSUME JournalInv, [Next]_vars
  PROVE  JournalInv'
<1> USE NamesAssumption DEF TypeOK
<1>0. TypeOK /\ TypeOK' /\ Loops /\ Journaled /\ Authored /\ TornCovered
  BY TypeNext DEF JournalInv
<1> USE <1>0
<1>1. ASSUME NEW c \in Call, Step(c) PROVE JournalInv'
  <2>1. Loops'  BY <1>1, LoopsStep DEF Loops
  <2>2. Journaled'  BY <1>1, JournaledStep DEF Journaled
  <2>3. Authored'  BY <1>1, AuthoredStep
  <2>4. TornCovered'  BY <1>1, TornCoveredStep DEF TornCovered
  <2> QED BY <2>1, <2>2, <2>3, <2>4 DEF JournalInv
<1>2. ASSUME NEW c \in Call, NEW k \in AllKinds, NEW fs \in SUBSET File,
             Start(c, k, fs)
      PROVE  JournalInv'
  <2>1. Loops'  BY <1>2 DEF Loops, LoopsOf, Journaled, JournalOf, Start, AllKinds
  <2>2. Journaled'  BY <1>2 DEF Journaled, JournalOf, Loops, LoopsOf, Start, AllKinds
  <2>3. Authored'
    BY <1>2 DEF Authored, Loops, LoopsOf, Journaled, JournalOf, Start, AllKinds
  <2>4. TornCovered'
    BY <1>2 DEF TornCovered, Whole, Loops, LoopsOf, Journaled, JournalOf, Start,
       AllKinds
  <2> QED BY <2>1, <2>2, <2>3, <2>4 DEF JournalInv
<1>3. ASSUME NEW c \in Call, NEW t \in Call, StartRollback(c, t)
      PROVE  JournalInv'
  <2>1. Loops'  BY <1>3 DEF Loops, LoopsOf, Journaled, JournalOf, StartRollback
  <2>2. Journaled'  BY <1>3 DEF Journaled, JournalOf, Loops, LoopsOf, StartRollback
  <2>3. Authored'  BY <1>3 DEF Authored, Loops, LoopsOf, Journaled, JournalOf, StartRollback
  <2>4. TornCovered'
    BY <1>3 DEF TornCovered, Whole, Loops, LoopsOf, Journaled, JournalOf, StartRollback
  <2> QED BY <2>1, <2>2, <2>3, <2>4 DEF JournalInv
<1>4. ASSUME NEW f \in File, NEW v \in {Original, Foreign, Absent},
             ForeignWrite(f, v)
      PROVE  JournalInv'
  <2>1. Loops'  BY <1>4 DEF Loops, LoopsOf, Journaled, JournalOf, ForeignWrite
  <2>2. Journaled'  BY <1>4 DEF Journaled, JournalOf, Loops, LoopsOf, ForeignWrite
  <2>3. Authored'  BY <1>4 DEF Authored, Loops, LoopsOf, Journaled, JournalOf, ForeignWrite
  <2>4. TornCovered'
    BY <1>4 DEF TornCovered, Whole, Loops, LoopsOf, Journaled, JournalOf, ForeignWrite
  <2> QED BY <2>1, <2>2, <2>3, <2>4 DEF JournalInv
<1>5. ASSUME NEW c \in Call, PurgeTemp(c) PROVE JournalInv'
  <2>1. Loops'  BY <1>5 DEF Loops, LoopsOf, Journaled, JournalOf, PurgeTemp
  <2>2. Journaled'  BY <1>5 DEF Journaled, JournalOf, Loops, LoopsOf, PurgeTemp
  <2>3. Authored'  BY <1>5 DEF Authored, Loops, LoopsOf, Journaled, JournalOf, PurgeTemp
  <2>4. TornCovered'
    BY <1>5 DEF TornCovered, Whole, Loops, LoopsOf, Journaled, JournalOf, PurgeTemp
  <2> QED BY <2>1, <2>2, <2>3, <2>4 DEF JournalInv
<1>6. CASE Crash
  <2>1. Loops'  BY <1>6 DEF Loops, LoopsOf, Journaled, JournalOf, Crash
  <2>2. Journaled'  BY <1>6 DEF Journaled, JournalOf, Loops, LoopsOf, Crash
  <2>3. Authored'  BY <1>6 DEF Authored, Loops, LoopsOf, Journaled, JournalOf, Crash
  <2>4. TornCovered'
    BY <1>6 DEF TornCovered, Whole, Loops, LoopsOf, Journaled, JournalOf, Crash
  <2> QED BY <2>1, <2>2, <2>3, <2>4 DEF JournalInv
<1>7. CASE UNCHANGED vars
  <2>1. Loops'  BY <1>7 DEF Loops, LoopsOf, Journaled, JournalOf, vars
  <2>2. Journaled'  BY <1>7 DEF Journaled, JournalOf, Loops, LoopsOf, vars
  <2>3. Authored'  BY <1>7 DEF Authored, Loops, LoopsOf, Journaled, JournalOf, vars
  <2>4. TornCovered'
    BY <1>7 DEF TornCovered, Whole, Loops, LoopsOf, Journaled, JournalOf, vars
  <2> QED BY <2>1, <2>2, <2>3, <2>4 DEF JournalInv
<1> QED BY <1>1, <1>2, <1>3, <1>4, <1>5, <1>6, <1>7
        DEF Next, Begin, Environment

LEMMA JournalInit == Init => JournalInv
<1> SUFFICES ASSUME Init PROVE JournalInv  OBVIOUS
<1>1. TypeOK  BY DEF Init, TypeOK, Content, PatchState, Pc, AllKinds
<1>2. Loops /\ Journaled
  BY DEF Init, Loops, LoopsOf, Journaled, JournalOf
<1>3. Authored /\ TornCovered
  BY NamesAssumption DEF Init, Authored, TornCovered
<1> QED BY <1>1, <1>2, <1>3 DEF JournalInv

(* Whatever a call has put on disk can be undone: the journal covers it.   *)
THEOREM JournalBeforeWrite == Spec => []WriteAhead
<1>1. Init => JournalInv
  BY JournalInit
<1>2. JournalInv /\ [Next]_vars => JournalInv'
  BY JournalInvNext
<1>3. JournalInv => WriteAhead
  BY DEF JournalInv, TypeOK, Authored, TornCovered, Whole, WriteAhead
<1> QED BY <1>1, <1>2, <1>3, PTL DEF Spec

(***************************************************************************)
(* Nothing of a rolled back call is left.                                  *)
(***************************************************************************)
LEMMA ExclusionStep ==
  ASSUME TypeOK, Exclusion, NEW c \in Call, Step(c)
  PROVE  Exclusion'
<1> USE NamesAssumption DEF TypeOK, Exclusion, SyncPc
<1>1. CASE Reject(c)  BY <1>1 DEF Reject
<1>2. CASE BeginInit(c)  BY <1>2 DEF BeginInit
<1>3. CASE InitFails(c)  BY <1>3 DEF InitFails
<1>4. CASE PersistJournal(c)  BY <1>4 DEF PersistJournal, Register
<1>5. CASE StageDone(c)  BY <1>5 DEF StageDone, Staged
<1>6. CASE StageFails(c)  BY <1>6 DEF StageFails, EnterRollback
<1>7. CASE VerifyPass(c)  BY <1>7 DEF VerifyPass
<1>8. CASE VerifyReject(c)  BY <1>8 DEF VerifyReject
<1>9. CASE VerifyThrow(c)  BY <1>9 DEF VerifyThrow, EnterRollback
<1>10. CASE RenameFails(c)  BY <1>10 DEF RenameFails, EnterRollback
<1>11. CASE CommitDone(c)  BY <1>11 DEF CommitDone, CommitReturn
<1>12. CASE RestoreDone(c)  BY <1>12 DEF RestoreDone, Finish
<1>13. CASE RestoreFails(c)  BY <1>13 DEF RestoreFails
<1>14. CASE FimFails(c)  BY <1>14 DEF FimFails
<1>15. ASSUME NEW f \in File, Read(c, f) PROVE Exclusion'
  BY <1>15 DEF Read
<1>16. ASSUME NEW f \in File, ReadMissing(c, f) PROVE Exclusion'
  BY <1>16 DEF ReadMissing
<1>17. ASSUME NEW f \in File, Snapshot(c, f) PROVE Exclusion'
  BY <1>17 DEF Snapshot
<1>18. ASSUME NEW f \in File, Stage(c, f) PROVE Exclusion'
  BY <1>18 DEF Stage
<1>19. ASSUME NEW f \in File, CheckBase(c, f) PROVE Exclusion'
  BY <1>19 DEF CheckBase
<1>20. ASSUME NEW f \in File, CheckFails(c, f) PROVE Exclusion'
  BY <1>20 DEF CheckFails, EnterRollback
<1>21. ASSUME NEW f \in File, Rename(c, f) PROVE Exclusion'
  BY <1>21 DEF Rename
<1>22. ASSUME NEW f \in File, RestoreOpen(c, f) PROVE Exclusion'
  BY <1>22 DEF RestoreOpen
<1>23. ASSUME NEW f \in File, RestoreWrite(c, f) PROVE Exclusion'
  BY <1>23 DEF RestoreWrite
<1>24. ASSUME NEW f \in File, RestoreDelete(c, f) PROVE Exclusion'
  BY <1>24 DEF RestoreDelete
<1>25. ASSUME NEW f \in File, FimOpen(c, f) PROVE Exclusion'
  BY <1>25 DEF FimOpen
<1>26. ASSUME NEW f \in File, FimWrite(c, f) PROVE Exclusion'
  BY <1>26 DEF FimWrite
<1> QED
  BY <1>1, <1>2, <1>3, <1>4, <1>5, <1>6, <1>7, <1>8, <1>9, <1>10, <1>11, <1>12, <1>13,
     <1>14, <1>15, <1>16, <1>17, <1>18, <1>19, <1>20, <1>21, <1>22, <1>23, <1>24, <1>25,
     <1>26 DEF Step

LEMMA ContainedStep ==
  ASSUME JournalInv, Exclusion, Contained, NEW c \in Call, Step(c),
         NEW d \in Call, Pending(d)', NEW g \in File
  PROVE  ContainedAt(d, g)'
<1> USE NamesAssumption DEF JournalInv, TypeOK, Exclusion, SyncPc, Loops, LoopsOf,
   Journaled, JournalOf,
           Authored, Contained, ContainedAt, Pending
<1>1. CASE Reject(c)  BY <1>1 DEF Reject
<1>2. CASE BeginInit(c)  BY <1>2 DEF BeginInit
<1>3. CASE InitFails(c)  BY <1>3 DEF InitFails
<1>4. CASE PersistJournal(c)  BY <1>4 DEF PersistJournal, Register
<1>5. CASE StageDone(c)  BY <1>5 DEF StageDone, Staged
<1>6. CASE StageFails(c)  BY <1>6 DEF StageFails, EnterRollback
<1>7. CASE VerifyPass(c)  BY <1>7 DEF VerifyPass
<1>8. CASE VerifyReject(c)  BY <1>8 DEF VerifyReject
<1>9. CASE VerifyThrow(c)  BY <1>9 DEF VerifyThrow, EnterRollback
<1>10. CASE RenameFails(c)
  <2>1. disk[g] = d => g \in files[d]  OBVIOUS
  <2>2. /\ UNCHANGED <<disk, snap, kind, files, state, halted>>
        /\ pc' = [pc EXCEPT ![c] = "restoring"]
        /\ todo' = [todo EXCEPT ![c] = files[c]]
        /\ pc[c] \in {"committing", "renaming"} /\ kind[c] # "rollback"
    BY <1>10 DEF RenameFails, EnterRollback
  <2> QED BY <2>1, <2>2
<1>11. CASE CommitDone(c)  BY <1>11 DEF CommitDone, CommitReturn
<1>12. CASE RestoreDone(c)  BY <1>12 DEF RestoreDone, Finish
<1>13. CASE RestoreFails(c)  BY <1>13 DEF RestoreFails
<1>14. CASE FimFails(c)  BY <1>14 DEF FimFails
<1>15. ASSUME NEW f \in File, Read(c, f) PROVE ContainedAt(d, g)'
  BY <1>15 DEF Read
<1>16. ASSUME NEW f \in File, ReadMissing(c, f) PROVE ContainedAt(d, g)'
  BY <1>16 DEF ReadMissing
<1>17. ASSUME NEW f \in File, Snapshot(c, f) PROVE ContainedAt(d, g)'
  BY <1>17 DEF Snapshot
<1>18. ASSUME NEW f \in File, Stage(c, f) PROVE ContainedAt(d, g)'
  BY <1>18 DEF Stage
<1>19. ASSUME NEW f \in File, CheckBase(c, f) PROVE ContainedAt(d, g)'
  BY <1>19 DEF CheckBase
<1>20. ASSUME NEW f \in File, CheckFails(c, f) PROVE ContainedAt(d, g)'
  <2>1. disk[g] = d => g \in files[d]  OBVIOUS
  <2>2. /\ UNCHANGED <<disk, snap, kind, files, state, halted>>
        /\ pc' = [pc EXCEPT ![c] = "restoring"]
        /\ todo' = [todo EXCEPT ![c] = files[c]]
        /\ pc[c] \in {"committing", "renaming"} /\ kind[c] # "rollback"
    BY <1>20 DEF CheckFails, EnterRollback
  <2> QED BY <2>1, <2>2
<1>21. ASSUME NEW f \in File, Rename(c, f) PROVE ContainedAt(d, g)'
  BY <1>21 DEF Rename
<1>22. ASSUME NEW f \in File, RestoreOpen(c, f) PROVE ContainedAt(d, g)'
  BY <1>22 DEF RestoreOpen
<1>23. ASSUME NEW f \in File, RestoreWrite(c, f) PROVE ContainedAt(d, g)'
  BY <1>23 DEF RestoreWrite
<1>24. ASSUME NEW f \in File, RestoreDelete(c, f) PROVE ContainedAt(d, g)'
  BY <1>24 DEF RestoreDelete
<1>25. ASSUME NEW f \in File, FimOpen(c, f) PROVE ContainedAt(d, g)'
  BY <1>25 DEF FimOpen
<1>26. ASSUME NEW f \in File, FimWrite(c, f) PROVE ContainedAt(d, g)'
  BY <1>26 DEF FimWrite
<1> QED
  BY <1>1, <1>2, <1>3, <1>4, <1>5, <1>6, <1>7, <1>8, <1>9, <1>10, <1>11, <1>12, <1>13,
     <1>14, <1>15, <1>16, <1>17, <1>18, <1>19, <1>20, <1>21, <1>22, <1>23, <1>24, <1>25,
     <1>26 DEF Step

LEMMA ResidueInvNext ==
  ASSUME ResidueInv, [Next]_vars
  PROVE  ResidueInv'
<1> USE NamesAssumption DEF TypeOK
<1>0. TypeOK /\ TypeOK' /\ JournalInv /\ Exclusion /\ Contained
  BY TypeNext DEF ResidueInv, JournalInv
<1> USE <1>0
<1>1. ASSUME NEW c \in Call, Step(c) PROVE ResidueInv'
  <2>1. JournalInv'  BY JournalInvNext
  <2>2. Exclusion'  BY <1>1, ExclusionStep DEF JournalInv
  <2>3. Contained'  BY <1>1, ContainedStep DEF Contained
  <2> QED BY <2>1, <2>2, <2>3 DEF ResidueInv
<1>2. ASSUME NEW c \in Call, NEW k \in AllKinds, NEW fs \in SUBSET File,
             Start(c, k, fs)
      PROVE  ResidueInv'
  <2>1. JournalInv'  BY JournalInvNext
  <2>2. Exclusion'  BY <1>2 DEF Exclusion, SyncPc, Start, AllKinds
  <2>3. Contained'
    BY <1>2 DEF Contained, ContainedAt, Pending, Exclusion, SyncPc, JournalInv, Loops,
       LoopsOf, Journaled, JournalOf, Authored, Start, AllKinds
  <2> QED BY <2>1, <2>2, <2>3 DEF ResidueInv
<1>3. ASSUME NEW c \in Call, NEW t \in Call, StartRollback(c, t)
      PROVE  ResidueInv'
  <2>1. JournalInv'  BY JournalInvNext
  <2>2. Exclusion'  BY <1>3 DEF Exclusion, SyncPc, StartRollback
  <2>3. Contained'
    BY <1>3 DEF Contained, ContainedAt, Pending, Exclusion, SyncPc, JournalInv, Loops,
       LoopsOf, Journaled, JournalOf, Authored, StartRollback
  <2> QED BY <2>1, <2>2, <2>3 DEF ResidueInv
<1>4. ASSUME NEW f \in File, NEW v \in {Original, Foreign, Absent},
             ForeignWrite(f, v)
      PROVE  ResidueInv'
  <2>1. JournalInv'  BY JournalInvNext
  <2>2. Exclusion'  BY <1>4 DEF Exclusion, SyncPc, ForeignWrite
  <2>3. Contained'
    BY <1>4 DEF Contained, ContainedAt, Pending, Exclusion, SyncPc, JournalInv, Loops,
       LoopsOf, Journaled, JournalOf, Authored, ForeignWrite
  <2> QED BY <2>1, <2>2, <2>3 DEF ResidueInv
<1>5. ASSUME NEW c \in Call, PurgeTemp(c) PROVE ResidueInv'
  <2>1. JournalInv'  BY JournalInvNext
  <2>2. Exclusion'  BY <1>5 DEF Exclusion, SyncPc, PurgeTemp
  <2>3. Contained'
    BY <1>5 DEF Contained, ContainedAt, Pending, Exclusion, SyncPc, JournalInv, Loops,
       LoopsOf, Journaled, JournalOf, Authored, PurgeTemp
  <2> QED BY <2>1, <2>2, <2>3 DEF ResidueInv
<1>6. CASE Crash
  <2>1. JournalInv'  BY JournalInvNext
  <2>2. Exclusion'  BY <1>6 DEF Exclusion, SyncPc, Crash
  <2>3. Contained'
    BY <1>6 DEF Contained, ContainedAt, Pending, Exclusion, SyncPc, JournalInv, Loops,
       LoopsOf, Journaled, JournalOf, Authored, Crash
  <2> QED BY <2>1, <2>2, <2>3 DEF ResidueInv
<1>7. CASE UNCHANGED vars
  <2>1. JournalInv'  BY JournalInvNext
  <2>2. Exclusion'  BY <1>7 DEF Exclusion, SyncPc, vars
  <2>3. Contained'
    BY <1>7 DEF Contained, ContainedAt, Pending, Exclusion, SyncPc, JournalInv, Loops,
       LoopsOf, Journaled, JournalOf, Authored, vars
  <2> QED BY <2>1, <2>2, <2>3 DEF ResidueInv
<1> QED BY <1>1, <1>2, <1>3, <1>4, <1>5, <1>6, <1>7
        DEF Next, Begin, Environment

LEMMA ResidueInit == Init => ResidueInv
<1> SUFFICES ASSUME Init PROVE ResidueInv  OBVIOUS
<1>1. JournalInv  BY JournalInit
<1>2. Exclusion  BY NamesAssumption DEF Init, Exclusion, SyncPc
<1>3. Contained  BY NamesAssumption DEF Init, Contained, ContainedAt
<1> QED BY <1>1, <1>2, <1>3 DEF ResidueInv

(* A call that was rolled back without an error in its restore has left    *)
(* nothing of its content on disk or in a snapshot.                        *)
THEOREM RolledBackLeavesNothing == Spec => []NoResidue
<1>1. Init => ResidueInv
  BY ResidueInit
<1>2. ResidueInv /\ [Next]_vars => ResidueInv'
  BY ResidueInvNext
<1>3. ResidueInv => NoResidue
  BY DEF ResidueInv, JournalInv, TypeOK, Loops, LoopsOf, Contained,
         ContainedAt, Pending, NoResidue
<1> QED BY <1>1, <1>2, <1>3, PTL DEF Spec
(***************************************************************************)
(* Action properties of the synchronous stretches, and the lifecycle.      *)
(***************************************************************************)

(* The state of a managed transaction follows from where its call is, and  *)
(* only a call that has returned has stopped in its restore.               *)
StageOf(c) ==
  /\ pc[c] = "staging" => state[c] = "proposed"
  /\ pc[c] = "verifying" => state[c] = "applied_to_temp"
  /\ pc[c] \in {"committing", "renaming"} => state[c] = "verified"
  /\ pc[c] \in {"restoring", "rewriting"} /\ kind[c] # "rollback"
       => state[c] \in {"proposed", "applied_to_temp", "verified"}
  /\ c \in halted => pc[c] = "done"

Stages == \A c \in Call : StageOf(c)

(* What the three loops have done so far while nothing else writes.        *)
BasedOf(c) ==
  pc[c] = "renaming" /\ seen[c][cur[c]] # Absent =>
    disk[cur[c]] \in {seen[c][cur[c]], Absent} \/ faults > 0

RenamedOf(c) ==
  pc[c] \in {"committing", "renaming"} =>
    \A f \in files[c] \ todo[c] : disk[f] = c

RestoredOf(c) ==
  pc[c] \in {"restoring", "rewriting"} =>
    \A f \in files[target[c]] \ todo[c] : disk[f] = snap[target[c]][f]

LoopsSoFar(c) == BasedOf(c) /\ RenamedOf(c) /\ RestoredOf(c)
Alone == Undisturbed => \A c \in Call : LoopsSoFar(c)

LEMMA StagesStep ==
  ASSUME TypeOK, Loops, Stages, NEW c \in Call, Step(c), NEW d \in Call
  PROVE  StageOf(d)'
<1> USE DEF TypeOK, Loops, LoopsOf, Stages, StageOf
<1>1. CASE Reject(c)  BY <1>1 DEF Reject
<1>2. CASE BeginInit(c)  BY <1>2 DEF BeginInit
<1>3. CASE InitFails(c)  BY <1>3 DEF InitFails
<1>4. CASE PersistJournal(c)  BY <1>4 DEF PersistJournal, Register
<1>5. CASE StageDone(c)  BY <1>5 DEF StageDone, Staged
<1>6. CASE StageFails(c)  BY <1>6 DEF StageFails, EnterRollback
<1>7. CASE VerifyPass(c)  BY <1>7 DEF VerifyPass
<1>8. CASE VerifyReject(c)  BY <1>8 DEF VerifyReject
<1>9. CASE VerifyThrow(c)  BY <1>9 DEF VerifyThrow, EnterRollback
<1>10. CASE RenameFails(c)  BY <1>10 DEF RenameFails, EnterRollback
<1>11. CASE CommitDone(c)  BY <1>11 DEF CommitDone, CommitReturn
<1>12. CASE RestoreDone(c)  BY <1>12 DEF RestoreDone, Finish
<1>13. CASE RestoreFails(c)  BY <1>13 DEF RestoreFails
<1>14. CASE FimFails(c)  BY <1>14 DEF FimFails
<1>15. ASSUME NEW f \in File, Read(c, f) PROVE StageOf(d)'
  BY <1>15 DEF Read
<1>16. ASSUME NEW f \in File, ReadMissing(c, f) PROVE StageOf(d)'
  BY <1>16 DEF ReadMissing
<1>17. ASSUME NEW f \in File, Snapshot(c, f) PROVE StageOf(d)'
  BY <1>17 DEF Snapshot
<1>18. ASSUME NEW f \in File, Stage(c, f) PROVE StageOf(d)'
  BY <1>18 DEF Stage
<1>19. ASSUME NEW f \in File, CheckBase(c, f) PROVE StageOf(d)'
  BY <1>19 DEF CheckBase
<1>20. ASSUME NEW f \in File, CheckFails(c, f) PROVE StageOf(d)'
  BY <1>20 DEF CheckFails, EnterRollback
<1>21. ASSUME NEW f \in File, Rename(c, f) PROVE StageOf(d)'
  BY <1>21 DEF Rename
<1>22. ASSUME NEW f \in File, RestoreOpen(c, f) PROVE StageOf(d)'
  BY <1>22 DEF RestoreOpen
<1>23. ASSUME NEW f \in File, RestoreWrite(c, f) PROVE StageOf(d)'
  BY <1>23 DEF RestoreWrite
<1>24. ASSUME NEW f \in File, RestoreDelete(c, f) PROVE StageOf(d)'
  BY <1>24 DEF RestoreDelete
<1>25. ASSUME NEW f \in File, FimOpen(c, f) PROVE StageOf(d)'
  BY <1>25 DEF FimOpen
<1>26. ASSUME NEW f \in File, FimWrite(c, f) PROVE StageOf(d)'
  BY <1>26 DEF FimWrite
<1> QED
  BY <1>1, <1>2, <1>3, <1>4, <1>5, <1>6, <1>7, <1>8, <1>9, <1>10, <1>11, <1>12, <1>13,
     <1>14, <1>15, <1>16, <1>17, <1>18, <1>19, <1>20, <1>21, <1>22, <1>23, <1>24, <1>25,
     <1>26 DEF Step

LEMMA StagesNext ==
  ASSUME TypeOK, Loops, Stages, [Next]_vars
  PROVE  Stages'
<1> USE DEF TypeOK, Loops, LoopsOf
<1>1. ASSUME NEW c \in Call, Step(c) PROVE Stages'
  BY <1>1, StagesStep DEF Stages
<1>2. ASSUME NEW c \in Call, NEW k \in AllKinds, NEW fs \in SUBSET File,
             Start(c, k, fs)
      PROVE  Stages'
  BY <1>2 DEF Start, Stages, StageOf
<1>3. ASSUME NEW c \in Call, NEW t \in Call, StartRollback(c, t)
      PROVE  Stages'
  BY <1>3 DEF StartRollback, Stages, StageOf
<1>4. ASSUME NEW f \in File, NEW v \in {Original, Foreign, Absent},
             ForeignWrite(f, v)
      PROVE  Stages'
  BY <1>4 DEF ForeignWrite, Stages, StageOf
<1>5. ASSUME NEW c \in Call, PurgeTemp(c) PROVE Stages'
  BY <1>5 DEF PurgeTemp, Stages, StageOf
<1>6. CASE Crash  BY <1>6 DEF Crash, Stages, StageOf
<1>7. CASE UNCHANGED vars  BY <1>7 DEF vars, Stages, StageOf
<1> QED BY <1>1, <1>2, <1>3, <1>4, <1>5, <1>6, <1>7
        DEF Next, Begin, Environment

(* While a call is in a synchronous stretch, the others can only read.     *)
LEMMA OthersRead ==
  ASSUME TypeOK, Loops, Exclusion, Undisturbed,
         NEW c \in Call, pc[c] \in SyncPc, NEW d \in Call, d # c, Step(d)
  PROVE  /\ UNCHANGED <<disk, snap, pc, kind, files, target, cur, faults>>
         /\ seen'[c] = seen[c] /\ todo'[c] = todo[c]
<1> USE NamesAssumption DEF TypeOK, Exclusion
<1>1. thread = c /\ pc[d] \notin SyncPc  OBVIOUS
<1>2. pc[d] \notin {"fimopen", "fimwrite"}
  BY DEF Loops, LoopsOf, Undisturbed
<1>3. \E f \in File : Read(d, f)
  BY <1>1, <1>2 DEF Step, SyncPc, Reject, BeginInit, InitFails, PersistJournal, StageDone,
     Staged, StageFails, VerifyPass, VerifyReject, VerifyThrow, RenameFails, CommitDone,
     CommitReturn, RestoreDone, RestoreFails, FimFails, ReadMissing, Snapshot, Stage,
     CheckBase, CheckFails, Rename, RestoreOpen, RestoreWrite, RestoreDelete, FimOpen,
     FimWrite
<1> QED BY <1>3 DEF Read

(* A rollback starts with every file still to be restored.                 *)
LEMMA RollbackStarts ==
  ASSUME TypeOK, Loops, NEW c \in Call, EnterRollback(c),
         pc[c] \in {"staging", "verifying", "committing", "renaming"}
  PROVE  LoopsSoFar(c)'
<1>1. target'[c] = c
  BY DEF Loops, LoopsOf, EnterRollback
<1>2. pc'[c] = "restoring" /\ todo'[c] = files'[c]
  BY DEF EnterRollback, TypeOK
<1> QED BY <1>1, <1>2 DEF LoopsSoFar, BasedOf, RenamedOf, RestoredOf

(* The call that is on the thread.                                         *)
LEMMA OwnLoop ==
  ASSUME TypeOK, Loops, NEW c \in Call, LoopsSoFar(c), Step(c)
  PROVE  LoopsSoFar(c)'
<1> USE NamesAssumption DEF TypeOK, Loops, LoopsOf, LoopsSoFar, BasedOf, RenamedOf, RestoredOf
<1>1. CASE Reject(c)  BY <1>1 DEF Reject
<1>2. CASE BeginInit(c)  BY <1>2 DEF BeginInit
<1>3. CASE InitFails(c)  BY <1>3 DEF InitFails
<1>4. CASE PersistJournal(c)  BY <1>4 DEF PersistJournal, Register
<1>5. CASE StageDone(c)  BY <1>5 DEF StageDone, Staged
<1>6. CASE StageFails(c)  BY <1>6, RollbackStarts DEF StageFails
<1>7. CASE VerifyPass(c)  BY <1>7 DEF VerifyPass
<1>8. CASE VerifyReject(c)  BY <1>8 DEF VerifyReject
<1>9. CASE VerifyThrow(c)  BY <1>9, RollbackStarts DEF VerifyThrow
<1>10. CASE RenameFails(c)  BY <1>10, RollbackStarts DEF RenameFails
<1>11. CASE CommitDone(c)  BY <1>11 DEF CommitDone, CommitReturn
<1>12. CASE RestoreDone(c)  BY <1>12 DEF RestoreDone, Finish
<1>13. CASE RestoreFails(c)  BY <1>13 DEF RestoreFails
<1>14. CASE FimFails(c)  BY <1>14 DEF FimFails
<1>15. ASSUME NEW f \in File, Read(c, f) PROVE LoopsSoFar(c)'
  BY <1>15 DEF Read
<1>16. ASSUME NEW f \in File, ReadMissing(c, f) PROVE LoopsSoFar(c)'
  BY <1>16 DEF ReadMissing
<1>17. ASSUME NEW f \in File, Snapshot(c, f) PROVE LoopsSoFar(c)'
  BY <1>17 DEF Snapshot
<1>18. ASSUME NEW f \in File, Stage(c, f) PROVE LoopsSoFar(c)'
  BY <1>18 DEF Stage
<1>19. ASSUME NEW f \in File, CheckBase(c, f) PROVE LoopsSoFar(c)'
  <2>1. BasedOf(c)'  BY <1>19 DEF CheckBase, HashMatches
  <2>2. RenamedOf(c)' /\ RestoredOf(c)'  BY <1>19 DEF CheckBase
  <2> QED BY <2>1, <2>2
<1>20. ASSUME NEW f \in File, CheckFails(c, f) PROVE LoopsSoFar(c)'
  BY <1>20, RollbackStarts DEF CheckFails
<1>21. ASSUME NEW f \in File, Rename(c, f) PROVE LoopsSoFar(c)'
  BY <1>21 DEF Rename
<1>22. ASSUME NEW f \in File, RestoreOpen(c, f) PROVE LoopsSoFar(c)'
  BY <1>22 DEF RestoreOpen
<1>23. ASSUME NEW f \in File, RestoreWrite(c, f) PROVE LoopsSoFar(c)'
  BY <1>23 DEF RestoreWrite
<1>24. ASSUME NEW f \in File, RestoreDelete(c, f) PROVE LoopsSoFar(c)'
  BY <1>24 DEF RestoreDelete
<1>25. ASSUME NEW f \in File, FimOpen(c, f) PROVE LoopsSoFar(c)'
  BY <1>25 DEF FimOpen
<1>26. ASSUME NEW f \in File, FimWrite(c, f) PROVE LoopsSoFar(c)'
  BY <1>26 DEF FimWrite
<1> QED
  BY <1>1, <1>2, <1>3, <1>4, <1>5, <1>6, <1>7, <1>8, <1>9, <1>10, <1>11, <1>12, <1>13,
     <1>14, <1>15, <1>16, <1>17, <1>18, <1>19, <1>20, <1>21, <1>22, <1>23, <1>24, <1>25,
     <1>26 DEF Step

(* Undisturbed cannot come back once it is lost.                           *)
LEMMA StaysDisturbed ==
  ASSUME TypeOK, Loops, [Next]_vars, Undisturbed'
  PROVE  Undisturbed
<1> USE DEF TypeOK, Undisturbed
<1>1. foreign = 0
  <2>1. foreign' = foreign \/ foreign' = foreign + 1
    BY DEF Next, Begin, Start, StartRollback, Environment, ForeignWrite, PurgeTemp, Crash,
       vars, Step, Reject, BeginInit, InitFails, PersistJournal, StageDone, Register,
       Staged, StageFails, VerifyPass, VerifyReject, VerifyThrow, RenameFails, CommitDone,
       CommitReturn, RestoreDone, RestoreFails, FimFails, ReadMissing, Snapshot, Stage,
       CheckBase, CheckFails, Rename, RestoreOpen, RestoreWrite, RestoreDelete, FimOpen,
       FimWrite, EnterRollback, Read
  <2> QED BY <2>1
<1>2. ASSUME NEW c \in Call PROVE kind[c] # "fim"
  <2>1. kind' = kind \/ kind[c] = "none" \/ kind'[c] = kind[c]
    BY DEF Next, Begin, Start, StartRollback, Environment, ForeignWrite, PurgeTemp, Crash,
       vars, Step, Reject, BeginInit, InitFails, PersistJournal, StageDone, Register,
       Staged, StageFails, VerifyPass, VerifyReject, VerifyThrow, RenameFails, CommitDone,
       CommitReturn, RestoreDone, RestoreFails, FimFails, ReadMissing, Snapshot, Stage,
       CheckBase, CheckFails, Rename, RestoreOpen, RestoreWrite, RestoreDelete, FimOpen,
       FimWrite, EnterRollback, Read, Loops, LoopsOf
  <2> QED BY <2>1
<1> QED BY <1>1, <1>2

LEMMA AloneNext ==
  ASSUME TypeOK, Loops, Journaled, Exclusion, Alone, [Next]_vars
  PROVE  Alone'
<1> SUFFICES ASSUME Undisturbed', NEW c \in Call PROVE LoopsSoFar(c)'
  BY DEF Alone
<1>0. Undisturbed /\ LoopsSoFar(c)
  BY StaysDisturbed DEF Alone
<1>1. ASSUME NEW d \in Call, Step(d) PROVE LoopsSoFar(c)'
  <2>1. CASE d = c  BY <1>0, <1>1, <2>1, OwnLoop
  <2>2. CASE d # c /\ pc[c] \in SyncPc
    <3>1. /\ UNCHANGED <<disk, snap, pc, kind, files, target, cur, faults>>
          /\ seen'[c] = seen[c] /\ todo'[c] = todo[c]
      BY <1>0, <1>1, <2>2, OthersRead
    <3> QED BY <1>0, <3>1 DEF LoopsSoFar, BasedOf, RenamedOf, RestoredOf
  <2>3. CASE d # c /\ pc[c] \notin SyncPc
    <3>1. pc'[c] = pc[c]
      BY <1>1, <2>3 DEF TypeOK, Step, Reject, BeginInit, InitFails, PersistJournal,
         StageDone, Register, Staged, StageFails, VerifyPass, VerifyReject, VerifyThrow,
         RenameFails, CommitDone, CommitReturn, RestoreDone, Finish, RestoreFails, FimFails,
         ReadMissing, Snapshot, Stage, CheckBase, CheckFails, Rename, RestoreOpen,
         RestoreWrite, RestoreDelete, FimOpen, FimWrite, EnterRollback, Read
    <3> QED BY <2>3, <3>1 DEF LoopsSoFar, BasedOf, RenamedOf, RestoredOf, SyncPc
  <2> QED BY <2>1, <2>2, <2>3
<1>2. ASSUME NEW d \in Call, NEW k \in AllKinds, NEW fs \in SUBSET File,
             Start(d, k, fs)
      PROVE  LoopsSoFar(c)'
  <2>1. CASE d = c
    <3>1. pc'[c] = "reading"  BY <1>2, <2>1 DEF TypeOK, Start
    <3> QED BY <3>1 DEF LoopsSoFar, BasedOf, RenamedOf, RestoredOf
  <2>2. CASE d # c
    <3>1. /\ UNCHANGED <<disk, seen, snap, target, cur, faults>>
          /\ pc'[c] = pc[c] /\ files'[c] = files[c] /\ todo'[c] = todo[c]
      BY <1>2, <2>2 DEF TypeOK, Start
    <3>2. BasedOf(c)'  BY <1>0, <3>1 DEF LoopsSoFar, BasedOf
    <3>3. RenamedOf(c)'  BY <1>0, <3>1 DEF LoopsSoFar, RenamedOf
    <3>4. RestoredOf(c)'
      <4>1. target[c] # d
        BY <1>2, <2>2 DEF TypeOK, Loops, LoopsOf, Journaled, JournalOf, Start
      <4>2. files'[target[c]] = files[target[c]] \/ target[c] = d
        BY <1>2 DEF TypeOK, Start
      <4> QED BY <1>0, <3>1, <4>1, <4>2 DEF LoopsSoFar, RestoredOf
    <3> QED BY <3>2, <3>3, <3>4 DEF LoopsSoFar
  <2> QED BY <2>1, <2>2
<1>3. ASSUME NEW d \in Call, NEW t \in Call, StartRollback(d, t)
      PROVE  LoopsSoFar(c)'
  BY <1>0, <1>3 DEF TypeOK, StartRollback, LoopsSoFar, BasedOf, RenamedOf, RestoredOf
<1>4. ASSUME NEW f \in File, NEW v \in {Original, Foreign, Absent},
             ForeignWrite(f, v)
      PROVE  LoopsSoFar(c)'
  BY <1>0, <1>4 DEF TypeOK, ForeignWrite, Undisturbed
<1>5. ASSUME NEW d \in Call, PurgeTemp(d) PROVE LoopsSoFar(c)'
  BY <1>0, <1>5 DEF TypeOK, PurgeTemp, Undisturbed
<1>6. CASE Crash
  BY <1>6 DEF TypeOK, Crash, LoopsSoFar, BasedOf, RenamedOf, RestoredOf
<1>7. CASE UNCHANGED vars
  BY <1>0, <1>7 DEF vars, LoopsSoFar, BasedOf, RenamedOf, RestoredOf
<1> QED BY <1>1, <1>2, <1>3, <1>4, <1>5, <1>6, <1>7
        DEF Next, Begin, Environment

(* Everything the step properties below rest on.                           *)
StepInv == ResidueInv /\ Stages /\ Alone

LEMMA StepInvHolds == Spec => []StepInv
<1>1. Init => StepInv
  <2> SUFFICES ASSUME Init PROVE StepInv  OBVIOUS
  <2>1. Stages  BY DEF Init, Stages, StageOf
  <2>2. Alone  BY DEF Init, Alone, LoopsSoFar, BasedOf, RenamedOf, RestoredOf
  <2> QED BY <2>1, <2>2, ResidueInit DEF StepInv
<1>2. StepInv /\ [Next]_vars => StepInv'
  BY ResidueInvNext, StagesNext, AloneNext DEF StepInv, ResidueInv, JournalInv
<1> QED BY <1>1, <1>2, PTL DEF Spec

(* A commit that returns has every file of its transaction in place.       *)
LEMMA CommitStep ==
  ASSUME StepInv, [Next]_vars, Undisturbed, NEW c \in Call,
         state'[c] = "committed", state[c] # "committed", NEW f \in files[c]
  PROVE  disk'[f] = c
<1> USE DEF TypeOK
<1>0. TypeOK /\ Loops /\ LoopsSoFar(c)
  BY DEF StepInv, ResidueInv, JournalInv, Alone
<1>1. CommitDone(c)
  <2>1. PICK d \in Call : Step(d)
    BY <1>0 DEF Next, Begin, Start, StartRollback, Environment, ForeignWrite, PurgeTemp,
       Crash, vars
  <2> QED
    BY <1>0, <2>1 DEF Step, Reject, BeginInit, InitFails, PersistJournal, StageDone, Register,
       Staged, StageFails, VerifyPass, VerifyReject, VerifyThrow, RenameFails, CommitDone,
       CommitReturn, RestoreDone, Finish, RestoreFails, FimFails, ReadMissing, Snapshot,
       Stage, CheckBase, CheckFails, Rename, RestoreOpen, RestoreWrite, RestoreDelete,
       FimOpen, FimWrite, EnterRollback, Read
<1> QED BY <1>0, <1>1 DEF CommitDone, CommitReturn, LoopsSoFar, RenamedOf

(* Between the first rename of a commit and its return nothing interferes. *)
THEOREM CommitsWhole == Spec => CommitIsWhole
<1>1. StepInv /\ [Next]_vars =>
        (Undisturbed => \A c \in Call :
           state'[c] = "committed" /\ state[c] # "committed"
             => \A f \in files[c] : disk'[f] = c)
  BY CommitStep
<1> QED BY <1>1, StepInvHolds, PTL DEF Spec, CommitIsWhole

LEMMA RestoreStep ==
  ASSUME StepInv, [Next]_vars, Undisturbed, NEW c \in Call,
         pc[c] = "restoring", pc'[c] = "done", c \notin halted',
         NEW f \in files[target[c]]
  PROVE  disk'[f] = snap[target[c]][f]
<1> USE DEF TypeOK
<1>0. TypeOK /\ Loops /\ LoopsSoFar(c)
  BY DEF StepInv, ResidueInv, JournalInv, Alone
<1>1. RestoreDone(c)
  <2>1. PICK d \in Call : Step(d)
    BY <1>0 DEF Next, Begin, Start, StartRollback, Environment, ForeignWrite, PurgeTemp,
       Crash, vars
  <2> QED
    BY <1>0, <2>1 DEF Step, Reject, BeginInit, InitFails, PersistJournal, StageDone, Register,
       Staged, StageFails, VerifyPass, VerifyReject, VerifyThrow, RenameFails, CommitDone,
       CommitReturn, RestoreDone, Finish, RestoreFails, FimFails, ReadMissing, Snapshot,
       Stage, CheckBase, CheckFails, Rename, RestoreOpen, RestoreWrite, RestoreDelete,
       FimOpen, FimWrite, EnterRollback, Read
<1> QED BY <1>0, <1>1 DEF RestoreDone, LoopsSoFar, RestoredOf

(* A rollback that reaches its end has restored every file.                *)
THEOREM RollbacksRestore == Spec => RollbackRestores
<1>1. StepInv /\ [Next]_vars =>
        (Undisturbed => \A c \in Call :
           pc[c] = "restoring" /\ pc'[c] = "done" /\ c \notin halted'
             => \A f \in files[target[c]] : disk'[f] = snap[target[c]][f])
  BY RestoreStep
<1> QED BY <1>1, StepInvHolds, PTL DEF Spec, RollbackRestores

(* What a rename puts aside was read by the call that renames.             *)
LEMMA RenameStep ==
  ASSUME StepInv, [Next]_vars, Undisturbed, NEW c \in Call, NEW f \in File,
         cur[c] = f, disk'[f] = c, disk[f] # c, seen[c][f] # Absent
  PROVE  disk[f] \in {seen[c][f], Absent} \/ faults > 0
<1> USE NamesAssumption
<1>0. TypeOK /\ Loops /\ Journaled /\ Authored /\ Exclusion /\ Contained /\ Stages /\ LoopsSoFar(c)
  BY DEF StepInv, ResidueInv, JournalInv, Alone
<1>1. pc[c] \in {"renaming", "rewriting"}
  BY <1>0 DEF Loops, LoopsOf
<1>2. CASE pc[c] = "renaming"
  BY <1>0, <1>2 DEF LoopsSoFar, BasedOf
<1>3. CASE pc[c] = "rewriting"
  <2>1. RestoreWrite(c, f)
    <3>1. disk' # disk  BY DEF TypeOK
    <3>2. PICK d \in Call : Step(d)
      BY <1>0, <3>1 DEF Next, Begin, Start, StartRollback, Environment, ForeignWrite,
         PurgeTemp, Crash, vars, TypeOK
    <3>3. d = c  BY <1>0, <1>3, <3>1, <3>2, OthersRead DEF SyncPc
    <3> QED
      BY <1>0, <1>3, <3>1, <3>2, <3>3 DEF TypeOK, Step, Reject, BeginInit, InitFails,
         PersistJournal, StageDone, Staged, StageFails, VerifyPass, VerifyReject,
         VerifyThrow, RenameFails, CommitDone, CommitReturn, RestoreDone, RestoreFails,
         FimFails, ReadMissing, Snapshot, Stage, CheckBase, CheckFails, Rename, RestoreOpen,
         RestoreWrite, RestoreDelete, FimOpen, FimWrite, EnterRollback, Read
  <2>2. snap[target[c]][f] = c  BY <1>0, <2>1 DEF RestoreWrite, TypeOK
  <2>3. Pending(c)
    BY <1>0, <1>3 DEF Pending, Loops, LoopsOf, Stages, StageOf
  <2>4. target[c] \in Call  BY <1>0 DEF TypeOK
  <2> QED BY <1>0, <2>2, <2>3, <2>4 DEF Contained, ContainedAt
<1> QED BY <1>1, <1>2, <1>3

(* A rename never buries a version that its call has not read.             *)
THEOREM NoVersionBuried == Spec => NoLostUpdate
<1>1. StepInv /\ [Next]_vars =>
        (Undisturbed => \A c \in Call, f \in File :
           cur[c] = f /\ disk'[f] = c /\ disk[f] # c /\ seen[c][f] # Absent
             => disk[f] \in {seen[c][f], Absent} \/ faults > 0)
  BY RenameStep
<1> QED BY <1>1, StepInvHolds, PTL DEF Spec, NoLostUpdate

(***************************************************************************)
(* The lifecycle: without edit_fim every step is one of PatchLifecycle's,  *)
(* or changes nothing it can see.                                          *)
(***************************************************************************)

(* No content of a call that is neither verified, committed nor stopped in *)
(* its restore is on disk or in a snapshot.                                *)
Visible ==
  \A c \in Call, f \in File :
    (disk[f] = c \/ \E d \in Call : snap[d][f] = c) => c \in Lifecycle!Settled

LifeInv == ResidueInv /\ Stages /\ Visible /\ \A c \in Call : kind[c] # "fim"

(* What the step of a call is to the lifecycle.                            *)
LifeStep(c) ==
  \/ UNCHANGED <<disk, state, halted>>
  \/ Lifecycle!Advance(c, "none", "proposed")
  \/ Lifecycle!Advance(c, "proposed", "applied_to_temp")
  \/ Lifecycle!Advance(c, "applied_to_temp", "verified")
  \/ Lifecycle!Advance(c, "verified", "committed")
  \/ Lifecycle!RollBack(c) \/ Lifecycle!HaltUndo(c)
  \/ \E f \in File :
       \/ Lifecycle!Install(c, f)
       \/ Lifecycle!Disturb(f, disk'[f]) /\ disk'[f] \in Content

(* A call that is rolled back cleanly has left nothing on disk or in a     *)
(* snapshot by then.                                                       *)
LEMMA CleanByThen ==
  ASSUME LifeInv, NEW c \in Call, NEW f \in File, NEW d \in Call,
         \/ pc[c] = "verifying"
         \/ pc[c] = "restoring" /\ todo[c] = {} /\ kind[c] # "rollback"
  PROVE  disk[f] # c /\ snap[d][f] # c
<1>1. Pending(c)
  BY DEF LifeInv, ResidueInv, JournalInv, Loops, LoopsOf, Stages, StageOf, Pending
<1> QED BY <1>1 DEF LifeInv, ResidueInv, Contained, ContainedAt

LEMMA StepIsLife ==
  ASSUME LifeInv, NEW c \in Call, Step(c)
  PROVE  LifeStep(c)
<1> USE NamesAssumption DEF TypeOK
<1>0. TypeOK /\ TypeOK' /\ Loops /\ StageOf(c) /\ kind[c] # "fim"
  BY TypeStep DEF LifeInv, ResidueInv, JournalInv, Stages
<1>1. CASE Reject(c)  BY <1>1 DEF Reject, LifeStep
<1>2. CASE BeginInit(c)  BY <1>2 DEF BeginInit, LifeStep
<1>3. CASE InitFails(c)  BY <1>3 DEF InitFails, LifeStep
<1>4. CASE PersistJournal(c)
  <2>1. Lifecycle!Advance(c, "none", "proposed")
    BY <1>0, <1>4 DEF PersistJournal, Register, Loops, LoopsOf, Lifecycle!Advance
  <2> QED BY <2>1 DEF LifeStep
<1>5. CASE StageDone(c)
  <2>1. Lifecycle!Advance(c, "proposed", "applied_to_temp")
    BY <1>0, <1>5 DEF StageDone, Staged, StageOf, Lifecycle!Advance
  <2> QED BY <2>1 DEF LifeStep
<1>6. CASE StageFails(c)  BY <1>6 DEF StageFails, EnterRollback, LifeStep
<1>7. CASE VerifyPass(c)
  <2>1. Lifecycle!Advance(c, "applied_to_temp", "verified")
    BY <1>0, <1>7 DEF VerifyPass, StageOf, Lifecycle!Advance
  <2> QED BY <2>1 DEF LifeStep
<1>8. CASE VerifyReject(c)
  <2>1. \A f \in File : disk[f] # c  BY <1>8, CleanByThen DEF VerifyReject
  <2>2. Lifecycle!RollBack(c)
    BY <1>0, <1>8, <2>1 DEF VerifyReject, StageOf, Lifecycle!RollBack, Lifecycle!Open
  <2> QED BY <2>2 DEF LifeStep
<1>9. CASE VerifyThrow(c)  BY <1>9 DEF VerifyThrow, EnterRollback, LifeStep
<1>10. CASE RenameFails(c)  BY <1>10 DEF RenameFails, EnterRollback, LifeStep
<1>11. CASE CommitDone(c)
  <2>1. Lifecycle!Advance(c, "verified", "committed")
    BY <1>0, <1>11 DEF CommitDone, CommitReturn, StageOf, Lifecycle!Advance
  <2> QED BY <2>1 DEF LifeStep
<1>12. CASE RestoreDone(c)
  <2>1. CASE kind[c] = "rollback"
    BY <1>12, <2>1 DEF RestoreDone, Finish, LifeStep
  <2>2. CASE kind[c] # "rollback"
    <3>1. \A f \in File : disk[f] # c  BY <1>12, <2>2, CleanByThen DEF RestoreDone
    <3>2. Lifecycle!RollBack(c)
      BY <1>0, <1>12, <2>2, <3>1
         DEF RestoreDone, Finish, StageOf, Lifecycle!RollBack, Lifecycle!Open
    <3> QED BY <3>2 DEF LifeStep
  <2> QED BY <2>1, <2>2
<1>13. CASE RestoreFails(c)
  <2>1. CASE kind[c] = "rollback"
    <3>1. Lifecycle!HaltUndo(c)
      BY <1>13, <2>1 DEF RestoreFails, Lifecycle!HaltUndo
    <3> QED BY <3>1 DEF LifeStep
  <2>2. CASE kind[c] # "rollback"
    <3>1. Lifecycle!RollBack(c)
      BY <1>0, <1>13, <2>2
         DEF RestoreFails, StageOf, Lifecycle!RollBack, Lifecycle!Open
    <3> QED BY <3>1 DEF LifeStep
  <2> QED BY <2>1, <2>2
<1>14. CASE FimFails(c)  BY <1>0, <1>14 DEF FimFails, Loops, LoopsOf
<1>15. ASSUME NEW f \in File, Read(c, f) PROVE LifeStep(c)
  BY <1>15 DEF Read, LifeStep
<1>16. ASSUME NEW f \in File, ReadMissing(c, f) PROVE LifeStep(c)
  BY <1>16 DEF ReadMissing, LifeStep
<1>17. ASSUME NEW f \in File, Snapshot(c, f) PROVE LifeStep(c)
  BY <1>17 DEF Snapshot, LifeStep
<1>18. ASSUME NEW f \in File, Stage(c, f) PROVE LifeStep(c)
  BY <1>18 DEF Stage, LifeStep
<1>19. ASSUME NEW f \in File, CheckBase(c, f) PROVE LifeStep(c)
  BY <1>19 DEF CheckBase, LifeStep
<1>20. ASSUME NEW f \in File, CheckFails(c, f) PROVE LifeStep(c)
  BY <1>20 DEF CheckFails, EnterRollback, LifeStep
<1>21. ASSUME NEW f \in File, Rename(c, f) PROVE LifeStep(c)
  <2>1. Lifecycle!Install(c, f)
    BY <1>0, <1>21 DEF Rename, StageOf, Lifecycle!Install
  <2> QED BY <2>1 DEF LifeStep
<1>22. ASSUME NEW f \in File, RestoreOpen(c, f) PROVE LifeStep(c)
  <2>1. disk' = [disk EXCEPT ![f] = Torn] /\ disk'[f] = Torn /\ UNCHANGED <<state, halted>>
    BY <1>0, <1>22 DEF RestoreOpen
  <2>2. Lifecycle!Disturb(f, disk'[f])
    BY <2>1 DEF Lifecycle!Disturb
  <2> QED BY <2>1, <2>2 DEF LifeStep, Content
<1>23. ASSUME NEW f \in File, RestoreWrite(c, f) PROVE LifeStep(c)
  <2> DEFINE v == snap[target[c]][f]
  <2>1. disk' = [disk EXCEPT ![f] = v] /\ disk'[f] = v /\ UNCHANGED <<state, halted>>
    BY <1>0, <1>23 DEF RestoreWrite
  <2>2. v \in Content  BY <1>0
  <2>3. v \in {Original, Foreign, Torn, Absent} \cup Lifecycle!Settled
    <3>1. CASE v \in Call
      <4>1. target[c] \in Call  BY <1>0
      <4> QED BY <3>1, <4>1 DEF LifeInv, Visible
    <3>2. CASE v \notin Call  BY <2>2, <3>2 DEF Content
    <3> QED BY <3>1, <3>2
  <2>4. Lifecycle!Disturb(f, disk'[f])
    BY <2>1, <2>3 DEF Lifecycle!Disturb
  <2> QED BY <2>1, <2>2, <2>4 DEF LifeStep
<1>24. ASSUME NEW f \in File, RestoreDelete(c, f) PROVE LifeStep(c)
  <2>1. disk' = [disk EXCEPT ![f] = Absent] /\ disk'[f] = Absent /\ UNCHANGED <<state, halted>>
    BY <1>0, <1>24 DEF RestoreDelete
  <2>2. Lifecycle!Disturb(f, disk'[f])
    BY <2>1 DEF Lifecycle!Disturb
  <2> QED BY <2>1, <2>2 DEF LifeStep, Content
<1>25. ASSUME NEW f \in File, FimOpen(c, f) PROVE LifeStep(c)
  BY <1>0, <1>25 DEF FimOpen, Loops, LoopsOf
<1>26. ASSUME NEW f \in File, FimWrite(c, f) PROVE LifeStep(c)
  BY <1>0, <1>26 DEF FimWrite, Loops, LoopsOf
<1> QED
  BY <1>1, <1>2, <1>3, <1>4, <1>5, <1>6, <1>7, <1>8, <1>9, <1>10, <1>11, <1>12, <1>13,
     <1>14, <1>15, <1>16, <1>17, <1>18, <1>19, <1>20, <1>21, <1>22, <1>23, <1>24, <1>25,
     <1>26 DEF Step

(* Only a clean rollback leaves Settled.                                   *)
LEMMA LeavesSettled ==
  ASSUME LifeInv, NEW c \in Call, Step(c),
         NEW x \in Lifecycle!Settled, x \notin Lifecycle!Settled'
  PROVE  /\ \/ pc[x] = "verifying"
            \/ pc[x] = "restoring" /\ todo[x] = {} /\ kind[x] # "rollback"
         /\ UNCHANGED <<disk, snap>>
<1> USE DEF TypeOK, Lifecycle!Settled
<1>0. TypeOK /\ Loops /\ StageOf(c) /\ kind[c] # "fim" /\ x \in Call \cup halted
  BY DEF LifeInv, ResidueInv, JournalInv, Stages
<1>1. halted \subseteq halted' /\ x \in Call
  BY <1>0, StepIsLife DEF LifeStep, Lifecycle!Advance, Lifecycle!RollBack,
     Lifecycle!HaltUndo, Lifecycle!Install, Lifecycle!Disturb
<1>2. x \notin halted' /\ state[x] \in {"verified", "committed"}
        /\ state'[x] \notin {"verified", "committed"}
  BY <1>1
<1>3. VerifyReject(c) \/ RestoreDone(c)
  BY <1>0, <1>1, <1>2 DEF StageOf, Loops, LoopsOf, Step, Reject, BeginInit, InitFails,
     PersistJournal, StageDone, Register, Staged, StageFails, VerifyPass, VerifyThrow,
     RenameFails, CommitDone, CommitReturn, RestoreFails, FimFails, ReadMissing, Snapshot,
     Stage, CheckBase, CheckFails, Rename, RestoreOpen, RestoreWrite, RestoreDelete, FimOpen,
     FimWrite, EnterRollback, Read
<1>4. c = x /\ UNCHANGED <<disk, snap>>
  BY <1>0, <1>1, <1>2, <1>3 DEF VerifyReject, RestoreDone, Finish
<1> QED BY <1>0, <1>2, <1>3, <1>4 DEF VerifyReject, RestoreDone, Finish

LEMMA VisibleStep ==
  ASSUME LifeInv, NEW c \in Call, Step(c)
  PROVE  Visible'
<1> SUFFICES ASSUME NEW x \in Call, NEW f \in File,
                    disk'[f] = x \/ \E d \in Call : snap'[d][f] = x
             PROVE  x \in Lifecycle!Settled'
  BY DEF Visible
<1> USE NamesAssumption DEF TypeOK
<1>0. TypeOK /\ Visible
  BY DEF LifeInv, ResidueInv, JournalInv
<1>1. disk'[f] = disk[f] \/ disk'[f] \notin Call \/ disk'[f] \in Lifecycle!Settled
         \/ Lifecycle!Install(c, f)
  BY <1>0, StepIsLife DEF LifeStep, Lifecycle!Advance, Lifecycle!RollBack,
     Lifecycle!HaltUndo, Lifecycle!Install, Lifecycle!Disturb
<1>2. ASSUME NEW d \in Call PROVE snap'[d][f] \in {snap[d][f], disk[f]}
  <2>1. UNCHANGED snap \/ \E g \in File : Snapshot(c, g)
    BY <1>0 DEF Step, Reject, BeginInit, InitFails, PersistJournal, StageDone, Register,
       Staged, StageFails, VerifyPass, VerifyReject, VerifyThrow, RenameFails, CommitDone,
       CommitReturn, RestoreDone, Finish, RestoreFails, FimFails, ReadMissing,
       Stage, CheckBase, CheckFails, Rename, RestoreOpen, RestoreWrite, RestoreDelete,
       FimOpen, FimWrite, EnterRollback, Read
  <2>2. ASSUME NEW g \in File, snap' = [snap EXCEPT ![c][g] = disk[g]]
        PROVE  snap'[d][f] \in {snap[d][f], disk[f]}
    BY <1>0, <2>2
  <2> QED BY <2>1, <2>2 DEF Snapshot
<1>3. CASE x \notin Lifecycle!Settled
  <2>1. disk[f] # x /\ \A d \in Call : snap[d][f] # x
    BY <1>0, <1>3 DEF Visible
  <2>2. disk'[f] = x /\ Lifecycle!Install(c, f)
    BY <1>1, <1>2, <1>3, <2>1
  <2>3. x = c /\ state'[x] = "verified"
    BY <1>0, <2>2 DEF Lifecycle!Install
  <2> QED BY <2>3 DEF Lifecycle!Settled
<1>4. CASE x \in Lifecycle!Settled /\ x \notin Lifecycle!Settled'
  <2>1. /\ \/ pc[x] = "verifying"
           \/ pc[x] = "restoring" /\ todo[x] = {} /\ kind[x] # "rollback"
        /\ UNCHANGED <<disk, snap>>
    BY <1>4, LeavesSettled
  <2>2. \A d \in Call : disk[f] # x /\ snap[d][f] # x
    BY <2>1, CleanByThen
  <2> QED BY <2>1, <2>2
<1> QED BY <1>3, <1>4

LEMMA LifeInvNext ==
  ASSUME LifeInv, [Next]_vars, "fim" \notin Kinds
  PROVE  LifeInv'
<1> USE DEF TypeOK
<1>0. TypeOK /\ Loops /\ ResidueInv' /\ Stages' /\ \A c \in Call : StageOf(c)
  BY ResidueInvNext, StagesNext DEF LifeInv, ResidueInv, JournalInv, Stages
<1>1. \A c \in Call : kind'[c] # "fim"
  <2> SUFFICES ASSUME NEW c \in Call PROVE kind'[c] # "fim"  OBVIOUS
  <2>1. kind[c] # "fim"  BY DEF LifeInv
  <2> QED
    BY <1>0, <2>1 DEF Next, Begin, Start, StartRollback, Environment, ForeignWrite, PurgeTemp,
       Crash, vars, Step, Reject, BeginInit, InitFails, PersistJournal, StageDone, Register,
       Staged, StageFails, VerifyPass, VerifyReject, VerifyThrow, RenameFails, CommitDone,
       CommitReturn, RestoreDone, RestoreFails, FimFails, ReadMissing, Snapshot, Stage,
       CheckBase, CheckFails, Rename, RestoreOpen, RestoreWrite, RestoreDelete, FimOpen,
       FimWrite, EnterRollback, Read
<1>2. Visible'
  <2>1. ASSUME NEW c \in Call, Step(c) PROVE Visible'
    BY <2>1, VisibleStep
  <2>2. CASE UNCHANGED <<disk, snap, state, halted>>
    BY <2>2 DEF LifeInv, Visible, Lifecycle!Settled
  <2>3. ASSUME NEW f \in File, NEW v \in {Original, Foreign, Absent}, ForeignWrite(f, v)
        PROVE  Visible'
    <3>1. v \notin Call  BY NamesAssumption
    <3>2. disk' = [disk EXCEPT ![f] = v] /\ UNCHANGED <<snap, state, halted>>
      BY <2>3 DEF ForeignWrite
    <3> QED BY <1>0, <3>1, <3>2 DEF LifeInv, Visible, Lifecycle!Settled
  <2> QED
    BY <2>1, <2>2, <2>3 DEF Next, Begin, Start, StartRollback, Environment, PurgeTemp, Crash,
       vars
<1> QED BY <1>0, <1>1, <1>2 DEF LifeInv

LEMMA LifeInvHolds ==
  ASSUME "fim" \notin Kinds PROVE Spec => []LifeInv
<1>1. Init => LifeInv
  <2> SUFFICES ASSUME Init PROVE LifeInv  OBVIOUS
  <2>1. Stages  BY DEF Init, Stages, StageOf
  <2>2. Visible  BY NamesAssumption DEF Init, Visible
  <2>3. \A c \in Call : kind[c] # "fim"  BY DEF Init
  <2> QED BY <2>1, <2>2, <2>3, ResidueInit DEF LifeInv
<1>2. LifeInv /\ [Next]_vars => LifeInv'
  BY LifeInvNext
<1> QED BY <1>1, <1>2, PTL DEF Spec

LEMMA NextIsLife ==
  ASSUME LifeInv, [Next]_vars
  PROVE  [Lifecycle!Next]_<<disk, state, halted>>
<1>1. ASSUME NEW c \in Call, LifeStep(c)
      PROVE  [Lifecycle!Next]_<<disk, state, halted>>
  BY <1>1 DEF LifeStep, Lifecycle!Next, Content
<1>2. ASSUME NEW c \in Call, Step(c)
      PROVE  [Lifecycle!Next]_<<disk, state, halted>>
  BY <1>1, <1>2, StepIsLife
<1>3. ASSUME NEW f \in File, NEW v \in {Original, Foreign, Absent}, ForeignWrite(f, v)
      PROVE  [Lifecycle!Next]_<<disk, state, halted>>
  <2>1. Lifecycle!Disturb(f, v)
    BY <1>3 DEF ForeignWrite, Lifecycle!Disturb
  <2> QED BY <2>1 DEF Lifecycle!Next
<1>4. CASE UNCHANGED <<disk, state, halted>>
  BY <1>4
<1> QED
  BY <1>2, <1>3, <1>4 DEF Next, Begin, Start, StartRollback, Environment, PurgeTemp, Crash,
     vars

(* Without edit_fim the write layer implements the lifecycle of its state  *)
(* diagram: every step is one of its edges, an undo, a write of another    *)
(* program, or nothing it can see, crashes and failing operations included. *)
THEOREM LifecycleImplemented ==
  ASSUME "fim" \notin Kinds PROVE Spec => ImplementsLifecycle
<1>1. Init => Lifecycle!Init
  BY DEF Init, Lifecycle!Init
<1>2. LifeInv /\ [Next]_vars => [Lifecycle!Next]_(Lifecycle!vars)
  BY NextIsLife DEF Lifecycle!vars
<1> QED
  BY <1>1, <1>2, LifeInvHolds, PTL DEF Spec, ImplementsLifecycle, Lifecycle!Spec

(* So the promise of the lifecycle is one of the write layer: no file ever *)
(* shows content of a call that is unverified or cleanly rolled back.      *)
THEOREM VisibleIsChecked ==
  ASSUME "fim" \notin Kinds PROVE Spec => []Lifecycle!VisibleIsVerified
<1>1. LifeInv => Lifecycle!VisibleIsVerified
  BY DEF LifeInv, Visible, Lifecycle!VisibleIsVerified
<1> QED
  BY <1>1, LifeInvHolds, PTL
=============================================================================
