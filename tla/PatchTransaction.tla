-------------------------- MODULE PatchTransaction --------------------------
(***************************************************************************)
(* The transactional write layer of the agent: the snapshot journal of     *)
(* tools/transaction.ts, the managed transactions of                       *)
(* agent/patch-transaction.ts and the write tools of tools/file.ts that    *)
(* drive them.                                                             *)
(*                                                                         *)
(* A tool call is an asynchronous function of a single-threaded process.   *)
(* Its synchronous stretches exclude every other call (variable thread),   *)
(* but a file may change under any of its system calls: another program    *)
(* may write it, and a file operation handed to the thread pool (the reads *)
(* and the writeFile of edit_fim) completes while another call holds the   *)
(* thread.  Two calls overlap when a tool times out: the loop moves on,    *)
(* the call goes on running.                                               *)
(*                                                                         *)
(* The content of a file is abstracted to its author.  Hashes are compared *)
(* for equality only, so a base hash is the content it was taken from      *)
(* (SHA-256 prefixes are assumed not to collide).                          *)
(***************************************************************************)
EXTENDS Naturals, FiniteSets
LOCAL INSTANCE TLC

CONSTANTS
  Call,           \* tool calls
  File,           \* paths under the project root
  Original,       \* the content a file has before any call
  Foreign,        \* the content another program writes
  Torn,           \* a file opened for writing and not yet written
  Absent,         \* no such file
  NoFile, Free,   \* no file under way; nobody on the thread
  Kinds,          \* which tools are used, a subset of AllKinds
  VerifyOutcomes, \* what the verify callback may do
  MaxForeign,     \* bound on the writes of other programs
  MaxFaults,      \* bound on failing file operations
  MaxCrashes      \* bound on the crashes of the process

AllKinds    == {"write", "edit", "fim", "rollback"}
AllOutcomes == {"pass", "fail", "throw"}

ASSUME NamesAssumption ==
  /\ {Original, Foreign, Torn, Absent} \cap Call = {}
  /\ Original # Foreign /\ Original # Torn /\ Original # Absent
  /\ Foreign # Torn /\ Foreign # Absent /\ Torn # Absent
  /\ Free \notin Call /\ NoFile \notin File
ASSUME ChoicesAssumption ==
  /\ Kinds \subseteq AllKinds
  /\ VerifyOutcomes \subseteq AllOutcomes
ASSUME BoundsAssumption == {MaxForeign, MaxFaults, MaxCrashes} \subseteq Nat

Content == Call \cup {Original, Foreign, Torn, Absent}

VARIABLES
  disk,     \* what each file holds
  pc,       \* where each call is
  kind,     \* which tool a call is
  files,    \* the entries of a call's transaction
  seen,     \* what the call read (its expectedBaseHash)
  snap,     \* what its FileTransaction recorded
  journal,  \* calls whose FileTransaction is on disk
  state,    \* PatchState of a managed transaction
  registry, \* txRegistry
  temp,     \* staged files under .deepseek-code/patches/<txId>
  todo,     \* files left in the loop under way
  cur,      \* the file between two system calls of an iteration
  target,   \* whose snapshots a call restores
  outcome,  \* what the tool returned
  thread,   \* the call in a synchronous stretch
  halted,   \* history: calls whose restore loop stopped at an error
  foreign, faults, crashes  \* bounded counters of the environment

vars == <<disk, pc, kind, files, seen, snap, journal, state, registry, temp,
          todo, cur, target, outcome, thread, halted, foreign, faults, crashes>>
callVars == <<kind, files, target, halted>>
envVars  == <<foreign, faults, crashes>>

PatchState == {"none", "proposed", "applied_to_temp", "verified",
               "committed", "rolled_back"}
Pc == {"idle", "reading", "snapshot", "staging", "verifying", "committing",
       "renaming", "restoring", "rewriting", "fimopen", "fimwrite", "done",
       "dead"}

TypeOK ==
  /\ disk \in [File -> Content]
  /\ pc \in [Call -> Pc]
  /\ kind \in [Call -> AllKinds \cup {"none"}]
  /\ files \in [Call -> SUBSET File]
  /\ seen \in [Call -> [File -> Content]]
  /\ snap \in [Call -> [File -> Content]]
  /\ journal \subseteq Call
  /\ state \in [Call -> PatchState]
  /\ registry \subseteq Call
  /\ temp \in [Call -> SUBSET File]
  /\ todo \in [Call -> SUBSET File]
  /\ cur \in [Call -> File \cup {NoFile}]
  /\ target \in [Call -> Call]
  /\ outcome \in [Call -> {"none", "ok", "fail"}]
  /\ thread \in Call \cup {Free}
  /\ halted \subseteq Call
  /\ foreign \in Nat /\ faults \in Nat /\ crashes \in Nat

Init ==
  /\ disk \in [File -> {Original, Absent}]
  /\ pc = [c \in Call |-> "idle"]
  /\ kind = [c \in Call |-> "none"]
  /\ files = [c \in Call |-> {}]
  /\ seen = [c \in Call |-> [f \in File |-> Absent]]
  /\ snap = [c \in Call |-> [f \in File |-> Absent]]
  /\ journal = {}
  /\ state = [c \in Call |-> "none"]
  /\ registry = {}
  /\ temp = [c \in Call |-> {}]
  /\ todo = [c \in Call |-> {}]
  /\ cur = [c \in Call |-> NoFile]
  /\ target = [c \in Call |-> c]
  /\ outcome = [c \in Call |-> "none"]
  /\ thread = Free
  /\ halted = {}
  /\ foreign = 0 /\ faults = 0 /\ crashes = 0

Goto(c, l) == pc' = [pc EXCEPT ![c] = l]

(* An environment failure of one file operation, within the bound. *)
Fault == faults < MaxFaults /\ faults' = faults + 1

(***************************************************************************)
(* The tool reads what it is about to change.                              *)
(***************************************************************************)

(* write_file and edit_fim name one file, edit_file and multi_edit one or  *)
(* more.                                                                   *)
Start(c, k, fs) ==
  /\ pc[c] = "idle" /\ thread = Free
  /\ k \in Kinds \ {"rollback"}
  /\ fs # {} /\ (k \in {"write", "fim"} => Cardinality(fs) = 1)
  /\ kind' = [kind EXCEPT ![c] = k]
  /\ files' = [files EXCEPT ![c] = fs]
  /\ todo' = [todo EXCEPT ![c] = fs]
  /\ Goto(c, "reading")
  /\ UNCHANGED <<disk, seen, snap, journal, state, registry, temp, cur,
                 target, outcome, thread, halted, envVars>>

(* await readFile runs on the thread pool.                                 *)
Read(c, f) ==
  /\ pc[c] = "reading" /\ f \in todo[c] /\ disk[f] # Absent
  /\ seen' = [seen EXCEPT ![c][f] = disk[f]]
  /\ todo' = [todo EXCEPT ![c] = @ \ {f}]
  /\ UNCHANGED <<disk, pc, callVars, snap, journal, state, registry, temp,
                 cur, outcome, thread, envVars>>

(* The early returns: missing file, no unique match, Ripple block,         *)
(* forbidden path.  Nothing has been written yet.                          *)
Reject(c) ==
  /\ pc[c] = "reading" /\ thread = Free
  /\ Goto(c, "done")
  /\ outcome' = [outcome EXCEPT ![c] = "fail"]
  /\ todo' = [todo EXCEPT ![c] = {}]
  /\ UNCHANGED <<disk, callVars, seen, snap, journal, state, registry, temp,
                 cur, thread, envVars>>

(* Only write_file may name a file that does not exist.  existsSync says   *)
(* so and there is no await before the transaction begins.                 *)
ReadMissing(c, f) ==
  /\ pc[c] = "reading" /\ f \in todo[c] /\ disk[f] = Absent
  /\ kind[c] = "write" /\ thread = Free
  /\ seen' = [seen EXCEPT ![c][f] = Absent]
  /\ Goto(c, "snapshot") /\ thread' = c
  /\ todo' = [todo EXCEPT ![c] = files[c]]
  /\ UNCHANGED <<disk, callVars, snap, journal, state, registry, temp, cur,
                 outcome, envVars>>

(***************************************************************************)
(* createTransaction and initManagedTransaction: snapshot, then journal.   *)
(***************************************************************************)
BeginInit(c) ==
  /\ pc[c] = "reading" /\ todo[c] = {} /\ thread = Free
  /\ thread' = c
  /\ Goto(c, "snapshot")
  /\ todo' = [todo EXCEPT ![c] = files[c]]
  /\ UNCHANGED <<disk, callVars, seen, snap, journal, state, registry, temp,
                 cur, outcome, envVars>>

Snapshot(c, f) ==
  /\ pc[c] = "snapshot" /\ f \in todo[c]
  /\ snap' = [snap EXCEPT ![c][f] = disk[f]]
  /\ todo' = [todo EXCEPT ![c] = @ \ {f}]
  /\ UNCHANGED <<disk, pc, callVars, seen, journal, state, registry, temp,
                 cur, outcome, thread, envVars>>

(* A read or the journal write throws before the transaction exists. *)
InitFails(c) ==
  /\ pc[c] = "snapshot" /\ Fault
  /\ Goto(c, "done")
  /\ outcome' = [outcome EXCEPT ![c] = "fail"]
  /\ todo' = [todo EXCEPT ![c] = {}]
  /\ thread' = Free
  /\ UNCHANGED <<disk, callVars, seen, snap, journal, state, registry, temp,
                 cur, foreign, crashes>>

(* edit_fim goes on to await writeFile; the other tools register a managed *)
(* transaction.                                                            *)
Register(c) ==
  \/ /\ kind[c] = "fim"
     /\ Goto(c, "fimopen") /\ thread' = Free
     /\ UNCHANGED <<state, registry, todo>>
  \/ /\ kind[c] # "fim"
     /\ state' = [state EXCEPT ![c] = "proposed"]
     /\ registry' = registry \cup {c}
     /\ todo' = [todo EXCEPT ![c] = files[c]]
     /\ Goto(c, "staging") /\ UNCHANGED thread

(* Mutant: the journal is not written. *)
RegisterOnly(c) ==
  /\ pc[c] = "snapshot" /\ todo[c] = {}
  /\ Register(c)
  /\ UNCHANGED <<disk, callVars, seen, snap, journal, temp, cur, outcome,
                 envVars>>

(* The journal is on disk before any target changes. *)
PersistJournal(c) ==
  /\ pc[c] = "snapshot" /\ todo[c] = {}
  /\ journal' = journal \cup {c}
  /\ Register(c)
  /\ UNCHANGED <<disk, callVars, seen, snap, temp, cur, outcome, envVars>>

(***************************************************************************)
(* applyToTemp, then the verify callback.                                  *)
(***************************************************************************)
Stage(c, f) ==
  /\ pc[c] = "staging" /\ f \in todo[c]
  /\ temp' = [temp EXCEPT ![c] = @ \cup {f}]
  /\ todo' = [todo EXCEPT ![c] = @ \ {f}]
  /\ UNCHANGED <<disk, pc, callVars, seen, snap, journal, state, registry,
                 cur, outcome, thread, envVars>>

Staged(c, s) ==
  /\ pc[c] = "staging" /\ todo[c] = {}
  /\ state' = [state EXCEPT ![c] = s]
  /\ Goto(c, "verifying") /\ thread' = Free
  /\ UNCHANGED <<disk, callVars, seen, snap, journal, registry, temp, todo,
                 cur, outcome, envVars>>

(* Mutant: one state too far. *)
StageVerified(c) == Staged(c, "verified")

(* await verify(mpt) gives up the thread. *)
StageDone(c) == Staged(c, "applied_to_temp")

VerifyPass(c) ==
  /\ pc[c] = "verifying" /\ thread = Free /\ "pass" \in VerifyOutcomes
  /\ state' = [state EXCEPT ![c] = "verified"]
  /\ Goto(c, "committing") /\ thread' = c
  /\ todo' = [todo EXCEPT ![c] = files[c]]
  /\ UNCHANGED <<disk, callVars, seen, snap, journal, registry, temp, cur,
                 outcome, envVars>>

(* verify returned false.  Nothing has been renamed, so nothing is         *)
(* restored; applyAndCommit resolves and the write tools, which do not     *)
(* look at the state, report success.                                      *)
VerifyReject(c) ==
  /\ pc[c] = "verifying" /\ thread = Free /\ "fail" \in VerifyOutcomes
  /\ state' = [state EXCEPT ![c] = "rolled_back"]
  /\ registry' = registry \ {c}
  /\ \/ temp' = [temp EXCEPT ![c] = {}] /\ UNCHANGED faults
     \/ Fault /\ UNCHANGED temp
  /\ Goto(c, "done")
  /\ outcome' = [outcome EXCEPT ![c] = "ok"]
  /\ UNCHANGED <<disk, callVars, seen, snap, journal, todo, cur, thread,
                 foreign, crashes>>

(***************************************************************************)
(* The catch of applyAndCommit: every snapshot is restored.                *)
(***************************************************************************)
(* Mutant: only the files not yet renamed are restored. *)
RollbackRest(c) ==
  /\ Goto(c, "restoring") /\ thread' = c
  /\ cur' = [cur EXCEPT ![c] = NoFile]
  /\ UNCHANGED <<disk, callVars, seen, snap, journal, state, registry, temp,
                 todo, outcome, foreign, crashes>>

EnterRollback(c) ==
  /\ Goto(c, "restoring") /\ thread' = c
  /\ todo' = [todo EXCEPT ![c] = files[c]]
  /\ cur' = [cur EXCEPT ![c] = NoFile]
  /\ UNCHANGED <<disk, callVars, seen, snap, journal, state, registry, temp,
                 outcome, foreign, crashes>>

VerifyThrow(c) ==
  /\ pc[c] = "verifying" /\ thread = Free /\ "throw" \in VerifyOutcomes
  /\ EnterRollback(c) /\ UNCHANGED faults

StageFails(c) ==
  pc[c] = "staging" /\ Fault /\ EnterRollback(c)

(***************************************************************************)
(* commitManagedTransaction: per file, the base hash and then the rename.  *)
(***************************************************************************)
(* Mutant: no base hash check. *)
AnyBase(c, f) == TRUE

HashMatches(c, f) == seen[c][f] = Absent \/ disk[f] \in {seen[c][f], Absent}

(* readFileHash is null for a missing file, and for one that cannot be     *)
(* read: the guard is then skipped.                                        *)
CheckBase(c, f) ==
  /\ pc[c] = "committing" /\ f \in todo[c] \cap temp[c]
  /\ \/ HashMatches(c, f) /\ UNCHANGED faults
     \/ ~HashMatches(c, f) /\ Fault
  /\ Goto(c, "renaming")
  /\ cur' = [cur EXCEPT ![c] = f]
  /\ UNCHANGED <<disk, callVars, seen, snap, journal, state, registry, temp,
                 todo, outcome, thread, foreign, crashes>>

(* Mutant: a mismatch is not handled. *)
TempMissing(c, f) ==
  /\ pc[c] = "committing" /\ f \in todo[c] /\ f \notin temp[c]
  /\ EnterRollback(c) /\ UNCHANGED faults

CheckFails(c, f) ==
  /\ pc[c] = "committing" /\ f \in todo[c]
  /\ f \notin temp[c] \/ ~HashMatches(c, f)
  /\ EnterRollback(c) /\ UNCHANGED faults

Rename(c, f) ==
  /\ pc[c] = "renaming" /\ cur[c] = f /\ f \in temp[c]
  /\ disk' = [disk EXCEPT ![f] = c]
  /\ temp' = [temp EXCEPT ![c] = @ \ {f}]
  /\ todo' = [todo EXCEPT ![c] = @ \ {f}]
  /\ cur' = [cur EXCEPT ![c] = NoFile]
  /\ Goto(c, "committing")
  /\ UNCHANGED <<callVars, seen, snap, journal, state, registry, outcome,
                 thread, envVars>>

RenameFails(c) ==
  /\ pc[c] = "renaming"
  /\ \/ cur[c] \notin temp[c] /\ UNCHANGED faults
     \/ Fault
  /\ EnterRollback(c)

(* Removing the temp directory is best effort. *)
CommitReturn(c) ==
  /\ \/ temp' = [temp EXCEPT ![c] = {}] /\ UNCHANGED faults
     \/ Fault /\ UNCHANGED temp
  /\ registry' = registry \ {c}
  /\ state' = [state EXCEPT ![c] = "committed"]
  /\ outcome' = [outcome EXCEPT ![c] = "ok"]
  /\ Goto(c, "done") /\ thread' = Free
  /\ UNCHANGED <<disk, callVars, seen, snap, journal, todo, cur, foreign,
                 crashes>>

(* Mutant: the loop ends early. *)
CommitEarly(c) == pc[c] = "committing" /\ CommitReturn(c)

CommitDone(c) == pc[c] = "committing" /\ todo[c] = {} /\ CommitReturn(c)

(***************************************************************************)
(* rollbackTransaction: the loop over the recorded snapshots, run by the   *)
(* catch of applyAndCommit and by the rollback_transaction tool.           *)
(***************************************************************************)

(* The model may name any transaction a tool reported. *)
StartRollback(c, t) ==
  /\ pc[c] = "idle" /\ thread = Free /\ "rollback" \in Kinds
  /\ t \in journal /\ outcome[t] = "ok"
  /\ kind' = [kind EXCEPT ![c] = "rollback"]
  /\ target' = [target EXCEPT ![c] = t]
  /\ todo' = [todo EXCEPT ![c] = files[t]]
  /\ Goto(c, "restoring") /\ thread' = c
  /\ UNCHANGED <<disk, files, seen, snap, journal, state, registry, temp,
                 cur, outcome, halted, envVars>>

(* writeFileSync truncates the file, then writes it. *)
RestoreOpen(c, f) ==
  /\ pc[c] = "restoring" /\ f \in todo[c] /\ snap[target[c]][f] # Absent
  /\ disk' = [disk EXCEPT ![f] = Torn]
  /\ cur' = [cur EXCEPT ![c] = f]
  /\ Goto(c, "rewriting")
  /\ UNCHANGED <<callVars, seen, snap, journal, state, registry, temp, todo,
                 outcome, thread, envVars>>

RestoreWrite(c, f) ==
  /\ pc[c] = "rewriting" /\ cur[c] = f
  /\ disk' = [disk EXCEPT ![f] = snap[target[c]][f]]
  /\ todo' = [todo EXCEPT ![c] = @ \ {f}]
  /\ cur' = [cur EXCEPT ![c] = NoFile]
  /\ Goto(c, "restoring")
  /\ UNCHANGED <<callVars, seen, snap, journal, state, registry, temp,
                 outcome, thread, envVars>>

(* Mutant: a file that the call created is not deleted. *)
RestoreSkip(c, f) ==
  /\ pc[c] = "restoring" /\ f \in todo[c] /\ snap[target[c]][f] = Absent
  /\ todo' = [todo EXCEPT ![c] = @ \ {f}]
  /\ UNCHANGED <<disk, pc, callVars, seen, snap, journal, state, registry,
                 temp, cur, outcome, thread, envVars>>

RestoreDelete(c, f) ==
  /\ pc[c] = "restoring" /\ f \in todo[c] /\ snap[target[c]][f] = Absent
  /\ disk' = [disk EXCEPT ![f] = Absent]
  /\ todo' = [todo EXCEPT ![c] = @ \ {f}]
  /\ UNCHANGED <<pc, callVars, seen, snap, journal, state, registry, temp,
                 cur, outcome, thread, envVars>>

(* rollbackManagedTransaction after the restore, or the tool's return. *)
Finish(c, result) ==
  /\ \/ temp' = [temp EXCEPT ![c] = {}] /\ UNCHANGED faults
     \/ kind[c] # "rollback" /\ Fault /\ UNCHANGED temp
  /\ registry' = registry \ {c}
  /\ state' = IF kind[c] = "rollback" THEN state
              ELSE [state EXCEPT ![c] = "rolled_back"]
  /\ outcome' = [outcome EXCEPT ![c] = result]
  /\ Goto(c, "done") /\ thread' = Free

RestoreDone(c) ==
  /\ pc[c] = "restoring" /\ todo[c] = {}
  /\ Finish(c, IF kind[c] = "rollback" THEN "ok" ELSE "fail")
  /\ UNCHANGED <<disk, callVars, seen, snap, journal, todo, cur, foreign,
                 crashes>>

(* One failing operation ends the loop; applyAndCommit swallows the error  *)
(* and rolls the managed transaction back all the same.                    *)
RestoreFails(c) ==
  /\ pc[c] \in {"restoring", "rewriting"} /\ Fault
  /\ halted' = halted \cup {c}
  /\ temp' = [temp EXCEPT ![c] = {}]
  /\ registry' = registry \ {c}
  /\ state' = IF kind[c] = "rollback" THEN state
              ELSE [state EXCEPT ![c] = "rolled_back"]
  /\ outcome' = [outcome EXCEPT ![c] = "fail"]
  /\ todo' = [todo EXCEPT ![c] = {}]
  /\ cur' = [cur EXCEPT ![c] = NoFile]
  /\ Goto(c, "done") /\ thread' = Free
  /\ UNCHANGED <<disk, kind, files, target, seen, snap, journal, foreign,
                 crashes>>

(***************************************************************************)
(* edit_fim writes its target itself, in two operations on the pool.       *)
(***************************************************************************)
FimOpen(c, f) ==
  /\ pc[c] = "fimopen" /\ f \in files[c]
  /\ disk' = [disk EXCEPT ![f] = Torn]
  /\ Goto(c, "fimwrite")
  /\ UNCHANGED <<callVars, seen, snap, journal, state, registry, temp, todo,
                 cur, outcome, thread, envVars>>

FimWrite(c, f) ==
  /\ pc[c] = "fimwrite" /\ f \in files[c]
  /\ disk' = [disk EXCEPT ![f] = c]
  /\ outcome' = [outcome EXCEPT ![c] = "ok"]
  /\ Goto(c, "done")
  /\ UNCHANGED <<callVars, seen, snap, journal, state, registry, temp, todo,
                 cur, thread, envVars>>

FimFails(c) ==
  /\ pc[c] \in {"fimopen", "fimwrite"} /\ Fault
  /\ outcome' = [outcome EXCEPT ![c] = "fail"]
  /\ Goto(c, "done")
  /\ UNCHANGED <<disk, callVars, seen, snap, journal, state, registry, temp,
                 todo, cur, thread, foreign, crashes>>

(***************************************************************************)
(* The environment: other programs, and the death of the process.          *)
(***************************************************************************)
ForeignWrite(f, v) ==
  /\ foreign < MaxForeign /\ disk[f] # v
  /\ disk' = [disk EXCEPT ![f] = v]
  /\ foreign' = foreign + 1
  /\ UNCHANGED <<pc, callVars, seen, snap, journal, state, registry, temp,
                 todo, cur, outcome, thread, faults, crashes>>

(* .deepseek-code/patches may be cleaned from outside. *)
PurgeTemp(c) ==
  /\ foreign < MaxForeign /\ temp[c] # {}
  /\ temp' = [temp EXCEPT ![c] = {}]
  /\ foreign' = foreign + 1
  /\ UNCHANGED <<disk, pc, callVars, seen, snap, journal, state, registry,
                 todo, cur, outcome, thread, faults, crashes>>

(* The disk, the journal and the staged files survive; calls under way and *)
(* the registry do not.  No code runs on restart to repair anything.       *)
Crash ==
  /\ crashes < MaxCrashes
  /\ crashes' = crashes + 1
  /\ pc' = [c \in Call |-> IF pc[c] \in {"idle", "done"} THEN pc[c] ELSE "dead"]
  /\ todo' = [c \in Call |-> {}]
  /\ cur' = [c \in Call |-> NoFile]
  /\ registry' = {} /\ thread' = Free
  /\ UNCHANGED <<disk, callVars, seen, snap, journal, state, temp, outcome,
                 foreign, faults>>

(***************************************************************************)
(* A step of a call that has been started.                                 *)
(***************************************************************************)
Step(c) ==
  \/ Reject(c) \/ BeginInit(c) \/ InitFails(c) \/ PersistJournal(c)
  \/ StageDone(c) \/ StageFails(c)
  \/ VerifyPass(c) \/ VerifyReject(c) \/ VerifyThrow(c)
  \/ RenameFails(c) \/ CommitDone(c) \/ RestoreDone(c) \/ RestoreFails(c)
  \/ FimFails(c)
  \/ \E f \in File :
       \/ Read(c, f) \/ ReadMissing(c, f) \/ Snapshot(c, f) \/ Stage(c, f)
       \/ CheckBase(c, f) \/ CheckFails(c, f) \/ Rename(c, f)
       \/ RestoreOpen(c, f) \/ RestoreWrite(c, f) \/ RestoreDelete(c, f)
       \/ FimOpen(c, f) \/ FimWrite(c, f)

Begin(c) ==
  \/ \E k \in AllKinds, fs \in SUBSET File : Start(c, k, fs)
  \/ \E t \in Call : StartRollback(c, t)

Environment ==
  \/ \E f \in File, v \in {Original, Foreign, Absent} : ForeignWrite(f, v)
  \/ \E c \in Call : PurgeTemp(c)
  \/ Crash

Next == Environment \/ \E c \in Call : Begin(c) \/ Step(c)

Spec == Init /\ [][Next]_vars

(* The event loop resumes every call it owes a turn, system calls return   *)
(* and the verify callbacks of tools/file.ts resolve at once.  Nobody owes *)
(* a new call, a write by another program or a crash.                      *)
FairSpec == Spec /\ \A c \in Call : WF_vars(Step(c))

(***************************************************************************)
(* Properties.                                                             *)
(***************************************************************************)
Managed == {"write", "edit"}

(* Once applyAndCommit has rolled a call back, nothing the call wrote is   *)
(* left on disk or in a snapshot that a later rollback could bring back,   *)
(* however many of its files had been renamed; only a restore that stopped *)
(* at an error is excused.                                                 *)
NoResidue ==
  \A c \in Call : state[c] = "rolled_back" /\ c \notin halted =>
    \A f \in File : disk[f] # c /\ \A d \in Call : snap[d][f] # c

(* What a call has put on disk, whole or torn, can be undone at any later  *)
(* time, crash included: the journal with the snapshot is written before   *)
(* the target is touched, and for a torn file some journaled snapshot      *)
(* holds content that is not torn.                                         *)
WriteAhead ==
  \A f \in File :
    /\ disk[f] \in Call => disk[f] \in journal /\ f \in files[disk[f]]
    /\ disk[f] = Torn =>
         \E t \in journal : f \in files[t] /\ snap[t][f] # Torn

(* No other program has written, and edit_fim, whose writes run on the     *)
(* thread pool, has not been used: the synchronous stretches are then the  *)
(* only writers.                                                           *)
Undisturbed == foreign = 0 /\ \A c \in Call : kind[c] # "fim"

(* A rename never buries a version of an existing file that the call has   *)
(* not read: of two overlapping calls that read the same version, one is   *)
(* refused.  A file that could not be read back for its hash is excused,   *)
(* and a file that is gone is not noticed.                                 *)
NoLostUpdate ==
  [][Undisturbed => \A c \in Call, f \in File :
       cur[c] = f /\ disk'[f] = c /\ disk[f] # c /\ seen[c][f] # Absent
         => disk[f] \in {seen[c][f], Absent} \/ faults > 0]_vars

(* Between the first rename and the return nothing interferes: a commit    *)
(* leaves all of its files in place together.                              *)
CommitIsWhole ==
  [][Undisturbed => \A c \in Call : state'[c] = "committed" /\ state[c] # "committed"
       => \A f \in files[c] : disk'[f] = c]_vars

(* A rollback that reaches its end has put every file of the transaction   *)
(* back as its snapshot recorded it.                                       *)
RollbackRestores ==
  [][Undisturbed => \A c \in Call : pc[c] = "restoring" /\ pc'[c] = "done" /\ c \notin halted'
       => \A f \in files[target[c]] : disk'[f] = snap[target[c]][f]]_vars

(* Refusing a write takes back what the refused call wrote and loses       *)
(* nobody else's change: the header promises that the write is rejected    *)
(* when another process changed the file.                                  *)
RejectSparesOthers ==
  [][\A c \in Call, f \in File :
       kind[c] \in Managed /\ pc[c] = "restoring" /\ foreign' = foreign
         => disk'[f] = disk[f] \/ disk[f] \in {c, snap[c][f]}]_vars

(* edit_fim, too, gives way when the file has changed since it was read:   *)
(* the header says that every file mutation goes through a transaction     *)
(* with its base hash check.                                               *)
FimGuarded ==
  [][\A c \in Call, f \in File :
       pc[c] = "fimopen" /\ pc'[c] = "fimwrite" /\ f \in files[c]
         => disk[f] = seen[c][f]]_vars

(* Without edit_fim the calls implement the lifecycle of the state diagram *)
(* in the PR-4.1 comment.                                                  *)
Lifecycle == INSTANCE PatchLifecycle
               WITH Plain <- {Original, Foreign, Torn, Absent}
ImplementsLifecycle == Lifecycle!Spec

(* Every call that is started returns. *)
EveryCallReturns ==
  \A c \in Call : pc[c] # "idle" ~> pc[c] \in {"done", "dead"}

(* Calls and files are interchangeable: the runs explore one of each orbit. *)
Symmetric == Permutations(Call) \cup Permutations(File)
=============================================================================
