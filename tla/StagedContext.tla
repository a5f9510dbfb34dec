------------------------------ MODULE StagedContext ------------------------------
(***************************************************************************)
(* The files the model sees in every round under "Active Files"              *)
(* (src/src/context/staged.ts), as the loop and the line interface keep      *)
(* them: a copy of each file that was read or written, taken then, listed by *)
(* the path the call spelled.  A file has a version, 0 when it is not there. *)
(* The names of the copies are saved with a session and read again when it   *)
(* is resumed.  The list of the project's files and the lines on previous    *)
(* actions are left out.                                                     *)
(***************************************************************************)
EXTENDS Naturals, Sequences, FiniteSets, SequencesExt

CONSTANTS
  Names,        \* paths as calls spell them; an absolute one is never staged
  Target,       \* Target[name]: the file it leads to
  Plain,        \* Plain[file]: how a rollback spells it
  Priority,     \* priorityScore: what is shown first
  MaxActive,    \* 12
  MaxVersions   \* bound of the writes

Files == {Target[n] : n \in Names}

ASSUME StageAssumption ==
  /\ IsFiniteSet(Names)
  /\ Plain \in [Files -> Names] /\ \A f \in Files : Target[Plain[f]] = f
  /\ Priority \in [Names -> 0..4] /\ MaxActive \in Nat /\ MaxVersions \in Nat

VARIABLES
  disk,       \* file -> version
  versions,   \* how many there have been
  loadedFiles,\* the copies, in the order of the Map
  stagedFiles,\* the names in the session file
  journal,    \* what transactions may be rolled back to
  untouched   \* names whose file changed by calls under that name alone since it was copied

stageVars == <<disk, versions, loadedFiles, stagedFiles, journal, untouched>>

NotThere == 0

StageInit ==
  /\ disk = [f \in Files |-> 1] /\ versions = 1
  /\ loadedFiles = <<>> /\ stagedFiles = <<>> /\ journal = {} /\ untouched = {}

Copy(n, on) == [name |-> n, version |-> on[Target[n]]]
Loaded(copies) == {c.name : c \in ToSet(copies)}

\* markLoaded: a copy there is stays as it is.
MarkLoaded(copies, n, on) ==
  IF on[Target[n]] = NotThere \/ n \in Loaded(copies) THEN copies
  ELSE Append(copies, Copy(n, on))

\* Copies of the names that lead to a file and are not loaded yet: of several, any first.
New(copies, ns, on) ==
  LET names == SetToSeq({n \in ns : on[Target[n]] # NotThere} \ Loaded(copies))
  IN [k \in DOMAIN names |-> Copy(names[k], on)]

\* Mutant: edited files are treated like ones that were read.
MarkLoadedOnly(copies, ns, on) == copies \o New(copies, ns, on)

\* markEdited, for the paths of a call: set() leaves a name at its place.
MarkEdited(copies, ns, on) ==
  [i \in DOMAIN copies |->
     IF copies[i].name \in ns /\ on[Target[copies[i].name]] # NotThere
     THEN Copy(copies[i].name, on) ELSE copies[i]]
  \o New(copies, ns, on)

Spelled(f) == {n \in Names : Target[n] = f}
NewCopies == Loaded(loadedFiles') \ Loaded(loadedFiles)

\* read_file, whether it succeeded or not.
Read(n) ==
  /\ loadedFiles' = MarkLoaded(loadedFiles, n, disk)
  /\ untouched' = untouched \cup NewCopies
  /\ UNCHANGED <<disk, versions, stagedFiles, journal>>

\* write_file, edit_file and edit_fim; multi_edit, whose files are marked by its paths.
WriteFiles(ns) ==
  /\ versions < MaxVersions /\ versions' = versions + 1
  /\ \A n, m \in ns : Target[n] = Target[m] => n = m
  /\ Cardinality(ns) > 1 => \A n \in ns : disk[Target[n]] # NotThere
  /\ disk' = [f \in Files |-> IF Spelled(f) \cap ns # {} THEN versions' ELSE disk[f]]
  /\ journal' = journal \cup {[f \in {Target[n] : n \in ns} |-> disk[f]]}
  /\ loadedFiles' = MarkEdited(loadedFiles, ns, disk')
  /\ untouched' = {n \in untouched : Spelled(Target[n]) \cap ns = {}} \cup ns
  /\ UNCHANGED stagedFiles

\* A single file is marked also when the tool refused or failed.
FailToWrite(n) ==
  /\ loadedFiles' = MarkEdited(loadedFiles, {n}, disk)
  /\ untouched' = IF n \in Loaded(loadedFiles') /\ disk[Target[n]] # NotThere
                  THEN untouched \cup {n} ELSE untouched
  /\ UNCHANGED <<disk, versions, stagedFiles, journal>>

\* rollback_transaction: its paths are the files as the journal spells them.
RollBack(before) ==
  LET changed == {Plain[f] : f \in DOMAIN before}
  IN /\ disk' = [f \in Files |-> IF f \in DOMAIN before THEN before[f] ELSE disk[f]]
     /\ loadedFiles' = MarkEdited(loadedFiles, changed, disk')
     /\ untouched' = {n \in untouched : Target[n] \notin DOMAIN before}
          \cup {n \in changed : disk'[Target[n]] # NotThere}
     /\ UNCHANGED <<versions, stagedFiles, journal>>

\* A shell command, another program, or a call with an absolute path.
OtherWrites(f, there) ==
  /\ versions < MaxVersions /\ versions' = versions + 1
  /\ disk' = [disk EXCEPT ![f] = IF there THEN versions' ELSE NotThere]
  /\ untouched' = untouched \ Spelled(f)
  /\ UNCHANGED <<loadedFiles, stagedFiles, journal>>

\* persistSession.
SaveNames ==
  /\ stagedFiles' = [i \in DOMAIN loadedFiles |-> loadedFiles[i].name]
  /\ UNCHANGED <<disk, versions, loadedFiles, journal, untouched>>

Kth(places, k) == CHOOSE i \in places : Cardinality({j \in places : j <= i}) = k

\* The process ends; the next one resumes the session, and marks the names one by one, those
\* of a Map, as loaded.
Resume ==
  /\ LET there == {i \in DOMAIN stagedFiles : disk[Target[stagedFiles[i]]] # NotThere}
     IN loadedFiles' = [k \in 1..Cardinality(there) |-> Copy(stagedFiles[Kth(there, k)], disk)]
  /\ untouched' = Loaded(loadedFiles')
  /\ UNCHANGED <<disk, versions, stagedFiles, journal>>

StageNext ==
  \/ \E n \in Names : Read(n) \/ FailToWrite(n)
  \/ \E ns \in (SUBSET Names) \ {{}} : WriteFiles(ns)
  \/ \E before \in journal : RollBack(before)
  \/ \E f \in Files, there \in BOOLEAN : OtherWrites(f, there)
  \/ SaveNames \/ Resume

\* Mutant: the list is cut before it is sorted.
FirstLoaded ==
  ToSet(SubSeq(loadedFiles, 1, IF Len(loadedFiles) < MaxActive THEN Len(loadedFiles) ELSE MaxActive))

\* buildContext: sorted by priority, which leaves equals in the order of the Map, and cut.
Shown ==
  LET before(i, j) ==
        \/ Priority[loadedFiles[i].name] < Priority[loadedFiles[j].name]
        \/ Priority[loadedFiles[i].name] = Priority[loadedFiles[j].name] /\ i < j
      place(j) == Cardinality({i \in DOMAIN loadedFiles : before(i, j)})
  IN {loadedFiles[j] : j \in {i \in DOMAIN loadedFiles : place(i) < MaxActive}}

-----------------------------------------------------------------------------
\* What the model is shown of a file is the file, as far as the program knows: a copy
\* is out of date only when its file was changed under another name or by somebody
\* else, whatever writes, refusals, rollbacks and new starts come between; and no file
\* is shown in place of one with a higher priority.
ShownIsKnown ==
  /\ \A c \in ToSet(loadedFiles) : c.name \in untouched => c.version = disk[Target[c.name]]
  /\ \A c \in Shown, d \in ToSet(loadedFiles) \ Shown : Priority[c.name] <= Priority[d.name]

\* "Active Files": what is shown is what is on disk. It does not hold: a second read
\* does not refresh a copy, and a file that a rollback removed is shown on.
ShownIsOnDisk == \A c \in Shown : c.version = disk[Target[c.name]]

\* What was written last is among the files that are shown. It does not hold: of equals
\* the first MaxActive that were ever loaded stay.
WrittenIsShown ==
  [][\A n \in Names : WriteFiles({n}) => Copy(n, disk') \in Shown']_stageVars
=============================================================================
