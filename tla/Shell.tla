------------------------------- MODULE Shell -------------------------------
(***************************************************************************)
(* The shell tool and the sandbox of a run (tools/shell.ts,                *)
(* sandbox/sandbox.ts, job-object.ts): the run of the agent loop sets a    *)
(* sandbox, the ripple gate blocks files in it, a command is checked and   *)
(* spawned, its process ends or its timer runs out, it is answered, and    *)
(* what the answer says of a verification is recorded                      *)
(* (verification/result.ts).                                               *)
(*                                                                         *)
(* The loop runs commands with executeStream, one at a time; a command is  *)
(* what the checks see in its text, and its process the shell together     *)
(* with what the shell started.                                            *)
(***************************************************************************)
EXTENDS Naturals, FiniteSets

CONSTANTS
  ShellCommands, \* of each command what its text says
  RippleFiles,   \* files the ripple gate may block
  JobsWork,      \* whether the platform has job objects
  MaxShellRuns,  \* bound: runs
  MaxCommands,   \* bound: commands
  NoSandbox      \* _sandbox is null

ASSUME ShellAssumption ==
  JobsWork \in BOOLEAN /\ MaxShellRuns \in Nat /\ MaxCommands \in Nat /\ NoSandbox \notin Nat

VARIABLES
  shellRun,    \* number of the run
  running,     \* whether the agent loop is in it
  sandbox,     \* the run whose sandbox the shell tool sees
  blockedFiles,\* files that sandbox blocks
  handles,     \* runs that have the job object open
  left,        \* runs that ended where nothing is disposed of
  command,     \* the command in hand; 0 when there is none
  issued,      \* the commands so far: what was asked and by which run
  process,     \* of each: "none", "alive", "ended", "killed"
  exitCode,    \* of each: 0, 1, or none of both when a signal ended it
  children,    \* commands whose shell left processes of its own behind
  inJob,       \* commands whose process is in the job object
  results      \* of each command the answer: "none", "refused", "ok", "failed", "timed out"

shellVars == <<shellRun, running, sandbox, blockedFiles, handles, left, command, issued, process,
               exitCode, children, inJob, results>>

Issued == DOMAIN issued
Text(n) == ShellCommands[issued[n].name]

NoCommands == [n \in {} |-> 0]

ShellInit ==
  /\ shellRun = 0 /\ running = FALSE /\ sandbox = NoSandbox /\ blockedFiles = {} /\ handles = {}
  /\ left = {} /\ command = 0 /\ issued = NoCommands /\ process = NoCommands
  /\ exitCode = NoCommands /\ children = {} /\ inJob = {} /\ results = NoCommands

-----------------------------------------------------------------------------
\* BLOCKLIST and longRunningCommandReason
NeverRuns(c) == ShellCommands[c].blocklisted \/ ShellCommands[c].serves

\* SandboxManager.check refuses commands that name a blocked file and write.
SandboxAllows(c) == ~(ShellCommands[c].writes /\ ShellCommands[c].names \cap blockedFiles # {})

\* needsSandbox: commands that install, fetch, run a script.
NeedsSandbox(c) == ShellCommands[c].sandboxed

\* A run begins with a sandbox of its own, which opens the one job object there is: all go by
\* one name.
BeginRun ==
  /\ ~running /\ shellRun < MaxShellRuns
  /\ shellRun' = shellRun + 1 /\ running' = TRUE
  /\ sandbox' = shellRun + 1 /\ blockedFiles' = {}
  /\ handles' = IF JobsWork THEN handles \cup {shellRun + 1} ELSE handles
  /\ UNCHANGED <<left, command, issued, process, exitCode, children, inJob, results>>

\* The ripple gate blocks files before the round and frees them after its tools ran.
BlockFiles(fs) ==
  /\ running /\ command = 0 /\ blockedFiles' = fs
  /\ UNCHANGED <<shellRun, running, sandbox, handles, left, command, issued, process, exitCode,
                 children, inJob, results>>

\* The model asks for a command: it is refused, cannot be spawned, or starts, and its process
\* goes into the job when it is one to be sandboxed.  Nobody looks whether the system takes it
\* in, before it starts others.
Ask(c, spawns, taken) ==
  LET n == Cardinality(Issued) + 1
      runs == ~NeverRuns(c) /\ SandboxAllows(c)
      Add(f, v) == [i \in Issued \cup {n} |-> IF i = n THEN v ELSE f[i]]
  IN /\ running /\ command = 0 /\ n <= MaxCommands
     /\ issued' = Add(issued, [name |-> c, run |-> sandbox])
     /\ process' = Add(process, IF runs /\ spawns THEN "alive" ELSE "none")
     /\ exitCode' = Add(exitCode, 2)
     /\ results' = Add(results, IF ~runs THEN "refused" ELSE IF spawns THEN "none" ELSE "failed")
     /\ command' = IF runs /\ spawns THEN n ELSE 0
     /\ inJob' = IF runs /\ spawns /\ NeedsSandbox(c) /\ sandbox \in handles /\ taken
                   THEN inJob \cup {n} ELSE inJob
     /\ UNCHANGED <<shellRun, running, sandbox, blockedFiles, handles, left, children>>

\* The command starts processes of its own.
Fork(n) ==
  /\ process[n] = "alive" /\ children' = children \cup {n}
  /\ UNCHANGED <<shellRun, running, sandbox, blockedFiles, handles, left, command, issued, process,
                 exitCode, inJob, results>>

\* Its shell ends by itself, or by a signal that is not the timer's.
Exit(n, code) ==
  /\ process[n] = "alive"
  /\ process' = [process EXCEPT ![n] = "ended"] /\ exitCode' = [exitCode EXCEPT ![n] = code]
  /\ UNCHANGED <<shellRun, running, sandbox, blockedFiles, handles, left, command, issued, children,
                 inJob, results>>

\* What it started ends.
ChildrenEnd(n) ==
  /\ n \in children /\ children' = children \ {n}
  /\ UNCHANGED <<shellRun, running, sandbox, blockedFiles, handles, left, command, issued, process,
                 exitCode, inJob, results>>

\* "close": the shell and whatever holds its output have ended.  A shell that a signal ended
\* has no exit code and counts as one that ended with 0.
Close ==
  /\ command # 0 /\ process[command] = "ended" /\ command \notin children
  /\ results' = [results EXCEPT ![command] = IF exitCode[command] = 1 THEN "failed" ELSE "ok"]
  /\ command' = 0
  /\ UNCHANGED <<shellRun, running, sandbox, blockedFiles, handles, left, issued, process, exitCode,
                 children, inJob>>

\* The timer: the shell is killed, the answer does not wait for it; what it started lives on.
TimeOut ==
  /\ command # 0
  /\ results' = [results EXCEPT ![command] = "timed out"]
  /\ process' = [process EXCEPT ![command] = IF @ = "alive" THEN "killed" ELSE @]
  /\ command' = 0
  /\ UNCHANGED <<shellRun, running, sandbox, blockedFiles, handles, left, issued, exitCode,
                 children, inJob>>

\* closeJob: with the last handle the system kills every process in the job.  A run that was
\* left keeps its own, and then none is killed.
Closed(owner) ==
  LET dead == IF handles = {owner} THEN inJob ELSE {}
  IN /\ process' = [n \in Issued |->
          IF n \in dead /\ process[n] = "alive" THEN "killed" ELSE process[n]]
     /\ children' = children \ dead
     /\ handles' = handles \ {owner}

\* Mutant: the loop lets go of the sandbox and leaves the job open.
OnlyForgets(owner) == UNCHANGED <<process, children, handles>>

\* SandboxManager.dispose
Dispose(owner) ==
  IF owner \in handles THEN Closed(owner) ELSE UNCHANGED <<process, children, handles>>

\* The run ends by itself.
FinishRun ==
  /\ running /\ command = 0
  /\ running' = FALSE /\ sandbox' = NoSandbox /\ blockedFiles' = {}
  /\ Dispose(sandbox)
  /\ UNCHANGED <<shellRun, left, command, issued, exitCode, inJob, results>>

\* The run ends where nothing is disposed of: at a clarification, or because the user cancels
\* it, with a command in hand or not.
LeaveRun ==
  /\ running
  /\ running' = FALSE /\ command' = 0 /\ left' = left \cup {shellRun}
  /\ UNCHANGED <<shellRun, sandbox, blockedFiles, handles, issued, process, exitCode, children,
                 inJob, results>>

ShellNext ==
  \/ BeginRun \/ FinishRun \/ LeaveRun \/ Close \/ TimeOut
  \/ \E fs \in SUBSET RippleFiles : BlockFiles(fs)
  \/ \E c \in DOMAIN ShellCommands, spawns, taken \in BOOLEAN : Ask(c, spawns, taken)
  \/ \E n \in Issued : Fork(n) \/ ChildrenEnd(n) \/ \E code \in {0, 1, 2} : Exit(n, code)

-----------------------------------------------------------------------------
Alive == {n \in Issued : process[n] = "alive"} \cup children

\* As long as every run came to its end, no process in the job outlives the run that started
\* it, timed out or not; and whatever happens to its process, a command gets an answer, unless
\* its run was left.
ProcessesEnd ==
  /\ ~running /\ left = {} => Alive \cap inJob = {}
  /\ \A n \in Issued : results[n] = "none" => n = command \/ issued[n].run \in left

\* The process of a sandboxed command "will be killed when cleanup() is called" (sandbox.ts:110).
\* Nobody calls it; dispose is what the loop calls, and for that the same does not hold: a run
\* that was left keeps the job open.
DisposedIsDead == sandbox = NoSandbox => Alive \cap inJob = {}

\* While a file is blocked, no running command of this run may write it.  It does not hold: a
\* command that timed out in an earlier round still runs.
BlockedIsUntouched ==
  running => \A n \in Alive : ~(Text(n).writes /\ Text(n).names \cap blockedFiles # {})

\* A command answered as good ended with exit code 0.  It does not hold: a shell that a signal
\* ended has none, and "?? 0" makes it one.
GoodIsZero == \A n \in Issued : results[n] = "ok" => exitCode[n] = 0
=============================================================================
