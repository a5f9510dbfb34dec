----------------------------- MODULE HookChain -----------------------------
(***************************************************************************)
(* The hooks around a run and around a tool call (hooks/index.ts), with    *)
(* the chain the program registers (hooks/defaults.ts): before a call the  *)
(* safety policy, the side-effect policy and the write guard, after it the *)
(* recorder of reads and the journal guard with its rules                  *)
(* (agent/journal.ts); what the model is told of the call                  *)
(* (agent/round/pre-loop.ts).                                              *)
(*                                                                         *)
(* A call is a tool, the files it names and the traits the policies look   *)
(* for in its parameters; the text a tool answers is the set of marks the  *)
(* journal's rules look for.                                               *)
(***************************************************************************)
EXTENDS Naturals, FiniteSets, Sequences

CONSTANTS
  HookFiles,      \* files of the project
  HookCalls,      \* calls of the model: tool, files and traits
  HookPrompts,    \* what handlers of a prompt may answer: sequences of outputs
  Texts,          \* what a tool may answer: sets of marks
  Journals,       \* the rules the engine may have loaded: its own and those of .codejournal
  AllowOutside,   \* allowOutsideProject
  MaxHookCalls,   \* bound: calls
  Nothing         \* no call

ASSUME HookChainAssumption == AllowOutside \in BOOLEAN /\ MaxHookCalls \in Nat

VARIABLES
  hookRun,     \* the run: "none", "open", or how its Stop was told: "blocked", "completed";
               \* "left" when it ended without one
  conversation,\* what the prompt's handlers made of the messages
  hookCall,    \* the call in hand
  hookAt,      \* the handler that is next: 1..3 before the tool, 4 the tool, 5..6 after it
  warned,      \* handlers whose warnings were collected
  answer,      \* what the tool answered
  told,        \* what the model was told of the last call
  knownFiles,  \* files the write guard knows as read
  onDisk,      \* files that exist
  written,     \* files the file tools changed that were there before
  journal,     \* the rules the engine loaded; nothing reloads them
  failures,    \* ErrorTracker: how often each tool failed the same way
  advice,      \* the advice it gave
  hookCount

hookVars == <<hookRun, conversation, hookCall, hookAt, warned, answer, told, knownFiles, onDisk,
              written, journal, failures, advice, hookCount>>

HookTools == {c.tool : c \in HookCalls}
NoAnswer == [ok |-> FALSE, marks |-> {}]
Untold == [call |-> Nothing, ok |-> FALSE, ran |-> FALSE, why |-> {}, report |-> {},
           done |-> FALSE, marks |-> {}]

-----------------------------------------------------------------------------
(* A chain of handlers                                                     *)

\* Where a chain ends: at the first handler that blocks or throws.
EndsAt(outs) ==
  LET stops == {i \in DOMAIN outs : outs[i].blocked \/ outs[i].throws}
  IN IF stops = {} THEN Len(outs) + 1 ELSE CHOOSE i \in stops : \A j \in stops : i <= j

Passed(outs) == EndsAt(outs) > Len(outs)

\* Of several handlers that replace or add, the last is heard.
LastWith(outs, field) ==
  LET with == {i \in 1..EndsAt(outs) - 1 : outs[i][field]}
  IN IF with = {} THEN 0 ELSE CHOOSE i \in with : \A j \in with : j <= i

\* The conversation a run starts with: the hook's context in front of the prompt, and the
\* prompt that replaces the user's.
Messages(outs) ==
  (IF LastWith(outs, "context") = 0 THEN <<>> ELSE <<<<"context", LastWith(outs, "context")>>>>)
  \o <<<<"prompt", LastWith(outs, "replaces")>>>>

-----------------------------------------------------------------------------
(* The handlers                                                            *)

FileTools == {"read_file", "write_file", "edit_file", "edit_fim"}

\* createSafetyPolicyHook.  It knows the path of a call by its parameter "path": multi_edit
\* has none.
SafetyBlocks(c) ==
  \/ c.tool \in {"shell", "start_service"} /\ "dangerous" \in c.traits
  \/ c.tool = "start_service" /\ "outside" \in c.traits /\ ~AllowOutside
  \/ c.tool \in FileTools /\ ("secret" \in c.traits \/ ("system" \in c.traits /\ ~AllowOutside))

SideEffects == {"delete", "move", "git", "permission"}

\* analyzeSideEffects: git and permission commands on files outside are a danger, all other
\* findings a warning.
Severity(c) ==
  IF c.tool # "shell" \/ c.traits \cap SideEffects = {} THEN "none"
  ELSE IF c.traits \cap {"git", "permission"} # {} /\ "outside" \in c.traits THEN "danger"
  ELSE "warning"

\* What changes files that are there.
EditTools == {"edit_file", "edit_fim", "multi_edit"}

\* Mutant: the edits of several files, which name them elsewhere, are forgotten.
WithoutMultiEdit(c) ==
  IF c.tool = "write_file" THEN c.files \cap onDisk
  ELSE IF c.tool \in {"edit_file", "edit_fim"} THEN c.files ELSE {}

\* writePaths: what must have been read - every file an edit names, and a file write_file
\* finds in its place.
Overwritten(c) ==
  IF c.tool = "write_file" THEN c.files \cap onDisk
  ELSE IF c.tool \in EditTools THEN c.files ELSE {}

Output(blocked, warns) == [blocked |-> blocked, throws |-> FALSE, warns |-> warns]

BeforeOutput(i, c) ==
  CASE i = 1 -> Output(SafetyBlocks(c), SafetyBlocks(c))
    [] i = 2 -> Output(Severity(c) = "danger", Severity(c) # "none")
    [] i = 3 -> Output(~(Overwritten(c) \subseteq knownFiles), ~(Overwritten(c) \subseteq knownFiles))

\* createJournalGuard looks at these, and not at multi_edit.
JournalTools == {"write_file", "edit_file", "edit_fim", "shell"}

\* builtinRules and those of .codejournal with a pattern or banned names look for text.
Looks(rule, text) == rule.check = "text" /\ rule.mark \in text

\* JournalEngine.check: a rule that cannot be evaluated - a pattern that is none - is as if
\* it held.
Fires(rule, text) == Looks(rule, text) \/ (rule.check = "file" /\ rule.mark \in onDisk)

Violations(text) == {r \in journal : Fires(r, text)}
Blocking(rs) == {r \in rs : r.severity = "block"}

-----------------------------------------------------------------------------
(* Actions                                                                 *)

HookInit ==
  /\ hookRun = "none" /\ conversation = <<>> /\ hookCall = Nothing /\ hookAt = 1 /\ warned = {}
  /\ answer = NoAnswer /\ told = Untold /\ knownFiles = {} /\ onDisk \in SUBSET HookFiles
  /\ written = {} /\ journal \in Journals
  /\ failures = [t \in HookTools |-> 0] /\ advice = {} /\ hookCount = 0

\* A run begins: the prompt's handlers are asked.  One that blocks ends it, and Stop is told.
SubmitPrompt(outs) ==
  /\ hookRun # "open"
  /\ hookRun' = IF Passed(outs) THEN "open" ELSE "blocked"
  /\ conversation' = IF Passed(outs) THEN Messages(outs) ELSE <<>>
  /\ failures' = [t \in HookTools |-> 0] /\ advice' = {} /\ told' = Untold
  /\ UNCHANGED <<hookCall, hookAt, warned, answer, knownFiles, onDisk, written, journal, hookCount>>

\* The model calls a tool.
CallTool(c) ==
  /\ hookRun = "open" /\ hookCall = Nothing /\ hookCount < MaxHookCalls
  /\ hookCall' = c /\ hookAt' = 1 /\ warned' = {} /\ answer' = NoAnswer
  /\ hookCount' = hookCount + 1
  /\ UNCHANGED <<hookRun, conversation, told, knownFiles, onDisk, written, journal,
                 failures, advice>>

\* record: advice to search at the second failure, to give up at the fourth.
Recorded(failed) ==
  LET n == failures[hookCall.tool] + 1
  IN IF ~failed THEN UNCHANGED <<failures, advice>>
     ELSE /\ failures' = [failures EXCEPT ![hookCall.tool] = n]
          /\ advice' = advice \cup (IF n = 2 THEN {<<hookCall.tool, "search">>}
                                    ELSE IF n = 4 THEN {<<hookCall.tool, "give up">>} ELSE {})

\* The answer the model gets: the tool's, or that a hook blocked it, with the warnings.
Tell(ok, ran, why, report) ==
  /\ told' = [call |-> hookCall, ok |-> ok, ran |-> ran, why |-> why, report |-> report,
              done |-> answer.ok, marks |-> answer.marks]
  /\ hookCall' = Nothing /\ hookAt' = 1 /\ warned' = {} /\ answer' = NoAnswer
  /\ Recorded(~ok)
  /\ UNCHANGED <<hookRun, conversation, onDisk, written, journal,
                 hookCount>>

\* The next handler before the tool.
AskBefore ==
  /\ hookCall # Nothing /\ hookAt <= 3
  /\ LET out == BeforeOutput(hookAt, hookCall)
         why == IF out.warns THEN warned \cup {hookAt} ELSE warned
     IN IF out.blocked THEN Tell(FALSE, FALSE, why, {}) /\ UNCHANGED knownFiles
        ELSE /\ hookAt' = hookAt + 1 /\ warned' = why
             /\ UNCHANGED <<hookRun, conversation, hookCall, answer, told, knownFiles, onDisk,
                            written, journal, failures, advice, hookCount>>

\* Commands may make, change and delete any file.
CommandTools == {"shell", "start_service"}

\* The tool runs and leaves these files.  An edit succeeds on files that exist; the journal
\* looks only at what the tools it watches answer.
RunTool(ok, text, there) ==
  LET writes == ok /\ hookCall.tool \in EditTools \cup {"write_file"}
  IN /\ hookCall # Nothing /\ hookAt = 4 /\ (hookCall.tool \notin JournalTools => text = {})
     /\ ok /\ hookCall.tool \in EditTools \cup {"read_file"} => hookCall.files \subseteq onDisk
     /\ hookCall.tool \notin CommandTools =>
          there = IF writes THEN onDisk \cup hookCall.files ELSE onDisk
     /\ answer' = [ok |-> ok, marks |-> text] /\ hookAt' = 5
     /\ onDisk' = there
     /\ written' = IF writes THEN written \cup (hookCall.files \cap onDisk) ELSE written
     /\ UNCHANGED <<hookRun, conversation, hookCall, warned, told, knownFiles, journal,
                    failures, advice, hookCount>>

\* writeGuardAfter
RecordRead ==
  /\ hookCall # Nothing /\ hookAt = 5
  /\ knownFiles' = IF hookCall.tool = "read_file" /\ answer.ok
                   THEN knownFiles \cup hookCall.files ELSE knownFiles
  /\ hookAt' = 6
  /\ UNCHANGED <<hookRun, conversation, hookCall, warned, answer, told, onDisk, written, journal,
                 failures, advice, hookCount>>

\* The journal guard.  When a rule vetoes, runAfter hands on that the call was blocked and
\* the warnings, not the result the guard made of it: its report is gone.
GuardJournal ==
  /\ hookCall # Nothing /\ hookAt = 6
  /\ LET found == IF answer.ok /\ hookCall.tool \in JournalTools THEN Violations(answer.marks) ELSE {}
     IN IF Blocking(found) # {} THEN Tell(FALSE, TRUE, warned, {})
        ELSE Tell(answer.ok, TRUE, warned, {r \in found : r.severity = "warn"})
  /\ UNCHANGED knownFiles

\* A run ends: at its end it tells Stop; when the user cancels it or a gate has blocked too
\* often it does not.
EndRun(how) ==
  /\ hookRun = "open" /\ hookCall = Nothing
  /\ hookRun' = how
  /\ UNCHANGED <<conversation, hookCall, hookAt, warned, answer, told, knownFiles, onDisk, written,
                 journal, failures, advice, hookCount>>

HookNext ==
  \/ AskBefore \/ RecordRead \/ GuardJournal
  \/ \E outs \in HookPrompts : SubmitPrompt(outs)
  \/ \E c \in HookCalls : CallTool(c)
  \/ \E ok \in BOOLEAN, text \in Texts \cup {{}}, there \in SUBSET HookFiles : RunTool(ok, text, there)
  \/ \E how \in {"completed", "left"} : EndRun(how)

-----------------------------------------------------------------------------
(* Properties                                                              *)

\* The chain keeps its word, however many handlers and calls there were: a call refused
\* before it ran is refused with a reason; an answer told as good breaks no rule that vetoes,
\* and tells every warning; no file tool changed a file that was there and that the agent had
\* not read (a command may: the write guard does not ask for its files); and nobody is advised
\* to give up who was not told to search first.
HooksHold ==
  /\ told.call # Nothing =>
       /\ ~told.ran => told.why # {}
       /\ told.ok /\ told.call.tool \in JournalTools =>
            \A r \in journal : Looks(r, told.marks) =>
              r.severity # "block" /\ (r.severity = "warn" => r \in told.report)
  /\ written \subseteq knownFiles
  /\ \A t \in HookTools : <<t, "give up">> \in advice => <<t, "search">> \in advice

\* What hooks/builtin.ts promises of a veto: the model is told which rules it broke and what
\* to do.  It does not hold: the report is dropped on the way.
VetoIsExplained ==
  told.done /\ ~told.ok => told.why # {} \/ told.report # {}

\* Stop is told when the agent loop exits (hooks/index.ts).  It does not hold: a run that a
\* gate has blocked too often and one the user cancelled end without it.
StopIsTold == hookRun # "left"
=============================================================================
