------------------------------- MODULE MCGates -------------------------------
(* Small instances of Ripple, Guidance, ToolGate, Intake, HookChain, Shell and       *)
(* FileState, in one run: each is explored with the others at rest.  The ripple      *)
(* engine sees three files, one of which declares a function and a class; a refusal *)
(* is about up to five lines; the tool round gets eight answers of the model, the   *)
(* hooks five calls, the shell three commands, the ledger one file of three bodies. *)
EXTENDS Ripple, Guidance, ToolGate, Intake, HookChain, Shell, FileState

Shape(kind, header, async, fields) ==
  [kind |-> kind, exported |-> TRUE, header |-> header, async |-> async, returns |-> "r",
   fields |-> fields]

Content(api, uses) == [api |-> api, uses |-> uses]
None == [n \in {} |-> {}]
Lib(f, m) == Content([n \in {"f", "C", "C.m"} |->
  CASE n = "f" -> f [] n = "C" -> Shape("class", "c", FALSE, {"C.m"})
    [] n = "C.m" -> Shape("function", m, FALSE, {})], {})
Plain == Shape("function", "f0", FALSE, {})

MCSources == {"lib", "a", "b"}
MCOwner == [n \in {"f", "C", "C.m"} |-> IF n = "C.m" THEN "C" ELSE n]
MCContents == [s \in MCSources |->
  CASE s = "lib" -> {Lib(Plain, "m0"), Lib(Shape("function", "f1", TRUE, {}), "m0"),
                     Lib(Plain, "m1"),
                     Content([n \in {"C", "C.m"} |-> Lib(Plain, "m0").api[n]], {})}
    [] s = "a" -> {Content(None, {"f"})}
    [] s = "b" -> {Content(None, {"C"}), Content(None, {"f", "C"})}]
MCStart == [s \in MCSources |->
  CASE s = "lib" -> Lib(Plain, "m0") [] s = "a" -> Nil [] s = "b" -> Content(None, {"f", "C"})]

\* A file that is changed, one of the same name, an index file and one of its neighbours.
File(dir, name) == [dir |-> dir, name |-> name]
MCTarget == File("ripple", "engine")
Line(file, marks) == [file |-> file, marks |-> marks]
MCLines == {Line(File("ui", "engine"), {"call_expr"}), Line(File("ripple", "index"), {"re_export"}),
  Line(File("ripple", "types"), {"typeof_query", "call_expr"}),
  Line(File("ripple", "index"), {"call_expr"}), Line(File("ripple", "types"), {"call_expr"})}
MCCallerLists == SeqOf(MCLines, 3) \cup {SetToSeq(MCLines)}
MCKinds == {{"signature_changed"}, {"async_boundary_changed", "return_type_changed"},
            {"export_removed"}, {"export_added"}}
MCTestPlaces == {Test(".", "engine", FALSE), Test("ripple", "engine", FALSE),
  Test("ripple", "engine", TRUE), Test("ui", "engine", FALSE), Test(".", "ripple", FALSE)}

Descriptor(category, readonly, risk, declared) ==
  [category |-> category, readonly |-> readonly, risk |-> risk, declared |-> declared,
   streams |-> category = "shell", concurrent |-> TRUE]

MCTools == [t \in {"read_file", "write_file", "edit_file", "web_fetch", "web_search", "shell"} |->
  CASE t = "read_file" -> Descriptor("safe", TRUE, 0, "none")
    [] t \in {"write_file", "edit_file"} -> Descriptor("file", FALSE, 2, "none")
    [] t \in {"web_fetch", "web_search"} -> Descriptor("network", TRUE, 3, "none")
    [] t = "shell" -> Descriptor("shell", FALSE, 4, "none")]

On(tool, files) == [tool |-> tool, files |-> files, matches |-> "nothing"]
Read(f) == On("read_file", {f})
Fetch == On("web_fetch", {})
Search == On("web_search", {})
Run == On("shell", {})

MCBatches == {<<Read("f"), Read("g")>>, <<Read("f"), On("edit_file", {"f"})>>,
  <<On("write_file", {"f"}), On("edit_file", {"f"})>>, <<Fetch, Fetch, Read("f")>>,
  <<Search, Search>>, <<Run, Run>>, <<[Run EXCEPT !.matches = "global deny"]>>,
  <<[Run EXCEPT !.matches = "safety policy"]>>}

NoRules == [side \in {"userDeny", "userAllow", "projectDeny", "projectAllow"} |-> {}]
MCRules == {NoRules, [NoRules EXCEPT !["projectAllow"] = DOMAIN MCTools],
  [NoRules EXCEPT !["userDeny"] = {"edit_file"}, !["projectAllow"] = DOMAIN MCTools]}
MCGates == {{}, {"planning"}, {"ripple", "mode contract"}}
MCCaps == [c \in {"file", "network", "shell"} |-> 1]

\* The project of Intake: documents, a source, its test and a file of another root.
MCListing == <<"ORCANA.md", "package.json", "src/a", "test/a">>
MCDir == [f \in ToSet(MCListing) |->
  CASE f = "src/a" -> "src" [] f = "test/a" -> "test" [] OTHER -> "."]
MCMentions == [f \in ToSet(MCListing) |-> [w \in {"a"} |-> 1]]
MCDefines == [f \in ToSet(MCListing) |-> IF f = "src/a" THEN 10 ELSE 0]
MCPrompts == {"make it", "explain", "answers"}
MCSays == [p \in MCPrompts |->
  CASE p = "make it" -> {"execute", "project", "structure"} [] p = "explain" -> {"discuss"}
    [] p = "answers" -> {"search"}]
MCWords == [p \in MCPrompts |-> IF p = "answers" THEN {} ELSE {"a"}]

HookCall(tool, files, traits) == [tool |-> tool, files |-> files, traits |-> traits]
MCHookCalls == {HookCall("read_file", {"h"}, {}), HookCall("write_file", {"h"}, {}),
  HookCall("multi_edit", {"h"}, {}), HookCall("shell", {}, {"git"}),
  HookCall("shell", {}, {"git", "outside"})}
Handler(throws, context, replaces) ==
  [blocked |-> FALSE, throws |-> throws, context |-> context, replaces |-> replaces]
MCHookPrompts == {<<>>, <<Handler(FALSE, TRUE, TRUE), Handler(FALSE, TRUE, FALSE)>>,
  <<Handler(FALSE, FALSE, TRUE), Handler(TRUE, FALSE, FALSE)>>}
Rule(severity, check, mark) == [severity |-> severity, check |-> check, mark |-> mark]
MCJournals == {{}, {Rule("block", "text", "secret"), Rule("warn", "text", "console"),
                    Rule("block", "broken", "x")}}

ShellCommand(names, writes, sandboxed, serves) ==
  [names |-> names, writes |-> writes, sandboxed |-> sandboxed, serves |-> serves,
   blocklisted |-> FALSE]
MCShellCommands == [c \in {"install", "tee", "dev"} |->
  CASE c = "install" -> ShellCommand({}, FALSE, TRUE, FALSE)
    [] c = "tee" -> ShellCommand({"r"}, TRUE, FALSE, FALSE)
    [] c = "dev" -> ShellCommand({}, FALSE, FALSE, TRUE)]

-----------------------------------------------------------------------------
RippleRests ==
  /\ disk = Start /\ snapshot = NotBuilt /\ listing = NotListed /\ cascade = {}
  /\ budget = "normal" /\ undo = Start /\ touched = {} /\ reports = {} /\ pending = {}
  /\ round = MaxRounds /\ calls = MaxCalls /\ last = NoCall /\ asked = {}
  /\ followed = [f \in Sources |-> 0]

GuidanceRests ==
  /\ kindsNow = {} /\ usesAt = <<>> /\ testFiles = {} /\ taken = {} /\ toldFiles = {}
  /\ guideStage = "done" /\ testsRun = {}

ASSUME RestAssumption == NoRules \in RuleSets

ToolsRest ==
  /\ mode = "full" /\ rules = NoRules /\ toolRound = MaxToolRounds /\ phase = "calls"
  /\ closed = {} /\ batch = <<>> /\ at = 1 /\ ruling = <<>> /\ parallel = FALSE
  /\ used = NoneUsed /\ fate = <<>> /\ late = {} /\ present = {} /\ readFiles = {}
  /\ seen = {} /\ searchDown = FALSE

IntakeRests ==
  history = <<>> /\ run = Rest /\ wizard = FALSE /\ project = {} /\ prompts = MaxPrompts + 1

HooksRest ==
  /\ hookRun = "none" /\ conversation = <<>> /\ hookCall = Nothing /\ hookAt = 1 /\ warned = {}
  /\ answer = NoAnswer /\ told = Untold /\ knownFiles = {} /\ onDisk = {} /\ written = {}
  /\ journal = {} /\ failures = [t \in HookTools |-> 0] /\ advice = {}
  /\ hookCount = MaxHookCalls + 1

ShellRests ==
  /\ shellRun = MaxShellRuns /\ running = FALSE /\ sandbox = NoSandbox /\ blockedFiles = {}
  /\ handles = {} /\ left = {} /\ command = 0 /\ issued = NoCommands /\ process = NoCommands
  /\ exitCode = NoCommands /\ children = {} /\ inJob = {} /\ results = NoCommands

LedgerRests ==
  /\ holds = [f \in LedgerFiles |-> Gone] /\ inHand = [f \in LedgerFiles |-> Nobody]
  /\ ledger = [f \in LedgerFiles |-> Nobody] /\ noted = [f \in LedgerFiles |-> Nobody]
  /\ lapsed = {} /\ authorised = Nobody

Init ==
  \/ RippleInit /\ GuidanceRests /\ ToolsRest /\ IntakeRests /\ HooksRest /\ ShellRests /\ LedgerRests
  \/ RippleRests /\ GuidanceInit /\ ToolsRest /\ IntakeRests /\ HooksRest /\ ShellRests /\ LedgerRests
  \/ RippleRests /\ GuidanceRests /\ ToolGateInit /\ IntakeRests /\ HooksRest /\ ShellRests /\ LedgerRests
  \/ RippleRests /\ GuidanceRests /\ ToolsRest /\ IntakeInit /\ HooksRest /\ ShellRests /\ LedgerRests
  \/ RippleRests /\ GuidanceRests /\ ToolsRest /\ IntakeRests /\ HookInit /\ ShellRests /\ LedgerRests
  \/ RippleRests /\ GuidanceRests /\ ToolsRest /\ IntakeRests /\ HooksRest /\ ShellInit /\ LedgerRests
  \/ RippleRests /\ GuidanceRests /\ ToolsRest /\ IntakeRests /\ HooksRest /\ ShellRests /\ FileStateInit

OthersRest == RippleRests /\ GuidanceRests /\ ToolsRest /\ IntakeRests /\ HooksRest /\ ShellRests

Next ==
  \/ RippleNext /\ UNCHANGED <<guidanceVars, gateVars, intakeVars, hookVars, shellVars, fileVars>>
  \/ GuidanceNext /\ UNCHANGED <<rippleVars, gateVars, intakeVars, hookVars, shellVars, fileVars>>
  \/ ToolGateNext /\ UNCHANGED <<rippleVars, guidanceVars, intakeVars, hookVars, shellVars, fileVars>>
  \/ prompts <= MaxPrompts /\ IntakeNext
       /\ UNCHANGED <<rippleVars, guidanceVars, gateVars, hookVars, shellVars, fileVars>>
  \/ hookCount <= MaxHookCalls /\ HookNext
       /\ UNCHANGED <<rippleVars, guidanceVars, gateVars, intakeVars, shellVars, fileVars>>
  \/ ShellNext /\ UNCHANGED <<rippleVars, guidanceVars, gateVars, intakeVars, hookVars, fileVars>>
  \/ OthersRest /\ FileStateNext
       /\ UNCHANGED <<rippleVars, guidanceVars, gateVars, intakeVars, hookVars, shellVars>>

gates == <<rippleVars, guidanceVars, gateVars, intakeVars, hookVars, shellVars, fileVars>>

Spec == Init /\ [][Next]_gates /\ ToolGateFairness

\* What changes files does so by right: tools run as the rules allow and between their hooks,
\* a risky run writes only where it has understood the project it was asked about, what the
\* shell started in the job ends with the run, unless one was left, and an edit is authorised
\* of what the agent knows.
WritesByRight ==
  RunsByRight /\ RiskIsUnderstood /\ AnswersAreHeard /\ HooksHold /\ ProcessesEnd
    /\ EditsAreInformed

\* No caller is forgotten: one that was left alone stays owed, one that a refusal is about
\* is named by it, and the tests of the changed file are among those that are required.
CallersAreServed == CallersFollow /\ ObedienceHelps /\ TargetIsTested
=============================================================================
