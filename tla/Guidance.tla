------------------------------ MODULE Guidance -------------------------------
(***************************************************************************)
(* What the model is told when the ripple engine refuses an edit           *)
(* (ripple/usage-classifier.ts, ripple/verification-map.ts and             *)
(* formatRippleBlock of ripple/engine.ts): the callers with what each has  *)
(* to do, and what is to be run afterwards.  Here the model obeys: it      *)
(* takes every file it is told of into the next edit, and runs what is     *)
(* required once the edit is accepted.                                     *)
(*                                                                         *)
(* A line that uses the symbol is a file with the patterns its text        *)
(* matches; a test file is the place where the naming conventions look,    *)
(* whichever test directory and extension it has: a name, below a          *)
(* directory of the tests or beside the sources of that directory.         *)
(***************************************************************************)
EXTENDS Integers, Sequences, FiniteSets, SequencesExt

CONSTANTS
  Target,       \* the file that is edited: a directory and a name
  CallerLists,  \* what may use the symbol: sequences of lines
  ChangeKinds,  \* sets of kinds of changes the symbol may undergo together
  TestPlaces,   \* test files that may exist: a directory, a name, and whether beside the sources
  ShownCallers, \* 6: lines of callers in the message
  ShownSites,   \* 3: examples per action, tests per command
  ShownFiles    \* 10: caller files whose tests are looked for

ASSUME GuidanceAssumption ==
  /\ {ShownCallers, ShownSites, ShownFiles} \subseteq Nat
  /\ IsFiniteSet(TestPlaces)
  /\ \A uses \in CallerLists : uses \in Seq({uses[i] : i \in DOMAIN uses})

VARIABLES
  kindsNow,   \* what happens to the symbol
  usesAt,     \* the lines that use it
  testFiles,  \* the tests that exist
  taken,      \* files of the edit beside the target
  toldFiles, \* files the last refusal named
  guideStage, \* "edit", "refused", "accepted" or "done"
  testsRun    \* tests that were run afterwards

guidanceVars == <<kindsNow, usesAt, testFiles, taken, toldFiles, guideStage, testsRun>>

----------------------------------------------------------------------------
(* usage-classifier.ts: the first pattern that matches is the usage.       *)

UsageOrder ==
  <<"extends_clause", "implements_clause", "typeof_query", "re_export", "new_instance",
    "generic_arg", "jsx_element", "spread_expr", "destructure", "jsx_attr", "method_call",
    "call_expr", "type_ref">>

\* Braces around the symbol are no destructuring in an import and behind an equals sign.
Matches(line, usage) ==
  usage \in line.marks /\ (usage = "destructure" => line.marks \cap {"import", "attribute"} = {})

ClassifyOneCaller(line) ==
  LET hits == {i \in DOMAIN UsageOrder : Matches(line, UsageOrder[i])}
  IN IF hits = {} THEN "plain_ref" ELSE UsageOrder[Min(hits)]

Urgency ==
  <<"async_boundary_changed", "export_removed", "signature_changed", "return_type_changed",
    "interface_field_removed", "kind_changed">>

\* The usages that each kind of change has words of its own for.
Spoken == [k \in ToSet(Urgency) |->
  CASE k = "async_boundary_changed" ->
         {"call_expr", "method_call", "new_instance", "jsx_element", "plain_ref"}
    [] k = "export_removed" ->
         {"call_expr", "type_ref", "extends_clause", "implements_clause", "re_export", "destructure"}
    [] k = "signature_changed" -> {"call_expr", "method_call", "new_instance", "generic_arg"}
    [] k = "return_type_changed" -> {"call_expr", "type_ref", "destructure"}
    [] k = "interface_field_removed" -> {"destructure", "call_expr", "spread_expr"}
    [] k = "kind_changed" -> {"call_expr", "type_ref", "new_instance"}]

\* What a use has to do: the words of the most urgent change for it.
ResolveAction(usage, kinds) ==
  LET breaking == {i \in DOMAIN Urgency : Urgency[i] \in kinds}
      urgent   == Urgency[Min(breaking)]
  IN IF breaking = {} THEN <<"none", "any">>
     ELSE <<urgent, IF usage \in Spoken[urgent] THEN usage ELSE "any">>

ActionAt(i) == ResolveAction(ClassifyOneCaller(usesAt[i]), kindsNow)

----------------------------------------------------------------------------
(* The message of a refusal.                                               *)

\* The first lines under each action.
FormatUsageSummary ==
  {i \in DOMAIN usesAt :
     Cardinality({j \in 1..(i - 1) : ActionAt(j) = ActionAt(i)}) < ShownSites}

\* Mutant: the callers are only named under their actions.
OnlySummary == {usesAt[i].file : i \in FormatUsageSummary}

FormatRippleBlock ==
  {usesAt[i].file : i \in {j \in DOMAIN usesAt : j <= ShownCallers} \cup FormatUsageSummary}

CallerFiles == {usesAt[i].file : i \in DOMAIN usesAt}

\* A cascade is accepted when only signatures change and every caller is part of it.
Cascades == kindsNow \subseteq {"async_boundary_changed", "signature_changed",
                                "return_type_changed", "export_added"}
Accepted == Cascades /\ CallerFiles \subseteq taken

----------------------------------------------------------------------------
(* verification-map.ts                                                     *)

Test(dir, name, beside) == [dir |-> dir, name |-> name, beside |-> beside]

\* The places the conventions name for the tests of a file, in their order: by its name,
\* mirrored, in the __tests__ of its directory, and for an index file by its directory.
FindTestFiles(source) ==
  <<Test(".", source.name, FALSE), Test(source.dir, source.name, FALSE),
    Test(source.dir, source.name, TRUE),
    Test(".", IF source.name = "index" THEN source.dir ELSE source.name, FALSE)>>

\* Whose tests are looked for: those of the target, 0, then of the files that call it.
SearchedFor(i) == IF i = 0 THEN Target ELSE usesAt[i].file
Searched ==
  {0} \cup {i \in DOMAIN usesAt : Cardinality({usesAt[j].file : j \in 1..(i - 1)}) < ShownFiles}

\* Where the search comes by a test: the file it is looked for, and the place.
Looked(p) == FindTestFiles(SearchedFor(p[1]))[p[2]]
FoundAt(t) == {p \in Searched \X (1..4) : Looked(p) = t}

FoundBefore(t, u) ==
  \E p \in FoundAt(t) : \A q \in FoundAt(u) : 4 * p[1] + p[2] < 4 * q[1] + q[2]

Related == {t \in testFiles : FoundAt(t) # {}}

\* A test counts as direct when its path holds the name of the target.
Direct == {t \in Related : Target.name \in {t.name, t.dir}}

\* Mutant: with many test files the whole suite is enough.
OnlySuite == IF Cardinality(Related) <= ShownSites THEN Direct ELSE {}

\* The tests the required steps run; the others are only recommended.
BuildSteps ==
  IF Cardinality(Related) <= ShownSites THEN Direct
  ELSE {t \in Direct : Cardinality({u \in Direct : FoundBefore(u, t)}) < ShownSites}

----------------------------------------------------------------------------
GuidanceInit ==
  /\ kindsNow \in ChangeKinds
  /\ usesAt \in CallerLists
  /\ testFiles \in SUBSET TestPlaces
  /\ taken = {} /\ toldFiles = {} /\ guideStage = "edit" /\ testsRun = {}

Refuse ==
  /\ guideStage = "edit" /\ ~Accepted
  /\ guideStage' = "refused" /\ toldFiles' = FormatRippleBlock
  /\ UNCHANGED <<kindsNow, usesAt, testFiles, taken, testsRun>>

\* The model does as it is told, as long as it is told something new.
Obey ==
  /\ guideStage = "refused" /\ ~(toldFiles \subseteq taken)
  /\ guideStage' = "edit" /\ taken' = taken \cup toldFiles
  /\ UNCHANGED <<kindsNow, usesAt, testFiles, toldFiles, testsRun>>

Accept ==
  /\ guideStage = "edit" /\ Accepted
  /\ guideStage' = "accepted"
  /\ UNCHANGED <<kindsNow, usesAt, testFiles, taken, toldFiles, testsRun>>

RunRequired ==
  /\ guideStage = "accepted"
  /\ guideStage' = "done" /\ testsRun' = BuildSteps
  /\ UNCHANGED <<kindsNow, usesAt, testFiles, taken, toldFiles>>

GuidanceNext == Refuse \/ Obey \/ Accept \/ RunRequired

----------------------------------------------------------------------------
\* Whoever does as a refusal says gets the edit through: a change that can be made in one
\* edit is refused at most once more, as long as no more lines use the symbol than the
\* message lists (engine.ts:862).
ObedienceHelps ==
  guideStage = "refused" /\ Cascades /\ Len(usesAt) <= ShownCallers
    => CallerFiles \subseteq taken \cup toldFiles

\* And what it is told to run afterwards includes the tests of the file it changed, found
\* by its name in the tests, mirrored there or beside it, as long as a command has room for
\* them (verification-map.ts:235-247).
TargetIsTested ==
  guideStage = "done" /\ Cardinality(Direct) <= ShownSites
    => \A t \in testFiles :
         t \in {Test(".", Target.name, FALSE)}
                 \cup {Test(Target.dir, Target.name, beside) : beside \in BOOLEAN}
           => t \in testsRun

\* A refusal names every caller the edit has to take along.  It does not hold: it lists
\* six lines and three per action, the same ones every time, while ten are accepted.
CallersAreNamed ==
  guideStage = "refused" /\ Cascades => CallerFiles \subseteq taken \cup toldFiles

\* A line that calls a function that becomes asynchronous is told to await it
\* (usage-classifier.ts:8).  It does not hold for a line that matches another pattern
\* first, such as a check with typeof in front of the call.
CallsAreAwaited ==
  "async_boundary_changed" \in kindsNow =>
    \A i \in DOMAIN usesAt : "call_expr" \in usesAt[i].marks =>
      ActionAt(i) = <<"async_boundary_changed", "call_expr">>
=============================================================================
