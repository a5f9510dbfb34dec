------------------------------- MODULE Ripple -------------------------------
(***************************************************************************)
(* The ripple engine (ripple/): what an edit does to the API of a file,    *)
(* who calls it, whether the write tools may go ahead, and the callers the *)
(* agent then owes an update (agent/loop.ts).                              *)
(*                                                                         *)
(* The content of a source is what the engine reads of it: the shape of    *)
(* each symbol it declares and the names of other files it uses.  A member *)
(* of a class is a symbol with an owner.  A caller is a file and the       *)
(* symbol it names, on one line: the code's thresholds count lines, and of *)
(* more than fifty it forgets the rest, when ten already refuse the edit.  *)
(* What a refusal says of them - usage kinds, verification steps, cascade  *)
(* plans - decides nothing here: it is in Guidance.                        *)
(***************************************************************************)
EXTENDS Naturals, FiniteSets

CONSTANTS
  Sources,      \* TypeScript files
  Contents,     \* of each source what it may hold
  Start,        \* what the sources hold at first
  Nil,          \* nothing: no file, program, list or call
  Owner,        \* of each symbol the name it is looked for by: itself, or its class
  Remembered,   \* sources some project memory matches
  AstGrep,      \* whether ast-grep is installed and answers
  MaxAffected,  \* 10: MAX_AFFECTED_CALLERS
  DeepNames,    \* 2 and 3: more names and callers than these are a warning
  DeepCallers,
  TightCallers, \* 2: more callers than these block a write while the context is short
  MaxRounds,    \* bounds on the rounds and on the calls of the write tools
  MaxCalls

Missing == Nil    \* the source does not exist
NotBuilt == Nil   \* no program yet
NotListed == Nil  \* no file list, or one that is too old
NoCall == Nil

Held == UNION {Contents[f] : f \in Sources} \cup {Missing}
Symbols == DOMAIN Owner

\* What a source declares is known by name, and so is what a name is looked for by.
ASSUME RippleAssumption ==
  /\ AstGrep \in BOOLEAN /\ Start \in [Sources -> Held] /\ Owner \in [Symbols -> Symbols]
  /\ \A c \in Held \ {Missing} :
       /\ DOMAIN c.api \subseteq Symbols
       /\ \A n \in DOMAIN c.api : c.api[n].fields \subseteq Symbols
  /\ MaxAffected \in Nat /\ DeepNames \in Nat /\ DeepCallers \in Nat
  /\ TightCallers \in Nat /\ MaxRounds \in Nat \ {0} /\ MaxCalls \in Nat

VARIABLES
  disk,      \* what each source holds
  snapshot,  \* the sources as the type checker's program read them
  listing,   \* _fileListCache: the sources found by the last walk
  cascade,   \* _pendingCascadeFiles
  budget,    \* the context budget mode
  undo,      \* what the last transaction can be rolled back to
  touched,   \* modifiedFilesThisRound
  reports,   \* rippleReportsThisRound
  pending,   \* pendingRippleObligations
  round,
  calls,     \* calls of the write tools
  last,      \* the last write call of the round: its files, its reports, whether it wrote
  asked,     \* callers ever reported that their round left alone, with that round
  followed   \* the last round that wrote each source and verified, 0 for none

rippleVars == <<disk, snapshot, listing, cascade, budget, undo, touched, reports,
                pending, round, calls, last, asked, followed>>

Obligations == [target : Sources, symbol : Symbols, caller : Sources]

RippleTypeOK ==
  /\ disk \in [Sources -> Held]
  /\ snapshot = NotBuilt \/ snapshot \in [Sources -> Held]
  /\ listing = NotListed \/ listing \subseteq Sources
  /\ cascade \subseteq Sources
  /\ budget \in {"normal", "degraded"} /\ undo \in [Sources -> Held]
  /\ touched \subseteq Sources
  /\ pending \subseteq Obligations
  /\ round \in 1..MaxRounds /\ calls \in 0..MaxCalls
  /\ followed \in [Sources -> 0..MaxRounds]

RippleInit ==
  /\ disk = Start /\ snapshot = NotBuilt /\ listing = NotListed /\ cascade = {}
  /\ budget = "normal" /\ undo = Start /\ touched = {} /\ reports = {} /\ pending = {}
  /\ round = 1 /\ calls = 0 /\ last = NoCall /\ asked = {} /\ followed = [f \in Sources |-> 0]

-----------------------------------------------------------------------------
(* api-diff.ts *)

Api(content) == IF content = Missing THEN [n \in {} |-> {}] ELSE content.api
Uses(content) == IF content = Missing THEN {} ELSE content.uses

ComputeSeverity(kind, exported) ==
  CASE kind \in {"export_removed", "async_boundary_changed", "interface_field_removed"} -> "block"
    [] kind \in {"signature_changed", "kind_changed"} -> IF exported THEN "block" ELSE "warn"
    [] kind = "return_type_changed" -> IF exported THEN "warn" ELSE "info"
    [] OTHER -> "info"

Change(kind, symbol, exported) ==
  [kind |-> kind, symbol |-> symbol, severity |-> ComputeSeverity(kind, exported)]

\* One symbol declared before and after; every kind that applies is reported.
SymbolChanges(n, o, w) ==
  LET changed == {k \in {"kind_changed", "async_boundary_changed", "signature_changed",
                         "return_type_changed"} :
                    \/ k = "kind_changed" /\ o.kind # w.kind
                    \/ k = "async_boundary_changed" /\ o.async # w.async
                    \/ k = "signature_changed" /\ o.header # w.header
                    \/ k = "return_type_changed" /\ o.returns # w.returns}
      removed == IF o.kind \in {"interface", "class"} THEN o.fields \ w.fields ELSE {}
      added == IF o.kind \in {"interface", "class"} THEN w.fields \ o.fields ELSE {}
      exported == o.exported \/ w.exported
  IN {Change(k, n, exported) : k \in changed}
       \cup {Change("interface_field_removed", m, exported) : m \in removed}
       \cup {Change("interface_field_added", m, exported) : m \in added}

DiffApi(old, new) ==
  {Change("export_removed", n, TRUE) : n \in {x \in DOMAIN old \ DOMAIN new : old[x].exported}}
    \cup {Change("export_added", n, TRUE) : n \in {x \in DOMAIN new \ DOMAIN old : new[x].exported}}
    \cup UNION {SymbolChanges(n, old[n], new[n]) : n \in DOMAIN old \cap DOMAIN new}

-----------------------------------------------------------------------------
(* Who calls what changed.                                                 *)

Exported(api, n) == n \in DOMAIN api /\ api[n].exported
Callable(api, n) == n \in DOMAIN api /\ (api[n].exported \/ api[n].kind = "function")

\* The names callers are looked for by: a member counts as its class, and a field
\* that is no symbol of its own is not looked for.
Relevant(old, new) ==
  {Owner[c.symbol] : c \in {d \in DiffApi(old, new) :
      Callable(old, d.symbol) \/ Callable(new, d.symbol)}}

Existing(d) == {f \in Sources : d[f] # Missing}
Listed == IF listing = NotListed THEN Existing(disk) ELSE listing

\* The text scan: every file of the list that names one of the symbols.
TextCallers(target, names) ==
  {c \in (Listed \ {target}) \X names : c[2] \in Uses(disk[c[1]])}

\* The type checker resolves the place of each exported symbol in the program it
\* built, which may have moved since.
SemanticCallers(target, names, old) ==
  IF snapshot[target] # disk[target] THEN {}
  ELSE {c \in (Existing(snapshot) \ {target}) \X names :
          Exported(old, c[2]) /\ c[2] \in Uses(snapshot[c[1]])}

\* ast-grep asks the files as they are.
AstGrepCallers(target, names) ==
  {c \in (Existing(disk) \ {target}) \X names : AstGrep /\ c[2] \in Uses(disk[c[1]])}

\* While there is no program what the text scan found is not verified either.
FindCallers(target, names, old) ==
  (IF snapshot = NotBuilt THEN TextCallers(target, names)
   ELSE SemanticCallers(target, names, old)) \cup AstGrepCallers(target, names)

\* The first preview builds the program the type checker answers from; the text scan
\* runs beside it and walks the project when it has no fresh list.
LooksUp(names) ==
  /\ snapshot' = IF snapshot = NotBuilt THEN disk ELSE snapshot
  /\ listing' = IF names # {} THEN Listed ELSE listing

-----------------------------------------------------------------------------
(* previewEdit and the decisions.                                          *)

Finding(severity, kind) == [severity |-> severity, kind |-> kind]

\* What one change gives rise to; callers are those of the very symbol, so a member,
\* whose callers are found under its class, has none.
ChangeFindings(c, callers) ==
  LET called == \E x \in callers : x[2] = c.symbol IN
  CASE c.kind = "export_removed" -> {Finding("block", "exported-symbol-removal")}
    [] c.kind = "async_boundary_changed" /\ called -> {Finding("block", "async-return-change")}
    [] c.kind = "signature_changed" /\ called -> {Finding(c.severity, "signature-change")}
    [] c.kind = "return_type_changed" /\ called /\ c.severity = "warn" ->
         {Finding("warn", "signature-change")}
    [] c.kind = "interface_field_removed" -> {Finding("block", "exported-type-change")}
    [] c.kind = "kind_changed" -> {Finding(c.severity, "exported-type-change")}
    [] OTHER -> {}

ChangedNames(changes) == {Owner[c.symbol] : c \in changes}

SizeFindings(changes, callers) ==
  IF Cardinality(callers) > MaxAffected THEN {Finding("block", "caller-overflow")}
  ELSE IF Cardinality(ChangedNames(changes)) > DeepNames /\ Cardinality(callers) > DeepCallers
       THEN {Finding("warn", "depth-warning")} ELSE {}

Decide(findings) ==
  IF \E x \in findings : x.severity = "block" THEN "block"
  ELSE IF \E x \in findings : x.severity = "warn" THEN "warn" ELSE "allow"

PreviewEdit(target, new) ==
  LET old == Api(disk[target])
      changes == DiffApi(old, Api(new))
      callers == FindCallers(target, Relevant(old, Api(new)), old)
      findings == UNION {ChangeFindings(c, callers) : c \in changes}
                    \cup SizeFindings(changes, callers)
                    \cup (IF target \in Remembered THEN {Finding("warn", "memory-contract")} ELSE {})
  IN [target |-> target, changes |-> changes, callers |-> callers, findings |-> findings,
      decision |-> Decide(findings)]

TightenRippleDecision(r) ==
  IF r.decision = "block" THEN IF r.target \in cascade THEN "warn" ELSE "block"
  ELSE IF budget = "degraded" /\ (r.decision = "warn" \/ Cardinality(r.callers) > TightCallers)
       THEN "block" ELSE r.decision

CascadeKinds == {"signature-change", "async-return-change"}

\* Mutant: the callers need not be part of the edit.
CoversNothing(r, files) ==
  r.findings # {} /\ \A x \in r.findings : x.kind \in CascadeKinds

\* A cascade: every caller is part of the edit, and nothing but signatures breaks.
IsCascade(r, files) ==
  /\ \A c \in r.callers : c[1] \in files
  /\ r.findings # {} /\ \A x \in r.findings : x.kind \in CascadeKinds

CascadeAwareDecision(r, files) ==
  IF IsCascade(r, files) THEN "allow" ELSE TightenRippleDecision(r)

-----------------------------------------------------------------------------
(* The write tools.  A warning refuses a write as a block does.            *)

Names(new) == UNION {Relevant(Api(disk[f]), Api(new[f])) : f \in DOMAIN new}

Written(new, rs) ==
  /\ disk' = [f \in Sources |-> IF f \in DOMAIN new THEN new[f] ELSE disk[f]]
  /\ undo' = disk
  /\ touched' = touched \cup DOMAIN new
  /\ reports' = reports \cup rs

Counted == calls < MaxCalls /\ calls' = calls + 1

Call(new, rs, allowed) ==
  /\ Counted
  /\ LooksUp(Names(new))
  /\ last' = [files |-> DOMAIN new, reports |-> rs, wrote |-> allowed]
  /\ IF allowed THEN Written(new, rs)
     ELSE UNCHANGED <<disk, undo, touched, reports>>
  /\ UNCHANGED <<cascade, budget, pending, round, asked, followed>>

\* write_file, edit_file, edit_fim
WriteOne ==
  \E f \in Sources : \E c \in Contents[f] :
    LET r == PreviewEdit(f, c) IN
    /\ c # disk[f]
    /\ Call([x \in {f} |-> c], {r}, TightenRippleDecision(r) = "allow")

\* multi_edit: all the files or none; it edits files that exist.
MultiEdit ==
  \E files \in SUBSET Existing(disk) : \E new \in [files -> Held] :
    LET rs == {PreviewEdit(f, new[f]) : f \in files} IN
    /\ files # {} /\ \A f \in files : new[f] \in Contents[f] \ {disk[f]}
    /\ Call(new, rs, \A r \in rs : CascadeAwareDecision(r, files) = "allow")

\* rollback_transaction: the files come back with no preview.
Rollback ==
  LET back == {f \in Sources : undo[f] # disk[f]} IN
  /\ back # {}
  /\ Counted
  /\ disk' = undo
  /\ touched' = touched \cup back
  /\ last' = NoCall
  /\ UNCHANGED <<snapshot, listing, cascade, budget, undo, reports, pending, round, asked, followed>>

\* The five seconds of the file list run out.
ListExpires ==
  /\ listing # NotListed
  /\ listing' = NotListed
  /\ UNCHANGED <<disk, snapshot, cascade, budget, undo, touched, reports, pending, round,
                 calls, last, asked, followed>>

-----------------------------------------------------------------------------
(* The end of a round (loop.ts): obligations are settled and taken on.     *)

Callers(r) == {[target |-> r.target, symbol |-> c[2], caller |-> c[1]] : c \in r.callers}

ObligationsFromReport(r) ==
  IF r.changes = {} THEN {} ELSE {o \in Callers(r) : o.caller \notin touched}

ResolveObligations(passed) ==
  IF passed THEN {o \in pending : o.caller \notin touched} ELSE pending

\* Mutant: the obligations of this round replace those of earlier ones.
OnlyThisRound(passed) ==
  IF reports = {} THEN ResolveObligations(passed)
  ELSE UNION {ObligationsFromReport(r) : r \in reports}

StillPending(passed) ==
  ResolveObligations(passed) \cup UNION {ObligationsFromReport(r) : r \in reports}

\* The verification of the files of the round passes or not; nothing is settled and
\* nothing taken on when the round wrote nothing.
EndRound ==
  \E passed \in BOOLEAN, mode \in {"normal", "degraded"} :
    /\ round < MaxRounds
    /\ round' = round + 1
    /\ IF touched = {} THEN UNCHANGED <<pending, cascade, asked, followed>>
       ELSE /\ pending' = StillPending(passed)
            /\ cascade' = {o.target : o \in pending'}
            /\ asked' = asked \cup {[owed |-> o, in |-> round] :
                           o \in UNION {ObligationsFromReport(r) : r \in reports}}
            /\ followed' = [f \in Sources |-> IF passed /\ f \in touched THEN round ELSE followed[f]]
    /\ touched' = {} /\ reports' = {}
    /\ budget' = mode
    /\ last' = NoCall
    /\ UNCHANGED <<disk, snapshot, listing, undo, calls>>

RippleNext == WriteOne \/ MultiEdit \/ Rollback \/ ListExpires \/ EndRound

-----------------------------------------------------------------------------
\* A write that breaks a signature is part of one edit with every caller that was
\* found for it, and no write takes an exported symbol or a field away: previewEdit,
\* the tightening, the cascade leniency and the tools agree on that.
BreaksAreCovered ==
  last # NoCall /\ last.wrote =>
    \A r \in last.reports : \A c \in r.changes :
      /\ c.kind \notin {"export_removed", "interface_field_removed"}
      /\ c.kind \in {"signature_changed", "async_boundary_changed"} =>
           \A x \in r.callers : x[2] = c.symbol => x[1] \in last.files

\* A caller that the round of its report left alone stays owed until a later round
\* wrote it and verified: no merge, no other report and no failed round drops it.
CallersFollow ==
  \A a \in asked : a.owed \in pending \/ followed[a.owed.caller] > a.in

\* What a refused write is told to do works: an edit of several files that takes every
\* caller along is accepted.  It does not hold for a symbol or a field that goes away.
CascadeIsAccepted ==
  last # NoCall /\ Cardinality(last.files) > 1
    /\ (\A r \in last.reports : \A c \in r.callers : c[1] \in last.files) => last.wrote

\* Every file that uses a changed symbol is among the callers that are reported.  It
\* does not hold: the program is built once and answers for the sources of then, and
\* a file list younger than five seconds knows no newer file.
CallersAreCurrent ==
  [][calls' # calls /\ last' # NoCall =>
       \A r \in last'.reports : \A f \in Sources \ {r.target} :
         \A n \in ChangedNames(r.changes) \cap Uses(disk[f]) : <<f, n>> \in r.callers]_rippleVars
=============================================================================
