------------------------------ MODULE GateProofs ------------------------------
(***************************************************************************)
(* What is proved of the gates a write passes, for every project, every    *)
(* set of tools and every rule: the ripple engine (Ripple) lets no break   *)
(* through that leaves a caller it found behind, and forgets no caller it  *)
(* owes; the tool round (ToolGate) runs what changes something alone, and  *)
(* nothing that a rule denies; then the text of a refusal (Guidance), the  *)
(* way from a prompt to its run (Intake), the hooks around a call          *)
(* (HookChain), the processes of the shell (Shell), and all together.      *)
(***************************************************************************)
EXTENDS MCGates, FiniteSetTheorems, TLAPS

(* The kinds and severities of the changes between two declarations.       *)
LEMMA ChangeGraded ==
  ASSUME NEW old, NEW new, NEW c \in DiffApi(old, new)
  PROVE  c.kind = "signature_changed" => c.severity \in {"block", "warn"}
<1>1. CASE \E n : c = Change("export_removed", n, TRUE)
  BY <1>1 DEF Change
<1>2. CASE \E n : c = Change("export_added", n, TRUE)
  BY <1>2 DEF Change
<1>3. CASE \E n : c \in SymbolChanges(n, old[n], new[n])
  <2>1. PICK n : c \in SymbolChanges(n, old[n], new[n])
    BY <1>3
  <2>2. \E k, m, exported : c = Change(k, m, exported)
    BY <2>1 DEF SymbolChanges
  <2> QED
    BY <2>2 DEF Change, ComputeSeverity
<1> QED
  BY <1>1, <1>2, <1>3 DEF DiffApi

(* The parts of a report.                                                  *)
LEMMA ReportParts ==
  ASSUME NEW target, NEW new, NEW r, r = PreviewEdit(target, new)
  PROVE  /\ r.target = target
         /\ r.changes = DiffApi(Api(disk[target]), Api(new))
         /\ r.callers = FindCallers(target, Relevant(Api(disk[target]), Api(new)),
                                    Api(disk[target]))
         /\ \A c \in r.changes : ChangeFindings(c, r.callers) \subseteq r.findings
         /\ r.decision = Decide(r.findings)
BY DEF PreviewEdit

(* A report that is let through holds no break with a caller.              *)
LEMMA AllowedBreaksNothing ==
  ASSUME NEW target, NEW new, NEW r, r = PreviewEdit(target, new), r.decision = "allow",
         NEW c \in r.changes
  PROVE  /\ c.kind \notin {"export_removed", "interface_field_removed"}
         /\ c.kind \in {"signature_changed", "async_boundary_changed"} =>
              \A x \in r.callers : x[2] # c.symbol
<1>1. \A f \in r.findings : f.severity \notin {"block", "warn"}
  BY ReportParts DEF Decide
<1>2. \A f \in ChangeFindings(c, r.callers) : f.severity \notin {"block", "warn"}
  BY <1>1, ReportParts
<1>3. c.kind = "signature_changed" => c.severity \in {"block", "warn"}
  BY ChangeGraded, ReportParts
<1>4. c.kind # "export_removed"
  BY <1>2 DEF ChangeFindings, Finding
<1>5. c.kind # "interface_field_removed"
  BY <1>2 DEF ChangeFindings, Finding
<1>6. c.kind = "signature_changed" => \A x \in r.callers : x[2] # c.symbol
  BY <1>2, <1>3 DEF ChangeFindings, Finding
<1>7. c.kind = "async_boundary_changed" => \A x \in r.callers : x[2] # c.symbol
  BY <1>2 DEF ChangeFindings, Finding
<1> QED
  BY <1>4, <1>5, <1>6, <1>7

Covered(r, files) ==
  \A c \in r.changes :
    /\ c.kind \notin {"export_removed", "interface_field_removed"}
    /\ c.kind \in {"signature_changed", "async_boundary_changed"} =>
         \A x \in r.callers : x[2] = c.symbol => x[1] \in files

LEMMA TightenedIsCovered ==
  ASSUME NEW target, NEW new, NEW r, r = PreviewEdit(target, new), NEW files,
         TightenRippleDecision(r) = "allow"
  PROVE  Covered(r, files)
<1>1. r.decision = "allow"
  BY DEF TightenRippleDecision
<1> QED
  BY <1>1, AllowedBreaksNothing DEF Covered

LEMMA CascadeIsCovered ==
  ASSUME NEW target, NEW new, NEW r, r = PreviewEdit(target, new), NEW files,
         CascadeAwareDecision(r, files) = "allow"
  PROVE  Covered(r, files)
<1>1. CASE IsCascade(r, files)
  <2>1. SUFFICES ASSUME NEW c \in r.changes
                 PROVE  c.kind \notin {"export_removed", "interface_field_removed"}
    BY <1>1 DEF IsCascade, Covered
  <2>2. \A f \in ChangeFindings(c, r.callers) : f.kind \in CascadeKinds
    BY <1>1, ReportParts DEF IsCascade
  <2>3. c.kind # "export_removed"
    BY <2>2 DEF ChangeFindings, Finding, CascadeKinds
  <2>4. c.kind # "interface_field_removed"
    BY <2>2 DEF ChangeFindings, Finding, CascadeKinds
  <2> QED
    BY <2>3, <2>4
<1>2. CASE ~IsCascade(r, files)
  BY <1>2, TightenedIsCovered DEF CascadeAwareDecision
<1> QED
  BY <1>1, <1>2

LEMMA CallCovered ==
  ASSUME NEW new, NEW rs, NEW allowed, Call(new, rs, allowed),
         allowed => \A r \in rs : Covered(r, DOMAIN new)
  PROVE  BreaksAreCovered'
<1>1. last' = [files |-> DOMAIN new, reports |-> rs, wrote |-> allowed]
  BY DEF Call
<1>2. last'.files = DOMAIN new /\ last'.reports = rs /\ last'.wrote = allowed
  BY <1>1
<1>3. CASE allowed
  <2>1. \A r \in last'.reports : Covered(r, last'.files)
    BY <1>2, <1>3
  <2> QED
    BY <2>1 DEF BreaksAreCovered, Covered
<1>4. CASE ~allowed
  BY <1>2, <1>4 DEF BreaksAreCovered
<1> QED
  BY <1>3, <1>4

LEMMA BreaksNext == ASSUME BreaksAreCovered, [RippleNext]_rippleVars PROVE BreaksAreCovered'
<1>1. CASE WriteOne
  <2>1. PICK f, c :
          Call([x \in {f} |-> c], {PreviewEdit(f, c)},
               TightenRippleDecision(PreviewEdit(f, c)) = "allow")
    BY <1>1 DEF WriteOne
  <2> DEFINE w == [x \in {f} |-> c]
             rs == {PreviewEdit(f, c)}
             allowed == TightenRippleDecision(PreviewEdit(f, c)) = "allow"
  <2>2. allowed => \A r \in rs : Covered(r, DOMAIN w)
    BY TightenedIsCovered
  <2>3. Call(w, rs, allowed)
    BY <2>1
  <2> HIDE DEF w, rs, allowed
  <2> QED
    BY <2>2, <2>3, CallCovered
<1>2. CASE MultiEdit
  <2>1. PICK files : \E w \in [files -> Held] :
          Call(w, {PreviewEdit(f, w[f]) : f \in files},
               \A r \in {PreviewEdit(f, w[f]) : f \in files} :
                 CascadeAwareDecision(r, files) = "allow")
    BY <1>2 DEF MultiEdit
  <2>2. PICK w \in [files -> Held] :
          Call(w, {PreviewEdit(f, w[f]) : f \in files},
               \A r \in {PreviewEdit(f, w[f]) : f \in files} :
                 CascadeAwareDecision(r, files) = "allow")
    BY <2>1
  <2> DEFINE rs == {PreviewEdit(f, w[f]) : f \in files}
             allowed == \A r \in rs : CascadeAwareDecision(r, files) = "allow"
  <2>3. Call(w, rs, allowed) /\ DOMAIN w = files
    BY <2>2
  <2>4. allowed => \A r \in rs : Covered(r, files)
    <3>1. SUFFICES ASSUME allowed, NEW f \in files
                   PROVE  Covered(PreviewEdit(f, w[f]), files)
      OBVIOUS
    <3> QED
      BY <3>1, CascadeIsCovered
  <2>5. allowed => \A r \in rs : Covered(r, DOMAIN w)
    BY <2>3, <2>4
  <2> HIDE DEF rs, allowed
  <2> QED
    BY <2>3, <2>5, CallCovered
<1>3. CASE Rollback \/ EndRound
  BY <1>3 DEF Rollback, EndRound, BreaksAreCovered
<1>4. CASE ListExpires \/ UNCHANGED rippleVars
  BY <1>4 DEF ListExpires, rippleVars, BreaksAreCovered
<1> QED
  BY <1>1, <1>2, <1>3, <1>4 DEF RippleNext

(* With any project and any callers: a write that was let through holds    *)
(* every caller that was found for a signature it breaks, and takes no     *)
(* exported symbol and no field away (previewEdit, tightenRippleDecision,  *)
(* cascadeAwareDecision and the write tools together).                     *)
THEOREM BreaksCovered == RippleInit /\ [][RippleNext]_rippleVars => []BreaksAreCovered
<1>1. RippleInit => BreaksAreCovered
  BY DEF RippleInit, BreaksAreCovered
<1> QED
  BY <1>1, BreaksNext, PTL

----------------------------------------------------------------------------
(* The callers that are owed.                                              *)

LEMMA ChangeNamed ==
  ASSUME NEW old \in Held, NEW new \in Held, NEW c \in DiffApi(Api(old), Api(new))
  PROVE  c.symbol \in Symbols
<1> DEFINE a == Api(old)
           b == Api(new)
<1>1. ASSUME NEW x \in Held PROVE /\ DOMAIN Api(x) \subseteq Symbols
                                  /\ \A n \in DOMAIN Api(x) : Api(x)[n].fields \subseteq Symbols
  BY RippleAssumption DEF Api
<1>2. /\ DOMAIN a \subseteq Symbols /\ \A n \in DOMAIN a : a[n].fields \subseteq Symbols
      /\ DOMAIN b \subseteq Symbols /\ \A n \in DOMAIN b : b[n].fields \subseteq Symbols
  BY <1>1
<1>3. c \in DiffApi(a, b)
  OBVIOUS
<1> HIDE DEF a, b
<1>4. CASE \E n \in DOMAIN a \cup DOMAIN b : \E k, e : c = Change(k, n, e)
  BY <1>2, <1>4 DEF Change
<1>5. CASE \E n \in DOMAIN a \cap DOMAIN b : c \in SymbolChanges(n, a[n], b[n])
  <2>1. PICK n \in DOMAIN a \cap DOMAIN b : c \in SymbolChanges(n, a[n], b[n])
    BY <1>5
  <2>2. \E m \in {n} \cup a[n].fields \cup b[n].fields : \E k, e : c = Change(k, m, e)
    BY <2>1 DEF SymbolChanges
  <2>3. {n} \cup a[n].fields \cup b[n].fields \subseteq Symbols
    BY <1>2, <2>1
  <2> QED
    BY <2>2, <2>3 DEF Change
<1> QED
  BY <1>3, <1>4, <1>5 DEF DiffApi

ReportOK(r) ==
  r.target \in Sources /\ \A x \in r.callers : x[1] \in Sources /\ x[2] \in Symbols

LEMMA PreviewOK ==
  ASSUME RippleTypeOK, NEW f \in Sources, NEW c \in Held
  PROVE  ReportOK(PreviewEdit(f, c))
<1> DEFINE names == Relevant(Api(disk[f]), Api(c))
           r == PreviewEdit(f, c)
<1>1. names \subseteq Symbols
  <2>1. disk[f] \in Held
    BY DEF RippleTypeOK
  <2>2. \A d \in DiffApi(Api(disk[f]), Api(c)) : Owner[d.symbol] \in Symbols
    BY <2>1, ChangeNamed, RippleAssumption
  <2> QED
    BY <2>2 DEF Relevant
<1>2. r.target = f /\ r.callers = FindCallers(f, names, Api(disk[f]))
  BY ReportParts
<1> HIDE DEF names, r
<1>3. \A x \in TextCallers(f, names) : x[1] \in Sources /\ x[2] \in names
  BY DEF TextCallers, Listed, Existing, RippleTypeOK
<1>4. \A x \in SemanticCallers(f, names, Api(disk[f])) : x[1] \in Sources /\ x[2] \in names
  BY DEF SemanticCallers, Existing
<1>5. \A x \in AstGrepCallers(f, names) : x[1] \in Sources /\ x[2] \in names
  BY DEF AstGrepCallers, Existing
<1>6. \A x \in r.callers : x[1] \in Sources /\ x[2] \in names
  BY <1>2, <1>3, <1>4, <1>5 DEF FindCallers
<1> QED
  BY <1>1, <1>2, <1>6 DEF ReportOK, r

RippleInv ==
  /\ RippleTypeOK
  /\ \A r \in reports : ReportOK(r)
  /\ \A a \in asked : a.owed \in Obligations /\ a.in \in 1..round - 1
  /\ CallersFollow

LEMMA RippleInvInit == RippleInit => RippleInv
BY RippleAssumption DEF RippleInit, RippleInv, RippleTypeOK, CallersFollow, NotBuilt, NotListed

LEMMA CallTyped ==
  ASSUME RippleInv, NEW new, NEW rs, NEW allowed, Call(new, rs, allowed),
         DOMAIN new \subseteq Sources, \A f \in DOMAIN new : new[f] \in Held,
         \A r \in rs : ReportOK(r)
  PROVE  RippleInv'
<1> USE RippleAssumption
<1>1. calls' \in 0..MaxCalls
  BY DEF Call, Counted, RippleInv, RippleTypeOK
<1>2. snapshot' = NotBuilt \/ snapshot' \in [Sources -> Held]
  BY DEF Call, LooksUp, RippleInv, RippleTypeOK
<1>3. listing' = NotListed \/ listing' \subseteq Sources
  BY DEF Call, LooksUp, Listed, Existing, RippleInv, RippleTypeOK
<1>4. disk' \in [Sources -> Held] /\ undo' \in [Sources -> Held] /\ touched' \subseteq Sources
  BY DEF Call, Written, RippleInv, RippleTypeOK
<1>5. \A r \in reports' : ReportOK(r)
  BY DEF Call, Written, RippleInv
<1>6. UNCHANGED <<cascade, budget, pending, round, asked, followed>>
  BY DEF Call
<1> QED
  BY <1>1, <1>2, <1>3, <1>4, <1>5, <1>6 DEF RippleInv, RippleTypeOK, CallersFollow, ReportOK

LEMMA EndRoundTyped == ASSUME RippleInv, EndRound PROVE RippleInv'
<1> USE RippleAssumption
<1>1. PICK passed \in BOOLEAN, mode_ \in {"normal", "degraded"} :
        /\ round < MaxRounds /\ round' = round + 1
        /\ IF touched = {} THEN UNCHANGED <<pending, cascade, asked, followed>>
           ELSE /\ pending' = StillPending(passed)
                /\ cascade' = {o.target : o \in pending'}
                /\ asked' = asked \cup {[owed |-> o, in |-> round] :
                               o \in UNION {ObligationsFromReport(r) : r \in reports}}
                /\ followed' = [f \in Sources |->
                               IF passed /\ f \in touched THEN round ELSE followed[f]]
        /\ touched' = {} /\ reports' = {} /\ budget' = mode_
        /\ UNCHANGED <<disk, snapshot, listing, undo, calls>>
  BY DEF EndRound
<1> DEFINE new == UNION {ObligationsFromReport(r) : r \in reports}
<1>2. round \in Nat /\ round' \in 1..MaxRounds /\ round \in 1..round' - 1
  BY <1>1 DEF RippleInv, RippleTypeOK
<1>3. new \subseteq Obligations
  BY DEF ObligationsFromReport, Callers, RippleInv, ReportOK, Obligations
<1>4. CASE touched = {}
  BY <1>1, <1>2, <1>4 DEF RippleInv, RippleTypeOK, CallersFollow
<1>5. CASE touched # {}
  <2>1. /\ pending' = ResolveObligations(passed) \cup new
        /\ cascade' = {o.target : o \in pending'}
        /\ asked' = asked \cup {[owed |-> o, in |-> round] : o \in new}
        /\ followed' = [f \in Sources |-> IF passed /\ f \in touched THEN round ELSE followed[f]]
    BY <1>1, <1>5 DEF StillPending
  <2> HIDE DEF new
  <2>2. pending' \subseteq Obligations
    BY <1>3, <2>1 DEF ResolveObligations, RippleInv, RippleTypeOK
  <2>3. cascade' \subseteq Sources
    BY <2>1, <2>2 DEF Obligations
  <2>4. followed' \in [Sources -> 0..MaxRounds]
    BY <2>1 DEF RippleInv, RippleTypeOK
  <2>5. \A a \in asked' : a.owed \in Obligations /\ a.in \in 1..round' - 1
    BY <1>2, <1>3, <1>1, <2>1 DEF RippleInv
  <2>6. ASSUME NEW a \in asked'
        PROVE  a.owed \in pending' \/ followed'[a.owed.caller] > a.in
    <3>1. CASE a.owed \in new
      BY <2>1, <3>1
    <3>2. CASE a.owed \notin new
      <4>1. a \in asked /\ a.owed \in Obligations /\ a.in < round /\ a.in \in Nat
        BY <1>2, <2>1, <3>2 DEF RippleInv
      <4>2. a.owed.caller \in Sources
        BY <4>1 DEF Obligations
      <4>3. CASE passed /\ a.owed.caller \in touched
        BY <2>1, <4>1, <4>2, <4>3
      <4>4. CASE ~(passed /\ a.owed.caller \in touched)
        BY <2>1, <4>1, <4>2, <4>4 DEF RippleInv, CallersFollow, ResolveObligations
      <4> QED
        BY <4>3, <4>4
    <3> QED
      BY <3>1, <3>2
  <2>7. CallersFollow'
    BY <2>6 DEF CallersFollow
  <2> QED
    BY <1>1, <1>2, <2>2, <2>3, <2>4, <2>5, <2>7 DEF RippleInv, RippleTypeOK
<1> QED
  BY <1>4, <1>5

LEMMA RippleInvNext == ASSUME RippleInv, [RippleNext]_rippleVars PROVE RippleInv'
<1> USE RippleAssumption
<1>0. \A f \in Sources : Contents[f] \subseteq Held
  BY DEF Held
<1>1. CASE WriteOne
  <2>1. PICK f \in Sources : \E c \in Contents[f] :
          Call([x \in {f} |-> c], {PreviewEdit(f, c)},
               TightenRippleDecision(PreviewEdit(f, c)) = "allow")
    BY <1>1 DEF WriteOne
  <2>2. PICK c \in Held :
          Call([x \in {f} |-> c], {PreviewEdit(f, c)},
               TightenRippleDecision(PreviewEdit(f, c)) = "allow")
    BY <1>0, <2>1
  <2> DEFINE w == [x \in {f} |-> c]
             rs == {PreviewEdit(f, c)}
             allowed == TightenRippleDecision(PreviewEdit(f, c)) = "allow"
  <2>3. \A r \in rs : ReportOK(r)
    BY PreviewOK DEF RippleInv
  <2>4. DOMAIN w \subseteq Sources /\ \A x \in DOMAIN w : w[x] \in Held
    OBVIOUS
  <2>5. Call(w, rs, allowed)
    BY <2>2
  <2> HIDE DEF w, rs, allowed
  <2> QED
    BY <2>3, <2>4, <2>5, CallTyped
<1>2. CASE MultiEdit
  <2>1. PICK files \in SUBSET Existing(disk) : \E w \in [files -> Held] :
          Call(w, {PreviewEdit(f, w[f]) : f \in files},
               \A r \in {PreviewEdit(f, w[f]) : f \in files} :
                 CascadeAwareDecision(r, files) = "allow")
    BY <1>2 DEF MultiEdit
  <2>2. PICK w \in [files -> Held] :
          Call(w, {PreviewEdit(f, w[f]) : f \in files},
               \A r \in {PreviewEdit(f, w[f]) : f \in files} :
                 CascadeAwareDecision(r, files) = "allow")
    BY <2>1
  <2> DEFINE rs == {PreviewEdit(f, w[f]) : f \in files}
             allowed == \A r \in rs : CascadeAwareDecision(r, files) = "allow"
  <2>3. files \subseteq Sources
    BY DEF Existing
  <2>4. \A r \in rs : ReportOK(r)
    BY <2>3, PreviewOK DEF RippleInv
  <2>5. Call(w, rs, allowed)
    BY <2>2
  <2> HIDE DEF rs, allowed
  <2> QED
    BY <2>3, <2>4, <2>5, CallTyped
<1>3. CASE Rollback
  <2>1. calls' \in 0..MaxCalls /\ touched' \subseteq Sources
    BY <1>3 DEF Rollback, Counted, RippleInv, RippleTypeOK
  <2> QED
    BY <1>3, <2>1 DEF Rollback, RippleInv, RippleTypeOK, CallersFollow, ReportOK
<1>4. CASE ListExpires
  BY <1>4 DEF ListExpires, RippleInv, RippleTypeOK, CallersFollow, ReportOK
<1>5. CASE EndRound
  BY <1>5, EndRoundTyped
<1>6. CASE UNCHANGED rippleVars
  BY <1>6 DEF rippleVars, RippleInv, RippleTypeOK, CallersFollow, ReportOK
<1> QED
  BY <1>1, <1>2, <1>3, <1>4, <1>5, <1>6 DEF RippleNext

(* However many rounds and whatever verifications fail: a caller the round *)
(* of its report left alone stays among the obligations of the agent until *)
(* a later round wrote it and verified (agent/loop.ts).                    *)
THEOREM CallersOwed == RippleInit /\ [][RippleNext]_rippleVars => []CallersFollow
<1>1. RippleInv => CallersFollow
  BY DEF RippleInv
<1> QED
  BY RippleInvInit, RippleInvNext, <1>1, PTL

(* The variables of the ripple engine keep their types.                    *)
THEOREM RippleTypes == RippleInit /\ [][RippleNext]_rippleVars => []RippleTypeOK
<1>1. RippleInv => RippleTypeOK
  BY DEF RippleInv
<1> QED
  BY RippleInvInit, RippleInvNext, <1>1, PTL

----------------------------------------------------------------------------
(* The tool round.                                                         *)

(* What one call that runs has passed.                                     *)
MayRun(c) ==
  /\ ~Named(c, "userDeny") /\ ~Named(c, "projectDeny")
  /\ c.matches # "global deny" /\ ~(mode = "full" /\ HighRisk(c))

LEMMA PolicyPassed ==
  ASSUME NEW c, NEW count, ~PolicyBlocks(c, count) PROVE MayRun(c)
<1>1. Permission(c) # "deny" /\ ~RiskHeld(c)
  BY DEF PolicyBlocks, PermissionBlocks
<1>2. ~Named(c, "userDeny") /\ ~Named(c, "projectDeny") /\ c.matches # "global deny"
  BY <1>1 DEF Permission
<1> QED
  BY <1>1, <1>2 DEF MayRun, RiskHeld

(* What was read and not yet answered to the model.                        *)
Unanswered ==
  UNION {batch[i].files : i \in {j \in Indices : j >= at /\ fate[j] = "ok"
                                               /\ batch[j].tool = "read_file"}}

RightInv ==
  /\ \A i \in Ran : MayRun(batch[i])
  /\ \A i \in Awaited : batch[i].tool \in Edits => batch[i].files \subseteq seen

RoundInv ==
  /\ ToolGateTypeOK
  /\ phase = "asked" => at > Len(batch)
  /\ parallel => \A i \in Indices : Readonly(batch[i]) /\ fate[i] # "waiting"
  /\ ~parallel => \A i \in Indices : i > at => fate[i] = "waiting"
  /\ \A i \in Indices : i < at => fate[i] \notin {"waiting", "running"}
  /\ \A i \in Indices : ruling[i] = "allowed" => MayRun(batch[i])
  /\ readFiles \subseteq seen \cup Unanswered
  /\ RightInv

LEMMA RoundIsAlone == RoundInv => WritesAlone
<1> SUFFICES ASSUME RoundInv, NEW i \in Awaited, ~Readonly(batch[i]) PROVE Awaited = {i}
  BY DEF WritesAlone
<1>1. ~parallel
  BY DEF RoundInv, Awaited
<1>2. \A j \in Awaited : j \in Nat /\ at \in Nat /\ ~(j > at) /\ ~(j < at)
  BY <1>1, ToolGateAssumption DEF RoundInv, ToolGateTypeOK, Awaited, Indices
<1>3. \A j \in Awaited : j = at
  BY <1>2
<1> QED
  BY <1>3

LEMMA RoundInvInit == ToolGateInit => RoundInv
<1> SUFFICES ASSUME ToolGateInit PROVE RoundInv
  OBVIOUS
<1>1. batch = <<>> /\ Len(batch) = 0 /\ Indices = {} /\ at = 1
  BY DEF ToolGateInit, Indices
<1>2. ToolGateTypeOK
  <2>1. used \in [Categories -> Nat]
    BY DEF ToolGateInit, NoneUsed
  <2>2. ruling \in [Indices -> {"allowed", "blocked", "open"}] /\ fate \in [Indices -> Fates]
    BY <1>1 DEF ToolGateInit
  <2>3. parallel \in BOOLEAN /\ present \subseteq Paths
    BY DEF ToolGateInit
  <2> QED
    BY <1>1, <2>1, <2>2, <2>3, ToolGateAssumption DEF ToolGateInit, ToolGateTypeOK
<1> QED
  BY <1>1, <1>2 DEF ToolGateInit, RoundInv, RightInv, Ran, Awaited

LEMMA IndicesTyped ==
  ASSUME ToolGateTypeOK
  PROVE  /\ Len(batch) \in Nat /\ Indices = 1..Len(batch) /\ Indices \subseteq Nat
         /\ \A i \in Indices : batch[i] \in ToolCalls
<1>1. batch \in Seq(ToolCalls)
  <2>1. <<>> \in Seq(ToolCalls)
    OBVIOUS
  <2> QED
    BY <2>1, ToolGateAssumption DEF ToolGateTypeOK
<1> QED
  BY <1>1 DEF Indices

(* What an action that leaves the batch and the rules alone leaves alone.  *)
LEMMA RoundFrame ==
  ASSUME UNCHANGED <<mode, rules, batch>>
  PROVE  /\ Indices' = Indices /\ \A c : MayRun(c)' <=> MayRun(c)
         /\ \A i : Readonly(batch[i])' = Readonly(batch[i])
BY DEF Indices, MayRun, Named, HighRisk, Risk, Readonly

LEMMA PreRoundInv == ASSUME RoundInv, PreRound PROVE RoundInv'
<1>1. toolRound' \in 0..MaxToolRounds
  BY ToolGateAssumption DEF PreRound, RoundInv, ToolGateTypeOK
<1>2. Unanswered' = Unanswered
  BY DEF PreRound, Unanswered, Indices
<1>3. /\ UNCHANGED <<mode, rules, batch, at, ruling, parallel, used, fate, late, present,
                     readFiles, seen, searchDown>>
      /\ at > Len(batch) /\ phase' = "asked"
  BY DEF PreRound
<1>4. ToolGateTypeOK'
  BY <1>1, <1>3 DEF RoundInv, ToolGateTypeOK, Indices
<1>5. RightInv'
  BY <1>3, RoundFrame DEF RoundInv, RightInv, Ran, Awaited
<1>6. \A i \in Indices' : ruling'[i] = "allowed" => MayRun(batch[i])'
  BY <1>3, RoundFrame DEF RoundInv
<1> QED
  BY <1>2, <1>3, <1>4, <1>5, <1>6 DEF RoundInv, Indices, Readonly

LEMMA AnsweredInv == ASSUME RoundInv, NEW b \in Batches, Answered(b) PROVE RoundInv'
<1> DEFINE candidate == "planning" \notin closed /\ AllRead(b)
           allowed(i) == ~PolicyBlocks(b[i], PreviewUsed(b, i))
           atOnce == candidate /\ \A i \in DOMAIN b : allowed(i)
<1>1. /\ phase' = "calls" /\ batch' = b /\ at' = 1 /\ used' = NoneUsed /\ parallel' = atOnce
      /\ ruling' = [i \in DOMAIN b |->
           IF ~candidate THEN "open" ELSE IF allowed(i) THEN "allowed" ELSE "blocked"]
      /\ fate' = [i \in DOMAIN b |->
           IF ~atOnce THEN "waiting" ELSE IF HooksBlock(b[i]) THEN "refused" ELSE "running"]
      /\ UNCHANGED <<mode, rules, toolRound, closed, late, present, readFiles, seen, searchDown>>
      /\ phase = "asked"
  BY DEF Answered
<1>2. b \in Seq(ToolCalls) /\ Len(b) \in Nat /\ DOMAIN b = 1..Len(b)
  BY ToolGateAssumption
<1>3. ToolGateTypeOK'
  <2>1. used' \in [Categories -> Nat] /\ parallel' \in BOOLEAN
    BY <1>1 DEF NoneUsed
  <2>2. /\ ruling' \in [DOMAIN b -> {"allowed", "blocked", "open"}]
        /\ fate' \in [DOMAIN b -> Fates]
    BY <1>1 DEF Fates
  <2>3. at' \in 1..Len(b) + 1
    BY <1>1, <1>2
  <2> QED
    BY <1>1, <2>1, <2>2, <2>3 DEF RoundInv, ToolGateTypeOK, Indices
<1>4. readFiles \subseteq seen
  BY <1>1, IndicesTyped DEF RoundInv, Unanswered, ToolGateTypeOK
<1>5. \A i \in DOMAIN b : atOnce => Readonly(b[i])
  BY DEF AllRead
<1>6. \A i \in DOMAIN b : allowed(i) => MayRun(b[i])
  BY PolicyPassed
<1>7. \A i \in DOMAIN b : ~HooksBlock(b[i]) => (b[i].tool \in Edits => b[i].files \subseteq readFiles)
  BY DEF HooksBlock, WritePaths, Edits
<1>8. \A i \in DOMAIN b : fate'[i] \in {"waiting", "refused", "running"}
  BY <1>1
<1>9. \A i \in DOMAIN b : fate'[i] = "running" => atOnce /\ ~HooksBlock(b[i])
  BY <1>1
<1>10. \A i \in DOMAIN b : ruling'[i] = "allowed" => allowed(i)
  BY <1>1
<1>11. (\A i \in DOMAIN b : atOnce => allowed(i) /\ fate'[i] # "waiting")
       /\ (\A i \in DOMAIN b : ~atOnce => fate'[i] = "waiting")
  BY <1>1
<1> HIDE DEF candidate, allowed, atOnce
<1>12. Indices' = DOMAIN b
  BY <1>1 DEF Indices
<1>13. \A c : MayRun(c)' <=> MayRun(c)
  BY <1>1 DEF MayRun, Named, HighRisk, Risk
<1>14. RightInv'
  <2>1. \A i \in Ran' : MayRun(b[i])
    BY <1>6, <1>8, <1>9, <1>11, <1>12 DEF Ran
  <2>2. \A i \in Awaited' : b[i].tool \in Edits => b[i].files \subseteq seen'
    BY <1>1, <1>4, <1>7, <1>9, <1>12 DEF Awaited
  <2> QED
    BY <1>1, <1>13, <2>1, <2>2 DEF RightInv
<1>15. \A i \in Indices' : ruling'[i] = "allowed" => MayRun(batch[i])'
  BY <1>1, <1>6, <1>10, <1>12, <1>13
<1>16. readFiles' \subseteq (seen \cup Unanswered)'
  BY <1>1, <1>4
<1>17. parallel' => \A i \in Indices' : Readonly(batch[i])' /\ fate'[i] # "waiting"
  BY <1>1, <1>5, <1>11, <1>12
<1>18. ~parallel' => \A i \in Indices' : fate'[i] = "waiting"
  BY <1>1, <1>11, <1>12
<1>19. \A i \in Indices' : ~(i < at')
  BY <1>1, <1>2, <1>12
<1> QED
  BY <1>1, <1>3, <1>14, <1>15, <1>16, <1>17, <1>18, <1>19 DEF RoundInv, Readonly

LEMMA StartCallInv == ASSUME RoundInv, StartCall PROVE RoundInv'
<1> DEFINE refused == PlanOnly \/ Ruled \/ HooksBlock(Here)
<1>1. /\ at <= Len(batch) /\ fate[at] = "waiting"
      /\ used' = IF PlanOnly THEN used ELSE Taken(Here)
      /\ fate' = [fate EXCEPT ![at] = IF refused THEN "refused" ELSE "running"]
      /\ at' = IF refused THEN at + 1 ELSE at
      /\ UNCHANGED <<mode, rules, toolRound, phase, closed, batch, ruling, parallel, late,
                     present, readFiles, seen>>
      /\ phase = "calls"
  BY DEF StartCall, Waiting
<1>2. Len(batch) \in Nat /\ Indices = 1..Len(batch) /\ at \in Indices /\ at \in Nat
  BY <1>1, IndicesTyped DEF RoundInv, ToolGateTypeOK
<1>3. ~parallel
  BY <1>1, <1>2 DEF RoundInv
<1>4. ~refused => MayRun(Here) /\ (Here.tool \in Edits => Here.files \subseteq readFiles)
  <2>1. ~Ruled => MayRun(Here)
    <3>1. ruling[at] \in {"allowed", "blocked", "open"}
      BY <1>2 DEF RoundInv, ToolGateTypeOK
    <3> QED
      BY <1>2, <3>1, PolicyPassed DEF Ruled, RoundInv, Here
  <2>2. ~HooksBlock(Here) => (Here.tool \in Edits => Here.files \subseteq readFiles)
    BY DEF HooksBlock, WritePaths, Edits
  <2> QED
    BY <2>1, <2>2
<1>5. readFiles \subseteq seen
  <2>1. \A i \in Indices : i >= at => fate[i] # "ok"
    BY <1>1, <1>2, <1>3 DEF RoundInv
  <2> QED
    BY <2>1 DEF RoundInv, Unanswered
<1> HIDE DEF refused
<1>6. ToolGateTypeOK'
  <2>1. used' \in [Categories -> Nat]
    <3>1. used \in [Categories -> Nat]
      BY DEF RoundInv, ToolGateTypeOK
    <3> DEFINE c == Category(Here)
    <3>2. used' = used \/ used' = [used EXCEPT ![c] = @ + 1]
      BY <1>1 DEF Taken
    <3> HIDE DEF c
    <3> QED
      BY <3>1, <3>2
  <2>2. fate' \in [Indices -> Fates]
    BY <1>1 DEF Fates, RoundInv, ToolGateTypeOK
  <2>3. at' \in 1..Len(batch) + 1
    BY <1>1, <1>2
  <2> QED
    BY <1>1, <2>1, <2>2, <2>3 DEF RoundInv, ToolGateTypeOK, Indices
<1>7. \A i \in Indices : fate'[i] = IF i = at THEN IF refused THEN "refused" ELSE "running"
                                   ELSE fate[i]
  BY <1>1 DEF RoundInv, ToolGateTypeOK
<1>8. /\ \A i \in Indices : i > at' => fate'[i] = "waiting"
      /\ \A i \in Indices : i < at' => fate'[i] \notin {"waiting", "running"}
  BY <1>1, <1>2, <1>3, <1>7 DEF RoundInv
<1>9. RightInv'
  <2>1. \A i \in Ran' : MayRun(batch[i])
    BY <1>1, <1>4, <1>7, RoundFrame DEF Ran, Here, RoundInv, RightInv
  <2>2. \A i \in Awaited' : batch[i].tool \in Edits => batch[i].files \subseteq seen
    BY <1>1, <1>4, <1>5, <1>7, RoundFrame DEF Awaited, Here, RoundInv, RightInv
  <2>3. \A i \in Ran' : MayRun(batch[i])'
    BY <1>1, <2>1, RoundFrame
  <2> QED
    BY <1>1, <2>2, <2>3 DEF RightInv
<1>10. \A i \in Indices' : ruling'[i] = "allowed" => MayRun(batch[i])'
  BY <1>1, RoundFrame DEF RoundInv
<1> QED
  BY <1>1, <1>3, <1>5, <1>6, <1>8, <1>9, <1>10, RoundFrame DEF RoundInv

(* What is awaited has not been collected.                                 *)
LEMMA AwaitedAhead == ASSUME RoundInv, NEW i \in Awaited PROVE i >= at
<1>1. i \in Indices /\ fate[i] = "running"
  BY DEF Awaited
<1>2. i \in Nat /\ at \in Nat
  BY <1>1, IndicesTyped DEF RoundInv, ToolGateTypeOK
<1>3. ~(i < at)
  BY <1>1 DEF RoundInv
<1> QED
  BY <1>2, <1>3

(* A call that ends, in time or not.                                       *)
LEMMA EndsInv ==
  ASSUME RoundInv, NEW i \in Awaited, NEW how \in {"ok", "failed", "timed out"},
         fate' = [fate EXCEPT ![i] = how],
         readFiles' \subseteq readFiles \cup
           (IF how = "ok" /\ batch[i].tool = "read_file" THEN batch[i].files ELSE {}),
         readFiles' \subseteq Paths, present' \subseteq Paths, late' \subseteq ToolCalls,
         UNCHANGED <<mode, rules, toolRound, phase, closed, batch, at, ruling, parallel, used,
                     seen, searchDown>>
  PROVE  RoundInv'
<1>1. i \in Indices /\ fate[i] = "running"
  BY DEF Awaited
<1>2. \A j \in Indices : fate'[j] = IF j = i THEN how ELSE fate[j]
  BY <1>1 DEF RoundInv, ToolGateTypeOK
<1>3. ToolGateTypeOK'
  <2>1. fate' \in [Indices -> Fates]
    BY DEF Fates, RoundInv, ToolGateTypeOK
  <2> QED
    BY <2>1 DEF RoundInv, ToolGateTypeOK, Indices
<1>4. RightInv'
  <2>1. Ran' \subseteq Ran /\ Awaited' \subseteq Awaited
    BY <1>1, <1>2, RoundFrame DEF Ran, Awaited
  <2>2. \A j \in Ran' : MayRun(batch[j])'
    BY <2>1, RoundFrame DEF RoundInv, RightInv
  <2> QED
    BY <2>1, <2>2 DEF RoundInv, RightInv
<1>5. readFiles' \subseteq (seen \cup Unanswered)'
  <2>1. i >= at
    BY AwaitedAhead
  <2>2. Unanswered \subseteq Unanswered'
    BY <1>1, <1>2, RoundFrame DEF Unanswered
  <2>3. how = "ok" /\ batch[i].tool = "read_file" => batch[i].files \subseteq Unanswered'
    BY <1>1, <1>2, <2>1, RoundFrame DEF Unanswered
  <2> QED
    BY <2>2, <2>3 DEF RoundInv
<1>6. \A j \in Indices' : ruling'[j] = "allowed" => MayRun(batch[j])'
  BY RoundFrame DEF RoundInv
<1>7. (\A j \in Indices : j > at => fate[j] = "waiting") =>
        \A j \in Indices' : j > at' => fate'[j] = "waiting"
  BY <1>1, <1>2, RoundFrame
<1>8. (\A j \in Indices : j < at => fate[j] \notin {"waiting", "running"}) =>
        \A j \in Indices' : j < at' => fate'[j] \notin {"waiting", "running"}
  BY <1>1, <1>2, RoundFrame
<1>9. (\A j \in Indices : Readonly(batch[j]) /\ fate[j] # "waiting") =>
        \A j \in Indices' : Readonly(batch[j])' /\ fate'[j] # "waiting"
  BY <1>1, <1>2, RoundFrame
<1> QED
  BY <1>3, <1>4, <1>5, <1>6, <1>7, <1>8, <1>9 DEF RoundInv

LEMMA CollectInv == ASSUME RoundInv, Collect PROVE RoundInv'
<1>1. /\ at <= Len(batch) /\ Awaited = {} /\ fate[at] # "waiting" /\ at' = at + 1
      /\ used' = IF parallel THEN Taken(Here) ELSE used
      /\ seen' = IF fate[at] = "ok" /\ Here.tool = "read_file" THEN seen \cup Here.files ELSE seen
      /\ UNCHANGED <<mode, rules, toolRound, phase, closed, batch, ruling, parallel, fate, late,
                     present, readFiles>>
      /\ phase = "calls"
  BY DEF Collect
<1>2. Len(batch) \in Nat /\ Indices = 1..Len(batch) /\ at \in Indices /\ at \in Nat
      /\ batch[at] \in ToolCalls
  BY <1>1, IndicesTyped DEF RoundInv, ToolGateTypeOK
<1>3. ToolGateTypeOK'
  <2>1. used' \in [Categories -> Nat]
    <3>1. used \in [Categories -> Nat]
      BY DEF RoundInv, ToolGateTypeOK
    <3> DEFINE c == Category(Here)
    <3>2. used' = used \/ used' = [used EXCEPT ![c] = @ + 1]
      BY <1>1 DEF Taken
    <3> HIDE DEF c
    <3> QED
      BY <3>1, <3>2
  <2>2. at' \in 1..Len(batch) + 1
    BY <1>1, <1>2
  <2>3. seen' \subseteq Paths
    BY <1>1, <1>2 DEF RoundInv, ToolGateTypeOK, ToolCalls, Here
  <2> QED
    BY <1>1, <2>1, <2>2, <2>3 DEF RoundInv, ToolGateTypeOK, Indices
<1>4. RightInv'
  <2>1. Ran' = Ran /\ Awaited' = {}
    BY <1>1, RoundFrame DEF Ran, Awaited
  <2> QED
    BY <1>1, <2>1, RoundFrame DEF RoundInv, RightInv
<1>5. \A i \in Indices : i < at' => fate'[i] \notin {"waiting", "running"}
  BY <1>1, <1>2 DEF RoundInv, Awaited
<1>6. \A i \in Indices : i > at' => i > at
  BY <1>1, <1>2
<1>7. readFiles' \subseteq (seen \cup Unanswered)'
  <2>1. SUFFICES ASSUME NEW f \in Unanswered, f \notin Unanswered' PROVE f \in seen'
    BY <1>1 DEF RoundInv
  <2>2. PICK i \in Indices : /\ i >= at /\ fate[i] = "ok" /\ batch[i].tool = "read_file"
                             /\ f \in batch[i].files
    BY DEF Unanswered
  <2>3. ~(i >= at')
    BY <1>1, <2>1, <2>2, RoundFrame DEF Unanswered
  <2>4. i = at
    BY <1>1, <1>2, <2>2, <2>3
  <2> QED
    BY <1>1, <2>2, <2>4 DEF Here
<1>8. \A i \in Indices' : ruling'[i] = "allowed" => MayRun(batch[i])'
  BY <1>1, RoundFrame DEF RoundInv
<1> QED
  BY <1>1, <1>3, <1>4, <1>5, <1>6, <1>7, <1>8, RoundFrame DEF RoundInv

LEMMA EffectsTyped ==
  ASSUME ToolGateTypeOK, NEW c \in ToolCalls, NEW ok, present' \in Effects(c, ok)
  PROVE  present' \subseteq Paths
<1>1. c.files \subseteq Paths /\ present \subseteq Paths
  BY DEF ToolGateTypeOK, ToolCalls
<1>2. \A s \in Effects(c, ok) : s \subseteq Paths
  BY <1>1 DEF Effects
<1> QED
  BY <1>2

LEMMA RoundInvNext == ASSUME RoundInv, [ToolGateNext]_gateVars PROVE RoundInv'
<1>0. \A i \in Awaited : batch[i] \in ToolCalls
  BY IndicesTyped DEF RoundInv, Awaited
<1>1. ASSUME NEW i \in Indices, GiveUpCall(i) PROVE RoundInv'
  <2>1. i \in Awaited /\ late' \subseteq ToolCalls /\ fate' = [fate EXCEPT ![i] = "timed out"]
    BY <1>0, <1>1 DEF GiveUpCall, RoundInv, ToolGateTypeOK
  <2>2. readFiles' = readFiles /\ readFiles' \subseteq Paths /\ present' \subseteq Paths
        /\ UNCHANGED <<mode, rules, toolRound, phase, closed, batch, at, ruling, parallel, used,
                       seen, searchDown>>
    BY <1>1 DEF GiveUpCall, RoundInv, ToolGateTypeOK
  <2> QED
    BY <2>1, <2>2, EndsInv
<1>2. ASSUME NEW i \in Indices, NEW ok \in BOOLEAN, NEW vetoed \in BOOLEAN, Return(i, ok, vetoed)
      PROVE RoundInv'
  <2> DEFINE how == IF ok /\ ~vetoed THEN "ok" ELSE "failed"
  <2>1. /\ i \in Awaited /\ fate' = [fate EXCEPT ![i] = how] /\ late' = late
        /\ UNCHANGED <<mode, rules, toolRound, phase, closed, batch, at, ruling, parallel, used,
                       seen, searchDown>>
    BY <1>2 DEF Return
  <2>2. readFiles' \subseteq readFiles \cup
          (IF how = "ok" /\ batch[i].tool = "read_file" THEN batch[i].files ELSE {})
    BY <1>2 DEF Return, ReadRecorded, Vetoable
  <2>3. present' \subseteq Paths
    BY <1>0, <1>2, <2>1, EffectsTyped DEF Return, RoundInv
  <2>4. how \in {"ok", "failed", "timed out"}
    OBVIOUS
  <2> HIDE DEF how
  <2>5. readFiles' \subseteq Paths /\ late' \subseteq ToolCalls
    BY <1>0, <2>1, <2>2 DEF RoundInv, ToolGateTypeOK, ToolCalls
  <2> QED
    BY <2>1, <2>2, <2>3, <2>4, <2>5, EndsInv
<1>3. ASSUME NEW c \in late, NEW ok \in BOOLEAN, LateEnd(c, ok) PROVE RoundInv'
  <2>1. c \in ToolCalls
    BY DEF RoundInv, ToolGateTypeOK
  <2>2. present' \subseteq Paths /\ late' \subseteq ToolCalls
    BY <1>3, <2>1, EffectsTyped DEF LateEnd, RoundInv, ToolGateTypeOK
  <2>3. UNCHANGED <<mode, rules, toolRound, phase, closed, batch, at, ruling, parallel, used,
                    fate, readFiles, seen, searchDown>>
    BY <1>3 DEF LateEnd
  <2>4. ToolGateTypeOK'
    BY <2>2, <2>3 DEF RoundInv, ToolGateTypeOK, Indices
  <2>5. RightInv' /\ Unanswered' = Unanswered
    BY <2>3, RoundFrame DEF RoundInv, RightInv, Ran, Awaited, Unanswered
  <2> QED
    BY <2>3, <2>4, <2>5, RoundFrame DEF RoundInv
<1>4. CASE UNCHANGED gateVars
  <2>1. UNCHANGED <<mode, rules, toolRound, phase, closed, batch, at, ruling, parallel, used,
                    fate, late, present, readFiles, seen, searchDown>>
    BY <1>4 DEF gateVars
  <2>2. ToolGateTypeOK'
    BY <2>1 DEF RoundInv, ToolGateTypeOK, Indices
  <2>3. RightInv' /\ Unanswered' = Unanswered
    BY <2>1, RoundFrame DEF RoundInv, RightInv, Ran, Awaited, Unanswered
  <2> QED
    BY <2>1, <2>2, <2>3, RoundFrame DEF RoundInv
<1> QED
  BY <1>1, <1>2, <1>3, <1>4, PreRoundInv, AnsweredInv, StartCallInv, CollectInv DEF ToolGateNext

(* With any tools and any answers of the model: a call that changes        *)
(* something is awaited alone (agent/loop.ts, canParallelizeTools).        *)
THEOREM WritesRunAlone == ToolGateInit /\ [][ToolGateNext]_gateVars => []WritesAlone
BY RoundInvInit, RoundInvNext, RoundIsAlone, PTL

(* With any rules of the user and of the project: no call runs that a deny *)
(* rule names or, in full mode, that is of high risk, and no edit of a     *)
(* file whose content the model was not given (evaluateToolPolicy, the     *)
(* parallel preview and the write guard).                                  *)
THEOREM RunsRightly == ToolGateInit /\ [][ToolGateNext]_gateVars => []RunsByRight
<1>1. RoundInv => RunsByRight
  BY DEF RoundInv, RightInv, RunsByRight, MayRun
<1> QED
  BY RoundInvInit, RoundInvNext, <1>1, PTL

(* The variables of the tool round keep their types.                       *)
THEOREM ToolGateTypes == ToolGateInit /\ [][ToolGateNext]_gateVars => []ToolGateTypeOK
<1>1. RoundInv => ToolGateTypeOK
  BY DEF RoundInv
<1> QED
  BY RoundInvInit, RoundInvNext, <1>1, PTL

-----------------------------------------------------------------------------
(* The text of a refusal, and what is run afterwards.                      *)

GuideInv ==
  /\ usesAt \in CallerLists \cup {<<>>} /\ testFiles \subseteq TestPlaces
  /\ guideStage = "refused" => toldFiles = FormatRippleBlock
  /\ guideStage = "done" => testFiles = {} \/ testsRun = BuildSteps

LEMMA UsesAreALine ==
  ASSUME GuideInv PROVE Len(usesAt) \in Nat /\ DOMAIN usesAt = 1..Len(usesAt)
<1>1. CASE usesAt = <<>>
  BY <1>1
<1>2. CASE usesAt \in CallerLists
  <2>1. usesAt \in Seq({usesAt[i] : i \in DOMAIN usesAt})
    BY <1>2, GuidanceAssumption
  <2> QED
    BY <2>1
<1> QED
  BY <1>1, <1>2 DEF GuideInv

(* The search comes by a test at numbers, so that it never comes by one    *)
(* before it comes by it.                                                  *)
LEMMA NotBeforeItself == ASSUME GuideInv, NEW t PROVE ~FoundBefore(t, t)
<1>1. Searched \subseteq Int
  BY UsesAreALine DEF Searched
<1>2. ASSUME NEW p \in FoundAt(t) PROVE 4 * p[1] + p[2] \in Int
  <2>1. p \in Searched \X (1..4)
    BY DEF FoundAt
  <2>2. p[1] \in Searched /\ p[2] \in 1..4
    BY <2>1
  <2>3. p[1] \in Int
    BY <2>2, <1>1, Zenon
  <2>4. p[2] \in Int
    BY <2>2
  <2>5. \A i, c \in Int : 4 * i + c \in Int
    OBVIOUS
  <2> QED
    BY <2>3, <2>4, <2>5, Zenon
<1>3. SUFFICES ASSUME NEW p \in FoundAt(t), 4 * p[1] + p[2] < 4 * p[1] + p[2] PROVE FALSE
  BY DEF FoundBefore
<1> QED
  BY <1>2, <1>3

LEMMA FewTestsAreRun ==
  ASSUME GuideInv, Cardinality(Direct) <= ShownSites PROVE Direct \subseteq BuildSteps
<1> SUFFICES ASSUME NEW t \in Direct PROVE t \in BuildSteps
  OBVIOUS
<1> DEFINE before == {u \in Direct : FoundBefore(u, t)}
<1>1. IsFiniteSet(Direct)
  BY GuidanceAssumption, FS_Subset DEF Direct, Related, GuideInv
<1>2. before \subseteq Direct \ {t}
  BY NotBeforeItself
<1>3. /\ IsFiniteSet(Direct \ {t}) /\ Cardinality(Direct \ {t}) = Cardinality(Direct) - 1
      /\ Cardinality(Direct) \in Nat
  BY <1>1, FS_RemoveElement, FS_CardinalityType
<1>4. Cardinality(before) <= Cardinality(Direct \ {t}) /\ Cardinality(before) \in Nat
  <2> HIDE DEF before
  <2> QED
    BY <1>2, <1>3, FS_Subset, FS_CardinalityType
<1>5. Cardinality(before) < ShownSites
  <2> HIDE DEF before
  <2> QED
    BY <1>3, <1>4, GuidanceAssumption
<1> QED
  BY <1>5 DEF BuildSteps

(* The target's own places are searched first.                             *)
LEMMA OwnTestsAreDirect ==
  ASSUME NEW t \in testFiles, t.name = Target.name,
         NEW c \in 1..3, t = FindTestFiles(Target)[c]
  PROVE  t \in Direct
<1>1. 0 \in Searched /\ SearchedFor(0) = Target
  BY DEF Searched, SearchedFor
<1>3. c \in 1..4
  OBVIOUS
<1>4. <<0, c>> \in Searched \X (1..4) /\ Looked(<<0, c>>) = t
  BY <1>1, <1>3 DEF Looked
<1>5. FoundAt(t) # {}
  BY <1>4 DEF FoundAt
<1> QED
  BY <1>5 DEF Direct, Related

LEMMA GuideSound == GuideInv => ObedienceHelps /\ TargetIsTested
<1> SUFFICES ASSUME GuideInv PROVE ObedienceHelps /\ TargetIsTested
  OBVIOUS
<1>1. ObedienceHelps
  <2> SUFFICES ASSUME guideStage = "refused", Len(usesAt) <= ShownCallers
               PROVE  CallerFiles \subseteq toldFiles
    BY DEF ObedienceHelps
  <2>1. toldFiles = FormatRippleBlock
    BY DEF GuideInv
  <2>2. \A i \in DOMAIN usesAt : i <= ShownCallers
    BY UsesAreALine, GuidanceAssumption
  <2> QED
    BY <2>1, <2>2 DEF CallerFiles, FormatRippleBlock
<1>2. TargetIsTested
  <2> SUFFICES ASSUME guideStage = "done", Cardinality(Direct) <= ShownSites,
                      NEW t \in testFiles,
                      t \in {Test(".", Target.name, FALSE)}
                              \cup {Test(Target.dir, Target.name, beside) : beside \in BOOLEAN}
               PROVE  t \in testsRun
    BY DEF TargetIsTested
  <2>1. testsRun = BuildSteps
    BY DEF GuideInv
  <2>a. /\ FindTestFiles(Target)[1] = Test(".", Target.name, FALSE)
        /\ FindTestFiles(Target)[2] = Test(Target.dir, Target.name, FALSE)
        /\ FindTestFiles(Target)[3] = Test(Target.dir, Target.name, TRUE)
    BY DEF FindTestFiles
  <2>b. \/ t = Test(".", Target.name, FALSE) \/ t = Test(Target.dir, Target.name, FALSE)
        \/ t = Test(Target.dir, Target.name, TRUE)
    OBVIOUS
  <2>2. PICK c \in 1..3 : t = FindTestFiles(Target)[c]
    BY <2>a, <2>b, 1 \in 1..3, 2 \in 1..3, 3 \in 1..3, Zenon
  <2>3. t.name = Target.name
    BY DEF Test
  <2> QED
    BY <2>1, <2>2, <2>3, OwnTestsAreDirect, FewTestsAreRun
<1> QED
  BY <1>1, <1>2

LEMMA GuideInvNext == ASSUME GuideInv, [GuidanceNext]_guidanceVars PROVE GuideInv'
<1>1. UNCHANGED <<usesAt, testFiles, kindsNow>>
  BY DEF GuidanceNext, Refuse, Obey, Accept, RunRequired, guidanceVars
<1>2. FormatRippleBlock' = FormatRippleBlock /\ BuildSteps' = BuildSteps
  <2>1. FormatRippleBlock' = FormatRippleBlock
    BY <1>1 DEF FormatRippleBlock, FormatUsageSummary, ActionAt
  <2>2. \A t : FoundAt(t)' = FoundAt(t)
    BY <1>1 DEF FoundAt, Searched, Looked, SearchedFor
  <2>3. Related' = Related /\ Direct' = Direct
    BY <1>1, <2>2 DEF Related, Direct
  <2>4. \A t, u : FoundBefore(t, u)' <=> FoundBefore(t, u)
    BY <2>2 DEF FoundBefore
  <2> QED
    BY <2>1, <2>3, <2>4 DEF BuildSteps
<1>3. guideStage' = "refused" => toldFiles' = FormatRippleBlock'
  BY <1>2 DEF GuidanceNext, Refuse, Obey, Accept, RunRequired, guidanceVars, GuideInv
<1>4. guideStage' = "done" => testFiles' = {} \/ testsRun' = BuildSteps'
  BY <1>1, <1>2 DEF GuidanceNext, Refuse, Obey, Accept, RunRequired, guidanceVars, GuideInv
<1> QED
  BY <1>1, <1>3, <1>4 DEF GuideInv

-----------------------------------------------------------------------------
(* From a prompt to its run.                                               *)

IsLine(h) == \E S : h \in Seq(S)

RunFields ==
  {"phase", "prompt", "text", "intent", "risky", "level", "mapped", "understood", "blocked", "wrote"}

(* The dialog is open about the request the history ends with.             *)
EndsWith(h, a, b) == Len(h) >= 2 /\ h[Len(h) - 1] = a /\ h[Len(h)] = b
OpenedFor(h, p) == EndsWith(h, <<"user", <<p>>>>, <<"marker", <<p>>>>)

RunInv ==
  /\ RunFields \subseteq DOMAIN run
  /\ run.phase = "clarify" => run.prompt # Answer /\ run.text = <<run.prompt>>
  /\ run.wrote => run.phase = "rounds" /\ ~run.blocked
  /\ run.phase = "rounds" /\ run.mapped /\ run.level = "high_risk" /\ ~run.blocked => run.understood

IntakeInv ==
  /\ IsLine(history)
  /\ run # Rest => RunInv
  /\ wizard => run = Rest /\ \E p : OpenedFor(history, p)
  /\ AnswersAreHeard

LEMMA GreatestIs ==
  ASSUME NEW S \in SUBSET Int, NEW n \in S, \A i \in S : i <= n
  PROVE  Max(S) = n
<1>1. \A m \in S : (\A i \in S : i <= m) => m = n
  <2> SUFFICES ASSUME NEW m \in S, \A i \in S : i <= m PROVE m = n
    OBVIOUS
  <2>1. m <= n /\ n <= m /\ m \in Int /\ n \in Int
    OBVIOUS
  <2> QED
    BY <2>1
<1> QED
  BY <1>1 DEF Max

(* While the dialog is open, the pending request is the one it is about.   *)
LEMMA PendingIsOpened ==
  ASSUME NEW h, IsLine(h), NEW p, OpenedFor(h, p) PROVE Pending(h) = <<p>>
<1> DEFINE n == Len(h)
           markers == {i \in DOMAIN h : h[i][1] = "marker"}
           asks == {j \in 1..(n - 1) : h[j][1] = "user"}
<1>1. n \in Nat /\ n >= 2 /\ DOMAIN h = 1..n
  BY DEF OpenedFor, EndsWith, IsLine
<1>2. h[n][1] = "marker" /\ h[n - 1][1] = "user" /\ h[n - 1][2] = <<p>>
  BY DEF OpenedFor, EndsWith
<1>3. Max(markers) = n
  <2>1. n \in markers /\ markers \subseteq 1..n
    BY <1>1, <1>2
  <2> HIDE DEF markers, n
  <2>2. markers \in SUBSET Int /\ \A i \in markers : i <= n
    BY <1>1, <2>1
  <2> QED
    BY <2>1, <2>2, GreatestIs
<1>4. Max(asks) = n - 1
  <2>1. n - 1 \in asks /\ asks \subseteq 1..(n - 1)
    BY <1>1, <1>2
  <2> HIDE DEF asks, n
  <2>2. asks \in SUBSET Int /\ \A i \in asks : i <= n - 1
    BY <1>1, <2>1
  <2> QED
    BY <2>1, <2>2, GreatestIs
<1>5. markers # {} /\ asks # {}
  BY <1>1, <1>2
<1> QED
  BY <1>2, <1>3, <1>4, <1>5 DEF Pending

LEMMA BeginInv ==
  ASSUME IntakeInv, NEW p, NEW triage, Begin(p, triage), wizard <=> p = Answer
  PROVE  IntakeInv'
<1> DEFINE text == EffectivePrompt(p, history)
<1>1. PICK intent : run' = [phase |-> IF NeedsClarification(text, intent = "long_task", history)
                                      THEN "clarify" ELSE "prepare",
                            prompt |-> p, text |-> text, intent |-> intent, risky |-> triage.risky,
                            research |-> Researches(text, triage),
                            level |-> "small", mapped |-> FALSE, understood |-> FALSE,
                            blocked |-> FALSE, wrote |-> FALSE]
  BY DEF Begin
<1>2. ~wizard' /\ history' = history
  BY DEF Begin
<1>3. CASE p # Answer
  <2>1. run'.phase = "clarify" => text = <<p>>
    <3>1. run'.phase = "clarify" => NeedsClarification(text, intent = "long_task", history)
      <4> HIDE DEF text
      <4> QED
        BY <1>1
    <3>2. NeedsClarification(text, intent = "long_task", history) => text = <<>> \o <<p>>
      BY DEF NeedsClarification, EffectivePrompt
    <3>3. <<>> \o <<p>> = <<p>>
      OBVIOUS
    <3> QED
      BY <3>1, <3>2, <3>3
  <2>2. run'.prompt = p /\ run'.text = text /\ ~run'.wrote /\ run'.phase # "rounds"
        /\ RunFields \subseteq DOMAIN run'
    BY <1>1 DEF RunFields
  <2> QED
    BY <1>2, <1>3, <2>1, <2>2 DEF IntakeInv, RunInv, AnswersAreHeard
<1>4. CASE p = Answer
  <2>1. PICK q : OpenedFor(history, q)
    BY <1>4 DEF IntakeInv
  <2>2. Pending(history) = <<q>>
    BY <2>1, PendingIsOpened DEF IntakeInv
  <2>3. text = <<q>> \o <<Answer>> /\ ~NeedsClarification(text, intent = "long_task", history)
    BY <1>4, <2>2 DEF EffectivePrompt, NeedsClarification
  <2>4. run'.phase = "prepare" /\ run'.text = <<q>> \o <<Answer>> /\ ~run'.wrote
        /\ RunFields \subseteq DOMAIN run'
    <3> HIDE DEF text
    <3> QED
      BY <1>1, <2>3 DEF RunFields
  <2>5. \E i \in DOMAIN history : history[i] = <<"marker", <<q>>>>
    <3>1. PICK S : history \in Seq(S)
      BY DEF IntakeInv, IsLine
    <3>2. Len(history) \in DOMAIN history
      BY <2>1, <3>1 DEF OpenedFor, EndsWith
    <3> QED
      BY <2>1, <3>2 DEF OpenedFor, EndsWith
  <2> QED
    BY <1>2, <2>4, <2>5 DEF IntakeInv, RunInv, AnswersAreHeard
<1> QED
  BY <1>3, <1>4

LEMMA LineGrows ==
  ASSUME NEW h, IsLine(h), NEW a PROVE IsLine(Append(h, a))
<1>1. PICK S : h \in Seq(S)
  BY DEF IsLine
<1> DEFINE T == S \cup {a}
<1>2. h \in Seq(T) /\ a \in T
  BY <1>1
<1> HIDE DEF T
<1> QED
  BY <1>2 DEF IsLine

LEMMA LineGrowsByTwo ==
  ASSUME NEW h, IsLine(h), NEW a, NEW b, NEW k, k = h \o <<a, b>>
  PROVE  IsLine(k) /\ EndsWith(k, a, b)
<1>1. PICK S : h \in Seq(S)
  BY DEF IsLine
<1> DEFINE T == S \cup {a, b}
<1>2. h \in Seq(T) /\ <<a, b>> \in Seq(T) /\ Len(h) \in Nat
  BY <1>1
<1> HIDE DEF T
<1>3. k \in Seq(T) /\ Len(k) = Len(h) + 2
  BY <1>2
<1>4. k[Len(h) + 1] = a /\ k[Len(h) + 2] = b
  BY <1>2
<1> QED
  BY <1>2, <1>3, <1>4 DEF IsLine, EndsWith

LEMMA IntakeInvNext == ASSUME IntakeInv, [IntakeNext]_intakeVars PROVE IntakeInv'
<1>1. ASSUME NEW triage \in Triages, AnswerClarification(triage) PROVE IntakeInv'
  BY <1>1, BeginInv DEF AnswerClarification
<1>2. ASSUME NEW triage \in Triages, NEW p \in Prompts, Submit(p, triage) PROVE IntakeInv'
  BY <1>2, BeginInv DEF Submit
<1>3. CASE CancelClarification
  BY <1>3 DEF CancelClarification, IntakeInv, RunInv, AnswersAreHeard
<1>4. CASE Clarify
  <2>1. run.text = <<run.prompt>>
    BY <1>4 DEF Clarify, IntakeInv, RunInv
  <2>2. history' = history \o <<<<"user", <<run.prompt>>>>, <<"marker", <<run.prompt>>>>>>
        /\ run' = Rest
    BY <1>4, <2>1 DEF Clarify, Asked
  <2>3. IsLine(history)
    BY DEF IntakeInv
  <2>4. PICK a, b : a = <<"user", <<run.prompt>>>> /\ b = <<"marker", <<run.prompt>>>>
    OBVIOUS
  <2>5. history' = history \o <<a, b>>
    BY <2>2, <2>4
  <2>6. IsLine(history') /\ OpenedFor(history', run.prompt)
    <3>1. IsLine(history') /\ EndsWith(history', a, b)
      <4>1. PICK h, k : h = history /\ k = history'
        OBVIOUS
      <4>2. IsLine(h) /\ k = h \o <<a, b>>
        BY <2>3, <2>5, <4>1
      <4>3. IsLine(k) /\ EndsWith(k, a, b)
        BY <4>2, LineGrowsByTwo, Zenon
      <4> QED
        BY <4>1, <4>3
    <3> QED
      BY <2>4, <3>1 DEF OpenedFor
  <2> QED
    BY <2>2, <2>6 DEF IntakeInv, AnswersAreHeard
<1>5. CASE ClarifyFails
  <2>1. IsLine(history')
    BY <1>5, LineGrows DEF ClarifyFails, IntakeInv
  <2>2. run' = Rest /\ wizard' = FALSE
    BY <1>5 DEF ClarifyFails, IntakeInv
  <2> QED
    BY <2>1, <2>2 DEF IntakeInv, AnswersAreHeard
<1>6. ASSUME NEW policy \in {"off", "auto", "always"}, Prepare(policy) PROVE IntakeInv'
  <2> DEFINE said == SaidBy(run.text)
             namedFiles == IF "file" \in said THEN 1 ELSE 0
             level == TaskLevel(said, run.risky, namedFiles)
             mapped == \/ policy = "always"
                       \/ /\ policy = "auto" /\ run.intent # "readonly"
                          /\ (level \in {"long", "high_risk"} \/ namedFiles > 0)
             map == BuildContextMap(project, WordsOf(run.text))
  <2>1. run' = [run EXCEPT !.phase = "rounds", !.level = level, !.mapped = mapped,
                    !.understood = map.read # {} /\ map.documents # {} /\ map.verification # {},
                    !.blocked = mapped /\ level = "high_risk" /\ Blockers(map, level) # {}]
    BY <1>6 DEF Prepare
  <2> HIDE DEF level, mapped, map
  <2>2. run # Rest /\ run.phase = "prepare" /\ history' = history /\ wizard' = wizard
    BY <1>6 DEF Prepare
  <2>3. RunInv /\ ~wizard
    BY <2>2 DEF IntakeInv
  <2>4. /\ RunFields \subseteq DOMAIN run'
        /\ run'.phase = "rounds" /\ run'.level = level /\ run'.mapped = mapped
        /\ run'.understood = (map.read # {} /\ map.documents # {} /\ map.verification # {})
        /\ run'.blocked = (mapped /\ level = "high_risk" /\ Blockers(map, level) # {})
        /\ run'.prompt = run.prompt /\ run'.text = run.text /\ run'.wrote = run.wrote
    BY <2>1, <2>3 DEF RunInv, RunFields
  <2>5. Blockers(map, "high_risk") = {} =>
          map.read # {} /\ map.documents # {} /\ map.verification # {}
    BY DEF Blockers
  <2>6. ~run'.wrote
    BY <2>2, <2>3, <2>4 DEF RunInv
  <2>7. RunInv'
    BY <2>4, <2>5, <2>6 DEF RunInv
  <2> QED
    BY <2>2, <2>3, <2>4, <2>7 DEF IntakeInv, AnswersAreHeard
<1>7. ASSUME NEW f \in NewFiles, Write(f) PROVE IntakeInv'
  <2>1. run' = [run EXCEPT !.wrote = TRUE] /\ run # Rest /\ run.phase = "rounds" /\ ~run.blocked
        /\ history' = history /\ wizard' = wizard
    BY <1>7 DEF Write
  <2>2. /\ RunFields \subseteq DOMAIN run'
        /\ \A x \in RunFields \ {"wrote"} : run'[x] = run[x]
    BY <2>1 DEF IntakeInv, RunInv
  <2>3. /\ run'.phase = run.phase /\ run'.blocked = run.blocked /\ run'.mapped = run.mapped
        /\ run'.level = run.level /\ run'.understood = run.understood
        /\ run'.prompt = run.prompt /\ run'.text = run.text
    BY <2>2 DEF RunFields
  <2> QED
    BY <2>1, <2>2, <2>3 DEF IntakeInv, RunInv, AnswersAreHeard
<1>8. ASSUME NEW f \in NewFiles, EditProject(f) PROVE IntakeInv'
  BY <1>8 DEF EditProject, IntakeInv, RunInv, AnswersAreHeard
<1>9. ASSUME NEW how \in {"answer", "silent", "throws"}, Finish(how) PROVE IntakeInv'
  <2>1. IsLine(history')
    <3>1. PICK h, p : h = history /\ p = <<"user", <<run.prompt>>>> /\ IsLine(h)
      BY DEF IntakeInv
    <3>2. PICK a : a = <<"assistant", <<>>>>
      OBVIOUS
    <3>3. CASE how = "answer"
      <4>1. PICK k : k = history'
        OBVIOUS
      <4>2. k = h \o <<p, a>>
        BY <1>9, <3>1, <3>2, <3>3, <4>1 DEF Finish
      <4>3. IsLine(k)
        BY <3>1, <4>2, LineGrowsByTwo, Zenon
      <4> QED
        BY <4>1, <4>3
    <3>4. CASE how = "silent"
      BY <1>9, <3>1, <3>4, LineGrows DEF Finish
    <3>5. CASE how = "throws"
      BY <1>9, <3>1, <3>5 DEF Finish
    <3> QED
      BY <1>9, <3>3, <3>4, <3>5
  <2> QED
    BY <1>9, <2>1 DEF Finish, IntakeInv, AnswersAreHeard
<1>10. CASE UNCHANGED intakeVars
  BY <1>10 DEF intakeVars, IntakeInv, RunInv, AnswersAreHeard
<1> QED
  BY <1>1, <1>2, <1>3, <1>4, <1>5, <1>6, <1>7, <1>8, <1>9, <1>10 DEF IntakeNext

LEMMA IntakeSound == IntakeInv => AnswersAreHeard /\ RiskIsUnderstood
BY DEF IntakeInv, RunInv, RiskIsUnderstood

-----------------------------------------------------------------------------
(* The hooks around a call.                                                *)

ToldRightly ==
  told.call # Nothing =>
    /\ ~told.ran => told.why # {}
    /\ told.ok /\ told.call.tool \in JournalTools =>
         \A r \in journal : Looks(r, told.marks) =>
           r.severity # "block" /\ (r.severity = "warn" => r \in told.report)

InHand ==
  /\ hookCall # Nothing => hookCall \in HookCalls
  /\ hookAt \in {1, 2, 3, 4, 5, 6}
  /\ hookCall # Nothing /\ hookAt = 4 => Overwritten(hookCall) \subseteq knownFiles
  /\ answer.ok \in BOOLEAN

Advised ==
  /\ failures \in [HookTools -> Nat]
  /\ \A t \in HookTools : failures[t] >= 2 => <<t, "search">> \in advice
  /\ \A t \in HookTools : <<t, "give up">> \in advice => <<t, "search">> \in advice

HookInv == InHand /\ written \subseteq knownFiles /\ ToldRightly /\ Advised

LEMMA HookSound == HookInv => HooksHold
BY DEF HookInv, ToldRightly, Advised, HooksHold

LEMMA AdviceStays == ASSUME Advised, UNCHANGED <<failures, advice>> PROVE Advised'
BY DEF Advised

LEMMA ToldStays == ASSUME ToldRightly, UNCHANGED <<told, journal>> PROVE ToldRightly'
BY DEF ToldRightly

(* ErrorTracker: whoever is advised to give up was advised to search.      *)
LEMMA RecordedInv ==
  ASSUME HookInv, hookCall # Nothing, NEW failed \in BOOLEAN, Recorded(failed)
  PROVE  Advised'
<1>1. CASE ~failed
  BY <1>1, AdviceStays DEF Recorded, HookInv
<1>2. CASE failed
  <2>1. PICK tool : tool = hookCall.tool
    OBVIOUS
  <2>2. tool \in HookTools /\ failures \in [HookTools -> Nat]
    BY <2>1 DEF HookInv, InHand, Advised, HookTools
  <2>3. PICK n \in Nat : n = failures[tool] + 1
    BY <2>2
  <2>4. /\ failures' = [failures EXCEPT ![tool] = n]
        /\ advice' = advice \cup (IF n = 2 THEN {<<tool, "search">>}
                                  ELSE IF n = 4 THEN {<<tool, "give up">>} ELSE {})
    BY <1>2, <2>1, <2>3 DEF Recorded
  <2>5. /\ failures' \in [HookTools -> Nat]
        /\ \A t \in HookTools : failures'[t] = IF t = tool THEN n ELSE failures[t]
    BY <2>2, <2>4
  <2>6. advice \subseteq advice' /\ (n = 2 => <<tool, "search">> \in advice')
    BY <2>4
  <2>7. n >= 3 => <<tool, "search">> \in advice
    <3>1. failures[tool] \in Nat /\ n - 1 = failures[tool]
      BY <2>2, <2>3
    <3>2. n >= 3 => failures[tool] >= 2
      BY <3>1
    <3> QED
      BY <2>2, <3>2 DEF HookInv, Advised
  <2>8. ASSUME NEW t \in HookTools, failures'[t] >= 2 PROVE <<t, "search">> \in advice'
    <3>1. CASE t = tool
      BY <2>3, <2>5, <2>6, <2>7, <2>8, <3>1
    <3>2. CASE t # tool
      BY <2>5, <2>6, <2>8, <3>2 DEF HookInv, Advised
    <3> QED
      BY <3>1, <3>2
  <2>9. ASSUME NEW t \in HookTools, <<t, "give up">> \in advice' PROVE <<t, "search">> \in advice'
    <3>1. CASE <<t, "give up">> \in advice
      BY <2>6, <3>1 DEF HookInv, Advised
    <3>2. CASE n = 4 /\ t = tool
      BY <2>6, <2>7, <3>2
    <3> QED
      BY <2>4, <2>9, <3>1, <3>2
  <2> QED
    BY <2>5, <2>8, <2>9 DEF Advised
<1> QED
  BY <1>1, <1>2

(* What a call is told, when its answer is in order, leaves all as it is.  *)
LEMMA TellInv ==
  ASSUME HookInv, hookCall # Nothing, UNCHANGED knownFiles,
         NEW ok \in BOOLEAN, NEW ran \in BOOLEAN, NEW why, NEW report, Tell(ok, ran, why, report),
         ~ran => why # {},
         ok /\ hookCall.tool \in JournalTools =>
           \A r \in journal : Looks(r, answer.marks) =>
             r.severity # "block" /\ (r.severity = "warn" => r \in report)
  PROVE  HookInv'
<1>1. /\ told' = [call |-> hookCall, ok |-> ok, ran |-> ran, why |-> why, report |-> report,
                  done |-> answer.ok, marks |-> answer.marks]
      /\ hookCall' = Nothing /\ hookAt' = 1 /\ answer' = NoAnswer
      /\ written' = written /\ journal' = journal /\ knownFiles' = knownFiles
  BY DEF Tell
<1>2. ToldRightly'
  BY <1>1 DEF ToldRightly, Looks
<1>3. Recorded(~ok) /\ (~ok) \in BOOLEAN
  BY DEF Tell
<1>4. Advised'
  BY <1>3, RecordedInv
<1>5. InHand'
  BY <1>1 DEF InHand, NoAnswer
<1> QED
  BY <1>1, <1>2, <1>4, <1>5 DEF HookInv

(* A handler that blocks says why.                                         *)
LEMMA BlockedIsTold ==
  ASSUME NEW i \in {1, 2, 3}, NEW c, BeforeOutput(i, c).blocked PROVE BeforeOutput(i, c).warns
<1>1. \A b, w : Output(b, w).blocked = b /\ Output(b, w).warns = w
  BY DEF Output
<1>2. CASE i = 1
  <2>1. BeforeOutput(i, c) = Output(SafetyBlocks(c), SafetyBlocks(c))
    BY <1>2 DEF BeforeOutput
  <2> QED
    BY <1>1, <2>1
<1>3. CASE i = 2
  <2>1. BeforeOutput(i, c) = Output(Severity(c) = "danger", Severity(c) # "none")
    BY <1>3 DEF BeforeOutput
  <2>2. Severity(c) = "danger" => Severity(c) # "none"
    OBVIOUS
  <2>3. Severity(c) = "danger"
    <3>1. BeforeOutput(i, c).blocked = (Severity(c) = "danger")
      BY <1>1, <2>1
    <3> QED
      BY <3>1
  <2> QED
    BY <1>1, <2>1, <2>2, <2>3
<1>4. CASE i = 3
  <2>1. PICK unread : BeforeOutput(i, c) = Output(unread, unread)
    BY <1>4 DEF BeforeOutput
  <2> QED
    BY <1>1, <2>1
<1> QED
  BY <1>2, <1>3, <1>4

LEMMA AskBeforeInv == ASSUME HookInv, AskBefore PROVE HookInv'
<1> DEFINE out == BeforeOutput(hookAt, hookCall)
           why == IF out.warns THEN warned \cup {hookAt} ELSE warned
<1>1. hookCall # Nothing /\ hookAt <= 3
  BY DEF AskBefore
<1>2. hookAt \in {1, 2, 3}
  BY <1>1 DEF HookInv, InHand
<1>3. CASE out.blocked
  <2>1. Tell(FALSE, FALSE, why, {}) /\ UNCHANGED knownFiles
    BY <1>3 DEF AskBefore
  <2>2. out.warns
    BY <1>2, <1>3, BlockedIsTold
  <2>3. why # {}
    BY <2>2
  <2> HIDE DEF why
  <2> QED
    BY <1>1, <2>1, <2>3, TellInv
<1>4. CASE ~out.blocked
  <2>1. /\ hookAt' = hookAt + 1
        /\ UNCHANGED <<hookCall, told, knownFiles, onDisk, written, journal, failures, advice, answer>>
    BY <1>4 DEF AskBefore
  <2>2. hookAt = 3 => Overwritten(hookCall) \subseteq knownFiles
    <3>1. hookAt = 3 => out = Output(~(Overwritten(hookCall) \subseteq knownFiles),
                                     ~(Overwritten(hookCall) \subseteq knownFiles))
      BY DEF BeforeOutput
    <3>2. \A b, w : Output(b, w).blocked = b
      BY DEF Output
    <3> QED
      BY <1>4, <3>1, <3>2
  <2>3. Overwritten(hookCall)' = Overwritten(hookCall)
    BY <2>1 DEF Overwritten
  <2>4. hookAt' \in {1, 2, 3, 4, 5, 6} /\ (hookAt' = 4 => hookAt = 3)
    BY <1>2, <2>1
  <2>5. ToldRightly' /\ Advised'
    BY <2>1, ToldStays, AdviceStays DEF HookInv
  <2>6. InHand'
    BY <2>1, <2>2, <2>3, <2>4 DEF HookInv, InHand
  <2> QED
    BY <2>1, <2>5, <2>6 DEF HookInv
<1> QED
  BY <1>3, <1>4

LEMMA RunToolInv ==
  ASSUME HookInv, NEW ok \in BOOLEAN, NEW text, NEW there, RunTool(ok, text, there)
  PROVE  HookInv'
<1>1. /\ hookCall # Nothing /\ hookAt = 4 /\ hookAt' = 5 /\ answer'.ok \in BOOLEAN
      /\ UNCHANGED <<hookCall, told, knownFiles, journal, failures, advice>>
  BY DEF RunTool
<1>2. written' \subseteq knownFiles
  <2>1. CASE ok /\ hookCall.tool \in EditTools \cup {"write_file"}
    <3>1. hookCall.files \cap onDisk \subseteq Overwritten(hookCall)
      BY <2>1 DEF Overwritten, EditTools
    <3> QED
      BY <1>1, <2>1, <3>1 DEF RunTool, HookInv, InHand
  <2>2. CASE ~(ok /\ hookCall.tool \in EditTools \cup {"write_file"})
    BY <2>2 DEF RunTool, HookInv
  <2> QED
    BY <2>1, <2>2
<1>3. ToldRightly' /\ Advised'
  BY <1>1, ToldStays, AdviceStays DEF HookInv
<1>4. InHand'
  BY <1>1 DEF HookInv, InHand
<1> QED
  BY <1>1, <1>2, <1>3, <1>4 DEF HookInv

LEMMA GuardJournalInv == ASSUME HookInv, GuardJournal PROVE HookInv'
<1> DEFINE found == IF answer.ok /\ hookCall.tool \in JournalTools
                    THEN Violations(answer.marks) ELSE {}
           warnings == {r \in found : r.severity = "warn"}
<1>1. hookCall # Nothing /\ UNCHANGED knownFiles /\ answer.ok \in BOOLEAN
  BY DEF GuardJournal, HookInv, InHand
<1>2. CASE Blocking(found) # {}
  <2>1. Tell(FALSE, TRUE, warned, {})
    BY <1>2 DEF GuardJournal
  <2> QED
    BY <1>1, <2>1, TellInv
<1>3. CASE Blocking(found) = {}
  <2>1. Tell(answer.ok, TRUE, warned, warnings)
    BY <1>3 DEF GuardJournal
  <2>2. ASSUME answer.ok /\ hookCall.tool \in JournalTools, NEW r \in journal, Looks(r, answer.marks)
        PROVE  r.severity # "block" /\ (r.severity = "warn" => r \in warnings)
    <3>1. r \in found
      BY <2>2 DEF Violations, Fires
    <3> HIDE DEF found
    <3> QED
      BY <1>3, <3>1 DEF Blocking
  <2> HIDE DEF warnings
  <2>3. PICK ok, rs : ok = answer.ok /\ rs = warnings /\ ok \in BOOLEAN
    BY <1>1
  <2> QED
    BY <1>1, <2>1, <2>2, <2>3, TellInv
<1> QED
  BY <1>2, <1>3

LEMMA HookInvNext == ASSUME HookInv, [HookNext]_hookVars PROVE HookInv'
<1>1. CASE AskBefore
  BY <1>1, AskBeforeInv
<1>2. CASE RecordRead
  <2>1. /\ knownFiles \subseteq knownFiles' /\ hookAt' = 6
        /\ UNCHANGED <<hookCall, told, answer, written, journal, failures, advice>>
    BY <1>2 DEF RecordRead
  <2>2. ToldRightly' /\ Advised'
    BY <2>1, ToldStays, AdviceStays DEF HookInv
  <2>3. InHand'
    BY <2>1 DEF HookInv, InHand
  <2> QED
    BY <2>1, <2>2, <2>3 DEF HookInv
<1>3. CASE GuardJournal
  BY <1>3, GuardJournalInv
<1>4. ASSUME NEW outs \in HookPrompts, SubmitPrompt(outs) PROVE HookInv'
  <2>1. /\ failures' = [t \in HookTools |-> 0] /\ advice' = {} /\ told' = Untold
        /\ UNCHANGED <<hookCall, hookAt, answer, knownFiles, onDisk, written, journal>>
    BY <1>4 DEF SubmitPrompt
  <2>2. Overwritten(hookCall)' = Overwritten(hookCall)
    BY <2>1 DEF Overwritten
  <2>3. ToldRightly'
    BY <2>1 DEF ToldRightly, Untold
  <2>4. Advised'
    BY <2>1 DEF Advised
  <2>5. InHand'
    BY <2>1, <2>2 DEF HookInv, InHand
  <2> QED
    BY <2>1, <2>3, <2>4, <2>5 DEF HookInv
<1>5. ASSUME NEW c \in HookCalls, CallTool(c) PROVE HookInv'
  <2>1. /\ hookCall' = c /\ hookAt' = 1 /\ answer' = NoAnswer
        /\ UNCHANGED <<told, knownFiles, written, journal, failures, advice>>
    BY <1>5 DEF CallTool
  <2>2. ToldRightly' /\ Advised'
    BY <2>1, ToldStays, AdviceStays DEF HookInv
  <2>3. InHand'
    BY <2>1 DEF InHand, NoAnswer
  <2> QED
    BY <2>1, <2>2, <2>3 DEF HookInv
<1>6. ASSUME NEW ok \in BOOLEAN, NEW text \in Texts \cup {{}}, NEW there \in SUBSET HookFiles,
             RunTool(ok, text, there)
      PROVE  HookInv'
  BY <1>6, RunToolInv
<1>7. CASE \/ \E how \in {"completed", "left"} : EndRun(how)
           \/ UNCHANGED hookVars
  <2>1. UNCHANGED <<hookCall, hookAt, answer, told, knownFiles, onDisk, written, journal, failures,
                    advice>>
    BY <1>7 DEF EndRun, hookVars
  <2>2. Overwritten(hookCall)' = Overwritten(hookCall)
    BY <2>1 DEF Overwritten
  <2>3. ToldRightly' /\ Advised'
    BY <2>1, ToldStays, AdviceStays DEF HookInv
  <2>4. InHand'
    BY <2>1, <2>2 DEF HookInv, InHand
  <2> QED
    BY <2>1, <2>3, <2>4 DEF HookInv
<1> QED
  BY <1>1, <1>2, <1>3, <1>4, <1>5, <1>6, <1>7 DEF HookNext

-----------------------------------------------------------------------------
(* The shell and its processes.                                            *)

Numbered == \E k \in Nat : Issued = 1..k

(* What lives in the job lives in one that somebody has open: the run that  *)
(* is on, or one that was left.                                            *)
JobHolds == handles = {} => Alive \cap inJob = {}

(* A command without an answer is in hand, or its run was left.            *)
Unreplied == {n \in Issued : results[n] = "none"}
Replied == \A n \in Unreplied : n = command \/ issued[n].run \in left

Processes ==
  /\ Numbered
  /\ DOMAIN process = Issued /\ DOMAIN results = Issued
  /\ inJob \subseteq Issued /\ children \subseteq Issued

Running ==
  /\ shellRun \in Nat
  /\ running => sandbox = shellRun
  /\ ~running => sandbox \in {shellRun, NoSandbox} /\ command = 0
  /\ command # 0 => command \in Issued /\ issued[command].run = shellRun

(* Who has the job open.                                                   *)
Holders == \A owner \in handles : owner \in left \/ (running /\ owner = shellRun)

ShellInv == Processes /\ Running /\ Holders /\ JobHolds /\ Replied

LEMMA ShellSound == ShellInv => ProcessesEnd
<1> SUFFICES ASSUME ShellInv PROVE ProcessesEnd
  OBVIOUS
<1>1. ~running /\ left = {} => Alive \cap inJob = {}
  BY DEF ShellInv, Holders, JobHolds
<1>2. \A n \in Issued : results[n] = "none" => n = command \/ issued[n].run \in left
  BY DEF ShellInv, Replied, Unreplied
<1> QED
  BY <1>1, <1>2 DEF ProcessesEnd

(* A step that starts no process and issues no command.                    *)
LEMMA FewerLive ==
  ASSUME ShellInv, UNCHANGED <<issued, inJob>>, DOMAIN process' = DOMAIN process,
         DOMAIN results' = DOMAIN results, children' \subseteq Issued, Alive' \subseteq Alive,
         handles' = {} => handles = {} \/ Alive' \cap inJob = {}
  PROVE  Processes' /\ JobHolds'
<1>1. Issued' = Issued
  BY DEF Issued
<1>2. Processes'
  BY <1>1 DEF ShellInv, Processes, Numbered
<1>3. JobHolds'
  BY DEF ShellInv, JobHolds
<1> QED
  BY <1>2, <1>3

(* Answers are never taken back.                                           *)
LEMMA StillAnswered ==
  ASSUME ShellInv, UNCHANGED issued, Unreplied' \subseteq Unreplied, left \subseteq left',
         \A n \in Unreplied' : n = command => n = command' \/ issued[n].run \in left'
  PROVE  Replied'
BY DEF ShellInv, Replied

LEMMA AskInv ==
  ASSUME ShellInv, NEW c, NEW spawns \in BOOLEAN, NEW admitted \in BOOLEAN, Ask(c, spawns, admitted)
  PROVE  ShellInv'
<1>1. PICK k \in Nat : Issued = 1..k
  BY DEF ShellInv, Processes, Numbered
<1>2. Cardinality(Issued) = k
  BY <1>1, FS_Interval
<1> DEFINE n == k + 1
           runs == ~NeverRuns(c) /\ SandboxAllows(c)
           given == IF ~runs THEN "refused" ELSE IF spawns THEN "none" ELSE "failed"
<1>3. /\ running /\ command = 0
      /\ issued' = [i \in Issued \cup {n} |-> IF i = n THEN [name |-> c, run |-> sandbox]
                                              ELSE issued[i]]
      /\ \E v : process' = [i \in Issued \cup {n} |-> IF i = n THEN v ELSE process[i]]
      /\ results' = [i \in Issued \cup {n} |-> IF i = n THEN given ELSE results[i]]
      /\ command' = IF runs /\ spawns THEN n ELSE 0
      /\ inJob' = IF runs /\ spawns /\ NeedsSandbox(c) /\ sandbox \in handles /\ admitted
                    THEN inJob \cup {n} ELSE inJob
      /\ UNCHANGED <<shellRun, running, sandbox, blockedFiles, handles, left, children>>
  BY <1>2 DEF Ask
<1>4. n \notin Issued /\ Issued \cup {n} = 1..n /\ n \in Nat /\ n # 0
  BY <1>1
<1>5. given = "none" => runs /\ spawns
  OBVIOUS
<1> HIDE DEF n, runs, given
<1>6. /\ Issued' = Issued \cup {n} /\ DOMAIN process' = Issued \cup {n}
      /\ DOMAIN results' = Issued \cup {n}
      /\ \A i \in Issued : issued'[i] = issued[i] /\ process'[i] = process[i]
                             /\ results'[i] = results[i]
      /\ issued'[n].run = sandbox /\ results'[n] = given
  BY <1>3, <1>4 DEF Issued
<1>7. Processes'
  BY <1>3, <1>4, <1>6 DEF ShellInv, Processes, Numbered
<1>8. sandbox = shellRun
  BY <1>3 DEF ShellInv, Running
<1>9. Running'
  BY <1>3, <1>4, <1>6, <1>8 DEF ShellInv, Running
<1>10. Holders'
  BY <1>3 DEF ShellInv, Holders
<1>11. JobHolds'
  <2> SUFFICES ASSUME handles = {}, NEW i \in Alive', i \in inJob' PROVE FALSE
    BY <1>3 DEF JobHolds
  <2>1. i \in inJob /\ i \in Issued
    BY <1>3 DEF ShellInv, Processes
  <2>2. i \in Alive
    BY <1>3, <1>6, <2>1 DEF Alive
  <2> QED
    BY <2>1, <2>2 DEF ShellInv, JobHolds
<1>12. Replied'
  <2> SUFFICES ASSUME NEW i \in Unreplied' PROVE i = command' \/ issued'[i].run \in left'
    BY DEF Replied
  <2>1. CASE i = n
    BY <1>3, <1>5, <1>6, <2>1 DEF Unreplied
  <2>2. CASE i # n
    <3>1. i \in Issued /\ i \in Unreplied
      BY <1>6, <2>2 DEF Unreplied
    <3>2. issued[i].run \in left
      <4>1. command \notin Issued
        BY <1>1, <1>3
      <4> QED
        BY <3>1, <4>1 DEF ShellInv, Replied
    <3> QED
      BY <1>3, <1>6, <3>1, <3>2
  <2> QED
    BY <2>1, <2>2
<1> QED
  BY <1>7, <1>9, <1>10, <1>11, <1>12 DEF ShellInv

LEMMA FinishRunInv == ASSUME ShellInv, FinishRun PROVE ShellInv'
<1>1. /\ running /\ sandbox = shellRun /\ ~running' /\ sandbox' = NoSandbox /\ command = 0
      /\ Dispose(shellRun) /\ UNCHANGED <<shellRun, left, command, issued, inJob, results>>
  BY DEF FinishRun, ShellInv, Running
<1>2. /\ DOMAIN process' = DOMAIN process /\ children' \subseteq children /\ Alive' \subseteq Alive
      /\ handles' = handles \ {shellRun}
      /\ handles' = {} => handles = {} \/ Alive' \cap inJob = {}
  <2>1. CASE shellRun \in handles
    <3> DEFINE dead == IF handles = {shellRun} THEN inJob ELSE {}
    <3>1. /\ process' = [n \in Issued |-> IF n \in dead /\ process[n] = "alive" THEN "killed"
                                          ELSE process[n]]
          /\ children' = children \ dead /\ handles' = handles \ {shellRun}
      BY <1>1, <2>1 DEF Dispose, Closed
    <3>2. handles' = {} => dead = inJob
      BY <2>1, <3>1
    <3> HIDE DEF dead
    <3>3. Issued' = Issued /\ DOMAIN process = Issued
      BY <1>1 DEF Issued, ShellInv, Processes
    <3>4. Alive' \subseteq Alive \ dead
      BY <3>1, <3>3 DEF Alive, ShellInv, Processes
    <3> QED
      BY <3>1, <3>2, <3>3, <3>4
  <2>2. CASE shellRun \notin handles
    <3>1. UNCHANGED <<process, children, handles>>
      BY <1>1, <2>2 DEF Dispose
    <3> QED
      BY <1>1, <2>2, <3>1 DEF Alive, Issued
  <2> QED
    BY <2>1, <2>2
<1>3. Processes' /\ JobHolds'
  BY <1>1, <1>2, FewerLive DEF ShellInv, Processes
<1>4. Running'
  BY <1>1, ShellAssumption DEF ShellInv, Running
<1>5. Holders'
  BY <1>1, <1>2 DEF ShellInv, Holders
<1>6. Replied'
  BY <1>1, StillAnswered DEF Unreplied, Issued
<1> QED
  BY <1>3, <1>4, <1>5, <1>6 DEF ShellInv

(* Close and TimeOut: the command in hand is answered.                     *)
LEMMA AnswerInv ==
  ASSUME ShellInv, NEW v, v # "none", command # 0, command' = 0,
         results' = [results EXCEPT ![command] = v],
         \/ UNCHANGED process
         \/ process' = [process EXCEPT ![command] = IF @ = "alive" THEN "killed" ELSE @],
         UNCHANGED <<shellRun, running, sandbox, handles, left, issued, children, inJob>>
  PROVE  ShellInv'
<1>1. command \in Issued /\ Issued' = Issued /\ DOMAIN process = Issued /\ DOMAIN results = Issued
  BY DEF ShellInv, Running, Processes, Issued
<1>2. Alive' \subseteq Alive
  BY <1>1 DEF Alive
<1>3. Processes' /\ JobHolds'
  BY <1>1, <1>2, FewerLive DEF ShellInv, Processes
<1>4. Running' /\ Holders'
  BY DEF ShellInv, Running, Holders
<1>5. Unreplied' \subseteq Unreplied \ {command}
  BY <1>1 DEF Unreplied
<1>6. Replied'
  BY <1>5, StillAnswered
<1> QED
  BY <1>3, <1>4, <1>6 DEF ShellInv

(* A process that starts others, or ends.                                  *)
LEMMA ProcessInv ==
  ASSUME ShellInv, DOMAIN process' = DOMAIN process, children' \subseteq Issued,
         Alive' \subseteq Alive,
         UNCHANGED <<shellRun, running, sandbox, handles, left, command, issued, inJob, results>>
  PROVE  ShellInv'
<1>1. Processes' /\ JobHolds'
  BY FewerLive DEF ShellInv, Processes
<1>2. Running' /\ Holders' /\ Replied'
  BY DEF ShellInv, Running, Holders, Replied, Unreplied, Issued
<1> QED
  BY <1>1, <1>2 DEF ShellInv

LEMMA ShellInvNext == ASSUME ShellInv, [ShellNext]_shellVars PROVE ShellInv'
<1>1. CASE BeginRun
  <2>1. /\ ~running /\ shellRun' = shellRun + 1 /\ running' /\ sandbox' = shellRun + 1
        /\ handles \subseteq handles' /\ handles' \subseteq handles \cup {shellRun'}
        /\ UNCHANGED <<left, command, issued, process, children, inJob, results>>
    BY <1>1 DEF BeginRun
  <2>2. Alive' = Alive
    BY <2>1 DEF Alive, Issued
  <2>3. Processes' /\ JobHolds'
    BY <2>1, <2>2, FewerLive DEF ShellInv, Processes
  <2>4. Running'
    BY <2>1 DEF ShellInv, Running
  <2>5. Holders'
    BY <2>1 DEF ShellInv, Holders
  <2>6. Replied'
    BY <2>1, StillAnswered DEF Unreplied, Issued
  <2> QED
    BY <2>3, <2>4, <2>5, <2>6 DEF ShellInv
<1>2. CASE FinishRun
  BY <1>2, FinishRunInv
<1>3. ASSUME NEW c, NEW spawns \in BOOLEAN, NEW admitted \in BOOLEAN, Ask(c, spawns, admitted)
      PROVE  ShellInv'
  BY <1>3, AskInv
<1>4. CASE LeaveRun
  <2>1. /\ running /\ ~running' /\ command' = 0 /\ left' = left \cup {shellRun}
        /\ UNCHANGED <<shellRun, sandbox, handles, issued, process, children, inJob, results>>
    BY <1>4 DEF LeaveRun
  <2>2. Alive' = Alive
    BY <2>1 DEF Alive, Issued
  <2>3. Processes' /\ JobHolds'
    BY <2>1, <2>2, FewerLive DEF ShellInv, Processes
  <2>4. Running' /\ Holders'
    BY <2>1 DEF ShellInv, Running, Holders
  <2>5. \A n \in Unreplied' : n = command => issued[n].run \in left'
    <3>1. 0 \notin Issued
      BY DEF ShellInv, Processes, Numbered
    <3> QED
      BY <2>1, <3>1 DEF ShellInv, Running, Unreplied, Issued
  <2>6. Replied'
    BY <2>1, <2>5, StillAnswered DEF Unreplied, Issued
  <2> QED
    BY <2>3, <2>4, <2>6 DEF ShellInv
<1>5. CASE Close
  <2>1. PICK v \in {"failed", "ok"} : results' = [results EXCEPT ![command] = v]
    BY <1>5 DEF Close
  <2> QED
    BY <1>5, <2>1, AnswerInv DEF Close
<1>6. CASE TimeOut
  BY <1>6, AnswerInv DEF TimeOut
<1>7. ASSUME NEW n \in Issued, Fork(n) PROVE ShellInv'
  BY <1>7, ProcessInv DEF Fork, Alive, Issued, ShellInv, Processes
<1>8. ASSUME NEW n \in Issued, ChildrenEnd(n) PROVE ShellInv'
  BY <1>8, ProcessInv DEF ChildrenEnd, Alive, Issued, ShellInv, Processes
<1>9. ASSUME NEW n \in Issued, NEW code \in {0, 1, 2}, Exit(n, code) PROVE ShellInv'
  BY <1>9, ProcessInv DEF Exit, Alive, Issued, ShellInv, Processes
<1>10. CASE (\E fs \in SUBSET RippleFiles : BlockFiles(fs)) \/ UNCHANGED shellVars
  BY <1>10, ProcessInv DEF BlockFiles, shellVars, Alive, Issued, ShellInv, Processes
<1> QED
  BY <1>1, <1>2, <1>3, <1>4, <1>5, <1>6, <1>7, <1>8, <1>9, <1>10 DEF ShellNext

-----------------------------------------------------------------------------
(* The ledger of files.  A record keeps the baseline and the range of what *)
(* it was made of; only that it was made of an analysis may be forgotten,   *)
(* and then it was given up in between.                                    *)

FileRecord ==
  [range : Ranges, baseline : Bodies, source : {"read_file", "agent_write", "external_change"},
   status : {"fresh", "partial", "truncated", "stale", "deleted"}]

FileNote == [how : {"whole", "part", "digest"}, body : Bodies]

(* What a record says of what was noted of its file.                       *)
Remembers(record, note, given) ==
  /\ note.body = record.baseline
  /\ note.how = "part" => record.range = "range"
  /\ note.how = "digest" => record.status = "truncated" \/ given

LedgerKnows ==
  \A f \in LedgerFiles : ledger[f] # Nobody => Remembers(ledger[f], noted[f], f \in lapsed)

LedgerInv == FileStateTypeOK /\ LedgerKnows /\ EditsAreInformed

LEMMA LedgerStarts == FileStateInit \/ LedgerRests => LedgerInv
<1> SUFFICES ASSUME FileStateInit \/ LedgerRests PROVE LedgerInv
  OBVIOUS
<1>1. /\ inHand = [f \in LedgerFiles |-> Nobody] /\ ledger = [f \in LedgerFiles |-> Nobody]
      /\ noted = [f \in LedgerFiles |-> Nobody] /\ lapsed = {} /\ authorised = Nobody
  BY DEF FileStateInit, LedgerRests
<1>2. holds \in [LedgerFiles -> Bodies \cup {Gone}]
  BY DEF FileStateInit, LedgerRests
<1> QED
  BY <1>1, <1>2 DEF LedgerInv, FileStateTypeOK, LedgerKnows, EditsAreInformed

(* A tool records what it has found on disk.                               *)
LEMMA RecordKeeps ==
  ASSUME LedgerInv, NEW f \in LedgerFiles, NEW range \in Ranges, NEW body \in Bodies,
         NEW source \in {"read_file", "agent_write"}, NEW how \in {"whole", "part", "digest"},
         NEW status \in {"fresh", "partial", "truncated"},
         how = "part" => range = "range", how = "digest" => status = "truncated",
         Record(f, range, body, source, status), Note(f, how, body),
         inHand' = [inHand EXCEPT ![f] = Nobody], authorised' = Nobody, UNCHANGED holds
  PROVE  LedgerInv'
<1> DEFINE made == [range |-> range, baseline |-> body, source |-> source, status |-> status]
           note == [how |-> how, body |-> body]
<1>1. made \in FileRecord
  BY DEF FileRecord
<1>2. note \in FileNote
  BY DEF FileNote
<1>3. ledger' = [ledger EXCEPT ![f] = made] /\ noted' = [noted EXCEPT ![f] = note]
  BY DEF Record, Note
<1>4. lapsed' = lapsed \ {f}
  BY DEF Note
<1>5. Remembers(made, note, FALSE)
  BY DEF Remembers
<1> HIDE DEF made, note
<1>6. FileStateTypeOK'
  BY <1>1, <1>2, <1>3, <1>4 DEF LedgerInv, FileStateTypeOK, FileRecord, FileNote
<1>7. ASSUME NEW g \in LedgerFiles, ledger'[g] # Nobody
      PROVE  Remembers(ledger'[g], noted'[g], g \in lapsed')
  <2>1. CASE g = f
    <3>1. ledger'[f] = made /\ noted'[f] = note /\ f \notin lapsed'
      BY <1>3, <1>4 DEF LedgerInv, FileStateTypeOK
    <3> QED
      BY <1>5, <2>1, <3>1 DEF Remembers
  <2>2. CASE g # f
    <3>1. ledger'[g] = ledger[g] /\ noted'[g] = noted[g] /\ (g \in lapsed' <=> g \in lapsed)
      BY <1>3, <1>4, <2>2 DEF LedgerInv, FileStateTypeOK
    <3>2. Remembers(ledger[g], noted[g], g \in lapsed)
      BY <1>7, <3>1 DEF LedgerInv, LedgerKnows
    <3> QED
      BY <3>1, <3>2 DEF Remembers
  <2> QED
    BY <2>1, <2>2
<1>8. LedgerKnows'
  BY <1>7 DEF LedgerKnows
<1>9. EditsAreInformed'
  BY DEF EditsAreInformed
<1> QED
  BY <1>6, <1>8, <1>9 DEF LedgerInv

LEMMA LapsedRemembers ==
  ASSUME NEW record \in FileRecord, NEW note, NEW status \in {"stale", "deleted"}, NEW current,
         note.body = record.baseline, note.how = "part" => record.range = "range"
  PROVE  /\ Lapsed(record, status, current) \in FileRecord
         /\ Remembers(Lapsed(record, status, current), note, TRUE)
<1>1. Lapsed(record, status, current) \in FileRecord
  BY DEF Lapsed, FileRecord
<1>2. /\ Lapsed(record, status, current).baseline = record.baseline
      /\ Lapsed(record, status, current).range = record.range
  BY DEF Lapsed, FileRecord
<1> QED
  BY <1>1, <1>2 DEF Remembers

(* checkFresh changes the status of a record and nothing it was made of.   *)
LEMMA CheckedRemembers ==
  ASSUME NEW record \in FileRecord, NEW note, NEW f, NEW given, NEW current \in Bodies \cup {Gone},
         Remembers(record, note, f \in given)
  PROVE  /\ Checked(record, current) \in FileRecord
         /\ Remembers(Checked(record, current), note, f \in given \/ current # record.baseline)
<1>1. record.baseline \in Bodies
  BY DEF FileRecord
<1>2. CASE current = Gone
  <2>1. current # record.baseline
    BY <1>1, <1>2, FileStateAssumption
  <2>2. Checked(record, current) = Lapsed(record, "deleted", current)
    BY <1>2 DEF Checked
  <2>3. Lapsed(record, "deleted", current) \in FileRecord /\ Remembers(Lapsed(record, "deleted", current), note, TRUE)
    BY LapsedRemembers DEF Remembers
  <2> QED
    BY <2>1, <2>2, <2>3 DEF Remembers
<1>3. CASE current # Gone /\ record.baseline # current
  <2>1. Checked(record, current) = Lapsed(record, "stale", current)
    BY <1>3 DEF Checked
  <2>2. Lapsed(record, "stale", current) \in FileRecord /\ Remembers(Lapsed(record, "stale", current), note, TRUE)
    BY LapsedRemembers DEF Remembers
  <2> QED
    BY <1>3, <2>1, <2>2 DEF Remembers
<1>4. CASE current # Gone /\ record.baseline = current
  <2> DEFINE status == StatusForRead(record.range, record.status = "truncated")
  <2>1. Checked(record, current) = [record EXCEPT !.status = status]
    BY <1>4 DEF Checked
  <2>2. status \in {"fresh", "partial", "truncated"}
    BY DEF StatusForRead
  <2>3. record.status = "truncated" => status = "truncated"
    BY DEF StatusForRead
  <2> HIDE DEF status
  <2>4. [record EXCEPT !.status = status] \in FileRecord
    BY <2>2 DEF FileRecord
  <2>5. /\ [record EXCEPT !.status = status].baseline = record.baseline
        /\ [record EXCEPT !.status = status].range = record.range
        /\ [record EXCEPT !.status = status].status = status
    BY DEF FileRecord
  <2> QED
    BY <2>1, <2>3, <2>4, <2>5 DEF Remembers
<1> QED
  BY <1>2, <1>3, <1>4

(* The ledger after a check of one file.                                   *)
LEMMA CheckKeeps ==
  ASSUME LedgerInv, NEW f \in LedgerFiles, CheckFresh(f), authorised' \in Requirements \cup {Nobody}
  PROVE  FileStateTypeOK' /\ LedgerKnows'
<1>1. UNCHANGED <<holds, inHand, noted>>
  BY DEF CheckFresh
<1>2. holds[f] \in Bodies \cup {Gone} /\ DOMAIN ledger = LedgerFiles
  BY DEF LedgerInv, FileStateTypeOK
<1>3. CASE ledger[f] = Nobody
  <2>1. UNCHANGED <<ledger, lapsed>>
    BY <1>3 DEF CheckFresh
  <2> QED
    BY <1>1, <2>1 DEF LedgerInv, FileStateTypeOK, LedgerKnows
<1>4. CASE ledger[f] # Nobody
  <2> DEFINE next == Checked(ledger[f], holds[f])
  <2>1. ledger[f] \in FileRecord
    BY <1>4 DEF LedgerInv, FileStateTypeOK, FileRecord
  <2>2. Remembers(ledger[f], noted[f], f \in lapsed)
    BY <1>4 DEF LedgerInv, LedgerKnows
  <2>3. next \in FileRecord /\ Remembers(next, noted[f], f \in lapsed \/ holds[f] # ledger[f].baseline)
    BY <1>2, <2>1, <2>2, CheckedRemembers
  <2>4. ledger' = [ledger EXCEPT ![f] = next]
    BY <1>4 DEF CheckFresh
  <2>5. lapsed' = IF holds[f] = ledger[f].baseline THEN lapsed ELSE lapsed \cup {f}
    BY <1>4 DEF CheckFresh
  <2> HIDE DEF next
  <2>6. FileStateTypeOK'
    BY <1>1, <2>3, <2>4, <2>5 DEF LedgerInv, FileStateTypeOK, FileRecord
  <2>7. ASSUME NEW g \in LedgerFiles, ledger'[g] # Nobody
        PROVE  Remembers(ledger'[g], noted'[g], g \in lapsed')
    <3>1. CASE g = f
      BY <1>1, <1>2, <2>3, <2>4, <2>5, <3>1 DEF Remembers
    <3>2. CASE g # f
      <4>1. ledger'[g] = ledger[g] /\ noted'[g] = noted[g] /\ (g \in lapsed' <=> g \in lapsed)
        BY <1>1, <1>2, <2>4, <2>5, <3>2
      <4>2. Remembers(ledger[g], noted[g], g \in lapsed)
        BY <2>7, <4>1 DEF LedgerInv, LedgerKnows
      <4> QED
        BY <4>1, <4>2 DEF Remembers
    <3> QED
      BY <3>1, <3>2
  <2>8. LedgerKnows'
    BY <2>7 DEF LedgerKnows
  <2> QED
    BY <2>6, <2>8
<1> QED
  BY <1>3, <1>4

(* The gate judges the record as the check has left it.                    *)
LEMMA ValidateKeeps ==
  ASSUME LedgerInv, NEW edit \in Requirements, ValidateFreshness(edit)
  PROVE  LedgerInv'
<1> DEFINE f == edit.file
<1>1. f \in LedgerFiles /\ DOMAIN ledger = LedgerFiles
  BY DEF Requirements, LedgerInv, FileStateTypeOK
<1>2. CASE edit.operation = "create"
  <2>1. /\ authorised' = IF holds[f] = Gone THEN edit ELSE Nobody
        /\ UNCHANGED <<holds, inHand, ledger, noted, lapsed>>
    BY <1>2 DEF ValidateFreshness
  <2> HIDE DEF f
  <2>2. FileStateTypeOK' /\ LedgerKnows'
    BY <2>1 DEF LedgerInv, FileStateTypeOK, LedgerKnows
  <2>3. EditsAreInformed'
    BY <1>2, <2>1 DEF EditsAreInformed, f
  <2> QED
    BY <2>2, <2>3 DEF LedgerInv
<1>3. CASE edit.operation # "create"
  <2> DEFINE agrees == ledger[f] # Nobody /\ holds[f] = ledger[f].baseline
             next == Checked(ledger[f], holds[f])
  <2>1. CheckFresh(f) /\ authorised' = IF agrees /\ Authorises(next, edit) THEN edit ELSE Nobody
    BY <1>3 DEF ValidateFreshness
  <2>2. FileStateTypeOK' /\ LedgerKnows'
    BY <1>1, <2>1, CheckKeeps
  <2>3. UNCHANGED <<holds, noted>>
    BY <2>1 DEF CheckFresh
  <2>4. CASE ~(agrees /\ Authorises(next, edit))
    BY <2>1, <2>2, <2>4 DEF LedgerInv, EditsAreInformed
  <2>5. CASE agrees /\ Authorises(next, edit)
    <3>1. ledger' = [ledger EXCEPT ![f] = next] /\ lapsed' = lapsed
      BY <2>1, <2>5 DEF CheckFresh
    <3>2. ledger[f] \in FileRecord
      BY <1>1, <2>5 DEF LedgerInv, FileStateTypeOK, FileRecord
    <3>3. Remembers(ledger[f], noted[f], f \in lapsed)
      BY <1>1, <2>5 DEF LedgerInv, LedgerKnows
    <3>4. holds[f] \in Bodies \cup {Gone}
      BY <1>1 DEF LedgerInv, FileStateTypeOK
    <3>5. next \in FileRecord /\ Remembers(next, noted[f], f \in lapsed \/ holds[f] # ledger[f].baseline)
      BY <3>2, <3>3, <3>4, CheckedRemembers
    <3>6. holds[f] = noted[f].body
      BY <2>5, <3>3 DEF Remembers
    <3>7. next.status # "truncated"
      BY <2>5 DEF Authorises
    <3>8. next.range = "full" \/ (edit.allowsPartial /\ edit.operation # "overwrite")
      BY <2>5 DEF Authorises
    <3>9. authorised' = edit /\ edit.operation \in {"patch", "overwrite", "create"}
      BY <2>1, <2>5 DEF Requirements
    <3> HIDE DEF agrees, next
    <3>10. noted[f].how = "digest" => f \in lapsed
      BY <2>5, <3>5, <3>7 DEF Remembers, agrees
    <3>11. noted[f].how = "part" => edit.operation = "patch" /\ edit.allowsPartial
      BY <1>3, <3>5, <3>8, <3>9 DEF Remembers
    <3>12. EditsAreInformed'
      BY <1>3, <2>3, <3>1, <3>6, <3>9, <3>10, <3>11 DEF EditsAreInformed
    <3> QED
      BY <2>2, <3>12 DEF LedgerInv
  <2> QED
    BY <2>4, <2>5
<1> QED
  BY <1>2, <1>3

LEMMA LedgerInvNext == ASSUME LedgerInv, [FileStateNext]_fileVars PROVE LedgerInv'
<1>1. CASE UNCHANGED fileVars
  BY <1>1 DEF fileVars, LedgerInv, FileStateTypeOK, LedgerKnows, EditsAreInformed
<1>2. ASSUME NEW f \in LedgerFiles, NEW range \in Ranges, StartRead(f, range)
      PROVE  LedgerInv'
  <2>1. [tool |-> "read", body |-> holds[f], range |-> range]
          \in [tool : {"read", "write"}, body : Bodies, range : Ranges]
    BY <1>2 DEF StartRead, LedgerInv, FileStateTypeOK
  <2> QED
    BY <1>2, <2>1 DEF StartRead, LedgerInv, FileStateTypeOK, LedgerKnows, EditsAreInformed
<1>3. ASSUME NEW f \in LedgerFiles, FinishRead(f)
      PROVE  LedgerInv'
  <2>1. CASE holds[f] = Gone
    BY <1>3, <2>1 DEF FinishRead, RecordRuntimeFileRead, FingerprintFile, LedgerInv, FileStateTypeOK, LedgerKnows, EditsAreInformed
  <2>2. CASE holds[f] # Gone
    <3> DEFINE range == inHand[f].range
               digest == inHand[f].body \in Large /\ range = "full"
               how == IF digest THEN "digest" ELSE IF range = "range" THEN "part" ELSE "whole"
               status == StatusForRead(range, digest)
    <3>1. range \in Ranges /\ holds[f] \in Bodies
      BY <1>3, <2>2 DEF FinishRead, LedgerInv, FileStateTypeOK
    <3>2. how \in {"whole", "part", "digest"} /\ status \in {"fresh", "partial", "truncated"}
      BY DEF StatusForRead
    <3>3. (how = "part" => range = "range") /\ (how = "digest" => status = "truncated")
      BY DEF StatusForRead
    <3>4. Record(f, range, holds[f], "read_file", status) /\ Note(f, how, holds[f])
      BY <1>3, <2>2 DEF FinishRead, RecordRuntimeFileRead, FingerprintFile
    <3>5. inHand' = [inHand EXCEPT ![f] = Nobody] /\ authorised' = Nobody /\ UNCHANGED holds
      BY <1>3 DEF FinishRead
    <3> HIDE DEF range, how, status
    <3> QED
      BY <3>1, <3>2, <3>3, <3>4, <3>5, RecordKeeps
  <2> QED
    BY <2>1, <2>2
<1>4. ASSUME NEW f \in LedgerFiles, RecordWrite(f)
      PROVE  LedgerInv'
  <2> DEFINE body == IF holds[f] = Gone THEN inHand[f].body ELSE holds[f]
  <2>1. body \in Bodies
    BY <1>4 DEF RecordWrite, FingerprintFile, LedgerInv, FileStateTypeOK
  <2>2. Record(f, "full", body, "agent_write", "fresh") /\ Note(f, "whole", body)
    BY <1>4 DEF RecordWrite, FingerprintFile
  <2>3. inHand' = [inHand EXCEPT ![f] = Nobody] /\ authorised' = Nobody /\ UNCHANGED holds
    BY <1>4 DEF RecordWrite
  <2>4. "full" \in Ranges
    BY DEF Ranges
  <2> HIDE DEF body
  <2> QED
    BY <2>1, <2>2, <2>3, <2>4, RecordKeeps
<1>5. ASSUME NEW f \in LedgerFiles, MarkExternalChange(f)
      PROVE  LedgerInv'
  <2> DEFINE next == Lapsed(ledger[f], "stale", holds[f])
  <2>1. ledger[f] \in FileRecord /\ Remembers(ledger[f], noted[f], f \in lapsed)
    BY <1>5 DEF MarkExternalChange, LedgerInv, LedgerKnows, FileStateTypeOK, FileRecord
  <2>2. next \in FileRecord /\ Remembers(next, noted[f], TRUE)
    BY <2>1, LapsedRemembers DEF Remembers
  <2>3. /\ ledger' = [ledger EXCEPT ![f] = next] /\ lapsed' = lapsed \cup {f}
        /\ authorised' = Nobody /\ UNCHANGED <<holds, inHand, noted>>
    BY <1>5 DEF MarkExternalChange
  <2> HIDE DEF next
  <2>4. FileStateTypeOK'
    BY <2>2, <2>3 DEF LedgerInv, FileStateTypeOK, FileRecord
  <2>5. ASSUME NEW g \in LedgerFiles, ledger'[g] # Nobody
        PROVE  Remembers(ledger'[g], noted'[g], g \in lapsed')
    <3>1. CASE g = f
      BY <2>2, <2>3, <3>1 DEF Remembers, LedgerInv, FileStateTypeOK
    <3>2. CASE g # f
      <4>1. ledger'[g] = ledger[g] /\ noted'[g] = noted[g] /\ (g \in lapsed' <=> g \in lapsed)
        BY <2>3, <3>2 DEF LedgerInv, FileStateTypeOK
      <4>2. Remembers(ledger[g], noted[g], g \in lapsed)
        BY <2>5, <4>1 DEF LedgerInv, LedgerKnows
      <4> QED
        BY <4>1, <4>2 DEF Remembers
    <3> QED
      BY <3>1, <3>2
  <2>6. LedgerKnows' /\ EditsAreInformed'
    BY <2>3, <2>5 DEF LedgerKnows, EditsAreInformed
  <2> QED
    BY <2>4, <2>6 DEF LedgerInv
<1>6. ASSUME NEW f \in LedgerFiles, CheckFresh(f), authorised' = Nobody
      PROVE  LedgerInv'
  BY <1>6, CheckKeeps DEF LedgerInv, EditsAreInformed
<1>7. ASSUME NEW f \in LedgerFiles, NEW body \in Bodies, CommitWrite(f, body)
      PROVE  LedgerInv'
  <2>1. [tool |-> "write", body |-> body, range |-> "full"]
          \in [tool : {"read", "write"}, body : Bodies, range : Ranges]
    BY DEF Ranges
  <2> QED
    BY <1>7, <2>1 DEF CommitWrite, LedgerInv, FileStateTypeOK, LedgerKnows, EditsAreInformed
<1>8. ASSUME NEW f \in LedgerFiles, NEW body \in Bodies \cup {Gone}, ChangeFile(f, body)
      PROVE  LedgerInv'
  BY <1>8 DEF ChangeFile, LedgerInv, FileStateTypeOK, LedgerKnows, EditsAreInformed
<1>9. ASSUME NEW edit \in Requirements, ValidateFreshness(edit)
      PROVE  LedgerInv'
  BY <1>9, ValidateKeeps
<1> QED
  BY <1>1, <1>2, <1>3, <1>4, <1>5, <1>6, <1>7, <1>8, <1>9 DEF FileStateNext

-----------------------------------------------------------------------------
(* All gates together.                                                     *)

GatesInv == RippleInv /\ GuideInv /\ RoundInv /\ IntakeInv /\ HookInv /\ ShellInv /\ LedgerInv

LEMMA RippleStarts == RippleInit \/ RippleRests => RippleInv
<1>1. RippleRests => RippleInv
  BY RippleAssumption DEF RippleRests, RippleInv, RippleTypeOK, CallersFollow, NotBuilt, NotListed
<1> QED
  BY <1>1, RippleInvInit

LEMMA GuideStarts == GuidanceInit \/ GuidanceRests => GuideInv
BY DEF GuidanceInit, GuidanceRests, GuideInv

LEMMA RoundStarts == ToolGateInit \/ ToolsRest => RoundInv
<1> SUFFICES ASSUME ToolsRest PROVE RoundInv
  BY RoundInvInit
<1>1. batch = <<>> /\ Len(batch) = 0 /\ Indices = {} /\ at = 1
  BY DEF ToolsRest, Indices
<1>2. ToolGateTypeOK
  <2>1. used \in [Categories -> Nat]
    BY DEF ToolsRest, NoneUsed
  <2>2. ruling \in [Indices -> {"allowed", "blocked", "open"}] /\ fate \in [Indices -> Fates]
    BY <1>1 DEF ToolsRest
  <2>3. rules \in RuleSets /\ toolRound \in 0..MaxToolRounds
    BY RestAssumption, ToolGateAssumption DEF ToolsRest
  <2>4. at \in 1..Len(batch) + 1
    BY <1>1
  <2>5. parallel \in BOOLEAN /\ present \subseteq Paths
    BY DEF ToolsRest
  <2> QED
    BY <1>1, <2>1, <2>2, <2>3, <2>4, <2>5 DEF ToolsRest, ToolGateTypeOK
<1> QED
  BY <1>1, <1>2 DEF ToolsRest, RoundInv, RightInv, Ran, Awaited

LEMMA IntakeStarts == IntakeInit \/ IntakeRests => IntakeInv
<1>1. IsLine(<<>>)
  <2>1. <<>> \in Seq({})
    OBVIOUS
  <2> QED
    BY <2>1 DEF IsLine
<1> QED
  BY <1>1 DEF IntakeInit, IntakeRests, IntakeInv, AnswersAreHeard

LEMMA HooksStart == HookInit \/ HooksRest => HookInv
<1> SUFFICES ASSUME HookInit \/ HooksRest PROVE HookInv
  OBVIOUS
<1>1. /\ hookCall = Nothing /\ hookAt = 1 /\ answer = NoAnswer /\ told = Untold /\ written = {}
      /\ failures = [t \in HookTools |-> 0] /\ advice = {}
  BY DEF HookInit, HooksRest
<1>2. InHand
  BY <1>1 DEF InHand, NoAnswer
<1>3. ToldRightly
  BY <1>1 DEF ToldRightly, Untold
<1>4. Advised
  BY <1>1 DEF Advised
<1> QED
  BY <1>1, <1>2, <1>3, <1>4 DEF HookInv

LEMMA ShellStarts == ShellInit \/ ShellRests => ShellInv
<1> SUFFICES ASSUME ShellInit \/ ShellRests PROVE ShellInv
  OBVIOUS
<1>1. /\ shellRun \in Nat /\ ~running /\ sandbox = NoSandbox /\ handles = {} /\ command = 0
      /\ issued = NoCommands /\ process = NoCommands /\ children = {} /\ inJob = {}
      /\ results = NoCommands
  BY ShellAssumption DEF ShellInit, ShellRests
<1>2. Issued = {} /\ DOMAIN process = {} /\ DOMAIN results = {}
  BY <1>1 DEF Issued, NoCommands
<1>3. Numbered
  <2>1. Issued = 1..0
    BY <1>2
  <2> QED
    BY <2>1 DEF Numbered
<1>4. Processes /\ Running
  BY <1>1, <1>2, <1>3 DEF Processes, Running
<1>5. Holders /\ JobHolds /\ Replied
  BY <1>1, <1>2 DEF Holders, JobHolds, Replied, Unreplied
<1> QED
  BY <1>4, <1>5 DEF ShellInv

LEMMA GatesStart == Init => GatesInv
BY RippleStarts, GuideStarts, RoundStarts, IntakeStarts, HooksStart, ShellStarts, LedgerStarts
DEF Init, GatesInv

LEMMA GatesNext == ASSUME GatesInv, [Next]_gates PROVE GatesInv'
<1>1. /\ [RippleNext]_rippleVars /\ [GuidanceNext]_guidanceVars /\ [ToolGateNext]_gateVars
      /\ [IntakeNext]_intakeVars /\ [HookNext]_hookVars /\ [ShellNext]_shellVars
      /\ [FileStateNext]_fileVars
  BY DEF Next, gates
<1>2. RippleInv' /\ GuideInv' /\ RoundInv'
  BY <1>1, RippleInvNext, GuideInvNext, RoundInvNext DEF GatesInv
<1>3. IntakeInv' /\ HookInv' /\ ShellInv' /\ LedgerInv'
  BY <1>1, IntakeInvNext, HookInvNext, ShellInvNext, LedgerInvNext DEF GatesInv
<1> QED
  BY <1>2, <1>3 DEF GatesInv

(* For every project, refusal and set of tests: a caller that an accepted  *)
(* edit left alone stays owed (obligations.ts); a refusal names every      *)
(* caller as long as there are no more than it lists (formatRippleBlock);  *)
(* the target's own tests are run (buildSteps).                            *)
THEOREM CallersServed == Spec => []CallersAreServed
<1>1. GatesInv => CallersAreServed
  BY GuideSound DEF GatesInv, RippleInv, CallersAreServed
<1> QED
  BY GatesStart, GatesNext, <1>1, PTL DEF Spec

(* For every set of tools, rules, prompts, rules of the journal and        *)
(* commands: tools run as the rules allow; a run found risky writes only   *)
(* where the map shows it is understood, and the answers of a              *)
(* clarification are worked on with the request they are about; the chain  *)
(* of hooks keeps its word; no process in the job outlives its run and     *)
(* every command is answered, unless a run was left where nothing is       *)
(* disposed of; and the ledger of files authorises no edit of what the     *)
(* agent does not know.                                                    *)
THEOREM WritesRightly == Spec => []WritesByRight
<1>1. RoundInv => RunsByRight
  BY DEF RoundInv, RightInv, RunsByRight, MayRun
<1>2. GatesInv => WritesByRight
  BY <1>1, IntakeSound, HookSound, ShellSound DEF GatesInv, LedgerInv, WritesByRight
<1> QED
  BY GatesStart, GatesNext, <1>2, PTL DEF Spec
=============================================================================
