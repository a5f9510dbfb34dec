------------------------------- MODULE Testimony -------------------------------
(***************************************************************************)
(* What a final answer is believed on: how the commands of a run become    *)
(* verification results (verification/result.ts) and evidence              *)
(* (agent/evidence-ledger.ts), the confidence computed from them           *)
(* (evaluator/confidence.ts), what the judge is told, how its answer is    *)
(* read and how often it is asked (agent/flash-judge.ts), and the check of *)
(* the claims in the answer (agent/completion-orchestrator.ts).            *)
(*                                                                         *)
(* The earlier gates and the rounds themselves are AgentLoop's: here an    *)
(* answer is one that they let through.                                    *)
(***************************************************************************)
EXTENDS Naturals, Integers, Sequences, FiniteSets, SequencesExt, FiniteSetsExt

CONSTANTS
  Commands,     \* shell commands, each the set of the words the detector looks for
  FinalTexts,   \* final answers: claims, promises, whether a word of the future is in it
  JudgeReplies, \* answers of the judge, Failed among them
  Failed,       \* the judge could not be asked
  Tasks,        \* kinds of verification a tracker asks for; Untracked: no tracker
  Untracked,
  TaskRounds,   \* bound on the rounds, the loop's maxRounds
  FirstJudged,  \* 3: rounds before the judge is asked
  MaxAsked,     \* 3: MAX_JUDGE_CALLS_PER_TASK
  Remembered    \* 20: verification results the loop keeps

ASSUME TestimonyAssumption == {TaskRounds, FirstJudged, MaxAsked, Remembered} \subseteq Nat

VARIABLES
  task,      \* the kinds the tracker requires, or Untracked
  phase,     \* of the tracker: "building", "complete"
  proofs,    \* tracker.verificationEvidence, its kinds
  results,   \* lastVerificationResults
  evidence,  \* the entries of the evidence ledger: <<kind, passed>>
  compiles,  \* lastTypecheck: "unknown", "passed", "failed"
  changed,   \* taskHadWrite
  trouble,   \* taskToolErrors > 0
  taskRound,
  asked,     \* calls of the judge, JudgeCircuitBreaker.count
  testimony, \* TestimonyLedger.rounds
  told,      \* what the last prompt of the judge says of testimony and evidence
  verdict,   \* the last answer of the judge, as it was read
  meant,     \* ... and as it was meant
  answer,    \* the final answer under judgement, or the last one
  seen,      \* the words of the commands that ran and passed
  fresh,     \* kinds of evidence that passed since the last write
  ended      \* "going", "done", "verified", "blocked", "silent": rounds used up without an answer

judgeVars == <<task, phase, proofs, results, evidence, compiles, changed, trouble, taskRound,
               asked, testimony, told, verdict, meant, answer, seen, fresh, ended>>
work   == <<task, phase, proofs, results, evidence, compiles, changed, trouble, seen, fresh>>
judged == <<asked, testimony, told, verdict, meant>>

(***************************************************************************)
(* From a command to evidence.                                             *)
(***************************************************************************)
\* detectVerificationKind: the first word that is found decides.
DetectKind(words) ==
  IF "lint" \in words THEN "lint"
  ELSE IF "tsc" \in words THEN "typecheck"
  ELSE IF "test" \in words THEN "test"
  ELSE IF "build" \in words THEN "build"
  ELSE IF {"curl", "localhost"} \subseteq words THEN "smoke"
  ELSE "unknown"

\* toEvidenceKind
ToEvidenceKind(kind) ==
  [typecheck |-> "typecheck", lint |-> "typecheck", test |-> "test", smoke |-> "test",
   build |-> "build"][kind]

\* buildVerificationResult; the loop keeps the last of them.
Result(kind, ok) == [kind |-> kind, ok |-> ok]
Kept(s) == IF Len(s) > Remembered THEN Tail(s) ELSE s

\* Mutant: an entry counts whether it passed or not.
HasAnyEntry(kind) == \E e \in evidence : e[1] = kind
\* hasEvidence: one entry that ever passed.
HasEvidence(kind) == <<kind, TRUE>> \in evidence

\* requiredEvidenceKinds
RequiredEvidence == {ToEvidenceKind(k) : k \in task}

(***************************************************************************)
(* The confidence: a weighted geometric mean of four scores, times 0.8.    *)
(* Scores are given by 1000 times their logarithm.                         *)
(***************************************************************************)
Half == -693
TestsIn(checks) == {i \in DOMAIN checks : checks[i].kind = "test"}
LatestOf(places) == CHOOSE i \in places : \A j \in places : j <= i

\* The loop tells of the latest test, passed or not.
TestFailed(checks) == TestsIn(checks) # {} /\ ~checks[LatestOf(TestsIn(checks))].ok

\* scoreTests: without tests neutral, and 0 is clamped to 0.001.
TestScore(checks) ==
  IF TestsIn(checks) = {} THEN Half ELSE IF TestFailed(checks) THEN -6908 ELSE 0

\* scoreTypecheck: 0.2 off for each issue, down to 0.25.
TypecheckScore(state, issues) ==
  IF state = "unknown" THEN Half
  ELSE IF state = "passed" THEN 0
  ELSE IF issues >= 4 THEN -1386 ELSE <<-223, -511, -916>>[issues]

\* scoreRipple
RippleScore(decision) ==
  [none |-> Half, allow |-> 0, warn |-> -511, block |-> -6908][decision]

\* weightedGeometricMean with DEFAULT_WEIGHTS; the loop gives no lint result.
TenfoldLog(checks, state, issues, decision) ==
  4 * TestScore(checks) + 3 * TypecheckScore(state, issues) + 2 * RippleScore(decision) + Half

\* evaluateSync: below 0.4 after the cap means below one half before it, 0.7 means 0.875.
Recommendation(checks, state, issues, decision) ==
  LET sum == TenfoldLog(checks, state, issues, decision)
  IN IF decision = "block" \/ sum < -6931 THEN "retry"
     ELSE IF sum >= -1335 THEN "accept" ELSE "review"

\* Every recommendation the gate may give, for any verdict of the ripple engine.
Recommended ==
  {Recommendation(results, compiles, i, d) : i \in 1..4, d \in {"none", "allow", "warn", "block"}}

\* QualityGate
QualityReads == (changed \/ trouble) /\ taskRound + 1 < TaskRounds
QualityHolds == QualityReads /\ (compiles = "failed" \/ "retry" \in Recommended)
QualityPasses == QualityReads => compiles # "failed" /\ Recommended # {"retry"}

(***************************************************************************)
(* The judge.                                                              *)
(***************************************************************************)
\* parseJudgeResponse: the word SATISFIED, unless NOT_SATISFIED with its underscore is
\* there too; read from the verdict of the JSON or, without JSON, from the whole text.
ParseJudgeResponse(reply) ==
  IF "SATISFIED" \in reply.says /\ "NOT_SATISFIED" \notin reply.says THEN "SATISFIED"
  ELSE IF "IMPOSSIBLE" \in reply.says THEN "IMPOSSIBLE"
  ELSE "NOT_SATISFIED"

\* FlashJudge.evaluate: who cannot be asked is not satisfied.
JudgeVerdict(reply) == IF reply = Failed THEN "NOT_SATISFIED" ELSE ParseJudgeResponse(reply)

\* Without JSON the evidence is lost.
EvidenceFound(reply) == IF reply = Failed \/ ~reply.json THEN {} ELSE reply.found

AllEvidence == UNION {testimony[i].evidence : i \in DOMAIN testimony}

\* detectCircularPromises: promised in two rounds, never found as evidence in the same words.
CircularPromises ==
  {p \in UNION {testimony[i].promises : i \in DOMAIN testimony} :
     /\ Cardinality({i \in DOMAIN testimony : p \in testimony[i].promises}) >= 2
     /\ p \notin AllEvidence}

\* buildJudgePrompt
JudgePrompt ==
  [circular |-> CircularPromises,
   evidence |-> AllEvidence,
   checks   |-> ToSet(results),
   warning  |-> results = <<>> /\ changed]

\* The breaker, for the whole run: nothing calls its reset.
BreakerIsOpen == asked >= MaxAsked

\* shouldEvaluate
JudgeIsDue ==
  /\ ~BreakerIsOpen
  /\ taskRound >= FirstJudged
  /\ task # Untracked \/ changed \/ trouble

(***************************************************************************)
(* The claims of the answer.                                               *)
(***************************************************************************)
\* extractTruthClaims: one word of the future anywhere, and there are none.
TruthClaims(text) ==
  IF text.future THEN {}
  ELSE IF "typecheck" \in text.claims THEN text.claims \ {"no_errors"} ELSE text.claims

\* checkClaimEvidenceContradictions
ClaimIsBacked(claim) ==
  CASE claim \in {"typecheck", "no_errors", "lint"} ->
         HasEvidence("typecheck") \/ compiles = "passed"
    [] claim \in {"tests", "all"} -> HasEvidence("test")
    [] claim = "build" -> HasEvidence("build")
    [] claim = "implementation" -> changed

Contradictions(text) == {c \in TruthClaims(text) : ~ClaimIsBacked(c)}

\* canClaimDone
MayClaimDone ==
  task # Untracked /\ phase # "complete" => \A k \in RequiredEvidence : HasEvidence(k)

\* updateTaskTrackerAfterTools: without a tracker, or with a finished one, it returns before
\* the results reach the ledger.
TrackerTakes == task # Untracked /\ phase = "building"

\* What the tracker holds after a result and the type check of the round.
ProofsWith(kinds, typecheckPassed) ==
  IF ~TrackerTakes THEN proofs
  ELSE proofs \cup kinds \cup (IF typecheckPassed THEN {"typecheck"} ELSE {})

\* ingestVerificationResults: passed and failed results alike, but none of kind unknown.
EvidenceWith(kind, ok) ==
  IF TrackerTakes /\ kind # "unknown" THEN evidence \cup {<<ToEvidenceKind(kind), ok>>}
  ELSE evidence

\* TestimonyLedger.record
Testified(text, reply) ==
  Append(testimony, [promises |-> text.promises, evidence |-> EvidenceFound(reply)])

TestimonyInit ==
  /\ task \in Tasks
  /\ phase = "building" /\ proofs = {} /\ results = <<>> /\ evidence = {}
  /\ compiles = "unknown" /\ changed = FALSE /\ trouble = FALSE /\ taskRound = 0
  /\ asked = 0 /\ testimony = <<>> /\ told = JudgePrompt /\ verdict = "none" /\ meant = "none"
  /\ answer = [claims |-> {}, promises |-> {}, future |-> FALSE]
  /\ seen = {} /\ fresh = {} /\ ended = "going"

RoundLeft == taskRound + 1 < TaskRounds
WorkRound == ended = "going" /\ RoundLeft /\ taskRound' = taskRound + 1

\* A round that runs a command.
RunCommand ==
  /\ WorkRound
  /\ \E words \in Commands, ok \in BOOLEAN :
       LET kind == DetectKind(words) IN
       /\ seen' = IF ok THEN seen \cup words ELSE seen
       /\ trouble' = (trouble \/ ~ok)
       /\ compiles' = IF kind # "typecheck" THEN compiles ELSE IF ok THEN "passed" ELSE "failed"
       /\ results' = IF kind = "unknown" THEN results ELSE Kept(Append(results, Result(kind, ok)))
       /\ proofs' = ProofsWith(IF ok /\ kind # "unknown" THEN {kind} ELSE {}, compiles' = "passed")
       /\ evidence' = EvidenceWith(kind, ok)
       /\ fresh' = IF kind # "unknown" /\ ok THEN fresh \cup {ToEvidenceKind(kind)} ELSE fresh
  /\ phase' = IF TrackerTakes /\ task \subseteq proofs' THEN "complete" ELSE phase
  /\ UNCHANGED <<task, changed, judged, answer, ended>>

\* A round that writes.  The loop checks the types itself when TypeScript was written and
\* there is a compiler; otherwise the check counts as passed, unless it had failed before.
EditFiles ==
  /\ WorkRound
  /\ changed' = TRUE
  /\ \/ /\ compiles' \in {"passed", "failed"}
        /\ seen' = IF compiles' = "passed" THEN seen \cup {"tsc"} ELSE seen
     \/ /\ compiles' \in {"passed"} \cup ({compiles} \cap {"failed"})
        /\ UNCHANGED seen
  /\ proofs' = ProofsWith({}, compiles' = "passed")
  /\ phase' = IF TrackerTakes /\ task \subseteq proofs' THEN "complete" ELSE phase
  /\ fresh' = {}
  /\ UNCHANGED <<task, results, evidence, trouble, judged, answer, ended>>

\* Back to work, or blocked when no round is left.
HoldOrBlock ==
  IF RoundLeft THEN taskRound' = taskRound + 1 /\ UNCHANGED ended
  ELSE ended' = "blocked" /\ UNCHANGED taskRound

\* evaluateEvidenceGate, evaluateTruthfulnessGate
LastGates(text) ==
  IF ~MayClaimDone \/ Contradictions(text) # {} THEN HoldOrBlock
  ELSE ended' = "done" /\ UNCHANGED taskRound

\* The quality gate holds what has a failed type check, or a score too low.
HeldForQuality ==
  /\ ended = "going" /\ QualityHolds
  /\ \E text \in FinalTexts : answer' = text
  /\ HoldOrBlock
  /\ UNCHANGED <<work, judged>>

\* The gate lets the answer through, and the judge is not asked.
AnswerUnjudged ==
  /\ ended = "going" /\ ~JudgeIsDue
  /\ QualityPasses
  /\ \E text \in FinalTexts : answer' = text /\ LastGates(text)
  /\ UNCHANGED <<work, judged>>

\* evaluateFlashJudge: the judge is asked, and heard before its answer is recorded.
AnswerJudged ==
  /\ ended = "going" /\ JudgeIsDue
  /\ QualityPasses
  /\ asked' = asked + 1
  /\ told' = JudgePrompt
  /\ \E text \in FinalTexts, reply \in JudgeReplies :
       /\ answer' = text
       /\ verdict' = JudgeVerdict(reply)
       /\ meant' = IF reply = Failed THEN "nothing" ELSE reply.means
       /\ testimony' = Testified(text, reply)
       /\ \/ verdict' = "SATISFIED" /\ LastGates(text)
          \/ verdict' = "IMPOSSIBLE" /\ ended' = "blocked" /\ UNCHANGED taskRound
          \* on the last round the loop ends without an answer
          \/ /\ verdict' = "NOT_SATISFIED"
             /\ IF RoundLeft THEN taskRound' = taskRound + 1 /\ UNCHANGED ended
                ELSE ended' = "silent" /\ UNCHANGED taskRound
  /\ UNCHANGED work

\* checkNarrowEditCompletion: a small edit whose type check passed ends the run with a text
\* of the loop's own; the judge and the check of claims are not asked.
AutoFinish ==
  /\ WorkRound
  /\ changed' = TRUE /\ compiles' = "passed"
  /\ seen' \in {seen, seen \cup {"tsc"}}
  /\ MayClaimDone
  /\ answer' = [claims |-> {"typecheck"}, promises |-> {}, future |-> FALSE]
  /\ ended' = "verified"
  /\ UNCHANGED <<task, phase, proofs, results, evidence, trouble, fresh, judged>>

TestimonyNext ==
  \/ RunCommand \/ EditFiles \/ AutoFinish
  \/ HeldForQuality \/ AnswerUnjudged \/ AnswerJudged

(***************************************************************************)
(* Properties.                                                             *)
(***************************************************************************)
Seen(words) == seen \cap words # {}

\* What a delivered answer claims in the past tense of tests, builds and changes was seen
\* to happen: a command that could show it ran and passed, or something was written,
\* whichever detours the result took to the ledger.
ClaimsWereSeen ==
  ended = "done" =>
    \A c \in TruthClaims(answer) :
      /\ c \in {"tests", "all"} => Seen({"test", "curl"})
      /\ c = "build" => Seen({"build"})
      /\ c = "implementation" => changed

\* A tracked task that asks for tests is delivered only after some had passed.
ChecksWerePassed ==
  ended = "done" /\ task # Untracked /\ "test" \in task => Seen({"test", "curl"})

\* The judge is overruled only when it cannot be asked any more: a delivered answer that was
\* judged at all was found satisfying, or the judge had spoken as often as it may.
JudgeIsHeard ==
  ended = "done" /\ asked > 0 => verdict = "SATISFIED" \/ asked = MaxAsked

\* A failed test that is the latest one holds the answer whatever else went well, until
\* the rounds are used up: no other score makes up for it.
FailedTestsHold == ended = "going" /\ TestFailed(results) => Recommended = {"retry"}

\* What a run is told of its own work is earned: by evidence, by passed checks, by a judge who
\* was heard.
VerdictsAreEarned == ClaimsWereSeen /\ ChecksWerePassed /\ JudgeIsHeard /\ FailedTestsHold

\* Stated, not holding: a claim that tests passed rests on a test that ran.  A request to
\* localhost counts as a test (toEvidenceKind), and so does any command with the word.
TestsWereRun ==
  ended = "done" /\ "tests" \in TruthClaims(answer) => Seen({"test"})

\* Stated, not holding: a claim that the types check rests on a type check.  A round that
\* writes a text file, or has no compiler, sets lastTypecheck to passed (loop.ts:1435).
TypesWereChecked ==
  ended = "done" /\ "typecheck" \in TruthClaims(answer) => Seen({"tsc", "lint"})

\* Stated, not holding: what is claimed was seen after the last write.  The ledger has no
\* notion of it.
ClaimsAreFresh ==
  ended = "done" /\ "tests" \in TruthClaims(answer) => "test" \in fresh

\* Stated, not holding: a claim that is true is not held against the answer.  Without a
\* tracker the ledger stays empty (task-tracker.ts:184), and the tests that passed are
\* reported as a contradiction.
TruthPasses ==
  Seen({"test"}) => "tests" \notin Contradictions([claims |-> {"tests"}, promises |-> {}, future |-> FALSE])

\* Stated, not holding: the judge is read as it meant.  "Not satisfied" with a blank, or
\* "unsatisfied", reads as satisfied.
ReadAsMeant == meant = "no" => verdict # "SATISFIED"
=============================================================================
