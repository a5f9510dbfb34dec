-------------------------------- MODULE Intake --------------------------------
(***************************************************************************)
(* From a prompt to the rounds of its run: the head of agentLoop             *)
(* (src/src/agent/loop.ts:80-405) with clarification.ts, intent.ts,          *)
(* flash-triage.ts and research-router.ts, the terminal's part in a          *)
(* clarification (src/src/tui/main.tsx) and the gate that keeps a run it does *)
(* not understand from writing.                                              *)
(*                                                                           *)
(* A text is the sequence of the prompts it is made of; what a text says is   *)
(* what its parts say, as the patterns that classify it look for words.       *)
(***************************************************************************)
EXTENDS ContextMap

CONSTANTS
  Prompts,     \* what a user may type
  Says,        \* Says[p]: "no-write", "discuss", "execute", "project", "structure",
               \* "change", "search", "no-search", "file"
  Vague,       \* prompts of less than 80 characters and three concrete points
  Words,       \* Words[p]: the words p is searched by
  Answer,      \* the text a finished clarification dialog makes
  NewFiles,    \* files a run may write
  MaxPrompts,  \* bound on the prompts of a conversation
  Rest         \* no run

VARIABLES
  history,    \* what the terminal remembers: <<role, text>>
  run,        \* the run that is on, or Rest
  wizard,     \* the dialog with the questions is open
  project,       \* files of the project
  prompts     \* prompts so far

intakeVars == <<history, run, wizard, project, prompts>>

Kinds == {"discussion", "narrow_edit", "plan_before_code", "full_complex"}
SaidBy(text) == UNION {Says[text[i]] : i \in DOMAIN text}
WordsOf(text) == UNION {Words[text[i]] : i \in DOMAIN text}

\* findPendingClarification: the request the last marker of the conversation is about,
\* whether or not it was answered since.
Pending(h) ==
  LET markers == {i \in DOMAIN h : h[i][1] = "marker"}
      before(i) == {j \in 1..(i - 1) : h[j][1] = "user"}
  IN IF markers = {} \/ before(Max(markers)) = {} THEN <<>> ELSE h[Max(before(Max(markers)))][2]

\* buildEffectivePrompt.
EffectivePrompt(p, h) == Pending(h) \o <<p>>

\* classifyIntent.
ClassifyIntent(text) ==
  LET said == SaidBy(text)
  IN IF "no-write" \in said \/ ("discuss" \in said /\ "execute" \notin said) THEN "readonly"
     ELSE IF "project" \in said THEN "long_task" ELSE "narrow_edit"

\* triageModeToIntent.
TriageIntent(kind) ==
  CASE kind = "discussion" -> "readonly"
    [] kind = "narrow_edit" -> "narrow_edit"
    [] OTHER -> "long_task"

\* What the helper model says about the prompt, as a whole JSON object or in words (a
\* reply cut off by the time limit is taken for words).
Replies == [json : BOOLEAN, kind : Kinds, risky : BOOLEAN, web : BOOLEAN]

\* parseTriageResponse, or the fallback of triage: by words no request is found risky,
\* and none has questions for the web.
Triage(reply) == [kind |-> reply.kind, risky |-> reply.json /\ reply.risky,
                  web |-> reply.json /\ reply.web]

\* No result: triage is off, the prompt says too little, the mode is strict, the call
\* failed.
NoTriage == [kind |-> "none", risky |-> FALSE, web |-> FALSE]
Triages == {Triage(reply) : reply \in Replies} \cup {NoTriage}

\* classifyResearchRoute, and the triage's word before it.
Researches(text, triage) ==
  \/ triage.web
  \/ "search" \in SaidBy(text) /\ "no-search" \notin SaidBy(text)

\* evaluateClarificationNeed.
NeedsClarification(text, tracked, h) ==
  tracked /\ Pending(h) = <<>> /\ Len(text) = 1 /\ text[1] \in Vague

IntakeInit ==
  /\ history = <<>> /\ run = Rest /\ wizard = FALSE /\ prompts = 0
  /\ project \in SUBSET (Files \ NewFiles)

\* runAgent, and the head of agentLoop up to the clarification: what will be worked
\* on, and a tracker for a long task (buildTrackerFromTriage, or the one made from the
\* prompt when there was no triage). A hook may replace what the provider is sent; what
\* was classified stays.
Begin(p, triage) ==
  LET text == EffectivePrompt(p, history)
      intent == IF triage = NoTriage THEN ClassifyIntent(text) ELSE TriageIntent(triage.kind)
  IN /\ run = Rest /\ prompts < MaxPrompts
     /\ prompts' = prompts + 1
     /\ run' = [phase |-> IF NeedsClarification(text, intent = "long_task", history)
                          THEN "clarify" ELSE "prepare",
                prompt |-> p, text |-> text, intent |-> intent, risky |-> triage.risky,
                research |-> Researches(text, triage),
                level |-> "small", mapped |-> FALSE, understood |-> FALSE,
                blocked |-> FALSE, wrote |-> FALSE]
     /\ wizard' = FALSE /\ UNCHANGED <<history, project>>

\* The prompt of the user, or the answers as the dialog puts them together.
Submit(p, triage) == ~wizard /\ p # Answer /\ Begin(p, triage)
AnswerClarification(triage) == wizard /\ Begin(Answer, triage)

CancelClarification == wizard /\ wizard' = FALSE /\ UNCHANGED <<history, run, project, prompts>>

\* Mutant: the history gets the marker and not the request it is about.
RemembersMarkerOnly(text) == Append(history, <<"marker", text>>)

Asked(text) == history \o <<<<"user", <<run.prompt>>>>, <<"marker", text>>>>

\* The model makes questions, and the dialog opens.
Clarify ==
  /\ run # Rest /\ run.phase = "clarify"
  /\ history' = Asked(run.text)
  /\ wizard' = TRUE /\ run' = Rest
  /\ UNCHANGED <<project, prompts>>

\* It does not: the run ends with an error, and the prompt stays without an answer.
ClarifyFails ==
  /\ run # Rest /\ run.phase = "clarify"
  /\ history' = Append(history, <<"user", <<run.prompt>>>>)
  /\ run' = Rest /\ UNCHANGED <<wizard, project, prompts>>

\* The level of the task and, for a task that warrants it, the map of the repository,
\* made once: what the run may write is settled here. policy is contextMapPolicy.
Prepare(policy) ==
  /\ run # Rest /\ run.phase = "prepare"
  /\ LET said == SaidBy(run.text)
         namedFiles == IF "file" \in said THEN 1 ELSE 0
         level == TaskLevel(said, run.risky, namedFiles)
         mapped == \/ policy = "always"
                   \/ /\ policy = "auto" /\ run.intent # "readonly"
                      /\ (level \in {"long", "high_risk"} \/ namedFiles > 0)
         map == BuildContextMap(project, WordsOf(run.text))
     IN run' = [run EXCEPT !.phase = "rounds", !.level = level, !.mapped = mapped,
                           !.understood = map.read # {} /\ map.documents # {} /\ map.verification # {},
                           !.blocked = mapped /\ level = "high_risk" /\ Blockers(map, level) # {}]
  /\ UNCHANGED <<history, wizard, project, prompts>>

\* A round writes a file. ContextReadinessGate leaves the run its readonly tools, and
\* the tool policy refuses the others (policy.ts:159).
Write(f) ==
  /\ run # Rest /\ run.phase = "rounds"
  /\ ~run.blocked /\ run.intent # "readonly"
  /\ project' = project \cup {f} /\ run' = [run EXCEPT !.wrote = TRUE]
  /\ UNCHANGED <<history, wizard, prompts>>

\* The run ends with an answer or without one; a run that throws is not remembered.
Finish(how) ==
  /\ run # Rest /\ run.phase = "rounds"
  /\ history' = CASE how = "answer" -> history \o <<<<"user", <<run.prompt>>>>, <<"assistant", <<>>>>>>
                   [] how = "silent" -> Append(history, <<"user", <<run.prompt>>>>)
                   [] OTHER -> history
  /\ run' = Rest /\ UNCHANGED <<wizard, project, prompts>>

\* The user works on the project as well.
EditProject(f) == project' = project \cup {f} /\ UNCHANGED <<history, run, wizard, prompts>>

IntakeNext ==
  \/ \E triage \in Triages :
       AnswerClarification(triage) \/ \E p \in Prompts : Submit(p, triage)
  \/ CancelClarification \/ Clarify \/ ClarifyFails
  \/ \E policy \in {"off", "auto", "always"} : Prepare(policy)
  \/ \E f \in NewFiles : Write(f) \/ EditProject(f)
  \/ \E how \in {"answer", "silent", "throws"} : Finish(how)

-----------------------------------------------------------------------------
\* The answers of a clarification are worked on together with the request they are
\* about, and are never answered with another clarification.
AnswersAreHeard == run # Rest /\ run.prompt = Answer =>
  /\ run.phase # "clarify"
  /\ \E i \in DOMAIN history :
       history[i][1] = "marker" /\ run.text = history[i][2] \o <<Answer>>

\* A run that was found risky, and for which the repository was mapped, writes only
\* where the map shows it is understood: a file that has to do with the request was
\* read, and there is a document on the project and something to verify with.
RiskIsUnderstood ==
  run # Rest /\ run.wrote /\ run.level = "high_risk" /\ run.mapped => run.understood

\* A prompt typed by itself is worked on by itself. It does not hold: the marker of an
\* answered clarification stays in the history, and findPendingClarification
\* (clarification.ts:83) takes every later prompt for one more answer.
PromptsStandAlone ==
  run # Rest /\ run.prompt # Answer /\ (\E i \in DOMAIN history : history[i][1] = "assistant")
    => Len(run.text) = 1

\* "ContextReadiness blocked write tools until more context is acquired." (loop.ts:391)
\* It does not hold: the map is made once, and nothing the run reads lifts the block.
BlockedUntilUnderstood == run # Rest /\ run.blocked =>
  Blockers(BuildContextMap(project, WordsOf(run.text)), run.level) # {}
=============================================================================
