------------------------------ MODULE Workbench ------------------------------
(***************************************************************************)
(* The terminal interface as the agent's caller: the prompts a user        *)
(* submits, the runs of the agent loop, the queue behind a run             *)
(* (useAgentStream of tui/main.tsx), the commands (tui/commands) and the   *)
(* list of messages that the reducer of the events keeps                   *)
(* (tui/state/event-reducer.ts).                                           *)
(*                                                                         *)
(* runningRef is not the set of runs: a run may go on while it is false    *)
(* and a prompt may wait for its 0 ms timer while it is true.  Messages    *)
(* are kept by who speaks and whether more is to come; what they say, the  *)
(* dashboards and the drawing are left out.                                *)
(***************************************************************************)
EXTENDS Naturals, Sequences, FiniteSets, SequencesExt

CONSTANTS
  Prompts,     \* what the user types, each once
  Initial,     \* the prompt of the command line, if there is one
  Answers,     \* the prompts made of a clarification that was answered
  Limit,       \* 500: LIMITS.messages
  MaxRuns,     \* bound on the runs
  MaxSwitches, \* bound on the changes of the thinking effort
  MaxNotes     \* bound on the commands answered by a message

ASSUME WorkbenchAssumption ==
  /\ Initial \notin Prompts \cup Answers /\ Prompts \cap Answers = {}
  /\ Limit \in Nat \ {0, 1} /\ MaxRuns \in Nat \ {0}

Runs == 1..MaxRuns
Asked == Prompts \cup Answers \cup {Initial}
Kinds == {"user", "assistant", "event"}

VARIABLES
  running,   \* runningRef
  queue,     \* queuedPromptsRef
  scheduled, \* prompts whose 0 ms timer runs
  runs,      \* runs so far
  active,    \* runs of the agent loop that are going on
  cancelled, \* runs whose effect was cleaned up
  abandoned, \* number of runs that returned because they were cancelled
  started,   \* how often a run was started for each prompt
  effect,    \* the run of the prompt of the command line
  wizard,    \* a clarification is on the screen
  dialog,    \* the effort dialog is open
  messages,  \* state.messages
  typed,     \* prompts the user submitted
  used,      \* answers given to a clarification
  switches, notes

workbenchVars == <<running, queue, scheduled, runs, active, cancelled, abandoned, started, effect,
          wizard, dialog, messages, typed, used, switches, notes>>

Message(kind, pending) == [kind |-> kind, pending |-> pending]

WorkbenchInit ==
  /\ running = FALSE /\ queue = <<>> /\ scheduled = {} /\ runs = 0 /\ active = {}
  /\ cancelled = {} /\ abandoned = 0 /\ started = [p \in Asked |-> 0] /\ effect = 0
  /\ wizard = FALSE /\ dialog = FALSE /\ messages = <<>> /\ typed = {} /\ used = {}
  /\ switches = 0 /\ notes = 0

-----------------------------------------------------------------------------
(* The reducer *)

\* pushBounded, pushManyBounded: the oldest go.
Pushed(list, new) ==
  LET all == list \o new IN
  IF Len(all) > Limit THEN SubSeq(all, Len(all) - Limit + 1, Len(all)) ELSE all

PendingAt(list) == {i \in DOMAIN list : list[i].kind = "assistant" /\ list[i].pending}

\* The last pending message of the assistant, if there is one, is finished.
Settled(list) ==
  IF PendingAt(list) = {} THEN list
  ELSE LET last == CHOOSE i \in PendingAt(list) : \A j \in PendingAt(list) : j <= i
       IN [list EXCEPT ![last].pending = FALSE]

UserMessage(list) == Pushed(list, <<Message("user", FALSE), Message("assistant", TRUE)>>)

AssistantDelta(list) ==
  IF PendingAt(list) = {} THEN Pushed(list, <<Message("assistant", TRUE)>>) ELSE list

AssistantFinal(list, text) ==
  IF PendingAt(list) = {} /\ text THEN Pushed(list, <<Message("assistant", FALSE)>>)
  ELSE Settled(list)

EventMessage(list) == Pushed(list, <<Message("event", FALSE)>>)

ClarificationReady(list) == Settled(list)

-----------------------------------------------------------------------------
(* Runs *)

\* Mutant: the prompts behind the first are dropped.
OnlyFirst == <<>>
Behind == Tail(queue)

\* finishRun: the next prompt keeps runningRef true over the 0 ms of its timer.
FinishRun ==
  IF queue = <<>>
    THEN running' = FALSE /\ UNCHANGED <<queue, scheduled>>
    ELSE /\ queue' = Behind /\ scheduled' = scheduled \cup {Head(queue)}
         /\ UNCHANGED running

\* runAgent, when the options can be built: the loop goes on by itself.  shown are the
\* messages so far.
RunAgent(p, shown) ==
  /\ runs < MaxRuns
  /\ runs' = runs + 1 /\ active' = active \cup {runs + 1}
  /\ started' = [started EXCEPT ![p] = @ + 1]
  /\ running' = TRUE
  /\ messages' = UserMessage(shown)

\* Mutant: a run that did not start leaves its claim behind.
ClaimKept(waiting) == running' = TRUE /\ scheduled' = waiting /\ UNCHANGED queue
NotStarted(waiting) ==
  IF queue = <<>>
    THEN running' = FALSE /\ scheduled' = waiting /\ UNCHANGED queue
    ELSE running' = TRUE /\ queue' = Behind /\ scheduled' = waiting \cup {Head(queue)}

\* runAgent, when buildAgentOptions fails: the error is shown and the run is over.
RunFails(p, waiting, shown) ==
  /\ started' = [started EXCEPT ![p] = @ + 1]
  /\ messages' = AssistantFinal(UserMessage(shown), TRUE)
  /\ NotStarted(waiting)
  /\ UNCHANGED <<runs, active>>

Run(p, waiting, shown) ==
  \/ RunAgent(p, shown) /\ scheduled' = waiting /\ UNCHANGED queue
  \/ runs < MaxRuns /\ RunFails(p, waiting, shown)

\* The program was started with a prompt, or it was not and this never happens.
Mount ==
  /\ \A p \in Asked : started[p] = 0
  /\ Run(Initial, scheduled, messages)
  /\ effect' = runs'
  /\ UNCHANGED <<cancelled, abandoned, wizard, dialog, typed, used, switches, notes>>

TimerFires(p) ==
  /\ p \in scheduled
  /\ Run(p, scheduled \ {p}, messages)
  /\ UNCHANGED <<cancelled, abandoned, effect, wizard, dialog, typed, used, switches, notes>>

-----------------------------------------------------------------------------
(* What the loop sends *)

AgentText(r) ==
  /\ r \in active \ cancelled
  /\ messages' = AssistantDelta(messages)
  /\ UNCHANGED <<running, queue, scheduled, runs, active, cancelled, abandoned, started,
                 effect, wizard, dialog, typed, used, switches, notes>>

AgentEvent(r) ==
  /\ r \in active \ cancelled /\ notes < MaxNotes
  /\ notes' = notes + 1
  /\ messages' = EventMessage(messages)
  /\ UNCHANGED <<running, queue, scheduled, runs, active, cancelled, abandoned, started,
                 effect, wizard, dialog, typed, used, switches>>

\* clarification_ready: the run is over, and the queue waits for whatever comes next.
AgentClarifies(r) ==
  /\ r \in active \ cancelled
  /\ active' = active \ {r} /\ wizard' = TRUE /\ running' = FALSE
  /\ messages' = ClarificationReady(messages)
  /\ UNCHANGED <<queue, scheduled, runs, cancelled, abandoned, started, effect, dialog,
                 typed, used, switches, notes>>

\* The loop ends or throws: the last text is flushed, the message is final.
AgentEnds(r) ==
  /\ r \in active
  /\ active' = active \ {r}
  /\ \E unsent, error \in BOOLEAN :
       messages' = AssistantFinal(IF unsent THEN AssistantDelta(messages) ELSE messages,
                                  error)
  /\ FinishRun
  /\ UNCHANGED <<runs, cancelled, abandoned, started, effect, wizard, dialog, typed, used,
                 switches, notes>>

\* A cancelled run returns at the next event, and nobody is told.
AgentReturns(r) ==
  /\ r \in active \cap cancelled
  /\ active' = active \ {r} /\ abandoned' = abandoned + 1
  /\ UNCHANGED <<running, queue, scheduled, runs, cancelled, started, effect, wizard,
                 dialog, messages, typed, used, switches, notes>>

-----------------------------------------------------------------------------
(* The user *)

ComposerEnabled == ~wizard /\ ~dialog

Submit(p) ==
  /\ ComposerEnabled /\ p \in Prompts \ typed
  /\ typed' = typed \cup {p}
  /\ \/ /\ ~running
        /\ Run(p, scheduled, messages)
     \/ /\ running
        /\ queue' = Append(queue, p)
        /\ messages' = EventMessage(messages)
        /\ UNCHANGED <<running, scheduled, runs, active, started>>
  /\ UNCHANGED <<cancelled, abandoned, effect, wizard, dialog, used, switches, notes>>

\* A command that only says something, or one refused while the agent runs.
Command ==
  /\ ComposerEnabled /\ notes < MaxNotes
  /\ notes' = notes + 1
  /\ messages' = AssistantFinal(messages, TRUE)
  /\ UNCHANGED <<running, queue, scheduled, runs, active, cancelled, abandoned, started,
                 effect, wizard, dialog, typed, used, switches>>

Clear ==
  /\ ComposerEnabled /\ ~running /\ messages # <<>>
  /\ messages' = <<>>
  /\ UNCHANGED <<running, queue, scheduled, runs, active, cancelled, abandoned, started,
                 effect, wizard, dialog, typed, used, switches, notes>>

\* The last question is answered: the run starts by a timer, runningRef still false.
AnswerClarification(a) ==
  /\ wizard /\ a \in Answers \ used
  /\ wizard' = FALSE /\ used' = used \cup {a} /\ scheduled' = scheduled \cup {a}
  /\ UNCHANGED <<running, queue, runs, active, cancelled, abandoned, started, effect,
                 dialog, messages, typed, switches, notes>>

CancelClarification ==
  /\ wizard /\ wizard' = FALSE
  /\ messages' = AssistantFinal(messages, TRUE)
  /\ UNCHANGED <<running, queue, scheduled, runs, active, cancelled, abandoned, started,
                 effect, dialog, typed, used, switches, notes>>

OpenEffort ==
  /\ ComposerEnabled /\ ~running /\ switches < MaxSwitches
  /\ dialog' = TRUE
  /\ UNCHANGED <<running, queue, scheduled, runs, active, cancelled, abandoned, started,
                 effect, wizard, messages, typed, used, switches, notes>>

\* runAgent depends on the effort and the effect of the prompt on runAgent: a change is
\* told, cancels the run of that prompt and starts it again.
SwitchEffort ==
  /\ dialog /\ dialog' = FALSE /\ switches' = switches + 1
  /\ IF started[Initial] = 0
       THEN /\ messages' = EventMessage(messages)
            /\ UNCHANGED <<running, queue, scheduled, runs, active, started, cancelled,
                           effect>>
       ELSE /\ Run(Initial, scheduled, EventMessage(messages))
            /\ cancelled' = cancelled \cup ({effect} \ {0})
            /\ effect' = IF runs' > runs THEN runs' ELSE 0
  /\ UNCHANGED <<abandoned, wizard, typed, used, notes>>

\* Escape, or the effort that was chosen already.
DismissEffort ==
  /\ dialog /\ dialog' = FALSE
  /\ messages' \in {messages, EventMessage(messages)}
  /\ UNCHANGED <<running, queue, scheduled, runs, active, cancelled, abandoned, started,
                 effect, wizard, typed, used, switches, notes>>

WorkbenchNext ==
  \/ Mount \/ Command \/ Clear \/ CancelClarification \/ OpenEffort
  \/ SwitchEffort \/ DismissEffort
  \/ \E p \in Prompts : Submit(p)
  \/ \E p \in Prompts \cup Answers : TimerFires(p)
  \/ \E a \in Answers : AnswerClarification(a)
  \/ \E r \in Runs : AgentText(r) \/ AgentEvent(r) \/ AgentClarifies(r) \/ AgentEnds(r)
                       \/ AgentReturns(r)

\* Timers fire and a run ends: its rounds are bounded and every call it waits for has a
\* timeout.  The user owes nothing.
WorkbenchFairness ==
  /\ WF_workbenchVars(\E p \in Prompts \cup Answers : TimerFires(p))
  /\ WF_workbenchVars(\E r \in Runs : AgentEnds(r))

-----------------------------------------------------------------------------
\* A prompt that was submitted is in one place, always: queued, waiting for its timer, or
\* started, once.  (The prompt of the command line is started again by every change of
\* the effort.)
PromptsKept ==
  \A p \in typed \cup used :
    started[p] + (IF p \in scheduled THEN 1 ELSE 0)
               + Cardinality({i \in DOMAIN queue : queue[i] = p}) = 1

\* The interface comes to rest after the last prompt: no chain of runs keeps it busy.
ComesToRest == []<>(~running)

\* "Prevents ... two agents at the same time" (finishRun).
OneAgent == Cardinality(active \ cancelled) <= 1
=============================================================================
