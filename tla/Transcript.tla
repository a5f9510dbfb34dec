----------------------------- MODULE Transcript -----------------------------
(***************************************************************************)
(* What the agent loop sends to the model: the messages a run keeps        *)
(* (rawMessages of agent/loop.ts), the epochs that archive them            *)
(* (agent/context-epoch.ts), the context budget gate                       *)
(* (agent/gates/context-budget.ts) and the schedule of the loop's          *)
(* checkpoints (session/checkpoint.ts), which outlives a run.              *)
(*                                                                         *)
(* A message is its author, the tool calls it makes, the calls it answers  *)
(* and its size.  Sizes are counted in hundredths of the context window,   *)
(* so a share of the window is a number of units.  What a message says is  *)
(* left out; AgentLoop decides when a run may stop.                        *)
(***************************************************************************)
EXTENDS Naturals, Sequences, FiniteSets, SequencesExt

CONSTANTS
  Prompts,   \* sizes a prompt may have
  Replies,   \* sizes a reply may have
  Histories, \* sequences of text messages a run may be given
  HistoryBudget,   \* the 150,000 tokens that history may take, whatever the window
  HistoryMessages, \* 60: messages of history a run may take
  System,    \* size of the system prompt
  Context,   \* size of the messages that precede the conversation
  KeepRecent, \* 3: assistant messages a rollover keeps
  Spacing,   \* 3: rounds between two checkpoints
  Complex,   \* subset of BOOLEAN: whether the task counts as a complex one
  MaxRounds, \* options.maxRounds
  MaxCalls,  \* bound on the tool calls of a reply
  MaxRuns    \* bound on the runs of one process

ASSUME SizesAssumption ==
  /\ Prompts \subseteq Nat \ {0} /\ Replies \subseteq Nat \ {0}
  /\ System \in Nat /\ Context \in Nat
  /\ HistoryBudget \in Nat /\ HistoryMessages \in Nat
ASSUME TranscriptBoundsAssumption ==
  /\ KeepRecent \in Nat \ {0, 1} /\ Spacing \in Nat /\ MaxRounds \in Nat \ {0}
  /\ MaxCalls \in Nat \ {0} /\ MaxRuns \in Nat \ {0}
ASSUME ComplexAssumption == Complex \subseteq BOOLEAN

Window == 100
Small  == 1   \* a prompt of the loop, a compacted result
Clipped == 2  \* a tool result as long as the loop lets it be

Percent(share, of) == (share * of) \div 100

\* epochThresholdsForContext, for a window that is too small for the defaults
RolloverAt == Percent(45, Window)
ForceAt    == IF 38 <= Percent(85, RolloverAt) THEN 38 ELSE Percent(85, RolloverAt)
CompressAt == IF 25 <= Percent(75, ForceAt) THEN 25 ELSE Percent(75, ForceAt)

\* The budget gate counts the system prompt, the epochs do not.
ASSUME SystemAssumption == System + RolloverAt <= Percent(60, Window)

Calls == (1..MaxRounds) \X (1..MaxCalls)
Text(role, size) == [role |-> role, uses |-> {}, results |-> {}, size |-> size]

ASSUME HistoriesAssumption ==
  Histories \subseteq
    Seq([role : {"user", "assistant"}, uses : {{}}, results : {{}}, size : Nat])

VARIABLES
  pc,        \* where the loop is
  run,       \* runs started in this process
  round,     \* rounds of the run, from 1
  raw,       \* rawMessages
  sent,      \* the messages of the last request
  action,    \* epochAction of this round
  percent,   \* contextBudgetPercent
  warned,    \* announcedEpochForceCompress
  condensed, \* thinkingCompacted
  lastPercent, \* _lastCpPercent of the process
  lastRound, \* _lastCpRound of the process
  labels,    \* checkpoints of the process, by label
  outcome    \* why the last run stopped

transcriptVars == <<pc, run, round, raw, sent, action, percent, warned, condensed,
          lastPercent, lastRound, labels, outcome>>
scheduler == <<lastPercent, lastRound, labels>>

TranscriptInit ==
  /\ pc = "idle" /\ run = 0 /\ round = 0
  /\ raw = <<>> /\ sent = <<>>
  /\ action = "none" /\ percent = 0 /\ warned = FALSE /\ condensed = FALSE
  /\ lastPercent = 0 /\ lastRound = 0 /\ labels = {} /\ outcome = "none"

\* totalMessageChars
Size(messages) ==
  LET upTo[i \in 0..Len(messages)] == IF i = 0 THEN 0 ELSE upTo[i - 1] + messages[i].size
  IN upTo[Len(messages)]
Assistants(messages) == {i \in DOMAIN messages : messages[i].role = "assistant"}
First(S) == CHOOSE x \in S : \A y \in S : x <= y

(***************************************************************************)
(* A run starts with the newest messages of the conversation that fit,     *)
(* from a user's message on, and with the prompt.                          *)
(***************************************************************************)
\* selectRecentHistoryWithinBudget
Selected(history) ==
  LET n == Len(history)
      fits == {i \in 1..n + 1 : n + 1 - i <= HistoryMessages
                                /\ Size(SubSeq(history, i, n)) <= HistoryBudget}
      openings == {i \in First(fits)..n : history[i].role = "user"}
  IN IF openings = {} THEN <<>> ELSE SubSeq(history, First(openings), n)

\* the prompt hook and then the session start may each add a system message
Injected(said) == IF said THEN <<Text("system", Small)>> ELSE <<>>

StartRun ==
  /\ pc = "idle" /\ run < MaxRuns
  /\ run' = run + 1
  /\ \E history \in Histories, size \in Prompts, hooked, opened \in BOOLEAN :
       raw' = Selected(history) \o Injected(hooked) \o Injected(opened) \o <<Text("user", size)>>
  /\ pc' = "top" /\ round' = 1 /\ sent' = <<>>
  /\ action' = "none" /\ percent' = 0 /\ warned' = FALSE /\ condensed' = FALSE
  /\ outcome' = "none"
  /\ UNCHANGED scheduler

(***************************************************************************)
(* The top of a round: rollover, budget gate, request.                     *)
(***************************************************************************)
\* Mutant: no result ever closes a call.
CountsCalls(messages) == \E i \in DOMAIN messages : messages[i].uses # {}

\* hasUnclosedToolChain: calls that are pending after the last message
UnclosedChain(messages) ==
  LET pending[i \in 0..Len(messages)] ==
        IF i = 0 THEN 0
        ELSE LET open == pending[i - 1] + Cardinality(messages[i].uses)
                 closed == Cardinality(messages[i].results)
             IN IF closed > open THEN 0 ELSE open - closed
  IN pending[Len(messages)] > 0

\* epochRollover: the last KeepRecent assistant messages and what follows, at least two messages
Retained(messages) ==
  LET n == Len(messages)
      enough == {i \in Assistants(messages) :
                   Cardinality({j \in Assistants(messages) : j >= i}) = KeepRecent}
      cut == IF enough = {} THEN n + 1 ELSE First(enough)
      from == IF n + 1 - cut >= 2 THEN cut ELSE IF n >= 2 THEN n - 1 ELSE 1
  IN SubSeq(messages, from, n)

Preamble == Text("user", Small)  \* the plan state and the note on the rollover

\* classifyEpochAction
EpochAction(size) ==
  CASE size >= RolloverAt -> "rollover"
    [] size >= ForceAt /\ size < RolloverAt -> "forceCompress"
    [] size >= CompressAt /\ size < ForceAt -> "compress"
    [] size < CompressAt -> "none"

Rolled(messages) ==
  IF EpochAction(Context + Size(messages)) = "rollover" /\ ~UnclosedChain(messages)
  THEN <<Preamble>> \o Retained(messages)
  ELSE messages

\* ContextBudgetGate with its default ratios
BudgetMode(size) ==
  CASE size * 100 >= 60 * Window -> "block"
    [] size * 100 >= 50 * Window /\ size * 100 < 60 * Window -> "degraded"
    [] size * 100 < 50 * Window -> "normal"

\* estimateRoundTokens' messages: the budget message comes last
Request(messages, mode) ==
  <<Text("user", Context)>> \o messages
    \o (IF mode = "degraded" THEN <<Text("user", Small)>> ELSE <<>>)

Ask ==
  /\ pc = "top"
  /\ LET stays == Rolled(raw)
         size == System + Context + Size(stays)
         mode == BudgetMode(size)
         warn == action' = "forceCompress" /\ ~warned
     IN /\ action' = EpochAction(Context + Size(raw))
        /\ percent' = (size * 100) \div Window
        /\ IF mode = "block"
           THEN /\ pc' = "idle" /\ outcome' = "context" /\ raw' = stays
                /\ UNCHANGED <<sent, warned>>
           ELSE /\ pc' = "reply" /\ outcome' = outcome
                /\ sent' = Request(stays, mode)
                /\ raw' = IF warn THEN Append(stays, Text("user", Small)) ELSE stays
                /\ warned' = (warned \/ warn)
  /\ UNCHANGED <<run, round, condensed, scheduler>>

(***************************************************************************)
(* The reply.                                                              *)
(***************************************************************************)
Another(messages) ==
  /\ raw' = messages
  /\ IF round < MaxRounds THEN pc' = "top" /\ round' = round + 1 /\ outcome' = outcome
     ELSE pc' = "idle" /\ round' = round /\ outcome' = "rounds"

Finish(why) ==
  /\ pc' = "idle" /\ outcome' = why
  /\ UNCHANGED <<round, raw>>

\* the stream breaks: what was said so far and a prompt to go on
StreamFails ==
  /\ pc = "reply"
  /\ \/ /\ round < MaxRounds
        /\ \E size \in Replies, said \in BOOLEAN :
             Another(raw \o (IF said THEN <<Text("assistant", size)>> ELSE <<>>)
                         \o <<Text("user", Small)>>)
     \/ Finish("stream")
  /\ UNCHANGED <<run, sent, action, percent, warned, condensed, scheduler>>

\* a text: the gates let the run end, or push it on, with or without the text;
\* the next node of the plan pushes its review
TextReply ==
  /\ pc = "reply"
  /\ \/ Finish("text")
     \/ \E said \in {<<>>} \cup {<<Text("assistant", size)>> : size \in Replies} :
          Another(raw \o said \o <<Text("user", Small)>>)
  /\ UNCHANGED <<run, sent, action, percent, warned, condensed, scheduler>>

ToolReply ==
  /\ pc = "reply"
  /\ \E n \in 1..MaxCalls, size \in Replies :
       raw' = Append(raw, [role |-> "assistant", uses |-> {<<round, k>> : k \in 1..n},
                           results |-> {}, size |-> size])
  /\ pc' = "tools"
  /\ UNCHANGED <<run, round, sent, action, percent, warned, condensed, scheduler, outcome>>

\* Mutant: only the calls that were run are answered.
OnlyExecuted(uses, executed) == executed

\* every call has a result: the loop's, or "(skipped)"
Answered(uses, executed) == executed \cup uses

\* microcompactToolResults: long results of the shell and of fetches shrink
ResultSize(long, short) ==
  IF short \/ ~long THEN Small ELSE Clipped

\* the results, and the deferred notes of the gates in the same message; or a gate
\* has blocked too often and the run ends
RunTools ==
  /\ pc = "tools"
  /\ \/ /\ \E executed \in SUBSET Last(raw).uses, long \in BOOLEAN, compactable \in BOOLEAN :
             LET short == compactable /\ (percent >= 35 \/ action # "none")
             IN raw' = Append(raw, [role |-> "user", uses |-> {},
                                    results |-> Answered(Last(raw).uses, executed),
                                    size |-> ResultSize(long, short)])
        /\ pc' = "after"
        /\ UNCHANGED <<round, outcome>>
     \/ Finish("tools")
  /\ UNCHANGED <<run, sent, action, percent, warned, condensed, scheduler>>

(***************************************************************************)
(* After the tools: notes for the next round, the end or a checkpoint.     *)
(***************************************************************************)
Note(said) == IF said THEN <<Text("user", Small)>> ELSE <<>>

\* compactThinkingChain, once in a run, and findSimilarSemantic
Notes(condense, recall) == Note(condense) \o Note(recall)

MayCondense ==
  ~condensed /\ percent < 50 /\ (percent >= 40 \/ action \in {"forceCompress", "rollover"})

\* adaptiveCheckpointThreshold: the label of the first threshold that is newly passed
Thresholds(complex) ==
  IF complex THEN <<[at |-> 15, label |-> "light"], [at |-> 40, label |-> "full"],
                    [at |-> 65, label |-> "compact"]>>
  ELSE <<[at |-> 50, label |-> "full"], [at |-> 75, label |-> "compact"]>>

Passed(complex) ==
  {i \in DOMAIN Thresholds(complex) :
     percent >= Thresholds(complex)[i].at /\ lastPercent < Thresholds(complex)[i].at}

\* shouldSkipCheckpointThisRound; the loop counts its rounds from 0
TooSoon == round - 1 < lastRound + Spacing

\* the threshold counts as passed even when this round's checkpoint is skipped
Checkpoint(complex) ==
  IF Passed(complex) # {}
  THEN /\ lastPercent' = percent
       /\ IF TooSoon THEN UNCHANGED <<lastRound, labels>>
          ELSE /\ lastRound' = round - 1
               /\ labels' = labels \cup {Thresholds(complex)[First(Passed(complex))].label}
  ELSE /\ lastPercent' = IF percent + 20 < lastPercent THEN (percent \div 20) * 20 ELSE lastPercent
       /\ UNCHANGED <<lastRound, labels>>

\* planning, self-edit and evidence prompts start the next round at once
GoOnAtOnce ==
  /\ pc = "after"
  /\ \E condense \in {FALSE, MayCondense}, recall \in BOOLEAN :
       /\ condensed' = (condensed \/ condense)
       /\ Another(raw \o Notes(condense, recall) \o <<Text("user", Small)>>)
  /\ UNCHANGED <<run, sent, action, percent, warned, scheduler>>

\* what is left of the tracker is pushed, then comes the checkpoint
RoundEnds ==
  /\ pc = "after"
  /\ \E condense \in {FALSE, MayCondense}, recall, pushed \in BOOLEAN, complex \in Complex :
       /\ condensed' = (condensed \/ condense)
       /\ Another(raw \o Notes(condense, recall) \o Note(pushed))
       /\ Checkpoint(complex)
  /\ UNCHANGED <<run, sent, action, percent, warned>>

\* the verified-write stop and the restart after a change of the runtime itself
StopAfterTools ==
  /\ pc = "after"
  /\ Finish("tools")
  /\ UNCHANGED <<run, sent, action, percent, warned, condensed, scheduler>>

TranscriptNext ==
  \/ StartRun \/ Ask
  \/ StreamFails \/ TextReply \/ ToolReply
  \/ RunTools \/ GoOnAtOnce \/ RoundEnds \/ StopAfterTools

(***************************************************************************)
(* Properties.                                                             *)
(***************************************************************************)
\* No request has a tool call that the next message does not answer in full,
\* whatever the loop pushed, skipped or archived before: the API refuses such a
\* request (agent/loop.ts:615).
AnswersAdjacent ==
  \A i \in DOMAIN sent : sent[i].uses # {} =>
    i < Len(sent) /\ sent[i + 1].results = sent[i].uses

\* A run is stopped for its context only when the turns that a rollover keeps are
\* too large on their own: no pending call and no threshold ever keeps the loop
\* from archiving before the budget gate stops it (agent/context-epoch.ts:50).
CompactedBeforeBlock ==
  outcome = "context" => Cardinality(Assistants(raw)) <= KeepRecent

\* provider/transcript-manager.ts:5 says that the transcript is always in a state
\* that the API accepts: every result follows the message that made its call.
ResultsHaveCalls ==
  \A i \in DOMAIN sent : sent[i].results # {} =>
    i > 1 /\ sent[i - 1].uses = sent[i].results
=============================================================================
