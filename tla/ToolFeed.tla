------------------------------- MODULE ToolFeed -------------------------------
(***************************************************************************)
(* How the results of tool calls find the entries of the workbench         *)
(* (tui/state/event-adapter.ts, the tool events of event-reducer.ts).  The *)
(* loop announces each call when the provider has sent it, runs them later *)
(* in that order, and says nothing of a call it refused; its events carry  *)
(* the name of the tool and no identity, and the adapter pairs them.       *)
(*                                                                         *)
(* A result is named after the call it answers, which the code cannot see. *)
(***************************************************************************)
EXTENDS Naturals, Sequences, FiniteSets, SequencesExt

CONSTANTS
  ToolNames,  \* names of tools
  ToolLimit,  \* 200: LIMITS.tools
  DashLimit,  \* 16: LIMITS.dashToolHistory
  MaxCalls    \* bound on the calls since the last reset

ASSUME FeedAssumption == ToolLimit \in Nat \ {0} /\ DashLimit \in Nat \ {0} /\ MaxCalls \in Nat

NoResult == 0

VARIABLES
  pendingTools,   \* for each tool the entries that wait for a result
  toolCounter,
  roundToolCalls, \* tools called since the last summary
  roundSummaryEmitted,
  roundLine,      \* the round the progress line names, 0 for no line
  entries,        \* state.tools: [id, tool, status, result]
  dash,           \* dashToolHistory
  batch,          \* the calls the loop has announced and not run: [tool, entry]
  serving,        \* the loop runs them
  round,
  unanswered      \* since the last reset a call was announced that gets no result

feedVars == <<pendingTools, toolCounter, roundToolCalls, roundSummaryEmitted, roundLine,
              entries, dash, batch, serving, round, unanswered>>

FeedInit ==
  /\ pendingTools = [t \in ToolNames |-> <<>>] /\ toolCounter = 0
  /\ roundToolCalls = {} /\ roundSummaryEmitted = FALSE /\ roundLine = 0
  /\ entries = <<>> /\ dash = <<>>
  /\ batch = <<>> /\ serving = FALSE /\ round = 1 /\ unanswered = FALSE

\* pushBounded: the oldest goes.
Ring(list, item, limit) ==
  IF Len(list) < limit THEN Append(list, item) ELSE Append(Tail(list), item)

Entry(id, tool, status, result) == [id |-> id, tool |-> tool, status |-> status, result |-> result]

-----------------------------------------------------------------------------
\* tool_call, tool.started.
ToolCall(t) ==
  LET id == toolCounter + 1 IN
  /\ ~serving /\ toolCounter < MaxCalls
  /\ toolCounter' = id
  /\ pendingTools' = [pendingTools EXCEPT ![t] = Append(@, id)]
  /\ roundSummaryEmitted' = (roundSummaryEmitted /\ roundToolCalls # {})
  /\ roundToolCalls' = roundToolCalls \cup {t}
  /\ entries' = Ring(entries, Entry(id, t, "running", NoResult), ToolLimit)
  /\ dash' = Ring(dash, <<t, "running">>, DashLimit)
  /\ batch' = Append(batch, [tool |-> t, entry |-> id])
  /\ UNCHANGED <<roundLine, serving, round, unanswered>>

\* Mutant: the newest of the calls that wait is taken.
NewestFirst(queue) == <<queue[Len(queue)], SubSeq(queue, 1, Len(queue) - 1)>>
\* queue.shift()
Shift(queue) == <<Head(queue), Tail(queue)>>

\* tool.finished: the entry with that id is filled in, or there is none and one is made.
Finished(list, id, ok, result) ==
  IF \E i \in DOMAIN list : list[i].id = id
    THEN [i \in DOMAIN list |->
            IF list[i].id = id
              THEN Entry(id, list[i].tool, IF ok THEN "passed" ELSE "failed", result)
              ELSE list[i]]
    ELSE Ring(list, Entry(id, "unknown", "orphan", result), ToolLimit)

\* tool_result of the first call of the batch.
ToolResult(ok) ==
  LET t == Head(batch).tool
      paired == pendingTools[t] # <<>>
      id == IF paired THEN Shift(pendingTools[t])[1] ELSE toolCounter + 1
      shown == \E i \in DOMAIN entries : entries[i].id = id
  IN
  /\ serving /\ batch # <<>>
  /\ batch' = Tail(batch)
  /\ toolCounter' = IF paired THEN toolCounter ELSE id
  /\ pendingTools' = [pendingTools EXCEPT ![t] = IF paired THEN Shift(@)[2] ELSE @]
  /\ entries' = Finished(entries, id, ok, Head(batch).entry)
  /\ dash' = IF shown THEN Ring(dash, <<t, "done">>, DashLimit) ELSE dash
  /\ UNCHANGED <<roundToolCalls, roundSummaryEmitted, roundLine, serving, round, unanswered>>

\* A call refused by its rate limit or a permission, blocked by another gate, or to a tool
\* that does not exist: its result goes into the transcript and no event says so.
RefuseCall ==
  /\ serving /\ batch # <<>>
  /\ batch' = Tail(batch) /\ unanswered' = TRUE
  /\ UNCHANGED <<pendingTools, toolCounter, roundToolCalls, roundSummaryEmitted, roundLine,
                 entries, dash, serving, round>>

\* token_usage: the round is summed up if the provider reported it and a tool was called.
TokenUsage(reported) ==
  IF reported /\ roundToolCalls # {} /\ ~roundSummaryEmitted
    THEN roundLine' = round /\ roundSummaryEmitted' = TRUE /\ roundToolCalls' = {}
    ELSE UNCHANGED <<roundLine, roundSummaryEmitted, roundToolCalls>>

StreamEnds(reported) ==
  /\ ~serving /\ batch # <<>> /\ serving' = TRUE
  /\ TokenUsage(reported)
  /\ UNCHANGED <<pendingTools, toolCounter, entries, dash, batch, round, unanswered>>

\* The stream fails after some calls: they are dropped, and the next round asks again.
StreamFails(reported) ==
  /\ ~serving /\ batch # <<>>
  /\ batch' = <<>> /\ unanswered' = TRUE /\ round' = round + 1
  /\ TokenUsage(reported)
  /\ UNCHANGED <<pendingTools, toolCounter, entries, dash, serving>>

NextRound ==
  /\ serving /\ batch = <<>>
  /\ serving' = FALSE /\ round' = round + 1
  /\ UNCHANGED <<pendingTools, toolCounter, roundToolCalls, roundSummaryEmitted, roundLine,
                 entries, dash, batch, unanswered>>

\* /clear, between two runs: the store and the adapter begin again.
ResetFeed ==
  /\ ~serving /\ batch = <<>> /\ toolCounter > 0
  /\ pendingTools' = [t \in ToolNames |-> <<>>] /\ toolCounter' = 0
  /\ roundToolCalls' = {} /\ roundSummaryEmitted' = FALSE /\ roundLine' = 0
  /\ entries' = <<>> /\ dash' = <<>> /\ round' = 1 /\ unanswered' = FALSE
  /\ UNCHANGED <<batch, serving>>

FeedNext ==
  \/ \E t \in ToolNames : ToolCall(t)
  \/ \E ok \in BOOLEAN : ToolResult(ok) \/ StreamEnds(ok) \/ StreamFails(ok)
  \/ RefuseCall \/ NextRound \/ ResetFeed

-----------------------------------------------------------------------------
\* "The id is taken from the head of the queue, which makes the pairing first in, first
\* out": while every announced call has got its result, each entry shows the result of
\* the call it was made for, though calls of one tool overlap and entries are evicted.
ResultsAtTheirCalls ==
  ~unanswered => \A i \in DOMAIN entries : entries[i].result \in {NoResult, entries[i].id}

\* The same without the condition, as the head comment of the adapter has it: after a
\* refusal every later result of that tool stands one entry too early.
PairingIsFifo == \A i \in DOMAIN entries : entries[i].result \in {NoResult, entries[i].id}
=============================================================================
