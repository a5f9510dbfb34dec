---------------------------- MODULE ProviderStream ----------------------------
(***************************************************************************)
(* The answer of a model provider, from the request of a round to the tool  *)
(* calls that are handed to it: src/src/provider/{openai,deepseek,           *)
(* anthropic,retry}.ts and the part of src/src/agent/loop.ts that reads the  *)
(* stream.  Two dialects: "messages" (deepseek.ts, anthropic.ts) and "chat"  *)
(* (openai.ts, for every compatible relay).  A thrown error is retried inside*)
(* the provider, an error event is not: the loop asks again in a new round.  *)
(*                                                                           *)
(* The arguments of a tool call are a sequence of pieces.  An attempt that   *)
(* the loop gave up is not followed further.                                 *)
(***************************************************************************)
EXTENDS Naturals, Sequences, FiniteSets, SequencesExt

CONSTANTS
  Pieces,        \* what a fragment of arguments can be
  MaxTexts,      \* bound: pieces of text in one attempt
  MaxToolCalls,  \* bound: tool calls in one attempt
  MaxArguments,  \* bound: pieces of the arguments of one call
  MaxRetries,    \* maxRetries of the providers, 3 in the code
  MaxTurns       \* maxRounds of the loop

ASSUME StreamAssumption == MaxRetries \in Nat /\ MaxTurns \in Nat \ {0}

VARIABLES
  dialect,    \* "messages" or "chat"
  relay,      \* what the server sends of a call: "deltas" or "snapshots"
  turn,       \* round of the loop
  attempt,    \* attempt of streamChat
  phase,      \* "connecting" "streaming" "sleeping" "answered" "stopped"
  batch,      \* toolBlocks / toolCalls: what the server sent of a call, what is kept
  texts,      \* how many pieces of text each attempt of this turn delivered
  unsafe,     \* unsafeToRetry
  handed      \* the tool calls the loop got, as arguments

streamVars == <<dialect, relay, turn, attempt, phase, batch, texts, unsafe, handed>>

StreamInit ==
  /\ dialect \in {"messages", "chat"} /\ relay \in {"deltas", "snapshots"}
  /\ relay = "snapshots" => dialect = "chat"
  /\ turn = 1 /\ attempt = 0 /\ phase = "connecting"
  /\ batch = <<>> /\ texts = [a \in 0..MaxRetries |-> 0]
  /\ unsafe = FALSE /\ handed = <<>>

\* mergeStreamedField: a piece may repeat all there is so far.
Merged(current, incoming) ==
  IF IsSuffix(incoming, current) THEN current
  ELSE IF IsPrefix(current, incoming) THEN incoming ELSE current \o incoming

Kept(current, incoming) ==
  IF dialect = "chat" THEN Merged(current, incoming) ELSE current \o incoming

Opens ==
  /\ phase = "connecting" /\ phase' = "streaming"
  /\ UNCHANGED <<dialect, relay, turn, attempt, batch, texts, unsafe, handed>>

\* Mutant: only a tool call makes a retry unsafe.
MarksNothing == unsafe

\* markUnsafeToRetry, which openai.ts does not have.
Marks == unsafe \/ dialect = "messages"

SendsText ==
  /\ phase = "streaming" /\ texts[attempt] < MaxTexts
  /\ texts' = [texts EXCEPT ![attempt] = @ + 1]
  /\ unsafe' = Marks
  /\ UNCHANGED <<dialect, relay, turn, attempt, phase, batch, handed>>

\* A tool call starts: content_block_start, or the first delta of an index.
SendsCall(p) ==
  /\ phase = "streaming" /\ Len(batch) < MaxToolCalls
  /\ batch' = Append(batch, [sent |-> <<p>>, kept |-> <<p>>])
  /\ unsafe' = (unsafe \/ dialect = "messages")
  /\ UNCHANGED <<dialect, relay, turn, attempt, phase, texts, handed>>

\* A delta of an index that is taken, under another id: the new call takes the earlier
\* one's place, whatever was sent of that.
ReplacesCall(i, p) ==
  /\ phase = "streaming" /\ dialect = "chat" /\ i \in DOMAIN batch
  /\ batch' = [batch EXCEPT ![i] = [sent |-> <<p>>, kept |-> <<p>>]]
  /\ UNCHANGED <<dialect, relay, turn, attempt, phase, texts, unsafe, handed>>

\* The server goes on with a call; chat may go back to an earlier one.
SendsArguments(i, p) ==
  /\ phase = "streaming" /\ i \in DOMAIN batch
  /\ dialect = "messages" => i = Len(batch)
  /\ Len(batch[i].sent) < MaxArguments
  /\ LET sent == Append(batch[i].sent, p)
         incoming == IF relay = "snapshots" THEN sent ELSE <<p>>
     IN batch' = [batch EXCEPT ![i] =
          [sent |-> sent, kept |-> Kept(batch[i].kept, incoming)]]
  /\ UNCHANGED <<dialect, relay, turn, attempt, phase, texts, unsafe, handed>>

\* The loop's own retry: a new round with a new request, or the end.
AsksAgain(may) ==
  /\ IF may /\ turn < MaxTurns
     THEN /\ turn' = turn + 1 /\ phase' = "connecting" /\ attempt' = 0
          /\ texts' = [a \in 0..MaxRetries |-> 0]
     ELSE phase' = "stopped" /\ UNCHANGED <<turn, attempt, texts>>
  /\ batch' = <<>> /\ unsafe' = FALSE
  /\ UNCHANGED <<dialect, relay, handed>>

\* What can be seen of an error: a status, or 0; and whether its text or its code
\* speaks of credit, of an overload, of the network.
Errors ==
  [status: {0, 401, 402, 404, 408, 429, 503}, about: SUBSET {"credit", "overload", "network"}]

\* classifyProviderError, in its order: what the text says of credit is asked before
\* the status 429, what it says of the network only without a status.
Kind(e) ==
  IF e.status = 408 THEN "network"
  ELSE IF e.status = 402 \/ "credit" \in e.about THEN "quota"
  ELSE IF e.status = 429 THEN "rate_limit"
  ELSE IF "overload" \in e.about THEN "capacity"
  ELSE IF e.status \in 500..599 THEN "server"
  ELSE IF e.status \in {401, 403} THEN "auth"
  ELSE IF e.status \in 400..499 THEN "client"
  ELSE IF "network" \in e.about THEN "network" ELSE "unknown"

Retryable(e) == Kind(e) \in {"network", "rate_limit", "capacity", "server"}

\* isNonRetryableProviderStreamError, which has only the text of the error event: it goes
\* on after an error of unknown kind.
MayAskAgain(e) == Kind(e) \notin {"auth", "client", "quota"} /\ "credit" \notin e.about

\* The request or the stream throws.
Throws(e) ==
  /\ phase \in {"connecting", "streaming"}
  /\ IF Retryable(e) /\ ~unsafe /\ attempt < MaxRetries
     THEN phase' = "sleeping"
          /\ UNCHANGED <<dialect, relay, turn, attempt, batch, texts, unsafe, handed>>
     ELSE AsksAgain(MayAskAgain(e))

Wakes ==
  /\ phase = "sleeping" /\ phase' = "connecting" /\ attempt' = attempt + 1
  /\ batch' = <<>> /\ unsafe' = FALSE
  /\ UNCHANGED <<dialect, relay, turn, texts, handed>>

\* How a stream can end without throwing: a normal stop reason; [DONE] without
\* one; another stop reason; none at all; after a chunk that was no JSON.
Endings == {"normal", "done", "cut", "none", "garbled"}

\* The checks before any call is handed over. broken: calls beyond repair.
Accepted(how, broken) ==
  /\ how \in {"normal", "done"} /\ broken = {}
  /\ how = "done" => dialect = "chat"

\* The calls of a batch in their order, without the broken ones.
Nth(places, k) == CHOOSE i \in places : Cardinality({j \in places : j <= i}) = k
Without(broken) ==
  LET rest == DOMAIN batch \ broken IN [k \in 1..Cardinality(rest) |-> batch[Nth(rest, k)]]

Ends(how, broken) ==
  /\ phase = "streaming" /\ broken \subseteq DOMAIN batch
  /\ dialect = "messages" => how \notin {"done", "garbled"}
  /\ IF Accepted(how, broken)
     THEN /\ phase' = "answered"
          /\ handed' = Without(broken)
          /\ UNCHANGED <<dialect, relay, turn, attempt, batch, texts, unsafe>>
     ELSE AsksAgain(TRUE)

\* Mutant: the timer runs while a stream is open, not before it and not between two.
OnlyWhileStreaming == {"streaming"}

\* nextProviderEvent races the generator's next event, whatever it waits for.
Timed == {"connecting", "streaming", "sleeping"}

\* A provider that says nothing for providerIdleTimeoutMs.
IdleTimeout ==
  /\ phase \in Timed
  /\ AsksAgain(TRUE)

StreamNext ==
  \/ Opens \/ SendsText \/ Wakes \/ IdleTimeout
  \/ \E p \in Pieces : SendsCall(p)
  \/ \E i \in 1..MaxToolCalls, p \in Pieces : ReplacesCall(i, p) \/ SendsArguments(i, p)
  \/ \E e \in Errors : Throws(e)
  \/ \E how \in Endings, broken \in SUBSET (1..MaxToolCalls) : Ends(how, broken)

\* The timer fires; nothing is asked of the server, nor of retry-after, which
\* may be longer than the timer (retry.ts:70).
StreamFairness == WF_streamVars(IdleTimeout)

-----------------------------------------------------------------------------
\* What the loop is given is one answer, whole: the batch of calls, as the stream left it,
\* is handed over completely or not at all ("A partially parsed batch must never execute
\* its valid prefix", openai.ts:349-350; a call whose place another took is no longer of
\* the batch), a relay that repeats all it sent so far does not double
\* the arguments, and with the messages dialect the text of a round comes from one
\* attempt. (With chat a retry says it twice: openai.ts has no such mark.)
AnswerIsWhole ==
  /\ phase = "answered" =>
       /\ Len(handed) = Len(batch)
       /\ relay = "snapshots" => \A i \in DOMAIN handed : handed[i].kept = handed[i].sent
  /\ dialect = "messages" => Cardinality({a \in DOMAIN texts : texts[a] > 0}) <= 1

\* Whatever the provider does or does not do, the loop gets an answer or stops.
RoundsSettle == <>(phase \in {"answered", "stopped"})

\* "Compatible relays vary between true deltas and cumulative snapshots"
\* (openai.ts:395): a call is handed over with the arguments the server sent,
\* whichever way it sends them.
DeltasKept == \A i \in DOMAIN handed : handed[i].kept = handed[i].sent
=============================================================================
