------------------------------ MODULE Compactor ------------------------------
(***************************************************************************)
(* The digest of a long conversation (src/memory/compactor.ts, and its use *)
(* in src/ui/cli.ts): the newest turns are kept as they are, older ones    *)
(* with a gist each, the oldest only as topics and decisions.  Beyond a    *)
(* size a checkpoint M0 is taken of it all, to stay the same from then on, *)
(* and is put in front of every prompt.  The whole is saved under the id   *)
(* of the session, by way of a temporary file, and read when the session   *)
(* is resumed.                                                             *)
(*                                                                         *)
(* Every turn has the size 1; the memories that appendDeltaMemory adds are *)
(* left out, as nothing calls it.                                          *)
(***************************************************************************)
EXTENDS Integers, Sequences, FiniteSets, SequencesExt

CONSTANTS
  HotWindow,     \* turns that are kept as they are (20)
  WarmCap,       \* turns that are kept with a gist (40)
  Texts,         \* what a turn says
  Signals,       \* the texts that read like a decision
  TopicCap,      \* topics and decisions the digest holds (10)
  Threshold,     \* size from which M0 is taken (50000 tokens)
  Budget,        \* lines of the digest a prompt takes
  Sessions,      \* ids of sessions
  MaxTurns,      \* bound of the turns
  MaxTalks,      \* bound of the conversations: starts and clears
  Unset          \* no anchor, no id, no file

ASSUME CompactorAssumption ==
  /\ {HotWindow, WarmCap, TopicCap, Threshold} \subseteq Nat \ {0}
  /\ {MaxTurns, MaxTalks, Budget} \subseteq Nat
  /\ Signals \subseteq Texts

VARIABLES
  memory,    \* the CompactionState
  talk,      \* the conversation: how many there were before it
  sessionId, \* of the session, or Unset
  answering, \* the text of the turn that runs, or Unset
  full,      \* whether that turn is one of the agent
  states,     \* session -> the state in its file, or Unset
  archives,  \* raw turns on disk that are never deleted
  shown      \* what the memory put into the last prompt

compactorVars == <<memory, talk, sessionId, answering, full, states, archives, shown>>

Empty == [hot |-> <<>>, warm |-> <<>>, records |-> <<>>, topics |-> <<>>, decisions |-> <<>>,
          manifest |-> <<>>, anchor |-> Unset, total |-> 0]

Lower(a, b) == IF a < b THEN a ELSE b

LastOf(s, k) == SubSeq(s, Len(s) - Lower(Len(s), k) + 1, Len(s))

\* uniqueAppend(): what is said again moves to the end.
UniqueAppend(items, text, limit) ==
  LastOf(Append(SelectSeq(items, LAMBDA i : i # text), text), limit)

-----------------------------------------------------------------------------
\* A turn is folded into topics, of the user, and decisions; its gist is gone.
FoldIntoColdDigest(m, turn) ==
  [m EXCEPT
    !.topics = IF turn.role = "user" THEN UniqueAppend(@, turn.text, TopicCap) ELSE @,
    !.decisions = IF turn.text \in Signals THEN UniqueAppend(@, turn.text, TopicCap) ELSE @,
    !.manifest = IF turn.text \in Signals THEN UniqueAppend(@, turn.text, 3 * TopicCap) ELSE @]

\* The oldest hot turn becomes warm and gets its gist, under its number.
Cooled(m) ==
  IF Len(m.hot) <= HotWindow THEN m
  ELSE [m EXCEPT !.hot = Tail(@), !.warm = Append(@, Head(m.hot)),
                 !.records = Append(@, [index |-> m.total - Len(m.hot) + 1, of |-> Head(m.hot)])]

\* Mutant: the gist of a turn that is folded stays.
FoldsTurnOnly(m) ==
  IF Len(m.warm) <= WarmCap THEN m
  ELSE FoldIntoColdDigest([m EXCEPT !.warm = Tail(@)], Head(m.warm))

\* The oldest warm turn leaves with its gist.
Folded(m) ==
  IF Len(m.warm) <= WarmCap THEN m
  ELSE FoldIntoColdDigest([m EXCEPT !.warm = Tail(@), !.records = Tail(@)], Head(m.warm))

AddTurn(m, turn) ==
  Folded(Cooled([m EXCEPT !.hot = Append(@, turn), !.total = @ + 1]))

\* M0 is taken once, of the digest as it is, with the raw turns put on disk.
CreateBaseCheckpoint(m) ==
  IF m.anchor # Unset \/ m.total < Threshold THEN m
  ELSE [m EXCEPT !.anchor = [talk |-> talk, topics |-> m.topics, decisions |-> m.decisions,
                             gists |-> Len(m.records)],
                 !.manifest = FoldLeft(LAMBDA s, d : UniqueAppend(s, d, 6 * TopicCap), @, m.decisions)]

\* saveColdArchive(): all turns that are still there as they were said.
Archived(m) ==
  IF m.anchor # Unset \/ m.total < Threshold THEN {}
  ELSE {[talk |-> t.talk, n |-> t.n] : t \in ToSet(m.hot) \cup ToSet(m.warm)}

\* The lines of a prompt stop at the first that does not fit, and the oldest gists come
\* first: it is the newest that are dropped.
Within(lines) == SubSeq(lines, 1, Lower(Len(lines), Budget))

BuildStableAnchorContext(m) == IF m.anchor = Unset THEN {} ELSE {m.anchor.talk}

Line(tier, of) == [tier |-> tier, talk |-> of]

BuildDynamicMemoryContext(m) ==
  Within([i \in 1..Lower(Len(m.records), IF m.anchor = Unset THEN 30 ELSE 8) |->
            Line("warm", LastOf(m.records, IF m.anchor = Unset THEN 30 ELSE 8)[i].of.talk)]
         \o [i \in 1..Lower(Len(m.topics), 8) |-> Line("older", 0)]
         \o [i \in 1..Lower(Len(m.decisions), 6) |-> Line("older", 0)])

-----------------------------------------------------------------------------
CompactorInit ==
  /\ memory = Empty /\ talk = 1 /\ sessionId = Unset /\ answering = Unset /\ full = FALSE
  /\ states = [s \in Sessions |-> Unset] /\ archives = {} /\ shown = {}

\* runTurn and runLiteTurn begin; only the first takes M0 and the digest along.
BeginTurn(text, agent) ==
  LET m == IF agent THEN CreateBaseCheckpoint(memory) ELSE memory
  IN /\ answering = Unset /\ memory.total < MaxTurns
     /\ answering' = text /\ full' = agent /\ memory' = m
     /\ archives' = archives \cup (IF agent THEN Archived(memory) ELSE {})
     /\ shown' = IF agent
          THEN BuildStableAnchorContext(m)
               \cup {l.talk : l \in ToSet(BuildDynamicMemoryContext(m))}
          ELSE {}
     /\ UNCHANGED <<talk, sessionId, states>>

\* A turn ends with an answer or none; a plan that is cancelled leaves nothing.
EndAnswer(reply) ==
  LET turn(m, role, text) == [n |-> m.total + 1, talk |-> talk, role |-> role, text |-> text]
      heard == AddTurn(memory, turn(memory, "user", answering))
      end == IF reply = Unset THEN heard ELSE AddTurn(heard, turn(heard, "assistant", reply))
  IN /\ answering # Unset
     /\ memory' = CreateBaseCheckpoint(end)
     /\ archives' = archives \cup Archived(end)
     /\ answering' = Unset
     /\ UNCHANGED <<talk, sessionId, full, states, shown>>

Cancel ==
  /\ answering # Unset /\ full
  /\ answering' = Unset
  /\ UNCHANGED <<memory, talk, sessionId, full, states, archives, shown>>

\* persistSession, of the session or of a new one: saveCompactorState.
Save(s) ==
  /\ answering = Unset
  /\ s = sessionId \/ (sessionId = Unset /\ states[s] = Unset)
  /\ sessionId' = s /\ states' = [states EXCEPT ![s] = memory]
  /\ UNCHANGED <<memory, talk, answering, full, archives, shown>>

\* createCompactor() has no anchor that could take the place of the one that is there.
Assigned(m) == [Empty EXCEPT !.anchor = m.anchor]

\* /clear, at the prompt.
ClearMemory ==
  /\ answering = Unset /\ talk < MaxTalks
  /\ talk' = talk + 1 /\ sessionId' = Unset
  /\ memory' = Assigned(memory)
  /\ UNCHANGED <<answering, full, states, archives, shown>>

\* Mutant: the oldest gists are not kept in the file.
RestoresHot(state) == IF state = Unset THEN Empty ELSE [state EXCEPT !.records = <<>>]

\* restoreCompactorState(): without a file the state stays as it was made.
Restore(state) == IF state = Unset THEN Empty ELSE state

\* The program ends at any time and starts again, with a session to resume or not.
RestartWith(s) ==
  /\ talk < MaxTalks /\ talk' = talk + 1
  /\ sessionId' = s
  /\ memory' = IF s = Unset THEN Empty ELSE Restore(states[s])
  /\ answering' = Unset /\ full' = FALSE /\ shown' = {}
  /\ UNCHANGED <<states, archives>>

CompactorNext ==
  \/ \E text \in Texts, agent \in BOOLEAN : BeginTurn(text, agent)
  \/ \E reply \in Texts \cup {Unset} : EndAnswer(reply)
  \/ Cancel \/ ClearMemory
  \/ \E s \in Sessions : Save(s)
  \/ \E s \in Sessions \cup {Unset} : RestartWith(s)

-----------------------------------------------------------------------------
\* The tiers are the last turns of the conversation, each turn in one of them, in their
\* order and without a gap, and every warm turn has its own gist under its own number,
\* whatever was folded, saved, resumed and cleared.
TiersFollow ==
  LET n == memory.total
      hot == Lower(n, HotWindow)
      warm == Lower(n - hot, WarmCap)
  IN /\ Len(memory.hot) = hot /\ Len(memory.warm) = warm /\ Len(memory.records) = warm
     /\ \A i \in 1..hot : memory.hot[i].n = n - hot + i
     /\ \A i \in 1..warm : /\ memory.warm[i].n = n - hot - warm + i
                           /\ memory.records[i] = [index |-> memory.warm[i].n, of |-> memory.warm[i]]

\* "clear the current context" (definitions.ts:73): what is put in front of a prompt is
\* not from before the last /clear, unless the session of that time was resumed.  The
\* anchor stays, so this does not hold.
ClearForgets ==
  [][ClearMemory => BuildStableAnchorContext(memory') = {}]_compactorVars
=============================================================================
