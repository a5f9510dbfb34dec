---------------------------- MODULE SessionStore -----------------------------
(***************************************************************************)
(* The store of one session (session/sqlite-session.ts) on both runtimes   *)
(* at once: under Bun it is a database, under Node.js a JSON file that is  *)
(* read at the start and written whole, with the rounds and checkpoints in *)
(* memory only.  Both are given the same calls, and their answers are      *)
(* compared.  Search within the session and over all of them               *)
(* (session/session-search.ts).                                            *)
(*                                                                         *)
(* A message is its batch, its place in it and its words.                  *)
(***************************************************************************)
EXTENDS Integers, Sequences, FiniteSets, SequencesExt

CONSTANTS
  Wordings,     \* sets of words a message may consist of
  PrefixOf,     \* pairs of words: the first is how the second begins
  PartOf,       \* pairs of words: the first stands somewhere in the second
  Unparsed,     \* words the full-text search cannot parse, such as one with a hyphen
  Queries,      \* what is searched for: sequences of words
  RoundNumbers, \* numbers of rounds and of checkpoints
  KeptPoints,   \* 3: checkpoints that are kept
  MaxBatch,     \* bound on the messages of a call
  MaxMessages,  \* bound on the messages of the session
  MaxEntries,  \* bound on its rounds, and on its checkpoints
  MaxOpenings   \* bound on the processes that open it

ASSUME StoreAssumption ==
  /\ RoundNumbers \subseteq Nat /\ Queries \subseteq Seq(STRING) \ {<<>>}
  /\ PrefixOf \subseteq PartOf /\ \A words \in Wordings : \A w \in words : <<w, w>> \in PartOf
  /\ {KeptPoints, MaxBatch, MaxMessages, MaxEntries, MaxOpenings} \subseteq Nat \ {0}

VARIABLES
  database,  \* SQLite: messages, rounds and checkpoints
  jsonFile,  \* the file: its messages, or none when a crash tore it
  loaded,    \* what the other runtime has in memory
  opened,    \* whether a process has the store open, and how many had
  batch,     \* calls that added messages, the one a crash cut short included
  whole,     \* batches whose call returned
  pointsMade,\* checkpoints that were saved
  apart      \* why the two may differ: "crash", "restart" or "order"

storeVars ==
  <<database, jsonFile, loaded, opened, batch, whole, pointsMade, apart>>

EmptySession == [messages |-> <<>>, rounds |-> <<>>, points |-> <<>>]
TornFile == [torn |-> TRUE, messages |-> <<>>]
FileOf(messages) == [torn |-> FALSE, messages |-> messages]

StoreInit ==
  /\ database = EmptySession /\ jsonFile = FileOf(<<>>) /\ loaded = EmptySession
  /\ opened = [open |-> FALSE, count |-> 0]
  /\ batch = 0 /\ whole = {} /\ pointsMade = 0 /\ apart = {}

----------------------------------------------------------------------------
\* A file that cannot be parsed is an empty session.
LoadFallback == [EmptySession EXCEPT !.messages = jsonFile.messages]

OpenSession ==
  /\ ~opened.open /\ opened.count < MaxOpenings
  /\ opened' = [open |-> TRUE, count |-> opened.count + 1]
  /\ loaded' = LoadFallback
  /\ apart' = apart \cup (IF database.rounds \o database.points = <<>> THEN {} ELSE {"restart"})
  /\ UNCHANGED <<database, jsonFile, batch, whole, pointsMade>>

\* close() writes the file once more; a process may also end without it.
CloseSession ==
  /\ opened.open
  /\ opened' = [opened EXCEPT !.open = FALSE]
  /\ jsonFile' \in {jsonFile, FileOf(loaded.messages)}
  /\ UNCHANGED <<database, loaded, batch, whole, pointsMade, apart>>

BatchOf(wordings) ==
  [i \in DOMAIN wordings |->
     [batch |-> batch + 1, at |-> i, of |-> Len(wordings), words |-> wordings[i]]]

AddBatch(wordings) ==
  /\ opened.open /\ Len(database.messages) + Len(wordings) <= MaxMessages
  /\ batch < MaxMessages
  /\ batch' = batch + 1 /\ whole' = whole \cup {batch + 1}
  /\ database' = [database EXCEPT !.messages = @ \o BatchOf(wordings)]
  /\ loaded' = [loaded EXCEPT !.messages = @ \o BatchOf(wordings)]
  /\ jsonFile' = FileOf(loaded'.messages)
  /\ UNCHANGED <<opened, pointsMade, apart>>

\* Mutant: the rows are not inserted in a transaction.
RowByRow(wordings) == {SubSeq(BatchOf(wordings), 1, n) : n \in 0..Len(wordings)}

\* What a crash leaves of a batch in the database.
CutShort(wordings) == {<<>>, BatchOf(wordings)}

CrashInAdd(wordings) ==
  /\ opened.open /\ Len(database.messages) + Len(wordings) <= MaxMessages
  /\ batch < MaxMessages
  /\ batch' = batch + 1 /\ apart' = apart \cup {"crash"}
  /\ opened' = [opened EXCEPT !.open = FALSE]
  /\ \E rows \in CutShort(wordings) :
       database' = [database EXCEPT !.messages = @ \o rows]
  /\ jsonFile' \in {jsonFile, TornFile, FileOf(loaded.messages \o BatchOf(wordings))}
  /\ UNCHANGED <<loaded, whole, pointsMade>>

----------------------------------------------------------------------------
(* Rounds and checkpoints.                                                 *)

Rising(s, n) == s = <<>> \/ Last(s).number < n

Noted(s, n) == apart' = apart \cup (IF Rising(s, n) THEN {} ELSE {"order"})

StartRound(n) ==
  /\ opened.open /\ Len(database.rounds) < MaxEntries
  /\ database' = [database EXCEPT !.rounds =
       Append(@, [id |-> Len(@) + 1, number |-> n, ended |-> FALSE])]
  /\ loaded' = [loaded EXCEPT !.rounds =
       Append(@, [id |-> Len(@) + 1, number |-> n, ended |-> FALSE])]
  /\ Noted(database.rounds, n)
  /\ UNCHANGED <<jsonFile, opened, batch, whole, pointsMade>>

\* The last one that was started.
Ended(rounds) == [rounds EXCEPT ![Len(rounds)].ended = TRUE]

CompleteRound ==
  /\ opened.open /\ loaded.rounds # <<>> /\ ~Last(loaded.rounds).ended
  /\ database' = [database EXCEPT !.rounds = Ended(@)]
  /\ loaded'   = [loaded EXCEPT !.rounds = Ended(@)]
  /\ UNCHANGED <<jsonFile, opened, batch, whole, pointsMade, apart>>

\* Stable sorting by the number, as Array.sort does: direction is 1 or -1, and what precedes
\* a row says where it comes to stand.
Preceding(rows, direction, j) ==
  {i \in DOMAIN rows : \/ direction * rows[i].number < direction * rows[j].number
                       \/ rows[i].number = rows[j].number /\ i < j}
Sorted(rows, direction) ==
  [k \in DOMAIN rows |->
     rows[CHOOSE j \in DOMAIN rows : Cardinality(Preceding(rows, direction, j)) = k - 1]]
Ascending(rows) == Sorted(rows, 1)
Descending(rows) == Sorted(rows, -1)
Cut(s, n) == IF Len(s) <= n THEN s ELSE SubSeq(s, 1, n)

\* Mutant: the array is cut as it was sorted for the list.
CutAscending(rows) == Cut(Ascending(rows), KeptPoints)

KeptInMemory(rows) == Ascending(Cut(Descending(rows), KeptPoints))

\* DELETE ... NOT IN: those with the largest numbers stay, of equal ones any, and they stay
\* in the order in which they were saved.
KeptRows(rows) ==
  {kept \in [1..(IF Len(rows) < KeptPoints THEN Len(rows) ELSE KeptPoints) -> ToSet(rows)] :
     /\ \A k, l \in DOMAIN kept : k < l => kept[k].made < kept[l].made
     /\ \A p \in ToSet(kept), o \in ToSet(rows) \ ToSet(kept) : p.number >= o.number}

SavePoint(n) ==
  /\ opened.open /\ pointsMade < MaxEntries
  /\ pointsMade' = pointsMade + 1
  /\ LET point == [made |-> pointsMade + 1, number |-> n]
     IN /\ \E kept \in KeptRows(Append(database.points, point)) :
             database' = [database EXCEPT !.points = kept]
        /\ loaded' = [loaded EXCEPT !.points = KeptInMemory(Append(@, point))]
  /\ Noted(database.points, n)
  /\ UNCHANGED <<jsonFile, opened, batch, whole>>

\* loadCheckpoint sorts the array it keeps.
LoadLatest ==
  /\ opened.open /\ loaded.points # Descending(loaded.points)
  /\ loaded' = [loaded EXCEPT !.points = Descending(@)]
  /\ UNCHANGED <<database, jsonFile, opened, batch, whole, pointsMade, apart>>

StoreNext ==
  \/ OpenSession \/ CloseSession \/ LoadLatest \/ CompleteRound
  \/ \E n \in 1..MaxBatch : \E wordings \in [1..n -> Wordings] :
       AddBatch(wordings) \/ CrashInAdd(wordings)
  \/ \E n \in RoundNumbers : StartRound(n) \/ SavePoint(n)

----------------------------------------------------------------------------
(* The answers.                                                            *)

\* getMessages; a limit of 0 is none.
FallbackPage(limit, offset) ==
  LET end == IF limit = 0 THEN Len(loaded.messages)
             ELSE Min({Len(loaded.messages), offset + limit})
  IN SubSeq(loaded.messages, offset + 1, end)

\* In SQL an offset needs a limit.
SqlPage(limit, offset) ==
  IF limit = 0 THEN IF offset = 0 THEN database.messages ELSE <<"no SQL">>
  ELSE SubSeq(database.messages, offset + 1, Min({Len(database.messages), offset + limit}))

\* lastCheckpoint
LatestOf(rows) ==
  {p \in ToSet(rows) : \A o \in ToSet(rows) : o.number <= p.number}
FirstOf(rows) == IF rows = <<>> THEN {} ELSE {Descending(rows)[1]}

\* Words of a query: all but the last have to be words, the last begins one.
Fts(query, message) ==
  /\ \A i \in 1..(Len(query) - 1) : query[i] \in message.words
  /\ \E w \in message.words : <<Last(query), w>> \in PrefixOf
Like(query, message) ==
  \A i \in DOMAIN query : \E w \in message.words : <<query[i], w>> \in PartOf
Parses(query) == ToSet(query) \cap Unparsed = {}

SearchMessages(query) ==
  {m \in ToSet(database.messages) : IF Parses(query) THEN Fts(query, m) ELSE Like(query, m)}

FallbackSearch(query) == {m \in ToSet(loaded.messages) : Like(query, m)}

\* searchAllSessions: its second attempt has lost the last word, and without any other the
\* statement is no SQL and the session is skipped.
SearchAllSessions(query) ==
  {m \in ToSet(database.messages) :
     IF Parses(query) THEN Fts(query, m) ELSE Len(query) > 1 /\ Like(Front(query), m)}

----------------------------------------------------------------------------
\* "Same public API" (sqlite-session.ts:7): until a crash cuts a call short both runtimes
\* give the same pages of messages, and what the database finds is found in the file.
PagesAgree ==
  opened.open /\ "crash" \notin apart =>
    /\ \A limit \in 0..MaxMessages, offset \in 0..MaxMessages :
         limit # 0 \/ offset = 0 => SqlPage(limit, offset) = FallbackPage(limit, offset)
    /\ \A q \in Queries : SearchMessages(q) \subseteq FallbackSearch(q)

\* As long as the rounds rise and no other process had the session before, both have the
\* same rounds and checkpoints.
EntriesAgree ==
  opened.open /\ apart \subseteq {"crash"} =>
    /\ database.rounds = loaded.rounds
    /\ database.points = Ascending(loaded.points)
    /\ LatestOf(database.points) = FirstOf(loaded.points)

\* The calls of addMessages are in the database as a whole or not at all, and those that
\* returned are there, whatever crashed since (sqlite-session.ts:277).
WholeBatches ==
  LET there == {m.batch : m \in ToSet(database.messages)}
  IN /\ whole \subseteq there
     /\ \A m \in ToSet(database.messages) :
          Cardinality({o \in ToSet(database.messages) : o.batch = m.batch}) = m.of

\* A session file that cannot be read is reported (sqlite-session.ts:11).  It does not
\* hold for the store: it starts from an empty session, and the next write replaces the file.
CorruptIsTold == opened.open => ~jsonFile.torn

\* The checkpoint saved last is the one that is loaded.  It does not hold when the rounds
\* start again, as they do in every process.
LastPointIsLoaded ==
  opened.open /\ database.points # <<>> =>
    \A p \in LatestOf(database.points) : p.made = pointsMade

\* What the search within a session finds, the search over all sessions finds.  It does
\* not hold for one word that is no full-text query.
SearchFindsAll == \A q \in Queries : SearchMessages(q) \subseteq SearchAllSessions(q)
=============================================================================
