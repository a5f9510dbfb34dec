------------------------------ MODULE Knowledge ------------------------------
(***************************************************************************)
(* What the program remembers from one session to the next                 *)
(* (src/memory/knowledge.ts, hybrid.ts, sqlite-store.ts, distiller.ts):    *)
(* a file of JSON lines that every process appends to and that is the      *)
(* truth, a copy of it in the memory of each process, and a full text      *)
(* table all of them share.  A process that finds old entries writes the   *)
(* whole file anew from its own copy, in two system calls with one name    *)
(* for the temporary file.  A process may end between any two calls and in *)
(* the middle of an append.                                                *)
(*                                                                         *)
(* An entry is a question with an answer; the answers the search engines   *)
(* gave under a topic are entries too, with the topic as the question.     *)
(***************************************************************************)
EXTENDS Integers, Sequences, FiniteSets, SequencesExt

CONSTANTS
  Programs,      \* the processes that share the home directory
  Questions,    \* queries and topics: an entry is found again by its question
  Answers,      \* what was learned
  Month,        \* how long an entry is good for
  MaxNow,       \* bound of the clock
  MaxLines,     \* bound of the file and of what is learned in all
  MaxCrashes,   \* bound of the processes that end in the middle of something
  TornLine,     \* a line that does not parse
  OpenLine,     \* a torn line that has no end yet
  Nothing       \* no temporary file, no row

Never == -1

EntryType ==
  [ask : Questions, answer : Answers, stamp : Nat, expires : Nat \cup {Never}]

ASSUME KnowledgeAssumption ==
  /\ {Month, MaxNow, MaxLines, MaxCrashes} \subseteq Nat
  /\ TornLine \notin EntryType /\ OpenLine \notin EntryType

VARIABLES
  keeper,       \* which of the two stores: "knowledge" or "hybrid"
  now,
  file,         \* the lines: entries, torn lines, and a torn line without its end
  temp,         \* the temporary file of rewrite(): lines, or Nothing
  table,        \* the SQLite file: "absent", "empty" (no table in it) or "ready"
  tableRows,    \* question -> answer: what the full text table finds
  phase,        \* process -> what it is doing
  fts,          \* process -> whether it runs on Bun and so has SQLite
  index,        \* process -> the copy in its memory
  crashes,
  learnt,       \* entries that were appended to a line of their own
  met           \* whether two processes were ever there at once

knowledgeVars ==
  <<keeper, now, file, temp, table, tableRows, phase, fts, index, crashes, learnt, met>>

\* The places that are kept, counted from the first, and what stands in them.
Nth(places, k) == CHOOSE i \in places : Cardinality({j \in places : j <= i}) = k

Chosen(lines, kept) == [k \in 1..Cardinality(kept) |-> lines[Nth(kept, k)]]

Entries(lines) == Chosen(lines, {i \in DOMAIN lines : lines[i] \notin {TornLine, OpenLine}})

Expired(e) ==
  IF e.expires # Never THEN now > e.expires ELSE now - e.stamp > Month

Fresh(entries) == Chosen(entries, {i \in DOMAIN entries : ~Expired(entries[i])})

HasOpenEnd(lines) == lines # <<>> /\ lines[Len(lines)] = OpenLine

\* appendFileSync: a line that follows one without an end becomes part of it.
Appended(lines, e) ==
  IF HasOpenEnd(lines) THEN [lines EXCEPT ![Len(lines)] = TornLine] ELSE Append(lines, e)

\* The process ends while it appends.
TornAppend(lines) == IF HasOpenEnd(lines) THEN lines ELSE Append(lines, OpenLine)

\* Mutant: one bad line ends the reading.
ReadableUpToATear(lines) ==
  LET bad == {i \in DOMAIN lines : lines[i] \in {TornLine, OpenLine}}
  IN IF bad = {} THEN lines
     ELSE SubSeq(lines, 1, (CHOOSE i \in bad : \A j \in bad : i <= j) - 1)

\* What load() of the knowledge base makes of the lines.
Readable(lines) == Entries(lines)

\* HybridMemory drops everything at the first line it cannot parse.
ReadStrictly(lines) ==
  IF \E line \in ToSet(lines) : line \in {TornLine, OpenLine} THEN <<>> ELSE Fresh(lines)

\* rebuildFromJsonl and index(): a row goes, the new one comes, by the question.
Indexed(found, entries) ==
  FoldLeft(LAMBDA r, e : [r EXCEPT ![e.ask] = e.answer], found, entries)

Count == Cardinality({q \in Questions : tableRows[q] # Nothing})

Usable(p) == fts[p] /\ table = "ready"

Room == Len(file) < MaxLines /\ Cardinality(learnt) < MaxLines

Idle(p) == phase[p] = "idle"
Alive == {p \in Programs : phase[p] # "off"}

KnowledgeInit ==
  /\ keeper \in {"knowledge", "hybrid"}
  /\ now = 0 /\ file = <<>> /\ temp = Nothing /\ table = "absent"
  /\ tableRows = [q \in Questions |-> Nothing]
  /\ phase = [p \in Programs |-> "off"] /\ fts = [p \in Programs |-> FALSE]
  /\ index = [p \in Programs |-> <<>>]
  /\ crashes = 0 /\ learnt = {} /\ met = FALSE

-----------------------------------------------------------------------------
\* rebuildFromJsonl: the table is told of everything that is loaded.
Rebuilt(works, entries) == IF works THEN Indexed(tableRows, entries) ELSE tableRows

\* The constructor of SqliteStore: the table is only made with the file.
OpenTable(p, bun) ==
  /\ fts' = [fts EXCEPT ![p] = bun]
  /\ table' = IF bun /\ table = "absent" THEN "ready" ELSE table

\* The program starts: the store is read, old entries are dropped, and when
\* there were any the file is to be written anew, unless the table failed.
StartProgram(p, bun) ==
  LET found == IF keeper = "knowledge" THEN Readable(file) ELSE ReadStrictly(file)
      fresh == Fresh(found)
      broken == bun /\ table = "empty" /\ fresh # <<>>
      stale == keeper = "knowledge" /\ Len(fresh) < Len(found) /\ ~broken
  IN /\ phase[p] = "off"
     /\ OpenTable(p, bun)
     /\ index' = [index EXCEPT ![p] = fresh]
     /\ tableRows' = Rebuilt(bun /\ table # "empty", fresh)
     /\ phase' = [phase EXCEPT ![p] = IF stale THEN "write" ELSE "idle"]
     /\ met' = (met \/ Alive # {})
     /\ UNCHANGED <<keeper, now, file, temp, crashes, learnt>>

\* The program is killed while SQLite makes the file, before it has its table.
StartTorn(p) ==
  /\ phase[p] = "off" /\ table = "absent" /\ crashes < MaxCrashes
  /\ table' = "empty" /\ crashes' = crashes + 1
  /\ met' = (met \/ Alive # {})
  /\ UNCHANGED <<keeper, now, file, temp, tableRows, phase, fts, index, learnt>>

\* rewrite(): the copy goes to the temporary file ...
WriteTemp(p) ==
  /\ phase[p] \in {"write", "write, index"}
  /\ temp' = index[p]
  /\ phase' = [phase EXCEPT ![p] = IF @ = "write" THEN "rename" ELSE "rename, index"]
  /\ UNCHANGED <<keeper, now, file, table, tableRows, fts, index, crashes, learnt, met>>

\* ... which takes the place of the file, whoever wrote it last; without it the
\* rename fails and nobody hears of it.  reconcile() goes on to the table.
Rename(p) ==
  /\ phase[p] \in {"rename", "rename, index"}
  /\ file' = IF temp = Nothing THEN file ELSE temp
  /\ temp' = Nothing
  /\ tableRows' = Rebuilt(phase[p] = "rename, index" /\ Usable(p), index[p])
  /\ phase' = [phase EXCEPT ![p] = "idle"]
  /\ UNCHANGED <<keeper, now, table, fts, index, crashes, learnt, met>>

\* An entry is appended and known at once; the table, when it can be reached, too.
Learn(p, e) ==
  /\ file' = Appended(file, e)
  /\ learnt' = IF HasOpenEnd(file) THEN learnt ELSE learnt \cup {e}
  /\ tableRows' = IF Usable(p) THEN Indexed(tableRows, <<e>>) ELSE tableRows

\* store(), from distillAndStore after an error and from the ripple engine: never
\* compared with what is there.  Only a page that was fetched has an expiry date.
Store(p, q, a) ==
  LET e == [ask |-> q, answer |-> a, stamp |-> now, expires |-> Never]
  IN /\ Idle(p) /\ Room
     /\ Learn(p, e)
     /\ index' = [index EXCEPT ![p] = Append(@, e)]
     /\ UNCHANGED <<keeper, now, temp, table, phase, fts, crashes, met>>

\* The tokens of topic and fact overlap by three fifths.
Alike(e, q, a) == e.ask = q /\ e.answer = a

\* storeFacts(), of what the distiller read out of a page: a fact much like one
\* that is known only makes that one younger, in the memory of this process.
StoreFact(p, q, a) ==
  LET e == [ask |-> q, answer |-> a, stamp |-> now, expires |-> now + Month]
      same == {i \in DOMAIN index[p] : Alike(index[p][i], q, a)}
      first == CHOOSE i \in same : \A j \in same : i <= j
  IN /\ keeper = "knowledge" /\ Idle(p) /\ Room
     /\ IF same # {}
        THEN /\ index' = [index EXCEPT ![p][first].stamp = now]
             /\ UNCHANGED <<file, learnt, tableRows>>
        ELSE /\ Learn(p, e)
             /\ index' = [index EXCEPT ![p] = Append(@, e)]
     /\ UNCHANGED <<keeper, now, temp, table, phase, fts, crashes, met>>

\* distillAndStore(): pages that were searched for are read for facts, what was found
\* after an error is kept as it came.
DistillAndStore(p, trigger, q, a) ==
  \/ trigger = "research" /\ StoreFact(p, q, a)
  \/ trigger \in {"error", "uncertainty"} /\ Store(p, q, a)

\* reconcile(), every fifty rounds: old entries are dropped and the file is
\* written anew; without any the table is rebuilt at once.
Reconcile(p) ==
  LET fresh == Fresh(index[p])
  IN /\ keeper = "knowledge" /\ Idle(p)
     /\ index' = [index EXCEPT ![p] = fresh]
     /\ IF Len(fresh) < Len(index[p])
        THEN phase' = [phase EXCEPT ![p] = "write, index"] /\ tableRows' = tableRows
        ELSE tableRows' = Rebuilt(Usable(p), fresh) /\ UNCHANGED phase
     /\ UNCHANGED <<keeper, now, file, temp, table, fts, crashes, learnt, met>>

\* The program ends, or is killed between two calls.
EndProgram(p) ==
  /\ phase[p] # "off"
  /\ phase' = [phase EXCEPT ![p] = "off"] /\ index' = [index EXCEPT ![p] = <<>>]
  /\ UNCHANGED <<keeper, now, file, temp, table, tableRows, fts, crashes, learnt, met>>

\* The program is killed while it appends.
StopTorn(p) ==
  /\ Idle(p) /\ crashes < MaxCrashes /\ Len(file) < MaxLines
  /\ file' = TornAppend(file) /\ crashes' = crashes + 1
  /\ phase' = [phase EXCEPT ![p] = "off"] /\ index' = [index EXCEPT ![p] = <<>>]
  /\ UNCHANGED <<keeper, now, temp, table, tableRows, fts, learnt, met>>

Tick ==
  /\ now < MaxNow /\ now' = now + 1
  /\ UNCHANGED <<keeper, file, temp, table, tableRows, phase, fts, index, crashes, learnt, met>>

KnowledgeNext ==
  \/ Tick
  \/ \E p \in Programs :
       \/ \E bun \in BOOLEAN : StartProgram(p, bun)
       \/ StartTorn(p) \/ WriteTemp(p) \/ Rename(p) \/ Reconcile(p)
       \/ EndProgram(p) \/ StopTorn(p)
       \/ \E q \in Questions, a \in Answers :
            \/ keeper = "hybrid" /\ Store(p, q, a)
            \/ /\ keeper = "knowledge"
               /\ \E t \in {"research", "error"} : DistillAndStore(p, t, q, a)

-----------------------------------------------------------------------------
\* What findRelevant answers to a question: the row of the table, but with the first
\* entry of that question a process happens to hold; without a table, or when it
\* finds nothing, the entries in memory.
FirstKnown(p, q) ==
  LET mine == {i \in DOMAIN index[p] : index[p][i].ask = q}
  IN CHOOSE i \in mine : \A j \in mine : i <= j

Known(p, q) == \E e \in ToSet(index[p]) : e.ask = q

FindRelevant(p, q) ==
  IF Usable(p) /\ Count > 0 /\ tableRows[q] # Nothing
  THEN {IF Known(p, q) THEN index[p][FirstKnown(p, q)].answer ELSE tableRows[q]}
  ELSE {e.answer : e \in {f \in ToSet(index[p]) : f.ask = q}}

\* Nothing that was learned is lost before its time as long as the processes follow
\* one another: a kill in the middle of an append costs that entry and the next, a
\* kill in the middle of a rewrite costs nothing.
KnowledgeKept ==
  ~met => \A e \in learnt : ~Expired(e) =>
    \E r \in ToSet(Entries(file)) : r.ask = e.ask /\ r.answer = e.answer

\* What a process knows it also finds, by the table that others fill at the same time
\* or without one.
Findable ==
  \A p \in Programs, q \in Questions :
    Known(p, q) /\ phase[p] = "idle" => FindRelevant(p, q) # {} /\ (Usable(p) => tableRows[q] # Nothing)

\* "30d unused auto-pruned": no answer that every copy has dropped is served again.
\* Rows are never deleted from the table, so it is, and this does not hold.
NotServedAgain ==
  \A p \in Programs, q \in Questions :
    Idle(p) /\ FindRelevant(p, q) # {} => \E r \in ToSet(Entries(file)) : r.ask = q
=============================================================================
