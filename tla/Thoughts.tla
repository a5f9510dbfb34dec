------------------------------- MODULE Thoughts --------------------------------
(***************************************************************************)
(* What the reasoning of earlier rounds and runs is good for               *)
(* (src/memory/thinking-store.ts with the places of agent/loop.ts that     *)
(* call it): every round that reasoned and every tool result of the kinds  *)
(* that are learned from is recorded; a round starts with the records most *)
(* like the request, every third round asks a cheap model which of them    *)
(* matter; once a run, when the context fills up, the reasoning so far is  *)
(* distilled into insights, which are merged into the cold memory and age  *)
(* there.                                                                  *)
(*                                                                         *)
(* A text stands for itself.  The records file is one that only grows; its *)
(* torn lines are those of the knowledge file and not modelled again.      *)
(***************************************************************************)
EXTENDS Integers, Sequences, FiniteSets, SequencesExt

CONSTANTS
  Requests,     \* what a run is asked
  Outcomes,     \* what a distillation finds: mark -> set of texts
  LongTexts,    \* texts of several sentences
  Hosts,        \* whether the host gives a run the memory the last one left
  Week,         \* how long a record counts as recent
  OpenFor,      \* days an open question is kept,
  WrongFor,     \*   a refuted assumption,
  VerifiedFor,  \*   and a verified finding
  MaxDays,      \* bound of the clock
  MaxRecords,   \* bound of the records
  MaxThoughts,  \* bound of the rounds of a run
  NoAnswer      \* a distillation that failed

ASSUME ThoughtsAssumption ==
  /\ {Week, OpenFor, WrongFor, VerifiedFor, MaxDays, MaxRecords, MaxThoughts} \subseteq Nat
  /\ OpenFor <= WrongFor /\ WrongFor <= VerifiedFor

VARIABLES
  day,
  records,     \* the records file
  recalls,     \* the copy of it in the memory of the program
  carriesOver, \* whether this host hands the memory on
  request,     \* the request of the run, or NoRequest between two runs
  roundOf,     \* the number of the round
  thoughts,    \* how many rounds of the run reasoned
  distilled,   \* whether this run's reasoning was distilled
  cold,        \* the cold memory: entries with a mark, a text and a day
  reminded     \* the records the round starts with

thoughtVars ==
  <<day, records, recalls, carriesOver, request, roundOf, thoughts, distilled, cold, reminded>>

NoRequest == ""  \* between two runs

Chain(query) == [kind |-> "thinking_chain", query |-> query, stamp |-> day]
ToolResult(query) == [kind |-> "tool_result", query |-> query, stamp |-> day]
Insight == [kind |-> "compressed_insight", query |-> "Compressed", stamp |-> day]

----------------------------------------------------------------------------
(* Finding records.  The words of a request say whether it is like another one;     *)
(* a record of the last week is worth something whatever it is about.               *)

Score(record, query) ==
  (IF record.query = query THEN 2 * Week ELSE 0)
  + (IF day - record.stamp < Week THEN Week - (day - record.stamp) ELSE 0)

\* Mutant: the records are taken in the order they were written.
AsWritten(query) == SelectSeq(recalls, LAMBDA r : Score(r, query) > 0)

Scores(query) == [i \in DOMAIN recalls |-> Score(recalls[i], query)]

\* Places of the records worth something, and which of them come before another one: the
\* better ones, of equals those written earlier.
Worth(score) == {i \in DOMAIN score : score[i] > 0}
Ahead(score, j) ==
  {i \in Worth(score) : score[i] > score[j] \/ (score[i] = score[j] /\ i < j)}

\* The best ones first.
Ranked(query) ==
  LET score == Scores(query)
      worth == Worth(score)
  IN [k \in 1..Cardinality(worth) |->
        recalls[CHOOSE j \in worth : Cardinality(Ahead(score, j)) = k - 1]]

Topmost(list, most) == SubSeq(list, 1, IF Len(list) < most THEN Len(list) ELSE most)

FindSimilar(query, most) == Topmost(Ranked(query), most)

\* The cheap model rates the candidates; with no good one the ranking stands.
FindSimilarSemantic(query, ratings) ==
  LET coarse == FindSimilar(query, 15)
      good   == SelectSeq([i \in 1..Len(coarse) |-> [record |-> coarse[i], rating |-> ratings[i]]],
                          LAMBDA x : x.rating >= 6)
      best   == SortSeq(good, LAMBDA a, b : a.rating > b.rating)
  IN IF Len(coarse) <= 3 \/ good = <<>> THEN Topmost(coarse, 5)
     ELSE Topmost([i \in 1..Len(best) |-> best[i].record], 5)

\* What is shown of them is the reasoning, never a tool result or an insight.
FormatForVolatileContext(found) ==
  Topmost(SelectSeq(found, LAMBDA r : r.kind = "thinking_chain"), 3)

----------------------------------------------------------------------------
(* The cold memory.                                                                 *)

Marks == {"verified", "discarded", "insight", "open"}

Entry(mark, text) == [mark |-> mark, text |-> text, day |-> day]

NewEntries(out) == UNION {{Entry(m, t) : t \in out[m]} : m \in Marks}

\* An entry is compared by its phrases: the stamp belongs to the only phrase of a short
\* one, so that a short text never matches the entry it made on another day.
Phrase(entry) ==
  <<entry.mark, entry.text, IF entry.text \in LongTexts THEN 0 ELSE entry.day>>

\* Mutant: every entry is given the time of an open question.
AgesAlike(entry) == day - entry.day > OpenFor

Decayed(entry) ==
  \/ entry.mark = "open" /\ day - entry.day > OpenFor
  \/ entry.mark = "verified" /\ day - entry.day > VerifiedFor
  \/ entry.mark = "discarded" /\ day - entry.day > WrongFor

\* Open questions of an earlier day the distillation does not speak of any more.
Settled(entries, out) ==
  {e.text : e \in {x \in entries : x.mark = "open"
       /\ x.text \notin out["verified"] \cup out["insight"] \cup out["open"]
       /\ ~\E y \in entries : y.mark = "open" /\ y.text = x.text /\ y.day = day}}

MergeCompressedInsights(entries, out) ==
  LET fresh  == {Phrase(e) : e \in NewEntries(out)}
      known  == {Phrase(e) : e \in entries}
  IN IF fresh = {} \/ 5 * Cardinality(fresh \cap known) > 4 * Cardinality(fresh)
     THEN entries
     ELSE {e \in entries : ~Decayed(e)}
          \cup {Entry("resolved", t) : t \in Settled(entries, out)}
          \cup NewEntries(out)

----------------------------------------------------------------------------
ThoughtsInit ==
  /\ day = 0 /\ records = <<>> /\ recalls = <<>>
  /\ carriesOver \in Hosts
  /\ request = NoRequest /\ roundOf = 0 /\ thoughts = 0 /\ distilled = FALSE
  /\ cold = {} /\ reminded = <<>>

\* A run begins with an empty cold memory unless its host hands on the last one.
BeginRun(query) ==
  /\ request = NoRequest
  /\ request' = query
  /\ cold' = IF carriesOver THEN cold ELSE {}
  /\ UNCHANGED <<day, records, recalls, carriesOver, roundOf, thoughts, distilled, reminded>>

\* What the cheap model made of the reasoning: nothing when it answered no JSON.
CompactThinkingChain(answer) ==
  [success |-> answer # NoAnswer,
   output  |-> IF answer = NoAnswer THEN [m \in Marks |-> {}] ELSE answer]

\* The rounds of the run that reasoned, the one that ends among them.
CollectThinkingRounds(reasons) == thoughts + (IF reasons THEN 1 ELSE 0)

\* Reasoning is distilled once a run, when the context fills up and two rounds reasoned.
Distils(crowded, rounds) == ~distilled /\ crowded /\ rounds >= 2

\* The records a round leaves: its reasoning, the results learned from, the insights.
Written(reasons, learns, distils) ==
  (IF reasons THEN <<Chain(request)>> ELSE <<>>)
  \o (IF learns THEN <<ToolResult(request)>> ELSE <<>>)
  \o (IF distils THEN <<Insight>> ELSE <<>>)

\* A round: it starts with what is like the request, records what it did, and may distil.
\* A distillation that fails is tried again by the next round.
TakeRound(reasons, learns, crowded, answer) ==
  LET rounds  == CollectThinkingRounds(reasons)
      result  == CompactThinkingChain(answer)
      distils == Distils(crowded, rounds) /\ result.success
      lines   == Written(reasons, learns, distils)
  IN /\ request # NoRequest /\ roundOf < MaxThoughts
     /\ Len(records) + Len(lines) <= MaxRecords
     /\ reminded' = IF roundOf > 0 THEN FindSimilar(request, 3) ELSE <<>>
     /\ records' = records \o lines
     /\ recalls' = recalls \o lines
     /\ thoughts' = rounds
     /\ distilled' = (distilled \/ distils)
     /\ cold' = IF distils THEN MergeCompressedInsights(cold, result.output) ELSE cold
     /\ roundOf' = roundOf + 1
     /\ UNCHANGED <<day, carriesOver, request>>

\* Every third round: the chains among the records the cheap model kept are shown.
Recall(ratings) ==
  /\ request # NoRequest /\ roundOf > 1 /\ (roundOf - 1) % 3 = 0
  /\ reminded' = FormatForVolatileContext(FindSimilarSemantic(request, ratings))
  /\ UNCHANGED <<day, records, recalls, carriesOver, request, roundOf, thoughts, distilled, cold>>

EndRun ==
  /\ request # NoRequest
  /\ request' = NoRequest /\ roundOf' = 0 /\ thoughts' = 0 /\ distilled' = FALSE /\ reminded' = <<>>
  /\ UNCHANGED <<day, records, recalls, carriesOver, cold>>

\* Another program of the same user records its own reasoning.
OtherRecords(query) ==
  /\ request = NoRequest /\ Len(records) < MaxRecords
  /\ records' = Append(records, Chain(query))
  /\ UNCHANGED <<day, recalls, carriesOver, request, roundOf, thoughts, distilled, cold, reminded>>

\* The program starts again: it reads the file, the cold memory of its host is gone.
OpenThoughts ==
  /\ recalls' = records
  /\ request' = NoRequest /\ roundOf' = 0 /\ thoughts' = 0 /\ distilled' = FALSE
  /\ cold' = {} /\ reminded' = <<>>
  /\ UNCHANGED <<day, records, carriesOver>>

NextDay ==
  /\ request = NoRequest /\ day < MaxDays /\ day' = day + 1
  /\ UNCHANGED <<records, recalls, carriesOver, request, roundOf, thoughts, distilled, cold, reminded>>

\* A record is rated below or above the mark of 6.
Ratings == [1..Len(recalls) -> {3, 8}]

ThoughtsNext ==
  \/ \E query \in Requests : BeginRun(query) \/ OtherRecords(query)
  \/ \E reasons, learns, crowded \in BOOLEAN, answer \in Outcomes \cup {NoAnswer} :
       TakeRound(reasons, learns, crowded, answer)
  \/ \E ratings \in Ratings : Recall(ratings)
  \/ EndRun
  \/ OpenThoughts
  \/ NextDay

----------------------------------------------------------------------------
Lifetime == [open |-> OpenFor, discarded |-> WrongFor, verified |-> VerifiedFor]

\* What was found out lasts: while a run goes on, an entry of the cold memory leaves it
\* only when the time of its mark is over (thinking-store.ts:167-175), whatever is merged
\* into it; insights and settled questions stay.
ColdMemoryAges ==
  [][request # NoRequest /\ request' # NoRequest =>
       \A e \in cold \ cold' :
         e.mark \in DOMAIN Lifetime /\ day - e.day > Lifetime[e.mark]]_thoughtVars

\* A run is reminded of the best: a round starts with three records, and no
\* record that was left out is more like the request or as like it and younger.
BestIsRecalled ==
  [][(request # NoRequest /\ roundOf > 0 /\ roundOf' = roundOf + 1) =>
       \A r \in Range(recalls) \ Range(reminded') :
         IF Len(reminded') < 3 THEN Score(r, request) = 0
         ELSE \A s \in Range(reminded') : Score(s, request) >= Score(r, request)]_thoughtVars

\* The comment on the merge (thinking-store.ts:170-171) says an open question whose time is
\* over is degraded to a refuted one and a verified finding to an insight.  It does not
\* hold: both are dropped.
AgedIsDegraded ==
  [][request # NoRequest => \A e \in cold \ cold' :
       request' = NoRequest \/ (\E x \in cold' : x.text = e.text)]_thoughtVars

\* The reminder says the insights were stored in the cold memory (loop.ts:1715).  It does
\* not hold: both front ends give the next run a memory without them.
InsightsOutliveRun ==
  [][(request = NoRequest /\ request' # NoRequest) => cold \subseteq cold']_thoughtVars
=============================================================================
