---------------------------- MODULE SessionProofs ----------------------------
(***************************************************************************)
(* Proofs about what a session keeps and sends.                            *)
(***************************************************************************)
EXTENDS MCSessions, SequenceTheorems, FiniteSetTheorems, WellFoundedInduction, TLAPS

(* A set of natural numbers that has a member has a least one.             *)
LEMMA LeastExists ==
  ASSUME NEW S \in SUBSET Nat, S # {}
  PROVE  \E x \in S : \A y \in S : x <= y
<1> DEFINE below == {p \in Nat \X Nat : p[1] < p[2]}
<1>1. IsWellFoundedOn(below, Nat)
  BY NatLessThanWellFounded, Zenon DEF OpToRel
<1>2. \A x, y \in Nat : y < x => <<y, x>> \in below
  OBVIOUS
<1> HIDE DEF below
<1>3. \E x \in S : \A y \in S : ~ (<<y, x>> \in below)
  BY <1>1, WFMin
<1>4. PICK x \in S : \A y \in S : ~ (<<y, x>> \in below)
  BY <1>3
<1>5. \A y \in S : ~ (y < x)
  BY <1>2, <1>4
<1> QED
  BY <1>4, <1>5

LEMMA FirstIsLeast ==
  ASSUME NEW S \in SUBSET Nat, S # {}
  PROVE  First(S) \in S /\ \A y \in S : First(S) <= y
BY LeastExists DEF First

(* What stands in two sequences that are joined.                           *)
LEMMA JoinedRows ==
  ASSUME NEW S, NEW a \in Seq(S), NEW b \in Seq(S)
  PROVE  a \o b \in Seq(S) /\ ToSet(a \o b) = ToSet(a) \cup ToSet(b)
<1> DEFINE m == a \o b
<1>1. /\ m \in Seq(S) /\ DOMAIN m = 1..(Len(a) + Len(b))
      /\ Len(a) \in Nat /\ Len(b) \in Nat /\ DOMAIN a = 1..Len(a) /\ DOMAIN b = 1..Len(b)
      /\ \A i \in 1..(Len(a) + Len(b)) : m[i] = IF i <= Len(a) THEN a[i] ELSE b[i - Len(a)]
  BY ConcatProperties
<1> HIDE DEF m
<1>2. ASSUME NEW x \in ToSet(m) PROVE x \in ToSet(a) \cup ToSet(b)
  <2>1. PICK i \in 1..(Len(a) + Len(b)) : x = m[i]
    BY <1>1, <1>2 DEF ToSet
  <2>2. CASE i <= Len(a)
    BY <1>1, <2>1, <2>2 DEF ToSet
  <2>3. CASE ~(i <= Len(a))
    <3>1. i - Len(a) \in DOMAIN b
      BY <1>1, <2>3
    <3> QED
      BY <1>1, <2>1, <2>3, <3>1 DEF ToSet
  <2> QED
    BY <2>2, <2>3
<1>3. ASSUME NEW x \in ToSet(a) PROVE x \in ToSet(m)
  <2>1. PICK i \in 1..Len(a) : x = a[i]
    BY <1>1, <1>3 DEF ToSet
  <2>2. i \in DOMAIN m /\ m[i] = a[i]
    BY <1>1
  <2> QED
    BY <2>1, <2>2 DEF ToSet
<1>4. ASSUME NEW x \in ToSet(b) PROVE x \in ToSet(m)
  <2>1. PICK i \in 1..Len(b) : x = b[i]
    BY <1>1, <1>4 DEF ToSet
  <2>2. /\ Len(a) + i \in 1..(Len(a) + Len(b)) /\ ~(Len(a) + i <= Len(a))
        /\ (Len(a) + i) - Len(a) = i
    BY <1>1
  <2>3. Len(a) + i \in DOMAIN m /\ m[Len(a) + i] = b[i]
    BY <1>1, <2>2
  <2> QED
    BY <2>1, <2>3 DEF ToSet
<1>5. ToSet(m) = ToSet(a) \cup ToSet(b)
  BY <1>2, <1>3, <1>4
<1> QED
  BY <1>1, <1>5 DEF m

LEMMA PartsAreSeqs ==
  ASSUME NEW S, NEW s \in Seq(S), NEW a \in Nat \ {0}, NEW b \in Int, b <= Len(s)
  PROVE  SubSeq(s, a, b) \in Seq(S)
<1>1. \A i \in a..b : s[i] \in S
  OBVIOUS
<1> QED
  BY <1>1, SubSeqProperties

LEMMA SizeOfNothing == Size(<<>>) = 0
<1> DEFINE upTo[i \in 0..Len(<<>>)] == IF i = 0 THEN 0 ELSE upTo[i - 1] + <<>>[i].size
<1>1. 0..Len(<<>>) = {0}
  OBVIOUS
<1>2. upTo = [i \in 0..Len(<<>>) |-> IF i = 0 THEN 0 ELSE upTo[i - 1] + <<>>[i].size]
  <2> DEFINE none == [i \in 0..Len(<<>>) |-> 0]
  <2>1. none = [i \in 0..Len(<<>>) |-> IF i = 0 THEN 0 ELSE none[i - 1] + <<>>[i].size]
    BY <1>1
  <2> QED
    BY <2>1
<1>3. Size(<<>>) = upTo[Len(<<>>)]
  BY DEF Size
<1> QED
  BY <1>1, <1>2, <1>3

----------------------------------------------------------------------------
(* The transcript.  Whatever is sent is made of pieces in which every call  *)
(* is answered by the message that follows it; only between a reply and    *)
(* its results the last message of a run may wait.                         *)

CallSets == {c \in SUBSET (Nat \X Nat) : IsFiniteSet(c)}

Turn == {t \in [role : {"system", "user", "assistant"}, uses : CallSets, results : CallSets,
                size : Nat] : t.uses = {} \/ t.results = {}}

Closed(m) ==
  \A i \in DOMAIN m : m[i].uses # {} => i < Len(m) /\ m[i + 1].results = m[i].uses

ClosedButLast(m) ==
  \A i \in DOMAIN m : m[i].uses # {} /\ i < Len(m) => m[i + 1].results = m[i].uses

Transcripts == {m \in Seq(Turn) : Closed(m)}

LEMMA PairsAreFinite ==
  ASSUME NEW r, NEW n \in Nat
  PROVE  IsFiniteSet({<<r, k>> : k \in 1..n})
<1> DEFINE f == [k \in 1..n |-> <<r, k>>]
<1>1. f \in Surjection(1..n, {<<r, k>> : k \in 1..n})
  BY DEF Surjection
<1>2. IsFiniteSet(1..n)
  BY FS_Interval
<1> QED
  BY <1>1, <1>2, FS_Surjection

LEMMA TranscriptsJoin ==
  ASSUME NEW a \in Transcripts, NEW b \in Transcripts
  PROVE  a \o b \in Transcripts
<1> DEFINE m == a \o b
<1>1. a \in Seq(Turn) /\ b \in Seq(Turn) /\ Closed(a) /\ Closed(b)
  BY DEF Transcripts
<1>2. /\ m \in Seq(Turn) /\ Len(m) = Len(a) + Len(b) /\ DOMAIN m = 1..(Len(a) + Len(b))
      /\ Len(a) \in Nat /\ Len(b) \in Nat /\ DOMAIN a = 1..Len(a) /\ DOMAIN b = 1..Len(b)
      /\ \A i \in 1..(Len(a) + Len(b)) : m[i] = IF i <= Len(a) THEN a[i] ELSE b[i - Len(a)]
  BY <1>1, ConcatProperties
<1> HIDE DEF m
<1>3. ASSUME NEW i \in DOMAIN m, m[i].uses # {}
      PROVE  i < Len(m) /\ m[i + 1].results = m[i].uses
  <2>1. CASE i <= Len(a)
    <3>1. i \in DOMAIN a /\ m[i] = a[i]
      BY <1>2, <2>1
    <3>2. i < Len(a) /\ a[i + 1].results = a[i].uses
      BY <1>1, <1>3, <3>1 DEF Closed
    <3>3. m[i + 1] = a[i + 1] /\ i < Len(m)
      BY <1>2, <3>1, <3>2
    <3> QED
      BY <3>1, <3>2, <3>3
  <2>2. CASE ~(i <= Len(a))
    <3>1. i - Len(a) \in DOMAIN b /\ m[i] = b[i - Len(a)]
      BY <1>2, <2>2
    <3>2. i - Len(a) < Len(b) /\ b[(i - Len(a)) + 1].results = b[i - Len(a)].uses
      BY <1>1, <1>3, <3>1 DEF Closed
    <3>3. m[i + 1] = b[(i - Len(a)) + 1] /\ i < Len(m)
      <4>1. i + 1 \in 1..(Len(a) + Len(b)) /\ ~(i + 1 <= Len(a))
            /\ (i + 1) - Len(a) = (i - Len(a)) + 1
        BY <1>2, <2>2, <3>2
      <4> QED
        BY <1>2, <4>1
    <3> QED
      BY <3>1, <3>2, <3>3
  <2> QED
    BY <2>1, <2>2
<1> QED
  BY <1>2, <1>3 DEF Closed, Transcripts, m

LEMMA TranscriptsEnd ==
  ASSUME NEW m \in Transcripts, NEW k \in 1..(Len(m) + 1)
  PROVE  SubSeq(m, k, Len(m)) \in Transcripts
<1> DEFINE n == Len(m)  t == SubSeq(m, k, n)
<1>1. /\ m \in Seq(Turn) /\ Closed(m) /\ n \in Nat /\ k \in Nat /\ DOMAIN m = 1..n
      /\ \A i \in k..n : m[i] \in Turn
  BY DEF Transcripts
<1>2. /\ t \in Seq(Turn) /\ Len(t) = IF k <= n THEN n - k + 1 ELSE 0
      /\ \A i \in 1..(n - k + 1) : t[i] = m[k + i - 1]
  BY <1>1, SubSeqProperties
<1> HIDE DEF t, n
<1>3. ASSUME NEW i \in DOMAIN t, t[i].uses # {}
      PROVE  i < Len(t) /\ t[i + 1].results = t[i].uses
  <2>1. DOMAIN t = 1..Len(t) /\ Len(t) = n - k + 1 /\ i \in Nat
    BY <1>1, <1>2
  <2>2. k + i - 1 \in DOMAIN m /\ t[i] = m[k + i - 1]
    BY <1>1, <1>2, <2>1
  <2>3. k + i - 1 < n /\ m[(k + i - 1) + 1].results = t[i].uses
    BY <1>1, <1>3, <2>2 DEF Closed, n
  <2>4. i + 1 \in 1..(n - k + 1) /\ k + (i + 1) - 1 = (k + i - 1) + 1
    BY <1>1, <2>1, <2>3
  <2> QED
    BY <1>2, <2>1, <2>3, <2>4
<1> QED
  BY <1>2, <1>3 DEF Closed, Transcripts, t, n

LEMMA PlainTranscripts ==
  ASSUME NEW m \in Seq(Turn), \A i \in DOMAIN m : m[i].uses = {}
  PROVE  m \in Transcripts
BY DEF Transcripts, Closed

LEMMA TextTranscripts ==
  ASSUME NEW role \in {"system", "user", "assistant"}, NEW size \in Nat
  PROVE  <<Text(role, size)>> \in Transcripts /\ <<>> \in Transcripts
<1>1. Text(role, size) \in Turn /\ Text(role, size).uses = {}
  BY FS_EmptySet DEF Text, Turn, CallSets
<1> DEFINE one == <<Text(role, size)>>  none == <<>>
<1>2. one \in Seq(Turn) /\ \A i \in DOMAIN one : one[i].uses = {}
  BY <1>1
<1>3. none \in Seq(Turn) /\ \A i \in DOMAIN none : none[i].uses = {}
  OBVIOUS
<1> HIDE DEF one, none
<1>4. one \in Transcripts /\ none \in Transcripts
  BY <1>2, <1>3, PlainTranscripts
<1> QED
  BY <1>4 DEF one, none

(* selectRecentHistoryWithinBudget: a conversation has no calls.           *)
LEMMA SelectedHasNoCalls ==
  ASSUME NEW history \in Histories
  PROVE  Selected(history) \in Transcripts
<1> DEFINE n == Len(history)
           fits == {i \in 1..n + 1 : n + 1 - i <= HistoryMessages
                                     /\ Size(SubSeq(history, i, n)) <= HistoryBudget}
           from == First(fits)
           openings == {i \in from..n : history[i].role = "user"}
           OldTurns == [role : {"user", "assistant"}, uses : {{}}, results : {{}}, size : Nat]
<1>1. /\ history \in Seq(OldTurns) /\ n \in Nat /\ DOMAIN history = 1..n
      /\ \A i \in 1..n : history[i] \in OldTurns
  <2>1. history \in Seq(OldTurns)
    BY HistoriesAssumption
  <2> HIDE DEF OldTurns
  <2> QED
    BY <2>1
<1>2. \A t \in OldTurns : t \in Turn /\ t.uses = {}
  BY FS_EmptySet DEF Turn, CallSets
<1>3. <<>> \in Transcripts
  BY TextTranscripts, PlainTranscripts
<1>4. ASSUME openings # {}
      PROVE  SubSeq(history, First(openings), n) \in Transcripts
  <2>1. n + 1 \in fits
    <3>1. SubSeq(history, n + 1, n) = <<>>
      BY <1>1, SubSeqEmpty
    <3>4. 0 <= HistoryBudget
      BY SizesAssumption
    <3>2. Size(SubSeq(history, n + 1, n)) <= HistoryBudget
      BY <3>1, <3>4, SizeOfNothing
    <3> HIDE DEF n
    <3>3. n + 1 - (n + 1) <= HistoryMessages
      BY <1>1, SizesAssumption
    <3> QED
      BY <1>1, <3>2, <3>3
  <2>2. fits \in SUBSET Nat /\ fits \subseteq 1..n + 1
    BY <1>1
  <2> HIDE DEF fits
  <2>3. from \in fits
    BY <2>1, <2>2, FirstIsLeast
  <2> HIDE DEF from
  <2>4. openings \in SUBSET Nat /\ openings \subseteq 1..n
    BY <1>1, <2>2, <2>3
  <2> HIDE DEF openings
  <2>5. First(openings) \in openings
    BY <1>4, <2>4, FirstIsLeast
  <2> HIDE DEF OldTurns, n
  <2> DEFINE k == First(openings)  t == SubSeq(history, k, n)
  <2>6. k \in 1..n
    BY <2>4, <2>5
  <2> HIDE DEF k
  <2>7. \A i \in k..n : history[i] \in OldTurns
    BY <1>1, <2>6
  <2>8. t \in Seq(OldTurns)
    BY <1>1, <2>6, <2>7, SubSeqProperties
  <2> HIDE DEF t
  <2>9. t \in Seq(Turn) /\ \A i \in DOMAIN t : t[i].uses = {}
    BY <2>8, <1>2
  <2> QED
    BY <2>9, PlainTranscripts DEF t, k
<1> QED
  BY <1>3, <1>4 DEF Selected

(* epochRollover keeps the end of the transcript.                          *)
LEMMA RetainedIsAnEnd ==
  ASSUME NEW m \in Transcripts
  PROVE  Retained(m) \in Transcripts
<1> DEFINE n == Len(m)
           enough == {i \in Assistants(m) :
                        Cardinality({j \in Assistants(m) : j >= i}) = KeepRecent}
           cut == IF enough = {} THEN n + 1 ELSE First(enough)
           from == IF n + 1 - cut >= 2 THEN cut ELSE IF n >= 2 THEN n - 1 ELSE 1
<1>1. m \in Seq(Turn) /\ n \in Nat /\ DOMAIN m = 1..n
  BY DEF Transcripts
<1>2. enough \in SUBSET Nat /\ enough \subseteq 1..n
  BY <1>1 DEF Assistants
<1> HIDE DEF enough
<1>3. enough # {} => First(enough) \in enough
  BY <1>2, FirstIsLeast
<1>4. cut \in 1..(n + 1)
  <2>1. CASE enough = {}
    BY <1>1, <2>1
  <2>2. CASE enough # {}
    <3>1. First(enough) \in 1..n
      BY <1>2, <1>3, <2>2
    <3> QED
      BY <1>1, <2>2, <3>1
  <2> QED
    BY <2>1, <2>2
<1> HIDE DEF cut
<1>5. from \in 1..(n + 1)
  BY <1>1, <1>4
<1> HIDE DEF from
<1>6. SubSeq(m, from, n) \in Transcripts
  BY <1>5, TranscriptsEnd
<1> QED
  BY <1>6 DEF Retained, from, cut, enough

LEMMA RolledIsATranscript ==
  ASSUME NEW m \in Transcripts
  PROVE  Rolled(m) \in Transcripts
<1>1. <<Preamble>> \in Transcripts
  BY TextTranscripts DEF Preamble, Small
<1>2. <<Preamble>> \o Retained(m) \in Transcripts
  BY <1>1, RetainedIsAnEnd, TranscriptsJoin
<1> QED
  BY <1>2 DEF Rolled

LEMMA RequestIsATranscript ==
  ASSUME NEW m \in Transcripts, NEW mode
  PROVE  Request(m, mode) \in Transcripts
<1> DEFINE rest == IF mode = "degraded" THEN <<Text("user", Small)>> ELSE <<>>
<1>1. <<Text("user", Context)>> \in Transcripts
  BY TextTranscripts, SizesAssumption
<1>2. rest \in Transcripts
  BY TextTranscripts DEF Small
<1> HIDE DEF rest
<1>3. <<Text("user", Context)>> \o m \in Transcripts
  BY <1>1, TranscriptsJoin
<1>4. (<<Text("user", Context)>> \o m) \o rest \in Transcripts
  BY <1>2, <1>3, TranscriptsJoin
<1> QED
  BY <1>4 DEF Request, rest

TranscriptInv ==
  /\ round \in Nat
  /\ pc \in {"top", "reply", "after"} => raw \in Transcripts
  /\ pc = "tools" => raw \in Seq(Turn) /\ raw # <<>> /\ ClosedButLast(raw)
  /\ sent \in Transcripts

LEMMA TranscriptInvInit == TranscriptInit => TranscriptInv
<1>1. <<>> \in Transcripts
  BY TextTranscripts
<1> QED
  BY <1>1 DEF TranscriptInit, TranscriptInv

(* The next round, or the end.                                             *)
LEMMA AnotherKeeps ==
  ASSUME TranscriptInv, NEW m \in Transcripts, Another(m), sent' = sent
  PROVE  TranscriptInv'
BY DEF TranscriptInv, Another

LEMMA FinishKeeps ==
  ASSUME TranscriptInv, NEW why, Finish(why), sent' = sent
  PROVE  TranscriptInv'
BY DEF TranscriptInv, Finish

LEMMA NotesAreTranscripts ==
  ASSUME NEW condense, NEW recall
  PROVE  Note(recall) \in Transcripts /\ Notes(condense, recall) \in Transcripts
<1>1. \A said : Note(said) \in Transcripts
  BY TextTranscripts DEF Note, Small
<1> QED
  BY <1>1, TranscriptsJoin DEF Notes

LEMMA TranscriptInvNext ==
  ASSUME TranscriptInv, [TranscriptNext]_transcriptVars
  PROVE  TranscriptInv'
<1> DEFINE user == <<Text("user", Small)>>
<1>1. user \in Transcripts /\ <<>> \in Transcripts
  BY TextTranscripts DEF Small
<1>2. \A size \in Replies : <<Text("assistant", size)>> \in Transcripts
  BY TextTranscripts, SizesAssumption
<1> HIDE DEF user
<1>3. CASE StartRun
  <2>1. PICK history \in Histories, size \in Prompts, hooked, greeted \in BOOLEAN :
          raw' = Selected(history) \o Injected(hooked) \o Injected(greeted) \o <<Text("user", size)>>
    BY <1>3 DEF StartRun
  <2>2. /\ \A said \in BOOLEAN : Injected(said) \in Transcripts
        /\ <<Text("user", size)>> \in Transcripts
    BY TextTranscripts, SizesAssumption DEF Small, Injected
  <2>3. Selected(history) \o Injected(hooked) \o Injected(greeted) \in Transcripts
    BY <2>2, SelectedHasNoCalls, TranscriptsJoin
  <2>4. raw' \in Transcripts
    BY <2>1, <2>2, <2>3, TranscriptsJoin
  <2> QED
    BY <1>1, <1>3, <2>4 DEF StartRun, TranscriptInv
<1>4. CASE Ask
  <2> DEFINE stays == Rolled(raw)
             mode == BudgetMode(System + Context + Size(stays))
             warn == action' = "forceCompress" /\ ~warned
  <2>1. stays \in Transcripts
    BY <1>4, RolledIsATranscript DEF Ask, TranscriptInv
  <2>2. Request(stays, mode) \in Transcripts
    BY <2>1, RequestIsATranscript
  <2>3. Append(stays, Text("user", Small)) \in Transcripts
    <3>1. stays \in Seq(Turn) /\ Text("user", Small) \in Turn
      BY <2>1, FS_EmptySet DEF Transcripts, Text, Turn, CallSets, Small
    <3>2. Append(stays, Text("user", Small)) = stays \o user
      BY <3>1, AppendIsConcat DEF user
    <3> QED
      BY <1>1, <2>1, <3>2, TranscriptsJoin
  <2>4. UNCHANGED round
    BY <1>4 DEF Ask
  <2>5. CASE mode = "block"
    <3>1. pc' = "idle" /\ UNCHANGED sent
      BY <1>4, <2>5 DEF Ask
    <3> QED
      BY <2>4, <3>1 DEF TranscriptInv
  <2>6. CASE mode # "block"
    <3>1. /\ pc' = "reply" /\ sent' = Request(stays, mode)
          /\ raw' = IF warn THEN Append(stays, Text("user", Small)) ELSE stays
      BY <1>4, <2>6 DEF Ask
    <3>2. raw' \in Transcripts
      BY <2>1, <2>3, <3>1
    <3> QED
      BY <2>2, <2>4, <3>1, <3>2 DEF TranscriptInv
  <2> QED
    BY <2>5, <2>6
<1>5. CASE StreamFails
  <2>1. CASE \E why : Finish(why)
    BY <1>5, <2>1, FinishKeeps DEF StreamFails
  <2>2. ASSUME NEW size \in Replies, NEW said \in BOOLEAN,
               Another(raw \o (IF said THEN <<Text("assistant", size)>> ELSE <<>>)
                           \o <<Text("user", Small)>>)
        PROVE  TranscriptInv'
    <3> DEFINE begun == IF said THEN <<Text("assistant", size)>> ELSE <<>>
    <3>1. raw \in Transcripts /\ begun \in Transcripts /\ sent' = sent
      BY <1>1, <1>2, <1>5 DEF StreamFails, TranscriptInv
    <3> HIDE DEF begun
    <3>2. raw \o begun \in Transcripts
      BY <3>1, TranscriptsJoin
    <3>3. (raw \o begun) \o user \in Transcripts
      BY <1>1, <3>2, TranscriptsJoin
    <3>4. Another((raw \o begun) \o user)
      BY <2>2 DEF begun, user
    <3> QED
      BY <3>1, <3>3, <3>4, AnotherKeeps
  <2> QED
    BY <1>5, <2>1, <2>2 DEF StreamFails
<1>6. CASE TextReply
  <2>1. CASE \E why : Finish(why)
    BY <1>6, <2>1, FinishKeeps DEF TextReply
  <2>2. ASSUME NEW said \in {<<>>} \cup {<<Text("assistant", size)>> : size \in Replies},
               Another(raw \o said \o <<Text("user", Small)>>)
        PROVE  TranscriptInv'
    <3>1. raw \in Transcripts /\ said \in Transcripts /\ sent' = sent
      BY <1>1, <1>2, <1>6 DEF TextReply, TranscriptInv
    <3>2. raw \o said \in Transcripts
      BY <3>1, TranscriptsJoin
    <3>3. (raw \o said) \o user \in Transcripts
      BY <1>1, <3>2, TranscriptsJoin
    <3>4. Another((raw \o said) \o user)
      BY <2>2 DEF user
    <3> QED
      BY <3>1, <3>3, <3>4, AnotherKeeps
  <2> QED
    BY <1>6, <2>1, <2>2 DEF TextReply
<1>7. CASE ToolReply
  <2>1. PICK n \in 1..MaxCalls, size \in Replies :
          raw' = Append(raw, [role |-> "assistant", uses |-> {<<round, k>> : k \in 1..n},
                              results |-> {}, size |-> size])
    BY <1>7 DEF ToolReply
  <2> DEFINE call == [role |-> "assistant", uses |-> {<<round, k>> : k \in 1..n},
                      results |-> {}, size |-> size]
  <2>2. raw \in Seq(Turn) /\ Closed(raw) /\ round \in Nat
    BY <1>7 DEF ToolReply, TranscriptInv, Transcripts
  <2>3. call \in Turn
    <3>1. {<<round, k>> : k \in 1..n} \in SUBSET (Nat \X Nat)
      BY <2>2, TranscriptBoundsAssumption
    <3>2. IsFiniteSet({<<round, k>> : k \in 1..n})
      <4>1. n \in Nat
        BY TranscriptBoundsAssumption
      <4> QED
        BY <4>1, PairsAreFinite
    <3> QED
      BY <3>1, <3>2, FS_EmptySet, SizesAssumption DEF Turn, CallSets
  <2> HIDE DEF call
  <2>4. /\ raw' \in Seq(Turn) /\ raw' # <<>> /\ Len(raw') = Len(raw) + 1 /\ Len(raw) \in Nat
        /\ DOMAIN raw' = 1..(Len(raw) + 1) /\ \A i \in 1..Len(raw) : raw'[i] = raw[i]
    BY <2>1, <2>2, <2>3 DEF call
  <2>5. ClosedButLast(raw')
    <3> SUFFICES ASSUME NEW i \in DOMAIN raw', raw'[i].uses # {}, i < Len(raw')
                 PROVE  raw'[i + 1].results = raw'[i].uses
      BY DEF ClosedButLast
    <3>1. i \in DOMAIN raw /\ raw'[i] = raw[i]
      BY <2>2, <2>4
    <3>2. i < Len(raw) /\ raw[i + 1].results = raw[i].uses
      BY <2>2, <3>1 DEF Closed
    <3> QED
      BY <2>4, <3>1, <3>2
  <2> QED
    BY <1>7, <2>2, <2>4, <2>5 DEF ToolReply, TranscriptInv
<1>8. CASE RunTools
  <2>1. CASE \E why : Finish(why)
    BY <1>8, <2>1, FinishKeeps DEF RunTools
  <2>2. ASSUME NEW executed \in SUBSET Last(raw).uses, NEW size \in Nat,
               raw' = Append(raw, [role |-> "user", uses |-> {},
                                   results |-> Answered(Last(raw).uses, executed), size |-> size])
        PROVE  raw' \in Transcripts
    <3> DEFINE answer == [role |-> "user", uses |-> {},
                          results |-> Answered(Last(raw).uses, executed), size |-> size]
    <3>1. /\ raw \in Seq(Turn) /\ raw # <<>> /\ ClosedButLast(raw)
          /\ Len(raw) \in Nat \ {0} /\ Last(raw) = raw[Len(raw)] /\ Last(raw) \in Turn
      BY <1>8 DEF RunTools, TranscriptInv, Last
    <3>2. answer.results = Last(raw).uses /\ answer.uses = {}
      BY DEF Answered
    <3>3. answer \in Turn
      BY <3>1, <3>2, FS_EmptySet DEF Turn, CallSets
    <3> HIDE DEF answer
    <3>4. /\ raw' \in Seq(Turn) /\ Len(raw') = Len(raw) + 1
          /\ DOMAIN raw' = 1..(Len(raw) + 1) /\ raw'[Len(raw) + 1] = answer
          /\ \A i \in 1..Len(raw) : raw'[i] = raw[i]
      BY <2>2, <3>1, <3>3 DEF answer
    <3>5. ASSUME NEW i \in DOMAIN raw', raw'[i].uses # {}
          PROVE  i < Len(raw') /\ raw'[i + 1].results = raw'[i].uses
      <4>1. i \in 1..Len(raw) /\ raw'[i] = raw[i]
        BY <3>1, <3>2, <3>4, <3>5
      <4>2. CASE i = Len(raw)
        BY <3>1, <3>2, <3>4, <4>1, <4>2
      <4>3. CASE i < Len(raw)
        <5>1. raw[i + 1].results = raw[i].uses
          BY <3>1, <3>5, <4>1, <4>3 DEF ClosedButLast
        <5> QED
          BY <3>1, <3>4, <4>1, <4>3, <5>1
      <4> QED
        BY <3>1, <4>1, <4>2, <4>3
    <3> QED
      BY <3>4, <3>5 DEF Closed, Transcripts
  <2>3. \A long, short : ResultSize(long, short) \in Nat
    BY DEF ResultSize, Small, Clipped
  <2>4. CASE pc' = "after" /\ UNCHANGED <<round, outcome>> /\ ~\E why : Finish(why)
    <3>1. PICK executed \in SUBSET Last(raw).uses, long \in BOOLEAN, compactable \in BOOLEAN :
             LET short == compactable /\ (percent >= 35 \/ action # "none")
             IN raw' = Append(raw, [role |-> "user", uses |-> {},
                                    results |-> Answered(Last(raw).uses, executed),
                                    size |-> ResultSize(long, short)])
      BY <1>8, <2>4 DEF RunTools
    <3>2. raw' \in Transcripts
      BY <2>2, <2>3, <3>1
    <3> QED
      BY <1>8, <2>4, <3>2 DEF RunTools, TranscriptInv
  <2> QED
    BY <1>8, <2>1, <2>4 DEF RunTools
<1>9. CASE GoOnAtOnce
  <2>1. PICK condense, recall : Another(raw \o Notes(condense, recall) \o <<Text("user", Small)>>)
    BY <1>9 DEF GoOnAtOnce
  <2>2. raw \in Transcripts /\ sent' = sent
    BY <1>9 DEF GoOnAtOnce, TranscriptInv
  <2>3. raw \o Notes(condense, recall) \in Transcripts
    BY <2>2, NotesAreTranscripts, TranscriptsJoin
  <2>4. (raw \o Notes(condense, recall)) \o user \in Transcripts
    BY <1>1, <2>3, TranscriptsJoin
  <2>5. Another((raw \o Notes(condense, recall)) \o user)
    BY <2>1 DEF user
  <2> QED
    BY <2>2, <2>4, <2>5, AnotherKeeps
<1>10. CASE RoundEnds
  <2>1. PICK condense, recall, pushed :
          Another(raw \o Notes(condense, recall) \o Note(pushed))
    BY <1>10 DEF RoundEnds
  <2>2. raw \in Transcripts /\ sent' = sent
    BY <1>10 DEF RoundEnds, TranscriptInv
  <2>3. raw \o Notes(condense, recall) \in Transcripts
    BY <2>2, NotesAreTranscripts, TranscriptsJoin
  <2>4. (raw \o Notes(condense, recall)) \o Note(pushed) \in Transcripts
    BY <2>3, NotesAreTranscripts, TranscriptsJoin
  <2> QED
    BY <2>1, <2>2, <2>4, AnotherKeeps
<1>11. CASE StopAfterTools
  BY <1>11, FinishKeeps DEF StopAfterTools
<1>12. CASE UNCHANGED transcriptVars
  BY <1>12 DEF transcriptVars, TranscriptInv
<1> QED
  BY <1>3, <1>4, <1>5, <1>6, <1>7, <1>8, <1>9, <1>10, <1>11, <1>12 DEF TranscriptNext

(* No request has a tool call that the next message does not answer in     *)
(* full, however long the run, whatever is rolled over, and wherever the   *)
(* stream broke.                                                           *)
THEOREM CallsAreAnswered == Spec => []AnswersAdjacent
<1>1. Init => TranscriptInv
  BY TranscriptInvInit DEF Init
<1>2. TranscriptInv /\ [Next]_sessions => TranscriptInv'
  <2>1. [Next]_sessions => [TranscriptNext]_transcriptVars
    BY DEF Next, sessions, FilesStep, TranscriptStep, KnowledgeStep, DigestStep, ThoughtsStep,
           StoreStep, StagedStep
  <2> QED
    BY <2>1, TranscriptInvNext
<1>3. TranscriptInv => AnswersAdjacent
  BY DEF TranscriptInv, Transcripts, Closed, AnswersAdjacent
<1> QED
  BY <1>1, <1>2, <1>3, PTL DEF Spec

----------------------------------------------------------------------------
(* The context budget.  Sizes and pending calls are computed over the      *)
(* whole list: what holds of them is shown for the least index at which it *)
(* could fail.                                                             *)

Unfolds(g, n, a, F) == g = [i \in 0..n |-> IF i = 0 THEN a ELSE F[i][g[i - 1]]]

(* A function on 0..n that is defined by what it is at 0 and by a step.    *)
LEMMA RecursionExists ==
  ASSUME NEW n \in Nat, NEW S, NEW a \in S, NEW F \in [1..n -> [S -> S]]
  PROVE  \E g \in [0..n -> S] : Unfolds(g, n, a, F)
<1> DEFINE Is(g, k) == g = [i \in 0..k |-> IF i = 0 THEN a ELSE F[i][g[i - 1]]]
           without == {k \in 0..n : ~ \E g \in [0..k -> S] : Is(g, k)}
<1>1. SUFFICES ASSUME without # {} PROVE FALSE
  <2>1. n \notin without => \E g \in [0..n -> S] : Is(g, n)
    OBVIOUS
  <2> HIDE DEF without
  <2> QED
    BY <2>1 DEF Unfolds
<1>5. without \in SUBSET Nat /\ without \subseteq 0..n
  OBVIOUS
<1>6. \A k \in 0..n : k \notin without => \E g \in [0..k -> S] : Is(g, k)
  OBVIOUS
<1>7. \A k \in without : ~ \E g \in [0..k -> S] : Is(g, k)
  OBVIOUS
<1> HIDE DEF without
<1>2. PICK k \in without : \A j \in without : k <= j
  BY <1>1, <1>5, LeastExists
<1>3. CASE k = 0
  <2> DEFINE g == [i \in 0..0 |-> a]
  <2>1. g \in [0..0 -> S] /\ Is(g, 0)
    OBVIOUS
  <2> QED
    BY <1>2, <1>3, <1>7, <2>1
<1>4. CASE k # 0
  <2>1. k - 1 \in 0..n /\ k \in 1..n /\ k - 1 \notin without
    BY <1>2, <1>4, <1>5
  <2>2. PICK h \in [0..(k - 1) -> S] : Is(h, k - 1)
    BY <1>6, <2>1
  <2> DEFINE g == [i \in 0..k |-> IF i = k THEN F[k][h[k - 1]] ELSE h[i]]
  <2>3. g \in [0..k -> S]
    BY <2>1
  <2>4. Is(g, k)
    <3>1. ASSUME NEW i \in 0..k
          PROVE  g[i] = IF i = 0 THEN a ELSE F[i][g[i - 1]]
      <4>1. CASE i = 0
        BY <2>1, <2>2, <4>1
      <4>2. CASE i = k
        BY <2>1, <4>2
      <4>3. CASE i # 0 /\ i # k
        <5>1. i \in 0..(k - 1) /\ i - 1 \in 0..(k - 1) /\ i - 1 # k
          BY <2>1, <4>3
        <5>2. g[i] = h[i] /\ g[i - 1] = h[i - 1]
          BY <2>1, <4>3, <5>1
        <5>3. h[i] = IF i = 0 THEN a ELSE F[i][h[i - 1]]
          BY <2>2, <5>1
        <5> QED
          BY <4>3, <5>2, <5>3
      <4> QED
        BY <4>1, <4>2, <4>3
    <3> QED
      BY <3>1
  <2> QED
    BY <1>2, <1>7, <2>3, <2>4
<1> QED
  BY <1>3, <1>4

(* totalMessageChars is a number.                                          *)
LEMMA SizeIsANumber ==
  ASSUME NEW m \in Seq(Turn)
  PROVE  Size(m) \in Nat
<1> DEFINE n == Len(m)
           upTo[i \in 0..Len(m)] == IF i = 0 THEN 0 ELSE upTo[i - 1] + m[i].size
           F == [i \in 1..n |-> [t \in Nat |-> t + m[i].size]]
<1>1. n \in Nat /\ \A i \in 1..n : m[i].size \in Nat
  BY DEF Turn
<1>2. F \in [1..n -> [Nat -> Nat]]
  BY <1>1
<1> HIDE DEF F
<1>3. PICK g \in [0..n -> Nat] : Unfolds(g, n, 0, F)
  <2>1. 0 \in Nat
    OBVIOUS
  <2> HIDE DEF n
  <2> QED
    BY <1>1, <1>2, <2>1, RecursionExists
<1>4. g = [i \in 0..Len(m) |-> IF i = 0 THEN 0 ELSE g[i - 1] + m[i].size]
  <2>1. ASSUME NEW i \in 0..n
        PROVE  g[i] = IF i = 0 THEN 0 ELSE g[i - 1] + m[i].size
    <3>1. CASE i = 0
      BY <1>3, <3>1 DEF Unfolds
    <3>2. CASE i # 0
      <4>1. i \in 1..n /\ i - 1 \in 0..n /\ g[i - 1] \in Nat
        BY <1>1, <3>2
      <4>2. g[i] = F[i][g[i - 1]]
        BY <1>3, <3>2 DEF Unfolds
      <4>3. F[i][g[i - 1]] = g[i - 1] + m[i].size
        BY <4>1 DEF F
      <4> QED
        BY <3>2, <4>2, <4>3
    <3> QED
      BY <3>1, <3>2
  <2> QED
    BY <2>1
<1>5. upTo = [i \in 0..Len(m) |-> IF i = 0 THEN 0 ELSE upTo[i - 1] + m[i].size]
  BY <1>4
<1> HIDE DEF upTo
<1> DEFINE odd == {i \in 0..n : upTo[i] \notin Nat}
<1>6. odd = {}
  <2> SUFFICES ASSUME odd # {} PROVE FALSE
    OBVIOUS
  <2>0. odd \in SUBSET Nat
    OBVIOUS
  <2>1. PICK k \in odd : \A j \in odd : k <= j
    <3> HIDE DEF odd
    <3> QED
      BY <2>0, LeastExists
  <2>2. CASE k = 0
    BY <1>1, <1>5, <2>1, <2>2
  <2>3. CASE k # 0
    <3>1. k \in 1..n /\ k - 1 \in 0..n /\ upTo[k - 1] \in Nat
      BY <1>1, <2>1, <2>3
    <3>2. upTo[k] = upTo[k - 1] + m[k].size
      BY <1>5, <3>1
    <3> QED
      BY <1>1, <2>1, <3>1, <3>2
  <2> QED
    BY <2>2, <2>3
<1>7. Size(m) = upTo[Len(m)]
  BY DEF Size, upTo
<1> QED
  BY <1>1, <1>6, <1>7


(* hasUnclosedToolChain: where every call is answered by the next message, *)
(* nothing is pending at the end.                                          *)
LEMMA NothingIsPending ==
  ASSUME NEW m \in Transcripts
  PROVE  ~UnclosedChain(m)
<1> DEFINE n == Len(m)
           pending[i \in 0..Len(m)] ==
             IF i = 0 THEN 0
             ELSE LET open == pending[i - 1] + Cardinality(m[i].uses)
                      closed == Cardinality(m[i].results)
                  IN IF closed > open THEN 0 ELSE open - closed
           F == [i \in 1..n |-> [t \in Nat |->
                   IF Cardinality(m[i].results) > t + Cardinality(m[i].uses) THEN 0
                   ELSE t + Cardinality(m[i].uses) - Cardinality(m[i].results)]]
           owes(i) == IF i = 0 THEN 0 ELSE Cardinality(m[i].uses)
<1>1. /\ n \in Nat /\ m \in Seq(Turn) /\ Closed(m) /\ DOMAIN m = 1..n
      /\ \A i \in 1..n : m[i] \in Turn
  BY DEF Transcripts
<1>2. \A i \in 1..n : /\ Cardinality(m[i].uses) \in Nat /\ Cardinality(m[i].results) \in Nat
                      /\ m[i].uses = {} \/ m[i].results = {}
  <2> TAKE i \in 1..n
  <2>1. /\ IsFiniteSet(m[i].uses) /\ IsFiniteSet(m[i].results)
        /\ m[i].uses = {} \/ m[i].results = {}
    BY <1>1 DEF Turn, CallSets
  <2> QED
    BY <2>1, FS_CardinalityType
<1>3. F \in [1..n -> [Nat -> Nat]]
  BY <1>2
<1> HIDE DEF F
<1>4. PICK g \in [0..n -> Nat] : Unfolds(g, n, 0, F)
  <2>1. 0 \in Nat
    OBVIOUS
  <2> HIDE DEF n
  <2> QED
    BY <1>1, <1>3, <2>1, RecursionExists
<1>5. g = [i \in 0..Len(m) |->
             IF i = 0 THEN 0
             ELSE LET open == g[i - 1] + Cardinality(m[i].uses)
                      closed == Cardinality(m[i].results)
                  IN IF closed > open THEN 0 ELSE open - closed]
  <2>1. ASSUME NEW i \in 0..n
        PROVE  g[i] = IF i = 0 THEN 0
                      ELSE LET open == g[i - 1] + Cardinality(m[i].uses)
                               closed == Cardinality(m[i].results)
                           IN IF closed > open THEN 0 ELSE open - closed
    <3>1. CASE i = 0
      BY <1>4, <3>1 DEF Unfolds
    <3>2. CASE i # 0
      <4>1. i \in 1..n /\ i - 1 \in 0..n /\ g[i - 1] \in Nat
        BY <1>1, <3>2
      <4>2. g[i] = F[i][g[i - 1]]
        BY <1>4, <3>2 DEF Unfolds
      <4> QED
        BY <3>2, <4>1, <4>2 DEF F
    <3> QED
      BY <3>1, <3>2
  <2>2. g = [i \in 0..n |-> g[i]]
    OBVIOUS
  <2> QED
    BY <2>1, <2>2
<1>6. pending = [i \in 0..Len(m) |->
             IF i = 0 THEN 0
             ELSE LET open == pending[i - 1] + Cardinality(m[i].uses)
                      closed == Cardinality(m[i].results)
                  IN IF closed > open THEN 0 ELSE open - closed]
  BY <1>5
<1> HIDE DEF pending
<1>11. \A i \in 1..n :
         pending[i] = IF Cardinality(m[i].results) > pending[i - 1] + Cardinality(m[i].uses)
                      THEN 0
                      ELSE pending[i - 1] + Cardinality(m[i].uses) - Cardinality(m[i].results)
  <2> TAKE i \in 1..n
  <2>1. i \in 0..Len(m) /\ i # 0
    OBVIOUS
  <2> DEFINE step(k) == IF k = 0 THEN 0
                        ELSE LET open == pending[k - 1] + Cardinality(m[k].uses)
                                 closed == Cardinality(m[k].results)
                             IN IF closed > open THEN 0 ELSE open - closed
  <2>2. pending = [k \in 0..Len(m) |-> step(k)]
    BY <1>6
  <2>3. pending[i] = step(i)
    <3> HIDE DEF step
    <3> QED
      BY <2>1, <2>2, Zenon
  <2>4. step(i) = IF Cardinality(m[i].results) > pending[i - 1] + Cardinality(m[i].uses)
                  THEN 0
                  ELSE pending[i - 1] + Cardinality(m[i].uses) - Cardinality(m[i].results)
    BY <2>1
  <2> HIDE DEF step
  <2> QED
    BY <2>3, <2>4, Zenon
<1> DEFINE odd == {i \in 0..n : pending[i] # owes(i)}
<1>7. odd = {}
  <2> SUFFICES ASSUME odd # {} PROVE FALSE
    OBVIOUS
  <2>0. odd \in SUBSET Nat
    OBVIOUS
  <2>1. PICK k \in odd : \A j \in odd : k <= j
    <3> HIDE DEF odd
    <3> QED
      BY <2>0, LeastExists
  <2>2. CASE k = 0
    BY <1>1, <1>6, <2>1, <2>2
  <2>3. CASE k # 0
    <3>1. k \in 1..n /\ k - 1 \in 0..n /\ k - 1 \notin odd
      BY <1>1, <2>1, <2>3
    <3>2. pending[k - 1] = owes(k - 1)
      BY <3>1
    <3>3. pending[k] = IF Cardinality(m[k].results) > pending[k - 1] + Cardinality(m[k].uses)
                       THEN 0
                       ELSE pending[k - 1] + Cardinality(m[k].uses) - Cardinality(m[k].results)
      BY <1>11, <3>1
    <3>4. owes(k) = Cardinality(m[k].uses) /\ Cardinality({}) = 0
      BY <2>3, FS_EmptySet
    <3>5. CASE k = 1 \/ m[k - 1].uses = {}
      <4>1. pending[k - 1] = 0
        BY <3>2, <3>4, <3>5
      <4>2. /\ Cardinality(m[k].uses) \in Nat /\ Cardinality(m[k].results) \in Nat
            /\ m[k].uses = {} \/ m[k].results = {}
        BY <1>2, <3>1
      <4>3. Cardinality(m[k].uses) = 0 \/ Cardinality(m[k].results) = 0
        BY <3>4, <4>2
      <4>4. pending[k] = Cardinality(m[k].uses)
        BY <3>3, <4>1, <4>2, <4>3
      <4> QED
        BY <2>1, <3>4, <4>4
    <3>6. CASE k # 1 /\ m[k - 1].uses # {}
      <4>1. k - 1 \in DOMAIN m /\ (k - 1) + 1 = k
        BY <1>1, <3>1, <3>6
      <4>2. m[k].results = m[k - 1].uses
        BY <1>1, <3>6, <4>1 DEF Closed
      <4>6. k - 1 # 0 /\ owes(k - 1) = Cardinality(m[k - 1].uses)
        BY <3>1, <3>6
      <4>7. m[k].results # {} /\ (m[k].uses = {} \/ m[k].results = {})
        BY <1>2, <3>1, <3>6, <4>2
      <4>3. m[k].uses = {} /\ pending[k - 1] = Cardinality(m[k].results)
        BY <3>2, <4>2, <4>6, <4>7
      <4>4. Cardinality(m[k].results) \in Nat /\ Cardinality(m[k].uses) = 0
        BY <1>2, <3>1, <3>4, <4>3
      <4>5. pending[k] = 0
        BY <3>3, <4>3, <4>4
      <4> QED
        BY <2>1, <3>4, <4>4, <4>5
    <3> QED
      BY <3>5, <3>6
  <2> QED
    BY <2>2, <2>3
<1>8. owes(n) = 0
  <2>1. CASE n = 0
    BY <2>1
  <2>2. CASE n # 0
    <3>1. n \in DOMAIN m
      BY <1>1, <2>2
    <3>2. m[n].uses = {}
      BY <1>1, <3>1 DEF Closed
    <3> QED
      BY <2>2, <3>2, FS_EmptySet
  <2> QED
    BY <2>1, <2>2
<1>9. pending[n] = 0
  BY <1>1, <1>7, <1>8
<1>10. UnclosedChain(m) <=> pending[Len(m)] > 0
  BY DEF UnclosedChain, pending
<1> QED
  BY <1>9, <1>10

(* epochRollover keeps no more assistant messages than it is told to.      *)
LEMMA RetainedIsShort ==
  ASSUME NEW m \in Seq(Turn)
  PROVE  Cardinality(Assistants(<<Preamble>> \o Retained(m))) <= KeepRecent
<1> DEFINE n == Len(m)
           after(i) == {j \in Assistants(m) : j >= i}
           enough == {i \in Assistants(m) : Cardinality(after(i)) = KeepRecent}
           cut == IF enough = {} THEN n + 1 ELSE First(enough)
           from == IF n + 1 - cut >= 2 THEN cut ELSE IF n >= 2 THEN n - 1 ELSE 1
           r == SubSeq(m, from, n)
           q == <<Preamble>> \o r
           kept == Assistants(q)
<1>1. n \in Nat /\ DOMAIN m = 1..n /\ KeepRecent \in Nat /\ KeepRecent >= 2
  BY TranscriptBoundsAssumption
<1>2. Assistants(m) \subseteq 1..n
  BY <1>1 DEF Assistants
<1>3. \A i : IsFiniteSet(after(i))
  <2>1. IsFiniteSet(1..n)
    BY <1>1, FS_Interval
  <2>2. \A i : after(i) \in SUBSET (1..n)
    BY <1>2
  <2> HIDE DEF n
  <2> QED
    BY <2>1, <2>2, FS_Subset
<1>4. enough \in SUBSET Nat /\ enough \subseteq 1..n
  BY <1>1, <1>2
<1> HIDE DEF after
<1>5. enough # {} => First(enough) \in enough
  <2> HIDE DEF enough
  <2> QED
    BY <1>4, FirstIsLeast
<1>6. enough # {} => cut \in 1..n /\ Cardinality(after(cut)) = KeepRecent
  BY <1>4, <1>5
<1> HIDE DEF enough
<1>7. cut \in 1..(n + 1)
  BY <1>1, <1>6
<1>8. cut = n + 1 \/ Cardinality(after(cut)) = KeepRecent
  BY <1>6
<1> HIDE DEF cut
<1>9. from \in 1..(n + 1)
  BY <1>1, <1>7
<1>10. Cardinality(after(from)) <= KeepRecent
  <2>1. CASE n + 1 - cut >= 2
    <3>1. from = cut /\ cut # n + 1
      BY <1>1, <1>7, <2>1
    <3> QED
      BY <1>1, <1>8, <3>1
  <2>2. CASE ~(n + 1 - cut >= 2)
    <3>1. from = IF n >= 2 THEN n - 1 ELSE 1
      BY <2>2
    <3>2. after(from) \in SUBSET (from..n)
      BY <1>1, <1>2, <1>9 DEF after
    <3>3. from \in Int /\ n \in Int
      BY <1>1, <1>9
    <3>4. IsFiniteSet(from..n) /\ Cardinality(from..n) = IF from > n THEN 0 ELSE n - from + 1
      BY <3>3, FS_Interval
    <3>5. Cardinality(from..n) <= 2
      BY <1>1, <3>1, <3>4
    <3> HIDE DEF from, n
    <3>6. Cardinality(after(from)) <= Cardinality(from..n)
      BY <3>2, <3>4, FS_Subset
    <3>7. Cardinality(after(from)) \in Nat /\ Cardinality(from..n) \in Nat
      BY <1>3, <3>4, FS_CardinalityType
    <3> QED
      BY <1>1, <3>5, <3>6, <3>7
  <2> QED
    BY <2>1, <2>2
<1> HIDE DEF from
<1>11. /\ r \in Seq(Turn) /\ Len(r) = IF from <= n THEN n - from + 1 ELSE 0
       /\ \A i \in 1..(n - from + 1) : r[i] = m[from + i - 1]
  <2>1. \A i \in from..n : m[i] \in Turn
    BY <1>1, <1>9
  <2>2. from \in Nat /\ n \in Nat
    BY <1>1, <1>9
  <2> HIDE DEF n
  <2> QED
    BY <1>9, <2>1, <2>2, SubSeqProperties
<1> HIDE DEF r
<1>12. /\ DOMAIN q = 1..(1 + Len(r)) /\ q[1] = Preamble
       /\ \A i \in 2..(1 + Len(r)) : q[i] = r[i - 1]
  <2>1. Preamble \in Turn
    BY FS_EmptySet DEF Preamble, Text, Turn, CallSets, Small
  <2>2. <<Preamble>> \in Seq(Turn) /\ Len(<<Preamble>>) = 1
    BY <2>1
  <2> HIDE DEF q
  <2>3. /\ Len(q) = 1 + Len(r) /\ q \in Seq(Turn)
        /\ \A i \in 1..(1 + Len(r)) : q[i] = IF i <= 1 THEN <<Preamble>>[i] ELSE r[i - 1]
    BY <1>11, <2>2, ConcatProperties DEF q
  <2>4. Len(r) \in Nat
    BY <1>11
  <2>5. DOMAIN q = 1..Len(q)
    BY <2>3
  <2>6. q[1] = <<Preamble>>[1] /\ <<Preamble>>[1] = Preamble
    BY <2>3, <2>4
  <2>7. \A i \in 2..(1 + Len(r)) : q[i] = r[i - 1]
    BY <2>3, <2>4
  <2> QED
    BY <2>3, <2>5, <2>6, <2>7
<1>13. \A i \in kept : i \in 2..(1 + Len(r)) /\ from + i - 2 \in after(from)
  <2> TAKE i \in kept
  <2>1. i \in DOMAIN q /\ q[i].role = "assistant"
    BY DEF Assistants
  <2> HIDE DEF q
  <2>2. i \in 2..(1 + Len(r)) /\ q[i] = r[i - 1]
    BY <1>12, <2>1 DEF Preamble, Text
  <2>3. from <= n /\ i - 1 \in 1..(n - from + 1) /\ r[i - 1] = m[from + (i - 1) - 1]
    <3>1. from \in Nat /\ Len(r) = IF from <= n THEN n - from + 1 ELSE 0
      BY <1>9, <1>11
    <3>2. from <= n
      BY <1>1, <2>2, <3>1
    <3>3. i - 1 \in 1..(n - from + 1)
      BY <1>1, <2>2, <3>1, <3>2
    <3>4. r[i - 1] = m[from + (i - 1) - 1]
      BY <1>11, <3>3
    <3> QED
      BY <3>2, <3>3, <3>4
  <2>4. from + i - 2 \in 1..n /\ from + i - 2 >= from /\ from + (i - 1) - 1 = from + i - 2
    <3>1. from \in Nat /\ n \in Nat /\ i \in Nat /\ from >= 1 /\ i >= 2 /\ i - 1 <= n - from + 1
      BY <1>1, <1>9, <1>11, <2>2, <2>3
    <3> HIDE DEF n
    <3> QED
      BY <3>1
  <2> QED
    BY <1>1, <2>1, <2>2, <2>3, <2>4 DEF after, Assistants
<1> DEFINE f == [i \in kept |-> from + i - 2]
<1>14. f \in Injection(kept, after(from))
  <2>1. f \in [kept -> after(from)]
    BY <1>13
  <2>2. \A i, j \in kept : f[i] = f[j] => i = j
    BY <1>1, <1>9, <1>13
  <2> QED
    BY <2>1, <2>2 DEF Injection, IsInjective
<1>15. IsFiniteSet(kept) /\ Cardinality(kept) <= Cardinality(after(from))
  <2> HIDE DEF f, kept
  <2> QED
    BY <1>3, <1>14, FS_Injection
<1>16. Cardinality(kept) \in Nat /\ Cardinality(after(from)) \in Nat
  BY <1>3, <1>15, FS_CardinalityType
<1>17. Cardinality(kept) <= KeepRecent
  BY <1>1, <1>10, <1>15, <1>16
<1>18. Retained(m) = r
  BY DEF Retained, r, from, cut, enough, after
<1> QED
  BY <1>17, <1>18

(* Where the loop stops for the context, the rollover has been tried: a    *)
(* transcript at the top of a round has no pending call.                   *)
LEMMA BlockedAfterRollover ==
  ASSUME NEW m \in Transcripts,
         BudgetMode(System + Context + Size(Rolled(m))) = "block"
  PROVE  Cardinality(Assistants(Rolled(m))) <= KeepRecent
<1>1. m \in Seq(Turn) /\ ~UnclosedChain(m)
  BY NothingIsPending DEF Transcripts
<1>2. CASE EpochAction(Context + Size(m)) = "rollover"
  BY <1>1, <1>2, RetainedIsShort DEF Rolled
<1>3. CASE EpochAction(Context + Size(m)) # "rollover"
  <2>1. Rolled(m) = m
    BY <1>3 DEF Rolled
  <2>2. Size(m) \in Nat /\ System \in Nat /\ Context \in Nat
    BY <1>1, SizeIsANumber, SizesAssumption
  <2>3. RolloverAt = 45 /\ Percent(60, Window) = 60
    BY DEF RolloverAt, Percent, Window
  <2>4. Context + Size(m) < 45
    <3> DEFINE size == Context + Size(m)
    <3>1. ForceAt = 38 /\ CompressAt = 25
      <4>1. Percent(85, RolloverAt) = 38
        BY <2>3 DEF Percent
      <4>2. ForceAt = 38
        BY <4>1 DEF ForceAt
      <4>3. Percent(75, ForceAt) = 28
        BY <4>2 DEF Percent
      <4> QED
        BY <4>2, <4>3 DEF CompressAt
    <3>2. size \in Nat
      BY <2>2
    <3>3. EpochAction(size) # "rollover"
      BY <1>3
    <3> HIDE DEF size
    <3>4. size >= 45 => EpochAction(size) = "rollover"
      BY <2>3, <3>1, <3>2 DEF EpochAction
    <3> QED
      BY <3>2, <3>3, <3>4 DEF size
  <2>5. System <= 15
    BY <2>2, <2>3, SystemAssumption
  <2>6. System + Context + Size(m) \in Nat /\ System + Context + Size(m) < 60
    BY <2>2, <2>4, <2>5
  <2> DEFINE size == System + Context + Size(m)
  <2> HIDE DEF size
  <2>7. BudgetMode(size) # "block"
    <3>1. size \in Nat /\ size < 60
      BY <2>6 DEF size
    <3>2. ~(size * 100 >= 60 * Window)
      BY <3>1 DEF Window
    <3>3. \/ size * 100 >= 50 * Window /\ size * 100 < 60 * Window
          \/ size * 100 < 50 * Window
      BY <3>1 DEF Window
    <3> QED
      BY <3>2, <3>3 DEF BudgetMode
  <2> QED
    BY <2>1, <2>7 DEF size
<1> QED
  BY <1>2, <1>3

BlockedInv ==
  outcome = "context" => pc = "idle" /\ Cardinality(Assistants(raw)) <= KeepRecent

LEMMA BlockedInvNext ==
  ASSUME TranscriptInv, BlockedInv, [TranscriptNext]_transcriptVars
  PROVE  BlockedInv'
<1>1. CASE StartRun
  BY <1>1 DEF StartRun, BlockedInv
<1>2. CASE Ask
  <2> DEFINE stays == Rolled(raw)
             mode == BudgetMode(System + Context + Size(stays))
  <2>1. raw \in Transcripts /\ outcome # "context"
    BY <1>2 DEF Ask, TranscriptInv, BlockedInv
  <2>2. CASE mode = "block"
    <3>1. pc' = "idle" /\ raw' = stays
      BY <1>2, <2>2 DEF Ask
    <3>2. Cardinality(Assistants(stays)) <= KeepRecent
      BY <2>1, <2>2, BlockedAfterRollover
    <3> HIDE DEF stays
    <3> QED
      BY <3>1, <3>2 DEF BlockedInv, Assistants
  <2>3. CASE mode # "block"
    <3>1. outcome' = outcome
      BY <1>2, <2>3 DEF Ask
    <3> QED
      BY <2>1, <3>1 DEF BlockedInv
  <2> QED
    BY <2>2, <2>3
<1>3. CASE pc \in {"reply", "tools", "after"} /\ TranscriptNext
  <2>1. outcome # "context"
    BY <1>3 DEF BlockedInv
  <2>2. \A messages : Another(messages) => outcome' \in {outcome, "rounds"}
    BY DEF Another
  <2>3. outcome' \in {outcome, "rounds", "stream", "text", "tools"}
    BY <1>3, <2>2 DEF TranscriptNext, StartRun, Ask, StreamFails, TextReply, ToolReply, RunTools,
       GoOnAtOnce, RoundEnds, StopAfterTools, Finish
  <2> QED
    BY <2>1, <2>3 DEF BlockedInv
<1>4. CASE UNCHANGED transcriptVars
  BY <1>4 DEF transcriptVars, BlockedInv, Assistants
<1>5. TranscriptNext => StartRun \/ Ask \/ pc \in {"reply", "tools", "after"}
  BY DEF TranscriptNext, StreamFails, TextReply, ToolReply, RunTools, GoOnAtOnce, RoundEnds,
         StopAfterTools
<1> QED
  BY <1>1, <1>2, <1>3, <1>4, <1>5

(* A run is stopped for its context only when the turns that a rollover    *)
(* keeps are too large on their own: for every system prompt that fits     *)
(* between the two thresholds, no pending call keeps the loop from         *)
(* archiving first.                                                        *)
THEOREM ArchivesFirst == Spec => []CompactedBeforeBlock
<1>1. Init => TranscriptInv /\ BlockedInv
  BY TranscriptInvInit DEF Init, TranscriptInit, BlockedInv
<1>2. TranscriptInv /\ BlockedInv /\ [Next]_sessions => (TranscriptInv /\ BlockedInv)'
  <2>1. [Next]_sessions => [TranscriptNext]_transcriptVars
    BY DEF Next, sessions, FilesStep, TranscriptStep, KnowledgeStep, DigestStep, ThoughtsStep,
           StoreStep, StagedStep
  <2> QED
    BY <2>1, TranscriptInvNext, BlockedInvNext
<1>3. BlockedInv => CompactedBeforeBlock
  BY DEF BlockedInv, CompactedBeforeBlock
<1> QED
  BY <1>1, <1>2, <1>3, PTL DEF Spec

----------------------------------------------------------------------------
(* The digest.  What the tiers say of one another holds of every state of  *)
(* the compactor, the ones in files included; a turn that is added moves   *)
(* at most one turn from each tier into the next.                          *)

TurnSaid == [n : Nat, talk : Nat, role : {"user", "assistant"}, text : Texts]
Gist == [index : Nat, of : TurnSaid]

Fields == {"hot", "warm", "records", "topics", "decisions", "manifest", "anchor", "total"}

IsState(m) ==
  /\ DOMAIN m = Fields /\ m = [f \in Fields |-> m[f]]
  /\ m.total \in Nat
  /\ m.hot \in Seq(TurnSaid) /\ m.warm \in Seq(TurnSaid) /\ m.records \in Seq(Gist)

HotLen(n) == Lower(n, HotWindow)
WarmLen(n) == Lower(n - HotLen(n), WarmCap)

(* k turns that follow the first ones, and the gists of k turns.           *)
Follow(first, k, turns) ==
  turns \in Seq(TurnSaid) /\ Len(turns) = k /\ \A i \in 1..k : turns[i].n = first + i

GistsOf(k, turns, gists) ==
  /\ gists \in Seq(Gist) /\ Len(gists) = k
  /\ \A i \in 1..k : gists[i] = [index |-> turns[i].n, of |-> turns[i]]

Tiers(n, hot, warm, gists) ==
  /\ Follow(n - HotLen(n), HotLen(n), hot)
  /\ Follow(n - HotLen(n) - WarmLen(n), WarmLen(n), warm)
  /\ GistsOf(WarmLen(n), warm, gists)

InTiers(m) == IsState(m) /\ Tiers(m.total, m.hot, m.warm, m.records)

SameTiers(m, old) ==
  /\ DOMAIN m = Fields /\ m = [f \in Fields |-> m[f]]
  /\ m.total = old.total /\ m.hot = old.hot /\ m.warm = old.warm /\ m.records = old.records

LEMMA SameTiersKeep ==
  ASSUME NEW m, NEW old, SameTiers(m, old), InTiers(old)
  PROVE  InTiers(m)
BY DEF SameTiers, InTiers, IsState

LEMMA DigestKeepsTiers ==
  ASSUME NEW m, IsState(m), NEW turn
  PROVE  SameTiers(FoldIntoColdDigest(m, turn), m)
BY DEF FoldIntoColdDigest, SameTiers, IsState, Fields

LEMMA CheckpointKeepsTiers ==
  ASSUME NEW m, IsState(m)
  PROVE  SameTiers(CreateBaseCheckpoint(m), m)
BY DEF CreateBaseCheckpoint, SameTiers, IsState, Fields

LEMMA EmptyInTiers == InTiers(Empty)
<1>1. <<>> \in Seq(TurnSaid) /\ <<>> \in Seq(Gist) /\ Len(<<>>) = 0
  OBVIOUS
<1>2. HotLen(0) = 0 /\ WarmLen(0) = 0
  BY CompactorAssumption DEF HotLen, WarmLen, Lower
<1>3. IsState(Empty)
  BY <1>1 DEF Empty, IsState, Fields
<1>4. Tiers(0, <<>>, <<>>, <<>>)
  BY <1>1, <1>2 DEF Tiers, Follow, GistsOf
<1> QED
  BY <1>3, <1>4 DEF InTiers, Empty

(* A turn that comes in last, and the first one that leaves.               *)
LEMMA LastComesIn ==
  ASSUME NEW first \in Nat, NEW k \in Nat, NEW turns, Follow(first, k, turns),
         NEW turn \in TurnSaid, turn.n = first + k + 1
  PROVE  Follow(first, k + 1, Append(turns, turn))
<1> DEFINE all == Append(turns, turn)
<1>1. turns \in Seq(TurnSaid) /\ Len(turns) = k /\ \A i \in 1..k : turns[i].n = first + i
  BY DEF Follow
<1>2. /\ all \in Seq(TurnSaid) /\ Len(all) = k + 1 /\ all[k + 1] = turn
      /\ \A i \in 1..k : all[i] = turns[i]
  BY <1>1
<1> HIDE DEF all
<1>3. ASSUME NEW i \in 1..(k + 1) PROVE all[i].n = first + i
  <2>1. CASE i = k + 1
    BY <1>2, <2>1
  <2>2. CASE i \in 1..k
    BY <1>1, <1>2, <2>2
  <2> QED
    BY <2>1, <2>2
<1>4. Follow(first, k + 1, all)
  BY <1>2, <1>3 DEF Follow
<1> QED
  BY <1>4 DEF all

LEMMA FirstLeaves ==
  ASSUME NEW first \in Nat, NEW k \in Nat, NEW turns, Follow(first, k + 1, turns)
  PROVE  /\ Follow(first + 1, k, Tail(turns)) /\ Head(turns) \in TurnSaid
         /\ Head(turns) = turns[1] /\ Head(turns).n = first + 1
<1> DEFINE rest == Tail(turns)
<1>1. /\ turns \in Seq(TurnSaid) /\ Len(turns) = k + 1 /\ turns # <<>>
      /\ \A i \in 1..(k + 1) : turns[i].n = first + i
  BY DEF Follow
<1>2. Head(turns) = turns[1] /\ Head(turns) \in TurnSaid /\ Head(turns).n = first + 1
  BY <1>1
<1>3. rest \in Seq(TurnSaid) /\ Len(rest) = k /\ \A i \in 1..k : rest[i] = turns[i + 1]
  BY <1>1, HeadTailProperties
<1> HIDE DEF rest
<1>4. Follow(first + 1, k, rest)
  BY <1>1, <1>3 DEF Follow
<1> QED
  BY <1>2, <1>4 DEF rest

LEMMA GistComesIn ==
  ASSUME NEW k \in Nat, NEW turns \in Seq(TurnSaid), Len(turns) = k, NEW gists,
         GistsOf(k, turns, gists), NEW turn \in TurnSaid
  PROVE  GistsOf(k + 1, Append(turns, turn),
                 Append(gists, [index |-> turn.n, of |-> turn]))
<1> DEFINE gist == [index |-> turn.n, of |-> turn]
           w == Append(turns, turn)
           r == Append(gists, gist)
<1>1. gist \in Gist
  BY DEF Gist, TurnSaid
<1>2. w \in Seq(TurnSaid) /\ Len(w) = k + 1 /\ w[k + 1] = turn /\ \A i \in 1..k : w[i] = turns[i]
  OBVIOUS
<1>3. gist = [index |-> turn.n, of |-> turn]
  OBVIOUS
<1> HIDE DEF gist, w
<1>4. gists \in Seq(Gist) /\ Len(gists) = k
  BY DEF GistsOf
<1>5. \A i \in 1..k : gists[i] = [index |-> turns[i].n, of |-> turns[i]]
  BY DEF GistsOf
<1>6. r \in Seq(Gist) /\ Len(r) = k + 1 /\ r[k + 1] = gist /\ \A i \in 1..k : r[i] = gists[i]
  BY <1>1, <1>4
<1> HIDE DEF r
<1>7. ASSUME NEW i \in 1..(k + 1) PROVE r[i] = [index |-> w[i].n, of |-> w[i]]
  <2>1. CASE i = k + 1
    BY <1>2, <1>3, <1>6, <2>1
  <2>2. CASE i \in 1..k
    BY <1>2, <1>5, <1>6, <2>2
  <2> QED
    BY <2>1, <2>2
<1>8. GistsOf(k + 1, w, r)
  BY <1>6, <1>7 DEF GistsOf
<1> QED
  BY <1>8 DEF gist, w, r

LEMMA GistLeaves ==
  ASSUME NEW k \in Nat, NEW turns \in Seq(TurnSaid), Len(turns) = k + 1, NEW gists,
         GistsOf(k + 1, turns, gists)
  PROVE  GistsOf(k, Tail(turns), Tail(gists))
<1> DEFINE w == Tail(turns)  r == Tail(gists)
<1>1. gists \in Seq(Gist) /\ Len(gists) = k + 1 /\ turns # <<>> /\ gists # <<>>
  BY DEF GistsOf
<1>2. \A i \in 1..(k + 1) : gists[i] = [index |-> turns[i].n, of |-> turns[i]]
  BY DEF GistsOf
<1>3. \A i \in 1..k : w[i] = turns[i + 1]
  BY <1>1, HeadTailProperties
<1>4. r \in Seq(Gist) /\ Len(r) = k /\ \A i \in 1..k : r[i] = gists[i + 1]
  BY <1>1, HeadTailProperties
<1> HIDE DEF w, r
<1>5. ASSUME NEW i \in 1..k PROVE r[i] = [index |-> w[i].n, of |-> w[i]]
  <2>1. i + 1 \in 1..(k + 1)
    OBVIOUS
  <2>2. gists[i + 1] = [index |-> turns[i + 1].n, of |-> turns[i + 1]]
    BY <1>2, <2>1
  <2> QED
    BY <1>3, <1>4, <2>2
<1>6. GistsOf(k, w, r)
  BY <1>4, <1>5 DEF GistsOf
<1> QED
  BY <1>6 DEF w, r

LEMMA AddTurnInTiers ==
  ASSUME NEW m, InTiers(m), NEW turn \in TurnSaid, turn.n = m.total + 1
  PROVE  InTiers(AddTurn(m, turn)) /\ AddTurn(m, turn).total = m.total + 1
<1> DEFINE n == m.total
           all == Append(m.hot, turn)
           m1 == [m EXCEPT !.hot = all, !.total = @ + 1]
           m2 == Cooled(m1)
<1>1. /\ IsState(m) /\ n \in Nat /\ Tiers(n, m.hot, m.warm, m.records)
      /\ m.hot \in Seq(TurnSaid) /\ m.warm \in Seq(TurnSaid) /\ m.records \in Seq(Gist)
  BY DEF InTiers, IsState
<1>2. all \in Seq(TurnSaid)
  BY <1>1
<1> HIDE DEF all
<1>3. /\ IsState(m1) /\ m1.total = n + 1 /\ m1.hot = all /\ m1.warm = m.warm
      /\ m1.records = m.records
  <2>1. DOMAIN m = Fields /\ DOMAIN m1 = Fields /\ m1 = [f \in Fields |-> m1[f]]
    BY <1>1 DEF IsState
  <2>2. /\ m1.total = n + 1 /\ m1.hot = all /\ m1.warm = m.warm /\ m1.records = m.records
    BY <2>1 DEF Fields
  <2> HIDE DEF m1
  <2> QED
    BY <1>1, <1>2, <2>1, <2>2 DEF IsState
<1> HIDE DEF m1
<1>4. AddTurn(m, turn) = Folded(m2)
  BY DEF AddTurn, m1, all
<1>5. HotWindow \in Nat \ {0} /\ WarmCap \in Nat \ {0}
  BY CompactorAssumption
<1>6. CASE n < HotWindow
  <2>1. /\ HotLen(n) = n /\ HotLen(n + 1) = n + 1
        /\ WarmLen(n) = Lower(n - n, WarmCap) /\ WarmLen(n + 1) = Lower((n + 1) - (n + 1), WarmCap)
    BY <1>1, <1>5, <1>6 DEF HotLen, WarmLen, Lower
  <2>2. /\ WarmLen(n) = 0 /\ WarmLen(n + 1) = 0 /\ n - HotLen(n) = 0 /\ (n + 1) - HotLen(n + 1) = 0
        /\ n - HotLen(n) - WarmLen(n) = 0 /\ (n + 1) - HotLen(n + 1) - WarmLen(n + 1) = 0
    BY <1>1, <1>5, <2>1 DEF Lower
  <2>3. Follow(0, n, m.hot) /\ Follow(0, 0, m.warm) /\ GistsOf(0, m.warm, m.records)
    BY <1>1, <2>1, <2>2 DEF Tiers
  <2>4. Follow(0, n + 1, all)
    BY <1>1, <2>3, LastComesIn DEF all
  <2>5. Tiers(n + 1, all, m.warm, m.records)
    BY <2>1, <2>2, <2>3, <2>4 DEF Tiers
  <2>6. Len(m1.hot) <= HotWindow /\ Len(m1.warm) <= WarmCap
    BY <1>1, <1>3, <1>5, <1>6, <2>3, <2>4 DEF Follow
  <2>7. m2 = m1 /\ Folded(m1) = m1
    BY <2>6 DEF Cooled, Folded
  <2> HIDE DEF m2
  <2> QED
    BY <1>3, <1>4, <2>5, <2>7 DEF InTiers
<1>7. CASE n >= HotWindow
  <2> DEFINE k == WarmLen(n)
             first == n - HotWindow - k
             moved == Head(all)
             gist == [index |-> moved.n, of |-> moved]
             w == Append(m.warm, moved)
             r == Append(m.records, gist)
  <2>1. HotLen(n) = HotWindow /\ HotLen(n + 1) = HotWindow
    BY <1>1, <1>5, <1>7 DEF HotLen, Lower
  <2>2. k = Lower(n - HotWindow, WarmCap) /\ WarmLen(n + 1) = Lower((n + 1) - HotWindow, WarmCap)
    BY <1>1, <1>5, <2>1 DEF WarmLen
  <2> HIDE DEF k
  <2>3. k \in Nat /\ first \in Nat /\ k <= WarmCap
    BY <1>1, <1>5, <1>7, <2>2 DEF Lower
  <2>4. n - HotWindow \in Nat /\ (n - HotWindow) + HotWindow + 1 = n + 1 /\ first + k = n - HotWindow
    <3>1. n - HotWindow \in Nat
      BY <1>1, <1>5, <1>7
    <3> QED
      BY <1>1, <1>5, <2>3, <3>1
  <2>5. /\ Follow(n - HotWindow, HotWindow, m.hot) /\ Follow(first, k, m.warm)
        /\ GistsOf(k, m.warm, m.records)
    BY <1>1, <2>1 DEF Tiers, k
  <2>6. Follow(n - HotWindow, HotWindow + 1, all)
    <3>1. turn.n = (n - HotWindow) + HotWindow + 1
      BY <2>4
    <3> QED
      BY <1>5, <2>4, <2>5, <3>1, LastComesIn DEF all
  <2>7. /\ Follow((n - HotWindow) + 1, HotWindow, Tail(all))
        /\ moved \in TurnSaid /\ moved.n = (n - HotWindow) + 1
    BY <1>5, <2>4, <2>6, FirstLeaves
  <2> HIDE DEF moved, first
  <2>8. Follow(first, k + 1, w)
    <3>1. moved.n = first + k + 1
      BY <2>3, <2>4, <2>7
    <3> QED
      BY <2>3, <2>5, <2>7, <3>1, LastComesIn
  <2>9. GistsOf(k + 1, w, r)
    <3>1. Len(m.warm) = k
      BY <2>5 DEF Follow
    <3> QED
      BY <1>1, <2>3, <2>5, <2>7, <3>1, GistComesIn
  <2>10. m2 = [m1 EXCEPT !.hot = Tail(all), !.warm = w, !.records = r]
    <3>1. Len(all) = HotWindow + 1
      BY <2>6 DEF Follow
    <3>2. ~(Len(m1.hot) <= HotWindow) /\ m1.total - Len(m1.hot) + 1 = moved.n
      <4>1. Len(m1.hot) = HotWindow + 1 /\ m1.total = n + 1
        BY <1>3, <3>1
      <4>2. (n + 1) - (HotWindow + 1) + 1 = (n - HotWindow) + 1
        BY <1>1, <1>5
      <4> QED
        BY <1>5, <2>7, <4>1, <4>2
    <3>3. m2 = [m1 EXCEPT !.hot = Tail(m1.hot), !.warm = Append(m1.warm, Head(m1.hot)),
                          !.records = Append(m1.records, [index |-> m1.total - Len(m1.hot) + 1,
                                                          of |-> Head(m1.hot)])]
      BY <3>2 DEF Cooled
    <3>4. Head(m1.hot) = moved
      BY <1>3 DEF moved
    <3> HIDE DEF m2
    <3> QED
      BY <1>3, <3>2, <3>3, <3>4
  <2> HIDE DEF m2, w, r
  <2>11. /\ Tail(all) \in Seq(TurnSaid) /\ w \in Seq(TurnSaid) /\ Len(w) = k + 1
         /\ r \in Seq(Gist)
    BY <2>7, <2>8, <2>9 DEF Follow, GistsOf
  <2>12. /\ IsState(m2) /\ m2.total = n + 1 /\ m2.hot = Tail(all) /\ m2.warm = w
         /\ m2.records = r
    BY <1>3, <2>10, <2>11 DEF IsState, Fields
  <2>13. (n + 1) - HotLen(n + 1) = (n - HotWindow) + 1
    BY <1>1, <1>5, <2>1
  <2>14. CASE k < WarmCap
    <3>1. k = n - HotWindow
      BY <1>1, <1>5, <1>7, <2>2, <2>14 DEF Lower
    <3>2. WarmLen(n + 1) = k + 1
      BY <1>1, <1>5, <2>2, <2>14, <3>1 DEF Lower
    <3>3. (n + 1) - HotLen(n + 1) - WarmLen(n + 1) = first
      BY <1>1, <1>5, <2>3, <2>4, <2>13, <3>1, <3>2
    <3>4. Tiers(n + 1, Tail(all), w, r)
      BY <2>1, <2>7, <2>8, <2>9, <2>13, <3>2, <3>3 DEF Tiers
    <3>5. Folded(m2) = m2
      BY <1>5, <2>3, <2>11, <2>12, <2>14 DEF Folded
    <3> QED
      BY <1>4, <2>12, <3>4, <3>5 DEF InTiers, m2
  <2>15. CASE k = WarmCap
    <3> DEFINE m3 == [m2 EXCEPT !.warm = Tail(w), !.records = Tail(r)]
    <3>1. Follow(first + 1, k, Tail(w)) /\ GistsOf(k, Tail(w), Tail(r))
      BY <2>3, <2>8, <2>9, <2>11, FirstLeaves, GistLeaves
    <3>2. WarmLen(n + 1) = k
      BY <1>1, <1>5, <1>7, <2>2, <2>15 DEF Lower
    <3>3. (n + 1) - HotLen(n + 1) - WarmLen(n + 1) = first + 1
      BY <1>1, <1>5, <2>3, <2>4, <2>13, <3>2
    <3>4. Tiers(n + 1, Tail(all), Tail(w), Tail(r))
      BY <2>1, <2>7, <2>13, <3>1, <3>2, <3>3 DEF Tiers
    <3>5. Tail(w) \in Seq(TurnSaid) /\ Tail(r) \in Seq(Gist)
      BY <3>1 DEF Follow, GistsOf
    <3>6. /\ IsState(m3) /\ m3.total = n + 1 /\ m3.hot = Tail(all) /\ m3.warm = Tail(w)
          /\ m3.records = Tail(r)
      BY <2>12, <3>5 DEF IsState, Fields
    <3>7. Folded(m2) = FoldIntoColdDigest(m3, Head(w))
      <4>1. ~(Len(m2.warm) <= WarmCap)
        BY <1>5, <2>11, <2>12, <2>15
      <4> QED
        BY <2>12, <4>1 DEF Folded
    <3> HIDE DEF m3
    <3>8. InTiers(m3)
      BY <3>4, <3>6 DEF InTiers
    <3>9. SameTiers(FoldIntoColdDigest(m3, Head(w)), m3)
      BY <3>6, DigestKeepsTiers
    <3>10. InTiers(FoldIntoColdDigest(m3, Head(w))) /\ FoldIntoColdDigest(m3, Head(w)).total = n + 1
      BY <3>6, <3>8, <3>9, SameTiersKeep DEF SameTiers
    <3> QED
      BY <1>4, <3>7, <3>10 DEF m2
  <2> QED
    BY <1>5, <2>3, <2>14, <2>15
<1> QED
  BY <1>1, <1>5, <1>6, <1>7

CompactorInv ==
  /\ talk \in Nat
  /\ answering \in Texts \cup {Unset}
  /\ InTiers(memory)
  /\ DOMAIN states = Sessions
  /\ \A s \in Sessions : states[s] = Unset \/ InTiers(states[s])

LEMMA CompactorInvNext ==
  ASSUME CompactorInv, [CompactorNext]_compactorVars
  PROVE  CompactorInv'
<1>1. ASSUME NEW text \in Texts, NEW agent \in BOOLEAN, BeginTurn(text, agent)
      PROVE  CompactorInv'
  <2>1. SameTiers(CreateBaseCheckpoint(memory), memory)
    BY CheckpointKeepsTiers DEF CompactorInv, InTiers
  <2>2. InTiers(CreateBaseCheckpoint(memory))
    BY <2>1, SameTiersKeep DEF CompactorInv
  <2>3. /\ memory' \in {memory, CreateBaseCheckpoint(memory)}
        /\ answering' = text /\ UNCHANGED <<talk, states>>
    BY <1>1 DEF BeginTurn
  <2>4. InTiers(memory')
    BY <2>2, <2>3 DEF CompactorInv
  <2> QED
    BY <2>3, <2>4 DEF CompactorInv
<1>2. ASSUME NEW reply \in Texts \cup {Unset}, EndAnswer(reply)
      PROVE  CompactorInv'
  <2> DEFINE asks == [n |-> memory.total + 1, talk |-> talk, role |-> "user", text |-> answering]
             heard == AddTurn(memory, asks)
             says == [n |-> heard.total + 1, talk |-> talk, role |-> "assistant", text |-> reply]
             end == IF reply = Unset THEN heard ELSE AddTurn(heard, says)
  <2>1. /\ memory' = CreateBaseCheckpoint(end) /\ answering' = Unset /\ answering # Unset
        /\ UNCHANGED <<talk, states>>
    BY <1>2 DEF EndAnswer
  <2>2. asks \in TurnSaid /\ asks.n = memory.total + 1
    BY <2>1 DEF CompactorInv, InTiers, IsState, TurnSaid
  <2> HIDE DEF asks
  <2>3. InTiers(heard)
    BY <2>2, AddTurnInTiers DEF CompactorInv
  <2> HIDE DEF heard
  <2>4. ASSUME reply # Unset PROVE InTiers(AddTurn(heard, says))
    <3>1. says \in TurnSaid /\ says.n = heard.total + 1
      BY <2>3, <2>4 DEF CompactorInv, InTiers, IsState, TurnSaid
    <3> HIDE DEF says
    <3> QED
      BY <2>3, <3>1, AddTurnInTiers
  <2> HIDE DEF says
  <2>5. InTiers(end)
    BY <2>3, <2>4
  <2> HIDE DEF end
  <2>6. SameTiers(CreateBaseCheckpoint(end), end)
    BY <2>5, CheckpointKeepsTiers DEF InTiers
  <2>7. InTiers(memory')
    BY <2>1, <2>5, <2>6, SameTiersKeep
  <2> QED
    BY <2>1, <2>7 DEF CompactorInv
<1>3. CASE Cancel
  BY <1>3 DEF Cancel, CompactorInv
<1>4. CASE ClearMemory
  <2>1. SameTiers(Assigned(memory), Empty)
    BY DEF Assigned, SameTiers, Empty, Fields
  <2>2. InTiers(Assigned(memory))
    BY <2>1, EmptyInTiers, SameTiersKeep
  <2> QED
    BY <1>4, <2>2 DEF ClearMemory, CompactorInv
<1>5. ASSUME NEW s \in Sessions, Save(s)
      PROVE  CompactorInv'
  <2>1. states' = [states EXCEPT ![s] = memory] /\ UNCHANGED <<memory, talk, answering>>
    BY <1>5 DEF Save
  <2>2. DOMAIN states' = Sessions
    BY <2>1 DEF CompactorInv
  <2>3. \A t \in Sessions : states'[t] = Unset \/ InTiers(states'[t])
    BY <2>1 DEF CompactorInv
  <2>4. InTiers(memory')
    BY <2>1 DEF CompactorInv
  <2> QED
    BY <2>1, <2>2, <2>3, <2>4 DEF CompactorInv
<1>6. ASSUME NEW s \in Sessions \cup {Unset}, RestartWith(s)
      PROVE  CompactorInv'
  <2>1. InTiers(memory')
    BY <1>6, EmptyInTiers DEF RestartWith, Restore, CompactorInv
  <2> QED
    BY <1>6, <2>1 DEF RestartWith, CompactorInv
<1>7. CASE UNCHANGED compactorVars
  BY <1>7 DEF compactorVars, CompactorInv
<1> QED
  BY <1>1, <1>2, <1>3, <1>4, <1>5, <1>6, <1>7 DEF CompactorNext

(* The tiers are the last turns of the conversation, in their order and    *)
(* without a gap, and every warm turn has its gist, whatever was folded,   *)
(* saved, resumed and cleared, for any size of the tiers.                  *)
THEOREM TiersHold == Spec => []TiersFollow
<1>1. Init => CompactorInv
  BY EmptyInTiers DEF Init, CompactorInit, CompactorInv
<1>2. CompactorInv /\ [Next]_sessions => CompactorInv'
  <2>1. [Next]_sessions => [CompactorNext]_compactorVars
    BY DEF Next, sessions, FilesStep, TranscriptStep, KnowledgeStep, DigestStep, ThoughtsStep,
           StoreStep, StagedStep
  <2> QED
    BY <2>1, CompactorInvNext
<1>3. CompactorInv => TiersFollow
  <2> SUFFICES ASSUME Tiers(memory.total, memory.hot, memory.warm, memory.records)
               PROVE  TiersFollow
    BY DEF CompactorInv, InTiers
  <2> QED
    BY DEF Tiers, Follow, GistsOf, HotLen, WarmLen, TiersFollow
<1> QED
  BY <1>1, <1>2, <1>3, PTL DEF Spec

----------------------------------------------------------------------------
(* The knowledge base.  Every entry that was learned, until its time is    *)
(* over, has one in the file that says the same at least as long, and, as  *)
(* long as one process follows another, one in the copy of the process     *)
(* that is there, which is the copy the file is written anew from.         *)

(* Each place that is kept is counted: its number is how many of them      *)
(* stand at it or before it.                                               *)
LEMMA PlacesAreCounted ==
  ASSUME NEW n \in Nat, NEW places \in SUBSET (1..n), NEW i \in places
  PROVE  \E k \in 1..Cardinality(places) : Nth(places, k) = i
<1> DEFINE upTo(x) == {j \in places : j <= x}
<1>1. IsFiniteSet(places)
  <2>1. IsFiniteSet(1..n)
    BY FS_Interval
  <2> QED
    BY <2>1, FS_Subset
<1>2. ASSUME NEW x \in places
      PROVE  /\ IsFiniteSet(upTo(x)) /\ Cardinality(upTo(x)) \in Nat \ {0}
             /\ Cardinality(upTo(x)) <= Cardinality(places)
  <2>1. upTo(x) \in SUBSET places /\ x \in upTo(x)
    OBVIOUS
  <2>2. IsFiniteSet(upTo(x)) /\ Cardinality(upTo(x)) <= Cardinality(places)
    BY <1>1, <2>1, FS_Subset
  <2>3. Cardinality(upTo(x)) \in Nat /\ Cardinality(upTo(x)) # 0
    BY <2>1, <2>2, FS_CardinalityType, FS_EmptySet
  <2> QED
    BY <2>2, <2>3
<1>3. ASSUME NEW x \in places, NEW y \in places, x < y
      PROVE  Cardinality(upTo(x)) # Cardinality(upTo(y))
  <2>1. upTo(x) \in SUBSET upTo(y) /\ y \in upTo(y) /\ y \notin upTo(x)
    <3>1. \A j \in places : j \in Int
      OBVIOUS
    <3>2. \A j \in places : j <= x => j <= y
      BY <1>3, <3>1
    <3>3. ~(y <= x)
      BY <1>3, <3>1
    <3>4. upTo(x) \in SUBSET upTo(y)
      BY <3>2, Zenon
    <3>5. y \in upTo(y)
      BY <3>1
    <3>6. y \notin upTo(x)
      BY <3>3, Zenon
    <3> QED
      BY <3>4, <3>5, <3>6
  <2>2. upTo(x) # upTo(y)
    BY <2>1
  <2>3. IsFiniteSet(upTo(y))
    BY <1>2
  <2> HIDE DEF upTo
  <2> QED
    BY <2>1, <2>2, <2>3, FS_Subset
<1>4. \A x \in places : Cardinality(upTo(x)) = Cardinality(upTo(i)) => x = i
  <2> SUFFICES ASSUME NEW x \in places, x # i
               PROVE  Cardinality(upTo(x)) # Cardinality(upTo(i))
    OBVIOUS
  <2>1. x < i \/ i < x
    OBVIOUS
  <2> HIDE DEF upTo
  <2> QED
    BY <1>3, <2>1
<1>5. PICK k : k = Cardinality(upTo(i))
  OBVIOUS
<1>6. k \in 1..Cardinality(places)
  <2>1. k \in Nat \ {0} /\ k <= Cardinality(places)
    BY <1>2, <1>5
  <2>2. Cardinality(places) \in Nat
    BY <1>1, FS_CardinalityType
  <2> QED
    BY <2>1, <2>2
<1>7. Nth(places, k) \in places /\ Cardinality(upTo(Nth(places, k))) = k
  BY <1>5 DEF Nth
<1>8. Nth(places, k) = i
  <2> HIDE DEF upTo
  <2> QED
    BY <1>4, <1>5, <1>7
<1> QED
  BY <1>6, <1>8

IsLine(lines) == lines \in Seq(ToSet(lines))

LEMMA LinesAre ==
  ASSUME NEW S, NEW lines \in Seq(S)
  PROVE  IsLine(lines)
BY DEF IsLine, ToSet

LEMMA NothingIsALine == IsLine(<<>>)
<1>1. <<>> \in Seq({})
  OBVIOUS
<1> QED
  BY <1>1, LinesAre

LEMMA LinesOf ==
  ASSUME NEW lines, IsLine(lines)
  PROVE  /\ Len(lines) \in Nat /\ DOMAIN lines = 1..Len(lines)
         /\ lines \in Seq(ToSet(lines))
BY DEF IsLine

LEMMA ChosenStay ==
  ASSUME NEW lines, IsLine(lines), NEW kept \in SUBSET DOMAIN lines
  PROVE  /\ IsLine(Chosen(lines, kept))
         /\ \A i \in kept : \E k \in DOMAIN Chosen(lines, kept) :
              Chosen(lines, kept)[k] = lines[i]
<1>1. Len(lines) \in Nat /\ kept \in SUBSET (1..Len(lines))
  BY LinesOf
<1>2. IsFiniteSet(kept) /\ Cardinality(kept) \in Nat
  <2>1. IsFiniteSet(1..Len(lines))
    BY <1>1, FS_Interval
  <2>2. IsFiniteSet(kept)
    BY <1>1, <2>1, FS_Subset
  <2> QED
    BY <2>2, FS_CardinalityType
<1>3. DOMAIN Chosen(lines, kept) = 1..Cardinality(kept)
  BY DEF Chosen
<1>4. \A k \in 1..Cardinality(kept) : Chosen(lines, kept)[k] = lines[Nth(kept, k)]
  BY DEF Chosen
<1>5. Chosen(lines, kept) \in Seq({Chosen(lines, kept)[k] : k \in 1..Cardinality(kept)})
  <2>1. Chosen(lines, kept) \in
          [1..Cardinality(kept) -> {Chosen(lines, kept)[k] : k \in 1..Cardinality(kept)}]
    BY DEF Chosen
  <2> QED
    BY <1>2, <2>1
<1>6. IsLine(Chosen(lines, kept))
  BY <1>5, LinesAre
<1>7. ASSUME NEW i \in kept
      PROVE  \E k \in DOMAIN Chosen(lines, kept) : Chosen(lines, kept)[k] = lines[i]
  <2>1. PICK k \in 1..Cardinality(kept) : Nth(kept, k) = i
    BY <1>1, PlacesAreCounted
  <2> QED
    BY <1>3, <1>4, <2>1
<1> QED
  BY <1>6, <1>7

Lives(e) == IF e.expires # Never THEN e.expires ELSE e.stamp + Month

Outlives(r, e) ==
  r \in EntryType /\ r.ask = e.ask /\ r.answer = e.answer /\ Lives(r) >= Lives(e)

Covers(lines, e) == \E i \in DOMAIN lines : Outlives(lines[i], e)

CoversAll(lines) == \A e \in learnt : Lives(e) >= now => Covers(lines, e)

LEMMA ExpiredAfter ==
  ASSUME NEW e \in EntryType, now \in Nat
  PROVE  Lives(e) \in Nat /\ (Expired(e) <=> now > Lives(e))
BY KnowledgeAssumption DEF EntryType, Expired, Lives, Never

LEMMA ChosenCovers ==
  ASSUME NEW lines, IsLine(lines), NEW kept \in SUBSET DOMAIN lines,
         NEW e, NEW i \in kept, Outlives(lines[i], e)
  PROVE  Covers(Chosen(lines, kept), e)
<1>1. PICK k \in DOMAIN Chosen(lines, kept) : Chosen(lines, kept)[k] = lines[i]
  BY ChosenStay
<1> QED
  BY <1>1 DEF Covers

LEMMA EntriesCover ==
  ASSUME NEW lines, IsLine(lines)
  PROVE  IsLine(Entries(lines)) /\ \A e : Covers(lines, e) => Covers(Entries(lines), e)
<1> DEFINE kept == {i \in DOMAIN lines : lines[i] \notin {TornLine, OpenLine}}
<1>1. kept \in SUBSET DOMAIN lines /\ Entries(lines) = Chosen(lines, kept)
  BY DEF Entries
<1>2. ASSUME NEW e, Covers(lines, e) PROVE Covers(Entries(lines), e)
  <2>1. PICK i \in DOMAIN lines : Outlives(lines[i], e)
    BY <1>2 DEF Covers
  <2>2. i \in kept
    BY <2>1, KnowledgeAssumption DEF Outlives
  <2> HIDE DEF kept
  <2> QED
    BY <1>1, <2>1, <2>2, ChosenCovers
<1> HIDE DEF kept
<1>3. IsLine(Entries(lines))
  BY <1>1, ChosenStay
<1> QED
  BY <1>2, <1>3

LEMMA FreshCovers ==
  ASSUME NEW lines, IsLine(lines), now \in Nat
  PROVE  /\ IsLine(Fresh(lines))
         /\ \A e \in EntryType : Covers(lines, e) /\ Lives(e) >= now => Covers(Fresh(lines), e)
<1> DEFINE kept == {i \in DOMAIN lines : ~Expired(lines[i])}
<1>1. kept \in SUBSET DOMAIN lines /\ Fresh(lines) = Chosen(lines, kept)
  BY DEF Fresh
<1>2. ASSUME NEW e \in EntryType, Covers(lines, e), Lives(e) >= now
      PROVE  Covers(Fresh(lines), e)
  <2>1. PICK i \in DOMAIN lines : Outlives(lines[i], e)
    BY <1>2 DEF Covers
  <2>2. lines[i] \in EntryType /\ Lives(lines[i]) >= Lives(e)
    BY <2>1 DEF Outlives
  <2>3. ~Expired(lines[i])
    BY <1>2, <2>2, ExpiredAfter
  <2>4. i \in kept
    BY <2>3
  <2> HIDE DEF kept
  <2> QED
    BY <1>1, <2>1, <2>4, ChosenCovers
<1> HIDE DEF kept
<1>3. IsLine(Fresh(lines))
  BY <1>1, ChosenStay
<1> QED
  BY <1>2, <1>3

(* A line that comes in takes no entry with it: only a torn one is         *)
(* replaced.                                                               *)
LEMMA LineComesIn ==
  ASSUME NEW lines, IsLine(lines), NEW line
  PROVE  /\ IsLine(Append(lines, line))
         /\ \A e : Covers(lines, e) => Covers(Append(lines, line), e)
         /\ \A e : Outlives(line, e) => Covers(Append(lines, line), e)
<1>1. Len(lines) \in Nat /\ DOMAIN lines = 1..Len(lines) /\ lines \in Seq(ToSet(lines))
  BY LinesOf
<1> DEFINE all == Append(lines, line)
<1>2. lines \in Seq(ToSet(lines) \cup {line}) /\ line \in ToSet(lines) \cup {line}
  BY <1>1
<1>3. /\ all \in Seq(ToSet(lines) \cup {line}) /\ DOMAIN all = 1..(Len(lines) + 1)
      /\ all[Len(lines) + 1] = line /\ \A i \in 1..Len(lines) : all[i] = lines[i]
  BY <1>2
<1> HIDE DEF all
<1>4. IsLine(all)
  BY <1>3, LinesAre
<1>5. ASSUME NEW e, Covers(lines, e) PROVE Covers(all, e)
  <2>1. PICK i \in 1..Len(lines) : Outlives(lines[i], e)
    BY <1>1, <1>5 DEF Covers
  <2>2. i \in DOMAIN all /\ all[i] = lines[i]
    BY <1>1, <1>3
  <2> QED
    BY <2>1, <2>2 DEF Covers
<1>6. ASSUME NEW e, Outlives(line, e) PROVE Covers(all, e)
  <2>1. Len(lines) + 1 \in DOMAIN all
    BY <1>1, <1>3
  <2> QED
    BY <1>3, <1>6, <2>1 DEF Covers
<1> QED
  BY <1>4, <1>5, <1>6 DEF all

LEMMA AppendedCovers ==
  ASSUME NEW lines, IsLine(lines), NEW e \in EntryType
  PROVE  /\ IsLine(Appended(lines, e))
         /\ \A d : Covers(lines, d) => Covers(Appended(lines, e), d)
         /\ ~HasOpenEnd(lines) => \A d : Outlives(e, d) => Covers(Appended(lines, e), d)
<1>1. CASE ~HasOpenEnd(lines)
  <2>1. Appended(lines, e) = Append(lines, e)
    BY <1>1 DEF Appended
  <2> QED
    BY <2>1, LineComesIn
<1>2. CASE HasOpenEnd(lines)
  <2>1. lines \in Seq(ToSet(lines) \cup {TornLine}) /\ DOMAIN lines = 1..Len(lines)
    BY LinesOf
  <2>2. Appended(lines, e) = [lines EXCEPT ![Len(lines)] = TornLine]
    BY <1>2 DEF Appended
  <2>3. /\ Appended(lines, e) \in Seq(ToSet(lines) \cup {TornLine})
        /\ DOMAIN Appended(lines, e) = DOMAIN lines
        /\ \A i \in DOMAIN lines : i # Len(lines) => Appended(lines, e)[i] = lines[i]
    <3>1. TornLine \in ToSet(lines) \cup {TornLine}
      OBVIOUS
    <3>2. Len(lines) \in DOMAIN lines
      BY <1>2, <2>1 DEF HasOpenEnd
    <3> QED
      BY <2>1, <2>2, <3>1, <3>2
  <2>4. IsLine(Appended(lines, e))
    BY <2>3, LinesAre
  <2>5. ASSUME NEW d, Covers(lines, d) PROVE Covers(Appended(lines, e), d)
    <3>1. PICK i \in DOMAIN lines : Outlives(lines[i], d)
      BY <2>5 DEF Covers
    <3>2. i # Len(lines)
      BY <1>2, <3>1, KnowledgeAssumption DEF HasOpenEnd, Outlives
    <3> QED
      BY <2>3, <3>1, <3>2 DEF Covers
  <2> QED
    BY <1>2, <2>4, <2>5
<1> QED
  BY <1>1, <1>2

LEMMA TornAppendCovers ==
  ASSUME NEW lines, IsLine(lines)
  PROVE  IsLine(TornAppend(lines)) /\ \A e : Covers(lines, e) => Covers(TornAppend(lines), e)
BY LineComesIn DEF TornAppend

KnowledgeTyped ==
  /\ now \in Nat /\ learnt \subseteq EntryType
  /\ \A e \in learnt : Lives(e) <= now + Month
  /\ DOMAIN index = Programs /\ DOMAIN phase = Programs /\ phase = [p \in Programs |-> phase[p]]
  /\ IsLine(file) /\ (temp = Nothing \/ IsLine(temp)) /\ \A p \in Programs : IsLine(index[p])

Here(p) == phase[p] # "off"
Renames == {"rename", "rename, index"}
Writes == {"write", "write, index"} \cup Renames

(* Only the knowledge base is written anew.                                *)
WritesKnowledge == \A p \in Programs : phase[p] \in Writes => keeper = "knowledge"

(* The processes follow one another, the file and the copy have everything *)
(* that was learned, and the file that takes the other's place is the copy *)
(* of the process that wrote it.                                           *)
OneKeepsAll ==
  /\ \A p, q \in Programs : Here(p) /\ Here(q) => p = q
  /\ CoversAll(file)
  /\ \A p \in Programs : Here(p) /\ keeper = "knowledge" => CoversAll(index[p])
  /\ \A p \in Programs : phase[p] \in Renames => temp = index[p]

KnowledgeInv == KnowledgeTyped /\ WritesKnowledge /\ (~met => OneKeepsAll)

LEMMA KnowledgeInvInit == KnowledgeInit => KnowledgeInv
<1> SUFFICES ASSUME KnowledgeInit PROVE KnowledgeInv
  OBVIOUS
<1>1. IsLine(<<>>)
  BY NothingIsALine
<1>2. KnowledgeTyped
  BY <1>1, KnowledgeAssumption DEF KnowledgeInit, KnowledgeTyped
<1>3. WritesKnowledge /\ OneKeepsAll
  BY DEF KnowledgeInit, WritesKnowledge, OneKeepsAll, Here, Writes, Renames, CoversAll
<1> QED
  BY <1>2, <1>3 DEF KnowledgeInv

LEMMA KnownIsKept ==
  ASSUME KnowledgeInv
  PROVE  KnowledgeKept
<1> SUFFICES ASSUME ~met, NEW e \in learnt, ~Expired(e)
             PROVE  \E r \in ToSet(Entries(file)) : r.ask = e.ask /\ r.answer = e.answer
  BY DEF KnowledgeKept
<1>1. e \in EntryType /\ now \in Nat /\ IsLine(file)
  BY DEF KnowledgeInv, KnowledgeTyped
<1>2. Lives(e) >= now
  BY <1>1, ExpiredAfter
<1>3. Covers(file, e)
  BY <1>2 DEF KnowledgeInv, OneKeepsAll, CoversAll
<1>4. Covers(Entries(file), e)
  BY <1>1, <1>3, EntriesCover
<1>5. PICK i \in DOMAIN Entries(file) : Outlives(Entries(file)[i], e)
  BY <1>4 DEF Covers
<1>6. Entries(file)[i] \in ToSet(Entries(file))
  BY DEF ToSet
<1> QED
  BY <1>5, <1>6 DEF Outlives

(* The clock and a start change nothing in the file.                       *)
LEMMA TickKeeps ==
  ASSUME KnowledgeInv, Tick
  PROVE  KnowledgeInv'
<1>1. now' = now + 1 /\ now \in Nat
  BY DEF KnowledgeInv, KnowledgeTyped, Tick
<1>2. UNCHANGED <<keeper, file, temp, phase, index, learnt, met>>
  BY DEF Tick
<1>3. \A e \in learnt : Lives(e) \in Nat
  BY ExpiredAfter DEF KnowledgeInv, KnowledgeTyped
<1>4. KnowledgeTyped'
  BY <1>1, <1>2, <1>3, KnowledgeAssumption DEF KnowledgeInv, KnowledgeTyped, IsLine, Lives, EntryType
<1>5. WritesKnowledge'
  BY <1>2 DEF KnowledgeInv, WritesKnowledge
<1>6. ASSUME NEW lines, CoversAll(lines)
      PROVE  \A e \in learnt' : Lives(e) >= now' => Covers(lines, e)
  BY <1>1, <1>2, <1>3, <1>6 DEF CoversAll
<1>7. ~met' => OneKeepsAll'
  BY <1>2, <1>6 DEF KnowledgeInv, OneKeepsAll, CoversAll, Here
<1> QED
  BY <1>4, <1>5, <1>7 DEF KnowledgeInv

LEMMA StartCovers ==
  ASSUME KnowledgeInv
  PROVE  /\ IsLine(Fresh(Readable(file))) /\ IsLine(Fresh(file))
         /\ ~met => CoversAll(Fresh(Readable(file)))
<1>1. IsLine(file) /\ now \in Nat /\ learnt \subseteq EntryType
  BY DEF KnowledgeInv, KnowledgeTyped
<1>2. /\ IsLine(Readable(file))
      /\ \A e : Covers(file, e) => Covers(Readable(file), e)
  BY <1>1, EntriesCover DEF Readable
<1>3. IsLine(Fresh(Readable(file))) /\ IsLine(Fresh(file))
  BY <1>1, <1>2, FreshCovers
<1>4. ASSUME ~met PROVE CoversAll(Fresh(Readable(file)))
  <2>1. CoversAll(file)
    BY <1>4 DEF KnowledgeInv, OneKeepsAll
  <2>2. \A e \in EntryType : Covers(Readable(file), e) /\ Lives(e) >= now
                               => Covers(Fresh(Readable(file)), e)
    BY <1>1, <1>2, FreshCovers
  <2> QED
    BY <1>1, <1>2, <2>1, <2>2 DEF CoversAll
<1> QED
  BY <1>3, <1>4

LEMMA StartProgramKeeps ==
  ASSUME KnowledgeInv, NEW p \in Programs, NEW bun \in BOOLEAN, StartProgram(p, bun)
  PROVE  KnowledgeInv'
<1> DEFINE found == IF keeper = "knowledge" THEN Readable(file) ELSE ReadStrictly(file)
<1>1. /\ phase[p] = "off" /\ index' = [index EXCEPT ![p] = Fresh(found)]
      /\ met' = (met \/ Alive # {})
      /\ UNCHANGED <<keeper, now, file, temp, learnt>>
  BY DEF StartProgram
<1>2. PICK next \in {"write", "idle"} :
        phase' = [phase EXCEPT ![p] = next] /\ (next = "write" => keeper = "knowledge")
  BY DEF StartProgram
<1>3. IsLine(Fresh(found))
  <2>1. CASE keeper = "knowledge"
    BY <2>1, StartCovers
  <2>2. CASE keeper # "knowledge"
    <3>1. now \in Nat /\ IsLine(<<>>)
      BY NothingIsALine DEF KnowledgeInv, KnowledgeTyped
    <3>2. IsLine(Fresh(<<>>))
      BY <3>1, FreshCovers
    <3>3. IsLine(Fresh(file)) /\ found \in {<<>>, Fresh(file)}
      BY <2>2, StartCovers DEF ReadStrictly
    <3>4. IsLine(Fresh(Fresh(file)))
      BY <3>1, <3>3, FreshCovers
    <3> QED
      BY <3>2, <3>3, <3>4
  <2> QED
    BY <2>1, <2>2
<1>4. ~met /\ keeper = "knowledge" => CoversAll(Fresh(found))
  BY StartCovers
<1> HIDE DEF found
<1>5. KnowledgeTyped'
  BY <1>1, <1>2, <1>3 DEF KnowledgeInv, KnowledgeTyped, IsLine, Lives
<1>6. WritesKnowledge'
  BY <1>1, <1>2 DEF KnowledgeInv, KnowledgeTyped, WritesKnowledge, Writes, Renames
<1>7. ASSUME ~met' PROVE OneKeepsAll'
  <2>1. ~met /\ \A q \in Programs : phase[q] = "off"
    BY <1>1, <1>7 DEF Alive
  <2>2. \A q \in Programs : Here(q)' => q = p
    BY <1>2, <2>1 DEF Here, KnowledgeInv, KnowledgeTyped
  <2>3. CoversAll(file)'
    BY <1>1, <2>1 DEF KnowledgeInv, OneKeepsAll, CoversAll
  <2>4. keeper' = "knowledge" => CoversAll(index[p])'
    <3>1. index'[p] = Fresh(found)
      BY <1>1 DEF KnowledgeInv, KnowledgeTyped
    <3> QED
      BY <1>1, <1>4, <2>1, <3>1 DEF CoversAll
  <2>5. \A q \in Programs : phase'[q] \notin Renames
    BY <1>2, <2>1 DEF Renames, KnowledgeInv, KnowledgeTyped
  <2> QED
    BY <2>2, <2>3, <2>4, <2>5 DEF OneKeepsAll
<1> QED
  BY <1>5, <1>6, <1>7 DEF KnowledgeInv

LEMMA StartTornKeeps ==
  ASSUME KnowledgeInv, NEW p \in Programs, StartTorn(p)
  PROVE  KnowledgeInv'
<1>1. UNCHANGED <<keeper, now, file, temp, phase, index, learnt>> /\ (met => met')
  BY DEF StartTorn
<1>2. KnowledgeTyped'
  BY <1>1 DEF KnowledgeInv, KnowledgeTyped, IsLine, Lives
<1>3. WritesKnowledge'
  BY <1>1 DEF KnowledgeInv, WritesKnowledge
<1>4. ~met' => OneKeepsAll'
  BY <1>1 DEF KnowledgeInv, OneKeepsAll, CoversAll, Here
<1> QED
  BY <1>2, <1>3, <1>4 DEF KnowledgeInv

LEMMA WriteTempKeeps ==
  ASSUME KnowledgeInv, NEW p \in Programs, WriteTemp(p)
  PROVE  KnowledgeInv'
<1>1. /\ phase[p] \in {"write", "write, index"} /\ temp' = index[p]
      /\ UNCHANGED <<keeper, now, file, index, learnt, met>>
  BY DEF WriteTemp
<1>2. PICK next \in Renames : phase' = [phase EXCEPT ![p] = next]
  BY DEF WriteTemp, Renames
<1>3. phase[p] \in Writes
  BY <1>1 DEF Writes
<1>4. KnowledgeTyped'
  BY <1>1, <1>2 DEF KnowledgeInv, KnowledgeTyped, IsLine, Lives
<1>5. WritesKnowledge'
  BY <1>1, <1>2, <1>3 DEF KnowledgeInv, KnowledgeTyped, WritesKnowledge
<1>6. ASSUME ~met' PROVE OneKeepsAll'
  <2>1. Here(p) /\ \A q \in Programs : Here(q)' <=> Here(q)
    BY <1>1, <1>2 DEF Here, Renames, KnowledgeInv, KnowledgeTyped
  <2>2. OneKeepsAll
    BY <1>1, <1>6 DEF KnowledgeInv
  <2>3. \A q \in Programs : phase'[q] \in Renames => q = p
    BY <2>1, <2>2 DEF OneKeepsAll, Here, Renames
  <2> QED
    BY <1>1, <2>1, <2>2, <2>3 DEF OneKeepsAll, CoversAll
<1> QED
  BY <1>4, <1>5, <1>6 DEF KnowledgeInv

LEMMA RenameKeeps ==
  ASSUME KnowledgeInv, NEW p \in Programs, Rename(p)
  PROVE  KnowledgeInv'
<1>1. /\ phase[p] \in Renames /\ phase' = [phase EXCEPT ![p] = "idle"]
      /\ file' = (IF temp = Nothing THEN file ELSE temp) /\ temp' = Nothing
      /\ UNCHANGED <<keeper, now, index, learnt, met>>
  BY DEF Rename, Renames
<1>2. KnowledgeTyped'
  BY <1>1 DEF KnowledgeInv, KnowledgeTyped, IsLine, Lives
<1>3. WritesKnowledge'
  BY <1>1 DEF KnowledgeInv, KnowledgeTyped, WritesKnowledge, Writes, Renames
<1>4. ASSUME ~met' PROVE OneKeepsAll'
  <2>1. Here(p) /\ \A q \in Programs : Here(q)' <=> Here(q)
    BY <1>1 DEF Here, Renames, KnowledgeInv, KnowledgeTyped
  <2>2. OneKeepsAll
    BY <1>1, <1>4 DEF KnowledgeInv
  <2>3. keeper = "knowledge" /\ temp = index[p]
    BY <1>1, <2>2 DEF KnowledgeInv, WritesKnowledge, Writes, OneKeepsAll
  <2>4. CoversAll(file)'
    <3>1. CoversAll(file) /\ CoversAll(index[p])
      BY <2>1, <2>2, <2>3 DEF OneKeepsAll
    <3> QED
      BY <1>1, <2>3, <3>1 DEF CoversAll
  <2>5. \A q \in Programs : phase'[q] \notin Renames
    BY <1>1, <2>1, <2>2 DEF Renames, Here, OneKeepsAll, KnowledgeInv, KnowledgeTyped
  <2> QED
    BY <1>1, <2>1, <2>2, <2>4, <2>5 DEF OneKeepsAll, CoversAll
<1> QED
  BY <1>2, <1>3, <1>4 DEF KnowledgeInv

(* An entry that is new lives a month at most, and so it outlives no entry *)
(* that was learned before it, and none outlives it for long.              *)
NewEntry(e) ==
  /\ e \in EntryType /\ e.stamp = now /\ e.expires \in {Never, now + Month}

LEMMA NewEntryLives ==
  ASSUME now \in Nat, NEW e, NewEntry(e)
  PROVE  e \in EntryType /\ Lives(e) = now + Month
BY DEF NewEntry, Lives

(* The entry is appended to the file and to the copy.                      *)
LEMMA LearnKeeps ==
  ASSUME KnowledgeInv, NEW p \in Programs, NEW e, NewEntry(e), Idle(p), Learn(p, e),
         index' = [index EXCEPT ![p] = Append(@, e)],
         UNCHANGED <<keeper, now, temp, phase, met>>
  PROVE  KnowledgeInv'
<1>1. /\ IsLine(file) /\ IsLine(index[p]) /\ now \in Nat /\ learnt \subseteq EntryType
      /\ DOMAIN index = Programs
  BY DEF KnowledgeInv, KnowledgeTyped
<1>2. e \in EntryType /\ Lives(e) = now + Month /\ Month \in Nat
  BY <1>1, NewEntryLives, KnowledgeAssumption
<1>3. /\ file' = Appended(file, e)
      /\ learnt' \in {learnt, learnt \cup {e}} /\ (HasOpenEnd(file) => learnt' = learnt)
  BY DEF Learn
<1>4. index'[p] = Append(index[p], e) /\ \A q \in Programs : q # p => index'[q] = index[q]
  BY <1>1
<1>5. IsLine(file)' /\ IsLine(index'[p])
  BY <1>1, <1>2, <1>3, <1>4, AppendedCovers, LineComesIn DEF IsLine
<1>6. KnowledgeTyped'
  <2>1. learnt' \subseteq EntryType /\ \A d \in learnt' : Lives(d) <= now + Month
    <3>1. \A d \in learnt : Lives(d) <= now + Month
      BY DEF KnowledgeInv, KnowledgeTyped
    <3> QED
      BY <1>1, <1>2, <1>3, <3>1
  <2>2. \A q \in Programs : IsLine(index'[q])
    BY <1>4, <1>5 DEF KnowledgeInv, KnowledgeTyped
  <2> QED
    BY <1>5, <2>1, <2>2 DEF KnowledgeInv, KnowledgeTyped, IsLine, Lives
<1>7. WritesKnowledge'
  BY DEF KnowledgeInv, WritesKnowledge
<1>8. ASSUME ~met' PROVE OneKeepsAll'
  <2>1. OneKeepsAll
    BY <1>8 DEF KnowledgeInv
  <2>2. Outlives(e, e)
    BY <1>1, <1>2 DEF Outlives
  <2>3. CoversAll(file)'
    <3>1. \A d \in learnt : Covers(file, d) => Covers(Appended(file, e), d)
      BY <1>1, <1>2, AppendedCovers
    <3>2. ~HasOpenEnd(file) => Covers(Appended(file, e), e)
      BY <1>1, <1>2, <2>2, AppendedCovers
    <3> QED
      BY <1>3, <2>1, <3>1, <3>2 DEF OneKeepsAll, CoversAll
  <2>4. Here(p) /\ keeper = "knowledge" => CoversAll(index[p])'
    <3>1. Covers(Append(index[p], e), e)
      BY <1>1, <2>2, LineComesIn
    <3>2. \A d \in learnt : Covers(index[p], d) => Covers(Append(index[p], e), d)
      BY <1>1, LineComesIn
    <3> QED
      BY <1>3, <1>4, <2>1, <3>1, <3>2 DEF OneKeepsAll, CoversAll
  <2>5. \A q \in Programs : Here(q)' <=> Here(q)
    BY DEF Here
  <2>6. \A q \in Programs : Here(q) => q = p
    BY <2>1 DEF OneKeepsAll, Here, Idle
  <2>7. \A q \in Programs : phase'[q] \notin Renames
    BY <2>6 DEF Here, Idle, Renames
  <2> QED
    BY <2>1, <2>3, <2>4, <2>5, <2>6, <2>7 DEF OneKeepsAll
<1> QED
  BY <1>6, <1>7, <1>8 DEF KnowledgeInv

LEMMA StoreKeeps ==
  ASSUME KnowledgeInv, NEW p \in Programs, NEW q \in Questions, NEW a \in Answers,
         Store(p, q, a)
  PROVE  KnowledgeInv'
<1>1. PICK e : e = [ask |-> q, answer |-> a, stamp |-> now, expires |-> Never]
  OBVIOUS
<1>2. NewEntry(e)
  BY <1>1 DEF NewEntry, EntryType, KnowledgeInv, KnowledgeTyped
<1>3. /\ Idle(p) /\ Learn(p, e) /\ index' = [index EXCEPT ![p] = Append(@, e)]
      /\ UNCHANGED <<keeper, now, temp, phase, met>>
  BY <1>1 DEF Store
<1> QED
  BY <1>2, <1>3, LearnKeeps

(* A fact that is known becomes younger in its place.                      *)
LEMMA YoungerCovers ==
  ASSUME now \in Nat, NEW lines, IsLine(lines), NEW first
  PROVE  LET younger == [lines EXCEPT ![first].stamp = now]
         IN /\ IsLine(younger)
            /\ \A e : Lives(e) <= now + Month /\ Covers(lines, e) => Covers(younger, e)
<1> DEFINE younger == [lines EXCEPT ![first].stamp = now]
<1>1. DOMAIN lines = 1..Len(lines) /\ Len(lines) \in Nat
  BY LinesOf
<1>2. /\ DOMAIN younger = DOMAIN lines
      /\ \A i \in DOMAIN lines :
           younger[i] = IF i = first THEN [lines[i] EXCEPT !.stamp = now] ELSE lines[i]
  OBVIOUS
<1>3. younger \in [1..Len(lines) -> {younger[i] : i \in 1..Len(lines)}]
  BY <1>1
<1> HIDE DEF younger
<1>4. IsLine(younger)
  <2>1. younger \in Seq({younger[i] : i \in 1..Len(lines)})
    BY <1>1, <1>3
  <2> QED
    BY <2>1, LinesAre
<1>5. ASSUME NEW e, Lives(e) <= now + Month, Covers(lines, e)
      PROVE  Covers(younger, e)
  <2>1. PICK i \in DOMAIN lines : Outlives(lines[i], e)
    BY <1>5 DEF Covers
  <2>2. lines[i] \in EntryType
    BY <2>1 DEF Outlives
  <2>3. CASE i # first
    BY <1>2, <2>1, <2>3 DEF Covers
  <2>4. CASE i = first
    <3>1. younger[i] = [lines[i] EXCEPT !.stamp = now]
      BY <1>2, <2>4
    <3>2. /\ younger[i] \in EntryType /\ younger[i].ask = lines[i].ask
          /\ younger[i].answer = lines[i].answer /\ younger[i].expires = lines[i].expires
          /\ younger[i].stamp = now
      BY <2>2, <3>1 DEF EntryType
    <3>3. Lives(younger[i]) \in {Lives(lines[i]), now + Month}
      BY <3>2 DEF Lives
    <3>4. Outlives(younger[i], e)
      BY <1>5, <2>1, <3>2, <3>3 DEF Outlives
    <3> QED
      BY <1>2, <3>4 DEF Covers
  <2> QED
    BY <2>3, <2>4
<1> QED
  BY <1>4, <1>5 DEF younger

LEMMA CopyChanges ==
  ASSUME KnowledgeInv, NEW p \in Programs, NEW lines, IsLine(lines),
         keeper = "knowledge", Idle(p), ~met => CoversAll(lines),
         index' = [index EXCEPT ![p] = lines],
         NEW next \in {"idle", "write, index"}, phase' = [phase EXCEPT ![p] = next],
         UNCHANGED <<keeper, now, file, temp, learnt, met>>
  PROVE  KnowledgeInv'
<1>1. KnowledgeTyped'
  BY DEF KnowledgeInv, KnowledgeTyped, IsLine, Lives
<1>2. WritesKnowledge'
  BY DEF KnowledgeInv, KnowledgeTyped, WritesKnowledge
<1>3. ASSUME ~met' PROVE OneKeepsAll'
  <2>1. OneKeepsAll /\ CoversAll(lines)
    BY <1>3 DEF KnowledgeInv
  <2>2. Here(p) /\ \A q \in Programs : Here(q)' <=> Here(q)
    BY DEF Here, Idle, KnowledgeInv, KnowledgeTyped
  <2>3. \A q \in Programs : Here(q) => q = p
    BY <2>1, <2>2 DEF OneKeepsAll
  <2>4. CoversAll(file)' /\ CoversAll(index[p])'
    BY <2>1 DEF OneKeepsAll, CoversAll, KnowledgeInv, KnowledgeTyped
  <2>5. \A q \in Programs : phase'[q] \notin Renames
    BY <2>3 DEF Here, Renames, KnowledgeInv, KnowledgeTyped
  <2> QED
    BY <2>2, <2>3, <2>4, <2>5 DEF OneKeepsAll
<1> QED
  BY <1>1, <1>2, <1>3 DEF KnowledgeInv

LEMMA StoreFactKeeps ==
  ASSUME KnowledgeInv, NEW p \in Programs, NEW q \in Questions, NEW a \in Answers,
         StoreFact(p, q, a)
  PROVE  KnowledgeInv'
<1>1. PICK e : e = [ask |-> q, answer |-> a, stamp |-> now, expires |-> now + Month]
  OBVIOUS
<1>2. PICK same : same = {i \in DOMAIN index[p] : Alike(index[p][i], q, a)}
  OBVIOUS
<1>3. PICK first : first = CHOOSE i \in same : \A j \in same : i <= j
  OBVIOUS
<1>4. /\ keeper = "knowledge" /\ Idle(p) /\ UNCHANGED <<keeper, now, temp, phase, met>>
      /\ IF same # {}
         THEN /\ index' = [index EXCEPT ![p][first].stamp = now]
              /\ UNCHANGED <<file, learnt>>
         ELSE Learn(p, e) /\ index' = [index EXCEPT ![p] = Append(@, e)]
  BY <1>1, <1>2, <1>3 DEF StoreFact
<1>5. CASE same # {}
  <2>1. PICK younger : younger = [index[p] EXCEPT ![first].stamp = now]
    OBVIOUS
  <2>2. index' = [index EXCEPT ![p] = younger]
    BY <1>4, <1>5, <2>1
  <2>3. now \in Nat /\ IsLine(index[p])
    BY DEF KnowledgeInv, KnowledgeTyped
  <2>4. /\ IsLine(younger)
        /\ \A d : Lives(d) <= now + Month /\ Covers(index[p], d) => Covers(younger, d)
    BY <2>1, <2>3, YoungerCovers
  <2>5. ~met => CoversAll(younger)
    <3>1. \A d \in learnt : Lives(d) <= now + Month
      BY DEF KnowledgeInv, KnowledgeTyped
    <3>2. ~met => CoversAll(index[p])
      BY <1>4 DEF KnowledgeInv, OneKeepsAll, Here, Idle
    <3> QED
      BY <2>4, <3>1, <3>2 DEF CoversAll
  <2>6. phase' = [phase EXCEPT ![p] = "idle"]
    <3>1. phase = [r \in Programs |-> phase[r]] /\ phase[p] = "idle"
      BY <1>4 DEF Idle, KnowledgeInv, KnowledgeTyped
    <3> QED
      BY <1>4, <3>1
  <2> QED
    BY <1>4, <1>5, <2>2, <2>4, <2>5, <2>6, CopyChanges
<1>6. CASE same = {}
  <2>1. NewEntry(e)
    BY <1>1, KnowledgeAssumption DEF NewEntry, EntryType, KnowledgeInv, KnowledgeTyped
  <2> QED
    BY <1>4, <1>6, <2>1, LearnKeeps
<1> QED
  BY <1>5, <1>6

LEMMA ReconcileKeeps ==
  ASSUME KnowledgeInv, NEW p \in Programs, Reconcile(p)
  PROVE  KnowledgeInv'
<1>1. PICK fresh : fresh = Fresh(index[p])
  OBVIOUS
<1>2. /\ keeper = "knowledge" /\ Idle(p) /\ index' = [index EXCEPT ![p] = fresh]
      /\ UNCHANGED <<keeper, now, file, temp, learnt, met>>
      /\ \/ phase' = [phase EXCEPT ![p] = "write, index"]
         \/ UNCHANGED phase
  BY <1>1 DEF Reconcile
<1>3. PICK next \in {"idle", "write, index"} : phase' = [phase EXCEPT ![p] = next]
  <2>1. UNCHANGED phase => phase' = [phase EXCEPT ![p] = "idle"]
    <3>1. phase = [q \in Programs |-> phase[q]] /\ phase[p] = "idle"
      BY <1>2 DEF Idle, KnowledgeInv, KnowledgeTyped
    <3> QED
      BY <3>1
  <2> QED
    BY <1>2, <2>1
<1>4. now \in Nat /\ IsLine(index[p]) /\ learnt \subseteq EntryType
  BY DEF KnowledgeInv, KnowledgeTyped
<1>5. /\ IsLine(fresh)
      /\ \A e \in EntryType : Covers(index[p], e) /\ Lives(e) >= now => Covers(fresh, e)
  BY <1>1, <1>4, FreshCovers
<1>6. ~met => CoversAll(fresh)
  <2>1. ~met => CoversAll(index[p])
    BY <1>2 DEF KnowledgeInv, OneKeepsAll, Here, Idle
  <2> QED
    BY <1>4, <1>5, <2>1 DEF CoversAll
<1> QED
  BY <1>2, <1>3, <1>5, <1>6, CopyChanges

(* The process ends, the file has lost nothing.                            *)
LEMMA EndKeeps ==
  ASSUME KnowledgeInv, NEW p \in Programs, IsLine(file)',
         \A e : Covers(file, e) => Covers(file, e)',
         phase' = [phase EXCEPT ![p] = "off"], index' = [index EXCEPT ![p] = <<>>],
         UNCHANGED <<keeper, now, temp, learnt, met>>
  PROVE  KnowledgeInv'
<1>1. KnowledgeTyped'
  BY NothingIsALine DEF KnowledgeInv, KnowledgeTyped, IsLine, Lives
<1>2. WritesKnowledge'
  BY DEF KnowledgeInv, KnowledgeTyped, WritesKnowledge, Writes, Renames
<1>3. ASSUME ~met' PROVE OneKeepsAll'
  <2>1. OneKeepsAll
    BY <1>3 DEF KnowledgeInv
  <2>2. \A q \in Programs : Here(q)' => Here(q) /\ q # p /\ index'[q] = index[q]
    BY DEF Here, KnowledgeInv, KnowledgeTyped
  <2>3. CoversAll(file)'
    BY <2>1 DEF OneKeepsAll, CoversAll
  <2>4. \A q \in Programs : Here(q)' /\ keeper = "knowledge" => CoversAll(index[q])'
    BY <2>1, <2>2 DEF OneKeepsAll, CoversAll
  <2>5. \A q \in Programs : phase'[q] \in Renames => temp = index'[q]
    BY <2>1, <2>2 DEF OneKeepsAll, Here, Renames, KnowledgeInv, KnowledgeTyped
  <2> QED
    BY <2>1, <2>2, <2>3, <2>4, <2>5 DEF OneKeepsAll
<1> QED
  BY <1>1, <1>2, <1>3 DEF KnowledgeInv

LEMMA KnowledgeInvNext ==
  ASSUME KnowledgeInv, [KnowledgeNext]_knowledgeVars
  PROVE  KnowledgeInv'
<1>1. ASSUME NEW p \in Programs, EndProgram(p) PROVE KnowledgeInv'
  <2>1. /\ file' = file
        /\ phase' = [phase EXCEPT ![p] = "off"] /\ index' = [index EXCEPT ![p] = <<>>]
        /\ UNCHANGED <<keeper, now, temp, learnt, met>>
    BY <1>1 DEF EndProgram
  <2>2. IsLine(file)' /\ \A e : Covers(file, e) => Covers(file, e)'
    BY <2>1 DEF KnowledgeInv, KnowledgeTyped, IsLine, Covers
  <2> QED
    BY <2>1, <2>2, EndKeeps
<1>2. ASSUME NEW p \in Programs, StopTorn(p) PROVE KnowledgeInv'
  <2>1. /\ file' = TornAppend(file)
        /\ phase' = [phase EXCEPT ![p] = "off"] /\ index' = [index EXCEPT ![p] = <<>>]
        /\ UNCHANGED <<keeper, now, temp, learnt, met>>
    BY <1>2 DEF StopTorn
  <2>2. IsLine(TornAppend(file)) /\ \A e : Covers(file, e) => Covers(TornAppend(file), e)
    BY TornAppendCovers DEF KnowledgeInv, KnowledgeTyped
  <2>3. IsLine(file)' /\ \A e : Covers(file, e) => Covers(file, e)'
    BY <2>1, <2>2 DEF IsLine, Covers, Outlives, Lives
  <2> QED
    BY <2>1, <2>3, EndKeeps
<1>3. ASSUME NEW p \in Programs, NEW q \in Questions, NEW a \in Answers,
             NEW t \in {"research", "error"}, DistillAndStore(p, t, q, a)
      PROVE  KnowledgeInv'
  BY <1>3, StoreKeeps, StoreFactKeeps DEF DistillAndStore
<1>4. CASE UNCHANGED knowledgeVars
  <2>1. UNCHANGED <<keeper, now, file, temp, phase, index, learnt, met>>
    BY <1>4 DEF knowledgeVars
  <2> QED
    BY <2>1 DEF KnowledgeInv, KnowledgeTyped, WritesKnowledge, OneKeepsAll, CoversAll,
                Covers, Here, IsLine, Outlives, Lives
<1> QED
  BY <1>1, <1>2, <1>3, <1>4, TickKeeps, StartProgramKeeps, StartTornKeeps, WriteTempKeeps,
     RenameKeeps, ReconcileKeeps, StoreKeeps DEF KnowledgeNext

(* What was learned is not lost before its time as long as the processes   *)
(* follow one another, whatever was torn, written anew or interrupted, for *)
(* any number of processes, entries and crashes.                           *)
THEOREM KnowledgeStays == Spec => []KnowledgeKept
<1>1. Init => KnowledgeInv
  BY KnowledgeInvInit DEF Init
<1>2. KnowledgeInv /\ [Next]_sessions => KnowledgeInv'
  <2>1. [Next]_sessions => [KnowledgeNext]_knowledgeVars
    BY DEF Next, sessions, FilesStep, TranscriptStep, KnowledgeStep, DigestStep, ThoughtsStep,
           StoreStep, StagedStep
  <2> QED
    BY <2>1, KnowledgeInvNext
<1> QED
  BY <1>1, <1>2, KnownIsKept, PTL DEF Spec

----------------------------------------------------------------------------
(* The store of a session.  Batches are numbered in the order of the       *)
(* calls, so a new one meets none of the rows that are there.              *)

MessageRow == [batch : Nat, at : Nat, of : Nat, words : Wordings]

InStore == ToSet(database.messages)

StoreInv ==
  /\ DOMAIN database = {"messages", "rounds", "points"}
  /\ database.messages \in Seq(MessageRow)
  /\ batch \in Nat
  /\ \A m \in InStore : m.batch <= batch
  /\ WholeBatches

LEMMA BatchRows ==
  ASSUME NEW n \in Nat, NEW wordings \in [1..n -> Wordings], batch \in Nat
  PROVE  /\ BatchOf(wordings) \in Seq(MessageRow) /\ Len(BatchOf(wordings)) = n
         /\ \A r \in ToSet(BatchOf(wordings)) : r.batch = batch + 1 /\ r.of = n
         /\ IsFiniteSet(ToSet(BatchOf(wordings)))
         /\ Cardinality(ToSet(BatchOf(wordings))) = n
<1> DEFINE rows == BatchOf(wordings)
           set == ToSet(rows)
<1>1. DOMAIN wordings = 1..n /\ Len(wordings) = n /\ \A i \in 1..n : wordings[i] \in Wordings
  <2>1. wordings \in Seq(Wordings)
    OBVIOUS
  <2> QED
    BY <2>1
<1>2. rows = [i \in 1..n |-> [batch |-> batch + 1, at |-> i, of |-> n, words |-> wordings[i]]]
  BY <1>1 DEF BatchOf
<1> HIDE DEF rows
<1>3. \A i \in 1..n : rows[i].batch = batch + 1 /\ rows[i].at = i /\ rows[i].of = n
  BY <1>2
<1>4. \A i \in 1..n : rows[i] \in MessageRow
  <2> SUFFICES ASSUME NEW i \in 1..n PROVE rows[i] \in MessageRow
    OBVIOUS
  <2>1. batch + 1 \in Nat /\ i \in Nat /\ wordings[i] \in Wordings
    BY <1>1
  <2>2. rows[i] = [batch |-> batch + 1, at |-> i, of |-> n, words |-> wordings[i]]
    BY <1>2
  <2> QED
    BY <2>1, <2>2 DEF MessageRow
<1>5. rows \in [1..n -> MessageRow]
  BY <1>2, <1>4
<1>6. rows \in Seq(MessageRow) /\ Len(rows) = n /\ DOMAIN rows = 1..n
  BY <1>5
<1>7. \A r \in set : r.batch = batch + 1 /\ r.of = n
  BY <1>3, <1>6 DEF ToSet
<1>8. rows \in Bijection(1..n, set)
  <2>1. \A i, j \in 1..n : rows[i] = rows[j] => i = j
    <3> SUFFICES ASSUME NEW i \in 1..n, NEW j \in 1..n, rows[i] = rows[j] PROVE i = j
      OBVIOUS
    <3>1. rows[i].at = i /\ rows[j].at = j
      BY <1>3
    <3> QED
      BY <3>1
  <2>2. rows \in Surjection(1..n, set)
    BY <1>5, <1>6 DEF ToSet, Surjection
  <2>3. rows \in Injection(1..n, set)
    BY <1>5, <1>6, <2>1 DEF Injection, IsInjective, ToSet
  <2> HIDE DEF set
  <2> QED
    BY <2>2, <2>3 DEF Bijection
<1>9. IsFiniteSet(set) /\ Cardinality(set) = n
  <2>1. ExistsBijection(1..n, set)
    BY <1>8 DEF ExistsBijection
  <2>2. IsFiniteSet(1..n) /\ Cardinality(1..n) = n
    BY FS_Interval
  <2> HIDE DEF set
  <2> QED
    BY <2>1, <2>2, FS_Bijection
<1> QED
  BY <1>6, <1>7, <1>9 DEF rows

(* Of a call as a whole the rows are counted right, and so are the others. *)
LEMMA BatchArrives ==
  ASSUME StoreInv, NEW n \in 1..MaxBatch, NEW wordings \in [1..n -> Wordings],
         database' = [database EXCEPT !.messages = @ \o BatchOf(wordings)],
         batch' = batch + 1, whole' \in {whole, whole \cup {batch + 1}}
  PROVE  StoreInv'
<1> DEFINE new == ToSet(BatchOf(wordings))
<1>1. n \in Nat \ {0}
  BY StoreAssumption
<1>2. /\ BatchOf(wordings) \in Seq(MessageRow) /\ Len(BatchOf(wordings)) = n
      /\ \A r \in new : r.batch = batch + 1 /\ r.of = n
      /\ IsFiniteSet(new) /\ Cardinality(new) = n
  BY <1>1, BatchRows DEF StoreInv
<1>3. /\ DOMAIN database' = {"messages", "rounds", "points"}
      /\ database'.messages = database.messages \o BatchOf(wordings)
  BY DEF StoreInv
<1>4. database'.messages \in Seq(MessageRow) /\ InStore' = InStore \cup new
  BY <1>2, <1>3, JoinedRows DEF StoreInv, InStore
<1> HIDE DEF new
<1>5. \A m \in InStore : m.batch <= batch /\ m.batch \in Nat
  <2>1. \A m \in InStore : m \in MessageRow
    BY DEF StoreInv, InStore, ToSet
  <2> QED
    BY <2>1 DEF StoreInv, MessageRow
<1>6. batch' \in Nat /\ \A m \in InStore' : m.batch <= batch'
  BY <1>2, <1>4, <1>5 DEF StoreInv
<1>7. new # {}
  BY <1>1, <1>2, FS_EmptySet
<1>8. whole' \subseteq {m.batch : m \in InStore'}
  <2>1. whole \subseteq {m.batch : m \in InStore}
    BY DEF StoreInv, WholeBatches, InStore
  <2>2. PICK r \in new : r.batch = batch + 1
    BY <1>2, <1>7
  <2> QED
    BY <1>4, <2>1, <2>2
<1>9. ASSUME NEW m \in InStore'
      PROVE  Cardinality({o \in InStore' : o.batch = m.batch}) = m.of
  <2>1. CASE m \in InStore
    <3>1. {o \in InStore' : o.batch = m.batch} = {o \in InStore : o.batch = m.batch}
      BY <1>2, <1>4, <1>5, <2>1 DEF StoreInv
    <3>2. Cardinality({o \in InStore : o.batch = m.batch}) = m.of
      BY <2>1 DEF StoreInv, WholeBatches, InStore
    <3> QED
      BY <3>1, <3>2
  <2>2. CASE m \in new
    <3>1. {o \in InStore' : o.batch = m.batch} = new
      BY <1>2, <1>4, <1>5, <2>2 DEF StoreInv
    <3> QED
      BY <1>2, <2>2, <3>1
  <2> QED
    BY <1>4, <1>9, <2>1, <2>2
<1>10. WholeBatches'
  BY <1>8, <1>9 DEF WholeBatches, InStore
<1> QED
  BY <1>3, <1>4, <1>6, <1>10 DEF StoreInv

(* What is not about messages.                                             *)
LEMMA MessagesStay ==
  ASSUME StoreInv, UNCHANGED <<batch, whole>>,
         \/ UNCHANGED database
         \/ \E rows : database' = [database EXCEPT !.rounds = rows]
         \/ \E rows : database' = [database EXCEPT !.points = rows]
  PROVE  StoreInv'
<1>1. DOMAIN database' = {"messages", "rounds", "points"} /\ database'.messages = database.messages
  BY DEF StoreInv
<1>2. InStore' = InStore
  BY <1>1 DEF InStore
<1>3. WholeBatches'
  BY <1>1 DEF StoreInv, WholeBatches
<1> QED
  BY <1>1, <1>2, <1>3 DEF StoreInv

LEMMA StoreInvNext ==
  ASSUME StoreInv, [StoreNext]_storeVars
  PROVE  StoreInv'
<1>1. CASE OpenSession \/ CloseSession \/ LoadLatest \/ UNCHANGED storeVars
  BY <1>1, MessagesStay DEF OpenSession, CloseSession, LoadLatest, storeVars
<1>2. CASE CompleteRound
  BY <1>2, MessagesStay DEF CompleteRound
<1>3. ASSUME NEW n \in 1..MaxBatch, NEW wordings \in [1..n -> Wordings], AddBatch(wordings)
      PROVE  StoreInv'
  BY <1>3, BatchArrives DEF AddBatch
<1>4. ASSUME NEW n \in 1..MaxBatch, NEW wordings \in [1..n -> Wordings], CrashInAdd(wordings)
      PROVE  StoreInv'
  <2>1. CASE database' = [database EXCEPT !.messages = @ \o BatchOf(wordings)]
    BY <1>4, <2>1, BatchArrives DEF CrashInAdd
  <2>2. CASE database' = [database EXCEPT !.messages = @ \o <<>>]
    <3>1. database'.messages = database.messages /\ DOMAIN database' = {"messages", "rounds", "points"}
      BY <2>2 DEF StoreInv
    <3>2. InStore' = InStore /\ whole' = whole /\ batch' = batch + 1
      BY <1>4, <3>1 DEF CrashInAdd, InStore
    <3>3. WholeBatches'
      BY <3>1, <3>2 DEF StoreInv, WholeBatches
    <3>4. \A m \in InStore : m.batch \in Nat
      <4>1. \A m \in InStore : m \in MessageRow
        BY DEF StoreInv, InStore, ToSet
      <4> QED
        BY <4>1 DEF MessageRow
    <3>5. \A m \in InStore' : m.batch <= batch'
      BY <3>2, <3>4 DEF StoreInv
    <3> QED
      BY <3>1, <3>2, <3>3, <3>5 DEF StoreInv
  <2> QED
    BY <1>4, <2>1, <2>2 DEF CrashInAdd, CutShort
<1>5. ASSUME NEW n \in RoundNumbers, StartRound(n)
      PROVE  StoreInv'
  BY <1>5, MessagesStay DEF StartRound
<1>6. ASSUME NEW n \in RoundNumbers, SavePoint(n)
      PROVE  StoreInv'
  <2>1. PICK kept : database' = [database EXCEPT !.points = kept]
    BY <1>6 DEF SavePoint
  <2> QED
    BY <1>6, <2>1, MessagesStay DEF SavePoint
<1> QED
  BY <1>1, <1>2, <1>3, <1>4, <1>5, <1>6 DEF StoreNext

LEMMA StoreInvInit == Init => StoreInv
<1> SUFFICES ASSUME Init PROVE StoreInv
  OBVIOUS
<1>1. database = EmptySession /\ batch = 0 /\ whole = {}
  BY DEF Init, StoreInit
<1>2. <<>> \in Seq(MessageRow) /\ ToSet(<<>>) = {}
  BY DEF ToSet
<1>3. database.messages = <<>> /\ DOMAIN database = {"messages", "rounds", "points"}
  BY <1>1 DEF EmptySession
<1>4. InStore = {}
  BY <1>2, <1>3 DEF InStore
<1>5. WholeBatches
  BY <1>1, <1>4 DEF WholeBatches, InStore
<1> QED
  BY <1>1, <1>2, <1>3, <1>4, <1>5 DEF StoreInv

(* The file holds what the database does, until a crash cuts a call short. *)
PagesInv ==
  /\ StoreInv
  /\ DOMAIN loaded = {"messages", "rounds", "points"}
  /\ "crash" \notin apart =>
       /\ jsonFile.messages = database.messages
       /\ opened.open => loaded.messages = database.messages

LEMMA PagesInvNext ==
  ASSUME PagesInv, [StoreNext]_storeVars
  PROVE  PagesInv'
<1>0. /\ StoreInv' /\ DOMAIN database = {"messages", "rounds", "points"}
      /\ \A messages : FileOf(messages).messages = messages
  BY StoreInvNext DEF PagesInv, StoreInv, FileOf
<1>1. CASE OpenSession
  <2>1. loaded' = LoadFallback /\ UNCHANGED <<database, jsonFile>> /\ apart \subseteq apart'
    BY <1>1 DEF OpenSession
  <2>2. loaded'.messages = jsonFile.messages /\ DOMAIN loaded' = {"messages", "rounds", "points"}
    BY <2>1 DEF LoadFallback, EmptySession
  <2> QED
    BY <1>0, <2>1, <2>2 DEF PagesInv
<1>2. CASE CloseSession
  BY <1>0, <1>2 DEF CloseSession, PagesInv
<1>3. CASE CompleteRound
  <2>1. /\ database' = [database EXCEPT !.rounds = Ended(@)]
        /\ loaded'   = [loaded EXCEPT !.rounds = Ended(@)]
        /\ UNCHANGED <<jsonFile, opened, apart>>
    BY <1>3 DEF CompleteRound
  <2> QED
    BY <1>0, <2>1 DEF PagesInv
<1>4. CASE LoadLatest
  <2>1. loaded' = [loaded EXCEPT !.points = Descending(@)] /\ UNCHANGED <<database, jsonFile, opened, apart>>
    BY <1>4 DEF LoadLatest
  <2> QED
    BY <1>0, <2>1 DEF PagesInv
<1>5. ASSUME NEW n \in 1..MaxBatch, NEW wordings \in [1..n -> Wordings], AddBatch(wordings)
      PROVE  PagesInv'
  <2> DEFINE rows == BatchOf(wordings)
  <2>1. /\ database' = [database EXCEPT !.messages = @ \o rows]
        /\ loaded' = [loaded EXCEPT !.messages = @ \o rows]
        /\ jsonFile' = FileOf(loaded'.messages) /\ UNCHANGED <<opened, apart>> /\ opened.open
    BY <1>5 DEF AddBatch
  <2> HIDE DEF rows
  <2>2. /\ database'.messages = database.messages \o rows /\ loaded'.messages = loaded.messages \o rows
        /\ DOMAIN loaded' = {"messages", "rounds", "points"} /\ jsonFile'.messages = loaded'.messages
    BY <1>0, <2>1 DEF PagesInv
  <2> QED
    BY <1>0, <2>1, <2>2 DEF PagesInv
<1>6. ASSUME NEW n \in 1..MaxBatch, NEW wordings \in [1..n -> Wordings], CrashInAdd(wordings)
      PROVE  PagesInv'
  <2>1. "crash" \in apart' /\ UNCHANGED loaded
    BY <1>6 DEF CrashInAdd
  <2> QED
    BY <1>0, <2>1 DEF PagesInv
<1>7. ASSUME NEW n \in RoundNumbers, StartRound(n)
      PROVE  PagesInv'
  <2>1. PICK a, b : /\ database' = [database EXCEPT !.rounds = a]
                    /\ loaded' = [loaded EXCEPT !.rounds = b]
    BY <1>7 DEF StartRound
  <2>2. UNCHANGED <<jsonFile, opened>> /\ apart \subseteq apart'
    BY <1>7 DEF StartRound, Noted
  <2> QED
    BY <1>0, <2>1, <2>2 DEF PagesInv
<1>8. ASSUME NEW n \in RoundNumbers, SavePoint(n)
      PROVE  PagesInv'
  <2>1. PICK a, b : /\ database' = [database EXCEPT !.points = a]
                    /\ loaded' = [loaded EXCEPT !.points = b]
    BY <1>8 DEF SavePoint
  <2>2. UNCHANGED <<jsonFile, opened>> /\ apart \subseteq apart'
    BY <1>8 DEF SavePoint, Noted
  <2> QED
    BY <1>0, <2>1, <2>2 DEF PagesInv
<1>9. CASE UNCHANGED storeVars
  BY <1>0, <1>9 DEF storeVars, PagesInv
<1> QED
  BY <1>1, <1>2, <1>3, <1>4, <1>5, <1>6, <1>7, <1>8, <1>9 DEF StoreNext

(* What the full-text search finds has every word of the query in it.      *)
LEMMA FoundIsLike ==
  ASSUME NEW q \in Queries, NEW m \in MessageRow, Fts(q, m)
  PROVE  Like(q, m)
<1>1. /\ q \in Seq(STRING) /\ q # <<>> /\ Len(q) \in Nat \ {0} /\ DOMAIN q = 1..Len(q)
      /\ PrefixOf \subseteq PartOf
  BY StoreAssumption
<1>2. m.words \in Wordings
  BY DEF MessageRow
<1>3. \A w \in m.words : <<w, w>> \in PartOf
  BY <1>2, StoreAssumption
<1>4. ASSUME NEW i \in DOMAIN q PROVE \E w \in m.words : <<q[i], w>> \in PartOf
  <2>1. CASE i = Len(q)
    <3>1. PICK w \in m.words : <<Last(q), w>> \in PrefixOf
      BY DEF Fts
    <3>2. Last(q) = q[i]
      BY <2>1 DEF Last
    <3> QED
      BY <1>1, <3>1, <3>2
  <2>2. CASE i # Len(q)
    <3>1. i \in 1..(Len(q) - 1)
      BY <1>1, <2>2
    <3>2. q[i] \in m.words
      BY <3>1 DEF Fts
    <3> QED
      BY <1>3, <3>2
  <2> QED
    BY <2>1, <2>2
<1> QED
  BY <1>4 DEF Like

LEMMA SamePages == PagesInv => PagesAgree
<1> SUFFICES ASSUME PagesInv, opened.open, "crash" \notin apart PROVE PagesAgree
  BY DEF PagesAgree
<1>1. loaded.messages = database.messages /\ database.messages \in Seq(MessageRow)
  BY DEF PagesInv, StoreInv
<1>2. ASSUME NEW limit \in 0..MaxMessages, NEW offset \in 0..MaxMessages, limit # 0 \/ offset = 0
      PROVE  SqlPage(limit, offset) = FallbackPage(limit, offset)
  <2>1. CASE limit = 0
    <3>1. SubSeq(database.messages, 1, Len(database.messages)) = database.messages
      BY <1>1, SubSeqFull
    <3>2. offset = 0 /\ offset + 1 = 1
      BY <1>2, <2>1
    <3> QED
      BY <1>1, <2>1, <3>1, <3>2 DEF SqlPage, FallbackPage
  <2>2. CASE limit # 0
    BY <1>1, <2>2 DEF SqlPage, FallbackPage
  <2> QED
    BY <2>1, <2>2
<1>3. ASSUME NEW q \in Queries PROVE SearchMessages(q) \subseteq FallbackSearch(q)
  <2> SUFFICES ASSUME NEW m \in SearchMessages(q) PROVE Like(q, m) /\ m \in ToSet(loaded.messages)
    BY DEF FallbackSearch
  <2>1. m \in ToSet(database.messages) /\ (Fts(q, m) \/ Like(q, m))
    BY DEF SearchMessages
  <2>2. m \in MessageRow
    BY <1>1, <2>1 DEF ToSet
  <2> QED
    BY <1>1, <2>1, <2>2, FoundIsLike
<1> QED
  BY <1>2, <1>3 DEF PagesAgree

----------------------------------------------------------------------------
(* The files of the sessions.  A file of the old format goes only where no *)
(* other one has gone before, and a new id meets no file.                  *)

LineMessage == [role : {"user", "assistant"}, n : Nat]

Stored == {None, Torn} \cup {File(rows) : rows \in Seq(LineMessage)}

ProcFields == {"pc", "todo", "cur", "want", "id", "cmd", "round", "base", "history", "alone"}

IsProc(p) ==
  /\ DOMAIN p = ProcFields /\ p = [f \in ProcFields |-> p[f]]
  /\ p.want \in 0..born /\ p.id \in 0..born /\ p.cmd \in 0..born
  /\ p.history \in Seq(LineMessage)

\* What a process is about to do meets the file it is about.
AtWork ==
  /\ proc.pc \in {"fill", "rename", "save", "retire"} => proc.cur \in 1..born
  /\ proc.pc \in {"fill", "rename"} => IsFile(json[proc.cur])
  /\ proc.pc = "save" /\ ~sqlite => json[proc.cur].kind # "torn" /\ bak[proc.cur].kind = "none"
  /\ proc.pc = "retire" => sqlite

FilesTyped ==
  /\ db \in [Ids -> Stored] /\ json \in [Ids -> Stored] /\ bak \in [Ids -> Stored]
  /\ DOMAIN saved = Ids

Untouched == \A i \in Ids : i > born => db[i] = None /\ json[i] = None /\ bak[i] = None

RetiredOnce == \A i \in Ids : json[i].kind # "none" => bak[i].kind = "none"

LineInv ==
  /\ sqlite \in BOOLEAN /\ born \in 0..MaxIds /\ asked \in Nat
  /\ IsProc(proc)
  /\ FilesTyped
  /\ Untouched
  /\ RetiredOnce
  /\ AtWork
  /\ NothingDropped

LEMMA StoredFiles ==
  /\ None \in Stored /\ Torn \in Stored
  /\ None.kind = "none" /\ None.rows = <<>>
  /\ \A rows \in Seq(LineMessage) :
       /\ File(rows) \in Stored /\ File(rows).kind = "file" /\ File(rows).rows = rows
  /\ \A f \in Stored : /\ f.rows \in Seq(LineMessage) /\ f.kind \in {"none", "torn", "file"}
                       /\ f.kind # "file" => f.rows = <<>>
                       /\ f.kind = "none" => f = None
<1>1. <<>> \in Seq(LineMessage)
  OBVIOUS
<1>2. /\ None \in Stored /\ Torn \in Stored /\ None.kind = "none" /\ None.rows = <<>>
      /\ Torn.kind = "torn" /\ Torn.rows = <<>>
  BY DEF Stored, None, Torn
<1>3. \A rows \in Seq(LineMessage) :
        File(rows) \in Stored /\ File(rows).kind = "file" /\ File(rows).rows = rows
  BY DEF File, Stored
<1>4. ASSUME NEW f \in Stored
      PROVE  /\ f.rows \in Seq(LineMessage) /\ f.kind \in {"none", "torn", "file"}
             /\ f.kind # "file" => f.rows = <<>>
             /\ f.kind = "none" => f = None
  <2>1. CASE f = None
    BY <1>1, <1>2, <2>1
  <2>2. CASE f = Torn
    BY <1>1, <1>2, <2>2
  <2>3. CASE f \in {File(rows) : rows \in Seq(LineMessage)}
    <3>1. PICK rows \in Seq(LineMessage) : f = File(rows)
      BY <2>3
    <3> QED
      BY <1>3, <3>1
  <2> QED
    BY <2>1, <2>2, <2>3 DEF Stored
<1> QED
  BY <1>2, <1>3, <1>4

LEMMA GreatestExists ==
  ASSUME NEW S \in SUBSET Ids, S # {}
  PROVE  Largest(S) \in S
<1>1. MaxIds \in Nat
  BY LineBoundsAssumption
<1> DEFINE T == {n \in Nat : MaxIds - n \in S}
<1>2. PICK x \in S : TRUE
  OBVIOUS
<1>3. MaxIds - x \in T
  <2>1. x \in Nat /\ MaxIds - x \in Nat /\ MaxIds - (MaxIds - x) = x
    BY <1>1 DEF Ids
  <2> QED
    BY <1>2, <2>1
<1>4. PICK n \in T : \A k \in T : n <= k
  <2>1. T \in SUBSET Nat /\ T # {}
    BY <1>3
  <2> HIDE DEF T
  <2> QED
    BY <2>1, LeastExists
<1>5. \A y \in S : y <= MaxIds - n
  <2> SUFFICES ASSUME NEW y \in S PROVE y <= MaxIds - n
    OBVIOUS
  <2>1. y \in Nat /\ MaxIds - y \in Nat /\ MaxIds - (MaxIds - y) = y
    BY <1>1 DEF Ids
  <2>2. MaxIds - y \in T
    BY <2>1
  <2>3. n <= MaxIds - y /\ n \in Nat
    BY <1>4, <2>2
  <2> QED
    BY <1>1, <2>1, <2>3
<1>6. MaxIds - n \in S
  BY <1>4
<1> QED
  BY <1>5, <1>6 DEF Largest

LEMMA ResumedIsASeq ==
  ASSUME NEW s \in Seq(LineMessage)
  PROVE  Resumed(s) \in Seq(LineMessage)
<1> DEFINE n == Len(s)
           from == IF n - Sample + 1 > 3 THEN n - Sample + 1 ELSE 3
<1>1. n \in Nat /\ Sample \in Nat \ {0}
  BY LineBoundsAssumption
<1> HIDE DEF n
<1>2. CASE n > Sample + 2
  <2>1. from \in Nat \ {0}
    BY <1>1
  <2>5. Resumed(s) = SubSeq(s, 1, 2) \o SubSeq(s, from, n)
    <3>1. ~(n <= Sample + 2)
      BY <1>1, <1>2
    <3> QED
      BY <3>1 DEF Resumed, n
  <2> HIDE DEF from
  <2>2. SubSeq(s, 1, 2) \in Seq(LineMessage)
    BY <1>1, <1>2, PartsAreSeqs DEF n
  <2>3. SubSeq(s, from, n) \in Seq(LineMessage)
    BY <1>1, <2>1, PartsAreSeqs DEF n
  <2>4. SubSeq(s, 1, 2) \o SubSeq(s, from, n) \in Seq(LineMessage)
    BY <2>2, <2>3, ConcatProperties
  <2> QED
    BY <2>4, <2>5
<1>3. CASE ~(n > Sample + 2)
  BY <1>1, <1>3 DEF Resumed, n
<1> QED
  BY <1>2, <1>3

LEMMA TruncatedIsASeq ==
  ASSUME NEW s \in Seq(LineMessage), NEW upTo
  PROVE  TruncatedTo(s, upTo) \in Seq(LineMessage)
<1> DEFINE later == {k \in DOMAIN s : /\ s[k].role = "user"
                       /\ Cardinality({j \in 1..k : s[j].role = "user"}) > upTo}
<1>1. later \subseteq 1..Len(s) /\ Len(s) \in Nat
  OBVIOUS
<1>2. TruncatedTo(s, upTo) = IF later = {} THEN s ELSE SubSeq(s, 1, Smallest(later) - 1)
  BY DEF TruncatedTo
<1> HIDE DEF later
<1>3. CASE later # {}
  <2>1. \E x \in later : \A y \in later : x <= y
    <3>1. later \in SUBSET Nat
      BY <1>1
    <3> QED
      BY <1>3, <3>1, LeastExists
  <2>2. Smallest(later) \in 1..Len(s)
    <3>1. Smallest(later) \in later
      BY <2>1 DEF Smallest
    <3> QED
      BY <1>1, <3>1
  <2>3. Smallest(later) - 1 \in Int /\ Smallest(later) - 1 <= Len(s)
    BY <1>1, <2>2
  <2> QED
    BY <1>2, <1>3, <2>3, PartsAreSeqs
<1> QED
  BY <1>2, <1>3

----------------------------------------------------------------------------
(* The steps on the files: nothing leaves the files of an id.              *)

(* Steps that leave the files.                                             *)
LEMMA FilesStay ==
  ASSUME LineInv, UNCHANGED <<sqlite, files, saved, asked>>,
         born' \in born..MaxIds, IsProc(proc)', AtWork'
  PROVE  LineInv'
<1>1. FilesTyped' /\ RetiredOnce'
  BY DEF LineInv, FilesTyped, RetiredOnce, files
<1>2. NothingDropped'
  BY DEF LineInv, NothingDropped, OnDisk, files
<1>3. born \in Nat /\ born' \in Nat /\ born <= born' /\ MaxIds \in Nat
  BY LineBoundsAssumption DEF LineInv
<1>4. Untouched'
  <2> SUFFICES ASSUME NEW i \in Ids, i > born' PROVE db[i] = None /\ json[i] = None /\ bak[i] = None
    BY DEF Untouched, files
  <2>1. i > born
    BY <1>3 DEF Ids
  <2> QED
    BY <2>1 DEF LineInv, Untouched
<1>5. born' \in 0..MaxIds /\ sqlite' \in BOOLEAN /\ asked' \in Nat
  BY <1>3 DEF LineInv
<1> QED
  BY <1>1, <1>2, <1>4, <1>5 DEF LineInv

(* addMessages: what is there stays, and the messages join it.             *)
LEMMA AddMessagesGrows ==
  ASSUME FilesTyped, NEW i \in Ids, NEW messages \in Seq(LineMessage), AddMessages(i, messages),
         sqlite \in BOOLEAN
  PROVE  /\ sqlite => /\ json' = json /\ db' = [db EXCEPT ![i] = File(db[i].rows \o messages)]
         /\ ~sqlite => /\ db' = db /\ json' = [json EXCEPT ![i] = File(json[i].rows \o messages)]
         /\ bak' = bak
         /\ db' \in [Ids -> Stored] /\ json' \in [Ids -> Stored] /\ bak' \in [Ids -> Stored]
         /\ OnDisk(i) \cup ToSet(messages) \subseteq OnDisk(i)'
         /\ \A j \in Ids : j # i => OnDisk(j)' = OnDisk(j)
<1>1. db[i].rows \in Seq(LineMessage) /\ json[i].rows \in Seq(LineMessage)
  BY StoredFiles DEF FilesTyped
<1> DEFINE f == File(db[i].rows \o messages)  g == File(json[i].rows \o messages)
<1>2. /\ f \in Stored /\ f.rows = db[i].rows \o messages /\ ToSet(f.rows) = ToSet(db[i].rows) \cup ToSet(messages)
      /\ g \in Stored /\ g.rows = json[i].rows \o messages /\ ToSet(g.rows) = ToSet(json[i].rows) \cup ToSet(messages)
  <2> DEFINE a == db[i].rows \o messages  b == json[i].rows \o messages
  <2>1. /\ a \in Seq(LineMessage) /\ ToSet(a) = ToSet(db[i].rows) \cup ToSet(messages)
        /\ b \in Seq(LineMessage) /\ ToSet(b) = ToSet(json[i].rows) \cup ToSet(messages)
    BY <1>1, JoinedRows
  <2> HIDE DEF a, b
  <2>2. File(a) \in Stored /\ File(a).rows = a /\ File(b) \in Stored /\ File(b).rows = b
    BY <2>1, StoredFiles
  <2> QED
    BY <2>1, <2>2 DEF a, b
<1>3. /\ sqlite => json' = json /\ db' = [db EXCEPT ![i] = f]
      /\ ~sqlite => db' = db /\ json' = [json EXCEPT ![i] = g]
      /\ bak' = bak
  BY DEF AddMessages
<1> HIDE DEF f, g
<1>4. CASE sqlite
  <2>1. db'[i] = f /\ \A j \in Ids : j # i => db'[j] = db[j]
    BY <1>3, <1>4 DEF FilesTyped
  <2>2. db' \in [Ids -> Stored]
    BY <1>2, <1>3, <1>4 DEF FilesTyped
  <2> QED
    BY <1>2, <1>3, <1>4, <2>1, <2>2 DEF FilesTyped, OnDisk, f
<1>5. CASE ~sqlite
  <2>1. json'[i] = g /\ \A j \in Ids : j # i => json'[j] = json[j]
    BY <1>3, <1>5 DEF FilesTyped
  <2>2. json' \in [Ids -> Stored]
    BY <1>2, <1>3, <1>5 DEF FilesTyped
  <2> QED
    BY <1>2, <1>3, <1>5, <2>1, <2>2 DEF FilesTyped, OnDisk, g
<1> QED
  BY <1>4, <1>5

(* A database that is made where none was is empty, as what was there.     *)
LEMMA EmptyDatabases ==
  ASSUME LineInv, UNCHANGED <<sqlite, json, bak, saved>>, DOMAIN db' = Ids,
         db' = [i \in Ids |-> db'[i]],
         \A i \in Ids : db'[i] = db[i] \/ (~IsFile(db[i]) /\ db'[i] = File(<<>>))
  PROVE  FilesTyped' /\ RetiredOnce' /\ NothingDropped'
<1>1. <<>> \in Seq(LineMessage) /\ ToSet(<<>>) = {}
  BY DEF ToSet
<1>2. File(<<>>) \in Stored /\ File(<<>>).rows = <<>>
  BY <1>1, StoredFiles
<1>3. \A i \in Ids : ~IsFile(db[i]) => db[i].rows = <<>>
  BY StoredFiles DEF LineInv, FilesTyped, IsFile
<1>4. \A i \in Ids : db'[i] \in Stored /\ db'[i].rows = db[i].rows
  BY <1>2, <1>3 DEF LineInv, FilesTyped
<1>5. FilesTyped'
  BY <1>4 DEF LineInv, FilesTyped
<1>6. \A i \in Ids : OnDisk(i)' = OnDisk(i)
  BY <1>4 DEF OnDisk
<1>7. NothingDropped'
  BY <1>6 DEF LineInv, NothingDropped
<1>8. RetiredOnce'
  BY DEF LineInv, RetiredOnce
<1> QED
  BY <1>5, <1>7, <1>8

(* The file of the old format goes, and is kept beside.                    *)
LEMMA RetireKeeps ==
  ASSUME LineInv, NEW i \in Ids, i <= born, Retire(i), UNCHANGED <<sqlite, saved, born>>,
         sqlite \/ json[i].kind # "torn"
  PROVE  FilesTyped' /\ Untouched' /\ RetiredOnce' /\ NothingDropped'
<1>1. /\ json' = [json EXCEPT ![i] = None] /\ db' = db
      /\ bak' = IF json[i].kind = "none" THEN bak ELSE [bak EXCEPT ![i] = json[i]]
  BY DEF Retire
<1>2. json[i] \in Stored /\ bak[i] \in Stored /\ None \in Stored /\ json[i].rows \in Seq(LineMessage)
  BY StoredFiles DEF LineInv, FilesTyped
<1>3. json' \in [Ids -> Stored] /\ bak' \in [Ids -> Stored] /\ db' \in [Ids -> Stored]
  BY <1>1, <1>2 DEF LineInv, FilesTyped
<1>4. FilesTyped'
  BY <1>3 DEF LineInv, FilesTyped
<1>5. /\ json'[i] = None /\ \A j \in Ids : j # i => json'[j] = json[j]
      /\ \A j \in Ids : j # i => bak'[j] = bak[j]
      /\ bak'[i] = IF json[i].kind = "none" THEN bak[i] ELSE json[i]
  BY <1>1 DEF LineInv, FilesTyped
<1>6. None.kind = "none" /\ None.rows = <<>>
  BY StoredFiles
<1>7. RetiredOnce'
  BY <1>5, <1>6 DEF LineInv, RetiredOnce
<1>8. Untouched'
  <2>1. \A j \in Ids : j > born => j # i
    BY DEF LineInv, Ids
  <2> QED
    BY <1>1, <1>5, <2>1 DEF LineInv, Untouched
<1>9. OnDisk(i)' = OnDisk(i)
  <2>1. CASE json[i].kind = "none"
    <3>1. json[i].rows = <<>>
      BY <1>2, <2>1, StoredFiles
    <3>2. json'[i].rows = json[i].rows
      BY <1>5, <1>6, <3>1
    <3>3. bak'[i] = bak[i]
      BY <1>5, <2>1
    <3> QED
      BY <1>1, <3>2, <3>3 DEF OnDisk
  <2>2. CASE json[i].kind # "none"
    <3>1. bak[i].rows = <<>> /\ json'[i].rows = <<>> /\ ToSet(<<>>) = {}
      <4>1. bak[i].kind = "none"
        BY <2>2 DEF LineInv, RetiredOnce
      <4>2. bak[i].kind # "file"
        BY <4>1
      <4> QED
        BY <1>2, <1>5, <1>6, <4>2, StoredFiles DEF ToSet
    <3>2. bak'[i].rows = json[i].rows
      BY <1>5, <2>2
    <3>3. db'[i].rows = db[i].rows
      BY <1>1
    <3> HIDE DEF OnDisk
    <3>4. /\ OnDisk(i)' = ToSet(db'[i].rows) \cup ToSet(json'[i].rows) \cup ToSet(bak'[i].rows)
          /\ OnDisk(i) = ToSet(db[i].rows) \cup ToSet(json[i].rows) \cup ToSet(bak[i].rows)
      BY DEF OnDisk
    <3> QED
      BY <3>1, <3>2, <3>3, <3>4
  <2> QED
    BY <2>1, <2>2
<1>10. \A j \in Ids : j # i => OnDisk(j)' = OnDisk(j)
  BY <1>1, <1>5 DEF OnDisk
<1>11. NothingDropped'
  <2> SUFFICES ASSUME NEW j \in Ids, (sqlite \/ json[j].kind # "torn")'
               PROVE  (saved[j] \subseteq OnDisk(j))'
    BY DEF NothingDropped
  <2>1. CASE j = i
    BY <1>9, <2>1 DEF LineInv, NothingDropped
  <2>2. CASE j # i
    BY <1>5, <1>10, <2>2 DEF LineInv, NothingDropped
  <2> QED
    BY <2>1, <2>2
<1> QED
  BY <1>4, <1>7, <1>8, <1>11

(* Messages that are written, with those that are saved in them.           *)
LEMMA WrittenIsKept ==
  ASSUME LineInv, NEW i \in Ids, i <= born, NEW messages \in Seq(LineMessage),
         NEW more, more \subseteq ToSet(messages), AddMessages(i, messages),
         DOMAIN saved' = Ids, saved'[i] = saved[i] \cup more,
         \A j \in Ids : j # i => saved'[j] = saved[j],
         UNCHANGED <<sqlite, born>>,
         ~sqlite => json[i].kind # "torn" /\ bak[i].kind = "none"
  PROVE  FilesTyped' /\ Untouched' /\ RetiredOnce' /\ NothingDropped'
<1>1. /\ sqlite => /\ json' = json /\ db' = [db EXCEPT ![i] = File(db[i].rows \o messages)]
      /\ ~sqlite => /\ db' = db /\ json' = [json EXCEPT ![i] = File(json[i].rows \o messages)]
      /\ bak' = bak
      /\ db' \in [Ids -> Stored] /\ json' \in [Ids -> Stored] /\ bak' \in [Ids -> Stored]
      /\ OnDisk(i) \cup ToSet(messages) \subseteq OnDisk(i)'
      /\ \A j \in Ids : j # i => OnDisk(j)' = OnDisk(j)
  BY AddMessagesGrows DEF LineInv
<1>2. FilesTyped'
  BY <1>1 DEF LineInv, FilesTyped
<1>3. \A j \in Ids : j # i => json'[j] = json[j] /\ db'[j] = db[j]
  BY <1>1 DEF LineInv, FilesTyped
<1>4. Untouched'
  <2>1. \A j \in Ids : j > born => j # i
    BY DEF LineInv, Ids
  <2> QED
    BY <1>1, <1>3, <2>1 DEF LineInv, Untouched
<1>5. RetiredOnce'
  <2>1. CASE sqlite
    BY <1>1, <2>1 DEF LineInv, RetiredOnce
  <2>2. CASE ~sqlite
    BY <1>1, <1>3, <2>2 DEF LineInv, RetiredOnce
  <2> QED
    BY <2>1, <2>2
<1>6. NothingDropped'
  <2> SUFFICES ASSUME NEW j \in Ids, (sqlite \/ json[j].kind # "torn")'
               PROVE  (saved[j] \subseteq OnDisk(j))'
    BY DEF NothingDropped
  <2>1. CASE j = i
    <3>1. saved[i] \subseteq OnDisk(i)
      BY DEF LineInv, NothingDropped
    <3> QED
      BY <1>1, <2>1, <3>1
  <2>2. CASE j # i
    BY <1>1, <1>3, <2>2 DEF LineInv, NothingDropped
  <2> QED
    BY <2>1, <2>2
<1> QED
  BY <1>2, <1>4, <1>5, <1>6

(* The start of a save: an id with a file, or one that was never used.     *)
LEMMA BeginSaveKeeps ==
  ASSUME LineInv, NEW p, IsProc(p), NEW i \in 0..born, BeginSave(p, i),
         UNCHANGED <<sqlite, files, saved, asked>>
  PROVE  LineInv'
<1> DEFINE target == IF i # NoId /\ CanLoad(i) THEN i ELSE born + 1
<1>1. MaxIds \in Nat /\ born \in 0..MaxIds
  BY LineBoundsAssumption DEF LineInv
<1>2. /\ target <= MaxIds /\ born' = IF target = i THEN born ELSE target
      /\ proc' = [p EXCEPT !.pc = "save", !.cur = target, !.id = IF target = i THEN @ ELSE target]
  BY DEF BeginSave
<1>3. CanLoad(i) /\ i # NoId => i \in 1..born
  <2> SUFFICES ASSUME CanLoad(i), i # NoId, i > born PROVE FALSE
    BY <1>1 DEF NoId
  <2>1. db[i] = None /\ json[i] = None
    BY <1>1 DEF LineInv, Untouched, Ids, NoId
  <2> QED
    BY <2>1, StoredFiles DEF CanLoad, IsFile
<1>4. target \in 1..born' /\ born' \in born..MaxIds
  <2>1. CASE i # NoId /\ CanLoad(i)
    BY <1>1, <1>2, <1>3, <2>1
  <2>2. CASE ~(i # NoId /\ CanLoad(i))
    BY <1>1, <1>2, <2>2
  <2> QED
    BY <2>1, <2>2
<1>5. ~sqlite => json[target].kind # "torn" /\ bak[target].kind = "none"
  <2>1. CASE i # NoId /\ CanLoad(i)
    BY <1>1, <1>3, <2>1 DEF LineInv, RetiredOnce, CanLoad, IsFile, Ids
  <2>2. CASE ~(i # NoId /\ CanLoad(i))
    <3>1. target = born + 1 /\ target \in Ids
      BY <1>1, <1>2, <2>2 DEF Ids
    <3>2. json[target] = None /\ bak[target] = None
      BY <1>1, <3>1 DEF LineInv, Untouched
    <3> QED
      BY <3>2, StoredFiles
  <2> QED
    BY <2>1, <2>2
<1> HIDE DEF target
<1>6. proc'.pc = "save" /\ proc'.cur = target
  BY <1>2 DEF IsProc, ProcFields
<1>7. IsProc(proc)'
  <2>1. /\ DOMAIN proc' = ProcFields /\ proc' = [f \in ProcFields |-> proc'[f]]
        /\ proc'.want = p.want /\ proc'.cmd = p.cmd /\ proc'.history = p.history
        /\ proc'.id \in {p.id, target}
    BY <1>2 DEF IsProc, ProcFields
  <2>2. p.want \in 0..born' /\ proc'.id \in 0..born' /\ p.cmd \in 0..born'
    BY <1>1, <1>4, <2>1 DEF IsProc
  <2> QED
    BY <2>1, <2>2 DEF IsProc
<1>8. AtWork'
  BY <1>4, <1>5, <1>6 DEF AtWork, files
<1> QED
  BY <1>4, <1>7, <1>8, FilesStay

LEMMA LineInvNext ==
  ASSUME LineInv, [LineNext]_lineVars
  PROVE  LineInv'
<1>0. MaxIds \in Nat /\ born \in 0..MaxIds /\ born \in Nat /\ sqlite \in BOOLEAN /\ asked \in Nat
  BY LineBoundsAssumption DEF LineInv
<1> USE <1>0
<1>1. CASE Start
  <2>1. PICK want \in {NoId} \cup NewestListed :
          proc' = [Off EXCEPT !.pc = "migrate", !.want = want, !.base = asked,
                           !.todo = {i \in Ids : json[i].kind # "none"}]
    BY <1>1 DEF Start
  <2>2. \A i \in Listed : i \in 1..born
    <3> SUFFICES ASSUME NEW i \in Ids, IsFile(db[i]) \/ IsFile(json[i]), i > born PROVE FALSE
      BY DEF Listed, Ids
    <3>1. db[i] = None /\ json[i] = None
      BY DEF LineInv, Untouched
    <3> QED
      BY <3>1, StoredFiles DEF IsFile
  <2>3. want \in 0..born
    <3>1. CASE want = NoId
      BY <3>1 DEF NoId
    <3>2. CASE want # NoId
      <4>1. Listed # {} /\ want = Largest(Listed)
        BY <2>1, <3>2 DEF NewestListed
      <4>2. want \in Listed
        BY <4>1, GreatestExists DEF Listed
      <4> QED
        BY <2>2, <4>2
    <3> QED
      BY <3>1, <3>2
  <2>4. /\ DOMAIN proc' = ProcFields /\ proc' = [f \in ProcFields |-> proc'[f]]
        /\ proc'.pc = "migrate" /\ proc'.want = want /\ proc'.id = 0 /\ proc'.cmd = 0
        /\ proc'.history = <<>>
    BY <2>1 DEF Off, ProcFields, NoId
  <2>5. IsProc(proc)' /\ AtWork'
    <3>1. <<>> \in Seq(LineMessage)
      OBVIOUS
    <3>2. born' = born
      BY <1>1 DEF Start
    <3> QED
      BY <2>3, <2>4, <3>1, <3>2 DEF IsProc, AtWork
  <2> QED
    BY <1>1, <2>5, FilesStay DEF Start, files
<1>2. ASSUME NEW i \in Ids, MigrateSkip(i) PROVE LineInv'
  <2>1. proc' = [proc EXCEPT !.todo = @ \ {i}] /\ proc.pc = "migrate"
    BY <1>2 DEF MigrateSkip
  <2>2. IsProc(proc)' /\ AtWork'
    <3>1. born' = born
      BY <1>2 DEF MigrateSkip
    <3>2. IsProc(proc)
      BY DEF LineInv
    <3> QED
      BY <2>1, <3>1, <3>2 DEF IsProc, ProcFields, AtWork
  <2> QED
    BY <1>2, <2>2, FilesStay DEF MigrateSkip, files
<1>3. ASSUME NEW i \in Ids, MigrateOpen(i) PROVE LineInv'
  <2>1. /\ proc' = [proc EXCEPT !.pc = "fill", !.cur = i, !.todo = @ \ {i}]
        /\ db' = IF sqlite THEN [db EXCEPT ![i] = File(<<>>)] ELSE db
        /\ ~IsFile(db[i]) /\ IsFile(json[i])
        /\ UNCHANGED <<sqlite, json, bak, saved, born, asked>>
    BY <1>3 DEF MigrateOpen, OpenStore
  <2>2. FilesTyped' /\ RetiredOnce' /\ NothingDropped'
    <3>1. DOMAIN db' = Ids /\ db' = [j \in Ids |-> db'[j]]
      BY <2>1 DEF LineInv, FilesTyped
    <3>2. \A j \in Ids : db'[j] = db[j] \/ (~IsFile(db[j]) /\ db'[j] = File(<<>>))
      BY <2>1 DEF LineInv, FilesTyped
    <3> QED
      BY <2>1, <3>1, <3>2, EmptyDatabases
  <2>3. i \in 1..born
    <3> SUFFICES ASSUME i > born PROVE FALSE
      BY DEF Ids
    <3>1. json[i] = None
      BY DEF LineInv, Untouched
    <3> QED
      BY <2>1, <3>1, StoredFiles DEF IsFile
  <2>4. Untouched'
    <3>1. \A j \in Ids : j > born => j # i
      BY <2>3 DEF Ids
    <3>2. \A j \in Ids : j # i => db'[j] = db[j]
      BY <2>1 DEF LineInv, FilesTyped
    <3> QED
      BY <2>1, <3>1, <3>2 DEF LineInv, Untouched
  <2>5. IsProc(proc)
    BY DEF LineInv
  <2>6. IsProc(proc)'
    BY <2>1, <2>5 DEF IsProc, ProcFields
  <2>7. AtWork'
    <3>1. proc'.pc = "fill" /\ proc'.cur = i
      BY <2>1, <2>5 DEF IsProc, ProcFields
    <3> QED
      BY <2>1, <2>3, <3>1 DEF AtWork
  <2> QED
    BY <2>1, <2>2, <2>4, <2>6, <2>7 DEF LineInv
<1>4. CASE MigrateFill
  <2>0. PICK i : i = proc.cur
    OBVIOUS
  <2>1. /\ proc.pc = "fill" /\ proc' = [proc EXCEPT !.pc = "rename"]
        /\ AddMessages(i, json[i].rows) /\ UNCHANGED <<sqlite, saved, born, asked>>
    BY <1>4, <2>0 DEF MigrateFill
  <2>2. i \in 1..born /\ i \in Ids /\ IsFile(json[i])
    BY <2>0, <2>1 DEF LineInv, AtWork, Ids
  <2>3. json[i].rows \in Seq(LineMessage)
    BY <2>2, StoredFiles DEF LineInv, FilesTyped
  <2>4. ~sqlite => json[i].kind # "torn" /\ bak[i].kind = "none"
    BY <2>2 DEF LineInv, RetiredOnce, IsFile
  <2>5. /\ saved'[i] = saved[i] \cup {} /\ DOMAIN saved' = Ids
        /\ \A j \in Ids : j # i => saved'[j] = saved[j]
    BY <2>1 DEF LineInv, FilesTyped
  <2>6. FilesTyped' /\ Untouched' /\ RetiredOnce' /\ NothingDropped'
    <3> DEFINE none == {}  rows == json[i].rows
    <3>1. /\ none \subseteq ToSet(rows) /\ saved'[i] = saved[i] \cup none /\ i <= born
          /\ AddMessages(i, rows) /\ rows \in Seq(LineMessage) /\ UNCHANGED <<sqlite, born>>
      BY <2>1, <2>2, <2>3, <2>5
    <3> HIDE DEF none, rows
    <3> QED
      BY <2>2, <2>4, <2>5, <3>1, WrittenIsKept
  <2>7. IsProc(proc)
    BY DEF LineInv
  <2>8. IsProc(proc)' /\ proc'.pc = "rename" /\ proc'.cur = i
    BY <2>0, <2>1, <2>7 DEF IsProc, ProcFields
  <2>9. IsFile(json'[i])
    <3>1. \A rows : File(rows).kind = "file"
      BY DEF File
    <3> QED
      BY <2>1, <2>2, <3>1 DEF AddMessages, IsFile, LineInv, FilesTyped
  <2>10. AtWork'
    BY <2>1, <2>2, <2>8, <2>9 DEF AtWork
  <2> QED
    BY <2>1, <2>6, <2>8, <2>10 DEF LineInv
<1>5. CASE MigrateRename \/ RetireOld
  <2>0. PICK i : i = proc.cur
    OBVIOUS
  <2>1. /\ proc.pc \in {"rename", "retire"} /\ Retire(i)
        /\ \/ proc' = [proc EXCEPT !.pc = "migrate", !.cur = NoId]
           \/ proc' = [proc EXCEPT !.pc = "ready", !.cur = NoId]
        /\ UNCHANGED <<sqlite, saved, born, asked>>
    BY <1>5, <2>0 DEF MigrateRename, RetireOld
  <2>2. i \in 1..born /\ i \in Ids /\ (sqlite \/ json[i].kind # "torn")
    BY <2>0, <2>1 DEF LineInv, AtWork, Ids, IsFile
  <2>3. FilesTyped' /\ Untouched' /\ RetiredOnce' /\ NothingDropped'
    BY <2>1, <2>2, RetireKeeps
  <2>4. IsProc(proc)
    BY DEF LineInv
  <2>5. IsProc(proc)' /\ proc'.pc \in {"migrate", "ready"}
    BY <2>1, <2>4 DEF IsProc, ProcFields
  <2>6. AtWork'
    BY <2>5 DEF AtWork
  <2> QED
    BY <2>1, <2>3, <2>5, <2>6 DEF LineInv
<1>6. CASE Open
  <2> DEFINE fresh == born + 1
             found == proc.want # NoId /\ (IsFile(db[proc.want]) \/ IsFile(json[proc.want]))
             kept  == IF ~found THEN <<>>
                      ELSE IF IsFile(db[proc.want]) THEN db[proc.want].rows ELSE json[proc.want].rows
             id    == IF proc.want = NoId THEN fresh ELSE proc.want
             first == IF HasCheckpoint(proc.want) THEN <<>> ELSE <<Digest>>
             history == IF ~found THEN <<>> ELSE first \o Resumed(kept)
  <2>1. /\ proc' = [proc EXCEPT !.pc = "ready", !.id = id, !.cmd = id,
                      !.alone = proc.want = NoId, !.history = history]
        /\ born' = fresh /\ born < MaxIds
        /\ db'  = [i \in Ids |-> IF sqlite /\ i \in {fresh, id} /\ ~IsFile(db[i])
                                 THEN File(<<>>) ELSE db[i]]
        /\ UNCHANGED <<sqlite, json, bak, saved, asked>>
    BY <1>6 DEF Open
  <2>2. IsProc(proc)
    BY DEF LineInv
  <2>3. kept \in Seq(LineMessage)
    <3>1. CASE found
      <4>1. proc.want \in Ids
        BY <2>2, <3>1 DEF IsProc, NoId, Ids
      <4>2. db[proc.want].rows \in Seq(LineMessage) /\ json[proc.want].rows \in Seq(LineMessage)
        BY <4>1, StoredFiles DEF LineInv, FilesTyped
      <4> QED
        BY <3>1, <4>2
    <3>2. CASE ~found
      <4>1. <<>> \in Seq(LineMessage)
        OBVIOUS
      <4> QED
        BY <3>2, <4>1
    <3> QED
      BY <3>1, <3>2
  <2> HIDE DEF kept
  <2>4. first \in Seq(LineMessage) /\ <<>> \in Seq(LineMessage)
    <3>1. Digest \in LineMessage
      BY DEF Digest, Said, LineMessage
    <3> QED
      BY <3>1
  <2> HIDE DEF first
  <2>5. history \in Seq(LineMessage)
    <3>1. Resumed(kept) \in Seq(LineMessage)
      BY <2>3, ResumedIsASeq
    <3>2. first \o Resumed(kept) \in Seq(LineMessage)
      BY <2>4, <3>1, ConcatProperties
    <3> QED
      BY <2>4, <3>2
  <2> HIDE DEF history, found
  <2>6. id \in 1..fresh /\ proc.want \in 0..born
    BY <2>2 DEF IsProc, NoId
  <2>7. FilesTyped' /\ RetiredOnce' /\ NothingDropped'
    <3>1. DOMAIN db' = Ids /\ db' = [j \in Ids |-> db'[j]]
      BY <2>1
    <3>2. \A j \in Ids : db'[j] = db[j] \/ (~IsFile(db[j]) /\ db'[j] = File(<<>>))
      BY <2>1
    <3> QED
      BY <2>1, <3>1, <3>2, EmptyDatabases
  <2> HIDE DEF id
  <2>8. Untouched'
    <3>1. \A j \in Ids : j > born' => j > born /\ j \notin {fresh, id}
      BY <2>1, <2>6 DEF Ids
    <3>2. \A j \in Ids : j \notin {fresh, id} => db'[j] = db[j]
      BY <2>1
    <3> QED
      BY <2>1, <3>1, <3>2 DEF LineInv, Untouched
  <2>9. IsProc(proc)' /\ proc'.pc = "ready"
    <3>1. /\ DOMAIN proc' = ProcFields /\ proc' = [f \in ProcFields |-> proc'[f]]
          /\ proc'.pc = "ready" /\ proc'.id = id /\ proc'.cmd = id /\ proc'.history = history
          /\ proc'.want = proc.want
      BY <2>1, <2>2 DEF IsProc, ProcFields
    <3> QED
      BY <2>1, <2>5, <2>6, <3>1 DEF IsProc
  <2>10. AtWork'
    BY <2>9 DEF AtWork
  <2>11. born' \in 0..MaxIds
    BY <2>1
  <2> QED
    BY <2>1, <2>7, <2>8, <2>9, <2>10, <2>11 DEF LineInv
<1>7. CASE Prompt
  <2>1. /\ proc' = [proc EXCEPT !.pc = "turn", !.round = @ + 1] /\ asked' = asked + 1
        /\ UNCHANGED <<sqlite, saved>>
    BY <1>7 DEF Prompt
  <2>2. IsProc(proc)
    BY DEF LineInv
  <2>3. ASSUME born' \in born..MaxIds PROVE IsProc(proc)' /\ proc'.pc = "turn"
    <3>1. /\ DOMAIN proc' = ProcFields /\ proc' = [f \in ProcFields |-> proc'[f]]
          /\ proc'.pc = "turn" /\ proc'.id = proc.id /\ proc'.cmd = proc.cmd
          /\ proc'.history = proc.history /\ proc'.want = proc.want
      BY <2>1, <2>2 DEF IsProc, ProcFields
    <3> QED
      BY <2>2, <2>3, <3>1 DEF IsProc
  <2>4. CASE UNCHANGED <<files, born>>
    <3>1. FilesTyped' /\ RetiredOnce' /\ Untouched'
      BY <2>1, <2>4 DEF LineInv, FilesTyped, RetiredOnce, Untouched, files
    <3>2. NothingDropped'
      BY <2>1, <2>4 DEF LineInv, NothingDropped, OnDisk, files
    <3>3. IsProc(proc)' /\ AtWork'
      BY <2>3, <2>4 DEF AtWork
    <3> QED
      BY <2>1, <2>4, <3>1, <3>2, <3>3 DEF LineInv
  <2>5. CASE UnsavedPoint(born + 1)
    <3> DEFINE i == born + 1
    <3>1. /\ born' = i /\ i \in Ids /\ i \in 1..MaxIds /\ bak' = bak
          /\ db' = IF sqlite THEN [db EXCEPT ![i] = File(<<>>)] ELSE db
          /\ json' = IF sqlite THEN json ELSE [json EXCEPT ![i] = File(<<>>)]
      BY <2>5 DEF UnsavedPoint, Ids
    <3>2. db[i] = None /\ json[i] = None /\ bak[i] = None
      BY <3>1 DEF LineInv, Untouched
    <3> HIDE DEF i
    <3>3. /\ File(<<>>) \in Stored /\ File(<<>>).rows = <<>> /\ None.rows = <<>>
          /\ None.kind = "none" /\ File(<<>>).kind = "file"
      <4>1. <<>> \in Seq(LineMessage)
        OBVIOUS
      <4> QED
        BY <4>1, StoredFiles
    <3>4. db' \in [Ids -> Stored] /\ json' \in [Ids -> Stored] /\ bak' \in [Ids -> Stored]
      BY <3>1, <3>3 DEF LineInv, FilesTyped
    <3>5. FilesTyped'
      BY <2>1, <3>4 DEF LineInv, FilesTyped
    <3>6. \A j \in Ids : j # i => db'[j] = db[j] /\ json'[j] = json[j]
      BY <3>1 DEF LineInv, FilesTyped
    <3>7. db'[i].rows = <<>> /\ json'[i].rows = <<>>
      BY <3>1, <3>2, <3>3 DEF LineInv, FilesTyped
    <3>8. \A j \in Ids : db'[j].rows = db[j].rows /\ json'[j].rows = json[j].rows
      BY <3>2, <3>3, <3>6, <3>7
    <3>9. \A j \in Ids : OnDisk(j)' = OnDisk(j)
      BY <3>1, <3>8 DEF OnDisk
    <3>10. \A j \in Ids : (sqlite \/ json[j].kind # "torn")' => sqlite \/ json[j].kind # "torn"
      <4> SUFFICES ASSUME NEW j \in Ids PROVE (sqlite \/ json[j].kind # "torn")' => sqlite \/ json[j].kind # "torn"
        OBVIOUS
      <4>1. CASE j = i
        BY <3>2, <3>3, <4>1
      <4>2. CASE j # i
        BY <2>1, <3>6, <4>2
      <4> QED
        BY <4>1, <4>2
    <3>11. NothingDropped'
      BY <2>1, <3>9, <3>10 DEF LineInv, NothingDropped
    <3>12. RetiredOnce'
      BY <3>1, <3>2, <3>3, <3>6 DEF LineInv, RetiredOnce
    <3>13. Untouched'
      <4>1. \A j \in Ids : j > born' => j > born /\ j # i
        BY <3>1 DEF Ids, i
      <4> QED
        BY <3>1, <3>6, <4>1 DEF LineInv, Untouched
    <3>14. born' \in born..MaxIds /\ born' \in 0..MaxIds
      BY <3>1 DEF i
    <3>15. IsProc(proc)' /\ AtWork'
      BY <2>3, <3>14 DEF AtWork
    <3> QED
      BY <2>1, <3>5, <3>11, <3>12, <3>13, <3>14, <3>15 DEF LineInv
  <2> QED
    BY <1>7, <2>4, <2>5 DEF Prompt
<1>8. CASE EndTurn
  <2>1. PICK ending \in {"text", "silent", "cancelled"} :
          LET p == [proc EXCEPT !.pc = "ready", !.history = @ \o TurnMessages(ending)]
          IN IF p.history # <<>> /\ Len(p.history) % SaveEvery = 0
             THEN BeginSave(p, p.id)
             ELSE proc' = p /\ UNCHANGED <<cps, born>>
    BY <1>8 DEF EndTurn
  <2> DEFINE p == [proc EXCEPT !.pc = "ready", !.history = @ \o TurnMessages(ending)]
  <2>2. TurnMessages(ending) \in Seq(LineMessage)
    <3>1. \A role \in {"user", "assistant"} : Said(role, asked) \in LineMessage
      BY DEF Said, LineMessage
    <3>2. /\ <<Said("user", asked), Said("assistant", asked)>> \in Seq(LineMessage)
          /\ <<Said("user", asked)>> \in Seq(LineMessage) /\ <<>> \in Seq(LineMessage)
      BY <3>1
    <3> QED
      BY <3>2 DEF TurnMessages
  <2>3. IsProc(proc)
    BY DEF LineInv
  <2>4. proc.history \o TurnMessages(ending) \in Seq(LineMessage)
    BY <2>2, <2>3, ConcatProperties DEF IsProc
  <2>5. IsProc(p) /\ p.pc = "ready" /\ p.id \in 0..born
    BY <2>3, <2>4 DEF IsProc, ProcFields
  <2>6. BeginSave(p, p.id) \/ (proc' = p /\ UNCHANGED born)
    BY <2>1
  <2> HIDE DEF p
  <2>7. UNCHANGED <<sqlite, files, saved, asked>>
    BY <1>8 DEF EndTurn
  <2>8. CASE BeginSave(p, p.id)
    BY <2>5, <2>7, <2>8, BeginSaveKeeps
  <2>9. CASE proc' = p /\ UNCHANGED born
    <3>1. IsProc(proc)' /\ AtWork'
      BY <2>5, <2>9 DEF IsProc, AtWork
    <3> QED
      BY <2>7, <2>9, <3>1, FilesStay
  <2> QED
    BY <2>6, <2>8, <2>9
<1>9. CASE Write
  <2>0. PICK i : i = proc.cur
    OBVIOUS
  <2> DEFINE once == IF sqlite \/ ~IsFile(json[i]) THEN <<>> ELSE json[i].rows
         all == once \o proc.history
  <2>1. /\ proc.pc = "save" /\ AddMessages(i, all)
        /\ saved' = [saved EXCEPT ![i] = @ \cup ToSet(proc.history)]
        /\ proc' = [proc EXCEPT !.pc = IF sqlite THEN "retire" ELSE "ready",
                             !.cur = IF sqlite THEN @ ELSE NoId]
        /\ UNCHANGED <<sqlite, born, asked>>
    BY <1>9, <2>0 DEF Write
  <2>2. /\ i \in 1..born /\ i \in Ids
        /\ ~sqlite => json[i].kind # "torn" /\ bak[i].kind = "none"
    BY <2>0, <2>1 DEF LineInv, AtWork, Ids
  <2>3. IsProc(proc)
    BY DEF LineInv
  <2>4. once \in Seq(LineMessage) /\ proc.history \in Seq(LineMessage)
    <3>1. json[i].rows \in Seq(LineMessage)
      BY <2>2, StoredFiles DEF LineInv, FilesTyped
    <3>2. <<>> \in Seq(LineMessage)
      OBVIOUS
    <3> QED
      BY <2>3, <3>1, <3>2 DEF IsProc
  <2> HIDE DEF once
  <2>5. all \in Seq(LineMessage) /\ ToSet(proc.history) \subseteq ToSet(all)
    BY <2>4, JoinedRows
  <2> HIDE DEF all
  <2>6. FilesTyped' /\ Untouched' /\ RetiredOnce' /\ NothingDropped'
    <3> DEFINE more == ToSet(proc.history)
    <3>1. /\ more \subseteq ToSet(all) /\ saved'[i] = saved[i] \cup more /\ i <= born
          /\ DOMAIN saved' = Ids /\ \A j \in Ids : j # i => saved'[j] = saved[j]
          /\ UNCHANGED <<sqlite, born>>
      BY <2>1, <2>2, <2>5 DEF LineInv, FilesTyped
    <3> HIDE DEF more
    <3> QED
      BY <2>1, <2>2, <2>5, <3>1, WrittenIsKept
  <2>7. /\ IsProc(proc)' /\ proc'.pc = IF sqlite THEN "retire" ELSE "ready"
        /\ sqlite => proc'.cur = i
    BY <2>0, <2>1, <2>3 DEF IsProc, ProcFields
  <2>8. AtWork'
    BY <2>1, <2>2, <2>7 DEF AtWork
  <2> QED
    BY <2>1, <2>6, <2>7, <2>8 DEF LineInv
<1>10. CASE SaveCommand
  <2>1. IsProc(proc) /\ proc.cmd \in 0..born
    BY DEF LineInv, IsProc
  <2> QED
    BY <1>10, <2>1, BeginSaveKeeps DEF SaveCommand
<1>11. CASE Clear
  <2>1. IsProc(proc)
    BY DEF LineInv
  <2>2. proc' = [proc EXCEPT !.history = <<>>, !.id = NoId, !.alone = FALSE] /\ proc.pc = "ready"
    BY <1>11 DEF Clear
  <2>3. IsProc(proc)' /\ AtWork'
    <3>1. <<>> \in Seq(LineMessage)
      OBVIOUS
    <3>2. born' = born
      BY <1>11 DEF Clear
    <3>3. /\ DOMAIN proc' = ProcFields /\ proc' = [f \in ProcFields |-> proc'[f]]
          /\ proc'.pc = "ready" /\ proc'.id = 0 /\ proc'.cmd = proc.cmd
          /\ proc'.history = <<>> /\ proc'.want = proc.want
      BY <2>1, <2>2 DEF IsProc, ProcFields, NoId
    <3> QED
      BY <2>1, <3>1, <3>2, <3>3 DEF IsProc, AtWork
  <2> QED
    BY <1>11, <2>3, FilesStay DEF Clear
<1>12. ASSUME NEW upTo \in Rounds, RewindCode(upTo) PROVE LineInv'
  <2>1. UNCHANGED <<sqlite, files, proc, born, asked, saved>>
    BY <1>12 DEF RewindCode
  <2>2. IsProc(proc)' /\ AtWork'
    BY <2>1 DEF LineInv, IsProc, AtWork, files
  <2> QED
    BY <2>1, <2>2, FilesStay
<1>13. ASSUME NEW upTo \in Rounds, RewindConversation(upTo) \/ RewindBoth(upTo) PROVE LineInv'
  <2>1. /\ UNCHANGED <<sqlite, files, born, asked, saved>> /\ proc.pc = "ready"
        /\ proc' = [proc EXCEPT !.history = TruncatedTo(@, upTo)]
    BY <1>13 DEF RewindConversation, RewindBoth, CanRewind
  <2>2. IsProc(proc)
    BY DEF LineInv
  <2>3. TruncatedTo(proc.history, upTo) \in Seq(LineMessage)
    BY <2>2, TruncatedIsASeq DEF IsProc
  <2>4. IsProc(proc)' /\ AtWork'
    BY <2>1, <2>2, <2>3 DEF IsProc, ProcFields, AtWork
  <2> QED
    BY <2>1, <2>4, FilesStay
<1>14. CASE Stop
  <2>1. proc' = Off /\ UNCHANGED <<sqlite, db, bak, born, asked, saved>>
    BY <1>14 DEF Stop
  <2>2. IsProc(proc)' /\ AtWork'
    <3>1. <<>> \in Seq(LineMessage)
      OBVIOUS
    <3> QED
      BY <2>1, <3>1 DEF IsProc, AtWork, Off, ProcFields, NoId
  <2>3. CASE UNCHANGED json
    BY <2>1, <2>2, <2>3, FilesStay DEF files
  <2>4. CASE /\ ~sqlite /\ proc.pc \in {"fill", "save"}
             /\ json' = [json EXCEPT ![proc.cur] = Torn]
    <3>0. PICK i : i = proc.cur
      OBVIOUS
    <3>1. i \in 1..born /\ i \in Ids /\ bak[i].kind = "none"
      BY <2>4, <3>0 DEF LineInv, AtWork, Ids, RetiredOnce, IsFile
    <3>2. json' = [json EXCEPT ![i] = Torn]
      BY <2>4, <3>0
    <3>3. Torn \in Stored /\ Torn.kind = "torn"
      BY StoredFiles DEF Torn
    <3>4. json'[i] = Torn /\ \A j \in Ids : j # i => json'[j] = json[j]
      BY <3>1, <3>2 DEF LineInv, FilesTyped
    <3>5. json' \in [Ids -> Stored]
      BY <3>2, <3>3 DEF LineInv, FilesTyped
    <3>6. FilesTyped'
      BY <2>1, <3>5 DEF LineInv, FilesTyped
    <3>7. RetiredOnce'
      BY <2>1, <3>1, <3>4 DEF LineInv, RetiredOnce
    <3>8. Untouched'
      <4>1. \A j \in Ids : j > born => j # i
        BY <3>1 DEF Ids
      <4> QED
        BY <2>1, <3>4, <4>1 DEF LineInv, Untouched
    <3>9. NothingDropped'
      <4> SUFFICES ASSUME NEW j \in Ids, (sqlite \/ json[j].kind # "torn")'
                   PROVE  (saved[j] \subseteq OnDisk(j))'
        BY DEF NothingDropped
      <4>1. j # i
        BY <2>1, <2>4, <3>3, <3>4
      <4>2. OnDisk(j)' = OnDisk(j)
        BY <2>1, <3>4, <4>1 DEF OnDisk
      <4> QED
        BY <2>1, <3>4, <4>1, <4>2 DEF LineInv, NothingDropped
    <3> QED
      BY <2>1, <2>2, <3>6, <3>7, <3>8, <3>9 DEF LineInv
  <2> QED
    BY <1>14, <2>3, <2>4 DEF Stop
<1>15. CASE UNCHANGED lineVars
  <2>1. UNCHANGED <<sqlite, db, json, bak, proc, born, asked, saved>>
    BY <1>15 DEF lineVars
  <2>2. IsProc(proc)' /\ AtWork'
    BY <2>1 DEF LineInv, IsProc, AtWork
  <2> QED
    BY <2>1, <2>2, FilesStay DEF files
<1> QED
  BY <1>1, <1>2, <1>3, <1>4, <1>5, <1>6, <1>7, <1>8, <1>9, <1>10, <1>11, <1>12, <1>13, <1>14,
     <1>15 DEF LineNext

LEMMA LineInvInit == Init => LineInv
<1> SUFFICES ASSUME Init PROVE LineInv
  OBVIOUS
<1>1. MaxIds \in Nat \ {0} /\ Runtimes \subseteq BOOLEAN
  BY LineBoundsAssumption
<1>2. PICK old \in {None, File(OldSession)} :
     /\ json  = [i \in Ids |-> IF i = 1 THEN old ELSE None]
     /\ saved = [i \in Ids |-> IF i = 1 THEN ToSet(old.rows) ELSE {}]
     /\ born  = IF IsFile(old) THEN 1 ELSE 0
  BY DEF Init, LineInit
<1>3. OldSession \in Seq(LineMessage)
  <2>1. Said("user", 0) \in LineMessage /\ Said("assistant", 0) \in LineMessage
    BY DEF Said, LineMessage
  <2> QED
    BY <2>1 DEF OldSession
<1>4. old \in Stored /\ (IsFile(old) \/ old = None) /\ None \in Stored /\ None.kind = "none"
  <2>1. File(OldSession) \in Stored /\ File(OldSession).kind = "file"
    BY <1>3, StoredFiles
  <2> QED
    BY <2>1, StoredFiles DEF IsFile
<1>5. /\ db = [i \in Ids |-> None] /\ bak = [i \in Ids |-> None]
      /\ proc = Off /\ asked = 0 /\ sqlite \in Runtimes
  BY DEF Init, LineInit
<1>6. FilesTyped
  BY <1>2, <1>4, <1>5 DEF FilesTyped
<1>7. Untouched
  <2>1. \A i \in Ids : i > born => json[i] = None
    <3> SUFFICES ASSUME NEW i \in Ids, i > born PROVE json[i] = None
      OBVIOUS
    <3>1. CASE i = 1
      BY <1>2, <1>4, <3>1
    <3>2. CASE i # 1
      BY <1>2, <3>2
    <3> QED
      BY <3>1, <3>2
  <2> QED
    BY <1>5, <2>1 DEF Untouched
<1>8. RetiredOnce
  BY <1>4, <1>5 DEF RetiredOnce
<1>9. IsProc(proc) /\ AtWork
  <2>1. <<>> \in Seq(LineMessage) /\ born \in Nat
    BY <1>2
  <2> QED
    BY <1>5, <2>1 DEF IsProc, AtWork, Off, ProcFields, NoId
<1>10. NothingDropped
  <2> SUFFICES ASSUME NEW i \in Ids PROVE saved[i] \subseteq OnDisk(i)
    BY DEF NothingDropped
  <2>1. CASE i = 1
    BY <1>2, <2>1 DEF OnDisk
  <2>2. CASE i # 1
    BY <1>2, <2>2
  <2> QED
    BY <2>1, <2>2
<1>11. born \in 0..MaxIds /\ sqlite \in BOOLEAN /\ asked \in Nat
  BY <1>1, <1>2, <1>5
<1> QED
  BY <1>6, <1>7, <1>8, <1>9, <1>10, <1>11 DEF LineInv

(* What was saved stays in a file of its session, through migrations that  *)
(* are cut short, saves, clears and crashes, for any number of sessions,   *)
(* prompts and starts.                                                     *)
THEOREM SavedMessagesStay == Spec => []NothingDropped
<1>1. Init => LineInv
  BY LineInvInit
<1>2. LineInv /\ [Next]_sessions => LineInv'
  <2>1. [Next]_sessions => [LineNext]_lineVars
    BY DEF Next, sessions, FilesStep, TranscriptStep, KnowledgeStep, DigestStep, ThoughtsStep,
           StoreStep, StagedStep
  <2> QED
    BY <2>1, LineInvNext
<1>3. LineInv => NothingDropped
  BY DEF LineInv
<1> QED
  BY <1>1, <1>2, <1>3, PTL DEF Spec

(* No migration, save or crash takes a message out of the files of its     *)
(* session, calls arrive whole, and until a crash both runtimes give the   *)
(* same pages and find what the other finds.                               *)
THEOREM WhatWasSavedStays == Spec => []SavedStays
<1>1. Init => PagesInv
  BY StoreInvInit DEF Init, StoreInit, PagesInv, EmptySession, FileOf
<1>2. PagesInv /\ [Next]_sessions => PagesInv'
  <2>1. [Next]_sessions => [StoreNext]_storeVars
    BY DEF Next, sessions, FilesStep, TranscriptStep, KnowledgeStep, DigestStep, ThoughtsStep,
           StoreStep, StagedStep
  <2> QED
    BY <2>1, PagesInvNext
<1>3. PagesInv => WholeBatches /\ PagesAgree
  BY SamePages DEF PagesInv, StoreInv
<1>4. Spec => [](WholeBatches /\ PagesAgree)
  BY <1>1, <1>2, <1>3, PTL DEF Spec
<1>5. NothingDropped /\ WholeBatches /\ PagesAgree => SavedStays
  BY DEF SavedStays
<1> QED
  BY <1>4, <1>5, SavedMessagesStay, PTL

----------------------------------------------------------------------------
(* A strict order of a finite set, given by what stands below each member, *)
(* counts its members: each has a number of its own, and every number from *)
(* 0 on is that of a member.                                               *)
Ranking(P, below) ==
  /\ below \in [P -> SUBSET P]
  /\ \A x \in P : x \notin below[x]
  /\ \A x, y \in P : x # y => x \in below[y] \/ y \in below[x]
  /\ \A x, y \in P : x \in below[y] => below[x] \subseteq below[y]

LEMMA RanksCount ==
  ASSUME NEW P, IsFiniteSet(P), NEW below, Ranking(P, below)
  PROVE  /\ Cardinality(P) \in Nat
         /\ \A x \in P : Cardinality(below[x]) \in 0..(Cardinality(P) - 1)
         /\ \A x, y \in P : x \in below[y] => Cardinality(below[x]) < Cardinality(below[y])
         /\ \A x, y \in P : Cardinality(below[x]) = Cardinality(below[y]) => x = y
         /\ \A k \in 0..(Cardinality(P) - 1) : \E x \in P : Cardinality(below[x]) = k
<1>0. PICK size : size = Cardinality(P)
  OBVIOUS
<1>1. size \in Nat
  BY <1>0, FS_CardinalityType
<1>2. ASSUME NEW x \in P
      PROVE  /\ IsFiniteSet(below[x]) /\ Cardinality(below[x]) \in 0..(size - 1)
  <2>1. below[x] \in SUBSET P /\ x \notin below[x]
    BY DEF Ranking
  <2>2. IsFiniteSet(below[x]) /\ Cardinality(below[x]) <= size /\ Cardinality(below[x]) # size
    BY <1>0, <2>1, FS_Subset
  <2>3. Cardinality(below[x]) \in Nat
    BY <2>2, FS_CardinalityType
  <2> QED
    BY <1>1, <2>2, <2>3
<1>3. ASSUME NEW x \in P, NEW y \in P, x \in below[y]
      PROVE  Cardinality(below[x]) < Cardinality(below[y])
  <2>1. below[x] \in SUBSET below[y] /\ below[x] # below[y]
    BY <1>3 DEF Ranking
  <2>2. Cardinality(below[x]) <= Cardinality(below[y]) /\ Cardinality(below[x]) # Cardinality(below[y])
    BY <1>2, <2>1, FS_Subset
  <2>3. Cardinality(below[x]) \in Int /\ Cardinality(below[y]) \in Int
    BY <1>2
  <2> QED
    BY <2>2, <2>3
<1>4. ASSUME NEW x \in P, NEW y \in P, Cardinality(below[x]) = Cardinality(below[y])
      PROVE  x = y
  <2>1. Cardinality(below[x]) \in Int /\ Cardinality(below[y]) \in Int
    BY <1>2
  <2>2. x \notin below[y] /\ y \notin below[x]
    BY <1>3, <1>4, <2>1
  <2> QED
    BY <2>2 DEF Ranking
<1>5. ASSUME NEW k \in 0..(size - 1)
      PROVE  \E x \in P : Cardinality(below[x]) = k
  <2> DEFINE rank == [x \in P |-> Cardinality(below[x])]
  <2>1. rank \in Injection(P, 0..(size - 1))
    <3>1. rank \in [P -> 0..(size - 1)]
      BY <1>2
    <3>2. ASSUME NEW x \in P, NEW y \in P, rank[x] = rank[y] PROVE x = y
      BY <1>4, <3>2
    <3> HIDE DEF rank
    <3> QED
      BY <3>1, <3>2 DEF Injection, IsInjective
  <2>2. IsFiniteSet(0..(size - 1)) /\ Cardinality(0..(size - 1)) = size
    BY <1>1, FS_Interval
  <2>3. rank \in Surjection(P, 0..(size - 1))
    <3> HIDE DEF rank
    <3> QED
      BY <1>0, <2>1, <2>2, FS_Injection
  <2>4. \E x \in P : rank[x] = k
    <3> HIDE DEF rank
    <3> QED
      BY <2>3 DEF Surjection
  <2> QED
    BY <2>4
<1> QED
  BY <1>0, <1>1, <1>2, <1>3, <1>4, <1>5

LEMMA RankIsTaken ==
  ASSUME NEW P, IsFiniteSet(P), NEW below, Ranking(P, below),
         NEW k \in Nat, k < Cardinality(P)
  PROVE  \E x \in P : Cardinality(below[x]) = k
<1>1. Cardinality(P) \in Nat
  BY FS_CardinalityType
<1>2. k \in 0..(Cardinality(P) - 1)
  BY <1>1
<1> QED
  BY <1>2, RanksCount

(* Every number up to their count is that of a place.                      *)
LEMMA PlaceExists ==
  ASSUME NEW n \in Nat, NEW places \in SUBSET (1..n), NEW k \in 1..Cardinality(places)
  PROVE  \E i \in places : Cardinality({j \in places : j <= i}) = k
<1> DEFINE below == [i \in places |-> {j \in places : j < i}]
<1>1. IsFiniteSet(places)
  <2>1. IsFiniteSet(1..n)
    BY FS_Interval
  <2> QED
    BY <2>1, FS_Subset
<1>2. Cardinality(places) \in Nat
  BY <1>1, FS_CardinalityType
<1>3. Ranking(places, below)
  <2>1. \A x \in places : x \in Int /\ below[x] = {j \in places : j < x}
    OBVIOUS
  <2>2. below \in [places -> SUBSET places]
    OBVIOUS
  <2>3. \A x \in places : x \notin below[x]
    BY <2>1
  <2>4. \A x, y \in places : x # y => x \in below[y] \/ y \in below[x]
    BY <2>1
  <2>5. ASSUME NEW x \in places, NEW y \in places, x \in below[y]
        PROVE  below[x] \subseteq below[y]
    <3>1. x \in Int /\ y \in Int /\ x < y
      BY <2>1, <2>5
    <3>2. \A j \in places : j < x => j < y
      BY <2>1, <3>1
    <3> QED
      BY <2>1, <3>2
  <2> HIDE DEF below
  <2> QED
    BY <2>2, <2>3, <2>4, <2>5 DEF Ranking
<1>5. PICK i \in places : Cardinality(below[i]) = k - 1
  <2>1. PICK b, P : b = below /\ P = places
    OBVIOUS
  <2>2. Ranking(P, b) /\ IsFiniteSet(P)
    BY <1>1, <1>3, <2>1
  <2>3. PICK m \in Nat : m = k - 1 /\ m < Cardinality(places)
    BY <1>2
  <2>4. m < Cardinality(P)
    BY <2>1, <2>3
  <2> HIDE DEF below
  <2>5. \E x \in P : Cardinality(b[x]) = m
    BY <2>2, <2>4, RankIsTaken
  <2> QED
    BY <2>1, <2>3, <2>5
<1>6. IsFiniteSet(below[i]) /\ i \notin below[i]
  <2>1. below[i] \in SUBSET places /\ i \notin below[i]
    OBVIOUS
  <2> HIDE DEF below
  <2> QED
    BY <1>1, <2>1, FS_Subset
<1>7. {j \in places : j <= i} = below[i] \cup {i}
  <2>1. \A j \in places : j \in Int /\ (j <= i <=> j < i \/ j = i)
    OBVIOUS
  <2> QED
    BY <2>1
<1>8. Cardinality(below[i] \cup {i}) = Cardinality(below[i]) + 1
  <2> HIDE DEF below
  <2> QED
    BY <1>6, FS_AddElement
<1>9. Cardinality({j \in places : j <= i}) = k
  BY <1>5, <1>7, <1>8
<1> QED
  BY <1>9

----------------------------------------------------------------------------
(***************************************************************************)
(* The files that are shown.  A copy is out of date only for a reason      *)
(* (CopiesKnown), and the files shown are the first of an order that puts  *)
(* higher priorities first.                                                *)
(***************************************************************************)
CopyType == [name : Names, version : Nat]
CopiesKnown(copies, on, known) ==
  \A i \in DOMAIN copies : copies[i].name \in known => copies[i].version = on[Target[copies[i].name]]

StageInv ==
  /\ loadedFiles \in Seq(CopyType) /\ stagedFiles \in Seq(Names)
  /\ disk \in [Files -> Nat] /\ versions \in Nat
  /\ \A before \in journal : DOMAIN before \subseteq Files /\ before \in [DOMAIN before -> Nat]
  /\ CopiesKnown(loadedFiles, disk, untouched)

LEMMA TargetsAreFiles == \A n \in Names : Target[n] \in Files
BY DEF Files

LEMMA CopyIsTyped ==
  ASSUME NEW n \in Names, NEW on \in [Files -> Nat]
  PROVE  Copy(n, on) \in CopyType /\ Copy(n, on).name = n /\ Copy(n, on).version = on[Target[n]]
<1>1. on[Target[n]] \in Nat
  BY TargetsAreFiles
<1> QED
  BY <1>1 DEF Copy, CopyType

LEMMA CopiesAre ==
  ASSUME NEW copies \in Seq(CopyType), NEW i \in DOMAIN copies
  PROVE  copies[i] \in CopyType /\ copies[i].name \in Names
<1>1. copies[i] \in CopyType
  OBVIOUS
<1> QED
  BY <1>1 DEF CopyType

(* A set of names in some order is a sequence of them.                     *)
LEMMA NamesInOrder ==
  ASSUME NEW ns \in SUBSET Names
  PROVE  SetToSeq(ns) \in Seq(ns)
<1>1. IsFiniteSet(ns)
  BY StageAssumption, FS_Subset
<1>2. PICK size \in Nat : size = Cardinality(ns)
  BY <1>1, FS_CardinalityType
<1>3. PICK f : f \in Bijection(1..size, ns)
  BY <1>1, <1>2, FS_CardinalityType DEF ExistsBijection
<1>4. f \in [1..size -> ns] /\ IsInjective(f)
  BY <1>3 DEF Bijection, Injection, IsInjective
<1>5. SetToSeq(ns) \in [1..size -> ns]
  BY <1>2, <1>4 DEF SetToSeq
<1> QED
  BY <1>2, <1>5

LEMMA NewAreCopies ==
  ASSUME NEW copies, NEW ns \in SUBSET Names, NEW on \in [Files -> Nat]
  PROVE  /\ New(copies, ns, on) \in Seq(CopyType)
         /\ \A k \in DOMAIN New(copies, ns, on) :
              New(copies, ns, on)[k].version = on[Target[New(copies, ns, on)[k].name]]
<1>1. PICK these : these = {n \in ns : on[Target[n]] # NotThere} \ Loaded(copies)
  OBVIOUS
<1>2. PICK names : names = SetToSeq(these)
  OBVIOUS
<1>3. names \in Seq(Names)
  <2>1. these \in SUBSET Names
    BY <1>1
  <2>2. names \in Seq(these)
    BY <1>2, <2>1, NamesInOrder
  <2> QED
    BY <2>1, <2>2
<1>4. New(copies, ns, on) = [k \in DOMAIN names |-> Copy(names[k], on)]
  BY <1>1, <1>2 DEF New
<1>5. PICK size \in Nat : DOMAIN names = 1..size
  BY <1>3
<1>6. \A k \in 1..size : names[k] \in Names
  BY <1>3, <1>5
<1> QED
  BY <1>4, <1>5, <1>6, CopyIsTyped

LEMMA MarkEditedKnown ==
  ASSUME NEW copies \in Seq(CopyType), NEW ns \in SUBSET Names, NEW on \in [Files -> Nat],
         NEW known, NEW before,
         CopiesKnown(copies, before, known),
         \A n \in known : n \in ns \/ on[Target[n]] = before[Target[n]]
  PROVE  /\ MarkEdited(copies, ns, on) \in Seq(CopyType)
         /\ CopiesKnown(MarkEdited(copies, ns, on), on,
              {n \in known : n \in ns => \/ on[Target[n]] # NotThere
                                         \/ on[Target[n]] = before[Target[n]]}
              \cup {n \in ns : on[Target[n]] # NotThere})
<1>1. PICK a : a = [i \in DOMAIN copies |->
                     IF copies[i].name \in ns /\ on[Target[copies[i].name]] # NotThere
                     THEN Copy(copies[i].name, on) ELSE copies[i]]
  OBVIOUS
<1>2. PICK b : b = New(copies, ns, on)
  OBVIOUS
<1>3. MarkEdited(copies, ns, on) = a \o b
  BY <1>1, <1>2 DEF MarkEdited
<1>4. \A i \in DOMAIN copies : copies[i] \in CopyType /\ copies[i].name \in Names
  BY CopiesAre
<1>5. a \in Seq(CopyType)
  BY <1>1, <1>4, CopyIsTyped
<1>6. b \in Seq(CopyType) /\ \A k \in DOMAIN b : b[k].version = on[Target[b[k].name]]
  BY <1>2, NewAreCopies
<1>7. PICK sure : sure = {n \in known : n \in ns => \/ on[Target[n]] # NotThere
                                                  \/ on[Target[n]] = before[Target[n]]}
                       \cup {n \in ns : on[Target[n]] # NotThere}
  OBVIOUS
<1>8. ASSUME NEW i \in DOMAIN a, a[i].name \in sure
      PROVE  a[i].version = on[Target[a[i].name]]
  <2>1. i \in DOMAIN copies /\ copies[i].name \in Names
    BY <1>1, <1>4
  <2>2. CASE copies[i].name \in ns /\ on[Target[copies[i].name]] # NotThere
    BY <1>1, <2>1, <2>2, CopyIsTyped
  <2>3. CASE ~(copies[i].name \in ns /\ on[Target[copies[i].name]] # NotThere)
    <3>1. a[i] = copies[i]
      BY <1>1, <2>1, <2>3
    <3>2. copies[i].name \in known /\ on[Target[copies[i].name]] = before[Target[copies[i].name]]
      BY <1>7, <1>8, <2>3, <3>1
    <3> QED
      BY <2>1, <3>1, <3>2 DEF CopiesKnown
  <2> QED
    BY <2>2, <2>3
<1>9. CopiesKnown(a \o b, on, sure)
  <2>1. ASSUME NEW i \in DOMAIN (a \o b)
        PROVE  (\E k \in DOMAIN a : (a \o b)[i] = a[k]) \/ (\E k \in DOMAIN b : (a \o b)[i] = b[k])
    BY <1>5, <1>6
  <2> QED
    BY <1>6, <1>8, <2>1 DEF CopiesKnown
<1> QED
  BY <1>3, <1>5, <1>6, <1>7, <1>9

LEMMA KnownLess ==
  ASSUME NEW copies, NEW on, NEW more, NEW less, CopiesKnown(copies, on, more), less \subseteq more
  PROVE  CopiesKnown(copies, on, less)
BY DEF CopiesKnown

LEMMA ReadKnown ==
  ASSUME StageInv, NEW n \in Names, Read(n)
  PROVE  StageInv'
<1>1. CASE loadedFiles' = loadedFiles
  <2>1. untouched' = untouched
    BY <1>1 DEF Read, NewCopies
  <2> QED
    BY <1>1, <2>1 DEF StageInv, Read, CopiesKnown
<1>2. CASE loadedFiles' = Append(loadedFiles, Copy(n, disk)) /\ n \notin Loaded(loadedFiles)
  <2>1. Copy(n, disk) \in CopyType /\ Copy(n, disk).name = n /\ Copy(n, disk).version = disk[Target[n]]
    BY CopyIsTyped DEF StageInv
  <2>2. NewCopies = {n}
    BY <1>2, <2>1 DEF NewCopies, Loaded, ToSet, StageInv
  <2>3. CopiesKnown(loadedFiles', disk, untouched')
    <3>1. ASSUME NEW i \in DOMAIN loadedFiles', loadedFiles'[i].name \in untouched'
          PROVE  loadedFiles'[i].version = disk[Target[loadedFiles'[i].name]]
      <4>1. CASE i \in DOMAIN loadedFiles
        <5>1. loadedFiles'[i] = loadedFiles[i]
          BY <1>2, <2>1, <4>1 DEF StageInv
        <5>2. loadedFiles[i].name # n
          BY <1>2, <4>1 DEF Loaded, ToSet
        <5>3. loadedFiles[i].name \in untouched
          BY <2>2, <3>1, <5>1, <5>2 DEF Read
        <5> QED
          BY <4>1, <5>1, <5>3 DEF StageInv, CopiesKnown
      <4>2. CASE i \notin DOMAIN loadedFiles
        <5>1. loadedFiles'[i] = Copy(n, disk)
          BY <1>2, <2>1, <4>2 DEF StageInv
        <5> QED
          BY <2>1, <5>1
      <4> QED
        BY <4>1, <4>2
    <3> QED
      BY <3>1 DEF CopiesKnown
  <2>4. disk' = disk
    BY DEF Read
  <2>5. CopiesKnown(loadedFiles', disk', untouched')
    BY <2>3, <2>4
  <2> QED
    BY <1>2, <2>1, <2>5 DEF StageInv, Read
<1> QED
  BY <1>1, <1>2 DEF Read, MarkLoaded

LEMMA WriteFilesKnown ==
  ASSUME StageInv, NEW ns \in SUBSET Names, WriteFiles(ns)
  PROVE  StageInv'
<1>1. versions' \in Nat /\ versions' # 0
  BY DEF WriteFiles, StageInv
<1>2. disk' \in [Files -> Nat]
  BY <1>1 DEF WriteFiles, StageInv
<1>3. \A n \in Names : disk'[Target[n]] = IF Spelled(Target[n]) \cap ns # {} THEN versions' ELSE disk[Target[n]]
  BY TargetsAreFiles DEF WriteFiles
<1>4. \A n \in ns : disk'[Target[n]] # NotThere
  BY <1>1, <1>3 DEF Spelled, NotThere
<1>5. PICK known : known = {n \in untouched : Spelled(Target[n]) \cap ns = {}}
  OBVIOUS
<1>6. CopiesKnown(loadedFiles, disk, known \cap Names)
  BY <1>5, KnownLess DEF StageInv
<1>7. \A n \in known \cap Names : disk'[Target[n]] = disk[Target[n]]
  BY <1>3, <1>5
<1>8. PICK sure : sure = {n \in known \cap Names : n \in ns => \/ disk'[Target[n]] # NotThere
                                                             \/ disk'[Target[n]] = disk[Target[n]]}
                       \cup {n \in ns : disk'[Target[n]] # NotThere}
  OBVIOUS
<1>9. loadedFiles' \in Seq(CopyType) /\ CopiesKnown(loadedFiles', disk', sure)
  <2>1. loadedFiles' = MarkEdited(loadedFiles, ns, disk')
    BY DEF WriteFiles
  <2>2. loadedFiles \in Seq(CopyType)
    BY DEF StageInv
  <2> QED
    BY <1>2, <1>6, <1>7, <1>8, <2>1, <2>2, MarkEditedKnown
<1>10. (known \cap Names) \cup ns \subseteq sure
  BY <1>4, <1>7, <1>8
<1>11. \A i \in DOMAIN loadedFiles' : loadedFiles'[i].name \in Names
  BY <1>9, CopiesAre
<1>12. CopiesKnown(loadedFiles', disk', untouched')
  <2>1. untouched' = known \cup ns
    BY <1>5 DEF WriteFiles
  <2> QED
    BY <1>9, <1>10, <1>11, <2>1 DEF CopiesKnown
<1>13. \A before \in journal' : DOMAIN before \subseteq Files /\ before \in [DOMAIN before -> Nat]
  <2>1. [f \in {Target[n] : n \in ns} |-> disk[f]] \in [{Target[n] : n \in ns} -> Nat]
    BY TargetsAreFiles DEF StageInv
  <2>2. {Target[n] : n \in ns} \subseteq Files
    BY TargetsAreFiles
  <2> QED
    BY <2>1, <2>2 DEF WriteFiles, StageInv
<1> QED
  BY <1>1, <1>2, <1>9, <1>12, <1>13 DEF StageInv, WriteFiles

LEMMA FailToWriteKnown ==
  ASSUME StageInv, NEW n \in Names, FailToWrite(n)
  PROVE  StageInv'
<1>1. disk' = disk /\ disk \in [Files -> Nat] /\ loadedFiles \in Seq(CopyType)
      /\ loadedFiles' = MarkEdited(loadedFiles, {n}, disk)
  BY DEF FailToWrite, StageInv
<1>2. PICK sure : sure = {m \in untouched : m \in {n} => \/ disk[Target[m]] # NotThere
                                                       \/ disk[Target[m]] = disk[Target[m]]}
                       \cup {m \in {n} : disk[Target[m]] # NotThere}
  OBVIOUS
<1>3. loadedFiles' \in Seq(CopyType) /\ CopiesKnown(loadedFiles', disk, sure)
  <2>1. CopiesKnown(loadedFiles, disk, untouched)
    BY DEF StageInv
  <2> QED
    BY <1>1, <1>2, <2>1, MarkEditedKnown
<1>4. untouched' \subseteq sure
  BY <1>2 DEF FailToWrite
<1>5. CopiesKnown(loadedFiles', disk', untouched')
  BY <1>1, <1>3, <1>4, KnownLess
<1> QED
  BY <1>1, <1>3, <1>5 DEF StageInv, FailToWrite

LEMMA RollBackKnown ==
  ASSUME StageInv, NEW before \in journal, RollBack(before)
  PROVE  StageInv'
<1>1. PICK changed : changed = {Plain[f] : f \in DOMAIN before}
  OBVIOUS
<1>2. /\ disk' = [f \in Files |-> IF f \in DOMAIN before THEN before[f] ELSE disk[f]]
      /\ loadedFiles' = MarkEdited(loadedFiles, changed, disk')
      /\ untouched' = {n \in untouched : Target[n] \notin DOMAIN before}
                        \cup {n \in changed : disk'[Target[n]] # NotThere}
      /\ UNCHANGED <<versions, stagedFiles, journal>>
  BY <1>1 DEF RollBack
<1>3. DOMAIN before \subseteq Files /\ before \in [DOMAIN before -> Nat]
      /\ disk \in [Files -> Nat] /\ loadedFiles \in Seq(CopyType)
  BY DEF StageInv
<1>4. disk' \in [Files -> Nat]
  BY <1>2, <1>3
<1>5. changed \in SUBSET Names
  BY <1>1, <1>3, StageAssumption
<1>6. PICK known : known = {n \in untouched \cap Names : Target[n] \notin DOMAIN before}
  OBVIOUS
<1>7. \A n \in known : disk'[Target[n]] = disk[Target[n]]
  BY <1>2, <1>6, TargetsAreFiles
<1>8. CopiesKnown(loadedFiles, disk, known)
  BY <1>6, KnownLess DEF StageInv
<1>9. PICK sure : sure = {n \in known : n \in changed => \/ disk'[Target[n]] # NotThere
                                                       \/ disk'[Target[n]] = disk[Target[n]]}
                       \cup {n \in changed : disk'[Target[n]] # NotThere}
  OBVIOUS
<1>10. loadedFiles' \in Seq(CopyType) /\ CopiesKnown(loadedFiles', disk', sure)
  <2>1. \A n \in known : n \in changed \/ disk'[Target[n]] = disk[Target[n]]
    BY <1>7
  <2>2. loadedFiles' = MarkEdited(loadedFiles, changed, disk') /\ loadedFiles \in Seq(CopyType)
    BY <1>2, <1>3
  <2> QED
    BY <1>4, <1>5, <1>8, <1>9, <2>1, <2>2, MarkEditedKnown
<1>11. \A i \in DOMAIN loadedFiles' : loadedFiles'[i].name \in Names
  BY <1>10, CopiesAre
<1>12. untouched' \cap Names \subseteq sure
  BY <1>2, <1>6, <1>7, <1>9
<1>13. CopiesKnown(loadedFiles', disk', untouched')
  BY <1>10, <1>11, <1>12 DEF CopiesKnown
<1> QED
  BY <1>2, <1>4, <1>10, <1>13 DEF StageInv

LEMMA OtherWritesKnown ==
  ASSUME StageInv, NEW f \in Files, NEW there \in BOOLEAN, OtherWrites(f, there)
  PROVE  StageInv'
<1>1. versions' \in Nat /\ disk' = [disk EXCEPT ![f] = IF there THEN versions' ELSE NotThere]
  BY DEF OtherWrites, StageInv
<1>2. disk' \in [Files -> Nat]
  BY <1>1 DEF StageInv, NotThere
<1>3. CopiesKnown(loadedFiles', disk', untouched')
  <2>1. ASSUME NEW i \in DOMAIN loadedFiles, loadedFiles[i].name \in untouched \ Spelled(f)
        PROVE  loadedFiles[i].version = disk'[Target[loadedFiles[i].name]]
    <3>1. loadedFiles[i].name \in Names
      BY CopiesAre DEF StageInv
    <3>2. Target[loadedFiles[i].name] # f
      BY <2>1, <3>1 DEF Spelled
    <3>3. disk'[Target[loadedFiles[i].name]] = disk[Target[loadedFiles[i].name]]
      BY <1>1, <3>1, <3>2, TargetsAreFiles DEF StageInv
    <3> QED
      BY <2>1, <3>3 DEF StageInv, CopiesKnown
  <2> QED
    BY <2>1 DEF OtherWrites, CopiesKnown
<1> QED
  BY <1>1, <1>2, <1>3 DEF StageInv, OtherWrites

LEMMA ResumeKnown ==
  ASSUME StageInv, Resume
  PROVE  StageInv'
<1>1. PICK there : there = {i \in DOMAIN stagedFiles : disk[Target[stagedFiles[i]]] # NotThere}
  OBVIOUS
<1>2. loadedFiles' = [k \in 1..Cardinality(there) |-> Copy(stagedFiles[Kth(there, k)], disk)]
  BY <1>1 DEF Resume
<1>3. PICK last \in Nat : DOMAIN stagedFiles = 1..last
  BY DEF StageInv
<1>4. there \in SUBSET (1..last)
  BY <1>1, <1>3
<1>5. Cardinality(there) \in Nat
  <2>1. IsFiniteSet(1..last)
    BY FS_Interval
  <2> QED
    BY <1>4, <2>1, FS_Subset, FS_CardinalityType
<1>6. ASSUME NEW k \in 1..Cardinality(there)
      PROVE  stagedFiles[Kth(there, k)] \in Names
  <2>1. \E i \in there : Cardinality({j \in there : j <= i}) = k
    BY <1>4, PlaceExists
  <2>2. Kth(there, k) \in there
    BY <2>1 DEF Kth
  <2> QED
    BY <1>1, <2>2 DEF StageInv
<1>7. disk \in [Files -> Nat]
  BY DEF StageInv
<1>8. \A k \in 1..Cardinality(there) :
        /\ loadedFiles'[k] \in CopyType
        /\ loadedFiles'[k].version = disk[Target[loadedFiles'[k].name]]
  BY <1>2, <1>6, <1>7, CopyIsTyped
<1>9. loadedFiles' \in Seq(CopyType) /\ DOMAIN loadedFiles' = 1..Cardinality(there)
  BY <1>2, <1>5, <1>8
<1>10. CopiesKnown(loadedFiles', disk', untouched')
  BY <1>8, <1>9 DEF CopiesKnown, Resume
<1> QED
  BY <1>9, <1>10 DEF StageInv, Resume

LEMMA SaveNamesKnown ==
  ASSUME StageInv, SaveNames
  PROVE  StageInv'
<1>1. stagedFiles' \in Seq(Names)
  <2>1. loadedFiles \in Seq(CopyType)
    BY DEF StageInv
  <2>2. \A i \in DOMAIN loadedFiles : loadedFiles[i].name \in Names
    BY <2>1, CopiesAre
  <2> QED
    BY <2>1, <2>2 DEF SaveNames
<1> QED
  BY <1>1 DEF SaveNames, StageInv, CopiesKnown

LEMMA StageInvInit == StageInit => StageInv
BY DEF StageInit, StageInv, CopiesKnown

LEMMA StageInvNext == StageInv /\ [StageNext]_stageVars => StageInv'
<1> SUFFICES ASSUME StageInv, [StageNext]_stageVars PROVE StageInv'
  OBVIOUS
<1>1. CASE UNCHANGED stageVars
  BY <1>1 DEF StageInv, CopiesKnown, stageVars
<1> QED
  BY <1>1, ReadKnown, FailToWriteKnown, WriteFilesKnown, RollBackKnown, OtherWritesKnown,
     ResumeKnown, SaveNamesKnown DEF StageNext

(* What comes before a place comes before every place behind it, so a      *)
(* place that is cut off has no higher priority than one that is shown.    *)
LEMMA HighestAreShown ==
  ASSUME StageInv
  PROVE  \A c \in Shown, d \in ToSet(loadedFiles) \ Shown : Priority[c.name] <= Priority[d.name]
<1> DEFINE before(i, j) ==
             \/ Priority[loadedFiles[i].name] < Priority[loadedFiles[j].name]
             \/ Priority[loadedFiles[i].name] = Priority[loadedFiles[j].name] /\ i < j
           ahead(j) == {i \in DOMAIN loadedFiles : before(i, j)}
<1>1. PICK last \in Nat : DOMAIN loadedFiles = 1..last
  BY DEF StageInv
<1>2. \A i \in DOMAIN loadedFiles : Priority[loadedFiles[i].name] \in Int
  BY StageAssumption, CopiesAre DEF StageInv
<1>3. Shown = {loadedFiles[j] : j \in {i \in DOMAIN loadedFiles : Cardinality(ahead(i)) < MaxActive}}
  BY DEF Shown
<1>4. ASSUME NEW i \in DOMAIN loadedFiles
      PROVE  IsFiniteSet(ahead(i)) /\ Cardinality(ahead(i)) \in Nat
  <2>1. IsFiniteSet(DOMAIN loadedFiles)
    BY <1>1, FS_Interval
  <2>2. ahead(i) \in SUBSET DOMAIN loadedFiles
    OBVIOUS
  <2> QED
    BY <2>1, <2>2, FS_Subset, FS_CardinalityType
<1>5. ASSUME NEW i \in DOMAIN loadedFiles, NEW j \in DOMAIN loadedFiles,
             Priority[loadedFiles[i].name] < Priority[loadedFiles[j].name]
      PROVE  ahead(i) \in SUBSET ahead(j)
  <2>1. ASSUME NEW k \in DOMAIN loadedFiles, before(k, i) PROVE before(k, j)
    BY <1>2, <1>5, <2>1
  <2> QED
    BY <2>1
<1> HIDE DEF ahead
<1>6. ASSUME NEW j \in DOMAIN loadedFiles, Cardinality(ahead(j)) < MaxActive,
             NEW i \in DOMAIN loadedFiles, ~(Cardinality(ahead(i)) < MaxActive)
      PROVE  Priority[loadedFiles[j].name] <= Priority[loadedFiles[i].name]
  <2>1. CASE Priority[loadedFiles[i].name] < Priority[loadedFiles[j].name]
    <3>1. Cardinality(ahead(i)) <= Cardinality(ahead(j))
      BY <1>4, <1>5, <2>1, FS_Subset
    <3> QED
      BY <1>4, <1>6, <3>1, StageAssumption
  <2> QED
    BY <1>2, <2>1
<1>7. ASSUME NEW c \in Shown, NEW d \in ToSet(loadedFiles) \ Shown
      PROVE  Priority[c.name] <= Priority[d.name]
  <2>1. PICK j \in DOMAIN loadedFiles : c = loadedFiles[j] /\ Cardinality(ahead(j)) < MaxActive
    BY <1>3, <1>7
  <2>2. PICK i \in DOMAIN loadedFiles : d = loadedFiles[i]
    BY <1>7 DEF ToSet
  <2>3. ~(Cardinality(ahead(i)) < MaxActive)
    BY <1>3, <1>7, <2>2
  <2> QED
    BY <1>6, <2>1, <2>2, <2>3
<1> QED
  BY <1>7

LEMMA KnownIsShown == StageInv => ShownIsKnown
<1> SUFFICES ASSUME StageInv PROVE ShownIsKnown
  OBVIOUS
<1>1. \A c \in ToSet(loadedFiles) : c.name \in untouched => c.version = disk[Target[c.name]]
  BY DEF StageInv, CopiesKnown, ToSet
<1> QED
  BY <1>1, HighestAreShown DEF ShownIsKnown

----------------------------------------------------------------------------
(***************************************************************************)
(* The memory of the reasoning.  What stands before a record in the        *)
(* ranking is better or as good, so the first three are the best.          *)
(***************************************************************************)
ThoughtRecord == [kind : {"thinking_chain", "tool_result", "compressed_insight"},
                  query : Requests \cup {NoRequest, "Compressed"}, stamp : Nat]

ThoughtsInv ==
  /\ day \in Nat /\ roundOf \in Nat
  /\ records \in Seq(ThoughtRecord) /\ recalls \in Seq(ThoughtRecord)
  /\ request \in Requests \cup {NoRequest}

LEMMA RecordsScore ==
  ASSUME ThoughtsInv, NEW query, NEW i \in DOMAIN recalls
  PROVE  Score(recalls[i], query) \in Nat
<1>1. recalls[i] \in ThoughtRecord
  BY DEF ThoughtsInv
<1>2. recalls[i].stamp \in Nat /\ day \in Nat /\ Week \in Nat
  BY <1>1, ThoughtsAssumption DEF ThoughtRecord, ThoughtsInv
<1> QED
  BY <1>2 DEF Score

(* The places in Worth are ranked by what stands ahead of them.            *)
LEMMA WorthIsRanked ==
  ASSUME ThoughtsInv, NEW query
  PROVE  /\ IsFiniteSet(Worth(Scores(query))) /\ Worth(Scores(query)) \subseteq DOMAIN recalls
         /\ Ranking(Worth(Scores(query)), [j \in Worth(Scores(query)) |-> Ahead(Scores(query), j)])
<1>1. PICK score : score = Scores(query) /\ score = [i \in DOMAIN recalls |-> Score(recalls[i], query)]
  BY DEF Scores
<1>2. PICK last \in Nat : DOMAIN recalls = 1..last
  BY DEF ThoughtsInv
<1>3. \A i \in 1..last : score[i] \in Nat /\ score[i] = Score(recalls[i], query)
  BY <1>1, <1>2, RecordsScore
<1>4. PICK P : P = Worth(Scores(query))
  OBVIOUS
<1>5. P \in SUBSET (1..last)
  BY <1>2, <1>4 DEF Worth, Scores
<1>6. \A i \in P : i \in Nat /\ score[i] \in Nat
  BY <1>3, <1>5
<1>7. PICK b : b = [j \in P |-> Ahead(Scores(query), j)]
  OBVIOUS
<1>8. ASSUME NEW j \in P
      PROVE  b[j] = {i \in P : score[i] > score[j] \/ (score[i] = score[j] /\ i < j)}
  BY <1>1, <1>4, <1>7 DEF Ahead
<1>9. b \in [P -> SUBSET P]
  BY <1>4, <1>7 DEF Ahead, Scores
<1>10. \A x \in P : x \notin b[x]
  BY <1>6, <1>8
<1>11. \A x, y \in P : x # y => x \in b[y] \/ y \in b[x]
  <2>1. ASSUME NEW x \in P, NEW y \in P, x # y PROVE x \in b[y] \/ y \in b[x]
    <3>1. \/ score[x] > score[y] \/ (score[x] = score[y] /\ x < y)
          \/ score[y] > score[x] \/ (score[y] = score[x] /\ y < x)
      BY <1>6, <2>1
    <3> QED
      BY <1>8, <3>1
  <2> QED
    BY <2>1
<1>12. ASSUME NEW x \in P, NEW y \in P, x \in b[y] PROVE b[x] \subseteq b[y]
  <2>1. score[x] > score[y] \/ (score[x] = score[y] /\ x < y)
    BY <1>8, <1>12
  <2>2. ASSUME NEW z \in P, score[z] > score[x] \/ (score[z] = score[x] /\ z < x)
        PROVE  score[z] > score[y] \/ (score[z] = score[y] /\ z < y)
    BY <1>6, <2>1, <2>2
  <2> QED
    BY <1>8, <2>2
<1>13. IsFiniteSet(P)
  <2>1. IsFiniteSet(1..last)
    BY FS_Interval
  <2> QED
    BY <1>5, <2>1, FS_Subset
<1>14. Ranking(P, b)
  BY <1>9, <1>10, <1>11, <1>12 DEF Ranking
<1> QED
  BY <1>2, <1>4, <1>5, <1>7, <1>13, <1>14

(* Each number of the ranking is the record of one place, and each place   *)
(* has its number.                                                         *)
LEMMA RankedByPlace ==
  ASSUME ThoughtsInv, NEW query
  PROVE  /\ Ranked(query) \in Seq(ThoughtRecord)
         /\ Len(Ranked(query)) = Cardinality(Worth(Scores(query))) /\ Cardinality(Worth(Scores(query))) \in Nat
         /\ \A k \in 1..Len(Ranked(query)) : \E j \in Worth(Scores(query)) :
              Ranked(query)[k] = recalls[j] /\ Cardinality(Ahead(Scores(query), j)) = k - 1
         /\ \A i \in Worth(Scores(query)) :
              /\ Cardinality(Ahead(Scores(query), i)) + 1 \in 1..Len(Ranked(query))
              /\ Ranked(query)[Cardinality(Ahead(Scores(query), i)) + 1] = recalls[i]
<1>1. PICK P, size, b : /\ P = Worth(Scores(query)) /\ size = Cardinality(P)
                        /\ b = [j \in P |-> Ahead(Scores(query), j)]
  OBVIOUS
<1>2. IsFiniteSet(P) /\ Ranking(P, b) /\ P \subseteq DOMAIN recalls
  BY <1>1, WorthIsRanked
<1>3. size \in Nat
  BY <1>1, <1>2, FS_CardinalityType
<1>4. PICK list : list = Ranked(query)
  OBVIOUS
<1>5. list = [k \in 1..size |-> recalls[CHOOSE j \in P : Cardinality(Ahead(Scores(query), j)) = k - 1]]
  BY <1>1, <1>4 DEF Ranked
<1>6. \A j \in P : b[j] = Ahead(Scores(query), j)
  BY <1>1
<1>7. ASSUME NEW k \in 1..size
      PROVE  \E j \in P : list[k] = recalls[j] /\ Cardinality(Ahead(Scores(query), j)) = k - 1
  <2>1. PICK m \in Nat : m = k - 1 /\ m < Cardinality(P)
    BY <1>1, <1>3
  <2>2. \E j \in P : Cardinality(b[j]) = m
    BY <1>2, <2>1, RankIsTaken
  <2>3. \E j \in P : Cardinality(Ahead(Scores(query), j)) = k - 1
    BY <1>6, <2>1, <2>2
  <2>4. PICK j : j = CHOOSE x \in P : Cardinality(Ahead(Scores(query), x)) = k - 1
    OBVIOUS
  <2>5. j \in P /\ Cardinality(Ahead(Scores(query), j)) = k - 1
    BY <2>3, <2>4
  <2>6. list[k] = recalls[j]
    BY <1>5, <2>4
  <2> QED
    BY <2>5, <2>6
<1>8. \A j \in P : recalls[j] \in ThoughtRecord
  BY <1>2 DEF ThoughtsInv
<1>9. list \in Seq(ThoughtRecord) /\ Len(list) = size
  <2>1. \A k \in 1..size : list[k] \in ThoughtRecord
    BY <1>7, <1>8
  <2>2. list \in [1..size -> ThoughtRecord]
    BY <1>5, <2>1
  <2> QED
    BY <1>3, <2>2, SeqDef
<1>10. ASSUME NEW i \in P
       PROVE  Cardinality(b[i]) + 1 \in 1..size /\ list[Cardinality(b[i]) + 1] = recalls[i]
  <2>1. Cardinality(b[i]) \in 0..(Cardinality(P) - 1)
    BY <1>2, RanksCount
  <2>2. PICK k : k = Cardinality(b[i]) + 1
    OBVIOUS
  <2>3. k \in 1..size /\ k - 1 = Cardinality(b[i])
    BY <1>1, <1>3, <2>1, <2>2
  <2>4. PICK j \in P : list[k] = recalls[j] /\ Cardinality(Ahead(Scores(query), j)) = k - 1
    BY <1>7, <2>3
  <2>5. Cardinality(b[j]) = Cardinality(b[i])
    BY <1>6, <2>3, <2>4
  <2>6. j = i
    BY <1>2, <2>5, RanksCount
  <2> QED
    BY <2>2, <2>3, <2>4, <2>6
<1> QED
  BY <1>1, <1>3, <1>4, <1>6, <1>7, <1>9, <1>10

LEMMA TopmostAre ==
  ASSUME NEW S, NEW list \in Seq(S), NEW most \in Nat
  PROVE  /\ Topmost(list, most) \in Seq(S) /\ Len(Topmost(list, most)) \in Nat
         /\ Len(Topmost(list, most)) = IF Len(list) < most THEN Len(list) ELSE most
         /\ \A k \in 1..Len(Topmost(list, most)) : Topmost(list, most)[k] = list[k]
<1>1. PICK n : n = IF Len(list) < most THEN Len(list) ELSE most
  OBVIOUS
<1>2. n \in 0..Len(list) /\ n \in Nat
  BY <1>1
<1>3. Topmost(list, most) = SubSeq(list, 1, n)
  BY <1>1 DEF Topmost
<1> QED
  BY <1>1, <1>2, <1>3, SubSeqProperties

LEMMA BestIsFound ==
  ASSUME ThoughtsInv, NEW query, NEW r \in Range(recalls) \ Range(FindSimilar(query, 3))
  PROVE  IF Len(FindSimilar(query, 3)) < 3 THEN Score(r, query) = 0
         ELSE \A s \in Range(FindSimilar(query, 3)) : Score(s, query) >= Score(r, query)
<1>1. PICK list, found, size :
        list = Ranked(query) /\ found = FindSimilar(query, 3) /\ size = Len(found)
  OBVIOUS
<1>2. /\ list \in Seq(ThoughtRecord) /\ Len(list) = Cardinality(Worth(Scores(query)))
      /\ \A k \in 1..Len(list) : \E j \in Worth(Scores(query)) :
           list[k] = recalls[j] /\ Cardinality(Ahead(Scores(query), j)) = k - 1
      /\ \A i \in Worth(Scores(query)) : /\ Cardinality(Ahead(Scores(query), i)) + 1 \in 1..Len(list)
                                 /\ list[Cardinality(Ahead(Scores(query), i)) + 1] = recalls[i]
  BY <1>1, RankedByPlace
<1>3. found = Topmost(list, 3)
  BY <1>1 DEF FindSimilar
<1>4. /\ found \in Seq(ThoughtRecord) /\ size \in Nat
      /\ size = IF Len(list) < 3 THEN Len(list) ELSE 3
      /\ \A k \in 1..size : found[k] = list[k]
  <2>1. /\ Topmost(list, 3) \in Seq(ThoughtRecord) /\ Len(Topmost(list, 3)) \in Nat
        /\ Len(Topmost(list, 3)) = IF Len(list) < 3 THEN Len(list) ELSE 3
        /\ \A k \in 1..Len(Topmost(list, 3)) : Topmost(list, 3)[k] = list[k]
    <3>1. list \in Seq(ThoughtRecord)
      BY <1>2
    <3> QED
      BY <3>1, TopmostAre
  <2> QED
    BY <1>1, <1>3, <2>1
<1>5. DOMAIN found = 1..size
  BY <1>1, <1>4
<1>6. PICK i \in DOMAIN recalls : r = recalls[i]
  BY DEF Range
<1>7. Score(r, query) \in Nat
  BY <1>6, RecordsScore
<1>8. ASSUME i \in Worth(Scores(query))
      PROVE  Cardinality(Ahead(Scores(query), i)) + 1 > size
  <2>1. PICK k : k = Cardinality(Ahead(Scores(query), i)) + 1
    OBVIOUS
  <2>2. k \in 1..Len(list) /\ list[k] = r
    BY <1>2, <1>6, <1>8, <2>1
  <2>3. k \notin 1..size
    BY <1>1, <1>4, <1>5, <2>2 DEF Range
  <2> QED
    BY <1>2, <1>4, <2>1, <2>2, <2>3
<1>9. CASE size < 3
  <2>1. i \notin Worth(Scores(query))
    <3> SUFFICES ASSUME i \in Worth(Scores(query)) PROVE FALSE
      OBVIOUS
    <3>1. Cardinality(Ahead(Scores(query), i)) + 1 \in 1..Len(list)
      BY <1>2
    <3> QED
      BY <1>2, <1>4, <1>8, <1>9, <3>1
  <2>2. ~(Score(r, query) > 0)
    BY <1>6, <2>1 DEF Worth, Scores
  <2> QED
    BY <1>1, <1>7, <1>9, <2>2
<1>10. CASE ~(size < 3)
  <2>1. ASSUME NEW s \in Range(found) PROVE Score(s, query) >= Score(r, query)
    <3>1. PICK k \in 1..size : s = found[k]
      BY <1>5, <2>1 DEF Range
    <3>2. k \in 1..Len(list) /\ s = list[k]
      BY <1>2, <1>4, <3>1
    <3>3. PICK j \in Worth(Scores(query)) : s = recalls[j] /\ Cardinality(Ahead(Scores(query), j)) = k - 1
      BY <1>2, <3>2
    <3>4. j \in DOMAIN recalls /\ Score(s, query) \in Nat
      BY <3>3, RecordsScore DEF Worth, Scores
    <3>5. CASE i \in Worth(Scores(query))
      <4>1. i \notin Ahead(Scores(query), j)
        <5> SUFFICES ASSUME i \in Ahead(Scores(query), j) PROVE FALSE
          OBVIOUS
        <5>1. PICK P, b : P = Worth(Scores(query)) /\ b = [x \in P |-> Ahead(Scores(query), x)]
          OBVIOUS
        <5>2. IsFiniteSet(P) /\ Ranking(P, b) /\ i \in P /\ j \in P /\ i \in b[j]
          BY <3>3, <3>5, <5>1, WorthIsRanked
        <5>3. Cardinality(b[i]) < Cardinality(b[j])
          BY <5>2, RanksCount
        <5>4. Cardinality(Ahead(Scores(query), i)) < k - 1
          BY <3>3, <3>5, <5>1, <5>3
        <5>5. Cardinality(Ahead(Scores(query), i)) \in 0..(Cardinality(P) - 1) /\ Cardinality(P) \in Nat
          BY <5>1, <5>2, RanksCount
        <5>6. Cardinality(Ahead(Scores(query), i)) \in Nat
          BY <5>5
        <5>7. Cardinality(Ahead(Scores(query), i)) + 1 > size
          BY <1>8, <3>5
        <5> QED
          BY <1>4, <3>1, <5>4, <5>6, <5>7
      <4>2. ~(Score(r, query) > Score(s, query))
        <5>1. PICK score : score = Scores(query)
          OBVIOUS
        <5>2. /\ i \in DOMAIN recalls => score[i] = Score(recalls[i], query)
              /\ j \in DOMAIN recalls => score[j] = Score(recalls[j], query)
          BY <5>1 DEF Scores
        <5>3. ~(score[i] > score[j])
          BY <3>5, <4>1, <5>1 DEF Ahead
        <5> QED
          BY <1>6, <3>3, <3>4, <5>2, <5>3
      <4> QED
        BY <1>7, <3>4, <4>2
    <3>6. CASE i \notin Worth(Scores(query))
      <4>1. Score(r, query) = 0
        BY <1>6, <1>7, <3>6 DEF Worth, Scores
      <4> QED
        BY <3>4, <4>1
    <3> QED
      BY <3>5, <3>6
  <2> QED
    BY <1>1, <1>10, <2>1
<1> QED
  BY <1>9, <1>10

LEMMA RecordsAreTyped ==
  ASSUME ThoughtsInv, NEW query \in Requests \cup {NoRequest}
  PROVE  Chain(query) \in ThoughtRecord /\ ToolResult(query) \in ThoughtRecord
         /\ Insight \in ThoughtRecord
BY DEF ThoughtsInv, Chain, ToolResult, Insight, ThoughtRecord

LEMMA ThoughtsInvInit == ThoughtsInit => ThoughtsInv
BY DEF ThoughtsInit, ThoughtsInv

LEMMA ThoughtsInvNext == ThoughtsInv /\ [ThoughtsNext]_thoughtVars => ThoughtsInv'
<1> SUFFICES ASSUME ThoughtsInv, [ThoughtsNext]_thoughtVars PROVE ThoughtsInv'
  OBVIOUS
<1>1. CASE UNCHANGED thoughtVars
  BY <1>1 DEF thoughtVars, ThoughtsInv
<1>2. ASSUME NEW query \in Requests, BeginRun(query) \/ OtherRecords(query)
      PROVE  ThoughtsInv'
  <2>1. Chain(query) \in ThoughtRecord
    BY RecordsAreTyped
  <2>2. CASE BeginRun(query)
    BY <2>2 DEF BeginRun, ThoughtsInv
  <2>3. CASE OtherRecords(query)
    <3>1. records' \in Seq(ThoughtRecord)
      BY <2>1, <2>3 DEF OtherRecords, ThoughtsInv
    <3> QED
      BY <2>3, <3>1 DEF OtherRecords, ThoughtsInv
  <2> QED
    BY <1>2, <2>2, <2>3
<1>3. ASSUME NEW reasons \in BOOLEAN, NEW learns \in BOOLEAN, NEW crowded \in BOOLEAN, NEW answer,
             TakeRound(reasons, learns, crowded, answer)
      PROVE  ThoughtsInv'
  <2>1. PICK distils : /\ records' = records \o Written(reasons, learns, distils)
                       /\ recalls' = recalls \o Written(reasons, learns, distils)
    BY <1>3 DEF TakeRound
  <2>2. Written(reasons, learns, distils) \in Seq(ThoughtRecord)
    <3>1. Chain(request) \in ThoughtRecord /\ ToolResult(request) \in ThoughtRecord
          /\ Insight \in ThoughtRecord
      BY RecordsAreTyped DEF ThoughtsInv
    <3> QED
      BY <3>1 DEF Written
  <2>3. records' \in Seq(ThoughtRecord) /\ recalls' \in Seq(ThoughtRecord)
    BY <2>1, <2>2 DEF ThoughtsInv
  <2> QED
    BY <1>3, <2>3 DEF TakeRound, ThoughtsInv
<1>4. ASSUME NEW ratings, Recall(ratings)
      PROVE  ThoughtsInv'
  BY <1>4 DEF Recall, ThoughtsInv
<1>5. CASE EndRun
  BY <1>5 DEF EndRun, ThoughtsInv
<1>6. CASE OpenThoughts
  BY <1>6 DEF OpenThoughts, ThoughtsInv
<1>7. CASE NextDay
  BY <1>7 DEF NextDay, ThoughtsInv
<1> QED
  BY <1>1, <1>2, <1>3, <1>4, <1>5, <1>6, <1>7 DEF ThoughtsNext

BestStep ==
  (request # NoRequest /\ roundOf > 0 /\ roundOf' = roundOf + 1) =>
    \A r \in Range(recalls) \ Range(reminded') :
      IF Len(reminded') < 3 THEN Score(r, request) = 0
      ELSE \A s \in Range(reminded') : Score(s, request) >= Score(r, request)

AgeStep ==
  request # NoRequest /\ request' # NoRequest =>
    \A e \in cold \ cold' : e.mark \in DOMAIN Lifetime /\ day - e.day > Lifetime[e.mark]

LEMMA RoundRecallsBest == ThoughtsInv /\ [ThoughtsNext]_thoughtVars => BestStep
<1> SUFFICES ASSUME ThoughtsInv, [ThoughtsNext]_thoughtVars,
                    request # NoRequest, roundOf > 0, roundOf' = roundOf + 1,
                    NEW r \in Range(recalls) \ Range(reminded')
             PROVE  IF Len(reminded') < 3 THEN Score(r, request) = 0
                    ELSE \A s \in Range(reminded') : Score(s, request) >= Score(r, request)
  BY DEF BestStep
<1>1. roundOf \in Nat
  BY DEF ThoughtsInv
<1>2. roundOf' # roundOf /\ roundOf' # 0
  BY <1>1
<1>3. \E reasons, learns, crowded, answer : TakeRound(reasons, learns, crowded, answer)
  BY <1>2 DEF ThoughtsNext, thoughtVars, BeginRun, OtherRecords, Recall, EndRun, OpenThoughts, NextDay
<1>4. reminded' = FindSimilar(request, 3)
  BY <1>3 DEF TakeRound
<1> QED
  BY <1>4, BestIsFound

LEMMA MergeAges ==
  ASSUME NEW out, NEW e \in cold \ MergeCompressedInsights(cold, out)
  PROVE  e.mark \in DOMAIN Lifetime /\ day - e.day > Lifetime[e.mark]
<1>1. Decayed(e)
  BY DEF MergeCompressedInsights
<1> QED
  BY <1>1 DEF Decayed, Lifetime

LEMMA RoundsAge == [ThoughtsNext]_thoughtVars => AgeStep
<1> SUFFICES ASSUME [ThoughtsNext]_thoughtVars, request # NoRequest, request' # NoRequest, NEW e \in cold \ cold'
             PROVE  e.mark \in DOMAIN Lifetime /\ day - e.day > Lifetime[e.mark]
  BY DEF AgeStep
<1>1. cold' # cold
  OBVIOUS
<1>2. \E reasons, learns, crowded, answer : TakeRound(reasons, learns, crowded, answer)
  BY <1>1 DEF ThoughtsNext, thoughtVars, BeginRun, OtherRecords, Recall, EndRun, OpenThoughts, NextDay
<1>3. \E out : cold' = cold \/ cold' = MergeCompressedInsights(cold, out)
  BY <1>2 DEF TakeRound
<1> QED
  BY <1>1, <1>3, MergeAges

----------------------------------------------------------------------------
(***************************************************************************)
(* The rounds and checkpoints of a session.  Sorting keeps the rows, in an *)
(* order that the rows fix, so that until a second program writes both     *)
(* runtimes come to the same first and last.                               *)
(***************************************************************************)
(* What has its number in a ranking, and the order of the numbers is that  *)
(* of the ranking.                                                         *)
Placed(P, below, size, at) ==
  /\ size = Cardinality(P)
  /\ at = [k \in 1..size |-> CHOOSE j \in P : Cardinality(below[j]) = k - 1]

LEMMA PlacesInOrder ==
  ASSUME NEW P, IsFiniteSet(P), NEW below, Ranking(P, below), NEW size, NEW at,
         Placed(P, below, size, at)
  PROVE  /\ size \in Nat /\ at \in [1..size -> P]
         /\ \A i \in P : \E k \in 1..size : at[k] = i
         /\ \A k, l \in 1..size : k < l => at[k] \in below[at[l]]
<1> USE DEF Placed
<1>1. size \in Nat
  BY FS_CardinalityType
<1>2. ASSUME NEW k \in 1..size
      PROVE  at[k] \in P /\ Cardinality(below[at[k]]) = k - 1
  <2>1. PICK m \in Nat : m = k - 1 /\ m < Cardinality(P)
    BY <1>1
  <2>2. \E j \in P : Cardinality(below[j]) = m
    BY <2>1, RankIsTaken
  <2>3. \E j \in P : Cardinality(below[j]) = k - 1
    BY <2>1, <2>2
  <2>4. at[k] = CHOOSE j \in P : Cardinality(below[j]) = k - 1
    OBVIOUS
  <2> QED
    BY <2>3, <2>4
<1>3. ASSUME NEW i \in P PROVE \E k \in 1..size : at[k] = i
  <2>1. Cardinality(below[i]) \in 0..(Cardinality(P) - 1)
    BY RanksCount
  <2>2. PICK k : k = Cardinality(below[i]) + 1
    OBVIOUS
  <2>3. k \in 1..size /\ k - 1 = Cardinality(below[i])
    BY <1>1, <2>1, <2>2
  <2>4. at[k] \in P /\ Cardinality(below[at[k]]) = Cardinality(below[i])
    BY <1>2, <2>3
  <2>5. at[k] = i
    BY <2>4, RanksCount
  <2> QED
    BY <2>3, <2>5
<1>4. ASSUME NEW k \in 1..size, NEW l \in 1..size, k < l PROVE at[k] \in below[at[l]]
  <2>1. PICK x \in P, y \in P : x = at[k] /\ y = at[l] /\ Cardinality(below[x]) = k - 1
                                /\ Cardinality(below[y]) = l - 1
    BY <1>2
  <2>2. x # y /\ ~(Cardinality(below[y]) < Cardinality(below[x]))
    BY <1>4, <2>1
  <2>3. y \notin below[x]
    BY <2>2, RanksCount
  <2> QED
    BY <2>1, <2>2, <2>3 DEF Ranking
<1>5. at \in [1..size -> P]
  BY <1>2
<1> QED
  BY <1>1, <1>3, <1>4, <1>5

(***************************************************************************)
(* The rounds and checkpoints of the store.  Numbers that rise make one    *)
(* order of the checkpoints, so that sorting and cutting them in memory    *)
(* leaves those that the database leaves.                                  *)
(***************************************************************************)
PointRow == [made : Nat, number : Nat]
Rises(s) == \A k, l \in DOMAIN s : k < l => s[k].number < s[l].number
Differ(s) == \A k, l \in DOMAIN s : k # l => s[k].number # s[l].number

LEMMA RowsAre ==
  ASSUME NEW s \in Seq(PointRow)
  PROVE  /\ Len(s) \in Nat /\ DOMAIN s = 1..Len(s)
         /\ \A i \in DOMAIN s : s[i] \in PointRow /\ s[i].number \in Nat /\ s[i].made \in Nat
<1>1. \A i \in DOMAIN s : s[i] \in PointRow
  OBVIOUS
<1> QED
  BY <1>1 DEF PointRow

LEMMA IntervalCounts == \A k \in Nat : IsFiniteSet(1..k) /\ Cardinality(1..k) = k
BY FS_Interval

LEMMA SameSets ==
  ASSUME NEW a, NEW b, \A i \in DOMAIN a : \E j \in DOMAIN b : a[i] = b[j],
         \A j \in DOMAIN b : \E i \in DOMAIN a : b[j] = a[i]
  PROVE  ToSet(a) = ToSet(b)
<1>1. ToSet(a) = {a[i] : i \in DOMAIN a} /\ ToSet(b) = {b[i] : i \in DOMAIN b}
  BY DEF ToSet
<1> QED
  BY <1>1

LEMMA RisingAgrees ==
  ASSUME NEW a \in Seq(PointRow), NEW b \in Seq(PointRow), Rises(a), Rises(b),
         ToSet(a) = ToSet(b)
  PROVE  Len(a) <= Len(b) /\ \A k \in 1..Len(a) : b[k] = a[k]
<1>1. /\ Len(a) \in Nat /\ DOMAIN a = 1..Len(a) /\ \A i \in DOMAIN a : a[i].number \in Nat
      /\ Len(b) \in Nat /\ DOMAIN b = 1..Len(b) /\ \A i \in DOMAIN b : b[i].number \in Nat
  BY RowsAre
<1>2. \A i \in 1..Len(a) : \E j \in 1..Len(b) : a[i] = b[j]
  BY <1>1 DEF ToSet
<1>3. \A j \in 1..Len(b) : \E i \in 1..Len(a) : a[i] = b[j]
  BY <1>1 DEF ToSet
<1>4. SUFFICES ASSUME {k \in 1..Len(a) : ~(k <= Len(b) /\ b[k] = a[k])} # {}
               PROVE  FALSE
  <2>1. \A k \in 1..Len(a) : k <= Len(b) /\ b[k] = a[k]
    BY <1>4
  <2>2. Len(a) <= Len(b)
    <3>1. CASE Len(a) = 0
      BY <1>1, <3>1
    <3>2. CASE Len(a) # 0
      <4>1. Len(a) \in 1..Len(a)
        BY <1>1, <3>2
      <4> QED
        BY <2>1, <4>1
    <3> QED
      BY <3>1, <3>2
  <2> QED
    BY <2>1, <2>2
<1>5. PICK k \in 1..Len(a) : /\ ~(k <= Len(b) /\ b[k] = a[k])
                             /\ \A i \in 1..Len(a) : i < k => i <= Len(b) /\ b[i] = a[i]
  <2>1. PICK S : S = {k \in 1..Len(a) : ~(k <= Len(b) /\ b[k] = a[k])}
    OBVIOUS
  <2>2. PICK k \in S : \A y \in S : k <= y
    <3>1. S \in SUBSET Nat /\ S # {}
      BY <1>1, <1>4, <2>1
    <3> QED
      BY <3>1, LeastExists
  <2>3. \A i \in 1..Len(a) : i < k => i \notin S
    BY <2>1, <2>2
  <2> QED
    BY <2>1, <2>2, <2>3
<1>6. PICK j \in 1..Len(b) : a[k] = b[j]
  BY <1>2
<1>7. ~(j < k) /\ j # k
  <2>1. ASSUME j < k PROVE FALSE
    <3>1. j \in 1..Len(a) /\ b[j] = a[j]
      BY <1>1, <1>5, <2>1
    <3>2. a[j].number < a[k].number
      BY <1>1, <2>1, <3>1 DEF Rises
    <3> QED
      BY <1>1, <1>6, <3>1, <3>2
  <2> QED
    BY <1>1, <1>5, <1>6, <2>1
<1>8. k \in 1..Len(b) /\ k < j
  BY <1>1, <1>7
<1>9. b[k].number < a[k].number
  BY <1>1, <1>6, <1>8 DEF Rises
<1>10. PICK i \in 1..Len(a) : a[i] = b[k]
  BY <1>3, <1>8
<1>11. CASE i < k
  <2>1. b[i] = a[i] /\ i \in 1..Len(b)
    BY <1>1, <1>5, <1>11
  <2>2. b[i].number < b[k].number
    BY <1>1, <1>8, <1>11, <2>1 DEF Rises
  <2> QED
    BY <1>1, <1>8, <1>10, <2>1, <2>2
<1>12. CASE i = k
  BY <1>5, <1>8, <1>10, <1>12
<1>13. CASE k < i
  <2>1. a[k].number < a[i].number
    BY <1>1, <1>13 DEF Rises
  <2> QED
    BY <1>1, <1>8, <1>9, <1>10, <2>1
<1> QED
  BY <1>1, <1>11, <1>12, <1>13

LEMMA RisingIsOne ==
  ASSUME NEW a \in Seq(PointRow), NEW b \in Seq(PointRow), Rises(a), Rises(b),
         ToSet(a) = ToSet(b)
  PROVE  a = b
<1>1. /\ Len(a) <= Len(b) /\ \A k \in 1..Len(a) : b[k] = a[k]
      /\ Len(b) <= Len(a)
  BY RisingAgrees
<1>2. Len(a) \in Nat /\ Len(b) \in Nat
  BY RowsAre
<1>3. Len(a) = Len(b)
  BY <1>1, <1>2
<1> QED
  BY <1>1, <1>3

(* Sorting rows with different numbers puts the same rows in their order.  *)
LEMMA SortedIs ==
  ASSUME NEW rows \in Seq(PointRow), Differ(rows), NEW direction \in {-1, 1},
         NEW s, s = Sorted(rows, direction)
  PROVE  /\ s \in Seq(PointRow) /\ Len(s) = Len(rows) /\ ToSet(s) = ToSet(rows)
         /\ \A k, l \in 1..Len(rows) : k < l => direction * s[k].number < direction * s[l].number
<1>1. /\ Len(rows) \in Nat /\ DOMAIN rows = 1..Len(rows)
      /\ \A i \in DOMAIN rows : rows[i] \in PointRow /\ rows[i].number \in Nat
  BY RowsAre
<1>2. PICK P, size, b, key : /\ P = DOMAIN rows /\ size = Cardinality(P)
                             /\ b = [j \in P |-> Preceding(rows, direction, j)]
                             /\ key = [j \in P |-> direction * rows[j].number]
  OBVIOUS
<1>3. IsFiniteSet(P) /\ size = Len(rows) /\ P = 1..size /\ \A i \in P : i \in Int
  <2>1. PICK n \in Nat : n = Len(rows) /\ P = 1..n
    BY <1>1, <1>2
  <2>2. \A k \in Nat : IsFiniteSet(1..k) /\ Cardinality(1..k) = k
    BY IntervalCounts
  <2>3. IsFiniteSet(1..n) /\ Cardinality(1..n) = n
    BY <2>2
  <2> QED
    BY <1>2, <2>1, <2>3
<1>4. ASSUME NEW i \in P, NEW j \in P
      PROVE  key[i] \in Int /\ (rows[i].number = rows[j].number <=> key[i] = key[j])
  <2>1. rows[i].number \in Nat /\ rows[j].number \in Nat
    BY <1>1, <1>2
  <2>2. CASE direction = 1
    BY <1>2, <2>1, <2>2
  <2>3. CASE direction = -1
    BY <1>2, <2>1, <2>3
  <2> QED
    BY <2>2, <2>3
<1>5. ASSUME NEW j \in P
      PROVE  b[j] = {i \in P : key[i] < key[j] \/ (key[i] = key[j] /\ i < j)}
  BY <1>2, <1>4 DEF Preceding
<1>6. \A i, j \in P : i # j => key[i] # key[j]
  BY <1>2, <1>4 DEF Differ
<1>7. Ranking(P, b)
  <2>1. b \in [P -> SUBSET P]
    BY <1>2 DEF Preceding
  <2>2. \A x \in P : x \notin b[x]
    BY <1>3, <1>4, <1>5
  <2>3. \A x, y \in P : x # y => x \in b[y] \/ y \in b[x]
    BY <1>4, <1>5, <1>6
  <2>4. ASSUME NEW x \in P, NEW y \in P, x \in b[y] PROVE b[x] \subseteq b[y]
    <3>1. key[x] < key[y] \/ (key[x] = key[y] /\ x < y)
      BY <1>5, <2>4
    <3>2. \A z \in P : (key[z] < key[x] \/ (key[z] = key[x] /\ z < x))
                         => (key[z] < key[y] \/ (key[z] = key[y] /\ z < y))
      BY <1>3, <1>4, <3>1
    <3> QED
      BY <1>5, <3>2
  <2> QED
    BY <2>1, <2>2, <2>3, <2>4 DEF Ranking
<1>8. PICK at : at = [k \in 1..size |-> CHOOSE j \in P : Cardinality(b[j]) = k - 1]
  OBVIOUS
<1>9. /\ size \in Nat /\ at \in [1..size -> P]
      /\ \A i \in P : \E k \in 1..size : at[k] = i
      /\ \A k, l \in 1..size : k < l => at[k] \in b[at[l]]
  <2>1. Placed(P, b, size, at)
    BY <1>2, <1>8 DEF Placed
  <2>2. IsFiniteSet(P)
    BY <1>3
  <2> QED
    BY <1>7, <2>1, <2>2, PlacesInOrder
<1>10. s = [k \in 1..size |-> rows[at[k]]]
  <2>1. \A j \in P : b[j] = Preceding(rows, direction, j)
    BY <1>2
  <2>2. ASSUME NEW k \in 1..size
        PROVE  (CHOOSE j \in P : Cardinality(b[j]) = k - 1)
                 = CHOOSE j \in DOMAIN rows : Cardinality(Preceding(rows, direction, j)) = k - 1
    BY <1>2, <2>1
  <2>3. \A k \in 1..size :
          at[k] = CHOOSE j \in DOMAIN rows : Cardinality(Preceding(rows, direction, j)) = k - 1
    BY <1>8, <2>2
  <2>4. s = [k \in 1..size |->
               rows[CHOOSE j \in DOMAIN rows : Cardinality(Preceding(rows, direction, j)) = k - 1]]
    BY <1>2, <1>3 DEF Sorted
  <2>5. DOMAIN s = 1..size
    BY <2>4
  <2>6. ASSUME NEW k \in 1..size PROVE s[k] = rows[at[k]]
    BY <2>3, <2>4
  <2> QED
    BY <2>4, <2>5, <2>6
<1>11. s \in [1..size -> PointRow]
  BY <1>1, <1>2, <1>9, <1>10
<1>12. s \in Seq(PointRow) /\ Len(s) = size /\ DOMAIN s = 1..size
  BY <1>9, <1>11
<1>13. ToSet(s) = ToSet(rows)
  <2>1. \A k \in 1..size : s[k] = rows[at[k]] /\ at[k] \in DOMAIN rows
    BY <1>2, <1>9, <1>10
  <2>2. \A i \in DOMAIN rows : \E k \in 1..size : at[k] = i
    BY <1>2, <1>9
  <2>3. \A i \in DOMAIN rows : \E k \in 1..size : s[k] = rows[i]
    BY <2>1, <2>2
  <2> QED
    <3>1. DOMAIN s = 1..size
      BY <1>12
    <3>2. \A k \in DOMAIN s : \E i \in DOMAIN rows : s[k] = rows[i]
      BY <3>1, <2>1
    <3>3. \A i \in DOMAIN rows : \E k \in DOMAIN s : rows[i] = s[k]
      BY <3>1, <2>3
    <3> QED
      BY <3>2, <3>3, SameSets
<1>14. ASSUME NEW k \in 1..size, NEW l \in 1..size, k < l
       PROVE  direction * s[k].number < direction * s[l].number
  <2>1. PICK x \in P, y \in P : x = at[k] /\ y = at[l] /\ x \in b[y]
    BY <1>9, <1>14
  <2>2. x # y /\ (key[x] < key[y] \/ key[x] = key[y])
    BY <1>3, <1>5, <1>7, <2>1 DEF Ranking
  <2>3. key[x] < key[y]
    BY <1>6, <2>1, <2>2
  <2>4. s[k] = rows[x] /\ s[l] = rows[y]
    BY <1>10, <2>1
  <2> QED
    BY <1>2, <2>1, <2>3, <2>4
<1> QED
  BY <1>3, <1>12, <1>13, <1>14

Flip(s) == [k \in 1..Len(s) |-> s[Len(s) + 1 - k]]

LEMMA FlipIs ==
  ASSUME NEW s \in Seq(PointRow)
  PROVE  /\ Flip(s) \in Seq(PointRow) /\ Len(Flip(s)) = Len(s) /\ DOMAIN Flip(s) = 1..Len(s)
         /\ ToSet(Flip(s)) = ToSet(s)
         /\ \A k \in 1..Len(s) : Flip(s)[k] = s[Len(s) + 1 - k]
<1>1. PICK n \in Nat : n = Len(s)
  OBVIOUS
<1>2. DOMAIN s = 1..n /\ \A k \in 1..n : s[k] \in PointRow /\ n + 1 - k \in 1..n
  BY <1>1
<1>3. PICK f : f = [k \in 1..n |-> s[n + 1 - k]]
  OBVIOUS
<1>4. f \in [1..n -> PointRow] /\ \A k \in 1..n : f[k] = s[n + 1 - k]
  BY <1>2, <1>3
<1>5. f \in Seq(PointRow) /\ Len(f) = n /\ DOMAIN f = 1..n
  BY <1>4
<1>6. \A k \in 1..n : f[n + 1 - k] = s[k]
  <2> SUFFICES ASSUME NEW k \in 1..n PROVE f[n + 1 - k] = s[k]
    OBVIOUS
  <2>1. n + 1 - k \in 1..n /\ n + 1 - (n + 1 - k) = k
    BY <1>2
  <2> QED
    BY <1>4, <2>1
<1>7. ToSet(f) = ToSet(s)
  <2>1. \A k \in 1..n : \E i \in 1..n : f[i] = s[k]
    BY <1>2, <1>6
  <2>2. \A k \in 1..n : \E i \in 1..n : s[i] = f[k]
    BY <1>2, <1>4
  <2> QED
    <3>1. \A k \in DOMAIN s : \E i \in DOMAIN f : s[k] = f[i]
      BY <1>2, <1>5, <2>1
    <3>2. \A k \in DOMAIN f : \E i \in DOMAIN s : f[k] = s[i]
      BY <1>2, <1>5, <2>2
    <3> QED
      BY <3>1, <3>2, SameSets
<1> QED
  BY <1>1, <1>3, <1>4, <1>5, <1>7 DEF Flip

(* Rows that are those of a rising sequence become it when they are sorted *)
(* by rising numbers, and its reverse when by falling ones.                *)
LEMMA AscendingIs ==
  ASSUME NEW rows \in Seq(PointRow), NEW up \in Seq(PointRow), Differ(rows), Rises(up),
         ToSet(rows) = ToSet(up)
  PROVE  Ascending(rows) = up
<1>1. PICK s : s = Sorted(rows, 1)
  OBVIOUS
<1>2. /\ s \in Seq(PointRow) /\ Len(s) = Len(rows) /\ ToSet(s) = ToSet(rows)
      /\ \A k, l \in 1..Len(rows) : k < l => 1 * s[k].number < 1 * s[l].number
  BY <1>1, SortedIs
<1>3. DOMAIN s = 1..Len(rows) /\ \A k \in DOMAIN s : s[k].number \in Nat
  BY <1>2, RowsAre
<1>4. Rises(s)
  BY <1>2, <1>3 DEF Rises
<1>5. s = up
  BY <1>2, <1>4, RisingIsOne
<1> QED
  BY <1>1, <1>5 DEF Ascending

LEMMA DescendingIs ==
  ASSUME NEW rows \in Seq(PointRow), NEW up \in Seq(PointRow), Differ(rows), Rises(up),
         ToSet(rows) = ToSet(up)
  PROVE  Descending(rows) = Flip(up)
<1>1. PICK s : s = Sorted(rows, -1)
  OBVIOUS
<1>2. /\ s \in Seq(PointRow) /\ Len(s) = Len(rows) /\ ToSet(s) = ToSet(rows)
      /\ \A k, l \in 1..Len(rows) : k < l => (-1) * s[k].number < (-1) * s[l].number
  BY <1>1, SortedIs
<1>3. /\ DOMAIN s = 1..Len(rows) /\ Len(rows) \in Nat /\ \A k \in DOMAIN s : s[k].number \in Nat
  BY <1>2, RowsAre
<1>4. PICK f : f = Flip(s)
  OBVIOUS
<1>5. /\ f \in Seq(PointRow) /\ Len(f) = Len(rows) /\ DOMAIN f = 1..Len(rows)
      /\ ToSet(f) = ToSet(up)
      /\ \A k \in 1..Len(rows) : f[k] = s[Len(rows) + 1 - k]
  BY <1>2, <1>4, FlipIs
<1>6. Rises(f)
  <2> SUFFICES ASSUME NEW k \in 1..Len(rows), NEW l \in 1..Len(rows), k < l
               PROVE  f[k].number < f[l].number
    BY <1>5 DEF Rises
  <2>0. /\ Len(rows) + 1 - k \in 1..Len(rows) /\ Len(rows) + 1 - l \in 1..Len(rows)
        /\ Len(rows) + 1 - l < Len(rows) + 1 - k
    BY <1>3
  <2>1. PICK i \in 1..Len(rows), j \in 1..Len(rows) :
          i = Len(rows) + 1 - k /\ j = Len(rows) + 1 - l /\ j < i
    BY <2>0
  <2>2. (-1) * s[j].number < (-1) * s[i].number /\ s[j].number \in Nat /\ s[i].number \in Nat
    BY <1>2, <1>3, <2>1
  <2>3. f[k] = s[i] /\ f[l] = s[j]
    BY <1>5, <2>1
  <2> QED
    BY <2>2, <2>3
<1>7. f = up
  BY <1>5, <1>6, RisingIsOne
<1>8. s = Flip(up)
  <2>1. /\ Flip(f) \in Seq(PointRow) /\ Len(Flip(f)) = Len(rows) /\ DOMAIN Flip(f) = 1..Len(rows)
        /\ \A k \in 1..Len(rows) : Flip(f)[k] = f[Len(rows) + 1 - k]
    BY <1>5, FlipIs
  <2>2. ASSUME NEW k \in 1..Len(rows) PROVE Flip(f)[k] = s[k]
    <3>0. Len(rows) + 1 - k \in 1..Len(rows) /\ Len(rows) + 1 - (Len(rows) + 1 - k) = k
      BY <1>3
    <3>1. PICK i \in 1..Len(rows) : i = Len(rows) + 1 - k /\ Len(rows) + 1 - i = k
      BY <3>0
    <3> QED
      BY <1>5, <2>1, <3>1
  <2> QED
    BY <1>2, <1>7, <2>1, <2>2
<1> QED
  BY <1>1, <1>8 DEF Descending

MadeRises(s) == \A k, l \in DOMAIN s : k < l => s[k].made < s[l].made

KeptSize(rows) == IF Len(rows) < KeptPoints THEN Len(rows) ELSE KeptPoints
Newest(rows) == [k \in 1..KeptSize(rows) |-> rows[Len(rows) - KeptSize(rows) + k]]

LEMMA RisingDiffers ==
  ASSUME NEW s \in Seq(PointRow), Rises(s)
  PROVE  Differ(s)
<1>1. DOMAIN s = 1..Len(s) /\ Len(s) \in Nat /\ \A i \in DOMAIN s : s[i].number \in Nat
  BY RowsAre
<1> SUFFICES ASSUME NEW k \in DOMAIN s, NEW l \in DOMAIN s, k # l PROVE s[k].number # s[l].number
  BY DEF Differ
<1>2. k < l \/ l < k
  BY <1>1
<1> QED
  BY <1>1, <1>2 DEF Rises

LEMMA SizeOfKept ==
  ASSUME NEW s \in Seq(PointRow)
  PROVE  KeptSize(s) \in 0..Len(s) /\ KeptSize(s) \in Nat
BY StoreAssumption DEF KeptSize

LEMMA NewestAre ==
  ASSUME NEW up \in Seq(PointRow), Rises(up), MadeRises(up)
  PROVE  /\ Newest(up) \in Seq(PointRow) /\ Len(Newest(up)) = KeptSize(up)
         /\ DOMAIN Newest(up) = 1..KeptSize(up)
         /\ Rises(Newest(up)) /\ MadeRises(Newest(up))
         /\ \A p \in ToSet(Newest(up)) : p \in ToSet(up)
<1>0. PICK s : s = Newest(up)
  OBVIOUS
<1>1. PICK m \in Nat, n \in Nat :
        m = Len(up) /\ n = KeptSize(up) /\ s = Newest(up) /\ n <= m
  BY <1>0, SizeOfKept
<1>2. DOMAIN up = 1..m /\ \A i \in 1..m : up[i] \in PointRow
  BY <1>1
<1>3. s = [k \in 1..n |-> up[m - n + k]]
  BY <1>1 DEF Newest
<1>4. \A k \in 1..n : m - n + k \in 1..m /\ s[k] = up[m - n + k]
  BY <1>1, <1>3
<1>5. s \in [1..n -> PointRow]
  BY <1>2, <1>3, <1>4
<1>6. s \in Seq(PointRow) /\ Len(s) = n /\ DOMAIN s = 1..n
  BY <1>1, <1>5
<1>7. ASSUME NEW k \in 1..n, NEW l \in 1..n, k < l
      PROVE  s[k].number < s[l].number /\ s[k].made < s[l].made
  <2>1. m - n + k \in 1..m /\ m - n + l \in 1..m /\ m - n + k < m - n + l
    BY <1>4, <1>7
  <2>2. up[m - n + k].number < up[m - n + l].number /\ up[m - n + k].made < up[m - n + l].made
    BY <1>2, <2>1 DEF Rises, MadeRises
  <2> QED
    BY <1>4, <2>2
<1>8. Rises(s) /\ MadeRises(s)
  BY <1>6, <1>7 DEF Rises, MadeRises
<1>9. \A p \in ToSet(s) : p \in ToSet(up)
  BY <1>2, <1>4, <1>6 DEF ToSet
<1> QED
  BY <1>1, <1>6, <1>8, <1>9

LEMMA RowsAreCounted ==
  ASSUME NEW s \in Seq(PointRow), Differ(s)
  PROVE  IsFiniteSet(ToSet(s)) /\ Cardinality(ToSet(s)) = Len(s)
<1>1. PICK n \in Nat : n = Len(s) /\ DOMAIN s = 1..n
  BY RowsAre
<1>2. PICK S : S = ToSet(s)
  OBVIOUS
<1>3. S = {s[i] : i \in 1..n}
  BY <1>1, <1>2 DEF ToSet
<1>4. s \in [1..n -> S]
  BY <1>1, <1>3
<1>5. s \in Surjection(1..n, S)
  BY <1>3, <1>4 DEF Surjection
<1>6. \A k, l \in 1..n : s[k] = s[l] => k = l
  BY <1>1 DEF Differ
<1>7. s \in Injection(1..n, S)
  BY <1>4, <1>6 DEF Injection, IsInjective
<1>8. ExistsBijection(1..n, S)
  BY <1>5, <1>7 DEF ExistsBijection, Bijection
<1>9. \A k \in Nat : IsFiniteSet(1..k) /\ Cardinality(1..k) = k
  BY IntervalCounts
<1>10. IsFiniteSet(1..n) /\ Cardinality(1..n) = n
  BY <1>9
<1> QED
  BY <1>1, <1>2, <1>8, <1>10, FS_Bijection

(* Two sets of rows that leave out none with a larger number, of the same  *)
(* size, are one.                                                          *)
OnTop(A, S) == A \subseteq S /\ \A p \in A, o \in S \ A : p.number >= o.number

LEMMA TopsAreOne ==
  ASSUME NEW S \in SUBSET PointRow, \A p, o \in S : p.number = o.number => p = o,
         NEW A, NEW B, OnTop(A, S), OnTop(B, S), IsFiniteSet(A), IsFiniteSet(B),
         Cardinality(A) = Cardinality(B)
  PROVE  A = B
<1>1. A \subseteq B \/ B \subseteq A
  <2> SUFFICES ASSUME NEW x \in A \ B, NEW y \in B \ A PROVE FALSE
    OBVIOUS
  <2>1. x \in S /\ y \in S /\ x.number >= y.number /\ y.number >= x.number
    BY DEF OnTop
  <2>2. x.number \in Nat /\ y.number \in Nat
    BY <2>1 DEF PointRow
  <2> QED
    BY <2>1, <2>2
<1>2. CASE A \subseteq B
  BY <1>2, FS_Subset
<1>3. CASE B \subseteq A
  BY <1>3, FS_Subset
<1> QED
  BY <1>1, <1>2, <1>3

LEMMA NewestIsOnTop ==
  ASSUME NEW up \in Seq(PointRow), Rises(up), MadeRises(up)
  PROVE  OnTop(ToSet(Newest(up)), ToSet(up))
<1>0. PICK s : s = Newest(up)
  OBVIOUS
<1>1. PICK m \in Nat, n \in Nat :
        m = Len(up) /\ n = KeptSize(up) /\ s = Newest(up) /\ n <= m
  BY <1>0, SizeOfKept
<1>2. DOMAIN s = 1..n /\ \A p \in ToSet(s) : p \in ToSet(up)
  BY <1>1, NewestAre
<1>3. DOMAIN up = 1..m /\ \A i \in 1..m : up[i].number \in Nat
  BY <1>1, RowsAre
<1>4. \A k \in 1..n : m - n + k \in 1..m /\ s[k] = up[m - n + k]
  BY <1>1 DEF Newest
<1>5. ASSUME NEW p \in ToSet(s), NEW o \in ToSet(up) \ ToSet(s)
      PROVE  p.number >= o.number
  <2>1. PICK k \in 1..n : p = s[k]
    BY <1>2 DEF ToSet
  <2>2. PICK i \in 1..m : o = up[i]
    BY <1>3 DEF ToSet
  <2>3. ~(m - n < i)
    <3> SUFFICES ASSUME m - n < i PROVE FALSE
      OBVIOUS
    <3>1. i - (m - n) \in 1..n /\ m - n + (i - (m - n)) = i
      OBVIOUS
    <3>2. s[i - (m - n)] = o
      BY <1>4, <2>2, <3>1
    <3> QED
      BY <1>2, <3>1, <3>2 DEF ToSet
  <2>4. i < m - n + k /\ m - n + k \in 1..m
    BY <1>1, <1>4, <2>3
  <2>5. up[i].number < up[m - n + k].number
    BY <1>3, <2>4 DEF Rises
  <2> QED
    BY <1>3, <1>4, <2>1, <2>2, <2>4, <2>5
<1> QED
  BY <1>1, <1>2, <1>5 DEF OnTop

(* What the database leaves of rows that rise.                             *)
LEMMA KeptRowsAre ==
  ASSUME NEW up \in Seq(PointRow), Rises(up), MadeRises(up), NEW kept \in KeptRows(up)
  PROVE  kept = Newest(up)
<1>1. PICK m \in Nat, n \in Nat : m = Len(up) /\ n = KeptSize(up) /\ n <= m
  BY SizeOfKept
<1>2. /\ kept \in [1..n -> ToSet(up)]
      /\ \A k, l \in DOMAIN kept : k < l => kept[k].made < kept[l].made
      /\ \A p \in ToSet(kept), o \in ToSet(up) \ ToSet(kept) : p.number >= o.number
  BY <1>1 DEF KeptRows, KeptSize
<1>3. /\ DOMAIN up = 1..m
      /\ \A i \in DOMAIN up : up[i] \in PointRow /\ up[i].number \in Nat /\ up[i].made \in Nat
  BY <1>1, RowsAre
<1>4. ToSet(up) \in SUBSET PointRow
  BY <1>3 DEF ToSet
<1>5. kept \in Seq(PointRow) /\ Len(kept) = n /\ DOMAIN kept = 1..n
  <2>1. kept \in [1..n -> PointRow]
    BY <1>2, <1>4
  <2> QED
    BY <1>1, <2>1
<1>6. Rises(kept)
  <2> SUFFICES ASSUME NEW k \in 1..n, NEW l \in 1..n, k < l PROVE kept[k].number < kept[l].number
    BY <1>5 DEF Rises
  <2>1. kept[k] \in ToSet(up) /\ kept[l] \in ToSet(up)
    BY <1>2
  <2>2. PICK i \in 1..m, j \in 1..m : kept[k] = up[i] /\ kept[l] = up[j]
    BY <1>3, <2>1 DEF ToSet
  <2>3. up[i].made < up[j].made
    BY <1>2, <1>5, <2>2
  <2>4. i < j
    <3>1. i # j
      BY <1>3, <2>3
    <3>2. ASSUME j < i PROVE FALSE
      <4>1. up[j].made < up[i].made
        BY <1>3, <3>2 DEF MadeRises
      <4>2. up[i].made \in Nat /\ up[j].made \in Nat
        BY <1>3
      <4> QED
        BY <2>3, <4>1, <4>2
    <3> QED
      BY <3>1, <3>2
  <2> QED
    BY <1>3, <2>2, <2>4 DEF Rises
<1>7. /\ Newest(up) \in Seq(PointRow) /\ Len(Newest(up)) = n /\ Rises(Newest(up))
      /\ OnTop(ToSet(Newest(up)), ToSet(up))
  BY <1>1, NewestAre, NewestIsOnTop
<1>8. OnTop(ToSet(kept), ToSet(up))
  <2>1. \A p \in ToSet(kept) : p \in ToSet(up)
    BY <1>2, <1>5 DEF ToSet
  <2> QED
    BY <1>2, <2>1 DEF OnTop
<1>9. \A p, o \in ToSet(up) : p.number = o.number => p = o
  <2> SUFFICES ASSUME NEW p \in ToSet(up), NEW o \in ToSet(up), p.number = o.number PROVE p = o
    OBVIOUS
  <2>1. PICK i \in 1..m, j \in 1..m : p = up[i] /\ o = up[j]
    BY <1>3 DEF ToSet
  <2>2. Differ(up)
    BY RisingDiffers
  <2> QED
    BY <1>3, <2>1, <2>2 DEF Differ
<1>10. /\ IsFiniteSet(ToSet(kept)) /\ Cardinality(ToSet(kept)) = n
       /\ IsFiniteSet(ToSet(Newest(up))) /\ Cardinality(ToSet(Newest(up))) = n
  <2>1. Differ(kept) /\ Differ(Newest(up))
    BY <1>5, <1>6, <1>7, RisingDiffers
  <2> QED
    BY <1>5, <1>7, <2>1, RowsAreCounted
<1>11. ToSet(kept) = ToSet(Newest(up))
  BY <1>4, <1>7, <1>8, <1>9, <1>10, TopsAreOne
<1> QED
  BY <1>5, <1>6, <1>7, <1>11, RisingIsOne

(* What memory leaves of the same rows, in whichever order they are there. *)
LEMMA KeptInMemoryIs ==
  ASSUME NEW rows \in Seq(PointRow), NEW up \in Seq(PointRow), Differ(rows),
         Rises(up), MadeRises(up), ToSet(rows) = ToSet(up)
  PROVE  KeptInMemory(rows) = Newest(up)
<1>1. PICK m \in Nat, n \in Nat : m = Len(up) /\ n = KeptSize(up) /\ n <= m
  BY SizeOfKept
<1>2. PICK f : f = Flip(up)
  OBVIOUS
<1>3. f = Descending(rows)
  BY <1>2, DescendingIs
<1>4. /\ f \in Seq(PointRow) /\ Len(f) = m /\ DOMAIN f = 1..m
      /\ \A k \in 1..m : f[k] = up[m + 1 - k]
  BY <1>1, <1>2, FlipIs
<1>5. PICK c : c = Cut(f, KeptPoints)
  OBVIOUS
<1>6. c \in Seq(PointRow) /\ Len(c) = n /\ DOMAIN c = 1..n /\ \A k \in 1..n : c[k] = f[k]
  <2>1. KeptPoints \in Nat \ {0}
    BY StoreAssumption
  <2>2. CASE m <= KeptPoints
    <3>1. n = m /\ c = f
      BY <1>1, <1>4, <1>5, <2>1, <2>2 DEF KeptSize, Cut
    <3> QED
      BY <1>4, <3>1
  <2>3. CASE ~(m <= KeptPoints)
    <3>1. n = KeptPoints /\ c = SubSeq(f, 1, n)
      BY <1>1, <1>4, <1>5, <2>1, <2>3 DEF KeptSize, Cut
    <3> QED
      BY <1>1, <1>4, <3>1, SubSeqProperties
  <2> QED
    BY <2>2, <2>3
<1>7. PICK s : s = Newest(up)
  OBVIOUS
<1>8. /\ s \in Seq(PointRow) /\ Len(s) = n /\ DOMAIN s = 1..n /\ Rises(s)
      /\ \A k \in 1..n : s[k] = up[m - n + k]
  <2>1. \A k \in 1..n : s[k] = up[m - n + k]
    BY <1>1, <1>7 DEF Newest
  <2> QED
    BY <1>1, <1>7, <2>1, NewestAre
<1>9. \A k \in 1..n : n + 1 - k \in 1..n /\ c[k] = s[n + 1 - k] /\ s[k] = c[n + 1 - k]
  <2> SUFFICES ASSUME NEW k \in 1..n
               PROVE  n + 1 - k \in 1..n /\ c[k] = s[n + 1 - k] /\ s[k] = c[n + 1 - k]
    OBVIOUS
  <2>1. /\ n + 1 - k \in 1..n /\ k \in 1..m /\ n + 1 - k \in 1..m
        /\ m + 1 - k = m - n + (n + 1 - k) /\ m + 1 - (n + 1 - k) = m - n + k
    BY <1>1
  <2>2. c[k] = up[m + 1 - k] /\ c[n + 1 - k] = up[m + 1 - (n + 1 - k)]
    BY <1>4, <1>6, <2>1
  <2>3. s[k] = up[m - n + k] /\ s[n + 1 - k] = up[m - n + (n + 1 - k)]
    BY <1>8, <2>1
  <2> QED
    BY <2>1, <2>2, <2>3
<1>10. ToSet(c) = ToSet(s)
  <2>1. \A k \in DOMAIN c : \E j \in DOMAIN s : c[k] = s[j]
    BY <1>6, <1>8, <1>9
  <2>2. \A k \in DOMAIN s : \E j \in DOMAIN c : s[k] = c[j]
    BY <1>6, <1>8, <1>9
  <2> QED
    BY <2>1, <2>2, SameSets
<1>11. Differ(c)
  <2>1. Differ(s)
    BY <1>8, RisingDiffers
  <2> SUFFICES ASSUME NEW k \in 1..n, NEW l \in 1..n, k # l PROVE c[k].number # c[l].number
    BY <1>6 DEF Differ
  <2>2. n + 1 - k \in 1..n /\ n + 1 - l \in 1..n /\ n + 1 - k # n + 1 - l
    OBVIOUS
  <2>3. s[n + 1 - k].number # s[n + 1 - l].number
    BY <1>8, <2>1, <2>2 DEF Differ
  <2> QED
    BY <1>9, <2>3
<1>12. Ascending(c) = s
  BY <1>6, <1>8, <1>10, <1>11, AscendingIs
<1> QED
  BY <1>3, <1>5, <1>7, <1>12 DEF KeptInMemory

(* What both are given is there, in one order or the other.                *)
InOneOrder(rows, up) == rows = up \/ rows = Flip(up)

LEMMA OneOrder ==
  ASSUME NEW up \in Seq(PointRow), Rises(up), NEW rows, InOneOrder(rows, up)
  PROVE  rows \in Seq(PointRow) /\ Differ(rows) /\ ToSet(rows) = ToSet(up) /\ Len(rows) = Len(up)
<1>1. Differ(up)
  BY RisingDiffers
<1>2. PICK n \in Nat : n = Len(up) /\ DOMAIN up = 1..n
  BY RowsAre
<1>3. PICK f : f = Flip(up)
  OBVIOUS
<1>4. /\ f \in Seq(PointRow) /\ Len(f) = n /\ DOMAIN f = 1..n /\ ToSet(f) = ToSet(up)
      /\ \A k \in 1..n : f[k] = up[n + 1 - k]
  BY <1>2, <1>3, FlipIs
<1>5. Differ(f)
  <2> SUFFICES ASSUME NEW k \in 1..n, NEW l \in 1..n, k # l PROVE f[k].number # f[l].number
    BY <1>4 DEF Differ
  <2>1. n + 1 - k \in 1..n /\ n + 1 - l \in 1..n /\ n + 1 - k # n + 1 - l
    BY <1>2
  <2>2. up[n + 1 - k].number # up[n + 1 - l].number
    BY <1>1, <1>2, <2>1 DEF Differ
  <2> QED
    BY <1>4, <2>2
<1> QED
  BY <1>1, <1>2, <1>3, <1>4, <1>5 DEF InOneOrder

LEMMA PointComesIn ==
  ASSUME NEW up \in Seq(PointRow), Rises(up), MadeRises(up), NEW point \in PointRow,
         Rising(up, point.number), \A p \in ToSet(up) : p.made < point.made,
         NEW rows, InOneOrder(rows, up)
  PROVE  /\ Append(up, point) \in Seq(PointRow) /\ Rises(Append(up, point))
         /\ MadeRises(Append(up, point))
         /\ Append(rows, point) \in Seq(PointRow) /\ Differ(Append(rows, point))
         /\ ToSet(Append(rows, point)) = ToSet(Append(up, point))
<1>1. PICK n \in Nat : n = Len(up) /\ DOMAIN up = 1..n
  BY RowsAre
<1>2. \A i \in 1..n : up[i].number \in Nat /\ up[i].made \in Nat /\ up[i] \in ToSet(up)
  BY <1>1, RowsAre DEF ToSet
<1>3. point.number \in Nat /\ point.made \in Nat
  BY DEF PointRow
<1>4. PICK a : a = Append(up, point)
  OBVIOUS
<1>5. /\ a \in Seq(PointRow) /\ Len(a) = n + 1 /\ DOMAIN a = 1..(n + 1)
      /\ \A i \in 1..n : a[i] = up[i]
      /\ a[n + 1] = point
  BY <1>1, <1>4
<1>6. \A i \in 1..n : up[i].number < point.number /\ up[i].made < point.made
  <2> SUFFICES ASSUME NEW i \in 1..n PROVE up[i].number < point.number
    BY <1>2
  <2>1. up # <<>> /\ Last(up) = up[n] /\ n \in 1..n
    BY <1>1 DEF Last
  <2>2. up[n].number < point.number
    BY <2>1 DEF Rising
  <2>3. i = n \/ i < n
    BY <1>1
  <2>4. i = n \/ up[i].number < up[n].number
    BY <1>1, <2>1, <2>3 DEF Rises
  <2> QED
    BY <1>2, <1>3, <2>1, <2>2, <2>4
<1>7. ASSUME NEW k \in 1..(n + 1), NEW l \in 1..(n + 1), k < l
      PROVE  a[k].number < a[l].number /\ a[k].made < a[l].made
  <2>1. k \in 1..n /\ (l \in 1..n \/ l = n + 1)
    BY <1>1, <1>7
  <2>2. CASE l \in 1..n
    BY <1>1, <1>5, <1>7, <2>1, <2>2 DEF Rises, MadeRises
  <2>3. CASE l = n + 1
    BY <1>5, <1>6, <2>1, <2>3
  <2> QED
    BY <2>1, <2>2, <2>3
<1>8. Rises(a) /\ MadeRises(a)
  BY <1>5, <1>7 DEF Rises, MadeRises
<1>9. rows \in Seq(PointRow) /\ Differ(rows) /\ ToSet(rows) = ToSet(up) /\ Len(rows) = n
  BY <1>1, OneOrder
<1>10. PICK r : r = Append(rows, point)
  OBVIOUS
<1>11. /\ r \in Seq(PointRow) /\ Len(r) = n + 1 /\ DOMAIN r = 1..(n + 1) /\ DOMAIN rows = 1..n
       /\ \A i \in 1..n : r[i] = rows[i]
       /\ r[n + 1] = point
  BY <1>9, <1>10
<1>12. \A i \in 1..n : \E j \in 1..n : rows[i] = up[j]
  BY <1>1, <1>9, <1>11 DEF ToSet
<1>13. \A i \in 1..n : \E j \in 1..n : up[i] = rows[j]
  BY <1>1, <1>9, <1>11 DEF ToSet
<1>14. ToSet(r) = ToSet(a)
  <2>1. \A k \in DOMAIN r : \E j \in DOMAIN a : r[k] = a[j]
    <3> SUFFICES ASSUME NEW k \in 1..(n + 1) PROVE \E j \in 1..(n + 1) : r[k] = a[j]
      BY <1>5, <1>11
    <3>1. CASE k \in 1..n
      <4>1. PICK j \in 1..n : rows[k] = up[j]
        BY <1>12, <3>1
      <4> QED
        BY <1>5, <1>11, <3>1, <4>1
    <3>2. CASE k = n + 1
      BY <1>5, <1>11, <3>2
    <3> QED
      BY <3>1, <3>2
  <2>2. \A k \in DOMAIN a : \E j \in DOMAIN r : a[k] = r[j]
    <3> SUFFICES ASSUME NEW k \in 1..(n + 1) PROVE \E j \in 1..(n + 1) : a[k] = r[j]
      BY <1>5, <1>11
    <3>1. CASE k \in 1..n
      <4>1. PICK j \in 1..n : up[k] = rows[j]
        BY <1>13, <3>1
      <4> QED
        BY <1>5, <1>11, <3>1, <4>1
    <3>2. CASE k = n + 1
      BY <1>5, <1>11, <3>2
    <3> QED
      BY <3>1, <3>2
  <2> QED
    BY <2>1, <2>2, SameSets
<1>15. Differ(r)
  <2> SUFFICES ASSUME NEW k \in 1..(n + 1), NEW l \in 1..(n + 1), k # l
               PROVE  r[k].number # r[l].number
    BY <1>11 DEF Differ
  <2>1. ASSUME NEW i \in 1..n PROVE r[i].number # r[n + 1].number
    <3>1. PICK j \in 1..n : rows[i] = up[j]
      BY <1>12
    <3>2. r[i].number < point.number
      BY <1>6, <1>11, <3>1
    <3>3. r[i].number \in Nat
      BY <1>2, <1>11, <3>1
    <3> QED
      BY <1>3, <1>11, <3>2, <3>3
  <2>2. CASE k \in 1..n /\ l \in 1..n
    BY <1>9, <1>11, <2>2 DEF Differ
  <2>3. CASE k \in 1..n /\ l = n + 1
    BY <2>1, <2>3
  <2>4. CASE k = n + 1 /\ l \in 1..n
    BY <2>1, <2>4
  <2> QED
    BY <1>1, <2>2, <2>3, <2>4
<1> QED
  BY <1>4, <1>5, <1>8, <1>10, <1>11, <1>14, <1>15

RoundRow == [id : Nat, number : Nat, ended : BOOLEAN]

Tables == {"messages", "rounds", "points"}

Together ==
  /\ loaded.rounds = database.rounds
  /\ Rises(database.points) /\ InOneOrder(loaded.points, database.points)

EntriesTyped ==
  /\ DOMAIN database = Tables /\ DOMAIN loaded = Tables /\ DOMAIN opened = {"open", "count"}
  /\ database.rounds \in Seq(RoundRow) /\ database.points \in Seq(PointRow)
  /\ MadeRises(database.points) /\ pointsMade \in Nat
  /\ \A p \in ToSet(database.points) : p.made <= pointsMade

EntriesInv ==
  EntriesTyped /\ (opened.open /\ apart \subseteq {"crash"} => Together)

LEMMA KeptRowsTyped ==
  ASSUME NEW rows \in Seq(PointRow), NEW kept \in KeptRows(rows)
  PROVE  /\ kept \in Seq(PointRow) /\ MadeRises(kept)
         /\ \A p \in ToSet(kept) : p \in ToSet(rows)
<1>1. KeptSize(rows) \in Nat
  BY SizeOfKept
<1>2. PICK n \in Nat : n = KeptSize(rows)
  BY <1>1
<1>3. /\ kept \in [1..n -> ToSet(rows)]
      /\ \A k, l \in DOMAIN kept : k < l => kept[k].made < kept[l].made
  BY <1>2 DEF KeptRows, KeptSize
<1>4. \A p \in ToSet(rows) : p \in PointRow
  BY DEF ToSet
<1>5. kept \in [1..n -> PointRow]
  BY <1>3, <1>4
<1>6. kept \in Seq(PointRow)
  BY <1>5
<1>7. \A p \in ToSet(kept) : p \in ToSet(rows)
  BY <1>3 DEF ToSet
<1> QED
  BY <1>3, <1>6, <1>7 DEF MadeRises

(* Neither rounds nor checkpoints are changed.                             *)
LEMMA EntriesStay ==
  ASSUME EntriesInv, DOMAIN database' = Tables, DOMAIN loaded' = Tables,
         DOMAIN opened' = {"open", "count"},
         database'.rounds = database.rounds, database'.points = database.points,
         pointsMade' = pointsMade, apart \subseteq apart',
         opened'.open => /\ opened.open /\ loaded'.rounds = loaded.rounds
                         /\ loaded'.points = loaded.points
  PROVE  EntriesInv'
<1>1. EntriesTyped'
  BY DEF EntriesInv, EntriesTyped
<1>2. ASSUME opened'.open, apart' \subseteq {"crash"} PROVE Together'
  <2>1. Together
    BY <1>2 DEF EntriesInv
  <2> QED
    BY <1>2, <2>1 DEF Together
<1> QED
  BY <1>1, <1>2 DEF EntriesInv

LEMMA OpenSessionKeeps ==
  ASSUME EntriesInv, OpenSession
  PROVE  EntriesInv'
<1>1. /\ opened' = [open |-> TRUE, count |-> opened.count + 1]
      /\ UNCHANGED <<database, pointsMade>> /\ loaded' = LoadFallback
      /\ apart' = apart \cup (IF database.rounds \o database.points = <<>> THEN {} ELSE {"restart"})
  BY DEF OpenSession
<1>2. DOMAIN loaded' = Tables /\ loaded'.rounds = <<>> /\ loaded'.points = <<>>
  BY <1>1 DEF LoadFallback, EmptySession, Tables
<1>3. EntriesTyped'
  BY <1>1, <1>2 DEF EntriesInv, EntriesTyped
<1>4. ASSUME apart' \subseteq {"crash"} PROVE Together'
  <2>1. database.rounds \o database.points = <<>>
    <3> SUFFICES ASSUME database.rounds \o database.points # <<>> PROVE FALSE
      OBVIOUS
    <3>1. "restart" \in apart'
      BY <1>1
    <3> QED
      BY <1>4, <3>1
  <2>2. PICK a \in Seq(RoundRow), b \in Seq(PointRow) :
          a = database.rounds /\ b = database.points
    BY DEF EntriesInv, EntriesTyped
  <2>3. a = <<>> /\ b = <<>>
    <3>1. Len(a \o b) = Len(a) + Len(b)
      OBVIOUS
    <3>0. a \o b = <<>>
      BY <2>1, <2>2
    <3>2. Len(a) = 0 /\ Len(b) = 0
      <4>1. Len(<<>>) = 0 /\ Len(a) \in Nat /\ Len(b) \in Nat
        OBVIOUS
      <4> QED
        BY <3>0, <3>1, <4>1
    <3> QED
      BY <3>2
  <2>4. Rises(<<>>)
    BY DEF Rises
  <2> QED
    BY <1>1, <1>2, <2>2, <2>3, <2>4 DEF Together, InOneOrder
<1> QED
  BY <1>3, <1>4 DEF EntriesInv

LEMMA RoundsKeep ==
  ASSUME EntriesInv,
         \/ \E n \in RoundNumbers : StartRound(n)
         \/ CompleteRound
  PROVE  EntriesInv'
<1>1. PICK a, b : /\ database' = [database EXCEPT !.rounds = a]
                  /\ loaded' = [loaded EXCEPT !.rounds = b]
                  /\ a \in Seq(RoundRow)
                  /\ loaded.rounds = database.rounds => a = b
  <2>0. PICK rounds \in Seq(RoundRow) : rounds = database.rounds
    BY DEF EntriesInv, EntriesTyped
  <2>1. ASSUME NEW n \in RoundNumbers, StartRound(n)
        PROVE  \E a, b : /\ database' = [database EXCEPT !.rounds = a]
                         /\ loaded' = [loaded EXCEPT !.rounds = b]
                         /\ a \in Seq(RoundRow)
                         /\ loaded.rounds = database.rounds => a = b
    <3>1. PICK a, b : /\ a = Append(database.rounds,
                              [id |-> Len(database.rounds) + 1, number |-> n, ended |-> FALSE])
                      /\ b = Append(loaded.rounds,
                              [id |-> Len(loaded.rounds) + 1, number |-> n, ended |-> FALSE])
      OBVIOUS
    <3>2. database' = [database EXCEPT !.rounds = a] /\ loaded' = [loaded EXCEPT !.rounds = b]
      BY <2>1, <3>1 DEF StartRound
    <3>3. [id |-> Len(rounds) + 1, number |-> n, ended |-> FALSE] \in RoundRow
      <4>1. n \in Nat /\ Len(rounds) + 1 \in Nat
        BY StoreAssumption
      <4> QED
        BY <4>1 DEF RoundRow
    <3>4. a \in Seq(RoundRow)
      BY <2>0, <3>1, <3>3
    <3> QED
      BY <3>1, <3>2, <3>4
  <2>2. ASSUME CompleteRound
        PROVE  \E a, b : /\ database' = [database EXCEPT !.rounds = a]
                         /\ loaded' = [loaded EXCEPT !.rounds = b]
                         /\ a \in Seq(RoundRow)
                         /\ loaded.rounds = database.rounds => a = b
    <3>1. PICK a, b : a = Ended(database.rounds) /\ b = Ended(loaded.rounds)
      OBVIOUS
    <3>2. database' = [database EXCEPT !.rounds = a] /\ loaded' = [loaded EXCEPT !.rounds = b]
      BY <2>2, <3>1 DEF CompleteRound
    <3>3. PICK m \in Nat : m = Len(rounds) /\ rounds \in [1..m -> RoundRow]
      OBVIOUS
    <3>4. \A r \in RoundRow : [r EXCEPT !.ended = TRUE] \in RoundRow
      BY DEF RoundRow
    <3>5. a = [rounds EXCEPT ![m] = [rounds[m] EXCEPT !.ended = TRUE]]
      BY <2>0, <3>1, <3>3 DEF Ended
    <3>6. a \in [1..m -> RoundRow]
      <4>1. m \in 1..m => rounds[m] \in RoundRow
        BY <3>3
      <4> QED
        BY <3>3, <3>4, <3>5, <4>1
    <3>7. a \in Seq(RoundRow)
      BY <3>3, <3>6
    <3> QED
      BY <3>1, <3>2, <3>7
  <2> QED
    BY <2>1, <2>2
<1>2. /\ DOMAIN database' = Tables /\ DOMAIN loaded' = Tables
      /\ database'.rounds = a /\ database'.points = database.points
      /\ loaded'.rounds = b /\ loaded'.points = loaded.points
  BY <1>1 DEF EntriesInv, EntriesTyped, Tables
<1>3. UNCHANGED <<opened, pointsMade>> /\ apart \subseteq apart'
  BY DEF StartRound, CompleteRound, Noted
<1>4. EntriesTyped'
  BY <1>1, <1>2, <1>3 DEF EntriesInv, EntriesTyped
<1>5. ASSUME opened'.open, apart' \subseteq {"crash"} PROVE Together'
  <2>1. Together
    BY <1>3, <1>5 DEF EntriesInv
  <2> QED
    BY <1>1, <1>2, <2>1 DEF Together
<1> QED
  BY <1>4, <1>5 DEF EntriesInv

LEMMA SavePointKeeps ==
  ASSUME EntriesInv, NEW n \in RoundNumbers, SavePoint(n)
  PROVE  EntriesInv'
<1>1. PICK point, up, rows : /\ point = [made |-> pointsMade + 1, number |-> n]
                             /\ up = database.points /\ rows = loaded.points
  OBVIOUS
<1>2. PICK kept \in KeptRows(Append(up, point)) :
        /\ database' = [database EXCEPT !.points = kept]
        /\ loaded' = [loaded EXCEPT !.points = KeptInMemory(Append(rows, point))]
  BY <1>1 DEF SavePoint
<1>3. /\ UNCHANGED opened /\ pointsMade' = pointsMade + 1
      /\ apart' = apart \cup (IF Rising(up, n) THEN {} ELSE {"order"})
  BY <1>1 DEF SavePoint, Noted
<1>4. /\ up \in Seq(PointRow) /\ MadeRises(up) /\ pointsMade \in Nat
      /\ \A p \in ToSet(up) : p.made <= pointsMade
  BY <1>1 DEF EntriesInv, EntriesTyped
<1>5. point \in PointRow /\ point.number = n /\ point.made = pointsMade + 1
  <2>1. n \in Nat /\ pointsMade + 1 \in Nat
    BY <1>4, StoreAssumption
  <2> QED
    BY <1>1, <2>1 DEF PointRow
<1>6. /\ DOMAIN database' = Tables /\ DOMAIN loaded' = Tables
      /\ database'.rounds = database.rounds /\ database'.points = kept
      /\ loaded'.rounds = loaded.rounds /\ loaded'.points = KeptInMemory(Append(rows, point))
  BY <1>2 DEF EntriesInv, EntriesTyped, Tables
<1>7. PICK more \in Seq(PointRow) : more = Append(up, point)
  <2>1. Append(up, point) \in Seq(PointRow)
    BY <1>4, <1>5
  <2> QED
    BY <2>1
<1>8. /\ kept \in Seq(PointRow) /\ MadeRises(kept)
      /\ \A p \in ToSet(kept) : p \in ToSet(more)
  BY <1>2, <1>7, KeptRowsTyped
<1>9. \A p \in ToSet(more) : p.made <= pointsMade + 1
  <2> SUFFICES ASSUME NEW p \in ToSet(more) PROVE p.made <= pointsMade + 1
    OBVIOUS
  <2>1. p = point \/ p \in ToSet(up)
    <3>1. PICK m \in Nat : m = Len(up) /\ DOMAIN up = 1..m
      BY <1>4
    <3>2. DOMAIN more = 1..(m + 1) /\ more[m + 1] = point /\ \A i \in 1..m : more[i] = up[i]
      BY <1>4, <1>5, <1>7, <3>1
    <3>3. PICK i \in 1..(m + 1) : p = more[i]
      BY <3>2 DEF ToSet
    <3>4. i \in 1..m \/ i = m + 1
      OBVIOUS
    <3>5. \A j \in 1..m : up[j] \in ToSet(up)
      BY <3>1 DEF ToSet
    <3> QED
      BY <3>2, <3>3, <3>4, <3>5
  <2>2. p \in ToSet(up) => p.made \in Nat
    <3>1. \A q \in ToSet(up) : q \in PointRow
      BY <1>4 DEF ToSet
    <3> QED
      BY <3>1 DEF PointRow
  <2> QED
    BY <1>4, <1>5, <2>1, <2>2
<1>10. EntriesTyped'
  <2>1. \A p \in ToSet(database'.points) : p.made <= pointsMade'
    BY <1>3, <1>6, <1>8, <1>9
  <2> QED
    BY <1>3, <1>4, <1>6, <1>8, <2>1 DEF EntriesInv, EntriesTyped
<1>11. ASSUME opened'.open, apart' \subseteq {"crash"} PROVE Together'
  <2>1. Together
    BY <1>3, <1>11 DEF EntriesInv
  <2>2. Rising(up, point.number)
    <3> SUFFICES ASSUME ~Rising(up, n) PROVE FALSE
      BY <1>5
    <3>1. "order" \in apart'
      BY <1>3
    <3> QED
      BY <1>11, <3>1
  <2>3. Rises(up) /\ InOneOrder(rows, up) /\ loaded.rounds = database.rounds
    BY <1>1, <2>1 DEF Together
  <2>4. \A p \in ToSet(up) : p.made < point.made
    <3>1. \A q \in ToSet(up) : q \in PointRow
      BY <1>4 DEF ToSet
    <3>2. \A q \in ToSet(up) : q.made \in Nat
      BY <3>1 DEF PointRow
    <3> QED
      BY <1>4, <1>5, <3>2
  <2>5. /\ Rises(Append(up, point)) /\ MadeRises(Append(up, point))
        /\ Append(rows, point) \in Seq(PointRow) /\ Differ(Append(rows, point))
        /\ ToSet(Append(rows, point)) = ToSet(Append(up, point))
    BY <1>4, <1>5, <2>2, <2>3, <2>4, PointComesIn
  <2>6. kept = Newest(more)
    BY <1>2, <1>7, <2>5, KeptRowsAre
  <2>7. KeptInMemory(Append(rows, point)) = Newest(more)
    BY <1>7, <2>5, KeptInMemoryIs
  <2>8. Rises(Newest(more))
    BY <1>7, <2>5, NewestAre
  <2> QED
    BY <1>6, <2>3, <2>6, <2>7, <2>8 DEF Together, InOneOrder
<1> QED
  BY <1>10, <1>11 DEF EntriesInv

LEMMA LoadLatestKeeps ==
  ASSUME EntriesInv, LoadLatest
  PROVE  EntriesInv'
<1>1. loaded' = [loaded EXCEPT !.points = Descending(loaded.points)]
      /\ UNCHANGED <<database, opened, pointsMade, apart>>
  BY DEF LoadLatest
<1>2. /\ DOMAIN loaded' = Tables /\ loaded'.rounds = loaded.rounds
      /\ loaded'.points = Descending(loaded.points)
  BY <1>1 DEF EntriesInv, EntriesTyped, Tables
<1>3. EntriesTyped'
  BY <1>1, <1>2 DEF EntriesInv, EntriesTyped
<1>4. ASSUME opened'.open, apart' \subseteq {"crash"} PROVE Together'
  <2>1. Together
    BY <1>1, <1>4 DEF EntriesInv
  <2>2. PICK rows, up : rows = loaded.points /\ up = database.points
    OBVIOUS
  <2>3. up \in Seq(PointRow) /\ Rises(up) /\ InOneOrder(rows, up)
    BY <2>1, <2>2 DEF Together, EntriesInv, EntriesTyped
  <2>4. rows \in Seq(PointRow) /\ Differ(rows) /\ ToSet(rows) = ToSet(up)
    BY <2>3, OneOrder
  <2>5. Descending(rows) = Flip(up)
    BY <2>3, <2>4, DescendingIs
  <2> QED
    BY <1>1, <1>2, <2>1, <2>2, <2>5 DEF Together, InOneOrder
<1> QED
  BY <1>3, <1>4 DEF EntriesInv

LEMMA EntriesInvInit == StoreInit => EntriesInv
<1> SUFFICES ASSUME StoreInit PROVE EntriesInv
  OBVIOUS
<1>1. /\ database = EmptySession /\ loaded = EmptySession /\ pointsMade = 0
      /\ opened = [open |-> FALSE, count |-> 0]
  BY DEF StoreInit
<1>2. /\ DOMAIN database = Tables /\ DOMAIN loaded = Tables /\ DOMAIN opened = {"open", "count"}
      /\ database.rounds = <<>> /\ database.points = <<>> /\ ~opened.open
  BY <1>1 DEF EmptySession, Tables
<1>3. MadeRises(<<>>) /\ ToSet(<<>>) = {}
  BY DEF MadeRises, ToSet
<1>4. EntriesTyped
  BY <1>1, <1>2, <1>3 DEF EntriesTyped
<1> QED
  BY <1>2, <1>4 DEF EntriesInv

LEMMA EntriesInvNext == EntriesInv /\ [StoreNext]_storeVars => EntriesInv'
<1> SUFFICES ASSUME EntriesInv, [StoreNext]_storeVars PROVE EntriesInv'
  OBVIOUS
<1>0. DOMAIN database = Tables /\ DOMAIN loaded = Tables /\ DOMAIN opened = {"open", "count"}
  BY DEF EntriesInv, EntriesTyped
<1>1. CASE UNCHANGED storeVars
  <2>1. UNCHANGED <<database, loaded, opened, pointsMade, apart>>
    BY <1>1 DEF storeVars
  <2> QED
    BY <1>0, <2>1, EntriesStay
<1>2. CASE OpenSession
  BY <1>2, OpenSessionKeeps
<1>3. CASE CloseSession
  <2>1. /\ opened' = [opened EXCEPT !.open = FALSE]
        /\ UNCHANGED <<database, loaded, pointsMade, apart>>
    BY <1>3 DEF CloseSession
  <2>2. DOMAIN opened' = {"open", "count"} /\ ~opened'.open
    BY <1>0, <2>1
  <2> QED
    BY <1>0, <2>1, <2>2, EntriesStay
<1>4. CASE LoadLatest
  BY <1>4, LoadLatestKeeps
<1>5. CASE CompleteRound
  BY <1>5, RoundsKeep
<1>6. ASSUME NEW wordings, AddBatch(wordings)
      PROVE  EntriesInv'
  <2>1. PICK a, b : /\ database' = [database EXCEPT !.messages = a]
                    /\ loaded' = [loaded EXCEPT !.messages = b]
                    /\ UNCHANGED <<opened, pointsMade, apart>>
    BY <1>6 DEF AddBatch
  <2>2. /\ DOMAIN database' = Tables /\ DOMAIN loaded' = Tables
        /\ database'.rounds = database.rounds /\ database'.points = database.points
        /\ loaded'.rounds = loaded.rounds /\ loaded'.points = loaded.points
    BY <1>0, <2>1 DEF Tables
  <2> QED
    BY <1>0, <2>1, <2>2, EntriesStay
<1>7. ASSUME NEW wordings, CrashInAdd(wordings)
      PROVE  EntriesInv'
  <2>1. PICK rows : database' = [database EXCEPT !.messages = rows]
    BY <1>7 DEF CrashInAdd
  <2>2. /\ opened' = [opened EXCEPT !.open = FALSE] /\ UNCHANGED <<loaded, pointsMade>>
        /\ apart \subseteq apart'
    BY <1>7 DEF CrashInAdd
  <2>3. /\ DOMAIN database' = Tables
        /\ database'.rounds = database.rounds /\ database'.points = database.points
        /\ DOMAIN opened' = {"open", "count"} /\ ~opened'.open
    BY <1>0, <2>1, <2>2 DEF Tables
  <2> QED
    BY <1>0, <2>2, <2>3, EntriesStay
<1>8. ASSUME NEW n \in RoundNumbers, StartRound(n)
      PROVE  EntriesInv'
  BY <1>8, RoundsKeep
<1>9. ASSUME NEW n \in RoundNumbers, SavePoint(n)
      PROVE  EntriesInv'
  BY <1>9, SavePointKeeps
<1> QED
  BY <1>1, <1>2, <1>3, <1>4, <1>5, <1>6, <1>7, <1>8, <1>9 DEF StoreNext

LEMMA EntriesAreThere == EntriesInv => EntriesAgree
<1> SUFFICES ASSUME EntriesInv, opened.open, apart \subseteq {"crash"}
             PROVE  /\ database.rounds = loaded.rounds
                    /\ database.points = Ascending(loaded.points)
                    /\ LatestOf(database.points) = FirstOf(loaded.points)
  BY DEF EntriesAgree
<1>1. PICK rows, up : rows = loaded.points /\ up = database.points
  OBVIOUS
<1>2. /\ up \in Seq(PointRow) /\ Rises(up) /\ InOneOrder(rows, up)
      /\ database.rounds = loaded.rounds
  BY <1>1 DEF Together, EntriesInv, EntriesTyped
<1>3. rows \in Seq(PointRow) /\ Differ(rows) /\ ToSet(rows) = ToSet(up) /\ Len(rows) = Len(up)
  BY <1>2, OneOrder
<1>4. Ascending(rows) = up /\ Descending(rows) = Flip(up)
  BY <1>2, <1>3, AscendingIs, DescendingIs
<1>5. PICK n \in Nat : n = Len(up) /\ DOMAIN up = 1..n
  BY <1>2, RowsAre
<1>6. LatestOf(up) = FirstOf(rows)
  <2>1. CASE n = 0
    <3>1. up = <<>> /\ rows = <<>>
      BY <1>2, <1>3, <1>5, <2>1
    <3>2. ToSet(<<>>) = {}
      BY DEF ToSet
    <3> QED
      BY <3>1, <3>2 DEF LatestOf, FirstOf
  <2>2. CASE n # 0
    <3>1. n \in 1..n /\ rows # <<>> /\ 1 \in 1..n
      BY <1>3, <1>5, <2>2
    <3>2. Flip(up)[1] = up[n]
      <4>1. Flip(up)[1] = up[n + 1 - 1]
        BY <1>2, <1>5, <3>1, FlipIs
      <4> QED
        BY <4>1
    <3>3. FirstOf(rows) = {up[n]}
      BY <1>4, <3>1, <3>2 DEF FirstOf
    <3>4. ToSet(up) = {up[i] : i \in 1..n}
      BY <1>5 DEF ToSet
    <3>5. \A i \in 1..n : up[i].number \in Nat
      BY <1>2, <1>5, RowsAre
    <3>6. \A i \in 1..n : i # n => up[i].number < up[n].number
      BY <1>2, <1>5, <3>1 DEF Rises
    <3>7. \A i \in 1..n : up[i].number <= up[n].number
      BY <3>1, <3>5, <3>6
    <3>8. up[n] \in LatestOf(up)
      BY <3>1, <3>4, <3>7 DEF LatestOf
    <3>9. ASSUME NEW p \in LatestOf(up) PROVE p = up[n]
      <4>1. p \in ToSet(up) /\ up[n].number <= p.number
        BY <3>1, <3>4 DEF LatestOf
      <4>2. PICK i \in 1..n : p = up[i]
        BY <3>4, <4>1
      <4> QED
        BY <3>1, <3>5, <3>6, <4>1, <4>2
    <3> QED
      BY <3>3, <3>8, <3>9
  <2> QED
    BY <2>1, <2>2
<1> QED
  BY <1>1, <1>2, <1>4, <1>6

----------------------------------------------------------------------------
(***************************************************************************)
(* A rewind.  In a process that began with no conversation the prompts up  *)
(* to a message are at most as many as were given up to it, so that a      *)
(* message of an early round stands before the first prompt that goes.     *)
(***************************************************************************)
Users(h, k) == Cardinality({j \in 1..k : h[j].role = "user"})
Counted(h, base, most) ==
  \A k \in DOMAIN h : base + Users(h, k) <= h[k].n /\ h[k].n <= most

LEMMA MessagesAre ==
  ASSUME NEW h \in Seq(LineMessage)
  PROVE  /\ Len(h) \in Nat /\ DOMAIN h = 1..Len(h)
         /\ \A k \in DOMAIN h : h[k] \in LineMessage /\ h[k].n \in Nat
<1>1. \A k \in DOMAIN h : h[k] \in LineMessage
  OBVIOUS
<1> QED
  BY <1>1 DEF LineMessage

LEMMA UsersRise ==
  ASSUME NEW h, NEW k \in Nat, NEW l \in Nat, l <= k
  PROVE  Users(h, k) \in Nat /\ Users(h, l) \in Nat /\ Users(h, l) <= Users(h, k)
<1>1. PICK A, B : A = {j \in 1..k : h[j].role = "user"} /\ B = {j \in 1..l : h[j].role = "user"}
  OBVIOUS
<1>2. A \subseteq 1..k /\ B \subseteq A
  BY <1>1
<1>3. IsFiniteSet(1..k)
  BY FS_Interval
<1>4. IsFiniteSet(A) /\ IsFiniteSet(B) /\ Cardinality(B) <= Cardinality(A)
  BY <1>2, <1>3, FS_Subset
<1>5. Cardinality(A) \in Nat /\ Cardinality(B) \in Nat
  BY <1>4, FS_CardinalityType
<1> QED
  BY <1>1, <1>4, <1>5 DEF Users

LEMMA UsersOfNone ==
  ASSUME NEW h
  PROVE  Users(h, 0) = 0
<1>1. {j \in 1..0 : h[j].role = "user"} = {}
  OBVIOUS
<1> QED
  BY <1>1, FS_EmptySet DEF Users

(* A part from the start counts as the whole does.                         *)
LEMMA UsersOfPart ==
  ASSUME NEW h, NEW g, NEW k \in Nat, \A j \in 1..k : g[j] = h[j]
  PROVE  Users(g, k) = Users(h, k)
<1>1. {j \in 1..k : g[j].role = "user"} = {j \in 1..k : h[j].role = "user"}
  OBVIOUS
<1> QED
  BY <1>1 DEF Users

LEMMA UsersNext ==
  ASSUME NEW h, NEW k \in Nat
  PROVE  /\ Users(h, k + 1) <= Users(h, k) + 1
         /\ h[k + 1].role # "user" => Users(h, k + 1) = Users(h, k)
         /\ Users(h, k) \in Nat /\ Users(h, k + 1) \in Nat
<1>1. PICK A, B : A = {j \in 1..(k + 1) : h[j].role = "user"} /\ B = {j \in 1..k : h[j].role = "user"}
  OBVIOUS
<1>2. Cardinality(A) = Users(h, k + 1) /\ Cardinality(B) = Users(h, k)
  BY <1>1 DEF Users
<1>3. Users(h, k) \in Nat /\ Users(h, k + 1) \in Nat
  BY UsersRise
<1>4. CASE h[k + 1].role = "user"
  <2>1. A = B \cup {k + 1} /\ k + 1 \notin B
    BY <1>1, <1>4
  <2>2. IsFiniteSet(B)
    <3>1. IsFiniteSet(1..k) /\ B \subseteq 1..k
      BY <1>1, FS_Interval
    <3> QED
      BY <3>1, FS_Subset
  <2>3. Cardinality(A) = Cardinality(B) + 1
    BY <2>1, <2>2, FS_AddElement
  <2> QED
    BY <1>2, <1>3, <1>4, <2>3
<1>5. CASE h[k + 1].role # "user"
  <2>1. A = B
    BY <1>1, <1>5
  <2> QED
    BY <1>2, <1>3, <2>1
<1> QED
  BY <1>4, <1>5

(* A prompt comes in with a number that is larger than all that are there. *)
Prompted(h, base, n) ==
  \A g : g = Append(h, Said("user", n)) =>
    g \in Seq(LineMessage) /\ Counted(g, base, n) /\ g # <<>> /\ g[Len(g)].n = n

CountedBefore(h, base, n) == base < n /\ Counted(h, base, n - 1)

LEMMA PromptIsCounted ==
  ASSUME NEW h \in Seq(LineMessage), NEW base \in Nat, NEW n \in Nat, CountedBefore(h, base, n)
  PROVE  Prompted(h, base, n)
<1> USE DEF CountedBefore
<1> SUFFICES ASSUME NEW g, g = Append(h, Said("user", n))
             PROVE  g \in Seq(LineMessage) /\ Counted(g, base, n) /\ g # <<>> /\ g[Len(g)].n = n
  BY DEF Prompted
<1>1. PICK m \in Nat : m = Len(h) /\ DOMAIN h = 1..m
  BY MessagesAre
<1>2. Said("user", n) \in LineMessage /\ Said("user", n).n = n
  BY DEF Said, LineMessage
<1>3. /\ g \in Seq(LineMessage) /\ Len(g) = m + 1 /\ DOMAIN g = 1..(m + 1)
      /\ \A k \in 1..m : g[k] = h[k]
      /\ g[m + 1] = Said("user", n)
  BY <1>1, <1>2
<1>4. \A k \in 1..m : h[k].n \in Nat
  BY <1>1, MessagesAre
<1>5. ASSUME NEW k \in 1..m PROVE base + Users(g, k) <= g[k].n /\ g[k].n <= n
  <2>1. Users(g, k) = Users(h, k)
    <3>1. k \in Nat /\ \A j \in 1..k : g[j] = h[j]
      BY <1>1, <1>3
    <3> QED
      BY <3>1, UsersOfPart
  <2>2. base + Users(h, k) <= h[k].n /\ h[k].n <= n - 1
    BY <1>1 DEF Counted
  <2> QED
    BY <1>3, <1>4, <2>1, <2>2
<1>6. base + Users(g, m + 1) <= n
  <2>1. Users(g, m + 1) <= Users(g, m) + 1 /\ Users(g, m) \in Nat /\ Users(g, m + 1) \in Nat
    BY UsersNext
  <2>2. base + Users(g, m) <= n - 1
    <3>1. CASE m = 0
      BY <3>1, UsersOfNone
    <3>2. CASE m # 0
      <4>1. m \in 1..m
        BY <3>2
      <4>2. base + Users(h, m) <= h[m].n /\ h[m].n <= n - 1
        BY <1>1, <4>1 DEF Counted
      <4>3. Users(g, m) = Users(h, m)
        BY <1>3, UsersOfPart
      <4> QED
        BY <1>4, <2>1, <4>1, <4>2, <4>3
    <3> QED
      BY <3>1, <3>2
  <2> QED
    BY <2>1, <2>2
<1>7. Counted(g, base, n)
  <2> SUFFICES ASSUME NEW k \in 1..(m + 1) PROVE base + Users(g, k) <= g[k].n /\ g[k].n <= n
    BY <1>3 DEF Counted
  <2>1. k \in 1..m \/ k = m + 1
    OBVIOUS
  <2> QED
    BY <1>2, <1>3, <1>5, <1>6, <2>1
<1> QED
  BY <1>2, <1>3, <1>7

LEMMA AnswerIsCounted ==
  ASSUME NEW h \in Seq(LineMessage), NEW base \in Nat, NEW n \in Nat,
         Counted(h, base, n), h # <<>>, h[Len(h)].n = n, NEW g, g = Append(h, Said("assistant", n))
  PROVE  g \in Seq(LineMessage) /\ Counted(g, base, n)
<1>1. PICK m \in Nat : m = Len(h) /\ DOMAIN h = 1..m /\ m \in 1..m
  <2>1. Len(h) \in Nat \ {0} /\ DOMAIN h = 1..Len(h)
    OBVIOUS
  <2>2. Len(h) \in 1..Len(h)
    BY <2>1
  <2> QED
    BY <2>1, <2>2
<1>2. /\ Said("assistant", n) \in LineMessage /\ Said("assistant", n).n = n
      /\ Said("assistant", n).role # "user"
  BY DEF Said, LineMessage
<1>3. /\ g \in Seq(LineMessage) /\ Len(g) = m + 1 /\ DOMAIN g = 1..(m + 1)
      /\ \A k \in 1..m : g[k] = h[k]
      /\ g[m + 1] = Said("assistant", n)
  BY <1>1, <1>2
<1>4. ASSUME NEW k \in 1..m PROVE base + Users(g, k) <= g[k].n /\ g[k].n <= n
  <2>1. Users(g, k) = Users(h, k)
    <3>1. k \in Nat /\ \A j \in 1..k : g[j] = h[j]
      BY <1>1, <1>3
    <3> QED
      BY <3>1, UsersOfPart
  <2> QED
    BY <1>1, <1>3, <2>1 DEF Counted
<1>5. base + Users(g, m + 1) <= n
  <2>1. Users(g, m + 1) = Users(g, m)
    BY <1>2, <1>3, UsersNext
  <2>2. base + Users(g, m) <= g[m].n
    BY <1>1, <1>4
  <2> QED
    BY <1>1, <1>3, <2>1, <2>2
<1>6. Counted(g, base, n)
  <2> SUFFICES ASSUME NEW k \in 1..(m + 1) PROVE base + Users(g, k) <= g[k].n /\ g[k].n <= n
    BY <1>3 DEF Counted
  <2>1. k \in 1..m \/ k = m + 1
    BY <1>1
  <2> QED
    BY <1>2, <1>3, <1>4, <1>5, <2>1
<1> QED
  BY <1>3, <1>6

(* What a rewind leaves is the conversation up to a message.               *)
LEMMA TruncatedIs ==
  ASSUME NEW h \in Seq(LineMessage), NEW upTo \in Nat
  PROVE  \E last \in 0..Len(h) :
           /\ TruncatedTo(h, upTo) \in Seq(LineMessage) /\ Len(TruncatedTo(h, upTo)) = last
           /\ \A k \in 1..last : TruncatedTo(h, upTo)[k] = h[k]
           /\ \A k \in DOMAIN h : Users(h, k) <= upTo => k <= last
<1>1. PICK m \in Nat : m = Len(h) /\ DOMAIN h = 1..m
  BY MessagesAre
<1>2. PICK later : later = {k \in DOMAIN h : h[k].role = "user" /\ Users(h, k) > upTo}
  OBVIOUS
<1>3. TruncatedTo(h, upTo) = IF later = {} THEN h ELSE SubSeq(h, 1, Smallest(later) - 1)
  BY <1>2 DEF TruncatedTo, Users
<1>4. CASE later = {}
  <2>1. TruncatedTo(h, upTo) = h /\ m \in 0..Len(h) /\ \A k \in DOMAIN h : k <= m
    BY <1>1, <1>3, <1>4
  <2> QED
    BY <1>1, <2>1
<1>5. CASE later # {}
  <2>1. PICK s : s = Smallest(later)
    OBVIOUS
  <2>2. s \in later /\ \A y \in later : s <= y
    <3>1. later \in SUBSET Nat
      BY <1>1, <1>2
    <3>2. \E x \in later : \A y \in later : x <= y
      BY <1>5, <3>1, LeastExists
    <3> QED
      BY <2>1, <3>2 DEF Smallest
  <2>3. s \in 1..m /\ Users(h, s) > upTo
    BY <1>1, <1>2, <2>2
  <2>4. PICK last \in Nat : last = s - 1 /\ last <= m
    BY <2>3
  <2>5. TruncatedTo(h, upTo) = SubSeq(h, 1, last)
    BY <1>3, <1>5, <2>1, <2>4
  <2>6. /\ SubSeq(h, 1, last) \in Seq(LineMessage) /\ Len(SubSeq(h, 1, last)) = last
        /\ \A k \in 1..last : SubSeq(h, 1, last)[k] = h[k]
    BY <1>1, <2>4, SubSeqProperties
  <2>7. ASSUME NEW k \in DOMAIN h, Users(h, k) <= upTo PROVE k <= last
    <3> SUFFICES ASSUME k > last PROVE FALSE
      BY <1>1, <2>4
    <3>1. k \in Nat /\ s \in Nat /\ s <= k
      BY <1>1, <2>3, <2>4
    <3>2. Users(h, s) <= Users(h, k) /\ Users(h, s) \in Nat /\ Users(h, k) \in Nat
      BY <3>1, UsersRise
    <3> QED
      BY <2>3, <2>7, <3>2
  <2> QED
    BY <1>1, <2>4, <2>5, <2>6, <2>7
<1> QED
  BY <1>4, <1>5

AloneInv ==
  /\ proc.base \in Nat /\ proc.base <= asked
  /\ proc.pc = "turn" => proc.base < asked
  /\ proc.alone => Counted(proc.history, proc.base, IF proc.pc = "turn" THEN asked - 1 ELSE asked)

KeptFrom(h, g, base, upTo) == \A m \in ToSet(h) : m.n - base <= upTo => m \in ToSet(g)

LEMMA EarlierIsKept ==
  ASSUME NEW h \in Seq(LineMessage), NEW base \in Nat, NEW most \in Nat,
         Counted(h, base, most), NEW upTo \in Nat
  PROVE  /\ KeptFrom(h, TruncatedTo(h, upTo), base, upTo)
         /\ Counted(TruncatedTo(h, upTo), base, most)
<1>1. PICK g : g = TruncatedTo(h, upTo)
  OBVIOUS
<1>2. PICK last \in 0..Len(h) :
        /\ g \in Seq(LineMessage) /\ Len(g) = last
        /\ \A k \in 1..last : g[k] = h[k]
        /\ \A k \in DOMAIN h : Users(h, k) <= upTo => k <= last
  BY <1>1, TruncatedIs
<1>3. /\ DOMAIN g = 1..last /\ DOMAIN h = 1..Len(h) /\ Len(h) \in Nat /\ last \in Nat
      /\ \A k \in DOMAIN h : h[k].n \in Nat
  BY <1>2, MessagesAre
<1>4. KeptFrom(h, g, base, upTo)
  <2> SUFFICES ASSUME NEW m \in ToSet(h), m.n - base <= upTo PROVE m \in ToSet(g)
    BY DEF KeptFrom
  <2>1. PICK k \in 1..Len(h) : m = h[k]
    BY <1>3 DEF ToSet
  <2>2. base + Users(h, k) <= h[k].n
    BY <1>3 DEF Counted
  <2>3. Users(h, k) \in Nat
    BY <1>3, UsersRise
  <2>4. Users(h, k) <= upTo
    BY <1>3, <2>1, <2>2, <2>3
  <2>5. k \in 1..last
    BY <1>2, <1>3, <2>4
  <2> QED
    BY <1>2, <1>3, <2>1, <2>5 DEF ToSet
<1>5. Counted(g, base, most)
  <2> SUFFICES ASSUME NEW k \in 1..last PROVE base + Users(g, k) <= g[k].n /\ g[k].n <= most
    BY <1>3 DEF Counted
  <2>1. Users(g, k) = Users(h, k)
    BY <1>2, <1>3, UsersOfPart
  <2>2. k \in DOMAIN h
    BY <1>3
  <2> QED
    BY <1>2, <2>1, <2>2 DEF Counted
<1> QED
  BY <1>1, <1>4, <1>5

LEMMA AloneInvNext ==
  ASSUME LineInv, AloneInv, [LineNext]_lineVars
  PROVE  AloneInv'
<1>0. IsProc(proc) /\ asked \in Nat /\ DOMAIN proc = ProcFields /\ proc.history \in Seq(LineMessage)
  BY DEF LineInv, IsProc
<1>1. ASSUME asked' = asked, proc'.base \in Nat, proc'.base <= asked, proc'.pc # "turn",
             proc'.alone => Counted(proc'.history, proc'.base, asked)
      PROVE  AloneInv'
  BY <1>1 DEF AloneInv
<1>2. CASE UNCHANGED lineVars
  <2>1. UNCHANGED <<proc, asked>>
    BY <1>2 DEF lineVars
  <2> QED
    BY <2>1 DEF AloneInv
<1>3. ASSUME NEW base, NEW most PROVE Counted(<<>>, base, most)
  BY DEF Counted
<1>4. CASE Start
  <2>1. PICK want, todo :
          proc' = [Off EXCEPT !.pc = "migrate", !.want = want, !.base = asked, !.todo = todo]
    BY <1>4 DEF Start
  <2>2. proc'.base = asked /\ proc'.history = <<>> /\ proc'.pc = "migrate"
    BY <2>1 DEF Off
  <2> QED
    BY <1>0, <1>1, <1>3, <1>4, <2>2 DEF Start
<1>5. CASE Stop
  <2>1. proc'.base = 0 /\ proc'.history = <<>> /\ proc'.pc = "off" /\ UNCHANGED asked
    BY <1>5 DEF Stop, Off
  <2> QED
    BY <1>0, <1>1, <1>3, <2>1
<1>6. CASE MigrateFill \/ MigrateRename \/ Write \/ RetireOld
           \/ \E i \in Ids : MigrateSkip(i) \/ MigrateOpen(i)
  <2>1. UNCHANGED asked /\ proc.pc \in {"fill", "rename", "save", "retire", "migrate"}
    BY <1>6 DEF MigrateFill, MigrateRename, Write, RetireOld, MigrateSkip, MigrateOpen
  <2>2. PICK at, cur, todo :
          /\ proc' = [proc EXCEPT !.pc = at, !.cur = cur, !.todo = todo]
          /\ at \in {"fill", "rename", "ready", "retire", "migrate"}
    <3>1. ASSUME NEW at, NEW cur, NEW todo
          PROVE  /\ proc = [proc EXCEPT !.cur = proc.cur] /\ proc = [proc EXCEPT !.pc = proc.pc]
                 /\ proc = [proc EXCEPT !.todo = proc.todo]
      BY <1>0 DEF IsProc, ProcFields
    <3>2. CASE MigrateFill
      <4>1. proc' = [proc EXCEPT !.pc = "rename", !.cur = proc.cur, !.todo = proc.todo]
        BY <1>0, <3>2 DEF MigrateFill, IsProc, ProcFields
      <4> QED
        BY <4>1
    <3>3. CASE MigrateRename \/ RetireOld
      <4>1. PICK at \in {"migrate", "ready"} :
              proc' = [proc EXCEPT !.pc = at, !.cur = NoId, !.todo = proc.todo]
        BY <1>0, <3>3 DEF MigrateRename, RetireOld, IsProc, ProcFields
      <4> QED
        BY <4>1
    <3>4. CASE Write
      <4>1. PICK at \in {"retire", "ready"}, cur \in {proc.cur, NoId} :
              proc' = [proc EXCEPT !.pc = at, !.cur = cur, !.todo = proc.todo]
        <5>1. PICK at \in {"retire", "ready"}, cur \in {proc.cur, NoId} :
                proc' = [proc EXCEPT !.pc = at, !.cur = cur]
          BY <3>4 DEF Write
        <5> QED
          BY <1>0, <5>1 DEF IsProc, ProcFields
      <4> QED
        BY <4>1
    <3>5. ASSUME NEW i \in Ids, MigrateSkip(i) \/ MigrateOpen(i)
          PROVE  \E at, cur, todo :
                   /\ proc' = [proc EXCEPT !.pc = at, !.cur = cur, !.todo = todo]
                   /\ at \in {"fill", "rename", "ready", "retire", "migrate"}
      <4>1. CASE MigrateSkip(i)
        <5>1. proc' = [proc EXCEPT !.pc = "migrate", !.cur = proc.cur, !.todo = proc.todo \ {i}]
          BY <1>0, <4>1 DEF MigrateSkip, IsProc, ProcFields
        <5> QED
          BY <5>1
      <4>2. CASE MigrateOpen(i)
        <5>1. proc' = [proc EXCEPT !.pc = "fill", !.cur = i, !.todo = proc.todo \ {i}]
          BY <4>2 DEF MigrateOpen
        <5> QED
          BY <5>1
      <4> QED
        BY <3>5, <4>1, <4>2
    <3> QED
      BY <1>6, <3>2, <3>3, <3>4, <3>5
  <2>3. /\ proc'.pc = at /\ proc'.alone = proc.alone /\ proc'.base = proc.base
        /\ proc'.history = proc.history
    BY <1>0, <2>2 DEF ProcFields
  <2> QED
    BY <1>1, <2>1, <2>2, <2>3 DEF AloneInv
<1>7. CASE Open
  <2>1. PICK id, alone, history :
          /\ proc' = [proc EXCEPT !.pc = "ready", !.id = id, !.cmd = id,
                                  !.alone = alone, !.history = history]
          /\ alone => history = <<>>
    BY <1>7 DEF Open
  <2>2. /\ proc'.pc = "ready" /\ proc'.alone = alone /\ proc'.base = proc.base
        /\ proc'.history = history
    BY <1>0, <2>1 DEF ProcFields
  <2>3. asked' = asked
    BY <1>7 DEF Open
  <2> QED
    BY <1>1, <1>3, <2>1, <2>2, <2>3 DEF AloneInv
<1>8. CASE Prompt
  <2>1. proc' = [proc EXCEPT !.pc = "turn", !.round = @ + 1] /\ asked' = asked + 1 /\ proc.pc = "ready"
    BY <1>8 DEF Prompt
  <2>2. /\ proc'.pc = "turn" /\ proc'.alone = proc.alone /\ proc'.base = proc.base
        /\ proc'.history = proc.history
    BY <1>0, <2>1 DEF ProcFields
  <2>3. asked' - 1 = asked /\ proc.base < asked' /\ proc.base <= asked'
    BY <1>0, <2>1 DEF AloneInv
  <2> QED
    BY <2>1, <2>2, <2>3 DEF AloneInv
<1>9. ASSUME NEW p, NEW i, BeginSave(p, i), asked' = asked, DOMAIN p = ProcFields, p.base = proc.base,
             p.alone => Counted(p.history, p.base, asked)
      PROVE  AloneInv'
  <2>1. PICK cur, id : proc' = [p EXCEPT !.pc = "save", !.cur = cur, !.id = id]
    BY <1>9 DEF BeginSave
  <2>2. /\ proc'.pc = "save" /\ proc'.alone = p.alone /\ proc'.base = p.base
        /\ proc'.history = p.history
    BY <1>9, <2>1 DEF ProcFields
  <2> QED
    BY <1>1, <1>9, <2>2 DEF AloneInv
<1>10. CASE EndTurn
  <2>0. PICK ending \in {"text", "silent", "cancelled"} :
          LET p == [proc EXCEPT !.pc = "ready", !.history = @ \o TurnMessages(ending)]
          IN BeginSave(p, p.id) \/ proc' = p
    BY <1>10 DEF EndTurn
  <2>1. PICK p : /\ p = [proc EXCEPT !.pc = "ready", !.history = @ \o TurnMessages(ending)]
                 /\ BeginSave(p, p.id) \/ proc' = p
    BY <2>0
  <2>2. asked' = asked /\ proc.pc = "turn"
    BY <1>10 DEF EndTurn
  <2>3. /\ DOMAIN p = ProcFields /\ p.pc = "ready" /\ p.alone = proc.alone /\ p.base = proc.base
        /\ p.history = proc.history \o TurnMessages(ending)
    BY <1>0, <2>1 DEF ProcFields
  <2>4. ASSUME p.alone PROVE Counted(p.history, p.base, asked)
    <3>1. /\ proc.base < asked /\ proc.base \in Nat
          /\ Counted(proc.history, proc.base, asked - 1)
      BY <2>2, <2>3, <2>4 DEF AloneInv
    <3>2. PICK h : h = Append(proc.history, Said("user", asked))
      OBVIOUS
    <3>3. h \in Seq(LineMessage) /\ Counted(h, proc.base, asked) /\ h # <<>> /\ h[Len(h)].n = asked
      <4>1. PICK old, base : old = proc.history /\ base = proc.base
        OBVIOUS
      <4>2. old \in Seq(LineMessage) /\ base \in Nat /\ asked \in Nat /\ CountedBefore(old, base, asked)
        BY <1>0, <3>1, <4>1 DEF CountedBefore
      <4>3. Prompted(old, base, asked)
        BY <4>2, PromptIsCounted
      <4> QED
        BY <3>2, <4>1, <4>3 DEF Prompted
    <3>4. CASE ending = "text"
      <4>1. PICK g : g = Append(h, Said("assistant", asked))
        OBVIOUS
      <4>2. Counted(g, proc.base, asked)
        BY <1>0, <3>1, <3>3, <4>1, AnswerIsCounted
      <4>3. p.history = g
        <5>1. PICK u, a : u = Said("user", asked) /\ a = Said("assistant", asked)
          OBVIOUS
        <5>2. TurnMessages(ending) = <<u, a>>
          BY <3>4, <5>1 DEF TurnMessages
        <5>3. u \in LineMessage /\ a \in LineMessage
          BY <1>0, <5>1 DEF Said, LineMessage
        <5>4. proc.history \o <<u, a>> = Append(Append(proc.history, u), a)
          BY <1>0, <5>3
        <5> QED
          BY <2>3, <3>2, <4>1, <5>1, <5>2, <5>4
      <4> QED
        BY <2>3, <4>2, <4>3
    <3>5. CASE ending = "silent"
      <4>1. PICK u \in LineMessage : u = Said("user", asked)
        BY <1>0 DEF Said, LineMessage
      <4>2. TurnMessages(ending) = <<u>>
        BY <3>5, <4>1 DEF TurnMessages
      <4>3. proc.history \o <<u>> = Append(proc.history, u)
        BY <1>0
      <4> QED
        BY <2>3, <3>2, <3>3, <4>1, <4>2, <4>3
    <3>6. CASE ending = "cancelled"
      <4>1. TurnMessages(ending) = <<>>
        BY <3>6 DEF TurnMessages
      <4>2. proc.history \o <<>> = proc.history
        BY <1>0
      <4>3. p.history = proc.history /\ p.base = proc.base
        BY <2>3, <4>1, <4>2
      <4>4. \A k \in DOMAIN proc.history : proc.history[k].n \in Nat
        BY <1>0, MessagesAre
      <4> QED
        BY <1>0, <3>1, <4>3, <4>4 DEF Counted
    <3> QED
      BY <2>0, <3>4, <3>5, <3>6
  <2>5. CASE BeginSave(p, p.id)
    BY <1>9, <2>2, <2>3, <2>4, <2>5
  <2>6. CASE proc' = p
    BY <1>1, <2>2, <2>3, <2>4, <2>6 DEF AloneInv
  <2> QED
    BY <2>1, <2>5, <2>6
<1>11. CASE SaveCommand
  <2>1. BeginSave(proc, proc.cmd) /\ asked' = asked /\ proc.pc = "ready"
    BY <1>11 DEF SaveCommand
  <2>2. proc.alone => Counted(proc.history, proc.base, asked)
    BY <2>1 DEF AloneInv
  <2> QED
    BY <1>0, <1>9, <2>1, <2>2
<1>12. CASE Clear
  <2>1. /\ proc' = [proc EXCEPT !.history = <<>>, !.id = NoId, !.alone = FALSE] /\ proc.pc = "ready"
        /\ asked' = asked
    BY <1>12 DEF Clear
  <2>2. proc'.pc = "ready" /\ proc'.base = proc.base /\ proc'.history = <<>>
    BY <1>0, <2>1 DEF ProcFields
  <2> QED
    BY <1>1, <1>3, <2>1, <2>2 DEF AloneInv
<1>13. ASSUME NEW upTo \in Rounds, RewindCode(upTo) PROVE AloneInv'
  <2>1. UNCHANGED <<proc, asked>>
    BY <1>13 DEF RewindCode
  <2> QED
    BY <2>1 DEF AloneInv
<1>14. ASSUME NEW upTo \in Rounds, RewindConversation(upTo) \/ RewindBoth(upTo) PROVE AloneInv'
  <2>1. /\ proc' = [proc EXCEPT !.history = TruncatedTo(proc.history, upTo)] /\ proc.pc = "ready"
        /\ asked' = asked
    BY <1>14 DEF RewindConversation, RewindBoth, CanRewind
  <2>2. /\ proc'.pc = "ready" /\ proc'.base = proc.base /\ proc'.alone = proc.alone
        /\ proc'.history = TruncatedTo(proc.history, upTo)
    BY <1>0, <2>1 DEF ProcFields
  <2>3. upTo \in Nat
    BY LineBoundsAssumption DEF Rounds
  <2>4. ASSUME proc.alone PROVE Counted(TruncatedTo(proc.history, upTo), proc.base, asked)
    <3>1. Counted(proc.history, proc.base, asked) /\ proc.base \in Nat
      BY <2>1, <2>4 DEF AloneInv
    <3> QED
      BY <1>0, <2>3, <3>1, EarlierIsKept
  <2> QED
    BY <1>1, <2>1, <2>2, <2>4 DEF AloneInv
<1> QED
  BY <1>2, <1>4, <1>5, <1>6, <1>7, <1>8, <1>10, <1>11, <1>12, <1>13, <1>14 DEF LineNext

RewindStep ==
  \A upTo \in Rounds : proc.alone /\ (RewindConversation(upTo) \/ RewindBoth(upTo)) =>
    \A m \in ToSet(proc.history) : m.n - proc.base <= upTo => m \in ToSet(proc'.history)

LEMMA RewindKeepsRound == LineInv /\ AloneInv => RewindStep
<1> SUFFICES ASSUME LineInv, AloneInv, NEW upTo \in Rounds, proc.alone,
                    RewindConversation(upTo) \/ RewindBoth(upTo)
             PROVE  \A m \in ToSet(proc.history) :
                      m.n - proc.base <= upTo => m \in ToSet(proc'.history)
  BY DEF RewindStep
<1>1. DOMAIN proc = ProcFields /\ proc.history \in Seq(LineMessage) /\ asked \in Nat
  BY DEF LineInv, IsProc
<1>2. proc' = [proc EXCEPT !.history = TruncatedTo(proc.history, upTo)] /\ proc.pc = "ready"
  BY DEF RewindConversation, RewindBoth, CanRewind
<1>3. proc'.history = TruncatedTo(proc.history, upTo)
  BY <1>1, <1>2 DEF ProcFields
<1>4. Counted(proc.history, proc.base, asked) /\ proc.base \in Nat
  BY <1>2 DEF AloneInv
<1>5. upTo \in Nat
  BY LineBoundsAssumption DEF Rounds
<1>6. KeptFrom(proc.history, TruncatedTo(proc.history, upTo), proc.base, upTo)
  BY <1>1, <1>4, <1>5, EarlierIsKept
<1> QED
  BY <1>3, <1>6 DEF KeptFrom

LEMMA AloneInvInit == LineInit => AloneInv
<1> SUFFICES ASSUME LineInit PROVE AloneInv
  OBVIOUS
<1>1. asked = 0 /\ proc.base = 0 /\ proc.pc = "off" /\ proc.history = <<>>
  BY DEF LineInit, Off
<1> QED
  BY <1>1 DEF AloneInv, Counted

(***************************************************************************)
(* A resume.  With SQLite the rows of a session's files are messages that  *)
(* were saved in it, and when no old file is in the way its database has   *)
(* rows from its first save on.                                            *)
(***************************************************************************)
HasRows(i) == IsFile(db[i]) /\ db[i].rows # <<>>

RowsAreSaved ==
  \A i \in Ids : ToSet(db[i].rows) \subseteq saved[i] /\ ToSet(json[i].rows) \subseteq saved[i]

OldHaveRows == \A i \in Ids : IsFile(json[i]) => json[i].rows # <<>>

SavedHaveRows == \A i \in Ids : json[i].kind = "none" /\ saved[i] # {} => HasRows(i)

InHand ==
  /\ proc.pc = "save" => proc.history # <<>>
  /\ proc.pc \in {"rename", "retire"} => HasRows(proc.cur)

ResumeInv == sqlite => RowsAreSaved /\ OldHaveRows /\ SavedHaveRows /\ InHand

LEMMA ResumedStarts ==
  ASSUME NEW s \in Seq(LineMessage), s # <<>>
  PROVE  s[1] \in ToSet(s) /\ s[1] \in ToSet(Resumed(s))
<1>1. PICK n \in Nat \ {0} : n = Len(s) /\ DOMAIN s = 1..n
  OBVIOUS
<1>2. s[1] \in ToSet(s)
  BY <1>1 DEF ToSet
<1>3. Sample \in Nat \ {0}
  BY LineBoundsAssumption
<1>4. CASE n <= Sample + 2
  BY <1>1, <1>2, <1>4 DEF Resumed
<1>5. CASE ~(n <= Sample + 2)
  <2>1. PICK from : from = IF n - Sample + 1 > 3 THEN n - Sample + 1 ELSE 3
    OBVIOUS
  <2>2. from \in Nat \ {0} /\ n >= 2
    BY <1>3, <1>5, <2>1
  <2>3. Resumed(s) = SubSeq(s, 1, 2) \o SubSeq(s, from, n)
    BY <1>1, <1>5, <2>1 DEF Resumed
  <2>4. PICK a, b : a = SubSeq(s, 1, 2) /\ b = SubSeq(s, from, n)
    OBVIOUS
  <2>5. a \in Seq(LineMessage) /\ b \in Seq(LineMessage)
    <3>1. 1 \in Nat \ {0} /\ 2 \in Int /\ 2 <= Len(s) /\ n \in Int /\ n <= Len(s)
      BY <1>1, <2>2
    <3> QED
      BY <1>1, <2>2, <2>4, <3>1, PartsAreSeqs
  <2>6. ToSet(a \o b) = ToSet(a) \cup ToSet(b)
    BY <2>5, JoinedRows
  <2>7. DOMAIN a = 1..2 /\ a[1] = s[1]
    <3>1. \A i \in 1..2 : s[i] \in LineMessage
      BY <1>1, <2>2
    <3>2. Len(a) = 2 /\ a[1] = s[1]
      BY <2>4, <3>1, SubSeqProperties
    <3> QED
      BY <2>5, <3>2
  <2>8. s[1] \in ToSet(a)
    BY <2>7 DEF ToSet
  <2> QED
    BY <1>2, <2>3, <2>4, <2>6, <2>8
<1> QED
  BY <1>4, <1>5

(* Steps that leave the files, in the order of the process's work.         *)
LEMMA ResumeStays ==
  ASSUME ResumeInv, UNCHANGED <<sqlite, db, json, saved>>,
         proc'.pc \notin {"rename", "retire"}, proc'.pc = "save" => proc'.history # <<>>
  PROVE  ResumeInv'
BY DEF ResumeInv, RowsAreSaved, OldHaveRows, SavedHaveRows, InHand, HasRows

(* A database that is made where none was changes no rows.                 *)
LEMMA NewDatabaseResumes ==
  ASSUME LineInv, ResumeInv, UNCHANGED <<sqlite, saved>>, sqlite => json' = json,
         \A j \in Ids : db'[j] = db[j] \/ (~IsFile(db[j]) /\ db'[j] = File(<<>>)),
         proc'.pc \notin {"rename", "retire", "save"}
  PROVE  ResumeInv'
<1> SUFFICES ASSUME sqlite PROVE ResumeInv'
  BY DEF ResumeInv
<1>1. \A j \in Ids : db'[j].rows = db[j].rows
  <2> SUFFICES ASSUME NEW j \in Ids, ~IsFile(db[j]), db'[j] = File(<<>>) PROVE db'[j].rows = db[j].rows
    OBVIOUS
  <2>1. db[j] \in Stored /\ <<>> \in Seq(LineMessage)
    BY DEF LineInv, FilesTyped
  <2> QED
    BY <2>1, StoredFiles DEF IsFile
<1>2. \A j \in Ids : HasRows(j) => HasRows(j)'
  BY <1>1 DEF HasRows
<1>3. RowsAreSaved' /\ OldHaveRows'
  BY <1>1 DEF ResumeInv, RowsAreSaved, OldHaveRows
<1>4. SavedHaveRows'
  <2> SUFFICES ASSUME NEW j \in Ids, json[j].kind = "none" /\ saved[j] # {} PROVE HasRows(j)'
    BY DEF SavedHaveRows
  <2> QED
    BY <1>2 DEF ResumeInv, SavedHaveRows
<1>5. InHand'
  BY DEF InHand
<1> QED
  BY <1>3, <1>4, <1>5 DEF ResumeInv

(* Messages that come into a database give it rows.                        *)
LEMMA MessagesResume ==
  ASSUME LineInv, ResumeInv, sqlite, NEW i \in Ids, NEW messages \in Seq(LineMessage),
         messages # <<>>, AddMessages(i, messages), sqlite' = sqlite,
         ToSet(messages) \subseteq saved'[i], saved[i] \subseteq saved'[i],
         \A j \in Ids : j # i => saved'[j] = saved[j],
         proc'.pc \in {"rename", "retire"}, proc'.cur = i
  PROVE  ResumeInv'
<1>1. db[i].rows \in Seq(LineMessage) /\ sqlite \in BOOLEAN /\ FilesTyped
  BY StoredFiles DEF LineInv, FilesTyped
<1>2. PICK rows : rows = db[i].rows \o messages
  OBVIOUS
<1>3. rows \in Seq(LineMessage) /\ ToSet(rows) = ToSet(db[i].rows) \cup ToSet(messages)
  BY <1>1, <1>2, JoinedRows
<1>4. rows # <<>>
  BY <1>1, <1>2
<1>5. json' = json /\ db' = [db EXCEPT ![i] = File(rows)]
  BY <1>1, <1>2, AddMessagesGrows
<1>6. /\ db'[i].rows = rows /\ IsFile(db'[i])
      /\ \A j \in Ids : j # i => db'[j] = db[j]
  <2>1. File(rows).rows = rows /\ IsFile(File(rows))
    BY <1>3, StoredFiles DEF IsFile
  <2> QED
    BY <1>1, <1>5, <2>1 DEF FilesTyped
<1>7. HasRows(i)' /\ \A j \in Ids : j # i => HasRows(j)' = HasRows(j)
  BY <1>4, <1>6 DEF HasRows
<1>8. RowsAreSaved'
  <2> SUFFICES ASSUME NEW j \in Ids
               PROVE  ToSet(db'[j].rows) \subseteq saved'[j] /\ ToSet(json'[j].rows) \subseteq saved'[j]
    BY DEF RowsAreSaved
  <2>1. ToSet(db[j].rows) \subseteq saved[j] /\ ToSet(json[j].rows) \subseteq saved[j]
    BY DEF ResumeInv, RowsAreSaved
  <2>2. CASE j = i
    BY <1>3, <1>5, <1>6, <2>1, <2>2
  <2>3. CASE j # i
    BY <1>5, <1>6, <2>1, <2>3
  <2> QED
    BY <2>2, <2>3
<1>9. OldHaveRows'
  BY <1>5 DEF ResumeInv, OldHaveRows
<1>10. SavedHaveRows'
  <2> SUFFICES ASSUME NEW j \in Ids, json[j].kind = "none", saved'[j] # {} PROVE HasRows(j)'
    BY <1>5 DEF SavedHaveRows
  <2> QED
    BY <1>7 DEF ResumeInv, SavedHaveRows
<1>11. InHand'
  BY <1>7 DEF InHand
<1> QED
  BY <1>8, <1>9, <1>10, <1>11 DEF ResumeInv

LEMMA BeginSaveResumes ==
  ASSUME ResumeInv, UNCHANGED <<sqlite, db, json, saved>>, NEW p, NEW i, BeginSave(p, i),
         DOMAIN p = ProcFields, p.history # <<>>
  PROVE  ResumeInv'
<1>1. PICK cur, id : proc' = [p EXCEPT !.pc = "save", !.cur = cur, !.id = id]
  BY DEF BeginSave
<1>2. proc'.pc = "save" /\ proc'.history = p.history
  BY <1>1 DEF ProcFields
<1> QED
  BY <1>2, ResumeStays

LEMMA ResumeInvNext ==
  ASSUME LineInv, ResumeInv, [LineNext]_lineVars
  PROVE  ResumeInv'
<1>0. IsProc(proc) /\ DOMAIN proc = ProcFields /\ proc.history \in Seq(LineMessage) /\ sqlite \in BOOLEAN
  BY DEF LineInv, IsProc
<1>00. \A i \in 1..born : i \in Ids
  BY LineBoundsAssumption DEF LineInv, Ids
<1>1. CASE UNCHANGED lineVars
  <2>1. UNCHANGED <<sqlite, db, json, saved, proc>>
    BY <1>1 DEF lineVars
  <2> QED
    BY <2>1 DEF ResumeInv, RowsAreSaved, OldHaveRows, SavedHaveRows, InHand, HasRows
<1>2. CASE Start
  <2>1. PICK want, todo :
          proc' = [Off EXCEPT !.pc = "migrate", !.want = want, !.base = asked, !.todo = todo]
    BY <1>2 DEF Start
  <2>2. proc'.pc = "migrate" /\ UNCHANGED <<sqlite, db, json, saved>>
    BY <1>2, <2>1 DEF Off, Start
  <2> QED
    BY <2>2, ResumeStays
<1>3. ASSUME NEW i \in Ids, MigrateSkip(i) PROVE ResumeInv'
  <2>1. proc' = [proc EXCEPT !.todo = @ \ {i}] /\ proc.pc = "migrate" /\ UNCHANGED <<sqlite, db, json, saved>>
    BY <1>3 DEF MigrateSkip
  <2>2. proc'.pc = "migrate"
    BY <1>0, <2>1 DEF ProcFields
  <2> QED
    BY <2>1, <2>2, ResumeStays
<1>4. ASSUME NEW i \in Ids, MigrateOpen(i) PROVE ResumeInv'
  <2>1. /\ proc' = [proc EXCEPT !.pc = "fill", !.cur = i, !.todo = @ \ {i}]
        /\ db' = IF sqlite THEN [db EXCEPT ![i] = File(<<>>)] ELSE db
        /\ ~IsFile(db[i]) /\ UNCHANGED <<sqlite, json, saved>>
    BY <1>4 DEF MigrateOpen, OpenStore
  <2>2. proc'.pc = "fill"
    BY <1>0, <2>1 DEF ProcFields
  <2>3. \A j \in Ids : db'[j] = db[j] \/ (~IsFile(db[j]) /\ db'[j] = File(<<>>))
    BY <2>1 DEF LineInv, FilesTyped
  <2> QED
    BY <2>1, <2>2, <2>3, NewDatabaseResumes
<1>5. CASE MigrateFill
  <2> SUFFICES ASSUME sqlite PROVE ResumeInv'
    BY <1>5 DEF MigrateFill, ResumeInv
  <2>0. PICK i : i = proc.cur
    OBVIOUS
  <2>1. /\ proc.pc = "fill" /\ proc' = [proc EXCEPT !.pc = "rename"]
        /\ AddMessages(i, json[i].rows) /\ UNCHANGED <<sqlite, saved>>
    BY <1>5, <2>0 DEF MigrateFill
  <2>2. i \in Ids /\ IsFile(json[i])
    <3>1. i \in 1..born /\ IsFile(json[i])
      BY <2>0, <2>1 DEF LineInv, AtWork
    <3> QED
      BY <1>00, <3>1
  <2>3. PICK rows : rows = json[i].rows
    OBVIOUS
  <2>4. rows \in Seq(LineMessage) /\ rows # <<>> /\ ToSet(rows) \subseteq saved[i]
    <3>1. rows \in Seq(LineMessage)
      BY <2>2, <2>3, StoredFiles DEF LineInv, FilesTyped
    <3> QED
      BY <2>2, <2>3, <3>1 DEF ResumeInv, RowsAreSaved, OldHaveRows
  <2>5. proc'.pc = "rename" /\ proc'.cur = i
    BY <1>0, <2>0, <2>1 DEF ProcFields
  <2> QED
    BY <2>1, <2>2, <2>3, <2>4, <2>5, MessagesResume
<1>6. CASE MigrateRename \/ RetireOld
  <2> SUFFICES ASSUME sqlite PROVE ResumeInv'
    BY <1>6 DEF MigrateRename, RetireOld, ResumeInv
  <2>0. PICK i : i = proc.cur
    OBVIOUS
  <2>1. /\ proc.pc \in {"rename", "retire"} /\ Retire(i)
        /\ \/ proc' = [proc EXCEPT !.pc = "migrate", !.cur = NoId]
           \/ proc' = [proc EXCEPT !.pc = "ready", !.cur = NoId]
        /\ UNCHANGED <<sqlite, saved>>
    BY <1>6, <2>0 DEF MigrateRename, RetireOld
  <2>2. proc'.pc \in {"migrate", "ready"}
    BY <1>0, <2>1 DEF ProcFields
  <2>3. HasRows(i) /\ i \in Ids
    <3>1. i \in 1..born
      BY <2>0, <2>1 DEF LineInv, AtWork
    <3> QED
      BY <1>00, <2>0, <2>1, <3>1 DEF ResumeInv, InHand
  <2>4. db' = db /\ json' = [json EXCEPT ![i] = None]
    BY <2>1 DEF Retire
  <2>5. /\ json'[i] = None /\ None.kind = "none" /\ None.rows = <<>>
        /\ \A j \in Ids : j # i => json'[j] = json[j]
    BY <2>3, <2>4, StoredFiles DEF LineInv, FilesTyped
  <2>6. ToSet(<<>>) = {}
    BY DEF ToSet
  <2>7. RowsAreSaved'
    <3> SUFFICES ASSUME NEW j \in Ids
                 PROVE  ToSet(db[j].rows) \subseteq saved[j] /\ ToSet(json'[j].rows) \subseteq saved[j]
      BY <2>1, <2>4 DEF RowsAreSaved
    <3>1. CASE j = i
      <4>1. ToSet(json'[j].rows) = {}
        BY <2>5, <2>6, <3>1
      <4> QED
        BY <4>1 DEF ResumeInv, RowsAreSaved
    <3>2. CASE j # i
      BY <2>5, <3>2 DEF ResumeInv, RowsAreSaved
    <3> QED
      BY <3>1, <3>2
  <2>8. OldHaveRows' /\ SavedHaveRows' /\ InHand'
    <3>1. \A j \in Ids : HasRows(j)' = HasRows(j)
      BY <2>4 DEF HasRows
    <3>2. OldHaveRows'
      <4>1. ~IsFile(json'[i])
        BY <2>5 DEF IsFile
      <4> QED
        BY <2>5, <4>1 DEF ResumeInv, OldHaveRows
    <3>3. SavedHaveRows'
      BY <2>1, <2>3, <2>5, <3>1 DEF ResumeInv, SavedHaveRows
    <3>4. InHand'
      BY <2>2 DEF InHand
    <3> QED
      BY <3>2, <3>3, <3>4
  <2> QED
    BY <2>7, <2>8 DEF ResumeInv
<1>7. CASE Open
  <2>1. PICK id, alone, history : proc' = [proc EXCEPT !.pc = "ready", !.id = id, !.cmd = id,
                                             !.alone = alone, !.history = history]
    BY <1>7 DEF Open
  <2>2. proc'.pc = "ready"
    BY <1>0, <2>1 DEF ProcFields
  <2>3. \A j \in Ids : db'[j] = db[j] \/ (~IsFile(db[j]) /\ db'[j] = File(<<>>))
    BY <1>7 DEF Open
  <2>4. UNCHANGED <<sqlite, json, saved>>
    BY <1>7 DEF Open
  <2> QED
    BY <2>2, <2>3, <2>4, NewDatabaseResumes
<1>8. CASE Prompt
  <2>1. proc' = [proc EXCEPT !.pc = "turn", !.round = @ + 1] /\ UNCHANGED <<sqlite, saved>>
    BY <1>8 DEF Prompt
  <2>2. proc'.pc = "turn"
    BY <1>0, <2>1 DEF ProcFields
  <2>3. CASE UNCHANGED <<files, born>>
    BY <2>1, <2>2, <2>3, ResumeStays DEF files
  <2>4. CASE UnsavedPoint(born + 1)
    <3>1. PICK i : i = born + 1
      OBVIOUS
    <3>2. /\ i \in Ids /\ i > born
          /\ db' = IF sqlite THEN [db EXCEPT ![i] = File(<<>>)] ELSE db
          /\ sqlite => json' = json
      BY <2>4, <3>1, LineBoundsAssumption DEF UnsavedPoint, Ids, LineInv
    <3>3. ~IsFile(db[i])
      <4>1. db[i] = None
        BY <3>2 DEF LineInv, Untouched
      <4> QED
        BY <4>1, StoredFiles DEF IsFile
    <3>4. \A j \in Ids : db'[j] = db[j] \/ (~IsFile(db[j]) /\ db'[j] = File(<<>>))
      BY <3>2, <3>3 DEF LineInv, FilesTyped
    <3> QED
      BY <2>1, <2>2, <3>2, <3>4, NewDatabaseResumes
  <2> QED
    BY <1>8, <2>3, <2>4 DEF Prompt
<1>9. CASE EndTurn
  <2>0. PICK ending \in {"text", "silent", "cancelled"} :
          LET p == [proc EXCEPT !.pc = "ready", !.history = @ \o TurnMessages(ending)]
          IN (p.history # <<>> /\ BeginSave(p, p.id)) \/ proc' = p
    BY <1>9 DEF EndTurn
  <2>1. PICK p : /\ p = [proc EXCEPT !.pc = "ready", !.history = @ \o TurnMessages(ending)]
                 /\ (p.history # <<>> /\ BeginSave(p, p.id)) \/ proc' = p
    BY <2>0
  <2>2. DOMAIN p = ProcFields /\ p.pc = "ready"
    BY <1>0, <2>1 DEF ProcFields
  <2>3. UNCHANGED <<sqlite, db, json, saved>>
    BY <1>9 DEF EndTurn, files
  <2> QED
    BY <2>1, <2>2, <2>3, BeginSaveResumes, ResumeStays
<1>10. CASE Write
  <2> SUFFICES ASSUME sqlite PROVE ResumeInv'
    BY <1>10 DEF Write, ResumeInv
  <2>0. PICK i, messages : i = proc.cur /\ messages = proc.history
    OBVIOUS
  <2>1. /\ proc.pc = "save" /\ AddMessages(i, <<>> \o messages)
        /\ saved' = [saved EXCEPT ![i] = @ \cup ToSet(messages)]
        /\ proc' = [proc EXCEPT !.pc = "retire", !.cur = proc.cur]
        /\ sqlite' = sqlite
    BY <1>10, <2>0 DEF Write
  <2>2. i \in Ids /\ messages \in Seq(LineMessage) /\ messages # <<>> /\ DOMAIN saved = Ids
    <3>1. i \in 1..born
      BY <2>0, <2>1 DEF LineInv, AtWork
    <3> QED
      BY <1>0, <1>00, <2>0, <2>1, <3>1 DEF ResumeInv, InHand, LineInv, FilesTyped
  <2>3. <<>> \o messages = messages
    BY <2>2
  <2>4. AddMessages(i, messages)
    BY <2>1, <2>3
  <2>5. proc'.pc = "retire" /\ proc'.cur = i
    BY <1>0, <2>0, <2>1 DEF ProcFields
  <2>6. /\ ToSet(messages) \subseteq saved'[i] /\ saved[i] \subseteq saved'[i]
        /\ \A j \in Ids : j # i => saved'[j] = saved[j]
    BY <2>1, <2>2
  <2> QED
    BY <2>1, <2>2, <2>4, <2>5, <2>6, MessagesResume
<1>11. CASE SaveCommand
  <2>1. BeginSave(proc, proc.cmd) /\ proc.history # <<>> /\ UNCHANGED <<sqlite, db, json, saved>>
    BY <1>11 DEF SaveCommand, files
  <2> QED
    BY <1>0, <2>1, BeginSaveResumes
<1>12. CASE Clear
  <2>1. /\ proc' = [proc EXCEPT !.history = <<>>, !.id = NoId, !.alone = FALSE] /\ proc.pc = "ready"
        /\ UNCHANGED <<sqlite, db, json, saved>>
    BY <1>12 DEF Clear, files
  <2>2. proc'.pc = "ready"
    BY <1>0, <2>1 DEF ProcFields
  <2> QED
    BY <2>1, <2>2, ResumeStays
<1>13. ASSUME NEW upTo \in Rounds, RewindCode(upTo) PROVE ResumeInv'
  <2>1. proc' = proc /\ proc.pc = "ready" /\ UNCHANGED <<sqlite, db, json, saved>>
    BY <1>13 DEF RewindCode, CanRewind, files
  <2> QED
    BY <2>1, ResumeStays
<1>14. ASSUME NEW upTo \in Rounds, RewindConversation(upTo) \/ RewindBoth(upTo) PROVE ResumeInv'
  <2>1. /\ proc' = [proc EXCEPT !.history = TruncatedTo(proc.history, upTo)] /\ proc.pc = "ready"
        /\ UNCHANGED <<sqlite, db, json, saved>>
    BY <1>14 DEF RewindConversation, RewindBoth, CanRewind, files
  <2>2. proc'.pc = "ready"
    BY <1>0, <2>1 DEF ProcFields
  <2> QED
    BY <2>1, <2>2, ResumeStays
<1>15. CASE Stop
  <2> SUFFICES ASSUME sqlite PROVE ResumeInv'
    BY <1>15 DEF Stop, ResumeInv
  <2>1. proc'.pc = "off" /\ UNCHANGED <<sqlite, db, json, saved>>
    BY <1>15 DEF Stop, Off
  <2> QED
    BY <2>1, ResumeStays
<1> QED
  BY <1>1, <1>2, <1>3, <1>4, <1>5, <1>6, <1>7, <1>8, <1>9, <1>10, <1>11, <1>12, <1>13, <1>14,
     <1>15 DEF LineNext

LEMMA ResumeInvInit == LineInit => ResumeInv
<1> SUFFICES ASSUME LineInit PROVE ResumeInv
  OBVIOUS
<1>1. PICK old \in {None, File(OldSession)} :
        /\ json  = [i \in Ids |-> IF i = 1 THEN old ELSE None]
        /\ saved = [i \in Ids |-> IF i = 1 THEN ToSet(old.rows) ELSE {}]
  BY DEF LineInit
<1>2. db = [i \in Ids |-> None] /\ proc.pc = "off"
  BY DEF LineInit, Off
<1>3. /\ OldSession \in Seq(LineMessage) /\ OldSession # <<>>
      /\ <<>> \in Seq(LineMessage)
  <2>1. Said("user", 0) \in LineMessage /\ Said("assistant", 0) \in LineMessage
    BY DEF Said, LineMessage
  <2> QED
    BY <2>1 DEF OldSession
<1>4. /\ None.kind = "none" /\ None.rows = <<>> /\ ToSet(<<>>) = {}
      /\ File(OldSession).kind = "file" /\ File(OldSession).rows = OldSession
  BY <1>3, StoredFiles DEF ToSet
<1>5. RowsAreSaved
  <2> SUFFICES ASSUME NEW i \in Ids
               PROVE  ToSet(db[i].rows) \subseteq saved[i] /\ ToSet(json[i].rows) \subseteq saved[i]
    BY DEF RowsAreSaved
  <2>1. ToSet(db[i].rows) = {}
    BY <1>2, <1>4
  <2>2. CASE i = 1
    BY <1>1, <2>1, <2>2
  <2>3. CASE i # 1
    BY <1>1, <1>4, <2>1, <2>3
  <2> QED
    BY <2>2, <2>3
<1>6. OldHaveRows
  BY <1>1, <1>3, <1>4 DEF OldHaveRows, IsFile
<1>7. SavedHaveRows
  <2> SUFFICES ASSUME NEW i \in Ids, json[i].kind = "none", saved[i] # {} PROVE FALSE
    BY DEF SavedHaveRows
  <2>1. i = 1
    BY <1>1
  <2>2. old = None
    BY <1>1, <1>4, <2>1
  <2> QED
    BY <1>1, <1>4, <2>1, <2>2
<1>8. InHand
  BY <1>2 DEF InHand
<1> QED
  BY <1>5, <1>6, <1>7, <1>8 DEF ResumeInv

ResumeStep ==
  /\ Open /\ sqlite /\ proc.want # NoId
  /\ saved[proc.want] # {} /\ json[proc.want].kind = "none"
  => GivesSaved(proc.want, proc'.history)

LEMMA ResumeGives == LineInv /\ ResumeInv => ResumeStep
<1> SUFFICES ASSUME LineInv, ResumeInv, Open, sqlite, proc.want # NoId,
                    saved[proc.want] # {}, json[proc.want].kind = "none"
             PROVE  GivesSaved(proc.want, proc'.history)
  BY DEF ResumeStep
<1>1. PICK i : i = proc.want
  OBVIOUS
<1>2. i \in Ids /\ DOMAIN proc = ProcFields
  <2>1. proc.want \in 0..born /\ born \in 0..MaxIds /\ MaxIds \in Nat /\ DOMAIN proc = ProcFields
    BY LineBoundsAssumption DEF LineInv, IsProc
  <2> QED
    BY <1>1, <2>1 DEF NoId, Ids
<1>3. IsFile(db[i]) /\ db[i].rows # <<>> /\ ToSet(db[i].rows) \subseteq saved[i]
  BY <1>1, <1>2 DEF ResumeInv, SavedHaveRows, HasRows, RowsAreSaved
<1>4. PICK kept : kept = db[i].rows
  OBVIOUS
<1>5. kept \in Seq(LineMessage) /\ kept # <<>>
  BY <1>2, <1>3, <1>4, StoredFiles DEF LineInv, FilesTyped
<1>6. PICK first, id, alone :
        /\ first = <<>> \/ first = <<Digest>>
        /\ proc' = [proc EXCEPT !.pc = "ready", !.id = id, !.cmd = id, !.alone = alone,
                                !.history = first \o Resumed(kept)]
  <2>1. PICK first : /\ first = IF HasCheckpoint(i) THEN <<>> ELSE <<Digest>>
                     /\ first = <<>> \/ first = <<Digest>>
    OBVIOUS
  <2>2. i # NoId /\ (IsFile(db[i]) \/ IsFile(json[i]))
    BY <1>1, <1>3
  <2>3. PICK id, alone : proc' = [proc EXCEPT !.pc = "ready", !.id = id, !.cmd = id, !.alone = alone,
                                             !.history = first \o Resumed(kept)]
    BY <1>1, <1>3, <1>4, <2>1, <2>2 DEF Open
  <2> QED
    BY <2>1, <2>3
<1>7. proc'.history = first \o Resumed(kept)
  BY <1>2, <1>6 DEF ProcFields
<1>8. first \in Seq(LineMessage) /\ Resumed(kept) \in Seq(LineMessage)
  <2>1. Digest \in LineMessage
    BY DEF Digest, Said, LineMessage
  <2>2. Resumed(kept) \in Seq(LineMessage)
    BY <1>5, ResumedIsASeq
  <2>3. <<>> \in Seq(LineMessage) /\ <<Digest>> \in Seq(LineMessage)
    BY <2>1
  <2> QED
    BY <1>6, <2>2, <2>3
<1>9. kept[1] \in ToSet(kept) /\ kept[1] \in ToSet(Resumed(kept))
  BY <1>5, ResumedStarts
<1>10. kept[1] \in ToSet(proc'.history)
  BY <1>7, <1>8, <1>9, JoinedRows
<1> QED
  BY <1>1, <1>3, <1>4, <1>9, <1>10 DEF GivesSaved

----------------------------------------------------------------------------
(* What was said is found again: a session that is resumed starts with     *)
(* messages saved in it, a rewind takes no message of the target round or  *)
(* of an earlier one, what the reasoning found out stays for its lifetime  *)
(* and the best of it is recalled, the files it is about are shown as the  *)
(* program knows them, and both runtimes have the same rounds and          *)
(* checkpoints.                                                            *)
THEOREM WhatWasSaidIsFound == Spec => ConversationKept
<1>1. Init => LineInv /\ AloneInv /\ ResumeInv /\ ThoughtsInv /\ StageInv /\ EntriesInv
  BY LineInvInit, AloneInvInit, ResumeInvInit, ThoughtsInvInit, StageInvInit, EntriesInvInit DEF Init
<1>2. [Next]_sessions => /\ [LineNext]_lineVars /\ [ThoughtsNext]_thoughtVars
                         /\ [StageNext]_stageVars /\ [StoreNext]_storeVars
  BY DEF Next, sessions, FilesStep, TranscriptStep, KnowledgeStep, DigestStep, ThoughtsStep,
         StoreStep, StagedStep
<1>3. LineInv /\ [Next]_sessions => LineInv'
  BY <1>2, LineInvNext
<1>4. LineInv /\ AloneInv /\ [Next]_sessions => AloneInv'
  BY <1>2, AloneInvNext
<1>5. LineInv /\ ResumeInv /\ [Next]_sessions => ResumeInv'
  BY <1>2, ResumeInvNext
<1>6. ThoughtsInv /\ [Next]_sessions => ThoughtsInv'
  BY <1>2, ThoughtsInvNext
<1>7. StageInv /\ [Next]_sessions => StageInv'
  BY <1>2, StageInvNext
<1>8. EntriesInv /\ [Next]_sessions => EntriesInv'
  BY <1>2, EntriesInvNext
<1>9. StageInv => ShownIsKnown
  BY KnownIsShown
<1>10. EntriesInv => EntriesAgree
  BY EntriesAreThere
<1>11. LineInv /\ AloneInv => [RewindStep]_lineVars
  BY RewindKeepsRound
<1>12. LineInv /\ ResumeInv => [ResumeStep]_lineVars
  BY ResumeGives
<1>13. ThoughtsInv /\ [Next]_sessions => [BestStep]_thoughtVars /\ [AgeStep]_thoughtVars
  BY <1>2, RoundRecallsBest, RoundsAge
<1>14. Spec => /\ [][RewindStep]_lineVars /\ [][ResumeStep]_lineVars
               /\ [][BestStep]_thoughtVars /\ [][AgeStep]_thoughtVars
               /\ []ShownIsKnown /\ []EntriesAgree
  BY <1>1, <1>3, <1>4, <1>5, <1>6, <1>7, <1>8, <1>9, <1>10, <1>11, <1>12, <1>13, PTL DEF Spec
<1> QED
  BY <1>14 DEF ConversationKept, RewindKeepsEarlier, ResumeFindsSaved, BestIsRecalled, ColdMemoryAges,
         RewindStep, ResumeStep, BestStep, AgeStep
=============================================================================
