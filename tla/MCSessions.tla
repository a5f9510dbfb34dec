------------------------------ MODULE MCSessions ------------------------------
(* Small instances of the modules on what a session keeps, in one run: they share   *)
(* nothing, so each is explored with the others as they start.                      *)
EXTENDS LineSession, Transcript, Knowledge, Compactor, Thoughts, SessionStore, StagedContext

VARIABLE part \* the module that is explored

sessions == <<part, lineVars, transcriptVars, knowledgeVars, compactorVars, thoughtVars, storeVars, stageVars>>

Either == BOOLEAN
SomePaths == {"a", "./a", "b"}
Leads == [n \in SomePaths |-> IF n = "b" THEN "B" ELSE "A"]
Shortest == ("A" :> "a" @@ "B" :> "b")
Ranks == [n \in SomePaths |-> IF n = "b" THEN 0 ELSE 1]
Found(mark, text) == [m \in Marks |-> IF m = mark THEN {text} ELSE {}]
SomeOutcomes == {Found("open", "why"), Found("verified", "why"), Found("discarded", "long")}
Exchange == <<Text("user", 4), Text("assistant", 4)>>
SomeWordings == {{"port"}, {"report", "ports", "re-port"}}
Begins == {<<"port", "port">>, <<"port", "ports">>, <<"port", "re-port">>,
           <<"ports", "ports">>, <<"report", "report">>, <<"re-port", "re-port">>}
Parts == Begins \cup {<<"port", "report">>}
SomeQueries == {<<"port">>, <<"port", "ports">>, <<"re-port">>}
SomeHistories ==
  {<<Text("user", 20)>>, Exchange \o Exchange,
   <<Text("user", 30), Text("assistant", 4), Text("user", 4)>>,
   <<Text("user", 30), Text("assistant", 30), Text("user", 4)>>}

Init ==
  /\ part \in {"files", "transcript", "knowledge", "digest", "recall", "ageing", "store", "staged"}
  /\ LineInit /\ TranscriptInit /\ KnowledgeInit /\ CompactorInit /\ ThoughtsInit
  /\ StoreInit /\ StageInit
  /\ part # "files" => sqlite /\ born = 0
  /\ part # "knowledge" => keeper = "knowledge"
  /\ carriesOver = (part = "ageing")

FilesStep == LineNext /\ UNCHANGED <<part, stageVars, thoughtVars, storeVars, transcriptVars, knowledgeVars, compactorVars>>
TranscriptStep == TranscriptNext /\ UNCHANGED <<part, stageVars, thoughtVars, storeVars, lineVars, knowledgeVars, compactorVars>>
KnowledgeStep == KnowledgeNext /\ UNCHANGED <<part, stageVars, thoughtVars, storeVars, lineVars, transcriptVars, compactorVars>>
DigestStep == CompactorNext /\ UNCHANGED <<part, stageVars, thoughtVars, storeVars, lineVars, transcriptVars, knowledgeVars>>
ThoughtsStep ==
  ThoughtsNext /\ UNCHANGED <<part, stageVars, lineVars, transcriptVars, knowledgeVars, compactorVars, storeVars>>

StoreStep ==
  StoreNext /\ UNCHANGED <<part, stageVars, thoughtVars, lineVars, transcriptVars, knowledgeVars, compactorVars>>

StagedStep ==
  StageNext /\ UNCHANGED <<part, lineVars, transcriptVars, knowledgeVars, compactorVars,
                           thoughtVars, storeVars>>

\* Messages, rounds and checkpoints share nothing in the store: each is explored without
\* the others.
OneTable ==
  Cardinality({t \in {"messages", "rounds", "points"} : database'[t] # <<>>}) <= 1

\* The cold memory ages over more runs when these only reason, on one request.
OnlyReasons ==
  /\ request' \in {NoRequest, "fix"} /\ roundOf' <= 2
  /\ \A i \in DOMAIN records' : records'[i].kind # "tool_result" /\ records'[i].query # "port"

\* A file of three lines is explored for programs that follow one another, without a table
\* and with one answer.
ThreeLinesAlone ==
  \/ /\ Len(file') <= 2
     /\ Len(file') > Len(file) => Len(file) < 2 /\ Cardinality(learnt) < 2
  \/ /\ ~met' /\ keeper = "knowledge" /\ table' = "absent"
     /\ Cardinality({e.answer : e \in learnt'}) <= 1

Next ==
  \/ part = "files" /\ FilesStep
  \/ part = "transcript" /\ TranscriptStep
  \/ part = "knowledge" /\ KnowledgeStep /\ ThreeLinesAlone
  \/ part = "digest" /\ DigestStep
  \/ part = "recall" /\ ThoughtsStep /\ Len(records') <= 4 /\ day' <= 1
  \/ part = "ageing" /\ ThoughtsStep /\ OnlyReasons
  \/ part = "store" /\ StoreStep /\ OneTable
  \/ part = "staged" /\ StagedStep

Spec == Init /\ [][Next]_sessions

\* What was said is found again: a session that is resumed starts with messages saved in
\* it, a rewind takes no message of the target round or of an earlier one, and what the
\* reasoning found out stays until its time is over and is recalled when it is like the
\* request. The files it is about are shown as the program knows them, and both runtimes
\* have the same rounds and checkpoints.
ConversationKept ==
  /\ ResumeFindsSaved /\ RewindKeepsEarlier /\ ColdMemoryAges /\ BestIsRecalled
  /\ []ShownIsKnown /\ []EntriesAgree

\* What was saved stays: no migration or crash takes a message out of the files of its
\* session, calls arrive whole, and both runtimes give them back alike.
SavedStays == NothingDropped /\ WholeBatches /\ PagesAgree
=============================================================================
