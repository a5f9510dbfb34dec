---------------------------- MODULE LineSession ----------------------------
(***************************************************************************)
(* The line interface's session (ui/cli.ts, ui/commands/definitions.ts,    *)
(* index.ts): the conversation, its session file (session/index.ts,        *)
(* session/sqlite-session.ts), the migration at start                      *)
(* (session/migration.ts), the checkpoints (session/checkpoint.ts) and the *)
(* rewind points (agent/rewind.ts), over starts, exits and crashes.        *)
(*                                                                         *)
(* A session is a file <id>.db under Bun and a file <id>.json under        *)
(* Node.js, which has no SQLite: sqlite says which of the two runs the     *)
(* program.  Ids are numbers in the order of their creation time, which    *)
(* is the order of listSessions; id 0 stands for the empty string, and id  *)
(* 1 is the only one that can have a file of the old format at first.      *)
(*                                                                         *)
(* A message is its author and the number of its prompt, over all starts.  *)
(* The rounds of rewind points are counted by currentRound, which starts   *)
(* again with the process.                                                 *)
(***************************************************************************)
EXTENDS Naturals, Sequences, FiniteSets, SequencesExt

CONSTANTS
  Runtimes,   \* subset of BOOLEAN: whether the runtime has SQLite
  MaxIds,     \* bound on the sessions created
  MaxPrompts, \* bound on the prompts, over all starts
  MaxStarts,  \* bound on the starts of the program
  MaxRows,    \* bound on the rows of a session file
  SaveEvery,  \* history lengths that are multiples of it are saved (5)
  Kept,       \* checkpoints a session keeps (3)
  Sample      \* resume gives the first two and the last Sample messages (4)

ASSUME LineBoundsAssumption ==
  /\ Runtimes \subseteq BOOLEAN
  /\ {MaxIds, MaxPrompts, MaxStarts, MaxRows} \subseteq Nat \ {0}
  /\ {SaveEvery, Kept, Sample} \subseteq Nat \ {0}

NoId    == 0
Ids     == 1..MaxIds
Rounds  == 1..MaxPrompts
Message == [role: {"user", "assistant"}, n: 0..MaxPrompts]
Said(role, n) == [role |-> role, n |-> n]
Digest  == Said("assistant", 0)      \* buildResumeContext
Row     == [round: Rounds, n: Rounds] \* a checkpoint: its round and its prompt
Point   == [round: Rounds, n: Rounds, files: SUBSET {"f"}, tree: 0..MaxPrompts]

\* A file that is not there, and one that a crash left half written.
None == [kind |-> "none", rows |-> <<>>]
Torn == [kind |-> "torn", rows |-> <<>>]
File(rows) == [kind |-> "file", rows |-> rows]
IsFile(f)  == f.kind = "file"

VARIABLES
  sqlite, \* whether the runtime has SQLite
  db,     \* <id>.db, by id: its messages
  json,   \* <id>.json
  bak,    \* <id>.json.bak
  cps,    \* checkpoint rows, by id; in memory only without SQLite
  points, \* files round-<n>.json of the rewind directory, by id
  tree,   \* the user's file: the prompt that changed it last
  proc,   \* the process
  born,   \* sessions created
  asked,  \* prompts given
  starts, \* starts of the program
  blank,  \* the newest session when the database of the empty id was made, or NoId
  saved   \* history: the messages that save was given, by id

lineVars == <<sqlite, db, json, bak, cps, points, tree, proc, born, asked, starts, blank, saved>>
files == <<db, json, bak>>

\* pc        where the process is
\* todo      files the migration still has to look at
\* want      id that "last" resumes, or NoId
\* id, cmd   sessionId, and the copy of it the commands were given
\* round     currentRound;  base  prompts given before this start
\* history   the conversation
\* alone     no resume and no /clear in this process
Off == [pc |-> "off", todo |-> {}, cur |-> NoId, want |-> NoId, id |-> NoId, cmd |-> NoId,
        round |-> 0, base |-> 0, history |-> <<>>, alone |-> TRUE]

Process == [pc: {"off", "migrate", "fill", "rename", "open", "ready", "turn", "save", "retire"},
            todo: SUBSET Ids, cur: Ids \cup {NoId}, want: Ids \cup {NoId},
            id: Ids \cup {NoId}, cmd: Ids \cup {NoId},
            round: 0..MaxPrompts, base: 0..MaxPrompts, history: Seq(Message), alone: BOOLEAN]

IsStored(f) == f \in [kind: {"none", "torn", "file"}, rows: Seq(Message)]

OldSession == <<Said("user", 0), Said("assistant", 0)>>

LineInit ==
  /\ sqlite \in Runtimes
  /\ db  = [i \in Ids |-> None]
  /\ bak = [i \in Ids |-> None]
  /\ \E old \in {None, File(OldSession)} :
       /\ json  = [i \in Ids |-> IF i = 1 THEN old ELSE None]
       /\ saved = [i \in Ids |-> IF i = 1 THEN ToSet(old.rows) ELSE {}]
       /\ born  = IF IsFile(old) THEN 1 ELSE 0
  /\ cps    = [i \in Ids |-> {}]
  /\ points = [i \in Ids |-> {}]
  /\ tree = 0 /\ proc = Off /\ asked = 0 /\ starts = 0 /\ blank = NoId

Largest(S) == CHOOSE x \in S : \A y \in S : y <= x
Smallest(S) == CHOOSE x \in S : \A y \in S : x <= y

(***************************************************************************)
(* Start: "last" picks the newest listed session, the runtime migrates     *)
(* the old files, makes a session of its own and opens the one asked for.  *)
(***************************************************************************)
Listed == {i \in Ids : IsFile(db[i]) \/ IsFile(json[i])}

\* The session "last" stands for: none when the empty id's is the newest, as a start with
\* an empty id resumes nothing.
NewestListed == IF Listed = {} \/ Largest(Listed) <= blank THEN {} ELSE {Largest(Listed)}

Start ==
  /\ proc.pc = "off" /\ starts < MaxStarts
  /\ \E want \in {NoId} \cup NewestListed :
       proc' = [Off EXCEPT !.pc = "migrate", !.want = want, !.base = asked,
                           !.todo = {i \in Ids : json[i].kind # "none"}]
  /\ starts' = starts + 1
  /\ UNCHANGED <<sqlite, blank, db, json, bak, cps, points, tree, born, asked, saved>>

\* Mutant: the old file goes before its messages have arrived.
RenameFirst(i) ==
  /\ db'   = [db EXCEPT ![i] = File(<<>>)]
  /\ bak'  = [bak EXCEPT ![i] = None]
  /\ json' = [json EXCEPT ![i] = None]

\* migrateSession's store: SQLite creates the database, the other writes back what it read
OpenStore(i) ==
  /\ db'   = IF sqlite THEN [db EXCEPT ![i] = File(<<>>)] ELSE db
  /\ UNCHANGED <<json, bak>>

MigrateSkip(i) ==
  /\ proc.pc = "migrate" /\ i \in proc.todo
  /\ IsFile(db[i]) \/ ~IsFile(json[i])
  /\ proc' = [proc EXCEPT !.todo = @ \ {i}]
  /\ UNCHANGED <<sqlite, blank, db, json, bak, cps, points, tree, born, asked, starts, saved>>

MigrateOpen(i) ==
  /\ proc.pc = "migrate" /\ i \in proc.todo
  /\ ~IsFile(db[i]) /\ IsFile(json[i])
  /\ OpenStore(i)
  /\ proc' = [proc EXCEPT !.pc = "fill", !.cur = i, !.todo = @ \ {i}]
  /\ UNCHANGED <<sqlite, blank, cps, points, tree, born, asked, starts, saved>>

\* addMessages: the store of the other runtime has loaded the same file already
AddMessages(i, messages) ==
  /\ db'   = IF sqlite THEN [db EXCEPT ![i] = File(@.rows \o messages)] ELSE db
  /\ json' = IF sqlite THEN json ELSE [json EXCEPT ![i] = File(@.rows \o messages)]
  /\ bak'  = bak

MigrateFill ==
  /\ proc.pc = "fill"
  /\ AddMessages(proc.cur, json[proc.cur].rows)
  /\ proc' = [proc EXCEPT !.pc = "rename"]
  /\ UNCHANGED <<sqlite, blank, cps, points, tree, born, asked, starts, saved>>

Retire(i) ==
  /\ bak'  = IF json[i].kind = "none" THEN bak ELSE [bak EXCEPT ![i] = json[i]]
  /\ json' = [json EXCEPT ![i] = None]
  /\ db'   = db

MigrateRename ==
  /\ proc.pc = "rename"
  /\ Retire(proc.cur)
  /\ proc' = [proc EXCEPT !.pc = "migrate", !.cur = NoId]
  /\ UNCHANGED <<sqlite, blank, cps, points, tree, born, asked, starts, saved>>

\* Mutant: a short conversation is not resumed.
ResumedLong(messages) ==
  LET n == Len(messages)
      from == IF n - Sample + 1 > 3 THEN n - Sample + 1 ELSE 3
  IN IF n <= Sample + 2 THEN <<>>
     ELSE SubSeq(messages, 1, 2) \o SubSeq(messages, from, n)

\* resumeMessages
Resumed(messages) ==
  LET n == Len(messages)
      from == IF n - Sample + 1 > 3 THEN n - Sample + 1 ELSE 3
  IN IF n <= Sample + 2 THEN messages
     ELSE SubSeq(messages, 1, 2) \o SubSeq(messages, from, n)

\* lastCheckpoint of a session: its rewind points have no file hashes to disagree with
HasCheckpoint(i) == sqlite /\ cps[i] # {}

\* startCLI: load what was asked for, and give both sessions a store
Open ==
  /\ proc.pc = "migrate" /\ proc.todo = {} /\ born < MaxIds
  /\ LET fresh == born + 1
         found == proc.want # NoId /\ (IsFile(db[proc.want]) \/ IsFile(json[proc.want]))
         kept  == IF ~found THEN <<>>
                  ELSE IF IsFile(db[proc.want]) THEN db[proc.want].rows ELSE json[proc.want].rows
         id    == IF proc.want = NoId THEN fresh ELSE proc.want
     IN /\ proc' = [proc EXCEPT !.pc = "ready", !.id = id, !.cmd = id,
                      !.alone = proc.want = NoId,
                      !.history = IF ~found THEN <<>>
                                  ELSE (IF HasCheckpoint(proc.want) THEN <<>> ELSE <<Digest>>)
                                       \o Resumed(kept)]
        /\ born' = fresh
        /\ db'  = [i \in Ids |-> IF sqlite /\ i \in {fresh, id} /\ ~IsFile(db[i])
                                 THEN File(<<>>) ELSE db[i]]
        /\ cps' = IF sqlite THEN cps ELSE [i \in Ids |-> {}]
  /\ UNCHANGED <<sqlite, blank, json, bak, points, tree, asked, starts, saved>>

(***************************************************************************)
(* A prompt: a rewind point, the turn, and now and then a save.            *)
(***************************************************************************)
\* saveCheckpoint: the rows with the largest rounds stay, equal rounds in any order
KeepsLast(all, rows) ==
  /\ rows \subseteq all
  /\ Cardinality(rows) = IF Cardinality(all) < Kept THEN Cardinality(all) ELSE Kept
  /\ \A r \in rows, o \in all \ rows : r.round >= o.round

undoStack == {}  \* the paths startCLI's undo stack holds: nothing pushes to it

\* saveRewindPoint
SaveRewindPoint(i, number, n) ==
  /\ points' = [points EXCEPT ![i] = {p \in @ : p.round # number}
                 \cup {[round |-> number, n |-> n, files |-> undoStack, tree |-> tree]}]
  /\ \E rows \in SUBSET (cps[i] \cup {[round |-> number, n |-> n]}) :
       /\ KeepsLast(cps[i] \cup {[round |-> number, n |-> n]}, rows)
       /\ cps' = [cps EXCEPT ![i] = rows]

\* a store for a name of its own when the session has no id
UnsavedPoint(i) ==
  /\ born < MaxIds /\ born' = i
  /\ db'   = IF sqlite THEN [db EXCEPT ![i] = File(<<>>)] ELSE db
  /\ json' = IF sqlite THEN json ELSE [json EXCEPT ![i] = File(<<>>)]
  /\ bak'  = bak

Prompt ==
  /\ proc.pc = "ready" /\ asked < MaxPrompts
  /\ asked' = asked + 1
  /\ proc' = [proc EXCEPT !.pc = "turn", !.round = @ + 1]
  /\ \/ proc.id # NoId /\ UNCHANGED <<files, born>>
     \/ proc.id = NoId /\ UnsavedPoint(born + 1)
  /\ SaveRewindPoint(IF proc.id = NoId THEN born + 1 ELSE proc.id, proc.round + 1, asked + 1)
  /\ UNCHANGED <<sqlite, blank, tree, starts, saved>>

\* what runTurn leaves in the history: a cancelled plan leaves nothing
TurnMessages(ending) ==
  CASE ending = "text"      -> <<Said("user", asked), Said("assistant", asked)>>
    [] ending = "silent"    -> <<Said("user", asked)>>
    [] ending = "cancelled" -> <<>>

\* persistSession: the session it can load, or else a new one
CanLoad(i) == IF sqlite THEN IsFile(db[i]) ELSE IsFile(json[i])

BeginSave(p, i) ==
  LET target == IF i # NoId /\ CanLoad(i) THEN i ELSE born + 1
  IN /\ target <= MaxIds
     /\ born' = IF target = i THEN born ELSE target
     /\ proc' = [p EXCEPT !.pc = "save", !.cur = target,
                          !.id = IF target = i THEN @ ELSE target]
     /\ cps'  = IF sqlite \/ target = i THEN cps ELSE [j \in Ids |-> {}]

EndTurn ==
  /\ proc.pc = "turn"
  /\ \E ending \in {"text", "silent", "cancelled"} :
       LET p == [proc EXCEPT !.pc = "ready", !.history = @ \o TurnMessages(ending)]
       IN IF p.history # <<>> /\ Len(p.history) % SaveEvery = 0
          THEN BeginSave(p, p.id)
          ELSE proc' = p /\ UNCHANGED <<cps, born>>
  /\ tree' \in {tree, asked}
  /\ UNCHANGED <<sqlite, blank, files, points, asked, starts, saved>>

\* load, which saves what it has read without SQLite, and then save
Write ==
  /\ proc.pc = "save"
  /\ LET i == proc.cur
         once == IF sqlite \/ ~IsFile(json[i]) THEN <<>> ELSE json[i].rows
     IN /\ Len((IF sqlite THEN db[i].rows ELSE json[i].rows) \o once \o proc.history) <= MaxRows
        /\ AddMessages(i, once \o proc.history)
        /\ saved' = [saved EXCEPT ![i] = @ \cup ToSet(proc.history)]
        /\ proc' = [proc EXCEPT !.pc = IF sqlite THEN "retire" ELSE "ready",
                             !.cur = IF sqlite THEN @ ELSE NoId]
  /\ UNCHANGED <<sqlite, blank, cps, points, tree, born, asked, starts>>

RetireOld ==
  /\ proc.pc = "retire"
  /\ Retire(proc.cur)
  /\ proc' = [proc EXCEPT !.pc = "ready", !.cur = NoId]
  /\ UNCHANGED <<sqlite, blank, cps, points, tree, born, asked, starts, saved>>

(***************************************************************************)
(* The commands.                                                           *)
(***************************************************************************)
SaveCommand ==
  /\ proc.pc = "ready" /\ proc.history # <<>>
  /\ BeginSave(proc, proc.cmd)
  /\ UNCHANGED <<sqlite, blank, files, points, tree, asked, starts, saved>>

\* switchSession(""): SQLite makes a database of that name, once
Clear ==
  /\ proc.pc = "ready"
  /\ proc' = [proc EXCEPT !.history = <<>>, !.id = NoId, !.alone = FALSE]
  /\ cps' = IF sqlite THEN cps ELSE [i \in Ids |-> {}]
  /\ blank' = IF sqlite /\ blank = NoId THEN born ELSE blank
  /\ UNCHANGED <<sqlite, files, points, tree, born, asked, starts, saved>>

\* Mutant: cuts before the target round's prompt.
CutsBefore(history, upTo) ==
  LET later == {k \in DOMAIN history : /\ history[k].role = "user"
                  /\ Cardinality({j \in 1..k : history[j].role = "user"}) >= upTo}
  IN IF later = {} THEN history ELSE SubSeq(history, 1, Smallest(later) - 1)

\* truncateHistoryToRound: the first prompt beyond the round, counted from the start
TruncatedTo(history, upTo) ==
  LET later == {k \in DOMAIN history : /\ history[k].role = "user"
                  /\ Cardinality({j \in 1..k : history[j].role = "user"}) > upTo}
  IN IF later = {} THEN history ELSE SubSeq(history, 1, Smallest(later) - 1)

CanRewind(upTo) ==
  proc.pc = "ready" /\ proc.id # NoId /\ \E c \in cps[proc.id] : c.round = upTo

\* executeRewind's code mode: the files of the point's snapshot
Restored(upTo) ==
  IF \E p \in points[proc.id] : p.round = upTo /\ "f" \in p.files
  THEN (CHOOSE p \in points[proc.id] : p.round = upTo).tree ELSE tree

RewindCode(upTo) ==
  /\ CanRewind(upTo)
  /\ tree' = Restored(upTo)
  /\ UNCHANGED <<sqlite, blank, files, cps, points, proc, born, asked, starts, saved>>

RewindConversation(upTo) ==
  /\ CanRewind(upTo)
  /\ proc' = [proc EXCEPT !.history = TruncatedTo(@, upTo)]
  /\ tree' = tree
  /\ UNCHANGED <<sqlite, blank, files, cps, points, born, asked, starts, saved>>

RewindBoth(upTo) ==
  /\ CanRewind(upTo)
  /\ tree' = Restored(upTo)
  /\ proc' = [proc EXCEPT !.history = TruncatedTo(@, upTo)]
  /\ UNCHANGED <<sqlite, blank, files, cps, points, born, asked, starts, saved>>

\* exit, or a crash that may cut a file being written in two
Stop ==
  /\ proc.pc # "off"
  /\ proc' = Off
  /\ \/ UNCHANGED json
     \/ /\ ~sqlite /\ proc.pc \in {"fill", "save"}
        /\ json' = [json EXCEPT ![proc.cur] = Torn]
  /\ cps' = IF sqlite THEN cps ELSE [i \in Ids |-> {}]
  /\ UNCHANGED <<sqlite, blank, db, bak, points, tree, born, asked, starts, saved>>

LineNext ==
  \/ Start \/ MigrateFill \/ MigrateRename \/ Open
  \/ \E i \in Ids : MigrateSkip(i) \/ MigrateOpen(i)
  \/ Prompt \/ EndTurn \/ Write \/ RetireOld
  \/ SaveCommand \/ Clear
  \/ \E upTo \in Rounds : RewindCode(upTo) \/ RewindConversation(upTo) \/ RewindBoth(upTo)
  \/ Stop

(***************************************************************************)
(* Properties.                                                             *)
(***************************************************************************)
\* What the files of a session hold, the retired one included.
OnDisk(i) == ToSet(db[i].rows) \cup ToSet(json[i].rows) \cup ToSet(bak[i].rows)

\* Every message that was saved stays in a file of its session, through the
\* migration and a crash between any two of its steps; without SQLite a crash in
\* a write may tear the one file there is.
NothingDropped ==
  \A i \in Ids : sqlite \/ json[i].kind # "torn" => saved[i] \subseteq OnDisk(i)

GivesSaved(i, history) == \E m \in ToSet(history) : m \in saved[i]

\* With SQLite the conversation "last" opens holds messages that were saved in its
\* session, unless a migration that was cut short has left an empty database in
\* front of the old file.
ResumeFindsSaved ==
  [][/\ Open /\ sqlite /\ proc.want # NoId
     /\ saved[proc.want] # {} /\ json[proc.want].kind = "none"
     => GivesSaved(proc.want, proc'.history)]_lineVars

\* In such a process a rewind of the conversation never takes a message of the
\* target round or of an earlier one, whatever was cancelled or rewound before.
RewindKeepsEarlier ==
  [][\A upTo \in Rounds : proc.alone /\ (RewindConversation(upTo) \/ RewindBoth(upTo)) =>
       \A m \in ToSet(proc.history) : m.n - proc.base <= upTo => m \in ToSet(proc'.history)]_lineVars

\* session/sqlite-session.ts:34 says that Node.js falls back to JSON session
\* persistence: what was saved is there when the newest session is resumed.
ResumedAsSaved ==
  [][Open /\ proc.want # NoId /\ saved[proc.want] # {}
     => GivesSaved(proc.want, proc'.history)]_lineVars

\* agent/rewind.ts:4 says that a code-only rewind restores files to checkpoint
\* state: it would give the user's file as it was at the point.
RewindRestoresFiles ==
  \A upTo \in Rounds : CanRewind(upTo) =>
    \E p \in points[proc.id] : p.round = upTo /\ Restored(upTo) = p.tree

=============================================================================
