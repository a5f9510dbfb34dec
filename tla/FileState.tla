------------------------------ MODULE FileState ------------------------------
(***************************************************************************)
(* What the program remembers of the files the agent has read and written,   *)
(* and the edits that would be authorised by it: FileStateLedger             *)
(* (src/src/file-state/file-state-ledger.ts), the records read_file and the    *)
(* writing tools make (src/src/tools/file.ts), and validateFreshnessForEdit    *)
(* (freshness-gate.ts).  The tools keep the ledger; no tool asks the gate yet.  *)
(*                                                                           *)
(* A fingerprint is the content it was taken of: sha256 is the only part that *)
(* is compared.  A tool takes it after it has read or written, so whoever      *)
(* changes the file in between is taken for what the tool saw.                *)
(***************************************************************************)
CONSTANTS
  LedgerFiles, \* no logs of the program's own runs: read_file hides those
  Bodies,      \* contents a file may have
  Large,       \* those of more than LARGE_FILE_LINES lines
  Gone,        \* what a file that does not exist holds
  Nobody       \* no record, no tool, no edit

ASSUME FileStateAssumption ==
  /\ Large \subseteq Bodies
  /\ Gone \notin Bodies /\ Nobody \notin Bodies

VARIABLES
  holds,      \* content of each file on disk
  inHand,     \* what a tool has read or written and not recorded yet
  ledger,     \* records of the FileStateLedger
  noted,      \* how, and at which content, the file was last recorded
  lapsed,     \* files whose record has been found stale or deleted since
  authorised  \* the edit the gate has just authorised

fileVars == <<holds, inHand, ledger, noted, lapsed, authorised>>

Ranges == {"full", "range"}
Requirements == [file : LedgerFiles, operation : {"patch", "overwrite", "create"},
          requiresFull : BOOLEAN, allowsPartial : BOOLEAN]

FileStateTypeOK ==
  /\ holds \in [LedgerFiles -> Bodies \cup {Gone}]
  /\ inHand \in [LedgerFiles ->
       [tool : {"read", "write"}, body : Bodies, range : Ranges] \cup {Nobody}]
  /\ ledger \in [LedgerFiles ->
       [range : Ranges, baseline : Bodies, source : {"read_file", "agent_write", "external_change"},
        status : {"fresh", "partial", "truncated", "stale", "deleted"}] \cup {Nobody}]
  /\ noted \in [LedgerFiles -> [how : {"whole", "part", "digest"}, body : Bodies] \cup {Nobody}]
  /\ lapsed \subseteq LedgerFiles
  /\ authorised \in Requirements \cup {Nobody}

FileStateInit ==
  /\ holds \in [LedgerFiles -> Bodies \cup {Gone}]
  /\ inHand = [f \in LedgerFiles |-> Nobody]
  /\ ledger = [f \in LedgerFiles |-> Nobody]
  /\ noted = [f \in LedgerFiles |-> Nobody]
  /\ lapsed = {} /\ authorised = Nobody

StatusForRead(range, truncated) ==
  IF truncated THEN "truncated" ELSE IF range = "range" THEN "partial" ELSE "fresh"

Record(f, range, baseline, source, status) ==
  ledger' = [ledger EXCEPT ![f] =
    [range |-> range, baseline |-> baseline, source |-> source, status |-> status]]

\* What the agent gets to know of the file, and how.
Note(f, how, body) ==
  /\ noted' = [noted EXCEPT ![f] = [how |-> how, body |-> body]]
  /\ lapsed' = lapsed \ {f}

\* read_file up to its await; a file that is missing is refused.
StartRead(f, range) ==
  /\ inHand[f] = Nobody /\ holds[f] # Gone
  /\ inHand' = [inHand EXCEPT ![f] = [tool |-> "read", body |-> holds[f], range |-> range]]
  /\ authorised' = Nobody
  /\ UNCHANGED <<holds, ledger, noted, lapsed>>

\* fingerprintFile: Gone is its null.
FingerprintFile(f) == holds[f]

\* recordRuntimeFileRead: without a file there is no record.
RecordRuntimeFileRead(f, range, digest) ==
  LET baseline == FingerprintFile(f)
      how == IF digest THEN "digest" ELSE IF range = "range" THEN "part" ELSE "whole"
  IN IF baseline = Gone THEN UNCHANGED <<ledger, noted, lapsed>>
     ELSE /\ Record(f, range, baseline, "read_file", StatusForRead(range, digest))
          /\ Note(f, how, baseline)

\* The rest of read_file: a large file of which no part was asked for is answered by an
\* analysis of it.
FinishRead(f) ==
  /\ inHand[f] # Nobody /\ inHand[f].tool = "read"
  /\ RecordRuntimeFileRead(f, inHand[f].range, inHand[f].body \in Large /\ inHand[f].range = "full")
  /\ inHand' = [inHand EXCEPT ![f] = Nobody]
  /\ authorised' = Nobody
  /\ UNCHANGED holds

\* A writing tool commits its transaction; its other steps are PatchTransaction's.
CommitWrite(f, body) ==
  /\ inHand[f] = Nobody
  /\ holds' = [holds EXCEPT ![f] = body]
  /\ inHand' = [inHand EXCEPT ![f] = [tool |-> "write", body |-> body, range |-> "full"]]
  /\ authorised' = Nobody
  /\ UNCHANGED <<ledger, noted, lapsed>>

\* recordRuntimeFileWrite: what is on disk now, else what was written.
RecordWrite(f) ==
  LET body == IF FingerprintFile(f) = Gone THEN inHand[f].body ELSE FingerprintFile(f)
  IN /\ inHand[f] # Nobody /\ inHand[f].tool = "write"
     /\ Record(f, "full", body, "agent_write", "fresh")
     /\ Note(f, "whole", body)
     /\ inHand' = [inHand EXCEPT ![f] = Nobody]
     /\ authorised' = Nobody
     /\ UNCHANGED holds

\* The user, or a program: it writes the file or deletes it.
ChangeFile(f, body) ==
  /\ holds' = [holds EXCEPT ![f] = body]
  /\ authorised' = Nobody
  /\ UNCHANGED <<inHand, ledger, noted, lapsed>>

\* Mutant: a record that was found stale is up to date again.
LapsedRefreshed(record, status, current) ==
  [record EXCEPT !.status = status, !.baseline = IF status = "stale" THEN current ELSE @]

\* A record that no longer fits the file keeps its baseline and its range.
Lapsed(record, status, current) ==
  [record EXCEPT !.status = status,
                 !.source = IF status = "stale" THEN "external_change" ELSE @]

\* checkFresh: the record after it, against the content on disk. It is "ok" when the
\* two agree. Of a record that was found stale or deleted, only the range tells what
\* it was once of: one of an analysis is then fresh.
Checked(record, current) ==
  IF current = Gone THEN Lapsed(record, "deleted", current)
  ELSE IF record.baseline # current THEN Lapsed(record, "stale", current)
  ELSE [record EXCEPT !.status = StatusForRead(record.range, record.status = "truncated")]

CheckFresh(f) ==
  /\ IF ledger[f] = Nobody THEN UNCHANGED <<ledger, lapsed>>
     ELSE /\ ledger' = [ledger EXCEPT ![f] = Checked(ledger[f], holds[f])]
          /\ lapsed' = IF holds[f] = ledger[f].baseline THEN lapsed ELSE lapsed \cup {f}
  /\ UNCHANGED <<holds, inHand, noted>>

\* markExternalChange: whoever saw the file change says so.
MarkExternalChange(f) ==
  /\ ledger[f] # Nobody
  /\ ledger' = [ledger EXCEPT ![f] = Lapsed(ledger[f], "stale", holds[f])]
  /\ lapsed' = lapsed \cup {f}
  /\ authorised' = Nobody
  /\ UNCHANGED <<holds, inHand, noted>>

\* validateFreshnessForEdit after checkFresh has said "ok" of the record.
Authorises(record, edit) ==
  /\ record.status # "truncated"
  /\ record.range = "full" \/ (~edit.requiresFull /\ edit.allowsPartial /\ edit.operation # "overwrite")

\* validateFreshnessForEdit: a file that is created must not exist; any other edit
\* checks the record, and with it brings it up to date.
ValidateFreshness(edit) ==
  LET f == edit.file
      agrees == ledger[f] # Nobody /\ holds[f] = ledger[f].baseline
  IN IF edit.operation = "create"
     THEN /\ authorised' = IF holds[f] = Gone THEN edit ELSE Nobody
          /\ UNCHANGED <<holds, inHand, ledger, noted, lapsed>>
     ELSE /\ CheckFresh(f)
          /\ authorised' = IF agrees /\ Authorises(Checked(ledger[f], holds[f]), edit) THEN edit ELSE Nobody

FileStateNext ==
  \/ \E f \in LedgerFiles :
       \/ \E range \in Ranges : StartRead(f, range)
       \/ FinishRead(f) \/ RecordWrite(f) \/ MarkExternalChange(f)
       \/ CheckFresh(f) /\ authorised' = Nobody
       \/ \E body \in Bodies : CommitWrite(f, body)
       \/ \E body \in Bodies \cup {Gone} : ChangeFile(f, body)
  \/ \E edit \in Requirements : ValidateFreshness(edit)

-----------------------------------------------------------------------------
\* Whatever was read, written and changed in which order: an edit is authorised only of
\* a file that holds what it held when the agent last read or wrote it, and, unless the
\* edit makes do with a part, the agent then had the whole of it. A file it had only an
\* analysis of is not edited unless that record was given up in between (the record
\* forgets then what it was of). And a file that exists is not created.
EditsAreInformed == authorised # Nobody =>
  LET f == authorised.file
  IN IF authorised.operation = "create" THEN holds[f] = Gone
     ELSE /\ holds[f] = noted[f].body
          /\ noted[f].how = "part" => authorised.operation = "patch" /\ authorised.allowsPartial
          /\ noted[f].how = "digest" => f \in lapsed
=============================================================================
