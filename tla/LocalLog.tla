------------------------------- MODULE LocalLog -------------------------------
(***************************************************************************)
(* The local capture of src/integrations: the client's plugin appends      *)
(* lines to events.jsonl, ingest.py (one pass at a time, by launchd)       *)
(* applies them to discord.db from a saved offset and rotates the file,    *)
(* and discord-mcp/server.py indexes what has a newer rev, next to what    *)
(* the bot sees and what Discord's export holds.  One message; a line's    *)
(* number stands for the text it carries, and offsets count lines.         *)
(***************************************************************************)
EXTENDS Naturals, Sequences, SequencesExt

CONSTANTS
  MaxLines,          \* BOUND: lines written
  RotateAt,          \* lines at which the file is rotated
  MaxLogFaults       \* BOUND: passes that die

ASSUME LogBounds == {MaxLines, MaxLogFaults} \subseteq Nat /\ RotateAt \in Nat \ {0}

VARIABLES
  lines,             \* [1..MaxLines -> op]: what was written, "none" yet
  pen,               \* the append under way: the file it opened, and its line
  file, exists,      \* events.jsonl
  rotated,           \* the file renamed
  offset, rev,       \* meta of discord.db
  stored,            \* the message's row: [text, deleted, rev]
  pass,              \* ingest: [at, upto]
  entry,             \* the index: [source, text, deleted]
  lastRev, botSeen,  \* meta last_local_rev, last_synced_id
  taken,             \* history: lines applied
  dropped,           \* history: lines lost with a rotation
  cut,               \* history: a pass died between the rename and the reset
  logFaults

logFiles == <<lines, pen, file, exists, rotated>>
logIndex == <<entry, lastRev, botSeen>>
logVars == <<logFiles, offset, rev, stored, pass, logIndex, taken, dropped, cut, logFaults>>

LineNo == 1..MaxLines
Missing == [text |-> 0, deleted |-> FALSE, rev |-> 0]
NotIndexed == [source |-> "none", text |-> 0, deleted |-> FALSE]

LogTypeOK ==
  /\ lines \in [LineNo -> {"none", "create", "update", "delete"}]
  /\ pen \in [on : {"up", "file", "rotated", "gone"}, line : 0..MaxLines]
  /\ file \in Seq(LineNo) /\ exists \in BOOLEAN /\ rotated \in Seq(LineNo)
  /\ offset \in 0..MaxLines /\ rev \in Nat
  /\ stored \in [text : 0..MaxLines, deleted : BOOLEAN, rev : Nat]
  /\ pass \in [at : {"idle", "save", "rename", "drain", "remove", "reset"}, upto : 0..MaxLines]
  /\ entry \in [source : {"none", "export", "local", "bot"}, text : 0..MaxLines, deleted : BOOLEAN]
  /\ lastRev \in Nat /\ botSeen \in BOOLEAN
  /\ taken \subseteq LineNo /\ dropped \subseteq LineNo /\ cut \in BOOLEAN
  /\ logFaults \in 0..MaxLogFaults

LogInit ==
  /\ lines = [n \in LineNo |-> "none"] /\ pen = [on |-> "up", line |-> 0]
  /\ file = <<>> /\ exists = FALSE /\ rotated = <<>>
  /\ offset = 0 /\ rev = 0 /\ stored = Missing /\ pass = [at |-> "idle", upto |-> 0]
  /\ entry = NotIndexed /\ lastRev = 0 /\ botSeen = FALSE
  /\ taken = {} /\ dropped = {} /\ cut = FALSE /\ logFaults = 0

-----------------------------------------------------------------------------
(* The plugin: appendFile opens by name and writes to what it opened.      *)

LinesWritten == {n \in LineNo : lines[n] # "none"}

OpensFile(op) ==
  /\ pen.on = "up"
  /\ \E n \in LineNo :
       /\ lines[n] = "none" /\ \A k \in 1..(n - 1) : lines[k] # "none"
       /\ lines' = [lines EXCEPT ![n] = op] /\ pen' = [on |-> "file", line |-> n]
  /\ exists' = TRUE
  /\ UNCHANGED <<file, rotated, offset, rev, stored, pass, logIndex, taken, dropped, cut, logFaults>>

WritesLine ==
  /\ pen.on # "up" /\ pen' = [on |-> "up", line |-> 0]
  /\ file' = IF pen.on = "file" THEN Append(file, pen.line) ELSE file
  /\ rotated' = IF pen.on = "rotated" THEN Append(rotated, pen.line) ELSE rotated
  /\ dropped' = IF pen.on = "gone" THEN dropped \cup {pen.line} ELSE dropped
  /\ UNCHANGED <<lines, exists, offset, rev, stored, pass, logIndex, taken, cut, logFaults>>

-----------------------------------------------------------------------------
(* ingest *)

(* The row after these lines: the last text, new or edited, and whether    *)
(* one was a deletion, which leaves a tombstone of a message never seen.   *)
(* Each has the next rev.                                                  *)
AppliedLines(todo) ==
  LET texts == {i \in DOMAIN todo : lines[todo[i]] # "delete"} IN
  [text |-> IF texts = {} THEN stored.text
            ELSE todo[CHOOSE i \in texts : \A j \in texts : j <= i],
   deleted |-> stored.deleted \/ texts # DOMAIN todo,
   rev |-> rev + Len(todo)]

(* _apply_file: the rows and the rev, in one transaction. *)
AppliesLines(from, past) ==
  LET todo == IF past >= Len(from) THEN <<>> ELSE SubSeq(from, past + 1, Len(from)) IN
  /\ stored' = IF todo = <<>> THEN stored ELSE AppliedLines(todo)
  /\ rev' = rev + Len(todo)
  /\ taken' = taken \cup ToSet(todo)

(* An offset beyond the end is a file replaced.  One left over from a      *)
(* rotation that was cut off may skip lines of the next file.              *)
PassReads ==
  /\ pass.at = "idle" /\ exists
  /\ LET past == IF offset > Len(file) THEN 0 ELSE offset IN
     /\ AppliesLines(file, past)
     /\ pass' = [at |-> "save", upto |-> Len(file)]
     /\ dropped' = IF cut THEN dropped \cup (ToSet(SubSeq(file, 1, past)) \ taken) ELSE dropped
  /\ UNCHANGED <<logFiles, offset, logIndex, cut, logFaults>>

PassSaves ==
  /\ pass.at = "save"
  /\ offset' = pass.upto /\ cut' = FALSE
  /\ pass' = [pass EXCEPT !.at = IF Len(file) >= RotateAt THEN "rename" ELSE "idle"]
  /\ UNCHANGED <<logFiles, rev, stored, logIndex, taken, dropped, logFaults>>

PassRenames ==
  /\ pass.at = "rename"
  /\ rotated' = file /\ file' = <<>> /\ exists' = FALSE
  /\ pen' = IF pen.on = "file" THEN [pen EXCEPT !.on = "rotated"] ELSE pen
  /\ pass' = [pass EXCEPT !.at = "drain"]
  /\ UNCHANGED <<lines, offset, rev, stored, logIndex, taken, dropped, cut, logFaults>>

(* A variant: the rotated file is removed without another look. *)
NothingLate == UNCHANGED <<rev, stored, taken>>

(* Lines appended between the reading and the renaming. *)
DrainsLate == AppliesLines(rotated, pass.upto)

PassDrains ==
  /\ pass.at = "drain" /\ DrainsLate
  /\ pass' = [at |-> "remove", upto |-> Len(rotated)]
  /\ UNCHANGED <<logFiles, offset, logIndex, dropped, cut, logFaults>>

(* What was written after the second look goes with the file. *)
Undrained == ToSet(SubSeq(rotated, pass.upto + 1, Len(rotated)))

PassRemoves ==
  /\ pass.at = "remove"
  /\ dropped' = dropped \cup Undrained
  /\ rotated' = <<>>
  /\ pen' = IF pen.on = "rotated" THEN [pen EXCEPT !.on = "gone"] ELSE pen
  /\ pass' = [pass EXCEPT !.at = "reset"]
  /\ UNCHANGED <<lines, file, exists, offset, rev, stored, logIndex, taken, cut, logFaults>>

PassResets ==
  /\ pass.at = "reset"
  /\ offset' = 0 /\ cut' = FALSE
  /\ pass' = [at |-> "idle", upto |-> 0]
  /\ UNCHANGED <<logFiles, rev, stored, logIndex, taken, dropped, logFaults>>

(* A renamed file nobody finished with is not looked at again. *)
PassDies ==
  /\ pass.at # "idle" /\ logFaults < MaxLogFaults /\ logFaults' = logFaults + 1
  /\ pass' = [at |-> "idle", upto |-> 0]
  /\ cut' = (cut \/ pass.at \in {"drain", "remove", "reset"})
  /\ dropped' = dropped \cup (ToSet(rotated) \ taken)
  /\ rotated' = <<>>
  /\ pen' = IF pen.on = "rotated" THEN [pen EXCEPT !.on = "gone"] ELSE pen
  /\ UNCHANGED <<lines, file, exists, offset, rev, stored, logIndex, taken>>

-----------------------------------------------------------------------------
(* The index *)

Precedence(source) ==
  CASE source = "bot" -> 3 [] source = "local" -> 2 [] source = "export" -> 1 [] OTHER -> 0

(* _upsert_message: a lower source never replaces a higher one. *)
Upserted(new) == entry' = IF Precedence(entry.source) > Precedence(new.source) THEN entry ELSE new

(* sync_local: what has a newer rev, from one snapshot, in one transaction.*)
SyncLocal ==
  /\ IF stored.rev > lastRev
       THEN Upserted([source |-> "local", text |-> stored.text, deleted |-> stored.deleted])
            /\ lastRev' = stored.rev
     ELSE UNCHANGED <<entry, lastRev>>
  /\ UNCHANGED <<logFiles, offset, rev, stored, pass, botSeen, taken, dropped, cut, logFaults>>

(* What Discord shows now: the last line written, unless it was deleted.   *)
Shown == \E n \in LinesWritten : lines[n] # "delete" /\ \A k \in LinesWritten : lines[k] # "delete"
ShownText == CHOOSE n \in LinesWritten : \A k \in LinesWritten : k <= n

(* sync_bot reads a message once, when it is past the last one synced; an  *)
(* export holds it as it was.                                              *)
SyncBot ==
  /\ ~botSeen /\ Shown /\ botSeen' = TRUE
  /\ Upserted([source |-> "bot", text |-> ShownText, deleted |-> FALSE])
  /\ UNCHANGED <<logFiles, offset, rev, stored, pass, lastRev, taken, dropped, cut, logFaults>>

ImportExport ==
  /\ Shown
  /\ Upserted([source |-> "export", text |-> ShownText, deleted |-> FALSE])
  /\ UNCHANGED <<logFiles, offset, rev, stored, pass, lastRev, botSeen, taken, dropped, cut,
                 logFaults>>

-----------------------------------------------------------------------------
LogNext ==
  \/ \E op \in {"create", "update", "delete"} : OpensFile(op)
  \/ WritesLine
  \/ PassReads \/ PassSaves \/ PassRenames \/ PassDrains \/ PassRemoves \/ PassResets \/ PassDies
  \/ SyncLocal \/ SyncBot \/ ImportExport

LogSpec == LogInit /\ [][LogNext]_logVars

-----------------------------------------------------------------------------
(* What holds *)

(* Where a line that was written may be: applied, ahead of the offset,   *)
(* late in the renamed file, or just being written.                        *)
Ahead ==
  LET past == IF offset > Len(file) \/ pass.at \in {"drain", "remove", "reset"} THEN 0 ELSE offset
  IN ToSet(SubSeq(file, past + 1, Len(file)))

LinesKept ==
  \A n \in LinesWritten :
    n \in taken \/ n \in Ahead \/ n \in dropped \/ n = pen.line
      \/ (pass.at \in {"drain", "remove"} /\ n \in ToSet(rotated))
      \/ (cut /\ n \in ToSet(file))

(* A reader that has seen the row's rev has the row as it is, whatever    *)
(* was applied twice after a pass that died.                             *)
SyncedIsCurrent ==
  stored.rev # 0 /\ lastRev >= stored.rev =>
    entry.source = "bot" \/ (entry.source = "local" /\ entry.text = stored.text
                             /\ entry.deleted = stored.deleted)

(* No line is lost, and no change is passed over by the index, whether     *)
(* passes die and are repeated or the file is rotated under the plugin     *)
(* ("drains any lines written during the rotation", "Every change bumps a  *)
(* rev counter").  Lost with a rotation are only a write under way across  *)
(* it, and what a pass that died inside it leaves.                         *)
CaptureComplete == LinesKept /\ SyncedIsCurrent
=============================================================================
