-------------------------------- MODULE Mythic --------------------------------
(***************************************************************************)
(* The Mythic+ dungeon records of src/src: the collector (mplus_collect.py)*)
(* keeps the runs it sees and queues each as a candidate; the record job     *)
(* (mplus_records.py) takes the queue in order, redraws the pinned card    *)
(* (mplus_record_board.py) and announces what beats the record.  Each is a *)
(* Lambda invocation every minute under a lease of 90 s, longer than an    *)
(* invocation lives, so there is one of each.  One dungeon of one season;  *)
(* a run stands for its number at Raider.IO, level for its place by key    *)
(* level and time.  Runs that were not timed beat nothing and are left out.*)
(***************************************************************************)
EXTENDS Naturals, FiniteSets, Sequences, SequencesExt, Functions

CONSTANTS
  Run,               \* runs with two guild members or more
  NoRun,             \* no record yet
  MaxRecordFaults    \* BOUND: failures, and invocations that end

ASSUME RunNames == Run \subseteq Nat \ {0} /\ IsFiniteSet(Run) /\ Run # {} /\ NoRun \notin Run
ASSUME RecordBounds == MaxRecordFaults \in Nat

VARIABLES
  level,             \* [Run -> Nat]
  finished, late,    \* runs completed, and since the baseline was taken
  runRows, seen,     \* RUN# and SEEN# rows
  warm,              \* COLLECTOR: the whole roster has been visited
  queue,             \* RECORD_CANDIDATE# beyond the cursor: a set per collection
  floor,             \* ids of the last collection up to which the cursor stands
  collection,        \* the collector's invocation
  records,           \* RECORDS: [set, best]
  board,             \* RECORD_BOARD#: [state, saved]
  live,              \* what the pinned card shows
  claims,            \* RECORD_POST# rows
  recording,         \* the record job's invocation
  posts,             \* history: [Run -> Nat]: announcements in the channel
  lost,              \* history: runs queued behind the cursor, or passed unread
  recordFaults

collectVars == <<runRows, seen, warm, collection>>
recordVars == <<records, board, live, claims, recording, posts>>
mythicVars == <<level, finished, late, collectVars, queue, floor, lost, recordVars, recordFaults>>

MaybeRun == Run \cup {NoRun}
NoCollection == [at |-> "idle", todo |-> {}, run |-> NoRun]
NoRecordJob == [at |-> "idle", page |-> <<>>, best |-> NoRun, target |-> NoRun]
All == Max(Run)

MythicTypeOK ==
  /\ level \in [Run -> Nat]
  /\ finished \subseteq Run /\ late \subseteq Run /\ runRows \subseteq Run /\ seen \subseteq Run
  /\ warm \in BOOLEAN /\ queue \in Seq(SUBSET Run) /\ floor \in 0..All
  /\ collection \in [at : {"idle", "look", "queued", "kept"}, todo : SUBSET Run, run : MaybeRun]
  /\ records \in [set : BOOLEAN, best : MaybeRun]
  /\ board \in [state : {"none", "sending", "posted"}, saved : MaybeRun]
  /\ live \in MaybeRun /\ claims \subseteq Run
  /\ recording \in [at : {"idle", "baseline", "sync", "edit", "keep", "take", "claim", "post",
                           "save"},
                     page : Seq(Run), best : MaybeRun, target : MaybeRun]
  /\ posts \in [Run -> Nat] /\ lost \subseteq Run
  /\ recordFaults \in 0..MaxRecordFaults

MythicInit ==
  /\ level \in {f \in [Run -> 1..Cardinality(Run)] : IsInjective(f)}
  /\ finished = {} /\ late = {} /\ runRows = {} /\ seen = {} /\ warm = FALSE
  /\ queue = << {} >> /\ floor = 0 /\ collection = NoCollection
  /\ records = [set |-> FALSE, best |-> NoRun]
  /\ board = [state |-> "none", saved |-> NoRun] /\ live = NoRun
  /\ claims = {} /\ recording = NoRecordJob
  /\ posts = [r \in Run |-> 0] /\ lost = {} /\ recordFaults = 0

RecordFault ==
  recordFaults < MaxRecordFaults /\ recordFaults' = recordFaults + 1

(* A run sets a record: higher, or as high and faster. *)
Improves(r, best) == best = NoRun \/ level[r] > level[best]

Completes(r) ==
  /\ r \notin finished
  /\ finished' = finished \cup {r} /\ late' = late \cup {r}
  /\ UNCHANGED <<level, collectVars, queue, floor, lost, recordVars, recordFaults>>

-----------------------------------------------------------------------------
(* The collector *)

(* It looks for what is completed by now; its candidates follow those of   *)
(* every earlier collection in the queue.                                  *)
CollectStarts ==
  /\ collection.at = "idle"
  /\ collection' = [at |-> "look", todo |-> finished \ seen, run |-> NoRun]
  /\ queue' = SelectSeq(queue, LAMBDA s : s # {}) \o << {} >> /\ floor' = 0
  /\ UNCHANGED <<level, finished, late, runRows, seen, warm, lost, recordVars, recordFaults>>

(* "Queue first": the key is the collection's start and the run's id.  One *)
(* that sorts behind the record job's cursor is never read.                  *)
QueuesRun(r) ==
  /\ collection.at = "look" /\ r \in collection.todo
  /\ collection' = [collection EXCEPT !.at = "queued", !.run = r]
  /\ IF r <= floor THEN lost' = lost \cup {r} /\ UNCHANGED queue
     ELSE queue' = [queue EXCEPT ![Len(queue)] = @ \cup {r}] /\ lost' = lost \ {r}
  /\ UNCHANGED <<level, finished, late, runRows, seen, warm, floor, recordVars, recordFaults>>

KeepsRun ==
  /\ collection.at = "queued"
  /\ runRows' = runRows \cup {collection.run}
  /\ collection' = [collection EXCEPT !.at = "kept"]
  /\ UNCHANGED <<level, finished, late, seen, warm, queue, floor, lost, recordVars, recordFaults>>

SeesRun ==
  /\ collection.at = "kept"
  /\ seen' = seen \cup {collection.run}
  /\ collection' = [at |-> "look", todo |-> collection.todo \ {collection.run}, run |-> NoRun]
  /\ UNCHANGED <<level, finished, late, runRows, warm, queue, floor, lost, recordVars, recordFaults>>

CollectEnds ==
  /\ collection.at = "look" /\ collection.todo = {}
  /\ collection' = NoCollection /\ warm' = TRUE
  /\ UNCHANGED <<level, finished, late, runRows, seen, queue, floor, lost, recordVars, recordFaults>>

(* A failed request, the end of the budget, or of the invocation. *)
CollectFails ==
  /\ collection.at # "idle" /\ RecordFault
  /\ collection' = NoCollection
  /\ UNCHANGED <<level, finished, late, runRows, seen, warm, queue, floor, lost, recordVars>>

-----------------------------------------------------------------------------
(* The record job *)

Keep == UNCHANGED <<level, finished, collectVars>>

(* The best of the runs kept. *)
BestOf(runs) ==
  IF runs = {} THEN NoRun ELSE CHOOSE r \in runs : \A s \in runs : level[s] <= level[r]

(* No RECORDS row: the baseline is what the collector has kept, from now on. *)
TakesBaseline ==
  /\ recording.at = "idle" /\ ~records.set /\ warm
  /\ recording' = [NoRecordJob EXCEPT !.at = "baseline", !.best = BestOf(runRows)]
  /\ late' = {}
  /\ queue' = << {} >> /\ floor' = All
  /\ lost' = lost \cup (UNION ToSet(queue) \ runRows)
  /\ UNCHANGED <<records, board, live, claims, posts, recordFaults>> /\ Keep

SavesBaseline ==
  /\ recording.at = "baseline"
  /\ records' = [set |-> TRUE, best |-> recording.best]
  /\ recording' = NoRecordJob
  /\ UNCHANGED <<late, queue, floor, lost, board, live, claims, posts, recordFaults>> /\ Keep

(* Otherwise the card is brought up to the record first. *)
JobStarts ==
  /\ recording.at = "idle" /\ records.set
  /\ recording' = [NoRecordJob EXCEPT !.at = "sync", !.best = records.best, !.target = records.best]
  /\ UNCHANGED <<late, queue, floor, lost, records, board, live, claims, posts, recordFaults>>
  /\ Keep

(* What a sync leads to: the queue's page, or the announcement. *)
Page == FoldLeft(LAMBDA page, s : page \o SetToSortSeq(s, <), <<>>, queue)
Synced(pages) ==
  IF recording.target = recording.best THEN [recording EXCEPT !.at = "take", !.page = pages]
  ELSE [recording EXCEPT !.at = "claim"]

(* sync, with nothing to draw or nothing new. *)
SyncsNothing ==
  /\ recording.at = "sync"
  /\ recording.target = NoRun \/ (board.state = "posted" /\ board.saved = recording.target)
  /\ recording' = Synced(Page)
  /\ UNCHANGED <<late, queue, floor, lost, records, board, live, claims, posts, recordFaults>>
  /\ Keep

(* The first card is claimed before it is posted. *)
SyncDraws ==
  /\ recording.at = "sync" /\ recording.target # NoRun
  /\ \/ board.state = "none" /\ board' = [board EXCEPT !.state = "sending"]
     \/ board.state = "posted" /\ board.saved # recording.target /\ UNCHANGED board
  /\ recording' = [recording EXCEPT !.at = "edit"]
  /\ UNCHANGED <<late, queue, floor, lost, records, live, claims, posts, recordFaults>> /\ Keep

(* A card claimed and never heard of stops the job, every time. *)
SyncStuck ==
  /\ recording.at = "sync" /\ recording.target # NoRun /\ board.state = "sending"
  /\ recording' = NoRecordJob
  /\ UNCHANGED <<late, queue, floor, lost, records, board, live, claims, posts, recordFaults>>
  /\ Keep

(* The POST, or the PATCH. *)
SyncEdits ==
  /\ recording.at = "edit"
  /\ live' = recording.target
  /\ \/ recording' = [recording EXCEPT !.at = "keep"] /\ UNCHANGED recordFaults
     \/ recording' = NoRecordJob /\ RecordFault
  /\ UNCHANGED <<late, queue, floor, lost, records, board, claims, posts>> /\ Keep

SyncSaves ==
  /\ recording.at = "keep"
  /\ board' = [state |-> "posted", saved |-> recording.target]
  /\ recording' = Synced(Page)
  /\ UNCHANGED <<late, queue, floor, lost, records, live, claims, posts, recordFaults>> /\ Keep

JobEnds ==
  /\ recording.at = "take" /\ recording.page = <<>>
  /\ recording' = NoRecordJob
  /\ UNCHANGED <<late, queue, floor, lost, records, board, live, claims, posts, recordFaults>>
  /\ Keep

(* The card is redrawn before the announcement. *)
CardFirst(r) == [recording EXCEPT !.at = "sync", !.target = r]

(* The next candidate: one that beats nothing is passed over. *)
TakesCandidate ==
  /\ recording.at = "take" /\ recording.page # <<>>
  /\ LET r == Head(recording.page) IN
     recording' = IF Improves(r, recording.best) THEN CardFirst(r)
                  ELSE [recording EXCEPT !.at = "save"]
  /\ UNCHANGED <<late, queue, floor, lost, records, board, live, claims, posts, recordFaults>>
  /\ Keep

(* A variant: the claim is written whatever is there. *)
ClaimsAgain(r) == claims' = claims \cup {r} /\ recording' = [recording EXCEPT !.at = "post"]

(* Claimed once, for good. *)
ClaimsOnce(r) ==
  /\ claims' = claims \cup {r}
  /\ recording' = [recording EXCEPT !.at = IF r \in claims THEN "save" ELSE "post"]

(* Only what was completed after the baseline is news. *)
ClaimsPost ==
  /\ recording.at = "claim"
  /\ LET r == Head(recording.page) IN
     IF r \in late THEN ClaimsOnce(r)
     ELSE recording' = [recording EXCEPT !.at = "save"] /\ UNCHANGED claims
  /\ UNCHANGED <<late, queue, floor, lost, records, board, live, posts, recordFaults>> /\ Keep

(* One request.  Without an answer the message may be there; the claim is  *)
(* marked for review, the record is kept, and the job ends.                  *)
PostsRecord ==
  /\ recording.at = "post"
  /\ \E there \in BOOLEAN :
       /\ posts' = [posts EXCEPT ![Head(recording.page)] = IF there THEN @ + 1 ELSE @]
       /\ \/ there /\ recording' = [recording EXCEPT !.at = "save"] /\ UNCHANGED recordFaults
          \/ /\ recording' = [recording EXCEPT !.at = "save", !.page = SubSeq(@, 1, 1)]
             /\ RecordFault
  /\ UNCHANGED <<late, queue, floor, lost, records, board, live, claims>> /\ Keep

(* A variant: the cursor goes to the end of the page. *)
SkipsPage(r) == << {} >>

(* The candidate and what sorts before it are behind the cursor now. *)
Beyond(r) ==
  LET i == CHOOSE k \in 1..Len(queue) : r \in queue[k] /\ \A j \in 1..(k - 1) : r \notin queue[j]
  IN << {s \in queue[i] : s > r} >> \o SubSeq(queue, i + 1, Len(queue))

(* The record and the cursor, in one row.                                  *)
SavesRecord ==
  /\ recording.at = "save"
  /\ LET r == Head(recording.page)
         best == IF Improves(r, recording.best) THEN r ELSE recording.best
         mine == r \in Last(queue) /\ \A j \in 1..(Len(queue) - 1) : r \notin queue[j]
     IN /\ records' = [records EXCEPT !.best = best]
        /\ queue' = Beyond(r)
        /\ floor' = IF mine THEN r ELSE floor
        /\ lost' = lost \cup {s \in UNION ToSet(queue) \ UNION ToSet(queue') :
                                \A k \in 1..Len(recording.page) : recording.page[k] # s}
        /\ recording' = [recording EXCEPT !.at = "take", !.page = Tail(@),
                                          !.best = best, !.target = best]
  /\ UNCHANGED <<late, board, live, claims, posts, recordFaults>> /\ Keep

(* A request that fails, the end of the budget, or of the invocation. *)
JobFails ==
  /\ recording.at # "idle" /\ RecordFault
  /\ recording' = NoRecordJob
  /\ UNCHANGED <<late, queue, floor, lost, records, board, live, claims, posts>> /\ Keep

-----------------------------------------------------------------------------
CollectorSteps ==
  CollectStarts \/ (\E r \in Run : QueuesRun(r)) \/ KeepsRun \/ SeesRun \/ CollectEnds
JobSteps ==
  \/ TakesBaseline \/ SavesBaseline \/ JobStarts \/ JobEnds
  \/ SyncsNothing \/ SyncDraws \/ SyncStuck \/ SyncEdits \/ SyncSaves
  \/ TakesCandidate \/ ClaimsPost \/ PostsRecord \/ SavesRecord

MythicNext ==
  \/ \E r \in Run : Completes(r)
  \/ CollectorSteps \/ CollectFails \/ JobSteps \/ JobFails

MythicSpec ==
  /\ MythicInit /\ [][MythicNext]_mythicVars
  /\ WF_mythicVars(CollectorSteps) /\ WF_mythicVars(JobSteps)

-----------------------------------------------------------------------------
(* What holds *)

(* A record is announced at most once, although the job may end between      *)
(* the post and the row that says where it is, and begin again before it   *)
(* ("Never resend automatically").                                         *)
RecordOnce == \A r \in Run : posts[r] <= 1

(* A run that is completed counts in the end: the record is as good,       *)
(* whatever failed or ended between the candidate, the row, the card, the  *)
(* announcement and the cursor.  Two cases are exempt: a candidate that    *)
(* sorts behind the cursor (two runs of one collection while the job         *)
(* reads), and a first card that was never confirmed.                      *)
Counted(r) ==
  records.set /\ records.best # NoRun /\ level[records.best] >= level[r]
RecordStands ==
  \A r \in Run : r \in finished ~> (Counted(r) \/ r \in lost \/ board.state = "sending")
=============================================================================
