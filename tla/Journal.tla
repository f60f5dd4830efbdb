-------------------------------- MODULE Journal --------------------------------
(***************************************************************************)
(* The control journal and its archive: store.py's events and receipts,    *)
(* the collector of gateway packets (events.py), the import of the audit   *)
(* log (audit_import.py), the archive on S3 or the NAS (archive.py,        *)
(* local_archive.py), and the worker's rule that the backlog is archived   *)
(* before an action is taken (worker.execute_one).  The website queues     *)
(* requests from a process of its own.  A row of the journal is its event  *)
(* id: rows are never changed, so the chain of hashes is not followed.     *)
(***************************************************************************)
EXTENDS Naturals, Sequences, SequencesExt

CONSTANTS
  Packet,            \* facts the gateway or the audit log tells of, by event id
  Action,            \* requests for moderation, by job id
  FlushBatch,        \* rows one flush takes: 100
  MaxArchiveFaults   \* BOUND: outages of the archive, and crashes

(* The event of an action that is over. *)
ResultOf(a) == <<"result", a>>
ResultRow == {ResultOf(a) : a \in Action}

ASSUME JournalNames == Packet \cap Action = {} /\ (Packet \cup Action) \cap ResultRow = {}
ASSUME JournalBounds == FlushBatch \in Nat \ {0} /\ MaxArchiveFaults \in Nat

VARIABLES
  ledger,            \* the events table, by seq
  objects,           \* event ids stored in the archive
  receipts,          \* event ids with a receipt
  actions,           \* [Action -> {"none", "queued", "executing", "ended"}]
  dispatch,          \* the worker: [at, todo, action]
  backlog,           \* history: what was journaled when the worker last asked
  archiveFaults

journalVars == <<ledger, objects, receipts, actions, dispatch, backlog, archiveFaults>>

LedgerEntry == Packet \cup Action \cup ResultRow
Idling == [at |-> "idle", todo |-> <<>>, action |-> "none"]

JournalTypeOK ==
  /\ ledger \in Seq(LedgerEntry) /\ objects \subseteq LedgerEntry /\ receipts \subseteq LedgerEntry
  /\ actions \in [Action -> {"none", "queued", "executing", "ended"}]
  /\ dispatch.at \in {"idle", "put", "readback", "check", "claim", "execute"}
  /\ dispatch.todo \in Seq(LedgerEntry) /\ dispatch.action \in Action \cup {"none"}
  /\ backlog \subseteq LedgerEntry /\ archiveFaults \in 0..MaxArchiveFaults

JournalInit ==
  /\ ledger = <<>> /\ objects = {} /\ receipts = {}
  /\ actions = [a \in Action |-> "none"] /\ dispatch = Idling
  /\ backlog = {} /\ archiveFaults = 0

(* A row is appended once for an event id, whoever tells it again. *)
Appended(e) == ledger' = IF e \in ToSet(ledger) THEN ledger ELSE Append(ledger, e)

(* A packet, the same after a resume, or its entry in the audit log.       *)
Observed(p) ==
  /\ Appended(p) /\ ledger' # ledger
  /\ UNCHANGED <<objects, receipts, actions, dispatch, backlog, archiveFaults>>

(* queue: the request and its event in one transaction. *)
Requested(a) ==
  /\ actions[a] = "none" /\ actions' = [actions EXCEPT ![a] = "queued"]
  /\ Appended(a)
  /\ UNCHANGED <<objects, receipts, dispatch, backlog, archiveFaults>>

-----------------------------------------------------------------------------
(* execute_one: flush, ask, claim *)

Pending == SelectSeq(ledger, LAMBDA e : e \notin receipts)
Batched(entries) ==
  IF Len(entries) <= FlushBatch THEN entries ELSE SubSeq(entries, 1, FlushBatch)

FlushStarts ==
  /\ dispatch.at = "idle"
  /\ dispatch' = [Idling EXCEPT !.at = IF Pending = <<>> THEN "check" ELSE "put",
                                !.todo = Batched(Pending)]
  /\ UNCHANGED <<ledger, objects, receipts, actions, backlog, archiveFaults>>

(* An object is written if it is not there; the same one is not a conflict.*)
PutsObject ==
  /\ dispatch.at = "put"
  /\ objects' = objects \cup {Head(dispatch.todo)}
  /\ dispatch' = [dispatch EXCEPT !.at = "readback"]
  /\ UNCHANGED <<ledger, receipts, actions, backlog, archiveFaults>>

(* It is read back, and the receipt recorded. *)
ReadsBack ==
  /\ dispatch.at = "readback" /\ Head(dispatch.todo) \in objects
  /\ receipts' = receipts \cup {Head(dispatch.todo)}
  /\ dispatch' = [dispatch EXCEPT !.todo = Tail(@),
                                  !.at = IF Len(dispatch.todo) = 1 THEN "check" ELSE "put"]
  /\ UNCHANGED <<ledger, objects, actions, backlog, archiveFaults>>

(* A variant: a flush that did not fail is taken for an empty backlog. *)
DrainedAssumed == TRUE

(* One pending row is asked for: there is none. *)
Drained == ToSet(ledger) \subseteq receipts

AsksPending ==
  /\ dispatch.at = "check"
  /\ dispatch' = IF Drained THEN [Idling EXCEPT !.at = "claim"] ELSE Idling
  /\ backlog' = ToSet(ledger)
  /\ UNCHANGED <<ledger, objects, receipts, actions, archiveFaults>>

(* claim_job, in a transaction of its own: the oldest, then its action. *)
Waiting == SelectSeq(ledger, LAMBDA e : e \in Action /\ actions[e] = "queued")

ClaimsAction ==
  /\ dispatch.at = "claim"
  /\ IF Waiting = <<>> THEN dispatch' = Idling /\ UNCHANGED actions
     ELSE /\ actions' = [actions EXCEPT ![Head(Waiting)] = "executing"]
          /\ dispatch' = [Idling EXCEPT !.at = "execute", !.action = Head(Waiting)]
  /\ UNCHANGED <<ledger, objects, receipts, backlog, archiveFaults>>

(* finish_job: the state and its event in one transaction. *)
EndsAction ==
  /\ dispatch.at = "execute"
  /\ actions' = [actions EXCEPT ![dispatch.action] = "ended"]
  /\ Appended(ResultOf(dispatch.action)) /\ dispatch' = Idling
  /\ UNCHANGED <<objects, receipts, backlog, archiveFaults>>

(* The archive refuses, or the worker dies, at any point of this. *)
DispatchFails ==
  /\ dispatch.at # "idle"
  /\ archiveFaults < MaxArchiveFaults /\ archiveFaults' = archiveFaults + 1
  /\ dispatch' = Idling
  /\ UNCHANGED <<ledger, objects, receipts, actions, backlog>>

-----------------------------------------------------------------------------
DispatchSteps ==
  FlushStarts \/ PutsObject \/ ReadsBack \/ AsksPending \/ ClaimsAction \/ EndsAction

JournalNext ==
  \/ \E p \in Packet : Observed(p)
  \/ \E a \in Action : Requested(a)
  \/ DispatchSteps \/ DispatchFails

JournalSpec == JournalInit /\ [][JournalNext]_journalVars

-----------------------------------------------------------------------------
(* What holds *)

(* "Moderation waits for the backlog to archive before execution"          *)
(* (control/README.md:328): when an action is executed, everything that    *)
(* was journaled when the worker asked is in the archive, its own request  *)
(* too.  A request queued between the question and the claim is the one    *)
(* exception: it is taken at once.                                         *)
ArchivedFirst ==
  dispatch.at = "execute" => backlog \subseteq objects
=============================================================================
