-------------------------------- MODULE Mutes --------------------------------
(***************************************************************************)
(* Persistent mutes of the control service, for one member: the job queue  *)
(* of control/greybot_control/store.py, the worker that runs one job at a  *)
(* time and reconciles (worker.py), the permission writes (mutes.py) and   *)
(* the automatic mutes spam earns (automod.py).                            *)
(*                                                                         *)
(* An overwrite is the member's entry on one channel: the permission bits  *)
(* greyBot owns (MUTE_MASK) and all other bits.  A PUT replaces the whole  *)
(* entry, with a body computed from channels read before the archive was   *)
(* flushed.  Administrators edit the same entries at any time.             *)
(***************************************************************************)
EXTENDS Naturals, Sequences

CONSTANTS
  Channel,
  First,            \* the channels there are at the start
  Own, NoOwn, Muted,\* values of the owned bits; none set; all denied
  Other, NoBits,    \* values of the other bits; none set
  Absent,           \* no entry in a plan or a snapshot
  Threshold,        \* infractions that earn a mute, 3 in automod.execute
  MaxQueue,         \* BOUND: jobs queued at once
  MaxEdits,         \* BOUND: edits by administrators
  MaxFaults         \* BOUND: failed or interrupted jobs and reconciliations

ASSUME ChannelAssumption == First \subseteq Channel
ASSUME BitsAssumption == {NoOwn, Muted} \subseteq Own /\ NoOwn # Muted /\ NoBits \in Other
ASSUME AbsentAssumption == Absent \notin Own /\ Absent \notin [own : Own, other : Other]
ASSUME BoundAssumption ==
  /\ Threshold \in Nat \ {0} /\ MaxQueue \in Nat
  /\ MaxEdits \in Nat /\ MaxFaults \in Nat

VARIABLES
  exists,           \* the guild's channels
  overwrite,        \* [Channel -> Overwrite]: the member's entries on Discord
  state,            \* persistent_mutes.state; "none" before the first mute
  plan,             \* persistent_mutes.plan: owned bits before the mute
  jobs,             \* queued jobs, oldest first
  spam,             \* journalled infractions since the last MUTE_RELEASED
  waiting,          \* the change's MUTE_PREPARED or MUTE_RELEASE_REQUESTED
                    \* event is journalled and not archived
  pc,               \* where the worker stands
  task,             \* what it is doing: a job's kind, or "reconcile"
  snap,             \* the entries it read
  todo,             \* channels it has still to write
  wanted,           \* history: the entries as administrators left them
  raced,            \* history: edited while the worker held a snapshot
  contested,        \* history: owned bits edited under a mute or a snapshot
  edits, faults

discord == <<exists, overwrite>>
record == <<state, plan>>
worker == <<pc, task, snap, todo>>
history == <<wanted, raced, contested>>
vars == <<discord, record, jobs, spam, waiting, worker, history, edits, faults>>

Overwrite == [own : Own, other : Other]
Kind == {"mute", "unmute", "automod", "automute"}
Job == [kind : Kind, revoked : BOOLEAN]
State == {"none", "applying", "active", "needs_review", "releasing", "released"}
Live == state \in {"applying", "active", "needs_review"}
Step == {"idle", "mute", "plan", "archive", "write",
         "unmute", "check", "request", "restore"}

TypeOK ==
  /\ exists \subseteq Channel
  /\ overwrite \in [Channel -> Overwrite]
  /\ state \in State
  /\ plan \in [Channel -> Own \cup {Absent}]
  /\ jobs \in Seq(Job) /\ spam \in 0..Threshold /\ waiting \in BOOLEAN
  /\ pc \in Step /\ task \in Kind \cup {"reconcile"}
  /\ snap \in [Channel -> Overwrite \cup {Absent}]
  /\ todo \subseteq Channel
  /\ wanted \in [Channel -> Overwrite]
  /\ raced \subseteq Channel /\ contested \subseteq Channel
  /\ edits \in 0..MaxEdits /\ faults \in 0..MaxFaults

Init ==
  /\ exists = First
  /\ overwrite = [c \in Channel |-> [own |-> NoOwn, other |-> NoBits]]
  /\ state = "none" /\ plan = [c \in Channel |-> Absent]
  /\ jobs = <<>> /\ spam = 0 /\ waiting = FALSE
  /\ pc = "idle" /\ task = "reconcile"
  /\ snap = [c \in Channel |-> Absent] /\ todo = {}
  /\ wanted = overwrite /\ raced = {} /\ contested = {}
  /\ edits = 0 /\ faults = 0

-----------------------------------------------------------------------------
(* The guild and its administrators *)

Holding == pc \notin {"idle", "mute", "unmute"}

AddChannel(c) ==
  /\ c \notin exists
  /\ exists' = exists \cup {c}
  /\ UNCHANGED <<overwrite, record, jobs, spam, waiting, worker, history, edits, faults>>

Edited(c, o) ==
  /\ c \in exists /\ edits < MaxEdits /\ edits' = edits + 1
  /\ o # overwrite[c]
  /\ overwrite' = [overwrite EXCEPT ![c] = o]
  /\ UNCHANGED <<exists, record, jobs, spam, waiting, worker, faults>>

(* Bits that are none of greyBot's business. *)
EditOther(c, b) ==
  /\ Edited(c, [overwrite[c] EXCEPT !.other = b])
  /\ wanted' = [wanted EXCEPT ![c].other = b]
  /\ raced' = IF Holding THEN raced \cup {c} ELSE raced \ {c}
  /\ UNCHANGED contested

(* The owned bits: final only when no mute is recorded or under way. *)
EditOwn(c, b) ==
  /\ Edited(c, [overwrite[c] EXCEPT !.own = b])
  /\ wanted' = [wanted EXCEPT ![c].own = b]
  /\ contested' = IF Holding \/ Live \/ state = "releasing"
                  THEN contested \cup {c} ELSE contested \ {c}
  /\ UNCHANGED raced

(* web.py's action and Detector.receive queue a job. *)
Queue(k) ==
  /\ k \in {"mute", "unmute", "automod"}
  /\ Len(jobs) < MaxQueue
  /\ jobs' = Append(jobs, [kind |-> k, revoked |-> FALSE])
  /\ UNCHANGED <<discord, record, spam, waiting, worker, history, edits, faults>>

-----------------------------------------------------------------------------
(* The worker: execute_one takes the oldest job once the journal is        *)
(* archived; a job whose action is refused ends "denied".                  *)

Claimed == pc = "idle" /\ jobs # <<>> /\ waiting' = FALSE

Rest ==
  /\ pc' = "idle" /\ task' = "reconcile"
  /\ snap' = [c \in Channel |-> Absent] /\ todo' = {}

(* execute_one's flush, with no job to claim. *)
Flush ==
  /\ pc = "idle" /\ jobs = <<>> /\ waiting /\ waiting' = FALSE
  /\ UNCHANGED <<discord, record, jobs, spam, worker, history, edits, faults>>

(* The actor's rights, the target's, moderation_enabled, freshness, an      *)
(* unmute with nothing to release, a mute revoked since it was earned.      *)
Deny ==
  /\ Claimed
  /\ jobs' = Tail(jobs)
  /\ UNCHANGED <<discord, record, spam, worker, history, edits, faults>>

(* automod.execute for spam: the infraction, and at Threshold, when the     *)
(* others are recent enough, an automatic mute, in one transaction.         *)
Infraction ==
  /\ Claimed /\ Head(jobs).kind = "automod"
  /\ spam' = IF spam < Threshold THEN spam + 1 ELSE spam
  /\ \/ jobs' = Tail(jobs)
     \/ /\ spam' = Threshold
        /\ jobs' = Append(Tail(jobs), [kind |-> "automute", revoked |-> FALSE])
  /\ UNCHANGED <<discord, record, worker, history, edits, faults>>

(* A variant: the journal not asked for a release. *)
StartMuteAnyway ==
  /\ Claimed /\ Head(jobs).kind \in {"mute", "automute"}
  /\ jobs' = Tail(jobs)
  /\ pc' = "mute" /\ task' = Head(jobs).kind
  /\ UNCHANGED <<discord, record, spam, snap, todo, history, edits, faults>>

StartMute ==
  /\ Claimed /\ Head(jobs).kind \in {"mute", "automute"} /\ ~Head(jobs).revoked
  /\ jobs' = Tail(jobs)
  /\ pc' = "mute" /\ task' = Head(jobs).kind
  /\ UNCHANGED <<discord, record, spam, snap, todo, history, edits, faults>>

StartUnmute ==
  /\ Claimed /\ Head(jobs).kind = "unmute" /\ state \notin {"none", "released"}
  /\ jobs' = Tail(jobs)
  /\ pc' = "unmute" /\ task' = "unmute"
  /\ UNCHANGED <<discord, record, spam, snap, todo, history, edits, faults>>

(* Mutes.reconcile, every minute; a release under way is left alone. *)
Reconcile ==
  /\ pc = "idle" /\ Live
  /\ pc' = "mute" /\ task' = "reconcile"
  /\ UNCHANGED <<discord, record, jobs, spam, waiting, snap, todo, history, edits, faults>>

(* Mutes.channels *)
ReadChannels ==
  /\ pc \in {"mute", "unmute"}
  /\ snap' = [c \in Channel |-> IF c \in exists THEN overwrite[c] ELSE Absent]
  /\ pc' = IF pc = "mute" THEN "plan" ELSE "check"
  /\ UNCHANGED <<discord, record, jobs, spam, waiting, task, todo, history, edits, faults>>

Seen == {c \in Channel : snap[c] # Absent}

-----------------------------------------------------------------------------
(* Mutes.apply *)

(* A variant: channels outside the plan not looked at. *)
PlannedMuted == \A c \in Seen : plan[c] # Absent => snap[c].own = Muted

AllMuted == \A c \in Seen : plan[c] # Absent /\ snap[c].own = Muted

(* A variant: every application plans afresh. *)
KeptNever(c) == FALSE

(* The entries of a mute that was not released, by setdefault. *)
Kept(c) == Live /\ plan[c] # Absent

Refuse ==
  /\ pc = "plan" /\ (state = "releasing" \/ (state = "active" /\ AllMuted))
  /\ Rest
  /\ UNCHANGED <<discord, record, jobs, spam, waiting, history, edits, faults>>

(* The plan and MUTE_PREPARED, in one transaction. *)
PlanMute ==
  /\ pc = "plan" /\ state # "releasing" /\ ~(state = "active" /\ AllMuted)
  /\ plan' = [c \in Channel |-> IF Kept(c) THEN plan[c]
                                ELSE IF c \in Seen THEN snap[c].own ELSE Absent]
  /\ state' = "applying" /\ waiting' = TRUE
  /\ todo' = Seen /\ pc' = "archive"
  /\ UNCHANGED <<discord, jobs, spam, task, snap, history, edits, faults>>

(* A variant: the write does not wait for the archive. *)
ArchiveLater == waiting

(* What archive_first leaves of the change's event. *)
Unarchived == FALSE

(* archive_first: the journal is flushed and found empty. *)
Archive ==
  /\ pc \in {"archive", "request"}
  /\ waiting' = Unarchived
  /\ pc' = IF pc = "archive" THEN "write" ELSE "restore"
  /\ UNCHANGED <<discord, record, jobs, spam, task, snap, todo, history, edits, faults>>

(* The bodies of the two PUTs, from the snapshot. *)
Restricted(c) == [snap[c] EXCEPT !.own = Muted]

(* A variant: the entry deleted. *)
RestoredByDelete(c) == [own |-> plan[c], other |-> NoBits]

Restored(c) == [snap[c] EXCEPT !.own = plan[c]]

Body(c) == IF pc = "write" THEN Restricted(c) ELSE Restored(c)

Put(c) ==
  /\ pc \in {"write", "restore"} /\ c \in todo
  /\ overwrite' = IF Body(c) = snap[c] THEN overwrite ELSE [overwrite EXCEPT ![c] = Body(c)]

Write(c) ==
  /\ Put(c)
  /\ todo' = todo \ {c}
  /\ UNCHANGED <<exists, record, jobs, spam, waiting, pc, task, snap, history, edits, faults>>

FinishMute ==
  /\ pc = "write" /\ todo = {}
  /\ state' = "active"
  /\ Rest
  /\ UNCHANGED <<discord, plan, jobs, spam, waiting, history, edits, faults>>

-----------------------------------------------------------------------------
(* Mutes.release *)

(* restore raises Denied: owned bits neither as before nor as muted. *)
Conflict == \E c \in Seen : plan[c] # Absent /\ snap[c].own \notin {plan[c], Muted}

RefuseRelease ==
  /\ pc = "check" /\ Conflict
  /\ Rest
  /\ UNCHANGED <<discord, record, jobs, spam, waiting, history, edits, faults>>

RequestRelease ==
  /\ pc = "check" /\ ~Conflict
  /\ state' = "releasing" /\ waiting' = TRUE
  /\ todo' = {c \in Seen : plan[c] # Absent} /\ pc' = "request"
  /\ UNCHANGED <<discord, plan, jobs, spam, task, snap, history, edits, faults>>

(* MUTE_RELEASED: infractions before it no longer count, and automatic     *)
(* mutes they have queued find it in the journal.                          *)
FinishRelease ==
  /\ pc = "restore" /\ todo = {}
  /\ state' = "released" /\ spam' = 0
  /\ jobs' = [i \in DOMAIN jobs |->
                IF jobs[i].kind = "automute" THEN [jobs[i] EXCEPT !.revoked = TRUE] ELSE jobs[i]]
  /\ Rest
  /\ UNCHANGED <<discord, plan, waiting, history, edits, faults>>

-----------------------------------------------------------------------------
(* A failed request or archive, or the end of the process, at any step.    *)
(* The job is never run again; a failed reconciliation marks the record.   *)
(* A write in flight may have been applied.                                *)
Fail ==
  /\ pc # "idle" /\ faults < MaxFaults /\ faults' = faults + 1
  /\ (\E c \in todo : Put(c)) \/ UNCHANGED overwrite
  /\ state' = state \/ (task = "reconcile" /\ state' = "needs_review")
  /\ Rest
  /\ UNCHANGED <<exists, plan, jobs, spam, waiting, history, edits>>

Worker ==
  \/ Flush \/ Deny \/ Infraction \/ StartMute \/ StartUnmute \/ Reconcile
  \/ ReadChannels \/ Refuse \/ PlanMute \/ Archive
  \/ (\E c \in Channel : Write(c)) \/ FinishMute
  \/ RefuseRelease \/ RequestRelease \/ FinishRelease

Guild ==
  \/ \E c \in Channel : \/ AddChannel(c)
                        \/ \E b \in Other : EditOther(c, b)
                        \/ \E b \in Own : EditOwn(c, b)
  \/ \E k \in Kind : Queue(k)

Next == Worker \/ Guild \/ Fail

Spec == Init /\ [][Next]_vars

(* The maintenance loop of worker.py goes on, and whatever it finds in the *)
(* queue it reconciles once a minute.                                      *)
FairSpec == Spec /\ WF_vars(Worker) /\ SF_vars(Reconcile)

-----------------------------------------------------------------------------
(* Properties *)

(* mutes.py "Only owned permission bits are restored": at every moment,    *)
(* however often a mute was applied, interrupted, reconciled or half       *)
(* released, owned bits that differ from what administrators left can be   *)
(* put back from the plan; and after a release none differ.  Bits that an  *)
(* administrator changed under the mute are excepted.                      *)
Undoable ==
  \A c \in Channel \ contested :
    overwrite[c].own # wanted[c].own =>
      /\ Live \/ state = "releasing"
      /\ plan[c] = wanted[c].own

(* mutes.py "unrelated admin changes survive", as far as the code keeps it: *)
(* an edit of other bits is lost only when it fell between the worker's     *)
(* read and its write.                                                      *)
OnlyRacedEditsAreLost ==
  \A c \in Channel : overwrite[c].other # wanted[c].other => c \in raced

(* Mute changes require an archive (archive_first): no permission is        *)
(* written before the event that announces the change is archived.         *)
WriteIsArchived ==
  [][(overwrite' # overwrite /\ edits' = edits) => ~waiting]_vars

(* "An administrator revoked this mute after the triggering infraction"     *)
(* (worker.py): an automatic mute that starts rests on Threshold            *)
(* infractions journalled since the last release.                           *)
AutoMuteEarned ==
  [][(task = "automute" /\ ~Live /\ state' = "applying") => spam = Threshold]_vars

(* A mute covers channels created after it: reconciliation reaches each     *)
(* channel, or the mute is released.                                        *)
NewChannelIsMuted ==
  \A c \in Channel :
    (Live /\ c \in exists) ~> (overwrite[c].own = Muted \/ ~Live)

(* mutes.py:4 "unrelated admin changes survive", read without exception.    *)
(* A PUT carries the other bits as they were before the archive flush.      *)
UnrelatedChangesSurvive ==
  \A c \in Channel : overwrite[c].other = wanted[c].other
=============================================================================
