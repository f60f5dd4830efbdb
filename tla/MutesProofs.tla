----------------------------- MODULE MutesProofs -----------------------------
(***************************************************************************)
(* Theorems about Mutes, for any channels, bits, queue and faults.         *)
(***************************************************************************)
EXTENDS Mutes, TLAPS

(* Queue operations keep the queue's type. *)
LEMMA TailType == ASSUME jobs \in Seq(Job), jobs # <<>>
                  PROVE  Tail(jobs) \in Seq(Job) /\ Head(jobs) \in Job
  OBVIOUS

LEMMA RevokeType ==
  ASSUME jobs \in Seq(Job)
  PROVE  [i \in DOMAIN jobs |->
            IF jobs[i].kind = "automute" THEN [jobs[i] EXCEPT !.revoked = TRUE]
            ELSE jobs[i]] \in Seq(Job)
<1> DEFINE s == [i \in DOMAIN jobs |->
                   IF jobs[i].kind = "automute" THEN [jobs[i] EXCEPT !.revoked = TRUE]
                   ELSE jobs[i]]
<1>1. /\ Len(jobs) \in Nat /\ DOMAIN jobs = 1..Len(jobs)
      /\ \A i \in 1..Len(jobs) : jobs[i] \in Job
  OBVIOUS
<1>2. s \in [1..Len(jobs) -> Job]
  BY <1>1 DEF Job
<1>. QED
  BY <1>1, <1>2

LEMMA RestType == Rest => /\ pc' \in Step /\ task' \in Kind \cup {"reconcile"}
                          /\ snap' \in [Channel -> Overwrite \cup {Absent}]
                          /\ todo' \subseteq Channel
  BY DEF Rest, Step, Kind

LEMMA PutType ==
  ASSUME TypeOK, NEW c \in Channel, Put(c), snap[c] # Absent, plan[c] # Absent \/ pc = "write"
  PROVE  overwrite' \in [Channel -> Overwrite]
<1>1. snap[c] \in Overwrite /\ (pc # "write" => plan[c] \in Own)
  BY DEF TypeOK
<1>2. Body(c) \in Overwrite
  BY <1>1, BitsAssumption DEF Body, Restricted, Restored, Overwrite
<1>. QED
  BY <1>2 DEF Put, TypeOK

-----------------------------------------------------------------------------
(* What the worker may write it has seen, and a release only what it had   *)
(* planned; the pc says what state the record is in.                       *)

Under == Live \/ state = "releasing"

Seeing ==
  /\ todo \subseteq Seen
  /\ pc \in {"check", "request", "restore"} => \A c \in Channel : plan[c] # Absent => c \in Seen
  /\ pc \in {"archive", "write"} => \A c \in Seen : plan[c] # Absent
  /\ pc \in {"request", "restore"} => \A c \in todo : plan[c] # Absent
  /\ pc = "request" => \A c \in Channel : plan[c] # Absent => c \in todo
  /\ Seen \subseteq exists
  /\ \A c \in Channel : plan[c] # Absent => c \in exists

Where ==
  /\ pc \in {"idle", "mute", "unmute"} => todo = {}
  /\ pc \in {"archive", "write"} => state = "applying"
  /\ pc \in {"unmute", "check", "request", "restore"} => Under /\ task = "unmute"
  /\ pc \in {"request", "restore"} => state = "releasing"
  /\ (pc # "idle" /\ task = "reconcile") => Live
  /\ pc \in {"write", "restore"} => ~waiting

Sound == TypeOK /\ Seeing /\ Where

LEMMA SeenType == Seen \subseteq Channel
  BY DEF Seen

LEMMA SoundInit == Init => Sound
<1> SUFFICES ASSUME Init PROVE Sound
  OBVIOUS
<1>1. TypeOK
  <2>1. overwrite \in [Channel -> Overwrite] /\ wanted \in [Channel -> Overwrite]
    BY BitsAssumption DEF Init, Overwrite
  <2>2. jobs \in Seq(Job)
    BY DEF Init
  <2>3. spam \in 0..Threshold /\ edits \in 0..MaxEdits /\ faults \in 0..MaxFaults
    BY BoundAssumption DEF Init
  <2>4. plan \in [Channel -> Own \cup {Absent}] /\ snap \in [Channel -> Overwrite \cup {Absent}]
    BY DEF Init
  <2>5. exists \subseteq Channel
    BY ChannelAssumption DEF Init
  <2>. QED
    BY <2>1, <2>2, <2>3, <2>4, <2>5 DEF Init, TypeOK, State, Step, Kind
<1>2. Seeing /\ Where
  BY DEF Init, Seeing, Where, Seen, Live, Under
<1>. QED
  BY <1>1, <1>2 DEF Sound

LEMMA SoundGuild == ASSUME Sound, Guild PROVE Sound'
<1>1. ASSUME NEW c \in Channel, AddChannel(c) PROVE Sound'
  BY <1>1 DEF Sound, AddChannel, TypeOK, Seeing, Where, Seen, Live, Under,
              record, worker, history
<1>2. ASSUME NEW c \in Channel, NEW o \in Overwrite, Edited(c, o),
             wanted' \in [Channel -> Overwrite], raced' \subseteq Channel,
             contested' \subseteq Channel
      PROVE  Sound'
  <2>1. TypeOK'
    BY <1>2, BoundAssumption DEF Sound, Edited, TypeOK, record, worker
  <2>2. Seeing' /\ Where'
    BY <1>2 DEF Sound, Edited, Seeing, Where, Seen, Live, Under, record, worker
  <2>. QED
    BY <2>1, <2>2 DEF Sound
<1>3. ASSUME NEW c \in Channel, NEW b \in Other, EditOther(c, b) PROVE Sound'
  <2>1. [overwrite[c] EXCEPT !.other = b] \in Overwrite
    BY DEF Sound, TypeOK, Overwrite
  <2>2. wanted' \in [Channel -> Overwrite]
    BY <1>3 DEF Sound, TypeOK, Overwrite, EditOther
  <2>. QED
    BY <1>2, <1>3, <2>1, <2>2 DEF EditOther, Sound, TypeOK
<1>4. ASSUME NEW c \in Channel, NEW b \in Own, EditOwn(c, b) PROVE Sound'
  <2>1. [overwrite[c] EXCEPT !.own = b] \in Overwrite
    BY DEF Sound, TypeOK, Overwrite
  <2>2. wanted' \in [Channel -> Overwrite]
    BY <1>4 DEF Sound, TypeOK, Overwrite, EditOwn
  <2>. QED
    BY <1>2, <1>4, <2>1, <2>2 DEF EditOwn, Sound, TypeOK
<1>5. ASSUME NEW k \in Kind, Queue(k) PROVE Sound'
  <2>1. jobs' \in Seq(Job)
    BY <1>5 DEF Queue, Sound, TypeOK, Job
  <2>. QED
    BY <1>5, <2>1 DEF Queue, Sound, TypeOK, Seeing, Where, Seen, Live, Under,
       discord, record, worker, history
<1>. QED
  BY <1>1, <1>3, <1>4, <1>5 DEF Guild

(* Jobs begin and end without touching Discord or the record. *)
LEMMA SoundIdle ==
  ASSUME Sound, Flush \/ Deny \/ Infraction \/ StartMute \/ StartUnmute \/ Reconcile
  PROVE  Sound'
<1>1. CASE Flush
  BY <1>1 DEF Flush, Sound, TypeOK, Seeing, Where, Seen, Live, Under,
              discord, record, worker, history
<1>2. CASE Deny
  <2>1. jobs' \in Seq(Job) /\ waiting' = FALSE
    BY <1>2, TailType DEF Deny, Claimed, Sound, TypeOK
  <2>. QED
    BY <1>2, <2>1 DEF Deny, Sound, TypeOK, Seeing, Where, Seen, Live, Under,
                      discord, record, worker, history
<1>3. CASE Infraction
  <2>1. jobs' \in Seq(Job) /\ waiting' = FALSE /\ spam' \in 0..Threshold
    <3>1. Tail(jobs) \in Seq(Job) /\ [kind |-> "automute", revoked |-> FALSE] \in Job
      BY <1>3, TailType DEF Infraction, Claimed, Sound, TypeOK, Job, Kind
    <3>2. spam' \in 0..Threshold
      BY <1>3, BoundAssumption DEF Infraction, Sound, TypeOK
    <3>3. Append(Tail(jobs), [kind |-> "automute", revoked |-> FALSE]) \in Seq(Job)
      BY <3>1
    <3>. QED
      BY <1>3, <3>1, <3>2, <3>3, Zenon DEF Infraction, Claimed
  <2>2. TypeOK'
    BY <1>3, <2>1 DEF Infraction, Sound, TypeOK, discord, record, worker, history
  <2>3. Seeing' /\ Where'
    BY <1>3, <2>1 DEF Infraction, Sound, Seeing, Where, Seen, Live, Under,
                      discord, record, worker, history
  <2>. QED
    BY <2>2, <2>3 DEF Sound
<1>4. CASE StartMute
  <2>1. /\ jobs' \in Seq(Job) /\ waiting' = FALSE
        /\ pc = "idle" /\ pc' = "mute" /\ task' \in {"mute", "automute"}
    BY <1>4, TailType DEF StartMute, Claimed, Sound, TypeOK
  <2>2. pc' \in Step /\ task' \in Kind \cup {"reconcile"} /\ task' # "reconcile"
    BY <2>1 DEF Step, Kind
  <2>. QED
    BY <1>4, <2>1, <2>2 DEF StartMute, Sound, TypeOK, Seeing, Where, Seen, Live, Under,
                            discord, record, history
<1>5. CASE StartUnmute
  <2>1. /\ jobs' \in Seq(Job) /\ waiting' = FALSE
        /\ pc = "idle" /\ pc' = "unmute" /\ task' = "unmute"
        /\ state \notin {"none", "released"}
    BY <1>5, TailType DEF StartUnmute, Claimed, Sound, TypeOK
  <2>2. pc' \in Step /\ task' \in Kind \cup {"reconcile"}
    BY <2>1 DEF Step, Kind
  <2>3. Under
    BY <2>1 DEF Under, Live, Sound, TypeOK, State
  <2>. QED
    BY <1>5, <2>1, <2>2, <2>3 DEF StartUnmute, Sound, TypeOK, Seeing, Where, Seen, Live, Under,
                            discord, record, history
<1>6. CASE Reconcile
  BY <1>6 DEF Reconcile, Sound, TypeOK, Seeing, Where, Seen, Live, Under, Step,
              discord, record, history
<1>. QED
  BY <1>1, <1>2, <1>3, <1>4, <1>5, <1>6

LEMMA SoundRest ==
  ASSUME Sound, Rest, exists' = exists, overwrite' \in [Channel -> Overwrite],
         state' \in State, plan' = plan, jobs' \in Seq(Job), spam' \in 0..Threshold,
         waiting' \in BOOLEAN, wanted' = wanted, raced' = raced, contested' = contested,
         edits' = edits, faults' \in 0..MaxFaults
  PROVE  Sound'
<1>1. TypeOK'
  BY RestType DEF Sound, TypeOK
<1>2. Seen' = {}
  BY DEF Seen, Rest
<1>3. Seeing' /\ Where'
  BY <1>2 DEF Sound, Seeing, Where, Rest
<1>. QED
  BY <1>1, <1>3 DEF Sound

LEMMA SoundRead == ASSUME Sound, ReadChannels PROVE Sound'
<1>1. snap' \in [Channel -> Overwrite \cup {Absent}]
  BY DEF ReadChannels, Sound, TypeOK, discord
<1>2. Seen' = exists
  <2>1. \A c \in exists : overwrite[c] # Absent /\ c \in Channel
    BY AbsentAssumption DEF Sound, TypeOK, Overwrite
  <2>. QED
    BY <2>1 DEF Seen, ReadChannels, Sound, TypeOK
<1>3. TypeOK'
  BY <1>1 DEF ReadChannels, Sound, TypeOK, Step, discord, record, history
<1>4. Seeing'
  BY <1>2 DEF ReadChannels, Sound, Seeing, Where, discord, record, history
<1>5. Where'
  BY DEF ReadChannels, Sound, Where, Live, Under, discord, record, history
<1>. QED
  BY <1>3, <1>4, <1>5 DEF Sound

LEMMA SoundPlan == ASSUME Sound, PlanMute PROVE Sound'
<1>1. \A c \in Seen : snap[c] \in Overwrite /\ snap[c].own \in Own /\ snap[c].own # Absent
  BY AbsentAssumption DEF Sound, TypeOK, Overwrite, Seen
<1>2. plan' \in [Channel -> Own \cup {Absent}]
  BY <1>1 DEF PlanMute, Sound, TypeOK
<1>3. Seen' = Seen /\ \A c \in Seen : plan'[c] # Absent
  BY <1>1, SeenType DEF PlanMute, Seen, Kept
<1>4. \A c \in Channel : plan'[c] # Absent => c \in exists
  BY DEF PlanMute, Sound, Seeing, Kept
<1>5. TypeOK'
  BY <1>2, SeenType DEF PlanMute, Sound, TypeOK, Step, State, discord, history
<1>6. Seeing'
  BY <1>3, <1>4 DEF PlanMute, Sound, Seeing, discord
<1>7. Where'
  BY DEF PlanMute, Sound, Where, Live, Under, history
<1>. QED
  BY <1>5, <1>6, <1>7 DEF Sound

LEMMA SoundArchive == ASSUME Sound, Archive PROVE Sound'
<1>1. TypeOK'
  BY DEF Archive, Unarchived, Sound, TypeOK, Step, discord, record, history
<1>2. Seen' = Seen
  BY DEF Archive, Seen
<1>3. Seeing' /\ Where'
  BY <1>2 DEF Archive, Unarchived, Sound, Seeing, Where, Live, Under, discord, record, history
<1>. QED
  BY <1>1, <1>3 DEF Sound

(* A PUT for a channel on the list is well formed. *)
LEMMA SoundPut ==
  ASSUME Sound, NEW c \in todo, Put(c)
  PROVE  c \in Channel /\ overwrite' \in [Channel -> Overwrite]
<1>1. c \in Channel /\ snap[c] # Absent
  BY DEF Sound, TypeOK, Seeing, Seen
<1>2. pc \in {"write", "restore"} /\ (plan[c] # Absent \/ pc = "write")
  BY DEF Put, Sound, Seeing
<1>. QED
  BY <1>1, <1>2, PutType DEF Sound

LEMMA SoundWrite == ASSUME Sound, NEW c \in Channel, Write(c) PROVE Sound'
<1>1. c \in todo /\ overwrite' \in [Channel -> Overwrite]
  BY SoundPut DEF Write, Put
<1>2. TypeOK'
  BY <1>1 DEF Write, Sound, TypeOK, record, history
<1>3. Seen' = Seen /\ pc \in {"write", "restore"}
  BY DEF Write, Seen, Put
<1>4. Seeing' /\ Where'
  BY <1>3 DEF Write, Sound, Seeing, Where, Live, Under, record, history
<1>. QED
  BY <1>2, <1>4 DEF Sound

LEMMA SoundRequest == ASSUME Sound, RequestRelease PROVE Sound'
<1>1. Seen' = Seen
  BY DEF RequestRelease, Seen
<1>2. TypeOK'
  BY SeenType DEF RequestRelease, Sound, TypeOK, Step, State, discord, history
<1>3. Seeing'
  BY <1>1 DEF RequestRelease, Sound, Seeing, discord
<1>4. Where'
  BY DEF RequestRelease, Sound, Where, Under, Live
<1>. QED
  BY <1>2, <1>3, <1>4 DEF Sound

LEMMA SoundEnd ==
  ASSUME Sound, Refuse \/ FinishMute \/ RefuseRelease \/ FinishRelease \/ Fail
  PROVE  Sound'
<1>1. CASE Refuse \/ RefuseRelease \/ FinishMute
  BY <1>1, SoundRest DEF Refuse, RefuseRelease, FinishMute, Sound, TypeOK, State,
                         discord, record, history
<1>2. CASE FinishRelease
  <2>1. jobs' \in Seq(Job)
    BY <1>2, RevokeType DEF FinishRelease, Sound, TypeOK
  <2>2. spam' \in 0..Threshold
    BY <1>2, BoundAssumption DEF FinishRelease
  <2>. QED
    BY <1>2, <2>1, <2>2, SoundRest DEF FinishRelease, Sound, TypeOK, State, discord, history
<1>3. CASE Fail
  <2>1. overwrite' \in [Channel -> Overwrite]
    BY <1>3, SoundPut DEF Fail, Sound, TypeOK
  <2>2. state' \in State
    BY <1>3 DEF Fail, Sound, TypeOK, State
  <2>3. faults' \in 0..MaxFaults
    BY <1>3, BoundAssumption DEF Fail, Sound, TypeOK
  <2>. QED
    BY <1>3, <2>1, <2>2, <2>3, SoundRest DEF Fail, Sound, TypeOK, history
<1>. QED
  BY <1>1, <1>2, <1>3

LEMMA SoundStep == Sound /\ [Next]_vars => Sound'
<1> SUFFICES ASSUME Sound, [Next]_vars PROVE Sound'
  OBVIOUS
<1>1. CASE Worker
  BY <1>1, SoundIdle, SoundRead, SoundPlan, SoundArchive, SoundWrite, SoundRequest, SoundEnd
  DEF Worker
<1>2. CASE Guild
  BY <1>2, SoundGuild
<1>3. CASE Fail
  BY <1>3, SoundEnd
<1>4. CASE UNCHANGED vars
  BY <1>4 DEF vars, discord, record, worker, history, Sound, TypeOK, Seeing, Where,
              Seen, Live, Under
<1>. QED
  BY <1>1, <1>2, <1>3, <1>4 DEF Next

LEMMA SoundAlways == Spec => []Sound
<1>. QED
  BY SoundInit, SoundStep, PTL DEF Spec

(* Every behaviour of the worker, the queue and the guild is type-correct. *)
THEOREM TypeCorrect == Spec => []TypeOK
<1>1. Sound => TypeOK
  BY DEF Sound
<1>. QED
  BY <1>1, SoundAlways, PTL

(* Discord is written, by a step that is no administrator's edit, only     *)
(* once the event that announces the change is archived.                   *)
THEOREM ArchivedFirst == Spec => WriteIsArchived
<1>1. ASSUME Sound, [Next]_vars
      PROVE  [(overwrite' # overwrite /\ edits' = edits) => ~waiting]_vars
  <2> SUFFICES ASSUME Next, overwrite' # overwrite, edits' = edits PROVE ~waiting
    BY <1>1 DEF vars, discord, record, worker, history
  <2>1. CASE Guild
    <3>1. ASSUME NEW c \in Channel, NEW o, Edited(c, o) PROVE FALSE
      BY <1>1, <3>1 DEF Edited, Sound, TypeOK
    <3>. QED
      BY <2>1, <3>1 DEF Guild, AddChannel, EditOther, EditOwn, Queue, discord
  <2>2. CASE (\E c \in Channel : Write(c)) \/ Fail
    <3>1. pc \in {"write", "restore"}
      BY <2>2 DEF Write, Fail, Put
    <3>. QED
      BY <1>1, <3>1 DEF Sound, Where
  <2>3. CASE Worker /\ ~(\E c \in Channel : Write(c))
    BY <2>3 DEF Worker, Flush, Deny, Infraction, StartMute, StartUnmute, Reconcile,
                ReadChannels, Refuse, PlanMute, Archive, FinishMute, RefuseRelease,
                RequestRelease, FinishRelease, discord
  <2>. QED
    BY <2>1, <2>2, <2>3 DEF Next
<1>. QED
  BY <1>1, SoundAlways, PTL DEF Spec, WriteIsArchived

-----------------------------------------------------------------------------
(* The inductive invariant behind Undoable: the plan tells the truth about *)
(* what administrators left, bits that differ are in it, the snapshot is   *)
(* still true for channels to be written, and a release that has passed a  *)
(* channel has put it back.                                                *)

PlanTrue ==
  Under => \A c \in Channel \ contested : plan[c] # Absent => plan[c] = wanted[c].own

Owned ==
  \A c \in Channel \ contested :
    overwrite[c].own # wanted[c].own => Under /\ plan[c] # Absent

SnapTrue ==
  Holding => \A c \in Seen \ contested :
               (pc \in {"write", "restore"} => c \in todo) => snap[c].own = overwrite[c].own

PutBack ==
  pc = "restore" => \A c \in Channel \ contested :
                      (plan[c] # Absent /\ c \notin todo) => overwrite[c].own = wanted[c].own

Undo == PlanTrue /\ Owned /\ SnapTrue /\ PutBack

LEMMA UndoInit == Init => Undo
  BY DEF Init, Undo, PlanTrue, Owned, SnapTrue, PutBack, Holding

LEMMA HoldingSteps == ASSUME TypeOK
  PROVE Holding <=> pc \in {"plan", "check", "archive", "request", "write", "restore"}
  BY DEF TypeOK, Step, Holding

LEMMA UndoGuild == ASSUME Sound, Undo, Guild PROVE Undo'
<1>1. ASSUME NEW c \in Channel, AddChannel(c) PROVE Undo'
  BY <1>1 DEF AddChannel, Undo, PlanTrue, Owned, SnapTrue, PutBack, Holding, Seen,
              Under, Live, record, worker, history
<1>2. ASSUME NEW c \in Channel, NEW b \in Other, EditOther(c, b) PROVE Undo'
  <2>1. \A d \in Channel : overwrite'[d].own = overwrite[d].own /\ wanted'[d].own = wanted[d].own
    BY <1>2 DEF EditOther, Edited, Sound, TypeOK, Overwrite
  <2>2. Seen' = Seen /\ Seen \subseteq Channel
    BY <1>2 DEF EditOther, Edited, Seen, worker
  <2>. QED
    BY <1>2, <2>1, <2>2 DEF EditOther, Edited, Undo, PlanTrue, Owned, SnapTrue, PutBack,
       Holding, Under, Live, record, worker
<1>3. ASSUME NEW c \in Channel, NEW b \in Own, EditOwn(c, b) PROVE Undo'
  <2>1. /\ \A d \in Channel \ {c} : overwrite'[d] = overwrite[d] /\ wanted'[d] = wanted[d]
        /\ overwrite'[c].own = b /\ wanted'[c].own = b
    BY <1>3 DEF EditOwn, Edited, Sound, TypeOK, Overwrite
  <2>2. Seen' = Seen /\ Seen \subseteq Channel
    BY <1>3 DEF EditOwn, Edited, Seen, worker
  <2>3. (Holding \/ Under) => contested' = contested \cup {c}
    BY <1>3 DEF EditOwn, Under
  <2>4. contested \ {c} \subseteq contested' \ {c}
    BY <1>3 DEF EditOwn
  <2>5. Under' = Under /\ Holding' = Holding
    BY <1>3 DEF EditOwn, Edited, Under, Live, Holding, record, worker
  <2>6. plan' = plan /\ pc' = pc /\ snap' = snap /\ todo' = todo
    BY <1>3 DEF EditOwn, Edited, record, worker
  <2>7. PlanTrue'
    BY <2>1, <2>3, <2>4, <2>5, <2>6 DEF Undo, PlanTrue
  <2>8. Owned'
    BY <2>1, <2>4, <2>5, <2>6 DEF Undo, Owned
  <2>9. SnapTrue'
    BY <2>1, <2>2, <2>3, <2>4, <2>5, <2>6 DEF Undo, SnapTrue
  <2>10. PutBack'
    <3>1. pc = "restore" => Holding
      BY DEF Holding
    <3>. QED
      BY <2>1, <2>3, <2>4, <2>6, <3>1 DEF Undo, PutBack
  <2>. QED
    BY <2>7, <2>8, <2>9, <2>10 DEF Undo
<1>4. ASSUME NEW k \in Kind, Queue(k) PROVE Undo'
  BY <1>4 DEF Queue, Undo, PlanTrue, Owned, SnapTrue, PutBack, Holding, Seen,
              Under, Live, discord, record, worker, history
<1>. QED
  BY <1>1, <1>2, <1>3, <1>4 DEF Guild

LEMMA UndoIdle ==
  ASSUME Undo, Flush \/ Deny \/ Infraction \/ StartMute \/ StartUnmute \/ Reconcile
  PROVE  Undo'
<1>1. /\ UNCHANGED <<discord, record, history>>
      /\ pc = "idle" /\ pc' \in {"idle", "mute", "unmute"}
  BY DEF Flush, Deny, Infraction, StartMute, StartUnmute, Reconcile, Claimed, worker
<1>. QED
  BY <1>1 DEF Undo, PlanTrue, Owned, SnapTrue, PutBack, Holding, Under, Live,
              discord, record, history

LEMMA UndoRead == ASSUME Sound, Undo, ReadChannels PROVE Undo'
<1>1. \A c \in Seen' : snap'[c] = overwrite[c]
  BY DEF ReadChannels, Seen
<1>2. pc' \notin {"write", "restore"}
  BY DEF ReadChannels
<1>. QED
  BY <1>1, <1>2 DEF ReadChannels, Undo, PlanTrue, Owned, SnapTrue, PutBack, Under, Live,
     discord, record, history

LEMMA UndoPlan == ASSUME Sound, Undo, PlanMute PROVE Undo'
<1>1. Holding /\ Seen' = Seen /\ Under'
  BY DEF PlanMute, Holding, Seen, Under, Live
<1>2. Under <=> Live
  BY DEF PlanMute, Under
<1>3. PlanTrue'
  <2> SUFFICES ASSUME NEW c \in Channel \ contested, plan'[c] # Absent
               PROVE  plan'[c] = wanted[c].own
    BY DEF PlanTrue, PlanMute, history
  <2>1. CASE Kept(c)
    BY <2>1, <1>2 DEF PlanMute, Undo, PlanTrue, Kept
  <2>2. CASE ~Kept(c)
    <3>1. c \in Seen /\ plan'[c] = snap[c].own
      BY <2>2 DEF PlanMute
    <3>2. snap[c].own = overwrite[c].own
      BY <1>1, <3>1 DEF PlanMute, Undo, SnapTrue
    <3>3. overwrite[c].own = wanted[c].own
      BY <1>2, <2>2 DEF Undo, Owned, Kept
    <3>. QED
      BY <3>1, <3>2, <3>3
  <2>. QED
    BY <2>1, <2>2
<1>4. Owned'
  BY <1>1, <1>2 DEF PlanMute, Undo, Owned, Kept, discord, history
<1>5. SnapTrue' /\ PutBack'
  BY <1>1 DEF PlanMute, Undo, SnapTrue, PutBack, discord, history
<1>. QED
  BY <1>3, <1>4, <1>5 DEF Undo

LEMMA UndoHold == ASSUME Sound, Undo, Archive \/ RequestRelease PROVE Undo'
<1>1. CASE Archive
  <2>1. Holding /\ Seen' = Seen /\ (Under' <=> Under) /\ pc \in {"archive", "request"}
    BY <1>1 DEF Archive, Holding, Seen, Under, Live, record
  <2>2. PlanTrue' /\ Owned'
    BY <1>1, <2>1 DEF Archive, Undo, PlanTrue, Owned, discord, record, history
  <2>3. SnapTrue'
    BY <1>1, <2>1 DEF Archive, Undo, SnapTrue, discord, history
  <2>4. PutBack'
    <3> SUFFICES ASSUME pc = "request", NEW c \in Channel \ contested,
                        plan[c] # Absent, c \notin todo
                 PROVE  overwrite[c].own = wanted[c].own
      BY <1>1, <2>1 DEF Archive, PutBack, discord, record, history
    <3>. QED
      BY DEF Sound, Seeing
  <2>. QED
    BY <2>2, <2>3, <2>4 DEF Undo
<1>2. CASE RequestRelease
  <2>1. Holding /\ Seen' = Seen /\ Under' /\ Under
    BY <1>2 DEF RequestRelease, Holding, Seen, Under, Live, Sound, Where
  <2>. QED
    BY <1>2, <2>1 DEF RequestRelease, Undo, PlanTrue, Owned, SnapTrue, PutBack, Holding,
                      discord, history
<1>. QED
  BY <1>1, <1>2

(* What a PUT does to the owned and to the other bits. *)
LEMMA PutOwn ==
  ASSUME Sound, Undo, NEW c \in todo, Put(c)
  PROVE  /\ c \in Channel /\ plan[c] # Absent /\ Under
         /\ \A d \in Channel \ {c} : overwrite'[d] = overwrite[d]
         /\ (pc = "restore" /\ c \notin contested) => overwrite'[c].own = plan[c]
<1>1. c \in Channel /\ c \in Seen /\ snap[c] \in Overwrite /\ pc \in {"write", "restore"}
  BY DEF Sound, TypeOK, Seeing, Seen, Put
<1>2. plan[c] # Absent /\ Under
  BY <1>1 DEF Sound, Seeing, Where, Under, Live
<1>3. \A d \in Channel \ {c} : overwrite'[d] = overwrite[d]
  BY <1>1 DEF Put, Sound, TypeOK
<1>4. ASSUME pc = "restore", c \notin contested PROVE overwrite'[c].own = plan[c]
  <2>1. Body(c) = Restored(c) /\ Restored(c).own = plan[c]
    BY <1>1, <1>4 DEF Body, Restored, Overwrite
  <2>2. snap[c].own = overwrite[c].own
    BY <1>1, <1>4 DEF Undo, SnapTrue, Holding
  <2>. QED
    BY <1>1, <2>1, <2>2 DEF Put, Sound, TypeOK
<1>. QED
  BY <1>1, <1>2, <1>3, <1>4

LEMMA UndoWrite == ASSUME Sound, Undo, NEW c \in Channel, Write(c) PROVE Undo'
<1>1. c \in todo /\ Put(c)
  BY DEF Write, Put
<1>2. /\ Seen' = Seen /\ Seen \subseteq Channel /\ (Under' <=> Under)
      /\ pc' = pc /\ plan' = plan /\ wanted' = wanted /\ contested' = contested
      /\ snap' = snap /\ todo' = todo \ {c} /\ pc \in {"write", "restore"}
  BY DEF Write, Put, Seen, Under, Live, record, history
<1>3. PlanTrue'
  BY <1>2 DEF Undo, PlanTrue
<1>4. Owned'
  BY <1>1, <1>2, PutOwn DEF Undo, Owned
<1>5. SnapTrue'
  BY <1>1, <1>2, PutOwn DEF Undo, SnapTrue, Holding
<1>6. PutBack'
  <2> SUFFICES ASSUME pc = "restore", NEW d \in Channel \ contested, plan[d] # Absent,
                      d \notin todo \ {c}
               PROVE  overwrite'[d].own = wanted[d].own
    BY <1>2 DEF PutBack
  <2>1. CASE d = c
    BY <1>1, <1>2, <2>1, PutOwn DEF Undo, PlanTrue
  <2>2. CASE d # c
    BY <1>1, <2>2, PutOwn DEF Undo, PutBack
  <2>. QED
    BY <2>1, <2>2
<1>. QED
  BY <1>3, <1>4, <1>5, <1>6 DEF Undo

LEMMA UndoEnd ==
  ASSUME Sound, Undo, Refuse \/ FinishMute \/ RefuseRelease \/ FinishRelease \/ Fail
  PROVE  Undo'
<1>1. pc' = "idle" /\ plan' = plan /\ wanted' = wanted /\ contested' = contested
  BY DEF Refuse, FinishMute, RefuseRelease, FinishRelease, Fail, Rest, record, history
<1>2. SnapTrue' /\ PutBack'
  BY <1>1 DEF SnapTrue, PutBack, Holding
<1>3. CASE Refuse \/ RefuseRelease
  BY <1>1, <1>2, <1>3 DEF Refuse, RefuseRelease, Undo, PlanTrue, Owned, Under, Live, discord, record
<1>4. CASE FinishMute
  BY <1>1, <1>2, <1>4 DEF FinishMute, Undo, PlanTrue, Owned, Under, Live, discord, Sound, Where
<1>5. CASE FinishRelease
  <2>1. ~Under' /\ overwrite' = overwrite
    BY <1>5 DEF FinishRelease, Under, Live, discord
  <2>2. \A c \in Channel \ contested : overwrite[c].own = wanted[c].own
    BY <1>5 DEF FinishRelease, Undo, Owned, PutBack
  <2>. QED
    BY <1>1, <1>2, <2>1, <2>2 DEF Undo, PlanTrue, Owned
<1>6. CASE Fail
  <2>1. Under' <=> Under
    BY <1>6 DEF Fail, Sound, Where, Under, Live
  <2>2. PlanTrue'
    BY <1>1, <2>1 DEF Undo, PlanTrue
  <2>3. Owned'
    <3>1. CASE overwrite' = overwrite
      BY <1>1, <2>1, <3>1 DEF Undo, Owned
    <3>2. CASE \E c \in todo : Put(c)
      <4>1. PICK c \in todo : Put(c)
        BY <3>2
      <4>. QED
        BY <1>1, <2>1, <4>1, PutOwn DEF Undo, Owned
    <3>. QED
      BY <1>6, <3>1, <3>2 DEF Fail
  <2>. QED
    BY <1>2, <2>2, <2>3 DEF Undo
<1>. QED
  BY <1>3, <1>4, <1>5, <1>6

LEMMA UndoStep == Sound /\ Undo /\ [Next]_vars => Undo'
<1> SUFFICES ASSUME Sound, Undo, [Next]_vars PROVE Undo'
  OBVIOUS
<1>1. CASE Worker
  BY <1>1, UndoIdle, UndoRead, UndoPlan, UndoHold, UndoWrite, UndoEnd DEF Worker
<1>2. CASE Guild
  BY <1>2, UndoGuild
<1>3. CASE Fail
  BY <1>3, UndoEnd
<1>4. CASE UNCHANGED vars
  BY <1>4 DEF vars, discord, record, worker, history, Undo, PlanTrue, Owned, SnapTrue,
              PutBack, Holding, Seen, Under, Live
<1>. QED
  BY <1>1, <1>2, <1>3, <1>4 DEF Next

(* Whatever was applied, interrupted, reconciled or half released, owned   *)
(* bits that differ from what administrators left can be put back from the *)
(* plan, and after a release none differ.                                  *)
THEOREM AlwaysUndoable == Spec => []Undoable
<1>1. Sound /\ Undo => Undoable
  BY DEF Undo, Owned, PlanTrue, Undoable, Under
<1>. QED
  BY <1>1, UndoInit, UndoStep, SoundAlways, PTL DEF Spec

-----------------------------------------------------------------------------
(* Bits that are none of greyBot's business *)

OtherKept ==
  /\ OnlyRacedEditsAreLost
  /\ Holding => \A c \in Seen \ raced : snap[c].other = overwrite[c].other

LEMMA OtherInit == Init => OtherKept
  BY DEF Init, OtherKept, OnlyRacedEditsAreLost, Holding

LEMMA OtherGuild == ASSUME Sound, OtherKept, Guild PROVE OtherKept'
<1>1. CASE (\E c \in Channel : AddChannel(c)) \/ (\E k \in Kind : Queue(k))
  BY <1>1 DEF AddChannel, Queue, OtherKept, OnlyRacedEditsAreLost, Holding, Seen,
              discord, record, worker, history
<1>2. ASSUME NEW c \in Channel, NEW b \in Other, EditOther(c, b) PROVE OtherKept'
  <2>1. /\ \A d \in Channel \ {c} : overwrite'[d] = overwrite[d] /\ wanted'[d] = wanted[d]
        /\ overwrite'[c].other = b /\ wanted'[c].other = b
    BY <1>2 DEF EditOther, Edited, Sound, TypeOK, Overwrite
  <2>2. Seen' = Seen /\ Seen \subseteq Channel /\ (Holding' <=> Holding) /\ snap' = snap
    BY <1>2 DEF EditOther, Edited, Seen, Holding, worker
  <2>3. Holding => raced' = raced \cup {c}
    BY <1>2 DEF EditOther
  <2>4. raced \ {c} \subseteq raced'
    BY <1>2 DEF EditOther
  <2>. QED
    BY <2>1, <2>2, <2>3, <2>4 DEF OtherKept, OnlyRacedEditsAreLost
<1>3. ASSUME NEW c \in Channel, NEW b \in Own, EditOwn(c, b) PROVE OtherKept'
  <2>1. \A d \in Channel : overwrite'[d].other = overwrite[d].other
                           /\ wanted'[d].other = wanted[d].other
    BY <1>3 DEF EditOwn, Edited, Sound, TypeOK, Overwrite
  <2>2. Seen' = Seen /\ Seen \subseteq Channel /\ (Holding' <=> Holding) /\ snap' = snap
    BY <1>3 DEF EditOwn, Edited, Seen, Holding, worker
  <2>. QED
    BY <1>3, <2>1, <2>2 DEF EditOwn, OtherKept, OnlyRacedEditsAreLost
<1>. QED
  BY <1>1, <1>2, <1>3 DEF Guild

LEMMA PutOther ==
  ASSUME Sound, OtherKept, NEW c \in todo, Put(c)
  PROVE  \A d \in Channel \ raced : overwrite'[d].other = overwrite[d].other
<1>1. c \in Channel /\ c \in Seen /\ snap[c] \in Overwrite /\ Holding
  BY DEF Sound, TypeOK, Seeing, Seen, Put, Holding
<1>2. Body(c).other = snap[c].other
  BY <1>1 DEF Body, Restricted, Restored, Overwrite
<1>. QED
  BY <1>1, <1>2 DEF Put, Sound, TypeOK, OtherKept

LEMMA OtherStep == Sound /\ OtherKept /\ [Next]_vars => OtherKept'
<1> SUFFICES ASSUME Sound, OtherKept, [Next]_vars PROVE OtherKept'
  OBVIOUS
<1>1. CASE Flush \/ Deny \/ Infraction \/ StartMute \/ StartUnmute \/ Reconcile
  <2>1. /\ UNCHANGED <<discord, history>>
        /\ pc = "idle" /\ pc' \in {"idle", "mute", "unmute"}
    BY <1>1 DEF Flush, Deny, Infraction, StartMute, StartUnmute, Reconcile, Claimed, worker
  <2>. QED
    BY <2>1 DEF OtherKept, OnlyRacedEditsAreLost, Holding, discord, history
<1>2. CASE ReadChannels
  BY <1>2 DEF ReadChannels, OtherKept, OnlyRacedEditsAreLost, Seen, discord, history
<1>3. CASE PlanMute \/ Archive \/ RequestRelease
  <2>1. /\ UNCHANGED <<discord, history>> /\ Holding /\ Seen' = Seen /\ snap' = snap
    BY <1>3 DEF PlanMute, Archive, RequestRelease, Holding, Seen
  <2>. QED
    BY <2>1 DEF OtherKept, OnlyRacedEditsAreLost, discord, history
<1>4. ASSUME NEW c \in Channel, Write(c) PROVE OtherKept'
  <2>1. /\ c \in todo /\ Put(c) /\ UNCHANGED history /\ Holding
        /\ Seen' = Seen /\ snap' = snap /\ Seen \subseteq Channel
    BY <1>4 DEF Write, Put, Holding, Seen
  <2>. QED
    BY <2>1, PutOther DEF OtherKept, OnlyRacedEditsAreLost, history
<1>5. CASE Refuse \/ FinishMute \/ RefuseRelease \/ FinishRelease
  BY <1>5 DEF Refuse, FinishMute, RefuseRelease, FinishRelease, Rest, OtherKept,
              OnlyRacedEditsAreLost, Holding, discord, history
<1>6. CASE Fail
  <2>1. \A d \in Channel \ raced : overwrite'[d].other = overwrite[d].other
    BY <1>6, PutOther DEF Fail
  <2>. QED
    BY <1>6, <2>1 DEF Fail, Rest, OtherKept, OnlyRacedEditsAreLost, Holding, history
<1>7. CASE Guild
  BY <1>7, OtherGuild
<1>8. CASE UNCHANGED vars
  BY <1>8 DEF vars, discord, worker, history, OtherKept, OnlyRacedEditsAreLost, Holding, Seen
<1>. QED
  BY <1>1, <1>2, <1>3, <1>4, <1>5, <1>6, <1>7, <1>8 DEF Next, Worker

(* An edit of unrelated bits is lost only when it fell between the read    *)
(* and the write of one application or release.                            *)
THEOREM UnrelatedKept == Spec => []OnlyRacedEditsAreLost
<1>1. OtherKept => OnlyRacedEditsAreLost
  BY DEF OtherKept
<1>. QED
  BY <1>1, OtherInit, OtherStep, SoundAlways, PTL DEF Spec

-----------------------------------------------------------------------------
(* Automatic mutes *)

Earned ==
  /\ \A i \in DOMAIN jobs : (jobs[i].kind = "automute" /\ ~jobs[i].revoked) => spam = Threshold
  /\ (pc \in {"mute", "plan"} /\ task = "automute") => spam = Threshold

LEMMA EarnedInit == Init => Earned
  BY DEF Init, Earned

LEMMA EarnedStep == Sound /\ Earned /\ [Next]_vars => Earned'
<1> SUFFICES ASSUME Sound, Earned, [Next]_vars PROVE Earned'
  OBVIOUS
<1> DEFINE Fits(s, n) ==
      \A i \in DOMAIN s : (s[i].kind = "automute" /\ ~s[i].revoked) => n = Threshold
<1>1. ASSUME jobs # <<>> PROVE Fits(Tail(jobs), spam)
                               /\ (Head(jobs).kind = "automute" /\ ~Head(jobs).revoked => spam = Threshold)
  BY <1>1 DEF Sound, TypeOK, Earned
<1>2. CASE Deny
  BY <1>1, <1>2 DEF Deny, Claimed, Earned, worker
<1>3. CASE Infraction
  <2>1. jobs # <<>> /\ pc' = "idle"
    BY <1>3 DEF Infraction, Claimed, worker
  <2>2. Fits(Tail(jobs), spam')
    <3>1. spam = Threshold => spam' = Threshold
      BY <1>3, BoundAssumption DEF Infraction
    <3>. QED
      BY <1>1, <2>1, <3>1
  <2>3. CASE jobs' = Tail(jobs)
    BY <2>1, <2>2, <2>3 DEF Earned
  <2>4. CASE /\ spam' = Threshold
             /\ jobs' = Append(Tail(jobs), [kind |-> "automute", revoked |-> FALSE])
    BY <2>1, <2>4 DEF Earned
  <2>. QED
    BY <1>3, <2>3, <2>4 DEF Infraction
<1>4. CASE StartMute \/ StartUnmute
  <2>1. jobs # <<>> /\ jobs' = Tail(jobs) /\ spam' = spam /\ task' = Head(jobs).kind
    BY <1>4 DEF StartMute, StartUnmute, Claimed
  <2>2. task' = "automute" => ~Head(jobs).revoked
    BY <1>4 DEF StartMute, StartUnmute
  <2>. QED
    BY <1>1, <2>1, <2>2 DEF Earned
<1>5. CASE FinishRelease
  <2>1. \A i \in DOMAIN jobs' : jobs'[i].kind = "automute" => jobs'[i].revoked
    BY <1>5 DEF FinishRelease, Sound, TypeOK, Job
  <2>. QED
    BY <1>5, <2>1 DEF FinishRelease, Rest, Earned
<1>6. CASE \E k \in Kind : Queue(k)
  <2>1. PICK k \in Kind : Queue(k)
    BY <1>6
  <2>2. \A i \in DOMAIN jobs' : \/ i \in DOMAIN jobs /\ jobs'[i] = jobs[i]
                              \/ jobs'[i].kind # "automute"
    BY <2>1 DEF Queue, Sound, TypeOK
  <2>. QED
    BY <2>1, <2>2 DEF Queue, Earned, worker
<1>7. CASE Flush \/ ReadChannels \/ Reconcile \/ PlanMute \/ Archive \/ RequestRelease
           \/ (\E c \in Channel : Write(c))
  BY <1>7 DEF Flush, ReadChannels, Reconcile, PlanMute, Archive, RequestRelease, Write,
              Earned, worker
<1>8. CASE Refuse \/ RefuseRelease \/ FinishMute \/ Fail
  BY <1>8 DEF Refuse, RefuseRelease, FinishMute, Fail, Rest, Earned
<1>9. CASE \E c \in Channel : \/ AddChannel(c)
                              \/ \E b \in Other : EditOther(c, b)
                              \/ \E b \in Own : EditOwn(c, b)
  BY <1>9 DEF AddChannel, EditOther, EditOwn, Edited, Earned, worker
<1>10. CASE UNCHANGED vars
  BY <1>10 DEF vars, worker, Earned
<1>. QED
  BY <1>2, <1>3, <1>4, <1>5, <1>6, <1>7, <1>8, <1>9, <1>10 DEF Next, Worker, Guild

(* An automatic mute that starts rests on Threshold infractions journalled *)
(* since the last release, whatever was queued before or after it.         *)
THEOREM MutesAreEarned == Spec => AutoMuteEarned
<1>1. Earned /\ [Next]_vars
        => [(task = "automute" /\ ~Live /\ state' = "applying") => spam = Threshold]_vars
  <2> SUFFICES ASSUME Earned, Next, task = "automute", ~Live, state' = "applying"
               PROVE  spam = Threshold
    BY DEF vars, record, Live
  <2>1. state' # state
    BY DEF Live
  <2>2. PlanMute
    BY <2>1 DEF Next, Worker, Guild, Flush, Deny, Infraction, StartMute, StartUnmute, Reconcile,
       ReadChannels, Refuse, Archive, Write, FinishMute, RefuseRelease, RequestRelease,
       FinishRelease, AddChannel, EditOther, EditOwn, Edited, Queue, Fail, record
  <2>. QED
    BY <2>2 DEF PlanMute, Earned
<1>. QED
  BY <1>1, EarnedInit, EarnedStep, SoundAlways, PTL DEF Spec, AutoMuteEarned
=============================================================================
