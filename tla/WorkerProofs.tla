----------------------------- MODULE WorkerProofs -----------------------------
(***************************************************************************)
(* Proofs about the control worker's raid signups, moved and featured      *)
(* posts, voice clips and feed, for any number of requests, failures and   *)
(* restarts, and of the composition that the runs check them in.           *)
(***************************************************************************)
EXTENDS Background, SequenceTheorems, TLAPS

-----------------------------------------------------------------------------
(* Raids *)

LEMMA OutcomeType ==
  ASSUME RaidsTypeOK, NEW job \in Job, NEW after \in Outcome(job)
  PROVE  after \in Event
<1> DEFINE Put(place) == {[event EXCEPT !.roster[job.by] = place]}
<1>1. \A place \in Place : [event EXCEPT !.roster[job.by] = place] \in Event
  BY DEF RaidsTypeOK, Event, Job
<1>2. /\ [event EXCEPT !.state = "closed"] \in Event
      /\ [event EXCEPT !.state = "open"] \in Event
      /\ [event EXCEPT !.state = "cancelled"] \in Event
  BY DEF RaidsTypeOK, Event
<1>3. {"out", "in", "bench", "late"} = Place
  BY DEF Place
<1>4. \/ after = event
      \/ \E place \in Place : after = [event EXCEPT !.roster[job.by] = place]
      \/ \E s \in {"closed", "open", "cancelled"} : after = [event EXCEPT !.state = s]
  BY <1>3 DEF Outcome
<1> QED  BY <1>1, <1>2, <1>4 DEF RaidsTypeOK

(* The one row of a raid: a first post whose answer nobody has is never    *)
(* due again, and a loop about to post owns the row.                       *)
CardInv ==
  /\ RaidsTypeOK /\ RaidCardOnce
  /\ loop = "apply" => handling # <<>>
  /\ loop \in {"post", "save"} => delivery = "sending"
  /\ loop = "post" /\ ~message => raidCards = 0
  /\ ~message /\ raidCards > 0 => delivery \in {"sending", "unknown"}

LEMMA RaidsStep == CardInv /\ [RaidsNext]_raidVars => CardInv'
<1> SUFFICES ASSUME CardInv, [RaidsNext]_raidVars PROVE CardInv'
  OBVIOUS
<1>0. RaidsTypeOK  BY DEF CardInv
<1> USE DEF CardInv, RaidsTypeOK, RaidCardOnce, LoopStep
<1>1. CASE UNCHANGED raidVars
  BY <1>1 DEF raidVars
<1>2. ASSUME NEW op \in Operation, NEW m \in Raider, NEW base \in 0..revision,
             QueueRequest(op, m, base)
      PROVE  CardInv'
  <2>1. [op |-> op, by |-> m, base |-> base] \in Job  BY DEF Job
  <2>2. requests' \in Seq(Job)
    BY <1>2, <2>1, AppendProperties DEF QueueRequest
  <2>3. requested' \in 0..MaxRequests
    BY <1>2, RaidLimits DEF QueueRequest
  <2> QED  BY <1>2, <2>2, <2>3 DEF QueueRequest, raidRow, raidWire
<1>3. CASE ClosingTime
  BY <1>3 DEF ClosingTime, raidRow, raidQueue, raidWire
<1>4. CASE ClaimRequest
  <2>1. Head(requests) \in Job /\ Tail(requests) \in Seq(Job)
    BY <1>4, HeadTailProperties DEF ClaimRequest
  <2> QED  BY <1>4, <2>1 DEF ClaimRequest, raidRow, raidWire
<1>5. CASE NothingQueued
  BY <1>5 DEF NothingQueued, raidRow, raidQueue, raidWire
<1>6. CASE ApplyRequest
  <2>1. handling[1] \in Job
    BY <1>6 DEF ApplyRequest
  <2>2. event' \in Event /\ revision' \in Nat
    BY <1>0, <1>6, <2>1, OutcomeType DEF ApplyRequest
  <2>3. /\ overdue' \in BOOLEAN /\ handling' = <<>> /\ loop' = "deadline"
        /\ UNCHANGED <<message, published, delivery, requests, requested, drawn,
                       raidCards, cardShows, raidFaults>>
    BY <1>6 DEF ApplyRequest, raidQueue, raidWire
  <2> QED  BY <2>2, <2>3
<1>7. CASE DropRequest
  BY <1>7 DEF DropRequest, raidRow, raidQueue, raidWire
<1>8. CASE Deadline
  <2>1. [event EXCEPT !.state = "closed"] \in Event  BY DEF Event
  <2> QED  BY <1>8, <2>1 DEF Deadline, raidQueue, raidWire
<1>9. CASE StartDelivery
  BY <1>9 DEF StartDelivery, DeliveryDue, raidQueue, raidWire
<1>10. CASE NoDelivery
  BY <1>10, RaidLimits DEF NoDelivery, RaidFault, raidRow, raidQueue, raidWire
<1>11. CASE PostCard
  BY <1>11 DEF PostCard, Reaches, raidRow, raidQueue
<1>12. CASE CardFails
  BY <1>12, RaidLimits DEF CardFails, Reaches, RaidFault, AfterFailure, raidQueue, raidWire
<1>13. CASE SaveDelivery
  BY <1>13 DEF SaveDelivery, raidQueue, raidWire
<1>14. CASE Restart
  BY <1>14, RaidLimits DEF Restart, Reaches, RaidFault, raidQueue, raidWire
<1> QED
  BY <1>1, <1>2, <1>3, <1>4, <1>5, <1>6, <1>7, <1>8, <1>9, <1>10, <1>11, <1>12, <1>13, <1>14
     DEF RaidsNext, LoopSteps

RaidsSafety == RaidsInit /\ [][RaidsNext]_raidVars

(* No order of requests, failures and restarts gives a raid two signup     *)
(* cards: a first post with no answer is left for review (deliver_one).    *)
THEOREM OneRaidCard == RaidsSafety => []RaidCardOnce
<1>1. RaidsInit => CardInv
  <2> SUFFICES ASSUME RaidsInit PROVE CardInv
    OBVIOUS
  <2>1. event \in Event  BY DEF RaidsInit, Event, Place
  <2>2. requests \in Seq(Job) /\ handling \in Seq(Job)  BY DEF RaidsInit
  <2>3. requested \in 0..MaxRequests /\ raidFaults \in 0..MaxRaidFaults
    BY RaidLimits DEF RaidsInit
  <2>4. RaidsTypeOK
    BY <2>1, <2>2, <2>3 DEF RaidsInit, RaidsTypeOK, LoopStep
  <2> QED  BY <2>4 DEF RaidsInit, CardInv, RaidCardOnce
<1>2. CardInv => RaidCardOnce  BY DEF CardInv
<1> QED  BY <1>1, <1>2, RaidsStep, PTL DEF RaidsSafety

-----------------------------------------------------------------------------
(* Voice clips *)

(* A clip that may still be uploaded has no sound. *)
SoundInv ==
  /\ VoiceTypeOK /\ SoundOnce
  /\ \A c \in Clip :
       /\ capture[c] \in {"none", "draft"} => sounds[c] = 0
       /\ WorkerAt("insert", c) => sounds[c] = 0
       /\ WorkerAt("upload", c) => sounds[c] = 0 /\ capture[c] = "publishing"

LEMMA VoiceStep == SoundInv /\ [VoiceNext]_voiceVars => SoundInv'
<1> SUFFICES ASSUME SoundInv, [VoiceNext]_voiceVars PROVE SoundInv'
  OBVIOUS
<1> USE VoiceBounds DEF SoundInv, VoiceTypeOK, SoundOnce, WorkerAt, WorkerTo, JobOver, Becomes,
        VoiceFault, Worker, WorkerStep, CaptureState, HasRow
<1>1. CASE UNCHANGED voiceVars
  BY <1>1 DEF voiceVars
<1>2. CASE NoJob \/ Sweep
  BY <1>2 DEF NoJob, Sweep
<1>3. CASE ForgetCaptures
  <2>1. /\ worker' = [at |-> "job", what |-> {}] /\ UNCHANGED <<audio, old, sounds, voiceFaults>>
        /\ capture' \in [Clip -> CaptureState]
        /\ \A c \in Clip : capture'[c] \in {capture[c], "expired", "deleted"}
    BY <1>3 DEF ForgetCaptures
  <2>2. VoiceTypeOK'  BY <2>1
  <2> QED  BY <2>1, <2>2
<1>4. CASE VoiceRestart
  BY <1>4 DEF VoiceRestart
<1>5. ASSUME NEW c \in Clip, WorkerStepOf(c) PROVE SoundInv'
  <2>1. CASE InsertCapture(c)
    <3>1. sounds[c] = 0  BY <2>1 DEF InsertCapture
    <3>2. /\ worker' = [at |-> "sweep", what |-> {}] /\ UNCHANGED <<audio, old, sounds, voiceFaults>>
          /\ capture' = [capture EXCEPT ![c] = "draft"]
      BY <2>1 DEF InsertCapture
    <3>3. VoiceTypeOK'  BY <3>2
    <3> QED  BY <3>1, <3>2, <3>3
  <2>2. CASE DiscardCapture(c)  BY <2>2 DEF DiscardCapture
  <2>3. CASE Upload(c)
    <3>1. sounds[c] = 0 /\ capture[c] \notin {"none", "draft"}
      BY <2>3 DEF Upload
    <3>2. /\ worker' = [at |-> "uploaded", what |-> {c}]
          /\ UNCHANGED <<capture, audio, old, voiceFaults>>
          /\ sounds' = [sounds EXCEPT ![c] = @ + 1]
      BY <2>3 DEF Upload
    <3>3. VoiceTypeOK'  BY <3>2
    <3> QED  BY <3>1, <3>2, <3>3
  <2>4. CASE UploadDenied(c)  BY <2>4 DEF UploadDenied
  <2>5. CASE UploadUncertain(c)  BY <2>5 DEF UploadUncertain
  <2>6. CASE RemoveAudio(c)  BY <2>6 DEF RemoveAudio
  <2>7. CASE RecordSound(c)  BY <2>7 DEF RecordSound
  <2> QED  BY <1>5, <2>1, <2>2, <2>3, <2>4, <2>5, <2>6, <2>7 DEF WorkerStepOf
<1>6. ASSUME NEW c \in Clip, Ages(c) \/ SaveAudio(c) \/ DiscardAudio(c) \/ Reserve(c)
      PROVE  SoundInv'
  <2>1. CASE Ages(c)  BY <2>1 DEF Ages
  <2>2. CASE SaveAudio(c)  BY <2>2 DEF SaveAudio
  <2>3. CASE DiscardAudio(c)  BY <2>3 DEF DiscardAudio
  <2>4. CASE Reserve(c)  BY <2>4 DEF Reserve
  <2> QED  BY <1>6, <2>1, <2>2, <2>3, <2>4
<1> QED  BY <1>1, <1>2, <1>3, <1>4, <1>5, <1>6 DEF VoiceNext, WorkerSteps

VoiceSafety == VoiceInit /\ [][VoiceNext]_voiceVars

(* Pressed twice, denied, unanswered or cut off, a clip becomes one sound  *)
(* at most: only a draft is reserved, and an upload with no clear answer   *)
(* stays reserved (publish).                                               *)
THEOREM OneSound == VoiceSafety => []SoundOnce
<1>1. VoiceInit => SoundInv
  BY VoiceBounds DEF VoiceInit, SoundInv, VoiceTypeOK, SoundOnce, WorkerAt, Worker, WorkerStep,
     CaptureState
<1>2. SoundInv => SoundOnce  BY DEF SoundInv
<1> QED  BY <1>1, <1>2, VoiceStep, PTL DEF VoiceSafety

-----------------------------------------------------------------------------
(* Moved reports and featured posts *)

ReportStep == {"original", "recent", "publish", "publishing", "published", "remove"}
NomineeStep == {"look", "post", "posting"}

(* What is under way has a state; what it is about to take out of the      *)
(* progression channel is in the other one, unless a person took it out.   *)
MoveInv ==
  /\ RepostsTypeOK /\ NeverNowhere
  /\ \A x, y \in mover.what : x = y
  /\ mover.at \in ReportStep => mover.what \subseteq Report
  /\ mover.at \in NomineeStep => mover.what \subseteq Nominee
  /\ \A r \in Report :
       /\ mover.at \in ReportStep /\ r \in mover.what => route[r] # "none"
       /\ mover.at \in {"publishing", "published", "remove"} /\ r \in mover.what
            => r \in inSat \cup byHand

(* A post whose claim may be taken, or taken again, has no card but those  *)
(* of the restarts that put it back.                                       *)
FeatureInv ==
  /\ FeaturedOnce
  /\ \A p \in Nominee :
       /\ feature[p] \in {"none", "pending"} => cards[p] <= resumed[p]
       /\ feature[p] = "featuring" /\ ~MoverAt("posting", p) => cards[p] <= resumed[p]
       /\ MoverAt("look", p) \/ MoverAt("post", p) => feature[p] = "featuring"

LEMMA RepostsStep == MoveInv /\ FeatureInv /\ [RepostsNext]_repostVars => MoveInv' /\ FeatureInv'
<1> SUFFICES ASSUME MoveInv, FeatureInv, [RepostsNext]_repostVars PROVE MoveInv' /\ FeatureInv'
  OBVIOUS
<1> USE RepostsBounds DEF MoveInv, FeatureInv, RepostsTypeOK, NeverNowhere, FeaturedOnce, MoverAt,
        MoverTo, Moved, Still, Mover, MoverStep, RouteState, FeatureState, ReportStep, NomineeStep,
        MoveFault, Settled, Feature, routing, featuring
<1>1. CASE UNCHANGED repostVars
  BY <1>1 DEF repostVars
<1>2. ASSUME NEW r \in Report,
             \/ ReportPosted(r) \/ Pasted(r) \/ RemovedByHand(r)
             \/ TakeReport(r) \/ ReadOriginal(r) \/ ReadRecent(r)
             \/ Publish(r) \/ SettlePublished(r) \/ RemoveOriginal(r)
      PROVE  MoveInv' /\ FeatureInv'
  <2>1. CASE ReportPosted(r)  BY <2>1 DEF ReportPosted
  <2>2. CASE Pasted(r)  BY <2>2 DEF Pasted
  <2>3. CASE RemovedByHand(r)  BY <2>3 DEF RemovedByHand
  <2>4. CASE TakeReport(r)  BY <2>4 DEF TakeReport
  <2>5. CASE ReadOriginal(r)  BY <2>5 DEF ReadOriginal
  <2>6. CASE ReadRecent(r)  BY <2>6 DEF ReadRecent
  <2>7. CASE Publish(r)  BY <2>7 DEF Publish
  <2>8. CASE SettlePublished(r)  BY <2>8 DEF SettlePublished
  <2>9. CASE RemoveOriginal(r)  BY <2>9 DEF RemoveOriginal
  <2> QED  BY <1>2, <2>1, <2>2, <2>3, <2>4, <2>5, <2>6, <2>7, <2>8, <2>9
<1>3. ASSUME NEW p \in Nominee, NEW m \in Voter,
             Nominate(p, m) \/ TakeStarBack(p, m) \/ DropVote(p, m)
      PROVE  MoveInv' /\ FeatureInv'
  <2>1. CASE Nominate(p, m)  BY <2>1 DEF Nominate
  <2>2. CASE TakeStarBack(p, m)  BY <2>2 DEF TakeStarBack
  <2>3. CASE DropVote(p, m)  BY <2>3 DEF DropVote
  <2> QED  BY <1>3, <2>1, <2>2, <2>3
<1>4. ASSUME NEW p \in Nominee,
             TakeNominee(p) \/ LookAtNominee(p) \/ PostFeature(p) \/ SettleFeatured(p)
      PROVE  MoveInv' /\ FeatureInv'
  <2>1. CASE TakeNominee(p)  BY <2>1 DEF TakeNominee
  <2>2. CASE LookAtNominee(p)  BY <2>2 DEF LookAtNominee
  <2>3. CASE PostFeature(p)  BY <2>3 DEF PostFeature, CardStored
  <2>4. CASE SettleFeatured(p)  BY <2>4 DEF SettleFeatured
  <2> QED  BY <1>4, <2>1, <2>2, <2>3, <2>4
<1>5. CASE RepostsRestart
  BY <1>5 DEF RepostsRestart
<1> QED  BY <1>1, <1>2, <1>3, <1>4, <1>5 DEF RepostsNext

RepostsSafety == RepostsInit /\ [][RepostsNext]_repostVars

LEMMA RepostsInvariant == RepostsSafety => [](MoveInv /\ FeatureInv)
<1>1. RepostsInit => MoveInv /\ FeatureInv
  BY RepostsBounds DEF RepostsInit, MoveInv, FeatureInv, RepostsTypeOK, NeverNowhere, FeaturedOnce,
     MoverAt, Still, Mover, MoverStep, RouteState, FeatureState, ReportStep, NomineeStep
<1> QED  BY <1>1, RepostsStep, PTL DEF RepostsSafety

(* A report that was posted, and that no person removed, is in one of the  *)
(* two channels whatever fails and wherever the worker dies.               *)
THEOREM ReportSomewhere == RepostsSafety => []NeverNowhere
<1>1. MoveInv => NeverNowhere  BY DEF MoveInv
<1> QED  BY <1>1, RepostsInvariant, PTL

(* One card for a featured post, and another only for a restart that put   *)
(* its claim back after the card was stored.                               *)
THEOREM OneFeature == RepostsSafety => []FeaturedOnce
<1>1. FeatureInv => FeaturedOnce  BY DEF FeatureInv
<1> QED  BY <1>1, RepostsInvariant, PTL

-----------------------------------------------------------------------------
(* The feed and the anniversaries *)

LEMMA FeedPlaces ==
  /\ \A e \in Entry, ch \in FeedChannel : <<e, ch>> \in Post /\ <<e, ch>> \notin Member
  /\ Member \subseteq Post
  BY FeedKeys DEF Post, Entry

LEMMA TickTypes ==
  /\ Resting \in Tick
  /\ \A t \in Tick :
       /\ t.at \in TickStep /\ t.feeding \in BOOLEAN /\ t.last \in Nat /\ t.row \in Nat
       /\ t.todo \in SUBSET Post /\ t.now \in SUBSET Post /\ t.posted \in Nat
  BY DEF Resting, Tick, TickStep

(* Where a tick is, and that one request is under way at a time. *)
TickSound ==
  /\ cursor <= Len(journal) /\ Len(journal) <= MaxEntries /\ tick.last <= Len(journal)
  /\ tick.at \in {"row", "enter"} => tick.row > 0 /\ tick.todo = {}
  /\ tick.at = "enter" => tick.row <= tick.last
  /\ tick.at \notin {"post", "verdict"} => tick.now = {}
  /\ \A p, q \in tick.now : p = q
  /\ tick.todo \cap tick.now = {}

(* The rows ahead of the cursor have no delivery yet, and what a tick      *)
(* still has to send was recorded as being sent and has no copy.           *)
DeliverySound ==
  /\ \A e \in Entry, ch \in FeedChannel : e > cursor => outcome[<<e, ch>>] = "none"
  /\ \A p \in Post :
       /\ outcome[p] = "none" => copies[p] = 0
       /\ p \in tick.todo => outcome[p] = "sending" /\ copies[p] = 0
       /\ p \in tick.now => outcome[p] = "sending"
       /\ tick.at = "post" /\ p \in tick.now => copies[p] = 0

FeedInv == FeedTypeOK /\ TickSound /\ DeliverySound

LEMMA FeedStep == FeedInv /\ [FeedNext]_feedVars => FeedInv'
<1> SUFFICES ASSUME FeedInv, [FeedNext]_feedVars PROVE FeedInv'
  OBVIOUS
<1> USE FeedBounds, TickTypes DEF FeedInv
<1>0. /\ FeedTypeOK /\ Len(journal) \in Nat
      /\ tick \in Tick /\ cursor \in Nat /\ feedFaults \in 0..MaxFeedFaults
      /\ tick.row \in Nat /\ tick.last \in Nat /\ tick.posted \in Nat /\ tick.at \in TickStep
      /\ tick.todo \in SUBSET Post /\ tick.now \in SUBSET Post
  BY LenProperties DEF FeedTypeOK
<1>a. ASSUME UNCHANGED <<journal, archived, settings, switches, primed, copies>>,
             tick' \in Tick, cursor' \in Nat, feedFaults' \in 0..MaxFeedFaults,
             outcome' \in [Post -> {"none", "sending", "sent", "unknown"}]
      PROVE  FeedTypeOK'
  BY <1>0, <1>a DEF FeedTypeOK
<1>b. ASSUME UNCHANGED <<outcome, copies>>, cursor' >= cursor, cursor' \in Nat,
             tick'.todo \subseteq tick.todo, tick'.now \subseteq tick.now \cup tick.todo,
             tick'.at = "post" => tick'.now \subseteq tick.todo
      PROVE  DeliverySound'
  BY <1>0, <1>b DEF DeliverySound, Entry
<1>1. CASE UNCHANGED feedVars
  BY <1>1 DEF feedVars, FeedTypeOK, TickSound, DeliverySound
<1>2. ASSUME NEW news \in SUBSET FeedChannel, Journal(news) PROVE FeedInv'
  <2>1. FeedTypeOK'  BY <1>2, AppendProperties DEF Journal, FeedTypeOK
  <2>2. TickSound'  BY <1>0, <1>2, AppendProperties DEF Journal, FeedTypeOK, TickSound
  <2>3. DeliverySound'  BY <1>2 DEF Journal, DeliverySound
  <2> QED  BY <2>1, <2>2, <2>3
<1>3. CASE Flush \/ Switch
  <2>1. UNCHANGED <<journal, cursor, primed, outcome, copies, tick, feedFaults>>
    BY <1>3 DEF Flush, Switch
  <2>2. archived' \in Nat /\ settings' \in BOOLEAN /\ switches' \in 0..MaxSwitches
    <3>1. archived \in Nat /\ settings \in BOOLEAN /\ switches \in 0..MaxSwitches
      BY DEF FeedTypeOK
    <3>2. CASE Flush  BY <3>1, <3>2 DEF Flush
    <3>3. CASE Switch  BY <3>1, <3>3 DEF Switch
    <3> QED  BY <1>3, <3>2, <3>3
  <2>3. FeedTypeOK'  BY <2>1, <2>2 DEF FeedTypeOK
  <2>4. TickSound' /\ DeliverySound'  BY <2>1 DEF TickSound, DeliverySound
  <2> QED  BY <2>3, <2>4
<1>4. CASE SkipHistory
  <2>1. /\ UNCHANGED <<journal, archived, settings, switches, outcome, copies, tick, feedFaults>>
        /\ cursor' = Len(journal) /\ primed' = TRUE
    BY <1>4 DEF SkipHistory, feedWorld
  <2>2. FeedTypeOK'  BY <1>0, <2>1 DEF FeedTypeOK
  <2>3. TickSound'  BY <1>0, <2>1 DEF TickSound
  <2>4. DeliverySound'  BY <1>0, <2>1 DEF TickSound, DeliverySound, Entry
  <2> QED  BY <2>2, <2>3, <2>4
<1>5. CASE ReadBatch
  <2> DEFINE last == IF cursor + Batch < Len(journal) THEN cursor + Batch ELSE Len(journal)
  <2>0. last \in Nat /\ last <= Len(journal)
    BY <1>0
  <2>1. /\ UNCHANGED <<journal, archived, settings, switches, cursor, primed, outcome, copies, feedFaults>>
        /\ tick' = [Resting EXCEPT !.at = "row", !.feeding = TRUE, !.row = cursor + 1, !.last = last]
    BY <1>5 DEF ReadBatch, feedWorld
  <2> HIDE DEF last
  <2>2. tick' \in Tick /\ tick'.at = "row" /\ tick'.row > 0 /\ tick'.last <= Len(journal)
        /\ tick'.todo = {} /\ tick'.now = {}
    <3>1. tick' = [at |-> "row", feeding |-> TRUE, last |-> last, row |-> cursor + 1,
                   todo |-> {}, now |-> {}, posted |-> 0]
      BY <2>1 DEF Resting
    <3> QED  BY <1>0, <2>0, <3>1 DEF Tick, TickStep
  <2>3. FeedTypeOK'  BY <1>0, <1>a, <2>1, <2>2 DEF FeedTypeOK
  <2>4. TickSound'  BY <1>0, <2>1, <2>2 DEF TickSound
  <2>5. DeliverySound'  BY <1>0, <1>b, <2>1, <2>2
  <2> QED  BY <2>3, <2>4, <2>5
<1>6. CASE ReadRow
  <2>1. /\ UNCHANGED <<journal, archived, settings, switches, cursor, primed, outcome, copies>>
        /\ feedFaults' \in 0..MaxFeedFaults /\ tick.at = "row"
        /\ \/ tick.row <= tick.last /\ tick' = [tick EXCEPT !.at = "enter"]
           \/ tick' = Resting
    BY <1>0, <1>6 DEF ReadRow, FeedFault, feedWorld
  <2>2. /\ tick' \in Tick /\ tick'.todo = {} /\ tick'.now = {}
        /\ \/ tick'.at = "idle" /\ tick'.last = 0
           \/ /\ tick'.at = "enter" /\ tick'.last = tick.last /\ tick'.row = tick.row
              /\ tick.row > 0 /\ tick.row <= tick.last
    <3>1. CASE tick' = Resting  BY <3>1 DEF Resting, Tick, TickStep
    <3>2. CASE tick.row <= tick.last /\ tick' = [tick EXCEPT !.at = "enter"]
      BY <1>0, <2>1, <3>2 DEF Tick, TickStep, TickSound
    <3> QED  BY <2>1, <3>1, <3>2
  <2>3. FeedTypeOK'  BY <1>0, <1>a, <2>1, <2>2 DEF FeedTypeOK
  <2>4. TickSound'  BY <1>0, <2>1, <2>2 DEF TickSound
  <2>5. DeliverySound'  BY <1>0, <1>b, <2>1, <2>2
  <2> QED  BY <2>3, <2>4, <2>5
<1>7. CASE Enter
  <2> DEFINE news == {tick.row} \X journal[tick.row]
  <2>1. /\ tick.at = "enter" /\ tick.todo = {} /\ tick.now = {}
        /\ UNCHANGED <<journal, archived, settings, switches, primed, copies, feedFaults>>
    BY <1>7 DEF Enter, TickSound, feedWorld
  <2>2. CASE ~settings \/ cursor >= tick.row
    <3>1. tick' = Resting /\ UNCHANGED <<cursor, outcome>>  BY <1>7, <2>2 DEF Enter
    <3>2. tick' \in Tick /\ tick'.at = "idle" /\ tick'.todo = {} /\ tick'.now = {} /\ tick'.last = 0
      BY <3>1 DEF Resting
    <3>3. FeedTypeOK'  BY <1>0, <1>a, <2>1, <3>1, <3>2 DEF FeedTypeOK
    <3>4. TickSound'  BY <1>0, <2>1, <3>1, <3>2 DEF TickSound
    <3>5. DeliverySound'  BY <1>0, <1>b, <2>1, <3>1, <3>2
    <3> QED  BY <3>3, <3>4, <3>5
  <2>3. CASE ~(~settings \/ cursor >= tick.row)
    <3>1. /\ cursor' = tick.row /\ cursor < tick.row
          /\ outcome' = [p \in Post |-> IF p \in news /\ outcome[p] = "none" THEN "sending" ELSE outcome[p]]
          /\ tick' = [tick EXCEPT !.at = "next", !.todo = news]
      BY <1>0, <1>7, <2>3 DEF Enter
    <3>2. tick.row \in Entry /\ tick.row <= Len(journal)
      BY <1>0, <2>1 DEF TickSound, Entry
    <3>3. journal[tick.row] \subseteq FeedChannel
      BY <1>0, <3>2, ElementOfSeq DEF FeedTypeOK, Entry
    <3>4. /\ news \subseteq Post
          /\ \A p \in news : outcome[p] = "none" /\ copies[p] = 0
          /\ \A e \in Entry, ch \in FeedChannel : e > cursor' => <<e, ch>> \notin news
      BY <1>0, <3>1, <3>2, <3>3, FeedPlaces DEF DeliverySound, Entry
    <3> HIDE DEF news
    <3>5. tick' \in Tick /\ tick'.at = "next" /\ tick'.todo = news /\ tick'.now = {}
          /\ tick'.last = tick.last
      BY <1>0, <2>1, <3>1, <3>4 DEF Tick, TickStep
    <3>6. FeedTypeOK'
      BY <1>0, <1>a, <2>1, <3>1, <3>2, <3>5 DEF FeedTypeOK, Entry
    <3>7. TickSound'  BY <1>0, <2>1, <3>1, <3>2, <3>5 DEF TickSound
    <3>8. DeliverySound'
      <4>1. \A e \in Entry, ch \in FeedChannel : e > cursor' => outcome'[<<e, ch>>] = "none"
        BY <1>0, <3>1, <3>2, <3>4, FeedPlaces DEF DeliverySound, Entry
      <4>2. \A p \in Post : /\ outcome'[p] = "none" => copies'[p] = 0
                            /\ p \in tick'.todo => outcome'[p] = "sending" /\ copies'[p] = 0
        BY <2>1, <3>1, <3>4, <3>5 DEF DeliverySound
      <4> QED  BY <3>5, <4>1, <4>2 DEF DeliverySound
    <3> QED  BY <3>6, <3>7, <3>8
  <2> QED  BY <2>2, <2>3
<1>8. ASSUME NEW m \in Member, Anniversary(m) PROVE FeedInv'
  <2>1. /\ UNCHANGED <<journal, archived, settings, switches, cursor, primed, copies, feedFaults>>
        /\ outcome[m] = "none" /\ outcome' = [outcome EXCEPT ![m] = "sending"]
        /\ tick' = [Resting EXCEPT !.at = "next", !.todo = {m}] /\ m \in Post
    BY <1>8, FeedPlaces DEF Anniversary, feedWorld
  <2>2. tick' \in Tick /\ tick'.at = "next" /\ tick'.todo = {m} /\ tick'.now = {} /\ tick'.last = 0
    BY <2>1 DEF Resting, Tick, TickStep
  <2>3. FeedTypeOK'  BY <1>0, <1>a, <2>1, <2>2 DEF FeedTypeOK
  <2>4. TickSound'  BY <1>0, <2>1, <2>2 DEF TickSound
  <2>5. DeliverySound'  BY <1>0, <2>1, <2>2, FeedPlaces DEF DeliverySound, FeedTypeOK
  <2> QED  BY <2>3, <2>4, <2>5
<1>9. ASSUME NEW p \in Post, Send(p) PROVE FeedInv'
  <2>1. /\ UNCHANGED <<journal, archived, settings, switches, cursor, primed, outcome, copies, feedFaults>>
        /\ tick.at = "next" /\ p \in tick.todo
        /\ tick' = [tick EXCEPT !.at = "post", !.todo = @ \ {p}, !.now = {p}]
    BY <1>9 DEF Send, feedWorld
  <2>2. tick' \in Tick /\ tick'.at = "post" /\ tick'.todo = tick.todo \ {p} /\ tick'.now = {p}
        /\ tick'.last = tick.last
    BY <1>0, <2>1 DEF Tick, TickStep
  <2>3. FeedTypeOK'  BY <1>0, <1>a, <2>1, <2>2 DEF FeedTypeOK
  <2>4. TickSound'  BY <1>0, <2>1, <2>2 DEF TickSound
  <2>5. DeliverySound'  BY <1>0, <1>b, <2>1, <2>2
  <2> QED  BY <2>3, <2>4, <2>5
<1>10. CASE Stored
  <2>1. /\ UNCHANGED <<journal, archived, settings, switches, cursor, primed, outcome, feedFaults>>
        /\ tick.at = "post" /\ tick' = [tick EXCEPT !.at = "verdict"]
        /\ copies' = [p \in Post |-> IF p \in tick.now THEN copies[p] + 1 ELSE copies[p]]
    BY <1>10 DEF Stored, feedWorld
  <2>2. tick' \in Tick /\ tick'.at = "verdict" /\ tick'.todo = tick.todo /\ tick'.now = tick.now
        /\ tick'.last = tick.last
    BY <1>0, <2>1 DEF Tick, TickStep
  <2>3. FeedTypeOK'  BY <1>0, <2>1, <2>2 DEF FeedTypeOK
  <2>4. TickSound'  BY <1>0, <2>1, <2>2 DEF TickSound
  <2>5. DeliverySound'  BY <1>0, <2>1, <2>2 DEF DeliverySound, TickSound
  <2> QED  BY <2>3, <2>4, <2>5
<1>11. CASE NextRow
  <2>1. /\ UNCHANGED <<journal, archived, settings, switches, cursor, primed, outcome, copies, feedFaults>>
        /\ tick.at = "next" /\ tick.todo = {} /\ tick.now = {}
        /\ tick' = Resting \/ tick' = [tick EXCEPT !.at = "row", !.row = @ + 1]
    BY <1>11 DEF NextRow, TickSound, feedWorld
  <2>2. /\ tick' \in Tick /\ tick'.todo = {} /\ tick'.now = {}
        /\ \/ tick'.at = "idle" /\ tick'.last = 0
           \/ tick'.at = "row" /\ tick'.row > 0 /\ tick'.last = tick.last
    <3>1. CASE tick' = Resting  BY <3>1 DEF Resting, Tick, TickStep
    <3>2. CASE tick' = [tick EXCEPT !.at = "row", !.row = @ + 1]
      <4>1. /\ tick'.at = "row" /\ tick'.row = tick.row + 1 /\ tick'.last = tick.last
            /\ tick'.todo = {} /\ tick'.now = {}
        BY <1>0, <2>1, <3>2 DEF Tick
      <4>2. tick' = [at |-> "row", feeding |-> tick.feeding, last |-> tick.last, row |-> tick.row + 1,
                     todo |-> tick.todo, now |-> tick.now, posted |-> tick.posted]
        BY <1>0, <3>2 DEF Tick
      <4>3. tick' \in Tick  BY <1>0, <4>2 DEF Tick, TickStep
      <4> QED  BY <1>0, <4>1, <4>3
    <3> QED  BY <2>1, <3>1, <3>2
  <2>3. FeedTypeOK'  BY <1>0, <1>a, <2>1, <2>2 DEF FeedTypeOK
  <2>4. TickSound'
    BY <1>0, <2>1, <2>2 DEF TickSound
  <2>5. DeliverySound'  BY <1>0, <1>b, <2>1, <2>2
  <2> QED  BY <2>3, <2>4, <2>5
<1>12. CASE FeedRestart
  <2>1. /\ UNCHANGED <<journal, archived, settings, switches, cursor, primed, outcome, copies>>
        /\ feedFaults' \in 0..MaxFeedFaults /\ tick' = Resting
    BY <1>0, <1>12 DEF FeedRestart, FeedFault, feedWorld
  <2>2. tick' \in Tick /\ tick'.at = "idle" /\ tick'.todo = {} /\ tick'.now = {} /\ tick'.last = 0
    BY <2>1 DEF Resting
  <2>3. FeedTypeOK'  BY <1>0, <1>a, <2>1, <2>2 DEF FeedTypeOK
  <2>4. TickSound'  BY <1>0, <2>1, <2>2 DEF TickSound
  <2>5. DeliverySound'  BY <1>0, <1>b, <2>1, <2>2
  <2> QED  BY <2>3, <2>4, <2>5
<1>13. ASSUME NEW state \in {"sent", "unknown"}, Verdict(state) PROVE FeedInv'
  <2>1. /\ UNCHANGED <<journal, archived, settings, switches, cursor, primed, copies>>
        /\ feedFaults' \in 0..MaxFeedFaults /\ tick.at \in {"post", "verdict"}
        /\ outcome' = [p \in Post |-> IF p \in tick.now THEN state ELSE outcome[p]]
        /\ tick' = [tick EXCEPT !.at = "next", !.now = {}, !.posted = @ + 1]
    BY <1>0, <1>13 DEF Verdict, FeedFault, feedWorld
  <2>2. tick' \in Tick /\ tick'.at = "next" /\ tick'.todo = tick.todo /\ tick'.now = {}
        /\ tick'.last = tick.last
    <3>1. /\ tick'.at = "next" /\ tick'.todo = tick.todo /\ tick'.now = {}
          /\ tick'.last = tick.last /\ tick'.posted = tick.posted + 1
          /\ tick'.row = tick.row /\ tick'.feeding = tick.feeding
      BY <1>0, <2>1 DEF Tick
    <3>2. tick' = [at |-> "next", feeding |-> tick.feeding, last |-> tick.last, row |-> tick.row,
                   todo |-> tick.todo, now |-> {}, posted |-> tick.posted + 1]
      BY <1>0, <2>1 DEF Tick
    <3>3. tick' \in Tick  BY <1>0, <3>2 DEF Tick, TickStep
    <3> QED  BY <3>1, <3>3
  <2>3. FeedTypeOK'  BY <1>0, <1>a, <2>1, <2>2 DEF FeedTypeOK
  <2>4. TickSound'  BY <1>0, <2>1, <2>2 DEF TickSound
  <2>5. DeliverySound'
    <3>1. \A p \in Post : p \in tick.now => outcome[p] = "sending"
      BY DEF DeliverySound
    <3>2. \A p \in Post : p \in tick.todo => p \notin tick.now
      BY DEF TickSound
    <3> QED  BY <1>0, <2>1, <2>2, <3>1, <3>2, FeedPlaces DEF DeliverySound
  <2> QED  BY <2>3, <2>4, <2>5
<1> QED
  BY <1>1, <1>2, <1>3, <1>4, <1>5, <1>6, <1>7, <1>8, <1>9, <1>10, <1>11, <1>12, <1>13 DEF FeedNext

FeedSafety == FeedInit /\ [][FeedNext]_feedVars

LEMMA FeedInvariant == FeedSafety => []FeedInv
<1>1. FeedInit => FeedInv
  <2> SUFFICES ASSUME FeedInit PROVE FeedInv
    OBVIOUS
  <2>1. /\ tick.at = "idle" /\ tick.last = 0 /\ tick.todo = {} /\ tick.now = {}
        /\ Len(journal) = 0 /\ cursor = 0
    BY DEF FeedInit, Resting
  <2>2. FeedTypeOK
    <3>1. journal \in Seq(SUBSET FeedChannel)  BY DEF FeedInit
    <3>2. switches \in 0..MaxSwitches /\ feedFaults \in 0..MaxFeedFaults
      BY FeedBounds DEF FeedInit
    <3> QED  BY <3>1, <3>2, TickTypes DEF FeedInit, FeedTypeOK
  <2>3. TickSound  BY <2>1, FeedBounds DEF TickSound
  <2>4. DeliverySound  BY <2>1, FeedPlaces DEF FeedInit, DeliverySound
  <2> QED  BY <2>2, <2>3, <2>4 DEF FeedInv
<1> QED  BY <1>1, FeedStep, PTL DEF FeedSafety

(* Every step of the feed and the anniversaries is one of the abstract     *)
(* outbox, or leaves it alone.                                             *)
LEMMA FeedRefines == FeedInv /\ [FeedNext]_feedVars => [Deliveries!Next]_(Deliveries!vars)
<1> SUFFICES ASSUME FeedInv, [FeedNext]_feedVars PROVE [Deliveries!Next]_(Deliveries!vars)
  OBVIOUS
<1> USE DEF FeedInv
<1>0. /\ outcome \in [Post -> {"none", "sending", "sent", "unknown"}] /\ copies \in [Post -> Nat]
      /\ tick \in Tick /\ tick.now \in SUBSET Post /\ tick.todo \in SUBSET Post
  BY TickTypes DEF FeedTypeOK
<1>1. ASSUME UNCHANGED copies, tick'.now = tick.now,
             \A p \in Post : \/ outcome'[p] = outcome[p]
                             \/ outcome[p] \in {"none", "sending"} /\ outcome'[p] \in {"none", "sending"}
      PROVE  UNCHANGED Deliveries!vars
  BY <1>1 DEF Deliveries!vars, feedPhase
<1>2. CASE UNCHANGED feedVars
  BY <1>1, <1>2 DEF feedVars
<1>3. CASE (\E news \in SUBSET FeedChannel : Journal(news)) \/ Flush \/ Switch \/ SkipHistory
  <2>1. UNCHANGED <<outcome, copies, tick>>
    BY <1>3 DEF Journal, Flush, Switch, SkipHistory, feedWorld
  <2> QED  BY <1>1, <2>1
<1>4. CASE ReadBatch \/ ReadRow \/ NextRow
  <2>1. UNCHANGED <<outcome, copies>> /\ tick.now = {}
    BY <1>4 DEF ReadBatch, ReadRow, NextRow, TickSound, feedWorld
  <2>2. tick'.now = {}
    <3>1. Resting.now = {}  BY DEF Resting
    <3>2. CASE ReadBatch  BY <3>2 DEF ReadBatch, Resting
    <3>3. CASE ReadRow  BY <1>0, <2>1, <3>1, <3>3 DEF ReadRow, Tick
    <3>4. CASE NextRow  BY <1>0, <2>1, <3>1, <3>4 DEF NextRow, Tick
    <3> QED  BY <1>4, <3>2, <3>3, <3>4
  <2> QED  BY <1>1, <2>1, <2>2
<1>5. CASE Enter
  <2>1. tick.now = {} /\ UNCHANGED copies
    BY <1>5 DEF Enter, TickSound
  <2>2. CASE ~settings \/ cursor >= tick.row
    BY <1>1, <1>5, <2>1, <2>2 DEF Enter, Resting
  <2>3. CASE ~(~settings \/ cursor >= tick.row)
    <3>1. tick'.now = {}
      BY <1>0, <1>5, <2>1, <2>3 DEF Enter, Tick
    <3>2. \A p \in Post : outcome'[p] = outcome[p] \/ (outcome[p] = "none" /\ outcome'[p] = "sending")
      BY <1>5, <2>3 DEF Enter
    <3> QED  BY <1>1, <2>1, <3>1, <3>2
  <2> QED  BY <2>2, <2>3
<1>6. ASSUME NEW m \in Member, Anniversary(m) PROVE UNCHANGED Deliveries!vars
  <2>1. /\ tick.now = {} /\ UNCHANGED copies /\ tick'.now = {} /\ m \in Post
        /\ outcome[m] = "none" /\ outcome' = [outcome EXCEPT ![m] = "sending"]
    BY <1>6, FeedPlaces DEF Anniversary, TickSound, Resting
  <2> QED  BY <1>0, <1>1, <2>1
<1>7. ASSUME NEW p \in Post, Send(p) PROVE Deliveries!Next
  <2>1. tick.now = {} /\ UNCHANGED <<outcome, copies>> /\ outcome[p] = "sending" /\ copies[p] = 0
    BY <1>7 DEF Send, TickSound, DeliverySound
  <2>2. tick'.now = {p}
    BY <1>0, <1>7 DEF Send, Tick
  <2>3. feedPhase[p] = "waiting"  BY <2>1 DEF feedPhase
  <2>4. \A x \in Post : feedPhase'[x] = IF x = p THEN "sending" ELSE feedPhase[x]
    BY <2>1, <2>2 DEF feedPhase
  <2>5. feedPhase' = [feedPhase EXCEPT ![p] = "sending"]
    BY <2>4 DEF feedPhase
  <2> QED  BY <2>1, <2>3, <2>5 DEF Deliveries!Begin, Deliveries!Next
<1>8. tick.now = {} \/ \E q \in Post : tick.now = {q}
  BY <1>0 DEF TickSound
<1>9. CASE Stored
  <2>1. /\ tick.at = "post" /\ UNCHANGED outcome
        /\ copies' = [p \in Post |-> IF p \in tick.now THEN copies[p] + 1 ELSE copies[p]]
    BY <1>9 DEF Stored
  <2>2. tick'.now = tick.now
    BY <1>0, <1>9 DEF Stored, Tick
  <2>3. ASSUME NEW q \in Post, tick.now = {q} PROVE Deliveries!Deliver(q)
    <3>0. q \in tick.now  BY <2>3
    <3>1. copies[q] = 0  BY <2>1, <3>0 DEF DeliverySound
    <3>2. copies' = [copies EXCEPT ![q] = 1]
      <4>1. copies' = [p \in Post |-> IF p = q THEN copies[q] + 1 ELSE copies[p]]
        BY <2>1, <2>3
      <4>2. copies[q] + 1 = 1  BY <3>1
      <4> QED  BY <1>0, <4>1, <4>2
    <3>3. feedPhase[q] = "sending"  BY <2>3 DEF feedPhase
    <3>4. feedPhase' = feedPhase  BY <1>0, <2>1, <2>2, <2>3, <3>2 DEF feedPhase
    <3> QED  BY <3>1, <3>2, <3>3, <3>4 DEF Deliveries!Deliver
  <2>4. CASE tick.now = {}
    <3>1. copies' = copies  BY <1>0, <2>1, <2>4
    <3> QED  BY <1>1, <2>1, <2>2, <3>1
  <2> QED  BY <1>8, <2>3, <2>4 DEF Deliveries!Next
<1>10. ASSUME NEW state \in {"sent", "unknown"}, Verdict(state)
       PROVE  [Deliveries!Next]_(Deliveries!vars)
  <2>1. /\ UNCHANGED copies
        /\ outcome' = [p \in Post |-> IF p \in tick.now THEN state ELSE outcome[p]]
    BY <1>10 DEF Verdict
  <2>2. tick'.now = {}
    BY <1>0, <1>10 DEF Verdict, Tick
  <2>3. ASSUME NEW q \in Post, tick.now = {q} PROVE Deliveries!Settle(q)
    <3>1. feedPhase[q] = "sending"  BY <2>3 DEF feedPhase
    <3>2. feedPhase' = [feedPhase EXCEPT ![q] = "settled"]
      BY <2>1, <2>2, <2>3 DEF feedPhase
    <3> QED  BY <2>1, <3>1, <3>2 DEF Deliveries!Settle
  <2>4. CASE tick.now = {}
    BY <1>0, <1>1, <2>1, <2>2, <2>4
  <2> QED  BY <1>8, <2>3, <2>4 DEF Deliveries!Next
<1>11. CASE FeedRestart
  <2>1. UNCHANGED <<outcome, copies>> /\ tick'.now = {}
    BY <1>11 DEF FeedRestart, Resting
  <2>2. ASSUME NEW q \in Post, tick.now = {q} PROVE Deliveries!TryAgain(q) \/ Deliveries!Settle(q)
    <3>1. feedPhase[q] = "sending" /\ outcome[q] = "sending"
      BY <2>2 DEF feedPhase, DeliverySound
    <3>2. CASE copies[q] = 0
      <4>0. \A x \in Post : feedPhase'[x] = IF x = q THEN "waiting" ELSE feedPhase[x]
        BY <2>1, <2>2, <3>1, <3>2 DEF feedPhase
      <4>1. feedPhase' = [feedPhase EXCEPT ![q] = "waiting"]
        BY <4>0 DEF feedPhase
      <4> QED  BY <2>1, <3>1, <3>2, <4>1 DEF Deliveries!TryAgain
    <3>3. CASE copies[q] > 0
      <4>1. feedPhase' = [feedPhase EXCEPT ![q] = "settled"]
        BY <2>1, <2>2, <3>1, <3>3 DEF feedPhase
      <4> QED  BY <2>1, <3>1, <4>1 DEF Deliveries!Settle
    <3> QED  BY <1>0, <3>2, <3>3
  <2>3. CASE tick.now = {}
    BY <1>1, <2>1, <2>3
  <2> QED  BY <1>8, <2>2, <2>3 DEF Deliveries!Next
<1> QED
  BY <1>2, <1>3, <1>4, <1>5, <1>6, <1>7, <1>9, <1>10, <1>11, <1>1 DEF FeedNext

(* The feed and the anniversaries implement AtMostOnce: a delivery is      *)
(* tried again only when nothing was stored, whatever restarts, settings   *)
(* and answers come between (Feed.tick and anniversaries.tick).            *)
THEOREM FeedRefinement == FeedSafety => FeedPromise
<1>1. FeedInit => Deliveries!Init
  BY DEF FeedInit, Deliveries!Init, feedPhase, Resting
<1> QED
  BY <1>1, FeedRefines, FeedInvariant, PTL DEF FeedSafety, FeedPromise, Deliveries!Spec

-----------------------------------------------------------------------------
(* The composition *)

LEMMA PartsMove ==
  [BackgroundNext]_backgroundVars =>
    [RaidsNext]_raidVars /\ [FeedNext]_feedVars /\ [RepostsNext]_repostVars /\ [VoiceNext]_voiceVars
<1> SUFFICES ASSUME [BackgroundNext]_backgroundVars
             PROVE  [RaidsNext]_raidVars /\ [FeedNext]_feedVars /\ [RepostsNext]_repostVars
                    /\ [VoiceNext]_voiceVars
  OBVIOUS
<1>1. CASE UNCHANGED backgroundVars  BY <1>1 DEF backgroundVars
<1>2. CASE RaidsMove  BY <1>2 DEF RaidsMove
<1>3. CASE FeedMoves  BY <1>3 DEF FeedMoves
<1>4. CASE RepostsMove  BY <1>4 DEF RepostsMove
<1>5. CASE VoiceMoves  BY <1>5 DEF VoiceMoves
<1>6. CASE AlertsMove  BY <1>6 DEF AlertsMove
<1> QED  BY <1>1, <1>2, <1>3, <1>4, <1>5, <1>6 DEF BackgroundNext

(* What holds of each part alone holds of them together. *)
THEOREM BackgroundSafe ==
  BackgroundSpec =>
    [](RaidCardOnce /\ NeverNowhere /\ FeaturedOnce /\ SoundOnce) /\ FeedPromise
<1>1. BackgroundInit => RaidsInit /\ FeedInit /\ RepostsInit /\ VoiceInit
  BY DEF BackgroundInit
<1>2. BackgroundSpec => BackgroundInit /\ [][BackgroundNext]_backgroundVars
  BY PTL DEF BackgroundSpec
<1>3. BackgroundSpec => RaidsSafety /\ FeedSafety /\ RepostsSafety /\ VoiceSafety
  BY <1>1, <1>2, PartsMove, PTL DEF RaidsSafety, FeedSafety, RepostsSafety, VoiceSafety
<1> QED
  BY <1>3, OneRaidCard, ReportSomewhere, OneFeature, OneSound, FeedRefinement, PTL

(* One signup card, one featured card and one sound, in the composition.   *)
THEOREM OncePosted == BackgroundSpec => []PostedOnce
<1>1. RaidCardOnce /\ NeverNowhere /\ FeaturedOnce /\ SoundOnce => PostedOnce
  BY DEF PostedOnce
<1> QED  BY <1>1, BackgroundSafe, PTL
=============================================================================
