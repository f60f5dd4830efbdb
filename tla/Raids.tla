-------------------------------- MODULE Raids --------------------------------
(***************************************************************************)
(* One raid signup of the control worker (src/control/greybot_control):    *)
(* members and managers queue requests from Discord and the website, the   *)
(* worker's maintenance loop applies one (raids.mutate), closes a raid     *)
(* whose deadline passed and delivers the card of the newest revision      *)
(* (deliver_one).  The worker may die and be restarted at any step.        *)
(***************************************************************************)
EXTENDS Naturals, Sequences, FiniteSets

CONSTANTS
  Raider,           \* members who sign up
  Limit,            \* the raid's signup limit
  Overflow,         \* bench_overflow
  MaxRequests,      \* BOUND: requests in one behaviour
  MaxRaidFaults     \* BOUND: failed calls and restarts

ASSUME RaidLimits ==
  /\ IsFiniteSet(Raider) /\ Limit \in Nat \ {0} /\ Overflow \in BOOLEAN
  /\ MaxRequests \in Nat /\ MaxRaidFaults \in Nat

VARIABLES
  revision,         \* of raid_events; 0 before the raid is created
  event,            \* its body
  overdue,          \* the closing time has passed
  requests,         \* queued jobs of kind "raid", oldest first
  requested,        \* jobs so far, against MaxRequests
  message,          \* the row knows the card's message
  published,        \* published_revision
  delivery,
  loop,             \* where the maintenance loop is
  handling,         \* the job being executed, as a sequence of one or none
  drawn,            \* the revision the card being delivered shows
  raidCards,        \* copies of the card in the channel
  cardShows,        \* the revision the last stored card or edit shows
  raidFaults

raidVars == <<revision, event, overdue, requests, requested, message, published, delivery,
              loop, handling, drawn, raidCards, cardShows, raidFaults>>

Place == {"out", "in", "bench", "late"}
Event == [state : {"open", "closed", "cancelled"}, roster : [Raider -> Place]]
Managing == {"edit", "close", "open", "cancel"}
Operation == {"create", "signup", "status", "withdraw"} \cup Managing
Job == [op : Operation, by : Raider, base : Nat]
LoopStep == {"claim", "apply", "deadline", "deliver", "post", "save"}

RaidsTypeOK ==
  /\ revision \in Nat /\ event \in Event /\ overdue \in BOOLEAN
  /\ requests \in Seq(Job) /\ requested \in 0..MaxRequests
  /\ message \in BOOLEAN /\ published \in Nat
  /\ delivery \in {"pending", "sending", "published", "unknown"}
  /\ loop \in LoopStep /\ handling \in Seq(Job) /\ drawn \in Nat
  /\ raidCards \in Nat /\ cardShows \in Nat /\ raidFaults \in 0..MaxRaidFaults

RaidsInit ==
  /\ revision = 0 /\ overdue = FALSE
  /\ event = [state |-> "open", roster |-> [m \in Raider |-> "out"]]
  /\ requests = <<>> /\ requested = 0
  /\ message = FALSE /\ published = 0 /\ delivery = "pending"
  /\ loop = "claim" /\ handling = <<>> /\ drawn = 0
  /\ raidCards = 0 /\ cardShows = 0 /\ raidFaults = 0

raidRow == <<revision, event, message, published, delivery>>
raidWire == <<raidCards, cardShows>>
raidQueue == <<requests, requested>>
RaidFault == raidFaults < MaxRaidFaults /\ raidFaults' = raidFaults + 1

-----------------------------------------------------------------------------
(* Outside the worker *)

(* receive and the website's change: a manager's request carries the       *)
(* revision the form was opened on, which may be an old one by now.        *)
QueueRequest(op, m, base) ==
  /\ requested < MaxRequests /\ requested' = requested + 1
  /\ IF op = "create" THEN requested = 0 ELSE revision > 0
  /\ base <= revision /\ (op \in Managing <=> base > 0)
  /\ requests' = Append(requests, [op |-> op, by |-> m, base |-> base])
  /\ UNCHANGED <<raidRow, overdue, loop, handling, drawn, raidWire, raidFaults>>

ClosingTime ==
  /\ revision > 0 /\ ~overdue /\ overdue' = TRUE
  /\ UNCHANGED <<raidRow, raidQueue, loop, handling, drawn, raidWire, raidFaults>>

-----------------------------------------------------------------------------
(* execute_one and raids.mutate.  A finished, refused or interrupted job   *)
(* is never executed again.                                                *)

ClaimRequest ==
  /\ loop = "claim" /\ requests # <<>>
  /\ handling' = <<Head(requests)>> /\ requests' = Tail(requests) /\ loop' = "apply"
  /\ UNCHANGED <<raidRow, overdue, requested, drawn, raidWire, raidFaults>>

NothingQueued ==
  /\ loop = "claim" /\ requests = <<>> /\ loop' = "deadline"
  /\ UNCHANGED <<raidRow, overdue, raidQueue, handling, drawn, raidWire, raidFaults>>

Attending(roster, m) == Cardinality({x \in Raider \ {m} : roster[x] = "in"})

(* What an operation makes of the raid; {} when it is Denied. *)
Outcome(job) ==
  LET put(place) == {[event EXCEPT !.roster[job.by] = place]}
      accepting == revision > 0 /\ event.state = "open" /\ ~overdue
      current == revision > 0 /\ job.base = revision
  IN  CASE job.op = "create" -> {event}
        [] job.op = "withdraw" /\ accepting -> put("out")
        [] job.op = "status" /\ accepting -> put("late")
        [] job.op = "signup" /\ accepting ->
             IF Attending(event.roster, job.by) < Limit THEN put("in")
             ELSE IF Overflow THEN put("bench") ELSE {}
        [] job.op = "edit" /\ current -> {event}
        [] job.op = "close" /\ current -> {[event EXCEPT !.state = "closed"]}
        [] job.op = "open" /\ current /\ ~overdue -> {[event EXCEPT !.state = "open"]}
        [] job.op = "cancel" /\ current -> {[event EXCEPT !.state = "cancelled"]}
        [] OTHER -> {}

(* One transaction; an edit may move the closing time. *)
ApplyRequest ==
  /\ loop = "apply"
  /\ \E job \in {handling[1]} :
       /\ \E after \in Outcome(job) : event' = after
       /\ revision' = revision + 1
       /\ UNCHANGED overdue \/ (job.op = "edit" /\ overdue' = FALSE)
  /\ handling' = <<>> /\ loop' = "deadline"
  /\ UNCHANGED <<message, published, delivery, raidQueue, drawn, raidWire, raidFaults>>

(* Denied by its guards, its age or the member's rights, or Discord did    *)
(* not answer for the rights.                                              *)
DropRequest ==
  /\ loop = "apply" /\ handling' = <<>> /\ loop' = "deadline"
  /\ UNCHANGED <<raidRow, overdue, raidQueue, drawn, raidWire, raidFaults>>

(* The maintenance loop closes an overdue raid by a mutation of its own. *)
Deadline ==
  /\ loop = "deadline"
  /\ IF revision > 0 /\ event.state = "open" /\ overdue
     THEN event' = [event EXCEPT !.state = "closed"] /\ revision' = revision + 1
     ELSE UNCHANGED <<event, revision>>
  /\ loop' = "deliver"
  /\ UNCHANGED <<overdue, raidQueue, message, published, delivery, handling, drawn, raidWire, raidFaults>>

-----------------------------------------------------------------------------
(* deliver_one *)

(* A variant: an interrupted or unanswered first post is tried again. *)
DueAgain == revision > published

DeliveryDue == revision > published /\ delivery \notin {"sending", "unknown"}

(* The archive is flushed and the directory read before the row is marked. *)
StartDelivery ==
  /\ loop = "deliver" /\ DeliveryDue
  /\ delivery' = "sending" /\ drawn' = revision /\ loop' = "post"
  /\ UNCHANGED <<revision, event, message, published, overdue, raidQueue, handling, raidWire, raidFaults>>

NoDelivery ==
  /\ loop = "deliver"
  /\ \/ ~DeliveryDue /\ UNCHANGED raidFaults
     \/ DeliveryDue /\ RaidFault      \* the archive or Discord is unavailable
  /\ loop' = "claim"
  /\ UNCHANGED <<raidRow, overdue, raidQueue, handling, drawn, raidWire>>

(* A POST of the first card, a PATCH of a known one. *)
Reaches ==
  /\ raidCards' = IF message THEN raidCards ELSE raidCards + 1
  /\ cardShows' = drawn

PostCard ==
  /\ loop = "post" /\ Reaches /\ loop' = "save"
  /\ UNCHANGED <<raidRow, overdue, raidQueue, handling, drawn, raidFaults>>

(* A variant: a failed edit of a known card is not tried again either. *)
FailedForGood == "unknown"

(* What a failed request leaves in the row. *)
AfterFailure == IF message THEN "pending" ELSE "unknown"

CardFails ==
  /\ loop = "post" /\ RaidFault
  /\ Reaches \/ UNCHANGED raidWire
  /\ delivery' = AfterFailure /\ loop' = "claim"
  /\ UNCHANGED <<revision, event, message, published, overdue, raidQueue, handling, drawn>>

SaveDelivery ==
  /\ loop = "save"
  /\ message' = TRUE /\ published' = drawn /\ delivery' = "published"
  /\ loop' = "claim"
  /\ UNCHANGED <<revision, event, overdue, raidQueue, handling, drawn, raidWire, raidFaults>>

(* The worker dies, perhaps with a request on the wire, and starts again:  *)
(* an interrupted edit of a known card is due again, an interrupted first  *)
(* post is not, and a job being executed is left for review.               *)
Restart ==
  /\ RaidFault
  /\ (loop = "post" /\ Reaches) \/ UNCHANGED raidWire
  /\ delivery' = IF delivery = "sending" /\ message THEN "pending" ELSE delivery
  /\ handling' = <<>> /\ loop' = "claim"
  /\ UNCHANGED <<revision, event, message, published, overdue, raidQueue, drawn>>

LoopSteps ==
  \/ ClaimRequest \/ NothingQueued \/ ApplyRequest \/ DropRequest \/ Deadline
  \/ StartDelivery \/ NoDelivery \/ PostCard \/ CardFails \/ SaveDelivery

RaidsNext ==
  \/ \E op \in Operation, m \in Raider, base \in 0..revision : QueueRequest(op, m, base)
  \/ ClosingTime \/ LoopSteps \/ Restart

(* The loop runs every five seconds for as long as the worker lives. *)
RaidsSpec == RaidsInit /\ [][RaidsNext]_raidVars /\ WF_raidVars(LoopSteps)

-----------------------------------------------------------------------------
(* Properties *)

(* raid_discord.py:349 "A crash during first publication has an uncertain  *)
(* result; never repost automatically": no order of requests, failures and *)
(* restarts gives a raid two signup cards.                                 *)
RaidCardOnce == raidCards <= 1

(* A raid whose card is known shows its last revision in the end: a change *)
(* queued while the card was on its way, a failed edit or a restart delays *)
(* the card and never leaves it behind (deliver_one, worker.py:150).       *)
CardCatchesUp == []<>(message => cardShows = revision)
=============================================================================
