------------------------------ MODULE AotcOutbox -----------------------------
(***************************************************************************)
(* The Heroic clear ("AOTC") of one tier: src/handler.py claims it once,   *)
(* records an event, and delivers the card to the group's channel and then *)
(* to General from an outbox in the ANNOUNCED row (src/store.py).  Each    *)
(* target has a status, an owner and a preparation lease; the payload is   *)
(* stored before the one HTTP attempt, and an attempt whose outcome is not *)
(* known is never repeated.                                                *)
(*                                                                         *)
(* Time appears only as the end of a lease.  A delivery token stands for   *)
(* its poll: an invocation holds at most one and forgets it when it ends.  *)
(***************************************************************************)
EXTENDS Naturals

CONSTANTS
  Poll,             \* Lambda invocations that may overlap
  Nobody,           \* no owner yet
  Social,           \* context.general: this install also posts to General
  MaxRenders,       \* BOUND: card renderings told apart; later ones look alike
  MaxFaults         \* BOUND: failed preparations, failed posts and crashes

ASSUME OutboxAssumption ==
  /\ Nobody \notin Poll
  /\ Social \in BOOLEAN
  /\ MaxRenders \in Nat \ {0}
  /\ MaxFaults \in Nat

Target == {"Group", "General"}
Status == {"none", "pending", "preparing", "sending", "uncertain", "delivered"}
Leg == {"retryGroup", "retryGeneral", "firstGroup", "firstGeneral"}
Step == {"idle", "load", "clear", "deliver", "prepare", "commit", "send", "settle"}

VARIABLES
  cleared,          \* the guild has cleared the tier
  active,           \* is_active_raid: this install announces the tier; read
                    \* from the configuration a poll loads when it begins
  flag,             \* aotcAnnounced
  status,           \* aotcGroupStatus, aotcGeneralStatus; "none": no event
  owner,            \* aotcGroupOwner, aotcGeneralOwner
  expired,          \* whether the preparation lease has run out
  payload,          \* aotcPayload: the stored rendering, 0 for none
  pc,               \* [Poll -> Step]
  leg,              \* [Poll -> Leg]: which delivery of its poll it is at
  known,            \* [Poll -> BOOLEAN]: its local aotcAnnounced
  draft,            \* [Poll -> Nat]: the rendering it is about to send
  verdict,          \* [Poll -> Status]: how its HTTP attempt came out
  sent,             \* [Target -> Nat]: copies stored in the channel
  shown,            \* [Target -> Nat]: the rendering last stored there
  renders,          \* renderings so far, against MaxRenders
  faults

row == <<flag, status, owner, expired, payload>>
locals == <<leg, known, draft, verdict>>
channel == <<sent, shown>>
vars == <<cleared, active, row, pc, locals, channel, renders, faults>>

Event == status["Group"] # "none"

TypeOK ==
  /\ cleared \in BOOLEAN /\ active \in BOOLEAN /\ flag \in BOOLEAN
  /\ status \in [Target -> Status]
  /\ owner \in [Target -> Poll \cup {Nobody}]
  /\ expired \in [Target -> BOOLEAN]
  /\ payload \in 0..MaxRenders
  /\ pc \in [Poll -> Step] /\ leg \in [Poll -> Leg]
  /\ known \in [Poll -> BOOLEAN]
  /\ draft \in [Poll -> 0..MaxRenders]
  /\ verdict \in [Poll -> Status]
  /\ sent \in [Target -> Nat] /\ shown \in [Target -> 0..MaxRenders]
  /\ renders \in 0..MaxRenders /\ faults \in 0..MaxFaults

(* A seeded tier may carry a preset flag and never an event. *)
Init ==
  /\ cleared = FALSE /\ active = TRUE /\ flag \in BOOLEAN
  /\ status = [t \in Target |-> "none"]
  /\ owner = [t \in Target |-> Nobody]
  /\ expired = [t \in Target |-> FALSE]
  /\ payload = 0
  /\ pc = [p \in Poll |-> "idle"]
  /\ leg = [p \in Poll |-> "retryGroup"]
  /\ known = [p \in Poll |-> FALSE]
  /\ draft = [p \in Poll |-> 0]
  /\ verdict = [p \in Poll |-> "none"]
  /\ sent = [t \in Target |-> 0] /\ shown = [t \in Target |-> 0]
  /\ renders = 0 /\ faults = 0

-----------------------------------------------------------------------------
Fault == faults < MaxFaults /\ faults' = faults + 1

TargetOf(p) == IF leg[p] \in {"retryGroup", "firstGroup"} THEN "Group" ELSE "General"

(* The world *)

ClearTier ==
  /\ ~cleared /\ cleared' = TRUE
  /\ UNCHANGED <<active, row, pc, locals, channel, renders, faults>>

(* The install's active slug moves on to the next tier. *)
Deactivate ==
  /\ active /\ active' = FALSE
  /\ UNCHANGED <<cleared, row, pc, locals, channel, renders, faults>>

(* The lease of 300 seconds outlives any invocation, whose timeout is 60:  *)
(* it ends once its owner is gone, and earlier only by a fault (skewed     *)
(* clocks, a frozen Lambda).                                               *)
Preparing(t) ==
  \E p \in Poll : /\ pc[p] \in {"prepare", "commit"}
                  /\ TargetOf(p) = t /\ owner[t] = p

LeaseRunsOut(t) ==
  /\ status[t] = "preparing" /\ ~expired[t]
  /\ expired' = [expired EXCEPT ![t] = TRUE]
  /\ UNCHANGED <<cleared, active, flag, status, owner, payload, pc, locals, channel, renders>>

LeaseEnds(t) == ~Preparing(t) /\ LeaseRunsOut(t) /\ UNCHANGED faults
LeaseEndsEarly(t) == Preparing(t) /\ LeaseRunsOut(t) /\ Fault

-----------------------------------------------------------------------------
(* One invocation: retry_aotc_events, then announce_difficulty's clear. *)

Goto(p, s) == pc' = [pc EXCEPT ![p] = s]

Leave(p) ==
  /\ Goto(p, "idle")
  /\ leg' = [leg EXCEPT ![p] = "retryGroup"]
  /\ known' = [known EXCEPT ![p] = FALSE]
  /\ draft' = [draft EXCEPT ![p] = 0]
  /\ verdict' = [verdict EXCEPT ![p] = "none"]

(* Where a delivery returns to: Group is followed by General, the retries  *)
(* by the kills, and the clear's own General ends the poll.                *)
AfterLeg(p) ==
  CASE leg[p] = "firstGeneral" -> Leave(p)
    [] leg[p] = "retryGeneral" ->
         /\ Goto(p, "load")
         /\ leg' = [leg EXCEPT ![p] = "firstGroup"]
         /\ draft' = [draft EXCEPT ![p] = 0]
         /\ verdict' = [verdict EXCEPT ![p] = "none"]
         /\ UNCHANGED known
    [] OTHER ->
         /\ Goto(p, "deliver")
         /\ leg' = [leg EXCEPT ![p] =
                      IF @ = "retryGroup" THEN "retryGeneral" ELSE "firstGeneral"]
         /\ draft' = [draft EXCEPT ![p] = 0]
         /\ verdict' = [verdict EXCEPT ![p] = "none"]
         /\ UNCHANGED known

(* A variant: only the group counts. *)
UnfinishedGroup == Event /\ status["Group"] # "delivered"

(* aotc_event_slugs: recorded events whose last target is not delivered. *)
Unfinished == Event /\ status[IF Social THEN "General" ELSE "Group"] # "delivered"

Begin(p) ==
  /\ pc[p] = "idle" /\ active
  /\ IF Unfinished
     THEN Goto(p, "deliver") /\ UNCHANGED leg
     ELSE Goto(p, "load") /\ leg' = [leg EXCEPT ![p] = "firstGroup"]
  /\ UNCHANGED <<cleared, active, row, known, draft, verdict, channel, renders, faults>>

(* The window holds no kill of this tier. *)
NoKills(p) ==
  /\ pc[p] = "load"
  /\ Leave(p)
  /\ UNCHANGED <<cleared, active, row, channel, renders, faults>>

(* load_tier, with kills that say the tier is full. *)
LoadTier(p) ==
  /\ pc[p] = "load" /\ cleared
  /\ known' = [known EXCEPT ![p] = flag]
  /\ Goto(p, "clear")
  /\ UNCHANGED <<cleared, active, row, leg, draft, verdict, channel, renders, faults>>

(* announce_aotc's claim_aotc: the flag and the event in one update. *)
ClaimClear(p) ==
  /\ pc[p] = "clear" /\ ~known[p] /\ ~flag
  /\ flag' = TRUE
  /\ status' = [t \in Target |-> "pending"]
  /\ known' = [known EXCEPT ![p] = TRUE]
  /\ Goto(p, "deliver")
  /\ UNCHANGED <<cleared, active, owner, expired, payload, leg, draft, verdict, channel, renders, faults>>

LoseClear(p) ==
  /\ pc[p] = "clear" /\ ~known[p] /\ flag
  /\ Leave(p)
  /\ UNCHANGED <<cleared, active, row, channel, renders, faults>>

(* Already claimed: only the General copy is tried. *)
KnownClear(p) ==
  /\ pc[p] = "clear" /\ known[p]
  /\ Goto(p, "deliver")
  /\ leg' = [leg EXCEPT ![p] = "firstGeneral"]
  /\ UNCHANGED <<cleared, active, row, known, draft, verdict, channel, renders, faults>>

-----------------------------------------------------------------------------
(* deliver_aotc_event *)

(* Variants: an unclear outcome claimed again, no lease to take over, and  *)
(* General not waiting for the group.                                      *)
ClaimableAgain(t) ==
  /\ Event
  /\ status[t] \in {"pending", "uncertain"} \/ (status[t] = "preparing" /\ expired[t])
  /\ t = "General" => status["Group"] = "delivered"
ClaimableOnce(t) ==
  Event /\ status[t] = "pending" /\ (t = "General" => status["Group"] = "delivered")
ClaimableAnyOrder(t) ==
  Event /\ (status[t] = "pending" \/ (status[t] = "preparing" /\ expired[t]))

(* The condition of claim_aotc_delivery. *)
Claimable(t) ==
  /\ Event
  /\ status[t] = "pending" \/ (status[t] = "preparing" /\ expired[t])
  /\ t = "General" => status["Group"] = "delivered"

Wanted(t) == Event /\ (t = "General" => Social)

ClaimDelivery(p) ==
  LET t == TargetOf(p)
  IN  /\ pc[p] = "deliver" /\ Wanted(t) /\ Claimable(t)
      /\ status' = [status EXCEPT ![t] = "preparing"]
      /\ owner' = [owner EXCEPT ![t] = p]
      /\ expired' = [expired EXCEPT ![t] = FALSE]
      /\ Goto(p, "prepare")
      /\ UNCHANGED <<cleared, active, flag, payload, locals, channel, renders, faults>>

NotClaimed(p) ==
  /\ pc[p] = "deliver"
  /\ ~(Wanted(TargetOf(p)) /\ Claimable(TargetOf(p)))
  /\ AfterLeg(p)
  /\ UNCHANGED <<cleared, active, row, channel, renders, faults>>

NextRender == IF renders < MaxRenders THEN renders + 1 ELSE MaxRenders

(* The stored payload if there is one; the group's card is drawn once. *)
Prepare(p) ==
  /\ pc[p] = "prepare"
  /\ IF TargetOf(p) = "Group" /\ payload = 0
     THEN draft' = [draft EXCEPT ![p] = NextRender] /\ renders' = NextRender
     ELSE /\ payload # 0
          /\ draft' = [draft EXCEPT ![p] = payload] /\ UNCHANGED renders
  /\ Goto(p, "commit")
  /\ UNCHANGED <<cleared, active, row, leg, known, verdict, channel, faults>>

(* finish_aotc_delivery: conditional on the owner and the previous status. *)
Owns(p, previous) ==
  owner[TargetOf(p)] = p /\ status[TargetOf(p)] = previous

(* "achievement media unavailable", or no payload to copy: back to pending. *)
PrepareFails(p) ==
  /\ pc[p] = "prepare" /\ Fault
  /\ status' = IF Owns(p, "preparing")
               THEN [status EXCEPT ![TargetOf(p)] = "pending"] ELSE status
  /\ AfterLeg(p)
  /\ UNCHANGED <<cleared, active, flag, owner, expired, payload, channel, renders>>

(* preparing -> sending, the group's payload with it. *)
Commit(p) ==
  /\ pc[p] = "commit" /\ Owns(p, "preparing")
  /\ status' = [status EXCEPT ![TargetOf(p)] = "sending"]
  /\ payload' = IF TargetOf(p) = "Group" THEN draft[p] ELSE payload
  /\ Goto(p, "send")
  /\ UNCHANGED <<cleared, active, flag, owner, expired, locals, channel, renders, faults>>

(* The lease was taken over: the renderer stops before any HTTP. *)
Fenced(p) ==
  /\ pc[p] = "commit" /\ ~Owns(p, "preparing")
  /\ AfterLeg(p)
  /\ UNCHANGED <<cleared, active, row, channel, renders, faults>>

Store(p) ==
  /\ sent' = [sent EXCEPT ![TargetOf(p)] = @ + 1]
  /\ shown' = [shown EXCEPT ![TargetOf(p)] = draft[p]]

(* The single HTTP attempt. *)
SendOk(p) ==
  /\ pc[p] = "send"
  /\ Store(p)
  /\ verdict' = [verdict EXCEPT ![p] = "delivered"]
  /\ Goto(p, "settle")
  /\ UNCHANGED <<cleared, active, row, leg, known, draft, renders, faults>>

(* An explicit rejection: HTTP 400, 401, 403, 404, 405, 413 or 429. *)
RejectedVerdict == "pending"
SendRejected(p) ==
  /\ pc[p] = "send" /\ Fault
  /\ verdict' = [verdict EXCEPT ![p] = RejectedVerdict]
  /\ Goto(p, "settle")
  /\ UNCHANGED <<cleared, active, row, leg, known, draft, channel, renders>>

(* Any other failure may have stored the message. *)
UnclearVerdict == "uncertain"
SendUnclear(p) ==
  /\ pc[p] = "send" /\ Fault
  /\ Store(p) \/ UNCHANGED channel
  /\ verdict' = [verdict EXCEPT ![p] = UnclearVerdict]
  /\ Goto(p, "settle")
  /\ UNCHANGED <<cleared, active, row, leg, known, draft, renders>>

(* sending -> the verdict. *)
Settle(p) ==
  /\ pc[p] = "settle"
  /\ status' = IF Owns(p, "sending")
               THEN [status EXCEPT ![TargetOf(p)] = verdict[p]] ELSE status
  /\ AfterLeg(p)
  /\ UNCHANGED <<cleared, active, flag, owner, expired, payload, channel, renders, faults>>

(* The invocation dies; a request in flight may have been stored. *)
Crash(p) ==
  /\ pc[p] # "idle" /\ Fault
  /\ \/ UNCHANGED channel
     \/ pc[p] = "send" /\ Store(p)
  /\ Leave(p)
  /\ UNCHANGED <<cleared, active, row, renders>>

-----------------------------------------------------------------------------
PollStep(p) ==
  \/ Begin(p) \/ NoKills(p) \/ LoadTier(p) \/ ClaimClear(p) \/ LoseClear(p) \/ KnownClear(p)
  \/ ClaimDelivery(p) \/ NotClaimed(p) \/ Prepare(p) \/ Commit(p) \/ Fenced(p)
  \/ SendOk(p) \/ Settle(p)

PollFault(p) ==
  PrepareFails(p) \/ SendRejected(p) \/ SendUnclear(p) \/ Crash(p)

Next ==
  \/ ClearTier \/ Deactivate
  \/ \E t \in Target : LeaseEnds(t) \/ LeaseEndsEarly(t)
  \/ \E p \in Poll : PollStep(p) \/ PollFault(p)

Spec == Init /\ [][Next]_vars

(* The schedule invokes the function again and again and an invocation     *)
(* that does not fail goes on; a lease of 300 seconds ends.                *)
FairSpec ==
  /\ Spec
  /\ \A p \in Poll : WF_vars(PollStep(p))
  /\ \A t \in Target : WF_vars(LeaseEnds(t))

-----------------------------------------------------------------------------
(* Properties *)

(* src/store.py claim_aotc_delivery "A possibly sent HTTP request is never *)
(* auto-reclaimed": neither channel ever holds two copies of the clear     *)
(* card, whoever crashed, retried or took over a lease.                    *)
AtMostOneCopy == \A t \in Target : sent[t] <= 1

(* A target recorded as delivered has its one copy: the late answer of a   *)
(* poll that lost its claim can never mark someone else's attempt.         *)
DeliveredIsThere == \A t \in Target : status[t] = "delivered" => sent[t] = 1

(* "Only a confirmed group delivery's stored card can reach General"       *)
(* (src/handler.py announce_aotc_general).                                 *)
GeneralFollowsGroup == sent["General"] > 0 => status["Group"] = "delivered"

(* Both channels show the rendering the row stores, although polls that    *)
(* lost their lease have drawn others.                                     *)
SameCard == \A t \in Target : sent[t] > 0 => shown[t] = payload

(* Fencing: between its commit and its verdict a poll is the row's owner,  *)
(* so two polls are never in HTTP for one target.                          *)
SenderOwns ==
  \A p \in Poll : pc[p] \in {"send", "settle"} => Owns(p, "sending")

(* A recorded clear is not forgotten: with finitely many failures, and     *)
(* while the tier stays active, the group's card ends delivered, or in an  *)
(* attempt nobody knows the outcome of; rejections and dead preparers are  *)
(* retried without waiting for another kill.                               *)
Tried(t) == status[t] \in {"sending", "uncertain", "delivered"}
RecordedIsTried == Event ~> [](Tried("Group") \/ ~active)

(* The same for General once the group's card is confirmed.                *)
GeneralIsTried ==
  (Social /\ status["Group"] = "delivered") ~> [](Tried("General") \/ ~active)

(* Each target's card is a message sent at most once. *)
phase ==
  [t \in Target |-> CASE status[t] = "sending" -> "sending"
                      [] status[t] \in {"uncertain", "delivered"} -> "settled"
                      [] OTHER -> "waiting"]
Outbox == INSTANCE AtMostOnce WITH Msg <- Target, copies <- sent
SentAtMostOnce == Outbox!Spec
=============================================================================
