------------------------------- MODULE OnceProofs ------------------------------
(***************************************************************************)
(* Proofs about what is announced once, however often it is tried: the     *)
(* Heroic clear outbox, for any overlapping invocations and any number of  *)
(* failures (the types, the delivery of both cards at most once, and the   *)
(* refinement of AtMostOnce); and what comes round, for any installs,      *)
(* guilds, kills and runs (an install that is set up announces nothing     *)
(* that was dead by then, and a Mythic+ record is announced once).         *)
(***************************************************************************)
EXTENDS AotcOutbox, Rounds, FiniteSetTheorems, TLAPS

-----------------------------------------------------------------------------
(* The Heroic clear outbox *)

(* What a step that ends a delivery, or a whole poll, leaves of its locals. *)
Yields(p) ==
  /\ \E s \in {"idle", "load", "deliver"} : pc' = [pc EXCEPT ![p] = s]
  /\ leg' \in [Poll -> Leg] /\ known' \in [Poll -> BOOLEAN]
  /\ draft' \in [Poll -> 0..MaxRenders] /\ verdict' \in [Poll -> Status]
  /\ \A q \in Poll \ {p} :
       leg'[q] = leg[q] /\ draft'[q] = draft[q] /\ verdict'[q] = verdict[q]

LEMMA LeaveYields ==
  ASSUME TypeOK, NEW p \in Poll, Leave(p)
  PROVE  Yields(p)
  BY OutboxAssumption DEF TypeOK, Leave, Goto, Yields, Leg, Status

LEMMA AfterLegYields ==
  ASSUME TypeOK, NEW p \in Poll, AfterLeg(p)
  PROVE  Yields(p)
<1>1. CASE leg[p] = "firstGeneral"
  <2>1. Leave(p)  BY <1>1 DEF AfterLeg
  <2> QED  BY <2>1, LeaveYields
<1>2. CASE leg[p] = "retryGeneral"
  <2>1. /\ Goto(p, "load")
        /\ leg' = [leg EXCEPT ![p] = "firstGroup"]
        /\ draft' = [draft EXCEPT ![p] = 0]
        /\ verdict' = [verdict EXCEPT ![p] = "none"]
        /\ UNCHANGED known
    BY <1>2 DEF AfterLeg
  <2> QED  BY <2>1, OutboxAssumption DEF TypeOK, Goto, Yields, Leg, Status
<1>3. CASE leg[p] \notin {"firstGeneral", "retryGeneral"}
  <2>1. /\ Goto(p, "deliver")
        /\ leg' = [leg EXCEPT ![p] =
                     IF @ = "retryGroup" THEN "retryGeneral" ELSE "firstGeneral"]
        /\ draft' = [draft EXCEPT ![p] = 0]
        /\ verdict' = [verdict EXCEPT ![p] = "none"]
        /\ UNCHANGED known
    BY <1>3 DEF AfterLeg
  <2> QED  BY <2>1, OutboxAssumption DEF TypeOK, Goto, Yields, Leg, Status
<1> QED  BY <1>1, <1>2, <1>3

LEMMA TypeInit == Init => TypeOK
<1> SUFFICES ASSUME Init PROVE TypeOK
  OBVIOUS
<1>1. /\ payload \in 0..MaxRenders /\ renders \in 0..MaxRenders
      /\ faults \in 0..MaxFaults
      /\ draft \in [Poll -> 0..MaxRenders]
      /\ sent \in [Target -> Nat] /\ shown \in [Target -> 0..MaxRenders]
  BY OutboxAssumption DEF Init
<1> QED  BY <1>1 DEF Init, TypeOK, Target, Status, Step, Leg

(* The rows and locals keep their types: statuses are ones the conditions  *)
(* of src/store.py know, and a draft is always some rendering or none.     *)
THEOREM TypeCorrect == Spec => []TypeOK
<1>1. Init => TypeOK  BY TypeInit
<1>2. TypeOK /\ [Next]_vars => TypeOK'
  <2> SUFFICES ASSUME TypeOK, [Next]_vars PROVE TypeOK'
    OBVIOUS
  <2> USE OutboxAssumption DEF TypeOK, row, locals, channel, Goto, Status, Step, Leg, Target
  <2>1. CASE UNCHANGED vars  BY <2>1 DEF vars
  <2>2. CASE ClearTier \/ Deactivate  BY <2>2 DEF ClearTier, Deactivate
  <2>3. ASSUME NEW t \in Target, LeaseEnds(t) \/ LeaseEndsEarly(t) PROVE TypeOK'
    <3>1. faults' \in 0..MaxFaults
      BY <2>3 DEF LeaseEnds, LeaseEndsEarly, Fault
    <3>2. /\ expired' = [expired EXCEPT ![t] = TRUE]
          /\ UNCHANGED <<cleared, active, flag, status, owner, payload, pc,
                         locals, channel, renders>>
      BY <2>3 DEF LeaseEnds, LeaseEndsEarly, LeaseRunsOut
    <3> QED  BY <3>1, <3>2
  <2>4. ASSUME NEW p \in Poll, PollStep(p) PROVE TypeOK'
    <3>1. CASE Begin(p)  BY <3>1 DEF Begin
    <3>2. CASE NoKills(p)  BY <3>2, LeaveYields DEF NoKills, Yields
    <3>3. CASE LoadTier(p)  BY <3>3 DEF LoadTier
    <3>4. CASE ClaimClear(p)  BY <3>4 DEF ClaimClear
    <3>5. CASE LoseClear(p)  BY <3>5, LeaveYields DEF LoseClear, Yields
    <3>6. CASE KnownClear(p)  BY <3>6 DEF KnownClear
    <3>7. CASE ClaimDelivery(p)  BY <3>7 DEF ClaimDelivery, TargetOf
    <3>8. CASE NotClaimed(p)  BY <3>8, AfterLegYields DEF NotClaimed, Yields
    <3>9. CASE Prepare(p)  BY <3>9 DEF Prepare, NextRender
    <3>10. CASE Commit(p)  BY <3>10 DEF Commit, TargetOf
    <3>11. CASE Fenced(p)  BY <3>11, AfterLegYields DEF Fenced, Yields
    <3>12. CASE SendOk(p)  BY <3>12 DEF SendOk, Store, TargetOf
    <3>13. CASE Settle(p)  BY <3>13, AfterLegYields DEF Settle, Yields, TargetOf
    <3> QED
      BY <2>4, <3>1, <3>2, <3>3, <3>4, <3>5, <3>6, <3>7, <3>8, <3>9, <3>10,
         <3>11, <3>12, <3>13 DEF PollStep
  <2>5. ASSUME NEW p \in Poll, PollFault(p) PROVE TypeOK'
    <3>1. CASE PrepareFails(p)
      BY <3>1, AfterLegYields DEF PrepareFails, Fault, Yields, TargetOf
    <3>2. CASE SendRejected(p)  BY <3>2 DEF SendRejected, Fault, RejectedVerdict
    <3>3. CASE SendUnclear(p)
      BY <3>3 DEF SendUnclear, Fault, Store, TargetOf, UnclearVerdict
    <3>4. CASE Crash(p)  BY <3>4, LeaveYields DEF Crash, Fault, Store, Yields, TargetOf
    <3> QED  BY <2>5, <3>1, <3>2, <3>3, <3>4 DEF PollFault
  <2> QED  BY <2>1, <2>2, <2>3, <2>4, <2>5 DEF Next
<1> QED  BY <1>1, <1>2, PTL DEF Spec

-----------------------------------------------------------------------------
(* The inductive invariant behind the delivery properties. *)

(* A row that may still be claimed has stored nothing in that channel. *)
NothingSent ==
  \A t \in Target : status[t] \in {"none", "pending", "preparing"} => sent[t] = 0

(* What a poll inside its one HTTP attempt knows about the channel. *)
VerdictIsTrue ==
  \A p \in Poll :
    /\ pc[p] = "send" => sent[TargetOf(p)] = 0
    /\ pc[p] = "settle" =>
         /\ verdict[p] \in {"pending", "uncertain", "delivered"}
         /\ verdict[p] = "pending" => sent[TargetOf(p)] = 0
         /\ verdict[p] = "delivered" => sent[TargetOf(p)] = 1

(* General leaves "pending" only after the group's card was confirmed. *)
GeneralWaits ==
  /\ status["General"] \in {"none", "pending"} \/ status["Group"] = "delivered"
  /\ \A p \in Poll :
       (pc[p] \in {"prepare", "commit"} /\ TargetOf(p) = "General")
         => status["Group"] = "delivered"

(* Until the flag is claimed there is no event. *)
FlagFirst == ~flag => \A t \in Target : status[t] = "none"

DeliveryInv ==
  /\ TypeOK /\ FlagFirst
  /\ SenderOwns /\ NothingSent /\ VerdictIsTrue /\ GeneralWaits
  /\ AtMostOneCopy /\ DeliveredIsThere

(* A step that leaves the outbox alone and moves one poll out of, or not   *)
(* into, a delivery keeps the invariant.                                   *)
LEMMA QuietStep ==
  ASSUME DeliveryInv, TypeOK', NEW p \in Poll,
         UNCHANGED <<flag, status, owner, sent>>,
         pc'[p] \in {"idle", "load", "clear", "deliver"},
         \A q \in Poll \ {p} :
           pc'[q] = pc[q] /\ leg'[q] = leg[q] /\ verdict'[q] = verdict[q]
  PROVE  DeliveryInv'
<1>1. SenderOwns'  BY DEF DeliveryInv, SenderOwns, Owns, TargetOf
<1>2. NothingSent'  BY DEF DeliveryInv, NothingSent
<1>3. VerdictIsTrue'  BY DEF DeliveryInv, VerdictIsTrue, TargetOf
<1>4. GeneralWaits'  BY DEF DeliveryInv, GeneralWaits, TargetOf
<1>5. AtMostOneCopy' /\ DeliveredIsThere'
  BY DEF DeliveryInv, AtMostOneCopy, DeliveredIsThere
<1>6. FlagFirst'  BY DEF DeliveryInv, FlagFirst
<1> QED  BY <1>1, <1>2, <1>3, <1>4, <1>5, <1>6 DEF DeliveryInv

(* A status written by the row's owner, or by the first claim, leaves every *)
(* other poll's standing as it was.                                        *)
LEMMA DeliveryStep == DeliveryInv /\ TypeOK' /\ [Next]_vars => DeliveryInv'
<1> SUFFICES ASSUME DeliveryInv, TypeOK', [Next]_vars PROVE DeliveryInv'
  OBVIOUS
<1>0. TypeOK  BY DEF DeliveryInv
<1> DEFINE Parts == /\ FlagFirst /\ SenderOwns /\ NothingSent /\ VerdictIsTrue /\ GeneralWaits
                    /\ AtMostOneCopy /\ DeliveredIsThere
<1>1. SUFFICES Parts'
  BY DEF DeliveryInv
<1> USE DEF FlagFirst, SenderOwns, Owns, NothingSent, VerdictIsTrue, GeneralWaits,
            AtMostOneCopy, DeliveredIsThere, Target
<1>2. CASE UNCHANGED vars
  BY <1>2 DEF DeliveryInv, vars, row, locals, channel, TargetOf
<1>3. CASE ClearTier \/ Deactivate
  BY <1>3 DEF DeliveryInv, ClearTier, Deactivate, row, locals, channel, TargetOf
<1>4. ASSUME NEW t \in Target, LeaseEnds(t) \/ LeaseEndsEarly(t) PROVE Parts'
  BY <1>4 DEF DeliveryInv, LeaseEnds, LeaseEndsEarly, LeaseRunsOut, locals, channel, TargetOf
<1>5. ASSUME NEW p \in Poll, PollStep(p) PROVE Parts'
  <2>1. CASE Begin(p)
    BY <1>0, <2>1, QuietStep DEF DeliveryInv, Begin, Goto, TypeOK, row, channel
  <2>2. CASE NoKills(p)
    BY <1>0, <2>2, QuietStep, LeaveYields DEF DeliveryInv, NoKills, Yields, TypeOK, row, channel
  <2>3. CASE LoadTier(p)
    BY <1>0, <2>3, QuietStep DEF DeliveryInv, LoadTier, Goto, TypeOK, row, channel
  <2>4. CASE ClaimClear(p)
    BY <1>0, <2>4 DEF DeliveryInv, ClaimClear, Goto, TypeOK, channel, TargetOf, Status
  <2>5. CASE LoseClear(p)
    BY <1>0, <2>5, QuietStep, LeaveYields DEF DeliveryInv, LoseClear, Yields, TypeOK, row, channel
  <2>6. CASE KnownClear(p)
    BY <1>0, <2>6, QuietStep DEF DeliveryInv, KnownClear, Goto, TypeOK, row, channel
  <2>7. CASE ClaimDelivery(p)
    BY <1>0, <2>7 DEF DeliveryInv, ClaimDelivery, Claimable, Goto, TypeOK, locals, channel, TargetOf
  <2>8. CASE NotClaimed(p)
    BY <1>0, <2>8, QuietStep, AfterLegYields DEF DeliveryInv, NotClaimed, Yields, TypeOK, row, channel
  <2>9. CASE Prepare(p)
    BY <1>0, <2>9 DEF DeliveryInv, Prepare, Goto, TypeOK, row, channel, TargetOf
  <2>10. CASE Commit(p)
    BY <1>0, <2>10 DEF DeliveryInv, Commit, Goto, TypeOK, locals, channel, TargetOf
  <2>11. CASE Fenced(p)
    BY <1>0, <2>11, QuietStep, AfterLegYields DEF DeliveryInv, Fenced, Yields, TypeOK, row, channel
  <2>12. CASE SendOk(p)
    BY <1>0, <2>12 DEF DeliveryInv, SendOk, Store, Goto, TypeOK, row, TargetOf
  <2>13. CASE Settle(p)
    BY <1>0, <2>13, AfterLegYields DEF DeliveryInv, Settle, Yields, TypeOK, channel, TargetOf
  <2> QED
    BY <1>5, <2>1, <2>2, <2>3, <2>4, <2>5, <2>6, <2>7, <2>8, <2>9, <2>10, <2>11,
       <2>12, <2>13 DEF PollStep
<1>6. ASSUME NEW p \in Poll, PollFault(p) PROVE Parts'
  <2>1. CASE PrepareFails(p)
    BY <1>0, <2>1, AfterLegYields DEF DeliveryInv, PrepareFails, Yields, TypeOK, channel, TargetOf
  <2>2. CASE SendRejected(p)
    BY <1>0, <2>2 DEF DeliveryInv, SendRejected, RejectedVerdict, Goto, TypeOK, row, channel, TargetOf
  <2>3. CASE SendUnclear(p)
    BY <1>0, <2>3 DEF DeliveryInv, SendUnclear, UnclearVerdict, Store, Goto, TypeOK, row, channel, TargetOf
  <2>4. CASE Crash(p)
    BY <1>0, <2>4, LeaveYields DEF DeliveryInv, Crash, Store, Yields, TypeOK, row, channel, TargetOf
  <2> QED  BY <1>6, <2>1, <2>2, <2>3, <2>4 DEF PollFault
<1> QED  BY <1>2, <1>3, <1>4, <1>5, <1>6 DEF Next

LEMMA DeliveryInvariant == Spec => []DeliveryInv
<1>1. Init => DeliveryInv
  <2>1. Init => TypeOK
    BY TypeInit
  <2> QED
    BY <2>1 DEF Init, DeliveryInv, FlagFirst, SenderOwns, NothingSent, VerdictIsTrue,
       GeneralWaits, AtMostOneCopy, DeliveredIsThere, Target
<1> QED  BY <1>1, TypeCorrect, DeliveryStep, PTL DEF Spec

(* Neither channel ever gets a second copy of the clear card. *)
THEOREM OneCopy == Spec => []AtMostOneCopy
<1>1. DeliveryInv => AtMostOneCopy  BY DEF DeliveryInv
<1> QED  BY <1>1, DeliveryInvariant, PTL

(* A card recorded as delivered is in the channel. *)
THEOREM Delivered == Spec => []DeliveredIsThere
<1>1. DeliveryInv => DeliveredIsThere  BY DEF DeliveryInv
<1> QED  BY <1>1, DeliveryInvariant, PTL

(* A poll in its HTTP attempt still owns the row. *)
THEOREM Fencing == Spec => []SenderOwns
<1>1. DeliveryInv => SenderOwns  BY DEF DeliveryInv
<1> QED  BY <1>1, DeliveryInvariant, PTL

(* General speaks only after the group's card was confirmed. *)
THEOREM GroupFirst == Spec => []GeneralFollowsGroup
<1>1. DeliveryInv => GeneralFollowsGroup
  BY DEF DeliveryInv, TypeOK, NothingSent, GeneralWaits, GeneralFollowsGroup, Target, Status
<1> QED  BY <1>1, DeliveryInvariant, PTL

-----------------------------------------------------------------------------
(* Both channels show the stored rendering. *)

CardInv ==
  /\ SameCard
  /\ \A p \in Poll :
       (pc[p] = "send" \/ (pc[p] = "commit" /\ TargetOf(p) = "General"))
         => draft[p] = payload

(* Only the group's commit writes the payload, and it cannot run once any   *)
(* card is out or General is under way; every other step copies it.         *)
LEMMA CardStep ==
  CardInv /\ DeliveryInv /\ TypeOK' /\ [Next]_vars => CardInv'
<1> SUFFICES ASSUME CardInv, DeliveryInv, TypeOK', [Next]_vars PROVE CardInv'
  OBVIOUS
<1>0. TypeOK  BY DEF DeliveryInv
<1> USE DEF CardInv, SameCard, Target
<1>1. ASSUME UNCHANGED <<payload, sent, shown>>, NEW p \in Poll,
             pc'[p] \notin {"send", "commit"},
             \A q \in Poll \ {p} :
               pc'[q] = pc[q] /\ leg'[q] = leg[q] /\ draft'[q] = draft[q]
      PROVE  CardInv'
  BY <1>1 DEF TargetOf
<1>2. CASE UNCHANGED vars
  BY <1>2 DEF vars, row, locals, channel, TargetOf
<1>3. CASE ClearTier \/ Deactivate
  BY <1>3 DEF ClearTier, Deactivate, row, locals, channel, TargetOf
<1>4. ASSUME NEW t \in Target, LeaseEnds(t) \/ LeaseEndsEarly(t) PROVE CardInv'
  BY <1>4 DEF LeaseEnds, LeaseEndsEarly, LeaseRunsOut, locals, channel, TargetOf
<1>5. ASSUME NEW p \in Poll, PollStep(p) PROVE CardInv'
  <2>1. CASE Begin(p)
    BY <1>0, <1>1, <2>1 DEF Begin, Goto, TypeOK, row, channel
  <2>2. CASE NoKills(p)
    BY <1>0, <1>1, <2>2, LeaveYields DEF NoKills, Yields, TypeOK, row, channel
  <2>3. CASE LoadTier(p)
    BY <1>0, <1>1, <2>3 DEF LoadTier, Goto, TypeOK, row, channel
  <2>4. CASE ClaimClear(p)
    BY <1>0, <1>1, <2>4 DEF ClaimClear, Goto, TypeOK, channel
  <2>5. CASE LoseClear(p)
    BY <1>0, <1>1, <2>5, LeaveYields DEF LoseClear, Yields, TypeOK, row, channel
  <2>6. CASE KnownClear(p)
    BY <1>0, <1>1, <2>6 DEF KnownClear, Goto, TypeOK, row, channel
  <2>7. CASE ClaimDelivery(p)
    BY <1>0, <1>1, <2>7 DEF ClaimDelivery, Goto, TypeOK, locals, channel
  <2>8. CASE NotClaimed(p)
    BY <1>0, <1>1, <2>8, AfterLegYields DEF NotClaimed, Yields, TypeOK, row, channel
  <2>9. CASE Prepare(p)
    BY <1>0, <2>9 DEF Prepare, Goto, TypeOK, row, channel, TargetOf
  <2>10. CASE Commit(p)
    <3>1. CASE TargetOf(p) = "General"
      BY <1>0, <2>10, <3>1 DEF Commit, Goto, TypeOK, locals, channel, TargetOf
    <3>2. CASE TargetOf(p) = "Group"
      <4>1. /\ status["Group"] = "preparing"
            /\ status["General"] \in {"none", "pending"}
        BY <2>10, <3>2 DEF Commit, Owns, DeliveryInv, GeneralWaits
      <4>2. \A t \in Target : sent[t] = 0
        BY <4>1 DEF DeliveryInv, NothingSent
      <4>3. \A q \in Poll : pc[q] # "send"
        BY <4>1 DEF DeliveryInv, SenderOwns, Owns, TargetOf
      <4>4. \A q \in Poll : ~(pc[q] = "commit" /\ TargetOf(q) = "General")
        BY <4>1 DEF DeliveryInv, GeneralWaits
      <4>5. /\ payload' = draft[p] /\ UNCHANGED <<leg, draft, sent, shown>>
            /\ pc' = [pc EXCEPT ![p] = "send"]
        BY <2>10, <3>2 DEF Commit, Goto, locals, channel
      <4> QED  BY <1>0, <4>2, <4>3, <4>4, <4>5 DEF TypeOK, TargetOf
    <3> QED  BY <3>1, <3>2 DEF TargetOf
  <2>11. CASE Fenced(p)
    BY <1>0, <1>1, <2>11, AfterLegYields DEF Fenced, Yields, TypeOK, row, channel
  <2>12. CASE SendOk(p)
    BY <1>0, <2>12 DEF SendOk, Store, Goto, TypeOK, row, TargetOf
  <2>13. CASE Settle(p)
    BY <1>0, <1>1, <2>13, AfterLegYields DEF Settle, Yields, TypeOK, channel
  <2> QED
    BY <1>5, <2>1, <2>2, <2>3, <2>4, <2>5, <2>6, <2>7, <2>8, <2>9, <2>10, <2>11,
       <2>12, <2>13 DEF PollStep
<1>6. ASSUME NEW p \in Poll, PollFault(p) PROVE CardInv'
  <2>1. CASE PrepareFails(p)
    BY <1>0, <1>1, <2>1, AfterLegYields DEF PrepareFails, Yields, TypeOK, channel
  <2>2. CASE SendRejected(p)
    BY <1>0, <1>1, <2>2 DEF SendRejected, Goto, TypeOK, row, channel
  <2>3. CASE SendUnclear(p)
    BY <1>0, <2>3 DEF SendUnclear, Store, Goto, TypeOK, row, channel, TargetOf
  <2>4. CASE Crash(p)
    BY <1>0, <2>4, LeaveYields DEF Crash, Store, Yields, TypeOK, row, channel, TargetOf
  <2> QED  BY <1>6, <2>1, <2>2, <2>3, <2>4 DEF PollFault
<1> QED  BY <1>2, <1>3, <1>4, <1>5, <1>6 DEF Next

(* Whatever was drawn and thrown away, both channels show the one card the *)
(* row stores.                                                             *)
THEOREM StoredCard == Spec => []SameCard
<1>1. Init => CardInv  BY DEF Init, CardInv, SameCard, Target
<1>2. CardInv => SameCard  BY DEF CardInv
<1> QED  BY <1>1, <1>2, CardStep, DeliveryInvariant, TypeCorrect, PTL DEF Spec

-----------------------------------------------------------------------------
(* The outbox implements AtMostOnce, one message per target. *)

LEMMA OutboxStep ==
  DeliveryInv /\ TypeOK' /\ [Next]_vars => [Outbox!Next]_(Outbox!vars)
<1> SUFFICES ASSUME DeliveryInv, TypeOK', [Next]_vars
             PROVE  [Outbox!Next]_(Outbox!vars)
  OBVIOUS
<1>0. TypeOK  BY DEF DeliveryInv
<1> USE DEF Outbox!vars, Target
<1>1. ASSUME UNCHANGED sent,
             \A t \in Target : \/ status'[t] = status[t]
                              \/ /\ status[t] \in {"none", "pending", "preparing"}
                                 /\ status'[t] \in {"none", "pending", "preparing"}
      PROVE  UNCHANGED Outbox!vars
  BY <1>1 DEF phase
<1>2. CASE UNCHANGED vars
  BY <1>1, <1>2 DEF vars, row, channel
<1>3. CASE ClearTier \/ Deactivate
  BY <1>1, <1>3 DEF ClearTier, Deactivate, row, channel
<1>4. ASSUME NEW t \in Target, LeaseEnds(t) \/ LeaseEndsEarly(t)
      PROVE  UNCHANGED Outbox!vars
  BY <1>1, <1>4 DEF LeaseEnds, LeaseEndsEarly, LeaseRunsOut, channel
<1>5. ASSUME NEW p \in Poll, pc[p] = "send", Store(p), UNCHANGED status
      PROVE  Outbox!Deliver(TargetOf(p))
  <2>1. phase[TargetOf(p)] = "sending" /\ sent[TargetOf(p)] = 0 /\ phase' = phase
    BY <1>5 DEF DeliveryInv, SenderOwns, Owns, VerdictIsTrue, phase, TargetOf
  <2> QED  BY <1>0, <1>5, <2>1 DEF Store, Outbox!Deliver, TypeOK
<1>6. ASSUME NEW p \in Poll, PollStep(p) PROVE [Outbox!Next]_(Outbox!vars)
  <2>1. CASE Begin(p) \/ NoKills(p) \/ LoadTier(p) \/ LoseClear(p) \/ KnownClear(p)
             \/ NotClaimed(p) \/ Prepare(p) \/ Fenced(p)
    BY <1>1, <2>1 DEF Begin, NoKills, LoadTier, LoseClear, KnownClear, NotClaimed,
       Prepare, Fenced, row, channel
  <2>2. CASE ClaimClear(p)
    BY <1>0, <1>1, <2>2 DEF ClaimClear, DeliveryInv, FlagFirst, channel
  <2>3. CASE ClaimDelivery(p)
    BY <1>0, <1>1, <2>3 DEF ClaimDelivery, Claimable, TypeOK, channel
  <2>4. CASE Commit(p)
    <3>1. Outbox!Begin(TargetOf(p))
      BY <1>0, <2>4 DEF Commit, Owns, Outbox!Begin, phase, TypeOK, channel, TargetOf
    <3> QED  BY <3>1 DEF Outbox!Next, TargetOf
  <2>5. CASE SendOk(p)
    <3>1. Outbox!Deliver(TargetOf(p))  BY <1>5, <2>5 DEF SendOk, row
    <3> QED  BY <3>1 DEF Outbox!Next, TargetOf
  <2>6. CASE Settle(p)
    <3>1. /\ status[TargetOf(p)] = "sending"
          /\ status' = [status EXCEPT ![TargetOf(p)] = verdict[p]]
          /\ UNCHANGED sent
          /\ verdict[p] \in {"pending", "uncertain", "delivered"}
          /\ verdict[p] = "pending" => sent[TargetOf(p)] = 0
      BY <2>6 DEF Settle, DeliveryInv, SenderOwns, Owns, VerdictIsTrue, channel
    <3>2. CASE verdict[p] = "pending"
      <4>1. Outbox!TryAgain(TargetOf(p))
        BY <1>0, <3>1, <3>2 DEF Outbox!TryAgain, phase, TypeOK, TargetOf
      <4> QED  BY <4>1 DEF Outbox!Next, TargetOf
    <3>3. CASE verdict[p] # "pending"
      <4>1. Outbox!Settle(TargetOf(p))
        BY <1>0, <3>1, <3>3 DEF Outbox!Settle, phase, TypeOK, TargetOf
      <4> QED  BY <4>1 DEF Outbox!Next, TargetOf
    <3> QED  BY <3>2, <3>3
  <2> QED  BY <1>6, <2>1, <2>2, <2>3, <2>4, <2>5, <2>6 DEF PollStep
<1>7. ASSUME NEW p \in Poll, PollFault(p) PROVE [Outbox!Next]_(Outbox!vars)
  <2>1. CASE PrepareFails(p)
    BY <1>0, <1>1, <2>1 DEF PrepareFails, Owns, TypeOK, channel
  <2>2. CASE SendRejected(p)
    BY <1>1, <2>2 DEF SendRejected, row, channel
  <2>3. CASE SendUnclear(p) /\ UNCHANGED channel
    BY <1>1, <2>3 DEF SendUnclear, row, channel
  <2>4. CASE SendUnclear(p) /\ Store(p)
    <3>1. Outbox!Deliver(TargetOf(p))  BY <1>5, <2>4 DEF SendUnclear, row
    <3> QED  BY <3>1 DEF Outbox!Next, TargetOf
  <2>5. CASE Crash(p) /\ UNCHANGED channel
    BY <1>1, <2>5 DEF Crash, row, channel
  <2>6. CASE Crash(p) /\ pc[p] = "send" /\ Store(p)
    <3>1. Outbox!Deliver(TargetOf(p))  BY <1>5, <2>6 DEF Crash, row
    <3> QED  BY <3>1 DEF Outbox!Next, TargetOf
  <2> QED
    BY <1>7, <2>1, <2>2, <2>3, <2>4, <2>5, <2>6 DEF PollFault, SendUnclear, Crash
<1> QED  BY <1>2, <1>3, <1>4, <1>6, <1>7 DEF Next

(* Every behaviour of the outbox is one of AtMostOnce: Discord is asked    *)
(* again only after an attempt that stored nothing.                        *)
THEOREM Refinement == Spec => SentAtMostOnce
<1>1. Init => Outbox!Init
  BY DEF Init, Outbox!Init, phase
<1> QED
  BY <1>1, OutboxStep, DeliveryInvariant, TypeCorrect, PTL
     DEF Spec, SentAtMostOnce, Outbox!Spec

-----------------------------------------------------------------------------
(* Installs *)

InstallsSafety == InstallsInit /\ [][InstallsNext]_installVars

(* What the argument needs of the types. *)
InstallShapes ==
  /\ config \in [Install -> Guild \cup {NoGuild}]
  /\ tier \in [Install -> SUBSET Kill]
  /\ killed \in [Guild -> SUBSET Kill] /\ recent \in [Guild -> SUBSET Kill]
  /\ registry \subseteq Install /\ visit.todo \subseteq Install /\ visit \in Visit
  /\ tracked \in [Install -> SUBSET Guild] /\ oldKills \in [Install -> SUBSET Kill]
  /\ cardsOf \in [Install -> SUBSET Kill]

(* A configuration, and one that a poll carries, is a guild the install    *)
(* was set to.                                                             *)
KnownGuilds ==
  /\ DefaultGuild \in tracked[Home]
  /\ \A i \in Install : config[i] # NoGuild => config[i] \in tracked[i]
  /\ visit.at = "visit" => \A i \in visit.todo : visit.cfg[i] \in tracked[i]

(* Nothing is announced before the marker, the marker comes after the row, *)
(* and the row after a configuration.                                      *)
InOrder ==
  \A i \in Install :
    /\ IsFiniteSet(tracked[i])
    /\ cardsOf[i] # {} => i \in seeded
    /\ i \in seeded => i \in tierRows
    /\ i \in tierRows => tracked[i] # {}

(* While an install has had one guild, what was dead at its setup is dead, *)
(* is in the row as soon as there is one, and has no card.                 *)
OldStaysOld ==
  \A i \in Install : \A g \in tracked[i] :
    tracked[i] = {g} =>
      /\ oldKills[i] \subseteq killed[g]
      /\ i \in tierRows => oldKills[i] \subseteq tier[i]
      /\ cardsOf[i] \cap oldKills[i] = {}

InstallsInv == InstallShapes /\ KnownGuilds /\ InOrder /\ OldStaysOld

LEMMA InstallsInitial == InstallsInit => InstallsInv
<1> SUFFICES ASSUME InstallsInit PROVE InstallsInv  OBVIOUS
<1> USE InstallNames
<1>1. InstallShapes
  BY DEF InstallsInit, InstallShapes, NoVisit, Visit
<1>2. KnownGuilds  BY DEF InstallsInit, KnownGuilds, NoVisit
<1>3. \A i \in Install : IsFiniteSet(tracked[i])
  BY FS_EmptySet, FS_Singleton DEF InstallsInit
<1>4. InOrder  BY <1>3 DEF InstallsInit, InOrder
<1>5. OldStaysOld  BY DEF InstallsInit, OldStaysOld
<1> QED  BY <1>1, <1>2, <1>4, <1>5 DEF InstallsInv

(* The row after a seed: what it was, or all that is dead. *)
LEMMA SeedsCover ==
  ASSUME InstallsInv, NEW i \in Install, NEW g \in tracked[i], Seeds(i, g)
  PROVE  /\ tier' \in [Install -> SUBSET Kill] /\ tierRows' = tierRows \cup {i}
         /\ \A j \in Install : j # i => tier'[j] = tier[j]
         /\ tracked[i] = {g} => oldKills[i] \subseteq tier'[i]
<1>1. g \in Guild  BY DEF InstallsInv, InstallShapes
<1> QED  BY <1>1 DEF InstallsInv, InstallShapes, OldStaysOld, Seeds

LEMMA VisitKeeps ==
  ASSUME InstallsInv, NEW i \in Install, PollVisits(i)
  PROVE  InstallsInv'
<1> DEFINE g == visit.cfg[i]
<1>0. /\ visit.at = "visit" /\ i \in visit.todo /\ visit' = Visited(i)
      /\ VisitStops(i, g) \/ Bootstraps(i, g) \/ Announces(i, g)
      /\ UNCHANGED <<config, registry, killed, recent, tracked, oldKills>>
  BY DEF PollVisits
<1>1. g \in tracked[i] /\ g \in Guild
  BY <1>0 DEF InstallsInv, KnownGuilds, InstallShapes
<1>2. visit' \in Visit /\ visit'.todo \subseteq visit.todo /\ visit'.cfg = visit.cfg
      /\ visit'.at = "visit"
  BY <1>0 DEF InstallsInv, InstallShapes, Visited, Visit
<1>3. KnownGuilds'
  BY <1>0, <1>2 DEF InstallsInv, KnownGuilds, InstallShapes
<1> HIDE DEF g
<1>4. CASE UNCHANGED <<tierRows, tier, seeded, cardsOf>>
  BY <1>0, <1>2, <1>3, <1>4 DEF InstallsInv, InstallShapes, InOrder, OldStaysOld
<1>5. CASE Seeds(i, g) /\ seeded' \subseteq seeded \cup {i} /\ seeded \subseteq seeded'
           /\ UNCHANGED cardsOf
  <2>1. /\ tier' \in [Install -> SUBSET Kill] /\ tierRows' = tierRows \cup {i}
        /\ \A j \in Install : j # i => tier'[j] = tier[j]
        /\ tracked[i] = {g} => oldKills[i] \subseteq tier'[i]
    BY <1>1, <1>5, SeedsCover
  <2>2. InstallShapes'  BY <1>0, <1>2, <1>5, <2>1 DEF InstallsInv, InstallShapes
  <2>3. InOrder'  BY <1>0, <1>1, <1>5, <2>1 DEF InstallsInv, InOrder
  <2>4. OldStaysOld'  BY <1>0, <1>1, <1>5, <2>1 DEF InstallsInv, OldStaysOld
  <2> QED  BY <1>3, <2>2, <2>3, <2>4 DEF InstallsInv
<1>6. CASE Announces(i, g)
  <2>1. i \in seeded /\ UNCHANGED <<tierRows, seeded>>
        /\ tier' = [tier EXCEPT ![i] = @ \cup recent[g]]
        /\ cardsOf' = [cardsOf EXCEPT ![i] = @ \cup (recent[g] \ tier[i])]
    BY <1>6 DEF Announces
  <2>2. InstallShapes'  BY <1>0, <1>1, <1>2, <2>1 DEF InstallsInv, InstallShapes
  <2>3. InOrder'  BY <1>0, <2>1 DEF InstallsInv, InOrder, InstallShapes
  <2>4. OldStaysOld'  BY <1>0, <2>1 DEF InstallsInv, InOrder, OldStaysOld, InstallShapes
  <2> QED  BY <1>3, <2>2, <2>3, <2>4 DEF InstallsInv
<1>7. CASE VisitStops(i, g)
  BY <1>4, <1>5, <1>7 DEF VisitStops
<1>8. CASE Bootstraps(i, g)
  BY <1>5, <1>8 DEF Bootstraps
<1> QED  BY <1>0, <1>6, <1>7, <1>8

LEMMA SetupKeeps ==
  ASSUME InstallsInv, NEW i \in Install, NEW g \in Guild, PutConfig(i, g)
  PROVE  InstallsInv'
<1>0. /\ config' = [config EXCEPT ![i] = g]
      /\ tracked' = [tracked EXCEPT ![i] = @ \cup {g}]
      /\ oldKills' = [oldKills EXCEPT ![i] = IF tracked[i] = {} THEN killed[g] ELSE @]
      /\ UNCHANGED <<registry, seeded, tierRows, tier, killed, recent, visit, cardsOf>>
  BY DEF PutConfig
<1>1. InstallShapes'  BY <1>0 DEF InstallsInv, InstallShapes
<1>2. KnownGuilds'  BY <1>0, InstallNames DEF InstallsInv, InstallShapes, KnownGuilds, Visit
<1>3. \A j \in Install : IsFiniteSet(tracked'[j])
  BY <1>0, FS_AddElement DEF InstallsInv, InstallShapes, InOrder
<1>4. InOrder'  BY <1>0, <1>3 DEF InstallsInv, InstallShapes, InOrder
<1>5. OldStaysOld'
  <2> SUFFICES ASSUME NEW j \in Install, NEW h \in tracked'[j], tracked'[j] = {h}
               PROVE  /\ oldKills'[j] \subseteq killed[h]
                      /\ j \in tierRows => oldKills'[j] \subseteq tier[j]
                      /\ cardsOf[j] \cap oldKills'[j] = {}
    BY <1>0 DEF OldStaysOld
  <2>1. CASE tracked[j] = {}
    BY <1>0, <2>1 DEF InstallsInv, InstallShapes, InOrder
  <2>2. CASE tracked[j] # {}
    <3>1. tracked[j] = {h} /\ oldKills'[j] = oldKills[j]
      BY <1>0, <2>2 DEF InstallsInv, InstallShapes
    <3> QED  BY <3>1 DEF InstallsInv, OldStaysOld
  <2> QED  BY <2>1, <2>2
<1> QED  BY <1>1, <1>2, <1>4, <1>5 DEF InstallsInv

LEMMA FanOutKeeps == InstallsInv /\ FanOut => InstallsInv'
<1> SUFFICES ASSUME InstallsInv, FanOut PROVE InstallsInv'  OBVIOUS
<1> DEFINE cfg == Pairs(visit.todo)
<1>0. /\ visit' = [at |-> "visit", cfg |-> cfg, todo |-> {i \in Install : cfg[i] # NoGuild}]
      /\ UNCHANGED <<installRows, killed, recent, installGhosts>>
  BY DEF FanOut
<1>1. cfg \in [Install -> Guild \cup {NoGuild}]
  BY InstallNames DEF Pairs, InstallsInv, InstallShapes
<1>2. \A i \in Install : cfg[i] # NoGuild => cfg[i] \in tracked[i]
  BY InstallNames DEF Pairs, InstallsInv, KnownGuilds
<1> HIDE DEF cfg
<1>3. visit' \in Visit /\ visit'.todo \subseteq Install
  BY <1>0, <1>1 DEF Visit
<1> QED
  BY <1>0, <1>2, <1>3
  DEF InstallsInv, InstallShapes, KnownGuilds, InOrder, OldStaysOld, installRows, installGhosts

LEMMA InstallsStep == InstallsInv /\ [InstallsNext]_installVars => InstallsInv'
<1> SUFFICES ASSUME InstallsInv, [InstallsNext]_installVars PROVE InstallsInv'
  OBVIOUS
<1> USE DEF InstallsInv, InstallShapes, KnownGuilds, InOrder, OldStaysOld, installRows,
            installGhosts, installCounts
<1>1. CASE UNCHANGED installVars  BY <1>1 DEF installVars, Visit
<1>2. ASSUME NEW g \in Guild, NEW b \in Kill, GuildKills(g, b) PROVE InstallsInv'
  BY <1>2 DEF GuildKills
<1>3. ASSUME NEW g \in Guild, GuildRests(g) PROVE InstallsInv'
  BY <1>3 DEF GuildRests
<1>4. CASE PollStarts
  <2>1. visit' = [at |-> "read", todo |-> registry, cfg |-> [i \in Install |-> NoGuild]]
    BY <1>4 DEF PollStarts, NoVisit
  <2>2. visit' \in Visit  BY <2>1 DEF Visit
  <2> QED  BY <1>4, <2>1, <2>2 DEF PollStarts
<1>5. CASE FanOut  BY <1>5, FanOutKeeps
<1>6. ASSUME NEW i \in Install, PollVisits(i) PROVE InstallsInv'
  BY <1>6, VisitKeeps
<1>7. CASE PollDone  BY <1>7 DEF PollDone, NoVisit, Visit
<1>8. CASE PollDies  BY <1>8 DEF PollDies, NoVisit, Visit
<1>9. ASSUME NEW i \in Install, NEW g \in Guild, PutConfig(i, g) PROVE InstallsInv'
  BY <1>9, SetupKeeps
<1>10. ASSUME NEW i \in Install, Register(i) PROVE InstallsInv'
  BY <1>10 DEF Register
<1>11. ASSUME NEW i \in Install, SetupDies(i) PROVE InstallsInv'
  BY <1>11 DEF SetupDies
<1> QED
  BY <1>1, <1>2, <1>3, <1>4, <1>5, <1>6, <1>7, <1>8, <1>9, <1>10, <1>11
  DEF InstallsNext, InstallPollSteps

(* What was dead when an install was configured is never announced there,  *)
(* for as long as the install has one guild, whatever the polls that carry *)
(* an older configuration do (handle_setup, bootstrap).                    *)
THEOREM SetupIsQuiet == InstallsSafety => []SetupQuiet
<1>1. InstallsInv => SetupQuiet
  <2> SUFFICES ASSUME InstallsInv, NEW i \in Install, Cardinality(tracked[i]) <= 1
               PROVE  cardsOf[i] \cap oldKills[i] = {}
    BY DEF SetupQuiet
  <2>0. IsFiniteSet(tracked[i])  BY DEF InstallsInv, InOrder
  <2>1. Cardinality(tracked[i]) = 0 \/ Cardinality(tracked[i]) = 1
    BY <2>0, FS_CardinalityType
  <2>2. CASE Cardinality(tracked[i]) = 0
    BY <2>0, <2>2, FS_EmptySet DEF InstallsInv, InOrder
  <2>3. CASE Cardinality(tracked[i]) = 1
    <3>1. PICK g : tracked[i] = {g}  BY <2>0, <2>3, FS_Singleton
    <3> QED  BY <3>1 DEF InstallsInv, OldStaysOld
  <2> QED  BY <2>1, <2>2, <2>3
<1> QED  BY <1>1, InstallsInitial, InstallsStep, PTL DEF InstallsSafety

-----------------------------------------------------------------------------
(* Mythic+ records *)

MythicSafety == MythicInit /\ [][MythicNext]_mythicVars

(* An announcement in the channel has its claim, and the job that is about *)
(* to post claimed a run that has none.  Nothing is needed of the queue.   *)
RecordInv ==
  /\ posts \in [Run -> Nat]
  /\ recording = [at |-> recording.at, page |-> recording.page,
                  best |-> recording.best, target |-> recording.target]
  /\ \A r \in Run : posts[r] <= 1 /\ (posts[r] = 1 => r \in claims)
  /\ recording.at = "post" =>
       \A r \in Run : r = Head(recording.page) => r \in claims /\ posts[r] = 0

LEMMA RecordStep == RecordInv /\ [MythicNext]_mythicVars => RecordInv'
<1> SUFFICES ASSUME RecordInv, [MythicNext]_mythicVars PROVE RecordInv'
  OBVIOUS
<1> USE DEF RecordInv, recordVars, Keep, NoRecordJob
<1>1. CASE UNCHANGED <<recording, posts, claims>>  BY <1>1
<1>2. CASE UNCHANGED mythicVars  BY <1>1, <1>2 DEF mythicVars
<1>3. ASSUME NEW r \in Run, Completes(r) PROVE RecordInv'  BY <1>1, <1>3 DEF Completes
<1>4. CASE CollectorSteps
  <2>1. CASE CollectStarts  BY <1>1, <2>1 DEF CollectStarts
  <2>2. ASSUME NEW r \in Run, QueuesRun(r) PROVE RecordInv'  BY <1>1, <2>2 DEF QueuesRun
  <2>3. CASE KeepsRun  BY <1>1, <2>3 DEF KeepsRun
  <2>4. CASE SeesRun  BY <1>1, <2>4 DEF SeesRun
  <2>5. CASE CollectEnds  BY <1>1, <2>5 DEF CollectEnds
  <2> QED  BY <1>4, <2>1, <2>2, <2>3, <2>4, <2>5 DEF CollectorSteps
<1>5. CASE CollectFails  BY <1>1, <1>5 DEF CollectFails
(* Steps that neither post nor claim, and do not lead to a post. *)
<1>6. CASE /\ UNCHANGED <<posts, claims>> /\ recording'.at # "post"
           /\ recording' = [at |-> recording'.at, page |-> recording'.page,
                            best |-> recording'.best, target |-> recording'.target]
  BY <1>6
<1>7. CASE TakesBaseline  BY <1>6, <1>7 DEF TakesBaseline
<1>8. CASE SavesBaseline  BY <1>6, <1>8 DEF SavesBaseline
<1>9. CASE JobStarts  BY <1>6, <1>9 DEF JobStarts
<1>10. CASE JobEnds  BY <1>6, <1>10 DEF JobEnds
<1>11. CASE SyncsNothing  BY <1>6, <1>11 DEF SyncsNothing, Synced
<1>12. CASE SyncDraws  BY <1>6, <1>12 DEF SyncDraws
<1>13. CASE SyncStuck  BY <1>6, <1>13 DEF SyncStuck
<1>14. CASE SyncEdits  BY <1>6, <1>14 DEF SyncEdits
<1>15. CASE SyncSaves  BY <1>6, <1>15 DEF SyncSaves, Synced
<1>16. CASE TakesCandidate
  BY <1>6, <1>16 DEF TakesCandidate, CardFirst
<1>17. CASE ClaimsPost
  <2> DEFINE h == Head(recording.page)
  <2>0. UNCHANGED posts  BY <1>17 DEF ClaimsPost
  <2>1. \/ recording' = [recording EXCEPT !.at = "save"] /\ UNCHANGED claims
        \/ /\ claims' = claims \cup {h}
           /\ recording' = [recording EXCEPT !.at = IF h \in claims THEN "save" ELSE "post"]
    BY <1>17 DEF ClaimsPost, ClaimsOnce
  <2> HIDE DEF h
  <2>2. CASE recording' = [recording EXCEPT !.at = "save"] /\ UNCHANGED claims
    BY <1>6, <2>0, <2>2
  <2>3. CASE /\ claims' = claims \cup {h}
             /\ recording' = [recording EXCEPT !.at = IF h \in claims THEN "save" ELSE "post"]
    <3>1. recording'.page = recording.page  BY <2>3
    <3>2. Head(recording'.page) = h  BY <3>1 DEF h
    <3>3. recording'.at = "post" => h \notin claims  BY <2>3
    <3> QED  BY <2>0, <2>3, <3>2, <3>3
  <2> QED  BY <2>1, <2>2, <2>3
<1>18. CASE PostsRecord
  <2> DEFINE h == Head(recording.page)
  <2>1. PICK there \in BOOLEAN :
          /\ posts' = [posts EXCEPT ![h] = IF there THEN @ + 1 ELSE @]
          /\ \/ recording' = [recording EXCEPT !.at = "save"]
             \/ recording' = [recording EXCEPT !.at = "save", !.page = SubSeq(@, 1, 1)]
    BY <1>18 DEF PostsRecord
  <2>2. recording.at = "post" /\ UNCHANGED claims  BY <1>18 DEF PostsRecord
  <2>3. recording'.at = "save"
        /\ recording' = [at |-> recording'.at, page |-> recording'.page,
                         best |-> recording'.best, target |-> recording'.target]
    BY <2>1
  <2>4. \A r \in Run : r = h => r \in claims /\ posts[r] = 0  BY <2>2
  <2> HIDE DEF h
  <2>5. posts' = [posts EXCEPT ![h] = @ + 1] \/ posts' = posts
    <3>1. CASE there = TRUE  BY <2>1, <3>1
    <3>2. CASE there = FALSE  BY <2>1, <3>2
    <3> QED  BY <3>1, <3>2
  <2>6. posts' \in [Run -> Nat]
        /\ \A r \in Run : posts'[r] <= 1 /\ (posts'[r] = 1 => r \in claims)
    BY <2>4, <2>5
  <2> QED  BY <2>2, <2>3, <2>6
<1>19. CASE SavesRecord
  <2>1. UNCHANGED <<posts, claims>>  BY <1>19 DEF SavesRecord
  <2>2. \E best, page : recording' = [recording EXCEPT !.at = "take", !.page = page,
                                                      !.best = best, !.target = best]
    BY <1>19 DEF SavesRecord
  <2> QED  BY <1>6, <2>1, <2>2
<1>20. CASE JobFails  BY <1>6, <1>20 DEF JobFails
<1> QED
  BY <1>2, <1>3, <1>4, <1>5, <1>7, <1>8, <1>9, <1>10, <1>11, <1>12, <1>13, <1>14, <1>15, <1>16,
     <1>17, <1>18, <1>19, <1>20 DEF MythicNext, JobSteps

(* A record is announced at most once, although the job may end between    *)
(* the post and the row that says where it is, and begin again before it   *)
(* (mplus_records.py: "Never resend automatically").                       *)
THEOREM OneRecordPost == MythicSafety => []RecordOnce
<1>1. MythicInit => RecordInv
  BY DEF MythicInit, RecordInv, NoRecordJob
<1>2. RecordInv => RecordOnce
  BY DEF RecordInv, RecordOnce
<1> QED  BY <1>1, <1>2, RecordStep, PTL DEF MythicSafety

-----------------------------------------------------------------------------
(* The composition *)

LEMMA RoundsMove ==
  [RoundsNext]_roundVars => [InstallsNext]_installVars /\ [MythicNext]_mythicVars
<1> SUFFICES ASSUME [RoundsNext]_roundVars
             PROVE  [InstallsNext]_installVars /\ [MythicNext]_mythicVars
  OBVIOUS
<1>1. CASE UNCHANGED roundVars  BY <1>1 DEF roundVars
<1>2. CASE InstallsTurn /\ InstallsNext  BY <1>2 DEF InstallsTurn
<1>3. CASE ListeningTurns /\ ListeningNext  BY <1>3 DEF ListeningTurns
<1>4. CASE MythicTurns /\ MythicNext  BY <1>4 DEF MythicTurns
<1> QED  BY <1>1, <1>2, <1>3, <1>4 DEF RoundsNext

(* Both hold of what comes round together: what was dead at its setup is   *)
(* not announced to an install of one guild, and a record at most once.    *)
THEOREM RoundsSafe == RoundsSpec => []SetupQuiet /\ []RecordOnce
<1>1. RoundsInit => InstallsInit /\ MythicInit
  BY DEF RoundsInit
<1>2. RoundsSpec => RoundsInit /\ [][RoundsNext]_roundVars
  BY PTL DEF RoundsSpec
<1>3. RoundsSpec => InstallsSafety /\ MythicSafety
  BY <1>1, <1>2, RoundsMove, PTL DEF InstallsSafety, MythicSafety
<1> QED  BY <1>3, SetupIsQuiet, OneRecordPost, PTL
=============================================================================
