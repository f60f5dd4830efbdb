------------------------------- MODULE Reposts -------------------------------
(***************************************************************************)
(* Messages the control worker copies into another channel: Warcraft Logs  *)
(* reports posted outside progression hours are moved to the Saturday      *)
(* channel (log_routing.py), and a post with enough nominations gets a     *)
(* card in the featured channel (featured.py).  Gateway events, the        *)
(* website's menu command and people's own posts arrive meanwhile, and the *)
(* worker may die and be restarted at any step.                            *)
(***************************************************************************)
EXTENDS Naturals, FiniteSets

CONSTANTS
  Report,           \* messages with a report link, off progression hours
  Nominee,          \* posts of the social channels
  Voter,
  Threshold,        \* feature_threshold
  MaxMoveFaults,    \* BOUND: failed calls and restarts
  MaxCards          \* BOUND: cards of one post

ASSUME RepostsBounds ==
  /\ IsFiniteSet(Voter) /\ Threshold \in Nat \ {0}
  /\ MaxMoveFaults \in Nat /\ MaxCards \in Nat \ {0}

VARIABLES
  route,            \* log_route_delivery: [Report -> RouteState]
  inProg, inSat,    \* who finds the report where: original, copies or pastes
  byHand,           \* history: reports a person removed a message of
  votes,            \* feature_nominations: [Nominee -> SUBSET Voter]
  feature,          \* feature_delivery: [Nominee -> FeatureState]
  cards,            \* [Nominee -> Nat]: cards in the featured channel
  resumed,          \* history: [Nominee -> Nat]: restarts that put back a claim
                    \* whose card Discord already had
  leaving,          \* withdrawals between their look and their delete
  mover,            \* the move or the featuring under way
  moveFaults

repostVars == <<route, inProg, inSat, byHand, votes, feature, cards, resumed, leaving, mover, moveFaults>>

RouteState == {"none", "pending", "moving", "published", "moved", "duplicated",
               "gone", "skipped", "unknown"}
FeatureState == {"none", "pending", "featuring", "featured", "gone", "ineligible",
                 "skipped", "unknown"}
MoverStep == {"idle", "original", "recent", "publish", "publishing", "published", "remove",
              "look", "post", "posting"}
Mover == [at : MoverStep, what : SUBSET (Report \cup Nominee)]
Still == [at |-> "idle", what |-> {}]

RepostsTypeOK ==
  /\ route \in [Report -> RouteState]
  /\ inProg \subseteq Report /\ inSat \subseteq Report /\ byHand \subseteq Report
  /\ votes \in [Nominee -> SUBSET Voter] /\ feature \in [Nominee -> FeatureState]
  /\ cards \in [Nominee -> Nat] /\ resumed \in [Nominee -> Nat]
  /\ leaving \subseteq Nominee \X Voter
  /\ mover \in Mover /\ moveFaults \in 0..MaxMoveFaults

RepostsInit ==
  /\ route = [r \in Report |-> "none"] /\ inProg = {} /\ inSat = {} /\ byHand = {}
  /\ votes = [p \in Nominee |-> {}] /\ feature = [p \in Nominee |-> "none"]
  /\ cards = [p \in Nominee |-> 0] /\ resumed = [p \in Nominee |-> 0] /\ leaving = {}
  /\ mover = Still /\ moveFaults = 0

routing == <<route, inProg, inSat, byHand>>
featuring == <<votes, feature, cards, resumed, leaving>>
MoveFault == moveFaults < MaxMoveFaults /\ moveFaults' = moveFaults + 1
MoverAt(step, x) == mover.at = step /\ x \in mover.what
MoverTo(step) == mover' = [mover EXCEPT !.at = step]
Moved == mover' = Still

-----------------------------------------------------------------------------
(* log_routing.py *)

(* observe: the integration posts a report into the progression channel. *)
ReportPosted(r) ==
  /\ route[r] = "none"
  /\ route' = [route EXCEPT ![r] = "pending"] /\ inProg' = inProg \cup {r}
  /\ UNCHANGED <<inSat, byHand, featuring, mover, moveFaults>>

(* A raider pastes the link where it belongs, or somebody removes it. *)
Pasted(r) ==
  /\ r \in inProg \ inSat /\ inSat' = inSat \cup {r}
  /\ UNCHANGED <<route, inProg, byHand, featuring, mover, moveFaults>>

RemovedByHand(r) ==
  /\ \/ r \in inProg /\ inProg' = inProg \ {r} /\ UNCHANGED inSat
     \/ r \in inSat /\ inSat' = inSat \ {r} /\ UNCHANGED inProg
  /\ byHand' = byHand \cup {r}
  /\ UNCHANGED <<route, featuring, mover, moveFaults>>

Settled(r, state) == route' = [route EXCEPT ![r] = state]

TakeReport(r) ==
  /\ mover = Still /\ route[r] = "pending"
  /\ Settled(r, "moving") /\ mover' = [at |-> "original", what |-> {r}]
  /\ UNCHANGED <<inProg, inSat, byHand, featuring, moveFaults>>

(* The original again: deleted, without a link after all, or unreadable. *)
ReadOriginal(r) ==
  /\ MoverAt("original", r)
  /\ \/ r \in inProg /\ MoverTo("recent") /\ UNCHANGED <<route, moveFaults>>
     \/ r \notin inProg /\ Settled(r, "gone") /\ Moved /\ UNCHANGED moveFaults
     \/ Settled(r, "skipped") /\ Moved /\ UNCHANGED moveFaults
     \/ Settled(r, "unknown") /\ Moved /\ MoveFault
  /\ UNCHANGED <<inProg, inSat, byHand, featuring>>

(* The last 50 messages of the Saturday channel: a report that is there    *)
(* may be further up.                                                      *)
ReadRecent(r) ==
  /\ MoverAt("recent", r)
  /\ \/ r \in inSat /\ MoverTo("published") /\ UNCHANGED <<route, moveFaults>>
     \/ MoverTo("publish") /\ UNCHANGED <<route, moveFaults>>
     \/ Settled(r, "unknown") /\ Moved /\ MoveFault
  /\ UNCHANGED <<inProg, inSat, byHand, featuring>>

(* A variant: an unanswered publication is taken for one. *)
PublishHopefully(r) ==
  /\ MoverAt("publish", r)
  /\ \/ inSat' = inSat \cup {r} /\ MoverTo("publishing") /\ UNCHANGED <<route, moveFaults>>
     \/ /\ inSat' \in {inSat, inSat \cup {r}} /\ MoveFault
        /\ MoverTo("published") /\ UNCHANGED route
  /\ UNCHANGED <<inProg, byHand, featuring>>

Publish(r) ==
  /\ MoverAt("publish", r)
  /\ \/ inSat' = inSat \cup {r} /\ MoverTo("publishing") /\ UNCHANGED <<route, moveFaults>>
     \/ /\ inSat' \in {inSat, inSat \cup {r}} /\ MoveFault
        /\ Settled(r, "unknown") /\ Moved
  /\ UNCHANGED <<inProg, byHand, featuring>>

(* The answer arrived, or the report was there: settled before the delete. *)
SettlePublished(r) ==
  /\ MoverAt("publishing", r) \/ MoverAt("published", r)
  /\ Settled(r, "published") /\ MoverTo("remove")
  /\ UNCHANGED <<inProg, inSat, byHand, featuring, moveFaults>>

RemoveOriginal(r) ==
  /\ MoverAt("remove", r) /\ Moved
  /\ \/ inProg' = inProg \ {r} /\ Settled(r, "moved") /\ UNCHANGED moveFaults
     \/ inProg' \in {inProg, inProg \ {r}} /\ Settled(r, "duplicated") /\ MoveFault
  /\ UNCHANGED <<inSat, byHand, featuring>>

-----------------------------------------------------------------------------
(* featured.py *)

(* nominate, from a star or the menu. *)
Nominate(p, m) ==
  LET now == votes[p] \cup {m} IN
  /\ m \notin votes[p]
  /\ votes' = [votes EXCEPT ![p] = now]
  /\ feature' = [feature EXCEPT ![p] =
                   IF @ = "none" /\ Cardinality(now) >= Threshold THEN "pending" ELSE @]
  /\ UNCHANGED <<routing, cards, resumed, leaving, mover, moveFaults>>

(* withdraw looks for a delivery and deletes the vote in two statements;   *)
(* the website's process may nominate in between.                          *)
TakeStarBack(p, m) ==
  /\ m \in votes[p] /\ feature[p] = "none" /\ <<p, m>> \notin leaving
  /\ leaving' = leaving \cup {<<p, m>>}
  /\ UNCHANGED <<routing, votes, feature, cards, resumed, mover, moveFaults>>

DropVote(p, m) ==
  /\ <<p, m>> \in leaving /\ leaving' = leaving \ {<<p, m>>}
  /\ votes' = [votes EXCEPT ![p] = @ \ {m}]
  /\ UNCHANGED <<routing, feature, cards, resumed, mover, moveFaults>>

Feature(p, state) == feature' = [feature EXCEPT ![p] = state]

TakeNominee(p) ==
  /\ mover = Still /\ feature[p] = "pending"
  /\ Feature(p, "featuring") /\ mover' = [at |-> "look", what |-> {p}]
  /\ UNCHANGED <<routing, votes, cards, resumed, leaving, moveFaults>>

(* No vote names a channel, the post is gone, the channel does not count,  *)
(* or Discord does not answer.                                             *)
LookAtNominee(p) ==
  /\ MoverAt("look", p)
  /\ \/ votes[p] # {} /\ MoverTo("post") /\ UNCHANGED <<feature, moveFaults>>
     \/ votes[p] = {} /\ Feature(p, "skipped") /\ Moved /\ UNCHANGED moveFaults
     \/ Feature(p, "gone") /\ Moved /\ UNCHANGED moveFaults
     \/ Feature(p, "ineligible") /\ Moved /\ UNCHANGED moveFaults
     \/ Feature(p, "unknown") /\ Moved /\ MoveFault
  /\ UNCHANGED <<routing, votes, cards, resumed, leaving>>

(* Discord stores the card, or knows its nonce from a moment ago. *)
CardStored(p) ==
  /\ cards[p] < MaxCards
  /\ cards' \in {[cards EXCEPT ![p] = @ + 1]} \cup (IF cards[p] > 0 THEN {cards} ELSE {})

PostFeature(p) ==
  /\ MoverAt("post", p)
  /\ \/ CardStored(p) /\ MoverTo("posting") /\ UNCHANGED <<feature, moveFaults>>
     \/ CardStored(p) /\ Feature(p, "unknown") /\ Moved /\ MoveFault
     \/ UNCHANGED cards /\ Feature(p, "unknown") /\ Moved /\ MoveFault
  /\ UNCHANGED <<routing, votes, resumed, leaving>>

SettleFeatured(p) ==
  /\ MoverAt("posting", p)
  /\ Feature(p, "featured") /\ Moved
  /\ UNCHANGED <<routing, votes, cards, resumed, leaving, moveFaults>>

-----------------------------------------------------------------------------
(* The worker dies and starts again: both tables put back every claim with *)
(* no target, which is set only once the answer is in.                     *)
RepostsRestart ==
  /\ MoveFault /\ Moved
  /\ route' = [r \in Report |-> IF route[r] = "moving" THEN "pending" ELSE route[r]]
  /\ feature' = [p \in Nominee |-> IF feature[p] = "featuring" THEN "pending" ELSE feature[p]]
  /\ resumed' = [p \in Nominee |-> IF MoverAt("posting", p) THEN resumed[p] + 1 ELSE resumed[p]]
  /\ leaving' = {}
  /\ UNCHANGED <<inProg, inSat, byHand, votes, cards>>

RepostsNext ==
  \/ \E r \in Report :
       \/ ReportPosted(r) \/ Pasted(r) \/ RemovedByHand(r)
       \/ TakeReport(r) \/ ReadOriginal(r) \/ ReadRecent(r)
       \/ Publish(r) \/ SettlePublished(r) \/ RemoveOriginal(r)
  \/ \E p \in Nominee :
       \/ \E m \in Voter : Nominate(p, m) \/ TakeStarBack(p, m) \/ DropVote(p, m)
       \/ TakeNominee(p) \/ LookAtNominee(p) \/ PostFeature(p) \/ SettleFeatured(p)
  \/ RepostsRestart

RepostsSpec == RepostsInit /\ [][RepostsNext]_repostVars

-----------------------------------------------------------------------------
(* Properties *)

(* log_routing.py:7 "an interrupted move leaves the report visible twice   *)
(* rather than nowhere": a report that was posted, and that no person      *)
(* removed, is in one of the two channels at every moment, whatever fails  *)
(* and wherever the worker dies.                                           *)
NeverNowhere ==
  \A r \in Report : route[r] # "none" /\ r \notin byHand => r \in inProg \cup inSat

(* featured.py:242 "Every state settles once and nothing is retried": a    *)
(* post has one card, and another for each restart that put back a claim   *)
(* whose card was stored before its answer was recorded (featured.py:40),  *)
(* the one way to a second.                                                *)
FeaturedOnce == \A p \in Nominee : cards[p] <= 1 + resumed[p]
=============================================================================
