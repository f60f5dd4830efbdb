------------------------------- MODULE KeptProofs ------------------------------
(***************************************************************************)
(* Proofs about who gets in and what is kept, for any writers, failures,   *)
(* deaths and races of theirs: nobody is recorded before the notice or     *)
(* after Stop, the gate locks nobody out, a role is earned or clicked; the *)
(* journal's archive and the local capture are complete, a roster has no   *)
(* fill-ins, the grant of Warcraft Logs is held, a table that moves loses  *)
(* no row, and posts are tracked until their removal is noticed.           *)
(***************************************************************************)
EXTENDS Listening, Gate, Members, Journal, LocalLog, Roster, WclAuth, Migration, TrackedPosts,
        Vault, FiniteSetTheorems, TLAPS

-----------------------------------------------------------------------------
(* Voice accounts *)

ListeningSafety == ListeningInit /\ [][ListeningNext]_listeningVars

LinkState == {"none", "up", "down"}

SessionShapes ==
  /\ link \in [Account -> LinkState]
  /\ place \in [Account -> Channel \cup {Nowhere}] /\ home \in [Account -> Channel \cup {Nowhere}]
  /\ task \in VoiceTask
  /\ noticed \in [Account -> SUBSET Channel] /\ heard \in [Account -> SUBSET Channel]
  /\ stopped \subseteq Channel

(* One account at a time is on its way to a channel.                       *)
OneTask ==
  /\ task.at \in {"notice", "join"} => task.channel \in Channel
                                       /\ \E a \in Account : task.accounts = {a}
  /\ task.kind = "stop" /\ task.channel = Nowhere => task.accounts = Account

(* It joins a channel that was told.                                       *)
Told ==
  /\ NoticeFirst
  /\ task.at = "join" => \A a \in task.accounts : task.channel \in noticed[a]

(* No account is in a stopped channel, on its way there, or has it to go   *)
(* back to; what is being forgotten is out of its channel already.         *)
NobodyReturns ==
  /\ \A a \in Account : place[a] \notin stopped /\ home[a] \notin stopped
  /\ task.at \in {"notice", "join"} => task.channel \notin stopped
  /\ task.at = "forget" => \A a \in task.accounts : link[a] = "none" /\ place[a] = Nowhere

ListeningInv == SessionShapes /\ OneTask /\ Told /\ NobodyReturns

LEMMA ListeningInitial == ListeningInit => ListeningInv
  BY ListeningNames
  DEF ListeningInit, ListeningInv, SessionShapes, OneTask, Told, NobodyReturns, NoticeFirst,
      NoTask, VoiceTask, LinkState

LEMMA ListeningStep == ListeningInv /\ [ListeningNext]_listeningVars => ListeningInv'
<1> SUFFICES ASSUME ListeningInv, [ListeningNext]_listeningVars PROVE ListeningInv'
  OBVIOUS
<1> USE ListeningNames
    DEF ListeningInv, SessionShapes, OneTask, Told, NobodyReturns, NoticeFirst, LinkState, Up,
        NotBusy, sessions, listeningGhosts, VoiceTask, NoTask
<1>1. CASE UNCHANGED listeningVars  BY <1>1 DEF listeningVars
<1>2. ASSUME NEW c \in Channel, Comes(c) \/ EverybodyGoes(c) PROVE ListeningInv'
  BY <1>2 DEF Comes, EverybodyGoes
<1>3. ASSUME NEW c \in Channel, StopAsked(c) PROVE ListeningInv'
  BY <1>3 DEF StopAsked
<1>4. ASSUME NEW a \in Account, Drops(a) \/ Resumes(a) PROVE ListeningInv'
  BY <1>4 DEF Drops, Resumes
<1>5. ASSUME NEW a \in Account, MinutePasses(a) PROVE ListeningInv'
  BY <1>5 DEF MinutePasses
<1>6. ASSUME NEW a \in Account, TickAlone(a) PROVE ListeningInv'
  BY <1>6 DEF TickAlone, Left
<1>7. ASSUME NEW a \in Account, TickListening(a) PROVE ListeningInv'
  BY <1>7 DEF TickListening
<1>8. ASSUME NEW a \in Account, TickForgets(a) PROVE ListeningInv'
  BY <1>8 DEF TickForgets, Forgotten, ReturnDue
<1>9. ASSUME NEW a \in Account, TickReturns(a) PROVE ListeningInv'
  BY <1>9 DEF TickReturns, ReturnDue, Left
<1>10. ASSUME NEW a \in Account, NEW c \in Channel, Dragged(a, c) PROVE ListeningInv'
  BY <1>10 DEF Dragged
<1>11. ASSUME NEW a \in Account, NEW c \in Channel, ClipAsked(a, c) PROVE ListeningInv'
  BY <1>11 DEF ClipAsked
<1>12. ASSUME NEW a \in Account, PostNotice(a) PROVE ListeningInv'
  BY <1>12 DEF PostNotice, NoticeIsPosted, Fails, GivesUp, Forgotten
<1>13. ASSUME NEW a \in Account, Join(a) PROVE ListeningInv'
  BY <1>13 DEF Join, Fails, GivesUp, Forgotten
<1>14. CASE LeaveChannel  BY <1>14 DEF LeaveChannel, Left
<1>15. CASE Forget  BY <1>15 DEF Forget, HomesAfterStop, Forgotten, OnlyOne
<1>16. CASE VoiceWorkerRestarts  BY <1>16 DEF VoiceWorkerRestarts, Left
<1> QED
  BY <1>1, <1>2, <1>3, <1>4, <1>5, <1>6, <1>7, <1>8, <1>9, <1>10, <1>11, <1>12, <1>13, <1>14,
     <1>15, <1>16 DEF ListeningNext, ListeningSteps, Ticks

(* Nobody is recorded before the notice of this session, and nobody comes  *)
(* back after Stop, through lost connections, drags and restarts           *)
(* (voice_clips.py).                                                       *)
THEOREM NoticeAndStop == ListeningSafety => [](NoticeFirst /\ StopIsFinal)
<1>1. ListeningInv => NoticeFirst /\ StopIsFinal
  BY DEF ListeningInv, Told, NobodyReturns, StopIsFinal
<1> QED  BY <1>1, ListeningInitial, ListeningStep, PTL DEF ListeningSafety

-----------------------------------------------------------------------------
(* The onboarding gate *)

GateSafety == GateInit /\ [][GateNext]_gateVars

IsServer(s) ==
  /\ s = [perms |-> s.perms, overwrites |-> s.overwrites]
  /\ s.perms \in [GateRole -> BOOLEAN] /\ s.overwrites \in [GateChannel -> Overwrite]

(* A server on the way from a plan: @everyone may still view as before,    *)
(* and each of the other roles and each channel is as it was or as it is   *)
(* to be.                                                                  *)
OnTheWay(s, from) ==
  /\ s.perms[Everyone] = from.perms[Everyone]
  /\ \A r \in GateRole : s.perms[r] \in {from.perms[r], Plan(from).perms[r]}
  /\ \A c \in GateChannel : s.overwrites[c] \in {from.overwrites[c], Plan(from).overwrites[c]}

LEMMA PlanIsServer == ASSUME NEW s, IsServer(s) PROVE IsServer(Plan(s))
<1>1. Plan(s).perms \in [GateRole -> BOOLEAN]
  <2>1. (s.perms[Verified] \/ s.perms[Everyone]) \in BOOLEAN  OBVIOUS
  <2> QED  BY <2>1 DEF IsServer, Plan
<1>2. Plan(s).overwrites \in [GateChannel -> Overwrite]
  BY DEF IsServer, Plan, Overwrite
<1>3. Plan(s) = [perms |-> Plan(s).perms, overwrites |-> Plan(s).overwrites]
  BY DEF Plan
<1> QED  BY <1>1, <1>2, <1>3 DEF IsServer

(* On the way everybody who is not affected by the plan sees what he saw.  *)
LEMMA SameOnTheWay ==
  ASSUME NEW s, NEW from, IsServer(s), IsServer(from), OnTheWay(s, from),
         NEW p \in People, Seen(Plan(from), p) = Seen(from, p)
  PROVE  Seen(s, p) = Seen(from, p)
<1> SUFFICES ASSUME NEW c \in GateChannel PROVE Sees(s, p, c) <=> Sees(from, p, c)
  BY DEF Seen
<1>0. IsServer(Plan(from))  BY PlanIsServer
<1>1. Sees(Plan(from), p, c) <=> Sees(from, p, c)
  BY DEF Seen
<1>2. p \subseteq GateRole /\ Everyone \notin p /\ Everyone \in GateRole /\ Verified \in GateRole
  BY GateNames DEF GateRole
<1>3. \A r \in GateRole \ {Everyone} :
        /\ Plan(from).overwrites[c][r] = from.overwrites[c][r]
        /\ s.overwrites[c][r] = from.overwrites[c][r]
  BY DEF IsServer, Plan, OnTheWay, Overwrite
<1>4. Plan(from).perms = [from.perms EXCEPT ![Everyone] = FALSE,
                                           ![Verified] = @ \/ from.perms[Everyone]]
  BY DEF Plan
<1>5. Plan(from).overwrites[c][Everyone] =
        IF c \in Public THEN "allow"
        ELSE IF from.overwrites[c][Everyone] = "allow" THEN "none"
        ELSE from.overwrites[c][Everyone]
  BY <1>2 DEF Plan, IsServer, Overwrite
<1>6. CASE from.perms[Everyone] = TRUE
  BY <1>1, <1>2, <1>3, <1>5, <1>6 DEF Sees, OnTheWay, IsServer, Overwrite
<1>7. CASE from.perms[Everyone] = FALSE
  <2>1. \A r \in GateRole : Plan(from).perms[r] = from.perms[r] /\ s.perms[r] = from.perms[r]
    <3>1. (from.perms[Verified] \/ from.perms[Everyone]) = from.perms[Verified]
      BY <1>2, <1>7 DEF IsServer
    <3>2. \A r \in GateRole : Plan(from).perms[r] = from.perms[r]
      BY <1>2, <1>4, <1>7, <3>1, GateNames DEF IsServer
    <3> QED  BY <3>2 DEF OnTheWay
  <2>2. s.overwrites[c] = from.overwrites[c] \/ s.overwrites[c] = Plan(from).overwrites[c]
    BY DEF OnTheWay
  <2>3. CASE s.overwrites[c] = from.overwrites[c]
    BY <1>2, <2>1, <2>3 DEF Sees
  <2>4. CASE s.overwrites[c] = Plan(from).overwrites[c]
    BY <1>1, <1>2, <2>1, <2>4 DEF Sees
  <2> QED  BY <2>2, <2>3, <2>4
<1> QED  BY <1>6, <1>7 DEF IsServer, GateRole

(* Once everything else is done @everyone's view is taken: the plan.       *)
LEMMA Arrived ==
  ASSUME NEW s, NEW from, IsServer(s), IsServer(from),
         \A r \in GateRole : s.perms[r] = Plan(from).perms[r],
         \A c \in GateChannel : s.overwrites[c] = Plan(from).overwrites[c]
  PROVE  s = Plan(from)
<1>1. IsServer(Plan(from))  BY PlanIsServer
<1>2. s.perms = Plan(from).perms  BY <1>1 DEF IsServer
<1>3. s.overwrites = Plan(from).overwrites  BY <1>1 DEF IsServer
<1> QED  BY <1>1, <1>2, <1>3 DEF IsServer

EveryonesView == [kind |-> "role", on |-> Everyone]

(* Unless somebody edited meanwhile: everybody sees what he saw; during a  *)
(* cutover its plan preserves that; @everyone's view is taken after all    *)
(* the rest; and what is not to be done any more is done.                  *)
Underway ==
  /\ cutover.plan \in Server /\ cutover.todo \subseteq Change
  /\ \A p \in People : Seen(cutover.plan, p) = saw[p] /\ Seen(Plan(cutover.plan), p) = saw[p]
  /\ \A r \in GateRole : perms[r] \in {cutover.plan.perms[r], Plan(cutover.plan).perms[r]}
  /\ \A c \in GateChannel :
       overwrites[c] \in {cutover.plan.overwrites[c], Plan(cutover.plan).overwrites[c]}
  /\ \A r \in GateRole : [kind |-> "role", on |-> r] \notin cutover.todo =>
       perms[r] = Plan(cutover.plan).perms[r]
  /\ \A c \in GateChannel : [kind |-> "channel", on |-> c] \notin cutover.todo =>
       overwrites[c] = Plan(cutover.plan).overwrites[c]
  /\ perms[Everyone] # cutover.plan.perms[Everyone] => cutover.todo \subseteq {EveryonesView}
  /\ cutover.at \in {"write", "confirm"} =>
       /\ cutover.change \in cutover.todo
       /\ cutover.change = EveryonesView => cutover.todo = {EveryonesView}

(* While nobody else edits. *)
GateSound ==
  /\ perms \in [GateRole -> BOOLEAN] /\ overwrites \in [GateChannel -> Overwrite]
  /\ cutover = NoCutover \/ cutover = [at |-> cutover.at, plan |-> cutover.plan,
                                      todo |-> cutover.todo, change |-> cutover.change]
  /\ cutover.at \in {"idle", "check", "write", "confirm"}
  /\ IF cutover.at = "idle" THEN \A p \in People : Seen(Live, p) = saw[p] ELSE Underway

LEMMA LiveIsServer == GateSound => IsServer(Live) /\ Live \in Server
  BY DEF GateSound, IsServer, Live, Server

LEMMA UnderwaySeen ==
  ASSUME GateSound, NEW p \in People
  PROVE  Seen(Live, p) = saw[p]
<1>1. CASE cutover.at = "idle"  BY <1>1 DEF GateSound
<1>2. CASE Underway
  <2> DEFINE from == cutover.plan
  <2>1. IsServer(Live) /\ IsServer(from)
    BY <1>2, LiveIsServer DEF Underway, Server, IsServer
  <2>2. Seen(from, p) = saw[p] /\ Seen(Plan(from), p) = saw[p]
    BY <1>2 DEF Underway
  <2>3. Live.perms = perms /\ Live.overwrites = overwrites  BY DEF Live
  <2>4. CASE perms[Everyone] = from.perms[Everyone]
    <3>1. OnTheWay(Live, from)
      BY <1>2, <2>3, <2>4 DEF OnTheWay, Underway
    <3> QED  BY <2>1, <2>2, <3>1, SameOnTheWay
  <2>5. CASE perms[Everyone] # from.perms[Everyone]
    <3>1. cutover.todo \subseteq {EveryonesView}
      BY <1>2, <2>5 DEF Underway
    <3>2. \A r \in GateRole : perms[r] = Plan(from).perms[r]
      <4>1. Everyone \in GateRole  BY DEF GateRole
      <4>2. ASSUME NEW r \in GateRole, r # Everyone PROVE perms[r] = Plan(from).perms[r]
        <5>1. [kind |-> "role", on |-> r] # EveryonesView  BY <4>2 DEF EveryonesView
        <5> QED  BY <1>2, <3>1, <5>1 DEF Underway
      <4> QED  BY <1>2, <2>5, <4>1, <4>2 DEF Underway
    <3>3. \A c \in GateChannel : overwrites[c] = Plan(from).overwrites[c]
      <4>1. \A c \in GateChannel : [kind |-> "channel", on |-> c] # EveryonesView
        BY DEF EveryonesView
      <4> QED  BY <1>2, <3>1, <4>1 DEF Underway
    <3>4. Live = Plan(from)  BY <2>1, <2>3, <3>2, <3>3, Arrived
    <3> QED  BY <2>2, <3>4
  <2> QED  BY <2>4, <2>5
<1> QED  BY <1>1, <1>2 DEF GateSound

(* What leaves the server and the members' memory of it alone, and ends    *)
(* the cutover.                                                            *)
LEMMA GateStops ==
  ASSUME GateSound, UNCHANGED <<perms, overwrites, saw>>, cutover' = NoCutover
  PROVE  GateSound'
<1>1. \A p \in People : Seen(Live, p)' = saw'[p]
  BY UnderwaySeen DEF Seen, Sees, Live
<1> QED  BY <1>1 DEF GateSound, NoCutover

LEMMA GateBegins == ASSUME GateSound, Begins PROVE GateSound'
<1>1. cutover' = [at |-> "check", plan |-> Live, todo |-> Changes(Live), change |-> NoChange]
      /\ UNCHANGED <<perms, overwrites, saw>> /\ NobodyAffected(Live)
  BY DEF Begins, Acceptable
<1>2. IsServer(Live) /\ Live \in Server /\ Live.perms = perms /\ Live.overwrites = overwrites
  BY LiveIsServer DEF Live
<1> DEFINE now == Live
<1>3. cutover'.plan = now /\ cutover'.todo = Changes(now) /\ cutover'.at = "check"
  BY <1>1
<1>4. ASSUME NEW p \in People
      PROVE  Seen(now, p) = saw[p] /\ Seen(Plan(now), p) = saw[p]
  BY <1>1, UnderwaySeen DEF NobodyAffected
<1> HIDE DEF now
<1>5. Changes(now) \subseteq Change  BY DEF Changes, Change
<1>6. \A r \in GateRole : [kind |-> "role", on |-> r] \notin Changes(now) =>
        now.perms[r] = Plan(now).perms[r]
  BY DEF Changes
<1>7. \A c \in GateChannel : [kind |-> "channel", on |-> c] \notin Changes(now) =>
        now.overwrites[c] = Plan(now).overwrites[c]
  BY DEF Changes
<1>8. now \in Server /\ now.perms = perms /\ now.overwrites = overwrites
  BY <1>2 DEF now
<1>9. Underway'
  <2>1. Plan(cutover.plan)' = Plan(now)  BY <1>3 DEF Plan
  <2>2. ASSUME NEW p \in People
        PROVE  Seen(cutover.plan, p)' = saw[p] /\ Seen(Plan(cutover.plan), p)' = saw[p]
    <3>1. Seen(cutover.plan, p)' = Seen(now, p)  BY <1>3 DEF Seen, Sees
    <3>2. Seen(Plan(cutover.plan), p)' = Seen(Plan(now), p)  BY <2>1 DEF Seen, Sees
    <3> QED  BY <1>4, <3>1, <3>2
  <2> QED  BY <1>1, <1>3, <1>5, <1>6, <1>7, <1>8, <2>1, <2>2 DEF Underway
<1> QED  BY <1>1, <1>3, <1>9 DEF GateSound

(* A step of a cutover that keeps its plan: what everybody saw stays so.   *)
LEMMA SamePlan ==
  ASSUME Underway, cutover'.plan = cutover.plan, UNCHANGED saw
  PROVE  /\ Plan(cutover.plan)' = Plan(cutover.plan)
         /\ \A p \in People : Seen(cutover.plan, p)' = saw'[p]
                              /\ Seen(Plan(cutover.plan), p)' = saw'[p]
<1>1. Plan(cutover.plan)' = Plan(cutover.plan)  BY DEF Plan
<1>2. ASSUME NEW p \in People
      PROVE  Seen(cutover.plan, p)' = saw'[p] /\ Seen(Plan(cutover.plan), p)' = saw'[p]
  <2>1. Seen(cutover.plan, p)' = Seen(cutover.plan, p)  BY DEF Seen, Sees
  <2>2. Seen(Plan(cutover.plan), p)' = Seen(Plan(cutover.plan), p)  BY <1>1 DEF Seen, Sees
  <2> QED  BY <2>1, <2>2 DEF Underway
<1> QED  BY <1>1, <1>2

(* A channel of which @everyone's overwrite is the planned one is done.    *)
LEMMA ChannelDone ==
  ASSUME GateSound, Underway, NEW c \in GateChannel,
         overwrites[c][Everyone] = Plan(cutover.plan).overwrites[c][Everyone]
  PROVE  overwrites[c] = Plan(cutover.plan).overwrites[c]
<1>1. cutover.plan.overwrites[c] \in Overwrite /\ overwrites[c] \in Overwrite
  BY DEF Underway, Server, GateSound
<1>2. \A r \in GateRole : r # Everyone =>
        Plan(cutover.plan).overwrites[c][r] = cutover.plan.overwrites[c][r]
  BY <1>1 DEF Plan, Overwrite
<1>3. IsServer(Plan(cutover.plan))
  BY PlanIsServer DEF Underway, Server, IsServer
<1> QED  BY <1>1, <1>2, <1>3 DEF Underway, Overwrite, IsServer

LEMMA GateChecks == ASSUME GateSound, NEW change \in Change, Checks(change) PROVE GateSound'
<1>0. /\ cutover.at = "check" /\ Next1(change) /\ UNCHANGED <<perms, overwrites, saw>>
      /\ \/ change.kind = "channel" /\ Now(change) = After(change)
            /\ cutover' = [cutover EXCEPT !.todo = @ \ {change}]
         \/ Now(change) = GateBefore(change)
            /\ cutover' = [cutover EXCEPT !.at = "write", !.change = change]
         \/ cutover' = NoCutover
  BY DEF Checks
<1>1. CASE cutover' = NoCutover  BY <1>0, <1>1, GateStops
<1>2. CASE Now(change) = GateBefore(change)
           /\ cutover' = [cutover EXCEPT !.at = "write", !.change = change]
  <2>1. cutover' = [at |-> "write", plan |-> cutover.plan, todo |-> cutover.todo,
                    change |-> change]
    <3>1. cutover = [at |-> cutover.at, plan |-> cutover.plan, todo |-> cutover.todo,
                     change |-> cutover.change]
      BY <1>0 DEF GateSound, NoCutover
    <3> QED  BY <1>2, <3>1
  <2>2. Underway'
    <3>1. Underway  BY <1>0 DEF GateSound
    <3>2. change = EveryonesView => cutover.todo = {EveryonesView}
      <4> SUFFICES ASSUME change = EveryonesView, NEW other \in cutover.todo
                   PROVE  other = EveryonesView
        BY <1>0 DEF Next1
      <4>1. Order(change) = 3 /\ Order(change) <= Order(other)
        BY <1>0 DEF Next1, Order, EveryonesView
      <4>2. Order(other) = 3  BY <4>1 DEF Order
      <4>3. other \in Change  BY <3>1 DEF Underway
      <4> QED  BY <4>2, <4>3 DEF Order, Change, EveryonesView
    <3>3. change \in cutover.todo  BY <1>0 DEF Next1
    <3> QED  BY <1>0, <2>1, <3>1, <3>2, <3>3, SamePlan DEF Underway
  <2> QED  BY <1>0, <2>1, <2>2 DEF GateSound
<1>3. CASE change.kind = "channel" /\ Now(change) = After(change)
           /\ cutover' = [cutover EXCEPT !.todo = @ \ {change}]
  <2>1. cutover' = [at |-> "check", plan |-> cutover.plan, todo |-> cutover.todo \ {change},
                    change |-> cutover.change]
    BY <1>0, <1>3 DEF GateSound, NoCutover
  <2>2. Underway'
    <3>1. Underway  BY <1>0 DEF GateSound
    <3>2. PICK c \in GateChannel : change = [kind |-> "channel", on |-> c]
      BY <1>3 DEF Change
    <3>3. overwrites[c][Everyone] = Plan(cutover.plan).overwrites[c][Everyone]
      BY <1>3, <3>2 DEF Now, After
    <3>4. overwrites[c] = Plan(cutover.plan).overwrites[c]
      BY <3>1, <3>3, ChannelDone
    <3>5. \A r \in GateRole : [kind |-> "role", on |-> r] # change  BY <3>2
    <3>6. \A d \in GateChannel : [kind |-> "channel", on |-> d] = change => d = c  BY <3>2
    <3> QED  BY <1>0, <2>1, <3>1, <3>4, <3>5, <3>6, SamePlan DEF Underway
  <2> QED  BY <1>0, <2>1, <2>2 DEF GateSound
<1> QED  BY <1>0, <1>1, <1>2, <1>3

LEMMA GateWrites == ASSUME GateSound, Writes PROVE GateSound'
<1> DEFINE change == cutover.change
           plan == cutover.plan
<1>0. /\ cutover.at = "write" /\ UNCHANGED saw
      /\ cutover' = [cutover EXCEPT !.at = "confirm"]
      /\ IF change.kind = "role"
           THEN perms' = [perms EXCEPT ![change.on] = After(change)] /\ UNCHANGED overwrites
         ELSE overwrites' = [overwrites EXCEPT ![change.on][Everyone] = After(change)]
              /\ UNCHANGED perms
  BY DEF Writes
<1>1. cutover' = [at |-> "confirm", plan |-> plan, todo |-> cutover.todo, change |-> change]
  <2>1. cutover = [at |-> cutover.at, plan |-> cutover.plan, todo |-> cutover.todo,
                   change |-> cutover.change]
    BY <1>0 DEF GateSound, NoCutover
  <2> QED  BY <1>0, <2>1
<1>2. Underway  BY <1>0 DEF GateSound
<1>3. IsServer(Plan(plan)) /\ IsServer(plan)
  BY <1>2, PlanIsServer DEF Underway, Server, IsServer
<1>4. change \in Change /\ change \in cutover.todo  BY <1>0, <1>2 DEF Underway
<1>5. CASE change.kind = "role"
  <2>1. PICK r \in GateRole : change = [kind |-> "role", on |-> r]
    BY <1>4, <1>5 DEF Change
  <2>2. perms' = [perms EXCEPT ![r] = Plan(plan).perms[r]] /\ UNCHANGED overwrites
    BY <1>0, <2>1 DEF After
  <2>3. perms' \in [GateRole -> BOOLEAN]
    BY <1>3, <2>2 DEF GateSound, IsServer
  <2>4. \A q \in GateRole :
          perms'[q] = IF q = r THEN Plan(plan).perms[r] ELSE perms[q]
    BY <2>2 DEF GateSound
  <2>5. r = Everyone => cutover.todo = {EveryonesView}
    BY <1>0, <1>2, <2>1 DEF Underway, EveryonesView
  <2>6. Underway'
    BY <1>0, <1>1, <1>2, <2>2, <2>4, <2>5, SamePlan DEF Underway
  <2> QED  BY <1>0, <1>1, <2>2, <2>3, <2>6 DEF GateSound
<1>6. CASE change.kind # "role"
  <2>1. PICK c \in GateChannel : change = [kind |-> "channel", on |-> c]
    BY <1>4, <1>6 DEF Change
  <2>2. overwrites' = [overwrites EXCEPT ![c] =
                         [@ EXCEPT ![Everyone] = Plan(plan).overwrites[c][Everyone]]]
        /\ UNCHANGED perms
    BY <1>0, <2>1 DEF After
  <2>3. overwrites'[c] = Plan(plan).overwrites[c]
    <3>1. overwrites[c] \in Overwrite /\ plan.overwrites[c] \in Overwrite
          /\ Plan(plan).overwrites[c] \in Overwrite
      BY <1>3 DEF GateSound, IsServer
    <3>2. overwrites[c] \in {plan.overwrites[c], Plan(plan).overwrites[c]}
      BY <1>2 DEF Underway
    <3>3. Plan(plan).overwrites[c] =
            [plan.overwrites[c] EXCEPT ![Everyone] = Plan(plan).overwrites[c][Everyone]]
      BY <3>1 DEF Plan, Overwrite
    <3>4. overwrites'[c] = [overwrites[c] EXCEPT ![Everyone] = Plan(plan).overwrites[c][Everyone]]
      BY <2>2 DEF GateSound
    <3> QED  BY <3>1, <3>2, <3>3, <3>4 DEF Overwrite
  <2>4. \A d \in GateChannel : d # c => overwrites'[d] = overwrites[d]
    BY <2>2 DEF GateSound
  <2>5. overwrites' \in [GateChannel -> Overwrite]
    BY <1>3, <2>2, <2>3 DEF GateSound, IsServer
  <2>6. Underway'
    BY <1>0, <1>1, <1>2, <2>2, <2>3, <2>4, SamePlan DEF Underway
  <2> QED  BY <1>0, <1>1, <2>2, <2>5, <2>6 DEF GateSound
<1> QED  BY <1>5, <1>6

LEMMA GateConfirms == ASSUME GateSound, Confirms PROVE GateSound'
<1> DEFINE change == cutover.change
<1>0. /\ cutover.at = "confirm" /\ UNCHANGED <<perms, overwrites, saw>>
      /\ \/ Now(change) = After(change)
            /\ cutover' = [cutover EXCEPT !.at = "check", !.todo = @ \ {change},
                                          !.change = NoChange]
         \/ cutover' = NoCutover
  BY DEF Confirms
<1>1. CASE cutover' = NoCutover  BY <1>0, <1>1, GateStops
<1>2. CASE Now(change) = After(change)
           /\ cutover' = [cutover EXCEPT !.at = "check", !.todo = @ \ {change},
                                         !.change = NoChange]
  <2>1. cutover' = [at |-> "check", plan |-> cutover.plan, todo |-> cutover.todo \ {change},
                    change |-> NoChange]
    <3>1. cutover = [at |-> cutover.at, plan |-> cutover.plan, todo |-> cutover.todo,
                     change |-> cutover.change]
      BY <1>0 DEF GateSound, NoCutover
    <3> QED  BY <1>2, <3>1
  <2>2. Underway  BY <1>0 DEF GateSound
  <2>3. change \in Change  BY <1>0, <2>2 DEF Underway
  <2>4. \A r \in GateRole : [kind |-> "role", on |-> r] = change =>
          perms[r] = Plan(cutover.plan).perms[r]
    BY <1>2 DEF Now, After
  <2>5. \A c \in GateChannel : [kind |-> "channel", on |-> c] = change =>
          overwrites[c] = Plan(cutover.plan).overwrites[c]
    BY <1>2, <2>2, ChannelDone DEF Now, After
  <2>6. Underway'
    BY <1>0, <2>1, <2>2, <2>4, <2>5, SamePlan DEF Underway
  <2> QED  BY <1>0, <2>1, <2>6 DEF GateSound
<1> QED  BY <1>0, <1>1, <1>2

GateInv == edits \in Nat /\ (edits = 0 => GateSound)

LEMMA GateInitial == GateInit => GateInv
<1> SUFFICES ASSUME GateInit PROVE GateInv
  OBVIOUS
<1>1. \A p \in People : Seen(Live, p) = saw[p]
  BY DEF GateInit
<1> QED  BY <1>1 DEF GateInit, GateInv, GateSound, NoCutover

LEMMA GateStep == GateInv /\ [GateNext]_gateVars => GateInv'
<1> SUFFICES ASSUME GateInv, [GateNext]_gateVars PROVE GateInv'
  OBVIOUS
<1>1. CASE UNCHANGED gateVars
  <2>1. GateSound' <=> GateSound
    BY <1>1 DEF gateVars, GateSound, Underway, Seen, Sees, Live, Plan
  <2> QED  BY <1>1, <2>1 DEF GateInv, gateVars
<1>2. CASE Begins  BY <1>2, GateBegins DEF GateInv, Begins
<1>3. ASSUME NEW change \in Change, Checks(change) PROVE GateInv'
  BY <1>3, GateChecks DEF GateInv, Checks
<1>4. CASE Writes  BY <1>4, GateWrites DEF GateInv, Writes
<1>5. CASE Confirms  BY <1>5, GateConfirms DEF GateInv, Confirms
<1>6. CASE Completes1  BY <1>6, GateStops DEF GateInv, Completes1
<1>7. CASE Ends  BY <1>7, GateStops DEF GateInv, Ends
<1>8. CASE Edited  BY <1>8 DEF GateInv, Edited
<1> QED  BY <1>1, <1>2, <1>3, <1>4, <1>5, <1>6, <1>7, <1>8 DEF GateNext

(* The apply of onboarding_gate.py may end at any of its steps, and be     *)
(* begun again: while nobody else edits, every present member goes on      *)
(* seeing exactly what he saw before it.                                   *)
THEOREM GateKeepsView == GateSafety => []NobodyLockedOut
<1>1. GateInv => NobodyLockedOut  BY UnderwaySeen DEF GateInv, NobodyLockedOut
<1> QED  BY <1>1, GateInitial, GateStep, PTL DEF GateSafety

-----------------------------------------------------------------------------
(* What members ask for *)

MembersSafety == MembersInit /\ [][MembersNext]_memberVars

MemberShapes ==
  /\ person \in [joined : Nat, pending : BOOLEAN, roles : SUBSET {"verified", "pick"}]
  /\ joins \in Nat /\ form \in Nat
  /\ memberJobs \in [Request -> MemberJob] /\ line \in Seq(Request)
  /\ executor \in [at : {"idle", "read", "put", "confirm", "record"},
                   request : Request \cup {NoOne}, saw : Nat, held : BOOLEAN,
                   over : {"none", "deny", "allow"}]
  /\ view \in {"none", "deny", "allow"}
  /\ requested \in [Request -> Nat]

(* A request is once in the queue, and in it while it is queued only.      *)
Queued ==
  /\ \A i \in 1..Len(line) : memberJobs[line[i]].state = "queued"
  /\ \A i, j \in 1..Len(line) : line[i] = line[j] => i = j

(* One that is carried out is on record as such, and has not asked Discord *)
(* before its write.                                                       *)
Asked ==
  /\ ClickOnce
  /\ \A r \in Request : memberJobs[r].state \in {"none", "queued"} => requested[r] = 0
  /\ executor.at # "idle" =>
       executor.request \in Request /\ memberJobs[executor.request].state = "executing"
  /\ executor.at \in {"read", "put"} => requested[executor.request] = 0

(* A request for the verified role is of a membership that passed, and is  *)
(* carried out on a look at that membership.                               *)
Earned ==
  /\ VerifiedEarned
  /\ \A r \in Request : memberJobs[r].state # "none" /\ memberJobs[r].kind = "verify_role" =>
       memberJobs[r].arg \in passed
  /\ executor.at = "put" /\ memberJobs[executor.request].kind = "verify_role" =>
       executor.saw \in passed

MembersInv == MemberShapes /\ Queued /\ Asked /\ Earned

LEMMA MembersInitial == MembersInit => MembersInv
  BY DEF MembersInit, MembersInv, MemberShapes, Queued, Asked, Earned, ClickOnce,
         VerifiedEarned, Verified1, NoRequest, NotExecuting, NoOne, MemberJob, Kind

(* Somebody's request, at the end of the queue. *)
LEMMA QueueKeeps ==
  ASSUME MembersInv, NEW r \in Request, NEW kind \in Kind, NEW arg \in Nat,
         Queue(r, kind, arg), kind = "verify_role" => arg \in passed', passed \subseteq passed',
         UNCHANGED <<person, joins, executor, view, given, requested>>, form' \in Nat
  PROVE  MembersInv'
<1> USE DEF MembersInv
<1> DEFINE job == [state |-> "queued", kind |-> kind, arg |-> arg, stale |-> FALSE]
<1>1. memberJobs[r].state = "none" /\ memberJobs' = [memberJobs EXCEPT ![r] = job]
      /\ line' = Append(line, r)
  BY DEF Queue
<1>2. MemberShapes'
  BY <1>1 DEF MemberShapes, MemberJob
<1>3. memberJobs'[r] = job /\ \A q \in Request : q # r => memberJobs'[q] = memberJobs[q]
  BY <1>1 DEF MemberShapes
<1> HIDE DEF job
<1>4. job.state = "queued" /\ job.kind = kind /\ job.arg = arg  BY DEF job
<1>5. Queued'
  <2>1. \A i \in 1..Len(line) : line[i] # r  BY <1>1 DEF Queued
  <2>2. /\ Len(line') = Len(line) + 1 /\ line'[Len(line) + 1] = r
        /\ \A i \in 1..Len(line) : line'[i] = line[i] /\ line[i] \in Request
    BY <1>1 DEF MemberShapes
  <2>3. ASSUME NEW i \in 1..Len(line')
        PROVE  \/ i \in 1..Len(line) /\ line'[i] = line[i] /\ line'[i] # r
                  /\ memberJobs'[line'[i]].state = "queued"
               \/ i = Len(line) + 1 /\ line'[i] = r
    <3>1. CASE i = Len(line) + 1  BY <2>2, <3>1
    <3>2. CASE i # Len(line) + 1
      <4>1. Len(line) \in Nat  BY DEF MemberShapes
      <4>2. i \in 1..Len(line)  BY <2>2, <3>2, <4>1
      <4> QED  BY <1>3, <2>1, <2>2, <4>2 DEF Queued
    <3> QED  BY <3>1, <3>2
  <2>4. \A i \in 1..Len(line') : memberJobs'[line'[i]].state = "queued"
    BY <1>3, <1>4, <2>3
  <2>5. ASSUME NEW i \in 1..Len(line'), NEW j \in 1..Len(line'), line'[i] = line'[j]
        PROVE  i = j
    BY <2>3, <2>5 DEF Queued
  <2> QED  BY <2>4, <2>5 DEF Queued
<1>6. Asked'
  BY <1>1, <1>3, <1>4 DEF Asked, ClickOnce, MemberShapes
<1>7. Earned'
  BY <1>1, <1>3, <1>4 DEF Earned, VerifiedEarned, Verified1, Asked, MemberShapes
<1> QED  BY <1>2, <1>5, <1>6, <1>7

(* A request ends, and with it the worker's job. *)
LEMMA EndKeeps ==
  ASSUME MemberShapes, Queued, Asked, NEW state \in {"completed", "denied", "unknown"},
         Ended(state), executor.at # "idle", UNCHANGED <<line, joins>>, form' \in Nat,
         requested' \in [Request -> Nat],
         \A q \in Request : q # executor.request => requested'[q] = requested[q],
         requested'[executor.request] <= 1,
         person' \in [joined : Nat, pending : BOOLEAN, roles : SUBSET {"verified", "pick"}],
         view' \in {"none", "deny", "allow"},
         VerifiedEarned', passed \subseteq passed', Earned
  PROVE  MembersInv'
<1> DEFINE r == executor.request
<1>1. r \in Request /\ memberJobs[r].state = "executing"
  BY DEF Asked
<1>2. memberJobs' = [memberJobs EXCEPT ![r] = [@ EXCEPT !.state = state]]
      /\ executor' = NotExecuting
  BY DEF Ended
<1>3. memberJobs[r] = [state |-> memberJobs[r].state, kind |-> memberJobs[r].kind,
                       arg |-> memberJobs[r].arg, stale |-> memberJobs[r].stale]
      /\ memberJobs[r] \in MemberJob
  BY <1>1 DEF MemberShapes, MemberJob
<1>4. memberJobs'[r] = [state |-> state, kind |-> memberJobs[r].kind,
                        arg |-> memberJobs[r].arg, stale |-> memberJobs[r].stale]
      /\ \A q \in Request : q # r => memberJobs'[q] = memberJobs[q]
  BY <1>1, <1>2, <1>3 DEF MemberShapes
<1>5. memberJobs'[r] \in MemberJob  BY <1>3, <1>4 DEF MemberJob
<1>6. memberJobs' \in [Request -> MemberJob]
  BY <1>2, <1>5 DEF MemberShapes
<1>7. MemberShapes'
  BY <1>2, <1>6 DEF MemberShapes, NotExecuting
<1>8. Queued'
  <2>1. \A i \in 1..Len(line) : line[i] \in Request /\ line[i] # r
    BY <1>1 DEF Queued, MemberShapes
  <2> QED  BY <1>4, <2>1 DEF Queued
<1>9. Asked'
  <2>1. ASSUME NEW q \in Request
        PROVE  requested'[q] <= 1
               /\ (memberJobs'[q].state \in {"none", "queued"} => requested'[q] = 0)
    <3>1. CASE q = r  BY <1>4, <3>1
    <3>2. CASE q # r  BY <1>4, <3>2 DEF Asked, ClickOnce
    <3> QED  BY <3>1, <3>2
  <2> QED  BY <1>2, <2>1 DEF Asked, ClickOnce, NotExecuting
<1>10. Earned'
  BY <1>1, <1>2, <1>4 DEF Earned, NotExecuting, MemberShapes
<1> QED  BY <1>7, <1>8, <1>9, <1>10 DEF MembersInv

(* The oldest in the queue is taken. *)
LEMMA TakeKeeps == ASSUME MembersInv, TakesJob PROVE MembersInv'
<1> USE DEF MembersInv
<1> DEFINE r == Head(line)
<1>1. /\ executor.at = "idle" /\ line # <<>> /\ line' = Tail(line)
      /\ executor' = [NotExecuting EXCEPT !.at = "read", !.request = r]
      /\ memberJobs' = [memberJobs EXCEPT ![r] = [@ EXCEPT !.state = "executing"]]
      /\ UNCHANGED <<person, joins, view, form, passed, given, requested>>
  BY DEF TakesJob, ClaimableJobs, discord, memberGhosts
<1>2. /\ Len(line) \in Nat /\ Len(line) >= 1 /\ r = line[1] /\ r \in Request
      /\ Len(line') = Len(line) - 1
      /\ \A i \in 1..Len(line') : line'[i] = line[i + 1] /\ i + 1 \in 1..Len(line)
      /\ line' \in Seq(Request)
  BY <1>1 DEF MemberShapes
<1>3. memberJobs[r].state = "queued" /\ requested[r] = 0
  BY <1>2 DEF Queued, Asked
<1>4. memberJobs[r] = [state |-> memberJobs[r].state, kind |-> memberJobs[r].kind,
                       arg |-> memberJobs[r].arg, stale |-> memberJobs[r].stale]
      /\ memberJobs[r] \in MemberJob
  BY <1>2 DEF MemberShapes, MemberJob
<1>5. memberJobs'[r] = [state |-> "executing", kind |-> memberJobs[r].kind,
                        arg |-> memberJobs[r].arg, stale |-> memberJobs[r].stale]
      /\ \A q \in Request : q # r => memberJobs'[q] = memberJobs[q]
  BY <1>1, <1>2, <1>4 DEF MemberShapes
<1>6. memberJobs'[r] \in MemberJob  BY <1>4, <1>5 DEF MemberJob
<1>7. memberJobs' \in [Request -> MemberJob]
  BY <1>1, <1>6 DEF MemberShapes
<1>8. executor' = [at |-> "read", request |-> r, saw |-> 0, held |-> FALSE, over |-> "none"]
  BY <1>1 DEF NotExecuting
<1>9. MemberShapes'
  <2>1. executor' \in [at : {"idle", "read", "put", "confirm", "record"},
                       request : Request \cup {NoOne}, saw : Nat, held : BOOLEAN,
                       over : {"none", "deny", "allow"}]
    BY <1>2, <1>8
  <2> QED  BY <1>1, <1>2, <1>7, <2>1 DEF MemberShapes
<1>10. Queued'
  <2>1. \A i \in 1..Len(line') : line'[i] # r
    BY <1>2 DEF Queued
  <2>2. \A i \in 1..Len(line') : memberJobs'[line'[i]].state = "queued"
    <3> SUFFICES ASSUME NEW i \in 1..Len(line') PROVE memberJobs'[line'[i]].state = "queued"
      OBVIOUS
    <3>1. line'[i] = line[i + 1] /\ i + 1 \in 1..Len(line) /\ line[i + 1] \in Request
      <4>1. line'[i] = line[i + 1] /\ i + 1 \in 1..Len(line)  BY <1>2
      <4> QED  BY <4>1 DEF MemberShapes
    <3> QED  BY <1>5, <2>1, <3>1 DEF Queued
  <2>3. ASSUME NEW i \in 1..Len(line'), NEW j \in 1..Len(line'), line'[i] = line'[j]
        PROVE  i = j
    <3>1. line'[i] = line[i + 1] /\ line'[j] = line[j + 1]
          /\ i + 1 \in 1..Len(line) /\ j + 1 \in 1..Len(line)
      BY <1>2
    <3>2. i + 1 = j + 1  BY <1>2, <2>3, <3>1 DEF Queued
    <3> QED  BY <3>2
  <2> QED  BY <2>2, <2>3 DEF Queued
<1>11. Asked'
  BY <1>1, <1>2, <1>3, <1>5, <1>8 DEF Asked, ClickOnce, MemberShapes
<1>12. Earned'
  BY <1>1, <1>2, <1>3, <1>5, <1>8 DEF Earned, VerifiedEarned, Verified1
<1> QED  BY <1>9, <1>10, <1>11, <1>12

(* What Discord did to him was asked for by somebody entitled to it. *)
LEMMA AppliedKeeps ==
  ASSUME MemberShapes, Earned, executor.at = "put", executor.request \in Request,
         memberJobs[executor.request].state = "executing",
         Applied(memberJobs[executor.request]), UNCHANGED passed
  PROVE  /\ person' \in [joined : Nat, pending : BOOLEAN, roles : SUBSET {"verified", "pick"}]
         /\ view' \in {"none", "deny", "allow"}
         /\ VerifiedEarned'
<1> DEFINE work == memberJobs[executor.request]
           after == IF In THEN Roles(work) ELSE {}
<1>1. person = [joined |-> person.joined, pending |-> person.pending, roles |-> person.roles]
  BY DEF MemberShapes
<1>2. person' = [person EXCEPT !.roles = after]  BY DEF Applied
<1>3. person' = [joined |-> person.joined, pending |-> person.pending, roles |-> after]
  BY <1>1, <1>2
<1>4. work.kind \in Kind /\ (work.kind = "verify_role" => executor.saw \in passed)
  BY DEF MemberShapes, MemberJob, Earned
<1>5. Roles(work) \subseteq {"verified", "pick"}
  BY <1>4 DEF Roles, MemberShapes, Kind
<1>6. person' \in [joined : Nat, pending : BOOLEAN, roles : SUBSET {"verified", "pick"}]
  BY <1>3, <1>5 DEF MemberShapes
<1>7. view' \in {"none", "deny", "allow"}
  BY DEF Applied, MemberShapes
<1>8. given' = IF In /\ (work.kind = "admin_role" \/ person.joined # executor.saw)
                 THEN given \cup {person.joined} ELSE given
  BY DEF Applied
<1>9. VerifiedEarned'
  <2> SUFFICES ASSUME Verified1' PROVE person.joined \in passed \cup given'
    BY <1>3 DEF VerifiedEarned
  <2>1. In /\ "verified" \in Roles(work)  BY <1>3 DEF Verified1
  <2>2. CASE work.kind = "admin_role"  BY <1>8, <2>1, <2>2
  <2>3. CASE work.kind = "verify_role"  BY <1>4, <1>8, <2>1, <2>3
  <2>4. CASE work.kind \in {"self_role", "channel_visibility"}
    <3>1. Verified1  BY <2>1, <2>4 DEF Roles, Verified1
    <3> QED  BY <1>8, <3>1 DEF Earned, VerifiedEarned
  <2> QED  BY <1>4, <2>2, <2>3, <2>4 DEF Kind
<1> QED  BY <1>6, <1>7, <1>9

LEMMA PutKeeps == ASSUME MembersInv, PutsMember PROVE MembersInv'
<1> USE DEF MembersInv
<1> DEFINE r == executor.request
           work == memberJobs[r]
<1>1. /\ executor.at = "put" /\ requested' = [requested EXCEPT ![r] = @ + 1]
      /\ UNCHANGED <<joins, form, line, passed>>
      /\ \/ Applied(work) /\ AfterPut(work)
         \/ Ended("denied") /\ UNCHANGED <<person, given, view>>
         \/ Ended("unknown") /\ (Applied(work) \/ UNCHANGED <<person, given, view>>)
  BY DEF PutsMember
<1>2. r \in Request /\ work.state = "executing" /\ requested[r] = 0
  BY <1>1 DEF Asked
<1>3. /\ requested' \in [Request -> Nat] /\ requested'[r] = 1
      /\ \A q \in Request : q # r => requested'[q] = requested[q]
  BY <1>1, <1>2 DEF MemberShapes
<1>4. /\ person' \in [joined : Nat, pending : BOOLEAN, roles : SUBSET {"verified", "pick"}]
      /\ view' \in {"none", "deny", "allow"} /\ VerifiedEarned'
  <2>1. CASE Applied(work)  BY <1>1, <1>2, <2>1, AppliedKeeps
  <2>2. CASE UNCHANGED <<person, given, view>>
    BY <1>1, <2>2 DEF MemberShapes, Earned, VerifiedEarned, Verified1
  <2> QED  BY <1>1, <2>1, <2>2
<1>5. form' \in Nat  BY <1>1 DEF MemberShapes
<1>6. ASSUME NEW state \in {"completed", "denied", "unknown"}, Ended(state) PROVE MembersInv'
  BY <1>1, <1>3, <1>4, <1>5, <1>6, EndKeeps
<1>7. CASE executor' = [executor EXCEPT !.at = "confirm"] /\ UNCHANGED memberJobs
  <2>1. executor' = [at |-> "confirm", request |-> r, saw |-> executor.saw,
                     held |-> executor.held, over |-> executor.over]
    BY <1>7 DEF MemberShapes
  <2>2. MemberShapes'
    BY <1>1, <1>3, <1>4, <1>7, <2>1 DEF MemberShapes
  <2>3. Queued'  BY <1>1, <1>7 DEF Queued
  <2>4. Asked'
    BY <1>2, <1>3, <1>7, <2>1 DEF Asked, ClickOnce
  <2>5. Earned'
    BY <1>1, <1>4, <1>7, <2>1 DEF Earned
  <2> QED  BY <2>2, <2>3, <2>4, <2>5
<1> QED  BY <1>1, <1>6, <1>7 DEF AfterPut

LEMMA MembersStep == MembersInv /\ [MembersNext]_memberVars => MembersInv'
<1> SUFFICES ASSUME MembersInv, [MembersNext]_memberVars PROVE MembersInv'
  OBVIOUS
<1>1. CASE UNCHANGED memberVars
  BY <1>1 DEF MembersInv, MemberShapes, Queued, Asked, Earned, ClickOnce, VerifiedEarned,
              Verified1, memberVars, discord, memberGhosts
<1>2. CASE Joins \/ Leaves \/ AcceptsRules
  <2>1. /\ person' \in [joined : Nat, pending : BOOLEAN, roles : SUBSET {"verified", "pick"}]
        /\ joins' \in Nat /\ (Verified1' => Verified1 /\ person'.joined = person.joined)
    <3>1. CASE Joins \/ Leaves
      <4>1. joins' \in Nat  BY <3>1 DEF Joins, Leaves, MembersInv, MemberShapes
      <4>2. PICK n \in Nat, pending \in BOOLEAN :
              person' = [joined |-> n, pending |-> pending, roles |-> {}]
        <5>1. person' \in {[joined |-> joins + 1, pending |-> TRUE, roles |-> {}],
                           [joined |-> 0, pending |-> FALSE, roles |-> {}]}
          BY <3>1 DEF Joins, Leaves
        <5>2. joins + 1 \in Nat  BY DEF MembersInv, MemberShapes
        <5> QED  BY <5>1, <5>2
      <4> QED  BY <4>1, <4>2 DEF Verified1
    <3>2. CASE AcceptsRules
      <4>1. person' = [joined |-> person.joined, pending |-> FALSE, roles |-> person.roles]
        BY <3>2 DEF AcceptsRules, MembersInv, MemberShapes
      <4> QED  BY <3>2, <4>1 DEF AcceptsRules, MembersInv, MemberShapes, Verified1
    <3> QED  BY <1>2, <3>1, <3>2
  <2>2. UNCHANGED <<view, form, memberJobs, line, executor, passed, given, requested>>
    BY <1>2 DEF Joins, Leaves, AcceptsRules, memberGhosts
  <2> QED  BY <2>1, <2>2 DEF MembersInv, MemberShapes, Queued, Asked, Earned, ClickOnce,
                             VerifiedEarned
<1>3. CASE OverwriteEdited \/ VerifyingSwitched \/ OpensForm
  BY <1>3 DEF OverwriteEdited, VerifyingSwitched, OpensForm, MembersInv, MemberShapes, Queued,
              Asked, Earned, ClickOnce, VerifiedEarned, Verified1, discord, memberGhosts
<1>4. ASSUME NEW r \in Request, Challenged(r) PROVE MembersInv'
  <2>1. form' = 0 /\ UNCHANGED <<person, joins, executor, view, given, requested>>
    BY <1>4 DEF Challenged, discord
  <2>2. CASE Queue(r, "verify_role", form) /\ passed' = passed \cup {form}
    <3>1. form \in Nat  BY DEF MembersInv, MemberShapes
    <3> QED  BY <2>1, <2>2, <3>1, QueueKeeps DEF Kind
  <2>3. CASE UNCHANGED <<memberJobs, line, passed>>
    BY <2>1, <2>3 DEF MembersInv, MemberShapes, Queued, Asked, Earned, ClickOnce, VerifiedEarned,
                      Verified1
  <2> QED  BY <1>4, <2>2, <2>3 DEF Challenged
<1>5. ASSUME NEW r \in Request, Clicks(r) PROVE MembersInv'
  BY <1>5, QueueKeeps DEF Clicks, Kind, discord, memberGhosts, MembersInv, MemberShapes
<1>6. ASSUME NEW r \in Request, NEW arg \in {0, 1}, Orders(r, arg) \/ Chooses(r, arg)
      PROVE  MembersInv'
  BY <1>6, QueueKeeps DEF Orders, Chooses, Kind, discord, memberGhosts, MembersInv, MemberShapes
<1>7. ASSUME NEW r \in Request, TwoMinutes(r) PROVE MembersInv'
  <2>1. memberJobs[r] = [state |-> memberJobs[r].state, kind |-> memberJobs[r].kind,
                         arg |-> memberJobs[r].arg, stale |-> memberJobs[r].stale]
        /\ memberJobs[r] \in MemberJob
    BY DEF MembersInv, MemberShapes, MemberJob
  <2>2. memberJobs' = [memberJobs EXCEPT ![r] = [@ EXCEPT !.stale = TRUE]]
        /\ UNCHANGED <<discord, form, line, executor, memberGhosts>>
    BY <1>7 DEF TwoMinutes
  <2>3. memberJobs'[r] = [state |-> memberJobs[r].state, kind |-> memberJobs[r].kind,
                          arg |-> memberJobs[r].arg, stale |-> TRUE]
        /\ \A q \in Request : q # r => memberJobs'[q] = memberJobs[q]
    BY <2>1, <2>2 DEF MembersInv, MemberShapes
  <2>4. memberJobs' \in [Request -> MemberJob]
    BY <2>1, <2>2, <2>3 DEF MembersInv, MemberShapes, MemberJob
  <2>5. \A q \in Request : memberJobs'[q].state = memberJobs[q].state
                           /\ memberJobs'[q].kind = memberJobs[q].kind
                           /\ memberJobs'[q].arg = memberJobs[q].arg
    BY <2>3
  <2> QED  BY <2>2, <2>4, <2>5
           DEF MembersInv, MemberShapes, Queued, Asked, Earned, ClickOnce, VerifiedEarned,
               Verified1, discord, memberGhosts
<1>8. CASE TakesJob  BY <1>8, TakeKeeps
<1>9. CASE ReadsMember
  <2> DEFINE work == memberJobs[executor.request]
             done == work.kind = "admin_role" /\ (Verified1 <=> work.arg = 1)
  <2>1. executor.at = "read" /\ UNCHANGED <<discord, form, line, memberGhosts>>
    BY <1>9 DEF ReadsMember
  <2>2. CASE Ended("denied")
    BY <2>1, <2>2, EndKeeps DEF discord, memberGhosts, MembersInv, MemberShapes, Asked, ClickOnce,
                                Earned, VerifiedEarned, Verified1
  <2>3. CASE /\ Admissible(work) /\ UNCHANGED memberJobs
             /\ executor' = [executor EXCEPT !.at = IF done THEN "confirm" ELSE "put",
                               !.saw = person.joined, !.held = "pick" \in person.roles,
                               !.over = view]
    <3>1. executor' = [at |-> IF done THEN "confirm" ELSE "put", request |-> executor.request,
                       saw |-> person.joined, held |-> "pick" \in person.roles, over |-> view]
      BY <2>3 DEF MembersInv, MemberShapes
    <3>2. MemberShapes'
      <4>1. person.joined \in Nat /\ view \in {"none", "deny", "allow"}
            /\ executor.request \in Request \cup {NoOne}
        BY DEF MembersInv, MemberShapes
      <4>2. executor' \in [at : {"idle", "read", "put", "confirm", "record"},
                           request : Request \cup {NoOne}, saw : Nat, held : BOOLEAN,
                           over : {"none", "deny", "allow"}]
        BY <3>1, <4>1
      <4> QED  BY <2>1, <2>3, <4>2 DEF MembersInv, MemberShapes, discord, memberGhosts
    <3>3. Queued' /\ Asked'
      BY <2>1, <2>3, <3>1 DEF MembersInv, Queued, Asked, ClickOnce, memberGhosts
    <3>4. work.kind = "verify_role" => person.joined \in passed
      <4> SUFFICES ASSUME work.kind = "verify_role" PROVE person.joined \in passed
        OBVIOUS
      <4>1. person.joined = work.arg  BY <2>3 DEF Admissible, SameMembership
      <4>2. work.arg \in passed  BY <2>1 DEF MembersInv, Asked, Earned
      <4> QED  BY <4>1, <4>2
    <3>5. Earned'
      BY <2>1, <2>3, <3>1, <3>4 DEF MembersInv, Earned, VerifiedEarned, Verified1, discord,
                                    memberGhosts
    <3> QED  BY <3>2, <3>3, <3>5 DEF MembersInv
  <2> QED  BY <1>9, <2>2, <2>3 DEF ReadsMember
<1>10. CASE PutsMember  BY <1>10, PutKeeps
<1>11. CASE ConfirmsMember
  <2>1. executor.at = "confirm" /\ UNCHANGED <<discord, form, line, memberGhosts>>
    BY <1>11 DEF ConfirmsMember
  <2>2. ASSUME NEW state \in {"completed", "denied"}, Ended(state) PROVE MembersInv'
    BY <2>1, <2>2, EndKeeps DEF discord, memberGhosts, MembersInv, MemberShapes, Asked, ClickOnce,
                                Earned, VerifiedEarned, Verified1
  <2>3. CASE executor' = [executor EXCEPT !.at = "record"] /\ UNCHANGED memberJobs
    <3>1. executor' = [at |-> "record", request |-> executor.request, saw |-> executor.saw,
                       held |-> executor.held, over |-> executor.over]
      BY <2>3 DEF MembersInv, MemberShapes
    <3>2. MemberShapes' /\ Queued'
      BY <2>1, <2>3, <3>1 DEF MembersInv, MemberShapes, Queued, discord, memberGhosts
    <3>3. Asked' /\ Earned'
      BY <2>1, <2>3, <3>1 DEF MembersInv, Asked, Earned, ClickOnce, VerifiedEarned, Verified1,
                              discord, memberGhosts
    <3> QED  BY <3>2, <3>3 DEF MembersInv
  <2> QED  BY <1>11, <2>2, <2>3 DEF ConfirmsMember
<1>12. CASE RecordsChoice
  BY <1>12, EndKeeps DEF RecordsChoice, discord, memberGhosts, MembersInv, MemberShapes, Asked,
                         ClickOnce, Earned, VerifiedEarned, Verified1
<1>13. CASE ExecutorDies
  BY <1>13 DEF ExecutorDies, NotExecuting, discord, memberGhosts, MembersInv, MemberShapes, Queued,
               Asked, Earned, ClickOnce, VerifiedEarned, Verified1
<1> QED
  BY <1>1, <1>2, <1>3, <1>4, <1>5, <1>6, <1>7, <1>8, <1>9, <1>10, <1>11, <1>12, <1>13
  DEF MembersNext

(* The verified role is held in a membership that passed the challenge or  *)
(* was given it by an administrator, whatever was in the queue when the    *)
(* member left, short of one that begins in the executor's last step       *)
(* (verification.py);                                                      *)
(* and no request is made of Discord twice, through crashes of the worker  *)
(* (worker.py).                                                            *)
THEOREM EarnedAndOnce == MembersSafety => [](VerifiedEarned /\ ClickOnce)
<1>1. MembersInv => VerifiedEarned /\ ClickOnce  BY DEF MembersInv, Earned, Asked
<1> QED  BY <1>1, MembersInitial, MembersStep, PTL DEF MembersSafety

-----------------------------------------------------------------------------
(* The journal and its archive *)

JournalSafety == JournalInit /\ [][JournalNext]_journalVars

(* A receipt is of an object that was read back.                           *)
JournalInv ==
  /\ dispatch = [at |-> dispatch.at, todo |-> dispatch.todo, action |-> dispatch.action]
  /\ receipts \subseteq objects
  /\ dispatch.at \in {"claim", "execute"} => backlog \subseteq objects

LEMMA JournalInitial == JournalInit => JournalInv
  BY DEF JournalInit, JournalInv, Idling

LEMMA JournalStep == JournalInv /\ [JournalNext]_journalVars => JournalInv'
<1> SUFFICES ASSUME JournalInv, [JournalNext]_journalVars PROVE JournalInv'
  OBVIOUS
<1> USE DEF JournalInv
<1>1. CASE UNCHANGED journalVars  BY <1>1 DEF journalVars
<1>2. ASSUME NEW p \in Packet, Observed(p) PROVE JournalInv'  BY <1>2 DEF Observed
<1>3. ASSUME NEW a \in Action, Requested(a) PROVE JournalInv'  BY <1>3 DEF Requested
<1>4. CASE FlushStarts
  <2>1. dispatch'.at \in {"check", "put"}
        /\ dispatch' = [at |-> dispatch'.at, todo |-> dispatch'.todo,
                        action |-> dispatch'.action]
    BY <1>4 DEF FlushStarts, Idling
  <2> QED  BY <1>4, <2>1 DEF FlushStarts
<1>5. CASE PutsObject
  <2>1. dispatch' = [at |-> "readback", todo |-> dispatch.todo, action |-> dispatch.action]
    BY <1>5 DEF PutsObject
  <2> QED  BY <1>5, <2>1 DEF PutsObject
<1>6. CASE ReadsBack
  <2>1. dispatch' = [at |-> IF Len(dispatch.todo) = 1 THEN "check" ELSE "put",
                     todo |-> Tail(dispatch.todo), action |-> dispatch.action]
    BY <1>6 DEF ReadsBack
  <2> QED  BY <1>6, <2>1 DEF ReadsBack
<1>7. CASE AsksPending
  <2>1. dispatch' \in {[at |-> "idle", todo |-> <<>>, action |-> "none"],
                       [at |-> "claim", todo |-> <<>>, action |-> "none"]}
    BY <1>7 DEF AsksPending, Idling
  <2>2. dispatch'.at = "claim" => ToSet(ledger) \subseteq receipts
    BY <1>7 DEF AsksPending, Drained, Idling
  <2> QED  BY <1>7, <2>1, <2>2 DEF AsksPending
<1>8. CASE ClaimsAction
  <2>1. dispatch' = [at |-> dispatch'.at, todo |-> dispatch'.todo, action |-> dispatch'.action]
    <3>1. \/ dispatch' = Idling
          \/ dispatch' = [Idling EXCEPT !.at = "execute", !.action = Head(Waiting)]
      BY <1>8 DEF ClaimsAction
    <3> QED  BY <3>1 DEF Idling
  <2> QED  BY <1>8, <2>1 DEF ClaimsAction
<1>9. CASE EndsAction \/ DispatchFails
  BY <1>9 DEF EndsAction, DispatchFails, Idling
<1> QED
  BY <1>1, <1>2, <1>3, <1>4, <1>5, <1>6, <1>7, <1>8, <1>9 DEF JournalNext, DispatchSteps

(* An action is only executed once everything journaled when the worker    *)
(* asked is in the archive (worker.py, archive.py).                        *)
THEOREM BacklogFirst == JournalSafety => []ArchivedFirst
<1>1. JournalInv => ArchivedFirst  BY DEF JournalInv, ArchivedFirst
<1> QED  BY <1>1, JournalInitial, JournalStep, PTL DEF JournalSafety

-----------------------------------------------------------------------------
(* The local capture *)

LogSafety == LogInit /\ [][LogNext]_logVars

Rotating == pass.at \in {"drain", "remove", "reset"}
Past == IF offset > Len(file) \/ Rotating THEN 0 ELSE offset
Accounted == taken \cup dropped

LogShapes ==
  /\ file \in Seq(LineNo) /\ rotated \in Seq(LineNo)
  /\ {offset, rev, lastRev, stored.rev, pass.upto} \subseteq Nat
  /\ pass = [at |-> pass.at, upto |-> pass.upto] /\ pen = [on |-> pen.on, line |-> pen.line]
  /\ pass.at \in {"idle", "save", "rename", "drain", "remove", "reset"}
  /\ pen.on \in {"up", "file", "rotated", "gone"}

(* The index has what it knows the rev of. *)
Indexed ==
  /\ lastRev <= stored.rev /\ stored.rev <= rev
  /\ SyncedIsCurrent

(* LinesKept, of one line and of places in the two files. *)
KeptAt(n) ==
  \/ n \in Accounted \/ n = pen.line
  \/ \E i \in 1..Len(file) : file[i] = n /\ (i > Past \/ cut)
  \/ pass.at \in {"drain", "remove"} /\ \E i \in 1..Len(rotated) : rotated[i] = n

(* What is behind the offset, or behind what the pass has read, has been   *)
(* applied, unless a pass died inside a rotation: then the offset may be   *)
(* that of another file.                                                   *)
Behind ==
  /\ ~cut /\ ~Rotating => offset <= Len(file) /\ \A i \in 1..offset : file[i] \in Accounted
  /\ pass.at \in {"save", "rename"} =>
       pass.upto <= Len(file) /\ \A i \in 1..pass.upto : file[i] \in Accounted
  /\ pass.at = "rename" => offset = pass.upto
  /\ pass.at \in {"drain", "remove"} =>
       pass.upto <= Len(rotated) /\ \A i \in 1..pass.upto : rotated[i] \in Accounted
  /\ Rotating \/ pass.at = "rename" => ~cut

(* The plugin's hand. *)
Writing ==
  /\ IF pen.on = "up" THEN pen.line = 0 ELSE pen.line \in LineNo
  /\ pen.on = "rotated" => pass.at \in {"drain", "remove"}

LogInv == LogShapes /\ Indexed /\ (\A n \in LinesWritten : KeptAt(n)) /\ Behind /\ Writing

LEMMA PlacesOf ==
  ASSUME NEW s \in Seq(LineNo), NEW a \in Nat, NEW b \in Nat, b <= Len(s)
  PROVE  ToSet(SubSeq(s, a + 1, b)) = {s[i] : i \in (a + 1)..b}
<1> DEFINE t == SubSeq(s, a + 1, b)
<1>1. CASE a >= b
  <2>1. t = <<>>  BY <1>1
  <2>2. (a + 1)..b = {}  BY <1>1
  <2> QED  BY <2>1, <2>2 DEF ToSet
<1>2. CASE a < b
  <2>1. Len(t) = b - a /\ \A i \in 1..(b - a) : t[i] = s[a + i]
    BY <1>2
  <2>2. ToSet(t) = {t[i] : i \in 1..(b - a)}
    <3>1. t \in Seq(LineNo)  BY <1>2
    <3> HIDE DEF t
    <3>2. DOMAIN t = 1..(b - a)  BY <2>1, <3>1
    <3> QED  BY <3>2 DEF ToSet
  <2>3. ASSUME NEW i \in (a + 1)..b PROVE s[i] \in ToSet(t)
    <3>1. i - a \in 1..(b - a) /\ t[i - a] = s[i]  BY <2>1
    <3> QED  BY <2>2, <3>1
  <2>4. ASSUME NEW i \in 1..(b - a) PROVE \E j \in (a + 1)..b : t[i] = s[j]
    <3>1. a + i \in (a + 1)..b /\ t[i] = s[a + i]  BY <2>1
    <3> QED  BY <3>1
  <2> QED  BY <2>2, <2>3, <2>4
<1> QED  BY <1>1, <1>2

LEMMA KeptEverywhere ==
  ASSUME LogShapes, \A n \in LinesWritten : KeptAt(n) PROVE LinesKept
<1> SUFFICES ASSUME NEW n \in LinesWritten
             PROVE  \/ n \in taken \/ n \in Ahead \/ n \in dropped \/ n = pen.line
                    \/ (pass.at \in {"drain", "remove"} /\ n \in ToSet(rotated))
                    \/ (cut /\ n \in ToSet(file))
  BY DEF LinesKept
<1>1. Past \in Nat /\ Len(file) \in Nat  BY DEF Past, LogShapes
<1>2. Ahead = ToSet(SubSeq(file, Past + 1, Len(file)))  BY DEF Ahead, Past, Rotating
<1>3. Ahead = {file[i] : i \in (Past + 1)..Len(file)}
  BY <1>1, <1>2, PlacesOf DEF LogShapes
<1>4. /\ ToSet(file) = {file[i] : i \in 1..Len(file)}
      /\ ToSet(rotated) = {rotated[i] : i \in 1..Len(rotated)}
  <2>1. DOMAIN file = 1..Len(file) /\ DOMAIN rotated = 1..Len(rotated)  BY DEF LogShapes
  <2> QED  BY <2>1 DEF ToSet
<1>5. KeptAt(n)  OBVIOUS
<1>6. CASE \E i \in 1..Len(file) : file[i] = n /\ (i > Past \/ cut)
  <2>1. PICK i \in 1..Len(file) : file[i] = n /\ (i > Past \/ cut)  BY <1>6
  <2>2. i > Past => i \in (Past + 1)..Len(file)  BY <1>1
  <2> QED  BY <1>3, <1>4, <2>1, <2>2
<1> QED  BY <1>4, <1>5, <1>6 DEF KeptAt, Accounted

LEMMA LogInitial == LogInit => LogInv
  BY DEF LogInit, LogInv, LogShapes, Indexed, SyncedIsCurrent, Behind, Writing, LinesWritten,
         Rotating, Missing

(* A pass applies what a file has past a place. *)
LEMMA AppliesAll ==
  ASSUME LogShapes, NEW from \in Seq(LineNo), NEW past \in Nat, AppliesLines(from, past)
  PROVE  /\ taken \subseteq taken' /\ \A i \in 1..Len(from) : i > past => from[i] \in taken'
         /\ rev' \in Nat /\ rev' >= rev
         /\ stored' = stored \/ (stored'.rev = rev' /\ rev' > rev)
<1> DEFINE todo == IF past >= Len(from) THEN <<>> ELSE SubSeq(from, past + 1, Len(from))
<1>1. /\ stored' = IF todo = <<>> THEN stored ELSE AppliedLines(todo)
      /\ rev' = rev + Len(todo) /\ taken' = taken \cup ToSet(todo)
  BY DEF AppliesLines
<1>2. Len(from) \in Nat /\ rev \in Nat  BY DEF LogShapes
<1>3. \A i \in 1..Len(from) : i > past => from[i] \in taken'
  <2>1. CASE past >= Len(from)  BY <1>2, <2>1
  <2>2. CASE past < Len(from)
    <3>1. ToSet(todo) = {from[i] : i \in (past + 1)..Len(from)}  BY <1>2, <2>2, PlacesOf
    <3>2. \A i \in 1..Len(from) : i > past => i \in (past + 1)..Len(from)  BY <1>2
    <3> QED  BY <1>1, <3>1, <3>2
  <2> QED  BY <1>2, <2>1, <2>2
<1>4. Len(todo) \in Nat /\ (todo # <<>> => Len(todo) > 0)
  <2>1. todo \in Seq(LineNo)  BY <1>2
  <2> QED  BY <2>1
<1>5. AppliedLines(todo).rev = rev + Len(todo)  BY DEF AppliedLines
<1> HIDE DEF todo
<1> QED  BY <1>1, <1>2, <1>3, <1>4, <1>5

(* The index after that: behind the row, or as it was. *)
LEMMA AppliesIndexed ==
  ASSUME LogShapes, Indexed, UNCHANGED <<entry, lastRev>>, rev' \in Nat, rev' >= rev,
         stored' = stored \/ (stored'.rev = rev' /\ rev' > rev)
  PROVE  Indexed' /\ stored'.rev \in Nat
  BY DEF Indexed, SyncedIsCurrent, LogShapes

LEMMA LogOpens ==
  ASSUME LogInv, NEW op \in {"create", "update", "delete"}, OpensFile(op) PROVE LogInv'
<1> USE DEF LogInv
<1>1. PICK n \in LineNo :
        /\ lines' = [lines EXCEPT ![n] = op] /\ pen' = [on |-> "file", line |-> n]
        /\ pen.on = "up"
        /\ UNCHANGED <<file, rotated, offset, rev, stored, pass, entry, lastRev, taken, dropped,
                       cut>>
  BY DEF OpensFile, logIndex
<1>2. \A m \in LinesWritten' : m = n \/ m \in LinesWritten
  BY <1>1 DEF LinesWritten
<1>3. \A m \in LinesWritten' : KeptAt(m)'
  <2> SUFFICES ASSUME NEW m \in LinesWritten' PROVE KeptAt(m)'
    OBVIOUS
  <2>1. CASE m = n  BY <1>1, <2>1 DEF KeptAt
  <2>2. CASE m \in LinesWritten
    <3>1. m # pen.line  BY <1>1, <2>2 DEF Writing, LinesWritten, LineNo
    <3>2. Past' = Past /\ Accounted' = Accounted  BY <1>1 DEF Past, Rotating, Accounted
    <3> QED  BY <1>1, <2>2, <3>1, <3>2 DEF KeptAt
  <2> QED  BY <1>2, <2>1, <2>2
<1>4. LogShapes' /\ Indexed' /\ Writing'
  BY <1>1 DEF LogShapes, Indexed, SyncedIsCurrent, Writing
<1>5. Behind'
  BY <1>1 DEF Behind, Rotating, Accounted
<1> QED  BY <1>3, <1>4, <1>5

LEMMA LogWrites == ASSUME LogInv, WritesLine PROVE LogInv'
<1> USE DEF LogInv
<1>1. /\ pen.on # "up" /\ pen' = [on |-> "up", line |-> 0]
      /\ file' = IF pen.on = "file" THEN Append(file, pen.line) ELSE file
      /\ rotated' = IF pen.on = "rotated" THEN Append(rotated, pen.line) ELSE rotated
      /\ dropped' = IF pen.on = "gone" THEN dropped \cup {pen.line} ELSE dropped
      /\ UNCHANGED <<lines, offset, rev, stored, pass, entry, lastRev, taken, cut>>
  BY DEF WritesLine, logIndex
<1>2. Len(file) \in Nat /\ Len(rotated) \in Nat /\ offset \in Nat  BY DEF LogShapes
<1>3. /\ file' \in Seq(LineNo) /\ Len(file') >= Len(file)
      /\ \A i \in 1..Len(file) : file'[i] = file[i]
      /\ pen.on = "file" => Len(file') = Len(file) + 1 /\ file'[Len(file) + 1] = pen.line
  BY <1>1, <1>2 DEF LogShapes, Writing
<1>4. /\ rotated' \in Seq(LineNo) /\ Len(rotated') >= Len(rotated)
      /\ \A i \in 1..Len(rotated) : rotated'[i] = rotated[i]
      /\ pen.on = "rotated" =>
           Len(rotated') = Len(rotated) + 1 /\ rotated'[Len(rotated) + 1] = pen.line
  BY <1>1, <1>2 DEF LogShapes, Writing
<1>5. Len(file') \in Nat /\ Len(rotated') \in Nat  BY <1>3, <1>4
<1>6. LogShapes'
  BY <1>1, <1>3, <1>4 DEF LogShapes
<1>7. Accounted \subseteq Accounted' /\ (Rotating' <=> Rotating)
  BY <1>1 DEF Accounted, Rotating
<1>8. Behind' /\ Indexed' /\ Writing'
  <2>1. Indexed' /\ Writing'  BY <1>1 DEF Indexed, SyncedIsCurrent, Writing
  <2>2. pass.upto \in Nat  BY DEF LogShapes
  <2>3. Behind'
    BY <1>1, <1>2, <1>3, <1>4, <1>5, <1>7, <2>2 DEF Behind
  <2> QED  BY <2>1, <2>3
<1>9. ASSUME NEW n \in LinesWritten' PROVE KeptAt(n)'
  <2>1. KeptAt(n)  BY <1>1 DEF LinesWritten
  <2>2. CASE n \in Accounted  BY <1>7, <2>2 DEF KeptAt
  <2>3. CASE \E i \in 1..Len(file) : file[i] = n /\ (i > Past \/ cut)
    <3>1. PICK i \in 1..Len(file) : file[i] = n /\ (i > Past \/ cut)  BY <2>3
    <3>2. i \in 1..Len(file') /\ file'[i] = n  BY <1>2, <1>3, <1>5, <3>1
    <3>3. cut \/ Past' = Past
      BY <1>1, <1>2, <1>3, <1>5, <1>7 DEF Past, Behind
    <3> QED  BY <1>1, <3>1, <3>2, <3>3 DEF KeptAt
  <2>4. CASE pass.at \in {"drain", "remove"} /\ \E i \in 1..Len(rotated) : rotated[i] = n
    <3>1. PICK i \in 1..Len(rotated) : rotated[i] = n  BY <2>4
    <3>2. i \in 1..Len(rotated') /\ rotated'[i] = n  BY <1>2, <1>4, <1>5, <3>1
    <3> QED  BY <1>1, <2>4, <3>2 DEF KeptAt
  <2>5. CASE n = pen.line
    <3>1. CASE pen.on = "file"
      <4>1. Len(file) + 1 \in 1..Len(file') /\ file'[Len(file) + 1] = n
        BY <1>2, <1>3, <2>5, <3>1
      <4>2. cut \/ Len(file) + 1 > Past'
        BY <1>1, <1>2, <1>3, <1>5, <1>7, <3>1 DEF Past, Behind
      <4> QED  BY <1>1, <4>1, <4>2 DEF KeptAt
    <3>2. CASE pen.on = "rotated"
      <4>1. Len(rotated) + 1 \in 1..Len(rotated') /\ rotated'[Len(rotated) + 1] = n
        BY <1>2, <1>4, <2>5, <3>2
      <4> QED  BY <1>1, <3>2, <4>1 DEF KeptAt, Writing
    <3>3. CASE pen.on = "gone"
      BY <1>1, <2>5, <3>3 DEF KeptAt, Accounted
    <3> QED  BY <1>1, <3>1, <3>2, <3>3 DEF LogShapes
  <2> QED  BY <2>1, <2>2, <2>3, <2>4, <2>5 DEF KeptAt
<1> QED  BY <1>6, <1>8, <1>9

(* The pass reads what is past its offset. *)
LEMMA LogReads == ASSUME LogInv, PassReads PROVE LogInv'
<1> USE DEF LogInv
<1> DEFINE past == IF offset > Len(file) THEN 0 ELSE offset
<1>1. /\ pass.at = "idle" /\ AppliesLines(file, past)
      /\ pass' = [at |-> "save", upto |-> Len(file)]
      /\ dropped' = IF cut THEN dropped \cup (ToSet(SubSeq(file, 1, past)) \ taken) ELSE dropped
      /\ UNCHANGED <<lines, pen, file, rotated, offset, entry, lastRev, cut>>
  BY DEF PassReads, logFiles, logIndex
<1>2. /\ file \in Seq(LineNo) /\ Len(file) \in Nat /\ past \in Nat /\ past <= Len(file)
      /\ offset \in Nat
  BY DEF LogShapes
<1>3. /\ taken \subseteq taken' /\ \A i \in 1..Len(file) : i > past => file[i] \in taken'
      /\ rev' \in Nat /\ rev' >= rev
      /\ stored' = stored \/ (stored'.rev = rev' /\ rev' > rev)
  BY <1>1, <1>2, AppliesAll
<1>4. Accounted \subseteq Accounted'  BY <1>1, <1>3 DEF Accounted
<1>5. ASSUME NEW i \in 1..Len(file) PROVE file[i] \in Accounted'
  <2>1. CASE i > past  BY <1>3, <2>1 DEF Accounted
  <2>2. CASE i <= past /\ cut
    <3>1. ToSet(SubSeq(file, 0 + 1, past)) = {file[j] : j \in (0 + 1)..past}
      BY <1>2, PlacesOf
    <3>2. i \in 1..past  BY <1>2, <2>2
    <3>3. file[i] \in ToSet(SubSeq(file, 1, past))  BY <3>1, <3>2
    <3> QED  BY <1>1, <1>3, <2>2, <3>3 DEF Accounted
  <2>3. CASE i <= past /\ ~cut
    <3>1. i \in 1..offset /\ offset <= Len(file) /\ file[i] \in Accounted
      BY <1>1, <1>2, <2>3 DEF Behind, Rotating
    <3> QED  BY <1>4, <3>1
  <2> QED  BY <1>2, <2>1, <2>2, <2>3
<1>6. LogShapes' /\ Indexed'
  <2>1. Indexed' /\ stored'.rev \in Nat  BY <1>1, <1>3, AppliesIndexed
  <2> QED  BY <1>1, <1>2, <1>3, <2>1 DEF LogShapes
<1>7. Writing'  BY <1>1 DEF Writing
<1>8. Behind'
  BY <1>1, <1>2, <1>4, <1>5 DEF Behind, Rotating
<1>9. ASSUME NEW n \in LinesWritten' PROVE KeptAt(n)'
  <2>1. KeptAt(n)  BY <1>1 DEF LinesWritten
  <2> QED  BY <1>1, <1>4, <1>5, <2>1 DEF KeptAt
<1> QED  BY <1>6, <1>7, <1>8, <1>9

LEMMA LogSaves == ASSUME LogInv, PassSaves PROVE LogInv'
<1> USE DEF LogInv
<1>1. /\ pass.at = "save" /\ offset' = pass.upto /\ cut' = FALSE
      /\ pass' = [pass EXCEPT !.at = IF Len(file) >= RotateAt THEN "rename" ELSE "idle"]
      /\ UNCHANGED <<lines, pen, file, rotated, rev, stored, entry, lastRev, taken, dropped>>
  BY DEF PassSaves, logFiles, logIndex
<1>2. pass' = [at |-> IF Len(file) >= RotateAt THEN "rename" ELSE "idle", upto |-> pass.upto]
  BY <1>1 DEF LogShapes
<1>3. LogShapes' /\ Indexed' /\ Writing'
  BY <1>1, <1>2 DEF LogShapes, Indexed, SyncedIsCurrent, Writing
<1>4. pass'.at \in {"rename", "idle"} /\ pass'.upto = pass.upto  BY <1>2
<1>5. Behind'
  BY <1>1, <1>4 DEF Behind, Rotating, Accounted
<1>6. ASSUME NEW n \in LinesWritten' PROVE KeptAt(n)'
  <2>1. KeptAt(n)  BY <1>1 DEF LinesWritten
  <2>2. Len(file) \in Nat /\ pass.upto \in Nat /\ Past' = pass.upto
    BY <1>1, <1>4 DEF LogShapes, Past, Rotating, Behind
  <2>3. CASE \E i \in 1..Len(file) : file[i] = n /\ (i > Past \/ cut)
    <3>1. PICK i \in 1..Len(file) : file[i] = n  BY <2>3
    <3>2. CASE i > pass.upto  BY <1>1, <2>2, <3>1, <3>2 DEF KeptAt
    <3>3. CASE i <= pass.upto
      <4>1. i \in 1..pass.upto  BY <2>2, <3>3
      <4> QED  BY <1>1, <3>1, <4>1 DEF KeptAt, Behind, Accounted
    <3> QED  BY <2>2, <3>2, <3>3
  <2> QED  BY <1>1, <2>1, <2>3 DEF KeptAt, Accounted
<1> QED  BY <1>3, <1>5, <1>6

LEMMA LogRenames == ASSUME LogInv, PassRenames PROVE LogInv'
<1> USE DEF LogInv
<1>1. /\ pass.at = "rename" /\ rotated' = file /\ file' = <<>>
      /\ pen' = IF pen.on = "file" THEN [pen EXCEPT !.on = "rotated"] ELSE pen
      /\ pass' = [pass EXCEPT !.at = "drain"]
      /\ UNCHANGED <<lines, offset, rev, stored, entry, lastRev, taken, dropped, cut>>
  BY DEF PassRenames, logIndex
<1>2. pass' = [at |-> "drain", upto |-> pass.upto]
  BY <1>1 DEF LogShapes
<1>3. pen' = [on |-> IF pen.on = "file" THEN "rotated" ELSE pen.on, line |-> pen.line]
  BY <1>1 DEF LogShapes
<1>4. LogShapes' /\ Indexed' /\ Writing'
  BY <1>1, <1>2, <1>3 DEF LogShapes, Indexed, SyncedIsCurrent, Writing
<1>5. Behind'
  BY <1>1, <1>2 DEF Behind, Rotating, Accounted
<1>6. ASSUME NEW n \in LinesWritten' PROVE KeptAt(n)'
  <2>1. KeptAt(n)  BY <1>1 DEF LinesWritten
  <2> QED  BY <1>1, <1>2, <1>3, <2>1 DEF KeptAt, Accounted
<1> QED  BY <1>4, <1>5, <1>6

(* A second look at the renamed file. *)
LEMMA LogDrains == ASSUME LogInv, PassDrains PROVE LogInv'
<1> USE DEF LogInv
<1>1. /\ pass.at = "drain" /\ AppliesLines(rotated, pass.upto)
      /\ pass' = [at |-> "remove", upto |-> Len(rotated)]
      /\ UNCHANGED <<lines, pen, file, rotated, offset, entry, lastRev, dropped, cut>>
  BY DEF PassDrains, DrainsLate, logFiles, logIndex
<1>2. rotated \in Seq(LineNo) /\ Len(rotated) \in Nat /\ pass.upto \in Nat
  BY DEF LogShapes
<1>3. /\ taken \subseteq taken' /\ \A i \in 1..Len(rotated) : i > pass.upto => rotated[i] \in taken'
      /\ rev' \in Nat /\ rev' >= rev
      /\ stored' = stored \/ (stored'.rev = rev' /\ rev' > rev)
  BY <1>1, <1>2, AppliesAll
<1>4. Accounted \subseteq Accounted'  BY <1>1, <1>3 DEF Accounted
<1>5. \A i \in 1..Len(rotated) : rotated[i] \in Accounted'
  <2> SUFFICES ASSUME NEW i \in 1..Len(rotated) PROVE rotated[i] \in Accounted'
    OBVIOUS
  <2>1. CASE i > pass.upto  BY <1>3, <2>1 DEF Accounted
  <2>2. CASE i <= pass.upto
    <3>1. i \in 1..pass.upto  BY <1>2, <2>2
    <3> QED  BY <1>1, <1>4, <3>1 DEF Behind
  <2> QED  BY <1>2, <2>1, <2>2
<1>6. LogShapes' /\ Indexed'
  <2>1. Indexed' /\ stored'.rev \in Nat  BY <1>1, <1>3, AppliesIndexed
  <2> QED  BY <1>1, <1>2, <1>3, <2>1 DEF LogShapes
<1>7. Writing' /\ Behind'
  BY <1>1, <1>2, <1>5 DEF Writing, Behind, Rotating
<1>8. ASSUME NEW n \in LinesWritten' PROVE KeptAt(n)'
  <2>1. KeptAt(n)  BY <1>1 DEF LinesWritten
  <2>2. Past' = Past  BY <1>1 DEF Past, Rotating
  <2> QED  BY <1>1, <1>4, <2>1, <2>2 DEF KeptAt
<1> QED  BY <1>6, <1>7, <1>8

(* Removed, or left behind by a pass that died: what was not applied of it *)
(* is lost.                                                                *)
LEMMA LogRemoves == ASSUME LogInv, PassRemoves PROVE LogInv'
<1> USE DEF LogInv
<1>1. /\ pass.at = "remove" /\ dropped' = dropped \cup Undrained /\ rotated' = <<>>
      /\ pen' = IF pen.on = "rotated" THEN [pen EXCEPT !.on = "gone"] ELSE pen
      /\ pass' = [pass EXCEPT !.at = "reset"]
      /\ UNCHANGED <<lines, file, offset, rev, stored, entry, lastRev, taken, cut>>
  BY DEF PassRemoves, logIndex
<1>2. pass' = [at |-> "reset", upto |-> pass.upto]
  BY <1>1 DEF LogShapes
<1>3. pen' = [on |-> IF pen.on = "rotated" THEN "gone" ELSE pen.on, line |-> pen.line]
  BY <1>1 DEF LogShapes
<1>4. LogShapes' /\ Indexed' /\ Writing'
  BY <1>1, <1>2, <1>3 DEF LogShapes, Indexed, SyncedIsCurrent, Writing
<1>5. Behind'
  BY <1>1, <1>2 DEF Behind, Rotating
<1>6. ASSUME NEW i \in 1..Len(rotated) PROVE rotated[i] \in Accounted'
  <2>1. rotated \in Seq(LineNo) /\ pass.upto \in Nat /\ Len(rotated) \in Nat  BY DEF LogShapes
  <2>2. CASE i <= pass.upto
    <3>1. i \in 1..pass.upto  BY <2>1, <2>2
    <3> QED  BY <1>1, <3>1 DEF Behind, Accounted
  <2>3. CASE i > pass.upto
    <3>1. Undrained = {rotated[j] : j \in (pass.upto + 1)..Len(rotated)}
      <4>1. Len(rotated) <= Len(rotated)  BY <2>1
      <4>2. ToSet(SubSeq(rotated, pass.upto + 1, Len(rotated)))
              = {rotated[j] : j \in (pass.upto + 1)..Len(rotated)}
        BY <2>1, <4>1, PlacesOf
      <4> QED  BY <4>2 DEF Undrained
    <3>2. i \in (pass.upto + 1)..Len(rotated)  BY <2>1, <2>3
    <3> QED  BY <1>1, <3>1, <3>2 DEF Accounted
  <2> QED  BY <2>1, <2>2, <2>3
<1>7. ASSUME NEW n \in LinesWritten' PROVE KeptAt(n)'
  <2>1. KeptAt(n)  BY <1>1 DEF LinesWritten
  <2>2. Past' = Past  BY <1>1, <1>2 DEF Past, Rotating
  <2>3. Accounted \subseteq Accounted'  BY <1>1 DEF Accounted
  <2> QED  BY <1>1, <1>2, <1>3, <1>6, <2>1, <2>2, <2>3 DEF KeptAt
<1> QED  BY <1>4, <1>5, <1>7

LEMMA LogDies == ASSUME LogInv, PassDies PROVE LogInv'
<1> USE DEF LogInv
<1>1. /\ pass.at # "idle" /\ pass' = [at |-> "idle", upto |-> 0]
      /\ cut' = (cut \/ pass.at \in {"drain", "remove", "reset"})
      /\ dropped' = dropped \cup (ToSet(rotated) \ taken) /\ rotated' = <<>>
      /\ pen' = IF pen.on = "rotated" THEN [pen EXCEPT !.on = "gone"] ELSE pen
      /\ UNCHANGED <<lines, file, offset, rev, stored, entry, lastRev, taken>>
  BY DEF PassDies, logIndex
<1>2. pen' = [on |-> IF pen.on = "rotated" THEN "gone" ELSE pen.on, line |-> pen.line]
  BY <1>1 DEF LogShapes
<1>3. LogShapes' /\ Indexed' /\ Writing'
  BY <1>1, <1>2 DEF LogShapes, Indexed, SyncedIsCurrent, Writing
<1>4. Accounted \subseteq Accounted'  BY <1>1 DEF Accounted
<1>5. Behind'
  BY <1>1, <1>4 DEF Behind, Rotating
<1>6. \A i \in 1..Len(rotated) : rotated[i] \in Accounted'
  <2>1. DOMAIN rotated = 1..Len(rotated)  BY DEF LogShapes
  <2> QED  BY <1>1, <2>1 DEF ToSet, Accounted
<1>7. ASSUME NEW n \in LinesWritten' PROVE KeptAt(n)'
  <2>1. KeptAt(n)  BY <1>1 DEF LinesWritten
  <2>2. cut' \/ Past' = Past  BY <1>1 DEF Past, Rotating
  <2>3. cut => cut'  BY <1>1
  <2> QED  BY <1>1, <1>2, <1>4, <1>6, <2>1, <2>2, <2>3 DEF KeptAt
<1> QED  BY <1>3, <1>5, <1>7

(* What only the index does. *)
LEMMA LogIndexes ==
  ASSUME LogInv, SyncLocal \/ SyncBot \/ ImportExport PROVE LogInv'
<1> USE DEF LogInv
<1>1. UNCHANGED <<lines, pen, file, rotated, offset, rev, stored, pass, taken, dropped, cut>>
  BY DEF SyncLocal, SyncBot, ImportExport, logFiles
<1>2. Indexed' /\ lastRev' \in Nat
  BY <1>1 DEF SyncLocal, SyncBot, ImportExport, Upserted, Precedence, Indexed, SyncedIsCurrent,
              LogShapes
<1>3. LogShapes' /\ Writing'
  BY <1>1, <1>2 DEF LogShapes, Writing
<1>4. Behind'  BY <1>1 DEF Behind, Rotating, Accounted
<1>5. ASSUME NEW n \in LinesWritten' PROVE KeptAt(n)'
  BY <1>1 DEF KeptAt, Accounted, Past, Rotating, LinesWritten
<1> QED  BY <1>2, <1>3, <1>4, <1>5

LEMMA LogStep == LogInv /\ [LogNext]_logVars => LogInv'
<1> SUFFICES ASSUME LogInv, [LogNext]_logVars PROVE LogInv'
  OBVIOUS
<1>1. CASE UNCHANGED logVars
  BY <1>1 DEF logVars, logFiles, logIndex, LogInv, LogShapes, Indexed, SyncedIsCurrent, KeptAt,
              Behind, Writing, Accounted, Past, Rotating, LinesWritten
<1>2. CASE PassResets
  <2>1. /\ pass.at = "reset" /\ offset' = 0 /\ cut' = FALSE
        /\ pass' = [at |-> "idle", upto |-> 0]
        /\ UNCHANGED <<lines, pen, file, rotated, rev, stored, entry, lastRev, taken, dropped>>
    BY <1>2 DEF PassResets, logFiles, logIndex
  <2>2. Past' = 0 /\ Past = 0 /\ ~cut
    BY <2>1 DEF Past, Rotating, LogInv, LogShapes, Behind
  <2>3. \A n \in LinesWritten' : KeptAt(n)'
    BY <2>1, <2>2 DEF LogInv, KeptAt, Accounted, LinesWritten
  <2> QED  BY <2>1, <2>3 DEF LogInv, LogShapes, Indexed, SyncedIsCurrent, Behind, Writing,
                             Rotating, Accounted
<1> QED
  BY <1>1, <1>2, LogOpens, LogWrites, LogReads, LogSaves, LogRenames, LogDrains, LogRemoves,
     LogDies, LogIndexes DEF LogNext

(* No line is lost to the local capture and no change passed over by the   *)
(* index, however passes die and repeat or the file is rotated under the   *)
(* plugin, but a write under way across a rotation and what a pass that    *)
(* dies inside one leaves (ingest.py, server.py).                          *)
THEOREM CaptureIsComplete == LogSafety => []CaptureComplete
<1>1. LogInv => CaptureComplete
  BY KeptEverywhere DEF LogInv, CaptureComplete, Indexed
<1> QED  BY <1>1, LogInitial, LogStep, PTL DEF LogSafety

-----------------------------------------------------------------------------
(* The roster *)

RosterSafety == RosterInit /\ [][RosterNext]_rosterVars

(* A share of the kills that one kill alone does not make: the setting     *)
(* 50 of three kills or more is one, a setting of 33 is not.               *)
OneIsNoShare == MinPct * MinKills > 100

RosterInv ==
  /\ DOMAIN firstKill = TierBoss /\ DOMAIN stood = TierBoss
  /\ \A b \in TierBoss : firstKill[b] = {} \/ firstKill[b] = stood[b]
  /\ announcedKills \subseteq TierBoss
  /\ NoFillIns

LEMMA RosterInitial == RosterInit => RosterInv
  BY DEF RosterInit, RosterInv, NoFillIns, Unread

LEMMA MoreThanShare ==
  ASSUME NEW n \in Nat, NEW s \in Nat, MinPct \in Nat, MinKills \in Nat, s >= MinKills,
         OneIsNoShare, Share(n, s, MinPct)
  PROVE  n >= 2
<1>1. n * 100 >= MinPct * s  BY DEF Share
<1>2. MinPct * s >= MinPct * MinKills
  <2>1. PICK d \in Nat : s = MinKills + d
    <3>1. s - MinKills \in Nat /\ s = MinKills + (s - MinKills)  OBVIOUS
    <3> QED  BY <3>1
  <2>2. MinPct * s = MinPct * MinKills + MinPct * d  BY <2>1
  <2>3. MinPct * d \in Nat /\ MinPct * MinKills \in Nat  BY <2>1
  <2> QED  BY <2>2, <2>3
<1>3. MinPct * s \in Nat /\ MinPct * MinKills \in Nat  OBVIOUS
<1>4. n * 100 > 100  BY <1>1, <1>2, <1>3 DEF OneIsNoShare
<1> QED  BY <1>4

(* Who is on a roster of enough kills was at two of them.                  *)
LEMMA DerivedStood ==
  ASSUME RosterInv, OneIsNoShare, NEW kills \in SUBSET announcedKills,
         \A b \in kills : firstKill[b] # {}, ~Provisional(Cardinality(kills)),
         NEW r \in DerivedRoster(kills)
  PROVE  Cardinality(FirstKillsOf(r)) >= 2
<1> DEFINE at == {b \in kills : r \in firstKill[b]}
<1>1. IsFiniteSet(TierBoss)
  BY FS_Interval, RosterBounds DEF TierBoss
<1>2. kills \subseteq TierBoss  BY DEF RosterInv
<1>3. at \subseteq FirstKillsOf(r) /\ FirstKillsOf(r) \subseteq TierBoss
  BY <1>2 DEF RosterInv, FirstKillsOf
<1>4. IsFiniteSet(FirstKillsOf(r)) /\ IsFiniteSet(at) /\ IsFiniteSet(kills)
  BY <1>1, <1>2, <1>3, FS_Subset
<1>5. /\ Cardinality(at) \in Nat /\ Cardinality(kills) \in Nat
      /\ Cardinality(FirstKillsOf(r)) \in Nat
      /\ Cardinality(at) <= Cardinality(FirstKillsOf(r))
  BY <1>3, <1>4, FS_CardinalityType, FS_Subset
<1>6. Share(Cardinality(at), Cardinality(kills), MinPct)
  BY DEF DerivedRoster
<1>7. MinKills \in Nat /\ MinPct \in Nat /\ Cardinality(kills) >= MinKills
  BY <1>5, RosterBounds DEF Provisional
<1>8. Cardinality(at) >= 2
  BY <1>5, <1>6, <1>7, MoreThanShare
<1> QED  BY <1>5, <1>8

LEMMA MoreThanLow ==
  ASSUME NEW n \in Nat, NEW t \in Nat, t >= MinRaiders, Share(n, t, High) \/ ~(n * 100 <= Low * t)
  PROVE  n * 100 > Low * t
<1>1. /\ Low \in Nat /\ High \in Nat /\ Low < High /\ MinRaiders \in Nat /\ MinRaiders > 0
  BY RosterBounds
<1>2. CASE ~(n * 100 <= Low * t)
  <2>1. Low * t \in Nat  BY <1>1
  <2> QED  BY <1>2, <2>1
<1>3. CASE Share(n, t, High)
  <2>1. PICK d \in Nat : High = Low + 1 + d
    <3>1. High - Low - 1 \in Nat /\ High = Low + 1 + (High - Low - 1)  BY <1>1
    <3> QED  BY <3>1
  <2>2. High * t = Low * t + t + d * t  BY <1>1, <2>1
  <2>3. d * t \in Nat /\ Low * t \in Nat /\ t > 0  BY <1>1, <2>1
  <2>4. n * 100 >= High * t  BY <1>3 DEF Share
  <2> QED  BY <2>2, <2>3, <2>4
<1> QED  BY <1>2, <1>3

LEMMA ClassifiedRight ==
  ASSUME RosterInv, OneIsNoShare, NEW raiders \in SUBSET Raider, NEW signalB,
         signalB \in {"none", "PROG"}, NEW fails \in BOOLEAN,
         Classifies(raiders, signalB, fails), UNCHANGED <<stood, announcedKills, firstKill>>
  PROVE  RosterInv'
<1> DEFINE kills == IF fails THEN {} ELSE {b \in announcedKills : firstKill[b] # {}}
           sample == Cardinality(kills)
           derived == DerivedRoster(kills)
           seed == IF rosterRow.seed = {} /\ Provisional(sample) THEN LastTeam ELSE rosterRow.seed
           source == IF derived # {} /\ ~Provisional(sample) THEN "derived"
                     ELSE IF seed # {} THEN "seed" ELSE "provisional"
           roster == IF source = "seed" THEN seed ELSE derived
           signalA == SignalRoster(raiders, roster)
<1>1. classified' = [verdict |-> ResolveTeam(signalA, signalB), raiders |-> raiders,
                     source |-> source]
  BY DEF Classifies
<1>2. NoFillIns'
  <2> SUFFICES ASSUME ResolveTeam(signalA, signalB) = "PROG", source = "derived",
                      Cardinality(raiders) >= MinRaiders
               PROVE  Cardinality({r \in raiders : Cardinality(FirstKillsOf(r)) >= 2}) * 100
                        > Low * Cardinality(raiders)
    BY <1>1 DEF NoFillIns, FirstKillsOf, TierBoss
  <2>1. derived # {} /\ ~Provisional(sample) /\ roster = derived  OBVIOUS
  <2> DEFINE both == raiders \cap derived
             stayed == {r \in raiders : Cardinality(FirstKillsOf(r)) >= 2}
  <2>2. kills \in SUBSET announcedKills /\ \A b \in kills : firstKill[b] # {}  OBVIOUS
  <2>3. both \subseteq stayed
    <3> HIDE DEF kills
    <3> QED  BY <2>1, <2>2, DerivedStood
  <2>4. IsFiniteSet(raiders) /\ IsFiniteSet(both) /\ IsFiniteSet(stayed)
    BY RosterBounds, FS_Subset
  <2>5. /\ Cardinality(both) \in Nat /\ Cardinality(stayed) \in Nat /\ Cardinality(raiders) \in Nat
        /\ Cardinality(both) <= Cardinality(stayed)
    BY <2>3, <2>4, FS_CardinalityType, FS_Subset
  <2>6. signalA # "OTHER"
    BY DEF ResolveTeam
  <2>7. \/ Share(Cardinality(both), Cardinality(raiders), High)
        \/ ~(Cardinality(both) * 100 <= Low * Cardinality(raiders))
    <3>1. SignalRoster(raiders, derived) # "OTHER"  BY <2>1, <2>6
    <3>2. derived # {}  BY <2>1
    <3>3. MinRaiders \in Nat  BY RosterBounds
    <3> HIDE DEF derived
    <3>4. ~(Cardinality(raiders) < MinRaiders)  BY <2>5, <3>3
    <3> QED  BY <3>1, <3>2, <3>4 DEF SignalRoster
  <2>8. Cardinality(both) * 100 > Low * Cardinality(raiders)
    BY <2>5, <2>7, MoreThanLow
  <2>9. Low * Cardinality(raiders) \in Nat  BY <2>5, RosterBounds
  <2> QED  BY <2>5, <2>8, <2>9
<1> QED  BY <1>2 DEF RosterInv, TierBoss

LEMMA RosterStep ==
  ASSUME OneIsNoShare PROVE RosterInv /\ [RosterNext]_rosterVars => RosterInv'
<1> SUFFICES ASSUME RosterInv, [RosterNext]_rosterVars PROVE RosterInv'
  OBVIOUS
<1>1. CASE UNCHANGED rosterVars
  BY <1>1 DEF rosterVars, RosterInv, NoFillIns, FirstKillsOf, TierBoss
<1>2. classified' = Unread => NoFillIns'  BY DEF NoFillIns, Unread
<1>3. ASSUME NEW b \in TierBoss, NEW who, BossFalls(b, who) PROVE RosterInv'
  <2>1. firstKill[b] = {}  BY <1>3 DEF BossFalls, RosterInv
  <2>2. NoFillIns'  BY <1>2, <1>3 DEF BossFalls
  <2>3. /\ stood' = [stood EXCEPT ![b] = who] /\ UNCHANGED <<firstKill, announcedKills>>
    BY <1>3 DEF BossFalls
  <2> QED  BY <2>1, <2>2, <2>3 DEF RosterInv
<1>4. ASSUME NEW b \in TierBoss, RecordsStanding(b), classified' = Unread, UNCHANGED stood,
             announcedKills' \subseteq TierBoss
      PROVE  RosterInv'
  <2>1. firstKill' = [firstKill EXCEPT ![b] = stood[b]] \/ firstKill' = firstKill
    BY <1>4 DEF RecordsStanding
  <2> QED  BY <1>2, <1>4, <2>1 DEF RosterInv
<1>5. ASSUME NEW b \in TierBoss, AnnouncesStanding(b) \/ Backfills(b) PROVE RosterInv'
  BY <1>4, <1>5 DEF AnnouncesStanding, Backfills, RosterInv
<1>6. ASSUME NEW b \in TierBoss, SeedsStanding(b) PROVE RosterInv'
  BY <1>2, <1>6 DEF SeedsStanding, RosterInv
<1>7. ASSUME NEW raiders \in SUBSET Raider, RecapClassifies(raiders) PROVE RosterInv'
  <2>1. SignalsOfReports \subseteq {"none", "PROG"}
    BY DEF SignalsOfReports, SignalProgression
  <2> QED  BY <1>7, <2>1, ClassifiedRight DEF RecapClassifies
<1> QED  BY <1>1, <1>3, <1>5, <1>6, <1>7 DEF RosterNext

(* A one-off fill-in never decides a report of a derived roster, whatever  *)
(* kills were lost, backfilled or seeded, wherever one kill is no share of *)
(* MinKills: so for the setting of 50, and for none of 33 or less          *)
(* (team.py: "A one-off fill-in never enters the roster").                 *)
THEOREM NoFillInsOnRosters == ASSUME OneIsNoShare PROVE RosterSafety => []NoFillIns
<1>1. RosterInv => NoFillIns  BY DEF RosterInv
<1>2. RosterInv /\ [RosterNext]_rosterVars => RosterInv'  BY RosterStep
<1> QED  BY <1>1, <1>2, RosterInitial, PTL DEF RosterSafety

-----------------------------------------------------------------------------
(* The grant of Warcraft Logs *)

AuthSafety == AuthInit /\ [][AuthNext]_authVars

IsGrant(g) == g = [access |-> g.access, refresh |-> g.refresh] /\ g.refresh \in Nat

RunIs(run) ==
  run = [at |-> run.at, held |-> run.held, rejected |-> run.rejected, read |-> run.read,
         got |-> run.got]

(* What is refreshed or saved comes after the check that it may be saved,  *)
(* and what a save puts in place of what it read is the newer of the two.  *)
Refreshed(run, r) ==
  /\ RunIs(run)
  /\ run.at \in {"refreshes", "saves"} => r \in MayWrite
  /\ IsGrant(run.read) /\ IsGrant(run.got)
  /\ run.at = "saves" => /\ run.read.refresh <= run.got.refresh
                         /\ run.got.refresh <= provider.refresh

AuthInv ==
  /\ issued \in Nat /\ IsGrant(provider) /\ provider.refresh <= issued
  /\ IsGrant(grant)
  /\ DOMAIN authRun = AuthRun /\ \A r \in AuthRun : Refreshed(authRun[r], r)
  /\ GrantKept

LEMMA AuthInitial == AuthInit => AuthInv
  BY AuthBounds
  DEF AuthInit, AuthInv, IsGrant, RunIs, Refreshed, AtRest, NoGrant, GrantKept, GrantIsHeld

(* A run that saves nothing comes to rest, or goes on to do so.            *)
LEMMA OtherRuns ==
  ASSUME AuthInv, NEW r \in AuthRun, NEW run,
         authRun' = [authRun EXCEPT ![r] = run], authRun[r].at # "saves",
         run.at \in {"refreshes", "saves"} => r \in MayWrite,
         RunIs(run), IsGrant(run.read), IsGrant(run.got), run.at # "saves",
         UNCHANGED <<provider, issued, grant>>, excused \subseteq excused'
  PROVE  AuthInv'
<1>1. \A q \in AuthRun : authRun'[q] = IF q = r THEN run ELSE authRun[q]
  BY DEF AuthInv
<1>2. DOMAIN authRun' = AuthRun  BY DEF AuthInv
<1>3. \A q \in AuthRun : Refreshed(authRun[q], q)'
  BY <1>1 DEF AuthInv, RunIs, Refreshed
<1>4. GrantIsHeld => GrantIsHeld'
  BY <1>1 DEF GrantIsHeld
<1>5. excused' = {} => excused = {}  OBVIOUS
<1> QED  BY <1>2, <1>3, <1>4, <1>5 DEF AuthInv, GrantKept, IsGrant
LEMMA RefreshKeeps == ASSUME AuthInv, NEW r \in AuthRun, Refreshes(r) PROVE AuthInv'
<1>1. PICK refresh \in {provider.refresh, issued + 1} :
        /\ provider' = [access |-> issued + 1, refresh |-> refresh]
        /\ \/ /\ authRun' = [authRun EXCEPT ![r].at = "saves", ![r].got = provider']
              /\ UNCHANGED <<excused, authFaults>>
           \/ /\ AuthFault /\ authRun' = [authRun EXCEPT ![r].at = "rereads"]
              /\ excused' = excused \cup {"lost"}
  BY DEF Refreshes
<1>2. /\ issued' = issued + 1 /\ UNCHANGED grant
      /\ authRun[r].at = "refreshes" /\ authRun[r].read.refresh = provider.refresh
  BY DEF Refreshes
<1>3. /\ issued \in Nat /\ issued' \in Nat /\ IsGrant(provider')
      /\ provider.refresh <= provider'.refresh /\ provider'.refresh <= issued'
      /\ provider'.refresh = refresh
  BY <1>1, <1>2 DEF AuthInv, IsGrant
<1>4. DOMAIN authRun' = AuthRun
  BY <1>1 DEF AuthInv
<1>5. ASSUME NEW q \in AuthRun, q # r PROVE authRun'[q] = authRun[q]
  BY <1>1, <1>5 DEF AuthInv
<1>6. ASSUME NEW q \in AuthRun, q # r PROVE Refreshed(authRun[q], q)'
  BY <1>3, <1>5, <1>6 DEF AuthInv, RunIs, Refreshed, IsGrant
<1>7. CASE authRun' = [authRun EXCEPT ![r].at = "saves", ![r].got = provider']
  <2>1. /\ authRun'[r].at = "saves" /\ authRun'[r].got = provider'
        /\ authRun'[r].read = authRun[r].read
    BY <1>7 DEF AuthInv
  <2>2. RunIs(authRun'[r])
    <3>1. authRun'[r] = [authRun[r] EXCEPT !.at = "saves", !.got = provider']
      BY <1>7 DEF AuthInv
    <3> QED  BY <3>1 DEF AuthInv, Refreshed, RunIs
  <2>3. Refreshed(authRun[r], r)'
    BY <1>2, <1>3, <2>1, <2>2 DEF AuthInv, RunIs, Refreshed
  <2>4. GrantIsHeld'  BY <2>1 DEF GrantIsHeld
  <2> QED  BY <1>2, <1>3, <1>4, <1>6, <2>3, <2>4 DEF AuthInv, GrantKept
<1>8. CASE /\ authRun' = [authRun EXCEPT ![r].at = "rereads"]
           /\ excused' = excused \cup {"lost"}
  <2>1. /\ authRun'[r].at = "rereads" /\ authRun'[r].got = authRun[r].got
        /\ authRun'[r].read = authRun[r].read
    BY <1>8 DEF AuthInv
  <2>2. RunIs(authRun'[r])
    <3>1. authRun'[r] = [authRun[r] EXCEPT !.at = "rereads"]
      BY <1>8 DEF AuthInv
    <3> QED  BY <3>1 DEF AuthInv, Refreshed, RunIs
  <2>3. Refreshed(authRun[r], r)'
    BY <1>2, <1>3, <2>1, <2>2 DEF AuthInv, RunIs, Refreshed
  <2>4. excused' # {}  BY <1>8
  <2> QED  BY <1>2, <1>3, <1>4, <1>6, <2>3, <2>4 DEF AuthInv, GrantKept
<1> QED  BY <1>1, <1>7, <1>8

(* A run that is over holds nothing any more: another one does, or what it *)
(* puts in place of what it read is what it held or as new.                *)
LEMMA SaveKeeps == ASSUME AuthInv, NEW r \in AuthRun, SavesGrant(r) PROVE AuthInv'
<1>1. /\ authRun[r].at = "saves" /\ UNCHANGED <<provider, issued>>
      /\ authRun' = [authRun EXCEPT ![r] = [AtRest EXCEPT !.held = authRun[r].held]]
  BY DEF SavesGrant, Replaces
<1>2. /\ r \in MayWrite /\ IsGrant(authRun[r].got)
      /\ authRun[r].read.refresh <= authRun[r].got.refresh
      /\ authRun[r].got.refresh <= provider.refresh /\ provider.refresh \in Nat
      /\ authRun[r].read.refresh \in Nat /\ authRun[r].got.refresh \in Nat
  BY <1>1 DEF AuthInv, RunIs, Refreshed, IsGrant
<1>3. DOMAIN authRun' = AuthRun /\ authRun'[r] = [AtRest EXCEPT !.held = authRun[r].held]
  BY <1>1 DEF AuthInv
<1>4. \A q \in AuthRun : q # r => authRun'[q] = authRun[q]
  BY <1>1 DEF AuthInv
<1>5. ASSUME NEW q \in AuthRun PROVE Refreshed(authRun[q], q)'
  <2>1. CASE q = r
    BY <1>3, <2>1 DEF RunIs, Refreshed, AtRest, NoGrant, IsGrant
  <2>2. CASE q # r
    BY <1>1, <1>4, <2>2 DEF AuthInv, RunIs, Refreshed, IsGrant
  <2> QED  BY <2>1, <2>2
<1>6. CASE UNCHANGED grant /\ excused' = excused \cup {"lost"}
  <2>1. excused' # {}  BY <1>6
  <2> QED  BY <1>1, <1>3, <1>5, <1>6, <2>1 DEF AuthInv, GrantKept, IsGrant
<1>7. CASE /\ grant' = authRun[r].got
           /\ excused' = IF grant # authRun[r].read THEN excused \cup {"raced"} ELSE excused
  <2>1. ASSUME excused' = {} PROVE GrantIsHeld'
    <3>1. grant = authRun[r].read /\ excused = {}
      <4>1. CASE grant # authRun[r].read
        <5>1. "raced" \in excused'  BY <1>7, <4>1
        <5> QED  BY <2>1, <5>1
      <4>2. CASE grant = authRun[r].read  BY <1>7, <2>1, <4>2
      <4> QED  BY <4>1, <4>2
    <3>2. GrantIsHeld  BY <3>1 DEF AuthInv, GrantKept
    <3>3. CASE grant.refresh = provider.refresh
      <4>1. authRun[r].got.refresh = provider.refresh  BY <1>2, <3>1, <3>3
      <4> QED  BY <1>1, <1>7, <4>1 DEF GrantIsHeld
    <3>4. CASE \E q \in AuthRun :
                 authRun[q].at = "saves" /\ authRun[q].got.refresh = provider.refresh
      <4>1. PICK q \in AuthRun :
              authRun[q].at = "saves" /\ authRun[q].got.refresh = provider.refresh
        BY <3>4
      <4>2. CASE q = r  BY <1>1, <1>7, <4>1, <4>2 DEF GrantIsHeld
      <4>3. CASE q # r  BY <1>1, <1>4, <4>1, <4>3 DEF GrantIsHeld
      <4> QED  BY <4>2, <4>3
    <3> QED  BY <3>2, <3>3, <3>4 DEF GrantIsHeld
  <2>2. IsGrant(grant')  BY <1>2, <1>7
  <2> QED  BY <1>1, <1>3, <1>5, <2>1, <2>2 DEF AuthInv, GrantKept, IsGrant
<1> QED  BY <1>2, <1>6, <1>7 DEF SavesGrant

LEMMA AuthStep == AuthInv /\ [AuthNext]_authVars => AuthInv'
<1> SUFFICES ASSUME AuthInv, [AuthNext]_authVars PROVE AuthInv'
  OBVIOUS
<1>1. CASE UNCHANGED authVars
  BY <1>1 DEF authVars, AuthInv, IsGrant, RunIs, Refreshed, GrantKept, GrantIsHeld
<1>2. CASE Rejects
  <2>1. /\ provider' = [access |-> 0, refresh |-> provider.refresh]
        /\ UNCHANGED <<issued, grant, authRun, excused>>
    BY <1>2 DEF Rejects, AuthInv, IsGrant
  <2> QED  BY <2>1 DEF AuthInv, IsGrant, RunIs, Refreshed, GrantKept, GrantIsHeld
<1>3. ASSUME NEW r \in AuthRun, HourIsOver(r) PROVE AuthInv'
  BY <1>3 DEF HourIsOver, AuthInv, IsGrant, RunIs, Refreshed, GrantKept, GrantIsHeld
<1>4. ASSUME NEW r \in AuthRun, Takes(r) PROVE AuthInv'
  <2> DEFINE run == [AtRest EXCEPT !.held = grant.access]
  <2>1. run.at = "idle" /\ RunIs(run) /\ IsGrant(run.read) /\ IsGrant(run.got)
    BY DEF AtRest, NoGrant, IsGrant, RunIs
  <2> QED  BY <1>4, <2>1, OtherRuns DEF Takes
<1> DEFINE Over(r) == [AtRest EXCEPT !.held = authRun[r].held]
<1>5. ASSUME NEW r \in AuthRun
      PROVE  /\ Over(r).at = "idle" /\ RunIs(Over(r))
             /\ IsGrant(Over(r).read) /\ IsGrant(Over(r).got)
  BY DEF AtRest, NoGrant, IsGrant, RunIs
<1> HIDE DEF Over
<1>6. ASSUME NEW r \in AuthRun, Rejected(r) PROVE AuthInv'
  <2>1. PICK t :
          authRun' = [authRun EXCEPT ![r] = [authRun[r] EXCEPT !.at = "reads", !.rejected = t]]
    BY <1>6 DEF Rejected, AuthInv
  <2>2. Refreshed(authRun[r], r)  BY DEF AuthInv
  <2>3. PICK run : run = [authRun[r] EXCEPT !.at = "reads", !.rejected = t]  OBVIOUS
  <2>4. /\ run.at = "reads" /\ run.read = authRun[r].read /\ run.got = authRun[r].got
        /\ RunIs(run)
    BY <2>2, <2>3 DEF RunIs, Refreshed
  <2>5. authRun' = [authRun EXCEPT ![r] = run]  BY <2>1, <2>3
  <2> QED  BY <1>6, <2>2, <2>4, <2>5, OtherRuns DEF Rejected, Refreshed
<1>7. ASSUME NEW r \in AuthRun, NEW t, authRun[r].at # "saves", Replaces(r, t),
             UNCHANGED <<provider, issued, grant>>, excused \subseteq excused'
      PROVE  AuthInv'
  BY <1>5, <1>7, OtherRuns DEF Replaces, Over
<1>8. ASSUME NEW r \in AuthRun, NEW at \in {"prewrites", "refreshes", "rereads"}, NEW read,
             authRun' = [authRun EXCEPT ![r].at = at, ![r].read = read], IsGrant(read),
             authRun[r].at # "saves", at = "refreshes" => r \in MayWrite,
             UNCHANGED <<provider, issued, grant>>, excused \subseteq excused'
      PROVE  AuthInv'
  <2>1. Refreshed(authRun[r], r)  BY DEF AuthInv
  <2>2. PICK run : run = [authRun[r] EXCEPT !.at = at, !.read = read]  OBVIOUS
  <2>3. /\ run.at = at /\ run.read = read /\ run.got = authRun[r].got
        /\ RunIs(run)
    BY <2>1, <2>2 DEF RunIs, Refreshed
  <2>4. authRun' = [authRun EXCEPT ![r] = run]  BY <1>8, <2>2 DEF AuthInv
  <2> QED  BY <1>8, <2>1, <2>3, <2>4, OtherRuns DEF RunIs, Refreshed
<1>9. ASSUME NEW r \in AuthRun, NEW at \in {"refreshes", "rereads"},
             authRun' = [authRun EXCEPT ![r].at = at],
             authRun[r].at # "saves", at = "refreshes" => r \in MayWrite,
             UNCHANGED <<provider, issued, grant>>, excused \subseteq excused'
      PROVE  AuthInv'
  <2>1. Refreshed(authRun[r], r)  BY DEF AuthInv
  <2>2. PICK run : run = [authRun[r] EXCEPT !.at = at]  OBVIOUS
  <2>3. /\ run.at = at /\ run.read = authRun[r].read /\ run.got = authRun[r].got
        /\ RunIs(run)
    BY <2>1, <2>2 DEF RunIs, Refreshed
  <2>4. authRun' = [authRun EXCEPT ![r] = run]  BY <1>9, <2>2 DEF AuthInv
  <2> QED  BY <1>9, <2>1, <2>3, <2>4, OtherRuns DEF RunIs, Refreshed
<1>10. ASSUME NEW r \in AuthRun, RenewerReads(r) PROVE AuthInv'
  <2>1. authRun[r].at # "saves" /\ UNCHANGED <<provider, issued, grant, excused>>
    BY <1>10 DEF RenewerReads
  <2>2. \/ Replaces(r, grant.access) \/ Replaces(r, PublicToken)
        \/ authRun' = [authRun EXCEPT ![r].at = "prewrites", ![r].read = grant]
    BY <1>10 DEF RenewerReads
  <2>3. IsGrant(grant)  BY DEF AuthInv
  <2> QED  BY <1>7, <1>8, <2>1, <2>2, <2>3
<1>11. ASSUME NEW r \in AuthRun, Prewrites(r) PROVE AuthInv'
  <2>1. authRun[r].at = "prewrites" /\ UNCHANGED <<provider, issued>>
    BY <1>11 DEF Prewrites
  <2>2. CASE ChecksItMayWrite(r) /\ authRun' = [authRun EXCEPT ![r].at = "refreshes"]
    <3>1. CASE grant = authRun[r].read
      BY <1>9, <2>1, <2>2, <3>1 DEF ChecksItMayWrite
    <3>2. CASE grant # authRun[r].read
      <4>1. /\ excused' # {} /\ grant' = authRun[r].read /\ r \in MayWrite
        BY <2>2, <3>2 DEF ChecksItMayWrite
      <4>2. \A q \in AuthRun : Refreshed(authRun[q], q)  BY DEF AuthInv
      <4>3. \A q \in AuthRun : authRun'[q] = IF q = r THEN [authRun[r] EXCEPT !.at = "refreshes"]
                                             ELSE authRun[q]
        BY <2>2 DEF AuthInv
      <4>4. ASSUME NEW q \in AuthRun PROVE Refreshed(authRun[q], q)'
        <5>1. CASE q # r  BY <2>1, <4>2, <4>3, <5>1 DEF Refreshed
        <5>2. CASE q = r
          <6>1. PICK run : run = [authRun[r] EXCEPT !.at = "refreshes"]  OBVIOUS
          <6>2. RunIs(authRun[r])  BY <4>2 DEF Refreshed
          <6>4. /\ RunIs(run) /\ run.at = "refreshes"
                /\ run.read = authRun[r].read /\ run.got = authRun[r].got
            BY <6>1, <6>2 DEF RunIs
          <6>3. authRun'[q] = run  BY <4>3, <5>2, <6>1
          <6> QED  BY <4>1, <4>2, <5>2, <6>3, <6>4 DEF Refreshed
        <5> QED  BY <5>1, <5>2
      <4>5. IsGrant(grant') /\ DOMAIN authRun' = AuthRun
        BY <2>2, <4>1, <4>2 DEF RunIs, Refreshed, AuthInv
      <4> QED  BY <2>1, <4>1, <4>4, <4>5 DEF AuthInv, GrantKept, IsGrant
    <3> QED  BY <3>1, <3>2
  <2>3. CASE Replaces(r, PublicToken) /\ UNCHANGED <<grant, excused>>
    BY <1>7, <2>1, <2>3
  <2> QED  BY <1>11, <2>2, <2>3 DEF Prewrites
<1>12. ASSUME NEW r \in AuthRun, RefreshRefused(r) PROVE AuthInv'
  BY <1>9, <1>12 DEF RefreshRefused
<1>13. ASSUME NEW r \in AuthRun, Rereads(r) PROVE AuthInv'
  BY <1>7, <1>13 DEF Rereads
<1>14. ASSUME NEW r \in AuthRun, ContainerDies(r) PROVE AuthInv'
  <2>1. /\ authRun' = [authRun EXCEPT ![r] = AtRest] /\ UNCHANGED <<provider, issued, grant>>
        /\ excused' = IF authRun[r].at = "saves" THEN excused \cup {"lost"} ELSE excused
    BY <1>14 DEF ContainerDies
  <2>2. AtRest.at = "idle" /\ IsGrant(AtRest.read) /\ IsGrant(AtRest.got)
        /\ Refreshed(AtRest, r) /\ RunIs(AtRest)
    BY DEF AtRest, NoGrant, IsGrant, RunIs, Refreshed
  <2>3. CASE authRun[r].at # "saves"
    BY <2>1, <2>2, <2>3, OtherRuns
  <2>4. CASE authRun[r].at = "saves"
    <3>1. excused' # {}  BY <2>1, <2>4
    <3>2. \A q \in AuthRun : authRun'[q] = IF q = r THEN AtRest ELSE authRun[q]
      BY <2>1 DEF AuthInv
    <3>3. \A q \in AuthRun : Refreshed(authRun[q], q)'
      BY <2>1, <2>2, <3>2 DEF AuthInv, RunIs, Refreshed, IsGrant, AtRest, NoGrant
    <3> QED  BY <2>1, <3>1, <3>3 DEF AuthInv, GrantKept, IsGrant
  <2> QED  BY <2>3, <2>4
<1> QED
  BY <1>1, <1>2, <1>3, <1>4, <1>6, <1>10, <1>11, <1>12, <1>13, <1>14, RefreshKeeps, SaveKeeps
     DEF AuthNext

(* The refresh token that works is stored, or on its way there, unless an  *)
(* answer or a save was lost after the check, or a write went over what    *)
(* another run had stored: for any containers, roles, rejections and       *)
(* deaths (config.py: "A role that may not write never gets as far as the  *)
(* refresh").                                                              *)
THEOREM GrantIsKept == AuthSafety => []GrantKept
<1>1. AuthInv => GrantKept  BY DEF AuthInv
<1> QED  BY <1>1, AuthInitial, AuthStep, PTL DEF AuthSafety

-----------------------------------------------------------------------------
(* The move to tenants *)

MigrationSafety == MigrationInit /\ [][MigrationNext]_migrationVars

Script(m) == m = [step |-> m.step, rows |-> m.rows, left |-> m.left, told |-> m.told,
                  deleteOld |-> m.deleteOld, ok |-> m.ok]

(* A row of the new layout has all that was read of the old one.           *)
Held(m, r) == r \in DOMAIN newRows /\ m.rows[r] \subseteq newRows[r]

Copied(m, r) == r \in DOMAIN newRows /\ (Held(m, r) \/ r \in m.told)

(* A script works on rows it knows, beside none that it does not; it       *)
(* verifies when all of them are copied or said to be left alone, and      *)
(* deletes when the tiers among them are held.                             *)
Scripted(m) ==
  /\ Script(m) /\ m.step \in {"copy", "config", "verify", "delete"}
  /\ DOMAIN m.rows \subseteq OldTier \cup OldFact /\ DOMAIN oldRows \cap Stranger = {}
  /\ m.left \subseteq DOMAIN m.rows
  /\ m.step = "copy" => \A r \in DOMAIN m.rows \ m.left : Copied(m, r)
  /\ m.step # "copy" => \A r \in DOMAIN m.rows : Copied(m, r)
  /\ m.step = "verify" =>
       /\ configuredNew
       /\ m.ok => \A r \in OldTier \cap DOMAIN m.rows : r \in m.left \/ Held(m, r)
  /\ m.step = "delete" => configuredNew /\ \A r \in OldTier \cap DOMAIN m.rows : Held(m, r)

MigrationInv ==
  /\ migration = NoMigration \/ Scripted(migration)
  /\ NothingLost

LEMMA MigrationInitial == MigrationInit => MigrationInv
<1> SUFFICES ASSUME MigrationInit PROVE MigrationInv
  OBVIOUS
<1>1. NothingLost  BY DEF MigrationInit, NothingLost, NoRows
<1> QED  BY <1>1 DEF MigrationInit, MigrationInv

(* Rows of the new layout stay and grow. *)
LEMMA NewRowsGrow ==
  ASSUME MigrationInv,
         \A r \in DOMAIN newRows : r \in DOMAIN newRows' /\ newRows[r] \subseteq newRows'[r],
         UNCHANGED <<oldRows, configuredNew, migration, deletedRows>>
  PROVE  MigrationInv'
<1>1. NothingLost'  BY DEF MigrationInv, NothingLost, StillThere
<1>2. ASSUME Scripted(migration) PROVE Scripted(migration)'
  <2>1. \A r : /\ Held(migration, r) => Held(migration, r)'
               /\ Copied(migration, r) => Copied(migration, r)'
    BY DEF Held, Copied
  <2> QED  BY <1>2, <2>1 DEF Scripted, Script
<1> QED  BY <1>1, <1>2 DEF MigrationInv

LEMMA CopyKeeps == ASSUME MigrationInv, NEW r \in OldRow, CopiesRow(r) PROVE MigrationInv'
<1>1. /\ migration.step = "copy" /\ r \in migration.left
      /\ newRows' = IF r \in DOMAIN newRows THEN newRows ELSE Putting(newRows, r, migration.rows[r])
      /\ migration' = [migration EXCEPT !.left = @ \ {r},
                         !.told = IF r \in DOMAIN newRows THEN @ \cup {r} ELSE @,
                         !.step = IF migration.left = {r} THEN "config" ELSE @]
      /\ UNCHANGED <<oldRows, configuredNew, deletedRows>>
  BY DEF CopiesRow
<1>2. Scripted(migration)  BY <1>1 DEF MigrationInv, NoMigration
<1>3. /\ \A x \in DOMAIN newRows : x \in DOMAIN newRows' /\ newRows[x] \subseteq newRows'[x]
      /\ r \in DOMAIN newRows'
  <2>1. CASE r \in DOMAIN newRows  BY <1>1, <2>1
  <2>2. CASE r \notin DOMAIN newRows  BY <1>1, <2>2 DEF Putting
  <2> QED  BY <2>1, <2>2
<1>4. NothingLost'  BY <1>1, <1>3 DEF MigrationInv, NothingLost, StillThere
<1>5. PICK m : m = [migration EXCEPT !.left = @ \ {r},
                      !.told = IF r \in DOMAIN newRows THEN @ \cup {r} ELSE @,
                      !.step = IF migration.left = {r} THEN "config" ELSE @]
  OBVIOUS
<1>6. /\ Script(m) /\ m.rows = migration.rows /\ m.left = migration.left \ {r}
      /\ m.told = IF r \in DOMAIN newRows THEN migration.told \cup {r} ELSE migration.told
      /\ m.step = IF migration.left = {r} THEN "config" ELSE "copy"
  BY <1>1, <1>2, <1>5 DEF Scripted, Script
<1>7. \A x \in DOMAIN m.rows \ m.left : Copied(m, x)'
  <2>1. ASSUME NEW x \in DOMAIN m.rows \ m.left, x # r PROVE Copied(m, x)'
    <3>1. Copied(migration, x)  BY <1>1, <1>2, <1>6, <2>1 DEF Scripted
    <3> QED  BY <1>3, <1>6, <3>1 DEF Copied, Held
  <2>2. Copied(m, r)'
    <3>1. CASE r \in DOMAIN newRows  BY <1>3, <1>6, <3>1 DEF Copied
    <3>2. CASE r \notin DOMAIN newRows
      <4>1. newRows'[r] = m.rows[r]  BY <1>1, <1>6, <3>2 DEF Putting
      <4> QED  BY <1>3, <4>1 DEF Copied, Held
    <3> QED  BY <3>1, <3>2
  <2> QED  BY <2>1, <2>2
<1>8. m.step = "config" => m.left = {}
  BY <1>6
<1>9. migration' = m  BY <1>1, <1>5
<1>10. Scripted(migration)'
  BY <1>1, <1>2, <1>6, <1>7, <1>8, <1>9 DEF Scripted
<1> QED  BY <1>1, <1>4, <1>10 DEF MigrationInv

LEMMA VerifyKeeps == ASSUME MigrationInv, NEW r \in OldRow, VerifiesTier(r) PROVE MigrationInv'
<1>1. /\ migration.step = "verify" /\ r \in migration.left
      /\ migration' = [migration EXCEPT !.left = @ \ {r}, !.ok = @ /\ SameAnnounced(r)]
      /\ UNCHANGED <<oldRows, newRows, configuredNew, deletedRows>>
  BY DEF VerifiesTier
<1>2. Scripted(migration)  BY <1>1 DEF MigrationInv, NoMigration
<1>3. PICK m : m = [migration EXCEPT !.left = @ \ {r}, !.ok = @ /\ SameAnnounced(r)]
  OBVIOUS
<1>4. /\ Script(m) /\ m.rows = migration.rows /\ m.left = migration.left \ {r}
      /\ m.step = "verify" /\ m.told = migration.told
  BY <1>1, <1>2, <1>3 DEF Scripted, Script
<1>5. m.ok => migration.ok /\ SameAnnounced(r)
  BY <1>2, <1>3 DEF Scripted, Script
<1>6. m.ok => \A x \in OldTier \cap DOMAIN m.rows : x \in m.left \/ Held(m, x)
  <2>1. SameAnnounced(r) => Held(migration, r)  BY DEF SameAnnounced, Held
  <2> QED  BY <1>1, <1>2, <1>4, <1>5, <2>1 DEF Scripted, Held
<1>7. migration' = m  BY <1>1, <1>3
<1>8. Scripted(migration)'
  BY <1>1, <1>2, <1>4, <1>6, <1>7 DEF Scripted, Copied, Held
<1>9. NothingLost'  BY <1>1 DEF MigrationInv, NothingLost, StillThere
<1> QED  BY <1>1, <1>8, <1>9 DEF MigrationInv

LEMMA DeleteKeeps == ASSUME MigrationInv, NEW r \in OldRow, DeletesOld(r) PROVE MigrationInv'
<1>1. /\ migration.step = "delete" /\ r \in migration.left
      /\ oldRows' = Without(oldRows, r)
      /\ deletedRows' = IF r \in DOMAIN oldRows
                        THEN Putting(deletedRows, r, [held |-> migration.rows[r],
                                                      told |-> r \in migration.told])
                        ELSE deletedRows
      /\ migration' = IF migration.left = {r} THEN NoMigration
                      ELSE [migration EXCEPT !.left = @ \ {r}]
      /\ UNCHANGED <<newRows, configuredNew>>
  BY DEF DeletesOld
<1>2. Scripted(migration)  BY <1>1 DEF MigrationInv, NoMigration
<1>3. /\ DOMAIN oldRows' \subseteq DOMAIN oldRows
      /\ \A x \in DOMAIN oldRows' : oldRows'[x] = oldRows[x]
  BY <1>1 DEF Without
<1>4. /\ configuredNew
      /\ r \in DOMAIN newRows
      /\ r \in OldTier => Held(migration, r)
      /\ Held(migration, r) \/ r \in migration.told
  BY <1>1, <1>2 DEF Scripted, Copied
<1>5. NothingLost'
  <2>1. \A x \in DOMAIN deletedRows' :
          /\ x \in DOMAIN newRows'
          /\ StillThere(x)' \/ (x \notin OldTier /\ deletedRows'[x].told)
    <3>1. CASE r \notin DOMAIN oldRows
      BY <1>1, <3>1 DEF MigrationInv, NothingLost, StillThere
    <3>2. CASE r \in DOMAIN oldRows
      <4> DEFINE row == [held |-> migration.rows[r], told |-> r \in migration.told]
      <4>1. deletedRows' = Putting(deletedRows, r, row)  BY <1>1, <3>2
      <4>2. row.held = migration.rows[r] /\ (row.told <=> r \in migration.told)  OBVIOUS
      <4> HIDE DEF row
      <4>3. deletedRows'[r] = row  BY <4>1 DEF Putting
      <4>4. StillThere(r)' \/ (r \notin OldTier /\ deletedRows'[r].told)
        <5>1. Held(migration, r) => StillThere(r)'
          BY <1>1, <4>2, <4>3 DEF StillThere, Held
        <5>2. r \in migration.told => deletedRows'[r].told  BY <4>2, <4>3
        <5> QED  BY <1>4, <5>1, <5>2
      <4>5. \A x \in DOMAIN deletedRows' :
              x # r => x \in DOMAIN deletedRows /\ deletedRows'[x] = deletedRows[x]
        BY <4>1 DEF Putting
      <4> QED  BY <1>1, <1>4, <4>4, <4>5 DEF MigrationInv, NothingLost, StillThere
    <3> QED  BY <3>1, <3>2
  <2>2. DOMAIN oldRows' \cap Stranger = {}
    BY <1>2, <1>3 DEF Scripted
  <2> QED  BY <1>1, <1>4, <2>1, <2>2 DEF NothingLost
<1>6. CASE migration' = NoMigration
  BY <1>3, <1>5, <1>6 DEF MigrationInv
<1>7. CASE migration' = [migration EXCEPT !.left = @ \ {r}]
  <2>1. PICK m : m = [migration EXCEPT !.left = @ \ {r}]  OBVIOUS
  <2>2. /\ Script(m) /\ m.rows = migration.rows /\ m.left = migration.left \ {r}
        /\ m.step = "delete" /\ m.told = migration.told
    BY <1>1, <1>2, <2>1 DEF Scripted, Script
  <2>3. migration' = m  BY <1>7, <2>1
  <2>4. Scripted(migration)'
    BY <1>1, <1>2, <1>3, <2>2, <2>3 DEF Scripted, Copied, Held
  <2> QED  BY <1>3, <1>5, <2>4 DEF MigrationInv
<1> QED  BY <1>1, <1>6, <1>7

LEMMA MigrationStep == MigrationInv /\ [MigrationNext]_migrationVars => MigrationInv'
<1> SUFFICES ASSUME MigrationInv, [MigrationNext]_migrationVars PROVE MigrationInv'
  OBVIOUS
<1>1. CASE UNCHANGED migrationVars
  BY <1>1, NewRowsGrow DEF migrationVars
<1>2. ASSUME NEW r \in OldTier \cup OldFact, NEW fact \in Felled, OldPollWrites(r, fact)
      PROVE  MigrationInv'
  <2>1. UNCHANGED <<newRows, configuredNew, migration, deletedRows>>
    BY <1>2 DEF OldPollWrites
  <2>2. DOMAIN oldRows' = DOMAIN oldRows \cup {r} /\ r \notin Stranger
    BY <1>2, MigrationBounds DEF OldPollWrites, Putting
  <2>3. NothingLost'  BY <2>1, <2>2 DEF MigrationInv, NothingLost, StillThere
  <2>4. Scripted(migration) => Scripted(migration)'
    BY <2>1, <2>2 DEF Scripted, Script, Copied, Held
  <2> QED  BY <2>1, <2>3, <2>4 DEF MigrationInv
<1>3. ASSUME NEW r \in OldTier \cup OldFact, NEW row \in SUBSET Felled, NewPollWrites(r, row)
      PROVE  MigrationInv'
  <2>1. /\ r \in DOMAIN newRows => newRows[r] \subseteq row
        /\ newRows' = Putting(newRows, r, row)
        /\ UNCHANGED <<oldRows, configuredNew, migration, deletedRows>>
    BY <1>3 DEF NewPollWrites
  <2>2. \A x \in DOMAIN newRows : x \in DOMAIN newRows' /\ newRows[x] \subseteq newRows'[x]
    BY <2>1 DEF Putting
  <2> QED  BY <2>1, <2>2, NewRowsGrow
<1>4. ASSUME NEW apply \in BOOLEAN, NEW deleteOld \in BOOLEAN, QueriesRows(apply, deleteOld)
      PROVE  MigrationInv'
  <2> DEFINE m == [step |-> "copy", rows |-> oldRows, left |-> DOMAIN oldRows,
                   told |-> {}, deleteOld |-> deleteOld, ok |-> TRUE]
  <2>1. /\ migration' = IF oldRows = NoRows \/ ~apply \/ \E r \in DOMAIN oldRows : ~Classify(r)
                        THEN NoMigration ELSE m
        /\ UNCHANGED <<oldRows, newRows, configuredNew, deletedRows>>
    BY <1>4 DEF QueriesRows
  <2>2. NothingLost'  BY <2>1 DEF MigrationInv, NothingLost, StillThere
  <2>3. CASE migration' = NoMigration  BY <2>1, <2>2, <2>3 DEF MigrationInv
  <2>4. CASE migration' = m /\ \A r \in DOMAIN oldRows : Classify(r)
    <3>1. /\ Script(m) /\ m.step = "copy" /\ m.rows = oldRows /\ m.left = DOMAIN oldRows
      BY DEF Script
    <3>2. DOMAIN oldRows \subseteq OldTier \cup OldFact  BY <2>4 DEF Classify
    <3> HIDE DEF m
    <3>3. DOMAIN oldRows \cap Stranger = {}  BY <3>2, MigrationBounds
    <3>4. Scripted(migration)'
      BY <2>1, <2>4, <3>1, <3>2, <3>3 DEF Scripted
    <3> QED  BY <2>1, <2>2, <3>4 DEF MigrationInv
  <2> QED  BY <2>1, <2>3, <2>4
<1>5. CASE WritesConfig
  <2>1. /\ migration.step = "config" /\ configuredNew' = TRUE
        /\ UNCHANGED <<oldRows, newRows, deletedRows>>
    BY <1>5 DEF WritesConfig
  <2>2. Scripted(migration)  BY <2>1 DEF MigrationInv, NoMigration
  <2>3. PICK m : m = [migration EXCEPT !.step = "verify",
                                       !.left = OldTier \cap DOMAIN migration.rows]
    OBVIOUS
  <2>4. /\ Script(m) /\ m.rows = migration.rows /\ m.step = "verify"
        /\ m.left = OldTier \cap DOMAIN m.rows /\ m.told = migration.told
    BY <2>2, <2>3 DEF Scripted, Script
  <2>5. migration' = m  BY <1>5, <2>3 DEF WritesConfig
  <2>6. Scripted(migration)'
    BY <2>1, <2>2, <2>4, <2>5 DEF Scripted, Copied, Held
  <2>7. NothingLost'  BY <2>1 DEF MigrationInv, NothingLost, StillThere
  <2> QED  BY <2>1, <2>6, <2>7 DEF MigrationInv
<1>6. CASE AllCompared
  <2>1. /\ migration.step = "verify" /\ migration.left = {}
        /\ UNCHANGED <<oldRows, newRows, configuredNew, deletedRows>>
    BY <1>6 DEF AllCompared
  <2>2. Scripted(migration)  BY <2>1 DEF MigrationInv, NoMigration
  <2>3. NothingLost'  BY <2>1 DEF MigrationInv, NothingLost, StillThere
  <2>4. CASE migration' = NoMigration  BY <2>1, <2>3, <2>4 DEF MigrationInv
  <2>5. CASE /\ migration.ok
             /\ migration' = [migration EXCEPT !.step = "delete", !.left = DOMAIN migration.rows]
    <3>1. PICK m : m = [migration EXCEPT !.step = "delete", !.left = DOMAIN migration.rows]
      OBVIOUS
    <3>2. /\ Script(m) /\ m.rows = migration.rows /\ m.step = "delete"
          /\ m.left = DOMAIN m.rows /\ m.told = migration.told
      BY <2>2, <3>1 DEF Scripted, Script
    <3>3. migration' = m  BY <2>5, <3>1
    <3>4. \A r \in OldTier \cap DOMAIN m.rows : Held(m, r)
      BY <2>1, <2>2, <2>5, <3>2 DEF Scripted, Held
    <3>5. Scripted(migration)'
      BY <2>1, <2>2, <3>2, <3>3, <3>4 DEF Scripted, Copied, Held
    <3> QED  BY <2>1, <2>3, <3>5 DEF MigrationInv
  <2> QED  BY <1>6, <2>4, <2>5 DEF AllCompared
<1>7. CASE MigrationDies
  BY <1>7 DEF MigrationDies, MigrationInv, NothingLost, StillThere
<1> QED
  BY <1>1, <1>2, <1>3, <1>4, <1>5, <1>6, <1>7, CopyKeeps, VerifyKeeps, DeleteKeeps
     DEF MigrationNext

(* A tier's announced set goes only when the new layout has all that was   *)
(* read of it, another row also when the run that deletes it reported its  *)
(* target as there before; no row goes beside one nobody classified: for   *)
(* any tables, runs that die, and pollers of either layout that add to any *)
(* row (migrate-to-tenants.py).                                            *)
THEOREM NoRowLost == MigrationSafety => []NothingLost
<1>1. MigrationInv => NothingLost  BY DEF MigrationInv
<1> QED  BY <1>1, MigrationInitial, MigrationStep, PTL DEF MigrationSafety

-----------------------------------------------------------------------------
(* The posts whose removal is noticed *)

TrackedSafety == TrackedInit /\ [][TrackedNext]_trackVars

PostCheckIs(r) ==
  r = [step |-> r.step, read |-> r.read, found |-> r.found, prev |-> r.prev, mail |-> r.mail,
       kept |-> r.kept]

(* What a check found was deleted; the list it is about to put back has    *)
(* the other posts, but those recorded meanwhile.                          *)
CheckSound(r) ==
  /\ PostCheckIs(r) /\ r.step \in {"idle", "probe", "row", "write", "forget", "put"}
  /\ r.found # 0 => r.found \in removedPosts
  /\ r.step \in {"idle", "probe"} => r.found = 0
  /\ r.step \in {"forget", "put"} => r.found # 0
  /\ r.kept # {} => r.step = "put"
  /\ r.read # {} => r.step = "probe"
  /\ r.step = "put" =>
       /\ r.found \notin r.kept
       /\ \A m \in 1..postedNow : m \in racedPosts \cup droppedPosts \cup r.kept \cup {r.found}

(* A check that mailed a deletion has yet to drop it. *)
Dropping(m) ==
  \E c \in PostCheck : postChecks[c].step \in {"write", "forget", "put"} /\ postChecks[c].found = m

(* The post is off the list, and no check holds it. *)
LetGo(m) ==
  /\ m \notin trackedPosts
  /\ \A c \in PostCheck : m \notin postChecks[c].read \cup postChecks[c].kept
                          /\ postChecks[c].found # m

(* A deletion that was mailed is being dropped, or forgotten, or may be    *)
(* seen again.                                                             *)
MailedOnce ==
  \A m \in Messages :
    /\ deletionMails[m] \in Nat
    /\ deletionMails[m] > 0 => m \in removedPosts
    /\ deletionMails[m] > 0 => m \in repeatable \/ Dropping(m) \/ LetGo(m)
    /\ deletionMails[m] > 1 => m \in repeatable

TrackedInv ==
  /\ postedNow \in Nat /\ postedNow <= MaxPosted
  /\ removedPosts \subseteq 1..postedNow
  /\ DOMAIN postChecks = PostCheck /\ \A c \in PostCheck : CheckSound(postChecks[c])
  /\ DOMAIN deletionMails = Messages
  /\ MailedOnce
  /\ \A m \in 1..postedNow : m \in racedPosts \cup droppedPosts \cup trackedPosts

LEMMA TrackedInitial == TrackedInit => TrackedInv
<1> SUFFICES ASSUME TrackedInit PROVE TrackedInv
  OBVIOUS
<1>1. \A c \in PostCheck : CheckSound(postChecks[c])
  BY DEF TrackedInit, CheckSound, PostCheckIs, IdlePostCheck
<1>2. MailedOnce
  BY DEF TrackedInit, MailedOnce
<1>3. MaxPosted \in Nat  BY TrackBounds
<1> QED  BY <1>1, <1>2, <1>3 DEF TrackedInit, TrackedInv

LEMMA OthersStay ==
  ASSUME TrackedInv, NEW c \in PostCheck, NEW r, Goes(c, r)
  PROVE  /\ DOMAIN postChecks' = PostCheck /\ postChecks'[c] = r
         /\ \A d \in PostCheck : d # c => postChecks'[d] = postChecks[d]
  BY DEF TrackedInv, Goes

(* A check that goes on, or ends before it mailed anything, without        *)
(* touching the list.                                                      *)
LEMMA CheckGoesOn ==
  ASSUME TrackedInv, NEW c \in PostCheck, NEW r, Goes(c, r), CheckSound(r),
         r.read \subseteq postChecks[c].read \cup trackedPosts,
         r.kept \subseteq trackedPosts \cup postChecks[c].kept,
         r.found \in {0, postChecks[c].found} \cup postChecks[c].read,
         postChecks[c].step \in {"write", "forget", "put"} /\ postChecks[c].found # 0 =>
           r.step \in {"write", "forget", "put"} /\ r.found = postChecks[c].found,
         UNCHANGED <<inChannel, trackedPosts, mailed>>
  PROVE  TrackedInv'
<1>1. /\ DOMAIN postChecks' = PostCheck /\ postChecks'[c] = r
      /\ \A d \in PostCheck : d # c => postChecks'[d] = postChecks[d]
  BY OthersStay
<1>2. \A d \in PostCheck : CheckSound(postChecks[d])'
  BY <1>1 DEF TrackedInv, CheckSound, inChannel, mailed
<1>3. ASSUME NEW m \in Messages, m \in removedPosts PROVE Dropping(m) => Dropping(m)'
  <2>1. m # 0  BY DEF Messages
  <2> QED  BY <1>1, <2>1 DEF Dropping
<1>4. ASSUME NEW m \in Messages, LetGo(m) PROVE LetGo(m)'
  <2>1. m # 0  BY DEF Messages
  <2> QED  BY <1>1, <1>4, <2>1 DEF LetGo, mailed
<1>5. MailedOnce'
  BY <1>3, <1>4 DEF TrackedInv, MailedOnce, mailed, inChannel
<1> QED  BY <1>1, <1>2, <1>5 DEF TrackedInv, mailed, inChannel
LEMMA MailKeeps ==
  ASSUME TrackedInv, NEW c \in PostCheck, NEW sent \in BOOLEAN, MailsDeletion(c, sent)
  PROVE  TrackedInv'
<1> DEFINE f == postChecks[c].found
<1>1. PICK r : r = [postChecks[c] EXCEPT !.step = "write", !.prev = postHealth, !.mail = sent]
  OBVIOUS
<1>2. /\ postChecks[c].step = "row" /\ Goes(c, r)
      /\ deletionMails' = IF sent /\ f # 0 THEN [deletionMails EXCEPT ![f] = @ + 1]
                          ELSE deletionMails
      /\ repeatable' = IF sent /\ HeldElsewhere(c, f) THEN repeatable \cup {f} ELSE repeatable
      /\ UNCHANGED <<inChannel, trackedPosts, droppedPosts, racedPosts>>
  BY <1>1 DEF MailsDeletion
<1>3. CheckSound(postChecks[c])  BY DEF TrackedInv
<1>4. /\ PostCheckIs(r) /\ r.step = "write" /\ r.found = f
      /\ r.read = postChecks[c].read /\ r.kept = postChecks[c].kept
  BY <1>1, <1>3 DEF CheckSound, PostCheckIs
<1>5. /\ DOMAIN postChecks' = PostCheck /\ postChecks'[c] = r
      /\ \A d \in PostCheck : d # c => postChecks'[d] = postChecks[d]
  BY <1>2, OthersStay
<1>6. r.read = {} /\ r.kept = {} /\ (f # 0 => f \in removedPosts)
  BY <1>2, <1>3, <1>4 DEF CheckSound
<1>7. \A d \in PostCheck : CheckSound(postChecks[d])'
  <2>1. CheckSound(postChecks[c])'
    BY <1>2, <1>4, <1>5, <1>6 DEF CheckSound, inChannel
  <2> QED  BY <1>2, <1>5, <2>1 DEF TrackedInv, CheckSound, inChannel
<1>8. ASSUME NEW m \in Messages
      PROVE  /\ deletionMails'[m] \in Nat
             /\ deletionMails'[m] > 0 => m \in removedPosts'
             /\ deletionMails'[m] > 0 => m \in repeatable' \/ Dropping(m)' \/ LetGo(m)'
             /\ deletionMails'[m] > 1 => m \in repeatable'
  <2>1. /\ deletionMails[m] \in Nat
        /\ deletionMails[m] > 0 => m \in removedPosts
        /\ deletionMails[m] > 0 => m \in repeatable \/ Dropping(m) \/ LetGo(m)
        /\ deletionMails[m] > 1 => m \in repeatable
    BY DEF TrackedInv, MailedOnce
  <2>2. Dropping(m) => Dropping(m)'
    BY <1>2, <1>5 DEF Dropping
  <2>3. CASE m = f /\ sent
    <3>1. Dropping(m)'  BY <1>4, <1>5, <2>3 DEF Dropping
    <3>2. m # 0 /\ deletionMails'[m] = deletionMails[m] + 1
      BY <1>2, <2>3 DEF Messages, TrackedInv
    <3>3. ASSUME deletionMails[m] > 0 PROVE m \in repeatable'
      <4>1. CASE m \in repeatable  BY <1>2, <4>1
      <4>2. CASE Dropping(m)
        <5>1. HeldElsewhere(c, f)  BY <1>2, <2>3, <4>2 DEF Dropping, HeldElsewhere
        <5> QED  BY <1>2, <2>3, <5>1
      <4>3. CASE LetGo(m)  BY <2>3, <4>3 DEF LetGo
      <4> QED  BY <2>1, <3>3, <4>1, <4>2, <4>3
    <3> QED  BY <1>2, <1>6, <2>1, <2>3, <3>1, <3>2, <3>3 DEF inChannel
  <2>4. CASE ~(m = f /\ sent)
    <3>1. deletionMails'[m] = deletionMails[m]
      BY <1>2, <2>4 DEF TrackedInv
    <3>2. repeatable \subseteq repeatable'  BY <1>2
    <3>3. LetGo(m) => LetGo(m)'
      BY <1>2, <1>4, <1>5, <1>6 DEF LetGo
    <3> QED  BY <1>2, <2>1, <2>2, <3>1, <3>2, <3>3 DEF inChannel
  <2> QED  BY <2>3, <2>4
<1>9. DOMAIN deletionMails' = Messages
  BY <1>2 DEF TrackedInv
<1>10. MailedOnce'  BY <1>8 DEF MailedOnce
<1> QED  BY <1>2, <1>5, <1>7, <1>9, <1>10 DEF TrackedInv, inChannel

(* Whoever holds the message besides may see its deletion again. *)
LEMMA ForgetKeeps == ASSUME TrackedInv, NEW c \in PostCheck, ForgetPuts(c) PROVE TrackedInv'
<1> DEFINE f == postChecks[c].found
<1>1. /\ postChecks[c].step = "put" /\ trackedPosts' = postChecks[c].kept /\ Goes(c, IdlePostCheck)
      /\ droppedPosts' = droppedPosts \cup {f}
      /\ repeatable' = IF HeldElsewhere(c, f) THEN repeatable \cup {f} ELSE repeatable
      /\ UNCHANGED <<inChannel, deletionMails, racedPosts>>
  BY DEF ForgetPuts
<1>2. /\ f \notin postChecks[c].kept
      /\ \A m \in 1..postedNow : m \in racedPosts \cup droppedPosts \cup postChecks[c].kept \cup {f}
  BY <1>1 DEF TrackedInv, CheckSound
<1>3. /\ DOMAIN postChecks' = PostCheck /\ postChecks'[c] = IdlePostCheck
      /\ \A d \in PostCheck : d # c => postChecks'[d] = postChecks[d]
  BY <1>1, OthersStay
<1>4. CheckSound(IdlePostCheck)' /\ IdlePostCheck.read = {} /\ IdlePostCheck.kept = {}
      /\ IdlePostCheck.found = 0
  BY DEF CheckSound, PostCheckIs, IdlePostCheck
<1>5. \A d \in PostCheck : CheckSound(postChecks[d])'
  BY <1>1, <1>3, <1>4 DEF TrackedInv, CheckSound, inChannel
<1>6. ASSUME NEW m \in Messages, deletionMails[m] > 0
      PROVE  m \in repeatable' \/ Dropping(m)' \/ LetGo(m)'
  <2>1. /\ m # 0
        /\ m \in repeatable \/ Dropping(m) \/ LetGo(m)
    BY <1>6 DEF TrackedInv, MailedOnce, Messages
  <2>2. CASE m \in repeatable  BY <1>1, <2>2
  <2>3. CASE LetGo(m)
    BY <1>1, <1>3, <1>4, <2>1, <2>3 DEF LetGo, Messages
  <2>4. CASE Dropping(m) /\ m # f
    BY <1>3, <2>4 DEF Dropping
  <2>5. CASE m = f /\ ~HeldElsewhere(c, f)
    BY <1>1, <1>2, <1>3, <1>4, <2>5 DEF LetGo, HeldElsewhere, Messages
  <2>6. CASE m = f /\ HeldElsewhere(c, f)  BY <1>1, <2>6
  <2> QED  BY <2>1, <2>2, <2>3, <2>4, <2>5, <2>6
<1>7. MailedOnce'
  BY <1>1, <1>6 DEF TrackedInv, MailedOnce, inChannel
<1> QED  BY <1>1, <1>2, <1>3, <1>5, <1>7 DEF TrackedInv, inChannel
(* One more message, on the list or lost to it. *)
LEMMA RecordKeeps ==
  ASSUME TrackedInv, postedNow < MaxPosted, postedNow' = postedNow + 1,
         trackedPosts' \in {trackedPosts, trackedPosts \cup {postedNow'}},
         racedPosts' \in {racedPosts, racedPosts \cup {postedNow'}},
         \/ postedNow' \in racedPosts'
         \/ WritingBack = {} /\ postedNow' \in trackedPosts',
         UNCHANGED <<removedPosts, postChecks, deletionMails, droppedPosts, repeatable>>
  PROVE  TrackedInv'
<1>1. /\ postedNow' \in Nat /\ postedNow' <= MaxPosted /\ postedNow \in Nat
      /\ 1..postedNow' = 1..postedNow \cup {postedNow'} /\ postedNow' \notin 1..postedNow
  BY TrackBounds DEF TrackedInv
<1>2. racedPosts \subseteq racedPosts' /\ trackedPosts \subseteq trackedPosts'
  OBVIOUS
<1>3. ASSUME NEW c \in PostCheck PROVE CheckSound(postChecks[c])'
  <2>1. CheckSound(postChecks[c])  BY DEF TrackedInv
  <2>2. postChecks[c].step = "put" => postedNow' \in racedPosts'  BY DEF WritingBack
  <2> QED  BY <1>1, <1>2, <2>1, <2>2 DEF CheckSound, PostCheckIs
<1>4. MailedOnce'
  <2>1. \A m \in removedPosts : LetGo(m) => LetGo(m)'
    BY <1>1 DEF LetGo, TrackedInv
  <2>2. \A m : Dropping(m) => Dropping(m)'  BY DEF Dropping
  <2> QED  BY <2>1, <2>2 DEF TrackedInv, MailedOnce
<1> QED  BY <1>1, <1>2, <1>3, <1>4 DEF TrackedInv

LEMMA TrackedStep == TrackedInv /\ [TrackedNext]_trackVars => TrackedInv'
<1> SUFFICES ASSUME TrackedInv, [TrackedNext]_trackVars PROVE TrackedInv'
  OBVIOUS
<1>1. ASSUME UNCHANGED <<inChannel, trackedPosts, postChecks, mailed>> PROVE TrackedInv'
  BY <1>1 DEF inChannel, mailed, TrackedInv, MailedOnce, CheckSound, PostCheckIs, Dropping,
              LetGo
<1>2. CASE UNCHANGED trackVars  BY <1>1, <1>2 DEF trackVars, inChannel, mailed
<1>3. CASE RecordPost
  <2>1. /\ trackedPosts' = trackedPosts \cup {postedNow'}
        /\ racedPosts' = IF WritingBack = {} THEN racedPosts ELSE racedPosts \cup {postedNow'}
    BY <1>3 DEF RecordPost, AtTheEnd
  <2> QED  BY <1>3, <2>1, RecordKeeps DEF RecordPost
<1>4. CASE RecordFails
  BY <1>4, RecordKeeps DEF RecordFails
<1>5. CASE HoursGoBy  BY <1>1, <1>5 DEF HoursGoBy
<1>6. ASSUME NEW m \in Messages, ModeratorDeletes(m) PROVE TrackedInv'
  <2>1. /\ m \in 1..postedNow /\ removedPosts' = removedPosts \cup {m}
        /\ UNCHANGED <<postedNow, trackedPosts, postChecks, deletionMails, droppedPosts,
                       racedPosts, repeatable>>
    BY <1>6 DEF ModeratorDeletes, mailed, Messages, TrackedInv
  <2>2. \A c \in PostCheck : CheckSound(postChecks[c])'
    BY <2>1 DEF TrackedInv, CheckSound, PostCheckIs
  <2>3. MailedOnce'
    BY <2>1 DEF TrackedInv, MailedOnce, Dropping, LetGo
  <2> QED  BY <2>1, <2>2, <2>3 DEF TrackedInv
<1>7. \A c \in PostCheck : CheckSound(postChecks[c])  BY DEF TrackedInv
<1>8. ASSUME NEW c \in PostCheck, RecentPosts(c) PROVE TrackedInv'
  <2>1. PICK r : r = [IdlePostCheck EXCEPT !.step = "probe", !.read = NewestPosts]  OBVIOUS
  <2>2. /\ r.found = 0 /\ r.kept = {} /\ r.read = NewestPosts /\ r.step = "probe"
        /\ CheckSound(r) /\ NewestPosts \subseteq trackedPosts
    BY <2>1 DEF CheckSound, PostCheckIs, IdlePostCheck, NewestPosts
  <2>3. Goes(c, r) /\ UNCHANGED <<inChannel, trackedPosts, mailed>>
        /\ postChecks[c].step = "idle"
    BY <1>8, <2>1 DEF RecentPosts
  <2> QED  BY <2>2, <2>3, CheckGoesOn
<1>9. ASSUME NEW c \in PostCheck, ProbesPost(c) PROVE TrackedInv'
  <2>1. /\ postChecks[c].step = "probe" /\ UNCHANGED <<inChannel, trackedPosts, mailed>>
        /\ CheckSound(postChecks[c])
    BY <1>7, <1>9 DEF ProbesPost
  <2>2. CASE postChecks[c].read = {} /\ Goes(c, [postChecks[c] EXCEPT !.step = "row"])
    <3>1. PICK r : r = [postChecks[c] EXCEPT !.step = "row"]  OBVIOUS
    <3>2. /\ r.step = "row" /\ r.read = {} /\ r.found = postChecks[c].found
          /\ r.kept = postChecks[c].kept /\ PostCheckIs(r)
      BY <2>1, <2>2, <3>1 DEF CheckSound, PostCheckIs
    <3>3. CheckSound(r)  BY <2>1, <3>2 DEF CheckSound
    <3> QED  BY <2>1, <2>2, <3>1, <3>2, <3>3, CheckGoesOn
  <2>3. ASSUME NEW m \in postChecks[c].read, m \in removedPosts,
               Goes(c, [postChecks[c] EXCEPT !.step = "row", !.found = m, !.read = {}])
        PROVE  TrackedInv'
    <3>1. PICK r : r = [postChecks[c] EXCEPT !.step = "row", !.found = m, !.read = {}]  OBVIOUS
    <3>2. /\ r.step = "row" /\ r.read = {} /\ r.found = m
          /\ r.kept = postChecks[c].kept /\ PostCheckIs(r)
      BY <2>1, <3>1 DEF CheckSound, PostCheckIs
    <3>3. CheckSound(r)  BY <2>1, <2>3, <3>2 DEF CheckSound
    <3> QED  BY <2>1, <2>3, <3>1, <3>2, <3>3, CheckGoesOn
  <2>4. ASSUME NEW m \in postChecks[c].read,
               Goes(c, [postChecks[c] EXCEPT !.read = @ \ {m}])
        PROVE  TrackedInv'
    <3>1. PICK r : r = [postChecks[c] EXCEPT !.read = @ \ {m}]  OBVIOUS
    <3>2. /\ r.step = "probe" /\ r.read = postChecks[c].read \ {m}
          /\ r.found = postChecks[c].found /\ r.kept = postChecks[c].kept /\ PostCheckIs(r)
      BY <2>1, <3>1 DEF CheckSound, PostCheckIs
    <3>3. CheckSound(r)  BY <2>1, <3>2 DEF CheckSound
    <3> QED  BY <2>1, <2>4, <3>1, <3>2, <3>3, CheckGoesOn
  <2> QED  BY <1>9, <2>2, <2>3, <2>4 DEF ProbesPost
<1>10. IdlePostCheck.read = {} /\ IdlePostCheck.kept = {} /\ IdlePostCheck.found = 0
       /\ IdlePostCheck.step = "idle" /\ CheckSound(IdlePostCheck)
  BY DEF CheckSound, PostCheckIs, IdlePostCheck
<1>11. ASSUME NEW c \in PostCheck, ProbeUnanswered(c) PROVE TrackedInv'
  BY <1>10, <1>11, CheckGoesOn DEF ProbeUnanswered
<1>12. ASSUME NEW c \in PostCheck, StoresHealth(c) PROVE TrackedInv'
  <2>1. /\ postChecks[c].step = "write" /\ UNCHANGED <<inChannel, trackedPosts, mailed>>
        /\ CheckSound(postChecks[c])
    BY <1>7, <1>12 DEF StoresHealth
  <2>2. CASE postChecks[c].found = 0 /\ Goes(c, IdlePostCheck)
    BY <1>10, <2>1, <2>2, CheckGoesOn
  <2>3. CASE postChecks[c].found # 0 /\ Goes(c, [postChecks[c] EXCEPT !.step = "forget"])
    <3>1. PICK r : r = [postChecks[c] EXCEPT !.step = "forget"]  OBVIOUS
    <3>2. /\ r.step = "forget" /\ r.read = postChecks[c].read
          /\ r.found = postChecks[c].found /\ r.kept = postChecks[c].kept /\ PostCheckIs(r)
      BY <2>1, <3>1 DEF CheckSound, PostCheckIs
    <3>3. CheckSound(r)  BY <2>1, <2>3, <3>2 DEF CheckSound
    <3> QED  BY <2>1, <2>3, <3>1, <3>2, <3>3, CheckGoesOn
  <2> QED  BY <1>12, <2>2, <2>3 DEF StoresHealth
<1>13. ASSUME NEW c \in PostCheck, ForgetReads(c) PROVE TrackedInv'
  <2>1. /\ postChecks[c].step = "forget" /\ UNCHANGED <<inChannel, trackedPosts, mailed>>
        /\ CheckSound(postChecks[c])
    BY <1>7, <1>13 DEF ForgetReads
  <2>2. PICK r : r = [postChecks[c] EXCEPT !.step = "put", !.kept = TheOthers(postChecks[c].found)]
    OBVIOUS
  <2>3. /\ r.step = "put" /\ r.read = postChecks[c].read /\ r.found = postChecks[c].found
        /\ r.kept = trackedPosts \ {r.found} /\ PostCheckIs(r)
    BY <2>1, <2>2 DEF CheckSound, PostCheckIs, TheOthers
  <2>4. CheckSound(r)  BY <2>1, <2>3 DEF CheckSound, TrackedInv
  <2>5. Goes(c, r)  BY <1>13, <2>2 DEF ForgetReads
  <2> QED  BY <2>1, <2>3, <2>4, <2>5, CheckGoesOn
<1>14. ASSUME NEW c \in PostCheck, CheckEnds(c) PROVE TrackedInv'
  <2> DEFINE f == postChecks[c].found
  <2>1. /\ Goes(c, IdlePostCheck) /\ repeatable' = repeatable \cup ({f} \ {0})
        /\ UNCHANGED <<inChannel, trackedPosts, deletionMails, droppedPosts, racedPosts>>
    BY <1>14 DEF CheckEnds
  <2>2. /\ DOMAIN postChecks' = PostCheck /\ postChecks'[c] = IdlePostCheck
        /\ \A d \in PostCheck : d # c => postChecks'[d] = postChecks[d]
    BY <2>1, OthersStay
  <2>3. \A d \in PostCheck : CheckSound(postChecks[d])'
    <3>1. CheckSound(IdlePostCheck)'  BY DEF CheckSound, PostCheckIs, IdlePostCheck
    <3> QED  BY <2>1, <2>2, <3>1 DEF TrackedInv, CheckSound, inChannel
  <2>4. ASSUME NEW m \in Messages, deletionMails[m] > 0
        PROVE  m \in repeatable' \/ Dropping(m)' \/ LetGo(m)'
    <3>1. /\ m # 0
          /\ m \in repeatable \/ Dropping(m) \/ LetGo(m)
      BY <2>4 DEF TrackedInv, MailedOnce, Messages
    <3>2. CASE m \in repeatable \/ m = f  BY <2>1, <3>1, <3>2
    <3>3. CASE m # f /\ Dropping(m)  BY <2>2, <3>3 DEF Dropping
    <3>4. CASE LetGo(m)  BY <1>10, <2>1, <2>2, <3>1, <3>4 DEF LetGo
    <3> QED  BY <3>1, <3>2, <3>3, <3>4
  <2>5. MailedOnce'
    BY <2>1, <2>4 DEF TrackedInv, MailedOnce, inChannel
  <2> QED  BY <2>1, <2>2, <2>3, <2>5 DEF TrackedInv, inChannel
<1> QED
  BY <1>2, <1>3, <1>4, <1>5, <1>6, <1>8, <1>9, <1>11, <1>12, <1>13, <1>14, MailKeeps, ForgetKeeps
     DEF TrackedNext

(* A post is on the list until its own deletion is found, and its deletion *)
(* is mailed once, for any checks that overlap, fail and end (store.py:    *)
(* "the one outcome a health notification cannot survive").                *)
THEOREM PostsAreTracked == TrackedSafety => []PostsTracked
<1>1. TrackedInv => PostsTracked
  BY DEF TrackedInv, MailedOnce, PostsTracked
<1> QED  BY <1>1, TrackedInitial, TrackedStep, PTL DEF TrackedSafety

-----------------------------------------------------------------------------
(* The Great Vault's evidence *)

VaultSafety == VaultInit /\ [][VaultNext]_vaultVars

(* Keys end three minutes apart.                                           *)
KeysApart ==
  /\ keyRuns \subseteq KeyRun /\ IsFiniteSet(keyRuns) /\ Cardinality(keyRuns) <= MaxKeys
  /\ \A r \in keyRuns : r.at + 3 <= 3 * Cardinality(keyRuns)
  /\ \A r, s \in keyRuns : r = s \/ r.at + 3 <= s.at \/ s.at + 3 <= r.at

(* A record of a key: as it was, or by an uploader's clock a minute late.  *)
RecordOf(p, r, k) == r.level = k.level /\ (r.at = k.at \/ (p = "wcl" /\ r.at = k.at + 1))
RecordShown(p, r) == r \in KeyRun /\ \E k \in keyRuns : RecordOf(p, r, k)

(* Records of keys that were done, one of each.                            *)
SoundRuns(p, runs) ==
  /\ runs \subseteq KeyRun /\ \A r \in runs : RecordShown(p, r)
  /\ \A r, s \in runs : r.level = s.level => s.at # r.at + 1

SoundEvidence(e) ==
  e \in Evidence /\ \A p \in Provider : e[p] = NoEvidence \/ SoundRuns(p, e[p])

CollectorState ==
  [step : 0..4, at : {"off", "asks", "reads", "writes", "claims", "posts", "done"},
   obs : Evidence, seen : [version : Nat, evidence : Evidence], tries : 1..Reconciles]

(* A writer whose version is still the row's has read the row.             *)
WritersFresh ==
  \A c \in Collector : collecting[c].at = "writes" =>
    /\ collecting[c].seen.version <= history.version
    /\ collecting[c].seen.version = history.version => collecting[c].seen = history

(* The card is posted by whoever claimed the week.                         *)
CardOnce ==
  /\ ~vaultClaim => vaultCards = <<>> /\ \A c \in Collector : collecting[c].at # "posts"
  /\ \A c, d \in Collector : collecting[c].at = "posts" =>
       vaultCards = <<>> /\ (collecting[d].at = "posts" => c = d)
  /\ vaultCards = <<>> \/ \E p \in Provider, runs \in SUBSET KeyRun :
                            SoundRuns(p, runs) /\ vaultCards = <<runs>>

VaultInv ==
  /\ KeysApart
  /\ history \in [version : Nat, evidence : Evidence] /\ SoundEvidence(history.evidence)
  /\ collecting \in [Collector -> CollectorState]
  /\ \A c \in Collector : SoundEvidence(collecting[c].obs)
  /\ vaultFaults \in 0..MaxVaultFaults /\ vaultClaim \in BOOLEAN
  /\ acked \subseteq Provider \X KeyRun /\ \A seen \in acked : RecordShown(seen[1], seen[2])
  /\ WritersFresh /\ CardOnce /\ EvidenceKept

LEMMA RunShape ==
  ASSUME NEW r \in KeyRun
  PROVE  r = [at |-> r.at, level |-> r.level] /\ r.at \in Nat /\ r.level \in Nat
<1>1. KeyLevels \subseteq Nat  BY VaultBounds
<1>2. r = [at |-> r.at, level |-> r.level] /\ r.at \in 0..(KeyMinutes * MaxKeys + 1)
      /\ r.level \in KeyLevels
  BY DEF KeyRun
<1> QED  BY <1>1, <1>2

(* A record is of one key.                                                 *)
LEMMA OneKey ==
  ASSUME KeysApart, NEW p \in Provider, NEW r \in KeyRun, NEW s \in KeyRun,
         NEW k \in keyRuns, NEW l \in keyRuns, RecordOf(p, r, k), RecordOf(p, s, l),
         SameRun(p, r, s)
  PROVE  k = l
<1>1. k \in KeyRun /\ l \in KeyRun  BY DEF KeysApart
<1>2. /\ r.at \in Nat /\ s.at \in Nat /\ k.at \in Nat /\ l.at \in Nat
  BY <1>1, RunShape
<1>3. k = l \/ k.at + 3 <= l.at \/ l.at + 3 <= k.at  BY DEF KeysApart
<1> QED  BY <1>2, <1>3 DEF RecordOf, SameRun

(* Records of one completion are of one another.                           *)
LEMMA SameRunGoesOn ==
  ASSUME KeysApart, NEW p \in Provider, NEW r, NEW s, NEW t,
         RecordShown(p, r), RecordShown(p, s), RecordShown(p, t),
         SameRun(p, r, s), SameRun(p, s, t), r.level >= s.level, s.level >= t.level
  PROVE  SameRun(p, r, t) /\ r.level >= t.level
<1>1. PICK k \in keyRuns : RecordOf(p, r, k)  BY DEF RecordShown
<1>2. PICK l \in keyRuns : RecordOf(p, s, l)  BY DEF RecordShown
<1>3. PICK m \in keyRuns : RecordOf(p, t, m)  BY DEF RecordShown
<1>4. r \in KeyRun /\ s \in KeyRun /\ t \in KeyRun  BY DEF RecordShown
<1>5. k = l /\ l = m  BY <1>1, <1>2, <1>3, <1>4, OneKey
<1>6. k \in KeyRun  BY DEF KeysApart
<1>7. /\ r.at \in Nat /\ s.at \in Nat /\ t.at \in Nat /\ k.at \in Nat
      /\ r.level \in Nat /\ s.level \in Nat /\ t.level \in Nat
  BY <1>4, <1>6, RunShape
<1> QED  BY <1>1, <1>2, <1>3, <1>5, <1>7 DEF RecordOf, SameRun

(* merge_runs keeps one record of each completion there is a record of.    *)
Covers(p, kept, runs) ==
  \A r \in runs : \E k \in kept : SameRun(p, k, r) /\ k.level >= r.level

LEMMA KeptRecordsIs ==
  ASSUME KeysApart, NEW runs \in SUBSET KeyRun, \A r \in runs : RecordShown("wcl", r)
  PROVE  /\ KeptRecords(runs) \in SUBSET runs
         /\ \A r \in runs : r \in KeptRecords(runs)
              <=> ~\E k \in KeptRecords(runs) : k.level = r.level /\ k.at + 1 = r.at
<1> DEFINE Follows(k, r) == k.level = r.level /\ k.at + 1 = r.at
           first == {r \in runs : ~\E k \in runs : Follows(k, r)}
<1>1. ASSUME NEW j \in runs, NEW k \in runs, NEW r \in runs, Follows(j, k), Follows(k, r)
      PROVE  FALSE
  <2>1. PICK a \in keyRuns : RecordOf("wcl", j, a)  BY DEF RecordShown
  <2>2. PICK b \in keyRuns : RecordOf("wcl", k, b)  BY DEF RecordShown
  <2>3. PICK c \in keyRuns : RecordOf("wcl", r, c)  BY DEF RecordShown
  <2>4. a \in KeyRun /\ b \in KeyRun /\ c \in KeyRun  BY DEF KeysApart
  <2>5. /\ j.at \in Nat /\ k.at \in Nat /\ r.at \in Nat
        /\ a.at \in Nat /\ b.at \in Nat /\ c.at \in Nat
    BY <2>4, RunShape
  <2>6. /\ a = b \/ a.at + 3 <= b.at \/ b.at + 3 <= a.at
        /\ b = c \/ b.at + 3 <= c.at \/ c.at + 3 <= b.at
        /\ a = c \/ a.at + 3 <= c.at \/ c.at + 3 <= a.at
    BY DEF KeysApart
  <2> QED  BY <1>1, <2>1, <2>2, <2>3, <2>5, <2>6 DEF RecordOf
<1>2. first \in SUBSET runs  OBVIOUS
<1>3. \A r \in runs : r \in first <=> ~\E k \in first : Follows(k, r)
  BY <1>1
<1>4. \E kept \in SUBSET runs : \A r \in runs : r \in kept <=> ~\E k \in kept : Follows(k, r)
  BY <1>2, <1>3
<1> QED  BY <1>4 DEF KeptRecords

LEMMA MergeIsSound ==
  ASSUME KeysApart, NEW p \in Provider, NEW old, NEW new, SoundRuns(p, old), SoundRuns(p, new)
  PROVE  SoundRuns(p, MergedRuns(p, old, new)) /\ Covers(p, MergedRuns(p, old, new), old \cup new)
<1> DEFINE runs == old \cup new
<1>1. runs \subseteq KeyRun /\ \A r \in runs : RecordShown(p, r)  BY DEF SoundRuns
<1>2. CASE p = "wcl"
  <2> DEFINE kept == KeptRecords(runs)
  <2>1. MergedRuns(p, old, new) = kept  BY <1>2 DEF MergedRuns
  <2>2. /\ kept \in SUBSET runs
        /\ \A r \in runs : r \in kept <=> ~\E k \in kept : k.level = r.level /\ k.at + 1 = r.at
    BY <1>1, <1>2, KeptRecordsIs
  <2> HIDE DEF kept, runs
  <2>3. SoundRuns(p, kept)
    <3>1. \A r \in kept : r.at \in Nat  BY <1>1, <2>2, RunShape
    <3> QED  BY <1>1, <2>2, <3>1 DEF SoundRuns
  <2>4. Covers(p, kept, runs)
    <3> SUFFICES ASSUME NEW r \in runs PROVE \E k \in kept : SameRun(p, k, r) /\ k.level >= r.level
      BY DEF Covers
    <3>1. r.at \in Nat /\ r.level \in Nat  BY <1>1, RunShape
    <3>2. \A k \in kept : k.at \in Nat  BY <1>1, <2>2, RunShape
    <3> QED  BY <1>2, <2>2, <3>1, <3>2 DEF SameRun
  <2> QED  BY <2>1, <2>3, <2>4 DEF runs
<1>3. CASE p # "wcl"
  <2> HIDE DEF runs
  <2>1. ASSUME NEW r \in runs PROVE r \in keyRuns
    <3>1. PICK k \in keyRuns : RecordOf(p, r, k)  BY <1>1, <2>1 DEF RecordShown
    <3>2. k \in KeyRun /\ r \in KeyRun  BY <1>1, <2>1 DEF KeysApart
    <3> QED  BY <1>3, <3>1, <3>2, RunShape DEF RecordOf
  <2>2. ASSUME NEW r \in runs, NEW s \in runs, r.at = s.at PROVE r = s
    <3>1. r.at \in Nat  BY <1>1, RunShape
    <3> QED  BY <2>1, <2>2, <3>1 DEF KeysApart
  <2>3. ASSUME NEW r \in runs PROVE HighestAt(runs, r.at) = r
    <3>1. {s \in runs : s.at = r.at} = {r}  BY <2>2
    <3>2. {s.level : s \in {s \in runs : s.at = r.at}} = {r.level}  BY <3>1
    <3>3. r.level \in Nat /\ r = [at |-> r.at, level |-> r.level]  BY <1>1, RunShape
    <3>4. Max({r.level}) = r.level  BY <3>3 DEF Max
    <3> QED  BY <3>2, <3>3, <3>4 DEF HighestAt
  <2>4. MergedRuns(p, old, new) = {HighestAt(runs, r.at) : r \in runs}
    BY <1>3 DEF MergedRuns, runs
  <2>5. MergedRuns(p, old, new) = runs  BY <2>3, <2>4
  <2>6. SoundRuns(p, runs)
    <3>1. ASSUME NEW r \in runs, NEW s \in runs PROVE s.at # r.at + 1
      <4>1. r.at \in Nat /\ s.at \in Nat  BY <1>1, RunShape
      <4>2. r = s \/ r.at + 3 <= s.at \/ s.at + 3 <= r.at  BY <2>1 DEF KeysApart
      <4> QED  BY <4>1, <4>2
    <3> QED  BY <1>1, <3>1 DEF SoundRuns
  <2>7. Covers(p, runs, runs)
    <3>1. \A r \in runs : r.level \in Nat  BY <1>1, RunShape
    <3> QED  BY <1>3, <3>1 DEF Covers, SameRun
  <2> QED  BY <2>5, <2>6, <2>7 DEF runs
<1> QED  BY <1>2, <1>3

LEMMA AnyEvidence ==
  NoEvidence \in (SUBSET KeyRun) \cup {NoEvidence}
  OBVIOUS

(* What one row holds and another observed, together.                      *)
LEMMA CombinedIsSound ==
  ASSUME KeysApart, NEW old, NEW obs, SoundEvidence(old), SoundEvidence(obs)
  PROVE  /\ SoundEvidence(Combined(old, obs))
         /\ \A p \in Provider : Covers(p, Known(Combined(old, obs)[p]),
                                          Known(old[p]) \cup Known(obs[p]))
<1> DEFINE e == Combined(old, obs)
           merged(p) == MergedRuns(p, Known(old[p]), Known(obs[p]))
<1>1. ASSUME NEW p \in Provider
      PROVE  SoundRuns(p, Known(old[p])) /\ SoundRuns(p, Known(obs[p]))
  BY DEF SoundEvidence, Known, SoundRuns
<1>2. ASSUME NEW p \in Provider
      PROVE  /\ SoundRuns(p, merged(p))
             /\ Covers(p, merged(p), Known(old[p]) \cup Known(obs[p]))
  BY <1>1, MergeIsSound
<1>3. ASSUME NEW p \in Provider
      PROVE  e[p] = IF old[p] = NoEvidence /\ obs[p] = NoEvidence THEN NoEvidence ELSE merged(p)
  BY DEF Combined
<1>4. e = [p \in Provider |-> e[p]]  BY DEF Combined
<1> HIDE DEF e, merged
<1>5. ASSUME NEW p \in Provider
      PROVE  /\ e[p] \in (SUBSET KeyRun) \cup {NoEvidence}
             /\ e[p] = NoEvidence \/ SoundRuns(p, e[p])
             /\ Covers(p, Known(e[p]), Known(old[p]) \cup Known(obs[p]))
  <2>1. CASE old[p] = NoEvidence /\ obs[p] = NoEvidence
    <3>1. e[p] = NoEvidence /\ \A r : r \notin Known(old[p]) \cup Known(obs[p])
      BY <1>3, <2>1 DEF Known
    <3>2. Covers(p, Known(e[p]), Known(old[p]) \cup Known(obs[p]))  BY <3>1 DEF Covers
    <3>3. e[p] \in (SUBSET KeyRun) \cup {NoEvidence}  BY <3>1, AnyEvidence
    <3> QED  BY <3>1, <3>2, <3>3, Zenon
  <2>2. CASE ~(old[p] = NoEvidence /\ obs[p] = NoEvidence)
    <3>1. e[p] = merged(p) /\ merged(p) \in SUBSET KeyRun  BY <1>2, <1>3, <2>2 DEF SoundRuns
    <3>2. e[p] # NoEvidence  BY <3>1, VaultNames
    <3> QED  BY <1>2, <3>1, <3>2 DEF Known
  <2> QED  BY <2>1, <2>2
<1>6. e \in Evidence  BY <1>4, <1>5 DEF Evidence
<1> QED  BY <1>5, <1>6 DEF SoundEvidence, e

(* One record of each key is no more than there were keys.                 *)
LEMMA SoundIsNoMore ==
  ASSUME KeysApart, NEW p \in Provider, NEW runs, SoundRuns(p, runs)
  PROVE  NoMoreThanDone(runs)
<1> SUFFICES ASSUME NEW level \in KeyLevels
             PROVE  Cardinality({r \in runs : r.level >= level})
                      <= Cardinality({r \in keyRuns : r.level >= level})
  BY DEF NoMoreThanDone
<1> DEFINE S == {r \in runs : r.level >= level}
           T == {r \in keyRuns : r.level >= level}
           key == [r \in S |-> CHOOSE k \in keyRuns : RecordOf(p, r, k)]
<1>1. ASSUME NEW r \in S PROVE key[r] \in keyRuns /\ RecordOf(p, r, key[r])
  BY DEF SoundRuns, RecordShown
<1>2. ASSUME NEW r \in S PROVE key[r] \in T
  BY <1>1 DEF RecordOf
<1>3. ASSUME NEW r \in S, NEW s \in S, key[r] = key[s] PROVE r = s
  <2>1. RecordOf(p, r, key[r]) /\ RecordOf(p, s, key[r])  BY <1>1, <1>3
  <2>2. r \in KeyRun /\ s \in KeyRun /\ key[r] \in KeyRun
    BY <1>1 DEF SoundRuns, KeysApart
  <2>3. /\ r = [at |-> r.at, level |-> r.level] /\ s = [at |-> s.at, level |-> s.level]
        /\ r.at \in Nat /\ s.at \in Nat /\ key[r].at \in Nat
    BY <2>2, RunShape
  <2>4. r.level = s.level /\ s.at # r.at + 1 /\ r.at # s.at + 1
    BY <2>1 DEF RecordOf, SoundRuns
  <2> HIDE DEF key, S
  <2>5. r.at = s.at  BY <2>1, <2>3, <2>4 DEF RecordOf
  <2> QED  BY <2>3, <2>4, <2>5
<1>4. IsFiniteSet(T) /\ T \in SUBSET keyRuns  BY FS_Subset DEF KeysApart
<1>5. key \in [S -> T]  BY <1>2
<1> HIDE DEF key
<1>6. key \in Injection(S, T)  BY <1>3, <1>5 DEF Injection, IsInjective
<1> QED  BY <1>4, <1>6, FS_Injection

(* More keys done, and what was a record is one.                           *)
LEMMA MoreKeys ==
  ASSUME NEW p \in Provider, NEW runs, SoundRuns(p, runs), keyRuns \subseteq keyRuns'
  PROVE  SoundRuns(p, runs)'
  BY DEF SoundRuns, RecordShown, RecordOf, KeyRun

LEMMA MoreKeysEvidence ==
  ASSUME NEW e, SoundEvidence(e), keyRuns \subseteq keyRuns'
  PROVE  SoundEvidence(e)'
<1>1. \A p \in Provider : e[p] = NoEvidence \/ SoundRuns(p, e[p])'
  BY MoreKeys DEF SoundEvidence
<1> QED  BY <1>1 DEF SoundEvidence, Evidence, Provider, KeyRun

(* What a provider answers. *)
LEMMA AnswerIsSound ==
  ASSUME KeysApart, NEW p \in Provider, NEW runs \in Answer(p)
  PROVE  runs = NoEvidence \/ SoundRuns(p, runs)
<1>1. ASSUME NEW r \in keyRuns
      PROVE  r \in KeyRun /\ r.at \in Nat /\ r.level \in KeyLevels
             /\ r = [at |-> r.at, level |-> r.level] /\ RecordOf(p, r, r)
  <2>1. r \in KeyRun  BY DEF KeysApart
  <2> QED  BY <2>1, RunShape DEF KeyRun, RecordOf
<1>2. ASSUME NEW r \in keyRuns, NEW s \in keyRuns PROVE s.at # r.at + 1
  BY <1>1 DEF KeysApart
<1>3. ASSUME NEW some \in SUBSET keyRuns PROVE SoundRuns(p, some)
  BY <1>1, <1>2 DEF SoundRuns, RecordShown
<1>4. CASE p = "wcl" /\ runs = {[r EXCEPT !.at = @ + 1] : r \in keyRuns}
  <2>1. ASSUME NEW r \in keyRuns
        PROVE  [r EXCEPT !.at = @ + 1] = [at |-> r.at + 1, level |-> r.level]
    BY <1>1
  <2>2. ASSUME NEW r \in keyRuns PROVE r.at + 1 \in 0..(KeyMinutes * MaxKeys + 1)
    <3>1. r.at + 3 <= 3 * Cardinality(keyRuns) /\ Cardinality(keyRuns) <= MaxKeys
      BY DEF KeysApart
    <3>2. Cardinality(keyRuns) \in Nat /\ MaxKeys \in Nat /\ r.at \in Nat
      BY <1>1, VaultBounds, FS_CardinalityType DEF KeysApart
    <3> QED  BY <3>1, <3>2 DEF KeyMinutes
  <2>3. ASSUME NEW q \in runs
        PROVE  \E r \in keyRuns : q = [at |-> r.at + 1, level |-> r.level]
    BY <1>4, <2>1
  <2>4. ASSUME NEW q \in runs PROVE RecordShown(p, q)
    <3>1. PICK r \in keyRuns : q = [at |-> r.at + 1, level |-> r.level]  BY <2>3
    <3>2. q \in KeyRun  BY <1>1, <2>2, <3>1 DEF KeyRun
    <3> QED  BY <1>4, <3>1, <3>2 DEF RecordShown, RecordOf
  <2>5. ASSUME NEW q \in runs, NEW s \in runs PROVE s.at # q.at + 1
    <3>1. PICK r \in keyRuns : q = [at |-> r.at + 1, level |-> r.level]  BY <2>3
    <3>2. PICK t \in keyRuns : s = [at |-> t.at + 1, level |-> t.level]  BY <2>3
    <3> QED  BY <1>1, <1>2, <3>1, <3>2
  <2> QED  BY <2>4, <2>5 DEF SoundRuns, RecordShown
<1>5. CASE runs \in SUBSET keyRuns  BY <1>3, <1>5
<1>6. CASE runs = NoEvidence  BY <1>6
<1> QED  BY <1>4, <1>5, <1>6 DEF Answer, Listed

LEMMA NothingIsSound == SoundEvidence(NoHistory.evidence)
<1> DEFINE none == [p \in Provider |-> NoEvidence]
<1>1. NoHistory.evidence = none  BY DEF NoHistory
<1>2. \A p \in Provider : none[p] = NoEvidence  OBVIOUS
<1>3. none \in Evidence  BY AnyEvidence, Zenon DEF Evidence
<1> QED  BY <1>1, <1>2, <1>3, Zenon DEF SoundEvidence

LEMMA VaultInitial == VaultInit => VaultInv
<1> SUFFICES ASSUME VaultInit PROVE VaultInv
  OBVIOUS
<1>1. KeysApart
  <2>1. keyRuns = {}  BY DEF VaultInit
  <2>2. Cardinality(keyRuns) = 0 /\ IsFiniteSet(keyRuns)  BY <2>1, FS_EmptySet
  <2>3. MaxKeys \in Nat  BY VaultBounds
  <2> QED  BY <2>1, <2>2, <2>3 DEF KeysApart
<1>2. /\ NoHistory \in [version : Nat, evidence : Evidence]
      /\ NoHistory.evidence \in Evidence
  BY NothingIsSound DEF NoHistory, SoundEvidence
<1>3. NotCollecting \in CollectorState
  <2>1. Reconciles \in 1..Reconciles  BY VaultBounds
  <2> QED  BY <1>2, <2>1 DEF NotCollecting, CollectorState
<1>4. MaxVaultFaults \in Nat  BY VaultBounds
<1>5. \A c \in Collector : collecting[c] = NotCollecting  BY DEF VaultInit
<1>6. NotCollecting.at = "off" /\ NotCollecting.obs = NoHistory.evidence  BY DEF NotCollecting
<1>7. collecting \in [Collector -> CollectorState]  BY <1>3 DEF VaultInit
<1>8. WritersFresh /\ CardOnce  BY <1>5, <1>6 DEF VaultInit, WritersFresh, CardOnce
<1>9. EvidenceKept /\ acked = {}  BY DEF VaultInit, EvidenceKept
<1>10. /\ history = NoHistory /\ vaultFaults \in 0..MaxVaultFaults /\ vaultClaim = FALSE
  BY <1>4 DEF VaultInit
<1>11. \A c \in Collector : SoundEvidence(collecting[c].obs)
  BY <1>5, <1>6, NothingIsSound
<1>12. acked \subseteq Provider \X KeyRun /\ \A seen \in acked : RecordShown(seen[1], seen[2])
  BY <1>9
<1> QED
  BY <1>1, <1>2, <1>7, <1>8, <1>9, <1>10, <1>11, <1>12, NothingIsSound, Zenon DEF VaultInv

(* One invocation after another; the rest stand still.                     *)
LEMMA KeyKeeps ==
  ASSUME VaultInv, NEW level \in KeyLevels, CompletesKey(level)
  PROVE  VaultInv'
<1> DEFINE n == Cardinality(keyRuns)
           key == [at |-> 3 * n, level |-> level]
<1>1. n \in Nat /\ n < MaxKeys /\ MaxKeys \in Nat /\ keyRuns' = keyRuns \cup {key}
  BY VaultBounds, FS_CardinalityType DEF CompletesKey, VaultInv, KeysApart, KeyMinutes
<1>2. key \in KeyRun  BY <1>1 DEF KeyRun, KeyMinutes
<1>3. \A r \in keyRuns : r.at \in Nat /\ r.at + 3 <= 3 * n
  BY RunShape DEF VaultInv, KeysApart
<1>4. key \notin keyRuns  BY <1>1, <1>3
<1>5. IsFiniteSet(keyRuns') /\ Cardinality(keyRuns') = n + 1
  BY <1>1, <1>4, FS_AddElement DEF VaultInv, KeysApart
<1>6. KeysApart'
  <2>1. \A r \in keyRuns' : r = key \/ r \in keyRuns  BY <1>1
  <2>2. \A r \in keyRuns' : r.at + 3 <= 3 * (n + 1)  BY <1>1, <1>3, <2>1
  <2>3. \A r, s \in keyRuns' : r = s \/ r.at + 3 <= s.at \/ s.at + 3 <= r.at
    BY <1>1, <1>3, <2>1 DEF VaultInv, KeysApart
  <2>4. keyRuns' \subseteq KeyRun  BY <1>1, <1>2 DEF VaultInv, KeysApart
  <2>5. Cardinality(keyRuns') <= MaxKeys  BY <1>1, <1>5
  <2>6. \A r \in keyRuns' : r.at + 3 <= 3 * Cardinality(keyRuns')  BY <1>5, <2>2
  <2> QED  BY <1>5, <2>3, <2>4, <2>5, <2>6 DEF KeysApart
<1>7. keyRuns \subseteq keyRuns'  BY <1>1
<1>8. UNCHANGED <<history, collecting, vaultClaim, vaultCards, acked, vaultFaults>>
  BY DEF CompletesKey
<1>9. SoundEvidence(history.evidence)' /\ \A c \in Collector : SoundEvidence(collecting[c].obs)'
  BY <1>7, <1>8, MoreKeysEvidence DEF VaultInv
<1>10. acked' \subseteq Provider \X KeyRun /\ \A seen \in acked' : RecordShown(seen[1], seen[2])'
  BY <1>7, <1>8 DEF VaultInv, RecordShown, RecordOf
<1>11. CardOnce'
  <2>1. \A runs : \A p \in Provider : SoundRuns(p, runs) => SoundRuns(p, runs)'  BY <1>7, MoreKeys
  <2> QED  BY <1>8, <2>1 DEF VaultInv, CardOnce
<1>12. WritersFresh' /\ EvidenceKept'
  BY <1>8 DEF VaultInv, WritersFresh, EvidenceKept, SameRun, Known
<1>13. /\ history' \in [version : Nat, evidence : Evidence]
       /\ collecting' \in [Collector -> CollectorState]
       /\ vaultFaults' \in 0..MaxVaultFaults /\ vaultClaim' \in BOOLEAN
  BY <1>8 DEF VaultInv
<1> QED
  BY <1>6, <1>9, <1>10, <1>11, <1>12, <1>13 DEF VaultInv, KeyRun, CollectorState, Evidence, Provider

(* The card is as it was where nobody comes to post it.                    *)
LEMMA CardStands ==
  ASSUME VaultInv, NEW c \in Collector, NEW m, m.at # "posts",
         collecting' = [collecting EXCEPT ![c] = m],
         UNCHANGED <<keyRuns, vaultCards>>, vaultClaim => vaultClaim'
  PROVE  CardOnce'
<1>1. collecting'[c] = m /\ \A d \in Collector \ {c} : collecting'[d] = collecting[d]
  BY DEF VaultInv
<1>2. \A runs : \A p \in Provider : SoundRuns(p, runs) <=> SoundRuns(p, runs)'
  BY DEF SoundRuns, RecordShown, RecordOf
<1> QED  BY <1>1, <1>2 DEF VaultInv, CardOnce

(* An invocation that moves and writes nothing.                            *)
LEMMA CollectorMoves ==
  ASSUME VaultInv, NEW c \in Collector, NEW m, m \in CollectorState, SoundEvidence(m.obs),
         m.at = "writes" => m.seen = history,
         collecting' = [collecting EXCEPT ![c] = m],
         UNCHANGED <<keyRuns, history, acked>>, CardOnce',
         vaultFaults' \in 0..MaxVaultFaults, vaultClaim' \in BOOLEAN
  PROVE  VaultInv'
<1>1. /\ collecting' \in [Collector -> CollectorState]
      /\ collecting'[c] = m /\ \A d \in Collector \ {c} : collecting'[d] = collecting[d]
  BY DEF VaultInv
<1>2. \A d \in Collector : SoundEvidence(collecting[d].obs)'
  <2>1. \A e : SoundEvidence(e) <=> SoundEvidence(e)'
    BY DEF SoundEvidence, SoundRuns, RecordShown, RecordOf
  <2> QED  BY <1>1, <2>1 DEF VaultInv
<1>3. WritersFresh'
  <2>1. history.version \in Nat  BY DEF VaultInv
  <2> QED  BY <1>1, <2>1 DEF VaultInv, WritersFresh
<1>5. KeysApart' /\ EvidenceKept' /\ SoundEvidence(history.evidence)'
  BY DEF VaultInv, KeysApart, EvidenceKept, SoundEvidence, SoundRuns, RecordShown, RecordOf
<1>6. acked' \subseteq Provider \X KeyRun /\ \A seen \in acked' : RecordShown(seen[1], seen[2])'
  BY DEF VaultInv, RecordShown, RecordOf
<1>7. history' \in [version : Nat, evidence : Evidence]  BY DEF VaultInv
<1> QED  BY <1>1, <1>2, <1>3, <1>5, <1>6, <1>7 DEF VaultInv

(* A write of the version read: the row holds what it held and what was    *)
(* observed, and every other writer is behind.                             *)
LEMMA WriteLands ==
  ASSUME VaultInv, NEW c \in Collector, NEW m,
         collecting[c].at = "writes", Unchanged(c), Puts(c),
         m \in CollectorState, m.at \notin {"writes", "posts"},
         m.obs \in {collecting[c].obs, NoHistory.evidence, history'.evidence},
         collecting' = [collecting EXCEPT ![c] = m],
         acked' \subseteq acked \cup {pr \in Provider \X KeyRun :
                                        pr[2] \in Known(collecting[c].obs[pr[1]])},
         UNCHANGED <<keyRuns, vaultCards, vaultClaim>>, vaultFaults' \in 0..MaxVaultFaults
  PROVE  VaultInv'
<1> DEFINE old == history.evidence
           obs == collecting[c].obs
           new == Combined(old, obs)
<1>1. /\ collecting[c].seen = history /\ history.version \in Nat
      /\ history' = [version |-> history.version + 1, evidence |-> new]
  BY DEF Unchanged, Puts, VaultInv, WritersFresh
<1>2. SoundEvidence(old) /\ SoundEvidence(obs) /\ KeysApart  BY DEF VaultInv
<1>3. /\ SoundEvidence(new)
      /\ \A p \in Provider : Covers(p, Known(new[p]), Known(old[p]) \cup Known(obs[p]))
  BY <1>2, CombinedIsSound
<1> HIDE DEF old, obs, new
<1>4. \A e : SoundEvidence(e) <=> SoundEvidence(e)'
  BY DEF SoundEvidence, SoundRuns, RecordShown, RecordOf
<1>5. /\ collecting' \in [Collector -> CollectorState]
      /\ collecting'[c] = m /\ \A d \in Collector \ {c} : collecting'[d] = collecting[d]
  BY DEF VaultInv
<1>6. \A d \in Collector : SoundEvidence(collecting[d].obs)'
  <2>1. SoundEvidence(m.obs)  BY <1>1, <1>2, <1>3, NothingIsSound DEF obs
  <2> QED  BY <1>4, <1>5, <2>1 DEF VaultInv
<1>7. WritersFresh'
  <2>1. \A d \in Collector : collecting'[d].at = "writes" =>
          collecting'[d].seen.version \in Nat /\ collecting'[d].seen.version <= history.version
    BY <1>5 DEF VaultInv, WritersFresh, CollectorState
  <2> QED  BY <1>1, <2>1 DEF WritersFresh
<1>8. CardOnce'  BY CardStands
<1>9. ASSUME NEW p \in Provider, NEW r \in Known(old[p]) \cup Known(obs[p]) PROVE RecordShown(p, r)
  BY <1>2, <1>9 DEF SoundEvidence, SoundRuns, Known
<1>10. ASSUME NEW p \in Provider, NEW r \in Known(new[p]) PROVE RecordShown(p, r)
  BY <1>3, <1>10 DEF SoundEvidence, SoundRuns, Known
<1>11. ASSUME NEW seen \in acked'
       PROVE  /\ seen \in Provider \X KeyRun /\ RecordShown(seen[1], seen[2])
              /\ \E r \in Known(new[seen[1]]) :
                   SameRun(seen[1], r, seen[2]) /\ r.level >= seen[2].level
  <2>1. CASE seen \in acked
    <3>1. seen \in Provider \X KeyRun /\ RecordShown(seen[1], seen[2]) /\ seen[1] \in Provider
      BY <2>1 DEF VaultInv
    <3>2. PICK r \in Known(old[seen[1]]) : SameRun(seen[1], r, seen[2]) /\ r.level >= seen[2].level
      BY <2>1 DEF VaultInv, EvidenceKept, old
    <3>3. PICK k \in Known(new[seen[1]]) : SameRun(seen[1], k, r) /\ k.level >= r.level
      BY <1>3, <3>1 DEF Covers
    <3>4. RecordShown(seen[1], r) /\ RecordShown(seen[1], k)  BY <1>9, <1>10, <3>1
    <3> QED  BY <1>2, <3>1, <3>2, <3>3, <3>4, SameRunGoesOn
  <2>2. CASE seen \in Provider \X KeyRun /\ seen[2] \in Known(obs[seen[1]])
    <3>1. seen[1] \in Provider  BY <2>2
    <3> QED  BY <1>3, <1>9, <2>2, <3>1 DEF Covers
  <2> QED  BY <2>1, <2>2 DEF obs
<1>12. EvidenceKept'  BY <1>1, <1>11 DEF EvidenceKept, SameRun, Known
<1>13. acked' \subseteq Provider \X KeyRun /\ \A seen \in acked' : RecordShown(seen[1], seen[2])'
  BY <1>11 DEF RecordShown, RecordOf
<1>14. history' \in [version : Nat, evidence : Evidence] /\ SoundEvidence(history.evidence)'
  BY <1>1, <1>3, <1>4 DEF SoundEvidence
<1>15. KeysApart'  BY DEF VaultInv, KeysApart
<1> QED  BY <1>5, <1>6, <1>7, <1>8, <1>12, <1>13, <1>14, <1>15 DEF VaultInv

LEMMA Observes ==
  ASSUME NEW e, SoundEvidence(e), NEW p \in Provider, NEW runs,
         runs = NoEvidence \/ SoundRuns(p, runs)
  PROVE  SoundEvidence([e EXCEPT ![p] = runs])
<1> DEFINE f == [e EXCEPT ![p] = runs]
<1>1. runs \in (SUBSET KeyRun) \cup {NoEvidence}  BY DEF SoundRuns
<1>2. f \in Evidence /\ f[p] = runs /\ \A q \in Provider \ {p} : f[q] = e[q]
  BY <1>1 DEF SoundEvidence, Evidence
<1> QED  BY <1>2 DEF SoundEvidence

(* Two answers of BlizzardKeeps's are one. *)
LEMMA AnswersTogether ==
  ASSUME KeysApart, NEW p \in Provider, p # "wcl", NEW old, NEW new,
         SoundRuns(p, old), SoundRuns(p, new)
  PROVE  SoundRuns(p, old \cup new)
<1>1. ASSUME NEW r \in old \cup new PROVE RecordShown(p, r) /\ r \in KeyRun
  BY DEF SoundRuns
<1>2. ASSUME NEW r \in old \cup new, NEW s \in old \cup new PROVE s.at # r.at + 1
  <2>1. PICK k \in keyRuns : r.at = k.at  BY <1>1 DEF RecordShown, RecordOf
  <2>2. PICK l \in keyRuns : s.at = l.at  BY <1>1 DEF RecordShown, RecordOf
  <2>3. k.at \in Nat /\ l.at \in Nat  BY RunShape DEF KeysApart
  <2>4. k = l \/ k.at + 3 <= l.at \/ l.at + 3 <= k.at  BY DEF KeysApart
  <2> QED  BY <2>1, <2>2, <2>3, <2>4
<1> QED  BY <1>1, <1>2 DEF SoundRuns

Collects(r) ==
  /\ r = [step |-> r.step, at |-> r.at, obs |-> r.obs, seen |-> r.seen, tries |-> r.tries]
  /\ r.step \in 0..4 /\ r.obs \in Evidence /\ r.tries \in 1..Reconciles
  /\ r.seen \in [version : Nat, evidence : Evidence]

LEMMA CollectorShape ==
  ASSUME VaultInv, NEW c \in Collector
  PROVE  Collects(collecting[c]) /\ SoundEvidence(collecting[c].obs)
<1>1. collecting[c] \in CollectorState /\ SoundEvidence(collecting[c].obs)  BY DEF VaultInv
<1> QED  BY <1>1 DEF CollectorState, Collects

LEMMA FirstStates ==
  /\ NotCollecting = [step |-> 0, at |-> "off", obs |-> NoHistory.evidence, seen |-> NoHistory,
                      tries |-> Reconciles]
  /\ NoHistory \in [version : Nat, evidence : Evidence]
  /\ Reconciles \in 1..Reconciles
<1>1. Reconciles \in 1..Reconciles  BY VaultBounds
<1>2. NoHistory.evidence \in Evidence  BY NothingIsSound DEF SoundEvidence
<1> QED  BY <1>1, <1>2 DEF NoHistory, NotCollecting

LEMMA StartKeeps ==
  ASSUME VaultInv, NEW c \in Collector, CollectorStarts(c)
  PROVE  VaultInv'
<1>1. PICK runs \in Answer("rio") :
        /\ Answers("rio", runs)
        /\ collecting' = [collecting EXCEPT ![c] =
             [NotCollecting EXCEPT !.obs["rio"] = runs,
                                   !.step = IF c \in Tuesday THEN 4 ELSE 1,
                                   !.at = IF c \in Tuesday THEN "asks" ELSE "reads"]]
  BY DEF CollectorStarts
<1>2. PICK m : m = [NotCollecting EXCEPT !.obs["rio"] = runs,
                                         !.step = IF c \in Tuesday THEN 4 ELSE 1,
                                         !.at = IF c \in Tuesday THEN "asks" ELSE "reads"]
  OBVIOUS
<1>3. m = [step |-> IF c \in Tuesday THEN 4 ELSE 1,
           at |-> IF c \in Tuesday THEN "asks" ELSE "reads",
           obs |-> [NoHistory.evidence EXCEPT !["rio"] = runs], seen |-> NoHistory,
           tries |-> Reconciles]
  BY <1>2, FirstStates
<1>4. SoundEvidence(m.obs)
  <2>1. runs = NoEvidence \/ SoundRuns("rio", runs)
    BY AnswerIsSound DEF VaultInv, Provider
  <2> QED  BY <1>3, <2>1, NothingIsSound, Observes DEF Provider
<1>5. m \in CollectorState
  BY <1>3, <1>4, FirstStates DEF CollectorState, SoundEvidence
<1>6. vaultFaults' \in 0..MaxVaultFaults
  BY <1>1, VaultBounds DEF Answers, VaultInv
<1>7. /\ UNCHANGED <<keyRuns, history, vaultClaim, vaultCards, acked>>
      /\ collecting' = [collecting EXCEPT ![c] = m]
  BY <1>1, <1>2 DEF CollectorStarts
<1>8. m.at # "posts" /\ m.at # "writes"  BY <1>3
<1>9. CardOnce'  BY <1>7, <1>8, CardStands
<1> QED  BY <1>4, <1>5, <1>6, <1>7, <1>8, <1>9, CollectorMoves DEF VaultInv

LEMMA BlizzardKeeps ==
  ASSUME VaultInv, NEW c \in Collector, AsksBlizzard(c)
  PROVE  VaultInv'
<1> DEFINE this == collecting[c]
           known == this.obs["blizzard"]
           both(runs) == IF known = NoEvidence /\ runs = NoEvidence THEN NoEvidence
                         ELSE Known(known) \cup Known(runs)
<1>0. Collects(this)  BY CollectorShape
<1>1. PICK runs \in Answer("blizzard") :
        /\ Answers("blizzard", runs)
        /\ collecting' = [collecting EXCEPT ![c].obs["blizzard"] = both(runs), ![c].at = "reads"]
  BY DEF AsksBlizzard
<1>2. PICK m : m = [this EXCEPT !.obs["blizzard"] = both(runs), !.at = "reads"]
  OBVIOUS
<1>3. m = [step |-> this.step, at |-> "reads",
           obs |-> [this.obs EXCEPT !["blizzard"] = both(runs)],
           seen |-> this.seen, tries |-> this.tries]
  BY <1>0, <1>2 DEF Collects
<1>4. SoundEvidence(m.obs)
  <2>1. KeysApart /\ SoundEvidence(this.obs) /\ "blizzard" \in Provider
    BY DEF VaultInv, Provider
  <2>2. SoundRuns("blizzard", Known(known)) /\ SoundRuns("blizzard", Known(runs))
    BY <2>1, AnswerIsSound DEF SoundEvidence, Known, SoundRuns
  <2>3. both(runs) = NoEvidence \/ SoundRuns("blizzard", both(runs))
    BY <2>1, <2>2, AnswersTogether
  <2> HIDE DEF both
  <2> QED  BY <1>3, <2>1, <2>3, Observes
<1>5. m \in CollectorState
  BY <1>0, <1>3, <1>4 DEF Collects, CollectorState, SoundEvidence
<1>6. vaultFaults' \in 0..MaxVaultFaults
  BY <1>1, VaultBounds DEF Answers, VaultInv
<1>7. /\ UNCHANGED <<keyRuns, history, vaultClaim, vaultCards, acked>>
      /\ collecting' = [collecting EXCEPT ![c] = m]
  BY <1>1, <1>2 DEF AsksBlizzard
<1>8. m.at # "posts" /\ m.at # "writes"  BY <1>3
<1>9. CardOnce'  BY <1>7, <1>8, CardStands
<1> QED  BY <1>4, <1>5, <1>6, <1>7, <1>8, <1>9, CollectorMoves DEF VaultInv

LEMMA LogsKeep ==
  ASSUME VaultInv, NEW c \in Collector, AsksLogs(c)
  PROVE  VaultInv'
<1> DEFINE this == collecting[c]
           obs(runs) == [this.obs EXCEPT !["wcl"] = runs]
           step == IF c \in Tuesday THEN 2 ELSE 4
           at(runs) == IF c \in Tuesday THEN "asks"
                       ELSE IF \A p \in Provider : obs(runs)[p] = NoEvidence THEN "done"
                       ELSE "reads"
<1>0. Collects(this)  BY CollectorShape
<1>1. PICK runs \in Answer("wcl") :
        /\ Answers("wcl", runs)
        /\ collecting' = [collecting EXCEPT ![c].obs = obs(runs), ![c].step = step,
                                            ![c].at = at(runs)]
  BY DEF AsksLogs
<1>2. PICK o : o = obs(runs)  OBVIOUS
<1>3. PICK a : a = at(runs)  OBVIOUS
<1>4. PICK n : n = step  OBVIOUS
<1>5. a \in {"asks", "done", "reads"} /\ n \in {2, 4}  BY <1>3, <1>4
<1>6. SoundEvidence(o)
  <2>1. KeysApart /\ SoundEvidence(this.obs) /\ "wcl" \in Provider
    BY DEF VaultInv, Provider
  <2>2. runs = NoEvidence \/ SoundRuns("wcl", runs)  BY <2>1, AnswerIsSound
  <2> QED  BY <1>2, <2>1, <2>2, Observes
<1>7. collecting' = [collecting EXCEPT ![c].obs = o, ![c].step = n, ![c].at = a]
  BY <1>1, <1>2, <1>3, <1>4
<1> HIDE DEF obs, at, step
<1>8. PICK m : m = [this EXCEPT !.obs = o, !.step = n, !.at = a]  OBVIOUS
<1>9. m = [step |-> n, at |-> a, obs |-> o, seen |-> this.seen, tries |-> this.tries]
  BY <1>0, <1>8 DEF Collects
<1>10. vaultFaults' \in 0..MaxVaultFaults
  BY <1>1, VaultBounds DEF Answers, VaultInv
<1>11. /\ UNCHANGED <<keyRuns, history, vaultClaim, vaultCards, acked>>
       /\ collecting' = [collecting EXCEPT ![c] = m]
  BY <1>7, <1>8 DEF AsksLogs
<1>12. m \in CollectorState /\ m.obs = o /\ m.at # "posts" /\ m.at # "writes"
  BY <1>0, <1>5, <1>6, <1>9 DEF Collects, CollectorState, SoundEvidence
<1>13. CardOnce'  BY <1>11, <1>12, CardStands
<1> QED  BY <1>6, <1>10, <1>11, <1>12, <1>13, CollectorMoves DEF VaultInv

LEMMA ReadKeeps ==
  ASSUME VaultInv, NEW c \in Collector, ReadsHistory(c)
  PROVE  VaultInv'
<1> DEFINE this == collecting[c]
<1>0. Collects(this)  BY CollectorShape
<1>1. PICK m : m = [this EXCEPT !.seen = history, !.at = "writes"]  OBVIOUS
<1>2. m = [step |-> this.step, at |-> "writes", obs |-> this.obs, seen |-> history,
           tries |-> this.tries]
  BY <1>0, <1>1 DEF Collects
<1>3. collecting' = [collecting EXCEPT ![c] = m]  BY <1>1 DEF ReadsHistory
<1>4. m \in CollectorState /\ SoundEvidence(m.obs) /\ m.seen = history /\ m.at # "posts"
  BY <1>0, <1>2, CollectorShape DEF Collects, CollectorState, VaultInv
<1>5. UNCHANGED <<keyRuns, history, vaultClaim, vaultCards, acked, vaultFaults>>
  BY DEF ReadsHistory
<1>6. CardOnce'  BY <1>3, <1>4, <1>5, CardStands
<1> QED  BY <1>3, <1>4, <1>5, <1>6, CollectorMoves DEF VaultInv

(* What an invocation is when it ends, or is on to what comes next.        *)
LEMMA EndIs ==
  ASSUME VaultInv, NEW c \in Collector, CollectorEnds(c)
  PROVE  \E m \in CollectorState : /\ collecting' = [collecting EXCEPT ![c] = m]
                                   /\ m.at = "done" /\ m.obs = NoHistory.evidence
<1>1. PICK m : m = [NotCollecting EXCEPT !.at = "done"]  OBVIOUS
<1>2. m = [step |-> 0, at |-> "done", obs |-> NoHistory.evidence, seen |-> NoHistory,
           tries |-> Reconciles]
  BY <1>1, FirstStates
<1>3. m \in CollectorState
  BY <1>2, FirstStates, NothingIsSound DEF CollectorState, SoundEvidence
<1>4. collecting' = [collecting EXCEPT ![c] = m]  BY <1>1, Zenon DEF CollectorEnds
<1> QED  BY <1>2, <1>3, <1>4

LEMMA NextIs ==
  ASSUME VaultInv, NEW c \in Collector, NEW step \in 0..4, NEW at \in {"asks", "reads"},
         collecting' = [collecting EXCEPT ![c].step = step, ![c].at = at, ![c].tries = Reconciles,
                                          ![c].seen = NoHistory]
  PROVE  \E m \in CollectorState : /\ collecting' = [collecting EXCEPT ![c] = m]
                                   /\ m.at = at /\ m.obs = collecting[c].obs
<1> DEFINE this == collecting[c]
<1>0. Collects(this)  BY CollectorShape
<1>1. PICK m : m = [this EXCEPT !.step = step, !.at = at, !.tries = Reconciles, !.seen = NoHistory]
  OBVIOUS
<1>2. m = [step |-> step, at |-> at, obs |-> this.obs, seen |-> NoHistory, tries |-> Reconciles]
  BY <1>0, <1>1 DEF Collects
<1>3. m \in CollectorState
  BY <1>0, <1>2, FirstStates DEF Collects, CollectorState
<1> QED  BY <1>1, <1>2, <1>3

LEMMA RaiseIs ==
  ASSUME VaultInv, NEW c \in Collector, SaveRaises(c)
  PROVE  \E m \in CollectorState :
           /\ collecting' = [collecting EXCEPT ![c] = m]
           /\ m.at \in {"reads", "done"} /\ m.obs \in {collecting[c].obs, NoHistory.evidence}
<1>1. CASE c \in Hourly /\ collecting[c].step = 2
  <2>1. collecting' = [collecting EXCEPT ![c].step = 3, ![c].at = "reads", ![c].tries = Reconciles,
                                         ![c].seen = NoHistory]
    BY <1>1 DEF SaveRaises
  <2>2. \E m \in CollectorState : /\ collecting' = [collecting EXCEPT ![c] = m]
                                  /\ m.at = "reads" /\ m.obs = collecting[c].obs
    <3>1. 3 \in 0..4 /\ "reads" \in {"asks", "reads"}  OBVIOUS
    <3> QED  BY <2>1, <3>1, NextIs, Zenon
  <2> QED  BY <2>2
<1>2. CASE ~(c \in Hourly /\ collecting[c].step = 2)
  BY <1>2, EndIs DEF SaveRaises
<1> QED  BY <1>1, <1>2

LEMMA AfterIs ==
  ASSUME VaultInv, NEW c \in Collector, AfterSave(c), SoundEvidence(history'.evidence)
  PROVE  \E m \in CollectorState :
           /\ collecting' = [collecting EXCEPT ![c] = m]
           /\ m.at \in {"asks", "done", "claims"}
           /\ m.obs \in {collecting[c].obs, NoHistory.evidence, history'.evidence}
<1> DEFINE this == collecting[c]
<1>0. Collects(this)  BY CollectorShape
<1>1. CASE c \in Tuesday
  <2>1. PICK m : m = [this EXCEPT !.at = "claims", !.obs = history'.evidence, !.seen = NoHistory]
    OBVIOUS
  <2>2. m = [step |-> this.step, at |-> "claims", obs |-> history'.evidence, seen |-> NoHistory,
             tries |-> this.tries]
    BY <1>0, <2>1 DEF Collects
  <2>3. m \in CollectorState
    BY <1>0, <2>2, FirstStates DEF Collects, CollectorState, SoundEvidence
  <2> QED  BY <1>1, <2>1, <2>2, <2>3 DEF AfterSave
<1>2. CASE c \notin Tuesday /\ this.step = 4
  BY <1>2, EndIs DEF AfterSave
<1>3. CASE c \notin Tuesday /\ this.step # 4
  <2>1. this.step + 1 \in 0..4  BY <1>0, <1>3 DEF Collects
  <2>2. collecting' = [collecting EXCEPT ![c].step = this.step + 1, ![c].at = "asks",
                                         ![c].tries = Reconciles, ![c].seen = NoHistory]
    BY <1>3 DEF AfterSave, NextStep
  <2> QED  BY <2>1, <2>2, NextIs
<1> QED  BY <1>1, <1>2, <1>3

LEMMA EvidenceSaveKeeps ==
  ASSUME VaultInv, NEW c \in Collector, SavesEvidence(c)
  PROVE  VaultInv'
<1>1. /\ collecting[c].at = "writes" /\ Unchanged(c) /\ Puts(c) /\ AfterSave(c)
      /\ UNCHANGED <<keyRuns, vaultClaim, vaultCards, vaultFaults>>
      /\ acked' = acked \cup {pr \in Provider \X KeyRun :
                                pr[2] \in Known(collecting[c].obs[pr[1]])}
  BY DEF SavesEvidence
<1>2. SoundEvidence(history'.evidence)
  <2>1. collecting[c].seen = history  BY <1>1 DEF Unchanged, VaultInv, WritersFresh
  <2>2. history'.evidence = Combined(history.evidence, collecting[c].obs)  BY <1>1, <2>1 DEF Puts
  <2>3. SoundEvidence(history.evidence) /\ SoundEvidence(collecting[c].obs) /\ KeysApart
    BY DEF VaultInv
  <2> QED  BY <2>2, <2>3, CombinedIsSound
<1>3. PICK m \in CollectorState :
        /\ collecting' = [collecting EXCEPT ![c] = m]
        /\ m.at \in {"asks", "done", "claims"}
        /\ m.obs \in {collecting[c].obs, NoHistory.evidence, history'.evidence}
  BY <1>1, <1>2, AfterIs
<1>4. m.at \notin {"writes", "posts"} /\ vaultFaults' \in 0..MaxVaultFaults
  BY <1>1, <1>3 DEF VaultInv
<1> QED  BY <1>1, <1>3, <1>4, WriteLands

LEMMA RefusalKeeps ==
  ASSUME VaultInv, NEW c \in Collector, WriteRefused(c)
  PROVE  VaultInv'
<1> DEFINE this == collecting[c]
<1>0. Collects(this) /\ SoundEvidence(this.obs)  BY CollectorShape
<1>1. UNCHANGED <<keyRuns, history, vaultClaim, vaultCards, acked, vaultFaults>>
  BY DEF WriteRefused
<1>2. \E m \in CollectorState : /\ collecting' = [collecting EXCEPT ![c] = m]
                                /\ m.at \in {"reads", "done"}
                                /\ m.obs \in {this.obs, NoHistory.evidence}
  <2>1. CASE this.tries > 1
    <3>1. PICK n : n = this.tries - 1  OBVIOUS
    <3>2. n \in 1..Reconciles  BY <1>0, <2>1, <3>1, VaultBounds DEF Collects
    <3>3. collecting' = [collecting EXCEPT ![c].tries = n, ![c].at = "reads",
                                           ![c].seen = NoHistory]
      BY <2>1, <3>1 DEF WriteRefused
    <3>4. PICK m : m = [this EXCEPT !.tries = n, !.at = "reads", !.seen = NoHistory]
      OBVIOUS
    <3>5. m = [step |-> this.step, at |-> "reads", obs |-> this.obs, seen |-> NoHistory,
               tries |-> n]
      BY <1>0, <3>4 DEF Collects
    <3>6. m \in CollectorState
      BY <1>0, <3>2, <3>5, FirstStates DEF Collects, CollectorState
    <3> QED  BY <3>3, <3>4, <3>5, <3>6
  <2>2. CASE ~(this.tries > 1)
    <3>1. SaveRaises(c)  BY <2>2 DEF WriteRefused
    <3> QED  BY <3>1, RaiseIs
  <2> QED  BY <2>1, <2>2
<1>3. PICK m \in CollectorState : /\ collecting' = [collecting EXCEPT ![c] = m]
                                  /\ m.at \in {"reads", "done"}
                                  /\ m.obs \in {this.obs, NoHistory.evidence}
  BY <1>2
<1>4. SoundEvidence(m.obs) /\ m.at # "posts" /\ m.at # "writes"
  BY <1>0, <1>3, NothingIsSound
<1>5. CardOnce'  BY <1>1, <1>3, <1>4, CardStands
<1> QED  BY <1>1, <1>3, <1>4, <1>5, CollectorMoves DEF VaultInv

LEMMA FailureKeeps ==
  ASSUME VaultInv, NEW c \in Collector, WriteFails(c)
  PROVE  VaultInv'
<1>1. /\ collecting[c].at = "writes" /\ SaveRaises(c)
      /\ UNCHANGED <<keyRuns, vaultClaim, vaultCards, acked>>
      /\ (Unchanged(c) /\ Puts(c)) \/ UNCHANGED history
      /\ vaultFaults' \in 0..MaxVaultFaults
  BY VaultBounds DEF WriteFails, VaultInv
<1>2. PICK m \in CollectorState :
        /\ collecting' = [collecting EXCEPT ![c] = m]
        /\ m.at \in {"reads", "done"} /\ m.obs \in {collecting[c].obs, NoHistory.evidence}
  BY <1>1, RaiseIs
<1>3. m.at # "posts" /\ m.at # "writes"  BY <1>2
<1>4. CASE Unchanged(c) /\ Puts(c)
  BY <1>1, <1>2, <1>3, <1>4, WriteLands
<1>5. CASE UNCHANGED history
  <2>1. SoundEvidence(m.obs)  BY <1>2, CollectorShape, NothingIsSound
  <2>2. CardOnce'  BY <1>1, <1>2, <1>3, CardStands
  <2> QED  BY <1>1, <1>2, <1>3, <1>5, <2>1, <2>2, CollectorMoves DEF VaultInv
<1> QED  BY <1>1, <1>4, <1>5

LEMMA DeathKeeps ==
  ASSUME VaultInv, NEW c \in Collector, VaultDies(c)
  PROVE  VaultInv'
<1>1. /\ CollectorEnds(c) /\ UNCHANGED <<keyRuns, history, vaultClaim, vaultCards, acked>>
      /\ vaultFaults' \in 0..MaxVaultFaults
  BY VaultBounds DEF VaultDies, VaultInv
<1>2. PICK m \in CollectorState : /\ collecting' = [collecting EXCEPT ![c] = m]
                                  /\ m.at = "done" /\ m.obs = NoHistory.evidence
  BY <1>1, EndIs
<1>3. CardOnce'  BY <1>1, <1>2, CardStands
<1> QED  BY <1>1, <1>2, <1>3, NothingIsSound, CollectorMoves DEF VaultInv

LEMMA ClaimKeeps ==
  ASSUME VaultInv, NEW c \in Collector, ClaimsWeek(c)
  PROVE  VaultInv'
<1> DEFINE this == collecting[c]
<1>0. Collects(this) /\ SoundEvidence(this.obs)  BY CollectorShape
<1>1. /\ vaultClaim' = TRUE /\ UNCHANGED <<keyRuns, history, vaultCards, acked, vaultFaults>>
      /\ vaultClaim \in BOOLEAN
  BY DEF ClaimsWeek, VaultInv
<1>2. CASE vaultClaim
  <2>1. PICK m \in CollectorState : /\ collecting' = [collecting EXCEPT ![c] = m]
                                    /\ m.at = "done" /\ m.obs = NoHistory.evidence
    BY <1>2, EndIs DEF ClaimsWeek
  <2>2. CardOnce'  BY <1>1, <2>1, CardStands
  <2> QED  BY <1>1, <2>1, <2>2, NothingIsSound, CollectorMoves DEF VaultInv
<1>3. CASE ~vaultClaim
  <2>1. PICK m : m = [this EXCEPT !.at = "posts"]  OBVIOUS
  <2>2. m = [step |-> this.step, at |-> "posts", obs |-> this.obs, seen |-> this.seen,
             tries |-> this.tries]
    BY <1>0, <2>1 DEF Collects
  <2>3. collecting' = [collecting EXCEPT ![c] = m]  BY <1>3, <2>1 DEF ClaimsWeek
  <2>4. m \in CollectorState /\ SoundEvidence(m.obs) /\ m.at # "writes"
    BY <1>0, <2>2 DEF Collects, CollectorState
  <2>5. \A d \in Collector \ {c} : collecting'[d].at # "posts"
    BY <1>3, <2>3 DEF VaultInv, CardOnce
  <2>6. vaultCards' = <<>>  BY <1>1, <1>3 DEF VaultInv, CardOnce
  <2>7. CardOnce'  BY <1>1, <2>5, <2>6 DEF CardOnce
  <2> QED  BY <1>1, <2>3, <2>4, <2>7, CollectorMoves DEF VaultInv
<1> QED  BY <1>1, <1>2, <1>3

LEMMA PostKeeps ==
  ASSUME VaultInv, NEW c \in Collector, PostsWeek(c)
  PROVE  VaultInv'
<1> DEFINE obs == collecting[c].obs
<1>1. /\ collecting[c].at = "posts" /\ CollectorEnds(c)
      /\ UNCHANGED <<keyRuns, history, vaultClaim, acked, vaultFaults>>
      /\ vaultCards' = Append(vaultCards, BestSource(obs)) \/ UNCHANGED vaultCards
  BY DEF PostsWeek
<1>2. PICK m \in CollectorState : /\ collecting' = [collecting EXCEPT ![c] = m]
                                  /\ m.at = "done" /\ m.obs = NoHistory.evidence
  BY <1>1, EndIs
<1>3. /\ vaultCards = <<>> /\ vaultClaim
      /\ \A d \in Collector \ {c} : collecting[d].at # "posts"
  BY <1>1 DEF VaultInv, CardOnce
<1>4. \E p \in Provider, runs \in SUBSET KeyRun : SoundRuns(p, runs) /\ runs = BestSource(obs)
  <2>1. SoundEvidence(obs)  BY CollectorShape
  <2>2. BestSource(obs) = {} \/ \E p \in Provider : obs[p] # NoEvidence /\ BestSource(obs) = obs[p]
    <3> DEFINE available == {p \in Provider : obs[p] # NoEvidence}
               best == {p \in available : \A q \in available :
                          Slots(obs[q]) < Slots(obs[p])
                            \/ (Slots(obs[q]) = Slots(obs[p])
                                  /\ AtLevel(obs[q]) <= AtLevel(obs[p]))}
    <3>1. best \subseteq available  OBVIOUS
    <3>2. BestSource(obs) = IF best = {} THEN {} ELSE obs[CHOOSE p \in best : TRUE]
      BY DEF BestSource
    <3> HIDE DEF best
    <3> QED  BY <3>1, <3>2
  <2>3. SoundRuns("rio", {})  BY DEF SoundRuns
  <2>4. ASSUME NEW p \in Provider, obs[p] # NoEvidence PROVE SoundRuns(p, obs[p])
    BY <2>1, <2>4 DEF SoundEvidence
  <2> HIDE DEF obs
  <2>5. CASE BestSource(obs) = {}  BY <2>3, <2>5 DEF Provider
  <2>6. ASSUME NEW p \in Provider, obs[p] # NoEvidence, BestSource(obs) = obs[p]
        PROVE  \E q \in Provider, runs \in SUBSET KeyRun :
                 SoundRuns(q, runs) /\ runs = BestSource(obs)
    <3>1. SoundRuns(p, obs[p]) /\ obs[p] \in SUBSET KeyRun  BY <2>4, <2>6 DEF SoundRuns
    <3> QED  BY <2>6, <3>1
  <2> QED  BY <2>2, <2>5, <2>6
<1>5. CardOnce'
  <2>1. PICK p \in Provider, runs \in SUBSET KeyRun : SoundRuns(p, runs) /\ runs = BestSource(obs)
    BY <1>4
  <2>2. vaultCards' = <<>> \/ vaultCards' = <<runs>>  BY <1>1, <1>3, <2>1
  <2>3. SoundRuns(p, runs)'  BY <1>1, <2>1 DEF SoundRuns, RecordShown, RecordOf
  <2>4. \A d \in Collector : collecting'[d].at # "posts"  BY <1>2, <1>3 DEF VaultInv
  <2> QED  BY <1>1, <1>3, <2>2, <2>3, <2>4 DEF CardOnce
<1> QED  BY <1>1, <1>2, <1>5, NothingIsSound, CollectorMoves DEF VaultInv

LEMMA VaultStep == VaultInv /\ [VaultNext]_vaultVars => VaultInv'
<1> SUFFICES ASSUME VaultInv, [VaultNext]_vaultVars PROVE VaultInv'
  OBVIOUS
<1>1. CASE UNCHANGED vaultVars
  BY <1>1
  DEF vaultVars, VaultInv, KeysApart, SoundEvidence, SoundRuns, RecordShown, RecordOf, WritersFresh,
      CardOnce, EvidenceKept
<1>2. CASE \E level \in KeyLevels : CompletesKey(level)  BY <1>2, KeyKeeps
<1>3. ASSUME NEW c \in Collector, VaultSteps(c) PROVE VaultInv'
  BY <1>3, StartKeeps, BlizzardKeeps, LogsKeep, ReadKeeps, EvidenceSaveKeeps, RefusalKeeps,
     FailureKeeps, ClaimKeeps, PostKeeps, DeathKeeps
  DEF VaultSteps
<1> QED  BY <1>1, <1>2, <1>3 DEF VaultNext

(* Evidence once stored stays and counts no completion twice, and the      *)
(* week's one card promises no slot that was not earned, whatever overlaps,*)
(* fails or dies (vault_history.py, vault_collect.py, handler.py).         *)
THEOREM VaultKeepsEvidence == VaultSafety => []VaultPromise
<1>1. VaultInv => VaultPromise
  <2> SUFFICES ASSUME VaultInv PROVE VaultPromise
    OBVIOUS
  <2>1. KeysApart /\ SoundRuns("rio", {})  BY DEF VaultInv, SoundRuns
  <2>2. ASSUME NEW p \in Provider PROVE NoMoreThanDone(Known(history.evidence[p]))
    <3>1. SoundRuns(p, Known(history.evidence[p]))
      BY DEF VaultInv, SoundEvidence, Known, SoundRuns
    <3> QED  BY <2>1, <3>1, SoundIsNoMore
  <2>3. CASE vaultCards = <<>>  BY <2>2, <2>3 DEF VaultInv, VaultPromise
  <2>4. ASSUME NEW p \in Provider, NEW runs \in SUBSET KeyRun,
               SoundRuns(p, runs), vaultCards = <<runs>>
        PROVE  VaultPromise
    <3>1. NoMoreThanDone(runs)  BY <2>1, <2>4, SoundIsNoMore
    <3>2. Len(vaultCards) = 1 /\ \A i \in DOMAIN vaultCards : vaultCards[i] = runs  BY <2>4
    <3> QED  BY <2>2, <3>1, <3>2 DEF VaultInv, VaultPromise
  <2> QED  BY <2>3, <2>4 DEF VaultInv, CardOnce
<1> QED  BY <1>1, VaultInitial, VaultStep, PTL DEF VaultSafety
=============================================================================
