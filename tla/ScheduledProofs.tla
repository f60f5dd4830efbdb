---------------------------- MODULE ScheduledProofs ----------------------------
(***************************************************************************)
(* Theorems about the scheduled posts: the roll call and the digest        *)
(* implement AtMostOnce, a night has one recap whose corrections stay, the *)
(* achievements of a raid are announced once and their signatures vouch    *)
(* for what is held; for any nights, weeks, logs, characters and           *)
(* invocations.                                                            *)
(***************************************************************************)
EXTENDS Scheduled, FiniteSetTheorems, WellFoundedInduction, TLAPS

-----------------------------------------------------------------------------
(* Roll call and digest *)

Fetching == {"lineup", "hold", "ask", "handBack"}
Working == Fetching \cup {"post", "reply"}

(* An invocation past its claim is the only one of its night or week, and  *)
(* until its request has stored nothing.                                   *)
Exclusive ==
  \A j \in Job :
    /\ job[j].at \in Fetching \cup {"settle"} => job[j].key \in CallNight
    /\ job[j].at \in Working =>
         /\ job[j].key \in decided
         /\ \A i \in Job \ {j} : job[i].at \in Working => job[i].key # job[j].key
    /\ job[j].at \in Fetching \cup {"post"} => posts[job[j].key] = 0

(* A click finds the night the reviewer was asked about claimed for good,  *)
(* and while the card waits nobody works on it and nothing was posted.     *)
Reviewed ==
  /\ \A k \in Key \ decided : posts[k] = 0
  /\ \A j \in Job : job[j].at = "settle" => asked[job[j].key] > 0
  /\ \A n \in CallNight : asked[n] > 0 =>
       /\ n \in decided
       /\ \A j \in Job : job[j].at \in Fetching => job[j].key # n
       /\ held[n] = "pending" =>
            posts[n] = 0 /\ \A j \in Job : job[j].at \in Working => job[j].key # n

AttemptInv == OneAttemptTypeOK /\ Exclusive /\ Reviewed

LEMMA AttemptStep == AttemptInv /\ [OneAttemptNext]_oneAttemptVars => AttemptInv'
<1> SUFFICES ASSUME AttemptInv, [OneAttemptNext]_oneAttemptVars PROVE AttemptInv'
  OBVIOUS
<1> USE OneAttemptBounds
    DEF AttemptInv, OneAttemptTypeOK, Exclusive, Reviewed, Fetching, Working, Work, JobStep, Held,
        Key, JobAt, JobTo, JobFault
<1>1. CASE UNCHANGED oneAttemptVars
  BY <1>1 DEF oneAttemptVars
<1>2. ASSUME NEW j \in Job, JobStarts(j) PROVE AttemptInv'
  <2>1. CASE \E n \in CallNight, review \in BOOLEAN : StartRollCall(j, n, review)
    BY <2>1 DEF StartRollCall, NewJob
  <2>2. CASE \E w \in Week : StartDigest(j, w)
    BY <2>2 DEF StartDigest, NewJob
  <2>3. CASE \E n \in CallNight, verb \in {"post", "skip"} : Click(j, n, verb)
    BY <2>3 DEF Click, NewJob
  <2> QED  BY <1>2, <2>1, <2>2, <2>3 DEF JobStarts
<1>3. ASSUME NEW j \in Job, ClaimOnce(j) PROVE AttemptInv'
  BY <1>3, OneAttemptKeys DEF ClaimOnce
<1>4. ASSUME NEW j \in Job, ReadLineup(j) PROVE AttemptInv'
  BY <1>4 DEF ReadLineup
<1>5. ASSUME NEW j \in Job, HoldCard(j) PROVE AttemptInv'
  <2> DEFINE n == job[j].key
  <2>1. /\ job[j].at = "hold" /\ n \in CallNight /\ asked[n] = 0
        /\ UNCHANGED <<decided, asked, posts, jobs>>
    BY <1>5 DEF HoldCard
  <2>2. held' \in {held, [held EXCEPT ![n] = "pending"]} /\ jobFaults' \in 0..MaxJobFaults
    BY <1>5 DEF HoldCard
  <2>3. CASE job' = [job EXCEPT ![j].at = "ask"]
    BY <2>1, <2>2, <2>3
  <2>4. CASE job' = [job EXCEPT ![j].at = "handBack"]
    BY <2>1, <2>2, <2>4
  <2> QED  BY <1>5, <2>3, <2>4 DEF HoldCard
<1>6. ASSUME NEW j \in Job, Ask(j) PROVE AttemptInv'
  BY <1>6 DEF Ask
<1>7. ASSUME NEW j \in Job, HandBack(j) PROVE AttemptInv'
  BY <1>7 DEF HandBack
<1>8. ASSUME NEW j \in Job, Settle(j) PROVE AttemptInv'
  <2> DEFINE n == job[j].key
  <2>1. n \in CallNight /\ asked[n] > 0 /\ UNCHANGED <<decided, asked, posts, jobs, jobFaults>>
    BY <1>8 DEF Settle
  <2>2. CASE held[n] # "pending"
    <3>1. job' = [job EXCEPT ![j].at = "idle"] /\ UNCHANGED held
      BY <1>8, <2>2 DEF Settle
    <3> QED  BY <2>1, <3>1
  <2>3. CASE held[n] = "pending" /\ job[j].verb = "post"
    <3>1. /\ held' = [held EXCEPT ![n] = "posted"]
          /\ job' = [job EXCEPT ![j].at = "post"]
      BY <1>8, <2>3 DEF Settle
    <3> QED  BY <2>1, <2>3, <3>1
  <2>4. CASE held[n] = "pending" /\ job[j].verb # "post"
    <3>1. /\ held' = [held EXCEPT ![n] = "skipped"]
          /\ job' = [job EXCEPT ![j].at = "idle"]
      BY <1>8, <2>4 DEF Settle
    <3> QED  BY <2>1, <2>4, <3>1
  <2> QED  BY <2>2, <2>3, <2>4
<1>9. ASSUME NEW j \in Job, Deliver(j) PROVE AttemptInv'
  BY <1>9 DEF Deliver
<1>10. ASSUME NEW j \in Job, Reply(j) \/ JobEnds(j) PROVE AttemptInv'
  BY <1>10 DEF Reply, JobEnds
<1> QED
  BY <1>1, <1>2, <1>3, <1>4, <1>5, <1>6, <1>7, <1>8, <1>9, <1>10 DEF OneAttemptNext, JobSteps

LEMMA AttemptInvariant == OneAttemptSpec => []AttemptInv
<1>1. OneAttemptInit => AttemptInv
  BY OneAttemptKeys, OneAttemptBounds
  DEF OneAttemptInit, AttemptInv, OneAttemptTypeOK, Exclusive, Reviewed, Fetching, Working, Work,
      JobStep, Held, Key
<1> QED  BY <1>1, AttemptStep, PTL DEF OneAttemptSpec

(* What a step does to one night or week is what the outbox may do, when   *)
(* it is the only one whose phase changes.                                 *)
LEMMA AttemptRefines ==
  AttemptInv /\ [OneAttemptNext]_oneAttemptVars => [Outbox!Next]_(Outbox!vars)
<1> SUFFICES ASSUME AttemptInv, [OneAttemptNext]_oneAttemptVars
             PROVE  [Outbox!Next]_(Outbox!vars)
  OBVIOUS
<1> USE DEF AttemptInv, OneAttemptTypeOK, Exclusive, Reviewed, Fetching, Working, Work, JobStep,
        Key, JobAt, JobTo
<1>0. attemptPhase = [k \in Key |-> attemptPhase[k]]
  BY DEF attemptPhase
<1>1. ASSUME UNCHANGED posts, \A k \in Key : attemptPhase'[k] = attemptPhase[k]
      PROVE  UNCHANGED Outbox!vars
  BY <1>0, <1>1 DEF attemptPhase, Outbox!vars
<1>2. ASSUME NEW k \in Key, UNCHANGED posts,
             attemptPhase[k] = "sending", attemptPhase'[k] \in {"sending", "settled"},
             \A x \in Key \ {k} : attemptPhase'[x] = attemptPhase[x]
      PROVE  [Outbox!Next]_(Outbox!vars)
  <2>1. CASE attemptPhase'[k] = "sending"
    BY <1>1, <1>2, <2>1
  <2>2. CASE attemptPhase'[k] = "settled"
    <3>1. attemptPhase' = [attemptPhase EXCEPT ![k] = "settled"]
      BY <1>2, <2>2 DEF attemptPhase
    <3> QED  BY <1>2, <3>1 DEF Outbox!Settle, Outbox!Next
  <2> QED  BY <1>2, <2>1, <2>2
<1>3. CASE UNCHANGED oneAttemptVars
  BY <1>1, <1>3 DEF oneAttemptVars, attemptPhase, UnderWay
<1>4. ASSUME NEW j \in Job, JobStarts(j) PROVE UNCHANGED Outbox!vars
  <2>1. /\ job[j].at = "idle" /\ UNCHANGED <<decided, held, posts>>
        /\ \E work \in Work : work.at \in {"claim", "settle"} /\ job' = [job EXCEPT ![j] = work]
    BY <1>4 DEF JobStarts, StartRollCall, StartDigest, Click, NewJob
  <2>2. \A k \in Key : UnderWay(k)' <=> UnderWay(k)
    BY <2>1 DEF UnderWay
  <2> QED  BY <1>1, <2>1, <2>2 DEF attemptPhase
<1>5. ASSUME NEW j \in Job, ClaimOnce(j) PROVE [Outbox!Next]_(Outbox!vars)
  <2> DEFINE k == job[j].key
  <2>1. CASE k \in decided
    <3>1. \A x \in Key : UnderWay(x)' <=> UnderWay(x)
      BY <1>5, <2>1 DEF ClaimOnce, UnderWay
    <3> QED  BY <1>1, <1>5, <2>1, <3>1 DEF ClaimOnce, attemptPhase
  <2>2. CASE k \notin decided
    <3>1. /\ decided' = decided \cup {k} /\ UNCHANGED <<held, posts>>
          /\ \E to \in {"post", "lineup"} : job' = [job EXCEPT ![j].at = to]
      BY <1>5, <2>2 DEF ClaimOnce
    <3>2. UnderWay(k)' /\ \A x \in Key \ {k} : UnderWay(x)' <=> UnderWay(x)
      BY <1>5, <3>1 DEF ClaimOnce, UnderWay
    <3>3. attemptPhase[k] = "waiting"
      BY <2>2 DEF attemptPhase
    <3>4. \A x \in Key : attemptPhase'[x] = IF x = k THEN "sending" ELSE attemptPhase[x]
      BY <3>1, <3>2 DEF attemptPhase
    <3>5. attemptPhase' = [attemptPhase EXCEPT ![k] = "sending"]
      BY <3>4 DEF attemptPhase
    <3> QED  BY <3>1, <3>3, <3>5 DEF Outbox!Begin, Outbox!Next
  <2> QED  BY <2>1, <2>2
<1>6. ASSUME NEW j \in Job, UNCHANGED <<decided, posts>>, job[j].at \in Working,
             NEW to \in JobStep, job' = [job EXCEPT ![j].at = to],
             \A n \in CallNight \ {job[j].key} : held'[n] = held[n]
      PROVE  [Outbox!Next]_(Outbox!vars)
  <2>1. attemptPhase[job[j].key] = "sending"
    BY <1>6 DEF attemptPhase, UnderWay
  <2>2. \A x \in Key \ {job[j].key} : UnderWay(x)' <=> UnderWay(x)
    BY <1>6 DEF UnderWay
  <2>3. \A x \in Key \ {job[j].key} : attemptPhase'[x] = attemptPhase[x]
    BY <1>6, <2>2 DEF attemptPhase
  <2>4. attemptPhase'[job[j].key] \in {"sending", "settled"}
    BY <1>6 DEF attemptPhase
  <2> QED  BY <1>2, <1>6, <2>1, <2>3, <2>4
<1>7. ASSUME NEW j \in Job, ReadLineup(j) \/ HoldCard(j) \/ Ask(j) \/ Reply(j)
      PROVE  [Outbox!Next]_(Outbox!vars)
  <2>1. /\ UNCHANGED <<decided, posts>> /\ job[j].at \in Working
        /\ \A n \in CallNight \ {job[j].key} : held'[n] = held[n]
    BY <1>7 DEF ReadLineup, HoldCard, Ask, Reply
  <2>2. \E to \in JobStep : job' = [job EXCEPT ![j].at = to]
    BY <1>7 DEF ReadLineup, HoldCard, Ask, Reply
  <2> QED  BY <1>6, <2>1, <2>2
<1>8. ASSUME NEW j \in Job, HandBack(j) PROVE [Outbox!Next]_(Outbox!vars)
  <2> DEFINE k == job[j].key
  <2>1. /\ job[j].at = "handBack" /\ k \in decided /\ posts[k] = 0 /\ UNCHANGED <<held, posts>>
        /\ decided' = decided \ {k} /\ job' = [job EXCEPT ![j].at = "idle"]
    BY <1>8 DEF HandBack
  <2>2. attemptPhase[k] = "sending"
    BY <2>1 DEF attemptPhase, UnderWay
  <2>3. \A x \in Key \ {k} : UnderWay(x)' <=> UnderWay(x)
    BY <2>1 DEF UnderWay
  <2>4. attemptPhase' = [attemptPhase EXCEPT ![k] = "waiting"]
    BY <2>1, <2>3 DEF attemptPhase
  <2> QED  BY <2>1, <2>2, <2>4 DEF Outbox!TryAgain, Outbox!Next
<1>9. ASSUME NEW j \in Job, Settle(j) PROVE [Outbox!Next]_(Outbox!vars)
  <2> DEFINE n == job[j].key
  <2>1. n \in CallNight /\ n \in decided /\ UNCHANGED <<decided, posts>>
    BY <1>9 DEF Settle
  <2>2. CASE held[n] # "pending"
    <3>1. \A x \in Key : UnderWay(x)' <=> UnderWay(x)
      BY <1>9, <2>2 DEF Settle, UnderWay
    <3> QED  BY <1>1, <2>1, <3>1 DEF attemptPhase
  <2>3. CASE held[n] = "pending"
    <3>1. attemptPhase[n] = "sending"
      BY <2>1, <2>3 DEF attemptPhase, UnderWay
    <3>2. \A x \in Key \ {n} : UnderWay(x)' <=> UnderWay(x)
      BY <1>9, <2>1, <2>3 DEF Settle, UnderWay
    <3>3. attemptPhase'[n] \in {"sending", "settled"}
      BY <2>1 DEF attemptPhase
    <3>4. \A x \in Key \ {n} : attemptPhase'[x] = attemptPhase[x]
      BY <2>1, <3>2 DEF attemptPhase
    <3> QED  BY <1>2, <2>1, <3>1, <3>3, <3>4
  <2> QED  BY <2>2, <2>3
<1>10. ASSUME NEW j \in Job, Deliver(j) PROVE [Outbox!Next]_(Outbox!vars)
  <2> DEFINE k == job[j].key
  <2>1. /\ job[j].at = "post" /\ k \in decided /\ posts[k] = 0 /\ UNCHANGED <<decided, held>>
        /\ job' = [job EXCEPT ![j].at = "reply"] /\ posts' = [posts EXCEPT ![k] = posts[k] + 1]
    BY <1>10 DEF Deliver
  <2>2. attemptPhase[k] = "sending"
    BY <2>1 DEF attemptPhase, UnderWay
  <2>3. \A x \in Key : UnderWay(x)' <=> UnderWay(x)
    BY <2>1 DEF UnderWay
  <2>4. attemptPhase' = attemptPhase
    BY <2>1, <2>3 DEF attemptPhase
  <2>5. posts' = [posts EXCEPT ![k] = 1]
    <3>1. posts[k] + 1 = 1  BY <2>1
    <3> QED  BY <2>1, <3>1
  <2> QED  BY <2>1, <2>2, <2>4, <2>5 DEF Outbox!Deliver, Outbox!Next
<1>11. ASSUME NEW j \in Job, JobEnds(j) PROVE [Outbox!Next]_(Outbox!vars)
  <2>1. UNCHANGED <<decided, held, posts>> /\ job' = [job EXCEPT ![j].at = "idle"]
    BY <1>11 DEF JobEnds
  <2>2. CASE job[j].at \in Working
    BY <1>6, <2>1, <2>2
  <2>3. CASE job[j].at \notin Working
    <3>1. \A x \in Key : UnderWay(x)' <=> UnderWay(x)
      BY <2>1, <2>3 DEF UnderWay
    <3> QED  BY <1>1, <2>1, <3>1 DEF attemptPhase
  <2> QED  BY <2>2, <2>3
<1> QED
  BY <1>3, <1>4, <1>5, <1>7, <1>8, <1>9, <1>10, <1>11 DEF OneAttemptNext, JobSteps

(* The roll call and the digest implement AtMostOnce for any nights, weeks *)
(* and invocations: only a night handed back before its request is tried   *)
(* again, and only the first click sends the held card (rollcall.run,      *)
(* settle_rollcall_pending, vault_week).                                   *)
THEOREM OneAttemptRefinement == OneAttemptSpec => OneAttemptPromise
<1>1. OneAttemptInit => Outbox!Init
  BY DEF OneAttemptInit, Outbox!Init, attemptPhase
<1> QED
  BY <1>1, AttemptRefines, AttemptInvariant, PTL
  DEF OneAttemptSpec, OneAttemptPromise, Outbox!Spec

-----------------------------------------------------------------------------
(* Glory *)

(* The cards an invocation holds: claimed, not seeded, and not posted but  *)
(* by requests without an answer.                                          *)
Holding(v) == check[v].at \in {"send", "release"}
CardsHeld ==
  /\ row = NoRow => /\ \A g \in GloryCard : wall[g] = 0
                    /\ seeded = {}
                    /\ \A v \in Check : /\ check[v].at \in {"idle", "scan", "seed"}
                                       /\ check[v].known = NoRow
  /\ row # NoRow => seeded \subseteq row.announced
  /\ \A g \in GloryCard : row = NoRow \/ g \notin row.announced => wall[g] <= unsure[g]
  /\ \A v \in Check : Holding(v) =>
       /\ check[v].card \in row.announced \ seeded
       /\ wall[check[v].card] <= unsure[check[v].card]
       /\ \A u \in Check \ {v} : Holding(u) => check[u].card # check[v].card

(* What a row, or a check that has yet to save, holds and has signed: a    *)
(* signature of the present logout comes with what the character has.      *)
Vouched(heldBy, sigs) ==
  \A c \in Character :
    /\ sigs[c] <= logouts[c]
    /\ sigs[c] = logouts[c] =>
         \A a \in Sub : profile[c][a] # 0 => heldBy[Owner[c]][a] # 0
Signed ==
  /\ \A c \in Character : logouts[c] > 0
  /\ row # NoRow => Vouched(row.held, row.sigs)
  /\ \A v \in Check :
       /\ check[v].at = "scan" /\ check[v].known # NoRow =>
            Vouched(check[v].known.held, check[v].known.sigs)
       /\ check[v].at \in {"seed", "reload", "save"} => Vouched(check[v].held, check[v].sigs)

GloryInv == GloryTypeOK /\ GloryOnce /\ CardsHeld /\ Signed

LEMMA HasLeast ==
  ASSUME NEW S \in SUBSET Nat, S # {}
  PROVE  \E x \in S : \A y \in S : x <= y
<1> DEFINE Below == {0..x : x \in S}
<1>1. IsWellFoundedOn(StrictSubsetOrdering(Nat), FiniteSubsetsOf(Nat))
  BY FS_StrictSubsetOrderingWellFounded
<1>2. Below \subseteq FiniteSubsetsOf(Nat) /\ Below # {}
  <2>1. \A x \in S : IsFiniteSet(0..x)  BY FS_Interval
  <2>2. \A x \in S : 0..x \subseteq Nat  OBVIOUS
  <2> QED  BY <2>1, <2>2 DEF FiniteSubsetsOf
<1>3. \E b \in Below : \A d \in Below : ~ (<<d, b>> \in StrictSubsetOrdering(Nat))
  <2> HIDE DEF Below
  <2> QED BY <1>1, <1>2, WFMin
<1>4. PICK x \in S : \A y \in S : ~ (<<0..y, 0..x>> \in StrictSubsetOrdering(Nat))
  BY <1>3
<1>5. ASSUME NEW y \in S, y < x PROVE FALSE
  <2>1. 0..y \subseteq 0..x /\ x \in 0..x /\ x \notin 0..y  BY <1>5
  <2>2. 0..y \in SUBSET Nat /\ 0..x \in SUBSET Nat  OBVIOUS
  <2> QED  BY <1>4, <2>1, <2>2 DEF StrictSubsetOrdering
<1> QED  BY <1>5

(* combine keeps what was held and adds what the characters read hold. *)
LEMMA ScannedHolds ==
  ASSUME profile \in [Character -> Holdings], NEW heldBy \in HeldBy, NEW moved \in SUBSET Character
  PROVE  /\ Scanned(heldBy, moved) \in HeldBy
         /\ \A p \in Person, a \in Sub : heldBy[p][a] # 0 => Scanned(heldBy, moved)[p][a] # 0
         /\ \A c \in moved, a \in Sub : profile[c][a] # 0 => Scanned(heldBy, moved)[Owner[c]][a] # 0
<1> DEFINE Times(p, a) ==
             ({heldBy[p][a]} \cup {profile[c][a] : c \in {d \in moved : Owner[d] = p}}) \ {0}
           Value(p, a) == IF Times(p, a) = {} THEN 0
                          ELSE CHOOSE t \in Times(p, a) : \A u \in Times(p, a) : t <= u
<1>1. Scanned(heldBy, moved) = [p \in Person |-> [a \in Sub |-> Value(p, a)]]
  BY DEF Scanned
<1>2. ASSUME NEW p \in Person, NEW a \in Sub
      PROVE  /\ Value(p, a) \in Nat
             /\ Times(p, a) # {} => Value(p, a) # 0
  <2>1. Times(p, a) \in SUBSET Nat /\ 0 \notin Times(p, a)
    BY DEF HeldBy, Holdings
  <2>2. CASE Times(p, a) = {}
    <3> HIDE DEF Times
    <3> QED  BY <2>2
  <2>3. CASE Times(p, a) # {}
    <3>1. \E t \in Times(p, a) : \A u \in Times(p, a) : t <= u
      <4> HIDE DEF Times
      <4> QED  BY <2>1, <2>3, HasLeast
    <3>2. Value(p, a) \in Times(p, a)
      <4> HIDE DEF Times
      <4> QED  BY <2>3, <3>1
    <3> HIDE DEF Times, Value
    <3> QED  BY <2>1, <3>2
  <2> QED  BY <2>2, <2>3
<1>3. \A p \in Person, a \in Sub : heldBy[p][a] # 0 => Times(p, a) # {}
  OBVIOUS
<1>4. ASSUME NEW c \in moved, NEW a \in Sub, profile[c][a] # 0
      PROVE  Owner[c] \in Person /\ Times(Owner[c], a) # {}
  BY <1>4, GloryRoster
<1> HIDE DEF Times, Value
<1> QED  BY <1>1, <1>2, <1>3, <1>4 DEF HeldBy, Holdings

LEMMA VisitTypes ==
  ASSUME NEW t \in Visit, NEW step \in CheckStep
  PROVE  /\ [t EXCEPT !.at = step] \in Visit
         /\ \A said \in SUBSET GloryCard : [t EXCEPT !.at = step, !.announced = said] \in Visit
         /\ \A fresh \in SUBSET Sub : [t EXCEPT !.at = step, !.todo = fresh] \in Visit
         /\ \A g \in GloryCard : [t EXCEPT !.at = step, !.card = g] \in Visit
         /\ \A said \in SUBSET GloryCard, fresh \in SUBSET Sub :
              [t EXCEPT !.at = step, !.announced = said, !.todo = fresh] \in Visit
BY DEF Visit

LEMMA GloryStep == GloryInv /\ [GloryNext]_gloryVars => GloryInv'
<1> SUFFICES ASSUME GloryInv, [GloryNext]_gloryVars PROVE GloryInv'
  OBVIOUS
<1> USE GloryBounds, GloryNoRow
    DEF GloryInv, GloryTypeOK, CheckAt, CheckTo, GloryFault, gloryWorld
<1>0. Subs + 1 \in GloryCard /\ Subs + 2 \in GloryCard /\ Sub \subseteq GloryCard /\ 1 \in GloryCard
  BY GloryRoster DEF GloryCard, Sub
<1>1. Away \in Visit /\ Nothing \in Holdings /\ Unsigned \in Sigs
  BY <1>0 DEF Away, Visit, CheckStep, HeldBy, Holdings, Nothing, Sigs, Unsigned
<1>signed. ASSUME UNCHANGED <<profile, logouts, row>>, NEW v \in Check,
             \A u \in Check \ {v} : check'[u] = check[u],
             check'[v].at = "scan" /\ check'[v].known # NoRow =>
               Vouched(check'[v].known.held, check'[v].known.sigs),
             check'[v].at \in {"seed", "reload", "save"} => Vouched(check'[v].held, check'[v].sigs)
      PROVE  Signed'
  <2>1. \A heldBy, sigs : Vouched(heldBy, sigs) <=> Vouched(heldBy, sigs)'
    BY <1>signed DEF Vouched
  <2> QED  BY <1>signed, <2>1 DEF Signed
<1>lost. ASSUME NEW v \in Check, check[v].at = "send", NEW lost \in Nat,
             wall' = [wall EXCEPT ![check[v].card] = wall[check[v].card] + lost],
             unsure' = [unsure EXCEPT ![check[v].card] = unsure[check[v].card] + lost],
             UNCHANGED <<row, seeded>>, \A u \in Check \ {v} : check'[u] = check[u],
             check'[v].card = check[v].card \/ ~Holding(v)'
      PROVE  GloryOnce' /\ CardsHeld'
  <2> DEFINE g == check[v].card
  <2>1. row # NoRow /\ g \in GloryCard /\ g \in row.announced /\ g \notin seeded /\ wall[g] <= unsure[g]
    BY <1>lost DEF CardsHeld, Holding, Visit
  <2>2. \A u \in Check \ {v} : Holding(u) => check[u].card # g
    BY <1>lost DEF CardsHeld, Holding
  <2>3. \A h \in GloryCard \ {g} : wall'[h] = wall[h] /\ unsure'[h] = unsure[h]
    BY <1>lost
  <2>4. /\ wall[g] \in Nat /\ unsure[g] \in Nat
        /\ wall'[g] = wall[g] + lost /\ unsure'[g] = unsure[g] + lost
    BY <1>lost, <2>1
  <2>5. wall'[g] <= unsure'[g]
    BY <2>1, <2>4
  <2>6. GloryOnce'
    BY <1>lost, <2>1, <2>3, <2>4, <2>5 DEF GloryOnce
  <2>7. CardsHeld'
    BY <1>lost, <2>1, <2>2, <2>3, <2>5 DEF CardsHeld, Holding, Visit
  <2> QED  BY <2>6, <2>7
<1>2. CASE UNCHANGED gloryVars
  BY <1>2 DEF gloryVars, GloryOnce, CardsHeld, Holding, Signed, Vouched
<1>3. ASSUME NEW a \in Sub, NEW who \in SUBSET Person, Earn(a, who) PROVE GloryInv'
  <2>1. /\ moment' \in 0..MaxMoments /\ stamp' \in HeldBy
        /\ UNCHANGED <<profile, logouts, row, check, wall, unsure, seeded, visits, gloryFaults>>
    BY <1>3 DEF Earn, HeldBy, Holdings
  <2> QED  BY <2>1 DEF GloryOnce, CardsHeld, Holding, Signed, Vouched
<1>4. ASSUME NEW c \in Character, Logout(c) PROVE GloryInv'
  <2>1. /\ profile' = [profile EXCEPT ![c] = stamp[Owner[c]]]
        /\ logouts' = [logouts EXCEPT ![c] = logouts[c] + 1]
        /\ UNCHANGED <<stamp, moment, row, check, wall, unsure, seeded, visits, gloryFaults>>
    BY <1>4 DEF Logout
  <2>2. GloryTypeOK'
    <3>1. stamp[Owner[c]] \in Holdings  BY GloryRoster DEF HeldBy
    <3> QED  BY <2>1, <3>1 DEF Sigs
  <2>3. GloryOnce' /\ CardsHeld'
    BY <2>1 DEF GloryOnce, CardsHeld, Holding
  <2>4. ASSUME NEW heldBy, NEW sigs \in Sigs, Vouched(heldBy, sigs) PROVE Vouched(heldBy, sigs)'
    BY <2>1, <2>4 DEF Vouched, Sigs
  <2>5. Signed'
    <3>1. \A x \in Character : logouts'[x] > 0
      BY <2>1 DEF Signed, Sigs
    <3>2. row # NoRow => row.sigs \in Sigs
      BY DEF Row
    <3>3. \A v \in Check : check[v].sigs \in Sigs /\ (check[v].known # NoRow => check[v].known.sigs \in Sigs)
      BY DEF Visit, Row
    <3> QED  BY <2>1, <2>4, <3>1, <3>2, <3>3 DEF Signed
  <2> QED  BY <2>2, <2>3, <2>5
<1>5. ASSUME NEW v \in Check, NEW backfill \in BOOLEAN, LoadGlory(v, backfill) PROVE GloryInv'
  <2>1. /\ check' = [check EXCEPT ![v] = [Away EXCEPT !.at = "scan", !.backfill = backfill, !.known = row]]
        /\ visits' \in 0..MaxChecks
        /\ UNCHANGED <<gloryWorld, row, wall, unsure, seeded, gloryFaults>>
    BY <1>5 DEF LoadGlory
  <2>2. check'[v] \in Visit /\ check'[v].at = "scan" /\ check'[v].known = row
    BY <1>1, <2>1 DEF Visit, CheckStep, Away
  <2>3. GloryTypeOK'  BY <2>1, <2>2
  <2>4. GloryOnce' /\ CardsHeld'
    BY <2>1, <2>2 DEF GloryOnce, CardsHeld, Holding
  <2>5. Signed'
    BY <2>1, <2>2 DEF Signed, Vouched
  <2> QED  BY <2>3, <2>4, <2>5
<1>6. ASSUME NEW v \in Check, ScanCharacters(v) PROVE GloryInv'
  <2> DEFINE t == check[v]
  <2>1. PICK missing \in SUBSET Character :
          LET answered == Character \ missing
              moved == {c \in answered : logouts[c] # StoredSigs(t.known)[c]}
          IN  /\ IF missing = {} THEN UNCHANGED gloryFaults ELSE GloryFault
              /\ check' = [check EXCEPT ![v] = [t EXCEPT
                   !.held = Scanned(StoredHeld(t.known), moved),
                   !.sigs = [c \in Character |-> IF c \in answered THEN logouts[c] ELSE 0],
                   !.at = IF t.known = NoRow THEN "seed" ELSE "save",
                   !.announced = IF t.known = NoRow THEN {} ELSE t.known.announced]]
    BY <1>6, Zenon DEF ScanCharacters
  <2> DEFINE answered == Character \ missing
             moved == {c \in answered : logouts[c] # StoredSigs(t.known)[c]}
  <2>2. /\ t.at = "scan" /\ t \in Visit
        /\ UNCHANGED <<gloryWorld, row, wall, unsure, seeded, visits>>
    BY <1>6 DEF ScanCharacters
  <2>3. StoredHeld(t.known) \in HeldBy /\ StoredSigs(t.known) \in Sigs
    BY <1>1, <2>2 DEF StoredHeld, StoredSigs, Visit, Row, HeldBy
  <2>4. /\ Scanned(StoredHeld(t.known), moved) \in HeldBy
        /\ \A p \in Person, a \in Sub :
             StoredHeld(t.known)[p][a] # 0 => Scanned(StoredHeld(t.known), moved)[p][a] # 0
        /\ \A c \in moved, a \in Sub :
             profile[c][a] # 0 => Scanned(StoredHeld(t.known), moved)[Owner[c]][a] # 0
    BY <2>3, ScannedHolds
  <2>5. /\ check'[v].held = Scanned(StoredHeld(t.known), moved)
        /\ check'[v].sigs = [c \in Character |-> IF c \in answered THEN logouts[c] ELSE 0]
        /\ check'[v].at \in {"seed", "save"} /\ (check'[v].at = "save" => t.known # NoRow)
        /\ check'[v].known = t.known /\ check'[v].announced \subseteq GloryCard
        /\ check'[v].backfill = t.backfill /\ check'[v].todo = t.todo /\ check'[v].card = t.card
        /\ \A u \in Check \ {v} : check'[u] = check[u]
    BY <2>1, <2>2 DEF Visit, Row
  <2>6. check'[v] \in Visit
    <3>1. [c \in Character |-> IF c \in answered THEN logouts[c] ELSE 0] \in Sigs
      BY DEF Sigs
    <3>2. check'[v] = [at |-> check'[v].at, backfill |-> t.backfill, known |-> t.known,
                       held |-> check'[v].held, sigs |-> check'[v].sigs,
                       announced |-> check'[v].announced, todo |-> t.todo, card |-> t.card]
      BY <2>1, <2>2 DEF Visit
    <3>3. check'[v].at \in CheckStep  BY <2>5 DEF CheckStep
    <3> QED  BY <2>2, <2>4, <2>5, <3>1, <3>2, <3>3 DEF Visit
  <2>7. GloryTypeOK'
    <3>1. gloryFaults' \in 0..MaxGloryFaults  BY <2>1
    <3> QED  BY <2>1, <2>2, <2>6, <3>1
  <2>8. t.known # NoRow => row # NoRow
    BY DEF CardsHeld
  <2>9. GloryOnce' /\ CardsHeld'
    BY <2>2, <2>5, <2>8 DEF GloryOnce, CardsHeld, Holding
  <2>10. Vouched(check'[v].held, check'[v].sigs)
    <3>1. \A c \in Character : Owner[c] \in Person  BY GloryRoster
    <3>2. \A c \in Character : StoredSigs(t.known)[c] = logouts[c] =>
            \A a \in Sub : profile[c][a] # 0 => StoredHeld(t.known)[Owner[c]][a] # 0
      BY <2>2 DEF Signed, Vouched, StoredSigs, StoredHeld, Unsigned
    <3>3. \A c \in Character : logouts[c] \in Nat /\ logouts[c] > 0
      BY DEF Signed, Sigs
    <3>4. ASSUME NEW c \in answered, NEW a \in Sub, profile[c][a] # 0
          PROVE  check'[v].held[Owner[c]][a] # 0
      <4>1. CASE c \in moved
        <5> HIDE DEF moved
        <5> QED  BY <2>4, <2>5, <3>4, <4>1
      <4>2. CASE c \notin moved  BY <2>4, <2>5, <3>1, <3>2, <3>4, <4>2
      <4> QED  BY <4>1, <4>2
    <3>5. \A c \in Character \ answered : check'[v].sigs[c] = 0
      BY <2>5
    <3>6. \A c \in answered : check'[v].sigs[c] = logouts[c]
      BY <2>5
    <3> HIDE DEF answered, moved
    <3> QED  BY <3>3, <3>4, <3>5, <3>6 DEF Vouched
  <2>11. Signed'
    BY <1>signed, <2>2, <2>5, <2>10
  <2> QED  BY <2>7, <2>9, <2>11
<1>7. ASSUME NEW v \in Check, SeedGlory(v) PROVE GloryInv'
  <2> DEFINE old == Already(check[v])
  <2>1. /\ check[v].at = "seed" /\ check' = [check EXCEPT ![v].at = "reload"]
        /\ UNCHANGED <<gloryWorld, wall, unsure, visits, gloryFaults>>
    BY <1>7 DEF SeedGlory
  <2>2. old \subseteq GloryCard
    BY <1>0 DEF Already, GuildEarned, Meta, General
  <2>3. check' \in [Check -> Visit]
    BY <2>1 DEF Visit, CheckStep
  <2>4. CASE row = NoRow
    <3>1. row' = NewRow(old) /\ seeded' = old
      BY <1>7, <2>4 DEF SeedGlory
    <3>2. /\ row' \in Row /\ row' # NoRow
          /\ row'.announced = old /\ row'.sigs = Unsigned
      BY <1>1, <2>2, <3>1 DEF NewRow, Row, HeldBy
    <3>3. GloryTypeOK'
      BY <2>1, <2>2, <2>3, <3>1, <3>2
    <3>4. GloryOnce' /\ CardsHeld'
      BY <2>1, <2>4, <3>1, <3>2 DEF GloryOnce, CardsHeld, Holding
    <3>5. Signed'
      <4>1. Vouched(row'.held, row'.sigs)
        BY <3>2 DEF Vouched, Unsigned, Signed, Sigs
      <4> QED  BY <2>1, <2>4, <3>2, <4>1 DEF Signed, Vouched
    <3> QED  BY <3>3, <3>4, <3>5
  <2>5. CASE row # NoRow
    <3>1. UNCHANGED <<row, seeded>>
      BY <1>7, <2>5 DEF SeedGlory
    <3>2. GloryTypeOK'  BY <2>1, <2>3, <3>1
    <3>3. GloryOnce' /\ CardsHeld'
      BY <2>1, <2>5, <3>1 DEF GloryOnce, CardsHeld, Holding
    <3>4. Signed'
      BY <2>1, <3>1 DEF Signed, Vouched
    <3> QED  BY <3>2, <3>3, <3>4
  <2> QED  BY <2>4, <2>5
<1>8. ASSUME NEW v \in Check, ReloadGlory(v) PROVE GloryInv'
  <2>1. /\ check[v].at = "reload" /\ row # NoRow
        /\ check' = [check EXCEPT ![v] = [check[v] EXCEPT !.at = "save", !.announced = row.announced]]
        /\ UNCHANGED <<gloryWorld, row, wall, unsure, seeded, visits, gloryFaults>>
    BY <1>8 DEF ReloadGlory, CardsHeld
  <2>2. check' \in [Check -> Visit]
    <3>1. row.announced \in SUBSET GloryCard  BY <2>1 DEF Row
    <3> QED  BY <2>1, <3>1, VisitTypes DEF CheckStep
  <2>3. GloryTypeOK'  BY <2>1, <2>2
  <2>4. GloryOnce' /\ CardsHeld'
    BY <2>1 DEF GloryOnce, CardsHeld, Holding
  <2>5. Signed'
    BY <2>1, <2>2 DEF Signed, Vouched
  <2> QED  BY <2>3, <2>4, <2>5
<1>9. ASSUME NEW v \in Check, SaveProgress(v) PROVE GloryInv'
  <2>1. /\ check[v].at = "save" /\ row # NoRow
        /\ row' = [row EXCEPT !.held = check[v].held, !.sigs = check[v].sigs]
        /\ check' = [check EXCEPT ![v] = [check[v] EXCEPT !.at = "decide",
                       !.todo = GuildEarned(check[v].held) \ check[v].announced]]
        /\ UNCHANGED <<gloryWorld, wall, unsure, seeded, visits, gloryFaults>>
    BY <1>9 DEF SaveProgress, CardsHeld
  <2>2. check' \in [Check -> Visit]
    <3>1. GuildEarned(check[v].held) \ check[v].announced \in SUBSET Sub  BY DEF GuildEarned
    <3> QED  BY <2>1, <3>1, VisitTypes DEF CheckStep
  <2>3. /\ row' \in Row /\ row' # NoRow /\ row'.announced = row.announced
        /\ row'.held = check[v].held /\ row'.sigs = check[v].sigs
    BY <2>1 DEF Row, Visit
  <2>4. GloryTypeOK'  BY <2>1, <2>2, <2>3
  <2>5. GloryOnce' /\ CardsHeld'
    BY <2>1, <2>3 DEF GloryOnce, CardsHeld, Holding
  <2>6. Signed'
    <3>1. Vouched(row'.held, row'.sigs)
      BY <2>1, <2>3 DEF Signed
    <3> QED  BY <2>1, <2>3, <3>1 DEF Signed, Vouched
  <2> QED  BY <2>4, <2>5, <2>6
<1>10. ASSUME NEW v \in Check, Decide(v) PROVE GloryInv'
  <2>1. check[v].at = "decide" /\ UNCHANGED <<gloryWorld, row, wall, unsure, seeded, visits, gloryFaults>>
    BY <1>10 DEF Decide
  <2>2. CASE check' = [check EXCEPT ![v] = Away]
    <3>1. Away.at = "idle" /\ Away.known = NoRow  BY DEF Away
    <3>2. GloryTypeOK'  BY <1>1, <2>1, <2>2
    <3>3. GloryOnce' /\ CardsHeld'
      BY <2>1, <2>2, <3>1 DEF GloryOnce, CardsHeld, Holding
    <3>4. Signed'
      BY <2>1, <2>2, <3>1 DEF Signed, Vouched
    <3> QED  BY <3>2, <3>3, <3>4
  <2>3. ASSUME NEW g \in Cards(check[v]),
               check' = [check EXCEPT ![v] = [check[v] EXCEPT !.at = "claim", !.card = g]]
        PROVE  GloryInv'
    <3>1. g \in GloryCard
      <4>1. check[v].todo \subseteq GloryCard  BY <1>0 DEF Visit
      <4> QED  BY <1>0, <4>1 DEF Cards, FirstOf, Meta, General
    <3>2. check' \in [Check -> Visit]
      BY <2>3, <3>1, VisitTypes DEF CheckStep
    <3>3. GloryTypeOK'  BY <2>1, <3>2
    <3>4. GloryOnce' /\ CardsHeld'
      BY <2>1, <2>3 DEF GloryOnce, CardsHeld, Holding
    <3>5. Signed'
      BY <2>1, <2>3 DEF Signed, Vouched
    <3> QED  BY <3>3, <3>4, <3>5
  <2> QED  BY <1>10, <2>2, <2>3 DEF Decide
<1>11. ASSUME NEW v \in Check, ClaimGlory(v) PROVE GloryInv'
  <2> DEFINE g == check[v].card
  <2>1. /\ check[v].at = "claim" /\ row # NoRow /\ g \in GloryCard
        /\ UNCHANGED <<gloryWorld, wall, unsure, seeded, visits, gloryFaults>>
    BY <1>11 DEF ClaimGlory, CardsHeld, Visit
  <2>2. CASE g \in row.announced
    <3>1. UNCHANGED row  BY <1>11, <2>2 DEF ClaimGlory
    <3>2. /\ check'[v].at \in {"decide", "idle"} /\ check'[v] \in Visit
          /\ check' = [check EXCEPT ![v] = check'[v]]
      <4>1. CASE g \in Sub
        <5>1. check' = [check EXCEPT ![v] = [check[v] EXCEPT !.at = "decide", !.todo = @ \ {g}]]
          BY <1>11, <2>2, <4>1 DEF ClaimGlory
        <5>2. check[v].todo \ {g} \in SUBSET Sub /\ "decide" \in CheckStep
          BY DEF Visit, CheckStep
        <5>3. [check[v] EXCEPT !.at = "decide", !.todo = @ \ {g}] \in Visit
          BY <5>2, VisitTypes
        <5>4. [check[v] EXCEPT !.at = "decide", !.todo = @ \ {g}].at = "decide"
          BY DEF Visit
        <5> HIDE DEF g
        <5> QED  BY <5>1, <5>3, <5>4
      <4>2. CASE g \notin Sub
        <5>1. check' = [check EXCEPT ![v] = Away]  BY <1>11, <2>2, <4>2 DEF ClaimGlory
        <5> QED  BY <1>1, <5>1 DEF Away
      <4> QED  BY <4>1, <4>2
    <3>3. GloryTypeOK'  BY <2>1, <3>1, <3>2
    <3>4. GloryOnce' /\ CardsHeld'
      BY <2>1, <3>1, <3>2 DEF GloryOnce, CardsHeld, Holding
    <3>5. Signed'
      BY <1>signed, <2>1, <3>1, <3>2
    <3> QED  BY <3>3, <3>4, <3>5
  <2>3. CASE g \notin row.announced
    <3>1. /\ row' = [row EXCEPT !.announced = row.announced \cup {g}]
          /\ check' = [check EXCEPT ![v] = [check[v] EXCEPT !.at = "send",
                         !.announced = check[v].announced \cup {g}, !.todo = check[v].todo \ {g}]]
      BY <1>11, <2>3 DEF ClaimGlory
    <3>2. /\ row' \in Row /\ row' # NoRow /\ row'.announced = row.announced \cup {g}
          /\ row'.held = row.held /\ row'.sigs = row.sigs
      BY <2>1, <3>1 DEF Row
    <3>3. check' \in [Check -> Visit]
      <4>1. /\ check[v].announced \cup {g} \in SUBSET GloryCard /\ check[v].todo \ {g} \in SUBSET Sub
            /\ "send" \in CheckStep
        BY <2>1 DEF Visit, CheckStep
      <4> QED  BY <3>1, <4>1, VisitTypes
    <3>4. check'[v].at = "send" /\ check'[v].card = g /\ \A u \in Check \ {v} : check'[u] = check[u]
      BY <3>1 DEF Visit
    <3>5. GloryTypeOK'  BY <2>1, <3>2, <3>3
    <3>6. GloryOnce' /\ CardsHeld'
      BY <2>1, <2>3, <3>2, <3>4 DEF GloryOnce, CardsHeld, Holding
    <3>7. Signed'
      BY <2>1, <3>2, <3>4 DEF Signed, Vouched
    <3> QED  BY <3>5, <3>6, <3>7
  <2> QED  BY <2>2, <2>3
<1>12. ASSUME NEW v \in Check, SendGlory(v) PROVE GloryInv'
  <2> DEFINE g == check[v].card
  <2>1. PICK lost \in 0..(GloryAttempts - 1) :
          /\ wall' = [wall EXCEPT ![g] = wall[g] + lost + 1]
          /\ unsure' = [unsure EXCEPT ![g] = unsure[g] + lost]
          /\ IF lost = 0 THEN UNCHANGED gloryFaults ELSE GloryFault
    BY <1>12 DEF SendGlory
  <2>2. /\ check[v].at = "send" /\ g \in GloryCard /\ lost \in Nat
        /\ check' = [check EXCEPT ![v].at = "decide"]
        /\ UNCHANGED <<gloryWorld, row, seeded, visits>>
    BY <1>12 DEF SendGlory, Visit
  <2>3. check' \in [Check -> Visit]
    BY <2>2, VisitTypes DEF CheckStep
  <2>4. GloryTypeOK'
    <3>1. gloryFaults' \in 0..MaxGloryFaults  BY <2>1
    <3> QED  BY <2>1, <2>2, <2>3, <3>1
  <2>5. GloryOnce' /\ CardsHeld'
    <3>1. row # NoRow /\ g \in row.announced /\ g \notin seeded /\ wall[g] <= unsure[g]
      BY <2>2 DEF CardsHeld, Holding
    <3>2. \A u \in Check \ {v} : check'[u] = check[u] /\ (Holding(u) => check[u].card # g)
      BY <2>2 DEF CardsHeld, Holding
    <3>3. \A h \in GloryCard \ {g} : wall'[h] = wall[h] /\ unsure'[h] = unsure[h]
      BY <2>1
    <3>4. wall'[g] <= 1 + unsure'[g]
      BY <2>1, <2>2, <3>1
    <3>5. check'[v].at = "decide"
      BY <2>2 DEF Visit
    <3>6. GloryOnce'
      BY <2>2, <3>1, <3>3, <3>4 DEF GloryOnce
    <3>7. CardsHeld'
      BY <2>2, <3>1, <3>2, <3>3, <3>5 DEF CardsHeld, Holding, Visit
    <3> QED  BY <3>6, <3>7
  <2>6. Signed'
    BY <1>signed, <2>2
  <2> QED  BY <2>4, <2>5, <2>6
<1>13. ASSUME NEW v \in Check, SendRefused(v) PROVE GloryInv'
  <2> DEFINE g == check[v].card
  <2>1. PICK lost \in 0..GloryAttempts :
          /\ wall' = [wall EXCEPT ![g] = wall[g] + lost]
          /\ unsure' = [unsure EXCEPT ![g] = unsure[g] + lost]
    BY <1>13 DEF SendRefused
  <2>2. /\ check[v].at = "send" /\ g \in GloryCard /\ lost \in Nat
        /\ check' = [check EXCEPT ![v].at = "release"] /\ gloryFaults' \in 0..MaxGloryFaults
        /\ UNCHANGED <<gloryWorld, row, seeded, visits>>
    BY <1>13 DEF SendRefused, Visit
  <2>3. check' \in [Check -> Visit]
    BY <2>2, VisitTypes DEF CheckStep
  <2>4. GloryTypeOK'  BY <2>1, <2>2, <2>3
  <2>5. GloryOnce' /\ CardsHeld'
    <3>1. check'[v].card = g /\ \A u \in Check \ {v} : check'[u] = check[u]
      BY <2>2 DEF Visit
    <3> QED  BY <1>lost, <2>1, <2>2, <3>1
  <2>6. Signed'
    BY <1>signed, <2>2
  <2> QED  BY <2>4, <2>5, <2>6
<1>14. ASSUME NEW v \in Check, ReleaseGlory(v) PROVE GloryInv'
  <2> DEFINE g == check[v].card
  <2>1. /\ check[v].at = "release" /\ row # NoRow /\ g \in row.announced /\ wall[g] <= unsure[g]
        /\ row' = [row EXCEPT !.announced = row.announced \ {g}]
        /\ check' = [check EXCEPT ![v] = Away]
        /\ UNCHANGED <<gloryWorld, wall, unsure, seeded, visits, gloryFaults>>
    BY <1>14 DEF ReleaseGlory, CardsHeld, Holding
  <2>2. /\ row' \in Row /\ row' # NoRow /\ row'.announced = row.announced \ {g}
        /\ row'.held = row.held /\ row'.sigs = row.sigs
    BY <2>1 DEF Row
  <2>3. check'[v].at = "idle" /\ \A u \in Check \ {v} : check'[u] = check[u]
    BY <2>1 DEF Away
  <2>4. GloryTypeOK'  BY <1>1, <2>1, <2>2
  <2>5. GloryOnce' /\ CardsHeld'
    <3>1. g \notin seeded /\ \A u \in Check \ {v} : Holding(u) => check[u].card # g
      BY <2>1 DEF CardsHeld, Holding
    <3> QED  BY <2>1, <2>2, <2>3, <3>1 DEF GloryOnce, CardsHeld, Holding
  <2>6. Signed'
    BY <2>1, <2>2, <2>3 DEF Signed, Vouched
  <2> QED  BY <2>4, <2>5, <2>6
<1>15. ASSUME NEW v \in Check, CheckEnds(v) PROVE GloryInv'
  <2>1. /\ check' = [check EXCEPT ![v] = Away] /\ gloryFaults' \in 0..MaxGloryFaults
        /\ UNCHANGED <<gloryWorld, row, seeded, visits>>
    BY <1>15 DEF CheckEnds
  <2>2. /\ check'[v].at = "idle" /\ check'[v].known = NoRow
        /\ \A u \in Check \ {v} : check'[u] = check[u]
    BY <2>1 DEF Away
  <2>3. Signed'
    BY <1>signed, <2>1, <2>2
  <2>4. CASE UNCHANGED <<wall, unsure>>
    <3>1. GloryTypeOK'  BY <1>1, <2>1, <2>4
    <3>2. GloryOnce' /\ CardsHeld'
      BY <2>1, <2>2, <2>4 DEF GloryOnce, CardsHeld, Holding
    <3> QED  BY <2>3, <3>1, <3>2
  <2>5. CASE /\ check[v].at = "send"
             /\ wall' = [wall EXCEPT ![check[v].card] = wall[check[v].card] + 1]
             /\ unsure' = [unsure EXCEPT ![check[v].card] = unsure[check[v].card] + 1]
    <3>1. GloryTypeOK'
      <4>1. check[v].card \in GloryCard  BY DEF Visit
      <4> QED  BY <1>1, <2>1, <2>5, <4>1
    <3>2. GloryOnce' /\ CardsHeld'
      BY <1>lost, <2>1, <2>2, <2>5 DEF Holding
    <3> QED  BY <2>3, <3>1, <3>2
  <2> QED  BY <1>15, <2>4, <2>5 DEF CheckEnds
<1> QED
  BY <1>2, <1>3, <1>4, <1>5, <1>6, <1>7, <1>8, <1>9, <1>10, <1>11, <1>12, <1>13, <1>14, <1>15
  DEF GloryNext, CheckSteps

LEMMA GloryInvariant == GlorySpec => []GloryInv
<1>1. GloryInit => GloryInv
  <2> SUFFICES ASSUME GloryInit PROVE GloryInv
    OBVIOUS
  <2>1. GloryTypeOK
    <3>1. 1 \in GloryCard /\ "idle" \in CheckStep
      BY GloryRoster DEF GloryCard, CheckStep
    <3>2. [p \in Person |-> Nothing] \in HeldBy /\ Unsigned \in Sigs
      BY DEF HeldBy, Holdings, Nothing, Sigs, Unsigned
    <3>3. Away \in Visit
      BY <3>1, <3>2 DEF Away, Visit
    <3> QED
      BY <3>2, <3>3, GloryBounds DEF GloryInit, GloryTypeOK, HeldBy, Holdings, Nothing, Sigs
  <2>2. GloryOnce /\ CardsHeld
    BY DEF GloryInit, GloryOnce, CardsHeld, Holding, Away
  <2>3. Signed
    BY DEF GloryInit, Signed, Away
  <2> QED  BY <2>1, <2>2, <2>3 DEF GloryInv
<1> QED  BY <1>1, GloryStep, PTL DEF GlorySpec

(* What two first checks seeded is never posted, and no card is posted     *)
(* twice but for a request served without an answer, for any achievements, *)
(* raiders and checks (seed_glory, claim_glory, release_glory).            *)
THEOREM CardsOnce == GlorySpec => []GloryOnce
<1>1. GloryInv => GloryOnce  BY DEF GloryInv
<1> QED  BY <1>1, GloryInvariant, PTL

(* However checks overwrite each other's progress, the present signature   *)
(* of a character comes with what it holds (put_glory_progress, scan).     *)
THEOREM SignaturesVouch == GlorySpec => []SignedIsHeld
<1>1. GloryInv => SignedIsHeld  BY DEF GloryInv, Signed, Vouched, SignedIsHeld
<1> QED  BY <1>1, GloryInvariant, PTL

-----------------------------------------------------------------------------
(* Recap *)

(* Which steps an invocation takes on what it holds, given the nights with *)
(* a sure card.                                                            *)
TaskSound(t, carded) ==
  /\ t.at # "idle" => t.night \in Night
  /\ t.at \in {"claim", "draw", "post", "release"} => t.kind \in Posting
  /\ t.at \in {"look", "earlier", "edit", "before", "mark", "write"} => t.night \in carded
  /\ t.at \in {"look", "earlier", "edit", "mark"} => t.kind \in Revising
  /\ t.at = "mark" => t.kind = "recheck"
  /\ t.at \in {"look", "earlier", "mark"} /\ t.kind = "recheck" => t.base \in Record
RunSound == \A r \in RecapRun : TaskSound(run[r], sure)

(* A claim is held by one invocation until its card is sure. *)
Drawing(r) == run[r].at \in {"draw", "post", "release"}
ClaimsHeld ==
  /\ sure \subseteq posted
  /\ \A n \in Night : cards[n] <= doubt[n] + (IF n \in sure THEN 1 ELSE 0)
  /\ \A n \in Night : n \notin sure => told[n] = {} /\ looks[n] = 0 /\ record[n] = NoRecord
  /\ \A r \in RecapRun : Drawing(r) =>
       /\ run[r].night \in posted \ sure
       /\ \A q \in RecapRun \ {r} : Drawing(q) => run[q].night # run[r].night

(* A night no two invocations met on, and whose record missed nothing. *)
Quiet == Night \ (raced \cup unrecorded)
WorksOn(r, n) == Busy(r) /\ run[r].night = n
Recording(r) == run[r].at \in {"before", "write"}
Alone == \A n \in Quiet : \A r, q \in RecapRun : WorksOn(r, n) /\ WorksOn(q, n) => r = q

(* The record, with what the invocation about to write it adds, has every  *)
(* note and every second look of such a night.                             *)
RecordedAt(n) ==
  /\ told[n] \subseteq shown[n].notes
  /\ (\A r \in RecapRun : WorksOn(r, n) => ~Recording(r)) =>
       /\ told[n] \subseteq Carried(n)
       /\ looks[n] # 0 => record[n] # NoRecord /\ record[n].rechecked
  /\ \A r \in RecapRun : WorksOn(r, n) =>
       LET t == run[r] IN
       /\ Recording(r) =>
            /\ told[n] \subseteq Carried(n) \cup t.fresh
            /\ looks[n] # 0 => t.kind = "recheck" \/ (record[n] # NoRecord /\ record[n].rechecked)
       /\ t.at = "edit" => told[n] \subseteq t.notes
       /\ t.at = "write" => t.base = record[n]
       /\ t.at \in {"look", "earlier", "mark"} /\ t.kind = "recheck" => t.base = record[n]
       /\ t.at \in {"look", "earlier", "edit"} /\ t.kind = "recheck" => looks[n] = 0
Recorded == \A n \in Quiet : RecordedAt(n)

RecapInv == RecapTypeOK /\ RunSound /\ ClaimsHeld /\ Alone /\ Recorded /\ SecondLookOnce

LEMMA PullsCount ==
  ASSUME NEW n \in Night, NEW logs \in SUBSET Uploader
  PROVE  PullsIn(n, logs) \in Nat
<1> DEFINE All == logs \X (1..MaxPulls)
           Some == {s \in All : s[2] \in Pulls(n, s[1])}
<1>1. IsFiniteSet(logs) /\ IsFiniteSet(1..MaxPulls)
  <2>1. IsFiniteSet(logs)  BY RecapUploaders, FS_Subset
  <2>2. 1 \in Int /\ MaxPulls \in Int  BY RecapBounds
  <2>3. IsFiniteSet(1..MaxPulls)  BY <2>2, FS_Interval
  <2> QED  BY <2>1, <2>3
<1>2. IsFiniteSet(All)  BY <1>1, FS_Product
<1>3. Some \subseteq All  OBVIOUS
<1>4. Cardinality(Some) \in Nat
  <2> HIDE DEF All, Some
  <2> QED  BY <1>2, <1>3, FS_Subset, FS_CardinalityType
<1> QED  BY <1>4 DEF PullsIn

LEMMA ReadingLogs ==
  ASSUME NEW n \in Night, NEW named \in SUBSET Uploader, NEW search
  PROVE  Readings(n, named, search) \subseteq SUBSET Uploader
BY DEF Readings, Kept, Sighted, Fuller

LEMMA TaskTypes ==
  ASSUME NEW t \in Task, NEW step \in RecapStep
  PROVE  /\ [t EXCEPT !.at = step] \in Task
         /\ \A logs \in SUBSET Uploader, k \in Nat :
              [t EXCEPT !.at = step, !.logs = logs, !.pulls = k] \in Task
         /\ \A private \in BOOLEAN : [t EXCEPT !.at = step, !.private = private] \in Task
         /\ \A notes \in SUBSET Note, fresh \in SUBSET Note :
              [t EXCEPT !.at = step, !.notes = notes, !.fresh = fresh] \in Task
         /\ \A base \in Record \cup {NoRecord} : [t EXCEPT !.at = step, !.base = base] \in Task
BY DEF Task

LEMMA IdleTask == Idle \in Task /\ Idle.at = "idle"
BY DEF Idle, Task, RecapStep, Posting, Revising

(* What an invocation that starts holds. *)
LEMMA NewTasks ==
  ASSUME NEW n \in Night, NEW logs \in SUBSET Uploader
  PROVE  /\ \A kind \in Posting, k \in Nat :
              [Idle EXCEPT !.at = "claim", !.kind = kind, !.night = n, !.logs = logs, !.pulls = k] \in Task
         /\ \A base \in Record :
              [Idle EXCEPT !.at = "look", !.kind = "recheck", !.night = n, !.logs = logs,
                           !.base = base] \in Task
         /\ [Idle EXCEPT !.at = "look", !.kind = "hand", !.night = n, !.logs = logs] \in Task
BY IdleTask DEF Idle, Task, RecapStep, Posting, Revising

LEMMA RecordTypes ==
  ASSUME NEW t \in Task
  PROVE  /\ Remembered(t) \in Record
         /\ \A base \in Record : [base EXCEPT !.rechecked = TRUE] \in Record
BY DEF Remembered, Record, Task, Note

LEMMA Bumped ==
  ASSUME NEW f \in [Night -> Nat], NEW n \in Night, NEW k \in Nat
  PROVE  [f EXCEPT ![n] = @ + k] \in [Night -> Nat]
OBVIOUS

(* The type invariant, whose one dependence is on what a recheck holds. *)
LEMMA RecapTypes ==
  RecapTypeOK /\ RunSound /\ [RecapNext]_recapVars => RecapTypeOK'
<1> SUFFICES ASSUME RecapTypeOK, RunSound, [RecapNext]_recapVars PROVE RecapTypeOK'
  OBVIOUS
<1> USE RecapBounds, RecapNights, IdleTask
    DEF RecapTypeOK, recapGhosts, At, Step, Move, Over, Fault
<1>1. CASE UNCHANGED recapVars  BY <1>1 DEF recapVars
<1>2. CASE NextDay  BY <1>2 DEF NextDay
<1>3. ASSUME NEW n \in Night, NEW u \in Uploader, Upload(n, u) PROVE RecapTypeOK'
  BY <1>3 DEF Upload
<1>4. ASSUME NEW r \in RecapRun, NEW n \in Night, RecapStarts(r, n) PROVE RecapTypeOK'
  <2>1. /\ raced' \subseteq Night /\ invoked' \in 0..MaxInvocations
        /\ UNCHANGED <<today, uploaded, posted, record, cards, shown, sure, doubt, told, looks,
                       unrecorded, recapFaults>>
    <3>1. /\ Meets(r, n)
          /\ UNCHANGED <<today, uploaded, posted, record, cards, shown, sure, doubt, told, looks,
                         unrecorded, recapFaults>>
      BY <1>4 DEF RecapStarts, StartRecap, StartRecheck, StartHand
    <3> QED  BY <3>1 DEF Meets
  <2>2. \E t \in Task : run' = [run EXCEPT ![r] = t]
    <3>1. ASSUME NEW kind \in Posting, StartRecap(r, n, kind) PROVE \E t \in Task : run' = [run EXCEPT ![r] = t]
      <4>1. PICK logs \in Readings(n, {Guild}, TRUE) :
              run' = [run EXCEPT ![r] = [Idle EXCEPT !.at = "claim", !.kind = kind, !.night = n,
                                           !.logs = logs, !.pulls = PullsIn(n, logs)]]
        BY <3>1 DEF StartRecap
      <4>2. {Guild} \in SUBSET Uploader  BY RecapUploaders
      <4>3. logs \in SUBSET Uploader  BY <4>1, <4>2, ReadingLogs
      <4> QED  BY <4>1, <4>3, PullsCount, NewTasks
    <3>2. CASE StartRecheck(r, n)
      <4>1. record[n] \in Record /\ record[n].logs \in SUBSET Uploader
        BY <3>2 DEF StartRecheck, Due, Record
      <4> QED  BY <3>2, <4>1, NewTasks DEF StartRecheck
    <3>3. ASSUME NEW named \in (SUBSET Uploader) \ {{}}, StartHand(r, n, named)
          PROVE  \E t \in Task : run' = [run EXCEPT ![r] = t]
      BY <3>3, NewTasks DEF StartHand
    <3> QED  BY <1>4, <3>1, <3>2, <3>3 DEF RecapStarts
  <2> QED  BY <2>1, <2>2
<1>5. ASSUME NEW r \in RecapRun, Claim(r) \/ Draw(r) \/ Release(r) \/ OutOfPoints(r) \/ NoCard(r)
      PROVE  RecapTypeOK'
  <2>1. /\ posted' \subseteq Night /\ recapFaults' \in 0..MaxFaults
        /\ UNCHANGED <<today, uploaded, record, cards, shown, recapGhosts, invoked>>
    <3>1. CASE Claim(r)
      <4>1. run[r].night \in Night  BY <3>1 DEF Claim, RunSound, TaskSound
      <4> QED  BY <3>1, <4>1 DEF Claim
    <3>2. CASE Draw(r)  BY <3>2 DEF Draw
    <3>3. CASE OutOfPoints(r)  BY <3>3 DEF OutOfPoints
    <3>4. CASE NoCard(r)  BY <3>4 DEF NoCard
    <3>5. CASE Release(r)  BY <3>5 DEF Release
    <3> QED  BY <1>5, <3>1, <3>2, <3>3, <3>4, <3>5
  <2>2. \E t \in Task : run' = [run EXCEPT ![r] = t]
    BY <1>5, TaskTypes DEF Claim, Draw, Release, OutOfPoints, NoCard, RecapStep
  <2> QED  BY <2>1, <2>2
<1>6. ASSUME NEW r \in RecapRun, Look(r) PROVE RecapTypeOK'
  <2>1. run[r] \in Task /\ run[r].night \in Night /\ run[r].logs \in SUBSET Uploader
    BY <1>6 DEF Look, RunSound, TaskSound, Task
  <2>2. PICK logs \in Readings(run[r].night, run[r].logs, run[r].kind = "recheck") :
          LET now == PullsIn(run[r].night, logs) IN
          run' = [run EXCEPT ![r] =
                    IF logs = {} THEN Idle
                    ELSE IF run[r].kind = "recheck" /\ now <= run[r].base.pulls
                    THEN [run[r] EXCEPT !.at = "mark"]
                    ELSE [run[r] EXCEPT !.at = "earlier", !.logs = logs, !.pulls = now]]
    BY <1>6 DEF Look
  <2>3. logs \in SUBSET Uploader
    <3> DEFINE n == run[r].night
               named == run[r].logs
               search == run[r].kind = "recheck"
    <3>1. logs \in Readings(n, named, search)  BY <2>2
    <3>2. n \in Night /\ named \in SUBSET Uploader  BY <2>1
    <3> HIDE DEF n, named, search
    <3>3. Readings(n, named, search) \subseteq SUBSET Uploader  BY <3>2, ReadingLogs
    <3> QED  BY <3>1, <3>3
  <2>4. PullsIn(run[r].night, logs) \in Nat  BY <2>1, <2>3, PullsCount
  <2>5. \E t \in Task : run' = [run EXCEPT ![r] = t]
    BY <2>1, <2>2, <2>3, <2>4, TaskTypes DEF RecapStep
  <2> QED  BY <1>6, <2>5 DEF Look
<1>7. ASSUME NEW r \in RecapRun, ReadEarlier(r) PROVE RecapTypeOK'
  <2> DEFINE t == run[r]
             note == [by |-> t.kind, now |-> t.pulls, was |-> IF t.kind = "recheck" THEN t.base.pulls ELSE 0]
  <2>1. t \in Task /\ t.night \in Night /\ (t.kind = "recheck" => t.base \in Record) /\ t.kind \in Revising
    <3>1. t.at = "earlier"  BY <1>7 DEF ReadEarlier
    <3> QED  BY <3>1 DEF RunSound, TaskSound, Task
  <2>2. note \in Note
    BY <2>1 DEF Note, Task, Record, Revising
  <2>3. Carried(t.night) \subseteq Note
    BY <2>1 DEF Carried, Record
  <2>4. run' = [run EXCEPT ![r] = [t EXCEPT !.at = "edit", !.notes = Carried(t.night), !.fresh = {note}]]
    BY <1>7 DEF ReadEarlier
  <2>5. \E x \in Task : run' = [run EXCEPT ![r] = x]
    <3> HIDE DEF note
    <3>1. {note} \in SUBSET Note /\ Carried(t.night) \in SUBSET Note /\ "edit" \in RecapStep
      BY <2>2, <2>3 DEF RecapStep
    <3>2. [t EXCEPT !.at = "edit", !.notes = Carried(t.night), !.fresh = {note}] \in Task
      BY <2>1, <3>1, TaskTypes
    <3> QED  BY <2>4, <3>2
  <2> QED  BY <1>7, <2>5 DEF ReadEarlier
<1>8. ASSUME NEW r \in RecapRun, Post(r) PROVE RecapTypeOK'
  <2> DEFINE t == run[r]
  <2>1. t \in Task /\ t.night \in Night /\ t.pulls \in Nat
    BY <1>8 DEF Post, RunSound, TaskSound, Task
  <2>2. \E x \in Task : run' = [run EXCEPT ![r] = x]
    BY <1>8, <2>1, TaskTypes DEF Post, RecapStep
  <2>3. shown' \in [Night -> Card]
    <3>1. [pulls |-> t.pulls, notes |-> {}] \in Card  BY <2>1 DEF Card
    <3> QED  BY <1>8, <2>1, <3>1 DEF Post
  <2>4. PICK unanswered \in 0..(MaxAttempts - 1) :
          /\ IF unanswered = 0 THEN UNCHANGED recapFaults ELSE Fault
          /\ cards' = [cards EXCEPT ![t.night] = @ + (unanswered + 1)]
          /\ doubt' = [doubt EXCEPT ![t.night] = @ + unanswered]
    BY <1>8 DEF Post, Stored
  <2>5. unanswered \in Nat  BY <2>4
  <2>6. recapFaults' \in 0..MaxFaults  BY <2>4
  <2>7. cards' \in [Night -> Nat] /\ doubt' \in [Night -> Nat]
    <3> HIDE DEF t
    <3>1. unanswered + 1 \in Nat  BY <2>5
    <3>2. cards \in [Night -> Nat] /\ doubt \in [Night -> Nat]  OBVIOUS
    <3> QED  BY <2>1, <2>4, <2>5, <3>1, <3>2, Bumped
  <2>8. sure' \subseteq Night  BY <1>8, <2>1 DEF Post
  <2> QED  BY <1>8, <2>2, <2>3, <2>6, <2>7, <2>8 DEF Post
<1>9. ASSUME NEW r \in RecapRun, PostFailed(r) PROVE RecapTypeOK'
  <2>1. run[r] \in Task /\ run[r].night \in Night
    BY <1>9 DEF PostFailed, RunSound, TaskSound
  <2>2. \E x \in Task : run' = [run EXCEPT ![r] = x]
    BY <1>9, <2>1, TaskTypes DEF PostFailed, RecapStep
  <2>3. PICK unanswered \in 0..MaxAttempts :
          /\ cards' = [cards EXCEPT ![run[r].night] = @ + unanswered]
          /\ doubt' = [doubt EXCEPT ![run[r].night] = @ + unanswered]
    BY <1>9 DEF PostFailed, Stored
  <2>4. unanswered \in Nat  BY <2>3
  <2>5. cards' \in [Night -> Nat] /\ doubt' \in [Night -> Nat]
    <3>1. cards \in [Night -> Nat] /\ doubt \in [Night -> Nat]  OBVIOUS
    <3> QED  BY <2>1, <2>3, <2>4, <3>1, Bumped
  <2>6. /\ recapFaults' \in 0..MaxFaults
        /\ UNCHANGED <<today, uploaded, posted, record, shown, sure, told, looks, raced, unrecorded, invoked>>
    BY <1>9 DEF PostFailed
  <2> QED  BY <2>2, <2>5, <2>6
<1>10. ASSUME NEW r \in RecapRun, Edit(r) PROVE RecapTypeOK'
  <2>1. run[r] \in Task /\ run[r].night \in Night
    BY <1>10 DEF Edit, RunSound, TaskSound
  <2>2. \E x \in Task : run' = [run EXCEPT ![r] = x]
    BY <1>10, <2>1, TaskTypes DEF Edit, RecapStep
  <2>3. Redrawn(run[r]) \in Card /\ run[r].fresh \subseteq Note
    BY <2>1 DEF Redrawn, Card, Task
  <2>4. shown' \in [Night -> Card]  BY <1>10, <2>1, <2>3 DEF Edit
  <2>5. told' \in [Night -> SUBSET Note]  BY <1>10, <2>1, <2>3 DEF Edit
  <2>6. looks' \in [Night -> Nat]  BY <1>10, <2>1 DEF Edit
  <2> QED  BY <1>10, <2>2, <2>4, <2>5, <2>6 DEF Edit
<1>11. ASSUME NEW r \in RecapRun, EditFailed(r) \/ RecapEnds(r) PROVE RecapTypeOK'
  <2>1. run[r] \in Task /\ run[r].night \in Night
    BY <1>11 DEF EditFailed, RecapEnds, Busy, RunSound, TaskSound
  <2>2. Redrawn(run[r]) \in Card
    BY <2>1 DEF Redrawn, Card, Task
  <2>3. /\ shown' \in {shown, [shown EXCEPT ![run[r].night] = Redrawn(run[r])]}
        /\ unrecorded' \in {unrecorded, unrecorded \cup {run[r].night}}
        /\ cards' \in {cards, [cards EXCEPT ![run[r].night] = @ + 1]}
        /\ doubt' \in {doubt, [doubt EXCEPT ![run[r].night] = @ + 1]}
        /\ run' = [run EXCEPT ![r] = Idle] /\ recapFaults' \in 0..MaxFaults
        /\ UNCHANGED <<today, uploaded, posted, record, sure, told, looks, raced, invoked>>
    <3>1. CASE EditFailed(r)  BY <3>1 DEF EditFailed
    <3>2. CASE RecapEnds(r)  BY <3>2 DEF RecapEnds, Stored
    <3> QED  BY <1>11, <3>1, <3>2
  <2>4. shown' \in [Night -> Card]  BY <2>1, <2>2, <2>3
  <2>5. cards' \in [Night -> Nat] /\ doubt' \in [Night -> Nat]  BY <2>1, <2>3
  <2> QED  BY <2>1, <2>3, <2>4, <2>5
<1>12. ASSUME NEW r \in RecapRun, ReadBefore(r) PROVE RecapTypeOK'
  <2>1. run[r] \in Task /\ record[run[r].night] \in Record \cup {NoRecord}
    BY <1>12 DEF ReadBefore, RunSound, TaskSound
  <2>2. [run[r] EXCEPT !.at = "write", !.base = record[run[r].night]] \in Task
    <3>1. "write" \in RecapStep  BY DEF RecapStep
    <3> QED  BY <2>1, <3>1, TaskTypes
  <2> QED  BY <1>12, <2>2 DEF ReadBefore
<1>13. ASSUME NEW r \in RecapRun, Remember(r) \/ MarkRechecked(r) PROVE RecapTypeOK'
  <2>1. \E new \in Record : record' = [record EXCEPT ![run[r].night] = new]
    <3>1. CASE Remember(r)
      <4>1. Remembered(run[r]) \in Record  BY RecordTypes
      <4> QED  BY <3>1, <4>1 DEF Remember
    <3>2. CASE MarkRechecked(r)
      <4>1. run[r].base \in Record  BY <3>2 DEF MarkRechecked, RunSound, TaskSound
      <4>2. [run[r].base EXCEPT !.rechecked = TRUE] \in Record  BY <4>1, RecordTypes
      <4> QED  BY <3>2, <4>2 DEF MarkRechecked
    <3> QED  BY <1>13, <3>1, <3>2
  <2>2. record' \in [Night -> Record \cup {NoRecord}]  BY <2>1
  <2> QED  BY <1>13, <2>2 DEF Remember, MarkRechecked
<1> QED
  BY <1>1, <1>2, <1>3, <1>4, <1>5, <1>6, <1>7, <1>8, <1>9, <1>10, <1>11, <1>12, <1>13
  DEF RecapNext, RecapStepOf

(* Nothing the properties remember is forgotten. *)
LEMMA Grows ==
  [RecapNext]_recapVars => sure \subseteq sure' /\ Quiet' \subseteq Quiet
<1> SUFFICES ASSUME [RecapNext]_recapVars PROVE sure \subseteq sure' /\ Quiet' \subseteq Quiet
  OBVIOUS
<1> USE DEF Quiet, recapGhosts
<1>1. CASE UNCHANGED recapVars  BY <1>1 DEF recapVars
<1>2. CASE NextDay  BY <1>2 DEF NextDay
<1>3. ASSUME NEW n \in Night, NEW u \in Uploader, Upload(n, u)
      PROVE  sure \subseteq sure' /\ Quiet' \subseteq Quiet
  BY <1>3 DEF Upload
<1>4. ASSUME NEW r \in RecapRun, RecapStepOf(r) PROVE sure \subseteq sure' /\ Quiet' \subseteq Quiet
  BY <1>4 DEF RecapStepOf, Claim, Draw, Post, PostFailed, Release, Look, OutOfPoints, ReadEarlier,
              NoCard, Edit, EditFailed, ReadBefore, Remember, MarkRechecked
<1>5. ASSUME NEW r \in RecapRun, RecapEnds(r) PROVE sure \subseteq sure' /\ Quiet' \subseteq Quiet
  BY <1>5 DEF RecapEnds
<1>6. ASSUME NEW r \in RecapRun, NEW n \in Night, RecapStarts(r, n)
      PROVE  sure \subseteq sure' /\ Quiet' \subseteq Quiet
  BY <1>6 DEF RecapStarts, StartRecap, StartRecheck, StartHand, Meets
<1> QED  BY <1>1, <1>2, <1>3, <1>4, <1>5, <1>6 DEF RecapNext

(* What a step of an invocation leaves alone. *)
LEMMA StepMoves ==
  ASSUME RecapTypeOK, RunSound, NEW r \in RecapRun, RecapStepOf(r) \/ RecapEnds(r)
  PROVE  /\ run[r].at # "idle" /\ run[r].night \in Night
         /\ \A q \in RecapRun \ {r} : run'[q] = run[q]
         /\ run'[r].at = "idle" \/ run'[r].night = run[r].night
         /\ \A n \in Night \ {run[r].night} :
              /\ shown'[n] = shown[n] /\ told'[n] = told[n] /\ looks'[n] = looks[n]
              /\ record'[n] = record[n] /\ cards'[n] = cards[n] /\ doubt'[n] = doubt[n]
              /\ n \in posted' <=> n \in posted
              /\ n \in sure' <=> n \in sure
<1> USE IdleTask DEF RecapTypeOK, recapGhosts, At, Step, Move, Over, Busy
<1>1. run[r] \in Task  OBVIOUS
<1>2. run[r].at # "idle"
  BY DEF RecapStepOf, RecapEnds, Claim, Draw, Post, PostFailed, Release, Look, OutOfPoints,
         ReadEarlier, NoCard, Edit, EditFailed, ReadBefore, Remember, MarkRechecked
<1>3. run[r].night \in Night  BY <1>2 DEF RunSound, TaskSound
<1>4. CASE Claim(r) \/ Draw(r) \/ Release(r) \/ OutOfPoints(r) \/ NoCard(r)
  <2>1. CASE Claim(r)  BY <1>1, <1>2, <1>3, <2>1 DEF Claim, Task
  <2>2. CASE Draw(r)  BY <1>1, <1>2, <1>3, <2>2 DEF Draw, Task
  <2>3. CASE Release(r)  BY <1>1, <1>2, <1>3, <2>3 DEF Release, Task
  <2>4. CASE OutOfPoints(r)  BY <1>1, <1>2, <1>3, <2>4 DEF OutOfPoints, Task
  <2>5. CASE NoCard(r)  BY <1>1, <1>2, <1>3, <2>5 DEF NoCard, Task
  <2> QED  BY <1>4, <2>1, <2>2, <2>3, <2>4, <2>5
<1>5. CASE Look(r)
  BY <1>1, <1>2, <1>3, <1>5 DEF Look, Task
<1>6. CASE Post(r) \/ PostFailed(r)
  BY <1>1, <1>2, <1>3, <1>6 DEF Post, PostFailed, Stored, Task
<1>7. CASE ReadEarlier(r) \/ ReadBefore(r)
  <2>1. CASE ReadEarlier(r)  BY <1>1, <1>2, <1>3, <2>1 DEF ReadEarlier, Task
  <2>2. CASE ReadBefore(r)  BY <1>1, <1>2, <1>3, <2>2 DEF ReadBefore, Task
  <2> QED  BY <1>7, <2>1, <2>2
<1>8. CASE Edit(r) \/ EditFailed(r)
  BY <1>1, <1>2, <1>3, <1>8 DEF Edit, EditFailed, Task
<1>9. CASE Remember(r) \/ MarkRechecked(r)
  BY <1>1, <1>2, <1>3, <1>9 DEF Remember, MarkRechecked, Task
<1>10. CASE RecapEnds(r)
  BY <1>1, <1>2, <1>3, <1>10 DEF RecapEnds, Stored, Task
<1> QED
  BY <1>4, <1>5, <1>6, <1>7, <1>8, <1>9, <1>10 DEF RecapStepOf

(* What a start does: nobody is at work on a night that stays quiet. *)
LEMMA StartMoves ==
  ASSUME RecapTypeOK, NEW r \in RecapRun, NEW n \in Night, RecapStarts(r, n)
  PROVE  /\ run[r].at = "idle"
         /\ \A q \in RecapRun \ {r} : run'[q] = run[q]
         /\ run'[r].night = n
         /\ n \in Quiet' => \A q \in RecapRun \ {r} : ~WorksOn(q, n)
         /\ UNCHANGED <<posted, record, cards, shown, sure, doubt, told, looks>>
         /\ \/ run'[r].at = "claim" /\ run'[r].kind \in Posting
            \/ /\ run'[r].at = "look" /\ run'[r].kind = "recheck" /\ run'[r].base = record[n]
               /\ record[n] \in Record /\ ~record[n].rechecked
            \/ run'[r].at = "look" /\ run'[r].kind = "hand" /\ n \in sure
<1> USE IdleTask DEF RecapTypeOK, At, Step
<1>0. Idle = [at |-> "idle", kind |-> "schedule", night |-> 0, logs |-> {}, pulls |-> 0,
              base |-> NoRecord, notes |-> {}, fresh |-> {}, private |-> FALSE]
  BY DEF Idle
<1>1. ASSUME Meets(r, n) PROVE n \in Quiet' => \A q \in RecapRun \ {r} : ~WorksOn(q, n)
  BY <1>1 DEF Meets, Quiet, WorksOn
<1>2. ASSUME NEW kind \in Posting, StartRecap(r, n, kind)
      PROVE  /\ run[r].at = "idle" /\ Meets(r, n)
             /\ UNCHANGED <<posted, record, cards, shown, sure, doubt, told, looks>>
             /\ run'[r].at = "claim" /\ run'[r].night = n /\ run'[r].kind \in Posting
             /\ \A q \in RecapRun \ {r} : run'[q] = run[q]
  <2>1. PICK logs \in Readings(n, {Guild}, TRUE) :
          run' = [run EXCEPT ![r] = [Idle EXCEPT !.at = "claim", !.kind = kind, !.night = n,
                                       !.logs = logs, !.pulls = PullsIn(n, logs)]]
    BY <1>2 DEF StartRecap
  <2>2. run'[r] = [Idle EXCEPT !.at = "claim", !.kind = kind, !.night = n,
                                       !.logs = logs, !.pulls = PullsIn(n, logs)]
    BY <2>1
  <2>3. run'[r].at = "claim" /\ run'[r].night = n /\ run'[r].kind = kind
    BY <1>0, <2>2
  <2>4. \A q \in RecapRun \ {r} : run'[q] = run[q]
    BY <2>1
  <2> QED  BY <1>2, <2>3, <2>4 DEF StartRecap
<1>3. CASE StartRecheck(r, n)
  BY <1>0, <1>1, <1>3 DEF StartRecheck, Due
<1>4. ASSUME NEW named \in (SUBSET Uploader) \ {{}}, StartHand(r, n, named)
      PROVE  /\ run[r].at = "idle" /\ Meets(r, n)
             /\ UNCHANGED <<posted, record, cards, shown, sure, doubt, told, looks>>
             /\ run'[r].at = "look" /\ run'[r].night = n /\ run'[r].kind = "hand" /\ n \in sure
             /\ \A q \in RecapRun \ {r} : run'[q] = run[q]
  BY <1>0, <1>4 DEF StartHand
<1> QED  BY <1>1, <1>2, <1>3, <1>4 DEF RecapStarts

(* Which steps an invocation takes. *)
LEMMA RunSoundStep ==
  RecapTypeOK /\ RunSound /\ ClaimsHeld /\ [RecapNext]_recapVars => RunSound'
<1> SUFFICES ASSUME RecapTypeOK, RunSound, ClaimsHeld, [RecapNext]_recapVars PROVE RunSound'
  OBVIOUS
<1>1. sure \subseteq sure'  BY Grows
<1>2. ASSUME NEW r \in RecapRun, \A q \in RecapRun \ {r} : run'[q] = run[q], TaskSound(run'[r], sure')
      PROVE  RunSound'
  <2>1. ASSUME NEW q \in RecapRun, q # r PROVE TaskSound(run'[q], sure')
    <3>1. run'[q] = run[q] /\ TaskSound(run[q], sure)  BY <1>2, <2>1 DEF RunSound
    <3> QED  BY <1>1, <3>1 DEF TaskSound
  <2> QED  BY <1>2, <2>1 DEF RunSound
<1>3. CASE UNCHANGED run
  BY <1>1, <1>3 DEF RunSound, TaskSound
<1>4. ASSUME NEW r \in RecapRun, NEW n \in Night, RecapStarts(r, n) PROVE RunSound'
  <2>1. run'[r].at = "look" /\ record[n] \in Record => n \in sure
    BY RecapNoRecord DEF ClaimsHeld
  <2>2. run'[r].at = "look" => n \in sure
    BY <1>4, <2>1, StartMoves
  <2>3. TaskSound(run'[r], sure')
    BY <1>1, <1>4, <2>2, StartMoves DEF TaskSound, Posting, Revising
  <2> QED  BY <1>2, <1>4, <2>3, StartMoves
<1>5. ASSUME NEW r \in RecapRun, RecapStepOf(r) \/ RecapEnds(r) PROVE RunSound'
  <2> SUFFICES TaskSound(run'[r], sure')
    BY <1>2, <1>5, StepMoves
  <2> USE DEF RecapTypeOK, At, Step, Move, Over
  <2>0. run[r] \in Task /\ TaskSound(run[r], sure)  BY DEF RunSound
  <2>1. ASSUME run'[r] = Idle PROVE TaskSound(run'[r], sure')
    BY <2>1 DEF TaskSound, Idle
  <2>2. CASE Claim(r) \/ Draw(r) \/ PostFailed(r)
    <3>1. ASSUME run[r].at \in {"claim", "draw", "post"},
                 NEW x \in {"draw", "post", "release"}, run'[r].at = x,
                 run'[r].night = run[r].night, run'[r].kind = run[r].kind
          PROVE  TaskSound(run'[r], sure')
      BY <2>0, <3>1 DEF TaskSound
    <3>2. CASE Claim(r)
      BY <2>0, <2>1, <3>1, <3>2 DEF Claim, Task
    <3>3. CASE Draw(r)
      BY <2>0, <3>1, <3>3 DEF Draw, Task
    <3>4. CASE PostFailed(r)
      BY <2>0, <3>1, <3>4 DEF PostFailed, Task
    <3> QED  BY <2>2, <3>2, <3>3, <3>4
  <2>3. CASE Post(r)
    <3>1. run[r].night \in sure' /\ run[r].at = "post"  BY <2>3 DEF Post
    <3>2. CASE run' = [run EXCEPT ![r] = Idle]  BY <2>1, <3>2
    <3>3. CASE run' = [run EXCEPT ![r].at = "before"]
      <4>1. run'[r].at = "before" /\ run'[r].night = run[r].night  BY <2>0, <3>3 DEF Task
      <4> QED  BY <2>0, <3>1, <4>1 DEF TaskSound
    <3> QED  BY <2>3, <3>2, <3>3 DEF Post
  <2>4. CASE Look(r) \/ OutOfPoints(r)
    <3>1. ASSUME run[r].at = "look", NEW x \in {"mark", "earlier"}, run'[r].at = x,
                 x = "mark" => run[r].kind = "recheck",
                 run'[r].night = run[r].night, run'[r].kind = run[r].kind,
                 run'[r].base = run[r].base
          PROVE  TaskSound(run'[r], sure')
      BY <1>1, <2>0, <3>1 DEF TaskSound
    <3>2. CASE OutOfPoints(r)
      BY <2>0, <2>1, <3>1, <3>2 DEF OutOfPoints, Task
    <3>3. CASE Look(r)
      <4>1. \/ run'[r] = Idle
            \/ run[r].kind = "recheck" /\ run'[r] = [run[r] EXCEPT !.at = "mark"]
            \/ \E logs, k : run'[r] = [run[r] EXCEPT !.at = "earlier", !.logs = logs, !.pulls = k]
        <5>1. PICK logs \in Readings(run[r].night, run[r].logs, run[r].kind = "recheck") :
                LET now == PullsIn(run[r].night, logs) IN
                run' = [run EXCEPT ![r] =
                          IF logs = {} THEN Idle
                          ELSE IF run[r].kind = "recheck" /\ now <= run[r].base.pulls
                          THEN [run[r] EXCEPT !.at = "mark"]
                          ELSE [run[r] EXCEPT !.at = "earlier", !.logs = logs, !.pulls = now]]
          BY <3>3 DEF Look
        <5> DEFINE now == PullsIn(run[r].night, logs)
        <5>2. run'[r] = IF logs = {} THEN Idle
                        ELSE IF run[r].kind = "recheck" /\ now <= run[r].base.pulls
                        THEN [run[r] EXCEPT !.at = "mark"]
                        ELSE [run[r] EXCEPT !.at = "earlier", !.logs = logs, !.pulls = now]
          BY <5>1
        <5> HIDE DEF now
        <5> QED  BY <5>2
      <4>2. run[r].at = "look"  BY <3>3 DEF Look
      <4> QED  BY <2>0, <2>1, <3>1, <4>1, <4>2 DEF Task
    <3> QED  BY <2>4, <3>2, <3>3
  <2>5. CASE ReadEarlier(r) \/ ReadBefore(r) \/ Edit(r)
    <3>1. ASSUME NEW x \in {"edit", "write", "before"}, run'[r].at = x,
                 run[r].at = IF x = "edit" THEN "earlier" ELSE IF x = "write" THEN "before" ELSE "edit",
                 run'[r].night = run[r].night, run'[r].kind = run[r].kind
          PROVE  TaskSound(run'[r], sure')
      BY <1>1, <2>0, <3>1 DEF TaskSound
    <3>2. CASE ReadEarlier(r)
      <4>1. \E notes, fresh :
              run'[r] = [run[r] EXCEPT !.at = "edit", !.notes = notes, !.fresh = fresh]
        BY <3>2 DEF ReadEarlier
      <4>2. run[r].at = "earlier"  BY <3>2 DEF ReadEarlier
      <4> QED  BY <2>0, <3>1, <4>1, <4>2 DEF Task
    <3>3. CASE ReadBefore(r)  BY <2>0, <3>1, <3>3 DEF ReadBefore, Task
    <3>4. CASE Edit(r)  BY <2>0, <3>1, <3>4 DEF Edit, Task
    <3> QED  BY <2>5, <3>2, <3>3, <3>4
  <2>6. CASE Release(r) \/ NoCard(r) \/ EditFailed(r) \/ Remember(r) \/ MarkRechecked(r) \/ RecapEnds(r)
    <3>1. run'[r] = Idle
      BY <2>6 DEF Release, NoCard, EditFailed, Remember, MarkRechecked, RecapEnds
    <3> QED  BY <2>1, <3>1
  <2> QED
    BY <1>5, <2>2, <2>3, <2>4, <2>5, <2>6 DEF RecapStepOf
<1> QED
  BY <1>3, <1>4, <1>5 DEF RecapNext, NextDay, Upload, recapVars

(* A claim has one holder until its card is sure. *)
LEMMA ClaimsStep ==
  RecapTypeOK /\ RunSound /\ ClaimsHeld /\ [RecapNext]_recapVars => ClaimsHeld'
<1> SUFFICES ASSUME RecapTypeOK, RunSound, ClaimsHeld, [RecapNext]_recapVars PROVE ClaimsHeld'
  OBVIOUS
<1>1. CASE UNCHANGED <<run, posted, sure, cards, doubt, told, looks, record>>
  BY <1>1 DEF ClaimsHeld, Drawing
<1>2. ASSUME NEW r \in RecapRun, NEW n \in Night, RecapStarts(r, n) PROVE ClaimsHeld'
  <2>1. ~Drawing(r)'  BY <1>2, StartMoves DEF Drawing
  <2>2. \A q \in RecapRun \ {r} : run'[q] = run[q]  BY <1>2, StartMoves
  <2>3. UNCHANGED <<posted, record, cards, sure, doubt, told, looks>>  BY <1>2, StartMoves
  <2> QED  BY <2>1, <2>2, <2>3 DEF ClaimsHeld, Drawing
<1>3. ASSUME NEW r \in RecapRun, RecapStepOf(r) \/ RecapEnds(r) PROVE ClaimsHeld'
  <2> DEFINE n == run[r].night
  <2> USE DEF RecapTypeOK, At, Step, Move, Over
  <2>0. run[r] \in Task /\ TaskSound(run[r], sure)  BY DEF RunSound
  <2>1. /\ n \in Night
        /\ \A q \in RecapRun \ {r} : run'[q] = run[q]
        /\ run'[r].at = "idle" \/ run'[r].night = n
        /\ \A m \in Night \ {n} :
             /\ told'[m] = told[m] /\ looks'[m] = looks[m] /\ record'[m] = record[m]
             /\ cards'[m] = cards[m] /\ doubt'[m] = doubt[m]
             /\ (m \in posted' <=> m \in posted) /\ (m \in sure' <=> m \in sure)
    BY <1>3, StepMoves
  <2>2. sure \subseteq Night /\ posted \subseteq Night /\ sure' \subseteq Night
    BY RecapTypes
  <2>3. ASSUME n \in sure' => n \in posted',
               cards'[n] <= doubt'[n] + (IF n \in sure' THEN 1 ELSE 0),
               n \notin sure' => told'[n] = {} /\ looks'[n] = 0 /\ record'[n] = NoRecord,
               Drawing(r)' => run'[r].night = n /\ n \in posted' \ sure',
               \A q \in RecapRun \ {r} : Drawing(q) =>
                 /\ run[q].night = n => n \in posted' \ sure'
                 /\ Drawing(r)' => run[q].night # n
        PROVE  ClaimsHeld'
    <3>1. sure' \subseteq posted'  BY <2>1, <2>2, <2>3 DEF ClaimsHeld
    <3>2. \A m \in Night : cards'[m] <= doubt'[m] + (IF m \in sure' THEN 1 ELSE 0)
      BY <2>1, <2>3 DEF ClaimsHeld
    <3>3. \A m \in Night : m \notin sure' => told'[m] = {} /\ looks'[m] = 0 /\ record'[m] = NoRecord
      BY <2>1, <2>3 DEF ClaimsHeld
    <3>4. \A q \in RecapRun : Drawing(q)' => run'[q].night \in posted' \ sure'
      <4>1. ASSUME NEW q \in RecapRun \ {r}, Drawing(q)' PROVE run'[q].night \in posted' \ sure'
        <5>1. Drawing(q) /\ run'[q] = run[q] /\ run[q].night \in posted \ sure
          BY <2>1, <4>1 DEF Drawing, ClaimsHeld
        <5> QED  BY <2>1, <2>2, <2>3, <5>1
      <4> QED  BY <2>3, <4>1
    <3>5. ASSUME NEW q \in RecapRun, NEW s \in RecapRun \ {q}, Drawing(q)', Drawing(s)'
          PROVE  run'[s].night # run'[q].night
      BY <2>1, <2>3, <3>5 DEF Drawing, ClaimsHeld
    <3> QED  BY <3>1, <3>2, <3>3, <3>4, <3>5 DEF ClaimsHeld
  <2>4. ASSUME UNCHANGED <<posted, sure, cards, doubt>>,
               n \in sure \/ UNCHANGED <<told, looks, record>>,
               Drawing(r)' => Drawing(r) /\ run'[r].night = n
        PROVE  ClaimsHeld'
    BY <2>1, <2>3, <2>4 DEF ClaimsHeld
  <2>5. CASE Claim(r)
    <3>1. CASE n \in posted
      <4>1. run'[r].at = "idle"  BY <1>3, <2>5, <3>1, IdleTask DEF Claim
      <4> QED  BY <2>4, <2>5, <3>1, <4>1 DEF Claim, Drawing, recapGhosts
    <3>2. CASE n \notin posted
      <4>1. posted' = posted \cup {n} /\ UNCHANGED <<sure, cards, doubt, told, looks, record>>
        BY <2>5, <3>2 DEF Claim, recapGhosts
      <4>2. run'[r].night = n
        BY <2>0, <2>5, <3>2 DEF Claim, Task
      <4>3. n \notin sure  BY <3>2 DEF ClaimsHeld
      <4> QED  BY <2>1, <2>3, <3>2, <4>1, <4>2, <4>3 DEF ClaimsHeld
    <3> QED  BY <3>1, <3>2
  <2>6. CASE Draw(r)
    <3>1. Drawing(r) /\ run'[r].night = n  BY <2>0, <2>6 DEF Draw, Drawing, Task
    <3> QED  BY <2>4, <2>6, <3>1 DEF Draw, recapGhosts
  <2>7. CASE Post(r)
    <3>1. Drawing(r)  BY <2>7 DEF Post, Drawing
    <3>2. ~Drawing(r)'  BY <2>0, <2>7, IdleTask DEF Post, Drawing, Task
    <3>3. sure' = sure \cup {n} /\ UNCHANGED posted  BY <2>7 DEF Post
    <3>4. n \in posted \ sure /\ \A q \in RecapRun \ {r} : Drawing(q) => run[q].night # n
      BY <3>1 DEF ClaimsHeld
    <3>5. PICK unanswered \in 0..(MaxAttempts - 1) :
            /\ cards' = [cards EXCEPT ![n] = @ + (unanswered + 1)]
            /\ doubt' = [doubt EXCEPT ![n] = @ + unanswered]
      BY <2>7 DEF Post, Stored
    <3>6. cards'[n] = cards[n] + unanswered + 1 /\ doubt'[n] = doubt[n] + unanswered
      <4>1. cards[n] \in Nat /\ unanswered \in Nat  BY <2>1, <3>5
      <4>2. cards'[n] = cards[n] + (unanswered + 1) /\ doubt'[n] = doubt[n] + unanswered
        BY <2>1, <3>5
      <4>3. \A a \in Nat, b \in Nat : a + (b + 1) = a + b + 1  OBVIOUS
      <4> QED  BY <4>1, <4>2, <4>3
    <3>7. cards[n] <= doubt[n]  BY <2>1, <3>4 DEF ClaimsHeld
    <3>8. cards'[n] <= doubt'[n] + 1
      <4>1. cards[n] \in Nat /\ doubt[n] \in Nat /\ unanswered \in Nat  BY <2>1, <3>5
      <4> QED  BY <3>6, <3>7, <4>1
    <3> QED  BY <2>3, <3>2, <3>3, <3>4, <3>8
  <2>8. CASE PostFailed(r)
    <3>1. Drawing(r) /\ Drawing(r)' /\ run'[r].night = n
      BY <2>0, <2>8 DEF PostFailed, Drawing, Task
    <3>2. n \in posted \ sure /\ \A q \in RecapRun \ {r} : Drawing(q) => run[q].night # n
      BY <3>1 DEF ClaimsHeld
    <3>3. PICK unanswered \in 0..MaxAttempts :
            /\ cards' = [cards EXCEPT ![n] = @ + unanswered]
            /\ doubt' = [doubt EXCEPT ![n] = @ + unanswered]
      BY <2>8 DEF PostFailed, Stored
    <3>4. cards'[n] <= doubt'[n]
      <4>1. cards[n] \in Nat /\ doubt[n] \in Nat /\ unanswered \in Nat  BY <2>1, <3>3
      <4>2. cards'[n] = cards[n] + unanswered /\ doubt'[n] = doubt[n] + unanswered  BY <2>1, <3>3
      <4>3. cards[n] <= doubt[n]  BY <2>1, <3>2 DEF ClaimsHeld
      <4> QED  BY <4>1, <4>2, <4>3
    <3>5. UNCHANGED <<posted, sure, told, looks, record>>  BY <2>8 DEF PostFailed
    <3>6. cards'[n] <= doubt'[n] + (IF n \in sure' THEN 1 ELSE 0)
      <4>1. doubt'[n] \in Nat  BY <2>1, RecapTypes
      <4> QED  BY <3>2, <3>4, <3>5, <4>1
    <3>7. n \notin sure' => told'[n] = {} /\ looks'[n] = 0 /\ record'[n] = NoRecord
      BY <2>1, <3>5 DEF ClaimsHeld
    <3> QED  BY <2>3, <3>1, <3>2, <3>5, <3>6, <3>7
  <2>9. CASE Release(r)
    <3>1. Drawing(r) /\ ~Drawing(r)'  BY <2>9, IdleTask DEF Release, Drawing
    <3>2. n \in posted \ sure /\ \A q \in RecapRun \ {r} : Drawing(q) => run[q].night # n
      BY <3>1 DEF ClaimsHeld
    <3>3. UNCHANGED <<sure, cards, doubt, told, looks, record>>  BY <2>9 DEF Release, recapGhosts
    <3>4. cards'[n] <= doubt'[n] + (IF n \in sure' THEN 1 ELSE 0)
      BY <2>1, <3>3 DEF ClaimsHeld
    <3>5. n \notin sure' => told'[n] = {} /\ looks'[n] = 0 /\ record'[n] = NoRecord
      BY <2>1, <3>3 DEF ClaimsHeld
    <3> QED  BY <2>3, <3>1, <3>2, <3>3, <3>4, <3>5
  <2>10. CASE Look(r) \/ OutOfPoints(r) \/ ReadEarlier(r) \/ ReadBefore(r) \/ NoCard(r)
    <3>1. UNCHANGED <<posted, sure, cards, doubt, told, looks, record>>
      BY <2>10 DEF Look, OutOfPoints, ReadEarlier, ReadBefore, NoCard, recapGhosts
    <3>2. ~Drawing(r)'
      <4>1. CASE Look(r)  BY <2>0, <4>1, IdleTask DEF Look, Drawing, Task
      <4>2. CASE OutOfPoints(r)  BY <2>0, <4>2, IdleTask DEF OutOfPoints, Drawing, Task
      <4>3. CASE ReadEarlier(r)  BY <2>0, <4>3 DEF ReadEarlier, Drawing, Task
      <4>4. CASE ReadBefore(r)  BY <2>0, <4>4 DEF ReadBefore, Drawing, Task
      <4>5. CASE NoCard(r)  BY <4>5, IdleTask DEF NoCard, Drawing
      <4> QED  BY <2>10, <4>1, <4>2, <4>3, <4>4, <4>5
    <3> QED  BY <2>4, <3>1, <3>2
  <2>11. CASE Edit(r) \/ EditFailed(r) \/ Remember(r) \/ MarkRechecked(r)
    <3>1. UNCHANGED <<posted, sure, cards, doubt>>
      BY <2>11 DEF Edit, EditFailed, Remember, MarkRechecked, recapGhosts
    <3>2. n \in sure
      BY <2>0, <2>11 DEF TaskSound, Edit, EditFailed, Remember, MarkRechecked
    <3>3. ~Drawing(r)'
      <4>1. CASE Edit(r)  BY <2>0, <4>1 DEF Edit, Drawing, Task
      <4>2. CASE ~Edit(r)
        BY <2>11, <4>2, IdleTask DEF EditFailed, Remember, MarkRechecked, Drawing
      <4> QED  BY <4>1, <4>2
    <3> QED  BY <2>4, <3>1, <3>2, <3>3
  <2>12. CASE RecapEnds(r)
    <3>1. ~Drawing(r)' /\ UNCHANGED <<posted, sure, told, looks, record>>
      BY <2>12, IdleTask DEF RecapEnds, Drawing
    <3>2. CASE UNCHANGED <<cards, doubt>>  BY <2>4, <3>1, <3>2
    <3>3. CASE /\ cards' = [cards EXCEPT ![n] = @ + 1]
               /\ doubt' = [doubt EXCEPT ![n] = @ + 1]
      <4>1. cards[n] \in Nat /\ doubt[n] \in Nat  BY <2>1
      <4>2. cards'[n] = cards[n] + 1 /\ doubt'[n] = doubt[n] + 1  BY <2>1, <3>3
      <4>3. cards[n] <= doubt[n] + (IF n \in sure THEN 1 ELSE 0)  BY <2>1 DEF ClaimsHeld
      <4>4. cards'[n] <= doubt'[n] + (IF n \in sure' THEN 1 ELSE 0)  BY <3>1, <4>1, <4>2, <4>3
      <4>5. n \notin sure' => told'[n] = {} /\ looks'[n] = 0 /\ record'[n] = NoRecord
        BY <2>1, <3>1 DEF ClaimsHeld
      <4> QED  BY <2>1, <2>3, <3>1, <4>4, <4>5 DEF ClaimsHeld
    <3> QED  BY <2>12, <3>2, <3>3 DEF RecapEnds, Stored
  <2> QED
    BY <1>3, <2>5, <2>6, <2>7, <2>8, <2>9, <2>10, <2>11, <2>12 DEF RecapStepOf
<1> QED
  BY <1>1, <1>2, <1>3 DEF RecapNext, NextDay, Upload, recapVars, recapGhosts

(* Two invocations on a night make it one that two met on. *)
LEMMA AloneStep ==
  RecapTypeOK /\ RunSound /\ Alone /\ [RecapNext]_recapVars => Alone'
<1> SUFFICES ASSUME RecapTypeOK, RunSound, Alone, [RecapNext]_recapVars PROVE Alone'
  OBVIOUS
<1>1. Quiet' \subseteq Quiet  BY Grows
<1> USE DEF Busy, At
<1>2. CASE UNCHANGED run  BY <1>1, <1>2 DEF Alone, WorksOn
<1>3. ASSUME NEW r \in RecapRun, NEW n \in Night, RecapStarts(r, n) PROVE Alone'
  <2>1. /\ \A q \in RecapRun \ {r} : run'[q] = run[q]
        /\ run'[r].night = n
        /\ n \in Quiet' => \A q \in RecapRun \ {r} : ~WorksOn(q, n)
    BY <1>3, StartMoves
  <2> QED  BY <1>1, <2>1 DEF Alone, WorksOn
<1>4. ASSUME NEW r \in RecapRun, RecapStepOf(r) \/ RecapEnds(r) PROVE Alone'
  <2>1. /\ run[r].at # "idle"
        /\ \A q \in RecapRun \ {r} : run'[q] = run[q]
        /\ run'[r].at = "idle" \/ run'[r].night = run[r].night
    BY <1>4, StepMoves
  <2>2. \A q \in RecapRun, n \in Night : WorksOn(q, n)' => WorksOn(q, n)
    BY <2>1 DEF WorksOn
  <2> QED  BY <1>1, <2>2 DEF Alone, Quiet
<1> QED
  BY <1>2, <1>3, <1>4 DEF RecapNext, NextDay, Upload, recapVars

(* A night is as it was when nothing of it changed, nor who works on it. *)
LEMMA RecordedElsewhere ==
  ASSUME NEW n \in Night, RecordedAt(n),
         shown'[n] = shown[n], told'[n] = told[n], looks'[n] = looks[n], record'[n] = record[n],
         \A q \in RecapRun : WorksOn(q, n)' => WorksOn(q, n) /\ run'[q] = run[q],
         \A q \in RecapRun : WorksOn(q, n) /\ Recording(q) => WorksOn(q, n)' /\ run'[q] = run[q]
  PROVE  RecordedAt(n)'
<1>1. Carried(n)' = Carried(n)  BY DEF Carried
<1>2. (\A q \in RecapRun : WorksOn(q, n)' => ~Recording(q)') =>
        \A q \in RecapRun : WorksOn(q, n) => ~Recording(q)
  BY DEF Recording
<1>3. told'[n] \subseteq shown'[n].notes  BY DEF RecordedAt
<1>4. (\A q \in RecapRun : WorksOn(q, n)' => ~Recording(q)') =>
        /\ told'[n] \subseteq Carried(n)'
        /\ looks'[n] # 0 => record'[n] # NoRecord /\ record'[n].rechecked
  BY <1>1, <1>2 DEF RecordedAt
<1>5. ASSUME NEW q \in RecapRun, WorksOn(q, n)'
      PROVE  LET t == run'[q] IN
             /\ Recording(q)' =>
                  /\ told'[n] \subseteq Carried(n)' \cup t.fresh
                  /\ looks'[n] # 0 => t.kind = "recheck" \/ (record'[n] # NoRecord /\ record'[n].rechecked)
             /\ t.at = "edit" => told'[n] \subseteq t.notes
             /\ t.at = "write" => t.base = record'[n]
             /\ t.at \in {"look", "earlier", "mark"} /\ t.kind = "recheck" => t.base = record'[n]
             /\ t.at \in {"look", "earlier", "edit"} /\ t.kind = "recheck" => looks'[n] = 0
  <2>1. WorksOn(q, n) /\ run'[q] = run[q]  BY <1>5
  <2> QED  BY <1>1, <2>1 DEF RecordedAt, Recording
<1> QED  BY <1>3, <1>4, <1>5 DEF RecordedAt

(* A night one invocation works on is accounted for when it is. *)
LEMMA RecordedHere ==
  ASSUME NEW n \in Night, NEW r \in RecapRun,
         \A q \in RecapRun \ {r} : ~WorksOn(q, n)',
         told'[n] \subseteq shown'[n].notes,
         ~(WorksOn(r, n)' /\ Recording(r)') =>
           /\ told'[n] \subseteq Carried(n)'
           /\ looks'[n] # 0 => record'[n] # NoRecord /\ record'[n].rechecked,
         WorksOn(r, n)' =>
           LET t == run'[r] IN
           /\ Recording(r)' =>
                /\ told'[n] \subseteq Carried(n)' \cup t.fresh
                /\ looks'[n] # 0 => t.kind = "recheck" \/ (record'[n] # NoRecord /\ record'[n].rechecked)
           /\ t.at = "edit" => told'[n] \subseteq t.notes
           /\ t.at = "write" => t.base = record'[n]
           /\ t.at \in {"look", "earlier", "mark"} /\ t.kind = "recheck" => t.base = record'[n]
           /\ t.at \in {"look", "earlier", "edit"} /\ t.kind = "recheck" => looks'[n] = 0
  PROVE  RecordedAt(n)'
BY DEF RecordedAt

(* The same, for a step that changes nothing but the invocation, whose     *)
(* record is not pending.                                                  *)
LEMMA RecordedStill ==
  ASSUME NEW n \in Night, NEW r \in RecapRun, RecordedAt(n), WorksOn(r, n),
         \A q \in RecapRun \ {r} : ~WorksOn(q, n)',
         \A q \in RecapRun \ {r} : ~WorksOn(q, n),
         ~Recording(r), run'[r].at # "before", run'[r].at # "write",
         shown'[n] = shown[n], told'[n] = told[n], looks'[n] = looks[n], record'[n] = record[n],
         run'[r].at = "edit" => run'[r].notes = Carried(n),
         run'[r].kind = "recheck" /\ run'[r].at \in {"look", "earlier", "edit"} => looks[n] = 0,
         run'[r].kind = "recheck" /\ run'[r].at \in {"look", "earlier", "mark"} =>
           run'[r].base = record[n]
  PROVE  RecordedAt(n)'
<1>1. Carried(n)' = Carried(n)  BY DEF Carried
<1>2. ~Recording(r)'  BY DEF Recording
<1>3. told[n] \subseteq Carried(n) /\ (looks[n] # 0 => record[n] # NoRecord /\ record[n].rechecked)
  BY DEF RecordedAt
<1>4. told[n] \subseteq shown[n].notes  BY DEF RecordedAt
<1> QED  BY <1>1, <1>2, <1>3, <1>4, RecordedHere

(* What a step does to the night its invocation works on alone. *)
LEMMA RecordedNight ==
  ASSUME RecapTypeOK, RunSound, ClaimsHeld,
         NEW r \in RecapRun, RecapStepOf(r) \/ RecapEnds(r),
         NEW n \in Quiet', n \in Night, n = run[r].night, RecordedAt(n), looks[n] <= 1,
         WorksOn(r, n), \A q \in RecapRun \ {r} : ~WorksOn(q, n),
         \A q \in RecapRun \ {r} : ~WorksOn(q, n)'
  PROVE  RecordedAt(n)' /\ looks'[n] <= 1
<1> USE DEF RecapTypeOK, At, Step, Move, Over
<1>1. run[r] \in Task /\ TaskSound(run[r], sure)  BY DEF RunSound
<1>2. told[n] \subseteq shown[n].notes  BY DEF RecordedAt
<1>3. ~Recording(r) =>
        /\ told[n] \subseteq Carried(n)
        /\ looks[n] # 0 => record[n] # NoRecord /\ record[n].rechecked
  BY DEF RecordedAt
<1>4. /\ Recording(r) =>
           /\ told[n] \subseteq Carried(n) \cup run[r].fresh
           /\ looks[n] # 0 => run[r].kind = "recheck" \/ (record[n] # NoRecord /\ record[n].rechecked)
      /\ run[r].at = "edit" => told[n] \subseteq run[r].notes
      /\ run[r].at = "write" => run[r].base = record[n]
      /\ run[r].at \in {"look", "earlier", "mark"} /\ run[r].kind = "recheck" => run[r].base = record[n]
      /\ run[r].at \in {"look", "earlier", "edit"} /\ run[r].kind = "recheck" => looks[n] = 0
  BY DEF RecordedAt
<1>5. Idle.at = "idle"  BY IdleTask
(* Steps that change nothing but the invocation. *)
<1>6. ASSUME ~Recording(r), run'[r].at # "before", run'[r].at # "write",
             UNCHANGED <<shown, told, looks, record>>,
             run'[r].at = "edit" => run'[r].notes = Carried(n),
             run'[r].kind = "recheck" /\ run'[r].at \in {"look", "earlier", "edit"} => looks[n] = 0,
             run'[r].kind = "recheck" /\ run'[r].at \in {"look", "earlier", "mark"} =>
               run'[r].base = record[n]
      PROVE  RecordedAt(n)' /\ looks'[n] <= 1
  BY <1>6, RecordedStill
<1>7. CASE Claim(r) \/ Draw(r) \/ PostFailed(r) \/ Release(r)
  <2>1. UNCHANGED <<shown, told, looks, record>> /\ ~Recording(r)
    BY <1>7 DEF Claim, Draw, PostFailed, Release, Recording, recapGhosts
  <2>2. run'[r].at \in {"idle", "draw", "post", "release"}
    <3>1. CASE Claim(r)  BY <1>1, <1>5, <3>1 DEF Claim, Task
    <3>2. CASE Draw(r)  BY <1>1, <3>2 DEF Draw, Task
    <3>3. CASE PostFailed(r)  BY <1>1, <3>3 DEF PostFailed, Task
    <3>4. CASE Release(r)  BY <1>5, <3>4 DEF Release
    <3> QED  BY <1>7, <3>1, <3>2, <3>3, <3>4
  <2> QED  BY <1>6, <2>1, <2>2
<1>8. CASE Look(r) \/ OutOfPoints(r)
  <2>1. UNCHANGED <<shown, told, looks, record>> /\ ~Recording(r) /\ run[r].at = "look"
    BY <1>8 DEF Look, OutOfPoints, Recording, recapGhosts
  <2>2. \/ run'[r].at = "idle"
        \/ /\ run'[r].at \in {"mark", "earlier"}
           /\ run'[r].kind = run[r].kind /\ run'[r].base = run[r].base
    <3>1. CASE Look(r)
      <4>1. PICK logs \in Readings(n, run[r].logs, run[r].kind = "recheck") :
              LET now == PullsIn(n, logs) IN
              run' = [run EXCEPT ![r] =
                        IF logs = {} THEN Idle
                        ELSE IF run[r].kind = "recheck" /\ now <= run[r].base.pulls
                        THEN [run[r] EXCEPT !.at = "mark"]
                        ELSE [run[r] EXCEPT !.at = "earlier", !.logs = logs, !.pulls = now]]
        BY <3>1 DEF Look
      <4> QED  BY <1>1, <1>5, <4>1 DEF Task
    <3>2. CASE OutOfPoints(r)  BY <1>1, <1>5, <3>2 DEF OutOfPoints, Task
    <3> QED  BY <1>8, <3>1, <3>2
  <2> QED  BY <1>4, <1>6, <2>1, <2>2
<1>9. CASE ReadEarlier(r)
  <2>1. UNCHANGED <<shown, told, looks, record>> /\ ~Recording(r) /\ run[r].at = "earlier"
    BY <1>9 DEF ReadEarlier, Recording, recapGhosts
  <2>2. run'[r].at = "edit" /\ run'[r].notes = Carried(n) /\ run'[r].kind = run[r].kind
    BY <1>1, <1>9 DEF ReadEarlier, Task
  <2> QED  BY <1>4, <1>6, <2>1, <2>2
<1>10. CASE NoCard(r)
  <2>1. UNCHANGED <<shown, told, looks, record>> /\ ~Recording(r) /\ run'[r].at = "idle"
    BY <1>5, <1>10 DEF NoCard, Recording, recapGhosts
  <2> QED  BY <1>6, <2>1
<1>11. CASE Post(r)
  <2>1. UNCHANGED <<told, looks, record>>  BY <1>11 DEF Post
  <2>2. n \notin sure  BY <1>11 DEF Post, ClaimsHeld, Drawing
  <2>3. told[n] = {} /\ looks[n] = 0  BY <2>2 DEF ClaimsHeld
  <2>4. run'[r].at \in {"idle", "before"}  BY <1>1, <1>5, <1>11 DEF Post, Task
  <2>5. RecordedAt(n)'  BY <2>1, <2>3, <2>4, RecordedHere
  <2> QED  BY <2>1, <2>3, <2>5
<1>12. CASE Edit(r)
  <2>1. /\ run[r].at = "edit" /\ ~Recording(r) /\ UNCHANGED record
        /\ told' = [told EXCEPT ![n] = @ \cup run[r].fresh]
        /\ shown' = [shown EXCEPT ![n] = Redrawn(run[r])]
        /\ looks' = [looks EXCEPT ![n] = IF run[r].kind = "recheck" THEN @ + 1 ELSE @]
    BY <1>12 DEF Edit, Recording
  <2>2. run'[r].at = "before" /\ run'[r].kind = run[r].kind /\ run'[r].fresh = run[r].fresh
    BY <1>1, <1>12 DEF Edit, Task
  <2>3. told'[n] = told[n] \cup run[r].fresh  BY <2>1
  <2>4. shown'[n].notes = run[r].notes \cup run[r].fresh  BY <2>1 DEF Redrawn
  <2>5. looks'[n] = IF run[r].kind = "recheck" THEN looks[n] + 1 ELSE looks[n]  BY <2>1
  <2>6. Carried(n)' = Carried(n)  BY <2>1 DEF Carried
  <2>7. looks'[n] <= 1  BY <1>4, <2>1, <2>5
  <2>8. told'[n] \subseteq shown'[n].notes  BY <1>4, <2>1, <2>3, <2>4
  <2>9. WorksOn(r, n)' /\ Recording(r)'
    <3>1. run'[r].night = n  BY <1>1, <1>12 DEF Edit, Task
    <3> QED  BY <2>2, <3>1 DEF WorksOn, Busy, Recording
  <2>10. told'[n] \subseteq Carried(n)' \cup run'[r].fresh  BY <1>3, <2>1, <2>2, <2>3, <2>6
  <2>11. looks'[n] # 0 => run'[r].kind = "recheck" \/ (record'[n] # NoRecord /\ record'[n].rechecked)
    BY <1>3, <2>1, <2>2, <2>5
  <2>12. RecordedAt(n)'  BY <2>2, <2>8, <2>9, <2>10, <2>11, RecordedHere
  <2> QED  BY <2>7, <2>12
<1>13. CASE EditFailed(r)
  <2>1. ~Recording(r) /\ run'[r].at = "idle" /\ UNCHANGED <<told, looks, record>>
    BY <1>5, <1>13 DEF EditFailed, Recording
  <2>2. UNCHANGED shown  BY <1>13 DEF EditFailed, Quiet
  <2> QED  BY <1>6, <2>1, <2>2
<1>14. CASE ReadBefore(r)
  <2>1. UNCHANGED <<shown, told, looks, record>> /\ Recording(r)
    BY <1>14 DEF ReadBefore, Recording, recapGhosts
  <2>2. /\ run'[r].at = "write" /\ run'[r].kind = run[r].kind /\ run'[r].fresh = run[r].fresh
        /\ run'[r].base = record[n] /\ run'[r].night = n
    BY <1>1, <1>14 DEF ReadBefore, Task
  <2>3. Carried(n)' = Carried(n)  BY <2>1 DEF Carried
  <2>4. WorksOn(r, n)' /\ Recording(r)'  BY <2>2 DEF WorksOn, Busy, Recording
  <2>5. RecordedAt(n)'  BY <1>2, <1>4, <2>1, <2>2, <2>3, <2>4, RecordedHere
  <2> QED  BY <2>1, <2>5
<1>15. CASE Remember(r)
  <2>1. /\ run[r].at = "write" /\ Recording(r) /\ run'[r].at = "idle"
        /\ UNCHANGED <<shown, told, looks>> /\ record' = [record EXCEPT ![n] = Remembered(run[r])]
    BY <1>5, <1>15 DEF Remember, Recording, recapGhosts
  <2>2. record'[n] = Remembered(run[r]) /\ record'[n] # NoRecord
    BY <1>1, <2>1, RecordTypes, RecapNoRecord
  <2>3. Carried(n)' = Carried(n) \cup run[r].fresh
    BY <1>4, <2>1, <2>2 DEF Carried, Remembered
  <2>4. record'[n].rechecked = (run[r].kind = "recheck" \/ (record[n] # NoRecord /\ record[n].rechecked))
    BY <1>4, <2>1, <2>2 DEF Remembered
  <2>5. ~WorksOn(r, n)'  BY <2>1 DEF WorksOn, Busy
  <2>6. told'[n] \subseteq Carried(n)'  BY <1>4, <2>1, <2>3
  <2>7. looks'[n] # 0 => record'[n] # NoRecord /\ record'[n].rechecked  BY <1>4, <2>1, <2>2, <2>4
  <2>8. RecordedAt(n)'  BY <1>2, <2>1, <2>5, <2>6, <2>7, RecordedHere
  <2> QED  BY <2>1, <2>8
<1>16. CASE MarkRechecked(r)
  <2>1. /\ run[r].at = "mark" /\ ~Recording(r) /\ run'[r].at = "idle"
        /\ UNCHANGED <<shown, told, looks>>
        /\ record' = [record EXCEPT ![n] = [run[r].base EXCEPT !.rechecked = TRUE]]
    BY <1>5, <1>16 DEF MarkRechecked, Recording, recapGhosts
  <2>2. run[r].base \in Record /\ run[r].base = record[n]
    BY <1>1, <1>4, <2>1 DEF TaskSound
  <2>3. record'[n] = [record[n] EXCEPT !.rechecked = TRUE] /\ record'[n] \in Record
    BY <2>1, <2>2, RecordTypes
  <2>4. record'[n] # NoRecord /\ record[n] # NoRecord  BY <2>2, <2>3, RecapNoRecord
  <2>5. record'[n].rechecked /\ record'[n].notes = record[n].notes
    BY <2>2, <2>3 DEF Record
  <2>6. Carried(n)' = Carried(n)  BY <2>4, <2>5 DEF Carried
  <2>7. ~WorksOn(r, n)'  BY <2>1 DEF WorksOn, Busy
  <2>8. RecordedAt(n)'  BY <1>2, <1>3, <2>1, <2>4, <2>5, <2>6, <2>7, RecordedHere
  <2> QED  BY <2>1, <2>8
<1>17. CASE RecapEnds(r)
  <2>1. run'[r].at = "idle" /\ UNCHANGED <<told, looks, record>>
    BY <1>5, <1>17 DEF RecapEnds
  <2>2. run[r].at \notin {"edit", "before", "write"}
    BY <1>17 DEF RecapEnds, Quiet
  <2>3. UNCHANGED shown  BY <1>17, <2>2 DEF RecapEnds
  <2> QED  BY <1>6, <2>1, <2>2, <2>3 DEF Recording
<1> QED
  BY <1>7, <1>8, <1>9, <1>10, <1>11, <1>12, <1>13, <1>14, <1>15, <1>16, <1>17 DEF RecapStepOf

(* On a quiet night the record, with what is about to be written, has all  *)
(* that was told, and a second look is made only when there was none.      *)
LEMMA RecordedStep ==
  RecapInv /\ [RecapNext]_recapVars => Recorded' /\ SecondLookOnce'
<1> SUFFICES ASSUME RecapInv, [RecapNext]_recapVars PROVE Recorded' /\ SecondLookOnce'
  OBVIOUS
<1>1. RecapTypeOK /\ RunSound /\ ClaimsHeld /\ Alone /\ Recorded /\ SecondLookOnce
  BY DEF RecapInv
<1>2. Quiet' \subseteq Quiet /\ Quiet \subseteq Night  BY Grows DEF Quiet
<1>3. Alone'  BY <1>1, AloneStep
<1> SUFFICES ASSUME NEW n \in Quiet' PROVE RecordedAt(n)' /\ looks'[n] <= 1
  BY DEF Recorded, SecondLookOnce, Quiet
<1>4. n \in Night /\ n \in Quiet /\ RecordedAt(n) /\ looks[n] <= 1 /\ looks[n] \in Nat
  BY <1>1, <1>2 DEF Recorded, SecondLookOnce, Quiet, RecapTypeOK
<1>5. CASE UNCHANGED <<run, shown, told, looks, record>>
  <2>1. RecordedAt(n)'  BY <1>4, <1>5, RecordedElsewhere DEF WorksOn, Busy, At
  <2> QED  BY <1>4, <1>5, <2>1
<1>6. ASSUME NEW r \in RecapRun, NEW m \in Night, RecapStarts(r, m)
      PROVE  RecordedAt(n)' /\ looks'[n] <= 1
  <2>1. /\ run[r].at = "idle" /\ run'[r].night = m
        /\ \A q \in RecapRun \ {r} : run'[q] = run[q]
        /\ m \in Quiet' => \A q \in RecapRun \ {r} : ~WorksOn(q, m)
        /\ UNCHANGED <<record, shown, told, looks>>
        /\ \/ run'[r].at = "claim" /\ run'[r].kind \in Posting
           \/ /\ run'[r].at = "look" /\ run'[r].kind = "recheck" /\ run'[r].base = record[m]
              /\ record[m] \in Record /\ ~record[m].rechecked
           \/ run'[r].at = "look" /\ run'[r].kind = "hand" /\ m \in sure
    BY <1>1, <1>6, StartMoves
  <2>2. CASE n # m
    <3>1. \A q \in RecapRun : WorksOn(q, n)' => WorksOn(q, n) /\ run'[q] = run[q]
      BY <2>1, <2>2 DEF WorksOn, Busy, At
    <3>2. \A q \in RecapRun : WorksOn(q, n) => WorksOn(q, n)' /\ run'[q] = run[q]
      BY <2>1 DEF WorksOn, Busy, At
    <3>3. RecordedAt(n)'  BY <1>4, <2>1, <3>1, <3>2, RecordedElsewhere
    <3> QED  BY <1>4, <2>1, <3>3
  <2>3. CASE n = m
    <3>1. \A q \in RecapRun \ {r} : ~WorksOn(q, n) /\ ~WorksOn(q, n)'
      BY <2>1, <2>3 DEF WorksOn, Busy, At
    <3>2. ~WorksOn(r, n)  BY <2>1 DEF WorksOn, Busy, At
    <3>3. told[n] \subseteq Carried(n) /\ (looks[n] # 0 => record[n] # NoRecord /\ record[n].rechecked)
      BY <1>4, <3>1, <3>2 DEF RecordedAt
    <3>4. told[n] \subseteq shown[n].notes  BY <1>4 DEF RecordedAt
    <3>5. Carried(n)' = Carried(n)  BY <2>1 DEF Carried
    <3>6. ~Recording(r)'  BY <2>1 DEF Recording
    <3>7. RecordedAt(n)'
      BY <1>4, <2>1, <2>3, <3>1, <3>3, <3>4, <3>5, <3>6, RecordedHere DEF Posting
    <3> QED  BY <1>4, <2>1, <3>7
  <2> QED  BY <2>2, <2>3
<1>7. ASSUME NEW r \in RecapRun, RecapStepOf(r) \/ RecapEnds(r)
      PROVE  RecordedAt(n)' /\ looks'[n] <= 1
  <2>1. /\ run[r].at # "idle" /\ run[r].night \in Night
        /\ \A q \in RecapRun \ {r} : run'[q] = run[q]
        /\ run'[r].at = "idle" \/ run'[r].night = run[r].night
        /\ n # run[r].night =>
              /\ shown'[n] = shown[n] /\ told'[n] = told[n]
              /\ looks'[n] = looks[n] /\ record'[n] = record[n]
    BY <1>1, <1>4, <1>7, StepMoves
  <2>2. CASE n # run[r].night
    <3>1. \A q \in RecapRun : WorksOn(q, n)' => WorksOn(q, n) /\ run'[q] = run[q]
      BY <2>1, <2>2 DEF WorksOn, Busy, At
    <3>2. \A q \in RecapRun : WorksOn(q, n) => WorksOn(q, n)' /\ run'[q] = run[q]
      BY <2>1, <2>2 DEF WorksOn, Busy, At
    <3>3. RecordedAt(n)'  BY <1>4, <2>1, <2>2, <3>1, <3>2, RecordedElsewhere
    <3> QED  BY <1>4, <2>1, <2>2, <3>3
  <2>3. CASE n = run[r].night
    <3>1. WorksOn(r, n)  BY <2>1, <2>3 DEF WorksOn, Busy, At
    <3>2. \A q \in RecapRun \ {r} : ~WorksOn(q, n)
      BY <1>1, <1>4, <3>1 DEF Alone
    <3>3. \A q \in RecapRun \ {r} : ~WorksOn(q, n)'
      BY <2>1, <3>2 DEF WorksOn, Busy, At
    <3>4. run[r] \in Task /\ TaskSound(run[r], sure)
      BY <1>1 DEF RecapTypeOK, RunSound
    <3>5. RecordedAt(n)' /\ looks'[n] <= 1
      BY <1>1, <1>4, <1>7, <2>3, <3>1, <3>2, <3>3, <3>4, RecordedNight
    <3> QED  BY <3>5
  <2> QED  BY <2>2, <2>3
<1> QED
  <2>1. \/ UNCHANGED <<run, shown, told, looks, record>>
        \/ \E r \in RecapRun : RecapStepOf(r) \/ RecapEnds(r) \/ \E m \in Night : RecapStarts(r, m)
    BY DEF RecapNext, NextDay, Upload, recapVars, recapGhosts
  <2> QED  BY <1>5, <1>6, <1>7, <2>1

LEMMA RecapInvariant == RecapSpec => []RecapInv
<1>1. RecapInit => RecapInv
  <2> SUFFICES ASSUME RecapInit PROVE RecapInv
    OBVIOUS
  <2> USE IdleTask DEF RecapInit
  <2>1. RecapTypeOK
    <3>1. [pulls |-> 0, notes |-> {}] \in Card  BY DEF Card
    <3> QED  BY <3>1, RecapNights, RecapBounds DEF RecapTypeOK
  <2>2. \A r \in RecapRun : run[r] = Idle /\ run[r].at = "idle"
    OBVIOUS
  <2>3. RunSound  BY <2>2 DEF RunSound, TaskSound
  <2>4. ClaimsHeld  BY <2>2 DEF ClaimsHeld, Drawing
  <2>5. Alone  BY <2>2 DEF Alone, WorksOn, Busy, At
  <2>6. Recorded  BY <2>2 DEF Recorded, RecordedAt, WorksOn, Busy, At, Quiet
  <2>7. SecondLookOnce  BY DEF SecondLookOnce
  <2> QED  BY <2>1, <2>3, <2>4, <2>5, <2>6, <2>7 DEF RecapInv
<1>2. RecapInv /\ [RecapNext]_recapVars => RecapInv'
  BY RecapTypes, RunSoundStep, ClaimsStep, AloneStep, RecordedStep DEF RecapInv
<1> QED  BY <1>1, <1>2, PTL DEF RecapSpec

(* However a schedule's retry, a manual run and a recheck overlap, fail or *)
(* die, a night has one recap, and one more for each request Discord may   *)
(* have served without saying so (claim_recap, recap_night).               *)
THEOREM RecapOnce == RecapSpec => []OneRecap
<1>1. RecapInv => OneRecap
  <2> SUFFICES ASSUME RecapInv, NEW n \in Night PROVE cards[n] <= 1 + doubt[n]
    BY DEF OneRecap
  <2>1. cards[n] <= doubt[n] + (IF n \in sure THEN 1 ELSE 0)  BY DEF RecapInv, ClaimsHeld
  <2>2. cards[n] \in Nat /\ doubt[n] \in Nat  BY DEF RecapInv, RecapTypeOK
  <2> QED  BY <2>1, <2>2
<1> QED  BY <1>1, RecapInvariant, PTL

(* What a confirmed correction told stays on the card through every later  *)
(* correction, by hand or by a recheck, of a night no two invocations met  *)
(* on and whose record missed no edit (edit_in, remember_recap).           *)
THEOREM CorrectionsStay == RecapSpec => []NotesKept
<1>1. RecapInv => NotesKept
  BY DEF RecapInv, Recorded, RecordedAt, Quiet, NotesKept
<1> QED  BY <1>1, RecapInvariant, PTL

(* Such a night is corrected by at most one recheck, though a person may   *)
(* revise it, and the recheck fail, in between (recap_recheck).            *)
THEOREM OneSecondLook == RecapSpec => []SecondLookOnce
<1>1. RecapInv => SecondLookOnce  BY DEF RecapInv
<1> QED  BY <1>1, RecapInvariant, PTL

-----------------------------------------------------------------------------
(* Together *)

(* A step of the three together is, for each of them, a step or none. *)
LEMMA PartsStep ==
  [ScheduledNext]_scheduledVars =>
    /\ [RecapNext]_recapVars /\ [OneAttemptNext]_oneAttemptVars /\ [GloryNext]_gloryVars
    /\ UNCHANGED moving
<1> SUFFICES ASSUME [ScheduledNext]_scheduledVars
             PROVE  /\ [RecapNext]_recapVars /\ [OneAttemptNext]_oneAttemptVars
                    /\ [GloryNext]_gloryVars /\ UNCHANGED moving
  OBVIOUS
<1>1. CASE UNCHANGED scheduledVars  BY <1>1 DEF scheduledVars
<1>2. CASE RecapMoves  BY <1>2 DEF RecapMoves
<1>3. CASE AttemptMoves  BY <1>3 DEF AttemptMoves
<1>4. CASE GloryMoves  BY <1>4 DEF GloryMoves
<1> QED  BY <1>1, <1>2, <1>3, <1>4 DEF ScheduledNext

(* The scheduled posts of a team keep each other's promises: what holds of *)
(* the recap, the roll call, the digest and the achievements alone holds   *)
(* of the bot that runs them all.                                          *)
THEOREM ScheduledSafe ==
  ScheduledSpec =>
    /\ [](ScheduledTypeOK /\ OneRecap /\ NotesKept /\ SecondLookOnce /\ GloryOnce /\ SignedIsHeld)
    /\ OneAttemptPromise
<1>1. ScheduledInit => RecapInit /\ OneAttemptInit /\ GloryInit /\ moving \in {"recap", "attempt", "glory"}
  BY DEF ScheduledInit
<1>2. moving \in {"recap", "attempt", "glory"} /\ UNCHANGED moving
        => (moving \in {"recap", "attempt", "glory"})'
  OBVIOUS
<1>3. ScheduledSpec => RecapSpec /\ OneAttemptSpec /\ GlorySpec
                       /\ [](moving \in {"recap", "attempt", "glory"})
  BY <1>1, <1>2, PartsStep, PTL DEF ScheduledSpec, RecapSpec, OneAttemptSpec, GlorySpec
<1>4. RecapInv => RecapTypeOK  BY DEF RecapInv
<1>5. AttemptInv => OneAttemptTypeOK  BY DEF AttemptInv
<1>6. GloryInv => GloryTypeOK  BY DEF GloryInv
<1>7. RecapTypeOK /\ OneAttemptTypeOK /\ GloryTypeOK /\ moving \in {"recap", "attempt", "glory"}
        => ScheduledTypeOK
  BY DEF ScheduledTypeOK
<1> QED
  BY <1>3, <1>4, <1>5, <1>6, <1>7, RecapInvariant, AttemptInvariant, GloryInvariant, RecapOnce,
     CorrectionsStay, OneSecondLook, CardsOnce, SignaturesVouch, OneAttemptRefinement, PTL
=============================================================================
