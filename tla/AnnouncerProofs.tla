---------------------------- MODULE AnnouncerProofs --------------------------
(***************************************************************************)
(* Proofs about Announcer for any tier, any set of overlapping polls and   *)
(* any number of failures: the type invariant, at most one confirmed card  *)
(* per key, the silence of what the seed recorded, the refinement of       *)
(* FirstKill, nothing posted before the bootstrap marker, and a kill count *)
(* that never runs ahead of the guild.                                     *)
(***************************************************************************)
EXTENDS Announcer, FiniteSetTheorems, TLAPS

-----------------------------------------------------------------------------
(* Counting *)

(* Sets of bosses have a size, whatever the tier. *)
LEMMA BossCount ==
  ASSUME NEW S \in SUBSET Boss
  PROVE  IsFiniteSet(S) /\ Cardinality(S) \in Nat
  BY BossAssumption, FS_Subset, FS_CardinalityType

LEMMA TotalType == Total \in Nat
  BY BossAssumption, FS_CardinalityType DEF Total

(* "n of total" is a number between 0 and total. *)
LEMMA ProgressCountType ==
  ASSUME TypeOK, NEW known \in SUBSET Key, NEW killed \in Nat \cup {Unlisted}
  PROVE  ProgressCount(known, killed) \in 0..Total
<1> DEFINE c == Cardinality(known \cap Boss)
<1>1. c \in Nat  BY BossCount
<1>2. seedSize \in Nat /\ baseline \in Nat /\ Total \in Nat
  BY TotalType DEF TypeOK
<1>3. ProgressCount(known, killed)
        = Smaller(Total, Larger(killed, baseline + Larger(0, c - seedSize)))
  BY DEF ProgressCount
<1> HIDE DEF c
<1> QED  BY <1>1, <1>2, <1>3 DEF Smaller, Larger, Unlisted

(* seed_names never drops what history showed, and names only this tier.   *)
LEMMA SeedNamesKeepsHistory ==
  ASSUME NEW killed \in Nat, NEW h \in SUBSET Boss
  PROVE  h \subseteq SeedNames(killed, h) /\ SeedNames(killed, h) \subseteq Boss
<1>1. CASE ~Team /\ killed >= Total
  BY <1>1 DEF SeedNames
<1>2. CASE ~Team /\ ~(killed >= Total)
  <2>1. \A i \in 1..killed : Order[i] \in Boss
    BY <1>2, TotalType, OrderAssumption
  <2> QED  BY <1>2, <2>1 DEF SeedNames
<1>3. CASE Team
  BY <1>3 DEF SeedNames
<1> QED  BY <1>1, <1>2, <1>3

-----------------------------------------------------------------------------
(* Types *)

(* The locals alone, so that a step that ends a poll is typed once. *)
LocalsOK ==
  /\ pc \in [Poll -> Step]
  /\ rio \in [Poll -> Nat \cup {Unlisted}]
  /\ found \in [Poll -> SUBSET Boss] /\ past \in [Poll -> SUBSET Boss]
  /\ plan \in [Poll -> Plan]
  /\ mine \in [Poll -> SUBSET Key] /\ todo \in [Poll -> SUBSET Boss]
  /\ cur \in [Poll -> Key] /\ tries \in [Poll -> 0..MaxAttempts]

(* Attempts left while posting; a key to post only with the row in place.  *)
TriesLeft == \A p \in Poll : pc[p] = "post" => tries[p] < MaxAttempts

LEMMA LeaveLocals ==
  ASSUME TypeOK, NEW p \in Poll, Leave(p)
  PROVE  LocalsOK' /\ pc'[p] = "idle" /\ \A q \in Poll \ {p} :
           pc'[q] = pc[q] /\ cur'[q] = cur[q] /\ tries'[q] = tries[q]
<1>1. NoPlan \in Plan  BY DEF NoPlan, Plan
<1>2. 0 \in 0..MaxAttempts  BY AttemptsAssumption
<1> QED
  BY <1>1, <1>2 DEF TypeOK, Leave, Goto, LocalsOK, Step, Key

LEMMA AfterPostLocals ==
  ASSUME TypeOK, NEW p \in Poll, AfterPost(p)
  PROVE  LocalsOK' /\ pc'[p] \in {"idle", "kills"} /\ \A q \in Poll \ {p} :
           pc'[q] = pc[q] /\ cur'[q] = cur[q] /\ tries'[q] = tries[q]
<1>1. 0 \in 0..MaxAttempts  BY AttemptsAssumption
<1>2. CASE cur[p] = Clear
  BY <1>2, LeaveLocals DEF AfterPost
<1>3. CASE cur[p] # Clear
  BY <1>1, <1>3 DEF TypeOK, AfterPost, Goto, LocalsOK, Step, Key
<1> QED  BY <1>2, <1>3

LEMMA AdoptLocals ==
  ASSUME TypeOK, NEW p \in Poll, Adopt(p)
  PROVE  LocalsOK' /\ pc'[p] = "kills" /\ \A q \in Poll \ {p} :
           pc'[q] = pc[q] /\ cur'[q] = cur[q] /\ tries'[q] = tries[q]
<1>1. NoPlan \in Plan  BY DEF NoPlan, Plan
<1> QED  BY <1>1 DEF TypeOK, Adopt, Goto, LocalsOK, Step

LEMMA StoreType ==
  ASSUME TypeOK, NEW p \in Poll, Store(p)
  PROVE  cards' \in [Key -> Nat] /\ count' \in Nat
<1>1. ProgressCount(mine[p], rio[p]) \in Nat
  <2>1. mine[p] \in SUBSET Key /\ rio[p] \in Nat \cup {Unlisted}
    BY DEF TypeOK
  <2>2. ProgressCount(mine[p], rio[p]) \in 0..Total
    BY <2>1, ProgressCountType
  <2> QED  BY <2>2, TotalType
<1> QED  BY <1>1 DEF Store, TypeOK

LEMMA MaybeStoredType ==
  ASSUME TypeOK, NEW p \in Poll, MaybeStored(p)
  PROVE  cards' \in [Key -> Nat] /\ count' \in Nat /\ doubt' \in [Key -> Nat]
  BY StoreType DEF MaybeStored, TypeOK, channel

LEMMA FaultType ==
  ASSUME TypeOK, Fault
  PROVE  faults' \in 0..MaxFaults
<1>1. MaxFaults \in Nat /\ faults \in 0..MaxFaults
  BY FlagAssumption DEF TypeOK
<1>2. faults < MaxFaults /\ faults' = faults + 1
  BY DEF Fault
<1> QED  BY <1>1, <1>2

TypeInv == TypeOK /\ TriesLeft

LEMMA TypeInit == Init => TypeInv
<1> SUFFICES ASSUME Init PROVE TypeInv
  OBVIOUS
<1>1. NoPlan \in Plan  BY DEF NoPlan, Plan
<1>2. 0 \in 0..MaxAttempts /\ 0 \in 0..MaxFaults
  BY AttemptsAssumption, FlagAssumption
<1> QED  BY <1>1, <1>2 DEF Init, TypeInv, TypeOK, TriesLeft, Step, Key

LEMMA TypeStep == TypeInv /\ [Next]_vars => TypeInv'
<1> SUFFICES ASSUME TypeOK, TriesLeft, [Next]_vars PROVE TypeInv'
  BY DEF TypeInv
<1> USE DEF TypeInv, TriesLeft
<1>1. CASE UNCHANGED vars
  BY <1>1 DEF vars, world, store, channel, locals, ghosts, TypeOK
<1>2. CASE World
  <2>1. CASE ListTier
    BY <2>1 DEF ListTier, store, channel, locals, ghosts, TypeOK
  <2>2. ASSUME NEW b \in Boss, Raid(b) PROVE TypeInv'
    BY <2>2 DEF Raid, store, channel, locals, ghosts, TypeOK
  <2>3. ASSUME NEW b \in Boss, Age(b) PROVE TypeInv'
    BY <2>3 DEF Age, store, channel, locals, ghosts, TypeOK
  <2> QED  BY <1>2, <2>1, <2>2, <2>3 DEF World
<1>3. ASSUME NEW p \in Poll, PollStep(p) PROVE TypeInv'
  <2>1. CASE Start(p)
    <3>1. rio' \in [Poll -> Nat \cup {Unlisted}]
      <4>1. PICK n \in IF Team THEN {0} ELSE 0..Cardinality(dead) :
              rio' = [rio EXCEPT ![p] = IF listed THEN n ELSE Unlisted]
        BY <2>1 DEF Start
      <4>2. n \in Nat  BY BossCount DEF TypeOK
      <4> QED  BY <4>1, <4>2 DEF TypeOK
    <3>2. /\ found' \in [Poll -> SUBSET Boss] /\ past' \in [Poll -> SUBSET Boss]
          /\ pc' = [pc EXCEPT ![p] = IF Bootstrapped THEN "load" ELSE "boot"]
          /\ UNCHANGED <<world, store, channel, plan, mine, todo, cur, tries, ghosts, faults>>
      BY <2>1 DEF Start, Goto, TypeOK
    <3> QED  BY <3>1, <3>2 DEF world, store, channel, ghosts, TypeOK, Step
  <2>2. CASE BootSkip(p)
    BY <2>2 DEF BootSkip, Goto, world, store, channel, locals, ghosts, TypeOK, Step
  <2>3. CASE BootPlan(p)
    <3>1. plan' \in [Poll -> Plan]
      <4> DEFINE P(h) == [names |-> SeedNames(rio[p], h),
             base |-> Larger(Smaller(IF Team THEN Cardinality(SeedNames(rio[p], h)) ELSE rio[p], Total),
                             Cardinality(SeedNames(rio[p], h))),
             clear |-> SuppressClear \/ (IF Team THEN Cardinality(SeedNames(rio[p], h)) ELSE rio[p]) >= Total,
             then |-> "mark"]
      <4>1. PICK h \in SUBSET Boss : plan' = [plan EXCEPT ![p] = P(h)]
        BY <2>3 DEF BootPlan
      <4>2. rio[p] \in Nat /\ SeedNames(rio[p], h) \in SUBSET Boss
        BY <2>3, SeedNamesKeepsHistory DEF BootPlan, TypeOK
      <4>3. Cardinality(SeedNames(rio[p], h)) \in Nat
        BY <4>2, BossCount
      <4>4. P(h).base \in Nat
        BY <4>2, <4>3, TotalType DEF Larger, Smaller
      <4>5. P(h).clear \in BOOLEAN
        BY FlagAssumption
      <4>6. P(h) \in Plan
        BY <4>2, <4>4, <4>5 DEF Plan
      <4> QED  BY <4>1, <4>6 DEF TypeOK
    <3> QED
      BY <2>3, <3>1 DEF BootPlan, Goto, world, store, channel, ghosts, TypeOK, Step
  <2>4. CASE NewTierPlan(p)
    <3>1. plan' \in [Poll -> Plan]
      <4> DEFINE N(h) == IF Silent(p, h) THEN h ELSE {}
                 K(h) == IF Team THEN Cardinality(N(h)) ELSE rio[p]
                 P(h) == [names |-> N(h),
                          base |-> Larger(IF Silent(p, h) THEN K(h) ELSE 0, Cardinality(N(h))),
                          clear |-> K(h) >= Total,
                          then |-> IF Silent(p, h) THEN "idle" ELSE "reload"]
      <4>1. PICK h \in SUBSET Boss : plan' = [plan EXCEPT ![p] = P(h)]
        BY <2>4 DEF NewTierPlan
      <4>2. N(h) \in SUBSET Boss /\ Cardinality(N(h)) \in Nat
        BY BossCount
      <4>3. P(h).base \in Nat
        BY <4>2 DEF Larger, Unlisted, TypeOK
      <4>4. P(h) \in Plan
        BY <4>2, <4>3 DEF Plan
      <4> QED  BY <4>1, <4>4 DEF TypeOK
    <3> QED
      BY <2>4, <3>1 DEF NewTierPlan, Goto, world, store, channel, ghosts, TypeOK, Step
  <2>5. CASE Seed(p)
    <3>1. /\ row' \in BOOLEAN /\ claims' \subseteq Key /\ seedSize' \in Nat
          /\ baseline' \in Nat /\ seeded' \subseteq Key /\ backlog' \subseteq Boss
      <4>1. CASE row
        BY <2>5, <4>1 DEF Seed, PutSeed, TypeOK
      <4>2. CASE ~row
        <5>1. plan[p].names \in SUBSET Boss /\ plan[p].base \in Nat
          BY DEF TypeOK, Plan
        <5>2. Cardinality(plan[p].names) \in Nat
          BY <5>1, BossCount
        <5> QED  BY <2>5, <4>2, <5>1, <5>2 DEF Seed, PutSeed, WriteSeed, TypeOK, Key
      <4> QED  BY <4>1, <4>2 DEF TypeOK
    <3>2. LocalsOK' /\ TriesLeft'
      <4>1. CASE plan[p].then = "idle"
        BY <2>5, <4>1, LeaveLocals DEF Seed
      <4>2. CASE plan[p].then # "idle"
        BY <2>5, <4>2 DEF Seed, Goto, locals, LocalsOK, TypeOK, Plan, Step
      <4> QED  BY <4>1, <4>2
    <3> QED  BY <2>5, <3>1, <3>2 DEF Seed, world, channel, LocalsOK, TypeOK
  <2>6. CASE Mark(p)
    BY <2>6, LeaveLocals DEF Mark, world, channel, ghosts, LocalsOK, TypeOK
  <2>7. CASE LoadTier(p)
    <3>1. CASE row
      BY <2>7, <3>1, AdoptLocals DEF LoadTier, world, store, channel, ghosts, LocalsOK, TypeOK
    <3>2. CASE ~row
      BY <2>7, <3>2 DEF LoadTier, Goto, world, store, channel, locals, ghosts, TypeOK, Step
    <3> QED  BY <3>1, <3>2
  <2>8. CASE Reload(p)
    BY <2>8, AdoptLocals DEF Reload, world, store, channel, ghosts, LocalsOK, TypeOK
  <2>9. ASSUME NEW b \in Boss, ClaimKill(p, b) PROVE TypeInv'
    BY <2>9, AttemptsAssumption
       DEF ClaimKill, TakeClaim, Goto, world, channel, ghosts, TypeOK, Step, Key
  <2>10. ASSUME NEW b \in Boss, SkipKill(p, b) PROVE TypeInv'
    BY <2>10 DEF SkipKill, world, store, channel, ghosts, TypeOK
  <2>11. CASE ClaimClear(p)
    BY <2>11, AttemptsAssumption
       DEF ClaimClear, TakeClaim, Goto, world, channel, ghosts, TypeOK, Step, Key
  <2>12. CASE Finish(p)
    BY <2>12, LeaveLocals DEF Finish, world, store, channel, ghosts, LocalsOK, TypeOK
  <2>13. CASE Posted(p)
    BY <2>13, AfterPostLocals, StoreType DEF Posted, world, store, LocalsOK, TypeOK
  <2>14. CASE Refused(p)
    <3>1. faults' \in 0..MaxFaults
      BY <2>14, FaultType DEF Refused
    <3> QED
      BY <2>14, <3>1 DEF Refused, Goto, world, store, channel, locals, ghosts, TypeOK, Step
  <2>15. CASE Retry(p)
    <3>1. tries[p] + 1 \in 0..MaxAttempts
      BY <2>15, AttemptsAssumption DEF Retry, TypeOK
    <3>2. /\ tries' = [tries EXCEPT ![p] = tries[p] + 1]
          /\ pc' = [pc EXCEPT ![p] = IF tries[p] + 1 < MaxAttempts THEN "post" ELSE "release"]
          /\ UNCHANGED <<world, store, rio, found, past, plan, mine, todo, cur, seeded, backlog, landed, lost>>
      BY <2>15 DEF Retry, Goto
    <3>3. cards' \in [Key -> Nat] /\ count' \in Nat /\ doubt' \in [Key -> Nat]
      BY <2>15, MaybeStoredType DEF Retry
    <3>4. faults' \in 0..MaxFaults
      BY <2>15, FaultType DEF Retry
    <3> QED  BY <3>1, <3>2, <3>3, <3>4 DEF world, store, TypeOK, Step
  <2>16. CASE Release(p)
    <3>1. LocalsOK' /\ TriesLeft'
      <4>1. CASE cur[p] = Clear
        BY <2>16, <4>1, LeaveLocals DEF Release
      <4>2. CASE cur[p] # Clear
        BY <2>16, <4>2, AttemptsAssumption DEF Release, Goto, LocalsOK, TypeOK, Step, Key
      <4> QED  BY <4>1, <4>2
    <3> QED  BY <2>16, <3>1 DEF Release, world, channel, ghosts, LocalsOK, TypeOK
  <2> QED
    BY <1>3, <2>1, <2>2, <2>3, <2>4, <2>5, <2>6, <2>7, <2>8, <2>9, <2>10, <2>11,
       <2>12, <2>13, <2>14, <2>15, <2>16 DEF PollStep
<1>4. ASSUME NEW p \in Poll, Crash(p) PROVE TypeInv'
  <2>1. cards' \in [Key -> Nat] /\ count' \in Nat /\ doubt' \in [Key -> Nat]
    BY <1>4, MaybeStoredType DEF Crash, channel, TypeOK
  <2>2. LocalsOK' /\ TriesLeft'
    BY <1>4, LeaveLocals DEF Crash
  <2>3. faults' \in 0..MaxFaults
    BY <1>4, FaultType DEF Crash
  <2>4. lost' \subseteq Key
    BY <1>4 DEF Crash, TypeOK
  <2> QED  BY <1>4, <2>1, <2>2, <2>3, <2>4 DEF Crash, world, store, LocalsOK, TypeOK
<1> QED  BY <1>1, <1>2, <1>3, <1>4 DEF Next

(* The rows, the channel and every poll's locals keep their types; no poll *)
(* makes more than MaxAttempts attempts at one post.                       *)
THEOREM TypeCorrect == Spec => []TypeOK
<1>1. TypeInv => TypeOK  BY DEF TypeInv
<1> QED  BY <1>1, TypeInit, TypeStep, PTL DEF Spec

-----------------------------------------------------------------------------
(* The claims, the cards and who is posting *)

(* The inductive invariant.  A tier nobody seeded has no claim, no card and *)
(* no sender; the seed and the landed cards are claims, and apart; a card  *)
(* is counted in doubt or landed; and a sender owns an unsettled claim.    *)
EmptyFirst ==
  ~row => /\ claims = {} /\ \A k \in Key : doubt[k] = 0
          /\ \A p \in Poll : ~Posting(p)
Written == seeded \subseteq claims /\ landed \subseteq claims \ seeded
Counted == \A k \in Key : cards[k] = doubt[k] + (IF k \in landed THEN 1 ELSE 0)
NeverSeeded == \A k \in seeded : doubt[k] = 0
Held ==
  \A p \in Poll : Posting(p) =>
    /\ cur[p] \in claims /\ cur[p] \notin seeded /\ cur[p] \notin landed
    /\ \A q \in Poll \ {p} : Posting(q) => cur[q] # cur[p]

SafeInv == EmptyFirst /\ Written /\ Counted /\ NeverSeeded /\ Held

(* After a step nobody posts who did not before, and only the same key.    *)
NoNewSender ==
  \A q \in Poll : pc'[q] \in {"post", "release"} =>
                    pc[q] \in {"post", "release"} /\ cur'[q] = cur[q]

(* A step of p leaves the other invocations where they are. *)
Others(p) == \A q \in Poll \ {p} : pc'[q] = pc[q] /\ cur'[q] = cur[q]

(* The same step seen through FirstKill. *)
Kept == [Promise!Next]_(Promise!vars)

LEMMA QuietSafe ==
  ASSUME SafeInv, NoNewSender,
         UNCHANGED <<row, claims, seeded, landed, cards, doubt>>
  PROVE  SafeInv' /\ Kept
<1>1. SafeInv'
  BY DEF SafeInv, NoNewSender, EmptyFirst, Written, Counted, NeverSeeded, Held, Posting
<1>2. status' = status  BY DEF status
<1> QED  BY <1>1, <1>2 DEF Kept, Promise!vars

(* The key a sender works on is a key, owned by it alone. *)
LEMMA SenderKey ==
  ASSUME TypeOK, SafeInv, NEW p \in Poll, Posting(p)
  PROVE  /\ row /\ cur[p] \in Key /\ cur[p] \in claims
         /\ cur[p] \notin seeded /\ cur[p] \notin landed
         /\ \A q \in Poll \ {p} : Posting(q) => cur[q] # cur[p]
BY DEF TypeOK, SafeInv, EmptyFirst, Held

(* seed_tier: the first writer finds the tier empty. *)
LEMMA SeedSafe ==
  ASSUME TypeOK, SafeInv, NEW p \in Poll, PutSeed(p), NoNewSender,
         UNCHANGED <<landed, cards, doubt>>
  PROVE  SafeInv' /\ Kept
<1>1. CASE row
  BY <1>1, QuietSafe DEF PutSeed
<1>2. CASE ~row
  <2>1. /\ landed = {} /\ \A k \in Key : doubt[k] = 0
        /\ \A q \in Poll : ~Posting(q)
    BY <1>2 DEF SafeInv, EmptyFirst, Written
  <2>2. row' = TRUE /\ seeded' = claims' /\ claims' \subseteq Key
    BY <1>2 DEF PutSeed, WriteSeed, TypeOK, Plan, Key
  <2>3. \A q \in Poll : ~(pc'[q] \in {"post", "release"})
    BY <2>1 DEF NoNewSender, Posting
  <2>4. EmptyFirst' /\ Written' /\ NeverSeeded' /\ Held'
    BY <2>1, <2>2, <2>3 DEF EmptyFirst, Written, NeverSeeded, Held, Posting
  <2>5. Counted'
    BY DEF SafeInv, Counted
  <2>6. Kept
    <3>1. claims = {} /\ seeded = {} /\ \A k \in Key : cards[k] = 0
      BY <1>2, <2>1 DEF SafeInv, EmptyFirst, Written, Counted
    <3>2. \A k \in Key : status[k] = "open"
      BY <2>1, <3>1 DEF status
    <3>3. status' = [k \in Key |-> IF k \in seeded' THEN "prior" ELSE "open"]
      BY <2>1, <2>2 DEF status
    <3>4. Promise!Preset(seeded')
      BY <3>1, <3>2, <3>3 DEF Promise!Preset
    <3>5. seeded' \in SUBSET Key  BY <2>2
    <3> QED  BY <3>4, <3>5 DEF Kept, Promise!Next
  <2> QED  BY <2>4, <2>5, <2>6 DEF SafeInv
<1> QED  BY <1>1, <1>2 DEF TypeOK

(* claim_boss or claim_aotc: only a key nobody holds can be won. *)
LEMMA ClaimSafe ==
  ASSUME TypeOK, SafeInv, NEW p \in Poll, NEW k \in Key, TakeClaim(p, k),
         UNCHANGED <<seeded, landed, cards, doubt>>
  PROVE  SafeInv' /\ Kept
<1>1. /\ row /\ row' = row /\ k \notin claims /\ claims' = claims \cup {k}
      /\ pc' = [pc EXCEPT ![p] = "post"] /\ cur' = [cur EXCEPT ![p] = k]
  BY DEF TakeClaim, Goto
<1>2. \A q \in Poll \ {p} : pc'[q] = pc[q] /\ cur'[q] = cur[q]
  BY <1>1 DEF TypeOK
<1>3. pc'[p] = "post" /\ cur'[p] = k
  BY <1>1 DEF TypeOK
<1>4. Held'
  BY <1>1, <1>2, <1>3 DEF SafeInv, Written, Held, Posting
<1>5. EmptyFirst' /\ Written' /\ Counted' /\ NeverSeeded'
  BY <1>1 DEF SafeInv, EmptyFirst, Written, Counted, NeverSeeded
<1>6. Kept
  <2>1. status[k] = "open" /\ k \notin seeded /\ k \notin landed
    BY <1>1 DEF status, SafeInv, Written
  <2>2. status' = [status EXCEPT ![k] = "held"]
    BY <1>1, <2>1 DEF status
  <2>3. Promise!Take(k)
    BY <2>1, <2>2 DEF Promise!Take
  <2> QED  BY <2>3 DEF Kept, Promise!Next
<1> QED  BY <1>4, <1>5, <1>6 DEF SafeInv

(* The answer arrived: the card is counted, and its claim is settled. *)
LEMMA PostedSafe ==
  ASSUME TypeOK, SafeInv, NEW p \in Poll, Posting(p), Store(p), Others(p),
         ~(pc'[p] \in {"post", "release"}), landed' = landed \cup {cur[p]},
         UNCHANGED <<row, claims, seeded, doubt>>
  PROVE  SafeInv' /\ Kept
<1>1. /\ row /\ cur[p] \in Key /\ cur[p] \in claims
      /\ cur[p] \notin seeded /\ cur[p] \notin landed
      /\ \A q \in Poll \ {p} : Posting(q) => cur[q] # cur[p]
  BY SenderKey
<1>2. EmptyFirst' /\ Written' /\ NeverSeeded'
  BY <1>1 DEF SafeInv, EmptyFirst, Written, NeverSeeded
<1>3. Held'
  BY <1>1 DEF SafeInv, Held, Others, Posting
<1>4. Counted'
  <2>1. cards' = [cards EXCEPT ![cur[p]] = cards[cur[p]] + 1]
    BY DEF Store
  <2>2. cards' = [k \in Key |-> IF k = cur[p] THEN cards[k] + 1 ELSE cards[k]]
    BY <2>1, <1>1 DEF TypeOK
  <2>3. doubt[cur[p]] \in Nat  BY <1>1 DEF TypeOK
  <2> QED  BY <1>1, <2>2, <2>3 DEF SafeInv, Counted
<1>5. Kept
  <2>1. status[cur[p]] = "held"
    BY <1>1 DEF status
  <2>2. status' = [status EXCEPT ![cur[p]] = "done"]
    BY <1>1 DEF status
  <2>3. Promise!Land(cur[p])
    BY <2>1, <2>2 DEF Promise!Land, Store
  <2> QED  BY <1>1, <2>3 DEF Kept, Promise!Next
<1> QED  BY <1>2, <1>3, <1>4, <1>5 DEF SafeInv

(* No answer: a copy that may be there is counted as doubt. *)
LEMMA DoubtSafe ==
  ASSUME TypeOK, SafeInv, NEW p \in Poll, Posting(p), MaybeStored(p),
         NoNewSender, UNCHANGED <<row, claims, seeded, landed>>
  PROVE  SafeInv' /\ Kept
<1>1. CASE UNCHANGED <<channel, doubt>>
  BY <1>1, QuietSafe DEF channel
<1>2. CASE Store(p) /\ doubt' = [doubt EXCEPT ![cur[p]] = @ + 1]
  <2>1. /\ row /\ cur[p] \in Key /\ cur[p] \in claims
        /\ cur[p] \notin seeded /\ cur[p] \notin landed
    BY SenderKey
  <2>2. cards' = [k \in Key |-> IF k = cur[p] THEN cards[k] + 1 ELSE cards[k]]
    BY <1>2, <2>1 DEF Store, TypeOK
  <2>3. doubt' = [k \in Key |-> IF k = cur[p] THEN doubt[k] + 1 ELSE doubt[k]]
    BY <1>2, <2>1 DEF TypeOK
  <2>4. Counted'
    <3>1. ASSUME NEW k \in Key
          PROVE  cards'[k] = doubt'[k] + (IF k \in landed' THEN 1 ELSE 0)
      <4>1. cards[k] = doubt[k] + (IF k \in landed THEN 1 ELSE 0)
        BY DEF SafeInv, Counted
      <4>2. doubt[k] \in Nat /\ cards[k] \in Nat
        BY DEF TypeOK
      <4>3. /\ cards'[k] = IF k = cur[p] THEN cards[k] + 1 ELSE cards[k]
            /\ doubt'[k] = IF k = cur[p] THEN doubt[k] + 1 ELSE doubt[k]
        BY <2>2, <2>3
      <4> QED  BY <4>1, <4>2, <4>3, <2>1
    <3> QED  BY <3>1 DEF Counted
  <2>5. NeverSeeded'
    BY <2>1, <2>3 DEF SafeInv, NeverSeeded, Written, TypeOK
  <2>6. EmptyFirst' /\ Written' /\ Held'
    BY <2>1 DEF SafeInv, EmptyFirst, Written, Held, NoNewSender, Posting
  <2>7. Kept
    <3>1. status[cur[p]] = "held" /\ status' = status
      BY <2>1 DEF status
    <3>2. Promise!Doubt(cur[p])
      BY <1>2, <3>1 DEF Promise!Doubt, Store
    <3> QED  BY <2>1, <3>2 DEF Kept, Promise!Next
  <2> QED  BY <2>4, <2>5, <2>6, <2>7 DEF SafeInv
<1> QED  BY <1>1, <1>2 DEF MaybeStored

(* release_boss or release_aotc: what is handed back is the caller's own,  *)
(* unsettled and not the seed's.                                           *)
LEMMA ReleaseSafe ==
  ASSUME TypeOK, SafeInv, NEW p \in Poll, Posting(p), Others(p),
         ~(pc'[p] \in {"post", "release"}), claims' = claims \ {cur[p]},
         UNCHANGED <<row, seeded, landed, cards, doubt>>
  PROVE  SafeInv' /\ Kept
<1>1. /\ row /\ cur[p] \in Key /\ cur[p] \in claims
      /\ cur[p] \notin seeded /\ cur[p] \notin landed
      /\ \A q \in Poll \ {p} : Posting(q) => cur[q] # cur[p]
  BY SenderKey
<1>2. EmptyFirst' /\ Written' /\ Counted' /\ NeverSeeded'
  BY <1>1 DEF SafeInv, EmptyFirst, Written, Counted, NeverSeeded
<1>3. Held'
  BY <1>1 DEF SafeInv, Held, Others, Posting
<1>4. Kept
  <2>1. status[cur[p]] = "held"
    BY <1>1 DEF status
  <2>2. status' = [status EXCEPT ![cur[p]] = "open"]
    BY <1>1 DEF status
  <2>3. Promise!GiveBack(cur[p])
    BY <2>1, <2>2 DEF Promise!GiveBack
  <2> QED  BY <1>1, <2>3 DEF Kept, Promise!Next
<1> QED  BY <1>2, <1>3, <1>4 DEF SafeInv

(* Steps that end a poll, or a kill, without touching claims or channel.   *)
LEMMA LeaveOthers ==
  ASSUME TypeOK, NEW p \in Poll, Leave(p)
  PROVE  Others(p) /\ ~(pc'[p] \in {"post", "release"}) /\ NoNewSender
BY LeaveLocals DEF Others, NoNewSender

LEMMA AfterPostOthers ==
  ASSUME TypeOK, NEW p \in Poll, AfterPost(p)
  PROVE  Others(p) /\ ~(pc'[p] \in {"post", "release"})
BY AfterPostLocals DEF Others

LEMMA MovesOn ==
  ASSUME TypeOK, NEW p \in Poll, NEW s, Goto(p, s), UNCHANGED cur,
         s \in {"post", "release"} => Posting(p)
  PROVE  NoNewSender
BY DEF TypeOK, Goto, NoNewSender, Posting

LEMMA SafeInit == Init => SafeInv /\ Promise!Init
<1> SUFFICES ASSUME Init PROVE SafeInv /\ Promise!Init
  OBVIOUS
<1>1. SafeInv
  BY DEF Init, SafeInv, EmptyFirst, Written, Counted, NeverSeeded, Held, Posting
<1>2. Promise!Init
  BY DEF Init, Promise!Init, status
<1> QED  BY <1>1, <1>2

LEMMA SafeStep == TypeOK /\ SafeInv /\ [Next]_vars => SafeInv' /\ Kept
<1> SUFFICES ASSUME TypeOK, SafeInv, [Next]_vars PROVE SafeInv' /\ Kept
  OBVIOUS
<1>1. CASE UNCHANGED vars
  BY <1>1, QuietSafe DEF vars, store, channel, ghosts, locals, NoNewSender
<1>2. CASE World
  <2>1. UNCHANGED <<store, channel, pc, locals, ghosts>>
    BY <1>2 DEF World, ListTier, Raid, Age
  <2> QED  BY <2>1, QuietSafe DEF store, channel, ghosts, locals, NoNewSender
<1>3. ASSUME NEW p \in Poll, PollStep(p) PROVE SafeInv' /\ Kept
  <2>1. CASE Start(p)
    <3>1. NoNewSender
      BY <2>1, MovesOn DEF Start
    <3> QED  BY <2>1, <3>1, QuietSafe DEF Start, store, channel, ghosts
  <2>2. CASE BootSkip(p)
    <3>1. NoNewSender
      BY <2>2, MovesOn DEF BootSkip, locals
    <3> QED  BY <2>2, <3>1, QuietSafe DEF BootSkip, store, channel, ghosts
  <2>3. CASE BootPlan(p)
    <3>1. NoNewSender
      BY <2>3, MovesOn DEF BootPlan
    <3> QED  BY <2>3, <3>1, QuietSafe DEF BootPlan, store, channel, ghosts
  <2>4. CASE NewTierPlan(p)
    <3>1. NoNewSender
      BY <2>4, MovesOn DEF NewTierPlan
    <3> QED  BY <2>4, <3>1, QuietSafe DEF NewTierPlan, store, channel, ghosts
  <2>5. CASE Seed(p)
    <3>1. NoNewSender
      <4>1. CASE plan[p].then = "idle"
        BY <2>5, <4>1, LeaveOthers DEF Seed
      <4>2. CASE plan[p].then # "idle"
        <5>1. Goto(p, plan[p].then) /\ UNCHANGED cur
          BY <2>5, <4>2 DEF Seed, locals
        <5>2. plan[p].then \notin {"post", "release"}
          BY DEF TypeOK, Plan
        <5> QED  BY <5>1, <5>2, MovesOn
      <4> QED  BY <4>1, <4>2
    <3> QED  BY <2>5, <3>1, SeedSafe DEF Seed, channel
  <2>6. CASE Mark(p)
    BY <2>6, LeaveOthers, QuietSafe DEF Mark, channel, ghosts
  <2>7. CASE LoadTier(p)
    <3>1. NoNewSender
      <4>1. CASE row
        BY <2>7, <4>1, MovesOn DEF LoadTier, Adopt
      <4>2. CASE ~row
        BY <2>7, <4>2, MovesOn DEF LoadTier, locals
      <4> QED  BY <4>1, <4>2
    <3> QED  BY <2>7, <3>1, QuietSafe DEF LoadTier, store, channel, ghosts
  <2>8. CASE Reload(p)
    <3>1. NoNewSender
      BY <2>8, MovesOn DEF Reload, Adopt
    <3> QED  BY <2>8, <3>1, QuietSafe DEF Reload, store, channel, ghosts
  <2>9. ASSUME NEW b \in Boss, ClaimKill(p, b) PROVE SafeInv' /\ Kept
    BY <2>9, ClaimSafe DEF ClaimKill, channel, ghosts, Key
  <2>10. ASSUME NEW b \in Boss, SkipKill(p, b) PROVE SafeInv' /\ Kept
    BY <2>10, QuietSafe DEF SkipKill, store, channel, ghosts, NoNewSender
  <2>11. CASE ClaimClear(p)
    BY <2>11, ClaimSafe DEF ClaimClear, channel, ghosts, Key
  <2>12. CASE Finish(p)
    BY <2>12, LeaveOthers, QuietSafe DEF Finish, store, channel, ghosts
  <2>13. CASE Posted(p)
    BY <2>13, AfterPostOthers, PostedSafe DEF Posted, Posting, store
  <2>14. CASE Refused(p)
    <3>1. NoNewSender
      BY <2>14, MovesOn DEF Refused, Posting, locals
    <3> QED  BY <2>14, <3>1, QuietSafe DEF Refused, store, channel, ghosts
  <2>15. CASE Retry(p)
    <3>1. NoNewSender
      BY <2>15, MovesOn DEF Retry, Posting
    <3> QED  BY <2>15, <3>1, DoubtSafe DEF Retry, Posting, store
  <2>16. CASE Release(p)
    <3>1. Others(p) /\ ~(pc'[p] \in {"post", "release"})
      <4>1. CASE cur[p] = Clear
        BY <2>16, <4>1, LeaveOthers DEF Release
      <4>2. CASE cur[p] # Clear
        BY <2>16, <4>2 DEF Release, Goto, Others, TypeOK
      <4> QED  BY <4>1, <4>2
    <3> QED
      BY <2>16, <3>1, ReleaseSafe DEF Release, Released, Posting, channel, ghosts
  <2> QED
    BY <1>3, <2>1, <2>2, <2>3, <2>4, <2>5, <2>6, <2>7, <2>8, <2>9, <2>10, <2>11,
       <2>12, <2>13, <2>14, <2>15, <2>16 DEF PollStep
<1>4. ASSUME NEW p \in Poll, Crash(p) PROVE SafeInv' /\ Kept
  <2>1. NoNewSender /\ UNCHANGED <<row, claims, seeded, landed>>
    BY <1>4, LeaveOthers DEF Crash, store
  <2>2. CASE pc[p] = "post"
    BY <1>4, <2>1, <2>2, DoubtSafe DEF Crash, Posting
  <2>3. CASE pc[p] # "post"
    BY <1>4, <2>1, <2>3, QuietSafe DEF Crash, channel
  <2> QED  BY <2>2, <2>3
<1> QED  BY <1>1, <1>2, <1>3, <1>4 DEF Next

(* The row, the channel and the senders agree at every step: no card or    *)
(* claim before the seed, every card counted, every sender with a claim.   *)
THEOREM SafeInvariant == Spec => []SafeInv
<1>1. Init => SafeInv  BY SafeInit
<1>2. TypeOK /\ SafeInv /\ [Next]_vars => SafeInv'  BY SafeStep
<1> QED  BY <1>1, <1>2, TypeCorrect, PTL DEF Spec

(* Besides the copies Discord stored without saying so, a key never has a  *)
(* second card, however many polls overlap, fail or crash.                 *)
THEOREM FirstKillOnly == Spec => []OneCard
<1>1. TypeOK /\ SafeInv => OneCard
  <2> SUFFICES ASSUME TypeOK, SafeInv, NEW k \in Key PROVE cards[k] <= 1 + doubt[k]
    BY DEF OneCard
  <2>1. cards[k] = doubt[k] + (IF k \in landed THEN 1 ELSE 0) /\ doubt[k] \in Nat
    BY DEF TypeOK, SafeInv, Counted
  <2> QED  BY <2>1
<1> QED  BY <1>1, TypeCorrect, SafeInvariant, PTL

(* No release takes an announced boss out of the row. *)
THEOREM ClaimsOfLandedStay == Spec => []LandedStaysClaimed
<1>1. SafeInv => LandedStaysClaimed
  BY DEF SafeInv, Written, LandedStaysClaimed
<1> QED  BY <1>1, SafeInvariant, PTL

(* What the seed recorded is never posted. *)
THEOREM SeedIsSilent == Spec => []SeededSilent
<1>1. TypeOK /\ SafeInv => SeededSilent
  BY DEF TypeOK, SafeInv, Written, Counted, NeverSeeded, SeededSilent
<1> QED  BY <1>1, TypeCorrect, SafeInvariant, PTL

(* No two invocations ever post or release the same key. *)
THEOREM SendersOwn == Spec => []OwnClaim
<1>1. SafeInv => OwnClaim
  BY DEF SafeInv, Held, OwnClaim
<1> QED  BY <1>1, SafeInvariant, PTL

(* The poll, its row and its retries implement the promise of FirstKill.   *)
THEOREM Refinement == Spec => PromiseKept
<1>1. Init => Promise!Init  BY SafeInit
<1>2. TypeOK /\ SafeInv /\ [Next]_vars => [Promise!Next]_(Promise!vars)
  BY SafeStep DEF Kept
<1> QED
  BY <1>1, <1>2, TypeCorrect, SafeInvariant, PTL DEF Spec, PromiseKept, Promise!Spec

-----------------------------------------------------------------------------
(* The back catalogue *)

(* With the whole history visible, a poll that is about to seed names every *)
(* boss that died before its window, and so the row covers the backlog.     *)
PastIsDead == \A p \in Poll : past[p] \subseteq dead
SeedCovers == \A p \in Poll : pc[p] = "seed" => past[p] \subseteq plan[p].names
BacklogSeeded == backlog \subseteq seeded
BacklogInv == PastIsDead /\ (~Partial => SeedCovers /\ BacklogSeeded)

(* A step of p that neither plans a seed nor writes one. *)
LEMMA BacklogQuiet ==
  ASSUME BacklogInv, dead \subseteq dead', UNCHANGED <<seeded, backlog>>,
         \A q \in Poll : \/ past'[q] = {}
                         \/ past'[q] = past[q] /\ plan'[q] = plan[q],
         \A q \in Poll : pc'[q] = "seed" => pc[q] = "seed" \/ past'[q] = {}
  PROVE  BacklogInv'
BY DEF BacklogInv, PastIsDead, SeedCovers, BacklogSeeded

LEMMA LeaveBacklog ==
  ASSUME TypeOK, NEW p \in Poll, Leave(p)
  PROVE  \A q \in Poll :
           /\ past'[q] = {} \/ (past'[q] = past[q] /\ plan'[q] = plan[q])
           /\ pc'[q] = "seed" => pc[q] = "seed"
BY DEF TypeOK, Leave, Goto

LEMMA GotoBacklog ==
  ASSUME TypeOK, NEW p \in Poll, NEW s, Goto(p, s), s # "seed"
  PROVE  \A q \in Poll : pc'[q] = "seed" => pc[q] = "seed"
BY DEF TypeOK, Goto

(* A poll that plans a seed plans all of what it dates before its window.  *)
LEMMA PlanCovers ==
  ASSUME TypeOK, BacklogInv, NEW p \in Poll, Goto(p, "seed"),
         NEW names, NEW base, NEW clear, NEW then,
         plan' = [plan EXCEPT ![p] = [names |-> names, base |-> base,
                                      clear |-> clear, then |-> then]],
         ~Partial => past[p] \subseteq names,
         UNCHANGED <<dead, past, seeded, backlog>>
  PROVE  BacklogInv'
<1>1. plan'[p].names = names /\ \A q \in Poll \ {p} : plan'[q] = plan[q]
  BY DEF TypeOK
<1>2. \A q \in Poll \ {p} : pc'[q] = pc[q]
  BY DEF TypeOK, Goto
<1> QED  BY <1>1, <1>2 DEF BacklogInv, PastIsDead, SeedCovers, BacklogSeeded

LEMMA BacklogInit == Init => BacklogInv
BY DEF Init, BacklogInv, PastIsDead, SeedCovers, BacklogSeeded

LEMMA BacklogStep == TypeOK /\ BacklogInv /\ [Next]_vars => BacklogInv'
<1> SUFFICES ASSUME TypeOK, BacklogInv, [Next]_vars PROVE BacklogInv'
  OBVIOUS
<1>1. CASE UNCHANGED vars
  BY <1>1, BacklogQuiet DEF vars, world, ghosts, locals
<1>2. CASE World
  BY <1>2, BacklogQuiet DEF World, ListTier, Raid, Age, ghosts, locals
<1>3. ASSUME NEW p \in Poll, PollStep(p) PROVE BacklogInv'
  <2>1. CASE Start(p)
    <3>1. /\ past' = [past EXCEPT ![p] = older]
          /\ UNCHANGED <<dead, older, plan, seeded, backlog>>
          /\ pc[p] = "idle" /\ pc' = [pc EXCEPT ![p] = IF Bootstrapped THEN "load" ELSE "boot"]
      BY <2>1 DEF Start, Goto, world, ghosts
    <3>2. PastIsDead'
      BY <3>1 DEF TypeOK, BacklogInv, PastIsDead
    <3>3. \A q \in Poll : pc'[q] = "seed" => pc[q] = "seed" /\ past'[q] = past[q]
      BY <3>1 DEF TypeOK
    <3> QED
      BY <3>1, <3>2, <3>3 DEF BacklogInv, SeedCovers, BacklogSeeded
  <2>2. CASE BootSkip(p)
    BY <2>2, GotoBacklog, BacklogQuiet DEF BootSkip, world, locals, ghosts
  <2>3. CASE BootPlan(p)
    <3>1. PICK h \in SUBSET Boss :
            LET names == SeedNames(rio[p], h)
                done == IF Team THEN Cardinality(names) ELSE rio[p]
            IN  /\ Visible(h)
                /\ plan' = [plan EXCEPT ![p] =
                     [names |-> names,
                      base |-> Larger(Smaller(done, Total), Cardinality(names)),
                      clear |-> SuppressClear \/ done >= Total,
                      then |-> "mark"]]
      BY <2>3 DEF BootPlan
    <3>2. rio[p] \in Nat  BY <2>3 DEF BootPlan, TypeOK
    <3>3. ~Partial => past[p] \subseteq SeedNames(rio[p], h)
      BY <3>1, <3>2, SeedNamesKeepsHistory DEF Visible, BacklogInv, PastIsDead
    <3>4. Goto(p, "seed") /\ UNCHANGED <<dead, past, seeded, backlog>>
      BY <2>3 DEF BootPlan, world, ghosts
    <3> QED  BY <3>1, <3>3, <3>4, PlanCovers
  <2>4. CASE NewTierPlan(p)
    <3>1. PICK h \in SUBSET Boss :
            LET silent == Silent(p, h)
                names == IF silent THEN h ELSE {}
                killed == IF Team THEN Cardinality(names) ELSE rio[p]
            IN  /\ Visible(h)
                /\ plan' = [plan EXCEPT ![p] =
                     [names |-> names,
                      base |-> Larger(IF silent THEN killed ELSE 0, Cardinality(names)),
                      clear |-> killed >= Total,
                      then |-> IF silent THEN "idle" ELSE "reload"]]
      BY <2>4 DEF NewTierPlan
    <3>2. ~Partial => past[p] \subseteq (IF Silent(p, h) THEN h ELSE {})
      BY <3>1 DEF Visible, Silent, BacklogInv, PastIsDead
    <3>3. Goto(p, "seed") /\ UNCHANGED <<dead, past, seeded, backlog>>
      BY <2>4 DEF NewTierPlan, world, ghosts
    <3> QED  BY <3>1, <3>2, <3>3, PlanCovers
  <2>5. CASE Seed(p)
    <3>1. \A q \in Poll :
            /\ past'[q] = {} \/ (past'[q] = past[q] /\ plan'[q] = plan[q])
            /\ pc'[q] = "seed" => pc[q] = "seed"
      <4>1. CASE plan[p].then = "idle"
        BY <2>5, <4>1, LeaveBacklog DEF Seed
      <4>2. CASE plan[p].then # "idle"
        <5>1. Goto(p, plan[p].then) /\ UNCHANGED <<past, plan>>
          BY <2>5, <4>2 DEF Seed, locals
        <5>2. plan[p].then # "seed"  BY DEF TypeOK, Plan
        <5> QED  BY <5>1, <5>2, GotoBacklog
      <4> QED  BY <4>1, <4>2
    <3>2. dead' = dead  BY <2>5 DEF Seed, world
    <3>3. CASE row
      BY <2>5, <3>1, <3>2, <3>3, BacklogQuiet DEF Seed, PutSeed
    <3>4. CASE ~row
      <4>1. backlog' = past[p] /\ plan[p].names \subseteq seeded'
        BY <2>5, <3>4 DEF Seed, PutSeed, WriteSeed
      <4>2. ~Partial => past[p] \subseteq plan[p].names
        BY <2>5 DEF Seed, BacklogInv, SeedCovers
      <4> QED
        BY <3>1, <3>2, <4>1, <4>2
           DEF BacklogInv, PastIsDead, SeedCovers, BacklogSeeded
    <3> QED  BY <3>3, <3>4
  <2>6. CASE Mark(p)
    BY <2>6, LeaveBacklog, BacklogQuiet DEF Mark, world, ghosts
  <2>7. CASE LoadTier(p)
    <3>1. CASE row
      <4>1. Adopt(p)  BY <2>7, <3>1 DEF LoadTier
      <4>2. \A q \in Poll :
              /\ past'[q] = {} \/ (past'[q] = past[q] /\ plan'[q] = plan[q])
              /\ pc'[q] = "seed" => pc[q] = "seed"
        BY <4>1 DEF Adopt, Goto, TypeOK
      <4> QED  BY <2>7, <4>2, BacklogQuiet DEF LoadTier, world, ghosts
    <3>2. CASE ~row
      <4>1. Goto(p, "fresh")  BY <2>7, <3>2 DEF LoadTier
      <4> QED
        BY <2>7, <3>2, <4>1, GotoBacklog, BacklogQuiet DEF LoadTier, world, locals, ghosts
    <3> QED  BY <3>1, <3>2
  <2>8. CASE Reload(p)
    <3>1. \A q \in Poll :
            /\ past'[q] = {} \/ (past'[q] = past[q] /\ plan'[q] = plan[q])
            /\ pc'[q] = "seed" => pc[q] = "seed"
      BY <2>8 DEF Reload, Adopt, Goto, TypeOK
    <3> QED  BY <2>8, <3>1, BacklogQuiet DEF Reload, world, ghosts
  <2>9. ASSUME NEW b \in Boss, ClaimKill(p, b) PROVE BacklogInv'
    BY <2>9, GotoBacklog, BacklogQuiet DEF ClaimKill, TakeClaim, world, ghosts
  <2>10. ASSUME NEW b \in Boss, SkipKill(p, b) PROVE BacklogInv'
    BY <2>10, BacklogQuiet DEF SkipKill, world, ghosts
  <2>11. CASE ClaimClear(p)
    BY <2>11, GotoBacklog, BacklogQuiet DEF ClaimClear, TakeClaim, world, ghosts
  <2>12. CASE Finish(p)
    BY <2>12, LeaveBacklog, BacklogQuiet DEF Finish, world, ghosts
  <2>13. CASE Posted(p)
    <3>1. CASE cur[p] = Clear
      BY <2>13, <3>1, LeaveBacklog, BacklogQuiet DEF Posted, AfterPost, world
    <3>2. CASE cur[p] # Clear
      BY <2>13, <3>2, GotoBacklog, BacklogQuiet DEF Posted, AfterPost, world
    <3> QED  BY <3>1, <3>2
  <2>14. CASE Refused(p)
    BY <2>14, GotoBacklog, BacklogQuiet DEF Refused, world, locals, ghosts
  <2>15. CASE Retry(p)
    <3>1. PICK s \in {"post", "release"} : Goto(p, s)
      BY <2>15 DEF Retry
    <3> QED  BY <2>15, <3>1, GotoBacklog, BacklogQuiet DEF Retry, world
  <2>16. CASE Release(p)
    <3>1. CASE cur[p] = Clear
      BY <2>16, <3>1, LeaveBacklog, BacklogQuiet DEF Release, world, ghosts
    <3>2. CASE cur[p] # Clear
      BY <2>16, <3>2, GotoBacklog, BacklogQuiet DEF Release, world, ghosts
    <3> QED  BY <3>1, <3>2
  <2> QED
    BY <1>3, <2>1, <2>2, <2>3, <2>4, <2>5, <2>6, <2>7, <2>8, <2>9, <2>10, <2>11,
       <2>12, <2>13, <2>14, <2>15, <2>16 DEF PollStep
<1>4. ASSUME NEW p \in Poll, Crash(p) PROVE BacklogInv'
  BY <1>4, LeaveBacklog, BacklogQuiet DEF Crash, world
<1> QED  BY <1>1, <1>2, <1>3, <1>4 DEF Next

(* With the whole history visible, a boss that died before the window of   *)
(* the poll that seeded the tier never gets a card, whichever of the racing *)
(* polls wrote the seed and whichever of the two seeds it was.             *)
THEOREM BacklogStaysSilent == Spec => [](~Partial => BacklogSilent)
<1>1. Init => BacklogInv  BY BacklogInit
<1>2. TypeOK /\ BacklogInv /\ [Next]_vars => BacklogInv'  BY BacklogStep
<1>3. BacklogInv /\ SeededSilent => (~Partial => BacklogSilent)
  BY DEF BacklogInv, BacklogSeeded, SeededSilent, BacklogSilent
<1> QED  BY <1>1, <1>2, <1>3, TypeCorrect, SeedIsSilent, PTL DEF Spec

-----------------------------------------------------------------------------
(* What the cards say, and when they may go out *)

(* The other invocations stand still while one takes a step.               *)
Stands(q) ==
  /\ pc'[q] = pc[q] /\ rio'[q] = rio[q] /\ found'[q] = found[q] /\ plan'[q] = plan[q]
  /\ mine'[q] = mine[q] /\ todo'[q] = todo[q] /\ cur'[q] = cur[q]

LEMMA LeaveStands ==
  ASSUME TypeOK, NEW p \in Poll, Leave(p)
  PROVE  /\ \A q \in Poll \ {p} : Stands(q)
         /\ pc'[p] = "idle" /\ rio'[p] = 0 /\ found'[p] = {} /\ plan'[p] = NoPlan
         /\ mine'[p] = {} /\ todo'[p] = {} /\ cur'[p] = Clear
BY DEF TypeOK, Leave, Goto, Stands

LEMMA AdoptStands ==
  ASSUME TypeOK, NEW p \in Poll, Adopt(p)
  PROVE  /\ \A q \in Poll \ {p} : Stands(q)
         /\ pc'[p] = "kills" /\ rio'[p] = rio[p] /\ found'[p] = {}
         /\ mine'[p] = claims /\ todo'[p] = found[p] /\ cur'[p] = cur[p]
BY DEF TypeOK, Adopt, Goto, Stands

LEMMA GotoStands ==
  ASSUME TypeOK, NEW p \in Poll, NEW s, Goto(p, s), UNCHANGED locals
  PROVE  /\ \A q \in Poll \ {p} : Stands(q)
         /\ pc'[p] = s /\ rio'[p] = rio[p] /\ found'[p] = found[p] /\ plan'[p] = plan[p]
         /\ mine'[p] = mine[p] /\ todo'[p] = todo[p] /\ cur'[p] = cur[p]
BY DEF TypeOK, Goto, Stands, locals

LEMMA OthersStand ==
  ASSUME TypeOK, NEW p \in Poll, PollStep(p) \/ Crash(p)
  PROVE  \A q \in Poll \ {p} : Stands(q)
<1>1. CASE Start(p)  BY <1>1 DEF Start, Goto, Stands, TypeOK
<1>2. CASE BootSkip(p)  BY <1>2, GotoStands DEF BootSkip
<1>3. CASE BootPlan(p)  BY <1>3 DEF BootPlan, Goto, Stands, TypeOK
<1>4. CASE NewTierPlan(p)  BY <1>4 DEF NewTierPlan, Goto, Stands, TypeOK
<1>5. CASE Seed(p)  BY <1>5, LeaveStands, GotoStands DEF Seed
<1>6. CASE Mark(p)  BY <1>6, LeaveStands DEF Mark
<1>7. CASE LoadTier(p)  BY <1>7, AdoptStands, GotoStands DEF LoadTier
<1>8. CASE Reload(p)  BY <1>8, AdoptStands DEF Reload
<1>9. ASSUME NEW b \in Boss, ClaimKill(p, b) \/ SkipKill(p, b)
      PROVE  \A q \in Poll \ {p} : Stands(q)
  BY <1>9 DEF ClaimKill, SkipKill, TakeClaim, Goto, Stands, TypeOK
<1>10. CASE ClaimClear(p)  BY <1>10 DEF ClaimClear, TakeClaim, Goto, Stands, TypeOK
<1>11. CASE Finish(p)  BY <1>11, LeaveStands DEF Finish
<1>12. CASE Posted(p)  BY <1>12, LeaveStands DEF Posted, AfterPost, Goto, Stands, TypeOK
<1>13. CASE Refused(p)  BY <1>13, GotoStands DEF Refused
<1>14. CASE Retry(p)  BY <1>14 DEF Retry, Goto, Stands, TypeOK
<1>15. CASE Release(p)  BY <1>15, LeaveStands DEF Release, Goto, Stands, TypeOK
<1>16. CASE Crash(p)  BY <1>16, LeaveStands DEF Crash
<1> QED
  BY <1>1, <1>2, <1>3, <1>4, <1>5, <1>6, <1>7, <1>8, <1>9, <1>10, <1>11, <1>12, <1>13, <1>14,
     <1>15, <1>16
  DEF PollStep

(* A poll that got past the marker saw it; one that bootstraps writes it    *)
(* and ends.                                                               *)
MarkerSeen(p) ==
  /\ pc[p] \in {"load", "fresh", "reload", "kills", "post", "release"} => marked
  /\ pc[p] = "seed" => marked \/ plan[p].then = "mark"
MarkedFirst == \A p \in Poll : MarkerSeen(p)

LEMMA MarkedStep == TypeOK /\ MarkedFirst /\ [Next]_vars => MarkedFirst' /\ (cards' # cards => marked)
<1> SUFFICES ASSUME TypeOK, MarkedFirst, [Next]_vars
             PROVE  MarkedFirst' /\ (cards' # cards => marked)
  OBVIOUS
<1>1. CASE UNCHANGED vars
  BY <1>1 DEF vars, store, locals, channel, MarkedFirst, MarkerSeen
<1>2. CASE World
  BY <1>2 DEF World, ListTier, Raid, Age, store, locals, channel, MarkedFirst, MarkerSeen
<1>3. ASSUME NEW p \in Poll, PollStep(p) \/ Crash(p)
      PROVE  MarkedFirst' /\ (cards' # cards => marked)
  <2>0. /\ \A q \in Poll \ {p} : Stands(q)
        /\ MarkerSeen(p) /\ pc[p] \in Step
    BY <1>3, OthersStand DEF MarkedFirst, TypeOK
  <2>1. SUFFICES (marked => marked') /\ MarkerSeen(p)' /\ (cards' # cards => marked)
    BY <2>0 DEF MarkedFirst, MarkerSeen, Stands
  <2> USE DEF MarkerSeen, Step
  <2>2. CASE Start(p)
    BY <2>2 DEF Start, Bootstrapped, Goto, store, channel, TypeOK
  <2>3. CASE BootSkip(p)
    BY <2>0, <2>3, GotoStands DEF BootSkip, store, channel
  <2>4. CASE BootPlan(p)
    BY <2>4 DEF BootPlan, Goto, store, channel, TypeOK
  <2>5. CASE NewTierPlan(p)
    BY <2>0, <2>5 DEF NewTierPlan, Goto, store, channel, TypeOK
  <2>6. CASE Seed(p)
    <3>1. UNCHANGED <<marked, cards>>  BY <2>6 DEF Seed, channel
    <3>2. CASE plan[p].then = "idle"
      BY <2>6, <3>1, <3>2, LeaveStands DEF Seed
    <3>3. CASE plan[p].then # "idle"
      <4>1. plan[p].then \in {"mark", "reload"}  BY <3>3 DEF TypeOK, Plan
      <4> QED  BY <2>0, <2>6, <3>1, <3>3, <4>1, GotoStands DEF Seed
    <3> QED  BY <3>2, <3>3
  <2>7. CASE Mark(p)  BY <2>7, LeaveStands DEF Mark, channel
  <2>8. CASE LoadTier(p)
    BY <2>0, <2>8, AdoptStands, GotoStands DEF LoadTier, store, channel
  <2>9. CASE Reload(p)  BY <2>0, <2>9, AdoptStands DEF Reload, store, channel
  <2>10. ASSUME NEW b \in Boss, ClaimKill(p, b) \/ SkipKill(p, b)
         PROVE  (marked => marked') /\ MarkerSeen(p)' /\ (cards' # cards => marked)
    BY <2>0, <2>10 DEF ClaimKill, SkipKill, TakeClaim, Goto, store, channel, TypeOK
  <2>11. CASE ClaimClear(p)
    BY <2>0, <2>11 DEF ClaimClear, TakeClaim, Goto, store, channel, TypeOK
  <2>12. CASE Finish(p)  BY <2>12, LeaveStands DEF Finish, store, channel
  <2>13. CASE Posted(p)
    BY <2>0, <2>13, LeaveStands DEF Posted, AfterPost, Goto, store, TypeOK
  <2>14. CASE Refused(p)  BY <2>0, <2>14, GotoStands DEF Refused, store, channel
  <2>15. CASE Retry(p)
    BY <2>0, <2>15 DEF Retry, Goto, store, TypeOK
  <2>16. CASE Release(p)
    BY <2>0, <2>16, LeaveStands DEF Release, Goto, channel, TypeOK
  <2>17. CASE Crash(p)
    BY <2>0, <2>17, LeaveStands DEF Crash, MaybeStored, store, channel
  <2> QED
    BY <1>3, <2>2, <2>3, <2>4, <2>5, <2>6, <2>7, <2>8, <2>9, <2>10, <2>11, <2>12, <2>13, <2>14,
       <2>15, <2>16, <2>17
    DEF PollStep
<1> QED  BY <1>1, <1>2, <1>3 DEF Next

(* No poll posts before the install was bootstrapped, and the marker stays: *)
(* the poll that bootstraps posts nothing (handler.py, poll_one).          *)
THEOREM QuietFirst == Spec => QuietUntilMarked
<1>1. Init => MarkedFirst  BY DEF Init, MarkedFirst, MarkerSeen
<1>2. TypeOK /\ MarkedFirst /\ [Next]_vars => [cards' # cards => marked]_vars
  BY MarkedStep
<1>3. TypeOK /\ MarkedFirst /\ [Next]_vars => MarkedFirst'  BY MarkedStep
<1> QED  BY <1>1, <1>2, <1>3, TypeCorrect, PTL DEF Spec, QuietUntilMarked

-----------------------------------------------------------------------------
(* "n of total" over a complete history *)

(* What one invocation knows is true: Raider.IO's count and the kills it    *)
(* read were so when it read them, a seed it planned names dead bosses and  *)
(* no more of them than its baseline says, and it celebrates a clear only   *)
(* of a tier that is clear.                                                *)
KnowsTrue(p) ==
  /\ rio[p] <= Cardinality(dead)
  /\ found[p] \subseteq dead /\ todo[p] \subseteq dead
  /\ mine[p] \cap Boss \subseteq dead
  /\ pc[p] = "seed" =>
       plan[p].names \subseteq dead /\ plan[p].base = Cardinality(plan[p].names)
  /\ Posting(p) /\ cur[p] = Clear => dead = Boss

(* ... and so is what the row says. *)
RowTrue ==
  /\ claims \cap Boss \subseteq dead
  /\ baseline = seedSize /\ seedSize <= Cardinality(dead)

CountInv == RowTrue /\ CountIsTrue /\ \A p \in Poll : KnowsTrue(p)

(* Bosses only die: what was true of the dead stays true.                  *)
LEMMA DeadGrow ==
  ASSUME TypeOK, NEW more \in SUBSET Boss, dead \subseteq more
  PROVE  Cardinality(dead) <= Cardinality(more) /\ Cardinality(more) \in Nat
         /\ Cardinality(dead) \in Nat /\ (dead = Boss => more = Boss)
<1>1. dead \in SUBSET Boss /\ dead \in SUBSET more  BY DEF TypeOK
<1> QED  BY <1>1, BossCount, FS_Subset

(* store.progress_count never runs ahead of the dead when what it adds up   *)
(* does not.                                                               *)
LEMMA ProgressBelow ==
  ASSUME TypeOK, RowTrue, NEW known \in SUBSET Key, known \cap Boss \subseteq dead,
         NEW killed \in Nat \cup {Unlisted}, killed <= Cardinality(dead)
  PROVE  ProgressCount(known, killed) <= Cardinality(dead)
<1> DEFINE c == Cardinality(known \cap Boss)
           d == Cardinality(dead)
<1>1. dead \in SUBSET Boss /\ known \cap Boss \in SUBSET dead  BY DEF TypeOK
<1>2. c \in Nat /\ d \in Nat /\ c <= d  BY <1>1, BossCount, FS_Subset
<1>3. seedSize \in Nat /\ baseline = seedSize /\ seedSize <= d /\ Total \in Nat
  BY TotalType DEF TypeOK, RowTrue
<1>4. ProgressCount(known, killed)
        = Smaller(Total, Larger(killed, baseline + Larger(0, c - seedSize)))
  BY DEF ProgressCount
<1>5. killed <= d /\ killed \in Int  BY DEF Unlisted
<1> DEFINE since == Larger(0, c - seedSize)
           reached == Larger(killed, baseline + since)
<1> HIDE DEF c, d
<1>6. since \in Int /\ baseline + since <= d  BY <1>2, <1>3 DEF Larger
<1> HIDE DEF since
<1>7. reached \in Int /\ reached <= d  BY <1>2, <1>3, <1>5, <1>6 DEF Larger
<1> HIDE DEF reached
<1>8. Smaller(Total, reached) <= d  BY <1>2, <1>3, <1>7 DEF Smaller
<1> QED  BY <1>4, <1>8 DEF d, reached, since

LEMMA AllDead ==
  ASSUME TypeOK, Cardinality(dead) >= Total
  PROVE  dead = Boss
<1>1. dead \in SUBSET Boss  BY DEF TypeOK
<1>2. Cardinality(dead) <= Total /\ Cardinality(dead) \in Nat /\ Total \in Nat
  BY <1>1, BossAssumption, BossCount, FS_Subset, TotalType DEF Total
<1>3. Cardinality(Boss) = Cardinality(dead)  BY <1>2 DEF Total
<1> QED  BY <1>1, <1>3, BossAssumption, FS_Subset

(* A full count is a clear tier. *)
LEMMA FullIsClear ==
  ASSUME TypeOK, RowTrue, NEW p \in Poll, KnowsTrue(p), FullClear(p)
  PROVE  dead = Boss
<1>1. /\ mine[p] \in SUBSET Key /\ rio[p] \in Nat \cup {Unlisted}
      /\ mine[p] \cap Boss \subseteq dead /\ rio[p] <= Cardinality(dead)
  BY DEF TypeOK, KnowsTrue
<1>2. ProgressCount(mine[p], rio[p]) <= Cardinality(dead)  BY <1>1, ProgressBelow
<1>3. ProgressCount(mine[p], rio[p]) \in Nat /\ Total \in Nat /\ Cardinality(dead) \in Nat
  <2>1. ProgressCount(mine[p], rio[p]) \in 0..Total /\ Total \in Nat
    BY <1>1, ProgressCountType, TotalType
  <2>2. dead \in SUBSET Boss  BY DEF TypeOK
  <2> QED  BY <2>1, <2>2, BossCount
<1>4. Cardinality(dead) >= Total  BY <1>2, <1>3 DEF FullClear
<1> QED  BY <1>4, AllDead

(* Raider.IO's count adds nothing to a history that shows every kill.      *)
LEMMA SeedIsHistory ==
  ASSUME TypeOK, NEW killed \in Nat, killed <= Cardinality(dead)
  PROVE  SeedNames(killed, dead) = dead
<1>1. Cardinality(dead) \in Nat /\ Total \in Nat
  BY BossCount, TotalType DEF TypeOK
<1>2. CASE ~Team /\ killed >= Total
  <2>1. Cardinality(dead) >= Total  BY <1>1, <1>2
  <2> QED  BY <1>2, <2>1, AllDead DEF SeedNames
<1>3. CASE ~(~Team /\ killed >= Total)
  BY <1>1, <1>3 DEF SeedNames
<1> QED  BY <1>2, <1>3

(* Storing a message of a poll that knows what is true. *)
LEMMA StoreTrue ==
  ASSUME TypeOK, RowTrue, CountIsTrue, NEW p \in Poll, KnowsTrue(p), Posting(p),
         Store(p) \/ UNCHANGED channel, UNCHANGED world
  PROVE  CountIsTrue'
<1>1. CASE UNCHANGED channel
  BY <1>1 DEF channel, world, CountIsTrue
<1>2. CASE Store(p) /\ cur[p] = Clear
  BY <1>2 DEF Store, CountIsTrue, KnowsTrue, world
<1>3. CASE Store(p) /\ cur[p] # Clear
  <2>1. /\ mine[p] \in SUBSET Key /\ rio[p] \in Nat \cup {Unlisted}
        /\ mine[p] \cap Boss \subseteq dead /\ rio[p] <= Cardinality(dead)
    BY DEF TypeOK, KnowsTrue
  <2>2. count' <= Cardinality(dead)  BY <1>3, <2>1, ProgressBelow DEF Store
  <2>3. cards'[Clear] = cards[Clear]
    BY <1>3 DEF Store, TypeOK, Key
  <2> QED  BY <2>2, <2>3 DEF CountIsTrue, world
<1> QED  BY <1>1, <1>2, <1>3

LEMMA CountInit == Init => CountInv
<1> SUFFICES ASSUME Init PROVE CountInv
  OBVIOUS
<1>1. Cardinality(dead) = 0  BY FS_EmptySet DEF Init
<1> QED
  BY <1>1, BossAssumption
  DEF Init, CountInv, RowTrue, CountIsTrue, KnowsTrue, Posting, Key

LEMMA CountWorld == TypeOK /\ CountInv /\ World => CountInv'
<1> SUFFICES ASSUME TypeOK, CountInv, World PROVE CountInv'
  OBVIOUS
<1>1. /\ dead \subseteq dead' /\ dead' \in SUBSET Boss
      /\ UNCHANGED <<store, channel, pc, locals>>
  BY DEF World, ListTier, Raid, Age, TypeOK
<1>2. /\ Cardinality(dead) <= Cardinality(dead') /\ Cardinality(dead') \in Nat
      /\ Cardinality(dead) \in Nat /\ (dead = Boss => dead' = Boss)
  <2> DEFINE more == dead'
  <2>1. more \in SUBSET Boss /\ dead \subseteq more  BY <1>1
  <2> HIDE DEF more
  <2>2. /\ Cardinality(dead) <= Cardinality(more) /\ Cardinality(more) \in Nat
        /\ Cardinality(dead) \in Nat /\ (dead = Boss => more = Boss)
    BY <2>1, DeadGrow
  <2> QED  BY <2>2 DEF more
<1>3. UNCHANGED <<claims, seedSize, baseline, cards, count, pc, rio, found, plan, mine, todo,
                  cur>>
  BY <1>1 DEF store, channel, locals
<1>4. RowTrue'
  BY <1>1, <1>2, <1>3 DEF CountInv, RowTrue, TypeOK
<1>5. CountIsTrue'
  BY <1>2, <1>3 DEF CountInv, CountIsTrue, TypeOK
<1>6. ASSUME NEW p \in Poll PROVE KnowsTrue(p)'
  <2>1. KnowsTrue(p) /\ rio[p] \in Nat \cup {Unlisted}  BY DEF CountInv, TypeOK
  <2>2. rio[p] <= Cardinality(dead')
    BY <1>2, <2>1 DEF KnowsTrue, Unlisted
  <2> QED  BY <1>1, <1>2, <1>3, <2>1, <2>2 DEF KnowsTrue, Posting
<1> QED  BY <1>4, <1>5, <1>6 DEF CountInv

(* What a step of one invocation must show for the invariant to survive it. *)
LEMMA CountOthers ==
  ASSUME TypeOK, CountInv, NEW p \in Poll, PollStep(p) \/ Crash(p), UNCHANGED world,
         RowTrue', CountIsTrue', KnowsTrue(p)'
  PROVE  CountInv'
<1>1. \A q \in Poll \ {p} : Stands(q)  BY OthersStand
<1>2. \A q \in Poll \ {p} : KnowsTrue(q)'
  BY <1>1 DEF CountInv, KnowsTrue, Posting, Stands, world
<1> QED  BY <1>2 DEF CountInv

(* A seed that was planned over the whole history. *)
LEMMA PlanTrue ==
  ASSUME TypeOK, ~Partial, NEW p \in Poll, KnowsTrue(p), BootPlan(p) \/ NewTierPlan(p)
  PROVE  plan'[p].names \subseteq dead /\ plan'[p].base = Cardinality(plan'[p].names)
<1>1. dead \in SUBSET Boss /\ Cardinality(dead) \in Nat /\ Total \in Nat
      /\ rio[p] \in Nat \cup {Unlisted} /\ rio[p] <= Cardinality(dead)
  BY BossCount, TotalType DEF TypeOK, KnowsTrue
<1>2. CASE BootPlan(p)
  <2>1. rio[p] \in Nat /\ SeedNames(rio[p], dead) = dead
    BY <1>1, <1>2, SeedIsHistory DEF BootPlan
  <2>2. PICK h \in SUBSET Boss :
          /\ h = dead
          /\ plan' = [plan EXCEPT ![p] =
               [names |-> SeedNames(rio[p], h),
                base |-> Larger(Smaller(IF Team THEN Cardinality(SeedNames(rio[p], h))
                                                ELSE rio[p], Total),
                                Cardinality(SeedNames(rio[p], h))),
                clear |-> SuppressClear
                          \/ (IF Team THEN Cardinality(SeedNames(rio[p], h))
                                      ELSE rio[p]) >= Total,
                then |-> "mark"]]
    BY <1>2 DEF BootPlan, Visible
  <2>3. /\ plan'[p].names = dead
        /\ plan'[p].base = Larger(Smaller(IF Team THEN Cardinality(dead) ELSE rio[p], Total),
                                  Cardinality(dead))
    BY <2>1, <2>2 DEF TypeOK
  <2> QED  BY <1>1, <2>1, <2>3 DEF Larger, Smaller
<1>3. CASE NewTierPlan(p)
  <2>1. PICK h \in SUBSET Boss :
          /\ h = dead
          /\ plan'[p].names = IF Silent(p, h) THEN h ELSE {}
          /\ plan'[p].base
               = Larger(IF Silent(p, h)
                        THEN (IF Team THEN Cardinality(IF Silent(p, h) THEN h ELSE {})
                                      ELSE rio[p])
                        ELSE 0,
                        Cardinality(IF Silent(p, h) THEN h ELSE {}))
    BY <1>3 DEF NewTierPlan, Visible, TypeOK
  <2>2. CASE Silent(p, h)  BY <1>1, <2>1, <2>2 DEF Larger, Unlisted
  <2>3. CASE ~Silent(p, h)
    <3>1. Cardinality({}) = 0  BY FS_EmptySet
    <3> QED  BY <2>1, <2>3, <3>1 DEF Larger
  <2> QED  BY <2>2, <2>3
<1> QED  BY <1>2, <1>3

LEMMA CountPoll ==
  ASSUME TypeOK, CountInv, ~Partial, NEW p \in Poll, PollStep(p) \/ Crash(p)
  PROVE  CountInv'
<1>0. /\ KnowsTrue(p) /\ RowTrue /\ CountIsTrue
      /\ dead \in SUBSET Boss /\ Cardinality(dead) \in Nat /\ Clear \notin Boss
      /\ recent \subseteq dead
  BY BossCount, BossAssumption DEF CountInv, TypeOK
<1>1. UNCHANGED world
  BY DEF PollStep, Crash, Start, BootSkip, BootPlan, NewTierPlan, Seed, Mark, LoadTier, Reload,
         ClaimKill, SkipKill, ClaimClear, Finish, Posted, Refused, Retry, Release
<1>2. SUFFICES RowTrue' /\ CountIsTrue' /\ KnowsTrue(p)'
  BY <1>1, CountOthers
<1>3. SUFFICES /\ UNCHANGED <<claims, seedSize, baseline>> \/ RowTrue'
               /\ UNCHANGED channel \/ CountIsTrue'
               /\ KnowsTrue(p)'
  BY <1>0, <1>1 DEF RowTrue, CountIsTrue, world, channel
<1>4. UNCHANGED dead  BY <1>1 DEF world
(* An invocation that ends knows nothing, one that goes on knows what it did. *)
<1>5. ASSUME Leave(p) PROVE KnowsTrue(p)'
  BY <1>0, <1>4, <1>5, LeaveStands DEF KnowsTrue, Posting
<1>6. ASSUME UNCHANGED locals, NEW s, Goto(p, s), s \notin {"seed", "post", "release"}
      PROVE  KnowsTrue(p)'
  BY <1>0, <1>4, <1>6, GotoStands DEF KnowsTrue, Posting
<1>7. ASSUME Adopt(p) PROVE KnowsTrue(p)'
  BY <1>0, <1>4, <1>7, AdoptStands DEF KnowsTrue, Posting, RowTrue
<1> USE <1>4
<1>10. CASE Start(p)
  <2>1. found'[p] \subseteq dead /\ pc'[p] \in {"load", "boot"}
        /\ UNCHANGED <<mine, todo, cur, plan>>
    BY <1>0, <1>10 DEF Start, Goto, TypeOK
  <2>2. rio'[p] <= Cardinality(dead)
    <3>1. PICK n \in IF Team THEN {0} ELSE 0..Cardinality(dead) :
            rio' = [rio EXCEPT ![p] = IF listed THEN n ELSE Unlisted]
      BY <1>10 DEF Start
    <3>2. rio'[p] = IF listed THEN n ELSE Unlisted  BY <3>1 DEF TypeOK
    <3>3. n <= Cardinality(dead) /\ n \in Nat  BY <1>0
    <3> QED  BY <1>0, <3>2, <3>3 DEF Unlisted
  <2> QED  BY <1>0, <1>10, <2>1, <2>2 DEF KnowsTrue, Posting, Start, store, channel
<1>11. CASE BootSkip(p)
  BY <1>6, <1>11 DEF BootSkip, store
<1>12. CASE BootPlan(p) \/ NewTierPlan(p)
  <2>1. plan'[p].names \subseteq dead /\ plan'[p].base = Cardinality(plan'[p].names)
    BY <1>0, <1>12, PlanTrue
  <2>2. UNCHANGED <<store, channel, rio, found, mine, todo, cur>> /\ pc'[p] = "seed"
    BY <1>12 DEF BootPlan, NewTierPlan, Goto, TypeOK
  <2> QED  BY <1>0, <2>1, <2>2 DEF KnowsTrue, Posting, store
<1>13. CASE Seed(p)
  <2>1. RowTrue' \/ UNCHANGED <<claims, seedSize, baseline>>
    <3>1. CASE row  BY <1>13, <3>1 DEF Seed, PutSeed
    <3>2. CASE ~row
      <4>1. WriteSeed(p) /\ plan[p].names \in SUBSET Boss
        BY <1>13, <3>2 DEF Seed, PutSeed, TypeOK, Plan
      <4>2. plan[p].names \in SUBSET dead /\ plan[p].base = Cardinality(plan[p].names)
        BY <1>0, <1>13 DEF KnowsTrue, Seed
      <4>3. Cardinality(plan[p].names) <= Cardinality(dead)
        BY <1>0, <4>2, BossAssumption, FS_Subset
      <4> QED  BY <1>0, <4>1, <4>2, <4>3 DEF RowTrue, WriteSeed
    <3> QED  BY <3>1, <3>2
  <2>2. KnowsTrue(p)'
    <3>1. CASE plan[p].then = "idle"  BY <1>5, <1>13, <3>1 DEF Seed
    <3>2. CASE plan[p].then # "idle"
      <4>1. plan[p].then \in {"mark", "reload"}  BY <3>2 DEF TypeOK, Plan
      <4> QED  BY <1>6, <1>13, <3>2, <4>1 DEF Seed
    <3> QED  BY <3>1, <3>2
  <2> QED  BY <1>13, <2>1, <2>2 DEF Seed
<1>14. CASE Mark(p)  BY <1>5, <1>14 DEF Mark
<1>15. CASE LoadTier(p)  BY <1>6, <1>7, <1>15 DEF LoadTier, store
<1>16. CASE Reload(p)  BY <1>7, <1>16 DEF Reload, store
<1>17. ASSUME NEW b \in Boss, ClaimKill(p, b)
       PROVE  RowTrue' /\ UNCHANGED channel /\ KnowsTrue(p)'
  <2>1. b \in dead /\ b # Clear  BY <1>0, <1>17 DEF ClaimKill, KnowsTrue
  <2>2. /\ claims' = claims \cup {b} /\ mine'[p] = mine[p] \cup {b} /\ cur'[p] = b
        /\ todo'[p] = todo[p] \ {b} /\ pc'[p] = "post"
        /\ UNCHANGED <<seedSize, baseline, channel, rio, found, plan>>
    BY <1>17 DEF ClaimKill, TakeClaim, Goto, TypeOK
  <2> QED  BY <1>0, <2>1, <2>2 DEF RowTrue, KnowsTrue
<1>18. ASSUME NEW b \in Boss, SkipKill(p, b)
       PROVE  UNCHANGED <<store, channel>> /\ KnowsTrue(p)'
  <2>1. /\ todo'[p] = todo[p] \ {b}
        /\ UNCHANGED <<store, channel, pc, rio, found, plan, mine, cur>>
    BY <1>18 DEF SkipKill, TypeOK
  <2> QED  BY <1>0, <2>1 DEF KnowsTrue, Posting
<1>19. CASE ClaimClear(p)
  <2>1. dead = Boss  BY <1>0, <1>19, FullIsClear DEF ClaimClear
  <2>2. /\ claims' = claims \cup {Clear} /\ mine'[p] = mine[p] \cup {Clear}
        /\ pc'[p] = "post" /\ UNCHANGED <<seedSize, baseline, channel, rio, found, plan, todo>>
    BY <1>19 DEF ClaimClear, TakeClaim, Goto, TypeOK
  <2> QED  BY <1>0, <2>1, <2>2 DEF RowTrue, KnowsTrue
<1>20. CASE Finish(p)  BY <1>5, <1>20 DEF Finish, store
<1>21. ASSUME AfterPost(p) PROVE KnowsTrue(p)'
  <2>1. CASE cur[p] = Clear  BY <1>5, <1>21, <2>1 DEF AfterPost
  <2>2. CASE cur[p] # Clear
    BY <1>0, <1>21, <2>2 DEF AfterPost, Goto, KnowsTrue, Posting, TypeOK
  <2> QED  BY <2>1, <2>2
<1>22. CASE Posted(p)
  <2>1. CountIsTrue'  BY <1>0, <1>1, <1>22, StoreTrue DEF Posted, Posting
  <2> QED  BY <1>21, <1>22, <2>1 DEF Posted, store
<1>23. CASE Refused(p)
  BY <1>0, <1>23, GotoStands DEF Refused, KnowsTrue, Posting, store
<1>24. CASE Retry(p)
  <2>1. CountIsTrue'
    BY <1>0, <1>1, <1>24, StoreTrue DEF Retry, Posting, MaybeStored
  <2>2. UNCHANGED <<store, rio, found, plan, mine, todo, cur>> /\ pc'[p] \in {"post", "release"}
    BY <1>24 DEF Retry, Goto, TypeOK
  <2> QED  BY <1>0, <1>24, <2>1, <2>2 DEF KnowsTrue, Posting, Retry, store
<1>25. CASE Release(p)
  <2>1. RowTrue'  BY <1>0, <1>25 DEF Release, RowTrue
  <2>2. KnowsTrue(p)'
    <3>1. CASE cur[p] = Clear  BY <1>5, <1>25, <3>1 DEF Release
    <3>2. CASE cur[p] # Clear
      BY <1>0, <1>25, <3>2 DEF Release, Goto, KnowsTrue, Posting, TypeOK
    <3> QED  BY <3>1, <3>2
  <2> QED  BY <1>25, <2>1, <2>2 DEF Release
<1>26. CASE Crash(p)
  <2>1. UNCHANGED channel \/ CountIsTrue'
    BY <1>0, <1>1, <1>26, StoreTrue DEF Crash, Posting, MaybeStored
  <2> QED  BY <1>5, <1>26, <2>1 DEF Crash, store
<1> QED
  BY <1>10, <1>11, <1>12, <1>13, <1>14, <1>15, <1>16, <1>17, <1>18, <1>19, <1>20, <1>22, <1>23,
     <1>24, <1>25, <1>26
  DEF PollStep, store

LEMMA CountStep == TypeOK /\ CountInv /\ ~Partial /\ [Next]_vars => CountInv'
<1> SUFFICES ASSUME TypeOK, CountInv, ~Partial, [Next]_vars PROVE CountInv'
  OBVIOUS
<1>1. CASE UNCHANGED vars
  BY <1>1 DEF vars, world, store, locals, channel, CountInv, RowTrue, CountIsTrue, KnowsTrue,
              Posting
<1>2. CASE World  BY <1>2, CountWorld
<1>3. ASSUME NEW p \in Poll, PollStep(p) \/ Crash(p) PROVE CountInv'
  BY <1>3, CountPoll
<1> QED  BY <1>1, <1>2, <1>3 DEF Next

(* Where the logs show every kill, "n of total" and the clear card never    *)
(* run ahead of the guild, whatever Raider.IO lags by, however polls        *)
(* overlap and whichever of them seeded the tier.  Over partial logs the    *)
(* seed's guess of the missing bosses may overshoot, so the hypothesis      *)
(* stays.                                                                  *)
THEOREM CountHolds ==
  ASSUME ~Partial
  PROVE  Spec => []CountIsTrue
<1>1. CountInv => CountIsTrue  BY DEF CountInv
<1>2. TypeOK /\ CountInv /\ [Next]_vars => CountInv'  BY CountStep
<1> QED  BY <1>1, <1>2, CountInit, TypeCorrect, PTL DEF Spec
=============================================================================
