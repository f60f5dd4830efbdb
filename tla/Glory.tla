-------------------------------- MODULE Glory --------------------------------
(***************************************************************************)
(* The raid meta achievement of one team (glory_check of src/handler.py,   *)
(* src/glory.py): half-hourly checks, which may overlap and die, read the  *)
(* raiders' characters, keep what each raider holds, and post one card for *)
(* each achievement the guild earned, then a gold one, to the team's       *)
(* channel and to General.                                                 *)
(*                                                                         *)
(* A completion time is the number of its moment; raiders who earn an      *)
(* achievement within GROUP_WINDOW_MS of each other share one.             *)
(***************************************************************************)
EXTENDS Naturals, FiniteSets

CONSTANTS
  Person, Character,
  Owner,            \* [Character -> Person]: the roll call mapping
  Subs,             \* achievements under the meta, numbered 1..Subs
  Need,             \* GROUP_MIN, or the setup's group
  NoRow,            \* no GLORY#<meta> row
  Check,            \* invocations that may overlap
  GloryAttempts,    \* MAX_ATTEMPTS of src/discord.py
  MaxMoments,       \* BOUND: moments of the raid
  MaxLogouts,       \* BOUND: logouts
  MaxChecks,        \* BOUND: checks in one behaviour
  MaxGloryFaults    \* BOUND: failed requests and ended checks

ASSUME GloryRoster ==
  /\ IsFiniteSet(Person) /\ Owner \in [Character -> Person]
  /\ Subs \in Nat \ {0} /\ Need \in Nat \ {0}
ASSUME GloryBounds ==
  /\ GloryAttempts \in Nat \ {0} /\ MaxMoments \in Nat /\ MaxLogouts \in Nat
  /\ MaxChecks \in Nat /\ MaxGloryFaults \in Nat

VARIABLES
  stamp,            \* [Person -> Holdings]: what the game knows, 0: not earned
  moment,           \* moments so far
  profile,          \* [Character -> Holdings]: the snapshot of the last logout
  logouts,          \* [Character -> Nat]: what moves a signature
  row,              \* GLORY#<meta>
  check,            \* [Check -> Visit]
  wall,             \* [GloryCard -> Nat]: copies in the card's channel
  unsure,           \* history: [GloryCard -> Nat]: copies no answer told of
  seeded,           \* history: cards the first run recorded as old
  visits, gloryFaults

gloryWorld == <<stamp, moment, profile, logouts>>
gloryVars == <<gloryWorld, row, check, wall, unsure, seeded, visits, gloryFaults>>

Sub == 1..Subs
Meta == Subs + 1            \* the gold card in the team's channel
General == Subs + 2         \* the gold card in General: the meta's id negated
GloryCard == 1..(Subs + 2)
Holdings == [Sub -> Nat]
Nothing == [a \in Sub |-> 0]
HeldBy == [Person -> Holdings]
Sigs == [Character -> Nat]
Unsigned == [c \in Character |-> 0]
Row == [announced : SUBSET GloryCard, held : HeldBy, sigs : Sigs]
ASSUME GloryNoRow == NoRow \notin Row
CheckStep == {"idle", "scan", "seed", "reload", "save", "decide", "claim", "send", "release"}
Visit == [at : CheckStep, backfill : BOOLEAN, known : Row \cup {NoRow}, held : HeldBy,
          sigs : Sigs, announced : SUBSET GloryCard, todo : SUBSET Sub, card : GloryCard]

Away == [at |-> "idle", backfill |-> FALSE, known |-> NoRow,
         held |-> [p \in Person |-> Nothing], sigs |-> Unsigned, announced |-> {},
         todo |-> {}, card |-> 1]

GloryTypeOK ==
  /\ stamp \in HeldBy /\ moment \in 0..MaxMoments
  /\ profile \in [Character -> Holdings] /\ logouts \in Sigs
  /\ row \in Row \cup {NoRow}
  /\ check \in [Check -> Visit]
  /\ wall \in [GloryCard -> Nat] /\ unsure \in [GloryCard -> Nat]
  /\ seeded \subseteq GloryCard
  /\ visits \in 0..MaxChecks /\ gloryFaults \in 0..MaxGloryFaults

GloryInit ==
  /\ stamp = [p \in Person |-> Nothing] /\ moment = 0
  /\ profile = [c \in Character |-> Nothing]
  /\ logouts = [c \in Character |-> 1]
  /\ row = NoRow
  /\ check = [v \in Check |-> Away]
  /\ wall = [g \in GloryCard |-> 0] /\ unsure = [g \in GloryCard |-> 0]
  /\ seeded = {} /\ visits = 0 /\ gloryFaults = 0

-----------------------------------------------------------------------------
(* The game and Blizzard's profiles *)

(* A group, or a raider alone, earns an achievement: first time counts. *)
Earn(a, who) ==
  /\ moment < MaxMoments /\ moment' = moment + 1
  /\ who # {} /\ \A p \in who : stamp[p][a] = 0
  /\ stamp' = [p \in Person |-> IF p \in who THEN [stamp[p] EXCEPT ![a] = moment'] ELSE stamp[p]]
  /\ UNCHANGED <<profile, logouts, row, check, wall, unsure, seeded, visits, gloryFaults>>

Logout(c) ==
  /\ profile[c] # stamp[Owner[c]]
  /\ logouts[c] <= MaxLogouts
  /\ profile' = [profile EXCEPT ![c] = stamp[Owner[c]]]
  /\ logouts' = [logouts EXCEPT ![c] = @ + 1]
  /\ UNCHANGED <<stamp, moment, row, check, wall, unsure, seeded, visits, gloryFaults>>

-----------------------------------------------------------------------------
(* src/glory.py *)

(* group_at: the first moment that Need raiders share, 0 when none is. *)
GroupAt(heldBy, a) ==
  LET times == {t \in 1..MaxMoments :
                  Cardinality({p \in Person : heldBy[p][a] = t}) >= Need}
  IN  IF times = {} THEN 0 ELSE CHOOSE t \in times : \A u \in times : t <= u

GuildEarned(heldBy) == {a \in Sub : GroupAt(heldBy, a) # 0}

(* fresh: by the time they were earned, then by id. *)
Earlier(heldBy, a, b) ==
  \/ GroupAt(heldBy, a) < GroupAt(heldBy, b)
  \/ GroupAt(heldBy, a) = GroupAt(heldBy, b) /\ a < b
FirstOf(heldBy, todo) ==
  {a \in todo : \A b \in todo \ {a} : Earlier(heldBy, a, b)}

-----------------------------------------------------------------------------
(* glory_one *)

CheckAt(v, step) == check[v].at = step
CheckTo(v, visit) == check' = [check EXCEPT ![v] = visit]
GloryFault == gloryFaults < MaxGloryFaults /\ gloryFaults' = gloryFaults + 1

LoadGlory(v, backfill) ==
  /\ CheckAt(v, "idle")
  /\ visits < MaxChecks /\ visits' = visits + 1
  /\ CheckTo(v, [Away EXCEPT !.at = "scan", !.backfill = backfill, !.known = row])
  /\ UNCHANGED <<gloryWorld, row, wall, unsure, seeded, gloryFaults>>

StoredSigs(known) == IF known = NoRow THEN Unsigned ELSE known.sigs
StoredHeld(known) == IF known = NoRow THEN [p \in Person |-> Nothing] ELSE known.held

(* scan and combine: characters that answer, of these the ones whose       *)
(* signature moved; what they hold is added to what the row held.          *)
Scanned(heldBy, moved) ==
  [p \in Person |-> [a \in Sub |->
     LET times == ({heldBy[p][a]} \cup {profile[c][a] : c \in {d \in moved : Owner[d] = p}}) \ {0}
     IN  IF times = {} THEN 0 ELSE CHOOSE t \in times : \A u \in times : t <= u]]

ScanCharacters(v) ==
  LET t == check[v] IN
  /\ CheckAt(v, "scan")
  /\ \E missing \in SUBSET Character :
       LET answered == Character \ missing
           moved == {c \in answered : logouts[c] # StoredSigs(t.known)[c]}
       IN
       /\ IF missing = {} THEN UNCHANGED gloryFaults ELSE GloryFault
       /\ CheckTo(v, [t EXCEPT
            !.held = Scanned(StoredHeld(t.known), moved),
            !.sigs = [c \in Character |-> IF c \in answered THEN logouts[c] ELSE 0],
            !.at = IF t.known = NoRow THEN "seed" ELSE "save",
            !.announced = IF t.known = NoRow THEN {} ELSE t.known.announced])
  /\ UNCHANGED <<gloryWorld, row, wall, unsure, seeded, visits>>

(* What the guild earned before the bot was watching. *)
Already(t) ==
  IF t.backfill THEN {}
  ELSE GuildEarned(t.held) \cup (IF GuildEarned(t.held) = Sub THEN {Meta, General} ELSE {})

NewRow(old) == [announced |-> old, held |-> [p \in Person |-> Nothing], sigs |-> Unsigned]

(* A variant: the first run writes its row whatever is there. *)
SeedOver(v) ==
  /\ CheckAt(v, "seed")
  /\ row' = NewRow(Already(check[v])) /\ seeded' = Already(check[v])
  /\ CheckTo(v, [check[v] EXCEPT !.at = "reload"])
  /\ UNCHANGED <<gloryWorld, wall, unsure, visits, gloryFaults>>

(* seed_glory: the first of two first runs writes it. *)
SeedGlory(v) ==
  /\ CheckAt(v, "seed")
  /\ IF row = NoRow
     THEN row' = NewRow(Already(check[v])) /\ seeded' = Already(check[v])
     ELSE UNCHANGED <<row, seeded>>
  /\ CheckTo(v, [check[v] EXCEPT !.at = "reload"])
  /\ UNCHANGED <<gloryWorld, wall, unsure, visits, gloryFaults>>

ReloadGlory(v) ==
  /\ CheckAt(v, "reload")
  /\ CheckTo(v, [check[v] EXCEPT !.at = "save", !.announced = row.announced])
  /\ UNCHANGED <<gloryWorld, row, wall, unsure, seeded, visits, gloryFaults>>

(* A variant: the signatures are saved, the holdings are not. *)
SaveSignatures(v) ==
  /\ CheckAt(v, "save")
  /\ row' = [row EXCEPT !.sigs = check[v].sigs]
  /\ CheckTo(v, [check[v] EXCEPT !.at = "decide",
                   !.todo = GuildEarned(check[v].held) \ check[v].announced])
  /\ UNCHANGED <<gloryWorld, wall, unsure, seeded, visits, gloryFaults>>

(* put_glory_progress, over whatever another check saved meanwhile. *)
SaveProgress(v) ==
  /\ CheckAt(v, "save")
  /\ row' = [row EXCEPT !.held = check[v].held, !.sigs = check[v].sigs]
  /\ CheckTo(v, [check[v] EXCEPT !.at = "decide",
                   !.todo = GuildEarned(check[v].held) \ check[v].announced])
  /\ UNCHANGED <<gloryWorld, wall, unsure, seeded, visits, gloryFaults>>

(* The next card: what is fresh, in order; then gold, once this check      *)
(* knows every achievement announced; then gold in General, once it knows  *)
(* the meta announced.                                                     *)
Cards(t) ==
  IF t.todo # {} THEN FirstOf(t.held, t.todo)
  ELSE IF ~ Sub \subseteq t.announced THEN {}
  ELSE IF Meta \notin t.announced THEN {Meta}
  ELSE {General} \ t.announced

Decide(v) ==
  LET t == check[v] IN
  /\ CheckAt(v, "decide")
  /\ IF Cards(t) = {} THEN CheckTo(v, Away)
     ELSE \E g \in Cards(t) : CheckTo(v, [t EXCEPT !.at = "claim", !.card = g])
  /\ UNCHANGED <<gloryWorld, row, wall, unsure, seeded, visits, gloryFaults>>

(* claim_glory.  A lost achievement is passed over, a lost gold card ends  *)
(* the check.                                                              *)
ClaimGlory(v) ==
  LET t == check[v] g == t.card IN
  /\ CheckAt(v, "claim")
  /\ IF g \in row.announced
     THEN /\ UNCHANGED row
          /\ CheckTo(v, IF g \in Sub THEN [t EXCEPT !.at = "decide", !.todo = @ \ {g}] ELSE Away)
     ELSE /\ row' = [row EXCEPT !.announced = @ \cup {g}]
          /\ CheckTo(v, [t EXCEPT !.at = "send", !.announced = @ \cup {g}, !.todo = @ \ {g}])
  /\ UNCHANGED <<gloryWorld, wall, unsure, seeded, visits, gloryFaults>>

(* The post, after some requests nobody answered. *)
SendGlory(v) ==
  LET t == check[v] IN
  /\ CheckAt(v, "send")
  /\ \E lost \in 0..(GloryAttempts - 1) :
       /\ IF lost = 0 THEN UNCHANGED gloryFaults ELSE GloryFault
       /\ wall' = [wall EXCEPT ![t.card] = @ + lost + 1]
       /\ unsure' = [unsure EXCEPT ![t.card] = @ + lost]
  /\ CheckTo(v, [t EXCEPT !.at = "decide"])
  /\ UNCHANGED <<gloryWorld, row, seeded, visits>>

(* DiscordError: refused, or every request unanswered. *)
SendRefused(v) ==
  LET t == check[v] IN
  /\ CheckAt(v, "send") /\ GloryFault
  /\ \E lost \in 0..GloryAttempts :
       /\ wall' = [wall EXCEPT ![t.card] = @ + lost]
       /\ unsure' = [unsure EXCEPT ![t.card] = @ + lost]
  /\ CheckTo(v, [t EXCEPT !.at = "release"])
  /\ UNCHANGED <<gloryWorld, row, seeded, visits>>

(* release_glory; the cards after it wait for the next check. *)
ReleaseGlory(v) ==
  /\ CheckAt(v, "release")
  /\ row' = [row EXCEPT !.announced = @ \ {check[v].card}]
  /\ CheckTo(v, Away)
  /\ UNCHANGED <<gloryWorld, wall, unsure, seeded, visits, gloryFaults>>

(* The check ends where it stands; a request may have been under way. *)
CheckEnds(v) ==
  LET t == check[v] IN
  /\ ~ CheckAt(v, "idle") /\ GloryFault
  /\ \/ UNCHANGED <<wall, unsure>>
     \/ /\ CheckAt(v, "send")
        /\ wall' = [wall EXCEPT ![t.card] = @ + 1]
        /\ unsure' = [unsure EXCEPT ![t.card] = @ + 1]
  /\ CheckTo(v, Away)
  /\ UNCHANGED <<gloryWorld, row, seeded, visits>>

CheckSteps(v) ==
  \/ \E backfill \in BOOLEAN : LoadGlory(v, backfill)
  \/ ScanCharacters(v) \/ SeedGlory(v) \/ ReloadGlory(v) \/ SaveProgress(v) \/ Decide(v)
  \/ ClaimGlory(v) \/ SendGlory(v) \/ SendRefused(v) \/ ReleaseGlory(v) \/ CheckEnds(v)

GloryNext ==
  \/ \E a \in Sub, who \in SUBSET Person : Earn(a, who)
  \/ \E c \in Character : Logout(c)
  \/ \E v \in Check : CheckSteps(v)

GlorySpec == GloryInit /\ [][GloryNext]_gloryVars

-----------------------------------------------------------------------------
(* Properties *)

(* store.py:904 "a signature saved without its holdings would skip a       *)
(* character nobody remembers reading": whatever two checks overwrite of   *)
(* each other's progress, a character whose signature the row shares holds *)
(* nothing the row does not know of its owner.                             *)
SignedIsHeld ==
  row # NoRow =>
    \A c \in Character : row.sigs[c] = logouts[c] =>
      \A a \in Sub : profile[c][a] # 0 => row.held[Owner[c]][a] # 0

(* handler.py:2373 "The first live run SEEDS: whatever the guild has       *)
(* already earned is recorded and not announced": though two first runs    *)
(* overlap, what was seeded is never posted, and no card is posted twice   *)
(* but for a request Discord served without an answer.                     *)
GloryOnce ==
  \A g \in GloryCard : wall[g] <= 1 + unsure[g] /\ (g \in seeded => wall[g] = 0)
=============================================================================
