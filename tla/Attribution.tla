----------------------------- MODULE Attribution ------------------------------
(***************************************************************************)
(* Which raid a kill belongs to, and whether its boss is one that was      *)
(* recorded (raiderio.py).  Raider.IO publishes raids with their bosses,   *)
(* an expansion a call; the logs name bosses in their own spelling.  A     *)
(* tier is seeded, then kills come in; here a poll is one step over one    *)
(* kill, what it does besides is Announcer's.                              *)
(***************************************************************************)
EXTENDS Naturals, FiniteSets, SequencesExt

CONSTANTS
  Bosses,            \* [raid -> its bosses in the published order]
  ShortName, LongName,  \* [boss -> words]: the two forms a name is printed in
  ExpansionOf,       \* [raid -> expansion]
  Followed,          \* raids in the guild's raid_progression
  ExpansionHint,     \* EXPANSION_HINT
  MaxReported,       \* BOUND: kills met by polls after the seed
  MaxFights,         \* BOUND: fights of a night
  MaxStaticFaults    \* BOUND: expansions whose data did not load

RaidSlug == DOMAIN Bosses
AnyBoss == UNION {Range(Bosses[r]) : r \in RaidSlug}
RaidOf(b) == CHOOSE r \in RaidSlug : b \in Range(Bosses[r])
NoSlug == "none"

ASSUME AttributionNames ==
  /\ IsFiniteSet(Followed) /\ Followed \subseteq RaidSlug /\ NoSlug \notin RaidSlug
  /\ DOMAIN ExpansionOf = RaidSlug
  /\ \A r \in RaidSlug : Bosses[r] \in Seq(Range(Bosses[r])) /\ IsInjective(Bosses[r])
  /\ \A r, q \in RaidSlug : r # q => Range(Bosses[r]) \cap Range(Bosses[q]) = {}
  /\ \A b \in AnyBoss : ShortName[b] \in Seq(STRING) /\ LongName[b] \in Seq(STRING)
ASSUME AttributionBounds ==
  {ExpansionHint, MaxReported, MaxFights, MaxStaticFaults} \subseteq Nat

VARIABLES
  published,         \* [boss -> the name Raider.IO prints]
  logged,            \* [boss -> the name the logs print]
  liveRaids,         \* followed raids whose published window is open
  zoneNamed,         \* whether a report names its zone as Raider.IO names the raid
  teamInstall,       \* a team, which Raider.IO does not count for
  down,              \* bosses dead when the tier is first seen
  logHistory,        \* those of them the log history shows
  loaded,            \* expansions that were tried, [exp -> their raids]
  seedDone,
  announcedKeys,     \* [raid -> names of its ANNOUNCED row]
  told,              \* history: [raid, boss] of the first-kill cards
  met,               \* history: kills met after the seed
  nightTier          \* the tier a report was taken for, {} before

attributionVars == <<published, logged, liveRaids, zoneNamed, teamInstall, down, logHistory, loaded,
                     seedDone, announcedKeys, told, met, nightTier>>
inputs == <<published, logged, liveRaids, zoneNamed, teamInstall, down, logHistory>>

-----------------------------------------------------------------------------
(* Raider.IO's data *)

(* Raider.IO and the logs print a name with signs of their own (an         *)
(* apostrophe, an ampersand, capitals); the key is what is left without.   *)
AtRaiderIO(words) == [words |-> words, sign |-> "typographic"]
InLogs(words) == [words |-> words, sign |-> "straight"]
Normalize(name) == name.words
FormOf(b, long) == IF b \in long THEN LongName[b] ELSE ShortName[b]
ShortAtRaiderIO == [b \in AnyBoss |-> AtRaiderIO(ShortName[b])]
ShortInLogs == [b \in AnyBoss |-> InLogs(ShortName[b])]

(* The hinted expansion, the one before, then others until every followed  *)
(* raid is covered.  What failed to load is remembered as empty.           *)
Covered == Followed \subseteq UNION {loaded[e] : e \in DOMAIN loaded}
ToLoad == LET order == <<ExpansionHint, ExpansionHint - 1, ExpansionHint + 1,
                         ExpansionHint + 2, ExpansionHint - 2>>
              left == {i \in 1..5 : order[i] \notin DOMAIN loaded}
              next == {i \in left : (i \in 1..2 \/ ~Covered) /\ \A j \in left : i <= j}
          IN {order[i] : i \in next}
Failed == {e \in DOMAIN loaded : loaded[e] # {r \in RaidSlug : ExpansionOf[r] = e}}

StaticRaids(e) ==
  /\ \/ loaded' = [x \in DOMAIN loaded \cup {e} |->
                     IF x = e THEN {r \in RaidSlug : ExpansionOf[r] = e} ELSE loaded[x]]
     \/ /\ Cardinality(Failed) < MaxStaticFaults
        /\ loaded' = [x \in DOMAIN loaded \cup {e} |-> IF x = e THEN {} ELSE loaded[x]]
  /\ UNCHANGED <<inputs, seedDone, announcedKeys, told, met, nightTier>>

Index == UNION {loaded[e] : e \in DOMAIN loaded}

(* Raids with a boss of that name, those the guild follows before others. *)
FindBoss(name) ==
  LET found == {r \in Index : \E b \in Range(Bosses[r]) : Normalize(published[b]) = Normalize(name)}
  IN IF found \cap Followed # {} THEN found \cap Followed ELSE found

(* A variant: only raids the guild follows are looked at. *)
OnlyFollowed(known) == FALSE

(* A boss of a raid that is known and not followed is somebody else's. *)
OutOfScope(known) == known # {} /\ known \cap Followed = {}

(* The encounter's name, then the zone's, then the one raid that is live. *)
ResolveRaid(b) ==
  LET known == FindBoss(logged[b])
      live == liveRaids \cap Index
  IN IF known \cap Followed # {} THEN known \cap Followed
     ELSE IF OutOfScope(known) THEN {NoSlug}
     ELSE IF zoneNamed /\ RaidOf(b) \in Followed THEN {RaidOf(b)}
     ELSE IF Cardinality(live) = 1 THEN live ELSE {NoSlug}

(* What Raider.IO shows for a raid, and the shape of a world boss. *)
ProgressFor(r) == [killed |-> Cardinality(down \cap Range(Bosses[r])), total |-> Len(Bosses[r])]
IsWorldBoss(r) == r \in Followed /\ ProgressFor(r).total = 1

-----------------------------------------------------------------------------
(* The seed *)

(* Names of bosses that are dead: those of the history that the raid has,  *)
(* or all of a cleared raid, or as many as were killed, in order.          *)
SeedNamesOf(r) ==
  LET shown == {Normalize(logged[b]) : b \in {b \in logHistory : ResolveRaid(b) = {r}}}
      inOrder == [i \in DOMAIN Bosses[r] |-> Normalize(published[Bosses[r][i]])]
      names == shown \cap Range(inOrder)
      killed == ProgressFor(r).killed
  IN IF r \notin Index THEN shown
     ELSE IF teamInstall THEN names
     ELSE IF killed >= Len(inOrder) THEN Range(inOrder)
     ELSE IF killed > Cardinality(names) THEN names \cup {inOrder[i] : i \in 1..killed}
     ELSE names

SeedsFollowed ==
  /\ ~seedDone /\ ToLoad = {} /\ seedDone' = TRUE
  /\ announcedKeys' = [r \in RaidSlug |-> IF r \in Followed THEN SeedNamesOf(r) ELSE {}]
  /\ UNCHANGED <<inputs, loaded, told, met, nightTier>>

-----------------------------------------------------------------------------
(* A kill *)

(* A variant: names are compared as they are. *)
SameName(k, name) == k = name

(* One is the other, or the beginning of it in whole words. *)
AliasMatch(k, name) == IsPrefix(k, name) \/ IsPrefix(name, k)

(* Recorded under its name or another form of it, it is not announced. *)
AnnouncesKill(r, b) ==
  LET key == Normalize(logged[b]) IN
  IF \E k \in announcedKeys[r] : AliasMatch(k, key) THEN UNCHANGED <<announcedKeys, told>>
  ELSE /\ announcedKeys' = [announcedKeys EXCEPT ![r] = @ \cup {key}]
       /\ told' = told \cup {<<r, b>>}

PollMeets(b) ==
  /\ seedDone /\ b \notin met /\ Cardinality(met) < MaxReported
  /\ met' = met \cup {b}
  /\ \E r \in ResolveRaid(b) :
       IF r = NoSlug THEN UNCHANGED <<announcedKeys, told>> ELSE AnnouncesKill(r, b)
  /\ UNCHANGED <<inputs, loaded, seedDone, nightTier>>

-----------------------------------------------------------------------------
(* A night's report: the raid of most of its fights, world bosses apart.   *)
(* The first seen wins a tie.                                              *)
Tally(fights, r) == Cardinality({i \in DOMAIN fights : ResolveRaid(fights[i]) = {r}})
FirstFight(fights, r) == SelectInSeq(fights, LAMBDA b : ResolveRaid(b) = {r})
ReportTier(fights) ==
  LET tiers == {r \in Followed : Tally(fights, r) > 0 /\ ~IsWorldBoss(r)}
  IN {r \in tiers : \A q \in tiers \ {r} :
        \/ Tally(fights, r) > Tally(fights, q)
        \/ Tally(fights, r) = Tally(fights, q) /\ FirstFight(fights, r) < FirstFight(fights, q)}

RecapsNight(fights) ==
  /\ nightTier = {} /\ ~seedDone /\ down = {} /\ logHistory = {} /\ liveRaids # {}
  /\ published = ShortAtRaiderIO /\ logged = ShortInLogs /\ ToLoad = {}
  /\ nightTier' = {<<fights, ReportTier(fights)>>}
  /\ UNCHANGED <<inputs, loaded, seedDone, announcedKeys, told, met>>

-----------------------------------------------------------------------------
TierRaids == {r \in Followed : Len(Bosses[r]) > 1}
TierBosses == UNION {Range(Bosses[r]) : r \in TierRaids}
TwoForms == {b \in AnyBoss : ShortName[b] # LongName[b]}

(* Spelling and calendar do not meet in the code: a behaviour varies in    *)
(* the one or in the other.                                                *)
AttributionInit ==
  /\ down \in SUBSET TierBosses
  /\ \/ /\ \E longSite, longLog \in SUBSET TwoForms :
             /\ published = [b \in AnyBoss |-> AtRaiderIO(FormOf(b, longSite))]
             /\ logged = [b \in AnyBoss |-> InLogs(FormOf(b, longLog))]
        /\ teamInstall \in BOOLEAN /\ liveRaids = {} /\ zoneNamed \in BOOLEAN
        /\ logHistory \in SUBSET down
     \/ /\ published = ShortAtRaiderIO /\ logged = ShortInLogs /\ teamInstall = FALSE
        /\ liveRaids \in SUBSET Followed /\ zoneNamed \in BOOLEAN
        /\ logHistory \in {down \cup (AnyBoss \ UNION {Range(Bosses[r]) : r \in Followed}), {}}
  /\ loaded = <<>> /\ seedDone = FALSE /\ announcedKeys = [r \in RaidSlug |-> {}]
  /\ told = {} /\ met = {} /\ nightTier = {}

(* A guild nobody asks about. *)
AttributionIdle ==
  /\ down = {} /\ published = ShortAtRaiderIO /\ logged = ShortInLogs /\ teamInstall = FALSE
  /\ liveRaids = {} /\ zoneNamed = FALSE /\ logHistory = {} /\ loaded = <<>> /\ seedDone = FALSE
  /\ announcedKeys = [r \in RaidSlug |-> {}] /\ told = {} /\ met = {} /\ nightTier = {}

AttributionNext ==
  \/ \E e \in ToLoad : StaticRaids(e)
  \/ SeedsFollowed
  \/ \E b \in AnyBoss : PollMeets(b)
  \/ \E n \in 1..MaxFights : \E fights \in [1..n -> AnyBoss] : RecapsNight(fights)

AttributionSpec == AttributionInit /\ [][AttributionNext]_attributionVars

-----------------------------------------------------------------------------
Lone(b) == \A c \in AnyBoss \ {b} : /\ ~AliasMatch(Normalize(logged[b]), Normalize(logged[c]))
                                   /\ ~AliasMatch(Normalize(logged[b]), Normalize(published[c]))
InOrder(r) == \A i, j \in DOMAIN Bosses[r] : i < j /\ Bosses[r][j] \in down => Bosses[r][i] \in down
SamePrinted(b) == Normalize(logged[b]) = Normalize(published[b])
SameForm(r) == \A b \in Range(Bosses[r]) \cap down : b \in logHistory /\ SamePrinted(b)
Fights(fights, r) == Cardinality({i \in DOMAIN fights : fights[i] \in Range(Bosses[r])})

(* A card is of the raid the kill was in, unless Raider.IO's data for that  *)
(* was not loaded and one other raid is live; never of a boss that was      *)
(* dead when the tier was seeded, if the guild's raids were loaded and the  *)
(* tier fell in its order or the logs show it under its published names.    *)
CardsBelong ==
  \A card \in told :
    LET r == card[1]  b == card[2] IN
    /\ r # RaidOf(b) => RaidOf(b) \notin Index /\ liveRaids \cap Index = {r}
    /\ b \in down /\ Covered => ~SameForm(r) /\ (teamInstall \/ ~InOrder(r))

(* A kill is told, if no other boss's name begins with its name and the     *)
(* name or the zone tells the raid.                                         *)
KillsTold ==
  \A b \in met :
    /\ RaidOf(b) \in Followed /\ Covered /\ b \notin down /\ Lone(b)
    /\ SamePrinted(b) \/ zoneNamed
    /\ teamInstall \/ InOrder(RaidOf(b))
    => <<RaidOf(b), b>> \in told

(* A night of raids that were loaded belongs to the one, never a world      *)
(* boss, with most of its fights.                                           *)
NightsBelong ==
  \A night \in nightTier : LET fights == night[1]  chosen == night[2] IN
    (\A i \in DOMAIN fights : RaidOf(fights[i]) \in Index) =>
      /\ (chosen = {}) <=> \A r \in TierRaids : Fights(fights, r) = 0
      /\ \A r \in chosen :
           r \in TierRaids /\ \A q \in TierRaids : Fights(fights, q) <= Fights(fights, r)

(* First kills are told of the raid they were in, whatever that raid farms  *)
(* besides and whatever form of a name the logs use later, and a night is   *)
(* given to its raid.                                                       *)
KillsBelong == CardsBelong /\ KillsTold /\ NightsBelong
=============================================================================
