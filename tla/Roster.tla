-------------------------------- MODULE Roster --------------------------------
(***************************************************************************)
(* Whose report it is: the prog roster derived from who stood there for    *)
(* the tier's first Heroic kills (store.py, handler.py record_roster and   *)
(* prog_roster), and the two signals that classify a report of the guild,  *)
(* which both raid teams file into (team.py).  One tier; bosses die in     *)
(* their order, and the n-th first kill happens at time n.                 *)
(***************************************************************************)
EXTENDS Naturals, FiniteSets

CONSTANTS
  Raider,            \* people, of either team
  Tier,              \* number of the tier's bosses
  MinKills,          \* MIN_FIRST_KILLS_FOR_ROSTER: 3
  MinRaiders,        \* MIN_RAIDERS_FOR_OVERLAP: 5
  MinPct, High, Low, \* roster_min_pct 50, overlap_high 70, overlap_low 35
  LastTeam,          \* the previous tier's row: what was derived
  MaxRosterFaults    \* BOUND: participants or rows that could not be read

ASSUME RosterBounds ==
  /\ IsFiniteSet(Raider) /\ LastTeam \subseteq Raider
  /\ {Tier, MinKills, MinRaiders, MinPct, High, Low, MaxRosterFaults} \subseteq Nat
  /\ Low < High /\ MinKills > 0 /\ MinRaiders > 0

VARIABLES
  stood,             \* [1..Tier -> SUBSET Raider]: who was there, {} is alive
  announcedKills,    \* the tier's announced set
  firstKill,         \* KILL#<slug>#<boss>: players, {} is no row
  rosterRow,         \* ROSTER#<slug>: [derived, seed, sample, provisional]
  classified,        \* a report classified as things stand: [verdict, raiders, source]
  rosterFaults

rosterVars == <<stood, announcedKills, firstKill, rosterRow, classified, rosterFaults>>

TierBoss == 1..Tier
Dead == {b \in TierBoss : stood[b] # {}}

Unread == [verdict |-> "none", raiders |-> {}, source |-> "none"]

RosterTypeOK ==
  /\ stood \in [TierBoss -> SUBSET Raider] /\ announcedKills \subseteq Dead
  /\ \A b \in TierBoss : firstKill[b] \in {{}, stood[b]}
  /\ rosterRow \in [derived : SUBSET Raider, seed : {{}, LastTeam}, sample : 0..Tier,
                    provisional : BOOLEAN]
  /\ classified.verdict \in {"none", "PROG", "OTHER", "UNKNOWN"}
  /\ rosterFaults \in 0..MaxRosterFaults

RosterInit ==
  /\ stood = [b \in TierBoss |-> {}] /\ announcedKills = {}
  /\ firstKill = [b \in TierBoss |-> {}]
  /\ rosterRow = [derived |-> {}, seed |-> {}, sample |-> 0, provisional |-> FALSE]
  /\ classified = Unread
  /\ rosterFaults = 0

RosterFault == rosterFaults < MaxRosterFaults /\ rosterFaults' = rosterFaults + 1

-----------------------------------------------------------------------------
(* First kills *)

BossFalls(b, who) ==
  /\ stood[b] = {} /\ \A a \in TierBoss : a < b => stood[a] # {}
  /\ Cardinality(who) >= MinRaiders
  /\ stood' = [stood EXCEPT ![b] = who]
  /\ classified' = Unread
  /\ UNCHANGED <<announcedKills, firstKill, rosterRow, rosterFaults>>

(* The card is out; its participants are read and put over whatever is     *)
(* there.  A failure is swallowed: the roster loses one sample.            *)
RecordsStanding(b) ==
  \/ firstKill' = [firstKill EXCEPT ![b] = stood[b]] /\ UNCHANGED rosterFaults
  \/ RosterFault /\ UNCHANGED firstKill

AnnouncesStanding(b) ==
  /\ b \in Dead \ announcedKills /\ announcedKills' = announcedKills \cup {b}
  /\ RecordsStanding(b) /\ classified' = Unread
  /\ UNCHANGED <<stood, rosterRow>>

(* Killed before the bot was watching: announced, with no participants. *)
SeedsStanding(b) ==
  /\ b \in Dead \ announcedKills /\ RosterFault
  /\ announcedKills' = announcedKills \cup {b} /\ classified' = Unread
  /\ UNCHANGED <<stood, firstKill, rosterRow>>

(* backfill: only bosses in the announced set, which it leaves alone. *)
Backfills(b) ==
  /\ b \in announcedKills /\ RecordsStanding(b) /\ classified' = Unread
  /\ UNCHANGED <<stood, announcedKills, rosterRow>>

-----------------------------------------------------------------------------
(* team.py *)

Share(n, total, pct) == n * 100 >= pct * total

(* Frequency, not membership. *)
DerivedRoster(kills) ==
  {r \in Raider : kills # {} /\ Share(Cardinality({b \in kills : r \in firstKill[b]}),
                                      Cardinality(kills), MinPct)}

(* A variant: two kills, of which a fill-in was at one, are enough. *)
ProvisionalTwo(sample) == sample < MinKills - 1

(* Too few kills to reject anybody. *)
Provisional(sample) == sample < MinKills

SignalRoster(raiders, roster) ==
  IF roster = {} \/ Cardinality(raiders) < MinRaiders THEN "none"
  ELSE IF Share(Cardinality(raiders \cap roster), Cardinality(raiders), High) THEN "PROG"
  ELSE IF Cardinality(raiders \cap roster) * 100 <= Low * Cardinality(raiders) THEN "OTHER"
  ELSE "none"

SignalProgression(fights, before) == IF fights \ before # {} THEN "PROG" ELSE "none"

(* One conclusive signal decides; two that disagree do not. *)
ResolveTeam(a, b) ==
  IF {a, b} \ {"none"} = {"PROG"} THEN "PROG"
  ELSE IF {a, b} \ {"none"} = {"OTHER"} THEN "OTHER"
  ELSE "UNKNOWN"

-----------------------------------------------------------------------------
(* The recap *)

(* killed_before: seeded bosses are long dead. *)
KilledBefore(start) == {b \in announcedKills : firstKill[b] = {} \/ b <= start}

(* What signal B may say of a report as things stand: of one encounter     *)
(* that began so far, or of none of the tier's (of several it says what it *)
(* says of one of them).                                                   *)
SignalsOfReports ==
  {"none"} \cup {SignalProgression({b}, KilledBefore(start)) :
                 b \in {b \in TierBoss : b <= Cardinality(Dead) + 1},
                 start \in 0..Cardinality(Dead)}

(* prog_roster.  A roster of enough kills, else what the last tier left,   *)
(* once; a read that failed reads as nothing.                              *)
Classifies(raiders, signalB, fails) ==
  LET kills == IF fails THEN {} ELSE {b \in announcedKills : firstKill[b] # {}}
      sample == Cardinality(kills)
      derived == DerivedRoster(kills)
      seed == IF rosterRow.seed = {} /\ Provisional(sample) THEN LastTeam ELSE rosterRow.seed
      source == IF derived # {} /\ ~Provisional(sample) THEN "derived"
                ELSE IF seed # {} THEN "seed" ELSE "provisional"
      roster == IF source = "seed" THEN seed ELSE derived
  IN /\ rosterRow' = [derived |-> IF derived # {} THEN derived ELSE rosterRow.derived,
                      seed |-> seed, sample |-> sample, provisional |-> Provisional(sample)]
     /\ classified' = [verdict |-> ResolveTeam(SignalRoster(raiders, roster), signalB),
                       raiders |-> raiders, source |-> source]

RecapClassifies(raiders) ==
  /\ classified = Unread
  /\ \E signalB \in SignalsOfReports :
       \/ Classifies(raiders, signalB, FALSE) /\ UNCHANGED rosterFaults
       \/ Classifies(raiders, signalB, TRUE) /\ RosterFault
  /\ UNCHANGED <<stood, announcedKills, firstKill>>

-----------------------------------------------------------------------------
RosterNext ==
  \/ \E b \in TierBoss :
       \/ \E who \in SUBSET Raider : BossFalls(b, who)
       \/ AnnouncesStanding(b) \/ SeedsStanding(b) \/ Backfills(b)
  \/ \E raiders \in (SUBSET Raider) \ {{}} : RecapClassifies(raiders)

RosterSpec == RosterInit /\ [][RosterNext]_rosterVars

-----------------------------------------------------------------------------
(* What holds *)

FirstKillsOf(r) == {b \in TierBoss : r \in stood[b]}

(* "A one-off fill-in never enters the roster": no report is posted for    *)
(* the prog team on a roster of its own kills unless more than Low of its  *)
(* raiders were at two first kills or more, whatever was lost, backfilled  *)
(* or seeded and whenever its fights happened ("silence beats a confident  *)
(* wrong answer").                                                         *)
NoFillIns ==
  classified.verdict = "PROG" /\ classified.source = "derived"
    /\ Cardinality(classified.raiders) >= MinRaiders =>
    Cardinality({r \in classified.raiders : Cardinality(FirstKillsOf(r)) >= 2}) * 100
      > Low * Cardinality(classified.raiders)
=============================================================================
