-------------------------------- MODULE Figures -------------------------------
(***************************************************************************)
(* The figures of a raid night: what recap.py makes of the logs that were  *)
(* kept, between the claim of the night and its card (handler.py           *)
(* recap_night).  A log numbers its actors for itself, holds content that  *)
(* is not the raid, and answers deaths a page at a time.  The night is     *)
(* given; what is read of it is what the steps are about.                  *)
(***************************************************************************)
EXTENDS Naturals, Sequences, FiniteSetsExt

CONSTANTS
  Attendee,            \* who stood in the raid
  OnRoster,          \* the prog roster the leaderboards are for; {} is none
  Lineup,            \* who may have stood in a pull
  DeadBefore,        \* bosses that had died on an earlier night
  FigureBoss,        \* number of the tier's bosses, in their published order
  FigurePulls,       \* BOUND: pulls of the night
  FigureDeaths,      \* BOUND: deaths of the night
  PageCap,           \* DEATHS_PAGE_CAP
  MaxPages,          \* max_pages of deaths_pages
  MaxFigureFaults    \* BOUND: tables that came back empty

ASSUME FigureBounds ==
  /\ IsFiniteSet(Attendee) /\ OnRoster \subseteq Attendee /\ Lineup \subseteq SUBSET Attendee
  /\ {FigureBoss, FigurePulls, FigureDeaths, PageCap, MaxPages, MaxFigureFaults} \subseteq Nat
  /\ PageCap > 0 /\ MaxPages > 0

VARIABLES
  night,             \* what happened: [pulls, deaths, split, ids]
  reading,           \* the log being read; after the last one the card is made
  deathsFrom,        \* the cursor of deaths_pages
  pagesRead,
  died,              \* [log -> entries of the Deaths table that were read]
  noTables,          \* logs whose tables were empty
  figures,           \* the summary and the rows, {} is none yet
  cutShort           \* history: logs with a death beyond what the walk can reach

figureVars == <<night, reading, deathsFrom, pagesRead, died, noTables, figures, cutShort>>

LogNo == 1..2
Pet == 0             \* masterData lists pets among the actors

(* The night.  A boss that died is not pulled again.  A pull is of the     *)
(* tier or of something else (a dungeon between two raids).                *)
PullAt == [boss : 1..FigureBoss, kill : BOOLEAN, tier : BOOLEAN, who : Lineup]
Possible(pulls) == \A i, j \in DOMAIN pulls :
                     pulls[i].kill /\ pulls[i].boss = pulls[j].boss => j <= i
DeathAt == [pull : 1..FigurePulls, who : Attendee, tick : 0..1]
When(d) == 2 * d.pull + d.tick
Numberings == {n \in [Attendee -> 1..Cardinality(Attendee)] :
                 \A p, q \in Attendee : n[p] = n[q] => p = q}
Numbering == CHOOSE n \in Numberings : TRUE
Renumbered == [p \in Attendee |->
                 IF Numbering[p] = Cardinality(Attendee) THEN 1 ELSE Numbering[p] + 1]

LogOf(i) == IF i <= night.split THEN 1 ELSE 2
PullsOf(l) == {i \in DOMAIN night.pulls : LogOf(i) = l}

-----------------------------------------------------------------------------
(* recap.py, one log                                                      *)

(* Difficulty and encounter: the dungeons are not the raid.               *)
ScopeOf(l) == {i \in PullsOf(l) : night.pulls[i].tier}

ActorIndex(l) == [a \in {night.ids[l][p] : p \in Attendee} |->
                   CHOOSE p \in Attendee : night.ids[l][p] = a]

(* A variant: the actor ids of one log are used for all.                  *)
FirstLogsActor(l, a) == ActorIndex(1)[a]

(* Ids mean nothing outside the log that issued them.                     *)
ActorPerson(l, a) == ActorIndex(l)[a]

(* The roster narrows a log's leaderboards unless nobody would be left.   *)
EligibleIn(l) ==
  LET there == {night.ids[l][p] : p \in UNION {night.pulls[i].who : i \in ScopeOf(l)}}
      keep == {a \in there : ActorPerson(l, a) \in OnRoster}
  IN IF keep = {} THEN there ELSE keep

RaiderKeys == UNION {{ActorPerson(l, a) : a \in EligibleIn(l)} : l \in LogNo}

(* What Warcraft Logs answers for the fights asked for.                   *)
Entries(l) ==
  {[id |-> night.ids[l][p], total |-> Cardinality({i \in ScopeOf(l) : p \in night.pulls[i].who}),
    ilvl |-> Max({0} \cup {i \in ScopeOf(l) : p \in night.pulls[i].who})] :
   p \in UNION {night.pulls[i].who : i \in ScopeOf(l)}} \cup {[id |-> Pet, total |-> 9, ilvl |-> 9]}
Table(l) == IF l \in noTables THEN {} ELSE Entries(l)
DeathsOf(l) == {d \in night.deaths : d.pull \in ScopeOf(l)}
Ranked(l) == IF l \in noTables THEN {} ELSE {i \in PullsOf(l) : night.pulls[i].kill}

-----------------------------------------------------------------------------
(* recap.py, the night                                                    *)

OfPerson(l, p, table) == {e \in table : e.id \in EligibleIn(l) /\ ActorPerson(l, e.id) = p}
Totals(p) ==
  MapThenSumSet(LAMBDA l : MapThenSumSet(LAMBDA e : e.total, OfPerson(l, p, Table(l))), LogNo)
SpanMs(p) == MapThenSumSet(LAMBDA l : Cardinality(ScopeOf(l)),
                           {l \in LogNo : OfPerson(l, p, Table(l)) # {}})
ItemLevel(p) == Max({0} \cup UNION {{e.ilvl : e \in OfPerson(l, p, Table(l))} : l \in LogNo})

DeathCount(p) == MapThenSumSet(LAMBDA l : Cardinality(OfPerson(l, p, died[l])), LogNo)

(* Rankings name their characters; only the raid's own kills count.       *)
ParseRows(p) == {i \in UNION {Ranked(l) \cap ScopeOf(l) : l \in LogNo} :
                   p \in night.pulls[i].who /\ p \in RaiderKeys}

RaiderRows == [p \in RaiderKeys |->
  [damage |-> Totals(p), time |-> SpanMs(p), deaths |-> DeathCount(p), ilvl |-> ItemLevel(p),
   parses |-> ParseRows(p)]]

NightPulls == ScopeOf(1) \cup ScopeOf(2)
Pulled == {night.pulls[i].boss : i \in NightPulls}
PullsOn(b) == {i \in NightPulls : night.pulls[i].boss = b}
Fell(b) == \E i \in PullsOn(b) : night.pulls[i].kill
Wipes(b) == {i \in PullsOn(b) : ~night.pulls[i].kill}

(* A fight's start is counted from the start of its own log.              *)
RelStart(i) == IF LogOf(i) = 1 THEN i ELSE i - night.split
KillsEarlier(i, j) == RelStart(i) < RelStart(j) \/ (RelStart(i) = RelStart(j) /\ i < j)
BossesKilled ==
  LET kills == {i \in NightPulls : night.pulls[i].kill}
      rank(i) == Cardinality({j \in kills : KillsEarlier(j, i)}) + 1
  IN [n \in 1..Cardinality(kills) |-> night.pulls[CHOOSE i \in kills : rank(i) = n].boss]

(* Numbered by their place in the tier, not by when they died.            *)
BossLabels(bosses) == {<<b, FigureBoss>> : b \in bosses}
FirstKills(bosses) == {b \in bosses : b \notin DeadBefore}
Unkilled == {[boss |-> b, pulls |-> Cardinality(PullsOn(b))] : b \in {b \in Pulled : ~Fell(b)}}
PullCounts == {[boss |-> b, pulls |-> Cardinality(PullsOn(b)), wipes |-> Cardinality(Wipes(b)),
                downed |-> Fell(b)] : b \in Pulled}
ProgEncounter ==
  {b \in Pulled : Wipes(b) # {} /\ \A c \in Pulled :
     \/ Cardinality(Wipes(c)) < Cardinality(Wipes(b))
     \/ /\ Cardinality(Wipes(c)) = Cardinality(Wipes(b))
        /\ Cardinality(PullsOn(c)) <= Cardinality(PullsOn(b))}

Summarise ==
  LET downed == {night.pulls[i].boss : i \in {i \in NightPulls : night.pulls[i].kill}}
  IN [rows |-> RaiderRows, raiders |-> Cardinality(RaiderKeys), bosses |-> BossesKilled,
      labels |-> BossLabels(downed), firstKills |-> FirstKills(downed),
      unkilled |-> Unkilled, pulls |-> PullCounts, prog |-> ProgEncounter]

-----------------------------------------------------------------------------
(* The reads of a night                                                   *)

(* A full page is taken to mean there is more.                            *)
Truncated(answer) == Cardinality(answer) >= PageCap

(* The next call resumes one millisecond after the last death seen.       *)
NextStamp(answer) == Max({d.at : d \in answer}) + 1

StillToRead(l) == {[id |-> night.ids[l][d.who], at |-> When(d), fight |-> d.pull] :
              d \in {d \in DeathsOf(l) : When(d) >= deathsFrom}}
Answered(l) == {answer \in SUBSET StillToRead(l) :
                  /\ Cardinality(answer) = Min({PageCap, Cardinality(StillToRead(l))})
                  /\ \A d \in answer, e \in StillToRead(l) \ answer : d.at <= e.at}

NextLog == /\ reading' = IF reading = 1 /\ PullsOf(2) # {} THEN 2 ELSE 3
           /\ deathsFrom' = 0 /\ pagesRead' = 0

ReadsTables == /\ reading \in LogNo /\ pagesRead = 0 /\ deathsFrom = 0
               /\ \/ UNCHANGED noTables
                  \/ Cardinality(noTables) < MaxFigureFaults /\ noTables' = noTables \cup {reading}
               /\ deathsFrom' = 1
               /\ UNCHANGED <<night, reading, pagesRead, died, figures, cutShort>>

ReadsDeaths == /\ reading \in LogNo /\ deathsFrom > 0
               /\ \E answer \in Answered(reading) :
                    /\ died' = [died EXCEPT ![reading] = @ \cup answer]
                    /\ IF Truncated(answer) /\ pagesRead + 1 < MaxPages
                       THEN /\ deathsFrom' = NextStamp(answer) /\ pagesRead' = pagesRead + 1
                            /\ UNCHANGED reading
                       ELSE NextLog
                    /\ LET beyond == {d \in StillToRead(reading) \ answer :
                                       \/ d.at = Max({e.at : e \in answer})
                                       \/ pagesRead + 1 = MaxPages}
                       IN cutShort' = IF beyond = {} THEN cutShort ELSE cutShort \cup {reading}
               /\ UNCHANGED <<night, noTables, figures>>

Summarises == /\ reading = 3 /\ figures = {} /\ figures' = {Summarise}
              /\ UNCHANGED <<night, reading, deathsFrom, pagesRead, died, noTables, cutShort>>

(* A log without a pull of the tier is not among those kept.              *)
Readable(n) == LET tier(lo, hi) == \E i \in lo..hi : n.pulls[i].tier
               IN /\ tier(1, n.split)
                  /\ n.split = Len(n.pulls) \/ tier(n.split + 1, Len(n.pulls))

(* The tally of pulls and the deaths do not meet in the code: a night      *)
(* varies in the one or in the other.                                      *)
FiguresInit ==
  /\ \E split \in 1..FigurePulls :
       /\ \/ \E pulls \in UNION {[1..n -> PullAt] : n \in 1..FigurePulls} :
               /\ Possible(pulls) /\ split <= Len(pulls)
               /\ night = [pulls |-> pulls, deaths |-> {}, split |-> split,
                        ids |-> <<Numbering, Renumbered>>]
          \/ \E deaths \in UNION {kSubset(k, DeathAt) : k \in 1..FigureDeaths} :
               night = [pulls |-> [i \in 1..FigurePulls |->
                                     [boss |-> 1, kill |-> FALSE, tier |-> TRUE, who |-> Attendee]],
                        deaths |-> deaths, split |-> split,
                        ids |-> <<Numbering, Renumbered>>]
       /\ Readable(night)
  /\ reading = 1 /\ deathsFrom = 0 /\ pagesRead = 0 /\ died = [l \in LogNo |-> {}]
  /\ noTables = {} /\ figures = {} /\ cutShort = {}

(* A night nobody asks about. *)
FiguresIdle ==
  /\ night = [pulls |-> <<>>, deaths |-> {}, split |-> 0, ids |-> <<Numbering, Renumbered>>]
  /\ reading = 0 /\ deathsFrom = 0 /\ pagesRead = 0 /\ died = [l \in LogNo |-> {}]
  /\ noTables = {} /\ figures = {} /\ cutShort = {}

FiguresNext == ReadsTables \/ ReadsDeaths \/ Summarises
FiguresSpec == FiguresInit /\ [][FiguresNext]_figureVars

-----------------------------------------------------------------------------
(* Who raided in a log, as the leaderboards count them.                   *)
RaidedIn(l) == UNION {night.pulls[i].who : i \in ScopeOf(l)}
CountsIn(l) == IF RaidedIn(l) \cap OnRoster = {} THEN RaidedIn(l) ELSE RaidedIn(l) \cap OnRoster

RowIsTrue(p, figured) ==
  LET counted == {i \in NightPulls : p \in CountsIn(LogOf(i))}
      inPulls == {i \in counted : p \in night.pulls[i].who}
      fell == {d \in night.deaths : d.who = p /\ d.pull \in counted}
  IN /\ figured.deaths <= Cardinality(fell)
     /\ cutShort = {} => figured.deaths = Cardinality(fell)
     /\ noTables = {} =>
          /\ figured.damage = Cardinality(inPulls) /\ figured.ilvl = Max(inPulls)
          /\ figured.parses = {i \in NightPulls : night.pulls[i].kill /\ p \in night.pulls[i].who}

BossesAreTrue(f) ==
  /\ \A c, d \in f.pulls : /\ \E i \in NightPulls : night.pulls[i].boss = c.boss
                           /\ c.boss = d.boss => c = d
  /\ \A i \in NightPulls :
       LET b == night.pulls[i].boss IN
         /\ (\E n \in DOMAIN f.bosses : f.bosses[n] = b) <=> ~\E u \in f.unkilled : u.boss = b
         /\ \E c \in f.pulls : /\ c.boss = b /\ c.wipes <= c.pulls
                               /\ c.pulls = Cardinality(PullsOn(b))
  /\ f.prog = {} <=> \A i \in NightPulls : night.pulls[i].kill

(* The card tells the night: a row for everyone who raided and nobody      *)
(* else, each person's deaths, damage, item level and kills counted once   *)
(* whatever the logs call them, no death counted twice and none lost but   *)
(* to a page that cut a tie or the last page; every boss that was pulled   *)
(* is either dead or standing, once and with all of its pulls.             *)
FiguresTrue ==
  \A f \in figures :
    /\ DOMAIN f.rows = CountsIn(1) \cup CountsIn(2)
    /\ \A p \in DOMAIN f.rows : RowIsTrue(p, f.rows[p])
    /\ BossesAreTrue(f)
=============================================================================
