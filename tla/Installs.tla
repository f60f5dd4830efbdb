------------------------------- MODULE Installs -------------------------------
(***************************************************************************)
(* The installs of src/src/handler.py: a server's own and its raid teams'. *)
(* /setup and the operator's scripts configure and register them; a poll   *)
(* reads the registry, then the configurations, and visits the installs    *)
(* one after another.  A visit is here one step over one tier at one       *)
(* difficulty: what a poll does inside it is Announcer's.                  *)
(***************************************************************************)
EXTENDS Naturals, FiniteSets

CONSTANTS
  Install,           \* tenant keys: TENANT#<server>, TENANT#<server>#<team>
  Home,              \* the home server's own install
  Guild,             \* WoW guilds
  DefaultGuild,      \* the guild in SSM
  Kill,              \* bosses of the tier
  NoGuild,           \* no CONFIG row
  MaxSetups,         \* BOUND: configurations written
  MaxInstallFaults   \* BOUND: failures, and invocations that end

ASSUME InstallNames ==
  /\ Home \in Install /\ DefaultGuild \in Guild /\ NoGuild \notin Guild
ASSUME InstallBounds ==
  MaxSetups \in Nat /\ MaxInstallFaults \in Nat

VARIABLES
  config,            \* [Install -> Guild or NoGuild]: the CONFIG rows
  registry,          \* the registered installs
  seeded,            \* BOOTSTRAP markers
  tierRows, tier,    \* installs with an ANNOUNCED row, [Install -> SUBSET Kill]: the row
  broken,            \* installs whose visit raises, whatever happens
  killed, recent,    \* [Guild -> SUBSET Kill]: ever, and in the lookback
  visit,             \* the scheduled poll
  unlisted,          \* installs whose configuration is written and registration is not
  tracked,           \* history: [Install -> SUBSET Guild]: guilds it was set to
  oldKills,          \* history: [Install -> SUBSET Kill]: dead when configured
  cardsOf,           \* history: [Install -> SUBSET Kill]: kills announced
  setups, installFaults

installGhosts == <<tracked, oldKills, cardsOf>>
installRows == <<config, registry, seeded, tierRows, tier, broken>>
installCounts == <<setups, installFaults>>
installVars == <<installRows, killed, recent, visit, unlisted, installGhosts, installCounts>>

Visit == [at : {"idle", "read", "visit"}, todo : SUBSET Install,
          cfg : [Install -> Guild \cup {NoGuild}]]

InstallsTypeOK ==
  /\ config \in [Install -> Guild \cup {NoGuild}]
  /\ registry \subseteq Install /\ seeded \subseteq Install
  /\ tierRows \subseteq Install /\ tier \in [Install -> SUBSET Kill] /\ broken \subseteq Install
  /\ killed \in [Guild -> SUBSET Kill] /\ recent \in [Guild -> SUBSET Kill]
  /\ visit \in Visit /\ unlisted \subseteq Install
  /\ tracked \in [Install -> SUBSET Guild] /\ oldKills \in [Install -> SUBSET Kill]
  /\ cardsOf \in [Install -> SUBSET Kill]
  /\ setups \in 0..MaxSetups
  /\ installFaults \in 0..MaxInstallFaults

NoVisit == [at |-> "idle", todo |-> {}, cfg |-> [i \in Install |-> NoGuild]]

(* Nothing is configured: the poll has been the home server's, from SSM.   *)
InstallsInit ==
  /\ config = [i \in Install |-> NoGuild] /\ registry = {} /\ seeded = {}
  /\ tierRows = {} /\ tier = [i \in Install |-> {}] /\ broken \in SUBSET Install
  /\ Cardinality(broken) <= 1
  /\ killed \in [Guild -> {{}, Kill}] /\ killed[DefaultGuild] = Kill
  /\ recent = [g \in Guild |-> {}]
  /\ visit = NoVisit /\ unlisted = {}
  /\ tracked = [i \in Install |-> IF i = Home THEN {DefaultGuild} ELSE {}]
  /\ oldKills = [i \in Install |-> IF i = Home THEN killed[DefaultGuild] ELSE {}]
  /\ cardsOf = [i \in Install |-> {}]
  /\ setups = 0 /\ installFaults = 0

InstallFault ==
  /\ installFaults < MaxInstallFaults /\ installFaults' = installFaults + 1
  /\ UNCHANGED setups

-----------------------------------------------------------------------------
(* The guilds *)

(* A kill, the first or a later one, is in the lookback until it ages. *)
GuildKills(g, b) ==
  /\ b \notin recent[g]
  /\ killed' = [killed EXCEPT ![g] = @ \cup {b}]
  /\ recent' = [recent EXCEPT ![g] = @ \cup {b}]
  /\ UNCHANGED <<installRows, visit, unlisted, installGhosts, installCounts>>

GuildRests(g) ==
  /\ recent[g] # {}
  /\ recent' = [recent EXCEPT ![g] = {}]
  /\ UNCHANGED <<installRows, killed, visit, unlisted, installGhosts, installCounts>>

-----------------------------------------------------------------------------
(* The scheduled poll *)

PollStarts ==
  /\ visit.at = "idle"
  /\ visit' = [NoVisit EXCEPT !.at = "read", !.todo = registry]
  /\ UNCHANGED <<installRows, killed, recent, unlisted, installGhosts, installCounts>>

(* The installs listed, with their configurations; one listed without is   *)
(* passed over.  With no pair at all the configuration in SSM stands in.   *)
Pairs(listed) ==
  LET configured == {i \in listed : config[i] # NoGuild} IN
  [i \in Install |-> IF configured = {} /\ i = Home THEN DefaultGuild
                     ELSE IF i \in configured THEN config[i] ELSE NoGuild]

FanOut ==
  /\ visit.at = "read"
  /\ LET cfg == Pairs(visit.todo) IN
     visit' = [at |-> "visit", cfg |-> cfg, todo |-> {i \in Install : cfg[i] # NoGuild}]
  /\ UNCHANGED <<installRows, killed, recent, unlisted, installGhosts, installCounts>>

(* A variant: what raises in one install's visit ends the invocation. *)
Uncaught(i) == IF i \in broken THEN NoVisit ELSE [visit EXCEPT !.todo = @ \ {i}]

(* What is left to visit, whatever became of this one. *)
Visited(i) == [visit EXCEPT !.todo = @ \ {i}]

(* A variant: the seed of a rollover, which leaves the lookback out. *)
SeedsOld(i, g) ==
  /\ tierRows' = tierRows \cup {i}
  /\ tier' = [tier EXCEPT ![i] = IF i \in tierRows THEN @ ELSE killed[g] \ recent[g]]

(* The row is written once, with all that is dead; a second bootstrap      *)
(* finds it and leaves it.                                                 *)
Seeds(i, g) ==
  /\ tierRows' = tierRows \cup {i}
  /\ tier' = [tier EXCEPT ![i] = IF i \in tierRows THEN @ ELSE killed[g]]

(* A visit that raises, which is caught, or that stops at the points       *)
(* ceiling; a bootstrap may have written the row and not the marker.       *)
VisitStops(i, g) ==
  /\ IF i \in broken THEN UNCHANGED installCounts ELSE InstallFault
  /\ \/ i \notin seeded \cup broken /\ Seeds(i, g)
     \/ UNCHANGED <<tierRows, tier>>
  /\ UNCHANGED <<seeded, cardsOf>>

(* The first visit records what is dead and announces nothing. *)
Bootstraps(i, g) ==
  /\ i \notin seeded
  /\ seeded' = seeded \cup {i}
  /\ Seeds(i, g)
  /\ UNCHANGED <<cardsOf, installCounts>>

(* From then on each kill of the lookback that is not in the row is        *)
(* announced.                                                              *)
Announces(i, g) ==
  /\ i \in seeded
  /\ tier' = [tier EXCEPT ![i] = @ \cup recent[g]]
  /\ cardsOf' = [cardsOf EXCEPT ![i] = @ \cup (recent[g] \ tier[i])]
  /\ UNCHANGED <<tierRows, seeded, installCounts>>

PollVisits(i) ==
  /\ visit.at = "visit" /\ i \in visit.todo
  /\ visit' = Visited(i)
  /\ LET g == visit.cfg[i] IN
     \/ VisitStops(i, g)
     \/ i \notin broken /\ (Bootstraps(i, g) \/ Announces(i, g))
  /\ UNCHANGED <<config, registry, broken, killed, recent, unlisted, tracked, oldKills>>

PollDone ==
  /\ visit.at = "visit" /\ visit.todo = {}
  /\ visit' = NoVisit
  /\ UNCHANGED <<installRows, killed, recent, unlisted, installGhosts, installCounts>>

(* The 60 s of the whole invocation, or an error outside the visits. *)
PollDies ==
  /\ visit.at # "idle" /\ InstallFault
  /\ visit' = NoVisit
  /\ UNCHANGED <<installRows, killed, recent, unlisted, installGhosts>>

-----------------------------------------------------------------------------
(* /setup and the registration script.  A guild Raider.IO does not know,   *)
(* and a user who may not manage the server, change nothing at all.        *)

(* put_config replaces the row; the announced rows and the marker stay. *)
PutConfig(i, g) ==
  /\ i \notin unlisted /\ setups < MaxSetups
  /\ setups' = setups + 1
  /\ config' = [config EXCEPT ![i] = g]
  /\ unlisted' = unlisted \cup {i}
  /\ tracked' = [tracked EXCEPT ![i] = @ \cup {g}]
  /\ oldKills' = [oldKills EXCEPT ![i] = IF tracked[i] = {} THEN killed[g] ELSE @]
  /\ UNCHANGED <<registry, seeded, tierRows, tier, broken, killed, recent, visit, cardsOf,
                 installFaults>>

(* register_tenant, after the configuration. *)
Register(i) ==
  /\ i \in unlisted
  /\ registry' = registry \cup {i}
  /\ unlisted' = unlisted \ {i}
  /\ UNCHANGED <<config, seeded, tierRows, tier, broken, killed, recent, visit, installGhosts,
                 installCounts>>

(* The invocation or the script ends between the two. *)
SetupDies(i) ==
  /\ i \in unlisted /\ InstallFault
  /\ unlisted' = unlisted \ {i}
  /\ UNCHANGED <<installRows, killed, recent, visit, installGhosts>>

-----------------------------------------------------------------------------
InstallPollSteps ==
  PollStarts \/ FanOut \/ (\E i \in Install : PollVisits(i)) \/ PollDone

InstallsNext ==
  \/ \E g \in Guild, b \in Kill : GuildKills(g, b)
  \/ \E g \in Guild : GuildRests(g)
  \/ InstallPollSteps \/ PollDies
  \/ \E i \in Install : (\E g \in Guild : PutConfig(i, g)) \/ Register(i) \/ SetupDies(i)

InstallsSpec == InstallsInit /\ [][InstallsNext]_installVars /\ WF_installVars(InstallPollSteps)

-----------------------------------------------------------------------------
(* What holds *)

(* The installs a poll that starts now serves: those registered, and the   *)
(* home server's from SSM only while nobody is.                            *)
Served(i) == i \in registry \/ (registry = {} /\ i = Home)

(* An install that is served is visited again and again, whatever the      *)
(* visits of the others raise: one server's revoked channel does not       *)
(* silence the rest (handler's fan-out, tenant_configs).  The home server  *)
(* is not served once a team is registered before it.                      *)
EveryoneIsPolled ==
  \A i \in Install : <>[]Served(i) => []<><<PollVisits(i)>>_installVars

(* What was dead when an install was configured is never announced there,  *)
(* although the poll may have stopped between the seed and its marker      *)
(* (handle_setup: "The next poll seeds what is already dead and announces  *)
(* nothing").  An install pointed at a second guild is exempt: its marker  *)
(* and its row are the first guild's.                                      *)
SetupQuiet ==
  \A i \in Install : Cardinality(tracked[i]) <= 1 => cardsOf[i] \cap oldKills[i] = {}
=============================================================================
