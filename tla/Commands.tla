------------------------------- MODULE Commands -------------------------------
(***************************************************************************)
(* What members type (handler.py handle_interaction): one invocation has   *)
(* three seconds for a first answer and stops when it has given one; slow  *)
(* work is left to a second, asynchronous invocation, which Lambda runs    *)
(* again when it fails, and which edits the answer.  /progress is answered *)
(* from the snapshot that polls leave.                                     *)
(***************************************************************************)
EXTENDS Naturals, FiniteSets

CONSTANTS
  DiscordServer,     \* Discord servers
  HomeServer,        \* the one in SSM
  NoServer,          \* a direct message
  WowGuild,          \* guilds Raider.IO knows
  Polled,            \* those of them whose polls are followed here
  SsmGuild,          \* the guild in SSM
  Misspelt,          \* a guild Raider.IO does not know
  MaxAge,            \* SNAPSHOT_MAX_AGE, in hours
  LambdaTries,       \* runs of an asynchronous invocation
  MaxAsked,          \* BOUND: interactions
  MaxClock,          \* BOUND: hours
  MaxSnaps,          \* BOUND: polls
  MaxBosses,         \* BOUND: bosses killed by a guild
  MaxPointed,        \* BOUND: configurations written by the operator
  MaxCommandFaults   \* BOUND: calls that fail, and invocations that end

ASSUME CommandNames ==
  HomeServer \in DiscordServer /\ NoServer \notin DiscordServer /\ SsmGuild \in WowGuild
  /\ Polled \subseteq WowGuild /\ Misspelt \notin WowGuild
ASSUME CommandBounds ==
  {MaxAge, LambdaTries, MaxAsked, MaxClock, MaxSnaps, MaxBosses, MaxPointed,
   MaxCommandFaults} \subseteq Nat

VARIABLES
  configRow,         \* [DiscordServer -> guild, or Misspelt for no row]
  listedServers,     \* the registry
  bossCount,         \* [WowGuild -> bosses its profile at Raider.IO shows]
  hours,             \* the clock
  snapshots,         \* [WowGuild -> the PROGRESS item, {} is none]
  snapping,          \* polls at work on a guild's snapshot
  asks,              \* interactions, by number, with what was done for them
  savedFor,          \* history: setups that were written
  askingAbout,       \* what this behaviour is about
  commandCounts      \* [snaps, pointed, faults] so far

commandVars == <<configRow, listedServers, bossCount, hours, snapshots, snapping, asks, savedFor,
                 askingAbout, commandCounts>>
servers == <<configRow, listedServers, savedFor>>
progress == <<bossCount, hours, snapshots, snapping, askingAbout>>

(* Polls meet the interactions in the snapshot alone, and what is answered *)
(* at once meets nothing: a behaviour is about one interaction of any kind *)
(* at all, about one /progress and the polls, or about several that are    *)
(* deferred.                                                               *)
CommandsInit ==
  /\ askingAbout \in {"anything", "snapshots", "followups"}
  /\ configRow = [s \in DiscordServer |-> Misspelt] /\ listedServers = {}
  /\ bossCount = [g \in WowGuild |-> 0] /\ hours = 0
  /\ snapshots = [g \in WowGuild |-> {}] /\ snapping = {}
  /\ asks = <<>> /\ savedFor = {}
  /\ commandCounts = [snaps |-> 0, pointed |-> 0, faults |-> 0]

CommandCounted(k, max) ==
  commandCounts[k] < max /\ commandCounts' = [commandCounts EXCEPT ![k] = @ + 1]
CommandFault == CommandCounted("faults", MaxCommandFaults)

(* The guild a server tracks: its CONFIG row; without one, the home        *)
(* server's is in SSM.                                                     *)
Tracked(row, s) == IF row[s] # Misspelt THEN {row[s]}
                   ELSE IF s = HomeServer THEN {SsmGuild} ELSE {}

-----------------------------------------------------------------------------
(* Around the interactions *)

BossDies(g) ==
  /\ askingAbout = "snapshots" /\ bossCount[g] < MaxBosses
  /\ bossCount' = [bossCount EXCEPT ![g] = @ + 1]
  /\ UNCHANGED <<servers, askingAbout, hours, snapshots, snapping, asks, commandCounts>>

HourPasses ==
  /\ askingAbout = "snapshots" /\ hours < MaxClock /\ hours' = hours + 1
  /\ UNCHANGED <<servers, askingAbout, bossCount, snapshots, snapping, asks, commandCounts>>

(* A poll takes the time, reads the profile, and later puts the snapshot,  *)
(* whatever another has put there meanwhile.                               *)
SnapStarts(g) ==
  /\ askingAbout = "snapshots" /\ CommandCounted("snaps", MaxSnaps)
  /\ snapping' = snapping \cup
       {[n |-> commandCounts'.snaps, guild |-> g, read |-> FALSE, killed |-> 0,
         updatedAt |-> hours, knew |-> bossCount[g]]}
  /\ UNCHANGED <<servers, askingAbout, bossCount, hours, snapshots, asks>>

SnapReads(p) ==
  /\ ~p.read
  /\ snapping' = (snapping \ {p}) \cup
                    {[p EXCEPT !.read = TRUE, !.killed = bossCount[p.guild]]}
  /\ UNCHANGED <<servers, askingAbout, bossCount, hours, snapshots, asks, commandCounts>>

RefreshSnapshot(p) ==
  /\ p.read /\ snapping' = snapping \ {p}
  /\ snapshots' = [snapshots EXCEPT ![p.guild] =
                     {[killed |-> p.killed, updatedAt |-> p.updatedAt, knew |-> p.knew]}]
  /\ UNCHANGED <<servers, askingAbout, bossCount, hours, asks, commandCounts>>

(* A guild is written for a server; what is being asked meanwhile may be   *)
(* answered for the one it tracked or the one it tracks.                   *)
PutConfig(s, g) ==
  /\ configRow' = [configRow EXCEPT ![s] = g]
  /\ asks' = [a \in DOMAIN asks |-> IF asks[a].from = s
                                    THEN [asks[a] EXCEPT !.tracked = @ \cup {g}] ELSE asks[a]]

(* Another server's install is the operator's to write. *)
OperatorConfigures(s, g) ==
  /\ s # HomeServer /\ CommandCounted("pointed", MaxPointed)
  /\ PutConfig(s, g) /\ listedServers' = listedServers \cup {s}
  /\ UNCHANGED <<progress, savedFor>>

-----------------------------------------------------------------------------
(* The first invocation *)

Ask(kind, from, by, wants) ==
  [kind |-> kind, from |-> from, by |-> by, wants |-> wants, stage |-> "asked", first |-> "none",
   tries |-> LambdaTries, scope |-> Misspelt, shown |-> {}, at |-> hours,
   tracked |-> IF from \in DiscordServer THEN Tracked(configRow, from) ELSE {}]

Numbered(r) ==
  LET n == Cardinality(DOMAIN asks) + 1 IN [a \in 1..n |-> IF a = n THEN r ELSE asks[a]]

Asking ==
  /\ Cardinality(DOMAIN asks) < (IF askingAbout = "followups" THEN MaxAsked ELSE 1)
  /\ \E kind \in {"progress", "setup", "poll", "relayed"}, from \in DiscordServer \cup {NoServer},
        by \in {"manager", "member", "pending", "forged"}, wants \in WowGuild \cup {Misspelt} :
       /\ wants = Misspelt \/ kind = "setup"
       /\ askingAbout = "snapshots" => kind = "progress"
       /\ askingAbout # "anything" => kind \in {"progress", "setup"} /\ from \in DiscordServer
                                    /\ by = "manager" /\ (kind = "setup" => from = HomeServer)
       /\ asks' = Numbered(Ask(kind, from, by, wants))
  /\ UNCHANGED <<servers, progress, commandCounts>>

(* The first answer ends the invocation. *)
FirstAnswer(a, answer) ==
  asks' = [asks EXCEPT ![a].first = answer,
                       ![a].stage = IF answer = "deferred" THEN "queued" ELSE "over"]

(* Another invocation is asked for, or the member is told to try later. *)
Defers(a) == \/ FirstAnswer(a, "deferred") /\ UNCHANGED commandCounts
             \/ FirstAnswer(a, "unavailable") /\ CommandFault

(* The signature first; then whose business it is.  A relay is for the     *)
(* home server alone, and so are /poll and /setup.                         *)
HandleInteraction(a) ==
  LET r == asks[a]  here == r.from = HomeServer IN
  /\ r.stage = "asked"
  /\ \/ r.by = "forged" /\ FirstAnswer(a, "unauthorized") /\ UNCHANGED commandCounts
     \/ /\ r.by # "forged" /\ r.kind = "relayed"
        /\ \/ ~here /\ FirstAnswer(a, "unauthorized") /\ UNCHANGED commandCounts
           \/ here /\ FirstAnswer(a, "forwarded") /\ UNCHANGED commandCounts
           \/ here /\ FirstAnswer(a, "unconfirmed") /\ CommandFault
     \/ /\ r.by # "forged" /\ r.kind = "poll"
        /\ FirstAnswer(a, IF here /\ r.by # "pending" THEN "poll" ELSE "refused")
        /\ UNCHANGED commandCounts
     \/ /\ r.by # "forged" /\ r.kind = "setup"
        /\ IF here /\ r.by = "manager" THEN Defers(a)
           ELSE FirstAnswer(a, "refused") /\ UNCHANGED commandCounts
     \/ /\ r.by # "forged" /\ r.kind = "progress" /\ UNCHANGED commandCounts
        /\ IF r.from = NoServer \/ Tracked(configRow, r.from) = {} THEN FirstAnswer(a, "refused")
           ELSE \E g \in Tracked(configRow, r.from) :
                  asks' = [asks EXCEPT ![a].stage = "snapshot", ![a].scope = g]
  /\ UNCHANGED <<servers, progress>>

Fresh(a) == \E s \in snapshots[asks[a].scope] : asks[a].at <= s.updatedAt + MaxAge
SnapshotOf(g) == {[guild |-> g, killed |-> s.killed, updatedAt |-> s.updatedAt, knew |-> s.knew] :
                  s \in snapshots[g]}

(* The snapshot of the guild, if there is one and it is fresh; a read that *)
(* fails is as none.                                                       *)
HandleProgress(a) ==
  /\ asks[a].stage = "snapshot"
  /\ \/ /\ Fresh(a) /\ UNCHANGED commandCounts
        /\ asks' = [asks EXCEPT ![a].first = "progress", ![a].stage = "over",
                                ![a].shown = SnapshotOf(asks[a].scope)]
     \/ ~Fresh(a) /\ Defers(a)
     \/ Fresh(a) /\ CommandFault /\ FirstAnswer(a, "deferred")
  /\ UNCHANGED <<servers, progress>>

(* The invocation ends without an answer: Discord shows that it did. *)
FirstDies(a) ==
  /\ asks[a].stage \in {"asked", "snapshot"} /\ CommandFault
  /\ asks' = [asks EXCEPT ![a].stage = "over"]
  /\ UNCHANGED <<servers, progress>>

-----------------------------------------------------------------------------
(* The second invocation *)

(* A variant: the guild is that of the configuration the invocation loads. *)
ScopeOfPoller(a) == {SsmGuild}

(* The server that asked travels with the request.  Its row is there: rows *)
(* of the configuration are never deleted, so the code's fallback to the   *)
(* poller's own guild (handler.py:1163-1166) is never taken.               *)
InteractionScope(a) == Tracked(configRow, asks[a].from)

HandleFollowup(a) ==
  LET r == asks[a] IN
  /\ r.stage = "queued" /\ r.tries > 0
  /\ \/ /\ r.kind = "progress"
        /\ \E g \in InteractionScope(a) :
             asks' = [asks EXCEPT ![a].stage = "profile", ![a].scope = g, ![a].tries = @ - 1]
     \/ /\ r.kind = "setup"
        /\ asks' = [asks EXCEPT ![a].stage = IF r.wants = Misspelt THEN "notfound" ELSE "save",
                                ![a].tries = @ - 1]
  /\ UNCHANGED <<servers, progress, commandCounts>>

ProgressLive(a) ==
  LET g == asks[a].scope IN
  /\ asks[a].stage = "profile"
  /\ asks' = [asks EXCEPT ![a].stage = "edit",
                          ![a].shown = {[guild |-> g, killed |-> bossCount[g], updatedAt |-> hours,
                                         knew |-> bossCount[g]]}]
  /\ UNCHANGED <<servers, progress, commandCounts>>

(* The configuration, then the registry. *)
SetupSaves(a) ==
  /\ asks[a].stage = "save" /\ configRow' = [configRow EXCEPT ![asks[a].from] = asks[a].wants]
  /\ asks' = [b \in DOMAIN asks |->
                [asks[b] EXCEPT !.stage = IF b = a THEN "register" ELSE @,
                                !.tracked = IF asks[b].from = asks[a].from
                                            THEN @ \cup {asks[a].wants} ELSE @]]
  /\ savedFor' = savedFor \cup {a}
  /\ UNCHANGED <<listedServers, progress, commandCounts>>

SetupRegisters(a) ==
  /\ asks[a].stage = "register" /\ listedServers' = listedServers \cup {asks[a].from}
  /\ asks' = [asks EXCEPT ![a].stage = "edit"]
  /\ UNCHANGED <<configRow, savedFor, progress, commandCounts>>

(* A guild that is known may not be found this time. *)
LookupFails(a) ==
  /\ asks[a].stage = "save" /\ CommandFault
  /\ asks' = [asks EXCEPT ![a].stage = "notfound"]
  /\ UNCHANGED <<servers, progress>>

(* The edit lands; the call may fail all the same, and all is done again. *)
EditFollowup(a) ==
  /\ asks[a].stage \in {"edit", "notfound"}
  /\ \E again \in BOOLEAN :
       /\ IF again THEN CommandFault ELSE UNCHANGED commandCounts
       /\ asks' = [asks EXCEPT ![a].stage = IF again THEN "queued" ELSE "over",
                     ![a].first = IF asks[a].kind = "progress" THEN "progress"
                                  ELSE IF asks[a].stage = "edit" THEN "configured"
                                  ELSE "notfound"]
  /\ UNCHANGED <<servers, progress>>

(* What raises, or ends, is run again. *)
FollowupDies(a) ==
  /\ asks[a].stage \in {"profile", "save", "register", "edit", "notfound"} /\ CommandFault
  /\ asks' = [asks EXCEPT ![a].stage = "queued",
                          ![a].shown = IF asks[a].first = "progress" THEN @ ELSE {}]
  /\ UNCHANGED <<servers, progress>>

-----------------------------------------------------------------------------
CommandsNext ==
  \/ Asking \/ HourPasses
  \/ \E g \in Polled : BossDies(g) \/ SnapStarts(g)
  \/ \E p \in snapping : SnapReads(p) \/ RefreshSnapshot(p)
  \/ \E s \in DiscordServer, g \in WowGuild : OperatorConfigures(s, g)
  \/ \E a \in DOMAIN asks :
       \/ HandleInteraction(a) \/ HandleProgress(a) \/ FirstDies(a) \/ HandleFollowup(a)
       \/ ProgressLive(a) \/ SetupSaves(a) \/ SetupRegisters(a) \/ LookupFails(a)
       \/ EditFollowup(a) \/ FollowupDies(a)

CommandsSpec == CommandsInit /\ [][CommandsNext]_commandVars

-----------------------------------------------------------------------------
(* Everyone is answered as the server they asked from: progress is that of *)
(* a guild their server tracked between the question and the answer, as    *)
(* far as it had come by the time the answer gives, and that time is not   *)
(* long past; a configuration is written only for a manager of the home    *)
(* server and a guild that was found, and who is told that it is set up    *)
(* had it written and listed.                                              *)
AnsweredAsAsked ==
  \A a \in DOMAIN asks :
    LET r == asks[a] IN
    /\ \A s \in r.shown : /\ s.guild \in r.tracked /\ s.knew <= s.killed
                          /\ r.at <= s.updatedAt + MaxAge
    /\ r.first = "progress" => r.shown # {}
    /\ a \in savedFor => r.from = HomeServer /\ r.by = "manager" /\ r.wants \in WowGuild
    /\ r.first = "configured" => a \in savedFor /\ HomeServer \in listedServers
    /\ r.first \in {"forwarded", "unconfirmed", "poll"} => r.from = HomeServer /\ r.by # "forged"
    /\ r.first = "deferred" => r.stage # "over"
=============================================================================
