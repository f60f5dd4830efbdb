-------------------------------- MODULE Feed ---------------------------------
(***************************************************************************)
(* What the control worker posts of its own accord: the journal's feed     *)
(* (Feed.tick of feed_dispatch.py) and membership anniversaries            *)
(* (anniversaries.tick).  The gateway appends to the journal, the archive  *)
(* acknowledges its rows and the website changes the settings meanwhile;   *)
(* the worker may die and be restarted at any step.                        *)
(***************************************************************************)
EXTENDS Naturals, Sequences, FiniteSets

CONSTANTS
  FeedChannel,      \* the audit, the goodbye and the welcome channel
  Member,           \* members with an anniversary this year
  Batch,            \* rows of one tick
  Enough,           \* posts after which a tick ends
  MaxEntries,       \* BOUND: journal rows
  MaxSwitches,      \* BOUND: changes of the settings
  MaxFeedFaults     \* BOUND: failed calls and restarts

ASSUME FeedBounds ==
  /\ IsFiniteSet(FeedChannel) /\ FeedChannel # {}
  /\ Batch \in Nat \ {0} /\ Enough \in Nat \ {0}
  /\ MaxEntries \in Nat /\ MaxSwitches \in Nat /\ MaxFeedFaults \in Nat

ASSUME FeedKeys == Member \cap ((1..MaxEntries) \X FeedChannel) = {}

VARIABLES
  journal,          \* events: for each row the channels it is news for
  archived,         \* receipts: rows 1..archived are in the archive
  settings,         \* is the feed on
  switches,
  cursor,           \* feed_cursor: rows handled so far
  primed,           \* the cursor exists
  outcome,          \* feed_delivery and anniversary_delivery
  copies,           \* [Post -> Nat]: copies in the channel
  tick,             \* the tick under way
  feedFaults

feedVars == <<journal, archived, settings, switches, cursor, primed, outcome, copies, tick, feedFaults>>

Entry == 1..MaxEntries
Post == (Entry \X FeedChannel) \cup Member
TickStep == {"idle", "row", "enter", "next", "post", "verdict"}
Tick == [at : TickStep, feeding : BOOLEAN, last : Nat, row : Nat,
         todo : SUBSET Post, now : SUBSET Post, posted : Nat]
Resting == [at |-> "idle", feeding |-> FALSE, last |-> 0, row |-> 0,
            todo |-> {}, now |-> {}, posted |-> 0]

FeedTypeOK ==
  /\ journal \in Seq(SUBSET FeedChannel) /\ archived \in Nat
  /\ settings \in BOOLEAN /\ switches \in 0..MaxSwitches
  /\ cursor \in Nat /\ primed \in BOOLEAN
  /\ outcome \in [Post -> {"none", "sending", "sent", "unknown"}]
  /\ copies \in [Post -> Nat]
  /\ tick \in Tick /\ feedFaults \in 0..MaxFeedFaults

FeedInit ==
  /\ journal = <<>> /\ archived = 0 /\ settings = FALSE /\ switches = 0
  /\ cursor = 0 /\ primed = FALSE
  /\ outcome = [p \in Post |-> "none"] /\ copies = [p \in Post |-> 0]
  /\ tick = Resting /\ feedFaults = 0

feedWorld == <<journal, archived, settings, switches>>
FeedFault == feedFaults < MaxFeedFaults /\ feedFaults' = feedFaults + 1

-----------------------------------------------------------------------------
(* The gateway, the archive and the website *)

Journal(news) ==
  /\ Len(journal) < MaxEntries
  /\ journal' = Append(journal, news)
  /\ UNCHANGED <<archived, settings, switches, cursor, primed, outcome, copies, tick, feedFaults>>

Flush ==
  /\ archived < Len(journal) /\ archived' = archived + 1
  /\ UNCHANGED <<journal, settings, switches, cursor, primed, outcome, copies, tick, feedFaults>>

Switch ==
  /\ switches < MaxSwitches /\ switches' = switches + 1 /\ settings' = ~settings
  /\ UNCHANGED <<journal, archived, cursor, primed, outcome, copies, tick, feedFaults>>

-----------------------------------------------------------------------------
(* Feed.tick *)

(* A feed that is off, or was never on, starts behind the newest row. *)
SkipHistory ==
  /\ tick.at = "idle" /\ (~settings \/ ~primed)
  /\ cursor' = Len(journal) /\ primed' = TRUE
  /\ UNCHANGED <<feedWorld, outcome, copies, tick, feedFaults>>

ReadBatch ==
  /\ tick.at = "idle" /\ settings /\ primed /\ cursor < Len(journal)
  /\ tick' = [Resting EXCEPT !.at = "row", !.feeding = TRUE, !.row = cursor + 1,
                             !.last = IF cursor + Batch < Len(journal) THEN cursor + Batch ELSE Len(journal)]
  /\ UNCHANGED <<feedWorld, cursor, primed, outcome, copies, feedFaults>>

(* The row waits for its receipt, ends the tick when the settings changed, *)
(* and needs Discord to know whom it is about.                             *)
ReadRow ==
  /\ tick.at = "row"
  /\ \/ /\ tick.row <= tick.last /\ tick.row <= archived /\ settings
        /\ tick' = [tick EXCEPT !.at = "enter"] /\ UNCHANGED feedFaults
     \/ /\ tick.row > tick.last \/ tick.row > archived \/ ~settings
        /\ tick' = Resting /\ UNCHANGED feedFaults
     \/ tick' = Resting /\ FeedFault
  /\ UNCHANGED <<feedWorld, cursor, primed, outcome, copies>>

(* A variant: the cursor follows the posts instead of leading them. *)
EnterUnmoved ==
  LET news == {tick.row} \X journal[tick.row] IN
  /\ tick.at = "enter"
  /\ IF ~settings \/ cursor >= tick.row
     THEN tick' = Resting /\ UNCHANGED <<cursor, outcome>>
     ELSE /\ cursor' = IF news = {} THEN tick.row ELSE cursor
          /\ outcome' = [p \in Post |-> IF p \in news THEN "sending" ELSE outcome[p]]
          /\ tick' = [tick EXCEPT !.at = "next", !.todo = news]
  /\ UNCHANGED <<feedWorld, primed, copies, feedFaults>>

(* One transaction: the settings and the cursor looked at again, the       *)
(* cursor moved past the row, its deliveries recorded as being sent.       *)
Enter ==
  LET news == {tick.row} \X journal[tick.row] IN
  /\ tick.at = "enter"
  /\ IF ~settings \/ cursor >= tick.row
     THEN tick' = Resting /\ UNCHANGED <<cursor, outcome>>
     ELSE /\ cursor' = tick.row
          /\ outcome' = [p \in Post |-> IF p \in news /\ outcome[p] = "none" THEN "sending" ELSE outcome[p]]
          /\ tick' = [tick EXCEPT !.at = "next", !.todo = news]
  /\ UNCHANGED <<feedWorld, primed, copies, feedFaults>>

-----------------------------------------------------------------------------
(* anniversaries.tick: one member after another *)

Anniversary(m) ==
  /\ tick.at = "idle"
  /\ outcome[m] = "none"
  /\ outcome' = [outcome EXCEPT ![m] = "sending"]
  /\ tick' = [Resting EXCEPT !.at = "next", !.todo = {m}]
  /\ UNCHANGED <<feedWorld, cursor, primed, copies, feedFaults>>

-----------------------------------------------------------------------------
(* One request for each post, whatever its answer *)

Send(p) ==
  /\ tick.at = "next" /\ p \in tick.todo
  /\ tick' = [tick EXCEPT !.at = "post", !.todo = @ \ {p}, !.now = {p}]
  /\ UNCHANGED <<feedWorld, cursor, primed, outcome, copies, feedFaults>>

Stored ==
  /\ tick.at = "post"
  /\ copies' = [p \in Post |-> IF p \in tick.now THEN copies[p] + 1 ELSE copies[p]]
  /\ tick' = [tick EXCEPT !.at = "verdict"]
  /\ UNCHANGED <<feedWorld, cursor, primed, outcome, feedFaults>>

(* Sent when Discord answered, unknown when it did not or refused. *)
Verdict(state) ==
  /\ \/ tick.at = "verdict" /\ state = "sent" /\ UNCHANGED feedFaults
     \/ tick.at \in {"post", "verdict"} /\ state = "unknown" /\ FeedFault
  /\ outcome' = [p \in Post |-> IF p \in tick.now THEN state ELSE outcome[p]]
  /\ tick' = [tick EXCEPT !.at = "next", !.now = {}, !.posted = @ + 1]
  /\ UNCHANGED <<feedWorld, cursor, primed, copies>>

(* The next row, unless this tick has posted enough. *)
NextRow ==
  /\ tick.at = "next" /\ tick.todo = {}
  /\ tick' = IF tick.feeding /\ tick.posted < Enough
             THEN [tick EXCEPT !.at = "row", !.row = @ + 1] ELSE Resting
  /\ UNCHANGED <<feedWorld, cursor, primed, outcome, copies, feedFaults>>

(* The worker dies and starts again; what it was sending stays "sending". *)
FeedRestart ==
  /\ tick.at # "idle" /\ FeedFault
  /\ tick' = Resting
  /\ UNCHANGED <<feedWorld, cursor, primed, outcome, copies>>

FeedNext ==
  \/ \E news \in SUBSET FeedChannel : Journal(news)
  \/ Flush \/ Switch \/ SkipHistory \/ ReadBatch \/ ReadRow \/ Enter
  \/ \E m \in Member : Anniversary(m)
  \/ \E p \in Post : Send(p)
  \/ Stored \/ NextRow \/ FeedRestart
  \/ \E state \in {"sent", "unknown"} : Verdict(state)

FeedSpec == FeedInit /\ [][FeedNext]_feedVars

-----------------------------------------------------------------------------
(* Properties *)

(* A delivery is under way while its request is; it waits until then, and  *)
(* is over once a copy or a verdict exists.                                *)
feedPhase ==
  [p \in Post |-> IF p \in tick.now THEN "sending"
                  ELSE IF outcome[p] \in {"sent", "unknown"} \/ copies[p] > 0 THEN "settled"
                  ELSE "waiting"]

Deliveries == INSTANCE AtMostOnce WITH Msg <- Post, phase <- feedPhase

(* anniversaries.py:84 "An uncertain Discord write must never create a     *)
(* duplicate on restart", and the same of every journal row in every       *)
(* channel: through restarts between the cursor, the request and the       *)
(* verdict, and switches of the settings, the feed and the anniversaries   *)
(* are the abstract outbox.                                                *)
FeedPromise == Deliveries!Spec
=============================================================================
