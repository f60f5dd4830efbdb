-------------------------------- MODULE Recap --------------------------------
(***************************************************************************)
(* The nightly recap of src/handler.py for one team: recap_night posts a   *)
(* night once, recap_recheck looks at a posted night a second time, and a  *)
(* person revises one by hand.  Each is an invocation of its own, so a     *)
(* schedule's retry, a manual run and a recheck may overlap.               *)
(*                                                                         *)
(* A log is the run of pulls its uploader has sent so far; uploads go on   *)
(* after the recap.  A pull is its wall-clock slot.                        *)
(***************************************************************************)
EXTENDS Naturals, FiniteSets

CONSTANTS
  Night,            \* raid nights, numbered by their day
  LastDay,          \* BOUND: the day the behaviour ends with
  Uploader,         \* who logs the raid
  Guild,            \* the uploader the install's source lists
  Start,            \* [Uploader -> Nat]: pulls missed before the log began
  Rank,             \* [Uploader -> Nat]: place in Warcraft Logs' answer
  MaxPulls,         \* BOUND: pulls of a night
  RecheckNights,    \* RECAP_RECHECK_NIGHTS
  MaxAttempts,      \* MAX_ATTEMPTS of src/discord.py
  NoRecord,         \* no RECAP#POST row
  RecapRun,         \* invocations that may overlap
  MaxInvocations,   \* BOUND: invocations in one behaviour
  MaxFaults         \* BOUND: failed and ended invocations

ASSUME RecapNights == Night \subseteq Nat /\ LastDay \in Nat /\ RecheckNights \in Nat
ASSUME RecapUploaders ==
  /\ IsFiniteSet(Uploader) /\ Guild \in Uploader
  /\ Start \in [Uploader -> Nat] /\ Rank \in [Uploader -> Nat]
  /\ \A u, v \in Uploader : Rank[u] = Rank[v] => u = v
ASSUME RecapBounds ==
  /\ MaxPulls \in Nat /\ MaxAttempts \in Nat \ {0}
  /\ MaxInvocations \in Nat /\ MaxFaults \in Nat

VARIABLES
  today,
  uploaded,         \* [Night -> [Uploader -> Nat]]: pulls in the log so far
  posted,           \* RECAPS: the claimed nights
  record,           \* RECAP#POST#<night>
  cards,            \* [Night -> Nat]: recaps of the night in the channel
  shown,            \* [Night -> Card]: what the recorded message says
  run,              \* [RecapRun -> Task]
  sure,             \* history: nights with a card whose sender got the answer
  doubt,            \* history: cards Discord stored without saying so
  told,             \* history: [Night -> SUBSET Note]: notes of confirmed edits
  looks,            \* history: [Night -> Nat]: edits made by rechecks
  raced,            \* history: nights two invocations worked on at once
  unrecorded,       \* history: nights with an edit the record may have missed
  invoked,          \* invocations so far, against MaxInvocations
  recapFaults

recapGhosts == <<sure, doubt, told, looks, raced, unrecorded>>
recapVars == <<today, uploaded, posted, record, cards, shown, run, recapGhosts, invoked, recapFaults>>

Note == [by : {"hand", "recheck"}, was : Nat, now : Nat]
Card == [pulls : Nat, notes : SUBSET Note]
Record == [logs : SUBSET Uploader, pulls : Nat, notes : SUBSET Note, rechecked : BOOLEAN]
Posting == {"schedule", "manual"}
Revising == {"recheck", "hand"}
RecapStep == {"idle", "claim", "draw", "post", "release", "look", "earlier", "edit",
              "mark", "before", "write"}
Task == [at : RecapStep, kind : Posting \cup Revising, night : Night \cup {0},
         logs : SUBSET Uploader, pulls : Nat, base : Record \cup {NoRecord},
         notes : SUBSET Note, fresh : SUBSET Note, private : BOOLEAN]

ASSUME RecapNoRecord == NoRecord \notin Record

Idle == [at |-> "idle", kind |-> "schedule", night |-> 0, logs |-> {}, pulls |-> 0,
         base |-> NoRecord, notes |-> {}, fresh |-> {}, private |-> FALSE]

RecapTypeOK ==
  /\ today \in 0..LastDay
  /\ uploaded \in [Night -> [Uploader -> Nat]]
  /\ posted \subseteq Night
  /\ record \in [Night -> Record \cup {NoRecord}]
  /\ cards \in [Night -> Nat] /\ shown \in [Night -> Card]
  /\ run \in [RecapRun -> Task]
  /\ sure \subseteq Night /\ doubt \in [Night -> Nat]
  /\ told \in [Night -> SUBSET Note] /\ looks \in [Night -> Nat]
  /\ raced \subseteq Night /\ unrecorded \subseteq Night
  /\ invoked \in 0..MaxInvocations /\ recapFaults \in 0..MaxFaults

RecapInit ==
  /\ today = 0
  /\ uploaded = [n \in Night |-> [u \in Uploader |-> 0]]
  /\ posted = {} /\ record = [n \in Night |-> NoRecord]
  /\ cards = [n \in Night |-> 0]
  /\ shown = [n \in Night |-> [pulls |-> 0, notes |-> {}]]
  /\ run = [r \in RecapRun |-> Idle]
  /\ sure = {} /\ doubt = [n \in Night |-> 0]
  /\ told = [n \in Night |-> {}] /\ looks = [n \in Night |-> 0]
  /\ raced = {} /\ unrecorded = {} /\ invoked = 0 /\ recapFaults = 0

-----------------------------------------------------------------------------
(* Warcraft Logs *)

NextDay ==
  /\ today < LastDay /\ today' = today + 1
  /\ UNCHANGED <<uploaded, posted, record, cards, shown, run, recapGhosts, invoked, recapFaults>>

(* A live log grows, or a raider uploads one later. *)
Upload(n, u) ==
  /\ today >= n
  /\ Start[u] + uploaded[n][u] < MaxPulls
  /\ uploaded' = [uploaded EXCEPT ![n][u] = @ + 1]
  /\ UNCHANGED <<today, posted, record, cards, shown, run, recapGhosts, invoked, recapFaults>>

Pulls(n, u) == (Start[u] + 1) .. (Start[u] + uploaded[n][u])

(* What the card adds up: every kept log counts its own pulls. *)
PullsIn(n, logs) == Cardinality({s \in logs \X (1..MaxPulls) : s[2] \in Pulls(n, s[1])})

(* fuller_logs: raiders' logs of the same raid, known by a pull in common. *)
Fuller(n, logs) ==
  {u \in Uploader \ logs : \E v \in logs : Pulls(n, u) \cap Pulls(n, v) # {}}

(* drop_duplicate_logs: overlapping by more than half of the shorter log. *)
Clash(n, u, v) ==
  LET both == 2 * Cardinality(Pulls(n, u) \cap Pulls(n, v))
  IN  both > uploaded[n][u] \/ both > uploaded[n][v]

Before(n, u, v) ==
  \/ uploaded[n][u] > uploaded[n][v]
  \/ uploaded[n][u] = uploaded[n][v] /\ Rank[u] < Rank[v]

(* The most complete logs first, each kept unless it repeats a kept one:   *)
(* the only choice of logs that is so.                                     *)
Kept(n, logs) ==
  {keep \in SUBSET logs :
     \A u \in logs : u \in keep <=> ~ \E v \in keep : Before(n, v, u) /\ Clash(n, u, v)}

(* The logs a look settles on: named, or the source's, and any fuller ones *)
(* when the search is made and does not fail.                              *)
Sighted(n, logs) == {u \in logs : uploaded[n][u] > 0}
Readings(n, named, search) ==
  LET seen == Sighted(n, named)
  IN  Kept(n, seen) \cup (IF search THEN Kept(n, seen \cup Fuller(n, seen)) ELSE {})

-----------------------------------------------------------------------------
(* Invocations *)

At(r, step) == run[r].at = step
Busy(r) == ~ At(r, "idle")
Step(r, t) == run' = [run EXCEPT ![r] = t]
Move(r, step) == Step(r, [run[r] EXCEPT !.at = step])
Over(r) == Step(r, Idle)
Fault == recapFaults < MaxFaults /\ recapFaults' = recapFaults + 1

(* One more invocation; somebody else may be at work on the night. *)
Meets(r, n) ==
  /\ invoked < MaxInvocations /\ invoked' = invoked + 1
  /\ raced' = IF \E q \in RecapRun \ {r} : Busy(q) /\ run[q].night = n
              THEN raced \cup {n} ELSE raced

(* recap_night without `revise`: the source's reports of the window, the   *)
(* classifier's verdict being PROG.  The schedule sees the night it ends.  *)
StartRecap(r, n, kind) ==
  /\ At(r, "idle") /\ today >= n
  /\ kind = "schedule" => today = n
  /\ \E logs \in Readings(n, {Guild}, TRUE) :
       /\ logs # {}
       /\ Step(r, [Idle EXCEPT !.at = "claim", !.kind = kind, !.night = n,
                               !.logs = logs, !.pulls = PullsIn(n, logs)])
  /\ Meets(r, n)
  /\ UNCHANGED <<today, uploaded, posted, record, cards, shown, sure, doubt, told,
                 looks, unrecorded, recapFaults>>

(* recap_recheck: a night of the window whose record was not rechecked. *)
Due(n) ==
  /\ today > n /\ today - n <= RecheckNights
  /\ record[n] # NoRecord /\ record[n].logs # {} /\ ~record[n].rechecked

StartRecheck(r, n) ==
  /\ At(r, "idle") /\ Due(n)
  /\ Step(r, [Idle EXCEPT !.at = "look", !.kind = "recheck", !.night = n,
                          !.logs = record[n].logs, !.base = record[n]])
  /\ Meets(r, n)
  /\ UNCHANGED <<today, uploaded, posted, record, cards, shown, sure, doubt, told,
                 looks, unrecorded, recapFaults>>

(* `revise` by hand: named reports and the message to edit. *)
StartHand(r, n, named) ==
  /\ At(r, "idle") /\ n \in sure
  /\ Step(r, [Idle EXCEPT !.at = "look", !.kind = "hand", !.night = n, !.logs = named])
  /\ Meets(r, n)
  /\ UNCHANGED <<today, uploaded, posted, record, cards, shown, sure, doubt, told,
                 looks, unrecorded, recapFaults>>

(* The named reports read again: a recheck that finds no more pulls than   *)
(* the record claims only marks the night; no report at all ends it.       *)
Look(r) ==
  LET t == run[r] n == t.night IN
  /\ At(r, "look")
  /\ \E logs \in Readings(n, t.logs, t.kind = "recheck") :
       LET now == PullsIn(n, logs) IN
       Step(r, IF logs = {} THEN Idle
               ELSE IF t.kind = "recheck" /\ now <= t.base.pulls
               THEN [t EXCEPT !.at = "mark"]
               ELSE [t EXCEPT !.at = "earlier", !.logs = logs, !.pulls = now])
  /\ UNCHANGED <<today, uploaded, posted, record, cards, shown, recapGhosts, invoked, recapFaults>>

(* Too few Warcraft Logs points are left to read anything: the result is   *)
(* ok and nothing was revised, which recap_recheck takes for a look.       *)
OutOfPoints(r) ==
  /\ At(r, "look")
  /\ IF run[r].kind = "recheck" THEN Move(r, "mark") ELSE Over(r)
  /\ UNCHANGED <<today, uploaded, posted, record, cards, shown, recapGhosts, invoked, recapFaults>>

(* A variant: the claim is written whatever is there. *)
ClaimUnread(r) ==
  LET n == run[r].night IN
  /\ At(r, "claim")
  /\ posted' = posted \cup {n} /\ Move(r, "draw")
  /\ UNCHANGED <<today, uploaded, record, cards, shown, recapGhosts, invoked, recapFaults>>

(* claim_recap: the night is this invocation's, or already somebody's. *)
Claim(r) ==
  LET n == run[r].night IN
  /\ At(r, "claim")
  /\ IF n \in posted THEN Over(r) /\ UNCHANGED posted
     ELSE posted' = posted \cup {n} /\ Move(r, "draw")
  /\ UNCHANGED <<today, uploaded, record, cards, shown, recapGhosts, invoked, recapFaults>>

(* Tables, card and page.  A private source is posted without a record. *)
Draw(r) ==
  /\ At(r, "draw")
  /\ \E private \in BOOLEAN :
       Step(r, [run[r] EXCEPT !.at = "post", !.private = private])
  /\ UNCHANGED <<today, uploaded, posted, record, cards, shown, recapGhosts, invoked, recapFaults>>

-----------------------------------------------------------------------------
(* The post: up to MaxAttempts requests, all but the last unanswered.  Of  *)
(* the unanswered ones Discord may have stored any.                        *)

Stored(n, copies) ==
  /\ cards' = [cards EXCEPT ![n] = @ + copies]

Post(r) ==
  LET t == run[r] n == t.night IN
  /\ At(r, "post")
  /\ \E unanswered \in 0..(MaxAttempts - 1) :
       /\ IF unanswered = 0 THEN UNCHANGED recapFaults ELSE Fault
       /\ Stored(n, unanswered + 1)
       /\ doubt' = [doubt EXCEPT ![n] = @ + unanswered]
  /\ sure' = sure \cup {n}
  /\ shown' = [shown EXCEPT ![n] = [pulls |-> t.pulls, notes |-> {}]]
  /\ IF t.private THEN Over(r) ELSE Move(r, "before")
  /\ UNCHANGED <<today, uploaded, posted, record, told, looks, raced, unrecorded, invoked>>

(* DiscordError: refused, or every attempt unanswered. *)
PostFailed(r) ==
  /\ At(r, "post") /\ Fault
  /\ \E unanswered \in 0..MaxAttempts :
       /\ Stored(run[r].night, unanswered)
       /\ doubt' = [doubt EXCEPT ![run[r].night] = @ + unanswered]
  /\ Move(r, "release")
  /\ UNCHANGED <<today, uploaded, posted, record, shown, sure, told, looks, raced, unrecorded, invoked>>

Release(r) ==
  /\ At(r, "release")
  /\ posted' = posted \ {run[r].night}
  /\ Over(r)
  /\ UNCHANGED <<today, uploaded, record, cards, shown, recapGhosts, invoked, recapFaults>>

-----------------------------------------------------------------------------
(* The correction of a posted card *)

(* A variant: the card is redrawn with this correction's note alone. *)
CarriedNone(n) == {}

(* The notes of earlier corrections, as the record holds them now. *)
Carried(n) == IF record[n] = NoRecord THEN {} ELSE record[n].notes

(* Without a drawn card there is no correction (a private source). *)
ReadEarlier(r) ==
  LET t == run[r]
      note == [by |-> t.kind, now |-> t.pulls,
               was |-> IF t.kind = "recheck" THEN t.base.pulls ELSE 0]
  IN
  /\ At(r, "earlier")
  /\ Step(r, [t EXCEPT !.at = "edit", !.notes = Carried(t.night), !.fresh = {note}])
  /\ UNCHANGED <<today, uploaded, posted, record, cards, shown, recapGhosts, invoked, recapFaults>>

NoCard(r) ==
  /\ At(r, "edit") /\ Fault /\ Over(r)
  /\ UNCHANGED <<today, uploaded, posted, record, cards, shown, recapGhosts, invoked>>

Redrawn(t) == [pulls |-> t.pulls, notes |-> t.notes \cup t.fresh]

(* edit_in: a PATCH of the recorded message, repeated without harm. *)
Edit(r) ==
  LET t == run[r] n == t.night IN
  /\ At(r, "edit")
  /\ shown' = [shown EXCEPT ![n] = Redrawn(t)]
  /\ told' = [told EXCEPT ![n] = @ \cup t.fresh]
  /\ looks' = [looks EXCEPT ![n] = IF t.kind = "recheck" THEN @ + 1 ELSE @]
  /\ Move(r, "before")
  /\ UNCHANGED <<today, uploaded, posted, record, cards, sure, doubt, raced, unrecorded, recapFaults, invoked>>

(* DiscordError, though the last PATCH may have been applied. *)
EditFailed(r) ==
  LET t == run[r] n == t.night IN
  /\ At(r, "edit") /\ Fault
  /\ \/ UNCHANGED <<shown, unrecorded>>
     \/ /\ shown' = [shown EXCEPT ![n] = Redrawn(t)]
        /\ unrecorded' = unrecorded \cup {n}
  /\ Over(r)
  /\ UNCHANGED <<today, uploaded, posted, record, cards, sure, doubt, told, looks, raced, invoked>>

-----------------------------------------------------------------------------
(* The record each post and each correction leaves behind *)

(* remember_recap reads the record it is about to replace... *)
ReadBefore(r) ==
  /\ At(r, "before")
  /\ Step(r, [run[r] EXCEPT !.at = "write", !.base = record[run[r].night]])
  /\ UNCHANGED <<today, uploaded, posted, record, cards, shown, recapGhosts, invoked, recapFaults>>

(* A variant: a correction by hand forgets the second look. *)
RememberedAnew(t) ==
  [logs |-> t.logs, pulls |-> t.pulls,
   notes |-> (IF t.base = NoRecord THEN {} ELSE t.base.notes) \cup t.fresh,
   rechecked |-> t.kind = "recheck"]

(* ... and writes it whole. *)
Remembered(t) ==
  [logs |-> t.logs, pulls |-> t.pulls,
   notes |-> (IF t.base = NoRecord THEN {} ELSE t.base.notes) \cup t.fresh,
   rechecked |-> t.kind = "recheck" \/ (t.base # NoRecord /\ t.base.rechecked)]

Remember(r) ==
  /\ At(r, "write")
  /\ record' = [record EXCEPT ![run[r].night] = Remembered(run[r])]
  /\ Over(r)
  /\ UNCHANGED <<today, uploaded, posted, cards, shown, recapGhosts, invoked, recapFaults>>

(* The recheck of an unchanged night puts back the record it read. *)
MarkRechecked(r) ==
  /\ At(r, "mark")
  /\ record' = [record EXCEPT ![run[r].night] = [run[r].base EXCEPT !.rechecked = TRUE]]
  /\ Over(r)
  /\ UNCHANGED <<today, uploaded, posted, cards, shown, recapGhosts, invoked, recapFaults>>

(* The invocation ends where it stands: the 60 s timeout, an error of an   *)
(* upstream, a read timeout on a request Discord may have served, or a     *)
(* record that could not be written, which recap_night only logs.          *)
RecapEnds(r) ==
  LET t == run[r] n == t.night IN
  /\ Busy(r) /\ Fault
  /\ \/ UNCHANGED <<cards, doubt, shown>>
     \/ /\ At(r, "post") /\ Stored(n, 1)
        /\ doubt' = [doubt EXCEPT ![n] = @ + 1] /\ UNCHANGED shown
     \/ /\ At(r, "edit") /\ shown' = [shown EXCEPT ![n] = Redrawn(t)]
        /\ UNCHANGED <<cards, doubt>>
  /\ unrecorded' = IF t.at \in {"edit", "before", "write"} THEN unrecorded \cup {n}
                   ELSE unrecorded
  /\ Over(r)
  /\ UNCHANGED <<today, uploaded, posted, record, sure, told, looks, raced, invoked>>

-----------------------------------------------------------------------------
RecapStepOf(r) ==
  \/ Claim(r) \/ Draw(r) \/ Post(r) \/ PostFailed(r) \/ Release(r)
  \/ Look(r) \/ OutOfPoints(r) \/ ReadEarlier(r) \/ NoCard(r) \/ Edit(r) \/ EditFailed(r)
  \/ ReadBefore(r) \/ Remember(r) \/ MarkRechecked(r)

RecapStarts(r, n) ==
  \/ \E kind \in Posting : StartRecap(r, n, kind)
  \/ StartRecheck(r, n)
  \/ \E named \in (SUBSET Uploader) \ {{}} : StartHand(r, n, named)

RecapNext ==
  \/ NextDay
  \/ \E n \in Night, u \in Uploader : Upload(n, u)
  \/ \E r \in RecapRun : RecapStepOf(r) \/ RecapEnds(r) \/ \E n \in Night : RecapStarts(r, n)

RecapSpec == RecapInit /\ [][RecapNext]_recapVars

-----------------------------------------------------------------------------
(* Properties *)

(* README.md:436 "corrected by hand, never reposted", and one card a night *)
(* whatever overlaps, retries or dies: more than one only for a request    *)
(* Discord served without an answer.                                       *)
OneRecap == \A n \in Night : cards[n] <= 1 + doubt[n]

(* handler.py:3394 "a second correction must not quietly erase what the    *)
(* first one admitted": what a confirmed correction told stays on the      *)
(* card, unless two invocations met on the night or a correction's record  *)
(* was lost, which are the two ways it can go.                             *)
NotesKept ==
  \A n \in Night \ (raced \cup unrecorded) : told[n] \subseteq shown[n].notes

(* handler.py:2963 "each posted night gets exactly one second look": a     *)
(* night is corrected by a recheck at most once under the same conditions, *)
(* though a person may revise it, and the recheck fail, in between.        *)
SecondLookOnce == \A n \in Night \ (raced \cup unrecorded) : looks[n] <= 1
=============================================================================
