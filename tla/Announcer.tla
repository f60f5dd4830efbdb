------------------------------ MODULE Announcer ------------------------------
(***************************************************************************)
(* The poll of src/handler.py for one install, one tier and one difficulty *)
(* other than Heroic's clear (whose outbox is AotcOutbox.tla): seed, claim,*)
(* post, release, and the clear card.  Several invocations overlap:        *)
(* scripts/deploy.sh:105 removed the concurrency cap and leaves safety to  *)
(* the conditional writes of src/store.py.                                 *)
(*                                                                         *)
(* A key is a boss's normalised name, or Clear for the tier's clear flag;  *)
(* the two are a string set and a boolean of ONE DynamoDB row, and their   *)
(* claim, post and release are the same code twice.  A poll is a process   *)
(* that runs, returns to "idle" and may be invoked again.                  *)
(***************************************************************************)
EXTENDS Integers, FiniteSets, Sequences

CONSTANTS
  Boss,             \* the bosses of the tier
  Order,            \* Raider.IO's published encounter list, a sequence of Boss
  Clear,            \* the key of the tier-clear card
  Poll,             \* Lambda invocations that may overlap
  MaxAttempts,      \* MAX_ATTEMPTS of src/discord.py
  MaxFaults,        \* BOUND: failed posts and crashed polls in one behaviour
  Team,             \* a team install: Raider.IO's count describes the guild
  SuppressClear,    \* suppress_existing_aotc of the install's configuration
  Partial           \* the log history may miss kills (private, capped, filtered)

Key == Boss \cup {Clear}
Total == Cardinality(Boss)
Unlisted == -1      \* progress_for answers (None, None): no such tier yet

ASSUME BossAssumption == IsFiniteSet(Boss) /\ Clear \notin Boss
ASSUME OrderAssumption == Order \in [1..Total -> Boss]
ASSUME AttemptsAssumption == MaxAttempts \in Nat \ {0}
ASSUME FlagAssumption ==
  /\ MaxFaults \in Nat
  /\ Team \in BOOLEAN
  /\ SuppressClear \in BOOLEAN
  /\ Partial \in BOOLEAN

VARIABLES
  dead,             \* the bosses this guild has killed
  recent,           \* those with a kill inside the lookback window
  older,            \* those with a kill from before the window
  listed,           \* Raider.IO lists the tier in raid_progression
  marked,           \* the BOOTSTRAP marker exists
  row,              \* the ANNOUNCED row exists
  claims,           \* its announced set, and Clear for aotcAnnounced
  seedSize,         \* written once, with the row
  baseline,         \* written once, with the row
  cards,            \* [Key -> Nat]: copies of each card in the channel
  count,            \* the "n of total" of the newest kill card, 0 before any
  pc,               \* [Poll -> Step]: where each invocation stands
  rio,              \* Raider.IO's kill count in the profile a poll fetched
  found,            \* the bosses with kills the poll fetched
  past,             \* bosses killed before the window as this poll dates it
  plan,             \* what the poll decided to seed
  mine,             \* its local `state`: announced set and clear flag
  todo,             \* kills of `found` not looked at yet
  cur,              \* the key it claimed and is posting
  tries,            \* attempts made on that post
  seeded,           \* history: keys the seed wrote
  backlog,          \* history: bosses dead before the seeding poll's window
  landed,           \* history: keys with a card whose sender got the answer
  doubt,            \* history: copies stored whose sender never learned it
  lost,             \* history: keys whose poll ended while posting them
  faults            \* failures so far, against MaxFaults

world == <<dead, recent, older, listed>>
store == <<marked, row, claims, seedSize, baseline>>
channel == <<cards, count>>
locals == <<rio, found, past, plan, mine, todo, cur, tries>>
ghosts == <<seeded, backlog, landed, doubt, lost>>
vars == <<world, store, channel, pc, locals, ghosts, faults>>

Step == {"idle", "boot", "load", "fresh", "seed", "mark", "reload", "kills",
         "post", "release"}

NoPlan == [names |-> {}, base |-> 0, clear |-> FALSE, then |-> "idle"]
Plan == [names : SUBSET Boss, base : Nat, clear : BOOLEAN,
         then : {"idle", "mark", "reload"}]

TypeOK ==
  /\ dead \subseteq Boss /\ recent \subseteq dead /\ older \subseteq dead
  /\ listed \in BOOLEAN /\ marked \in BOOLEAN /\ row \in BOOLEAN
  /\ claims \subseteq Key /\ seedSize \in Nat /\ baseline \in Nat
  /\ cards \in [Key -> Nat] /\ count \in Nat
  /\ pc \in [Poll -> Step]
  /\ rio \in [Poll -> Nat \cup {Unlisted}]
  /\ found \in [Poll -> SUBSET Boss] /\ past \in [Poll -> SUBSET Boss]
  /\ plan \in [Poll -> Plan]
  /\ mine \in [Poll -> SUBSET Key] /\ todo \in [Poll -> SUBSET Boss]
  /\ cur \in [Poll -> Key] /\ tries \in [Poll -> 0..MaxAttempts]
  /\ seeded \subseteq Key /\ backlog \subseteq Boss /\ landed \subseteq Key
  /\ lost \subseteq Key
  /\ doubt \in [Key -> Nat] /\ faults \in 0..MaxFaults

Init ==
  /\ dead = {} /\ recent = {} /\ older = {}
  /\ listed = FALSE /\ marked = FALSE /\ row = FALSE
  /\ claims = {} /\ seedSize = 0 /\ baseline = 0
  /\ cards = [k \in Key |-> 0] /\ count = 0
  /\ pc = [p \in Poll |-> "idle"]
  /\ rio = [p \in Poll |-> 0]
  /\ found = [p \in Poll |-> {}] /\ past = [p \in Poll |-> {}]
  /\ plan = [p \in Poll |-> NoPlan]
  /\ mine = [p \in Poll |-> {}] /\ todo = [p \in Poll |-> {}]
  /\ cur = [p \in Poll |-> Clear] /\ tries = [p \in Poll |-> 0]
  /\ seeded = {} /\ backlog = {} /\ landed = {} /\ lost = {}
  /\ doubt = [k \in Key |-> 0] /\ faults = 0

-----------------------------------------------------------------------------
(* Operators on numbers and bosses *)

Larger(a, b) == IF a >= b THEN a ELSE b
Smaller(a, b) == IF a <= b THEN a ELSE b

(* raiderio.seed_names: history, filled from the published order by count. *)
(* A team passes killed = None and is seeded from history alone.           *)
SeedNames(killed, history) ==
  IF ~Team /\ killed >= Total THEN Boss
  ELSE IF ~Team /\ killed > Cardinality(history)
       THEN history \cup {Order[i] : i \in 1..killed}
       ELSE history

(* A variant: the seeded bosses counted a second time. *)
ProgressCountTwice(known, killed) ==
  Smaller(Total, Larger(killed, baseline + Cardinality(known \cap Boss)))

(* store.progress_count over a poll's local state. *)
ProgressCount(known, killed) ==
  LET since == Larger(0, Cardinality(known \cap Boss) - seedSize)
  IN  Smaller(Total, Larger(killed, baseline + since))

Visible(h) == IF Partial THEN h \subseteq dead ELSE h = dead

-----------------------------------------------------------------------------
(* The world the poll observes: the guild raids, kills leave the window,   *)
(* farm nights bring them back, Raider.IO starts listing the tier.         *)

ListTier ==
  /\ ~listed /\ listed' = TRUE
  /\ UNCHANGED <<dead, recent, older, store, channel, pc, locals, ghosts, faults>>

Raid(b) ==
  /\ b \notin recent
  /\ dead' = dead \cup {b}
  /\ recent' = recent \cup {b}
  /\ UNCHANGED <<older, listed, store, channel, pc, locals, ghosts, faults>>

Age(b) ==
  /\ b \in recent
  /\ recent' = recent \ {b}
  /\ older' = older \cup {b}
  /\ UNCHANGED <<dead, listed, store, channel, pc, locals, ghosts, faults>>

-----------------------------------------------------------------------------
(* One invocation.  Every step between two touches of shared state is one  *)
(* action.                                                                 *)

Goto(p, s) == pc' = [pc EXCEPT ![p] = s]

(* The end of this tier's part of the poll: locals go with the invocation. *)
Leave(p) ==
  /\ Goto(p, "idle")
  /\ rio' = [rio EXCEPT ![p] = 0]
  /\ found' = [found EXCEPT ![p] = {}]
  /\ past' = [past EXCEPT ![p] = {}]
  /\ plan' = [plan EXCEPT ![p] = NoPlan]
  /\ mine' = [mine EXCEPT ![p] = {}]
  /\ todo' = [todo EXCEPT ![p] = {}]
  /\ cur' = [cur EXCEPT ![p] = Clear]
  /\ tries' = [tries EXCEPT ![p] = 0]

(* A variant: the marker never asked for. *)
BootstrappedAssumed == TRUE

(* is_bootstrapped *)
Bootstrapped == marked

(* poll_one up to the kills: the profile, the BOOTSTRAP marker and, when it *)
(* is there, the kills of the window.  A poll that finds none changes       *)
(* nothing here.  Raider.IO lags: its count is anything up to the truth,    *)
(* and a team never reads it (team_progress).                               *)
Start(p) ==
  /\ pc[p] = "idle"
  /\ Bootstrapped => (listed /\ recent # {})
  /\ \E n \in IF Team THEN {0} ELSE 0..Cardinality(dead) :
       rio' = [rio EXCEPT ![p] = IF listed THEN n ELSE Unlisted]
  /\ found' = [found EXCEPT ![p] = IF Bootstrapped THEN recent ELSE {}]
  /\ past' = [past EXCEPT ![p] = older]
  /\ Goto(p, IF Bootstrapped THEN "load" ELSE "boot")
  /\ UNCHANGED <<world, store, channel, plan, mine, todo, cur, tries, ghosts, faults>>

(* bootstrap: a tier Raider.IO does not list is not seeded here. *)
BootSkip(p) ==
  /\ pc[p] = "boot" /\ rio[p] = Unlisted
  /\ Goto(p, "mark")
  /\ UNCHANGED <<world, store, channel, locals, ghosts, faults>>

(* bootstrap: history and Raider.IO's count decide what is already dead. *)
BootPlan(p) ==
  /\ pc[p] = "boot" /\ rio[p] # Unlisted
  /\ \E h \in SUBSET Boss :
       LET names == SeedNames(rio[p], h)
           done == IF Team THEN Cardinality(names) ELSE rio[p]
       IN  /\ Visible(h)
           /\ plan' = [plan EXCEPT ![p] =
                [names |-> names,
                 base |-> Larger(Smaller(done, Total), Cardinality(names)),
                 clear |-> SuppressClear \/ done >= Total,
                 then |-> "mark"]]
  /\ Goto(p, "seed")
  /\ UNCHANGED <<world, store, channel, rio, found, past, mine, todo, cur, tries, ghosts, faults>>

(* A variant: every unseen tier taken for a rollover. *)
SilentNever(p, h) == FALSE

(* A gap in coverage, rather than a rollover: history older than the window. *)
Silent(p, h) == h \cap past[p] # {}

(* seed_new_tier: a slug first seen after bootstrap.  Silent when any of its *)
(* history predates the window; otherwise the row starts empty.             *)
NewTierPlan(p) ==
  /\ pc[p] = "fresh"
  /\ \E h \in SUBSET Boss :
       LET silent == Silent(p, h)
           names == IF silent THEN h ELSE {}
           killed == IF Team THEN Cardinality(names) ELSE rio[p]
       IN  /\ Visible(h)
           /\ plan' = [plan EXCEPT ![p] =
                [names |-> names,
                 base |-> Larger(IF silent THEN killed ELSE 0, Cardinality(names)),
                 clear |-> killed >= Total,
                 then |-> IF silent THEN "idle" ELSE "reload"]]
  /\ Goto(p, "seed")
  /\ UNCHANGED <<world, store, channel, rio, found, past, mine, todo, cur, tries, ghosts, faults>>

WriteSeed(p) ==
  /\ row' = TRUE
  /\ claims' = plan[p].names \cup (IF plan[p].clear THEN {Clear} ELSE {})
  /\ seedSize' = Cardinality(plan[p].names)
  /\ baseline' = plan[p].base
  /\ seeded' = claims'
  /\ backlog' = past[p]

(* seed_tier's conditional put of the ANNOUNCED row: the loser of a race   *)
(* changes nothing and goes on with the winner's row.                      *)
PutSeed(p) ==
  \/ ~row /\ WriteSeed(p)
  \/ row /\ UNCHANGED <<row, claims, seedSize, baseline, seeded, backlog>>

Seed(p) ==
  /\ pc[p] = "seed"
  /\ PutSeed(p)
  /\ IF plan[p].then = "idle" THEN Leave(p)
     ELSE Goto(p, plan[p].then) /\ UNCHANGED locals
  /\ UNCHANGED <<world, marked, channel, landed, doubt, lost, faults>>

(* mark_bootstrapped, after the last tier: the run posts nothing. *)
Mark(p) ==
  /\ pc[p] = "mark"
  /\ marked' = TRUE
  /\ Leave(p)
  /\ UNCHANGED <<world, row, claims, seedSize, baseline, channel, ghosts, faults>>

(* load_tier, before and after a rollover's seed.  What the poll has no    *)
(* further use for is dropped.                                             *)
Adopt(p) ==
  /\ mine' = [mine EXCEPT ![p] = claims]
  /\ todo' = [todo EXCEPT ![p] = found[p]]
  /\ found' = [found EXCEPT ![p] = {}]
  /\ past' = [past EXCEPT ![p] = {}]
  /\ plan' = [plan EXCEPT ![p] = NoPlan]
  /\ Goto(p, "kills")
  /\ UNCHANGED <<rio, cur, tries>>

LoadTier(p) ==
  /\ pc[p] = "load"
  /\ IF row THEN Adopt(p) ELSE Goto(p, "fresh") /\ UNCHANGED locals
  /\ UNCHANGED <<world, store, channel, ghosts, faults>>

Reload(p) ==
  /\ pc[p] = "reload"
  /\ Adopt(p)
  /\ UNCHANGED <<world, store, channel, ghosts, faults>>

(* A variant: the ADD without its condition. *)
TakeClaimUnchecked(p, k) ==
  /\ row
  /\ claims' = claims \cup {k}
  /\ mine' = [mine EXCEPT ![p] = @ \cup {k}]
  /\ cur' = [cur EXCEPT ![p] = k]
  /\ tries' = [tries EXCEPT ![p] = 0]
  /\ Goto(p, "post")
  /\ UNCHANGED <<marked, row, seedSize, baseline>>

(* The conditional ADD of claim_boss, or the conditional SET of claim_aotc. *)
TakeClaim(p, k) ==
  /\ row /\ k \notin claims
  /\ claims' = claims \cup {k}
  /\ mine' = [mine EXCEPT ![p] = @ \cup {k}]
  /\ cur' = [cur EXCEPT ![p] = k]
  /\ tries' = [tries EXCEPT ![p] = 0]
  /\ Goto(p, "post")
  /\ UNCHANGED <<marked, row, seedSize, baseline>>

(* announce_kill, the claim won. *)
ClaimKill(p, b) ==
  /\ pc[p] = "kills" /\ b \in todo[p]
  /\ TakeClaim(p, b)
  /\ todo' = [todo EXCEPT ![p] = @ \ {b}]
  /\ UNCHANGED <<world, channel, rio, found, past, plan, ghosts, faults>>

(* announce_kill, the claim lost: "which is the correct answer, not an     *)
(* error".  The local state does not learn of the other poll's boss.       *)
SkipKill(p, b) ==
  /\ pc[p] = "kills" /\ b \in todo[p] /\ b \in claims
  /\ todo' = [todo EXCEPT ![p] = @ \ {b}]
  /\ UNCHANGED <<world, store, channel, pc, rio, found, past, plan, mine, cur, tries, ghosts, faults>>

(* announce_difficulty after the kills: a full tier that is not a world    *)
(* boss and is not known to be celebrated.                                 *)
FullClear(p) ==
  /\ Total > 1
  /\ ProgressCount(mine[p], rio[p]) >= Total
  /\ Clear \notin mine[p]

ClaimClear(p) ==
  /\ pc[p] = "kills" /\ todo[p] = {} /\ FullClear(p)
  /\ TakeClaim(p, Clear)
  /\ UNCHANGED <<world, channel, rio, found, past, plan, todo, ghosts, faults>>

Finish(p) ==
  /\ pc[p] = "kills" /\ todo[p] = {}
  /\ FullClear(p) => Clear \in claims
  /\ Leave(p)
  /\ UNCHANGED <<world, store, channel, ghosts, faults>>

-----------------------------------------------------------------------------
(* The post: discord._post_raw makes up to MaxAttempts attempts. *)

(* A poll that holds a claim it has neither settled nor handed back. *)
Posting(p) == pc[p] \in {"post", "release"}

AfterPost(p) ==
  IF cur[p] = Clear THEN Leave(p)
  ELSE /\ Goto(p, "kills")
       /\ cur' = [cur EXCEPT ![p] = Clear]
       /\ tries' = [tries EXCEPT ![p] = 0]
       /\ UNCHANGED <<rio, found, past, plan, mine, todo>>

(* Discord stores the message; a kill card says "n of total". *)
Store(p) ==
  /\ cards' = [cards EXCEPT ![cur[p]] = @ + 1]
  /\ count' = IF cur[p] = Clear THEN count
              ELSE ProgressCount(mine[p], rio[p])

Fault == faults < MaxFaults /\ faults' = faults + 1

(* A 2xx answer. *)
Posted(p) ==
  /\ pc[p] = "post"
  /\ Store(p)
  /\ landed' = landed \cup {cur[p]}
  /\ AfterPost(p)
  /\ UNCHANGED <<world, store, seeded, backlog, doubt, lost, faults>>

(* A variant: the refused claim never handed back. *)
RefusedKept(p) ==
  /\ pc[p] = "post" /\ Fault
  /\ AfterPost(p)
  /\ UNCHANGED <<world, store, channel, ghosts>>

(* A 4xx other than 429: DiscordError at once, nothing stored. *)
Refused(p) ==
  /\ pc[p] = "post" /\ Fault
  /\ Goto(p, "release")
  /\ UNCHANGED <<world, store, channel, locals, ghosts>>

(* Discord may have stored a request whose answer never arrived. *)
MaybeStored(p) ==
  \/ UNCHANGED <<channel, doubt>>
  \/ /\ Store(p)
     /\ doubt' = [doubt EXCEPT ![cur[p]] = @ + 1]

(* A variant: one attempt too many. *)
RetryOnceMore(p) ==
  /\ pc[p] = "post" /\ Fault
  /\ MaybeStored(p)
  /\ tries' = [tries EXCEPT ![p] = @ + 1]
  /\ Goto(p, IF tries[p] < MaxAttempts THEN "post" ELSE "release")
  /\ UNCHANGED <<world, store, rio, found, past, plan, mine, todo, cur, seeded, backlog, landed, lost>>

(* 429, 5xx or a network error: another attempt, or DiscordError at the    *)
(* last one.                                                               *)
Retry(p) ==
  /\ pc[p] = "post" /\ Fault
  /\ MaybeStored(p)
  /\ tries' = [tries EXCEPT ![p] = @ + 1]
  /\ Goto(p, IF tries[p] + 1 < MaxAttempts THEN "post" ELSE "release")
  /\ UNCHANGED <<world, store, rio, found, past, plan, mine, todo, cur, seeded, backlog, landed, lost>>

(* A variant: everything the poll knows of handed back. *)
ReleasedAll(p) == mine[p]

(* The members the unconditional DELETE takes out of the set. *)
Released(p) == {cur[p]}

(* release_boss or release_aotc: the next poll may try again. *)
Release(p) ==
  /\ pc[p] = "release"
  /\ claims' = claims \ Released(p)
  /\ IF cur[p] = Clear THEN Leave(p)
     ELSE /\ mine' = [mine EXCEPT ![p] = @ \ {cur[p]}]
          /\ cur' = [cur EXCEPT ![p] = Clear]
          /\ tries' = [tries EXCEPT ![p] = 0]
          /\ Goto(p, "kills")
          /\ UNCHANGED <<rio, found, past, plan, todo>>
  /\ UNCHANGED <<world, marked, row, seedSize, baseline, channel, ghosts, faults>>

(* The invocation ends early: the Lambda's timeout, an upstream error, or a *)
(* read timeout on the post, which is not a DiscordError and so releases    *)
(* nothing.  A request in flight may have been stored.                      *)
Crash(p) ==
  /\ pc[p] # "idle" /\ Fault
  /\ IF pc[p] = "post" THEN MaybeStored(p) ELSE UNCHANGED <<channel, doubt>>
  /\ lost' = IF Posting(p) THEN lost \cup {cur[p]} ELSE lost
  /\ Leave(p)
  /\ UNCHANGED <<world, store, seeded, backlog, landed>>

-----------------------------------------------------------------------------
PollStep(p) ==
  \/ Start(p) \/ BootSkip(p) \/ BootPlan(p) \/ NewTierPlan(p) \/ Seed(p)
  \/ Mark(p) \/ LoadTier(p) \/ Reload(p)
  \/ \E b \in Boss : ClaimKill(p, b) \/ SkipKill(p, b)
  \/ ClaimClear(p) \/ Finish(p)
  \/ Posted(p) \/ Refused(p) \/ Retry(p) \/ Release(p)

World == ListTier \/ \E b \in Boss : Raid(b) \/ Age(b)

Next == World \/ \E p \in Poll : PollStep(p) \/ Crash(p)

Spec == Init /\ [][Next]_vars

(* EventBridge keeps invoking the function and a started invocation keeps  *)
(* running until it returns, crashes or is killed; nothing makes the guild *)
(* raid.                                                                   *)
FairSpec == Spec /\ \A p \in Poll : WF_vars(PollStep(p))

-----------------------------------------------------------------------------
(* Properties *)

(* README.md:57 "announced on its first kill and never again", as far as   *)
(* the code can keep it: besides the copies Discord stored without saying  *)
(* so, a key has at most one card, however polls overlap, fail or crash.   *)
OneCard == \A k \in Key : cards[k] <= 1 + doubt[k]

(* A card whose sender got the answer keeps its claim: release never takes *)
(* back a boss that was announced, so no later poll can announce it again. *)
LandedStaysClaimed == landed \subseteq claims

(* README.md:84 "a mid-tier deploy announces nothing": no key that the     *)
(* seed recorded is ever posted, whichever racing poll wrote the seed.     *)
SeededSilent == \A k \in seeded : cards[k] = 0

(* The back catalogue stays silent: a boss that was dead before the window *)
(* of the poll that seeded the tier never gets a kill card.                *)
BacklogSilent == \A b \in backlog : cards[b] = 0

(* No two invocations post or release the same key, so release_boss, an    *)
(* unconditional DELETE, only ever undoes its caller's own claim.          *)
OwnClaim ==
  \A p \in Poll : Posting(p) =>
    /\ cur[p] \in claims \ seeded
    /\ \A q \in Poll \ {p} : Posting(q) => cur[q] # cur[p]

(* "They are now n of total" and the clear card never run ahead of the     *)
(* guild, although the count comes from claims that may yet be released.   *)
CountIsTrue ==
  /\ count <= Cardinality(dead)
  /\ cards[Clear] > 0 => dead = Boss

(* Polls never post before the install was bootstrapped. *)
QuietUntilMarked == [][cards' # cards => marked]_vars

(* README.md:78 "a missed announcement is recoverable on the next poll": a  *)
(* boss handed back after a failed post is claimed again while its kill is  *)
(* in the window.                                                           *)
HandedBack(b) == row /\ b \in recent /\ b \notin claims
ReleasedIsRetried ==
  \A b \in Boss : HandedBack(b) ~> (b \in claims \/ b \notin recent)

(* ... and with finitely many failures it is announced, unless a crash kept *)
(* its claim.                                                               *)
ReleasedIsAnnounced ==
  \A b \in Boss :
    HandedBack(b) ~> (b \in landed \/ b \in lost \/ b \notin recent)

(* README.md:57 "announced on its first Heroic kill and never again", read  *)
(* without exception.  The code does not keep it: an attempt that Discord   *)
(* stored and answered with a 5xx, or not at all, is made again.            *)
NeverAgain == \A k \in Key : cards[k] <= 1

(* README.md:78 "a missed announcement is recoverable on the next poll",    *)
(* read without exception.  A poll that ends between claim and post leaves  *)
(* the claim, and every later poll skips the boss.                          *)
Missed(b) == b \in lost \ landed /\ cards[b] = 0
MissedIsRecovered ==
  \A b \in Boss : (Missed(b) /\ b \in recent) ~> (cards[b] > 0 \/ b \notin recent)

(* src/handler.py:585 "Raider.IO's count is deliberately not used to seed   *)
(* here": a rollover that seeds no boss leaves the clear to be earned.  The *)
(* code presets the flag from that very count.                              *)
RolloverEarnsItsClear ==
  (row /\ ~SuppressClear /\ seeded \cap Boss = {}) => Clear \notin seeded

(* The detailed announcer implements the promise of FirstKill. *)
status ==
  [k \in Key |-> IF k \in seeded THEN "prior"
                 ELSE IF k \in landed THEN "done"
                 ELSE IF k \in claims THEN "held" ELSE "open"]
Promise == INSTANCE FirstKill
PromiseKept == Promise!Spec
=============================================================================
