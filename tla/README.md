# greyBot in TLA+

greyBot announces a guild's raid kills, clears, recaps and records on Discord
(`src/`, one AWS Lambda behind several schedules) and runs a moderation and
community service beside it (`control/`, a Discord gateway worker, a SQLite
journal and a website). This directory holds TLA+ models of the parts where
several actors share state, the TLC configurations that check them on small
instances, and TLAPS proofs that hold for every instance.

The rule the bot is built around (repository `README.md:57`) is that a boss is
announced on its first kill and never again, and that a mid-tier deploy
announces nothing. The models ask how far the code keeps that rule, and the
promises its other parts make, when invocations overlap, posts fail, answers
get lost and processes die.

## 1. Inventory

### The poll (`src/`)

EventBridge invokes one Lambda function every fifteen minutes and for the
recap, vault, glory and Mythic+ schedules; Discord invokes it for slash
commands. `handler` polls every registered install in turn (`poll_one`). All
durable state is in one DynamoDB table, written through `store.py`; two
invocations may overlap (`scripts/deploy.sh:105`), so safety rests on
conditional writes.

| component | state | operations | hard behaviour | what makes it correct |
|---|---|---|---|---|
| announcer | BOOTSTRAP marker; ANNOUNCED row per tier and difficulty: `announced`, `seedSize`, `baseline`, `aotcAnnounced` | `bootstrap`, `seed_new_tier`, `announce_kill`, `announce_aotc`, claim, release | overlapping polls, retried posts, death between claim and post, lagging Raider.IO, kills leaving the window | one card per key, seeded keys silent, release undoes only one's own claim, handed-back bosses retried, counts never ahead of the guild |
| Heroic clear outbox | `aotcEvent`, `aotcPayload`, and per target status, owner, lease in the same row | `claim_aotc`, `claim_aotc_delivery`, `finish_aotc_delivery`, `deliver_aotc_event`, `retry_aotc_events` | lease takeover, unknown HTTP outcome, late verdicts, group before General | at most one copy per channel, same card, fencing, eventual delivery |
| boss names and attribution | `static_raids` cached per container | `find_boss`, `live_at`, `resolve_raid`, `seed_names`, `alias_match` | two spellings, a boss's name beginning as another's, a load that failed | no kill attributed to a wrong tier; no boss silenced by another |
| posted-message log | a list of the newest posts | `record_post` (an atomic append), `forget_post` (reads the list and writes it back), `posts_probe` | two checks forget at once, a post appended in between | what was posted stays tracked until it was found missing |
| roster | ROSTER and FIRST_KILL rows | `record_first_kill`, seed, backfill, `derive_roster`, `prog_roster`, `resolve_team` | two teams file into one guild, a roster derived too early | a roster of raiders, not of fill-ins |
| nightly recap | RECAP claim and post record | `recap_night`, `recap_recheck`, hand corrections, `fuller_logs` | claim lost on an exception, logs that grow, read-modify-write of the record | one recap a night, corrections stay on the card |
| figures of a night | none | reads of tables and pages, sums over logs | split nights, actor numbers per log, pages | a figure counts what the raid did, for the person who did it |
| roll call, vault digest | a claim row each, pending review | `rollcall.run`, `settle_rollcall_pending`, `vault_week` | the same claim protocol with other failure paths | one post per night and per week |
| vault evidence | one row per character and week, with a revision | `reconcile`, `merge`, the collector's three sources | optimistic writes, repeated keys, late providers | evidence only grows, no key counted twice |
| glory | PROGRESS and claim rows | `glory_check`, `glory_one` | overlapping checks, signatures of what was seen | one card per achievement, none overlooked |
| Mythic+ records | queue, cursor, board, claims | collector, `mplus_records`, `mplus_record_board` | leases, a death between two rows, a pin that fails | each record announced once, every run counted |
| alerts | health, source and failure streaks | `run_health_check`, `run_source_check`, `run_poll_failure_check` | unconditional writes by overlapping polls | lasting trouble is mailed |
| commands | snapshot, poll state | `handle_interaction`, `handle_followup`, `/setup`, `/progress`, `/poll` | three seconds, asynchronous retries, stale snapshots | an answer is about the server and guild it was asked for |
| configuration and tenants | CONFIG, REGISTRY rows, SSM | `put_config`, `register_tenant`, fan-out, `migrate-to-tenants.py` | re-pointing an install, one failing tenant, a move that dies | what was dead at setup stays silent, everyone is polled, no row is lost |
| Warcraft Logs grant | one SSM parameter, tokens in containers | `renew_wcl_user_auth`, `wcl.query` | refresh tokens that can be spent once | a working grant is not replaced by a spent one |
| cards and pages, upstream clients, low parse report | none shared | drawing, HTTP | lag, partial answers | upstream answers are nondeterministic inputs; drawing is not modelled |

### The control service (`control/greybot_control/`)

One worker process (a file lock keeps it single) reads gateway events into a
SQLite journal, runs queued jobs one at a time and drives several outboxes; the
website queues jobs and edits raids concurrently.

| component | state | operations | hard behaviour | what makes it correct |
|---|---|---|---|---|
| job queue, mutes, automod | jobs, persistent mutes, infractions, journal | queue, claim, finish; apply, release, reconcile; detect | crash in a job, write from a stale snapshot, detection racing a release | archived before written, prior permissions restored, never run twice |
| journal and archive | events, receipts, batches | `receive`, `append`, `flush`, `claim_job` | a crash between object and receipt | no action before what preceded it is archived |
| feed dispatch, anniversaries | cursor, delivery rows | `tick` | crash between HTTP and verdict | at most once per channel |
| raids | events with revision, delivery outbox | `mutate`, `deliver_one` | compare-and-set, stale delivery | one card that ends at the last revision |
| log routing, featured posts | an outbox each | `tick` | copy and remove, votes taken back | a report is never nowhere, one featured card |
| voice clips | capture rows, audio files | reserve, publish, discard, sweep | crash between file and row | one sound per clip |
| listening sessions | per account: channel, notice, attempts | `/clip`, Stop, ticks | lost connections, restarts | nobody recorded without notice; Stop is final |
| onboarding gate | the server's overwrites | plan, check, write, confirm | a partial cutover, edits in between | nobody present is locked out |
| verification, roles, hidden channels | challenges, choices | challenge, click, toggle | leaving and rejoining, resent clicks | a role is earned, a click acts once |
| website | sessions, settings revision, action ids | sign-in, `save_settings`, `action`, `member_roles` | lost answers, concurrent admins | no settings replaced unseen, a click once per member |
| local capture (`integrations/`) | `events.jsonl`, `discord.db`, index | append, ingest, rotate, index | rotation while lines are written | no line or change lost |
| readers, directory, activity | none of their own | views | | not modelled |

## 2. Modules

| module | role |
|---|---|
| `FirstKill` | abstract: each card of a tier is open, prior, held or done; done is final; a second copy only by an unconfirmed delivery |
| `Announcer`, `MCAnnouncer` | the poll for one install, tier and difficulty; refines `FirstKill`; its instance for TLC |
| `AtMostOnce` | abstract: a message is sent again only when its last attempt stored nothing; refined by `AotcOutbox`, `Feed` and `OneAttempt` |
| `AotcOutbox` | the Heroic clear's delivery |
| `Mutes` | the job queue, mutes, automatic mutes and reconciliation for one member |
| `Recap`, `OneAttempt`, `Glory` | the nightly recap; roll call and vault digest; the raid meta achievement |
| `Scheduled`, `MCScheduled` | composes those three; its instance |
| `Raids`, `Feed`, `Reposts`, `VoiceClips`, `Alerts` | signup cards; feed and anniversaries; moved reports and featured posts; saved clips; the operator's e-mails |
| `Background` | composes those five |
| `Installs`, `Listening`, `Mythic` | configuration, registration and fan-out; voice accounts' sessions; Mythic+ collection and records |
| `Rounds` | composes those three, with the fairness of what must come round |
| `Gate`, `Members`, `Journal`, `LocalLog` | onboarding cutover; verification, roles, hidden channels; journal and archive; local capture |
| `Vault`, `Roster`, `WclAuth`, `Figures`, `Attribution`, `TrackedPosts` | what the bot keeps: vault evidence, roster, Warcraft Logs grant, a night's figures, raid of a kill, posted messages |
| `Website`, `Commands`, `Migration` | sign-in, settings and actions; slash commands; the move to tenant rows |
| `Services` | composes those thirteen and `Listening` |
| `AnnouncerProofs`, `MutesProofs`, `ScheduledProofs`, `WorkerProofs` | theorems about `Announcer`, `Mutes`, `Scheduled`, `Background` |
| `OnceProofs` | theorems about `AotcOutbox`, and about `Installs` and `Mythic` as `Rounds` composes them |
| `KeptProofs` | theorems about `Listening`, `Gate`, `Members`, `Journal`, `LocalLog`, `Roster`, `WclAuth`, `Migration`, `TrackedPosts`, `Vault` |
| `AskedProofs` | theorems about `Website`, `Commands`, `Attribution`, `Figures` |
| `ServicesProofs` | what those two prove holds of `Services` |

Operators whose comment begins "A variant" are not part of a specification:
each is a definition as a plausible bug would have it, and a property fails
when it takes the definition's place. `PROJECT.json` names one for every
property of every run; where a property is a conjunction (`PostedOnce`,
`ListeningPromise`, `KeepingPromise`, ...), the modules hold a variant for each
of its conjuncts, and each conjunct was seen violated by its own.

A component's state is named after the rows and objects of the code, and its
actions after the functions, one action for what happens between two touches
of shared state (a DynamoDB or SQLite write, an HTTP request, an await). What a
process holds between two actions is a record `run[...]`, `poll[...]`,
`work` or the like with a step counter `pc`; "dies" actions drop it at any step.

### `Announcer`

A *key* is a boss or the tier clear: the code claims, posts and releases both
in the same way, on a string set and on a flag of one row. A *poll* is a
process. Between two touches of shared state (a DynamoDB call, a Discord
attempt, the upstream reads at the start) a poll takes one action:

| code | actions |
|---|---|
| `poll_one` up to the kills | `Start` (profile, marker and the window's kills) |
| `bootstrap` | `BootSkip` / `BootPlan`, `Seed`, `Mark` |
| `announce_difficulty` | `LoadTier`, `NewTierPlan`, `Seed`, `Reload`, `Finish` |
| `announce_kill` | `ClaimKill`, `SkipKill`, then the post |
| `announce_aotc` (claim, post, release) | `ClaimClear`, then the post |
| `discord._post_raw` | `Posted`, `Refused`, `Retry` |
| `release_boss`, `release_aotc` | `Release` |
| Lambda timeout, exception, read timeout | `Crash` |

The guild raids (`Raid`), kills leave the lookback window (`Age`), farm nights
bring them back, and Raider.IO starts to list the tier (`ListTier`) at any
time. Raider.IO's count is any number up to the truth. The history a seed reads
is the truth, or with `Partial` any part of it. `seeded`, `backlog`, `landed`,
`doubt` and `lost` are history variables, read by properties only.

Abstractions: bosses are identities, so `normalize`, `resolve_raid` and the
`alias_match` guard (which may only decline a kill) are left out; the
`is_active_raid` filter drops a tier before these steps; a world boss is a tier
of one boss; 429 is one of the outcomes of `Retry`, which may store the message
and so over-approximates it; a clear's card and its channel are Heroic's
business in `AotcOutbox`; a missing encounter list behaves as a team's seed,
from history alone.

### `AotcOutbox`

`claim_aotc` sets the flag and records an event in one write; each of the two
targets then goes `pending -> preparing -> sending -> delivered`, back to
`pending` on an explicit rejection or a failed preparation, or to `uncertain`
when the outcome of the single attempt is unknown. A poll first retries what
is recorded (`Begin`), then handles the kills (`LoadTier`, `ClaimClear`,
`LoseClear`, `KnownClear`). `deliver_aotc_event` is `ClaimDelivery` /
`NotClaimed`, `Prepare` / `PrepareFails`, `Commit` / `Fenced`, `SendOk` /
`SendRejected` / `SendUnclear`, `Settle`. A delivery token is its poll: an
invocation holds one at a time and forgets it when it ends. The 300-second
lease ends once its holder is gone (`LeaseEnds`), since an invocation lives 60
seconds, or early as a fault (`LeaseEndsEarly`); the second is what fencing is
for. Renderings are numbered to tell whether the two channels show the same one.

### `Mutes`

The worker is one process: it runs one job at a time and reconciles once a
minute. What races with it is the guild, whose administrators edit the same
overwrites and create channels between any two of its requests, and the queue,
which the website and the detector fill.

| code | actions |
|---|---|
| `store.queue` (website, `Detector.receive`) | `Queue` |
| `execute_one`: flush, claim, checks | `Flush`, `Claimed`, `Deny`, `StartMute`, `StartUnmute` |
| `automod.execute` | `Infraction` |
| `Mutes.channels` | `ReadChannels` |
| `Mutes.apply` | `Refuse`, `PlanMute`, `Archive`, `Write`, `FinishMute` |
| `Mutes.release` | `RefuseRelease`, `RequestRelease`, `Archive`, `Write`, `FinishRelease` |
| `Mutes.reconcile` | `Reconcile`, then the steps of `apply` |
| a request or archive that fails, the end of the process | `Fail` |

An overwrite is two values: the bits greyBot owns and all the others. An absent
entry is one with no bits, and the DELETE of `release` writes that. `waiting`
says that the event announcing the current change is journalled and not yet
archived; a journal that other events keep from emptying makes `archive_first`
raise, which is a `Fail`. `revoked` is the worker's question whether a
MUTE_RELEASED follows the triggering infraction. The actor's and target's
rights, `moderation_enabled` and the freshness of a job may refuse any job
(`Deny`); the thirty-minute window decides whether the Threshold-th infraction
queues a mute, either way here. Repeated text earns no infraction and is a
`Deny`. `wanted` records what administrators last set; `raced` and `contested`
mark their edits under the worker's snapshot or under a mute. Left out: other
kinds of job, deletion of channels, several members (records do not interact).

### The other components

| module | code → actions |
|---|---|
| `Recap` | `recap_night`, `recap_recheck` and a hand correction are invocations (`RecapStarts`) of steps (`RecapStepOf`): read the logs, claim, post, release or record, edit, save the record; `RecapEnds` is the end of an invocation anywhere; `Upload`, `NextDay` are the world |
| `OneAttempt` | `rollcall.run` and `vault_week`: `ClaimOnce`, `ReadLineup`, `HoldCard`, `Ask`, `HandBack`, `Deliver`; `settle_rollcall_pending` by a reviewer's click: `Settle`, `Reply` |
| `Glory` | `glory_check`: `LoadGlory`, `ScanCharacters`, `SeedGlory`, `ReloadGlory`, `SaveProgress`, `Decide`; `glory_one`: `ClaimGlory`, `SendGlory`, `SendRefused`, `ReleaseGlory` |
| `Raids` | `QueueRequest`; the loop's `ClaimRequest`, `ApplyRequest` (`mutate`), `Deadline`, `StartDelivery`, `PostCard`, `CardFails`, `SaveDelivery` (`deliver_one`); `Restart` |
| `Feed` | `Journal`, `Flush`, `Switch` (settings); `Feed.tick`: `SkipHistory`, `ReadBatch`, `ReadRow`, `Enter`, `Send`, `Stored`, `Verdict`, `NextRow`; `anniversaries.tick`: `Anniversary`; `FeedRestart` |
| `Reposts` | `log_routing.tick`: `TakeReport`, `ReadOriginal`, `ReadRecent`, `Publish`, `SettlePublished`, `RemoveOriginal`; `featured`: `Nominate`, `TakeStarBack`, `DropVote`, `TakeNominee`, `LookAtNominee`, `PostFeature`, `SettleFeatured` |
| `VoiceClips` | `SaveAudio`, `Reserve`, `DiscardAudio`, the publication's steps, `Sweep`, `ForgetCaptures`, `Ages` |
| `Alerts` | one of the three checks: `Probe`, `Mails`, `PublishFails`, `Store`; `Turn` is trouble that comes and goes |
| `Installs` | `PutConfig`, `Register`, `SetupDies` (`handle_setup`, scripts); `PollStarts`, `FanOut`, `PollVisits`, `PollDone`; `GuildKills`, `GuildRests` |
| `Listening` | `ClipAsked`, `PostNotice`, `Join`, `StopAsked`, `LeaveChannel`, `Forget`; `Pool.tick`: `TickAlone`, `TickListening`, `TickForgets`, `TickReturns`; Discord: `Drops`, `Resumes`, `Dragged` |
| `Mythic` | collector: `CollectStarts`, `QueuesRun`, `KeepsRun`, `SeesRun`; record job: baseline, `Sync...` (the pinned card), `TakesCandidate`, `ClaimsPost`, `PostsRecord`, `SavesRecord` |
| `Gate` | `onboarding_gate.apply`: `Begins` (plan and review), `Checks`, `Writes`, `Confirms`, `Completes1`; `Edited` by an administrator meanwhile |
| `Members` | `OpensForm`, `Challenged`, `Clicks` (verification), `Orders` (roles), `Chooses` (channels); the worker's `TakesJob`, `ReadsMember`, `PutsMember`, `ConfirmsMember`, `RecordsChoice` |
| `Journal` | `Observed`, `Requested`; `FlushStarts`, `PutsObject`, `ReadsBack`, `AsksPending`, `ClaimsAction`, `EndsAction` |
| `LocalLog` | the plugin's `OpensFile`, `WritesLine`; `ingest.py`: `PassReads`, `PassSaves`, `PassRenames`, `PassDrains`, `PassRemoves`, `PassResets`; the index: `SyncLocal`, `SyncBot`, `ImportExport` |
| `Vault` | `CompletesKey`; per collector `AsksBlizzard`, `AsksLogs`, `ReadsHistory`, `SavesEvidence`, `WriteRefused`; `ClaimsWeek`, `PostsWeek` |
| `Roster` | `BossFalls` (record the kill and derive), `AnnouncesStanding`, `SeedsStanding`, `Backfills`; `RecapClassifies` |
| `WclAuth` | `Takes`, `Rejected` (401), `RenewerReads`, `Prewrites`, `Refreshes`, `RefreshRefused`, `Rereads`, `SavesGrant`, `HourIsOver` |
| `Website` | `Login`, `Callback`, `OpensSession`, `RecordsLogin`; `LoadsPage`, `SubmitsSettings`, `SavesSettings`; `ClicksAction`, `RequireAdmin`, `QueuesMember`; the worker's `ClaimsJob`, `Authorizes`, `Executes`, `FinishesJob` |
| `Figures` | `ReadsTables`, `ReadsDeaths` (a page a step), `Summarises` |
| `Commands` | `HandleInteraction`, `HandleProgress`; `HandleFollowup`, `ProgressLive`, `SetupSaves`, `SetupRegisters`, `LookupFails`, `EditFollowup`; `SnapStarts`, `SnapReads`, `RefreshSnapshot` of polls |
| `Attribution` | `StaticRaids`, `SeedsFollowed`, `PollMeets` (`resolve_raid`, `alias_match`), `RecapsNight` (`report_tier`) |
| `Migration` | `QueriesRows`, `CopiesRow`, `WritesConfig`, `VerifiesTier`, `AllCompared`, `DeletesOld`; `OldPollWrites`, `NewPollWrites` |
| `TrackedPosts` | `RecordPost`, `RecentPosts`, `ProbesPost`, `MailsDeletion`, `StoresHealth`, `ForgetReads`, `ForgetPuts` |

`Scheduled`, `Background`, `Rounds` and `Services` put components together that
share no row, lock or message. A behaviour of all of them is an interleaving of
one of each, and a property of one component holds of it exactly when it holds
while the others stand still; so in a behaviour of a composition one component
moves, chosen at the start. That keeps the runs small and is no assumption
about the program.

Modelling assumptions of single modules. `Vault`: one dungeon, keys at least
three minutes apart and inside the week; expiry, the 300 kB limit and dry or
preview runs are left out. `Recap`: a pull is its wall-clock slot. `Installs`:
a visit is one step. `Mythic`: an invocation ends before its lease does, so
there is one of each. `Gate`: only the permission to view. `LocalLog`: an
append is an opening by name and a write to what was opened. `Website`: a page
waits for one request at a time (two at once: section 4), and the settings are
saved and read for the answer in one step, since no await lies between
(`web.py:424-429`) and one process serves the site. `Migration`: a row is a set
of facts to which pollers of either layout only add; the name and baseline of a
TIER# row go to a row of their own, written apart and never compared, and fare
as the other rows do. `Commands`: CONFIG rows are never deleted.

## 3. What the runs show

| run | properties |
|---|---|
| `announcer_race` (526,000 states) | `OneCard`, `SeededSilent`, `QuietUntilMarked`, `PromiseKept` |
| `announcer_live` (215,000) | `TypeOK`, `BacklogSilent`, `CountIsTrue`, `ReleasedIsAnnounced` |
| `aotc_outbox` (47,000) | `GeneralFollowsGroup`, `RecordedIsTried`, `GeneralIsTried`, `SentAtMostOnce` |
| `mutes` (379,000) | `Undoable`, `OnlyRacedEditsAreLost`, `WriteIsArchived`, `AutoMuteEarned`, `NewChannelIsMuted` |
| `scheduled` | `OneRecap`, `NotesKept`, `SecondLookOnce`, `SignedIsHeld`, `GloryOnce`, `OneAttemptPromise` |
| `background` | `PostedOnce`, `NeverNowhere`, `FeedPromise`, `CardCatchesUp`, `AlertComes` |
| `rounds` | `SetupQuiet`, `RecordOnce`, `InstallsArePolled`, `AccountsSettle`, `RecordsStand` |
| `services` (1.5 million) | `ListeningPromise`, `AccessPromise`, `CapturePromise`, `KeepingPromise`, `WebPromise`, `NightPromise`, `AnsweredAsAsked` |
| `announcer_duplicate`, `announcer_dropped`, `announcer_rollover`, `mutes_edit` | `NeverAgain`, `MissedIsRecovered`, `RolloverEarnsItsClear`, `UnrelatedChangesSurvive` are violated (section 4) |

What each property says is written above its definition; what each run shows is
in `PROJECT.json`.

**Bounds.** Every bound is a constant of its module, named `Max...`; the proofs
of section 5 have none.

- *Announcer*: 2 bosses (the fewest for which a tier is partly dead, partly
  seeded, partly claimed, and names have an order), 2 overlapping polls with 2
  attempts and 1 fault, or 1 poll with 1 attempt and 2 faults. `MaxAttempts` is 4
  in the code: with 2 a stored attempt can be followed by another, with 1 every
  failure reaches the release. `announcer_race` takes a team install, so that
  Raider.IO's count does not multiply the states.
- *AotcOutbox*: 2 polls, 2 renderings (one tells the first from any other), 2 faults.
- *Mutes*: 2 channels, one created at any time; 3 values of the owned bits (the
  third is an administrator's conflicting edit), 2 queued jobs, 1 edit, 1 failure.
- *Scheduled*: a night of 2 days, 2 uploaders, 2 overlapping runs, 4 invocations,
  1 fault; a call night and a week, 2 jobs, 4 invocations, 2 faults; 2 persons with
  a character each, one achievement needing both, 2 checks, 3 visits.
- *Background*: 1 raider of 1 place, 3 requests, 2 faults; 2 feed channels, 2
  entries, 1 member, 2 switches; 1 report, 1 nominee, 2 voters, threshold 2, 2 faults;
  2 clips, 2 faults; 2 polls with thresholds 2, 2 turns, 1 fault.
- *Rounds*: 2 installs, 2 guilds, 1 boss, 2 setups; 1 account, 2 channels, 2
  attempts; 2 Mythic+ runs; 1 fault each.
- *Services*: 2 accounts, 2 channels; 2 gate channels, 1 other role, 3 kinds of
  member, 1 overwrite, 1 edit; 2 requests, 2 joins, 1 edit; 2 packets, 2 actions,
  batches of 1; 3 lines, rotation at 2; 1 hourly and 1 Tuesday collection, 2 keys, 2
  reconciles; 3 raiders, 3 bosses with the code's percentages; 3 runs of which 2 may
  write, 2 issued grants; 2 administrators, 2 members, 2 logins, 3 saves, a click that
  is sent again, 1 ending; 3 attendees, 2 logs, 2 bosses, 3 pulls, 3 deaths, 2 pages of
  2; 2 servers, 2 guilds, 2 interactions, 2 hours, 2 polls, 3 tries; 3 raids of 5
  bosses, 2 spellings, nights of up to 3 fights; 2 tier rows and 3 others, 2 runs,
  a write of each layout's poller; 2 checks, 2 posts, a list of 1. One fault each.

Two of what races are the fewest that do, and every check in the code compares
one actor with a row. `CHECK_DEADLOCK FALSE` stands where a bounded world has
nothing left to do.

**Fairness.** The schedules keep invoking the function and a started invocation
goes on unless it fails (weak fairness of a poll's, a collector's or a job's
steps); the worker's loop comes round every five seconds (weak fairness of its
steps; strong fairness of `Reconcile` in `Mutes` and of an account's tick in
`Listening`, each of which comes up once a round whatever else is queued); hours
and minutes go by. Nothing is assumed of raids, members, administrators,
queues, upstream services or the outcome of a request; faults are finite, so in
the end an attempt is answered. In `Rounds`, one fairness condition covers
components that never move together. Liveness is stated where the code owes
something: `ReleasedIsAnnounced` (but for finding 2), `RecordedIsTried`,
`GeneralIsTried`, `NewChannelIsMuted`, `CardCatchesUp`, `AlertComes`,
`InstallsArePolled`, `AccountsSettle`, `RecordsStand`.

## 4. Findings

1. **A kill can be announced twice** (`announcer_duplicate`). `_post_raw`
   repeats a POST after a 5xx or a network error, which Discord may have
   stored. `OneCard` states what is kept: never more than one card besides the
   copies whose sender learned of no success.
2. **A missed kill is not always recovered** (`announcer_dropped`). Only a
   `DiscordError` releases a claim; an invocation that ends between the claim
   and the post leaves it, and the boss stays silent.
3. **A rollover may preset its clear** (`announcer_rollover`). `seed_new_tier`
   says that Raider.IO's count is not used to seed, and sets `aotcAnnounced`
   from it; when the tier is already full at Raider.IO at the first poll that
   sees it, its kills are announced and its clear is not.
4. **An unrelated change may not survive a mute** (`mutes_edit`). `mutes.py`
   promises that unrelated admin changes survive; `apply` and `release` write
   whole overwrites from channels read before the archive flush, so an edit of
   another bit in between is set back. `OnlyRacedEditsAreLost` states what is
   kept.

### Observations

Behaviour met while modelling that no run states as a violated promise. Where a
comment or a document says otherwise, it is named ("contrary to", or quoted);
of the rest the sources promise nothing so exact. Properties that hold exclude
these cases by name, so that what is excluded can be read off the definition.

*Website.* A page that is refreshed while its own save is under way may take the
save's revision and show the values of before: its next save then undoes its
own. An action form whose answer was lost and which is then edited is refused
("Request ID already used") until the page is
loaded again. ADMIN_LOGIN is a second transaction after the session's.

*Figures.* `deaths_pages` resumes 1 ms after the last death it has, so deaths
that share a full page's last moment are lost, as are pages beyond `max_pages`
(its docstring says "Every death of the night"). Fights of two logs are ordered
by start times relative to their own log. A person with a server in one log and
none in the other makes two rows; a stranger with a raider's bare name can get one.

*Commands.* Lambda runs a failed follow-up up to three times: an old `/setup`
whose edit failed can be saved again over a newer one, and a retry whose
Raider.IO lookup fails says "Could not find that guild" though the first try saved.

*Attribution.* While an older expansion's list fails to load (`static_raids`
keeps `[]` for the container's life) and one followed raid is live, a farm kill
of an old raid is attributed to the current tier, contrary to `resolve_raid`'s
docstring; so is a raid of an expansion that was never asked for. A boss whose
names differ is found only by zone or live window.
`seed_names` intersects exactly, so a team's seed drops history in another
spelling. `alias_match`'s "recovers on the next poll once the names agree" is
false for two bosses whose names are prefixes of one another.

*Configuration.* A re-pointed install is said to seed silently at the next poll
(`store.py:1142`, `handler.py:1231`), but the marker stays. Registering a team
before the home install stops the SSM fallback poll of the home server.
*Migration.* Contrary to "Re-running after a partial failure is safe"
(`migrate-to-tenants.py:29`), a row the first run copied is left alone by the
second although the old layout's poller has added to it since (a night to RECAPS,
a kill, a roster); only the announced sets are compared, and `--delete-old`
deletes the old row with what was added. `NothingLost` exempts just that: a row
that is no tier and that the deleting run reported as already there. What an
old-layout poll adds between query and delete is lost too (it speaks of what was
read). "A separate pass" deletes in the same run; a second run overwrites CONFIG
and fails verification once an announced set grew; BOOTSTRAP is copied before the
tier rows, so a new-layout poll in between seeds as a rollover.

*Warcraft Logs grant.* Contrary to `config.py:341-343` and `README.md:751-760`, two
runs that meet one 401 may lose the grant without any fault: one has read the
old bundle, the other renews and saves; the first's proof that it may write
(`config.py:369`) puts the old bundle back, its own refresh is refused, what it
finds when it looks once more is its own write, and a browser login is needed.
`GrantKept` exempts it as "raced" and says that short of it only an answer, a
save or a container lost after the check loses the grant.

*Posted messages.* `forget_post` runs even when no mail went out ("ALERTED on",
`store.py:678`), and two overlapping forgets can put a forgotten post back.
*Alerts.* A failed RECOVERY publish is not tried again; overlapping polls can
mail twice; two servers tracking one guild share the source row; the all-clear
is mailed while the bot is still kicked (`handler.py:1613-1618`).

*Voice.* Audio does not expire after a crash between file and row
(`voice_clips.py:5`, `:49` and `480-490`). An account an administrator drags
records without a notice; Stop removes one of two accounts of a channel; a helper
not yet connected at the first tick forgets its channel, contrary to
`Pool.leave`; Stop while the connection is down is refused to members.

*Mythic+.* A candidate whose key lies behind the cursor is skipped ("durable
queue and cursor", `docs/mythic-plus.md`); the baseline counts failed profiles
as visited; a board claim left at `sending` stops all records.
*Recap, vault.* A recheck that `recap_night` skipped for want of query points
(`handler.py:3142`) still counts as the night's second look (`:2984`). An
uploader's clock that is late at the reset could count one key in two weeks.

*Journal, capture.* A request queued between `pending(1)` and `claim_job` is
claimed before it is archived (`control/README.md:328`). An ingest pass that
dies between rename and reset loses late lines. Rows the bot saw first do not
get later edits from the capture.

*Roster.* A provisional roster without a seed contains fill-ins; a report that
began before the first kill of its boss carries the other team's signal.
*Hidden channels.* An administrator's later denial is taken for the member's own;
a crash between the request and its event leaves a channel that cannot be returned.

## 5. What is proved

Eight modules of theorems, which TLAPS checks to the last leaf for every value
of the constants: any bosses, polls, members, channels, logs, attempts and
faults, and no bound on a run. Every safety invariant, every action property
and every refinement that a passing run checks is the statement of a theorem;
a theorem about a composition (`ScheduledSafe`, `BackgroundSafe`, `OncePosted`,
`RoundsSafe` and the seven of `ServicesProofs`) is drawn from those of its
components, since a step of it is a step of one and leaves the others alone.

The assumptions are those the modules name: sets of names that must not overlap
do not, and what is finite in the program is finite; bounds are numbers. Three
theorems assume more, each about the configuration or the data, and say so in
their statements:

- `CountHolds` and `BacklogStaysSilent`: the log history is complete (`~Partial`).
  With part of a history the seed guesses the bosses that are missing, and may
  overshoot.
- `NoFillInsOnRosters` (and `WhatIsKept`, which uses it): `OneIsNoShare`,
  `MinPct * MinKills > 100`, so that one kill is no share. The code's 50 % of 3
  kills is such; the percentage is a setting (`config.py:259`), and with one of
  33 or less a fill-in of one kill does get on a roster.
- `KillsAreItsRaids` (and `NightsAreTold`): `NamesTell`, no two bosses share a
  spelling, and `FormsBegin`, the short spelling of a name begins the long one.
  `alias_match` compares by beginnings: a boss whose spellings do not begin
  alike is announced although the seed holds it.

An invariant that says what must never be seen is seldom kept by each step on
its own account. What each argument adds:

**`AnnouncerProofs`.** `SafeInv` is the conjunction of
*EmptyFirst* (before the row exists nothing is claimed, seeded, held or posted),
*Written* (a poll past the load implies the row), *Counted* (the cards of a key
are its doubtful copies, plus one when it landed), *NeverSeeded* (a seeded key
has no card and nobody holds it) and *Held* (a poll that posts or releases holds
a claimed key that has not landed, and no other poll holds it). `OneCard`,
`LandedStaysClaimed`, `SeededSilent` and `OwnClaim` are consequences; none of
them is inductive alone, since a release is only safe because no one else can
hold the key. `Refinement` proves that the announcer implements `FirstKill`
from the same invariant, step by step. `BacklogInv` (*PastIsDead*, *SeedCovers*,
*BacklogSeeded*): whatever a poll saw as older than the window is in the seed it
plans. `CountInv` (*RowTrue*, *KnowsTrue*): what the row counts and what each
poll holds, its plan for a seed, the kills it found, Raider.IO's answer, are of
bosses that are dead; then no card's count is ahead of the guild, for
cardinalities of what polls add to a row along its whole life. `QuietFirst` is an
action property: no step changes the channel before the marker.

**`OnceProofs`.** `DeliveryInv` ties each status of the outbox to the copies in
the channel and each sender to the row's owner; from it follow `OneCopy`,
`Delivered`, `Fencing`, `GroupFirst` and the refinement of `AtMostOnce`, and with
`CardInv` `StoredCard`. For the configuration, `InstallsInv`: a configured
guild is one the install was set to (*KnownGuilds*), nothing is announced
before the marker, the marker comes after the row and the row after a
configuration (*InOrder*), and while an install has had one guild what was dead
at its setup is in the row as soon as there is one (*OldStaysOld*). `RecordInv`:
an announced record is claimed, and the job about to post claimed a run that has
no announcement; nothing is needed of the queue or the cursor.

**`MutesProofs`.** Four invariants over any channels, bits,
queues, thresholds, edits and failures. `ArchivedFirst` rests on *Where*: in a
writing step the change's event is archived. `AlwaysUndoable` needs *Undo*: the
plan of a record that is not released holds what administrators left (*PlanTrue*),
bits that differ are in it (*Owned*), channels still to be written are as the
worker read them (*SnapTrue*), and a release has put back what it has passed
(*PutBack*), all for channels whose owned bits no administrator contested; the
property alone says nothing of the snapshot the next write is made from.
`UnrelatedKept` needs the same of the snapshot's other bits. `MutesAreEarned`
ties the queued automatic mutes that were not revoked to the infractions
journalled since the last release.

**`ScheduledProofs`.** `AttemptInv`: an invocation past its claim is
the only one of its night or week until its request was answered (*Exclusive*),
and while a card waits for its reviewer nobody works on that night (*Reviewed*);
the refinement of `AtMostOnce` follows. `GloryInv`: the card an invocation holds
is in the row, not seeded, and nobody else's (*CardsHeld*); and of every row, and
of every check that has yet to save, a signature of a character's present logout
comes with all the character has (*Signed*), or a later save could put an older
picture under a newer signature. `RecapInv`: a claim has one holder until its
card is sure (*ClaimsHeld*), and on a night no two invocations met on (*Alone*)
the record, with what the invocation about to write it adds, holds every note and
second look (*Recorded*). From it `RecapOnce`, `CorrectionsStay`, `OneSecondLook`.

**`WorkerProofs`.** `CardInv`: a loop about to post owns the raid's row, and a
first post whose answer nobody has is never due again. `SoundInv`: a clip that
may still be uploaded has no sound. `MoveInv`: a report about to be taken from
one channel is in the other. `FeatureInv`: a post whose claim may be taken has
no cards but those of the restarts that put it back. `FeedInv`: rows ahead of the
cursor have no delivery, and what a tick has yet to send is recorded as being
sent and has no copy; then `FeedPromise`, the refinement of `AtMostOnce`.

**`KeptProofs`.**

| theorem | rests on |
|---|---|
| `NoticeAndStop` | one account at a time is on its way (*OneTask*), to a channel that was told (*Told*); a stopped channel is nobody's place, way or home (*NobodyReturns*) |
| `GateKeepsView` | *Underway*: while nobody else edits, the plan gives every member the view he had, each role and overwrite is as found or as planned, what is not to be done any more is done, and @everyone's view goes last |
| `EarnedAndOnce` | a request is in the queue once, and while it is queued (*Queued*); none asked Discord before its write (*Asked*); one for the role is of a membership that passed, and the executor looked at that membership (*Earned*) |
| `BacklogFirst` | receipts are of archived objects, and past the flush the backlog is archived |
| `CaptureIsComplete` | each line is accounted for, in the plugin's hand, past the offset, or in the rotated file that is being drained (*KeptAt*); what is behind the offset or behind what the pass has read was applied, unless a pass died inside a rotation (*Behind*) |
| `NoFillInsOnRosters` | a FIRST_KILL row has everybody who stood there, or is not there yet; then a share of the kills is two of them (*OneIsNoShare*) |
| `GrantIsKept` | a run that may save refreshed after it proved it may, and saves the newer of what it read and got (*Refreshed*) |
| `NoRowLost` | each row the script is past lies in the new layout with what was read of it, or was there before and was reported (*Copied*); a tier's only once it was compared (*Scripted*); the new layout's rows only grow |
| `PostsAreTracked` | a post that was mailed is being dropped, or let go by every check, or may be seen again (*Dropping*, *LetGo*); the list about to be put back has all other posts |
| `VaultKeepsEvidence` | two keys are never one to any provider (*KeysApart*), what is stored stands for keys (*SoundRuns*), a writer whose version is current has read the row (*WritersFresh*) |

**`AskedProofs`.** `WebInv`: a page that may be sent shows what it would
replace (*PagesShow*), a form that waits for an answer agrees with the handler that has
its click (*FormsMatch*), a job's write is made at most once, at its worker's
step and whatever result it records (*DoneOnce*), a click answered has a job for each of its members
(*NobodyLeftOut*), no state or session is held by two (*SignInsApart*). `CommandsInv`: at each
stage of an interaction whoever asked may have what is being done (*Rightly*),
and a snapshot shows at least what was down when its poll began
(*SnapshotsTrue*). `NamesInv`: a card was told because its kill was resolved to
its raid and no seeded name is a form of it (*ToldRightly*), rows hold the seed
and the names of kills met since (*RowsSeeded*); under it are lemmas on what
`find_boss`, `resolve_raid`, `seed_names` and `report_tier` return. `FiguresInv`
is about what has been read: a death once the walk is past it, a log once it is
left, unless a walk was cut short (*ReadingInv*); that the figures made of it are
true are lemmas on the operators: sums over a person's entries and over the two
logs, kills numbered in order as a bijection, and the boss of the night as the
greatest by wipes and then pulls. The folds of the community modules are
evaluated there for the sets of one or two logs they are used on; what a fold
computes over any set needs induction and is not proved.

**Not proved.** Nine properties are model-checked only, all of them liveness:
`ReleasedIsAnnounced`, `RecordedIsTried`, `GeneralIsTried`, `NewChannelIsMuted`,
`CardCatchesUp`, `AlertComes`, `InstallsArePolled`, `AccountsSettle` and
`RecordsStand`. They rest on fairness, hence on when an action is enabled, which
is out of the prover's reach here. The alerts promise nothing else.

## 6. Plan

Of what the runs check, only liveness is left unproved. Still to be stated and
proved: how far a seed made from a partial history may be from the truth (what
`BacklogStaysSilent` and `CountHolds` exclude). Left to model: the Mythic+
weekly recap with its scores (a collection begun before the boundary stores
scores read after it); jobs of other kinds (timeouts, kicks, voice moves) and
several members at once in `Mutes`; rollback of the gate.

## 7. Not modelled

Rendering, HTML and images, published pages; Discord's and Warcraft Logs' wire
formats; IAM, schedules and build scripts; the self-test; the low parse report;
readers, directory and search tools; voice activity; the website's views. They
keep no state that two actors share, or only hand data to the parts above.
`PROJECT.json` lists every component with what is left out of it.
