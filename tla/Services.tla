-------------------------------- MODULE Services -------------------------------
(***************************************************************************)
(* What is done when somebody asks for it, or something is told of: the    *)
(* voice accounts, the onboarding gate, what members ask of the worker for *)
(* themselves, the journal's archive and the local capture; and what the   *)
(* bot keeps for its cards: the vault's evidence, the roster, the grant of *)
(* Warcraft Logs, a night's figures, names, its posts; the website, the    *)
(* commands and the move to tenants.  They share no row with one another,  *)
(* so a behaviour lets one of them move (as in Scheduled and Background).  *)
(***************************************************************************)
EXTENDS Listening, Gate, Members, Journal, LocalLog, Vault, Roster, WclAuth,
        Website, Figures, Commands, Attribution, Migration, TrackedPosts

(* A tier of three bosses, one named as another begins, a world boss, and  *)
(* a raid of the last expansion.                                           *)
RaidsOfTheYear == [tier |-> <<"aru", "belo", "heir">>, grotto |-> <<"worm">>, old |-> <<"nexus">>]
ShortNames == [aru |-> <<"aru">>, belo |-> <<"belo">>, heir |-> <<"aru", "heir">>,
               worm |-> <<"worm">>, nexus |-> <<"nexus">>]
LongNames == [ShortNames EXCEPT !["belo"] = <<"belo", "child">>]
Expansions == [tier |-> 11, grotto |-> 11, old |-> 10]

VARIABLE serving    \* what moves

servicesVars == <<listeningVars, gateVars, memberVars, journalVars, logVars, vaultVars,
                  rosterVars, authVars, webVars, figureVars, commandVars, attributionVars,
                  migrationVars, trackVars, serving>>
Service == {"listening", "gate", "members", "journal", "log", "vault", "roster", "grant",
            "website", "figures", "commands", "names", "migration", "posts"}

(* What stands still begins in one way. *)
ServicesInit ==
  /\ serving \in Service
  /\ GateInit
  /\ \/ serving = "gate"
     \/ /\ perms = [r \in GateRole |-> TRUE]
        /\ \A c \in GateChannel, r \in GateRole : overwrites[c][r] = "none"
  /\ TrackedInit
  /\ ListeningInit /\ MembersInit /\ JournalInit /\ LogInit
  /\ VaultInit /\ RosterInit /\ AuthInit
  /\ IF serving = "website" THEN WebInit ELSE WebInit /\ visitKind = "login"
  /\ IF serving = "commands" THEN CommandsInit ELSE CommandsInit /\ askingAbout = "anything"
  /\ IF serving = "migration" THEN MigrationInit
     ELSE MigrationInit /\ DOMAIN oldRows = OldTier \cup OldFact
  /\ IF serving = "figures" THEN FiguresInit ELSE FiguresIdle
  /\ IF serving = "names" THEN AttributionInit ELSE AttributionIdle

Alone(x) ==
  /\ serving = x /\ UNCHANGED serving
  /\ IF x = "listening" THEN TRUE ELSE UNCHANGED listeningVars
  /\ IF x = "gate" THEN TRUE ELSE UNCHANGED gateVars
  /\ IF x = "members" THEN TRUE ELSE UNCHANGED memberVars
  /\ IF x = "journal" THEN TRUE ELSE UNCHANGED journalVars
  /\ IF x = "log" THEN TRUE ELSE UNCHANGED logVars
  /\ IF x = "vault" THEN TRUE ELSE UNCHANGED vaultVars
  /\ IF x = "roster" THEN TRUE ELSE UNCHANGED rosterVars
  /\ IF x = "grant" THEN TRUE ELSE UNCHANGED authVars
  /\ IF x = "website" THEN TRUE ELSE UNCHANGED webVars
  /\ IF x = "figures" THEN TRUE ELSE UNCHANGED figureVars
  /\ IF x = "commands" THEN TRUE ELSE UNCHANGED commandVars
  /\ IF x = "names" THEN TRUE ELSE UNCHANGED attributionVars
  /\ IF x = "migration" THEN TRUE ELSE UNCHANGED migrationVars
  /\ IF x = "posts" THEN TRUE ELSE UNCHANGED trackVars

ServicesNext ==
  \/ (Alone("listening") /\ ListeningNext)
  \/ (Alone("gate") /\ GateNext)
  \/ (Alone("members") /\ MembersNext)
  \/ (Alone("journal") /\ JournalNext)
  \/ (Alone("log") /\ LogNext)
  \/ (Alone("vault") /\ VaultNext)
  \/ (Alone("roster") /\ RosterNext)
  \/ (Alone("grant") /\ AuthNext)
  \/ (Alone("website") /\ WebNext)
  \/ (Alone("figures") /\ FiguresNext)
  \/ (Alone("commands") /\ CommandsNext)
  \/ (Alone("names") /\ AttributionNext)
  \/ (Alone("migration") /\ MigrationNext)
  \/ (Alone("posts") /\ TrackedNext)

ServicesSpec == ServicesInit /\ [][ServicesNext]_servicesVars

-----------------------------------------------------------------------------
(* Nobody is recorded before the notice of this session has been posted,   *)
(* and no account comes back after Stop (voice_clips.py).                  *)
ListeningPromise == NoticeFirst /\ StopIsFinal

(* The gate's apply changes no view while nobody else edits, a verified    *)
(* role is of a membership that passed or was given it, and no request is  *)
(* made of Discord twice (onboarding_gate.py, verification.py).            *)
AccessPromise == NobodyLockedOut /\ VerifiedEarned /\ ClickOnce

(* An action waits for the archive of what was journaled when the worker   *)
(* asked (worker.py), and the local capture loses no line or change but in *)
(* a rotation that a write or the death of a pass falls into (ingest.py).  *)
CapturePromise == ArchivedFirst /\ CaptureComplete

(* What the bot keeps for later outlives the steps that might lose it:     *)
(* the vault's evidence, with its one digest a week (vault_history.py), a  *)
(* roster without fill-ins (team.py), the grant of Warcraft Logs short of  *)
(* a raced write or a lost answer (config.py), what was read of a table    *)
(* that moves to the tenant layout, short of a target that was there       *)
(* before (migrate-to-tenants.py), and the posts whose removal is to be    *)
(* noticed (store.py).                                                     *)
KeepingPromise == VaultPromise /\ NoFillIns /\ GrantKept /\ NothingLost /\ PostsTracked

(* A save replaces only the settings its page showed, and a click is done  *)
(* at most once to each member, however often it is sent and whatever is   *)
(* recorded of it (web.py, store.py, worker.py).                           *)
WebPromise == SettingsSeen /\ ClickedOnce

(* Kills and fights are counted for the raid, the boss and the person they *)
(* belong to, as far as the raid's data was loaded and the pages and       *)
(* tables of the night were whole (raiderio.py, recap.py).                 *)
NightPromise == FiguresTrue /\ KillsBelong
=============================================================================
