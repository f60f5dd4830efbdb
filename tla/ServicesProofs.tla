----------------------------- MODULE ServicesProofs ----------------------------
(***************************************************************************)
(* Proofs about what is done when somebody asks for it, together: what one *)
(* component promises alone (KeptProofs, AskedProofs) holds where they     *)
(* take turns, for every behaviour of ServicesSpec.                        *)
(***************************************************************************)
EXTENDS Services, KeptProofs, AskedProofs, TLAPS

(* Whatever moves, a component takes one of its steps or stands still.     *)
LEMMA OwnSteps ==
  ASSUME NEW x \in Service, Alone(x)
  PROVE  /\ x = "listening" \/ UNCHANGED listeningVars
         /\ x = "gate" \/ UNCHANGED gateVars
         /\ x = "members" \/ UNCHANGED memberVars
         /\ x = "journal" \/ UNCHANGED journalVars
         /\ x = "log" \/ UNCHANGED logVars
         /\ x = "vault" \/ UNCHANGED vaultVars
         /\ x = "roster" \/ UNCHANGED rosterVars
         /\ x = "grant" \/ UNCHANGED authVars
         /\ x = "migration" \/ UNCHANGED migrationVars
         /\ x = "posts" \/ UNCHANGED trackVars
         /\ x = "website" \/ UNCHANGED webVars
         /\ x = "commands" \/ UNCHANGED commandVars
         /\ x = "figures" \/ UNCHANGED figureVars
         /\ x = "names" \/ UNCHANGED attributionVars
  BY DEF Alone, Service

LEMMA ServicesMove ==
  [ServicesNext]_servicesVars =>
    /\ [ListeningNext]_listeningVars /\ [GateNext]_gateVars /\ [MembersNext]_memberVars
    /\ [JournalNext]_journalVars /\ [LogNext]_logVars /\ [VaultNext]_vaultVars
    /\ [RosterNext]_rosterVars /\ [AuthNext]_authVars /\ [MigrationNext]_migrationVars
    /\ [TrackedNext]_trackVars /\ [WebNext]_webVars /\ [CommandsNext]_commandVars
    /\ [FiguresNext]_figureVars /\ [AttributionNext]_attributionVars
<1> DEFINE Own == /\ [ListeningNext]_listeningVars /\ [GateNext]_gateVars /\ [MembersNext]_memberVars
                  /\ [JournalNext]_journalVars /\ [LogNext]_logVars /\ [VaultNext]_vaultVars
                  /\ [RosterNext]_rosterVars /\ [AuthNext]_authVars /\ [MigrationNext]_migrationVars
                  /\ [TrackedNext]_trackVars /\ [WebNext]_webVars /\ [CommandsNext]_commandVars
                  /\ [FiguresNext]_figureVars /\ [AttributionNext]_attributionVars
<1> SUFFICES ASSUME [ServicesNext]_servicesVars PROVE Own
  OBVIOUS
<1>1. CASE UNCHANGED servicesVars  BY <1>1 DEF servicesVars
<1>2. CASE Alone("listening") /\ ListeningNext  BY <1>2, OwnSteps DEF Service
<1>3. CASE Alone("gate") /\ GateNext  BY <1>3, OwnSteps DEF Service
<1>4. CASE Alone("members") /\ MembersNext  BY <1>4, OwnSteps DEF Service
<1>5. CASE Alone("journal") /\ JournalNext  BY <1>5, OwnSteps DEF Service
<1>6. CASE Alone("log") /\ LogNext  BY <1>6, OwnSteps DEF Service
<1>7. CASE Alone("vault") /\ VaultNext  BY <1>7, OwnSteps DEF Service
<1>8. CASE Alone("roster") /\ RosterNext  BY <1>8, OwnSteps DEF Service
<1>9. CASE Alone("grant") /\ AuthNext  BY <1>9, OwnSteps DEF Service
<1>10. CASE Alone("migration") /\ MigrationNext  BY <1>10, OwnSteps DEF Service
<1>11. CASE Alone("posts") /\ TrackedNext  BY <1>11, OwnSteps DEF Service
<1>12. CASE Alone("website") /\ WebNext  BY <1>12, OwnSteps DEF Service
<1>13. CASE Alone("commands") /\ CommandsNext  BY <1>13, OwnSteps DEF Service
<1>14. CASE Alone("figures") /\ FiguresNext  BY <1>14, OwnSteps DEF Service
<1>15. CASE Alone("names") /\ AttributionNext  BY <1>15, OwnSteps DEF Service
<1> QED
  BY <1>1, <1>2, <1>3, <1>4, <1>5, <1>6, <1>7, <1>8, <1>9, <1>10, <1>11, <1>12, <1>13, <1>14,
     <1>15
  DEF ServicesNext

(* Nobody is recorded before the notice, and no account comes back after   *)
(* Stop (voice_clips.py).                                                  *)
THEOREM ListeningSound == ServicesSpec => []ListeningPromise
<1>1. ServicesInit => ListeningInit  BY DEF ServicesInit
<1>2. ServicesSpec => ListeningSafety
  BY <1>1, ServicesMove, PTL DEF ServicesSpec, ListeningSafety
<1> QED  BY <1>2, NoticeAndStop, PTL DEF ListeningPromise

(* The gate's apply changes no view, a verified role was passed or given,  *)
(* a request is made once (onboarding_gate.py, verification.py, worker.py).*)
THEOREM AccessSound == ServicesSpec => []AccessPromise
<1>1. ServicesInit => GateInit /\ MembersInit  BY DEF ServicesInit
<1>2. ServicesSpec => GateSafety /\ MembersSafety
  BY <1>1, ServicesMove, PTL DEF ServicesSpec, GateSafety, MembersSafety
<1> QED  BY <1>2, GateKeepsView, EarnedAndOnce, PTL DEF AccessPromise

(* An action waits for the archive of what was journaled when the worker   *)
(* asked, and the local capture is complete (worker.py, ingest.py).        *)
THEOREM NothingMissed == ServicesSpec => []CapturePromise
<1>1. ServicesInit => JournalInit /\ LogInit  BY DEF ServicesInit
<1>2. ServicesSpec => JournalSafety /\ LogSafety
  BY <1>1, ServicesMove, PTL DEF ServicesSpec, JournalSafety, LogSafety
<1> QED  BY <1>2, BacklogFirst, CaptureIsComplete, PTL DEF CapturePromise

(* What is kept for later outlives collectors, polls, renewals, runs of    *)
(* the migration and checks, with the exemptions its conjuncts name        *)
(* (vault_history.py, team.py, config.py, migrate-to-tenants.py, store.py).*)
THEOREM WhatIsKept == ASSUME OneIsNoShare PROVE ServicesSpec => []KeepingPromise
<1>1. ServicesInit => VaultInit /\ RosterInit /\ AuthInit /\ MigrationInit /\ TrackedInit
  <2>1. ServicesInit =>
          IF serving = "migration" THEN MigrationInit
          ELSE MigrationInit /\ DOMAIN oldRows = OldTier \cup OldFact
    BY Zenon DEF ServicesInit
  <2> QED  BY <2>1 DEF ServicesInit
<1>2. ServicesSpec =>
        VaultSafety /\ RosterSafety /\ AuthSafety /\ MigrationSafety /\ TrackedSafety
  BY <1>1, ServicesMove, PTL
  DEF ServicesSpec, VaultSafety, RosterSafety, AuthSafety, MigrationSafety, TrackedSafety
<1>3. RosterSafety => []NoFillIns  BY NoFillInsOnRosters
<1> QED
  BY <1>2, <1>3, VaultKeepsEvidence, GrantIsKept, NoRowLost, PostsAreTracked, PTL
  DEF KeepingPromise

(* A save replaces what its page showed, and a click is done at most once  *)
(* to each member (web.py, store.py, worker.py).                           *)
THEOREM WebsiteSound == ServicesSpec => []WebPromise
<1>1. ServicesInit => WebInit  BY DEF ServicesInit
<1>2. ServicesSpec => WebSafety
  BY <1>1, ServicesMove, PTL DEF ServicesSpec, WebSafety
<1> QED  BY <1>2, SeenAndOnce, PTL DEF WebPromise

(* A command is answered as it was asked: of the guild of its own server,  *)
(* by whoever may ask, from a snapshot (handler.py).                       *)
THEOREM CommandsAnswered == ServicesSpec => []AnsweredAsAsked
<1>1. ServicesInit => CommandsInit
  <2>1. ServicesInit =>
          IF serving = "commands" THEN CommandsInit ELSE CommandsInit /\ askingAbout = "anything"
    BY Zenon DEF ServicesInit
  <2> QED  BY <2>1
<1>2. ServicesSpec => CommandsSafety
  BY <1>1, ServicesMove, PTL DEF ServicesSpec, CommandsSafety
<1> QED  BY <1>2, AskedAndAnswered, PTL

(* A kill and a fight are counted for the raid they belong to, if its data *)
(* was loaded, and the night's card tells the night that was read, where   *)
(* no two bosses share a form of their names and the short form begins the *)
(* long one (raiderio.py, recap.py).                                       *)
THEOREM NightsAreTold ==
  ASSUME NamesTell, FormsBegin PROVE ServicesSpec => []NightPromise
<1>1. ServicesInit => FiguresInit \/ FiguresIdle
  <2>1. ServicesInit => IF serving = "figures" THEN FiguresInit ELSE FiguresIdle
    BY Zenon DEF ServicesInit
  <2> QED  BY <2>1
<1>2. ServicesInit => AttributionInit
  <2>1. ServicesInit => IF serving = "names" THEN AttributionInit ELSE AttributionIdle
    BY Zenon DEF ServicesInit
  <2>2. AttributionIdle => AttributionInit  BY DEF AttributionIdle, AttributionInit
  <2> QED  BY <2>1, <2>2
<1>3. ServicesSpec => FiguresSafety /\ AttributionSpec
  BY <1>1, <1>2, ServicesMove, PTL DEF ServicesSpec, FiguresSafety, AttributionSpec
<1>4. AttributionSpec => []KillsBelong  BY KillsAreItsRaids
<1> QED  BY <1>3, <1>4, CardTellsTheNight, PTL DEF NightPromise
=============================================================================
