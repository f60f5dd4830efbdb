--------------------------------- MODULE Vault --------------------------------
(***************************************************************************)
(* The Great Vault evidence of one character's week: the hourly collector  *)
(* (vault_collect.py) and the Tuesday check (handler.py, vault_week), which*)
(* overlap, read three incomplete providers and merge what they saw into   *)
(* one row by optimistic writes (vault_history.py).  One dungeon: repeated *)
(* completions of it are the hard case.  Keys end KeyMinutes apart, on the *)
(* providers' clocks in minutes, inside the week.                          *)
(***************************************************************************)
EXTENDS Naturals, FiniteSets, Sequences, FiniteSetsExt

CONSTANTS
  Hourly, Tuesday,   \* invocations of the collector and of the weekly check
  Reconciles,        \* reconcile: 5
  VaultLevel,        \* MPLUS_LEVEL
  KeyLevels,         \* BOUND: levels of the keys completed
  VaultThresholds,   \* MPLUS_THRESHOLDS: runs that fill the three slots
  NoEvidence,        \* None: a provider that could not be read
  MaxKeys,           \* BOUND: keys the character completes
  MaxVaultFaults     \* BOUND: invocations that die, writes whose answer is lost

ASSUME VaultBounds ==
  /\ Reconciles \in Nat \ {0} /\ VaultLevel \in Nat \ {0} /\ KeyLevels \subseteq Nat \ {0}
  /\ VaultThresholds \subseteq Nat \ {0}
  /\ Hourly \cap Tuesday = {} /\ {MaxKeys, MaxVaultFaults} \subseteq Nat

VARIABLES
  keyRuns,           \* the keys completed: [at, level]
  history,           \* the row: [version, evidence]; version 0 is no row
  collecting,        \* [Collector -> [step, at, obs, seen, tries]]
  vaultClaim,        \* VAULT#<week> of store.py
  vaultCards,        \* history: what was posted
  acked,             \* history: <<provider, run>> a write confirmed
  vaultFaults

vaultVars == <<keyRuns, history, collecting, vaultClaim, vaultCards, acked, vaultFaults>>

Provider == {"rio", "blizzard", "wcl"}
KeyMinutes == 3
Collector == Hourly \cup Tuesday
KeyRun == [at : 0..(KeyMinutes * MaxKeys + 1), level : KeyLevels]
Evidence == [Provider -> (SUBSET KeyRun) \cup {NoEvidence}]

ASSUME VaultNames == \A runs \in SUBSET KeyRun : NoEvidence # runs

NoHistory == [version |-> 0, evidence |-> [p \in Provider |-> NoEvidence]]
NotCollecting ==
  [step |-> 0, at |-> "off", obs |-> NoHistory.evidence, seen |-> NoHistory,
   tries |-> Reconciles]

VaultTypeOK ==
  /\ keyRuns \subseteq KeyRun
  /\ history.version \in Nat /\ history.evidence \in Evidence
  /\ \A c \in Collector :
       /\ collecting[c].step \in 0..4 /\ collecting[c].tries \in 1..Reconciles
       /\ collecting[c].obs \in Evidence
  /\ vaultClaim \in BOOLEAN /\ vaultFaults \in 0..MaxVaultFaults
  /\ acked \subseteq Provider \X KeyRun

VaultInit ==
  /\ keyRuns = {} /\ history = NoHistory
  /\ collecting = [c \in Collector |-> NotCollecting]
  /\ vaultClaim = FALSE /\ vaultCards = <<>> /\ acked = {} /\ vaultFaults = 0

-----------------------------------------------------------------------------
(* Pure rules *)

(* Two records of one completion: Raider.IO and Blizzard agree to the      *)
(* second, two uploaders' clocks to the minute.                            *)
SameRun(p, r, s) ==
  IF p = "wcl" THEN r.level = s.level /\ r.at <= s.at + 1 /\ s.at <= r.at + 1
  ELSE r.at = s.at

(* merge_runs: in order of time, each run the one kept that it is a record *)
(* of, at its highest level, or another completion.  So of uploaders'      *)
(* records those are kept that follow none kept by a minute.               *)
KeptRecords(runs) ==
  CHOOSE kept \in SUBSET runs :
    \A r \in runs : r \in kept <=> ~\E k \in kept : k.level = r.level /\ k.at + 1 = r.at

HighestAt(runs, t) == [at |-> t, level |-> Max({r.level : r \in {r \in runs : r.at = t}})]

MergedRuns(p, old, new) ==
  LET runs == old \cup new IN
  IF p = "wcl" THEN KeptRecords(runs) ELSE {HighestAt(runs, r.at) : r \in runs}

Known(e) == IF e = NoEvidence THEN {} ELSE e

(* A provider that could not be read never erases what is stored. *)
Combined(old, obs) ==
  [p \in Provider |->
     IF old[p] = NoEvidence /\ obs[p] = NoEvidence THEN NoEvidence
     ELSE MergedRuns(p, Known(old[p]), Known(obs[p]))]

AtLevel(runs) == Cardinality({r \in runs : r.level >= VaultLevel})
Slots(runs) == Cardinality({t \in VaultThresholds : AtLevel(runs) >= t})

(* best_source: one provider's runs, never a sum. *)
BestSource(e) ==
  LET available == {p \in Provider : e[p] # NoEvidence}
      best == {p \in available : \A q \in available :
                 Slots(e[q]) < Slots(e[p])
                   \/ (Slots(e[q]) = Slots(e[p]) /\ AtLevel(e[q]) <= AtLevel(e[p]))}
  IN IF best = {} THEN {} ELSE e[CHOOSE p \in best : TRUE]

-----------------------------------------------------------------------------
(* The character, and what providers show *)

CompletesKey(level) ==
  /\ Cardinality(keyRuns) < MaxKeys
  /\ keyRuns' = keyRuns \cup {[at |-> KeyMinutes * Cardinality(keyRuns), level |-> level]}
  /\ UNCHANGED <<history, collecting, vaultClaim, vaultCards, acked, vaultFaults>>

(* What a provider lists may miss a run, or a provider cannot be read:     *)
(* BOUND, each counts as a fault.  An uploader's clock may be late.        *)
Listed(p) ==
  {keyRuns} \cup (IF p = "wcl" THEN {{[r EXCEPT !.at = @ + 1] : r \in keyRuns}} ELSE {})

Answers(p, answer) ==
  \/ answer \in Listed(p) /\ UNCHANGED vaultFaults
  \/ /\ answer \in {NoEvidence} \cup {keyRuns \ {r} : r \in keyRuns}
     /\ vaultFaults < MaxVaultFaults /\ vaultFaults' = vaultFaults + 1

Answer(p) == Listed(p) \cup {NoEvidence} \cup {keyRuns \ {r} : r \in keyRuns}

-----------------------------------------------------------------------------
(* Invocations *)

NextStep(c, step) ==
  collecting' = [collecting EXCEPT ![c].step = step, ![c].at = "asks", ![c].tries = Reconciles,
                                   ![c].seen = NoHistory]

CollectorEnds(c) == collecting' = [collecting EXCEPT ![c] = [NotCollecting EXCEPT !.at = "done"]]

(* Raider.IO's profiles come first: the hourly collector saves them before *)
(* it asks anybody else, the Tuesday check saves once.                     *)
CollectorStarts(c) ==
  /\ collecting[c].at = "off"
  /\ \E runs \in Answer("rio") :
       /\ Answers("rio", runs)
       /\ collecting' = [collecting EXCEPT ![c] =
            [NotCollecting EXCEPT !.obs["rio"] = runs,
                                  !.step = IF c \in Tuesday THEN 4 ELSE 1,
                                  !.at = IF c \in Tuesday THEN "asks" ELSE "reads"]]
  /\ UNCHANGED <<keyRuns, history, vaultClaim, vaultCards, acked>>

(* The collector: Blizzard's profiles (2), its leaderboards (3), Warcraft  *)
(* Logs (4).  The check: Warcraft Logs (4), then Blizzard's profiles (2).  *)
(* A provider that raises is None.                                         *)
AsksBlizzard(c) ==
  /\ collecting[c].at = "asks" /\ collecting[c].step \in {2, 3}
  /\ \E runs \in Answer("blizzard") :
       /\ Answers("blizzard", runs)
       /\ LET known == collecting[c].obs["blizzard"]
              both == IF known = NoEvidence /\ runs = NoEvidence THEN NoEvidence
                      ELSE Known(known) \cup Known(runs)
          IN collecting' = [collecting EXCEPT ![c].obs["blizzard"] = both,
                              ![c].at = "reads"]
  /\ UNCHANGED <<keyRuns, history, vaultClaim, vaultCards, acked>>

(* "all vault providers unavailable": nothing more is written. *)
AsksLogs(c) ==
  /\ collecting[c].at = "asks" /\ collecting[c].step = 4
  /\ \E runs \in Answer("wcl") :
       /\ Answers("wcl", runs)
       /\ LET obs == [collecting[c].obs EXCEPT !["wcl"] = runs]
          IN collecting' = [collecting EXCEPT ![c].obs = obs,
               ![c].step = IF c \in Tuesday THEN 2 ELSE 4,
               ![c].at = IF c \in Tuesday THEN "asks"
                         ELSE IF \A p \in Provider : obs[p] = NoEvidence THEN "done"
                         ELSE "reads"]
  /\ UNCHANGED <<keyRuns, history, vaultClaim, vaultCards, acked>>

(* reconcile: a consistent read, the union, a write of the version read. *)
ReadsHistory(c) ==
  /\ collecting[c].at = "reads"
  /\ collecting' = [collecting EXCEPT ![c].seen = history, ![c].at = "writes"]
  /\ UNCHANGED <<keyRuns, history, vaultClaim, vaultCards, acked, vaultFaults>>

(* A variant: the row is put whatever it holds now. *)
Overwrites(c) == TRUE

(* The condition of the put. *)
Unchanged(c) == history.version = collecting[c].seen.version

Puts(c) ==
  history' = [version |-> collecting[c].seen.version + 1,
              evidence |-> Combined(collecting[c].seen.evidence, collecting[c].obs)]

(* What follows a save: the next provider, the end, or Tuesday's card. *)
AfterSave(c) ==
  LET this == collecting[c] IN
  IF c \in Tuesday
    THEN collecting' = [collecting EXCEPT ![c].at = "claims", ![c].obs = history'.evidence,
                                            ![c].seen = NoHistory]
  ELSE IF this.step = 4 THEN CollectorEnds(c)
  ELSE NextStep(c, this.step + 1)

(* reconcile raises: Blizzard's save is inside its try, the others end it. *)
SaveRaises(c) ==
  IF c \in Hourly /\ collecting[c].step = 2
    THEN collecting' = [collecting EXCEPT ![c].step = 3, ![c].at = "reads", ![c].tries = Reconciles,
                                            ![c].seen = NoHistory]
  ELSE CollectorEnds(c)

SavesEvidence(c) ==
  /\ collecting[c].at = "writes" /\ Unchanged(c)
  /\ Puts(c)
  /\ acked' = acked \cup {pr \in Provider \X KeyRun : pr[2] \in Known(collecting[c].obs[pr[1]])}
  /\ AfterSave(c)
  /\ UNCHANGED <<keyRuns, vaultClaim, vaultCards, vaultFaults>>

(* Another writer came between: read again, five times in all. *)
WriteRefused(c) ==
  /\ collecting[c].at = "writes" /\ ~Unchanged(c)
  /\ IF collecting[c].tries > 1
       THEN collecting' = [collecting EXCEPT ![c].tries = @ - 1, ![c].at = "reads",
                                                    ![c].seen = NoHistory]
     ELSE SaveRaises(c)
  /\ UNCHANGED <<keyRuns, history, vaultClaim, vaultCards, acked, vaultFaults>>

(* Any other answer, or none: the write may have landed. *)
WriteFails(c) ==
  /\ collecting[c].at = "writes" /\ vaultFaults < MaxVaultFaults /\ vaultFaults' = vaultFaults + 1
  /\ (Unchanged(c) /\ Puts(c)) \/ UNCHANGED history
  /\ SaveRaises(c)
  /\ UNCHANGED <<keyRuns, vaultClaim, vaultCards, acked>>

(* claim_vault: once, never released. *)
ClaimsWeek(c) ==
  /\ collecting[c].at = "claims"
  /\ IF vaultClaim THEN CollectorEnds(c) ELSE collecting' = [collecting EXCEPT ![c].at = "posts"]
  /\ vaultClaim' = TRUE
  /\ UNCHANGED <<keyRuns, history, vaultCards, acked, vaultFaults>>

(* One attempt; with or without an answer the week is over. *)
PostsWeek(c) ==
  /\ collecting[c].at = "posts" /\ CollectorEnds(c)
  /\ \/ vaultCards' = Append(vaultCards, BestSource(collecting[c].obs))
     \/ UNCHANGED vaultCards
  /\ UNCHANGED <<keyRuns, history, vaultClaim, acked, vaultFaults>>

VaultDies(c) ==
  /\ collecting[c].at \notin {"off", "done"}
  /\ vaultFaults < MaxVaultFaults /\ vaultFaults' = vaultFaults + 1
  /\ CollectorEnds(c)
  /\ UNCHANGED <<keyRuns, history, vaultClaim, vaultCards, acked>>

-----------------------------------------------------------------------------
VaultSteps(c) ==
  \/ CollectorStarts(c)
  \/ AsksBlizzard(c) \/ AsksLogs(c) \/ ReadsHistory(c)
  \/ SavesEvidence(c) \/ WriteRefused(c) \/ WriteFails(c)
  \/ ClaimsWeek(c) \/ PostsWeek(c) \/ VaultDies(c)

VaultNext ==
  \/ \E level \in KeyLevels : CompletesKey(level)
  \/ \E c \in Collector : VaultSteps(c)

VaultSpec == VaultInit /\ [][VaultNext]_vaultVars

-----------------------------------------------------------------------------
(* What holds *)

(* "Missing provider evidence never erases stored evidence", "Optimistic   *)
(* writes prevent overlapping collectors from losing observations".        *)
EvidenceKept ==
  \A seen \in acked : \E r \in Known(history.evidence[seen[1]]) :
    SameRun(seen[1], r, seen[2]) /\ r.level >= seen[2].level

(* No provider's evidence holds more than the character did.               *)
NoMoreThanDone(runs) ==
  \A level \in KeyLevels : Cardinality({r \in runs : r.level >= level})
                         <= Cardinality({r \in keyRuns : r.level >= level})

(* Evidence once stored stays, and counts no completion twice, whoever     *)
(* overlaps, fails or dies; the week's card goes out once and promises no  *)
(* slot that was not earned ("never sum counts across providers").         *)
VaultPromise ==
  /\ EvidenceKept
  /\ \A p \in Provider : NoMoreThanDone(Known(history.evidence[p]))
  /\ Len(vaultCards) <= 1
  /\ \A i \in DOMAIN vaultCards : NoMoreThanDone(vaultCards[i])
=============================================================================
