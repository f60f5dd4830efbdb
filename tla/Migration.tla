------------------------------- MODULE Migration ------------------------------
(***************************************************************************)
(* The operator's move of a table to the tenant layout                     *)
(* (scripts/migrate-to-tenants.py): rows are copied one by one, each only  *)
(* where there is none, the announced sets are compared, and in the same   *)
(* run the old rows may be deleted.  A run may die at any of its writes    *)
(* and be started again; the poller of either layout may be at work, and   *)
(* only the announced sets are compared.  A row holds a set of facts: the  *)
(* bosses of a tier, the nights of RECAPS, what PROGRESS says.  The name   *)
(* and baseline of a tier go to a row of their own, which is not compared: *)
(* they fare as an OldFact does.                                           *)
(***************************************************************************)
EXTENDS Naturals, FiniteSets

CONSTANTS
  OldTier,           \* TIER# rows of the old layout
  OldFact,           \* its other rows that classify knows
  Stranger,          \* rows it does not know; {} is none
  Felled,            \* what a row may hold: bosses, nights
  Known0,            \* what an old row starts with
  MaxMigrations,     \* BOUND: runs of the script
  MaxOldPolls,       \* BOUND: writes of the old layout's poller
  MaxNewPolls        \* BOUND: writes of the new layout's poller

ASSUME MigrationBounds ==
  /\ Known0 \subseteq Felled /\ {MaxMigrations, MaxOldPolls, MaxNewPolls} \subseteq Nat
  /\ OldTier \cap OldFact = {} /\ (OldTier \cup OldFact) \cap Stranger = {}
  /\ IsFiniteSet(OldTier \cup OldFact \cup Stranger)

VARIABLES
  oldRows,           \* [row -> what it holds]
  newRows,           \* the rows of the new layout
  configuredNew,     \* CONFIG and registry are written
  migration,         \* the run of the script
  migrations,        \* runs so far
  polled,            \* [old, new]: writes of pollers so far
  deletedRows        \* history: [row -> what was read of it, and whether the
                     \* run that deleted it said its target was left alone]

migrationVars == <<oldRows, newRows, configuredNew, migration, migrations, polled,
                   deletedRows>>

NoMigration == [step |-> "idle"]
OldRow == OldTier \cup OldFact \cup Stranger
NoRows == [r \in {} |-> {}]
Putting(f, r, v) == [x \in DOMAIN f \cup {r} |-> IF x = r THEN v ELSE f[x]]
Without(f, r) == [x \in DOMAIN f \ {r} |-> f[x]]

MigrationInit ==
  /\ \E strangers \in {{}, Stranger} :
       oldRows = [r \in OldTier \cup OldFact \cup strangers |-> Known0]
  /\ newRows = NoRows /\ configuredNew = FALSE /\ deletedRows = NoRows
  /\ migration = NoMigration /\ migrations = 0 /\ polled = [old |-> 0, new |-> 0]

-----------------------------------------------------------------------------
(* The pollers *)

(* The old layout's poller adds to a row, or puts one there: bosses to a   *)
(* tier, a night to RECAPS, a KILL# row.                                   *)
OldPollWrites(r, fact) ==
  /\ polled.old < MaxOldPolls /\ polled' = [polled EXCEPT !.old = @ + 1]
  /\ r \in DOMAIN oldRows => fact \notin oldRows[r]
  /\ oldRows' = Putting(oldRows, r, IF r \in DOMAIN oldRows THEN oldRows[r] \cup {fact} ELSE {fact})
  /\ UNCHANGED <<newRows, configuredNew, migration, migrations, deletedRows>>

(* So does the new one's, when it is deployed.  A tier without a row is    *)
(* seeded, with what was announced or without it: Announcer's matter.      *)
NewPollWrites(r, row) ==
  /\ polled.new < MaxNewPolls /\ polled' = [polled EXCEPT !.new = @ + 1]
  /\ r \in DOMAIN newRows => newRows[r] \subseteq row /\ newRows[r] # row
  /\ newRows' = Putting(newRows, r, row)
  /\ UNCHANGED <<oldRows, configuredNew, migration, migrations, deletedRows>>

-----------------------------------------------------------------------------
(* The script *)

(* The rows are read once; a row nobody classified stops it all. *)
Classify(r) == r \in OldTier \cup OldFact

QueriesRows(apply, deleteOld) ==
  /\ migration = NoMigration /\ migrations < MaxMigrations /\ migrations' = migrations + 1
  /\ migration' = IF oldRows = NoRows \/ ~apply \/ \E r \in DOMAIN oldRows : ~Classify(r)
                  THEN NoMigration
                  ELSE [step |-> "copy", rows |-> oldRows, left |-> DOMAIN oldRows,
                        told |-> {}, deleteOld |-> deleteOld, ok |-> TRUE]
  /\ UNCHANGED <<oldRows, newRows, configuredNew, polled, deletedRows>>

(* Each only where nothing is; what is there is "left alone", it says. *)
CopiesRow(r) ==
  /\ migration.step = "copy" /\ r \in migration.left
  /\ newRows' = IF r \in DOMAIN newRows THEN newRows ELSE Putting(newRows, r, migration.rows[r])
  /\ migration' = [migration EXCEPT !.left = @ \ {r},
                     !.told = IF r \in DOMAIN newRows THEN @ \cup {r} ELSE @,
                     !.step = IF migration.left = {r} THEN "config" ELSE @]
  /\ UNCHANGED <<oldRows, configuredNew, migrations, polled, deletedRows>>

WritesConfig ==
  /\ migration.step = "config" /\ configuredNew' = TRUE
  /\ migration' = [migration EXCEPT !.step = "verify", !.left = OldTier \cap DOMAIN migration.rows]
  /\ UNCHANGED <<oldRows, newRows, migrations, polled, deletedRows>>

(* A variant: a row that is there is enough. *)
IsThere(r) == r \in DOMAIN newRows

(* The announced set that was read is the one that is there. *)
SameAnnounced(r) == r \in DOMAIN newRows /\ newRows[r] = migration.rows[r]

VerifiesTier(r) ==
  /\ migration.step = "verify" /\ r \in migration.left
  /\ migration' = [migration EXCEPT !.left = @ \ {r}, !.ok = @ /\ SameAnnounced(r)]
  /\ UNCHANGED <<oldRows, newRows, configuredNew, migrations, polled, deletedRows>>

AllCompared ==
  /\ migration.step = "verify" /\ migration.left = {}
  /\ migration' = IF migration.ok /\ migration.deleteOld
                  THEN [migration EXCEPT !.step = "delete", !.left = DOMAIN migration.rows]
                  ELSE NoMigration
  /\ UNCHANGED <<oldRows, newRows, configuredNew, migrations, polled, deletedRows>>

DeletesOld(r) ==
  /\ migration.step = "delete" /\ r \in migration.left
  /\ oldRows' = Without(oldRows, r)
  /\ deletedRows' = IF r \in DOMAIN oldRows
                    THEN Putting(deletedRows, r, [held |-> migration.rows[r],
                                                  told |-> r \in migration.told])
                    ELSE deletedRows
  /\ migration' = IF migration.left = {r} THEN NoMigration
                  ELSE [migration EXCEPT !.left = @ \ {r}]
  /\ UNCHANGED <<newRows, configuredNew, migrations, polled>>

MigrationDies ==
  /\ migration # NoMigration /\ migration' = NoMigration
  /\ UNCHANGED <<oldRows, newRows, configuredNew, migrations, polled, deletedRows>>

-----------------------------------------------------------------------------
MigrationNext ==
  \/ \E r \in OldTier \cup OldFact, fact \in Felled : OldPollWrites(r, fact)
  \/ \E r \in OldTier \cup OldFact, row \in SUBSET Felled : NewPollWrites(r, row)
  \/ \E apply, deleteOld \in BOOLEAN : QueriesRows(apply, deleteOld)
  \/ \E r \in OldRow : CopiesRow(r) \/ VerifiesTier(r) \/ DeletesOld(r)
  \/ WritesConfig \/ AllCompared \/ MigrationDies

MigrationSpec == MigrationInit /\ [][MigrationNext]_migrationVars

-----------------------------------------------------------------------------
StillThere(r) == deletedRows[r].held \subseteq newRows[r]

(* An old row goes only when the new layout has that row, with all the old *)
(* one had when it was read; or, for a row that is no tier, when that very *)
(* run said that the target was left alone: after any number of runs that  *)
(* died or met a poller.  "Re-running after a partial failure is safe"     *)
(* says more, but what an old-layout poll adds to such a row after a run   *)
(* has copied it goes with the old row.  A row nobody classified keeps     *)
(* every other in place.                                                   *)
NothingLost ==
  /\ \A r \in DOMAIN deletedRows :
       /\ r \in DOMAIN newRows
       /\ StillThere(r) \/ (r \notin OldTier /\ deletedRows[r].told)
  /\ deletedRows # NoRows => configuredNew /\ DOMAIN oldRows \cap Stranger = {}
=============================================================================
