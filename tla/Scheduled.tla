------------------------------ MODULE Scheduled -------------------------------
(***************************************************************************)
(* The bot's other scheduled posts for one team: the nightly recap, the    *)
(* roll call and the vault digest, the raid meta achievement.  They are    *)
(* invocations of one program against one table, but no row, lock or       *)
(* message of one is read or written by another, so a behaviour of all of  *)
(* them is an interleaving of one of each, and a property of one component *)
(* holds of it exactly when it holds while the others stand still.  The    *)
(* behaviours here let one component move.                                 *)
(***************************************************************************)
EXTENDS Recap, OneAttempt, Glory

VARIABLE moving     \* the component that moves

scheduledVars == <<recapVars, oneAttemptVars, gloryVars, moving>>

ScheduledTypeOK ==
  /\ RecapTypeOK /\ OneAttemptTypeOK /\ GloryTypeOK
  /\ moving \in {"recap", "attempt", "glory"}

ScheduledInit ==
  /\ RecapInit /\ OneAttemptInit /\ GloryInit
  /\ moving \in {"recap", "attempt", "glory"}

RecapMoves == moving = "recap" /\ RecapNext /\ UNCHANGED <<oneAttemptVars, gloryVars, moving>>
AttemptMoves == moving = "attempt" /\ OneAttemptNext /\ UNCHANGED <<recapVars, gloryVars, moving>>
GloryMoves == moving = "glory" /\ GloryNext /\ UNCHANGED <<recapVars, oneAttemptVars, moving>>

ScheduledNext == RecapMoves \/ AttemptMoves \/ GloryMoves

ScheduledSpec == ScheduledInit /\ [][ScheduledNext]_scheduledVars
=============================================================================
