-------------------------------- MODULE Rounds ---------------------------------
(***************************************************************************)
(* What comes round: the poll of the installs, the voice accounts' ticks,  *)
(* and the collection and records of Mythic+ runs.  They share no row with *)
(* one another, so a behaviour lets one of them move (as in Scheduled and  *)
(* Background); here each must come round again and again for what it owes *)
(* to happen.                                                              *)
(***************************************************************************)
EXTENDS Installs, Listening, Mythic

VARIABLE turning    \* what moves

roundVars == <<installVars, listeningVars, mythicVars, turning>>

(* What stands still begins in one way. *)
RoundsInit ==
  /\ turning \in {"installs", "listening", "mythic"}
  /\ InstallsInit /\ (turning = "installs" \/ (broken = {} /\ killed = [g \in Guild |-> Kill]))
  /\ MythicInit /\ (turning = "mythic" \/ \A r, s \in Run : r < s => level[r] < level[s])
  /\ ListeningInit

InstallsTurn == turning = "installs" /\ UNCHANGED <<listeningVars, mythicVars, turning>>
ListeningTurns == turning = "listening" /\ UNCHANGED <<installVars, mythicVars, turning>>
MythicTurns == turning = "mythic" /\ UNCHANGED <<installVars, listeningVars, turning>>

RoundsNext ==
  \/ (InstallsTurn /\ InstallsNext)
  \/ (ListeningTurns /\ ListeningNext)
  \/ (MythicTurns /\ MythicNext)

(* Fairness is each module's own: the schedules fire, the worker's loop    *)
(* goes on, minutes pass.  As only one of them moves, what two of them owe *)
(* is put into one condition.                                              *)
RoundsSpec ==
  /\ RoundsInit /\ [][RoundsNext]_roundVars
  /\ WF_roundVars(\/ InstallsTurn /\ InstallPollSteps
                  \/ ListeningTurns /\ ListeningSteps
                  \/ MythicTurns /\ CollectorSteps)
  /\ WF_roundVars(\/ ListeningTurns /\ \E a \in Account : MinutePasses(a)
                  \/ MythicTurns /\ JobSteps)
  /\ \A a \in Account : SF_roundVars(ListeningTurns /\ Ticks(a))

-----------------------------------------------------------------------------
(* What each owes, where it moves. *)

(* A served install is polled again and again (EveryoneIsPolled): one      *)
(* tenant's failure is contained by the fan-out of handler().              *)
InstallsArePolled == turning = "installs" => EveryoneIsPolled

(* A voice account with a channel to go back to is there in the end or     *)
(* gives it up (BackOrGivenUp).                                            *)
AccountsSettle == turning = "listening" => BackOrGivenUp

(* A completed run counts in the records in the end (RecordStands).        *)
RecordsStand == turning = "mythic" => RecordStands
=============================================================================
