------------------------------- MODULE Background ------------------------------
(***************************************************************************)
(* What goes on without anybody looking: the control worker's raid         *)
(* signups, journal feed and anniversaries, moved reports and featured     *)
(* posts and saved voice clips, and the announcer's alert e-mails.  The    *)
(* worker's maintenance loop runs its parts one after another every five   *)
(* seconds; the alerts are another program.  Each part has tables and      *)
(* messages of its own, and the job queue the worker's share decides no    *)
(* more than whose request is next.  So a behaviour is an interleaving of  *)
(* one of each, and a property of one part holds of it exactly when it     *)
(* holds while the others stand still: the behaviours here let one part    *)
(* move, and one run checks them all.                                      *)
(***************************************************************************)
EXTENDS Raids, Feed, Reposts, VoiceClips, Alerts

VARIABLE moving     \* the component that moves

backgroundVars == <<raidVars, feedVars, repostVars, voiceVars, alertVars, moving>>
Component == {"raids", "feed", "reposts", "voice", "alerts"}

BackgroundTypeOK ==
  /\ RaidsTypeOK /\ FeedTypeOK /\ RepostsTypeOK /\ VoiceTypeOK /\ AlertsTypeOK
  /\ moving \in Component

BackgroundInit ==
  /\ RaidsInit /\ FeedInit /\ RepostsInit /\ VoiceInit /\ AlertsInit
  /\ moving \in Component
  /\ moving # "alerts" => watch = "source" /\ trouble = "ok"

RaidsMove ==
  /\ moving = "raids" /\ RaidsNext
  /\ UNCHANGED <<feedVars, repostVars, voiceVars, alertVars, moving>>
FeedMoves ==
  /\ moving = "feed" /\ FeedNext
  /\ UNCHANGED <<raidVars, repostVars, voiceVars, alertVars, moving>>
RepostsMove ==
  /\ moving = "reposts" /\ RepostsNext
  /\ UNCHANGED <<raidVars, feedVars, voiceVars, alertVars, moving>>
VoiceMoves ==
  /\ moving = "voice" /\ VoiceNext
  /\ UNCHANGED <<raidVars, feedVars, repostVars, alertVars, moving>>

AlertsMove ==
  /\ moving = "alerts" /\ AlertsNext
  /\ UNCHANGED <<raidVars, feedVars, repostVars, voiceVars, moving>>

BackgroundNext == RaidsMove \/ FeedMoves \/ RepostsMove \/ VoiceMoves \/ AlertsMove

(* The loop comes round for as long as the worker lives, the schedule      *)
(* polls every fifteen minutes, and the hours go by.                       *)
RestStill == <<feedVars, repostVars, voiceVars, moving>>
BackgroundSpec ==
  /\ BackgroundInit /\ [][BackgroundNext]_backgroundVars
  /\ WF_backgroundVars(moving = "raids" /\ LoopSteps /\ UNCHANGED <<RestStill, alertVars>>)
  /\ \A p \in Poll :
       WF_backgroundVars(moving = "alerts" /\ PollSteps(p) /\ UNCHANGED <<RestStill, raidVars>>)
  /\ WF_backgroundVars(moving = "alerts" /\ TimePasses /\ UNCHANGED <<RestStill, raidVars>>)

-----------------------------------------------------------------------------
(* A raid has one signup card, a nominee one featured card, a clip one     *)
(* sound: whatever dies, is retried or is asked for twice.                 *)
PostedOnce == RaidCardOnce /\ FeaturedOnce /\ SoundOnce
=============================================================================
