------------------------------- MODULE Listening ------------------------------
(***************************************************************************)
(* The listening sessions of src/control/greybot_control/voice_clips.py:   *)
(* greyBot's account and its helpers, one voice connection each, joined by *)
(* /clip, left by Stop or when everybody has gone, and joined again after  *)
(* a lost connection or a restart.  The worker's loop takes one request or *)
(* one account's tick at a time; Discord, the members and a crash come in  *)
(* between.  What a capture becomes is VoiceClips'.                        *)
(***************************************************************************)
EXTENDS Naturals, FiniteSets

CONSTANTS
  Account,           \* greyBot and its helper bots
  Channel,           \* voice channels
  Nowhere,           \* no voice_status row
  Attempts,          \* tries to come back before it gives up
  MaxLinkFaults     \* BOUND: failures, crashes and moves

ASSUME ListeningNames == Nowhere \notin Channel
ASSUME ListeningBounds == Attempts \in Nat \ {0} /\ MaxLinkFaults \in Nat

VARIABLES
  link,              \* [Account -> LinkState]: the connection; "down": not connected now
  place,             \* [Account -> Channel or Nowhere]: the channel it is for
  home,              \* [Account -> Channel or Nowhere]: the voice_status rows
  tries,             \* [Account -> Nat]: attempts
  wait,              \* accounts whose next try is a minute away
  occupied,          \* channels with somebody in them
  task,              \* what the worker's loop is in
  noticed,           \* history: [Account -> SUBSET Channel]: told, for this session
  heard,             \* history: [Account -> SUBSET Channel]: whose audio the buffer holds
  dragged,           \* history: accounts somebody dragged, since they last left
  stopped,           \* history: channels where Stop was answered, and nobody asked again
  linkFaults

sessions == <<link, place, home, tries, wait>>
listeningGhosts == <<noticed, heard, dragged, stopped>>
listeningVars == <<sessions, occupied, task, listeningGhosts, linkFaults>>

VoiceTask == [kind : {"none", "clip", "back", "alone", "stop"},
         at : {"idle", "notice", "join", "leave", "forget"},
         accounts : SUBSET Account, channel : Channel \cup {Nowhere}]
NoTask == [kind |-> "none", at |-> "idle", accounts |-> {}, channel |-> Nowhere]

ListeningTypeOK ==
  /\ link \in [Account -> {"none", "up", "down"}]
  /\ place \in [Account -> Channel \cup {Nowhere}] /\ home \in [Account -> Channel \cup {Nowhere}]
  /\ tries \in [Account -> 0..Attempts] /\ wait \subseteq Account
  /\ occupied \subseteq Channel /\ task \in VoiceTask
  /\ noticed \in [Account -> SUBSET Channel] /\ heard \in [Account -> SUBSET Channel]
  /\ dragged \subseteq Account /\ stopped \subseteq Channel /\ linkFaults \in 0..MaxLinkFaults

ListeningInit ==
  /\ link = [a \in Account |-> "none"] /\ place = [a \in Account |-> Nowhere]
  /\ home = [a \in Account |-> Nowhere] /\ tries = [a \in Account |-> 0] /\ wait = {}
  /\ occupied = Channel /\ task = NoTask
  /\ noticed = [a \in Account |-> {}] /\ heard = [a \in Account |-> {}]
  /\ dragged = {} /\ stopped = {} /\ linkFaults = 0

LinkFault == linkFaults < MaxLinkFaults /\ linkFaults' = linkFaults + 1

Up(a) == link[a] = "up"
NotBusy == task.at = "idle"

-----------------------------------------------------------------------------
(* Discord and the members *)

Comes(c) ==
  /\ c \notin occupied /\ occupied' = occupied \cup {c}
  /\ UNCHANGED <<sessions, task, listeningGhosts, linkFaults>>

EverybodyGoes(c) ==
  /\ c \in occupied /\ occupied' = occupied \ {c}
  /\ UNCHANGED <<sessions, task, listeningGhosts, linkFaults>>

(* The connection drops; the library may bring it back by itself. *)
Drops(a) ==
  /\ Up(a) /\ LinkFault
  /\ link' = [link EXCEPT ![a] = "down"]
  /\ UNCHANGED <<place, home, tries, wait, occupied, task, listeningGhosts>>

Resumes(a) ==
  /\ link[a] = "down"
  /\ link' = [link EXCEPT ![a] = "up"]
  /\ UNCHANGED <<place, home, tries, wait, occupied, task, listeningGhosts, linkFaults>>

(* Somebody drags the account into another channel; it goes on recording.  *)
Dragged(a, c) ==
  /\ Up(a) /\ c # place[a] /\ LinkFault
  /\ place' = [place EXCEPT ![a] = c]
  /\ heard' = [heard EXCEPT ![a] = @ \cup {c}]
  /\ dragged' = dragged \cup {a} /\ stopped' = stopped \ {c}
  /\ UNCHANGED <<link, home, tries, wait, occupied, task, noticed>>

MinutePasses(a) ==
  /\ a \in wait /\ wait' = wait \ {a}
  /\ UNCHANGED <<link, place, home, tries, occupied, task, listeningGhosts, linkFaults>>

-----------------------------------------------------------------------------
(* leave() and forget() *)

(* leave: whatever disconnecting does, the buffer is cleared and the       *)
(* connection is let go of.                                                *)
Left(accounts) ==
  /\ link' = [a \in Account |-> IF a \in accounts THEN "none" ELSE link[a]]
  /\ place' = [a \in Account |-> IF a \in accounts THEN Nowhere ELSE place[a]]
  /\ heard' = [a \in Account |-> IF a \in accounts THEN {} ELSE heard[a]]
  /\ noticed' = [a \in Account |-> IF a \in accounts THEN {} ELSE noticed[a]]
  /\ dragged' = dragged \ accounts

Forgotten(accounts) == [a \in Account |-> IF a \in accounts THEN Nowhere ELSE home[a]]

(* A variant: what a failed tick costs is only counted for a refusal. *)
GivesUpDenied(a, denied) ==
  /\ tries' = [tries EXCEPT ![a] = IF denied THEN 0 ELSE @]
  /\ home' = IF denied THEN Forgotten({a}) ELSE home

(* A failed tick counts against the account: Denied, or the last try,      *)
(* gives its channel up.                                                   *)
GivesUp(a, denied) ==
  LET over == denied \/ tries[a] + 1 >= Attempts IN
  /\ tries' = [tries EXCEPT ![a] = IF over THEN 0 ELSE @ + 1]
  /\ home' = IF over THEN Forgotten({a}) ELSE home

-----------------------------------------------------------------------------
(* /clip where nobody listens: the notice, then the connection *)

(* From a member in the channel, whom Discord places there now. *)
ClipAsked(a, c) ==
  /\ NotBusy /\ c \in occupied
  /\ \A b \in Account : ~(Up(b) /\ place[b] = c)
  /\ ~Up(a)
  /\ task' = [kind |-> "clip", at |-> "notice", accounts |-> {a}, channel |-> c]
  /\ stopped' = stopped \ {c}
  /\ UNCHANGED <<sessions, occupied, noticed, heard, dragged, linkFaults>>

(* A variant: the connection is made first and the notice posted after. *)
JoinsFirst(a, c) ==
  /\ noticed' = noticed
  /\ task' = [task EXCEPT !.at = "join"]

(* The notice is in the channel. *)
NoticeIsPosted(a, c) ==
  /\ noticed' = [noticed EXCEPT ![a] = @ \cup {c}]
  /\ task' = [task EXCEPT !.at = "join"]

(* What goes wrong on the way back is counted, as often as it may go       *)
(* wrong; a /clip is only answered.                                        *)
Fails(a, denied) ==
  /\ task' = NoTask
  /\ IF task.kind = "back" THEN GivesUp(a, denied) ELSE UNCHANGED <<home, tries>>

PostNotice(a) ==
  /\ task.at = "notice" /\ a \in task.accounts
  /\ \/ NoticeIsPosted(a, task.channel) /\ UNCHANGED <<home, tries>>
     \/ (\E denied \in BOOLEAN : Fails(a, denied)) /\ UNCHANGED noticed
  /\ UNCHANGED <<link, place, wait, occupied, heard, dragged, stopped, linkFaults>>

(* join leaves what the account was in, connects, and says so aloud, which *)
(* may raise when it is already recording.                                 *)
Join(a) ==
  LET c == task.channel IN
  /\ task.at = "join" /\ a \in task.accounts
  /\ dragged' = dragged \ {a}
  /\ \/ /\ link' = [link EXCEPT ![a] = "up"]
        /\ place' = [place EXCEPT ![a] = c]
        /\ heard' = [heard EXCEPT ![a] = {c}]
        /\ noticed' = [noticed EXCEPT ![a] = @ \cap {c}]
        /\ \/ /\ task' = NoTask /\ tries' = [tries EXCEPT ![a] = 0]
              /\ UNCHANGED home
           \/ Fails(a, FALSE)
     \/ /\ link' = [link EXCEPT ![a] = "none"]
        /\ place' = [place EXCEPT ![a] = Nowhere]
        /\ heard' = [heard EXCEPT ![a] = {}] /\ noticed' = [noticed EXCEPT ![a] = {}]
        /\ \E denied \in BOOLEAN : Fails(a, denied)
  /\ UNCHANGED <<wait, occupied, stopped, linkFaults>>

-----------------------------------------------------------------------------
(* Stop: the account that listens to the member's channel, or all of them  *)
(* for an administrator elsewhere                                          *)

StopAsked(c) ==
  /\ NotBusy
  /\ LET here == {a \in Account : Up(a) /\ place[a] = c} IN
     \/ /\ c \in occupied
        /\ \E a \in here :
             task' = [kind |-> "stop", at |-> "leave", accounts |-> {a}, channel |-> c]
     \/ /\ here = {}
        /\ task' = [kind |-> "stop", at |-> "leave", accounts |-> Account, channel |-> Nowhere]
  /\ UNCHANGED <<sessions, occupied, listeningGhosts, linkFaults>>

LeaveChannel ==
  /\ task.at = "leave" /\ Left(task.accounts)
  /\ \/ task' = [task EXCEPT !.at = "forget"] /\ UNCHANGED linkFaults
     \/ LinkFault /\ task' = NoTask
  /\ UNCHANGED <<home, tries, wait, occupied, stopped>>

(* The row goes, and with it the way back. *)
HomesAfterStop(accounts) == Forgotten(accounts)

(* Whether nobody else of the pool is in the channel or on its way there. *)
OnlyOne(c) ==
  \A b \in Account \ task.accounts : home[b] # c /\ place[b] # c

Forget ==
  /\ task.at = "forget"
  /\ home' = HomesAfterStop(task.accounts)
  /\ stopped' = IF task.kind # "stop" THEN stopped
                ELSE IF task.channel = Nowhere THEN Channel
                ELSE IF OnlyOne(task.channel) THEN stopped \cup {task.channel} ELSE stopped
  /\ task' = NoTask
  /\ UNCHANGED <<link, place, tries, wait, occupied, noticed, heard, dragged, linkFaults>>

-----------------------------------------------------------------------------
(* The tick of one account *)

(* Nobody left to clip for. *)
TickAlone(a) ==
  /\ NotBusy /\ Up(a) /\ place[a] \notin occupied
  /\ Left({a})
  /\ task' = [kind |-> "alone", at |-> "forget", accounts |-> {a}, channel |-> Nowhere]
  /\ UNCHANGED <<home, tries, wait, occupied, stopped, linkFaults>>

(* It is where it belongs, and the row says so. *)
TickListening(a) ==
  /\ NotBusy /\ Up(a) /\ place[a] \in occupied
  /\ home' = [home EXCEPT ![a] = place[a]]
  /\ tries' = [tries EXCEPT ![a] = 0]
  /\ home' # home \/ tries' # tries
  /\ UNCHANGED <<link, place, wait, occupied, task, listeningGhosts, linkFaults>>

(* Not connected, with a channel to go back to. *)
ReturnDue(a) == NotBusy /\ ~Up(a) /\ home[a] # Nowhere /\ a \notin wait

TickForgets(a) ==
  /\ ReturnDue(a) /\ home[a] \notin occupied
  /\ home' = Forgotten({a})
  /\ UNCHANGED <<link, place, tries, wait, occupied, task, listeningGhosts, linkFaults>>

(* Whether the channel is empty is not asked of a client that does not     *)
(* know it yet.                                                            *)
TickReturns(a) ==
  /\ ReturnDue(a)
  /\ IF home[a] \in occupied THEN UNCHANGED linkFaults ELSE LinkFault
  /\ wait' = wait \cup {a}
  /\ Left({a})
  /\ task' = [kind |-> "back", at |-> "notice", accounts |-> {a}, channel |-> home[a]]
  /\ UNCHANGED <<home, tries, occupied, stopped>>

(* A crash, or a shutdown, which leaves without forgetting. *)
VoiceWorkerRestarts ==
  /\ LinkFault
  /\ Left(Account) /\ task' = NoTask
  /\ tries' = [a \in Account |-> 0] /\ wait' = {}
  /\ UNCHANGED <<home, occupied, stopped>>

-----------------------------------------------------------------------------
ListeningSteps ==
  \/ \E a \in Account : PostNotice(a) \/ Join(a)
  \/ LeaveChannel \/ Forget
Ticks(a) == TickAlone(a) \/ TickListening(a) \/ TickForgets(a) \/ TickReturns(a)

ListeningNext ==
  \/ \E c \in Channel : Comes(c) \/ EverybodyGoes(c) \/ StopAsked(c)
  \/ \E a \in Account : Drops(a) \/ Resumes(a) \/ MinutePasses(a) \/ Ticks(a)
  \/ \E a \in Account, c \in Channel : Dragged(a, c) \/ ClipAsked(a, c)
  \/ ListeningSteps \/ VoiceWorkerRestarts

ListeningSpec ==
  /\ ListeningInit /\ [][ListeningNext]_listeningVars
  /\ WF_listeningVars(ListeningSteps)
  /\ \A a \in Account : SF_listeningVars(Ticks(a)) /\ WF_listeningVars(MinutePasses(a))

-----------------------------------------------------------------------------
(* What holds *)

(* "No notice, no listening" (run): what an account's buffer holds was     *)
(* said in a channel that was told of this very session, first joins and   *)
(* returns alike.  Somebody who drags the account elsewhere is not seen.   *)
NoticeFirst == \A a \in Account \ dragged : heard[a] \subseteq noticed[a]

(* Once Stop is answered no account comes back to the channel before       *)
(* somebody asks or drags it there, restarts and lost connections included *)
(* ("Forgetting the channel is what makes it final").  Where a second      *)
(* account was in the channel too, or on its way back, that one stays.     *)
StopIsFinal ==
  \A a \in Account : Up(a) => place[a] \notin stopped

(* An account that has a channel to go back to is there in the end or      *)
(* gives it up: it never tries, and posts its notice, for ever.            *)
BackOrGivenUp ==
  \A a \in Account : home[a] # Nowhere ~> (Up(a) \/ home[a] = Nowhere)
=============================================================================
