--------------------------------- MODULE Gate ---------------------------------
(***************************************************************************)
(* The verified-member gate of control/greybot_control/onboarding_gate.py: *)
(* an operator's cutover after which newcomers see the public channels     *)
(* only.  It is planned from one reading of the server, refused when a     *)
(* single present member would see more or less, and applied one role or   *)
(* channel at a time: each is read again, written and read back.  It may   *)
(* be refused or end at any of them, and be started again from there.      *)
(* Only the permission to view is followed.                                *)
(***************************************************************************)
EXTENDS Naturals, FiniteSets

CONSTANTS
  GateChannel,       \* channels and categories
  GateCategory,      \* the categories among them
  Public,            \* welcome, rules, start and the configured ones
  Verified,          \* the verified member role
  OtherRole,         \* the other roles
  People,            \* the sets of roles the present members hold
  MaxOverwrites,     \* BOUND: channel overwrites of roles, to begin with
  MaxGateEdits           \* BOUND: administrators' edits during a cutover

Everyone == "everyone"
GateRole == {Everyone, Verified} \cup OtherRole

ASSUME GateNames ==
  /\ GateCategory \subseteq GateChannel /\ Public \subseteq GateChannel \ GateCategory
  /\ Everyone # Verified /\ {Everyone, Verified} \cap OtherRole = {}
  /\ People \subseteq SUBSET ({Verified} \cup OtherRole)
ASSUME GateBounds == MaxOverwrites \in Nat /\ MaxGateEdits \in Nat

VARIABLES
  perms,             \* [GateRole -> BOOLEAN]: roles that may view
  overwrites,        \* [GateChannel -> [GateRole -> {"none", "allow", "deny"}]]
  cutover,           \* the one in progress
  applied,           \* ONBOARDING_GATE_APPLIED is recorded
  saw,               \* history: [People -> SUBSET GateChannel]: before the first cutover
  edits              \* history: administrators' edits

gateVars == <<perms, overwrites, cutover, applied, saw, edits>>

Overwrite == [GateRole -> {"none", "allow", "deny"}]
Change == [kind : {"role"}, on : GateRole] \cup [kind : {"channel"}, on : GateChannel]
Server == [perms : [GateRole -> BOOLEAN], overwrites : [GateChannel -> Overwrite]]
Live == [perms |-> perms, overwrites |-> overwrites]
NoChange == [kind |-> "none"]
NoCutover == [at |-> "idle"]

GateTypeOK ==
  /\ perms \in [GateRole -> BOOLEAN] /\ overwrites \in [GateChannel -> Overwrite]
  /\ \/ cutover = NoCutover
     \/ /\ cutover.at \in {"check", "write", "confirm"} /\ cutover.plan \in Server
        /\ cutover.todo \subseteq Change /\ cutover.change \in Change \cup {NoChange}
  /\ applied \in BOOLEAN /\ saw \in [People -> SUBSET GateChannel] /\ edits \in 0..MaxGateEdits

-----------------------------------------------------------------------------
(* Who sees what: the roles', then @everyone's overwrite, then those of    *)
(* the roles, of which one that allows wins.                               *)
Sees(server, roles, c) ==
  LET over == server.overwrites[c]
      base == \E r \in roles \cup {Everyone} : server.perms[r]
      open == IF over[Everyone] = "none" THEN base ELSE over[Everyone] = "allow"
  IN \/ \E r \in roles : over[r] = "allow"
     \/ open /\ \A r \in roles : over[r] # "deny"
Seen(server, roles) == {c \in GateChannel : Sees(server, roles, c)}

(* The planned server: @everyone loses the view and the verified role      *)
(* takes over what the two had; @everyone's own overwrite opens a public   *)
(* channel and opens no other one.                                         *)
Plan(server) ==
  [perms |-> [server.perms EXCEPT ![Everyone] = FALSE,
                                  ![Verified] = @ \/ server.perms[Everyone]],
   overwrites |-> [c \in GateChannel |->
     [server.overwrites[c] EXCEPT ![Everyone] =
        IF c \in Public THEN "allow" ELSE IF @ = "allow" THEN "none" ELSE @]]]

Changes(server) ==
  [kind : {"role"}, on : {r \in GateRole : Plan(server).perms[r] # server.perms[r]}]
  \cup [kind : {"channel"},
        on : {c \in GateChannel : Plan(server).overwrites[c] # server.overwrites[c]}]

(* plan: newcomers see the public channels, the verified what they saw. *)
Preserves(server) ==
  /\ Seen(Plan(server), {}) = Public
  /\ Seen(Plan(server), {Verified}) = Seen(server, {Verified})

(* review_members: nobody present is blocked, or in need of the role. *)
NobodyAffected(server) ==
  \A p \in People : Seen(Plan(server), p) = Seen(server, p)

Acceptable(server) == Preserves(server) /\ NobodyAffected(server)

GateInit ==
  /\ perms \in [GateRole -> BOOLEAN] /\ overwrites \in [GateChannel -> Overwrite]
  /\ Cardinality({cr \in GateChannel \X (GateRole \ {Everyone}) :
                      overwrites[cr[1]][cr[2]] # "none"}) <= MaxOverwrites
  /\ Acceptable(Live)
  /\ cutover = NoCutover /\ applied = FALSE
  /\ saw = [p \in People |-> Seen(Live, p)] /\ edits = 0

-----------------------------------------------------------------------------
(* apply *)

(* The plan is the reviewed one: the revision is a digest of all this. *)
Begins ==
  /\ cutover.at = "idle" /\ ~applied /\ Acceptable(Live)
  /\ cutover' = [at |-> "check", plan |-> Live, todo |-> Changes(Live), change |-> NoChange]
  /\ UNCHANGED <<perms, overwrites, applied, saw, edits>>

(* A variant: @everyone loses the view before the channels are done. *)
EveryoneFirst(change) ==
  IF change.kind = "role" THEN IF change.on = Everyone THEN 0 ELSE 3 ELSE 1

(* The verified role first, the channels, their categories, and @everyone  *)
(* last.                                                                   *)
Order(change) ==
  IF change.kind = "role" THEN IF change.on = Everyone THEN 3 ELSE 0
  ELSE IF change.on \in GateCategory THEN 2 ELSE 1

GateBefore(change) ==
  IF change.kind = "role" THEN cutover.plan.perms[change.on]
  ELSE cutover.plan.overwrites[change.on][Everyone]
After(change) ==
  IF change.kind = "role" THEN Plan(cutover.plan).perms[change.on]
  ELSE Plan(cutover.plan).overwrites[change.on][Everyone]
Now(change) ==
  IF change.kind = "role" THEN perms[change.on] ELSE overwrites[change.on][Everyone]

Next1(change) ==
  change \in cutover.todo /\ \A other \in cutover.todo : Order(change) <= Order(other)

(* The target is read again: as it was planned from, or a channel that     *)
(* somebody made so already; anything else ends the cutover.               *)
Checks(change) ==
  /\ cutover.at = "check" /\ Next1(change)
  /\ cutover' =
       IF change.kind = "channel" /\ Now(change) = After(change)
         THEN [cutover EXCEPT !.todo = @ \ {change}]
       ELSE IF Now(change) = GateBefore(change)
         THEN [cutover EXCEPT !.at = "write", !.change = change]
       ELSE NoCutover
  /\ UNCHANGED <<perms, overwrites, applied, saw, edits>>

Writes ==
  /\ cutover.at = "write"
  /\ LET change == cutover.change IN
     IF change.kind = "role"
       THEN perms' = [perms EXCEPT ![change.on] = After(change)] /\ UNCHANGED overwrites
     ELSE overwrites' = [overwrites EXCEPT ![change.on][Everyone] = After(change)]
          /\ UNCHANGED perms
  /\ cutover' = [cutover EXCEPT !.at = "confirm"]
  /\ UNCHANGED <<applied, saw, edits>>

Confirms ==
  /\ cutover.at = "confirm"
  /\ cutover' = IF Now(cutover.change) = After(cutover.change)
                  THEN [cutover EXCEPT !.at = "check", !.todo = @ \ {cutover.change},
                                       !.change = NoChange]
                ELSE NoCutover
  /\ UNCHANGED <<perms, overwrites, applied, saw, edits>>

(* The server is read once more: nothing is left to plan. *)
Confirmed == Acceptable(Live) /\ Changes(Live) = {}

Completes1 ==
  /\ cutover.at = "check" /\ cutover.todo = {}
  /\ applied' = Confirmed
  /\ cutover' = NoCutover
  /\ UNCHANGED <<perms, overwrites, saw, edits>>

(* The archive, the administrator, the settings, Discord or the process    *)
(* fails between two steps; a write may have been applied all the same.    *)
Ends ==
  /\ cutover.at # "idle" /\ cutover' = NoCutover
  /\ UNCHANGED <<perms, overwrites, applied, saw, edits>>

(* Somebody else's edit while it goes on. *)
Edited ==
  /\ cutover.at # "idle" /\ edits < MaxGateEdits /\ edits' = edits + 1
  /\ \/ \E r \in GateRole : perms' = [perms EXCEPT ![r] = ~@] /\ UNCHANGED overwrites
     \/ \E c \in GateChannel, v \in {"none", "allow", "deny"} :
          /\ overwrites' = [overwrites EXCEPT ![c][Everyone] = v] /\ overwrites' # overwrites
          /\ UNCHANGED perms
  /\ UNCHANGED <<cutover, applied, saw>>

GateNext ==
  \/ Begins \/ (\E change \in Change : Checks(change)) \/ Writes \/ Confirms \/ Completes1
  \/ Ends \/ Edited

GateSpec == GateInit /\ [][GateNext]_gateVars

-----------------------------------------------------------------------------
(* What holds *)

(* At every moment of a cutover, wherever it ends and however often it is  *)
(* begun again, every present member sees exactly what he saw before it:   *)
(* nobody is locked out between two steps and nothing is opened (order's   *)
(* sequence).  Somebody else's edit is not the gate's.                     *)
NobodyLockedOut ==
  edits = 0 => \A p \in People : Seen(Live, p) = saw[p]
=============================================================================
