-------------------------------- MODULE Members --------------------------------
(***************************************************************************)
(* What a person asks of the control worker for himself, and an            *)
(* administrator for him, through the job queue: the verified role after a *)
(* challenge (verification.py), a role of a panel (role_panels.py), a role *)
(* by an administrator (admin_roles.py) and a channel hidden from himself  *)
(* (channel_choices.py).  One member, who may leave and join again, one    *)
(* channel, and one role besides the verified one.  The worker runs one    *)
(* job at a time and each request it makes of Discord is a step.           *)
(***************************************************************************)
EXTENDS Naturals, Sequences, SequencesExt

CONSTANTS
  Request,           \* interactions and forms, numbered as they come
  MaxJoins,          \* BOUND: times he joins
  MaxMemberEdits,          \* BOUND: changes of settings and an administrator's edits
  MaxMemberFaults    \* BOUND: requests that fail, and crashes

ASSUME RequestNames == Request \subseteq Nat \ {0}
ASSUME MemberBounds == {MaxJoins, MaxMemberEdits, MaxMemberFaults} \subseteq Nat

VARIABLES
  person,            \* [joined, pending, roles]: joined 0, not in the server
  joins,             \* joined_at of the last membership
  verifying,         \* verification_enabled
  form,              \* membership read by the form under way, 0: none
  memberJobs,              \* [Request -> MemberJob]
  line,              \* queued requests, oldest first
  executor,          \* the worker's job
  view,              \* his own overwrite of the channel's View
  recorded,          \* the last CHANNEL_VISIBILITY_APPLIED is a hiding
  passed,            \* history: memberships that passed the challenge
  given,             \* history: memberships an administrator gave the role, or not looked at
  adminOwned,            \* history: the overwrite is an administrator's
  requested,              \* history: [Request -> Nat]: role and overwrite requests made
  memberEdits, memberFaults

discord == <<person, joins, view>>
memberGhosts == <<passed, given, adminOwned, requested>>
memberVars == <<discord, verifying, form, memberJobs, line, executor, recorded, memberGhosts,
                memberEdits, memberFaults>>

Kind == {"verify_role", "self_role", "admin_role", "channel_visibility"}
(* arg: the membership of a verification; 1 to give or hide, 0 to take or show. *)
MemberJob == [state : {"none", "queued", "executing", "completed", "denied", "unknown"},
        kind : Kind, arg : Nat, stale : BOOLEAN]
NoRequest == [state |-> "none", kind |-> "self_role", arg |-> 0, stale |-> FALSE]
NoOne == 0
NotExecuting == [at |-> "idle", request |-> NoOne, saw |-> 0, held |-> FALSE, over |-> "none"]

MembersTypeOK ==
  /\ person \in [joined : 0..MaxJoins, pending : BOOLEAN, roles : SUBSET {"verified", "pick"}]
  /\ joins \in 0..MaxJoins /\ verifying \in BOOLEAN /\ form \in 0..MaxJoins
  /\ memberJobs \in [Request -> MemberJob] /\ line \in Seq(Request)
  /\ executor \in [at : {"idle", "read", "put", "confirm", "record"},
                   request : Request \cup {NoOne}, saw : 0..MaxJoins, held : BOOLEAN, over : {"none", "deny", "allow"}]
  /\ view \in {"none", "deny", "allow"} /\ recorded \in BOOLEAN
  /\ passed \subseteq 1..MaxJoins /\ given \subseteq 1..MaxJoins /\ adminOwned \in BOOLEAN
  /\ requested \in [Request -> Nat]
  /\ memberEdits \in 0..MaxMemberEdits /\ memberFaults \in 0..MaxMemberFaults

MembersInit ==
  /\ person = [joined |-> 0, pending |-> FALSE, roles |-> {}] /\ joins = 0
  /\ verifying = TRUE /\ form = 0
  /\ memberJobs = [r \in Request |-> NoRequest] /\ line = <<>> /\ executor = NotExecuting
  /\ view = "none" /\ recorded = FALSE
  /\ passed = {} /\ given = {} /\ adminOwned = FALSE /\ requested = [r \in Request |-> 0]
  /\ memberEdits = 0 /\ memberFaults = 0

MemberFault == memberFaults < MaxMemberFaults /\ memberFaults' = memberFaults + 1
MemberEdit == memberEdits < MaxMemberEdits /\ memberEdits' = memberEdits + 1

In == person.joined # 0
Verified1 == "verified" \in person.roles

-----------------------------------------------------------------------------
(* The server *)

(* A new membership has no roles; Discord keeps the channel's overwrite. *)
Joins ==
  /\ ~In /\ joins < MaxJoins /\ joins' = joins + 1
  /\ person' = [joined |-> joins + 1, pending |-> TRUE, roles |-> {}]
  /\ UNCHANGED <<view, verifying, form, memberJobs, line, executor, recorded, memberGhosts,
                 memberEdits, memberFaults>>

Leaves ==
  /\ In /\ person' = [joined |-> 0, pending |-> FALSE, roles |-> {}]
  /\ UNCHANGED <<joins, view, verifying, form, memberJobs, line, executor, recorded, memberGhosts,
                 memberEdits, memberFaults>>

AcceptsRules ==
  /\ person.pending /\ person' = [person EXCEPT !.pending = FALSE]
  /\ UNCHANGED <<joins, view, verifying, form, memberJobs, line, executor, recorded, memberGhosts,
                 memberEdits, memberFaults>>

(* An administrator edits the overwrite, or turns verification on or off.  *)
OverwriteEdited ==
  /\ MemberEdit /\ \E v \in {"none", "deny", "allow"} \ {view} : view' = v
  /\ adminOwned' = TRUE
  /\ UNCHANGED <<person, joins, verifying, form, memberJobs, line, executor, recorded, passed, given,
                 requested, memberFaults>>

VerifyingSwitched ==
  /\ MemberEdit /\ verifying' = ~verifying
  /\ UNCHANGED <<discord, form, memberJobs, line, executor, recorded, memberGhosts, memberFaults>>

-----------------------------------------------------------------------------
(* Requests *)

Queue(r, kind, arg) ==
  /\ memberJobs[r].state = "none" /\ \A q \in Request : q < r => memberJobs[q].state # "none"
  /\ memberJobs' = [memberJobs EXCEPT ![r] = [state |-> "queued", kind |-> kind, arg |-> arg, stale |-> FALSE]]
  /\ line' = Append(line, r)

(* submit reads the membership, then asks the provider. *)
OpensForm ==
  /\ form = 0 /\ verifying /\ In /\ ~person.pending /\ ~Verified1
  /\ form' = person.joined
  /\ UNCHANGED <<discord, verifying, memberJobs, line, executor, recorded, memberGhosts,
                 memberEdits, memberFaults>>

(* The challenge is passed, or it is not: the answer comes later.          *)
Challenged(r) ==
  /\ form # 0 /\ form' = 0
  /\ \/ Queue(r, "verify_role", form) /\ passed' = passed \cup {form}
     \/ UNCHANGED <<memberJobs, line, passed>>
  /\ UNCHANGED <<discord, verifying, executor, recorded, given, adminOwned, requested,
                 memberEdits, memberFaults>>

(* A panel's button; an administrator's order. *)
Clicks(r) ==
  /\ In /\ ~person.pending /\ Queue(r, "self_role", 0)
  /\ UNCHANGED <<discord, verifying, form, executor, recorded, memberGhosts,
                 memberEdits, memberFaults>>

Orders(r, arg) ==
  /\ In /\ Queue(r, "admin_role", arg)
  /\ UNCHANGED <<discord, verifying, form, executor, recorded, memberGhosts,
                 memberEdits, memberFaults>>

(* What he may choose: a channel he would see but for his own hiding.  An  *)
(* overwrite the record does not know as his is an administrator's.        *)
Choosable(over, known) == over = "none" \/ (over = "deny" /\ known)

Chooses(r, arg) ==
  /\ In /\ ~person.pending /\ Verified1 /\ Choosable(view, recorded)
  /\ Queue(r, "channel_visibility", arg)
  /\ UNCHANGED <<discord, verifying, form, executor, recorded, memberGhosts,
                 memberEdits, memberFaults>>

(* Two minutes in the queue; the other kinds do not expire. *)
TwoMinutes(r) ==
  /\ memberJobs[r].state = "queued" /\ ~memberJobs[r].stale /\ memberJobs[r].kind \in {"verify_role", "self_role"}
  /\ memberJobs' = [memberJobs EXCEPT ![r].stale = TRUE]
  /\ UNCHANGED <<discord, verifying, form, line, executor, recorded, memberGhosts,
                 memberEdits, memberFaults>>

-----------------------------------------------------------------------------
(* The worker *)

(* A variant: what a dead worker left executing is taken again. *)
ClaimableAnew == line \o SetToSeq({r \in Request : memberJobs[r].state = "executing"})

(* The queued ones, oldest first. *)
ClaimableJobs == line

TakesJob ==
  /\ executor.at = "idle" /\ ClaimableJobs # <<>>
  /\ LET r == Head(ClaimableJobs) IN
     /\ executor' = [NotExecuting EXCEPT !.at = "read", !.request = r]
     /\ memberJobs' = [memberJobs EXCEPT ![r].state = "executing"]
     /\ line' = Tail(ClaimableJobs)
  /\ UNCHANGED <<discord, verifying, form, recorded, memberGhosts, memberEdits, memberFaults>>

Ended(state) ==
  /\ memberJobs' = [memberJobs EXCEPT ![executor.request].state = state]
  /\ executor' = NotExecuting

(* The membership that passed is the present one. *)
SameMembership(work) ==
  verifying /\ ~work.stale /\ In /\ ~person.pending /\ person.joined = work.arg

Admissible(work) ==
  CASE work.kind = "verify_role" -> SameMembership(work)
    [] work.kind = "self_role" -> ~work.stale /\ In /\ ~person.pending /\ Verified1
    [] work.kind = "admin_role" -> In
    [] work.kind = "channel_visibility" ->
         In /\ ~person.pending /\ Verified1 /\ Choosable(view, recorded)

(* Settings, membership, roles and channel are read, and refuse it or not; *)
(* a request that fails leaves it unknown.  An order that is carried out   *)
(* already needs no request.                                               *)
ReadsMember ==
  /\ executor.at = "read"
  /\ LET work == memberJobs[executor.request]
         done == work.kind = "admin_role" /\ (Verified1 <=> work.arg = 1)
     IN IF Admissible(work)
          THEN /\ executor' = [executor EXCEPT !.at = IF done THEN "confirm" ELSE "put",
                                 !.saw = person.joined, !.held = "pick" \in person.roles,
                                 !.over = view]
               /\ UNCHANGED memberJobs
        ELSE Ended("denied")
  /\ UNCHANGED <<discord, verifying, form, line, recorded, memberGhosts, memberEdits, memberFaults>>

(* What the PUT or DELETE does to him, if he is there. *)
Roles(work) ==
  CASE work.kind = "verify_role" -> person.roles \cup {"verified"}
    [] work.kind = "admin_role" ->
         IF work.arg = 1 THEN person.roles \cup {"verified"} ELSE person.roles \ {"verified"}
    [] work.kind = "self_role" ->
         IF executor.held THEN person.roles \ {"pick"} ELSE person.roles \cup {"pick"}
    [] OTHER -> person.roles

Applied(work) ==
  /\ person' = [person EXCEPT !.roles = IF In THEN Roles(work) ELSE {}]
  /\ given' = IF In /\ (work.kind = "admin_role" \/ person.joined # executor.saw)
                THEN given \cup {person.joined} ELSE given
  /\ IF work.kind = "channel_visibility"
       THEN view' = (IF work.arg = 1 THEN "deny" ELSE IF executor.over = "deny" THEN "none"
                     ELSE executor.over) /\ adminOwned' = FALSE
     ELSE UNCHANGED <<view, adminOwned>>

AfterPut(work) ==
  IF work.kind \in {"admin_role", "channel_visibility"}
    THEN executor' = [executor EXCEPT !.at = "confirm"] /\ UNCHANGED memberJobs
  ELSE Ended("completed")

(* The write of a preference, or of a role; one who has left is not found. *)
(* Without an answer it may have been applied, and is not made again.      *)
PutsMember ==
  /\ executor.at = "put"
  /\ LET work == memberJobs[executor.request]
         gone == ~In /\ work.kind # "channel_visibility"
     IN /\ requested' = [requested EXCEPT ![executor.request] = @ + 1]
        /\ \/ /\ ~gone /\ Applied(work) /\ AfterPut(work) /\ UNCHANGED memberFaults
           \/ /\ gone /\ Ended("denied")
              /\ UNCHANGED <<person, given, view, adminOwned, memberFaults>>
           \/ /\ MemberFault /\ Ended("unknown")
              /\ Applied(work) \/ UNCHANGED <<person, given, view, adminOwned>>
  /\ UNCHANGED <<joins, verifying, form, line, recorded, passed, memberEdits>>

(* Read back: Discord shows it, or somebody has changed it since. *)
ConfirmsMember ==
  /\ executor.at = "confirm"
  /\ LET work == memberJobs[executor.request] IN
     IF work.kind = "admin_role"
       THEN Ended(IF In /\ (Verified1 <=> work.arg = 1) THEN "completed" ELSE "denied")
     ELSE IF (view = "deny") <=> (work.arg = 1)
       THEN executor' = [executor EXCEPT !.at = "record"] /\ UNCHANGED memberJobs
     ELSE Ended("denied")
  /\ UNCHANGED <<discord, verifying, form, line, recorded, memberGhosts, memberEdits, memberFaults>>

RecordsChoice ==
  /\ executor.at = "record"
  /\ recorded' = (memberJobs[executor.request].arg = 1)
  /\ Ended("completed")
  /\ UNCHANGED <<discord, verifying, form, line, memberGhosts, memberEdits, memberFaults>>

(* A crash leaves the job executing, for a person to look at. *)
ExecutorDies ==
  /\ executor.at # "idle" /\ MemberFault /\ executor' = NotExecuting
  /\ UNCHANGED <<discord, verifying, form, memberJobs, line, recorded, memberGhosts, memberEdits>>

-----------------------------------------------------------------------------
MembersNext ==
  \/ Joins \/ Leaves \/ AcceptsRules \/ OverwriteEdited \/ VerifyingSwitched \/ OpensForm
  \/ \E r \in Request : Challenged(r) \/ Clicks(r) \/ TwoMinutes(r)
  \/ \E r \in Request, arg \in {0, 1} : Orders(r, arg) \/ Chooses(r, arg)
  \/ TakesJob \/ ReadsMember \/ PutsMember \/ ConfirmsMember \/ RecordsChoice \/ ExecutorDies

MembersSpec == MembersInit /\ [][MembersNext]_memberVars

-----------------------------------------------------------------------------
(* What holds *)

(* The verified role is only held in a membership whose own challenge was  *)
(* passed or that an administrator vouched for: not after leaving and      *)
(* joining again, with a request from before still in the queue.  One that *)
(* begins between the last look and the write is exempt.                   *)
VerifiedEarned ==
  Verified1 => person.joined \in passed \cup given

(* A click asks Discord at most once, whatever crashes: a toggle made      *)
(* twice would undo itself ("Never retry an ambiguous write").             *)
ClickOnce == \A r \in Request : requested[r] <= 1
=============================================================================
