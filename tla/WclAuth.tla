-------------------------------- MODULE WclAuth -------------------------------
(***************************************************************************)
(* The account grant of Warcraft Logs: the bearer that runs hand to their  *)
(* queries (wcl.py), its renewal on a 401 through the stored grant         *)
(* (config.py, renew_wcl_user_auth), and the public token that stands in.  *)
(* A run is a container; several meet the same 401.  Tokens and refresh    *)
(* tokens are numbers, in the order they were issued.                      *)
(***************************************************************************)
EXTENDS Naturals

CONSTANTS
  AuthRun,           \* containers: the poll, a recap, the vault collector
  MayWrite,          \* those whose role may write the parameter
  MaxIssued,         \* BOUND: grants the provider issues
  MaxAuthFaults      \* BOUND: lost answers, failed reads and writes, deaths

ASSUME AuthBounds == MayWrite \subseteq AuthRun /\ MaxIssued \in Nat \ {0} /\ MaxAuthFaults \in Nat

VARIABLES
  provider,          \* [access, refresh]: what it accepts, 0 is no access token
  issued,            \* the number of the last grant
  grant,             \* the stored parameter: [access, refresh]
  authRun,           \* [AuthRun -> [at, held, rejected, read, got]]
  replaced,          \* _renewed: [AuthRun -> [token -> token, PublicToken or 0]]
  excused,           \* history: why the grant may be lost
  authFaults

authVars == <<provider, issued, grant, authRun, replaced, excused, authFaults>>

Token == 1..MaxIssued
PublicToken == MaxIssued + 1
NoGrant == [access |-> 0, refresh |-> 0]
Grant == [access : 0..MaxIssued, refresh : 0..MaxIssued]
AtRest == [at |-> "idle", held |-> 0, rejected |-> 0, read |-> NoGrant, got |-> NoGrant]

AuthTypeOK ==
  /\ provider \in Grant /\ grant \in Grant /\ issued \in Token
  /\ authRun \in [AuthRun -> [at : {"idle", "reads", "prewrites", "refreshes", "rereads", "saves"},
                              held : 0..MaxIssued, rejected : 0..MaxIssued, read : Grant, got : Grant]]
  /\ replaced \in [AuthRun -> [Token -> 0..PublicToken]]
  /\ excused \subseteq {"lost", "raced"} /\ authFaults \in 0..MaxAuthFaults

AuthInit ==
  /\ provider = [access |-> 1, refresh |-> 1] /\ issued = 1 /\ grant = provider
  /\ authRun = [r \in AuthRun |-> AtRest]
  /\ replaced = [r \in AuthRun |-> [t \in Token |-> 0]]
  /\ excused = {} /\ authFaults = 0

AuthFault == authFaults < MaxAuthFaults /\ authFaults' = authFaults + 1

-----------------------------------------------------------------------------
(* The provider rejects an access token long before its expiry. *)
Rejects ==
  /\ provider.access # 0 /\ provider' = [provider EXCEPT !.access = 0]
  /\ UNCHANGED <<issued, grant, authRun, replaced, excused, authFaults>>

-----------------------------------------------------------------------------
(* wcl.py *)

(* get_token of the configuration loaded now. *)
Takes(r) ==
  /\ authRun[r].at = "idle"
  /\ authRun' = [authRun EXCEPT ![r] = [AtRest EXCEPT !.held = grant.access]]
  /\ UNCHANGED <<provider, issued, grant, replaced, excused, authFaults>>

(* What stands for a token of this run now. *)
StandIn(r, t) == IF replaced[r][t] = 0 THEN t ELSE replaced[r][t]

(* A 401 of a token nothing replaces yet: the renewer is asked. *)
Rejected(r) ==
  LET this == authRun[r]  t == StandIn(r, this.held) IN
  /\ this.at = "idle" /\ this.held # 0
  /\ t \in Token /\ t # provider.access /\ replaced[r][t] = 0
  /\ authRun' = [authRun EXCEPT ![r].at = "reads", ![r].rejected = t]
  /\ UNCHANGED <<provider, issued, grant, replaced, excused, authFaults>>

(* _replacement: remembered by the token it replaces, for the queries that *)
(* follow; they change nothing here.                                       *)
Replaces(r, t) ==
  /\ replaced' = [replaced EXCEPT ![r][authRun[r].rejected] = t]
  /\ authRun' = [authRun EXCEPT ![r] = [AtRest EXCEPT !.held = authRun[r].held]]

(* A container does not stay public-only longer than an hour. *)
HourIsOver(r) ==
  /\ \E t \in Token : replaced[r][t] = PublicToken
  /\ replaced' = [replaced EXCEPT ![r] = [t \in Token |-> IF @[t] = PublicToken THEN 0 ELSE @[t]]]
  /\ UNCHANGED <<provider, issued, grant, authRun, excused, authFaults>>

-----------------------------------------------------------------------------
(* config.py: renew_wcl_user_auth *)

OtherRunRenewed(r) == grant.access # authRun[r].rejected

RenewerReads(r) ==
  /\ authRun[r].at = "reads"
  /\ \/ /\ OtherRunRenewed(r) /\ Replaces(r, grant.access) /\ UNCHANGED authFaults
     \/ /\ ~OtherRunRenewed(r)
        /\ authRun' = [authRun EXCEPT ![r].at = "prewrites", ![r].read = grant]
        /\ UNCHANGED <<replaced, authFaults>>
     \/ AuthFault /\ Replaces(r, PublicToken)
  /\ UNCHANGED <<provider, issued, grant, excused>>

(* A variant: it refreshes at once. *)
WritesLater(r) == UNCHANGED <<grant, excused>>

(* The stored value is written back unchanged first: a role that may not   *)
(* write does not spend the refresh token.                                 *)
ChecksItMayWrite(r) ==
  /\ r \in MayWrite
  /\ grant' = authRun[r].read
  /\ excused' = IF grant # authRun[r].read THEN excused \cup {"raced"} ELSE excused

Prewrites(r) ==
  /\ authRun[r].at = "prewrites"
  /\ \/ /\ ChecksItMayWrite(r) /\ UNCHANGED <<replaced, authFaults>>
        /\ authRun' = [authRun EXCEPT ![r].at = "refreshes"]
     \/ /\ r \notin MayWrite /\ Replaces(r, PublicToken) /\ UNCHANGED <<grant, excused, authFaults>>
     \/ /\ r \in MayWrite /\ AuthFault /\ Replaces(r, PublicToken) /\ UNCHANGED <<grant, excused>>
  /\ UNCHANGED <<provider, issued>>

(* A refresh spends the refresh token: the old one may stop working. *)
Refreshes(r) ==
  /\ authRun[r].at = "refreshes" /\ authRun[r].read.refresh = provider.refresh
  /\ issued < MaxIssued /\ issued' = issued + 1
  /\ \E refresh \in {provider.refresh, issued + 1} :
       /\ provider' = [access |-> issued + 1, refresh |-> refresh]
       /\ \/ /\ authRun' = [authRun EXCEPT ![r].at = "saves", ![r].got = provider']
             /\ UNCHANGED <<excused, authFaults>>
          \/ /\ AuthFault /\ authRun' = [authRun EXCEPT ![r].at = "rereads"]
             /\ excused' = excused \cup {"lost"}
  /\ UNCHANGED <<grant, replaced>>

(* It is refused, or fails before the provider has spent anything.         *)
RefreshRefused(r) ==
  /\ authRun[r].at = "refreshes"
  /\ \/ authRun[r].read.refresh # provider.refresh /\ UNCHANGED authFaults
     \/ authRun[r].read.refresh = provider.refresh /\ AuthFault
  /\ authRun' = [authRun EXCEPT ![r].at = "rereads"]
  /\ UNCHANGED <<provider, issued, grant, replaced, excused>>

(* "It looks once more before giving up." *)
Rereads(r) ==
  /\ authRun[r].at = "rereads"
  /\ Replaces(r, IF OtherRunRenewed(r) THEN grant.access ELSE PublicToken)
  /\ UNCHANGED <<provider, issued, grant, excused, authFaults>>

(* A save that fails leaves a renewed grant in this container only; one    *)
(* that is late goes over what another run stored since.                   *)
SavesGrant(r) ==
  /\ authRun[r].at = "saves"
  /\ \/ /\ r \in MayWrite /\ grant' = authRun[r].got /\ UNCHANGED authFaults
        /\ excused' = IF grant # authRun[r].read THEN excused \cup {"raced"} ELSE excused
     \/ /\ r \notin MayWrite /\ UNCHANGED <<grant, excused, authFaults>>
     \/ /\ r \in MayWrite /\ AuthFault /\ excused' = excused \cup {"lost"} /\ UNCHANGED grant
  /\ Replaces(r, authRun[r].got.access)
  /\ UNCHANGED <<provider, issued>>

ContainerDies(r) ==
  /\ authRun[r].at # "idle" /\ AuthFault
  /\ excused' = IF authRun[r].at = "saves" THEN excused \cup {"lost"} ELSE excused
  /\ authRun' = [authRun EXCEPT ![r] = AtRest]
  /\ replaced' = [replaced EXCEPT ![r] = [t \in Token |-> 0]]
  /\ UNCHANGED <<provider, issued, grant>>

-----------------------------------------------------------------------------
AuthNext ==
  \/ Rejects
  \/ \E r \in AuthRun :
       \/ Takes(r) \/ Rejected(r) \/ HourIsOver(r)
       \/ RenewerReads(r) \/ Prewrites(r) \/ Refreshes(r) \/ RefreshRefused(r)
       \/ Rereads(r) \/ SavesGrant(r) \/ ContainerDies(r)

AuthSpec == AuthInit /\ [][AuthNext]_authVars

-----------------------------------------------------------------------------
(* What holds *)

(* The refresh token the provider takes is stored, or on its way there. *)
GrantIsHeld ==
  grant.refresh = provider.refresh
    \/ \E r \in AuthRun : authRun[r].at = "saves" /\ authRun[r].got.refresh = provider.refresh

(* "A role that may not write never gets as far as the refresh": the       *)
(* grant is lost only with an answer or a save that fails after the        *)
(* check, a container that dies between the two, or a write over what      *)
(* another run stored since this one read.  The last needs no fault, and   *)
(* then the run that "looks once more before giving up" finds what it put  *)
(* back itself.                                                            *)
GrantKept == excused = {} => GrantIsHeld
=============================================================================
