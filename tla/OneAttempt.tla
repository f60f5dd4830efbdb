----------------------------- MODULE OneAttempt ------------------------------
(***************************************************************************)
(* What greyBot tries once and then leaves alone: a raid night's roll call *)
(* (src/rollcall.py, run by every poll, perhaps held for a reviewer's      *)
(* click) and a reset week's Great Vault digest (vault_week), for one      *)
(* team.  Polls, digests by schedule or by hand and clicks overlap.        *)
(***************************************************************************)
EXTENDS Naturals

CONSTANTS
  CallNight,        \* raid nights with a first pull
  Week,             \* reset weeks
  Job,              \* invocations that may overlap
  MaxJobs,          \* BOUND: invocations in one behaviour
  MaxJobFaults      \* BOUND: failed and ended invocations

ASSUME OneAttemptKeys == CallNight # {} /\ CallNight \cap Week = {}
ASSUME OneAttemptBounds == MaxJobs \in Nat /\ MaxJobFaults \in Nat

VARIABLES
  decided,          \* ROLLCALL and VAULT rows: the claimed nights and weeks
  held,             \* ROLLCALL#PENDING#<night>
  job,              \* [Job -> Work]
  asked,            \* [CallNight -> Nat]: messages the reviewer got
  posts,            \* [Key -> Nat]: posts in the channel
  jobs, jobFaults   \* against MaxJobs and MaxJobFaults

oneAttemptVars == <<decided, held, job, asked, posts, jobs, jobFaults>>

Key == CallNight \cup Week
Held == {"none", "pending", "posted", "skipped"}
JobStep == {"idle", "claim", "lineup", "hold", "ask", "handBack", "settle", "post", "reply"}
Work == [at : JobStep, key : Key, review : BOOLEAN, verb : {"post", "skip"}]

OneAttemptTypeOK ==
  /\ decided \subseteq Key
  /\ held \in [CallNight -> Held]
  /\ job \in [Job -> Work]
  /\ asked \in [CallNight -> Nat] /\ posts \in [Key -> Nat]
  /\ jobs \in 0..MaxJobs /\ jobFaults \in 0..MaxJobFaults

OneAttemptInit ==
  /\ decided = {}
  /\ held = [n \in CallNight |-> "none"]
  /\ job = [j \in Job |-> [at |-> "idle", key |-> CHOOSE n \in CallNight : TRUE,
                           review |-> FALSE, verb |-> "post"]]
  /\ asked = [n \in CallNight |-> 0]
  /\ posts = [k \in Key |-> 0]
  /\ jobs = 0 /\ jobFaults = 0

JobAt(j, step) == job[j].at = step
JobTo(j, step) == job' = [job EXCEPT ![j].at = step]
JobFault == jobFaults < MaxJobFaults /\ jobFaults' = jobFaults + 1

NewJob(j, work) ==
  /\ JobAt(j, "idle")
  /\ jobs < MaxJobs /\ jobs' = jobs + 1
  /\ job' = [job EXCEPT ![j] = work]
  /\ UNCHANGED <<decided, held, asked, posts, jobFaults>>

-----------------------------------------------------------------------------
(* rollcall.run and vault_week *)

(* A poll that sees the night's first pull; the setup says who reviews. *)
StartRollCall(j, n, review) ==
  NewJob(j, [at |-> "claim", key |-> n, review |-> review, verb |-> "post"])

(* The digest collects everything before it claims. *)
StartDigest(j, w) ==
  NewJob(j, [at |-> "claim", key |-> w, review |-> FALSE, verb |-> "post"])

(* claim_rollcall and claim_vault. *)
ClaimOnce(j) ==
  LET k == job[j].key IN
  /\ JobAt(j, "claim")
  /\ IF k \in decided THEN JobTo(j, "idle") /\ UNCHANGED decided
     ELSE /\ decided' = decided \cup {k}
          /\ JobTo(j, IF k \in Week THEN "post" ELSE "lineup")
  /\ UNCHANGED <<held, asked, posts, jobs, jobFaults>>

(* The lineup, the voice channel, the drawing.  Another team's night keeps *)
(* its claim; a failure hands it back.                                     *)
ReadLineup(j) ==
  /\ JobAt(j, "lineup")
  /\ \/ JobTo(j, "idle") /\ UNCHANGED jobFaults
     \/ JobTo(j, IF job[j].review THEN "hold" ELSE "post") /\ UNCHANGED jobFaults
     \/ JobTo(j, "handBack") /\ JobFault
  /\ UNCHANGED <<decided, held, asked, posts, jobs>>

(* put_rollcall_pending, unconditional; an error may follow the write. *)
HoldCard(j) ==
  LET n == job[j].key IN
  /\ JobAt(j, "hold")
  /\ \/ /\ held' = [held EXCEPT ![n] = "pending"]
        /\ JobTo(j, "ask") /\ UNCHANGED jobFaults
     \/ /\ \/ held' = [held EXCEPT ![n] = "pending"]
           \/ UNCHANGED held
        /\ JobTo(j, "handBack") /\ JobFault
  /\ UNCHANGED <<decided, asked, posts, jobs>>

(* The reviewer's message, one attempt: whatever comes of it, the night is *)
(* not asked about again.                                                  *)
Ask(j) ==
  LET n == job[j].key IN
  /\ JobAt(j, "ask")
  /\ \/ asked' = [asked EXCEPT ![n] = @ + 1] /\ UNCHANGED jobFaults
     \/ UNCHANGED asked /\ JobFault
  /\ JobTo(j, "idle")
  /\ UNCHANGED <<decided, held, posts, jobs>>

(* release_rollcall: nothing was sent. *)
HandBack(j) ==
  /\ JobAt(j, "handBack")
  /\ decided' = decided \ {job[j].key}
  /\ JobTo(j, "idle")
  /\ UNCHANGED <<held, asked, posts, jobs, jobFaults>>

-----------------------------------------------------------------------------
(* rollcall_click: the reviewer presses Post or Skip, perhaps twice *)

Click(j, n, verb) ==
  /\ asked[n] > 0 /\ held[n] = "pending"
  /\ NewJob(j, [at |-> "settle", key |-> n, review |-> TRUE, verb |-> verb])

(* A variant: the click trusts the state it read. *)
SettleUnread(j) ==
  LET n == job[j].key IN
  /\ JobAt(j, "settle")
  /\ held' = [held EXCEPT ![n] = IF job[j].verb = "post" THEN "posted" ELSE "skipped"]
  /\ JobTo(j, IF job[j].verb = "post" THEN "post" ELSE "idle")
  /\ UNCHANGED <<decided, asked, posts, jobs, jobFaults>>

(* settle_rollcall_pending: the first click decides. *)
Settle(j) ==
  LET n == job[j].key IN
  /\ JobAt(j, "settle")
  /\ IF held[n] # "pending" THEN JobTo(j, "idle") /\ UNCHANGED held
     ELSE /\ held' = [held EXCEPT ![n] = IF job[j].verb = "post" THEN "posted" ELSE "skipped"]
          /\ JobTo(j, IF job[j].verb = "post" THEN "post" ELSE "idle")
  /\ UNCHANGED <<decided, asked, posts, jobs, jobFaults>>

-----------------------------------------------------------------------------
(* The one request: Discord stores it or not, and answers or not. *)

Deliver(j) ==
  /\ JobAt(j, "post")
  /\ posts' = [posts EXCEPT ![job[j].key] = @ + 1]
  /\ JobTo(j, "reply")
  /\ UNCHANGED <<decided, held, asked, jobs, jobFaults>>

Reply(j) ==
  /\ JobAt(j, "reply")
  /\ JobTo(j, "idle")
  /\ UNCHANGED <<decided, held, asked, posts, jobs, jobFaults>>

(* A refused post, and an invocation that ends where it stands. *)
JobEnds(j) ==
  /\ ~ JobAt(j, "idle") /\ JobFault
  /\ JobTo(j, "idle")
  /\ UNCHANGED <<decided, held, asked, posts, jobs>>

JobSteps(j) ==
  \/ ClaimOnce(j) \/ ReadLineup(j) \/ HoldCard(j) \/ Ask(j) \/ HandBack(j)
  \/ Settle(j) \/ Deliver(j) \/ Reply(j) \/ JobEnds(j)

JobStarts(j) ==
  \/ \E n \in CallNight, review \in BOOLEAN : StartRollCall(j, n, review)
  \/ \E w \in Week : StartDigest(j, w)
  \/ \E n \in CallNight, verb \in {"post", "skip"} : Click(j, n, verb)

OneAttemptNext == \E j \in Job : JobSteps(j) \/ JobStarts(j)

OneAttemptSpec == OneAttemptInit /\ [][OneAttemptNext]_oneAttemptVars

-----------------------------------------------------------------------------
(* Properties *)

(* A night or week is under way while an invocation past its claim works   *)
(* on it, or its card waits for the reviewer.                              *)
UnderWay(k) ==
  \/ \E j \in Job : job[j].key = k /\ job[j].at \notin {"idle", "claim", "settle"}
  \/ k \in CallNight /\ held[k] = "pending"

attemptPhase ==
  [k \in Key |-> IF k \notin decided THEN "waiting"
                 ELSE IF UnderWay(k) THEN "sending" ELSE "settled"]

Outbox == INSTANCE AtMostOnce WITH Msg <- Key, phase <- attemptPhase, copies <- posts

(* rollcall.py:270 "from here Discord may have accepted it: never post     *)
(* twice" and handler.py:2202 "a missed report can be sent again by hand,  *)
(* a duplicate cannot be taken back": through overlapping polls, failed    *)
(* attempts, double clicks and dying invocations, the roll call and the    *)
(* digest are the abstract outbox.                                         *)
OneAttemptPromise == Outbox!Spec
=============================================================================
