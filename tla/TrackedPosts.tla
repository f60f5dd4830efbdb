----------------------------- MODULE TrackedPosts -----------------------------
(***************************************************************************)
(* The posts whose removal is noticed (store.py record_post, recent_posts, *)
(* forget_post; health.py posts_probe; handler.py run_health_check).  What *)
(* posts appends to one list, without reading it; a check asks Discord for *)
(* the newest of the list, mails the first that is missing and drops it,   *)
(* reading the list again and writing it back.  Checks of two polls may    *)
(* overlap, with one another and with what posts.  Messages are numbered   *)
(* in the order of their records, so the list is a set of numbers.         *)
(***************************************************************************)
EXTENDS Naturals, FiniteSets

CONSTANTS
  PostCheck,         \* checks that may be under way at once
  TrackedMax,        \* POSTS_TRACKED
  MaxPosted,         \* BOUND: messages posted
  MaxUpsets          \* BOUND: calls that fail, invocations that end, and
                     \* times HEALTH_REMIND_HOURS go by

ASSUME TrackBounds == {TrackedMax, MaxPosted, MaxUpsets} \subseteq Nat

VARIABLES
  postedNow,         \* messages posted so far
  removedPosts,      \* messages a moderator deleted
  trackedPosts,      \* the list of POSTS
  postHealth,        \* HEALTH: [status, notified]
  postChecks,        \* [PostCheck -> what the check holds]
  deletionMails,     \* history: [message -> mails that named it]
  droppedPosts,      \* history: messages dropped for their own deletion
  racedPosts,        \* history: recorded while a list was being written back
  repeatable,        \* history: messages whose deletion may be seen again
  upsets             \* so far

trackVars == <<postedNow, removedPosts, trackedPosts, postHealth, postChecks,
               deletionMails, droppedPosts, racedPosts, repeatable, upsets>>
inChannel == <<postedNow, removedPosts>>
mailed == <<deletionMails, droppedPosts, racedPosts, repeatable>>

Messages == 1..MaxPosted
Well == [status |-> "ok", notified |-> "never"]
IdlePostCheck == [step |-> "idle", read |-> {}, found |-> 0, prev |-> Well, mail |-> FALSE,
                  kept |-> {}]

TrackedInit ==
  /\ postedNow = 0 /\ removedPosts = {} /\ trackedPosts = {}
  /\ postHealth = Well
  /\ postChecks = [c \in PostCheck |-> IdlePostCheck]
  /\ deletionMails = [m \in Messages |-> 0]
  /\ droppedPosts = {} /\ racedPosts = {} /\ repeatable = {}
  /\ upsets = 0

Upset == upsets < MaxUpsets /\ upsets' = upsets + 1
Goes(c, r) == postChecks' = [postChecks EXCEPT ![c] = r]

-----------------------------------------------------------------------------
(* What posts, and the channel *)

ModeratorDeletes(m) ==
  /\ m <= postedNow /\ m \notin removedPosts /\ removedPosts' = removedPosts \cup {m}
  /\ UNCHANGED <<postedNow, trackedPosts, postHealth, postChecks, mailed, upsets>>

(* Somebody is about to put back the list as it was.                       *)
WritingBack == {c \in PostCheck : postChecks[c].step = "put"}

(* A variant: the list as it was before another record, and this one.      *)
AfterRead(m) == {s \cup {m} : s \in {trackedPosts, {}}}

(* One atomic append. *)
AtTheEnd(m) == {trackedPosts \cup {m}}

RecordPost ==
  /\ postedNow < MaxPosted /\ postedNow' = postedNow + 1
  /\ trackedPosts' \in AtTheEnd(postedNow')
  /\ racedPosts' = IF WritingBack = {} THEN racedPosts ELSE racedPosts \cup {postedNow'}
  /\ UNCHANGED <<removedPosts, postHealth, postChecks, deletionMails, droppedPosts,
                 repeatable, upsets>>

(* The bookkeeping fails, or the invocation ends; the post stands.         *)
RecordFails ==
  /\ postedNow < MaxPosted /\ postedNow' = postedNow + 1 /\ Upset
  /\ racedPosts' = racedPosts \cup {postedNow'}
  /\ UNCHANGED <<removedPosts, trackedPosts, postHealth, postChecks, deletionMails,
                 droppedPosts, repeatable>>

-----------------------------------------------------------------------------
(* A check *)

NewestPosts ==
  {m \in trackedPosts : Cardinality({n \in trackedPosts : n > m}) < TrackedMax}

RecentPosts(c) ==
  /\ postChecks[c].step = "idle"
  /\ Goes(c, [IdlePostCheck EXCEPT !.step = "probe", !.read = NewestPosts])
  /\ UNCHANGED <<inChannel, trackedPosts, postHealth, mailed, upsets>>

(* From the newest on, until one is missing. *)
ProbesPost(c) ==
  LET r == postChecks[c] IN
  /\ r.step = "probe"
  /\ \/ r.read = {} /\ Goes(c, [r EXCEPT !.step = "row"])
     \/ \E m \in r.read :
          /\ \A n \in r.read : n <= m
          /\ Goes(c, IF m \in removedPosts
                     THEN [r EXCEPT !.step = "row", !.found = m, !.read = {}]
                     ELSE [r EXCEPT !.read = @ \ {m}])
  /\ UNCHANGED <<inChannel, trackedPosts, postHealth, mailed, upsets>>

(* An answer that is neither says nothing, and nothing is written. *)
ProbeUnanswered(c) ==
  /\ postChecks[c].step = "probe" /\ postChecks[c].read # {} /\ Upset
  /\ Goes(c, IdlePostCheck)
  /\ UNCHANGED <<inChannel, trackedPosts, postHealth, mailed>>

StatusFound(c) == IF postChecks[c].found = 0 THEN "ok" ELSE "post_deleted"
MailDue(c) == \/ StatusFound(c) # postHealth.status
              \/ StatusFound(c) # "ok" /\ postHealth.notified # "recent"

(* Another check under way holds a list, or an answer, with the message.   *)
HeldElsewhere(c, m) ==
  \E d \in PostCheck \ {c} : \/ m \in postChecks[d].read \cup postChecks[d].kept
                             \/ postChecks[d].found = m

(* The row is read and the mail goes out, or not. *)
MailsDeletion(c, sent) ==
  LET r == postChecks[c] IN
  /\ r.step = "row" /\ (sent => MailDue(c)) /\ (~sent /\ MailDue(c) => Upset)
  /\ sent \/ ~MailDue(c) => UNCHANGED upsets
  /\ Goes(c, [r EXCEPT !.step = "write", !.prev = postHealth, !.mail = sent])
  /\ deletionMails' = IF sent /\ r.found # 0 THEN [deletionMails EXCEPT ![r.found] = @ + 1]
                      ELSE deletionMails
  /\ repeatable' = IF sent /\ HeldElsewhere(c, r.found) THEN repeatable \cup {r.found}
                   ELSE repeatable
  /\ UNCHANGED <<inChannel, trackedPosts, postHealth, droppedPosts, racedPosts>>

StoresHealth(c) ==
  LET r == postChecks[c] IN
  /\ r.step = "write"
  /\ postHealth' = IF StatusFound(c) = r.prev.status /\ ~r.mail THEN postHealth
                   ELSE [status |-> StatusFound(c),
                         notified |-> IF r.mail THEN "recent" ELSE r.prev.notified]
  /\ Goes(c, IF r.found = 0 THEN IdlePostCheck ELSE [r EXCEPT !.step = "forget"])
  /\ UNCHANGED <<inChannel, trackedPosts, mailed, upsets>>

(* A variant: the missing post stays on the list. *)
AllOfThem(m) == trackedPosts

TheOthers(m) == trackedPosts \ {m}

ForgetReads(c) ==
  LET r == postChecks[c] IN
  /\ r.step = "forget"
  /\ Goes(c, [r EXCEPT !.step = "put", !.kept = TheOthers(r.found)])
  /\ UNCHANGED <<inChannel, trackedPosts, postHealth, mailed, upsets>>

ForgetPuts(c) ==
  LET r == postChecks[c] IN
  /\ r.step = "put" /\ trackedPosts' = r.kept /\ Goes(c, IdlePostCheck)
  /\ droppedPosts' = droppedPosts \cup {r.found}
  /\ repeatable' = IF HeldElsewhere(c, r.found) THEN repeatable \cup {r.found} ELSE repeatable
  /\ UNCHANGED <<inChannel, postHealth, deletionMails, racedPosts, upsets>>

(* The poll ends, or the list is not written: the deletion is seen again.  *)
CheckEnds(c) ==
  /\ postChecks[c].step # "idle" /\ Upset /\ Goes(c, IdlePostCheck)
  /\ repeatable' = repeatable \cup ({postChecks[c].found} \ {0})
  /\ UNCHANGED <<inChannel, trackedPosts, postHealth, deletionMails, droppedPosts, racedPosts>>

HoursGoBy ==
  /\ postHealth.notified = "recent" /\ Upset
  /\ postHealth' = [postHealth EXCEPT !.notified = "stale"]
  /\ UNCHANGED <<inChannel, trackedPosts, postChecks, mailed>>

TrackedNext ==
  \/ RecordPost \/ RecordFails \/ HoursGoBy
  \/ \E m \in Messages : ModeratorDeletes(m)
  \/ \E c \in PostCheck :
       \/ RecentPosts(c) \/ ProbesPost(c) \/ ProbeUnanswered(c) \/ StoresHealth(c)
       \/ ForgetReads(c) \/ ForgetPuts(c) \/ CheckEnds(c)
       \/ \E sent \in BOOLEAN : MailsDeletion(c, sent)

TrackedSpec == TrackedInit /\ [][TrackedNext]_trackVars

-----------------------------------------------------------------------------
(* A post is tracked until its own deletion is found, except one that was  *)
(* recorded while the list was being written back; a deletion is mailed    *)
(* once, and only of a post that was deleted, except where another check   *)
(* held it, or the check that mailed it ended before it dropped it.        *)
PostsTracked ==
  /\ \A m \in 1..postedNow : \/ m \in racedPosts \cup droppedPosts
                             \/ m \in trackedPosts
  /\ \A m \in Messages : /\ deletionMails[m] > 0 => m \in removedPosts
                         /\ deletionMails[m] > 1 => m \in repeatable
=============================================================================
