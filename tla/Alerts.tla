-------------------------------- MODULE Alerts --------------------------------
(***************************************************************************)
(* The operator's e-mails (src/src/handler.py): run_health_check (is the   *)
(* bot welcome in Discord), run_source_check (are the raid logs visible)   *)
(* and run_poll_failure_check (do the polls raise).  Each keeps one row,   *)
(* overwritten wholesale, and mails the change of its status.  Polls of    *)
(* two invocations may overlap, die, or fail to publish.  A behaviour      *)
(* follows one of the three.                                               *)
(***************************************************************************)
EXTENDS Naturals

CONSTANTS
  Poll,             \* checks that may be under way at once
  Blind,            \* SOURCE_BLIND_POLLS
  Failing,          \* POLL_FAILING_POLLS
  MaxTurns,         \* BOUND: changes of what is being watched
  MaxAlertFaults    \* BOUND: unanswered probes, unsent mails and dead polls

ASSUME AlertLimits ==
  /\ Blind \in Nat \ {0} /\ Failing \in Nat \ {0}
  /\ MaxTurns \in Nat /\ MaxAlertFaults \in Nat

VARIABLES
  watch,            \* which check this behaviour follows
  trouble,          \* what is wrong, or "ok"
  seat,             \* the bot as a member of the server
  turns,
  row,              \* HEALTH, SOURCE or POLLFAILURES
  checks,           \* per poll: where it is and what it holds
  told,             \* the trouble of the moment has been mailed
  alertFaults

alertVars == <<watch, trouble, seat, turns, row, checks, told, alertFaults>>

Watches == {"health", "source", "failures"}
Trouble ==
  [w \in Watches |-> CASE w = "health" -> {"ok", "fault"}
                       [] w = "source" -> {"ok", "blind"}
                       [] w = "failures" -> {"ok", "raising", "public_only"}]
Status == {"ok", "fault", "not_a_member", "blind", "raising", "public_only"}
SeatSeen == {"yes", "no", "unknown"}

Row == [status : Status \cup {""}, streak : 0..(Blind + Failing),
        notified : {"never", "recent", "stale"}, member : SeatSeen]
Check == [step : {"idle", "probed", "mailed"}, saw : Status, member : SeatSeen,
          moved : BOOLEAN, write : Row]

AlertsTypeOK ==
  /\ watch \in Watches /\ trouble \in Trouble[watch]
  /\ seat \in {"never", "held", "lost"} /\ turns \in 0..MaxTurns
  /\ row \in Row /\ checks \in [Poll -> Check]
  /\ told \in BOOLEAN /\ alertFaults \in 0..MaxAlertFaults

EmptyRow == [status |-> "", streak |-> 0, notified |-> "never", member |-> "unknown"]
IdleCheck == [step |-> "idle", saw |-> "ok", member |-> "unknown",
              moved |-> FALSE, write |-> EmptyRow]

AlertsInit ==
  /\ watch \in Watches /\ trouble \in Trouble[watch]
  /\ seat \in IF watch = "health" THEN {"never", "held"} ELSE {"never"}
  /\ turns = 0 /\ row = EmptyRow
  /\ checks = [p \in Poll |-> IdleCheck]
  /\ told = FALSE /\ alertFaults = 0

AlertFault == alertFaults < MaxAlertFaults /\ alertFaults' = alertFaults + 1

-----------------------------------------------------------------------------
(* Something breaks, is repaired or breaks otherwise; the bot is invited  *)
(* as a member, kicked, or invited back.                                   *)
Turn ==
  /\ turns < MaxTurns /\ turns' = turns + 1
  /\ \/ trouble' \in Trouble[watch] \ {trouble} /\ UNCHANGED seat
     \/ /\ watch = "health" /\ seat' = (IF seat = "held" THEN "lost" ELSE "held")
        /\ UNCHANGED trouble
  /\ told' = FALSE
  /\ UNCHANGED <<watch, row, checks, alertFaults>>

(* HEALTH_REMIND_HOURS go by after the last e-mail. *)
Aged(r) == [r EXCEPT !.notified = IF r.notified = "never" THEN "never" ELSE "stale"]
TimePasses ==
  /\ row.notified = "recent"
  /\ row' = Aged(row)
  /\ checks' = [p \in Poll |-> [checks[p] EXCEPT !.write = Aged(checks[p].write)]]
  /\ UNCHANGED <<watch, trouble, seat, turns, told, alertFaults>>

(* The probes: each answers what is so.  health.check leaves the member    *)
(* out where no probe of it was made or answered, which it may with a      *)
(* fault found.  An indefinite answer is not written down, and a poll that *)
(* raises before the check never reaches it: as if there had been no poll. *)
Probe(p) ==
  /\ checks[p].step = "idle"
  /\ \E member \in {"unknown", IF seat = "held" THEN "yes" ELSE "no"} :
       /\ watch # "health" => member = "unknown"
       /\ watch = "health" /\ trouble = "ok" => member # "unknown"
       /\ checks' = [checks EXCEPT ![p] = [IdleCheck EXCEPT
            !.step = "probed", !.saw = trouble, !.member = member]]
  /\ UNCHANGED <<watch, trouble, seat, turns, row, told, alertFaults>>

(* What a check makes of the row it reads.  A loss of the seat is a fault  *)
(* only against the stored answer; the other two act on a streak of bad    *)
(* polls, which a failed recap cuts short (urgent).                        *)
StreakNeeded == IF watch = "source" THEN Blind ELSE Failing
Advanced(c, prev, urgent) ==
  IF urgent \/ prev.streak >= StreakNeeded THEN StreakNeeded ELSE prev.streak + 1
Streak(c, prev, urgent) ==
  IF c.saw = "ok" \/ watch = "health" THEN 0 ELSE Advanced(c, prev, urgent)

StatusOf(c, prev, urgent) ==
  CASE watch = "health" /\ c.saw = "ok" /\ prev.member = "yes" /\ c.member = "no" ->
         "not_a_member"
    [] watch # "health" /\ Streak(c, prev, urgent) < StreakNeeded -> "ok"
    [] OTHER -> c.saw

(* _alert_kind and _reminder_due *)
Mail(status, prev) ==
  CASE status # "ok" /\ status # prev.status -> "alert"
    [] status # "ok" /\ status = prev.status /\ prev.notified # "recent" -> "reminder"
    [] status = "ok" /\ prev.status \notin {"ok", ""} -> "recovery"
    [] OTHER -> "none"

(* A variant: only a change of the status is worth a write. *)
WriteOnChange(c, prev, status) == status # prev.status

WriteDue(c, prev, status) ==
  \/ status # prev.status
  \/ watch # "health" /\ (c.saw # "ok" \/ prev.streak # 0)
  \/ watch = "health" /\ c.member \notin {"unknown", prev.member}

Written(c, prev, status, streak, sent) ==
  [status |-> status, streak |-> streak,
   notified |-> IF sent THEN "recent" ELSE prev.notified,
   member |-> IF c.member = "unknown" THEN prev.member ELSE c.member]

(* The row is read and the e-mail published, or not: a NotifyError is      *)
(* logged and the state stored all the same.                               *)
Decide(p, urgent, sent) ==
  LET c == checks[p]
      status == StatusOf(c, row, urgent)
      mail == Mail(status, row) IN
  /\ c.step = "probed" /\ (urgent => watch = "failures")
  /\ sent => mail # "none"
  /\ checks' = [checks EXCEPT ![p].step = "mailed",
       ![p].moved = WriteDue(c, row, status) \/ sent,
       ![p].write = Written(c, row, status, Streak(c, row, urgent), sent)]
  /\ told' = (told \/ (sent /\ mail # "recovery" /\ status = trouble))
  /\ UNCHANGED <<watch, trouble, seat, turns, row>>

Mails(p) == \E urgent \in BOOLEAN :
  /\ Decide(p, urgent, Mail(StatusOf(checks[p], row, urgent), row) # "none")
  /\ UNCHANGED alertFaults
PublishFails(p) == \E urgent \in BOOLEAN :
  /\ Mail(StatusOf(checks[p], row, urgent), row) # "none"
  /\ Decide(p, urgent, FALSE) /\ AlertFault

Store(p) ==
  /\ checks[p].step = "mailed"
  /\ row' = IF checks[p].moved THEN checks[p].write ELSE row
  /\ checks' = [checks EXCEPT ![p] = IdleCheck]
  /\ UNCHANGED <<watch, trouble, seat, turns, told, alertFaults>>

(* The invocation times out, or the write raises. *)
PollEnds(p) ==
  /\ checks[p].step # "idle" /\ AlertFault
  /\ checks' = [checks EXCEPT ![p] = IdleCheck]
  /\ UNCHANGED <<watch, trouble, seat, turns, row, told>>

PollSteps(p) == Probe(p) \/ Mails(p) \/ Store(p)

AlertsNext ==
  \/ Turn \/ TimePasses
  \/ \E p \in Poll : PollSteps(p) \/ PublishFails(p) \/ PollEnds(p)

(* The schedule polls every fifteen minutes, and the hours go by. *)
AlertsSpec ==
  /\ AlertsInit /\ [][AlertsNext]_alertVars
  /\ \A p \in Poll : WF_alertVars(PollSteps(p))
  /\ WF_alertVars(TimePasses)

-----------------------------------------------------------------------------
(* Trouble that stays is mailed: however polls overlap, overwrite each     *)
(* other's streak or die, and whichever e-mail failed to go out            *)
(* (run_health_check's "a topic that comes back tomorrow sends the         *)
(* reminder", the streaks of the other two).                               *)
AlertComes == <>[](trouble # "ok") => <>[]told
=============================================================================
