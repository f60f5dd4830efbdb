----------------------------- MODULE AtMostOnce ------------------------------
(***************************************************************************)
(* What greyBot's outboxes promise: a message is sent again only when its  *)
(* last attempt is known to have stored nothing.  An attempt whose outcome *)
(* nobody learned stays where it is, or is settled, and is never repeated, *)
(* so no message has two copies.                                           *)
(***************************************************************************)
EXTENDS Naturals

CONSTANT Msg

VARIABLES
  phase,            \* [Msg -> {"waiting", "sending", "settled"}]
  copies            \* [Msg -> Nat]: copies Discord stored

vars == <<phase, copies>>

Init ==
  /\ phase = [m \in Msg |-> "waiting"]
  /\ copies = [m \in Msg |-> 0]

Begin(m) ==
  /\ phase[m] = "waiting"
  /\ phase' = [phase EXCEPT ![m] = "sending"]
  /\ UNCHANGED copies

Deliver(m) ==
  /\ phase[m] = "sending" /\ copies[m] = 0
  /\ copies' = [copies EXCEPT ![m] = 1]
  /\ UNCHANGED phase

TryAgain(m) ==
  /\ phase[m] = "sending" /\ copies[m] = 0
  /\ phase' = [phase EXCEPT ![m] = "waiting"]
  /\ UNCHANGED copies

Settle(m) ==
  /\ phase[m] = "sending"
  /\ phase' = [phase EXCEPT ![m] = "settled"]
  /\ UNCHANGED copies

Next == \E m \in Msg : Begin(m) \/ Deliver(m) \/ TryAgain(m) \/ Settle(m)

Spec == Init /\ [][Next]_vars
=============================================================================
