------------------------------ MODULE FirstKill ------------------------------
(***************************************************************************)
(* What greyBot promises about the cards of one tier at one difficulty,    *)
(* with nothing said about polls, DynamoDB or HTTP: every card has a key   *)
(* (a boss, or the tier clear), the key is either still open, recorded as  *)
(* prior to the bot's watch, held by someone who may post its card, or     *)
(* done.  A done key is final.  The one way to a second copy is a card     *)
(* that Discord stored without the sender learning of it (Doubt).          *)
(*                                                                         *)
(* README.md "The rule the whole thing is built around" is the source of   *)
(* the promise; src/store.py and src/handler.py implement it, and          *)
(* Announcer.tla is shown to implement this module.                        *)
(***************************************************************************)
EXTENDS Naturals

CONSTANT Key        \* the cards a tier can have: its bosses and its clear

VARIABLES
  status,           \* [Key -> Status]: where each card stands
  cards,            \* [Key -> Nat]: copies of the card in the channel
  doubt             \* [Key -> Nat]: copies whose delivery was never confirmed

vars == <<status, cards, doubt>>

Status == {"open", "prior", "held", "done"}

TypeOK ==
  /\ status \in [Key -> Status]
  /\ cards \in [Key -> Nat]
  /\ doubt \in [Key -> Nat]

Init ==
  /\ status = [k \in Key |-> "open"]
  /\ cards = [k \in Key |-> 0]
  /\ doubt = [k \in Key |-> 0]

(* The seed: what was already dead when the tier was first seen is recorded *)
(* in one step, and never announced.                                        *)
Preset(S) ==
  /\ \A k \in Key : status[k] = "open" /\ cards[k] = 0
  /\ status' = [k \in Key |-> IF k \in S THEN "prior" ELSE "open"]
  /\ UNCHANGED <<cards, doubt>>

Take(k) ==
  /\ status[k] = "open"
  /\ status' = [status EXCEPT ![k] = "held"]
  /\ UNCHANGED <<cards, doubt>>

Land(k) ==
  /\ status[k] = "held"
  /\ status' = [status EXCEPT ![k] = "done"]
  /\ cards' = [cards EXCEPT ![k] = @ + 1]
  /\ UNCHANGED doubt

Doubt(k) ==
  /\ status[k] = "held"
  /\ cards' = [cards EXCEPT ![k] = @ + 1]
  /\ doubt' = [doubt EXCEPT ![k] = @ + 1]
  /\ UNCHANGED status

GiveBack(k) ==
  /\ status[k] = "held"
  /\ status' = [status EXCEPT ![k] = "open"]
  /\ UNCHANGED <<cards, doubt>>

Next ==
  \/ \E S \in SUBSET Key : Preset(S)
  \/ \E k \in Key : Take(k) \/ Land(k) \/ Doubt(k) \/ GiveBack(k)

Spec == Init /\ [][Next]_vars
=============================================================================
