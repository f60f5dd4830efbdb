----------------------------- MODULE MCAnnouncer -----------------------------
(***************************************************************************)
(* Small instances of Announcer for TLC: two bosses b1, b2 published in    *)
(* that order and one or two overlapping invocations.                      *)
(***************************************************************************)
EXTENDS Announcer, TLC

CONSTANTS b1, b2, p1, p2

MCBoss == {b1, b2}
MCOrder == <<b1, b2>>
MCPolls == {p1, p2}
MCOnePoll == {p1}

(* Invocations are interchangeable. *)
Invocations == Permutations(Poll)
=============================================================================
