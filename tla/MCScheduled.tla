----------------------------- MODULE MCScheduled ------------------------------
(***************************************************************************)
(* The instance of Scheduled that TLC checks: the guild's log and a        *)
(* raider's, started a pull later; two raiders with a character each.      *)
(***************************************************************************)
EXTENDS Scheduled, TLC

CONSTANTS c1, p1, p2

MCStart == [u \in Uploader |-> IF u = Guild THEN 0 ELSE 1]
MCRank == [u \in Uploader |-> IF u = Guild THEN 0 ELSE 1]
MCOwner == [c \in Character |-> IF c = c1 THEN p1 ELSE p2]
Interchangeable == Permutations(RecapRun) \cup Permutations(Job) \cup Permutations(Check)
=============================================================================
