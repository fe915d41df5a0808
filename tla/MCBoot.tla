----------------------------- MODULE MCBoot -----------------------------
(* One cartridge and one save for TLC *)
EXTENDS Boot

MCCut == [v \in Paths |-> v]

\* A path with a '#' in it, and what is left of it.
MCCutComment == [v \in Paths |-> IF v = "C#1" THEN "C" ELSE v]
=============================================================================
