---------------------------- MODULE MCAudioQueue ----------------------------
(* A game that paces itself, and one under fast-forward *)
EXTENDS AudioQueue

\* Two rates, one chunk no longer than the overlap
Paced == [rates |-> {8, 12}, chunks |-> {4, 6, 8}, device |-> 3, turbo |-> FALSE, last |-> 28]
\* A device that may stall while the queue grows to its bound
Fast == [rates |-> {8}, chunks |-> {8}, device |-> 24, turbo |-> TRUE, last |-> 56]
MCSetups == {Paced, Fast}

ASSUME PacedAssumption == Paces /\ Reaches
MCFast == {[Fast EXCEPT !.device = 8, !.last = 48]}
=============================================================================
