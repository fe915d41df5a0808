------------------------------- MODULE MCRsp -------------------------------
(* Rsp for TLC: two voices with different pitches, wave forms that jump back
   within a frame, ramps that go up, go down, stand and reach their target. *)
EXTENDS Rsp

MCPitch == [v \in Voice |-> 5 - v]

MCEnvelope ==
    { [startL |-> 0, startR |-> 5, L |-> [target |-> 2, rate |-> 2], R |-> [target |-> 2, rate |-> -5]],
      [startL |-> 4, startR |-> 0, L |-> [target |-> 3, rate |-> 0], R |-> [target |-> 9, rate |-> 6]] }

InterleaveOp == [op |-> "interleave"]
MCOddLists ==
    { <<>>, <<[op |-> "setrate", low |-> 1]>>, <<InterleaveOp, [op |-> "spnoop"], InterleaveOp>>, <<InterleaveOp, [op |-> "segment"]>> }

\* The commands of these lists and of the frames.
MCCommand == UNION { {l[i] : i \in DOMAIN l} : l \in MCOddLists \union {FrameList(s) : s \in Songs} }
=============================================================================
