---------------------------- MODULE MCTextPcSet ----------------------------
(* Instances of TextPcSet: four addresses whose home slots collide and wrap. *)
EXTENDS TextPcSet, TLC

CONSTANTS pa, pb, pd, pe

MCPc == {pa, pb, pd, pe}
\* One address of each home slot; the other of the pair is looked up alike.
MCQuery == {pa, pd}
MCQueryZero == MCPc \union {NoPc}
MCHash == pa :> (N - 1) @@ pb :> (N - 1) @@ pd :> 0 @@ pe :> 0 @@ NoPc :> 0
=============================================================================
