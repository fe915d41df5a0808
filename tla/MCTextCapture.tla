--------------------------- MODULE MCTextCapture ---------------------------
(* Instances of TextCapture: two guest threads, the server, small tables. *)
EXTENDS TextCapture, TLC

CONSTANTS pa

Symmetry == Permutations(Thread) \union Permutations(Key)

MCPc == {ZeroPc, DrawPc, PrintfPc, pa}
=============================================================================
