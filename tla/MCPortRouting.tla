--------------------------- MODULE MCPortRouting ---------------------------
(* Three ports, two cartridges for TLC *)
EXTENDS PortRouting

MCCut == [v \in Paths |-> v]
\* Each device without a cartridge, a pad and no device with one.
MCEntry ==
  {[NoEntry EXCEPT !.device = d] : d \in 0 .. 2} \union
  {[NoEntry EXCEPT !.device = d, !.rom = "red"] : d \in {0, 2}}
MCFiles == [Port -> MCEntry] \union {NoFile}
NoEnv == [p \in Port |-> [rom |-> NoPath, save |-> NoPath]]
MCEnvs == {NoEnv, [NoEnv EXCEPT ![1].rom = "blue"]}
\* Environment overrides for ports launcher.cfg enables
MCOneFile == {[p \in Port |-> [NoEntry EXCEPT !.device = d[p]]] : d \in [Port -> {0, 1}]}
MCGamepads == {[p \in Port |-> [NoEntry EXCEPT !.device = 2]]}
=============================================================================
