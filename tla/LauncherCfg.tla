---------------------------- MODULE LauncherCfg ----------------------------
(***************************************************************************)
(* launcher.cfg and its three readers: the launcher itself                 *)
(* (src/launcher/pmsj_launcher_main.cpp), the input routing                *)
(* (src/main/launcher_cfg.cpp) and the Transfer Paks                       *)
(* (src/main/transfer_pak.cpp).  A file holds for each player the keys     *)
(* pN_device, pN_rom, pN_save, pN_rom_off and pN_save_off; an absent key   *)
(* reads as device 0 or as NoPath.                                         *)
(***************************************************************************)
EXTENDS Integers, Sequences, FiniteSets

CONSTANTS
  Ports,      \* 4
  Path,       \* paths of cartridges and of their saves
  NoPath,     \* the empty string
  NoFile,     \* no launcher.cfg
  Cut         \* Cut[v]: what a reader is left with of the value v: readers
              \* take '#' and ';' for the start of a comment

ASSUME PortsAssumption == Ports \in Nat \ {0}
ASSUME CutAssumption == Cut \in [Path \union {NoPath} -> Path \union {NoPath}] /\ Cut[NoPath] = NoPath
ASSUME NoPathAssumption == NoPath \notin Path

Port == 0 .. Ports - 1
Paths == Path \union {NoPath}
Entry == [device : 0 .. 2, rom : Paths, save : Paths, rom_off : Paths, save_off : Paths]
File == [Port -> Entry] \union {NoFile}
ASSUME NoFileAssumption == NoFile \notin [Port -> Entry]
NoEntry == [device |-> 0, rom |-> NoPath, save |-> NoPath, rom_off |-> NoPath, save_off |-> NoPath]

\* A file that was truncated and not yet written.
EmptyFile == [p \in Port |-> NoEntry]

Kind == {"None", "Keyboard", "Gamepad"}

\* nth_gamepad_instance: the k-th connected pad, -1 if there are fewer.
NthGamepad(pads, k) == IF k < Len(pads) THEN pads[k + 1] ELSE -1

Disabled == [enabled |-> FALSE, kind |-> "None", instance |-> -1]
Ordinal(file, p) == Cardinality({j \in Port : j < p /\ file[j].device >= 2})

\* Mutant: every gamepad player gets the first pad.
PortAssignmentFirst(file, p, pads) ==
  IF file = NoFile
    THEN IF p = 0 THEN [Disabled EXCEPT !.enabled = TRUE, !.kind = "Keyboard"] ELSE Disabled
    ELSE LET e == file[p] IN
         [enabled |-> e.device # 0 \/ Cut[e.rom] # NoPath,
          kind |-> <<"None", "Keyboard", "Gamepad">>[e.device + 1],
          instance |-> IF e.device = 2 THEN NthGamepad(pads, 0) ELSE -1]

\* port_assignment: without a file player 1 plays on the keyboard; a port
\* without input is enabled if it has a cartridge; gamepad players get the
\* connected pads in port order.
PortAssignment(file, p, pads) ==
  IF file = NoFile
    THEN IF p = 0 THEN [Disabled EXCEPT !.enabled = TRUE, !.kind = "Keyboard"] ELSE Disabled
    ELSE LET e == file[p] IN
         [enabled |-> e.device # 0 \/ Cut[e.rom] # NoPath,
          kind |-> <<"None", "Keyboard", "Gamepad">>[e.device + 1],
          instance |-> IF e.device = 2 THEN NthGamepad(pads, Ordinal(file, p)) ELSE -1]

\* port_path: an environment variable goes before the file.
PakPath(file, env, p, key) ==
  IF env[p][key] # NoPath THEN env[p][key]
  ELSE IF file = NoFile THEN NoPath ELSE Cut[file[p][key]]
=============================================================================
