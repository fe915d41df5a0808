-------------------------------- MODULE Boot --------------------------------
(***************************************************************************)
(* The launcher and the start of the game together: two programs that      *)
(* share launcher.cfg and rom.cfg.  The launcher reads both when it opens, *)
(* writes one after the other on LAUNCH and spawns the game, which selects *)
(* a ROM and then reads its routing and its cartridges.  The game is also  *)
(* started directly.  One of the two runs at a time.                       *)
(***************************************************************************)
EXTENDS Launcher

CONSTANTS Rom, Legacy
ASSUME LegacyAssumption == Legacy \in Rom

VARIABLES good, bad, romCfg, romPc, path, override, asked, chosen

R == INSTANCE RomSelection WITH pc <- romPc

romVars == <<good, bad, romCfg, romPc, path, override, asked, chosen>>
bootVars == <<launcherVars, romVars>>

BootInit == LauncherInit /\ R!Init

Alone(A) == A /\ UNCHANGED romVars
Game(A) == A /\ UNCHANGED launcherVars

\* The launcher's main
Run ==
  \/ Open /\ R!OpenLauncher
  \/ Quit /\ R!QuitLauncher
  \/ Unavailable /\ R!Unavailable
  \/ WriteRom /\ R!LaunchGame
  \/ Spawn /\ R!Spawn
  \/ Alone(Edit) \/ Alone(Launch) \/ Alone(Truncate) \/ Alone(Flush)

StartDirectly == Direct /\ R!Start
ResolveRom == Game(R!Resolve)
SelectRom == Game(R!Select)
PickRom == Game(R!Pick)
CancelPick == GameEnds /\ R!Cancel
End == GameEnds /\ R!GameEnds
FilesChange == Game(R!ChangeFile)

BootNext ==
  \/ Run \/ StartDirectly \/ ResolveRom \/ SelectRom \/ PickRom \/ CancelPick \/ End
  \/ FilesChange

\* The program runs on, and a user who is asked again and again picks a ROM
\* that is good or gives up.
PickGood == PickRom /\ path' \in good
BootSpec ==
  /\ BootInit /\ [][BootNext]_bootVars
  /\ WF_bootVars(ResolveRom \/ SelectRom)
  /\ WF_bootVars(PickRom \/ CancelPick) /\ SF_bootVars(PickGood \/ CancelPick)
-----------------------------------------------------------------------------
(* Properties *)

ArgumentNotPersisted == R!ArgumentNotPersisted
RemembersPick == R!RemembersPick

\* However a session starts, it gets to run or is given up by the user: a bad
\* rom.cfg, a bad argument or a ROM that is gone locks nobody out.
Decided == (romPc = "resolve") ~> (romPc \in {"running", "off"})
=============================================================================
