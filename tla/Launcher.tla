------------------------------ MODULE Launcher ------------------------------
(***************************************************************************)
(* The launcher (src/launcher/pmsj_launcher_main.cpp), a process of its    *)
(* own: it loads launcher.cfg into its settings, lets the user edit them,  *)
(* writes them back on LAUNCH and spawns the game, which reads the file    *)
(* with readers of its own (module LauncherCfg).  The window is the        *)
(* external recomp-ui; it reports the source of a player as 0, 1, or 2 and *)
(* more for a pad.  Graphics and audio settings are left out; rom.cfg is    *)
(* in RomSelection, and Boot puts the two together.                        *)
(***************************************************************************)
EXTENDS LauncherCfg

CONSTANTS
  Src,          \* what the window reports as the source of a player
  WriteMayFail  \* TRUE if launcher.cfg may be impossible to open

ASSUME SrcAssumption == Src \subseteq Nat

VARIABLES
  pc,         \* "none", "window", "write", "flush", "rom", "spawn" or "game"
  cfg,       \* launcher.cfg
  settings,   \* RecompLauncherCSettings
  edited,     \* history: TRUE once the user has changed something
  committed,  \* history: what the user last launched the game with
  played      \* the routing and the paks the game has read

launcherVars == <<pc, cfg, settings, edited, committed, played>>

NoCart == [src |-> 0, tpak |-> 0, rom |-> NoPath, save |-> NoPath]
Setting == [src : Src \union 0 .. 2, tpak : -1 .. 1, rom : Paths, save : Paths]

\* Mutant: a pak that was toggled off is forgotten.
LoadedOnOnly(f) ==
  [p \in Port |->
     IF f = NoFile THEN [NoCart EXCEPT !.src = IF p = 0 THEN 1 ELSE 0]
     ELSE LET e == f[p]
              s == [NoCart EXCEPT !.src = e.device]
          IN IF Cut[e.rom] # NoPath
               THEN [s EXCEPT !.tpak = 1, !.rom = Cut[e.rom], !.save = Cut[e.save]]
               ELSE s]

\* load_cfg_into_settings
Loaded(f) ==
  [p \in Port |->
     IF f = NoFile THEN [NoCart EXCEPT !.src = IF p = 0 THEN 1 ELSE 0]
     ELSE LET e == f[p]
              s == [NoCart EXCEPT !.src = e.device]
          IN IF Cut[e.rom] # NoPath
               THEN [s EXCEPT !.tpak = 1, !.rom = Cut[e.rom], !.save = Cut[e.save]]
             ELSE IF Cut[e.rom_off] # NoPath
               THEN [s EXCEPT !.tpak = -1, !.rom = Cut[e.rom_off], !.save = Cut[e.save_off]]
             ELSE s]

\* Mutant: a pak toggled off is written like one that is on.
WrittenAlwaysOn(s) ==
  [p \in Port |->
     LET e == [NoEntry EXCEPT !.device = IF s[p].src > 2 THEN 2 ELSE s[p].src]
     IN IF s[p].rom = NoPath THEN e ELSE [e EXCEPT !.rom = s[p].rom, !.save = s[p].save]]

\* write_settings_to_cfg: a pak that is off keeps its cartridge under keys the
\* game does not read.
Written(s) ==
  [p \in Port |->
     LET e == [NoEntry EXCEPT !.device = IF s[p].src > 2 THEN 2 ELSE s[p].src]
     IN IF s[p].rom = NoPath THEN e
        ELSE IF s[p].tpak >= 0 THEN [e EXCEPT !.rom = s[p].rom, !.save = s[p].save]
        ELSE [e EXCEPT !.rom_off = s[p].rom, !.save_off = s[p].save]]

NoEnv == [p \in Port |-> [rom |-> NoPath, save |-> NoPath]]

\* What the game makes of a file: its routing, with no pad connected, and its
\* cartridges, with no environment variable set.
Played(f) ==
  [p \in Port |->
     LET pa == PortAssignment(f, p, << >>)
     IN [kind |-> IF pa.enabled THEN pa.kind ELSE "None", enabled |-> pa.enabled,
         rom |-> PakPath(f, NoEnv, p, "rom"), save |-> PakPath(f, NoEnv, p, "save")]]

LauncherInit ==
  /\ pc = "none"
  /\ cfg = NoFile
  /\ settings = Loaded(NoFile) /\ edited = FALSE
  /\ committed = Loaded(NoFile)
  /\ played = Played(NoFile)

Open ==
  /\ pc = "none"
  /\ pc' = "window"
  /\ settings' = Loaded(cfg) /\ edited' = FALSE
  /\ UNCHANGED <<cfg, committed, played>>

\* The window: a player's source, a cartridge with or without a save, the
\* switch that turns a pak off and on.
Edit ==
  /\ pc = "window"
  /\ \E p \in Port :
       \/ \E n \in Src : settings' = [settings EXCEPT ![p].src = n]
       \/ \E r \in Path, s \in Paths :
            settings' = [settings EXCEPT ![p].rom = r, ![p].save = s, ![p].tpak = 1]
       \/ settings' = [settings EXCEPT ![p].rom = NoPath, ![p].save = NoPath, ![p].tpak = 0]
       \/ /\ settings[p].rom # NoPath
          /\ settings' = [settings EXCEPT ![p].tpak = -@]
  /\ edited' = TRUE
  /\ UNCHANGED <<pc, cfg, committed, played>>

Quit ==
  /\ pc = "window"
  /\ pc' = "none"
  /\ UNCHANGED <<cfg, settings, edited, committed, played>>

\* No window could be opened: the game runs with what was loaded.
Unavailable ==
  /\ pc = "window" /\ ~ edited
  /\ pc' = "spawn"
  /\ UNCHANGED <<cfg, settings, edited, committed, played>>

Launch ==
  /\ pc = "window"
  /\ committed' = settings
  /\ pc' = "write"
  /\ UNCHANGED <<cfg, settings, edited, played>>

\* The file is opened and truncated; if it cannot be opened a warning is
\* printed and the game is spawned all the same.
Truncate ==
  /\ pc = "write"
  /\ \/ cfg' = EmptyFile /\ pc' = "flush"
     \/ WriteMayFail /\ pc' = "rom" /\ UNCHANGED cfg
  /\ UNCHANGED <<settings, edited, committed, played>>

Flush ==
  /\ pc = "flush"
  /\ cfg' = Written(settings)
  /\ pc' = "rom"
  /\ UNCHANGED <<settings, edited, committed, played>>

\* rom.cfg is written.
WriteRom ==
  /\ pc = "rom"
  /\ pc' = "spawn"
  /\ UNCHANGED <<cfg, settings, edited, committed, played>>

\* The game starts and reads the file.
Spawn ==
  /\ pc = "spawn"
  /\ played' = Played(cfg)
  /\ pc' = "game"
  /\ UNCHANGED <<cfg, settings, edited, committed>>

\* The game is started without the launcher.
Direct ==
  /\ pc = "none"
  /\ played' = Played(cfg)
  /\ pc' = "game"
  /\ UNCHANGED <<cfg, settings, edited, committed>>

GameEnds ==
  /\ pc = "game"
  /\ pc' = "none"
  /\ UNCHANGED <<cfg, settings, edited, committed, played>>

LauncherNext ==
  Open \/ Edit \/ Quit \/ Unavailable \/ Launch \/ Truncate \/ Flush \/ WriteRom
    \/ Spawn \/ Direct \/ GameEnds

LauncherSpec == LauncherInit /\ [][LauncherNext]_launcherVars
-----------------------------------------------------------------------------
(* Properties *)

\* Types of the file and the settings.
LauncherTypeOK ==
  /\ pc \in {"none", "window", "write", "flush", "rom", "spawn", "game"}
  /\ cfg = NoFile \/ cfg \in [Port -> Entry]
  /\ settings \in [Port -> Setting] /\ committed \in [Port -> Setting]
  /\ edited \in BOOLEAN

Source(n) == IF n = 0 THEN "None" ELSE IF n = 1 THEN "Keyboard" ELSE "Gamepad"
On(s) == s.rom # NoPath /\ s.tpak >= 0

\* The game plays what the user launched it with: each player's device, and
\* the cartridge and save of each pak that is on and of no other ("boots
\* directly from the config we just committed").
GameBootsCommitted ==
  pc = "game" =>
    \A p \in Port :
      LET c == committed[p] IN
      /\ played[p].kind = Source(c.src)
      /\ played[p].enabled = (c.src # 0 \/ On(c))
      /\ played[p].rom = IF On(c) THEN c.rom ELSE NoPath
      /\ played[p].save = IF On(c) THEN c.save ELSE NoPath

\* The launcher opens with what the user last launched the game with, paks
\* that were off included, however often they were switched.
ReopenKeeps ==
  pc = "window" /\ ~ edited =>
    \A p \in Port :
      LET c == committed[p]
          s == settings[p]
      IN /\ Source(s.src) = Source(c.src)
         /\ s.rom = c.rom /\ s.save = c.save
         /\ s.rom # NoPath => On(s) = On(c)

\* No path has a comment character in it.
PathsUncut == \A v \in Paths : Cut[v] = v

\* The settings keep their type and what the user last chose.
SettingsInv == LauncherTypeOK /\ ReopenKeeps
=============================================================================
