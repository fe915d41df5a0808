---------------------------- MODULE RomSelection ----------------------------
(***************************************************************************)
(* Which ROM boots (src/main/main.cpp): the command line, then the path    *)
(* rom.cfg remembers, then a baserom.z64 next to the program, then a file  *)
(* picker that comes back until a ROM validates or the user cancels.  The  *)
(* launcher (src/launcher/pmsj_launcher_main.cpp) reads and writes the     *)
(* same rom.cfg, which can always be written, before it spawns the game.   *)
(* Sessions follow each other; files come, go and change between them.     *)
(***************************************************************************)
EXTENDS Naturals

CONSTANTS
  Rom,        \* paths of files
  Legacy,     \* baserom.z64 in the development layout
  NoPath      \* the empty path

VARIABLES
  good, bad,  \* files that are the right ROM, and files that are not
  romCfg,     \* what rom.cfg holds
  pc,         \* "off", "launcher", "spawn", "resolve", "select", "pick" or
              \* "running"
  path,       \* rom_path
  override,   \* cli_override
  asked,      \* history: the picker was shown in this session
  chosen      \* history: the last ROM picked or launched, as long as it stays
              \* good and nobody chooses otherwise; what is picked in a
              \* session that began with an argument does not count

vars == <<good, bad, romCfg, pc, path, override, asked, chosen>>

Exists(r) == r \in good \union bad

Init ==
  /\ good \in SUBSET Rom /\ bad \in SUBSET (Rom \ good)
  /\ romCfg = NoPath
  /\ pc = "off"
  /\ path = NoPath /\ override = FALSE
  /\ asked = FALSE /\ chosen = NoPath

\* Files appear, disappear and change between sessions.
ChangeFile ==
  /\ pc = "off"
  /\ \E r \in Rom :
       /\ \/ good' = good \union {r} /\ bad' = bad \ {r}
          \/ good' = good \ {r} /\ bad' = bad \union {r}
          \/ good' = good \ {r} /\ bad' = bad \ {r}
       /\ chosen' = IF r = chosen THEN NoPath ELSE chosen
  /\ UNCHANGED <<romCfg, pc, path, override, asked>>

\* The launcher: it seeds its picker with rom.cfg, or with the development
\* layout, and remembers what the user launches with, validated or not.
OpenLauncher ==
  /\ pc = "off"
  /\ pc' = "launcher"
  /\ path' = IF romCfg # NoPath THEN romCfg ELSE IF Exists(Legacy) THEN Legacy ELSE NoPath
  /\ UNCHANGED <<good, bad, romCfg, override, asked, chosen>>

LaunchGame ==
  /\ pc = "launcher"
  /\ \E r \in Rom \union {path} :
       /\ r = path \/ Exists(r)
       /\ romCfg' = IF r # NoPath THEN r ELSE romCfg
       /\ chosen' = IF r \in good THEN r ELSE NoPath
  /\ pc' = "spawn"
  /\ UNCHANGED <<good, bad, path, override, asked>>

\* No window could be opened: nothing is written.
Unavailable ==
  /\ pc = "launcher"
  /\ pc' = "spawn"
  /\ UNCHANGED <<good, bad, romCfg, path, override, asked, chosen>>

Spawn ==
  /\ pc = "spawn"
  /\ pc' = "resolve"
  /\ path' = NoPath /\ override' = FALSE /\ asked' = FALSE
  /\ UNCHANGED <<good, bad, romCfg, chosen>>

QuitLauncher ==
  /\ pc = "launcher"
  /\ pc' = "off"
  /\ path' = NoPath
  /\ UNCHANGED <<good, bad, romCfg, override, asked, chosen>>

\* The game started directly, with a path as its argument or without one.
Start ==
  /\ pc = "off"
  /\ \/ path' = NoPath /\ override' = FALSE
     \/ path' \in Rom /\ override' = TRUE
  /\ pc' = "resolve"
  /\ asked' = FALSE
  /\ UNCHANGED <<good, bad, romCfg, chosen>>

\* The argument, the saved path, the development layout.
Resolved == IF path # NoPath THEN path
            ELSE IF romCfg # NoPath /\ Exists(romCfg) THEN romCfg
            ELSE IF Exists(Legacy) THEN Legacy ELSE NoPath

\* Mutant: the development layout goes first.
ResolveLegacyFirst ==
  /\ pc = "resolve"
  /\ path' = IF path = NoPath /\ Exists(Legacy) THEN Legacy ELSE Resolved
  /\ pc' = "select"
  /\ UNCHANGED <<good, bad, romCfg, override, asked, chosen>>

\* The sources in order.
Resolve ==
  /\ pc = "resolve"
  /\ path' = Resolved
  /\ pc' = "select"
  /\ UNCHANGED <<good, bad, romCfg, override, asked, chosen>>

\* Mutant: a path that did not validate is tried again.
SelectAgain ==
  /\ pc = "select"
  /\ \/ /\ path \in good
        /\ romCfg' = IF override THEN romCfg ELSE path
        /\ pc' = "running"
        /\ UNCHANGED <<path>>
     \/ /\ path \in bad
        /\ UNCHANGED <<pc, path, romCfg>>
     \/ /\ ~ Exists(path)
        /\ pc' = "pick"
        /\ UNCHANGED <<path, romCfg>>
  /\ UNCHANGED <<good, bad, override, asked, chosen>>

\* Mutant: whatever boots is remembered.
SelectPersists ==
  /\ pc = "select"
  /\ \/ /\ path \in good
        /\ romCfg' = path
        /\ pc' = "running"
        /\ UNCHANGED <<path>>
     \/ /\ path \in bad
        /\ path' = NoPath /\ pc' = "pick"
        /\ UNCHANGED romCfg
     \/ /\ ~ Exists(path)
        /\ pc' = "pick"
        /\ UNCHANGED <<path, romCfg>>
  /\ UNCHANGED <<good, bad, override, asked, chosen>>

\* A file that exists is validated: the right ROM boots and is remembered
\* unless the session began with a path as its argument; any other is
\* reported and forgotten.
Select ==
  /\ pc = "select"
  /\ \/ /\ path \in good
        /\ romCfg' = IF override THEN romCfg ELSE path
        /\ pc' = "running"
        /\ UNCHANGED <<path>>
     \/ /\ path \in bad
        /\ path' = NoPath /\ pc' = "pick"
        /\ UNCHANGED romCfg
     \/ /\ ~ Exists(path)
        /\ pc' = "pick"
        /\ UNCHANGED <<path, romCfg>>
  /\ UNCHANGED <<good, bad, override, asked, chosen>>

\* The user picks a file that exists.
Pick ==
  /\ pc = "pick"
  /\ \E r \in good \union bad :
       /\ path' = r
       /\ chosen' = IF r \in good /\ ~ override THEN r ELSE chosen
  /\ pc' = "select" /\ asked' = TRUE
  /\ UNCHANGED <<good, bad, romCfg, override>>

\* The user cancels, or the system has no picker: the program exits.
Cancel ==
  /\ pc = "pick"
  /\ pc' = "off"
  /\ path' = NoPath /\ override' = FALSE /\ asked' = FALSE
  /\ UNCHANGED <<good, bad, romCfg, chosen>>

GameEnds ==
  /\ pc = "running"
  /\ pc' = "off"
  /\ path' = NoPath /\ override' = FALSE /\ asked' = FALSE
  /\ UNCHANGED <<good, bad, romCfg, chosen>>

Next ==
  ChangeFile \/ OpenLauncher \/ LaunchGame \/ QuitLauncher \/ Unavailable \/ Spawn
    \/ Start \/ Resolve \/ Select \/ Pick \/ Cancel \/ GameEnds

Spec == Init /\ [][Next]_vars

-----------------------------------------------------------------------------
(* Properties *)

\* A path given on the command line is not persisted: a session that began
\* with one leaves rom.cfg alone until it ends.
ArgumentNotPersisted ==
  [][override => romCfg' = romCfg]_vars

\* The ROM the user picked last, or launched with, is still the one that boots
\* without a word as long as it is there and good, whatever else lies around
\* and whatever other sessions did ("rom.cfg (last good pick)").
RemembersPick ==
  chosen # NoPath /\ ~ override /\ ~ asked /\ pc \in {"pick", "running"}
    => pc = "running" /\ path = chosen
=============================================================================
