---------------------------- MODULE PortRouting ----------------------------
(***************************************************************************)
(* What the game is told about its four controller ports                   *)
(* (src/main/main.cpp).  The boot thread reads launcher.cfg once for each  *)
(* port, activates the routing, mounts the Transfer Pak cartridges and     *)
(* starts the game.  poll_inputs opens pads as it finds them; the game     *)
(* asks what is connected, reads input and sets the rumble motor.  Pads    *)
(* come and go at any time, SDL may enumerate a new one anywhere among the *)
(* others, and may refuse to open one.  With PMS_AUTOBOOT one human plays  *)
(* on port 0, on the keyboard and the first pad that opens.                *)
(*                                                                         *)
(* A pad is the instance id SDL gives it when it is plugged in: ids are    *)
(* never used again.  librecomp's cartridge table and SDL are external.    *)
(***************************************************************************)
EXTENDS LauncherCfg

CONSTANTS
  Files,        \* contents of launcher.cfg
  Envs,         \* PSR_TRANSFER_PAK_P*_ROM and _SAVE
  Pads          \* bound: pads plugged in over time

ASSUME PadsAssumption == Pads \in Nat
ASSUME FilesAssumption == Files \subseteq File
ASSUME EnvsAssumption == Envs \subseteq [Port -> [rom : Paths, save : Paths]]

VARIABLES
  autoboot,     \* PMS_AUTOBOOT
  file, env,    \* what the boot thread will read
  pads,         \* connected pads, in the order SDL enumerates them
  plugged,      \* the number of pads plugged in so far
  opened,       \* pads with an open handle
  boot,         \* the boot thread: a port, or what comes after the ports
  enabled, kind, instance,  \* g_port_enabled, g_port_kind, g_port_instance
  active,       \* g_launcher_input_active
  portPad,      \* g_port_pad, -1 for nullptr
  gPad,         \* g_pad, -1 for nullptr
  carts,        \* the cartridges mounted in librecomp
  refused,      \* history: ports whose pad SDL refused to open when last tried
  overtaken     \* history: a new pad was enumerated before one that a port had
                \* got already, while other ports were still waiting for theirs

hostVars == <<autoboot, file, env>>
padVars == <<pads, plugged, overtaken>>
tableVars == <<enabled, kind, instance>>
handleVars == <<opened, portPad, gPad, refused>>
vars == <<hostVars, padVars, tableVars, handleVars, boot, active, carts>>

Connected == {pads[i] : i \in 1 .. Len(pads)}
Activating == Ports
Mounting == Ports + 1
Starting == Ports + 2
Done == Ports + 3

Init ==
  /\ autoboot \in BOOLEAN /\ file \in Files /\ env \in Envs
  /\ \E n \in 0 .. Pads : plugged = n /\ pads = [i \in 1 .. n |-> i]
  /\ opened = {} /\ portPad = [p \in Port |-> -1] /\ gPad = -1
  /\ boot = IF autoboot THEN Mounting ELSE 0
  /\ enabled = [p \in Port |-> FALSE] /\ kind = [p \in Port |-> "None"]
  /\ instance = [p \in Port |-> -1]
  /\ active = FALSE
  /\ carts = [p \in Port |-> NoPath]
  /\ refused = {} /\ overtaken = FALSE

\* apply_launcher_input_config, one turn of its loop
ApplyPort(p) ==
  /\ boot = p
  /\ LET pa == PortAssignment(file, p, pads) IN
       /\ enabled' = [enabled EXCEPT ![p] = pa.enabled]
       /\ kind' = [kind EXCEPT ![p] = IF pa.enabled THEN pa.kind ELSE "None"]
       /\ instance' = [instance EXCEPT ![p] = pa.instance]
  /\ boot' = p + 1
  /\ UNCHANGED <<hostVars, padVars, handleVars, active, carts>>

Activate ==
  /\ boot = Activating
  /\ active' = TRUE
  /\ boot' = Mounting
  /\ UNCHANGED <<hostVars, padVars, tableVars, handleVars, carts>>

\* transfer_pak::initialize; a cartridge that cannot be read is not mounted.
LoadPaks ==
  /\ boot = Mounting
  /\ \E missing \in SUBSET Path :
       carts' = [p \in Port |-> LET c == PakPath(file, env, p, "rom")
                               IN IF c \in missing THEN NoPath ELSE c]
  /\ boot' = Starting
  /\ UNCHANGED <<hostVars, padVars, tableVars, handleVars, active>>

StartGame ==
  /\ boot = Starting
  /\ boot' = Done
  /\ UNCHANGED <<hostVars, padVars, tableVars, handleVars, active, carts>>

\* poll_inputs for one port of the routing, up to open_pad_by_instance.
Wanting(p) == active /\ kind[p] = "Gamepad" /\ portPad[p] = -1 /\ instance[p] >= 0

\* Mutant: a pad that was refused is not tried again.
PollPortOnce(p) ==
  /\ Wanting(p) /\ p \notin refused
  /\ instance[p] \in Connected \union opened
  /\ portPad' = [portPad EXCEPT ![p] = instance[p]]
  /\ opened' = opened \union {instance[p]}
  /\ UNCHANGED <<hostVars, padVars, tableVars, boot, active, gPad, carts, refused>>

\* The pad is opened, or its open handle reused.
PollPort(p) ==
  /\ Wanting(p)
  /\ instance[p] \in Connected \union opened
  /\ portPad' = [portPad EXCEPT ![p] = instance[p]]
  /\ opened' = opened \union {instance[p]}
  /\ refused' = refused \ {p}
  /\ UNCHANGED <<hostVars, padVars, tableVars, boot, active, gPad, carts>>

\* SDL_GameControllerOpen returns nullptr; the port stays without a pad.
PollRefused(p) ==
  /\ Wanting(p)
  /\ instance[p] \in Connected \ opened
  /\ refused' = refused \union {p}
  /\ UNCHANGED <<hostVars, padVars, tableVars, boot, active, opened, portPad, gPad, carts>>

\* ensure_pad_open, called by poll_inputs before the routing is active and by
\* get_connected_device_info of port 0 in the legacy mode: the first pad that
\* SDL does not refuse.
EnsurePadOpen ==
  /\ ~ active
  /\ gPad = -1
  /\ \E i \in 1 .. Len(pads) : gPad' = pads[i] /\ opened' = opened \union {pads[i]}
  /\ UNCHANGED <<hostVars, padVars, tableVars, boot, active, portPad, carts, refused>>

\* A pad of the i-th place or behind is a port's, and other ports still wait.
Given(i) ==
  /\ boot \in Port
  /\ \E j \in i .. Len(pads) : \E p \in Port : instance[p] = pads[j]

\* A pad is plugged in; SDL enumerates it in the i-th place.
Plug ==
  /\ plugged < Pads
  /\ plugged' = plugged + 1
  /\ \E i \in 1 .. Len(pads) + 1 :
       /\ pads' = SubSeq(pads, 1, i - 1) \o <<plugged + 1>> \o SubSeq(pads, i, Len(pads))
       /\ overtaken' = (overtaken \/ Given(i))
  /\ UNCHANGED <<hostVars, tableVars, handleVars, boot, active, carts>>

\* A pad is pulled out; its handle stays open and reads as idle.
Unplug ==
  /\ \E i \in 1 .. Len(pads) : pads' = SubSeq(pads, 1, i - 1) \o SubSeq(pads, i + 1, Len(pads))
  /\ UNCHANGED <<hostVars, plugged, overtaken, tableVars, handleVars, boot, active, carts>>

BootStep == (\E p \in Port : ApplyPort(p)) \/ Activate \/ LoadPaks \/ StartGame
PollStep == (\E p \in Port : PollPort(p) \/ PollRefused(p)) \/ EnsurePadOpen
Next == BootStep \/ PollStep \/ Plug \/ Unplug

Spec == Init /\ [][Next]_vars

\* The boot thread runs, the runtime polls for every frame, and SDL does not
\* refuse a connected pad for ever.
FairSpec == Spec /\ WF_vars(BootStep) /\ \A p \in Port : WF_vars(PollPort(p))
-----------------------------------------------------------------------------
(* The game's calls *)

HasPak(p) == carts[p] # NoPath

\* Mutant: a port without an open pad is reported absent.
DeviceInfoOpenOnly(p) ==
  [device |-> IF active THEN enabled[p] /\ (kind[p] = "Keyboard" \/ portPad[p] # -1 \/ HasPak(p))
              ELSE p = 0 \/ HasPak(p),
   pak |-> IF active THEN enabled[p] /\ HasPak(p) ELSE HasPak(p)]

\* get_connected_device_info
DeviceInfo(p) ==
  [device |-> IF active THEN enabled[p] /\ (kind[p] # "None" \/ HasPak(p))
              ELSE p = 0 \/ HasPak(p),
   pak |-> IF active THEN enabled[p] /\ HasPak(p) ELSE HasPak(p)]

\* get_n64_input: whether it answers, and the pad it reads
Input(p) ==
  IF active
    THEN [present |-> enabled[p] /\ (kind[p] # "None" \/ HasPak(p)),
          pad |-> IF enabled[p] /\ kind[p] = "Gamepad" THEN portPad[p] ELSE -1]
    ELSE [present |-> p = 0 \/ HasPak(p),
          pad |-> IF p = 0 THEN gPad ELSE -1]

\* Mutant: the motor of the first pad.
RumbleFirst(p) == IF p = 0 THEN gPad ELSE -1

\* set_rumble: the pad that shakes
RumblePad(p) == IF active THEN portPad[p] ELSE IF p = 0 THEN gPad ELSE -1
-----------------------------------------------------------------------------
(* Properties *)

Started == boot = Done

\* Types of the tables and handles.
TypeOK ==
  /\ autoboot \in BOOLEAN /\ active \in BOOLEAN
  /\ boot \in 0 .. Done
  /\ plugged \in 0 .. Pads /\ Connected \subseteq 1 .. plugged /\ opened \subseteq 1 .. plugged
  /\ enabled \in [Port -> BOOLEAN] /\ kind \in [Port -> Kind]
  /\ instance \in [Port -> -1 .. Pads] /\ portPad \in [Port -> -1 .. Pads] /\ gPad \in -1 .. Pads
  /\ carts \in [Port -> Paths]
  /\ refused \subseteq Port /\ overtaken \in BOOLEAN

\* What the game was told does not change while it runs, whatever is plugged
\* in, pulled out or opened meanwhile.
PresenceKept == Started => \A p \in Port : DeviceInfo(p)' = DeviceInfo(p)
PresenceStable == [][PresenceKept]_vars

\* Two players do not share a pad ("bound to pads by port order"), whatever is
\* pulled out or plugged in between the turns of the boot thread's loop, unless
\* a new pad was enumerated before one given to an earlier port meanwhile: each
\* turn counts the pads again.
NoSharedPad ==
  ~ overtaken =>
    \A p, q \in Port : p # q =>
      /\ instance[p] >= 0 => instance[p] # instance[q]
      /\ active /\ Input(p).pad # -1 => Input(p).pad # Input(q).pad

\* Not so without the exception.
NeverSharedPad ==
  \A p, q \in Port : p # q /\ instance[p] >= 0 => instance[p] # instance[q]

\* The tables keep their type and pads their player.
RoutingInv == TypeOK /\ NoSharedPad

\* Parts of the inductive invariant.  SDL enumerates a pad once.
Enumerated ==
  /\ file \in Files /\ env \in Envs
  /\ pads \in Seq(1 .. plugged)
  /\ \A i, j \in 1 .. Len(pads) : i # j => pads[i] # pads[j]

\* The routing becomes active after the last turn of the loop; a pad is opened
\* for a port by a handle of its own.
Handed ==
  /\ active => boot \in Mounting .. Done
  /\ \A p \in Port : kind[p] = "Gamepad" => enabled[p]
  /\ \A p \in Port : portPad[p] # -1 => active /\ kind[p] = "Gamepad" /\ portPad[p] = instance[p]

\* A port the loop has dealt with left the pads before its own to the earlier
\* gamepad players: as long as other ports wait, its own is not behind that place.
Dealt ==
  \A p \in Port : instance[p] # -1 =>
    /\ p < boot /\ file # NoFile /\ file[p].device = 2
    /\ instance[p] \in 1 .. plugged
    /\ ~ overtaken /\ boot \in Port =>
         \A i \in 1 .. Len(pads) : i > Ordinal(file, p) + 1 => pads[i] # instance[p]

\* Every port has a pad of its own.
Distinct ==
  ~ overtaken => \A p, q \in Port : p < q /\ instance[p] # -1 => instance[p] # instance[q]

\* The inductive invariant behind RoutingInv and RumbleIsInput.
IInv == TypeOK /\ Enumerated /\ Handed /\ Dealt /\ Distinct

\* The motor of a port shakes the pad that port is played with, and no other.
RumbleIsInput == \A p \in Port : RumblePad(p) = Input(p).pad

\* A pad that is bound to a port and stays connected plays on that port in the
\* end, though SDL may have refused to open it at first.
BoundPadPlays ==
  \A p \in Port :
    (active /\ instance[p] \in Connected) ~> (Input(p).pad = instance[p] \/ instance[p] \notin Connected)

\* A cartridge that was mounted is reported to the game ("... env overrides,
\* before the game's first accessory probe").
CartReported == Started => \A p \in Port : HasPak(p) => DeviceInfo(p).pak
=============================================================================
