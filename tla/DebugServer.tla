---------------------------- MODULE DebugServer ----------------------------
(***************************************************************************)
(* The debug server (src/main/debug_server.cpp) and what it shares with    *)
(* the game: the input override get_n64_input reads, and fast-forward,     *)
(* which TAB sets too (src/main/main.cpp).  One thread serves one client   *)
(* at a time and answers one line after the other; the override is four    *)
(* atomics, stored one by one and loaded one by one.  Clients (the tools)  *)
(* send a line and wait for its answer, or give up and hang up; a line     *)
(* already sent is carried out all the same.                               *)
(***************************************************************************)
EXTENDS Naturals, Sequences

CONSTANTS
  Client,       \* tools
  None,         \* no client, no line
  Button,       \* buttons commands press and release
  Axis,         \* positions of a stick axis, 0 at rest
  Turbo,        \* values PMS_TURBO may have
  Backlog,      \* connections that wait to be accepted
  Lines         \* bound: lines sent

ASSUME AxisAssumption == 0 \in Axis
ASSUME TurboAssumption == Turbo \subseteq BOOLEAN

Command ==
  [op : {"set_button"}, button : Button, down : BOOLEAN]
    \union [op : {"set_stick"}, x : Axis, y : Axis]
    \union {[op |-> "clear_input"]}
    \union [op : {"fast_forward"}, on : BOOLEAN]

ASSUME NoneAssumption == None \notin Client /\ None \notin Command

VARIABLES
  client,       \* "off", "queued", "open" or "gone" (hung up, not yet noticed)
  waiting,      \* clients that wait for an answer
  line,         \* the line a client has sent
  backlog,      \* connections the server has not accepted
  serving,      \* the client of client_loop
  step,         \* how far handle_line is, 0 if it waits for a line
  cur,          \* handle_line's copy of the buttons
  active, buttons, stickX, stickY,  \* g_input_override_active, ...
  forward,      \* g_fast_forward
  persistent,   \* s_turbo_persistent
  tab,          \* TAB is held down
  read,         \* get_n64_input: the loads it has done
  got,          \* and what they returned
  alone,        \* history: no command ran since it began
  held,         \* history: the override as the commands carried out so far define it
  sent          \* bound: lines sent

clientVars == <<client, waiting, line, backlog, sent>>
overrideVars == <<active, buttons, stickX, stickY>>
serverVars == <<serving, step, cur, held>>
frameVars == <<forward, persistent, tab>>
gameVars == <<read, got, alone>>
vars == <<clientVars, overrideVars, serverVars, frameVars, gameVars>>

Released == [active |-> FALSE, buttons |-> {}, x |-> 0, y |-> 0]

Init ==
  /\ client = [c \in Client |-> "off"] /\ waiting = {}
  /\ line = [c \in Client |-> None]
  /\ backlog = << >> /\ serving = None /\ step = 0 /\ cur = {} /\ sent = 0
  /\ active = FALSE /\ buttons = {} /\ stickX = 0 /\ stickY = 0
  /\ persistent \in Turbo /\ forward = persistent /\ tab = FALSE
  /\ read = 0 /\ got = Released /\ alone = TRUE
  /\ held = Released
-----------------------------------------------------------------------------
(* The tools *)

Connect(c) ==
  /\ client[c] = "off" /\ Len(backlog) < Backlog
  /\ client' = [client EXCEPT ![c] = "queued"]
  /\ backlog' = Append(backlog, c)
  /\ UNCHANGED <<waiting, line, sent, serverVars, overrideVars, frameVars, gameVars>>

\* A line is sent; the system keeps it even while the connection waits to be
\* accepted.
Send(c) ==
  /\ client[c] \in {"queued", "open"} /\ c \notin waiting /\ line[c] = None
  /\ sent < Lines /\ sent' = sent + 1
  /\ \E m \in Command : line' = [line EXCEPT ![c] = m]
  /\ waiting' = waiting \union {c}
  /\ UNCHANGED <<client, backlog, serverVars, overrideVars, frameVars, gameVars>>

\* The tool is done, or its timeout runs out.
HangUp(c) ==
  /\ client[c] \in {"queued", "open"}
  /\ client' = [client EXCEPT ![c] = "gone"]
  /\ waiting' = waiting \ {c}
  /\ UNCHANGED <<line, backlog, sent, serverVars, overrideVars, frameVars, gameVars>>
-----------------------------------------------------------------------------
(* The server thread *)

Accept ==
  /\ serving = None /\ backlog # << >>
  /\ LET c == Head(backlog) IN
       /\ serving' = c
       /\ client' = [client EXCEPT ![c] = IF @ = "gone" THEN "gone" ELSE "open"]
  /\ backlog' = Tail(backlog)
  /\ UNCHANGED <<waiting, line, sent, step, cur, held, overrideVars, frameVars, gameVars>>

\* recv: a line is complete.
Receive ==
  /\ serving # None /\ step = 0 /\ line[serving] # None
  /\ step' = 1
  /\ alone' = FALSE
  /\ UNCHANGED <<clientVars, serving, cur, held, overrideVars, frameVars, read, got>>

\* Mutant: the closed connection is read from again and again.
ClosedKeeps ==
  /\ serving # None /\ step = 0 /\ line[serving] = None /\ client[serving] = "gone"
  /\ client' = [client EXCEPT ![serving] = "off"]
  /\ UNCHANGED <<serving, waiting, line, backlog, sent, step, cur, held, overrideVars, frameVars, gameVars>>

\* recv finds the connection closed, after the last line.
Closed ==
  /\ serving # None /\ step = 0 /\ line[serving] = None /\ client[serving] = "gone"
  /\ client' = [client EXCEPT ![serving] = "off"]
  /\ serving' = None
  /\ UNCHANGED <<waiting, line, backlog, sent, step, cur, held, overrideVars, frameVars, gameVars>>

Handling(op) == serving # None /\ step > 0 /\ line[serving].op = op
Msg == line[serving]

\* The command is done: it is answered if its client still listens.
Answer(effect) ==
  /\ line' = [line EXCEPT ![serving] = None]
  /\ waiting' = waiting \ {serving}
  /\ step' = 0 /\ cur' = {}
  /\ held' = effect
  /\ UNCHANGED <<client, backlog, sent, serving, frameVars, gameVars>>

Proceed ==
  /\ step' = step + 1
  /\ UNCHANGED <<clientVars, serving, held, frameVars, gameVars>>

Pressed(set, m) == IF m.down THEN set \union {m.button} ELSE set \ {m.button}

\* Mutant: releasing a button releases all.
SetButtonAll ==
  /\ Handling("set_button")
  /\ \/ step = 1 /\ active' = TRUE /\ UNCHANGED <<buttons, stickX, stickY, cur>> /\ Proceed
     \/ step = 2 /\ cur' = (IF Msg.down THEN buttons ELSE {}) /\ UNCHANGED overrideVars /\ Proceed
     \/ /\ step = 3 /\ buttons' = Pressed(cur, Msg) /\ UNCHANGED <<active, stickX, stickY>>
        /\ Answer([held EXCEPT !.active = TRUE, !.buttons = Pressed(@, Msg)])

\* set_button: the flag, a load of the buttons, a store.
SetButton ==
  /\ Handling("set_button")
  /\ \/ step = 1 /\ active' = TRUE /\ UNCHANGED <<buttons, stickX, stickY, cur>> /\ Proceed
     \/ step = 2 /\ cur' = buttons /\ UNCHANGED overrideVars /\ Proceed
     \/ /\ step = 3 /\ buttons' = Pressed(cur, Msg) /\ UNCHANGED <<active, stickX, stickY>>
        /\ Answer([held EXCEPT !.active = TRUE, !.buttons = Pressed(@, Msg)])

\* set_stick: the flag, one axis, the other.
SetStick ==
  /\ Handling("set_stick")
  /\ \/ step = 1 /\ active' = TRUE /\ UNCHANGED <<buttons, stickX, stickY, cur>> /\ Proceed
     \/ step = 2 /\ stickX' = Msg.x /\ UNCHANGED <<active, buttons, stickY, cur>> /\ Proceed
     \/ /\ step = 3 /\ stickY' = Msg.y /\ UNCHANGED <<active, buttons, stickX>>
        /\ Answer([held EXCEPT !.active = TRUE, !.x = Msg.x, !.y = Msg.y])

\* Mutant: only the flag is cleared, and the buttons come back with it.
ClearInputFlag ==
  /\ Handling("clear_input")
  /\ step = 1 /\ active' = FALSE /\ UNCHANGED <<buttons, stickX, stickY>>
  /\ Answer(Released)

\* clear_input: the flag first, so that nothing is read half cleared.
ClearInput ==
  /\ Handling("clear_input")
  /\ \/ step = 1 /\ active' = FALSE /\ UNCHANGED <<buttons, stickX, stickY, cur>> /\ Proceed
     \/ step = 2 /\ buttons' = {} /\ UNCHANGED <<active, stickX, stickY, cur>> /\ Proceed
     \/ step = 3 /\ stickX' = 0 /\ UNCHANGED <<active, buttons, stickY, cur>> /\ Proceed
     \/ step = 4 /\ stickY' = 0 /\ UNCHANGED <<active, buttons, stickX>> /\ Answer(Released)

FastForward ==
  /\ Handling("fast_forward")
  /\ forward' = Msg.on
  /\ line' = [line EXCEPT ![serving] = None]
  /\ waiting' = waiting \ {serving}
  /\ step' = 0 /\ cur' = {}
  /\ UNCHANGED <<client, backlog, sent, serving, held, overrideVars, persistent, tab, gameVars>>

HandleLine == SetButton \/ SetStick \/ ClearInput \/ FastForward
-----------------------------------------------------------------------------
(* The window and the game *)

\* update_gfx: TAB down sets fast-forward, TAB up restores PMS_TURBO's value.
Tab ==
  /\ tab' = ~ tab
  /\ forward' = IF tab THEN persistent ELSE TRUE
  /\ UNCHANGED <<persistent, clientVars, serverVars, overrideVars, gameVars>>

\* get_n64_input for the primary port: the flag, the buttons, x, y.
Read ==
  /\ \/ /\ read = 0
        /\ got' = [Released EXCEPT !.active = active]
        /\ alone' = (step = 0)
        /\ read' = IF active THEN 1 ELSE 4
     \/ read = 1 /\ got' = [got EXCEPT !.buttons = buttons] /\ read' = 2 /\ UNCHANGED alone
     \/ read = 2 /\ got' = [got EXCEPT !.x = stickX] /\ read' = 3 /\ UNCHANGED alone
     \/ read = 3 /\ got' = [got EXCEPT !.y = stickY] /\ read' = 4 /\ UNCHANGED alone
  /\ UNCHANGED <<clientVars, serverVars, overrideVars, frameVars>>

\* The game has its input and goes on to its next frame.
ReadDone ==
  /\ read = 4
  /\ read' = 0 /\ got' = Released /\ alone' = TRUE
  /\ UNCHANGED <<clientVars, serverVars, overrideVars, frameVars>>

ServerStep == Accept \/ Receive \/ Closed \/ HandleLine
Next ==
  \/ \E c \in Client : Connect(c) \/ Send(c) \/ HangUp(c)
  \/ ServerStep \/ Tab \/ Read \/ ReadDone

Spec == Init /\ [][Next]_vars

\* The server thread runs, and every tool hangs up some time.
FairSpec == Spec /\ WF_vars(ServerStep) /\ \A c \in Client : WF_vars(HangUp(c))
-----------------------------------------------------------------------------
(* Properties *)

Override == [active : BOOLEAN, buttons : SUBSET Button, x : Axis, y : Axis]

\* Types of the atomics, the server's locals and the game's.
TypeOK ==
  /\ client \in [Client -> {"off", "queued", "open", "gone"}]
  /\ waiting \subseteq {c \in Client : client[c] \in {"queued", "open"}}
  /\ serving \in Client \union {None} /\ step \in 0 .. 4
  /\ cur \subseteq Button
  /\ active \in BOOLEAN /\ buttons \subseteq Button /\ stickX \in Axis /\ stickY \in Axis
  /\ forward \in BOOLEAN /\ persistent \in BOOLEAN /\ tab \in BOOLEAN
  /\ read \in 0 .. 4 /\ got \in Override /\ held \in Override

\* A read that no command overlaps returns what the commands carried out so
\* far define, whoever sent them: nothing is lost between clients, and nothing
\* of an override that was cleared comes back with the next command.
ReadIsHeld ==
  read = 4 /\ alone =>
    /\ got.active = held.active
    /\ held.active => got = held

\* When no command runs and nothing is held, the flag, the buttons and the
\* axes are all at rest: a later command for one of them brings nothing back
\* of what the others were before the clear.
ClearedStaysClear ==
  step = 0 /\ ~ held.active => ~ active /\ buttons = {} /\ stickX = 0 /\ stickY = 0

\* The atomics keep their type and rest when nothing is held.
OverrideInv == TypeOK /\ ClearedStaysClear

\* Parts of the inductive invariant.  The line in hand stays where it is.
LineKept ==
  /\ line \in [Client -> Command \union {None}] /\ backlog \in Seq(Client)
  /\ step > 0 => serving # None /\ line[serving] # None

\* Between two commands the atomics are what is held, and nothing is held
\* that a clear has taken away.
Resting ==
  /\ step = 0 => (active <=> held.active) /\ buttons = held.buttons /\ stickX = held.x /\ stickY = held.y
  /\ ~ held.active => held = Released

\* Within a command they differ from it by the stores done so far.
Midway ==
  step > 0 =>
    IF Msg.op = "clear_input"
      THEN /\ step > 1 => ~ active
           /\ step > 2 => buttons = {}
           /\ step > 3 => stickX = 0
      ELSE /\ step < 4 /\ (active <=> held.active \/ step > 1)
           /\ buttons = held.buttons /\ stickY = held.y
           /\ stickX = IF Msg.op = "set_stick" /\ step = 3 THEN Msg.x ELSE held.x
           /\ Msg.op = "set_button" /\ step = 3 => cur = buttons
           /\ Msg.op = "fast_forward" => step = 1

\* An undisturbed read agrees with what is held as far as it has come.
ReadSoFar ==
  alone /\ read > 0 =>
    /\ step = 0
    /\ got.active <=> held.active
    /\ read < 4 => held.active
    /\ held.active /\ read > 1 => got.buttons = held.buttons
    /\ held.active /\ read > 2 => got.x = held.x
    /\ held.active /\ read > 3 => got.y = held.y

\* The inductive invariant behind OverrideInv and ReadIsHeld.
IInv == TypeOK /\ LineKept /\ Resting /\ Midway /\ ReadSoFar

\* A line that was sent is carried out, even if its tool has given up: a tool
\* that stays connected holds up the others, but not for good.
CarriedOut == \A c \in Client : (line[c] # None) ~> (line[c] = None)

\* While TAB is held the game runs fast ("holding TAB forces fast-forward on").
TabForces == tab => forward
=============================================================================
