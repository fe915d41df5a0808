----------------------------- MODULE HostProofs -----------------------------
(***************************************************************************)
(* Proofs about the host's two services to a running game: the override of *)
(* the debug server, and the queue between the game and the sound device.  *)
(*                                                                         *)
(* The override: OverrideInv and ReadIsHeld for any tools, buttons, axes,  *)
(* backlog and number of lines.  A command stores the parts of the         *)
(* override one by one, so the proof follows what the atomics are after    *)
(* each store (Midway), that they are what is held between two commands    *)
(* (Resting), and how much of it a read that no command has overlapped has *)
(* seen (ReadSoFar).                                                       *)
(*                                                                         *)
(* The queue: for every overlap, size of a sample, rate and length of a    *)
(* chunk.  Of a stream alone nothing can be said: that the next chunk goes *)
(* on where it ends depends on the overlap.  StreamKept says that the      *)
(* stream has not got beyond the middle of the overlap, GapsKept that      *)
(* what it has not got to is in the second half.  What half an overlap     *)
(* dropped at each end leaves of a chunk is arithmetic on frames and       *)
(* bytes; the bound of the latency needs powers of two, which come from    *)
(* the number of subsets of a finite set.                                  *)
(***************************************************************************)
EXTENDS DebugServer, AudioQueue, TLAPS, FiniteSetTheorems, SequenceTheorems, WellFoundedInduction

-----------------------------------------------------------------------------
(* The override *)

\* The commands, one kind at a time.
LEMMA CommandKinds ==
  ASSUME NEW m \in Command
  PROVE  /\ m.op \in {"set_button", "set_stick", "clear_input", "fast_forward"}
         /\ m.op = "set_button" => m.button \in Button /\ m.down \in BOOLEAN
         /\ m.op = "set_stick" => m.x \in Axis /\ m.y \in Axis
         /\ m.op = "fast_forward" => m.on \in BOOLEAN
BY DEF Command

\* A command in hand is a command.
LEMMA MsgIsCommand ==
  ASSUME TypeOK, LineKept, step > 0
  PROVE  Msg \in Command
BY NoneAssumption DEF TypeOK, LineKept, Msg

\* What set_button stores is a set of buttons.
LEMMA PressedButtons ==
  ASSUME NEW s \in SUBSET Button, NEW m \in Command, m.op = "set_button"
  PROVE  Pressed(s, m) \in SUBSET Button
BY CommandKinds DEF Pressed

\* The initial state satisfies the inductive invariant.
LEMMA InitIInv == Init => IInv
<1> SUFFICES ASSUME Init PROVE IInv
  OBVIOUS
<1>1. TypeOK
  <2>1. Released \in Override
    BY AxisAssumption DEF Released, Override
  <2>2. persistent \in BOOLEAN /\ forward \in BOOLEAN
    BY TurboAssumption DEF Init
  <2>3. /\ client \in [Client -> {"off", "queued", "open", "gone"}]
        /\ waiting = {} /\ serving = None /\ step = 0 /\ cur = {} /\ read = 0
        /\ active = FALSE /\ buttons = {} /\ stickX = 0 /\ stickY = 0 /\ tab = FALSE
        /\ got = Released /\ held = Released
    BY DEF Init
  <2>4. waiting \subseteq {c \in Client : client[c] \in {"queued", "open"}}
    BY <2>3
  <2>5. active \in BOOLEAN /\ tab \in BOOLEAN /\ buttons \subseteq Button /\ stickX \in Axis /\ stickY \in Axis
    BY <2>3, AxisAssumption
  <2>6. serving \in Client \union {None} /\ step \in 0 .. 4 /\ read \in 0 .. 4 /\ cur \subseteq Button
    BY <2>3
  <2> QED BY <2>1, <2>2, <2>3, <2>4, <2>5, <2>6 DEF TypeOK
<1>2. LineKept
  BY DEF Init, LineKept
<1>3. Resting /\ Midway /\ ReadSoFar
  BY DEF Init, Resting, Midway, ReadSoFar, Released
<1> QED
  BY <1>1, <1>2, <1>3 DEF IInv

-----------------------------------------------------------------------------
(* The tools: they change nothing but their own connection. *)

LEMMA ToolSteps ==
  ASSUME IInv, NEW c \in Client, Connect(c) \/ Send(c) \/ HangUp(c)
  PROVE  IInv'
<1>1. /\ UNCHANGED <<serverVars, overrideVars, frameVars, gameVars>>
      /\ TypeOK /\ LineKept /\ Resting /\ Midway /\ ReadSoFar
  BY DEF IInv, Connect, Send, HangUp
<1>2. step > 0 => line'[serving] = line[serving]
  BY <1>1 DEF Connect, Send, HangUp, LineKept, TypeOK
<1>3. line' \in [Client -> Command \union {None}] /\ backlog' \in Seq(Client)
  <2>1. CASE Connect(c)
    BY <1>1, <2>1 DEF Connect, LineKept
  <2>2. CASE Send(c)
    BY <1>1, <2>2 DEF Send, LineKept
  <2>3. CASE HangUp(c)
    BY <1>1, <2>3 DEF HangUp, LineKept
  <2> QED BY <2>1, <2>2, <2>3
<1>4. /\ client' \in [Client -> {"off", "queued", "open", "gone"}]
      /\ waiting' \subseteq {b \in Client : client'[b] \in {"queued", "open"}}
  BY <1>1 DEF Connect, Send, HangUp, TypeOK
<1>5. TypeOK'
  BY <1>1, <1>4 DEF TypeOK, serverVars, overrideVars, frameVars, gameVars
<1>6. LineKept'
  BY <1>1, <1>2, <1>3 DEF LineKept, serverVars
<1>7. Resting' /\ ReadSoFar'
  BY <1>1 DEF Resting, ReadSoFar, serverVars, overrideVars, gameVars
<1>8. Midway'
  BY <1>1, <1>2 DEF Midway, Msg, serverVars, overrideVars
<1> QED
  BY <1>5, <1>6, <1>7, <1>8 DEF IInv

-----------------------------------------------------------------------------
(* The server between two commands. *)

LEMMA AcceptStep ==
  ASSUME IInv, Accept
  PROVE  IInv'
<1>1. TypeOK /\ LineKept /\ Resting /\ Midway /\ ReadSoFar /\ serving = None
  BY DEF IInv, Accept
<1>2. PICK c \in Client : /\ serving' = c
                          /\ client' = [client EXCEPT ![c] = IF @ = "gone" THEN "gone" ELSE "open"]
  <2>1. Head(backlog) \in Client
    BY <1>1 DEF Accept, LineKept
  <2> QED BY <2>1 DEF Accept
<1>3. step = 0
  BY <1>1 DEF LineKept, TypeOK
<1>4. /\ backlog' \in Seq(Client)
      /\ UNCHANGED <<waiting, line, step, cur, held, overrideVars, frameVars, gameVars>>
  BY <1>1 DEF Accept, LineKept
<1>5. TypeOK'
  <2>1. /\ client' \in [Client -> {"off", "queued", "open", "gone"}]
        /\ waiting \subseteq {b \in Client : client'[b] \in {"queued", "open"}}
    BY <1>1, <1>2 DEF TypeOK
  <2> QED BY <1>1, <1>2, <1>4, <2>1 DEF TypeOK, overrideVars, frameVars, gameVars
<1>6. LineKept' /\ Resting' /\ Midway' /\ ReadSoFar'
  BY <1>1, <1>3, <1>4 DEF LineKept, Resting, Midway, ReadSoFar, overrideVars, gameVars
<1> QED
  BY <1>5, <1>6 DEF IInv

LEMMA ReceiveStep ==
  ASSUME IInv, Receive
  PROVE  IInv'
<1>1. TypeOK /\ LineKept /\ Resting /\ step = 0 /\ serving # None /\ line[serving] # None
  BY DEF IInv, Receive
<1>2. /\ step' = 1 /\ alone' = FALSE
      /\ UNCHANGED <<clientVars, serving, cur, held, overrideVars, frameVars, read, got>>
  BY DEF Receive
<1>3. TypeOK'
  BY <1>1, <1>2 DEF TypeOK, clientVars, overrideVars, frameVars
<1>4. LineKept' /\ Resting' /\ ReadSoFar'
  BY <1>1, <1>2 DEF LineKept, Resting, ReadSoFar, clientVars, overrideVars
<1>5. Msg' = Msg /\ Msg \in Command
  BY <1>1, <1>2, NoneAssumption DEF Msg, LineKept, TypeOK, clientVars
<1>6. Midway'
  BY <1>1, <1>2, <1>5, CommandKinds DEF Midway, Resting, TypeOK, Override, overrideVars
<1> QED
  BY <1>3, <1>4, <1>6 DEF IInv

LEMMA ClosedStep ==
  ASSUME IInv, Closed
  PROVE  IInv'
<1>1. TypeOK /\ LineKept /\ Resting /\ ReadSoFar /\ step = 0 /\ serving \in Client
  BY DEF IInv, Closed, TypeOK
<1>2. /\ client[serving] = "gone" /\ client' = [client EXCEPT ![serving] = "off"]
      /\ serving' = None
      /\ UNCHANGED <<waiting, line, backlog, sent, step, cur, held, overrideVars, frameVars, gameVars>>
  BY DEF Closed
<1>3. TypeOK'
  BY <1>1, <1>2 DEF TypeOK, overrideVars, frameVars, gameVars
<1>4. LineKept' /\ Resting' /\ Midway' /\ ReadSoFar'
  BY <1>1, <1>2 DEF LineKept, Resting, Midway, ReadSoFar, overrideVars, gameVars
<1> QED
  BY <1>3, <1>4 DEF IInv

-----------------------------------------------------------------------------
(* The server within a command: a store, and its answer. *)

\* A store before the last leaves the line in hand and what is held alone.
LEMMA Proceeds ==
  ASSUME IInv, Proceed, step \in 1 .. 3, cur' \subseteq Button,
         active' \in BOOLEAN, buttons' \subseteq Button, stickX' \in Axis, stickY' \in Axis,
         Midway'
  PROVE  IInv'
<1>1. /\ TypeOK /\ LineKept /\ Resting /\ ReadSoFar
      /\ step' = step + 1 /\ UNCHANGED <<clientVars, serving, held, frameVars, gameVars>>
  BY DEF IInv, Proceed
<1>2. TypeOK'
  BY <1>1 DEF TypeOK, clientVars, frameVars, gameVars
<1>3. LineKept' /\ Resting' /\ ReadSoFar'
  BY <1>1 DEF LineKept, Resting, ReadSoFar, clientVars, gameVars
<1> QED
  BY <1>2, <1>3 DEF IInv

\* After the last store the atomics are what is held.
LEMMA Answers ==
  ASSUME IInv, step \in 1 .. 4, NEW h \in Override, Answer(h),
         active' = h.active, buttons' = h.buttons, stickX' = h.x, stickY' = h.y,
         ~ h.active => h = Released
  PROVE  IInv'
<1>1. /\ TypeOK /\ LineKept /\ ReadSoFar /\ serving \in Client
      /\ line' = [line EXCEPT ![serving] = None] /\ waiting' = waiting \ {serving}
      /\ step' = 0 /\ cur' = {} /\ held' = h
      /\ UNCHANGED <<client, backlog, sent, serving, frameVars, gameVars>>
  BY DEF IInv, Answer, LineKept, TypeOK
<1>2. TypeOK'
  <2>1. active' \in BOOLEAN /\ buttons' \subseteq Button /\ stickX' \in Axis /\ stickY' \in Axis
    BY DEF Override
  <2> QED BY <1>1, <2>1 DEF TypeOK, frameVars, gameVars
<1>3. LineKept' /\ Resting' /\ Midway'
  BY <1>1 DEF LineKept, Resting, Midway
<1>4. ReadSoFar'
  BY <1>1 DEF ReadSoFar, gameVars
<1> QED
  BY <1>2, <1>3, <1>4 DEF IInv

LEMMA SetButtonStep ==
  ASSUME IInv, SetButton
  PROVE  IInv'
<1>1. TypeOK /\ LineKept /\ Resting /\ Midway /\ step > 0 /\ Msg.op = "set_button"
  BY DEF IInv, SetButton, Handling, Msg
<1>2. Msg \in Command
  BY <1>1, MsgIsCommand
<1>3. CASE step = 1 /\ active' = TRUE /\ UNCHANGED <<buttons, stickX, stickY, cur>> /\ Proceed
  <2>1. Msg' = Msg
    BY <1>3 DEF Msg, Proceed, clientVars
  <2>2. Midway'
    BY <1>1, <1>3, <2>1 DEF Midway, Proceed
  <2> QED BY <1>1, <1>3, <2>2, Proceeds DEF TypeOK
<1>4. CASE step = 2 /\ cur' = buttons /\ UNCHANGED overrideVars /\ Proceed
  <2>1. Msg' = Msg
    BY <1>4 DEF Msg, Proceed, clientVars
  <2>2. Midway'
    BY <1>1, <1>4, <2>1 DEF Midway, Proceed, overrideVars
  <2> QED BY <1>1, <1>4, <2>2, Proceeds DEF TypeOK, overrideVars
<1>5. CASE /\ step = 3 /\ buttons' = Pressed(cur, Msg) /\ UNCHANGED <<active, stickX, stickY>>
           /\ Answer([held EXCEPT !.active = TRUE, !.buttons = Pressed(@, Msg)])
  <2> DEFINE h == [held EXCEPT !.active = TRUE, !.buttons = Pressed(held.buttons, Msg)]
  <2>1. held \in Override /\ held.buttons \in SUBSET Button
    BY <1>1 DEF TypeOK, Override
  <2>2. Pressed(held.buttons, Msg) \in SUBSET Button
    BY <1>1, <1>2, <2>1, PressedButtons
  <2>3. h \in Override /\ h.active = TRUE /\ h.buttons = Pressed(held.buttons, Msg)
        /\ h.x = held.x /\ h.y = held.y
    BY <2>1, <2>2 DEF Override
  <2>4. active' = TRUE /\ buttons' = h.buttons /\ stickX' = h.x /\ stickY' = h.y
    BY <1>1, <1>5, <2>3 DEF Midway
  <2>5. Answer(h)
    BY <1>5
  <2>6. active' = h.active /\ (~ h.active => h = Released)
    BY <2>3, <2>4
  <2> HIDE DEF h
  <2> QED BY <1>5, <2>3, <2>4, <2>5, <2>6, Answers
<1> QED
  BY <1>3, <1>4, <1>5 DEF SetButton

LEMMA SetStickStep ==
  ASSUME IInv, SetStick
  PROVE  IInv'
<1>1. TypeOK /\ LineKept /\ Resting /\ Midway /\ step > 0 /\ Msg.op = "set_stick"
  BY DEF IInv, SetStick, Handling, Msg
<1>2. Msg \in Command /\ Msg.x \in Axis /\ Msg.y \in Axis
  BY <1>1, MsgIsCommand, CommandKinds
<1>3. CASE step = 1 /\ active' = TRUE /\ UNCHANGED <<buttons, stickX, stickY, cur>> /\ Proceed
  <2>1. Msg' = Msg
    BY <1>3 DEF Msg, Proceed, clientVars
  <2>2. Midway'
    BY <1>1, <1>3, <2>1 DEF Midway, Proceed
  <2> QED BY <1>1, <1>3, <2>2, Proceeds DEF TypeOK
<1>4. CASE step = 2 /\ stickX' = Msg.x /\ UNCHANGED <<active, buttons, stickY, cur>> /\ Proceed
  <2>1. Msg' = Msg
    BY <1>4 DEF Msg, Proceed, clientVars
  <2>2. Midway'
    BY <1>1, <1>4, <2>1 DEF Midway, Proceed
  <2> QED BY <1>1, <1>2, <1>4, <2>2, Proceeds DEF TypeOK
<1>5. CASE /\ step = 3 /\ stickY' = Msg.y /\ UNCHANGED <<active, buttons, stickX>>
           /\ Answer([held EXCEPT !.active = TRUE, !.x = Msg.x, !.y = Msg.y])
  <2> DEFINE h == [held EXCEPT !.active = TRUE, !.x = Msg.x, !.y = Msg.y]
  <2>1. held \in Override
    BY <1>1 DEF TypeOK
  <2>3. h \in Override /\ h.active = TRUE /\ h.buttons = held.buttons
        /\ h.x = Msg.x /\ h.y = Msg.y
    BY <1>2, <2>1 DEF Override
  <2>4. active' = TRUE /\ buttons' = h.buttons /\ stickX' = h.x /\ stickY' = h.y
    BY <1>1, <1>5, <2>3 DEF Midway
  <2>5. Answer(h)
    BY <1>5
  <2>6. active' = h.active /\ (~ h.active => h = Released)
    BY <2>3, <2>4
  <2> HIDE DEF h
  <2> QED BY <1>5, <2>3, <2>4, <2>5, <2>6, Answers
<1> QED
  BY <1>3, <1>4, <1>5 DEF SetStick

LEMMA ClearInputStep ==
  ASSUME IInv, ClearInput
  PROVE  IInv'
<1>1. TypeOK /\ LineKept /\ Midway /\ step \in 1 .. 4 /\ Msg.op = "clear_input"
  BY DEF IInv, ClearInput, Handling, Msg, TypeOK
<1>2. CASE \/ step = 1 /\ active' = FALSE /\ UNCHANGED <<buttons, stickX, stickY, cur>> /\ Proceed
           \/ step = 2 /\ buttons' = {} /\ UNCHANGED <<active, stickX, stickY, cur>> /\ Proceed
           \/ step = 3 /\ stickX' = 0 /\ UNCHANGED <<active, buttons, stickY, cur>> /\ Proceed
  <2>1. Msg' = Msg
    BY <1>2 DEF Msg, Proceed, clientVars
  <2>2. Midway'
    BY <1>1, <1>2, <2>1 DEF Midway, Proceed
  <2>3. /\ active' \in BOOLEAN /\ buttons' \subseteq Button /\ stickX' \in Axis /\ stickY' \in Axis
        /\ cur' \subseteq Button
    BY <1>1, <1>2, AxisAssumption DEF TypeOK
  <2>4. Proceed /\ step \in 1 .. 3
    BY <1>2
  <2> QED BY <2>2, <2>3, <2>4, Proceeds
<1>3. CASE step = 4 /\ stickY' = 0 /\ UNCHANGED <<active, buttons, stickX>> /\ Answer(Released)
  <2>1. Released \in Override
    BY AxisAssumption DEF Released, Override
  <2>2. /\ active' = Released.active /\ buttons' = Released.buttons
        /\ stickX' = Released.x /\ stickY' = Released.y
    <3>1. ~ active /\ buttons = {} /\ stickX = 0
      BY <1>1, <1>3 DEF Midway
    <3>2. active = FALSE
      BY <1>1, <3>1 DEF TypeOK
    <3> QED BY <1>3, <3>1, <3>2 DEF Released
  <2> QED BY <1>1, <1>3, <2>1, <2>2, Answers
<1> QED
  BY <1>2, <1>3 DEF ClearInput

LEMMA FastForwardStep ==
  ASSUME IInv, FastForward
  PROVE  IInv'
<1>1. TypeOK /\ LineKept /\ Resting /\ Midway /\ ReadSoFar /\ step > 0 /\ serving \in Client
      /\ Msg.op = "fast_forward"
  BY DEF IInv, FastForward, Handling, Msg, TypeOK
<1>2. /\ forward' = Msg.on /\ line' = [line EXCEPT ![serving] = None]
      /\ waiting' = waiting \ {serving} /\ step' = 0 /\ cur' = {}
      /\ UNCHANGED <<client, backlog, sent, serving, held, overrideVars, persistent, tab, gameVars>>
  BY DEF FastForward
<1>3. forward' \in BOOLEAN
  BY <1>1, <1>2, MsgIsCommand, CommandKinds
<1>4. TypeOK'
  BY <1>1, <1>2, <1>3 DEF TypeOK, overrideVars, gameVars
<1>5. LineKept' /\ Midway'
  BY <1>1, <1>2 DEF LineKept, Midway
\* fast_forward is answered by its first step, before anything was stored.
<1>6. Resting'
  <2>1. step = 1 /\ (active <=> held.active) /\ buttons = held.buttons /\ stickX = held.x /\ stickY = held.y
    BY <1>1 DEF Midway, TypeOK, Override
  <2> QED BY <1>1, <1>2, <2>1 DEF Resting, overrideVars
<1>7. ReadSoFar'
  BY <1>1, <1>2 DEF ReadSoFar, gameVars
<1> QED
  BY <1>4, <1>5, <1>6, <1>7 DEF IInv

-----------------------------------------------------------------------------
(* The window and the game. *)

LEMMA TabStep ==
  ASSUME IInv, Tab
  PROVE  IInv'
<1>1. /\ TypeOK /\ LineKept /\ Resting /\ Midway /\ ReadSoFar
      /\ UNCHANGED <<persistent, clientVars, serverVars, overrideVars, gameVars>>
  BY DEF IInv, Tab
<1>2. forward' \in BOOLEAN /\ tab' \in BOOLEAN
  BY <1>1 DEF TypeOK, Tab
<1>3. TypeOK' /\ LineKept' /\ Resting' /\ ReadSoFar'
  BY <1>1, <1>2 DEF TypeOK, LineKept, Resting, ReadSoFar, clientVars, serverVars, overrideVars,
                    gameVars
<1>4. Midway'
  BY <1>1 DEF Midway, Msg, clientVars, serverVars, overrideVars
<1> QED
  BY <1>3, <1>4 DEF IInv

LEMMA ReadStep ==
  ASSUME IInv, Read
  PROVE  IInv'
<1>1. /\ TypeOK /\ LineKept /\ Resting /\ Midway /\ ReadSoFar
      /\ UNCHANGED <<clientVars, serverVars, overrideVars, frameVars>>
  BY DEF IInv, Read
<1>2. got' \in Override /\ read' \in 0 .. 4
  BY <1>1, AxisAssumption DEF Read, TypeOK, Override, Released
<1>3. TypeOK' /\ LineKept' /\ Resting'
  BY <1>1, <1>2 DEF TypeOK, LineKept, Resting, clientVars, serverVars, overrideVars, frameVars
<1>4. Midway'
  BY <1>1 DEF Midway, Msg, clientVars, serverVars, overrideVars
\* No command runs, so that what is loaded next is held.
<1>5. ReadSoFar'
  <2>1. CASE read = 0
    <3>1. /\ got' = [Released EXCEPT !.active = active]
          /\ alone' = (step = 0) /\ read' = IF active THEN 1 ELSE 4
          /\ step' = step /\ held' = held
      BY <1>1, <2>1 DEF Read, serverVars
    <3>2. got'.active = active
      BY <3>1 DEF Released
    <3>3. alone' => step = 0 /\ (active <=> held.active)
      BY <1>1, <3>1 DEF Resting
    <3> QED BY <3>1, <3>2, <3>3 DEF ReadSoFar
  <2>2. CASE read \in 1 .. 3
    <3>1. /\ step' = step /\ held' = held /\ alone' = alone /\ read' = read + 1
          /\ got \in Override
      BY <1>1, <2>2 DEF Read, TypeOK, serverVars
    <3>2. \/ read = 1 /\ got' = [got EXCEPT !.buttons = buttons]
          \/ read = 2 /\ got' = [got EXCEPT !.x = stickX]
          \/ read = 3 /\ got' = [got EXCEPT !.y = stickY]
      BY <2>2 DEF Read
    <3>3. /\ got'.active = got.active
          /\ got'.buttons = IF read = 1 THEN buttons ELSE got.buttons
          /\ got'.x = IF read = 2 THEN stickX ELSE got.x
          /\ got'.y = IF read = 3 THEN stickY ELSE got.y
      BY <3>1, <3>2 DEF Override
    <3>4. alone => /\ step = 0 /\ (got.active <=> held.active) /\ held.active
                   /\ read > 1 => got.buttons = held.buttons
                   /\ read > 2 => got.x = held.x
                   /\ buttons = held.buttons /\ stickX = held.x /\ stickY = held.y
      BY <1>1, <2>2 DEF ReadSoFar, Resting
    <3> QED BY <2>2, <3>1, <3>3, <3>4 DEF ReadSoFar
  <2> QED BY <2>1, <2>2 DEF Read
<1> QED
  BY <1>3, <1>4, <1>5 DEF IInv

LEMMA ReadDoneStep ==
  ASSUME IInv, ReadDone
  PROVE  IInv'
<1>1. /\ TypeOK /\ LineKept /\ Resting /\ Midway
      /\ read' = 0 /\ got' = Released
      /\ UNCHANGED <<clientVars, serverVars, overrideVars, frameVars>>
  BY DEF IInv, ReadDone
<1>2. Released \in Override
  BY AxisAssumption DEF Released, Override
<1>3. TypeOK' /\ LineKept' /\ Resting' /\ ReadSoFar'
  BY <1>1, <1>2 DEF TypeOK, LineKept, Resting, ReadSoFar, clientVars, serverVars, overrideVars,
                    frameVars
<1>4. Midway'
  BY <1>1 DEF Midway, Msg, clientVars, serverVars, overrideVars
<1> QED
  BY <1>3, <1>4 DEF IInv

LEMMA StutterStep ==
  ASSUME IInv, UNCHANGED vars
  PROVE  IInv'
BY DEF IInv, TypeOK, LineKept, Resting, Midway, Msg, ReadSoFar, vars, clientVars, serverVars,
       overrideVars, frameVars, gameVars

-----------------------------------------------------------------------------
\* The inductive invariant of the override holds.
THEOREM Invariance == Spec => []IInv
<1>1. IInv /\ [Next]_vars => IInv'
  BY ToolSteps, AcceptStep, ReceiveStep, ClosedStep, SetButtonStep, SetStickStep,
     ClearInputStep, FastForwardStep, TabStep, ReadStep, ReadDoneStep, StutterStep
     DEF Next, ServerStep, HandleLine
<1> QED
  BY <1>1, InitIInv, PTL DEF Spec

\* The atomics keep their type, and between two commands they rest when
\* nothing is held: a later set_button cannot bring back a stick position, nor
\* a later set_stick a button, that clear_input took away.
THEOREM ClearedRests == Spec => []OverrideInv
<1>1. IInv => OverrideInv
  BY DEF IInv, OverrideInv, Resting, ClearedStaysClear, Released
<1> QED
  BY <1>1, Invariance, PTL

\* A read of the controller that no command overlaps returns exactly what the
\* commands carried out so far define.
THEOREM ReadsWhatIsHeld == Spec => []ReadIsHeld
<1>1. IInv => ReadIsHeld
  <2> SUFFICES ASSUME IInv, read = 4, alone
               PROVE  got.active = held.active /\ (held.active => got = held)
    BY DEF ReadIsHeld
  <2>1. /\ got.active <=> held.active
        /\ held.active => got.buttons = held.buttons /\ got.x = held.x /\ got.y = held.y
    BY DEF IInv, ReadSoFar
  <2>2. got \in Override /\ held \in Override
    BY DEF IInv, TypeOK
  <2>3. got.active = held.active
    BY <2>1, <2>2 DEF Override
  <2> QED BY <2>1, <2>2, <2>3 DEF Override
<1> QED
  BY <1>1, Invariance, PTL

-----------------------------------------------------------------------------
(* Least and largest numbers, and powers of two *)

LEMMA LeastNatural ==
  ASSUME NEW T \in SUBSET Nat, T # {}
  PROVE  \E x \in T : \A y \in T : x <= y
<1> DEFINE R == OpToRel(<, Nat)
<1>1. IsWellFoundedOn(R, Nat)
  BY NatLessThanWellFounded
<1>2. \A a, b \in Nat : a < b => <<a, b>> \in R
  BY DEF OpToRel
<1> HIDE DEF R
<1>3. PICK x \in T : \A y \in T : ~ (<<y, x>> \in R)
  BY <1>1, WFMin
<1>4. \A y \in T : ~ (y < x)
  BY <1>2, <1>3
<1> QED BY <1>4

LEMMA LargestNatural ==
  ASSUME NEW S \in SUBSET Nat, S # {}, NEW b \in Nat, \A x \in S : x <= b
  PROVE  Max(S) \in S /\ \A x \in S : x <= Max(S)
<1> DEFINE Above == {u \in Nat : \A x \in S : x <= u}
<1>1. Above # {}
  OBVIOUS
<1>2. PICK u \in Above : \A y \in Above : u <= y
  BY <1>1, LeastNatural
<1>3. u \in S
  <2> SUFFICES ASSUME u \notin S PROVE FALSE
    OBVIOUS
  <2>1. \A x \in S : x <= u - 1
    BY DEF Above
  <2>2. u - 1 \in Above
    <3>1. PICK x \in S : TRUE
      OBVIOUS
    <3>2. x <= u - 1 /\ x \in Nat /\ u \in Nat
      BY <2>1
    <3> QED BY <2>1, <3>2
  <2>3. u <= u - 1 /\ u \in Nat
    BY <1>2, <2>2
  <2> QED BY <2>3
<1>4. \E x \in S : \A y \in S : x >= y
  BY <1>3
<1> QED BY <1>4 DEF Max

LEMMA Power ==
  ASSUME NEW n \in Nat
  PROVE  /\ IsFiniteSet(SUBSET (1 .. n))
         /\ 2 ^ n = Cardinality(SUBSET (1 .. n))
<1>1. IsFiniteSet(1 .. n) /\ Cardinality(1 .. n) = n
  BY FS_Interval
<1> QED BY <1>1, FS_SUBSET

LEMMA PowerType ==
  ASSUME NEW n \in Nat
  PROVE  2 ^ n \in Nat \ {0}
<1>1. Cardinality(SUBSET (1 .. n)) \in Nat
  BY Power, FS_CardinalityType
<1>2. Cardinality(SUBSET (1 .. n)) # 0
  <2>1. {} \in SUBSET (1 .. n) /\ IsFiniteSet(SUBSET (1 .. n))
    BY Power
  <2> QED BY <2>1, FS_EmptySet
<1> QED BY <1>1, <1>2, Power

LEMMA PowerGrows ==
  ASSUME NEW m \in Nat, NEW n \in Nat, m <= n
  PROVE  2 ^ m <= 2 ^ n
<1>1. SUBSET (1 .. m) \subseteq SUBSET (1 .. n)
  OBVIOUS
<1>2. Cardinality(SUBSET (1 .. m)) <= Cardinality(SUBSET (1 .. n))
  BY <1>1, Power, FS_Subset
<1> QED BY <1>2, Power

LEMMA PowerExceeds ==
  ASSUME NEW n \in Nat
  PROVE  n < 2 ^ n
<1> DEFINE Single == {{i} : i \in 1 .. n}
           f == [i \in 1 .. n |-> {i}]
<1>1. f \in Bijection(1 .. n, Single)
  BY DEF Bijection, Injection, Surjection, IsInjective
<1>2. ExistsBijection(1 .. n, Single)
  BY <1>1 DEF ExistsBijection
<1>3. IsFiniteSet(Single) /\ Cardinality(Single) = n
  BY <1>2, FS_Bijection, FS_Interval
<1>4. Single \subseteq SUBSET (1 .. n)
  OBVIOUS
<1>5. {} \in SUBSET (1 .. n) /\ {} \notin Single
  OBVIOUS
<1>6. Cardinality(Single) <= Cardinality(SUBSET (1 .. n))
  BY <1>4, Power, FS_Subset
<1>7. Cardinality(Single) # Cardinality(SUBSET (1 .. n))
  BY <1>4, <1>5, Power, FS_Subset
<1>8. Cardinality(SUBSET (1 .. n)) \in Nat
  BY Power, FS_CardinalityType
<1>9. 2 ^ n = Cardinality(SUBSET (1 .. n))
  BY Power
<1> HIDE DEF Single
<1>10. n < Cardinality(SUBSET (1 .. n))
  BY <1>3, <1>6, <1>7, <1>8
<1> QED BY <1>9, <1>10

LEMMA FirstPower ==
  ASSUME NEW b \in Nat
  PROVE  \E k \in 0 .. b : 2 ^ k > b /\ \A j \in 0 .. k - 1 : 2 ^ j <= b
<1> DEFINE T == {k \in Nat : 2 ^ k > b}
<1>1. b \in T
  BY PowerExceeds, PowerType
<1>2. PICK k \in T : \A y \in T : k <= y
  BY <1>1, LeastNatural
<1>3. k <= b
  BY <1>1, <1>2
<1>4. ASSUME NEW j \in 0 .. k - 1 PROVE 2 ^ j <= b
  <2>1. j \in Nat /\ j < k
    OBVIOUS
  <2>2. j \notin T
    BY <1>2, <2>1
  <2> QED BY <2>1, <2>2, PowerType
<1> QED BY <1>2, <1>3, <1>4

-----------------------------------------------------------------------------
(* Frames and bytes *)

LEMMA Division ==
  ASSUME NEW a \in Nat, NEW b \in Nat \ {0}
  PROVE  /\ a \div b \in Nat /\ a % b \in 0 .. b - 1
         /\ a = b * (a \div b) + (a % b)
         /\ b * (a \div b) <= a /\ a < b * (a \div b) + b
<1>1. b > 0 /\ b \in Nat
  OBVIOUS
<1>2. a \div b \in Nat
  BY <1>1
<1>3. a % b \in 0 .. b - 1
  BY <1>1
<1>4. a = b * (a \div b) + (a % b)
  BY <1>1
<1>5. b * (a \div b) <= a
  BY <1>1
<1>6. a < b * (a \div b) + b
  BY <1>1
<1> QED BY <1>2, <1>3, <1>4, <1>5, <1>6

LEMMA Quotient ==
  ASSUME NEW a \in Nat, NEW b \in Nat \ {0}, NEW q \in Nat,
         b * q <= a, a < b * q + b
  PROVE  a \div b = q
<1> DEFINE d == a \div b
<1>1. d \in Nat /\ b * d <= a /\ a < b * d + b
  BY Division
<1> HIDE DEF d
<1>2. ~ (d < q)
  <2> SUFFICES ASSUME d + 1 <= q PROVE FALSE BY <1>1
  <2>1. b * (d + 1) <= b * q BY <1>1
  <2>2. b * (d + 1) = b * d + b BY <1>1
  <2> QED BY <1>1, <2>1, <2>2
<1>3. ~ (q < d)
  <2> SUFFICES ASSUME q + 1 <= d PROVE FALSE BY <1>1
  <2>1. b * (q + 1) <= b * d BY <1>1
  <2>2. b * (q + 1) = b * q + b OBVIOUS
  <2> QED BY <1>1, <2>1, <2>2
<1>4. d = q BY <1>1, <1>2, <1>3
<1> QED BY <1>4 DEF d

LEMMA QuotientBounds ==
  ASSUME NEW a \in Nat, NEW b \in Nat \ {0}, NEW q \in Nat
  PROVE  /\ a < b * q + b => a \div b <= q
         /\ b * q <= a => a \div b >= q
<1> DEFINE d == a \div b
<1>1. d \in Nat /\ b * d <= a /\ a < b * d + b
  BY Division
<1> HIDE DEF d
<1>2. ASSUME d + 1 <= q, b * q <= a PROVE FALSE
  <2>1. b * (d + 1) <= b * q BY <1>1, <1>2
  <2>2. b * (d + 1) = b * d + b BY <1>1
  <2> QED BY <1>1, <1>2, <2>1, <2>2
<1>3. ASSUME q + 1 <= d, a < b * q + b PROVE FALSE
  <2>1. b * (q + 1) <= b * d BY <1>1, <1>3
  <2>2. b * (q + 1) = b * q + b OBVIOUS
  <2> QED BY <1>1, <1>3, <2>1, <2>2
<1>4. (a < b * q + b => d <= q) /\ (b * q <= a => d >= q)
  BY <1>1, <1>2, <1>3
<1> QED BY <1>4 DEF d

Middle == Dup \div 2
Skipped(r) == Discarded(r) \div 2
Kept(n, r) == ((Dup + n) * OutRate) \div r - Discarded(r)
Index(f, r) == 1 + ((Skipped(r) + f - 1) * r) \div OutRate
Source(i, r) == Index(1 + (i - 1) \div FrameBytes, r)

LEMMA Middles == Middle \in Nat \ {0} /\ Dup = 2 * Middle /\ Dup \in Nat
<1>1. Dup \in Nat \ {0} /\ Dup % 2 = 0
  BY DupAssumption
<1> QED BY <1>1 DEF Middle

LEMMA SetupTypes ==
  ASSUME NEW s \in Setups, NEW r \in s.rates
  PROVE  r \in Nat \ {0} /\ r <= OutRate /\ OutRate \in Nat \ {0}
BY SetupsAssumption, OutputAssumption

LEMMA FrameBytesType ==
  /\ FloatBytes \in Nat \ {0} /\ FrameBytes \in Nat \ {0}
  /\ FrameBytes = 2 * FloatBytes
BY OutputAssumption DEF FrameBytes

LEMMA Bounds ==
  ASSUME NEW s \in Setups, NEW r \in s.rates
  PROVE  /\ Skipped(r) \in Nat /\ Discarded(r) = 2 * Skipped(r)
         /\ Skipped(r) * r <= Middle * OutRate
         /\ 2 * (Middle * OutRate) < 2 * (Skipped(r) * r) + r
<1>1. r \in Nat \ {0} /\ OutRate \in Nat \ {0} /\ Dup \in Nat
  BY SetupTypes, Middles
<1>2. Dup * OutRate \in Nat /\ Middle * OutRate \in Nat
  BY <1>1, Middles
<1> DEFINE a == Dup * OutRate
           d == Discarded(r)
           h == Skipped(r)
<1>3. d \in Nat /\ r * d <= a /\ a < r * d + r
  <2>1. d = a \div r
    BY DEF Discarded
  <2>2. a \in Nat
    BY <1>2
  <2> HIDE DEF a, d
  <2> QED BY <1>1, <2>1, <2>2, Division
<1>4. d % 2 = 0
  BY DiscardAssumption DEF Discarded
<1>5. h = d \div 2
  BY DEF Skipped
<1> HIDE DEF d, h
<1>6. h \in Nat /\ d = 2 * h
  BY <1>3, <1>4, <1>5
<1>7. h * r \in Nat /\ r * d = 2 * (h * r)
  BY <1>1, <1>6
<1>8. Dup * OutRate = 2 * (Middle * OutRate)
  BY <1>1, Middles
<1>9. /\ h * r <= Middle * OutRate
      /\ 2 * (Middle * OutRate) < 2 * (h * r) + r
  BY <1>1, <1>2, <1>3, <1>7, <1>8
<1> QED BY <1>6, <1>9 DEF d, h

LEMMA Kepts ==
  ASSUME NEW s \in Setups, NEW r \in s.rates, NEW n \in Nat \ {0}
  PROVE  /\ Kept(n, r) \in Nat \ {0}
         /\ ((Dup + n) * OutRate) \div r = Kept(n, r) + 2 * Skipped(r)
         /\ (Kept(n, r) + 2 * Skipped(r)) * r <= (Dup + n) * OutRate
<1>1. r \in Nat \ {0} /\ r <= OutRate /\ OutRate \in Nat \ {0} /\ Dup \in Nat
  BY SetupTypes, Middles
<1> DEFINE a == (Dup + n) * OutRate
           N == a \div r
           h == Skipped(r)
           k == Kept(n, r)
<1>2. a \in Nat
  BY <1>1
<1>3. N \in Nat /\ r * N <= a /\ a < r * N + r
  <2> HIDE DEF a
  <2> QED BY <1>1, <1>2, Division
<1>4. /\ h \in Nat /\ h * r <= Middle * OutRate
      /\ k = N - 2 * h
  BY Bounds DEF Kept
<1>5. a = 2 * (Middle * OutRate) + n * OutRate /\ OutRate <= n * OutRate
  BY <1>1, Middles
<1>6. Middle * OutRate \in Nat /\ n * OutRate \in Nat /\ h * r \in Nat /\ r * N \in Nat
  BY <1>1, <1>3, <1>4, Middles
<1> HIDE DEF a, N, h, k
<1>7. k \in Int /\ r * N = k * r + 2 * (h * r)
  BY <1>1, <1>3, <1>4
<1>8. k * r > 0
  BY <1>1, <1>2, <1>3, <1>4, <1>5, <1>6, <1>7
<1>9. k > 0
  BY <1>1, <1>7, <1>8
<1>10. (k + 2 * h) * r <= a /\ N = k + 2 * h
  BY <1>1, <1>3, <1>4, <1>7
<1> QED BY <1>7, <1>9, <1>10 DEF a, N, h, k

LEMMA Indices ==
  ASSUME NEW s \in Setups, NEW r \in s.rates, NEW n \in Nat \ {0}
  PROVE  /\ \A f \in 1 .. Kept(n, r) : Index(f, r) \in Middle .. n + Middle
         /\ \A f \in 1 .. Kept(n, r) - 1 :
              Index(f + 1, r) \in {Index(f, r), Index(f, r) + 1}
         /\ Index(1, r) <= Middle + 1
<1>1. r \in Nat \ {0} /\ r <= OutRate /\ OutRate \in Nat \ {0} /\ Dup \in Nat
  BY SetupTypes, Middles
<1> DEFINE h == Skipped(r)
           k == Kept(n, r)
           hr == h * r
           m == Middle * OutRate
           a(f) == (h + f - 1) * r
<1>2. /\ h \in Nat /\ k \in Nat \ {0} /\ hr \in Nat /\ m \in Nat
      /\ hr <= m /\ 2 * m < 2 * hr + r
  BY <1>1, Bounds, Kepts, Middles
<1>3. k * r + 2 * hr <= 2 * m + n * OutRate
  <2>1. (k + 2 * h) * r <= (Dup + n) * OutRate
    BY Kepts
  <2> HIDE DEF h, k
  <2>2. (k + 2 * h) * r = k * r + 2 * (h * r)
    BY <1>1, <1>2
  <2>3. (Dup + n) * OutRate = 2 * (Middle * OutRate) + n * OutRate
    BY <1>1, Middles
  <2> QED BY <2>1, <2>2, <2>3
<1>4. k * r \in Nat /\ n * OutRate \in Nat
  BY <1>1, <1>2
<1> HIDE DEF h, k, m
<1>5. ASSUME NEW f \in 1 .. k
      PROVE  /\ a(f) \in Nat /\ a(f) = hr + (f - 1) * r
             /\ hr <= a(f) /\ a(f) + r <= hr + k * r
  <2>1. (f - 1) * r >= 0 /\ f * r <= k * r /\ f * r = (f - 1) * r + r
    BY <1>1, <1>2
  <2>2. a(f) = hr + (f - 1) * r
    BY <1>1, <1>2
  <2> QED BY <1>1, <1>2, <1>4, <2>1, <2>2
<1>6. ASSUME NEW f \in 1 .. k
      PROVE  Index(f, r) \in Middle .. n + Middle
  <2>1. OutRate * (Middle - 1) <= a(f)
    <3>1. OutRate * (Middle - 1) = m - OutRate
      BY <1>1, Middles DEF m
    <3> HIDE DEF hr, a
    <3> QED BY <1>1, <1>2, <1>5, <3>1
  <2>2. a(f) < OutRate * (n + Middle - 1) + OutRate
    <3>1. OutRate * (n + Middle - 1) + OutRate = m + n * OutRate
      BY <1>1, Middles DEF m
    <3> HIDE DEF hr, a
    <3> QED BY <1>1, <1>2, <1>3, <1>4, <1>5, <3>1
  <2>3. a(f) \div OutRate >= Middle - 1 /\ a(f) \div OutRate <= n + Middle - 1
    <3>1. Middle - 1 \in Nat /\ n + Middle - 1 \in Nat /\ a(f) \in Nat
      BY <1>5, Middles
    <3> HIDE DEF a
    <3> QED BY <1>1, <2>1, <2>2, <3>1, QuotientBounds
  <2>4. a(f) \div OutRate \in Nat
    BY <1>1, <1>5, Division
  <2>5. Index(f, r) = 1 + a(f) \div OutRate
    BY DEF Index, h
  <2> HIDE DEF a
  <2> QED BY <2>3, <2>4, <2>5, Middles
<1>7. ASSUME NEW f \in 1 .. k - 1
      PROVE  Index(f + 1, r) \in {Index(f, r), Index(f, r) + 1}
  <2> DEFINE q == a(f) \div OutRate
  <2>1. a(f) \in Nat /\ a(f + 1) \in Nat /\ a(f + 1) = a(f) + r
    BY <1>1, <1>2, <1>5
  <2>2. q \in Nat /\ OutRate * q <= a(f) /\ a(f) < OutRate * q + OutRate
    <3> HIDE DEF a
    <3> QED BY <1>1, <2>1, Division
  <2>3. Index(f, r) = 1 + q /\ Index(f + 1, r) = 1 + (a(f + 1) \div OutRate)
    BY <1>2 DEF Index, h
  <2> HIDE DEF q, a
  <2>4. OutRate * (q + 1) = OutRate * q + OutRate /\ OutRate * q \in Nat
    BY <1>1, <2>2
  <2>5. a(f + 1) < OutRate * (q + 1) + OutRate /\ OutRate * q <= a(f + 1)
    BY <1>1, <2>1, <2>2, <2>4
  <2>6. a(f + 1) \div OutRate <= q + 1 /\ a(f + 1) \div OutRate >= q
    BY <1>1, <2>1, <2>2, <2>5, QuotientBounds
  <2>7. a(f + 1) \div OutRate \in Nat
    BY <1>1, <2>1
  <2> QED BY <2>2, <2>3, <2>6, <2>7
<1>8. Index(1, r) <= Middle + 1
  <2>1. a(1) = hr /\ hr \in Nat
    BY <1>1, <1>2
  <2>2. hr < OutRate * Middle + OutRate
    BY <1>1, <1>2, Middles DEF m
  <2>3. hr \div OutRate <= Middle /\ hr \div OutRate \in Nat
    BY <1>1, <2>1, <2>2, Middles, QuotientBounds, Division
  <2> QED BY <2>1, <2>3, Middles DEF Index, h
<1> QED BY <1>6, <1>7, <1>8 DEF k

LEMMA Shifted ==
  ASSUME NEW a \in Nat, NEW b \in Nat \ {0}, NEW c \in Nat
  PROVE  (c * b + a) \div b = c + (a \div b) /\ (c * b + a) % b = a % b
<1> DEFINE q == a \div b
           z == c * b + a
<1>1. q \in Nat /\ b * q <= a /\ a < b * q + b /\ a = b * q + (a % b)
  BY Division
<1>2. z \in Nat
  OBVIOUS
<1>3. z = b * (z \div b) + (z % b) /\ z % b \in 0 .. b - 1 /\ a % b \in 0 .. b - 1
  <2> HIDE DEF z
  <2> QED BY <1>2, Division
<1> HIDE DEF q
<1>4. b * (c + q) = c * b + b * q /\ c + q \in Nat
  BY <1>1
<1>5. z \div b = c + q
  <2>1. b * (c + q) <= z /\ z < b * (c + q) + b
    BY <1>1, <1>4
  <2> HIDE DEF z
  <2> QED BY <1>2, <1>4, <2>1, Quotient
<1>6. z % b = a % b
  <2> HIDE DEF z
  <2>1. z = b * (c + q) + (z % b)
    BY <1>3, <1>5
  <2>2. z = c * b + (b * q + (a % b))
    BY <1>1 DEF z
  <2>3. c * b \in Int /\ b * q \in Int
    BY <1>1
  <2> QED BY <1>3, <1>4, <2>1, <2>2, <2>3
<1> QED BY <1>5, <1>6 DEF z, q

\* The frame a byte is part of.
LEMMA FrameOfByte ==
  ASSUME NEW k \in Nat, NEW i \in 1 .. k * FrameBytes
  PROVE  1 + (i - 1) \div FrameBytes \in 1 .. k
<1>1. FrameBytes \in Nat \ {0} /\ k * FrameBytes \in Nat
  BY FrameBytesType
<1>2. k # 0
  BY <1>1
<1>3. k - 1 \in Nat /\ i - 1 \in Nat /\ FrameBytes * (k - 1) + FrameBytes = k * FrameBytes
  BY <1>1, <1>2
<1>4. i - 1 < FrameBytes * (k - 1) + FrameBytes
  BY <1>1, <1>3
<1>5. (i - 1) \div FrameBytes <= k - 1 /\ (i - 1) \div FrameBytes \in Nat
  BY <1>1, <1>3, <1>4, QuotientBounds, Division
<1> QED BY <1>5

LEMMA Sources ==
  ASSUME NEW s \in Setups, NEW r \in s.rates, NEW n \in Nat \ {0},
         NEW c, c = Kept(n, r) * FrameBytes
  PROVE  /\ c \in Nat \ {0} /\ c % FrameBytes = 0
         /\ \A i \in 1 .. c : Source(i, r) \in Middle .. n + Middle
         /\ \A i \in 1 .. c - 1 : Source(i + 1, r) \in {Source(i, r), Source(i, r) + 1}
         /\ Source(1, r) <= Middle + 1
         /\ Source(c, r) = Index(Kept(n, r), r)
<1> DEFINE k == Kept(n, r)
           d(i) == (i - 1) \div FrameBytes
<1>1. k \in Nat \ {0} /\ FrameBytes \in Nat \ {0}
  BY Kepts, FrameBytesType
<1> HIDE DEF k
<1>2. c \in Nat \ {0} /\ c = k * FrameBytes /\ c = (k - 1) * FrameBytes + FrameBytes
  BY <1>1 DEF k
<1>3. c % FrameBytes = 0
  <2>1. (k * FrameBytes + 0) % FrameBytes = 0 % FrameBytes
    BY <1>1, Shifted
  <2>2. 0 % FrameBytes = 0
    BY <1>1
  <2> QED BY <1>1, <1>2, <2>1, <2>2
<1>4. \A i \in 1 .. c : 1 + d(i) \in 1 .. k /\ Source(i, r) = Index(1 + d(i), r)
  BY <1>1, <1>2, FrameOfByte DEF Source
<1>5. \A i \in 1 .. c : Source(i, r) \in Middle .. n + Middle
  BY <1>4, Indices DEF k
<1>6. ASSUME NEW i \in 1 .. c - 1
      PROVE  Source(i + 1, r) \in {Source(i, r), Source(i, r) + 1}
  <2>1. i \in 1 .. c /\ i + 1 \in 1 .. c /\ i - 1 \in Nat /\ i \in Nat
    BY <1>2
  <2>2. d(i) \in Nat /\ FrameBytes * d(i) <= i - 1 /\ i - 1 < FrameBytes * d(i) + FrameBytes
    BY <1>1, <2>1, Division
  <2>3. d(i + 1) = i \div FrameBytes
    BY <2>1
  <2> HIDE DEF d
  <2>4. FrameBytes * (d(i) + 1) = FrameBytes * d(i) + FrameBytes /\ FrameBytes * d(i) \in Nat
    BY <1>1, <2>2
  <2>5. i < FrameBytes * (d(i) + 1) + FrameBytes /\ FrameBytes * d(i) <= i
    BY <1>1, <2>1, <2>2, <2>4
  <2>6. i \div FrameBytes <= d(i) + 1 /\ i \div FrameBytes >= d(i) /\ i \div FrameBytes \in Nat
    <3>1. d(i) + 1 \in Nat /\ i \in Nat /\ d(i) \in Nat
      BY <2>1, <2>2
    <3>2. i \div FrameBytes <= d(i) + 1
      BY <1>1, <2>5, <3>1, QuotientBounds
    <3>3. i \div FrameBytes >= d(i)
      BY <1>1, <2>5, <3>1, QuotientBounds
    <3>4. i \div FrameBytes \in Nat
      BY <1>1, <3>1, Division
    <3> QED BY <3>2, <3>3, <3>4
  <2>7. d(i + 1) = d(i) \/ d(i + 1) = d(i) + 1
    BY <2>2, <2>3, <2>6
  <2>8. 1 + d(i) \in 1 .. k /\ 1 + d(i + 1) \in 1 .. k
    BY <1>4, <2>1
  <2>9. CASE d(i + 1) = d(i)
    BY <1>4, <2>1, <2>9
  <2>10. CASE d(i + 1) = d(i) + 1
    <3>1. 1 + d(i) \in 1 .. k - 1 /\ 1 + d(i + 1) = (1 + d(i)) + 1
      BY <1>1, <2>2, <2>8, <2>10
    <3>2. Index((1 + d(i)) + 1, r) \in {Index(1 + d(i), r), Index(1 + d(i), r) + 1}
      BY <3>1, Indices DEF k
    <3> QED BY <1>4, <2>1, <3>1, <3>2
  <2> QED BY <2>7, <2>9, <2>10
<1>7. Source(1, r) <= Middle + 1
  <2>1. (1 - 1) \div FrameBytes = 0
    BY <1>1
  <2>2. Index(1, r) <= Middle + 1
    BY Indices
  <2> QED BY <2>1, <2>2 DEF Source
<1>8. Source(c, r) = Index(k, r)
  <2>1. (c - 1) \div FrameBytes = k - 1
    <3>1. FrameBytes * (k - 1) = (k - 1) * FrameBytes /\ k - 1 \in Nat /\ c - 1 \in Nat
      BY <1>1, <1>2
    <3>2. FrameBytes * (k - 1) <= c - 1 /\ c - 1 < FrameBytes * (k - 1) + FrameBytes
      BY <1>1, <1>2, <3>1
    <3> QED BY <1>1, <3>1, <3>2, Quotient
  <2> QED BY <1>1, <2>1 DEF Source
<1> QED BY <1>2, <1>3, <1>5, <1>6, <1>7, <1>8 DEF k

\* What is appended of a chunk, byte by byte.
LEMMA TrimmedBytes ==
  ASSUME NEW s \in Setups, NEW r \in s.rates, NEW n \in Nat \ {0},
         NEW w \in Seq(Nat), Len(w) = Dup + n
  PROVE  Trimmed(w, r) =
           [i \in 1 .. Kept(n, r) * FrameBytes |->
              [frame |-> w[Source(i, r)], right |-> (i - 1) % FrameBytes >= FloatBytes]]
<1> DEFINE k == Kept(n, r)
           h == Skipped(r)
           N == (Len(w) * OutRate) \div r
           R == Resampled(w, r)
           all == Bytes(R)
           m == h * FrameBytes
<1>1. /\ k \in Nat \ {0} /\ h \in Nat /\ N = k + 2 * h
      /\ FrameBytes \in Nat \ {0} /\ FloatBytes \in Nat \ {0} /\ FrameBytes = 2 * FloatBytes
      /\ Discarded(r) = 2 * h
  BY Kepts, Bounds, FrameBytesType
<1> HIDE DEF k, h
<1>2. R = [j \in 1 .. N |-> w[1 + ((j - 1) * r) \div OutRate]]
  BY DEF Resampled
<1> HIDE DEF N, R
<1>3. Len(R) = N /\ N \in Nat
  BY <1>1, <1>2
<1>4. all = [i \in 1 .. N * FrameBytes |->
              [frame |-> R[1 + (i - 1) \div FrameBytes], right |-> (i - 1) % FrameBytes >= FloatBytes]]
  BY <1>3 DEF Bytes
<1> HIDE DEF all
<1>5. N * FrameBytes \in Nat /\ m \in Nat /\ k * FrameBytes \in Nat
  BY <1>1, <1>3
<1>6. Len(all) = N * FrameBytes
  BY <1>4, <1>5
<1>7. N * FrameBytes = k * FrameBytes + 2 * m
  BY <1>1
<1>8. Discarded(r) * FloatBytes = m /\ Discarded(r) * FrameBytes = 2 * m
  BY <1>1
<1>9. Trimmed(w, r) = SubSeq(all, m + 1, m + k * FrameBytes)
  <2>1. Trimmed(w, r) =
          SubSeq(all, Discarded(r) * FloatBytes + 1,
                 Discarded(r) * FloatBytes + Len(all) - Discarded(r) * FrameBytes)
    BY DEF Trimmed, all, R
  <2>2. m + Len(all) - 2 * m = m + k * FrameBytes
    BY <1>5, <1>6, <1>7
  <2> QED BY <1>8, <2>1, <2>2
<1> HIDE DEF m
<1>10. SubSeq(all, m + 1, m + k * FrameBytes) = [i \in 1 .. k * FrameBytes |-> all[i + m]]
  <2>1. (m + k * FrameBytes) - (m + 1) + 1 = k * FrameBytes
    BY <1>5
  <2> DEFINE X == {all[i] : i \in 1 .. N * FrameBytes}
           t == SubSeq(all, m + 1, m + k * FrameBytes)
  <2>2. \A i \in m + 1 .. m + k * FrameBytes : all[i] \in X
    BY <1>5, <1>7
  <2>3. m + 1 \in Int /\ m + k * FrameBytes \in Int /\ m + 1 <= m + k * FrameBytes
    BY <1>1, <1>5
  <2> HIDE DEF X
  <2>4. /\ t \in Seq(X)
        /\ Len(t) = (m + k * FrameBytes) - (m + 1) + 1
        /\ \A i \in 1 .. (m + k * FrameBytes) - (m + 1) + 1 : t[i] = all[(m + 1) + i - 1]
    BY <2>2, <2>3, SubSeqProperties
  <2> HIDE DEF t
  <2>5. \A i \in 1 .. k * FrameBytes : (m + 1) + i - 1 = i + m
    BY <1>5
  <2>6. \A i \in 1 .. k * FrameBytes : t[i] = all[i + m]
    BY <2>1, <2>4, <2>5
  <2>7. t = [i \in 1 .. k * FrameBytes |-> t[i]]
    BY <2>1, <2>4
  <2> QED BY <2>6, <2>7 DEF t
<1>11. ASSUME NEW i \in 1 .. k * FrameBytes
       PROVE  all[i + m] = [frame |-> w[Source(i, r)], right |-> (i - 1) % FrameBytes >= FloatBytes]
  <2>1. i - 1 \in Nat /\ i + m \in 1 .. N * FrameBytes
    BY <1>5, <1>7
  <2>2. (i + m) - 1 = m + (i - 1)
    BY <1>5
  <2>3. /\ ((i + m) - 1) \div FrameBytes = h + (i - 1) \div FrameBytes
        /\ ((i + m) - 1) % FrameBytes = (i - 1) % FrameBytes
    <3> DEFINE z == i - 1
    <3>1. z \in Nat /\ (i + m) - 1 = h * FrameBytes + z
      BY <2>1, <2>2 DEF m
    <3> HIDE DEF z
    <3>2. (h * FrameBytes + z) \div FrameBytes = h + (z \div FrameBytes)
      BY <1>1, <3>1, Shifted
    <3>3. (h * FrameBytes + z) % FrameBytes = z % FrameBytes
      BY <1>1, <3>1, Shifted
    <3> QED BY <3>1, <3>2, <3>3 DEF z
  <2>4. 1 + (i - 1) \div FrameBytes \in 1 .. k /\ (i - 1) \div FrameBytes \in Nat
    BY <1>1, <2>1, FrameOfByte, Division
  <2>5. 1 + (h + (i - 1) \div FrameBytes) \in 1 .. N
    BY <1>1, <2>4
  <2>6. R[1 + (h + (i - 1) \div FrameBytes)] = w[Source(i, r)]
    <3> DEFINE d == (i - 1) \div FrameBytes
    <3>1. Source(i, r) = 1 + ((h + (1 + d) - 1) * r) \div OutRate
      BY DEF Source, Index, h
    <3> HIDE DEF d
    <3>2. (1 + (h + d)) - 1 = h + (1 + d) - 1
      BY <1>1, <2>4 DEF d
    <3>3. 1 + (h + d) \in 1 .. N
      BY <2>5 DEF d
    <3>4. R[1 + (h + d)] = w[1 + (((1 + (h + d)) - 1) * r) \div OutRate]
      BY <1>2, <3>3
    <3> QED BY <3>1, <3>2, <3>4 DEF d
  <2> QED BY <1>4, <2>1, <2>3, <2>6
<1>12. Trimmed(w, r) = [i \in 1 .. k * FrameBytes |->
              [frame |-> w[Source(i, r)], right |-> (i - 1) % FrameBytes >= FloatBytes]]
  BY <1>9, <1>10, <1>11
<1> QED BY <1>12 DEF k

\* A depth below a tenth of a second decimates nothing.
LEMMA NotDecimated ==
  ASSUME NEW S, NEW v \in Seq(S)
  PROVE  Decimated(v, 0) = v
<1>1. 2 ^ 0 = 1
  OBVIOUS
<1>2. Len(v) \in Nat /\ Len(v) \div 1 = Len(v) /\ FrameBytes \in Nat \ {0}
  BY FrameBytesType
<1>3. ASSUME NEW i \in 1 .. Len(v)
      PROVE  i + ((i - 1) \div FrameBytes) * FrameBytes * (1 - 1) = i
  <2> DEFINE x == i - 1
  <2>1. x \in Nat
    BY <1>2
  <2> HIDE DEF x
  <2>2. x \div FrameBytes \in Nat
    BY <1>2, <2>1, Division
  <2>3. (x \div FrameBytes) * FrameBytes * (1 - 1) = 0
    BY <1>2, <2>2
  <2> QED BY <1>2, <2>3 DEF x
<1>4. Decimated(v, 0) = [i \in 1 .. Len(v) |-> v[i]]
  BY <1>1, <1>2, <1>3 DEF Decimated
<1> QED BY <1>4

LEMMA DecimatedBytes ==
  ASSUME NEW S, NEW v \in Seq(S), NEW k \in Nat
  PROVE  Decimated(v, k) \in Seq(S) /\ Len(Decimated(v, k)) = Len(v) \div 2 ^ k
<1> DEFINE p == 2 ^ k
           c == Len(v) \div p
           w == c \div FrameBytes
           g(i) == (i - 1) \div FrameBytes
           e(i) == IF g(i) < w THEN v[i + g(i) * FrameBytes * (p - 1)] ELSE v[i]
<1>1. p \in Nat \ {0} /\ Len(v) \in Nat /\ FrameBytes \in Nat \ {0}
  BY PowerType, FrameBytesType
<1> HIDE DEF p
<1>2. c \in Nat /\ p * c <= Len(v)
  BY <1>1, Division
<1> HIDE DEF c
<1>3. w \in Nat /\ FrameBytes * w <= c
  BY <1>1, <1>2, Division
<1> HIDE DEF w
<1>4. c <= p * c
  <2>1. p - 1 \in Nat /\ p * c = (p - 1) * c + c /\ (p - 1) * c \in Nat
    BY <1>1, <1>2
  <2> QED BY <1>2, <2>1
<1>5. ASSUME NEW i \in 1 .. c
      PROVE  e(i) \in S
  <2>1. g(i) \in Nat /\ FrameBytes * g(i) <= i - 1 /\ i - 1 < FrameBytes * g(i) + FrameBytes
    <3>1. i - 1 \in Nat
      BY <1>2
    <3> QED BY <1>1, <3>1, Division
  <2> DEFINE x == g(i)
             a == FrameBytes * x
             b == FrameBytes * w
  <2>2. CASE x < w
    <3>1. x \in Nat
      BY <2>1
    <3> HIDE DEF g, x
    <3>2. a + FrameBytes <= b
      <4>1. FrameBytes * (x + 1) <= FrameBytes * w
        BY <1>1, <1>3, <2>2, <3>1
      <4>2. FrameBytes * (x + 1) = FrameBytes * x + FrameBytes
        BY <1>1, <3>1
      <4> QED BY <4>1, <4>2
    <3>3. a \in Nat /\ b \in Nat /\ b <= c
      BY <1>1, <1>3, <3>1
    <3>4. i - a <= FrameBytes /\ i - a >= 1
      <4>1. a <= i - 1 /\ i - 1 < a + FrameBytes
        BY <2>1 DEF x
      <4>2. i \in Nat
        BY <1>2
      <4> HIDE DEF a
      <4> QED BY <1>1, <3>3, <4>1, <4>2
    <3>5. x * FrameBytes * (p - 1) = a * p - a
      BY <1>1, <3>1
    <3> HIDE DEF a, b
    <3>6. (a + FrameBytes) * p <= c * p
      <4>1. a + FrameBytes <= c /\ a + FrameBytes \in Nat
        BY <1>1, <1>2, <3>2, <3>3
      <4> QED BY <1>1, <1>2, <4>1
    <3>7. (a + FrameBytes) * p = a * p + FrameBytes * p /\ FrameBytes <= FrameBytes * p
      BY <1>1, <3>3
    <3>8. a * p >= 0 /\ a * p \in Nat /\ a * p >= a /\ c * p = p * c /\ FrameBytes * p \in Nat
      BY <1>1, <1>2, <3>3
    <3>9. (i - a) + a * p \in 1 .. Len(v)
      BY <1>1, <1>2, <3>3, <3>4, <3>6, <3>7, <3>8
    <3>10. i + x * FrameBytes * (p - 1) = (i - a) + a * p
      BY <1>2, <3>3, <3>5, <3>8
    <3> QED BY <2>2, <3>9, <3>10 DEF x
  <2>3. CASE ~ (x < w)
    <3>1. i \in 1 .. Len(v)
      BY <1>1, <1>2, <1>4
    <3> QED BY <2>3, <3>1
  <2> QED BY <2>2, <2>3
<1>6. Decimated(v, k) = [i \in 1 .. c |-> e(i)]
  BY DEF Decimated, c, w, p
<1> HIDE DEF e
<1>7. [i \in 1 .. c |-> e(i)] \in Seq(S) /\ Len([i \in 1 .. c |-> e(i)]) = c
  BY <1>2, <1>5
<1> QED BY <1>6, <1>7 DEF c, p

\* A game that is told of at most Low frames has not filled the queue that far.
LEMMA NothingSkipped ==
  ASSUME Paces, QueueTypeOK, ~ setup.turbo, ~ fastForward, FramesRemaining <= Low
  PROVE  SkipFactor(Len(queue), rate) = 0
<1>1. /\ rate \in Nat \ {0} /\ OutRate \in Nat \ {0}
      /\ FrameBytes \in Nat \ {0} /\ Low \in Nat /\ Len(queue) \in Nat
  BY SetupTypes, FrameBytesType, OutputAssumption DEF QueueTypeOK
<1>2. OutRate * (Low + 1 + rate \div 6) <= rate * rate
  BY DEF Paces, QueueTypeOK
<1> DEFINE v == rate \div 6
           d == (Len(queue) * rate) \div OutRate
           u == d - FrameBytes * v
<1>3. v \in Nat /\ d \in Nat /\ Len(queue) * rate < OutRate * d + OutRate
  <2> DEFINE a == Len(queue) * rate
  <2>1. a \in Nat
    BY <1>1
  <2> HIDE DEF a
  <2>2. a \div OutRate \in Nat /\ a < OutRate * (a \div OutRate) + OutRate
    BY <1>1, <2>1, Division
  <2>3. v \in Nat
    BY <1>1
  <2> QED BY <2>2, <2>3 DEF a
<1>4. FramesRemaining = Max({u, 0}) \div FrameBytes
  BY DEF FramesRemaining
<1> HIDE DEF v, d
<1>5. u \in Int /\ FrameBytes * v \in Nat
  BY <1>1, <1>3
<1> HIDE DEF u
<1>6. u <= Max({u, 0}) /\ Max({u, 0}) \in Nat
  <2>1. Max({u, 0}) \in {u, 0} /\ \A x \in {u, 0} : Max({u, 0}) >= x
    <3>1. \E x \in {u, 0} : \A y \in {u, 0} : x >= y
      BY <1>5
    <3> QED BY <3>1 DEF Max
  <2> QED BY <1>5, <2>1
<1>7. Max({u, 0}) < FrameBytes * Low + FrameBytes
  <2> DEFINE x == Max({u, 0})
             y == x \div FrameBytes
  <2>1. y \in Nat /\ x < FrameBytes * y + FrameBytes /\ y <= Low
    <3>1. y <= Low
      BY <1>4
    <3>2. x \in Nat
      BY <1>6
    <3> HIDE DEF x
    <3> QED BY <1>1, <3>1, <3>2, Division
  <2> HIDE DEF x, y
  <2>2. FrameBytes * y <= FrameBytes * Low
    BY <1>1, <2>1
  <2>3. x \in Nat /\ FrameBytes * y \in Nat /\ FrameBytes * Low \in Nat
    BY <1>1, <1>6, <2>1 DEF x
  <2> QED BY <1>1, <2>1, <2>2, <2>3 DEF x
<1>8. d + 1 <= FrameBytes * (Low + 1 + v)
  <2>1. FrameBytes * (Low + 1 + v) = FrameBytes * Low + FrameBytes + FrameBytes * v
    BY <1>1, <1>3
  <2>2. FrameBytes * Low \in Nat
    BY <1>1
  <2> QED BY <1>1, <1>3, <1>5, <1>6, <1>7, <2>1, <2>2 DEF u
<1>9. Len(queue) * rate < FrameBytes * (rate * rate)
  <2> DEFINE b == Low + 1 + v
  <2>1. b \in Nat /\ OutRate * b <= rate * rate
    BY <1>1, <1>2, <1>3 DEF v
  <2>2. d + 1 <= FrameBytes * b
    BY <1>8
  <2> HIDE DEF b
  <2>3. OutRate * (d + 1) <= OutRate * (FrameBytes * b)
    BY <1>1, <1>3, <2>1, <2>2
  <2>4. OutRate * (FrameBytes * b) = FrameBytes * (OutRate * b)
    BY <1>1, <2>1
  <2>5. FrameBytes * (OutRate * b) <= FrameBytes * (rate * rate)
    BY <1>1, <2>1
  <2>6. OutRate * (d + 1) = OutRate * d + OutRate
    BY <1>1, <1>3
  <2>7. Len(queue) * rate \in Nat /\ OutRate * d \in Nat /\ FrameBytes * (OutRate * b) \in Nat /\ FrameBytes * (rate * rate) \in Nat
    BY <1>1, <1>3, <2>1
  <2> QED BY <1>1, <1>3, <2>3, <2>4, <2>5, <2>6, <2>7
<1>10. Len(queue) < FrameBytes * rate
  <2>1. FrameBytes * (rate * rate) = (FrameBytes * rate) * rate
    BY <1>1
  <2> DEFINE q == Len(queue)
             z == FrameBytes * rate
  <2>2. q \in Nat /\ z \in Nat /\ q * rate < z * rate
    BY <1>1, <1>9, <2>1
  <2> HIDE DEF q, z
  <2>3. q < z
    BY <1>1, <2>2
  <2> QED BY <2>3 DEF q, z
<1>11. Len(queue) \div FrameBytes < rate /\ Len(queue) \div FrameBytes \in Nat
  <2>1. rate - 1 \in Nat /\ FrameBytes * (rate - 1) + FrameBytes = FrameBytes * rate
    BY <1>1
  <2>2. Len(queue) \div FrameBytes <= rate - 1
    BY <1>1, <1>10, <2>1, QuotientBounds
  <2>3. Len(queue) \div FrameBytes \in Nat
    BY <1>1, Division
  <2> QED BY <1>1, <2>2, <2>3
<1> DEFINE f == Len(queue) \div FrameBytes
<1>12. f \div rate = 0
  <2>1. f \in Nat /\ rate * 0 <= f /\ f < rate * 0 + rate /\ 0 \in Nat
    BY <1>1, <1>11
  <2> HIDE DEF f
  <2> QED BY <1>1, <2>1, Quotient
<1> QED BY <1>12 DEF SkipFactor

\* What goes before the i-th byte of a stream s, after frame h.
Ahead(h, s, i) == IF i = 1 THEN h ELSE s[i - 1].frame
Ordered(h, s) == \A i \in 1 .. Len(s) : Ahead(h, s, i) <= s[i].frame
NoGap(h, s, l) ==
  \A i \in 1 .. Len(s) : (Ahead(h, s, i) + 1) .. (s[i].frame - 1) \subseteq l
Paired(s) ==
  /\ Len(s) % FrameBytes = 0
  /\ \A i \in 1 .. Len(s) : s[i].right = ((i - 1) % FrameBytes >= FloatBytes)

\* The latest frame of the stream.
End == Ahead(heard, Stream, Len(Stream) + 1)

\* The overlap is a part of what the game has produced, in order.
Rising ==
  /\ \A i, j \in 1 .. Dup : i <= j => dup[i] <= dup[j]
  /\ \A i \in 1 .. Dup : dup[i] < next

\* The stream holds whole frames in order, and has not got beyond the middle
\* of the overlap, behind which the next chunk goes on.
StreamKept == ~ setup.turbo =>
  /\ ~ fastForward
  /\ Len(queue) % FrameBytes = 0
  /\ Paired(Stream) /\ Ordered(heard, Stream)
  /\ Rising /\ End <= dup[Middle]

\* What it has not got to is in the second half of the overlap.
GapsKept == ~ setup.turbo =>
  /\ NoGap(heard, Stream, lost)
  /\ (End + 1) .. (next - 1) \subseteq lost \union {dup[i] : i \in Middle + 1 .. Dup}

-----------------------------------------------------------------------------
(* Streams *)

Sound == [frame : Nat, right : BOOLEAN]

LEMMA WholeBefore ==
  ASSUME NEW a \in Nat, a % FrameBytes = 0, NEW x \in Nat
  PROVE  (a + x) % FrameBytes = x % FrameBytes
<1>1. FrameBytes \in Nat \ {0}
  BY FrameBytesType
<1> DEFINE c == a \div FrameBytes
<1>2. c \in Nat /\ a = FrameBytes * c + (a % FrameBytes)
  BY <1>1, Division
<1> HIDE DEF c
<1>3. a = c * FrameBytes
  BY <1>1, <1>2
<1>4. (c * FrameBytes + x) % FrameBytes = x % FrameBytes
  BY <1>1, <1>2, Shifted
<1> QED BY <1>3, <1>4

LEMMA AheadOfBoth ==
  ASSUME NEW h \in Nat, NEW s \in Seq(Sound), NEW b \in Seq(Sound),
         NEW i \in 1 .. Len(s) + Len(b) + 1
  PROVE  Ahead(h, s \o b, i) =
           IF i <= Len(s) THEN Ahead(h, s, i)
           ELSE Ahead(Ahead(h, s, Len(s) + 1), b, i - Len(s))
<1>1. Len(s) \in Nat /\ Len(b) \in Nat /\ i \in Nat /\ i >= 1
  OBVIOUS
<1>2. \A j \in 1 .. Len(s) : (s \o b)[j] = s[j]
  OBVIOUS
<1>3. \A j \in Len(s) + 1 .. Len(s) + Len(b) : (s \o b)[j] = b[j - Len(s)]
  OBVIOUS
<1>4. CASE i <= Len(s)
  BY <1>1, <1>2, <1>4 DEF Ahead
<1>5. CASE i = Len(s) + 1
  BY <1>1, <1>2, <1>5 DEF Ahead
<1>6. CASE i > Len(s) + 1
  <2>1. i - 1 \in Len(s) + 1 .. Len(s) + Len(b) /\ (i - 1) - Len(s) = (i - Len(s)) - 1
    BY <1>1, <1>6
  <2>2. i # 1 /\ i - Len(s) # 1 /\ ~ (i <= Len(s))
    BY <1>1, <1>6
  <2> QED BY <1>3, <2>1, <2>2 DEF Ahead
<1> QED BY <1>1, <1>4, <1>5, <1>6

LEMMA Appended ==
  ASSUME NEW h \in Nat, NEW s \in Seq(Sound), NEW b \in Seq(Sound), NEW l,
         NEW e, e = Ahead(h, s, Len(s) + 1)
  PROVE  /\ Ordered(h, s) /\ Ordered(e, b) => Ordered(h, s \o b)
         /\ NoGap(h, s, l) /\ NoGap(e, b, l) => NoGap(h, s \o b, l)
         /\ Paired(s) /\ Paired(b) => Paired(s \o b)
         /\ Ahead(h, s \o b, Len(s \o b) + 1) = Ahead(e, b, Len(b) + 1)
<1> DEFINE t == s \o b
<1>1. t \in Seq(Sound) /\ Len(t) = Len(s) + Len(b) /\ Len(s) \in Nat /\ Len(b) \in Nat
  OBVIOUS
<1>2. \A i \in 1 .. Len(s) : t[i] = s[i] /\ Ahead(h, t, i) = Ahead(h, s, i)
  <2> SUFFICES ASSUME NEW i \in 1 .. Len(s)
               PROVE  t[i] = s[i] /\ Ahead(h, t, i) = Ahead(h, s, i)
    OBVIOUS
  <2>1. i \in 1 .. Len(s) + Len(b) + 1 /\ i <= Len(s)
    BY <1>1
  <2>2. Ahead(h, t, i) = Ahead(h, s, i)
    BY <2>1, AheadOfBoth
  <2> QED BY <2>2
<1>3. \A i \in Len(s) + 1 .. Len(t) :
        /\ i - Len(s) \in 1 .. Len(b) /\ t[i] = b[i - Len(s)]
        /\ Ahead(h, t, i) = Ahead(e, b, i - Len(s))
  <2> SUFFICES ASSUME NEW i \in Len(s) + 1 .. Len(t)
               PROVE  /\ i - Len(s) \in 1 .. Len(b) /\ t[i] = b[i - Len(s)]
                      /\ Ahead(h, t, i) = Ahead(e, b, i - Len(s))
    OBVIOUS
  <2>1. i \in 1 .. Len(s) + Len(b) + 1 /\ ~ (i <= Len(s)) /\ i - Len(s) \in 1 .. Len(b)
    BY <1>1
  <2>2. Ahead(h, t, i) = Ahead(e, b, i - Len(s))
    BY <2>1, AheadOfBoth
  <2> QED BY <1>1, <2>1, <2>2
<1>4. Ahead(h, t, Len(t) + 1) = Ahead(e, b, Len(b) + 1)
  <2>1. Len(t) + 1 \in 1 .. Len(s) + Len(b) + 1 /\ ~ (Len(t) + 1 <= Len(s))
        /\ (Len(t) + 1) - Len(s) = Len(b) + 1
    BY <1>1
  <2> QED BY <2>1, AheadOfBoth
<1> HIDE DEF t
<1>5. \A i \in 1 .. Len(t) : i \in 1 .. Len(s) \/ i \in Len(s) + 1 .. Len(t)
  BY <1>1
<1>6. Ordered(h, s) /\ Ordered(e, b) => Ordered(h, t)
  BY <1>2, <1>3, <1>5 DEF Ordered
<1>7. NoGap(h, s, l) /\ NoGap(e, b, l) => NoGap(h, t, l)
  BY <1>2, <1>3, <1>5 DEF NoGap
<1>8. Paired(s) /\ Paired(b) => Paired(t)
  <2> SUFFICES ASSUME Paired(s), Paired(b) PROVE Paired(t)
    OBVIOUS
  <2>1. Len(t) % FrameBytes = 0
    BY <1>1, WholeBefore DEF Paired
  <2>2. ASSUME NEW i \in 1 .. Len(t)
        PROVE  t[i].right = ((i - 1) % FrameBytes >= FloatBytes)
    <3>1. CASE i \in 1 .. Len(s)
      BY <1>2, <3>1 DEF Paired
    <3>2. CASE i \in Len(s) + 1 .. Len(t)
      <4> DEFINE x == (i - Len(s)) - 1
      <4>1. i - Len(s) \in 1 .. Len(b) /\ t[i] = b[i - Len(s)]
        BY <1>3, <3>2
      <4>2. x \in Nat /\ Len(s) + x = i - 1
        BY <1>1, <4>1
      <4>3. b[i - Len(s)].right = (x % FrameBytes >= FloatBytes)
        BY <4>1 DEF Paired
      <4> HIDE DEF x
      <4>4. (Len(s) + x) % FrameBytes = x % FrameBytes
        BY <1>1, <4>2, WholeBefore DEF Paired
      <4> QED BY <4>1, <4>2, <4>3, <4>4
    <3> QED BY <1>5, <3>1, <3>2
  <2> QED BY <2>1, <2>2 DEF Paired
<1> QED BY <1>4, <1>6, <1>7, <1>8 DEF t

\* What is left of a stream when n bytes were taken, and the latest frame taken.
After(s, n) == SubSeq(s, n + 1, Len(s))
Got(h, s, n) == IF n = 0 THEN h ELSE s[n].frame

LEMMA RestOf ==
  ASSUME NEW s \in Seq(Sound), NEW n \in 0 .. Len(s)
  PROVE  /\ After(s, n) \in Seq(Sound) /\ Len(After(s, n)) = Len(s) - n
         /\ \A i \in 1 .. Len(s) - n : After(s, n)[i] = s[n + i]
<1> DEFINE t == After(s, n)
<1>1. Len(s) \in Nat /\ n \in Nat /\ n <= Len(s)
  OBVIOUS
<1>2. /\ t \in Seq(Sound) /\ Len(t) = Len(s) - n
      /\ \A i \in 1 .. Len(t) : t[i] = s[n + i]
  <2>1. \A i \in n + 1 .. Len(s) : s[i] \in Sound
    BY <1>1
  <2>2. n + 1 \in Int /\ Len(s) \in Int
    BY <1>1
  <2>3. /\ t \in Seq(Sound)
        /\ Len(t) = IF n + 1 <= Len(s) THEN Len(s) - (n + 1) + 1 ELSE 0
        /\ \A i \in 1 .. Len(s) - (n + 1) + 1 : t[i] = s[(n + 1) + i - 1]
    BY <2>1, <2>2, SubSeqProperties DEF After
  <2>4. Len(t) = Len(s) - n /\ Len(s) - (n + 1) + 1 = Len(s) - n
    BY <1>1, <2>3
  <2>5. \A i \in 1 .. Len(s) - n : (n + 1) + i - 1 = n + i
    BY <1>1
  <2> QED BY <2>3, <2>4, <2>5
<1> QED BY <1>2

LEMMA Taken ==
  ASSUME NEW h \in Nat, NEW s \in Seq(Sound), NEW n \in 0 .. Len(s), NEW l
  PROVE  /\ Ordered(h, s) => Ordered(Got(h, s, n), After(s, n))
         /\ NoGap(h, s, l) => NoGap(Got(h, s, n), After(s, n), l)
         /\ Paired(s) /\ n % FrameBytes = 0 => Paired(After(s, n))
         /\ Ahead(Got(h, s, n), After(s, n), Len(After(s, n)) + 1) = Ahead(h, s, Len(s) + 1)
<1> DEFINE t == After(s, n)
           g == Got(h, s, n)
<1>1. Len(s) \in Nat /\ n \in Nat /\ n <= Len(s)
  OBVIOUS
<1>2. /\ t \in Seq(Sound) /\ Len(t) = Len(s) - n
      /\ \A i \in 1 .. Len(t) : t[i] = s[n + i]
  BY RestOf
<1> HIDE DEF t
<1>3. g \in Nat
  <2>1. ASSUME n # 0 PROVE s[n].frame \in Nat
    <3>1. n \in 1 .. Len(s)
      BY <1>1, <2>1
    <3>2. s[n] \in Sound
      BY <3>1
    <3> QED BY <3>2 DEF Sound
  <2> QED BY <2>1 DEF Got
<1> HIDE DEF g
<1>4. \A i \in 1 .. Len(t) + 1 : Ahead(g, t, i) = Ahead(h, s, n + i)
  <2> SUFFICES ASSUME NEW i \in 1 .. Len(t) + 1
               PROVE  Ahead(g, t, i) = Ahead(h, s, n + i)
    OBVIOUS
  <2>1. CASE i = 1
    BY <1>1, <2>1 DEF Ahead, g, Got
  <2>2. CASE i # 1
    <3>1. i - 1 \in 1 .. Len(t) /\ n + i # 1 /\ (n + i) - 1 = n + (i - 1)
      BY <1>1, <1>2, <2>2
    <3> QED BY <1>2, <2>2, <3>1 DEF Ahead
  <2> QED BY <2>1, <2>2
<1>5. \A i \in 1 .. Len(t) : n + i \in 1 .. Len(s) /\ i \in 1 .. Len(t) + 1
  BY <1>1, <1>2
<1>6. Ordered(h, s) => Ordered(g, t)
  BY <1>2, <1>4, <1>5 DEF Ordered
<1>7. NoGap(h, s, l) => NoGap(g, t, l)
  BY <1>2, <1>4, <1>5 DEF NoGap
<1>8. ASSUME Paired(s), n % FrameBytes = 0 PROVE Paired(t)
  <2>1. Len(t) \in Nat /\ n + Len(t) = Len(s)
    BY <1>1, <1>2
  <2>2. Len(t) % FrameBytes = 0
    BY <1>1, <1>8, <2>1, WholeBefore DEF Paired
  <2>3. ASSUME NEW i \in 1 .. Len(t)
        PROVE  t[i].right = ((i - 1) % FrameBytes >= FloatBytes)
    <3> DEFINE x == i - 1
    <3>1. x \in Nat /\ (n + i) - 1 = n + x
      BY <1>1
    <3>2. s[n + i].right = (((n + i) - 1) % FrameBytes >= FloatBytes)
      BY <1>5, <1>8 DEF Paired
    <3> HIDE DEF x
    <3>3. (n + x) % FrameBytes = x % FrameBytes
      BY <1>1, <1>8, <3>1, WholeBefore
    <3>4. t[i] = s[n + i]
      BY <1>2
    <3> QED BY <3>1, <3>2, <3>3, <3>4 DEF x
  <2> QED BY <2>2, <2>3 DEF Paired
<1>9. Ahead(g, t, Len(t) + 1) = Ahead(h, s, Len(s) + 1)
  <2>1. Len(t) + 1 \in 1 .. Len(t) + 1 /\ n + (Len(t) + 1) = Len(s) + 1
    BY <1>1, <1>2
  <2> QED BY <1>4, <2>1
<1> QED BY <1>6, <1>7, <1>8, <1>9 DEF t, g

-----------------------------------------------------------------------------
(* A chunk *)

LEMMA JoinedFrames ==
  ASSUME QueueTypeOK, NEW n \in setup.chunks, next + n - 1 <= setup.last
  PROVE  /\ n \in Nat \ {0} /\ setup.last \in Nat
         /\ Joined(n) \in Seq(0 .. setup.last) /\ Len(Joined(n)) = Dup + n
         /\ \A i \in 1 .. Dup : Joined(n)[i] = dup[i]
         /\ \A i \in 1 .. n : Joined(n)[Dup + i] = next + i - 1
<1>1. setup \in Setups /\ setup.last \in Nat /\ n \in 1 .. setup.last /\ Dup \in Nat
  BY SetupsAssumption, Middles DEF QueueTypeOK
<1>2. next \in Nat \ {0} /\ dup \in [1 .. Dup -> 0 .. setup.last]
  BY <1>1 DEF QueueTypeOK
<1> DEFINE u == [i \in 1 .. n |-> next + i - 1]
<1>3. dup \in Seq(0 .. setup.last) /\ Len(dup) = Dup
  BY <1>1, <1>2
<1>4. u \in Seq(0 .. setup.last) /\ Len(u) = n /\ \A i \in 1 .. n : u[i] = next + i - 1
  <2>1. \A i \in 1 .. n : next + i - 1 \in 0 .. setup.last
    BY <1>1, <1>2
  <2> QED BY <1>1, <2>1
<1> HIDE DEF u
<1>5. Joined(n) = dup \o u
  BY DEF Joined, u
<1>6. dup \o u \in Seq(0 .. setup.last) /\ Len(dup \o u) = Dup + n
  <2> DEFINE S == 0 .. setup.last
  <2>1. dup \in Seq(S) /\ u \in Seq(S)
    BY <1>3, <1>4
  <2> HIDE DEF S
  <2>2. dup \o u \in Seq(S) /\ Len(dup \o u) = Len(dup) + Len(u)
    BY <2>1
  <2> QED BY <1>3, <1>4, <2>2 DEF S
<1>7. \A i \in 1 .. Dup : (dup \o u)[i] = dup[i]
  BY <1>1, <1>3, <1>4
<1>8. \A i \in 1 .. n : (dup \o u)[Dup + i] = u[i]
  BY <1>1, <1>3, <1>4
<1> QED BY <1>1, <1>4, <1>5, <1>6, <1>7, <1>8

LEMMA JoinedRises ==
  ASSUME QueueTypeOK, NEW n \in setup.chunks, next + n - 1 <= setup.last, Rising,
         NEW i \in 1 .. Dup + n, NEW j \in 1 .. Dup + n, i <= j
  PROVE  Joined(n)[i] <= Joined(n)[j] /\ Joined(n)[j] < next + n
<1>1. n \in Nat \ {0} /\ Dup \in Nat /\ next \in Nat
  <2>1. n \in Nat \ {0} /\ setup.last \in Nat /\ Dup \in Nat
    BY JoinedFrames, Middles
  <2> QED BY <2>1 DEF QueueTypeOK
<1>2. \A x \in 1 .. Dup : Joined(n)[x] = dup[x] /\ dup[x] < next /\ dup[x] \in Int
  <2>1. \A x \in 1 .. Dup : Joined(n)[x] = dup[x]
    BY JoinedFrames
  <2>2. \A x \in 1 .. Dup : dup[x] < next
    BY DEF Rising
  <2>3. dup \in [1 .. Dup -> 0 .. setup.last]
    BY DEF QueueTypeOK
  <2> QED BY <2>1, <2>2, <2>3
<1>3. ASSUME NEW x \in Dup + 1 .. Dup + n
      PROVE  Joined(n)[x] = next + (x - Dup) - 1
  <2>1. x - Dup \in 1 .. n /\ Dup + (x - Dup) = x
    BY <1>1
  <2> QED BY <2>1, JoinedFrames
<1>4. CASE j \in 1 .. Dup
  <2>1. i \in 1 .. Dup
    BY <1>1, <1>4
  <2>2. dup[i] <= dup[j]
    BY <1>4, <2>1 DEF Rising
  <2> QED BY <1>1, <1>2, <1>4, <2>1, <2>2
<1>5. CASE j \in Dup + 1 .. Dup + n
  <2>1. Joined(n)[j] = next + (j - Dup) - 1
    BY <1>3, <1>5
  <2>2. CASE i \in 1 .. Dup
    <3>1. Joined(n)[i] = dup[i] /\ dup[i] < next /\ dup[i] \in Int
      BY <1>2, <2>2
    <3> QED BY <1>1, <1>5, <2>1, <3>1
  <2>3. CASE i \in Dup + 1 .. Dup + n
    <3>1. Joined(n)[i] = next + (i - Dup) - 1
      BY <1>3, <2>3
    <3> QED BY <1>1, <1>5, <2>1, <3>1
  <2> QED BY <1>1, <2>2, <2>3
<1> QED BY <1>1, <1>4, <1>5

LEMMA OverlapFrames ==
  ASSUME QueueTypeOK, NEW n \in setup.chunks, next + n - 1 <= setup.last
  PROVE  /\ Overlap(Joined(n)) \in [1 .. Dup -> 0 .. setup.last]
         /\ \A i \in 1 .. Dup : Overlap(Joined(n))[i] = Joined(n)[n + i]
<1> DEFINE w == Joined(n)
           t == SubSeq(w, n + 1, n + Dup)
           S == 0 .. setup.last
<1>1. n \in Nat \ {0} /\ Dup \in Nat \ {0} /\ w \in Seq(S) /\ Len(w) = Dup + n
  BY JoinedFrames, Middles
<1> HIDE DEF w, S
<1>2. Overlap(w) = t
  <2>1. Len(w) - Dup + 1 = n + 1 /\ Len(w) = n + Dup
    BY <1>1
  <2> QED BY <2>1 DEF Overlap
<1>3. \A i \in n + 1 .. n + Dup : w[i] \in S
  <2> SUFFICES ASSUME NEW i \in n + 1 .. n + Dup PROVE w[i] \in S
    OBVIOUS
  <2>1. i \in 1 .. Len(w)
    BY <1>1
  <2> QED BY <1>1, <2>1
<1>4. /\ t \in Seq(S)
      /\ Len(t) = IF n + 1 <= n + Dup THEN (n + Dup) - (n + 1) + 1 ELSE 0
      /\ \A i \in 1 .. (n + Dup) - (n + 1) + 1 : t[i] = w[(n + 1) + i - 1]
  <2>1. n + 1 \in Int /\ n + Dup \in Int
    BY <1>1
  <2> QED BY <1>3, <2>1, SubSeqProperties
<1> HIDE DEF t
<1>5. Len(t) = Dup /\ (n + Dup) - (n + 1) + 1 = Dup
  BY <1>1, <1>4
<1>6. \A i \in 1 .. Dup : (n + 1) + i - 1 = n + i
  BY <1>1
<1>7. \A i \in 1 .. Dup : t[i] = w[n + i]
  BY <1>4, <1>5, <1>6
<1>8. t \in [1 .. Dup -> S]
  BY <1>4, <1>5
<1> QED BY <1>2, <1>7, <1>8 DEF w, S

\* The overlap a chunk leaves is in order and not behind the one it meets.
LEMMA OverlapRises ==
  ASSUME QueueTypeOK, NEW n \in setup.chunks, next + n - 1 <= setup.last, Rising
  PROVE  /\ \A i, j \in 1 .. Dup : i <= j => Overlap(Joined(n))[i] <= Overlap(Joined(n))[j]
         /\ \A i \in 1 .. Dup : Overlap(Joined(n))[i] < next + n
         /\ \A i \in 1 .. Dup : dup[i] <= Overlap(Joined(n))[i]
<1>1. n \in Nat \ {0} /\ Dup \in Nat
  BY JoinedFrames, Middles
<1>2. \A i \in 1 .. Dup : Overlap(Joined(n))[i] = Joined(n)[n + i] /\ dup[i] = Joined(n)[i]
  BY OverlapFrames, JoinedFrames
<1>3. \A i \in 1 .. Dup : n + i \in 1 .. Dup + n /\ i \in 1 .. Dup + n /\ i <= n + i
  BY <1>1
<1>4. ASSUME NEW i \in 1 .. Dup, NEW j \in 1 .. Dup, i <= j
      PROVE  Joined(n)[n + i] <= Joined(n)[n + j]
  <2>1. n + i <= n + j
    BY <1>1, <1>4
  <2> QED BY <1>3, <2>1, JoinedRises
<1>5. \A i \in 1 .. Dup : Joined(n)[n + i] < next + n /\ Joined(n)[i] <= Joined(n)[n + i]
  BY <1>3, JoinedRises
<1> QED BY <1>2, <1>4, <1>5

\* What is appended of a chunk, in terms of the joined chunk.
LEMMA ChunkBytes ==
  ASSUME QueueTypeOK, NEW n \in setup.chunks, next + n - 1 <= setup.last,
         NEW b, b = Trimmed(Joined(n), rate),
         NEW c, c = Kept(n, rate) * FrameBytes
  PROVE  /\ b \in Seq(Byte) /\ Len(b) = c
         /\ \A i \in 1 .. c :
              /\ Source(i, rate) \in 1 .. Dup + n
              /\ b[i].frame = Joined(n)[Source(i, rate)]
              /\ b[i].right = ((i - 1) % FrameBytes >= FloatBytes)
         /\ c \in Nat \ {0} /\ c % FrameBytes = 0
         /\ \A i \in 1 .. c : Source(i, rate) \in Middle .. n + Middle
         /\ \A i \in 1 .. c - 1 : Source(i + 1, rate) \in {Source(i, rate), Source(i, rate) + 1}
<1> DEFINE w == Joined(n)
           src(i) == Source(i, rate)
<1>1. /\ setup \in Setups /\ rate \in setup.rates
      /\ n \in Nat \ {0} /\ setup.last \in Nat
      /\ Middle \in Nat \ {0} /\ Dup = 2 * Middle /\ Dup \in Nat
  BY JoinedFrames, Middles DEF QueueTypeOK
<1>2. /\ w \in Seq(0 .. setup.last) /\ Len(w) = Dup + n
      /\ \A i \in 1 .. Dup + n : w[i] \in 0 .. setup.last
  BY JoinedFrames
<1>3. b = [i \in 1 .. c |-> [frame |-> w[src(i)], right |-> (i - 1) % FrameBytes >= FloatBytes]]
  <2>1. w \in Seq(Nat)
    BY <1>1, <1>2
  <2> HIDE DEF w
  <2>2. Trimmed(w, rate) = [i \in 1 .. Kept(n, rate) * FrameBytes |->
          [frame |-> w[Source(i, rate)], right |-> (i - 1) % FrameBytes >= FloatBytes]]
    <3>1. setup \in Setups /\ rate \in setup.rates /\ n \in Nat \ {0} /\ Len(w) = Dup + n
      BY <1>1, <1>2
    <3> QED BY <2>1, <3>1, TrimmedBytes, Zenon
  <2> QED BY <2>2 DEF w
<1>4. /\ c \in Nat \ {0} /\ c % FrameBytes = 0
      /\ \A i \in 1 .. c : src(i) \in Middle .. n + Middle
      /\ \A i \in 1 .. c - 1 : src(i + 1) \in {src(i), src(i) + 1}
  BY <1>1, Sources
<1> HIDE DEF w, src
<1>5. \A i \in 1 .. c : src(i) \in 1 .. Dup + n
  BY <1>1, <1>4
<1>6. Len(b) = c /\ \A i \in 1 .. c : b[i].frame = w[src(i)] /\ b[i].right = ((i - 1) % FrameBytes >= FloatBytes)
  BY <1>3, <1>4
<1>7. b \in Seq(Byte)
  <2>1. \A i \in 1 .. c : [frame |-> w[src(i)], right |-> (i - 1) % FrameBytes >= FloatBytes] \in Byte
    BY <1>2, <1>5 DEF Byte
  <2> QED BY <1>3, <1>4, <2>1
<1> QED BY <1>4, <1>5, <1>6, <1>7 DEF w, src

\* Without decimation, what is appended of a chunk are whole frames in order,
\* from the middle of one overlap to the middle of the next.
LEMMA BatchKept ==
  ASSUME QueueTypeOK, NEW n \in setup.chunks, next + n - 1 <= setup.last, Rising,
         NEW h \in Nat, h <= dup[Middle],
         NEW b, b = Trimmed(Joined(n), rate)
  PROVE  /\ b \in Seq(Byte)
         /\ Paired(b) /\ Ordered(h, b)
         /\ Ahead(h, b, Len(b) + 1) <= Joined(n)[n + Middle]
<1> DEFINE w == Joined(n)
           c == Kept(n, rate) * FrameBytes
           src(i) == Source(i, rate)
<1>1. /\ n \in Nat \ {0} /\ setup.last \in Nat
      /\ Middle \in Nat \ {0} /\ Dup = 2 * Middle /\ Dup \in Nat
  BY JoinedFrames, Middles
<1>2. \A i \in 1 .. Dup + n : w[i] \in 0 .. setup.last
  BY JoinedFrames
<1>4. /\ c \in Nat \ {0} /\ c % FrameBytes = 0
      /\ \A i \in 1 .. c : src(i) \in Middle .. n + Middle /\ src(i) \in 1 .. Dup + n
      /\ \A i \in 1 .. c - 1 : src(i + 1) \in {src(i), src(i) + 1}
  BY ChunkBytes
<1>8. Len(b) = c /\ \A i \in 1 .. c : b[i].frame = w[src(i)] /\ b[i].right = ((i - 1) % FrameBytes >= FloatBytes)
  BY ChunkBytes
<1>9. b \in Seq(Byte)
  BY ChunkBytes
<1>5. \A i, j \in 1 .. Dup + n : i <= j => w[i] <= w[j]
  BY JoinedRises
<1>6. w[Middle] = dup[Middle]
  BY <1>1, JoinedFrames
<1> HIDE DEF w, c, src
<1>7. \A i \in 1 .. c : src(i) \in 1 .. Dup + n
  BY <1>4
<1>10. Paired(b)
  BY <1>4, <1>8 DEF Paired
<1>11. Ordered(h, b)
  <2> SUFFICES ASSUME NEW i \in 1 .. c PROVE Ahead(h, b, i) <= b[i].frame
    BY <1>8 DEF Ordered
  <2>1. CASE i = 1
    <3>1. src(1) \in Middle .. n + Middle /\ Middle \in 1 .. Dup + n
      BY <1>1, <1>4
    <3>2. w[Middle] <= w[src(1)]
      BY <1>4, <1>5, <1>7, <3>1
    <3>3. w[Middle] \in Nat /\ w[src(1)] \in Nat
      BY <1>2, <1>4, <1>7, <3>1
    <3> QED BY <1>6, <1>8, <2>1, <3>2, <3>3 DEF Ahead
  <2>2. CASE i # 1
    <3>1. i - 1 \in 1 .. c - 1 /\ i - 1 \in 1 .. c /\ (i - 1) + 1 = i
      BY <1>4, <2>2
    <3>2. src(i) \in {src(i - 1), src(i - 1) + 1}
      BY <1>4, <3>1
    <3>3. src(i - 1) <= src(i)
      BY <1>7, <3>1, <3>2
    <3>4. w[src(i - 1)] <= w[src(i)]
      BY <1>5, <1>7, <3>1, <3>3
    <3> QED BY <1>8, <2>2, <3>1, <3>4 DEF Ahead
  <2> QED BY <2>1, <2>2
<1>12. Ahead(h, b, Len(b) + 1) <= w[n + Middle]
  <2>1. Len(b) + 1 # 1 /\ (Len(b) + 1) - 1 = c /\ c \in 1 .. c
    BY <1>4, <1>8
  <2>2. src(c) \in Middle .. n + Middle /\ n + Middle \in 1 .. Dup + n
    BY <1>1, <1>4, <2>1
  <2>3. w[src(c)] <= w[n + Middle]
    BY <1>5, <1>7, <2>1, <2>2
  <2> QED BY <1>8, <2>1, <2>3 DEF Ahead
<1> QED BY <1>9, <1>10, <1>11, <1>12 DEF w

-----------------------------------------------------------------------------
(* Steps *)

LEMMA Typed ==
  ASSUME QueueTypeOK
  PROVE  /\ setup \in Setups /\ rate \in setup.rates /\ setup.last \in Nat
         /\ setup.chunks \subseteq 1 .. setup.last /\ setup.device \in Nat
         /\ next \in Nat /\ heard \in Nat
         /\ queue \in Seq(Sound) /\ batch \in Seq(Sound) /\ Stream \in Seq(Sound)
         /\ dup \in [1 .. Dup -> Nat]
         /\ Middle \in 1 .. Dup /\ dup[Middle] \in Nat
<1>1. setup \in Setups
  BY DEF QueueTypeOK
<1>2. /\ setup.last \in Nat /\ setup.chunks \subseteq 1 .. setup.last
      /\ setup.device \in Nat
  BY <1>1, SetupsAssumption
<1>3. Byte \subseteq Sound
  BY <1>2 DEF Byte, Sound
<1>4. queue \in Seq(Sound) /\ batch \in Seq(Sound)
  BY <1>3 DEF QueueTypeOK
<1>5. Stream \in Seq(Sound)
  BY <1>4 DEF Stream
<1>6. Middle \in 1 .. Dup
  BY Middles
<1>7. dup \in [1 .. Dup -> Nat]
  BY <1>2 DEF QueueTypeOK
<1> QED BY <1>1, <1>2, <1>4, <1>5, <1>6, <1>7 DEF QueueTypeOK

LEMMA DrainTakes ==
  ASSUME QueueTypeOK, NEW n, n = Min({Len(queue), setup.device * FrameBytes})
  PROVE  /\ n \in 0 .. Len(queue)
         /\ Len(queue) % FrameBytes = 0 => n % FrameBytes = 0
<1> DEFINE a == Len(queue)
           b == setup.device * FrameBytes
<1>1. a \in Nat /\ b \in Nat /\ setup.device \in Nat /\ FrameBytes \in Nat \ {0}
  BY Typed, FrameBytesType
<1>2. b % FrameBytes = 0
  <2>1. (setup.device * FrameBytes + 0) % FrameBytes = 0 % FrameBytes
    BY <1>1, Shifted
  <2>2. 0 % FrameBytes = 0
    BY <1>1
  <2> QED BY <1>1, <2>1, <2>2
<1> HIDE DEF a, b
<1>3. n \in {a, b} /\ \A x \in {a, b} : n <= x
  <2>1. \E x \in {a, b} : \A y \in {a, b} : x <= y
    BY <1>1
  <2> QED BY <2>1 DEF Min, a, b
<1> QED BY <1>1, <1>2, <1>3 DEF a

LEMMA EndType ==
  ASSUME QueueTypeOK
  PROVE  End \in Nat
<1>1. heard \in Nat /\ Stream \in Seq(Sound) /\ Len(Stream) \in Nat
  BY Typed
<1>2. CASE Len(Stream) = 0
  BY <1>1, <1>2 DEF End, Ahead
<1>3. CASE Len(Stream) # 0
  <2>1. Stream[Len(Stream)] \in Sound /\ Len(Stream) + 1 # 1 /\ (Len(Stream) + 1) - 1 = Len(Stream)
    BY <1>1, <1>3
  <2> QED BY <2>1 DEF End, Ahead, Sound
<1> QED BY <1>2, <1>3

LEMMA RestOfBoth ==
  ASSUME NEW s \in Seq(Sound), NEW b \in Seq(Sound), NEW n \in 0 .. Len(s)
  PROVE  After(s, n) \o b = After(s \o b, n)
<1> DEFINE t == After(s, n)
           u == After(s \o b, n)
<1>1. Len(s) \in Nat /\ Len(b) \in Nat /\ n \in Nat /\ n <= Len(s)
  OBVIOUS
<1>2. s \o b \in Seq(Sound) /\ Len(s \o b) = Len(s) + Len(b)
  OBVIOUS
<1>3. t \in Seq(Sound) /\ Len(t) = Len(s) - n /\ \A i \in 1 .. Len(t) : t[i] = s[n + i]
  BY <1>1, RestOf
<1>4. u \in Seq(Sound) /\ Len(u) = Len(s) + Len(b) - n /\ \A i \in 1 .. Len(u) : u[i] = (s \o b)[n + i]
  <2>1. n \in 0 .. Len(s \o b)
    BY <1>1, <1>2
  <2> DEFINE v == s \o b
  <2>2. v \in Seq(Sound) /\ n \in 0 .. Len(v) /\ Len(v) = Len(s) + Len(b)
    BY <1>2, <2>1
  <2> HIDE DEF v
  <2> DEFINE x == After(v, n)
  <2>3. x \in Seq(Sound) /\ Len(x) = Len(v) - n /\ \A i \in 1 .. Len(v) - n : x[i] = v[n + i]
    BY <2>2, RestOf
  <2> HIDE DEF x
  <2>4. x \in Seq(Sound) /\ Len(x) = Len(s) + Len(b) - n /\ \A i \in 1 .. Len(x) : x[i] = v[n + i]
    BY <2>2, <2>3
  <2> QED BY <2>4 DEF v, x
<1> HIDE DEF t, u
<1>5. t \o b \in Seq(Sound) /\ Len(t \o b) = Len(u)
  <2>1. t \o b \in Seq(Sound) /\ Len(t \o b) = Len(t) + Len(b)
    BY <1>3, ConcatProperties
  <2>2. Len(t) = Len(s) - n /\ Len(u) = Len(s) + Len(b) - n
    BY <1>3, <1>4
  <2> QED BY <1>1, <2>1, <2>2
<1>6. ASSUME NEW i \in 1 .. Len(u) PROVE (t \o b)[i] = u[i]
  <2>1. n + i \in 1 .. Len(s) + Len(b)
    BY <1>1, <1>4
  <2>2. u[i] = IF n + i <= Len(s) THEN s[n + i] ELSE b[(n + i) - Len(s)]
    BY <1>1, <1>4, <2>1, ConcatProperties
  <2>3. i \in 1 .. Len(t) + Len(b)
    BY <1>1, <1>3, <1>4
  <2>4. (t \o b)[i] = IF i <= Len(t) THEN t[i] ELSE b[i - Len(t)]
    BY <1>3, <2>3, ConcatProperties
  <2>5. CASE i <= Len(t)
    BY <1>1, <1>3, <2>2, <2>3, <2>4, <2>5
  <2>6. CASE ~ (i <= Len(t))
    <3>1. (n + i) - Len(s) = i - Len(t) /\ ~ (n + i <= Len(s))
      BY <1>1, <1>3, <2>3, <2>6
    <3> QED BY <2>2, <2>4, <2>6, <3>1
  <2> QED BY <2>5, <2>6
<1>7. t \o b = u
  BY <1>4, <1>5, <1>6, SeqEqual
<1> QED BY <1>7 DEF t, u

LEMMA InitTyped ==
  ASSUME QueueInit
  PROVE  QueueTypeOK
<1>1. setup \in Setups /\ setup.last \in Nat
  BY SetupsAssumption DEF QueueInit
<1>2. dup \in [1 .. Dup -> 0 .. setup.last]
  BY <1>1 DEF QueueInit
<1>3. << >> \in Seq(Byte)
  OBVIOUS
<1>4. next \in 1 .. setup.last + 1 /\ heard \in 0 .. setup.last /\ lost \subseteq 0 .. setup.last
  BY <1>1 DEF QueueInit
<1>5. rate \in setup.rates /\ muted \in BOOLEAN /\ fastForward \in BOOLEAN
  BY DEF QueueInit
<1>6. queue \in Seq(Byte) /\ batch \in Seq(Byte)
  BY <1>3 DEF QueueInit
<1> QED BY <1>1, <1>2, <1>4, <1>5, <1>6 DEF QueueTypeOK

LEMMA HandsTyped ==
  ASSUME QueueTypeOK, NEW n \in setup.chunks, Hands(n)
  PROVE  /\ n \in Nat \ {0} /\ next + n - 1 <= setup.last
         /\ next' \in 1 .. setup.last + 1 /\ next' = next + n
         /\ next .. next + n - 1 \subseteq 0 .. setup.last
<1>1. n \in Nat \ {0} /\ next \in Nat \ {0} /\ setup.last \in Nat
  BY Typed DEF QueueTypeOK
<1>2. next + n - 1 <= setup.last /\ next' = next + n
  BY DEF Hands
<1> QED BY <1>1, <1>2

LEMMA TypeStep ==
  ASSUME QueueTypeOK, [QueueNext]_queueVars
  PROVE  QueueTypeOK'
<1>1. setup \in Setups /\ setup.last \in Nat
  BY Typed
<1>2. setup' = setup
  BY DEF QueueNext, queueVars, Ignore, Fail, Convert, Hands, QueueAudio, Drain,
         SetVolume, SetForward, SetFrequency
<1>3. Byte' = Byte
  BY <1>2 DEF Byte
<1>4. ASSUME NEW n \in setup.chunks, Ignore(n) PROVE QueueTypeOK'
  <2>1. next' \in 1 .. setup.last + 1 /\ next .. next + n - 1 \subseteq 0 .. setup.last
    BY <1>4, HandsTyped DEF Ignore
  <2>2. lost' \subseteq 0 .. setup.last
    BY <1>4, <2>1 DEF Ignore, QueueTypeOK
  <2> QED BY <1>2, <1>3, <1>4, <2>1, <2>2 DEF Ignore, Hands, QueueTypeOK
<1>5. ASSUME NEW n \in setup.chunks, Fail(n) PROVE QueueTypeOK'
  <2>1. n \in Nat \ {0} /\ next + n - 1 <= setup.last /\ next' \in 1 .. setup.last + 1
    BY <1>5, HandsTyped DEF Fail
  <2>2. dup' \in [1 .. Dup -> 0 .. setup.last]
    BY <1>5, <2>1, OverlapFrames DEF Fail
  <2>3. lost' \subseteq 0 .. setup.last
    <3>1. Middle \in Nat /\ Dup = 2 * Middle
      BY Middles
    <3>2. \A i \in Middle + 1 .. Middle + n : i \in 1 .. Dup + n
      BY <2>1, <3>1
    <3>3. \A i \in 1 .. Dup + n : Joined(n)[i] \in 0 .. setup.last
      BY <2>1, JoinedFrames
    <3>4. lost' = lost \union {Joined(n)[i] : i \in Middle + 1 .. Middle + n}
      BY <1>5 DEF Fail, Middle
    <3> QED BY <3>2, <3>3, <3>4 DEF QueueTypeOK
  <2> QED BY <1>2, <1>3, <1>5, <2>1, <2>2, <2>3 DEF Fail, Hands, QueueTypeOK
<1>6. ASSUME NEW n \in setup.chunks, Convert(n) PROVE QueueTypeOK'
  <2>1. n \in Nat \ {0} /\ next + n - 1 <= setup.last /\ next' \in 1 .. setup.last + 1
    BY <1>6, HandsTyped DEF Convert
  <2>2. dup' \in [1 .. Dup -> 0 .. setup.last]
    BY <1>6, <2>1, OverlapFrames DEF Convert
  <2>3. batch' \in Seq(Byte)
    <3>1. Trimmed(Joined(n), rate) \in Seq(Byte)
      BY <2>1, ChunkBytes
    <3>2. SkipFactor(Len(queue), rate) \in Nat
      <4>1. Len(queue) \in Nat /\ FrameBytes \in Nat \ {0} /\ rate \in Nat \ {0}
        BY Typed, FrameBytesType, SetupTypes
      <4>2. Len(queue) \div FrameBytes \in Nat
        BY <4>1, Division
      <4> QED BY <4>1, <4>2, Division DEF SkipFactor
    <3>3. batch' = Decimated(Trimmed(Joined(n), rate), SkipFactor(Len(queue), rate))
      BY <1>6 DEF Convert
    <3> QED BY <3>1, <3>2, <3>3, DecimatedBytes
  <2> QED BY <1>2, <1>3, <1>6, <2>1, <2>2, <2>3 DEF Convert, Hands, QueueTypeOK
<1>7. CASE QueueAudio
  <2>1. queue \o batch \in Seq(Byte) /\ << >> \in Seq(Byte)
    BY DEF QueueTypeOK
  <2> QED BY <1>2, <1>3, <1>7, <2>1 DEF QueueAudio, QueueTypeOK
<1>8. CASE Drain
  <2> DEFINE n == Min({Len(queue), setup.device * FrameBytes})
  <2>1. n \in 0 .. Len(queue)
    BY DrainTakes
  <2>2. queue' = SubSeq(queue, n + 1, Len(queue)) /\ heard' = IF n = 0 THEN heard ELSE queue[n].frame
    BY <1>8 DEF Drain
  <2> HIDE DEF n
  <2>3. queue \in Seq(Byte) /\ Len(queue) \in Nat
    BY DEF QueueTypeOK
  <2>4. SubSeq(queue, n + 1, Len(queue)) \in Seq(Byte)
    <3>1. \A i \in n + 1 .. Len(queue) : queue[i] \in Byte
      BY <2>1, <2>3
    <3> QED BY <2>1, <2>3, <3>1, SubSeqProperties
  <2>5. heard' \in 0 .. setup.last
    <3>1. CASE n = 0
      BY <2>2, <3>1 DEF QueueTypeOK
    <3>2. CASE n # 0
      <4>1. queue[n] \in Byte
        BY <2>1, <2>3, <3>2
      <4> QED BY <2>2, <3>2, <4>1 DEF Byte
    <3> QED BY <3>1, <3>2
  <2> QED BY <1>2, <1>3, <1>8, <2>2, <2>4, <2>5 DEF Drain, QueueTypeOK
<1>9. CASE SetVolume \/ SetForward \/ UNCHANGED queueVars
  BY <1>2, <1>3, <1>9 DEF SetVolume, SetForward, queueVars, QueueTypeOK
<1>10. ASSUME NEW r \in setup.rates, SetFrequency(r) PROVE QueueTypeOK'
  BY <1>2, <1>3, <1>10 DEF SetFrequency, QueueTypeOK
<1> QED BY <1>4, <1>5, <1>6, <1>7, <1>8, <1>9, <1>10 DEF QueueNext


LEMMA InitKept ==
  ASSUME QueueInit
  PROVE  StreamKept /\ GapsKept
<1>1. QueueTypeOK
  BY InitTyped
<1>2. Middle \in 1 .. Dup /\ Dup \in Nat /\ FrameBytes \in Nat \ {0} /\ 0 % FrameBytes = 0
  <2>1. FrameBytes \in Nat \ {0}
    BY FrameBytesType
  <2>2. 0 % FrameBytes = 0
    BY <2>1
  <2> QED BY <1>1, Typed, Middles, <2>1, <2>2
<1>3. Stream = << >> /\ Len(Stream) = 0 /\ Len(queue) = 0
  BY DEF QueueInit, Stream
<1>4. Paired(Stream) /\ Ordered(heard, Stream) /\ NoGap(heard, Stream, lost)
  BY <1>2, <1>3 DEF Paired, Ordered, NoGap
<1>5. \A i \in 1 .. Dup : dup[i] = 0
  BY DEF QueueInit
<1>6. Rising
  BY <1>5 DEF Rising, QueueInit
<1>7. End = 0
  BY <1>3 DEF End, Ahead, QueueInit
<1>8. (End + 1) .. (next - 1) = {}
  BY <1>7 DEF QueueInit
<1> QED BY <1>2, <1>3, <1>4, <1>5, <1>6, <1>7, <1>8 DEF StreamKept, GapsKept, QueueInit

\* Without fast-forward a chunk that is converted is appended as it is.
LEMMA ConvertKeeps ==
  ASSUME Paces, QueueTypeOK, StreamKept, ~ setup.turbo,
         NEW n \in setup.chunks, Convert(n)
  PROVE  /\ next + n - 1 <= setup.last /\ next' = next + n
         /\ batch' = Trimmed(Joined(n), rate)
         /\ Stream = queue /\ Stream' = Stream \o batch'
         /\ batch' \in Seq(Sound)
         /\ End \in Nat
         /\ Ordered(End, batch') /\ Paired(batch')
         /\ End' = Ahead(End, batch', Len(batch') + 1)
         /\ End' <= dup'[Middle]
<1>1. next + n - 1 <= setup.last /\ next' = next + n
  BY HandsTyped DEF Convert
<1>2. batch' = Trimmed(Joined(n), rate)
  <2> DEFINE t == Trimmed(Joined(n), rate)
  <2>1. FramesRemaining <= Low /\ ~ fastForward
    BY DEF Convert, Hands, StreamKept
  <2>2. SkipFactor(Len(queue), rate) = 0
    BY <2>1, NothingSkipped
  <2>3. t \in Seq(Byte)
    BY <1>1, ChunkBytes
  <2>4. batch' = Decimated(t, 0)
    BY <2>2 DEF Convert
  <2> HIDE DEF t
  <2>5. batch' = t
    BY <2>3, <2>4, NotDecimated
  <2> QED BY <2>5 DEF t
<1>3. Stream = queue /\ Stream' = queue \o batch'
  <2>1. batch = << >> /\ queue' = queue /\ queue \in Seq(Sound)
    BY Typed DEF Convert, Hands
  <2> QED BY <2>1 DEF Stream
<1>4. /\ Stream \in Seq(Sound) /\ heard \in Nat /\ heard' = heard
      /\ Middle \in 1 .. Dup /\ dup[Middle] \in Nat
  BY Typed DEF Convert, Hands
<1>5. End \in Nat /\ End <= dup[Middle]
  BY <1>4, EndType DEF StreamKept
<1>6. Rising
  BY DEF StreamKept
<1>7. /\ batch' \in Seq(Byte) /\ Paired(batch') /\ Ordered(End, batch')
      /\ Ahead(End, batch', Len(batch') + 1) <= Joined(n)[n + Middle]
  BY <1>1, <1>2, <1>5, <1>6, BatchKept
<1>8. Byte \subseteq Sound
  BY Typed DEF Byte, Sound
<1>9. batch' \in Seq(Sound)
  BY <1>7, <1>8
<1>10. End' = Ahead(End, batch', Len(batch') + 1)
  <2>1. Stream' = Stream \o batch' /\ End = Ahead(heard, Stream, Len(Stream) + 1)
    BY <1>3 DEF End
  <2>2. Ahead(heard, Stream \o batch', Len(Stream \o batch') + 1) = Ahead(End, batch', Len(batch') + 1)
    BY <1>4, <1>5, <1>9, <2>1, Appended
  <2>3. End' = Ahead(heard', Stream', Len(Stream') + 1)
    BY DEF End
  <2> QED BY <1>4, <2>1, <2>2, <2>3
<1>11. dup'[Middle] = Joined(n)[n + Middle]
  BY <1>1, <1>4, OverlapFrames DEF Convert
<1> QED BY <1>1, <1>2, <1>3, <1>5, <1>7, <1>9, <1>10, <1>11

\* What the device takes leaves the rest of the stream as it was.
LEMMA DrainKeeps ==
  ASSUME QueueTypeOK, StreamKept, ~ setup.turbo, Drain, NEW l
  PROVE  /\ Len(queue') % FrameBytes = 0
         /\ Paired(Stream') /\ Ordered(heard', Stream')
         /\ NoGap(heard, Stream, l) => NoGap(heard', Stream', l)
         /\ End' = End
<1> DEFINE n == Min({Len(queue), setup.device * FrameBytes})
<1>1. n \in 0 .. Len(queue) /\ n % FrameBytes = 0
  BY DrainTakes DEF StreamKept
<1>2. queue' = After(queue, n) /\ heard' = Got(heard, queue, n) /\ batch' = batch
  BY DEF Drain, After, Got
<1> HIDE DEF n
<1>3. queue \in Seq(Sound) /\ batch \in Seq(Sound) /\ Stream \in Seq(Sound) /\ heard \in Nat
  BY Typed
<1>4. Len(Stream) = Len(queue) + Len(batch) /\ \A i \in 1 .. Len(queue) : Stream[i] = queue[i]
  BY <1>3 DEF Stream
<1>5. n \in 0 .. Len(Stream) /\ heard' = Got(heard, Stream, n)
  BY <1>1, <1>2, <1>3, <1>4 DEF Got
<1>6. Stream' = After(Stream, n)
  <2>1. After(queue, n) \o batch = After(queue \o batch, n)
    BY <1>1, <1>3, RestOfBoth
  <2> QED BY <1>2, <2>1 DEF Stream
<1>7. /\ Ordered(heard, Stream) => Ordered(heard', Stream')
      /\ NoGap(heard, Stream, l) => NoGap(heard', Stream', l)
      /\ Paired(Stream) => Paired(Stream')
      /\ Ahead(heard', Stream', Len(Stream') + 1) = Ahead(heard, Stream, Len(Stream) + 1)
  <2>1. heard \in Nat /\ Stream \in Seq(Sound) /\ n \in 0 .. Len(Stream) /\ n % FrameBytes = 0
    BY <1>1, <1>3, <1>5
  <2> QED BY <1>5, <1>6, <2>1, Taken
<1>8. Len(queue') % FrameBytes = 0
  <2>1. Paired(queue)
    BY <1>3, <1>4 DEF StreamKept, Paired
  <2>2. Paired(queue')
    <3>1. heard \in Nat /\ queue \in Seq(Sound) /\ n \in 0 .. Len(queue) /\ n % FrameBytes = 0
      BY <1>1, <1>3
    <3> QED BY <1>2, <2>1, <3>1, Taken
  <2> QED BY <2>2 DEF Paired
<1> QED BY <1>7, <1>8 DEF StreamKept, End

LEMMA SameSetup ==
  ASSUME [QueueNext]_queueVars
  PROVE  setup' = setup
BY DEF QueueNext, queueVars, Ignore, Fail, Convert, Hands, QueueAudio, Drain,
       SetVolume, SetForward, SetFrequency

\* A step that moves bytes from the batch to the queue leaves the stream.
LEMMA QueueAudioKeeps ==
  ASSUME QueueTypeOK, QueueAudio
  PROVE  Stream' = Stream /\ queue' = Stream
<1>1. queue \in Seq(Sound) /\ batch \in Seq(Sound)
  BY Typed
<1>2. queue' = queue \o batch /\ batch' = << >>
  BY DEF QueueAudio
<1>3. (queue \o batch) \o << >> = queue \o batch
  BY <1>1
<1> QED BY <1>2, <1>3 DEF Stream

LEMMA StreamStep ==
  ASSUME Paces, QueueTypeOK, StreamKept, [QueueNext]_queueVars
  PROVE  StreamKept'
<1>1. setup' = setup
  BY SameSetup
<1> SUFFICES ASSUME ~ setup.turbo
             PROVE  StreamKept'
  BY <1>1 DEF StreamKept
<1>2. /\ ~ fastForward /\ Len(queue) % FrameBytes = 0
      /\ Paired(Stream) /\ Ordered(heard, Stream)
      /\ Rising /\ End <= dup[Middle]
  BY DEF StreamKept
<1>3. Middle \in 1 .. Dup /\ dup[Middle] \in Nat /\ next \in Nat /\ End \in Nat
      /\ dup \in [1 .. Dup -> Nat]
  BY Typed, EndType
<1>4. ASSUME UNCHANGED <<heard, queue, batch>>
      PROVE  Stream' = Stream /\ End' = End /\ queue' = queue /\ heard' = heard
  BY <1>4 DEF Stream, End
<1>5. ASSUME NEW n \in setup.chunks, Ignore(n)
      PROVE  Rising' /\ dup' = dup
  <2>1. next' = next + n /\ n \in Nat /\ dup' = dup
    BY <1>5, HandsTyped DEF Ignore
  <2> QED BY <1>2, <1>3, <2>1 DEF Rising
<1>6. ASSUME NEW n \in setup.chunks, next + n - 1 <= setup.last,
             next' = next + n, dup' = Overlap(Joined(n))
      PROVE  Rising' /\ dup[Middle] <= dup'[Middle] /\ dup'[Middle] \in Nat
  <2>1. Rising'
    BY <1>2, <1>6, OverlapRises DEF Rising
  <2>2. dup[Middle] <= dup'[Middle]
    BY <1>2, <1>3, <1>6, OverlapRises
  <2>3. dup' \in [1 .. Dup -> 0 .. setup.last]
    BY <1>6, OverlapFrames
  <2> QED BY <1>3, <2>1, <2>2, <2>3
<1>7. ASSUME NEW n \in setup.chunks, Ignore(n) PROVE StreamKept'
  BY <1>1, <1>2, <1>4, <1>5, <1>7 DEF Ignore, Hands, StreamKept
<1>8. ASSUME NEW n \in setup.chunks, Fail(n) PROVE StreamKept'
  <2>1. next + n - 1 <= setup.last /\ next' = next + n
    BY <1>8, HandsTyped DEF Fail
  <2>2. Rising' /\ dup[Middle] <= dup'[Middle] /\ dup'[Middle] \in Nat
    BY <1>6, <1>8, <2>1 DEF Fail
  <2>3. Stream' = Stream /\ End' = End /\ queue' = queue /\ heard' = heard /\ fastForward' = fastForward
    BY <1>4, <1>8 DEF Fail, Hands
  <2>4. End' <= dup'[Middle]
    BY <1>2, <1>3, <2>2, <2>3
  <2> QED BY <1>1, <1>2, <2>2, <2>3, <2>4 DEF StreamKept
<1>9. ASSUME NEW n \in setup.chunks, Convert(n) PROVE StreamKept'
  <2>1. /\ next + n - 1 <= setup.last /\ next' = next + n
        /\ Stream' = Stream \o batch'
        /\ batch' \in Seq(Sound)
        /\ Ordered(End, batch') /\ Paired(batch')
        /\ End' <= dup'[Middle]
    BY <1>9, ConvertKeeps
  <2>2. Rising'
    BY <1>6, <1>9, <2>1 DEF Convert
  <2>3. queue' = queue /\ heard' = heard /\ fastForward' = fastForward
    BY <1>9 DEF Convert, Hands
  <2>4. heard \in Nat /\ Stream \in Seq(Sound)
    BY Typed
  <2>5. Paired(Stream') /\ Ordered(heard', Stream')
    <3>1. End = Ahead(heard, Stream, Len(Stream) + 1)
      BY DEF End
    <3> QED BY <1>2, <2>1, <2>3, <2>4, <3>1, Appended
  <2> QED BY <1>1, <1>2, <2>1, <2>2, <2>3, <2>5 DEF StreamKept
<1>10. CASE QueueAudio
  <2>1. Stream' = Stream /\ queue' = Stream
    BY <1>10, QueueAudioKeeps
  <2>2. fastForward' = fastForward /\ heard' = heard /\ dup' = dup /\ next' = next
    BY <1>10 DEF QueueAudio
  <2>3. Len(queue') % FrameBytes = 0
    BY <1>2, <2>1 DEF Paired
  <2>4. End' = End /\ Rising'
    BY <1>2, <2>1, <2>2 DEF End, Rising
  <2> QED BY <1>1, <1>2, <2>1, <2>2, <2>3, <2>4 DEF StreamKept
<1>11. CASE Drain
  <2>1. /\ Len(queue') % FrameBytes = 0
        /\ Paired(Stream') /\ Ordered(heard', Stream')
        /\ End' = End
    BY <1>11, DrainKeeps
  <2>2. fastForward' = fastForward /\ dup' = dup /\ next' = next
    BY <1>11 DEF Drain
  <2>3. Rising'
    BY <1>2, <2>2 DEF Rising
  <2> QED BY <1>1, <1>2, <2>1, <2>2, <2>3 DEF StreamKept
<1>12. ASSUME UNCHANGED <<heard, queue, batch, fastForward, dup, next>> PROVE StreamKept'
  <2>1. Rising'
    BY <1>2, <1>12 DEF Rising
  <2> QED BY <1>1, <1>2, <1>4, <1>12, <2>1 DEF StreamKept
<1>13. CASE SetVolume \/ UNCHANGED queueVars
  BY <1>12, <1>13 DEF SetVolume, queueVars
<1>14. ASSUME NEW r \in setup.rates, SetFrequency(r) PROVE StreamKept'
  BY <1>12, <1>14 DEF SetFrequency
<1>15. CASE SetForward
  BY <1>15 DEF SetForward
<1> QED
  BY <1>7, <1>8, <1>9, <1>10, <1>11, <1>13, <1>14, <1>15 DEF QueueNext

-----------------------------------------------------------------------------
(* Frames between those of the stream *)

\* What the stream has not got to when a chunk comes was not taken, or is in the
\* joined chunk behind the middle of the overlap.
LEMMA ToCome ==
  ASSUME QueueTypeOK, GapsKept, ~ setup.turbo,
         NEW n \in setup.chunks, next + n - 1 <= setup.last,
         NEW f \in Nat, f > End, f < next + n
  PROVE  f \in lost \/ \E m \in Middle + 1 .. Dup + n : f = Joined(n)[m]
<1>1. /\ n \in Nat \ {0} /\ next \in Nat /\ End \in Nat
      /\ Middle \in 1 .. Dup /\ Dup \in Nat
  BY JoinedFrames, Typed, EndType, Middles
<1>2. CASE f < next
  <2>1. f \in (End + 1) .. (next - 1)
    BY <1>1, <1>2
  <2>2. f \in lost \/ \E i \in Middle + 1 .. Dup : f = dup[i]
    BY <2>1 DEF GapsKept
  <2>3. ASSUME NEW i \in Middle + 1 .. Dup, f = dup[i]
        PROVE  \E m \in Middle + 1 .. Dup + n : f = Joined(n)[m]
    <3>1. i \in 1 .. Dup /\ i \in Middle + 1 .. Dup + n
      BY <1>1
    <3>2. Joined(n)[i] = dup[i]
      BY <3>1, JoinedFrames
    <3> QED BY <2>3, <3>1, <3>2
  <2> QED BY <2>2, <2>3
<1>3. CASE ~ (f < next)
  <2> DEFINE i == f - next + 1
  <2>1. i \in 1 .. n /\ Dup + i \in Middle + 1 .. Dup + n /\ next + i - 1 = f
    BY <1>1, <1>3
  <2> HIDE DEF i
  <2>2. Joined(n)[Dup + i] = f
    BY <2>1, JoinedFrames
  <2> QED BY <2>1, <2>2
<1> QED BY <1>2, <1>3

LEMMA ReachesMiddle ==
  ASSUME Reaches, QueueTypeOK, ~ setup.turbo, NEW n \in setup.chunks, n > Dup
  PROVE  Index(Kept(n, rate), rate) = n + Middle
<1>1. setup \in Setups /\ rate \in setup.rates /\ n \in Nat \ {0}
  BY Typed
<1> DEFINE N == ((Dup + n) * OutRate) \div rate
           h == Skipped(rate)
           k == Kept(n, rate)
<1>2. 1 + ((N - h - 1) * rate) \div OutRate = n + Middle
  BY <1>1 DEF Reaches, Skipped, Middle
<1>3. N = k + 2 * h /\ k \in Nat \ {0} /\ h \in Nat
  BY <1>1, Kepts, Bounds
<1> HIDE DEF N, h, k
<1>4. N - h - 1 = h + k - 1
  BY <1>3
<1> QED BY <1>2, <1>4 DEF Index, h, k

\* A chunk that is appended leaves no gap, within it or to what was there.
LEMMA ConvertGaps ==
  ASSUME Paces, Reaches, QueueTypeOK, StreamKept, GapsKept, ~ setup.turbo,
         NEW n \in setup.chunks, Convert(n)
  PROVE  /\ NoGap(End, batch', lost)
         /\ (End' + 1) .. (next' - 1) \subseteq lost \union {dup'[i] : i \in Middle + 1 .. Dup}
<1> DEFINE w == Joined(n)
           c == Kept(n, rate) * FrameBytes
           src(i) == Source(i, rate)
<1>1. /\ next + n - 1 <= setup.last /\ next' = next + n
      /\ batch' = Trimmed(w, rate)
      /\ End \in Nat /\ End' = Ahead(End, batch', Len(batch') + 1)
  BY ConvertKeeps
<1>2. /\ n \in Nat \ {0} /\ setup.last \in Nat /\ next \in Nat
      /\ Middle \in 1 .. Dup /\ Dup = 2 * Middle /\ Dup \in Nat
  BY JoinedFrames, Middles, Typed, <1>1
<1>3. /\ Len(batch') = c /\ c \in Nat \ {0}
      /\ \A i \in 1 .. c :
           /\ src(i) \in 1 .. Dup + n /\ src(i) \in Middle .. n + Middle
           /\ batch'[i].frame = w[src(i)]
      /\ \A i \in 1 .. c - 1 : src(i + 1) \in {src(i), src(i) + 1}
  BY <1>1, ChunkBytes
<1>4. \A i \in 1 .. Dup + n : w[i] \in 0 .. setup.last /\ w[i] < next + n
  <2> SUFFICES ASSUME NEW i \in 1 .. Dup + n
               PROVE  w[i] \in 0 .. setup.last /\ w[i] < next + n
    OBVIOUS
  <2>1. Rising
    BY DEF StreamKept
  <2>2. w[i] < next + n
    <3>1. i <= i
      BY <1>2
    <3> QED BY <1>1, <2>1, <3>1, JoinedRises
  <2>3. w \in Seq(0 .. setup.last) /\ Len(w) = Dup + n
    BY <1>1, JoinedFrames
  <2>4. w[i] \in 0 .. setup.last
    <3> DEFINE S == 0 .. setup.last
    <3>1. w \in Seq(S) /\ i \in 1 .. Len(w)
      BY <2>3
    <3> HIDE DEF w, S
    <3>2. w[i] \in S
      BY <3>1, ElementOfSeq
    <3> QED BY <3>2 DEF S
  <2> QED BY <2>2, <2>4
<1>5. \A i, j \in 1 .. Dup + n : i <= j => w[i] <= w[j]
  BY <1>1, JoinedRises DEF StreamKept
<1>6. End <= w[Middle]
  BY <1>1, <1>2, JoinedFrames DEF StreamKept
<1>7. ASSUME NEW f \in Nat, f > End, f < next + n, f \notin lost
      PROVE  \E m \in Middle + 1 .. Dup + n : f = w[m]
  BY <1>1, <1>7, ToCome
<1>8. src(1) <= Middle + 1 /\ src(c) = n + Middle
  <2>1. setup \in Setups /\ rate \in setup.rates /\ n > Dup
    BY Typed DEF Convert
  <2> QED BY <1>2, <2>1, Sources, ReachesMiddle
<1> HIDE DEF w, c, src
<1>9. ASSUME NEW i \in 1 .. c,
             NEW f \in (Ahead(End, batch', i) + 1) .. (batch'[i].frame - 1)
      PROVE  f \in lost
  <2> SUFFICES ASSUME f \notin lost PROVE FALSE
    OBVIOUS
  <2>1. src(i) \in 1 .. Dup + n /\ batch'[i].frame = w[src(i)]
    BY <1>3
  <2>2. w[src(i)] \in Nat /\ w[src(i)] < next + n
    BY <1>4, <2>1
  <2>3. CASE i = 1
    <3>1. Ahead(End, batch', i) = End
      BY <2>3 DEF Ahead
    <3>2. f \in Nat /\ f > End /\ f < w[src(i)] /\ f < next + n
      BY <1>1, <1>2, <2>1, <2>2, <3>1
    <3>3. PICK m \in Middle + 1 .. Dup + n : f = w[m]
      BY <1>7, <3>2
    <3>4. src(i) <= m /\ m \in 1 .. Dup + n
      BY <1>2, <1>8, <2>1, <2>3
    <3>5. w[src(i)] <= w[m]
      BY <1>5, <2>1, <3>4
    <3> QED BY <2>2, <3>2, <3>3, <3>5
  <2>4. CASE i # 1
    <3> DEFINE p == src(i - 1)
    <3>1. i - 1 \in 1 .. c - 1 /\ i - 1 \in 1 .. c /\ (i - 1) + 1 = i
      BY <1>3, <2>4
    <3>2. /\ p \in 1 .. Dup + n /\ p \in Middle .. n + Middle /\ batch'[i - 1].frame = w[p]
          /\ src(i) \in {p, p + 1}
      BY <1>3, <3>1
    <3> HIDE DEF p
    <3>3. Ahead(End, batch', i) = w[p]
      BY <2>4, <3>2 DEF Ahead
    <3>4. w[Middle] <= w[p] /\ w[p] \in Nat /\ w[Middle] \in Nat
      BY <1>2, <1>4, <1>5, <3>2
    <3>5. f \in Nat /\ f > w[p] /\ f > End /\ f < w[src(i)] /\ f < next + n
      <4>1. f \in (w[p] + 1) .. (w[src(i)] - 1)
        BY <2>1, <3>3
      <4>2. End <= w[p]
        BY <1>1, <1>6, <3>4
      <4>3. f > w[p] /\ f < w[src(i)] /\ f \in Nat
        BY <2>2, <3>4, <4>1
      <4> QED BY <1>1, <1>2, <2>2, <3>4, <4>2, <4>3
    <3>6. PICK m \in Middle + 1 .. Dup + n : f = w[m]
      BY <1>7, <3>5
    <3>7. m \in 1 .. Dup + n
      BY <1>2
    <3>8. CASE m <= p
      <4>1. w[m] <= w[p]
        BY <1>5, <3>2, <3>7, <3>8
      <4> QED BY <3>4, <3>5, <3>6, <4>1
    <3>9. CASE ~ (m <= p)
      <4>1. src(i) <= m
        BY <3>2, <3>7, <3>9
      <4>2. w[src(i)] <= w[m]
        BY <1>5, <2>1, <3>7, <4>1
      <4> QED BY <2>2, <3>5, <3>6, <4>2
    <3> QED BY <3>8, <3>9
  <2> QED BY <2>3, <2>4
<1>10. End' = w[n + Middle]
  <2>1. Len(batch') + 1 # 1 /\ (Len(batch') + 1) - 1 = c /\ c \in 1 .. c
    BY <1>3
  <2> QED BY <1>1, <1>3, <1>8, <2>1 DEF Ahead
<1>11. ASSUME NEW f \in (End' + 1) .. (next' - 1), f \notin lost
       PROVE  \E i \in Middle + 1 .. Dup : f = dup'[i]
  <2>1. n + Middle \in 1 .. Dup + n /\ Middle \in 1 .. Dup + n /\ Middle <= n + Middle
    BY <1>2
  <2>2. w[Middle] <= w[n + Middle] /\ w[Middle] \in Nat /\ w[n + Middle] \in Nat
    BY <1>4, <1>5, <2>1
  <2>3. f \in Nat /\ f > End /\ f < next + n /\ f > w[n + Middle]
    BY <1>1, <1>2, <1>6, <1>10, <2>2
  <2>4. PICK m \in Middle + 1 .. Dup + n : f = w[m]
    BY <1>7, <1>11, <2>3
  <2>5. m \in 1 .. Dup + n
    BY <1>2
  <2>6. ~ (m <= n + Middle)
    <3> SUFFICES ASSUME m <= n + Middle PROVE FALSE
      OBVIOUS
    <3>1. w[m] <= w[n + Middle]
      BY <1>5, <2>1, <2>5
    <3> QED BY <2>2, <2>3, <2>4, <3>1
  <2>7. m - n \in Middle + 1 .. Dup /\ m - n \in 1 .. Dup /\ n + (m - n) = m
    BY <1>2, <2>5, <2>6
  <2>8. dup' = Overlap(w)
    BY DEF Convert, w
  <2>9. dup'[m - n] = w[m]
    BY <1>1, <2>7, <2>8, OverlapFrames DEF w
  <2> QED BY <2>4, <2>7, <2>9
<1>12. NoGap(End, batch', lost)
  BY <1>3, <1>9 DEF NoGap
<1> QED BY <1>11, <1>12


LEMMA GapsStep ==
  ASSUME Paces, Reaches, QueueTypeOK, StreamKept, GapsKept, [QueueNext]_queueVars
  PROVE  GapsKept'
<1>1. setup' = setup
  BY SameSetup
<1> SUFFICES ASSUME ~ setup.turbo
             PROVE  GapsKept'
  BY <1>1 DEF GapsKept
<1>2. /\ NoGap(heard, Stream, lost)
      /\ (End + 1) .. (next - 1) \subseteq lost \union {dup[i] : i \in Middle + 1 .. Dup}
  BY DEF GapsKept
<1>3. Middle \in 1 .. Dup /\ Dup = 2 * Middle /\ Dup \in Nat /\ next \in Nat /\ End \in Nat
  BY Typed, EndType, Middles
<1>4. ASSUME UNCHANGED <<heard, queue, batch>>
      PROVE  Stream' = Stream /\ End' = End
  BY <1>4 DEF Stream, End
<1>5. ASSUME lost \subseteq lost', UNCHANGED <<heard, queue, batch>>
      PROVE  NoGap(heard', Stream', lost')
  BY <1>2, <1>4, <1>5 DEF NoGap
<1>6. ASSUME UNCHANGED <<heard, queue, batch, dup, next, lost>> PROVE GapsKept'
  BY <1>2, <1>4, <1>5, <1>6 DEF GapsKept
<1>7. ASSUME NEW n \in setup.chunks, Ignore(n) PROVE GapsKept'
  <2>1. /\ n \in Nat /\ next' = next + n /\ lost' = lost \union next .. next + n - 1
        /\ UNCHANGED <<heard, queue, batch>> /\ dup' = dup
    BY <1>7, HandsTyped DEF Ignore, Hands
  <2>2. NoGap(heard', Stream', lost') /\ End' = End
    BY <1>4, <1>5, <2>1
  <2>3. ASSUME NEW f \in (End + 1) .. (next + n - 1)
        PROVE  f \in lost' \union {dup[i] : i \in Middle + 1 .. Dup}
    <3>1. CASE f < next
      <4>1. f \in (End + 1) .. (next - 1)
        BY <1>3, <2>1, <3>1
      <4> QED BY <1>2, <2>1, <4>1
    <3>2. CASE ~ (f < next)
      BY <1>3, <2>1, <3>2
    <3> QED BY <3>1, <3>2
  <2>4. (End' + 1) .. (next' - 1) = (End + 1) .. (next + n - 1)
    <3>1. End' = End /\ next' = next + n
      BY <2>1, <2>2
    <3>2. next' - 1 = next + n - 1
      BY <1>3, <2>1, <3>1
    <3> QED BY <3>1, <3>2, Zenon
  <2>5. (End' + 1) .. (next' - 1) \subseteq lost' \union {dup'[i] : i \in Middle + 1 .. Dup}
    BY <2>1, <2>3, <2>4
  <2> QED BY <2>2, <2>5 DEF GapsKept
<1>8. ASSUME NEW n \in setup.chunks, Fail(n) PROVE GapsKept'
  <2> DEFINE w == Joined(n)
  <2>1. /\ n \in Nat /\ next' = next + n /\ next + n - 1 <= setup.last
        /\ UNCHANGED <<heard, queue, batch>> /\ dup' = Overlap(w)
        /\ lost' = lost \union {w[i] : i \in Middle + 1 .. Middle + n}
    BY <1>8, HandsTyped DEF Fail, Hands, Middle
  <2>2. NoGap(heard', Stream', lost') /\ End' = End
    BY <1>4, <1>5, <2>1
  <2>3. \A i \in 1 .. Dup : dup'[i] = w[n + i]
    BY <2>1, OverlapFrames
  <2>4. ASSUME NEW f \in (End + 1) .. (next + n - 1)
        PROVE  f \in lost' \union {dup'[i] : i \in Middle + 1 .. Dup}
    <3>1. f \in Nat /\ f > End /\ f < next + n
      BY <1>3, <2>1
    <3>2. f \in lost \/ \E m \in Middle + 1 .. Dup + n : f = w[m]
      BY <2>1, <3>1, ToCome
    <3> HIDE DEF w
    <3>3. ASSUME NEW m \in Middle + 1 .. Dup + n, f = w[m]
          PROVE  f \in lost' \union {dup'[i] : i \in Middle + 1 .. Dup}
      <4>1. CASE m <= Middle + n
        <5>1. m \in Middle + 1 .. Middle + n
          BY <1>3, <2>1, <4>1
        <5> QED BY <2>1, <3>3, <5>1
      <4>2. CASE ~ (m <= Middle + n)
        <5>1. m - n \in Middle + 1 .. Dup /\ m - n \in 1 .. Dup /\ n + (m - n) = m
          BY <1>3, <2>1, <4>2
        <5>2. dup'[m - n] = f
          BY <2>3, <3>3, <5>1
        <5> QED BY <5>1, <5>2
      <4> QED BY <4>1, <4>2
    <3> QED BY <2>1, <3>2, <3>3
  <2>5. (End' + 1) .. (next' - 1) = (End + 1) .. (next + n - 1)
    <3>1. End' = End /\ next' = next + n
      BY <2>1, <2>2
    <3>2. next' - 1 = next + n - 1
      BY <1>3, <2>1, <3>1
    <3> QED BY <3>1, <3>2, Zenon
  <2> QED BY <2>2, <2>4, <2>5 DEF GapsKept
<1>9. ASSUME NEW n \in setup.chunks, Convert(n) PROVE GapsKept'
  <2>1. /\ Stream' = Stream \o batch' /\ batch' \in Seq(Sound) /\ End \in Nat
        /\ NoGap(End, batch', lost)
        /\ (End' + 1) .. (next' - 1) \subseteq lost \union {dup'[i] : i \in Middle + 1 .. Dup}
    BY <1>9, ConvertKeeps, ConvertGaps
  <2>2. heard' = heard /\ lost' = lost /\ heard \in Nat /\ Stream \in Seq(Sound)
    BY <1>9, Typed DEF Convert, Hands
  <2>3. NoGap(heard', Stream', lost')
    <3>1. End = Ahead(heard, Stream, Len(Stream) + 1)
      BY DEF End
    <3>2. NoGap(heard, Stream \o batch', lost)
      BY <1>2, <2>1, <2>2, <3>1, Appended, Z3
    <3> QED BY <2>1, <2>2, <3>2, Zenon
  <2> QED BY <2>1, <2>2, <2>3 DEF GapsKept
<1>10. CASE QueueAudio
  <2>1. Stream' = Stream /\ heard' = heard /\ dup' = dup /\ next' = next /\ lost' = lost
    BY <1>10, QueueAudioKeeps DEF QueueAudio
  <2>2. End' = End
    BY <2>1 DEF End
  <2> QED BY <1>2, <2>1, <2>2 DEF GapsKept
<1>11. CASE Drain
  <2>1. NoGap(heard', Stream', lost) /\ End' = End
    BY <1>2, <1>11, DrainKeeps
  <2>2. dup' = dup /\ next' = next /\ lost' = lost
    BY <1>11 DEF Drain
  <2> QED BY <1>2, <2>1, <2>2 DEF GapsKept
<1>12. CASE SetVolume \/ UNCHANGED queueVars
  BY <1>6, <1>12 DEF SetVolume, queueVars
<1>13. ASSUME NEW r \in setup.rates, SetFrequency(r) PROVE GapsKept'
  BY <1>6, <1>13 DEF SetFrequency
<1>14. CASE SetForward
  BY <1>14 DEF SetForward
<1> QED
  BY <1>7, <1>8, <1>9, <1>10, <1>11, <1>12, <1>13, <1>14 DEF QueueNext

-----------------------------------------------------------------------------
(* Latency *)

\* No chunk is longer than the longest.
LEMMA LongestBounds ==
  ASSUME QueueTypeOK
  PROVE  /\ Longest \in Nat
         /\ \A n \in setup.chunks, r \in setup.rates : Kept(n, r) * FrameBytes <= Longest
<1> DEFINE S == {Kept(n, r) : n \in setup.chunks, r \in setup.rates}
           b == (Dup + setup.last) * OutRate
<1>1. /\ setup \in Setups /\ setup.last \in Nat /\ Dup \in Nat
      /\ OutRate \in Nat \ {0} /\ FrameBytes \in Nat \ {0}
      /\ setup.chunks \subseteq 1 .. setup.last /\ setup.chunks # {} /\ setup.rates # {}
  BY Typed, Middles, FrameBytesType, SetupsAssumption, OutputAssumption
<1>2. b \in Nat
  BY <1>1
<1>3. ASSUME NEW n \in setup.chunks, NEW r \in setup.rates
      PROVE  Kept(n, r) \in Nat /\ Kept(n, r) <= b
  <2> DEFINE k == Kept(n, r)
             h == Skipped(r)
  <2>1. n \in Nat \ {0} /\ n <= setup.last /\ r \in Nat \ {0} /\ h \in Nat
    BY <1>1, SetupTypes, Bounds
  <2>2. k \in Nat \ {0} /\ (k + 2 * h) * r <= (Dup + n) * OutRate
    BY <1>1, <2>1, Kepts
  <2> HIDE DEF k, h
  <2>3. (Dup + n) * OutRate <= b
    BY <1>1, <2>1
  <2>4. (k + 2 * h) * r = k * r + 2 * (h * r) /\ h * r \in Nat /\ k * r \in Nat
    BY <2>1, <2>2
  <2>5. k <= k * r
    BY <2>1, <2>2
  <2>6. (Dup + n) * OutRate \in Nat
    BY <1>1, <2>1
  <2> HIDE DEF b
  <2>7. k <= b
    BY <1>2, <2>1, <2>2, <2>3, <2>4, <2>5, <2>6
  <2> QED BY <2>2, <2>7 DEF k
<1> HIDE DEF b
<1>4. S \in SUBSET Nat /\ S # {} /\ \A x \in S : x <= b
  BY <1>1, <1>3
<1>5. \A n \in setup.chunks, r \in setup.rates : Kept(n, r) \in S
  OBVIOUS
<1>6. Longest = Max(S) * FrameBytes
  BY DEF Longest, Kept
<1> HIDE DEF S
<1>7. Max(S) \in S /\ \A x \in S : x <= Max(S)
  BY <1>2, <1>4, LargestNatural
<1>8. ASSUME NEW n \in setup.chunks, NEW r \in setup.rates
      PROVE  Kept(n, r) * FrameBytes <= Longest
  <2>1. Kept(n, r) \in Nat /\ Max(S) \in Nat /\ Kept(n, r) <= Max(S)
    BY <1>3, <1>4, <1>5, <1>7
  <2> QED BY <1>1, <1>6, <2>1
<1>9. Longest \in Nat
  <2> DEFINE m == Max(S)
  <2>1. m \in Nat
    BY <1>4, <1>7
  <2> HIDE DEF m
  <2>2. m * FrameBytes \in Nat
    BY <1>1, <2>1
  <2> QED BY <1>6, <2>2 DEF m
<1> QED BY <1>8, <1>9

LEMMA HighestRate ==
  ASSUME QueueTypeOK
  PROVE  /\ Max(setup.rates) \in Nat
         /\ \A r \in setup.rates : r \in Nat \ {0} /\ r <= Max(setup.rates)
<1>1. /\ setup.rates \in SUBSET Nat /\ setup.rates # {} /\ OutRate \in Nat
      /\ \A r \in setup.rates : r \in Nat \ {0} /\ r <= OutRate
  BY Typed, SetupsAssumption, OutputAssumption
<1>2. Max(setup.rates) \in setup.rates /\ \A r \in setup.rates : r <= Max(setup.rates)
  BY <1>1, LargestNatural
<1> QED BY <1>1, <1>2

\* From the deepest halving on nothing is left of a chunk.
LEMMA DeepestPower ==
  ASSUME NEW L \in Nat,
         NEW d, d = CHOOSE k \in 0 .. L : 2 ^ k > L /\ \A j \in 0 .. k - 1 : 2 ^ j <= L
  PROVE  d \in Nat /\ 2 ^ d > L /\ \A j \in 0 .. d - 1 : 2 ^ j <= L
<1>1. \E k \in 0 .. L : 2 ^ k > L /\ \A j \in 0 .. k - 1 : 2 ^ j <= L
  BY FirstPower
<1> QED BY <1>1

LEMMA DeepestHalves ==
  ASSUME QueueTypeOK
  PROVE  Deepest \in Nat /\ 2 ^ Deepest > Longest
<1>1. Longest \in Nat
  BY LongestBounds
<1> QED BY <1>1, DeepestPower, Zenon DEF Deepest

LEMMA SameBound ==
  ASSUME QueueTypeOK, setup' = setup
  PROVE  Longest' = Longest /\ Deepest' = Deepest
<1>1. Longest' = Longest
  <2> DEFINE S(u) == {((Dup + n) * OutRate) \div r - Discarded(r) : n \in u.chunks, r \in u.rates}
  <2>1. S(setup') = S(setup)
    OBVIOUS
  <2>2. Longest = Max(S(setup)) * FrameBytes
    BY DEF Longest
  <2>3. Longest' = Max(S(setup')) * FrameBytes
    BY DEF Longest, FrameBytes, Discarded
  <2> HIDE DEF S
  <2> QED BY <2>1, <2>2, <2>3
<1>2. Longest \in Nat
  BY LongestBounds
<1> DEFINE d == Deepest
           e == Deepest'
<1>3. d \in Nat /\ 2 ^ d > Longest /\ \A j \in 0 .. d - 1 : 2 ^ j <= Longest
  BY <1>2, DeepestPower, Zenon DEF Deepest
<1>4. e \in Nat /\ 2 ^ e > Longest' /\ \A j \in 0 .. e - 1 : 2 ^ j <= Longest'
  <2>1. Longest' \in Nat
    BY <1>1, <1>2
  <2> QED BY <2>1, DeepestPower, Zenon DEF Deepest
<1> HIDE DEF d, e
<1>5. \A k \in Nat : 2 ^ k \in Nat
  BY PowerType
<1>6. ~ (d < e)
  <2> SUFFICES ASSUME d < e PROVE FALSE
    OBVIOUS
  <2>1. d \in 0 .. e - 1
    BY <1>3, <1>4
  <2> QED BY <1>1, <1>2, <1>3, <1>4, <1>5, <2>1
<1>7. ~ (e < d)
  <2> SUFFICES ASSUME e < d PROVE FALSE
    OBVIOUS
  <2>1. e \in 0 .. d - 1
    BY <1>3, <1>4
  <2> QED BY <1>1, <1>2, <1>3, <1>4, <1>5, <2>1
<1>8. d = e
  BY <1>3, <1>4, <1>6, <1>7
<1> QED BY <1>1, <1>8 DEF d, e

\* A chunk that is converted at depth k is divided by 2^k; either nothing is
\* left of it, or k frames of a tenth of a second bound what was queued.
LEMMA ConvertLatency ==
  ASSUME QueueTypeOK, LatencyBounded, NEW n \in setup.chunks, Convert(n)
  PROVE  Len(Stream') <= Deepest * Max(setup.rates) * FrameBytes + Longest
<1> DEFINE v == Trimmed(Joined(n), rate)
           k == SkipFactor(Len(queue), rate)
           c == Kept(n, rate) * FrameBytes
           q == Len(queue)
           M == Max(setup.rates)
           f == q \div FrameBytes
<1>1. /\ batch = << >> /\ next + n - 1 <= setup.last /\ queue' = queue
      /\ batch' = Decimated(v, k)
  BY DEF Convert, Hands
<1>2. v \in Seq(Byte) /\ Len(v) = c /\ c \in Nat
  BY <1>1, ChunkBytes
<1>3. c <= Longest /\ Longest \in Nat /\ rate \in setup.rates
  BY LongestBounds, Typed
<1>4. /\ queue \in Seq(Sound) /\ q \in Nat /\ FrameBytes \in Nat \ {0}
      /\ rate \in Nat \ {0} /\ M \in Nat /\ rate <= M
  BY Typed, FrameBytesType, HighestRate
<1>5. f \in Nat /\ q < FrameBytes * f + FrameBytes
  <2> HIDE DEF q
  <2> QED BY <1>4, Division
<1>6. k \in Nat /\ f < rate * k + rate
  <2>1. k = f \div rate
    BY DEF SkipFactor
  <2> HIDE DEF f, k
  <2> QED BY <1>4, <1>5, <2>1, Division
<1> HIDE DEF v, k, c
<1>7. Stream = queue
  BY <1>1, <1>4 DEF Stream
<1>8. batch' \in Seq(Byte) /\ Len(batch') = c \div 2 ^ k
  BY <1>1, <1>2, <1>6, DecimatedBytes
<1>9. 2 ^ k \in Nat \ {0} /\ 2 ^ Deepest \in Nat \ {0} /\ Deepest \in Nat /\ 2 ^ Deepest > Longest
  BY <1>6, DeepestHalves, PowerType
<1>10. Len(Stream') = q + Len(batch')
  <2>1. Byte \subseteq Sound
    BY Typed DEF Byte, Sound
  <2>2. batch' \in Seq(Sound) /\ Stream' = queue \o batch'
    BY <1>1, <1>8, <2>1 DEF Stream
  <2> QED BY <1>4, <2>2
<1> HIDE DEF q, f, M
<1>11. CASE k >= Deepest
  <2>1. 2 ^ Deepest <= 2 ^ k
    BY <1>6, <1>9, <1>11, PowerGrows
  <2> DEFINE p == 2 ^ k
             e == 2 ^ Deepest
  <2>2. p \in Nat \ {0} /\ e \in Nat \ {0} /\ e <= p /\ e > Longest
    BY <1>9, <2>1
  <2> HIDE DEF p, e
  <2>3. p * 0 <= c /\ c < p * 0 + p
    BY <1>2, <1>3, <2>2
  <2>4. c \div p = 0
    BY <1>2, <2>2, <2>3, Quotient
  <2>5. Len(Stream') = q
    BY <1>4, <1>8, <1>10, <2>4 DEF p
  <2>6. q <= Deepest * M * FrameBytes + Longest
    BY <1>7 DEF LatencyBounded, q, M
  <2> QED BY <2>5, <2>6 DEF M
<1>12. CASE ~ (k >= Deepest)
  <2>1. Len(batch') <= Longest /\ Len(batch') \in Nat
    <3> DEFINE p == 2 ^ k
    <3>1. p \in Nat \ {0}
      BY <1>9
    <3> HIDE DEF p
    <3>2. c \div p \in Nat /\ p * (c \div p) <= c
      BY <1>2, <3>1, Division
    <3> DEFINE x == c \div p
    <3> HIDE DEF x
    <3>3. x \in Nat /\ p * x <= c
      BY <3>2 DEF x
    <3>4. x <= p * x
      BY <3>1, <3>3
    <3>5. p * x \in Nat
      BY <3>1, <3>3
    <3>6. x <= Longest
      BY <1>2, <1>3, <3>3, <3>4, <3>5
    <3> QED BY <1>8, <3>3, <3>6 DEF x, p
  <2>2. f + 1 <= Deepest * M
    <3>1. rate * k + rate = rate * (k + 1)
      BY <1>4, <1>6
    <3>2. rate * (k + 1) <= rate * Deepest
      BY <1>4, <1>6, <1>9, <1>12
    <3>3. rate * Deepest <= Deepest * M
      BY <1>4, <1>9
    <3>4. rate * k \in Nat /\ rate * (k + 1) \in Nat /\ rate * Deepest \in Nat /\ Deepest * M \in Nat
      BY <1>4, <1>6, <1>9
    <3> QED BY <1>4, <1>5, <1>6, <3>1, <3>2, <3>3, <3>4
  <2>3. q <= Deepest * M * FrameBytes
    <3> DEFINE g == Deepest * M
    <3>1. g \in Nat /\ f + 1 <= g
      BY <1>4, <1>9, <2>2
    <3> HIDE DEF g
    <3>2. FrameBytes * f + FrameBytes = (f + 1) * FrameBytes
      BY <1>4, <1>5
    <3>3. (f + 1) * FrameBytes <= g * FrameBytes
      BY <1>4, <1>5, <3>1
    <3>4. (f + 1) * FrameBytes \in Nat /\ g * FrameBytes \in Nat
      BY <1>4, <1>5, <3>1
    <3>5. q <= g * FrameBytes
      BY <1>4, <1>5, <3>2, <3>3, <3>4
    <3> QED BY <3>5 DEF g
  <2> DEFINE B == Deepest * M * FrameBytes
  <2>4. B \in Nat
    BY <1>4, <1>9
  <2>5. Len(Stream') <= B + Longest
    <3> HIDE DEF B
    <3>1. q <= B
      BY <2>3 DEF B
    <3> QED BY <1>3, <1>4, <1>10, <2>1, <2>4, <3>1
  <2> QED BY <2>5 DEF M
<1> QED BY <1>11, <1>12

LEMMA LatencyStep ==
  ASSUME QueueTypeOK, LatencyBounded, [QueueNext]_queueVars
  PROVE  LatencyBounded'
<1>1. setup' = setup
  BY SameSetup
<1>2. Longest' = Longest /\ Deepest' = Deepest
  BY <1>1, SameBound
<1>3. FrameBytes' = FrameBytes
  BY DEF FrameBytes
<1> DEFINE B == Deepest * Max(setup.rates) * FrameBytes + Longest
<1>4. B' = B
  BY <1>1, <1>2, <1>3
<1>5. B \in Nat
  BY LongestBounds, DeepestHalves, HighestRate, FrameBytesType
<1>6. Len(Stream) <= B
  BY DEF LatencyBounded
<1> SUFFICES Len(Stream') <= B
  BY <1>4 DEF LatencyBounded
<1>7. queue \in Seq(Sound) /\ batch \in Seq(Sound) /\ Stream \in Seq(Sound)
  BY Typed
<1> HIDE DEF B
<1>8. CASE UNCHANGED <<queue, batch>>
  BY <1>6, <1>8 DEF Stream
<1>9. ASSUME NEW n \in setup.chunks, Convert(n) PROVE Len(Stream') <= B
  BY <1>9, ConvertLatency DEF B
<1>10. CASE QueueAudio
  BY <1>6, <1>10, QueueAudioKeeps
<1>11. CASE Drain
  <2> DEFINE n == Min({Len(queue), setup.device * FrameBytes})
  <2>1. n \in 0 .. Len(queue)
    BY DrainTakes
  <2>2. queue' = After(queue, n) /\ batch' = batch
    BY <1>11 DEF Drain, After
  <2> HIDE DEF n
  <2>3. Stream' = After(Stream, n)
    <3>1. After(queue, n) \o batch = After(queue \o batch, n)
      BY <1>7, <2>1, RestOfBoth
    <3> QED BY <2>2, <3>1 DEF Stream
  <2>4. Len(Stream) \in Nat /\ n \in 0 .. Len(Stream)
    <3>1. Len(Stream) = Len(queue) + Len(batch) /\ Len(queue) \in Nat /\ Len(batch) \in Nat
      BY <1>7 DEF Stream
    <3> QED BY <2>1, <3>1
  <2>5. Len(After(Stream, n)) = Len(Stream) - n
    BY <1>7, <2>4, RestOf
  <2> QED BY <1>5, <1>6, <2>1, <2>3, <2>4, <2>5
<1>12. ASSUME NEW n \in setup.chunks, Ignore(n) \/ Fail(n) PROVE UNCHANGED <<queue, batch>>
  BY <1>12 DEF Ignore, Fail, Hands
<1>13. CASE SetVolume \/ SetForward \/ UNCHANGED queueVars
  BY <1>8, <1>13 DEF SetVolume, SetForward, queueVars
<1>14. ASSUME NEW r \in setup.rates, SetFrequency(r) PROVE UNCHANGED <<queue, batch>>
  BY <1>14 DEF SetFrequency
<1> QED
  BY <1>8, <1>9, <1>10, <1>11, <1>12, <1>13, <1>14 DEF QueueNext

-----------------------------------------------------------------------------
(* Theorems *)

LEMMA LatestIsAhead ==
  ASSUME NEW i
  PROVE  Latest(i) = Ahead(heard, Stream, i)
BY DEF Latest, Ahead

LEMMA InitLatency ==
  ASSUME QueueInit
  PROVE  LatencyBounded
<1>1. QueueTypeOK
  BY InitTyped
<1>2. Len(Stream) = 0
  BY DEF QueueInit, Stream
<1> DEFINE D == Deepest
           M == Max(setup.rates)
<1>3. D \in Nat /\ M \in Nat /\ FrameBytes \in Nat /\ Longest \in Nat
  BY <1>1, LongestBounds, DeepestHalves, HighestRate, FrameBytesType
<1> HIDE DEF D, M
<1>4. D * M \in Nat
  BY <1>3
<1>5. (D * M) * FrameBytes \in Nat
  BY <1>3, <1>4
<1> QED BY <1>2, <1>3, <1>5 DEF LatencyBounded, D, M

\* The types hold whatever the game does.
LEMMA Types == QueueSpec => []QueueTypeOK
<1>1. QueueInit => QueueTypeOK
  BY InitTyped
<1>2. QueueTypeOK /\ [QueueNext]_queueVars => QueueTypeOK'
  BY TypeStep
<1> QED BY <1>1, <1>2, PTL DEF QueueSpec

LEMMA StreamAlwaysKept ==
  ASSUME Paces
  PROVE  QueueSpec => []StreamKept
<1>1. QueueInit => StreamKept
  BY InitKept
<1>2. QueueTypeOK /\ StreamKept /\ [QueueNext]_queueVars => StreamKept'
  BY StreamStep
<1> QED BY <1>1, <1>2, Types, PTL DEF QueueSpec

LEMMA GapsAlwaysKept ==
  ASSUME Paces, Reaches
  PROVE  QueueSpec => []GapsKept
<1>1. QueueInit => GapsKept
  BY InitKept
<1>2. QueueTypeOK /\ StreamKept /\ GapsKept /\ [QueueNext]_queueVars => GapsKept'
  BY GapsStep
<1> QED BY <1>1, <1>2, Types, StreamAlwaysKept, PTL DEF QueueSpec

\* The buffers that queue_samples, SDL_ConvertAudio and SDL_QueueAudio hand on
\* keep their type, and what is played never goes back, for every length of
\* the overlap and of a chunk and every rate of the game's, of a game that
\* paces itself: also the overlap kept over a mute, a chunk too short, a
\* conversion that fails or a new rate holds nothing that was played before.
THEOREM StreamInOrder ==
  ASSUME Paces
  PROVE  QueueSpec => []StreamInv
<1>1. QueueTypeOK /\ StreamKept => StreamInv
  BY LatestIsAhead DEF StreamInv, NeverBack, StreamKept, Ordered
<1> QED BY <1>1, Types, StreamAlwaysKept, PTL

\* Left samples are played on the left: with a game that paces itself every
\* buffer that is appended and every one the device takes is whole frames.
THEOREM ChannelsStay ==
  ASSUME Paces
  PROVE  QueueSpec => []ChannelsKept
<1>1. StreamKept => ChannelsKept
  BY DEF ChannelsKept, LeftOnLeft, StreamKept, Paired
<1> QED BY <1>1, StreamAlwaysKept, PTL

\* Half an overlap dropped at each end joins the chunks exactly: with a game
\* that paces itself, and rates with which the rounding at the end of a chunk
\* reaches its last frame, no frame of a chunk that was taken is skipped.
THEOREM NothingIsSkipped ==
  ASSUME Paces, Reaches
  PROVE  QueueSpec => []Seamless
<1>1. QueueTypeOK /\ GapsKept => Seamless
  <2> SUFFICES ASSUME QueueTypeOK, GapsKept, ~ setup.turbo PROVE Seamless
    BY DEF Seamless
  <2>1. \A i \in 1 .. Len(Stream) : (Latest(i) + 1) .. (Stream[i].frame - 1) \subseteq lost
    BY LatestIsAhead DEF GapsKept, NoGap
  <2>2. (Latest(Len(Stream) + 1) + 1) .. (next - 1)
          \subseteq lost \union {dup[i] : i \in Middle + 1 .. Dup}
    <3>1. Latest(Len(Stream) + 1) = End
      BY LatestIsAhead DEF End
    <3> QED BY <3>1 DEF GapsKept
  <2>3. {dup[i] : i \in Middle + 1 .. Dup} \subseteq {dup[i] : i \in 1 .. Dup}
    BY Middles
  <2> QED BY <2>1, <2>2, <2>3 DEF Seamless
<1> QED BY <1>1, Types, GapsAlwaysKept, PTL

\* "Keeps latency bounded" (the comment on the decimation): whatever the game
\* produces, with fast-forward too and with a device that stalls, no more is
\* queued than the depth at which nothing is left of a chunk, and a chunk.
THEOREM LatencyStaysBounded == QueueSpec => []LatencyBounded
<1>1. QueueInit => LatencyBounded
  BY InitLatency
<1>2. QueueTypeOK /\ LatencyBounded /\ [QueueNext]_queueVars => LatencyBounded'
  BY LatencyStep
<1> QED BY <1>1, <1>2, Types, PTL DEF QueueSpec
=============================================================================
