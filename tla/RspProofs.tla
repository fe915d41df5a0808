----------------------------- MODULE RspProofs ------------------------------
(***************************************************************************)
(* Proofs about the two microcodes: the walk of the command list by        *)
(* aspMain, the decoding of pictures by njpgdspMain, and the frames of     *)
(* audio the commands make.                                                *)
(*                                                                         *)
(* The list: for every list the game can write, every length of the buffer *)
(* and every interleaving with pictures and with lists that are none of    *)
(* the game's.  RunsTheList is not inductive: that the next command        *)
(* executed is the next one of the list depends on what the rest of the    *)
(* chunk holds and on the two counts.  WalkInv says so for each control    *)
(* point.                                                                  *)
(*                                                                         *)
(* The pictures: for every number of MCUs and every order of tasks.  That  *)
(* a picture is right in the end depends on every loop's place in its      *)
(* pipeline; JpegInv says for each stage what is in DMEM and in RDRAM.     *)
(*                                                                         *)
(* The frames: for any number of voices, any pitch, wave form, loop and    *)
(* envelope and any number of frames.  FrameInv says for each command of a *)
(* frame's list what the commands before it have left in the buffers, the  *)
(* registers and the blocks of the voices, and that between two frames     *)
(* each block is what the voice's next frame continues.  It is stated of   *)
(* the rest of the list (ToBook, ToLoad, ... Behind, Ending); Takes, from  *)
(* RunsTheList, says that a step takes the first command of it.  The       *)
(* decoder and the ramps are recursive functions and the list is a fold;   *)
(* the induction theorems of the library cannot be instantiated here, so   *)
(* SameRun and FlattensExists take the least place where the claim fails   *)
(* (LeastNatural).                                                         *)
(***************************************************************************)
EXTENDS Rsp, TLAPS, FiniteSetTheorems, SequenceTheorems, WellFoundedInduction

-----------------------------------------------------------------------------
(* The command list *)

\* Slots slot .. slot+n-1 of the buffer hold the commands behind the first k.
Holds(slot, n, k) ==
    /\ slot >= 1 /\ slot + n - 1 <= ChunkMax
    /\ \A s \in slot..(slot + n - 1) : cmdbuf[s] = list[k + 1 + s - slot]

ListTypes ==
    /\ list \in Seq(Command) /\ ran \in Seq(Command)
    /\ cmdbuf \in [1..ChunkMax -> Command \union {Stale}]
    /\ r27 \in Int /\ r28 \in Nat /\ r29 \in Nat /\ r30 \in Int
    /\ at \in {"idle", "refill", "fetch", "next"}
    /\ exit \in {"none", "Broke", "UnhandledJumpTarget", "Lost"}

\* What has run is the beginning of the list.
Prefix ==
    /\ Len(ran) <= Len(list)
    /\ \A i \in 1..Len(ran) : ran[i] = list[i]

\* The counts between two commands.
Counted == r28 + r27 = Len(list) /\ Len(ran) = r28 /\ exit = "none"

WalkInv ==
    Walkable =>
        /\ Prefix
        /\ at = "idle"   => exit # "Lost" /\ exit # "none" /\ (exit = "Broke" => ran = list)
        /\ at = "refill" => Counted /\ r27 > 0
        /\ at = "fetch"  => Counted /\ r30 >= 1 /\ r27 >= r30 /\ Holds(r29, r30, r28)
        /\ at = "next"   => Counted /\ r30 >= 0 /\ r27 >= r30 /\ r29 >= 1 /\ Holds(r29 + 1, r30, r28)

ListInv == ListTypes /\ WalkInv

SongInv == tasks \in 0..MaxTasks /\ song \in [Voice -> [n : -1..tasks, env : Envelope]]

\* The first state has an empty list, and no voice plays.
LEMMA InitInv == RspInit => ListInv /\ SongInv
<1> SUFFICES ASSUME RspInit PROVE ListInv /\ SongInv
  OBVIOUS
<1> USE DEF RspInit, ListInit, AudioInit
<1>1. ListTypes
  BY ChunkAssumption DEF ListTypes
<1>2. WalkInv
  BY DEF WalkInv, Walkable
<1>3. SongInv
  BY RspAssumption, EnvelopeAssumption DEF SongInv, Silent
<1> QED BY <1>1, <1>2, <1>3 DEF ListInv

\* A task starts at the beginning of its list, whatever ran before.
LEMMA BeginStep ==
    ASSUME ListInv, NEW l \in Seq(Command), NEW dpWait \in BOOLEAN, BeginList(l, dpWait)
    PROVE  ListInv'
<1> USE DEF BeginList
<1>1. ListTypes'
  <2>1. cmdbuf' \in [1..ChunkMax -> Command \union {Stale}]
    BY ChunkAssumption DEF ListInv, ListTypes
  <2>2. Min2(Len(l), ChunkMax) \in Int
    BY ChunkAssumption DEF Min2
  <2>3. r27' \in Int /\ r28' \in Nat /\ r29' \in Nat /\ r30' \in Int
    BY <2>2 DEF ListInv, ListTypes
  <2>4. list' \in Seq(Command) /\ ran' \in Seq(Command)
    OBVIOUS
  <2> QED BY <2>1, <2>3, <2>4 DEF ListTypes
<1>2. WalkInv'
  <2> SUFFICES ASSUME Walkable' PROVE Prefix' /\ Counted' /\ r27' > 0
    BY DEF WalkInv
  <2>1. l # <<>> /\ Len(l) > 0
    BY DEF Walkable
  <2> QED BY <2>1 DEF Prefix, Counted
<1> QED BY <1>1, <1>2 DEF ListInv

\* The chunk loaded is the next part of the list, as much as the buffer holds.
LEMMA RefillStep == ASSUME ListInv, Refill PROVE ListInv'
<1> DEFINE chunk == Min2(r27, ChunkMax)
<1> USE DEF Refill
<1>1. /\ chunk \in Nat /\ chunk <= r27 /\ chunk <= ChunkMax
      /\ r27 > 0 => chunk >= 1
  BY ChunkAssumption DEF Min2, ListInv, ListTypes
<1>2. ListTypes'
  <2>1. \A s \in 1..ChunkMax : s <= chunk /\ r28 + s <= Len(list) => list[r28 + s] \in Command
    BY DEF ListInv, ListTypes
  <2>2. cmdbuf' \in [1..ChunkMax -> Command \union {Stale}]
    BY <2>1 DEF ListInv, ListTypes
  <2> QED BY <1>1, <2>2 DEF ListInv, ListTypes
<1>3. WalkInv'
  <2> SUFFICES ASSUME Walkable'
               PROVE  Prefix' /\ Counted' /\ r30' >= 1 /\ r27' >= r30' /\ Holds(r29, r30, r28)'
    BY DEF WalkInv
  <2>1. Prefix /\ Counted /\ r27 > 0
    BY DEF ListInv, WalkInv, Walkable
  <2>2. Prefix' /\ Counted'
    BY <2>1 DEF Prefix, Counted
  <2>3. \A s \in 1..chunk : cmdbuf'[s] = list[r28 + s]
    BY <1>1, <2>1, ChunkAssumption DEF Counted, ListInv, ListTypes
  <2>4. r29' = 1 /\ r30' = chunk /\ r28' = r28 /\ r27' = r27 /\ list' = list
    OBVIOUS
  <2>5. Holds(r29, r30, r28)'
    <3>1. \A s \in 1..chunk : cmdbuf'[s] = list'[r28' + 1 + s - r29']
      <4> SUFFICES ASSUME NEW s \in 1..chunk PROVE cmdbuf'[s] = list'[r28' + 1 + s - r29']
        OBVIOUS
      <4>1. r28' + 1 + s - r29' = r28 + s
        BY <1>1, <2>4 DEF ListInv, ListTypes
      <4> HIDE DEF chunk, Refill
      <4> QED BY <2>3, <2>4, <4>1
    <3>2. r29' >= 1 /\ r29' + r30' - 1 = chunk
      BY <1>1, <2>4
    <3> HIDE DEF chunk, Refill
    <3>3. r29' + r30' - 1 <= ChunkMax /\ r29'..(r29' + r30' - 1) = 1..chunk
      BY <1>1, <2>4, <3>2
    <3> QED BY <3>1, <3>2, <3>3 DEF Holds
  <2> QED BY <1>1, <2>1, <2>2, <2>4, <2>5
<1> QED BY <1>2, <1>3 DEF ListInv

\* In a list that can be walked the command fetched is the next one.
LEMMA FetchedIsNext ==
    ASSUME ListInv, Walkable, at = "fetch"
    PROVE  /\ r29 \in 1..ChunkMax /\ r28 + 1 \in 1..Len(list)
           /\ Fetched = list[r28 + 1] /\ Fetched \in Command
           /\ Fetched.op # "spnoop" /\ Fetched # Stale
<1>1. Counted /\ r30 >= 1 /\ r27 >= r30 /\ Holds(r29, r30, r28)
  BY DEF ListInv, WalkInv
<1>2. r29 \in 1..ChunkMax /\ cmdbuf[r29] = list[r28 + 1]
  <2>1. r29 \in Nat /\ r30 \in Int /\ r28 \in Nat /\ ChunkMax \in Nat
    BY ChunkAssumption DEF ListInv, ListTypes
  <2>2. r29 \in 1..ChunkMax /\ r29 \in r29..(r29 + r30 - 1)
    BY <1>1, <2>1 DEF Holds
  <2>3. cmdbuf[r29] = list[r28 + 1 + r29 - r29]
    BY <1>1, <2>2 DEF Holds
  <2>4. r28 + 1 + r29 - r29 = r28 + 1
    BY <2>1
  <2> QED BY <2>2, <2>3, <2>4
<1>3. r28 + 1 \in 1..Len(list)
  BY <1>1 DEF Counted, ListInv, ListTypes
<1>4. list[r28 + 1] \in Command
  BY <1>3 DEF ListInv, ListTypes
<1>5. list[r28 + 1].op # "spnoop"
  BY <1>3 DEF Walkable
<1>6. list[r28 + 1] # Stale
  BY <1>4, CommandAssumption DEF Stale
<1> QED BY <1>2, <1>3, <1>4, <1>5, <1>6 DEF Fetched

\* A command that is executed takes itself off both counts.
LEMMA ExecuteStep == ASSUME ListInv, Execute PROVE ListInv'
<1> USE DEF Execute
<1>1. Fetched \in Command
  BY DEF Fetched, ListInv, ListTypes, Ops, Stale
<1>2. ListTypes'
  BY <1>1 DEF ListInv, ListTypes
<1>3. WalkInv'
  <2> SUFFICES ASSUME Walkable'
               PROVE  /\ Prefix' /\ Counted' /\ r30' >= 0 /\ r27' >= r30' /\ r29' >= 1
                      /\ Holds(r29 + 1, r30, r28)'
    BY DEF WalkInv
  <2>1. Walkable /\ at = "fetch"
    BY DEF Walkable
  <2>2. /\ r29 \in 1..ChunkMax /\ r28 + 1 \in 1..Len(list)
        /\ Fetched = list[r28 + 1] /\ Fetched.op # "spnoop"
    BY <2>1, FetchedIsNext
  <2>3. Prefix /\ Counted /\ r30 >= 1 /\ r27 >= r30 /\ Holds(r29, r30, r28)
    BY <2>1 DEF ListInv, WalkInv
  <2>4. r30' = r30 - 1 /\ r28' = r28 + 1 /\ r27' = r27 - 1 /\ r29' = r29 /\ list' = list /\ cmdbuf' = cmdbuf
    BY <2>2
  <2>5. Len(ran') = Len(ran) + 1 /\ ran'[Len(ran) + 1] = Fetched /\ \A i \in 1..Len(ran) : ran'[i] = ran[i]
    BY <1>1 DEF ListInv, ListTypes
  <2>6. Counted'
    <3>1. r28 \in Nat /\ r27 \in Int /\ exit' = exit
      BY DEF ListInv, ListTypes
    <3> HIDE DEF Execute
    <3> QED BY <2>3, <2>4, <2>5, <3>1 DEF Counted
  <2>7. Prefix'
    BY <2>2, <2>3, <2>4, <2>5 DEF Prefix, Counted, ListInv, ListTypes
  <2>8. Holds(r29 + 1, r30, r28)'
    <3>1. \A s \in (r29 + 1)..(r29 + 1 + (r30 - 1) - 1) : cmdbuf[s] = list[(r28 + 1) + 1 + s - (r29 + 1)]
      BY <2>3 DEF Holds, ListInv, ListTypes
    <3> QED BY <2>2, <2>3, <2>4, <3>1 DEF Holds, ListInv, ListTypes
  <2> QED BY <2>2, <2>3, <2>4, <2>6, <2>7, <2>8 DEF ListInv, ListTypes
<1> QED BY <1>2, <1>3 DEF ListInv

\* A command the table has no label for ends the task in an error, but it is
\* a command of the list.
LEMMA UnhandledStep == ASSUME ListInv, Unhandled PROVE ListInv'
<1> USE DEF Unhandled
<1>1. ListTypes'
  BY DEF ListInv, ListTypes
<1>2. WalkInv'
  <2> SUFFICES ASSUME Walkable' PROVE Prefix' /\ exit' = "UnhandledJumpTarget"
    BY DEF WalkInv
  <2>1. Walkable /\ at = "fetch"
    BY DEF Walkable
  <2>2. Prefix
    BY <2>1 DEF ListInv, WalkInv
  <2>3. Fetched # Stale
    BY <2>1, FetchedIsNext
  <2> QED BY <2>2, <2>3 DEF Prefix
<1> QED BY <1>1, <1>2 DEF ListInv

\* Between commands: the rest of the chunk, the next chunk, or the end, which
\* is reached when both counts are zero.
LEMMA NextCommandStep == ASSUME ListInv, NextCommand PROVE ListInv'
<1> USE DEF NextCommand
<1>1. ListTypes'
  BY DEF ListInv, ListTypes
<1>2. WalkInv'
  <2> SUFFICES ASSUME Walkable' PROVE WalkInv'
    BY DEF WalkInv
  <2>1. /\ Prefix /\ Counted /\ r30 >= 0 /\ r27 >= r30 /\ r29 >= 1
        /\ Holds(r29 + 1, r30, r28)
    BY DEF ListInv, WalkInv, Walkable
  <2>2. Prefix'
    BY <2>1 DEF Prefix
  <2>3. CASE at' = "fetch"
    <3>1. r30 > 0 /\ exit' = exit
      BY <2>3
    <3>2. Counted'
      BY <2>1, <3>1 DEF Counted
    <3>3. Holds(r29, r30, r28)'
      BY <2>1 DEF Holds
    <3> QED BY <2>1, <2>2, <2>3, <3>1, <3>2, <3>3 DEF WalkInv, ListInv, ListTypes
  <2>4. CASE at' = "refill"
    <3>1. r27 > 0 /\ exit' = exit
      BY <2>4
    <3> QED BY <2>1, <2>2, <2>4, <3>1 DEF WalkInv, Counted
  <2>5. CASE at' = "idle"
    <3>1. r30 <= 0 /\ r27 <= 0 /\ exit' = "Broke"
      BY <2>5
    <3>2. Len(ran) = Len(list)
      BY <2>1, <3>1 DEF Counted, ListInv, ListTypes
    <3>3. ran = list
      BY <2>1, <3>2 DEF Prefix, ListInv, ListTypes
    <3> QED BY <2>2, <2>5, <3>1, <3>3 DEF WalkInv
  <2> QED BY <2>3, <2>4, <2>5
<1> QED BY <1>1, <1>2 DEF ListInv

\* A list that can be walked never has a negative rest.
LEMMA RefillNegativeStep == ASSUME ListInv, RefillNegative PROVE ListInv'
<1>1. ListTypes'
  BY DEF ListInv, ListTypes, RefillNegative
<1>2. ~Walkable
  BY DEF ListInv, ListTypes, WalkInv, RefillNegative
<1> QED BY <1>1, <1>2 DEF ListInv, WalkInv, Walkable, RefillNegative

\* Where the list of a task comes from: the game's voices or another list.
LEMMA SongStep ==
    ASSUME SongInv, tasks < MaxTasks, tasks' = tasks + 1
    PROVE  /\ \A on \in SUBSET Voice, env \in Envelope, dpWait \in BOOLEAN :
                 FrameTask(on, env, dpWait) => SongInv' /\ FrameList(song') \in Seq(Command)
           /\ song' = Playing => SongInv'
<1>1. tasks' \in 0..MaxTasks /\ tasks \in Nat
  BY RspAssumption DEF SongInv
<1>2. ASSUME NEW v \in Voice PROVE Playing[v] \in [n : -1..tasks, env : Envelope]
  <2>1. Silent \in [n : -1..tasks, env : Envelope]
    BY <1>1, EnvelopeAssumption DEF Silent
  <2>2. song[v] \in [n : -1..tasks, env : Envelope]
    BY DEF SongInv
  <2> QED BY <2>1, <2>2 DEF Playing
<1>3. ASSUME NEW on \in SUBSET Voice, NEW env \in Envelope, NEW dpWait \in BOOLEAN, FrameTask(on, env, dpWait)
      PROVE  song' \in [Voice -> [n : -1..tasks', env : Envelope]]
  <2>1. ASSUME NEW v \in Voice
        PROVE  song'[v] \in [n : -1..tasks', env : Envelope]
    <3>1. Playing[v] \in [n : -1..tasks, env : Envelope]
      BY <1>2
    <3>2. song'[v] = CASE v \notin on -> Silent
                       [] v \in on /\ Playing[v].n < 0 -> [n |-> 0, env |-> env]
                       [] OTHER -> [Playing[v] EXCEPT !.n = @ + 1]
      BY <1>3 DEF FrameTask
    <3>3. CASE v \notin on
      BY <1>1, <3>2, <3>3, EnvelopeAssumption DEF Silent
    <3>4. CASE v \in on /\ Playing[v].n < 0
      BY <1>1, <3>2, <3>4
    <3>5. CASE v \in on /\ ~(Playing[v].n < 0)
      BY <1>1, <3>1, <3>2, <3>5
    <3> QED BY <3>3, <3>4, <3>5
  <2>2. song' = [v \in Voice |-> song'[v]]
    BY <1>3 DEF FrameTask
  <2> QED BY <2>1, <2>2
<1>4. ASSUME song' \in [Voice -> [n : -1..tasks', env : Envelope]]
      PROVE  SongInv' /\ FrameList(song') \in Seq(Command)
  <2>1. song' \in Songs
    BY <1>1, <1>4, RspAssumption DEF Songs
  <2> QED BY <1>1, <1>4, <2>1, FrameAssumption DEF SongInv
<1>5. ASSUME song' = Playing PROVE song' \in [Voice -> [n : -1..tasks', env : Envelope]]
  <2>1. \A v \in Voice : song'[v] \in [n : -1..tasks', env : Envelope]
    <3>1. (-1..tasks) \subseteq (-1..tasks')
      BY <1>1
    <3> QED BY <1>2, <1>5, <3>1
  <2>2. song' = [v \in Voice |-> song'[v]]
    BY <1>5 DEF Playing, SongInv
  <2> QED BY <2>1, <2>2
<1> QED BY <1>3, <1>4, <1>5

\* Every step of the RSP keeps the invariant.
LEMMA StepInv == ListInv /\ SongInv /\ [Next]_rspVars => (ListInv /\ SongInv)'
<1> SUFFICES ASSUME ListInv, SongInv, [Next]_rspVars PROVE (ListInv /\ SongInv)'
  OBVIOUS
<1>1. ASSUME UNCHANGED listVars PROVE ListInv'
  BY <1>1 DEF listVars, ListInv, ListTypes, WalkInv, Walkable, Prefix, Counted, Holds
<1>2. ASSUME UNCHANGED <<song, tasks>> PROVE SongInv'
  BY <1>2 DEF SongInv
<1>3. CASE AudioBegins
  <2>1. tasks < MaxTasks /\ tasks' = tasks + 1
    BY <1>3 DEF AudioBegins, Dispatched
  <2>2. PICK dpWait \in BOOLEAN :
          \/ \E on \in SUBSET Voice, env \in Envelope : FrameTask(on, env, dpWait)
          \/ \E l \in OddLists : OddTask(l, dpWait)
    BY <1>3 DEF AudioBegins
  <2>3. ASSUME NEW on \in SUBSET Voice, NEW env \in Envelope, FrameTask(on, env, dpWait)
        PROVE  (ListInv /\ SongInv)'
    <3>1. SongInv' /\ FrameList(song') \in Seq(Command)
      BY <2>1, <2>3, SongStep
    <3>2. BeginList(FrameList(song'), dpWait)
      BY <2>3 DEF FrameTask
    <3> QED BY <3>1, <3>2, BeginStep
  <2>4. ASSUME NEW l \in OddLists, OddTask(l, dpWait)
        PROVE  (ListInv /\ SongInv)'
    <3>1. ListInv'
      BY <2>4, BeginStep, RspAssumption DEF OddTask
    <3>2. SongInv'
      BY <2>1, <2>4, SongStep DEF OddTask
    <3> QED BY <3>1, <3>2
  <2> QED BY <2>2, <2>3, <2>4
<1>4. CASE PictureBegins
  <2> USE <1>4 DEF PictureBegins
  <2>1. ListTypes'
    BY DEF ListInv, ListTypes
  <2>2. at = "idle"
    BY DEF Dispatched, Idle
  <2>3. WalkInv'
    BY <2>2 DEF ListInv, WalkInv, Walkable, Prefix
  <2>4. tasks' \in 0..MaxTasks /\ (-1..tasks) \subseteq (-1..tasks')
    BY RspAssumption DEF SongInv, Dispatched
  <2>5. song' \in [Voice -> [n : -1..tasks', env : Envelope]]
    BY <2>4 DEF SongInv
  <2> QED BY <2>1, <2>3, <2>4, <2>5 DEF ListInv, SongInv
<1>5. CASE UnknownTask
  <2>1. tasks' \in 0..MaxTasks /\ (-1..tasks) \subseteq (-1..tasks') /\ song' = song
    BY <1>5, RspAssumption DEF UnknownTask, Dispatched, SongInv, audioVars
  <2>2. song' \in [Voice -> [n : -1..tasks', env : Envelope]]
    BY <2>1 DEF SongInv
  <2> QED BY <1>1, <1>5, <2>1, <2>2 DEF UnknownTask, SongInv
<1>6. CASE Run
  <2>1. UNCHANGED <<song, tasks>>
    BY <1>6 DEF Run
  <2>2. CASE ListStep
    BY <1>2, <2>1, <2>2, RefillStep, UnhandledStep, NextCommandStep, RefillNegativeStep DEF ListStep
  <2>3. CASE AudioCommand
    <3>1. Execute
      BY <2>3 DEF AudioCommand, Command_, ClearBuff, LoadBuff, SaveBuff, LoadAdpcm, SetLoop, SetVol, SetRate,
         DmemMove, Adpcm, Resample, EnvMixer, Mixer, InterleaveBuff, SpNoop
    <3> QED BY <1>2, <2>1, <3>1, ExecuteStep
  <2>4. CASE UNCHANGED listVars
    BY <1>1, <1>2, <2>1, <2>4
  <2> QED BY <1>6, <2>2, <2>3, <2>4 DEF Run
<1>7. CASE UNCHANGED rspVars
  BY <1>1, <1>2, <1>7 DEF rspVars, audioVars
<1> QED BY <1>3, <1>4, <1>5, <1>6, <1>7 DEF Next

\* However long the buffer, whatever the lists and whatever runs between
\* them: what has run is the beginning of the list, a task that ends normally
\* has run all of it and nothing else is ever executed (RunsTheList,
\* aspMain.cpp:310-416).
THEOREM ListIsRun == Spec => []RunsTheList
<1>1. ListInv => RunsTheList
  <2> SUFFICES ASSUME ListInv, Walkable
               PROVE  /\ Len(ran) <= Len(list) /\ ran = SubSeq(list, 1, Len(ran))
                      /\ exit = "Broke" => ran = list
                      /\ exit # "Lost"
    BY DEF RunsTheList
  <2>1. Prefix
    BY DEF ListInv, WalkInv
  <2>2. ran = SubSeq(list, 1, Len(ran))
    BY <2>1 DEF Prefix, ListInv, ListTypes
  <2>3. at # "idle" => exit = "none"
    BY DEF ListInv, ListTypes, WalkInv, Counted
  <2>4. at = "idle" => exit # "Lost" /\ (exit = "Broke" => ran = list)
    BY DEF ListInv, WalkInv
  <2> QED BY <2>1, <2>2, <2>3, <2>4 DEF Prefix
<1> QED BY InitInv, StepInv, <1>1, PTL DEF Spec

-----------------------------------------------------------------------------
(* The pictures.  What the microcode has in memory at each of its stages:    *)
(* the MCU it decodes is one ahead of what it has written and one behind     *)
(* what it has loaded, and in each loop the block or row it works on is one  *)
(* ahead of what is stored and one behind what is loaded.                    *)

\* The MCUs begun, and the one being decoded.
Begun == count.all - count.left
Current == Begun - 1

\* A block as it is loaded, multiplied by its table, and reordered.
Raw(m, b) == <<head.task, m, b, <<>>>>
Dequantised(m, b) == <<head.task, m, b, <<Component(head.kind, b)>>>>
Reordered(m, b) == <<head.task, m, b, <<Component(head.kind, b), "zz">>>>

\* The blocks of an MCU, and where they are.
McuBlocks == 1 .. Blocks(head.kind)
Loaded(m) == \A b \in McuBlocks : mem[2 + b] = Raw(m, b)
AllDequantised(m) == \A b \in McuBlocks : mem[9 + b] = Dequantised(m, b)
AllReordered(m) == \A b \in McuBlocks : mem[16 + b] = Reordered(m, b)
AllDecoded(m) == \A b \in McuBlocks : mem[9 + b] = Decoded(m, b)
PixelsOf(m) == \A r \in 0 .. (Rows(head.kind) - 1) : pix[r] = PictureRow(m, r)
NextLoaded == count.left # 0 => Loaded(Begun)

TablesKept ==
    /\ mem[0][4] = <<"Y">> /\ mem[1][4] = <<"U">> /\ mem[2][4] = <<"V">>

\* The first n MCUs of the picture are pixels, the others what the game wrote.
Written(n) ==
    \A j \in DOMAIN dram :
        dram[j] = IF j \notin 0 .. (head.mcus - 1) THEN <<>>
                  ELSE IF j < n THEN Picture(j) ELSE Coefficients(head.task, j, head.kind)

\* After i iterations of the loop over the tables.
Dequantising(i) ==
    /\ loop.from = 4 + i /\ loop.to = 9 + i
    /\ loop.next = Raw(Current, i + 1)
    /\ i > 0 => loop.result = Dequantised(Current, i)
    /\ \A b \in McuBlocks : b < i => mem[9 + b] = Dequantised(Current, b)
    /\ LET luma == Blocks(head.kind) - 2 IN
       \/ i < luma /\ loop.table = 0 /\ loop.outer = 3 /\ loop.inner = luma - i
       \/ i = luma /\ loop.table = 1 /\ loop.outer = 2 /\ loop.inner = 1
       \/ i = luma + 1 /\ loop.table = 2 /\ loop.outer = 1 /\ loop.inner = 1

\* After i blocks of the transform.
Transforming(i) ==
    /\ loop.from = 18 + i /\ loop.to = 9 + i /\ loop.outer = Blocks(head.kind) - i
    /\ loop.next = Reordered(Current, i + 1)
    /\ i > 0 => loop.result = Decoded(Current, i)
    /\ \A b \in McuBlocks : b < i => mem[9 + b] = Decoded(Current, b)

\* After i rows of pixels, or i pairs of rows.
Converting422(i) ==
    /\ head.kind = 0
    /\ loop.from = 1 + i /\ loop.table = 17 + i /\ loop.to = i - 1 /\ loop.inner = 8 - i
    /\ loop.next = <<PictureRow(Current, i)>>
    /\ IF i = 0 THEN loop.result = <<GarbageRow>> ELSE loop.result = <<PictureRow(Current, i - 1)>>
    /\ \A r \in 0 .. (i - 2) : pix[r] = PictureRow(Current, r)

Pair(m, i) == <<PictureRow(m, 2 * i), PictureRow(m, 2 * i + 1)>>

Converting420(i) ==
    /\ head.kind = 2
    /\ loop.table = 33 + i /\ loop.to = 2 * i - 2
    /\ IF i < 3
       THEN loop.from = 2 * i + 2 /\ loop.inner = 3 - i /\ loop.outer = 2
       ELSE loop.from = 2 * i + 10 /\ loop.inner = 8 - i /\ loop.outer = 1
    /\ loop.next = Pair(Current, i)
    /\ IF i = 0 THEN loop.result = <<GarbageRow, GarbageRow>> ELSE loop.result = Pair(Current, i - 1)
    /\ \A r \in 0 .. (2 * i - 3) : pix[r] = PictureRow(Current, r)

\* Before an MCU.
BeforeMcu ==
    /\ TablesKept /\ Begun \in 0 .. (head.mcus - 1) /\ output = Begun - 1 /\ Written(Begun - 1)
    /\ \/ stage = "first" /\ Begun = 0 /\ input = 0
       \/ stage = "mcu" /\ input = Begun + 1 /\ Loaded(Begun) /\ (Begun > 0 => PixelsOf(Begun - 1))

\* In an MCU.
InMcu ==
    /\ TablesKept /\ Current \in 0 .. (head.mcus - 1) /\ input = Begun /\ Written(Current)
    /\ \/ stage = "dequantise" /\ output = Current - 1 /\ Loaded(Current)
          /\ \E i \in 0 .. (Blocks(head.kind) - 1) : Dequantising(i)
       \/ stage = "zigzag" /\ output = Current - 1 /\ AllDequantised(Current)
       \/ stage = "prefetch" /\ output = Current /\ AllReordered(Current)
       \/ stage = "idct" /\ output = Current /\ AllReordered(Current) /\ NextLoaded
          /\ \E i \in 0 .. (Blocks(head.kind) - 1) : Transforming(i)
       \/ stage = "colour" /\ output = Current /\ AllDecoded(Current) /\ NextLoaded
       \/ stage = "422" /\ output = Current /\ AllDecoded(Current) /\ NextLoaded
          /\ \E i \in 0 .. 7 : Converting422(i)
       \/ stage = "420" /\ output = Current /\ AllDecoded(Current) /\ NextLoaded
          /\ \E i \in 0 .. 7 : Converting420(i)
       \/ stage = "end" /\ output = Current /\ PixelsOf(Current) /\ NextLoaded

\* The memories and the registers.
Shapes ==
    /\ JpegTypeOK
    /\ DOMAIN mem = 0 .. 30 /\ DOMAIN pix = -2 .. 15 /\ DOMAIN dram = -1 .. (WatchdogLimit + 1)
    /\ DOMAIN head = {"task", "mcus", "kind"} /\ DOMAIN count = {"all", "left"}
    /\ DOMAIN loop = {"from", "to", "table", "outer", "inner", "next", "result"}
    /\ count.all = head.mcus /\ count.left \in Int /\ head.task \in Nat
    /\ stage = "idle" <=> jpegExit # "none"

\* A picture with an MCU at least.
PictureInMemory ==
    /\ jpegExit # "Watchdog"
    /\ stage = "idle" => Written(head.mcus)
    /\ stage # "idle" => BeforeMcu \/ InMcu

JpegInv == Shapes /\ (head.mcus > 0 => PictureInMemory)

\* Memories and registers keep their shapes.
LEMMA ShapesKept ==
  ASSUME Shapes, JpegStep
  PROVE  Shapes'
<1>1. CASE FirstMcu
  BY <1>1 DEF Shapes, JpegTypeOK, FirstMcu, LoadMcu
<1>2. CASE BeginMcu
  BY <1>2 DEF Shapes, JpegTypeOK, BeginMcu, StorePixels
<1>3. CASE Watchdog
  BY <1>3 DEF Shapes, JpegTypeOK, Watchdog
<1>4. CASE Dequantise
  BY <1>4 DEF Shapes, JpegTypeOK, Dequantise
<1>5. CASE Zigzag
  BY <1>5 DEF Shapes, JpegTypeOK, Zigzag
<1>6. CASE Prefetch
  BY <1>6 DEF Shapes, JpegTypeOK, Prefetch, LoadMcu
<1>7. CASE Idct
  BY <1>7 DEF Shapes, JpegTypeOK, Idct
<1>8. CASE Begin422 \/ Begin420
  BY <1>8 DEF Shapes, JpegTypeOK, Begin422, Begin420
<1>9. CASE Colour422
  BY <1>9 DEF Shapes, JpegTypeOK, Colour422, Stored
<1>10. CASE Colour420
  BY <1>10 DEF Shapes, JpegTypeOK, Colour420, Stored
<1>11. CASE NextMcu
  BY <1>11 DEF Shapes, JpegTypeOK, NextMcu
<1>12. CASE LastMcu
  BY <1>12 DEF Shapes, JpegTypeOK, LastMcu, StorePixels
<1> QED
  BY <1>1, <1>2, <1>3, <1>4, <1>5, <1>6, <1>7, <1>8, <1>9, <1>10, <1>11, <1>12 DEF JpegStep

\* The number of blocks of an MCU.
LEMMA BlockCount ==
  ASSUME Shapes
  PROVE  /\ \A b \in McuBlocks : b \in 1 .. 6
         /\ Blocks(head.kind) \in {4, 6} /\ McuBlocks = 1 .. Blocks(head.kind)
         /\ Rows(head.kind) \in {8, 16}
         /\ head.kind = 0 => Blocks(head.kind) = 4 /\ Rows(head.kind) = 8
         /\ head.kind = 2 => Blocks(head.kind) = 6 /\ Rows(head.kind) = 16
BY DEF Shapes, JpegTypeOK, Blocks, Rows, McuBlocks

\* Blocks and rows are named by the task and its kind.
LEMMA Names ==
  ASSUME head' = head
  PROVE  /\ McuBlocks' = McuBlocks /\ Blocks(head.kind)' = Blocks(head.kind)
         /\ Rows(head.kind)' = Rows(head.kind)
         /\ \A m, b : /\ Raw(m, b)' = Raw(m, b) /\ Dequantised(m, b)' = Dequantised(m, b)
                      /\ Reordered(m, b)' = Reordered(m, b) /\ Decoded(m, b)' = Decoded(m, b)
         /\ \A m, r : PictureRow(m, r)' = PictureRow(m, r) /\ Pair(m, r)' = Pair(m, r)
         /\ \A m : Picture(m)' = Picture(m)
BY DEF McuBlocks, Raw, Dequantised, Reordered, Decoded, PictureRow, Pair, Picture, Blocks, Rows, Component

\* What is done to a block is appended to its name.
LEMMA Applied ==
  ASSUME NEW m, NEW b
  PROVE  /\ Apply(Raw(m, b), <<Component(head.kind, b)>>) = Dequantised(m, b)
         /\ Apply(Dequantised(m, b), <<"zz">>) = Reordered(m, b)
         /\ Transform(Reordered(m, b)) = Decoded(m, b)
BY DEF Apply, Transform, Raw, Dequantised, Reordered, Decoded

\* The blocks of an MCU of the picture are loaded to 3 and up.
LEMMA LoadMcuLoads ==
  ASSUME Shapes, NEW m \in 0 .. (head.mcus - 1), NEW n \in Int, n <= m, Written(n),
         mem' = LoadMcu(m), head' = head
  PROVE  /\ Loaded(m)'
         /\ \A a \in 0 .. 30 : a < 3 \/ a >= 9 => mem'[a] = mem[a]
<1>1. m \in DOMAIN dram /\ dram[m] = Coefficients(head.task, m, head.kind)
  <2>1. m \in DOMAIN dram
    BY JpegAssumption DEF Shapes, JpegTypeOK
  <2> QED BY <2>1 DEF Written
<1>2. DOMAIN dram[m] = McuBlocks /\ \A b \in McuBlocks : dram[m][b] = Raw(m, b)
  BY <1>1 DEF Coefficients, McuBlocks, Raw
<1>3. mem' = [a \in 0 .. 30 |-> IF a - 2 \in McuBlocks THEN dram[m][a - 2] ELSE mem[a]]
  BY <1>2 DEF LoadMcu
<1>4. \A b \in McuBlocks : 2 + b \in 0 .. 30 /\ (2 + b) - 2 = b
  <2>1. \A b \in 1 .. 6 : 2 + b \in 0 .. 30 /\ (2 + b) - 2 = b
    OBVIOUS
  <2> QED BY <2>1, BlockCount
<1>5. \A b \in McuBlocks : mem'[2 + b] = Raw(m, b)
  BY <1>2, <1>3, <1>4
<1>6. \A a \in 0 .. 30 : a < 3 \/ a >= 9 => a - 2 \notin McuBlocks
  BY BlockCount
<1> QED
  BY <1>3, <1>5, <1>6, Names DEF Loaded

\* The rows converted for an MCU are stored over its coefficients.
LEMMA PixelsStored ==
  ASSUME Shapes, NEW n \in 1 .. head.mcus, output = n - 1, Written(n - 1), PixelsOf(n - 1),
         dram' = StorePixels, head' = head
  PROVE  Written(n)'
<1>1. [r \in 1..Rows(head.kind) |-> pix[r - 1]] = Picture(n - 1)
  BY BlockCount DEF PixelsOf, Picture
<1>2. dram' = [dram EXCEPT ![n - 1] = Picture(n - 1)]
  BY <1>1 DEF StorePixels
<1>3. n - 1 \in DOMAIN dram
  BY JpegAssumption DEF Shapes, JpegTypeOK
<1>4. head.mcus \in Int /\ \A j \in DOMAIN dram : j \in Int
  BY DEF Shapes, JpegTypeOK
<1>5. \A j \in DOMAIN dram' :
         dram'[j] = IF j \notin 0 .. (head.mcus - 1) THEN <<>>
                    ELSE IF j < n THEN Picture(j) ELSE Coefficients(head.task, j, head.kind)
  BY <1>2, <1>3, <1>4 DEF Written
<1> QED
  BY <1>5, Names DEF Written

-----------------------------------------------------------------------------
(* The steps of a picture with an MCU at least: of the whole MCU, *)
(* of its blocks, of its rows.                                    *)

LEMMA FirstMcuStep ==
  ASSUME Shapes, BeforeMcu, FirstMcu
  PROVE  BeforeMcu'
<1>1. /\ Begun = 0 /\ input = 0 /\ output = -1 /\ Written(-1) /\ TablesKept /\ 0 \in 0 .. (head.mcus - 1)
      /\ mem' = LoadMcu(0) /\ input' = 1 /\ stage' = "mcu"
      /\ UNCHANGED <<dram, head, count, output>>
  BY DEF BeforeMcu, FirstMcu
<1>2. Loaded(0)' /\ \A a \in 0 .. 30 : a < 3 => mem'[a] = mem[a]
  BY <1>1, LoadMcuLoads
<1>3. TablesKept'
  BY <1>1, <1>2 DEF TablesKept
<1>4. Begun' = 0 /\ Written(-1)'
  BY <1>1 DEF Begun, Written, Picture, PictureRow, Decoded, Component
<1>5. Loaded(Begun)' /\ Written(Begun - 1)'
  BY <1>2, <1>4 DEF Loaded, Written, Raw
<1> QED
  BY <1>1, <1>3, <1>4, <1>5 DEF BeforeMcu

LEMMA BeginMcuStep ==
  ASSUME Shapes, BeforeMcu, BeginMcu
  PROVE  InMcu'
<1> PICK m : m = Begun
  OBVIOUS
<1>1. /\ m \in 0 .. (head.mcus - 1) /\ input = m + 1 /\ output = m - 1 /\ Written(m - 1) /\ TablesKept
      /\ Loaded(m) /\ (m > 0 => PixelsOf(m - 1))
      /\ dram' = IF m = 0 THEN dram ELSE StorePixels
      /\ count' = [count EXCEPT !.left = @ - 1]
      /\ loop' = [loop EXCEPT !.from = 4, !.to = 9, !.table = 0, !.outer = 3,
                              !.inner = head.kind + 2, !.next = mem[3]]
      /\ stage' = "dequantise"
      /\ UNCHANGED <<mem, pix, head, input, output>>
  BY DEF BeforeMcu, BeginMcu, Begun, Shapes, JpegTypeOK
<1>2. Begun' = m + 1 /\ Current' = m
  BY <1>1 DEF Begun, Current, Shapes, JpegTypeOK
<1>3. Written(m)'
  <2>1. CASE m = 0
    BY <1>1, <2>1, Names DEF Written
  <2>2. CASE m > 0
    <3>1. m \in 1 .. head.mcus
      BY <1>1, <2>2 DEF Shapes, JpegTypeOK
    <3> QED BY <1>1, <2>2, <3>1, PixelsStored
  <2> QED BY <1>1, <2>1, <2>2
<1>4. loop'.next = Raw(m, 1)
  BY <1>1, BlockCount DEF Loaded, McuBlocks, Shapes
<1>5. Dequantising(0)'
  <2>1. /\ loop'.from = 4 /\ loop'.to = 9 /\ loop'.table = 0 /\ loop'.outer = 3
        /\ loop'.inner = head.kind + 2 /\ loop'.next = Raw(m, 1)
    BY <1>1, <1>4 DEF Shapes
  <2>2. McuBlocks' = McuBlocks /\ Blocks(head.kind)' = head.kind + 4 /\ head.kind \in {0, 2}
        /\ \A b \in McuBlocks : b \in 1 .. 6
    BY <1>1, Names, BlockCount DEF Blocks, Shapes, JpegTypeOK
  <2>3. Raw(Current, 0 + 1)' = Raw(m, 1)
    BY <1>1, <1>2 DEF Raw
  <2> QED BY <1>1, <2>1, <2>2, <2>3 DEF Dequantising
<1>6. Loaded(m)' /\ TablesKept'
  BY <1>1, Names DEF Loaded, TablesKept
<1> QED
  BY <1>1, <1>2, <1>3, <1>5, <1>6, Names, BlockCount DEF InMcu

\* The watchdog does not interfere.
LEMMA NoWatchdog ==
  ASSUME Shapes, BeforeMcu
  PROVE  ~ Watchdog
BY JpegAssumption DEF BeforeMcu, Watchdog, Begun, Shapes, JpegTypeOK

\* The loop over the tables: each block meets its own.
LEMMA DequantiseStep ==
  ASSUME Shapes, InMcu, Dequantise
  PROVE  InMcu'
<1> PICK m : m = Current
  OBVIOUS
<1>1. /\ TablesKept /\ m \in 0 .. (head.mcus - 1) /\ input = Begun /\ Written(m)
      /\ output = m - 1 /\ Loaded(m) /\ stage = "dequantise"
      /\ \E i \in 0 .. (Blocks(head.kind) - 1) : Dequantising(i)
  BY DEF InMcu, Dequantise
<1> PICK i \in 0 .. (Blocks(head.kind) - 1) : Dequantising(i)
  BY <1>1
<1> DEFINE B == Blocks(head.kind)
           result == Apply(loop.next, mem[loop.table][4])
<1>2. /\ B \in {4, 6} /\ i \in Int /\ 0 <= i /\ i < B
      /\ loop.from = 4 + i /\ loop.to = 9 + i /\ loop.next = Raw(m, i + 1)
      /\ i > 0 => loop.result = Dequantised(m, i)
      /\ \A b \in McuBlocks : b < i => mem[9 + b] = Dequantised(m, b)
      /\ \/ i < B - 2 /\ loop.table = 0 /\ loop.outer = 3 /\ loop.inner = B - 2 - i
         \/ i = B - 2 /\ loop.table = 1 /\ loop.outer = 2 /\ loop.inner = 1
         \/ i = B - 1 /\ loop.table = 2 /\ loop.outer = 1 /\ loop.inner = 1
  BY BlockCount DEF Dequantising
<1>3. /\ UNCHANGED <<pix, dram, head, count, input, output, jpegExit>>
      /\ Current' = m /\ Begun' = Begun /\ McuBlocks' = McuBlocks /\ Blocks(head.kind)' = B
      /\ \A b \in McuBlocks : b \in 1 .. B
  BY Names, BlockCount DEF Dequantise, Current, Begun
<1>4. /\ loop'.from = 4 + i + 1 /\ loop'.to = 9 + i + 1 /\ loop'.next = mem[4 + i] /\ loop'.result = result
      /\ loop'.inner = IF loop.inner = 1 THEN 1 ELSE loop.inner - 1
      /\ loop'.table = IF loop.inner = 1 THEN loop.table + 1 ELSE loop.table
      /\ loop'.outer = IF loop.inner = 1 THEN loop.outer - 1 ELSE loop.outer
  BY <1>2 DEF Dequantise, Shapes
<1>5. result = Dequantised(m, i + 1)
  <2>1. Component(head.kind, i + 1) = IF i = B - 1 THEN "V" ELSE IF i = B - 2 THEN "U" ELSE "Y"
    BY <1>2 DEF Component
  <2>2. mem[loop.table][4] = <<Component(head.kind, i + 1)>>
    BY <1>1, <1>2, <2>1 DEF TablesKept
  <2> QED BY <1>2, <2>2, Applied
<1> HIDE DEF result
<1>6. /\ \A a \in 0 .. 8 : mem'[a] = mem[a]
      /\ \A b \in McuBlocks : b < i + 1 => mem'[9 + b] = Dequantised(m, b)
      /\ i = B - 1 => mem'[9 + B] = Dequantised(m, B)
  <2>1. \/ mem' = [mem EXCEPT ![9 + i] = loop.result] /\ i # B - 1
        \/ mem' = [mem EXCEPT ![9 + i] = loop.result, ![9 + i + 1] = result] /\ i = B - 1
    BY <1>2 DEF Dequantise, result
  <2>2. DOMAIN mem = 0 .. 30 /\ 9 + i \in 9 .. 14
    BY <1>2 DEF Shapes
  <2>3. \A a \in 0 .. 8 : mem'[a] = mem[a]
    BY <1>2, <2>1, <2>2
  <2>4. ASSUME NEW b \in McuBlocks, b < i + 1
        PROVE  mem'[9 + b] = Dequantised(m, b)
    <3>1. b \in Int /\ 9 + b \in 0 .. 30 /\ (b < i \/ b = i)
      BY <1>2, <1>3, <2>4
    <3>2. b < i => mem'[9 + b] = mem[9 + b]
      BY <1>2, <2>1, <2>2, <3>1
    <3>3. b = i => mem'[9 + b] = loop.result /\ i > 0
      BY <1>2, <1>3, <2>1, <2>2, <3>1
    <3> QED BY <1>2, <2>4, <3>1, <3>2, <3>3
  <2>5. i = B - 1 => mem'[9 + B] = result
    <3>1. i = B - 1 => 9 + i + 1 = 9 + B /\ 9 + B \in 0 .. 30
      BY <1>2
    <3> QED BY <2>1, <2>2, <3>1
  <2>6. i = B - 1 => Dequantised(m, i + 1) = Dequantised(m, B)
    BY <1>2
  <2> QED BY <1>5, <2>3, <2>4, <2>5, <2>6
<1>7. TablesKept' /\ Loaded(m)' /\ Written(m)'
  <2>1. \A b \in McuBlocks : mem'[2 + b] = mem[2 + b]
    BY <1>2, <1>3, <1>6
  <2> QED BY <1>1, <1>3, <1>6, <2>1, Names DEF TablesKept, Loaded, Written
<1>8. CASE i < B - 1
  <2>1. stage' = "dequantise"
    BY <1>1, <1>2, <1>8 DEF Dequantise
  <2>2. mem[4 + i] = Raw(m, i + 2)
    <3>1. i + 2 \in McuBlocks /\ 2 + (i + 2) = 4 + i
      BY <1>2, <1>8 DEF McuBlocks
    <3> QED BY <1>1, <3>1 DEF Loaded
  <2>3. Dequantising(i + 1)'
    BY <1>2, <1>3, <1>4, <1>5, <1>6, <1>8, <2>2, Names DEF Dequantising
  <2>4. i + 1 \in 0 .. (B - 1)
    BY <1>2, <1>8
  <2> QED BY <1>1, <1>3, <1>7, <2>1, <2>3, <2>4 DEF InMcu
<1>9. CASE i = B - 1
  <2>1. stage' = "zigzag"
    BY <1>1, <1>2, <1>9 DEF Dequantise
  <2>2. \A b \in McuBlocks : mem'[9 + b] = Dequantised(m, b)
    BY <1>2, <1>3, <1>6, <1>9
  <2>3. AllDequantised(m)'
    BY <1>3, <2>2, Names DEF AllDequantised
  <2> QED BY <1>1, <1>3, <1>7, <2>1, <2>3 DEF InMcu
<1> QED
  BY <1>2, <1>8, <1>9

LEMMA ZigzagStep ==
  ASSUME Shapes, InMcu, Zigzag
  PROVE  InMcu'
<1> PICK m : m = Current
  OBVIOUS
<1>1. /\ TablesKept /\ m \in 0 .. (head.mcus - 1) /\ input = Begun /\ Written(m)
      /\ output = m - 1 /\ AllDequantised(m) /\ stage' = "prefetch" /\ output' = m
      /\ UNCHANGED <<pix, dram, head, count, input, loop, jpegExit>>
  BY DEF InMcu, Zigzag, Shapes, JpegTypeOK
<1>2. mem' = [a \in 0..30 |-> IF a - 16 \in McuBlocks THEN Apply(mem[a - 7], <<"zz">>) ELSE mem[a]]
  BY DEF Zigzag, McuBlocks
<1>3. \A b \in McuBlocks : mem'[16 + b] = Apply(mem[9 + b], <<"zz">>)
  <2>1. \A b \in 1 .. 6 : 16 + b \in 0 .. 30 /\ (16 + b) - 16 = b /\ (16 + b) - 7 = 9 + b
    OBVIOUS
  <2> QED BY <1>2, <2>1, BlockCount
<1>4. AllReordered(m)'
  <2>1. \A b : Apply(Dequantised(m, b), <<"zz">>) = Reordered(m, b)
    BY Applied
  <2> QED BY <1>1, <1>3, <2>1, Names DEF AllReordered, AllDequantised
<1>5. TablesKept'
  <2>1. \A a \in 0 .. 2 : mem'[a] = mem[a]
    <3>1. \A a \in 0 .. 2 : a \in 0 .. 30 /\ a - 16 \notin 1 .. 6
      OBVIOUS
    <3> QED BY <1>2, <3>1, BlockCount
  <2> QED BY <1>1, <2>1 DEF TablesKept
<1>6. Current' = m /\ Begun' = Begun /\ Written(m)'
  BY <1>1, Names DEF Current, Begun, Written
<1> QED
  BY <1>1, <1>4, <1>5, <1>6 DEF InMcu

LEMMA PrefetchStep ==
  ASSUME Shapes, InMcu, Prefetch
  PROVE  InMcu'
<1> PICK m : m = Current
  OBVIOUS
<1>1. /\ TablesKept /\ m \in 0 .. (head.mcus - 1) /\ input = Begun /\ Written(m)
      /\ output = m /\ AllReordered(m) /\ stage' = "idct"
      /\ mem' = IF count.left = 0 THEN mem ELSE LoadMcu(Begun)
      /\ UNCHANGED <<pix, dram, head, count, input, output, jpegExit>>
  BY DEF InMcu, Prefetch
<1>2. /\ Current' = m /\ Begun' = Begun /\ Written(m)' /\ Begun = m + 1
      /\ McuBlocks' = McuBlocks /\ Blocks(head.kind)' = Blocks(head.kind) /\ \A b \in McuBlocks : b \in 1 .. 6
  BY <1>1, Names, BlockCount DEF Current, Begun, Written, Shapes, JpegTypeOK
<1>3. /\ count.left # 0 => Loaded(m + 1)'
      /\ \A a \in 0 .. 30 : a < 3 \/ a >= 9 => mem'[a] = mem[a]
  <2>1. CASE count.left = 0
    BY <1>1, <2>1
  <2>2. CASE count.left # 0
    <3>1. m + 1 \in 0 .. (head.mcus - 1) /\ m \in Int /\ m <= m + 1
      BY <1>1, <1>2, <2>2 DEF Begun, Shapes, JpegTypeOK
    <3>2. mem' = LoadMcu(m + 1) /\ head' = head
      BY <1>1, <1>2, <2>2
    <3> QED BY <1>1, <3>1, <3>2, LoadMcuLoads
  <2> QED BY <2>1, <2>2
<1>4. TablesKept' /\ AllReordered(m)'
  <2>1. \A b \in McuBlocks : mem'[16 + b] = mem[16 + b]
    BY <1>2, <1>3
  <2> QED BY <1>1, <1>2, <1>3, <2>1, Names DEF TablesKept, AllReordered
<1>5. Transforming(0)'
  <2>1. loop'.from = 18 /\ loop'.to = 9 /\ loop'.outer = Blocks(head.kind) /\ loop'.next = mem[17]
    BY DEF Prefetch, Shapes
  <2>2. mem[17] = Reordered(m, 1)
    BY <1>1, BlockCount DEF AllReordered, McuBlocks
  <2>3. Reordered(Current, 0 + 1)' = Reordered(m, 1)
    BY <1>1, <1>2 DEF Reordered, Component, Blocks
  <2> QED BY <1>2, <2>1, <2>2, <2>3, BlockCount DEF Transforming
<1>6. NextLoaded'
  BY <1>1, <1>2, <1>3 DEF NextLoaded
<1> QED
  BY <1>1, <1>2, <1>4, <1>5, <1>6, BlockCount DEF InMcu

LEMMA IdctStep ==
  ASSUME Shapes, InMcu, Idct
  PROVE  InMcu'
<1> PICK m : m = Current
  OBVIOUS
<1>1. /\ TablesKept /\ m \in 0 .. (head.mcus - 1) /\ input = Begun /\ Written(m)
      /\ output = m /\ AllReordered(m) /\ NextLoaded /\ stage = "idct"
      /\ \E i \in 0 .. (Blocks(head.kind) - 1) : Transforming(i)
  BY DEF InMcu, Idct
<1> PICK i \in 0 .. (Blocks(head.kind) - 1) : Transforming(i)
  BY <1>1
<1> DEFINE B == Blocks(head.kind)
           result == Transform(loop.next)
<1>2. /\ B \in {4, 6} /\ i \in Int /\ 0 <= i /\ i < B
      /\ loop.from = 18 + i /\ loop.to = 9 + i /\ loop.outer = B - i /\ loop.next = Reordered(m, i + 1)
      /\ i > 0 => loop.result = Decoded(m, i)
      /\ \A b \in McuBlocks : b < i => mem[9 + b] = Decoded(m, b)
  BY BlockCount DEF Transforming
<1>3. /\ UNCHANGED <<pix, dram, head, count, input, output, jpegExit>>
      /\ Current' = m /\ Begun' = Begun /\ McuBlocks' = McuBlocks /\ Blocks(head.kind)' = B
      /\ \A b \in McuBlocks : b \in 1 .. B
  BY Names, BlockCount DEF Idct, Current, Begun
<1>4. /\ loop'.from = 18 + i + 1 /\ loop'.to = 9 + i + 1 /\ loop'.next = mem[18 + i] /\ loop'.result = result
      /\ loop'.outer = B - (i + 1)
  BY <1>2 DEF Idct, Shapes
<1>5. result = Decoded(m, i + 1)
  BY <1>2, Applied
<1> HIDE DEF result
<1>6. /\ \A a \in 0 .. 8 : mem'[a] = mem[a]
      /\ \A a \in 17 .. 22 : mem'[a] = mem[a]
      /\ \A b \in McuBlocks : b < i + 1 => mem'[9 + b] = Decoded(m, b)
      /\ i = B - 1 => mem'[9 + B] = Decoded(m, B)
  <2>1. \/ mem' = [mem EXCEPT ![30] = Garbage, ![9 + i] = loop.result] /\ i # B - 1
        \/ mem' = [mem EXCEPT ![30] = Garbage, ![9 + i] = loop.result, ![9 + i + 1] = result] /\ i = B - 1
    BY <1>2 DEF Idct, result
  <2>2. DOMAIN mem = 0 .. 30 /\ 9 + i \in 9 .. 14
    BY <1>2 DEF Shapes
  <2>3. \A a \in 0 .. 8 : mem'[a] = mem[a]
    BY <1>2, <2>1, <2>2
  <2>4. \A a \in 17 .. 22 : mem'[a] = mem[a]
    BY <1>2, <2>1, <2>2
  <2>5. ASSUME NEW b \in McuBlocks, b < i + 1
        PROVE  mem'[9 + b] = Decoded(m, b)
    <3>1. b \in Int /\ 9 + b \in 0 .. 29 /\ (b < i \/ b = i)
      BY <1>2, <1>3, <2>5
    <3>2. b < i => mem'[9 + b] = mem[9 + b]
      BY <1>2, <2>1, <2>2, <3>1
    <3>3. b = i => mem'[9 + b] = loop.result /\ i > 0
      BY <1>2, <1>3, <2>1, <2>2, <3>1
    <3> QED BY <1>2, <2>5, <3>1, <3>2, <3>3
  <2>6. i = B - 1 => mem'[9 + B] = result
    <3>1. i = B - 1 => 9 + i + 1 = 9 + B /\ 9 + B \in 0 .. 29
      BY <1>2
    <3> QED BY <2>1, <2>2, <3>1
  <2>7. i = B - 1 => Decoded(m, i + 1) = Decoded(m, B)
    BY <1>2
  <2> QED BY <1>5, <2>3, <2>4, <2>5, <2>6, <2>7
<1>7. TablesKept' /\ Written(m)' /\ AllReordered(m)' /\ NextLoaded'
  <2>1. \A b \in McuBlocks : mem'[2 + b] = mem[2 + b] /\ mem'[16 + b] = mem[16 + b]
    BY <1>2, <1>3, <1>6
  <2>2. AllReordered(m)'
    BY <1>1, <1>3, <2>1, Names DEF AllReordered
  <2>3. NextLoaded'
    BY <1>1, <1>3, <2>1, Names DEF NextLoaded, Loaded
  <2> QED BY <1>1, <1>3, <1>6, <2>2, <2>3, Names DEF TablesKept, Written
<1>8. CASE i < B - 1
  <2>1. stage' = "idct"
    BY <1>1, <1>2, <1>8 DEF Idct
  <2>2. mem[18 + i] = Reordered(m, i + 2)
    <3>1. i + 2 \in McuBlocks /\ 16 + (i + 2) = 18 + i
      BY <1>2, <1>8 DEF McuBlocks
    <3> QED BY <1>1, <3>1 DEF AllReordered
  <2>3. Transforming(i + 1)'
    BY <1>2, <1>3, <1>4, <1>5, <1>6, <1>8, <2>2, Names DEF Transforming
  <2>4. i + 1 \in 0 .. (B - 1)
    BY <1>2, <1>8
  <2> QED BY <1>1, <1>3, <1>7, <2>1, <2>3, <2>4 DEF InMcu
<1>9. CASE i = B - 1
  <2>1. stage' = "colour"
    BY <1>1, <1>2, <1>9 DEF Idct
  <2>2. \A b \in McuBlocks : mem'[9 + b] = Decoded(m, b)
    BY <1>2, <1>3, <1>6, <1>9
  <2>3. AllDecoded(m)'
    BY <1>3, <2>2, Names DEF AllDecoded
  <2> QED BY <1>1, <1>3, <1>7, <2>1, <2>3 DEF InMcu
<1> QED
  BY <1>2, <1>8, <1>9

-----------------------------------------------------------------------------
(* The conversion to pixels. *)

\* A row of pixels of the decoded blocks p and p + 1 at the height r and of
\* the blocks of chroma at the height s.
PixelsFrom(m, p, r, q, s) ==
  << <<Decoded(m, p), r>>, <<Decoded(m, p + 1), r>>, <<Decoded(m, q), s>>, <<Decoded(m, q + 1), s>> >>

LEMMA RowOfBlocks ==
  ASSUME Shapes, NEW m, AllDecoded(m)
  PROVE  \A r, s \in 0 .. 7, p, q \in 1 .. 5 : \A a, c :
           /\ p \in McuBlocks /\ p + 1 \in McuBlocks /\ a = 8 * (p - 1) + r
           /\ q \in McuBlocks /\ q + 1 \in McuBlocks /\ c = 8 * (q - 1) + s
           => PixelRow(a, c) = PixelsFrom(m, p, r, q, s)
<1> SUFFICES ASSUME NEW r \in 0 .. 7, NEW s \in 0 .. 7, NEW p \in 1 .. 5, NEW q \in 1 .. 5,
                    p \in McuBlocks, q \in McuBlocks, p + 1 \in McuBlocks, q + 1 \in McuBlocks
             PROVE  PixelRow(8 * (p - 1) + r, 8 * (q - 1) + s) = PixelsFrom(m, p, r, q, s)
  OBVIOUS
<1>1. \A x \in 0 .. 7, b \in McuBlocks : RowAt(8 * (b - 1) + x) = <<Decoded(m, b), x>>
  <2> SUFFICES ASSUME NEW x \in 0 .. 7, NEW b \in McuBlocks
               PROVE  RowAt(8 * (b - 1) + x) = <<Decoded(m, b), x>>
    OBVIOUS
  <2>1. b \in 1 .. 6
    BY BlockCount
  <2>2. (8 * (b - 1) + x) \div 8 = b - 1 /\ (8 * (b - 1) + x) % 8 = x
    BY <2>1
  <2>3. 10 + (b - 1) = 9 + b
    BY <2>1
  <2> QED BY <2>2, <2>3 DEF RowAt, AllDecoded
<1>2. p \in Int /\ q \in Int
  BY BlockCount
<1>3. (8 * (p - 1) + r) + 8 = 8 * ((p + 1) - 1) + r /\ (8 * (q - 1) + s) + 8 = 8 * ((q + 1) - 1) + s
  BY <1>2
<1>4. /\ RowAt(8 * (p - 1) + r) = <<Decoded(m, p), r>>
      /\ RowAt(8 * ((p + 1) - 1) + r) = <<Decoded(m, p + 1), r>>
      /\ RowAt(8 * (q - 1) + s) = <<Decoded(m, q), s>>
      /\ RowAt(8 * ((q + 1) - 1) + s) = <<Decoded(m, q + 1), s>>
  BY <1>1
<1> QED
  BY <1>3, <1>4 DEF PixelRow, PixelsFrom

\* 4:2:2: row r of the picture, of blocks 1 and 2 and of 3 and 4.
LEMMA Row422 ==
  ASSUME Shapes, head.kind = 0, NEW m, AllDecoded(m), NEW r \in 0 .. 7
  PROVE  PixelRow(r, 16 + r) = PictureRow(m, r)
<1>1. /\ 1 \in McuBlocks /\ 1 + 1 \in McuBlocks /\ 3 \in McuBlocks /\ 3 + 1 \in McuBlocks
      /\ r = 8 * (1 - 1) + r /\ 16 + r = 8 * (3 - 1) + r
  BY BlockCount
<1>2. PixelRow(r, 16 + r) = PixelsFrom(m, 1, r, 3, r)
  BY <1>1, RowOfBlocks
<1>3. r \div 8 = 0 /\ r % 8 = r
  OBVIOUS
<1> QED
  BY <1>1, <1>2, <1>3 DEF PictureRow, PixelsFrom, Blocks

\* 4:2:0: rows 2 * i and 2 * i + 1, of blocks 1 and 2 or 3 and 4 and of 5 and 6.
LEMMA Rows420 ==
  ASSUME Shapes, head.kind = 2, NEW m, AllDecoded(m), NEW i \in 0 .. 7, NEW a,
         a = IF i < 4 THEN 2 * i ELSE 2 * i + 8
  PROVE  <<PixelRow(a, 32 + i), PixelRow(a + 1, 32 + i)>> = Pair(m, i)
<1>1. \A b \in 1 .. 6 : b \in McuBlocks
  BY BlockCount
<1>2. ASSUME NEW x \in 0 .. 1
      PROVE  PixelRow(a + x, 32 + i) = PictureRow(m, 2 * i + x)
  <2> DEFINE p == IF i < 4 THEN 1 ELSE 3
             r == IF i < 4 THEN 2 * i + x ELSE 2 * i + x - 8
  <2>1. /\ p \in 1 .. 5 /\ p + 1 \in 1 .. 6 /\ r \in 0 .. 7
        /\ a + x = 8 * (p - 1) + r /\ 32 + i = 8 * (5 - 1) + i
    OBVIOUS
  <2>2. /\ 1 + 2 * ((2 * i + x) \div 8) = p /\ (2 * i + x) % 8 = r /\ (2 * i + x) \div 2 = i
    OBVIOUS
  <2> HIDE DEF p, r
  <2>3. PixelRow(a + x, 32 + i) = PixelsFrom(m, p, r, 5, i)
    BY <1>1, <2>1, RowOfBlocks
  <2>4. Blocks(head.kind) - 1 = 5
    BY DEF Blocks
  <2> QED BY <2>1, <2>2, <2>3, <2>4 DEF PictureRow, PixelsFrom
<1>3. a \in Int /\ a + 0 = a /\ 2 * i + 0 = 2 * i
  OBVIOUS
<1> QED
  BY <1>2, <1>3 DEF Pair

\* While rows are converted the decoded blocks and what was loaded stay.
LEMMA BlocksStay ==
  ASSUME Shapes, NEW m, m = Current, UNCHANGED <<mem, dram, head, count, input, output>>,
         TablesKept, AllDecoded(m), NextLoaded, Written(m)
  PROVE  /\ TablesKept' /\ AllDecoded(m)' /\ NextLoaded' /\ Written(m)'
         /\ Current' = m /\ Begun' = Begun
BY Names DEF TablesKept, AllDecoded, NextLoaded, Loaded, Written, Current, Begun

LEMMA Begin422Step ==
  ASSUME Shapes, InMcu, Begin422
  PROVE  InMcu'
<1> PICK m : m = Current
  OBVIOUS
<1>1. /\ TablesKept /\ m \in 0 .. (head.mcus - 1) /\ input = Begun /\ Written(m)
      /\ output = m /\ AllDecoded(m) /\ NextLoaded /\ head.kind = 0 /\ stage' = "422"
      /\ UNCHANGED <<mem, pix, dram, head, count, input, output, jpegExit>>
  BY DEF InMcu, Begin422
<1>2. /\ TablesKept' /\ AllDecoded(m)' /\ NextLoaded' /\ Written(m)' /\ Current' = m /\ Begun' = Begun
  BY <1>1, BlocksStay
<1>3. /\ loop'.from = 1 /\ loop'.table = 17 /\ loop'.to = -1 /\ loop'.inner = 8
      /\ loop'.next = <<PixelRow(0, 16 + 0)>> /\ loop'.result = <<GarbageRow>>
  BY DEF Begin422, Shapes
<1>4. PixelRow(0, 16 + 0) = PictureRow(m, 0)
  BY <1>1, Row422
<1>5. PictureRow(Current, 0)' = PictureRow(m, 0)
  BY <1>1, <1>2 DEF PictureRow, Decoded, Component, Blocks
<1>6. Converting422(0)'
  BY <1>1, <1>3, <1>4, <1>5 DEF Converting422
<1> QED
  BY <1>1, <1>2, <1>6 DEF InMcu

LEMMA Begin420Step ==
  ASSUME Shapes, InMcu, Begin420
  PROVE  InMcu'
<1> PICK m : m = Current
  OBVIOUS
<1>1. /\ TablesKept /\ m \in 0 .. (head.mcus - 1) /\ input = Begun /\ Written(m)
      /\ output = m /\ AllDecoded(m) /\ NextLoaded /\ head.kind = 2 /\ stage' = "420"
      /\ UNCHANGED <<mem, pix, dram, head, count, input, output, jpegExit>>
  BY DEF InMcu, Begin420, Shapes, JpegTypeOK
<1>2. /\ TablesKept' /\ AllDecoded(m)' /\ NextLoaded' /\ Written(m)' /\ Current' = m /\ Begun' = Begun
  BY <1>1, BlocksStay
<1>3. /\ loop'.from = 2 /\ loop'.table = 33 /\ loop'.to = -2 /\ loop'.outer = 2 /\ loop'.inner = 3
      /\ loop'.next = <<PixelRow(0, 32 + 0), PixelRow(0 + 1, 32 + 0)>>
      /\ loop'.result = <<GarbageRow, GarbageRow>>
  BY DEF Begin420, Shapes
<1>4. <<PixelRow(0, 32 + 0), PixelRow(0 + 1, 32 + 0)>> = Pair(m, 0)
  BY <1>1, Rows420
<1>5. Pair(Current, 0)' = Pair(m, 0)
  BY <1>1, <1>2 DEF Pair, PictureRow, Decoded, Component, Blocks
<1>6. Converting420(0)'
  BY <1>1, <1>3, <1>4, <1>5 DEF Converting420
<1> QED
  BY <1>1, <1>2, <1>6 DEF InMcu

\* Rows are stored from row to on.
LEMMA StoredRows ==
  ASSUME Shapes, NEW rows, NEW n \in 1 .. 4, DOMAIN rows = 1 .. n, NEW to \in -2 .. (16 - n)
  PROVE  /\ \A k \in 1 .. n : Stored(rows, to)[(to + k) - 1] = rows[k]
         /\ \A r \in -2 .. 15 : r < to \/ r >= to + n => Stored(rows, to)[r] = pix[r]
<1>1. Stored(rows, to) =
        [r \in -2 .. 15 |-> IF r - to + 1 \in 1 .. n THEN rows[r - to + 1] ELSE pix[r]]
  BY DEF Stored, Shapes
<1>2. \A k \in 1 .. n : (to + k) - 1 \in -2 .. 15 /\ ((to + k) - 1) - to + 1 = k
  OBVIOUS
<1>3. \A r \in -2 .. 15 : r < to \/ r >= to + n => r - to + 1 \notin 1 .. n
  OBVIOUS
<1> QED
  BY <1>1, <1>2, <1>3

\* The rows of the last iteration and the ones before.
LEMMA JoinedTwo ==
  ASSUME NEW x, NEW y
  PROVE  <<x>> \o <<y>> = <<x, y>>
<1> DEFINE S == {x, y}
<1>1. <<x>> \in Seq(S) /\ <<y>> \in Seq(S) /\ <<x, y>> \in Seq(S)
  OBVIOUS
<1> HIDE DEF S
<1>2. /\ <<x>> \o <<y>> \in Seq(S) /\ Len(<<x>> \o <<y>>) = 2
      /\ \A i \in 1 .. 2 : (<<x>> \o <<y>>)[i] = <<x, y>>[i]
  BY <1>1, ConcatProperties
<1> QED
  BY <1>1, <1>2, SeqEqual

LEMMA JoinedFour ==
  ASSUME NEW x, NEW y, NEW u, NEW v
  PROVE  <<x, y>> \o <<u, v>> = <<x, y, u, v>>
<1> DEFINE S == {x, y, u, v}
<1>1. <<x, y>> \in Seq(S) /\ <<u, v>> \in Seq(S) /\ <<x, y, u, v>> \in Seq(S)
  OBVIOUS
<1> HIDE DEF S
<1>2. /\ <<x, y>> \o <<u, v>> \in Seq(S) /\ Len(<<x, y>> \o <<u, v>>) = 4
      /\ \A i \in 1 .. 4 : (<<x, y>> \o <<u, v>>)[i] = <<x, y, u, v>>[i]
  BY <1>1, ConcatProperties
<1> QED
  BY <1>1, <1>2, SeqEqual

LEMMA Colour422Step ==
  ASSUME Shapes, InMcu, Colour422
  PROVE  InMcu'
<1> PICK m : m = Current
  OBVIOUS
<1>1. /\ TablesKept /\ m \in 0 .. (head.mcus - 1) /\ input = Begun /\ Written(m)
      /\ output = m /\ AllDecoded(m) /\ NextLoaded /\ \E i \in 0 .. 7 : Converting422(i)
      /\ stage = "422" /\ stage' = IF loop.inner = 1 THEN "end" ELSE stage
      /\ UNCHANGED <<mem, dram, head, count, input, output, jpegExit>>
  BY DEF InMcu, Colour422
<1>2. /\ TablesKept' /\ AllDecoded(m)' /\ NextLoaded' /\ Written(m)' /\ Current' = m /\ Begun' = Begun
  BY <1>1, BlocksStay
<1> PICK i \in 0 .. 7 : Converting422(i)
  BY <1>1
<1>3. /\ head.kind = 0 /\ loop.from = 1 + i /\ loop.table = 17 + i /\ loop.to = i - 1 /\ loop.inner = 8 - i
      /\ loop.next = <<PictureRow(m, i)>>
      /\ \E x : loop.result = <<x>> /\ (i > 0 => x = PictureRow(m, i - 1))
      /\ \A r \in 0 .. (i - 2) : pix[r] = PictureRow(m, r)
  BY DEF Converting422
<1>4. /\ loop'.from = 1 + (i + 1) /\ loop'.table = 17 + (i + 1) /\ loop'.to = (i + 1) - 1
      /\ loop'.inner = 8 - (i + 1) /\ loop'.next = <<PixelRow(1 + i, 17 + i)>>
      /\ loop'.result = <<PictureRow(m, i)>>
  BY <1>3 DEF Colour422, Shapes
<1> PICK x : loop.result = <<x>> /\ (i > 0 => x = PictureRow(m, i - 1))
  BY <1>3
<1>5. CASE i < 7
  <2>1. PixelRow(1 + i, 17 + i) = PictureRow(m, i + 1)
    <3>1. i + 1 \in 0 .. 7 /\ i + 1 = 1 + i /\ 16 + (i + 1) = 17 + i
      BY <1>5
    <3>2. PixelRow(i + 1, 16 + (i + 1)) = PictureRow(m, i + 1)
      BY <1>1, <1>3, <3>1, Row422
    <3> QED BY <3>1, <3>2
  <2>2. pix' = Stored(<<x>>, i - 1)
    BY <1>3, <1>5 DEF Colour422
  <2>3. Stored(<<x>>, i - 1)[i - 1] = x /\ \A r \in -2 .. 15 : r < i - 1 => Stored(<<x>>, i - 1)[r] = pix[r]
    <3> DEFINE to == i - 1
    <3>1. DOMAIN <<x>> = 1 .. 1 /\ <<x>>[1] = x /\ to \in -2 .. (16 - 1)
      OBVIOUS
    <3>2. (to + 1) - 1 = to
      OBVIOUS
    <3> HIDE DEF to
    <3>3. /\ \A k \in 1 .. 1 : Stored(<<x>>, to)[(to + k) - 1] = <<x>>[k]
          /\ \A r \in -2 .. 15 : r < to \/ r >= to + 1 => Stored(<<x>>, to)[r] = pix[r]
      BY <3>1, StoredRows
    <3>4. Stored(<<x>>, to)[to] = x /\ \A r \in -2 .. 15 : r < to => Stored(<<x>>, to)[r] = pix[r]
      BY <3>1, <3>2, <3>3
    <3> QED BY <3>4 DEF to
  <2>4. \A r \in 0 .. ((i + 1) - 2) : pix'[r] = PictureRow(m, r)
    <3> TAKE r \in 0 .. ((i + 1) - 2)
    <3>1. CASE r = i - 1
      BY <1>3, <2>2, <2>3, <3>1
    <3>2. CASE r < i - 1
      BY <1>3, <2>2, <2>3, <3>2
    <3> QED BY <3>1, <3>2
  <2>5. \A r : PictureRow(Current, r)' = PictureRow(m, r)
    BY <1>1, <1>2 DEF PictureRow, Decoded, Component, Blocks
  <2>6. Converting422(i + 1)'
    BY <1>1, <1>3, <1>4, <1>5, <2>1, <2>4, <2>5 DEF Converting422
  <2>7. stage' = "422"
    BY <1>1, <1>3, <1>5
  <2> QED BY <1>1, <1>2, <1>5, <2>6, <2>7 DEF InMcu
<1>6. CASE i = 7
  <2> DEFINE rows == <<x, PictureRow(m, 7)>>
  <2>1. pix' = Stored(rows, 6)
    <3>1. pix' = Stored(loop.result \o loop.next, loop.to) /\ loop.to = 6
      BY <1>3, <1>6 DEF Colour422
    <3>2. loop.result \o loop.next = rows
      <4>1. loop.result = <<x>> /\ loop.next = <<PictureRow(m, 7)>>
        BY <1>3, <1>6
      <4>2. \A y : <<x>> \o <<y>> = <<x, y>>
        BY JoinedTwo
      <4> QED BY <4>1, <4>2
    <3> QED BY <3>1, <3>2
  <2>2. DOMAIN rows = 1 .. 2 /\ rows[1] = PictureRow(m, 6) /\ rows[2] = PictureRow(m, 7)
    BY <1>6
  <2> HIDE DEF rows
  <2>3. /\ \A k \in 1 .. 2 : Stored(rows, 6)[(6 + k) - 1] = rows[k]
        /\ \A r \in -2 .. 15 : r < 6 \/ r >= 6 + 2 => Stored(rows, 6)[r] = pix[r]
    BY <2>2, StoredRows
  <2>4. /\ pix'[6] = PictureRow(m, 6) /\ pix'[7] = PictureRow(m, 7)
        /\ \A r \in 0 .. 5 : pix'[r] = PictureRow(m, r)
    BY <1>3, <1>6, <2>1, <2>2, <2>3
  <2>5. \A r \in 0 .. 7 : pix'[r] = PictureRow(m, r)
    BY <2>4
  <2>6. PixelsOf(m)'
    BY <1>1, <1>3, <2>5, Names, BlockCount DEF PixelsOf
  <2>7. stage' = "end"
    BY <1>1, <1>3, <1>6
  <2> QED BY <1>1, <1>2, <2>6, <2>7 DEF InMcu
<1> QED
  BY <1>5, <1>6

LEMMA Colour420Step ==
  ASSUME Shapes, InMcu, Colour420
  PROVE  InMcu'
<1> PICK m : m = Current
  OBVIOUS
<1>1. /\ TablesKept /\ m \in 0 .. (head.mcus - 1) /\ input = Begun /\ Written(m)
      /\ output = m /\ AllDecoded(m) /\ NextLoaded /\ \E i \in 0 .. 7 : Converting420(i)
      /\ stage = "420" /\ stage' = IF loop.inner = 1 /\ loop.outer = 1 THEN "end" ELSE stage
      /\ UNCHANGED <<mem, dram, head, count, input, output, jpegExit>>
  BY DEF InMcu, Colour420
<1>2. /\ TablesKept' /\ AllDecoded(m)' /\ NextLoaded' /\ Written(m)' /\ Current' = m /\ Begun' = Begun
  BY <1>1, BlocksStay
<1> PICK i \in 0 .. 7 : Converting420(i)
  BY <1>1
<1> DEFINE a == IF i < 3 THEN 2 * i + 2 ELSE 2 * i + 10
<1>3. /\ head.kind = 2 /\ loop.from = a /\ loop.table = 33 + i /\ loop.to = 2 * i - 2
      /\ IF i < 3 THEN loop.inner = 3 - i /\ loop.outer = 2 ELSE loop.inner = 8 - i /\ loop.outer = 1
      /\ loop.next = Pair(m, i)
      /\ \A r \in 0 .. (2 * i - 3) : pix[r] = PictureRow(m, r)
  BY DEF Converting420
<1>4. \E x : \E y : /\ loop.result = <<x, y>>
                    /\ i > 0 => x = PictureRow(m, 2 * i - 2) /\ y = PictureRow(m, 2 * i - 1)
  <2>1. i > 0 => 2 * (i - 1) = 2 * i - 2 /\ 2 * (i - 1) + 1 = 2 * i - 1
    OBVIOUS
  <2>2. i > 0 => Pair(m, i - 1) = <<PictureRow(m, 2 * i - 2), PictureRow(m, 2 * i - 1)>>
    BY <2>1 DEF Pair
  <2>3. CASE i = 0
    BY <2>3 DEF Converting420
  <2>4. CASE i > 0
    <3>1. loop.result = Pair(m, i - 1)
      BY <2>4 DEF Converting420
    <3> QED BY <2>2, <2>4, <3>1
  <2> QED BY <2>3, <2>4
<1> PICK x : \E y : /\ loop.result = <<x, y>>
                    /\ i > 0 => x = PictureRow(m, 2 * i - 2) /\ y = PictureRow(m, 2 * i - 1)
  BY <1>4
<1> PICK y : /\ loop.result = <<x, y>>
             /\ i > 0 => x = PictureRow(m, 2 * i - 2) /\ y = PictureRow(m, 2 * i - 1)
  OBVIOUS
<1>5. /\ i < 7 => loop'.from = (IF i < 2 THEN 2 * (i + 1) + 2 ELSE 2 * (i + 1) + 10)
      /\ loop'.table = 33 + (i + 1) /\ loop'.to = 2 * (i + 1) - 2
      /\ i < 2 => loop'.inner = 3 - (i + 1) /\ loop'.outer = 2
      /\ i \in 2 .. 6 => loop'.inner = 8 - (i + 1) /\ loop'.outer = 1
      /\ loop'.next = <<PixelRow(a, 33 + i), PixelRow(a + 1, 33 + i)>>
      /\ loop'.result = Pair(m, i)
  <2>1. /\ loop'.from = (IF loop.inner = 1 THEN loop.from + 10 ELSE loop.from + 2)
        /\ loop'.inner = (IF loop.inner = 1 THEN 5 ELSE loop.inner - 1)
        /\ loop'.outer = (IF loop.inner = 1 THEN loop.outer - 1 ELSE loop.outer)
    BY DEF Colour420, Shapes
  <2>2. /\ loop'.table = loop.table + 1 /\ loop'.to = loop.to + 2
        /\ loop'.next = <<PixelRow(loop.from, loop.table), PixelRow(loop.from + 1, loop.table)>>
        /\ loop'.result = loop.next
    BY DEF Colour420, Shapes
  <2>3. i < 7 => loop'.from = (IF i < 2 THEN 2 * (i + 1) + 2 ELSE 2 * (i + 1) + 10)
    BY <1>3, <2>1
  <2>4. /\ i < 2 => loop'.inner = 3 - (i + 1) /\ loop'.outer = 2
        /\ i \in 2 .. 6 => loop'.inner = 8 - (i + 1) /\ loop'.outer = 1
    BY <1>3, <2>1
  <2> QED BY <1>3, <2>2, <2>3, <2>4
<1>6. loop.inner = 1 /\ loop.outer = 1 <=> i = 7
  BY <1>3
<1>7. CASE i < 7
  <2>1. <<PixelRow(a, 33 + i), PixelRow(a + 1, 33 + i)>> = Pair(m, i + 1)
    <3>1. i + 1 \in 0 .. 7 /\ 32 + (i + 1) = 33 + i /\ a = IF i + 1 < 4 THEN 2 * (i + 1) ELSE 2 * (i + 1) + 8
      BY <1>7
    <3> HIDE DEF a
    <3>2. <<PixelRow(a, 32 + (i + 1)), PixelRow(a + 1, 32 + (i + 1))>> = Pair(m, i + 1)
      BY <1>1, <1>3, <3>1, Rows420
    <3> QED BY <3>1, <3>2
  <2> DEFINE rows == <<x, y>>
             to == 2 * i - 2
  <2>2. pix' = Stored(rows, to)
    BY <1>3, <1>6, <1>7 DEF Colour420
  <2>3. /\ DOMAIN rows = 1 .. 2 /\ to \in -2 .. (16 - 2) /\ (to + 1) - 1 = to /\ (to + 2) - 1 = 2 * i - 1
        /\ i > 0 => rows[1] = PictureRow(m, to) /\ rows[2] = PictureRow(m, 2 * i - 1)
    OBVIOUS
  <2>4. \A r \in 0 .. (2 * (i + 1) - 3) : r \in -2 .. 15 /\ (r < to \/ (i > 0 /\ (r = to \/ r = 2 * i - 1)))
    BY <1>7
  <2>5. \A r \in -2 .. 15 : r >= 0 /\ r < to => pix[r] = PictureRow(m, r)
    BY <1>3
  <2> HIDE DEF rows, to
  <2>6. /\ \A k \in 1 .. 2 : Stored(rows, to)[(to + k) - 1] = rows[k]
        /\ \A r \in -2 .. 15 : r < to \/ r >= to + 2 => Stored(rows, to)[r] = pix[r]
    BY <2>3, StoredRows
  <2>7. pix'[to] = rows[1] /\ pix'[2 * i - 1] = rows[2]
    BY <2>2, <2>3, <2>6
  <2>8. \A r \in 0 .. (2 * (i + 1) - 3) : pix'[r] = PictureRow(m, r)
    <3> TAKE r \in 0 .. (2 * (i + 1) - 3)
    <3>1. CASE r < to
      BY <2>2, <2>4, <2>5, <2>6, <3>1
    <3>2. CASE i > 0 /\ r = to
      BY <2>3, <2>7, <3>2
    <3>3. CASE i > 0 /\ r = 2 * i - 1
      BY <2>3, <2>7, <3>3
    <3> QED BY <2>4, <3>1, <3>2, <3>3
  <2>9. \A j : Pair(Current, j)' = Pair(m, j) /\ PictureRow(Current, j)' = PictureRow(m, j)
    BY <1>1, <1>2 DEF Pair, PictureRow, Decoded, Component, Blocks
  <2>10. Converting420(i + 1)'
    <3>1. /\ head'.kind = 2 /\ i + 1 # 0 /\ (i + 1) - 1 = i /\ loop'.next = Pair(m, i + 1)
          /\ loop'.table = 33 + (i + 1) /\ loop'.to = 2 * (i + 1) - 2 /\ loop'.result = Pair(m, (i + 1) - 1)
      BY <1>1, <1>3, <1>5, <2>1
    <3>2. IF i + 1 < 3
          THEN loop'.from = 2 * (i + 1) + 2 /\ loop'.inner = 3 - (i + 1) /\ loop'.outer = 2
          ELSE loop'.from = 2 * (i + 1) + 10 /\ loop'.inner = 8 - (i + 1) /\ loop'.outer = 1
      BY <1>5, <1>7
    <3> QED BY <2>8, <2>9, <3>1, <3>2 DEF Converting420
  <2>11. stage' = "420"
    BY <1>1, <1>6, <1>7
  <2> QED BY <1>1, <1>2, <1>7, <2>10, <2>11 DEF InMcu
<1>8. CASE i = 7
  <2> DEFINE rows == <<x, y, PictureRow(m, 14), PictureRow(m, 15)>>
  <2>1. pix' = Stored(rows, 12)
    <3>1. pix' = Stored(loop.result \o loop.next, loop.to) /\ loop.to = 12
      BY <1>3, <1>6, <1>8 DEF Colour420
    <3>2. loop.result \o loop.next = rows
      <4>1. loop.result = <<x, y>> /\ loop.next = <<PictureRow(m, 14), PictureRow(m, 15)>>
        BY <1>3, <1>8 DEF Pair
      <4>2. <<x, y>> \o <<PictureRow(m, 14), PictureRow(m, 15)>> = rows
        BY JoinedFour
      <4> QED BY <4>1, <4>2
    <3> QED BY <3>1, <3>2
  <2>2. /\ DOMAIN rows = 1 .. 4 /\ rows[1] = PictureRow(m, 12) /\ rows[2] = PictureRow(m, 13)
        /\ rows[3] = PictureRow(m, 14) /\ rows[4] = PictureRow(m, 15)
    BY <1>8
  <2> HIDE DEF rows
  <2>3. /\ \A k \in 1 .. 4 : Stored(rows, 12)[(12 + k) - 1] = rows[k]
        /\ \A r \in -2 .. 15 : r < 12 \/ r >= 12 + 4 => Stored(rows, 12)[r] = pix[r]
    BY <2>2, StoredRows
  <2>4. /\ pix'[12] = PictureRow(m, 12) /\ pix'[13] = PictureRow(m, 13)
        /\ pix'[14] = PictureRow(m, 14) /\ pix'[15] = PictureRow(m, 15)
        /\ \A r \in 0 .. 11 : pix'[r] = PictureRow(m, r)
    BY <1>3, <1>8, <2>1, <2>2, <2>3
  <2>5. \A r \in 0 .. 15 : pix'[r] = PictureRow(m, r)
    BY <2>4
  <2>6. PixelsOf(m)'
    <3>1. Rows(head.kind)' = 16 /\ \A r : PictureRow(m, r)' = PictureRow(m, r)
      BY <1>1, <1>3, Names, BlockCount
    <3> QED BY <2>5, <3>1 DEF PixelsOf
  <2>7. stage' = "end"
    BY <1>1, <1>6, <1>8
  <2> QED BY <1>1, <1>2, <2>6, <2>7 DEF InMcu
<1> QED
  BY <1>7, <1>8

LEMMA NextMcuStep ==
  ASSUME Shapes, InMcu, NextMcu
  PROVE  BeforeMcu'
<1> PICK m : m = Current
  OBVIOUS
<1>1. /\ TablesKept /\ m \in 0 .. (head.mcus - 1) /\ input = Begun /\ Written(m)
      /\ output = m /\ PixelsOf(m) /\ NextLoaded /\ count.left # 0
      /\ input' = input + 1 /\ stage' = "mcu"
      /\ UNCHANGED <<mem, pix, dram, head, count, output>>
  BY DEF InMcu, NextMcu
<1>2. /\ Begun' = m + 1 /\ Begun = m + 1 /\ m + 1 \in 0 .. (head.mcus - 1) /\ (m + 1) - 1 = m
  BY <1>1 DEF Begun, Current, Shapes, JpegTypeOK
<1>3. TablesKept' /\ Written(m)' /\ PixelsOf(m)' /\ Loaded(m + 1)'
  BY <1>1, <1>2, Names DEF TablesKept, Written, PixelsOf, NextLoaded, Loaded
<1>4. (Written(Begun - 1) /\ PixelsOf(Begun - 1) /\ Loaded(Begun))'
  BY <1>2, <1>3
<1> QED
  BY <1>1, <1>2, <1>3, <1>4 DEF BeforeMcu

LEMMA LastMcuStep ==
  ASSUME Shapes, InMcu, LastMcu
  PROVE  Written(head.mcus)'
<1>1. /\ Current \in 0 .. (head.mcus - 1) /\ Written(Current)
      /\ output = Current /\ PixelsOf(Current) /\ count.left = 0
      /\ dram' = StorePixels /\ head' = head
  BY DEF InMcu, LastMcu
<1> PICK n : n = head.mcus
  OBVIOUS
<1>2. Current = n - 1 /\ n \in 1 .. head.mcus
  BY <1>1 DEF Begun, Current, Shapes, JpegTypeOK
<1>3. Written(n - 1) /\ PixelsOf(n - 1) /\ output = n - 1
  BY <1>1, <1>2
<1>4. Written(n)'
  BY <1>1, <1>2, <1>3, PixelsStored
<1> QED
  BY <1>1, <1>4

LEMMA JpegStepInv ==
  ASSUME JpegInv, JpegStep
  PROVE  JpegInv'
<1>1. Shapes /\ Shapes'
  BY ShapesKept DEF JpegInv
<1>2. head' = head /\ stage # "idle"
  BY DEF JpegStep, FirstMcu, BeginMcu, Watchdog, Dequantise, Zigzag, Prefetch, Idct, Begin422,
         Colour422, Begin420, Colour420, NextMcu, LastMcu
<1>3. ASSUME head.mcus > 0
      PROVE  PictureInMemory'
  <2>1. BeforeMcu \/ InMcu
    BY <1>2, <1>3 DEF JpegInv, PictureInMemory
  <2>2. CASE FirstMcu \/ BeginMcu \/ Watchdog
    <3>1. BeforeMcu
      BY <2>1, <2>2 DEF InMcu, FirstMcu, BeginMcu, Watchdog
    <3>2. BeforeMcu' \/ InMcu'
      BY <1>1, <2>2, <3>1, FirstMcuStep, BeginMcuStep, NoWatchdog
    <3>3. stage' # "idle" /\ jpegExit' = jpegExit
      BY <1>1, <2>2, <3>1, NoWatchdog DEF FirstMcu, BeginMcu
    <3> QED BY <1>2, <1>3, <3>2, <3>3 DEF JpegInv, PictureInMemory
  <2>3. CASE Dequantise \/ Zigzag \/ Prefetch \/ Idct \/ Begin422 \/ Colour422 \/ Begin420 \/ Colour420
    <3>1. InMcu
      BY <2>1, <2>3 DEF BeforeMcu, Dequantise, Zigzag, Prefetch, Idct, Begin422, Colour422, Begin420, Colour420
    <3>2. InMcu'
      BY <1>1, <2>3, <3>1, DequantiseStep, ZigzagStep, PrefetchStep, IdctStep, Begin422Step,
         Colour422Step, Begin420Step, Colour420Step
    <3>3. stage' # "idle" /\ jpegExit' = jpegExit
      BY <2>3 DEF Dequantise, Zigzag, Prefetch, Idct, Begin422, Colour422, Begin420, Colour420
    <3> QED BY <1>2, <1>3, <3>2, <3>3 DEF JpegInv, PictureInMemory
  <2>4. CASE NextMcu
    <3>1. InMcu
      BY <2>1, <2>4 DEF BeforeMcu, NextMcu
    <3>2. BeforeMcu'
      BY <1>1, <2>4, <3>1, NextMcuStep
    <3>3. stage' # "idle" /\ jpegExit' = jpegExit
      BY <2>4 DEF NextMcu
    <3> QED BY <1>2, <1>3, <3>2, <3>3 DEF JpegInv, PictureInMemory
  <2>5. CASE LastMcu
    <3>1. InMcu
      BY <2>1, <2>5 DEF BeforeMcu, LastMcu
    <3>2. Written(head.mcus)'
      BY <1>1, <2>5, <3>1, LastMcuStep
    <3>3. stage' = "idle" /\ jpegExit' = "Broke"
      BY <2>5 DEF LastMcu
    <3> QED BY <3>2, <3>3 DEF PictureInMemory
  <2> QED
    BY <2>2, <2>3, <2>4, <2>5 DEF JpegStep
<1> QED
  BY <1>1, <1>2, <1>3 DEF JpegInv

\* A picture begins in whatever memory the last task left.
LEMMA BeginJpegInv ==
  ASSUME JpegInv, NEW mcus \in 0 .. MaxMcus, NEW kind \in {0, 2}, BeginJpeg(mcus, kind)
  PROVE  JpegInv'
<1>1. /\ stage = "idle" /\ head' = [task |-> head.task + 1, mcus |-> mcus, kind |-> kind]
      /\ dram' = [m \in DOMAIN dram |-> IF m \in 0..(mcus - 1)
                                       THEN Coefficients(head.task + 1, m, kind) ELSE <<>>]
      /\ mem' = TablesLoaded(head.task + 1) /\ count' = [all |-> mcus, left |-> mcus]
      /\ input' = 0 /\ output' = -1 /\ jpegExit' = "none" /\ stage' = "first"
      /\ UNCHANGED <<pix, loop>> /\ Shapes
  BY DEF BeginJpeg, JpegInv
<1>2. Shapes'
  <2>1. DOMAIN mem' = 0 .. 30 /\ DOMAIN dram' = -1 .. (WatchdogLimit + 1)
    BY <1>1 DEF Shapes, TablesLoaded
  <2>2. /\ DOMAIN head' = {"task", "mcus", "kind"} /\ DOMAIN count' = {"all", "left"}
        /\ head'.mcus = mcus /\ head'.kind = kind /\ head'.task \in Nat
        /\ count'.all = mcus /\ count'.left = mcus /\ mcus \in Int
    BY <1>1 DEF Shapes
  <2> QED BY <1>1, <2>1, <2>2 DEF Shapes, JpegTypeOK
<1>3. ASSUME mcus > 0
      PROVE  BeforeMcu'
  <2>1. Begun' = 0 /\ (Begun' - 1) = -1
    BY <1>1 DEF Begun
  <2>2. TablesKept'
    BY <1>1 DEF TablesKept, TablesLoaded, Shapes
  <2>3. Written(-1)'
    BY <1>1 DEF Written, Shapes
  <2>4. Written(Begun - 1)'
    BY <2>1, <2>3
  <2> QED BY <1>1, <1>3, <2>1, <2>2, <2>4 DEF BeforeMcu
<1>4. head'.mcus > 0 => PictureInMemory'
  BY <1>1, <1>3 DEF PictureInMemory
<1> QED
  BY <1>2, <1>4 DEF JpegInv

LEMMA InitJpegInv == JpegInit => JpegInv
BY JpegAssumption DEF JpegInit, JpegInv, Shapes, JpegTypeOK

\* Between two pictures the audio's tasks may overwrite the blocks and rows.
LEMMA JpegRests ==
  ASSUME JpegInv, stage = "idle", DOMAIN mem' = DOMAIN mem, DOMAIN pix' = DOMAIN pix,
         UNCHANGED <<stage, dram, head, count, input, output, loop, jpegExit>>
  PROVE  JpegInv'
<1>1. Shapes'
  BY DEF JpegInv, Shapes, JpegTypeOK
<1>2. Written(head.mcus)' <=> Written(head.mcus)
  BY Names DEF Written
<1> QED
  BY <1>1, <1>2 DEF JpegInv, PictureInMemory

\* Nothing else writes the microcode's registers and memory.
LEMMA JpegUntouched ==
  ASSUME JpegInv, UNCHANGED jpegVars
  PROVE  JpegInv'
<1>1. UNCHANGED <<stage, mem, pix, dram, head, count, input, output, loop, jpegExit>>
  BY DEF jpegVars
<1>2. /\ McuBlocks' = McuBlocks /\ Blocks(head.kind)' = Blocks(head.kind)
      /\ Rows(head.kind)' = Rows(head.kind)
      /\ \A m, b : /\ Raw(m, b)' = Raw(m, b) /\ Dequantised(m, b)' = Dequantised(m, b)
                   /\ Reordered(m, b)' = Reordered(m, b) /\ Decoded(m, b)' = Decoded(m, b)
      /\ \A m, r : PictureRow(m, r)' = PictureRow(m, r) /\ Pair(m, r)' = Pair(m, r)
      /\ \A m : Picture(m)' = Picture(m)
  BY <1>1, Names
<1>3. Begun' = Begun /\ Current' = Current /\ TablesKept' = TablesKept
  BY <1>1 DEF Begun, Current, TablesKept
<1>4. /\ \A m : Loaded(m)' = Loaded(m)
      /\ \A m : PixelsOf(m)' = PixelsOf(m)
      /\ \A m : AllDequantised(m)' = AllDequantised(m)
      /\ \A m : AllReordered(m)' = AllReordered(m)
      /\ \A m : AllDecoded(m)' = AllDecoded(m)
      /\ \A n : Written(n)' = Written(n)
  <2>1. \A m : Loaded(m)' = Loaded(m)
    BY <1>1, <1>2 DEF Loaded
  <2>2. \A m : PixelsOf(m)' = PixelsOf(m)
    BY <1>1, <1>2 DEF PixelsOf
  <2>3. \A m : AllDequantised(m)' = AllDequantised(m)
    BY <1>1, <1>2 DEF AllDequantised
  <2>4. \A m : AllReordered(m)' = AllReordered(m)
    BY <1>1, <1>2 DEF AllReordered
  <2>5. \A m : AllDecoded(m)' = AllDecoded(m)
    BY <1>1, <1>2 DEF AllDecoded
  <2>6. \A n : Written(n)' = Written(n)
    BY <1>1, <1>2 DEF Written
  <2> QED BY <2>1, <2>2, <2>3, <2>4, <2>5, <2>6
<1>5. \A i : /\ Dequantising(i)' = Dequantising(i) /\ Transforming(i)' = Transforming(i)
            /\ Converting422(i)' = Converting422(i) /\ Converting420(i)' = Converting420(i)
  <2>1. \A i : Dequantising(i)' = Dequantising(i)
    BY <1>1, <1>2, <1>3 DEF Dequantising
  <2>2. \A i : Transforming(i)' = Transforming(i)
    BY <1>1, <1>2, <1>3 DEF Transforming
  <2>3. \A i : Converting422(i)' = Converting422(i)
    BY <1>1, <1>2, <1>3 DEF Converting422
  <2>4. \A i : Converting420(i)' = Converting420(i)
    BY <1>1, <1>2, <1>3 DEF Converting420
  <2> QED BY <2>1, <2>2, <2>3, <2>4
<1>6. NextLoaded' = NextLoaded
  BY <1>1, <1>3, <1>4 DEF NextLoaded
<1>7. Shapes' = Shapes
  BY <1>1 DEF Shapes, JpegTypeOK
<1>8. BeforeMcu' = BeforeMcu /\ InMcu' = InMcu
  BY <1>1, <1>2, <1>3, <1>4, <1>5, <1>6 DEF BeforeMcu, InMcu
<1> QED
  BY <1>1, <1>4, <1>7, <1>8 DEF JpegInv, PictureInMemory

\* What the invariant says of the picture in memory.
LEMMA JpegInvPictures == JpegInv => PicturesRight
<1> SUFFICES ASSUME JpegInv, head.mcus > 0
             PROVE  /\ stage = "idle" => jpegExit = "Broke"
                    /\ \A m \in DOMAIN dram :
                          IF m \in 0..(head.mcus - 1)
                          THEN \/ dram[m] = Picture(m)
                               \/ stage # "idle" /\ dram[m] = Coefficients(head.task, m, head.kind)
                          ELSE dram[m] = <<>>
  BY DEF JpegInv, Shapes, PicturesRight
<1>1. Shapes /\ PictureInMemory
  BY DEF JpegInv
<1>2. \E n : Written(n) /\ (stage = "idle" => n = head.mcus)
  BY <1>1 DEF PictureInMemory, BeforeMcu, InMcu
<1>3. stage = "idle" => jpegExit = "Broke"
  BY <1>1 DEF PictureInMemory, Shapes, JpegTypeOK
<1>4. ASSUME NEW m \in DOMAIN dram, m \in 0..(head.mcus - 1)
      PROVE  \/ dram[m] = Picture(m)
             \/ stage # "idle" /\ dram[m] = Coefficients(head.task, m, head.kind)
  BY <1>1, <1>2, <1>4 DEF Written, Shapes, JpegTypeOK
<1>5. ASSUME NEW m \in DOMAIN dram, m \notin 0..(head.mcus - 1)
      PROVE  dram[m] = <<>>
  BY <1>2, <1>5 DEF Written
<1> QED
  BY <1>3, <1>4, <1>5

\* Whatever tasks the game sends, and whatever they leave in the memory that
\* both microcodes use: the MCUs of a picture are coefficients or their own
\* finished pixels, and all are pixels when its task ends.
THEOREM PicturesDecoded == Spec => []PicturesRight
<1>1. RspInit => JpegInv
  BY InitJpegInv DEF RspInit
<1>2. ASSUME JpegInv, [Next]_rspVars
      PROVE  JpegInv'
  <2>1. CASE AudioBegins
    BY <1>2, <2>1, JpegRests DEF AudioBegins, Dispatched, Idle
  <2>2. CASE PictureBegins
    BY <1>2, <2>2, BeginJpegInv DEF PictureBegins
  <2>3. CASE UnknownTask
    BY <1>2, <2>3, JpegUntouched DEF UnknownTask
  <2>4. CASE Run
    BY <1>2, <2>4, JpegUntouched, JpegStepInv DEF Run
  <2>5. CASE UNCHANGED rspVars
    BY <1>2, <2>5, JpegUntouched DEF rspVars
  <2> QED
    BY <1>2, <2>1, <2>2, <2>3, <2>4, <2>5 DEF Next
<1> QED
  BY <1>1, <1>2, JpegInvPictures, PTL DEF Spec

-----------------------------------------------------------------------------
(* The frames: runs and sequences *)

\* A set of naturals that is not empty has a least member.
LEMMA LeastNatural ==
  ASSUME NEW T \in SUBSET Nat, T # {}
  PROVE  \E x \in T : \A y \in T : x <= y
<1> DEFINE R == OpToRel(<, Nat)
<1>1. IsWellFoundedOn(R, Nat)
  BY NatLessThanWellFounded
<1>2. \A a, b \in Nat : a < b => <<a, b>> \in R
  BY DEF OpToRel
<1> HIDE DEF R
<1>3. PICK x \in T : \A y \in T : ~ (<<y, x>> \in R)
  BY <1>1, WFMin
<1>4. \A y \in T : ~ (y < x)
  BY <1>2, <1>3
<1> QED BY <1>4

\* Two functions that start alike and go on alike are the same.
Alike(f, h, n) == f[0] = h[0] /\ \A i \in 1 .. n : f[i - 1] = h[i - 1] => f[i] = h[i]
Same(f, h, n) == \A i \in 0 .. n : f[i] = h[i]

\* Two functions that start alike and go on alike are the same.
LEMMA SameRun ==
  ASSUME NEW n \in Nat, NEW f, NEW h, Alike(f, h, n)
  PROVE  Same(f, h, n)
<1> DEFINE T == {i \in 0 .. n : f[i] # h[i]}
<1> SUFFICES ASSUME T # {} PROVE FALSE
  BY DEF Same
<1>1. T \in SUBSET Nat
  OBVIOUS
<1>2. PICK i \in T : \A j \in T : i <= j
  <2> HIDE DEF T
  <2> QED BY <1>1, LeastNatural
<1>3. i \in 1 .. n
  BY <1>2 DEF Alike
<1>4. f[i - 1] = h[i - 1]
  BY <1>2, <1>3
<1> QED BY <1>2, <1>3, <1>4 DEF Alike

\* The volumes of a ramp are those of any function that follows it.
FollowsRamp(f, ramp, vol) ==
    f = [g \in 0 .. Groups |-> f[g]] /\ f[0] = vol /\ \A g \in 1 .. Groups : f[g] = Ramp(ramp, f[g - 1])

\* A function that follows the ramp is the ramp EnvMixer computes: there is
\* no other.
LEMMA RampedIs ==
  ASSUME NEW ramp, NEW vol, NEW f, FollowsRamp(f, ramp, vol)
  PROVE  Ramped(ramp, vol) = f
<1>0. f = [g \in 0 .. Groups |-> f[g]] /\ f[0] = vol /\ \A g \in 1 .. Groups : f[g] = Ramp(ramp, f[g - 1])
  BY DEF FollowsRamp
<1> DEFINE Step(h) == [g \in 0 .. Groups |-> IF g = 0 THEN vol ELSE Ramp(ramp, h[g - 1])]
           level == CHOOSE h : h = Step(h)
<1>1. f = Step(f)
  <2>1. \A g \in 0 .. Groups : g = 0 \/ g \in 1 .. Groups
    BY VoiceAssumption
  <2> QED BY <1>0, <2>1, Zenon
<1>2. level = Step(level)
  BY <1>1
<1>3. Ramped(ramp, vol) = level
  BY DEF Ramped
<1> HIDE DEF level
<1>4. /\ level[0] = vol
      /\ \A g \in 1 .. Groups : level[g] = Ramp(ramp, level[g - 1])
  <2>1. \A g \in 0 .. Groups : level[g] = IF g = 0 THEN vol ELSE Ramp(ramp, level[g - 1])
    BY <1>2, Zenon
  <2>2. Groups \in Nat
    BY VoiceAssumption
  <2> HIDE DEF Step
  <2>3. 0 \in 0 .. Groups /\ \A g \in 1 .. Groups : g \in 0 .. Groups /\ g # 0
    BY <2>2
  <2> QED BY <2>1, <2>3, Zenon
<1>5. \A g \in 0 .. Groups : level[g] = f[g]
  <2>1. Alike(level, f, Groups) /\ Groups \in Nat
    BY <1>0, <1>4, VoiceAssumption DEF Alike
  <2> QED BY <2>1, SameRun DEF Same
<1>6. level = [g \in 0 .. Groups |-> level[g]]
  BY <1>2
<1> HIDE DEF Step
<1>7. level = f
  BY <1>0, <1>5, <1>6
<1> QED BY <1>3, <1>7

\* The same of the blocks a command decodes.
FollowsDecode(f, book, history, blocks, n) ==
    /\ f = [i \in 0 .. n |-> f[i]] /\ f[0] = history
    /\ \A i \in 1 .. n : f[i] = Decode(book, f[i - 1], blocks[i])

\* A function that follows the decoder is what Adpcm decodes: there is no other.
LEMMA DecodedIs ==
  ASSUME NEW book, NEW history, NEW blocks, NEW n \in Nat, NEW f, FollowsDecode(f, book, history, blocks, n)
  PROVE  DecodedBlocks(book, history, blocks, n) = f
<1>0. /\ f = [i \in 0 .. n |-> f[i]] /\ f[0] = history
      /\ \A i \in 1 .. n : f[i] = Decode(book, f[i - 1], blocks[i])
  BY DEF FollowsDecode
<1> DEFINE Step(h) == [i \in 0 .. n |-> IF i = 0 THEN history ELSE Decode(book, h[i - 1], blocks[i])]
           block == CHOOSE h : h = Step(h)
<1>1. f = Step(f)
  <2>1. \A i \in 0 .. n : i = 0 \/ i \in 1 .. n
    OBVIOUS
  <2> QED BY <1>0, <2>1, Zenon
<1>2. block = Step(block)
  BY <1>1
<1>3. DecodedBlocks(book, history, blocks, n) = block
  BY DEF DecodedBlocks
<1> HIDE DEF block
<1>4. /\ block[0] = history
      /\ \A i \in 1 .. n : block[i] = Decode(book, block[i - 1], blocks[i])
  <2>1. \A i \in 0 .. n : block[i] = IF i = 0 THEN history ELSE Decode(book, block[i - 1], blocks[i])
    BY <1>2, Zenon
  <2> HIDE DEF Step
  <2>2. 0 \in 0 .. n /\ \A i \in 1 .. n : i \in 0 .. n /\ i # 0
    OBVIOUS
  <2> QED BY <2>1, <2>2, Zenon
<1>5. \A i \in 0 .. n : block[i] = f[i]
  <2>1. Alike(block, f, n)
    BY <1>0, <1>4 DEF Alike
  <2> QED BY <2>1, SameRun DEF Same
<1>6. block = [i \in 0 .. n |-> block[i]]
  BY <1>2
<1> HIDE DEF Step
<1>7. block = f
  BY <1>0, <1>5, <1>6
<1> QED BY <1>3, <1>7

\* f flattens seqs, sequence by sequence.
Flattens(f, seqs, n) ==
    f = [i \in 1 .. n |-> IF i = 1 THEN seqs[i] ELSE f[i - 1] \o seqs[i]]

\* There is a function that flattens any number of sequences.
LEMMA FlattensExists ==
  ASSUME NEW seqs, NEW n \in Nat
  PROVE  \E f : Flattens(f, seqs, n)
<1> DEFINE T == {k \in Nat : ~ \E f : Flattens(f, seqs, k)}
<1> SUFFICES ASSUME T # {} PROVE FALSE
  OBVIOUS
<1>1. T \in SUBSET Nat
  OBVIOUS
<1>2. PICK k \in T : \A j \in T : k <= j
  <2> HIDE DEF T
  <2> QED BY <1>1, LeastNatural
<1>3. CASE k = 0
  <2>1. Flattens([i \in 1 .. 0 |-> seqs[i]], seqs, 0)
    BY DEF Flattens
  <2> QED BY <1>3, <2>1
<1>4. CASE k # 0
  <2>1. k - 1 \in Nat /\ k - 1 \notin T
    BY <1>2, <1>4
  <2>2. PICK f : Flattens(f, seqs, k - 1)
    BY <2>1
  <2> DEFINE h == [i \in 1 .. k |-> IF i = k THEN IF k = 1 THEN seqs[k] ELSE f[k - 1] \o seqs[k]
                                    ELSE f[i]]
  <2>3. \A i \in 1 .. k : h[i] = IF i = 1 THEN seqs[i] ELSE h[i - 1] \o seqs[i]
    <3> TAKE i \in 1 .. k
    <3>1. CASE i = k
      BY <3>1, <1>4
    <3>2. CASE i # k
      <4>1. i \in 1 .. (k - 1) /\ h[i] = f[i] /\ (i # 1 => i - 1 \in 1 .. k /\ h[i - 1] = f[i - 1])
        BY <3>2
      <4>2. f[i] = IF i = 1 THEN seqs[i] ELSE f[i - 1] \o seqs[i]
        <5> HIDE DEF h
        <5> QED BY <2>2, <4>1 DEF Flattens
      <4> HIDE DEF h
      <4> QED BY <4>1, <4>2
    <3> QED BY <3>1, <3>2
  <2>4. h = [i \in 1 .. k |-> h[i]]
    OBVIOUS
  <2> HIDE DEF h
  <2>5. Flattens(h, seqs, k)
    BY <2>3, <2>4 DEF Flattens
  <2> QED BY <1>2, <2>5
<1> QED BY <1>3, <1>4

\* FlattenSeq ends with the last value of such a function.
LEMMA FlattenSeqIs ==
  ASSUME NEW S, NEW seqs \in Seq(S), Len(seqs) # 0
  PROVE  \E f : Flattens(f, seqs, Len(seqs)) /\ FlattenSeq(seqs) = f[Len(seqs)]
<1> DEFINE n == Len(seqs)
           flatten == CHOOSE f : Flattens(f, seqs, n)
<1>1. n \in Nat
  OBVIOUS
<1>2. Flattens(flatten, seqs, n)
  <2> HIDE DEF n
  <2> QED BY <1>1, FlattensExists
<1>3. FlattenSeq(seqs) = flatten[n]
  BY DEF FlattenSeq, Flattens
<1> HIDE DEF flatten
<1> QED BY <1>2, <1>3

\* Sequences flatten to a sequence.
LEMMA FlattenTyped ==
  ASSUME NEW S, NEW seqs \in Seq(Seq(S))
  PROVE  FlattenSeq(seqs) \in Seq(S)
<1>1. CASE Len(seqs) = 0
  <2>1. seqs = << >>
    BY <1>1
  <2>2. FlattenSeq(seqs) = seqs
    BY <1>1 DEF FlattenSeq
  <2> QED BY <2>1, <2>2, EmptySeq
<1>2. CASE Len(seqs) # 0
  <2>1. PICK f : Flattens(f, seqs, Len(seqs)) /\ FlattenSeq(seqs) = f[Len(seqs)]
    BY <1>2, FlattenSeqIs
  <2> DEFINE n == Len(seqs)
             T == {i \in 1 .. n : f[i] \notin Seq(S)}
  <2>2. n \in Nat /\ T \in SUBSET Nat
    OBVIOUS
  <2>3. \A i \in 1 .. n : f[i] = IF i = 1 THEN seqs[i] ELSE f[i - 1] \o seqs[i]
    BY <2>1 DEF Flattens
  <2>4. T = {}
    <3> SUFFICES ASSUME T # {} PROVE FALSE
      OBVIOUS
    <3>1. PICK i \in T : \A j \in T : i <= j
      <4> HIDE DEF T
      <4> QED BY <2>2, LeastNatural
    <3>2. i \in 1 .. n /\ seqs[i] \in Seq(S)
      BY <3>1
    <3>3. i # 1
      BY <2>3, <3>1, <3>2
    <3>4. i - 1 \in 1 .. n /\ i - 1 \notin T
      BY <2>2, <3>1, <3>2, <3>3
    <3>5. f[i - 1] \in Seq(S)
      BY <3>4
    <3>6. f[i] = f[i - 1] \o seqs[i]
      BY <2>3, <3>2, <3>3
    <3>7. f[i] \in Seq(S)
      BY <3>2, <3>5, <3>6, ConcatProperties
    <3> QED BY <3>1, <3>7
  <2> QED BY <1>2, <2>1, <2>2, <2>4
<1> QED BY <1>1, <1>2

\* A sequence at the end is flattened last.
LEMMA FlattenAppend ==
  ASSUME NEW S, NEW seqs \in Seq(Seq(S)), NEW x \in Seq(S)
  PROVE  FlattenSeq(Append(seqs, x)) = FlattenSeq(seqs) \o x
<1> DEFINE n == Len(seqs)
           more == Append(seqs, x)
<1>0. n \in Nat
  OBVIOUS
<1>1. n \in Nat /\ more \in Seq(Seq(S)) /\ Len(more) = n + 1 /\ more[n + 1] = x
      /\ \A i \in 1 .. n : more[i] = seqs[i]
  OBVIOUS
<1>2. PICK h : Flattens(h, more, n + 1) /\ FlattenSeq(more) = h[n + 1]
  <2>1. Len(more) # 0
    BY <1>1
  <2> HIDE DEF n, more
  <2> QED BY <1>1, <2>1, FlattenSeqIs
<1>3. \A i \in 1 .. n + 1 : h[i] = IF i = 1 THEN more[i] ELSE h[i - 1] \o more[i]
  <2> HIDE DEF more
  <2> QED BY <1>2 DEF Flattens
<1>4. CASE n = 0
  <2>1. h[1] = x
    <3> HIDE DEF more, n
    <3> QED BY <1>1, <1>3, <1>4
  <2>2. FlattenSeq(seqs) = << >>
    BY <1>4 DEF FlattenSeq
  <2> QED BY <1>2, <1>4, <2>1, <2>2, ConcatEmptySeq
<1>5. CASE n # 0
  <2>1. PICK f : Flattens(f, seqs, n) /\ FlattenSeq(seqs) = f[n]
    BY <1>5, FlattenSeqIs
  <2>2. \A i \in 1 .. n : f[i] = IF i = 1 THEN seqs[i] ELSE f[i - 1] \o seqs[i]
    <3> HIDE DEF n
    <3> QED BY <2>1 DEF Flattens
  <2> DEFINE T == {i \in 1 .. n : f[i] # h[i]}
  <2> HIDE DEF n, more
  <2>3. T = {}
    <3> SUFFICES ASSUME T # {} PROVE FALSE
      OBVIOUS
    <3>1. PICK i \in T : \A j \in T : i <= j
      <4>1. T \in SUBSET Nat
        BY <1>1
      <4> HIDE DEF T
      <4> QED BY <4>1, LeastNatural
    <3>2. i \in 1 .. n /\ i \in 1 .. n + 1 /\ more[i] = seqs[i]
      BY <1>1, <3>1
    <3>3. i # 1
      BY <1>3, <2>2, <3>1, <3>2
    <3>4. i - 1 \in 1 .. n /\ i - 1 \notin T
      BY <1>1, <3>1, <3>2, <3>3
    <3>5. f[i - 1] = h[i - 1]
      BY <3>4
    <3> QED BY <1>3, <2>2, <3>1, <3>2, <3>3, <3>5
  <2>4. f[n] = h[n]
    <3>1. n \in 1 .. n
      BY <1>0, <1>5
    <3> QED BY <2>3, <3>1
  <2>5. h[n + 1] = h[n] \o x
    <3>1. n + 1 \in 1 .. n + 1 /\ n + 1 # 1 /\ (n + 1) - 1 = n
      BY <1>0, <1>5
    <3> QED BY <1>1, <1>3, <3>1
  <2> QED BY <1>2, <2>1, <2>4, <2>5 DEF more
<1> QED BY <1>4, <1>5

\* A sequence that is not empty has a last element.
LEMMA FrontAndLast ==
  ASSUME NEW T, NEW s \in Seq(T), Len(s) # 0
  PROVE  \E front \in Seq(T), last \in T : s = Append(front, last) /\ Len(front) = Len(s) - 1
<1>1. s # << >>
  BY EmptySeq
<1>2. PICK front \in Seq(T), last \in T : s = Append(front, last)
  BY <1>1, SequenceEmptyOrAppend
<1>3. Len(s) = Len(front) + 1 /\ Len(front) \in Nat
  BY <1>2, AppendProperties
<1> QED BY <1>2, <1>3

\* A command may be put in front before or after one is appended.
LEMMA ConsOfAppend ==
  ASSUME NEW T, NEW s \in Seq(T), NEW x \in T, NEW y \in T
  PROVE  <<x>> \o s \in Seq(T) /\ <<x>> \o Append(s, y) = Append(<<x>> \o s, y)
<1>1. <<x>> \in Seq(T) /\ <<y>> \in Seq(T)
  OBVIOUS
<1>2. <<x>> \o s \in Seq(T)
  BY <1>1, ConcatProperties
<1>3. Append(s, y) = s \o <<y>> /\ Append(<<x>> \o s, y) = (<<x>> \o s) \o <<y>>
  BY <1>2, AppendIsConcat
<1>4. (<<x>> \o s) \o <<y>> = <<x>> \o (s \o <<y>>)
  BY <1>1, ConcatAssociative
<1> QED BY <1>2, <1>3, <1>4

\* A sequence in front is flattened first.
LEMMA FlattenCons ==
  ASSUME NEW S, NEW seqs \in Seq(Seq(S)), NEW x \in Seq(S)
  PROVE  FlattenSeq(<<x>> \o seqs) = x \o FlattenSeq(seqs)
<1> DEFINE Bad(n) == \E s \in Seq(Seq(S)) : Len(s) = n /\ FlattenSeq(<<x>> \o s) # x \o FlattenSeq(s)
           T == {n \in Nat : Bad(n)}
<1>1. T = {}
  <2> SUFFICES ASSUME T # {} PROVE FALSE
    OBVIOUS
  <2>1. PICK n \in T : \A m \in T : n <= m
    <3>1. T \in SUBSET Nat
      OBVIOUS
    <3> HIDE DEF T
    <3> QED BY <3>1, LeastNatural
  <2>2. PICK s \in Seq(Seq(S)) : Len(s) = n /\ FlattenSeq(<<x>> \o s) # x \o FlattenSeq(s)
    BY <2>1
  <2>3. CASE n = 0
    <3>1. s = << >> /\ FlattenSeq(s) = << >>
      <4>1. Len(s) = 0
        BY <2>2, <2>3
      <4>2. s = << >>
        BY <4>1
      <4> QED BY <4>1, <4>2 DEF FlattenSeq
    <3>2. <<x>> \o s = Append(<< >>, x)
      BY <3>1
    <3>3. FlattenSeq(Append(<< >>, x)) = << >> \o x
      <4>1. << >> \in Seq(Seq(S)) /\ FlattenSeq(<< >>) = << >>
        BY <3>1
      <4> QED BY <4>1, FlattenAppend
    <3> QED BY <2>2, <3>1, <3>2, <3>3, ConcatEmptySeq
  <2>4. CASE n # 0
    <3>0. n \in Nat /\ n - 1 \in Nat /\ n - 1 < n
      BY <2>1, <2>4
    <3>1. PICK front \in Seq(Seq(S)), last \in Seq(S) :
            s = Append(front, last) /\ Len(front) = n - 1
      BY <2>2, <2>4, FrontAndLast
    <3>2. <<x>> \o front \in Seq(Seq(S)) /\ <<x>> \o s = Append(<<x>> \o front, last)
      BY <3>1, ConsOfAppend
    <3>3. FlattenSeq(<<x>> \o front) = x \o FlattenSeq(front)
      <4>1. n - 1 \in Nat /\ n - 1 \notin T
        <5> HIDE DEF Bad
        <5> QED BY <2>1, <3>0
      <4> QED BY <3>1, <4>1
    <3>4. FlattenSeq(<<x>> \o s) = (x \o FlattenSeq(front)) \o last
      <4>1. FlattenSeq(Append(<<x>> \o front, last)) = FlattenSeq(<<x>> \o front) \o last
        BY <3>1, <3>2, FlattenAppend
      <4> QED BY <3>2, <3>3, <4>1
    <3>5. FlattenSeq(s) = FlattenSeq(front) \o last
      BY <3>1, FlattenAppend
    <3>6. FlattenSeq(front) \in Seq(S)
      BY <3>1, FlattenTyped
    <3>7. (x \o FlattenSeq(front)) \o last = x \o (FlattenSeq(front) \o last)
      <4>1. PICK y \in Seq(S) : y = FlattenSeq(front)
        BY <3>6
      <4>2. (x \o y) \o last = x \o (y \o last)
        <5> HIDE DEF Bad, T
        <5> QED BY ConcatAssociative
      <4> QED BY <4>1, <4>2
    <3> QED BY <2>2, <3>4, <3>5, <3>7
  <2> QED BY <2>3, <2>4
<1>2. Len(seqs) \in Nat
  OBVIOUS
<1> QED BY <1>1, <1>2

-----------------------------------------------------------------------------
(* The frames: arithmetic of pitch, loop and ramps *)

\* Quotient and remainder.
LEMMA DivMod ==
  ASSUME NEW num \in Int, NEW den \in Nat \ {0}
  PROVE  /\ num \div den \in Int /\ num % den \in Int /\ 0 <= num % den /\ num % den < den
         /\ num % den = num - den * (num \div den)
<1>1. num \div den \in Int
  OBVIOUS
<1>2. num % den \in 0 .. (den - 1)
  OBVIOUS
<1>3. num % den = num - den * (num \div den)
  OBVIOUS
<1> QED BY <1>1, <1>2, <1>3

\* Quotient and remainder are the only ones.
LEMMA DivModUnique ==
  ASSUME NEW den \in Nat \ {0}, NEW num \in Int, NEW q \in Int, NEW r \in Int, 0 <= r, r < den, num - r = den * q
  PROVE  num \div den = q /\ num % den = r
<1>1. PICK d \in Int : d = num \div den
  OBVIOUS
<1>2. PICK m \in Int : m = num % den
  OBVIOUS
<1>3. 0 <= m /\ m < den /\ m = num - den * d
  BY <1>1, <1>2, DivMod
<1>4. den * q - den * d = den * (q - d)
  OBVIOUS
<1>5. m - r = den * (q - d)
  BY <1>3, <1>4
<1>6. ASSUME q - d >= 1 PROVE FALSE
  <2>1. den * (q - d) >= den
    BY <1>6
  <2> QED BY <1>3, <1>5, <2>1
<1>7. ASSUME q - d <= -1 PROVE FALSE
  <2>1. den * (q - d) <= -den
    BY <1>7
  <2> QED BY <1>3, <1>5, <2>1
<1>8. q = d
  BY <1>6, <1>7
<1>9. den * (q - d) = 0
  BY <1>8
<1> QED BY <1>1, <1>2, <1>5, <1>8, <1>9

\* A sum divided in one go or the remainder first.
InTwo(den, num, b) ==
    /\ (num + b) \div den = num \div den + ((num % den) + b) \div den
    /\ (num + b) % den = ((num % den) + b) % den

\* The remainder left by one division is carried into the next.
LEMMA DivOfSum == \A i \in Nat \ {0}, j \in Int, k \in Int : InTwo(i, j, k)
<1> SUFFICES ASSUME NEW den \in Nat \ {0}, NEW num \in Int, NEW b \in Int PROVE InTwo(den, num, b)
  OBVIOUS
<1> DEFINE q == num \div den
           r == num % den
           s == (r + b) \div den
           t == (r + b) % den
<1>1. q \in Int /\ r \in Int /\ num = den * q + r
  BY DivMod
<1>2. s \in Int /\ t \in Int /\ 0 <= t /\ t < den /\ r + b = den * s + t
  <2>1. r + b \in Int
    BY <1>1
  <2> QED BY <2>1, DivMod
<1> HIDE DEF q, r, s, t
<1>3. q + s \in Int /\ num + b \in Int /\ (num + b) - t = den * (q + s)
  BY <1>1, <1>2
<1>4. (num + b) \div den = q + s /\ (num + b) % den = t
  BY <1>2, <1>3, DivModUnique
<1> QED BY <1>4 DEF q, r, s, t, InTwo

\* A larger dividend has no smaller quotient.
LEMMA DivMonotone ==
  ASSUME NEW den \in Nat \ {0}, NEW num \in Int, NEW b \in Int, num <= b
  PROVE  num \div den <= b \div den
OBVIOUS

\* A quotient is bounded when the dividend is.
LEMMA DivBound ==
  ASSUME NEW den \in Nat \ {0}, NEW num \in Int, NEW q \in Int
  PROVE  /\ num < den * (q + 1) => num \div den <= q
         /\ den * q <= num => q <= num \div den
<1>1. (den * q) \div den = q
  <2>1. den * q \in Int /\ (den * q) - 0 = den * q
    OBVIOUS
  <2> QED BY <2>1, DivModUnique
<1>2. den * q <= num => q <= num \div den
  BY <1>1, DivMonotone
<1>3. ASSUME num < den * (q + 1) PROVE num \div den <= q
  <2>1. num \div den \in Int /\ num % den >= 0 /\ num % den \in Int /\ num % den = num - den * (num \div den)
    BY DivMod
  <2> SUFFICES ASSUME num \div den >= q + 1 PROVE FALSE
    BY <2>1
  <2>2. den * (num \div den) >= den * (q + 1)
    BY <2>1
  <2> QED BY <1>3, <2>1, <2>2
<1> QED BY <1>2, <1>3

\* Where a voice's frame begins, in Frac-ths of a block.
Base(v, n) == n * Groups * Pitch[v]
Lap == LoopEnd - LoopStart

\* The sizes of a frame, a wave form and its loop.
LEMMA Sizes ==
  ASSUME NEW v \in Voice
  PROVE  /\ Groups \in Nat \ {0} /\ Frac \in Nat \ {0} /\ Pitch[v] \in Nat /\ Groups * Pitch[v] \in Nat
         /\ LoopStart \in Nat \ {0} /\ LoopEnd \in Nat /\ LoopStart < LoopEnd /\ Lap \in Nat \ {0}
         /\ Groups * Pitch[v] <= Frac * Lap
<1>1. Groups \in Nat \ {0} /\ Frac \in Nat \ {0} /\ Pitch[v] \in Nat
  BY VoiceAssumption
<1>2. LoopEnd \in Nat /\ LoopStart \in 1..(LoopEnd - 1) /\ Groups * Pitch[v] <= Frac * Lap
  BY LoopAssumption DEF Lap
<1>3. Lap \in Nat \ {0}
  BY <1>2 DEF Lap
<1>4. Groups * Pitch[v] \in Nat
  BY <1>1
<1> QED BY <1>1, <1>2, <1>3, <1>4

\* A frame moves a voice on by Groups times its pitch.
LEMMA BaseStep ==
  ASSUME NEW v \in Voice, NEW n \in Nat
  PROVE  /\ Base(v, n) \in Nat /\ Base(v, 0) = 0
         /\ Base(v, n + 1) = Base(v, n) + Groups * Pitch[v]
         /\ \A g \in 1 .. (Groups + 1) :
               (n * Groups + g - 1) * Pitch[v] = Base(v, n) + (g - 1) * Pitch[v]
         /\ \A g \in 1 .. (Groups + 1) :
               (g - 1) * Pitch[v] \in 0 .. (Groups * Pitch[v])
<1>1. PICK p \in Nat : p = Pitch[v]
  BY Sizes
<1>2. Groups \in Nat
  BY VoiceAssumption
<1>3. (n + 1) * Groups * p = n * Groups * p + Groups * p /\ n * Groups * p \in Nat /\ 0 * Groups * p = 0
  BY <1>2
<1>4. ASSUME NEW g \in 1 .. (Groups + 1)
      PROVE  /\ (n * Groups + g - 1) * p = n * Groups * p + (g - 1) * p
             /\ (g - 1) * p \in 0 .. (Groups * p)
  <2>1. PICK k \in Nat : k = n * Groups
    BY <1>2
  <2>2. (k + g - 1) * p = k * p + (g - 1) * p
    BY <2>1, <1>2
  <2>3. (g - 1) * p <= Groups * p /\ 0 <= (g - 1) * p
    BY <1>2
  <2> QED BY <1>2, <2>1, <2>2, <2>3
<1> QED BY <1>1, <1>3, <1>4 DEF Base

\* A frame feeds a voice no more than one lap of its loop.
LEMMA FedStep ==
  ASSUME NEW v \in Voice, NEW n \in Nat
  PROVE  /\ Fed(v, n) \in Nat /\ Fed(v, 0) = 0 /\ Fed(v, n + 1) \in Nat
         /\ Fed(v, n) <= Fed(v, n + 1) /\ Fed(v, n + 1) <= Fed(v, n) + Lap
<1>1. Fed(v, n) = Base(v, n) \div Frac /\ Fed(v, n + 1) = Base(v, n + 1) \div Frac /\ Fed(v, 0) = Base(v, 0) \div Frac
  BY DEF Fed, Base
<1>2. PICK a \in Nat : a = Base(v, n) /\ Base(v, n + 1) = a + Groups * Pitch[v] /\ Base(v, 0) = 0
  BY BaseStep
<1>3. PICK b \in Nat : b = Groups * Pitch[v] /\ b <= Frac * Lap
  BY Sizes
<1>4. Frac \in Nat \ {0} /\ Lap \in Nat \ {0}
  BY Sizes
<1>5. (a + b) \div Frac = a \div Frac + ((a % Frac) + b) \div Frac
  <2>1. InTwo(Frac, a, b)
    BY <1>4, DivOfSum
  <2> QED BY <2>1 DEF InTwo
<1>6. PICK r \in Nat : r = a % Frac /\ r < Frac
  BY <1>4, DivMod
<1>7. (r + b) \div Frac <= Lap
  <2>1. r + b < Frac * (Lap + 1)
    BY <1>3, <1>4, <1>6
  <2> QED BY <1>4, <2>1, DivBound
<1>8. 0 <= (r + b) \div Frac /\ 0 <= a \div Frac /\ 0 \div Frac = 0
  <2>1. Frac * 0 <= r + b /\ Frac * 0 <= a /\ 0 - 0 = Frac * 0 /\ 0 < Frac
    BY <1>4
  <2> QED BY <1>4, <2>1, DivBound, DivModUnique
<1>9. a \div Frac \in Int /\ (r + b) \div Frac \in Int
  BY <1>4
<1> QED BY <1>1, <1>2, <1>3, <1>5, <1>6, <1>7, <1>8, <1>9, <1>4

\* A group of a frame is read as far behind the samples kept as the position
\* says, and no further than the blocks decoded for the frame.
LEMMA ReadAt ==
  ASSUME NEW v \in Voice, NEW n \in Nat, NEW g \in 1 .. (Groups + 1)
  PROVE  LET back == ((Base(v, n) % Frac) + (g - 1) * Pitch[v]) \div Frac
         IN /\ back \in 0 .. (Fed(v, n + 1) - Fed(v, n))
            /\ Fed(v, n) + back = ((n * Groups + g - 1) * Pitch[v]) \div Frac
            /\ g = Groups + 1 =>
                  /\ back = Fed(v, n + 1) - Fed(v, n)
                  /\ ((Base(v, n) % Frac) + (g - 1) * Pitch[v]) % Frac = Base(v, n + 1) % Frac
<1>1. Fed(v, n) = Base(v, n) \div Frac /\ Fed(v, n + 1) = Base(v, n + 1) \div Frac
  BY DEF Fed, Base
<1>2. PICK a \in Nat : a = Base(v, n) /\ Base(v, n + 1) = a + Groups * Pitch[v]
  BY BaseStep
<1>3. PICK b \in Nat : b = Groups * Pitch[v] /\ b <= Frac * Lap
  BY Sizes
<1>4. Frac \in Nat \ {0} /\ Lap \in Nat \ {0} /\ Groups \in Nat
  BY Sizes
<1>5. PICK c \in Nat : /\ c = (g - 1) * Pitch[v] /\ c <= b /\ (n * Groups + g - 1) * Pitch[v] = a + c
                       /\ (g = Groups + 1 => c = b)
  <2>1. (g - 1) * Pitch[v] \in 0 .. (Groups * Pitch[v]) /\ (n * Groups + g - 1) * Pitch[v] = Base(v, n) + (g - 1) * Pitch[v]
    BY BaseStep
  <2>2. g = Groups + 1 => g - 1 = Groups
    BY <1>4
  <2> QED BY <1>2, <1>3, <2>1, <2>2
<1>6. /\ (a + c) \div Frac = a \div Frac + ((a % Frac) + c) \div Frac
      /\ (a + b) \div Frac = a \div Frac + ((a % Frac) + b) \div Frac
      /\ (a + b) % Frac = ((a % Frac) + b) % Frac
  <2>1. InTwo(Frac, a, c)
    BY <1>4, DivOfSum
  <2>2. InTwo(Frac, a, b)
    <3>1. Frac \in Nat \ {0} /\ a \in Int /\ b \in Int
      BY <1>4
    <3> QED BY <3>1, DivOfSum, Zenon
  <2> QED BY <2>1, <2>2 DEF InTwo
<1>7. PICK r \in Nat : r = a % Frac /\ r < Frac
  BY <1>4, DivMod
<1>8. 0 <= (r + c) \div Frac /\ (r + c) \div Frac <= (r + b) \div Frac
  <2>1. Frac * 0 <= r + c /\ r + c <= r + b
    BY <1>4, <1>5
  <2> QED BY <1>4, <2>1, DivBound, DivMonotone
<1>9. (r + c) \div Frac \in Int /\ a \div Frac \in Int /\ (r + b) \div Frac \in Int
  BY <1>4
<1>10. (Base(v, n) % Frac) + (g - 1) * Pitch[v] = r + c
  BY <1>2, <1>5, <1>7
<1>11. Fed(v, n + 1) - Fed(v, n) = (r + b) \div Frac
  BY <1>1, <1>2, <1>3, <1>6, <1>7, <1>9
<1> QED BY <1>1, <1>2, <1>3, <1>5, <1>6, <1>7, <1>8, <1>9, <1>10, <1>11

\* From one block of a wave form to the next.
LEMMA WaveStep ==
  ASSUME NEW q \in Nat, NEW v \in Voice
  PROVE  /\ Wave(q) \in Nat /\ Wave(0) = 0
         /\ JumpsBack(q) => Wave(q) = LoopStart /\ q # 0
         /\ ~JumpsBack(q + 1) => Wave(q + 1) = Wave(q) + 1
<1>1. LoopStart \in Nat \ {0} /\ LoopEnd \in Nat /\ LoopStart < LoopEnd /\ Lap \in Nat \ {0}
  BY Sizes
<1>2. \A p : Wave(p) = IF p < LoopEnd THEN p ELSE LoopStart + ((p - LoopEnd) % Lap)
  BY DEF Wave, Lap
<1>0. \A p : JumpsBack(p) <=> p >= LoopEnd /\ Wave(p) = LoopStart
  BY Zenon DEF JumpsBack
<1>3. Wave(q) \in Nat /\ Wave(0) = 0
  <2>1. (q - LoopEnd) % Lap \in Nat
    <3>1. q - LoopEnd \in Int
      BY <1>1
    <3> QED BY <1>1, <3>1, DivMod
  <2> QED BY <1>1, <1>2, <2>1
<1>4. ASSUME ~JumpsBack(q + 1) PROVE Wave(q + 1) = Wave(q) + 1
  <2>1. CASE q + 1 < LoopEnd
    BY <1>1, <1>2, <2>1
  <2>2. CASE q + 1 = LoopEnd
    <3>1. 0 % Lap = 0
      <4>1. 0 - 0 = Lap * 0 /\ 0 < Lap
        BY <1>1
      <4> QED BY <1>1, <4>1, DivModUnique
    <3> QED BY <1>0, <1>1, <1>2, <1>4, <2>2, <3>1
  <2>3. CASE q >= LoopEnd
    <3>1. PICK x \in Nat : x = q - LoopEnd /\ q + 1 - LoopEnd = x + 1
      BY <1>1, <2>3
    <3>0. Wave(q) = LoopStart + (x % Lap) /\ Wave(q + 1) = LoopStart + ((x + 1) % Lap)
      BY <1>1, <1>2, <2>3, <3>1
    <3>2. (x + 1) % Lap = ((x % Lap) + 1) % Lap
      <4>1. InTwo(Lap, x, 1)
        BY <1>1, DivOfSum
      <4> QED BY <4>1 DEF InTwo
    <3>3. PICK m \in Nat : m = x % Lap /\ m < Lap
      BY <1>1, DivMod
    <3>4. CASE m + 1 < Lap
      <4>1. (m + 1) - (m + 1) = Lap * 0 /\ 0 <= m + 1
        BY <1>1
      <4>2. (m + 1) % Lap = m + 1
        BY <1>1, <3>4, <4>1, DivModUnique
      <4>3. Wave(q) = LoopStart + m /\ Wave(q + 1) = LoopStart + (m + 1)
        BY <3>0, <3>2, <3>3, <4>2
      <4> QED BY <1>1, <3>3, <4>3
    <3>5. CASE m + 1 = Lap
      <4>1. (m + 1) - 0 = Lap * 1 /\ 0 < Lap
        BY <1>1, <3>5
      <4>2. (m + 1) % Lap = 0
        BY <1>1, <4>1, DivModUnique
      <4>3. Wave(q + 1) = LoopStart
        BY <1>1, <3>0, <3>2, <3>3, <4>2
      <4> QED BY <1>0, <1>1, <1>4, <2>3, <4>3
    <3> QED BY <1>1, <3>3, <3>4, <3>5
  <2> QED BY <1>1, <2>1, <2>2, <2>3
<1> QED BY <1>0, <1>1, <1>3, <1>4

\* Two jumps are a lap apart, and no frame is longer than that.
LEMMA OneJump ==
  ASSUME NEW v \in Voice, NEW n \in Nat,
         NEW q \in Fed(v, n) .. (Fed(v, n + 1) - 1), NEW p \in Fed(v, n) .. (Fed(v, n + 1) - 1),
         JumpsBack(q), JumpsBack(p)
  PROVE  q = p
<1>1. LoopStart \in Nat \ {0} /\ LoopEnd \in Nat /\ LoopStart < LoopEnd /\ Lap \in Nat \ {0}
  BY Sizes
<1>2. q - p < Lap /\ p - q < Lap /\ q \in Nat /\ p \in Nat
  BY <1>1, FedStep
<1>3. ASSUME NEW x \in Nat, JumpsBack(x)
      PROVE  \E d \in Int : x - LoopEnd = Lap * d
  <2>1. x >= LoopEnd /\ LoopStart + ((x - LoopEnd) % Lap) = LoopStart
    BY <1>1, <1>3 DEF JumpsBack, Wave, Lap
  <2>2. PICK y \in Nat : y = x - LoopEnd
    BY <1>1, <2>1
  <2>4. PICK d \in Int : d = y \div Lap
    BY <1>1
  <2>5. y % Lap = y - Lap * d
    BY <1>1, <2>4
  <2>6. y = Lap * d
    BY <1>1, <2>1, <2>2, <2>5
  <2> QED BY <2>2, <2>6
<1>4. PICK d \in Int : q - LoopEnd = Lap * d
  BY <1>2, <1>3
<1>5. PICK e \in Int : p - LoopEnd = Lap * e
  BY <1>2, <1>3
<1>6. q - p = Lap * (d - e)
  BY <1>1, <1>2, <1>4, <1>5
<1>7. ASSUME d - e >= 1 PROVE FALSE
  <2>1. Lap * (d - e) >= Lap
    BY <1>1, <1>7
  <2> QED BY <1>1, <1>2, <1>6, <2>1
<1>8. ASSUME d - e <= -1 PROVE FALSE
  <2>1. Lap * (d - e) <= -Lap
    BY <1>1, <1>8
  <2> QED BY <1>1, <1>2, <1>6, <2>1
<1>9. Lap * 0 = 0 /\ d - e = 0
  BY <1>1, <1>7, <1>8
<1> QED BY <1>2, <1>6, <1>9

\* The level of a ramp in the m-th group, and how it goes on from there.
Fraction(start, ramp, m) == (start * Frac + m * ramp.rate) % Frac
Level(start, ramp, m) ==
    IF m = 0 THEN start * Frac ELSE VolumeAt(start, ramp, m) * Frac + Fraction(start, ramp, m)

\* The ramp, one group on.
LEMMA LevelStep ==
  ASSUME NEW start \in Int, NEW ramp \in [target : Int, rate : Int], NEW m \in Nat
  PROVE  /\ Ramp(ramp, Level(start, ramp, m)) = Level(start, ramp, m + 1)
         /\ Level(start, ramp, m + 1) \div Frac = VolumeAt(start, ramp, m + 1)
<1>1. Frac \in Nat \ {0}
  BY VoiceAssumption
<1>2. PICK r \in Int : r = ramp.rate
  OBVIOUS
<1>3. PICK t \in Int : t = ramp.target
  OBVIOUS
<1>4. \A x \in Int : /\ Clamp(ramp, x) \in Int
                     /\ r >= 0 => Clamp(ramp, x) = IF x < t THEN x ELSE t
                     /\ r < 0  => Clamp(ramp, x) = IF x > t THEN x ELSE t
  BY <1>2, <1>3 DEF Clamp, Min2
<1>5. PICK a \in Int : a = start * Frac + m * r
  BY <1>1
<1>6. start * Frac + (m + 1) * r = a + r
  BY <1>1, <1>5
<1>7. PICK e \in Int : e = a \div Frac
  BY <1>1
<1>8. PICK f \in Nat : f = a % Frac /\ f < Frac
  <2>1. a % Frac \in 0 .. (Frac - 1)
    BY <1>1
  <2> QED BY <1>1, <2>1
<1>9. f = a - Frac * e
  BY <1>1, <1>7, <1>8
<1>10. PICK h \in Int : h = (f + r) \div Frac
  BY <1>1
<1>11. PICK k \in Nat : k = (f + r) % Frac /\ k < Frac
  <2>1. (f + r) % Frac \in 0 .. (Frac - 1)
    BY <1>1
  <2> QED BY <1>1, <2>1
<1>12. (a + r) \div Frac = e + h /\ (a + r) % Frac = k
  <2>1. InTwo(Frac, a, r)
    BY <1>1, DivOfSum, Zenon
  <2> QED BY <2>1, <1>7, <1>8, <1>10, <1>11 DEF InTwo
<1>13. \A u \in Int : /\ (u * Frac + f + r) \div Frac = u + h
                      /\ (u * Frac + f + r) % Frac = k
                      /\ (u * Frac + k) \div Frac = u
                      /\ u * Frac \in Int
  <2> SUFFICES ASSUME NEW u \in Int
               PROVE  /\ (u * Frac + f + r) \div Frac = u + h
                      /\ (u * Frac + f + r) % Frac = k
                      /\ (u * Frac + k) \div Frac = u
                      /\ u * Frac \in Int
    OBVIOUS
  <2>1. k = (f + r) - Frac * h
    <3>1. f + r \in Int
      OBVIOUS
    <3> QED BY <1>1, <1>10, <1>11, <3>1
  <2>2. PICK x \in Int : x = u * Frac
    BY <1>1
  <2>3. x + f + r \in Int /\ (x + f + r) - k = Frac * (u + h)
    BY <1>1, <2>1, <2>2
  <2>4. x + k \in Int /\ (x + k) - k = Frac * u
    BY <1>1, <2>2
  <2>5. (x + f + r) \div Frac = u + h /\ (x + f + r) % Frac = k
    <3>1. PICK y \in Int : y = x + f + r
      BY <2>3
    <3>2. PICK w \in Int : w = u + h
      OBVIOUS
    <3>3. y - k = Frac * w
      BY <2>3, <3>1, <3>2
    <3>4. 0 <= k /\ k < Frac /\ k \in Int
      BY <1>11
    <3>5. y \div Frac = w /\ y % Frac = k
      BY <1>1, <3>3, <3>4, DivModUnique
    <3> QED BY <3>1, <3>2, <3>5
  <2>6. (x + k) \div Frac = u
    BY <1>1, <1>11, <2>4, DivModUnique
  <2> QED BY <2>2, <2>5, <2>6
<1>15. VolumeAt(start, ramp, m + 1) = Clamp(ramp, e + h) /\ Clamp(ramp, e + h) \in Int
  BY <1>2, <1>4, <1>6, <1>12 DEF VolumeAt
<1>14. Level(start, ramp, m + 1) = Clamp(ramp, e + h) * Frac + k
  <2>1. m + 1 # 0
    OBVIOUS
  <2>2. Fraction(start, ramp, m + 1) = k
    BY <1>2, <1>6, <1>12 DEF Fraction
  <2> QED BY <1>1, <1>15, <2>1, <2>2 DEF Level
<1>16. Level(start, ramp, m + 1) \div Frac = VolumeAt(start, ramp, m + 1)
  BY <1>13, <1>14, <1>15
<1>17. \E u \in Int : /\ Level(start, ramp, m) = u * Frac + f
                      /\ Clamp(ramp, u + h) = Clamp(ramp, e + h)
  <2>1. CASE m = 0
    <3>1. a = start * Frac /\ start * Frac \in Int
      BY <1>1, <1>5, <2>1
    <3>2. a - 0 = Frac * start /\ 0 < Frac
      BY <1>1, <3>1
    <3>3. e = start /\ f = 0
      BY <1>1, <1>7, <1>8, <3>2, DivModUnique
    <3> QED BY <2>1, <3>1, <3>3 DEF Level
  <2>2. CASE m # 0
    <3>1. Level(start, ramp, m) = Clamp(ramp, e) * Frac + f
      <4>1. VolumeAt(start, ramp, m) = Clamp(ramp, e)
        BY <1>2, <1>5, <1>7 DEF VolumeAt
      <4>2. Fraction(start, ramp, m) = f
        BY <1>2, <1>5, <1>8 DEF Fraction
      <4> QED BY <1>1, <1>4, <2>2, <4>1, <4>2 DEF Level
    <3>2. r >= 0 => h >= 0
      <4>1. r >= 0 => Frac * 0 <= f + r
        BY <1>1
      <4> QED BY <1>1, <1>10, <4>1, DivBound
    <3>3. r < 0 => h <= 0
      <4>1. r < 0 => f + r < Frac * (0 + 1)
        BY <1>1, <1>8
      <4> QED BY <1>1, <1>10, <4>1, DivBound
    <3>4. Clamp(ramp, Clamp(ramp, e) + h) = Clamp(ramp, e + h)
      <4>1. CASE r >= 0
        BY <1>4, <3>2, <4>1
      <4>2. CASE r < 0
        BY <1>4, <3>3, <4>2
      <4> QED BY <4>1, <4>2
    <3> QED BY <1>4, <3>1, <3>4
  <2> QED BY <2>1, <2>2
<1>18. PICK u \in Int : /\ Level(start, ramp, m) = u * Frac + f
                        /\ Clamp(ramp, u + h) = Clamp(ramp, e + h)
  BY <1>17
<1>19. Ramp(ramp, Level(start, ramp, m)) = Clamp(ramp, u + h) * Frac + k
  <2>1. PICK y \in Int : y = u * Frac + f + r
    BY <1>1
  <2>2. Level(start, ramp, m) + ramp.rate = y
    BY <1>2, <1>18, <2>1
  <2>3. y \div Frac = u + h /\ y % Frac = k
    BY <1>13, <2>1
  <2> QED BY <2>2, <2>3 DEF Ramp
<1> QED BY <1>14, <1>16, <1>18, <1>19

-----------------------------------------------------------------------------
(* The frames: what a frame's list holds and what is true before each of its *)
(* commands.                                                                 *)

\* The blocks of frame n of voice v up to Cut are those before the jump to the
\* start of the loop, if there is one.
Voices == Cardinality(Voice)
Jump(v, n) == {q \in Fed(v, n) .. (Fed(v, n + 1) - 1) : JumpsBack(q)}
Cut(v, n) == IF Jump(v, n) = {} THEN Fed(v, n + 1) ELSE CHOOSE q \in Jump(v, n) : TRUE

\* The commands a frame's list is made of.
BookCommand(v) == [op |-> "loadadpcm", v |-> v]
LoadCommand(v, q, m) == [op |-> "loadbuff", v |-> v, k |-> Wave(q), n |-> m]
DecodeCommand(v, m, flag, out) == [op |-> "adpcm", v |-> v, n |-> m, flag |-> flag, out |-> out]
LoopCommand(v) == [op |-> "setloop", v |-> v]
MoveCommand(v, n) ==
    [op |-> "dmemmove", from |-> "spare", skip |-> 1, n |-> Fed(v, n + 1) - Cut(v, n),
     to |-> "aux", at |-> Cut(v, n) - Fed(v, n) + 2]
ResampleCommand(v, n) == [op |-> "resample", v |-> v, init |-> n = 0, pitch |-> Pitch[v]]
VolumeCommand(side, ramp) == [op |-> "setvol", side |-> side, ramp |-> ramp]
StartCommand(vol) == [op |-> "setvol", side |-> "start", vol |-> vol]
MixCommand(v, n, env) == [op |-> "envmixer", v |-> v, init |-> n = 0, startR |-> env.startR]

Ending == << [op |-> "mixer", from |-> "wetL", to |-> "dryL"],
             [op |-> "mixer", from |-> "wetR", to |-> "dryR"],
             [op |-> "interleave"], [op |-> "savebuff", n |-> Groups] >>

\* What is left of the list behind the voices up to v, and from each command
\* of voice v's part on.
Behind(s, v) == FlattenSeq([u \in 1 .. (Voices - v) |-> VoiceList(s, v + u)]) \o Ending
ToMix(s, v) == <<MixCommand(v, s[v].n, s[v].env)>> \o Behind(s, v)
ToStart(s, v) == <<StartCommand(s[v].env.startL)>> \o ToMix(s, v)
ToRight(s, v) == <<VolumeCommand("right", s[v].env.R)>> \o ToStart(s, v)
ToLeft(s, v) == <<VolumeCommand("left", s[v].env.L)>> \o ToRight(s, v)
ToResample(s, v) ==
    <<ResampleCommand(v, s[v].n)>> \o (IF s[v].n > 0 THEN ToMix(s, v) ELSE ToLeft(s, v))
ToMove(s, v) == <<MoveCommand(v, s[v].n)>> \o ToResample(s, v)
ToAgain(s, v) ==
    <<DecodeCommand(v, Fed(v, s[v].n + 1) - Cut(v, s[v].n), "loop", "spare")>> \o ToMove(s, v)
ToReload(s, v) ==
    <<LoadCommand(v, Cut(v, s[v].n), Fed(v, s[v].n + 1) - Cut(v, s[v].n))>> \o ToAgain(s, v)
ToLoop(s, v) == <<LoopCommand(v)>> \o ToReload(s, v)
ToDecode(s, v) ==
    <<DecodeCommand(v, Cut(v, s[v].n) - Fed(v, s[v].n), IF s[v].n = 0 THEN "init" ELSE "none", "aux")>>
    \o (IF Jump(v, s[v].n) = {} THEN ToResample(s, v) ELSE ToLoop(s, v))
ToLoad(s, v) ==
    <<LoadCommand(v, Fed(v, s[v].n), Cut(v, s[v].n) - Fed(v, s[v].n))>> \o ToDecode(s, v)
ToBook(s, v) == <<BookCommand(v)>> \o ToLoad(s, v)

\* The commands that have not been executed.
Rest == SubSeq(list, Len(ran) + 1, Len(list))

\* The last block decoded when q blocks have been.
BlockOf(v, q) == IF q = 0 THEN Silence ELSE <<v, Wave(q - 1)>>

\* What a voice keeps for its frame n.
Decoder(v, n) == rdram.adpcm[v] = BlockOf(v, Fed(v, n))
Resampler(v, n) == rdram.resample[v] = [frac |-> Base(v, n) % Frac, kept |-> BlockOf(v, Fed(v, n))]
Envelopes(s, v, n) ==
    rdram.env[v] = [L |-> s[v].env.L, R |-> s[v].env.R,
                    volL |-> Level(s[v].env.startL, s[v].env.L, n * Groups),
                    volR |-> Level(s[v].env.startR, s[v].env.R, n * Groups)]

\* A voice that has played has saved what the frame at hand starts from; a
\* voice that is done, what the next one will.
Saved(s, v, n) == Decoder(v, n) /\ Resampler(v, n) /\ Envelopes(s, v, n)
Ready(s, v) == s[v].n > 0 => Saved(s, v, s[v].n)
Done(s, v) == s[v].n >= 0 => Saved(s, v, s[v].n + 1)

\* The buses hold the first v voices.
Mixes(s, v, bus, g) == FlattenSeq([u \in 1 .. v |-> Mixed(s, u, bus, g)])
OnBuses(s, v) == \A bus \in Range(Buses) : area[bus] = [g \in 1 .. Groups |-> Mixes(s, v, bus, g)]

\* The voices on both sides of v.
Others(s, v) ==
    /\ OnBuses(s, v - 1)
    /\ \A u \in Voice : (u < v => Done(s, u)) /\ (u > v => Ready(s, u))

\* What voice v has loaded, decoded and put together so far.
Loads(v, q, m) == \A i \in 1 .. m : area["in"][i] = <<v, Wave(q) + i - 1>>
Decodes(v, n, q) ==
    /\ area["aux"] = [i \in 1 .. (q - Fed(v, n) + 1) |-> BlockOf(v, Fed(v, n) + i - 1)]
    /\ rdram.adpcm[v] = BlockOf(v, q)
DecodesAgain(v, n) ==
    /\ area["aux"] = [i \in 1 .. (Cut(v, n) - Fed(v, n) + 1) |-> BlockOf(v, Fed(v, n) + i - 1)]
    /\ area["spare"] = [i \in 1 .. (Fed(v, n + 1) - Cut(v, n) + 1) |-> area["spare"][i]]
    /\ \A i \in 1 .. (Fed(v, n + 1) - Cut(v, n)) : area["spare"][i + 1] = BlockOf(v, Cut(v, n) + i)
    /\ rdram.adpcm[v] = BlockOf(v, Fed(v, n + 1))
Keeps(s, v, n) == n > 0 => Resampler(v, n) /\ Envelopes(s, v, n)
Plays(s, v, n) ==
    /\ Decoder(v, n + 1) /\ Resampler(v, n + 1) /\ (n > 0 => Envelopes(s, v, n))
    /\ area["main"] = [g \in 1 .. Groups |-> Heard(v, n, g)]

\* Between two voices.
Between(s, v) ==
    /\ Rest = Behind(s, v)
    /\ OnBuses(s, v)
    /\ \A u \in Voice : (u <= v => Done(s, u)) /\ (u > v => Ready(s, u))

\* In the part of voice v.
Within(s, v) ==
    LET n == s[v].n IN
    /\ n >= 0 /\ Others(s, v)
    /\ \/ /\ reg.book = v /\ Keeps(s, v, n)
          /\ \/ Rest = ToLoad(s, v) /\ (n > 0 => Decoder(v, n))
             \/ Rest = ToDecode(s, v) /\ (n > 0 => Decoder(v, n)) /\ Loads(v, Fed(v, n), Cut(v, n) - Fed(v, n))
             \/ Rest = ToLoop(s, v) /\ Jump(v, n) # {} /\ Decodes(v, n, Cut(v, n))
             \/ Rest = ToReload(s, v) /\ Jump(v, n) # {} /\ Decodes(v, n, Cut(v, n)) /\ reg.loop = v
             \/ /\ Rest = ToAgain(s, v) /\ Jump(v, n) # {} /\ Decodes(v, n, Cut(v, n)) /\ reg.loop = v
                /\ Loads(v, Cut(v, n), Fed(v, n + 1) - Cut(v, n))
             \/ Rest = ToMove(s, v) /\ Jump(v, n) # {} /\ DecodesAgain(v, n)
             \/ Rest = ToResample(s, v) /\ Decodes(v, n, Fed(v, n + 1))
       \/ /\ Plays(s, v, n)
          /\ \/ Rest = ToLeft(s, v) /\ n = 0
             \/ Rest = ToRight(s, v) /\ n = 0 /\ reg.L = s[v].env.L
             \/ Rest = ToStart(s, v) /\ n = 0 /\ reg.L = s[v].env.L /\ reg.R = s[v].env.R
             \/ /\ Rest = ToMix(s, v)
                /\ n = 0 => /\ reg.L = s[v].env.L /\ reg.R = s[v].env.R
                            /\ reg.startL = s[v].env.startL

\* Behind the voices.
Side(s, dry, wet) == [g \in 1 .. Groups |-> OnBus(s, dry, g) \o OnBus(s, wet, g)]
Closing(s) ==
    /\ \A u \in Voice : Done(s, u)
    /\ \/ /\ Rest = Tail(Ending) /\ area["dryL"] = Side(s, "dryL", "wetL")
          /\ \A bus \in {"dryR", "wetR"} : area[bus] = [g \in 1 .. Groups |-> OnBus(s, bus, g)]
       \/ Rest = Tail(Tail(Ending)) /\ area["dryL"] = Side(s, "dryL", "wetL") /\ area["dryR"] = Side(s, "dryR", "wetR")
       \/ Rest = Tail(Tail(Tail(Ending))) /\ area["main"] = Frame(s)
       \/ Rest = <<>> /\ rdram.out = Frame(s)

\* The list of the frame of s is executed, or is the last one that was.
OfFrame(s) ==
    /\ list = FrameList(s)
    /\ \/ ran = <<>> /\ \A u \in Voice : Ready(s, u)
       \/ \E v \in 0 .. Voices : Between(s, v)
       \/ \E v \in Voice : Within(s, v)
       \/ Closing(s)

\* Between frames every voice has saved what its next one starts from, and a
\* list that is no frame's leaves it alone.
FrameInv ==
    \E s \in {song} : \/ Quiet(list) /\ (Quiet(ran) => \A v \in Voice : Done(s, v))
                      \/ OfFrame(s)

\* The buffers, registers and blocks there are.
AudioShapes ==
    /\ DOMAIN area = {"main", "aux", "in", "spare"} \union Range(Buses)
    /\ DOMAIN reg = {"book", "loop", "startL", "L", "R"}
    /\ DOMAIN rdram = {"adpcm", "resample", "env", "out"}
    /\ DOMAIN rdram.adpcm = Voice /\ DOMAIN rdram.resample = Voice /\ DOMAIN rdram.env = Voice

-----------------------------------------------------------------------------
(* The list as a sequence *)

\* A sequence with something in front.
LEMMA InFront ==
  ASSUME NEW T, NEW x \in T, NEW s \in Seq(T)
  PROVE  /\ <<x>> \o s \in Seq(T) /\ Len(<<x>> \o s) = Len(s) + 1
         /\ (<<x>> \o s)[1] = x /\ \A i \in 1 .. Len(s) : (<<x>> \o s)[i + 1] = s[i]
<1>1. <<x>> \in Seq(T) /\ Len(<<x>>) = 1 /\ <<x>>[1] = x
  OBVIOUS
<1>2. /\ <<x>> \o s \in Seq(T) /\ Len(<<x>> \o s) = 1 + Len(s)
      /\ \A i \in 1 .. (1 + Len(s)) : (<<x>> \o s)[i] = IF i <= 1 THEN <<x>>[i] ELSE s[i - 1]
  BY <1>1, ConcatProperties
<1>3. Len(s) \in Nat
  OBVIOUS
<1> QED BY <1>1, <1>2, <1>3

SplitsAlike(x, s, y, t) == <<x>> \o s = <<y>> \o t => x = y /\ s = t

\* Sequences that are equal have the same head and the same tail.
LEMMA ConsInjective ==
  ASSUME NEW T, NEW x \in T, NEW s \in Seq(T), NEW y \in T, NEW t \in Seq(T)
  PROVE  SplitsAlike(x, s, y, t)
<1>1. /\ Len(<<x>> \o s) = Len(s) + 1 /\ (<<x>> \o s)[1] = x
      /\ \A i \in 1 .. Len(s) : (<<x>> \o s)[i + 1] = s[i]
  BY InFront
<1>2. /\ Len(<<y>> \o t) = Len(t) + 1 /\ (<<y>> \o t)[1] = y
      /\ \A i \in 1 .. Len(t) : (<<y>> \o t)[i + 1] = t[i]
  BY InFront
<1> SUFFICES ASSUME <<x>> \o s = <<y>> \o t PROVE x = y /\ s = t
  BY DEF SplitsAlike
<1>3. Len(s) = Len(t)
  BY <1>1, <1>2, LenProperties
<1>4. \A i \in 1 .. Len(s) : s[i] = t[i]
  BY <1>1, <1>2, <1>3
<1> QED BY <1>1, <1>2, <1>3, <1>4, SeqEqual

\* That a concatenation can be read either way, and what it is a sequence of.
Regroups(a, b, c) == (a \o b) \o c = a \o (b \o c)

\* Concatenation is associative.
LEMMA RegroupsAlways == ASSUME NEW T PROVE \A a, b, c \in Seq(T) : Regroups(a, b, c)
BY ConcatAssociative DEF Regroups

\* Two sequences of T make one.
LEMMA Joins == ASSUME NEW T PROVE \A a, b \in Seq(T) : a \o b \in Seq(T)
BY ConcatProperties

\* A member of T makes a sequence of T.
LEMMA Singles == ASSUME NEW T PROVE \A a \in T : <<a>> \in Seq(T)
OBVIOUS

\* A tuple is the concatenation of its parts.
LEMMA Tuples ==
  ASSUME NEW x, NEW y, NEW z
  PROVE  <<x, y>> = <<x>> \o <<y>> /\ <<x, y, z>> = (<<x>> \o <<y>>) \o <<z>>
<1> DEFINE T == {x, y, z}
<1>1. <<x>> \in Seq(T) /\ <<y>> \in Seq(T) /\ <<z>> \in Seq(T) /\ <<x, y>> \in Seq(T) /\ <<x, y, z>> \in Seq(T)
  OBVIOUS
<1>2. /\ <<x>> \o <<y>> \in Seq(T) /\ Len(<<x>> \o <<y>>) = 2
      /\ (<<x>> \o <<y>>)[1] = x /\ (<<x>> \o <<y>>)[2] = y
  BY <1>1, ConcatProperties
<1>3. <<x>> \o <<y>> = <<x, y>>
  <2>1. Len(<<x, y>>) = 2 /\ <<x, y>>[1] = x /\ <<x, y>>[2] = y
    OBVIOUS
  <2>2. \A i \in 1 .. 2 : (<<x>> \o <<y>>)[i] = <<x, y>>[i]
    <3>1. \A i \in 1 .. 2 : i \in {1, 2}
      OBVIOUS
    <3> QED BY <1>2, <2>1, <3>1
  <2> HIDE DEF T
  <2> QED BY <1>1, <1>2, <2>1, <2>2, SeqEqual
<1>4. <<x, y>> \o <<z>> = <<x, y, z>>
  <2>1. /\ <<x, y>> \o <<z>> \in Seq(T) /\ Len(<<x, y>> \o <<z>>) = 3
        /\ \A i \in 1 .. 3 : (<<x, y>> \o <<z>>)[i] = IF i <= 2 THEN <<x, y>>[i] ELSE <<z>>[i - 2]
    <3>1. Len(<<x, y>>) = 2 /\ Len(<<z>>) = 1
      OBVIOUS
    <3> HIDE DEF T
    <3> QED BY <1>1, <3>1, ConcatProperties
  <2>2. \A i \in 1 .. 3 : (<<x, y>> \o <<z>>)[i] = <<x, y, z>>[i]
    <3>1. \A i \in 1 .. 3 : i \in {1, 2, 3}
      OBVIOUS
    <3>2. (<<x, y>> \o <<z>>)[1] = x /\ (<<x, y>> \o <<z>>)[2] = y /\ (<<x, y>> \o <<z>>)[3] = z
      BY <2>1
    <3> QED BY <3>1, <3>2
  <2> QED BY <1>1, <2>1, <2>2, SeqEqual
<1> QED BY <1>3, <1>4

Two(x, y, s) == <<x, y>> \o s = <<x>> \o (<<y>> \o s)
Three(x, y, z, s) == <<x, y, z>> \o s = <<x>> \o (<<y>> \o (<<z>> \o s))

\* Two commands in front of a list, one at a time.
LEMMA TwoInFront ==
  ASSUME NEW T, NEW x \in T, NEW y \in T, NEW s \in Seq(T)
  PROVE  Two(x, y, s)
<1>1. <<x>> \in Seq(T) /\ <<y>> \in Seq(T)
  BY Singles
<1>2. Regroups(<<x>>, <<y>>, s)
  BY <1>1, RegroupsAlways, Zenon
<1>3. (<<x>> \o <<y>>) \o s = <<x>> \o (<<y>> \o s)
  BY <1>2, Zenon DEF Regroups
<1>4. <<x, y>> = <<x>> \o <<y>>
  BY Tuples
<1> QED BY <1>3, <1>4, Zenon DEF Two

\* Three commands in front of a list, one at a time.
LEMMA ThreeInFront ==
  ASSUME NEW T, NEW x \in T, NEW y \in T, NEW z \in T, NEW s \in Seq(T)
  PROVE  Three(x, y, z, s)
<1>1. <<x>> \in Seq(T) /\ <<y>> \in Seq(T) /\ <<z>> \in Seq(T)
  BY Singles
<1>2. <<x>> \o <<y>> \in Seq(T) /\ <<z>> \o s \in Seq(T)
  BY <1>1, Joins, Zenon
<1>3. Regroups(<<x>> \o <<y>>, <<z>>, s) /\ Regroups(<<x>>, <<y>>, <<z>> \o s)
  BY <1>1, <1>2, RegroupsAlways, Zenon
<1>4. ((<<x>> \o <<y>>) \o <<z>>) \o s = <<x>> \o (<<y>> \o (<<z>> \o s))
  BY <1>3, Zenon DEF Regroups
<1>5. <<x, y, z>> = (<<x>> \o <<y>>) \o <<z>>
  BY Tuples
<1> QED BY <1>4, <1>5, Zenon DEF Three

\* Six parts and what is behind them.
Six(a, b, c, d, e, f, z) ==
    ((a \o b \o c) \o (d \o e \o f)) \o z = a \o (b \o (c \o (d \o (e \o (f \o z)))))

\* The six parts of a voice's list, one after the other.
LEMMA Regroup ==
  ASSUME NEW T, NEW a \in Seq(T), NEW b \in Seq(T), NEW c \in Seq(T),
         NEW d \in Seq(T), NEW e \in Seq(T), NEW f \in Seq(T), NEW z \in Seq(T)
  PROVE  Six(a, b, c, d, e, f, z) /\ (a \o b \o c) \o (d \o e \o f) \in Seq(T)
<1>1. a \o b \in Seq(T) /\ d \o e \in Seq(T) /\ f \o z \in Seq(T)
  BY Joins, Zenon
<1>2. a \o b \o c \in Seq(T) /\ d \o e \o f \in Seq(T) /\ e \o (f \o z) \in Seq(T)
  BY <1>1, Joins, Zenon
<1>3. d \o (e \o (f \o z)) \in Seq(T) /\ (a \o b \o c) \o (d \o e \o f) \in Seq(T)
  BY <1>1, <1>2, Joins, Zenon
<1>4. c \o (d \o (e \o (f \o z))) \in Seq(T)
  BY <1>3, Joins, Zenon
<1>5. Regroups(d \o e, f, z) /\ Regroups(d, e, f \o z)
  BY <1>1, RegroupsAlways, Zenon
<1>6. Regroups(a \o b, c, d \o (e \o (f \o z))) /\ Regroups(a, b, c \o (d \o (e \o (f \o z))))
  BY <1>1, <1>3, <1>4, RegroupsAlways, Zenon
<1>7. Regroups(a \o b \o c, d \o e \o f, z)
  BY <1>2, RegroupsAlways, Zenon
<1>8. (d \o e \o f) \o z = d \o (e \o (f \o z))
  BY <1>5, Zenon DEF Regroups
<1>9. (a \o b \o c) \o (d \o (e \o (f \o z))) = a \o (b \o (c \o (d \o (e \o (f \o z)))))
  BY <1>6, Zenon DEF Regroups
<1>10. ((a \o b \o c) \o (d \o e \o f)) \o z = (a \o b \o c) \o ((d \o e \o f) \o z)
  BY <1>7, Zenon DEF Regroups
<1> QED BY <1>3, <1>8, <1>9, <1>10, Zenon DEF Six

\* The commands of a frame's list.
Parts(s, v) ==
    LET n == s[v].n  env == s[v].env IN
    { BookCommand(v), LoadCommand(v, Fed(v, n), Cut(v, n) - Fed(v, n)),
      DecodeCommand(v, Cut(v, n) - Fed(v, n), IF n = 0 THEN "init" ELSE "none", "aux"),
      LoopCommand(v), LoadCommand(v, Cut(v, n), Fed(v, n + 1) - Cut(v, n)),
      DecodeCommand(v, Fed(v, n + 1) - Cut(v, n), "loop", "spare"), MoveCommand(v, n),
      ResampleCommand(v, n), VolumeCommand("left", env.L), VolumeCommand("right", env.R),
      StartCommand(env.startL), MixCommand(v, n, env) }
ClearCommand == [op |-> "clearbuff", first |-> 1, last |-> 4]
DryWet(wet, dry) == [op |-> "mixer", from |-> wet, to |-> dry]
InterleaveCommand == [op |-> "interleave"]
SaveCommand == [op |-> "savebuff", n |-> Groups]
Words(s) ==
    (UNION {Parts(s, v) : v \in Voice})
    \union {DryWet("wetL", "dryL"), DryWet("wetR", "dryR"), InterleaveCommand, SaveCommand, ClearCommand}

\* What a voice's list is made of, the frame's list is made of.
LEMMA PartsAreWords ==
  ASSUME NEW s, NEW v \in Voice
  PROVE  \A c \in Parts(s, v) : c \in Words(s)
BY DEF Words

\* The parts of a voice's list one after the other.
LEMMA VoiceListIs ==
  ASSUME NEW s, NEW v \in Voice, ~(s[v].n < 0), Behind(s, v) \in Seq(Words(s))
  PROVE  VoiceList(s, v) \in Seq(Words(s)) /\ VoiceList(s, v) \o Behind(s, v) = ToBook(s, v)
<1> DEFINE W == Words(s)
           n == s[v].n
           env == s[v].env
           bk == BookCommand(v)
           ld == LoadCommand(v, Fed(v, n), Cut(v, n) - Fed(v, n))
           de == DecodeCommand(v, Cut(v, n) - Fed(v, n), IF n = 0 THEN "init" ELSE "none", "aux")
           lp == LoopCommand(v)
           lg == LoadCommand(v, Cut(v, n), Fed(v, n + 1) - Cut(v, n))
           dg == DecodeCommand(v, Fed(v, n + 1) - Cut(v, n), "loop", "spare")
           mv == MoveCommand(v, n)
           rs == ResampleCommand(v, n)
           vl == VolumeCommand("left", env.L)
           vr == VolumeCommand("right", env.R)
           vs == StartCommand(env.startL)
           mx == MixCommand(v, n, env)
           b == <<ld, de>>
           c == IF Jump(v, n) = {} THEN << >> ELSE <<lp>> \o <<lg, dg>> \o <<mv>>
           e == IF n > 0 THEN << >> ELSE <<vl, vr, vs>>
           z == Behind(s, v)
<1>1. Decodings(v, n) = <<bk>> \o b \o c
  BY DEF Decodings, Decoding, Jump, Cut, BookCommand, LoadCommand, DecodeCommand, LoopCommand, MoveCommand
<1>2. Mixing(v, n, env) = <<rs>> \o e \o <<mx>>
  BY DEF Mixing, ResampleCommand, VolumeCommand, StartCommand, MixCommand
<1>3. VoiceList(s, v) = (<<bk>> \o b \o c) \o (<<rs>> \o e \o <<mx>>)
  <2>1. VoiceList(s, v) = Decodings(v, n) \o Mixing(v, n, env)
    BY DEF VoiceList
  <2> HIDE DEF n, env, b, c, e, bk, rs, mx
  <2> QED BY <1>1, <1>2, <2>1
<1>4. /\ bk \in W /\ ld \in W /\ de \in W /\ lp \in W /\ lg \in W /\ dg \in W /\ mv \in W
      /\ rs \in W /\ vl \in W /\ vr \in W /\ vs \in W /\ mx \in W
  <2> HIDE DEF W
  <2>1. \A x \in Parts(s, v) : x \in W
    BY PartsAreWords DEF W
  <2> QED BY <2>1 DEF Parts
<1>5. /\ ToBook(s, v) = <<bk>> \o ToLoad(s, v)
      /\ ToLoad(s, v) = <<ld>> \o ToDecode(s, v)
      /\ ToDecode(s, v) = <<de>> \o (IF Jump(v, n) = {} THEN ToResample(s, v) ELSE ToLoop(s, v))
      /\ ToLoop(s, v) = <<lp>> \o ToReload(s, v)
      /\ ToReload(s, v) = <<lg>> \o ToAgain(s, v)
      /\ ToAgain(s, v) = <<dg>> \o ToMove(s, v)
      /\ ToMove(s, v) = <<mv>> \o ToResample(s, v)
      /\ ToResample(s, v) = <<rs>> \o (IF n > 0 THEN ToMix(s, v) ELSE ToLeft(s, v))
      /\ ToLeft(s, v) = <<vl>> \o ToRight(s, v)
      /\ ToRight(s, v) = <<vr>> \o ToStart(s, v)
      /\ ToStart(s, v) = <<vs>> \o ToMix(s, v)
      /\ ToMix(s, v) = <<mx>> \o z
  BY DEF ToBook, ToLoad, ToDecode, ToLoop, ToReload, ToAgain, ToMove, ToResample, ToLeft, ToRight, ToStart, ToMix
<1> HIDE DEF W, bk, ld, de, lp, lg, dg, mv, rs, vl, vr, vs, mx, z
<1>6. z \in Seq(W) /\ \A x \in W : \A t \in Seq(W) : <<x>> \o t \in Seq(W)
  BY Singles, Joins, Zenon DEF W, z
<1>7. ToMix(s, v) \in Seq(W) /\ ToStart(s, v) \in Seq(W) /\ ToRight(s, v) \in Seq(W) /\ ToLeft(s, v) \in Seq(W)
  BY <1>4, <1>5, <1>6, Zenon
<1>8. ToResample(s, v) \in Seq(W)
  BY <1>4, <1>5, <1>6, <1>7, Zenon
<1>9. ToMove(s, v) \in Seq(W) /\ ToAgain(s, v) \in Seq(W) /\ ToReload(s, v) \in Seq(W) /\ ToLoop(s, v) \in Seq(W)
  BY <1>4, <1>5, <1>6, <1>8, Zenon
<1>10. /\ <<bk>> \in Seq(W) /\ b \in Seq(W) /\ <<rs>> \in Seq(W) /\ <<mx>> \in Seq(W)
       /\ <<lp>> \in Seq(W) /\ <<lg, dg>> \in Seq(W) /\ <<mv>> \in Seq(W) /\ e \in Seq(W)
  BY <1>4
<1>11. c \in Seq(W)
  BY <1>10, Joins, EmptySeq, Zenon
<1>12. e \o ToMix(s, v) = IF n > 0 THEN ToMix(s, v) ELSE ToLeft(s, v)
  <2>1. CASE n > 0
    BY <1>7, <2>1, ConcatEmptySeq
  <2>2. CASE ~(n > 0)
    <3>1. Three(vl, vr, vs, ToMix(s, v))
      BY <1>4, <1>7, ThreeInFront
    <3>2. <<vl, vr, vs>> \o ToMix(s, v) = <<vl>> \o (<<vr>> \o (<<vs>> \o ToMix(s, v)))
      BY <3>1, Zenon DEF Three
    <3>3. e = <<vl, vr, vs>>
      BY <2>2
    <3> HIDE DEF e
    <3> QED BY <1>5, <2>2, <3>2, <3>3, Zenon
  <2> QED BY <2>1, <2>2
<1>13. c \o ToResample(s, v) = IF Jump(v, n) = {} THEN ToResample(s, v) ELSE ToLoop(s, v)
  <2>1. CASE Jump(v, n) = {}
    BY <1>8, <2>1, ConcatEmptySeq
  <2>2. CASE Jump(v, n) # {}
    <3>1. <<lp>> \o <<lg, dg>> \in Seq(W)
      BY <1>10, Joins, Zenon
    <3>2. Regroups(<<lp>> \o <<lg, dg>>, <<mv>>, ToResample(s, v)) /\ Regroups(<<lp>>, <<lg, dg>>, ToMove(s, v))
      BY <1>8, <1>9, <1>10, <3>1, RegroupsAlways, Zenon
    <3>3. (<<lp>> \o <<lg, dg>> \o <<mv>>) \o ToResample(s, v) = <<lp>> \o (<<lg, dg>> \o ToMove(s, v))
      BY <1>5, <3>2, Zenon DEF Regroups
    <3>4. <<lg, dg>> \o ToMove(s, v) = ToReload(s, v)
      <4>1. <<lg, dg>> \o ToMove(s, v) = <<lg>> \o (<<dg>> \o ToMove(s, v))
        <5>1. Two(lg, dg, ToMove(s, v))
          BY <1>4, <1>9, TwoInFront
        <5> QED BY <5>1, Zenon DEF Two
      <4> QED BY <1>5, <4>1, Zenon
    <3> QED BY <1>5, <2>2, <3>3, <3>4
  <2> QED BY <2>1, <2>2
<1>14. b \o (c \o ToResample(s, v)) = ToLoad(s, v)
  <2> HIDE DEF c
  <2>1. c \o ToResample(s, v) \in Seq(W)
    BY <1>8, <1>11, Joins, Zenon
  <2>2. b \o (c \o ToResample(s, v)) = <<ld>> \o (<<de>> \o (c \o ToResample(s, v)))
    <3>1. Two(ld, de, c \o ToResample(s, v))
      BY <1>4, <2>1, TwoInFront
    <3> QED BY <3>1, Zenon DEF Two
  <2> QED BY <1>5, <1>13, <2>2, Zenon
<1> HIDE DEF b, c, e
<1>15. /\ ((<<bk>> \o b \o c) \o (<<rs>> \o e \o <<mx>>)) \o z
            = <<bk>> \o (b \o (c \o (<<rs>> \o (e \o (<<mx>> \o z)))))
       /\ (<<bk>> \o b \o c) \o (<<rs>> \o e \o <<mx>>) \in Seq(W)
  <2>1. Six(<<bk>>, b, c, <<rs>>, e, <<mx>>, z) /\ (<<bk>> \o b \o c) \o (<<rs>> \o e \o <<mx>>) \in Seq(W)
    BY <1>6, <1>10, <1>11, Regroup
  <2> QED BY <2>1, Zenon DEF Six
<1>16. VoiceList(s, v) \o z = ToBook(s, v)
  BY <1>3, <1>5, <1>12, <1>14, <1>15, Zenon
<1> QED BY <1>3, <1>15, <1>16 DEF W, z

\* A voice's list holds nothing but commands of the frame.
LEMMA VoiceListTyped ==
  ASSUME NEW s, NEW v \in Voice
  PROVE  VoiceList(s, v) \in Seq(Words(s))
<1> DEFINE W == Words(s)
           n == s[v].n
           env == s[v].env
           bk == BookCommand(v)
           ld == LoadCommand(v, Fed(v, n), Cut(v, n) - Fed(v, n))
           de == DecodeCommand(v, Cut(v, n) - Fed(v, n), IF n = 0 THEN "init" ELSE "none", "aux")
           lp == LoopCommand(v)
           lg == LoadCommand(v, Cut(v, n), Fed(v, n + 1) - Cut(v, n))
           dg == DecodeCommand(v, Fed(v, n + 1) - Cut(v, n), "loop", "spare")
           mv == MoveCommand(v, n)
           rs == ResampleCommand(v, n)
           vl == VolumeCommand("left", env.L)
           vr == VolumeCommand("right", env.R)
           vs == StartCommand(env.startL)
           mx == MixCommand(v, n, env)
           c == IF Jump(v, n) = {} THEN << >> ELSE <<lp>> \o <<lg, dg>> \o <<mv>>
           e == IF n > 0 THEN << >> ELSE <<vl, vr, vs>>
<1>1. Decodings(v, n) = <<bk>> \o <<ld, de>> \o c
  BY DEF Decodings, Decoding, Jump, Cut, BookCommand, LoadCommand, DecodeCommand, LoopCommand, MoveCommand
<1>2. Mixing(v, n, env) = <<rs>> \o e \o <<mx>>
  BY DEF Mixing, ResampleCommand, VolumeCommand, StartCommand, MixCommand
<1>3. VoiceList(s, v) = IF n < 0 THEN << >> ELSE Decodings(v, n) \o Mixing(v, n, env)
  BY DEF VoiceList
<1>4. /\ bk \in W /\ ld \in W /\ de \in W /\ lp \in W /\ lg \in W /\ dg \in W /\ mv \in W
      /\ rs \in W /\ vl \in W /\ vr \in W /\ vs \in W /\ mx \in W
  <2> HIDE DEF W
  <2>1. \A x \in Parts(s, v) : x \in W
    BY PartsAreWords DEF W
  <2> QED BY <2>1 DEF Parts
<1> HIDE DEF W, n, env, bk, ld, de, lp, lg, dg, mv, rs, vl, vr, vs, mx
<1>5. /\ <<bk>> \in Seq(W) /\ <<ld, de>> \in Seq(W) /\ <<rs>> \in Seq(W) /\ <<mx>> \in Seq(W)
      /\ <<lp>> \in Seq(W) /\ <<lg, dg>> \in Seq(W) /\ <<mv>> \in Seq(W) /\ e \in Seq(W) /\ << >> \in Seq(W)
  BY <1>4
<1>6. c \in Seq(W)
  BY <1>5, Joins, Zenon
<1> HIDE DEF c, e
<1>7. Decodings(v, n) \in Seq(W) /\ Mixing(v, n, env) \in Seq(W)
  <2>1. <<bk>> \o <<ld, de>> \in Seq(W) /\ <<rs>> \o e \in Seq(W)
    BY <1>5, Joins, Zenon
  <2> QED BY <1>1, <1>2, <1>5, <1>6, <2>1, Joins, Zenon
<1>8. Decodings(v, n) \o Mixing(v, n, env) \in Seq(W)
  BY <1>7, Joins, Zenon
<1> QED BY <1>3, <1>5, <1>8 DEF W

\* The voices behind v, list by list.
Lists(s, v) == [u \in 1 .. (Voices - v) |-> VoiceList(s, v + u)]

\* The voices are numbered from 1.
LEMMA VoicesNumbered == Voices \in Nat /\ Voice = 1 .. Voices
BY VoiceAssumption, FS_CardinalityType DEF Voices

\* The lists of the voices behind the first v.
LEMMA ListsTyped ==
  ASSUME NEW s, NEW v \in 0 .. Voices
  PROVE  Lists(s, v) \in Seq(Seq(Words(s))) /\ Len(Lists(s, v)) = Voices - v
<1>1. \A u \in 1 .. (Voices - v) : VoiceList(s, v + u) \in Seq(Words(s))
  <2> TAKE u \in 1 .. (Voices - v)
  <2>1. v + u \in Voice
    BY VoicesNumbered
  <2> QED BY <2>1, VoiceListTyped
<1>2. Voices - v \in Nat
  BY VoicesNumbered
<1> QED BY <1>1, <1>2 DEF Lists

\* The four commands behind the voices.
LEMMA EndingTyped ==
  ASSUME NEW s
  PROVE  /\ Ending = <<DryWet("wetL", "dryL"), DryWet("wetR", "dryR"), InterleaveCommand, SaveCommand>>
         /\ Ending \in Seq(Words(s)) /\ ClearCommand \in Words(s)
<1>1. /\ DryWet("wetL", "dryL") \in Words(s) /\ DryWet("wetR", "dryR") \in Words(s)
      /\ InterleaveCommand \in Words(s) /\ SaveCommand \in Words(s) /\ ClearCommand \in Words(s)
  <2> DEFINE A == UNION {Parts(s, v) : v \in Voice}
  <2>1. Words(s) = A \union {DryWet("wetL", "dryL"), DryWet("wetR", "dryR"),
                                       InterleaveCommand, SaveCommand, ClearCommand}
    BY Zenon DEF Words
  <2> HIDE DEF A
  <2> QED BY <2>1
<1>2. Ending = <<DryWet("wetL", "dryL"), DryWet("wetR", "dryR"), InterleaveCommand, SaveCommand>>
  BY DEF Ending, DryWet, InterleaveCommand, SaveCommand
<1> QED BY <1>1, <1>2

\* What is behind a voice is a list of commands of the frame.
LEMMA BehindTyped ==
  ASSUME NEW s, NEW v \in 0 .. Voices
  PROVE  Behind(s, v) \in Seq(Words(s))
<1>1. Behind(s, v) = FlattenSeq(Lists(s, v)) \o Ending
  BY DEF Behind, Lists
<1>2. FlattenSeq(Lists(s, v)) \in Seq(Words(s))
  BY ListsTyped, FlattenTyped
<1>3. Ending \in Seq(Words(s))
  BY EndingTyped
<1> QED BY <1>1, <1>2, <1>3, Joins, Zenon

\* Voice by voice.
LEMMA BehindStep ==
  ASSUME NEW s, NEW v \in Voice
  PROVE  Behind(s, v - 1) = VoiceList(s, v) \o Behind(s, v)
<1> DEFINE x == VoiceList(s, v)
           more == Lists(s, v)
<1>1. v \in 0 .. Voices /\ v - 1 \in 0 .. Voices /\ Voices - (v - 1) = (Voices - v) + 1 /\ Voices - v \in Nat
  BY VoicesNumbered
<1>2. x \in Seq(Words(s)) /\ more \in Seq(Seq(Words(s))) /\ Len(more) = Voices - v
  BY <1>1, VoiceListTyped, ListsTyped
<1>3. Lists(s, v - 1) \in Seq(Seq(Words(s))) /\ Len(Lists(s, v - 1)) = (Voices - v) + 1
  BY <1>1, ListsTyped
<1>4. Lists(s, v - 1) = <<x>> \o more
  <2>1. /\ <<x>> \o more \in Seq(Seq(Words(s))) /\ Len(<<x>> \o more) = Len(more) + 1
        /\ (<<x>> \o more)[1] = x /\ \A i \in 1 .. Len(more) : (<<x>> \o more)[i + 1] = more[i]
    <3> HIDE DEF x, more
    <3> QED BY <1>2, InFront
  <2>2. Lists(s, v - 1)[1] = x
    <3>1. 1 \in 1 .. (Voices - (v - 1)) /\ (v - 1) + 1 = v
      BY <1>1
    <3> QED BY <3>1 DEF Lists
  <2>3. \A i \in 1 .. (Voices - v) : Lists(s, v - 1)[i + 1] = more[i]
    <3> TAKE i \in 1 .. (Voices - v)
    <3>1. i + 1 \in 1 .. (Voices - (v - 1)) /\ (v - 1) + (i + 1) = v + i
      BY <1>1
    <3> QED BY <3>1 DEF Lists
  <2>4. \A i \in 1 .. ((Voices - v) + 1) : Lists(s, v - 1)[i] = (<<x>> \o more)[i]
    <3> TAKE i \in 1 .. ((Voices - v) + 1)
    <3>1. CASE i = 1
      BY <2>1, <2>2, <3>1
    <3>2. CASE i # 1
      <4>1. i - 1 \in 1 .. (Voices - v) /\ (i - 1) + 1 = i
        BY <1>1, <3>2
      <4> HIDE DEF x, more
      <4>2. (<<x>> \o more)[i] = more[i - 1] /\ Lists(s, v - 1)[i] = more[i - 1]
        BY <1>2, <2>1, <2>3, <4>1
      <4> QED BY <4>2
    <3> QED BY <3>1, <3>2
  <2> HIDE DEF x, more
  <2> QED BY <1>2, <1>3, <2>1, <2>4, SeqEqual
<1>5. FlattenSeq(<<x>> \o more) = x \o FlattenSeq(more)
  <2> HIDE DEF x, more
  <2> QED BY <1>2, FlattenCons
<1>6. FlattenSeq(more) \in Seq(Words(s)) /\ Ending \in Seq(Words(s))
  BY <1>2, FlattenTyped, EndingTyped
<1>7. Behind(s, v - 1) = FlattenSeq(Lists(s, v - 1)) \o Ending
  BY DEF Behind, Lists
<1>8. Behind(s, v) = FlattenSeq(more) \o Ending
  BY DEF Behind, Lists
<1>9. Regroups(x, FlattenSeq(more), Ending)
  <2> HIDE DEF x, more
  <2> QED BY <1>2, <1>6, RegroupsAlways, Zenon
<1> HIDE DEF x, more
<1>10. (x \o FlattenSeq(more)) \o Ending = x \o (FlattenSeq(more) \o Ending)
  BY <1>9, Zenon DEF Regroups
<1> QED BY <1>4, <1>5, <1>7, <1>8, <1>10, Zenon DEF x

\* Behind the last voice there is only the ending.
LEMMA BehindEnd ==
  ASSUME NEW s
  PROVE  Behind(s, Voices) = Ending
<1>1. Voices - Voices = 0 /\ Voices \in 0 .. Voices
  BY VoicesNumbered
<1>2. Lists(s, Voices) \in Seq(Seq(Words(s))) /\ Len(Lists(s, Voices)) = 0
  BY <1>1, ListsTyped
<1>3. Lists(s, Voices) = << >>
  BY <1>2
<1>4. FlattenSeq(Lists(s, Voices)) = << >>
  BY <1>2, <1>3 DEF FlattenSeq
<1> QED BY <1>4, EndingTyped, ConcatEmptySeq DEF Behind, Lists

\* The list of a frame: the clearing, then what is behind no voice.
LEMMA FrameListIs ==
  ASSUME NEW s
  PROVE  FrameList(s) = <<ClearCommand>> \o Behind(s, 0) /\ FrameList(s) \in Seq(Words(s))
<1>1. Voices - 0 = Voices /\ 0 \in 0 .. Voices /\ Voice = 1 .. Voices /\ \A u \in Voice : 0 + u = u
  BY VoicesNumbered
<1>2. [v \in Voice |-> VoiceList(s, v)] = Lists(s, 0)
  BY <1>1 DEF Lists
<1>3. FrameList(s) = (<<ClearCommand>> \o FlattenSeq(Lists(s, 0))) \o Ending
  BY <1>2 DEF FrameList, ClearCommand, Ending
<1>4. FlattenSeq(Lists(s, 0)) \in Seq(Words(s)) /\ Ending \in Seq(Words(s)) /\ <<ClearCommand>> \in Seq(Words(s))
  BY <1>1, ListsTyped, FlattenTyped, EndingTyped
<1>5. Regroups(<<ClearCommand>>, FlattenSeq(Lists(s, 0)), Ending)
  BY <1>4, RegroupsAlways, Zenon
<1>6. FrameList(s) = <<ClearCommand>> \o Behind(s, 0)
  BY <1>3, <1>5 DEF Regroups, Behind, Lists
<1>7. Behind(s, 0) \in Seq(Words(s))
  BY <1>1, BehindTyped
<1> QED BY <1>4, <1>6, <1>7, Joins, Zenon

-----------------------------------------------------------------------------
(* A step of the list *)

\* Every command of a frame is known to the microcode, and none is SPNOOP.
LEMMA WordOps ==
  ASSUME NEW s, NEW c \in Words(s)
  PROVE  c.op \in Ops /\ c.op # "spnoop"
<1>1. CASE \E v \in Voice : c \in Parts(s, v)
  BY <1>1 DEF Parts, Ops, BookCommand, LoadCommand, DecodeCommand, LoopCommand, MoveCommand,
     ResampleCommand, VolumeCommand, StartCommand, MixCommand
<1>2. CASE c \in {DryWet("wetL", "dryL"), DryWet("wetR", "dryR"), InterleaveCommand, SaveCommand, ClearCommand}
  BY <1>2 DEF Ops, DryWet, InterleaveCommand, SaveCommand, ClearCommand
<1> QED BY <1>1, <1>2 DEF Words

\* The microcode can walk a frame's list.
LEMMA FrameWalkable ==
  ASSUME NEW s, list = FrameList(s)
  PROVE  Walkable /\ list \in Seq(Words(s))
<1>1. list \in Seq(Words(s)) /\ list = <<ClearCommand>> \o Behind(s, 0)
  BY FrameListIs
<1>2. ClearCommand \in Words(s) /\ Behind(s, 0) \in Seq(Words(s))
  BY EndingTyped, BehindTyped, VoicesNumbered
<1>3. Len(list) = Len(Behind(s, 0)) + 1 /\ Len(Behind(s, 0)) \in Nat
  BY <1>1, <1>2, InFront, LenProperties
<1>4. list # << >>
  BY <1>3
<1>5. \A i \in 1 .. Len(list) : list[i].op # "spnoop"
  BY <1>1, WordOps
<1> QED BY <1>1, <1>4, <1>5 DEF Walkable

\* The command fetched is the first of those left.
LEMMA NextOne ==
  ASSUME ListInv, NEW s, list = FrameList(s), at = "fetch",
         NEW c \in Words(s), NEW more \in Seq(Words(s)), Rest = <<c>> \o more
  PROVE  Fetched = c /\ (Execute => Rest' = more /\ list' = list)
<1>1. Walkable /\ list \in Seq(Words(s))
  BY FrameWalkable
<1>2. r28 + 1 \in 1 .. Len(list) /\ Fetched = list[r28 + 1] /\ Len(ran) = r28 /\ r28 \in Nat
  BY <1>1, FetchedIsNext DEF ListInv, ListTypes, WalkInv, Counted
<1>3. Len(list) \in (r28 + 1) .. Len(list) /\ Len(list) \in Nat
  BY <1>1, <1>2, LenProperties
<1>4. PICK m \in 1 .. Len(list) : m = r28 + 1
  BY <1>2
<1>5. SubSeq(list, m, Len(list)) = <<list[m]>> \o SubSeq(list, m + 1, Len(list))
  BY <1>1, <1>3, <1>4, SubSeqRecursiveFirst
<1>6. SubSeq(list, m + 1, Len(list)) \in Seq(Words(s)) /\ list[m] \in Words(s)
  <2>1. \A i \in (m + 1) .. Len(list) : list[i] \in Words(s)
    BY <1>1, <1>4
  <2>2. m + 1 \in Int /\ Len(list) \in Int
    BY <1>3
  <2> QED BY <1>1, <2>1, <2>2, SubSeqProperties
<1>7. Rest = <<list[m]>> \o SubSeq(list, m + 1, Len(list))
  BY <1>2, <1>4, <1>5 DEF Rest
<1>8. <<list[m]>> \o SubSeq(list, m + 1, Len(list)) = <<c>> \o more
  BY <1>7
<1>9. list[m] = c /\ SubSeq(list, m + 1, Len(list)) = more
  <2>1. PICK x \in Words(s) : x = list[m]
    BY <1>6
  <2>2. PICK y \in Seq(Words(s)) : y = SubSeq(list, m + 1, Len(list))
    BY <1>6
  <2>3. <<x>> \o y = <<c>> \o more
    BY <1>8, <2>1, <2>2
  <2>4. SplitsAlike(x, y, c, more)
    BY ConsInjective
  <2> QED BY <2>1, <2>2, <2>3, <2>4 DEF SplitsAlike
<1>10. ASSUME Execute PROVE Rest' = more /\ list' = list
  <2>1. list' = list /\ ran' = Append(ran, Fetched) /\ Fetched \in Words(s)
    BY <1>2, <1>4, <1>9, <1>10 DEF Execute
  <2>2. Len(ran') = Len(ran) + 1
    BY <2>1 DEF ListInv, ListTypes
  <2>3. Len(ran') + 1 = m + 1
    BY <1>2, <1>4, <2>2
  <2>4. Rest' = SubSeq(list', Len(ran') + 1, Len(list'))
    BY DEF Rest
  <2>5. Rest' = SubSeq(list, m + 1, Len(list))
    BY <2>1, <2>3, <2>4, Zenon
  <2> QED BY <1>9, <2>1, <2>5
<1> QED BY <1>2, <1>4, <1>9, <1>10

\* Each command is executed by the action of its name.
LEMMA ByName ==
  ASSUME AudioCommand
  PROVE  /\ Execute
         /\ Fetched.op = "clearbuff" => ClearBuff
         /\ Fetched.op = "loadbuff" => LoadBuff
         /\ Fetched.op = "savebuff" => SaveBuff
         /\ Fetched.op = "loadadpcm" => LoadAdpcm
         /\ Fetched.op = "setloop" => SetLoop
         /\ Fetched.op = "setvol" => SetVol
         /\ Fetched.op = "dmemmove" => DmemMove
         /\ Fetched.op = "adpcm" => Adpcm
         /\ Fetched.op = "resample" => Resample
         /\ Fetched.op = "envmixer" => EnvMixer
         /\ Fetched.op = "mixer" => Mixer
         /\ Fetched.op = "interleave" => InterleaveBuff
<1>1. CASE ClearBuff
  BY <1>1 DEF ClearBuff, Command_
<1>2. CASE LoadBuff
  BY <1>2 DEF LoadBuff, Command_
<1>3. CASE SaveBuff
  BY <1>3 DEF SaveBuff, Command_
<1>4. CASE LoadAdpcm
  BY <1>4 DEF LoadAdpcm, Command_
<1>5. CASE SetLoop
  BY <1>5 DEF SetLoop, Command_
<1>6. CASE SetVol
  BY <1>6 DEF SetVol, Command_
<1>7. CASE SetRate
  BY <1>7 DEF SetRate, Command_
<1>8. CASE DmemMove
  BY <1>8 DEF DmemMove, Command_
<1>9. CASE Adpcm
  BY <1>9 DEF Adpcm, Command_
<1>10. CASE Resample
  BY <1>10 DEF Resample, Command_
<1>11. CASE EnvMixer
  BY <1>11 DEF EnvMixer, Command_
<1>12. CASE Mixer
  BY <1>12 DEF Mixer, Command_
<1>13. CASE InterleaveBuff
  BY <1>13 DEF InterleaveBuff, Command_
<1>14. CASE SpNoop
  BY <1>14 DEF SpNoop, Command_
<1> QED BY <1>1, <1>2, <1>3, <1>4, <1>5, <1>6, <1>7, <1>8, <1>9, <1>10, <1>11, <1>12, <1>13, <1>14 DEF AudioCommand

\* The rest of a voice's part is a sequence of commands of the list.
LEMMA TailsTyped ==
  ASSUME NEW s, NEW v \in Voice
  PROVE  /\ Behind(s, v) \in Seq(Words(s)) /\ ToMix(s, v) \in Seq(Words(s)) /\ ToStart(s, v) \in Seq(Words(s))
         /\ ToRight(s, v) \in Seq(Words(s)) /\ ToLeft(s, v) \in Seq(Words(s)) /\ ToResample(s, v) \in Seq(Words(s))
         /\ ToMove(s, v) \in Seq(Words(s)) /\ ToAgain(s, v) \in Seq(Words(s)) /\ ToReload(s, v) \in Seq(Words(s))
         /\ ToLoop(s, v) \in Seq(Words(s)) /\ ToDecode(s, v) \in Seq(Words(s)) /\ ToLoad(s, v) \in Seq(Words(s))
<1> DEFINE W == Words(s)
<1>1. Behind(s, v) \in Seq(W)
  BY BehindTyped, VoicesNumbered
<1>2. \A x \in Parts(s, v) : x \in W
  BY PartsAreWords
<1> HIDE DEF W
<1>3. \A x \in W : \A t \in Seq(W) : <<x>> \o t \in Seq(W)
  BY Singles, Joins, Zenon
<1>4. \A x \in Parts(s, v) : \A t \in Seq(W) : <<x>> \o t \in Seq(W)
  BY <1>2, <1>3, Zenon
<1>5. ToMix(s, v) \in Seq(W)
  BY <1>1, <1>4, Zenon DEF ToMix, Parts
<1>6. ToStart(s, v) \in Seq(W)
  BY <1>4, <1>5, Zenon DEF ToStart, Parts
<1>7. ToRight(s, v) \in Seq(W)
  BY <1>4, <1>6, Zenon DEF ToRight, Parts
<1>8. ToLeft(s, v) \in Seq(W)
  BY <1>4, <1>7, Zenon DEF ToLeft, Parts
<1>9. ToResample(s, v) \in Seq(W)
  BY <1>4, <1>5, <1>8, Zenon DEF ToResample, Parts
<1>10. ToMove(s, v) \in Seq(W)
  BY <1>4, <1>9, Zenon DEF ToMove, Parts
<1>11. ToAgain(s, v) \in Seq(W)
  BY <1>4, <1>10, Zenon DEF ToAgain, Parts
<1>12. ToReload(s, v) \in Seq(W)
  BY <1>4, <1>11, Zenon DEF ToReload, Parts
<1>13. ToLoop(s, v) \in Seq(W)
  BY <1>4, <1>12, Zenon DEF ToLoop, Parts
<1>14. ToDecode(s, v) \in Seq(W)
  BY <1>4, <1>9, <1>13, Zenon DEF ToDecode, Parts
<1>15. ToLoad(s, v) \in Seq(W)
  BY <1>4, <1>14, Zenon DEF ToLoad, Parts
<1> QED BY <1>1, <1>5, <1>6, <1>7, <1>8, <1>9, <1>10, <1>11, <1>12, <1>13, <1>14, <1>15 DEF W

-----------------------------------------------------------------------------
(* The decoder *)

\* A frame's blocks jump back at most once, at Cut.
LEMMA CutInFrame ==
  ASSUME NEW v \in Voice, NEW n \in Nat
  PROVE  /\ Fed(v, n) \in Nat /\ Fed(v, n + 1) \in Nat /\ Cut(v, n) \in Fed(v, n) .. Fed(v, n + 1)
         /\ Jump(v, n) = {} => Cut(v, n) = Fed(v, n + 1)
         /\ Jump(v, n) # {} => JumpsBack(Cut(v, n)) /\ Cut(v, n) < Fed(v, n + 1)
         /\ \A q \in Fed(v, n) .. (Fed(v, n + 1) - 1) : q # Cut(v, n) => ~JumpsBack(q)
<1>1. Fed(v, n) \in Nat /\ Fed(v, n + 1) \in Nat /\ Fed(v, n) <= Fed(v, n + 1)
  BY FedStep
<1>2. CASE Jump(v, n) = {}
  <2>1. Cut(v, n) = Fed(v, n + 1)
    BY <1>2 DEF Cut
  <2>2. \A q \in Fed(v, n) .. (Fed(v, n + 1) - 1) : ~JumpsBack(q)
    BY <1>2 DEF Jump
  <2> QED BY <1>1, <1>2, <2>1, <2>2
<1>3. CASE Jump(v, n) # {}
  <2>1. Cut(v, n) \in Jump(v, n)
    BY <1>3 DEF Cut
  <2>2. Cut(v, n) \in Fed(v, n) .. (Fed(v, n + 1) - 1) /\ JumpsBack(Cut(v, n))
    BY <2>1 DEF Jump
  <2>3. \A q \in Fed(v, n) .. (Fed(v, n + 1) - 1) : JumpsBack(q) => q = Cut(v, n)
    BY <2>2, OneJump
  <2>4. Cut(v, n) < Fed(v, n + 1) /\ Cut(v, n) \in Fed(v, n) .. Fed(v, n + 1)
    BY <1>1, <2>2
  <2> QED BY <1>1, <1>3, <2>2, <2>3, <2>4
<1> QED BY <1>2, <1>3

\* A wave form runs on where it does not jump.
LEMMA WaveRun ==
  ASSUME NEW v \in Voice, NEW q \in Nat, NEW m \in Nat, \A i \in 1 .. m : ~JumpsBack(q + i)
  PROVE  \A i \in 0 .. m : Wave(q + i) = Wave(q) + i
<1> DEFINE f == [i \in 0 .. m |-> Wave(q + i)]
           h == [i \in 0 .. m |-> Wave(q) + i]
<1>1. Wave(q) \in Nat
  BY WaveStep
<1>2. f[0] = h[0]
  <2>1. q + 0 = q /\ Wave(q) + 0 = Wave(q) /\ 0 \in 0 .. m
    BY <1>1
  <2> QED BY <2>1
<1>3. ASSUME NEW i \in 1 .. m, f[i - 1] = h[i - 1] PROVE f[i] = h[i]
  <2>1. i - 1 \in 0 .. m /\ i \in 0 .. m /\ q + (i - 1) \in Nat /\ (q + (i - 1)) + 1 = q + i
    OBVIOUS
  <2>2. Wave(q + (i - 1)) = Wave(q) + (i - 1)
    BY <1>3, <2>1
  <2>3. ~JumpsBack((q + (i - 1)) + 1)
    BY <2>1
  <2>4. Wave((q + (i - 1)) + 1) = Wave(q + (i - 1)) + 1
    <3>1. PICK p \in Nat : p = q + (i - 1)
      BY <2>1
    <3>2. ~JumpsBack(p + 1)
      BY <2>3, <3>1
    <3>3. Wave(p + 1) = Wave(p) + 1
      BY <3>2, WaveStep
    <3> QED BY <3>1, <3>3
  <2>5. Wave(q + i) = Wave(q) + i
    BY <1>1, <2>1, <2>2, <2>4
  <2> QED BY <2>1, <2>5
<1>4. Alike(f, h, m)
  BY <1>2, <1>3 DEF Alike
<1>5. Same(f, h, m)
  <2> HIDE DEF f, h
  <2> QED BY <1>4, SameRun
<1> QED BY <1>5 DEF Same

\* The block before one that is no jump.
LEMMA BlockFollows ==
  ASSUME NEW v \in Voice, NEW q \in Nat, ~JumpsBack(q)
  PROVE  BlockOf(v, q) = Before(<<v, Wave(q)>>)
<1>1. CASE q = 0
  <2>1. Wave(q) = 0
    BY <1>1, WaveStep
  <2> QED BY <1>1, <2>1 DEF BlockOf, Before
<1>2. CASE q # 0
  <2>1. PICK p \in Nat : q = p + 1
    BY <1>2
  <2>2. Wave(p + 1) = Wave(p) + 1 /\ Wave(p) \in Nat
    BY <2>1, WaveStep
  <2>3. q - 1 = p /\ Wave(q) = Wave(p) + 1
    BY <2>1, <2>2
  <2>4. Wave(q) # 0 /\ Wave(q) - 1 = Wave(p)
    BY <2>2, <2>3
  <2> QED BY <1>2, <2>3, <2>4 DEF BlockOf, Before
<1> QED BY <1>1, <1>2

\* A run of blocks, decoded from the block before it, is what the wave form
\* holds.
Decodable(v, q, m, h, blocks) ==
    /\ \A i \in 1 .. (m - 1) : ~JumpsBack(q + i)
    /\ m > 0 => h = Before(<<v, Wave(q)>>)
    /\ \A i \in 1 .. m : blocks[i] = <<v, Wave(q) + i - 1>>
RunIs(v, q, m, h, blocks) ==
    DecodedBlocks(v, h, blocks, m) = [i \in 0 .. m |-> IF i = 0 THEN h ELSE BlockOf(v, q + i)]

\* Blocks that go on where the history ends decode to what they are.
LEMMA RunDecoded ==
  ASSUME NEW v \in Voice, NEW q \in Nat, NEW m \in Nat, NEW h, NEW blocks, Decodable(v, q, m, h, blocks)
  PROVE  RunIs(v, q, m, h, blocks)
<1>0. /\ \A i \in 1 .. (m - 1) : ~JumpsBack(q + i)
      /\ m > 0 => h = Before(<<v, Wave(q)>>)
      /\ \A i \in 1 .. m : blocks[i] = <<v, Wave(q) + i - 1>>
  BY DEF Decodable
<1> DEFINE f == [i \in 0 .. m |-> IF i = 0 THEN h ELSE BlockOf(v, q + i)]
<1>1. ASSUME NEW i \in 1 .. m PROVE f[i] = Decode(v, f[i - 1], blocks[i])
  <2>1. Wave(q + (i - 1)) = Wave(q) + (i - 1)
    <3>1. PICK k \in Nat : k = m - 1
      BY <1>1
    <3>2. \A j \in 1 .. k : ~JumpsBack(q + j)
      BY <1>0, <3>1
    <3>3. \A j \in 0 .. k : Wave(q + j) = Wave(q) + j
      BY <3>2, WaveRun
    <3>4. i - 1 \in 0 .. k
      BY <3>1
    <3> QED BY <3>3, <3>4
  <2>2. Wave(q) \in Nat
    BY WaveStep
  <2>3. PICK w \in Nat : w = Wave(q + (i - 1)) /\ blocks[i] = <<v, w>>
    BY <1>0, <2>1, <2>2
  <2>4. f[i] = <<v, w>>
    <3>1. i \in 0 .. m /\ i # 0 /\ q + i # 0 /\ (q + i) - 1 = q + (i - 1)
      OBVIOUS
    <3>2. f[i] = BlockOf(v, q + i)
      BY <3>1
    <3>3. BlockOf(v, q + i) = <<v, Wave((q + i) - 1)>>
      BY <3>1 DEF BlockOf
    <3> QED BY <2>3, <3>1, <3>2, <3>3
  <2>5. f[i - 1] = Before(<<v, w>>)
    <3>1. CASE i = 1
      <4>1. f[i - 1] = h /\ q + (i - 1) = q /\ m > 0
        BY <3>1
      <4> QED BY <1>0, <2>3, <4>1
    <3>2. CASE i # 1
      <4>1. i - 1 \in 0 .. m /\ i - 1 # 0 /\ i - 1 \in 1 .. (m - 1)
        BY <3>2
      <4>2. PICK p \in Nat : p = q + (i - 1)
        BY <4>1
      <4>3. f[i - 1] = BlockOf(v, p)
        BY <4>1, <4>2
      <4>4. ~JumpsBack(p)
        BY <1>0, <4>1, <4>2
      <4> QED BY <2>3, <4>2, <4>3, <4>4, BlockFollows
    <3> QED BY <3>1, <3>2
  <2>6. Decode(v, f[i - 1], blocks[i]) = <<v, w>>
    <3> HIDE DEF f
    <3> QED BY <2>3, <2>5 DEF Decode
  <2> QED BY <2>4, <2>6
<1>2. f = [i \in 0 .. m |-> f[i]] /\ f[0] = h
  OBVIOUS
<1> HIDE DEF f
<1>3. DecodedBlocks(v, h, blocks, m) = f
  <2>1. PICK k : k = f
    OBVIOUS
  <2>2. k = [i \in 0 .. m |-> k[i]] /\ k[0] = h
    BY <1>2, <2>1
  <2>3. \A i \in 1 .. m : k[i] = Decode(v, k[i - 1], blocks[i])
    BY <1>1, <2>1
  <2>4. FollowsDecode(k, v, h, blocks, m)
    BY <2>2, <2>3 DEF FollowsDecode
  <2>5. DecodedBlocks(v, h, blocks, m) = k
    BY <2>4, DecodedIs, Zenon
  <2> QED BY <2>1, <2>5
<1> QED BY <1>3 DEF f, RunIs

-----------------------------------------------------------------------------
(* From command to command *)

SongTyped(s) == s \in [Voice -> [n : Int, env : Envelope]]

\* A command of the frame of s is executed.
Steps(s) == ListInv /\ AudioShapes /\ list = FrameList(s) /\ at = "fetch" /\ AudioCommand

\* A step executes the first of the commands that are left.
LEMMA Takes ==
  ASSUME NEW s, Steps(s), NEW c \in Words(s), NEW more \in Seq(Words(s)), Rest = <<c>> \o more
  PROVE  Fetched = c /\ Rest' = more /\ list' = list
BY NextOne, ByName DEF Steps

\* The four buses.
LEMMA BusNames == Range(Buses) = {"dryL", "dryR", "wetL", "wetR"}
<1>1. DOMAIN Buses = 1 .. 4 /\ Buses[1] = "dryL" /\ Buses[2] = "dryR" /\ Buses[3] = "wetL" /\ Buses[4] = "wetR"
  BY DEF Buses
<1>2. \A b \in 1 .. 4 : b \in {1, 2, 3, 4}
  OBVIOUS
<1>3. Range(Buses) = {Buses[b] : b \in DOMAIN Buses}
  BY DEF Range
<1> QED BY <1>1, <1>2, <1>3

\* What a command leaves of a voice, of the buses.
VoiceStays(u) ==
    /\ rdram'.adpcm[u] = rdram.adpcm[u] /\ rdram'.resample[u] = rdram.resample[u]
    /\ rdram'.env[u] = rdram.env[u]
BusesStay == \A bus \in Range(Buses) : area'[bus] = area[bus]

\* What a voice has saved stays as long as its three blocks do.
LEMMA VoiceKept ==
  ASSUME NEW s, NEW u, NEW n, VoiceStays(u)
  PROVE  /\ Decoder(u, n)' <=> Decoder(u, n)
         /\ Resampler(u, n)' <=> Resampler(u, n)
         /\ Envelopes(s, u, n)' <=> Envelopes(s, u, n)
         /\ Ready(s, u)' <=> Ready(s, u)
         /\ Done(s, u)' <=> Done(s, u)
BY DEF VoiceStays, Decoder, Resampler, Envelopes, Ready, Done, Saved

\* The other voices are as they were when only one voice's blocks change.
LEMMA OthersKept ==
  ASSUME NEW s, NEW v \in Voice, Others(s, v), BusesStay, \A u \in Voice \ {v} : VoiceStays(u)
  PROVE  Others(s, v)'
<1>1. OnBuses(s, v - 1)'
  BY DEF Others, OnBuses, BusesStay
<1>2. \A u \in Voice : (u < v => Done(s, u)') /\ (u > v => Ready(s, u)')
  <2> TAKE u \in Voice
  <2>1. v \in Nat /\ u \in Nat
    BY VoicesNumbered
  <2>2. ASSUME u < v PROVE Done(s, u)'
    <3>1. Done(s, u) /\ VoiceStays(u)
      BY <2>1, <2>2 DEF Others
    <3> QED BY <3>1, VoiceKept
  <2>3. ASSUME u > v PROVE Ready(s, u)'
    <3>1. Ready(s, u) /\ VoiceStays(u)
      BY <2>1, <2>3 DEF Others
    <3> QED BY <3>1, VoiceKept
  <2> QED BY <2>2, <2>3
<1> QED BY <1>1, <1>2 DEF Others

\* The commands of voice v and what each leaves.
LEMMA VoiceCommands ==
  ASSUME NEW s, NEW v \in Voice
  PROVE  LET n == s[v].n  env == s[v].env IN
         /\ BookCommand(v) \in Words(s) /\ LoadCommand(v, Fed(v, n), Cut(v, n) - Fed(v, n)) \in Words(s)
         /\ DecodeCommand(v, Cut(v, n) - Fed(v, n), IF n = 0 THEN "init" ELSE "none", "aux") \in Words(s)
         /\ LoopCommand(v) \in Words(s) /\ LoadCommand(v, Cut(v, n), Fed(v, n + 1) - Cut(v, n)) \in Words(s)
         /\ DecodeCommand(v, Fed(v, n + 1) - Cut(v, n), "loop", "spare") \in Words(s)
         /\ MoveCommand(v, n) \in Words(s) /\ ResampleCommand(v, n) \in Words(s)
         /\ VolumeCommand("left", env.L) \in Words(s) /\ VolumeCommand("right", env.R) \in Words(s)
         /\ StartCommand(env.startL) \in Words(s) /\ MixCommand(v, n, env) \in Words(s)
BY PartsAreWords, Zenon DEF Parts

\* The buses are cleared first.
LEMMA ClearStep ==
  ASSUME NEW s, SongTyped(s), Steps(s), ran = << >>, \A u \in Voice : Ready(s, u)
  PROVE  Between(s, 0)'
<1>1. Rest = <<ClearCommand>> \o Behind(s, 0)
  <2>1. list = <<ClearCommand>> \o Behind(s, 0) /\ list \in Seq(Words(s))
    BY FrameListIs DEF Steps
  <2>2. Len(ran) = 0
    OBVIOUS
  <2>3. Rest = SubSeq(list, 1, Len(list))
    BY <2>2 DEF Rest
  <2>4. SubSeq(list, 1, Len(list)) = list
    BY <2>1
  <2> QED BY <2>1, <2>3, <2>4
<1>2. ClearCommand \in Words(s) /\ Behind(s, 0) \in Seq(Words(s))
  BY EndingTyped, BehindTyped, VoicesNumbered
<1>3. Fetched = ClearCommand /\ Rest' = Behind(s, 0)
  BY <1>1, <1>2, Takes
<1>4. ClearBuff /\ Fetched.first = 1 /\ Fetched.last = 4
  BY <1>3, ByName DEF ClearCommand, Steps
<1>5. \A bus \in Range(Buses) : area'[bus] = Empty
  <2>1. \A bus \in Range(Buses) : bus \in {Buses[b] : b \in 1 .. 4} /\ bus \in DOMAIN area
    BY DEF Range, Buses, Steps, AudioShapes
  <2> QED BY <1>4, <2>1 DEF ClearBuff
<1>6. OnBuses(s, 0)'
  <2>1. \A bus, g : Mixes(s, 0, bus, g) = << >>
    BY DEF Mixes, FlattenSeq
  <2> QED BY <1>5, <2>1 DEF OnBuses, Empty
<1>7. \A u \in Voice : VoiceStays(u)
  BY <1>4 DEF ClearBuff, VoiceStays
<1>8. \A u \in Voice : u > 0 /\ ~(u <= 0) /\ Ready(s, u)'
  BY <1>7, VoiceKept, VoicesNumbered
<1> QED BY <1>3, <1>6, <1>8 DEF Between

\* A voice that plays begins with its book.
LEMMA BookStep ==
  ASSUME NEW s, SongTyped(s), Steps(s), NEW v \in Voice, s[v].n >= 0, Between(s, v - 1)
  PROVE  Within(s, v)'
<1> DEFINE n == s[v].n
<1>0. n \in Nat /\ v \in Nat \ {0} /\ \A u \in Voice : u \in Nat
  BY VoicesNumbered DEF SongTyped
<1>1. Behind(s, v - 1) = <<BookCommand(v)>> \o ToLoad(s, v)
  <2>1. Behind(s, v) \in Seq(Words(s)) /\ ~(s[v].n < 0)
    BY <1>0, TailsTyped
  <2>2. VoiceList(s, v) \o Behind(s, v) = ToBook(s, v)
    BY <2>1, VoiceListIs
  <2> QED BY <2>2, BehindStep DEF ToBook
<1>2. BookCommand(v) \in Words(s) /\ ToLoad(s, v) \in Seq(Words(s))
  BY VoiceCommands, TailsTyped
<1>3. Fetched = BookCommand(v) /\ Rest' = ToLoad(s, v)
  BY <1>1, <1>2, Takes DEF Between
<1>4. LoadAdpcm /\ Fetched.v = v
  BY <1>3, ByName DEF BookCommand, Steps
<1>5. reg'.book = v /\ area' = area /\ rdram' = rdram
  BY <1>4 DEF LoadAdpcm, Steps, AudioShapes
<1>6. Others(s, v)'
  <2>1. Others(s, v)
    BY <1>0 DEF Others, Between
  <2> QED BY <1>5, <2>1, OthersKept DEF BusesStay, VoiceStays
<1>7. n > 0 => Saved(s, v, n)
  BY <1>0 DEF Between, Ready
<1>8. n > 0 => Decoder(v, n)' /\ Resampler(v, n)' /\ Envelopes(s, v, n)'
  BY <1>5, <1>7, VoiceKept DEF VoiceStays, Saved
<1>9. Keeps(s, v, n)' /\ n >= 0
  BY <1>0, <1>8 DEF Keeps
<1> QED BY <1>3, <1>5, <1>6, <1>8, <1>9 DEF Within

\* The blocks up to the jump, or to the end, are loaded.
LEMMA LoadStep ==
  ASSUME NEW s, SongTyped(s), Steps(s), NEW v \in Voice, s[v].n >= 0, Others(s, v), reg.book = v, Keeps(s, v, s[v].n),
         s[v].n > 0 => Decoder(v, s[v].n), Rest = ToLoad(s, v)
  PROVE  Within(s, v)'
<1> DEFINE n == s[v].n
           q == Fed(v, n)
           m == Cut(v, n) - Fed(v, n)
<1>1. LoadCommand(v, q, m) \in Words(s) /\ ToDecode(s, v) \in Seq(Words(s))
  BY VoiceCommands, TailsTyped
<1>2. Fetched = LoadCommand(v, q, m) /\ Rest' = ToDecode(s, v)
  BY <1>1, Takes DEF ToLoad
<1>3. LoadBuff /\ Fetched.v = v /\ Fetched.k = Wave(q) /\ Fetched.n = m
  BY <1>2, ByName DEF LoadCommand, Steps
<1>4. /\ reg' = reg /\ rdram' = rdram
      /\ area' = IF m = 0 THEN area ELSE [area EXCEPT !["in"] = [i \in 1 .. m |-> <<v, Wave(q) + i - 1>>]]
  BY <1>3 DEF LoadBuff
<1>5. \A u \in Voice : VoiceStays(u)
  BY <1>4 DEF VoiceStays
<1>6. BusesStay
  BY <1>4, BusNames DEF BusesStay, Steps, AudioShapes
<1>7. Others(s, v)' /\ Keeps(s, v, n)' /\ (n > 0 => Decoder(v, n)')
  BY <1>5, <1>6, OthersKept, VoiceKept DEF Keeps
<1>8. Loads(v, q, m)'
  <2>1. CASE m = 0
    BY <2>1 DEF Loads
  <2>2. CASE m # 0
    <3>1. area'["in"] = [i \in 1 .. m |-> <<v, Wave(q) + i - 1>>]
      BY <1>4, <2>2 DEF Steps, AudioShapes
    <3> HIDE DEF q, m
    <3> QED BY <3>1 DEF Loads
  <2> QED BY <2>1, <2>2
<1> QED BY <1>2, <1>4, <1>7, <1>8 DEF Within

\* The second load, behind the jump.
LEMMA ReloadStep ==
  ASSUME NEW s, SongTyped(s), Steps(s), NEW v \in Voice, s[v].n >= 0, Others(s, v), reg.book = v, Keeps(s, v, s[v].n),
         Decodes(v, s[v].n, Cut(v, s[v].n)), Jump(v, s[v].n) # {}, reg.loop = v, Rest = ToReload(s, v)
  PROVE  Within(s, v)'
<1> DEFINE n == s[v].n
           q == Cut(v, n)
           m == Fed(v, n + 1) - Cut(v, n)
<1>1. LoadCommand(v, q, m) \in Words(s) /\ ToAgain(s, v) \in Seq(Words(s))
  BY VoiceCommands, TailsTyped
<1>2. Fetched = LoadCommand(v, q, m) /\ Rest' = ToAgain(s, v)
  BY <1>1, Takes DEF ToReload
<1>3. LoadBuff /\ Fetched.v = v /\ Fetched.k = Wave(q) /\ Fetched.n = m
  BY <1>2, ByName DEF LoadCommand, Steps
<1>4. /\ reg' = reg /\ rdram' = rdram
      /\ area' = IF m = 0 THEN area ELSE [area EXCEPT !["in"] = [i \in 1 .. m |-> <<v, Wave(q) + i - 1>>]]
  BY <1>3 DEF LoadBuff
<1>5. \A u \in Voice : VoiceStays(u)
  BY <1>4 DEF VoiceStays
<1>6. BusesStay
  BY <1>4, BusNames DEF BusesStay, Steps, AudioShapes
<1>7. Others(s, v)' /\ Keeps(s, v, n)'
  BY <1>5, <1>6, OthersKept, VoiceKept DEF Keeps
<1>8. Loads(v, q, m)'
  <2>1. CASE m = 0
    BY <2>1 DEF Loads
  <2>2. CASE m # 0
    <3>1. area'["in"] = [i \in 1 .. m |-> <<v, Wave(q) + i - 1>>]
      BY <1>4, <2>2 DEF Steps, AudioShapes
    <3> HIDE DEF q, m
    <3> QED BY <3>1 DEF Loads
  <2> QED BY <2>1, <2>2
<1>9. Decodes(v, n, q)'
  <2>1. area'["aux"] = area["aux"]
    BY <1>4 DEF Steps, AudioShapes
  <2> QED BY <1>4, <2>1 DEF Decodes
<1> QED BY <1>2, <1>4, <1>7, <1>8, <1>9 DEF Within

\* The first part is decoded behind what the voice kept.
LEMMA DecodeStep ==
  ASSUME NEW s, SongTyped(s), Steps(s), NEW v \in Voice, s[v].n >= 0, Others(s, v), reg.book = v, Keeps(s, v, s[v].n),
         s[v].n > 0 => Decoder(v, s[v].n), Loads(v, Fed(v, s[v].n), Cut(v, s[v].n) - Fed(v, s[v].n)),
         Rest = ToDecode(s, v)
  PROVE  Within(s, v)'
<1> DEFINE n == s[v].n
           from == Fed(v, n)
           cut == Cut(v, n)
           m == cut - from
           flag == IF n = 0 THEN "init" ELSE "none"
           more == IF Jump(v, n) = {} THEN ToResample(s, v) ELSE ToLoop(s, v)
<1>0. n \in Nat
  BY DEF SongTyped
<1>1. DecodeCommand(v, m, flag, "aux") \in Words(s) /\ more \in Seq(Words(s))
  BY VoiceCommands, TailsTyped
<1>2. Fetched = DecodeCommand(v, m, flag, "aux") /\ Rest' = more
  <2>1. Rest = <<DecodeCommand(v, m, flag, "aux")>> \o more
    BY DEF ToDecode
  <2> HIDE DEF m, flag, more
  <2> QED BY <1>1, <2>1, Takes
<1>3. Adpcm /\ Fetched.v = v /\ Fetched.n = m /\ Fetched.flag = flag /\ Fetched.out = "aux"
  BY <1>2, ByName DEF DecodeCommand, Steps
<1>4. History = BlockOf(v, from)
  <2>1. CASE n = 0
    <3>1. from = 0
      BY <2>1, FedStep
    <3> QED BY <1>3, <2>1, <3>1 DEF History, BlockOf
  <2>2. CASE n # 0
    <3>1. Decoder(v, n)
      BY <1>0, <2>2
    <3> QED BY <1>3, <2>2, <3>1 DEF History, Decoder
  <2> QED BY <2>1, <2>2
<1>5. /\ from \in Nat /\ cut \in Nat /\ m \in Nat /\ from + m = cut
      /\ \A i \in 1 .. (m - 1) : ~JumpsBack(from + i)
      /\ m > 0 => ~JumpsBack(from)
  <2>1. /\ from \in Nat /\ Fed(v, n + 1) \in Nat /\ cut \in from .. Fed(v, n + 1)
        /\ \A q \in from .. (Fed(v, n + 1) - 1) : q # cut => ~JumpsBack(q)
    BY <1>0, CutInFrame
  <2>2. cut \in Nat /\ m \in Nat /\ from + m = cut
    BY <2>1
  <2>3. \A i \in 0 .. (m - 1) : from + i \in from .. (Fed(v, n + 1) - 1) /\ from + i # cut
    BY <2>1
  <2>4. \A i \in 0 .. (m - 1) : ~JumpsBack(from + i)
    BY <2>1, <2>3
  <2>5. m > 0 => 0 \in 0 .. (m - 1) /\ from + 0 = from
    BY <2>1
  <2> QED BY <2>1, <2>2, <2>4, <2>5
<1> DEFINE block == DecodedBlocks(v, BlockOf(v, from), area["in"], m)
<1>6. \A i \in 0 .. m : block[i] = BlockOf(v, from + i)
  <2> HIDE DEF from, m, cut
  <2>1. m > 0 => BlockOf(v, from) = Before(<<v, Wave(from)>>)
    BY <1>5, BlockFollows
  <2>2. \A i \in 1 .. m : area["in"][i] = <<v, Wave(from) + i - 1>>
    BY DEF Loads, m, cut, from
  <2>3. block = [i \in 0 .. m |-> IF i = 0 THEN BlockOf(v, from) ELSE BlockOf(v, from + i)]
    <3>1. Decodable(v, from, m, BlockOf(v, from), area["in"])
      BY <1>5, <2>1, <2>2 DEF Decodable
    <3>2. \A i \in Nat, j \in Nat : \A x, y : Decodable(v, i, j, x, y) => RunIs(v, i, j, x, y)
      BY RunDecoded, Zenon
    <3>3. RunIs(v, from, m, BlockOf(v, from), area["in"])
      BY <1>5, <3>1, <3>2, Zenon
    <3> QED BY <3>3, Zenon DEF RunIs
  <2>4. from + 0 = from
    BY <1>5
  <2> HIDE DEF block
  <2> QED BY <2>3, <2>4
<1>7. /\ area' = [area EXCEPT !["aux"] = [i \in 1 .. (m + 1) |-> block[i - 1]]]
      /\ rdram' = [rdram EXCEPT !.adpcm[v] = block[m]]
      /\ reg' = reg
  BY <1>3, <1>4 DEF Adpcm
<1> HIDE DEF block, flag
<1>8. Decodes(v, n, cut)'
  <2>1. area'["aux"] = [i \in 1 .. (m + 1) |-> block[i - 1]]
    BY <1>7 DEF Steps, AudioShapes
  <2>2. rdram'.adpcm[v] = block[m]
    BY <1>7 DEF Steps, AudioShapes
  <2> HIDE DEF from, m, cut
  <2>3. block[m] = BlockOf(v, cut)
    BY <1>5, <1>6
  <2>4. \A i \in 1 .. (m + 1) : block[i - 1] = BlockOf(v, from + i - 1)
    <3> TAKE i \in 1 .. (m + 1)
    <3>1. i - 1 \in 0 .. m /\ from + (i - 1) = from + i - 1
      BY <1>5
    <3> QED BY <1>6, <3>1
  <2>5. area'["aux"] = [i \in 1 .. (m + 1) |-> BlockOf(v, from + i - 1)]
    BY <2>1, <2>4
  <2>6. cut - from + 1 = m + 1
    BY <1>5
  <2> QED BY <2>2, <2>3, <2>5, <2>6 DEF Decodes, from
<1>9. BusesStay /\ \A u \in Voice \ {v} : VoiceStays(u)
  BY <1>7, BusNames DEF BusesStay, VoiceStays, Steps, AudioShapes
<1>10. Keeps(s, v, n)'
  BY <1>7 DEF Keeps, Resampler, Envelopes, Steps, AudioShapes
<1>11. Others(s, v)'
  BY <1>9, OthersKept
<1>12. Jump(v, n) = {} => cut = Fed(v, n + 1)
  BY DEF Cut
<1>13. CASE Jump(v, n) = {}
  BY <1>2, <1>7, <1>8, <1>10, <1>11, <1>12, <1>13 DEF Within
<1>14. CASE Jump(v, n) # {}
  BY <1>2, <1>7, <1>8, <1>10, <1>11, <1>14 DEF Within
<1> QED BY <1>13, <1>14

\* SETLOOP names the voice whose loop the next decoding takes up.
LEMMA LoopStep ==
  ASSUME NEW s, SongTyped(s), Steps(s), NEW v \in Voice, s[v].n >= 0, Others(s, v), reg.book = v, Keeps(s, v, s[v].n),
         Decodes(v, s[v].n, Cut(v, s[v].n)), Jump(v, s[v].n) # {}, Rest = ToLoop(s, v)
  PROVE  Within(s, v)'
<1> DEFINE n == s[v].n
<1>1. LoopCommand(v) \in Words(s) /\ ToReload(s, v) \in Seq(Words(s))
  BY VoiceCommands, TailsTyped
<1>2. Fetched = LoopCommand(v) /\ Rest' = ToReload(s, v)
  BY <1>1, Takes DEF ToLoop
<1>3. SetLoop /\ Fetched.v = v
  BY <1>2, ByName DEF LoopCommand, Steps
<1>4. reg'.loop = v /\ reg'.book = v /\ area' = area /\ rdram' = rdram
  BY <1>3 DEF SetLoop, Steps, AudioShapes
<1>5. Others(s, v)' /\ Keeps(s, v, n)'
  BY <1>4, OthersKept, VoiceKept DEF BusesStay, VoiceStays, Keeps
<1>6. Decodes(v, n, Cut(v, n))'
  BY <1>4 DEF Decodes
<1> QED BY <1>2, <1>4, <1>5, <1>6 DEF Within

IsTuple(f, n) == f = [i \in 1 .. n |-> f[i]]

\* A tuple of members of T is a sequence of T.
LEMMA TupleTyped ==
  ASSUME NEW T, NEW n \in Nat, NEW f, IsTuple(f, n), \A i \in 1 .. n : f[i] \in T
  PROVE  f \in Seq(T) /\ Len(f) = n
<1>1. f \in [1 .. n -> T]
  BY Zenon DEF IsTuple
<1> QED BY <1>1

\* A sequence is a tuple.
LEMMA SequenceIsTuple ==
  ASSUME NEW T, NEW f \in Seq(T)
  PROVE  IsTuple(f, Len(f))
<1>1. f \in [1 .. Len(f) -> T]
  BY LenProperties
<1> QED BY <1>1, Zenon DEF IsTuple

\* The second part is decoded behind the state stored with the loop.
LEMMA AgainStep ==
  ASSUME NEW s, SongTyped(s), Steps(s), NEW v \in Voice, s[v].n >= 0, Others(s, v), reg.book = v, Keeps(s, v, s[v].n),
         Decodes(v, s[v].n, Cut(v, s[v].n)), Jump(v, s[v].n) # {}, reg.loop = v,
         Loads(v, Cut(v, s[v].n), Fed(v, s[v].n + 1) - Cut(v, s[v].n)), Rest = ToAgain(s, v)
  PROVE  Within(s, v)'
<1> DEFINE n == s[v].n
           from == Fed(v, n)
           to == Fed(v, n + 1)
           cut == Cut(v, n)
           m == to - cut
<1>0. n \in Nat
  BY DEF SongTyped
<1>1. DecodeCommand(v, m, "loop", "spare") \in Words(s) /\ ToMove(s, v) \in Seq(Words(s))
  BY VoiceCommands, TailsTyped
<1>2. Fetched = DecodeCommand(v, m, "loop", "spare") /\ Rest' = ToMove(s, v)
  BY <1>1, Takes DEF ToAgain
<1>3. Adpcm /\ Fetched.v = v /\ Fetched.n = m /\ Fetched.flag = "loop" /\ Fetched.out = "spare"
  BY <1>2, ByName DEF DecodeCommand, Steps
<1>4. /\ cut \in Nat /\ to \in Nat /\ m \in Nat \ {0} /\ cut + m = to
      /\ \A i \in 1 .. (m - 1) : ~JumpsBack(cut + i)
      /\ Wave(cut) = LoopStart
  <2>1. /\ from \in Nat /\ to \in Nat /\ cut \in from .. to /\ JumpsBack(cut) /\ cut < to
        /\ \A q \in from .. (to - 1) : q # cut => ~JumpsBack(q)
    BY <1>0, CutInFrame
  <2>2. cut \in Nat /\ m \in Nat \ {0} /\ cut + m = to
    BY <2>1
  <2>3. \A i \in 1 .. (m - 1) : cut + i \in from .. (to - 1) /\ cut + i # cut
    BY <2>1
  <2>4. Wave(cut) = LoopStart
    BY <2>1, <2>2, WaveStep
  <2> QED BY <2>1, <2>2, <2>3, <2>4
<1>5. History = Before(<<v, Wave(cut)>>)
  BY <1>3, <1>4 DEF History
<1> DEFINE h == Before(<<v, Wave(cut)>>)
           block == DecodedBlocks(v, h, area["in"], m)
<1>6. \A i \in 1 .. m : block[i] = BlockOf(v, cut + i)
  <2> HIDE DEF m, cut, h
  <2>1. Decodable(v, cut, m, h, area["in"])
    BY <1>4 DEF Decodable, Loads, m, cut, h
  <2>2. \A i \in Nat, j \in Nat : \A x, y : Decodable(v, i, j, x, y) => RunIs(v, i, j, x, y)
    BY RunDecoded, Zenon
  <2>3. m \in Nat
    BY <1>4
  <2>4. RunIs(v, cut, m, h, area["in"])
    BY <1>4, <2>1, <2>2, <2>3, Zenon
  <2>5. block = [i \in 0 .. m |-> IF i = 0 THEN h ELSE BlockOf(v, cut + i)]
    BY <2>4, Zenon DEF RunIs
  <2> HIDE DEF block
  <2> QED BY <2>3, <2>5
<1>7. /\ area' = [area EXCEPT !["spare"] = [i \in 1 .. (m + 1) |-> block[i - 1]]]
      /\ rdram' = [rdram EXCEPT !.adpcm[v] = block[m]]
      /\ reg' = reg
  BY <1>3, <1>5 DEF Adpcm
<1> HIDE DEF block
<1>8. DecodesAgain(v, n)'
  <2>1. area'["spare"] = [i \in 1 .. (m + 1) |-> block[i - 1]] /\ area'["aux"] = area["aux"]
    BY <1>7 DEF Steps, AudioShapes
  <2>2. rdram'.adpcm[v] = block[m]
    BY <1>7 DEF Steps, AudioShapes
  <2>3. area["aux"] = [i \in 1 .. (cut - from + 1) |-> BlockOf(v, from + i - 1)]
    BY DEF Decodes
  <2> HIDE DEF m
  <2>4. block[m] = BlockOf(v, to)
    BY <1>4, <1>6
  <2>5. \A i \in 1 .. m : area'["spare"][i + 1] = BlockOf(v, cut + i)
    <3> TAKE i \in 1 .. m
    <3>1. i + 1 \in 1 .. (m + 1) /\ (i + 1) - 1 = i
      BY <1>4
    <3> QED BY <1>6, <2>1, <3>1
  <2>6. area'["spare"] = [i \in 1 .. (m + 1) |-> area'["spare"][i]]
    BY <2>1
  <2> QED BY <2>1, <2>2, <2>3, <2>4, <2>5, <2>6 DEF DecodesAgain, m
<1>9. BusesStay /\ \A u \in Voice \ {v} : VoiceStays(u)
  BY <1>7, BusNames DEF BusesStay, VoiceStays, Steps, AudioShapes
<1>10. Keeps(s, v, n)'
  BY <1>7 DEF Keeps, Resampler, Envelopes, Steps, AudioShapes
<1>11. Others(s, v)'
  BY <1>9, OthersKept
<1> QED BY <1>2, <1>7, <1>8, <1>10, <1>11 DEF Within

\* The second part goes behind the first.
LEMMA MoveStep ==
  ASSUME NEW s, SongTyped(s), Steps(s), NEW v \in Voice, s[v].n >= 0, Others(s, v), reg.book = v, Keeps(s, v, s[v].n),
         DecodesAgain(v, s[v].n), Jump(v, s[v].n) # {}, Rest = ToMove(s, v)
  PROVE  Within(s, v)'
<1> DEFINE n == s[v].n
           from == Fed(v, n)
           to == Fed(v, n + 1)
           cut == Cut(v, n)
           m == to - cut
           aux == area["aux"]
           spare == area["spare"]
<1>0. n \in Nat
  BY DEF SongTyped
<1>1. MoveCommand(v, n) \in Words(s) /\ ToResample(s, v) \in Seq(Words(s))
  BY VoiceCommands, TailsTyped
<1>2. Fetched = MoveCommand(v, n) /\ Rest' = ToResample(s, v)
  BY <1>1, Takes DEF ToMove
<1>3. /\ DmemMove /\ Fetched.from = "spare" /\ Fetched.skip = 1 /\ Fetched.n = m
      /\ Fetched.to = "aux" /\ Fetched.at = cut - from + 2
  BY <1>2, ByName DEF MoveCommand, Steps
<1>4. from \in Nat /\ to \in Nat /\ cut \in from .. to
  BY <1>0, CutInFrame
<1>5. PICK a \in Nat : a = cut - from + 1 /\ (cut - from + 2) - 1 = a
  BY <1>4
<1>6. PICK k \in Nat : k = m
  BY <1>4
<1>7. area' = [area EXCEPT !["aux"] = SubSeq(aux, 1, a) \o SubSeq(spare, 1 + 1, 1 + k)]
  <2>1. Fetched.at - 1 = a /\ Fetched.skip + 1 = 1 + 1 /\ Fetched.skip + Fetched.n = 1 + k
    <3>1. Fetched.at - 1 = (cut - from + 2) - 1 /\ Fetched.skip + 1 = 1 + 1
      BY <1>3, Zenon
    <3>2. Fetched.skip + Fetched.n = 1 + k
      BY <1>3, <1>6, Zenon
    <3> QED BY <1>5, <3>1, <3>2, Zenon
  <2>2. area' = [area EXCEPT ![Fetched.to] =
                    SubSeq(area[Fetched.to], 1, Fetched.at - 1)
                    \o SubSeq(area[Fetched.from], Fetched.skip + 1, Fetched.skip + Fetched.n)]
    BY <1>3, Zenon DEF DmemMove
  <2>3. Fetched.to = "aux" /\ Fetched.from = "spare"
    BY <1>3
  <2> QED BY <2>1, <2>2, <2>3, Zenon
<1>8. reg' = reg /\ rdram' = rdram
  BY <1>3 DEF DmemMove
<1> HIDE DEF m
<1>9. /\ aux = [i \in 1 .. a |-> BlockOf(v, from + i - 1)]
      /\ spare = [i \in 1 .. (k + 1) |-> spare[i]]
      /\ \A i \in 1 .. k : spare[i + 1] = BlockOf(v, cut + i)
      /\ rdram.adpcm[v] = BlockOf(v, to)
  BY <1>5, <1>6 DEF DecodesAgain, m
<1>10. area'["aux"] = [i \in 1 .. (to - from + 1) |-> BlockOf(v, from + i - 1)]
  <2>1. PICK x : x = aux
    OBVIOUS
  <2>2. PICK y : y = spare
    OBVIOUS
  <2> DEFINE T == {x[i] : i \in 1 .. a} \union {y[i] : i \in 1 .. (k + 1)}
  <2>3. x = [i \in 1 .. a |-> x[i]] /\ y = [i \in 1 .. (k + 1) |-> y[i]]
    BY <1>9, <2>1, <2>2
  <2>4. x \in Seq(T) /\ Len(x) = a /\ y \in Seq(T) /\ Len(y) = k + 1
    <3>1. \A i \in 1 .. a : x[i] \in T
      OBVIOUS
    <3>2. \A i \in 1 .. (k + 1) : y[i] \in T
      OBVIOUS
    <3>3. IsTuple(x, a) /\ IsTuple(y, k + 1)
      BY <2>3, Zenon DEF IsTuple
    <3>4. k + 1 \in Nat
      OBVIOUS
    <3> HIDE DEF T
    <3> QED BY <3>1, <3>2, <3>3, <3>4, TupleTyped, Zenon
  <2> HIDE DEF T
  <2>5. SubSeq(x, 1, a) = x
    BY <2>4
  <2>6. /\ SubSeq(y, 1 + 1, 1 + k) \in Seq(T) /\ Len(SubSeq(y, 1 + 1, 1 + k)) = k
        /\ \A i \in 1 .. k : SubSeq(y, 1 + 1, 1 + k)[i] = y[i + 1]
    BY <2>4
  <2>7. PICK z \in Seq(T) : z = SubSeq(y, 1 + 1, 1 + k) /\ Len(z) = k /\ \A i \in 1 .. k : z[i] = y[i + 1]
    BY <2>6
  <2>8. x \o z \in Seq(T) /\ Len(x \o z) = a + k
        /\ \A i \in 1 .. (a + k) : (x \o z)[i] = IF i <= a THEN x[i] ELSE z[i - a]
    <3>1. z \in Seq(T)
      BY <2>7
    <3>2. /\ x \o z \in Seq(T) /\ Len(x \o z) = Len(x) + Len(z)
          /\ \A i \in 1 .. (Len(x) + Len(z)) : (x \o z)[i] = IF i <= Len(x) THEN x[i] ELSE z[i - Len(x)]
      BY <2>4, <3>1, ConcatProperties, Zenon
    <3>3. Len(x) = a /\ Len(z) = k
      BY <2>4, <2>7
    <3> QED BY <3>2, <3>3, Zenon
  <2>9. \A i \in 1 .. (a + k) : (x \o z)[i] = BlockOf(v, from + i - 1)
    <3> TAKE i \in 1 .. (a + k)
    <3>1. CASE i <= a
      <4>1. i \in 1 .. a
        BY <3>1
      <4>2. x[i] = BlockOf(v, from + i - 1)
        BY <1>9, <2>1, <4>1
      <4> QED BY <2>8, <3>1, <4>2
    <3>2. CASE ~(i <= a)
      <4>1. i - a \in 1 .. k
        BY <3>2
      <4>2. z[i - a] = BlockOf(v, cut + (i - a))
        <5>1. z[i - a] = y[(i - a) + 1]
          BY <2>7, <4>1
        <5>2. y[(i - a) + 1] = BlockOf(v, cut + (i - a))
          BY <1>9, <2>2, <4>1
        <5> QED BY <5>1, <5>2
      <4>3. cut + (i - a) = from + i - 1
        BY <1>4, <1>5
      <4> QED BY <2>8, <3>2, <4>2, <4>3
    <3> QED BY <3>1, <3>2
  <2>10. a + k = to - from + 1
    BY <1>4, <1>5, <1>6 DEF m
  <2>11. area'["aux"] = x \o z
    BY <1>7, <2>1, <2>2, <2>5, <2>7 DEF Steps, AudioShapes
  <2>12. x \o z = [i \in 1 .. (a + k) |-> (x \o z)[i]]
    <3>1. PICK w \in Seq(T) : w = x \o z /\ Len(w) = a + k
      BY <2>8
    <3>2. w = [i \in 1 .. (a + k) |-> w[i]]
      BY <3>1, SequenceIsTuple, Zenon DEF IsTuple
    <3> QED BY <3>1, <3>2
  <2> QED BY <2>9, <2>10, <2>11, <2>12
<1>11. Decodes(v, n, Fed(v, n + 1))'
  BY <1>8, <1>9, <1>10 DEF Decodes
<1>12. BusesStay /\ \A u \in Voice : VoiceStays(u)
  BY <1>7, <1>8, BusNames DEF BusesStay, VoiceStays, Steps, AudioShapes
<1>13. Keeps(s, v, n)' /\ Others(s, v)'
  BY <1>12, OthersKept, VoiceKept DEF Keeps
<1> QED BY <1>2, <1>8, <1>11, <1>13 DEF Within

\* Each group is read where the position says, and what lies behind the last
\* is kept.
LEMMA ResampleStep ==
  ASSUME NEW s, SongTyped(s), Steps(s), NEW v \in Voice, s[v].n >= 0, Others(s, v), reg.book = v, Keeps(s, v, s[v].n),
         Decodes(v, s[v].n, Fed(v, s[v].n + 1)), Rest = ToResample(s, v)
  PROVE  Within(s, v)'
<1> DEFINE n == s[v].n
           from == Fed(v, n)
           to == Fed(v, n + 1)
           more == IF n > 0 THEN ToMix(s, v) ELSE ToLeft(s, v)
           kept == BlockOf(v, from)
           frac == Base(v, n) % Frac
<1>0. n \in Nat
  BY DEF SongTyped
<1>1. ResampleCommand(v, n) \in Words(s) /\ more \in Seq(Words(s))
  BY VoiceCommands, TailsTyped
<1>2. Fetched = ResampleCommand(v, n) /\ Rest' = more
  <2>1. Rest = <<ResampleCommand(v, n)>> \o more
    BY DEF ToResample
  <2> HIDE DEF n, more
  <2> QED BY <1>1, <2>1, Takes
<1>3. Resample /\ Fetched.v = v /\ Fetched.init = (n = 0) /\ Fetched.pitch = Pitch[v]
  BY <1>2, ByName DEF ResampleCommand, Steps
<1>4. from \in Nat /\ to \in Nat /\ from <= to /\ frac \in Nat
  <2>1. from \in Nat /\ to \in Nat /\ from <= to
    BY <1>0, FedStep
  <2>2. PICK b \in Nat : b = Base(v, n)
    BY <1>0, BaseStep
  <2>3. Frac \in Nat \ {0}
    BY VoiceAssumption
  <2> QED BY <2>1, <2>2, <2>3, DivMod
<1>5. ResampleState = [frac |-> frac, kept |-> kept]
  <2>1. CASE n = 0
    <3>1. Base(v, n) = 0 /\ from = 0
      BY <2>1, BaseStep, FedStep
    <3>2. Frac \in Nat \ {0}
      BY VoiceAssumption
    <3>3. 0 % Frac = 0
      <4>1. 0 - 0 = Frac * 0 /\ 0 < Frac
        BY <3>2
      <4> QED BY <3>2, <4>1, DivModUnique
    <3>4. frac = 0 /\ kept = Silence
      BY <3>1, <3>3 DEF BlockOf
    <3> QED BY <1>3, <2>1, <3>4 DEF ResampleState
  <2>2. CASE n # 0
    <3>1. Resampler(v, n)
      BY <1>0, <2>2 DEF Keeps
    <3> QED BY <1>3, <2>2, <3>1 DEF ResampleState, Resampler
  <2> QED BY <2>1, <2>2
<1> DEFINE back(g) == (frac + (g - 1) * Pitch[v]) \div Frac
           source == <<ResampleState.kept>> \o Tail(area["aux"])
<1>6. \A g : Position(g) = frac + (g - 1) * Pitch[v]
  BY <1>3, <1>5 DEF Position
<1>7. source = area["aux"]
  <2>1. PICK x : x = area["aux"]
    OBVIOUS
  <2>2. PICK a \in Nat : a = to - from /\ to - from + 1 = a + 1
    BY <1>4
  <2>3. x = [i \in 1 .. (a + 1) |-> BlockOf(v, from + i - 1)]
    BY <2>1, <2>2 DEF Decodes
  <2> DEFINE T == {x[i] : i \in 1 .. (a + 1)}
  <2>4. x = [i \in 1 .. (a + 1) |-> x[i]] /\ 1 \in 1 .. (a + 1)
    BY <2>3
  <2>5. x \in Seq(T) /\ Len(x) = a + 1 /\ x[1] = kept
    <3>1. x[1] = BlockOf(v, from + 1 - 1) /\ from + 1 - 1 = from
      BY <1>4, <2>3, <2>4
    <3>2. x \in Seq(T) /\ Len(x) = a + 1
      BY <2>4
    <3> QED BY <3>1, <3>2
  <2> HIDE DEF T, kept
  <2>6. x # << >> /\ Head(x) = kept
    BY <2>5
  <2>7. <<Head(x)>> \o Tail(x) = x
    <3>1. /\ <<Head(x)>> \o Tail(x) \in Seq(T) /\ Len(<<Head(x)>> \o Tail(x)) = a + 1
          /\ (<<Head(x)>> \o Tail(x))[1] = x[1]
          /\ \A i \in 1 .. a : (<<Head(x)>> \o Tail(x))[i + 1] = x[i + 1]
      <4>1. Head(x) \in T /\ Tail(x) \in Seq(T) /\ Len(Tail(x)) = a /\ Head(x) = x[1]
            /\ \A i \in 1 .. a : Tail(x)[i] = x[i + 1]
        BY <2>5, <2>6
      <4>2. PICK h \in T, t \in Seq(T) : h = Head(x) /\ t = Tail(x)
        BY <4>1
      <4>3. /\ <<h>> \o t \in Seq(T) /\ Len(<<h>> \o t) = Len(t) + 1
            /\ (<<h>> \o t)[1] = h /\ \A i \in 1 .. Len(t) : (<<h>> \o t)[i + 1] = t[i]
        BY InFront
      <4> QED BY <4>1, <4>2, <4>3
    <3>2. PICK y \in Seq(T) : y = <<Head(x)>> \o Tail(x)
      BY <3>1
    <3>3. \A i \in 1 .. (a + 1) : y[i] = x[i]
      <4> TAKE i \in 1 .. (a + 1)
      <4>1. CASE i = 1
        BY <3>1, <3>2, <4>1
      <4>2. CASE i # 1
        <5>1. i - 1 \in 1 .. a /\ (i - 1) + 1 = i
          BY <4>2
        <5> QED BY <3>1, <3>2, <5>1
      <4> QED BY <4>1, <4>2
    <3>4. y = x
      BY <2>5, <3>1, <3>2, <3>3, SeqEqual
    <3> QED BY <3>2, <3>4
  <2> QED BY <1>5, <2>1, <2>6, <2>7
<1>8. /\ area' = [area EXCEPT !["aux"] = source, !["main"] = [g \in 1 .. Groups |-> source[1 + Position(g) \div Frac]]]
      /\ rdram' = [rdram EXCEPT !.resample[v] =
                      [frac |-> Position(Groups + 1) % Frac, kept |-> source[1 + Position(Groups + 1) \div Frac]]]
      /\ reg' = reg
  BY <1>3 DEF Resample
<1> HIDE DEF source
<1>9. /\ \A g \in 1 .. (Groups + 1) : source[1 + Position(g) \div Frac] = BlockOf(v, from + back(g))
      /\ \A g \in 1 .. (Groups + 1) : from + back(g) = ((n * Groups + g - 1) * Pitch[v]) \div Frac
      /\ from + back(Groups + 1) = to
      /\ Position(Groups + 1) % Frac = Base(v, n + 1) % Frac
  <2>1. \A g \in 1 .. (Groups + 1) :
            /\ back(g) \in 0 .. (to - from)
            /\ from + back(g) = ((n * Groups + g - 1) * Pitch[v]) \div Frac
            /\ g = Groups + 1 => back(g) = to - from /\ (frac + (g - 1) * Pitch[v]) % Frac = Base(v, n + 1) % Frac
    BY <1>0, ReadAt
  <2>2. Groups + 1 \in 1 .. (Groups + 1)
    BY VoiceAssumption
  <2>3. Position(Groups + 1) % Frac = Base(v, n + 1) % Frac /\ back(Groups + 1) = to - from
    BY <1>6, <2>1, <2>2
  <2>4. ASSUME NEW g \in 1 .. (Groups + 1)
        PROVE  source[1 + Position(g) \div Frac] = BlockOf(v, from + back(g))
    <3>1. Position(g) \div Frac = back(g)
      BY <1>6
    <3>2. PICK b \in 0 .. (to - from) : b = back(g)
      BY <2>1
    <3> HIDE DEF from, to, back
    <3>3. 1 + b \in 1 .. (to - from + 1) /\ from + (1 + b) - 1 = from + b
      BY <1>4, <3>2
    <3>4. area["aux"][1 + b] = BlockOf(v, from + (1 + b) - 1)
      <4>1. area["aux"] = [i \in 1 .. (to - from + 1) |-> BlockOf(v, from + i - 1)]
        BY DEF Decodes, from, to
      <4> QED BY <3>3, <4>1
    <3> QED BY <1>7, <3>1, <3>2, <3>3, <3>4
  <2>5. from + back(Groups + 1) = to
    BY <1>4, <2>3
  <2> HIDE DEF back
  <2> QED BY <2>1, <2>3, <2>4, <2>5
<1> HIDE DEF back
<1>10. area'["main"] = [g \in 1 .. Groups |-> Heard(v, n, g)]
  <2>1. area'["main"] = [g \in 1 .. Groups |-> source[1 + Position(g) \div Frac]]
    BY <1>8 DEF Steps, AudioShapes
  <2>2. \A g \in 1 .. Groups : source[1 + Position(g) \div Frac] = Heard(v, n, g)
    <3> TAKE g \in 1 .. Groups
    <3>1. g \in 1 .. (Groups + 1)
      BY VoiceAssumption
    <3>2. source[1 + Position(g) \div Frac] = BlockOf(v, ((n * Groups + g - 1) * Pitch[v]) \div Frac)
      BY <1>9, <3>1
    <3> QED BY <3>2 DEF BlockOf, Heard
  <2> QED BY <2>1, <2>2
<1>11. Resampler(v, n + 1)'
  <2>1. rdram'.resample[v] =
            [frac |-> Position(Groups + 1) % Frac, kept |-> source[1 + Position(Groups + 1) \div Frac]]
    BY <1>8 DEF Steps, AudioShapes
  <2>2. source[1 + Position(Groups + 1) \div Frac] = BlockOf(v, to)
    <3>1. Groups + 1 \in 1 .. (Groups + 1)
      BY VoiceAssumption
    <3> QED BY <1>9, <3>1
  <2> QED BY <1>9, <2>1, <2>2 DEF Resampler
<1>12. Decoder(v, n + 1)'
  BY <1>8 DEF Decodes, Decoder, Steps, AudioShapes
<1>13. n > 0 => Envelopes(s, v, n)'
  BY <1>8 DEF Keeps, Envelopes, Steps, AudioShapes
<1>14. BusesStay /\ \A u \in Voice \ {v} : VoiceStays(u)
  BY <1>8, BusNames DEF BusesStay, VoiceStays, Steps, AudioShapes
<1>15. Others(s, v)'
  BY <1>14, OthersKept
<1>16. Plays(s, v, n)'
  BY <1>10, <1>11, <1>12, <1>13 DEF Plays
<1>17. CASE n > 0
  BY <1>2, <1>15, <1>16, <1>17 DEF Within
<1>18. CASE n = 0
  BY <1>2, <1>15, <1>16, <1>18 DEF Within
<1> QED BY <1>0, <1>17, <1>18

-----------------------------------------------------------------------------
(* The mixing *)

\* A voice that begins gets its ramps and the volume it starts from.
LEMMA LeftStep ==
  ASSUME NEW s, SongTyped(s), Steps(s), NEW v \in Voice, s[v].n = 0, Others(s, v), Plays(s, v, s[v].n), Rest = ToLeft(s, v)
  PROVE  Within(s, v)'
<1> DEFINE n == s[v].n
           env == s[v].env
<1>1. VolumeCommand("left", env.L) \in Words(s) /\ ToRight(s, v) \in Seq(Words(s))
  BY VoiceCommands, TailsTyped
<1>2. Fetched = VolumeCommand("left", env.L) /\ Rest' = ToRight(s, v)
  BY <1>1, Takes DEF ToLeft
<1>3. SetVol /\ Fetched.side = "left" /\ Fetched.ramp = env.L
  BY <1>2, ByName DEF VolumeCommand, Steps
<1>4. reg' = [reg EXCEPT !.L = env.L] /\ area' = area /\ rdram' = rdram
  BY <1>3 DEF SetVol
<1>5. reg'.L = env.L
  BY <1>4 DEF Steps, AudioShapes
<1>6. Others(s, v)' /\ Plays(s, v, n)'
  BY <1>4, OthersKept, VoiceKept DEF BusesStay, VoiceStays, Plays
<1> QED BY <1>2, <1>5, <1>6 DEF Within

\* The right ramp is set behind the left one.
LEMMA RightStep ==
  ASSUME NEW s, SongTyped(s), Steps(s), NEW v \in Voice, s[v].n = 0, Others(s, v), Plays(s, v, s[v].n),
         reg.L = s[v].env.L, Rest = ToRight(s, v)
  PROVE  Within(s, v)'
<1> DEFINE n == s[v].n
           env == s[v].env
<1>1. VolumeCommand("right", env.R) \in Words(s) /\ ToStart(s, v) \in Seq(Words(s))
  BY VoiceCommands, TailsTyped
<1>2. Fetched = VolumeCommand("right", env.R) /\ Rest' = ToStart(s, v)
  BY <1>1, Takes DEF ToRight
<1>3. SetVol /\ Fetched.side = "right" /\ Fetched.ramp = env.R
  BY <1>2, ByName DEF VolumeCommand, Steps
<1>4. reg' = [reg EXCEPT !.R = env.R] /\ area' = area /\ rdram' = rdram
  BY <1>3 DEF SetVol
<1>5. reg'.L = env.L /\ reg'.R = env.R
  BY <1>4 DEF Steps, AudioShapes
<1>6. Others(s, v)' /\ Plays(s, v, n)'
  BY <1>4, OthersKept, VoiceKept DEF BusesStay, VoiceStays, Plays
<1> QED BY <1>2, <1>5, <1>6 DEF Within

\* The volume a voice starts from is set last.
LEMMA StartStep ==
  ASSUME NEW s, SongTyped(s), Steps(s), NEW v \in Voice, s[v].n = 0, Others(s, v), Plays(s, v, s[v].n),
         reg.L = s[v].env.L, reg.R = s[v].env.R, Rest = ToStart(s, v)
  PROVE  Within(s, v)'
<1> DEFINE n == s[v].n
           env == s[v].env
<1>1. StartCommand(env.startL) \in Words(s) /\ ToMix(s, v) \in Seq(Words(s))
  BY VoiceCommands, TailsTyped
<1>2. Fetched = StartCommand(env.startL) /\ Rest' = ToMix(s, v)
  BY <1>1, Takes DEF ToStart
<1>3. SetVol /\ Fetched.side = "start" /\ Fetched.vol = env.startL
  BY <1>2, ByName DEF StartCommand, Steps
<1>4. reg' = [reg EXCEPT !.startL = env.startL] /\ area' = area /\ rdram' = rdram
  BY <1>3 DEF SetVol
<1>5. reg'.L = env.L /\ reg'.R = env.R /\ reg'.startL = env.startL
  BY <1>4 DEF Steps, AudioShapes
<1>6. Others(s, v)' /\ Plays(s, v, n)'
  BY <1>4, OthersKept, VoiceKept DEF BusesStay, VoiceStays, Plays
<1> QED BY <1>2, <1>5, <1>6 DEF Within

\* What a voice adds to a bus.
Gain(env, bus, m) ==
    IF bus \in {"dryL", "wetL"} THEN VolumeAt(env.startL, env.L, m) ELSE VolumeAt(env.startR, env.R, m)
Mark(s, u, bus, g) == <<bus, Heard(u, s[u].n, g), Gain(s[u].env, bus, s[u].n * Groups + g)>>
Marks(s, bus, g) == {Mark(s, u, bus, g) : u \in Voice}

\* What a voice puts on a bus is at most one mark.
LEMMA MixedTyped ==
  ASSUME NEW s, NEW u \in Voice, NEW bus, NEW g
  PROVE  /\ Mixed(s, u, bus, g) = IF s[u].n < 0 THEN << >> ELSE <<Mark(s, u, bus, g)>>
         /\ Mark(s, u, bus, g) \in Marks(s, bus, g) /\ Mixed(s, u, bus, g) \in Seq(Marks(s, bus, g))
<1>1. Mixed(s, u, bus, g) = IF s[u].n < 0 THEN << >> ELSE <<Mark(s, u, bus, g)>>
  BY DEF Mixed, Mark, Gain
<1>2. Mark(s, u, bus, g) \in Marks(s, bus, g)
  BY DEF Marks
<1> QED BY <1>1, <1>2

\* The buses hold one voice more.
LEMMA MixesStep ==
  ASSUME NEW s, NEW v \in Voice, NEW bus, NEW g
  PROVE  /\ Mixes(s, v - 1, bus, g) \in Seq(Marks(s, bus, g))
         /\ Mixes(s, v, bus, g) = Mixes(s, v - 1, bus, g) \o Mixed(s, v, bus, g)
<1> DEFINE S == Marks(s, bus, g)
           less == [u \in 1 .. (v - 1) |-> Mixed(s, u, bus, g)]
           all == [u \in 1 .. v |-> Mixed(s, u, bus, g)]
<1>1. v \in Nat \ {0} /\ v <= Voices /\ Voices \in Nat /\ Voice = 1 .. Voices
  BY VoicesNumbered
<1>2. \A u \in 1 .. v : Mixed(s, u, bus, g) \in Seq(S)
  <2>1. \A u \in 1 .. v : u \in Voice
    BY <1>1
  <2> QED BY <2>1, MixedTyped
<1>3. less \in Seq(Seq(S)) /\ Len(less) = v - 1 /\ all \in Seq(Seq(S)) /\ Len(all) = v
  <2> HIDE DEF S
  <2> QED BY <1>1, <1>2
<1>4. Mixed(s, v, bus, g) \in Seq(S)
  BY MixedTyped
<1>5. all = Append(less, Mixed(s, v, bus, g))
  <2>1. /\ Append(less, Mixed(s, v, bus, g)) \in Seq(Seq(S))
        /\ Len(Append(less, Mixed(s, v, bus, g))) = v
        /\ \A u \in 1 .. (v - 1) : Append(less, Mixed(s, v, bus, g))[u] = less[u]
        /\ Append(less, Mixed(s, v, bus, g))[v] = Mixed(s, v, bus, g)
    <3> HIDE DEF S, less
    <3> QED BY <1>1, <1>3, <1>4
  <2>2. \A u \in 1 .. v : all[u] = Append(less, Mixed(s, v, bus, g))[u]
    <3> TAKE u \in 1 .. v
    <3>1. CASE u = v
      BY <2>1, <3>1
    <3>2. CASE u # v
      <4>1. u \in 1 .. (v - 1)
        BY <1>1, <3>2
      <4> QED BY <2>1, <4>1
    <3> QED BY <3>1, <3>2
  <2> HIDE DEF S, less, all
  <2> QED BY <1>3, <2>1, <2>2, SeqEqual
<1>6. Mixes(s, v - 1, bus, g) = FlattenSeq(less) /\ Mixes(s, v, bus, g) = FlattenSeq(all)
  BY DEF Mixes
<1> HIDE DEF S, less, all
<1>7. FlattenSeq(less) \in Seq(S)
  BY <1>3, FlattenTyped
<1>8. FlattenSeq(all) = FlattenSeq(less) \o Mixed(s, v, bus, g)
  BY <1>3, <1>4, <1>5, FlattenAppend
<1> QED BY <1>6, <1>7, <1>8 DEF S

\* The volumes of a frame's groups.
LEMMA FrameRamp ==
  ASSUME NEW start \in Int, NEW ramp \in [target : Int, rate : Int], NEW k \in Nat
  PROVE  /\ Ramped(ramp, Level(start, ramp, k)) = [g \in 0 .. Groups |-> Level(start, ramp, k + g)]
         /\ \A g \in 1 .. Groups : Level(start, ramp, k + g) \div Frac = VolumeAt(start, ramp, k + g)
<1> DEFINE f == [g \in 0 .. Groups |-> Level(start, ramp, k + g)]
<1>1. ASSUME NEW g \in 1 .. Groups
      PROVE  /\ f[g] = Ramp(ramp, f[g - 1])
             /\ Level(start, ramp, k + g) \div Frac = VolumeAt(start, ramp, k + g)
  <2>1. PICK m \in Nat : m = k + (g - 1) /\ m + 1 = k + g
    BY VoiceAssumption
  <2>2. g - 1 \in 0 .. Groups /\ g \in 0 .. Groups
    BY VoiceAssumption
  <2>3. f[g - 1] = Level(start, ramp, m) /\ f[g] = Level(start, ramp, m + 1)
    BY <2>1, <2>2
  <2>4. /\ Ramp(ramp, Level(start, ramp, m)) = Level(start, ramp, m + 1)
        /\ Level(start, ramp, m + 1) \div Frac = VolumeAt(start, ramp, m + 1)
    BY LevelStep
  <2> QED BY <2>1, <2>3, <2>4
<1>2. f[0] = Level(start, ramp, k)
  <2>1. 0 \in 0 .. Groups /\ k + 0 = k
    BY VoiceAssumption
  <2> QED BY <2>1
<1>3. f = [g \in 0 .. Groups |-> f[g]]
  OBVIOUS
<1>4. FollowsRamp(f, ramp, Level(start, ramp, k))
  <2> HIDE DEF f
  <2> QED BY <1>1, <1>2, <1>3 DEF FollowsRamp
<1>5. Ramped(ramp, Level(start, ramp, k)) = f
  <2> HIDE DEF f
  <2> QED BY <1>4, RampedIs, Zenon
<1> QED BY <1>1, <1>5

\* The voice is mixed to the buses with the volumes its envelope has reached.
LEMMA MixStep ==
  ASSUME NEW s, SongTyped(s), Steps(s), NEW v \in Voice, s[v].n >= 0, Others(s, v), Plays(s, v, s[v].n),
         s[v].n = 0 => reg.L = s[v].env.L /\ reg.R = s[v].env.R /\ reg.startL = s[v].env.startL,
         Rest = ToMix(s, v)
  PROVE  Between(s, v)'
<1> DEFINE n == s[v].n
           env == s[v].env
           k == n * Groups
<1>0. /\ n \in Nat /\ Groups \in Nat \ {0} /\ Frac \in Nat \ {0} /\ k \in Nat
      /\ env.L \in [target : Int, rate : Int] /\ env.R \in [target : Int, rate : Int]
      /\ env.startL \in Int /\ env.startR \in Int
      /\ v \in Nat \ {0} /\ \A u \in Voice : u \in Nat
  <2>1. n \in Nat /\ env \in Envelope
    BY DEF SongTyped
  <2>2. Groups \in Nat \ {0} /\ Frac \in Nat \ {0}
    BY VoiceAssumption
  <2>3. k \in Nat
    BY <2>1, <2>2
  <2>4. v \in Nat \ {0} /\ \A u \in Voice : u \in Nat
    BY VoicesNumbered
  <2> QED BY <2>1, <2>2, <2>3, <2>4, EnvelopeAssumption
<1>1. MixCommand(v, n, env) \in Words(s) /\ Behind(s, v) \in Seq(Words(s))
  BY VoiceCommands, TailsTyped
<1>2. Fetched = MixCommand(v, n, env) /\ Rest' = Behind(s, v)
  BY <1>1, Takes DEF ToMix
<1>3. EnvMixer /\ Fetched.v = v /\ Fetched.init = (n = 0) /\ Fetched.startR = env.startR
  BY <1>2, ByName DEF MixCommand, Steps
<1> DEFINE begun == [L |-> env.L, R |-> env.R,
                     volL |-> Level(env.startL, env.L, k), volR |-> Level(env.startR, env.R, k)]
<1>4. EnvState = begun
  <2>1. CASE n = 0
    <3>1. k = 0
      BY <1>0, <2>1
    <3>2. Level(env.startL, env.L, k) = env.startL * Frac /\ Level(env.startR, env.R, k) = env.startR * Frac
      BY <3>1 DEF Level
    <3> QED BY <1>3, <2>1, <3>2 DEF EnvState
  <2>2. CASE n # 0
    <3>1. rdram.env[v] = begun
      BY <1>0, <2>2 DEF Plays, Envelopes
    <3> QED BY <1>3, <2>2, <3>1 DEF EnvState
  <2> QED BY <2>1, <2>2
<1> DEFINE left == [g \in 0 .. Groups |-> Level(env.startL, env.L, k + g)]
           right == [g \in 0 .. Groups |-> Level(env.startR, env.R, k + g)]
           Volume(bus, g) == (IF bus \in {"dryL", "wetL"} THEN left[g] ELSE right[g]) \div Frac
<1>5. Ramped(EnvState.L, EnvState.volL) = left /\ Ramped(EnvState.R, EnvState.volR) = right
  <2>1. EnvState.L = env.L /\ EnvState.R = env.R
        /\ EnvState.volL = Level(env.startL, env.L, k) /\ EnvState.volR = Level(env.startR, env.R, k)
    BY <1>4
  <2>2. /\ Ramped(env.L, Level(env.startL, env.L, k)) = left
        /\ Ramped(env.R, Level(env.startR, env.R, k)) = right
    BY <1>0, FrameRamp
  <2> QED BY <2>1, <2>2, Zenon
<1>6. /\ area' = [a \in DOMAIN area |->
                     IF a \notin Range(Buses) THEN area[a]
                     ELSE [g \in 1 .. Groups |-> Append(area[a][g], <<a, area["main"][g], Volume(a, g)>>)]]
      /\ rdram' = [rdram EXCEPT !.env[v] = [begun EXCEPT !.volL = left[Groups], !.volR = right[Groups]]]
  <2> HIDE DEF left, right, begun
  <2> QED BY <1>3, <1>4, <1>5, Zenon DEF EnvMixer
<1>7. OnBuses(s, v)'
  <2> SUFFICES ASSUME NEW bus \in Range(Buses) PROVE area'[bus] = [g \in 1 .. Groups |-> Mixes(s, v, bus, g)]
    BY DEF OnBuses
  <2>1. area'[bus] = [g \in 1 .. Groups |-> Append(area[bus][g], <<bus, area["main"][g], Volume(bus, g)>>)]
    <3>1. bus \in DOMAIN area
      BY DEF Steps, AudioShapes
    <3> HIDE DEF Volume
    <3> QED BY <1>6, <3>1, Zenon
  <2>2. ASSUME NEW g \in 1 .. Groups
        PROVE  Append(area[bus][g], <<bus, area["main"][g], Volume(bus, g)>>) = Mixes(s, v, bus, g)
    <3>1. area["main"][g] = Heard(v, n, g)
      BY DEF Plays
    <3>2. area[bus][g] = Mixes(s, v - 1, bus, g)
      BY DEF Others, OnBuses
    <3>3. Volume(bus, g) = Gain(env, bus, k + g)
      <4>1. g \in 0 .. Groups
        BY <1>0
      <4>2. /\ Level(env.startL, env.L, k + g) \div Frac = VolumeAt(env.startL, env.L, k + g)
            /\ Level(env.startR, env.R, k + g) \div Frac = VolumeAt(env.startR, env.R, k + g)
        <5> HIDE DEF k
        <5>1. /\ \A i \in 1 .. Groups : Level(env.startL, env.L, k + i) \div Frac = VolumeAt(env.startL, env.L, k + i)
              /\ \A i \in 1 .. Groups : Level(env.startR, env.R, k + i) \div Frac = VolumeAt(env.startR, env.R, k + i)
          BY <1>0, FrameRamp
        <5> QED BY <5>1, Zenon
      <4>3. left[g] = Level(env.startL, env.L, k + g) /\ right[g] = Level(env.startR, env.R, k + g)
        BY <4>1
      <4> HIDE DEF left, right, k
      <4> QED BY <4>2, <4>3 DEF Gain
    <3> HIDE DEF Volume
    <3>4. <<bus, area["main"][g], Volume(bus, g)>> = Mark(s, v, bus, g)
      BY <3>1, <3>3 DEF Mark
    <3>5. Mixed(s, v, bus, g) = <<Mark(s, v, bus, g)>> /\ Mark(s, v, bus, g) \in Marks(s, bus, g)
      <4>1. ~(s[v].n < 0)
        BY <1>0
      <4> QED BY <4>1, MixedTyped
    <3>6. /\ Mixes(s, v - 1, bus, g) \in Seq(Marks(s, bus, g))
          /\ Mixes(s, v, bus, g) = Mixes(s, v - 1, bus, g) \o Mixed(s, v, bus, g)
      BY MixesStep
    <3>7. Append(Mixes(s, v - 1, bus, g), Mark(s, v, bus, g)) = Mixes(s, v - 1, bus, g) \o <<Mark(s, v, bus, g)>>
      BY <3>5, <3>6, AppendIsConcat
    <3> QED BY <3>2, <3>4, <3>5, <3>6, <3>7, Zenon
  <2> HIDE DEF Volume
  <2> QED BY <2>1, <2>2, Zenon
<1>8. Saved(s, v, n + 1)'
  <2>1. Decoder(v, n + 1)' /\ Resampler(v, n + 1)'
    <3> HIDE DEF left, right, begun
    <3> QED BY <1>6 DEF Plays, Decoder, Resampler, Steps, AudioShapes
  <2>2. rdram'.env[v] = [begun EXCEPT !.volL = left[Groups], !.volR = right[Groups]]
    <3> HIDE DEF left, right, begun
    <3> QED BY <1>6 DEF Steps, AudioShapes
  <2>3. (n + 1) * Groups = k + Groups /\ Groups \in 0 .. Groups
    BY <1>0
  <2>4. left[Groups] = Level(env.startL, env.L, (n + 1) * Groups) /\ right[Groups] = Level(env.startR, env.R, (n + 1) * Groups)
    BY <2>3
  <2>5. [begun EXCEPT !.volL = left[Groups], !.volR = right[Groups]]
            = [L |-> env.L, R |-> env.R, volL |-> left[Groups], volR |-> right[Groups]]
    <3> HIDE DEF left, right
    <3>2. PICK x, y : x = left[Groups] /\ y = right[Groups]
      OBVIOUS
    <3>3. PICK a, b, c, d : /\ a = env.L /\ b = env.R /\ c = Level(env.startL, env.L, k)
                            /\ d = Level(env.startR, env.R, k)
      OBVIOUS
    <3>4. begun = [L |-> a, R |-> b, volL |-> c, volR |-> d]
      BY <3>3
    <3> HIDE DEF begun, env
    <3>5. PICK r : r = begun
      OBVIOUS
    <3>6. [r EXCEPT !.volL = x] = [L |-> a, R |-> b, volL |-> x, volR |-> d]
      BY <3>4, <3>5
    <3>7. [[L |-> a, R |-> b, volL |-> x, volR |-> d] EXCEPT !.volR = y]
              = [L |-> a, R |-> b, volL |-> x, volR |-> y]
      OBVIOUS
    <3>8. [r EXCEPT !.volL = x, !.volR = y] = [[r EXCEPT !.volL = x] EXCEPT !.volR = y]
      OBVIOUS
    <3>9. [r EXCEPT !.volL = x, !.volR = y] = [L |-> a, R |-> b, volL |-> x, volR |-> y]
      BY <3>6, <3>7, <3>8, Zenon
    <3> QED BY <3>2, <3>3, <3>5, <3>9, Zenon
  <2>6. Envelopes(s, v, n + 1)'
    <3> HIDE DEF left, right, begun, k
    <3> QED BY <2>2, <2>4, <2>5 DEF Envelopes
  <2> QED BY <2>1, <2>6 DEF Saved
<1>9. \A u \in Voice \ {v} : VoiceStays(u)
  <2> HIDE DEF left, right, begun
  <2> QED BY <1>6 DEF VoiceStays, Steps, AudioShapes
<1>10. \A u \in Voice : (u <= v => Done(s, u)') /\ (u > v => Ready(s, u)')
  <2> TAKE u \in Voice
  <2>1. CASE u = v
    BY <1>0, <1>8, <2>1 DEF Done
  <2>2. CASE u # v
    <3>1. (u < v => Done(s, u)) /\ (u > v => Ready(s, u)) /\ VoiceStays(u)
      BY <1>9, <2>2 DEF Others
    <3>2. (u < v => Done(s, u)') /\ (u > v => Ready(s, u)')
      BY <3>1, VoiceKept, Zenon
    <3>3. u <= v => u < v
      <4>1. u \in Nat /\ v \in Nat
        BY VoicesNumbered
      <4> QED BY <2>2, <4>1
    <3> QED BY <3>2, <3>3
  <2> QED BY <2>1, <2>2
<1> QED BY <1>2, <1>7, <1>10 DEF Between

\* A voice that does not play has no part in the list.
LEMMA SilentStep ==
  ASSUME NEW s, NEW v \in Voice, s[v].n < 0, Between(s, v - 1), SongTyped(s)
  PROVE  Between(s, v)
<1>0. v \in Nat \ {0} /\ (\A u \in Voice : u \in Nat) /\ s[v].n \in Int
  BY VoicesNumbered DEF SongTyped
<1>1. Behind(s, v - 1) = Behind(s, v)
  <2>1. VoiceList(s, v) = << >>
    BY DEF VoiceList
  <2>2. Behind(s, v) \in Seq(Words(s))
    BY TailsTyped
  <2> QED BY <2>1, <2>2, BehindStep, ConcatEmptySeq
<1>2. \A bus, g : Mixes(s, v, bus, g) = Mixes(s, v - 1, bus, g)
  <2> TAKE bus, g
  <2>1. Mixed(s, v, bus, g) = << >>
    BY MixedTyped
  <2>2. /\ Mixes(s, v - 1, bus, g) \in Seq(Marks(s, bus, g))
        /\ Mixes(s, v, bus, g) = Mixes(s, v - 1, bus, g) \o Mixed(s, v, bus, g)
    BY MixesStep
  <2> QED BY <2>1, <2>2, ConcatEmptySeq
<1>3. OnBuses(s, v)
  BY <1>2 DEF Between, OnBuses
<1>4. Done(s, v)
  BY <1>0 DEF Done
<1>5. \A u \in Voice : (u <= v => Done(s, u)) /\ (u > v => Ready(s, u))
  <2> TAKE u \in Voice
  <2>1. (u <= v - 1 => Done(s, u)) /\ (u > v - 1 => Ready(s, u))
    BY Zenon DEF Between
  <2>2. (u <= v => u <= v - 1 \/ u = v) /\ (u > v => u > v - 1)
    BY <1>0
  <2> QED BY <1>4, <2>1, <2>2
<1> QED BY <1>1, <1>3, <1>5 DEF Between

\* So the next command is the first of a voice that plays, or behind them all.
LEMMA NextVoice ==
  ASSUME NEW s, SongTyped(s), NEW w \in 0 .. Voices, Between(s, w)
  PROVE  Between(s, Voices) \/ \E v \in Voice : s[v].n >= 0 /\ Between(s, v - 1)
<1> DEFINE T == {k \in Nat : k <= Voices /\ Between(s, Voices - k)}
<1>0. Voices \in Nat /\ Voice = 1 .. Voices /\ w \in Nat /\ w <= Voices
  BY VoicesNumbered
<1>1. T \in SUBSET Nat /\ T # {}
  <2>1. Voices - w \in Nat /\ Voices - w <= Voices /\ Voices - (Voices - w) = w
    BY <1>0
  <2>2. Voices - w \in T
    BY <2>1
  <2> QED BY <2>2
<1>2. PICK k \in T : \A j \in T : k <= j
  <2> HIDE DEF T
  <2> QED BY <1>1, LeastNatural
<1>3. k \in Nat /\ k <= Voices /\ Between(s, Voices - k)
  BY <1>2
<1>4. CASE k = 0
  <2>1. Voices - k = Voices
    BY <1>0, <1>4
  <2> QED BY <1>3, <2>1
<1>5. CASE k # 0
  <2>1. PICK v \in Voice : v = Voices - k + 1 /\ v - 1 = Voices - k /\ Voices - (k - 1) = v /\ k - 1 \in Nat /\ k - 1 < k
    BY <1>0, <1>3, <1>5
  <2>2. Between(s, v - 1)
    BY <1>3, <2>1
  <2>3. s[v].n \in Int
    BY DEF SongTyped
  <2>4. ASSUME s[v].n < 0 PROVE FALSE
    <3>1. Between(s, v)
      BY <2>2, <2>4, SilentStep
    <3>2. Between(s, Voices - (k - 1))
      BY <2>1, <3>1, Zenon
    <3>3. k - 1 <= Voices
      BY <1>0, <1>3
    <3>4. k - 1 \in T
      BY <2>1, <3>2, <3>3
    <3> HIDE DEF T
    <3>5. k <= k - 1
      BY <1>2, <3>4
    <3> QED BY <1>3, <3>5
  <2> QED BY <2>2, <2>3, <2>4
<1> QED BY <1>4, <1>5

-----------------------------------------------------------------------------
(* Behind the voices *)

\* The ending, command by command.
LEMMA EndingWords ==
  ASSUME NEW s
  PROVE  /\ Ending = <<DryWet("wetL", "dryL")>> \o Tail(Ending)
         /\ Tail(Ending) = <<DryWet("wetR", "dryR")>> \o Tail(Tail(Ending))
         /\ Tail(Tail(Ending)) = <<InterleaveCommand>> \o Tail(Tail(Tail(Ending)))
         /\ Tail(Tail(Tail(Ending))) = <<SaveCommand>> \o << >>
         /\ DryWet("wetL", "dryL") \in Words(s) /\ DryWet("wetR", "dryR") \in Words(s)
         /\ InterleaveCommand \in Words(s) /\ SaveCommand \in Words(s)
         /\ Tail(Ending) \in Seq(Words(s)) /\ Tail(Tail(Ending)) \in Seq(Words(s))
         /\ Tail(Tail(Tail(Ending))) \in Seq(Words(s)) /\ << >> \in Seq(Words(s))
<1> DEFINE W == Words(s)
<1>1. PICK a, b, c, d : /\ a = DryWet("wetL", "dryL") /\ b = DryWet("wetR", "dryR")
                        /\ c = InterleaveCommand /\ d = SaveCommand
  OBVIOUS
<1>2. Ending = <<a, b, c, d>>
  BY <1>1, EndingTyped
<1>3. a \in W /\ b \in W /\ c \in W /\ d \in W
  <2> DEFINE A == UNION {Parts(s, v) : v \in Voice}
  <2>1. Words(s) = A \union {DryWet("wetL", "dryL"), DryWet("wetR", "dryR"),
                             InterleaveCommand, SaveCommand, ClearCommand}
    BY Zenon DEF Words
  <2> HIDE DEF A
  <2> QED BY <1>1, <2>1
<1> HIDE DEF W
<1>4. Tail(<<a, b, c, d>>) = <<b, c, d>> /\ Tail(<<b, c, d>>) = <<c, d>> /\ Tail(<<c, d>>) = <<d>>
  OBVIOUS
<1>5. <<b, c, d>> \in Seq(W) /\ <<c, d>> \in Seq(W) /\ <<d>> \in Seq(W) /\ << >> \in Seq(W)
  BY <1>3
<1>6. <<a, b, c, d>> = <<a>> \o <<b, c, d>> /\ <<b, c, d>> = <<b>> \o <<c, d>> /\ <<c, d>> = <<c>> \o <<d>>
  <2>1. <<c, d>> = <<c>> \o <<d>>
    BY Tuples
  <2>2. <<b, c, d>> = <<b>> \o <<c, d>>
    <3>1. <<b, c, d>> = (<<b>> \o <<c>>) \o <<d>>
      BY Tuples
    <3>2. <<b>> \in Seq(W) /\ <<c>> \in Seq(W)
      BY <1>3
    <3>3. Regroups(<<b>>, <<c>>, <<d>>)
      BY <1>5, <3>2, RegroupsAlways, Zenon
    <3> QED BY <2>1, <3>1, <3>3, Zenon DEF Regroups
  <2>3. <<a, b, c, d>> = <<a>> \o <<b, c, d>>
    <3>1. /\ <<a>> \o <<b, c, d>> \in Seq(W) /\ Len(<<a>> \o <<b, c, d>>) = Len(<<b, c, d>>) + 1
          /\ (<<a>> \o <<b, c, d>>)[1] = a
          /\ \A i \in 1 .. Len(<<b, c, d>>) : (<<a>> \o <<b, c, d>>)[i + 1] = <<b, c, d>>[i]
      BY <1>3, <1>5, InFront
    <3>2. PICK y \in Seq(W) : y = <<a>> \o <<b, c, d>>
      BY <3>1
    <3>3. Len(<<b, c, d>>) = 3
      OBVIOUS
    <3>4. \A i \in 1 .. 3 : y[i + 1] = <<b, c, d>>[i]
      BY <3>1, <3>2, <3>3, Zenon
    <3>5. Len(y) = 4 /\ y[1] = a
      BY <3>1, <3>2, <3>3
    <3>6. y[2] = b /\ y[3] = c /\ y[4] = d
      BY <3>4
    <3>7. <<a, b, c, d>> \in Seq(W) /\ Len(<<a, b, c, d>>) = 4
      BY <1>3
    <3>8. \A i \in 1 .. 4 : y[i] = <<a, b, c, d>>[i]
      <4>1. \A i \in 1 .. 4 : i \in {1, 2, 3, 4}
        OBVIOUS
      <4> QED BY <3>5, <3>6, <4>1
    <3>9. y = <<a, b, c, d>>
      BY <3>5, <3>7, <3>8, SeqEqual
    <3> QED BY <3>2, <3>9
  <2> QED BY <2>1, <2>2, <2>3
<1>7. <<d>> = <<d>> \o << >>
  BY <1>5, ConcatEmptySeq
<1> QED BY <1>1, <1>2, <1>3, <1>4, <1>5, <1>6, <1>7, Zenon DEF W

\* The buses hold all voices when they hold the last one.
LEMMA OnAllVoices ==
  ASSUME NEW s
  PROVE  \A bus, g : Mixes(s, Voices, bus, g) = OnBus(s, bus, g)
BY VoicesNumbered DEF Mixes, OnBus

\* The wet side goes to the dry one, left and right.
LEMMA WetLeftStep ==
  ASSUME NEW s, SongTyped(s), Steps(s), Between(s, Voices)
  PROVE  Closing(s)'
<1>1. Rest = <<DryWet("wetL", "dryL")>> \o Tail(Ending)
  BY BehindEnd, EndingWords DEF Between
<1>2. Fetched = DryWet("wetL", "dryL") /\ Rest' = Tail(Ending)
  BY <1>1, EndingWords, Takes
<1>3. Mixer /\ Fetched.from = "wetL" /\ Fetched.to = "dryL"
  BY <1>2, ByName DEF DryWet, Steps
<1>4. area' = [area EXCEPT !["dryL"] = [g \in 1 .. Groups |-> area["dryL"][g] \o area["wetL"][g]]] /\ rdram' = rdram
  BY <1>3 DEF Mixer
<1>5. \A bus \in Range(Buses) : area[bus] = [g \in 1 .. Groups |-> OnBus(s, bus, g)]
  BY OnAllVoices DEF Between, OnBuses
<1>6. area["dryL"] = [g \in 1 .. Groups |-> OnBus(s, "dryL", g)] /\ area["wetL"] = [g \in 1 .. Groups |-> OnBus(s, "wetL", g)]
      /\ \A bus \in {"dryR", "wetR"} : area[bus] = [g \in 1 .. Groups |-> OnBus(s, bus, g)]
  BY <1>5, BusNames
<1>7. area'["dryL"] = Side(s, "dryL", "wetL")
  <2>1. area'["dryL"] = [g \in 1 .. Groups |-> area["dryL"][g] \o area["wetL"][g]]
    BY <1>4, BusNames DEF Steps, AudioShapes
  <2>2. \A g \in 1 .. Groups : area["dryL"][g] \o area["wetL"][g] = OnBus(s, "dryL", g) \o OnBus(s, "wetL", g)
    BY <1>6
  <2> QED BY <2>1, <2>2 DEF Side
<1>8. \A bus \in {"dryR", "wetR"} : area'[bus] = [g \in 1 .. Groups |-> OnBus(s, bus, g)]
  BY <1>4, <1>6, BusNames DEF Steps, AudioShapes
<1>9. \A u \in Voice : Done(s, u)'
  <2> TAKE u \in Voice
  <2>1. u <= Voices
    BY VoicesNumbered
  <2>2. Done(s, u) /\ VoiceStays(u)
    BY <1>4, <2>1 DEF Between, VoiceStays
  <2> QED BY <2>2, VoiceKept
<1> QED BY <1>2, <1>7, <1>8, <1>9 DEF Closing

\* The right side as the left one.
LEMMA WetRightStep ==
  ASSUME NEW s, SongTyped(s), Steps(s), \A u \in Voice : Done(s, u), Rest = Tail(Ending),
         area["dryL"] = Side(s, "dryL", "wetL"),
         \A bus \in {"dryR", "wetR"} : area[bus] = [g \in 1 .. Groups |-> OnBus(s, bus, g)]
  PROVE  Closing(s)'
<1>1. Rest = <<DryWet("wetR", "dryR")>> \o Tail(Tail(Ending))
  BY EndingWords
<1>2. Fetched = DryWet("wetR", "dryR") /\ Rest' = Tail(Tail(Ending))
  BY <1>1, EndingWords, Takes
<1>3. Mixer /\ Fetched.from = "wetR" /\ Fetched.to = "dryR"
  BY <1>2, ByName DEF DryWet, Steps
<1>4. area' = [area EXCEPT !["dryR"] = [g \in 1 .. Groups |-> area["dryR"][g] \o area["wetR"][g]]] /\ rdram' = rdram
  BY <1>3 DEF Mixer
<1>5. area'["dryR"] = Side(s, "dryR", "wetR")
  <2>1. area'["dryR"] = [g \in 1 .. Groups |-> area["dryR"][g] \o area["wetR"][g]]
    BY <1>4, BusNames DEF Steps, AudioShapes
  <2>2. \A g \in 1 .. Groups : area["dryR"][g] \o area["wetR"][g] = OnBus(s, "dryR", g) \o OnBus(s, "wetR", g)
    OBVIOUS
  <2> QED BY <2>1, <2>2 DEF Side
<1>6. area'["dryL"] = Side(s, "dryL", "wetL")
  BY <1>4, BusNames DEF Steps, AudioShapes
<1>7. \A u \in Voice : Done(s, u)'
  BY <1>4, VoiceKept DEF VoiceStays
<1> QED BY <1>2, <1>5, <1>6, <1>7 DEF Closing

\* The sides are put together and saved.
LEMMA TogetherStep ==
  ASSUME NEW s, SongTyped(s), Steps(s), \A u \in Voice : Done(s, u), Rest = Tail(Tail(Ending)),
         area["dryL"] = Side(s, "dryL", "wetL"), area["dryR"] = Side(s, "dryR", "wetR")
  PROVE  Closing(s)'
<1>1. Rest = <<InterleaveCommand>> \o Tail(Tail(Tail(Ending)))
  BY EndingWords
<1>2. Fetched = InterleaveCommand /\ Rest' = Tail(Tail(Tail(Ending)))
  BY <1>1, EndingWords, Takes
<1>3. InterleaveBuff
  BY <1>2, ByName DEF InterleaveCommand, Steps
<1>4. area' = [area EXCEPT !["main"] = [g \in 1 .. Groups |-> <<area["dryL"][g], area["dryR"][g]>>]] /\ rdram' = rdram
  BY <1>3 DEF InterleaveBuff
<1>5. area'["main"] = Frame(s)
  <2>1. area'["main"] = [g \in 1 .. Groups |-> <<area["dryL"][g], area["dryR"][g]>>]
    BY <1>4 DEF Steps, AudioShapes
  <2>2. \A g \in 1 .. Groups : <<area["dryL"][g], area["dryR"][g]>> = << OnBus(s, "dryL", g) \o OnBus(s, "wetL", g),
                                                                    OnBus(s, "dryR", g) \o OnBus(s, "wetR", g) >>
    BY DEF Side
  <2> QED BY <2>1, <2>2 DEF Frame
<1>6. \A u \in Voice : Done(s, u)'
  BY <1>4, VoiceKept DEF VoiceStays
<1> QED BY <1>2, <1>5, <1>6 DEF Closing

\* What was interleaved is saved as the frame.
LEMMA SaveStep ==
  ASSUME NEW s, SongTyped(s), Steps(s), \A u \in Voice : Done(s, u), Rest = Tail(Tail(Tail(Ending))),
         area["main"] = Frame(s)
  PROVE  Closing(s)'
<1>1. Rest = <<SaveCommand>> \o << >>
  BY EndingWords
<1>2. Fetched = SaveCommand /\ Rest' = << >>
  BY <1>1, EndingWords, Takes
<1>3. SaveBuff /\ Fetched.n # 0
  BY <1>2, ByName, VoiceAssumption DEF SaveCommand, Steps
<1>4. rdram' = [rdram EXCEPT !.out = area["main"]]
  BY <1>3 DEF SaveBuff
<1>5. rdram'.out = Frame(s) /\ \A u \in Voice : VoiceStays(u)
  BY <1>4 DEF VoiceStays, Steps, AudioShapes
<1>6. \A u \in Voice : Done(s, u)'
  BY <1>5, VoiceKept
<1> QED BY <1>2, <1>5, <1>6 DEF Closing

\* Something is left as long as voices are.
LEMMA SomethingLeft ==
  ASSUME NEW s
  PROVE  /\ \A v \in 0 .. Voices : Behind(s, v) # << >>
         /\ \A v \in Voice : /\ ToLoad(s, v) # << >> /\ ToDecode(s, v) # << >> /\ ToLoop(s, v) # << >>
                             /\ ToReload(s, v) # << >> /\ ToAgain(s, v) # << >> /\ ToMove(s, v) # << >>
                             /\ ToResample(s, v) # << >> /\ ToLeft(s, v) # << >> /\ ToRight(s, v) # << >>
                             /\ ToStart(s, v) # << >> /\ ToMix(s, v) # << >>
<1>1. \A x \in Words(s) : \A t \in Seq(Words(s)) : <<x>> \o t # << >>
  <2> TAKE x \in Words(s)
  <2> TAKE t \in Seq(Words(s))
  <2>1. Len(<<x>> \o t) = Len(t) + 1 /\ Len(t) \in Nat
    BY InFront, LenProperties
  <2> QED BY <2>1
<1>2. \A v \in 0 .. Voices : Behind(s, v) # << >>
  <2> TAKE v \in 0 .. Voices
  <2>1. PICK x \in Seq(Words(s)) : x = FlattenSeq(Lists(s, v))
    BY ListsTyped, FlattenTyped
  <2>2. PICK y \in Seq(Words(s)) : y = Ending /\ Len(y) = 4
    BY EndingTyped
  <2>3. Len(x \o y) = Len(x) + Len(y) /\ Len(x) \in Nat
    BY ConcatProperties
  <2>4. x \o y # << >>
    BY <2>2, <2>3
  <2> QED BY <2>1, <2>2, <2>4 DEF Behind, Lists
<1>3. ASSUME NEW v \in Voice
      PROVE  /\ ToLoad(s, v) # << >> /\ ToDecode(s, v) # << >> /\ ToLoop(s, v) # << >>
             /\ ToReload(s, v) # << >> /\ ToAgain(s, v) # << >> /\ ToMove(s, v) # << >>
             /\ ToResample(s, v) # << >> /\ ToLeft(s, v) # << >> /\ ToRight(s, v) # << >>
             /\ ToStart(s, v) # << >> /\ ToMix(s, v) # << >>
  <2> DEFINE W == Words(s)
  <2>1. /\ Behind(s, v) \in Seq(W) /\ ToMix(s, v) \in Seq(W) /\ ToStart(s, v) \in Seq(W)
        /\ ToRight(s, v) \in Seq(W) /\ ToLeft(s, v) \in Seq(W) /\ ToResample(s, v) \in Seq(W)
        /\ ToMove(s, v) \in Seq(W) /\ ToAgain(s, v) \in Seq(W) /\ ToReload(s, v) \in Seq(W)
        /\ ToLoop(s, v) \in Seq(W) /\ ToDecode(s, v) \in Seq(W)
    BY TailsTyped, Zenon
  <2>2. \A x \in Parts(s, v) : \A t \in Seq(W) : <<x>> \o t # << >>
    BY <1>1, PartsAreWords, Zenon
  <2> HIDE DEF W
  <2>3. ToLoad(s, v) # << >>
    BY <2>1, <2>2, Zenon DEF ToLoad, Parts
  <2>4. ToDecode(s, v) # << >>
    BY <2>1, <2>2, Zenon DEF ToDecode, Parts
  <2>5. ToLoop(s, v) # << >>
    BY <2>1, <2>2, Zenon DEF ToLoop, Parts
  <2>6. ToReload(s, v) # << >>
    BY <2>1, <2>2, Zenon DEF ToReload, Parts
  <2>7. ToAgain(s, v) # << >>
    BY <2>1, <2>2, Zenon DEF ToAgain, Parts
  <2>8. ToMove(s, v) # << >>
    BY <2>1, <2>2, Zenon DEF ToMove, Parts
  <2>9. ToResample(s, v) # << >>
    BY <2>1, <2>2, Zenon DEF ToResample, Parts
  <2>10. ToLeft(s, v) # << >>
    BY <2>1, <2>2, Zenon DEF ToLeft, Parts
  <2>11. ToRight(s, v) # << >>
    BY <2>1, <2>2, Zenon DEF ToRight, Parts
  <2>12. ToStart(s, v) # << >>
    BY <2>1, <2>2, Zenon DEF ToStart, Parts
  <2>13. ToMix(s, v) # << >>
    BY <2>1, <2>2, Zenon DEF ToMix, Parts
  <2> QED BY <2>3, <2>4, <2>5, <2>6, <2>7, <2>8, <2>9, <2>10, <2>11, <2>12, <2>13
<1> QED BY <1>2, <1>3

\* A frame's list ends normally when nothing is left of it: it is saved.
LEMMA FrameEnds ==
  ASSUME ListInv, NEW s, OfFrame(s), at = "idle", exit = "Broke"
  PROVE  Rest = << >> /\ (\A u \in Voice : Done(s, u)) /\ rdram.out = Frame(s)
<1>1. list = FrameList(s)
  BY DEF OfFrame
<1>2. Walkable /\ list \in Seq(Words(s))
  BY <1>1, FrameWalkable
<1>3. ran = list
  BY <1>2 DEF ListInv, WalkInv
<1>4. Rest = << >>
  <2>1. PICK n \in Nat : n = Len(list)
    BY <1>2, LenProperties
  <2>2. Rest = SubSeq(list, n + 1, n)
    BY <1>3, <2>1 DEF Rest
  <2> QED BY <1>2, <2>1, <2>2
<1>5. ran # << >>
  BY <1>2, <1>3 DEF Walkable
<1>6. \A v \in 0 .. Voices : ~Between(s, v)
  BY <1>4, SomethingLeft DEF Between
<1>7. \A v \in Voice : ~Within(s, v)
  BY <1>4, SomethingLeft, Zenon DEF Within
<1>8. Closing(s)
  BY <1>5, <1>6, <1>7 DEF OfFrame
<1>9. Tail(Ending) # << >> /\ Tail(Tail(Ending)) # << >> /\ Tail(Tail(Tail(Ending))) # << >>
  BY DEF Ending
<1> QED BY <1>4, <1>8, <1>9 DEF Closing

\* A command of a frame's list leaves the frame what it should be.
LEMMA FrameStep ==
  ASSUME NEW s, SongTyped(s), Steps(s), OfFrame(s)
  PROVE  OfFrame(s)'
<1>1. list' = FrameList(s)
  BY ByName DEF Steps, Execute
<1>2. CASE ran = << >> /\ \A u \in Voice : Ready(s, u)
  <2>1. Between(s, 0)' /\ 0 \in 0 .. Voices
    BY <1>2, ClearStep, VoicesNumbered
  <2> QED BY <1>1, <2>1 DEF OfFrame
<1>3. ASSUME NEW w \in 0 .. Voices, Between(s, w)
      PROVE  OfFrame(s)'
  <2>1. CASE Between(s, Voices)
    <3>1. Closing(s)'
      BY <2>1, WetLeftStep
    <3> QED BY <1>1, <3>1 DEF OfFrame
  <2>2. ASSUME NEW v \in Voice, s[v].n >= 0, Between(s, v - 1)
        PROVE  OfFrame(s)'
    <3>1. Within(s, v)'
      BY <2>2, BookStep
    <3> QED BY <1>1, <3>1 DEF OfFrame
  <2> QED BY <1>3, <2>1, <2>2, NextVoice
<1>4. ASSUME NEW v \in Voice, Within(s, v)
      PROVE  Within(s, v)' \/ Between(s, v)'
  <2> DEFINE n == s[v].n
  <2>0. n >= 0 /\ Others(s, v) /\ n \in Int
    BY <1>4 DEF Within, SongTyped
  <2>1. CASE reg.book = v /\ Keeps(s, v, n) /\ Rest = ToLoad(s, v) /\ (n > 0 => Decoder(v, n))
    BY <2>0, <2>1, LoadStep
  <2>2. CASE /\ reg.book = v /\ Keeps(s, v, n) /\ Rest = ToDecode(s, v) /\ (n > 0 => Decoder(v, n))
             /\ Loads(v, Fed(v, n), Cut(v, n) - Fed(v, n))
    BY <2>0, <2>2, DecodeStep
  <2>3. CASE reg.book = v /\ Keeps(s, v, n) /\ Rest = ToLoop(s, v) /\ Jump(v, n) # {} /\ Decodes(v, n, Cut(v, n))
    BY <2>0, <2>3, LoopStep
  <2>4. CASE /\ reg.book = v /\ Keeps(s, v, n) /\ Rest = ToReload(s, v) /\ Jump(v, n) # {}
             /\ Decodes(v, n, Cut(v, n)) /\ reg.loop = v
    BY <2>0, <2>4, ReloadStep
  <2>5. CASE /\ reg.book = v /\ Keeps(s, v, n) /\ Rest = ToAgain(s, v) /\ Jump(v, n) # {}
             /\ Decodes(v, n, Cut(v, n)) /\ reg.loop = v /\ Loads(v, Cut(v, n), Fed(v, n + 1) - Cut(v, n))
    BY <2>0, <2>5, AgainStep
  <2>6. CASE reg.book = v /\ Keeps(s, v, n) /\ Rest = ToMove(s, v) /\ Jump(v, n) # {} /\ DecodesAgain(v, n)
    BY <2>0, <2>6, MoveStep
  <2>7. CASE reg.book = v /\ Keeps(s, v, n) /\ Rest = ToResample(s, v) /\ Decodes(v, n, Fed(v, n + 1))
    BY <2>0, <2>7, ResampleStep
  <2>8. CASE Plays(s, v, n) /\ Rest = ToLeft(s, v) /\ n = 0
    BY <2>0, <2>8, LeftStep
  <2>9. CASE Plays(s, v, n) /\ Rest = ToRight(s, v) /\ n = 0 /\ reg.L = s[v].env.L
    BY <2>0, <2>9, RightStep
  <2>10. CASE /\ Plays(s, v, n) /\ Rest = ToStart(s, v) /\ n = 0
              /\ reg.L = s[v].env.L /\ reg.R = s[v].env.R
    BY <2>0, <2>10, StartStep
  <2>11. CASE /\ Plays(s, v, n) /\ Rest = ToMix(s, v)
              /\ n = 0 => reg.L = s[v].env.L /\ reg.R = s[v].env.R /\ reg.startL = s[v].env.startL
    BY <2>0, <2>11, MixStep
  <2> QED BY <1>4, <2>1, <2>2, <2>3, <2>4, <2>5, <2>6, <2>7, <2>8, <2>9, <2>10, <2>11, Zenon DEF Within
<1>5. ASSUME NEW v \in Voice, Within(s, v)
      PROVE  OfFrame(s)'
  <2>1. v \in 0 .. Voices
    BY VoicesNumbered
  <2> QED BY <1>1, <1>4, <1>5, <2>1 DEF OfFrame
<1>6. CASE Closing(s)
  <2>1. Rest # << >>
    <3>1. Walkable /\ list \in Seq(Words(s))
      BY FrameWalkable DEF Steps
    <3>2. r28 + 1 \in 1 .. Len(list) /\ Len(ran) = r28 /\ r28 \in Nat
      BY <3>1, FetchedIsNext DEF Steps, ListInv, ListTypes, WalkInv, Counted
    <3>3. PICK m \in 1 .. Len(list) : m = r28 + 1 /\ Rest = SubSeq(list, m, Len(list))
      BY <3>2 DEF Rest
    <3>4. Len(list) \in Nat
      BY <3>1, LenProperties
    <3>5. SubSeq(list, m, Len(list)) = <<list[m]>> \o SubSeq(list, m + 1, Len(list))
      BY <3>1, <3>4, SubSeqRecursiveFirst
    <3>6. list[m] \in Words(s) /\ SubSeq(list, m + 1, Len(list)) \in Seq(Words(s))
      BY <3>1, <3>4, SubSeqProperties
    <3>7. PICK x \in Words(s), y \in Seq(Words(s)) : x = list[m] /\ y = SubSeq(list, m + 1, Len(list))
      BY <3>6
    <3>8. Len(<<x>> \o y) = Len(y) + 1 /\ Len(y) \in Nat
      BY InFront, LenProperties
    <3>9. <<x>> \o y # << >>
      BY <3>8
    <3> QED BY <3>3, <3>5, <3>7, <3>9
  <2>2. Closing(s)'
    BY <1>6, <2>1, WetRightStep, TogetherStep, SaveStep DEF Closing
  <2> QED BY <1>1, <2>2 DEF OfFrame
<1> QED BY <1>2, <1>3, <1>5, <1>6 DEF OfFrame

-----------------------------------------------------------------------------
(* From task to task *)

\* The buffers, the registers and the blocks of the voices stay what they are.
LEMMA ShapesAfterCommand ==
  ASSUME ListInv, AudioShapes, AudioCommand
  PROVE  AudioShapes'
<1>1. CASE ClearBuff
  BY <1>1 DEF ClearBuff, AudioShapes
<1>2. CASE LoadBuff
  BY <1>2 DEF LoadBuff, AudioShapes
<1>3. CASE SaveBuff
  BY <1>3 DEF SaveBuff, AudioShapes
<1>4. CASE LoadAdpcm
  BY <1>4 DEF LoadAdpcm, AudioShapes
<1>5. CASE SetLoop
  BY <1>5 DEF SetLoop, AudioShapes
<1>6. CASE SetVol
  <2>1. Fetched \in Command
    BY <1>6 DEF SetVol, Command_, Execute, Fetched, Stale, Ops, ListInv, ListTypes
  <2>2. Fetched.side \in {"left", "right", "start"}
    BY <1>6, <2>1, SetVolAssumption DEF SetVol, Command_
  <2>3. DOMAIN reg' = DOMAIN reg
    BY <1>6, <2>2 DEF SetVol
  <2> QED BY <1>6, <2>3 DEF SetVol, AudioShapes
<1>7. CASE SetRate
  BY <1>7 DEF SetRate, AudioShapes
<1>8. CASE DmemMove
  BY <1>8 DEF DmemMove, AudioShapes
<1>9. CASE Adpcm
  BY <1>9 DEF Adpcm, AudioShapes
<1>10. CASE Resample
  BY <1>10 DEF Resample, AudioShapes
<1>11. CASE EnvMixer
  BY <1>11 DEF EnvMixer, AudioShapes
<1>12. CASE Mixer
  BY <1>12 DEF Mixer, AudioShapes
<1>13. CASE InterleaveBuff
  BY <1>13 DEF InterleaveBuff, AudioShapes
<1>14. CASE SpNoop
  BY <1>14 DEF SpNoop, AudioShapes
<1> QED BY <1>1, <1>2, <1>3, <1>4, <1>5, <1>6, <1>7, <1>8, <1>9, <1>10, <1>11, <1>12, <1>13, <1>14 DEF AudioCommand

\* The commands of any other list leave the voices alone.
LEMMA QuietCommand ==
  ASSUME ListInv, AudioCommand, Quiet(ran')
  PROVE  Quiet(ran) /\ rdram' = rdram
<1>1. Execute /\ ran \in Seq(Command) /\ ran' = Append(ran, Fetched)
  BY ByName DEF ListInv, ListTypes, Execute
<1>2. Fetched \in Command
  BY <1>1 DEF Execute, Fetched, Stale, Ops, ListInv, ListTypes
<1>3. /\ DOMAIN ran' = 1 .. (Len(ran) + 1) /\ ran'[Len(ran) + 1] = Fetched
      /\ \A i \in 1 .. Len(ran) : ran'[i] = ran[i]
      /\ Len(ran) \in Nat /\ DOMAIN ran = 1 .. Len(ran)
  BY <1>1, <1>2
<1>4. Quiet(ran)
  BY <1>3 DEF Quiet
<1>5. Fetched.op \notin {"adpcm", "resample", "envmixer", "savebuff"}
  <2>1. Len(ran) + 1 \in DOMAIN ran'
    BY <1>3
  <2> QED BY <1>3, <2>1 DEF Quiet
<1>6. rdram' = rdram
  BY <1>5 DEF AudioCommand, Command_, ClearBuff, LoadBuff, SaveBuff, LoadAdpcm, SetLoop, SetVol, SetRate,
     DmemMove, Adpcm, Resample, EnvMixer, Mixer, InterleaveBuff, SpNoop
<1> QED BY <1>4, <1>6

\* What the voices keep when a task has ended that ran its list.
LEMMA TaskEnded ==
  ASSUME ListInv, FrameInv, at = "idle", exit = "Broke", ran = list
  PROVE  \A v \in Voice : Done(song, v)
<1>1. PICK s : /\ s = song
               /\ \/ Quiet(list) /\ (Quiet(ran) => \A v \in Voice : Done(s, v))
                  \/ OfFrame(s)
  BY DEF FrameInv
<1>2. \A v \in Voice : Done(s, v)
  BY <1>1, FrameEnds
<1> QED BY <1>1, <1>2

\* The game's next frame goes on where the voices are.
LEMMA FrameBegins ==
  ASSUME ListInv, SongInv, FrameInv, NEW on \in SUBSET Voice, NEW env \in Envelope, NEW dpWait \in BOOLEAN,
         FrameTask(on, env, dpWait)
  PROVE  FrameInv'
<1>1. at = "idle" /\ exit = "Broke" /\ list' = FrameList(song') /\ ran' = << >> /\ rdram' = rdram
  BY DEF FrameTask, BeginList
<1>2. PICK s : s = song'
  OBVIOUS
<1>3. PICK p : p = Playing
  OBVIOUS
<1>4. \A v \in Voice : Done(p, v) /\ p[v].n \in Int /\ p[v] \in [n : Int, env : Envelope]
  <2>1. CASE ran = list
    <3>1. p = song
      BY <1>3, <2>1 DEF Playing
    <3>2. \A v \in Voice : Done(song, v)
      BY <1>1, <2>1, TaskEnded
    <3>3. \A v \in Voice : song[v].n \in Int /\ song[v] \in [n : Int, env : Envelope]
      BY DEF SongInv
    <3> QED BY <3>1, <3>2, <3>3
  <2>2. CASE ran # list
    <3>1. \A v \in Voice : p[v] = Silent
      BY <1>3, <2>2 DEF Playing
    <3>2. Silent.n = -1 /\ Silent \in [n : Int, env : Envelope]
      BY EnvelopeAssumption DEF Silent
    <3> QED BY <3>1, <3>2 DEF Done
  <2> QED BY <2>1, <2>2
<1>5. ASSUME NEW v \in Voice PROVE Ready(s, v)'
  <2>1. s[v] = CASE v \notin on -> Silent
                 [] v \in on /\ p[v].n < 0 -> [n |-> 0, env |-> env]
                 [] OTHER -> [p[v] EXCEPT !.n = @ + 1]
    BY <1>2, <1>3 DEF FrameTask
  <2>2. CASE v \notin on
    <3>1. s[v].n = -1
      BY <2>1, <2>2 DEF Silent
    <3> QED BY <3>1 DEF Ready
  <2>3. CASE v \in on /\ p[v].n < 0
    <3>1. s[v].n = 0
      BY <2>1, <2>3
    <3> QED BY <3>1 DEF Ready
  <2>4. CASE v \in on /\ ~(p[v].n < 0)
    <3>1. s[v].n = p[v].n + 1 /\ s[v].env = p[v].env /\ p[v].n >= 0
      BY <1>4, <2>1, <2>4
    <3>2. Saved(p, v, p[v].n + 1)
      BY <1>4, <3>1 DEF Done
    <3>3. Saved(s, v, s[v].n)
      BY <3>1, <3>2 DEF Saved, Envelopes
    <3>4. Saved(s, v, s[v].n)'
      BY <1>1, <3>3 DEF Saved, Envelopes, Decoder, Resampler
    <3> QED BY <3>4 DEF Ready
  <2> QED BY <2>2, <2>3, <2>4
<1>6. OfFrame(s)'
  BY <1>1, <1>2, <1>5 DEF OfFrame
<1> QED BY <1>2, <1>6 DEF FrameInv

\* A list that is none of the game's begins.
LEMMA OddBegins ==
  ASSUME ListInv, SongInv, FrameInv, NEW l \in OddLists, NEW dpWait \in BOOLEAN, OddTask(l, dpWait)
  PROVE  FrameInv'
<1>1. at = "idle" /\ exit = "Broke" /\ list' = l /\ song' = Playing /\ rdram' = rdram
  BY DEF OddTask, BeginList
<1>2. PICK s : s = song'
  OBVIOUS
<1>3. \A v \in Voice : Done(s, v)
  <2>1. CASE ran = list
    <3>1. s = song
      BY <1>1, <1>2, <2>1 DEF Playing
    <3> QED BY <1>1, <2>1, <3>1, TaskEnded
  <2>2. CASE ran # list
    <3>1. \A v \in Voice : s[v] = Silent
      BY <1>1, <1>2, <2>2 DEF Playing
    <3>2. Silent.n = -1
      BY DEF Silent
    <3> QED BY <3>1, <3>2 DEF Done
  <2> QED BY <2>1, <2>2
<1>4. \A v \in Voice : Done(s, v)'
  BY <1>1, <1>3, VoiceKept DEF VoiceStays
<1>5. Quiet(list)'
  BY <1>1, QuietAssumption DEF Quiet
<1> QED BY <1>2, <1>4, <1>5 DEF FrameInv

\* Nothing but audio tasks touches lists and voices.
LEMMA NoList ==
  ASSUME FrameInv, UNCHANGED <<list, ran, area, reg, rdram, song>>
  PROVE  FrameInv'
<1>1. PICK s : /\ s = song
               /\ \/ Quiet(list) /\ (Quiet(ran) => \A v \in Voice : Done(s, v))
                  \/ OfFrame(s)
  BY DEF FrameInv
<1>2. \A u \in Voice : VoiceStays(u)
  BY DEF VoiceStays
<1>3. CASE Quiet(list) /\ (Quiet(ran) => \A v \in Voice : Done(s, v))
  <2>1. Quiet(list)' /\ (Quiet(ran)' => \A v \in Voice : Done(s, v)')
    BY <1>2, <1>3, VoiceKept DEF Quiet
  <2> QED BY <1>1, <2>1 DEF FrameInv
<1>4. CASE OfFrame(s)
  <2>1. Rest' = Rest
    BY DEF Rest
  <2>2. \A v \in 0 .. Voices : Between(s, v) => Between(s, v)'
    BY <2>1, <1>2, VoiceKept DEF Between, OnBuses
  <2>3. \A v \in Voice : Within(s, v) => Within(s, v)'
    <3> SUFFICES ASSUME NEW v \in Voice, Within(s, v) PROVE Within(s, v)'
      OBVIOUS
    <3>1. PICK n : n = s[v].n
      OBVIOUS
    <3>2. Others(s, v) => Others(s, v)'
      BY <1>2, OthersKept DEF BusesStay
    <3>3. (Keeps(s, v, n) => Keeps(s, v, n)') /\ (Decoder(v, n) => Decoder(v, n)')
      BY <1>2, VoiceKept DEF Keeps
    <3>4. \A q, m : Loads(v, q, m) => Loads(v, q, m)'
      BY DEF Loads
    <3>5. \A q : Decodes(v, n, q) => Decodes(v, n, q)'
      BY DEF Decodes
    <3>6. DecodesAgain(v, n) => DecodesAgain(v, n)'
      BY DEF DecodesAgain
    <3>7. Plays(s, v, n) => Plays(s, v, n)'
      BY <1>2, VoiceKept DEF Plays
    <3>8. reg' = reg
      OBVIOUS
    <3> QED BY <2>1, <3>1, <3>2, <3>3, <3>4, <3>5, <3>6, <3>7, <3>8, Zenon DEF Within
  <2>4. Closing(s) => Closing(s)'
    BY <2>1, <1>2, VoiceKept DEF Closing
  <2>5. (\A u \in Voice : Ready(s, u)) => \A u \in Voice : Ready(s, u)'
    BY <1>2, VoiceKept
  <2>6. OfFrame(s)'
    BY <1>4, <2>2, <2>3, <2>4, <2>5 DEF OfFrame
  <2> QED BY <1>1, <2>6 DEF FrameInv
<1> QED BY <1>1, <1>3, <1>4

\* The inductive invariant of the frames.
AudioInv == ListInv /\ SongInv /\ AudioShapes /\ FrameInv

\* At the start no voice has played.
LEMMA InitAudioInv == RspInit => AudioInv
<1> SUFFICES ASSUME RspInit PROVE AudioInv
  OBVIOUS
<1>1. ListInv /\ SongInv
  BY InitInv
<1>2. AudioShapes
  BY DEF RspInit, AudioInit, AudioShapes
<1>3. FrameInv
  <2>1. PICK s : s = song
    OBVIOUS
  <2>2. \A v \in Voice : Done(s, v)
    BY <2>1 DEF RspInit, AudioInit, Silent, Done
  <2>3. Quiet(list)
    BY DEF RspInit, ListInit, Quiet
  <2> QED BY <2>1, <2>2, <2>3 DEF FrameInv
<1> QED BY <1>1, <1>2, <1>3 DEF AudioInv

\* What is said of a song is said of the song at hand.
LEMMA FrameInvFrom ==
  ASSUME NEW s, s = song',
         \/ Quiet(list') /\ (Quiet(ran') => \A v \in Voice : Done(s, v)')
         \/ OfFrame(s)'
  PROVE  FrameInv'
<1>1. s \in {song'}
  OBVIOUS
<1>2. Quiet(list)' <=> Quiet(list')
  BY DEF Quiet
<1>3. Quiet(ran)' <=> Quiet(ran')
  BY DEF Quiet
<1> QED BY <1>1, <1>2, <1>3, Zenon DEF FrameInv

\* Every step keeps the frames what they should be.
LEMMA AudioStepInv == AudioInv /\ [Next]_rspVars => AudioInv'
<1> SUFFICES ASSUME AudioInv, [Next]_rspVars PROVE AudioInv'
  OBVIOUS
<1>0. ListInv /\ SongInv /\ AudioShapes /\ FrameInv
  BY DEF AudioInv
<1>1. ListInv' /\ SongInv'
  BY <1>0, StepInv
<1>2. ASSUME UNCHANGED <<area, reg, rdram>> PROVE AudioShapes'
  BY <1>0, <1>2 DEF AudioShapes
<1>3. CASE AudioBegins
  <2>1. PICK dpWait \in BOOLEAN :
          \/ \E on \in SUBSET Voice, env \in Envelope : FrameTask(on, env, dpWait)
          \/ \E l \in OddLists : OddTask(l, dpWait)
    BY <1>3 DEF AudioBegins
  <2>2. ASSUME NEW on \in SUBSET Voice, NEW env \in Envelope, FrameTask(on, env, dpWait)
        PROVE  AudioShapes' /\ FrameInv'
    BY <1>0, <1>2, <2>2, FrameBegins DEF FrameTask
  <2>3. ASSUME NEW l \in OddLists, OddTask(l, dpWait)
        PROVE  AudioShapes' /\ FrameInv'
    BY <1>0, <1>2, <2>3, OddBegins DEF OddTask
  <2> QED BY <1>1, <2>1, <2>2, <2>3 DEF AudioInv
<1>4. CASE PictureBegins
  <2>1. /\ at = "idle" /\ exit = "Broke" /\ list' = list /\ ran' = ran /\ rdram' = rdram /\ song' = song
        /\ DOMAIN area' = DOMAIN area
    BY <1>4 DEF PictureBegins, Dispatched, Idle
  <2>2. DOMAIN reg' = DOMAIN reg
    BY <1>4 DEF PictureBegins
  <2>3. AudioShapes'
    BY <1>0, <2>1, <2>2 DEF AudioShapes
  <2>4. PICK s : /\ s = song
                 /\ \/ Quiet(list) /\ (Quiet(ran) => \A v \in Voice : Done(s, v))
                    \/ OfFrame(s)
    BY <1>0 DEF FrameInv
  <2>5. \A u \in Voice : VoiceStays(u)
    BY <2>1 DEF VoiceStays
  <2>6. ASSUME Quiet(list) /\ (Quiet(ran) => \A v \in Voice : Done(s, v)) PROVE FrameInv'
    <3>1. Quiet(list)' /\ (Quiet(ran)' => \A v \in Voice : Done(s, v)')
      BY <2>1, <2>5, <2>6, VoiceKept DEF Quiet
    <3>2. s = song'
        BY <2>1, <2>4
      <3>3. Quiet(list') /\ (Quiet(ran') => \A v \in Voice : Done(s, v)')
        BY <3>1 DEF Quiet
      <3> QED BY <3>2, <3>3, FrameInvFrom
  <2>7. ASSUME OfFrame(s) PROVE FrameInv'
    <3>1. Rest = << >> /\ (\A u \in Voice : Done(s, u)) /\ rdram.out = Frame(s)
      BY <1>0, <2>1, <2>7, FrameEnds
    <3>2. Rest' = Rest
      BY <2>1 DEF Rest
    <3>3. \A u \in Voice : Done(s, u)'
      BY <2>5, <3>1, VoiceKept
    <3>4. Closing(s)'
      BY <2>1, <3>1, <3>2, <3>3 DEF Closing
    <3>5. OfFrame(s)'
      BY <2>1, <2>7, <3>4 DEF OfFrame
    <3>6. s = song'
        BY <2>1, <2>4
      <3> QED BY <3>5, <3>6, FrameInvFrom
  <2>8. FrameInv'
    BY <2>4, <2>6, <2>7
  <2> QED BY <1>1, <2>3, <2>8 DEF AudioInv
<1>5. ASSUME UNCHANGED <<list, ran, area, reg, rdram, song>> PROVE AudioInv'
  BY <1>0, <1>1, <1>2, <1>5, NoList DEF AudioInv
<1>6. CASE UnknownTask
  BY <1>5, <1>6 DEF UnknownTask, listVars, audioVars
<1>7. CASE Run
  <2>1. song' = song
    BY <1>7 DEF Run
  <2>2. CASE ListStep
    BY <1>5, <2>1, <2>2 DEF ListStep, Refill, RefillNegative, Unhandled, NextCommand
  <2>3. CASE AudioCommand
    <3>1. AudioShapes'
      BY <1>0, <2>3, ShapesAfterCommand
    <3>2. PICK s : /\ s = song
                   /\ \/ Quiet(list) /\ (Quiet(ran) => \A v \in Voice : Done(s, v))
                      \/ OfFrame(s)
      BY <1>0 DEF FrameInv
    <3>3. Execute
      BY <2>3, ByName
    <3>4. ASSUME Quiet(list) /\ (Quiet(ran) => \A v \in Voice : Done(s, v)) PROVE FrameInv'
      <4>1. Quiet(list)'
        BY <3>3, <3>4 DEF Quiet, Execute
      <4>2. ASSUME Quiet(ran)' PROVE \A v \in Voice : Done(s, v)'
        <5>1. Quiet(ran')
          BY <4>2 DEF Quiet
        <5>2. Quiet(ran) /\ rdram' = rdram
          BY <1>0, <2>3, <5>1, QuietCommand
        <5> QED BY <3>4, <5>2, VoiceKept DEF VoiceStays
      <4>3. s = song'
          BY <2>1, <3>2
        <4>4. Quiet(list') /\ (Quiet(ran') => \A v \in Voice : Done(s, v)')
          BY <4>1, <4>2 DEF Quiet
        <4> QED BY <4>3, <4>4, FrameInvFrom
    <3>5. ASSUME OfFrame(s) PROVE FrameInv'
      <4>1. SongTyped(s)
        <5>1. \A v \in Voice : s[v] \in [n : Int, env : Envelope]
          BY <1>0, <3>2 DEF SongInv
        <5>2. s = [v \in Voice |-> s[v]]
          BY <1>0, <3>2 DEF SongInv
        <5> QED BY <5>1, <5>2 DEF SongTyped
      <4>2. Steps(s)
        BY <1>0, <2>3, <3>3, <3>5 DEF Steps, OfFrame, Execute
      <4>3. OfFrame(s)'
        BY <3>5, <4>1, <4>2, FrameStep
      <4>4. s = song'
          BY <2>1, <3>2
        <4> QED BY <4>3, <4>4, FrameInvFrom
    <3> QED BY <1>1, <3>1, <3>2, <3>4, <3>5 DEF AudioInv
  <2>4. CASE UNCHANGED <<listVars, area, reg, rdram>>
    BY <1>5, <2>1, <2>4 DEF listVars
  <2> QED BY <1>7, <2>2, <2>3, <2>4 DEF Run
<1>8. CASE UNCHANGED rspVars
  BY <1>5, <1>8 DEF rspVars, listVars, audioVars
<1> QED BY <1>3, <1>4, <1>6, <1>7, <1>8 DEF Next

\* Whatever voices play, however long their wave forms, loops and envelopes
\* are and whatever their pitch: the frame a task saves is the one in which
\* every voice is decoded, resampled and mixed in one piece (FrameIsRight,
\* aspMain.cpp:664-3286).
THEOREM FramesRight == Spec => []FrameIsRight
<1>1. AudioInv => FrameIsRight
  <2> SUFFICES ASSUME AudioInv, at = "idle", exit = "Broke", ran = list, list = FrameList(song)
               PROVE  rdram.out = Frame(song)
    BY DEF FrameIsRight
  <2>1. PICK s : /\ s = song
                 /\ \/ Quiet(list) /\ (Quiet(ran) => \A v \in Voice : Done(s, v))
                    \/ OfFrame(s)
    BY DEF AudioInv, FrameInv
  <2>2. ~Quiet(list)
    <3>1. PICK a, b, c, d : /\ a = DryWet("wetL", "dryL") /\ b = DryWet("wetR", "dryR")
                            /\ c = InterleaveCommand /\ d = SaveCommand
      OBVIOUS
    <3>2. PICK y \in Seq(Words(s)) : y = Ending /\ Len(y) = 4 /\ y[4] = SaveCommand
      <4>1. Ending \in Seq(Words(s)) /\ Ending = <<a, b, c, d>>
        BY <3>1, EndingTyped, Zenon
      <4>2. Len(<<a, b, c, d>>) = 4 /\ <<a, b, c, d>>[4] = d
        OBVIOUS
      <4> QED BY <3>1, <4>1, <4>2
    <3>3. FlattenSeq(Lists(s, 0)) \in Seq(Words(s)) /\ <<ClearCommand>> \in Seq(Words(s))
      BY ListsTyped, FlattenTyped, EndingTyped, VoicesNumbered
    <3>4. Behind(s, 0) = FlattenSeq(Lists(s, 0)) \o Ending
      BY DEF Behind, Lists
    <3>5. list = <<ClearCommand>> \o Behind(s, 0)
      BY <2>1, FrameListIs
    <3>6. PICK x \in Seq(Words(s)) : list = x \o y
      <4>1. Regroups(<<ClearCommand>>, FlattenSeq(Lists(s, 0)), y)
        BY <3>3, RegroupsAlways, Zenon
      <4>2. <<ClearCommand>> \o FlattenSeq(Lists(s, 0)) \in Seq(Words(s))
        BY <3>3, Joins, Zenon
      <4> QED BY <3>2, <3>4, <3>5, <4>1, <4>2, Zenon DEF Regroups
    <3>7. /\ x \o y \in Seq(Words(s)) /\ Len(x \o y) = Len(x) + Len(y) /\ Len(x) \in Nat
          /\ \A i \in 1 .. (Len(x) + Len(y)) : (x \o y)[i] = IF i <= Len(x) THEN x[i] ELSE y[i - Len(x)]
      BY ConcatProperties, LenProperties
    <3>8. PICK i \in 1 .. (Len(x) + Len(y)) : ~(i <= Len(x)) /\ i - Len(x) = 4
      BY <3>2, <3>7
    <3>9. list[i] = SaveCommand /\ i \in DOMAIN list
      BY <3>2, <3>6, <3>7, <3>8
    <3> QED BY <3>9 DEF Quiet, SaveCommand
  <2> QED BY <2>1, <2>2, FrameEnds DEF AudioInv
<1> QED BY InitAudioInv, AudioStepInv, <1>1, PTL DEF Spec

=============================================================================
