---------------------------- MODULE CommandList ----------------------------
(***************************************************************************)
(* How the audio microcode (rsp/aspMain.cpp) walks a command list: the     *)
(* registers that the pre-task hook (rsp_aspmain_hook.cpp) and the boot    *)
(* code seed, the command buffer in DMEM that is refilled chunk by chunk,  *)
(* the dispatch of a command and the end of the task.  What a command does *)
(* to samples is in AudioTask.                                             *)
(*                                                                         *)
(* Lengths and pointers are in commands (8 bytes); the pointer r28 counts  *)
(* from the start of the list.                                             *)
(***************************************************************************)
EXTENDS Integers, Sequences

CONSTANTS
    Command,    \* what a list may hold: records with a field op
    ChunkMax    \* commands the buffer holds (0x140 bytes: 40)

ASSUME ChunkAssumption == ChunkMax \in Nat \ {0}
ASSUME CommandAssumption == \A c \in Command : c.op # "stale"

\* The entries of the dispatch table (aspMain.j.1.0.toml); "spnoop" jumps
\* straight to the label after a command.
Ops == {"spnoop", "adpcm", "clearbuff", "envmixer", "loadbuff", "resample", "savebuff",
        "setvol", "setrate", "dmemmove", "loadadpcm", "mixer", "interleave", "setloop"}

Stale == [op |-> "stale"]   \* whatever DMEM holds where no chunk was loaded

VARIABLES
    list,     \* the commands in RDRAM of the task being run
    cmdbuf,   \* DMEM from 0x2B0: slot -> command
    r27,      \* commands of the list not yet fetched
    r28,      \* commands of the list fetched
    r29,      \* slot of the next command
    r30,      \* commands of the chunk not yet executed
    at,       \* "idle", "refill", "fetch" or "next"
    exit,     \* why the last task ended, "none" while one runs; "Lost" when
              \* DMEM is written or executed in ways this module leaves open
    ran       \* history: the commands executed in this task

listVars == <<list, cmdbuf, r27, r28, r29, r30, at, exit, ran>>

Min2(a, b) == IF a < b THEN a ELSE b

ListInit ==
    /\ list = <<>> /\ ran = <<>>
    /\ cmdbuf = [s \in 1..ChunkMax |-> Stale]
    /\ r27 = 0 /\ r28 = 0 /\ r29 = 0 /\ r30 = 0
    /\ at = "idle" /\ exit = "Broke"

\* Mutant: the hook leaves the counts to the boot code.
BeginListByFlag(l, dpWait) ==
    /\ at = "idle" /\ exit = "Broke"
    /\ list' = l /\ ran' = <<>> /\ exit' = "none"
    /\ IF dpWait THEN r27' = Len(l) /\ r28' = 0 ELSE UNCHANGED <<r27, r28>>
    /\ IF l # <<>> THEN r29' = 1 /\ r30' = Min2(Len(l), ChunkMax) ELSE UNCHANGED <<r29, r30>>
    /\ cmdbuf' = [s \in 1..ChunkMax |-> IF s <= Len(l) THEN l[s] ELSE cmdbuf[s]]
    /\ at' = "refill"

\* A task starts.  The hook seeds the registers of a list that is not empty;
\* the boot code reads them from the task header as well, but only if the
\* task's flags ask to wait for the RDP (dpWait).  Otherwise an empty list
\* runs on with the registers of the task before.
BeginList(l, dpWait) ==
    /\ at = "idle" /\ exit = "Broke"
    /\ list' = l /\ ran' = <<>> /\ exit' = "none"
    /\ IF l # <<>> \/ dpWait
       THEN r27' = Len(l) /\ r28' = 0
       ELSE UNCHANGED <<r27, r28>>
    /\ IF l # <<>>
       THEN r29' = 1 /\ r30' = Min2(Len(l), ChunkMax)
       ELSE UNCHANGED <<r29, r30>>
    /\ cmdbuf' = [s \in 1..ChunkMax |-> IF s <= Len(l) THEN l[s] ELSE cmdbuf[s]]
    /\ at' = "refill"

\* DMA of the next chunk to the start of the buffer; what an earlier chunk
\* left behind its end stays.
Refill ==
    /\ at = "refill" /\ r27 >= 0
    /\ LET chunk == Min2(r27, ChunkMax) IN
       /\ r30' = chunk
       /\ cmdbuf' = [s \in 1..ChunkMax |->
                        IF s <= chunk /\ r28 + s <= Len(list) THEN list[r28 + s] ELSE cmdbuf[s]]
    /\ r29' = 1
    /\ at' = "fetch"
    /\ UNCHANGED <<list, r27, r28, exit, ran>>

\* Behind the buffer lies the ADPCM book, which is no command.
Fetched == IF r29 \in 1..ChunkMax THEN cmdbuf[r29] ELSE Stale

\* Every command but spnoop takes itself off the count of its chunk.
Execute ==
    /\ at = "fetch"
    /\ Fetched.op \in Ops
    /\ r28' = r28 + 1 /\ r27' = r27 - 1
    /\ r30' = IF Fetched.op = "spnoop" THEN r30 ELSE r30 - 1
    /\ ran' = Append(ran, Fetched)
    /\ at' = "next"
    /\ UNCHANGED <<list, cmdbuf, r29, exit>>

\* A table entry that is no label of the microcode ends the task.  SETLOOP
\* stores its address over entries 7 and 8 of the table (aspMain.cpp:1237), no
\* commands as loaded: entry 7 gets the high half of a 24-bit address and stays
\* none; the model takes entry 8, the low half, as never a label either.
Unhandled ==
    /\ at = "fetch"
    /\ Fetched.op \notin Ops
    /\ r28' = r28 + 1 /\ r27' = r27 - 1
    /\ exit' = IF Fetched = Stale THEN "Lost" ELSE "UnhandledJumpTarget"
    /\ at' = "idle"
    /\ UNCHANGED <<list, cmdbuf, r29, r30, ran>>

\* A chunk of negative length: the DMA gets a length of 4 GB.
RefillNegative ==
    /\ at = "refill" /\ r27 < 0
    /\ at' = "idle" /\ exit' = "Lost"
    /\ UNCHANGED <<list, cmdbuf, r27, r28, r29, r30, ran>>

\* After a command: the next one of the chunk, the next chunk, or the end.
NextCommand ==
    /\ at = "next"
    /\ r29' = r29 + 1
    /\ \/ /\ r30 > 0
          /\ at' = "fetch"
          /\ UNCHANGED exit
       \/ /\ r30 <= 0 /\ r27 > 0
          /\ at' = "refill"
          /\ UNCHANGED exit
       \/ /\ r30 <= 0 /\ r27 <= 0
          /\ at' = "idle" /\ exit' = "Broke"
    /\ UNCHANGED <<list, cmdbuf, r27, r28, r30, ran>>

ListTypeOK ==
    /\ list \in Seq(Command) /\ ran \in Seq(Command)
    /\ cmdbuf \in [1..ChunkMax -> Command \union {Stale}]
    /\ r27 \in Int /\ r28 \in Nat /\ r29 \in Nat /\ r30 \in Int
    /\ at \in {"idle", "refill", "fetch", "next"}
    /\ exit \in {"none", "Broke", "UnhandledJumpTarget", "Lost"}

\* The lists the microcode can walk: not empty, and without spnoop.
Walkable == list # <<>> /\ \A i \in 1..Len(list) : list[i].op # "spnoop"

\* However the list is cut into chunks, whatever flags the task has and
\* whatever earlier tasks left in DMEM and in the registers: what has run is
\* the beginning of the list, command by command, a task that ends normally
\* has run all of it, and nothing but the list is ever executed
\* (aspMain.cpp:310-416, rsp_aspmain_hook.cpp:41-57).
RunsTheList ==
    Walkable =>
        /\ Len(ran) <= Len(list) /\ ran = SubSeq(list, 1, Len(ran))
        /\ exit = "Broke" => ran = list
        /\ exit # "Lost"

=============================================================================
