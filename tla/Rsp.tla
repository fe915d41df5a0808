-------------------------------- MODULE Rsp --------------------------------
(***************************************************************************)
(* The recompiled RSP as the game uses it: get_rsp_microcode (main.cpp)    *)
(* picks the microcode for a task, the task runs to its end on the host    *)
(* thread, then the next one may start.  Every microcode has registers of  *)
(* its own that outlive its tasks, the DMEM is one for both.               *)
(***************************************************************************)
EXTENDS AudioTask, JpegTask

CONSTANTS
    OddLists,   \* lists that no frame of the game's audio is
    MaxTasks    \* tasks of a behaviour

Songs == [Voice -> [n : -1..MaxTasks, env : Envelope]]

ASSUME RspAssumption == OddLists \subseteq Seq(Command) /\ MaxTasks \in Nat
\* Only a frame's list touches what the voices keep.
Quiet(l) == \A i \in DOMAIN l : l[i].op \notin {"adpcm", "resample", "envmixer", "savebuff"}
ASSUME QuietAssumption == \A l \in OddLists : Quiet(l)
ASSUME FrameAssumption == \A s \in Songs : FrameList(s) \in Seq(Command)

VARIABLES
    tasks,       \* tasks handed to the RSP
    microcode    \* what get_rsp_microcode returned last

rspVars == <<listVars, audioVars, jpegVars, tasks, microcode>>

RspInit ==
    /\ ListInit /\ AudioInit /\ JpegInit
    /\ tasks = 0 /\ microcode = "aspMain"

\* The last task has ended, and not in an error.
Idle == at = "idle" /\ exit = "Broke" /\ stage = "idle" /\ jpegExit = "Broke" /\ microcode # "nullptr"

\* The type of the task selects the microcode; a type without one ends the
\* game's RSP work.
Dispatched(type) ==
    /\ Idle /\ tasks < MaxTasks
    /\ tasks' = tasks + 1
    /\ microcode' = CASE type = "M_AUDTASK"   -> "aspMain"
                      [] type = "M_NJPEGTASK" -> "njpeg_wrapper"
                      [] OTHER                -> "nullptr"

\* A task with a list of its own kind leaves nothing of the pictures' DMEM.
AudioBegins ==
    /\ Dispatched("M_AUDTASK")
    /\ \E dpWait \in BOOLEAN :
          \/ \E on \in SUBSET Voice, env \in Envelope : FrameTask(on, env, dpWait)
          \/ \E l \in OddLists : OddTask(l, dpWait)
    /\ mem' = [a \in DOMAIN mem |-> Garbage] /\ pix' = [r \in DOMAIN pix |-> GarbageRow]
    /\ UNCHANGED <<stage, dram, head, count, input, output, loop, jpegExit>>

\* A picture is decoded over the audio's buffers, book, ramps and commands.
PictureBegins ==
    /\ Dispatched("M_NJPEGTASK")
    /\ \E mcus \in 0..MaxMcus, kind \in {0, 2} : BeginJpeg(mcus, kind)
    /\ cmdbuf' = [s \in 1..ChunkMax |-> Stale]
    /\ area' = [a \in DOMAIN area |-> [g \in 1..Groups |-> Junk]]
    /\ reg' = [reg EXCEPT !.book = 0, !.loop = 0, !.L = [target |-> 0, rate |-> 0],
                          !.R = [target |-> 0, rate |-> 0], !.startL = 0]
    /\ UNCHANGED <<list, r27, r28, r29, r30, at, exit, ran, rdram, song>>

UnknownTask ==
    /\ Dispatched("other")
    /\ UNCHANGED <<listVars, audioVars, jpegVars>>

\* What the microcode of the running task does next.
Run ==
    /\ \/ (ListStep \/ AudioCommand) /\ UNCHANGED jpegVars
       \/ JpegStep /\ UNCHANGED <<listVars, area, reg, rdram>>
    /\ UNCHANGED <<song, tasks, microcode>>

Next == AudioBegins \/ PictureBegins \/ UnknownTask \/ Run

\* The host calls the microcode and waits for it: a step that can be taken is.
Spec == RspInit /\ [][Next]_rspVars /\ WF_rspVars(Run)

\* Every task ends, whatever its list or its picture: the counts of commands
\* and MCUs run out, and where they do not the watchdog does
\* (aspMain.cpp:345-416, njpgdspMain.cpp:512-555).
TasksEnd ==
    /\ at # "idle" ~> at = "idle"
    /\ stage # "idle" ~> stage = "idle"
=============================================================================
