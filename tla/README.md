# PocketMonstersStadiumRecomp: TLA+ models

This directory models the parts of PocketMonstersStadiumRecomp where several
threads, processes or callbacks meet, and the two recompiled microcodes whose
tasks share state: the hooks that run on every recompiled function entry, the text
capture and translation built on them, the text that is swapped into guest memory,
the RSP's audio and JPEG tasks, the audio queue, controller routing, the launcher,
ROM selection and the debug server. TLC checks the models on small instances; for
most of them TLAPS proves the safety properties for every instance (section 4).

Paths below are relative to the repository; `D` is `src/main/diagnostics.cpp`,
`M` is `src/main/main.cpp`, `LM` is `src/launcher/pmsj_launcher_main.cpp`.

## 1. The system

The game is a statically recompiled N64 program. Recompiled functions are C code
linked with an external runtime (librecomp, ultramodern, RT64, SDL). Every
recompiled function starts with `TRACE_ENTRY()` (`include/trace.h`), which calls
three hooks of `D` on whatever guest thread is running.

| Part | Source | State | Operations | Correct when |
|---|---|---|---|---|
| text PC set | D:731-757 | 512 atomic words | `textpc_contains`, `textpc_add` | no address is lost, duplicated or unreachable under relaxed atomics |
| text capture | D:612-925 | `g_strinv`, `g_textcand`, counters, `stringdump.log` | probe, upsert, flag, tally, dump, `stringdump` command | every qualifying call is accounted for, the log equals the table |
| translation table | D:1004-1149, `tools/pms_build_translations.py` | `g_xlate`, armed flag, recorded file time, `translations.json` | reload check, load, lookup; saves from outside | the table follows the file, no lookup goes back in time |
| translation hook, self-render | D:1013-1025, 1205-1255, 1419-1574, 1629-1744 | per-thread guard, `g_slotm` | hook, render, calibrate, suppress | no recursion, each string drawn once, slots measured once |
| printf swaps | D:1151-1171, 1535-1625 | guest scratch below the stack pointer, r5 and r6 | format swap, piece swap, count re-sync | the composed string is the format with its arguments |
| ring buffers and reports | D:100-590, 1750-2232 | trace ring, os-call ring, crash reports | push, dump | a report shows the latest events |
| debug server | `src/main/debug_server.cpp` | override atomics, line buffer, listening socket | one client at a time, one JSON line per command | commands are answered in order, the override the game reads is the one set |
| input routing | M:421-696, `launcher_cfg.cpp`, `transfer_pak.cpp` | per-port tables, pad handles | boot thread fills them; gfx thread opens pads; game thread reads | what the game is told about a port never contradicts itself |
| audio queue | M:236-352 | overlap buffer, SDL queue | `queue_samples`, `get_frames_remaining` | the device plays the game's frames once, in order, left on the left |
| fast-forward | M:395-419, debug server | `g_fast_forward` | TAB down and up, `PMS_TURBO`, TCP command | TAB is momentary |
| quitting and saves | M:399-411, debug server `quit` | the runtime's saving thread | SDL_QUIT joins it, `quit` does not | a save made before the window is closed is on disk |
| ROM selection | M:918-1006 | `rom.cfg` | argv, saved pick, dev layout, picker loop | only a validated ROM boots |
| launcher | `src/launcher/pmsj_launcher_main.cpp` | `launcher.cfg`, `rom.cfg` | load, edit, write, spawn | the game reads back what was committed |
| RSP dispatch | M:100-234, `rsp_aspmain_hook.cpp` | the two microcodes' contexts, one DMEM | choose a microcode, seed the audio task | tasks run with the state rspboot would leave, whatever ran before |
| audio microcode | `rsp/aspMain.cpp`, `aspMain.j.1.0.toml` | registers, DMEM buffers, a state block per voice in RDRAM | walk a command list, fourteen commands | the list is run once, in order; a voice cut into commands and frames sounds as one piece |
| JPEG microcode | `rsp/njpgdspMain.cpp` | DMEM blocks and rows, pointers, counts | decode MCUs in place, one ahead | every MCU becomes its own picture and nothing else is written |
| renderer | `rt64_render_context.cpp` | RT64 application | display lists, screen updates, configuration | configuration reaches RT64 |
| overlay registration | `register_overlays.cpp` | none of its own | hands generated tables to the runtime | - |
| offline tools | `tools/` | files | decode, build, match, scan | tables they emit match their inputs |

Threads: guest threads (run the hooks; the runtime's scheduler is cooperative and
lets one run at a time, FINDINGS.md:98-113), the gfx thread (window events, pads, frames), the detached boot
thread, the debug server's thread (serves one client at a time), SDL's and the
runtime's own threads (saving among them). They share the atomics and tables
above; `stringdump.log`, `translations.json`, `launcher.cfg` and `rom.cfg` are
shared with other processes.

What is hard here: relaxed atomics, mutexes held across calls into recompiled
code that re-enters the hooks, files replaced in place while others read them,
a process that ends with `_Exit` or `abort` at any moment, guest memory written
behind the back of a routine that is reading it, and counts computed before a
string was replaced; microcode that works a chunk, a block or a row ahead of itself
on memory it also overwrites, and continues from what an earlier task left. Each is listed under "hazards" in PROJECT.json with its
line.

## 2. Modules

| Module | Models | Checked by |
|---|---|---|
| `PcSet` | abstract grow-only set with stale lookups | target of `RefinesPcSet` |
| `TextPcSet` | `textpc_contains`, `textpc_add`, one action per atomic access | run `textpc` (`MCTextPcSet`) |
| `TextCapture` | probe, `strinv_upsert`, `dump_stringinv_locked`, census, crash | runs `textcapture`, `textcapture_crash` (`MCTextCapture`) |
| `Translations` | reload check, load, armed flag, lookup, whoever writes the file | run `translations` (`MCTranslations`) |
| `TextHook` | `TRACE_ENTRY`, hook, `self_render_static`, `calibrate_slot` | through `TextSched` |
| `TextSched` | `TextHook` under the game's cooperative scheduler or in parallel, with the server's dump | run `texthook` |
| `TextSwap` | `swap_scratch`, `xlate_general` on `_Printf`, `xlate_desc` | run `textswap` (`MCTextSwap`) |
| `AudioQueue` | `queue_samples`, `get_frames_remaining`, SDL's queue | runs `audioqueue`, `audioqueue_channels` (`MCAudioQueue`) |
| `LauncherCfg` | the readers of launcher.cfg, as functions | used by `PortRouting` and `Launcher` |
| `PortRouting` | boot thread, pad handles, what the game is told about a port | run `portrouting` (`MCPortRouting`) |
| `Launcher` | load, edit, write, spawn | through `Boot` |
| `RomSelection` | argument, rom.cfg, development layout, picker | through `Boot` |
| `Boot` | composes `Launcher` and `RomSelection` | run `boot` (`MCBoot`) |
| `DebugServer` | connections, the input override, fast-forward with TAB | run `debugserver` |
| `CommandList` | the pre-task hook, the walk of an audio command list through the buffer in DMEM | through `Rsp` |
| `AudioTask` | the audio commands, the game's list for a frame, and the frame it stands for | through `Rsp` |
| `JpegTask` | the pipelined decoding of a picture in place, and the picture | through `Rsp` |
| `Rsp` | `get_rsp_microcode`; composes `AudioTask` and `JpegTask` on one DMEM | run `rsp` (`MCRsp`) |
| `TextPcSetProofs`, `TextCaptureProofs`, `TranslationsProofs`, `TextHookProofs`, `TextSwapProofs` | theorems about the module they are named after; `TextHookProofs` about `TextSched` too | tlapm |
| `LauncherCfgProofs` | theorems about `PortRouting` and about `Boot` (`Launcher`, `RomSelection`), which share `LauncherCfg` | tlapm |
| `RspProofs` | theorems about `Rsp`: the command list, the pictures and the frames | tlapm |
| `HostProofs` | theorems about `DebugServer` and about `AudioQueue` | tlapm |

`LauncherCfg` is what two programs share: the launcher's writer is checked against
the readers the game uses. `Boot` joins the launcher's main, which also writes
rom.cfg, with the game's start, which selects the ROM from rom.cfg and then reads
launcher.cfg. `Rsp` joins the two microcodes: each has registers of its own, and a
task of one finds in DMEM what a task of the other left.

Each module states one type invariant, `TypeOK` (`QueueTypeOK` in `AudioQueue`,
`JpegTypeOK` in `JpegTask`). Where a run checks it together
with a property that would be weak alone, the conjunction has a name of its own:
`TallyInv`, `TableInv`, `RenderInv`, `SwapInv`, `StreamInv`, `RoutingInv`,
`SettingsInv`, `OverrideInv`, `PicturesRight`; `IInv` of `TextPcSet` includes its
`TypeOK`. The inductive invariant
of the proofs is `IInv`, next to a module's properties or in its proof module; for the
microcodes it is `ListInv`, with `SongInv`, and `JpegInv`, for the queue `StreamKept`
and `GapsKept`, each beside the proof that uses it.

### TextPcSet

Each atomic load, compare-exchange and reload is a step. All accesses are
`memory_order_relaxed` and a slot is written at most once, so a load by a thread
that has not observed the write may still return 0: `seen[t]` holds what `t` has
observed and `Loads(t, s)` the values it may get. `Hash` is a parameter; the code's
multiplicative hash is one of its values. The instance has two threads and four
addresses for three slots, two pairs of which collide in their home slot and one
of which wraps, so that the table fills and an add is dropped; lookups ask for one
address of each pair, the other behaving alike.

`PcSet` is what callers may rely on: members only grow, a lookup may miss what
another thread has just added but nothing its own thread was told about, and an
add is dropped only by a full set. `RefinesPcSet` maps the stored words to the
members, the place a thread has reached in its call to the operation (`Phase`), and
every hidden step to a stutter. `CallsEnd` assumes that a thread
inside a call runs on; no access waits for another thread.

### TextCapture

Strings are their keys, an entry is its count. The critical section of
`strinv_upsert` is one action up to the rewrite of the log; opening, flushing and
closing the log are separate because the process may die between them. The mutex
is held throughout, also by the server's `stringdump`. `Crash` restarts the process
with empty tables and the file as it is. `Seed` and `SeedPrintf` are the two PCs
`load_translations_locked` puts into the PC set (D:1125, 1129) whenever it runs, before
any string may have been captured; `WithPc` is `textpc_add` (D:746-757), which ignores
address 0 and drops an address without a word when all slots are taken. So `TallyInv`
claims that a tallied PC is flagged unless the set is full, and that nothing but the two
seeds is flagged before a string was captured. Bounds: three strings for a table of
two, four PCs (0, the two seeds, one more) for a PC set of two and a candidate table of one, three
qualifying calls, two processes. Deadlock is not checked because the calls are bounded.

`textcapture_crash`: the log is truncated before it is rewritten, so what was
"persisted" earlier is lost if the process dies in between, against the comments
at D:637-640 and D:693-694.

### Translations

The writer (an editor, or the build tool) truncates the file and writes its
entries one by one; each write moves the modification time. The reader reads key
by key. Versions are numbers of saves. A behaviour has a kind of disk: `openFails`
lets an open of a present file fail, `sameTick` lets two writes have the same
time. `translations` explores a good disk, one on which opens fail and one with
both faults. The safety properties hold on all three. `EventuallyCurrent` says what
the table ends up as once nobody saves any more: the file, or, on a disk on which the
last open may have failed, empty, and never an earlier save or half a save; of two
writes in one tick it claims nothing. It needs
fairness: each thread goes on calling traced routines (the game never stops) and
eventually gets a mutex that is free again and again. Nothing makes anyone save.
Two saves and a deletion are enough for a load to straddle a save and for the
file to go and come back.

The time is recorded before the file is opened; a failed open leaves an empty table
and a matching time, so the table stays empty until the next save
(`MCTranslations_locked.cfg`, section 3).

### TextHook and TextSched

`stack[t]` holds the traced routines a thread is in. Every routine goes through the
probe (which takes `g_strinv_mtx` for a text argument, Japanese or English: `IsText`)
and the hook. A self-render raises the thread's guard, calibrates its font slot under
`g_slotm_mtx` by calling the recompiled `FUN_80019f70` for each glyph, draws glyphs
through `FUN_8001a3e4`, and leaves an empty string for the routine itself. The
nested calls go through `TRACE_ENTRY` again. What the table says is left open, so
every choice of the hook is explored. One slot of three glyphs, two threads; the
slots from the eighth on, which share the metrics of slot 0, are left out, as are
widths and auto-fit arithmetic. English of one byte, which the probe of a nested routine
would not take for text, is left out too.

Whether every call ends does. The game's threads run one at a time (FINDINGS.md:98-113):
one gives way only in guest code, at an os call or at the checkpoint of a loop's back
edge (`include/trace.h`:15-17), and a host mutex it waits for is no such place. `TextSched`
adds the thread that runs and lets it be swapped for another only outside the traced
routines and in the body of one that `yields`. The locks, the double-checked calibration
and the thread-local guard of `D` are written for threads that run in parallel, which the
repository's runtime does not make use of; the safety properties are checked for both
(`parallel`), and proved of `TextHook`, which interleaves the threads freely. Whether `FUN_80019f70`, which the hook calls
with `g_slotm_mtx` held (D:1230), contains an os call or a loop is a property of the ROM,
so both are explored. If it does, the game can hang (`Hung`): the thread that measures is
swapped out, the next one that draws with a slot that is not ready waits in the host mutex
and never gives way. `TextSched_index.cfg` shows that trace. `CallsEnd` says that,
under the scheduler, every call returns unless `FUN_80019f70` yields and the game hangs so;
nothing else hangs it, in particular not `g_strinv_mtx` and not the drawing routines
(`OnlyIndexHangs` is the part of it that is proved). `CallsEnd` assumes strong fairness of
`Switch` and `RunOn` (every thread is scheduled again and again, and gets on when it is)
and that a dump of the debug server ends.

### TextSwap

One `_Printf` call at a time, its stack frames, the two scratch slots and the
writeproc's registers. Addresses are bytes; the offsets are a hundredth of the
real ones and keep their relation (`GapAssumption`, `DepthAssumption`). `_Printf`
and the writeproc are guest code: they behave as the comments at D:1583-1619
describe (r5 and r6 are pointer and count of a literal run or a conversion's result, r4 is
where the result is written, r7 whatever a caller left).

`WriteProc` is the whole of `xlate_desc`: r7, r4 and r5 are looked up in this order,
and the first string of the table is swapped and ends the search. A swap of r7 writes
into a scratch slot and leaves the piece alone; a swap of r4 makes the writeproc append
to the scratch slot instead of the result; only a swap of r5 replaces the piece and its
count. r7 and the string at the end of the result are taken from `Other`: one without an
entry, one with English, one with an English template.

`ComposedRight` and `FormatIntact` are claimed where the hook is right (`Regular`): no
swap of r4 has moved the result, no swap of r7 has used the slot the format lies in
(`stray`), and no literal run of the format being walked is, with what follows it, an
entry with conversions (`TailsApart`). The run's table holds the shipped entry `L%d` and calls of
every format; each of the exceptions is a counterexample of section 3 under the same
constants. The table may be reloaded at any point (`Reload`), so the hook of a format and
the hooks of its pieces may see different tables. `FormatIntact` holds all the same;
`ComposedRight` is claimed for a call during which no reload happened (`steady`).

### AudioQueue

A frame is the number of its input frame, so that what the device hears can be
compared with what the game produced; a frame of the queue is as many bytes as it
has, which know their channel. Resampling is to the nearest frame, which keeps all
lengths of the code's integer arithmetic. One call of `queue_samples` is two steps,
because SDL's thread drains the queue between the query of its depth and the
append. The game produces a chunk when `get_frames_remaining` reports at most `Low`
frames; with a larger margin it would run into decimation without fast-forward
(the real margin is a tenth of a second). Rates are scaled down with the margin
and the chunk sizes; one chunk is no longer than the overlap. `DiscardAssumption`
excludes rates for which an odd number of output frames is discarded: there the
start of a batch is off by half a frame. `Paces` and `Reaches`, at the end of the
module, say what a game that paces itself relies on (section 4).

`Setups` names the games of a run. `audioqueue` has a game that paces itself with
two rates, about which `Seamless`, `StreamInv` and `ChannelsKept` speak, and one
under fast-forward for a device that may stall, which fills the queue up to the
bound of `LatencyBounded`: the depth from which on halving leaves nothing of the longest
chunk, plus that chunk. Decimation drops frames, so the first three are claimed
only without fast-forward.

`audioqueue_channels`: decimation divides a length in bytes, so the queue may get
a part of a frame and plays left on the right from then on (`LeftOnLeft`).

### LauncherCfg and PortRouting

A file is a record per player, a path a value; `Cut` says what a reader keeps of a
path after it has cut comments. The routing loop of the boot thread is one step a
port, since each turn reads the file and enumerates the pads again. Pads are the
instance ids SDL hands out, never reused. The game may ask at any time, before
the tables are filled too. Three ports, two pads: enough for two players to
compete for a pad and for one port to have none; each port has one of five entries (the
three devices without a cartridge, a pad and no device with one).

SDL enumerates a new pad anywhere among the others (`Plug`), and the readers bind by
SDL's device index (`launcher_cfg.cpp`:67). `overtaken` records that between two turns of
the loop a pad was plugged in before one already dealt. Then two players may share a pad
(`MCPortRouting_front.cfg`, section 3), and `NoSharedPad` makes no claim; every other way
in which pads come and go during the loop is in it.

SDL may refuse to open a pad (`SDL_GameControllerOpen` returns nullptr): `PollRefused`
leaves the port to the next poll, and `EnsurePadOpen` goes on to the next pad, so any pad
may become `g_pad`. `BoundPadPlays` assumes that the boot thread runs, that the runtime
polls for every frame, and that SDL does not refuse a connected pad for ever. Deadlock is not checked: when every pad was pulled out, nothing
happens any more.

### Launcher, RomSelection and Boot

In `Launcher` the window is external: it may change a player's source, set or
remove a cartridge, and toggle a pak. The game is what `LauncherCfg` makes of the
file. A crash between truncation and flush is not modelled; it leaves an empty
file, with which every port is disabled.

In `RomSelection` files are good, bad or absent and change between sessions;
rom.cfg can be written. The picker exists (Windows); elsewhere it is cancelled at
once. A pick in a session that began with an argument is not remembered even if
the argument did not validate, because `cli_override` stays set for the whole loop
(M:978): `RemembersPick` makes no claim about it.

`Boot` takes every step of the launcher's main in both modules: it opens with both
files, writes launcher.cfg and then rom.cfg, spawns the game. One program runs at
a time. One player, one cartridge, two ROM files suffice: the players do not
interact in the file format, and a second ROM competes with the first.
`Decided` assumes that the game runs on and that a user who is asked over and over
picks a good ROM or cancels.

### DebugServer

A line is a parsed command. Each store and load of the override is a step, of the
game as well. `held` is what the commands carried out define; `alone` marks reads no
command overlapped. `CarriedOut` assumes that every tool hangs up some time (each
script of `tools/` connects once for each command) and that the server runs.
Two tools, two lines: one tool waits while the other is served, and what the first
line left behind meets the second. Commands that only read, the line limit,
`quit` and `shutdown` are left out.

### CommandList, AudioTask, JpegTask and Rsp

The microcode is generated C++ with one label for each branch target; a step of the
model is what lies between two decisions: a DMA, the dispatch of a command, a
command, an iteration of a pipelined loop. Registers that carry control keep their
names. What is computed from samples and coefficients is a token: which block of
which wave form, decoded with which book from which predecessor; which block of
which MCU, multiplied by which table. So a property sees every wrong source, order,
repetition and leftover, and no rounding error.

`CommandList`. Lengths are in commands of eight bytes. `BeginList` is the pre-task
hook followed by what the recompiled entry does. The hook seeds `r27` to `r30` of a
list that is not empty; the header is read again only if the task's flags ask to
wait for the RDP. The buffer holds `ChunkMax` = 4 commands (40 in the code) and the
lists of the run have 1 to 27, so chunks are full, short and of length one.
SETLOOP stores its address at 0xE, over entries 7 and 8 of the dispatch table
(aspMain.cpp:1237): entry 7 gets the high half of a 24-bit address, which is no label;
the model takes the low half in entry 8 as no label either (`Unhandled`).
`RunsTheList` makes no claim about two kinds of list (`Walkable`): `spnoop` does not
take itself off the chunk's count (aspMain.cpp:345), and an empty list keeps the
counts of the task before (`rsp_aspmain_hook.cpp`:45). Nothing in the repository shows the
game sending either; the model follows both into whatever they reach (`"Lost"`).
Table entries 7 and 8 are no label as loaded, entry 14 jumps into the middle of
SETVOL (`SetRate`).

`AudioTask`. Two voices with different pitches, frames of two groups of samples (23
in the code), wave forms that jump back within a frame, ramps that rise, fall, stand
and reach their target; positions and volumes have `Frac` = 4 steps between integers.
The list of a frame is written by the game's synthesis driver, which is not in this
repository: `FrameList` writes what the commands are made for (decode, at a jump in
two parts, resample, set the volumes of a voice that starts, mix), and is
marked external. `FrameIsRight` compares the frame with `Frame`, where nothing is
carried over at all: positions and volumes are computed from the start of the voice.
Of the game it is assumed that the loop of a wave form is no shorter than what a
frame consumes, so that a frame jumps back once at the most (`LoopAssumption`), and
that a list which is no frame's has none of the four commands that read or store what
the voices keep (`QuietAssumption`; such a list may execute all others, and what it
leaves in DMEM the next frame meets). A game whose last list was not run to its end
starts its voices anew (`Playing`).

`JpegTask`. Blocks of 0x80 bytes and rows of pixels at the addresses of the code, both
kinds of MCU, pictures of none to two MCUs: an MCU is loaded ahead, written behind and
both. Every pipelined loop stores the result of the iteration before, its first store
landing in front of its buffer. `WatchdogLimit` counts MCUs, where the code counts
transitions: only a picture without MCUs, whose count passes zero, reaches it. The path
that yields a task (njpgdspMain.cpp:1659-1705) and the one that resumes it are left
out, because SP_STATUS reads as 0 in the recompiled code.

`Rsp`. Up to three tasks in any order, so that a picture lies between two frames of a
voice and the other way round. A task starts when the last one has ended, on
the runtime's thread (external). The audio's watchdog is not reached: every list
ends. A task without a microcode ends the behaviour, hence no deadlock check.
`TasksEnd` assumes that the host goes on executing the microcode it has called.

## 3. Properties, mutants and further configurations

Every property of a passing run has a mutant in PROJECT.json: a plausible bug in
one action (a dropped re-check, a missing reset, a count left stale), under which
TLC finds the property violated. The mutants are operators next to the action
they replace, named after it.

The two runs that end in a violation are findings of PROJECT.json. These
configurations show further counterexamples; each is run as
`tlc -config <cfg> <module>`.

| Configuration | Module | Violates | Shows |
|---|---|---|---|
| `MCTextPcSet_zero.cfg` | `MCTextPcSet` | `GateOnlyFlagged` | `textpc_contains(0)` is true at the first empty slot, because the comparison with the argument precedes the test for 0. `parse_fun_pc` yields 0 for names without a hexadecimal address; `xlate_general` then scans r6 of a routine nobody flagged, against D:1533 (harmless unless r6 points at a known string). |
| `MCTextSwap_result.cfg` | `MCTextSwap` | `ComposedAnyway` | `xlate_desc` tries r7 and r4 before r5, whatever routine was hooked. In a call from `_Printf` r4 is where the result goes: if what lies there is a string of the table (the result of an earlier call), the writeproc is made to write to the scratch space, and the piece is missing from the result. |
| `TextSched_index.cfg` | `TextSched` | `CallsEndAnyway` | A guest thread swapped out inside `FUN_80019f70` keeps `g_slotm_mtx` (D:1230); the next that draws with a slot that is not ready blocks in the host mutex without giving way, and the game stops. Whether `FUN_80019f70` passes a checkpoint is decided by the ROM. |
| `MCTextSwap_level.cfg` | `MCTextSwap` | `ComposedAnyFormat` | `xlate_desc` looks up the NUL-terminated string at r5, not the r6 bytes it was asked to append. When a run of literal text starts a format that is itself an entry (the shipped table has `L%d`), the run is replaced by the whole entry, against D:1617-1619. This rests on `_Printf` passing a literal run as a pointer into its format, which guest code decides. |
| `MCTextSwap_reload.cfg` | `MCTextSwap` | `ComposedOverReloads` | A format that enters the table after `_Printf` was entered is looked up whole at its first literal piece (D:1571), and its English template is appended with its conversions unconverted. |
| `MCTranslations_locked.cfg` | `MCTranslations` | `ReloadsAfterFailedOpen` | translations.json cannot be opened at the moment its new time is seen (an editor holds it): the table stays empty until the next save, against README.md:82 and D:995. |
| `MCPortRouting_front.cfg` | `MCPortRouting` | `NeverSharedPad` | A pad that SDL enumerates before the others between two turns of the boot thread's loop moves the indices, and two players share a pad (`launcher_cfg.cpp`:67 enumerates once for each port). |
| `MCPortRouting_env.cfg` | `MCPortRouting` | `CartReported` | A cartridge from `PSR_TRANSFER_PAK_P*_ROM` on a port launcher.cfg leaves disabled is mounted and never reported (M:668). |
| `MCBoot_readonly.cfg` | `MCBoot` | `GameBootsCommitted` | launcher.cfg cannot be opened: the game is spawned with what it held before (LM:253). |
| `MCBoot_comment.cfg` | `MCBoot` | `GameBootsCommitted` | Paths are written as they are, and the readers cut them at the first `#` or `;` (LM:276). |
| `DebugServer_tab.cfg` | `DebugServer` | `TabForces` | The fast_forward command switches off what TAB holds on (M:395-396). |

## 4. Proofs

Theorems hold for every value of the constants. Each proof module has one lemma per
action, that the action preserves the inductive invariant, and theorems that follow
from it. The assumptions are those the modules declare; TLC evaluates them on every
run. A theorem with a hypothesis beyond them names it (`NoPc \notin Query`,
`PathsUncut`, `~ WriteMayFail`; a configuration of section 3 shows what happens without
it), or `TableFits`, which the shipped table satisfies, or `Paces` and `Reaches` (see the
audio queue below).

| Module | Theorem | States |
|---|---|---|
| `TextPcSetProofs` | `Invariance`, `TypeCorrect` | `Spec => []IInv`, `Spec => []TypeOK` |
| | `NeverDuplicated`, `AlwaysReachable` | `Spec => []NoDuplicate`, `Spec => []ProbeChain` |
| | `ReadsItsWrites`, `KnownAreStored` | `Spec => []ReadYourWrites`, `Spec => []KnownStored` |
| | `DropsOnlyWhenFull` | `Spec => []DroppedOnlyWhenFull` |
| | `ImplementsPcSet` | `Spec => RefinesPcSet`, if `NoPc \notin Query` |
| `TextCaptureProofs` | `LogFollowsTable`, `CensusIsFlagged` | `Spec => []LogIsTable`, `Spec => []TallyInv` |
| | `CallsAreAccounted` | `Spec => []CallsAccounted` |
| `TranslationsProofs` | `FlagCoversTable`, `NeverGoesBack` | `Spec => []TableInv`, `Spec => NeverOlder` |
| `TextHookProofs` | `GuardFollowsRender`, `TextOnce` | `Spec => []RenderInv`, `Spec => []DrawnOnce` |
| | `AdvancesComplete`, `MeasuredOnce` | `Spec => []ReadyComplete`, `Spec => MetricsOnce` |
| | `IndexAloneHangs` | `SchedSpec => []OnlyIndexHangs` |
| `TextSwapProofs` | `FormatSurvives`, `ComposesPieces` | `Spec => []SwapInv`, `Spec => []ComposedRight`, if `TableFits` |
| `LauncherCfgProofs` | `PadsNotShared`, `ShakesOwnPad`, `PresenceNeverChanges` | `RoutingInv`, `RumbleIsInput`, `PresenceStable` |
| | `BootRefines` | `BootSpec => LauncherSpec /\ R!Spec` |
| | `BootsWhatWasCommitted`, `ReopensAsCommitted` | `BootSpec => []GameBootsCommitted`, `BootSpec => []SettingsInv`, if `PathsUncut` and `~ WriteMayFail` |
| | `ChosenRomBoots`, `ArgumentLeavesRomCfg` | `BootSpec => []RemembersPick`, `BootSpec => ArgumentNotPersisted` |
| `HostProofs` | `ClearedRests`, `ReadsWhatIsHeld` | `Spec => []OverrideInv`, `Spec => []ReadIsHeld` |
| | `StreamInOrder`, `ChannelsStay` | `QueueSpec => []StreamInv`, `QueueSpec => []ChannelsKept`, if `Paces` |
| | `NothingIsSkipped` | `QueueSpec => []Seamless`, if `Paces` and `Reaches` |
| | `LatencyStaysBounded` | `QueueSpec => []LatencyBounded` |
| `RspProofs` | `ListIsRun`, `PicturesDecoded` | `Spec => []RunsTheList`, `Spec => []PicturesRight` |
| | `FramesRight` | `Spec => []FrameIsRight` |

**TextPcSet.** `ReadYourWrites` is not inductive: a lookup that answers no stopped at
a slot whose load returned 0, and nothing in the property says that the thread must
have seen that slot taken. `IInv` adds what the walk has established: every slot of the
probe sequence already passed has been observed taken by another address (`Walked`),
what was observed is written (`SeenWritten`), and a thread has observed the whole probe
sequence of every address it knows (`KnownSeen`). A relaxed load of an observed slot
cannot return 0, so the lookup of a known address cannot stop early. `ProbeChain`
is preserved by the compare-exchange because `Walked` says all earlier slots are
taken by others.

**TextPcSet implements PcSet.** Two facts are about counting. N probes visit every slot
(`ProbeOnto`), so a call that leaves its loop without an answer has found the whole
table taken by other addresses (`AllVisited`); and a table with an empty slot stores
fewer than N addresses, a full one N, because no two slots agree (`StoredCounted`).
With them each step is one of `PcSet`: the compare-exchange that succeeds is where an
address enters the set, and a lookup may answer no because its thread does not know
the address. `NoPc \notin Query` is needed: a lookup of 0 answers yes (section 3).

**TextCapture.** `LogIsTable` speaks of the moments when nobody holds the mutex. In
between, `Locked` says that the holder of the mutex, and nobody else, is rewriting the
log, so that the table cannot change under a rewrite. `CallDone` and `CallKnown` say
that a PC about to be tallied has been flagged by the same call or found the set full, after
a string was recorded, which is what `TallyInv` needs when that call's own string found no
room. A full set stays full (`WithPcFits`), so what once was dropped for want of a slot
never has to be in it; the seeds may be flagged while the inventory is empty (`Seeding`).
`CallsAccounted` compares a counter with a sum over the table. The sum is stated as the
size of a set, `Counted`: one pair of a string and a number for each call in an entry. A
tally adds one pair (`TallyCounts`), so sums are followed by the library's facts about
finite sets and no recursion is needed. What keeps the equation between the two halves
of a call is `Upserting`, the threads that have counted themselves and not yet recorded
their string.

**Translations.** That no answer is older than an earlier one is a statement about
files: an entry in the file carries the number of the current save, and table, answers
and a load in progress hold one entry a key, of no later save (`Dated`, `LoadDated`);
what a load has read lies behind its place in the file, so that every key it has yet to
read comes from the current save; and a thread's last answer is no newer than the entry
of its key in the table or in a load (`AnswersOlder`). Reading key by key
while the file is rewritten keeps this, because a key is only ever replaced by a later
save's.

**TextHook.** `IInv` is one statement about the frames of each thread (`ThreadOk`): all
but the innermost wait at a call, at most one is a self-render and then the guard
is up, a frame looking for a translation has the guard down, whoever measures holds the
mutex of a slot that is not ready. The depth of nested calls is not bounded in the
proof; three lemmas say how a stack keeps the statement when its top changes,
a frame is pushed, or one returns, and each action only justifies its new frame.

**TextSched.** `IInv` does not say where a thread that holds a mutex is. `HeldOk` does: who
holds `g_strinv_mtx` is recording a string, who holds `g_slotm_mtx` is measuring or is in
the `FUN_80019f70` it called, and in nothing called from there, because the game's leaf
routines call no other. None of these places but the last is one where a thread gives way
(`SwitchHeld`), so under the scheduler a thread that does not run holds no mutex unless `FUN_80019f70` yields
(`SchedInv`).

**TextSwap.** `IInv` is `TypeOK /\ (Regular => InOrder)`. `InOrder` says where the string
that `_Printf` walks is and what is left of it: a Japanese format as it was written
(`AsWritten`), the English of one in its scratch slot below the stack pointer (`Swapped`),
or nothing any more (`Spent`); at each control point the walk is at a boundary between
literal runs and conversions (`Boundary`), and the registers of the writeproc are an
argument or a run that starts there (`Argument`, `Run`). `FormatIntact` alone is not
inductive: that a callee's frame, the swap of a piece or one of a string in r7
(`R7LeavesFormat`) does not reach what is left of the format is arithmetic on
`GapAssumption` and `DepthAssumption` about the slot, the frames and the length of English
texts, and where the format ends in memory. That the writeproc appends the English of a
piece that was swapped, whole and as it was written, is `BytesWritten`. `Regular` is
part of what is claimed, not a hypothesis of the theorems: it only ever turns false during
a call (`RegularBefore`), and typing is proved of every state.

`TableFits` is what the proofs need of the table: an entry has conversions in English only
if its source has, what a conversion produces has none, and English that is a source
itself does not get longer. Without it a second replacement could outgrow the first. All
of the 1256 entries of the shipped `translations.json` satisfy it, with `L%d`; its longest
English text has 142 bytes, for slots of 0x300. TLC checks it of the run's table
(`TableFitsAssumption`). Of the table's strings only the English of `L%d` itself, walked as
a format, is outside `TailsApart`.

**PortRouting.** Each turn of the boot thread's loop counts the pads again, so two turns
do not see the same list. `Dealt` says that, as long as ports still wait, no pad enumerated
behind the place a port's pad was taken from is that pad: others pulled out only move it
to the front, one plugged in at its back does not move it, and one plugged in before it is
what `overtaken` records. A later player takes from further back (`OrdinalGrows`), so it
takes another one, because SDL enumerates a pad once (`Enumerated`); that is `Distinct`.
`RumbleIsInput` and `PresenceStable` rest on `Handed` alone and do not depend on the order.

**Launcher, RomSelection and Boot.** `BootRefines` is the composition: every step of
`Boot` is a step or a stutter of `Launcher` and of `RomSelection`, so both are proved
about alone. `GameBootsCommitted` says what the game makes of a file; the invariant says
what the file is (`FileFollows`): absent with every player as the launcher starts, or what
the launcher writes for `committed`. Two lemmas about the writer finish it: `PlaysWritten`,
that the game's two readers make of a written file what the player's settings say, paks that
were switched off included; and `ReadsBack`, that the launcher's own reader does. Both hold
of a player whose pak and cartridge agree (`Consistent`), which every edit keeps. For
the ROM, `RomInv` says that rom.cfg holds `chosen` in every session until the launcher
or the picker replaces it. `PathsUncut` and `~ WriteMayFail` exclude exactly the two counterexamples
of section 3.

**DebugServer.** The override is four atomics stored one after the other, and the game
reads them one after the other. `Midway` relates them to how far the command being
carried out has come, `ReadSoFar` what the game has read of them to how far it has
come; between commands they are what `held` says (`Resting`).

**CommandList.** `RunsTheList` is about the commands that have run. Why the next one is
the next command of the list depends on the rest of the chunk in DMEM and on two counts
that are kept apart: at each control point, the slots from `r29` on hold as many
commands behind the `r28`-th as `r30` says, and `r27` is what remains of the list
(`WalkInv`). Nothing is assumed of what DMEM held before, nor of the order of tasks.

**JpegTask.** `PicturesRight` looks at RDRAM only; whether the next MCU stored will be
right depends on how far each loop has got in DMEM. `JpegInv` says it for each stage. When
an MCU begins (`BeforeMcu`), those before the last one are pixels in RDRAM and the last one
is pixels in DMEM; from then on (`InMcu`) all before it are stored and it and those behind
it are what the game wrote, with the next one loaded as soon as the blocks have been
reordered. In each loop, the blocks or rows already passed are finished, the one computed
last is in a register and stored by the next iteration, and the one to come has been
loaded; the store of a first iteration lands in front of its buffer, where nothing of the
picture lies (`Dequantising`, `Transforming`, `Converting422`, `Converting420`). A picture
with an MCU never meets the watchdog, which allows more MCUs than a picture has
(`JpegAssumption`); one without is excluded by the property, and of it only the shapes of
the memories are proved (`Shapes`). An audio task may leave anything in DMEM: between tasks
the invariant speaks of RDRAM alone.

**AudioTask.** `FrameIsRight` looks at one moment of a task, and at two values that are
computed differently: 14 kinds of command over buffers and state blocks on one side, a
closed form of position and volume on the other. `FrameInv` joins them, and is a
statement about the rest of the list. For each place in the part of voice v
(`Within`) it says what the commands before it have left: the blocks loaded
(`Loads`), decoded up to the jump (`Decodes`) and behind it (`DecodesAgain`), the
voice's groups in the main buffer (`Plays`), the ramps in the registers; the buses hold
the voices before v and nothing else, voices before v have saved what their next frame
starts from, voices behind v still have what this one starts from (`Others`). Behind
the voices come the two sides, interleaved and saved (`Closing`). Between frames each
voice's three blocks are what its next frame continues (`Done`), which a picture and a
list without the four commands leave alone: `rdram` is not DMEM. DMEM may hold anything
when a frame begins; the proof shows that every word is written before it is read.
Three things carry the proof. `Takes`, from the invariant of the command list, says that a
step executes the first command of the rest, so each command is one lemma (`LoadStep`,
`DecodeStep`, ... `SaveStep`). The arithmetic of the cuts: a division's remainder is carried
from frame to frame (`FedStep`, `ReadAt`), a frame has one jump at most (`OneJump`), and a
ramp clamped at every group is where the closed form says (`LevelStep`). And induction:
the decoder, the ramps and the flattening of a list of lists are recursive, and the
induction theorems cannot be instantiated; a set of naturals has a least member
(`LeastNatural`, from the library's well-foundedness of <), so the least place where two
runs differ, or where one cannot go on, is refuted directly.
TLC has checked `FrameInv` on the states of the run `rsp`.

**AudioQueue.** Nothing can be said of the stream alone: whether the next chunk goes on
where it ends depends on the overlap, which a mute, a short chunk or a failed conversion
leave or replace. `StreamKept` relates the two: the stream is whole frames in order and
has not got beyond the middle of the overlap, behind which the next chunk starts;
`GapsKept` says that what it has not got to is in the second half. What half an overlap
dropped at each end of a resampled chunk leaves, byte by byte, is arithmetic on quotients
(`TrimmedBytes`, `Sources`), proved for every overlap, rate, chunk and size of a sample.
The latency bound needs that 2^k outgrows every length of a chunk (`PowerExceeds`);
as induction is not available, 2^k is taken as the number of subsets of 1..k.

Two conditions on the constants are named. `Paces` says that a queue of which the game
is told to be at most `Low` frames long lasts less than a tenth of a second, so that
such a game is never decimated (`NothingSkipped`); at the game's 32 kHz and a device of
48 kHz it holds for every `Low` below 1600. `Reaches` says that the rounding at the end
of a chunk leaves the last frame that is to be played; with 32 kHz and 48 kHz it holds
for every length of a chunk. It speaks of the nearest-frame resampler of the model,
which plays a frame once at the least because the output is no slower than the input
(`SetupsAssumption`). TLC evaluates both on the run's setups (`PacedAssumption`).
`LatencyStaysBounded` needs neither.

Only model-checked: liveness. Fairness and ENABLED are beyond the prover. Every invariant
the passing runs check is also a theorem, under the conditions named in the table.

## 5. Not modelled

- The arithmetic of the microcodes (ADPCM prediction, the resampler's filter, IDCT,
  colour conversion): tokens stand for it. The label at 0x1670 of the audio microcode
  is in no entry of its table, code behind 3287 is reached from nowhere, and the
  JPEG microcode never yields. `rspboot` and `run_task` are external.
- The recompiled game and the external runtime: the models say how they are used.
- The renderer's context and the overlay registration: a translation of options into
  RT64's and calls that hand over generated tables; they keep no state of their own
  that two operations could disagree about.
- Quitting: `quit` and SDL_QUIT differ in whether the runtime's saving thread is joined,
  but the saving itself is external and its progress cannot be read from this code.
- The rings, `memscan`, `fontdump`, the crash filter and the reports: they read and
  print. A slot of a ring is claimed by an atomic counter and filled without a lock;
  only diagnostic reports read it, and that of the scripts skips an entry whose
  sequence number does not fit.
- The developer-only discovery log (`xlate_discovery`).
- The offline tools, except how `pms_build_translations.py` writes its file.
- JSON, EUC-JP and font arithmetic: data the properties do not tell apart.

## 6. Plan

1. Ring buffers: concurrent push and dump, what a report may show.
2. The launcher's commit with crashes, against an abstract atomic commit.
3. Proofs: the abstract commit of item 2.
