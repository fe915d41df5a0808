------------------------------ MODULE JpegTask ------------------------------
(***************************************************************************)
(* The JPEG microcode (rsp/njpgdspMain.cpp): it decodes the MCUs of a      *)
(* picture in place, one MCU ahead of itself.  While an MCU is decoded the *)
(* next one is loaded over its coefficients; while the next one is decoded *)
(* the pixels of the last are written over the memory it was read from.    *)
(* Inside an MCU every loop is a pipeline too: it stores the result of the *)
(* iteration before, so that each first store lands in front of its buffer *)
(* and the last one comes after the loop.                                  *)
(*                                                                         *)
(* Addresses: mem is DMEM in blocks of 0x80 bytes from 0x60 on (3 is       *)
(* 0x1E0, 9 is 0x4E0, 17 is 0x8E0); pixel rows lie from 0xC20 on, row 0 at *)
(* 0xC60.  RDRAM is numbered by MCU.  A block is <<task, mcu, index, what  *)
(* was done to it>>, a row of pixels the blocks and rows it was made from. *)
(***************************************************************************)
EXTENDS Integers, Sequences

CONSTANTS
    MaxMcus,        \* MCUs of a picture
    WatchdogLimit   \* MCUs after which the watchdog stops the microcode

ASSUME JpegAssumption == MaxMcus \in Nat \ {0} /\ WatchdogLimit \in Nat /\ WatchdogLimit > MaxMcus

VARIABLES
    stage,    \* what the microcode does next, "idle" between tasks
    mem,      \* DMEM, blocks
    pix,      \* DMEM, rows of pixels
    dram,     \* MCU -> its coefficients or the rows written over them
    head,     \* the task: its number, MCUs, kind (r9: 0 is 4:2:2, 2 is 4:2:0)
    count,    \* r2 and r3: MCUs in the task, MCUs left
    input,    \* r25: MCU to load next
    output,   \* r26: MCU to write next
    loop,     \* r4 and r20 (from, table), r5, r7, r8 and the vectors of a loop
    jpegExit  \* as exit of the audio microcode

jpegVars == <<stage, mem, pix, dram, head, count, input, output, loop, jpegExit>>

Garbage == <<0, 0, 0, <<>>>>
GarbageRow == [c \in 1..4 |-> <<Garbage, 0>>]

Blocks(kind) == kind + 4          \* 2 luma and 2 chroma, or 4 and 2
Rows(kind) == IF kind = 0 THEN 8 ELSE 16

Coefficients(task, m, kind) == [b \in 1..Blocks(kind) |-> <<task, m, b, <<>>>>]

JpegInit ==
    /\ stage = "idle" /\ jpegExit = "Broke"
    /\ mem = [a \in 0..30 |-> Garbage] /\ pix = [r \in -2..15 |-> GarbageRow]
    /\ dram = [m \in -1..(WatchdogLimit + 1) |-> <<>>]
    /\ head = [task |-> 0, mcus |-> 0, kind |-> 0]
    /\ count = [all |-> 0, left |-> 0] /\ input = 0 /\ output = 0
    /\ loop = [from |-> 0, to |-> 0, table |-> 0, outer |-> 0, inner |-> 0,
               next |-> Garbage, result |-> Garbage]

\* DMA of an MCU to 0x1E0: as many blocks as the kind has.
LoadMcu(m) == [a \in 0..30 |-> IF a - 2 \in DOMAIN dram[m] THEN dram[m][a - 2] ELSE mem[a]]

\* DMA of the pixel rows from 0xC60 on.
StorePixels == [dram EXCEPT ![output] = [r \in 1..Rows(head.kind) |-> pix[r - 1]]]

\* The tables the task's structure points to, for Y, U and V; the structure is
\* read to where the first MCU will be.
TablesLoaded(task) ==
    [mem EXCEPT ![0] = <<task, 0, 0, <<"Y">>>>, ![1] = <<task, 0, 0, <<"U">>>>,
                ![2] = <<task, 0, 0, <<"V">>>>]

\* The pointer to the output is set one MCU back.  No task has been yielded:
\* SP_STATUS reads as zero, so that none ever yields.
BeginJpeg(mcus, kind) ==
    LET task == head.task + 1 IN
    /\ stage = "idle" /\ jpegExit = "Broke"
    /\ head' = [task |-> task, mcus |-> mcus, kind |-> kind]
    /\ dram' = [m \in DOMAIN dram |-> IF m \in 0..(mcus - 1) THEN Coefficients(task, m, kind) ELSE <<>>]
    /\ mem' = TablesLoaded(task)
    /\ count' = [all |-> mcus, left |-> mcus]
    /\ input' = 0 /\ output' = -1
    /\ jpegExit' = "none"
    /\ stage' = "first"
    /\ UNCHANGED <<pix, loop>>

FirstMcu ==
    /\ stage = "first"
    /\ mem' = LoadMcu(input)
    /\ input' = input + 1
    /\ stage' = "mcu"
    /\ UNCHANGED <<pix, dram, head, count, output, loop, jpegExit>>

\* An MCU begins.  The pixels of the one before are written, if there is one;
\* the registers of the first loop are set up.  A picture without MCUs never
\* counts down to zero, and the watchdog ends the task.
BeginMcu ==
    /\ stage = "mcu" /\ count.all - count.left <= WatchdogLimit
    /\ dram' = IF count.all = count.left THEN dram ELSE StorePixels
    /\ count' = [count EXCEPT !.left = @ - 1]
    /\ loop' = [loop EXCEPT !.from = 4, !.to = 9, !.table = 0, !.outer = 3,
                            !.inner = head.kind + 2, !.next = mem[3]]
    /\ stage' = "dequantise"
    /\ UNCHANGED <<mem, pix, head, input, output, jpegExit>>

\* Mutant: the transitions are counted anew for every MCU.
WatchdogPerMcu ==
    /\ stage = "mcu" /\ 0 > WatchdogLimit
    /\ jpegExit' = "Watchdog" /\ stage' = "idle"
    /\ UNCHANGED <<mem, pix, dram, head, count, input, output, loop>>

Watchdog ==
    /\ stage = "mcu" /\ count.all - count.left > WatchdogLimit
    /\ jpegExit' = "Watchdog" /\ stage' = "idle"
    /\ UNCHANGED <<mem, pix, dram, head, count, input, output, loop>>

Apply(block, what) == [block EXCEPT ![4] = @ \o what]

\* One iteration: the last result is stored, the block loaded is multiplied by
\* the table, the next one is loaded.  The first table serves all the luma
\* blocks, the other two one block each.
Dequantise ==
    LET last == loop.inner = 1
        result == Apply(loop.next, mem[loop.table][4])
    IN
    /\ stage = "dequantise"
    /\ loop' = [loop EXCEPT !.from = @ + 1, !.to = @ + 1, !.next = mem[loop.from],
                            !.result = result,
                            !.inner = IF last THEN 1 ELSE @ - 1,
                            !.table = IF last THEN @ + 1 ELSE @,
                            !.outer = IF last THEN @ - 1 ELSE @]
    /\ IF last /\ loop.outer = 1
       THEN /\ mem' = [mem EXCEPT ![loop.to] = loop.result, ![loop.to + 1] = result]
            /\ stage' = "zigzag"
       ELSE /\ mem' = [mem EXCEPT ![loop.to] = loop.result]
            /\ UNCHANGED stage
    /\ UNCHANGED <<pix, dram, head, count, input, output, jpegExit>>

\* The blocks from 10 on are reordered to 17 on; then the next MCU is loaded
\* over the coefficients, if there is one.
Zigzag ==
    /\ stage = "zigzag"
    /\ mem' = [a \in 0..30 |->
                  IF a - 16 \in 1..Blocks(head.kind) THEN Apply(mem[a - 7], <<"zz">>)
                  ELSE mem[a]]
    /\ output' = output + 1
    /\ stage' = "prefetch"
    /\ UNCHANGED <<pix, dram, head, count, input, loop, jpegExit>>

Prefetch ==
    /\ stage = "prefetch"
    /\ mem' = IF count.left = 0 THEN mem ELSE LoadMcu(input)
    /\ loop' = [loop EXCEPT !.from = 18, !.to = 9, !.outer = Blocks(head.kind), !.next = mem[17]]
    /\ stage' = "idct"
    /\ UNCHANGED <<pix, dram, head, count, input, output, jpegExit>>

\* Columns, then through the scratch rows at 0xF60, rows.
Transform(block) == Apply(block, <<"pixels">>)

\* The same pipeline: the transform of the last block is stored while this one
\* is transformed and the next one loaded.
Idct ==
    LET result == Transform(loop.next) IN
    /\ stage = "idct"
    /\ loop' = [loop EXCEPT !.from = @ + 1, !.to = @ + 1, !.next = mem[loop.from],
                            !.result = result, !.outer = @ - 1]
    /\ IF loop.outer = 1
       THEN /\ mem' = [mem EXCEPT ![30] = Garbage, ![loop.to] = loop.result, ![loop.to + 1] = result]
            /\ stage' = "colour"
       ELSE /\ mem' = [mem EXCEPT ![30] = Garbage, ![loop.to] = loop.result]
            /\ UNCHANGED stage
    /\ UNCHANGED <<pix, dram, head, count, input, output, jpegExit>>

---------------------------------------------------------------------------
(* The conversion to pixels.  loop.from and loop.table count rows of eight *)
(* values from 0x560 on, luma and chroma, loop.to rows of pixels.          *)

RowAt(a) == <<mem[10 + a \div 8], a % 8>>
PixelRow(luma, chroma) == <<RowAt(luma), RowAt(luma + 8), RowAt(chroma), RowAt(chroma + 8)>>

\* The rows converted last are stored from row to on.
Stored(rows, to) == [r \in DOMAIN pix |-> IF r - to + 1 \in DOMAIN rows THEN rows[r - to + 1] ELSE pix[r]]

Begin422 ==
    /\ stage = "colour" /\ head.kind = 0
    /\ loop' = [loop EXCEPT !.from = 1, !.table = 17, !.to = -1, !.inner = 8,
                            !.next = <<PixelRow(0, 16)>>, !.result = <<GarbageRow>>]
    /\ stage' = "422"
    /\ UNCHANGED <<mem, pix, dram, head, count, input, output, jpegExit>>

\* Two luma blocks side by side, and two of chroma of half the width.
Colour422 ==
    LET last == loop.inner = 1 IN
    /\ stage = "422"
    /\ loop' = [loop EXCEPT !.from = @ + 1, !.table = @ + 1, !.to = @ + 1, !.inner = @ - 1,
                            !.next = <<PixelRow(loop.from, loop.table)>>, !.result = loop.next]
    /\ pix' = Stored(IF last THEN loop.result \o loop.next ELSE loop.result, loop.to)
    /\ stage' = IF last THEN "end" ELSE stage
    /\ UNCHANGED <<mem, dram, head, count, input, output, jpegExit>>

\* Mutant: the upper blocks take four iterations, as many as they have pairs.
Begin420Four ==
    /\ stage = "colour" /\ head.kind > 0
    /\ loop' = [loop EXCEPT !.from = 2, !.table = 33, !.to = -2, !.outer = 2, !.inner = 4,
                            !.next = <<PixelRow(0, 32), PixelRow(1, 32)>>,
                            !.result = <<GarbageRow, GarbageRow>>]
    /\ stage' = "420"
    /\ UNCHANGED <<mem, pix, dram, head, count, input, output, jpegExit>>

Begin420 ==
    /\ stage = "colour" /\ head.kind > 0
    /\ loop' = [loop EXCEPT !.from = 2, !.table = 33, !.to = -2, !.outer = 2, !.inner = 3,
                            !.next = <<PixelRow(0, 32), PixelRow(1, 32)>>,
                            !.result = <<GarbageRow, GarbageRow>>]
    /\ stage' = "420"
    /\ UNCHANGED <<mem, pix, dram, head, count, input, output, jpegExit>>

\* Four luma blocks, two on two, and two of chroma of half the size: two rows
\* of pixels for a row of chroma.  The upper blocks are left after three
\* iterations, one row pair is loaded ahead; the lower take five.
Colour420 ==
    LET half == loop.inner = 1
        last == half /\ loop.outer = 1
    IN
    /\ stage = "420"
    /\ loop' = [loop EXCEPT !.from = IF half THEN @ + 10 ELSE @ + 2, !.table = @ + 1, !.to = @ + 2,
                            !.inner = IF half THEN 5 ELSE @ - 1,
                            !.outer = IF half THEN @ - 1 ELSE @,
                            !.next = << PixelRow(loop.from, loop.table),
                                        PixelRow(loop.from + 1, loop.table) >>,
                            !.result = loop.next]
    /\ pix' = Stored(IF last THEN loop.result \o loop.next ELSE loop.result, loop.to)
    /\ stage' = IF last THEN "end" ELSE stage
    /\ UNCHANGED <<mem, dram, head, count, input, output, jpegExit>>

\* The MCU is done, and the next one has been loaded.
NextMcu ==
    /\ stage = "end" /\ count.left # 0
    /\ input' = input + 1
    /\ stage' = "mcu"
    /\ UNCHANGED <<mem, pix, dram, head, count, output, loop, jpegExit>>

\* The last pixels are written and the task ends.
LastMcu ==
    /\ stage = "end" /\ count.left = 0
    /\ dram' = StorePixels
    /\ stage' = "idle" /\ jpegExit' = "Broke"
    /\ UNCHANGED <<mem, pix, head, count, input, output, loop>>

JpegStep ==
    \/ FirstMcu \/ BeginMcu \/ Watchdog \/ Dequantise \/ Zigzag \/ Prefetch \/ Idct
    \/ Begin422 \/ Colour422 \/ Begin420 \/ Colour420 \/ NextMcu \/ LastMcu

---------------------------------------------------------------------------
(* What a picture is.                                                      *)

JpegTypeOK ==
    /\ stage \in {"idle", "first", "mcu", "dequantise", "zigzag", "prefetch", "idct", "colour",
                  "422", "420", "end"}
    /\ jpegExit \in {"none", "Broke", "Watchdog"}
    /\ head.mcus \in 0..MaxMcus /\ head.kind \in {0, 2}

Component(kind, b) == CASE b = Blocks(kind) -> "V" [] b = Blocks(kind) - 1 -> "U" [] OTHER -> "Y"

\* A block of the picture with its own table, reordered and transformed.
Decoded(m, b) == <<head.task, m, b, <<Component(head.kind, b), "zz", "pixels">>>>

\* Row r of MCU m: the two luma blocks beside each other at that height and
\* the chroma of the row, or of the pair of rows.
PictureRow(m, r) ==
    LET first == 1 + 2 * (r \div 8)
        row   == IF head.kind = 0 THEN r ELSE r \div 2
        u     == Blocks(head.kind) - 1
    IN << <<Decoded(m, first), r % 8>>, <<Decoded(m, first + 1), r % 8>>,
          <<Decoded(m, u), row>>, <<Decoded(m, u + 1), row>> >>

Picture(m) == [r \in 1..Rows(head.kind) |-> PictureRow(m, r - 1)]

\* Whatever the order of loads, stores and pipelined loops: an MCU in memory
\* is what the game wrote or its finished pixels, each row made from its own
\* blocks with their own tables and from no other MCU, task or leftover of
\* DMEM, no memory beside the picture is written, and when the task ends all
\* MCUs are pixels (njpgdspMain.cpp:460-1765).
PicturesRight ==
    /\ JpegTypeOK
    /\ head.mcus > 0 =>
          /\ stage = "idle" => jpegExit = "Broke"
          /\ \A m \in DOMAIN dram :
                IF m \in 0..(head.mcus - 1)
                THEN \/ dram[m] = Picture(m)
                     \/ stage # "idle" /\ dram[m] = Coefficients(head.task, m, head.kind)
                ELSE dram[m] = <<>>
=============================================================================
