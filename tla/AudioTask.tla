----------------------------- MODULE AudioTask -----------------------------
(***************************************************************************)
(* The commands of the audio microcode (rsp/aspMain.cpp) on the buffers in *)
(* DMEM and the state blocks in RDRAM, and the game that writes a list for *)
(* each frame of audio from the voices that play.                          *)
(*                                                                         *)
(* A sample token <<v, k>> is the k-th block of samples of voice v's wave  *)
(* form; the decoder, the resampler's filter and the mixer are modelled by *)
(* which tokens meet and with which volume, the arithmetic on them is      *)
(* left out.  The state that outlives a command is kept block for block.   *)
(***************************************************************************)
EXTENDS CommandList, SequencesExt

CONSTANTS
    Voice,      \* voices, numbers from 1
    Groups,     \* groups of eight samples in a frame (0x170 bytes: 23)
    Frac,       \* steps of a position or a volume between two integers (2^16)
    Pitch,      \* voice -> step of the resampler, in Frac-ths
    LoopStart,  \* a wave form plays up to LoopEnd, then from LoopStart again
    LoopEnd,
    Envelope    \* envelopes the game starts a voice with

ASSUME VoiceAssumption ==
    /\ IsFiniteSet(Voice) /\ Voice = 1..Cardinality(Voice)
    /\ Groups \in Nat \ {0} /\ Frac \in Nat \ {0} /\ Pitch \in [Voice -> Nat]
ASSUME EnvelopeAssumption ==
    /\ Envelope # {}
    /\ LET Slope == [target : Int, rate : Int]
       IN Envelope \subseteq [startL : Int, startR : Int, L : Slope, R : Slope]
\* The loop is not shorter than a frame, which jumps back once at the most.
ASSUME LoopAssumption ==
    /\ LoopEnd \in Nat /\ LoopStart \in 1..(LoopEnd - 1)
    /\ \A v \in Voice : Groups * Pitch[v] <= Frac * (LoopEnd - LoopStart)
\* SETVOL's two flags tell three cases apart.
ASSUME SetVolAssumption ==
    \A c \in Command : c.op = "setvol" => c.side \in {"left", "right", "start"}

VARIABLES
    area,    \* the sample buffers in DMEM from 0x4F0 on
    reg,     \* DMEM outside them: ADPCM book, loop address, SETVOL's words
    rdram,   \* state blocks per voice, the frame saved last
    song     \* the game: frames played and envelope of each voice, -1 before

audioVars == <<area, reg, rdram, song>>

Silence == <<0, 0>>
Junk == <<0, 1>>
Buses == <<"dryL", "dryR", "wetL", "wetR">>
Silent == [n |-> -1, env |-> CHOOSE e \in Envelope : TRUE]   \* a voice that does not play
Empty == [g \in 1..Groups |-> <<>>]

AudioInit ==
    /\ area = [a \in {"main", "aux", "in", "spare"} \union Range(Buses) |-> Empty]
    /\ reg = [book |-> 0, loop |-> 0, startL |-> 0,
              L |-> [target |-> 0, rate |-> 0], R |-> [target |-> 0, rate |-> 0]]
    /\ rdram = [adpcm |-> [v \in Voice |-> Junk], resample |-> [v \in Voice |-> 0],
                env |-> [v \in Voice |-> 0], out |-> <<>>]
    /\ song = [v \in Voice |-> Silent]

---------------------------------------------------------------------------
(* The commands.  c is the command fetched.                                *)

Command_(op) == Execute /\ Fetched.op = op

ClearBuff ==
    /\ Command_("clearbuff")
    /\ area' = [a \in DOMAIN area |->
                   IF a \in {Buses[b] : b \in Fetched.first..Fetched.last} THEN Empty ELSE area[a]]
    /\ UNCHANGED <<reg, rdram>>

\* A length of zero starts no DMA.
LoadBuff ==
    /\ Command_("loadbuff")
    /\ area' = IF Fetched.n = 0 THEN area
               ELSE [area EXCEPT !["in"] =
                        [i \in 1..Fetched.n |-> <<Fetched.v, Fetched.k + i - 1>>]]
    /\ UNCHANGED <<reg, rdram>>

SaveBuff ==
    /\ Command_("savebuff")
    /\ rdram' = IF Fetched.n = 0 THEN rdram ELSE [rdram EXCEPT !.out = area["main"]]
    /\ UNCHANGED <<area, reg>>

LoadAdpcm ==
    /\ Command_("loadadpcm")
    /\ reg' = [reg EXCEPT !.book = Fetched.v]
    /\ UNCHANGED <<area, rdram>>

SetLoop ==
    /\ Command_("setloop")
    /\ reg' = [reg EXCEPT !.loop = Fetched.v]
    /\ UNCHANGED <<area, rdram>>

\* Flag A_VOL clear: the left target and rate; set without A_LEFT: the
\* right ones; both set: the volume the left side starts from.
SetVol ==
    /\ Command_("setvol")
    /\ reg' = CASE Fetched.side = "left"  -> [reg EXCEPT !.L = Fetched.ramp]
                []  Fetched.side = "right" -> [reg EXCEPT !.R = Fetched.ramp]
                []  Fetched.side = "start" -> [reg EXCEPT !.startL = Fetched.vol]
    /\ UNCHANGED <<area, rdram>>

\* Entry 14 of the table jumps to where SETVOL stores the lower half of the
\* right rate, and does no more.
SetRate ==
    /\ Command_("setrate")
    /\ reg' = [reg EXCEPT !.R.rate = @ - (@ % Frac) + Fetched.low]
    /\ UNCHANGED <<area, rdram>>

DmemMove ==
    /\ Command_("dmemmove")
    /\ area' = [area EXCEPT ![Fetched.to] =
                   SubSeq(@, 1, Fetched.at - 1)
                   \o SubSeq(area[Fetched.from], Fetched.skip + 1, Fetched.skip + Fetched.n)]
    /\ UNCHANGED <<reg, rdram>>

\* A frame decodes from the decoded block before it with the voice's book.
Before(k) == IF k[2] = 0 THEN Silence ELSE <<k[1], k[2] - 1>>
Decode(book, last, k) == IF book = k[1] /\ last = Before(k) THEN k ELSE Junk

\* n blocks decoded one after the other, behind the history.
DecodedBlocks(book, history, blocks, n) ==
    LET block[i \in 0..n] ==
            IF i = 0 THEN history ELSE Decode(book, block[i - 1], blocks[i])
    IN block

\* The block that precedes the first frame: none, the state stored with the
\* loop, or the last block of the voice's previous command.
History ==
    CASE Fetched.flag = "init" -> Silence
      [] Fetched.flag = "loop" -> Before(<<reg.loop, LoopStart>>)
      [] OTHER -> rdram.adpcm[Fetched.v]

\* The history comes first in the output; the last block of the output is
\* saved, which is the history itself when there is nothing to decode.
Adpcm ==
    /\ Command_("adpcm")
    /\ LET block == DecodedBlocks(reg.book, History, area["in"], Fetched.n)
       IN /\ area' = [area EXCEPT ![Fetched.out] = [i \in 1..(Fetched.n + 1) |-> block[i - 1]]]
          /\ rdram' = [rdram EXCEPT !.adpcm[Fetched.v] = block[Fetched.n]]
    /\ UNCHANGED reg

\* Position and last samples of the voice: none, or what the previous command
\* saved.
ResampleState ==
    IF Fetched.init THEN [frac |-> 0, kept |-> Silence] ELSE rdram.resample[Fetched.v]

\* Where group g is read, in Frac-ths of a block from the samples kept.
Position(g) == ResampleState.frac + (g - 1) * Fetched.pitch

\* The samples kept are put in front of the new ones, over the decoder's
\* history; each group is read at the position the step has reached, and the
\* samples at the position behind the last group are saved with the fraction.
Resample ==
    /\ Command_("resample")
    /\ LET source == <<ResampleState.kept>> \o Tail(area["aux"])
           Sample(g) == source[1 + Position(g) \div Frac]
       IN /\ area' = [area EXCEPT !["aux"] = source, !["main"] = [g \in 1..Groups |-> Sample(g)]]
          /\ rdram' = [rdram EXCEPT !.resample[Fetched.v] =
                          [frac |-> Position(Groups + 1) % Frac, kept |-> Sample(Groups + 1)]]
    /\ UNCHANGED reg

\* One group later: the rate is added and the integer part is kept from
\* passing the target, the fraction is left as it is.
Clamp(ramp, vol) == IF ramp.rate >= 0 THEN Min2(vol, ramp.target) ELSE -Min2(-vol, -ramp.target)
Ramp(ramp, vol) ==
    LET next == vol + ramp.rate IN (Clamp(ramp, next \div Frac) * Frac) + (next % Frac)

\* The volumes from vol on, group by group.
Ramped(ramp, vol) ==
    LET level[g \in 0..Groups] == IF g = 0 THEN vol ELSE Ramp(ramp, level[g - 1])
    IN level

\* Mutant: a continued envelope has the ramps of SETVOL.
EnvStateRamps ==
    IF Fetched.init
    THEN [L |-> reg.L, R |-> reg.R, volL |-> reg.startL * Frac, volR |-> Fetched.startR * Frac]
    ELSE [rdram.env[Fetched.v] EXCEPT !.L = reg.L, !.R = reg.R]

\* Without A_INIT the whole state block is loaded, and SETVOL's words lie in
\* it: the envelope goes on with the ramps it began with.
EnvState ==
    IF Fetched.init
    THEN [L |-> reg.L, R |-> reg.R, volL |-> reg.startL * Frac, volR |-> Fetched.startR * Frac]
    ELSE rdram.env[Fetched.v]

EnvMixer ==
    /\ Command_("envmixer")
    /\ LET left  == Ramped(EnvState.L, EnvState.volL)
           right == Ramped(EnvState.R, EnvState.volR)
           Volume(bus, g) == (IF bus \in {"dryL", "wetL"} THEN left[g] ELSE right[g]) \div Frac
       IN /\ area' = [a \in DOMAIN area |->
                         IF a \notin Range(Buses) THEN area[a]
                         ELSE [g \in 1..Groups |->
                                  Append(area[a][g], <<a, area["main"][g], Volume(a, g)>>)]]
          /\ rdram' = [rdram EXCEPT !.env[Fetched.v] =
                          [EnvState EXCEPT !.volL = left[Groups], !.volR = right[Groups]]]
          /\ reg' = [reg EXCEPT !.L = EnvState.L, !.R = EnvState.R]

Mixer ==
    /\ Command_("mixer")
    /\ area' = [area EXCEPT ![Fetched.to] =
                   [g \in 1..Groups |-> @[g] \o area[Fetched.from][g]]]
    /\ UNCHANGED <<reg, rdram>>

InterleaveBuff ==
    /\ Command_("interleave")
    /\ area' = [area EXCEPT !["main"] =
                   [g \in 1..Groups |-> <<area["dryL"][g], area["dryR"][g]>>]]
    /\ UNCHANGED <<reg, rdram>>

SpNoop ==
    /\ Command_("spnoop")
    /\ UNCHANGED <<area, reg, rdram>>

AudioCommand ==
    \/ ClearBuff \/ LoadBuff \/ SaveBuff \/ LoadAdpcm \/ SetLoop \/ SetVol \/ SetRate \/ DmemMove
    \/ Adpcm \/ Resample \/ EnvMixer \/ Mixer \/ InterleaveBuff \/ SpNoop

ListStep ==
    /\ Refill \/ RefillNegative \/ Unhandled \/ NextCommand
    /\ UNCHANGED <<area, reg, rdram>>

---------------------------------------------------------------------------
(* The game.  It writes one list for a frame; voice v consumes Pitch[v]    *)
(* Frac-ths of a block for each group.                                     *)

Fed(v, n) == (n * Groups * Pitch[v]) \div Frac    \* blocks decoded before frame n
Wave(q) == IF q < LoopEnd THEN q ELSE LoopStart + ((q - LoopEnd) % (LoopEnd - LoopStart))
JumpsBack(q) == q >= LoopEnd /\ Wave(q) = LoopStart

Decoding(v, q, n, flag, out) ==
    << [op |-> "loadbuff", v |-> v, k |-> Wave(q), n |-> n],
       [op |-> "adpcm", v |-> v, n |-> n, flag |-> flag, out |-> out] >>

\* A wave form that jumps back within the frame is decoded in two parts, and
\* the second one moved behind the first.
Decodings(v, n) ==
    LET from == Fed(v, n)
        to   == Fed(v, n + 1)
        jump == {q \in from..(to - 1) : JumpsBack(q)}
        cut  == IF jump = {} THEN to ELSE CHOOSE q \in jump : TRUE
        flag == IF n = 0 THEN "init" ELSE "none"
    IN <<[op |-> "loadadpcm", v |-> v]>> \o Decoding(v, from, cut - from, flag, "aux")
       \o IF jump = {} THEN <<>>
          ELSE <<[op |-> "setloop", v |-> v]>> \o Decoding(v, cut, to - cut, "loop", "spare")
               \o <<[op |-> "dmemmove", from |-> "spare", skip |-> 1, n |-> to - cut,
                     to |-> "aux", at |-> cut - from + 2]>>

Mixing(v, n, env) ==
    <<[op |-> "resample", v |-> v, init |-> n = 0, pitch |-> Pitch[v]]>>
    \o (IF n > 0 THEN <<>>
        ELSE << [op |-> "setvol", side |-> "left", ramp |-> env.L],
                [op |-> "setvol", side |-> "right", ramp |-> env.R],
                [op |-> "setvol", side |-> "start", vol |-> env.startL] >>)
    \o <<[op |-> "envmixer", v |-> v, init |-> n = 0, startR |-> env.startR]>>

VoiceList(s, v) ==
    IF s[v].n < 0 THEN <<>> ELSE Decodings(v, s[v].n) \o Mixing(v, s[v].n, s[v].env)

FrameList(s) ==
    <<[op |-> "clearbuff", first |-> 1, last |-> 4]>>
    \o FlattenSeq([v \in Voice |-> VoiceList(s, v)])
    \o << [op |-> "mixer", from |-> "wetL", to |-> "dryL"],
          [op |-> "mixer", from |-> "wetR", to |-> "dryR"],
          [op |-> "interleave"], [op |-> "savebuff", n |-> Groups] >>

\* The voices as the next frame finds them.  A game whose last task has not
\* run its list starts its voices anew.
Playing == IF ran = list THEN song ELSE [v \in Voice |-> Silent]

\* A frame in which the voices of on play: those that did not play before
\* start at the beginning of their wave form.
FrameTask(on, env, dpWait) ==
    /\ song' = [v \in Voice |->
                   CASE v \notin on -> Silent
                     [] v \in on /\ Playing[v].n < 0 -> [n |-> 0, env |-> env]
                     [] OTHER -> [Playing[v] EXCEPT !.n = @ + 1]]
    /\ BeginList(FrameList(song'), dpWait)
    /\ UNCHANGED <<area, reg, rdram>>

\* Another list.
OddTask(l, dpWait) ==
    /\ song' = Playing
    /\ BeginList(l, dpWait)
    /\ UNCHANGED <<area, reg, rdram>>

---------------------------------------------------------------------------
(* What a frame is, whatever it was cut into.                              *)

\* The token at a group of a voice's frame n: the position in the wave form,
\* one token behind because the first one kept is silence.
Heard(v, n, g) ==
    LET q == ((n * Groups + g - 1) * Pitch[v]) \div Frac
    IN IF q = 0 THEN Silence ELSE <<v, Wave(q - 1)>>

\* The volume in the m-th group since the voice started, in closed form.
VolumeAt(start, ramp, m) == Clamp(ramp, (start * Frac + m * ramp.rate) \div Frac)

\* What voice v adds to a bus, if it plays.
Mixed(s, v, bus, g) ==
    LET env  == s[v].env
        m    == s[v].n * Groups + g
        gain == IF bus \in {"dryL", "wetL"} THEN VolumeAt(env.startL, env.L, m)
                ELSE VolumeAt(env.startR, env.R, m)
    IN IF s[v].n < 0 THEN <<>> ELSE << <<bus, Heard(v, s[v].n, g), gain>> >>

OnBus(s, bus, g) == FlattenSeq([v \in Voice |-> Mixed(s, v, bus, g)])

Frame(s) ==
    [g \in 1..Groups |-> << OnBus(s, "dryL", g) \o OnBus(s, "wetL", g),
                           OnBus(s, "dryR", g) \o OnBus(s, "wetR", g) >>]

\* The frame a task saves has, group by group and side by side, every voice
\* that plays once, at its position in its own wave form and with the volume
\* its envelope has after so many groups, as though each voice were decoded,
\* resampled and mixed in one piece: decoder history, loop state, resampler
\* position and ramps carry over from command to command and from task to
\* task, and nothing of another voice or frame gets in
\* (aspMain.cpp:664-3286).
FrameIsRight ==
    (at = "idle" /\ exit = "Broke" /\ ran = list /\ list # <<>> /\ list = FrameList(song))
        => rdram.out = Frame(song)
=============================================================================
