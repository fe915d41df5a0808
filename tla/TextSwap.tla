------------------------------ MODULE TextSwap ------------------------------
(***************************************************************************)
(* English in the place of Japanese inside one formatted string            *)
(* (src/main/diagnostics.cpp).  The game's _Printf (kPrintfPC) walks its   *)
(* format and hands every run of literal text and every converted argument *)
(* to a writeproc (kDescDrawPC), which appends r6 bytes from r5 to the     *)
(* result.  The translation hook runs before each of them: xlate_general   *)
(* may repoint _Printf's format, xlate_desc the writeproc's source, at     *)
(* English written to scratch space below the guest stack pointer.         *)
(* xlate_desc tries r7 and r4 first.  In a call from _Printf they are      *)
(* whatever was left in r7 and the place where the result is written, so   *)
(* what it finds there is no part of this composition.                     *)
(*                                                                         *)
(* A string is a sequence of characters without the final Nul; Pct stands  *)
(* for a conversion (%s).  _Printf and the writeproc are guest code,       *)
(* modelled as the comments of xlate_desc describe them.  Guest memory is  *)
(* the stack; source strings are constant data elsewhere, so a pointer is  *)
(* a stack address or the rest of such a string.                           *)
(***************************************************************************)
EXTENDS Integers, Sequences

CONSTANTS
  Key,        \* source strings with an entry in the translation table
  Tables,     \* the sets of entries g_xlate may hold
  En,         \* En[k]: their English
  Fmt,        \* formats _Printf is called with
  Arg,        \* strings its conversions produce
  Other,      \* strings r7 and r4 may point at when the writeproc is entered
  Char,       \* the characters of strings
  Pct,        \* a conversion in a format
  Nul,        \* the character that ends a string
  Junk,       \* what a routine leaves in its stack frame
  FmtOff,     \* 0x800: a template goes this far below sp
  ArgOff,     \* 0xC00: and a literal this far
  Cap,        \* 0x300: the longest English that is swapped in
  Align,      \* 8
  Top,        \* the highest stack address
  Stale,      \* what the game's routines may have left on the stack
  Sp,         \* stack pointers _Printf is called with
  Depth,      \* bytes below its sp that _Printf and its callees use
  Frame       \* distances from _Printf's sp to the writeproc's

\* The gap between the two slots holds the longest literal and its Nul, the
\* alignment taken into account; the stack in use stays above the upper slot.
ASSUME GapAssumption == Align \in Nat \ {0} /\ Cap \in Nat /\ Cap + Align <= ArgOff - FmtOff
ASSUME DepthAssumption == Depth \in Nat /\ Depth + Cap + Align <= FmtOff
ASSUME TablesAssumption == Tables \subseteq SUBSET Key
ASSUME SpAssumption == Top \in Nat /\ Sp \subseteq 0 .. Top /\ Frame \subseteq 1 .. Depth
ASSUME StaleAssumption == Stale \subseteq [0 .. Top -> Char \union {Pct, Nul, Junk}]
ASSUME OffsetAssumption == FmtOff \in Nat /\ ArgOff \in Nat

\* Strings hold no Nul.
ASSUME StringAssumption ==
  /\ Nul \notin Char \union {Pct}
  /\ Fmt \union Arg \union Other \subseteq Seq(Char \union {Pct})
  /\ En \in [Key -> Seq(Char \union {Pct})]

VARIABLES
  mem,        \* guest stack memory
  loaded,     \* the entries of Key in g_xlate
  pc,         \* "game", "walk" (in _Printf) or "piece" (entering the writeproc)
  sp,         \* _Printf's stack pointer
  fmt,        \* pointer to its format
  pos,        \* what it has consumed of the format
  src,        \* r5 of the writeproc
  count,      \* r6 of the writeproc
  dst,        \* r4 of the writeproc: the end of the result
  out,        \* the result
  steady,     \* history: the table is what it was when _Printf was entered
  stray,      \* history: a swap of r4 moved the end of the result elsewhere, or one
              \* of r7 may have taken the place of the format
  shown,      \* history: the format, as the hook chose it
  piece,      \* history: what the writeproc was meant to append
  want        \* history: what it was meant to have written

vars == <<mem, loaded, pc, sp, fmt, pos, src, count, dst, out, steady, stray, shown, piece,
          want>>

Rest(s, n) == SubSeq(s, n + 1, Len(s))

\* The C string at address a.
StrAt(a) ==
  LET ends == {e \in a .. Top : mem[e] = Nul}
      end == IF ends = {} THEN Top + 1 ELSE CHOOSE e \in ends : \A d \in ends : e <= d
  IN [n \in 1 .. end - a |-> mem[a + n - 1]]

Data(s) == [at |-> "data", str |-> s]
Stack(a) == [at |-> "stack", addr |-> a]
Result == Data(<< >>)      \* the end of the game's own buffer
Str(p) == IF p.at = "data" THEN p.str ELSE StrAt(p.addr)
Plus(p, n) == IF p.at = "data" THEN Data(Rest(p.str, n)) ELSE Stack(p.addr + n)

\* The n bytes a copy from p reads in memory m: past the end of a string in
\* data lies its Nul.
Bytes(m, p, n) ==
  [k \in 1 .. n |->
     IF p.at = "stack" THEN (IF p.addr + k - 1 <= Top THEN m[p.addr + k - 1] ELSE Junk)
     ELSE IF k <= Len(p.str) THEN p.str[k] ELSE Nul]

IsTemplate(s) == \E k \in 1 .. Len(s) : s[k] = Pct

\* Mutant: one slot for both.
OneSlot(s, isFmt) == LET a == s - FmtOff IN a - (a % Align)

\* swap_scratch
SwapScratch(s, isFmt) ==
  LET a == s - (IF isFmt THEN FmtOff ELSE ArgOff) IN a - (a % Align)

\* write_guest_str
Write(m, a, s) ==
  [x \in 0 .. Top |-> IF x \in a .. a + Len(s) - 1 THEN s[x - a + 1]
                      ELSE IF x = a + Len(s) THEN Nul ELSE m[x]]

\* Bytes b at address a.
Copy(m, a, b) == [x \in 0 .. Top |-> IF x \in a .. a + Len(b) - 1 THEN b[x - a + 1] ELSE m[x]]

\* The frames of a routine called at s and of its callees.
Clobber(m, s) == [x \in 0 .. Top |-> IF x \in s - Depth .. s - 1 THEN Junk ELSE m[x]]

\* The hook swaps string s at stack pointer p: it is in the table, there is
\* stack headroom (sp >= 0x80000C00) and the English is not too long.
Swaps(s, p) == s \in loaded /\ p >= ArgOff /\ Len(En[s]) <= Cap

Slot(s, p) == SwapScratch(p, IsTemplate(En[s]))

Init ==
  /\ mem \in Stale
  /\ loaded \in Tables
  /\ pc = "game" /\ sp = 0 /\ fmt = Data(<< >>) /\ pos = 0
  /\ src = Data(<< >>) /\ count = 0 /\ dst = Result /\ out = << >>
  /\ steady = TRUE /\ stray = FALSE /\ shown = << >> /\ piece = << >> /\ want = << >>

\* _Printf is entered: xlate_general swaps its format or leaves it alone, and
\* the routine sets up its frame.
Printf ==
  /\ pc = "game"
  /\ \E f \in Fmt, s \in Sp :
       /\ sp' = s
       /\ \/ /\ Swaps(f, s)
             /\ fmt' = Stack(Slot(f, s))
             /\ shown' = En[f]
             /\ mem' = Clobber(Write(mem, Slot(f, s), En[f]), s)
          \/ /\ ~ Swaps(f, s)
             /\ fmt' = Data(f)
             /\ shown' = f
             /\ mem' = Clobber(mem, s)
  /\ pc' = "walk" /\ pos' = 0 /\ out' = << >> /\ want' = << >> /\ piece' = << >>
  /\ dst' = Result /\ steady' = TRUE /\ stray' = FALSE
  /\ UNCHANGED <<loaded, src, count>>

\* A conversion: its result goes to the writeproc.
Convert ==
  /\ pc = "walk"
  /\ LET rest == Rest(Str(fmt), pos) IN rest # << >> /\ rest[1] = Pct
  /\ \E a \in Arg : src' = Data(a) /\ count' = Len(a) /\ piece' = a
  /\ pos' = pos + 1
  /\ pc' = "piece"
  /\ UNCHANGED <<mem, loaded, sp, fmt, dst, out, steady, stray, shown, want>>

\* A run of literal text, up to the next conversion or the end of the format.
Literal ==
  LET rest == Rest(Str(fmt), pos) IN
  /\ pc = "walk"
  /\ \E n \in 1 .. Len(rest) :
       /\ \A k \in 1 .. n : rest[k] # Pct
       /\ n < Len(rest) => rest[n + 1] = Pct
       /\ src' = Plus(fmt, pos) /\ count' = n /\ pos' = pos + n
       /\ piece' = IF pos + n <= Len(shown) THEN SubSeq(shown, pos + 1, pos + n) ELSE << >>
  /\ pc' = "piece"
  /\ UNCHANGED <<mem, loaded, sp, fmt, dst, out, steady, stray, shown, want>>

\* The routine itself: append n bytes from p, memory being m, at the end e of the
\* result, and return the new end.
AppendTo(e, m, p, n) ==
  /\ src' = p /\ count' = n
  /\ \/ /\ e.at = "data"
        /\ mem' = m /\ out' = out \o Bytes(m, p, n) /\ dst' = e
     \/ /\ e.at = "stack"
        /\ mem' = Copy(m, e.addr, Bytes(m, p, n)) /\ dst' = Plus(e, n)
        /\ UNCHANGED out

\* Memory with the English of s in its slot.
WithEnglish(s, p) == Write(mem, Slot(s, p), En[s])

\* The format lies where a swap of string s does not reach it.
Apart(s) == fmt.at = "data" \/ (IsTemplate(shown) /\ ~ IsTemplate(En[s]))

\* r7 holds a string of the table: it is swapped, and the piece is left alone.
SwapR7(p, s) ==
  /\ Swaps(s, p)
  /\ AppendTo(dst, WithEnglish(s, p), src, count)
  /\ want' = want \o piece
  /\ stray' = (stray \/ ~ Apart(s))

\* The result ends in a string of the table: r4 is swapped.
SwapR4(p, s) ==
  /\ Swaps(s, p)
  /\ AppendTo(Stack(Slot(s, p)), WithEnglish(s, p), src, count)
  /\ want' = want \o piece
  /\ stray' = TRUE

\* Mutant: r6 keeps the count of the Japanese.
SwapR5StaleCount(p, s) ==
  /\ Swaps(s, p)
  /\ AppendTo(dst, WithEnglish(s, p), Stack(Slot(s, p)), count)
  /\ want' = want \o (IF piece \in Key THEN En[piece] ELSE piece)
  /\ UNCHANGED stray

\* The whole string at r5, however much of it r6 asks for, is in the table: it is
\* swapped, and r6 re-synced to the English.
SwapR5(p, s) ==
  /\ Swaps(s, p)
  /\ AppendTo(dst, WithEnglish(s, p), Stack(Slot(s, p)), Len(En[s]))
  /\ want' = want \o (IF piece \in Key THEN En[piece] ELSE piece)
  /\ UNCHANGED stray

NoSwap ==
  /\ AppendTo(dst, mem, src, count)
  /\ want' = want \o piece
  /\ UNCHANGED stray

\* The writeproc is entered at some distance below: xlate_desc tries r7, r4 and
\* r5, and stops at the first string of the table.
WriteProc ==
  /\ pc = "piece"
  /\ \E d \in Frame, r7 \in Other, end \in Other :
       LET r4 == IF dst.at = "data" THEN end ELSE StrAt(dst.addr)
           r5 == Str(src)
           p == sp - d
       IN \/ SwapR7(p, r7)
          \/ ~ Swaps(r7, p) /\ SwapR4(p, r4)
          \/ ~ Swaps(r7, p) /\ ~ Swaps(r4, p) /\ SwapR5(p, r5)
          \/ ~ Swaps(r7, p) /\ ~ Swaps(r4, p) /\ ~ Swaps(r5, p) /\ NoSwap
  /\ pc' = "walk"
  /\ UNCHANGED <<loaded, sp, fmt, pos, steady, shown, piece>>

\* The end of the format; the registers and the dead stack are anyone's again.
Return ==
  /\ pc = "walk"
  /\ Rest(Str(fmt), pos) = << >>
  /\ pc' = "game"
  /\ fmt' = Data(<< >>) /\ pos' = 0 /\ src' = Data(<< >>) /\ count' = 0
  /\ dst' = Result /\ out' = << >> /\ shown' = << >> /\ piece' = << >> /\ want' = << >>
  /\ sp' = 0 /\ stray' = FALSE
  /\ mem' \in Stale
  /\ UNCHANGED <<loaded, steady>>

\* The table is reloaded, by this thread's hook or by another's: between two
\* calls as well as between the hook of a format and the hook of its pieces.
Reload ==
  /\ loaded' \in Tables
  /\ steady' = FALSE
  /\ UNCHANGED <<mem, pc, sp, fmt, pos, src, count, dst, out, stray, shown, piece, want>>

Next == Printf \/ Convert \/ Literal \/ WriteProc \/ Return \/ Reload

Spec == Init /\ [][Next]_vars
-----------------------------------------------------------------------------
(* What the hook relies on, of the table and of the format it walks *)

\* An entry has conversions in its English only if its source has; what a
\* conversion produces has none.
TemplatesApart ==
  /\ \A k \in Key : IsTemplate(En[k]) => IsTemplate(k)
  /\ \A a \in Arg : ~ IsTemplate(a)

\* English without conversions that is a source itself does not get longer.
NotLonger ==
  \A f \in Fmt \intersect Key :
    ~ IsTemplate(En[f]) /\ En[f] \in Key => Len(En[En[f]]) <= Len(En[f])

TableFits == TemplatesApart /\ NotLonger

\* A run of literal text may start behind n characters of format g.
LiteralStart(g, n) ==
  /\ n \in 0 .. Len(g) - 1
  /\ g[n + 1] # Pct
  /\ n = 0 \/ g[n] = Pct

\* No run of literal text and what follows it in the format being walked are a
\* source with conversions, but for the start of an untranslated format.
TailsApart ==
  \A n \in 0 .. Len(shown) - 1 :
    /\ LiteralStart(shown, n) /\ Rest(shown, n) \in Key
    /\ n > 0 \/ fmt.at = "stack"
    => ~ IsTemplate(Rest(shown, n))

\* The format is one the hook can take piece by piece, and r7 and r4 led it to no
\* string that it would have to keep away from.
Regular == ~ stray /\ TailsApart
-----------------------------------------------------------------------------
(* Properties *)

Pointer == [at : {"data"}, str : Seq(Char \union {Pct})] \union [at : {"stack"}, addr : Nat]

\* Types of the pointers, the registers and guest memory.
TypeOK ==
  /\ mem \in [0 .. Top -> Char \union {Pct, Nul, Junk}]
  /\ loaded \subseteq Key /\ out \in Seq(Char \union {Pct, Nul, Junk})
  /\ pc \in {"game", "walk", "piece"}
  /\ sp \in Sp \union {0}
  /\ {fmt, src, dst} \subseteq Pointer
  /\ fmt.at = "stack" => fmt.addr \in 0 .. Top
  /\ dst.at = "stack" => stray
  /\ pos \in Nat /\ count \in Nat /\ steady \in BOOLEAN /\ stray \in BOOLEAN

\* What _Printf composes, read as a C string, is its format with the arguments
\* in their places, each piece in English where the hook chose English and in
\* Japanese elsewhere, none cut short by a Nul and nothing behind it, as long as
\* the table is not reloaded meanwhile: a description in r7 may have been swapped,
\* with the piece left in Japanese, but not the end of the result in r4.
ComposedRight == pc = "walk" /\ steady /\ Regular => out = want

\* The same whatever r7 and r4 lead to and whatever the format: TLC finds the end
\* of the result moved to the scratch space.
ComposedAnyway == pc = "walk" /\ steady => out = want

\* The same for a format with a template as its tail: TLC finds the entry "L%d".
ComposedAnyFormat == pc = "walk" /\ steady /\ ~ stray => out = want

\* The same whatever is reloaded: TLC finds a format that entered the table
\* after _Printf was entered, so that its first piece is looked up as the whole.
ComposedOverReloads == pc = "walk" /\ Regular => out = want

\* While _Printf walks an English format, no swap for a piece, none of a
\* description in r7 and no frame of its callees has overwritten what is left of
\* it, not even when the table was reloaded since the format was swapped.
FormatIntact ==
  pc # "game" /\ Regular => Rest(Str(fmt), pos) = Rest(shown, pos)

\* Guest memory keeps its type and the format being walked is left alone.
SwapInv == TypeOK /\ FormatIntact
=============================================================================
