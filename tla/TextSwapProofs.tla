--------------------------- MODULE TextSwapProofs ---------------------------
(***************************************************************************)
(* Theorems about TextSwap for every set of formats, arguments and         *)
(* entries, every alignment and every size of the slots that leaves the    *)
(* gaps GapAssumption and DepthAssumption state, provided the table fits   *)
(* (TableFits), whatever r7 and r4 lead to.  The proof is about addresses: *)
(* where the English of a format lies, what a swap for one of its pieces   *)
(* or of a description in r7 writes below it, and what the frames of the   *)
(* callees leave alone between the two.                                    *)
(***************************************************************************)
EXTENDS TextSwap, TLAPS

Text == Seq(Char \union {Pct})
Byte == Char \union {Pct, Nul, Junk}

\* Memory m holds string s and its Nul at address a.
Holds(m, a, s) ==
  /\ a \in 0 .. Top /\ a + Len(s) \in 0 .. Top
  /\ \A k \in 1 .. Len(s) : m[a + k - 1] = s[k]
  /\ m[a + Len(s)] = Nul

\* The format is the game's own, with no entry unless the table was reloaded.
AsWritten ==
  \E f \in Fmt : fmt = Data(f) /\ shown = f /\ (steady => ~ Swaps(f, sp))

\* The format is the English the hook swapped in.
Swapped ==
  \E f \in Fmt \intersect Key :
    /\ sp >= ArgOff /\ Len(En[f]) <= Cap
    /\ fmt = Stack(Slot(f, sp)) /\ shown = En[f]

\* English without conversions was handed over as a whole, and what its own swap
\* left in its place ends no later than it did.
Spent ==
  /\ pc = "walk" /\ pos = Len(shown)
  /\ \E e \in fmt.addr .. fmt.addr + pos :
       /\ e <= Top /\ mem[e] = Nul
       /\ \A x \in fmt.addr .. e - 1 : mem[x] # Nul

\* _Printf walks a format that is still there, and has composed what it was
\* meant to.
Walking ==
  pc # "game" =>
    /\ sp \in Sp /\ pos \in 0 .. Len(shown)
    /\ AsWritten \/ Swapped
    /\ fmt.at = "stack" => Holds(mem, fmt.addr, shown) \/ Spent
    /\ steady => out = want

\* Between two pieces lies a conversion.
Boundary ==
  pc = "walk" /\ pos \in 1 .. Len(shown) - 1 => shown[pos] = Pct \/ shown[pos + 1] = Pct

\* The writeproc is given what a conversion produced, ...
Argument ==
  /\ pos > 0 /\ shown[pos] = Pct
  /\ \E a \in Arg : src = Data(a) /\ count = Len(a) /\ piece = a

\* ... or a run of literal text, from behind a conversion to the next one.
RunFrom(n) ==
  /\ LiteralStart(shown, n)
  /\ n < pos /\ count = pos - n
  /\ src = Plus(fmt, n)
  /\ piece = SubSeq(shown, n + 1, pos)
  /\ pos < Len(shown) => shown[pos + 1] = Pct

Run == \E n \in 0 .. Len(shown) - 1 : RunFrom(n)

InOrder ==
  /\ Walking
  /\ Boundary
  /\ pc = "piece" => Argument \/ Run

IInv == TypeOK /\ (Regular => InOrder)

-----------------------------------------------------------------------------
(* Addresses *)

\* Aligning moves an address down by less than Align.
LEMMA AlignedDown ==
  ASSUME NEW x \in Nat
  PROVE  /\ x - (x % Align) \in Nat
         /\ x - (x % Align) <= x
         /\ x < x - (x % Align) + Align
<1>1. Align \in Nat \ {0}
  BY GapAssumption
<1>2. x % Align \in 0 .. Align - 1
  BY <1>1
<1>3. x = Align * (x \div Align) + (x % Align) /\ x \div Align \in Nat
  BY <1>1
<1>4. Align * (x \div Align) \in Nat
  BY <1>1, <1>3
<1>5. x - (x % Align) = Align * (x \div Align)
  BY <1>1, <1>2, <1>3, <1>4
<1> QED
  BY <1>1, <1>2, <1>4, <1>5

\* It keeps the order of addresses.
LEMMA AlignedInOrder ==
  ASSUME NEW x \in Nat, NEW y \in Nat, x <= y
  PROVE  x - (x % Align) <= y - (y % Align)
<1>1. Align \in Nat \ {0}
  BY GapAssumption
<1> DEFINE q == x \div Align
           r == y \div Align
<1>2. q \in Nat /\ r \in Nat /\ x % Align \in 0 .. Align - 1 /\ y % Align \in 0 .. Align - 1
  BY <1>1
<1>3. x = Align * q + (x % Align) /\ y = Align * r + (y % Align)
  BY <1>1
<1>4. Align * q \in Nat /\ Align * r \in Nat
  BY <1>1, <1>2
<1> HIDE DEF q, r
<1>5. q <= r
  <2> SUFFICES ASSUME r + 1 <= q PROVE FALSE
    BY <1>2
  <2>1. Align * (r + 1) <= Align * q
    BY <1>1, <1>2
  <2>2. Align * (r + 1) = Align * r + Align
    BY <1>1, <1>2
  <2> QED BY <1>1, <1>2, <1>3, <1>4, <2>1, <2>2
<1>6. Align * q <= Align * r
  BY <1>1, <1>2, <1>5
<1> QED
  BY <1>1, <1>2, <1>3, <1>4, <1>6

\* Where the slots lie.
LEMMA SlotPlace ==
  ASSUME NEW p \in Nat, p >= ArgOff, NEW s \in Key
  PROVE  /\ Slot(s, p) \in Nat
         /\ IsTemplate(En[s]) =>
              Slot(s, p) <= p - FmtOff /\ p - FmtOff < Slot(s, p) + Align
         /\ ~ IsTemplate(En[s]) =>
              Slot(s, p) <= p - ArgOff /\ p - ArgOff < Slot(s, p) + Align
<1>1. Align \in Nat /\ FmtOff \in Nat /\ ArgOff \in Nat /\ FmtOff <= ArgOff /\ Cap \in Nat
  BY GapAssumption, OffsetAssumption
<1>2. CASE IsTemplate(En[s])
  <2> DEFINE a == p - FmtOff
  <2>1. a \in Nat
    BY <1>1
  <2>2. Slot(s, p) = a - (a % Align)
    BY <1>2 DEF Slot, SwapScratch
  <2> HIDE DEF a
  <2>3. Slot(s, p) \in Nat /\ Slot(s, p) <= a /\ a < Slot(s, p) + Align
    BY <2>1, <2>2, AlignedDown
  <2> QED BY <1>2, <2>3 DEF a
<1>3. CASE ~ IsTemplate(En[s])
  <2> DEFINE a == p - ArgOff
  <2>1. a \in Nat
    BY <1>1
  <2>2. Slot(s, p) = a - (a % Align)
    BY <1>3 DEF Slot, SwapScratch
  <2> HIDE DEF a
  <2>3. Slot(s, p) \in Nat /\ Slot(s, p) <= a /\ a < Slot(s, p) + Align
    BY <2>1, <2>2, AlignedDown
  <2> QED BY <1>3, <2>3 DEF a
<1> QED
  BY <1>2, <1>3

-----------------------------------------------------------------------------
(* Memory *)

\* Strings are sequences without a Nul.
LEMMA Strings ==
  /\ \A k \in Key : En[k] \in Text
  /\ \A f \in Fmt : f \in Text
  /\ \A a \in Arg : a \in Text
  /\ \A s \in Text : Len(s) \in Nat /\ \A k \in 1 .. Len(s) : s[k] \in Char \union {Pct} /\ s[k] # Nul
BY StringAssumption DEF Text

\* What is left of a string is a string.
LEMMA RestIsText ==
  ASSUME NEW s \in Text, NEW n \in 0 .. Len(s)
  PROVE  /\ Rest(s, n) \in Text
         /\ Len(Rest(s, n)) = Len(s) - n
         /\ \A k \in 1 .. Len(s) - n : Rest(s, n)[k] = s[n + k]
BY DEF Text, Rest

LEMMA WriteTyped ==
  ASSUME NEW m \in [0 .. Top -> Byte], NEW a \in Nat, NEW s \in Text
  PROVE  Write(m, a, s) \in [0 .. Top -> Byte]
<1> SUFFICES ASSUME NEW x \in 0 .. Top
             PROVE  (IF x \in a .. a + Len(s) - 1 THEN s[x - a + 1]
                      ELSE IF x = a + Len(s) THEN Nul ELSE m[x]) \in Byte
  BY DEF Write
<1>1. Len(s) \in Nat /\ \A k \in 1 .. Len(s) : s[k] \in Char \union {Pct}
  BY Strings
<1>2. CASE x \in a .. a + Len(s) - 1
  <2>1. x - a + 1 \in 1 .. Len(s)
    BY <1>1, <1>2, SpAssumption
  <2> QED BY <1>1, <1>2, <2>1 DEF Byte
<1> QED
  BY <1>2 DEF Byte

LEMMA ClobberTyped ==
  ASSUME NEW m \in [0 .. Top -> Byte], NEW s
  PROVE  Clobber(m, s) \in [0 .. Top -> Byte]
BY DEF Clobber, Byte

\* A string that was written can be read.
LEMMA WriteHolds ==
  ASSUME NEW m, NEW a \in Nat, NEW s \in Text, a + Len(s) <= Top
  PROVE  Holds(Write(m, a, s), a, s)
<1>1. Len(s) \in Nat /\ Top \in Nat
  BY SpAssumption, Strings
<1>2. ASSUME NEW k \in 1 .. Len(s)  PROVE Write(m, a, s)[a + k - 1] = s[k]
  <2>1. a + k - 1 \in 0 .. Top /\ a + k - 1 \in a .. a + Len(s) - 1 /\ (a + k - 1) - a + 1 = k
    BY <1>1
  <2> QED BY <2>1 DEF Write
<1>3. Write(m, a, s)[a + Len(s)] = Nul
  BY <1>1 DEF Write
<1> QED
  BY <1>1, <1>2, <1>3 DEF Holds

\* Writing elsewhere leaves a string alone.
LEMMA WriteElsewhere ==
  ASSUME NEW m, NEW b, NEW t \in Text, Holds(m, b, t),
         NEW a \in Nat, NEW s \in Text, a + Len(s) < b
  PROVE  Holds(Write(m, a, s), b, t)
<1>1. Len(s) \in Nat /\ Len(t) \in Nat /\ Top \in Nat /\ b \in 0 .. Top /\ b + Len(t) \in 0 .. Top
  BY SpAssumption, Strings DEF Holds
<1>2. ASSUME NEW x \in b .. b + Len(t)  PROVE Write(m, a, s)[x] = m[x]
  <2>1. x \in 0 .. Top /\ x \notin a .. a + Len(s) - 1 /\ x # a + Len(s)
    BY <1>1
  <2> QED BY <2>1 DEF Write
<1>3. ASSUME NEW k \in 1 .. Len(t)  PROVE Write(m, a, s)[b + k - 1] = t[k]
  <2>1. b + k - 1 \in b .. b + Len(t)
    BY <1>1
  <2> QED BY <1>2, <2>1 DEF Holds
<1>4. Write(m, a, s)[b + Len(t)] = Nul
  <2>1. b + Len(t) \in b .. b + Len(t)
    BY <1>1
  <2> QED BY <1>2, <2>1 DEF Holds
<1> QED
  BY <1>1, <1>3, <1>4 DEF Holds

\* The frames of a callee lie above a string.
LEMMA ClobberElsewhere ==
  ASSUME NEW m, NEW b, NEW t \in Text, Holds(m, b, t), NEW s \in Nat, b + Len(t) < s - Depth
  PROVE  Holds(Clobber(m, s), b, t)
<1>1. Len(t) \in Nat /\ Depth \in Nat /\ Top \in Nat /\ b \in 0 .. Top /\ b + Len(t) \in 0 .. Top
  BY SpAssumption, DepthAssumption, Strings DEF Holds
<1>2. ASSUME NEW x \in b .. b + Len(t)  PROVE Clobber(m, s)[x] = m[x]
  <2>1. x \in 0 .. Top /\ x \notin s - Depth .. s - 1
    BY <1>1
  <2> QED BY <2>1 DEF Clobber
<1>3. ASSUME NEW k \in 1 .. Len(t)  PROVE Clobber(m, s)[b + k - 1] = t[k]
  <2>1. b + k - 1 \in b .. b + Len(t)
    BY <1>1
  <2> QED BY <1>2, <2>1 DEF Holds
<1>4. Clobber(m, s)[b + Len(t)] = Nul
  <2>1. b + Len(t) \in b .. b + Len(t)
    BY <1>1
  <2> QED BY <1>2, <2>1 DEF Holds
<1> QED
  BY <1>1, <1>3, <1>4 DEF Holds

\* The string at an address ends at the first Nul.
LEMMA FirstNul ==
  ASSUME NEW a \in Nat, NEW e \in a .. Top, mem[e] = Nul,
         \A x \in a .. e - 1 : mem[x] # Nul
  PROVE  StrAt(a) = [n \in 1 .. e - a |-> mem[a + n - 1]]
<1> DEFINE ends == {d \in a .. Top : mem[d] = Nul}
           last == CHOOSE d \in ends : \A c \in ends : d <= c
<1>1. Top \in Nat
  BY SpAssumption
<1>2. e \in ends
  OBVIOUS
<1>3. ASSUME NEW c \in ends  PROVE e <= c
  BY <1>1
<1>4. last \in ends /\ \A c \in ends : last <= c
  BY <1>2, <1>3
<1>5. last = e
  BY <1>1, <1>2, <1>3, <1>4
<1>6. StrAt(a) = [n \in 1 .. last - a |-> mem[a + n - 1]]
  BY <1>2 DEF StrAt
<1> QED
  BY <1>5, <1>6

\* The string held at an address, and what is left of it further on.
LEMMA StringHeld ==
  ASSUME NEW a, NEW s \in Text, Holds(mem, a, s), NEW n \in 0 .. Len(s)
  PROVE  StrAt(a + n) = Rest(s, n)
<1>1. Len(s) \in Nat /\ Top \in Nat /\ a \in 0 .. Top /\ a + Len(s) \in 0 .. Top
  BY SpAssumption, Strings DEF Holds
<1> DEFINE e == a + Len(s)
<1>2. a + n \in Nat /\ e \in a + n .. Top /\ mem[e] = Nul /\ e - (a + n) = Len(s) - n
  BY <1>1 DEF Holds
<1>3. ASSUME NEW k \in 1 .. Len(s) - n  PROVE mem[a + n + k - 1] = Rest(s, n)[k]
  <2>1. n + k \in 1 .. Len(s) /\ a + (n + k) - 1 = a + n + k - 1
    BY <1>1
  <2>2. mem[a + (n + k) - 1] = s[n + k]
    BY <2>1 DEF Holds
  <2> QED BY <2>1, <2>2, RestIsText
<1>4. ASSUME NEW x \in a + n .. e - 1  PROVE mem[x] # Nul
  <2>1. x - a + 1 \in 1 .. Len(s) /\ a + (x - a + 1) - 1 = x
    BY <1>1
  <2> QED BY <2>1, Strings DEF Holds
<1> HIDE DEF e
<1>5. StrAt(a + n) = [k \in 1 .. e - (a + n) |-> mem[a + n + k - 1]]
  BY <1>2, <1>4, FirstNul
<1>6. Rest(s, n) = [k \in 1 .. Len(s) - n |-> Rest(s, n)[k]]
  BY <1>1, RestIsText DEF Text
<1> QED
  BY <1>2, <1>3, <1>5, <1>6
-----------------------------------------------------------------------------
(* The format being walked *)

\* The hook's English is in memory below _Printf's frames.
LEMMA SwappedPlace ==
  ASSUME NEW p \in Sp, NEW k \in Key, p >= ArgOff, Len(En[k]) <= Cap
  PROVE  /\ p \in Nat /\ Slot(k, p) \in Nat
         /\ Slot(k, p) + Len(En[k]) < p - Depth
         /\ Slot(k, p) + Len(En[k]) \in 0 .. Top
<1>1. p \in 0 .. Top /\ Top \in Nat
  BY SpAssumption
<1>2. Len(En[k]) \in Nat
  BY Strings
<1>3. Slot(k, p) \in Nat /\ Slot(k, p) <= p - FmtOff
  BY <1>1, SlotPlace, GapAssumption, OffsetAssumption
<1> QED
  BY <1>1, <1>2, <1>3, DepthAssumption, GapAssumption, OffsetAssumption

\* What is left of the format is what is left of the string the hook chose.
LEMMA FormatRest ==
  ASSUME TypeOK, InOrder, pc # "game"
  PROVE  /\ shown \in Text /\ pos \in 0 .. Len(shown)
         /\ Rest(Str(fmt), pos) = Rest(shown, pos)
<1>1. pos \in 0 .. Len(shown)
  BY DEF InOrder, Walking
<1>2. CASE AsWritten
  BY <1>1, <1>2, Strings DEF AsWritten, Data, Str
<1>3. CASE Swapped
  <2>1. PICK f \in Fmt \intersect Key :
          /\ sp >= ArgOff /\ Len(En[f]) <= Cap
          /\ fmt = Stack(Slot(f, sp)) /\ shown = En[f]
    BY <1>3 DEF Swapped
  <2>2. shown \in Text
    BY <2>1, Strings
  <2>3. fmt.at = "stack" /\ Str(fmt) = StrAt(fmt.addr)
    BY <2>1 DEF Stack, Str
  <2>4. CASE Holds(mem, fmt.addr, shown)
    <3>1. fmt.addr + 0 = fmt.addr /\ 0 \in 0 .. Len(shown)
      BY <1>1, <2>4 DEF Holds
    <3>2. StrAt(fmt.addr) = Rest(shown, 0)
      BY <2>2, <2>4, <3>1, StringHeld
    <3>3. Rest(shown, 0) = shown
      BY <2>2 DEF Rest, Text
    <3> QED BY <1>1, <2>2, <2>3, <3>2, <3>3
  <2>5. CASE Spent
    <3> DEFINE a == fmt.addr
    <3>1. PICK e \in a .. a + pos :
            /\ e <= Top /\ mem[e] = Nul
            /\ \A x \in a .. e - 1 : mem[x] # Nul
      BY <2>5 DEF Spent
    <3>2. sp \in Nat
      BY SpAssumption DEF TypeOK
    <3>3. a \in Nat
      BY <2>1, <3>2, SlotPlace DEF Stack
    <3> HIDE DEF a
    <3>4. e \in a .. Top
      BY <1>1, <3>1, <3>3, SpAssumption
    <3>5. StrAt(a) = [n \in 1 .. e - a |-> mem[a + n - 1]]
      BY <3>1, <3>3, <3>4, FirstNul
    <3>6. e - a \in Nat /\ e - a <= pos
      BY <1>1, <3>1, <3>3
    <3>7. \A x \in a .. Top : mem[x] \in Byte
      BY <3>3 DEF TypeOK, Byte
    <3>8. StrAt(a) \in Seq(Byte) /\ Len(StrAt(a)) = e - a
      <4>1. \A n \in 1 .. e - a : mem[a + n - 1] \in Byte
        BY <3>3, <3>4, <3>7, SpAssumption
      <4> HIDE DEF Byte
      <4> QED BY <3>5, <3>6, <4>1
    <3>9. Rest(StrAt(a), pos) = << >>
      BY <1>1, <3>6, <3>8 DEF Rest
    <3>10. Rest(shown, pos) = << >>
      BY <2>2, <2>5 DEF Rest, Spent, Text
    <3> QED BY <1>1, <2>2, <2>3, <3>9, <3>10 DEF a
  <2> QED BY <2>3, <2>4, <2>5 DEF InOrder, Walking
<1> QED
  BY <1>2, <1>3 DEF InOrder, Walking

-----------------------------------------------------------------------------
(* Types *)

LEMMA PointerParts ==
  ASSUME NEW p \in Pointer
  PROVE  \/ p.at = "data" /\ p.str \in Text
         \/ p.at = "stack" /\ p.addr \in Nat
BY DEF Pointer, Text

LEMMA PointersMade ==
  /\ \A s \in Text : Data(s) \in Pointer
  /\ \A a \in Nat : Stack(a) \in Pointer
BY DEF Pointer, Data, Stack, Text

LEMMA PlusIsPointer ==
  ASSUME NEW p \in Pointer, NEW n \in Nat
  PROVE  Plus(p, n) \in Pointer
<1>1. CASE p.at = "data"
  <2>1. p.str \in Text
    BY <1>1, PointerParts
  <2>2. Rest(p.str, n) \in Text
    BY <2>1 DEF Rest, Text
  <2> QED BY <1>1, <2>2, PointersMade DEF Plus
<1>2. CASE p.at = "stack"
  <2>1. p.addr + n \in Nat
    BY <1>2, PointerParts
  <2> QED BY <1>2, <2>1, PointersMade DEF Plus
<1> QED
  BY <1>1, <1>2, PointerParts

LEMMA TextIsBytes == \A s \in Text : s \in Seq(Byte)
BY DEF Text, Byte

LEMMA BytesTyped ==
  ASSUME NEW m \in [0 .. Top -> Byte], NEW p \in Pointer, NEW n \in Nat
  PROVE  Bytes(m, p, n) \in Seq(Byte) /\ Len(Bytes(m, p, n)) = n
<1> SUFFICES \A k \in 1 .. n :
       (IF p.at = "stack" THEN (IF p.addr + k - 1 <= Top THEN m[p.addr + k - 1] ELSE Junk)
        ELSE IF k <= Len(p.str) THEN p.str[k] ELSE Nul) \in Byte
  BY DEF Bytes
<1>1. CASE p.at = "stack"
  <2>1. p.addr \in Nat /\ Top \in Nat
    BY <1>1, PointerParts, SpAssumption
  <2> SUFFICES ASSUME NEW k \in 1 .. n, p.addr + k - 1 <= Top  PROVE m[p.addr + k - 1] \in Byte
    BY <1>1 DEF Byte
  <2>2. p.addr + k - 1 \in 0 .. Top
    BY <2>1
  <2> QED BY <2>2
<1>2. CASE p.at = "data"
  <2>1. p.str \in Text
    BY <1>2, PointerParts
  <2>2. Len(p.str) \in Nat /\ \A k \in 1 .. Len(p.str) : p.str[k] \in Byte
    BY <2>1, Strings DEF Byte
  <2> QED BY <1>2, <2>2 DEF Byte
<1> QED
  BY <1>1, <1>2, PointerParts

LEMMA CopyTyped ==
  ASSUME NEW m \in [0 .. Top -> Byte], NEW a \in Nat, NEW b \in Seq(Byte)
  PROVE  Copy(m, a, b) \in [0 .. Top -> Byte]
<1> SUFFICES ASSUME NEW x \in 0 .. Top, x \in a .. a + Len(b) - 1  PROVE b[x - a + 1] \in Byte
  BY DEF Copy
<1>1. x - a + 1 \in 1 .. Len(b)
  BY SpAssumption
<1> QED
  BY <1>1

\* The writeproc's registers and the memory it leaves.
LEMMA AppendTyped ==
  ASSUME TypeOK, NEW e \in Pointer, NEW m \in [0 .. Top -> Byte], NEW p \in Pointer,
         NEW n \in Nat, AppendTo(e, m, p, n)
  PROVE  /\ mem' \in [0 .. Top -> Byte] /\ out' \in Seq(Byte)
         /\ src' \in Pointer /\ count' \in Nat /\ dst' \in Pointer
         /\ dst'.at = e.at
<1>1. src' = p /\ count' = n
  BY DEF AppendTo
<1>2. Bytes(m, p, n) \in Seq(Byte) /\ out \in Seq(Byte)
  BY BytesTyped DEF TypeOK, Byte
<1>3. CASE e.at = "data"
  <2>1. mem' = m /\ out' = out \o Bytes(m, p, n) /\ dst' = e
    BY <1>3 DEF AppendTo
  <2> HIDE DEF Byte
  <2> QED BY <1>1, <1>2, <2>1
<1>4. CASE e.at = "stack"
  <2>1. e.addr \in Nat
    BY <1>4, PointerParts
  <2>2. mem' = Copy(m, e.addr, Bytes(m, p, n)) /\ dst' = Plus(e, n) /\ out' = out
    BY <1>4 DEF AppendTo
  <2>3. dst' \in Pointer /\ dst'.at = "stack"
    BY <1>4, <2>2, PlusIsPointer DEF Plus, Stack
  <2>4. mem' \in [0 .. Top -> Byte]
    BY <1>2, <2>1, <2>2, CopyTyped
  <2> QED BY <1>1, <1>2, <1>4, <2>2, <2>3, <2>4
<1> QED
  BY <1>3, <1>4, PointerParts

\* Where xlate_desc puts the English it found.
LEMMA SwapTyped ==
  ASSUME TypeOK, NEW d \in Frame, NEW s, Swaps(s, sp - d)
  PROVE  /\ s \in Key /\ En[s] \in Text /\ Len(En[s]) \in Nat /\ Len(En[s]) <= Cap
         /\ sp \in Nat /\ sp <= Top /\ sp - d \in Nat /\ sp - d >= ArgOff /\ sp - d < sp
         /\ d \in Nat /\ d <= Depth
         /\ Slot(s, sp - d) \in 0 .. Top
         /\ Stack(Slot(s, sp - d)) \in Pointer
         /\ WithEnglish(s, sp - d) \in [0 .. Top -> Byte]
<1>1. s \in Key /\ En[s] \in Text /\ Len(En[s]) \in Nat /\ Len(En[s]) <= Cap
  BY Strings DEF Swaps, TypeOK
<1>2. /\ sp \in Nat /\ sp <= Top /\ sp - d \in Nat /\ sp - d >= ArgOff /\ sp - d < sp
      /\ d \in Nat /\ d <= Depth /\ Top \in Nat
  BY SpAssumption, OffsetAssumption, DepthAssumption DEF TypeOK, Swaps
<1> DEFINE b == Slot(s, sp - d)
<1>3. b \in Nat /\ (b <= sp - d - FmtOff \/ b <= sp - d - ArgOff)
  BY <1>1, <1>2, SlotPlace
<1> HIDE DEF b
<1>4. b \in 0 .. Top
  BY <1>2, <1>3, OffsetAssumption
<1>5. mem \in [0 .. Top -> Byte]
  BY DEF TypeOK, Byte
<1>6. Write(mem, b, En[s]) \in [0 .. Top -> Byte]
  BY <1>1, <1>3, <1>5, WriteTyped
<1> QED
  BY <1>1, <1>2, <1>3, <1>4, <1>6, PointersMade DEF b, WithEnglish

LEMMA WriteProcTyped ==
  ASSUME TypeOK, WriteProc
  PROVE  TypeOK'
<1>1. PICK d \in Frame, r7 \in Other, end \in Other :
        \/ SwapR7(sp - d, r7)
        \/ SwapR4(sp - d, IF dst.at = "data" THEN end ELSE StrAt(dst.addr))
        \/ SwapR5(sp - d, Str(src))
        \/ NoSwap
  BY DEF WriteProc
<1>2. pc' = "walk" /\ UNCHANGED <<loaded, sp, fmt, pos, steady, shown, piece>>
  BY DEF WriteProc
<1>3. /\ dst \in Pointer /\ src \in Pointer /\ count \in Nat /\ stray \in BOOLEAN
      /\ mem \in [0 .. Top -> Byte] /\ (dst.at = "stack" => stray)
  BY DEF TypeOK, Byte
<1> SUFFICES /\ mem' \in [0 .. Top -> Byte] /\ out' \in Seq(Byte)
             /\ src' \in Pointer /\ count' \in Nat /\ dst' \in Pointer
             /\ stray' \in BOOLEAN /\ (dst'.at = "stack" => stray')
  BY <1>2 DEF TypeOK, Byte
<1>4. CASE SwapR7(sp - d, r7)
  <2>1. WithEnglish(r7, sp - d) \in [0 .. Top -> Byte]
    BY <1>4, SwapTyped DEF SwapR7
  <2>2. AppendTo(dst, WithEnglish(r7, sp - d), src, count) /\ stray' = (stray \/ ~ Apart(r7))
    BY <1>4 DEF SwapR7
  <2> QED BY <1>3, <2>1, <2>2, AppendTyped
<1>5. CASE SwapR4(sp - d, IF dst.at = "data" THEN end ELSE StrAt(dst.addr))
  <2> DEFINE s == IF dst.at = "data" THEN end ELSE StrAt(dst.addr)
  <2> HIDE DEF s
  <2>1. SwapR4(sp - d, s)
    BY <1>5 DEF s
  <2>2. WithEnglish(s, sp - d) \in [0 .. Top -> Byte] /\ Stack(Slot(s, sp - d)) \in Pointer
    BY <2>1, SwapTyped DEF SwapR4
  <2>3. AppendTo(Stack(Slot(s, sp - d)), WithEnglish(s, sp - d), src, count) /\ stray' = TRUE
    BY <2>1 DEF SwapR4
  <2> QED BY <1>3, <2>2, <2>3, AppendTyped
<1>6. CASE SwapR5(sp - d, Str(src))
  <2> DEFINE s == Str(src)
  <2> HIDE DEF s
  <2>1. SwapR5(sp - d, s)
    BY <1>6 DEF s
  <2>2. /\ WithEnglish(s, sp - d) \in [0 .. Top -> Byte] /\ Stack(Slot(s, sp - d)) \in Pointer
        /\ Len(En[s]) \in Nat
    BY <2>1, SwapTyped DEF SwapR5
  <2>3. /\ AppendTo(dst, WithEnglish(s, sp - d), Stack(Slot(s, sp - d)), Len(En[s]))
        /\ stray' = stray
    BY <2>1 DEF SwapR5
  <2> QED BY <1>3, <2>2, <2>3, AppendTyped
<1>7. CASE NoSwap
  <2>1. AppendTo(dst, mem, src, count) /\ stray' = stray
    BY <1>7 DEF NoSwap
  <2> QED BY <1>3, <2>1, AppendTyped
<1> QED
  BY <1>1, <1>4, <1>5, <1>6, <1>7

LEMMA PrintfTyped ==
  ASSUME TypeOK, Printf
  PROVE  TypeOK'
<1>1. PICK f \in Fmt, s \in Sp :
        /\ sp' = s
        /\ \/ /\ Swaps(f, s)
              /\ fmt' = Stack(Slot(f, s))
              /\ shown' = En[f]
              /\ mem' = Clobber(Write(mem, Slot(f, s), En[f]), s)
           \/ /\ ~ Swaps(f, s)
              /\ fmt' = Data(f)
              /\ shown' = f
              /\ mem' = Clobber(mem, s)
  BY DEF Printf
<1>2. /\ pc' = "walk" /\ pos' = 0 /\ out' = << >> /\ steady' = TRUE /\ stray' = FALSE
      /\ loaded' = loaded /\ src' = src /\ count' = count /\ dst' = Result
  BY DEF Printf
<1>3. mem \in [0 .. Top -> Byte]
  BY DEF TypeOK, Byte
<1>4. << >> \in Text /\ f \in Text
  BY Strings DEF Text
<1>5. Result \in Pointer /\ Result.at = "data"
  BY <1>4, PointersMade DEF Result, Data
<1>8. src' \in Pointer /\ count' \in Nat /\ loaded' \subseteq Key /\ out' \in Seq(Byte)
  BY <1>2 DEF TypeOK
<1> SUFFICES mem' \in [0 .. Top -> Byte] /\ fmt' \in Pointer /\ (fmt'.at = "stack" => fmt'.addr \in 0 .. Top)
  <2> USE DEF Byte
  <2> QED BY <1>1, <1>2, <1>5, <1>8 DEF TypeOK
<1>6. CASE Swaps(f, s)
  <2>1. f \in Key /\ s >= ArgOff /\ Len(En[f]) <= Cap /\ En[f] \in Text
    BY <1>6, Strings DEF Swaps, TypeOK
  <2>2. Slot(f, s) \in Nat /\ Slot(f, s) + Len(En[f]) \in 0 .. Top /\ Len(En[f]) \in Nat
    BY <2>1, SwappedPlace, Strings
  <2>3. fmt' = Stack(Slot(f, s)) /\ mem' = Clobber(Write(mem, Slot(f, s), En[f]), s)
    BY <1>1, <1>6
  <2>4. mem' \in [0 .. Top -> Byte]
    BY <1>3, <2>1, <2>2, <2>3, WriteTyped, ClobberTyped
  <2>5. fmt'.at = "stack" /\ fmt'.addr = Slot(f, s)
    BY <2>3 DEF Stack
  <2> QED BY <2>2, <2>3, <2>4, <2>5, PointersMade, SpAssumption
<1>7. CASE ~ Swaps(f, s)
  <2>1. fmt' = Data(f) /\ mem' = Clobber(mem, s)
    BY <1>1, <1>7
  <2> QED BY <1>3, <1>4, <2>1, ClobberTyped, PointersMade DEF Data
<1> QED
  BY <1>6, <1>7

LEMMA StepTyped ==
  ASSUME TypeOK, [Next]_vars
  PROVE  TypeOK'
<1>1. CASE Convert
  <2>1. PICK a \in Arg : src' = Data(a) /\ count' = Len(a)
    BY <1>1 DEF Convert
  <2>2. src' \in Pointer /\ count' \in Nat
    BY <2>1, Strings, PointersMade
  <2> QED BY <1>1, <2>2 DEF Convert, TypeOK
<1>2. CASE Literal
  <2>1. PICK n \in 1 .. Len(Rest(Str(fmt), pos)) :
          src' = Plus(fmt, pos) /\ count' = n /\ pos' = pos + n
    BY <1>2 DEF Literal
  <2>2. n \in Nat /\ pos \in Nat /\ fmt \in Pointer
    BY DEF TypeOK
  <2>3. src' \in Pointer /\ count' \in Nat /\ pos' \in Nat
    BY <2>1, <2>2, PlusIsPointer
  <2> QED BY <1>2, <2>3 DEF Literal, TypeOK
<1>3. CASE Return
  <2>1. << >> \in Text
    BY DEF Text
  <2>2. Data(<< >>) \in Pointer /\ Data(<< >>).at = "data"
    BY <2>1, PointersMade DEF Data
  <2>3. mem' \in [0 .. Top -> Char \union {Pct, Nul, Junk}]
    BY <1>3, StaleAssumption DEF Return
  <2>4. out' \in Seq(Char \union {Pct, Nul, Junk})
    BY <1>3 DEF Return
  <2> QED BY <1>3, <2>2, <2>3, <2>4 DEF Return, Result, TypeOK
<1>4. CASE Reload
  BY <1>4, TablesAssumption DEF Reload, TypeOK
<1>5. CASE UNCHANGED vars
  BY <1>5 DEF TypeOK, vars
<1> QED
  BY <1>1, <1>2, <1>3, <1>4, <1>5, PrintfTyped, WriteProcTyped DEF Next

-----------------------------------------------------------------------------
(* The steps *)

LEMMA InitInv == Init => IInv
<1> SUFFICES ASSUME Init PROVE IInv
  OBVIOUS
<1>1. << >> \in Text
  BY DEF Text
<1>2. Data(<< >>) \in Pointer /\ Data(<< >>).at = "data"
  BY <1>1, PointersMade DEF Data
<1>3. TypeOK
  <2>1. mem \in [0 .. Top -> Char \union {Pct, Nul, Junk}] /\ loaded \subseteq Key
    BY StaleAssumption, TablesAssumption DEF Init
  <2>2. out \in Seq(Char \union {Pct, Nul, Junk})
    BY DEF Init
  <2> QED BY <1>2, <2>1, <2>2 DEF Init, TypeOK, Result
<1> QED
  BY <1>3 DEF Init, IInv, InOrder, Walking, Boundary

LEMMA PrintfKeeps ==
  ASSUME TypeOK, Printf
  PROVE  InOrder'
<1>1. PICK f \in Fmt, s \in Sp :
        /\ sp' = s
        /\ \/ /\ Swaps(f, s)
              /\ fmt' = Stack(Slot(f, s))
              /\ shown' = En[f]
              /\ mem' = Clobber(Write(mem, Slot(f, s), En[f]), s)
           \/ /\ ~ Swaps(f, s)
              /\ fmt' = Data(f)
              /\ shown' = f
              /\ mem' = Clobber(mem, s)
  BY DEF Printf
<1>2. s \in Nat /\ s \in 0 .. Top
  BY SpAssumption
<1>3. /\ pc' = "walk" /\ pos' = 0 /\ out' = << >> /\ want' = << >> /\ steady' = TRUE
      /\ loaded' = loaded /\ src' = src /\ count' = count
  BY DEF Printf
<1>4. mem \in [0 .. Top -> Byte] /\ loaded \subseteq Key
  BY DEF TypeOK, Byte
<1>5. CASE Swaps(f, s)
  <2>1. f \in Fmt \intersect Key /\ s >= ArgOff /\ Len(En[f]) <= Cap
    BY <1>4, <1>5 DEF Swaps
  <2>2. /\ fmt' = Stack(Slot(f, s)) /\ shown' = En[f]
        /\ mem' = Clobber(Write(mem, Slot(f, s), En[f]), s)
    BY <1>1, <1>5
  <2>3. Slot(f, s) \in Nat /\ Slot(f, s) + Len(En[f]) < s - Depth
        /\ Slot(f, s) + Len(En[f]) \in 0 .. Top /\ En[f] \in Text /\ Len(En[f]) \in Nat
    BY <2>1, SwappedPlace, Strings
  <2>4. Holds(Write(mem, Slot(f, s), En[f]), Slot(f, s), En[f])
    BY <2>3, WriteHolds
  <2>5. Holds(mem', Slot(f, s), En[f])
    BY <1>2, <2>2, <2>3, <2>4, ClobberElsewhere
  <2>6. mem' \in [0 .. Top -> Byte]
    BY <1>4, <2>2, <2>3, WriteTyped, ClobberTyped
  <2>7. fmt'.at = "stack" /\ fmt'.addr = Slot(f, s) /\ Slot(f, s) \in 0 .. Top
    BY <2>2, <2>5 DEF Stack, Holds
  <2>9. Swapped'
    BY <1>1, <2>1, <2>2 DEF Swapped
  <2> QED
    BY <1>1, <1>3, <2>2, <2>5, <2>7, <2>9 DEF InOrder, Walking, Boundary
<1>6. CASE ~ Swaps(f, s)
  <2>1. fmt' = Data(f) /\ shown' = f /\ mem' = Clobber(mem, s)
    BY <1>1, <1>6
  <2>2. mem' \in [0 .. Top -> Byte]
    BY <1>4, <2>1, ClobberTyped
  <2>3. fmt'.at = "data" /\ Len(f) \in Nat
    BY <2>1, Strings DEF Data
  <2>5. AsWritten'
    BY <1>1, <1>3, <1>6, <2>1 DEF AsWritten, Swaps
  <2> QED
    BY <1>1, <1>3, <2>1, <2>3, <2>5 DEF InOrder, Walking, Boundary
<1> QED
  BY <1>5, <1>6

\* As long as there is something left of a format, it is where it was.
LEMMA StillHeld ==
  ASSUME TypeOK, InOrder, pc = "walk", Rest(Str(fmt), pos) # << >>
  PROVE  /\ pos \in 0 .. Len(shown) - 1
         /\ fmt.at = "stack" => Holds(mem, fmt.addr, shown)
<1>1. shown \in Text /\ pos \in 0 .. Len(shown) /\ Rest(shown, pos) # << >>
  BY FormatRest
<1>2. pos # Len(shown)
  BY <1>1, RestIsText DEF Text, Rest
<1> QED
  BY <1>1, <1>2, Strings DEF InOrder, Walking, Spent

LEMMA ConvertKeeps ==
  ASSUME TypeOK, InOrder, Convert
  PROVE  InOrder'
<1> DEFINE rest == Rest(Str(fmt), pos)
<1>1. /\ pc = "walk" /\ rest # << >> /\ rest[1] = Pct
      /\ pos' = pos + 1 /\ pc' = "piece"
      /\ UNCHANGED <<mem, loaded, sp, fmt, dst, out, steady, stray, shown, want>>
  BY DEF Convert
<1>2. PICK a \in Arg : src' = Data(a) /\ count' = Len(a) /\ piece' = a
  BY DEF Convert
<1>3. /\ shown \in Text /\ pos \in 0 .. Len(shown) - 1 /\ rest = Rest(shown, pos)
      /\ Len(shown) \in Nat
      /\ fmt.at = "stack" => Holds(mem, fmt.addr, shown)
  BY <1>1, FormatRest, StillHeld, Strings
<1>4. shown[pos + 1] = Pct
  <2>1. pos \in 0 .. Len(shown) /\ 1 \in 1 .. Len(shown) - pos
    BY <1>3
  <2>2. Rest(shown, pos)[1] = shown[pos + 1]
    BY <1>3, <2>1, RestIsText
  <2> QED BY <1>1, <1>3, <2>2
<1>6. Walking'
  <2>1. AsWritten => AsWritten'
    BY <1>1 DEF AsWritten, Swaps
  <2>2. Swapped => Swapped'
    BY <1>1 DEF Swapped
  <2> QED
    BY <1>1, <1>3, <2>1, <2>2 DEF InOrder, Walking
<1>7. Argument'
  BY <1>1, <1>2, <1>3, <1>4 DEF Argument
<1> QED
  BY <1>1, <1>6, <1>7 DEF InOrder, Boundary

LEMMA LiteralKeeps ==
  ASSUME TypeOK, InOrder, Literal
  PROVE  InOrder'
<1> DEFINE rest == Rest(Str(fmt), pos)
<1>1. /\ pc = "walk" /\ pc' = "piece"
      /\ UNCHANGED <<mem, loaded, sp, fmt, dst, out, steady, stray, shown, want>>
  BY DEF Literal
<1>2. PICK n \in 1 .. Len(rest) :
        /\ \A k \in 1 .. n : rest[k] # Pct
        /\ n < Len(rest) => rest[n + 1] = Pct
        /\ src' = Plus(fmt, pos) /\ count' = n /\ pos' = pos + n
        /\ piece' = IF pos + n <= Len(shown) THEN SubSeq(shown, pos + 1, pos + n) ELSE << >>
  BY DEF Literal
<1>3. /\ shown \in Text /\ pos \in 0 .. Len(shown) /\ rest = Rest(shown, pos)
      /\ Len(shown) \in Nat
  BY <1>1, FormatRest, Strings
<1>4. /\ Len(rest) = Len(shown) - pos
      /\ \A k \in 1 .. Len(shown) - pos : rest[k] = shown[pos + k]
  BY <1>3, RestIsText
<1> HIDE DEF rest
<1>5. n \in Nat /\ n > 0 /\ n <= Len(shown) - pos
  BY <1>2, <1>3, <1>4
<1>6. /\ pos \in 0 .. Len(shown) - 1
      /\ fmt.at = "stack" => Holds(mem, fmt.addr, shown)
  <2>1. rest # << >>
    BY <1>3, <1>4, <1>5
  <2> QED BY <1>1, <2>1, StillHeld DEF rest
<1>7. shown[pos + 1] # Pct
  BY <1>2, <1>3, <1>4, <1>5
<1>8. LiteralStart(shown, pos)
  <2>1. pos # 0 => shown[pos] = Pct
    BY <1>1, <1>3, <1>6, <1>7 DEF InOrder, Boundary
  <2> QED BY <1>6, <1>7, <2>1 DEF LiteralStart
<1>9. pos' < Len(shown) => shown[pos' + 1] = Pct
  <2> SUFFICES ASSUME pos + n < Len(shown) PROVE shown[pos + n + 1] = Pct
    BY <1>2
  <2>1. n < Len(rest) /\ n + 1 \in 1 .. Len(shown) - pos /\ pos + (n + 1) = pos + n + 1
    BY <1>3, <1>4, <1>5
  <2> QED BY <1>2, <1>4, <2>1
<1>10. Run'
  <2>1. pos \in 0 .. Len(shown') - 1 /\ LiteralStart(shown', pos) /\ pos < pos'
        /\ count' = pos' - pos /\ src' = Plus(fmt', pos) /\ piece' = SubSeq(shown', pos + 1, pos')
        /\ (pos' < Len(shown') => shown'[pos' + 1] = Pct)
    BY <1>1, <1>2, <1>3, <1>5, <1>6, <1>8, <1>9
  <2> QED BY <2>1 DEF Run, RunFrom
<1>12. Walking'
  <2>1. AsWritten => AsWritten'
    BY <1>1 DEF AsWritten, Swaps
  <2>2. Swapped => Swapped'
    BY <1>1 DEF Swapped
  <2>3. pos' \in 0 .. Len(shown')
    BY <1>1, <1>2, <1>3, <1>5
  <2> QED
    BY <1>1, <1>6, <2>1, <2>2, <2>3 DEF InOrder, Walking
<1> QED
  BY <1>1, <1>10, <1>12 DEF InOrder, Boundary

LEMMA ReturnKeeps ==
  ASSUME Return
  PROVE  InOrder'
BY DEF Return, InOrder, Walking, Boundary

LEMMA ReloadKeeps ==
  ASSUME TypeOK, InOrder, Reload
  PROVE  InOrder'
<1>1. Walking'
  <2>1. AsWritten => AsWritten'
    BY DEF AsWritten, Reload
  <2>2. Swapped => Swapped'
    BY DEF Swapped, Reload
  <2> QED BY <2>1, <2>2 DEF InOrder, Walking, Reload, Spent
<1>2. UNCHANGED <<pc, shown, pos, src, count, piece, fmt>>
  BY DEF Reload
<1>3. Boundary' /\ (Argument => Argument') /\ (Run => Run')
  BY <1>2 DEF InOrder, Boundary, Argument, Run, RunFrom
<1> QED
  BY <1>1, <1>2, <1>3 DEF InOrder

-----------------------------------------------------------------------------
(* The writeproc *)

LEMMA SourceOfArgument ==
  ASSUME TypeOK, InOrder, TableFits, pc = "piece", Argument
  PROVE  /\ piece \in Text /\ Str(src) = piece
         /\ \A m : Bytes(m, src, count) = piece
         /\ ~ IsTemplate(piece) /\ IsTemplate(shown)
<1>1. PICK a \in Arg : src = Data(a) /\ count = Len(a) /\ piece = a
  BY DEF Argument
<1>2. a \in Text /\ ~ IsTemplate(a)
  BY Strings DEF TableFits, TemplatesApart
<1>3. src.at = "data" /\ src.str = a
  BY <1>1 DEF Data
<1>4. \A m : Bytes(m, src, count) = [k \in 1 .. Len(a) |-> a[k]]
  BY <1>1, <1>3 DEF Bytes
<1>5. a = [k \in 1 .. Len(a) |-> a[k]]
  BY <1>2 DEF Text
<1>6. IsTemplate(shown)
  BY DEF Argument, InOrder, Walking, IsTemplate
<1> QED
  BY <1>1, <1>2, <1>3, <1>4, <1>5, <1>6 DEF Str

LEMMA SourceOfRun ==
  ASSUME TypeOK, InOrder, pc = "piece", NEW n \in 0 .. Len(shown) - 1, RunFrom(n)
  PROVE  /\ shown \in Text /\ pos \in 1 .. Len(shown) /\ Len(shown) \in Nat
         /\ piece \in Text /\ Str(src) = Rest(shown, n)
<1>1. shown \in Text /\ pos \in 0 .. Len(shown) /\ Len(shown) \in Nat
  BY FormatRest, Strings
<1>2. n \in Nat /\ n < pos /\ src = Plus(fmt, n) /\ piece = SubSeq(shown, n + 1, pos)
  BY <1>1 DEF RunFrom
<1>3. piece \in Text
  BY <1>1, <1>2 DEF Text
<1>4. CASE AsWritten
  <2>1. src = Data(Rest(shown, n))
    BY <1>2, <1>4 DEF AsWritten, Plus, Data
  <2> QED BY <1>1, <1>2, <1>3, <2>1 DEF Str, Data
<1>5. CASE Swapped
  <2>1. fmt.at = "stack"
    BY <1>5 DEF Swapped, Stack
  <2>2. Holds(mem, fmt.addr, shown)
    BY <2>1 DEF InOrder, Walking, Spent
  <2>3. src = Stack(fmt.addr + n)
    BY <1>2, <2>1 DEF Plus
  <2>4. Str(src) = Rest(shown, n)
    BY <1>1, <1>2, <2>2, <2>3, StringHeld DEF Str, Stack
  <2> QED BY <1>1, <1>2, <1>3, <2>4
<1> QED
  BY <1>4, <1>5 DEF InOrder, Walking

\* A run is copied as it is in the format, from any memory that still holds that.
LEMMA BytesOfRun ==
  ASSUME TypeOK, InOrder, pc = "piece", NEW n \in 0 .. Len(shown) - 1, RunFrom(n),
         NEW m, fmt.at = "stack" => Holds(m, fmt.addr, shown)
  PROVE  Bytes(m, src, count) = piece
<1>1. shown \in Text /\ pos \in 0 .. Len(shown) /\ Len(shown) \in Nat
  BY FormatRest, Strings
<1>2. n \in Nat /\ n < pos /\ count = pos - n /\ src = Plus(fmt, n)
      /\ piece = SubSeq(shown, n + 1, pos)
  BY <1>1 DEF RunFrom
<1>3. piece = [k \in 1 .. pos - n |-> shown[n + k]]
  BY <1>1, <1>2 DEF Text
<1>4. /\ Len(Rest(shown, n)) = Len(shown) - n
      /\ \A k \in 1 .. Len(shown) - n : Rest(shown, n)[k] = shown[n + k]
  <2>1. n \in 0 .. Len(shown)
    BY <1>1
  <2> QED BY <1>1, <2>1, RestIsText
<1>5. CASE AsWritten
  <2>1. src = Data(Rest(shown, n))
    BY <1>2, <1>5 DEF AsWritten, Plus, Data
  <2>2. src.at = "data" /\ src.str = Rest(shown, n)
    BY <2>1 DEF Data
  <2>3. Bytes(m, src, count) =
          [k \in 1 .. pos - n |-> IF k <= Len(src.str) THEN src.str[k] ELSE Nul]
    BY <1>2, <2>2 DEF Bytes
  <2>4. ASSUME NEW k \in 1 .. pos - n
        PROVE  (IF k <= Len(src.str) THEN src.str[k] ELSE Nul) = shown[n + k]
    BY <1>1, <1>2, <1>4, <2>2
  <2> QED BY <1>3, <2>3, <2>4
<1>6. CASE Swapped
  <2>1. fmt.at = "stack"
    BY <1>6 DEF Swapped, Stack
  <2>2. src = Stack(fmt.addr + n)
    BY <1>2, <2>1 DEF Plus
  <2>3. src.at = "stack" /\ src.addr = fmt.addr + n
    BY <2>2 DEF Stack
  <2>4. Bytes(m, src, count) =
          [k \in 1 .. pos - n |-> IF src.addr + k - 1 <= Top THEN m[src.addr + k - 1] ELSE Junk]
    BY <1>2, <2>3 DEF Bytes
  <2>5. ASSUME NEW k \in 1 .. pos - n
        PROVE  (IF src.addr + k - 1 <= Top THEN m[src.addr + k - 1] ELSE Junk) = shown[n + k]
    <3>1. fmt.addr \in Nat /\ fmt.addr + Len(shown) <= Top /\ Top \in Nat
      BY <2>1, SpAssumption DEF Holds
    <3>2. n + k \in 1 .. Len(shown) /\ fmt.addr + n + k - 1 <= Top
          /\ fmt.addr + (n + k) - 1 = fmt.addr + n + k - 1
      BY <1>1, <1>2, <3>1
    <3>3. m[fmt.addr + (n + k) - 1] = shown[n + k]
      BY <2>1, <3>2 DEF Holds
    <3> QED BY <2>3, <3>2, <3>3
  <2> QED BY <1>3, <2>4, <2>5
<1> QED
  BY <1>5, <1>6 DEF InOrder, Walking

\* Every piece is copied as it was meant, from memory that still holds the format.
LEMMA BytesOfPiece ==
  ASSUME TypeOK, InOrder, TableFits, pc = "piece",
         NEW m, fmt.at = "stack" => Holds(m, fmt.addr, shown)
  PROVE  Bytes(m, src, count) = piece
<1>1. CASE Argument
  BY <1>1, SourceOfArgument
<1>2. CASE Run
  BY <1>2, BytesOfRun DEF Run
<1> QED
  BY <1>1, <1>2 DEF InOrder

\* A run that is a source without conversions, with what follows it, is the
\* last of its format.
LEMMA LastRun ==
  ASSUME TypeOK, InOrder, pc = "piece", NEW n \in 0 .. Len(shown) - 1, RunFrom(n),
         ~ IsTemplate(Rest(shown, n))
  PROVE  pos = Len(shown) /\ piece = Rest(shown, n)
<1>1. shown \in Text /\ pos \in 1 .. Len(shown) /\ Len(shown) \in Nat
  BY SourceOfRun
<1>2. n < pos /\ (pos < Len(shown) => shown[pos + 1] = Pct) /\ piece = SubSeq(shown, n + 1, pos)
  BY DEF RunFrom
<1>3. ASSUME pos < Len(shown)  PROVE FALSE
  <2> DEFINE k == pos + 1 - n
  <2>1. k \in 1 .. Len(shown) - n /\ n + k = pos + 1
    BY <1>1, <1>2, <1>3
  <2> HIDE DEF k
  <2>2. n \in 0 .. Len(shown)
    BY <1>1
  <2>3. Len(Rest(shown, n)) = Len(shown) - n /\ Rest(shown, n)[k] = shown[n + k]
    BY <1>1, <2>1, <2>2, RestIsText
  <2> QED BY <1>2, <1>3, <2>1, <2>3 DEF IsTemplate
<1> QED
  BY <1>1, <1>2, <1>3 DEF Rest

\* The source of a run with its English in the table has no conversions, except
\* that of an untranslated format.
LEMMA RunFits ==
  ASSUME TypeOK, InOrder, TailsApart, pc = "piece", NEW n \in 0 .. Len(shown) - 1, RunFrom(n),
         Rest(shown, n) \in Key, n > 0 \/ Swapped
  PROVE  ~ IsTemplate(Rest(shown, n))
<1>1. LiteralStart(shown, n)
  BY DEF RunFrom
<1>2. CASE AsWritten /\ n > 0
  BY <1>1, <1>2 DEF TailsApart
<1>3. CASE Swapped
  BY <1>1, <1>3 DEF Swapped, TailsApart, Stack
<1> QED
  BY <1>2, <1>3 DEF InOrder, Walking

\* While the table is what it was, xlate_desc finds the piece when it finds the
\* string at r5.
LEMMA LooksUpPiece ==
  ASSUME TypeOK, InOrder, TableFits, TailsApart, pc = "piece", steady, NEW d \in Frame, Swaps(Str(src), sp - d)
  PROVE  Str(src) = piece
<1>1. CASE Argument
  BY <1>1, SourceOfArgument
<1>2. CASE Run
  <2>1. PICK n \in 0 .. Len(shown) - 1 : RunFrom(n)
    BY <1>2 DEF Run
  <2>2. Str(src) = Rest(shown, n) /\ shown \in Text
    BY <2>1, SourceOfRun
  <2>3. Rest(shown, n) \in Key
    BY <2>2 DEF Swaps, TypeOK
  <2>4. ASSUME n = 0, AsWritten  PROVE FALSE
    <3>1. PICK f \in Fmt : shown = f /\ ~ Swaps(f, sp)
      BY <2>4 DEF AsWritten
    <3>2. Str(src) = f
      BY <2>2, <2>4, <3>1 DEF Rest, Text
    <3>3. sp \in Nat /\ d \in Nat /\ ArgOff \in Nat
      BY SpAssumption, OffsetAssumption, DepthAssumption DEF TypeOK
    <3> QED BY <3>1, <3>2, <3>3 DEF Swaps
  <2>5. n > 0 \/ Swapped
    BY <2>4 DEF InOrder, Walking
  <2> QED BY <2>1, <2>2, <2>3, <2>5, RunFits, LastRun
<1> QED
  BY <1>1, <1>2 DEF InOrder

\* A swap for a piece of an English format goes to the lower slot; if the format
\* lies there itself, the piece is all of it.
LEMMA PieceOfEnglish ==
  ASSUME TypeOK, InOrder, TableFits, TailsApart, pc = "piece", Swapped,
         NEW s \in Key, s = Str(src)
  PROVE  /\ ~ IsTemplate(En[s])
         /\ ~ IsTemplate(shown) => s = shown /\ pos = Len(shown)
<1>1. CASE Argument
  BY <1>1, SourceOfArgument DEF TableFits, TemplatesApart
<1>2. CASE Run
  <2>1. PICK n \in 0 .. Len(shown) - 1 : RunFrom(n)
    BY <1>2 DEF Run
  <2>2. s = Rest(shown, n) /\ shown \in Text /\ Len(shown) \in Nat
    BY <2>1, SourceOfRun
  <2>3. ~ IsTemplate(s) /\ pos = Len(shown)
    BY <2>1, <2>2, RunFits, LastRun
  <2>4. ASSUME ~ IsTemplate(shown)  PROVE s = shown
    <3>1. n = 0
      BY <2>1, <2>2, <2>4 DEF RunFrom, LiteralStart, IsTemplate
    <3> QED BY <2>2, <3>1 DEF Rest, Text
  <2> QED BY <2>3, <2>4 DEF TableFits, TemplatesApart
<1> QED
  BY <1>1, <1>2 DEF InOrder

\* Such a swap ends below the format, or takes its place when it is done with.
LEMMA SwapLeavesFormat ==
  ASSUME TypeOK, InOrder, TableFits, TailsApart, pc = "piece", Swapped,
         NEW d \in Frame, NEW s \in Key, s = Str(src), Swaps(s, sp - d),
         pc' = "walk", pos' = pos, shown' = shown, fmt' = fmt,
         mem' = Write(mem, Slot(s, sp - d), En[s])
  PROVE  Holds(mem', fmt.addr, shown) \/ Spent'
<1>1. PICK f \in Fmt \intersect Key :
        /\ sp >= ArgOff /\ Len(En[f]) <= Cap
        /\ fmt = Stack(Slot(f, sp)) /\ shown = En[f]
  BY DEF Swapped
<1> DEFINE a == Slot(f, sp)
           b == Slot(s, sp - d)
<1>2. fmt.at = "stack" /\ fmt.addr = a
  BY <1>1 DEF Stack
<1>3. Holds(mem, a, shown)
  BY <1>2 DEF InOrder, Walking, Spent
<1>4. /\ sp \in Nat /\ sp - d \in Nat /\ sp - d >= ArgOff /\ sp - d < sp
      /\ Len(En[s]) <= Cap
  BY SpAssumption, OffsetAssumption, DepthAssumption DEF TypeOK, Swaps
<1>5. En[s] \in Text /\ shown \in Text /\ Len(En[s]) \in Nat /\ Len(shown) \in Nat
  BY <1>1, Strings
<1>6. ~ IsTemplate(En[s]) /\ (~ IsTemplate(shown) => s = shown /\ pos = Len(shown))
  BY PieceOfEnglish
<1>7. b \in Nat /\ b <= sp - d - ArgOff
  BY <1>4, <1>6, SlotPlace
<1>8. a \in Nat /\ a + Len(shown) <= Top /\ Top \in Nat
  BY <1>3, SpAssumption DEF Holds
<1>9. CASE b + Len(En[s]) < a
  BY <1>2, <1>3, <1>5, <1>7, <1>9, WriteElsewhere
<1>10. CASE IsTemplate(shown)
  <2>1. sp - FmtOff < a + Align
    BY <1>1, <1>4, <1>10, SlotPlace
  <2>2. b + Len(En[s]) < a
    <3> HIDE DEF a, b
    <3> QED BY <1>4, <1>5, <1>7, <1>8, <2>1, GapAssumption, OffsetAssumption
  <2> QED BY <1>9, <2>2
<1>11. CASE ~ IsTemplate(shown) /\ ~ (b + Len(En[s]) < a)
  <2>1. s = shown /\ pos = Len(shown) /\ s = En[f]
    BY <1>1, <1>6, <1>11
  <2>2. Len(En[s]) <= Len(shown)
    BY <1>1, <1>11, <2>1 DEF TableFits, NotLonger
  <2>3. b <= a
    <3> DEFINE x == sp - d - ArgOff
               y == sp - ArgOff
    <3>1. x \in Nat /\ y \in Nat /\ x <= y
      BY <1>4, OffsetAssumption
    <3>2. b = x - (x % Align)
      BY <1>6 DEF Slot, SwapScratch
    <3>3. a = y - (y % Align)
      BY <1>1, <1>11 DEF Slot, SwapScratch
    <3> HIDE DEF x, y
    <3> QED BY <3>1, <3>2, <3>3, AlignedInOrder
  <2> DEFINE e == b + Len(En[s])
  <2>4. e \in a .. a + pos /\ e <= Top /\ e \in 0 .. Top /\ e \in Nat
    <3> HIDE DEF a, b
    <3> QED BY <1>5, <1>7, <1>8, <1>11, <2>1, <2>2, <2>3
  <2>5. Holds(mem', b, En[s])
    BY <1>5, <1>7, <2>4, WriteHolds
  <2>6. mem'[e] = Nul
    BY <2>5 DEF Holds
  <2>7. ASSUME NEW x \in a .. e - 1  PROVE mem'[x] # Nul
    <3> HIDE DEF a, b
    <3>1. x - b + 1 \in 1 .. Len(En[s]) /\ b + (x - b + 1) - 1 = x
      BY <1>5, <1>7, <1>8, <2>3
    <3>2. mem'[x] = En[s][x - b + 1]
      BY <2>5, <3>1 DEF Holds
    <3> QED BY <1>5, <3>1, <3>2, Strings
  <2> HIDE DEF a, e
  <2> QED BY <1>2, <2>1, <2>4, <2>6, <2>7 DEF Spent
<1> QED
  BY <1>9, <1>10, <1>11

\* A swap of r7 that keeps away from the format leaves it alone.
LEMMA R7LeavesFormat ==
  ASSUME TypeOK, InOrder, pc = "piece", fmt.at = "stack",
         NEW d \in Frame, NEW s, Swaps(s, sp - d), Apart(s)
  PROVE  Holds(WithEnglish(s, sp - d), fmt.addr, shown)
<1>1. PICK f \in Fmt \intersect Key :
        /\ sp >= ArgOff /\ Len(En[f]) <= Cap
        /\ fmt = Stack(Slot(f, sp)) /\ shown = En[f]
  BY DEF InOrder, Walking, AsWritten, Swapped, Data
<1> DEFINE a == Slot(f, sp)
           b == Slot(s, sp - d)
<1>2. Holds(mem, a, shown)
  BY <1>1 DEF InOrder, Walking, Spent, Stack
<1>3. /\ s \in Key /\ En[s] \in Text /\ Len(En[s]) \in Nat /\ Len(En[s]) <= Cap
      /\ sp \in Nat /\ sp - d \in Nat /\ sp - d >= ArgOff /\ sp - d < sp
  BY SwapTyped
<1>4. IsTemplate(shown) /\ ~ IsTemplate(En[s])
  BY <1>1 DEF Apart, Stack
<1>5. b \in Nat /\ b <= sp - d - ArgOff
  BY <1>3, <1>4, SlotPlace
<1>6. sp - FmtOff < a + Align /\ a \in Nat
  BY <1>1, <1>3, <1>4, SlotPlace
<1>7. b + Len(En[s]) < a
  <2> HIDE DEF a, b
  <2> QED BY <1>3, <1>5, <1>6, GapAssumption, OffsetAssumption
<1>8. shown \in Text /\ fmt.addr = a
  BY <1>1, Strings DEF Stack
<1> QED
  BY <1>2, <1>3, <1>5, <1>7, <1>8, WriteElsewhere DEF WithEnglish

\* What was just written is copied as it is.
LEMMA BytesWritten ==
  ASSUME TypeOK, NEW d \in Frame, NEW s, Swaps(s, sp - d)
  PROVE  Bytes(WithEnglish(s, sp - d), Stack(Slot(s, sp - d)), Len(En[s])) = En[s]
<1> DEFINE b == Slot(s, sp - d)
           m == WithEnglish(s, sp - d)
           t == En[s]
<1>1. /\ s \in Key /\ t \in Text /\ Len(t) \in Nat /\ Len(t) <= Cap
      /\ sp \in Nat /\ sp <= Top /\ sp - d \in Nat /\ sp - d >= ArgOff /\ sp - d < sp
      /\ b \in 0 .. Top /\ Top \in Nat
  BY SwapTyped, SpAssumption
<1>2. b <= sp - d - FmtOff \/ b <= sp - d - ArgOff
  BY <1>1, SlotPlace
<1>3. b + Len(t) <= Top
  <2> HIDE DEF b, t
  <2> QED BY <1>1, <1>2, DepthAssumption, GapAssumption, OffsetAssumption
<1>4. Holds(m, b, t)
  BY <1>1, <1>3, WriteHolds DEF WithEnglish
<1>5. Bytes(m, Stack(b), Len(t)) = [k \in 1 .. Len(t) |-> IF b + k - 1 <= Top THEN m[b + k - 1] ELSE Junk]
  <2> HIDE DEF b, m, t
  <2> QED BY DEF Bytes, Stack
<1>6. ASSUME NEW k \in 1 .. Len(t)
      PROVE  (IF b + k - 1 <= Top THEN m[b + k - 1] ELSE Junk) = t[k]
  <2> HIDE DEF b, m, t
  <2>1. b + k - 1 <= Top
    BY <1>1, <1>3
  <2> QED BY <1>4, <2>1 DEF Holds
<1>7. t = [k \in 1 .. Len(t) |-> t[k]]
  BY <1>1 DEF Text
<1> HIDE DEF b, m, t
<1>8. Bytes(m, Stack(b), Len(t)) = t
  BY <1>5, <1>6, <1>7
<1> QED
  BY <1>8 DEF b, m, t

LEMMA WriteProcKeeps ==
  ASSUME TypeOK, InOrder, Regular, TableFits, WriteProc, ~ stray'
  PROVE  InOrder'
<1>1. PICK d \in Frame, r7 \in Other, end \in Other :
        \/ SwapR7(sp - d, r7)
        \/ SwapR4(sp - d, IF dst.at = "data" THEN end ELSE StrAt(dst.addr))
        \/ SwapR5(sp - d, Str(src))
        \/ NoSwap
  BY DEF WriteProc
<1>2. /\ pc = "piece" /\ pc' = "walk"
      /\ UNCHANGED <<loaded, sp, fmt, pos, steady, shown, piece>>
  BY DEF WriteProc
<1>3. dst.at = "data"
  BY PointerParts DEF TypeOK, Regular
<1>4. Boundary'
  <2>1. CASE Argument
    BY <1>2, <2>1 DEF Argument, Boundary
  <2>2. CASE Run
    BY <1>2, <2>2 DEF Run, RunFrom, Boundary
  <2> QED BY <1>2, <2>1, <2>2 DEF InOrder
<1>5. (AsWritten => AsWritten') /\ (Swapped => Swapped')
  BY <1>2 DEF AsWritten, Swapped, Swaps
<1>6. ASSUME fmt.at = "stack" => Holds(mem', fmt.addr, shown) \/ Spent',
             steady => out' = want'
      PROVE  InOrder'
  BY <1>2, <1>4, <1>5, <1>6 DEF InOrder, Walking
<1>7. fmt.at = "stack" => Holds(mem, fmt.addr, shown)
  BY <1>2 DEF InOrder, Walking, Spent
<1>8. CASE SwapR7(sp - d, r7)
  <2>1. /\ Swaps(r7, sp - d) /\ Apart(r7)
        /\ AppendTo(dst, WithEnglish(r7, sp - d), src, count) /\ want' = want \o piece
    BY <1>8 DEF SwapR7
  <2>2. mem' = WithEnglish(r7, sp - d) /\ out' = out \o Bytes(WithEnglish(r7, sp - d), src, count)
    BY <1>3, <2>1 DEF AppendTo
  <2>3. fmt.at = "stack" => Holds(mem', fmt.addr, shown)
    BY <1>2, <2>1, <2>2, R7LeavesFormat
  <2>4. Bytes(mem', src, count) = piece
    BY <1>2, <2>3, BytesOfPiece
  <2>5. steady => out' = want'
    BY <1>2, <2>1, <2>2, <2>4 DEF InOrder, Walking
  <2> QED BY <1>6, <2>3, <2>5
<1>9. CASE SwapR4(sp - d, IF dst.at = "data" THEN end ELSE StrAt(dst.addr))
  BY <1>9 DEF SwapR4
<1>10. CASE SwapR5(sp - d, Str(src))
  <2> DEFINE s == Str(src)
  <2>1. /\ Swaps(s, sp - d)
        /\ AppendTo(dst, WithEnglish(s, sp - d), Stack(Slot(s, sp - d)), Len(En[s]))
        /\ want' = want \o (IF piece \in Key THEN En[piece] ELSE piece)
    BY <1>10 DEF SwapR5
  <2>2. /\ mem' = WithEnglish(s, sp - d)
        /\ out' = out \o Bytes(WithEnglish(s, sp - d), Stack(Slot(s, sp - d)), Len(En[s]))
    BY <1>3, <2>1 DEF AppendTo
  <2>3. s \in Key
    BY <2>1, SwapTyped
  <2>4. out' = out \o En[s]
    BY <2>1, <2>2, BytesWritten
  <2>5. steady => s = piece
    BY <1>2, <2>1, LooksUpPiece DEF Regular
  <2>6. steady => out' = want'
    BY <1>2, <2>1, <2>3, <2>4, <2>5 DEF InOrder, Walking
  <2>7. ASSUME fmt.at = "stack"  PROVE Holds(mem', fmt.addr, shown) \/ Spent'
    <3>1. Swapped
      BY <1>2, <2>7 DEF InOrder, Walking, AsWritten, Data
    <3>2. mem' = Write(mem, Slot(s, sp - d), En[s])
      BY <2>2 DEF WithEnglish
    <3>3. s = Str(src)
      OBVIOUS
    <3> HIDE DEF s
    <3> QED BY <1>2, <2>1, <2>3, <3>1, <3>2, <3>3, SwapLeavesFormat DEF Regular
  <2> QED BY <1>6, <2>6, <2>7
<1>11. CASE NoSwap
  <2>1. AppendTo(dst, mem, src, count) /\ want' = want \o piece
    BY <1>11 DEF NoSwap
  <2>2. mem' = mem /\ out' = out \o Bytes(mem, src, count)
    BY <1>3, <2>1 DEF AppendTo
  <2>3. Bytes(mem, src, count) = piece
    BY <1>2, <1>7, BytesOfPiece
  <2>4. steady => out' = want'
    BY <1>2, <2>1, <2>2, <2>3 DEF InOrder, Walking
  <2> QED BY <1>6, <1>7, <2>2, <2>4
<1> QED
  BY <1>1, <1>8, <1>9, <1>10, <1>11

LEMMA StutterKeeps ==
  ASSUME InOrder, UNCHANGED vars
  PROVE  InOrder'
<1>1. (AsWritten => AsWritten') /\ (Swapped => Swapped') /\ (Spent => Spent')
  BY DEF AsWritten, Swapped, Spent, Swaps, vars
<1>2. Walking' /\ Boundary'
  BY <1>1 DEF InOrder, Walking, Boundary, vars
<1>3. pc' = "piece" => Argument' \/ Run'
  BY DEF InOrder, Argument, Run, RunFrom, vars
<1> QED
  BY <1>2, <1>3 DEF InOrder

-----------------------------------------------------------------------------
(* The theorems *)

\* A call that is regular was regular before, but for the one that just began.
LEMMA RegularBefore ==
  ASSUME TypeOK, Regular', [Next]_vars, ~ Printf, ~ Return
  PROVE  Regular
<1>1. shown' = shown /\ fmt' = fmt
  BY DEF Next, Convert, Literal, WriteProc, Reload, vars
<1>2. TailsApart
  BY <1>1 DEF Regular, TailsApart
<1>3. stray => stray'
  BY DEF Next, Convert, Literal, WriteProc, SwapR7, SwapR4, SwapR5, NoSwap, Reload, vars
<1> QED
  BY <1>2, <1>3 DEF Regular

\* IInv holds of every reachable state.
LEMMA Invariance ==
  ASSUME TableFits
  PROVE  Spec => []IInv
<1>1. IInv /\ [Next]_vars => IInv'
  <2> SUFFICES ASSUME IInv, [Next]_vars PROVE IInv'
    OBVIOUS
  <2>1. TypeOK /\ TypeOK'
    BY StepTyped DEF IInv
  <2>2. ASSUME Regular'  PROVE InOrder'
    <3>1. CASE Printf
      BY <2>1, <3>1, PrintfKeeps
    <3>2. CASE Return
      BY <3>2, ReturnKeeps
    <3>3. CASE ~ Printf /\ ~ Return
      <4>1. Regular /\ InOrder /\ ~ stray'
        BY <2>1, <2>2, <3>3, RegularBefore DEF IInv, Regular
      <4> QED
        BY <2>1, <3>3, <4>1, ConvertKeeps, LiteralKeeps, WriteProcKeeps, ReloadKeeps,
           StutterKeeps DEF Next
    <3> QED BY <3>1, <3>2, <3>3
  <2> QED
    BY <2>1, <2>2 DEF IInv
<1> QED
  BY <1>1, InitInv, PTL DEF Spec

\* What is left of an English format below the stack pointer stays what the hook
\* wrote, whatever swaps for its pieces and callees' frames come between, at every
\* stack depth and even when the table is reloaded meanwhile (swap_scratch).
THEOREM FormatSurvives ==
  ASSUME TableFits
  PROVE  Spec => []SwapInv
<1>1. IInv => SwapInv
  BY FormatRest DEF IInv, SwapInv, FormatIntact
<1> QED
  BY <1>1, Invariance, PTL

\* The writeproc has written every piece in its place, the English of each that
\* the hook found and the bytes of every other, with no length left over from the
\* Japanese, as long as the table is not reloaded in between (xlate_desc).
THEOREM ComposesPieces ==
  ASSUME TableFits
  PROVE  Spec => []ComposedRight
<1>1. IInv => ComposedRight
  BY DEF IInv, InOrder, Walking, ComposedRight
<1> QED
  BY <1>1, Invariance, PTL


=============================================================================
