-------------------------- MODULE LauncherCfgProofs --------------------------
(***************************************************************************)
(* Theorems about the two ends of launcher.cfg.                            *)
(*                                                                         *)
(* Boot writes it: the game plays what the user launched it with, for any  *)
(* number of players and paths, because each reader finds under its keys   *)
(* what the launcher's writer put there (ReadsBack, PlaysWritten); and the *)
(* ROM chosen last is the one that boots.                                  *)
(*                                                                         *)
(* PortRouting reads it: RoutingInv and RumbleIsInput for any number of    *)
(* ports and pads, any launcher.cfg and any environment.  Each turn of the *)
(* boot thread's loop counts the pads again; two turns still cannot choose *)
(* the same pad, because a pad that was dealt moves only towards the front *)
(* of the enumeration as others are pulled out, and a later player looks   *)
(* further back (Dealt, Distinct).  Only a pad plugged in before a dealt   *)
(* one moves it back, and that is what overtaken records.                  *)
(***************************************************************************)
EXTENDS PortRouting, Boot, FiniteSetTheorems, SequenceTheorems, TLAPS

-----------------------------------------------------------------------------
(* Input routing *)

\* A later player has a higher ordinal than an earlier gamepad player.
LEMMA OrdinalGrows ==
  ASSUME NEW f \in [Port -> Entry], NEW q \in Port, NEW p \in Port, q < p, f[q].device >= 2
  PROVE  Ordinal(f, q) \in Nat /\ Ordinal(f, p) \in Nat /\ Ordinal(f, q) < Ordinal(f, p)
<1> DEFINE A == {j \in Port : j < q /\ f[j].device >= 2}
           B == {j \in Port : j < p /\ f[j].device >= 2}
<1>1. IsFiniteSet(Port)
  BY FS_Interval, PortsAssumption DEF Port
<1>2. A \subseteq Port /\ B \subseteq Port /\ A \union {q} \subseteq B /\ q \notin A
  BY PortsAssumption DEF Port
<1>3. IsFiniteSet(A) /\ IsFiniteSet(B)
  BY <1>1, <1>2, FS_Subset
<1>4. Cardinality(A \union {q}) = Cardinality(A) + 1 /\ IsFiniteSet(A \union {q})
  BY <1>2, <1>3, FS_AddElement
<1>5. Cardinality(A \union {q}) <= Cardinality(B)
  BY <1>2, <1>3, FS_Subset
<1>6. Cardinality(A) \in Nat /\ Cardinality(B) \in Nat
  BY <1>3, FS_CardinalityType
<1>7. Ordinal(f, q) = Cardinality(A) /\ Ordinal(f, p) = Cardinality(B)
  BY DEF Ordinal
<1> HIDE DEF A, B
<1> QED
  BY <1>4, <1>5, <1>6, <1>7

\* An ordinal is a natural number.
LEMMA OrdinalIsNat ==
  ASSUME NEW f \in [Port -> Entry], NEW p \in Port
  PROVE  Ordinal(f, p) \in Nat
<1> DEFINE B == {j \in Port : j < p /\ f[j].device >= 2}
<1>1. IsFiniteSet(Port) /\ B \subseteq Port
  BY FS_Interval, PortsAssumption DEF Port
<1>2. Cardinality(B) \in Nat
  BY <1>1, FS_Subset, FS_CardinalityType
<1> QED
  BY <1>2 DEF Ordinal

\* What a port is assigned: a pad only to a gamepad player, and then the pad
\* behind as many as there are gamepad players before it.
LEMMA Assignment ==
  ASSUME NEW f \in File, NEW p \in Port, NEW n \in Nat, NEW ps \in Seq(1 .. n)
  PROVE  LET pa == PortAssignment(f, p, ps) IN
         /\ pa.enabled \in BOOLEAN /\ pa.kind \in Kind
         /\ pa.instance \in {-1} \union 1 .. n
         /\ pa.instance # -1 =>
              /\ f # NoFile /\ f \in [Port -> Entry] /\ f[p].device = 2
              /\ Ordinal(f, p) < Len(ps) /\ pa.instance = ps[Ordinal(f, p) + 1]
<1>1. CASE f = NoFile
  BY <1>1 DEF PortAssignment, Disabled, Kind
<1>2. CASE f # NoFile
  <2>1. f \in [Port -> Entry]
    BY <1>2 DEF File
  <2>2. f[p].device \in 0 .. 2
    BY <2>1 DEF Entry
  <2>3. Ordinal(f, p) \in Nat
    BY <2>1, OrdinalIsNat
  <2>4. <<"None", "Keyboard", "Gamepad">>[f[p].device + 1] \in Kind
    <3>1. f[p].device = 0 \/ f[p].device = 1 \/ f[p].device = 2
      BY <2>2
    <3> QED BY <3>1 DEF Kind
  <2>5. /\ NthGamepad(ps, Ordinal(f, p)) \in {-1} \union 1 .. n
        /\ NthGamepad(ps, Ordinal(f, p)) # -1 =>
             /\ Ordinal(f, p) < Len(ps)
             /\ NthGamepad(ps, Ordinal(f, p)) = ps[Ordinal(f, p) + 1]
    BY <2>3 DEF NthGamepad
  <2> QED BY <1>2, <2>1, <2>2, <2>4, <2>5 DEF PortAssignment
<1> QED
  BY <1>1, <1>2

\* Pulling out the pad at place i moves those behind it up by one.
LEMMA Remove ==
  ASSUME NEW S, NEW s \in Seq(S), NEW i \in 1 .. Len(s)
  PROVE  LET r == SubSeq(s, 1, i - 1) \o SubSeq(s, i + 1, Len(s)) IN
         /\ r \in Seq(S)
         /\ Len(r) = Len(s) - 1
         /\ \A j \in 1 .. Len(r) : r[j] = IF j < i THEN s[j] ELSE s[j + 1]
<1> DEFINE a == SubSeq(s, 1, i - 1)
           b == SubSeq(s, i + 1, Len(s))
<1>1. a \in Seq(S) /\ Len(a) = i - 1 /\ \A j \in 1 .. Len(a) : a[j] = s[j]
  OBVIOUS
<1>2. b \in Seq(S) /\ Len(b) = Len(s) - i /\ \A j \in 1 .. Len(b) : b[j] = s[j + i]
  OBVIOUS
<1> HIDE DEF a, b
<1>3. a \o b \in Seq(S) /\ Len(a \o b) = Len(a) + Len(b)
      /\ \A j \in 1 .. Len(a) + Len(b) : (a \o b)[j] = IF j <= Len(a) THEN a[j] ELSE b[j - Len(a)]
  BY <1>1, <1>2, ConcatProperties
<1>4. \A j \in 1 .. Len(a \o b) : (a \o b)[j] = IF j < i THEN s[j] ELSE s[j + 1]
  BY <1>1, <1>2, <1>3
<1>5. Len(a \o b) = Len(s) - 1
  BY <1>1, <1>2, <1>3
<1> QED
  BY <1>3, <1>4, <1>5 DEF a, b

\* r is s with e put in at place i, and those from there on moved down by one.
Inserted(r, s, e, i) ==
  /\ Len(r) = Len(s) + 1
  /\ \A j \in 1 .. Len(r) : r[j] = IF j < i THEN s[j] ELSE IF j = i THEN e ELSE s[j - 1]

\* What plugging one in at place i makes of the pads.
LEMMA Insert ==
  ASSUME NEW S, NEW s \in Seq(S), NEW e \in S, NEW i \in 1 .. Len(s) + 1
  PROVE  LET r == SubSeq(s, 1, i - 1) \o <<e>> \o SubSeq(s, i, Len(s))
         IN  r \in Seq(S) /\ Inserted(r, s, e, i)
<1> DEFINE a == SubSeq(s, 1, i - 1)
           b == SubSeq(s, i, Len(s))
           c == a \o <<e>>
<1>1. a \in Seq(S) /\ Len(a) = i - 1 /\ \A j \in 1 .. Len(a) : a[j] = s[j]
  OBVIOUS
<1>2. b \in Seq(S) /\ Len(b) = Len(s) - i + 1 /\ \A j \in 1 .. Len(b) : b[j] = s[j + i - 1]
  OBVIOUS
<1> HIDE DEF a, b
<1>3. c \in Seq(S) /\ Len(c) = i
      /\ \A j \in 1 .. Len(c) : c[j] = IF j < i THEN s[j] ELSE e
  BY <1>1
<1> HIDE DEF c
<1>4. c \o b \in Seq(S) /\ Len(c \o b) = Len(c) + Len(b)
      /\ \A j \in 1 .. Len(c) + Len(b) : (c \o b)[j] = IF j <= Len(c) THEN c[j] ELSE b[j - Len(c)]
  BY <1>2, <1>3, ConcatProperties
<1>5. Len(c \o b) = Len(s) + 1
  BY <1>2, <1>3, <1>4
<1>6. \A j \in 1 .. Len(c \o b) :
        (c \o b)[j] = IF j < i THEN s[j] ELSE IF j = i THEN e ELSE s[j - 1]
  <2> SUFFICES ASSUME NEW j \in 1 .. Len(c \o b)
               PROVE  (c \o b)[j] = IF j < i THEN s[j] ELSE IF j = i THEN e ELSE s[j - 1]
    OBVIOUS
  <2>1. CASE j <= i
    BY <1>2, <1>3, <1>4, <2>1
  <2>2. CASE j > i
    <3>1. j - i \in 1 .. Len(b) /\ (j - i) + i - 1 = j - 1
      BY <1>2, <1>5, <2>2
    <3>2. b[j - i] = s[j - 1]
      BY <1>2, <3>1
    <3>3. (c \o b)[j] = b[j - i]
      BY <1>3, <1>4, <2>2
    <3> QED BY <2>2, <3>2, <3>3
  <2> QED BY <2>1, <2>2
<1> QED
  BY <1>4, <1>5, <1>6 DEF a, b, c, Inserted

\* The connected pads are those SDL enumerates.
LEMMA ConnectedIn ==
  ASSUME NEW S, pads \in Seq(S)
  PROVE  Connected \subseteq S
BY DEF Connected

-----------------------------------------------------------------------------
\* The initial state satisfies the inductive invariant.
LEMMA InitIInv == Init => IInv
<1> SUFFICES ASSUME Init PROVE IInv
  OBVIOUS
<1> USE PortsAssumption, PadsAssumption DEF Port, Done, Starting, Mounting
<1>1. PICK n \in 0 .. Pads : plugged = n /\ pads = [i \in 1 .. n |-> i]
  BY DEF Init
<1>2. pads \in Seq(1 .. plugged) /\ Len(pads) = n /\ \A i \in 1 .. n : pads[i] = i
  BY <1>1
<1>3. /\ opened = {} /\ portPad = [p \in Port |-> -1] /\ gPad = -1
      /\ boot \in 0 .. Done
      /\ enabled = [p \in Port |-> FALSE] /\ kind = [p \in Port |-> "None"]
      /\ instance = [p \in Port |-> -1]
      /\ active = FALSE /\ carts = [p \in Port |-> NoPath]
      /\ autoboot \in BOOLEAN /\ file \in Files /\ env \in Envs
      /\ refused = {} /\ overtaken = FALSE
  BY DEF Init
<1>4. TypeOK
  <2>1. Connected \subseteq 1 .. plugged
    BY <1>2, ConnectedIn
  <2>2. /\ enabled \in [Port -> BOOLEAN] /\ kind \in [Port -> Kind]
        /\ instance \in [Port -> -1 .. Pads] /\ portPad \in [Port -> -1 .. Pads]
        /\ gPad \in -1 .. Pads /\ carts \in [Port -> Paths]
    BY <1>3 DEF Kind, Paths
  <2> QED BY <1>1, <1>3, <2>1, <2>2 DEF TypeOK
<1>5. Enumerated /\ Handed /\ Dealt /\ Distinct
  BY <1>1, <1>2, <1>3 DEF Enumerated, Handed, Dealt, Distinct
<1> QED
  BY <1>4, <1>5 DEF IInv

-----------------------------------------------------------------------------
(* The boot thread. *)

LEMMA ApplyPortStep ==
  ASSUME IInv, NEW p \in Port, ApplyPort(p)
  PROVE  IInv'
<1> DEFINE pa == PortAssignment(file, p, pads)
<1>1. /\ TypeOK /\ Enumerated /\ Handed /\ Dealt /\ Distinct
      /\ boot = p /\ boot' = p + 1
      /\ enabled' = [enabled EXCEPT ![p] = pa.enabled]
      /\ kind' = [kind EXCEPT ![p] = IF pa.enabled THEN pa.kind ELSE "None"]
      /\ instance' = [instance EXCEPT ![p] = pa.instance]
      /\ UNCHANGED <<hostVars, padVars, handleVars, active, carts>>
  BY DEF IInv, ApplyPort
<1>2. file \in File /\ plugged \in Nat /\ pads \in Seq(1 .. plugged) /\ plugged <= Pads
  BY <1>1, FilesAssumption, PadsAssumption DEF Enumerated, TypeOK
<1>3. /\ pa.enabled \in BOOLEAN /\ pa.kind \in Kind
      /\ pa.instance \in {-1} \union 1 .. plugged
      /\ pa.instance # -1 =>
           /\ file # NoFile /\ file \in [Port -> Entry] /\ file[p].device = 2
           /\ Ordinal(file, p) < Len(pads) /\ pa.instance = pads[Ordinal(file, p) + 1]
  BY <1>2, Assignment
<1> HIDE DEF pa
<1> USE PortsAssumption, PadsAssumption DEF Port, Done, Starting, Mounting
<1>4. TypeOK'
  <2>1. /\ enabled' \in [Port -> BOOLEAN] /\ kind' \in [Port -> Kind]
        /\ instance' \in [Port -> -1 .. Pads] /\ boot' \in 0 .. Done
    <3>1. pa.instance \in -1 .. Pads /\ boot' \in 0 .. Done
      BY <1>1, <1>2, <1>3
    <3>2. (IF pa.enabled THEN pa.kind ELSE "None") \in Kind
      BY <1>3 DEF Kind
    <3> QED BY <1>1, <1>3, <3>1, <3>2 DEF TypeOK
  <2> QED BY <1>1, <2>1 DEF TypeOK, Connected, hostVars, padVars, handleVars
<1>5. Enumerated'
  BY <1>1 DEF Enumerated, hostVars, padVars
\* The routing is not active yet, so no port has a handle.
<1>6. Handed'
  <2>1. ~ active /\ \A q \in Port : portPad[q] = -1
    BY <1>1 DEF Handed
  <2> QED BY <1>1, <2>1 DEF Handed, TypeOK, handleVars
<1>7. Dealt'
  <2>1. ASSUME NEW q \in Port, instance'[q] # -1, q # p
        PROVE  /\ q < boot' /\ file' # NoFile /\ file'[q].device = 2
               /\ instance'[q] \in 1 .. plugged'
               /\ ~ overtaken' /\ boot' \in Port =>
                    \A i \in 1 .. Len(pads') : i > Ordinal(file', q) + 1 => pads'[i] # instance'[q]
    <3>1. /\ instance'[q] = instance[q] /\ file' = file /\ pads' = pads /\ plugged' = plugged
          /\ overtaken' = overtaken
      BY <1>1, <2>1 DEF TypeOK, hostVars, padVars
    <3> QED BY <1>1, <2>1, <3>1 DEF Dealt
  <2>2. ASSUME instance'[p] # -1
        PROVE  /\ p < boot' /\ file' # NoFile /\ file'[p].device = 2
               /\ instance'[p] \in 1 .. plugged'
               /\ ~ overtaken' /\ boot' \in Port =>
                    \A i \in 1 .. Len(pads') : i > Ordinal(file', p) + 1 => pads'[i] # instance'[p]
    <3>1. instance'[p] = pa.instance /\ file' = file /\ pads' = pads /\ plugged' = plugged
      BY <1>1 DEF TypeOK, hostVars, padVars
    <3>2. Ordinal(file, p) \in Nat
      BY <1>3, <2>2, <3>1, OrdinalIsNat
    <3>3. \A i \in 1 .. Len(pads) : i > Ordinal(file, p) + 1 => pads[i] # pads[Ordinal(file, p) + 1]
      BY <1>1, <1>3, <2>2, <3>1, <3>2 DEF Enumerated
    <3> QED BY <1>1, <1>3, <2>2, <3>1, <3>3
  <2> QED BY <2>1, <2>2 DEF Dealt
\* An earlier gamepad player has a lower ordinal, and its own pad is not behind
\* the place of that ordinal.
<1>8. Distinct'
  <2>1. ASSUME ~ overtaken, NEW q \in Port, q < p, instance[q] # -1, pa.instance # -1
        PROVE  instance[q] # pa.instance
    <3>1. file[q].device = 2 /\ file \in [Port -> Entry]
      BY <1>1, <1>3, <2>1 DEF Dealt
    <3>2. /\ Ordinal(file, q) \in Nat /\ Ordinal(file, p) \in Nat
          /\ Ordinal(file, q) < Ordinal(file, p)
      BY <2>1, <3>1, OrdinalGrows
    <3>3. pads[Ordinal(file, p) + 1] # instance[q]
      <4>1. Ordinal(file, p) + 1 \in 1 .. Len(pads) /\ Ordinal(file, p) + 1 > Ordinal(file, q) + 1
        <5>1. Ordinal(file, p) < Len(pads) /\ Len(pads) \in Nat
          BY <1>2, <1>3, <2>1
        <5> QED BY <3>2, <5>1
      <4> QED BY <1>1, <2>1, <4>1 DEF Dealt
    <3> QED BY <1>2, <1>3, <2>1, <3>2, <3>3
  <2>2. ASSUME NEW q \in Port, instance[q] # -1
        PROVE  q < p
    BY <1>1, <2>2 DEF Dealt
  <2>3. /\ instance'[p] = pa.instance
        /\ \A q \in Port : q # p => instance'[q] = instance[q]
    BY <1>1 DEF TypeOK
  <2> SUFFICES ASSUME ~ overtaken, NEW q \in Port, NEW r \in Port, q < r, instance'[q] # -1,
                      instance'[q] = instance'[r]
               PROVE  FALSE
    BY <1>1 DEF Distinct, padVars
  <2>4. CASE r = p
    BY <2>1, <2>3, <2>4
  <2>5. CASE r # p
    <3>1. r < p /\ instance'[r] = instance[r] /\ instance'[q] = instance[q]
      BY <2>2, <2>3, <2>5
    <3> QED BY <1>1, <3>1 DEF Distinct
  <2> QED BY <2>4, <2>5
<1> QED
  BY <1>4, <1>5, <1>6, <1>7, <1>8 DEF IInv

LEMMA ActivateStep ==
  ASSUME IInv, Activate
  PROVE  IInv'
<1> USE PortsAssumption DEF Port, Done, Starting, Mounting, Activating
<1>1. /\ TypeOK /\ Enumerated /\ Handed /\ Dealt /\ Distinct
      /\ boot = Ports /\ active' = TRUE /\ boot' = Ports + 1
      /\ UNCHANGED <<hostVars, padVars, tableVars, handleVars, carts>>
  BY DEF IInv, Activate
<1>2. TypeOK'
  BY <1>1 DEF TypeOK, Connected, hostVars, padVars, tableVars, handleVars
<1>3. Enumerated' /\ Dealt' /\ Distinct'
  BY <1>1 DEF Enumerated, Dealt, Distinct, hostVars, padVars, tableVars
<1>4. Handed'
  BY <1>1 DEF Handed, tableVars, handleVars
<1> QED
  BY <1>2, <1>3, <1>4 DEF IInv

LEMMA LoadPaksStep ==
  ASSUME IInv, LoadPaks
  PROVE  IInv'
<1> USE PortsAssumption DEF Port, Done, Starting, Mounting
<1>1. /\ TypeOK /\ Enumerated /\ Handed /\ Dealt /\ Distinct
      /\ boot = Ports + 1 /\ boot' = Ports + 2
      /\ UNCHANGED <<hostVars, padVars, tableVars, handleVars, active>>
  BY DEF IInv, LoadPaks
<1>2. ASSUME NEW p \in Port
      PROVE  PakPath(file, env, p, "rom") \in Paths
  <2>1. file \in File /\ env \in [Port -> [rom : Paths, save : Paths]]
    BY <1>1, FilesAssumption, EnvsAssumption DEF Enumerated
  <2>2. env[p]["rom"] \in Paths
    BY <2>1
  <2>3. file # NoFile => file[p]["rom"] \in Paths
    BY <2>1 DEF File, Entry
  <2> QED BY <2>2, <2>3, CutAssumption DEF PakPath, Paths
<1>3. carts' \in [Port -> Paths]
  <2>1. PICK missing \in SUBSET Path :
           carts' = [p \in Port |-> LET c == PakPath(file, env, p, "rom")
                                    IN IF c \in missing THEN NoPath ELSE c]
    BY DEF LoadPaks
  <2> QED BY <1>2, <2>1 DEF Paths
<1>4. TypeOK'
  BY <1>1, <1>3 DEF TypeOK, Connected, hostVars, padVars, tableVars, handleVars
<1>5. Enumerated' /\ Handed' /\ Dealt' /\ Distinct'
  BY <1>1 DEF Enumerated, Handed, Dealt, Distinct, hostVars, padVars, tableVars, handleVars
<1> QED
  BY <1>4, <1>5 DEF IInv

LEMMA StartGameStep ==
  ASSUME IInv, StartGame
  PROVE  IInv'
<1> USE PortsAssumption DEF Port, Done, Starting, Mounting
<1>1. /\ TypeOK /\ Enumerated /\ Handed /\ Dealt /\ Distinct
      /\ boot = Ports + 2 /\ boot' = Ports + 3
      /\ UNCHANGED <<hostVars, padVars, tableVars, handleVars, active, carts>>
  BY DEF IInv, StartGame
<1>2. TypeOK'
  BY <1>1 DEF TypeOK, Connected, hostVars, padVars, tableVars, handleVars
<1>3. Enumerated' /\ Handed' /\ Dealt' /\ Distinct'
  BY <1>1 DEF Enumerated, Handed, Dealt, Distinct, hostVars, padVars, tableVars, handleVars
<1> QED
  BY <1>2, <1>3 DEF IInv

-----------------------------------------------------------------------------
(* The pads. *)

LEMMA PollPortStep ==
  ASSUME IInv, NEW p \in Port, PollPort(p)
  PROVE  IInv'
<1>1. /\ TypeOK /\ Enumerated /\ Handed /\ Dealt /\ Distinct
      /\ active /\ kind[p] = "Gamepad" /\ instance[p] >= 0
      /\ instance[p] \in Connected \union opened
      /\ portPad' = [portPad EXCEPT ![p] = instance[p]]
      /\ opened' = opened \union {instance[p]}
      /\ refused' = refused \ {p}
      /\ UNCHANGED <<hostVars, padVars, tableVars, boot, active, gPad, carts>>
  BY DEF IInv, PollPort, Wanting
<1>2. TypeOK'
  BY <1>1 DEF TypeOK, Connected, hostVars, padVars, tableVars
<1>3. Enumerated' /\ Dealt' /\ Distinct'
  BY <1>1 DEF Enumerated, Dealt, Distinct, hostVars, padVars, tableVars
<1>4. Handed'
  BY <1>1 DEF Handed, TypeOK, tableVars
<1> QED
  BY <1>2, <1>3, <1>4 DEF IInv

LEMMA PollRefusedStep ==
  ASSUME IInv, NEW p \in Port, PollRefused(p)
  PROVE  IInv'
<1>1. /\ TypeOK /\ Enumerated /\ Handed /\ Dealt /\ Distinct
      /\ refused' = refused \union {p}
      /\ UNCHANGED <<hostVars, padVars, tableVars, boot, active, opened, portPad, gPad, carts>>
  BY DEF IInv, PollRefused
<1>2. TypeOK'
  BY <1>1 DEF TypeOK, Connected, hostVars, padVars, tableVars
<1>3. Enumerated' /\ Handed' /\ Dealt' /\ Distinct'
  BY <1>1 DEF Enumerated, Handed, Dealt, Distinct, hostVars, padVars, tableVars
<1> QED
  BY <1>2, <1>3 DEF IInv

LEMMA EnsurePadOpenStep ==
  ASSUME IInv, EnsurePadOpen
  PROVE  IInv'
<1>1. /\ TypeOK /\ Enumerated /\ Handed /\ Dealt /\ Distinct
      /\ UNCHANGED <<hostVars, padVars, tableVars, boot, active, portPad, carts, refused>>
  BY DEF IInv, EnsurePadOpen
<1>2. PICK i \in 1 .. Len(pads) : gPad' = pads[i] /\ opened' = opened \union {pads[i]}
  BY DEF EnsurePadOpen
<1>3. pads[i] \in 1 .. plugged /\ pads[i] \in -1 .. Pads
  BY <1>1, PadsAssumption DEF Enumerated, TypeOK
<1>4. TypeOK'
  BY <1>1, <1>2, <1>3 DEF TypeOK, Connected, hostVars, padVars, tableVars
<1>5. Enumerated' /\ Handed' /\ Dealt' /\ Distinct'
  BY <1>1 DEF Enumerated, Handed, Dealt, Distinct, hostVars, padVars, tableVars
<1> QED
  BY <1>4, <1>5 DEF IInv

\* A new pad has a number above all others.  Unless it overtakes one that was
\* dealt while ports still wait, those behind it are nobody's.
LEMMA PlugStep ==
  ASSUME IInv, Plug
  PROVE  IInv'
<1>1. /\ TypeOK /\ Enumerated /\ Handed /\ Dealt /\ Distinct
      /\ plugged < Pads /\ plugged' = plugged + 1
      /\ UNCHANGED <<hostVars, tableVars, handleVars, boot, active, carts>>
  BY DEF IInv, Plug
<1>2. PICK k \in 1 .. Len(pads) + 1 :
        /\ pads' = SubSeq(pads, 1, k - 1) \o <<plugged + 1>> \o SubSeq(pads, k, Len(pads))
        /\ overtaken' = (overtaken \/ Given(k))
  BY DEF Plug
<1>3. plugged \in Nat /\ plugged + 1 <= Pads /\ pads \in Seq(1 .. plugged)
  BY <1>1, PadsAssumption DEF TypeOK, Enumerated
<1>4. /\ pads' \in Seq(1 .. plugged + 1) /\ Len(pads') = Len(pads) + 1
      /\ \A j \in 1 .. Len(pads') :
           pads'[j] = IF j < k THEN pads[j] ELSE IF j = k THEN plugged + 1 ELSE pads[j - 1]
  <2>1. pads \in Seq(1 .. plugged + 1) /\ plugged + 1 \in 1 .. plugged + 1
    BY <1>3
  <2>2. pads' \in Seq(1 .. plugged + 1) /\ Inserted(pads', pads, plugged + 1, k)
    BY <1>2, <2>1, Insert, Zenon
  <2> QED BY <2>2 DEF Inserted
<1>5. \A j \in 1 .. Len(pads) : pads[j] \in 1 .. plugged
  BY <1>3, ElementOfSeq
<1>6. TypeOK'
  <2>1. Connected' \subseteq 1 .. plugged'
    <3>1. \A i \in 1 .. Len(pads') : pads'[i] \in 1 .. plugged + 1
      BY <1>4, ElementOfSeq
    <3> QED BY <1>1, <3>1 DEF Connected
  <2>2. overtaken' \in BOOLEAN
    BY <1>1, <1>2 DEF TypeOK, Given
  <2>3. opened' \subseteq 1 .. plugged' /\ plugged' \in 0 .. Pads
    BY <1>1, <1>3 DEF TypeOK, handleVars
  <2> QED BY <1>1, <2>1, <2>2, <2>3 DEF TypeOK, hostVars, tableVars, handleVars
<1>7. Enumerated'
  <2>1. \A i, j \in 1 .. Len(pads') : i # j => pads'[i] # pads'[j]
    <3> SUFFICES ASSUME NEW i \in 1 .. Len(pads'), NEW j \in 1 .. Len(pads'), i < j
                 PROVE  pads'[i] # pads'[j]
      BY <1>3, <1>4
    <3>1. \A a, b \in 1 .. Len(pads) : a # b => pads[a] # pads[b]
      BY <1>1 DEF Enumerated
    <3>2. Len(pads) \in Nat /\ Len(pads') = Len(pads) + 1
      BY <1>3, <1>4
    <3>3. pads'[i] = IF i < k THEN pads[i] ELSE IF i = k THEN plugged + 1 ELSE pads[i - 1]
      BY <1>4
    <3>4. pads'[j] = IF j < k THEN pads[j] ELSE IF j = k THEN plugged + 1 ELSE pads[j - 1]
      BY <1>4
    <3>5. CASE i < k /\ j < k
      <4>1. i \in 1 .. Len(pads) /\ j \in 1 .. Len(pads)
        BY <3>2, <3>5
      <4> QED BY <3>1, <3>3, <3>4, <3>5, <4>1
    <3>6. CASE i < k /\ j = k
      <4>1. i \in 1 .. Len(pads)
        BY <3>2, <3>6
      <4>2. pads[i] \in 1 .. plugged
        BY <1>5, <4>1
      <4> QED BY <1>3, <3>3, <3>4, <3>6, <4>2
    <3>7. CASE i < k /\ j > k
      <4>1. i \in 1 .. Len(pads) /\ j - 1 \in 1 .. Len(pads) /\ i # j - 1
        BY <3>2, <3>7
      <4> QED BY <3>1, <3>3, <3>4, <3>7, <4>1
    <3>8. CASE i = k
      <4>1. j - 1 \in 1 .. Len(pads) /\ j > k
        BY <3>2, <3>8
      <4>2. pads[j - 1] \in 1 .. plugged
        BY <1>5, <4>1
      <4> QED BY <1>3, <3>3, <3>4, <3>8, <4>1, <4>2
    <3>9. CASE i > k
      <4>1. i - 1 \in 1 .. Len(pads) /\ j - 1 \in 1 .. Len(pads) /\ i - 1 # j - 1 /\ j > k
        BY <3>2, <3>9
      <4> QED BY <3>1, <3>3, <3>4, <3>9, <4>1
    <3> QED BY <3>5, <3>6, <3>7, <3>8, <3>9
  <2> QED BY <1>1, <1>4, <2>1 DEF Enumerated, hostVars
<1>8. Handed' /\ Distinct'
  BY <1>1, <1>2 DEF Handed, Distinct, tableVars, handleVars
<1>9. Dealt'
  <2> SUFFICES ASSUME NEW p \in Port, instance[p] # -1
               PROVE  /\ p < boot /\ file # NoFile /\ file[p].device = 2
                      /\ instance[p] \in 1 .. plugged'
                      /\ ~ overtaken' /\ boot \in Port =>
                           \A i \in 1 .. Len(pads') : i > Ordinal(file, p) + 1 => pads'[i] # instance[p]
    BY <1>1 DEF Dealt, hostVars, tableVars
  <2>1. /\ p < boot /\ file # NoFile /\ file[p].device = 2 /\ instance[p] \in 1 .. plugged
        /\ ~ overtaken /\ boot \in Port =>
             \A i \in 1 .. Len(pads) : i > Ordinal(file, p) + 1 => pads[i] # instance[p]
    BY <1>1 DEF Dealt
  <2>2. ASSUME ~ overtaken', boot \in Port, NEW i \in 1 .. Len(pads'), i > Ordinal(file, p) + 1
        PROVE  pads'[i] # instance[p]
    <3>1. ~ overtaken /\ ~ Given(k)
      BY <1>2, <2>2
    <3>2. \A j \in k .. Len(pads) : pads[j] # instance[p]
      BY <2>2, <3>1 DEF Given
    <3>3. \A j \in 1 .. Len(pads) : j > Ordinal(file, p) + 1 => pads[j] # instance[p]
      BY <2>1, <2>2, <3>1
    <3>4. Len(pads) \in Nat /\ Len(pads') = Len(pads) + 1
      BY <1>3, <1>4
    <3>5. pads'[i] = IF i < k THEN pads[i] ELSE IF i = k THEN plugged + 1 ELSE pads[i - 1]
      BY <1>4
    <3>6. CASE i < k
      <4>1. i \in 1 .. Len(pads)
        BY <3>4, <3>6
      <4> QED BY <2>2, <3>3, <3>5, <3>6, <4>1
    <3>7. CASE i = k
      BY <1>3, <2>1, <3>5, <3>7
    <3>8. CASE i > k
      <4>1. i - 1 \in k .. Len(pads)
        BY <3>4, <3>8
      <4> QED BY <3>2, <3>5, <3>8, <4>1
    <3> QED BY <3>6, <3>7, <3>8
  <2> QED BY <1>1, <1>3, <2>1, <2>2
<1> QED
  BY <1>6, <1>7, <1>8, <1>9 DEF IInv

\* Pulling one out moves the pads behind it towards the front.
LEMMA UnplugStep ==
  ASSUME IInv, Unplug
  PROVE  IInv'
<1>1. /\ TypeOK /\ Enumerated /\ Handed /\ Dealt /\ Distinct
      /\ UNCHANGED <<hostVars, plugged, overtaken, tableVars, handleVars, boot, active, carts>>
  BY DEF IInv, Unplug
<1>2. PICK k \in 1 .. Len(pads) :
         pads' = SubSeq(pads, 1, k - 1) \o SubSeq(pads, k + 1, Len(pads))
  BY DEF Unplug
<1>3. pads \in Seq(1 .. plugged) /\ plugged \in Nat
  BY <1>1 DEF Enumerated, TypeOK
<1>4. /\ pads' \in Seq(1 .. plugged) /\ Len(pads') = Len(pads) - 1
      /\ \A j \in 1 .. Len(pads') : pads'[j] = IF j < k THEN pads[j] ELSE pads[j + 1]
  BY <1>2, <1>3, Remove
<1>5. TypeOK'
  <2>1. Connected' \subseteq 1 .. plugged'
    <3>1. \A i \in 1 .. Len(pads') : pads'[i] \in 1 .. plugged
      BY <1>4, ElementOfSeq
    <3>2. plugged' = plugged
      BY <1>1
    <3> QED BY <3>1, <3>2 DEF Connected
  <2> QED BY <1>1, <2>1 DEF TypeOK, hostVars, tableVars, handleVars
<1>6. Enumerated'
  <2>1. \A i, j \in 1 .. Len(pads') : i # j => pads'[i] # pads'[j]
    <3> SUFFICES ASSUME NEW i \in 1 .. Len(pads'), NEW j \in 1 .. Len(pads'), i # j
                 PROVE  pads'[i] # pads'[j]
      OBVIOUS
    <3>1. /\ i \in 1 .. Len(pads) /\ i + 1 \in 1 .. Len(pads)
          /\ j \in 1 .. Len(pads) /\ j + 1 \in 1 .. Len(pads)
      BY <1>3, <1>4
    <3>2. \A a, b \in 1 .. Len(pads) : a # b => pads[a] # pads[b]
      BY <1>1 DEF Enumerated
    <3>3. \E a, b \in 1 .. Len(pads) : a # b /\ pads'[i] = pads[a] /\ pads'[j] = pads[b]
      <4>1. i \in Nat /\ j \in Nat /\ k \in Nat
        BY <1>3, <1>4
      <4>2. pads'[i] = IF i < k THEN pads[i] ELSE pads[i + 1]
        BY <1>4
      <4>3. pads'[j] = IF j < k THEN pads[j] ELSE pads[j + 1]
        BY <1>4
      <4>4. CASE i < k /\ j < k
        BY <3>1, <4>2, <4>3, <4>4
      <4>5. CASE i < k /\ ~ (j < k)
        <5>1. i # j + 1
          BY <4>1, <4>5
        <5> QED BY <3>1, <4>2, <4>3, <4>5, <5>1
      <4>6. CASE ~ (i < k) /\ j < k
        <5>1. i + 1 # j
          BY <4>1, <4>6
        <5> QED BY <3>1, <4>2, <4>3, <4>6, <5>1
      <4>7. CASE ~ (i < k) /\ ~ (j < k)
        <5>1. i + 1 # j + 1
          BY <4>1
        <5> QED BY <3>1, <4>2, <4>3, <4>7, <5>1
      <4> QED BY <4>4, <4>5, <4>6, <4>7
    <3> QED BY <3>2, <3>3
  <2> QED BY <1>1, <1>4, <2>1 DEF Enumerated, hostVars
<1>7. Handed' /\ Distinct'
  BY <1>1 DEF Handed, Distinct, tableVars, handleVars
<1>8. Dealt'
  <2> SUFFICES ASSUME NEW p \in Port, instance[p] # -1, ~ overtaken, boot \in Port,
                      NEW i \in 1 .. Len(pads'), i > Ordinal(file, p) + 1
               PROVE  pads'[i] # instance[p]
    BY <1>1 DEF Dealt, hostVars, tableVars
  <2>1. \A j \in 1 .. Len(pads) : j > Ordinal(file, p) + 1 => pads[j] # instance[p]
    BY <1>1 DEF Dealt
  <2>2. Ordinal(file, p) \in Nat
    <3>1. file \in [Port -> Entry]
      BY <1>1, FilesAssumption DEF Dealt, Enumerated, File
    <3> QED BY <3>1, OrdinalIsNat
  <2>3. /\ i \in 1 .. Len(pads) /\ i + 1 \in 1 .. Len(pads) /\ i + 1 > Ordinal(file, p) + 1
        /\ pads'[i] = pads[i] \/ pads'[i] = pads[i + 1]
    <3>1. Len(pads) \in Nat /\ Len(pads') = Len(pads) - 1
      BY <1>3, <1>4
    <3>2. i \in 1 .. Len(pads) - 1
      BY <3>1
    <3>3. pads'[i] = pads[i] \/ pads'[i] = pads[i + 1]
      BY <1>4
    <3> QED BY <2>2, <3>1, <3>2, <3>3
  <2> QED BY <2>1, <2>3
<1> QED
  BY <1>5, <1>6, <1>7, <1>8 DEF IInv

LEMMA StutterStep ==
  ASSUME IInv, UNCHANGED vars
  PROVE  IInv'
<1>1. /\ TypeOK /\ Enumerated /\ Handed /\ Dealt /\ Distinct
      /\ UNCHANGED <<hostVars, padVars, tableVars, handleVars, boot, active, carts>>
  BY DEF IInv, vars
<1> QED
  BY <1>1 DEF IInv, TypeOK, Enumerated, Handed, Dealt, Distinct, Connected, hostVars, padVars,
              tableVars, handleVars

-----------------------------------------------------------------------------
\* The inductive invariant holds, wherever SDL enumerates a new pad.
THEOREM Invariance == Spec => []IInv
<1>1. IInv /\ [Next]_vars => IInv'
  BY ApplyPortStep, ActivateStep, LoadPaksStep, StartGameStep, PollPortStep,
     PollRefusedStep, EnsurePadOpenStep, PlugStep, UnplugStep, StutterStep DEF Next, BootStep, PollStep
<1> QED
  BY <1>1, InitIInv, PTL DEF Spec

\* The tables keep their type, and two ports are never bound to one pad nor
\* read one pad, though the boot thread enumerates the pads once for each port
\* while they come and go anywhere in the enumeration; the one exception is a
\* pad that was plugged in, between two turns, before one already dealt.
THEOREM PadsNotShared == Spec => []RoutingInv
<1>1. IInv => RoutingInv
  <2> SUFFICES ASSUME IInv, ~ overtaken PROVE NoSharedPad
    BY DEF IInv, RoutingInv, NoSharedPad
  <2>1. TypeOK /\ Handed /\ Dealt /\ Distinct
    BY DEF IInv
  <2> SUFFICES ASSUME NEW p \in Port, NEW q \in Port, p # q
               PROVE  /\ instance[p] >= 0 => instance[p] # instance[q]
                      /\ active /\ Input(p).pad # -1 => Input(p).pad # Input(q).pad
    BY DEF NoSharedPad
  <2>2. instance[p] \in Int /\ instance[q] \in Int /\ p \in Int /\ q \in Int
    BY <2>1, PadsAssumption, PortsAssumption DEF TypeOK, Port
  <2>3. instance[p] # -1 => instance[p] # instance[q]
    <3>1. CASE p < q
      BY <2>1, <2>2, <3>1 DEF Distinct
    <3>2. CASE q < p
      BY <2>1, <2>2, <3>2 DEF Distinct
    <3> QED BY <2>2, <3>1, <3>2
  <2>4. active => /\ Input(p).pad \in {-1, portPad[p]}
                  /\ Input(q).pad \in {-1, portPad[q]}
    BY DEF Input
  <2>5. /\ portPad[p] # -1 => portPad[p] = instance[p]
        /\ portPad[q] # -1 => portPad[q] = instance[q]
    BY <2>1 DEF Handed
  <2> QED BY <2>2, <2>3, <2>4, <2>5
<1> QED
  BY <1>1, Invariance, PTL

\* The motor of a port shakes the pad that port reads.
THEOREM ShakesOwnPad == Spec => []RumbleIsInput
<1>1. IInv => RumbleIsInput
  <2> SUFFICES ASSUME IInv, NEW p \in Port PROVE RumblePad(p) = Input(p).pad
    BY DEF RumbleIsInput
  <2>1. \/ ~ active
        \/ active /\ portPad[p] = -1
        \/ active /\ portPad[p] # -1 /\ kind[p] = "Gamepad" /\ enabled[p]
    BY DEF IInv, Handed
  <2> QED BY <2>1 DEF RumblePad, Input
<1> QED
  BY <1>1, Invariance, PTL

\* What the game was told about a port does not change while it runs.
THEOREM PresenceNeverChanges == Spec => PresenceStable
<1>1. IInv /\ [Next]_vars => [PresenceKept]_vars
  <2> SUFFICES ASSUME IInv, Next, Started PROVE PresenceKept
    BY DEF PresenceKept, vars
  <2>1. ~ BootStep
    BY PortsAssumption DEF Started, Done, BootStep, ApplyPort, Activate, LoadPaks, StartGame,
                           Activating, Mounting, Starting, Port
  <2>2. UNCHANGED <<tableVars, active, carts>>
    BY <2>1 DEF Next, PollStep, PollPort, PollRefused, EnsurePadOpen, Plug, Unplug
  <2> QED BY <2>2 DEF PresenceKept, DeviceInfo, HasPak, tableVars
<1> QED
  BY <1>1, Invariance, PTL DEF PresenceStable, Spec

-----------------------------------------------------------------------------
(* What a file says *)

\* The settings have a save only with a cartridge.
Consistent(s) == \A p \in Port : s[p].rom = NoPath => s[p].save = NoPath

LauncherTyped == LauncherTypeOK /\ Consistent(settings) /\ Consistent(committed)

\* The file and the settings at each point of the launcher and of the game.
FileFollows ==
  /\ pc \in {"write", "flush"} => settings = committed
  /\ pc \notin {"write", "flush"} =>
       \/ cfg = NoFile /\ committed = Loaded(NoFile)
       \/ cfg = Written(committed)
  /\ pc = "window" /\ ~ edited => settings = Loaded(cfg)
  /\ pc = "game" => played = Played(cfg)

\* The ROM that was chosen is what rom.cfg holds between sessions, and what a
\* session without an argument takes up before the picker is shown.
RomInv ==
  /\ good \intersect bad = {}
  /\ romPc \in {"off", "launcher", "spawn"} => ~ override
  /\ chosen # NoPath =>
       /\ chosen \in good
       /\ romPc \in {"off", "launcher", "spawn", "resolve", "running"} \/ override
            => romCfg = chosen
       /\ romPc = "resolve" /\ ~ override => path = NoPath
       /\ romPc \in {"select", "running"} /\ ~ override => path = chosen
       /\ romPc = "pick" => override

\* What the launcher makes of a file has the type of settings.
LEMMA LoadedTyped ==
  ASSUME NEW f \in File
  PROVE  Loaded(f) \in [Port -> Setting] /\ Consistent(Loaded(f))
<1> SUFFICES ASSUME NEW p \in Port
             PROVE  /\ Loaded(f)[p] \in Setting
                    /\ Loaded(f)[p].rom = NoPath => Loaded(f)[p].save = NoPath
  BY DEF Loaded, Consistent
<1>1. CASE f = NoFile
  BY <1>1 DEF Loaded, Setting, NoCart, Paths
<1>2. CASE f # NoFile
  <2> DEFINE e == f[p]
             s == [NoCart EXCEPT !.src = e.device]
  <2>1. e \in Entry
    BY <1>2 DEF File
  <2>2. /\ e.device \in 0 .. 2
        /\ Cut[e.rom] \in Paths /\ Cut[e.save] \in Paths
        /\ Cut[e.rom_off] \in Paths /\ Cut[e.save_off] \in Paths
    BY <2>1, CutAssumption DEF Entry, Paths
  <2>3. Loaded(f)[p] =
          IF Cut[e.rom] # NoPath
            THEN [s EXCEPT !.tpak = 1, !.rom = Cut[e.rom], !.save = Cut[e.save]]
          ELSE IF Cut[e.rom_off] # NoPath
            THEN [s EXCEPT !.tpak = -1, !.rom = Cut[e.rom_off], !.save = Cut[e.save_off]]
          ELSE s
    BY <1>2 DEF Loaded
  <2>4. s = [src |-> e.device, tpak |-> 0, rom |-> NoPath, save |-> NoPath]
    BY DEF NoCart
  <2> HIDE DEF e, s
  <2>5. CASE Cut[e.rom] # NoPath
    <3>1. Loaded(f)[p] = [src |-> e.device, tpak |-> 1, rom |-> Cut[e.rom], save |-> Cut[e.save]]
      BY <2>3, <2>4, <2>5
    <3> QED BY <2>2, <2>5, <3>1 DEF Setting
  <2>6. CASE Cut[e.rom] = NoPath /\ Cut[e.rom_off] # NoPath
    <3>1. Loaded(f)[p] =
            [src |-> e.device, tpak |-> -1, rom |-> Cut[e.rom_off], save |-> Cut[e.save_off]]
      BY <2>3, <2>4, <2>6
    <3> QED BY <2>2, <2>6, <3>1 DEF Setting
  <2>7. CASE Cut[e.rom] = NoPath /\ Cut[e.rom_off] = NoPath
    BY <2>2, <2>3, <2>4, <2>7 DEF Setting, Paths
  <2> QED BY <2>5, <2>6, <2>7
<1> QED
  BY <1>1, <1>2

\* What it writes for a player.
Device(x) == IF x.src > 2 THEN 2 ELSE x.src
Off(x) == x.rom # NoPath /\ ~ (x.tpak >= 0)

LEMMA SettingTyped ==
  ASSUME NEW x \in Setting
  PROVE  /\ x.src \in Nat /\ x.tpak \in -1 .. 1 /\ x.rom \in Paths /\ x.save \in Paths
         /\ Device(x) \in 0 .. 2
<1>1. x.src \in Src \union 0 .. 2 /\ x.tpak \in -1 .. 1 /\ x.rom \in Paths /\ x.save \in Paths
  BY DEF Setting
<1>2. x.src \in Nat
  <2>1. CASE x.src \in Src
    BY <2>1, SrcAssumption
  <2>2. CASE x.src \in 0 .. 2
    BY <2>2
  <2> QED BY <1>1, <2>1, <2>2
<1> QED
  BY <1>1, <1>2 DEF Device

LEMMA WrittenEntry ==
  ASSUME NEW s \in [Port -> Setting], NEW p \in Port
  PROVE  /\ Written(s)[p] \in Entry
         /\ Written(s)[p].device = Device(s[p])
         /\ Written(s)[p].rom = IF On(s[p]) THEN s[p].rom ELSE NoPath
         /\ Written(s)[p].save = IF On(s[p]) THEN s[p].save ELSE NoPath
         /\ Written(s)[p].rom_off = IF Off(s[p]) THEN s[p].rom ELSE NoPath
         /\ Written(s)[p].save_off = IF Off(s[p]) THEN s[p].save ELSE NoPath
<1> DEFINE x == s[p]
           e == [NoEntry EXCEPT !.device = Device(x)]
<1>1. x \in Setting
  OBVIOUS
<1>2. /\ x.src \in Nat /\ x.tpak \in -1 .. 1 /\ x.rom \in Paths /\ x.save \in Paths
      /\ Device(x) \in 0 .. 2
  BY <1>1, SettingTyped
<1>3. Written(s)[p] =
        IF x.rom = NoPath THEN e
        ELSE IF x.tpak >= 0 THEN [e EXCEPT !.rom = x.rom, !.save = x.save]
        ELSE [e EXCEPT !.rom_off = x.rom, !.save_off = x.save]
  BY DEF Written, Device
<1> HIDE DEF x
<1>4. e = [device |-> Device(x), rom |-> NoPath, save |-> NoPath,
           rom_off |-> NoPath, save_off |-> NoPath]
  BY DEF NoEntry
<1> HIDE DEF e
<1>5. Written(s)[p] = [device |-> Device(x),
                       rom |-> IF On(x) THEN x.rom ELSE NoPath,
                       save |-> IF On(x) THEN x.save ELSE NoPath,
                       rom_off |-> IF Off(x) THEN x.rom ELSE NoPath,
                       save_off |-> IF Off(x) THEN x.save ELSE NoPath]
  <2>1. CASE x.rom = NoPath
    BY <1>3, <1>4, <2>1 DEF On, Off
  <2>2. CASE On(x)
    BY <1>3, <1>4, <2>2 DEF On, Off
  <2>3. CASE Off(x)
    BY <1>3, <1>4, <2>3 DEF On, Off
  <2> QED BY <2>1, <2>2, <2>3 DEF On, Off
<1>6. Written(s)[p] \in Entry
  BY <1>2, <1>5 DEF Entry, Paths
<1> QED
  BY <1>5, <1>6 DEF x

\* A file it has written, or truncated, is one.
LEMMA WrittenTyped ==
  ASSUME NEW s \in [Port -> Setting]
  PROVE  Written(s) \in [Port -> Entry] /\ Written(s) # NoFile
<1>1. Written(s) = [p \in Port |-> Written(s)[p]]
  BY DEF Written
<1>2. \A p \in Port : Written(s)[p] \in Entry
  BY WrittenEntry
<1> QED
  BY <1>1, <1>2, NoFileAssumption

LEMMA EmptyFileTyped == EmptyFile \in [Port -> Entry]
BY DEF EmptyFile, Entry, NoEntry, Paths

\* The launcher reads back what it has written, a pak that is off included.
LEMMA ReadsBack ==
  ASSUME PathsUncut, NEW s \in [Port -> Setting], Consistent(s), NEW p \in Port
  PROVE  LET l == Loaded(Written(s))[p] IN
           /\ Source(l.src) = Source(s[p].src)
           /\ l.rom = s[p].rom /\ l.save = s[p].save
           /\ l.rom # NoPath => On(l) = On(s[p])
<1> DEFINE x == s[p]
           e == Written(s)[p]
           c == [NoCart EXCEPT !.src = e.device]
<1>1. Written(s) # NoFile
  BY WrittenTyped
<1>2. /\ e \in Entry /\ e.device = Device(x)
      /\ e.rom = (IF On(x) THEN x.rom ELSE NoPath)
      /\ e.save = (IF On(x) THEN x.save ELSE NoPath)
      /\ e.rom_off = (IF Off(x) THEN x.rom ELSE NoPath)
      /\ e.save_off = (IF Off(x) THEN x.save ELSE NoPath)
  BY WrittenEntry
<1>3. x.src \in Nat /\ x.tpak \in Int
  <2>1. x \in Setting
    OBVIOUS
  <2> QED BY <2>1, SettingTyped
<1>4. /\ Cut[e.rom] = e.rom /\ Cut[e.save] = e.save
      /\ Cut[e.rom_off] = e.rom_off /\ Cut[e.save_off] = e.save_off
  BY <1>2 DEF PathsUncut, Entry
<1>5. Loaded(Written(s))[p] =
        IF e.rom # NoPath
          THEN [c EXCEPT !.tpak = 1, !.rom = e.rom, !.save = e.save]
        ELSE IF e.rom_off # NoPath
          THEN [c EXCEPT !.tpak = -1, !.rom = e.rom_off, !.save = e.save_off]
        ELSE c
  BY <1>1, <1>4 DEF Loaded
<1>6. c = [src |-> Device(x), tpak |-> 0, rom |-> NoPath, save |-> NoPath]
  BY <1>2 DEF NoCart
<1>7. Source(Device(x)) = Source(x.src)
  BY <1>3 DEF Source, Device
<1>8. x.rom = NoPath => x.save = NoPath
  BY DEF Consistent
<1> HIDE DEF c, e
<1>9. CASE On(x)
  <2>1. Loaded(Written(s))[p] = [src |-> Device(x), tpak |-> 1, rom |-> x.rom, save |-> x.save]
    BY <1>2, <1>5, <1>6, <1>9 DEF On
  <2> QED BY <1>7, <1>9, <2>1 DEF On
<1>10. CASE Off(x)
  <2>1. Loaded(Written(s))[p] = [src |-> Device(x), tpak |-> -1, rom |-> x.rom, save |-> x.save]
    BY <1>2, <1>5, <1>6, <1>10 DEF On, Off
  <2> QED BY <1>7, <1>10, <2>1 DEF On, Off
<1>11. CASE x.rom = NoPath
  <2>1. Loaded(Written(s))[p] = [src |-> Device(x), tpak |-> 0, rom |-> NoPath, save |-> NoPath]
    BY <1>2, <1>5, <1>6, <1>11 DEF On, Off
  <2> QED BY <1>7, <1>8, <1>11, <2>1
<1> QED
  BY <1>9, <1>10, <1>11 DEF On, Off

\* The game plays what the launcher has written.
LEMMA PlaysWritten ==
  ASSUME PathsUncut, NEW s \in [Port -> Setting], Consistent(s), NEW p \in Port
  PROVE  LET g == Played(Written(s))[p] IN
           /\ g.kind = Source(s[p].src)
           /\ g.enabled = (s[p].src # 0 \/ On(s[p]))
           /\ g.rom = IF On(s[p]) THEN s[p].rom ELSE NoPath
           /\ g.save = IF On(s[p]) THEN s[p].save ELSE NoPath
<1> DEFINE x == s[p]
           e == Written(s)[p]
           f == Written(s)
           pa == PortAssignment(f, p, << >>)
<1>1. f # NoFile
  BY WrittenTyped
<1>2. /\ e \in Entry /\ e.device = Device(x)
      /\ e.rom = (IF On(x) THEN x.rom ELSE NoPath)
      /\ e.save = (IF On(x) THEN x.save ELSE NoPath)
  BY WrittenEntry
<1>3. x.src \in Nat /\ Device(x) \in 0 .. 2
  <2>1. x \in Setting
    OBVIOUS
  <2> QED BY <2>1, SettingTyped
<1>4. Cut[e.rom] = e.rom /\ Cut[e.save] = e.save
  BY <1>2 DEF PathsUncut, Entry
<1>5. /\ pa.enabled = (e.device # 0 \/ Cut[e.rom] # NoPath)
      /\ pa.kind = <<"None", "Keyboard", "Gamepad">>[e.device + 1]
  BY <1>1 DEF PortAssignment
<1>6. /\ PakPath(f, NoEnv, p, "rom") = e.rom
      /\ PakPath(f, NoEnv, p, "save") = e.save
  BY <1>1, <1>4 DEF PakPath, NoEnv
<1>7. /\ Played(f)[p].kind = (IF pa.enabled THEN pa.kind ELSE "None")
      /\ Played(f)[p].enabled = pa.enabled
      /\ Played(f)[p].rom = e.rom /\ Played(f)[p].save = e.save
  BY <1>6 DEF Played
<1> HIDE DEF pa, f, e
<1>8. pa.kind = Source(x.src)
  BY <1>2, <1>3, <1>5 DEF Device, Source
<1>9. pa.enabled = (x.src # 0 \/ On(x))
  BY <1>2, <1>3, <1>4, <1>5 DEF Device, On
<1>10. ~ pa.enabled => Source(x.src) = "None"
  BY <1>3, <1>9 DEF Source
<1> QED
  BY <1>2, <1>7, <1>8, <1>9, <1>10 DEF f

\* Without a file it plays what the launcher would show.
LEMMA PlaysNoFile ==
  ASSUME NEW p \in Port
  PROVE  LET g == Played(NoFile)[p]
             c == Loaded(NoFile)[p]
         IN /\ g.kind = Source(c.src)
            /\ g.enabled = (c.src # 0 \/ On(c))
            /\ g.rom = IF On(c) THEN c.rom ELSE NoPath
            /\ g.save = IF On(c) THEN c.save ELSE NoPath
<1>1. PakPath(NoFile, NoEnv, p, "rom") = NoPath /\ PakPath(NoFile, NoEnv, p, "save") = NoPath
  BY DEF PakPath, NoEnv
<1>2. CASE p = 0
  <2>1. PortAssignment(NoFile, p, << >>) = [enabled |-> TRUE, kind |-> "Keyboard", instance |-> -1]
    BY <1>2 DEF PortAssignment, Disabled
  <2>2. Loaded(NoFile)[p] = [src |-> 1, tpak |-> 0, rom |-> NoPath, save |-> NoPath]
    BY <1>2 DEF Loaded, NoCart
  <2>3. /\ Played(NoFile)[p].kind = "Keyboard" /\ Played(NoFile)[p].enabled = TRUE
        /\ Played(NoFile)[p].rom = NoPath /\ Played(NoFile)[p].save = NoPath
    BY <1>1, <2>1 DEF Played
  <2>4. Source(Loaded(NoFile)[p].src) = "Keyboard" /\ ~ On(Loaded(NoFile)[p])
    BY <2>2 DEF Source, On
  <2>5. (Loaded(NoFile)[p].src # 0 \/ On(Loaded(NoFile)[p])) = TRUE
    BY <2>2, <2>4
  <2> QED BY <2>3, <2>4, <2>5
<1>3. CASE p # 0
  <2>1. PortAssignment(NoFile, p, << >>) = [enabled |-> FALSE, kind |-> "None", instance |-> -1]
    BY <1>3 DEF PortAssignment, Disabled
  <2>2. Loaded(NoFile)[p] = [src |-> 0, tpak |-> 0, rom |-> NoPath, save |-> NoPath]
    BY <1>3 DEF Loaded, NoCart
  <2>3. /\ Played(NoFile)[p].kind = "None" /\ Played(NoFile)[p].enabled = FALSE
        /\ Played(NoFile)[p].rom = NoPath /\ Played(NoFile)[p].save = NoPath
    BY <1>1, <2>1 DEF Played
  <2>4. Source(Loaded(NoFile)[p].src) = "None" /\ ~ On(Loaded(NoFile)[p])
    BY <2>2 DEF Source, On
  <2>5. (Loaded(NoFile)[p].src # 0 \/ On(Loaded(NoFile)[p])) = FALSE
    BY <2>2, <2>4
  <2> QED BY <2>3, <2>4, <2>5
<1> QED
  BY <1>2, <1>3

-----------------------------------------------------------------------------
(* The launcher *)

\* A player's settings with another cartridge.
With(y, r, s, k) == [y EXCEPT !.rom = r, !.save = s, !.tpak = k]

LEMMA WithCartridge ==
  ASSUME NEW y \in Setting, NEW r \in Paths, NEW s \in Paths, NEW k \in -1 .. 1
  PROVE  With(y, r, s, k) \in Setting /\ With(y, r, s, k).rom = r /\ With(y, r, s, k).save = s
<1> DEFINE a == [y EXCEPT !.rom = r]
           b == [a EXCEPT !.save = s]
           c == [b EXCEPT !.tpak = k]
<1>1. a \in Setting /\ a.rom = r
  BY DEF Setting
<1> HIDE DEF a
<1>2. b \in Setting /\ b.rom = r /\ b.save = s
  BY <1>1 DEF Setting
<1> HIDE DEF b
<1>3. c \in Setting /\ c.rom = r /\ c.save = s
  BY <1>2 DEF Setting
<1> QED
  BY <1>3 DEF a, b, With

\* Whatever is edited stays settings.
LEMMA EditTyped ==
  ASSUME LauncherTyped, Edit
  PROVE  settings' \in [Port -> Setting] /\ Consistent(settings')
<1>1. settings \in [Port -> Setting] /\ Consistent(settings)
  BY DEF LauncherTyped, LauncherTypeOK
<1>2. ASSUME NEW p \in Port, NEW x \in Setting, x.rom = NoPath => x.save = NoPath,
             settings' = [settings EXCEPT ![p] = x]
      PROVE  settings' \in [Port -> Setting] /\ Consistent(settings')
  BY <1>1, <1>2 DEF Consistent
<1>3. PICK p \in Port :
        \/ \E n \in Src : settings' = [settings EXCEPT ![p].src = n]
        \/ \E r \in Path, s \in Paths :
             settings' = [settings EXCEPT ![p].rom = r, ![p].save = s, ![p].tpak = 1]
        \/ settings' = [settings EXCEPT ![p].rom = NoPath, ![p].save = NoPath, ![p].tpak = 0]
        \/ /\ settings[p].rom # NoPath
           /\ settings' = [settings EXCEPT ![p].tpak = -@]
  BY DEF Edit
<1>4. settings[p] \in Setting /\ (settings[p].rom = NoPath => settings[p].save = NoPath)
  BY <1>1 DEF Consistent
<1>5. CASE \E n \in Src : settings' = [settings EXCEPT ![p].src = n]
  <2>1. PICK n \in Src : settings' = [settings EXCEPT ![p].src = n]
    BY <1>5
  <2> DEFINE x == [settings[p] EXCEPT !.src = n]
  <2>2. x \in Setting /\ (x.rom = NoPath => x.save = NoPath)
    BY <1>4 DEF Setting
  <2>3. settings' = [settings EXCEPT ![p] = x]
    BY <2>1
  <2> HIDE DEF x
  <2> QED BY <1>2, <2>2, <2>3
<1>6. CASE \E r \in Path, s \in Paths :
             settings' = [settings EXCEPT ![p].rom = r, ![p].save = s, ![p].tpak = 1]
  <2>1. PICK r \in Path, s \in Paths :
          settings' = [settings EXCEPT ![p].rom = r, ![p].save = s, ![p].tpak = 1]
    BY <1>6
  <2>2. r \in Paths /\ s \in Paths /\ r # NoPath /\ 1 \in -1 .. 1
    BY NoPathAssumption DEF Paths
  <2>3. With(settings[p], r, s, 1) \in Setting /\ With(settings[p], r, s, 1).rom = r
    <3>1. settings[p] \in Setting
      BY <1>4
    <3> QED BY <2>2, <3>1, WithCartridge, Z3
  <2>4. settings' = [settings EXCEPT ![p] = With(settings[p], r, s, 1)]
    BY <1>1, <2>1 DEF With
  <2> QED BY <1>2, <2>2, <2>3, <2>4
<1>7. CASE settings' = [settings EXCEPT ![p].rom = NoPath, ![p].save = NoPath, ![p].tpak = 0]
  <2>1. NoPath \in Paths /\ 0 \in -1 .. 1
    BY DEF Paths
  <2>2. /\ With(settings[p], NoPath, NoPath, 0) \in Setting
        /\ With(settings[p], NoPath, NoPath, 0).save = NoPath
    BY <1>4, <2>1, WithCartridge
  <2>3. settings' = [settings EXCEPT ![p] = With(settings[p], NoPath, NoPath, 0)]
    BY <1>1, <1>7 DEF With
  <2> QED BY <1>2, <2>2, <2>3
<1>8. CASE settings' = [settings EXCEPT ![p].tpak = -@]
  <2> DEFINE x == [settings[p] EXCEPT !.tpak = - settings[p].tpak]
  <2>1. settings[p].tpak \in -1 .. 1
    BY <1>4, SettingTyped
  <2>2. - settings[p].tpak \in -1 .. 1
    BY <2>1
  <2>3. x \in Setting /\ (x.rom = NoPath => x.save = NoPath)
    BY <1>4, <2>2 DEF Setting
  <2>4. settings' = [settings EXCEPT ![p] = x]
    BY <1>1, <1>8
  <2> HIDE DEF x
  <2> QED BY <1>2, <2>3, <2>4
<1> QED
  BY <1>3, <1>5, <1>6, <1>7, <1>8

\* The types, whatever fails and whatever a reader cuts off.
LEMMA LauncherTypes ==
  LauncherSpec => []LauncherTyped
<1>1. LauncherInit => LauncherTyped
  BY LoadedTyped DEF LauncherInit, LauncherTyped, LauncherTypeOK, File
<1>2. LauncherTyped /\ [LauncherNext]_launcherVars => LauncherTyped'
  <2> SUFFICES ASSUME LauncherTyped, [LauncherNext]_launcherVars PROVE LauncherTyped'
    OBVIOUS
  <2> USE DEF LauncherTyped
  <2>1. cfg \in File
    BY DEF LauncherTypeOK, File
  <2>2. CASE Open
    BY <2>1, <2>2, LoadedTyped DEF Open, LauncherTypeOK
  <2>3. CASE Edit
    BY <2>3, EditTyped DEF Edit, LauncherTypeOK, Consistent
  <2>4. CASE Quit
    BY <2>4 DEF Quit, LauncherTypeOK, Consistent
  <2>5. CASE Unavailable
    BY <2>5 DEF Unavailable, LauncherTypeOK, Consistent
  <2>6. CASE Launch
    BY <2>6 DEF Launch, LauncherTypeOK, Consistent
  <2>7. CASE Truncate
    BY <2>7, EmptyFileTyped DEF Truncate, LauncherTypeOK, Consistent
  <2>8. CASE Flush
    BY <2>8, WrittenTyped DEF Flush, LauncherTypeOK, Consistent
  <2>9. CASE WriteRom
    BY <2>9 DEF WriteRom, LauncherTypeOK, Consistent
  <2>10. CASE Spawn \/ Direct \/ GameEnds
    BY <2>10 DEF Spawn, Direct, GameEnds, LauncherTypeOK, Consistent
  <2>11. CASE UNCHANGED launcherVars
    BY <2>11 DEF launcherVars, LauncherTypeOK, Consistent
  <2> QED
    BY <2>2, <2>3, <2>4, <2>5, <2>6, <2>7, <2>8, <2>9, <2>10, <2>11 DEF LauncherNext
<1> QED
  BY <1>1, <1>2, PTL DEF LauncherSpec

\* The file follows what the user commits, if it can be written.
LEMMA FileKeepsUp ==
  ASSUME ~ WriteMayFail
  PROVE  LauncherSpec => []FileFollows
<1>1. LauncherInit => FileFollows
  BY DEF LauncherInit, FileFollows
<1>2. FileFollows /\ [LauncherNext]_launcherVars => FileFollows'
  <2> SUFFICES ASSUME FileFollows, [LauncherNext]_launcherVars PROVE FileFollows'
    OBVIOUS
  <2>1. CASE Open
    BY <2>1 DEF Open, FileFollows
  <2>2. CASE Edit \/ Quit \/ Unavailable
    BY <2>2 DEF Edit, Quit, Unavailable, FileFollows
  <2>3. CASE Launch
    BY <2>3 DEF Launch, FileFollows
  <2>4. CASE Truncate
    BY <2>4 DEF Truncate, FileFollows
  <2>5. CASE Flush
    BY <2>5 DEF Flush, FileFollows
  <2>6. CASE WriteRom
    BY <2>6 DEF WriteRom, FileFollows
  <2>7. CASE Spawn \/ Direct \/ GameEnds
    BY <2>7 DEF Spawn, Direct, GameEnds, FileFollows
  <2>8. CASE UNCHANGED launcherVars
    BY <2>8 DEF launcherVars, FileFollows
  <2> QED
    BY <2>1, <2>2, <2>3, <2>4, <2>5, <2>6, <2>7, <2>8 DEF LauncherNext
<1> QED
  BY <1>1, <1>2, PTL DEF LauncherSpec


-----------------------------------------------------------------------------
(* The start of the game *)

LEMMA RomInit == R!Init => RomInv
BY DEF R!Init, RomInv

LEMMA RomStep ==
  ASSUME RomInv, [R!Next]_R!vars
  PROVE  RomInv' /\ (override => romCfg' = romCfg)
<1> USE DEF R!Exists
<1>1. CASE R!ChangeFile
  BY <1>1 DEF R!ChangeFile, RomInv
<1>2. CASE R!OpenLauncher
  BY <1>2 DEF R!OpenLauncher, RomInv
<1>3. CASE R!LaunchGame
  BY <1>3 DEF R!LaunchGame, RomInv
<1>4. CASE R!QuitLauncher
  BY <1>4 DEF R!QuitLauncher, RomInv
<1>5. CASE R!Unavailable
  BY <1>5 DEF R!Unavailable, RomInv
<1>6. CASE R!Spawn
  BY <1>6 DEF R!Spawn, RomInv
<1>7. CASE R!Start
  BY <1>7 DEF R!Start, RomInv
<1>8. CASE R!Resolve
  BY <1>8 DEF R!Resolve, R!Resolved, RomInv
<1>9. CASE R!Select
  BY <1>9 DEF R!Select, RomInv
<1>10. CASE R!Pick
  BY <1>10 DEF R!Pick, RomInv
<1>11. CASE R!Cancel
  BY <1>11 DEF R!Cancel, RomInv
<1>12. CASE R!GameEnds
  BY <1>12 DEF R!GameEnds, RomInv
<1>13. CASE UNCHANGED R!vars
  BY <1>13 DEF R!vars, RomInv
<1> QED
  BY <1>1, <1>2, <1>3, <1>4, <1>5, <1>6, <1>7, <1>8, <1>9, <1>10, <1>11, <1>12, <1>13
     DEF R!Next

-----------------------------------------------------------------------------
(* Both together *)

\* Boot lets each of the two programs take its own steps, and no other.
LEMMA BootComposes ==
  ASSUME [BootNext]_bootVars
  PROVE  [LauncherNext]_launcherVars /\ [R!Next]_R!vars
<1>1. romVars = R!vars /\ romVars' = R!vars'
  BY DEF romVars, R!vars
<1>2. CASE Run
  BY <1>2 DEF Run, Alone, LauncherNext, R!Next, romVars, R!vars
<1>3. CASE StartDirectly \/ CancelPick \/ End
  BY <1>3 DEF StartDirectly, CancelPick, End, LauncherNext, R!Next
<1>4. CASE ResolveRom \/ SelectRom \/ PickRom \/ FilesChange
  BY <1>4 DEF ResolveRom, SelectRom, PickRom, FilesChange, Game, R!Next
<1>5. CASE UNCHANGED bootVars
  BY <1>5 DEF bootVars, romVars, R!vars
<1> QED
  BY <1>2, <1>3, <1>4, <1>5 DEF BootNext

\* What Boot composes is the launcher and the choice of a ROM as their own
\* modules specify them, whatever the other does.
THEOREM BootRefines == BootSpec => LauncherSpec /\ R!Spec
<1>1. BootInit => LauncherInit /\ R!Init
  BY DEF BootInit
<1>2. [BootNext]_bootVars => [LauncherNext]_launcherVars /\ [R!Next]_R!vars
  BY BootComposes
<1> QED
  BY <1>1, <1>2, PTL DEF BootSpec, LauncherSpec, R!Spec

\* The game plays what the user launched it with: the launcher's writer and the
\* game's two readers agree on every player, device, pak and save, for any number
\* of players, as long as launcher.cfg can be written and no path is cut by a
\* reader (write_settings_to_cfg, port_assignment, port_path).
THEOREM BootsWhatWasCommitted ==
  ASSUME PathsUncut, ~ WriteMayFail
  PROVE  BootSpec => []GameBootsCommitted
<1>1. LauncherTyped /\ FileFollows => GameBootsCommitted
  <2> SUFFICES ASSUME LauncherTyped, FileFollows, pc = "game", NEW p \in Port
               PROVE  LET c == committed[p] IN
                        /\ played[p].kind = Source(c.src)
                        /\ played[p].enabled = (c.src # 0 \/ On(c))
                        /\ played[p].rom = IF On(c) THEN c.rom ELSE NoPath
                        /\ played[p].save = IF On(c) THEN c.save ELSE NoPath
    BY DEF GameBootsCommitted
  <2>1. played = Played(cfg) /\ committed \in [Port -> Setting] /\ Consistent(committed)
    BY DEF FileFollows, LauncherTyped, LauncherTypeOK
  <2>2. CASE cfg = NoFile /\ committed = Loaded(NoFile)
    BY <2>1, <2>2, PlaysNoFile
  <2>3. CASE cfg = Written(committed)
    BY <2>1, <2>3, PlaysWritten
  <2> QED BY <2>2, <2>3 DEF FileFollows
<1> QED
  BY <1>1, BootRefines, LauncherTypes, FileKeepsUp, PTL

\* The launcher reopens with what the user last launched the game with, paks that
\* were switched off included, under the same conditions; settings and file keep
\* their type under none (load_cfg_into_settings).
THEOREM ReopensAsCommitted ==
  ASSUME PathsUncut, ~ WriteMayFail
  PROVE  BootSpec => []SettingsInv
<1>1. LauncherTyped /\ FileFollows => SettingsInv
  <2> SUFFICES ASSUME LauncherTyped, FileFollows PROVE ReopenKeeps
    BY DEF SettingsInv, LauncherTyped
  <2> SUFFICES ASSUME pc = "window", ~ edited, NEW p \in Port
               PROVE  LET c == committed[p]
                          s == settings[p]
                      IN /\ Source(s.src) = Source(c.src)
                         /\ s.rom = c.rom /\ s.save = c.save
                         /\ s.rom # NoPath => On(s) = On(c)
    BY DEF ReopenKeeps
  <2>1. settings = Loaded(cfg) /\ committed \in [Port -> Setting] /\ Consistent(committed)
    BY DEF FileFollows, LauncherTyped, LauncherTypeOK
  <2>2. CASE cfg = NoFile /\ committed = Loaded(NoFile)
    BY <2>1, <2>2
  <2>3. CASE cfg = Written(committed)
    BY <2>1, <2>3, ReadsBack
  <2> QED BY <2>2, <2>3 DEF FileFollows
<1> QED
  BY <1>1, BootRefines, LauncherTypes, FileKeepsUp, PTL

\* The ROM the user picked or launched with is the one that boots, without the
\* picker, in every later session without an argument, as long as it is there and
\* good: whatever other files come and go, and whatever sessions with an argument
\* do in between (resolve order and rom.cfg in main.cpp).
THEOREM ChosenRomBoots == BootSpec => []RemembersPick
<1>1. R!Init => RomInv
  BY RomInit
<1>2. RomInv /\ [R!Next]_R!vars => RomInv'
  BY RomStep
<1>3. RomInv => RemembersPick
  BY DEF RomInv, RemembersPick, R!RemembersPick
<1> QED
  BY <1>1, <1>2, <1>3, BootRefines, PTL DEF R!Spec

\* No step of a session that began with a path as its argument changes rom.cfg,
\* not even a pick after that path did not validate.
THEOREM ArgumentLeavesRomCfg == BootSpec => ArgumentNotPersisted
<1>1. R!Init => RomInv
  BY RomInit
<1>2. RomInv /\ [R!Next]_R!vars => RomInv' /\ [override => romCfg' = romCfg]_R!vars
  BY RomStep
<1> QED
  BY <1>1, <1>2, BootRefines, PTL DEF R!Spec, ArgumentNotPersisted, R!ArgumentNotPersisted


=============================================================================
