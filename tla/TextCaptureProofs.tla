------------------------- MODULE TextCaptureProofs -------------------------
(***************************************************************************)
(* LogIsTable, TallyInv and CallsAccounted for any threads, strings,       *)
(* routines, capacities and number of processes.  Whoever has the log open *)
(* holds g_strinv_mtx (Locked), so the table does not change while the log *)
(* is rewritten; a call leaves its upsert with a table that is not empty,  *)
(* whether its string was recorded or dropped, and its flag with the       *)
(* routine in the PC set or the set full, which only grows (CallDone); and *)
(* the calls counted and the threads counting stay finite sets (Accounts). *)
(***************************************************************************)
EXTENDS TextCapture, FiniteSetTheorems, TLAPS

\* Tallying adds at most one row.
LEMMA TallyDomain ==
  ASSUME NEW tab, NEW a
  PROVE  DOMAIN Tally(tab, a) = DOMAIN tab \union {a}
BY DEF Tally

\* A row that is there already, or that finds room, keeps a table within its
\* capacity.
LEMMA TallyFits ==
  ASSUME NEW tab, NEW a, NEW cap \in Nat,
         IsFiniteSet(DOMAIN tab), Cardinality(DOMAIN tab) <= cap,
         a \in DOMAIN tab \/ Cardinality(DOMAIN tab) < cap
  PROVE  IsFiniteSet(DOMAIN Tally(tab, a)) /\ Cardinality(DOMAIN Tally(tab, a)) <= cap
<1>1. Cardinality(DOMAIN tab) \in Nat
  BY FS_CardinalityType
<1>2. /\ IsFiniteSet(DOMAIN tab \union {a})
      /\ Cardinality(DOMAIN tab \union {a}) =
           IF a \in DOMAIN tab THEN Cardinality(DOMAIN tab) ELSE Cardinality(DOMAIN tab) + 1
  BY FS_AddElement
<1>3. CASE a \in DOMAIN tab
  <2>1. DOMAIN Tally(tab, a) = DOMAIN tab
    BY <1>3, TallyDomain
  <2> QED BY <2>1
<1>4. CASE a \notin DOMAIN tab
  <2>1. Cardinality(DOMAIN tab) + 1 <= cap
    BY <1>1, <1>4
  <2> QED BY <1>2, <1>4, <2>1, TallyDomain
<1> QED
  BY <1>3, <1>4

\* A full table has an entry.
LEMMA FullIsNotEmpty ==
  ASSUME NEW S, NEW cap \in Nat \ {0}, Cardinality(S) >= cap
  PROVE  S # {}
BY FS_EmptySet

\* An empty table has no rows.
LEMMA EmptyTable ==
  /\ DOMAIN Empty = {} /\ IsFiniteSet(DOMAIN Empty) /\ Cardinality(DOMAIN Empty) = 0
BY FS_EmptySet DEF Empty

\* Adding an address keeps the PC set within its slots, loses no member, and
\* leaves the address in it unless it is 0 or the set is full.
LEMMA WithPcFits ==
  ASSUME NEW a \in Pc, flagged \subseteq Pc \ {ZeroPc}, IsFiniteSet(flagged),
         Cardinality(flagged) <= PcCap
  PROVE  /\ IsFiniteSet(WithPc(a)) /\ Cardinality(WithPc(a)) <= PcCap
         /\ flagged \subseteq WithPc(a) /\ WithPc(a) \subseteq flagged \union ({a} \ {ZeroPc})
         /\ a \in WithPc(a) \union {ZeroPc} \/ Cardinality(WithPc(a)) = PcCap
         /\ Cardinality(flagged) = PcCap => WithPc(a) = flagged
<1>1. Cardinality(flagged) \in Nat /\ PcCap \in Nat
  BY FS_CardinalityType, CapAssumption
<1>2. CASE a = ZeroPc \/ Cardinality(flagged) >= PcCap
  <2>1. WithPc(a) = flagged
    BY <1>2 DEF WithPc
  <2>2. Cardinality(flagged) >= PcCap => Cardinality(flagged) = PcCap
    BY <1>1
  <2> QED BY <1>2, <2>1, <2>2
<1>3. CASE a # ZeroPc /\ ~ (Cardinality(flagged) >= PcCap)
  <2>1. WithPc(a) = flagged \union {a}
    BY <1>3 DEF WithPc
  <2>2. /\ IsFiniteSet(flagged \union {a})
        /\ Cardinality(flagged \union {a}) =
             IF a \in flagged THEN Cardinality(flagged) ELSE Cardinality(flagged) + 1
    BY FS_AddElement
  <2>3. Cardinality(WithPc(a)) <= PcCap /\ Cardinality(flagged) # PcCap
    BY <1>1, <1>3, <2>1, <2>2
  <2> QED BY <1>3, <2>1, <2>2, <2>3
<1> QED
  BY <1>2, <1>3

\* The state of a process that has just started, whatever the log holds.
Started ==
  /\ inv = Fresh.inv /\ dropped = Fresh.dropped /\ qualifying = Fresh.qualifying
  /\ flagged = Fresh.flagged /\ cand = Fresh.cand /\ mutex = Fresh.mutex
  /\ pc = Fresh.pc /\ stale = Fresh.stale /\ call = Fresh.call
  /\ file \subseteq Key /\ runs \in 1 .. MaxRuns /\ captured = {}

LEMMA StartedIInv == Started => IInv
<1> SUFFICES ASSUME Started PROVE IInv
  OBVIOUS
<1>1. /\ inv = Empty /\ dropped = 0 /\ qualifying = 0 /\ flagged = {} /\ cand = Empty
      /\ mutex = "free" /\ pc = [p \in Proc |-> "idle"] /\ stale = TRUE
      /\ DOMAIN call = Thread
      /\ file \subseteq Key /\ runs \in 1 .. MaxRuns /\ captured = {}
  BY DEF Started, Fresh
<1>2. TypeOK
  <2>1. Cardinality(DOMAIN inv) <= InvCap /\ Cardinality(DOMAIN cand) <= CandCap
    BY <1>1, EmptyTable, CapAssumption
  <2>2. DOMAIN inv = {} /\ DOMAIN cand = {}
    BY <1>1, EmptyTable
  <2>3. mutex \in Proc \union {"free"} /\ dropped \in Nat /\ qualifying \in 0 .. MaxCalls
    BY <1>1, BoundAssumption
  <2>4. pc \in [Proc -> {"idle", "upsert", "open", "write", "flag", "census", "seed"}]
    BY <1>1
  <2>5. flagged \subseteq Pc \ {ZeroPc} /\ Cardinality(flagged) <= PcCap
    BY <1>1, FS_EmptySet, CapAssumption
  <2> QED BY <1>1, <2>1, <2>2, <2>3, <2>4, <2>5 DEF TypeOK
<1>3. Locked /\ CallKnown
  BY <1>1, ProcAssumption DEF Locked, CallKnown, Proc
<1>4. CallDone /\ LogIsTable /\ TalliedAreFlagged
  BY <1>1, EmptyTable, FS_EmptySet DEF CallDone, LogIsTable, TalliedAreFlagged, Proc
<1> QED
  BY <1>2, <1>3, <1>4 DEF IInv

\* The initial state satisfies the inductive invariant.
LEMMA InitIInv == Init => IInv
BY StartedIInv, BoundAssumption DEF Init, Started

-----------------------------------------------------------------------------
(* The probe, the flag and the tally: steps of one guest thread t that holds *)
(* no mutex.                                                                 *)

LEMMA ProbeStep ==
  ASSUME IInv, NEW t \in Thread, NEW a \in Pc, NEW k \in Key, Probe(t, a, k)
  PROVE  IInv'
<1>1. /\ TypeOK /\ Locked /\ CallKnown /\ CallDone /\ LogIsTable /\ TalliedAreFlagged
      /\ pc[t] = "idle" /\ t \in Proc /\ t # Server
      /\ pc' = [pc EXCEPT ![t] = "upsert"] /\ call' = [call EXCEPT ![t] = <<a, k>>]
      /\ qualifying < MaxCalls /\ qualifying' = qualifying + 1
      /\ UNCHANGED <<inv, dropped, flagged, cand, mutex, file, stale, runs, captured>>
  BY ProcAssumption DEF IInv, Probe, Goto, Proc
<1>2. TypeOK'
  BY <1>1, BoundAssumption DEF TypeOK
<1>3. Locked'
  BY <1>1 DEF TypeOK, Locked
<1>4. CallKnown' /\ CallDone'
  BY <1>1 DEF TypeOK, CallKnown, CallDone, Proc
<1>5. LogIsTable' /\ TalliedAreFlagged'
  BY <1>1 DEF LogIsTable, TalliedAreFlagged
<1> QED
  BY <1>2, <1>3, <1>4, <1>5 DEF IInv

LEMMA FlagStep ==
  ASSUME IInv, NEW t \in Thread, Flag(t)
  PROVE  IInv'
<1> DEFINE a == call[t][1]
<1>1. /\ TypeOK /\ Locked /\ CallKnown /\ CallDone /\ LogIsTable /\ TalliedAreFlagged
      /\ pc[t] = "flag" /\ t \in Proc /\ t # Server /\ flagged' = WithPc(a)
      /\ pc' = [pc EXCEPT ![t] = IF a = PrintfPc THEN "idle" ELSE "census"]
      /\ UNCHANGED <<inv, dropped, qualifying, cand, mutex, call, file, stale, runs, captured>>
  BY ProcAssumption DEF IInv, Flag, Goto, Proc
<1>2. a \in Pc
  BY <1>1 DEF CallKnown
<1>3. /\ IsFiniteSet(flagged') /\ Cardinality(flagged') <= PcCap
      /\ flagged \subseteq flagged' /\ flagged' \subseteq flagged \union ({a} \ {ZeroPc})
      /\ a \in flagged' \union {ZeroPc} \/ Cardinality(flagged') = PcCap
      /\ Cardinality(flagged) = PcCap => flagged' = flagged
  BY <1>1, <1>2, WithPcFits DEF TypeOK, CallDone
<1> HIDE DEF a
<1>4. TypeOK'
  BY <1>1, <1>2, <1>3 DEF TypeOK
<1>5. Locked' /\ CallKnown'
  BY <1>1 DEF TypeOK, Locked, CallKnown, Proc
<1>6. CallDone'
  BY <1>1, <1>3 DEF TypeOK, CallDone, Proc, a
<1>7. LogIsTable' /\ TalliedAreFlagged'
  <2>1. inv # Empty
    BY <1>1, EmptyTable DEF CallDone
  <2> QED BY <1>1, <1>3, <2>1 DEF LogIsTable, TalliedAreFlagged
<1> QED
  BY <1>4, <1>5, <1>6, <1>7 DEF IInv

\* A seed flags one of the two chokepoints, whatever has been captured.
LEMMA Seeding ==
  ASSUME IInv, NEW t \in Thread, NEW a \in {DrawPc, PrintfPc}, NEW l \in {"idle", "seed"},
         pc[t] \in {"idle", "seed"}, flagged' = WithPc(a), pc' = [pc EXCEPT ![t] = l],
         l = "seed" => pc[t] = "idle",
         UNCHANGED <<inv, dropped, qualifying, cand, mutex, call, file, stale, runs, captured>>
  PROVE  IInv'
<1>1. /\ TypeOK /\ Locked /\ CallKnown /\ CallDone /\ LogIsTable /\ TalliedAreFlagged
      /\ t \in Proc /\ t # Server /\ a \in Pc
  BY ProcAssumption, PcAssumption DEF IInv, Proc
<1>2. /\ IsFiniteSet(flagged') /\ Cardinality(flagged') <= PcCap
      /\ flagged \subseteq flagged' /\ flagged' \subseteq flagged \union ({a} \ {ZeroPc})
      /\ Cardinality(flagged) = PcCap => flagged' = flagged
  BY <1>1, WithPcFits DEF TypeOK, CallDone
<1>3. TypeOK'
  BY <1>1, <1>2 DEF TypeOK
<1>4. Locked' /\ CallKnown'
  BY <1>1 DEF TypeOK, Locked, CallKnown, Proc
<1>5. CallDone'
  BY <1>1, <1>2 DEF TypeOK, CallDone, Proc
<1>6. LogIsTable' /\ TalliedAreFlagged'
  BY <1>1, <1>2 DEF LogIsTable, TalliedAreFlagged
<1> QED
  BY <1>3, <1>4, <1>5, <1>6 DEF IInv

LEMMA SeedStep ==
  ASSUME IInv, NEW t \in Thread, Seed(t) \/ SeedPrintf(t)
  PROVE  IInv'
<1>1. CASE Seed(t)
  BY <1>1, Seeding DEF Seed, Goto
<1>2. CASE SeedPrintf(t)
  BY <1>2, Seeding DEF SeedPrintf, Goto
<1> QED
  BY <1>1, <1>2

LEMMA CensusStep ==
  ASSUME IInv, NEW t \in Thread, Census(t)
  PROVE  IInv'
<1> DEFINE a == call[t][1]
           fits == a \in DOMAIN cand \/ Cardinality(DOMAIN cand) < CandCap
<1>1. /\ TypeOK /\ Locked /\ CallKnown /\ CallDone /\ LogIsTable /\ TalliedAreFlagged
      /\ pc[t] = "census" /\ t \in Proc /\ t # Server
      /\ cand' = IF fits THEN Tally(cand, a) ELSE cand
      /\ pc' = [pc EXCEPT ![t] = "idle"]
      /\ UNCHANGED <<inv, dropped, qualifying, flagged, mutex, call, file, stale, runs, captured>>
  BY ProcAssumption DEF IInv, Census, Goto, Proc
<1>2. a \in Pc /\ (a \in flagged \union {ZeroPc} \/ Cardinality(flagged) = PcCap)
  BY <1>1 DEF CallKnown, CallDone
<1>3. /\ IsFiniteSet(DOMAIN cand') /\ Cardinality(DOMAIN cand') <= CandCap
      /\ DOMAIN cand' \subseteq DOMAIN cand \union {a}
  <2>1. CASE fits
    BY <1>1, <2>1, TallyFits, TallyDomain, CapAssumption DEF TypeOK, CallDone
  <2>2. CASE ~ fits
    BY <1>1, <2>2 DEF TypeOK, CallDone
  <2> QED BY <2>1, <2>2
<1> HIDE DEF a, fits
<1>4. TypeOK'
  BY <1>1, <1>2, <1>3 DEF TypeOK
<1>5. Locked' /\ CallKnown'
  BY <1>1 DEF TypeOK, Locked, CallKnown, Proc
<1>6. CallDone'
  BY <1>1, <1>3 DEF TypeOK, CallDone, Proc
<1>7. LogIsTable' /\ TalliedAreFlagged'
  BY <1>1, <1>2, <1>3 DEF LogIsTable, TalliedAreFlagged
<1> QED
  BY <1>4, <1>5, <1>6, <1>7 DEF IInv

-----------------------------------------------------------------------------
(* The critical section. *)

LEMMA UpsertStep ==
  ASSUME IInv, NEW t \in Thread, Upsert(t)
  PROVE  IInv'
<1> DEFINE k == call[t][2]
<1>1. /\ TypeOK /\ Locked /\ CallKnown /\ CallDone /\ LogIsTable /\ TalliedAreFlagged
      /\ pc[t] = "upsert" /\ mutex = "free" /\ t \in Proc /\ t # Server /\ "free" \notin Proc
      /\ UNCHANGED <<qualifying, flagged, cand, call, file, stale, runs>>
  BY ProcAssumption DEF IInv, Upsert, Proc
<1>2. k \in Key
  BY <1>1 DEF CallKnown
<1>3. CASE /\ k \in DOMAIN inv
           /\ inv' = Tally(inv, k) /\ captured' = captured \union {k}
           /\ Goto(t, "flag") /\ UNCHANGED <<dropped, mutex>>
  <2>1. DOMAIN inv' = DOMAIN inv
    BY <1>3, TallyDomain
  <2>2. pc' = [pc EXCEPT ![t] = "flag"]
    BY <1>3 DEF Goto
  <2>3. TypeOK'
    BY <1>1, <1>2, <1>3, <2>1, <2>2 DEF TypeOK
  <2>4. Locked' /\ CallKnown' /\ CallDone'
    BY <1>1, <1>3, <2>1, <2>2 DEF TypeOK, Locked, CallKnown, CallDone, Proc
  <2>5. LogIsTable' /\ TalliedAreFlagged'
    BY <1>1, <1>3, <2>1, EmptyTable DEF LogIsTable, TalliedAreFlagged
  <2> QED BY <2>3, <2>4, <2>5 DEF IInv
<1>4. CASE /\ k \notin DOMAIN inv /\ Cardinality(DOMAIN inv) < InvCap
           /\ inv' = Tally(inv, k) /\ mutex' = t
           /\ Goto(t, "open") /\ UNCHANGED <<dropped, captured>>
  <2>1. DOMAIN inv' = DOMAIN inv \union {k}
    BY <1>4, TallyDomain
  <2>2. pc' = [pc EXCEPT ![t] = "open"]
    BY <1>4 DEF Goto
  <2>3. IsFiniteSet(DOMAIN inv') /\ Cardinality(DOMAIN inv') <= InvCap
    BY <1>1, <1>4, TallyFits, CapAssumption DEF TypeOK, CallDone
  <2>4. TypeOK'
    BY <1>1, <1>2, <1>4, <2>1, <2>2, <2>3 DEF TypeOK
  <2>5. Locked' /\ CallKnown'
    BY <1>1, <1>4, <2>2 DEF TypeOK, Locked, CallKnown, Proc
  <2>6. CallDone'
    BY <1>1, <1>4, <2>1, <2>2, <2>3 DEF TypeOK, CallDone, Proc
  <2>7. LogIsTable' /\ TalliedAreFlagged'
    BY <1>1, <1>4, <2>1, EmptyTable DEF LogIsTable, TalliedAreFlagged
  <2> QED BY <2>4, <2>5, <2>6, <2>7 DEF IInv
<1>5. CASE /\ k \notin DOMAIN inv /\ Cardinality(DOMAIN inv) >= InvCap
           /\ dropped' = dropped + 1
           /\ Goto(t, "flag") /\ UNCHANGED <<inv, mutex, captured>>
  <2>1. DOMAIN inv # {}
    BY <1>5, FullIsNotEmpty, CapAssumption
  <2>2. pc' = [pc EXCEPT ![t] = "flag"]
    BY <1>5 DEF Goto
  <2>3. TypeOK'
    BY <1>1, <1>5, <2>2 DEF TypeOK
  <2>4. Locked' /\ CallKnown' /\ CallDone'
    BY <1>1, <1>5, <2>1, <2>2 DEF TypeOK, Locked, CallKnown, CallDone, Proc
  <2>5. LogIsTable' /\ TalliedAreFlagged'
    BY <1>1, <1>5 DEF LogIsTable, TalliedAreFlagged
  <2> QED BY <2>3, <2>4, <2>5 DEF IInv
<1> QED
  BY <1>3, <1>4, <1>5 DEF Upsert

LEMMA StringdumpStep ==
  ASSUME IInv, Stringdump
  PROVE  IInv'
<1>1. /\ TypeOK /\ Locked /\ CallKnown /\ CallDone /\ LogIsTable /\ TalliedAreFlagged
      /\ mutex = "free" /\ mutex' = Server /\ Server \in Proc /\ Server \notin Thread
      /\ "free" \notin Proc /\ pc' = [pc EXCEPT ![Server] = "open"]
      /\ UNCHANGED <<inv, dropped, qualifying, flagged, cand, call, file, stale, runs, captured>>
  BY ProcAssumption DEF IInv, Stringdump, Goto, Proc
<1>2. TypeOK'
  BY <1>1 DEF TypeOK
<1>3. Locked' /\ CallKnown' /\ CallDone'
  BY <1>1 DEF TypeOK, Locked, CallKnown, CallDone, Proc
<1>4. LogIsTable' /\ TalliedAreFlagged'
  BY <1>1 DEF LogIsTable, TalliedAreFlagged
<1> QED
  BY <1>2, <1>3, <1>4 DEF IInv

\* A step of a dump that goes on: only the holder of the mutex is here.
LEMMA Writing ==
  ASSUME IInv, NEW p \in Proc, pc[p] \in {"open", "write"},
         pc' = [pc EXCEPT ![p] = "write"], file' \subseteq Key,
         UNCHANGED <<inv, dropped, qualifying, flagged, cand, mutex, call, stale, runs, captured>>
  PROVE  IInv'
<1>1. /\ TypeOK /\ Locked /\ CallKnown /\ CallDone /\ TalliedAreFlagged
      /\ mutex = p /\ "free" # p
  BY ProcAssumption DEF IInv, Locked, Proc
<1>2. TypeOK'
  BY <1>1 DEF TypeOK
<1>3. Locked' /\ CallKnown' /\ CallDone'
  BY <1>1 DEF TypeOK, Locked, CallKnown, CallDone, Proc
<1>4. LogIsTable' /\ TalliedAreFlagged'
  BY <1>1 DEF LogIsTable, TalliedAreFlagged
<1> QED
  BY <1>2, <1>3, <1>4 DEF IInv

\* The end of a dump: the log is complete or known to be stale.
LEMMA DumpedStep ==
  ASSUME IInv, NEW p \in Proc, pc[p] \in {"open", "write"}, Dumped(p),
         file' \subseteq Key, stale' \in BOOLEAN, ~ stale' => file' = DOMAIN inv
  PROVE  IInv'
<1>1. /\ TypeOK /\ Locked /\ CallKnown /\ CallDone /\ TalliedAreFlagged
      /\ mutex = p /\ mutex' = "free" /\ "free" \notin Proc
      /\ pc' = [pc EXCEPT ![p] = IF p = Server THEN "idle" ELSE "flag"]
      /\ UNCHANGED <<inv, dropped, qualifying, flagged, cand, call, runs>>
  BY ProcAssumption DEF IInv, Dumped, Goto, Locked, Proc
<1>2. captured' \subseteq Key
  BY <1>1 DEF Dumped, CallKnown, TypeOK, Proc
<1>3. TypeOK'
  BY <1>1, <1>2 DEF TypeOK
<1>4. Locked' /\ CallKnown' /\ CallDone'
  BY <1>1 DEF TypeOK, Locked, CallKnown, CallDone, Proc
<1>5. LogIsTable' /\ TalliedAreFlagged'
  BY <1>1 DEF LogIsTable, TalliedAreFlagged
<1> QED
  BY <1>3, <1>4, <1>5 DEF IInv

LEMMA DumpStep ==
  ASSUME IInv, NEW p \in Proc, DumpOpen(p) \/ DumpFlush(p) \/ DumpClose(p)
  PROVE  IInv'
<1>1. file \subseteq Key /\ DOMAIN inv \subseteq Key /\ stale \in BOOLEAN
      /\ pc \in [Proc -> {"idle", "upsert", "open", "write", "flag", "census", "seed"}]
  BY DEF IInv, TypeOK
<1>2. CASE DumpOpen(p)
  <2>1. CASE file' = {} /\ Goto(p, "write")
             /\ UNCHANGED <<inv, dropped, qualifying, flagged, cand, mutex, call, stale, runs, captured>>
    BY <1>2, <2>1, Writing DEF DumpOpen, Goto
  <2>2. CASE stale' = TRUE /\ Dumped(p) /\ UNCHANGED file
    BY <1>1, <1>2, <2>2, DumpedStep DEF DumpOpen
  <2> QED BY <1>2, <2>1, <2>2 DEF DumpOpen
<1>3. CASE DumpFlush(p)
  <2>1. pc[p] = "write" /\ file' \subseteq Key /\ pc' = [pc EXCEPT ![p] = "write"]
    BY <1>1, <1>3 DEF DumpFlush
  <2> QED BY <1>3, <2>1, Writing DEF DumpFlush
<1>4. CASE DumpClose(p)
  BY <1>1, <1>4, DumpedStep DEF DumpClose
<1> QED
  BY <1>2, <1>3, <1>4

LEMMA CrashStep ==
  ASSUME IInv, Crash
  PROVE  IInv'
<1>1. Started'
  BY BoundAssumption DEF IInv, TypeOK, Crash, Started, Fresh, Proc
<1>2. (Started => IInv)'
  BY StartedIInv, PTL
<1> QED
  BY <1>1, <1>2

LEMMA StutterStep ==
  ASSUME IInv, UNCHANGED vars
  PROVE  IInv'
BY DEF IInv, TypeOK, Locked, CallKnown, CallDone, LogIsTable, TalliedAreFlagged, vars

-----------------------------------------------------------------------------
\* The inductive invariant holds.
THEOREM Invariance == Spec => []IInv
<1>1. IInv /\ [Next]_vars => IInv'
  BY ProbeStep, FlagStep, SeedStep, CensusStep, UpsertStep, StringdumpStep, DumpStep, CrashStep,
     StutterStep DEF Next
<1> QED
  BY <1>1, InitIInv, PTL DEF Spec

\* While nobody rewrites it, the log holds the strings of the table, unless the
\* latest rewrite could not open it: the guest threads and the server's
\* stringdump never leave one another's rewrite half done.
THEOREM LogFollowsTable == Spec => []LogIsTable
<1>1. IInv => LogIsTable
  BY DEF IInv
<1> QED
  BY <1>1, Invariance, PTL

\* No table exceeds its capacity; every routine in the census passes the PC gate
\* of the printf swaps unless the gate's 512 slots are taken; and before the first
\* string is captured only the two seeds of a load pass it.
THEOREM CensusIsFlagged == Spec => []TallyInv
<1>1. IInv => TallyInv
  BY DEF IInv, TallyInv
<1> QED
  BY <1>1, Invariance, PTL

-----------------------------------------------------------------------------
(* Every call is accounted for.  A table's calls are counted as pairs, so    *)
(* that a tally adds one pair; a thread enters the upsert with the call's    *)
(* count and leaves it with the entry's or the drop's.                       *)

\* A tally counts one call more.
LEMMA TallyCounts ==
  ASSUME NEW tab, NEW a, \A x \in DOMAIN tab : tab[x] \in Nat, IsFiniteSet(Counted(tab))
  PROVE  /\ \A x \in DOMAIN Tally(tab, a) : Tally(tab, a)[x] \in Nat
         /\ IsFiniteSet(Counted(Tally(tab, a)))
         /\ Total(Tally(tab, a)) = Total(tab) + 1
<1> DEFINE new == Tally(tab, a)
           n == IF a \in DOMAIN tab THEN tab[a] ELSE 0
<1>1. /\ DOMAIN new = DOMAIN tab \union {a} /\ n \in Nat /\ new[a] = n + 1
      /\ \A x \in DOMAIN tab : x # a => new[x] = tab[x]
  BY DEF Tally
<1> HIDE DEF new, n
<1>2. \A x, i : <<x, i>> \in Counted(tab) <=> x \in DOMAIN tab /\ i \in 1 .. tab[x]
  BY DEF Counted
<1>3. \A x, i : <<x, i>> \in Counted(new) <=> x \in DOMAIN new /\ i \in 1 .. new[x]
  BY DEF Counted
<1>4. <<a, n + 1>> \notin Counted(tab)
  BY <1>1, <1>2 DEF n
<1>5. \A x, i : <<x, i>> \in Counted(new) <=> <<x, i>> \in Counted(tab) \/ <<x, i>> = <<a, n + 1>>
  <2> SUFFICES ASSUME NEW x, NEW i
               PROVE  <<x, i>> \in Counted(new) <=> <<x, i>> \in Counted(tab) \/ <<x, i>> = <<a, n + 1>>
    OBVIOUS
  <2>1. CASE x = a
    <3>1. <<x, i>> \in Counted(tab) <=> i \in 1 .. n
      BY <1>1, <1>2, <2>1 DEF n
    <3>2. <<x, i>> \in Counted(new) <=> i \in 1 .. n + 1
      BY <1>1, <1>3, <2>1
    <3>3. i \in 1 .. n + 1 <=> i \in 1 .. n \/ i = n + 1
      BY <1>1
    <3> QED BY <2>1, <3>1, <3>2, <3>3
  <2>2. CASE x # a
    BY <1>1, <1>2, <1>3, <2>2
  <2> QED BY <2>1, <2>2
<1>6. Counted(new) = Counted(tab) \union {<<a, n + 1>>}
  <2>1. \A e : e \in Counted(tab) \/ e \in Counted(new) => \E x, i : e = <<x, i>>
    BY DEF Counted
  <2> QED BY <1>5, <2>1
<1>7. IsFiniteSet(Counted(new)) /\ Cardinality(Counted(new)) = Cardinality(Counted(tab)) + 1
  BY <1>4, <1>6, FS_AddElement
<1>8. \A x \in DOMAIN new : new[x] \in Nat
  BY <1>1
<1> QED
  BY <1>7, <1>8 DEF Total, new

\* Nothing has been counted in a process that has just started.
LEMMA StartedAccounts == Started => Accounts
<1> SUFFICES ASSUME Started PROVE Accounts
  OBVIOUS
<1>1. inv = Empty /\ dropped = 0 /\ qualifying = 0 /\ pc = [p \in Proc |-> "idle"]
  BY DEF Started, Fresh
<1>2. DOMAIN inv = {} /\ Counted(inv) = {} /\ Upserting = {}
  BY <1>1 DEF Counted, Upserting, Empty, Proc
<1> QED
  BY <1>1, <1>2, FS_EmptySet DEF Accounts, CallsAccounted, Total

\* A call begins.
LEMMA ProbeAccounts ==
  ASSUME IInv, Accounts, NEW t \in Thread, NEW a \in Pc, NEW k \in Key, Probe(t, a, k)
  PROVE  Accounts'
<1>1. /\ pc \in [Proc -> {"idle", "upsert", "open", "write", "flag", "census", "seed"}] /\ t \in Proc
      /\ dropped \in Nat /\ pc[t] = "idle" /\ pc' = [pc EXCEPT ![t] = "upsert"]
      /\ qualifying' = qualifying + 1 /\ inv' = inv /\ dropped' = dropped
      /\ CallsAccounted /\ IsFiniteSet(Upserting) /\ IsFiniteSet(Counted(inv))
      /\ \A s \in DOMAIN inv : inv[s] \in Nat
  BY DEF IInv, TypeOK, Accounts, Probe, Goto, Proc
<1>2. Upserting' = Upserting \union {t} /\ t \notin Upserting
  BY <1>1 DEF Upserting, Proc
<1>3. IsFiniteSet(Upserting') /\ Cardinality(Upserting') = Cardinality(Upserting) + 1
  BY <1>1, <1>2, FS_AddElement
<1>4. Total(inv) \in Nat /\ Cardinality(Upserting) \in Nat
  BY <1>1, FS_CardinalityType DEF Total
<1>5. CallsAccounted'
  BY <1>1, <1>3, <1>4 DEF CallsAccounted
<1> QED
  BY <1>1, <1>3, <1>5 DEF Accounts

\* A call is recorded or dropped.
LEMMA UpsertAccounts ==
  ASSUME IInv, Accounts, NEW t \in Thread, Upsert(t)
  PROVE  Accounts'
<1> DEFINE k == call[t][2]
<1>1. /\ pc \in [Proc -> {"idle", "upsert", "open", "write", "flag", "census", "seed"}] /\ t \in Proc
      /\ dropped \in Nat /\ pc[t] = "upsert" /\ qualifying' = qualifying
      /\ \/ inv' = Tally(inv, k) /\ dropped' = dropped
         \/ inv' = inv /\ dropped' = dropped + 1
      /\ pc' = [pc EXCEPT ![t] = "flag"] \/ pc' = [pc EXCEPT ![t] = "open"]
      /\ CallsAccounted /\ IsFiniteSet(Upserting) /\ IsFiniteSet(Counted(inv))
      /\ \A s \in DOMAIN inv : inv[s] \in Nat
  BY DEF IInv, TypeOK, Accounts, Upsert, Goto, Proc
<1>2. Upserting' = Upserting \ {t} /\ t \in Upserting
  BY <1>1 DEF Upserting, Proc
<1>3. /\ IsFiniteSet(Upserting') /\ Cardinality(Upserting') = Cardinality(Upserting) - 1
  BY <1>1, <1>2, FS_RemoveElement
<1>4. Total(inv) \in Nat /\ Cardinality(Upserting) \in Nat /\ Cardinality(Upserting') \in Nat
  BY <1>1, <1>3, FS_CardinalityType DEF Total
<1>5. CASE inv' = Tally(inv, k) /\ dropped' = dropped
  <2>1. /\ \A s \in DOMAIN Tally(inv, k) : Tally(inv, k)[s] \in Nat
        /\ IsFiniteSet(Counted(Tally(inv, k))) /\ Total(Tally(inv, k)) = Total(inv) + 1
    BY <1>1, TallyCounts
  <2>2. Total(inv)' = Total(inv) + 1
    BY <1>5, <2>1 DEF Total, Counted
  <2>3. CallsAccounted'
    BY <1>1, <1>3, <1>4, <1>5, <2>2 DEF CallsAccounted
  <2>4. (IsFiniteSet(Counted(inv)) /\ \A s \in DOMAIN inv : inv[s] \in Nat)'
    BY <1>5, <2>1
  <2> QED BY <1>3, <2>3, <2>4 DEF Accounts
<1>6. CASE inv' = inv /\ dropped' = dropped + 1
  <2>1. CallsAccounted'
    BY <1>1, <1>3, <1>4, <1>6 DEF CallsAccounted
  <2> QED BY <1>1, <1>3, <1>6, <2>1 DEF Accounts
<1> QED
  BY <1>1, <1>5, <1>6

\* No other step begins a call, ends an upsert or touches the counts.
LEMMA OtherAccounts ==
  ASSUME Accounts, UNCHANGED <<inv, dropped, qualifying>>,
         \A t \in Thread : pc'[t] = "upsert" <=> pc[t] = "upsert"
  PROVE  Accounts'
<1>1. Upserting' = Upserting
  BY DEF Upserting
<1> QED
  BY <1>1 DEF Accounts, CallsAccounted

LEMMA StepAccounts ==
  ASSUME IInv, Accounts, [Next]_vars
  PROVE  Accounts'
<1>1. /\ pc \in [Proc -> {"idle", "upsert", "open", "write", "flag", "census", "seed"}]
      /\ \A t \in Thread : t \in Proc /\ t # Server
  BY ProcAssumption DEF IInv, TypeOK, Proc
<1>2. ASSUME NEW t \in Thread, Flag(t) \/ Census(t) \/ Seed(t) \/ SeedPrintf(t)
      PROVE  Accounts'
  BY <1>1, <1>2, OtherAccounts DEF Flag, Census, Seed, SeedPrintf, Goto
<1>3. CASE Stringdump
  BY <1>1, <1>3, OtherAccounts DEF Stringdump, Goto
<1>4. ASSUME NEW p \in Proc, DumpOpen(p) \/ DumpFlush(p) \/ DumpClose(p)
      PROVE  Accounts'
  <2>1. UNCHANGED <<inv, dropped, qualifying>>
    BY <1>4 DEF DumpOpen, DumpFlush, DumpClose, Dumped
  <2>2. pc[p] \in {"open", "write"}
    BY <1>4 DEF DumpOpen, DumpFlush, DumpClose
  <2>3. \E l \in {"idle", "flag", "write"} : pc' = [pc EXCEPT ![p] = l]
    <3>1. DumpFlush(p) => pc' = [pc EXCEPT ![p] = "write"]
      BY <1>1 DEF DumpFlush
    <3> QED BY <1>4, <3>1 DEF DumpOpen, DumpClose, Dumped, Goto
  <2>4. \A t \in Thread : pc'[t] = "upsert" <=> pc[t] = "upsert"
    BY <1>1, <2>2, <2>3
  <2> QED BY <2>1, <2>4, OtherAccounts
<1>5. CASE Crash
  <2>1. Started'
    BY <1>5, BoundAssumption DEF IInv, TypeOK, Crash, Started, Fresh, Proc
  <2>2. (Started => Accounts)'
    BY StartedAccounts, PTL
  <2> QED BY <2>1, <2>2
<1>6. CASE UNCHANGED vars
  BY <1>6, OtherAccounts DEF vars
<1> QED
  BY <1>2, <1>3, <1>4, <1>5, <1>6, ProbeAccounts, UpsertAccounts DEF Next

\* Every qualifying call is counted by its string, dropped, or still in the
\* hands of a thread: the threads' upserts lose none and count none twice, a
\* full table and a process that died included.
THEOREM CallsAreAccounted == Spec => []CallsAccounted
<1>1. Init => Accounts
  BY StartedAccounts, BoundAssumption DEF Init, Started
<1>2. IInv /\ Accounts /\ [Next]_vars => Accounts'
  BY StepAccounts
<1>3. Accounts => CallsAccounted
  BY DEF Accounts
<1> QED
  BY <1>1, <1>2, <1>3, Invariance, PTL DEF Spec
=============================================================================
