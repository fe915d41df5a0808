-------------------------- MODULE TextPcSetProofs --------------------------
(***************************************************************************)
(* Theorems about TextPcSet for every number of slots, every hash and any  *)
(* number of threads.  Each step of a call preserves IInv; what changes    *)
(* the table is one successful compare-exchange on an empty slot, so the   *)
(* proof rests on three facts: written slots keep their value, a probe     *)
(* sequence a thread has walked stays walked, and the address claimed      *)
(* occurs nowhere in the table, because its chain would have to cross the  *)
(* slot that is still empty.                                               *)
(*                                                                         *)
(* The second part is about counting: N probes visit every slot, so a call *)
(* that walked them all has seen the whole table; and the set has as many  *)
(* members as slots are taken, because no two slots agree.  With that,     *)
(* TextPcSet implements PcSet, as long as nobody looks up the address 0.   *)
(***************************************************************************)
EXTENDS TextPcSet, FiniteSetTheorems, TLAPS

\* A probe lands in the table, whatever the hash (the mask & (N - 1)).
LEMMA ProbeInTable ==
  ASSUME NEW p \in Pc \union {NoPc}, NEW k \in Nat
  PROVE  Probe(p, k) \in Slot
<1>1. Hash[p] \in Nat /\ N \in Nat /\ N > 0
  BY HashAssumption, NAssumption
<1> QED
  BY <1>1 DEF Probe, Slot

\* The slot a call accesses next is in the table.
LEMMA OwnProbeInTable ==
  ASSUME TypeOK, NEW t \in Thread
  PROVE  Probe(arg[t], i[t]) \in Slot
<1>1. arg[t] \in Pc \union {NoPc} /\ i[t] \in Nat
  BY NAssumption DEF TypeOK, Slot
<1> QED
  BY <1>1, ProbeInTable

\* A load of an observed slot returns its value; any other load returns the
\* value or the initial NoPc.
LEMMA LoadsOnlyLatestOrEmpty ==
  ASSUME NEW t \in Thread, NEW s \in Slot, NEW v \in Loads(t, s)
  PROVE  /\ v = table[s] \/ v = NoPc
         /\ s \in seen[t] => v = table[s]
BY DEF Loads

-----------------------------------------------------------------------------
\* The initial state satisfies the inductive invariant.
LEMMA InitIInv == Init => IInv
<1> SUFFICES ASSUME Init PROVE IInv
  OBVIOUS
<1>1. TypeOK
  BY QueryAssumption, NAssumption DEF Init, TypeOK, Slot
<1>2. ProbeChain
  BY DEF Init, ProbeChain
<1>3. SeenWritten /\ Walked /\ KnownSeen /\ ReadYourWrites
  BY DEF Init, SeenWritten, Walked, KnownSeen, ReadYourWrites
<1> QED
  BY <1>1, <1>2, <1>3 DEF IInv

\* A step that leaves the table alone keeps its chains.
LEMMA ChainStable ==
  ASSUME ProbeChain, table' = table
  PROVE  ProbeChain'
BY DEF ProbeChain, Probe, Slot

\* Type correctness is preserved by every step.
LEMMA StepTypeOK == IInv /\ [Next]_vars => TypeOK'
<1> SUFFICES ASSUME IInv, [Next]_vars PROVE TypeOK'
  OBVIOUS
<1> USE NAssumption, QueryAssumption DEF TypeOK, IInv, Slot
<1>1. ASSUME NEW t \in Thread, NEW l \in {"contains", "load"},
             NEW p \in Pc \union {NoPc}, Begin(t, l, p)
      PROVE  TypeOK'
  BY <1>1 DEF Begin
<1>2. ASSUME NEW t \in Thread, NEW a \in {"yes", "no", "added", "dropped"}, Return(t, a)
      PROVE  /\ pc' \in [Thread -> {"idle", "contains", "load", "cas", "reload"}]
             /\ arg' \in [Thread -> Pc \union {NoPc}]
             /\ i' \in [Thread -> Slot]
             /\ ans' \in [Thread -> {"none", "yes", "no", "added", "dropped"}]
             /\ known' \in [Thread -> SUBSET Pc]
  BY <1>2 DEF Return
<1>3. ASSUME NEW t \in Thread, NEW l \in {"contains", "load"},
             NEW a \in {"no", "dropped"}, Advance(t, l, a)
      PROVE  /\ pc' \in [Thread -> {"idle", "contains", "load", "cas", "reload"}]
             /\ arg' \in [Thread -> Pc \union {NoPc}]
             /\ i' \in [Thread -> Slot]
             /\ ans' \in [Thread -> {"none", "yes", "no", "added", "dropped"}]
             /\ known' \in [Thread -> SUBSET Pc]
  <2>1. CASE i[t] + 1 = N /\ Return(t, a)
    BY <2>1, <1>2
  <2>2. CASE /\ i[t] + 1 < N
             /\ i' = [i EXCEPT ![t] = @ + 1]
             /\ pc' = [pc EXCEPT ![t] = l]
             /\ UNCHANGED <<arg, ans, known>>
    <3>1. i[t] \in 0 .. N - 1 /\ i[t] + 1 \in 0 .. N - 1
      BY <2>2
    <3> QED BY <2>2, <3>1
  <2> QED BY <2>1, <2>2, <1>3 DEF Advance
<1>4. ASSUME NEW t \in Thread, NEW s \in Slot, NEW v, Observe(t, s, v)
      PROVE  seen' \in [Thread -> SUBSET Slot]
  BY <1>4 DEF Observe
<1>5. ASSUME NEW t \in Thread, ContainsLoad(t)
      PROVE  TypeOK'
  <2> DEFINE s == Probe(arg[t], i[t])
  <2>1. s \in Slot
    BY OwnProbeInTable
  <2>2. PICK v \in Loads(t, s) : /\ Observe(t, s, v)
                                 /\ \/ v = arg[t] /\ Return(t, "yes")
                                    \/ v = NoPc /\ v # arg[t] /\ Return(t, "no")
                                    \/ v \notin {arg[t], NoPc} /\ Advance(t, "contains", "no")
    BY <1>5 DEF ContainsLoad
  <2>3. seen' \in [Thread -> SUBSET Slot]
    BY <1>4, <2>1, <2>2
  <2> QED
    <3>1. table' = table
      BY <1>5 DEF ContainsLoad
    <3>2. CASE Return(t, "yes") \/ Return(t, "no")
      BY <1>2, <2>3, <3>1, <3>2
    <3>3. CASE Advance(t, "contains", "no")
      BY <1>3, <2>3, <3>1, <3>3
    <3> QED BY <2>2, <3>2, <3>3
<1>6. ASSUME NEW t \in Thread, AddLoad(t)
      PROVE  TypeOK'
  <2> DEFINE s == Probe(arg[t], i[t])
  <2>1. s \in Slot
    BY OwnProbeInTable
  <2>2. PICK v \in Loads(t, s) : /\ Observe(t, s, v)
                                 /\ \/ v = arg[t] /\ Return(t, "added")
                                    \/ v = NoPc /\ pc' = [pc EXCEPT ![t] = "cas"]
                                                /\ UNCHANGED <<arg, i, ans, known>>
                                    \/ v \notin {arg[t], NoPc} /\ Advance(t, "load", "dropped")
    BY <1>6 DEF AddLoad
  <2>3. seen' \in [Thread -> SUBSET Slot]
    BY <1>4, <2>1, <2>2
  <2> QED
    <3>1. table' = table
      BY <1>6 DEF AddLoad
    <3>2. CASE Return(t, "added")
      BY <1>2, <2>3, <3>1, <3>2
    <3>3. CASE Advance(t, "load", "dropped")
      BY <1>3, <2>3, <3>1, <3>3
    <3>4. CASE pc' = [pc EXCEPT ![t] = "cas"] /\ UNCHANGED <<arg, i, ans, known>>
      BY <2>3, <3>1, <3>4
    <3> QED BY <2>2, <3>2, <3>3, <3>4
<1>7. ASSUME NEW t \in Thread, AddCas(t)
      PROVE  TypeOK'
  <2> DEFINE s == Probe(arg[t], i[t])
  <2>1. s \in Slot
    BY OwnProbeInTable
  <2>2. seen' \in [Thread -> SUBSET Slot]
    BY <1>7, <2>1 DEF AddCas
  <2>3. table' \in [Slot -> Pc \union {NoPc}]
    BY <1>7, <2>1 DEF AddCas
  <2> QED
    <3>1. CASE Return(t, "added")
      BY <1>2, <2>2, <2>3, <3>1
    <3>2. CASE pc' = [pc EXCEPT ![t] = "reload"] /\ UNCHANGED <<arg, i, ans, known>>
      BY <2>2, <2>3, <3>2
    <3> QED BY <1>7, <3>1, <3>2 DEF AddCas
<1>8. ASSUME NEW t \in Thread, AddReload(t)
      PROVE  TypeOK'
  <2> DEFINE s == Probe(arg[t], i[t])
  <2>1. s \in Slot
    BY OwnProbeInTable
  <2>2. PICK v \in Loads(t, s) : /\ Observe(t, s, v)
                                 /\ \/ v = arg[t] /\ Return(t, "added")
                                    \/ v # arg[t] /\ Advance(t, "load", "dropped")
    BY <1>8 DEF AddReload
  <2>3. seen' \in [Thread -> SUBSET Slot]
    BY <1>4, <2>1, <2>2
  <2> QED
    <3>1. table' = table
      BY <1>8 DEF AddReload
    <3>2. CASE Return(t, "added")
      BY <1>2, <2>3, <3>1, <3>2
    <3>3. CASE Advance(t, "load", "dropped")
      BY <1>3, <2>3, <3>1, <3>3
    <3> QED BY <2>2, <3>2, <3>3
<1>9. CASE UNCHANGED vars
  BY <1>9 DEF vars
<1> QED
  BY <1>1, <1>5, <1>6, <1>7, <1>8, <1>9
  DEF Next, Step, BeginContains, BeginAdd

-----------------------------------------------------------------------------
\* One thread acts at a time: the registers of every other thread are kept.
LEMMA OthersKeep ==
  ASSUME TypeOK, NEW t \in Thread, NEW u \in Thread, u # t,
         BeginContains(t) \/ BeginAdd(t) \/ Step(t)
  PROVE  /\ pc'[u] = pc[u] /\ arg'[u] = arg[u] /\ i'[u] = i[u]
         /\ ans'[u] = ans[u] /\ known'[u] = known[u] /\ seen'[u] = seen[u]
<1> DEFINE Kept == /\ pc'[u] = pc[u] /\ arg'[u] = arg[u] /\ i'[u] = i[u]
                   /\ ans'[u] = ans[u] /\ known'[u] = known[u]
<1>1. ASSUME NEW l, NEW p, Begin(t, l, p)  PROVE Kept /\ seen'[u] = seen[u]
  BY <1>1 DEF Begin, TypeOK
<1>2. ASSUME NEW a, Return(t, a)  PROVE Kept
  BY <1>2 DEF Return, TypeOK
<1>3. ASSUME NEW l, NEW a, Advance(t, l, a)  PROVE Kept
  BY <1>2, <1>3 DEF Advance, TypeOK
<1>4. ASSUME NEW s, NEW v, Observe(t, s, v)  PROVE seen'[u] = seen[u]
  BY <1>4 DEF Observe, TypeOK
<1>5. CASE BeginContains(t) \/ BeginAdd(t)
  BY <1>1, <1>5 DEF BeginContains, BeginAdd
<1>6. CASE ContainsLoad(t)
  BY <1>2, <1>3, <1>4, <1>6 DEF ContainsLoad
<1>7. CASE AddLoad(t)
  <2>1. ASSUME pc' = [pc EXCEPT ![t] = "cas"], UNCHANGED <<arg, i, ans, known>>  PROVE Kept
    BY <2>1 DEF TypeOK
  <2> QED BY <1>2, <1>3, <1>4, <1>7, <2>1 DEF AddLoad
<1>8. CASE AddCas(t)
  <2>1. seen'[u] = seen[u]
    BY <1>8 DEF AddCas, TypeOK
  <2>2. ASSUME pc' = [pc EXCEPT ![t] = "reload"], UNCHANGED <<arg, i, ans, known>>  PROVE Kept
    BY <2>2 DEF TypeOK
  <2> QED BY <1>2, <1>8, <2>1, <2>2 DEF AddCas
<1>9. CASE AddReload(t)
  BY <1>2, <1>3, <1>4, <1>9 DEF AddReload
<1> QED
  BY <1>5, <1>6, <1>7, <1>8, <1>9 DEF Step

\* The only step that writes the table is a compare-exchange that succeeds: it
\* puts the caller's address into an empty slot.
LEMMA TableStep ==
  ASSUME IInv, [Next]_vars
  PROVE  \/ table' = table
         \/ \E t \in Thread :
              LET s == Probe(arg[t], i[t]) IN
              /\ pc[t] = "cas" /\ arg[t] \in Pc /\ s \in Slot
              /\ table[s] = NoPc /\ table' = [table EXCEPT ![s] = arg[t]]
<1>1. ASSUME NEW t \in Thread, AddCas(t), table[Probe(arg[t], i[t])] = NoPc
      PROVE  LET s == Probe(arg[t], i[t]) IN
              /\ pc[t] = "cas" /\ arg[t] \in Pc /\ s \in Slot
              /\ table[s] = NoPc /\ table' = [table EXCEPT ![s] = arg[t]]
  <2>1. Probe(arg[t], i[t]) \in Slot
    BY OwnProbeInTable DEF IInv
  <2>2. arg[t] \in Pc
    BY <1>1 DEF AddCas, IInv, Walked
  <2> QED
    BY <1>1, <2>1, <2>2 DEF AddCas
<1>2. ASSUME NEW t \in Thread, AddCas(t), table[Probe(arg[t], i[t])] # NoPc
      PROVE  table' = table
  BY <1>2 DEF AddCas
<1>3. ASSUME NEW t \in Thread, ContainsLoad(t) \/ AddLoad(t) \/ AddReload(t)
      PROVE  table' = table
  BY <1>3 DEF ContainsLoad, AddLoad, AddReload
<1>4. ASSUME NEW t \in Thread, BeginContains(t) \/ BeginAdd(t)
      PROVE  table' = table
  BY <1>4 DEF BeginContains, BeginAdd, Begin
<1>5. CASE UNCHANGED vars
  BY <1>5 DEF vars
<1> QED
  BY <1>1, <1>2, <1>3, <1>4, <1>5 DEF Next, Step

\* A written slot keeps its value.
LEMMA WrittenStays ==
  ASSUME IInv, [Next]_vars, NEW s \in Slot, table[s] # NoPc
  PROVE  table'[s] = table[s]
BY TableStep DEF IInv, TypeOK

\* No thread forgets a write it has observed.
LEMMA SeenStays ==
  ASSUME IInv, [Next]_vars, NEW u \in Thread
  PROVE  seen[u] \subseteq seen'[u]
<1>1. ASSUME NEW t \in Thread, NEW s, NEW v, Observe(t, s, v)
      PROVE  seen[u] \subseteq seen'[u]
  BY <1>1 DEF Observe, IInv, TypeOK
<1>2. ASSUME NEW t \in Thread, Step(t)
      PROVE  seen[u] \subseteq seen'[u]
  <2>1. CASE AddCas(t)
    BY <2>1 DEF AddCas, IInv, TypeOK
  <2> QED
    BY <1>1, <1>2, <2>1 DEF Step, ContainsLoad, AddLoad, AddReload
<1>3. ASSUME NEW t \in Thread, BeginContains(t) \/ BeginAdd(t)
      PROVE  seen[u] \subseteq seen'[u]
  BY <1>3 DEF BeginContains, BeginAdd, Begin
<1> QED
  BY <1>2, <1>3 DEF Next, vars

\* Claiming an empty slot extends the chains and breaks none.
LEMMA StepProbeChain == IInv /\ [Next]_vars => ProbeChain'
<1> SUFFICES ASSUME IInv, [Next]_vars PROVE ProbeChain'
  OBVIOUS
<1>1. CASE table' = table
  BY <1>1, ChainStable DEF IInv
<1>2. ASSUME NEW t \in Thread,
             pc[t] = "cas", arg[t] \in Pc, Probe(arg[t], i[t]) \in Slot,
             table[Probe(arg[t], i[t])] = NoPc,
             table' = [table EXCEPT ![Probe(arg[t], i[t])] = arg[t]]
      PROVE  ProbeChain'
  <2> DEFINE q == Probe(arg[t], i[t])
  <2> SUFFICES ASSUME NEW s \in Slot, table'[s] # NoPc
               PROVE  \E k \in Slot :
                        /\ s = Probe(table'[s], k)
                        /\ \A j \in 0 .. k - 1 :
                             table'[Probe(table'[s], j)] \notin {NoPc, table'[s]}
    BY DEF ProbeChain, Probe, Slot
  <2>0. table \in [Slot -> Pc \union {NoPc}] /\ i[t] \in Slot
    BY DEF IInv, TypeOK
  <2>1. CASE s = q
    <3>1. table'[s] = arg[t]
      BY <1>2, <2>0, <2>1
    <3>2. ASSUME NEW j \in 0 .. i[t] - 1
          PROVE  table'[Probe(arg[t], j)] \notin {NoPc, arg[t]}
      <4>1. Probe(arg[t], j) \in seen[t] /\ table[Probe(arg[t], j)] # arg[t]
        BY <1>2 DEF IInv, Walked
      <4>2. Probe(arg[t], j) \in Slot
        BY <4>1 DEF IInv, TypeOK
      <4>3. table[Probe(arg[t], j)] # NoPc
        BY <4>1 DEF IInv, SeenWritten
      <4> QED
        BY <4>1, <4>2, <4>3, WrittenStays
    <3> QED
      BY <2>0, <2>1, <3>1, <3>2
  <2>2. CASE s # q
    <3>1. table'[s] = table[s] /\ table[s] # NoPc
      BY <1>2, <2>0, <2>2
    <3>2. PICK k \in Slot : /\ s = Probe(table[s], k)
                            /\ \A j \in 0 .. k - 1 :
                                 table[Probe(table[s], j)] \notin {NoPc, table[s]}
      BY <3>1 DEF IInv, ProbeChain
    <3>3. ASSUME NEW j \in 0 .. k - 1
          PROVE  table'[Probe(table[s], j)] \notin {NoPc, table[s]}
      <4>1. table[s] \in Pc \union {NoPc} /\ j \in Nat
        BY <2>0 DEF Slot
      <4>2. Probe(table[s], j) \in Slot
        BY <4>1, ProbeInTable
      <4> QED
        BY <3>2, <4>2, WrittenStays
    <3> QED
      BY <3>1, <3>2, <3>3
  <2> QED
    BY <2>1, <2>2
<1> QED
  BY <1>1, <1>2, TableStep

\* A slot is observed written only when a load or an exchange found it so.
LEMMA StepSeenWritten == IInv /\ [Next]_vars => SeenWritten'
<1> SUFFICES ASSUME IInv, [Next]_vars, NEW u \in Thread, NEW s \in seen'[u]
             PROVE  table'[s] # NoPc
  BY DEF SeenWritten
<1>1. ASSUME s \in seen[u]  PROVE table'[s] # NoPc
  <2>1. s \in Slot /\ table[s] # NoPc
    BY <1>1 DEF IInv, TypeOK, SeenWritten
  <2> QED BY <2>1, WrittenStays
<1>2. ASSUME NEW t \in Thread, NEW v \in Loads(t, Probe(arg[t], i[t])),
             Observe(t, Probe(arg[t], i[t]), v), s \notin seen[u]
      PROVE  table'[s] # NoPc
  <2>1. v # NoPc /\ t = u /\ s = Probe(arg[t], i[t])
    BY <1>2 DEF Observe, IInv, TypeOK
  <2>2. s \in Slot
    BY <2>1, OwnProbeInTable DEF IInv
  <2>3. table[s] # NoPc
    BY <2>1 DEF Loads
  <2> QED BY <2>2, <2>3, WrittenStays
<1>3. ASSUME NEW t \in Thread, Step(t), s \notin seen[u]
      PROVE  table'[s] # NoPc
  <2>1. CASE AddCas(t)
    <3>1. t = u /\ s = Probe(arg[t], i[t])
      BY <1>3, <2>1 DEF AddCas, IInv, TypeOK
    <3>2. s \in Slot
      BY <3>1, OwnProbeInTable DEF IInv
    <3>3. CASE table[s] = NoPc
      <4>1. arg[t] \in Pc
        BY <2>1 DEF AddCas, IInv, Walked
      <4> QED
        BY <2>1, <3>1, <3>2, <3>3, <4>1, PcAssumption DEF AddCas, IInv, TypeOK
    <3>4. CASE table[s] # NoPc
      BY <3>2, <3>4, WrittenStays
    <3> QED BY <3>3, <3>4
  <2>2. CASE ContainsLoad(t) \/ AddLoad(t) \/ AddReload(t)
    BY <1>2, <1>3, <2>2 DEF ContainsLoad, AddLoad, AddReload
  <2> QED BY <1>3, <2>1, <2>2 DEF Step
<1>4. ASSUME UNCHANGED seen  PROVE table'[s] # NoPc
  BY <1>1, <1>4
<1> QED
  BY <1>1, <1>3, <1>4 DEF Next, BeginContains, BeginAdd, Begin, vars

\* The part of Walked about one thread.
WalkedBy(t) ==
  /\ pc[t] # "idle" =>
       \A j \in 0 .. i[t] - 1 : /\ Probe(arg[t], j) \in seen[t]
                                /\ table[Probe(arg[t], j)] # arg[t]
  /\ pc[t] \in {"load", "cas", "reload"} => arg[t] \in Pc
  /\ pc[t] = "reload" => Probe(arg[t], i[t]) \in seen[t]

\* A walked prefix stays walked: its slots are written, so they do not change.
LEMMA PrefixStays ==
  ASSUME IInv, [Next]_vars, NEW u \in Thread, pc[u] # "idle",
         NEW j \in 0 .. i[u] - 1
  PROVE  /\ Probe(arg[u], j) \in seen'[u]
         /\ table'[Probe(arg[u], j)] # arg[u]
<1>1. Probe(arg[u], j) \in seen[u] /\ table[Probe(arg[u], j)] # arg[u]
  BY DEF IInv, Walked
<1>2. Probe(arg[u], j) \in Slot /\ table[Probe(arg[u], j)] # NoPc
  BY <1>1 DEF IInv, TypeOK, SeenWritten
<1> QED
  BY <1>1, <1>2, WrittenStays, SeenStays

\* Going on to the next slot, or out of the loop, keeps the prefix walked.
LEMMA AdvanceWalks ==
  ASSUME IInv, [Next]_vars, NEW t \in Thread, pc[t] # "idle",
         NEW l \in {"contains", "load"}, NEW a, Advance(t, l, a),
         l = "load" => arg[t] \in Pc,
         Probe(arg[t], i[t]) \in seen'[t],
         table'[Probe(arg[t], i[t])] # arg[t]
  PROVE  WalkedBy(t)'
<1>0. i[t] \in Nat /\ arg[t] \in Pc \union {NoPc}
  BY NAssumption DEF IInv, TypeOK, Slot
<1>1. CASE Return(t, a)
  <2>1. pc'[t] = "idle"
    BY <1>1 DEF Return, IInv, TypeOK
  <2> QED BY <2>1 DEF WalkedBy
<1>2. CASE ~ Return(t, a)
  <2>1. i'[t] = i[t] + 1 /\ arg'[t] = arg[t] /\ pc'[t] = l
    BY <1>2 DEF Advance, IInv, TypeOK
  <2>2. ASSUME NEW j \in 0 .. i[t]
        PROVE  Probe(arg[t], j) \in seen'[t] /\ table'[Probe(arg[t], j)] # arg[t]
    <3>1. CASE j = i[t]
      BY <3>1
    <3>2. CASE j # i[t]
      <4>1. j \in 0 .. i[t] - 1
        BY <1>0, <3>2
      <4> QED BY <4>1, PrefixStays
    <3> QED BY <3>1, <3>2
  <2>3. 0 .. i'[t] - 1 = 0 .. i[t]
    BY <1>0, <2>1
  <2> QED
    BY <2>1, <2>2, <2>3 DEF WalkedBy, Probe
<1> QED
  BY <1>1, <1>2

\* What a loop iteration learns about the slot it looks at.
LEMMA ObserveFacts ==
  ASSUME IInv, [Next]_vars, NEW t \in Thread, table' = table,
         NEW v \in Loads(t, Probe(arg[t], i[t])),
         Observe(t, Probe(arg[t], i[t]), v), v # NoPc
  PROVE  /\ Probe(arg[t], i[t]) \in seen'[t]
         /\ table'[Probe(arg[t], i[t])] = v
BY DEF Observe, Loads, IInv, TypeOK

\* A load of a slot this thread has already observed cannot return NoPc.
LEMMA SeenLoad ==
  ASSUME IInv, NEW t \in Thread, NEW s \in seen[t], NEW v \in Loads(t, s)
  PROVE  v = table[s] /\ v # NoPc
BY DEF Loads, IInv, SeenWritten

\* Every step keeps the prefixes walked: a call advances past a slot only when
\* it has observed another address in it.
LEMMA StepWalked == IInv /\ [Next]_vars => Walked'
<1> SUFFICES ASSUME IInv, [Next]_vars, NEW u \in Thread  PROVE WalkedBy(u)'
  BY DEF Walked, WalkedBy
<1>1. ASSUME pc'[u] = pc[u], arg'[u] = arg[u], i'[u] = i[u]
      PROVE  WalkedBy(u)'
  <2>1. ASSUME pc[u] # "idle", NEW j \in 0 .. i[u] - 1
        PROVE  Probe(arg[u], j) \in seen'[u] /\ table'[Probe(arg[u], j)] # arg[u]
    BY <2>1, PrefixStays
  <2>2. pc[u] = "reload" => Probe(arg[u], i[u]) \in seen'[u]
    BY SeenStays DEF IInv, Walked
  <2>3. pc[u] \in {"load", "cas", "reload"} => arg[u] \in Pc
    BY DEF IInv, Walked
  <2> QED
    BY <1>1, <2>1, <2>2, <2>3 DEF WalkedBy, Probe
<1>2. ASSUME NEW a, Return(u, a)  PROVE WalkedBy(u)'
  <2>1. pc'[u] = "idle"
    BY <1>2 DEF Return, IInv, TypeOK
  <2> QED BY <2>1 DEF WalkedBy
<1>3. ASSUME NEW l \in {"contains", "load"}, NEW p, Begin(u, l, p),
             l = "load" => p \in Pc
      PROVE  WalkedBy(u)'
  <2>1. pc'[u] = l /\ arg'[u] = p /\ i'[u] = 0
    BY <1>3 DEF Begin, IInv, TypeOK
  <2>2. 0 .. i'[u] - 1 = {}
    BY <2>1
  <2> QED BY <1>3, <2>1, <2>2 DEF WalkedBy
<1>4. CASE ContainsLoad(u)
  <2>1. pc[u] = "contains" /\ table' = table
    BY <1>4 DEF ContainsLoad
  <2>2. PICK v \in Loads(u, Probe(arg[u], i[u])) :
             /\ Observe(u, Probe(arg[u], i[u]), v)
             /\ \/ v = arg[u] /\ Return(u, "yes")
                \/ v = NoPc /\ v # arg[u] /\ Return(u, "no")
                \/ v \notin {arg[u], NoPc} /\ Advance(u, "contains", "no")
    BY <1>4 DEF ContainsLoad
  <2>3. CASE v \notin {arg[u], NoPc} /\ Advance(u, "contains", "no")
    BY <2>1, <2>2, <2>3, ObserveFacts, AdvanceWalks
  <2> QED
    BY <1>2, <2>2, <2>3
<1>5. CASE AddLoad(u)
  <2>1. pc[u] = "load" /\ table' = table /\ arg[u] \in Pc
    BY <1>5 DEF AddLoad, IInv, Walked
  <2>2. PICK v \in Loads(u, Probe(arg[u], i[u])) :
             /\ Observe(u, Probe(arg[u], i[u]), v)
             /\ \/ v = arg[u] /\ Return(u, "added")
                \/ v = NoPc /\ pc' = [pc EXCEPT ![u] = "cas"]
                            /\ UNCHANGED <<arg, i, ans, known>>
                \/ v \notin {arg[u], NoPc} /\ Advance(u, "load", "dropped")
    BY <1>5 DEF AddLoad
  <2>3. CASE v \notin {arg[u], NoPc} /\ Advance(u, "load", "dropped")
    BY <2>1, <2>2, <2>3, ObserveFacts, AdvanceWalks
  <2>4. CASE pc' = [pc EXCEPT ![u] = "cas"] /\ UNCHANGED <<arg, i, ans, known>>
    <3>1. pc'[u] = "cas" /\ arg'[u] = arg[u] /\ i'[u] = i[u]
      BY <2>4 DEF IInv, TypeOK
    <3>2. \A j \in 0 .. i[u] - 1 : /\ Probe(arg[u], j) \in seen'[u]
                                   /\ table'[Probe(arg[u], j)] # arg[u]
      BY <2>1, PrefixStays
    <3> QED BY <2>1, <3>1, <3>2 DEF WalkedBy, Probe
  <2> QED
    BY <1>2, <2>2, <2>3, <2>4
<1>6. CASE AddCas(u)
  <2>1. pc[u] = "cas" /\ arg[u] \in Pc /\ Probe(arg[u], i[u]) \in seen'[u]
    BY <1>6, OwnProbeInTable DEF AddCas, IInv, Walked, TypeOK
  <2>2. CASE pc' = [pc EXCEPT ![u] = "reload"] /\ UNCHANGED <<arg, i, ans, known>>
    <3>1. pc'[u] = "reload" /\ arg'[u] = arg[u] /\ i'[u] = i[u]
      BY <2>2 DEF IInv, TypeOK
    <3>2. \A j \in 0 .. i[u] - 1 : /\ Probe(arg[u], j) \in seen'[u]
                                   /\ table'[Probe(arg[u], j)] # arg[u]
      BY <2>1, PrefixStays
    <3> QED BY <2>1, <3>1, <3>2 DEF WalkedBy, Probe
  <2> QED
    BY <1>2, <1>6, <2>2 DEF AddCas
<1>7. CASE AddReload(u)
  <2>1. /\ pc[u] = "reload" /\ table' = table /\ arg[u] \in Pc
        /\ Probe(arg[u], i[u]) \in seen[u]
    BY <1>7 DEF AddReload, IInv, Walked
  <2>2. PICK v \in Loads(u, Probe(arg[u], i[u])) :
             /\ Observe(u, Probe(arg[u], i[u]), v)
             /\ \/ v = arg[u] /\ Return(u, "added")
                \/ v # arg[u] /\ Advance(u, "load", "dropped")
    BY <1>7 DEF AddReload
  <2>3. v # NoPc
    BY <2>1, SeenLoad
  <2>4. CASE v # arg[u] /\ Advance(u, "load", "dropped")
    BY <2>1, <2>2, <2>3, <2>4, ObserveFacts, AdvanceWalks
  <2> QED
    BY <1>2, <2>2, <2>4
<1>8. ASSUME NEW t \in Thread, t # u, BeginContains(t) \/ BeginAdd(t) \/ Step(t)
      PROVE  WalkedBy(u)'
  <2>1. pc'[u] = pc[u] /\ arg'[u] = arg[u] /\ i'[u] = i[u]
    BY <1>8, OthersKeep DEF IInv
  <2> QED BY <1>1, <2>1
<1>9. CASE UNCHANGED vars
  BY <1>1, <1>9 DEF vars
<1>10. CASE BeginContains(u) \/ BeginAdd(u)
  BY <1>3, <1>10 DEF BeginContains, BeginAdd
<1> QED
  BY <1>4, <1>5, <1>6, <1>7, <1>8, <1>9, <1>10 DEF Next, Step

-----------------------------------------------------------------------------
\* The part of KnownSeen about one address of one thread.
Reaches(t, p) ==
  \E k \in Slot : /\ table[Probe(p, k)] = p
                  /\ \A j \in 0 .. k : Probe(p, j) \in seen[t]

\* A known address stays known: its whole chain was observed written.
LEMMA ReachesStays ==
  ASSUME IInv, [Next]_vars, NEW u \in Thread, NEW p \in Pc, Reaches(u, p)
  PROVE  Reaches(u, p)'
<1>1. PICK k \in Slot : /\ table[Probe(p, k)] = p
                        /\ \A j \in 0 .. k : Probe(p, j) \in seen[u]
  BY DEF Reaches
<1>2. k \in Nat /\ k \in 0 .. k
  BY NAssumption DEF Slot
<1>3. Probe(p, k) \in Slot
  BY <1>2, ProbeInTable
<1>4. table'[Probe(p, k)] = p
  BY <1>1, <1>3, WrittenStays, PcAssumption
<1>5. \A j \in 0 .. k : Probe(p, j) \in seen'[u]
  BY <1>1, SeenStays
<1> QED
  BY <1>4, <1>5 DEF Reaches, Probe, Slot

\* A call that finds its address in the slot it looks at has walked its chain.
LEMMA FoundReaches ==
  ASSUME IInv, [Next]_vars, NEW t \in Thread, pc[t] # "idle",
         NEW p \in Pc, p = arg[t],
         Probe(arg[t], i[t]) \in seen'[t], table'[Probe(arg[t], i[t])] = arg[t]
  PROVE  Reaches(t, p)'
<1>1. i[t] \in Slot /\ i[t] \in Nat
  BY NAssumption DEF IInv, TypeOK, Slot
<1>2. ASSUME NEW j \in 0 .. i[t]  PROVE Probe(p, j) \in seen'[t]
  <2>1. CASE j = i[t]
    BY <2>1
  <2>2. CASE j # i[t]
    <3>1. j \in 0 .. i[t] - 1
      BY <1>1, <2>2
    <3> QED BY <3>1, PrefixStays
  <2> QED BY <2>1, <2>2
<1>3. table'[Probe(p, i[t])] = p
  OBVIOUS
<1> QED
  BY <1>1, <1>2, <1>3 DEF Reaches, Probe, Slot

\* Every step keeps what threads know: an address becomes known only to a
\* thread that has just found it, or put it, at the end of a walked chain.
LEMMA StepKnownSeen == IInv /\ [Next]_vars => KnownSeen'
<1> SUFFICES ASSUME IInv, [Next]_vars, NEW u \in Thread, NEW p \in known'[u]
             PROVE  Reaches(u, p)'
  BY DEF KnownSeen, Reaches
<1>0. p \in Pc
  BY StepTypeOK DEF TypeOK
<1>1. CASE p \in known[u]
  BY <1>0, <1>1, ReachesStays DEF IInv, KnownSeen, Reaches
<1>2. ASSUME NEW a, Return(u, a), p \notin known[u]
      PROVE  p = arg[u] /\ a \in {"yes", "added"}
  BY <1>2 DEF Return, IInv, TypeOK
<1>3. ASSUME NEW l, NEW a \in {"no", "dropped"}, Advance(u, l, a), p \notin known[u]
      PROVE  FALSE
  BY <1>2, <1>3 DEF Advance
<1>4. ASSUME ContainsLoad(u), p \notin known[u]  PROVE Reaches(u, p)'
  <2>1. pc[u] = "contains" /\ table' = table
    BY <1>4 DEF ContainsLoad
  <2>2. PICK v \in Loads(u, Probe(arg[u], i[u])) :
             Observe(u, Probe(arg[u], i[u]), v) /\ v = arg[u] /\ p = arg[u]
    BY <1>2, <1>3, <1>4 DEF ContainsLoad
  <2> QED
    BY <1>0, <2>1, <2>2, ObserveFacts, FoundReaches, PcAssumption
<1>5. ASSUME AddLoad(u), p \notin known[u]  PROVE Reaches(u, p)'
  <2>1. pc[u] = "load" /\ table' = table
    BY <1>5 DEF AddLoad
  <2>2. PICK v \in Loads(u, Probe(arg[u], i[u])) :
             Observe(u, Probe(arg[u], i[u]), v) /\ v = arg[u] /\ p = arg[u]
    BY <1>2, <1>3, <1>5 DEF AddLoad
  <2> QED
    BY <1>0, <2>1, <2>2, ObserveFacts, FoundReaches, PcAssumption
<1>6. ASSUME AddCas(u), p \notin known[u]  PROVE Reaches(u, p)'
  <2>1. pc[u] = "cas" /\ Probe(arg[u], i[u]) \in seen'[u]
    BY <1>6, OwnProbeInTable DEF AddCas, IInv, TypeOK
  <2>2. p = arg[u] /\ table' = [table EXCEPT ![Probe(arg[u], i[u])] = arg[u]]
    BY <1>2, <1>6 DEF AddCas
  <2>3. table'[Probe(arg[u], i[u])] = arg[u]
    BY <2>2, OwnProbeInTable DEF IInv, TypeOK
  <2> QED
    BY <1>0, <2>1, <2>2, <2>3, FoundReaches
<1>7. ASSUME AddReload(u), p \notin known[u]  PROVE Reaches(u, p)'
  <2>1. pc[u] = "reload" /\ table' = table
    BY <1>7 DEF AddReload
  <2>2. PICK v \in Loads(u, Probe(arg[u], i[u])) :
             Observe(u, Probe(arg[u], i[u]), v) /\ v = arg[u] /\ p = arg[u]
    BY <1>2, <1>3, <1>7 DEF AddReload
  <2> QED
    BY <1>0, <2>1, <2>2, ObserveFacts, FoundReaches, PcAssumption
<1>8. ASSUME NEW t \in Thread, t # u, BeginContains(t) \/ BeginAdd(t) \/ Step(t)
      PROVE  p \in known[u]
  BY <1>8, OthersKeep DEF IInv
<1>9. CASE UNCHANGED known
  BY <1>1, <1>9
<1> QED
  BY <1>1, <1>4, <1>5, <1>6, <1>7, <1>8, <1>9
  DEF Next, Step, BeginContains, BeginAdd, Begin, vars

-----------------------------------------------------------------------------
\* A lookup that ends with "no" asked for an address its thread does not know:
\* at every slot up to the address's own, the thread's loads cannot be stale.
LEMMA NoOnlyIfUnknown ==
  ASSUME IInv, NEW t \in Thread, pc[t] = "contains", arg[t] \in known[t],
         NEW v \in Loads(t, Probe(arg[t], i[t])), v # arg[t]
  PROVE  v # NoPc /\ i[t] + 1 # N
<1>0. arg[t] \in Pc /\ i[t] \in Nat /\ i[t] < N
  BY NAssumption DEF IInv, TypeOK, Slot
<1>1. PICK k \in Slot : /\ table[Probe(arg[t], k)] = arg[t]
                        /\ \A j \in 0 .. k : Probe(arg[t], j) \in seen[t]
  BY DEF IInv, KnownSeen
<1>2. k \in Nat /\ k < N
  BY NAssumption DEF Slot
<1>3. \A j \in 0 .. i[t] - 1 : table[Probe(arg[t], j)] # arg[t]
  BY DEF IInv, Walked
<1>4. i[t] <= k
  BY <1>0, <1>1, <1>2, <1>3
<1>5. Probe(arg[t], i[t]) \in seen[t]
  BY <1>0, <1>1, <1>2, <1>4
<1>6. v = table[Probe(arg[t], i[t])] /\ v # NoPc
  BY <1>5, SeenLoad
<1>7. i[t] # k
  BY <1>1, <1>6
<1> QED
  BY <1>0, <1>2, <1>4, <1>6, <1>7, NAssumption

\* Every step preserves ReadYourWrites.
LEMMA StepReadYourWrites == IInv /\ [Next]_vars => ReadYourWrites'
<1> SUFFICES ASSUME IInv, [Next]_vars, NEW u \in Thread, ans'[u] = "no"
             PROVE  arg'[u] \notin known'[u]
  BY DEF ReadYourWrites
<1>1. CASE ans'[u] = ans[u] /\ arg'[u] = arg[u] /\ known'[u] = known[u]
  BY <1>1 DEF IInv, ReadYourWrites
<1>2. ASSUME NEW a, Return(u, a), a # "no"  PROVE FALSE
  BY <1>2 DEF Return, IInv, TypeOK
<1>3. ASSUME Return(u, "no"), arg[u] \notin known[u]
      PROVE  arg'[u] \notin known'[u]
  BY <1>3 DEF Return, IInv, TypeOK
<1>4. ASSUME NEW l, NEW a, Advance(u, l, a), ~ Return(u, a)
      PROVE  arg'[u] \notin known'[u]
  BY <1>1, <1>4 DEF Advance
<1>5. CASE ContainsLoad(u)
  <2>1. pc[u] = "contains"
    BY <1>5 DEF ContainsLoad
  <2>2. PICK v \in Loads(u, Probe(arg[u], i[u])) :
             \/ v = arg[u] /\ Return(u, "yes")
             \/ v = NoPc /\ v # arg[u] /\ Return(u, "no")
             \/ v \notin {arg[u], NoPc} /\ Advance(u, "contains", "no")
    BY <1>5 DEF ContainsLoad
  <2>3. CASE v = NoPc /\ v # arg[u] /\ Return(u, "no")
    BY <1>3, <2>1, <2>3, NoOnlyIfUnknown
  <2>4. CASE v \notin {arg[u], NoPc} /\ Advance(u, "contains", "no")
    <3>1. CASE i[u] + 1 = N /\ Return(u, "no")
      BY <1>3, <2>1, <2>4, <3>1, NoOnlyIfUnknown
    <3>2. CASE ~ Return(u, "no")
      BY <1>4, <2>4, <3>2
    <3>3. CASE UNCHANGED <<arg, i, ans, known>>
      BY <1>1, <3>3
    <3> QED BY <1>1, <2>4, <3>1, <3>2, <3>3 DEF Advance
  <2> QED
    BY <1>2, <2>2, <2>3, <2>4
<1>6. CASE AddLoad(u) \/ AddCas(u) \/ AddReload(u)
  BY <1>1, <1>2, <1>4, <1>6 DEF AddLoad, AddCas, AddReload
<1>7. CASE BeginContains(u) \/ BeginAdd(u)
  <2>1. ans'[u] = "none"
    BY <1>7 DEF BeginContains, BeginAdd, Begin, IInv, TypeOK
  <2> QED BY <2>1
<1>8. ASSUME NEW t \in Thread, t # u, BeginContains(t) \/ BeginAdd(t) \/ Step(t)
      PROVE  arg'[u] \notin known'[u]
  BY <1>1, <1>8, OthersKeep DEF IInv
<1>9. CASE UNCHANGED vars
  BY <1>1, <1>9 DEF vars
<1> QED
  BY <1>5, <1>6, <1>7, <1>8, <1>9 DEF Next, Step

-----------------------------------------------------------------------------
\* IInv is an invariant of the specification.
THEOREM Invariance == Spec => []IInv
<1>1. IInv /\ [Next]_vars => IInv'
  BY StepTypeOK, StepProbeChain, StepSeenWritten, StepWalked, StepKnownSeen,
     StepReadYourWrites DEF IInv
<1> QED
  BY <1>1, InitIInv, PTL DEF Spec

\* The variables keep their types.
THEOREM TypeCorrect == Spec => []TypeOK
<1>1. IInv => TypeOK
  BY DEF IInv
<1> QED BY <1>1, Invariance, PTL

\* Chains forbid two copies: the later copy's chain would contain the other.
LEMMA ChainNoDuplicate == IInv => NoDuplicate
<1> SUFFICES ASSUME IInv, NEW r \in Slot, NEW s \in Slot,
                    table[r] = table[s], table[r] # NoPc
             PROVE  r = s
  BY DEF NoDuplicate
<1> DEFINE p == table[r]
<1>1. PICK k \in Slot : /\ r = Probe(p, k)
                        /\ \A j \in 0 .. k - 1 : table[Probe(p, j)] \notin {NoPc, p}
  BY DEF IInv, ProbeChain
<1>2. PICK m \in Slot : /\ s = Probe(p, m)
                        /\ \A j \in 0 .. m - 1 : table[Probe(p, j)] \notin {NoPc, p}
  BY DEF IInv, ProbeChain
<1>3. k \in Nat /\ m \in Nat
  BY NAssumption DEF Slot
<1>4. ~ (k < m)
  <2>1. ASSUME k < m  PROVE k \in 0 .. m - 1
    BY <1>3, <2>1
  <2> QED BY <1>1, <1>2, <2>1
<1>5. ~ (m < k)
  <2>1. ASSUME m < k  PROVE m \in 0 .. k - 1
    BY <1>3, <2>1
  <2> QED BY <1>1, <1>2, <2>1
<1>6. k = m
  BY <1>3, <1>4, <1>5
<1> QED
  BY <1>1, <1>2, <1>6

\* However adds race, an address is stored in at most one slot.
THEOREM NeverDuplicated == Spec => []NoDuplicate
BY ChainNoDuplicate, Invariance, PTL

\* Every stored address can be found by walking its probe sequence.
THEOREM AlwaysReachable == Spec => []ProbeChain
<1>1. IInv => ProbeChain
  BY DEF IInv
<1> QED BY <1>1, Invariance, PTL

\* A thread is never told that an address it knows is absent.
THEOREM ReadsItsWrites == Spec => []ReadYourWrites
<1>1. IInv => ReadYourWrites
  BY DEF IInv
<1> QED BY <1>1, Invariance, PTL

\* What a call reported stored or found is in the table.
THEOREM KnownAreStored == Spec => []KnownStored
<1>1. ASSUME IInv, NEW t \in Thread, NEW p \in known[t]  PROVE p \in Stored
  <2>1. PICK k \in Slot : table[Probe(p, k)] = p
    BY <1>1 DEF IInv, KnownSeen
  <2>2. p \in Pc /\ k \in Nat
    BY <1>1, NAssumption DEF IInv, TypeOK, Slot
  <2>3. Probe(p, k) \in Slot
    BY <2>2, ProbeInTable
  <2> QED BY <2>1, <2>2, <2>3, PcAssumption DEF Stored
<1>2. IInv => KnownStored
  BY <1>1 DEF KnownStored
<1> QED BY <1>2, Invariance, PTL
-----------------------------------------------------------------------------
(* The abstract set *)


\* The remainder of a number below twice the divisor.
LEMMA ModBelow ==
  ASSUME NEW x \in Nat, NEW n \in Nat \ {0}
  PROVE  /\ x < n => x % n = x
         /\ n <= x /\ x < 2 * n => x % n = x - n
OBVIOUS

\* N probes visit every slot, wherever the sequence starts.
LEMMA ProbeOnto ==
  ASSUME NEW p \in Pc \union {NoPc}, NEW s \in Slot
  PROVE  \E k \in Slot : Probe(p, k) = s
<1> DEFINE h == Hash[p]
<1>1. h \in Nat /\ h < N /\ s \in Nat /\ s < N /\ N \in Nat /\ N # 0
  BY HashAssumption, NAssumption DEF Slot
<1>2. CASE h <= s
  <2>1. s - h \in Slot /\ h + (s - h) = s
    BY <1>1, <1>2 DEF Slot
  <2>2. s % N = s
    BY <1>1, ModBelow
  <2> QED BY <2>1, <2>2 DEF Probe
<1>3. CASE s < h
  <2>1. s + N - h \in Slot /\ h + (s + N - h) = s + N
    BY <1>1, <1>3 DEF Slot
  <2>2. (s + N) % N = s
    <3> DEFINE x == s + N
    <3>1. x \in Nat /\ N <= x /\ x < 2 * N /\ x - N = s
      BY <1>1
    <3> HIDE DEF x
    <3>2. x % N = s
      BY <1>1, <3>1, ModBelow
    <3> QED BY <3>2 DEF x
  <2> QED BY <2>1, <2>2 DEF Probe
<1> QED
  BY <1>1, <1>2, <1>3

-----------------------------------------------------------------------------
\* A call about to leave its loop without an answer: its last slot is taken by
\* another address too.
OutOfSlots(t) ==
  /\ pc[t] # "idle" /\ i[t] + 1 = N
  /\ table[Probe(arg[t], i[t])] \notin {NoPc, arg[t]}

\* Then the whole table is taken, and by other addresses.
LEMMA AllVisited ==
  ASSUME IInv, NEW t \in Thread, OutOfSlots(t)
  PROVE  Full /\ (arg[t] # NoPc => arg[t] \notin Stored)
<1>1. arg[t] \in Pc \union {NoPc} /\ i[t] \in Nat /\ N \in Nat
  BY NAssumption DEF IInv, TypeOK, Slot
<1>2. ASSUME NEW s \in Slot  PROVE table[s] \notin {NoPc, arg[t]}
  <2>1. PICK k \in Slot : Probe(arg[t], k) = s
    BY <1>1, ProbeOnto
  <2>2. CASE k = i[t]
    BY <2>1, <2>2 DEF OutOfSlots
  <2>3. CASE k # i[t]
    <3>1. k \in 0 .. i[t] - 1
      BY <1>1, <2>3 DEF OutOfSlots, Slot
    <3>2. s \in seen[t] /\ table[s] # arg[t]
      BY <2>1, <3>1 DEF OutOfSlots, IInv, Walked
    <3> QED BY <3>2 DEF IInv, SeenWritten
  <2> QED BY <2>2, <2>3
<1> QED
  BY <1>2 DEF Full, Stored

\* A step with which an add gives up finds the call out of slots.
LEMMA DropsOutOfSlots ==
  ASSUME IInv, NEW t \in Thread, AddLoad(t) \/ AddReload(t), ans'[t] = "dropped",
         ans[t] # "dropped"
  PROVE  /\ OutOfSlots(t) /\ pc[t] \in {"load", "reload"} /\ table' = table
         /\ Return(t, "dropped") /\ arg[t] \in Pc
<1>1. ASSUME NEW a, Return(t, a)  PROVE a = "dropped"
  BY <1>1 DEF Return, IInv, TypeOK
<1>2. ASSUME Advance(t, "load", "dropped")
      PROVE  i[t] + 1 = N /\ Return(t, "dropped")
  BY <1>2 DEF Advance, IInv, TypeOK
<1>3. CASE AddLoad(t)
  <2>1. pc[t] = "load" /\ table' = table
    BY <1>3 DEF AddLoad
  <2>2. PICK v \in Loads(t, Probe(arg[t], i[t])) :
             v \notin {arg[t], NoPc} /\ Advance(t, "load", "dropped")
    BY <1>1, <1>3 DEF AddLoad
  <2>3. v = table[Probe(arg[t], i[t])]
    BY <2>2 DEF Loads
  <2> QED BY <1>2, <2>1, <2>2, <2>3 DEF OutOfSlots, IInv, Walked
<1>4. CASE AddReload(t)
  <2>1. pc[t] = "reload" /\ table' = table /\ Probe(arg[t], i[t]) \in seen[t]
    BY <1>4 DEF AddReload, IInv, Walked
  <2>2. PICK v \in Loads(t, Probe(arg[t], i[t])) :
             v # arg[t] /\ Advance(t, "load", "dropped")
    BY <1>1, <1>4 DEF AddReload
  <2>3. v = table[Probe(arg[t], i[t])] /\ v # NoPc
    BY <2>1, SeenLoad
  <2> QED BY <1>2, <2>1, <2>2, <2>3 DEF OutOfSlots, IInv, Walked
<1> QED
  BY <1>3, <1>4

\* A full table is final.
LEMMA FullStays ==
  ASSUME IInv, [Next]_vars, Full
  PROVE  table' = table
BY TableStep DEF Full

\* Every step keeps the record of the drops true.
LEMMA StepDropped ==
  IInv /\ DroppedOnlyWhenFull /\ [Next]_vars => DroppedOnlyWhenFull'
<1> SUFFICES ASSUME IInv, DroppedOnlyWhenFull, [Next]_vars,
                    NEW u \in Thread, ans'[u] = "dropped"
             PROVE  (Full /\ arg[u] \notin Stored)'
  BY DEF DroppedOnlyWhenFull
<1>1. ASSUME ans[u] = "dropped", arg'[u] = arg[u]
      PROVE  (Full /\ arg[u] \notin Stored)'
  <2>1. Full /\ arg[u] \notin Stored
    BY <1>1 DEF DroppedOnlyWhenFull
  <2>2. table' = table
    BY <2>1, FullStays
  <2> QED BY <1>1, <2>1, <2>2 DEF Full, Stored, Slot
<1>2. ASSUME AddLoad(u) \/ AddReload(u), ans[u] # "dropped"
      PROVE  (Full /\ arg[u] \notin Stored)'
  <2>1. OutOfSlots(u) /\ table' = table /\ Return(u, "dropped") /\ arg[u] \in Pc
    BY <1>2, DropsOutOfSlots
  <2>2. Full /\ arg[u] \notin Stored
    BY <2>1, AllVisited, PcAssumption
  <2> QED BY <2>1, <2>2 DEF Return, Full, Stored, Slot
<1>3. CASE AddLoad(u) \/ AddReload(u)
  <2>1. arg'[u] = arg[u]
    BY <1>3 DEF AddLoad, AddReload, Advance, Return
  <2> QED BY <1>1, <1>2, <1>3, <2>1
<1>4. CASE ContainsLoad(u) \/ AddCas(u)
  <2>1. ans'[u] = "dropped" => ans[u] = "dropped" /\ arg'[u] = arg[u]
    <3>1. ASSUME NEW a \in {"yes", "no", "added"}, Return(u, a)  PROVE FALSE
      BY <3>1 DEF Return, IInv, TypeOK
    <3> QED BY <1>4, <3>1 DEF ContainsLoad, AddCas, Advance
  <2> QED BY <1>1, <2>1
<1>5. CASE BeginContains(u) \/ BeginAdd(u)
  <2>1. ans'[u] = "none"
    BY <1>5 DEF BeginContains, BeginAdd, Begin, IInv, TypeOK
  <2> QED BY <2>1
<1>6. ASSUME NEW t \in Thread, t # u, BeginContains(t) \/ BeginAdd(t) \/ Step(t)
      PROVE  (Full /\ arg[u] \notin Stored)'
  BY <1>1, <1>6, OthersKeep DEF IInv
<1>7. CASE UNCHANGED vars
  BY <1>1, <1>7 DEF vars
<1> QED
  BY <1>3, <1>4, <1>5, <1>6, <1>7 DEF Next, Step

\* An add gives up only when every slot is taken by another address: never for
\* a lost race, and never for a load that was out of date.
THEOREM DropsOnlyWhenFull == Spec => []DroppedOnlyWhenFull
<1>1. Init => DroppedOnlyWhenFull
  BY DEF Init, DroppedOnlyWhenFull
<1> QED
  BY <1>1, StepDropped, Invariance, PTL DEF Spec

-----------------------------------------------------------------------------
\* The slots that are taken.
Taken == {s \in Slot : table[s] # NoPc}

\* There are N slots.
LEMMA SlotCount == IsFiniteSet(Slot) /\ Cardinality(Slot) = N
<1>1. 0 \in Int /\ N - 1 \in Int /\ ~ (0 > N - 1) /\ N - 1 - 0 + 1 = N
  BY NAssumption
<1> QED BY <1>1, FS_Interval DEF Slot

\* A set of N slots is finite, and so is what it stores.
LEMMA StoredCounted ==
  ASSUME TypeOK
  PROVE  /\ Cardinality(Stored) \in Nat /\ Cardinality(Taken) \in Nat
         /\ Cardinality(Stored) <= Cardinality(Taken)
         /\ NoDuplicate => Cardinality(Stored) = Cardinality(Taken)
         /\ Cardinality(Taken) <= N
         /\ Taken # Slot => Cardinality(Taken) < N
<1> DEFINE f == [s \in Taken |-> table[s]]
<1>1. IsFiniteSet(Slot) /\ Cardinality(Slot) = N
  BY SlotCount
<1>2. Taken \in SUBSET Slot
  BY DEF Taken
<1>3. IsFiniteSet(Taken) /\ Cardinality(Taken) <= N
      /\ (Cardinality(Slot) = Cardinality(Taken) => Slot = Taken)
  BY <1>1, <1>2, FS_Subset
<1>4. Cardinality(Taken) \in Nat
  BY <1>3, FS_CardinalityType
<1>5. f \in Surjection(Taken, Stored)
  <2>1. f \in [Taken -> Stored]
    BY DEF Taken, Stored
  <2>2. ASSUME NEW p \in Stored  PROVE \E s \in Taken : f[s] = p
    BY <2>2 DEF Taken, Stored
  <2> QED BY <2>1, <2>2 DEF Surjection
<1>6. NoDuplicate => f \in Injection(Taken, Stored)
  <2>1. f \in [Taken -> Stored]
    BY DEF Taken, Stored
  <2>2. ASSUME NoDuplicate, NEW r \in Taken, NEW s \in Taken, f[r] = f[s]
        PROVE  r = s
    BY <2>2 DEF Taken, NoDuplicate
  <2> QED BY <2>1, <2>2 DEF Injection, IsInjective
<1>7. /\ IsFiniteSet(Stored)
      /\ Cardinality(Stored) <= Cardinality(Taken)
      /\ f \in Injection(Taken, Stored) => Cardinality(Stored) = Cardinality(Taken)
  <2> HIDE DEF f
  <2> QED BY <1>3, <1>5, FS_Surjection
<1>8. Cardinality(Stored) \in Nat
  BY <1>7, FS_CardinalityType
<1> QED
  BY <1>1, <1>3, <1>4, <1>6, <1>7, <1>8, NAssumption

\* PcSet counts as the standard module does.
LEMMA SameCount == \A S : Abs!Cardinality(S) = Cardinality(S)
BY DEF Abs!Cardinality, Cardinality, Abs!IsFiniteSet, IsFiniteSet

\* There is room for one more member while a slot is empty.
LEMMA RoomLeft ==
  ASSUME IInv, NEW s \in Slot, table[s] = NoPc
  PROVE  Cardinality(Stored) < N
<1>1. Taken # Slot
  BY DEF Taken
<1> QED
  BY <1>1, StoredCounted, NAssumption DEF IInv

\* A full table has N members.
LEMMA FullCounted ==
  ASSUME IInv, Full
  PROVE  Cardinality(Stored) = N
<1>1. Taken = Slot
  BY DEF Full, Taken
<1> QED
  BY <1>1, SlotCount, StoredCounted, ChainNoDuplicate DEF IInv

-----------------------------------------------------------------------------
\* The addresses of calls, when nobody looks up NoPc.
ArgPc == arg \in [Thread -> Pc]

\* They stay addresses.
LEMMA StepArgPc ==
  ASSUME NoPc \notin Query, ArgPc, [Next]_vars
  PROVE  ArgPc'
<1>1. Query \subseteq Pc
  BY QueryAssumption
<1>2. ASSUME NEW t \in Thread, BeginContains(t) \/ BeginAdd(t)  PROVE ArgPc'
  BY <1>1, <1>2 DEF BeginContains, BeginAdd, Begin, ArgPc
<1>3. ASSUME NEW t \in Thread, Step(t)  PROVE arg' = arg
  BY <1>3 DEF Step, ContainsLoad, AddLoad, AddCas, AddReload, Advance, Return
<1> QED
  BY <1>2, <1>3 DEF Next, vars, ArgPc

\* An abstract step changes the phase of its own thread only.
LEMMA PhaseStep ==
  ASSUME TypeOK, NEW t \in Thread, NEW l, pc' = [pc EXCEPT ![t] = l]
  PROVE  Phase' = [Phase EXCEPT ![t] = CASE l = "idle" -> "idle"
                                         [] l = "contains" -> "contains"
                                         [] OTHER -> "add"]
BY DEF TypeOK, Phase

\* The end of a call is the end of the abstract operation.
LEMMA ReturnEnds ==
  ASSUME TypeOK, ArgPc, NEW t \in Thread, NEW a, Return(t, a)
  PROVE  Abs!End(t, a)
<1>1. Phase' = [Phase EXCEPT ![t] = "idle"]
  BY PhaseStep DEF Return
<1>2. {arg[t]} \ {NoPc} = {arg[t]}
  BY PcAssumption DEF ArgPc
<1> QED
  BY <1>1, <1>2 DEF Return, Abs!End

\* Initial states map to initial states.
LEMMA InitRefines == Init => Abs!Init
<1> SUFFICES ASSUME Init PROVE Abs!Init
  OBVIOUS
<1>1. Stored = {}
  BY DEF Init, Stored
<1>2. Phase = [t \in Thread |-> "idle"]
  BY DEF Init, Phase
<1> QED
  BY <1>1, <1>2 DEF Init, Abs!Init

\* Going on to another access of the same call is hidden.
LEMMA HiddenStep ==
  ASSUME TypeOK, NEW t \in Thread, table' = table,
         NEW l, pc' = [pc EXCEPT ![t] = l],
         \/ pc[t] = "contains" /\ l = "contains"
         \/ pc[t] \in {"load", "cas", "reload"} /\ l \in {"load", "cas", "reload"},
         UNCHANGED <<arg, ans, known>>
  PROVE  UNCHANGED Abs!vars
<1>1. Phase' = Phase
  BY DEF TypeOK, Phase
<1>2. Stored' = Stored
  BY DEF Stored, Slot
<1> QED
  BY <1>1, <1>2 DEF Abs!vars

\* A lookup says yes of a member only, and no only of an address its thread
\* does not know.
LEMMA LookRefines ==
  ASSUME IInv, ArgPc, NEW t \in Thread, ContainsLoad(t)
  PROVE  Abs!Look(t) \/ UNCHANGED Abs!vars
<1> DEFINE s == Probe(arg[t], i[t])
<1>1. pc[t] = "contains" /\ table' = table
  BY DEF ContainsLoad
<1>2. PICK v \in Loads(t, s) :
           \/ v = arg[t] /\ Return(t, "yes")
           \/ v = NoPc /\ v # arg[t] /\ Return(t, "no")
           \/ v \notin {arg[t], NoPc} /\ Advance(t, "contains", "no")
  BY DEF ContainsLoad
<1>3. Phase[t] = "contains" /\ Stored' = Stored
  BY <1>1 DEF Phase, Stored, Slot
<1>4. arg[t] \in Pc /\ arg[t] # NoPc /\ TypeOK
  BY PcAssumption DEF ArgPc, IInv
<1>5. CASE v = arg[t] /\ Return(t, "yes")
  <2>1. table[s] = arg[t]
    BY <1>4, <1>5 DEF Loads
  <2>2. arg[t] \in Stored
    BY <1>4, <2>1, OwnProbeInTable DEF Stored
  <2> QED BY <1>3, <1>4, <1>5, <2>2, ReturnEnds DEF Abs!Look
<1>6. ASSUME v # arg[t], Return(t, "no"), v = NoPc \/ i[t] + 1 = N
      PROVE  Abs!Look(t)
  <2>1. arg[t] \notin known[t]
    BY <1>1, <1>6, NoOnlyIfUnknown
  <2> QED BY <1>3, <1>4, <1>6, <2>1, ReturnEnds DEF Abs!Look
<1>7. CASE v \notin {arg[t], NoPc} /\ Advance(t, "contains", "no")
  <2>1. CASE i[t] + 1 = N /\ Return(t, "no")
    BY <1>6, <1>7, <2>1
  <2>2. CASE pc' = [pc EXCEPT ![t] = "contains"] /\ UNCHANGED <<arg, ans, known>>
    BY <1>1, <1>4, <2>2, HiddenStep
  <2> QED BY <1>7, <2>1, <2>2 DEF Advance
<1> QED
  BY <1>2, <1>5, <1>6, <1>7

\* An add that finds its address ends, and one that gives up finds no room.
LEMMA AddEnds ==
  ASSUME IInv, ArgPc, NEW t \in Thread, pc[t] \in {"load", "reload"},
         table' = table,
         \/ table[Probe(arg[t], i[t])] = arg[t] /\ Return(t, "added")
         \/ OutOfSlots(t) /\ Return(t, "dropped")
  PROVE  Abs!Insert(t)
<1>1. Phase[t] = "add" /\ Stored' = Stored
  BY DEF Phase, Stored, Slot
<1>2. arg[t] # NoPc /\ TypeOK
  BY PcAssumption DEF ArgPc, IInv
<1>3. CASE table[Probe(arg[t], i[t])] = arg[t] /\ Return(t, "added")
  <2>1. arg[t] \in Stored
    BY <1>2, <1>3, OwnProbeInTable DEF Stored
  <2>2. Stored' = Stored \union {arg[t]}
    BY <1>1, <2>1
  <2> QED BY <1>1, <1>2, <1>3, <2>1, <2>2, ReturnEnds DEF Abs!Insert
<1>4. CASE OutOfSlots(t) /\ Return(t, "dropped")
  <2>1. Full /\ arg[t] \notin Stored
    BY <1>2, <1>4, AllVisited
  <2> QED BY <1>1, <1>2, <1>4, <2>1, FullCounted, SameCount, ReturnEnds
         DEF Abs!Insert
<1> QED
  BY <1>3, <1>4

\* The step with which an add looks at a slot, or at the slot it lost.
LEMMA AddLoadRefines ==
  ASSUME IInv, ArgPc, NEW t \in Thread, AddLoad(t) \/ AddReload(t)
  PROVE  Abs!Insert(t) \/ UNCHANGED Abs!vars
<1> DEFINE s == Probe(arg[t], i[t])
<1>1. pc[t] \in {"load", "reload"} /\ table' = table /\ TypeOK
  BY DEF AddLoad, AddReload, IInv
<1>2. PICK v \in Loads(t, s) :
           \/ v = arg[t] /\ Return(t, "added")
           \/ /\ pc' = [pc EXCEPT ![t] = "cas"]
              /\ UNCHANGED <<arg, i, ans, known>>
           \/ v \notin {arg[t], NoPc} /\ Advance(t, "load", "dropped")
  <2>1. CASE AddLoad(t)
    BY <2>1 DEF AddLoad
  <2>2. CASE AddReload(t)
    <3>1. s \in seen[t]
      BY <2>2 DEF AddReload, IInv, Walked
    <3>2. \A v \in Loads(t, s) : v # NoPc
      BY <3>1, SeenLoad
    <3> QED BY <2>2, <3>2 DEF AddReload
  <2> QED BY <2>1, <2>2
<1>3. v # NoPc => v = table[s]
  BY DEF Loads
<1>4. CASE v = arg[t] /\ Return(t, "added")
  <2>1. arg[t] # NoPc
    BY PcAssumption DEF ArgPc
  <2> QED BY <1>1, <1>3, <1>4, <2>1, AddEnds
<1>5. CASE pc' = [pc EXCEPT ![t] = "cas"] /\ UNCHANGED <<arg, i, ans, known>>
  BY <1>1, <1>5, HiddenStep
<1>6. CASE v \notin {arg[t], NoPc} /\ Advance(t, "load", "dropped")
  <2>1. CASE i[t] + 1 = N /\ Return(t, "dropped")
    <3>1. OutOfSlots(t)
      BY <1>1, <1>3, <1>6, <2>1 DEF OutOfSlots
    <3> QED BY <1>1, <2>1, <3>1, AddEnds
  <2>2. CASE pc' = [pc EXCEPT ![t] = "load"] /\ UNCHANGED <<arg, ans, known>>
    BY <1>1, <2>2, HiddenStep
  <2> QED BY <1>6, <2>1, <2>2 DEF Advance
<1> QED
  BY <1>2, <1>4, <1>5, <1>6

\* The compare-exchange is where an address enters the set.
LEMMA AddCasRefines ==
  ASSUME IInv, ArgPc, NEW t \in Thread, AddCas(t)
  PROVE  Abs!Insert(t) \/ UNCHANGED Abs!vars
<1> DEFINE s == Probe(arg[t], i[t])
<1>1. pc[t] = "cas" /\ TypeOK /\ s \in Slot
  BY OwnProbeInTable DEF AddCas, IInv
<1>2. CASE table[s] = NoPc
  <2>1. table' = [table EXCEPT ![s] = arg[t]] /\ Return(t, "added")
    BY <1>2 DEF AddCas
  <2>2. arg[t] \in Pc /\ arg[t] # NoPc
    BY PcAssumption DEF ArgPc
  <2>3. Stored' = Stored \union {arg[t]}
    <3>1. table'[s] = arg[t] /\ \A r \in Slot \ {s} : table'[r] = table[r]
      BY <1>1, <2>1 DEF TypeOK
    <3>2. Stored' = {table'[r] : r \in Slot} \ {NoPc}
      BY DEF Stored, Slot
    <3>3. ASSUME NEW p \in Stored  PROVE p \in Stored'
      <4>1. PICK r \in Slot : table[r] = p /\ p # NoPc
        BY <3>3 DEF Stored
      <4>2. r # s
        BY <1>2, <4>1
      <4> QED BY <3>1, <3>2, <4>1, <4>2
    <3>4. ASSUME NEW p \in Stored', p # arg[t]  PROVE p \in Stored
      <4>1. PICK r \in Slot : table'[r] = p /\ p # NoPc
        BY <3>2, <3>4
      <4>2. table[r] = p
        BY <3>1, <3>4, <4>1
      <4> QED BY <4>1, <4>2 DEF Stored
    <3>5. arg[t] \in Stored'
      BY <1>1, <2>2, <3>1, <3>2
    <3> QED BY <3>3, <3>4, <3>5
  <2>4. Cardinality(Stored) < N
    BY <1>1, <1>2, RoomLeft
  <2>5. Phase[t] = "add"
    BY <1>1 DEF Phase
  <2> QED BY <1>1, <2>1, <2>3, <2>4, <2>5, SameCount, ReturnEnds
         DEF Abs!Insert
<1>3. CASE table[s] # NoPc
  <2>1. /\ table' = table /\ pc' = [pc EXCEPT ![t] = "reload"]
        /\ UNCHANGED <<arg, ans, known>>
    BY <1>3 DEF AddCas
  <2> QED BY <1>1, <2>1, HiddenStep
<1> QED
  BY <1>2, <1>3

\* A call begins as the abstract operation it implements.
LEMMA BeginRefines ==
  ASSUME TypeOK, NEW t \in Thread, BeginContains(t) \/ BeginAdd(t)
  PROVE  \/ \E p \in Query : Abs!Begin(t, "contains", p)
         \/ \E p \in Pc : Abs!Begin(t, "add", p)
<1>1. ASSUME NEW l \in {"contains", "load"}, NEW p, Begin(t, l, p)
      PROVE  Abs!Begin(t, IF l = "contains" THEN "contains" ELSE "add", p)
  <2>1. Phase[t] = "idle"
    BY <1>1 DEF Begin, Phase
  <2>2. Phase' = [Phase EXCEPT ![t] = IF l = "contains" THEN "contains" ELSE "add"]
    BY <1>1, PhaseStep DEF Begin
  <2>3. Stored' = Stored
    BY <1>1 DEF Begin, Stored, Slot
  <2> QED BY <1>1, <2>1, <2>2, <2>3 DEF Begin, Abs!Begin
<1>2. CASE BeginContains(t)
  <2>1. PICK p \in Query : Begin(t, "contains", p)
    BY <1>2 DEF BeginContains
  <2>2. Abs!Begin(t, "contains", p)
    BY <1>1, <2>1
  <2> QED BY <2>2
<1>3. CASE BeginAdd(t)
  <2>1. PICK p \in Pc : Begin(t, "load", p)
    BY <1>3 DEF BeginAdd
  <2>2. Abs!Begin(t, "add", p)
    BY <1>1, <2>1
  <2> QED BY <2>2
<1> QED
  BY <1>2, <1>3

\* Every step of the probing code is a step of the abstract set or hidden.
LEMMA StepRefines ==
  ASSUME IInv, ArgPc, [Next]_vars
  PROVE  [Abs!Next]_Abs!vars
<1>1. ASSUME NEW t \in Thread, BeginContains(t) \/ BeginAdd(t)
      PROVE  Abs!Next
  BY <1>1, BeginRefines DEF Abs!Next, IInv
<1>2. ASSUME NEW t \in Thread, Step(t)
      PROVE  Abs!Next \/ UNCHANGED Abs!vars
  BY <1>2, LookRefines, AddLoadRefines, AddCasRefines DEF Step, Abs!Next
<1>3. CASE UNCHANGED vars
  BY <1>3 DEF vars, Abs!vars, Stored, Slot, Phase
<1> QED
  BY <1>1, <1>2, <1>3 DEF Next

\* The lock-free table is the grow-only set of PcSet: whatever the threads
\* race, each of their calls ends as some call of the abstract set would.
THEOREM ImplementsPcSet ==
  ASSUME NoPc \notin Query
  PROVE  Spec => RefinesPcSet
<1>1. Init => Abs!Init /\ ArgPc
  <2>1. Query \union Pc = Pc
    BY QueryAssumption
  <2> QED BY <2>1, InitRefines DEF Init, ArgPc
<1>2. ArgPc /\ [Next]_vars => ArgPc'
  BY StepArgPc
<1>3. IInv /\ ArgPc /\ [Next]_vars => [Abs!Next]_Abs!vars
  BY StepRefines
<1> QED
  BY <1>1, <1>2, <1>3, Invariance, PTL DEF Spec, RefinesPcSet, Abs!Spec
=============================================================================
