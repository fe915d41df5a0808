----------------------------- MODULE TextPcSet -----------------------------
(***************************************************************************)
(* g_textpc_set (src/main/diagnostics.cpp): the lock-free open-addressing  *)
(* set of text-draw PCs.  textdraw_probe and load_translations_locked add  *)
(* to it, xlate_general asks it on every traced function entry.  A slot is *)
(* an atomic word, NoPc (0) when empty; an add claims the first empty slot *)
(* of its probe sequence with a compare-exchange, nothing is ever removed, *)
(* and a full table drops the address.                                     *)
(*                                                                         *)
(* Every access is memory_order_relaxed.  A slot is written at most once,  *)
(* so what C++ guarantees of a load is: it returns the slot's value, or    *)
(* still NoPc if the loading thread has not observed the write yet         *)
(* (coherence: once observed, always observed; a compare-exchange always   *)
(* observes the latest value).  seen[t] is the set of slots whose write t  *)
(* has observed, and Loads(t, i) the values a load of slot i may return.   *)
(***************************************************************************)
EXTENDS Naturals, FiniteSets

CONSTANTS
  Thread,   \* guest threads
  Pc,       \* guest function addresses, all different from 0
  NoPc,     \* the word 0: an empty slot
  Query,    \* addresses textpc_contains is called with
  N,        \* kTextPcSetN
  Hash      \* Hash[p] is (p * 2654435761) & (N - 1)

ASSUME NAssumption == N \in Nat \ {0}
ASSUME PcAssumption == NoPc \notin Pc
ASSUME QueryAssumption == Query \subseteq Pc \union {NoPc}
ASSUME HashAssumption == Hash \in [Pc \union {NoPc} -> 0 .. N - 1]

VARIABLES
  table,    \* table[i]: slot i of g_textpc_set
  seen,     \* seen[t]: slots thread t has observed written
  pc,       \* pc[t]: the atomic access thread t executes next
  arg,      \* arg[t]: the pc argument of t's current or latest call
  i,        \* i[t]: the loop counter of that call
  ans,      \* ans[t]: how t's latest call ended
  known     \* known[t]: addresses t's own calls have found in the set

vars == <<table, seen, pc, arg, i, ans, known>>

Slot == 0 .. N - 1

\* Slot number k of the probe sequence of address p.
Probe(p, k) == (Hash[p] + k) % N

Stored == {table[s] : s \in Slot} \ {NoPc}

Full == \A s \in Slot : table[s] # NoPc

Loads(t, s) == {table[s]} \union (IF s \in seen[t] THEN {} ELSE {NoPc})

Init ==
  /\ table = [s \in Slot |-> NoPc]
  /\ seen = [t \in Thread |-> {}]
  /\ pc = [t \in Thread |-> "idle"]
  /\ arg \in [Thread -> Query \union Pc]
  /\ i = [t \in Thread |-> 0]
  /\ ans = [t \in Thread |-> "none"]
  /\ known = [t \in Thread |-> {}]

-----------------------------------------------------------------------------
\* Mutant: the loop starts one slot after the home slot.
BeginPastHome(t, l, p) ==
  /\ pc[t] = "idle"
  /\ pc' = [pc EXCEPT ![t] = l]
  /\ arg' = [arg EXCEPT ![t] = p]
  /\ i' = [i EXCEPT ![t] = IF l = "load" THEN N - 1 ELSE 0]
  /\ ans' = [ans EXCEPT ![t] = "none"]
  /\ UNCHANGED <<table, seen, known>>

\* A call begins: the loop starts at the home slot.
Begin(t, l, p) ==
  /\ pc[t] = "idle"
  /\ pc' = [pc EXCEPT ![t] = l]
  /\ arg' = [arg EXCEPT ![t] = p]
  /\ i' = [i EXCEPT ![t] = 0]
  /\ ans' = [ans EXCEPT ![t] = "none"]
  /\ UNCHANGED <<table, seen, known>>

Return(t, a) ==
  /\ pc' = [pc EXCEPT ![t] = "idle"]
  /\ ans' = [ans EXCEPT ![t] = a]
  /\ known' = IF a \in {"yes", "added"}
                THEN [known EXCEPT ![t] = @ \union ({arg[t]} \ {NoPc})]
                ELSE known
  /\ UNCHANGED <<arg, i>>

\* Mutant: the loop bound is one too small.
AdvanceTooShort(t, l, a) ==
  \/ /\ i[t] + 2 < N
     /\ i' = [i EXCEPT ![t] = @ + 1]
     /\ pc' = [pc EXCEPT ![t] = l]
     /\ UNCHANGED <<arg, ans, known>>
  \/ i[t] + 2 >= N /\ Return(t, a)

\* ++i, and back to the loop's load, or out of the loop after N slots.
Advance(t, l, a) ==
  \/ /\ i[t] + 1 < N
     /\ i' = [i EXCEPT ![t] = @ + 1]
     /\ pc' = [pc EXCEPT ![t] = l]
     /\ UNCHANGED <<arg, ans, known>>
  \/ i[t] + 1 = N /\ Return(t, a)

Observe(t, s, v) ==
  seen' = IF v = NoPc THEN seen ELSE [seen EXCEPT ![t] = @ \union {s}]

-----------------------------------------------------------------------------
BeginContains(t) == \E p \in Query : Begin(t, "contains", p)

\* Mutant: the lookup gives up at a slot taken by another address.
ContainsHomeOnly(t) ==
  /\ pc[t] = "contains"
  /\ \E v \in Loads(t, Probe(arg[t], i[t])) :
       /\ Observe(t, Probe(arg[t], i[t]), v)
       /\ Return(t, IF v = arg[t] THEN "yes" ELSE "no")
  /\ UNCHANGED table

\* One iteration of textpc_contains.  The comparison with the argument comes
\* first, so a lookup of NoPc itself says yes at an empty slot.
ContainsLoad(t) ==
  LET s == Probe(arg[t], i[t]) IN
  /\ pc[t] = "contains"
  /\ \E v \in Loads(t, s) :
       /\ Observe(t, s, v)
       /\ \/ v = arg[t] /\ Return(t, "yes")
          \/ v = NoPc /\ v # arg[t] /\ Return(t, "no")
          \/ v \notin {arg[t], NoPc} /\ Advance(t, "contains", "no")
  /\ UNCHANGED table

\* textpc_add returns at once for address 0, so only a Pc gets in.
BeginAdd(t) == \E p \in Pc : Begin(t, "load", p)

\* The load at the head of the loop of textpc_add.
AddLoad(t) ==
  LET s == Probe(arg[t], i[t]) IN
  /\ pc[t] = "load"
  /\ \E v \in Loads(t, s) :
       /\ Observe(t, s, v)
       /\ \/ v = arg[t] /\ Return(t, "added")
          \/ v = NoPc /\ pc' = [pc EXCEPT ![t] = "cas"]
                      /\ UNCHANGED <<arg, i, ans, known>>
          \/ v \notin {arg[t], NoPc} /\ Advance(t, "load", "dropped")
  /\ UNCHANGED table

\* Mutant: a plain store where the code compares and exchanges.
AddStore(t) ==
  LET s == Probe(arg[t], i[t]) IN
  /\ pc[t] = "cas"
  /\ table' = [table EXCEPT ![s] = arg[t]]
  /\ Return(t, "added")
  /\ seen' = [seen EXCEPT ![t] = @ \union {s}]

\* compare_exchange_strong(0, pc): claims the slot, or observes who did.
AddCas(t) ==
  LET s == Probe(arg[t], i[t]) IN
  /\ pc[t] = "cas"
  /\ \/ /\ table[s] = NoPc
        /\ table' = [table EXCEPT ![s] = arg[t]]
        /\ Return(t, "added")
     \/ /\ table[s] # NoPc
        /\ pc' = [pc EXCEPT ![t] = "reload"]
        /\ UNCHANGED <<table, arg, i, ans, known>>
  /\ seen' = [seen EXCEPT ![t] = @ \union {s}]

\* Mutants: the slot lost is not compared again; or it is tried again.
AddReloadBlind(t) ==
  pc[t] = "reload" /\ Advance(t, "load", "dropped") /\ UNCHANGED <<table, seen>>

AddReloadRetry(t) ==
  LET s == Probe(arg[t], i[t]) IN
  /\ pc[t] = "reload"
  /\ \/ table[s] = arg[t] /\ Return(t, "added")
     \/ /\ table[s] # arg[t]
        /\ pc' = [pc EXCEPT ![t] = "cas"]
        /\ UNCHANGED <<arg, i, ans, known>>
  /\ UNCHANGED <<table, seen>>

\* After a lost race: the winner may have stored this very address.
AddReload(t) ==
  LET s == Probe(arg[t], i[t]) IN
  /\ pc[t] = "reload"
  /\ \E v \in Loads(t, s) :
       /\ Observe(t, s, v)
       /\ \/ v = arg[t] /\ Return(t, "added")
          \/ v # arg[t] /\ Advance(t, "load", "dropped")
  /\ UNCHANGED table

Step(t) == ContainsLoad(t) \/ AddLoad(t) \/ AddCas(t) \/ AddReload(t)

Next == \E t \in Thread : BeginContains(t) \/ BeginAdd(t) \/ Step(t)

\* A thread inside a call runs on: no access waits for another thread.
Fairness == \A t \in Thread : WF_vars(Step(t))

Spec == Init /\ [][Next]_vars

FairSpec == Spec /\ Fairness
-----------------------------------------------------------------------------
(* Properties *)

\* Types of the variables of the set and of the calls in progress.
TypeOK ==
  /\ table \in [Slot -> Pc \union {NoPc}]
  /\ seen \in [Thread -> SUBSET Slot]
  /\ pc \in [Thread -> {"idle", "contains", "load", "cas", "reload"}]
  /\ arg \in [Thread -> Pc \union {NoPc}]
  /\ i \in [Thread -> Slot]
  /\ ans \in [Thread -> {"none", "yes", "no", "added", "dropped"}]
  /\ known \in [Thread -> SUBSET Pc]

\* However adds of the same address race for slots, it occupies one slot only:
\* textpc_add re-reads the slot it lost before it goes on to claim another.
NoDuplicate ==
  \A r, s \in Slot : table[r] = table[s] /\ table[r] # NoPc => r = s

\* Every stored address is reachable by its probe sequence: no empty slot and
\* no other copy lies between its home slot and where it is, which is what
\* lets textpc_contains stop at the first empty slot.
ProbeChain ==
  \A s \in Slot : table[s] # NoPc =>
    \E k \in Slot : /\ s = Probe(table[s], k)
                    /\ \A j \in 0 .. k - 1 :
                         table[Probe(table[s], j)] \notin {NoPc, table[s]}

\* With relaxed loads another thread's add may be missed for a while, but a
\* thread that added an address, or was once told it is in the set, is never
\* told that it is not: the routine it registered stays translated.
ReadYourWrites == \A t \in Thread : ans[t] = "no" => arg[t] \notin known[t]

\* An address an add reported stored, or a lookup found, is in the table.
KnownStored == \A t \in Thread : known[t] \subseteq Stored

\* textpc_add gives up silently; it does so only when all N slots are taken by
\* other addresses, never because of a lost race or a stale load.
DroppedOnlyWhenFull ==
  \A t \in Thread : ans[t] = "dropped" => Full /\ arg[t] \notin Stored

\* No call waits for another thread: every call ends, however often it loses.
CallsEnd == \A t \in Thread : (pc[t] # "idle") ~> (pc[t] = "idle")

\* The gate as the comment of xlate_general states it (diagnostics.cpp:1533):
\* it lets through only PCs that were flagged.  NoPc is not one of them.
GateOnlyFlagged ==
  \A t \in Thread : ans[t] = "yes" => arg[t] \in Stored

-----------------------------------------------------------------------------
(* The inductive invariant behind the theorems of TextPcSetProofs *)

\* What a thread has observed written is written.
SeenWritten == \A t \in Thread : \A s \in seen[t] : table[s] # NoPc

\* A call in progress has observed every slot of its probe sequence before i
\* taken by an address other than its own; before a reload, slot i as well.
Walked ==
  \A t \in Thread :
    /\ pc[t] # "idle" =>
         \A j \in 0 .. i[t] - 1 : /\ Probe(arg[t], j) \in seen[t]
                                  /\ table[Probe(arg[t], j)] # arg[t]
    /\ pc[t] \in {"load", "cas", "reload"} => arg[t] \in Pc
    /\ pc[t] = "reload" => Probe(arg[t], i[t]) \in seen[t]

\* A thread has observed the whole probe sequence of an address it knows.
KnownSeen ==
  \A t \in Thread : \A p \in known[t] :
    \E k \in Slot : /\ table[Probe(p, k)] = p
                    /\ \A j \in 0 .. k : Probe(p, j) \in seen[t]

\* NoDuplicate, KnownStored and DroppedOnlyWhenFull follow from these parts.
IInv == TypeOK /\ ProbeChain /\ SeenWritten /\ Walked /\ KnownSeen /\ ReadYourWrites

-----------------------------------------------------------------------------
\* The abstract operation a thread is executing, whatever access comes next.
Phase == [t \in Thread |-> CASE pc[t] = "idle" -> "idle"
                             [] pc[t] = "contains" -> "contains"
                             [] OTHER -> "add"]

\* The slots implement the grow-only set of PcSet.
Abs == INSTANCE PcSet WITH members <- Stored, call <- Phase, Cap <- N

\* Every step of the probing code is a step of the abstract set or hidden.
RefinesPcSet == Abs!Spec
=============================================================================
