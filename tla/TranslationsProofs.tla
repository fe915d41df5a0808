------------------------- MODULE TranslationsProofs -------------------------
(***************************************************************************)
(* TableInv and NeverOlder for any threads, keys, period and disk, and any *)
(* number of saves and deletions.  A thread may be given an entry only     *)
(* while nobody loads (Locked); a load starts from an empty table          *)
(* (Cleared), and what it reads carries the number of the current save,    *)
(* which no earlier answer exceeds (Dated, AnswersOlder).  None of this    *)
(* needs the modification times to be right.                               *)
(***************************************************************************)
EXTENDS Translations, TLAPS

\* An entry is a key and the number of a save.
LEMMA EntryParts ==
  ASSUME NEW e \in Entry
  PROVE  e[1] \in Key /\ e[2] \in Nat /\ e[2] \in 1 .. MaxSaves /\ e = <<e[1], e[2]>>
BY BoundAssumption DEF Entry

\* The initial state satisfies the inductive invariant.
LEMMA InitIInv == Init => IInv
<1> SUFFICES ASSUME Init PROVE IInv
  OBVIOUS
<1>1. text \subseteq Entry /\ \A e \in text : e[2] = 1
  BY BoundAssumption DEF Init, Entry
<1>2. TypeOK
  <2>1. 1 \in 1 .. MaxSaves /\ 0 \in 0 .. MaxDeletes /\ 0 \in 0 .. Period - 1
    BY BoundAssumption, PeriodAssumption
  <2> QED BY <1>1, <2>1 DEF Init, TypeOK
<1>3. ArmedCovers /\ Locked /\ Cleared /\ LoadDated /\ AnswersOlder
  BY FreeAssumption DEF Init, ArmedCovers, Locked, Cleared, LoadDated, AnswersOlder
<1>4. Dated
  BY <1>1 DEF Init, Dated
<1> QED
  BY <1>2, <1>3, <1>4 DEF IInv

-----------------------------------------------------------------------------
\* Type correctness is preserved by every step.
LEMMA StepTypeOK == IInv /\ [Next]_vars => TypeOK'
<1> SUFFICES ASSUME IInv, [Next]_vars PROVE TypeOK'
  OBVIOUS
<1> USE BoundAssumption, PeriodAssumption, FreeAssumption DEF TypeOK, IInv
<1>1. CASE SaveBegin
  <2>1. mtime' \in Nat
    BY <1>1 DEF SaveBegin, Touch
  <2>2. saves' \in 1 .. MaxSaves
    BY <1>1 DEF SaveBegin
  <2> QED BY <1>1, <2>1, <2>2 DEF SaveBegin
<1>2. CASE SaveEntry
  <2>1. mtime' \in Nat
    BY <1>2 DEF SaveEntry, Touch
  <2>2. text' \subseteq Entry
    <3>1. PICK k \in Key : text' = text \union {<<k, saves>>}
      BY <1>2 DEF SaveEntry
    <3>2. <<k, saves>> \in Entry
      BY DEF Entry
    <3> QED BY <3>1, <3>2
  <2>3. UNCHANGED <<disk, present, saves, deletes, table, armed, rec, ever, seeded, calls,
                    mutex, pc, data, unread, ans>>
    BY <1>2 DEF SaveEntry
  <2> QED BY <2>1, <2>2, <2>3
<1>3. CASE Delete
  <2>1. present' = FALSE /\ text' = {} /\ deletes' \in 0 .. MaxDeletes
    BY <1>3 DEF Delete
  <2>2. UNCHANGED <<disk, mtime, saves, table, armed, rec, ever, seeded, calls, mutex, pc,
                    data, unread, ans>>
    BY <1>3 DEF Delete
  <2> QED BY <2>1, <2>2
<1>4. ASSUME NEW t \in Thread, Call(t) PROVE TypeOK'
  <2>1. calls' \in 0 .. Period - 1
    BY <1>4 DEF Call
  <2> QED BY <1>4, <2>1 DEF Call, Goto, fileVars
<1>5. ASSUME NEW t \in Thread, Stat(t) PROVE TypeOK'
  BY <1>5 DEF Stat, Goto, fileVars
<1>6. ASSUME NEW t \in Thread, Open(t) PROVE TypeOK'
  BY <1>6 DEF Open, Goto, fileVars
<1>7. ASSUME NEW t \in Thread, Read(t) PROVE TypeOK'
  BY <1>7 DEF Read, fileVars
<1>8. ASSUME NEW t \in Thread, Commit(t) PROVE TypeOK'
  BY <1>8 DEF Commit, Goto, fileVars
<1>9. ASSUME NEW t \in Thread, Gate(t) PROVE TypeOK'
  BY <1>9 DEF Gate, Goto, fileVars
<1>10. ASSUME NEW t \in Thread, Lookup(t) PROVE TypeOK'
  BY <1>10 DEF Lookup, Goto, fileVars
<1>11. CASE UNCHANGED vars
  BY <1>11 DEF vars
<1> QED
  BY <1>1, <1>2, <1>3, <1>4, <1>5, <1>6, <1>7, <1>8, <1>9, <1>10, <1>11 DEF Next, Step

-----------------------------------------------------------------------------
\* The mutex is held from the reset of the table to its refill, and the flag
\* is up when the mutex is free and the table is not empty.
LEMMA StepLocked == IInv /\ [Next]_vars => Locked' /\ Cleared' /\ ArmedCovers'
<1> SUFFICES ASSUME IInv, [Next]_vars PROVE Locked' /\ Cleared' /\ ArmedCovers'
  OBVIOUS
<1>0. /\ \A t \in Thread : pc[t] \in {"open", "read"} <=> mutex = t
      /\ pc \in [Thread -> {"idle", "stat", "open", "read", "gate", "lookup"}]
      /\ mutex \in Thread \union {"free"}
      /\ "free" \notin Thread
  BY FreeAssumption DEF IInv, TypeOK, Locked
<1>a. ArmedCovers /\ Cleared
  BY DEF IInv
<1> USE DEF Locked, Cleared, ArmedCovers
\* The file and the lock-free steps do not touch the table.
<1>1. CASE SaveBegin \/ SaveEntry \/ Delete
  BY <1>0, <1>a, <1>1 DEF SaveBegin, SaveEntry, Delete
<1>2. ASSUME NEW t \in Thread, Call(t) \/ Gate(t) \/ Lookup(t)
      PROVE  Locked' /\ Cleared' /\ ArmedCovers'
  BY <1>0, <1>a, <1>2 DEF Call, Gate, Lookup, Goto
<1>3. ASSUME NEW t \in Thread, Stat(t) PROVE Locked' /\ Cleared' /\ ArmedCovers'
  <2>1. CASE table' = {} /\ mutex' = t /\ Goto(t, "open")
    BY <1>0, <1>a, <1>3, <2>1 DEF Stat, Goto
  <2>2. CASE Goto(t, "gate") /\ UNCHANGED <<table, mutex>>
    BY <1>0, <1>a, <1>3, <2>2 DEF Stat, Goto
  <2> QED BY <1>3, <2>1, <2>2 DEF Stat
<1>4. ASSUME NEW t \in Thread, Open(t) PROVE Locked' /\ Cleared' /\ ArmedCovers'
  <2>1. mutex = t /\ table = {} /\ table' = {}
    BY <1>0, <1>a, <1>4 DEF Open
  <2>2. CASE Goto(t, "read") /\ UNCHANGED mutex
    BY <1>0, <1>4, <2>1, <2>2 DEF Goto
  <2>3. CASE Goto(t, "gate") /\ mutex' = "free"
    BY <1>0, <1>4, <2>1, <2>3 DEF Goto
  <2> QED BY <1>4, <2>2, <2>3 DEF Open
<1>5. ASSUME NEW t \in Thread, Read(t) PROVE Locked' /\ Cleared' /\ ArmedCovers'
  BY <1>0, <1>a, <1>5 DEF Read
<1>6. ASSUME NEW t \in Thread, Commit(t) PROVE Locked' /\ Cleared' /\ ArmedCovers'
  <2>1. mutex = t
    BY <1>0, <1>6 DEF Commit
  <2>2. Locked'
    BY <1>0, <1>6, <2>1 DEF Commit, Goto
  <2> QED BY <1>6, <2>2 DEF Commit
<1>7. CASE UNCHANGED vars
  BY <1>0, <1>a, <1>7 DEF vars
<1> QED
  BY <1>1, <1>2, <1>3, <1>4, <1>5, <1>6, <1>7 DEF Next, Step

-----------------------------------------------------------------------------
\* What is stored is dated by the current save or an earlier one.
LEMMA StepDated == IInv /\ [Next]_vars => Dated' /\ LoadDated'
<1> SUFFICES ASSUME IInv, [Next]_vars PROVE Dated' /\ LoadDated'
  OBVIOUS
<1>0. /\ Dated /\ LoadDated
      /\ saves \in Nat /\ text \subseteq Entry /\ table \subseteq Entry
      /\ data \in [Thread -> SUBSET Entry] /\ unread \in [Thread -> SUBSET Key]
      /\ ans \in [Thread -> SUBSET Entry]
      /\ pc \in [Thread -> {"idle", "stat", "open", "read", "gate", "lookup"}]
  BY BoundAssumption DEF IInv, TypeOK
<1> USE DEF Dated, LoadDated
<1>1. CASE SaveBegin
  <2>1. /\ saves' = saves + 1 /\ text' = {}
        /\ UNCHANGED <<table, pc, data, unread, ans>>
    BY <1>1 DEF SaveBegin
  <2>2. \A e \in Entry : e[2] <= saves => e[2] <= saves'
    BY <1>0, <2>1, EntryParts
  <2> QED BY <1>0, <2>1, <2>2
<1>2. CASE SaveEntry
  <2>1. /\ UNCHANGED <<saves, table, pc, data, unread, ans>>
        /\ \E k \in Key : text' = text \union {<<k, saves>>}
    BY <1>2 DEF SaveEntry
  <2> QED BY <1>0, <2>1
<1>3. CASE Delete
  BY <1>0, <1>3 DEF Delete
<1>4. ASSUME NEW t \in Thread, Call(t) \/ Stat(t) \/ Gate(t)
      PROVE  Dated' /\ LoadDated'
  BY <1>0, <1>4 DEF Call, Stat, Gate, Goto, fileVars
<1>5. ASSUME NEW t \in Thread, Open(t) PROVE Dated' /\ LoadDated'
  BY <1>0, <1>5 DEF Open, Goto, fileVars
<1>6. ASSUME NEW t \in Thread, Read(t) PROVE Dated' /\ LoadDated'
  <2>1. PICK k \in unread[t] :
           /\ unread' = [unread EXCEPT ![t] = @ \ {k}]
           /\ data' = [data EXCEPT ![t] = @ \union {e \in text : e[1] = k}]
    BY <1>6 DEF Read
  <2>2. pc[t] = "read" /\ UNCHANGED <<text, saves, table, pc, ans>>
    BY <1>6 DEF Read, fileVars
  <2>3. Dated'
    BY <1>0, <2>2
  <2>4. /\ unread'[t] = unread[t] \ {k}
        /\ data'[t] = data[t] \union {e \in text : e[1] = k}
    BY <1>0, <2>1
  <2>5. \A e \in data'[t] : e[1] \notin unread'[t] /\ e[2] <= saves
    <3>1. \A e \in text : e[2] <= saves
      BY <1>0
    <3> QED BY <1>0, <2>2, <2>4, <3>1
  <2>6. ASSUME NEW d \in data'[t], NEW e \in data'[t], d[1] = e[1]
        PROVE  d = e
    <3>1. d \in Entry /\ e \in Entry
      BY <1>0, <2>4
    <3>2. CASE d \in data[t] /\ e \in data[t]
      BY <1>0, <2>2, <2>6, <3>2
    <3>3. CASE d \in text /\ e \in text
      <4>1. d[2] = e[2]
        BY <1>0, <3>3
      <4> QED BY <2>6, <3>1, <4>1, EntryParts
    <3>4. CASE (d \in data[t] /\ e[1] = k) \/ (e \in data[t] /\ d[1] = k)
      BY <1>0, <2>1, <2>2, <2>6, <3>4
    <3> QED BY <2>4, <3>2, <3>3, <3>4
  <2>7. ASSUME NEW u \in Thread, u # t
        PROVE  data'[u] = data[u] /\ unread'[u] = unread[u]
    BY <1>0, <2>1, <2>7
  <2>8. LoadDated'
    BY <1>0, <2>2, <2>5, <2>6, <2>7
  <2> QED BY <2>3, <2>8
<1>7. ASSUME NEW t \in Thread, Commit(t) PROVE Dated' /\ LoadDated'
  <2>1. pc[t] = "read" /\ table' = data[t]
    BY <1>7 DEF Commit
  <2> QED BY <1>0, <1>7, <2>1 DEF Commit, Goto, fileVars
<1>8. ASSUME NEW t \in Thread, Lookup(t) PROVE Dated' /\ LoadDated'
  <2>1. PICK k \in Key : ans' = [ans EXCEPT ![t] = {e \in table : e[1] = k}]
    BY <1>8 DEF Lookup
  <2> QED BY <1>0, <1>8, <2>1 DEF Lookup, Goto, fileVars
<1>9. CASE UNCHANGED vars
  BY <1>0, <1>9 DEF vars
<1> QED
  BY <1>1, <1>2, <1>3, <1>4, <1>5, <1>6, <1>7, <1>8, <1>9 DEF Next, Step

-----------------------------------------------------------------------------
\* No answer is newer than what a lookup can find now or after a load.
LEMMA StepAnswersOlder == IInv /\ [Next]_vars => AnswersOlder'
<1> SUFFICES ASSUME IInv, [Next]_vars PROVE AnswersOlder'
  OBVIOUS
<1>0. /\ AnswersOlder /\ Dated /\ LoadDated /\ Locked
      /\ saves \in Nat /\ text \subseteq Entry /\ table \subseteq Entry
      /\ data \in [Thread -> SUBSET Entry]
      /\ ans \in [Thread -> SUBSET Entry]
      /\ pc \in [Thread -> {"idle", "stat", "open", "read", "gate", "lookup"}]
      /\ "free" \notin Thread
  BY BoundAssumption, FreeAssumption DEF IInv, TypeOK
<1> USE DEF AnswersOlder
<1>1. CASE SaveBegin \/ SaveEntry \/ Delete
  BY <1>0, <1>1 DEF SaveBegin, SaveEntry, Delete
<1>2. ASSUME NEW t \in Thread, Call(t) \/ Stat(t) \/ Gate(t) PROVE AnswersOlder'
  <2>1. table' = table \/ table' = {}
    BY <1>2 DEF Call, Stat, Gate
  <2>2. UNCHANGED <<ans, data>> /\ \A u \in Thread : pc'[u] = "read" => pc[u] = "read"
    BY <1>0, <1>2 DEF Call, Stat, Gate, Goto
  <2> QED BY <1>0, <2>1, <2>2
<1>3. ASSUME NEW t \in Thread, Open(t) PROVE AnswersOlder'
  BY <1>0, <1>3 DEF Open, Goto
\* An entry read now carries the current save's number.
<1>4. ASSUME NEW t \in Thread, Read(t) PROVE AnswersOlder'
  <2>1. /\ UNCHANGED <<table, pc, ans>>
        /\ \A e \in data'[t] : e \in data[t] \/ e \in text
        /\ \A u \in Thread : u # t => data'[u] = data[u]
    BY <1>0, <1>4 DEF Read
  <2>2. pc[t] = "read"
    BY <1>4 DEF Read
  <2>3. ASSUME NEW u \in Thread, NEW d \in ans[u], NEW e \in data'[t], d[1] = e[1]
        PROVE  d[2] <= e[2]
    <3>1. CASE e \in data[t]
      BY <1>0, <2>2, <2>3, <3>1
    <3>2. CASE e \in text
      <4>1. e[2] = saves /\ d[2] <= saves
        BY <1>0, <3>2 DEF Dated
      <4> QED BY <4>1
    <3> QED BY <2>1, <3>1, <3>2
  <2> QED BY <1>0, <2>1, <2>3
<1>5. ASSUME NEW t \in Thread, Commit(t) PROVE AnswersOlder'
  <2>1. pc[t] = "read" /\ table' = data[t] /\ UNCHANGED <<ans, data>>
    BY <1>5 DEF Commit
  <2>2. \A u \in Thread : pc'[u] = "read" => pc[u] = "read"
    BY <1>0, <1>5 DEF Commit, Goto
  <2> QED BY <1>0, <2>1, <2>2
\* Nobody is loading, and the answer is one of the table's entries.
<1>6. ASSUME NEW t \in Thread, Lookup(t) PROVE AnswersOlder'
  <2>1. PICK k \in Key : ans' = [ans EXCEPT ![t] = {e \in table : e[1] = k}]
    BY <1>6 DEF Lookup
  <2>2. table' = table /\ \A u \in Thread : pc'[u] # "read"
    BY <1>0, <1>6 DEF Lookup, Goto, Locked
  <2>3. ASSUME NEW u \in Thread, NEW d \in ans'[u], NEW e \in table, d[1] = e[1]
        PROVE  d[2] <= e[2]
    <3>1. CASE d \in ans[u]
      BY <1>0, <2>3, <3>1
    <3>2. CASE d \in table
      <4>1. d = e
        BY <1>0, <2>3, <3>2 DEF Dated
      <4>2. d[2] \in Nat
        BY <1>0, <3>2, EntryParts
      <4> QED BY <4>1, <4>2
    <3> QED BY <1>0, <2>1, <3>1, <3>2
  <2> QED BY <2>2, <2>3
<1>7. CASE UNCHANGED vars
  BY <1>0, <1>7 DEF vars
<1> QED
  BY <1>1, <1>2, <1>3, <1>4, <1>5, <1>6, <1>7 DEF Next, Step

-----------------------------------------------------------------------------
\* The inductive invariant holds, for the specification without fairness and
\* so with it.
THEOREM Invariance == Spec => []IInv
<1>1. IInv /\ [Next]_vars => IInv'
  BY StepTypeOK, StepLocked, StepDated, StepAnswersOlder DEF IInv
<1> QED
  BY <1>1, InitIInv, PTL DEF Spec

\* The table keeps its type, and g_xlate_armed, read without the mutex, never
\* rejects a lookup of a table that has entries outside a load.
THEOREM FlagCoversTable == Spec => []TableInv
<1>1. IInv => TableInv
  BY DEF IInv, TableInv
<1> QED
  BY <1>1, Invariance, PTL

\* A step gives a thread no entry older than the one it was given before.
LEMMA StepNotOlder == IInv /\ [Next]_vars => [NotOlder]_vars
<1> SUFFICES ASSUME IInv, Next PROVE NotOlder
  BY DEF vars, NotOlder
<1> SUFFICES ASSUME NEW t \in Thread, NEW d \in ans[t], NEW e \in ans'[t], d[1] = e[1]
             PROVE  d[2] <= e[2]
  BY DEF NotOlder
<1>0. /\ AnswersOlder /\ Dated
      /\ table \subseteq Entry /\ ans \in [Thread -> SUBSET Entry]
  BY DEF IInv, TypeOK
<1>1. e \in ans[t] \/ e \in table
  BY <1>0 DEF Next, Step, SaveBegin, SaveEntry, Delete, Call, Stat, Open, Read, Commit, Gate,
             Lookup
<1>2. CASE e \in table
  BY <1>0, <1>2 DEF AnswersOlder
<1>3. CASE e \in ans[t]
  <2>1. d = e /\ d[2] \in Nat
    BY <1>0, <1>3, EntryParts DEF Dated
  <2> QED BY <2>1
<1> QED
  BY <1>1, <1>2, <1>3

\* However loads and saves interleave, what a thread is given for a key never
\* goes back to an earlier save of the file.
THEOREM NeverGoesBack == Spec => NeverOlder
<1>1. IInv /\ [Next]_vars => [NotOlder]_vars
  BY StepNotOlder
<1> QED
  BY <1>1, Invariance, PTL DEF NeverOlder, Spec
=============================================================================
