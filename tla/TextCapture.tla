---------------------------- MODULE TextCapture ----------------------------
(***************************************************************************)
(* The always-on text capture (src/main/diagnostics.cpp).  On every traced *)
(* entry pkmnstadium_textdraw_probe looks for a text argument; when it     *)
(* finds one it upserts the string into g_strinv under g_strinv_mtx        *)
(* (rewriting stringdump.log while it holds the mutex if the string is     *)
(* new), flags the routine's PC in g_textpc_set, and tallies the PC in     *)
(* g_textcand under g_textcand_mtx.  The debug server's "stringdump"       *)
(* command rewrites the same file under the same mutex.  The process can   *)
(* die at any moment (std::abort on an unhandled branch, std::_Exit on     *)
(* SDL_QUIT or on the server's "quit") and be started again; only the file *)
(* survives.                                                               *)
(*                                                                         *)
(* A string is its FNV key.  Coordinates and sample bytes are left out, an *)
(* entry is its call count.  stdio buffers what fprintf writes and lets it *)
(* reach the file in pieces, at the latest when fclose returns.            *)
(***************************************************************************)
EXTENDS Naturals, FiniteSets

CONSTANTS
  Thread,     \* guest threads that run the probe
  Server,     \* the debug server's client thread
  Key,        \* strings
  Pc,         \* routine addresses, ZeroPc, DrawPc and PrintfPc among them
  ZeroPc,     \* what parse_fun_pc returns for a name without an address
  DrawPc,     \* kStringDrawPC
  PrintfPc,   \* kPrintfPC, whose calls are not tallied in g_textcand
  PcCap,      \* kTextPcSetN
  InvCap,     \* kStrInvCap
  CandCap,    \* kTextCandCap
  MaxCalls,   \* bound: qualifying calls of one process
  MaxRuns,    \* bound: processes started
  OpenMayFail \* whether fopen of stringdump.log may fail

ASSUME CapAssumption == InvCap \in Nat \ {0} /\ CandCap \in Nat /\ PcCap \in Nat
ASSUME BoundAssumption == MaxCalls \in Nat /\ MaxRuns \in Nat \ {0} /\ OpenMayFail \in BOOLEAN
ASSUME ProcAssumption == Server \notin Thread /\ "free" \notin Thread \union {Server}
ASSUME PcAssumption == {DrawPc, PrintfPc} \subseteq Pc \ {ZeroPc}

VARIABLES
  inv,        \* g_strinv: call count of every string recorded
  dropped,    \* g_strinv_dropped
  qualifying, \* g_text_qualifying
  flagged,    \* the members of g_textpc_set
  cand,       \* g_textcand: call count of every PC tallied
  mutex,      \* holder of g_strinv_mtx while it writes the file, or "free"
  pc,         \* pc[p]: where thread p is
  call,       \* call[t]: PC and string of t's current or latest call
  file,       \* the strings in stringdump.log
  stale,      \* whether the latest rewrite of the file could not open it
  runs,       \* processes started so far
  captured    \* history: strings whose strinv_upsert has returned

vars == <<inv, dropped, qualifying, flagged, cand, mutex, pc, call, file, stale,
          runs, captured>>

Proc == Thread \union {Server}

Empty == [x \in {} |-> 0]

\* A table entry's count goes up, a new entry starts at 1.
Tally(tab, x) == [y \in DOMAIN tab \union {x} |->
                    (IF y \in DOMAIN tab THEN tab[y] ELSE 0) + (IF y = x THEN 1 ELSE 0)]

\* The calls a table counts, and how many they are.
Counted(tab) == UNION {{x} \X (1 .. tab[x]) : x \in DOMAIN tab}
Total(tab) == Cardinality(Counted(tab))

\* The tables, counters and threads of a process that has just started.
Fresh ==
  [inv |-> Empty, dropped |-> 0, qualifying |-> 0, flagged |-> {}, cand |-> Empty,
   mutex |-> "free", pc |-> [p \in Proc |-> "idle"], stale |-> TRUE,
   call |-> [t \in Thread |-> <<ZeroPc, "none">>]]

Init ==
  /\ inv = Fresh.inv /\ dropped = Fresh.dropped /\ qualifying = Fresh.qualifying
  /\ flagged = Fresh.flagged /\ cand = Fresh.cand /\ mutex = Fresh.mutex
  /\ pc = Fresh.pc /\ stale = Fresh.stale /\ call = Fresh.call
  /\ file = {} /\ runs = 1 /\ captured = {}

Goto(p, l) == pc' = [pc EXCEPT ![p] = l]

\* g_textpc_set after textpc_add(a), which ignores address 0 and loses, without a
\* word, one that finds every slot taken (TextPcSet has its steps).
WithPc(a) ==
  IF a = ZeroPc \/ Cardinality(flagged) >= PcCap THEN flagged ELSE flagged \union {a}

-----------------------------------------------------------------------------
\* A traced routine is entered with a text argument: the address gate, the
\* coordinate gate and read_text_arg have let it through (any other entry
\* returns without touching anything).
Probe(t, a, k) ==
  /\ pc[t] = "idle"
  /\ qualifying < MaxCalls
  /\ qualifying' = qualifying + 1
  /\ call' = [call EXCEPT ![t] = <<a, k>>]
  /\ Goto(t, "upsert")
  /\ UNCHANGED <<inv, dropped, flagged, cand, mutex, file, stale, runs, captured>>

\* Mutant: a string that finds the table full is not counted as dropped.
UpsertUncounted(t) ==
  LET k == call[t][2] IN
  /\ pc[t] = "upsert" /\ mutex = "free"
  /\ IF k \notin DOMAIN inv /\ Cardinality(DOMAIN inv) < InvCap
       THEN mutex' = t /\ Goto(t, "open") /\ UNCHANGED captured
       ELSE Goto(t, "flag") /\ captured' = captured \union ({k} \intersect DOMAIN inv)
            /\ UNCHANGED mutex
  /\ inv' = IF k \in DOMAIN inv \/ Cardinality(DOMAIN inv) < InvCap THEN Tally(inv, k) ELSE inv
  /\ UNCHANGED <<dropped, qualifying, flagged, cand, call, file, stale, runs>>

\* Mutant: the mutex is dropped before the file is rewritten.
UpsertUnlocked(t) ==
  LET k == call[t][2] IN
  /\ pc[t] = "upsert" /\ mutex = "free"
  /\ IF k \in DOMAIN inv \/ Cardinality(DOMAIN inv) < InvCap
       THEN inv' = Tally(inv, k) /\ UNCHANGED dropped
       ELSE dropped' = dropped + 1 /\ UNCHANGED inv
  /\ captured' = captured \union ({k} \intersect DOMAIN inv')
  /\ Goto(t, IF DOMAIN inv' = DOMAIN inv THEN "flag" ELSE "open")
  /\ UNCHANGED <<qualifying, flagged, cand, mutex, call, file, stale, runs>>

\* strinv_upsert up to the rewrite: one critical section of g_strinv_mtx, which
\* it goes on holding when the string is new.
Upsert(t) ==
  LET k == call[t][2] IN
  /\ pc[t] = "upsert"
  /\ mutex = "free"
  /\ \/ /\ k \in DOMAIN inv
        /\ inv' = Tally(inv, k)
        /\ captured' = captured \union {k}
        /\ Goto(t, "flag")
        /\ UNCHANGED <<dropped, mutex>>
     \/ /\ k \notin DOMAIN inv
        /\ Cardinality(DOMAIN inv) < InvCap
        /\ inv' = Tally(inv, k)
        /\ mutex' = t
        /\ Goto(t, "open")
        /\ UNCHANGED <<dropped, captured>>
     \/ /\ k \notin DOMAIN inv
        /\ Cardinality(DOMAIN inv) >= InvCap
        /\ dropped' = dropped + 1
        /\ Goto(t, "flag")
        /\ UNCHANGED <<inv, mutex, captured>>
  /\ UNCHANGED <<qualifying, flagged, cand, call, file, stale, runs>>

\* pkmnstadium_stringdump, asked for over the debug socket.
Stringdump ==
  /\ pc[Server] = "idle"
  /\ mutex = "free"
  /\ mutex' = Server
  /\ Goto(Server, "open")
  /\ UNCHANGED <<inv, dropped, qualifying, flagged, cand, call, file, stale, runs, captured>>

\* dump_stringinv_locked has returned: the mutex is released and, in the
\* probe, strinv_upsert returns.
Dumped(p) ==
  /\ mutex' = "free"
  /\ Goto(p, IF p = Server THEN "idle" ELSE "flag")
  /\ captured' = IF p = Server THEN captured ELSE captured \union {call[p][2]}
  /\ UNCHANGED <<inv, dropped, qualifying, flagged, cand, call, runs>>

\* fopen(..., "w") of dump_stringinv_locked: truncates the log, or fails and
\* leaves it as it is; the caller is not told.
DumpOpen(p) ==
  /\ pc[p] = "open"
  /\ \/ /\ file' = {}
        /\ Goto(p, "write")
        /\ UNCHANGED <<inv, dropped, qualifying, flagged, cand, mutex, call, stale, runs, captured>>
     \/ /\ OpenMayFail
        /\ stale' = TRUE
        /\ Dumped(p)
        /\ UNCHANGED file

\* stdio's buffer fills while the entries are printed: some reach the file.
DumpFlush(p) ==
  /\ pc[p] = "write"
  /\ \E k \in DOMAIN inv \ file : file' = file \union {k}
  /\ UNCHANGED <<inv, dropped, qualifying, flagged, cand, mutex, pc, call, stale, runs, captured>>

\* fclose writes what is left.
DumpClose(p) ==
  /\ pc[p] = "write"
  /\ file' = DOMAIN inv
  /\ stale' = FALSE
  /\ Dumped(p)

\* Mutant: only a call whose string was recorded flags its routine.
FlagIfRecorded(t) ==
  LET a == call[t][1] IN
  /\ pc[t] = "flag"
  /\ flagged' = IF call[t][2] \in DOMAIN inv THEN WithPc(a) ELSE flagged
  /\ Goto(t, IF a = PrintfPc THEN "idle" ELSE "census")
  /\ UNCHANGED <<inv, dropped, qualifying, cand, mutex, call, file, stale, runs, captured>>

\* textpc_add of the routine; a call of the formatter ends here.
Flag(t) ==
  LET a == call[t][1] IN
  /\ pc[t] = "flag"
  /\ flagged' = WithPc(a)
  /\ Goto(t, IF a = PrintfPc THEN "idle" ELSE "census")
  /\ UNCHANGED <<inv, dropped, qualifying, cand, mutex, call, file, stale, runs, captured>>

\* Mutant: the free-slot search of the tally runs one entry too far.
CensusPastEnd(t) ==
  LET a == call[t][1] IN
  /\ pc[t] = "census"
  /\ cand' = IF a \in DOMAIN cand \/ Cardinality(DOMAIN cand) <= CandCap
               THEN Tally(cand, a) ELSE cand
  /\ Goto(t, "idle")
  /\ UNCHANGED <<inv, dropped, qualifying, flagged, mutex, call, file, stale, runs, captured>>

\* The tally under g_textcand_mtx: a full table loses the PC without a count.
Census(t) ==
  LET a == call[t][1] IN
  /\ pc[t] = "census"
  /\ cand' = IF a \in DOMAIN cand \/ Cardinality(DOMAIN cand) < CandCap
               THEN Tally(cand, a) ELSE cand
  /\ Goto(t, "idle")
  /\ UNCHANGED <<inv, dropped, qualifying, flagged, mutex, call, file, stale, runs, captured>>

\* The translation hook, which follows the probe on the same entry, has loaded
\* translations.json: load_translations_locked adds kStringDrawPC, ...
Seed(t) ==
  /\ pc[t] = "idle"
  /\ \A u \in Thread : pc[u] # "seed"      \* g_xlate_mtx
  /\ flagged' = WithPc(DrawPc)
  /\ Goto(t, "seed")
  /\ UNCHANGED <<inv, dropped, qualifying, cand, mutex, call, file, stale, runs, captured>>

\* ... then kPrintfPC.
SeedPrintf(t) ==
  /\ pc[t] = "seed"
  /\ flagged' = WithPc(PrintfPc)
  /\ Goto(t, "idle")
  /\ UNCHANGED <<inv, dropped, qualifying, cand, mutex, call, file, stale, runs, captured>>

\* The process dies, whatever its threads are doing, and is started again.
\* What stdio still buffered is gone with it.
Crash ==
  /\ runs < MaxRuns
  /\ runs' = runs + 1
  /\ inv' = Fresh.inv /\ dropped' = Fresh.dropped /\ qualifying' = Fresh.qualifying
  /\ flagged' = Fresh.flagged /\ cand' = Fresh.cand /\ mutex' = Fresh.mutex
  /\ pc' = Fresh.pc /\ stale' = Fresh.stale /\ call' = Fresh.call
  /\ captured' = {}
  /\ UNCHANGED file

Next ==
  \/ \E t \in Thread :
       \/ \E a \in Pc, k \in Key : Probe(t, a, k)
       \/ Upsert(t) \/ Flag(t) \/ Census(t)
       \/ Seed(t) \/ SeedPrintf(t)
  \/ Stringdump
  \/ \E p \in Proc : DumpOpen(p) \/ DumpFlush(p) \/ DumpClose(p)
  \/ Crash

Spec == Init /\ [][Next]_vars
-----------------------------------------------------------------------------
(* Properties *)

\* Types of the tables, the counters and the log.
TypeOK ==
  /\ DOMAIN inv \subseteq Key /\ DOMAIN cand \subseteq Pc /\ flagged \subseteq Pc \ {ZeroPc}
  /\ dropped \in Nat /\ qualifying \in 0 .. MaxCalls /\ runs \in 1 .. MaxRuns
  /\ Cardinality(DOMAIN inv) <= InvCap /\ Cardinality(DOMAIN cand) <= CandCap
  /\ Cardinality(flagged) <= PcCap
  /\ mutex \in Proc \union {"free"}
  /\ pc \in [Proc -> {"idle", "upsert", "open", "write", "flag", "census", "seed"}]
  /\ file \subseteq Key /\ captured \subseteq Key /\ stale \in BOOLEAN

\* The threads whose call is about to be recorded.
Upserting == {t \in Thread : pc[t] = "upsert"}

\* Conservation across threads: every qualifying call is accounted for, as a
\* count of a recorded string, as dropped, or by a thread about to upsert.
CallsAccounted == qualifying = Total(inv) + dropped + Cardinality(Upserting)

\* While nobody rewrites it, the log holds exactly the strings of the table,
\* unless the latest rewrite could not open it: neither a guest thread nor the
\* server can leave the other's rewrite half done or overwrite it with less.
LogIsTable == mutex = "free" /\ ~ stale => file = DOMAIN inv

\* A PC is flagged before it is tallied, even when its string finds the inventory
\* full: the gate of xlate_general is open for every routine the census shows,
\* unless 512 others hold it (address 0 can be tallied but never flagged).  And
\* nothing but the two seeds is flagged before a string was captured.
TalliedAreFlagged ==
  /\ DOMAIN cand \ {ZeroPc} \subseteq flagged \/ Cardinality(flagged) = PcCap
  /\ flagged \subseteq {DrawPc, PrintfPc} \/ inv # Empty

\* No table holds more than it has room for, and its rows are flagged.
TallyInv == TypeOK /\ TalliedAreFlagged

\* Parts of the inductive invariant.  Only the holder of the mutex has the log
\* open; the server only dumps.
Locked ==
  /\ \A p \in Proc : pc[p] \in {"open", "write"} <=> mutex = p
  /\ pc[Server] \in {"idle", "open", "write"}

\* A call in progress is about a routine and a string.
CallKnown ==
  DOMAIN call = Thread /\ \A t \in Thread : pc[t] \notin {"idle", "seed"} => call[t] \in Pc \X Key

\* The tables are finite, and a call past its upsert has found an entry or a
\* full table, past its flag a flagged routine or a full set.
CallDone ==
  /\ IsFiniteSet(DOMAIN inv) /\ IsFiniteSet(DOMAIN cand) /\ IsFiniteSet(flagged)
  /\ \A t \in Thread : pc[t] \in {"open", "write", "flag"} => DOMAIN inv # {}
  /\ \A t \in Thread : pc[t] = "census" =>
       call[t][1] \in flagged \union {ZeroPc} \/ Cardinality(flagged) = PcCap

\* The inductive invariant behind LogIsTable and TallyInv.
IInv == TypeOK /\ Locked /\ CallKnown /\ CallDone /\ LogIsTable /\ TalliedAreFlagged

\* The inductive form of CallsAccounted: the sets that are counted are finite.
Accounts ==
  /\ CallsAccounted
  /\ IsFiniteSet(Upserting) /\ IsFiniteSet(Counted(inv))
  /\ \A k \in DOMAIN inv : inv[k] \in Nat

\* The comment of dump_stringinv_locked (diagnostics.cpp:637-640): the log is
\* written on every new string "so a crash mid-capture never loses the
\* inventory": what was captured before the process died is in the log.
CrashKeepsInventory == [][Crash => captured \subseteq file]_vars
=============================================================================
