----------------------------- MODULE TextSched -----------------------------
(***************************************************************************)
(* TextHook under the game's scheduler.  The recompiled game's threads run *)
(* one at a time: one gives way to another only in guest code, at an os    *)
(* call or at the checkpoint of a loop's back edge (FINDINGS.md,           *)
(* include/trace.h).  The probe and the hook are host code and pass none;  *)
(* in particular a guest thread that waits for a host mutex gives way to   *)
(* nobody.  Whether FUN_80019f70, which measure_glyph calls with           *)
(* g_slotm_mtx held, contains an os call or a loop is a property of the    *)
(* ROM and left open (yields); the other traced routines may.              *)
(*                                                                         *)
(* The locks and atomics of the hook promise the same for threads that run *)
(* in parallel, and are checked for both (parallel); that a call ends is   *)
(* claimed under the game's scheduler only.                                *)
(*                                                                         *)
(* The debug server's thread is a host thread of its own, and takes        *)
(* g_strinv_mtx for its "stringdump".                                      *)
(***************************************************************************)
EXTENDS TextHook

VARIABLES
  parallel,   \* whether guest threads run in parallel; not in this game
  running,    \* otherwise, the guest thread that runs
  yields,     \* routines in whose body a thread may give way
  dumping     \* whether the debug server's thread holds g_strinv_mtx

schedVars == <<vars, parallel, running, yields, dumping>>

SchedInit ==
  /\ Init
  /\ running \in Thread
  /\ yields \in {Routine, Routine \ {"index"}}
  /\ parallel \in BOOLEAN
  /\ parallel => yields = Routine /\ running = CHOOSE t \in Thread : TRUE
  /\ dumping = FALSE

\* Thread t is in guest code that may reach a checkpoint: outside any traced
\* routine, or in the body of one that contains one.
AtCheckpoint(t) ==
  \/ stack[t] = << >>
  \/ (In(t, "body") \/ In(t, "drawing")) /\ Top(t).kind \in yields

\* The game's scheduler has another thread run.
Switch(u) ==
  /\ ~ parallel /\ u # running
  /\ AtCheckpoint(running)
  /\ running' = u
  /\ UNCHANGED <<vars, parallel, yields, dumping>>

\* The probe of t is about to record a string.
Records(t) == In(t, "probe") /\ IsText(Top(t))

Runs(t) == parallel \/ running = t

\* A running thread inside a traced routine goes on.
RunOn(t) ==
  /\ Runs(t)
  /\ dumping => ~ Records(t)
  /\ HookStep(t) \/ BodyCalls(t) \/ Return(t)
  /\ UNCHANGED <<parallel, running, yields, dumping>>

\* Outside a traced routine it may call one; in the hook it may load the table.
RunElse(t) ==
  /\ Runs(t)
  /\ Call(t) \/ (In(t, "hook") /\ ~ active[t] /\ Arm)
  /\ UNCHANGED <<parallel, running, yields, dumping>>

\* pkmnstadium_stringdump, as far as the mutex.
DumpLock ==
  /\ ~ dumping /\ strinv = "free"
  /\ dumping' = TRUE
  /\ UNCHANGED <<vars, parallel, running, yields>>

DumpUnlock ==
  /\ dumping
  /\ dumping' = FALSE
  /\ UNCHANGED <<vars, parallel, running, yields>>

SchedNext ==
  \/ \E t \in Thread : RunOn(t) \/ RunElse(t) \/ Switch(t)
  \/ DumpLock \/ DumpUnlock

\* Every thread gets to run again, and one inside a traced routine gets on when
\* it does, a mutex that is free again and again included.  Nothing makes the
\* game call a routine or the tool ask for a dump, but a dump ends.
SchedSpec ==
  /\ SchedInit /\ [][SchedNext]_schedVars
  /\ \A t \in Thread : SF_schedVars(Switch(t)) /\ SF_schedVars(RunOn(t))
  /\ WF_schedVars(DumpUnlock)
-----------------------------------------------------------------------------
(* Properties *)

\* The running thread waits for a mutex that another guest thread holds, and so
\* neither of them ever runs again.
Hung ==
  /\ ~ parallel
  /\ \/ In(running, "lock") /\ slotm \notin {"free", running}
     \/ Records(running) /\ strinv \in Thread \ {running}

\* The host mutexes stop the game only if FUN_80019f70 may give way: no other
\* place of the probe, the hook, a self-render or the routines it calls lets
\* a thread be swapped out with a mutex that another one needs.
OnlyIndexHangs == Hung => "index" \in yields

\* Every traced routine returns, however the game's threads alternate, whatever
\* the server dumps, unless FUN_80019f70 may give way and the game hangs as
\* above: no thread waits for itself, no self-render goes on for ever, no mutex
\* is left locked, and no thread is swapped out with one anywhere else.
CallsEnd ==
  \A t \in Thread :
    ~ parallel /\ stack[t] # << >> ~> stack[t] = << >> \/ (Hung /\ "index" \in yields)

\* Parts of the inductive invariant behind OnlyIndexHangs, of a thread t whose
\* frames are st while si and m hold the mutexes: who holds g_strinv_mtx records,
\* who holds g_slotm_mtx measures, itself or in FUN_80019f70, and in no routine
\* called from there.
Measuring(st) ==
  /\ st # << >>
  /\ \/ st[Len(st)].at = "measure"
     \/ Len(st) > 1 /\ st[Len(st) - 1].at = "measure" /\ st[Len(st)].kind = "index"

HeldOk(st, t, si, m) ==
  /\ si = t => st # << >> /\ st[Len(st)].at = "record"
  /\ m = t => Measuring(st)

SchedInv ==
  /\ IInv /\ running \in Thread
  /\ \A t \in Thread : HeldOk(stack[t], t, strinv, slotm)
  /\ \A t \in Thread :
       ~ Runs(t) => strinv # t /\ ("index" \notin yields => slotm # t)

\* Not so without the exception: a thread swapped out in FUN_80019f70 blocks the
\* next one that draws with a slot that is not ready, and with it the game.
CallsEndAnyway == \A t \in Thread : ~ parallel /\ stack[t] # << >> ~> stack[t] = << >>
=============================================================================
