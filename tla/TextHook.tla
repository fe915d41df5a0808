------------------------------ MODULE TextHook ------------------------------
(***************************************************************************)
(* One traced routine after another: what TRACE_ENTRY (include/trace.h)    *)
(* does before the routine's own body runs, and how the translation hook   *)
(* draws English itself (src/main/diagnostics.cpp).  A self-render calls   *)
(* the game's recompiled glyph routines, whose own TRACE_ENTRY comes back  *)
(* into the probe and the hook on the same thread, the first time for a    *)
(* font slot with g_slotm_mtx held.                                        *)
(*                                                                         *)
(* stack[t] holds thread t's traced routines that have been entered and    *)
(* have not returned.  What the table says of a string is left open (see   *)
(* Translations), as is what a glyph looks like; the advances of a font    *)
(* slot are the number of glyphs they were measured from.                  *)
(***************************************************************************)
EXTENDS Naturals, Sequences, FiniteSets

CONSTANTS
  Thread,     \* guest threads
  Slot,       \* font slots with an entry in g_slotm
  Glyphs,     \* glyphs measured for a proportional slot, and drawn for a string
  Text        \* routines that draw text, of those named in Routine

\* kStringDrawPC, its siblings with coordinates in r4 and r5, the formatter
\* kPrintfPC, FUN_80019f70 (glyph code to sheet index), FUN_8001a3e4 (draws one
\* glyph).
Routine == {"draw", "sibling", "printf", "index", "glyph"}

ASSUME GlyphsAssumption == Glyphs \in Nat /\ Glyphs >= 2
ASSUME TextAssumption == Text \subseteq {"draw", "sibling", "printf"}
ASSUME SlotAssumption == Slot # {} /\ "free" \notin Thread

VARIABLES
  stack,      \* stack[t]: t's traced routines, the innermost last
  active,     \* g_xlate_active of every thread
  armed,      \* g_xlate_armed
  strinv,     \* holder of g_strinv_mtx, or "free"
  slotm,      \* holder of g_slotm_mtx, or "free"
  ready,      \* ready[s]: g_slotm[s].ready
  metrics,    \* metrics[s]: glyphs measured for slot s, 0 before
  measured    \* history: how often slot s has been measured

vars == <<stack, active, armed, strinv, slotm, ready, metrics, measured>>

\* r6 is what the routine's string argument points at, eng how often the hook
\* has drawn the string in English, n a loop counter, s the font slot, prev
\* what XlateActiveGuard restores, rdy what the render has read of ready.
Frame(k) ==
  [kind |-> k, at |-> "probe", r6 |-> IF k = "glyph" THEN "code" ELSE "jp",
   eng |-> 0, n |-> 0, s |-> CHOOSE s \in Slot : TRUE, prev |-> FALSE, rdy |-> FALSE]

Init ==
  /\ stack = [t \in Thread |-> << >>]
  /\ active = [t \in Thread |-> FALSE]
  /\ armed = FALSE
  /\ strinv = "free" /\ slotm = "free"
  /\ ready = [s \in Slot |-> FALSE]
  /\ metrics = [s \in Slot |-> 0]
  /\ measured = [s \in Slot |-> 0]

Depth(t) == Len(stack[t])
Top(t) == stack[t][Depth(t)]
In(t, l) == stack[t] # << >> /\ Top(t).at = l

\* The innermost routine of t changes to f.
Becomes(t, f) == stack' = [stack EXCEPT ![t][Depth(t)] = f]
Goto(t, l) == Becomes(t, [Top(t) EXCEPT !.at = l])

\* The innermost routine goes on at l once a routine k it calls has returned.
Calls(t, k, f) ==
  stack' = [stack EXCEPT ![t] = [@ EXCEPT ![Depth(t)] = f] \o <<Frame(k)>>]

metricVars == <<ready, metrics, measured>>

-----------------------------------------------------------------------------
\* The table is loaded, or a reload leaves it empty (see Translations).
Arm ==
  /\ armed' \in BOOLEAN
  /\ UNCHANGED <<stack, active, strinv, slotm, metricVars>>

\* The game enters a text routine.
Call(t) ==
  /\ stack[t] = << >>
  /\ \E k \in Text : stack' = [stack EXCEPT ![t] = <<Frame(k)>>]
  /\ UNCHANGED <<active, armed, strinv, slotm, metricVars>>

\* What read_text_arg accepts: the game's string and the English swapped in for it
\* (a replacement of one byte, which it would not, is left out).
IsText(f) == f.r6 \in {"jp", "en"}

\* pkmnstadium_textdraw_probe: a text argument is recorded under g_strinv_mtx.
\* It does not look at g_xlate_active.
ProbeLock(t) ==
  /\ In(t, "probe")
  /\ IsText(Top(t))
  /\ strinv = "free"
  /\ strinv' = t
  /\ Goto(t, "record")
  /\ UNCHANGED <<active, armed, slotm, metricVars>>

ProbeUnlock(t) ==
  /\ In(t, "record")
  /\ strinv' = "free"
  /\ Goto(t, "hook")
  /\ UNCHANGED <<active, armed, slotm, metricVars>>

ProbeNoText(t) ==
  /\ In(t, "probe")
  /\ ~ IsText(Top(t))
  /\ Goto(t, "hook")
  /\ UNCHANGED <<active, armed, strinv, slotm, metricVars>>

\* Mutant: the hook does not test g_xlate_active.
HookUnguarded(t) ==
  /\ In(t, "hook") /\ Goto(t, IF armed THEN "find" ELSE "body")
  /\ UNCHANGED <<active, armed, strinv, slotm, metricVars>>

\* pkmnstadium_text_xlate: the reentrancy guard, then the lock-free reject.
Hook(t) ==
  /\ In(t, "hook")
  /\ Goto(t, IF ~ active[t] /\ armed THEN "find" ELSE "body")
  /\ UNCHANGED <<active, armed, strinv, slotm, metricVars>>

\* The lookup under g_xlate_mtx misses, or the routine is not flagged, the
\* stack is too low, the English too long.
Miss(t) ==
  /\ In(t, "find")
  /\ Goto(t, "body")
  /\ UNCHANGED <<active, armed, strinv, slotm, metricVars>>

\* The routine gets the English in the place of its own string: a template, or
\* any string of a routine without coordinates.
Swap(t) ==
  /\ In(t, "find")
  /\ Top(t).r6 = "jp"
  /\ Becomes(t, [Top(t) EXCEPT !.at = "body", !.r6 = "en"])
  /\ UNCHANGED <<active, armed, strinv, slotm, metricVars>>

\* self_render_static: a string without arguments, or one composed with its
\* argument, of a routine with coordinates.  The guard goes up.
Render(t) ==
  /\ In(t, "find")
  /\ Top(t).r6 = "jp"
  /\ Top(t).kind # "printf"
  /\ active' = [active EXCEPT ![t] = TRUE]
  /\ \E s \in Slot :
       Becomes(t, [Top(t) EXCEPT !.at = "calibrate", !.s = s, !.prev = active[t]])
  /\ UNCHANGED <<armed, strinv, slotm, metricVars>>

\* calibrate_slot: the fast path when the slot is ready.
Calibrate(t) ==
  /\ In(t, "calibrate")
  /\ Goto(t, IF ready[Top(t).s] THEN "advances" ELSE "lock")
  /\ UNCHANGED <<active, armed, strinv, slotm, metricVars>>

\* Mutant: ready is not read again under the mutex.
LockUnchecked(t) ==
  /\ In(t, "lock") /\ slotm = "free"
  /\ slotm' = t /\ Becomes(t, [Top(t) EXCEPT !.at = "measure", !.n = 0])
  /\ UNCHANGED <<active, armed, strinv, metricVars>>

\* ready is read again under the mutex; a sheet that is not in memory yet is
\* left for a later string.
Lock(t) ==
  /\ In(t, "lock")
  /\ slotm = "free"
  /\ \/ Goto(t, "advances") /\ UNCHANGED slotm
     \/ /\ ~ ready[Top(t).s]
        /\ slotm' = t
        /\ Becomes(t, [Top(t) EXCEPT !.at = "measure", !.n = 0])
  /\ UNCHANGED <<active, armed, strinv, metricVars>>

\* measure_glyph asks FUN_80019f70 for the tile, on a copy of the context in
\* which r6 still points at the string.  After 'i' and 'm' a slot that is not
\* proportional needs no more.
Measure(t) ==
  /\ In(t, "measure")
  /\ Top(t).n < Glyphs
  /\ Calls(t, "index", [Top(t) EXCEPT !.n = @ + 1])
  /\ UNCHANGED <<active, armed, strinv, slotm, metricVars>>

\* Mutant: ready is stored when the first two glyphs have been measured.
StoreEarly(t) ==
  LET s == Top(t).s IN
  /\ In(t, "measure") /\ Top(t).n >= 2
  /\ ready' = [ready EXCEPT ![s] = TRUE]
  /\ IF Top(t).n = Glyphs
       THEN metrics' = [metrics EXCEPT ![s] = Glyphs] /\ slotm' = "free" /\ Goto(t, "advances")
       ELSE UNCHANGED <<metrics, slotm, stack>>
  /\ UNCHANGED <<active, armed, strinv, measured>>

\* The advances, then ready, then the mutex is released.
Store(t) ==
  LET s == Top(t).s IN
  /\ In(t, "measure")
  /\ Top(t).n \in {2, Glyphs}
  /\ metrics' = [metrics EXCEPT ![s] = Top(t).n]
  /\ measured' = [measured EXCEPT ![s] = @ + 1]
  /\ ready' = [ready EXCEPT ![s] = TRUE]
  /\ slotm' = "free"
  /\ Goto(t, "advances")
  /\ UNCHANGED <<active, armed, strinv>>

\* The render reads ready once: with it the slot's advances, without it the
\* fixed ratios.
Advances(t) ==
  /\ In(t, "advances")
  /\ Becomes(t, [Top(t) EXCEPT !.at = "glyphs", !.n = 0, !.rdy = ready[Top(t).s]])
  /\ UNCHANGED <<active, armed, strinv, slotm, metricVars>>

\* FUN_8001a3e4 draws one glyph of the English.
DrawGlyph(t) ==
  /\ In(t, "glyphs")
  /\ Top(t).n < Glyphs
  /\ Calls(t, "glyph", [Top(t) EXCEPT !.n = @ + 1])
  /\ UNCHANGED <<active, armed, strinv, slotm, metricVars>>

\* Mutants: the routine's own string is left in r6; the guard stays up.
SuppressNot(t) ==
  /\ In(t, "glyphs") /\ Top(t).n = Glyphs
  /\ active' = [active EXCEPT ![t] = Top(t).prev]
  /\ Becomes(t, [Top(t) EXCEPT !.at = "body", !.eng = @ + 1])
  /\ UNCHANGED <<armed, strinv, slotm, metricVars>>

SuppressKeepsGuard(t) ==
  /\ In(t, "glyphs") /\ Top(t).n = Glyphs
  /\ Becomes(t, [Top(t) EXCEPT !.at = "body", !.eng = @ + 1, !.r6 = "empty"])
  /\ UNCHANGED <<active, armed, strinv, slotm, metricVars>>

\* All drawn: an empty string for the routine itself, the guard is restored.
Suppress(t) ==
  /\ In(t, "glyphs")
  /\ Top(t).n = Glyphs
  /\ active' = [active EXCEPT ![t] = Top(t).prev]
  /\ Becomes(t, [Top(t) EXCEPT !.at = "body", !.eng = @ + 1, !.r6 = "empty"])
  /\ UNCHANGED <<armed, strinv, slotm, metricVars>>

\* The body of the string-draw routine formats the string it was given, with
\* the formatter, and draws the result glyph by glyph.
BodyCalls(t) ==
  /\ In(t, "body")
  /\ Top(t).kind = "draw"
  /\ \E k \in {"printf", "glyph"} :
       stack' = [stack EXCEPT ![t] =
         [@ EXCEPT ![Depth(t)].at = "drawing"] \o
         <<[Frame(k) EXCEPT !.r6 = IF k = "printf" THEN Top(t).r6 ELSE @]>>]
  /\ UNCHANGED <<active, armed, strinv, slotm, metricVars>>

\* The routine returns to whoever called it.
Return(t) ==
  /\ In(t, "body") \/ In(t, "drawing")
  /\ stack' = [stack EXCEPT ![t] = SubSeq(@, 1, Len(@) - 1)]
  /\ UNCHANGED <<active, armed, strinv, slotm, metricVars>>

RenderStep(t) ==
  \/ Calibrate(t) \/ Lock(t) \/ Measure(t) \/ Store(t)
  \/ Advances(t) \/ DrawGlyph(t) \/ Suppress(t)

HookStep(t) ==
  \/ ProbeLock(t) \/ ProbeUnlock(t) \/ ProbeNoText(t)
  \/ Hook(t) \/ Miss(t) \/ Swap(t) \/ Render(t) \/ RenderStep(t)

Next == Arm \/ \E t \in Thread : Call(t) \/ HookStep(t) \/ BodyCalls(t) \/ Return(t)

Spec == Init /\ [][Next]_vars
-----------------------------------------------------------------------------
(* Properties *)

Rendering == {"calibrate", "lock", "measure", "advances", "glyphs"}

\* Types of the threads' stacks, the mutexes and the slots.
TypeOK ==
  /\ \A t \in Thread : \A d \in 1 .. Depth(t) :
       /\ stack[t][d].kind \in Routine
       /\ stack[t][d].at \in Rendering \union {"probe", "record", "hook", "find", "body", "drawing"}
       /\ stack[t][d].r6 \in {"jp", "en", "empty", "code"}
       /\ stack[t][d].n \in 0 .. Glyphs
  /\ active \in [Thread -> BOOLEAN] /\ armed \in BOOLEAN
  /\ strinv \in Thread \union {"free"} /\ slotm \in Thread \union {"free"}
  /\ ready \in [Slot -> BOOLEAN]
  /\ metrics \in [Slot -> {0, 2, Glyphs}]

\* No self-render inside a self-render, and the guard is up exactly during one:
\* neither does a glyph routine render its caller's string again, nor does a
\* guard left up switch translation off for the rest of the thread's life.
GuardIsRender ==
  \A t \in Thread :
    Cardinality({d \in 1 .. Depth(t) : stack[t][d].at \in Rendering}) =
      IF active[t] THEN 1 ELSE 0

\* The stacks keep their type and the guard follows the render.
RenderInv == TypeOK /\ GuardIsRender

\* Whatever the hook chose, a text routine puts its string on the screen once:
\* in English drawn by the hook with the routine's own drawing suppressed, or
\* by the routine.
DrawnOnce ==
  \A t \in Thread : In(t, "body") /\ Top(t).kind \in Text /\ Depth(t) = 1 =>
    Top(t).eng + (IF Top(t).r6 = "empty" THEN 0 ELSE 1) = 1

\* A render that has seen ready set uses advances that are complete.
ReadyComplete ==
  \A t \in Thread : \A d \in 1 .. Depth(t) :
    stack[t][d].at = "glyphs" /\ stack[t][d].rdy =>
      metrics[stack[t][d].s] \in {2, Glyphs}

\* A slot is measured once, by one thread, and its advances never change under
\* a string that is being drawn with them.
MetricsKept ==
  \A s \in Slot : ready[s] => metrics'[s] = metrics[s] /\ measured'[s] = measured[s]
MetricsOnce == [][MetricsKept]_vars

\* Parts of the inductive invariant.
FrameType ==
  [kind : Routine, r6 : {"jp", "en", "empty", "code"}, eng : Nat, n : 0 .. Glyphs,
   at : Rendering \union {"probe", "record", "hook", "find", "body", "drawing"},
   s : Slot, prev : BOOLEAN, rdy : BOOLEAN]

\* A frame f of thread t, whose guard is a, while m holds g_slotm_mtx and r are
\* the ready flags: who measures a slot holds the mutex and the slot is not
\* ready; who draws with measured advances has a slot that is.
FrameOk(f, t, a, m, r) ==
  /\ f.at \in Rendering => a = TRUE /\ f.prev = FALSE
  /\ f.at = "find" => a = FALSE
  /\ f.at = "measure" => m = t /\ r[f.s] = FALSE
  /\ f.at = "glyphs" /\ f.rdy = TRUE => r[f.s] = TRUE

\* A routine the game entered itself has its string drawn once.
BaseOk(f) ==
  /\ f.kind \in Text
  /\ f.at \notin {"body", "drawing"} => f.eng = 0 /\ f.r6 = "jp"
  /\ f.at = "body" => (f.eng = 0 /\ f.r6 # "empty") \/ (f.eng = 1 /\ f.r6 = "empty")

\* A thread whose frames are st: those that have called another routine wait at
\* a call, and the guard is up exactly when one frame is a self-render.
Waiting == {"measure", "glyphs", "drawing"}
ThreadOk(st, t, a, m, r) ==
  /\ \A d \in 1 .. Len(st) : d < Len(st) => st[d].at \in Waiting
  /\ \A d \in 1 .. Len(st) : FrameOk(st[d], t, a, m, r)
  /\ \A d, e \in 1 .. Len(st) : st[d].at \in Rendering /\ st[e].at \in Rendering => d = e
  /\ a = TRUE => \E d \in 1 .. Len(st) : st[d].at \in Rendering
  /\ Len(st) >= 1 => BaseOk(st[1])

\* The inductive invariant behind RenderInv, DrawnOnce, ReadyComplete and
\* MetricsOnce.
IInv ==
  /\ TypeOK
  /\ stack \in [Thread -> Seq(FrameType)] /\ DOMAIN measured = Slot
  /\ \A s \in Slot : ready[s] => metrics[s] \in {2, Glyphs}
  /\ \A t \in Thread : ThreadOk(stack[t], t, active[t], slotm, ready)
=============================================================================
