--------------------------- MODULE TextHookProofs ---------------------------
(***************************************************************************)
(* RenderInv, DrawnOnce, ReadyComplete and MetricsOnce for any threads,    *)
(* font slots, glyphs and depth of nested calls.  The invariant is one     *)
(* statement about the frames of each thread (ThreadOk); the lemmas of the *)
(* first part say how it survives a change of the innermost frame, a call  *)
(* and a return, and each action then has to justify its new frame only.   *)
(* The last part is about TextSched: what a thread does while it holds a   *)
(* mutex (HeldOk), and so where it cannot be swapped out.                  *)
(***************************************************************************)
EXTENDS TextSched, FiniteSetTheorems, SequenceTheorems, TLAPS

-----------------------------------------------------------------------------
(* Stacks of frames *)

\* How a step that replaces the innermost frame g by f may move the guard from
\* a to b: not at all, up as a self-render begins, down as it ends.
GuardMoves(g, f, a, b) ==
  \/ b = a /\ (f.at \in Rendering <=> g.at \in Rendering)
  \/ a = FALSE /\ b = TRUE /\ f.at \in Rendering
  \/ g.at \in Rendering /\ b = FALSE /\ f.at \notin Rendering

\* The innermost frame changes.
LEMMA ReplaceTop ==
  ASSUME NEW t, NEW st \in Seq(FrameType), st # << >>,
         NEW a \in BOOLEAN, NEW b \in BOOLEAN, NEW m, NEW n, NEW r, NEW q,
         ThreadOk(st, t, a, m, r), NEW f \in FrameType,
         FrameOk(f, t, b, n, q), Len(st) = 1 => BaseOk(f),
         GuardMoves(st[Len(st)], f, a, b),
         \A d \in 1 .. Len(st) : d # Len(st) => FrameOk(st[d], t, b, n, q)
  PROVE  /\ [st EXCEPT ![Len(st)] = f] \in Seq(FrameType)
         /\ ThreadOk([st EXCEPT ![Len(st)] = f], t, b, n, q)
<1> DEFINE su == [st EXCEPT ![Len(st)] = f]
           L == Len(st)
<1>1. /\ L \in Nat \ {0} /\ su \in Seq(FrameType) /\ Len(su) = L
      /\ su[L] = f /\ \A d \in 1 .. L : d # L => su[d] = st[d]
  OBVIOUS
<1> HIDE DEF su
<1>2. \A d \in 1 .. L : d < L => su[d].at \in Waiting
  BY <1>1 DEF ThreadOk
<1>3. \A d \in 1 .. L : FrameOk(su[d], t, b, n, q)
  BY <1>1
<1>4. /\ \A d, e \in 1 .. L : su[d].at \in Rendering /\ su[e].at \in Rendering => d = e
      /\ b = TRUE => \E d \in 1 .. L : su[d].at \in Rendering
  <2>1. /\ \A d, e \in 1 .. L : st[d].at \in Rendering /\ st[e].at \in Rendering => d = e
        /\ a = TRUE => \E d \in 1 .. L : st[d].at \in Rendering
        /\ \A d \in 1 .. L : st[d].at \in Rendering => a = TRUE
    BY DEF ThreadOk, FrameOk
  <2>2. L \in 1 .. L
    BY <1>1
  <2>3. CASE b = a /\ (f.at \in Rendering <=> st[L].at \in Rendering)
    <3>1. \A d \in 1 .. L : su[d].at \in Rendering <=> st[d].at \in Rendering
      BY <1>1, <2>3
    <3> QED BY <2>1, <2>3, <3>1
  <2>4. CASE a = FALSE /\ b = TRUE /\ f.at \in Rendering
    <3>1. \A d \in 1 .. L : su[d].at \in Rendering => d = L
      BY <1>1, <2>1, <2>4
    <3> QED BY <1>1, <2>2, <2>4, <3>1
  <2>5. CASE st[L].at \in Rendering /\ b = FALSE /\ f.at \notin Rendering
    <3>1. \A d \in 1 .. L : su[d].at \notin Rendering
      BY <1>1, <2>1, <2>2, <2>5
    <3> QED BY <2>5, <3>1
  <2> QED BY <2>3, <2>4, <2>5 DEF GuardMoves
<1>5. BaseOk(su[1])
  <2>1. CASE L = 1
    BY <1>1, <2>1
  <2>2. CASE L # 1
    BY <1>1, <2>2 DEF ThreadOk
  <2> QED BY <2>1, <2>2
<1>6. ThreadOk(su, t, b, n, q)
  BY <1>1, <1>2, <1>3, <1>4, <1>5 DEF ThreadOk
<1> QED
  BY <1>1, <1>6 DEF su

\* A routine is called: its frame is in the probe, its caller waits.
LEMMA Push ==
  ASSUME NEW t, NEW st \in Seq(FrameType), NEW a \in BOOLEAN, NEW m, NEW r,
         ThreadOk(st, t, a, m, r), NEW g \in FrameType, g.at = "probe",
         st # << >> => st[Len(st)].at \in Waiting,
         st = << >> => BaseOk(g)
  PROVE  /\ st \o <<g>> \in Seq(FrameType)
         /\ ThreadOk(st \o <<g>>, t, a, m, r)
<1> DEFINE su == st \o <<g>>
           L == Len(st)
<1>1. /\ L \in Nat /\ su \in Seq(FrameType) /\ Len(su) = L + 1
      /\ su[L + 1] = g /\ \A d \in 1 .. L : su[d] = st[d]
  OBVIOUS
<1> HIDE DEF su
<1>2. /\ FrameOk(g, t, a, m, r) /\ g.at \notin Rendering
  BY DEF FrameOk, Rendering
<1>3. \A d \in 1 .. Len(su) : d \in 1 .. L \/ d = L + 1
  BY <1>1
<1>4. \A d \in 1 .. Len(su) : d < Len(su) => su[d].at \in Waiting
  <2> SUFFICES ASSUME NEW d \in 1 .. L PROVE st[d].at \in Waiting
    BY <1>1, <1>3
  <2>1. CASE d < L
    BY <2>1 DEF ThreadOk
  <2>2. CASE d = L
    BY <1>1, <2>2
  <2> QED BY <1>1, <2>1, <2>2
<1>5. \A d \in 1 .. Len(su) : FrameOk(su[d], t, a, m, r)
  BY <1>1, <1>2, <1>3 DEF ThreadOk
<1>6. /\ \A d, e \in 1 .. Len(su) : su[d].at \in Rendering /\ su[e].at \in Rendering => d = e
      /\ a = TRUE => \E d \in 1 .. Len(su) : su[d].at \in Rendering
  <2>1. \A d \in 1 .. Len(su) : su[d].at \in Rendering => d \in 1 .. L /\ su[d] = st[d]
    BY <1>1, <1>2, <1>3
  <2>2. /\ \A d, e \in 1 .. L : st[d].at \in Rendering /\ st[e].at \in Rendering => d = e
        /\ a = TRUE => \E d \in 1 .. L : st[d].at \in Rendering
    BY DEF ThreadOk
  <2>3. \A d \in 1 .. L : d \in 1 .. Len(su)
    BY <1>1
  <2> QED BY <1>1, <2>1, <2>2, <2>3
<1>7. BaseOk(su[1])
  <2>1. CASE L = 0
    BY <1>1, <2>1
  <2>2. CASE L # 0
    BY <1>1, <2>2 DEF ThreadOk
  <2> QED BY <2>1, <2>2
<1>8. ThreadOk(su, t, a, m, r)
  BY <1>4, <1>5, <1>6, <1>7 DEF ThreadOk
<1> QED
  BY <1>1, <1>8 DEF su

\* All but the last element of a sequence.
LEMMA Front ==
  ASSUME NEW S, NEW st \in Seq(S), st # << >>
  PROVE  /\ Len(st) \in Nat \ {0}
         /\ SubSeq(st, 1, Len(st) - 1) \in Seq(S)
         /\ Len(SubSeq(st, 1, Len(st) - 1)) = Len(st) - 1
         /\ \A d \in 1 .. Len(st) - 1 :
              SubSeq(st, 1, Len(st) - 1)[d] = st[d] /\ d \in 1 .. Len(st)
<1> DEFINE su == SubSeq(st, 1, Len(st) - 1)
           L == Len(st)
<1>1. L \in Nat \ {0} /\ \A d \in 1 .. L : st[d] \in S
  BY ElementOfSeq
<1>2. 1 \in Int /\ L - 1 \in Int /\ \A d \in 1 .. L - 1 : st[d] \in S
  BY <1>1
<1>3. /\ su \in Seq(S) /\ Len(su) = IF 1 <= L - 1 THEN L - 1 - 1 + 1 ELSE 0
      /\ \A d \in 1 .. L - 1 - 1 + 1 : su[d] = st[1 + d - 1]
  BY <1>2, SubSeqProperties
<1> HIDE DEF su, L
<1>4. Len(su) = L - 1 /\ L - 1 - 1 + 1 = L - 1 /\ \A d \in 1 .. L - 1 : 1 + d - 1 = d
  BY <1>1, <1>3
<1>5. \A d \in 1 .. L - 1 : su[d] = st[d] /\ d \in 1 .. L
  BY <1>1, <1>3, <1>4
<1> QED
  BY <1>1, <1>3, <1>4, <1>5 DEF su, L

\* A routine that is not in a self-render returns.
LEMMA Pop ==
  ASSUME NEW t, NEW st \in Seq(FrameType), st # << >>, NEW a \in BOOLEAN, NEW m, NEW r,
         ThreadOk(st, t, a, m, r), st[Len(st)].at \notin Rendering
  PROVE  /\ SubSeq(st, 1, Len(st) - 1) \in Seq(FrameType)
         /\ ThreadOk(SubSeq(st, 1, Len(st) - 1), t, a, m, r)
<1> DEFINE su == SubSeq(st, 1, Len(st) - 1)
           L == Len(st)
<1>1. /\ L \in Nat \ {0} /\ su \in Seq(FrameType) /\ Len(su) = L - 1
      /\ \A d \in 1 .. L - 1 : su[d] = st[d] /\ d \in 1 .. L
  BY Front
<1> HIDE DEF su
<1>2. /\ \A d \in 1 .. Len(su) : d < Len(su) => su[d].at \in Waiting
      /\ \A d \in 1 .. Len(su) : FrameOk(su[d], t, a, m, r)
      /\ \A d, e \in 1 .. Len(su) : su[d].at \in Rendering /\ su[e].at \in Rendering => d = e
  BY <1>1 DEF ThreadOk
<1>3. a = TRUE => \E d \in 1 .. Len(su) : su[d].at \in Rendering
  <2> SUFFICES ASSUME a = TRUE PROVE \E d \in 1 .. L - 1 : su[d].at \in Rendering
    BY <1>1
  <2>1. PICK d \in 1 .. L : st[d].at \in Rendering
    BY DEF ThreadOk
  <2>2. d \in 1 .. L - 1
    BY <1>1, <2>1
  <2> QED BY <1>1, <2>1, <2>2
<1>4. Len(su) >= 1 => BaseOk(su[1])
  BY <1>1 DEF ThreadOk
<1>5. ThreadOk(su, t, a, m, r)
  BY <1>2, <1>3, <1>4 DEF ThreadOk
<1> QED
  BY <1>1, <1>5 DEF su

\* A frame the hook has just entered.
LEMMA NewFrame ==
  ASSUME NEW k \in Routine
  PROVE  /\ Frame(k) \in FrameType /\ Frame(k).at = "probe"
         /\ k \in Text => BaseOk(Frame(k))
<1>1. (CHOOSE s \in Slot : TRUE) \in Slot
  BY SlotAssumption
<1> QED
  BY <1>1, GlyphsAssumption, TextAssumption DEF Frame, FrameType, BaseOk, Routine

-----------------------------------------------------------------------------
(* Steps of one thread *)

\* What a step of t that leaves the rest of the state in order has to show.
LEMMA Combine ==
  ASSUME IInv, NEW t \in Thread,
         NEW st \in Seq(FrameType), stack' = [stack EXCEPT ![t] = st],
         ThreadOk(st, t, active'[t], slotm', ready'),
         active' \in [Thread -> BOOLEAN], \A u \in Thread : u # t => active'[u] = active[u],
         armed' \in BOOLEAN, strinv' \in Thread \union {"free"},
         slotm' \in Thread \union {"free"},
         ready' \in [Slot -> BOOLEAN], metrics' \in [Slot -> {0, 2, Glyphs}],
         DOMAIN measured' = Slot,
         \A s \in Slot : ready'[s] => metrics'[s] \in {2, Glyphs},
         \A u \in Thread : u # t => ThreadOk(stack[u], u, active[u], slotm', ready')
  PROVE  IInv'
<1>1. stack' \in [Thread -> Seq(FrameType)]
  BY DEF IInv
<1>2. \A u \in Thread : ThreadOk(stack'[u], u, active'[u], slotm', ready')
  BY DEF IInv
<1>3. \A u \in Thread : \A d \in 1 .. Len(stack'[u]) : stack'[u][d] \in FrameType
  BY <1>1, ElementOfSeq
<1>4. TypeOK'
  BY <1>3 DEF TypeOK, Depth, FrameType
<1> QED
  BY <1>1, <1>2, <1>4 DEF IInv

\* A thread keeps its frames in order when the mutex passes between others or
\* is released, and slots become ready that it is not measuring.
LEMMA Bystander ==
  ASSUME NEW u, NEW st \in Seq(FrameType), NEW a \in BOOLEAN, NEW m, NEW n, NEW r, NEW q,
         ThreadOk(st, u, a, m, r),
         m # u /\ \A s \in Slot : r[s] = TRUE => q[s] = TRUE
  PROVE  ThreadOk(st, u, a, n, q)
<1>1. ASSUME NEW d \in 1 .. Len(st)
      PROVE  FrameOk(st[d], u, a, n, q)
  <2>1. st[d] \in FrameType
    BY ElementOfSeq
  <2>2. st[d].s \in Slot
    BY <2>1 DEF FrameType
  <2> QED BY <2>2 DEF ThreadOk, FrameOk
<1> QED
  BY <1>1 DEF ThreadOk

\* A step of the innermost routine alone.
LEMMA Quiet ==
  ASSUME IInv, NEW t \in Thread, stack[t] # << >>, NEW f \in FrameType, Becomes(t, f),
         FrameOk(f, t, active[t], slotm, ready), Depth(t) = 1 => BaseOk(f),
         f.at \in Rendering <=> Top(t).at \in Rendering,
         armed' \in BOOLEAN, strinv' \in Thread \union {"free"},
         UNCHANGED <<active, slotm, metricVars>>
  PROVE  IInv'
<1> DEFINE st == stack[t]
           su == [st EXCEPT ![Len(st)] = f]
<1>1. /\ st \in Seq(FrameType) /\ active[t] \in BOOLEAN
      /\ \A u \in Thread : ThreadOk(stack[u], u, active[u], slotm, ready)
  BY DEF IInv, TypeOK
<1>2. GuardMoves(st[Len(st)], f, active[t], active[t])
  BY DEF GuardMoves, Top, Depth
<1>3. \A d \in 1 .. Len(st) : FrameOk(st[d], t, active[t], slotm, ready)
  BY <1>1 DEF ThreadOk
<1>4. su \in Seq(FrameType) /\ ThreadOk(su, t, active[t], slotm, ready)
  BY <1>1, <1>2, <1>3, ReplaceTop DEF Depth
<1>5. stack' = [stack EXCEPT ![t] = su]
  BY DEF Becomes, Depth
<1> HIDE DEF su
<1> QED
  BY <1>1, <1>4, <1>5, Combine DEF IInv, TypeOK, metricVars

\* The innermost routine, after a step of its own to f, calls a routine.
LEMMA CallStep ==
  ASSUME IInv, NEW t \in Thread, stack[t] # << >>, NEW f \in FrameType, NEW g \in FrameType,
         stack' = [stack EXCEPT ![t] = [stack[t] EXCEPT ![Depth(t)] = f] \o <<g>>],
         FrameOk(f, t, active[t], slotm, ready), Depth(t) = 1 => BaseOk(f),
         f.at \in Rendering <=> Top(t).at \in Rendering,
         f.at \in Waiting, g.at = "probe",
         UNCHANGED <<active, armed, strinv, slotm, metricVars>>
  PROVE  IInv'
<1> DEFINE st == stack[t]
           su == [st EXCEPT ![Len(st)] = f]
<1>1. /\ st \in Seq(FrameType) /\ active[t] \in BOOLEAN
      /\ \A u \in Thread : ThreadOk(stack[u], u, active[u], slotm, ready)
  BY DEF IInv, TypeOK
<1>2. GuardMoves(st[Len(st)], f, active[t], active[t])
  BY DEF GuardMoves, Top, Depth
<1>3. \A d \in 1 .. Len(st) : FrameOk(st[d], t, active[t], slotm, ready)
  BY <1>1 DEF ThreadOk
<1>4. su \in Seq(FrameType) /\ ThreadOk(su, t, active[t], slotm, ready)
  BY <1>1, <1>2, <1>3, ReplaceTop DEF Depth
<1>5. su # << >> /\ su[Len(su)] = f
  BY <1>1
<1>6. stack' = [stack EXCEPT ![t] = su \o <<g>>]
  BY DEF Depth
<1> HIDE DEF su
<1>7. su \o <<g>> \in Seq(FrameType) /\ ThreadOk(su \o <<g>>, t, active[t], slotm, ready)
  BY <1>1, <1>4, <1>5, Push
<1> QED
  BY <1>1, <1>6, <1>7, Combine DEF IInv, TypeOK, metricVars

-----------------------------------------------------------------------------
(* The actions *)

\* What the invariant says of the innermost routine of a thread.
LEMMA TopFacts ==
  ASSUME IInv, NEW t \in Thread, stack[t] # << >>
  PROVE  /\ Top(t) \in FrameType /\ FrameOk(Top(t), t, active[t], slotm, ready)
         /\ Depth(t) = 1 => BaseOk(Top(t))
         /\ Depth(t) \in Nat \ {0} /\ stack[t] \in Seq(FrameType)
<1>1. stack[t] \in Seq(FrameType) /\ ThreadOk(stack[t], t, active[t], slotm, ready)
  BY DEF IInv
<1>2. Depth(t) \in Nat \ {0}
  BY <1>1 DEF Depth
<1>3. Depth(t) \in 1 .. Len(stack[t])
  BY <1>2 DEF Depth
<1>4. Top(t) \in FrameType
  BY <1>1, <1>3, ElementOfSeq DEF Top
<1> QED
  BY <1>1, <1>2, <1>3, <1>4 DEF ThreadOk, Top, Depth

\* The initial state satisfies the inductive invariant.
LEMMA InitIInv == Init => IInv
<1> SUFFICES ASSUME Init PROVE IInv
  OBVIOUS
<1>2. \A t \in Thread : stack[t] = << >> /\ active[t] = FALSE /\ 1 .. Depth(t) = {}
  BY DEF Init, Depth
<1>1. TypeOK
  <2>1. active \in [Thread -> BOOLEAN] /\ armed \in BOOLEAN /\ ready \in [Slot -> BOOLEAN]
    BY DEF Init
  <2>2. metrics \in [Slot -> {0, 2, Glyphs}] /\ strinv = "free" /\ slotm = "free"
    BY DEF Init
  <2> QED BY <1>2, <2>1, <2>2 DEF TypeOK
<1>3. \A t \in Thread : ThreadOk(stack[t], t, active[t], slotm, ready)
  BY <1>2 DEF ThreadOk
<1>4. stack \in [Thread -> Seq(FrameType)] /\ DOMAIN measured = Slot
  BY DEF Init
<1>5. \A s \in Slot : ready[s] = FALSE
  BY DEF Init
<1> QED
  BY <1>1, <1>3, <1>4, <1>5 DEF IInv

\* The table is loaded or emptied.
LEMMA ArmStep == ASSUME IInv, Arm PROVE IInv'
BY DEF IInv, Arm, TypeOK, ThreadOk, metricVars, Depth

\* The game enters a text routine.
LEMMA EnterStep == ASSUME IInv, NEW t \in Thread, Call(t) PROVE IInv'
<1>1. PICK k \in Text : stack' = [stack EXCEPT ![t] = <<Frame(k)>>]
  BY DEF Call
<1>2. k \in Routine
  BY TextAssumption DEF Routine
<1>3. Frame(k) \in FrameType /\ Frame(k).at = "probe" /\ BaseOk(Frame(k))
  BY <1>2, NewFrame
<1>4. << >> \o <<Frame(k)>> = <<Frame(k)>>
  BY <1>3
<1>5. /\ stack[t] = << >> /\ stack[t] \in Seq(FrameType) /\ active[t] \in BOOLEAN
      /\ \A u \in Thread : ThreadOk(stack[u], u, active[u], slotm, ready)
  BY DEF Call, IInv, TypeOK
<1>6. <<Frame(k)>> \in Seq(FrameType) /\ ThreadOk(<<Frame(k)>>, t, active[t], slotm, ready)
  <2> DEFINE g == Frame(k)
  <2>1. /\ << >> \in Seq(FrameType) /\ ThreadOk(<< >>, t, active[t], slotm, ready)
        /\ g \in FrameType /\ g.at = "probe" /\ BaseOk(g)
    BY <1>3, <1>5
  <2> HIDE DEF g
  <2>2. << >> \o <<g>> \in Seq(FrameType) /\ ThreadOk(<< >> \o <<g>>, t, active[t], slotm, ready)
    BY <1>5, <2>1, Push
  <2> QED BY <1>4, <2>2 DEF g
<1> QED
  BY <1>1, <1>5, <1>6, Combine DEF IInv, TypeOK, Call, metricVars

\* The probe, with the string and without.
LEMMA ProbeStep ==
  ASSUME IInv, NEW t \in Thread, ProbeLock(t) \/ ProbeUnlock(t) \/ ProbeNoText(t)
  PROVE  IInv'
<1>1. stack[t] # << >> /\ Top(t).at \in {"probe", "record"}
  BY DEF ProbeLock, ProbeUnlock, ProbeNoText, In
<1>2. PICK l \in {"record", "hook"} : Goto(t, l)
  BY DEF ProbeLock, ProbeUnlock, ProbeNoText
<1> DEFINE f == [Top(t) EXCEPT !.at = l]
<1>3. /\ Top(t) \in FrameType /\ FrameOk(Top(t), t, active[t], slotm, ready)
      /\ Depth(t) = 1 => BaseOk(Top(t))
  BY <1>1, TopFacts
<1>4. f \in FrameType /\ f.at = l /\ f.kind = Top(t).kind /\ f.eng = Top(t).eng /\ f.r6 = Top(t).r6
  BY <1>3 DEF FrameType
<1>5. Becomes(t, f)
  BY <1>2 DEF Goto
<1> HIDE DEF f
<1>6. FrameOk(f, t, active[t], slotm, ready)
  BY <1>4 DEF FrameOk, Rendering
<1>7. Depth(t) = 1 => BaseOk(f)
  BY <1>1, <1>3, <1>4 DEF BaseOk
<1>8. f.at \in Rendering <=> Top(t).at \in Rendering
  BY <1>1, <1>4 DEF Rendering
<1>9. /\ armed' \in BOOLEAN /\ strinv' \in Thread \union {"free"}
      /\ UNCHANGED <<active, slotm, metricVars>>
  BY DEF ProbeLock, ProbeUnlock, ProbeNoText, IInv, TypeOK
<1> QED
  BY <1>1, <1>4, <1>5, <1>6, <1>7, <1>8, <1>9, Quiet

\* The hook, and what it finds but does not draw itself.
LEMMA HookStepKeeps ==
  ASSUME IInv, NEW t \in Thread, Hook(t) \/ Miss(t) \/ Swap(t)
  PROVE  IInv'
<1>1. stack[t] # << >> /\ Top(t).at \in {"hook", "find"}
  BY DEF Hook, Miss, Swap, In
<1>2. /\ Top(t) \in FrameType /\ FrameOk(Top(t), t, active[t], slotm, ready)
      /\ Depth(t) = 1 => BaseOk(Top(t))
      /\ active[t] \in BOOLEAN
  BY <1>1, TopFacts DEF IInv, TypeOK
<1>3. PICK f \in FrameType :
        /\ Becomes(t, f) /\ f.kind = Top(t).kind /\ f.eng = Top(t).eng
        /\ f.at = "body" \/ (f.at = "find" /\ ~ active[t])
        /\ f.r6 = Top(t).r6 \/ (f.r6 = "en" /\ f.at = "body")
  <2>1. CASE Hook(t)
    <3> DEFINE l == IF ~ active[t] /\ armed THEN "find" ELSE "body"
    <3>1. /\ [Top(t) EXCEPT !.at = l] \in FrameType
          /\ l = "body" \/ (l = "find" /\ ~ active[t])
      BY <1>2 DEF FrameType
    <3>2. Becomes(t, [Top(t) EXCEPT !.at = l])
      BY <2>1 DEF Hook, Goto
    <3> HIDE DEF l
    <3>3. /\ [Top(t) EXCEPT !.at = l].at = l /\ [Top(t) EXCEPT !.at = l].r6 = Top(t).r6
          /\ [Top(t) EXCEPT !.at = l].kind = Top(t).kind
          /\ [Top(t) EXCEPT !.at = l].eng = Top(t).eng
      BY <1>2 DEF FrameType
    <3> QED BY <3>1, <3>2, <3>3
  <2>2. CASE Miss(t)
    BY <1>2, <2>2 DEF FrameType, Miss, Goto
  <2>3. CASE Swap(t)
    <3> DEFINE f == [Top(t) EXCEPT !.at = "body", !.r6 = "en"]
    <3>1. Becomes(t, f)
      BY <2>3 DEF Swap
    <3>2. /\ f \in FrameType /\ f.kind = Top(t).kind /\ f.eng = Top(t).eng
          /\ f.at = "body" /\ f.r6 = "en"
      BY <1>2 DEF FrameType
    <3> QED BY <3>1, <3>2
  <2> QED BY <2>1, <2>2, <2>3
<1>4. FrameOk(f, t, active[t], slotm, ready)
  BY <1>2, <1>3 DEF FrameOk, Rendering
<1>5. Depth(t) = 1 => BaseOk(f)
  BY <1>1, <1>2, <1>3 DEF BaseOk
<1>6. f.at \in Rendering <=> Top(t).at \in Rendering
  BY <1>1, <1>3 DEF Rendering
<1>7. /\ armed' \in BOOLEAN /\ strinv' \in Thread \union {"free"}
      /\ UNCHANGED <<active, slotm, metricVars>>
  BY DEF Hook, Miss, Swap, IInv, TypeOK
<1> QED
  BY <1>1, <1>3, <1>4, <1>5, <1>6, <1>7, Quiet

\* The innermost routine of t goes on as f and moves the guard or the mutex.
LEMMA Settle ==
  ASSUME IInv, NEW t \in Thread, stack[t] # << >>, NEW f \in FrameType, Becomes(t, f),
         FrameOk(f, t, active'[t], slotm', ready'), Depth(t) = 1 => BaseOk(f),
         GuardMoves(Top(t), f, active[t], active'[t]),
         \A d \in 1 .. Depth(t) :
           d # Depth(t) => FrameOk(stack[t][d], t, active'[t], slotm', ready'),
         active' \in [Thread -> BOOLEAN], \A u \in Thread : u # t => active'[u] = active[u],
         UNCHANGED <<armed, strinv>>, slotm' \in Thread \union {"free"},
         ready' \in [Slot -> BOOLEAN], metrics' \in [Slot -> {0, 2, Glyphs}],
         DOMAIN measured' = Slot,
         \A s \in Slot : ready'[s] => metrics'[s] \in {2, Glyphs},
         \A u \in Thread : u # t => ThreadOk(stack[u], u, active[u], slotm', ready')
  PROVE  IInv'
<1> DEFINE st == stack[t]
           su == [st EXCEPT ![Len(st)] = f]
<1>1. /\ st \in Seq(FrameType) /\ active[t] \in BOOLEAN /\ active'[t] \in BOOLEAN
      /\ ThreadOk(stack[t], t, active[t], slotm, ready)
  BY DEF IInv, TypeOK
<1>2. su \in Seq(FrameType) /\ ThreadOk(su, t, active'[t], slotm', ready')
  BY <1>1, ReplaceTop DEF Depth, Top
<1>3. stack' = [stack EXCEPT ![t] = su]
  BY DEF Becomes, Depth
<1>4. armed' \in BOOLEAN /\ strinv' \in Thread \union {"free"}
  BY DEF IInv, TypeOK
<1> HIDE DEF su
<1> QED
  BY <1>2, <1>3, <1>4, Combine

\* The frames of t behind the innermost one.
LEMMA Behind ==
  ASSUME IInv, NEW t \in Thread, stack[t] # << >>
  PROVE  \A d \in 1 .. Depth(t) : d # Depth(t) =>
           /\ FrameOk(stack[t][d], t, active[t], slotm, ready)
           /\ stack[t][d].at \in Waiting
           /\ Top(t).at \in Rendering => stack[t][d].at \notin Rendering
<1>1. ThreadOk(stack[t], t, active[t], slotm, ready) /\ Depth(t) \in Nat \ {0}
  BY TopFacts DEF IInv
<1>2. Depth(t) \in 1 .. Depth(t)
  BY <1>1
<1> QED
  BY <1>1, <1>2 DEF ThreadOk, Depth, Top

\* A self-render begins.
LEMMA RenderKeeps == ASSUME IInv, NEW t \in Thread, Render(t) PROVE IInv'
<1>1. stack[t] # << >> /\ Top(t).at = "find" /\ Top(t).r6 = "jp"
  BY DEF Render, In
<1>2. /\ Top(t) \in FrameType /\ FrameOk(Top(t), t, active[t], slotm, ready)
      /\ Depth(t) = 1 => BaseOk(Top(t))
  BY <1>1, TopFacts
<1>3. active[t] = FALSE
  BY <1>1, <1>2 DEF FrameOk
<1>4. PICK s \in Slot : Becomes(t, [Top(t) EXCEPT !.at = "calibrate", !.s = s, !.prev = active[t]])
  BY DEF Render
<1> DEFINE f == [Top(t) EXCEPT !.at = "calibrate", !.s = s, !.prev = active[t]]
<1>5. /\ f \in FrameType /\ f.at = "calibrate" /\ f.prev = FALSE
      /\ f.kind = Top(t).kind /\ f.eng = Top(t).eng /\ f.r6 = Top(t).r6
  BY <1>2, <1>3 DEF FrameType, Rendering
<1> HIDE DEF f
<1>6. /\ active' \in [Thread -> BOOLEAN] /\ active'[t] = TRUE
      /\ \A u \in Thread : u # t => active'[u] = active[u]
      /\ UNCHANGED <<armed, strinv, slotm, metricVars>>
  BY DEF Render, IInv, TypeOK
<1>7. FrameOk(f, t, active'[t], slotm', ready') /\ GuardMoves(Top(t), f, active[t], active'[t])
  BY <1>3, <1>5, <1>6 DEF FrameOk, GuardMoves, Rendering
<1>8. Depth(t) = 1 => BaseOk(f)
  BY <1>1, <1>2, <1>5 DEF BaseOk
<1>9. \A d \in 1 .. Depth(t) :
        d # Depth(t) => FrameOk(stack[t][d], t, active'[t], slotm', ready')
  <2> SUFFICES ASSUME NEW d \in 1 .. Depth(t), d # Depth(t)
               PROVE  FrameOk(stack[t][d], t, TRUE, slotm, ready)
    BY <1>6 DEF metricVars
  <2>1. /\ FrameOk(stack[t][d], t, FALSE, slotm, ready)
        /\ stack[t][d].at \in Waiting
    BY <1>1, <1>3, Behind
  <2> QED BY <2>1 DEF FrameOk, Waiting
<1>10. /\ slotm' \in Thread \union {"free"} /\ DOMAIN measured' = Slot
       /\ ready' \in [Slot -> BOOLEAN] /\ metrics' \in [Slot -> {0, 2, Glyphs}]
       /\ \A x \in Slot : ready'[x] => metrics'[x] \in {2, Glyphs}
       /\ \A u \in Thread : u # t => ThreadOk(stack[u], u, active[u], slotm', ready')
  BY <1>6 DEF IInv, TypeOK, metricVars
<1>11. Becomes(t, f) /\ UNCHANGED <<armed, strinv>>
  BY <1>4, <1>6 DEF f
<1> QED
  BY <1>1, <1>5, <1>6, <1>7, <1>8, <1>9, <1>10, <1>11, Settle

\* The fast path, and the render's own reading of ready.
LEMMA ReadStep ==
  ASSUME IInv, NEW t \in Thread, Calibrate(t) \/ Advances(t)
  PROVE  IInv'
<1>1. stack[t] # << >> /\ Top(t).at \in {"calibrate", "advances"}
  BY DEF Calibrate, Advances, In
<1>2. /\ Top(t) \in FrameType /\ FrameOk(Top(t), t, active[t], slotm, ready)
      /\ Depth(t) = 1 => BaseOk(Top(t))
      /\ ready \in [Slot -> BOOLEAN]
  BY <1>1, TopFacts DEF IInv, TypeOK
<1>3. PICK f \in FrameType :
        /\ Becomes(t, f) /\ f.kind = Top(t).kind /\ f.eng = Top(t).eng /\ f.r6 = Top(t).r6
        /\ f.prev = Top(t).prev /\ f.at \in {"advances", "lock", "glyphs"}
        /\ f.at = "glyphs" => f.rdy = ready[f.s]
  <2>1. CASE Calibrate(t)
    <3> DEFINE l == IF ready[Top(t).s] THEN "advances" ELSE "lock"
               f == [Top(t) EXCEPT !.at = l]
    <3>1. Becomes(t, f)
      BY <2>1 DEF Calibrate, Goto
    <3>2. l \in {"advances", "lock"}
      OBVIOUS
    <3> HIDE DEF l
    <3>3. /\ f \in FrameType /\ f.kind = Top(t).kind /\ f.eng = Top(t).eng
          /\ f.r6 = Top(t).r6 /\ f.prev = Top(t).prev /\ f.at = l
      BY <1>2, <3>2 DEF FrameType, Rendering
    <3> QED BY <3>1, <3>2, <3>3
  <2>2. CASE Advances(t)
    <3> DEFINE f == [Top(t) EXCEPT !.at = "glyphs", !.n = 0, !.rdy = ready[Top(t).s]]
    <3>1. Becomes(t, f)
      BY <2>2 DEF Advances
    <3>2. /\ Top(t).s \in Slot /\ 0 \in 0 .. Glyphs
      BY <1>2, GlyphsAssumption DEF FrameType
    <3>3. /\ f \in FrameType /\ f.kind = Top(t).kind /\ f.eng = Top(t).eng
          /\ f.r6 = Top(t).r6 /\ f.prev = Top(t).prev /\ f.at = "glyphs"
          /\ f.s = Top(t).s /\ f.rdy = ready[Top(t).s]
      BY <1>2, <3>2 DEF FrameType, Rendering
    <3> QED BY <3>1, <3>3
  <2> QED BY <1>1, <2>1, <2>2
<1>4. FrameOk(f, t, active[t], slotm, ready)
  BY <1>1, <1>2, <1>3 DEF FrameOk, Rendering
<1>5. Depth(t) = 1 => BaseOk(f)
  BY <1>1, <1>2, <1>3 DEF BaseOk
<1>6. f.at \in Rendering <=> Top(t).at \in Rendering
  BY <1>1, <1>3 DEF Rendering
<1>7. /\ armed' \in BOOLEAN /\ strinv' \in Thread \union {"free"}
      /\ UNCHANGED <<active, slotm, metricVars>>
  BY DEF Calibrate, Advances, IInv, TypeOK
<1> QED
  BY <1>1, <1>3, <1>4, <1>5, <1>6, <1>7, Quiet

\* g_slotm_mtx is obtained: the slot has been measured, or its sheet is not in
\* memory, or t measures it.
LEMMA LockKeeps == ASSUME IInv, NEW t \in Thread, Lock(t) PROVE IInv'
<1>1. stack[t] # << >> /\ Top(t).at = "lock" /\ slotm = "free"
  BY DEF Lock, In
<1>2. /\ Top(t) \in FrameType /\ FrameOk(Top(t), t, active[t], slotm, ready)
      /\ Depth(t) = 1 => BaseOk(Top(t))
      /\ ready \in [Slot -> BOOLEAN] /\ Top(t).s \in Slot
  BY <1>1, TopFacts DEF IInv, TypeOK, FrameType
<1>3. CASE Goto(t, "advances") /\ UNCHANGED slotm
  <2> DEFINE f == [Top(t) EXCEPT !.at = "advances"]
  <2>1. Becomes(t, f)
    BY <1>3 DEF Goto
  <2>2. /\ f \in FrameType /\ f.kind = Top(t).kind /\ f.eng = Top(t).eng
        /\ f.r6 = Top(t).r6 /\ f.prev = Top(t).prev /\ f.at = "advances"
    BY <1>2 DEF FrameType, Rendering
  <2> HIDE DEF f
  <2>3. /\ FrameOk(f, t, active[t], slotm, ready)
        /\ f.at \in Rendering <=> Top(t).at \in Rendering
    BY <1>1, <1>2, <2>2 DEF FrameOk, Rendering
  <2>4. Depth(t) = 1 => BaseOk(f)
    BY <1>1, <1>2, <2>2 DEF BaseOk
  <2>5. /\ armed' \in BOOLEAN /\ strinv' \in Thread \union {"free"}
        /\ UNCHANGED <<active, slotm, metricVars>>
    BY <1>3 DEF Lock, IInv, TypeOK
  <2> QED BY <1>1, <2>1, <2>2, <2>3, <2>4, <2>5, Quiet
<1>4. CASE /\ ~ ready[Top(t).s] /\ slotm' = t
           /\ Becomes(t, [Top(t) EXCEPT !.at = "measure", !.n = 0])
  <2> DEFINE f == [Top(t) EXCEPT !.at = "measure", !.n = 0]
  <2>1. 0 \in 0 .. Glyphs
    BY GlyphsAssumption
  <2>2. /\ f \in FrameType /\ f.kind = Top(t).kind /\ f.eng = Top(t).eng
        /\ f.r6 = Top(t).r6 /\ f.prev = Top(t).prev /\ f.at = "measure" /\ f.s = Top(t).s
    BY <1>2, <2>1 DEF FrameType, Rendering
  <2>3. Becomes(t, f)
    BY <1>4
  <2> HIDE DEF f
  <2>4. UNCHANGED <<active, armed, strinv, ready, metrics, measured>>
    BY DEF Lock, metricVars
  <2>5. /\ FrameOk(f, t, active'[t], slotm', ready')
        /\ GuardMoves(Top(t), f, active[t], active'[t])
    BY <1>1, <1>2, <1>4, <2>2, <2>4 DEF FrameOk, GuardMoves, Rendering
  <2>6. Depth(t) = 1 => BaseOk(f)
    BY <1>1, <1>2, <2>2 DEF BaseOk
  <2>7. t # "free"
    BY SlotAssumption
  <2>8. \A d \in 1 .. Depth(t) :
          d # Depth(t) => FrameOk(stack[t][d], t, active'[t], slotm', ready')
    BY <1>1, <2>4, <2>7, Behind DEF FrameOk
  <2>9. \A u \in Thread : u # t => ThreadOk(stack[u], u, active[u], slotm', ready')
    <3> SUFFICES ASSUME NEW u \in Thread PROVE ThreadOk(stack[u], u, active[u], slotm', ready)
      BY <2>4
    <3>1. /\ stack[u] \in Seq(FrameType) /\ active[u] \in BOOLEAN /\ slotm # u
          /\ ThreadOk(stack[u], u, active[u], slotm, ready)
      BY <1>1, SlotAssumption DEF IInv, TypeOK
    <3> QED BY <3>1, Bystander
  <2>10. /\ active' \in [Thread -> BOOLEAN] /\ \A u \in Thread : u # t => active'[u] = active[u]
         /\ slotm' \in Thread \union {"free"} /\ DOMAIN measured' = Slot
         /\ ready' \in [Slot -> BOOLEAN] /\ metrics' \in [Slot -> {0, 2, Glyphs}]
         /\ \A s \in Slot : ready'[s] => metrics'[s] \in {2, Glyphs}
    BY <1>4, <2>4 DEF IInv, TypeOK
  <2> QED BY <1>1, <2>2, <2>3, <2>4, <2>5, <2>6, <2>8, <2>9, <2>10, Settle
<1> QED
  BY <1>3, <1>4 DEF Lock

\* The slot measured becomes ready and the mutex free.
LEMMA StoreKeeps == ASSUME IInv, NEW t \in Thread, Store(t) PROVE IInv'
<1> DEFINE x == Top(t).s
           f == [Top(t) EXCEPT !.at = "advances"]
<1>1. stack[t] # << >> /\ Top(t).at = "measure" /\ Top(t).n \in {2, Glyphs}
  BY DEF Store, In
<1>2. /\ Top(t) \in FrameType /\ FrameOk(Top(t), t, active[t], slotm, ready)
      /\ Depth(t) = 1 => BaseOk(Top(t))
      /\ ready \in [Slot -> BOOLEAN] /\ x \in Slot
  BY <1>1, TopFacts DEF IInv, TypeOK, FrameType
<1>3. /\ f \in FrameType /\ f.kind = Top(t).kind /\ f.eng = Top(t).eng
      /\ f.r6 = Top(t).r6 /\ f.prev = Top(t).prev /\ f.at = "advances"
  BY <1>2 DEF FrameType, Rendering
<1>4. /\ metrics' = [metrics EXCEPT ![x] = Top(t).n]
      /\ measured' = [measured EXCEPT ![x] = @ + 1]
      /\ ready' = [ready EXCEPT ![x] = TRUE] /\ slotm' = "free"
      /\ Becomes(t, f) /\ UNCHANGED <<active, armed, strinv>>
  BY DEF Store, Goto
<1> HIDE DEF f, x
<1>5. /\ FrameOk(f, t, active'[t], slotm', ready')
      /\ GuardMoves(Top(t), f, active[t], active'[t])
  BY <1>1, <1>2, <1>3, <1>4 DEF FrameOk, GuardMoves, Rendering
<1>6. Depth(t) = 1 => BaseOk(f)
  BY <1>1, <1>2, <1>3 DEF BaseOk
<1>7. \A s \in Slot : ready[s] = TRUE => ready'[s] = TRUE
  BY <1>2, <1>4
<1>8. slotm = t /\ t # "free"
  BY <1>1, <1>2, SlotAssumption DEF FrameOk
<1>9. \A d \in 1 .. Depth(t) :
        d # Depth(t) => FrameOk(stack[t][d], t, active'[t], slotm', ready')
  <2> SUFFICES ASSUME NEW d \in 1 .. Depth(t), d # Depth(t)
               PROVE  FrameOk(stack[t][d], t, active[t], slotm', ready')
    BY <1>4
  <2>1. /\ FrameOk(stack[t][d], t, active[t], slotm, ready)
        /\ stack[t][d].at \notin Rendering
    BY <1>1, Behind DEF Rendering
  <2> QED BY <2>1 DEF FrameOk, Rendering
<1>10. \A u \in Thread : u # t => ThreadOk(stack[u], u, active[u], slotm', ready')
  <2> SUFFICES ASSUME NEW u \in Thread, u # t
               PROVE  ThreadOk(stack[u], u, active[u], slotm', ready')
    OBVIOUS
  <2>1. /\ stack[u] \in Seq(FrameType) /\ active[u] \in BOOLEAN /\ slotm # u
        /\ ThreadOk(stack[u], u, active[u], slotm, ready)
    BY <1>8 DEF IInv, TypeOK
  <2> QED BY <1>7, <2>1, Bystander
<1>11. /\ active' \in [Thread -> BOOLEAN] /\ \A u \in Thread : u # t => active'[u] = active[u]
       /\ slotm' \in Thread \union {"free"} /\ DOMAIN measured' = Slot
       /\ ready' \in [Slot -> BOOLEAN] /\ metrics' \in [Slot -> {0, 2, Glyphs}]
  BY <1>1, <1>2, <1>4 DEF IInv, TypeOK
<1>12. \A s \in Slot : ready'[s] => metrics'[s] \in {2, Glyphs}
  BY <1>1, <1>2, <1>4 DEF IInv, TypeOK
<1> QED
  BY <1>1, <1>3, <1>4, <1>5, <1>6, <1>9, <1>10, <1>11, <1>12, Settle

\* The render ends: the guard goes down, the routine gets an empty string.
LEMMA SuppressKeeps == ASSUME IInv, NEW t \in Thread, Suppress(t) PROVE IInv'
<1> DEFINE f == [Top(t) EXCEPT !.at = "body", !.eng = @ + 1, !.r6 = "empty"]
<1>1. stack[t] # << >> /\ Top(t).at = "glyphs"
  BY DEF Suppress, In
<1>2. /\ Top(t) \in FrameType /\ FrameOk(Top(t), t, active[t], slotm, ready)
      /\ Depth(t) = 1 => BaseOk(Top(t))
  BY <1>1, TopFacts
<1>3. /\ f \in FrameType /\ f.kind = Top(t).kind /\ f.eng = Top(t).eng + 1
      /\ f.r6 = "empty" /\ f.at = "body"
  <2>1. Top(t).eng + 1 \in Nat
    BY <1>2 DEF FrameType
  <2> QED BY <1>2, <2>1 DEF FrameType
<1>4. Becomes(t, f) /\ active' = [active EXCEPT ![t] = Top(t).prev]
      /\ UNCHANGED <<armed, strinv, slotm, ready, metrics, measured>>
  BY DEF Suppress, metricVars
<1> HIDE DEF f
<1>5. Top(t).at \in Rendering /\ Top(t).prev = FALSE
  BY <1>1, <1>2 DEF FrameOk, Rendering
<1>6. /\ active' \in [Thread -> BOOLEAN] /\ active'[t] = FALSE
      /\ \A u \in Thread : u # t => active'[u] = active[u]
  BY <1>4, <1>5 DEF IInv, TypeOK
<1>7. FrameOk(f, t, active'[t], slotm', ready') /\ GuardMoves(Top(t), f, active[t], active'[t])
  BY <1>3, <1>5, <1>6 DEF FrameOk, GuardMoves, Rendering
<1>8. Depth(t) = 1 => BaseOk(f)
  BY <1>1, <1>2, <1>3 DEF BaseOk
<1>9. \A d \in 1 .. Depth(t) :
        d # Depth(t) => FrameOk(stack[t][d], t, active'[t], slotm', ready')
  <2> SUFFICES ASSUME NEW d \in 1 .. Depth(t), d # Depth(t)
               PROVE  FrameOk(stack[t][d], t, FALSE, slotm, ready)
    BY <1>4, <1>6
  <2>1. /\ FrameOk(stack[t][d], t, active[t], slotm, ready)
        /\ stack[t][d].at \notin Rendering
    BY <1>1, <1>5, Behind
  <2> QED BY <2>1 DEF FrameOk, Rendering
<1>10. /\ slotm' \in Thread \union {"free"} /\ DOMAIN measured' = Slot
       /\ ready' \in [Slot -> BOOLEAN] /\ metrics' \in [Slot -> {0, 2, Glyphs}]
       /\ \A x \in Slot : ready'[x] => metrics'[x] \in {2, Glyphs}
       /\ \A u \in Thread : u # t => ThreadOk(stack[u], u, active[u], slotm', ready')
  BY <1>4 DEF IInv, TypeOK
<1> QED
  BY <1>1, <1>3, <1>4, <1>6, <1>7, <1>8, <1>9, <1>10, Settle

\* A self-render calls one of the game's glyph routines.
LEMMA NestedCall ==
  ASSUME IInv, NEW t \in Thread, Measure(t) \/ DrawGlyph(t)
  PROVE  IInv'
<1> DEFINE f == [Top(t) EXCEPT !.n = @ + 1]
<1>1. /\ stack[t] # << >> /\ Top(t).at \in {"measure", "glyphs"} /\ Top(t).n < Glyphs
      /\ UNCHANGED <<active, armed, strinv, slotm, metricVars>>
  BY DEF Measure, DrawGlyph, In
<1>2. PICK k \in {"index", "glyph"} : Calls(t, k, f)
  BY DEF Measure, DrawGlyph
<1>3. /\ Top(t) \in FrameType /\ FrameOk(Top(t), t, active[t], slotm, ready)
      /\ Depth(t) = 1 => BaseOk(Top(t))
  BY <1>1, TopFacts
<1>4. Top(t).n + 1 \in 0 .. Glyphs
  BY <1>1, <1>3, GlyphsAssumption DEF FrameType
<1>5. /\ f \in FrameType /\ f.kind = Top(t).kind /\ f.eng = Top(t).eng /\ f.s = Top(t).s
      /\ f.r6 = Top(t).r6 /\ f.prev = Top(t).prev /\ f.at = Top(t).at /\ f.rdy = Top(t).rdy
  BY <1>3, <1>4 DEF FrameType
<1>6. Frame(k) \in FrameType /\ Frame(k).at = "probe"
  BY NewFrame DEF Routine
<1>7. stack' = [stack EXCEPT ![t] = [stack[t] EXCEPT ![Depth(t)] = f] \o <<Frame(k)>>]
  BY <1>2 DEF Calls
<1> DEFINE g == Frame(k)
<1> HIDE DEF f, g
<1>8. FrameOk(f, t, active[t], slotm, ready) /\ (Depth(t) = 1 => BaseOk(f))
  BY <1>3, <1>5 DEF FrameOk, BaseOk
<1>9. f.at \in Waiting
  BY <1>1, <1>5 DEF Waiting
<1>10. /\ g \in FrameType /\ g.at = "probe"
       /\ stack' = [stack EXCEPT ![t] = [stack[t] EXCEPT ![Depth(t)] = f] \o <<g>>]
  BY <1>6, <1>7 DEF g
<1>11. f.at \in Rendering <=> Top(t).at \in Rendering
  BY <1>5
<1> QED
  BY <1>1, <1>5, <1>8, <1>9, <1>10, <1>11, CallStep

\* The body of the string-draw routine calls the formatter or draws a glyph.
LEMMA BodyKeeps == ASSUME IInv, NEW t \in Thread, BodyCalls(t) PROVE IInv'
<1> DEFINE f == [Top(t) EXCEPT !.at = "drawing"]
<1>1. /\ stack[t] # << >> /\ Top(t).at = "body"
      /\ UNCHANGED <<active, armed, strinv, slotm, metricVars>>
  BY DEF BodyCalls, In
<1>2. /\ Top(t) \in FrameType /\ FrameOk(Top(t), t, active[t], slotm, ready)
      /\ Depth(t) = 1 => BaseOk(Top(t))
      /\ stack[t] \in Seq(FrameType) /\ Depth(t) \in Nat \ {0}
  BY <1>1, TopFacts
<1>3. PICK k \in {"printf", "glyph"} :
        stack' = [stack EXCEPT ![t] =
          [stack[t] EXCEPT ![Depth(t)].at = "drawing"] \o
          <<[Frame(k) EXCEPT !.r6 = IF k = "printf" THEN Top(t).r6 ELSE @]>>]
  BY DEF BodyCalls
<1> DEFINE g == [Frame(k) EXCEPT !.r6 = IF k = "printf" THEN Top(t).r6 ELSE @]
<1>4. Frame(k) \in FrameType /\ Frame(k).at = "probe"
  BY NewFrame DEF Routine
<1>5. g \in FrameType /\ g.at = "probe"
  <2>1. (IF k = "printf" THEN Top(t).r6 ELSE Frame(k).r6) \in {"jp", "en", "empty", "code"}
    BY <1>2, <1>4 DEF FrameType
  <2> QED BY <1>4, <2>1 DEF FrameType
<1>6. /\ f \in FrameType /\ f.kind = Top(t).kind /\ f.at = "drawing"
  BY <1>2 DEF FrameType
<1>7. [stack[t] EXCEPT ![Depth(t)].at = "drawing"] = [stack[t] EXCEPT ![Depth(t)] = f]
  BY DEF Top
<1>8. stack' = [stack EXCEPT ![t] = [stack[t] EXCEPT ![Depth(t)] = f] \o <<g>>]
  BY <1>3, <1>7
<1> HIDE DEF f, g
<1>9. /\ FrameOk(f, t, active[t], slotm, ready) /\ (Depth(t) = 1 => BaseOk(f))
      /\ f.at \in Rendering <=> Top(t).at \in Rendering
      /\ f.at \in Waiting
  BY <1>1, <1>2, <1>6 DEF FrameOk, BaseOk, Rendering, Waiting
<1> QED
  BY <1>1, <1>5, <1>6, <1>8, <1>9, CallStep

\* The routine returns.
LEMMA ReturnKeeps == ASSUME IInv, NEW t \in Thread, Return(t) PROVE IInv'
<1> DEFINE st == SubSeq(stack[t], 1, Len(stack[t]) - 1)
<1>1. /\ stack[t] # << >> /\ Top(t).at \in {"body", "drawing"}
      /\ stack' = [stack EXCEPT ![t] = st]
      /\ UNCHANGED <<active, armed, strinv, slotm, ready, metrics, measured>>
  BY DEF Return, In, metricVars
<1>2. /\ stack[t] \in Seq(FrameType) /\ active[t] \in BOOLEAN
      /\ \A u \in Thread : ThreadOk(stack[u], u, active[u], slotm, ready)
  BY DEF IInv, TypeOK
<1>3. stack[t][Len(stack[t])].at \notin Rendering
  BY <1>1 DEF Top, Depth, Rendering
<1>4. st \in Seq(FrameType) /\ ThreadOk(st, t, active[t], slotm, ready)
  BY <1>1, <1>2, <1>3, Pop
<1> HIDE DEF st
<1> QED
  BY <1>1, <1>2, <1>4, Combine DEF IInv, TypeOK

-----------------------------------------------------------------------------
(* The properties *)

\* A step keeps the inductive invariant.
LEMMA StepIInv == ASSUME IInv, [Next]_vars PROVE IInv'
<1>1. CASE Arm
  BY <1>1, ArmStep
<1>2. CASE UNCHANGED vars
  BY <1>2 DEF vars, IInv, TypeOK, ThreadOk, Depth
<1>3. ASSUME NEW t \in Thread, Call(t) \/ HookStep(t) \/ BodyCalls(t) \/ Return(t)
      PROVE  IInv'
  BY <1>3, EnterStep, ProbeStep, HookStepKeeps, RenderKeeps, ReadStep, LockKeeps,
     StoreKeeps, SuppressKeeps, NestedCall, BodyKeeps, ReturnKeeps
     DEF HookStep, RenderStep
<1> QED
  BY <1>1, <1>2, <1>3 DEF Next

\* The inductive invariant holds throughout.
THEOREM Invariance == Spec => []IInv
<1>1. IInv /\ [Next]_vars => IInv'
  BY StepIInv
<1> QED
  BY <1>1, InitIInv, PTL DEF Spec

\* No self-render inside a self-render on any thread, and the guard is up
\* exactly during one.
THEOREM GuardFollowsRender == Spec => []RenderInv
<1>1. ASSUME IInv, NEW t \in Thread
      PROVE  Cardinality({d \in 1 .. Depth(t) : stack[t][d].at \in Rendering}) =
               IF active[t] THEN 1 ELSE 0
  <2> DEFINE D == {d \in 1 .. Depth(t) : stack[t][d].at \in Rendering}
  <2>1. active[t] \in BOOLEAN /\ ThreadOk(stack[t], t, active[t], slotm, ready)
    BY <1>1 DEF IInv, TypeOK
  <2>2. CASE active[t] = TRUE
    <3>1. PICK d \in D : TRUE
      BY <2>1, <2>2 DEF ThreadOk, Depth
    <3>2. D = {d}
      BY <2>1, <3>1 DEF ThreadOk, Depth
    <3> QED BY <2>2, <3>2, FS_Singleton
  <2>3. CASE active[t] = FALSE
    <3>1. D = {}
      BY <2>1, <2>3 DEF ThreadOk, FrameOk, Depth
    <3> QED BY <2>3, <3>1, FS_EmptySet
  <2> QED BY <2>1, <2>2, <2>3
<1>2. IInv => RenderInv
  BY <1>1 DEF RenderInv, GuardIsRender, IInv
<1> QED
  BY <1>2, Invariance, PTL

\* A text routine's string is on the screen once, whoever drew it.
THEOREM TextOnce == Spec => []DrawnOnce
<1>1. ASSUME IInv, NEW t \in Thread, In(t, "body"), Depth(t) = 1
      PROVE  Top(t).eng + (IF Top(t).r6 = "empty" THEN 0 ELSE 1) = 1
  <2>1. BaseOk(Top(t)) /\ Top(t).at = "body"
    BY <1>1, TopFacts DEF In
  <2> QED BY <2>1 DEF BaseOk
<1>2. IInv => DrawnOnce
  BY <1>1 DEF DrawnOnce
<1> QED
  BY <1>2, Invariance, PTL

\* Whoever has seen ready set draws with complete advances.
THEOREM AdvancesComplete == Spec => []ReadyComplete
<1>1. ASSUME IInv, NEW t \in Thread, NEW d \in 1 .. Depth(t),
             stack[t][d].at = "glyphs", stack[t][d].rdy
      PROVE  metrics[stack[t][d].s] \in {2, Glyphs}
  <2>1. stack[t][d] \in FrameType
    BY <1>1, ElementOfSeq DEF IInv, Depth
  <2>2. stack[t][d].s \in Slot /\ stack[t][d].rdy = TRUE
    BY <1>1, <2>1 DEF FrameType
  <2>3. ready[stack[t][d].s] = TRUE
    BY <1>1, <2>2 DEF IInv, ThreadOk, FrameOk, Depth
  <2>4. \A s \in Slot : ready[s] => metrics[s] \in {2, Glyphs}
    BY <1>1 DEF IInv
  <2> QED BY <2>2, <2>3, <2>4
<1>2. IInv => ReadyComplete
  BY <1>1 DEF ReadyComplete
<1> QED
  BY <1>2, Invariance, PTL

\* A slot is measured once.
THEOREM MeasuredOnce == Spec => MetricsOnce
<1>1. IInv /\ [Next]_vars => [MetricsKept]_vars
  <2> SUFFICES ASSUME IInv, Next PROVE MetricsKept
    BY DEF vars, MetricsKept
  <2>1. CASE metrics' = metrics /\ measured' = measured
    BY <2>1 DEF MetricsKept
  <2>2. ASSUME NEW t \in Thread, Store(t) PROVE MetricsKept
    <3>1. /\ stack[t] # << >> /\ Top(t).at = "measure"
          /\ metrics' = [metrics EXCEPT ![Top(t).s] = Top(t).n]
          /\ measured' = [measured EXCEPT ![Top(t).s] = @ + 1]
      BY <2>2 DEF Store, In
    <3>2. ready[Top(t).s] = FALSE
      BY <3>1, TopFacts DEF FrameOk
    <3>3. DOMAIN metrics = Slot /\ DOMAIN measured = Slot
      BY DEF IInv, TypeOK
    <3> QED BY <3>1, <3>2, <3>3 DEF MetricsKept
  <2> QED
    BY <2>1, <2>2 DEF Next, Arm, Call, HookStep, RenderStep, ProbeLock, ProbeUnlock, ProbeNoText,
       Hook, Miss, Swap, Render, Calibrate, Lock, Measure, Advances, DrawGlyph, Suppress,
       BodyCalls, Return, metricVars
<1> QED
  BY <1>1, Invariance, PTL DEF Spec, MetricsOnce
-----------------------------------------------------------------------------
(* Under the game's scheduler *)

\* What a step of the running thread has to show.
LEMMA RunStep ==
  ASSUME SchedInv, [Next]_vars, UNCHANGED <<parallel, running, yields>>,
         NEW t \in Thread, Runs(t),
         \A u \in Thread : u # t => stack'[u] = stack[u],
         strinv' \in {strinv, t, "free"}, slotm' \in {slotm, t, "free"},
         HeldOk(stack'[t], t, strinv', slotm')
  PROVE  SchedInv'
<1>1. IInv'
  BY StepIInv DEF SchedInv
<1>2. \A u \in Thread : u # "free"
  BY SlotAssumption
<1>3. ASSUME NEW u \in Thread, u # t
      PROVE  /\ HeldOk(stack'[u], u, strinv', slotm')
             /\ ~ Runs(u) => strinv' # u /\ ("index" \notin yields => slotm' # u)
  <2>1. /\ HeldOk(stack[u], u, strinv, slotm) /\ stack'[u] = stack[u] /\ u # "free"
        /\ ~ Runs(u) => strinv # u /\ ("index" \notin yields => slotm # u)
    BY <1>2, <1>3 DEF SchedInv
  <2> QED BY <1>3, <2>1 DEF HeldOk
<1> QED
  BY <1>1, <1>3 DEF SchedInv, Runs

\* A step of the innermost routine alone, to f: a thread that holds a mutex and
\* keeps it goes on being where it is held.
LEMMA HeldTop ==
  ASSUME NEW t, NEW st \in Seq(FrameType), st # << >>, NEW si, NEW m, NEW sj, NEW n,
         HeldOk(st, t, si, m), NEW f, f.kind = st[Len(st)].kind,
         sj = t => f.at = "record",
         n = t => f.at = "measure" \/ (m = t /\ st[Len(st)].at # "measure")
  PROVE  HeldOk([st EXCEPT ![Len(st)] = f], t, sj, n)
<1> DEFINE su == [st EXCEPT ![Len(st)] = f]
           L == Len(st)
<1>1. /\ L \in Nat \ {0} /\ Len(su) = L /\ su # << >>
      /\ su[L] = f /\ (L > 1 => su[L - 1] = st[L - 1])
  OBVIOUS
<1> HIDE DEF su, L
<1>2. ASSUME m = t, st[Len(st)].at # "measure"
      PROVE  L > 1 /\ st[L - 1].at = "measure" /\ st[L].kind = "index"
  BY <1>2 DEF HeldOk, Measuring, L
<1>3. n = t => Measuring(su)
  <2>1. CASE f.at = "measure"
    BY <1>1, <2>1 DEF Measuring
  <2>2. CASE m = t /\ st[Len(st)].at # "measure"
    BY <1>1, <1>2, <2>2 DEF Measuring, L
  <2> QED BY <2>1, <2>2
<1>4. sj = t => su # << >> /\ su[Len(su)].at = "record"
  BY <1>1
<1> QED
  BY <1>3, <1>4 DEF HeldOk, su

\* A step of t's innermost routine alone, to f, as HeldTop wants it.
TopStep(t, f) ==
  /\ Becomes(t, f) /\ f.kind = Top(t).kind
  /\ strinv' \in {strinv, t, "free"} /\ slotm' \in {slotm, t, "free"}
  /\ strinv' = t => f.at = "record"
  /\ slotm' = t => f.at = "measure" \/ (slotm = t /\ Top(t).at # "measure")

LEMMA TopStepHeld ==
  ASSUME SchedInv, [Next]_vars, UNCHANGED <<parallel, running, yields>>,
         NEW t \in Thread, Runs(t), stack[t] # << >>, NEW f, TopStep(t, f)
  PROVE  SchedInv'
<1>1. /\ stack[t] \in Seq(FrameType) /\ HeldOk(stack[t], t, strinv, slotm)
      /\ stack \in [Thread -> Seq(FrameType)]
  BY DEF SchedInv, IInv
<1>2. HeldOk([stack[t] EXCEPT ![Len(stack[t])] = f], t, strinv', slotm')
  BY <1>1, HeldTop DEF TopStep, Top, Depth
<1>3. /\ stack'[t] = [stack[t] EXCEPT ![Len(stack[t])] = f]
      /\ \A u \in Thread : u # t => stack'[u] = stack[u]
  BY <1>1 DEF TopStep, Becomes, Depth
<1> QED
  BY <1>2, <1>3, RunStep DEF TopStep

\* The steps of the probe and the hook but for the calls of glyph routines.
LEMMA HookHeld ==
  ASSUME SchedInv, NEW t \in Thread, Runs(t), UNCHANGED <<parallel, running, yields>>,
         HookStep(t), ~ Measure(t), ~ DrawGlyph(t)
  PROVE  SchedInv'
<1>1. stack[t] # << >>
  BY DEF HookStep, RenderStep, ProbeLock, ProbeUnlock, ProbeNoText, Hook, Miss, Swap, Render,
     Calibrate, Lock, Store, Advances, Suppress, In
<1>2. /\ Top(t) \in FrameType /\ HeldOk(stack[t], t, strinv, slotm)
      /\ [Next]_vars /\ t # "free"
  BY <1>1, TopFacts, SlotAssumption DEF SchedInv, Next
<1>3. strinv = t => Top(t).at = "record"
  BY <1>2 DEF HeldOk, Top, Depth
<1>4. CASE ProbeLock(t) \/ ProbeUnlock(t) \/ ProbeNoText(t)
  <2>1. \A l : [Top(t) EXCEPT !.at = l].kind = Top(t).kind /\ [Top(t) EXCEPT !.at = l].at = l
    BY <1>2 DEF FrameType
  <2>2. \E f : TopStep(t, f)
    BY <1>2, <1>3, <1>4, <2>1 DEF TopStep, ProbeLock, ProbeUnlock, ProbeNoText, Goto, In
  <2> QED BY <1>1, <1>2, <2>2, TopStepHeld
<1>5. CASE Hook(t) \/ Miss(t) \/ Calibrate(t)
  <2>1. \A l : [Top(t) EXCEPT !.at = l].kind = Top(t).kind /\ [Top(t) EXCEPT !.at = l].at = l
    BY <1>2 DEF FrameType
  <2>2. /\ \E l : Becomes(t, [Top(t) EXCEPT !.at = l])
        /\ UNCHANGED <<strinv, slotm>> /\ Top(t).at \notin {"record", "measure"}
    BY <1>5 DEF Hook, Miss, Calibrate, Goto, In
  <2>3. \E f : TopStep(t, f)
    BY <1>2, <1>3, <2>1, <2>2 DEF TopStep
  <2> QED BY <1>1, <1>2, <2>3, TopStepHeld
<1>6. CASE Swap(t) \/ Advances(t)
  <2>1. \E f : Becomes(t, f) /\ f.kind = Top(t).kind
    <3>1. CASE Swap(t)
      <4> DEFINE f == [Top(t) EXCEPT !.at = "body", !.r6 = "en"]
      <4>1. Becomes(t, f) /\ f.kind = Top(t).kind
        BY <1>2, <3>1 DEF Swap, FrameType
      <4> QED BY <4>1
    <3>2. CASE Advances(t)
      <4> DEFINE f == [Top(t) EXCEPT !.at = "glyphs", !.n = 0, !.rdy = ready[Top(t).s]]
      <4>1. Becomes(t, f) /\ f.kind = Top(t).kind
        BY <1>2, <3>2 DEF Advances, FrameType
      <4> QED BY <4>1
    <3> QED BY <1>6, <3>1, <3>2
  <2>2. \E f : TopStep(t, f)
    BY <1>2, <1>3, <1>6, <2>1 DEF TopStep, Swap, Advances, In
  <2> QED BY <1>1, <1>2, <2>2, TopStepHeld
<1>7. CASE Render(t)
  <2>1. \E f : Becomes(t, f) /\ f.kind = Top(t).kind
    <3>1. PICK s \in Slot :
            Becomes(t, [Top(t) EXCEPT !.at = "calibrate", !.s = s, !.prev = active[t]])
      BY <1>7 DEF Render
    <3> DEFINE f == [Top(t) EXCEPT !.at = "calibrate", !.s = s, !.prev = active[t]]
    <3>2. Becomes(t, f) /\ f.kind = Top(t).kind
      BY <1>2, <3>1 DEF FrameType
    <3> QED BY <3>2
  <2>2. \E f : TopStep(t, f)
    BY <1>2, <1>3, <1>7, <2>1 DEF TopStep, Render, In
  <2> QED BY <1>1, <1>2, <2>2, TopStepHeld
<1>8. CASE Lock(t)
  <2>1. \A l : [Top(t) EXCEPT !.at = l].kind = Top(t).kind
    BY <1>2 DEF FrameType
  <2>2. /\ [Top(t) EXCEPT !.at = "measure", !.n = 0].kind = Top(t).kind
        /\ [Top(t) EXCEPT !.at = "measure", !.n = 0].at = "measure"
    BY <1>2 DEF FrameType
  <2>3. \E f : TopStep(t, f)
    BY <1>2, <1>3, <1>8, <2>1, <2>2 DEF TopStep, Lock, Goto, In
  <2> QED BY <1>1, <1>2, <2>3, TopStepHeld
<1>9. CASE Store(t) \/ Suppress(t)
  <2>1. \E f : Becomes(t, f) /\ f.kind = Top(t).kind
    <3>1. CASE Store(t)
      <4> DEFINE f == [Top(t) EXCEPT !.at = "advances"]
      <4>1. Becomes(t, f) /\ f.kind = Top(t).kind
        BY <1>2, <3>1 DEF Store, Goto, FrameType
      <4> QED BY <4>1
    <3>2. CASE Suppress(t)
      <4> DEFINE f == [Top(t) EXCEPT !.at = "body", !.eng = @ + 1, !.r6 = "empty"]
      <4>1. Becomes(t, f) /\ f.kind = Top(t).kind
        BY <1>2, <3>2 DEF Suppress, FrameType
      <4> QED BY <4>1
    <3> QED BY <1>9, <3>1, <3>2
  <2>2. \E f : TopStep(t, f)
    BY <1>2, <1>3, <1>9, <2>1 DEF TopStep, Store, Suppress, In
  <2> QED BY <1>1, <1>2, <2>2, TopStepHeld
<1> QED
  BY <1>4, <1>5, <1>6, <1>7, <1>8, <1>9 DEF HookStep, RenderStep

\* A glyph routine is called: the caller is in a self-render, so that its frame
\* is FUN_80019f70's only if it measures.
LEMMA GlyphHeld ==
  ASSUME SchedInv, NEW t \in Thread, Runs(t), UNCHANGED <<parallel, running, yields>>,
         Measure(t) \/ DrawGlyph(t)
  PROVE  SchedInv'
<1> DEFINE f == [Top(t) EXCEPT !.n = @ + 1]
           L == Len(stack[t])
<1>1. /\ stack[t] # << >> /\ Top(t).at \in {"measure", "glyphs"}
      /\ UNCHANGED <<strinv, slotm>>
  BY DEF Measure, DrawGlyph, In
<1>2. /\ Top(t) \in FrameType /\ HeldOk(stack[t], t, strinv, slotm)
      /\ [Next]_vars /\ stack \in [Thread -> Seq(FrameType)]
      /\ stack[t] \in Seq(FrameType) /\ L \in Nat \ {0}
      /\ ThreadOk(stack[t], t, active[t], slotm, ready)
  BY <1>1, TopFacts DEF SchedInv, Next, HookStep, RenderStep, IInv, Depth
<1>3. PICK k \in {"index", "glyph"} :
        Calls(t, k, f) /\ (Top(t).at = "measure" => k = "index")
  BY DEF Measure, DrawGlyph, In
<1>4. strinv' # t
  BY <1>1, <1>2 DEF HeldOk, Top, Depth
<1>5. ASSUME slotm = t
      PROVE  Top(t).at = "measure"
  <2>1. Measuring(stack[t])
    BY <1>2, <1>5 DEF HeldOk
  <2>2. ~ (L > 1 /\ stack[t][L - 1].at = "measure" /\ stack[t][L].at \in Rendering)
    <3>1. L > 1 => L \in 1 .. L /\ L - 1 \in 1 .. L /\ L # L - 1
      BY <1>2
    <3> QED BY <1>2, <3>1 DEF ThreadOk, Rendering
  <2> QED BY <1>1, <2>1, <2>2 DEF Measuring, Top, Depth, Rendering
<1> DEFINE su == [stack[t] EXCEPT ![L] = f] \o <<Frame(k)>>
<1>6. stack' = [stack EXCEPT ![t] = su]
  BY <1>3 DEF Calls, Depth
<1>7. Len(su) = L + 1 /\ su[L] = f /\ su[L + 1] = Frame(k) /\ su # << >>
  BY <1>2
<1>8. f.at = Top(t).at /\ Frame(k).kind = k
  BY <1>2 DEF FrameType, Frame
<1> HIDE DEF su, f
<1>9. slotm' = t => Measuring(su)
  <2>1. SUFFICES ASSUME slotm' = t PROVE Measuring(su)
    OBVIOUS
  <2>2. Top(t).at = "measure" /\ k = "index"
    BY <1>1, <1>3, <1>5, <2>1
  <2>3. Len(su) > 1 /\ Len(su) - 1 = L
    BY <1>2, <1>7
  <2> QED BY <1>7, <1>8, <2>2, <2>3 DEF Measuring
<1>10. HeldOk(stack'[t], t, strinv', slotm') /\ \A u \in Thread : u # t => stack'[u] = stack[u]
  BY <1>2, <1>4, <1>6, <1>9 DEF HeldOk
<1> QED
  BY <1>1, <1>2, <1>10, RunStep

\* The game's own steps: it enters a text routine, or a body calls or returns.
LEMMA GameHeld ==
  ASSUME SchedInv, NEW t \in Thread, Runs(t), UNCHANGED <<parallel, running, yields>>,
         Call(t) \/ BodyCalls(t) \/ Return(t)
  PROVE  SchedInv'
<1> DEFINE L == Len(stack[t])
<1>1. /\ UNCHANGED <<strinv, slotm>> /\ [Next]_vars
      /\ HeldOk(stack[t], t, strinv, slotm) /\ stack \in [Thread -> Seq(FrameType)]
      /\ stack[t] \in Seq(FrameType) /\ L \in Nat
  <2>1. /\ HeldOk(stack[t], t, strinv, slotm) /\ stack \in [Thread -> Seq(FrameType)]
        /\ stack[t] \in Seq(FrameType)
    BY DEF SchedInv, IInv
  <2>2. UNCHANGED <<strinv, slotm>>
    BY DEF Call, BodyCalls, Return
  <2>3. Next
    BY DEF Next
  <2> QED BY <2>1, <2>2, <2>3
<1>2. strinv # t
  BY <1>1 DEF HeldOk, Call, BodyCalls, Return, In, Top, Depth
<1>3. \A u \in Thread : u # t => stack'[u] = stack[u]
  BY <1>1 DEF Call, BodyCalls, Return
<1>4. ASSUME slotm = t
      PROVE  Measuring(stack'[t])
  <2>1. Measuring(stack[t]) /\ stack[t] # << >>
    BY <1>1, <1>4 DEF HeldOk, Measuring
  <2>2. Return(t)
    BY <2>1 DEF Call, BodyCalls, Measuring, In, Top, Depth
  <2>3. L > 1 /\ stack[t][L - 1].at = "measure"
    BY <2>1, <2>2 DEF Return, Measuring, In, Top, Depth
  <2> DEFINE su == SubSeq(stack[t], 1, L - 1)
  <2>4. Len(su) = L - 1 /\ \A d \in 1 .. L - 1 : su[d] = stack[t][d]
    BY <1>1, <2>1, Front
  <2>5. stack'[t] = su
    BY <1>1, <2>2 DEF Return
  <2> HIDE DEF su
  <2>6. L - 1 \in 1 .. L - 1 /\ Len(su) # 0
    BY <1>1, <2>3, <2>4
  <2>7. su # << >> /\ su[Len(su)].at = "measure"
    BY <2>3, <2>4, <2>6
  <2> QED BY <2>5, <2>7 DEF Measuring
<1>5. HeldOk(stack'[t], t, strinv', slotm')
  BY <1>1, <1>2, <1>4 DEF HeldOk
<1> QED
  BY <1>1, <1>3, <1>5, RunStep

\* Another thread runs: the one that gives way is in guest code, where it holds
\* g_slotm_mtx only in the body of FUN_80019f70.
LEMMA SwitchHeld ==
  ASSUME SchedInv, NEW u \in Thread, Switch(u)
  PROVE  SchedInv'
<1>1. /\ AtCheckpoint(running) /\ running' = u /\ UNCHANGED <<vars, parallel, yields>>
      /\ ~ parallel
      /\ running \in Thread /\ HeldOk(stack[running], running, strinv, slotm)
      /\ IInv'
  BY StepIInv DEF SchedInv, Switch
<1>2. strinv # running
  BY <1>1 DEF HeldOk, AtCheckpoint, In, Top, Depth
<1>3. "index" \notin yields => slotm # running
  BY <1>1 DEF HeldOk, Measuring, AtCheckpoint, In, Top, Depth
<1> QED
  BY <1>1, <1>2, <1>3 DEF SchedInv, Runs, vars

\* For any threads, font slots and glyphs: the probe's and the hook's mutexes stop
\* the game only if FUN_80019f70 passes a checkpoint of its scheduler.
THEOREM IndexAloneHangs == SchedSpec => []OnlyIndexHangs
<1>1. SchedInit => SchedInv
  <2> SUFFICES ASSUME SchedInit PROVE SchedInv
    OBVIOUS
  <2>1. IInv /\ running \in Thread /\ strinv = "free" /\ slotm = "free"
    BY InitIInv DEF SchedInit, Init
  <2> QED BY <2>1, SlotAssumption DEF SchedInv, HeldOk
<1>2. SchedInv /\ [SchedNext]_schedVars => SchedInv'
  <2> SUFFICES ASSUME SchedInv, [SchedNext]_schedVars PROVE SchedInv'
    OBVIOUS
  <2>1. ASSUME NEW t \in Thread, RunOn(t) PROVE SchedInv'
    BY <2>1, HookHeld, GlyphHeld, GameHeld DEF RunOn
  <2>2. ASSUME NEW t \in Thread, RunElse(t) PROVE SchedInv'
    <3>1. CASE Call(t)
      BY <2>2, <3>1, GameHeld DEF RunElse
    <3>2. CASE Arm
      <4>1. IInv' /\ UNCHANGED <<stack, strinv, slotm, parallel, running, yields>>
        BY <2>2, <3>2, ArmStep DEF RunElse, Arm, SchedInv
      <4> QED BY <4>1 DEF SchedInv, Runs
    <3> QED BY <2>2, <3>1, <3>2 DEF RunElse
  <2>3. CASE UNCHANGED <<vars, parallel, running, yields>>
    <3>1. IInv'
      BY <2>3, StepIInv DEF SchedInv
    <3> QED BY <2>3, <3>1 DEF SchedInv, Runs, vars
  <2> QED
    BY <2>1, <2>2, <2>3, SwitchHeld DEF SchedNext, DumpLock, DumpUnlock, schedVars
<1>3. SchedInv => OnlyIndexHangs
  <2> SUFFICES ASSUME SchedInv, Hung, "index" \notin yields PROVE FALSE
    BY DEF OnlyIndexHangs
  <2>1. slotm \in Thread \union {"free"}
    BY DEF SchedInv, IInv, TypeOK
  <2> QED BY <2>1 DEF SchedInv, Runs, Hung
<1> QED
  BY <1>1, <1>2, <1>3, PTL DEF SchedSpec
=============================================================================
