------------------------------- MODULE PcSet -------------------------------
(***************************************************************************)
(* What the set of text-draw PCs promises its callers, without slots,      *)
(* probing or memory order: a set of at most Cap members that only grows,  *)
(* shared by Thread, and for every thread the members it knows of because  *)
(* one of its own calls told it so.  A lookup may miss a member another    *)
(* thread has just added; it may never miss one its own thread knows.      *)
(***************************************************************************)
EXTENDS Naturals, FiniteSets

CONSTANTS
  Thread,   \* the guest threads that run the trace hooks
  Pc,       \* guest function addresses that draw text
  Query,    \* addresses a lookup may be asked about
  Cap       \* how many members fit

VARIABLES
  members,  \* the addresses in the set
  call,     \* call[t]: the operation thread t is executing, "idle" when none
  arg,      \* arg[t]: the address of t's current or latest operation
  ans,      \* ans[t]: how t's latest operation ended
  known     \* known[t]: members one of t's own operations has confirmed

vars == <<members, call, arg, ans, known>>

Answers == {"none", "yes", "no", "added", "dropped"}

TypeOK ==
  /\ members \subseteq Pc
  /\ call \in [Thread -> {"idle", "contains", "add"}]
  /\ arg \in [Thread -> Query \union Pc]
  /\ ans \in [Thread -> Answers]
  /\ known \in [Thread -> SUBSET Pc]

Init ==
  /\ members = {}
  /\ call = [t \in Thread |-> "idle"]
  /\ arg \in [Thread -> Query \union Pc]
  /\ ans = [t \in Thread |-> "none"]
  /\ known = [t \in Thread |-> {}]

Begin(t, kind, p) ==
  /\ call[t] = "idle"
  /\ call' = [call EXCEPT ![t] = kind]
  /\ arg' = [arg EXCEPT ![t] = p]
  /\ ans' = [ans EXCEPT ![t] = "none"]
  /\ UNCHANGED <<members, known>>

End(t, a) ==
  /\ call' = [call EXCEPT ![t] = "idle"]
  /\ ans' = [ans EXCEPT ![t] = a]
  /\ known' = IF a \in {"yes", "added"}
                THEN [known EXCEPT ![t] = @ \union {arg[t]}]
                ELSE known
  /\ UNCHANGED arg

\* A lookup says yes only of a member, no only of an address its own thread
\* has never been told is one.
Look(t) ==
  /\ call[t] = "contains"
  /\ \/ arg[t] \in members /\ End(t, "yes")
     \/ arg[t] \notin known[t] /\ End(t, "no")
  /\ UNCHANGED members

\* An insertion leaves the address in the set, or is dropped when it is full.
Insert(t) ==
  /\ call[t] = "add"
  /\ \/ /\ arg[t] \in members \/ Cardinality(members) < Cap
        /\ members' = members \union {arg[t]}
        /\ End(t, "added")
     \/ /\ arg[t] \notin members
        /\ Cardinality(members) = Cap
        /\ End(t, "dropped")
        /\ UNCHANGED members

Next ==
  \E t \in Thread :
    \/ \E p \in Query : Begin(t, "contains", p)
    \/ \E p \in Pc : Begin(t, "add", p)
    \/ Look(t)
    \/ Insert(t)

Spec == Init /\ [][Next]_vars
=============================================================================
