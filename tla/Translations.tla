---------------------------- MODULE Translations ----------------------------
(***************************************************************************)
(* The translation table and its hot reload (src/main/diagnostics.cpp).    *)
(* Every Period-th unguarded trip through pkmnstadium_text_xlate, of       *)
(* whatever guest thread, compares translations.json's modification time   *)
(* with the one recorded and, if they differ, reads the file into g_xlate  *)
(* under g_xlate_mtx.  Every trip then asks the atomic g_xlate_armed       *)
(* whether there is anything to look up, and looks it up under the mutex.  *)
(*                                                                         *)
(* The file is saved in place while the game runs (an editor, or           *)
(* tools/pms_build_translations.py): truncated, then written entry by      *)
(* entry, so a load may read any part of it.  text is the set of entries   *)
(* in the file, an entry being a key and the number of the save that wrote *)
(* it; the JSON around them is left out.                                   *)
(***************************************************************************)
EXTENDS Naturals, FiniteSets

CONSTANTS
  Thread,      \* guest threads
  Key,         \* hashes of source strings
  Period,      \* 1024: trips per reload check
  MaxSaves,    \* bound: times the file is saved
  MaxDeletes,  \* bound: times the file is deleted
  Disk         \* records: openFails, whether fopen of an existing file may
               \* fail (it is locked), and sameTick, whether two writes may
               \* get the same modification time

ASSUME PeriodAssumption == Period \in Nat \ {0}
ASSUME DiskAssumption == Disk \subseteq [openFails : BOOLEAN, sameTick : BOOLEAN]
ASSUME BoundAssumption == MaxSaves \in Nat \ {0} /\ MaxDeletes \in Nat
ASSUME FreeAssumption == "free" \notin Thread

Entry == Key \X (1 .. MaxSaves)

VARIABLES
  disk,        \* what the file system may do in this behaviour
  present,     \* the file exists
  text,        \* the entries in it
  mtime,       \* its modification time
  saves,       \* the number of the current save
  deletes,
  table,       \* g_xlate
  armed,       \* g_xlate_armed
  rec,         \* g_xlate_mtime
  ever,        \* g_xlate_ever_loaded
  seeded,      \* kStringDrawPC and kPrintfPC are in g_textpc_set
  calls,       \* g_xlate_calls modulo Period
  mutex,       \* holder of g_xlate_mtx during a load, or "free"
  pc,          \* pc[t]: where thread t is in the hook
  data,        \* data[t]: what t's load has read
  unread,      \* unread[t]: keys whose place in the file it has not reached
  ans          \* ans[t]: the entry t's latest lookup found, if any

fileVars == <<disk, present, text, mtime, saves, deletes>>
vars == <<disk, present, text, mtime, saves, deletes, table, armed, rec, ever, seeded,
          calls, mutex, pc, data, unread, ans>>

Init ==
  /\ disk \in Disk
  /\ present \in BOOLEAN
  /\ text = IF present THEN Key \X {1} ELSE {}
  /\ mtime = 1 /\ saves = 1 /\ deletes = 0
  /\ table = {} /\ armed = FALSE /\ rec = 0 /\ ever = FALSE /\ seeded = FALSE
  /\ calls = 0 /\ mutex = "free"
  /\ data = [t \in Thread |-> {}]
  /\ unread = [t \in Thread |-> {}]
  /\ pc = [t \in Thread |-> "idle"]
  /\ ans = [t \in Thread |-> {}]

Goto(t, l) == pc' = [pc EXCEPT ![t] = l]

-----------------------------------------------------------------------------
(* Whoever writes the file *)

\* A write changes the time, unless the clock has not ticked since the last.
Touch == mtime' \in {mtime + 1} \union (IF disk.sameTick THEN {mtime} ELSE {})

Saved == {e \in text : e[2] = saves}

\* The file is opened for writing: created, or truncated.
SaveBegin ==
  /\ saves < MaxSaves
  /\ ~ present \/ Saved = Key \X {saves}
  /\ present' = TRUE /\ text' = {} /\ saves' = saves + 1
  /\ Touch
  /\ UNCHANGED <<disk, deletes, table, armed, rec, ever, seeded, calls, mutex, pc, data,
                 unread, ans>>

SaveEntry ==
  /\ present
  /\ \E k \in Key : /\ <<k, saves>> \notin text
                    /\ text' = text \union {<<k, saves>>}
  /\ Touch
  /\ UNCHANGED <<disk, present, saves, deletes, table, armed, rec, ever, seeded, calls, mutex,
                 pc, data, unread, ans>>

\* A file that a load is reading is not deleted under it.
Delete ==
  /\ present /\ deletes < MaxDeletes
  /\ \A t \in Thread : pc[t] # "read"
  /\ Saved = Key \X {saves}
  /\ present' = FALSE /\ text' = {} /\ deletes' = deletes + 1
  /\ UNCHANGED <<disk, mtime, saves, table, armed, rec, ever, seeded, calls, mutex, pc, data,
                 unread, ans>>

-----------------------------------------------------------------------------
(* The hook *)

\* A traced routine is entered: fetch_add decides whether to check the file.
Call(t) ==
  /\ pc[t] = "idle"
  /\ calls' = (calls + 1) % Period
  /\ Goto(t, IF calls = 0 THEN "stat" ELSE "gate")
  /\ UNCHANGED <<table, armed, rec, ever, seeded, mutex, data, unread, ans>>
  /\ UNCHANGED fileVars

\* Mutant: the mutex is held for the comparison only.
StatUnlocked(t) ==
  /\ pc[t] = "stat" /\ ever' = TRUE
  /\ IF present /\ (~ ever \/ mtime # rec)
       THEN rec' = mtime /\ table' = {} /\ Goto(t, "open")
       ELSE Goto(t, "gate") /\ UNCHANGED <<rec, table>>
  /\ UNCHANGED <<armed, seeded, calls, mutex, data, unread, ans>>
  /\ UNCHANGED fileVars

\* maybe_reload_translations: a missing file keeps the table; a new time is
\* recorded before the file is read, and the table is cleared.
Stat(t) ==
  /\ pc[t] = "stat"
  /\ mutex = "free"
  /\ ever' = TRUE
  /\ \/ /\ present
        /\ ~ ever \/ mtime # rec
        /\ rec' = mtime
        /\ table' = {}
        /\ mutex' = t
        /\ Goto(t, "open")
     \/ /\ ~ present \/ (ever /\ mtime = rec)
        /\ Goto(t, "gate")
        /\ UNCHANGED <<rec, table, mutex>>
  /\ UNCHANGED <<armed, seeded, calls, data, unread, ans>>
  /\ UNCHANGED fileVars

\* fopen in load_translations_locked.  When it fails the function returns with
\* the table cleared and g_xlate_armed as it was.
Open(t) ==
  /\ pc[t] = "open"
  /\ \/ /\ present
        /\ data' = [data EXCEPT ![t] = {}]
        /\ unread' = [unread EXCEPT ![t] = Key]
        /\ Goto(t, "read")
        /\ UNCHANGED mutex
     \/ /\ ~ present \/ disk.openFails
        /\ mutex' = "free"
        /\ Goto(t, "gate")
        /\ UNCHANGED <<data, unread>>
  /\ UNCHANGED <<table, armed, rec, ever, seeded, calls, ans>>
  /\ UNCHANGED fileVars

\* fread reaches the place of one more entry, and finds what is there now.
Read(t) ==
  /\ pc[t] = "read"
  /\ \E k \in unread[t] :
       /\ unread' = [unread EXCEPT ![t] = @ \ {k}]
       /\ data' = [data EXCEPT ![t] = @ \union {e \in text : e[1] = k}]
  /\ UNCHANGED <<table, armed, rec, ever, seeded, calls, mutex, pc, ans>>
  /\ UNCHANGED fileVars

\* Mutants: the time is taken again after the file was read; the flag is
\* stored before the entries are in the table.
CommitRestamps(t) ==
  /\ pc[t] = "read" /\ unread[t] = {}
  /\ rec' = mtime
  /\ table' = data[t] /\ armed' = (data[t] # {}) /\ seeded' = TRUE
  /\ mutex' = "free" /\ Goto(t, "gate")
  /\ UNCHANGED <<ever, calls, data, unread, ans>>
  /\ UNCHANGED fileVars

CommitArmsFirst(t) ==
  /\ pc[t] = "read" /\ unread[t] = {}
  /\ table' = data[t] /\ armed' = (table # {}) /\ seeded' = TRUE
  /\ mutex' = "free" /\ Goto(t, "gate")
  /\ UNCHANGED <<rec, ever, calls, data, unread, ans>>
  /\ UNCHANGED fileVars

\* The entries are in the table: arm, seed the two chokepoints, unlock.
Commit(t) ==
  /\ pc[t] = "read"
  /\ unread[t] = {}
  /\ table' = data[t]
  /\ armed' = (data[t] # {})
  /\ seeded' = TRUE
  /\ mutex' = "free"
  /\ Goto(t, "gate")
  /\ UNCHANGED <<rec, ever, calls, data, unread, ans>>
  /\ UNCHANGED fileVars

\* The lock-free reject.
Gate(t) ==
  /\ pc[t] = "gate"
  /\ Goto(t, IF armed THEN "lookup" ELSE "idle")
  /\ UNCHANGED <<table, armed, rec, ever, seeded, calls, mutex, data, unread, ans>>
  /\ UNCHANGED fileVars

\* A lookup under the mutex copies the entry out.
Lookup(t) ==
  /\ pc[t] = "lookup"
  /\ mutex = "free"
  /\ \E k \in Key : ans' = [ans EXCEPT ![t] = {e \in table : e[1] = k}]
  /\ Goto(t, "idle")
  /\ UNCHANGED <<table, armed, rec, ever, seeded, calls, mutex, data, unread>>
  /\ UNCHANGED fileVars

Step(t) ==
  Call(t) \/ Stat(t) \/ Open(t) \/ Read(t) \/ Commit(t) \/ Gate(t) \/ Lookup(t)

Next == SaveBegin \/ SaveEntry \/ Delete \/ \E t \in Thread : Step(t)

Spec == Init /\ [][Next]_vars

\* The game goes on calling traced routines and its threads go on running;
\* waiting for the mutex is not starved for ever.  Nothing makes anyone save.
FairSpec ==
  /\ Spec
  /\ \A t \in Thread :
       /\ WF_vars(Call(t) \/ Open(t) \/ Read(t) \/ Commit(t) \/ Gate(t))
       /\ SF_vars(Stat(t) \/ Lookup(t))
-----------------------------------------------------------------------------
(* Properties *)

\* Types of the file, the table and the threads.
TypeOK ==
  /\ disk \in Disk /\ present \in BOOLEAN /\ text \subseteq Entry /\ mtime \in Nat
  /\ saves \in 1 .. MaxSaves
  /\ deletes \in 0 .. MaxDeletes
  /\ table \subseteq Entry
  /\ data \in [Thread -> SUBSET Entry] /\ unread \in [Thread -> SUBSET Key]
  /\ armed \in BOOLEAN /\ ever \in BOOLEAN /\ seeded \in BOOLEAN /\ rec \in Nat
  /\ calls \in 0 .. Period - 1
  /\ mutex \in Thread \union {"free"}
  /\ pc \in [Thread -> {"idle", "stat", "open", "read", "gate", "lookup"}]
  /\ ans \in [Thread -> SUBSET Entry]

\* The lock-free reject never hides a translation: outside a load, entries in
\* the table mean the flag is up and the two chokepoints pass the PC gate.
ArmedCovers == mutex = "free" /\ table # {} => armed /\ seeded

\* The table keeps its type and is never hidden by the flag.
TableInv == TypeOK /\ ArmedCovers

\* However loads and saves interleave, an English string a thread was given is
\* never followed by one from an earlier save of the file.
NotOlder ==
  \A t \in Thread : \A d \in ans[t], e \in ans'[t] : d[1] = e[1] => d[2] <= e[2]
NeverOlder == [][NotOlder]_vars

\* Parts of the inductive invariant.  Only the holder of the mutex is loading.
Locked == \A t \in Thread : pc[t] \in {"open", "read"} <=> mutex = t

\* The table is empty during a load.
Cleared == mutex # "free" => table = {}

\* What the file and the memory hold is no newer than the current save, and a
\* key has one entry.
Dated ==
  /\ \A e \in text : e[2] = saves
  /\ \A e \in table : e[2] <= saves
  /\ \A d, e \in table : d[1] = e[1] => d = e
  /\ \A t \in Thread : \A e \in ans[t] : e[2] <= saves
  /\ \A t \in Thread : \A d, e \in ans[t] : d[1] = e[1] => d = e

\* The same of what a load has read, which lies behind its place in the file.
LoadDated ==
  \A t \in Thread : pc[t] = "read" =>
    /\ \A e \in data[t] : e[1] \notin unread[t] /\ e[2] <= saves
    /\ \A d, e \in data[t] : d[1] = e[1] => d = e

\* No answer is newer than what a lookup may find now or after the load.
AnswersOlder ==
  \A u \in Thread : \A d \in ans[u] :
    /\ \A e \in table : d[1] = e[1] => d[2] <= e[2]
    /\ \A t \in Thread : pc[t] = "read" =>
         \A e \in data[t] : d[1] = e[1] => d[2] <= e[2]

\* The inductive invariant behind TableInv and NeverOlder.
IInv == TypeOK /\ ArmedCovers /\ Locked /\ Cleared /\ Dated /\ LoadDated /\ AnswersOlder

\* README.md:82 and 97: edited at any time, the table hot-reloads.  Once nobody
\* writes the file any more the table becomes what the file says, if the clock
\* tells writes apart and the last load could open the file; if it could not,
\* the table stays empty, and never what an earlier save or half a save said.
EventuallyCurrent ==
  ~ disk.sameTick =>
      <>[](present => table = text \/ (disk.openFails /\ table = {}))

\* The same on a disk on which an open fails now and then ("hot-reloaded on
\* mtime change", diagnostics.cpp:995).
ReloadsAfterFailedOpen ==
  ~ disk.sameTick => <>[](present => table = text)
=============================================================================
