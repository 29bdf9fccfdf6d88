----------------------------- MODULE WaitQueue ------------------------------
(***************************************************************************)
(* The wait queue of the OP-TEE driver (rpc.c, wq_sleep and wq_wakeup).    *)
(*                                                                         *)
(* A thread of the trusted OS that has to wait for another one asks the    *)
(* normal world to put it to sleep, and the other one asks it to wake the  *)
(* thread; the two requests come on different calls and in any order.  A   *)
(* key, the number of the thread, brings them together: whoever comes      *)
(* first creates the entry, and the sleeper removes and frees it.          *)
(*                                                                         *)
(* What the trusted OS does is external: it marks a waiting thread as done *)
(* and then asks for one wake-up, and a thread that is woken sleeps again  *)
(* until it is marked.                                                     *)
(***************************************************************************)
EXTENDS Integers, FiniteSets

CONSTANTS
  Keys,       (* the threads that wait                                     *)
  Wakers,     (* the calls that ask for a wake-up                          *)
  Entries,    (* pieces of memory                                          *)
  MaxWaits,   (* bound: how often a thread waits                           *)
  None

ASSUME WaitQueueAssumption ==
  MaxWaits \in Nat /\ None \notin Keys \cup Entries

VARIABLES
  request,    (* of a thread: none, waiting, or marked as done             *)
  waits,      (* how often it waited                                       *)
  sleeper,    (* where its call is in wq_sleep                             *)
  held,       (* the entry it holds                                        *)
  waker,      (* where a call is in wq_wakeup                              *)
  target,     (* the thread it wakes                                       *)
  found,      (* the entry it found                                        *)
  owner,      (* memory: the key of an entry, None if it is free           *)
  db,         (* the entries on the list                                   *)
  completed,  (* the completion of an entry                                *)
  memory      (* history: ok, or short once kmalloc has failed             *)

secureVars == <<request, waits>>
sleepVars == <<sleeper, held>>
wakeVars == <<waker, target, found>>
entryVars == <<owner, db, completed, memory>>
vars == <<secureVars, sleepVars, wakeVars, entryVars>>

Init ==
  /\ request = [k \in Keys |-> "none"]
  /\ waits = [k \in Keys |-> 0]
  /\ sleeper = [k \in Keys |-> "out"]
  /\ held = [k \in Keys |-> None]
  /\ waker = [w \in Wakers |-> "out"]
  /\ target = [w \in Wakers |-> None]
  /\ found = [w \in Wakers |-> None]
  /\ owner = [e \in Entries |-> None]
  /\ db = {}
  /\ completed = [e \in Entries |-> 0]
  /\ memory = "ok"
-----------------------------------------------------------------------------
(* The trusted OS.                                                         *)

Wait(k) ==
  /\ sleeper[k] = "out"
  /\ waits[k] < MaxWaits
  /\ waits' = [waits EXCEPT ![k] = @ + 1]
  /\ request' = [request EXCEPT ![k] = "waiting"]
  /\ sleeper' = [sleeper EXCEPT ![k] = "get"]
  /\ UNCHANGED <<held, wakeVars, entryVars>>

(* A waiting thread is marked, and its wake-up is asked for.               *)
Mark(w, k) ==
  /\ waker[w] = "out"
  /\ request[k] = "waiting"
  /\ request' = [request EXCEPT ![k] = "done"]
  /\ waker' = [waker EXCEPT ![w] = "get"]
  /\ target' = [target EXCEPT ![w] = k]
  /\ UNCHANGED <<waits, sleepVars, found, entryVars>>

(* A thread that was woken looks whether it was marked.                    *)
Look(k) ==
  /\ sleeper[k] = "woken"
  /\ IF request[k] = "done"
     THEN /\ request' = [request EXCEPT ![k] = "none"]
          /\ sleeper' = [sleeper EXCEPT ![k] = "out"]
     ELSE /\ sleeper' = [sleeper EXCEPT ![k] = "get"]
          /\ UNCHANGED request
  /\ UNCHANGED <<waits, held, wakeVars, entryVars>>
-----------------------------------------------------------------------------
(* Fault: an entry that is already there is not looked for.                *)
FoundNever(k) == {}

Found(k) == {e \in db : owner[e] = k}

(* wq_entry_get: one step under the mutex.                                 *)
EntryGet(k, e) ==
  \/ /\ e \in Found(k)
     /\ UNCHANGED entryVars
  \/ /\ Found(k) = {}
     /\ owner[e] = None
     /\ owner' = [owner EXCEPT ![e] = k]
     /\ completed' = [completed EXCEPT ![e] = 0]
     /\ db' = db \cup {e}
     /\ UNCHANGED memory

(* kmalloc fails.                                                          *)
NoEntry(k) ==
  /\ Found(k) = {}
  /\ memory' = "short"
  /\ UNCHANGED <<owner, db, completed>>

SleepGet(k) ==
  /\ sleeper[k] = "get"
  /\ \/ \E e \in Entries :
          /\ EntryGet(k, e)
          /\ held' = [held EXCEPT ![k] = e]
          /\ sleeper' = [sleeper EXCEPT ![k] = "asleep"]
     \/ /\ NoEntry(k)
        /\ sleeper' = [sleeper EXCEPT ![k] = "woken"]
        /\ UNCHANGED held
  /\ UNCHANGED <<secureVars, wakeVars>>

(* Fault: the sleep is interruptible.                                      *)
IsInterrupted(e) == TRUE

IsComplete(e) == completed[e] > 0

(* wait_for_completion.                                                    *)
Awake(k) ==
  /\ sleeper[k] = "asleep"
  /\ IsComplete(held[k])
  /\ completed' = [completed EXCEPT ![held[k]] = @ - 1]
  /\ sleeper' = [sleeper EXCEPT ![k] = "delete"]
  /\ UNCHANGED <<secureVars, held, wakeVars, owner, db, memory>>

ListDel(k) ==
  /\ sleeper[k] = "delete"
  /\ db' = db \ {held[k]}
  /\ sleeper' = [sleeper EXCEPT ![k] = "free"]
  /\ UNCHANGED <<secureVars, held, wakeVars, owner, completed, memory>>

(* Fault: the memory is not given back.                                    *)
NotFreed(k) == UNCHANGED owner

Freed(k) == owner' = [owner EXCEPT ![held[k]] = None]

Free(k) ==
  /\ sleeper[k] = "free"
  /\ Freed(k)
  /\ held' = [held EXCEPT ![k] = None]
  /\ sleeper' = [sleeper EXCEPT ![k] = "woken"]
  /\ UNCHANGED <<secureVars, wakeVars, db, completed, memory>>

WakeGet(w) ==
  /\ waker[w] = "get"
  /\ \/ \E e \in Entries :
          /\ EntryGet(target[w], e)
          /\ found' = [found EXCEPT ![w] = e]
          /\ waker' = [waker EXCEPT ![w] = "complete"]
          /\ UNCHANGED target
     \/ /\ NoEntry(target[w])
        /\ waker' = [waker EXCEPT ![w] = "out"]
        /\ target' = [target EXCEPT ![w] = None]
        /\ UNCHANGED found
  /\ UNCHANGED <<secureVars, sleepVars>>

(* complete, without the mutex.                                            *)
Complete(w) ==
  /\ waker[w] = "complete"
  /\ completed' = [completed EXCEPT ![found[w]] = @ + 1]
  /\ waker' = [waker EXCEPT ![w] = "out"]
  /\ target' = [target EXCEPT ![w] = None]
  /\ found' = [found EXCEPT ![w] = None]
  /\ UNCHANGED <<secureVars, sleepVars, owner, db, memory>>
-----------------------------------------------------------------------------
SleepStep(k) == SleepGet(k) \/ Awake(k) \/ ListDel(k) \/ Free(k) \/ Look(k)
WakeStep(w) == WakeGet(w) \/ Complete(w)

Next ==
  \/ \E k \in Keys : Wait(k) \/ SleepStep(k)
  \/ \E w \in Wakers : (\E k \in Keys : Mark(w, k)) \/ WakeStep(w)

Spec == Init /\ [][Next]_vars

(* The calls go on; when to wake a thread is for the trusted OS to say.    *)
FairSpec ==
  /\ Spec
  /\ \A k \in Keys : WF_vars(SleepStep(k))
  /\ \A w \in Wakers : WF_vars(WakeStep(w))
-----------------------------------------------------------------------------
TypeOK ==
  /\ request \in [Keys -> {"none", "waiting", "done"}]
  /\ waits \in [Keys -> 0 .. MaxWaits]
  /\ sleeper \in [Keys -> {"out", "get", "asleep", "delete", "free", "woken"}]
  /\ held \in [Keys -> Entries \cup {None}]
  /\ waker \in [Wakers -> {"out", "get", "complete"}]
  /\ target \in [Wakers -> Keys \cup {None}]
  /\ found \in [Wakers -> Entries \cup {None}]
  /\ owner \in [Entries -> Keys \cup {None}]
  /\ db \subseteq Entries
  /\ completed \in [Entries -> Nat]
  /\ memory \in {"ok", "short"}

(* A call that is about to complete an entry, and one that sleeps on it or *)
(* removes it, have an entry that is still on the list and still theirs,   *)
(* although complete() is called without the mutex (rpc.c, wq_wakeup): as  *)
(* long as the kernel has memory.                                          *)
HeldEntriesLive == memory = "ok" =>
  /\ \A w \in Wakers : waker[w] = "complete" =>
       found[w] \in db /\ owner[found[w]] = target[w]
  /\ \A k \in Keys : sleeper[k] \in {"asleep", "delete"} =>
       held[k] \in db /\ owner[held[k]] = k

(* The sleeper and its waker meet at one entry: a key is at most once on   *)
(* the list, even if some allocations fail (rpc.c, wq_entry_get).          *)
OneEntryPerKey == \A e, f \in db : owner[e] = owner[f] => e = f

(* When nobody waits and nobody wakes, all memory was given back: neither  *)
(* the waker that comes first nor the one that comes late leaves an entry  *)
(* behind (rpc.c, wq_sleep and wq_wakeup).                                 *)
NothingLeft ==
  (/\ memory = "ok"
   /\ \A k \in Keys : sleeper[k] = "out"
   /\ \A w \in Wakers : waker[w] = "out")
  => db = {} /\ \A e \in Entries : owner[e] = None

(* A thread that was marked comes back from its sleep, in whatever order   *)
(* the requests to sleep and to wake it arrive (rpc.c, wq_entry_get).      *)
MarkedThreadsWake ==
  \A k \in Keys : request[k] = "done" ~> sleeper[k] = "out" \/ memory = "short"
-----------------------------------------------------------------------------
(* The parts of the inductive invariant, until an allocation fails.        *)

Wakes(w, k) == waker[w] # "out" /\ target[w] = k

(* One wake-up per wait, and only for a thread that has not come back.     *)
WakersFit ==
  /\ \A w \in Wakers : waker[w] # "out" =>
       /\ target[w] \in Keys
       /\ request[target[w]] = "done"
       /\ sleeper[target[w]] \in {"get", "asleep"}
  /\ \A w, v \in Wakers, k \in Keys : Wakes(w, k) /\ Wakes(v, k) => w = v

SleepersFit ==
  \A k \in Keys :
    /\ request[k] = "none" <=> sleeper[k] = "out"
    /\ sleeper[k] \in {"delete", "free", "woken"} => request[k] = "done"
    /\ sleeper[k] = "free" =>
         held[k] \in Entries /\ held[k] \notin db /\ owner[held[k]] = k

(* An entry on the list waits for its sleeper; it is completed by the one  *)
(* wake-up of that wait.                                                   *)
EntriesFit ==
  \A e \in db :
    /\ owner[e] \in Keys
    /\ sleeper[owner[e]] \in {"get", "asleep", "delete"}
    /\ completed[e] > 0 =>
         /\ request[owner[e]] = "done"
         /\ \A w \in Wakers : ~Wakes(w, owner[e])

(* The inductive invariant.                                                *)
QueueInv ==
  /\ TypeOK
  /\ memory = "ok" =>
       HeldEntriesLive /\ OneEntryPerKey /\ WakersFit /\ SleepersFit /\ EntriesFit
=============================================================================
