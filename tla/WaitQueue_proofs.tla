-------------------------- MODULE WaitQueue_proofs --------------------------
(***************************************************************************)
(* Proofs about WaitQueue, for any number of threads, wakers and entries.  *)
(* The invariant is QueueInv: for each wait there is one wake-up, and only *)
(* it completes the entry of the thread.                                   *)
(***************************************************************************)
EXTENDS WaitQueue, TLAPS

LEMMA InitInv == Init => QueueInv
  <1> SUFFICES ASSUME Init PROVE QueueInv
    OBVIOUS
  <1>1. TypeOK
    BY WaitQueueAssumption DEF Init, TypeOK
  <1>2. HeldEntriesLive /\ OneEntryPerKey
    BY DEF Init, HeldEntriesLive, OneEntryPerKey
  <1>3. WakersFit
    BY DEF Init, WakersFit, Wakes
  <1>4. SleepersFit /\ EntriesFit
    BY DEF Init, SleepersFit, EntriesFit
  <1> QED BY <1>1, <1>2, <1>3, <1>4 DEF QueueInv

LEMMA WaitInv ==
  ASSUME QueueInv, memory = "ok", NEW k \in Keys, Wait(k)
  PROVE  QueueInv'
  <1> USE DEF QueueInv, Wait, wakeVars, entryVars
  <1>1. TypeOK'
    BY WaitQueueAssumption DEF TypeOK
  <1>2. HeldEntriesLive' /\ OneEntryPerKey'
    BY DEF TypeOK, HeldEntriesLive, OneEntryPerKey
  <1>3. WakersFit'
    BY DEF TypeOK, WakersFit, Wakes
  <1>4. SleepersFit' /\ EntriesFit'
    BY DEF TypeOK, SleepersFit, EntriesFit, Wakes
  <1> QED BY <1>1, <1>2, <1>3, <1>4

LEMMA MarkInv ==
  ASSUME QueueInv, memory = "ok", NEW w \in Wakers, NEW k \in Keys, Mark(w, k)
  PROVE  QueueInv'
  <1> USE DEF QueueInv, Mark, sleepVars, entryVars
  <1>1. TypeOK'
    BY DEF TypeOK
  <1>2. HeldEntriesLive' /\ OneEntryPerKey'
    BY DEF TypeOK, HeldEntriesLive, OneEntryPerKey
  <1>3. WakersFit'
    BY DEF TypeOK, WakersFit, SleepersFit, Wakes
  <1>4. SleepersFit'
    BY DEF TypeOK, SleepersFit
  <1>5. EntriesFit'
    BY DEF TypeOK, EntriesFit, Wakes
  <1> QED BY <1>1, <1>2, <1>3, <1>4, <1>5

LEMMA LookInv ==
  ASSUME QueueInv, memory = "ok", NEW k \in Keys, Look(k)
  PROVE  QueueInv'
  <1> USE DEF QueueInv, Look, wakeVars, entryVars
  <1>1. TypeOK'
    BY DEF TypeOK
  <1>2. HeldEntriesLive' /\ OneEntryPerKey'
    BY DEF TypeOK, HeldEntriesLive, OneEntryPerKey
  <1>3. WakersFit'
    BY DEF TypeOK, WakersFit, Wakes
  <1>4. SleepersFit' /\ EntriesFit'
    BY DEF TypeOK, SleepersFit, EntriesFit, Wakes
  <1> QED BY <1>1, <1>2, <1>3, <1>4

(* wq_entry_get never reuses the memory of an entry that is still in use.  *)
LEMMA EntryGetResult ==
  ASSUME QueueInv, memory = "ok", NEW k \in Keys, NEW e \in Entries, EntryGet(k, e)
  PROVE  /\ db' = db \cup {e} /\ owner'[e] = k
         /\ \A f \in Entries \ {e} :
              owner'[f] = owner[f] /\ completed'[f] = completed[f]
         /\ e \notin db => owner[e] = None /\ completed'[e] = 0
         /\ e \in db => completed'[e] = completed[e] /\ owner[e] = k
         /\ \A f \in db : owner[f] = k => f = e
         /\ owner' \in [Entries -> Keys \cup {None}]
         /\ completed' \in [Entries -> Nat]
         /\ UNCHANGED memory
  BY WaitQueueAssumption
     DEF QueueInv, TypeOK, EntryGet, Found, EntriesFit, OneEntryPerKey, entryVars

LEMMA SleepGetInv ==
  ASSUME QueueInv, memory = "ok", memory' = "ok", NEW k \in Keys, SleepGet(k)
  PROVE  QueueInv'
  <1>1. PICK e \in Entries : EntryGet(k, e)
                             /\ held' = [held EXCEPT ![k] = e]
                             /\ sleeper' = [sleeper EXCEPT ![k] = "asleep"]
    BY DEF SleepGet, NoEntry
  <1>2. sleeper[k] = "get" /\ UNCHANGED <<request, waits, waker, target, found>>
    BY DEF SleepGet, secureVars, wakeVars
  <1> DEFINE Result ==
         /\ db' = db \cup {e} /\ owner'[e] = k
         /\ \A f \in Entries \ {e} :
              owner'[f] = owner[f] /\ completed'[f] = completed[f]
         /\ e \notin db => owner[e] = None /\ completed'[e] = 0
         /\ e \in db => completed'[e] = completed[e] /\ owner[e] = k
         /\ \A f \in db : owner[f] = k => f = e
         /\ owner' \in [Entries -> Keys \cup {None}]
         /\ completed' \in [Entries -> Nat]
         /\ UNCHANGED memory
  <1>3. Result
    BY <1>1, EntryGetResult
  <1> USE DEF QueueInv
  <1>4. TypeOK'
    BY <1>1, <1>2, <1>3 DEF TypeOK
  <1>5. HeldEntriesLive'
    BY <1>1, <1>2, <1>3, WaitQueueAssumption DEF TypeOK, HeldEntriesLive, WakersFit
  <1>6. OneEntryPerKey'
    BY <1>3 DEF TypeOK, OneEntryPerKey
  <1>7. WakersFit'
    BY <1>1, <1>2 DEF TypeOK, WakersFit, Wakes
  <1>8. SleepersFit'
    BY <1>1, <1>2, <1>3, WaitQueueAssumption DEF TypeOK, SleepersFit
  <1>9. EntriesFit'
    BY <1>1, <1>2, <1>3 DEF TypeOK, EntriesFit, Wakes
  <1> QED BY <1>4, <1>5, <1>6, <1>7, <1>8, <1>9

LEMMA AwakeInv ==
  ASSUME QueueInv, memory = "ok", NEW k \in Keys, Awake(k)
  PROVE  QueueInv'
  <1>1. /\ sleeper[k] = "asleep" /\ held[k] \in db /\ owner[held[k]] = k
        /\ held[k] \in Entries /\ completed[held[k]] > 0
    BY DEF Awake, IsComplete, QueueInv, HeldEntriesLive, TypeOK
  <1>2. request[k] = "done" /\ \A w \in Wakers : ~Wakes(w, k)
    BY <1>1 DEF QueueInv, EntriesFit
  <1> USE DEF QueueInv, Awake, secureVars, wakeVars
  <1>3. TypeOK'
    BY <1>1 DEF TypeOK
  <1>4. HeldEntriesLive' /\ OneEntryPerKey'
    BY <1>1 DEF TypeOK, HeldEntriesLive, OneEntryPerKey
  <1>5. WakersFit'
    BY <1>2 DEF TypeOK, WakersFit, Wakes
  <1>6. SleepersFit'
    BY <1>2 DEF TypeOK, SleepersFit
  <1>7. EntriesFit'
    BY <1>1, <1>2 DEF TypeOK, EntriesFit, Wakes
  <1> QED BY <1>3, <1>4, <1>5, <1>6, <1>7

LEMMA ListDelInv ==
  ASSUME QueueInv, memory = "ok", NEW k \in Keys, ListDel(k)
  PROVE  QueueInv'
  <1>1. /\ sleeper[k] = "delete" /\ held[k] \in db /\ owner[held[k]] = k
        /\ held[k] \in Entries
    BY DEF ListDel, QueueInv, HeldEntriesLive, TypeOK
  <1>2. \A e \in db : owner[e] = k => e = held[k]
    BY <1>1 DEF QueueInv, OneEntryPerKey
  <1>3. \A w \in Wakers : ~Wakes(w, k)
    BY <1>1 DEF QueueInv, WakersFit, Wakes
  <1> USE DEF QueueInv, ListDel, secureVars, wakeVars
  <1>4. TypeOK'
    BY DEF TypeOK
  <1>5. HeldEntriesLive' /\ OneEntryPerKey'
    BY <1>1, <1>3 DEF TypeOK, HeldEntriesLive, OneEntryPerKey, Wakes
  <1>6. WakersFit'
    BY <1>3 DEF TypeOK, WakersFit, Wakes
  <1>7. SleepersFit'
    BY <1>1 DEF TypeOK, SleepersFit
  <1>8. EntriesFit'
    BY <1>2 DEF TypeOK, EntriesFit, Wakes
  <1> QED BY <1>4, <1>5, <1>6, <1>7, <1>8

LEMMA FreeInv ==
  ASSUME QueueInv, memory = "ok", NEW k \in Keys, Free(k)
  PROVE  QueueInv'
  <1>1. /\ sleeper[k] = "free" /\ request[k] = "done"
        /\ held[k] \in Entries /\ held[k] \notin db /\ owner[held[k]] = k
    BY DEF Free, QueueInv, SleepersFit
  <1> USE DEF QueueInv, Free, Freed, secureVars, wakeVars
  <1>2. TypeOK'
    BY DEF TypeOK
  <1>3. HeldEntriesLive' /\ OneEntryPerKey'
    BY <1>1 DEF TypeOK, HeldEntriesLive, OneEntryPerKey
  <1>4. WakersFit'
    BY <1>1 DEF TypeOK, WakersFit, Wakes
  <1>5. SleepersFit'
    BY <1>1, WaitQueueAssumption DEF TypeOK, SleepersFit
  <1>6. EntriesFit'
    BY <1>1 DEF TypeOK, EntriesFit, Wakes
  <1> QED BY <1>2, <1>3, <1>4, <1>5, <1>6

LEMMA WakeGetInv ==
  ASSUME QueueInv, memory = "ok", memory' = "ok", NEW w \in Wakers, WakeGet(w)
  PROVE  QueueInv'
  <1> DEFINE k == target[w]
  <1>1. PICK e \in Entries : EntryGet(k, e)
                             /\ found' = [found EXCEPT ![w] = e]
                             /\ waker' = [waker EXCEPT ![w] = "complete"]
                             /\ UNCHANGED target
    BY DEF WakeGet, NoEntry
  <1>2. waker[w] = "get" /\ UNCHANGED <<request, waits, sleeper, held>>
    BY DEF WakeGet, secureVars, sleepVars
  <1>3. k \in Keys /\ request[k] = "done" /\ sleeper[k] \in {"get", "asleep"}
    BY <1>2 DEF QueueInv, WakersFit
  <1> HIDE DEF k
  <1> DEFINE Result ==
         /\ db' = db \cup {e} /\ owner'[e] = k
         /\ \A f \in Entries \ {e} :
              owner'[f] = owner[f] /\ completed'[f] = completed[f]
         /\ e \notin db => owner[e] = None /\ completed'[e] = 0
         /\ e \in db => completed'[e] = completed[e] /\ owner[e] = k
         /\ \A f \in db : owner[f] = k => f = e
         /\ owner' \in [Entries -> Keys \cup {None}]
         /\ completed' \in [Entries -> Nat]
         /\ UNCHANGED memory
  <1>4. Result
    BY <1>1, <1>3, EntryGetResult
  <1> USE DEF QueueInv
  <1>5. TypeOK'
    BY <1>1, <1>2, <1>4 DEF TypeOK
  <1>6. HeldEntriesLive'
    BY <1>1, <1>2, <1>4, WaitQueueAssumption DEF TypeOK, HeldEntriesLive, WakersFit, k
  <1>7. OneEntryPerKey'
    BY <1>4 DEF TypeOK, OneEntryPerKey
  <1>8. WakersFit'
    BY <1>1, <1>2 DEF TypeOK, WakersFit, Wakes
  <1>9. SleepersFit'
    BY <1>2, <1>3, <1>4, WaitQueueAssumption DEF TypeOK, SleepersFit
  <1>10. EntriesFit'
    BY <1>1, <1>2, <1>3, <1>4 DEF TypeOK, EntriesFit, Wakes
  <1> QED BY <1>5, <1>6, <1>7, <1>8, <1>9, <1>10

LEMMA CompleteInv ==
  ASSUME QueueInv, memory = "ok", NEW w \in Wakers, Complete(w)
  PROVE  QueueInv'
  <1>1. /\ waker[w] = "complete" /\ found[w] \in db /\ owner[found[w]] = target[w]
        /\ found[w] \in Entries /\ target[w] \in Keys
        /\ request[target[w]] = "done"
    BY DEF Complete, QueueInv, HeldEntriesLive, WakersFit, TypeOK
  <1>2. \A v \in Wakers \ {w} : ~Wakes(v, target[w])
    BY <1>1 DEF QueueInv, WakersFit, Wakes
  <1> USE DEF QueueInv, Complete, secureVars, sleepVars
  <1>3. TypeOK'
    BY <1>1 DEF TypeOK
  <1>4. HeldEntriesLive' /\ OneEntryPerKey'
    BY DEF TypeOK, HeldEntriesLive, OneEntryPerKey
  <1>5. WakersFit'
    BY DEF TypeOK, WakersFit, Wakes
  <1>6. SleepersFit'
    BY DEF TypeOK, SleepersFit
  <1>7. EntriesFit'
    BY <1>1, <1>2 DEF TypeOK, EntriesFit, Wakes
  <1> QED BY <1>3, <1>4, <1>5, <1>6, <1>7

LEMMA TypeStep ==
  TypeOK /\ [Next]_vars => TypeOK' /\ (memory = "short" => memory' = "short")
  <1> SUFFICES ASSUME TypeOK, [Next]_vars
               PROVE  TypeOK' /\ (memory = "short" => memory' = "short")
    OBVIOUS
  <1> USE DEF TypeOK, secureVars, sleepVars, wakeVars, entryVars
  <1>1. CASE UNCHANGED vars
    BY <1>1 DEF vars
  <1>2. ASSUME NEW k \in Keys, Wait(k) \/ SleepStep(k)
        PROVE  TypeOK' /\ (memory = "short" => memory' = "short")
    <2>1. CASE Wait(k)
      BY <2>1, WaitQueueAssumption DEF Wait
    <2>2. CASE SleepGet(k)
      BY <2>2 DEF SleepGet, EntryGet, NoEntry
    <2>3. CASE Awake(k)
      <3>1. \A e \in Entries : completed'[e] \in Nat
        BY <2>3 DEF Awake, IsComplete
      <3>2. completed' \in [Entries -> Nat]
        BY <2>3, <3>1 DEF Awake
      <3> QED BY <2>3, <3>2 DEF Awake
    <2>4. CASE ListDel(k) \/ Look(k)
      BY <2>4 DEF ListDel, Look
    <2>5. CASE Free(k)
      BY <2>5 DEF Free, Freed
    <2> QED BY <1>2, <2>1, <2>2, <2>3, <2>4, <2>5 DEF SleepStep
  <1>3. ASSUME NEW w \in Wakers, (\E k \in Keys : Mark(w, k)) \/ WakeStep(w)
        PROVE  TypeOK' /\ (memory = "short" => memory' = "short")
    <2>1. CASE \E k \in Keys : Mark(w, k)
      BY <2>1 DEF Mark
    <2>2. CASE WakeGet(w)
      BY <2>2 DEF WakeGet, EntryGet, NoEntry
    <2>3. CASE Complete(w)
      <3>1. \A e \in Entries : completed'[e] \in Nat
        BY <2>3 DEF Complete
      <3>2. completed' \in [Entries -> Nat]
        BY <2>3, <3>1 DEF Complete
      <3> QED BY <2>3, <3>2 DEF Complete
    <2> QED BY <1>3, <2>1, <2>2, <2>3 DEF WakeStep
  <1> QED BY <1>1, <1>2, <1>3 DEF Next

LEMMA StepInv ==
  ASSUME QueueInv, [Next]_vars
  PROVE  QueueInv'
  <1>1. CASE memory' # "ok"
    BY <1>1, TypeStep DEF QueueInv
  <1>2. CASE memory' = "ok" /\ UNCHANGED vars
    BY <1>2 DEF vars, secureVars, sleepVars, wakeVars, entryVars, QueueInv, TypeOK,
       HeldEntriesLive, OneEntryPerKey, WakersFit, SleepersFit, EntriesFit, Wakes
  <1>3. CASE memory' = "ok" /\ \E k \in Keys : Wait(k) \/ SleepStep(k)
    BY <1>3, TypeStep, WaitInv, SleepGetInv, AwakeInv, ListDelInv, FreeInv, LookInv
       DEF SleepStep, QueueInv, TypeOK
  <1>4. CASE memory' = "ok" /\ \E w \in Wakers : (\E k \in Keys : Mark(w, k)) \/ WakeStep(w)
    BY <1>4, TypeStep, MarkInv, WakeGetInv, CompleteInv DEF WakeStep, QueueInv, TypeOK
  <1> QED BY <1>1, <1>2, <1>3, <1>4 DEF Next

(* The inductive invariant: who holds an entry, who is on the list and who *)
(* is to be woken agree at every step (wq_entry_get, wq_sleep, wq_wakeup), *)
(* until an allocation fails.                                              *)
THEOREM QueueAgrees == Spec => []QueueInv
  <1>1. QueueInv /\ [Next]_vars => QueueInv'
    BY StepInv
  <1> QED BY InitInv, <1>1, PTL DEF Spec

(* As long as the kernel has memory, a call that completes or removes an   *)
(* entry has one that is on the list and its own: wq_wakeup may call       *)
(* complete() outside the mutex, because the sleeper cannot free the entry *)
(* before that, and no second wake-up exists for the wait (rpc.c:94-100).  *)
THEOREM EntriesLive == Spec => []HeldEntriesLive
  <1>1. QueueInv => HeldEntriesLive
    BY DEF QueueInv, HeldEntriesLive
  <1> QED BY QueueAgrees, <1>1, PTL

(* The variables of the wait queue keep their types.                       *)
THEOREM WaitTyped == Spec => []TypeOK
  <1>1. QueueInv => TypeOK
    BY DEF QueueInv
  <1> QED BY QueueAgrees, <1>1, PTL
-----------------------------------------------------------------------------
(* The entries alone, also after an allocation failed: whose they are, and *)
(* where the ones that are not free can be found.                          *)

EntriesHaveKeys ==
  /\ \A e \in db : owner[e] \in Keys
  /\ \A w \in Wakers : waker[w] = "get" => target[w] \in Keys

SleepersOwn ==
  \A k \in Keys :
    /\ sleeper[k] \in {"asleep", "delete"} => held[k] \in db /\ owner[held[k]] = k
    /\ sleeper[k] = "free" =>
         held[k] \in Entries /\ held[k] \notin db /\ owner[held[k]] = k

EntriesFound ==
  \A e \in Entries : owner[e] # None =>
    e \in db \/ \E k \in Keys : sleeper[k] = "free" /\ held[k] = e

EntryInv ==
  TypeOK /\ EntriesHaveKeys /\ SleepersOwn /\ EntriesFound /\ OneEntryPerKey

LEMMA EntryGetInv ==
  ASSUME EntryInv, NEW k \in Keys, NEW e \in Entries, EntryGet(k, e),
         UNCHANGED <<held, sleeper>> \/ (\E s \in Keys :
           /\ s = k
           /\ sleeper[s] = "get"
           /\ held' = [held EXCEPT ![s] = e]
           /\ sleeper' = [sleeper EXCEPT ![s] = "asleep"])
  PROVE  /\ SleepersOwn' /\ EntriesFound' /\ OneEntryPerKey'
         /\ \A f \in db' : owner'[f] \in Keys
  <1>1. e \in db' /\ owner'[e] = k /\ db \subseteq db' /\ db' \subseteq db \cup {e}
    BY DEF EntryGet, Found, entryVars, EntryInv, TypeOK
  <1>2. \A f \in Entries : f # e => owner'[f] = owner[f]
    BY DEF EntryGet, entryVars, EntryInv, TypeOK
  <1>3. \A f \in db : owner'[f] = owner[f]
    BY WaitQueueAssumption DEF EntryGet, entryVars, EntryInv, TypeOK, EntriesHaveKeys
  <1>4. \A f \in db' : owner'[f] \in Keys
    BY <1>1, <1>3 DEF EntryInv, EntriesHaveKeys
  <1>5. OneEntryPerKey'
    <2>1. CASE e \in db
      BY <1>1, <1>3, <2>1 DEF EntryInv, OneEntryPerKey
    <2>2. CASE e \notin db
      <3>1. \A f \in db : owner[f] # k
        BY <2>2 DEF EntryGet, Found
      <3> QED BY <1>1, <1>3, <3>1 DEF EntryInv, OneEntryPerKey
    <2> QED BY <2>1, <2>2
  <1>6. e \in db \/ owner[e] = None
    BY DEF EntryGet, Found
  <1>7. SleepersOwn'
    <2> SUFFICES ASSUME NEW s \in Keys
                 PROVE  /\ sleeper'[s] \in {"asleep", "delete"} =>
                             held'[s] \in db' /\ owner'[held'[s]] = s
                        /\ sleeper'[s] = "free" =>
                             /\ held'[s] \in Entries /\ held'[s] \notin db'
                             /\ owner'[held'[s]] = s
      BY DEF SleepersOwn
    <2>1. CASE sleeper'[s] = sleeper[s] /\ held'[s] = held[s]
      <3>1. CASE sleeper[s] = "free"
        <4>1. held[s] # e
          BY <1>6, <3>1, WaitQueueAssumption DEF EntryInv, SleepersOwn
        <4> QED BY <1>1, <1>2, <2>1, <3>1, <4>1 DEF EntryInv, SleepersOwn
      <3> QED BY <1>1, <1>3, <2>1, <3>1 DEF EntryInv, SleepersOwn
    <2>2. CASE s = k /\ held'[s] = e /\ sleeper'[s] = "asleep"
      BY <1>1, <2>2
    <2> QED BY <2>1, <2>2 DEF EntryInv, TypeOK
  <1>8. EntriesFound'
    <2> SUFFICES ASSUME NEW f \in Entries, owner'[f] # None, f # e
                 PROVE  f \in db' \/ \E s \in Keys : sleeper'[s] = "free" /\ held'[s] = f
      BY <1>1 DEF EntriesFound
    <2>1. CASE f \in db
      BY <1>1, <2>1
    <2>2. CASE f \notin db
      <3>1. PICK s \in Keys : sleeper[s] = "free" /\ held[s] = f
        BY <1>2, <2>2 DEF EntryInv, EntriesFound
      <3>2. sleeper'[s] = "free" /\ held'[s] = f
        BY <3>1 DEF EntryInv, TypeOK
      <3> QED BY <3>2
    <2> QED BY <2>1, <2>2
  <1> QED BY <1>4, <1>5, <1>7, <1>8

LEMMA EntryStep == EntryInv /\ [Next]_vars => EntryInv'
  <1> SUFFICES ASSUME EntryInv, [Next]_vars PROVE EntryInv'
    OBVIOUS
  <1>0. TypeOK /\ TypeOK'
    BY TypeStep DEF EntryInv
  <1>1. CASE UNCHANGED vars
    BY <1>0, <1>1 DEF vars, secureVars, sleepVars, wakeVars, entryVars, EntryInv,
       EntriesHaveKeys, SleepersOwn, EntriesFound, OneEntryPerKey
  <1>2. ASSUME NEW k \in Keys, Wait(k) \/ SleepStep(k)
        PROVE  EntryInv'
    <2>1. CASE Wait(k) \/ Look(k)
      <3>1. \A s \in Keys : /\ held'[s] = held[s]
                            /\ s # k => sleeper'[s] = sleeper[s]
        BY <1>0, <2>1 DEF Wait, Look, TypeOK
      <3>2. sleeper[k] \in {"out", "woken"} /\ sleeper'[k] \in {"out", "get"}
        BY <1>0, <2>1 DEF Wait, Look, TypeOK
      <3>3. UNCHANGED <<owner, db, waker, target>>
        BY <2>1 DEF Wait, Look, wakeVars, entryVars
      <3>4. SleepersOwn'
        BY <3>1, <3>2, <3>3 DEF EntryInv, SleepersOwn
      <3>5. EntriesFound'
        BY <3>1, <3>2, <3>3 DEF EntryInv, EntriesFound
      <3> QED BY <1>0, <3>3, <3>4, <3>5 DEF EntryInv, EntriesHaveKeys, OneEntryPerKey
    <2>2. CASE SleepGet(k)
      <3>1. CASE \E e \in Entries :
                   /\ EntryGet(k, e)
                   /\ held' = [held EXCEPT ![k] = e]
                   /\ sleeper' = [sleeper EXCEPT ![k] = "asleep"]
        <4>1. PICK e \in Entries :
                   /\ EntryGet(k, e)
                   /\ held' = [held EXCEPT ![k] = e]
                   /\ sleeper' = [sleeper EXCEPT ![k] = "asleep"]
          BY <3>1
        <4>2. /\ SleepersOwn' /\ EntriesFound' /\ OneEntryPerKey'
              /\ \A f \in db' : owner'[f] \in Keys
          BY <2>2, <4>1, EntryGetInv DEF SleepGet
        <4>3. UNCHANGED <<waker, target>>
          BY <2>2 DEF SleepGet, wakeVars
        <4> QED BY <1>0, <4>2, <4>3 DEF EntryInv, EntriesHaveKeys
      <3>2. CASE /\ NoEntry(k)
                 /\ sleeper' = [sleeper EXCEPT ![k] = "woken"]
                 /\ UNCHANGED held
        <4>1. UNCHANGED <<owner, db, waker, target, held>>
          BY <2>2, <3>2 DEF SleepGet, NoEntry, wakeVars
        <4>2. /\ sleeper[k] = "get" /\ sleeper'[k] = "woken"
              /\ \A s \in Keys : s # k => sleeper'[s] = sleeper[s]
          BY <1>0, <2>2, <3>2 DEF SleepGet, TypeOK
        <4>3. SleepersOwn'
          BY <4>1, <4>2 DEF EntryInv, SleepersOwn
        <4>4. EntriesFound'
          BY <4>1, <4>2 DEF EntryInv, EntriesFound
        <4> QED BY <1>0, <4>1, <4>3, <4>4 DEF EntryInv, EntriesHaveKeys, OneEntryPerKey
      <3> QED BY <2>2, <3>1, <3>2 DEF SleepGet
    <2>3. CASE Awake(k)
      <3>1. UNCHANGED <<owner, db, waker, target, held>>
        BY <2>3 DEF Awake, wakeVars
      <3>2. /\ sleeper[k] = "asleep" /\ sleeper'[k] = "delete"
            /\ \A s \in Keys : s # k => sleeper'[s] = sleeper[s]
        BY <1>0, <2>3 DEF Awake, TypeOK
      <3>3. SleepersOwn'
        BY <3>1, <3>2 DEF EntryInv, SleepersOwn
      <3>4. EntriesFound'
        BY <3>1, <3>2 DEF EntryInv, EntriesFound
      <3> QED BY <1>0, <3>1, <3>3, <3>4 DEF EntryInv, EntriesHaveKeys, OneEntryPerKey
    <2>4. CASE ListDel(k)
      <3>1. UNCHANGED <<owner, waker, target, held>> /\ db' = db \ {held[k]}
        BY <2>4 DEF ListDel, wakeVars
      <3>2. /\ sleeper[k] = "delete" /\ sleeper'[k] = "free"
            /\ \A s \in Keys : s # k => sleeper'[s] = sleeper[s]
        BY <1>0, <2>4 DEF ListDel, TypeOK
      <3>3. held[k] \in db /\ owner[held[k]] = k
        BY <3>2 DEF EntryInv, SleepersOwn
      <3>4. \A s \in Keys : s # k /\ sleeper[s] \in {"asleep", "delete"}
              => held[s] # held[k]
        BY <3>3 DEF EntryInv, SleepersOwn
      <3>5. SleepersOwn'
        BY <1>0, <3>1, <3>2, <3>3, <3>4 DEF EntryInv, SleepersOwn, TypeOK
      <3>6. EntriesFound'
        BY <3>1, <3>2 DEF EntryInv, EntriesFound
      <3> QED BY <1>0, <3>1, <3>5, <3>6 DEF EntryInv, EntriesHaveKeys, OneEntryPerKey
    <2>5. CASE Free(k)
      <3>1. UNCHANGED <<db, waker, target>> /\ owner' = [owner EXCEPT ![held[k]] = None]
        BY <2>5 DEF Free, Freed, wakeVars
      <3>2. /\ sleeper[k] = "free" /\ sleeper'[k] = "woken"
            /\ \A s \in Keys : s # k => sleeper'[s] = sleeper[s] /\ held'[s] = held[s]
        BY <1>0, <2>5 DEF Free, TypeOK
      <3>3. held[k] \in Entries /\ held[k] \notin db /\ owner[held[k]] = k
        BY <3>2 DEF EntryInv, SleepersOwn
      <3>4. /\ owner'[held[k]] = None
            /\ \A e \in Entries : e # held[k] => owner'[e] = owner[e]
        BY <1>0, <3>1, <3>3 DEF TypeOK
      <3>5. \A e \in db : owner'[e] = owner[e]
        BY <1>0, <3>3, <3>4 DEF TypeOK
      <3>6. SleepersOwn'
        <4> SUFFICES ASSUME NEW s \in Keys, s # k
                     PROVE  /\ sleeper[s] \in {"asleep", "delete"} =>
                                 held[s] \in db /\ owner'[held[s]] = s
                            /\ sleeper[s] = "free" =>
                                 /\ held[s] \in Entries /\ held[s] \notin db
                                 /\ owner'[held[s]] = s
          BY <3>1, <3>2 DEF SleepersOwn
        <4>1. sleeper[s] = "free" => held[s] # held[k]
          BY <3>3 DEF EntryInv, SleepersOwn
        <4> QED BY <3>4, <3>5, <4>1 DEF EntryInv, SleepersOwn
      <3>7. EntriesFound'
        <4> SUFFICES ASSUME NEW e \in Entries, owner'[e] # None, e \notin db
                     PROVE  \E s \in Keys : sleeper'[s] = "free" /\ held'[s] = e
          BY <3>1 DEF EntriesFound
        <4>1. e # held[k] /\ owner[e] # None
          BY <3>4
        <4>2. PICK s \in Keys : sleeper[s] = "free" /\ held[s] = e
          BY <4>1 DEF EntryInv, EntriesFound
        <4> QED BY <3>2, <4>1, <4>2
      <3>8. EntriesHaveKeys' /\ OneEntryPerKey'
        BY <3>1, <3>5 DEF EntryInv, EntriesHaveKeys, OneEntryPerKey
      <3> QED BY <1>0, <3>6, <3>7, <3>8 DEF EntryInv
    <2> QED BY <1>2, <2>1, <2>2, <2>3, <2>4, <2>5 DEF SleepStep
  <1>3. ASSUME NEW w \in Wakers, (\E k \in Keys : Mark(w, k)) \/ WakeStep(w)
        PROVE  EntryInv'
    <2>1. CASE \E k \in Keys : Mark(w, k)
      <3>1. UNCHANGED <<owner, db, held, sleeper>>
        BY <2>1 DEF Mark, sleepVars, entryVars
      <3>2. /\ target'[w] \in Keys
            /\ \A v \in Wakers : v # w => waker'[v] = waker[v] /\ target'[v] = target[v]
        BY <1>0, <2>1 DEF Mark, TypeOK
      <3> QED BY <1>0, <3>1, <3>2
              DEF EntryInv, EntriesHaveKeys, SleepersOwn, EntriesFound, OneEntryPerKey
    <2>2. CASE WakeGet(w)
      <3>1. target[w] \in Keys
        BY <2>2 DEF WakeGet, EntryInv, EntriesHaveKeys
      <3>2. /\ UNCHANGED <<held, sleeper>>
            /\ waker'[w] # "get"
            /\ \A v \in Wakers : v # w => waker'[v] = waker[v] /\ target'[v] = target[v]
        BY <1>0, <2>2 DEF WakeGet, sleepVars, TypeOK
      <3>3. CASE \E e \in Entries : EntryGet(target[w], e)
        <4>1. PICK e \in Entries : EntryGet(target[w], e)
          BY <3>3
        <4>2. /\ SleepersOwn' /\ EntriesFound' /\ OneEntryPerKey'
              /\ \A f \in db' : owner'[f] \in Keys
          BY <3>1, <3>2, <4>1, EntryGetInv
        <4> QED BY <1>0, <3>2, <4>2 DEF EntryInv, EntriesHaveKeys
      <3>4. CASE NoEntry(target[w])
        BY <1>0, <3>2, <3>4 DEF NoEntry, EntryInv, EntriesHaveKeys, SleepersOwn,
           EntriesFound, OneEntryPerKey
      <3> QED BY <2>2, <3>3, <3>4 DEF WakeGet
    <2>3. CASE Complete(w)
      <3>1. UNCHANGED <<owner, db, held, sleeper>>
        BY <2>3 DEF Complete, sleepVars
      <3>2. /\ waker'[w] = "out"
            /\ \A v \in Wakers : v # w => waker'[v] = waker[v] /\ target'[v] = target[v]
        BY <1>0, <2>3 DEF Complete, TypeOK
      <3> QED BY <1>0, <3>1, <3>2
              DEF EntryInv, EntriesHaveKeys, SleepersOwn, EntriesFound, OneEntryPerKey
    <2> QED BY <1>3, <2>1, <2>2, <2>3 DEF WakeStep
  <1> QED BY <1>1, <1>2, <1>3 DEF Next

LEMMA EntryInvHolds == Spec => []EntryInv
  <1>1. Init => EntryInv
    BY InitInv DEF Init, QueueInv, EntryInv, EntriesHaveKeys, SleepersOwn,
       EntriesFound, OneEntryPerKey
  <1> QED BY <1>1, EntryStep, PTL DEF Spec

(* The sleeper and its waker meet at one entry: whichever comes first, and *)
(* whatever allocation failed before, wq_entry_get never puts a second     *)
(* entry of a key on the list.                                             *)
THEOREM MeetAtOneEntry == Spec => []OneEntryPerKey
  <1>1. EntryInv => OneEntryPerKey
    BY DEF EntryInv
  <1> QED BY <1>1, EntryInvHolds, PTL

(* When nobody waits and nobody wakes, every entry was taken off the list  *)
(* and freed (wq_sleep), as long as the kernel has memory.                 *)
THEOREM AllGivenBack == Spec => []NothingLeft
  <1>1. EntryInv /\ QueueInv => NothingLeft
    <2> SUFFICES ASSUME EntryInv, QueueInv, memory = "ok",
                        \A k \in Keys : sleeper[k] = "out"
                 PROVE  db = {} /\ \A e \in Entries : owner[e] = None
      BY DEF NothingLeft
    <2>1. db = {}
      BY DEF QueueInv, EntriesFit
    <2>2. \A e \in Entries : owner[e] = None
      BY <2>1 DEF EntryInv, EntriesFound
    <2> QED BY <2>1, <2>2
  <1> QED BY <1>1, EntryInvHolds, QueueAgrees, PTL
-----------------------------------------------------------------------------
(***************************************************************************)
(* No wake-up is lost: a marked thread that has not come back has an entry *)
(* that is completed, or the call that will complete it is on its way.     *)
(***************************************************************************)

Signalled(k) == \E e \in db : owner[e] = k /\ completed[e] > 0

OnTheWay(k) == \E w \in Wakers : Wakes(w, k)

Waited(k) == request[k] = "done" /\ sleeper[k] \in {"get", "asleep"}

WakeupComing ==
  memory = "ok" => \A k \in Keys : Waited(k) => Signalled(k) \/ OnTheWay(k)

(* The step leaves what wakes k alone.                                     *)
SignalKept(k) ==
  \A e \in db : owner[e] = k /\ completed[e] > 0 =>
    e \in db' /\ owner'[e] = k /\ completed'[e] > 0

WayKept(k) == \A w \in Wakers : Wakes(w, k) => Wakes(w, k)'

LEMMA ComingKept ==
  ASSUME NEW k \in Keys, SignalKept(k), WayKept(k), Signalled(k) \/ OnTheWay(k)
  PROVE  Signalled(k)' \/ OnTheWay(k)'
  BY DEF SignalKept, WayKept, Signalled, OnTheWay

(* A step of the thread k.                                                 *)
LEMMA SleeperKeepsComing ==
  ASSUME QueueInv, memory = "ok", memory' = "ok", WakeupComing,
         NEW k \in Keys, Wait(k) \/ SleepStep(k), NEW m \in Keys, Waited(m)'
  PROVE  Signalled(m)' \/ OnTheWay(m)'
  <1>1. UNCHANGED <<waker, target>> /\ WayKept(m)
    BY DEF Wait, SleepStep, SleepGet, Awake, ListDel, Free, Look, wakeVars, WayKept, Wakes
  <1>2. TypeOK /\ SleepersFit
    BY DEF QueueInv
  <1>3. Waited(m)
    <2>1. CASE m # k
      BY <1>2, <2>1
         DEF Wait, SleepStep, SleepGet, Awake, ListDel, Free, Look, secureVars, TypeOK, Waited
    <2>2. CASE m = k
      BY <1>2, <2>2
         DEF Wait, SleepStep, SleepGet, Awake, ListDel, Free, Look, secureVars, TypeOK,
             Waited, SleepersFit
    <2> QED BY <2>1, <2>2
  <1>4. SignalKept(m)
    <2>1. CASE Wait(k) \/ Look(k)
      BY <2>1 DEF Wait, Look, entryVars, SignalKept
    <2>2. CASE SleepGet(k)
      <3>1. PICK e \in Entries : EntryGet(k, e)
        BY <2>2 DEF SleepGet, NoEntry
      <3>2. /\ db' = db \cup {e} /\ owner'[e] = k
            /\ \A f \in Entries \ {e} :
                 owner'[f] = owner[f] /\ completed'[f] = completed[f]
            /\ e \in db => completed'[e] = completed[e] /\ owner[e] = k
        BY <3>1, EntryGetResult
      <3> QED BY <1>2, <3>2 DEF SignalKept, TypeOK
    <2>3. CASE Awake(k)
      <3>1. m # k
        BY <1>2, <2>3 DEF Awake, TypeOK, Waited
      <3>2. owner[held[k]] = k
        BY <2>3 DEF Awake, QueueInv, HeldEntriesLive
      <3> QED BY <1>2, <2>3, <3>1, <3>2 DEF Awake, TypeOK, SignalKept
    <2>4. CASE ListDel(k)
      <3>1. m # k
        BY <1>2, <2>4 DEF ListDel, TypeOK, Waited
      <3>2. owner[held[k]] = k
        BY <2>4 DEF ListDel, QueueInv, HeldEntriesLive
      <3> QED BY <2>4, <3>1, <3>2 DEF ListDel, SignalKept
    <2>5. CASE Free(k)
      <3>1. held[k] \notin db
        BY <1>2, <2>5 DEF Free, SleepersFit
      <3> QED BY <1>2, <2>5, <3>1 DEF Free, Freed, TypeOK, SignalKept
    <2> QED BY <2>1, <2>2, <2>3, <2>4, <2>5 DEF SleepStep
  <1> QED BY <1>3, <1>4, <1>1, ComingKept DEF WakeupComing

(* A step of a call that wakes.                                            *)
LEMMA WakerKeepsComing ==
  ASSUME QueueInv, memory = "ok", memory' = "ok", WakeupComing, NEW w \in Wakers,
         (\E k \in Keys : Mark(w, k)) \/ WakeStep(w), NEW m \in Keys, Waited(m)'
  PROVE  Signalled(m)' \/ OnTheWay(m)'
  <1>1. TypeOK /\ WakersFit
    BY DEF QueueInv
  <1>2. CASE \E k \in Keys : Mark(w, k)
    <2>1. PICK k \in Keys : Mark(w, k)
      BY <1>2
    <2>2. CASE m = k
      BY <1>1, <2>1, <2>2 DEF Mark, TypeOK, OnTheWay, Wakes
    <2>3. CASE m # k
      <3>1. Waited(m)
        BY <1>1, <2>1, <2>3 DEF Mark, sleepVars, TypeOK, Waited
      <3>2. SignalKept(m) /\ WayKept(m)
        BY <1>1, <2>1 DEF Mark, entryVars, TypeOK, SignalKept, WayKept, Wakes
      <3> QED BY <3>1, <3>2, ComingKept DEF WakeupComing
    <2> QED BY <2>2, <2>3
  <1>3. CASE WakeGet(w)
    <2>1. PICK e \in Entries : EntryGet(target[w], e)
                               /\ waker' = [waker EXCEPT ![w] = "complete"]
      BY <1>3 DEF WakeGet, NoEntry
    <2>2. target[w] \in Keys
      BY <1>1, <1>3 DEF WakeGet, WakersFit
    <2>3. /\ db' = db \cup {e} /\ owner'[e] = target[w]
          /\ \A f \in Entries \ {e} :
               owner'[f] = owner[f] /\ completed'[f] = completed[f]
          /\ e \in db => completed'[e] = completed[e] /\ owner[e] = target[w]
      BY <2>1, <2>2, EntryGetResult
    <2>4. SignalKept(m)
      BY <1>1, <2>3 DEF SignalKept, TypeOK
    <2>5. Waited(m) /\ WayKept(m)
      BY <1>1, <1>3, <2>1 DEF WakeGet, secureVars, sleepVars, NoEntry, TypeOK, Waited,
         WayKept, Wakes
    <2> QED BY <2>4, <2>5, ComingKept DEF WakeupComing
  <1>4. CASE Complete(w)
    <2>1. /\ found[w] \in db /\ owner[found[w]] = target[w]
          /\ completed[found[w]] \in Nat /\ target[w] \in Keys
      BY <1>1, <1>4 DEF Complete, QueueInv, HeldEntriesLive, WakersFit, TypeOK
    <2>2. /\ UNCHANGED <<owner, db>>
          /\ completed'[found[w]] = completed[found[w]] + 1
          /\ \A e \in Entries : e # found[w] => completed'[e] = completed[e]
      BY <1>1, <1>4, <2>1 DEF Complete, TypeOK
    <2>3. completed'[found[w]] > 0
      BY <2>1, <2>2
    <2>4. CASE target[w] = m
      BY <2>1, <2>2, <2>3, <2>4 DEF Signalled
    <2>5. CASE target[w] # m
      <3>1. Waited(m) /\ WayKept(m)
        BY <1>1, <1>4, <2>5 DEF Complete, secureVars, sleepVars, TypeOK, Waited, WayKept, Wakes
      <3>2. SignalKept(m)
        BY <1>1, <2>2, <2>3 DEF SignalKept, TypeOK
      <3> QED BY <3>1, <3>2, ComingKept DEF WakeupComing
    <2> QED BY <2>4, <2>5
  <1> QED BY <1>2, <1>3, <1>4 DEF WakeStep

LEMMA WakeupComingStep == QueueInv /\ WakeupComing /\ [Next]_vars => WakeupComing'
  <1> SUFFICES ASSUME QueueInv, WakeupComing, [Next]_vars, memory' = "ok",
                      NEW m \in Keys, Waited(m)'
               PROVE  Signalled(m)' \/ OnTheWay(m)'
    BY DEF WakeupComing
  <1>1. memory = "ok"
    BY TypeStep DEF QueueInv, TypeOK
  <1>2. CASE UNCHANGED vars
    BY <1>1, <1>2 DEF vars, secureVars, sleepVars, wakeVars, entryVars, WakeupComing,
       Waited, Signalled, OnTheWay, Wakes
  <1> QED BY <1>1, <1>2, SleeperKeepsComing, WakerKeepsComing DEF Next

MarkedSleepersWoken ==
  memory = "ok" =>
    \A k \in Keys : request[k] = "done" /\ sleeper[k] = "asleep" =>
      IsComplete(held[k]) \/ OnTheWay(k)

(* As long as the kernel has memory, a thread that sleeps after it was     *)
(* marked finds its own entry completed, or a call of wq_wakeup that will  *)
(* complete it is in progress, in whatever order the two requests came     *)
(* (rpc.c, wq_sleep and wq_wakeup).                                        *)
THEOREM NoWakeupLost == Spec => []MarkedSleepersWoken
  <1>1. Init => WakeupComing
    BY DEF Init, WakeupComing, Waited
  <1>2. QueueInv /\ WakeupComing => MarkedSleepersWoken
    <2> SUFFICES ASSUME QueueInv, WakeupComing, memory = "ok", NEW k \in Keys,
                        request[k] = "done", sleeper[k] = "asleep", Signalled(k)
                 PROVE  IsComplete(held[k])
      BY DEF WakeupComing, Waited, MarkedSleepersWoken
    <2>1. PICK e \in db : owner[e] = k /\ completed[e] > 0
      BY DEF Signalled
    <2>2. held[k] = e
      BY <2>1 DEF QueueInv, HeldEntriesLive, OneEntryPerKey
    <2> QED BY <2>1, <2>2 DEF IsComplete
  <1> QED BY <1>1, <1>2, WakeupComingStep, QueueAgrees, PTL DEF Spec
-----------------------------------------------------------------------------
(***************************************************************************)
(* The way back.                                                           *)
(***************************************************************************)

(* The steps a marked thread has left in wq_sleep.                         *)
StepsBack(k) ==
  [get |-> 5, asleep |-> 4, delete |-> 3, free |-> 2, woken |-> 1, out |-> 0][sleeper[k]]

OutWhenNone == \A k \in Keys : request[k] = "none" <=> sleeper[k] = "out"

LEMMA OutWhenNoneStep == TypeOK /\ OutWhenNone /\ [Next]_vars => OutWhenNone'
  <1> SUFFICES ASSUME TypeOK, OutWhenNone, [Next]_vars PROVE OutWhenNone'
    OBVIOUS
  <1>1. ASSUME NEW k \in Keys, Wait(k) \/ SleepStep(k) PROVE OutWhenNone'
    <2>1. /\ \A m \in Keys \ {k} : request'[m] = request[m] /\ sleeper'[m] = sleeper[m]
          /\ request'[k] = "none" <=> sleeper'[k] = "out"
      BY <1>1 DEF Wait, SleepStep, SleepGet, Awake, ListDel, Free, Look, secureVars, TypeOK,
         OutWhenNone
    <2> QED BY <2>1 DEF OutWhenNone
  <1>2. ASSUME NEW w \in Wakers, NEW k \in Keys, Mark(w, k) PROVE OutWhenNone'
    BY <1>2 DEF Mark, sleepVars, TypeOK, OutWhenNone
  <1>3. CASE (\E w \in Wakers : WakeStep(w)) \/ UNCHANGED vars
    BY <1>3 DEF WakeStep, WakeGet, Complete, secureVars, sleepVars, vars, OutWhenNone
  <1> QED BY <1>1, <1>2, <1>3 DEF Next

ComesBack ==
  \A k \in Keys : request[k] = "done" =>
    sleeper'[k] = sleeper[k] \/ StepsBack(k)' < StepsBack(k)

MarkedComeBack == [][ComesBack]_vars

(* Whatever fails, a marked thread does not go to sleep a second time: it  *)
(* is out after at most five steps of its own.  With NoWakeupLost only the *)
(* fairness of the scheduler is missing for MarkedThreadsWake (rpc.c,      *)
(* wq_sleep).                                                              *)
THEOREM NoSecondSleep == Spec => MarkedComeBack
  <1>1. Init => OutWhenNone
    BY DEF Init, OutWhenNone
  <1>2. TypeOK /\ OutWhenNone /\ [Next]_vars => [ComesBack]_vars
    <2> SUFFICES ASSUME TypeOK, OutWhenNone, Next, NEW k \in Keys, request[k] = "done",
                        sleeper'[k] # sleeper[k]
                 PROVE  StepsBack(k)' < StepsBack(k)
      BY DEF ComesBack
    <2>1. SleepStep(k)
      <3>1. ~Wait(k)
        BY DEF Wait, OutWhenNone
      <3>2. \A m \in Keys \ {k} : ~Wait(m) /\ ~SleepStep(m)
        BY DEF Wait, SleepStep, SleepGet, Awake, ListDel, Free, Look, TypeOK
      <3>3. \A w \in Wakers : ~WakeStep(w) /\ \A m \in Keys : ~Mark(w, m)
        BY DEF WakeStep, WakeGet, Complete, Mark, sleepVars
      <3> QED BY <3>1, <3>2, <3>3 DEF Next
    <2>2. \/ sleeper[k] = "get" /\ sleeper'[k] \in {"asleep", "woken"}
          \/ sleeper[k] = "asleep" /\ sleeper'[k] = "delete"
          \/ sleeper[k] = "delete" /\ sleeper'[k] = "free"
          \/ sleeper[k] = "free" /\ sleeper'[k] = "woken"
          \/ sleeper[k] = "woken" /\ sleeper'[k] = "out"
      BY <2>1 DEF SleepStep, SleepGet, Awake, ListDel, Free, Look, TypeOK
    <2> QED BY <2>2 DEF StepsBack
  <1> QED BY <1>1, <1>2, OutWhenNoneStep, WaitTyped, PTL DEF Spec, MarkedComeBack
=============================================================================
