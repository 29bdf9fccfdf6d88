-------------------------- MODULE CallQueue_proofs ---------------------------
(* Proofs about CallQueue, for any number of callers and threads.          *)
EXTENDS CallQueue, SequenceTheorems, FiniteSetTheorems, TLAPS

Waiting(ws, p) == \E i \in DOMAIN ws : ws[i] = p

Unique(ws) == \A i, j \in DOMAIN ws : ws[i] = ws[j] => i = j

(* q comes after s.                                                        *)
Behind(ws, s, q) ==
  \E i, j \in DOMAIN ws : i < j /\ ws[i] = s /\ ws[j] = q

(* list_del moves those that come after p up by one place.                 *)
LEMMA ListDelIndices ==
  ASSUME NEW ws \in Seq(Callers), NEW p \in Callers, Waiting(ws, p)
  PROVE  LET us == ListDel(ws, p)
         IN  /\ us \in Seq(Callers)
             /\ Len(us) = Len(ws) - 1
             /\ \E k \in 1 .. Len(ws) :
                  /\ ws[k] = p
                  /\ \A i \in 1 .. Len(us) : us[i] = IF i < k THEN ws[i] ELSE ws[i + 1]
<1> DEFINE k == CHOOSE i \in DOMAIN ws : ws[i] = p
           us == RemoveAt(ws, k)
<1>1. k \in 1 .. Len(ws) /\ ws[k] = p /\ Len(ws) \in Nat
  BY DEF Waiting
<1> HIDE DEF k
<1>2. /\ us \in Seq(Callers)
      /\ Len(us) = Len(ws) - 1
      /\ \A i \in 1 .. Len(us) : us[i] = IF i < k THEN ws[i] ELSE ws[i + 1]
  <2> DEFINE a == SubSeq(ws, 1, k - 1)
             b == SubSeq(ws, k + 1, Len(ws))
  <2>1. a \in Seq(Callers) /\ Len(a) = k - 1 /\ \A i \in 1 .. k - 1 : a[i] = ws[i]
    BY <1>1, SubSeqProperties
  <2>2. /\ b \in Seq(Callers) /\ Len(b) = Len(ws) - k
        /\ \A i \in 1 .. Len(ws) - k : b[i] = ws[k + i]
    <3>1. CASE k = Len(ws)
      <4>1. b = << >>
        BY <1>1, <3>1
      <4>2. QED
        BY <1>1, <3>1, <4>1
    <3>2. CASE k < Len(ws)
      <4>1. \A i \in k + 1 .. Len(ws) : ws[i] \in Callers
        BY <1>1
      <4>2. Len(b) = Len(ws) - k
        BY <1>1, <3>2
      <4>3. \A i \in 1 .. Len(b) : b[i] = ws[k + 1 + i - 1]
        BY <1>1, <3>2, <4>2
      <4>4. \A i \in 1 .. Len(ws) - k : b[i] = ws[k + i]
        BY <1>1, <3>2, <4>2, <4>3
      <4>5. b \in Seq(Callers)
        BY <1>1, <3>2
      <4>6. QED
        BY <4>2, <4>4, <4>5
    <3>3. QED
      BY <1>1, <3>1, <3>2
  <2>3. us = a \o b
    BY DEF RemoveAt
  <2> HIDE DEF a, b, us
  <2>4. us \in Seq(Callers) /\ Len(us) = Len(ws) - 1
    BY <1>1, <2>1, <2>2, <2>3, ConcatProperties
  <2>5. \A i \in 1 .. Len(a) + Len(b) :
          us[i] = IF i <= Len(a) THEN a[i] ELSE b[i - Len(a)]
    BY <2>1, <2>2, <2>3, ConcatProperties
  <2>6. QED
    <3> SUFFICES ASSUME NEW i \in 1 .. Len(us)
                 PROVE  us[i] = IF i < k THEN ws[i] ELSE ws[i + 1]
      BY <2>4
    <3>1. us[i] = IF i <= k - 1 THEN a[i] ELSE b[i - (k - 1)]
      BY <1>1, <2>1, <2>2, <2>4, <2>5
    <3>2. CASE i < k
      BY <1>1, <2>1, <3>1, <3>2
    <3>3. CASE ~(i < k)
      <4>1. i - (k - 1) \in 1 .. Len(ws) - k /\ k + (i - (k - 1)) = i + 1
        BY <1>1, <2>4, <3>3
      <4>2. b[i - (k - 1)] = ws[k + (i - (k - 1))]
        BY <2>2, <4>1
      <4>3. QED
        BY <1>1, <3>1, <3>3, <4>1, <4>2
    <3>4. QED
      BY <3>2, <3>3
<1>3. ListDel(ws, p) = us
  BY DEF ListDel, us, k
<1> HIDE DEF us
<1>4. QED
  BY <1>1, <1>2, <1>3

(* list_del takes p, and nobody else, out of the queue.                    *)
LEMMA ListDelProperties ==
  ASSUME NEW ws \in Seq(Callers), NEW p \in Callers, Waiting(ws, p), Unique(ws)
  PROVE  /\ ListDel(ws, p) \in Seq(Callers)
         /\ Unique(ListDel(ws, p))
         /\ \A q : Waiting(ListDel(ws, p), q) <=> q # p /\ Waiting(ws, q)
         /\ \A s, q : Behind(ListDel(ws, p), s, q) <=>
                        s # p /\ q # p /\ Behind(ws, s, q)
<1> DEFINE us == ListDel(ws, p)
<1>1. PICK k \in 1 .. Len(ws) :
        /\ ws[k] = p
        /\ \A i \in 1 .. Len(us) : us[i] = IF i < k THEN ws[i] ELSE ws[i + 1]
  BY ListDelIndices
<1>2. us \in Seq(Callers) /\ Len(us) = Len(ws) - 1 /\ Len(ws) \in Nat
  BY ListDelIndices
<1> HIDE DEF us
<1>3. DOMAIN us = 1 .. Len(ws) - 1 /\ DOMAIN ws = 1 .. Len(ws)
  BY <1>2
<1>4. Unique(us)
  <2> SUFFICES ASSUME NEW i \in 1 .. Len(us), NEW j \in 1 .. Len(us),
                      us[i] = us[j]
               PROVE  i = j
    BY <1>2, <1>3 DEF Unique
  <2> DEFINE f(x) == IF x < k THEN x ELSE x + 1
  <2>1. f(i) \in DOMAIN ws /\ f(j) \in DOMAIN ws /\ ws[f(i)] = ws[f(j)]
    BY <1>1, <1>2, <1>3
  <2>2. f(i) = f(j)
    BY <2>1 DEF Unique
  <2>3. QED
    BY <1>1, <2>2
<1>5. ASSUME NEW q, Waiting(us, q)
      PROVE  q # p /\ Waiting(ws, q)
  <2>1. PICK i \in 1 .. Len(us) : us[i] = q
    BY <1>5, <1>2, <1>3 DEF Waiting
  <2>2. CASE i < k
    <3>1. q = ws[i] /\ i \in DOMAIN ws /\ i # k /\ k \in DOMAIN ws
      BY <1>1, <1>2, <1>3, <2>1, <2>2
    <3>2. QED
      BY <1>1, <3>1 DEF Waiting, Unique
  <2>3. CASE ~(i < k)
    <3>1. q = ws[i + 1] /\ i + 1 \in DOMAIN ws /\ i + 1 # k
      BY <1>1, <1>2, <1>3, <2>1, <2>3
    <3>2. QED
      BY <1>1, <1>3, <3>1 DEF Waiting, Unique
  <2>4. QED
    BY <2>2, <2>3
<1>6. ASSUME NEW q, q # p, Waiting(ws, q)
      PROVE  Waiting(us, q)
  <2>1. PICK i \in 1 .. Len(ws) : ws[i] = q
    BY <1>6, <1>3 DEF Waiting
  <2>2. CASE i < k
    <3>1. i \in DOMAIN us /\ us[i] = q
      BY <1>1, <1>2, <1>3, <2>1, <2>2
    <3>2. QED
      BY <3>1 DEF Waiting
  <2>3. CASE i > k
    <3>1. i - 1 \in DOMAIN us /\ us[i - 1] = q
      BY <1>1, <1>2, <1>3, <2>1, <2>3
    <3>2. QED
      BY <3>1 DEF Waiting
  <2>4. QED
    BY <1>1, <1>6, <2>1, <2>2, <2>3
<1>7. ASSUME NEW q, NEW r, Behind(us, q, r)
      PROVE  q # p /\ r # p /\ Behind(ws, q, r)
  <2>1. PICK i \in 1 .. Len(us), j \in 1 .. Len(us) :
          i < j /\ us[i] = q /\ us[j] = r
    BY <1>2, <1>3, <1>7 DEF Behind
  <2> DEFINE f(x) == IF x < k THEN x ELSE x + 1
  <2>2. /\ f(i) \in DOMAIN ws /\ f(j) \in DOMAIN ws /\ f(i) < f(j)
        /\ ws[f(i)] = q /\ ws[f(j)] = r
    BY <1>1, <1>2, <1>3, <2>1
  <2>3. Waiting(us, q) /\ Waiting(us, r)
    BY <1>2, <1>3, <2>1 DEF Waiting
  <2> QED
    BY <1>5, <2>2, <2>3 DEF Behind
<1>8. ASSUME NEW q, NEW r, q # p, r # p, Behind(ws, q, r)
      PROVE  Behind(us, q, r)
  <2>1. PICK i \in 1 .. Len(ws), j \in 1 .. Len(ws) :
          i < j /\ ws[i] = q /\ ws[j] = r
    BY <1>3, <1>8 DEF Behind
  <2> DEFINE g(x) == IF x < k THEN x ELSE x - 1
  <2>2. i # k /\ j # k
    BY <1>1, <1>8, <2>1
  <2>3. /\ g(i) \in DOMAIN us /\ g(j) \in DOMAIN us /\ g(i) < g(j)
        /\ us[g(i)] = q /\ us[g(j)] = r
    BY <1>1, <1>2, <1>3, <2>1, <2>2
  <2> QED
    BY <2>3 DEF Behind
<1>9. \A q : Waiting(us, q) <=> q # p /\ Waiting(ws, q)
  BY <1>5, <1>6
<1>10. \A s, q : Behind(us, s, q) <=> s # p /\ q # p /\ Behind(ws, s, q)
  BY <1>7, <1>8
<1>11. QED
  BY <1>2, <1>4, <1>9, <1>10 DEF us

LEMMA AppendProps ==
  ASSUME NEW ws \in Seq(Callers), NEW p \in Callers, ~Waiting(ws, p), Unique(ws)
  PROVE  /\ Append(ws, p) \in Seq(Callers)
         /\ Unique(Append(ws, p))
         /\ \A q : Waiting(Append(ws, p), q) <=> q = p \/ Waiting(ws, q)
         /\ \A s, q : Behind(Append(ws, p), s, q) <=>
                        Behind(ws, s, q) \/ (q = p /\ Waiting(ws, s))
<1> DEFINE us == Append(ws, p)
<1>1. /\ us \in Seq(Callers)
      /\ Len(us) = Len(ws) + 1
      /\ us[Len(ws) + 1] = p
      /\ \A i \in 1 .. Len(ws) : us[i] = ws[i]
      /\ DOMAIN us = 1 .. Len(ws) + 1
      /\ DOMAIN ws = 1 .. Len(ws)
      /\ Len(ws) \in Nat
  OBVIOUS
<1> HIDE DEF us
<1>2. Unique(us)
  BY <1>1 DEF Unique, Waiting
<1>3. ASSUME NEW q, Waiting(us, q)
      PROVE  q = p \/ Waiting(ws, q)
  BY <1>1, <1>3 DEF Waiting
<1>4. Waiting(us, p)
  BY <1>1 DEF Waiting
<1>5. ASSUME NEW q, Waiting(ws, q)
      PROVE  Waiting(us, q)
  BY <1>1, <1>5 DEF Waiting
<1>6. ASSUME NEW s, NEW q, Behind(us, s, q)
      PROVE  Behind(ws, s, q) \/ (q = p /\ Waiting(ws, s))
  <2>1. PICK i \in 1 .. Len(ws) + 1, j \in 1 .. Len(ws) + 1 :
          i < j /\ us[i] = s /\ us[j] = q
    BY <1>1, <1>6 DEF Behind
  <2>2. i \in DOMAIN ws /\ ws[i] = s
    BY <1>1, <2>1
  <2>3. CASE j = Len(ws) + 1
    BY <1>1, <2>1, <2>2, <2>3 DEF Waiting
  <2>4. CASE j # Len(ws) + 1
    <3>1. j \in DOMAIN ws /\ ws[j] = q
      BY <1>1, <2>1, <2>4
    <3> QED
      BY <2>1, <2>2, <3>1 DEF Behind
  <2> QED
    BY <2>3, <2>4
<1>7. ASSUME NEW s, NEW q, Behind(ws, s, q) \/ (q = p /\ Waiting(ws, s))
      PROVE  Behind(us, s, q)
  <2>1. CASE Behind(ws, s, q)
    BY <1>1, <2>1 DEF Behind
  <2>2. CASE q = p /\ Waiting(ws, s)
    <3>1. PICK i \in 1 .. Len(ws) : ws[i] = s
      BY <1>1, <2>2 DEF Waiting
    <3>2. /\ i \in DOMAIN us /\ Len(ws) + 1 \in DOMAIN us /\ i < Len(ws) + 1
          /\ us[i] = s /\ us[Len(ws) + 1] = q
      BY <1>1, <2>2, <3>1
    <3> QED
      BY <3>2 DEF Behind
  <2> QED
    BY <1>7, <2>1, <2>2
<1>8. QED
  BY <1>1, <1>2, <1>3, <1>4, <1>5, <1>6, <1>7 DEF us
-----------------------------------------------------------------------------
(***************************************************************************)
(* The inductive invariant.  NoLostWakeup rests on the queue: a sleeping   *)
(* caller is in it, so the walk of optee_cq_complete_one finds somebody.   *)
(***************************************************************************)
QueueInv ==
  /\ TypeOK
  /\ QueueMatchesCalls
  /\ CompletionAgrees
  /\ OneThreadPerCall
  /\ NoLostWakeup

LEMMA NoneIsNoCaller == None \notin Callers /\ 0 \in Threads
BY CallersAssumption DEF Threads

LEMMA QueueInit == Init => QueueInv
<1> SUFFICES ASSUME Init PROVE QueueInv
  OBVIOUS
<1> USE CallersAssumption, NoneIsNoCaller DEF Init
<1>1. TypeOK
  <2>1. owner \in [Threads -> Callers \cup {None}] /\ cached = {} /\ ~prealloc
    BY DEF Secure!PoolInit, Secure!PoolThreads, Threads
  <2>2. waiters \in Seq(Callers)
    BY EmptySeq
  <2>3. QED
    BY <2>1, <2>2 DEF TypeOK, PCs, Secure!PoolInit
<1>2. QueueMatchesCalls
  BY DEF QueueMatchesCalls
<1>3. CompletionAgrees
  BY DEF CompletionAgrees
<1>4. OneThreadPerCall
  BY DEF OneThreadPerCall, Secure!PoolInit, Secure!PoolThreads, Threads
<1>5. NoLostWakeup
  BY DEF NoLostWakeup, Asleep
<1>6. QED
  BY <1>1, <1>2, <1>3, <1>4, <1>5 DEF QueueInv

(* The steps that leave the queue alone.                                   *)
Stays(p) ==
  /\ UNCHANGED <<waiters, completed, done>>
  /\ pc[p] \notin {"idle", "sleep", "woken"}
  /\ \E where \in {"invoke", "secure", "rpc", "final", "sleep"} :
       pc' = [pc EXCEPT ![p] = where]

LEMMA QueueStays ==
  ASSUME QueueInv, NEW p \in Callers, Stays(p)
  PROVE  QueueMatchesCalls' /\ CompletionAgrees'
BY DEF QueueInv, TypeOK, Stays, QueueMatchesCalls, CompletionAgrees

LEMMA AstirStays ==
  ASSUME QueueInv, NEW p \in Callers, Stays(p), pc'[p] # "sleep"
  PROVE  NoLostWakeup'
<1>1. Astir(p)'
  BY DEF QueueInv, TypeOK, Stays, Astir, Asleep
<1>2. QED
  BY <1>1 DEF NoLostWakeup

(* A caller that is told "busy" is not alone.                              *)
LEMMA BusyStays ==
  ASSUME QueueInv, NEW p \in Callers, Stays(p), pc[p] = "invoke",
         NEW n \in Threads, owner[n] # None
  PROVE  NoLostWakeup'
<1>1. PICK q \in Callers : q = owner[n] /\ pc[q] \in {"secure", "rpc"}
  BY DEF QueueInv, TypeOK, OneThreadPerCall
<1>2. pc'[q] \in {"secure", "rpc"}
  BY <1>1 DEF QueueInv, TypeOK, Stays
<1>3. Astir(q)'
  BY <1>2 DEF Astir, Asleep
<1>4. QED
  BY <1>3 DEF NoLostWakeup

(* Leaving the queue signals callers that are still in it and that had no  *)
(* completion, each once; and at least one if there is one.                *)
LEMMA FinalSignals ==
  ASSUME QueueInv, NEW p \in Callers, WaitFinal(p)
  PROVE  \E W \in SUBSET Callers :
           /\ \A q \in W : q # p /\ q \notin completed /\ Waiting(waiters, q)
           /\ completed' = (completed \cup W) \ {p}
           /\ done' = [q \in Callers |-> IF q \in W THEN 1
                                         ELSE IF q = p THEN 0 ELSE done[q]]
           /\ W = {} => \A q \in Callers : q # p /\ Waiting(waiters, q)
                                           => q \in completed
<1> DEFINE ws == ListDel(waiters, p)
<1>1. Waiting(waiters, p) /\ Unique(waiters) /\ waiters \in Seq(Callers)
  BY DEF WaitFinal, QueueInv, TypeOK, QueueMatchesCalls, Waiting, Unique
<1>2. \A q : Waiting(ws, q) <=> q # p /\ Waiting(waiters, q)
  BY <1>1, ListDelProperties
<1> HIDE DEF ws
<1>3. PICK q1 \in Callers \cup {None}, q2 \in Callers \cup {None} :
        /\ Wakes(p, q1, q2, ws)
        /\ completed' = (completed \cup ({q1, q2} \ {None})) \ {p}
        /\ done' = [q \in Callers |->
                      IF q = p THEN 0
                      ELSE done[q] + (IF q = q1 THEN 1 ELSE 0)
                                   + (IF q = q2 THEN 1 ELSE 0)]
  BY DEF WaitFinal, ws
<1> DEFINE W == {q1, q2} \ {None}
<1>4. /\ Finds(q1, ws, Callers \ completed)
      /\ q2 # None => Finds(q2, ws, Callers \ (completed \cup {q1}))
  BY <1>3 DEF Wakes, CompleteOne
<1>5. q1 # None => Waiting(ws, q1) /\ q1 \notin completed
  BY <1>4 DEF Finds, Waiting
<1>6. q2 # None => Waiting(ws, q2) /\ q2 \notin completed /\ q2 # q1
  BY <1>4 DEF Finds, Waiting
<1>7. \A q \in W : q # p /\ q \notin completed /\ Waiting(waiters, q)
  BY <1>2, <1>5, <1>6
<1>8. W = {} => \A q \in Callers : q # p /\ Waiting(waiters, q)
                                 => q \in completed
  <2> SUFFICES ASSUME W = {}, NEW q \in Callers, q # p, Waiting(waiters, q)
               PROVE  q \in completed
    OBVIOUS
  <2>1. q1 = None /\ Waiting(ws, q)
    BY <1>2
  <2>2. \A i \in DOMAIN ws : ws[i] \notin Callers \ completed
    BY <1>4, <2>1, NoneIsNoCaller DEF Finds
  <2>3. QED
    BY <2>1, <2>2 DEF Waiting
<1>9. done' = [q \in Callers |-> IF q \in W THEN 1
                                 ELSE IF q = p THEN 0 ELSE done[q]]
  <2>1. \A q \in W : done[q] = 0
    BY <1>7 DEF QueueInv, TypeOK, CompletionAgrees
  <2>2. \A q \in Callers : done[q] \in 0 .. 1
    BY DEF QueueInv, TypeOK
  <2>3. QED
    BY <1>3, <1>6, <1>7, <2>1, <2>2, NoneIsNoCaller
<1>10. W \in SUBSET Callers
  OBVIOUS
<1> HIDE DEF W
<1>11. completed' = (completed \cup W) \ {p}
  BY <1>3 DEF W
<1>12. QED
  BY <1>7, <1>8, <1>9, <1>10, <1>11

LEMMA QueueTypeStep == QueueInv /\ [Next]_vars => TypeOK'
<1> SUFFICES ASSUME QueueInv, [Next]_vars PROVE TypeOK'
  OBVIOUS
<1>0. TypeOK
  BY DEF QueueInv
<1> USE <1>0 DEF TypeOK, PCs, Goto, queueVars
<1>1. ASSUME NEW p \in Callers, NEW o \in Ops, WaitInit(p, o)
      PROVE  TypeOK'
  <2>1. Append(waiters, p) \in Seq(Callers)
    BY AppendProperties
  <2>2. QED
    BY <1>1, <2>1 DEF WaitInit
<1>2. ASSUME NEW p \in Callers, InvokeCall(p)
      PROVE  TypeOK'
  <2>1. CASE \E n \in Threads : Secure!TakeThread(n, p)
    <3>1. owner' \in [Threads -> Callers \cup {None}]
      BY <2>1 DEF Secure!TakeThread
    <3>2. UNCHANGED <<cached, prealloc>>
      BY <2>1 DEF Secure!TakeThread
    <3>3. \E w \in {"secure", "sleep"} : pc' = [pc EXCEPT ![p] = w]
      BY <1>2 DEF InvokeCall
    <3>4. QED
      BY <1>2, <3>1, <3>2, <3>3 DEF InvokeCall
  <2>2. CASE UNCHANGED <<owner, cached, prealloc>>
    BY <1>2, <2>2 DEF InvokeCall
  <2>3. QED
    BY <1>2, <2>1, <2>2 DEF InvokeCall
<1>3. ASSUME NEW p \in Callers, SecureBuffer(p)
      PROVE  TypeOK'
  <2>1. cached' \subseteq Threads /\ UNCHANGED <<owner, prealloc>>
    BY <1>3 DEF SecureBuffer, Secure!GainBuffer, Secure!LoseBuffer
  <2>2. QED
    BY <1>3, <2>1 DEF SecureBuffer
<1>4. ASSUME NEW p \in Callers, SecureRpc(p) \/ HandleRpc(p)
      PROVE  TypeOK'
  BY <1>4 DEF SecureRpc, HandleRpc, Resumes
<1>5. ASSUME NEW p \in Callers, SecureReturns(p)
      PROVE  TypeOK'
  BY <1>5 DEF SecureReturns, Secure!ReleaseThread
<1>6. ASSUME NEW p \in Callers, InvokeEnable(p)
      PROVE  TypeOK'
  BY <1>6 DEF InvokeEnable, Secure!EnableCache
<1>7. ASSUME NEW p \in Callers, InvokeDisable(p)
      PROVE  TypeOK'
  BY <1>7 DEF InvokeDisable, Secure!DisableCache, Secure!HandBackBuffer
<1>8. ASSUME NEW p \in Callers, WaitForCompletion(p)
      PROVE  TypeOK'
  BY <1>8 DEF WaitForCompletion
<1>9. ASSUME NEW p \in Callers, MoveToEnd(p)
      PROVE  TypeOK'
  <2>1. Waiting(waiters, p) /\ Unique(waiters)
    BY <1>9 DEF MoveToEnd, QueueInv, QueueMatchesCalls, Waiting, Unique
  <2>2. ListDel(waiters, p) \in Seq(Callers)
    BY <2>1, ListDelProperties
  <2>3. waiters' \in Seq(Callers)
    BY <1>9, <2>2, AppendProperties DEF MoveToEnd, Requeued
  <2>4. QED
    BY <1>9, <2>3 DEF MoveToEnd, ClearsFlag
<1>10. ASSUME NEW p \in Callers, WaitFinal(p)
       PROVE  TypeOK'
  <2>1. Waiting(waiters, p) /\ Unique(waiters)
    BY <1>10 DEF WaitFinal, QueueInv, QueueMatchesCalls, Waiting, Unique
  <2>2. waiters' \in Seq(Callers)
    BY <1>10, <2>1, ListDelProperties DEF WaitFinal
  <2>3. completed' \subseteq Callers
    BY <1>10 DEF WaitFinal
  <2>4. done' \in [Callers -> 0 .. 1]
    BY <1>10, <2>1, FinalSignals
  <2>5. QED
    BY <1>10, <2>2, <2>3, <2>4 DEF WaitFinal
<1>11. CASE UNCHANGED vars
  BY <1>11 DEF vars
<1>12. QED
  BY <1>1, <1>2, <1>3, <1>4, <1>5, <1>6, <1>7, <1>8, <1>9, <1>10, <1>11
  DEF Next

(* The steps, by what they do to the queue.                                *)
LEMMA StepKinds ==
  ASSUME QueueInv, [Next]_vars
  PROVE  \/ \E p \in Callers : \/ \E o \in Ops : WaitInit(p, o)
                               \/ MoveToEnd(p)
                               \/ WaitFinal(p)
                               \/ WaitForCompletion(p)
                               \/ Stays(p)
         \/ UNCHANGED <<pc, queueVars>>
<1>1. ASSUME NEW p \in Callers,
             \/ InvokeCall(p) \/ SecureRpc(p) \/ HandleRpc(p)
             \/ SecureReturns(p) \/ InvokeEnable(p) \/ InvokeDisable(p)
      PROVE  Stays(p) \/ UNCHANGED <<pc, queueVars>>
  BY <1>1 DEF InvokeCall, SecureRpc, HandleRpc, Resumes, SecureReturns,
    InvokeEnable, InvokeDisable, Stays, Goto, queueVars
<1>2. ASSUME NEW p \in Callers, SecureBuffer(p)
      PROVE  UNCHANGED <<pc, queueVars>>
  BY <1>2 DEF SecureBuffer
<1>3. QED
  BY <1>1, <1>2 DEF Next, vars

(* Only an SMC that finds the secure world busy puts a caller to sleep.    *)
LEMMA SleepKinds ==
  ASSUME TypeOK, [Next]_vars, NEW p \in Callers, Stays(p), pc'[p] = "sleep"
  PROVE  InvokeCall(p) \/ InvokeEnable(p) \/ InvokeDisable(p)
<1>1. pc[p] # "sleep" /\ pc[p] # pc'[p]
  BY DEF Stays
<1>2. PICK r \in Callers :
        \/ \E o \in Ops : WaitInit(r, o)
        \/ InvokeCall(r) \/ SecureBuffer(r) \/ SecureRpc(r) \/ HandleRpc(r)
        \/ SecureReturns(r) \/ InvokeEnable(r) \/ InvokeDisable(r)
        \/ WaitForCompletion(r) \/ MoveToEnd(r) \/ WaitFinal(r)
  BY <1>1 DEF Next, vars
<1>3. CASE InvokeCall(r) \/ InvokeEnable(r) \/ InvokeDisable(r)
  <2>1. r = p
    BY <1>1, <1>3 DEF InvokeCall, InvokeEnable, InvokeDisable, Goto, TypeOK
  <2>2. QED
    BY <1>3, <2>1
<1>4. CASE ~(InvokeCall(r) \/ InvokeEnable(r) \/ InvokeDisable(r))
  <2>1. \/ UNCHANGED pc
        \/ \E w \in PCs \ {"sleep"} : pc' = [pc EXCEPT ![r] = w]
    BY <1>2, <1>4
    DEF WaitInit, SecureBuffer, SecureRpc, HandleRpc, Resumes, SecureReturns,
        WaitForCompletion, MoveToEnd, WaitFinal, Goto, PCs
  <2>2. QED
    BY <1>1, <2>1 DEF TypeOK
<1>5. QED
  BY <1>3, <1>4

LEMMA CallsStep == QueueInv /\ [Next]_vars => QueueMatchesCalls'
<1> SUFFICES ASSUME QueueInv, [Next]_vars PROVE QueueMatchesCalls'
  OBVIOUS
<1>0. TypeOK
  BY DEF QueueInv
<1>1. ASSUME NEW p \in Callers, NEW o \in Ops, WaitInit(p, o)
      PROVE  QueueMatchesCalls'
  <2>1. ~Waiting(waiters, p) /\ Unique(waiters) /\ waiters \in Seq(Callers)
    BY <1>1 DEF WaitInit, QueueInv, TypeOK, QueueMatchesCalls, Waiting, Unique
  <2>2. /\ Unique(waiters')
        /\ \A q : Waiting(waiters', q) <=> q = p \/ Waiting(waiters, q)
    BY <1>1, <2>1, AppendProps DEF WaitInit
  <2>3. pc' = [pc EXCEPT ![p] = "invoke"]
    BY <1>1 DEF WaitInit, Goto
  <2>4. QED
    BY <1>0, <2>2, <2>3
    DEF QueueInv, TypeOK, QueueMatchesCalls, Waiting, Unique
<1>2. ASSUME NEW p \in Callers, MoveToEnd(p)
      PROVE  QueueMatchesCalls'
  <2>1. Waiting(waiters, p) /\ Unique(waiters) /\ waiters \in Seq(Callers)
    BY <1>2 DEF MoveToEnd, QueueInv, TypeOK, QueueMatchesCalls, Waiting, Unique
  <2> DEFINE ws == ListDel(waiters, p)
  <2>2. /\ ws \in Seq(Callers) /\ Unique(ws)
        /\ \A q : Waiting(ws, q) <=> q # p /\ Waiting(waiters, q)
    BY <2>1, ListDelProperties
  <2>3. waiters' = Append(ws, p)
    BY <1>2 DEF MoveToEnd, Requeued
  <2> HIDE DEF ws
  <2>4. /\ Unique(waiters')
        /\ \A q : Waiting(waiters', q) <=> q = p \/ Waiting(ws, q)
    BY <2>2, <2>3, AppendProps
  <2>5. pc' = [pc EXCEPT ![p] = "invoke"]
    BY <1>2 DEF MoveToEnd, Goto
  <2>6. QED
    BY <1>0, <2>1, <2>2, <2>4, <2>5
    DEF QueueInv, TypeOK, QueueMatchesCalls, Waiting, Unique
<1>3. ASSUME NEW p \in Callers, WaitFinal(p)
      PROVE  QueueMatchesCalls'
  <2>1. Waiting(waiters, p) /\ Unique(waiters) /\ waiters \in Seq(Callers)
    BY <1>3 DEF WaitFinal, QueueInv, TypeOK, QueueMatchesCalls, Waiting, Unique
  <2>2. /\ Unique(waiters')
        /\ \A q : Waiting(waiters', q) <=> q # p /\ Waiting(waiters, q)
    BY <1>3, <2>1, ListDelProperties DEF WaitFinal
  <2>3. pc' = [pc EXCEPT ![p] = "idle"]
    BY <1>3 DEF WaitFinal, Goto
  <2>4. QED
    BY <1>0, <2>2, <2>3
    DEF QueueInv, TypeOK, QueueMatchesCalls, Waiting, Unique
<1>4. ASSUME NEW p \in Callers, WaitForCompletion(p)
      PROVE  QueueMatchesCalls'
  BY <1>0, <1>4 DEF QueueInv, TypeOK, QueueMatchesCalls, WaitForCompletion, Goto
<1>5. ASSUME NEW p \in Callers, Stays(p)
      PROVE  QueueMatchesCalls'
  BY <1>5, QueueStays
<1>6. CASE UNCHANGED <<pc, waiters>>
  BY <1>6 DEF QueueInv, QueueMatchesCalls
<1>7. QED
  BY <1>1, <1>2, <1>3, <1>4, <1>5, <1>6, StepKinds DEF queueVars

LEMMA CompletionStep == QueueInv /\ [Next]_vars => CompletionAgrees'
<1> SUFFICES ASSUME QueueInv, [Next]_vars PROVE CompletionAgrees'
  OBVIOUS
<1>0. TypeOK /\ CompletionAgrees
  BY DEF QueueInv
<1>1. ASSUME NEW p \in Callers, NEW o \in Ops, WaitInit(p, o)
      PROVE  CompletionAgrees'
  BY <1>0, <1>1 DEF TypeOK, CompletionAgrees, WaitInit, Goto
<1>2. ASSUME NEW p \in Callers, MoveToEnd(p)
      PROVE  CompletionAgrees'
  BY <1>0, <1>2 DEF TypeOK, CompletionAgrees, MoveToEnd, ClearsFlag, Goto
<1>3. ASSUME NEW p \in Callers, WaitFinal(p)
      PROVE  CompletionAgrees'
  <2>1. PICK W \in SUBSET Callers :
          /\ \A q \in W : q # p /\ q \notin completed
          /\ completed' = (completed \cup W) \ {p}
          /\ done' = [q \in Callers |-> IF q \in W THEN 1
                                        ELSE IF q = p THEN 0 ELSE done[q]]
    BY <1>3, FinalSignals
  <2>2. pc' = [pc EXCEPT ![p] = "idle"]
    BY <1>3 DEF WaitFinal, Goto
  <2>3. QED
    BY <1>0, <2>1, <2>2 DEF TypeOK, CompletionAgrees
<1>4. ASSUME NEW p \in Callers, WaitForCompletion(p)
      PROVE  CompletionAgrees'
  BY <1>0, <1>4 DEF TypeOK, CompletionAgrees, WaitForCompletion, Goto
<1>5. ASSUME NEW p \in Callers, Stays(p)
      PROVE  CompletionAgrees'
  BY <1>5, QueueStays
<1>6. CASE UNCHANGED <<pc, queueVars>>
  BY <1>0, <1>6 DEF CompletionAgrees, queueVars
<1>7. QED
  BY <1>1, <1>2, <1>3, <1>4, <1>5, <1>6, StepKinds

LEMMA ThreadsStep == QueueInv /\ [Next]_vars => OneThreadPerCall'
<1> SUFFICES ASSUME QueueInv, [Next]_vars PROVE OneThreadPerCall'
  OBVIOUS
<1>0. TypeOK /\ OneThreadPerCall
  BY DEF QueueInv
<1>1. ASSUME NEW p \in Callers, InvokeCall(p)
      PROVE  OneThreadPerCall'
  <2>1. CASE UNCHANGED owner /\ Goto(p, "sleep")
    BY <1>0, <1>1, <2>1 DEF InvokeCall, TypeOK, OneThreadPerCall, Goto
  <2>2. ASSUME NEW n \in Threads, Secure!TakeThread(n, p), Goto(p, "secure")
        PROVE  OneThreadPerCall'
    BY <1>0, <1>1, <2>2, NoneIsNoCaller
    DEF InvokeCall, TypeOK, OneThreadPerCall, Goto, Secure!TakeThread
  <2>3. QED
    BY <1>1, <2>1, <2>2 DEF InvokeCall
<1>2. ASSUME NEW p \in Callers, SecureReturns(p)
      PROVE  OneThreadPerCall'
  BY <1>0, <1>2, NoneIsNoCaller
  DEF SecureReturns, TypeOK, OneThreadPerCall, Goto, Secure!ReleaseThread
<1>3. ASSUME NEW p \in Callers, UNCHANGED owner,
             NEW here \in PCs, NEW there \in PCs,
             pc[p] = here, pc' = [pc EXCEPT ![p] = there],
             here \in {"secure", "rpc"} <=> there \in {"secure", "rpc"}
      PROVE  OneThreadPerCall'
  BY <1>0, <1>3 DEF TypeOK, OneThreadPerCall
<1>4. CASE UNCHANGED <<pc, owner>>
  BY <1>0, <1>4 DEF OneThreadPerCall
<1>5. ASSUME NEW p \in Callers,
             \/ \E o \in Ops : WaitInit(p, o)
             \/ SecureRpc(p) \/ HandleRpc(p)
             \/ InvokeEnable(p) \/ InvokeDisable(p)
             \/ WaitForCompletion(p) \/ MoveToEnd(p) \/ WaitFinal(p)
      PROVE  OneThreadPerCall'
  <2>1. UNCHANGED owner
    BY <1>5 DEF WaitInit, SecureRpc, HandleRpc, InvokeEnable, InvokeDisable,
      WaitForCompletion, MoveToEnd, WaitFinal, Secure!EnableCache,
      Secure!DisableCache, Secure!HandBackBuffer
  <2>2. \/ UNCHANGED pc
        \/ \E there \in PCs :
             /\ pc' = [pc EXCEPT ![p] = there]
             /\ pc[p] \in {"secure", "rpc"} <=> there \in {"secure", "rpc"}
    BY <1>5 DEF WaitInit, SecureRpc, HandleRpc, Resumes, InvokeEnable,
      InvokeDisable, WaitForCompletion, MoveToEnd, WaitFinal, Goto, PCs
  <2>3. pc[p] \in PCs
    BY <1>0 DEF TypeOK
  <2>4. QED
    BY <1>3, <1>4, <2>1, <2>2, <2>3
<1>6. ASSUME NEW p \in Callers, SecureBuffer(p)
      PROVE  OneThreadPerCall'
  BY <1>4, <1>6 DEF SecureBuffer, Secure!GainBuffer, Secure!LoseBuffer
<1>7. QED
  BY <1>1, <1>2, <1>4, <1>5, <1>6 DEF Next, vars

LEMMA WakeupStep == QueueInv /\ [Next]_vars => NoLostWakeup'
<1> SUFFICES ASSUME QueueInv, [Next]_vars PROVE NoLostWakeup'
  OBVIOUS
<1>0. TypeOK
  BY DEF QueueInv
<1>1. ASSUME NEW p \in Callers,
             (\E o \in Ops : WaitInit(p, o)) \/ WaitForCompletion(p)
               \/ MoveToEnd(p)
      PROVE  NoLostWakeup'
  <2>1. pc'[p] \in {"invoke", "woken"}
    BY <1>0, <1>1 DEF TypeOK, WaitInit, WaitForCompletion, MoveToEnd, Goto
  <2>2. Astir(p)'
    BY <2>1 DEF Astir, Asleep
  <2>3. QED
    BY <2>2 DEF NoLostWakeup
<1>2. ASSUME NEW p \in Callers, WaitFinal(p)
      PROVE  NoLostWakeup'
  <2>1. PICK W \in SUBSET Callers :
          /\ \A q \in W : q # p /\ Waiting(waiters, q)
          /\ done' = [q \in Callers |-> IF q \in W THEN 1
                                        ELSE IF q = p THEN 0 ELSE done[q]]
          /\ W = {} => \A q \in Callers : q # p /\ Waiting(waiters, q)
                                          => q \in completed
    BY <1>2, FinalSignals
  <2>2. pc' = [pc EXCEPT ![p] = "idle"]
    BY <1>2 DEF WaitFinal, Goto
  <2>3. SUFFICES ASSUME NEW s \in Callers, pc'[s] = "sleep", done'[s] = 0
                 PROVE  \E q \in Callers : Astir(q)'
    BY DEF NoLostWakeup, Asleep
  <2>4. s # p /\ pc[s] = "sleep" /\ done[s] = 0
    BY <1>0, <2>1, <2>2, <2>3 DEF TypeOK
  <2>5. Waiting(waiters, s) /\ s \notin completed
    BY <2>4 DEF QueueInv, QueueMatchesCalls, CompletionAgrees, Waiting
  <2>6. PICK q \in W : TRUE
    BY <2>1, <2>4, <2>5
  <2>7. q # p /\ pc[q] # "idle"
    BY <2>1, <2>6 DEF QueueInv, QueueMatchesCalls, Waiting
  <2>8. done'[q] = 1 /\ pc'[q] # "idle"
    BY <1>0, <2>1, <2>2, <2>6, <2>7 DEF TypeOK
  <2>9. Astir(q)'
    BY <2>8 DEF Astir, Asleep
  <2>10. QED
    BY <2>9
<1>3. ASSUME NEW p \in Callers, Stays(p), pc'[p] # "sleep"
      PROVE  NoLostWakeup'
  BY <1>3, AstirStays
<1>4. ASSUME NEW p \in Callers, Stays(p), pc'[p] = "sleep"
      PROVE  NoLostWakeup'
  <2>1. InvokeCall(p) \/ InvokeEnable(p) \/ InvokeDisable(p)
    BY <1>0, <1>4, SleepKinds
  <2>2. pc[p] = "invoke" /\ \E n \in Threads : owner[n] # None
    BY <1>0, <1>4, <2>1, NoneIsNoCaller
    DEF InvokeCall, InvokeEnable, InvokeDisable, Goto, TypeOK, FreeThreads,
        Secure!Idle, Secure!PoolThreads, Threads
  <2>3. QED
    BY <1>4, <2>2, BusyStays
<1>5. CASE UNCHANGED <<pc, done>>
  BY <1>5 DEF QueueInv, NoLostWakeup, Astir, Asleep
<1>6. QED
  BY <1>1, <1>2, <1>3, <1>4, <1>5, StepKinds DEF queueVars

LEMMA QueueInvHolds == Spec => []QueueInv
<1>1. QueueInv /\ [Next]_vars => QueueInv'
  BY QueueTypeStep, CallsStep, CompletionStep, ThreadsStep, WakeupStep
  DEF QueueInv
<1>2. QED
  BY QueueInit, <1>1, PTL DEF Spec

(* A completion is never lost: some caller is awake, or about to be woken, *)
(* whenever a caller sleeps for want of a thread.                          *)
THEOREM NoCompletionLost == Spec => []NoLostWakeup
<1>1. QueueInv => NoLostWakeup
  BY DEF QueueInv
<1>2. QED
  BY <1>1, QueueInvHolds, PTL

(* The driver and the pool keep the types of their state together.         *)
THEOREM QueueTyped == Spec => []TypeOK
<1>1. QueueInv => TypeOK
  BY DEF QueueInv
<1>2. QED
  BY <1>1, QueueInvHolds, PTL

(* The list has one waiter per operation in progress, and no other: the    *)
(* waiters are on the stacks of the callers, and none is left behind by    *)
(* optee_cq_wait_final or by the move of optee_cq_wait_for_completion.     *)
THEOREM QueueOfCalls == Spec => []QueueMatchesCalls
<1>1. QueueInv => QueueMatchesCalls
  BY DEF QueueInv
<1>2. QED
  BY <1>1, QueueInvHolds, PTL

(* The flag of a waiter and its completion agree although only the flag is *)
(* kept under the mutex: no signal is sent twice and none is wiped out by  *)
(* reinit_completion.                                                      *)
THEOREM CompletionCounted == Spec => []CompletionAgrees
<1>1. QueueInv => CompletionAgrees
  BY DEF QueueInv
<1>2. QED
  BY <1>1, QueueInvHolds, PTL

(* A caller has a trusted thread exactly while it is in the secure world   *)
(* or serves an RPC of it, and never two (optee_do_call_with_arg).         *)
THEOREM ThreadsOfCalls == Spec => []OneThreadPerCall
<1>1. QueueInv => OneThreadPerCall
  BY DEF QueueInv
<1>2. QED
  BY <1>1, QueueInvHolds, PTL
-----------------------------------------------------------------------------
(***************************************************************************)
(* Free threads.  A caller that switches the cache uses up the completion  *)
(* it is given if it still finds the secure world busy.  Then it is behind *)
(* all that slept, and completions are given out in the order of the       *)
(* queue: it cannot be the only one that knows of a free thread.           *)
(***************************************************************************)
InOrder ==
  \A s, q \in Callers :
    Behind(waiters, s, q) /\ q \in completed => s \in completed

(* A caller that performs an operation has one.                            *)
HasOp == \A p \in Callers : pc[p] # "idle" => op[p] \in Ops

(* A caller that switches the cache sleeps behind s: it may have used up a *)
(* completion, and is not given another one before s is.                   *)
Overtaken(s) ==
  \E q \in Asleep : op[q] # "call" /\ Behind(waiters, s, q)

(* How many callers are in each place, for a finite number of callers.     *)
At(place) == {p \in Callers : pc[p] = place}

(* The callers about to make an SMC, without those that switch the cache   *)
(* and came before s: they may go to sleep without a completion.           *)
Takers(s) == {p \in At("invoke") : op[p] = "call" \/ Behind(waiters, s, p)}

(* For the sake of each call that sleeps there is, for every free thread,  *)
(* a caller that takes it, or a completion.                                *)
Covered ==
  \A s \in Asleep : op[s] = "call" /\ ~Overtaken(s) =>
    Cardinality(FreeThreads) <=
      Cardinality(Takers(s)) + Cardinality(At("final")) + Cardinality(completed)

(* Nobody who has a completion is asleep.                                  *)
AsleepAgrees ==
  \A s : s \in Asleep <=> s \in Callers /\ pc[s] = "sleep" /\ s \notin completed

LEMMA AsleepIs == QueueInv => AsleepAgrees
<1> SUFFICES ASSUME QueueInv PROVE AsleepAgrees
  OBVIOUS
<1>1. ASSUME NEW s \in Callers, pc[s] = "sleep"
      PROVE  s \in completed <=> done[s] # 0
  <2>1. done[s] \in {0, 1}
    BY DEF QueueInv, TypeOK
  <2>2. s \in completed <=> done[s] > 0
    BY <1>1 DEF QueueInv, CompletionAgrees
  <2> QED
    BY <2>1, <2>2
<1> QED
  BY <1>1 DEF Asleep, AsleepAgrees

(* What the steps do to the order of the queue.                            *)
LEMMA OrderOfSteps ==
  ASSUME QueueInv, NEW p \in Callers
  PROVE  /\ (\E o \in Ops : WaitInit(p, o)) =>
              /\ ~Waiting(waiters, p)
              /\ \A s, q : Behind(waiters', s, q) <=>
                             Behind(waiters, s, q) \/ (q = p /\ Waiting(waiters, s))
         /\ MoveToEnd(p) =>
              \A s, q : Behind(waiters', s, q) <=>
                          s # p /\ IF q = p THEN Waiting(waiters, s)
                                            ELSE Behind(waiters, s, q)
         /\ WaitFinal(p) =>
              \A s, q : Behind(waiters', s, q) <=>
                          s # p /\ q # p /\ Behind(waiters, s, q)
<1>0. waiters \in Seq(Callers) /\ Unique(waiters)
  BY DEF QueueInv, TypeOK, QueueMatchesCalls, Unique
<1>1. ASSUME NEW o \in Ops, WaitInit(p, o)
      PROVE  /\ ~Waiting(waiters, p)
             /\ \A s, q : Behind(waiters', s, q) <=>
                            Behind(waiters, s, q) \/ (q = p /\ Waiting(waiters, s))
  <2>1. ~Waiting(waiters, p)
    BY <1>1 DEF WaitInit, QueueInv, QueueMatchesCalls, Waiting
  <2> QED
    BY <1>0, <1>1, <2>1, AppendProps DEF WaitInit
<1>2. ASSUME MoveToEnd(p)
      PROVE  \A s, q : Behind(waiters', s, q) <=>
                         s # p /\ IF q = p THEN Waiting(waiters, s)
                                           ELSE Behind(waiters, s, q)
  <2> DEFINE ws == ListDel(waiters, p)
  <2>1. Waiting(waiters, p)
    BY <1>2 DEF MoveToEnd, QueueInv, QueueMatchesCalls, Waiting
  <2>2. /\ ws \in Seq(Callers) /\ Unique(ws)
        /\ \A q : Waiting(ws, q) <=> q # p /\ Waiting(waiters, q)
        /\ \A s, q : Behind(ws, s, q) <=> s # p /\ q # p /\ Behind(waiters, s, q)
    BY <1>0, <2>1, ListDelProperties
  <2>3. waiters' = Append(ws, p)
    BY <1>2 DEF MoveToEnd, Requeued
  <2> HIDE DEF ws
  <2>4. \A s, q : Behind(waiters', s, q) <=>
                    Behind(ws, s, q) \/ (q = p /\ Waiting(ws, s))
    BY <2>2, <2>3, AppendProps
  <2> QED
    BY <2>2, <2>4
<1>3. ASSUME WaitFinal(p)
      PROVE  \A s, q : Behind(waiters', s, q) <=>
                         s # p /\ q # p /\ Behind(waiters, s, q)
  <2>1. Waiting(waiters, p)
    BY <1>3 DEF WaitFinal, QueueInv, QueueMatchesCalls, Waiting
  <2> QED
    BY <1>0, <1>3, <2>1, ListDelProperties DEF WaitFinal
<1> QED
  BY <1>1, <1>2, <1>3

LEMMA OrderStep ==
  ASSUME QueueInv, InOrder, [Next]_vars
  PROVE  InOrder'
<1>1. ASSUME NEW p \in Callers, \E o \in Ops : WaitInit(p, o)
      PROVE  InOrder'
  <2>1. completed' = completed \ {p}
    BY <1>1 DEF WaitInit
  <2>2. \A s, q : Behind(waiters, s, q) => Waiting(waiters, s)
    BY DEF Behind, Waiting
  <2> QED
    BY <1>1, <2>1, <2>2, OrderOfSteps DEF InOrder
<1>2. ASSUME NEW p \in Callers, MoveToEnd(p)
      PROVE  InOrder'
  <2>1. completed' = completed \ {p}
    BY <1>2 DEF MoveToEnd, ClearsFlag
  <2> QED
    BY <1>2, <2>1, OrderOfSteps DEF InOrder
<1>3. ASSUME NEW p \in Callers, WaitFinal(p)
      PROVE  InOrder'
  <2> DEFINE ws == ListDel(waiters, p)
  <2>1. PICK q1 \in Callers \cup {None}, q2 \in Callers \cup {None} :
          /\ Wakes(p, q1, q2, ws)
          /\ completed' = (completed \cup ({q1, q2} \ {None})) \ {p}
    BY <1>3 DEF WaitFinal
  <2>2. /\ Finds(q1, ws, Callers \ completed)
        /\ q2 # None => Finds(q2, ws, Callers \ (completed \cup {q1}))
    BY <2>1 DEF Wakes, CompleteOne
  <2>3. waiters' = ws /\ waiters \in Seq(Callers) /\ Unique(waiters) /\ Waiting(waiters, p)
    BY <1>3 DEF WaitFinal, QueueInv, TypeOK, QueueMatchesCalls, Waiting, Unique
  <2>4. Unique(ws) /\ ws \in Seq(Callers)
    BY <2>3, ListDelProperties
  <2> HIDE DEF ws
  <2>5. ASSUME NEW S \in SUBSET Callers, NEW q \in Callers, Finds(q, ws, S),
               NEW s \in Callers, Behind(ws, s, q)
        PROVE  s \notin S
    <3>1. PICK i \in 1 .. Len(ws), j \in 1 .. Len(ws) :
            i < j /\ ws[i] = s /\ ws[j] = q
      BY <2>4, <2>5 DEF Behind
    <3>2. PICK k \in 1 .. Len(ws) : ws[k] = q /\ \A l \in 1 .. k - 1 : ws[l] \notin S
      BY <2>4, <2>5, NoneIsNoCaller DEF Finds
    <3>3. k = j
      BY <2>4, <3>1, <3>2 DEF Unique
    <3> QED
      BY <3>1, <3>2, <3>3
  <2>6. SUFFICES ASSUME NEW s \in Callers, NEW q \in Callers,
                        Behind(ws, s, q), q \in completed'
                 PROVE  s \in completed'
    BY <2>3 DEF InOrder
  <2>7. s # p /\ q # p /\ Behind(waiters, s, q)
    BY <1>3, <2>3, <2>6, OrderOfSteps
  <2>8. CASE q \in completed
    BY <2>1, <2>7, <2>8 DEF InOrder
  <2>9. CASE q = q1
    <3>1. s \in completed
      BY <2>2, <2>5, <2>6, <2>9
    <3> QED
      BY <2>1, <2>7, <3>1
  <2>10. CASE q = q2
    <3>1. Finds(q, ws, Callers \ (completed \cup {q1}))
      BY <2>2, <2>10, NoneIsNoCaller
    <3>2. s \in completed \/ s = q1
      BY <2>5, <2>6, <3>1
    <3> QED
      BY <2>1, <2>7, <3>2, NoneIsNoCaller
  <2> QED
    BY <2>1, <2>6, <2>8, <2>9, <2>10
<1>4. CASE UNCHANGED <<waiters, completed>>
  BY <1>4 DEF InOrder
<1> QED
  BY <1>1, <1>2, <1>3, <1>4, StepKinds DEF Stays, WaitForCompletion, queueVars

LEMMA OpStep ==
  ASSUME TypeOK, HasOp, [Next]_vars
  PROVE  HasOp'
<1>1. ASSUME NEW p \in Callers, NEW o \in Ops, WaitInit(p, o)
      PROVE  HasOp'
  BY <1>1 DEF WaitInit, Goto, HasOp, TypeOK
<1>2. CASE UNCHANGED <<pc, op>>
  BY <1>2 DEF HasOp
<1>3. ASSUME NEW p \in Callers, pc[p] # "idle", UNCHANGED op,
             \E where \in PCs : pc' = [pc EXCEPT ![p] = where]
      PROVE  HasOp'
  BY <1>3 DEF HasOp, TypeOK
<1>4. ASSUME NEW p \in Callers, WaitFinal(p)
      PROVE  HasOp'
  BY <1>4 DEF WaitFinal, Goto, HasOp, TypeOK
<1> QED
  BY <1>1, <1>2, <1>3, <1>4
  DEF Next, InvokeCall, SecureBuffer, SecureRpc, HandleRpc, Resumes, SecureReturns,
      InvokeEnable, InvokeDisable, WaitForCompletion, MoveToEnd, Goto, PCs, vars

LEMMA Sizes ==
  ASSUME TypeOK, IsFiniteSet(Callers)
  PROVE  /\ \A place : /\ IsFiniteSet(At(place))
                       /\ Cardinality(At(place)) \in Nat
         /\ IsFiniteSet(completed) /\ Cardinality(completed) \in Nat
         /\ IsFiniteSet(FreeThreads) /\ Cardinality(FreeThreads) \in Nat
<1>1. \A S \in SUBSET Callers : IsFiniteSet(S) /\ Cardinality(S) \in Nat
  BY FS_Subset, FS_CardinalityType
<1>2. completed \in SUBSET Callers /\ \A place : At(place) \in SUBSET Callers
  BY DEF TypeOK, At
<1>3. IsFiniteSet(Threads)
  BY FS_Interval, CallersAssumption DEF Threads
<1>4. FreeThreads \in SUBSET Threads
  BY DEF FreeThreads
<1>5. IsFiniteSet(FreeThreads) /\ Cardinality(FreeThreads) \in Nat
  BY <1>3, <1>4, FS_Subset, FS_CardinalityType
<1>6. QED
  BY <1>1, <1>2, <1>5

(* A caller that goes from one place to another.                           *)
LEMMA Moving ==
  ASSUME TypeOK, IsFiniteSet(Callers), NEW p \in Callers, NEW to, pc[p] # to,
         pc' = [pc EXCEPT ![p] = to], NEW place
  PROVE  Cardinality(At(place)') =
           IF place = to THEN Cardinality(At(place)) + 1
           ELSE IF place = pc[p] THEN Cardinality(At(place)) - 1
           ELSE Cardinality(At(place))
<1>1. IsFiniteSet(At(place))
  BY Sizes
<1>2. CASE place = to
  <2>1. At(place)' = At(place) \cup {p} /\ p \notin At(place)
    BY <1>2 DEF At, TypeOK
  <2>2. QED
    BY <1>1, <1>2, <2>1, FS_AddElement
<1>3. CASE place # to /\ place = pc[p]
  <2>1. At(place)' = At(place) \ {p} /\ p \in At(place)
    BY <1>3 DEF At, TypeOK
  <2>2. QED
    BY <1>1, <1>3, <2>1, FS_RemoveElement
<1>4. CASE place # to /\ place # pc[p]
  <2>1. At(place)' = At(place)
    BY <1>4 DEF At, TypeOK
  <2>2. QED
    BY <1>4, <2>1
<1>5. QED
  BY <1>2, <1>3, <1>4

(* Who is asleep after a step was asleep before it, or found no thread.    *)
LEMMA StillAsleep ==
  ASSUME TypeOK, [Next]_vars, NEW s \in Asleep'
  PROVE  \/ pc[s] = "sleep" /\ done[s] = 0
         \/ InvokeCall(s) \/ InvokeEnable(s) \/ InvokeDisable(s)
<1>1. s \in Callers /\ pc'[s] = "sleep" /\ done'[s] = 0
  BY DEF Asleep
<1> USE <1>1 DEF TypeOK, Goto, queueVars
<1>2. ASSUME NEW p \in Callers, NEW o \in Ops, WaitInit(p, o)
      PROVE  pc[s] = "sleep" /\ done[s] = 0
  BY <1>2 DEF WaitInit
<1>3. ASSUME NEW p \in Callers, InvokeCall(p) \/ InvokeEnable(p) \/ InvokeDisable(p)
      PROVE  \/ pc[s] = "sleep" /\ done[s] = 0
             \/ InvokeCall(s) \/ InvokeEnable(s) \/ InvokeDisable(s)
  BY <1>3 DEF InvokeCall, InvokeEnable, InvokeDisable
<1>4. ASSUME NEW p \in Callers,
             SecureBuffer(p) \/ SecureRpc(p) \/ HandleRpc(p) \/ SecureReturns(p)
      PROVE  pc[s] = "sleep" /\ done[s] = 0
  BY <1>4 DEF SecureBuffer, SecureRpc, HandleRpc, SecureReturns, Resumes
<1>5. ASSUME NEW p \in Callers, WaitForCompletion(p) \/ MoveToEnd(p)
      PROVE  pc[s] = "sleep" /\ done[s] = 0
  BY <1>5 DEF WaitForCompletion, MoveToEnd
<1>6. ASSUME NEW p \in Callers, WaitFinal(p)
      PROVE  pc[s] = "sleep" /\ done[s] = 0
  <2>1. PICK q1 \in Callers \cup {None}, q2 \in Callers \cup {None} :
          done' = [q \in Callers |->
                     IF q = p THEN 0
                     ELSE done[q] + (IF q = q1 THEN 1 ELSE 0)
                                  + (IF q = q2 THEN 1 ELSE 0)]
    BY <1>6 DEF WaitFinal
  <2>2. pc[s] = "sleep" /\ s # p
    BY <1>6 DEF WaitFinal
  <2>3. done[s] \in {0, 1}
    OBVIOUS
  <2>4. QED
    BY <2>1, <2>2, <2>3
<1>7. CASE UNCHANGED vars
  BY <1>7 DEF vars
<1>8. QED
  BY <1>2, <1>3, <1>4, <1>5, <1>6, <1>7 DEF Next

(* Who leaves the queue while somebody stays asleep leaves one completion  *)
(* more than there were, even if it was given one itself.                  *)
LEMMA FinalCovers ==
  ASSUME QueueInv, IsFiniteSet(Callers), NEW p \in Callers, WaitFinal(p),
         NEW s \in Asleep'
  PROVE  Cardinality(completed') = Cardinality(completed) + 1
<1> DEFINE ws == ListDel(waiters, p)
<1>1. Waiting(waiters, p) /\ Unique(waiters) /\ waiters \in Seq(Callers)
  BY DEF WaitFinal, QueueInv, TypeOK, QueueMatchesCalls, Waiting, Unique
<1>2. \A q : Waiting(ws, q) <=> q # p /\ Waiting(waiters, q)
  BY <1>1, ListDelProperties
<1> HIDE DEF ws
<1>3. PICK q1 \in Callers \cup {None}, q2 \in Callers \cup {None} :
        /\ Wakes(p, q1, q2, ws)
        /\ completed' = (completed \cup ({q1, q2} \ {None})) \ {p}
        /\ done' = [q \in Callers |->
                      IF q = p THEN 0
                      ELSE done[q] + (IF q = q1 THEN 1 ELSE 0)
                                   + (IF q = q2 THEN 1 ELSE 0)]
  BY DEF WaitFinal, ws
<1>4. s \in Callers /\ s # p /\ pc[s] = "sleep" /\ done'[s] = 0
  BY DEF WaitFinal, Goto, QueueInv, TypeOK, Asleep
<1>5. done[s] = 0 /\ s # q1 /\ s # q2
  <2>1. done[s] \in {0, 1}
    BY <1>4 DEF QueueInv, TypeOK
  <2>2. QED
    BY <1>3, <1>4, <2>1
<1>6. Waiting(ws, s) /\ s \notin completed
  BY <1>2, <1>4, <1>5 DEF QueueInv, QueueMatchesCalls, CompletionAgrees, Waiting
<1>7. q1 # None /\ q1 # p /\ q1 \notin completed
  <2>1. Finds(q1, ws, Callers \ completed)
    BY <1>3 DEF Wakes, CompleteOne
  <2>2. PICK i \in DOMAIN ws : ws[i] = s
    BY <1>6 DEF Waiting
  <2>3. s \in Callers \ completed
    BY <1>4, <1>6
  <2>4. PICK j \in DOMAIN ws : q1 = ws[j] /\ q1 \in Callers \ completed
    BY <2>1, <2>2, <2>3 DEF Finds
  <2>5. Waiting(ws, q1)
    BY <2>4 DEF Waiting
  <2>6. QED
    BY <1>2, <2>4, <2>5, NoneIsNoCaller
<1>8. IsFiniteSet(completed) /\ Cardinality(completed) \in Nat
  BY Sizes DEF QueueInv
<1>9. /\ IsFiniteSet(completed \cup {q1})
      /\ Cardinality(completed \cup {q1}) = Cardinality(completed) + 1
  BY <1>7, <1>8, FS_AddElement
<1>10. CASE p \notin completed
  <2>1. q2 = None
    BY <1>3, <1>10 DEF Wakes
  <2>2. completed' = completed \cup {q1}
    BY <1>3, <1>7, <1>10, <2>1
  <2>3. QED
    BY <1>9, <2>2
<1>11. CASE p \in completed
  <2> DEFINE S == Callers \ (completed \cup {q1})
             V == completed \cup {q1}
             U == V \cup {q2}
  <2>1. Finds(q2, ws, S)
    BY <1>3, <1>11 DEF Wakes, CompleteOne
  <2>2. PICK i \in DOMAIN ws : ws[i] = s
    BY <1>6 DEF Waiting
  <2>3. s \in S
    BY <1>4, <1>5, <1>6
  <2> HIDE DEF S
  <2>4. PICK j \in DOMAIN ws : q2 = ws[j] /\ q2 \in S
    BY <2>1, <2>2, <2>3 DEF Finds
  <2>5. Waiting(ws, q2)
    BY <2>4 DEF Waiting
  <2>6. q2 # None /\ q2 # p /\ q2 \notin completed \cup {q1}
    BY <1>2, <2>4, <2>5, NoneIsNoCaller DEF S
  <2>7. completed' = U \ {p} /\ p \in U
    BY <1>3, <1>7, <1>11, <2>6
  <2>8. /\ IsFiniteSet(V) /\ Cardinality(V) = Cardinality(completed) + 1
        /\ q2 \notin V
    BY <1>9, <2>6
  <2> HIDE DEF V
  <2>9. IsFiniteSet(U) /\ Cardinality(U) = Cardinality(V) + 1
    BY <2>8, FS_AddElement
  <2> HIDE DEF U
  <2>10. Cardinality(U \ {p}) = Cardinality(U) - 1
    BY <2>7, <2>9, FS_RemoveElement
  <2>11. QED
    BY <1>8, <2>7, <2>8, <2>9, <2>10
<1>12. QED
  BY <1>10, <1>11

(* Who sleeps behind s goes on sleeping behind s.                          *)
LEMMA OvertakenStays ==
  ASSUME QueueInv, QueueInv', InOrder', [Next]_vars,
         NEW s \in Asleep', s \in Asleep, Overtaken(s)
  PROVE  Overtaken(s)'
<1>0. AsleepAgrees /\ AsleepAgrees'
  BY AsleepIs, PTL
<1>1. PICK q \in Asleep : op[q] # "call" /\ Behind(waiters, s, q)
  BY DEF Overtaken
<1>2. /\ s \in Callers /\ pc[s] = "sleep" /\ s \notin completed'
      /\ q \in Callers /\ pc[q] = "sleep" /\ done[q] = 0
  BY <1>0, <1>1 DEF Asleep, AsleepAgrees
<1>3. ASSUME NEW p \in Callers, pc[p] # "sleep"
      PROVE  p # s /\ p # q
  BY <1>2, <1>3
<1>4. pc'[q] = "sleep" /\ op'[q] = op[q] /\ Behind(waiters', s, q)
  <2>1. ASSUME NEW p \in Callers, \E o \in Ops : WaitInit(p, o)
        PROVE  pc'[q] = "sleep" /\ op'[q] = op[q] /\ Behind(waiters', s, q)
    BY <1>1, <1>2, <1>3, <2>1, OrderOfSteps DEF WaitInit, Goto, QueueInv, TypeOK
  <2>2. ASSUME NEW p \in Callers, MoveToEnd(p)
        PROVE  pc'[q] = "sleep" /\ op'[q] = op[q] /\ Behind(waiters', s, q)
    BY <1>1, <1>2, <1>3, <2>2, OrderOfSteps DEF MoveToEnd, Goto, QueueInv, TypeOK
  <2>3. ASSUME NEW p \in Callers, WaitFinal(p)
        PROVE  pc'[q] = "sleep" /\ op'[q] = op[q] /\ Behind(waiters', s, q)
    BY <1>1, <1>2, <1>3, <2>3, OrderOfSteps DEF WaitFinal, Goto, QueueInv, TypeOK
  <2>4. ASSUME NEW p \in Callers, WaitForCompletion(p)
        PROVE  pc'[q] = "sleep" /\ op'[q] = op[q] /\ Behind(waiters', s, q)
    BY <1>1, <1>2, <2>4 DEF WaitForCompletion, Goto, QueueInv, TypeOK
  <2>5. ASSUME NEW p \in Callers,
               \/ InvokeCall(p) \/ SecureBuffer(p) \/ SecureRpc(p) \/ HandleRpc(p)
               \/ SecureReturns(p) \/ InvokeEnable(p) \/ InvokeDisable(p)
        PROVE  pc'[q] = "sleep" /\ op'[q] = op[q] /\ Behind(waiters', s, q)
    BY <1>1, <1>2, <1>3, <2>5
    DEF InvokeCall, SecureBuffer, SecureRpc, HandleRpc, Resumes, SecureReturns,
        InvokeEnable, InvokeDisable, Goto, queueVars, QueueInv, TypeOK
  <2>6. CASE UNCHANGED vars
    BY <1>1, <1>2, <2>6 DEF vars, queueVars
  <2> QED
    BY <2>1, <2>2, <2>3, <2>4, <2>5, <2>6 DEF Next
<1>5. q \notin completed'
  BY <1>2, <1>4 DEF InOrder
<1>6. q \in Asleep'
  BY <1>0, <1>2, <1>4, <1>5 DEF AsleepAgrees
<1> QED
  BY <1>1, <1>4, <1>6 DEF Overtaken

(* How the number of takers changes with who they are.                     *)
LEMMA TakersSize ==
  ASSUME TypeOK, IsFiniteSet(Callers), NEW s, NEW p
  PROVE  /\ Cardinality(Takers(s)) \in Nat
         /\ Takers(s)' = Takers(s) =>
              Cardinality(Takers(s)') = Cardinality(Takers(s))
         /\ p \notin Takers(s) /\ Takers(s)' = Takers(s) \cup {p} =>
              Cardinality(Takers(s)') = Cardinality(Takers(s)) + 1
         /\ p \in Takers(s) /\ Takers(s)' = Takers(s) \ {p} =>
              Cardinality(Takers(s)') = Cardinality(Takers(s)) - 1
<1>1. Takers(s) \in SUBSET Callers
  BY DEF Takers, At
<1>2. IsFiniteSet(Takers(s)) /\ Cardinality(Takers(s)) \in Nat
  BY <1>1, FS_Subset, FS_CardinalityType
<1> QED
  BY <1>2, FS_AddElement, FS_RemoveElement

LEMMA CoveredStep ==
  ASSUME IsFiniteSet(Callers), QueueInv, QueueInv', InOrder, InOrder', HasOp,
         Covered, [Next]_vars
  PROVE  Covered'
<1>0. TypeOK /\ TypeOK' /\ AsleepAgrees /\ AsleepAgrees'
  BY AsleepIs, PTL DEF QueueInv
<1>1. SUFFICES ASSUME NEW s \in Asleep', op'[s] = "call", ~Overtaken(s)'
               PROVE  Cardinality(FreeThreads') <=
                        Cardinality(Takers(s)') + Cardinality(At("final")')
                        + Cardinality(completed')
  BY DEF Covered
<1> DEFINE T == Takers(s)
           T2 == Takers(s)'
           I == Cardinality(T)
           F == Cardinality(At("final"))
           C == Cardinality(completed)
           N == Cardinality(FreeThreads)
           I2 == Cardinality(T2)
           F2 == Cardinality(At("final")')
           C2 == Cardinality(completed')
           N2 == Cardinality(FreeThreads')
<1>2. /\ I \in Nat /\ F \in Nat /\ C \in Nat /\ N \in Nat
      /\ I2 \in Nat /\ F2 \in Nat /\ C2 \in Nat
      /\ IsFiniteSet(completed) /\ IsFiniteSet(FreeThreads)
  <2>1. \A S \in SUBSET Callers : Cardinality(S) \in Nat
    BY FS_Subset, FS_CardinalityType
  <2>2. T2 \in SUBSET Callers /\ At("final")' \in SUBSET Callers
        /\ completed' \in SUBSET Callers
    BY <1>0 DEF Takers, At, TypeOK
  <2> QED
    BY <1>0, <2>1, <2>2, Sizes, TakersSize
<1>3. s \in Callers /\ pc'[s] = "sleep" /\ s \notin completed'
  BY <1>0 DEF AsleepAgrees
<1>4. N = 0 \/ N <= I + F + C
  <2>1. op[s] = "call"
    <3>1. ASSUME NEW p \in Callers, NEW o \in Ops, WaitInit(p, o)
          PROVE  p # s
      BY <1>0, <1>3, <3>1 DEF WaitInit, Goto, TypeOK
    <3>2. ASSUME NEW p \in Callers, WaitFinal(p)
          PROVE  p # s
      BY <1>0, <1>3, <3>2 DEF WaitFinal, Goto, TypeOK
    <3> QED
      BY <1>0, <1>1, <1>3, <3>1, <3>2
      DEF Next, WaitInit, InvokeCall, SecureBuffer, SecureRpc, HandleRpc, SecureReturns,
          InvokeEnable, InvokeDisable, WaitForCompletion, MoveToEnd, WaitFinal, vars, TypeOK
  <2>2. CASE InvokeCall(s)
    <3>1. FreeThreads = {}
      BY <1>0, <1>3, <2>2 DEF InvokeCall, Goto, TypeOK
    <3> QED
      BY <3>1, FS_EmptySet
  <2>3. CASE pc[s] = "sleep" /\ done[s] = 0
    <3>1. s \in Asleep
      BY <1>3, <2>3 DEF Asleep
    <3>2. ~Overtaken(s)
      BY <1>1, <3>1, OvertakenStays
    <3> QED
      BY <2>1, <3>1, <3>2 DEF Covered
  <2> QED
    BY <1>0, <2>1, <2>2, <2>3, StillAsleep DEF InvokeEnable, InvokeDisable
<1> HIDE DEF T, T2, I, F, C, N, I2, F2, C2, N2
<1>5. /\ T2 = T => I2 = I
      /\ \A p : p \notin T /\ T2 = T \cup {p} => I2 = I + 1
      /\ \A p : p \in T /\ T2 = T \ {p} => I2 = I - 1
  BY <1>0, TakersSize DEF T, T2, I, I2
<1>6. pc[s] # "idle" => Waiting(waiters, s)
  BY <1>3 DEF QueueInv, QueueMatchesCalls, Waiting
<1>7. ASSUME NEW p \in Callers, NEW o \in Ops, WaitInit(p, o)
      PROVE  N2 <= I2 + F2 + C2
  <2>0. pc[p] = "idle" /\ pc' = [pc EXCEPT ![p] = "invoke"] /\ p # s
    BY <1>0, <1>3, <1>7 DEF WaitInit, Goto, TypeOK
  <2>1. F2 = F
    BY <1>0, <2>0, Moving DEF F, F2
  <2>2. I2 = I + 1
    <3>1. Waiting(waiters, s)
      BY <1>0, <1>3, <1>6, <2>0 DEF TypeOK
    <3>2. \A q \in Callers : Behind(waiters', s, q) <=> Behind(waiters, s, q) \/ q = p
      BY <1>7, <3>1, OrderOfSteps
    <3>3. T2 = T \cup {p} /\ p \notin T
      BY <1>0, <1>7, <2>0, <3>2 DEF WaitInit, T, T2, Takers, At, TypeOK
    <3> QED
      BY <1>5, <3>3
  <2>3. C2 = C \/ C2 = C - 1
    BY <1>2, <1>7, FS_RemoveElement DEF WaitInit, C, C2
  <2>4. N2 = N
    BY <1>7 DEF WaitInit, N, N2, FreeThreads
  <2> QED
    BY <1>2, <1>4, <2>1, <2>2, <2>3, <2>4
<1>8. ASSUME NEW p \in Callers, InvokeCall(p)
      PROVE  N2 <= I2 + F2 + C2
  <2>1. C2 = C
    BY <1>8 DEF InvokeCall, queueVars, C, C2
  <2>2. ASSUME NEW n \in Threads, Secure!TakeThread(n, p), Goto(p, "secure")
        PROVE  N2 <= I2 + F2 + C2
    <3>0. pc[p] = "invoke" /\ pc' = [pc EXCEPT ![p] = "secure"]
      BY <1>8, <2>2 DEF InvokeCall, Goto
    <3>1. F2 = F
      BY <1>0, <3>0, Moving DEF F, F2
    <3>2. T2 = T \ {p} /\ p \in T
      BY <1>0, <1>8, <3>0 DEF InvokeCall, queueVars, T, T2, Takers, At, TypeOK
    <3>3. FreeThreads' = FreeThreads \ {n} /\ n \in FreeThreads
      BY <1>0, <2>2, NoneIsNoCaller DEF Secure!TakeThread, FreeThreads, TypeOK
    <3>4. N2 = N - 1
      BY <1>2, <3>3, FS_RemoveElement DEF N, N2
    <3>5. N # 0
      BY <1>2, <3>3, FS_EmptySet DEF N
    <3> QED
      BY <1>2, <1>4, <1>5, <2>1, <3>1, <3>2, <3>4, <3>5
  <2>3. CASE FreeThreads = {} /\ UNCHANGED owner
    <3>1. N2 = 0
      BY <2>3, FS_EmptySet DEF N2, FreeThreads
    <3> QED
      BY <1>2, <3>1
  <2> QED
    BY <1>8, <2>2, <2>3 DEF InvokeCall
<1>9. ASSUME NEW p \in Callers, InvokeEnable(p) \/ InvokeDisable(p)
      PROVE  N2 <= I2 + F2 + C2
  <2>1. /\ C2 = C /\ N2 = N
        /\ UNCHANGED <<op, queueVars>>
        /\ pc[p] = "invoke" /\ op[p] # "call"
    BY <1>9
    DEF InvokeEnable, InvokeDisable, Secure!EnableCache, Secure!DisableCache,
        Secure!HandBackBuffer, queueVars, C, C2, N, N2, FreeThreads
  <2>2. CASE pc' = [pc EXCEPT ![p] = "final"]
    <3>1. F2 = F + 1
      BY <1>0, <2>1, <2>2, Moving DEF F, F2
    <3>2. T2 = T \ {p}
      BY <1>0, <2>1, <2>2 DEF queueVars, T, T2, Takers, At, TypeOK
    <3>3. I2 = I \/ I2 = I - 1
      <4>1. CASE p \in T
        BY <1>5, <3>2, <4>1
      <4>2. CASE p \notin T
        BY <1>5, <3>2, <4>2
      <4> QED
        BY <4>1, <4>2
    <3> QED
      BY <1>2, <1>4, <2>1, <3>1, <3>3
  <2>3. CASE pc' = [pc EXCEPT ![p] = "sleep"]
    <3>1. F2 = F
      BY <1>0, <2>1, <2>3, Moving DEF F, F2
    <3>2. p \notin T
      <4> SUFFICES ASSUME Behind(waiters', s, p) PROVE FALSE
        BY <2>1 DEF queueVars, T, Takers
      <4>1. p \notin completed'
        BY <1>3 DEF InOrder
      <4>2. p \in Asleep'
        BY <1>0, <2>3, <4>1 DEF AsleepAgrees, TypeOK
      <4>3. op'[p] # "call"
        BY <2>1
      <4> QED
        BY <1>1, <4>2, <4>3 DEF Overtaken
    <3>3. T2 = T
      BY <1>0, <2>1, <2>3, <3>2 DEF queueVars, T, T2, Takers, At, TypeOK
    <3> QED
      BY <1>2, <1>4, <1>5, <2>1, <3>1, <3>3
  <2>4. CASE UNCHANGED pc
    <3>1. F2 = F /\ T2 = T
      BY <2>1, <2>4 DEF queueVars, F, F2, T, T2, Takers, At
    <3> QED
      BY <1>2, <1>4, <1>5, <2>1, <3>1
  <2> QED
    BY <1>9, <2>2, <2>3, <2>4 DEF InvokeEnable, InvokeDisable, Goto
<1>10. ASSUME NEW p \in Callers, SecureBuffer(p) \/ SecureRpc(p) \/ HandleRpc(p)
       PROVE  N2 <= I2 + F2 + C2
  <2>1. /\ C2 = C /\ N2 = N
        /\ UNCHANGED <<op, waiters>>
    BY <1>10 DEF SecureBuffer, SecureRpc, HandleRpc, Secure!GainBuffer,
                 Secure!LoseBuffer, queueVars, C, C2, N, N2, FreeThreads
  <2>2. \A q \in Callers : /\ pc[q] = "invoke" <=> pc'[q] = "invoke"
                           /\ pc[q] = "final" <=> pc'[q] = "final"
    BY <1>0, <1>10 DEF SecureBuffer, SecureRpc, HandleRpc, Resumes, Goto, TypeOK
  <2>3. F2 = F /\ T2 = T
    BY <2>1, <2>2 DEF F, F2, T, T2, Takers, At
  <2> QED
    BY <1>2, <1>4, <1>5, <2>1, <2>3
<1>11. ASSUME NEW p \in Callers, SecureReturns(p)
       PROVE  N2 <= I2 + F2 + C2
  <2>0. pc[p] = "secure" /\ pc' = [pc EXCEPT ![p] = "final"]
    BY <1>11 DEF SecureReturns, Goto
  <2>1. F2 = F + 1
    BY <1>0, <2>0, Moving DEF F, F2
  <2>2. C2 = C
    BY <1>11 DEF SecureReturns, queueVars, C, C2
  <2>3. T2 = T
    BY <1>0, <1>11, <2>0 DEF SecureReturns, queueVars, T, T2, Takers, At, TypeOK
  <2>4. PICK n \in Threads : owner[n] = p /\ Secure!ReleaseThread(n)
    BY <1>11 DEF SecureReturns
  <2>5. FreeThreads' = FreeThreads \cup {n}
    BY <1>0, <2>4 DEF Secure!ReleaseThread, FreeThreads, TypeOK
  <2>6. N2 = N \/ N2 = N + 1
    BY <1>2, <2>5, FS_AddElement DEF N, N2
  <2> QED
    BY <1>2, <1>4, <1>5, <2>1, <2>2, <2>3, <2>6
<1>12. ASSUME NEW p \in Callers, WaitForCompletion(p)
       PROVE  N2 <= I2 + F2 + C2
  <2>0. pc[p] = "sleep" /\ pc' = [pc EXCEPT ![p] = "woken"]
    BY <1>12 DEF WaitForCompletion, Goto
  <2>1. F2 = F
    BY <1>0, <2>0, Moving DEF F, F2
  <2>2. C2 = C /\ N2 = N
    BY <1>12 DEF WaitForCompletion, C, C2, N, N2, FreeThreads
  <2>3. T2 = T
    BY <1>0, <1>12, <2>0 DEF WaitForCompletion, T, T2, Takers, At, TypeOK
  <2> QED
    BY <1>2, <1>4, <1>5, <2>1, <2>2, <2>3
<1>13. ASSUME NEW p \in Callers, MoveToEnd(p)
       PROVE  N2 <= I2 + F2 + C2
  <2>0. pc[p] = "woken" /\ pc' = [pc EXCEPT ![p] = "invoke"] /\ p # s
    BY <1>0, <1>3, <1>13 DEF MoveToEnd, Goto, TypeOK
  <2>1. F2 = F
    BY <1>0, <2>0, Moving DEF F, F2
  <2>2. I2 = I + 1
    <3>1. Waiting(waiters, s)
      BY <1>0, <1>3, <1>6, <2>0 DEF TypeOK
    <3>2. \A q \in Callers : Behind(waiters', s, q) <=> Behind(waiters, s, q) \/ q = p
      BY <1>13, <2>0, <3>1, OrderOfSteps
    <3>3. T2 = T \cup {p} /\ p \notin T
      BY <1>0, <1>13, <2>0, <3>2 DEF MoveToEnd, T, T2, Takers, At, TypeOK
    <3> QED
      BY <1>5, <3>3
  <2>3. C2 = C \/ C2 = C - 1
    BY <1>2, <1>13, FS_RemoveElement DEF MoveToEnd, ClearsFlag, C, C2
  <2>4. N2 = N
    BY <1>13 DEF MoveToEnd, N, N2, FreeThreads
  <2> QED
    BY <1>2, <1>4, <2>1, <2>2, <2>3, <2>4
<1>14. ASSUME NEW p \in Callers, WaitFinal(p)
       PROVE  N2 <= I2 + F2 + C2
  <2>0. pc[p] = "final" /\ pc' = [pc EXCEPT ![p] = "idle"] /\ p # s
    BY <1>0, <1>3, <1>14 DEF WaitFinal, Goto, TypeOK
  <2>1. F2 = F - 1
    BY <1>0, <2>0, Moving DEF F, F2
  <2>2. T2 = T
    <3>1. \A q \in Callers : q # p => (Behind(waiters', s, q) <=> Behind(waiters, s, q))
      BY <1>14, <2>0, OrderOfSteps
    <3> QED
      BY <1>0, <1>14, <2>0, <3>1 DEF WaitFinal, T, T2, Takers, At, TypeOK
  <2>3. C2 = C + 1
    BY <1>1, <1>14, FinalCovers DEF C, C2
  <2>4. N2 = N
    BY <1>14 DEF WaitFinal, N, N2, FreeThreads
  <2>5. F # 0
    <3>1. p \in At("final")
      BY <2>0 DEF At
    <3>2. IsFiniteSet(At("final"))
      BY <1>0, Sizes
    <3> QED
      BY <3>1, <3>2, FS_EmptySet DEF F
  <2> QED
    BY <1>2, <1>4, <1>5, <2>1, <2>2, <2>3, <2>4, <2>5
<1>15. ASSUME UNCHANGED vars
       PROVE  N2 <= I2 + F2 + C2
  <2>1. F2 = F /\ C2 = C /\ N2 = N /\ T2 = T
    BY <1>15 DEF vars, queueVars, At, Takers, FreeThreads, F, F2, C, C2, N, N2, T, T2
  <2> QED
    BY <1>2, <1>4, <1>5, <2>1
<1> QED
  BY <1>7, <1>8, <1>9, <1>10, <1>11, <1>12, <1>13, <1>14, <1>15
  DEF Next, N2, I2, F2, C2, T2

(* Completions are given out in the order of the queue, which callers that *)
(* were told "busy" again have to join at its end.                         *)
THEOREM CompletionsInOrder == Spec => []InOrder
<1>1. Init => InOrder
  BY DEF Init, InOrder
<1>2. QueueInv /\ InOrder /\ [Next]_vars => InOrder'
  BY OrderStep
<1> QED
  BY <1>1, <1>2, QueueInvHolds, PTL DEF Spec

(* Calls and cache switches together, in any number: for the sake of each  *)
(* call that sleeps, every free thread has a taker or a completion.        *)
THEOREM SleepersCovered ==
  ASSUME IsFiniteSet(Callers)
  PROVE  Spec => [](HasOp /\ Covered)
<1>1. Init => HasOp /\ Covered
  BY DEF Init, HasOp, Covered, Asleep
<1>2. QueueInv /\ HasOp /\ [Next]_vars => HasOp'
  BY OpStep DEF QueueInv
<1>3. /\ QueueInv /\ QueueInv' /\ InOrder /\ InOrder' /\ HasOp
      /\ Covered /\ [Next]_vars
      => Covered'
  BY CoveredStep
<1> QED
  BY <1>1, <1>2, <1>3, QueueInvHolds, CompletionsInOrder, PTL DEF Spec

(* While only calls are in progress, each free thread beside a caller that *)
(* sleeps has somebody who is about to take it, is leaving and will wake a *)
(* caller, or has a completion, be it one that is still inside the secure  *)
(* world and passes it on when it leaves (optee_cq_wait_final); and what a *)
(* cache switch used up before is made good by the time it ends.           *)
THEOREM ThreadsAreOwed ==
  ASSUME IsFiniteSet(Callers)
  PROVE  Spec => []FreeThreadsOwed
<1>1. QueueInv /\ HasOp /\ Covered => FreeThreadsOwed
  <2> SUFFICES ASSUME QueueInv, HasOp, Covered, OnlyCalls, NEW s \in Asleep
               PROVE  Cardinality(FreeThreads) <=
                        Cardinality(At("invoke")) + Cardinality(At("final"))
                        + Cardinality(completed)
    BY DEF FreeThreadsOwed, At
  <2>1. \A q \in Asleep : op[q] = "call"
    BY CallersAssumption DEF Asleep, HasOp, OnlyCalls
  <2>2. ~Overtaken(s)
    BY <2>1 DEF Overtaken
  <2>3. Cardinality(Takers(s)) <= Cardinality(At("invoke"))
    <3>1. Takers(s) \subseteq At("invoke") /\ IsFiniteSet(At("invoke"))
      BY Sizes DEF Takers, QueueInv
    <3> QED
      BY <3>1, FS_Subset
  <2>4. /\ Cardinality(Takers(s)) \in Nat /\ Cardinality(At("invoke")) \in Nat
        /\ Cardinality(At("final")) \in Nat /\ Cardinality(completed) \in Nat
        /\ Cardinality(FreeThreads) \in Nat
    BY Sizes, TakersSize DEF QueueInv
  <2>5. Cardinality(FreeThreads) <=
          Cardinality(Takers(s)) + Cardinality(At("final")) + Cardinality(completed)
    BY <2>1, <2>2 DEF Covered
  <2> QED
    BY <2>3, <2>4, <2>5
<1> QED
  BY <1>1, QueueInvHolds, SleepersCovered, PTL
=============================================================================
