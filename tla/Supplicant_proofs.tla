-------------------------- MODULE Supplicant_proofs -------------------------
(***************************************************************************)
(* Proofs about Supplicant, for any number of threads and requests.        *)
(***************************************************************************)
EXTENDS Supplicant, FiniteSetTheorems, TLAPS

(* The inductive invariant.                                                *)
SupplicantInv == TypeOK /\ WaitersCounted /\ SomeoneListens

CountedPlaces == {"start", "recv", "params", "got", "create", "undo"}

LEMMA CountedFinite ==
  IsFiniteSet(Counted) /\ Cardinality(Counted) \in Nat
  <1>1. Counted \subseteq Threads
    BY DEF Counted
  <1> QED BY <1>1, SupplicantAssumption, FS_Subset, FS_CardinalityType

(* A thread that goes to a place where it counts, or leaves one.           *)
LEMMA CountedEnter ==
  ASSUME TypeOK, NEW t \in Threads, NEW place \in CountedPlaces,
         pc[t] \notin CountedPlaces, Goto(t, place)
  PROVE  Cardinality(Counted') = Cardinality(Counted) + 1
  <1>1. Counted' = Counted \cup {t} /\ t \notin Counted
    BY DEF Counted, CountedPlaces, TypeOK, Goto
  <1> QED BY <1>1, CountedFinite, FS_AddElement

LEMMA CountedLeave ==
  ASSUME TypeOK, NEW t \in Threads, NEW place \in Places \ CountedPlaces,
         pc[t] \in CountedPlaces, Goto(t, place)
  PROVE  Cardinality(Counted') = Cardinality(Counted) - 1
  <1>1. Counted' = Counted \ {t} /\ t \in Counted
    BY DEF Counted, CountedPlaces, TypeOK, Goto
  <1> QED BY <1>1, CountedFinite, FS_RemoveElement

LEMMA CountedStay ==
  ASSUME TypeOK, NEW t \in Threads, NEW place \in Places, Goto(t, place),
         pc[t] \in CountedPlaces <=> place \in CountedPlaces
  PROVE  Counted' = Counted
  BY DEF Counted, CountedPlaces, TypeOK, Goto

LEMMA CountedSome ==
  ASSUME NEW t \in Threads, pc[t] \in CountedPlaces
  PROVE  Cardinality(Counted) >= 1
  <1>1. t \in Counted
    BY DEF Counted, CountedPlaces
  <1>2. Cardinality(Counted) # 0
    BY <1>1, CountedFinite, FS_EmptySet
  <1> QED BY <1>2, CountedFinite

LEMMA StartInv ==
  ASSUME SupplicantInv, NEW t \in Threads, Start(t)
  PROVE  SupplicantInv'
  <1> USE DEF SupplicantInv, Start, Runs
  <1>1. Cardinality(Counted) >= 1 /\ Cardinality(Counted') = Cardinality(Counted) - 1
    BY CountedSome, CountedLeave DEF CountedPlaces, Places
  <1>2. TypeOK'
    BY <1>1, CountedFinite DEF TypeOK, WaitersCounted, Goto, Places
  <1>3. WaitersCounted'
    BY <1>1, CountedFinite DEF TypeOK, WaitersCounted, Goto
  <1>4. SomeoneListens'
    BY DEF TypeOK, SomeoneListens, Goto, Listening
  <1> QED BY <1>2, <1>3, <1>4

LEMMA LoopInv ==
  ASSUME SupplicantInv, NEW t \in Threads, Loop(t)
  PROVE  SupplicantInv'
  <1> USE DEF SupplicantInv, Loop, Runs
  <1>1. CASE abort
    <2>1. Counted' = Counted
      BY <1>1, CountedStay DEF CountedPlaces, Places
    <2> QED BY <1>1, <2>1 DEF TypeOK, WaitersCounted, SomeoneListens, Goto, Places
  <1>2. CASE ~abort
    <2>1. Cardinality(Counted') = Cardinality(Counted) + 1
      BY <1>2, CountedEnter DEF CountedPlaces
    <2>2. TypeOK'
      BY <1>2 DEF TypeOK, Goto, Places
    <2>3. WaitersCounted'
      BY <1>2, <2>1, CountedFinite DEF TypeOK, WaitersCounted, Goto
    <2>4. SomeoneListens'
      BY <1>2 DEF TypeOK, SomeoneListens, Goto, Listening
    <2> QED BY <2>2, <2>3, <2>4
  <1> QED BY <1>1, <1>2

LEMMA ReadRequestInv ==
  ASSUME SupplicantInv, NEW t \in Threads, NEW r \in Requests, ReadRequest(t, r)
  PROVE  SupplicantInv'
  <1> USE DEF SupplicantInv, ReadRequest, Runs
  <1>1. Counted' = Counted
    BY CountedStay DEF CountedPlaces, Places
  <1>2. TypeOK'
    BY DEF TypeOK, Goto, Places
  <1>3. WaitersCounted'
    BY <1>1 DEF TypeOK, WaitersCounted, Goto
  <1>4. SomeoneListens'
    BY DEF TypeOK, SomeoneListens, Goto, Listening
  <1> QED BY <1>2, <1>3, <1>4

(* A failure leaves the thread counted, and somebody failed.               *)
LEMMA FailsInv ==
  ASSUME SupplicantInv, NEW t \in Threads, pc[t] \in {"recv", "params", "work"},
         Goto(t, "failed"), UNCHANGED <<num_waiters, abort, request>>,
         serving' \in [Threads -> Requests \cup {None}]
  PROVE  SupplicantInv'
  <1> USE DEF SupplicantInv
  <1>1. pc'[t] = "failed"
    BY DEF TypeOK, Goto
  <1>2. Cardinality(Counted') <= Cardinality(Counted) /\ Cardinality(Counted') \in Nat
    <2>1. CASE pc[t] = "work"
      BY <2>1, CountedStay, CountedFinite DEF CountedPlaces, Places
    <2>2. CASE pc[t] # "work"
      <3>1. Cardinality(Counted') = Cardinality(Counted) - 1
        BY <2>2, CountedLeave DEF CountedPlaces, Places
      <3>2. Cardinality(Counted) >= 1
        BY <2>2, CountedSome DEF CountedPlaces
      <3> QED BY <3>1, <3>2, CountedFinite
    <2> QED BY <2>1, <2>2
  <1>3. TypeOK'
    BY DEF TypeOK, Goto, Places
  <1>4. WaitersCounted'
    BY <1>1, <1>2, CountedFinite DEF TypeOK, WaitersCounted
  <1>5. SomeoneListens'
    BY <1>1 DEF SomeoneListens
  <1> QED BY <1>3, <1>4, <1>5

LEMMA FindParamsInv ==
  ASSUME SupplicantInv, NEW t \in Threads, FindParams(t)
  PROVE  SupplicantInv'
  <1>1. CASE Goto(t, "got")
    <2> USE <1>1 DEF SupplicantInv, FindParams, Runs
    <2>1. Counted' = Counted
      BY CountedStay DEF CountedPlaces, Places
    <2>2. TypeOK'
      BY DEF TypeOK, Goto, Places
    <2>3. WaitersCounted' /\ SomeoneListens'
      BY <2>1 DEF TypeOK, WaitersCounted, SomeoneListens, Goto, Listening
    <2> QED BY <2>2, <2>3
  <1>2. CASE Goto(t, "failed")
    BY <1>2, FailsInv DEF FindParams, Runs, SupplicantInv, TypeOK
  <1> QED BY <1>1, <1>2 DEF FindParams

(* The last thread that waits starts another one before it serves.         *)
LEMMA GotInv ==
  ASSUME SupplicantInv, NEW t \in Threads, Got(t)
  PROVE  SupplicantInv'
  <1> USE DEF SupplicantInv, Got, Runs, DropWaiter
  <1>1. Cardinality(Counted) >= 1 /\ Cardinality(Counted') = Cardinality(Counted) - 1
    BY CountedSome, CountedLeave DEF CountedPlaces, Places
  <1>2. TypeOK'
    BY <1>1, CountedFinite DEF TypeOK, WaitersCounted, Goto, Places
  <1>3. WaitersCounted'
    BY <1>1, CountedFinite DEF TypeOK, WaitersCounted, Goto
  <1>4. SomeoneListens'
    <2>1. CASE LastOne
      BY <2>1 DEF TypeOK, SomeoneListens, Goto, Listening
    <2>2. CASE ~LastOne /\ num_waiters = Cardinality(Counted)
      <3>1. Cardinality(Counted') # 0
        BY <1>1, <2>2, CountedFinite DEF LastOne
      <3>2. PICK u \in Threads : pc'[u] \in CountedPlaces
        BY <3>1, FS_EmptySet DEF Counted, CountedPlaces
      <3> QED BY <3>2 DEF SomeoneListens, CountedPlaces, Listening
    <2>3. CASE ~LastOne /\ num_waiters # Cardinality(Counted)
      BY <2>3 DEF TypeOK, WaitersCounted, SomeoneListens, Goto
    <2> QED BY <2>1, <2>2, <2>3
  <1> QED BY <1>2, <1>3, <1>4

LEMMA SpawnInv ==
  ASSUME SupplicantInv, NEW t \in Threads, Spawn(t)
  PROVE  SupplicantInv'
  <1> USE DEF SupplicantInv, Spawn, Runs, CountThread
  <1>1. Cardinality(Counted') = Cardinality(Counted) + 1
    BY CountedEnter DEF CountedPlaces
  <1>2. TypeOK'
    BY DEF TypeOK, Goto, Places
  <1>3. WaitersCounted'
    BY <1>1, CountedFinite DEF TypeOK, WaitersCounted, Goto
  <1>4. SomeoneListens'
    BY DEF TypeOK, SomeoneListens, Goto, Listening
  <1> QED BY <1>2, <1>3, <1>4

LEMMA CreateInv ==
  ASSUME SupplicantInv, NEW t \in Threads, Create(t)
  PROVE  SupplicantInv'
  <1> USE DEF SupplicantInv, Create, Runs
  <1>1. CASE \E u \in Threads :
               pc[u] = "none" /\ pc' = [pc EXCEPT ![u] = "start", ![t] = "work"]
    <2>1. PICK u \in Threads :
            pc[u] = "none" /\ pc' = [pc EXCEPT ![u] = "start", ![t] = "work"]
      BY <1>1
    <2>2. /\ Counted' = (Counted \ {t}) \cup {u}
          /\ t \in Counted /\ u \notin Counted \ {t} /\ pc'[u] = "start"
      BY <2>1 DEF Counted, TypeOK
    <2>3. Cardinality(Counted') = Cardinality(Counted)
      <3> DEFINE Others == Counted \ {t}
      <3>1. IsFiniteSet(Others) /\ Cardinality(Others) = Cardinality(Counted) - 1
        BY <2>2, CountedFinite, FS_RemoveElement
      <3>2. Cardinality(Others \cup {u}) = Cardinality(Others) + 1
        BY <2>2, <3>1, FS_AddElement
      <3> QED BY <2>2, <3>1, <3>2, CountedFinite
    <2>4. TypeOK'
      BY <2>1 DEF TypeOK, Places
    <2>5. WaitersCounted'
      BY <2>1, <2>3 DEF TypeOK, WaitersCounted
    <2>6. SomeoneListens'
      BY <2>2 DEF SomeoneListens, Listening
    <2> QED BY <2>4, <2>5, <2>6
  <1>2. CASE Goto(t, "undo")
    <2>1. Counted' = Counted
      BY <1>2, CountedStay DEF CountedPlaces, Places
    <2>2. TypeOK'
      BY <1>2 DEF TypeOK, Goto, Places
    <2>3. WaitersCounted' /\ SomeoneListens'
      BY <1>2, <2>1 DEF TypeOK, WaitersCounted, SomeoneListens, Goto
    <2> QED BY <2>2, <2>3
  <1> QED BY <1>1, <1>2

LEMMA CreateFailedInv ==
  ASSUME SupplicantInv, NEW t \in Threads, CreateFailed(t)
  PROVE  SupplicantInv'
  <1> USE DEF SupplicantInv, CreateFailed, Runs
  <1>1. Cardinality(Counted) >= 1 /\ Cardinality(Counted') = Cardinality(Counted) - 1
    BY CountedSome, CountedLeave DEF CountedPlaces, Places
  <1>2. TypeOK'
    BY <1>1, CountedFinite DEF TypeOK, WaitersCounted, Goto, Places
  <1>3. WaitersCounted'
    BY <1>1, CountedFinite DEF TypeOK, WaitersCounted, Goto
  <1>4. SomeoneListens'
    BY DEF TypeOK, SomeoneListens, Goto
  <1> QED BY <1>2, <1>3, <1>4

LEMMA ServeInv ==
  ASSUME SupplicantInv, NEW t \in Threads, Serve(t)
  PROVE  SupplicantInv'
  <1>1. serving' \in [Threads -> Requests \cup {None}]
    BY DEF Serve, SupplicantInv, TypeOK
  <1>2. CASE Goto(t, "loop") /\ request' = [request EXCEPT ![serving[t]] = "answered"]
    <2> USE <1>2 DEF SupplicantInv, Serve, Runs
    <2>1. Counted' = Counted
      BY CountedStay DEF CountedPlaces, Places
    <2>2. TypeOK'
      BY <1>1 DEF TypeOK, Goto, Places
    <2>3. WaitersCounted' /\ SomeoneListens'
      BY <2>1 DEF TypeOK, WaitersCounted, SomeoneListens, Goto, Listening
    <2> QED BY <2>2, <2>3
  <1>3. CASE Goto(t, "failed") /\ UNCHANGED request
    BY <1>1, <1>3, FailsInv DEF Serve, Runs
  <1> QED BY <1>2, <1>3 DEF Serve

LEMMA FailInv ==
  ASSUME SupplicantInv, NEW t \in Threads, Fail(t)
  PROVE  SupplicantInv'
  <1> USE DEF SupplicantInv, Fail, Runs
  <1>1. Counted' = Counted
    BY CountedStay DEF CountedPlaces, Places
  <1> QED BY <1>1 DEF TypeOK, WaitersCounted, SomeoneListens, Goto, Places

LEMMA StepInv ==
  ASSUME SupplicantInv, [Next]_vars
  PROVE  SupplicantInv'
  <1>1. CASE UNCHANGED vars
    BY <1>1 DEF vars, SupplicantInv, TypeOK, WaitersCounted, SomeoneListens, Counted
  <1>2. ASSUME NEW r \in Requests, Ask(r)
        PROVE  SupplicantInv'
    BY <1>2 DEF Ask, SupplicantInv, TypeOK, WaitersCounted, SomeoneListens, Counted
  <1>3. ASSUME NEW t \in Threads, ThreadStep(t)
        PROVE  SupplicantInv'
    <2>1. CASE Listen(t)
      BY <2>1, StartInv, LoopInv, ReadRequestInv, FindParamsInv, GotInv, SpawnInv,
         CreateInv, CreateFailedInv, FailInv DEF Listen
    <2>2. CASE Serve(t)
      BY <2>2, ServeInv
    <2>3. CASE ReadFails(t)
      BY <2>3, FailsInv DEF ReadFails, Runs, SupplicantInv, TypeOK
    <2> QED BY <1>3, <2>1, <2>2, <2>3 DEF ThreadStep
  <1> QED BY <1>1, <1>2, <1>3 DEF Next

LEMMA InitInv == Init => SupplicantInv
  <1> SUFFICES ASSUME Init PROVE SupplicantInv
    OBVIOUS
  <1>1. TypeOK
    BY DEF Init, TypeOK, Places
  <1>2. Counted = {}
    BY DEF Init, Counted
  <1>3. WaitersCounted
    BY <1>2, FS_EmptySet DEF Init, WaitersCounted
  <1>4. SomeoneListens
    BY SupplicantAssumption DEF Init, SomeoneListens, Listening
  <1> QED BY <1>1, <1>3, <1>4 DEF SupplicantInv

LEMMA SupplicantInvHolds == Spec => []SupplicantInv
  <1>1. SupplicantInv /\ [Next]_vars => SupplicantInv'
    BY StepInv
  <1> QED BY InitInv, <1>1, PTL DEF Spec

(* The threads and their counters keep their types.                        *)
THEOREM SupplicantTyped == Spec => []TypeOK
  <1>1. SupplicantInv => TypeOK
    BY DEF SupplicantInv
  <1> QED BY <1>1, SupplicantInvHolds, PTL

(* With any number of threads and requests, and whatever fails, the        *)
(* threads are never all busy: one of them will take the next request      *)
(* (process_one_request, spawn_thread).                                    *)
THEOREM Listens == Spec => []SomeoneListens
  <1>1. SupplicantInv => SomeoneListens
    BY DEF SupplicantInv
  <1> QED BY <1>1, SupplicantInvHolds, PTL

(* num_waiters is exactly the number of threads that wait for a request or *)
(* are being started, until something fails (num_waiters_inc and _dec).    *)
THEOREM Waiters == Spec => []WaitersCounted
  <1>1. SupplicantInv => WaitersCounted
    BY DEF SupplicantInv
  <1> QED BY <1>1, SupplicantInvHolds, PTL
=============================================================================
