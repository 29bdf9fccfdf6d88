----------------------------- MODULE Supplicant -----------------------------
(***************************************************************************)
(* The threads of tee-supplicant (tee_supplicant.c).                       *)
(*                                                                         *)
(* The trusted OS asks the normal world for services, and tee-supplicant   *)
(* receives these requests from the driver, serves them and answers.  A    *)
(* request may take long: that of Trust.IO waits for a remote client.  A   *)
(* thread that finds nobody else waiting for requests therefore starts     *)
(* another thread before it serves its own.                                *)
(*                                                                         *)
(* The driver is external: a request is received by one thread.  It sends  *)
(* a meta parameter with each request, as the supplicant offers it to.     *)
(***************************************************************************)
EXTENDS Integers, FiniteSets

CONSTANTS
  Threads,    (* bound: the threads there is room for                      *)
  Main,       (* the one that runs main                                    *)
  Requests,
  Stuck,      (* the requests that may never come to an end                *)
  Failures,   (* what may fail                                             *)
  None

ASSUME SupplicantAssumption ==
  /\ Main \in Threads /\ IsFiniteSet(Threads)
  /\ Stuck \subseteq Requests /\ None \notin Requests
  /\ Failures \subseteq {"recv", "params", "create", "send"}

VARIABLES
  pc,         (* where a thread is                                         *)
  serving,    (* the request it serves                                     *)
  num_waiters,
  abort,
  request     (* none, queued, taken or answered                           *)

vars == <<pc, serving, num_waiters, abort, request>>

Places == {"none", "start", "loop", "recv", "params", "got", "spawn",
           "create", "undo", "work", "failed", "over"}

Init ==
  /\ pc = [t \in Threads |-> IF t = Main THEN "loop" ELSE "none"]
  /\ serving = [t \in Threads |-> None]
  /\ num_waiters = 0
  /\ abort = FALSE
  /\ request = [r \in Requests |-> "none"]

(* The process lives until main returns.                                   *)
Runs(t, place) == pc[Main] # "over" /\ pc[t] = place

Goto(t, place) == pc' = [pc EXCEPT ![t] = place]
-----------------------------------------------------------------------------
(* The trusted OS makes a request.                                         *)
Ask(r) ==
  /\ request[r] = "none"
  /\ request' = [request EXCEPT ![r] = "queued"]
  /\ UNCHANGED <<pc, serving, num_waiters, abort>>

(* thread_main undoes what spawn_thread counted in advance.                *)
Start(t) ==
  /\ Runs(t, "start")
  /\ num_waiters' = num_waiters - 1
  /\ Goto(t, "loop")
  /\ UNCHANGED <<serving, abort, request>>

(* while (!arg->abort)                                                     *)
Loop(t) ==
  /\ Runs(t, "loop")
  /\ IF abort
     THEN Goto(t, "over") /\ UNCHANGED num_waiters
     ELSE Goto(t, "recv") /\ num_waiters' = num_waiters + 1
  /\ UNCHANGED <<serving, abort, request>>

ReadRequest(t, r) ==
  /\ Runs(t, "recv")
  /\ request[r] = "queued"
  /\ request' = [request EXCEPT ![r] = "taken"]
  /\ serving' = [serving EXCEPT ![t] = r]
  /\ Goto(t, "params")
  /\ UNCHANGED <<num_waiters, abort>>

ReadFails(t) ==
  /\ Runs(t, "recv")
  /\ "recv" \in Failures
  /\ Goto(t, "failed")
  /\ UNCHANGED <<serving, num_waiters, abort, request>>

FindParams(t) ==
  /\ Runs(t, "params")
  /\ \/ Goto(t, "got")
     \/ "params" \in Failures /\ Goto(t, "failed")
  /\ UNCHANGED <<serving, num_waiters, abort, request>>

(* Fault: a thread is started if another one is waiting.                   *)
LastOneCounted == num_waiters = 2

(* Fault: the waiter that serves a request is not discounted.              *)
KeepWaiter == num_waiters' = num_waiters

DropWaiter == num_waiters' = num_waiters - 1

LastOne == num_waiters = 1

(* num_meta && !num_waiters_dec(arg) && ...                                *)
Got(t) ==
  /\ Runs(t, "got")
  /\ DropWaiter
  /\ Goto(t, IF LastOne THEN "spawn" ELSE "work")
  /\ UNCHANGED <<serving, abort, request>>

(* Fault: the new thread counts itself when it runs.                       *)
CountLater == num_waiters' = num_waiters

CountThread == num_waiters' = num_waiters + 1

(* spawn_thread counts the thread before there is one.                     *)
Spawn(t) ==
  /\ Runs(t, "spawn")
  /\ CountThread
  /\ Goto(t, "create")
  /\ UNCHANGED <<serving, abort, request>>

Create(t) ==
  /\ Runs(t, "create")
  /\ \/ \E u \in Threads :
          pc[u] = "none" /\ pc' = [pc EXCEPT ![u] = "start", ![t] = "work"]
     \/ /\ "create" \in Failures
        /\ Goto(t, "undo")
  /\ UNCHANGED <<serving, num_waiters, abort, request>>

CreateFailed(t) ==
  /\ Runs(t, "undo")
  /\ num_waiters' = num_waiters - 1
  /\ Goto(t, "failed")
  /\ UNCHANGED <<serving, abort, request>>

(* The request is served, and write_response answers it.                   *)
Serve(t) ==
  /\ Runs(t, "work")
  /\ serving' = [serving EXCEPT ![t] = None]
  /\ \/ /\ request' = [request EXCEPT ![serving[t]] = "answered"]
        /\ Goto(t, "loop")
     \/ /\ "send" \in Failures
        /\ Goto(t, "failed")
        /\ UNCHANGED request
  /\ UNCHANGED <<num_waiters, abort>>

(* arg->abort = true, and the thread leaves its loop.                      *)
Fail(t) ==
  /\ Runs(t, "failed")
  /\ abort' = TRUE
  /\ serving' = [serving EXCEPT ![t] = None]
  /\ Goto(t, "over")
  /\ UNCHANGED <<num_waiters, request>>
-----------------------------------------------------------------------------
Listen(t) ==
  \/ Start(t) \/ Loop(t) \/ (\E r \in Requests : ReadRequest(t, r))
  \/ FindParams(t) \/ Got(t) \/ Spawn(t) \/ Create(t)
  \/ CreateFailed(t) \/ Fail(t)

ThreadStep(t) == Listen(t) \/ Serve(t) \/ ReadFails(t)

Next == (\E r \in Requests : Ask(r)) \/ (\E t \in Threads : ThreadStep(t))

Spec == Init /\ [][Next]_vars

(* The threads are scheduled, and the requests that do come to an end are  *)
(* served.                                                                 *)
FairSpec ==
  /\ Spec
  /\ \A t \in Threads :
       /\ WF_vars(Listen(t))
       /\ WF_vars(serving[t] \notin Stuck /\ Serve(t))
-----------------------------------------------------------------------------
TypeOK ==
  /\ pc \in [Threads -> Places]
  /\ serving \in [Threads -> Requests \cup {None}]
  /\ num_waiters \in Nat
  /\ abort \in BOOLEAN
  /\ request \in [Requests -> {"none", "queued", "taken", "answered"}]

(* The threads that num_waiters counts: those that wait, and the one that  *)
(* spawn_thread is about to start.                                         *)
Counted ==
  {t \in Threads : pc[t] \in {"start", "recv", "params", "got", "create", "undo"}}

(* num_waiters is the number of these threads, however the steps of the    *)
(* threads interleave, and so never goes below zero (the asserts of        *)
(* num_waiters_inc and num_waiters_dec); a failure leaves it too high.     *)
WaitersCounted ==
  /\ num_waiters >= Cardinality(Counted)
  /\ \/ num_waiters = Cardinality(Counted)
     \/ abort
     \/ \E t \in Threads : pc[t] = "failed"

Listening == {"start", "loop", "recv", "params", "got", "spawn", "create"}

(* Until something fails, there is a thread that will take the next        *)
(* request: they are never all busy with requests, which may wait for each *)
(* other or for a remote client (spawn_thread, process_one_request).       *)
SomeoneListens ==
  \/ abort
  \/ \E t \in Threads : pc[t] \in Listening \cup {"undo", "failed"}

(* A request that comes to an end is answered, even if others never are,   *)
(* unless tee-supplicant gives up (process_one_request, thread_main).      *)
RequestsServed ==
  \A r \in Requests \ Stuck : request[r] = "queued" ~> request[r] = "answered" \/ abort
=============================================================================
