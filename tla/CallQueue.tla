----------------------------- MODULE CallQueue ------------------------------
(***************************************************************************)
(* The call queue of the OP-TEE driver (drivers/tee/optee/call.c).         *)
(*                                                                         *)
(* Callers share the threads of the secure world.  A caller enters the     *)
(* queue before its first SMC and leaves it after its last one.  A caller  *)
(* that finds the secure world busy sleeps until one that is done wakes    *)
(* it, which happens through a completion and the flag "completed"; a      *)
(* completion may go to a caller that is not asleep.                       *)
(*                                                                         *)
(* All callers follow one protocol: optee_do_call_with_arg,                *)
(* trustio_tz_call and trustio_tz_read_call make a standard call, which    *)
(* needs a thread; optee_enable_shm_cache and optee_disable_shm_cache      *)
(* make fast calls, which need all threads to be free.  The secure world   *)
(* is ThreadPool, after boot.                                              *)
(***************************************************************************)
EXTENDS Integers, FiniteSets, SequencesExt

CONSTANTS
  Callers,     (* the kernel threads that make calls                       *)
  NumThreads,  (* the threads of the secure world                          *)
  Ops,         (* the operations they perform, of OpKinds                  *)
  None         (* no caller                                                *)

OpKinds == {"call", "enable", "disable"}

ASSUME CallersAssumption ==
  /\ NumThreads \in Nat \ {0}
  /\ Ops \subseteq OpKinds
  /\ None \notin Callers \cup OpKinds

VARIABLES
  pc,         (* where a caller is                                         *)
  op,         (* the operation it performs                                 *)
  waiters,    (* call_queue.waiters                                        *)
  completed,  (* the callers whose w.completed is set                      *)
  done,       (* w.c.done, the count in the completion of a caller         *)
  owner,      (* the threads of the secure world ...                       *)
  cached,
  prealloc

queueVars == <<waiters, completed, done>>
vars == <<pc, op, queueVars, owner, cached, prealloc>>

Secure == INSTANCE ThreadPool WITH Clients <- Callers, Boot <- None

Threads == 0 .. NumThreads - 1

(* About to make an SMC; in the secure world; serving an RPC; the SMC said *)
(* busy; past wait_for_completion; done with the secure world.             *)
PCs == {"idle", "invoke", "secure", "rpc", "sleep", "woken", "final"}

FreeThreads == {n \in Threads : owner[n] = None}

Goto(p, where) == pc' = [pc EXCEPT ![p] = where]

(* A walk along queue ws for a caller in S finds q, or None.               *)
Finds(q, ws, S) ==
  \/ \E i \in DOMAIN ws : /\ q = ws[i] /\ q \in S
                          /\ \A j \in 1 .. i - 1 : ws[j] \notin S
  \/ q = None /\ \A i \in DOMAIN ws : ws[i] \notin S

(* list_del, for a caller in the queue.                                    *)
ListDel(ws, p) == RemoveAt(ws, CHOOSE i \in DOMAIN ws : ws[i] = p)
-----------------------------------------------------------------------------
Init ==
  /\ pc = [p \in Callers |-> "idle"]
  /\ op = [p \in Callers |-> None]
  /\ waiters = <<>>
  /\ completed = {}
  /\ done = [p \in Callers |-> 0]
  /\ Secure!PoolInit

(* optee_cq_wait_init, once the message buffer is allocated.               *)
WaitInit(p, o) ==
  /\ pc[p] = "idle"
  /\ op' = [op EXCEPT ![p] = o]
  /\ completed' = completed \ {p}
  /\ done' = [done EXCEPT ![p] = 0]
  /\ waiters' = Append(waiters, p)
  /\ Goto(p, "invoke")
  /\ UNCHANGED <<owner, cached, prealloc>>

(* OPTEE_SMC_CALL_WITH_ARG, or OPTEE_SMC_RETURN_ETHREAD_LIMIT.             *)
InvokeCall(p) ==
  /\ pc[p] = "invoke"
  /\ op[p] = "call"
  /\ \/ \E n \in Threads : Secure!TakeThread(n, p)
        /\ Goto(p, "secure")
     \/ /\ FreeThreads = {}
        /\ Goto(p, "sleep")
        /\ UNCHANGED <<owner, cached, prealloc>>
  /\ UNCHANGED <<op, queueVars>>

(* The thread of p gains or loses its argument buffer.                     *)
SecureBuffer(p) ==
  /\ pc[p] = "secure"
  /\ \E n \in Threads : /\ owner[n] = p
                        /\ Secure!GainBuffer(n) \/ Secure!LoseBuffer(n)
  /\ UNCHANGED <<pc, op, queueVars>>

(* The SMC returns an RPC; p serves it and makes an SMC to resume.         *)
SecureRpc(p) ==
  /\ pc[p] = "secure"
  /\ Goto(p, "rpc")
  /\ UNCHANGED <<op, queueVars, owner, cached, prealloc>>

(* Fault: the next SMC is a new call.                                      *)
CallsAgain(p) == Goto(p, "invoke")

Resumes(p) == Goto(p, "secure")

HandleRpc(p) ==
  /\ pc[p] = "rpc"
  /\ Resumes(p)
  /\ UNCHANGED <<op, queueVars, owner, cached, prealloc>>

SecureReturns(p) ==
  /\ pc[p] = "secure"
  /\ \E n \in Threads : owner[n] = p /\ Secure!ReleaseThread(n)
  /\ Goto(p, "final")
  /\ UNCHANGED <<op, queueVars>>

(* optee_enable_shm_cache tries until the secure world is not busy.        *)
InvokeEnable(p) ==
  /\ pc[p] = "invoke"
  /\ op[p] = "enable"
  /\ \/ Secure!EnableCache /\ Goto(p, "final")
     \/ /\ ~Secure!Idle
        /\ Goto(p, "sleep")
        /\ UNCHANGED <<owner, cached, prealloc>>
  /\ UNCHANGED <<op, queueVars>>

(* optee_disable_shm_cache; it frees each buffer it is given and retries.  *)
InvokeDisable(p) ==
  /\ pc[p] = "invoke"
  /\ op[p] = "disable"
  /\ \/ Secure!DisableCache /\ Goto(p, "final")
     \/ (\E n \in Threads : Secure!HandBackBuffer(n)) /\ UNCHANGED pc
     \/ /\ ~Secure!Idle
        /\ Goto(p, "sleep")
        /\ UNCHANGED <<owner, cached, prealloc>>
  /\ UNCHANGED <<op, queueVars>>

(* optee_cq_wait_for_completion: wait_for_completion ...                   *)
WaitForCompletion(p) ==
  /\ pc[p] = "sleep"
  /\ done[p] > 0
  /\ done' = [done EXCEPT ![p] = @ - 1]
  /\ Goto(p, "woken")
  /\ UNCHANGED <<op, waiters, completed, owner, cached, prealloc>>

(* Fault: p is still in the list when it is added again.                   *)
RequeuedTwice(p) == Append(waiters, p)

Requeued(p) == Append(ListDel(waiters, p), p)

(* Fault: the flag is not reset.                                           *)
KeepsFlag(p) == UNCHANGED completed

ClearsFlag(p) == completed' = completed \ {p}

(* ... and the rest, under the mutex.                                      *)
MoveToEnd(p) ==
  /\ pc[p] = "woken"
  /\ waiters' = Requeued(p)
  /\ ClearsFlag(p)
  /\ done' = [done EXCEPT ![p] = 0]
  /\ Goto(p, "invoke")
  /\ UNCHANGED <<op, owner, cached, prealloc>>

(* Fault: a caller is completed whether or not it has been.                *)
CompletesTwice(q, ws, S) == q = IF ws = <<>> THEN None ELSE ws[1]

(* optee_cq_complete_one, where S is the callers not yet completed.        *)
CompleteOne(q, ws, S) == Finds(q, ws, S)

(* Faults: a caller passes nothing on but what it was given itself; or     *)
(* keeps the completion it was given and did not need.                     *)
PassesOnOnly(p, q1, q2, ws) ==
  /\ q1 = None
  /\ IF p \in completed THEN CompleteOne(q2, ws, Callers \ completed)
                        ELSE q2 = None

(* q1 is woken for the thread p leaves, q2 for the completion p was given. *)
Wakes(p, q1, q2, ws) ==
  /\ CompleteOne(q1, ws, Callers \ completed)
  /\ IF p \in completed
     THEN CompleteOne(q2, ws, Callers \ (completed \cup {q1}))
     ELSE q2 = None

(* optee_cq_wait_final.                                                    *)
WaitFinal(p) ==
  /\ pc[p] = "final"
  /\ waiters' = ListDel(waiters, p)
  /\ \E q1, q2 \in Callers \cup {None} :
       /\ Wakes(p, q1, q2, ListDel(waiters, p))
       /\ completed' = (completed \cup ({q1, q2} \ {None})) \ {p}
       /\ done' = [q \in Callers |->
                     IF q = p THEN 0
                     ELSE done[q] + (IF q = q1 THEN 1 ELSE 0)
                                  + (IF q = q2 THEN 1 ELSE 0)]
  /\ op' = [op EXCEPT ![p] = None]
  /\ Goto(p, "idle")
  /\ UNCHANGED <<owner, cached, prealloc>>
-----------------------------------------------------------------------------
(* What the driver does for p by itself, once p has begun.                 *)
Progress(p) ==
  \/ InvokeCall(p) \/ InvokeEnable(p) \/ InvokeDisable(p)
  \/ WaitForCompletion(p) \/ MoveToEnd(p) \/ WaitFinal(p)

Next ==
  \E p \in Callers :
    \/ \E o \in Ops : WaitInit(p, o)
    \/ InvokeCall(p)
    \/ SecureBuffer(p)
    \/ SecureRpc(p)
    \/ HandleRpc(p)
    \/ SecureReturns(p)
    \/ InvokeEnable(p)
    \/ InvokeDisable(p)
    \/ WaitForCompletion(p)
    \/ MoveToEnd(p)
    \/ WaitFinal(p)

Spec == Init /\ [][Next]_vars

(* The scheduler runs every caller that can run.  That an RPC is served,   *)
(* or that a call ever returns from the secure world, is not assumed.      *)
Fairness == \A p \in Callers : WF_vars(Progress(p))

FairSpec == Spec /\ Fairness
-----------------------------------------------------------------------------
(* The variables have the types their declarations give them.              *)
TypeOK ==
  /\ pc \in [Callers -> PCs]
  /\ op \in [Callers -> Ops \cup {None}]
  /\ waiters \in Seq(Callers)
  /\ completed \subseteq Callers
  /\ done \in [Callers -> 0 .. 1]
  /\ owner \in [Threads -> Callers \cup {None}]
  /\ cached \subseteq Threads
  /\ prealloc \in BOOLEAN

(* A caller is in the queue, once, exactly while it performs an operation. *)
QueueMatchesCalls ==
  /\ \A p \in Callers :
       pc[p] # "idle" <=> \E i \in DOMAIN waiters : waiters[i] = p
  /\ \A i, j \in DOMAIN waiters : waiters[i] = waiters[j] => i = j

(* The flag, which is kept under the mutex, and the completion, which is   *)
(* not, agree: the flag is set from the signal to the end of               *)
(* optee_cq_wait_for_completion, so that nobody signals a caller between   *)
(* its two halves and no signal is wiped out by reinit_completion.         *)
CompletionAgrees ==
  \A p \in Callers : p \in completed <=> done[p] > 0 \/ pc[p] = "woken"

Asleep == {p \in Callers : pc[p] = "sleep" /\ done[p] = 0}

(* A caller that will wake another one, sooner or later, or that has been  *)
(* woken.                                                                  *)
Astir(p) == pc[p] # "idle" /\ p \notin Asleep

(* "This guarantees that we don't lose a completion if secure world        *)
(* returns busy and another thread just exited": never are all callers     *)
(* asleep.                                                                 *)
NoLostWakeup == Asleep # {} => \E p \in Callers : Astir(p)

(* A caller has a thread exactly while it is in the secure world or serves *)
(* an RPC, and never two.                                                  *)
OneThreadPerCall ==
  \A p \in Callers :
    /\ pc[p] \in {"secure", "rpc"} <=> \E n \in Threads : owner[n] = p
    /\ \A m, n \in Threads : owner[m] = p /\ owner[n] = p => m = n

OnlyCalls == \A p \in Callers : op[p] \in {"call", None}

(* As long as nobody needs the whole secure world, each free thread beside *)
(* a caller that sleeps is spoken for: there is a caller about to take it, *)
(* one about to wake another, or a completion under way.  The completion   *)
(* may have been given to a caller that is still inside the secure world,  *)
(* for optee_cq_complete_one does not ask who sleeps: that caller owes the *)
(* wake-up and pays it when it leaves (optee_cq_wait_final), and until     *)
(* then the thread may idle.  What never happens is a free thread nobody   *)
(* owes.  A caller that needs all threads uses up completions and takes    *)
(* none, so this is said while all operations in progress are calls.       *)
FreeThreadsOwed ==
  OnlyCalls /\ Asleep # {} =>
    Cardinality(FreeThreads) <=
      Cardinality({p \in Callers : pc[p] = "invoke"})
      + Cardinality({p \in Callers : pc[p] = "final"})
      + Cardinality(completed)

NeverReturns(q) == <>[](pc[q] \in {"secure", "rpc"})

KeepsEnding(q) == []<>(pc[q] = "final")

(* An operation that does not end is overtaken for ever by others that do  *)
(* (nothing keeps a caller that just came from taking the thread for which *)
(* another was woken), and even so it is woken again and again.  Only when *)
(* a call never returns and nobody else's operation ends any more may a    *)
(* caller sleep for ever.                                                  *)
OperationsEnd ==
  \A p \in Callers :
    \/ []<>(pc[p] = "idle")
    \/ []<>(p \notin Asleep) /\ \E q \in Callers : KeepsEnding(q)
    \/ (\E q \in Callers : NeverReturns(q))
       /\ \A q \in Callers : ~KeepsEnding(q)
=============================================================================
