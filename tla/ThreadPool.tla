----------------------------- MODULE ThreadPool -----------------------------
(***************************************************************************)
(* What the thread pool of the OP-TEE core promises the normal world: a    *)
(* standard call has a thread to itself from its start to its end, a call  *)
(* is only turned away when every thread is taken, argument buffers come   *)
(* and go with the calls, and the cache of argument buffers is switched    *)
(* while no call is in progress.                                           *)
(***************************************************************************)
EXTENDS Integers

CONSTANTS
  NumThreads,  (* CFG_NUM_THREADS                                          *)
  Clients,     (* who makes calls                                          *)
  Boot,        (* the owner of thread 0 while the trusted OS boots         *)
  None         (* no owner                                                 *)

VARIABLES
  owner,       (* who a thread works for                                   *)
  cached,      (* the threads that have an argument buffer                 *)
  prealloc     (* the buffers stay with the threads when calls end         *)

poolVars == <<owner, cached, prealloc>>

PoolThreads == 0 .. NumThreads - 1

Idle == \A n \in PoolThreads : owner[n] = None

PoolInit ==
  /\ owner = [n \in PoolThreads |-> IF n = 0 THEN Boot ELSE None]
  /\ cached = {}
  /\ prealloc = FALSE

TakeThread(n, p) ==
  /\ owner[n] = None
  /\ owner' = [owner EXCEPT ![n] = p]
  /\ UNCHANGED <<cached, prealloc>>

ReleaseThread(n) ==
  /\ owner[n] # None
  /\ owner' = [owner EXCEPT ![n] = None]
  /\ UNCHANGED <<cached, prealloc>>

GainBuffer(n) ==
  /\ owner[n] # None
  /\ n \notin cached
  /\ cached' = cached \cup {n}
  /\ UNCHANGED <<owner, prealloc>>

(* At the end of a call, and only when buffers are not to be kept.         *)
LoseBuffer(n) ==
  /\ owner[n] # None
  /\ ~prealloc
  /\ n \in cached
  /\ cached' = cached \ {n}
  /\ UNCHANGED <<owner, prealloc>>

(* DISABLE_SHM_CACHE while buffers are cached.                             *)
HandBackBuffer(n) ==
  /\ Idle
  /\ n \in cached
  /\ cached' = cached \ {n}
  /\ UNCHANGED <<owner, prealloc>>

DisableCache ==
  /\ Idle
  /\ cached = {}
  /\ prealloc' = FALSE
  /\ UNCHANGED <<owner, cached>>

EnableCache ==
  /\ Idle
  /\ prealloc' = TRUE
  /\ UNCHANGED <<owner, cached>>

PoolNext ==
  \/ \E n \in PoolThreads :
       \/ \E p \in Clients : TakeThread(n, p)
       \/ ReleaseThread(n)
       \/ GainBuffer(n)
       \/ LoseBuffer(n)
       \/ HandBackBuffer(n)
  \/ DisableCache
  \/ EnableCache

PoolSpec == PoolInit /\ [][PoolNext]_poolVars
=============================================================================
