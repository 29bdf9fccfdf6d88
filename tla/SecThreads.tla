----------------------------- MODULE SecThreads -----------------------------
(***************************************************************************)
(* The pool of trusted threads of the OP-TEE core (kernel/thread.c).       *)
(*                                                                         *)
(* A standard SMC takes a FREE thread or resumes a SUSPENDED one.  While a *)
(* thread runs it may leave the secure world with a remote procedure call  *)
(* (RPC): for a foreign interrupt, to get or release the shared buffer     *)
(* that carries its RPC arguments, or to have a command executed.  The     *)
(* buffer of a thread (rpc_arg, rpc_carg) and the object that maps it      *)
(* (rpc_mobj) may stay cached in the FREE thread; two fast SMCs turn that  *)
(* cache on and off.                                                       *)
(*                                                                         *)
(* thread_global_lock protects thread_ctx.state and nothing else: what     *)
(* happens after unlock_global is a step of its own.  The normal world is  *)
(* modelled as far as the pool can tell: the shared buffers that are       *)
(* allocated there and the RPCs it has served (rpc.c).                     *)
(***************************************************************************)
EXTENDS Integers, FiniteSets

CONSTANTS
  NumThreads,   (* CFG_NUM_THREADS                                         *)
  Cores,        (* the CPUs, each with its thread_core_local               *)
  BootCore,     (* the CPU that boots the trusted OS                       *)
  Guests,       (* hypervisor client ids (a7 of an SMC)                    *)
  Cookies,      (* handles of shared buffers; bounds the live ones         *)
  None,         (* no thread, no cookie, no guest, no SMC, no RPC          *)
  Commands      (* the kinds of commands the normal world sends            *)

Threads == 0 .. NumThreads - 1

CommandKinds == {"std", "bad", "trustio"}

VARIABLES
  state,     (* threads[n].state                                           *)
  copyArgs,  (* threads[n].flags & THREAD_FLAGS_COPY_ARGS_ON_RETURN        *)
  hypClient, (* threads[n].hyp_clnt_id                                     *)
  carg,      (* threads[n].rpc_carg, None when rpc_arg is NULL             *)
  mobj,      (* threads[n].rpc_mobj: NULL, an object, or a freed one       *)
  regs,      (* the cookie in the saved registers a4/a5 of the thread      *)
  cont,      (* where the thread is in its code                            *)
  cmd,       (* the kind of command the thread executes                    *)
  prealloc,  (* thread_prealloc_rpc_cache                                  *)
  curr,      (* thread_core_local[c].curr_thread                           *)
  smc,       (* the registers of the SMC a core is serving, or None        *)
  live,      (* the shared buffers allocated in the normal world           *)
  rpc,       (* the RPC a suspended thread left the secure world with      *)
  client     (* the guest on whose behalf a thread was taken               *)

threadVars == <<state, copyArgs, hypClient, carg, mobj, regs, cont, cmd>>
vars == <<threadVars, prealloc, curr, smc, live, rpc, client>>

ThreadStates == {"FREE", "ACTIVE", "SUSPENDED"}

(***************************************************************************)
(* Where a thread is: in the handler of its command, waiting for the reply *)
(* to RPC_ALLOC, about to issue or waiting for RPC_CMD, releasing a buffer *)
(* it could not map, releasing its buffer at the end, or finished.         *)
(***************************************************************************)
Conts == {"handler", "alloc", "cmd", "waitcmd", "badarg", "freearg", "done"}

(* An RPC: its function, its cookie, and whether the driver has served it. *)
Rpcs == [func : {"irq", "alloc", "cmd", "free"},
         cookie : Cookies \cup {None}, served : BOOLEAN]

(***************************************************************************)
(* An SMC in progress on a core: a step after unlock_global ("start" after *)
(* a thread was taken, "resume" after one was resumed), the thread running *)
(* ("run"), or the driver back from DISABLE_SHM_CACHE with a buffer that   *)
(* it still has to free ("freed").                                         *)
(***************************************************************************)
Smcs == [at : {"start", "resume", "run"}, thread : Threads, guest : Guests,
         cookie : Cookies \cup {None}]
        \cup [at : {"freed"}, cookie : Cookies]

ASSUME ConstantsAssumption ==
  /\ NumThreads \in Nat \ {0}
  /\ BootCore \in Cores
  /\ None \notin Threads \cup Cookies \cup Guests \cup Cores
  /\ None \notin Smcs
  /\ None \notin Rpcs
  /\ Commands \subseteq CommandKinds

(* The thread a core has taken, whether or not curr_thread says so yet.    *)
Held(c) == IF smc[c] = None THEN curr[c]
           ELSE IF smc[c].at = "freed" THEN None ELSE smc[c].thread

Running(c, n) == smc[c] # None /\ smc[c].at = "run" /\ curr[c] = n

FreeThreads == {n \in Threads : state[n] = "FREE"}

AllFree == FreeThreads = Threads

(* A scan of the threads for one in S stops at index n.                    *)
ScanStopsAt(n, S) ==
  \/ n \in S /\ \A m \in S : n <= m
  \/ n = NumThreads /\ S = {}
-----------------------------------------------------------------------------
(* thread_init_boot_thread: the boot core runs on thread 0.                *)
Init ==
  /\ state = [n \in Threads |-> IF n = 0 THEN "ACTIVE" ELSE "FREE"]
  /\ copyArgs = [n \in Threads |-> FALSE]
  /\ hypClient = [n \in Threads |-> None]
  /\ carg = [n \in Threads |-> None]
  /\ mobj = [n \in Threads |-> "none"]
  /\ regs = [n \in Threads |-> None]
  /\ cont = [n \in Threads |-> "done"]
  /\ cmd = [n \in Threads |-> None]
  /\ prealloc = FALSE
  /\ curr = [c \in Cores |-> IF c = BootCore THEN 0 ELSE None]
  /\ smc = [c \in Cores |-> None]
  /\ live = {}
  /\ rpc = [n \in Threads |-> None]
  /\ client = [n \in Threads |-> None]

Booting == smc[BootCore] = None /\ curr[BootCore] # None

(* The normal world runs on c; it does not before the boot core is done.   *)
InNormalWorld(c) == ~Booting /\ smc[c] = None

ThreadClrBootThread ==
  /\ Booting
  /\ state' = [state EXCEPT ![0] = "FREE"]
  /\ curr' = [curr EXCEPT ![BootCore] = None]
  /\ UNCHANGED <<copyArgs, hypClient, carg, mobj, regs, cont, cmd, prealloc,
                 smc, live, rpc, client>>
-----------------------------------------------------------------------------
(* Entry: a new call, or the return from an RPC.                           *)

(* Fault: the scan may run off the end of the table.                       *)
FoundThreadOffByOne(n) == n <= NumThreads

FoundThread(n) == n < NumThreads

(* The locked part of thread_alloc_and_run.  With no free thread the SMC   *)
(* returns OPTEE_SMC_RETURN_ETHREAD_LIMIT.                                 *)
AllocThread(c, g) ==
  /\ InNormalWorld(c)
  /\ \E n \in 0 .. NumThreads :
     /\ ScanStopsAt(n, FreeThreads)
     /\ IF FoundThread(n)
        THEN /\ state' = [state EXCEPT ![n] = "ACTIVE"]
             /\ smc' = [smc EXCEPT ![c] = [at |-> "start", thread |-> n,
                                           guest |-> g, cookie |-> None]]
             /\ client' = [client EXCEPT ![n] = g]
        ELSE UNCHANGED <<state, smc, client>>
  /\ UNCHANGED <<copyArgs, hypClient, carg, mobj, regs, cont, cmd, prealloc,
                 curr, live, rpc>>

(* The rest of thread_alloc_and_run, on to the handler of command k.       *)
StartThread(c, k) ==
  /\ smc[c] # None
  /\ smc[c].at = "start"
  /\ LET n == smc[c].thread IN
     /\ curr' = [curr EXCEPT ![c] = n]
     /\ copyArgs' = [copyArgs EXCEPT ![n] = FALSE]
     /\ regs' = [regs EXCEPT ![n] = None]
     /\ hypClient' = [hypClient EXCEPT ![n] = smc[c].guest]
     /\ cont' = [cont EXCEPT ![n] = "handler"]
     /\ cmd' = [cmd EXCEPT ![n] = k]
  /\ smc' = [smc EXCEPT ![c].at = "run"]
  /\ UNCHANGED <<state, carg, mobj, prealloc, live, rpc, client>>

(* What the driver of guest g may pass as thread id and as cookie: it only *)
(* resumes a thread it called with, once the RPC is served; a4/a5 hold the *)
(* cookie after RPC_ALLOC, and stay what they were after another RPC.  A   *)
(* driver knows nothing of another guest's threads and may name any.       *)
ResumeArgs(n, g, k) ==
  n \in Threads /\ client[n] = g =>
    /\ rpc[n] # None
    /\ rpc[n].served
    /\ k = IF rpc[n].func = "alloc" THEN rpc[n].cookie ELSE regs[n]

(* Faults: the state, or the guest, of the thread is not checked.          *)
ResumableInAnyState(n, g) == n \in Threads /\ g = hypClient[n]
ResumableByAnyGuest(n, g) == n \in Threads /\ state[n] = "SUSPENDED"

Resumable(n, g) ==
  n \in Threads /\ state[n] = "SUSPENDED" /\ g = hypClient[n]

(* The locked part of thread_resume_from_rpc; otherwise the SMC returns    *)
(* OPTEE_SMC_RETURN_ERESUME.                                               *)
ResumeFromRpc(c, n, g, k) ==
  /\ InNormalWorld(c)
  /\ ResumeArgs(n, g, k)
  /\ IF Resumable(n, g)
     THEN /\ state' = [state EXCEPT ![n] = "ACTIVE"]
          /\ smc' = [smc EXCEPT ![c] = [at |-> "resume", thread |-> n,
                                        guest |-> g, cookie |-> k]]
          /\ rpc' = [rpc EXCEPT ![n] = None]
     ELSE UNCHANGED <<state, smc, rpc>>
  /\ UNCHANGED <<copyArgs, hypClient, carg, mobj, regs, cont, cmd, prealloc,
                 curr, live, client>>

(* Fault: the flag stays set.                                              *)
CopyArgsForever(c, n) ==
  /\ regs' = [regs EXCEPT ![n] = smc[c].cookie]
  /\ UNCHANGED copyArgs

(* copy_a0_to_a5, once.                                                    *)
CopyArgs(c, n) ==
  /\ regs' = [regs EXCEPT ![n] = smc[c].cookie]
  /\ copyArgs' = [copyArgs EXCEPT ![n] = FALSE]

(* The rest of thread_resume_from_rpc.                                     *)
ResumeThread(c) ==
  /\ smc[c] # None
  /\ smc[c].at = "resume"
  /\ LET n == smc[c].thread IN
     /\ curr' = [curr EXCEPT ![c] = n]
     /\ IF copyArgs[n]
        THEN CopyArgs(c, n)
        ELSE UNCHANGED <<regs, copyArgs>>
  /\ smc' = [smc EXCEPT ![c].at = "run"]
  /\ UNCHANGED <<state, hypClient, carg, mobj, cont, cmd, prealloc, live, rpc,
                 client>>
-----------------------------------------------------------------------------
(* A running thread.                                                       *)

(* thread_state_suspend: thread n leaves core c with an RPC.               *)
ThreadStateSuspend(c, n, func, cookie) ==
  /\ state' = [state EXCEPT ![n] = "SUSPENDED"]
  /\ copyArgs' = [copyArgs EXCEPT ![n] = @ \/ func # "irq"]
  /\ curr' = [curr EXCEPT ![c] = None]
  /\ smc' = [smc EXCEPT ![c] = None]
  /\ rpc' = [rpc EXCEPT ![n] = [func |-> func, cookie |-> cookie,
                                served |-> FALSE]]

(* No transition out of the secure world.                                  *)
StaysRunning == UNCHANGED <<state, copyArgs, curr, smc, rpc>>

ForeignInterrupt(c, n) ==
  /\ Running(c, n)
  /\ ThreadStateSuspend(c, n, "irq", None)
  /\ UNCHANGED <<hypClient, carg, mobj, regs, cont, cmd, prealloc, live, client>>

(* thread_rpc_cmd, or thread_rpc_alloc and thread_rpc_free, up to the      *)
(* first RPC: get_rpc_arg needs a buffer unless one is cached.             *)
ThreadRpcCmd(c, n) ==
  /\ Running(c, n)
  /\ cont[n] = "handler"
  /\ cmd[n] # "bad"
  /\ IF carg[n] = None
     THEN /\ cont' = [cont EXCEPT ![n] = "alloc"]
          /\ ThreadStateSuspend(c, n, "alloc", None)
     ELSE /\ cont' = [cont EXCEPT ![n] = "waitcmd"]
          /\ ThreadStateSuspend(c, n, "cmd", carg[n])
  /\ UNCHANGED <<hypClient, carg, mobj, regs, cmd, prealloc, live, client>>

(* thread_rpc_alloc_arg and get_rpc_arg after RPC_ALLOC: no buffer, a      *)
(* buffer, or a buffer that cannot be mapped and is given back.  (When it  *)
(* is mobj_get_va that fails the object is forgotten, not freed; no        *)
(* pointer to it is left either.)                                          *)
AllocArgReply(c, n) ==
  /\ Running(c, n)
  /\ cont[n] = "alloc"
  /\ \/ /\ regs[n] = None
        /\ cont' = [cont EXCEPT ![n] = "handler"]
        /\ StaysRunning
        /\ UNCHANGED <<carg, mobj>>
     \/ /\ regs[n] # None
        /\ carg' = [carg EXCEPT ![n] = regs[n]]
        /\ mobj' = [mobj EXCEPT ![n] = "held"]
        /\ cont' = [cont EXCEPT ![n] = "cmd"]
        /\ StaysRunning
     \/ /\ regs[n] # None
        /\ cont' = [cont EXCEPT ![n] = "badarg"]
        /\ ThreadStateSuspend(c, n, "free", regs[n])
        /\ UNCHANGED <<carg, mobj>>
  /\ UNCHANGED <<hypClient, regs, cmd, prealloc, live, client>>

(* thread_rpc_cmd once it has its buffer.                                  *)
IssueCmd(c, n) ==
  /\ Running(c, n)
  /\ cont[n] = "cmd"
  /\ cont' = [cont EXCEPT ![n] = "waitcmd"]
  /\ ThreadStateSuspend(c, n, "cmd", carg[n])
  /\ UNCHANGED <<hypClient, carg, mobj, regs, cmd, prealloc, live, client>>

(* thread_rpc_cmd returns to the handler, with the reply or out of memory. *)
ThreadRpcCmdReturns(c, n) ==
  /\ Running(c, n)
  /\ cont[n] \in {"waitcmd", "badarg"}
  /\ cont' = [cont EXCEPT ![n] = "handler"]
  /\ StaysRunning
  /\ UNCHANGED <<hypClient, carg, mobj, regs, cmd, prealloc, live, client>>

(* Fault: the handlers never report success.                               *)
ReturnsNothing(k) == FALSE

(* tee_entry_std sets a0 to OPTEE_SMC_RETURN_OK for every command but an   *)
(* unknown one ("bad"), and the Trust.IO commands, which leave it alone.   *)
ReturnsOK(k) == k = "std"

(* The handler is done: the clean-up of __thread_std_smc_entry starts with *)
(* thread_rpc_free_arg, an RPC if there is a buffer.                       *)
StdSmcReturns(c, n) ==
  /\ Running(c, n)
  /\ cont[n] = "handler"
  /\ IF ReturnsOK(cmd[n]) /\ ~prealloc
     THEN /\ cont' = [cont EXCEPT ![n] = "freearg"]
          /\ IF carg[n] # None
             THEN ThreadStateSuspend(c, n, "free", carg[n])
             ELSE StaysRunning
     ELSE /\ cont' = [cont EXCEPT ![n] = "done"]
          /\ StaysRunning
  /\ UNCHANGED <<hypClient, carg, mobj, regs, cmd, prealloc, live, client>>

(* Fault: the reference to the buffer is kept.                             *)
KeepArg(n) == UNCHANGED carg

ClearArg(n) == carg' = [carg EXCEPT ![n] = None]

(* ... and goes on with mobj_free(rpc_mobj), whether or not there was a    *)
(* buffer.  If that frees an object for the second time the model goes on  *)
(* all the same.                                                           *)
FreeArgReply(c, n) ==
  /\ Running(c, n)
  /\ cont[n] = "freearg"
  /\ cont' = [cont EXCEPT ![n] = "done"]
  /\ ClearArg(n)
  /\ mobj' = [mobj EXCEPT ![n] = "none"]
  /\ StaysRunning
  /\ UNCHANGED <<hypClient, regs, cmd, prealloc, live, client>>

ThreadStateFree(c, n) ==
  /\ Running(c, n)
  /\ cont[n] = "done"
  /\ state' = [state EXCEPT ![n] = "FREE"]
  /\ copyArgs' = [copyArgs EXCEPT ![n] = FALSE]
  /\ curr' = [curr EXCEPT ![c] = None]
  /\ smc' = [smc EXCEPT ![c] = None]
  /\ UNCHANGED <<hypClient, carg, mobj, regs, cont, cmd, prealloc, live, rpc,
                 client>>
-----------------------------------------------------------------------------
(* The fast SMCs that turn the cache of argument buffers on and off.  The  *)
(* driver is told "busy" when a thread is not FREE.                        *)

(* Fault: only the calling CPU's thread is looked at.                      *)
NotBusyHere(c) == curr[c] = None

NotBusy(c) == AllFree

ThreadEnablePreallocRpcCache(c) ==
  /\ InNormalWorld(c)
  /\ prealloc' = IF NotBusy(c) THEN TRUE ELSE prealloc
  /\ UNCHANGED <<threadVars, curr, smc, live, rpc, client>>

(* One cached buffer is returned per call; with none left the cache is off.*)
(* The object that maps it is freed, but rpc_mobj goes on pointing at it.  *)
ThreadDisablePreallocRpcCache(c) ==
  /\ InNormalWorld(c)
  /\ IF NotBusy(c)
     THEN \E n \in 0 .. NumThreads :
          /\ ScanStopsAt(n, {m \in Threads : carg[m] # None})
          /\ IF n < NumThreads
             THEN /\ smc' = [smc EXCEPT ![c] = [at |-> "freed",
                                                cookie |-> carg[n]]]
                  /\ ClearArg(n)
                  /\ mobj' = [mobj EXCEPT ![n] = "freed"]
                  /\ UNCHANGED prealloc
             ELSE /\ prealloc' = FALSE
                  /\ UNCHANGED <<carg, mobj, smc>>
     ELSE UNCHANGED <<carg, mobj, smc, prealloc>>
  /\ UNCHANGED <<state, copyArgs, hypClient, regs, cont, cmd, curr, live, rpc,
                 client>>
-----------------------------------------------------------------------------
(* The driver in the normal world.                                         *)

(* optee_disable_shm_cache frees the buffer it was given.                  *)
FreeReturnedShm(c) ==
  /\ smc[c] # None
  /\ smc[c].at = "freed"
  /\ live' = live \ {smc[c].cookie}
  /\ smc' = [smc EXCEPT ![c] = None]
  /\ UNCHANGED <<threadVars, prealloc, curr, rpc, client>>

(* optee_handle_rpc.                                                       *)
HandleRpc(n) ==
  /\ rpc[n] # None
  /\ ~rpc[n].served
  /\ \/ /\ rpc[n].func = "alloc"
        /\ \E k \in (Cookies \ live) \cup {None} :
             /\ live' = live \cup ({k} \ {None})
             /\ rpc' = [rpc EXCEPT ![n].cookie = k, ![n].served = TRUE]
     \/ /\ rpc[n].func = "free"
        /\ live' = live \ {rpc[n].cookie}
        /\ rpc' = [rpc EXCEPT ![n].served = TRUE]
     \/ /\ rpc[n].func \in {"irq", "cmd"}
        /\ rpc' = [rpc EXCEPT ![n].served = TRUE]
        /\ UNCHANGED live
  /\ UNCHANGED <<threadVars, prealloc, curr, smc, client>>
-----------------------------------------------------------------------------
Next ==
  \/ ThreadClrBootThread
  \/ \E c \in Cores :
       \/ \E g \in Guests : AllocThread(c, g)
       \/ \E k \in Commands : StartThread(c, k)
       \/ \E n \in 0 .. NumThreads, g \in Guests, k \in Cookies \cup {None} :
            ResumeFromRpc(c, n, g, k)
       \/ ResumeThread(c)
       \/ ThreadEnablePreallocRpcCache(c)
       \/ ThreadDisablePreallocRpcCache(c)
       \/ FreeReturnedShm(c)
       \/ \E n \in Threads :
            \/ ForeignInterrupt(c, n)
            \/ ThreadRpcCmd(c, n)
            \/ AllocArgReply(c, n)
            \/ IssueCmd(c, n)
            \/ ThreadRpcCmdReturns(c, n)
            \/ StdSmcReturns(c, n)
            \/ FreeArgReply(c, n)
            \/ ThreadStateFree(c, n)
  \/ \E n \in Threads : HandleRpc(n)

Spec == Init /\ [][Next]_vars
-----------------------------------------------------------------------------
(* The variables have the types their declarations give them.              *)
TypeOK ==
  /\ state \in [Threads -> ThreadStates]
  /\ copyArgs \in [Threads -> BOOLEAN]
  /\ hypClient \in [Threads -> Guests \cup {None}]
  /\ carg \in [Threads -> Cookies \cup {None}]
  /\ mobj \in [Threads -> {"none", "held", "freed"}]
  /\ regs \in [Threads -> Cookies \cup {None}]
  /\ cont \in [Threads -> Conts]
  /\ cmd \in [Threads -> Commands \cup {None}]
  /\ prealloc \in BOOLEAN
  /\ curr \in [Cores -> Threads \cup {None}]
  /\ smc \in [Cores -> Smcs \cup {None}]
  /\ live \in SUBSET Cookies
  /\ rpc \in [Threads -> Rpcs \cup {None}]
  /\ client \in [Threads -> Guests \cup {None}]

(* A thread is ACTIVE exactly when one core has taken it, and only one     *)
(* core: the window between unlock_global and the assignment of            *)
(* curr_thread in thread_alloc_and_run and thread_resume_from_rpc never    *)
(* lets two cores run on the same stack, nor loses a thread.               *)
ThreadOwnership ==
  /\ \A c, d \in Cores : c # d /\ Held(c) # None => Held(c) # Held(d)
  /\ \A n \in Threads : state[n] = "ACTIVE" <=> \E c \in Cores : Held(c) = n

(* A thread only ever runs for the guest that made the call: hyp_clnt_id   *)
(* is saved after the thread was made ACTIVE, and checked by a later SMC   *)
(* that may come from another guest.                                       *)
GuestIsolation ==
  \A c \in Cores : Held(c) # None /\ smc[c] # None =>
                     smc[c].guest = client[Held(c)]

(* "Return from RPC to request service of a foreign interrupt must not get *)
(* parameters from non-secure world": the flag of a SUSPENDED thread says  *)
(* whether its RPC has a reply, whatever happened to the thread before.    *)
InterruptKeepsRegisters ==
  \A n \in Threads : state[n] = "SUSPENDED" =>
                       (copyArgs[n] <=> rpc[n].func # "irq")
-----------------------------------------------------------------------------
(* Argument buffers.                                                       *)

(* The buffer handed out by RPC_ALLOC to a thread that has not yet looked  *)
(* at it: in the served RPC, in the SMC being served, or in its registers. *)
OnItsWay(n) ==
  IF cont[n] # "alloc" THEN {}
  ELSE IF rpc[n] # None /\ rpc[n].func = "alloc" THEN {rpc[n].cookie} \ {None}
  ELSE IF copyArgs[n]
       THEN {smc[c].cookie : c \in {d \in Cores : Held(d) = n}} \ {None}
       ELSE {regs[n]} \ {None}

(* The buffer of an RPC_FREE the driver has not served yet.                *)
Returning(n) ==
  IF rpc[n] # None /\ rpc[n].func = "free" /\ ~rpc[n].served
  THEN {rpc[n].cookie} ELSE {}

(* The buffer a thread may use.                                            *)
Cached(n) == IF cont[n] = "freearg" THEN {} ELSE {carg[n]} \ {None}

Holds(n) == OnItsWay(n) \cup Returning(n) \cup Cached(n)

(* The buffers DISABLE_SHM_CACHE has handed back.                          *)
HandedBack == {smc[c].cookie : c \in {d \in Cores : smc[d] # None /\
                                                    smc[d].at = "freed"}}

(* The buffers the threads hold and those handed back to the driver are    *)
(* exactly the buffers allocated in the normal world, across failed        *)
(* mappings, releases and the cache: no rpc_carg is left of a buffer that  *)
(* was freed, and no buffer is forgotten.                                  *)
BuffersAccountedFor ==
  live = (UNION {Holds(n) : n \in Threads}) \cup HandedBack

(* No buffer is shared: two threads never hold the same one, and what was  *)
(* handed back to the driver is held by no thread.                         *)
BuffersNotShared ==
  /\ \A m, n \in Threads : m # n => Holds(m) \cap Holds(n) = {}
  /\ \A n \in Threads : Holds(n) \cap HandedBack = {}

(* The object that maps the buffer of a thread lives as long as the thread *)
(* may use rpc_arg, which points into it.                                  *)
MappedWhileUsed == \A n \in Threads : carg[n] # None => mobj[n] = "held"

(* Each shared buffer that is allocated has one owner, who will give it    *)
(* back, no other buffer is in use, and the one in use is mapped           *)
(* (__thread_std_smc_entry, thread_disable_prealloc_rpc_cache).  This is   *)
(* about the buffers, rpc_arg and rpc_carg; for rpc_mobj see MobjFreedOnce.*)
BuffersOwned == BuffersAccountedFor /\ BuffersNotShared /\ MappedWhileUsed

(* "Ask OP-TEE to free all cached shared memory objects to decrease        *)
(* reference counters and also avoid wild pointers in secure world"        *)
(* (core.c:574): what was freed then is not pointed at any more, so that   *)
(* the clean-up of a later call does not free it again.                    *)
MobjFreedOnce == \A n \in Threads : cont[n] = "freearg" => mobj[n] # "freed"

(* core.c:574-578: disabling the cache frees all cached buffers "and also  *)
(* [avoids] wild pointers in secure world".  While the cache is off, a     *)
(* FREE thread has no buffer.                                              *)
NothingCachedWhenDisabled ==
  ~prealloc => \A n \in Threads : state[n] = "FREE" => carg[n] = None
-----------------------------------------------------------------------------
(***************************************************************************)
(* The inductive invariant behind these properties.                        *)
(***************************************************************************)

(* curr_thread follows the SMC a core serves; before the first SMC there   *)
(* is only the boot core with thread 0.                                    *)
CoreInv ==
  \A c \in Cores :
    /\ smc[c] # None /\ smc[c].at = "run" => curr[c] = smc[c].thread
    /\ smc[c] # None /\ smc[c].at # "run" => curr[c] = None
    /\ smc[c] = None /\ curr[c] # None =>
         c = BootCore /\ curr[c] = 0 /\ \A d \in Cores : smc[d] = None

(* hyp_clnt_id names the guest of the call from the time it can be read by *)
(* a resuming SMC.                                                         *)
GuestInv ==
  /\ \A c \in Cores : smc[c] # None /\ smc[c].at # "freed" =>
       /\ smc[c].guest = client[smc[c].thread]
       /\ smc[c].at # "start" =>
            hypClient[smc[c].thread] = client[smc[c].thread]
  /\ \A n \in Threads : state[n] = "SUSPENDED" => hypClient[n] = client[n]

(* A thread has an RPC outstanding exactly while it is SUSPENDED, and no   *)
(* flag is left over when it runs.                                         *)
RpcInv ==
  /\ \A n \in Threads :
       /\ rpc[n] # None <=> state[n] = "SUSPENDED"
       /\ rpc[n] # None => (copyArgs[n] <=> rpc[n].func # "irq")
  /\ \A c \in Cores : smc[c] # None /\ smc[c].at = "run" =>
       ~copyArgs[smc[c].thread]

(* Where a thread is in its code says whether it has an argument buffer.   *)
ContInv ==
  /\ \A n \in Threads :
       /\ state[n] = "FREE" => cont[n] = "done"
       /\ cont[n] \in {"alloc", "badarg"} => carg[n] = None
       /\ cont[n] \in {"cmd", "waitcmd"} => carg[n] # None
       /\ cont[n] = "freearg" => ~prealloc
  /\ \A c \in Cores : Held(c) # None /\ (smc[c] = None \/ smc[c].at = "start") =>
       cont[Held(c)] = "done"

(* With the cache off, a thread that is done has given its buffer back.    *)
CacheInv ==
  \A n \in Threads :
    /\ cont[n] # "done" => cmd[n] \in Commands
    /\ cmd[n] = "bad" => cont[n] \in {"handler", "done"}
    /\ ~prealloc /\ (cont[n] = "done" \/ cmd[n] = "bad") => carg[n] = None

IndInv ==
  TypeOK /\ CoreInv /\ ThreadOwnership /\ GuestInv /\ RpcInv /\ ContInv
         /\ CacheInv
-----------------------------------------------------------------------------
(***************************************************************************)
(* The pool as its users see it.  A thread works for the guest that made   *)
(* the call from the step that takes it to thread_state_free, whichever    *)
(* CPUs it runs on in between.                                             *)
(***************************************************************************)
ownerBar == [n \in Threads |-> IF state[n] = "FREE" THEN None
                               ELSE IF client[n] = None THEN BootCore
                               ELSE client[n]]

cachedBar == {n \in Threads : carg[n] # None}

Pool == INSTANCE ThreadPool
          WITH Clients <- Guests, Boot <- BootCore,
               owner <- ownerBar, cached <- cachedBar

(* The thread pool keeps the promises of ThreadPool.                       *)
ImplementsThreadPool == Pool!PoolSpec
=============================================================================
