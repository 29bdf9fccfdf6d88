------------------------- MODULE SecThreads_proofs --------------------------
(* Proofs about SecThreads, for any number of threads, CPUs, guests and    *)
(* buffers.                                                                *)
EXTENDS SecThreads, TLAPS

(* The actions of a core, and those of the thread that runs on it.         *)
CoreStep(c) ==
  \/ \E g \in Guests : AllocThread(c, g)
  \/ \E k \in Commands : StartThread(c, k)
  \/ \E n \in 0 .. NumThreads, g \in Guests, k \in Cookies \cup {None} :
       ResumeFromRpc(c, n, g, k)
  \/ ResumeThread(c)
  \/ ThreadEnablePreallocRpcCache(c)
  \/ ThreadDisablePreallocRpcCache(c)
  \/ FreeReturnedShm(c)

ThreadStep(c, n) ==
  \/ ForeignInterrupt(c, n)
  \/ ThreadRpcCmd(c, n)
  \/ AllocArgReply(c, n)
  \/ IssueCmd(c, n)
  \/ ThreadRpcCmdReturns(c, n)
  \/ StdSmcReturns(c, n)
  \/ FreeArgReply(c, n)
  \/ ThreadStateFree(c, n)

LEMMA NoneIsFresh ==
  /\ None \notin Threads
  /\ None \notin Cookies
  /\ None \notin Guests
  /\ None # BootCore
  /\ None \notin Smcs
  /\ None \notin Rpcs
BY ConstantsAssumption

LEMMA SmcFields ==
  ASSUME NEW s \in Smcs
  PROVE  /\ s.at \in {"start", "resume", "run", "freed"}
         /\ s.cookie \in Cookies \cup {None}
         /\ s.at # "freed" => s.thread \in Threads /\ s.guest \in Guests
         /\ s.at = "freed" => s.cookie \in Cookies
BY DEF Smcs
LEMMA RunSmc ==
  ASSUME NEW s \in Smcs, s.at # "freed"
  PROVE  LET r == [s EXCEPT !.at = "run"] IN
           /\ r \in Smcs
           /\ r.at = "run"
           /\ r.thread = s.thread
           /\ r.guest = s.guest
BY DEF Smcs
-----------------------------------------------------------------------------
(* Type correctness.                                                       *)

LEMMA SuspendType ==
  ASSUME TypeOK, NEW c \in Cores, NEW n \in Threads,
         NEW func \in {"irq", "alloc", "cmd", "free"},
         NEW cookie \in Cookies \cup {None},
         ThreadStateSuspend(c, n, func, cookie)
  PROVE  /\ state' \in [Threads -> ThreadStates]
         /\ copyArgs' \in [Threads -> BOOLEAN]
         /\ curr' \in [Cores -> Threads \cup {None}]
         /\ smc' \in [Cores -> Smcs \cup {None}]
         /\ rpc' \in [Threads -> Rpcs \cup {None}]
<1>1. [func |-> func, cookie |-> cookie, served |-> FALSE] \in Rpcs
  BY DEF Rpcs
<1>2. QED
  BY <1>1 DEF TypeOK, ThreadStateSuspend, ThreadStates

LEMMA CoreStepType ==
  ASSUME TypeOK, NEW c \in Cores, CoreStep(c)
  PROVE  TypeOK'
<1>1. ASSUME NEW g \in Guests, AllocThread(c, g)
      PROVE  TypeOK'
  <2>1. PICK n \in 0 .. NumThreads :
          IF FoundThread(n)
          THEN /\ state' = [state EXCEPT ![n] = "ACTIVE"]
               /\ smc' = [smc EXCEPT ![c] = [at |-> "start", thread |-> n,
                                             guest |-> g, cookie |-> None]]
               /\ client' = [client EXCEPT ![n] = g]
          ELSE UNCHANGED <<state, smc, client>>
    BY <1>1 DEF AllocThread
  <2>2. CASE FoundThread(n)
    <3>1. n \in Threads
      BY <2>2, ConstantsAssumption DEF FoundThread, Threads
    <3>2. [at |-> "start", thread |-> n, guest |-> g, cookie |-> None] \in Smcs
      BY <3>1 DEF Smcs
    <3>3. QED
      BY <1>1, <2>1, <2>2, <3>1, <3>2 DEF TypeOK, AllocThread, ThreadStates
  <2>3. CASE ~FoundThread(n)
    BY <1>1, <2>1, <2>3 DEF TypeOK, AllocThread
  <2>4. QED
    BY <2>2, <2>3
<1>2. ASSUME NEW k \in Commands, StartThread(c, k)
      PROVE  TypeOK'
  <2>1. smc[c] \in Smcs /\ smc[c].thread \in Threads /\ smc[c].guest \in Guests
    BY <1>2, SmcFields DEF TypeOK, StartThread
  <2>2. [smc[c] EXCEPT !.at = "run"] \in Smcs
    BY <1>2, <2>1 DEF Smcs, StartThread
  <2>3. smc' \in [Cores -> Smcs \cup {None}]
    BY <1>2, <2>2 DEF TypeOK, StartThread
  <2>4. QED
    BY <1>2, <2>1, <2>3 DEF TypeOK, StartThread, Conts
<1>3. ASSUME NEW n \in 0 .. NumThreads, NEW g \in Guests,
             NEW k \in Cookies \cup {None}, ResumeFromRpc(c, n, g, k)
      PROVE  TypeOK'
  <2>1. CASE Resumable(n, g)
    <3>1. [at |-> "resume", thread |-> n, guest |-> g, cookie |-> k] \in Smcs
      BY <2>1 DEF Smcs, Resumable
    <3>2. QED
      BY <1>3, <2>1, <3>1 DEF TypeOK, ResumeFromRpc, ThreadStates
  <2>2. CASE ~Resumable(n, g)
    BY <1>3, <2>2 DEF TypeOK, ResumeFromRpc
  <2>3. QED
    BY <2>1, <2>2
<1>4. ASSUME ResumeThread(c)
      PROVE  TypeOK'
  <2>1. /\ smc[c] \in Smcs /\ smc[c].thread \in Threads
        /\ smc[c].cookie \in Cookies \cup {None}
    BY <1>4, SmcFields DEF TypeOK, ResumeThread
  <2>2. [smc[c] EXCEPT !.at = "run"] \in Smcs
    BY <1>4, <2>1 DEF Smcs, ResumeThread
  <2>3. smc' \in [Cores -> Smcs \cup {None}]
    BY <1>4, <2>2 DEF TypeOK, ResumeThread
  <2>4. regs' \in [Threads -> Cookies \cup {None}]
    BY <1>4, <2>1 DEF TypeOK, ResumeThread, CopyArgs
  <2>5. copyArgs' \in [Threads -> BOOLEAN]
    BY <1>4, <2>1 DEF TypeOK, ResumeThread, CopyArgs
  <2>6. QED
    BY <1>4, <2>1, <2>3, <2>4, <2>5 DEF TypeOK, ResumeThread
<1>5. ASSUME ThreadEnablePreallocRpcCache(c)
      PROVE  TypeOK'
  BY <1>5 DEF TypeOK, ThreadEnablePreallocRpcCache, threadVars
<1>6. ASSUME ThreadDisablePreallocRpcCache(c)
      PROVE  TypeOK'
  <2>1. CASE NotBusy(c)
    <3>1. PICK n \in 0 .. NumThreads :
            /\ ScanStopsAt(n, {m \in Threads : carg[m] # None})
            /\ IF n < NumThreads
               THEN /\ smc' = [smc EXCEPT ![c] = [at |-> "freed",
                                                  cookie |-> carg[n]]]
                    /\ ClearArg(n)
                    /\ mobj' = [mobj EXCEPT ![n] = "freed"]
                    /\ UNCHANGED prealloc
               ELSE /\ prealloc' = FALSE
                    /\ UNCHANGED <<carg, mobj, smc>>
      BY <1>6, <2>1 DEF ThreadDisablePreallocRpcCache
    <3>2. CASE n < NumThreads
      <4>1. n \in Threads /\ carg[n] \in Cookies
        BY <3>1, <3>2, ConstantsAssumption DEF ScanStopsAt, TypeOK
      <4>2. [at |-> "freed", cookie |-> carg[n]] \in Smcs
        BY <4>1 DEF Smcs
      <4>3. QED
        BY <1>6, <3>1, <3>2, <4>2
        DEF TypeOK, ThreadDisablePreallocRpcCache, ClearArg
    <3>3. CASE ~(n < NumThreads)
      BY <1>6, <3>1, <3>3 DEF TypeOK, ThreadDisablePreallocRpcCache
    <3>4. QED
      BY <3>2, <3>3
  <2>2. CASE ~NotBusy(c)
    BY <1>6, <2>2 DEF TypeOK, ThreadDisablePreallocRpcCache
  <2>3. QED
    BY <2>1, <2>2
<1>7. ASSUME FreeReturnedShm(c)
      PROVE  TypeOK'
  BY <1>7 DEF TypeOK, FreeReturnedShm, threadVars
<1>8. QED
  BY <1>1, <1>2, <1>3, <1>4, <1>5, <1>6, <1>7 DEF CoreStep

LEMMA ThreadStepType ==
  ASSUME TypeOK, NEW c \in Cores, NEW n \in Threads, ThreadStep(c, n)
  PROVE  TypeOK'
<1>0. carg[n] \in Cookies \cup {None} /\ regs[n] \in Cookies \cup {None}
  BY DEF TypeOK
<1>1. CASE ForeignInterrupt(c, n)
  BY <1>1, SuspendType DEF TypeOK, ForeignInterrupt
<1>2. CASE ThreadRpcCmd(c, n)
  <2>1. CASE carg[n] = None
    BY <1>2, <2>1, SuspendType DEF TypeOK, ThreadRpcCmd, Conts
  <2>2. CASE carg[n] # None
    BY <1>0, <1>2, <2>2, SuspendType DEF TypeOK, ThreadRpcCmd, Conts
  <2>3. QED
    BY <2>1, <2>2
<1>3. CASE AllocArgReply(c, n)
  <2>1. CASE StaysRunning
    BY <1>0, <1>3, <2>1 DEF TypeOK, AllocArgReply, StaysRunning, Conts
  <2>2. CASE /\ ThreadStateSuspend(c, n, "free", regs[n])
             /\ cont' = [cont EXCEPT ![n] = "badarg"]
             /\ UNCHANGED <<carg, mobj>>
    BY <1>0, <1>3, <2>2, SuspendType DEF TypeOK, AllocArgReply, Conts
  <2>3. QED
    BY <1>3, <2>1, <2>2 DEF AllocArgReply
<1>4. CASE IssueCmd(c, n)
  BY <1>0, <1>4, SuspendType DEF TypeOK, IssueCmd, Conts
<1>5. CASE ThreadRpcCmdReturns(c, n)
  BY <1>5 DEF TypeOK, ThreadRpcCmdReturns, StaysRunning, Conts
<1>6. CASE StdSmcReturns(c, n)
  <2>1. CASE StaysRunning
    BY <1>6, <2>1 DEF TypeOK, StdSmcReturns, StaysRunning, Conts
  <2>2. CASE /\ ThreadStateSuspend(c, n, "free", carg[n])
             /\ cont' = [cont EXCEPT ![n] = "freearg"]
    BY <1>0, <1>6, <2>2, SuspendType DEF TypeOK, StdSmcReturns, Conts
  <2>3. QED
    BY <1>6, <2>1, <2>2 DEF StdSmcReturns
<1>7. CASE FreeArgReply(c, n)
  BY <1>7 DEF TypeOK, FreeArgReply, StaysRunning, ClearArg, Conts
<1>8. CASE ThreadStateFree(c, n)
  BY <1>8 DEF TypeOK, ThreadStateFree, ThreadStates
<1>9. QED
  BY <1>1, <1>2, <1>3, <1>4, <1>5, <1>6, <1>7, <1>8 DEF ThreadStep

LEMMA HandleRpcType ==
  ASSUME TypeOK, NEW n \in Threads, HandleRpc(n)
  PROVE  TypeOK'
<1>1. rpc[n] \in Rpcs
  BY DEF TypeOK, HandleRpc
<1>2. \A k \in Cookies \cup {None} :
        [rpc[n] EXCEPT !.cookie = k, !.served = TRUE] \in Rpcs
  BY <1>1 DEF Rpcs
<1>3. [rpc[n] EXCEPT !.served = TRUE] \in Rpcs
  BY <1>1 DEF Rpcs
<1>4. CASE rpc[n].func = "alloc"
  <2>1. PICK k \in (Cookies \ live) \cup {None} :
          /\ live' = live \cup ({k} \ {None})
          /\ rpc' = [rpc EXCEPT ![n].cookie = k, ![n].served = TRUE]
    BY <1>4 DEF HandleRpc
  <2>2. rpc' = [rpc EXCEPT ![n] = [rpc[n] EXCEPT !.cookie = k, !.served = TRUE]]
    BY <2>1, <1>1 DEF TypeOK, Rpcs
  <2>3. rpc' \in [Threads -> Rpcs \cup {None}]
    <3>1. k \in Cookies \cup {None}
      OBVIOUS
    <3>2. [rpc[n] EXCEPT !.cookie = k, !.served = TRUE] \in Rpcs
      BY <1>2, <3>1
    <3>3. QED
      BY <2>2, <3>2 DEF TypeOK
  <2>4. live' \in SUBSET Cookies
    BY <2>1 DEF TypeOK
  <2>5. QED
    BY <2>3, <2>4 DEF TypeOK, HandleRpc, threadVars
<1>5. CASE rpc[n].func # "alloc"
  <2>1. rpc' = [rpc EXCEPT ![n] = [rpc[n] EXCEPT !.served = TRUE]]
    BY <1>5 DEF HandleRpc, TypeOK
  <2>2. live' \in SUBSET Cookies
    BY <1>5 DEF HandleRpc, TypeOK
  <2>3. rpc' \in [Threads -> Rpcs \cup {None}]
    BY <1>3, <2>1 DEF TypeOK
  <2>4. QED
    BY <2>2, <2>3 DEF TypeOK, HandleRpc, threadVars
<1>6. QED
  BY <1>4, <1>5

LEMMA TypeInit == Init => TypeOK
<1>1. 0 \in Threads
  BY ConstantsAssumption DEF Threads
<1> SUFFICES ASSUME Init PROVE TypeOK
  OBVIOUS
<1>2. mobj \in [Threads -> {"none", "held", "freed"}]
  BY DEF Init
<1>3. /\ state \in [Threads -> ThreadStates]
      /\ cont \in [Threads -> Conts]
  BY DEF Init, ThreadStates, Conts
<1>4. QED
  BY <1>1, <1>2, <1>3 DEF Init, TypeOK

LEMMA TypeStep == TypeOK /\ [Next]_vars => TypeOK'
<1> SUFFICES ASSUME TypeOK, [Next]_vars PROVE TypeOK'
  OBVIOUS
<1>1. CASE ThreadClrBootThread
  BY <1>1 DEF TypeOK, ThreadClrBootThread, ThreadStates
<1>2. ASSUME NEW c \in Cores, CoreStep(c)
      PROVE  TypeOK'
  BY <1>2, CoreStepType
<1>3. ASSUME NEW c \in Cores, NEW n \in Threads, ThreadStep(c, n)
      PROVE  TypeOK'
  BY <1>3, ThreadStepType
<1>4. ASSUME NEW n \in Threads, HandleRpc(n)
      PROVE  TypeOK'
  BY <1>4, HandleRpcType
<1>5. CASE UNCHANGED vars
  BY <1>5 DEF TypeOK, vars, threadVars
<1>6. QED
  BY <1>1, <1>2, <1>3, <1>4, <1>5 DEF Next, CoreStep, ThreadStep

(* The variables of the thread pool always have their types.               *)
THEOREM Typing == Spec => []TypeOK
<1>1. QED
  BY TypeInit, TypeStep, PTL DEF Spec
-----------------------------------------------------------------------------
(***************************************************************************)
(* Thread ownership.  Only five kinds of step touch state, curr and smc:   *)
(* a core takes a thread, runs it, lets go of it; it gets a buffer handed  *)
(* back, and frees it; the boot core finishes.                             *)
(***************************************************************************)
Takes(c, n) ==
  /\ InNormalWorld(c)
  /\ state[n] # "ACTIVE"
  /\ state' = [state EXCEPT ![n] = "ACTIVE"]
  /\ \E s \in Smcs : /\ s.at \in {"start", "resume"}
                     /\ s.thread = n
                     /\ smc' = [smc EXCEPT ![c] = s]
  /\ curr' = curr

Runs(c) ==
  /\ smc[c] # None
  /\ smc[c].at \in {"start", "resume"}
  /\ curr' = [curr EXCEPT ![c] = smc[c].thread]
  /\ \E s \in Smcs : /\ s.at = "run"
                     /\ s.thread = smc[c].thread
                     /\ smc' = [smc EXCEPT ![c] = s]
  /\ state' = state

LetsGo(c, n) ==
  /\ Running(c, n)
  /\ \E s \in {"FREE", "SUSPENDED"} : state' = [state EXCEPT ![n] = s]
  /\ curr' = [curr EXCEPT ![c] = None]
  /\ smc' = [smc EXCEPT ![c] = None]

GetsBuffer(c) ==
  /\ InNormalWorld(c)
  /\ \E s \in Smcs : s.at = "freed" /\ smc' = [smc EXCEPT ![c] = s]
  /\ state' = state /\ curr' = curr

FreesBuffer(c) ==
  /\ smc[c] # None
  /\ smc[c].at = "freed"
  /\ smc' = [smc EXCEPT ![c] = None]
  /\ state' = state /\ curr' = curr

Kinds ==
  \/ ThreadClrBootThread
  \/ \E c \in Cores, n \in Threads : Takes(c, n)
  \/ \E c \in Cores : Runs(c)
  \/ \E c \in Cores, n \in Threads : LetsGo(c, n)
  \/ \E c \in Cores : GetsBuffer(c)
  \/ \E c \in Cores : FreesBuffer(c)
  \/ UNCHANGED <<state, curr, smc>>

LEMMA StepKinds ==
  ASSUME TypeOK, [Next]_vars
  PROVE  Kinds
<1>1. ASSUME NEW c \in Cores, NEW g \in Guests, AllocThread(c, g)
      PROVE  Kinds
  <2>1. PICK n \in 0 .. NumThreads :
          /\ ScanStopsAt(n, FreeThreads)
          /\ IF FoundThread(n)
             THEN /\ state' = [state EXCEPT ![n] = "ACTIVE"]
                  /\ smc' = [smc EXCEPT ![c] = [at |-> "start", thread |-> n,
                                                guest |-> g, cookie |-> None]]
                  /\ client' = [client EXCEPT ![n] = g]
             ELSE UNCHANGED <<state, smc, client>>
    BY <1>1 DEF AllocThread
  <2>2. CASE FoundThread(n)
    <3>1. n \in Threads /\ state[n] = "FREE"
      BY <2>1, <2>2, ConstantsAssumption
      DEF FoundThread, ScanStopsAt, FreeThreads, Threads
    <3>2. [at |-> "start", thread |-> n, guest |-> g, cookie |-> None] \in Smcs
      BY <3>1 DEF Smcs
    <3>3. Takes(c, n)
      BY <1>1, <2>1, <2>2, <3>1, <3>2 DEF Takes, AllocThread
    <3>4. QED
      BY <3>1, <3>3 DEF Kinds
  <2>3. CASE ~FoundThread(n)
    BY <1>1, <2>1, <2>3 DEF Kinds, AllocThread
  <2>4. QED
    BY <2>2, <2>3
<1>2. ASSUME NEW c \in Cores, NEW k \in Commands, StartThread(c, k)
      PROVE  Kinds
  <2> DEFINE r == [smc[c] EXCEPT !.at = "run"]
  <2>1. r \in Smcs /\ r.at = "run" /\ r.thread = smc[c].thread
    BY <1>2, RunSmc DEF TypeOK, StartThread
  <2>2. smc' = [smc EXCEPT ![c] = r]
    BY <1>2 DEF StartThread
  <2> HIDE DEF r
  <2>3. Runs(c)
    BY <1>2, <2>1, <2>2 DEF StartThread, Runs
  <2>4. QED
    BY <2>3 DEF Kinds
<1>3. ASSUME NEW c \in Cores, NEW n \in 0 .. NumThreads, NEW g \in Guests,
             NEW k \in Cookies \cup {None}, ResumeFromRpc(c, n, g, k)
      PROVE  Kinds
  <2>1. CASE Resumable(n, g)
    <3>1. [at |-> "resume", thread |-> n, guest |-> g, cookie |-> k] \in Smcs
      BY <2>1 DEF Smcs, Resumable
    <3>2. n \in Threads /\ Takes(c, n)
      BY <1>3, <2>1, <3>1 DEF Takes, ResumeFromRpc, Resumable
    <3>3. QED
      BY <3>2 DEF Kinds
  <2>2. CASE ~Resumable(n, g)
    BY <1>3, <2>2 DEF Kinds, ResumeFromRpc
  <2>3. QED
    BY <2>1, <2>2
<1>4. ASSUME NEW c \in Cores, ResumeThread(c)
      PROVE  Kinds
  <2> DEFINE r == [smc[c] EXCEPT !.at = "run"]
  <2>1. r \in Smcs /\ r.at = "run" /\ r.thread = smc[c].thread
    BY <1>4, RunSmc DEF TypeOK, ResumeThread
  <2>2. smc' = [smc EXCEPT ![c] = r]
    BY <1>4 DEF ResumeThread
  <2> HIDE DEF r
  <2>3. Runs(c)
    BY <1>4, <2>1, <2>2 DEF ResumeThread, Runs
  <2>4. QED
    BY <2>3 DEF Kinds
<1>5. ASSUME NEW c \in Cores, ThreadDisablePreallocRpcCache(c)
      PROVE  Kinds
  <2>1. CASE UNCHANGED smc
    BY <1>5, <2>1 DEF Kinds, ThreadDisablePreallocRpcCache
  <2>2. CASE ~UNCHANGED smc
    <3>1. PICK n \in 0 .. NumThreads :
            /\ ScanStopsAt(n, {m \in Threads : carg[m] # None})
            /\ n < NumThreads
            /\ smc' = [smc EXCEPT ![c] = [at |-> "freed",
                                          cookie |-> carg[n]]]
      BY <1>5, <2>2 DEF ThreadDisablePreallocRpcCache
    <3>2. carg[n] \in Cookies
      BY <3>1, ConstantsAssumption DEF ScanStopsAt, TypeOK
    <3>3. [at |-> "freed", cookie |-> carg[n]] \in Smcs
      BY <3>2 DEF Smcs
    <3>4. GetsBuffer(c)
      BY <1>5, <3>1, <3>3 DEF GetsBuffer, ThreadDisablePreallocRpcCache
    <3>5. QED
      BY <3>4 DEF Kinds
  <2>3. QED
    BY <2>1, <2>2
<1>6. ASSUME NEW c \in Cores, FreeReturnedShm(c)
      PROVE  Kinds
  BY <1>6 DEF Kinds, FreesBuffer, FreeReturnedShm, threadVars
<1>7. ASSUME NEW c \in Cores, ThreadEnablePreallocRpcCache(c)
      PROVE  Kinds
  BY <1>7 DEF Kinds, ThreadEnablePreallocRpcCache, threadVars
<1>8. ASSUME NEW c \in Cores, NEW n \in Threads, ThreadStep(c, n)
      PROVE  Kinds
  <2>1. CASE UNCHANGED <<state, curr, smc>>
    BY <2>1 DEF Kinds
  <2>2. CASE ~UNCHANGED <<state, curr, smc>>
    <3>1. LetsGo(c, n)
      BY <1>8, <2>2
      DEF ThreadStep, LetsGo, StaysRunning, ThreadStateSuspend, ForeignInterrupt,
          ThreadRpcCmd, AllocArgReply, IssueCmd, ThreadRpcCmdReturns,
          StdSmcReturns, FreeArgReply, ThreadStateFree
    <3>2. QED
      BY <3>1 DEF Kinds
  <2>3. QED
    BY <2>1, <2>2
<1>9. ASSUME NEW n \in Threads, HandleRpc(n)
      PROVE  Kinds
  BY <1>9 DEF Kinds, HandleRpc, threadVars
<1>10. CASE UNCHANGED vars
  BY <1>10 DEF Kinds, vars, threadVars
<1>11. CASE ThreadClrBootThread
  BY <1>11 DEF Kinds
<1>12. QED
  BY <1>1, <1>2, <1>3, <1>4, <1>5, <1>6, <1>7, <1>8, <1>9, <1>10, <1>11
  DEF Next, ThreadStep

LEMMA OwnershipInit == Init => CoreInv /\ ThreadOwnership
<1>1. 0 \in Threads
  BY ConstantsAssumption DEF Threads
<1>2. QED
  BY <1>1, NoneIsFresh, ConstantsAssumption
  DEF Init, CoreInv, ThreadOwnership, Held

LEMMA OwnershipStep ==
  TypeOK /\ CoreInv /\ ThreadOwnership /\ [Next]_vars
    => CoreInv' /\ ThreadOwnership'
<1> SUFFICES ASSUME TypeOK, CoreInv, ThreadOwnership, [Next]_vars
             PROVE  CoreInv' /\ ThreadOwnership'
  OBVIOUS
<1>0. 0 \in Threads
  BY ConstantsAssumption DEF Threads
<1>1. CASE ThreadClrBootThread
  <2>1. CoreInv'
    BY <1>1, ConstantsAssumption
    DEF ThreadClrBootThread, CoreInv, TypeOK, Booting
  <2>2. ThreadOwnership'
    BY <1>0, <1>1, NoneIsFresh, ConstantsAssumption
    DEF ThreadClrBootThread, CoreInv, TypeOK, ThreadOwnership, Held, Booting
  <2>3. QED
    BY <2>1, <2>2
<1>2. ASSUME NEW c \in Cores, NEW n \in Threads, Takes(c, n)
      PROVE  CoreInv' /\ ThreadOwnership'
  <2>1. smc[c] = None /\ curr[c] = None /\ smc'[c] # None /\ smc'[c].thread = n
        /\ smc'[c].at \in {"start", "resume"}
    BY <1>2, NoneIsFresh DEF Takes, InNormalWorld, Booting, CoreInv, TypeOK
  <2>2. \A d \in Cores : d # c => smc'[d] = smc[d] /\ Held(d)' = Held(d)
    BY <1>2 DEF Takes, TypeOK, Held
  <2>3. Held(c)' = n /\ Held(c) = None
    BY <2>1 DEF Held
  <2>4. \A d \in Cores : Held(d) # n
    BY <1>2 DEF ThreadOwnership, Takes
  <2>5. CoreInv'
    BY <1>2, <2>1, <2>2 DEF CoreInv, Takes, TypeOK, InNormalWorld, Booting
  <2>6. ThreadOwnership'
    BY <1>2, <2>2, <2>3, <2>4, NoneIsFresh DEF ThreadOwnership, Takes, TypeOK
  <2>7. QED
    BY <2>5, <2>6
<1>3. ASSUME NEW c \in Cores, Runs(c)
      PROVE  CoreInv' /\ ThreadOwnership'
  <2>1. \A d \in Cores : Held(d)' = Held(d)
    BY <1>3 DEF Runs, TypeOK, Held
  <2>2. CoreInv'
    BY <1>3, NoneIsFresh DEF Runs, CoreInv, TypeOK
  <2>3. ThreadOwnership'
    BY <1>3, <2>1 DEF Runs, ThreadOwnership
  <2>4. QED
    BY <2>2, <2>3
<1>4. ASSUME NEW c \in Cores, NEW n \in Threads, LetsGo(c, n)
      PROVE  CoreInv' /\ ThreadOwnership'
  <2>1. Held(c) = n /\ Held(c)' = None
    BY <1>4 DEF LetsGo, Running, CoreInv, TypeOK, Held
  <2>2. \A d \in Cores : d # c => Held(d)' = Held(d)
    BY <1>4 DEF LetsGo, TypeOK, Held
  <2>3. CoreInv'
    BY <1>4 DEF LetsGo, Running, CoreInv, TypeOK
  <2>4. ThreadOwnership'
    BY <1>4, <2>1, <2>2, NoneIsFresh DEF LetsGo, ThreadOwnership, TypeOK
  <2>5. QED
    BY <2>3, <2>4
<1>5. ASSUME NEW c \in Cores, GetsBuffer(c) \/ FreesBuffer(c)
      PROVE  CoreInv' /\ ThreadOwnership'
  <2>1. \A d \in Cores : Held(d)' = Held(d)
    BY <1>5, NoneIsFresh
    DEF GetsBuffer, FreesBuffer, InNormalWorld, Booting, CoreInv, TypeOK, Held
  <2>2. CoreInv'
    BY <1>5, NoneIsFresh
    DEF GetsBuffer, FreesBuffer, InNormalWorld, Booting, CoreInv, TypeOK
  <2>3. ThreadOwnership'
    BY <1>5, <2>1 DEF GetsBuffer, FreesBuffer, ThreadOwnership
  <2>4. QED
    BY <2>2, <2>3
<1>6. CASE UNCHANGED <<state, curr, smc>>
  BY <1>6 DEF CoreInv, ThreadOwnership, Held
<1>7. QED
  BY <1>1, <1>2, <1>3, <1>4, <1>5, <1>6, StepKinds DEF Kinds

(* An ACTIVE thread is on exactly one core, however calls, interrupts and  *)
(* resumptions interleave.                                                 *)
THEOREM Ownership == Spec => []ThreadOwnership
<1>1. QED
  BY TypeInit, TypeStep, OwnershipInit, OwnershipStep, PTL DEF Spec
-----------------------------------------------------------------------------
(***************************************************************************)
(* What the steps do, in the form the remaining invariants need.           *)
(***************************************************************************)
Owned == TypeOK /\ CoreInv /\ ThreadOwnership

LEMMA RunningThread ==
  ASSUME Owned, NEW c \in Cores, NEW n \in Threads, Running(c, n)
  PROVE  /\ smc[c] \in Smcs
         /\ smc[c].thread = n
         /\ state[n] = "ACTIVE"
         /\ \A d \in Cores : d # c => Held(d) # n
<1>1. smc[c] \in Smcs /\ smc[c].at = "run" /\ smc[c].thread = n
  BY DEF Owned, TypeOK, CoreInv, Running
<1>2. Held(c) = n
  BY <1>1, NoneIsFresh DEF Held
<1>3. n # None
  BY NoneIsFresh
<1>4. QED
  BY <1>1, <1>2, <1>3 DEF Owned, ThreadOwnership

(* A core between unlock_global and the assignment of curr_thread.         *)
LEMMA EnteringThread ==
  ASSUME Owned, NEW c \in Cores, smc[c] # None, smc[c].at # "freed"
  PROVE  /\ smc[c] \in Smcs
         /\ smc[c].thread \in Threads
         /\ smc[c].guest \in Guests
         /\ state[smc[c].thread] = "ACTIVE"
         /\ \A d \in Cores : d # c /\ smc[d] # None /\ smc[d].at # "freed"
              => smc[d].thread # smc[c].thread
<1>1. smc[c] \in Smcs /\ smc[c].thread \in Threads /\ smc[c].guest \in Guests
  BY SmcFields DEF Owned, TypeOK
<1>2. Held(c) = smc[c].thread /\ Held(c) # None
  BY <1>1, NoneIsFresh DEF Held
<1>3. QED
  BY <1>1, <1>2 DEF Owned, ThreadOwnership, Held

LEMMA TakenThread ==
  ASSUME Owned, NEW c \in Cores, NEW g \in Guests, AllocThread(c, g)
  PROVE  \/ UNCHANGED <<state, smc, client>>
         \/ \E n \in Threads :
              /\ state[n] = "FREE"
              /\ state' = [state EXCEPT ![n] = "ACTIVE"]
              /\ client' = [client EXCEPT ![n] = g]
              /\ \E s \in Smcs :
                   /\ s.at = "start" /\ s.thread = n /\ s.guest = g
                   /\ smc' = [smc EXCEPT ![c] = s]
              /\ \A d \in Cores : smc[d] # None /\ smc[d].at # "freed"
                                    => smc[d].thread # n
<1>1. PICK n \in 0 .. NumThreads :
        /\ ScanStopsAt(n, FreeThreads)
        /\ IF FoundThread(n)
           THEN /\ state' = [state EXCEPT ![n] = "ACTIVE"]
                /\ smc' = [smc EXCEPT ![c] = [at |-> "start", thread |-> n,
                                              guest |-> g, cookie |-> None]]
                /\ client' = [client EXCEPT ![n] = g]
           ELSE UNCHANGED <<state, smc, client>>
  BY DEF AllocThread
<1>2. CASE FoundThread(n)
  <2>1. n \in Threads /\ state[n] = "FREE"
    BY <1>1, <1>2, ConstantsAssumption
    DEF FoundThread, ScanStopsAt, FreeThreads, Threads
  <2> DEFINE s == [at |-> "start", thread |-> n, guest |-> g, cookie |-> None]
  <2>2. s \in Smcs /\ s.at = "start" /\ s.thread = n /\ s.guest = g
    BY <2>1 DEF Smcs
  <2>3. \A d \in Cores : smc[d] # None /\ smc[d].at # "freed"
                           => smc[d].thread # n
    BY <2>1 DEF Owned, ThreadOwnership, Held
  <2>4. smc' = [smc EXCEPT ![c] = s]
    BY <1>1, <1>2
  <2> HIDE DEF s
  <2>5. QED
    BY <1>1, <1>2, <2>1, <2>2, <2>3, <2>4
<1>3. QED
  BY <1>1, <1>2

LEMMA RunsThread ==
  ASSUME Owned, NEW c \in Cores, smc[c] # None, smc[c].at # "freed",
         smc' = [smc EXCEPT ![c].at = "run"]
  PROVE  \E s \in Smcs : /\ s.at = "run"
                         /\ s.thread = smc[c].thread
                         /\ s.guest = smc[c].guest
                         /\ smc' = [smc EXCEPT ![c] = s]
<1> DEFINE s == [smc[c] EXCEPT !.at = "run"]
<1>1. /\ s \in Smcs /\ s.at = "run" /\ s.thread = smc[c].thread
      /\ s.guest = smc[c].guest
  BY EnteringThread, RunSmc
<1>2. smc' = [smc EXCEPT ![c] = s]
  OBVIOUS
<1> HIDE DEF s
<1>3. QED
  BY <1>1, <1>2

(* Resumed or turned away.                                                 *)
LEMMA ResumedThread ==
  ASSUME Owned, NEW c \in Cores, NEW n \in 0 .. NumThreads, NEW g \in Guests,
         NEW k \in Cookies \cup {None}, ResumeFromRpc(c, n, g, k)
  PROVE  \/ UNCHANGED <<state, smc, rpc>>
         \/ /\ n \in Threads
            /\ state[n] = "SUSPENDED"
            /\ g = hypClient[n]
            /\ state' = [state EXCEPT ![n] = "ACTIVE"]
            /\ rpc' = [rpc EXCEPT ![n] = None]
            /\ \E s \in Smcs :
                 /\ s.at = "resume" /\ s.thread = n /\ s.guest = g
                 /\ smc' = [smc EXCEPT ![c] = s]
            /\ \A d \in Cores : smc[d] # None /\ smc[d].at # "freed"
                                  => smc[d].thread # n
<1>1. CASE Resumable(n, g)
  <2> DEFINE s == [at |-> "resume", thread |-> n, guest |-> g, cookie |-> k]
  <2>1. s \in Smcs /\ s.at = "resume" /\ s.thread = n /\ s.guest = g
    BY <1>1 DEF Smcs, Resumable
  <2>2. \A d \in Cores : smc[d] # None /\ smc[d].at # "freed"
                           => smc[d].thread # n
    BY <1>1 DEF Owned, ThreadOwnership, Held, Resumable
  <2>3. smc' = [smc EXCEPT ![c] = s]
    BY <1>1 DEF ResumeFromRpc
  <2> HIDE DEF s
  <2>4. QED
    BY <1>1, <2>1, <2>2, <2>3 DEF ResumeFromRpc, Resumable
<1>2. CASE ~Resumable(n, g)
  BY <1>2 DEF ResumeFromRpc
<1>3. QED
  BY <1>1, <1>2

LEMMA DisableSmc ==
  ASSUME Owned, NEW c \in Cores, ThreadDisablePreallocRpcCache(c)
  PROVE  \/ UNCHANGED smc
         \/ \E s \in Smcs : s.at = "freed" /\ smc' = [smc EXCEPT ![c] = s]
<1>1. CASE ~UNCHANGED smc
  <2>1. PICK n \in 0 .. NumThreads :
          /\ ScanStopsAt(n, {m \in Threads : carg[m] # None})
          /\ n < NumThreads
          /\ smc' = [smc EXCEPT ![c] = [at |-> "freed", cookie |-> carg[n]]]
    BY <1>1 DEF ThreadDisablePreallocRpcCache
  <2>2. carg[n] \in Cookies
    BY <2>1, ConstantsAssumption DEF ScanStopsAt, Owned, TypeOK
  <2>3. [at |-> "freed", cookie |-> carg[n]] \in Smcs
    BY <2>2 DEF Smcs
  <2>4. QED
    BY <2>1, <2>3
<1>2. QED
  BY <1>1

(* A step of a running thread suspends it, frees it or goes on.            *)
Suspends(c, n) ==
  \E func \in {"irq", "alloc", "cmd", "free"}, k \in Cookies \cup {None} :
    ThreadStateSuspend(c, n, func, k)

LEMMA ThreadStepEffect ==
  ASSUME TypeOK, NEW c \in Cores, NEW n \in Threads, ThreadStep(c, n)
  PROVE  /\ Running(c, n)
         /\ UNCHANGED <<hypClient, client, regs, cmd, prealloc, live>>
         /\ Suspends(c, n) \/ StaysRunning \/ ThreadStateFree(c, n)
<1>1. carg[n] \in Cookies \cup {None} /\ regs[n] \in Cookies \cup {None}
  BY DEF TypeOK
<1>2. QED
  BY <1>1
  DEF ThreadStep, Suspends, ForeignInterrupt, ThreadRpcCmd, AllocArgReply,
      IssueCmd, ThreadRpcCmdReturns, StdSmcReturns, FreeArgReply,
      ThreadStateFree
-----------------------------------------------------------------------------
(* Isolation of the guests.                                                *)

LEMMA GuestInit == Init => GuestInv
BY DEF Init, GuestInv

LEMMA GuestStep == Owned /\ GuestInv /\ [Next]_vars => GuestInv'
<1> SUFFICES ASSUME Owned, GuestInv, [Next]_vars PROVE GuestInv'
  OBVIOUS
<1>0. TypeOK
  BY DEF Owned
<1>1. ASSUME NEW c \in Cores, NEW g \in Guests, AllocThread(c, g)
      PROVE  GuestInv'
  <2>1. CASE UNCHANGED <<state, smc, client>>
    BY <1>1, <2>1 DEF GuestInv, AllocThread
  <2>2. CASE ~UNCHANGED <<state, smc, client>>
    <3>1. PICK n \in Threads, s \in Smcs :
            /\ state[n] = "FREE"
            /\ state' = [state EXCEPT ![n] = "ACTIVE"]
            /\ client' = [client EXCEPT ![n] = g]
            /\ s.at = "start" /\ s.thread = n /\ s.guest = g
            /\ smc' = [smc EXCEPT ![c] = s]
            /\ \A d \in Cores : smc[d] # None /\ smc[d].at # "freed"
                                  => smc[d].thread # n
      BY <1>1, <2>2, TakenThread
    <3>2. UNCHANGED hypClient
      BY <1>1 DEF AllocThread
    <3>3. \A m \in Threads : state'[m] = "SUSPENDED" => hypClient[m] = client'[m]
      BY <1>0, <3>1 DEF GuestInv, TypeOK
    <3>4. \A d \in Cores : smc'[d] # None /\ smc'[d].at # "freed" =>
            /\ smc'[d].guest = client'[smc'[d].thread]
            /\ smc'[d].at # "start" =>
                 hypClient[smc'[d].thread] = client'[smc'[d].thread]
      BY <1>0, <3>1, SmcFields DEF GuestInv, TypeOK
    <3>5. QED
      BY <3>2, <3>3, <3>4 DEF GuestInv
  <2>3. QED
    BY <2>1, <2>2
<1>2. ASSUME NEW c \in Cores, NEW k \in Commands, StartThread(c, k)
      PROVE  GuestInv'
  <2>1. PICK s \in Smcs : /\ s.at = "run"
                          /\ s.thread = smc[c].thread
                          /\ s.guest = smc[c].guest
                          /\ smc' = [smc EXCEPT ![c] = s]
    BY <1>2, RunsThread DEF StartThread
  <2>2. QED
    BY <1>0, <1>2, <2>1, EnteringThread, NoneIsFresh
    DEF GuestInv, StartThread, TypeOK
<1>3. ASSUME NEW c \in Cores, NEW n \in 0 .. NumThreads, NEW g \in Guests,
             NEW k \in Cookies \cup {None}, ResumeFromRpc(c, n, g, k)
      PROVE  GuestInv'
  <2>1. CASE UNCHANGED <<state, smc, rpc>>
    BY <1>3, <2>1 DEF GuestInv, ResumeFromRpc
  <2>2. CASE ~UNCHANGED <<state, smc, rpc>>
    BY <1>0, <1>3, <2>2, ResumedThread, NoneIsFresh
    DEF GuestInv, ResumeFromRpc, TypeOK
  <2>3. QED
    BY <2>1, <2>2
<1>4. ASSUME NEW c \in Cores, ResumeThread(c)
      PROVE  GuestInv'
  <2>1. PICK s \in Smcs : /\ s.at = "run"
                          /\ s.thread = smc[c].thread
                          /\ s.guest = smc[c].guest
                          /\ smc' = [smc EXCEPT ![c] = s]
    BY <1>4, RunsThread DEF ResumeThread
  <2>2. QED
    BY <1>0, <1>4, <2>1, NoneIsFresh DEF GuestInv, ResumeThread, TypeOK
<1>5. ASSUME NEW c \in Cores, ThreadDisablePreallocRpcCache(c)
      PROVE  GuestInv'
  BY <1>0, <1>5, DisableSmc
  DEF GuestInv, ThreadDisablePreallocRpcCache, TypeOK
<1>6. ASSUME NEW c \in Cores,
             FreeReturnedShm(c) \/ ThreadEnablePreallocRpcCache(c)
      PROVE  GuestInv'
  <2>1. UNCHANGED <<state, hypClient, client>>
    BY <1>6 DEF FreeReturnedShm, ThreadEnablePreallocRpcCache, threadVars
  <2>2. smc' = smc \/ smc' = [smc EXCEPT ![c] = None]
    BY <1>6 DEF FreeReturnedShm, ThreadEnablePreallocRpcCache
  <2>3. smc \in [Cores -> Smcs \cup {None}]
    BY <1>0 DEF TypeOK
  <2>4. \A d \in Cores : smc'[d] # None => smc'[d] = smc[d]
    BY <2>2, <2>3
  <2>5. QED
    BY <2>1, <2>4 DEF GuestInv
<1>7. ASSUME NEW c \in Cores, NEW n \in Threads, ThreadStep(c, n)
      PROVE  GuestInv'
  <2>1. smc[c] # None /\ smc[c].at = "run" /\ smc[c].thread = n
    BY <1>7, ThreadStepEffect, RunningThread, <1>0 DEF Running
  <2>2. hypClient[n] = client[n]
    BY <2>1 DEF GuestInv
  <2>3. UNCHANGED <<hypClient, client>>
    BY <1>0, <1>7, ThreadStepEffect
  <2>4. CASE Suspends(c, n)
    <3>1. /\ state' = [state EXCEPT ![n] = "SUSPENDED"]
          /\ smc' = [smc EXCEPT ![c] = None]
      BY <2>4 DEF Suspends, ThreadStateSuspend
    <3>2. QED
      BY <1>0, <2>2, <2>3, <3>1 DEF GuestInv, TypeOK
  <2>5. CASE StaysRunning
    BY <2>3, <2>5 DEF GuestInv, StaysRunning
  <2>6. CASE ThreadStateFree(c, n)
    BY <1>0, <2>3, <2>6 DEF GuestInv, ThreadStateFree, TypeOK
  <2>7. QED
    BY <1>0, <1>7, <2>4, <2>5, <2>6, ThreadStepEffect
<1>8. ASSUME NEW n \in Threads, HandleRpc(n)
      PROVE  GuestInv'
  BY <1>8 DEF GuestInv, HandleRpc, threadVars
<1>9. CASE ThreadClrBootThread
  BY <1>0, <1>9 DEF GuestInv, ThreadClrBootThread, TypeOK
<1>10. CASE UNCHANGED vars
  BY <1>10 DEF GuestInv, vars, threadVars
<1>11. QED
  BY <1>1, <1>2, <1>3, <1>4, <1>5, <1>6, <1>7, <1>8, <1>9, <1>10
  DEF Next, ThreadStep

LEMMA OwnedAlways == Spec => []Owned
<1>1. Init => Owned
  BY TypeInit, OwnershipInit DEF Owned
<1>2. Owned /\ [Next]_vars => Owned'
  BY TypeStep, OwnershipStep DEF Owned
<1>3. QED
  BY <1>1, <1>2, PTL DEF Spec

(* A core serves a thread only for the guest that made the call, although  *)
(* hyp_clnt_id is written outside the lock.                                *)
THEOREM Isolation == Spec => []GuestIsolation
<1>1. Owned /\ GuestInv => GuestIsolation
  <2> SUFFICES ASSUME Owned, GuestInv, NEW c \in Cores,
                      Held(c) # None, smc[c] # None
               PROVE  smc[c].guest = client[Held(c)]
    BY DEF GuestIsolation
  <2>1. smc[c].at # "freed" /\ Held(c) = smc[c].thread
    BY DEF Held
  <2>2. QED
    BY <2>1 DEF GuestInv
<1>2. QED
  BY <1>1, GuestInit, GuestStep, OwnedAlways, PTL DEF Spec
-----------------------------------------------------------------------------
(* The registers of an interrupted thread.                                 *)

LEMMA RpcInit == Init => RpcInv
BY DEF Init, RpcInv

(* A step that leaves the threads alone and starts none.                   *)
LEMMA RpcFrame ==
  ASSUME RpcInv, UNCHANGED <<state, copyArgs, rpc>>,
         \A d \in Cores : smc'[d] # None /\ smc'[d].at = "run"
                            => smc'[d] = smc[d]
  PROVE  RpcInv'
<1>1. \A n \in Threads :
        /\ rpc'[n] # None <=> state'[n] = "SUSPENDED"
        /\ rpc'[n] # None => (copyArgs'[n] <=> rpc'[n].func # "irq")
  BY DEF RpcInv
<1>2. \A d \in Cores : smc'[d] # None /\ smc'[d].at = "run"
                         => ~copyArgs'[smc'[d].thread]
  BY DEF RpcInv
<1>3. QED
  BY <1>1, <1>2 DEF RpcInv

LEMMA RpcStep == Owned /\ RpcInv /\ [Next]_vars => RpcInv'
<1> SUFFICES ASSUME Owned, RpcInv, [Next]_vars PROVE RpcInv'
  OBVIOUS
<1>0. TypeOK
  BY DEF Owned
<1>1. ASSUME NEW c \in Cores, NEW g \in Guests, AllocThread(c, g)
      PROVE  RpcInv'
  <2>1. CASE UNCHANGED <<state, smc, client>>
    BY <1>1, <2>1 DEF RpcInv, AllocThread
  <2>2. CASE ~UNCHANGED <<state, smc, client>>
    BY <1>0, <1>1, <2>2, TakenThread, NoneIsFresh
    DEF RpcInv, AllocThread, TypeOK
  <2>3. QED
    BY <2>1, <2>2
<1>2. ASSUME NEW c \in Cores, NEW k \in Commands, StartThread(c, k)
      PROVE  RpcInv'
  <2>1. PICK s \in Smcs : /\ s.at = "run"
                          /\ s.thread = smc[c].thread
                          /\ s.guest = smc[c].guest
                          /\ smc' = [smc EXCEPT ![c] = s]
    BY <1>2, RunsThread DEF StartThread
  <2>2. smc[c].thread \in Threads /\ state[smc[c].thread] = "ACTIVE"
    BY <1>2, EnteringThread DEF StartThread
  <2>3. QED
    BY <1>0, <1>2, <2>1, <2>2, NoneIsFresh DEF RpcInv, StartThread, TypeOK
<1>3. ASSUME NEW c \in Cores, NEW n \in 0 .. NumThreads, NEW g \in Guests,
             NEW k \in Cookies \cup {None}, ResumeFromRpc(c, n, g, k)
      PROVE  RpcInv'
  <2>1. CASE UNCHANGED <<state, smc, rpc>>
    BY <1>3, <2>1 DEF RpcInv, ResumeFromRpc
  <2>2. CASE ~UNCHANGED <<state, smc, rpc>>
    BY <1>0, <1>3, <2>2, ResumedThread, NoneIsFresh
    DEF RpcInv, ResumeFromRpc, TypeOK
  <2>3. QED
    BY <2>1, <2>2
<1>4. ASSUME NEW c \in Cores, ResumeThread(c)
      PROVE  RpcInv'
  <2>1. PICK s \in Smcs : /\ s.at = "run"
                          /\ s.thread = smc[c].thread
                          /\ s.guest = smc[c].guest
                          /\ smc' = [smc EXCEPT ![c] = s]
    BY <1>4, RunsThread DEF ResumeThread
  <2>2. smc[c].thread \in Threads /\ state[smc[c].thread] = "ACTIVE"
    BY <1>4, EnteringThread DEF ResumeThread
  <2>3. CASE copyArgs[smc[c].thread]
    <3>1. /\ copyArgs' = [copyArgs EXCEPT ![smc[c].thread] = FALSE]
          /\ UNCHANGED <<state, rpc>>
      BY <1>4, <2>3 DEF ResumeThread, CopyArgs
    <3>2. rpc[smc[c].thread] = None
      BY <2>2 DEF RpcInv
    <3>3. \A m \in Threads :
            /\ rpc'[m] # None <=> state'[m] = "SUSPENDED"
            /\ rpc'[m] # None => (copyArgs'[m] <=> rpc'[m].func # "irq")
      BY <1>0, <2>2, <3>1, <3>2 DEF RpcInv, TypeOK
    <3>4. \A d \in Cores : smc'[d] # None /\ smc'[d].at = "run"
                           => ~copyArgs'[smc'[d].thread]
      BY <1>0, <2>1, <2>2, <3>1, SmcFields DEF RpcInv, TypeOK
    <3>5. QED
      BY <3>3, <3>4 DEF RpcInv
  <2>4. CASE ~copyArgs[smc[c].thread]
    BY <1>0, <1>4, <2>1, <2>2, <2>4, NoneIsFresh
    DEF RpcInv, ResumeThread, TypeOK
  <2>5. QED
    BY <2>3, <2>4
<1>5. ASSUME NEW c \in Cores, ThreadDisablePreallocRpcCache(c)
      PROVE  RpcInv'
  <2>1. UNCHANGED <<state, copyArgs, rpc>>
    BY <1>5 DEF ThreadDisablePreallocRpcCache
  <2>2. \A d \in Cores : smc'[d] # None /\ smc'[d].at = "run"
                           => smc'[d] = smc[d]
    BY <1>0, <1>5, DisableSmc DEF TypeOK
  <2>3. QED
    BY <2>1, <2>2, RpcFrame
<1>6. ASSUME NEW c \in Cores,
             FreeReturnedShm(c) \/ ThreadEnablePreallocRpcCache(c)
      PROVE  RpcInv'
  <2>1. UNCHANGED <<state, copyArgs, rpc>>
    BY <1>6 DEF FreeReturnedShm, ThreadEnablePreallocRpcCache, threadVars
  <2>2. \A d \in Cores : smc'[d] # None /\ smc'[d].at = "run"
                           => smc'[d] = smc[d]
    BY <1>0, <1>6 DEF TypeOK, FreeReturnedShm, ThreadEnablePreallocRpcCache
  <2>3. QED
    BY <2>1, <2>2, RpcFrame
<1>7. ASSUME NEW c \in Cores, NEW n \in Threads, ThreadStep(c, n)
      PROVE  RpcInv'
  <2>1. /\ smc[c] \in Smcs /\ smc[c].at = "run" /\ smc[c].thread = n
        /\ state[n] = "ACTIVE"
        /\ \A d \in Cores : d # c => Held(d) # n
    BY <1>7, ThreadStepEffect, RunningThread, <1>0 DEF Running
  <2>2. smc[c] # None
    BY <2>1, NoneIsFresh
  <2>3. ~copyArgs[n] /\ rpc[n] = None
    BY <2>1, <2>2 DEF RpcInv
  <2>4. \A d \in Cores : d # c /\ smc[d] # None /\ smc[d].at = "run"
                           => smc[d].thread # n
    BY <2>1 DEF Held
  <2>5. ASSUME NEW func \in {"irq", "alloc", "cmd", "free"},
               NEW k \in Cookies \cup {None},
               ThreadStateSuspend(c, n, func, k)
        PROVE  RpcInv'
    <3> DEFINE r == [func |-> func, cookie |-> k, served |-> FALSE]
    <3>1. r \in Rpcs /\ r.func = func
      BY DEF Rpcs
    <3>2. rpc' = [rpc EXCEPT ![n] = r]
      BY <2>5 DEF ThreadStateSuspend
    <3> HIDE DEF r
    <3>3. \A m \in Threads :
            /\ rpc'[m] # None <=> state'[m] = "SUSPENDED"
            /\ rpc'[m] # None => (copyArgs'[m] <=> rpc'[m].func # "irq")
      <4>1. /\ state' = [state EXCEPT ![n] = "SUSPENDED"]
            /\ copyArgs' = [copyArgs EXCEPT ![n] = @ \/ func # "irq"]
        BY <2>5 DEF ThreadStateSuspend
      <4>2. SUFFICES ASSUME NEW m \in Threads
                     PROVE  /\ rpc'[m] # None <=> state'[m] = "SUSPENDED"
                            /\ rpc'[m] # None =>
                                 (copyArgs'[m] <=> rpc'[m].func # "irq")
        OBVIOUS
      <4>3. CASE m = n
        <5>1. rpc'[m] = r /\ state'[m] = "SUSPENDED" /\ r # None
          BY <1>0, <3>1, <3>2, <4>1, <4>3, NoneIsFresh DEF TypeOK
        <5>2. copyArgs'[m] <=> func # "irq"
          BY <1>0, <2>3, <4>1, <4>3 DEF TypeOK
        <5>3. QED
          BY <3>1, <5>1, <5>2
      <4>4. CASE m # n
        <5>1. /\ rpc'[m] = rpc[m] /\ state'[m] = state[m]
              /\ copyArgs'[m] = copyArgs[m]
          BY <1>0, <3>2, <4>1, <4>4 DEF TypeOK
        <5>2. QED
          BY <5>1 DEF RpcInv
      <4>5. QED
        BY <4>3, <4>4
    <3>4. \A d \in Cores : smc'[d] # None /\ smc'[d].at = "run" =>
            ~copyArgs'[smc'[d].thread]
      BY <1>0, <2>1, <2>4, <2>5 DEF RpcInv, ThreadStateSuspend, TypeOK
    <3>5. QED
      BY <3>3, <3>4 DEF RpcInv
  <2>6. CASE StaysRunning
    BY <2>6 DEF RpcInv, StaysRunning
  <2>7. CASE ThreadStateFree(c, n)
    BY <1>0, <2>3, <2>7 DEF RpcInv, ThreadStateFree, TypeOK
  <2>8. QED
    BY <1>0, <1>7, <2>5, <2>6, <2>7, ThreadStepEffect DEF Suspends
<1>8. ASSUME NEW n \in Threads, HandleRpc(n)
      PROVE  RpcInv'
  <2>1. rpc[n] \in Rpcs
    BY <1>0, <1>8 DEF HandleRpc, TypeOK
  <2>2. \E r \in Rpcs : r.func = rpc[n].func /\ rpc' = [rpc EXCEPT ![n] = r]
    <3>1. CASE rpc[n].func = "alloc"
      <4>1. PICK k \in (Cookies \ live) \cup {None} :
              rpc' = [rpc EXCEPT ![n].cookie = k, ![n].served = TRUE]
        BY <1>8, <3>1 DEF HandleRpc
      <4> DEFINE r == [rpc[n] EXCEPT !.cookie = k, !.served = TRUE]
      <4>2. r \in Rpcs /\ r.func = rpc[n].func
        BY <1>0, <2>1 DEF Rpcs, TypeOK
      <4>3. rpc' = [rpc EXCEPT ![n] = r]
        BY <1>0, <2>1, <4>1 DEF TypeOK, Rpcs
      <4> HIDE DEF r
      <4>4. QED
        BY <4>2, <4>3
    <3>2. CASE rpc[n].func # "alloc"
      <4> DEFINE r == [rpc[n] EXCEPT !.served = TRUE]
      <4>1. r \in Rpcs /\ r.func = rpc[n].func
        BY <2>1 DEF Rpcs
      <4>2. rpc' = [rpc EXCEPT ![n] = r]
        BY <1>8, <3>2 DEF HandleRpc
      <4> HIDE DEF r
      <4>3. QED
        BY <4>1, <4>2
    <3>3. QED
      BY <3>1, <3>2
  <2>3. PICK r \in Rpcs : /\ r.func = rpc[n].func
                          /\ rpc' = [rpc EXCEPT ![n] = r]
    BY <2>2
  <2>4. UNCHANGED <<state, copyArgs, smc>> /\ rpc[n] # None
    BY <1>8 DEF HandleRpc, threadVars
  <2>5. \A m \in Threads :
          /\ rpc'[m] # None <=> rpc[m] # None
          /\ rpc'[m] # None => rpc'[m].func = rpc[m].func
    BY <1>0, <2>3, <2>4, NoneIsFresh DEF TypeOK
  <2>6. \A m \in Threads :
          /\ rpc'[m] # None <=> state[m] = "SUSPENDED"
          /\ rpc'[m] # None => (copyArgs[m] <=> rpc'[m].func # "irq")
    BY <2>5 DEF RpcInv
  <2>7. QED
    BY <2>4, <2>6 DEF RpcInv
<1>9. CASE ThreadClrBootThread
  <2>1. Held(BootCore) = 0 /\ BootCore \in Cores /\ 0 \in Threads
    BY <1>9, ConstantsAssumption
    DEF ThreadClrBootThread, Booting, Held, Owned, CoreInv, Threads
  <2>2. state[0] = "ACTIVE"
    BY <2>1, NoneIsFresh DEF Owned, ThreadOwnership
  <2>3. QED
    BY <1>0, <1>9, <2>1, <2>2 DEF RpcInv, ThreadClrBootThread, TypeOK
<1>10. CASE UNCHANGED vars
  BY <1>10 DEF RpcInv, vars, threadVars
<1>11. QED
  BY <1>1, <1>2, <1>3, <1>4, <1>5, <1>6, <1>7, <1>8, <1>9, <1>10
  DEF Next, ThreadStep

(* The flag that lets the normal world set the registers of a thread is    *)
(* set in a SUSPENDED thread exactly when it waits for the reply to an RPC *)
(* other than a foreign interrupt.                                         *)
THEOREM InterruptSafety == Spec => []InterruptKeepsRegisters
<1>1. RpcInv => InterruptKeepsRegisters
  BY DEF RpcInv, InterruptKeepsRegisters
<1>2. QED
  BY <1>1, RpcInit, RpcStep, OwnedAlways, PTL DEF Spec
-----------------------------------------------------------------------------
(***************************************************************************)
(* Answers to RPCs.                                                        *)
(***************************************************************************)

OwnResumesAccepted ==
  \A n \in Threads, g \in Guests, k \in Cookies \cup {None} :
    client[n] = g /\ ResumeArgs(n, g, k) => Resumable(n, g)

(* The guest that made the call can resume the thread once the RPC is      *)
(* served: thread_resume_from_rpc never returns OPTEE_SMC_RETURN_ERESUME   *)
(* to a driver that answers the RPC of its own call, although state and    *)
(* hyp_clnt_id are written under the lock and outside it.                  *)
THEOREM ResumesAccepted == Spec => []OwnResumesAccepted
<1>1. RpcInv /\ GuestInv => OwnResumesAccepted
  BY DEF RpcInv, GuestInv, OwnResumesAccepted, ResumeArgs, Resumable
<1>2. QED
  BY <1>1, GuestInit, GuestStep, RpcInit, RpcStep, OwnedAlways, PTL DEF Spec
-----------------------------------------------------------------------------
(***************************************************************************)
(* The cached buffers.  Where a thread is in its code says whether it has  *)
(* a buffer, and a thread that no core has started is done.                *)
(***************************************************************************)
Unstarted(c) == Held(c) # None /\ (smc[c] = None \/ smc[c].at = "start")

LEMMA ContInit == Init => ContInv /\ CacheInv
<1>1. 0 \in Threads
  BY ConstantsAssumption DEF Threads
<1>2. QED
  BY <1>1, NoneIsFresh, ConstantsAssumption
  DEF Init, ContInv, CacheInv, Held, Conts

(* A step that leaves the code and the buffers of the threads alone.       *)
LEMMA ContFrame ==
  ASSUME ContInv, UNCHANGED <<cont, carg, prealloc>>,
         \A n \in Threads : state'[n] = "FREE" => cont[n] = "done",
         \A d \in Cores : Unstarted(d)' => cont[Held(d)'] = "done"
  PROVE  ContInv'
<1>1. \A d \in Cores : Unstarted(d)' => cont'[Held(d)'] = "done"
  OBVIOUS
<1>2. QED
  BY <1>1 DEF ContInv, Unstarted

(* The running thread n of core c goes on to another place.                *)
LEMMA ContMoves ==
  ASSUME Owned, ContInv, NEW c \in Cores, NEW n \in Threads, Running(c, n),
         Suspends(c, n) \/ StaysRunning, prealloc' = prealloc,
         NEW p \in Conts, cont' = [cont EXCEPT ![n] = p],
         NEW k \in Cookies \cup {None}, carg' = [carg EXCEPT ![n] = k],
         p \in {"alloc", "badarg"} => k = None,
         p \in {"cmd", "waitcmd"} => k # None,
         p = "freearg" => ~prealloc
  PROVE  ContInv'
<1>1. /\ smc[c] \in Smcs /\ smc[c].thread = n /\ state[n] = "ACTIVE"
      /\ \A d \in Cores : d # c => Held(d) # n
  BY RunningThread
<1>2. TypeOK
  BY DEF Owned
<1>3. state'[n] # "FREE" /\ \A m \in Threads : m # n => state'[m] = state[m]
  <2>1. CASE StaysRunning
    BY <1>1, <2>1 DEF StaysRunning
  <2>2. CASE Suspends(c, n)
    BY <1>2, <2>2 DEF Suspends, ThreadStateSuspend, TypeOK
  <2>3. QED
    BY <2>1, <2>2
<1>4. \A m \in Threads :
        /\ state'[m] = "FREE" => cont'[m] = "done"
        /\ cont'[m] \in {"alloc", "badarg"} => carg'[m] = None
        /\ cont'[m] \in {"cmd", "waitcmd"} => carg'[m] # None
        /\ cont'[m] = "freearg" => ~prealloc'
  <2>1. SUFFICES ASSUME NEW m \in Threads
                 PROVE  /\ state'[m] = "FREE" => cont'[m] = "done"
                        /\ cont'[m] \in {"alloc", "badarg"} => carg'[m] = None
                        /\ cont'[m] \in {"cmd", "waitcmd"} => carg'[m] # None
                        /\ cont'[m] = "freearg" => ~prealloc'
    OBVIOUS
  <2>2. CASE m = n
    BY <1>2, <1>3, <2>2 DEF TypeOK
  <2>3. CASE m # n
    <3>1. cont'[m] = cont[m] /\ carg'[m] = carg[m] /\ state'[m] = state[m]
      BY <1>2, <1>3, <2>3 DEF TypeOK
    <3>2. QED
      BY <3>1 DEF ContInv
  <2>4. QED
    BY <2>2, <2>3
<1>5. ASSUME NEW d \in Cores, Unstarted(d)'
      PROVE  cont'[Held(d)'] = "done"
  <2>1. d # c
    <3>1. CASE StaysRunning
      BY <1>1, <1>5, <3>1, NoneIsFresh DEF StaysRunning, Unstarted, Running
    <3>2. CASE Suspends(c, n)
      BY <1>2, <1>5, <3>2
      DEF Suspends, ThreadStateSuspend, TypeOK, Unstarted, Held
    <3>3. QED
      BY <3>1, <3>2
  <2>2. smc'[d] = smc[d] /\ curr'[d] = curr[d]
    <3>1. CASE StaysRunning
      BY <3>1 DEF StaysRunning
    <3>2. CASE Suspends(c, n)
      BY <1>2, <2>1, <3>2 DEF Suspends, ThreadStateSuspend, TypeOK
    <3>3. QED
      BY <3>1, <3>2
  <2>3. Unstarted(d) /\ Held(d)' = Held(d)
    BY <1>5, <2>2 DEF Unstarted, Held
  <2>4. cont[Held(d)] = "done" /\ Held(d) # n
    BY <1>1, <2>1, <2>3 DEF ContInv, Unstarted
  <2>5. QED
    BY <1>2, <2>3, <2>4 DEF TypeOK
<1>6. QED
  BY <1>4, <1>5 DEF ContInv, Unstarted

LEMMA ThreadMoves ==
  ASSUME Owned, ContInv, NEW c \in Cores, NEW n \in Threads, ThreadStep(c, n),
         ~ThreadStateFree(c, n)
  PROVE  ContInv'
<1>0. /\ TypeOK /\ Running(c, n) /\ prealloc' = prealloc
      /\ Suspends(c, n) \/ StaysRunning
  BY ThreadStepEffect DEF Owned
<1>1. /\ carg[n] \in Cookies \cup {None} /\ regs[n] \in Cookies \cup {None}
      /\ carg = [carg EXCEPT ![n] = carg[n]]
      /\ cont[n] \in Conts /\ cont = [cont EXCEPT ![n] = cont[n]]
      /\ None \in Cookies \cup {None}
  BY <1>0 DEF TypeOK
<1>2. CASE ForeignInterrupt(c, n)
  <2>1. cont' = [cont EXCEPT ![n] = cont[n]] /\ carg' = [carg EXCEPT ![n] = carg[n]]
    BY <1>1, <1>2 DEF ForeignInterrupt
  <2>2. /\ cont[n] \in {"alloc", "badarg"} => carg[n] = None
        /\ cont[n] \in {"cmd", "waitcmd"} => carg[n] # None
        /\ cont[n] = "freearg" => ~prealloc
    BY DEF ContInv
  <2>3. QED
    BY <1>0, <1>1, <2>1, <2>2, ContMoves
<1>3. CASE ThreadRpcCmd(c, n)
  <2>1. carg' = [carg EXCEPT ![n] = carg[n]]
    BY <1>1, <1>3 DEF ThreadRpcCmd
  <2>2. \E p \in {"alloc", "waitcmd"} :
          /\ cont' = [cont EXCEPT ![n] = p]
          /\ p = "alloc" <=> carg[n] = None
    BY <1>3 DEF ThreadRpcCmd
  <2>3. QED
    BY <1>0, <1>1, <2>1, <2>2, ContMoves DEF Conts
<1>4. CASE AllocArgReply(c, n)
  <2>1. carg[n] = None
    BY <1>4 DEF AllocArgReply, ContInv
  <2>2. \E p \in {"handler", "cmd", "badarg"}, k \in Cookies \cup {None} :
          /\ cont' = [cont EXCEPT ![n] = p]
          /\ carg' = [carg EXCEPT ![n] = k]
          /\ p = "badarg" => k = None
          /\ p = "cmd" => k # None
    BY <1>1, <1>4, <2>1 DEF AllocArgReply
  <2>3. QED
    BY <1>0, <2>2, ContMoves DEF Conts
<1>5. CASE IssueCmd(c, n)
  <2>1. /\ carg' = [carg EXCEPT ![n] = carg[n]] /\ carg[n] # None
        /\ cont' = [cont EXCEPT ![n] = "waitcmd"]
    BY <1>1, <1>5 DEF IssueCmd, ContInv
  <2>2. QED
    BY <1>0, <1>1, <2>1, ContMoves DEF Conts
<1>6. CASE ThreadRpcCmdReturns(c, n)
  <2>1. /\ carg' = [carg EXCEPT ![n] = carg[n]]
        /\ cont' = [cont EXCEPT ![n] = "handler"]
    BY <1>1, <1>6 DEF ThreadRpcCmdReturns
  <2>2. QED
    BY <1>0, <1>1, <2>1, ContMoves DEF Conts
<1>7. CASE StdSmcReturns(c, n)
  <2>1. carg' = [carg EXCEPT ![n] = carg[n]]
    BY <1>1, <1>7 DEF StdSmcReturns
  <2>2. \E p \in {"freearg", "done"} :
          /\ cont' = [cont EXCEPT ![n] = p]
          /\ p = "freearg" => ~prealloc
    BY <1>7 DEF StdSmcReturns
  <2>3. QED
    BY <1>0, <1>1, <2>1, <2>2, ContMoves DEF Conts
<1>8. CASE FreeArgReply(c, n)
  <2>1. /\ carg' = [carg EXCEPT ![n] = None]
        /\ cont' = [cont EXCEPT ![n] = "done"]
    BY <1>8 DEF FreeArgReply, ClearArg
  <2>2. QED
    BY <1>0, <1>1, <2>1, ContMoves DEF Conts
<1>9. QED
  BY <1>2, <1>3, <1>4, <1>5, <1>6, <1>7, <1>8 DEF ThreadStep

LEMMA ContStep == Owned /\ ContInv /\ [Next]_vars => ContInv'
<1> SUFFICES ASSUME Owned, ContInv, [Next]_vars PROVE ContInv'
  OBVIOUS
<1>0. TypeOK
  BY DEF Owned
<1>a. \A n \in Threads : state[n] = "FREE" => cont[n] = "done"
  BY DEF ContInv
<1>b. \A d \in Cores : Unstarted(d) => cont[Held(d)] = "done"
  BY DEF ContInv, Unstarted
<1>1. ASSUME NEW c \in Cores, NEW g \in Guests, AllocThread(c, g)
      PROVE  ContInv'
  <2>1. UNCHANGED <<cont, carg, prealloc, curr>>
    BY <1>1 DEF AllocThread
  <2>2. CASE UNCHANGED <<state, smc, client>>
    BY <1>a, <1>b, <2>1, <2>2, ContFrame DEF Unstarted, Held
  <2>3. CASE ~UNCHANGED <<state, smc, client>>
    <3>1. PICK n \in Threads, s \in Smcs :
            /\ state[n] = "FREE"
            /\ state' = [state EXCEPT ![n] = "ACTIVE"]
            /\ s.at = "start" /\ s.thread = n
            /\ smc' = [smc EXCEPT ![c] = s]
      BY <1>1, <2>3, TakenThread
    <3>2. \A m \in Threads : state'[m] = "FREE" => cont[m] = "done"
      BY <1>0, <1>a, <3>1 DEF TypeOK
    <3>3. ASSUME NEW d \in Cores, Unstarted(d)'
          PROVE  cont[Held(d)'] = "done"
      <4>1. CASE d = c
        <5>1. Held(d)' = n
          BY <1>0, <3>1, <4>1, NoneIsFresh DEF Held, TypeOK
        <5>2. QED
          BY <1>a, <3>1, <5>1
      <4>2. CASE d # c
        <5>1. Unstarted(d) /\ Held(d)' = Held(d)
          BY <1>0, <2>1, <3>1, <3>3, <4>2 DEF Unstarted, Held, TypeOK
        <5>2. QED
          BY <1>b, <5>1
      <4>3. QED
        BY <4>1, <4>2
    <3>4. QED
      BY <2>1, <3>2, <3>3, ContFrame
  <2>4. QED
    BY <2>2, <2>3
<1>2. ASSUME NEW c \in Cores, NEW k \in Commands, StartThread(c, k)
      PROVE  ContInv'
  <2> DEFINE n == smc[c].thread
  <2>1. PICK s \in Smcs : /\ s.at = "run" /\ s.thread = n
                          /\ smc' = [smc EXCEPT ![c] = s]
    BY <1>2, RunsThread DEF StartThread
  <2>2. n \in Threads /\ state[n] = "ACTIVE"
    BY <1>2, EnteringThread DEF StartThread
  <2>3. Held(c) = n /\ n # None
    BY <1>2, <2>2, NoneIsFresh DEF StartThread, Held
  <2>4. \A d \in Cores : d # c => Held(d) # n
    BY <2>3 DEF Owned, ThreadOwnership
  <2>5. /\ cont' = [cont EXCEPT ![n] = "handler"]
        /\ curr' = [curr EXCEPT ![c] = n]
        /\ UNCHANGED <<state, carg, prealloc>>
    BY <1>2 DEF StartThread
  <2> HIDE DEF n
  <2>6. \A m \in Threads :
          /\ state'[m] = "FREE" => cont'[m] = "done"
          /\ cont'[m] \in {"alloc", "badarg"} => carg'[m] = None
          /\ cont'[m] \in {"cmd", "waitcmd"} => carg'[m] # None
          /\ cont'[m] = "freearg" => ~prealloc'
    BY <1>0, <2>2, <2>5 DEF ContInv, TypeOK
  <2>7. ASSUME NEW d \in Cores, Unstarted(d)'
        PROVE  cont'[Held(d)'] = "done"
    <3>1. d # c
      BY <1>0, <2>1, <2>7, NoneIsFresh DEF Unstarted, TypeOK
    <3>2. Unstarted(d) /\ Held(d)' = Held(d)
      BY <1>0, <2>1, <2>5, <2>7, <3>1 DEF Unstarted, Held, TypeOK
    <3>3. QED
      BY <1>0, <1>b, <2>4, <2>5, <3>1, <3>2 DEF TypeOK
  <2>8. QED
    BY <2>6, <2>7 DEF ContInv, Unstarted
<1>3. ASSUME NEW c \in Cores, NEW n \in 0 .. NumThreads, NEW g \in Guests,
             NEW k \in Cookies \cup {None}, ResumeFromRpc(c, n, g, k)
      PROVE  ContInv'
  <2>1. UNCHANGED <<cont, carg, prealloc, curr>>
    BY <1>3 DEF ResumeFromRpc
  <2>2. CASE UNCHANGED <<state, smc, rpc>>
    BY <1>a, <1>b, <2>1, <2>2, ContFrame DEF Unstarted, Held
  <2>3. CASE ~UNCHANGED <<state, smc, rpc>>
    <3>1. n \in Threads /\ state' = [state EXCEPT ![n] = "ACTIVE"]
      BY <1>3, <2>3, ResumedThread
    <3>2. PICK s \in Smcs : s.at = "resume" /\ smc' = [smc EXCEPT ![c] = s]
      BY <1>3, <2>3, ResumedThread
    <3>3. \A m \in Threads : state'[m] = "FREE" => cont[m] = "done"
      BY <1>0, <1>a, <3>1 DEF TypeOK
    <3>4. ASSUME NEW d \in Cores, Unstarted(d)'
          PROVE  cont[Held(d)'] = "done"
      <4>1. d # c
        BY <1>0, <3>2, <3>4, NoneIsFresh DEF Unstarted, TypeOK
      <4>2. Unstarted(d) /\ Held(d)' = Held(d)
        BY <1>0, <2>1, <3>2, <3>4, <4>1 DEF Unstarted, Held, TypeOK
      <4>3. QED
        BY <1>b, <4>2
    <3>5. QED
      BY <2>1, <3>3, <3>4, ContFrame
  <2>4. QED
    BY <2>2, <2>3
<1>4. ASSUME NEW c \in Cores, ResumeThread(c)
      PROVE  ContInv'
  <2>1. PICK s \in Smcs : s.at = "run" /\ smc' = [smc EXCEPT ![c] = s]
    BY <1>4, RunsThread DEF ResumeThread
  <2>2. /\ UNCHANGED <<cont, carg, prealloc, state>>
        /\ curr' = [curr EXCEPT ![c] = smc[c].thread]
    BY <1>4 DEF ResumeThread
  <2>3. ASSUME NEW d \in Cores, Unstarted(d)'
        PROVE  cont[Held(d)'] = "done"
    <3>1. d # c
      BY <1>0, <2>1, <2>3, NoneIsFresh DEF Unstarted, TypeOK
    <3>2. Unstarted(d) /\ Held(d)' = Held(d)
      BY <1>0, <2>1, <2>2, <2>3, <3>1 DEF Unstarted, Held, TypeOK
    <3>3. QED
      BY <1>b, <3>2
  <2>4. QED
    BY <1>a, <2>2, <2>3, ContFrame
<1>5. ASSUME NEW c \in Cores, ThreadEnablePreallocRpcCache(c)
      PROVE  ContInv'
  <2>1. UNCHANGED <<cont, carg, state, curr, smc>>
    BY <1>5 DEF ThreadEnablePreallocRpcCache, threadVars
  <2>2. AllFree \/ prealloc' = prealloc
    BY <1>5 DEF ThreadEnablePreallocRpcCache, NotBusy
  <2>3. AllFree => \A n \in Threads : cont[n] = "done"
    BY <1>a DEF AllFree, FreeThreads
  <2>4. QED
    BY <2>1, <2>2, <2>3 DEF ContInv, Held
<1>6. ASSUME NEW c \in Cores, ThreadDisablePreallocRpcCache(c)
      PROVE  ContInv'
  <2>1. UNCHANGED <<cont, state, curr>>
    BY <1>6 DEF ThreadDisablePreallocRpcCache
  <2>2. ASSUME NEW d \in Cores, Unstarted(d)'
        PROVE  cont[Held(d)'] = "done"
    <3>1. UNCHANGED smc \/ \E s \in Smcs : s.at = "freed" /\ smc' = [smc EXCEPT ![c] = s]
      BY <1>6, DisableSmc
    <3>2. Unstarted(d) /\ Held(d)' = Held(d)
      BY <1>0, <2>1, <2>2, <3>1, NoneIsFresh DEF Unstarted, Held, TypeOK
    <3>3. QED
      BY <1>b, <3>2
  <2>3. CASE AllFree
    <3>1. \A n \in Threads : cont[n] = "done"
      BY <1>a, <2>3 DEF AllFree, FreeThreads
    <3>2. QED
      BY <2>1, <2>2, <3>1 DEF ContInv, Unstarted
  <2>4. CASE ~AllFree
    <3>1. UNCHANGED <<carg, prealloc>>
      BY <1>6, <2>4 DEF ThreadDisablePreallocRpcCache, NotBusy
    <3>2. QED
      BY <1>a, <2>1, <2>2, <3>1, ContFrame
  <2>5. QED
    BY <2>3, <2>4
<1>7. ASSUME NEW c \in Cores, FreeReturnedShm(c)
      PROVE  ContInv'
  <2>1. /\ UNCHANGED <<cont, carg, prealloc, state, curr>>
        /\ smc' = [smc EXCEPT ![c] = None]
        /\ smc[c] # None /\ smc[c].at = "freed"
    BY <1>7 DEF FreeReturnedShm, threadVars
  <2>2. curr[c] = None
    BY <2>1 DEF Owned, CoreInv
  <2>3. ASSUME NEW d \in Cores, Unstarted(d)'
        PROVE  cont[Held(d)'] = "done"
    <3>1. Unstarted(d) /\ Held(d)' = Held(d)
      BY <1>0, <2>1, <2>2, <2>3 DEF Unstarted, Held, TypeOK
    <3>2. QED
      BY <1>b, <3>1
  <2>4. QED
    BY <1>a, <2>1, <2>3, ContFrame
<1>8. ASSUME NEW c \in Cores, NEW n \in Threads, ThreadStep(c, n)
      PROVE  ContInv'
  <2>1. CASE ThreadStateFree(c, n)
    <3>1. /\ UNCHANGED <<cont, carg, prealloc>> /\ cont[n] = "done"
          /\ state' = [state EXCEPT ![n] = "FREE"]
          /\ curr' = [curr EXCEPT ![c] = None]
          /\ smc' = [smc EXCEPT ![c] = None]
      BY <2>1 DEF ThreadStateFree
    <3>2. \A m \in Threads : state'[m] = "FREE" => cont[m] = "done"
      BY <1>0, <1>a, <3>1 DEF TypeOK
    <3>3. ASSUME NEW d \in Cores, Unstarted(d)'
          PROVE  cont[Held(d)'] = "done"
      <4>1. Unstarted(d) /\ Held(d)' = Held(d)
        BY <1>0, <3>1, <3>3 DEF Unstarted, Held, TypeOK
      <4>2. QED
        BY <1>b, <4>1
    <3>4. QED
      BY <3>1, <3>2, <3>3, ContFrame
  <2>2. CASE ~ThreadStateFree(c, n)
    BY <1>8, <2>2, ThreadMoves
  <2>3. QED
    BY <2>1, <2>2
<1>9. ASSUME NEW n \in Threads, HandleRpc(n)
      PROVE  ContInv'
  <2>1. UNCHANGED <<cont, carg, prealloc, state, curr, smc>>
    BY <1>9 DEF HandleRpc, threadVars
  <2>2. QED
    BY <1>a, <1>b, <2>1, ContFrame DEF Unstarted, Held
<1>10. CASE ThreadClrBootThread
  <2>1. /\ UNCHANGED <<cont, carg, prealloc, smc>>
        /\ state' = [state EXCEPT ![0] = "FREE"]
        /\ curr' = [curr EXCEPT ![BootCore] = None]
        /\ smc[BootCore] = None /\ curr[BootCore] # None /\ BootCore \in Cores
    BY <1>10, ConstantsAssumption DEF ThreadClrBootThread, Booting
  <2>2. curr[BootCore] = 0 /\ Unstarted(BootCore) /\ Held(BootCore) = 0
    BY <2>1 DEF Owned, CoreInv, Unstarted, Held
  <2>3. \A m \in Threads : state'[m] = "FREE" => cont[m] = "done"
    BY <1>0, <1>a, <1>b, <2>1, <2>2 DEF TypeOK
  <2>4. ASSUME NEW d \in Cores, Unstarted(d)'
        PROVE  cont[Held(d)'] = "done"
    <3>1. Unstarted(d) /\ Held(d)' = Held(d)
      BY <1>0, <2>1, <2>4 DEF Unstarted, Held, TypeOK
    <3>2. QED
      BY <1>b, <3>1
  <2>5. QED
    BY <2>1, <2>3, <2>4, ContFrame
<1>11. CASE UNCHANGED vars
  <2>1. UNCHANGED <<cont, carg, prealloc, state, curr, smc>>
    BY <1>11 DEF vars, threadVars
  <2>2. QED
    BY <1>a, <1>b, <2>1, ContFrame DEF Unstarted, Held
<1>12. QED
  BY <1>1, <1>2, <1>3, <1>4, <1>5, <1>6, <1>7, <1>8, <1>9, <1>10, <1>11
  DEF Next, ThreadStep

(* Every command but the Trust.IO ones gives its buffer back at the end.   *)
LEMMA CacheStep ==
  ASSUME Commands \subseteq {"std", "bad"}, Owned, ContInv, CacheInv, [Next]_vars
  PROVE  CacheInv'
<1>0. TypeOK
  BY DEF Owned
<1>1. CASE UNCHANGED <<cont, carg, cmd, prealloc>>
  BY <1>1 DEF CacheInv
<1>2. ASSUME NEW c \in Cores, NEW k \in Commands, StartThread(c, k)
      PROVE  CacheInv'
  <2> DEFINE n == smc[c].thread
  <2>1. n \in Threads
    BY <1>2, EnteringThread DEF StartThread
  <2>2. cont[n] = "done"
    BY <1>2, <2>1, NoneIsFresh DEF ContInv, Held, StartThread
  <2>3. /\ cont' = [cont EXCEPT ![n] = "handler"]
        /\ cmd' = [cmd EXCEPT ![n] = k]
        /\ UNCHANGED <<carg, prealloc>>
    BY <1>2 DEF StartThread
  <2> HIDE DEF n
  <2>4. QED
    BY <1>0, <2>1, <2>2, <2>3 DEF CacheInv, TypeOK
<1>3. ASSUME NEW c \in Cores, ThreadEnablePreallocRpcCache(c)
      PROVE  CacheInv'
  <2>1. UNCHANGED <<cont, carg, cmd>> /\ (prealloc' = TRUE \/ prealloc' = prealloc)
    BY <1>3 DEF ThreadEnablePreallocRpcCache, threadVars
  <2>2. QED
    BY <2>1 DEF CacheInv
<1>4. ASSUME NEW c \in Cores, ThreadDisablePreallocRpcCache(c)
      PROVE  CacheInv'
  <2>1. UNCHANGED <<cont, cmd>>
    BY <1>4 DEF ThreadDisablePreallocRpcCache
  <2>2. CASE ~AllFree
    BY <1>1, <1>4, <2>1, <2>2 DEF ThreadDisablePreallocRpcCache, NotBusy
  <2>3. CASE AllFree
    <3>1. PICK n \in 0 .. NumThreads :
            /\ ScanStopsAt(n, {m \in Threads : carg[m] # None})
            /\ IF n < NumThreads THEN ClearArg(n) /\ UNCHANGED prealloc
               ELSE prealloc' = FALSE /\ UNCHANGED carg
      BY <1>4, <2>3 DEF ThreadDisablePreallocRpcCache, NotBusy
    <3>2. CASE n < NumThreads
      BY <1>0, <2>1, <3>1, <3>2 DEF CacheInv, ClearArg, TypeOK
    <3>3. CASE ~(n < NumThreads)
      <4>1. n \notin Threads
        BY <3>3, ConstantsAssumption DEF Threads
      <4>2. \A m \in Threads : carg'[m] = None
        BY <3>1, <3>3, <4>1 DEF ScanStopsAt
      <4>3. QED
        BY <2>1, <4>2 DEF CacheInv
    <3>4. QED
      BY <3>2, <3>3
  <2>4. QED
    BY <2>2, <2>3
<1>5. ASSUME NEW c \in Cores, NEW n \in Threads, ThreadStep(c, n)
      PROVE  CacheInv'
  <2>0. UNCHANGED <<cmd, prealloc>>
    BY <1>0, <1>5, ThreadStepEffect
  <2>1. CASE ForeignInterrupt(c, n) \/ ThreadStateFree(c, n)
    BY <1>1, <2>1 DEF ForeignInterrupt, ThreadStateFree
  <2>2. ASSUME cont[n] # "done", NEW p \in Conts,
               cont' = [cont EXCEPT ![n] = p],
               NEW k \in Cookies \cup {None}, carg' = [carg EXCEPT ![n] = k],
               cmd[n] = "bad" => p \in {"handler", "done"} /\ k = carg[n],
               p = "done" => \/ cmd[n] = "bad" /\ k = carg[n]
                             \/ prealloc \/ k = None
        PROVE  CacheInv'
    <3>1. SUFFICES ASSUME NEW m \in Threads
                   PROVE  /\ cont'[m] # "done" => cmd[m] \in Commands
                          /\ cmd[m] = "bad" => cont'[m] \in {"handler", "done"}
                          /\ ~prealloc /\ (cont'[m] = "done" \/ cmd[m] = "bad")
                               => carg'[m] = None
      BY <2>0 DEF CacheInv
    <3>2. CASE m = n
      <4>1. cont'[m] = p /\ carg'[m] = k
        BY <1>0, <2>2, <3>2 DEF TypeOK
      <4>2. /\ cmd[n] \in Commands
            /\ ~prealloc /\ cmd[n] = "bad" => carg[n] = None
        BY <2>2 DEF CacheInv
      <4>3. QED
        BY <2>2, <3>2, <4>1, <4>2
    <3>3. CASE m # n
      <4>1. cont'[m] = cont[m] /\ carg'[m] = carg[m]
        BY <1>0, <2>2, <3>3 DEF TypeOK
      <4>2. QED
        BY <4>1 DEF CacheInv
    <3>4. QED
      BY <3>2, <3>3
  <2>3. /\ carg[n] \in Cookies \cup {None} /\ regs[n] \in Cookies \cup {None}
        /\ carg = [carg EXCEPT ![n] = carg[n]] /\ None \in Cookies \cup {None}
        /\ cmd[n] = "bad" => cont[n] \in {"handler", "done"}
    BY <1>0 DEF TypeOK, CacheInv
  <2>4. CASE ThreadRpcCmd(c, n)
    <3>1. /\ cont[n] # "done" /\ cmd[n] # "bad"
          /\ carg' = [carg EXCEPT ![n] = carg[n]]
          /\ \E p \in {"alloc", "waitcmd"} : cont' = [cont EXCEPT ![n] = p]
      BY <2>3, <2>4 DEF ThreadRpcCmd
    <3>2. QED
      BY <2>2, <2>3, <3>1 DEF Conts
  <2>5. CASE AllocArgReply(c, n)
    <3>1. /\ cont[n] # "done" /\ cmd[n] # "bad"
          /\ \E k \in Cookies \cup {None} : carg' = [carg EXCEPT ![n] = k]
          /\ \E p \in {"handler", "cmd", "badarg"} : cont' = [cont EXCEPT ![n] = p]
      BY <2>3, <2>5 DEF AllocArgReply
    <3>2. QED
      BY <2>2, <2>3, <3>1 DEF Conts
  <2>6. CASE IssueCmd(c, n) \/ ThreadRpcCmdReturns(c, n)
    <3>1. /\ cont[n] # "done" /\ cmd[n] # "bad"
          /\ carg' = [carg EXCEPT ![n] = carg[n]]
          /\ \E p \in {"waitcmd", "handler"} : cont' = [cont EXCEPT ![n] = p]
      BY <2>3, <2>6 DEF IssueCmd, ThreadRpcCmdReturns
    <3>2. QED
      BY <2>2, <2>3, <3>1 DEF Conts
  <2>7. CASE StdSmcReturns(c, n)
    <3>1. /\ cont[n] = "handler" /\ carg' = [carg EXCEPT ![n] = carg[n]]
          /\ \/ cont' = [cont EXCEPT ![n] = "freearg"] /\ cmd[n] = "std"
             \/ /\ cont' = [cont EXCEPT ![n] = "done"]
                /\ ~(cmd[n] = "std" /\ ~prealloc)
      BY <2>3, <2>7 DEF StdSmcReturns, ReturnsOK
    <3>2. cmd[n] \in {"std", "bad"}
      BY <3>1 DEF CacheInv
    <3>3. CASE cont' = [cont EXCEPT ![n] = "freearg"] /\ cmd[n] = "std"
      BY <2>2, <2>3, <3>1, <3>3 DEF Conts
    <3>4. CASE /\ cont' = [cont EXCEPT ![n] = "done"]
               /\ ~(cmd[n] = "std" /\ ~prealloc)
      BY <2>2, <2>3, <3>1, <3>2, <3>4 DEF Conts
    <3>5. QED
      BY <3>1, <3>3, <3>4
  <2>8. CASE FreeArgReply(c, n)
    <3>1. /\ cont[n] = "freearg" /\ carg' = [carg EXCEPT ![n] = None]
          /\ cont' = [cont EXCEPT ![n] = "done"]
      BY <2>8 DEF FreeArgReply, ClearArg
    <3>2. QED
      BY <2>2, <2>3, <3>1 DEF Conts
  <2>9. QED
    BY <1>5, <2>1, <2>4, <2>5, <2>6, <2>7, <2>8 DEF ThreadStep
<1>6. QED
  <2>1. ASSUME NEW c \in Cores, NEW g \in Guests, AllocThread(c, g)
        PROVE  CacheInv'
    BY <1>1, <2>1 DEF AllocThread
  <2>2. ASSUME NEW c \in Cores, NEW n \in 0 .. NumThreads, NEW g \in Guests,
               NEW k \in Cookies \cup {None}, ResumeFromRpc(c, n, g, k)
        PROVE  CacheInv'
    BY <1>1, <2>2 DEF ResumeFromRpc
  <2>3. ASSUME NEW c \in Cores, ResumeThread(c) \/ FreeReturnedShm(c)
        PROVE  CacheInv'
    BY <1>1, <2>3 DEF ResumeThread, FreeReturnedShm, threadVars
  <2>4. CASE ThreadClrBootThread \/ UNCHANGED vars \/ \E n \in Threads : HandleRpc(n)
    BY <1>1, <2>4 DEF ThreadClrBootThread, HandleRpc, threadVars, vars
  <2>5. QED
    BY <1>2, <1>3, <1>4, <1>5, <2>1, <2>2, <2>3, <2>4 DEF Next, ThreadStep

(* The inductive invariant of the pool, for all commands but those of      *)
(* Trust.IO, which leave the argument buffer with the thread.              *)
THEOREM PoolInvariant ==
  ASSUME Commands \subseteq {"std", "bad"}
  PROVE  Spec => []IndInv
<1>1. Init => IndInv
  BY TypeInit, OwnershipInit, GuestInit, RpcInit, ContInit DEF IndInv
<1>2. IndInv /\ [Next]_vars => IndInv'
  BY TypeStep, OwnershipStep, GuestStep, RpcStep, ContStep, CacheStep
  DEF IndInv, Owned
<1>3. QED
  BY <1>1, <1>2, PTL DEF Spec

(* While the cache is off, a FREE thread has no argument buffer: that is   *)
(* what optee_disable_shm_cache relies on when the driver goes away        *)
(* (core.c:574).  The Trust.IO commands break it, so they are excluded.    *)
THEOREM NothingCached ==
  ASSUME Commands \subseteq {"std", "bad"}
  PROVE  Spec => []NothingCachedWhenDisabled
<1>1. IndInv => NothingCachedWhenDisabled
  BY DEF IndInv, ContInv, CacheInv, NothingCachedWhenDisabled
<1>2. QED
  BY <1>1, PoolInvariant, PTL
-----------------------------------------------------------------------------
(***************************************************************************)
(* With any commands: what a buffer that stays with a thread although the  *)
(* cache is off tells of the thread.                                       *)
(***************************************************************************)
LeftInv ==
  \A n \in Threads :
    /\ cont[n] # "done" => cmd[n] \in Commands
    /\ ~prealloc /\ cont[n] = "done" /\ carg[n] # None =>
         cmd[n] \in {"trustio", "bad"}

(* Thread n goes on to p, with buffer k.                                   *)
LEMMA LeftMoves ==
  ASSUME TypeOK, LeftInv, NEW n \in Threads, UNCHANGED <<cmd, prealloc>>,
         cont[n] # "done", NEW p \in Conts, cont' = [cont EXCEPT ![n] = p],
         NEW k, carg' = [carg EXCEPT ![n] = k],
         p = "done" => cmd[n] # "std" \/ prealloc \/ k = None
  PROVE  LeftInv'
<1>1. cmd[n] \in Commands
  BY DEF LeftInv
<1>2. p = "done" /\ ~prealloc /\ k # None => cmd[n] \in {"trustio", "bad"}
  BY <1>1, ConstantsAssumption DEF CommandKinds
<1>3. SUFFICES ASSUME NEW m \in Threads
               PROVE  /\ cont'[m] # "done" => cmd[m] \in Commands
                      /\ ~prealloc /\ cont'[m] = "done" /\ carg'[m] # None =>
                           cmd[m] \in {"trustio", "bad"}
  BY DEF LeftInv
<1>4. CASE m = n
  BY <1>1, <1>2, <1>4 DEF TypeOK
<1>5. CASE m # n
  <2>1. cont'[m] = cont[m] /\ carg'[m] = carg[m]
    BY <1>5 DEF TypeOK
  <2>2. QED
    BY <2>1 DEF LeftInv
<1>6. QED
  BY <1>4, <1>5

LEMMA LeftThreadStep ==
  ASSUME TypeOK, LeftInv, NEW c \in Cores, NEW n \in Threads, ThreadStep(c, n)
  PROVE  LeftInv'
<1>1. UNCHANGED <<cmd, prealloc>>
  BY ThreadStepEffect
<1>2. carg = [carg EXCEPT ![n] = carg[n]]
  BY DEF TypeOK
<1>3. CASE ForeignInterrupt(c, n) \/ ThreadStateFree(c, n)
  BY <1>1, <1>3 DEF ForeignInterrupt, ThreadStateFree, LeftInv
<1>4. CASE ThreadRpcCmd(c, n)
  <2>1. /\ cont[n] # "done" /\ carg' = [carg EXCEPT ![n] = carg[n]]
        /\ \E p \in {"alloc", "waitcmd"} : cont' = [cont EXCEPT ![n] = p]
    BY <1>2, <1>4 DEF ThreadRpcCmd
  <2>2. QED
    BY <1>1, <2>1, LeftMoves DEF Conts
<1>5. CASE AllocArgReply(c, n)
  <2>1. /\ cont[n] # "done" /\ \E k : carg' = [carg EXCEPT ![n] = k]
        /\ \E p \in {"handler", "cmd", "badarg"} : cont' = [cont EXCEPT ![n] = p]
    BY <1>2, <1>5 DEF AllocArgReply
  <2>2. QED
    BY <1>1, <2>1, LeftMoves DEF Conts
<1>6. CASE IssueCmd(c, n) \/ ThreadRpcCmdReturns(c, n)
  <2>1. /\ cont[n] # "done" /\ carg' = [carg EXCEPT ![n] = carg[n]]
        /\ \E p \in {"waitcmd", "handler"} : cont' = [cont EXCEPT ![n] = p]
    BY <1>2, <1>6 DEF IssueCmd, ThreadRpcCmdReturns
  <2>2. QED
    BY <1>1, <2>1, LeftMoves DEF Conts
<1>7. CASE StdSmcReturns(c, n)
  <2>1. /\ cont[n] # "done" /\ carg' = [carg EXCEPT ![n] = carg[n]]
        /\ \/ cont' = [cont EXCEPT ![n] = "freearg"]
           \/ /\ cont' = [cont EXCEPT ![n] = "done"]
              /\ cmd[n] # "std" \/ prealloc
    BY <1>2, <1>7 DEF StdSmcReturns, ReturnsOK
  <2>2. QED
    BY <1>1, <2>1, LeftMoves DEF Conts
<1>8. CASE FreeArgReply(c, n)
  <2>1. /\ cont[n] # "done" /\ carg' = [carg EXCEPT ![n] = None]
        /\ cont' = [cont EXCEPT ![n] = "done"]
    BY <1>8 DEF FreeArgReply, ClearArg
  <2>2. QED
    BY <1>1, <2>1, LeftMoves DEF Conts
<1>9. QED
  BY <1>3, <1>4, <1>5, <1>6, <1>7, <1>8 DEF ThreadStep

LEMMA LeftStep == Owned /\ LeftInv /\ [Next]_vars => LeftInv'
<1> SUFFICES ASSUME Owned, LeftInv, [Next]_vars PROVE LeftInv'
  OBVIOUS
<1>0. TypeOK
  BY DEF Owned
<1>1. CASE UNCHANGED <<cont, carg, cmd, prealloc>>
  BY <1>1 DEF LeftInv
<1>2. ASSUME NEW c \in Cores, NEW k \in Commands, StartThread(c, k)
      PROVE  LeftInv'
  <2>1. PICK n \in Threads : /\ cont' = [cont EXCEPT ![n] = "handler"]
                             /\ cmd' = [cmd EXCEPT ![n] = k]
                             /\ UNCHANGED <<carg, prealloc>>
    BY <1>2, EnteringThread DEF StartThread
  <2>2. QED
    BY <1>0, <2>1 DEF LeftInv, TypeOK
<1>3. ASSUME NEW c \in Cores, ThreadEnablePreallocRpcCache(c)
      PROVE  LeftInv'
  <2>1. UNCHANGED <<cont, carg, cmd>> /\ (prealloc' = TRUE \/ prealloc' = prealloc)
    BY <1>3 DEF ThreadEnablePreallocRpcCache, threadVars
  <2>2. QED
    BY <2>1 DEF LeftInv
<1>4. ASSUME NEW c \in Cores, ThreadDisablePreallocRpcCache(c)
      PROVE  LeftInv'
  <2>1. UNCHANGED <<cont, cmd>>
    BY <1>4 DEF ThreadDisablePreallocRpcCache
  <2>2. CASE ~AllFree
    BY <1>1, <1>4, <2>1, <2>2 DEF ThreadDisablePreallocRpcCache, NotBusy
  <2>3. CASE AllFree
    <3>1. PICK n \in 0 .. NumThreads :
            /\ ScanStopsAt(n, {m \in Threads : carg[m] # None})
            /\ IF n < NumThreads THEN ClearArg(n) /\ UNCHANGED prealloc
               ELSE prealloc' = FALSE /\ UNCHANGED carg
      BY <1>4, <2>3 DEF ThreadDisablePreallocRpcCache, NotBusy
    <3>2. CASE n < NumThreads
      BY <1>0, <2>1, <3>1, <3>2 DEF LeftInv, ClearArg, TypeOK
    <3>3. CASE ~(n < NumThreads)
      <4>1. n \notin Threads
        BY <3>3, ConstantsAssumption DEF Threads
      <4>2. \A m \in Threads : carg'[m] = None
        BY <3>1, <3>3, <4>1 DEF ScanStopsAt
      <4>3. QED
        BY <2>1, <4>2 DEF LeftInv
    <3>4. QED
      BY <3>2, <3>3
  <2>4. QED
    BY <2>2, <2>3
<1>5. ASSUME NEW c \in Cores, NEW n \in Threads, ThreadStep(c, n)
      PROVE  LeftInv'
  BY <1>0, <1>5, LeftThreadStep
<1>6. ASSUME NEW c \in Cores, NEW g \in Guests, AllocThread(c, g)
      PROVE  LeftInv'
  BY <1>1, <1>6 DEF AllocThread
<1>7. ASSUME NEW c \in Cores, NEW n \in 0 .. NumThreads, NEW g \in Guests,
             NEW k \in Cookies \cup {None}, ResumeFromRpc(c, n, g, k)
      PROVE  LeftInv'
  BY <1>1, <1>7 DEF ResumeFromRpc
<1>8. ASSUME NEW c \in Cores, ResumeThread(c) \/ FreeReturnedShm(c)
      PROVE  LeftInv'
  BY <1>1, <1>8 DEF ResumeThread, FreeReturnedShm, threadVars
<1>9. CASE ThreadClrBootThread \/ UNCHANGED vars \/ \E n \in Threads : HandleRpc(n)
  BY <1>1, <1>9 DEF ThreadClrBootThread, HandleRpc, threadVars, vars
<1>10. QED
  BY <1>2, <1>3, <1>4, <1>5, <1>6, <1>7, <1>8, <1>9 DEF Next, ThreadStep

StandardCommandsClean ==
  ~prealloc => \A n \in Threads : state[n] = "FREE" /\ carg[n] # None =>
                                    cmd[n] \in {"trustio", "bad"}

(* While the cache is off a standard command gives its buffer back, also   *)
(* one that an earlier command left with its thread: what stays is due to  *)
(* the commands that do not return OPTEE_SMC_RETURN_OK, which is the       *)
(* finding of threads_trustio and all there is to it                       *)
(* (__thread_std_smc_entry).                                               *)
THEOREM StandardCommandsGiveBack == Spec => []StandardCommandsClean
<1>1. Init => LeftInv /\ ContInv
  BY ContInit DEF Init, LeftInv
<1>2. ContInv /\ LeftInv => StandardCommandsClean
  BY DEF ContInv, LeftInv, StandardCommandsClean
<1>3. QED
  BY <1>1, <1>2, LeftStep, ContStep, OwnedAlways, PTL DEF Spec
-----------------------------------------------------------------------------
(***************************************************************************)
(* The shared buffers.  What each thread holds and what each core has to   *)
(* free are disjoint, and together they are the live buffers.  Every step  *)
(* leaves all these shares alone, moves one buffer from one to another, or *)
(* adds or removes one buffer of one share and of the live ones.           *)
(***************************************************************************)
Settled == Owned /\ GuestInv /\ RpcInv /\ ContInv

Back(c) == IF smc[c] # None /\ smc[c].at = "freed" THEN {smc[c].cookie} ELSE {}

Shared ==
  /\ \A x : x \in live <=> \/ \E n \in Threads : x \in Holds(n)
                         \/ \E c \in Cores : x \in Back(c)
  /\ \A m, n \in Threads : m # n => Holds(m) \cap Holds(n) = {}
  /\ \A n \in Threads, c \in Cores : Holds(n) \cap Back(c) = {}
  /\ \A c, d \in Cores : c # d => Back(c) \cap Back(d) = {}

(* What a suspended thread waits for.                                      *)
RpcKinds ==
  \A n \in Threads : rpc[n] # None =>
    /\ rpc[n].func = "alloc" =>
         cont[n] = "alloc" /\ (~rpc[n].served => rpc[n].cookie = None)
    /\ rpc[n].func = "free" => cont[n] \in {"badarg", "freearg"}
    /\ rpc[n].func = "cmd" => cont[n] = "waitcmd"

(* The cookies of the SMCs that entered thread n.                          *)
Entering(n) == {smc[c].cookie : c \in {d \in Cores : Held(d) = n}}

SameThread(m) ==
  /\ cont'[m] = cont[m] /\ carg'[m] = carg[m] /\ regs'[m] = regs[m]
  /\ rpc'[m] = rpc[m] /\ copyArgs'[m] = copyArgs[m]

LEMMA HoldsFrame ==
  ASSUME NEW m \in Threads, SameThread(m), Entering(m)' = Entering(m)
  PROVE  Holds(m)' = Holds(m)
BY DEF SameThread, Entering, Holds, OnItsWay, Returning, Cached

(* Core c does something with thread n; m is another thread.               *)
LEMMA OtherHolds ==
  ASSUME NEW c \in Cores, NEW n, Held(c) \in {n, None}, Held(c)' \in {n, None},
         \A d \in Cores : d # c => smc'[d] = smc[d] /\ curr'[d] = curr[d],
         NEW m \in Threads, m # n, SameThread(m)
  PROVE  Holds(m)' = Holds(m)
<1>1. m # None
  BY NoneIsFresh
<1>2. \A d \in Cores : /\ Held(d)' = m <=> Held(d) = m
                       /\ Held(d) = m => smc'[d].cookie = smc[d].cookie
  BY <1>1 DEF Held
<1>3. Entering(m)' = Entering(m)
  BY <1>2 DEF Entering
<1>4. QED
  BY <1>3, HoldsFrame

LEMMA BackFrame ==
  ASSUME NEW d \in Cores, smc'[d] = smc[d]
  PROVE  Back(d)' = Back(d)
BY DEF Back

LEMMA SharesStay ==
  ASSUME Shared, live' = live, \A n \in Threads : Holds(n)' = Holds(n),
         \A c \in Cores : Back(c)' = Back(c)
  PROVE  Shared'
<1>1. \A x : x \in live' <=> \/ \E n \in Threads : x \in Holds(n)'
                            \/ \E c \in Cores : x \in Back(c)'
  BY DEF Shared
<1>2. \A m, n \in Threads : m # n => Holds(m)' \cap Holds(n)' = {}
  BY DEF Shared
<1>3. \A n \in Threads, c \in Cores : Holds(n)' \cap Back(c)' = {}
  BY DEF Shared
<1>4. \A c, d \in Cores : c # d => Back(c)' \cap Back(d)' = {}
  BY DEF Shared
<1>5. QED
  BY <1>1, <1>2, <1>3, <1>4 DEF Shared

(* Thread n gets the new buffers B, none or one.                           *)
LEMMA ShareGrows ==
  ASSUME Shared, NEW n \in Threads, NEW B, B \cap live = {}, live' = live \cup B,
         Holds(n)' = Holds(n) \cup B,
         \A m \in Threads : m # n => Holds(m)' = Holds(m),
         \A c \in Cores : Back(c)' = Back(c)
  PROVE  Shared'
<1>1. \A x : x \in live' <=> \/ \E m \in Threads : x \in Holds(m)'
                            \/ \E c \in Cores : x \in Back(c)'
  BY DEF Shared
<1>2. \A m \in Threads : Holds(m) \subseteq live
  BY DEF Shared
<1>3. \A c \in Cores : Back(c) \subseteq live
  BY DEF Shared
<1>4. ASSUME NEW m \in Threads, NEW k \in Threads, m # k
      PROVE  Holds(m)' \cap Holds(k)' = {}
  <2>1. Holds(m) \cap Holds(k) = {}
    BY <1>4 DEF Shared
  <2>2. CASE m = n
    BY <1>2, <1>4, <2>1, <2>2
  <2>3. CASE k = n
    BY <1>2, <1>4, <2>1, <2>3
  <2>4. CASE m # n /\ k # n
    BY <2>1, <2>4
  <2>5. QED
    BY <2>2, <2>3, <2>4
<1>5. ASSUME NEW m \in Threads, NEW c \in Cores
      PROVE  Holds(m)' \cap Back(c)' = {}
  <2>1. Holds(m) \cap Back(c) = {}
    BY DEF Shared
  <2>2. QED
    BY <1>3, <2>1
<1>6. \A c, d \in Cores : c # d => Back(c)' \cap Back(d)' = {}
  BY DEF Shared
<1>7. QED
  BY <1>1, <1>4, <1>5, <1>6 DEF Shared

(* Thread n gives up the buffers it holds, which are freed or handed to    *)
(* core c.                                                                 *)
LEMMA ShareFreed ==
  ASSUME Shared, NEW n \in Threads, live' = live \ Holds(n), Holds(n)' = {},
         \A m \in Threads : m # n => Holds(m)' = Holds(m),
         \A c \in Cores : Back(c)' = Back(c)
  PROVE  Shared'
<1>1. \A m \in Threads : m # n => Holds(m) \cap Holds(n) = {}
  BY DEF Shared
<1>2. \A c \in Cores : Holds(n) \cap Back(c) = {}
  BY DEF Shared
<1>3. ASSUME NEW x
      PROVE  x \in live' <=> \/ \E m \in Threads : x \in Holds(m)'
                            \/ \E c \in Cores : x \in Back(c)'
  <2>1. x \in live <=> \/ \E m \in Threads : x \in Holds(m)
                      \/ \E c \in Cores : x \in Back(c)
    BY DEF Shared
  <2>2. CASE x \in Holds(n)
    <3>1. x \notin live' /\ x \notin Holds(n)'
      BY <2>2
    <3>2. \A m \in Threads : x \notin Holds(m)'
      BY <1>1, <2>2, <3>1
    <3>3. \A c \in Cores : x \notin Back(c)'
      BY <1>2, <2>2
    <3>4. QED
      BY <3>1, <3>2, <3>3
  <2>3. CASE x \notin Holds(n)
    BY <2>1, <2>3
  <2>4. QED
    BY <2>2, <2>3
<1>4. ASSUME NEW m \in Threads, NEW k \in Threads, m # k
      PROVE  Holds(m)' \cap Holds(k)' = {}
  <2>1. Holds(m) \cap Holds(k) = {}
    BY <1>4 DEF Shared
  <2>2. Holds(m)' \subseteq Holds(m) /\ Holds(k)' \subseteq Holds(k)
    OBVIOUS
  <2>3. QED
    BY <2>1, <2>2
<1>5. ASSUME NEW m \in Threads, NEW c \in Cores
      PROVE  Holds(m)' \cap Back(c)' = {}
  <2>1. Holds(m) \cap Back(c) = {} /\ Holds(m)' \subseteq Holds(m)
    BY DEF Shared
  <2>2. QED
    BY <2>1
<1>6. \A c, d \in Cores : c # d => Back(c)' \cap Back(d)' = {}
  BY DEF Shared
<1>7. QED
  BY <1>3, <1>4, <1>5, <1>6 DEF Shared

LEMMA ShareHanded ==
  ASSUME Shared, NEW n \in Threads, NEW c \in Cores, live' = live, Holds(n)' = {},
         \A m \in Threads : m # n => Holds(m)' = Holds(m),
         Back(c) = {}, Back(c)' = Holds(n),
         \A d \in Cores : d # c => Back(d)' = Back(d)
  PROVE  Shared'
<1>1. ASSUME NEW x
      PROVE  x \in live' <=> \/ \E m \in Threads : x \in Holds(m)'
                            \/ \E d \in Cores : x \in Back(d)'
  <2>1. x \in live <=> \/ \E m \in Threads : x \in Holds(m)
                      \/ \E d \in Cores : x \in Back(d)
    BY DEF Shared
  <2>2. CASE x \in Holds(n)
    BY <2>1, <2>2
  <2>3. CASE x \notin Holds(n)
    BY <2>1, <2>3
  <2>4. QED
    BY <2>2, <2>3
<1>2. ASSUME NEW m \in Threads, NEW k \in Threads, m # k
      PROVE  Holds(m)' \cap Holds(k)' = {}
  <2>1. Holds(m) \cap Holds(k) = {}
    BY <1>2 DEF Shared
  <2>2. Holds(m)' \subseteq Holds(m) /\ Holds(k)' \subseteq Holds(k)
    OBVIOUS
  <2>3. QED
    BY <2>1, <2>2
<1>3. ASSUME NEW m \in Threads, NEW d \in Cores
      PROVE  Holds(m)' \cap Back(d)' = {}
  <2>1. Holds(m) \cap Back(d) = {}
    BY DEF Shared
  <2>2. m # n => Holds(m) \cap Holds(n) = {}
    BY DEF Shared
  <2>3. QED
    BY <2>1, <2>2
<1>4. ASSUME NEW d \in Cores, NEW e \in Cores, d # e
      PROVE  Back(d)' \cap Back(e)' = {}
  <2>1. Back(d) \cap Back(e) = {} /\ Holds(n) \cap Back(d) = {}
        /\ Holds(n) \cap Back(e) = {}
    BY <1>4 DEF Shared
  <2>2. QED
    BY <1>4, <2>1
<1>5. QED
  BY <1>1, <1>2, <1>3, <1>4 DEF Shared

(* Core c frees the buffer that was handed to it.                          *)
LEMMA BackFreed ==
  ASSUME Shared, NEW c \in Cores, live' = live \ Back(c), Back(c)' = {},
         \A n \in Threads : Holds(n)' = Holds(n),
         \A d \in Cores : d # c => Back(d)' = Back(d)
  PROVE  Shared'
<1>1. \A d \in Cores : d # c => Back(d) \cap Back(c) = {}
  BY DEF Shared
<1>2. \A n \in Threads : Holds(n) \cap Back(c) = {}
  BY DEF Shared
<1>3. ASSUME NEW x
      PROVE  x \in live' <=> \/ \E n \in Threads : x \in Holds(n)'
                            \/ \E d \in Cores : x \in Back(d)'
  <2>1. x \in live <=> \/ \E n \in Threads : x \in Holds(n)
                      \/ \E d \in Cores : x \in Back(d)
    BY DEF Shared
  <2>2. CASE x \in Back(c)
    <3>1. x \notin live' /\ x \notin Back(c)'
      BY <2>2
    <3>2. \A d \in Cores : x \notin Back(d)'
      BY <1>1, <2>2, <3>1
    <3>3. \A n \in Threads : x \notin Holds(n)'
      BY <1>2, <2>2
    <3>4. QED
      BY <3>1, <3>2, <3>3
  <2>3. CASE x \notin Back(c)
    BY <2>1, <2>3
  <2>4. QED
    BY <2>2, <2>3
<1>4. \A m, n \in Threads : m # n => Holds(m)' \cap Holds(n)' = {}
  BY DEF Shared
<1>5. ASSUME NEW n \in Threads, NEW d \in Cores
      PROVE  Holds(n)' \cap Back(d)' = {}
  <2>1. Holds(n) \cap Back(d) = {} /\ Back(d)' \subseteq Back(d)
    BY DEF Shared
  <2>2. QED
    BY <2>1
<1>6. ASSUME NEW d \in Cores, NEW e \in Cores, d # e
      PROVE  Back(d)' \cap Back(e)' = {}
  <2>1. /\ Back(d) \cap Back(e) = {}
        /\ Back(d)' \subseteq Back(d) /\ Back(e)' \subseteq Back(e)
    BY <1>6 DEF Shared
  <2>2. QED
    BY <2>1
<1>7. QED
  BY <1>3, <1>4, <1>5, <1>6 DEF Shared

(* A step of core c and thread n that moves no buffer.                     *)
LEMMA QuietStep ==
  ASSUME Shared, live' = live, NEW c \in Cores, NEW n,
         Held(c) \in {n, None}, Held(c)' \in {n, None}, Back(c)' = Back(c),
         \A d \in Cores : d # c => smc'[d] = smc[d] /\ curr'[d] = curr[d],
         \A m \in Threads : m # n => SameThread(m),
         n \in Threads => Holds(n)' = Holds(n)
  PROVE  Shared'
<1>1. \A m \in Threads : Holds(m)' = Holds(m)
  BY OtherHolds
<1>2. \A d \in Cores : Back(d)' = Back(d)
  BY BackFrame
<1>3. QED
  BY <1>1, <1>2, SharesStay

LEMMA NotEntering ==
  ASSUME NEW m \in Threads, SameThread(m), cont[m] # "alloc"
  PROVE  Holds(m)' = Holds(m)
BY DEF SameThread, Holds, OnItsWay, Returning, Cached

LEMMA IdleCore ==
  ASSUME Owned, NEW c \in Cores, InNormalWorld(c)
  PROVE  smc[c] = None /\ curr[c] = None /\ Held(c) = None /\ Back(c) = {}
<1>1. smc[c] = None /\ curr[c] = None
  BY DEF InNormalWorld, Booting, Owned, CoreInv
<1>2. QED
  BY <1>1 DEF Held, Back

LEMMA AllocShares ==
  ASSUME Settled, Shared, NEW c \in Cores, NEW g \in Guests, AllocThread(c, g)
  PROVE  Shared'
<1>0. TypeOK /\ Owned /\ ContInv
  BY DEF Settled, Owned
<1>1. Held(c) = None /\ Back(c) = {} /\ curr[c] = None /\ smc[c] = None
  BY <1>0, IdleCore DEF AllocThread
<1>2. /\ live' = live /\ curr' = curr
      /\ \A m \in Threads : SameThread(m)
  BY DEF AllocThread, SameThread
<1>3. CASE UNCHANGED <<state, smc, client>>
  <2>1. Held(c)' = None /\ Back(c)' = {}
    BY <1>1, <1>2, <1>3 DEF Held, Back
  <2>2. QED
    BY <1>1, <1>2, <1>3, <2>1, NoneIsFresh, QuietStep
<1>4. CASE ~UNCHANGED <<state, smc, client>>
  <2>1. PICK n \in Threads, s \in Smcs :
          state[n] = "FREE" /\ s.at = "start" /\ s.thread = n
          /\ smc' = [smc EXCEPT ![c] = s]
    BY <1>0, <1>4, TakenThread
  <2>2. smc'[c] = s /\ \A d \in Cores : d # c => smc'[d] = smc[d]
    BY <1>0, <2>1 DEF TypeOK
  <2>3. Held(c)' = n /\ Back(c)' = {}
    BY <2>1, <2>2, NoneIsFresh DEF Held, Back
  <2>4. cont[n] = "done"
    BY <1>0, <2>1 DEF ContInv
  <2>5. Holds(n)' = Holds(n)
    BY <1>2, <2>4, NotEntering
  <2>6. QED
    BY <1>1, <1>2, <2>2, <2>3, <2>5, QuietStep
<1>5. QED
  BY <1>3, <1>4

LEMMA StartShares ==
  ASSUME Settled, Shared, NEW c \in Cores, NEW k \in Commands, StartThread(c, k)
  PROVE  Shared'
<1>0. TypeOK /\ Owned /\ ContInv
  BY DEF Settled, Owned
<1>1. PICK n \in Threads : n = smc[c].thread
  BY <1>0, EnteringThread DEF StartThread
<1>2. PICK s \in Smcs : s.at = "run" /\ s.thread = n /\ smc' = [smc EXCEPT ![c] = s]
  BY <1>0, <1>1, RunsThread DEF StartThread
<1>3. smc[c] # None /\ smc[c].at = "start" /\ Held(c) = n /\ Back(c) = {}
  BY <1>1 DEF StartThread, Held, Back
<1>4. cont[n] = "done"
  BY <1>0, <1>1, <1>3, NoneIsFresh DEF ContInv
<1>5. /\ cont' = [cont EXCEPT ![n] = "handler"]
      /\ regs' = [regs EXCEPT ![n] = None]
      /\ copyArgs' = [copyArgs EXCEPT ![n] = FALSE]
      /\ curr' = [curr EXCEPT ![c] = n]
      /\ UNCHANGED <<carg, rpc, live>>
  BY <1>1 DEF StartThread
<1>6. smc'[c] = s /\ \A d \in Cores : d # c => smc'[d] = smc[d] /\ curr'[d] = curr[d]
  BY <1>0, <1>2, <1>5 DEF TypeOK
<1>7. Held(c)' = n /\ Back(c)' = {}
  BY <1>2, <1>6, NoneIsFresh DEF Held, Back
<1>8. \A m \in Threads : m # n => SameThread(m)
  BY <1>0, <1>1, <1>5 DEF SameThread, TypeOK
<1>9. Holds(n)' = Holds(n)
  <2>1. cont'[n] = "handler" /\ carg'[n] = carg[n] /\ rpc'[n] = rpc[n]
    BY <1>0, <1>1, <1>5 DEF TypeOK
  <2>2. QED
    BY <1>4, <2>1 DEF Holds, OnItsWay, Returning, Cached
<1>10. QED
  BY <1>3, <1>5, <1>6, <1>7, <1>8, <1>9, QuietStep

LEMMA ResumeFromShares ==
  ASSUME Settled, RpcKinds, Shared, NEW c \in Cores, NEW n \in 0 .. NumThreads,
         NEW g \in Guests, NEW k \in Cookies \cup {None}, ResumeFromRpc(c, n, g, k)
  PROVE  Shared'
<1>0. TypeOK /\ Owned /\ ContInv /\ RpcInv /\ GuestInv
  BY DEF Settled, Owned
<1>1. Held(c) = None /\ Back(c) = {} /\ curr[c] = None /\ smc[c] = None
  BY <1>0, IdleCore DEF ResumeFromRpc
<1>2. UNCHANGED <<live, curr, cont, carg, regs, copyArgs>>
  BY DEF ResumeFromRpc
<1>3. CASE ~Resumable(n, g)
  <2>1. UNCHANGED <<smc, rpc>>
    BY <1>3 DEF ResumeFromRpc
  <2>2. Held(c)' = None /\ Back(c)' = {}
    BY <1>1, <1>2, <2>1 DEF Held, Back
  <2>3. \A m \in Threads : SameThread(m)
    BY <1>2, <2>1 DEF SameThread
  <2>4. QED
    BY <1>1, <1>2, <2>1, <2>2, <2>3, NoneIsFresh, QuietStep
<1>4. CASE Resumable(n, g)
  <2>1. n \in Threads /\ state[n] = "SUSPENDED" /\ client[n] = g
    BY <1>0, <1>4 DEF Resumable, GuestInv
  <2>2. /\ rpc[n] # None /\ rpc[n].served
        /\ rpc[n].func = "alloc" => k = rpc[n].cookie
        /\ copyArgs[n] <=> rpc[n].func # "irq"
    BY <1>0, <2>1 DEF ResumeFromRpc, ResumeArgs, RpcInv
  <2> DEFINE s == [at |-> "resume", thread |-> n, guest |-> g, cookie |-> k]
  <2>3. /\ s # None /\ s.at = "resume" /\ s.thread = n /\ s.cookie = k
        /\ smc' = [smc EXCEPT ![c] = s] /\ rpc' = [rpc EXCEPT ![n] = None]
    <3>1. s \in Smcs
      BY <2>1 DEF Smcs
    <3>2. QED
      BY <1>4, <3>1, NoneIsFresh DEF ResumeFromRpc
  <2> HIDE DEF s
  <2>4. smc'[c] = s /\ \A d \in Cores : d # c => smc'[d] = smc[d]
    BY <1>0, <2>3 DEF TypeOK
  <2>5. Held(c)' = n /\ Back(c)' = {}
    BY <2>3, <2>4, NoneIsFresh DEF Held, Back
  <2>6. rpc'[n] = None /\ \A m \in Threads : m # n => SameThread(m)
    BY <1>0, <1>2, <2>1, <2>3 DEF SameThread, TypeOK
  <2>7. Entering(n)' = {k}
    <3>1. \A d \in Cores : Held(d) # n
      BY <1>0, <2>1, NoneIsFresh DEF Owned, ThreadOwnership
    <3>2. \A d \in Cores : d # c => Held(d)' # n
      BY <1>2, <2>4, <3>1 DEF Held
    <3>3. {d \in Cores : Held(d)' = n} = {c}
      BY <2>5, <3>2
    <3>4. Entering(n)' = {smc'[d].cookie : d \in {c}}
      BY <3>3 DEF Entering
    <3>5. QED
      BY <2>3, <2>4, <3>4
  <2>8. Returning(n) = {} /\ Returning(n)' = {}
    BY <2>2, <2>6 DEF Returning
  <2>9. Cached(n)' = Cached(n)
    BY <1>2 DEF Cached
  <2>10. OnItsWay(n)' = OnItsWay(n)
    <3>1. CASE cont[n] # "alloc"
      BY <1>2, <3>1 DEF OnItsWay
    <3>2. CASE cont[n] = "alloc"
      <4>1. rpc[n].func \in {"alloc", "irq"}
        <5>1. rpc[n].func \in {"irq", "alloc", "cmd", "free"}
          BY <1>0, <2>1, <2>2 DEF TypeOK, Rpcs
        <5>2. QED
          BY <2>1, <2>2, <3>2, <5>1 DEF RpcKinds
      <4>2. OnItsWay(n)' = IF copyArgs[n] THEN Entering(n)' \ {None}
                           ELSE {regs[n]} \ {None}
        BY <1>2, <2>6, <3>2 DEF OnItsWay, Entering
      <4>3. CASE rpc[n].func = "alloc"
        <5>1. OnItsWay(n) = {rpc[n].cookie} \ {None}
          BY <2>2, <3>2, <4>3 DEF OnItsWay
        <5>2. OnItsWay(n)' = {k} \ {None}
          BY <2>2, <2>7, <4>2, <4>3
        <5>3. QED
          BY <2>2, <4>3, <5>1, <5>2
      <4>4. CASE rpc[n].func = "irq"
        <5>1. OnItsWay(n) = {regs[n]} \ {None}
          BY <2>2, <3>2, <4>4 DEF OnItsWay
        <5>2. QED
          BY <2>2, <4>2, <4>4, <5>1
      <4>5. QED
        BY <4>1, <4>3, <4>4
    <3>3. QED
      BY <3>1, <3>2
  <2>11. Holds(n)' = Holds(n)
    BY <2>8, <2>9, <2>10 DEF Holds
  <2>12. QED
    BY <1>1, <1>2, <2>4, <2>5, <2>6, <2>11, QuietStep
<1>5. QED
  BY <1>3, <1>4

LEMMA ResumeShares ==
  ASSUME Settled, Shared, NEW c \in Cores, ResumeThread(c)
  PROVE  Shared'
<1>0. TypeOK /\ Owned /\ RpcInv
  BY DEF Settled, Owned
<1>1. PICK n \in Threads : n = smc[c].thread /\ state[n] = "ACTIVE"
  BY <1>0, EnteringThread DEF ResumeThread
<1>2. PICK s \in Smcs : s.at = "run" /\ s.thread = n /\ smc' = [smc EXCEPT ![c] = s]
  BY <1>0, <1>1, RunsThread DEF ResumeThread
<1>3. smc[c] # None /\ smc[c].at = "resume" /\ Held(c) = n /\ Back(c) = {}
  BY <1>1 DEF ResumeThread, Held, Back
<1>4. /\ UNCHANGED <<carg, rpc, live, cont>>
      /\ curr' = [curr EXCEPT ![c] = n]
      /\ \/ /\ copyArgs[n]
            /\ regs' = [regs EXCEPT ![n] = smc[c].cookie]
            /\ copyArgs' = [copyArgs EXCEPT ![n] = FALSE]
         \/ ~copyArgs[n] /\ UNCHANGED <<regs, copyArgs>>
  BY <1>1 DEF ResumeThread, CopyArgs
<1>5. smc'[c] = s /\ \A d \in Cores : d # c => smc'[d] = smc[d] /\ curr'[d] = curr[d]
  BY <1>0, <1>2, <1>4 DEF TypeOK
<1>6. Held(c)' = n /\ Back(c)' = {}
  BY <1>2, <1>5, NoneIsFresh DEF Held, Back
<1>7. \A m \in Threads : m # n => SameThread(m)
  BY <1>0, <1>1, <1>4 DEF SameThread, TypeOK
<1>8. Holds(n)' = Holds(n)
  <2>1. rpc[n] = None /\ rpc'[n] = None
    BY <1>0, <1>1, <1>4 DEF RpcInv
  <2>2. Returning(n) = {} /\ Returning(n)' = {} /\ Cached(n)' = Cached(n)
    BY <1>4, <2>1 DEF Returning, Cached
  <2>3. Entering(n) = {smc[c].cookie}
    <3>1. {d \in Cores : Held(d) = n} = {c}
      BY <1>0, <1>1, <1>3, NoneIsFresh DEF Owned, ThreadOwnership
    <3>2. Entering(n) = {smc[d].cookie : d \in {c}}
      BY <3>1 DEF Entering
    <3>3. QED
      BY <3>2
  <2>4. OnItsWay(n)' = OnItsWay(n)
    <3>1. CASE copyArgs[n]
      <4>1. copyArgs'[n] = FALSE /\ regs'[n] = smc[c].cookie
        BY <1>0, <1>1, <1>4, <3>1 DEF TypeOK
      <4>2. OnItsWay(n) = IF cont[n] # "alloc" THEN {} ELSE Entering(n) \ {None}
        BY <2>1, <3>1 DEF OnItsWay, Entering
      <4>3. OnItsWay(n)' = IF cont[n] # "alloc" THEN {} ELSE {regs'[n]} \ {None}
        BY <1>4, <2>1, <4>1 DEF OnItsWay
      <4>4. QED
        BY <2>3, <4>1, <4>2, <4>3
    <3>2. CASE ~copyArgs[n]
      BY <1>4, <2>1, <3>2 DEF OnItsWay
    <3>3. QED
      BY <3>1, <3>2
  <2>5. QED
    BY <2>2, <2>4 DEF Holds
<1>9. QED
  BY <1>3, <1>4, <1>5, <1>6, <1>7, <1>8, QuietStep

LEMMA EnableShares ==
  ASSUME Shared, NEW c \in Cores, ThreadEnablePreallocRpcCache(c)
  PROVE  Shared'
<1>1. UNCHANGED <<threadVars, curr, smc, live, rpc>>
  BY DEF ThreadEnablePreallocRpcCache
<1>2. \A m \in Threads : SameThread(m) /\ Entering(m)' = Entering(m)
  BY <1>1 DEF SameThread, Entering, Held, threadVars
<1>3. \A m \in Threads : Holds(m)' = Holds(m)
  BY <1>2, HoldsFrame
<1>4. \A d \in Cores : Back(d)' = Back(d)
  BY <1>1 DEF Back
<1>5. QED
  BY <1>1, <1>3, <1>4, SharesStay

LEMMA DisableShares ==
  ASSUME Settled, Shared, NEW c \in Cores, ThreadDisablePreallocRpcCache(c)
  PROVE  Shared'
<1>0. TypeOK /\ Owned /\ ContInv /\ RpcInv
  BY DEF Settled, Owned
<1>1. Held(c) = None /\ Back(c) = {} /\ curr[c] = None /\ smc[c] = None
  BY <1>0, IdleCore DEF ThreadDisablePreallocRpcCache
<1>2. UNCHANGED <<live, curr, cont, rpc, regs, copyArgs, state>>
  BY DEF ThreadDisablePreallocRpcCache
<1>3. CASE UNCHANGED <<carg, smc>>
  <2>1. Held(c)' = None /\ Back(c)' = {} /\ \A m \in Threads : SameThread(m)
    BY <1>1, <1>2, <1>3 DEF Held, Back, SameThread
  <2>2. QED
    BY <1>1, <1>2, <1>3, <2>1, NoneIsFresh, QuietStep
<1>4. CASE ~UNCHANGED <<carg, smc>>
  <2>1. PICK n \in 0 .. NumThreads :
          /\ AllFree
          /\ ScanStopsAt(n, {m \in Threads : carg[m] # None})
          /\ n < NumThreads
          /\ smc' = [smc EXCEPT ![c] = [at |-> "freed", cookie |-> carg[n]]]
          /\ carg' = [carg EXCEPT ![n] = None]
    BY <1>4 DEF ThreadDisablePreallocRpcCache, ClearArg, NotBusy
  <2>2. n \in Threads /\ carg[n] \in Cookies /\ carg[n] # None
    BY <1>0, <2>1, ConstantsAssumption DEF ScanStopsAt, TypeOK
  <2>3. cont[n] = "done" /\ rpc[n] = None
    BY <1>0, <2>1, <2>2 DEF AllFree, FreeThreads, ContInv, RpcInv
  <2>4. carg'[n] = None /\ \A m \in Threads : m # n => SameThread(m)
    BY <1>0, <1>2, <2>1, <2>2 DEF SameThread, TypeOK
  <2>5. Holds(n) = {carg[n]} /\ Holds(n)' = {}
    <3>1. Holds(n) = {carg[n]}
      BY <2>2, <2>3 DEF Holds, OnItsWay, Returning, Cached
    <3>2. Holds(n)' = {}
      BY <1>2, <2>3, <2>4 DEF Holds, OnItsWay, Returning, Cached
    <3>3. QED
      BY <3>1, <3>2
  <2> DEFINE s == [at |-> "freed", cookie |-> carg[n]]
  <2>6. s # None /\ s.at = "freed" /\ s.cookie = carg[n]
    <3>1. s \in Smcs
      BY <2>2 DEF Smcs
    <3>2. QED
      BY <3>1, NoneIsFresh
  <2>7. smc'[c] = s /\ \A d \in Cores : d # c => smc'[d] = smc[d] /\ curr'[d] = curr[d]
    BY <1>0, <1>2, <2>1 DEF TypeOK
  <2> HIDE DEF s
  <2>8. Held(c)' = None /\ Back(c)' = Holds(n)
    <3>1. smc'[c] # None /\ smc'[c].at = "freed" /\ smc'[c].cookie = carg[n]
      BY <2>6, <2>7
    <3>2. Back(c)' = {carg[n]}
      BY <3>1 DEF Back
    <3>3. QED
      BY <2>5, <3>1, <3>2 DEF Held
  <2>9. \A m \in Threads : m # n => Holds(m)' = Holds(m)
    <3>1. Held(c) \in {n, None} /\ Held(c)' \in {n, None}
      BY <1>1, <2>8
    <3>2. QED
      BY <2>4, <2>7, <3>1, OtherHolds
  <2>10. \A d \in Cores : d # c => Back(d)' = Back(d)
    BY <2>7, BackFrame
  <2>11. QED
    BY <1>1, <1>2, <2>2, <2>5, <2>8, <2>9, <2>10, ShareHanded
<1>5. QED
  BY <1>3, <1>4

LEMMA FreeShares ==
  ASSUME Settled, Shared, NEW c \in Cores, FreeReturnedShm(c)
  PROVE  Shared'
<1>0. TypeOK /\ Owned
  BY DEF Settled, Owned
<1>1. /\ smc[c] # None /\ smc[c].at = "freed" /\ Held(c) = None
      /\ Back(c) = {smc[c].cookie}
  BY DEF FreeReturnedShm, Held, Back
<1>2. /\ live' = live \ Back(c) /\ smc' = [smc EXCEPT ![c] = None]
      /\ UNCHANGED <<threadVars, curr, rpc>>
  BY <1>1 DEF FreeReturnedShm
<1>3. smc'[c] = None /\ \A d \in Cores : d # c => smc'[d] = smc[d] /\ curr'[d] = curr[d]
  BY <1>0, <1>2 DEF TypeOK
<1>4. curr'[c] = None
  BY <1>0, <1>1, <1>2 DEF Owned, CoreInv
<1>5. Held(c)' = None /\ Back(c)' = {}
  BY <1>3, <1>4 DEF Held, Back
<1>6. \A m \in Threads : SameThread(m)
  BY <1>2 DEF SameThread, threadVars
<1>7. \A m \in Threads : Holds(m)' = Holds(m)
  BY <1>1, <1>3, <1>5, <1>6, NoneIsFresh, OtherHolds
<1>8. \A d \in Cores : d # c => Back(d)' = Back(d)
  BY <1>3, BackFrame
<1>9. QED
  BY <1>2, <1>5, <1>7, <1>8, BackFreed

(* The thread that runs has no RPC outstanding and its flag is clear.      *)
LEMMA RunningHolds ==
  ASSUME Settled, NEW c \in Cores, NEW n \in Threads, Running(c, n)
  PROVE  /\ Held(c) = n /\ Back(c) = {} /\ rpc[n] = None /\ ~copyArgs[n]
         /\ Holds(n) = (IF cont[n] = "alloc" THEN {regs[n]} \ {None} ELSE {})
                          \cup Cached(n)
<1>0. TypeOK /\ Owned /\ RpcInv
  BY DEF Settled, Owned
<1>1. smc[c] \in Smcs /\ smc[c].thread = n /\ state[n] = "ACTIVE"
  BY <1>0, RunningThread
<1>2. smc[c] # None /\ smc[c].at = "run"
  BY DEF Running
<1>3. Held(c) = n /\ Back(c) = {}
  BY <1>1, <1>2 DEF Held, Back
<1>4. rpc[n] = None /\ ~copyArgs[n]
  BY <1>0, <1>1, <1>2 DEF RpcInv
<1>5. QED
  BY <1>3, <1>4 DEF Holds, OnItsWay, Returning

(* What it holds after it was suspended.                                   *)
LEMMA SuspendedHolds ==
  ASSUME TypeOK, NEW c \in Cores, NEW n \in Threads, ~copyArgs[n],
         NEW func \in {"irq", "alloc", "cmd", "free"}, NEW k \in Cookies \cup {None},
         ThreadStateSuspend(c, n, func, k)
  PROVE  Holds(n)' = (IF cont'[n] # "alloc" THEN {}
                      ELSE IF func = "alloc" THEN {k} \ {None}
                      ELSE IF func = "irq" THEN {regs'[n]} \ {None}
                      ELSE Entering(n)' \ {None})
                     \cup (IF func = "free" THEN {k} ELSE {}) \cup Cached(n)'
<1> DEFINE r == [func |-> func, cookie |-> k, served |-> FALSE]
<1>1. r # None /\ r.func = func /\ r.cookie = k /\ ~r.served
  <2>1. r \in Rpcs
    BY DEF Rpcs
  <2>2. QED
    BY <2>1, NoneIsFresh
<1>2. rpc'[n] = r /\ (copyArgs'[n] <=> func # "irq")
  BY DEF ThreadStateSuspend, TypeOK
<1> HIDE DEF r
<1>3. Returning(n)' = IF func = "free" THEN {k} ELSE {}
  BY <1>1, <1>2 DEF Returning
<1>4. OnItsWay(n)' = IF cont'[n] # "alloc" THEN {}
                     ELSE IF func = "alloc" THEN {k} \ {None}
                     ELSE IF func = "irq" THEN {regs'[n]} \ {None}
                     ELSE Entering(n)' \ {None}
  BY <1>1, <1>2 DEF OnItsWay, Entering
<1>5. QED
  BY <1>3, <1>4 DEF Holds

LEMMA SuspendedUse ==
  ASSUME TypeOK, NEW c \in Cores, NEW n \in Threads, ~copyArgs[n],
         NEW k \in Cookies \cup {None}, ThreadStateSuspend(c, n, "cmd", k),
         cont'[n] # "alloc"
  PROVE  Holds(n)' = Cached(n)'
BY SuspendedHolds

(* A step of the running thread moves no buffer.                           *)
LEMMA ThreadHolds ==
  ASSUME Settled, NEW c \in Cores, NEW n \in Threads, ThreadStep(c, n)
  PROVE  Holds(n)' = Holds(n)
<1>0. TypeOK /\ ContInv /\ Running(c, n) /\ UNCHANGED regs
  BY ThreadStepEffect DEF Settled, Owned
<1>1. /\ rpc[n] = None /\ ~copyArgs[n]
      /\ Holds(n) = (IF cont[n] = "alloc" THEN {regs[n]} \ {None} ELSE {})
                       \cup Cached(n)
  BY <1>0, RunningHolds
<1>2. /\ carg[n] \in Cookies \cup {None} /\ regs[n] \in Cookies \cup {None}
      /\ None \in Cookies \cup {None}
  BY <1>0 DEF TypeOK
<1>3. \A p : cont' = [cont EXCEPT ![n] = p] => cont'[n] = p
  BY <1>0 DEF TypeOK
<1>4. \A k : carg' = [carg EXCEPT ![n] = k] => carg'[n] = k
  BY <1>0 DEF TypeOK
<1>5. ASSUME StaysRunning
      PROVE  Holds(n)' = (IF cont'[n] = "alloc" THEN {regs[n]} \ {None} ELSE {})
                           \cup Cached(n)'
  BY <1>0, <1>1, <1>5 DEF StaysRunning, Holds, OnItsWay, Returning
<1>6. CASE ForeignInterrupt(c, n)
  <2>1. ThreadStateSuspend(c, n, "irq", None) /\ UNCHANGED <<carg, cont>>
    BY <1>6 DEF ForeignInterrupt
  <2>2. Cached(n)' = Cached(n)
    BY <2>1 DEF Cached
  <2>3. QED
    BY <1>0, <1>1, <1>2, <2>1, <2>2, SuspendedHolds
<1>7. CASE ThreadRpcCmd(c, n)
  <2>1. CASE carg[n] = None
    <3>1. /\ ThreadStateSuspend(c, n, "alloc", None) /\ carg' = carg
          /\ cont[n] = "handler" /\ cont'[n] = "alloc"
      BY <1>3, <1>7, <2>1 DEF ThreadRpcCmd
    <3>2. Cached(n)' = {} /\ Cached(n) = {}
      BY <2>1, <3>1 DEF Cached
    <3>3. QED
      BY <1>0, <1>1, <1>2, <3>1, <3>2, SuspendedHolds
  <2>2. CASE carg[n] # None
    <3>1. /\ ThreadStateSuspend(c, n, "cmd", carg[n]) /\ carg' = carg
          /\ cont[n] = "handler" /\ cont'[n] = "waitcmd"
      BY <1>3, <1>7, <2>2 DEF ThreadRpcCmd
    <3>2. Cached(n)' = Cached(n) /\ Holds(n) = Cached(n)
      BY <1>1, <3>1 DEF Cached
    <3>3. Holds(n)' = Cached(n)'
      BY <1>0, <1>1, <1>2, <3>1, SuspendedUse
    <3>4. QED
      BY <3>2, <3>3
  <2>3. QED
    BY <2>1, <2>2
<1>8. CASE AllocArgReply(c, n)
  <2>1. cont[n] = "alloc" /\ carg[n] = None
    BY <1>0, <1>8 DEF AllocArgReply, ContInv
  <2>2. Holds(n) = {regs[n]} \ {None}
    BY <1>1, <2>1 DEF Cached
  <2>3. CASE /\ regs[n] = None /\ StaysRunning /\ carg' = carg
             /\ cont' = [cont EXCEPT ![n] = "handler"]
    <3>1. cont'[n] = "handler" /\ Cached(n)' = {}
      BY <1>3, <2>1, <2>3 DEF Cached
    <3>2. QED
      BY <1>5, <2>2, <2>3, <3>1
  <2>4. CASE /\ regs[n] # None /\ StaysRunning
             /\ carg' = [carg EXCEPT ![n] = regs[n]]
             /\ cont' = [cont EXCEPT ![n] = "cmd"]
    <3>1. cont'[n] = "cmd" /\ Cached(n)' = {regs[n]} \ {None}
      BY <1>3, <1>4, <2>4 DEF Cached
    <3>2. QED
      BY <1>5, <2>2, <2>4, <3>1
  <2>5. CASE /\ regs[n] # None /\ ThreadStateSuspend(c, n, "free", regs[n])
             /\ carg' = carg /\ cont' = [cont EXCEPT ![n] = "badarg"]
    <3>1. cont'[n] = "badarg" /\ Cached(n)' = {}
      BY <1>3, <2>1, <2>5 DEF Cached
    <3>2. QED
      BY <1>0, <1>1, <1>2, <2>2, <2>5, <3>1, SuspendedHolds
  <2>6. QED
    BY <1>8, <2>3, <2>4, <2>5 DEF AllocArgReply
<1>9. CASE IssueCmd(c, n)
  <2>1. /\ ThreadStateSuspend(c, n, "cmd", carg[n]) /\ carg' = carg
        /\ cont[n] = "cmd" /\ cont'[n] = "waitcmd"
    BY <1>3, <1>9 DEF IssueCmd
  <2>2. Cached(n)' = Cached(n) /\ Holds(n) = Cached(n)
    BY <1>1, <2>1 DEF Cached
  <2>3. Holds(n)' = Cached(n)'
    BY <1>0, <1>1, <1>2, <2>1, SuspendedUse
  <2>4. QED
    BY <2>2, <2>3
<1>10. CASE ThreadRpcCmdReturns(c, n)
  <2>1. /\ StaysRunning /\ carg' = carg
        /\ cont[n] \in {"waitcmd", "badarg"} /\ cont'[n] = "handler"
    BY <1>3, <1>10 DEF ThreadRpcCmdReturns
  <2>2. Cached(n)' = Cached(n)
    BY <2>1 DEF Cached
  <2>3. QED
    BY <1>1, <1>5, <2>1, <2>2
<1>11. CASE StdSmcReturns(c, n)
  <2>1. cont[n] = "handler" /\ carg' = carg
    BY <1>11 DEF StdSmcReturns
  <2>2. CASE /\ StaysRunning
             /\ \/ cont' = [cont EXCEPT ![n] = "done"]
                \/ (cont' = [cont EXCEPT ![n] = "freearg"] /\ carg[n] = None)
    <3>1. cont'[n] = "done" \/ (cont'[n] = "freearg" /\ carg[n] = None)
      BY <1>3, <2>2
    <3>2. Cached(n)' = Cached(n)
      BY <2>1, <3>1 DEF Cached
    <3>3. QED
      BY <1>1, <1>5, <2>1, <2>2, <3>1, <3>2
  <2>3. CASE /\ cont' = [cont EXCEPT ![n] = "freearg"] /\ carg[n] # None
             /\ ThreadStateSuspend(c, n, "free", carg[n])
    <3>1. cont'[n] = "freearg"
      BY <1>3, <2>3
    <3>2. Cached(n)' = {} /\ Cached(n) = {carg[n]}
      BY <2>1, <2>3, <3>1 DEF Cached
    <3>3. QED
      BY <1>0, <1>1, <1>2, <2>1, <2>3, <3>1, <3>2, SuspendedHolds
  <2>4. QED
    BY <1>11, <2>2, <2>3 DEF StdSmcReturns
<1>12. CASE FreeArgReply(c, n)
  <2>1. StaysRunning /\ cont[n] = "freearg" /\ cont'[n] = "done" /\ carg'[n] = None
    BY <1>3, <1>4, <1>12 DEF FreeArgReply, ClearArg
  <2>2. Cached(n)' = {} /\ Cached(n) = {}
    BY <2>1 DEF Cached
  <2>3. QED
    BY <1>1, <1>5, <2>1, <2>2
<1>13. CASE ThreadStateFree(c, n)
  <2>1. cont[n] = "done" /\ UNCHANGED <<cont, carg, rpc>>
    BY <1>13 DEF ThreadStateFree
  <2>2. QED
    BY <2>1 DEF Holds, OnItsWay, Returning, Cached
<1>14. QED
  BY <1>6, <1>7, <1>8, <1>9, <1>10, <1>11, <1>12, <1>13 DEF ThreadStep

LEMMA ThreadShares ==
  ASSUME Settled, Shared, NEW c \in Cores, NEW n \in Threads, ThreadStep(c, n)
  PROVE  Shared'
<1>0. /\ TypeOK /\ Running(c, n) /\ UNCHANGED <<regs, live>>
      /\ Suspends(c, n) \/ StaysRunning \/ ThreadStateFree(c, n)
  BY ThreadStepEffect DEF Settled, Owned
<1>1. Held(c) = n /\ Back(c) = {}
  BY <1>0, RunningHolds
<1>2. \A m \in Threads : m # n => cont'[m] = cont[m] /\ carg'[m] = carg[m]
  BY <1>0 DEF ThreadStep, ForeignInterrupt, ThreadRpcCmd, AllocArgReply, IssueCmd,
     ThreadRpcCmdReturns, StdSmcReturns, FreeArgReply, ClearArg, ThreadStateFree, TypeOK
<1>3. CASE Suspends(c, n) \/ ThreadStateFree(c, n)
  <2>1. /\ smc'[c] = None /\ curr'[c] = None
        /\ \A d \in Cores : d # c => smc'[d] = smc[d] /\ curr'[d] = curr[d]
        /\ \A m \in Threads : m # n => rpc'[m] = rpc[m] /\ copyArgs'[m] = copyArgs[m]
    BY <1>0, <1>3 DEF Suspends, ThreadStateSuspend, ThreadStateFree, TypeOK
  <2>2. Held(c)' = None /\ Back(c)' = {}
    BY <2>1 DEF Held, Back
  <2>3. \A m \in Threads : m # n => SameThread(m)
    BY <1>0, <1>2, <2>1 DEF SameThread
  <2>4. QED
    BY <1>0, <1>1, <2>1, <2>2, <2>3, ThreadHolds, QuietStep
<1>4. CASE StaysRunning
  <2>1. UNCHANGED <<copyArgs, curr, smc, rpc>>
    BY <1>4 DEF StaysRunning
  <2>2. Held(c)' = n /\ Back(c)' = {}
    BY <1>1, <2>1 DEF Held, Back
  <2>3. \A m \in Threads : m # n => SameThread(m)
    BY <1>0, <1>2, <2>1 DEF SameThread
  <2>4. QED
    BY <1>0, <1>1, <2>1, <2>2, <2>3, ThreadHolds, QuietStep
<1>5. QED
  BY <1>0, <1>3, <1>4

(* What optee_handle_rpc does to the RPC.                                  *)
LEMMA ServedRpc ==
  ASSUME TypeOK, NEW n \in Threads, HandleRpc(n)
  PROVE  /\ rpc[n] \in Rpcs /\ rpc[n] # None /\ ~rpc[n].served /\ rpc'[n] # None
         /\ rpc'[n].served /\ rpc'[n].func = rpc[n].func
         /\ \A m \in Threads : m # n => rpc'[m] = rpc[m]
         /\ \/ /\ rpc[n].func = "alloc"
               /\ rpc'[n].cookie \in (Cookies \ live) \cup {None}
               /\ live' = live \cup ({rpc'[n].cookie} \ {None})
            \/ /\ rpc[n].func # "alloc"
               /\ rpc'[n].cookie = rpc[n].cookie
               /\ live' = IF rpc[n].func = "free" THEN live \ {rpc[n].cookie}
                          ELSE live
<1>1. rpc[n] \in Rpcs /\ rpc[n] # None /\ ~rpc[n].served
  BY DEF HandleRpc, TypeOK
<1>2. CASE rpc[n].func = "alloc"
  <2>1. PICK k \in (Cookies \ live) \cup {None} :
          /\ live' = live \cup ({k} \ {None})
          /\ rpc' = [rpc EXCEPT ![n].cookie = k, ![n].served = TRUE]
    BY <1>2 DEF HandleRpc
  <2> DEFINE r == [rpc[n] EXCEPT !.cookie = k, !.served = TRUE]
  <2>2. r \in Rpcs /\ r.func = rpc[n].func /\ r.cookie = k /\ r.served
    BY <1>1 DEF Rpcs, TypeOK
  <2>3. rpc' = [rpc EXCEPT ![n] = r]
    BY <1>1, <2>1 DEF TypeOK, Rpcs
  <2> HIDE DEF r
  <2>4. rpc'[n] = r /\ \A m \in Threads : m # n => rpc'[m] = rpc[m]
    BY <2>3 DEF TypeOK
  <2>5. QED
    BY <1>1, <1>2, <2>1, <2>2, <2>4, NoneIsFresh
<1>3. CASE rpc[n].func # "alloc"
  <2> DEFINE r == [rpc[n] EXCEPT !.served = TRUE]
  <2>1. r \in Rpcs /\ r.func = rpc[n].func /\ r.cookie = rpc[n].cookie /\ r.served
    BY <1>1 DEF Rpcs
  <2>2. /\ rpc' = [rpc EXCEPT ![n] = r]
        /\ live' = IF rpc[n].func = "free" THEN live \ {rpc[n].cookie} ELSE live
    BY <1>3 DEF HandleRpc
  <2> HIDE DEF r
  <2>3. rpc'[n] = r /\ \A m \in Threads : m # n => rpc'[m] = rpc[m]
    BY <2>2 DEF TypeOK
  <2>4. QED
    BY <1>1, <1>3, <2>1, <2>2, <2>3, NoneIsFresh
<1>4. QED
  BY <1>2, <1>3

LEMMA HandleShares ==
  ASSUME Settled, RpcKinds, Shared, NEW n \in Threads, HandleRpc(n)
  PROVE  Shared'
<1>0. TypeOK /\ ContInv /\ RpcInv
  BY DEF Settled, Owned
<1>1. UNCHANGED <<threadVars, curr, smc>>
  BY DEF HandleRpc
<1>2. /\ rpc[n] \in Rpcs /\ rpc[n] # None /\ ~rpc[n].served /\ rpc'[n] # None
      /\ rpc'[n].served /\ rpc'[n].func = rpc[n].func
      /\ \A m \in Threads : m # n => rpc'[m] = rpc[m]
  BY <1>0, ServedRpc
<1>3. \A d \in Cores : Back(d)' = Back(d)
  BY <1>1, BackFrame
<1>4. \A m \in Threads : Entering(m)' = Entering(m)
  BY <1>1 DEF Entering, Held
<1>5. \A m \in Threads : m # n => Holds(m)' = Holds(m)
  <2>1. \A m \in Threads : m # n => SameThread(m)
    BY <1>1, <1>2 DEF SameThread, threadVars
  <2>2. QED
    BY <1>4, <2>1, HoldsFrame
<1>6. UNCHANGED <<cont, carg, regs, copyArgs>> /\ Cached(n)' = Cached(n)
  BY <1>1 DEF threadVars, Cached
<1>7. Returning(n)' = {}
  BY <1>2 DEF Returning
<1>8. CASE rpc[n].func = "alloc"
  <2>1. /\ rpc'[n].cookie \in (Cookies \ live) \cup {None}
        /\ live' = live \cup ({rpc'[n].cookie} \ {None})
    BY <1>0, <1>8, ServedRpc
  <2>2. cont[n] = "alloc" /\ rpc[n].cookie = None
    BY <1>2, <1>8 DEF RpcKinds
  <2>3. OnItsWay(n) = {} /\ Returning(n) = {}
    BY <1>2, <1>8, <2>2 DEF OnItsWay, Returning
  <2>4. OnItsWay(n)' = {rpc'[n].cookie} \ {None}
    BY <1>2, <1>6, <1>8, <2>2 DEF OnItsWay
  <2>5. Holds(n)' = Holds(n) \cup ({rpc'[n].cookie} \ {None})
    BY <1>6, <1>7, <2>3, <2>4 DEF Holds
  <2>6. ({rpc'[n].cookie} \ {None}) \cap live = {}
    BY <2>1
  <2>7. QED
    BY <1>3, <1>5, <2>1, <2>5, <2>6, ShareGrows
<1>9. CASE rpc[n].func = "free"
  <2>1. live' = live \ {rpc[n].cookie}
    BY <1>0, <1>9, ServedRpc
  <2>2. cont[n] \in {"badarg", "freearg"}
    BY <1>2, <1>9 DEF RpcKinds
  <2>3. Cached(n) = {}
    BY <1>0, <2>2 DEF Cached, ContInv
  <2>4. OnItsWay(n) = {} /\ OnItsWay(n)' = {} /\ Returning(n) = {rpc[n].cookie}
    BY <1>2, <1>6, <1>9, <2>2 DEF OnItsWay, Returning
  <2>5. Holds(n) = {rpc[n].cookie} /\ Holds(n)' = {}
    BY <1>6, <1>7, <2>3, <2>4 DEF Holds
  <2>6. QED
    BY <1>3, <1>5, <2>1, <2>5, ShareFreed
<1>10. CASE rpc[n].func \in {"irq", "cmd"}
  <2>1. live' = live
    BY <1>0, <1>10, ServedRpc
  <2>2. Returning(n) = {}
    BY <1>10 DEF Returning
  <2>3. OnItsWay(n)' = OnItsWay(n)
    <3>1. rpc[n].func # "alloc" /\ rpc'[n].func # "alloc"
      BY <1>2, <1>10
    <3>2. OnItsWay(n) = IF cont[n] # "alloc" THEN {}
                        ELSE IF copyArgs[n] THEN Entering(n) \ {None}
                        ELSE {regs[n]} \ {None}
      BY <3>1 DEF OnItsWay, Entering
    <3>3. OnItsWay(n)' = IF cont'[n] # "alloc" THEN {}
                         ELSE IF copyArgs'[n] THEN Entering(n)' \ {None}
                         ELSE {regs'[n]} \ {None}
      BY <3>1 DEF OnItsWay, Entering
    <3>4. QED
      BY <1>4, <1>6, <3>2, <3>3
  <2>4. Holds(n)' = Holds(n)
    BY <1>6, <1>7, <2>2, <2>3 DEF Holds
  <2>5. \A m \in Threads : Holds(m)' = Holds(m)
    BY <1>5, <2>4
  <2>6. QED
    BY <1>3, <2>1, <2>5, SharesStay
<1>11. QED
  BY <1>2, <1>8, <1>9, <1>10 DEF Rpcs

LEMMA BootShares ==
  ASSUME Settled, Shared, ThreadClrBootThread
  PROVE  Shared'
<1>0. TypeOK /\ Owned /\ ContInv
  BY DEF Settled, Owned
<1>1. /\ BootCore \in Cores /\ 0 \in Threads
      /\ smc[BootCore] = None /\ curr[BootCore] = 0
      /\ curr' = [curr EXCEPT ![BootCore] = None]
      /\ UNCHANGED <<cont, carg, regs, rpc, copyArgs, smc, live>>
  BY <1>0, ConstantsAssumption
  DEF ThreadClrBootThread, Booting, Owned, CoreInv, Threads
<1>2. /\ curr'[BootCore] = None
      /\ \A d \in Cores : d # BootCore => smc'[d] = smc[d] /\ curr'[d] = curr[d]
  BY <1>0, <1>1 DEF TypeOK
<1>3. /\ Held(BootCore) = 0 /\ Held(BootCore)' = None /\ Back(BootCore)' = Back(BootCore)
  BY <1>1, <1>2 DEF Held, Back
<1>4. \A m \in Threads : SameThread(m)
  BY <1>1 DEF SameThread
<1>5. cont[0] # "alloc"
  BY <1>0, <1>1, <1>3, NoneIsFresh DEF ContInv
<1>6. Holds(0)' = Holds(0)
  BY <1>1, <1>4, <1>5, NotEntering
<1>7. QED
  BY <1>1, <1>2, <1>3, <1>4, <1>6, QuietStep

LEMMA SharesStep ==
  ASSUME Settled, RpcKinds, Shared, [Next]_vars
  PROVE  Shared'
<1>1. CASE UNCHANGED vars
  <2>1. UNCHANGED <<threadVars, curr, smc, rpc, live>>
    BY <1>1 DEF vars
  <2>2. \A m \in Threads : SameThread(m) /\ Entering(m)' = Entering(m)
    BY <2>1 DEF SameThread, threadVars, Entering, Held
  <2>3. \A m \in Threads : Holds(m)' = Holds(m)
    BY <2>2, HoldsFrame
  <2>4. \A d \in Cores : Back(d)' = Back(d)
    BY <2>1, BackFrame
  <2>5. QED
    BY <2>1, <2>3, <2>4, SharesStay
<1>2. ASSUME NEW c \in Cores, CoreStep(c)
      PROVE  Shared'
  BY <1>2, AllocShares, StartShares, ResumeFromShares, ResumeShares, EnableShares,
     DisableShares, FreeShares DEF CoreStep
<1>3. ASSUME NEW c \in Cores, NEW n \in Threads, ThreadStep(c, n)
      PROVE  Shared'
  BY <1>3, ThreadShares
<1>4. QED
  BY <1>1, <1>2, <1>3, HandleShares, BootShares DEF Next, CoreStep, ThreadStep

LEMMA RpcKindsStep ==
  ASSUME Settled, RpcKinds, [Next]_vars
  PROVE  RpcKinds'
<1>0. TypeOK /\ Owned /\ ContInv /\ RpcInv
  BY DEF Settled, Owned
<1>1. ASSUME NEW c \in Cores, NEW n \in Threads, ThreadStep(c, n)
      PROVE  RpcKinds'
  <2>1. /\ Running(c, n) /\ rpc[n] = None
    BY <1>0, <1>1, ThreadStepEffect, RunningHolds
  <2>2. \A m \in Threads : m # n => cont'[m] = cont[m] /\ rpc'[m] = rpc[m]
    <3>1. \A m \in Threads : m # n => cont'[m] = cont[m]
      BY <1>0, <1>1 DEF ThreadStep, ForeignInterrupt, ThreadRpcCmd, AllocArgReply,
         IssueCmd, ThreadRpcCmdReturns, StdSmcReturns, FreeArgReply, ThreadStateFree,
         TypeOK
    <3>2. \A m \in Threads : m # n => rpc'[m] = rpc[m]
      BY <1>0, <1>1, ThreadStepEffect
      DEF Suspends, ThreadStateSuspend, StaysRunning, ThreadStateFree, TypeOK
    <3>3. QED
      BY <3>1, <3>2
  <2>3. ASSUME NEW func \in {"irq", "alloc", "cmd", "free"},
               NEW k \in Cookies \cup {None}, ThreadStateSuspend(c, n, func, k),
               func = "alloc" => cont'[n] = "alloc" /\ k = None,
               func = "free" => cont'[n] \in {"badarg", "freearg"},
               func = "cmd" => cont'[n] = "waitcmd"
        PROVE  RpcKinds'
    <3>1. rpc'[n] = [func |-> func, cookie |-> k, served |-> FALSE]
      BY <1>0, <2>3 DEF ThreadStateSuspend, TypeOK
    <3>2. rpc'[n].func = func /\ rpc'[n].cookie = k
      BY <3>1
    <3>3. QED
      BY <2>2, <2>3, <3>2 DEF RpcKinds
  <2>4. CASE rpc' = rpc
    BY <2>1, <2>2, <2>4 DEF RpcKinds
  <2>5. /\ carg[n] \in Cookies \cup {None} /\ regs[n] \in Cookies \cup {None}
        /\ None \in Cookies \cup {None}
        /\ \A p : cont' = [cont EXCEPT ![n] = p] => cont'[n] = p
    BY <1>0 DEF TypeOK
  <2>6. CASE ForeignInterrupt(c, n)
    BY <2>3, <2>5, <2>6 DEF ForeignInterrupt
  <2>7. CASE ThreadRpcCmd(c, n)
    <3>1. CASE carg[n] = None
      <4>1. ThreadStateSuspend(c, n, "alloc", None) /\ cont'[n] = "alloc"
        BY <2>5, <2>7, <3>1 DEF ThreadRpcCmd
      <4>2. QED
        BY <2>3, <2>5, <4>1
    <3>2. CASE carg[n] # None
      <4>1. ThreadStateSuspend(c, n, "cmd", carg[n]) /\ cont'[n] = "waitcmd"
        BY <2>5, <2>7, <3>2 DEF ThreadRpcCmd
      <4>2. QED
        BY <2>3, <2>5, <4>1
    <3>3. QED
      BY <3>1, <3>2
  <2>8. CASE AllocArgReply(c, n)
    <3>1. CASE StaysRunning
      BY <2>4, <3>1 DEF StaysRunning
    <3>2. CASE ThreadStateSuspend(c, n, "free", regs[n]) /\ cont'[n] = "badarg"
      BY <2>3, <2>5, <3>2
    <3>3. QED
      BY <2>5, <2>8, <3>1, <3>2 DEF AllocArgReply
  <2>9. CASE IssueCmd(c, n)
    <3>1. ThreadStateSuspend(c, n, "cmd", carg[n]) /\ cont'[n] = "waitcmd"
      BY <2>5, <2>9 DEF IssueCmd
    <3>2. QED
      BY <2>3, <2>5, <3>1
  <2>10. CASE StdSmcReturns(c, n)
    <3>1. CASE StaysRunning
      BY <2>4, <3>1 DEF StaysRunning
    <3>2. CASE ThreadStateSuspend(c, n, "free", carg[n]) /\ cont'[n] = "freearg"
      BY <2>3, <2>5, <3>2
    <3>3. QED
      BY <2>5, <2>10, <3>1, <3>2 DEF StdSmcReturns
  <2>11. CASE ThreadRpcCmdReturns(c, n) \/ FreeArgReply(c, n) \/ ThreadStateFree(c, n)
    BY <2>4, <2>11 DEF ThreadRpcCmdReturns, FreeArgReply, ThreadStateFree, StaysRunning
  <2>12. QED
    BY <1>1, <2>6, <2>7, <2>8, <2>9, <2>10, <2>11 DEF ThreadStep
<1>2. ASSUME NEW c \in Cores, NEW k \in Commands, StartThread(c, k)
      PROVE  RpcKinds'
  <2>1. PICK n \in Threads : n = smc[c].thread /\ state[n] = "ACTIVE"
    BY <1>0, <1>2, EnteringThread DEF StartThread
  <2>2. rpc[n] = None
    BY <1>0, <2>1 DEF RpcInv
  <2>3. rpc' = rpc /\ \A m \in Threads : m # n => cont'[m] = cont[m]
    BY <1>0, <1>2, <2>1 DEF StartThread, TypeOK
  <2>4. QED
    BY <2>2, <2>3 DEF RpcKinds
<1>3. ASSUME NEW c \in Cores, NEW n \in 0 .. NumThreads, NEW g \in Guests,
             NEW k \in Cookies \cup {None}, ResumeFromRpc(c, n, g, k)
      PROVE  RpcKinds'
  <2>1. cont' = cont /\ (rpc' = rpc \/ rpc' = [rpc EXCEPT ![n] = None])
    BY <1>3 DEF ResumeFromRpc
  <2>2. \A m \in Threads : rpc'[m] = rpc[m] \/ rpc'[m] = None
    BY <1>0, <2>1 DEF TypeOK
  <2>3. QED
    BY <2>1, <2>2 DEF RpcKinds
<1>4. ASSUME NEW n \in Threads, HandleRpc(n)
      PROVE  RpcKinds'
  <2>1. /\ rpc[n] # None /\ rpc'[n].served /\ rpc'[n].func = rpc[n].func
        /\ \A m \in Threads : m # n => rpc'[m] = rpc[m]
    BY <1>0, <1>4, ServedRpc
  <2>2. cont' = cont
    BY <1>4 DEF HandleRpc, threadVars
  <2>3. QED
    BY <2>1, <2>2 DEF RpcKinds
<1>5. CASE UNCHANGED <<rpc, cont>>
  BY <1>5 DEF RpcKinds
<1>6. ASSUME NEW c \in Cores, NEW g \in Guests, AllocThread(c, g)
      PROVE  RpcKinds'
  BY <1>5, <1>6 DEF AllocThread
<1>7. ASSUME NEW c \in Cores,
             ResumeThread(c) \/ FreeReturnedShm(c)
               \/ ThreadEnablePreallocRpcCache(c) \/ ThreadDisablePreallocRpcCache(c)
      PROVE  RpcKinds'
  BY <1>5, <1>7 DEF ResumeThread, FreeReturnedShm, ThreadEnablePreallocRpcCache,
     ThreadDisablePreallocRpcCache, threadVars
<1>8. CASE ThreadClrBootThread \/ UNCHANGED vars
  BY <1>5, <1>8 DEF ThreadClrBootThread, vars, threadVars
<1>9. QED
  BY <1>1, <1>2, <1>3, <1>4, <1>6, <1>7, <1>8 DEF Next, ThreadStep

LEMMA SharedHolds == Spec => []Shared
<1>1. Init => Settled /\ RpcKinds
  BY TypeInit, OwnershipInit, GuestInit, RpcInit, ContInit
  DEF Settled, Owned, RpcKinds, Init
<1>2. Init => Shared
  <2> SUFFICES ASSUME Init PROVE Shared
    OBVIOUS
  <2>2. ASSUME NEW n \in Threads
        PROVE  Holds(n) = {}
    <3>1. cont[n] = "done" /\ rpc[n] = None /\ carg[n] = None
      BY DEF Init
    <3>2. OnItsWay(n) = {}
      BY <3>1 DEF OnItsWay
    <3>3. Returning(n) = {} /\ Cached(n) = {}
      BY <3>1 DEF Returning, Cached
    <3>4. QED
      BY <3>2, <3>3 DEF Holds
  <2>3. ASSUME NEW c \in Cores
        PROVE  Back(c) = {}
    <3>1. smc[c] = None
      BY DEF Init
    <3>2. QED
      BY <3>1 DEF Back
  <2>4. live = {}
    BY DEF Init
  <2>5. QED
    BY <2>2, <2>3, <2>4 DEF Shared
<1>3. Settled /\ [Next]_vars => Settled'
  BY TypeStep, OwnershipStep, GuestStep, RpcStep, ContStep DEF Settled, Owned
<1>4. Settled /\ RpcKinds /\ Shared /\ [Next]_vars => RpcKinds' /\ Shared'
  BY RpcKindsStep, SharesStep
<1>5. QED
  BY <1>1, <1>2, <1>3, <1>4, PTL DEF Spec

LEMMA HandedBackByCores ==
  \A x : x \in HandedBack <=> \E c \in Cores : x \in Back(c)
<1>1. SUFFICES ASSUME NEW x
               PROVE  x \in HandedBack <=> \E c \in Cores : x \in Back(c)
  OBVIOUS
<1> DEFINE D == {d \in Cores : smc[d] # None /\ smc[d].at = "freed"}
<1>2. x \in HandedBack <=> \E c \in D : x = smc[c].cookie
  BY DEF HandedBack
<1>3. \A c \in Cores : x \in Back(c) <=> c \in D /\ x = smc[c].cookie
  BY DEF Back
<1> HIDE DEF D
<1>4. D \subseteq Cores
  BY DEF D
<1>5. QED
  BY <1>2, <1>3, <1>4

(* The live buffers are exactly those that a thread holds or the driver    *)
(* was given back: none is lost when a mapping fails, a command ends or    *)
(* the cache is emptied, and none is used after it was freed.              *)
THEOREM NoWildBuffers == Spec => []BuffersAccountedFor
<1>1. Shared => BuffersAccountedFor
  <2> SUFFICES ASSUME Shared PROVE BuffersAccountedFor
    OBVIOUS
  <2> DEFINE U == UNION {Holds(n) : n \in Threads}
  <2>1. \A x : x \in HandedBack <=> \E c \in Cores : x \in Back(c)
    BY HandedBackByCores
  <2>2. \A x : x \in U <=> \E n \in Threads : x \in Holds(n)
    OBVIOUS
  <2>3. BuffersAccountedFor <=> live = U \cup HandedBack
    BY DEF BuffersAccountedFor
  <2> HIDE DEF U
  <2>4. \A x : x \in live <=> x \in U \cup HandedBack
    BY <2>1, <2>2 DEF Shared
  <2>5. live = U \cup HandedBack
    <3>1. live \subseteq U \cup HandedBack
      BY <2>4
    <3>2. U \cup HandedBack \subseteq live
      BY <2>4
    <3>3. QED
      BY <3>1, <3>2
  <2>6. QED
    BY <2>3, <2>5
<1>2. QED
  BY <1>1, SharedHolds, PTL

(* No buffer belongs to two threads, or to a thread and to the driver that *)
(* is about to free it.                                                    *)
THEOREM BuffersAreOwned == Spec => []BuffersNotShared
<1>1. Shared => BuffersNotShared
  <2> SUFFICES ASSUME Shared, NEW n \in Threads
                 PROVE  Holds(n) \cap HandedBack = {}
    BY DEF BuffersNotShared, Shared
  <2>2. \A x : x \in HandedBack <=> \E c \in Cores : x \in Back(c)
    BY HandedBackByCores
  <2>3. QED
    BY <2>2 DEF Shared
<1>2. QED
  BY <1>1, SharedHolds, PTL

(* A thread gets rpc_carg and rpc_mobj together, and loses rpc_carg when   *)
(* rpc_mobj is freed.                                                      *)
LEMMA MappedStep == TypeOK /\ MappedWhileUsed /\ [Next]_vars => MappedWhileUsed'
<1> SUFFICES ASSUME TypeOK, MappedWhileUsed, [Next]_vars
             PROVE  MappedWhileUsed'
  OBVIOUS
<1>1. CASE UNCHANGED <<carg, mobj>>
  BY <1>1 DEF MappedWhileUsed
<1>2. ASSUME NEW n \in Threads, NEW m \in {"none", "held", "freed"},
             mobj' = [mobj EXCEPT ![n] = m], NEW k,
             carg' = [carg EXCEPT ![n] = k], m = "held" \/ k = None
      PROVE  MappedWhileUsed'
  BY <1>2 DEF MappedWhileUsed, TypeOK
<1>3. ASSUME NEW c \in Cores, NEW n \in Threads, ThreadStep(c, n)
      PROVE  MappedWhileUsed'
  <2>1. CASE AllocArgReply(c, n)
    BY <1>1, <1>2, <2>1 DEF AllocArgReply
  <2>2. CASE FreeArgReply(c, n)
    BY <1>2, <2>2 DEF FreeArgReply, ClearArg
  <2>3. QED
    BY <1>1, <1>3, <2>1, <2>2
    DEF ThreadStep, ForeignInterrupt, ThreadRpcCmd, IssueCmd, ThreadRpcCmdReturns,
        StdSmcReturns, ThreadStateFree
<1>4. ASSUME NEW c \in Cores, ThreadDisablePreallocRpcCache(c)
      PROVE  MappedWhileUsed'
  <2>1. CASE UNCHANGED <<carg, mobj>>
    BY <1>1, <2>1
  <2>2. CASE ~UNCHANGED <<carg, mobj>>
    <3>1. PICK n \in 0 .. NumThreads :
            /\ n < NumThreads /\ ClearArg(n)
            /\ mobj' = [mobj EXCEPT ![n] = "freed"]
      BY <1>4, <2>2 DEF ThreadDisablePreallocRpcCache
    <3>2. n \in Threads
      BY <3>1, ConstantsAssumption DEF Threads
    <3>3. QED
      BY <1>2, <3>1, <3>2 DEF ClearArg
  <2>3. QED
    BY <2>1, <2>2
<1>5. ASSUME NEW c \in Cores, CoreStep(c)
      PROVE  MappedWhileUsed'
  BY <1>1, <1>4, <1>5
  DEF CoreStep, AllocThread, StartThread, ResumeFromRpc, ResumeThread,
      ThreadEnablePreallocRpcCache, FreeReturnedShm, threadVars
<1>6. CASE ThreadClrBootThread \/ UNCHANGED vars \/ \E n \in Threads : HandleRpc(n)
  BY <1>1, <1>6 DEF ThreadClrBootThread, HandleRpc, threadVars, vars
<1>7. QED
  BY <1>3, <1>5, <1>6 DEF Next, ThreadStep, CoreStep

LEMMA MappedHolds == Spec => []MappedWhileUsed
<1>1. Init => MappedWhileUsed
  BY DEF Init, MappedWhileUsed
<1>2. QED
  BY <1>1, MappedStep, Typing, PTL DEF Spec

(* Every buffer has one owner, only what is allocated has an owner, and    *)
(* what a thread uses is mapped.                                           *)
THEOREM BuffersKept == Spec => []BuffersOwned
<1>1. BuffersAccountedFor /\ BuffersNotShared /\ MappedWhileUsed => BuffersOwned
  BY DEF BuffersOwned
<1>2. QED
  BY <1>1, NoWildBuffers, BuffersAreOwned, MappedHolds, PTL
-----------------------------------------------------------------------------
(***************************************************************************)
(* SecThreads implements ThreadPool.                                       *)
(***************************************************************************)

(* The pool seen by its users, as the specification defines it.            *)
PoolStep == [Pool!PoolNext]_(Pool!poolVars)

LEMMA OwnerOf ==
  ASSUME TypeOK, NEW n \in Threads
  PROVE  ownerBar[n] = None <=> state[n] = "FREE"
BY NoneIsFresh DEF ownerBar, TypeOK

LEMMA IdlePool ==
  ASSUME TypeOK
  PROVE  AllFree <=> Pool!Idle
<1>1. AllFree <=> \A n \in Threads : state[n] = "FREE"
  BY DEF AllFree, FreeThreads
<1>2. QED
  BY <1>1, OwnerOf DEF Pool!Idle, Pool!PoolThreads, Threads

(* What a pool step needs to see of the state.                             *)
LEMMA SameOwners ==
  ASSUME TypeOK, client' = client, state' \in [Threads -> ThreadStates],
         \A n \in Threads : state'[n] = "FREE" <=> state[n] = "FREE"
  PROVE  ownerBar' = ownerBar
BY DEF ownerBar

LEMMA SamePool ==
  ASSUME ownerBar' = ownerBar, UNCHANGED <<carg, prealloc>>
  PROVE  PoolStep
<1>1. cachedBar' = cachedBar
  BY DEF cachedBar
<1>2. QED
  BY <1>1 DEF PoolStep, Pool!poolVars

(* A thread that runs is nobody else's, before and after it is suspended.  *)
LEMMA StaysOwned ==
  ASSUME Owned, NEW c \in Cores, NEW n \in Threads, Running(c, n), client' = client,
         Suspends(c, n) \/ StaysRunning
  PROVE  ownerBar' = ownerBar
<1>1. state[n] = "ACTIVE" /\ TypeOK
  BY RunningThread DEF Owned
<1>2. CASE StaysRunning
  BY <1>2 DEF StaysRunning, ownerBar
<1>3. CASE Suspends(c, n)
  <2>1. state' = [state EXCEPT ![n] = "SUSPENDED"]
    BY <1>3 DEF Suspends, ThreadStateSuspend
  <2>2. /\ state' \in [Threads -> ThreadStates]
        /\ \A m \in Threads : state'[m] = "FREE" <=> state[m] = "FREE"
    BY <1>1, <2>1 DEF TypeOK, ThreadStates
  <2>3. QED
    BY <1>1, <2>2, SameOwners
<1>4. QED
  BY <1>2, <1>3

LEMMA PoolTakes ==
  ASSUME Owned, NEW c \in Cores, NEW g \in Guests, AllocThread(c, g)
  PROVE  PoolStep
<1>1. TypeOK /\ UNCHANGED <<carg, prealloc>>
  BY DEF Owned, AllocThread
<1>2. CASE UNCHANGED <<state, smc, client>>
  <2>1. ownerBar' = ownerBar
    BY <1>2 DEF ownerBar
  <2>2. QED
    BY <1>1, <2>1, SamePool
<1>3. ASSUME NEW n \in Threads, state[n] = "FREE",
             state' = [state EXCEPT ![n] = "ACTIVE"],
             client' = [client EXCEPT ![n] = g]
      PROVE  PoolStep
  <2>1. ownerBar[n] = None
    BY <1>1, <1>3, OwnerOf
  <2>2. ownerBar' = [ownerBar EXCEPT ![n] = g]
    BY <1>1, <1>3, NoneIsFresh DEF ownerBar, TypeOK
  <2>3. cachedBar' = cachedBar
    BY <1>1 DEF cachedBar
  <2>4. Pool!TakeThread(n, g)
    BY <1>1, <2>1, <2>2, <2>3 DEF Pool!TakeThread
  <2>5. n \in Pool!PoolThreads
    BY DEF Pool!PoolThreads, Threads
  <2>6. QED
    BY <2>4, <2>5 DEF PoolStep, Pool!PoolNext
<1>4. QED
  BY <1>2, <1>3, TakenThread

LEMMA PoolReleases ==
  ASSUME TypeOK, NEW n \in Threads, state[n] # "FREE",
         state' = [state EXCEPT ![n] = "FREE"], UNCHANGED <<client, carg, prealloc>>
  PROVE  PoolStep
<1>1. ownerBar[n] # None
  BY OwnerOf
<1>2. ownerBar' = [ownerBar EXCEPT ![n] = None]
  BY DEF ownerBar, TypeOK
<1>3. cachedBar' = cachedBar
  BY DEF cachedBar
<1>4. Pool!ReleaseThread(n) /\ n \in Pool!PoolThreads
  BY <1>1, <1>2, <1>3 DEF Pool!ReleaseThread, Pool!PoolThreads, Threads
<1>5. QED
  BY <1>4 DEF PoolStep, Pool!PoolNext

(* get_rpc_arg keeps the buffer it was given.                              *)
LEMMA PoolGains ==
  ASSUME Owned, ContInv, NEW c \in Cores, NEW n \in Threads, AllocArgReply(c, n)
  PROVE  PoolStep
<1>1. Running(c, n) /\ cont[n] = "alloc" /\ UNCHANGED <<client, prealloc>>
  BY DEF AllocArgReply
<1>2. state[n] = "ACTIVE" /\ TypeOK
  BY <1>1, RunningThread DEF Owned
<1>3. CASE UNCHANGED carg
  <2>1. Suspends(c, n) \/ StaysRunning
    BY <1>2 DEF AllocArgReply, Suspends, TypeOK
  <2>2. QED
    BY <1>1, <1>3, <2>1, StaysOwned, SamePool
<1>4. CASE regs[n] # None /\ carg' = [carg EXCEPT ![n] = regs[n]] /\ StaysRunning
  <2>1. ownerBar' = ownerBar
    BY <1>1, <1>4, StaysOwned
  <2>2. ownerBar[n] # None
    BY <1>2, OwnerOf
  <2>3. carg[n] = None
    BY <1>1 DEF ContInv
  <2>4. n \notin cachedBar
    BY <2>3 DEF cachedBar
  <2>5. cachedBar' = cachedBar \cup {n}
    BY <1>2, <1>4 DEF cachedBar, TypeOK
  <2>6. Pool!GainBuffer(n) /\ n \in Pool!PoolThreads
    BY <1>1, <2>1, <2>2, <2>4, <2>5 DEF Pool!GainBuffer, Pool!PoolThreads, Threads
  <2>7. QED
    BY <2>6 DEF PoolStep, Pool!PoolNext
<1>5. QED
  BY <1>3, <1>4 DEF AllocArgReply

(* The clean-up of __thread_std_smc_entry gives it back.                   *)
LEMMA PoolLoses ==
  ASSUME Owned, ContInv, NEW c \in Cores, NEW n \in Threads, FreeArgReply(c, n)
  PROVE  PoolStep
<1>1. /\ Running(c, n) /\ cont[n] = "freearg" /\ UNCHANGED <<client, prealloc>>
      /\ carg' = [carg EXCEPT ![n] = None] /\ StaysRunning
  BY DEF FreeArgReply, ClearArg
<1>2. state[n] = "ACTIVE" /\ TypeOK
  BY <1>1, RunningThread DEF Owned
<1>3. ownerBar' = ownerBar
  BY <1>1, StaysOwned
<1>4. ownerBar[n] # None
  BY <1>2, OwnerOf
<1>5. ~prealloc
  BY <1>1 DEF ContInv
<1>6. CASE carg[n] = None
  <2>1. carg' = carg
    BY <1>1, <1>2, <1>6 DEF TypeOK
  <2>2. QED
    BY <1>1, <1>3, <2>1, SamePool
<1>7. CASE carg[n] # None
  <2>1. n \in cachedBar
    BY <1>7 DEF cachedBar
  <2>2. cachedBar' = cachedBar \ {n}
    BY <1>1, <1>2 DEF cachedBar, TypeOK
  <2>3. Pool!LoseBuffer(n) /\ n \in Pool!PoolThreads
    BY <1>1, <1>3, <1>4, <1>5, <2>1, <2>2
    DEF Pool!LoseBuffer, Pool!PoolThreads, Threads
  <2>4. QED
    BY <2>3 DEF PoolStep, Pool!PoolNext
<1>8. QED
  BY <1>6, <1>7

LEMMA PoolThreadStep ==
  ASSUME Owned, ContInv, NEW c \in Cores, NEW n \in Threads, ThreadStep(c, n)
  PROVE  PoolStep
<1>1. TypeOK /\ Running(c, n) /\ client' = client /\ prealloc' = prealloc
  BY ThreadStepEffect DEF Owned
<1>2. CASE AllocArgReply(c, n)
  BY <1>2, PoolGains
<1>3. CASE FreeArgReply(c, n)
  BY <1>3, PoolLoses
<1>4. CASE ThreadStateFree(c, n)
  <2>1. state[n] # "FREE"
    BY <1>1, RunningThread
  <2>2. QED
    BY <1>1, <1>4, <2>1, PoolReleases DEF ThreadStateFree
<1>5. CASE /\ Suspends(c, n) \/ StaysRunning
           /\ carg' = carg
  BY <1>1, <1>5, StaysOwned, SamePool
<1>6. CASE \/ ForeignInterrupt(c, n) \/ ThreadRpcCmd(c, n) \/ IssueCmd(c, n)
           \/ ThreadRpcCmdReturns(c, n) \/ StdSmcReturns(c, n)
  <2>1. carg' = carg
    BY <1>6 DEF ForeignInterrupt, ThreadRpcCmd, IssueCmd, ThreadRpcCmdReturns,
       StdSmcReturns
  <2>2. CASE ThreadStateFree(c, n)
    BY <1>4, <2>2
  <2>3. QED
    BY <1>1, <1>5, <2>1, <2>2, ThreadStepEffect
<1>7. QED
  BY <1>2, <1>3, <1>4, <1>6 DEF ThreadStep

(* The two switches of the cache, which only act on an idle pool.          *)
LEMMA PoolEnables ==
  ASSUME TypeOK, NEW c \in Cores, ThreadEnablePreallocRpcCache(c)
  PROVE  PoolStep
<1>1. ownerBar' = ownerBar /\ cachedBar' = cachedBar /\ UNCHANGED carg
  BY DEF ThreadEnablePreallocRpcCache, threadVars, ownerBar, cachedBar
<1>2. CASE AllFree
  <2>1. Pool!EnableCache
    BY <1>1, <1>2, IdlePool DEF Pool!EnableCache, ThreadEnablePreallocRpcCache, NotBusy
  <2>2. QED
    BY <2>1 DEF PoolStep, Pool!PoolNext
<1>3. CASE ~AllFree
  <2>1. prealloc' = prealloc
    BY <1>3 DEF ThreadEnablePreallocRpcCache, NotBusy
  <2>2. QED
    BY <1>1, <2>1, SamePool
<1>4. QED
  BY <1>2, <1>3

LEMMA PoolDisables ==
  ASSUME TypeOK, NEW c \in Cores, ThreadDisablePreallocRpcCache(c)
  PROVE  PoolStep
<1> DEFINE C == {m \in Threads : carg[m] # None}
<1>1. state' = state /\ client' = client
  BY DEF ThreadDisablePreallocRpcCache
<1>2. ownerBar' = ownerBar
  BY <1>1 DEF ownerBar
<1>3. CASE ~AllFree
  BY <1>2, <1>3, SamePool DEF ThreadDisablePreallocRpcCache, NotBusy
<1>4. ASSUME AllFree, NEW n \in 0 .. NumThreads, n < NumThreads, ScanStopsAt(n, C),
             ClearArg(n), UNCHANGED prealloc
      PROVE  PoolStep
  <2>1. n \in Threads /\ carg[n] # None
    BY <1>4 DEF ScanStopsAt
  <2>2. n \in cachedBar
    BY <2>1 DEF cachedBar
  <2>3. cachedBar' = cachedBar \ {n}
    BY <1>4, <2>1 DEF cachedBar, ClearArg, TypeOK
  <2>4. Pool!HandBackBuffer(n) /\ n \in Pool!PoolThreads
    BY <1>2, <1>4, <2>1, <2>2, <2>3, IdlePool
    DEF Pool!HandBackBuffer, Pool!PoolThreads, Threads
  <2>5. QED
    BY <2>4 DEF PoolStep, Pool!PoolNext
<1>5. ASSUME AllFree, NEW n \in 0 .. NumThreads, ~(n < NumThreads), ScanStopsAt(n, C),
             prealloc' = FALSE, UNCHANGED carg
      PROVE  PoolStep
  <2>1. C = {}
    BY <1>5, ConstantsAssumption DEF ScanStopsAt, Threads
  <2>2. cachedBar = {} /\ cachedBar' = cachedBar
    BY <1>5, <2>1 DEF cachedBar
  <2>3. Pool!DisableCache
    BY <1>2, <1>5, <2>2, IdlePool DEF Pool!DisableCache
  <2>4. QED
    BY <2>3 DEF PoolStep, Pool!PoolNext
<1>6. QED
  BY <1>3, <1>4, <1>5 DEF ThreadDisablePreallocRpcCache, NotBusy

LEMMA PoolCoreStep ==
  ASSUME Owned, NEW c \in Cores, CoreStep(c)
  PROVE  PoolStep
<1>0. TypeOK
  BY DEF Owned
<1>1. ASSUME NEW k \in Commands, StartThread(c, k)
      PROVE  PoolStep
  <2>1. UNCHANGED <<state, client, carg, prealloc>>
    BY <1>1 DEF StartThread
  <2>2. QED
    BY <2>1, SamePool DEF ownerBar
<1>2. ASSUME NEW n \in 0 .. NumThreads, NEW g \in Guests,
             NEW k \in Cookies \cup {None}, ResumeFromRpc(c, n, g, k)
      PROVE  PoolStep
  <2>1. UNCHANGED <<client, carg, prealloc>>
    BY <1>2 DEF ResumeFromRpc
  <2>2. /\ state' \in [Threads -> ThreadStates]
        /\ \A m \in Threads : state'[m] = "FREE" <=> state[m] = "FREE"
    BY <1>0, <1>2, ResumedThread DEF TypeOK, ThreadStates
  <2>3. QED
    BY <1>0, <2>1, <2>2, SameOwners, SamePool
<1>3. CASE ResumeThread(c) \/ FreeReturnedShm(c)
  <2>1. UNCHANGED <<state, client, carg, prealloc>>
    BY <1>3 DEF ResumeThread, FreeReturnedShm, threadVars
  <2>2. QED
    BY <2>1, SamePool DEF ownerBar
<1>4. QED
  BY <1>0, <1>1, <1>2, <1>3, PoolTakes, PoolEnables, PoolDisables DEF CoreStep

LEMMA PoolNextStep == Owned /\ ContInv /\ [Next]_vars => PoolStep
<1> SUFFICES ASSUME Owned, ContInv, [Next]_vars PROVE PoolStep
  OBVIOUS
<1>1. ASSUME NEW n \in Threads, HandleRpc(n)
      PROVE  PoolStep
  <2>1. UNCHANGED <<state, client, carg, prealloc>>
    BY <1>1 DEF HandleRpc, threadVars
  <2>2. QED
    BY <2>1, SamePool DEF ownerBar
<1>2. CASE ThreadClrBootThread
  <2>1. TypeOK /\ 0 \in Threads
    BY ConstantsAssumption DEF Owned, Threads
  <2>2. state[0] # "FREE"
    <3>1. Held(BootCore) = 0 /\ BootCore \in Cores
      BY <1>2, <2>1, ConstantsAssumption
      DEF ThreadClrBootThread, Booting, Held, Owned, CoreInv
    <3>2. QED
      BY <2>1, <3>1 DEF Owned, ThreadOwnership
  <2>3. QED
    BY <1>2, <2>1, <2>2, PoolReleases DEF ThreadClrBootThread
<1>3. CASE UNCHANGED vars
  <2>1. UNCHANGED <<state, client, carg, prealloc>>
    BY <1>3 DEF vars, threadVars
  <2>2. QED
    BY <2>1, SamePool DEF ownerBar
<1>4. QED
  BY <1>1, <1>2, <1>3, PoolCoreStep, PoolThreadStep DEF Next, CoreStep, ThreadStep

(* For any number of threads, CPUs, guests and buffers, and any commands:  *)
(* whatever the steps of thread.c do between two releases of               *)
(* thread_global_lock, its users see a pool that keeps the promises of     *)
(* ThreadPool.                                                             *)
THEOREM PoolImplemented == Spec => ImplementsThreadPool
<1>1. Init => Pool!PoolInit
  BY NoneIsFresh, ConstantsAssumption
  DEF Init, Pool!PoolInit, Pool!PoolThreads, Threads, ownerBar, cachedBar
<1>2. Init => Owned /\ ContInv
  BY TypeInit, OwnershipInit, ContInit DEF Owned
<1>3. Owned /\ ContInv /\ [Next]_vars => Owned' /\ ContInv'
  BY TypeStep, OwnershipStep, ContStep DEF Owned
<1>4. Owned /\ ContInv /\ [Next]_vars => [Pool!PoolNext]_(Pool!poolVars)
  BY PoolNextStep DEF PoolStep
<1>5. QED
  BY <1>1, <1>2, <1>3, <1>4, PTL DEF Spec, ImplementsThreadPool, Pool!PoolSpec
=============================================================================
