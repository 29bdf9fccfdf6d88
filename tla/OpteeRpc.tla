------------------------------ MODULE OpteeRpc ------------------------------
(***************************************************************************)
(* The OP-TEE driver with tee-supplicant: while a thread of the kernel is  *)
(* in the secure world, on a call of a client or on an access of Trust.IO, *)
(* the secure world may have requests for tee-supplicant, which the driver *)
(* passes on (rpc.c).  Memory that tee-supplicant allocates the driver     *)
(* holds for the secure world with a reference of its own.                 *)
(*                                                                         *)
(* tee-supplicant may end at any moment and be started again.              *)
(*                                                                         *)
(* The secure world is external: it gives back the memory it got before    *)
(* its call returns, as the handlers of Trust.IO do.  So is supp.c of the  *)
(* driver, which passes a request to tee-supplicant once.                  *)
(***************************************************************************)
EXTENDS OpteeDevice

CONSTANTS
  MaxFd, Ids, Insts, MaxHandle   (* of SuppTables                          *)

VARIABLES
  (* Of SuppTables:                                                        *)
  behind, shmList, db, at, arg, hand, old, mixed, spoilt,
  (* Of a worker: the memory the driver holds for its call.                *)
  piece

Supp == INSTANCE SuppTables WITH Requesters <- Workers

ASSUME RpcAssumption ==
  /\ MaxFd \in Nat /\ MaxHandle \in Nat
  /\ None \notin Supp!Fds \cup Ids \cup Insts
  /\ Supp!Socket \notin Ids \cup {None}

suppVars == <<behind, shmList, db, at, arg, hand, old, mixed, spoilt>>
vars == <<deviceVars, suppVars, piece>>

Init == DeviceInit /\ Supp!TablesInit /\ piece = [w \in Workers |-> None]

(* trustio_tz_call and trustio_tz_read_call go straight to the trusted OS. *)
Access(w) ==
  /\ Move(w, "idle", "access")
  /\ UNCHANGED <<fileVars, sessVars, ctx, sess, overtaken, suppVars, piece>>

AccessOver(w) ==
  /\ Move(w, "access", "end")
  /\ UNCHANGED <<fileVars, sessVars, ctx, sess, overtaken>>

Inside(w) == InSecure(w) \/ pc[w] = "access"
Alive == \E f \in Supps : file[f] = "open"
Held == {piece[w] : w \in Workers} \ {None}
-----------------------------------------------------------------------------
(* cmd_alloc_suppl, and the answer: a reference is taken to the memory     *)
(* that has this identifier now.  That may be the memory of another, if    *)
(* tee-supplicant was started again in between.  Fault: no reference.      *)
NoReference == {behind[f] : f \in Supp!Fds}

InUse == Held \cup {behind[f] : f \in Supp!Fds}

(* New memory is that of nobody else, whatever was mixed up before.        *)
AskAlloc(w) ==
  /\ piece[w] = None
  /\ Supp!Ask(w, "alloc", None)
  /\ mixed' = mixed \ {w}
  /\ UNCHANGED piece

GetPiece(w) ==
  LET found == \E f \in Supp!Fds : behind[f] = arg[w]
      sharers == {v \in Workers : arg[w] \in {arg[v], piece[v]}} IN
  /\ Supp!Fetch(w)
  /\ piece' = [piece EXCEPT ![w] = IF found THEN arg[w] ELSE None]
  /\ old' = IF found THEN old ELSE old \ {w}
  /\ mixed' = IF ~found THEN mixed \ {w}
              ELSE IF w \in old \cup mixed THEN mixed \cup sharers ELSE mixed

(* cmd_free_suppl: the reference goes before the request does.             *)
AskFree(w) ==
  /\ piece[w] # None
  /\ Supp!Ask(w, "free", piece[w])
  /\ piece' = [piece EXCEPT ![w] = None]
  /\ UNCHANGED mixed

(* The network call of Trust.IO, on the memory that was allocated.         *)
AskNetwork(w) ==
  /\ piece[w] # None
  /\ Supp!Ask(w, "network", piece[w])
  /\ UNCHANGED <<mixed, piece>>

(* The requests on a handle, or an instance, that have not left its table. *)
On(s, places) == \E w \in Workers : at[w] \in places /\ arg[w] = s
Ending(i) == \E w \in Workers : at[w] \in {"shut all", "ending"} /\ arg[w] = i

AskHandle(w, s) ==
  /\ db[s] # None /\ ~Ending(s.inst) /\ ~On(s, {"shut", "put"})
  /\ \/ Supp!Ask(w, "send", s)
     \/ Supp!Ask(w, "shut", s) /\ ~On(s, {"send", "use"})

AskInst(w, i) ==
  \/ Supp!Ask(w, "open", i)
  \/ /\ \A s \in Supp!Slots : s.inst = i => ~On(s, {"send", "use", "shut", "put"})
     /\ Supp!Ask(w, "shut all", i)

AskSocket(w) ==
  /\ (\E s \in Supp!Slots : AskHandle(w, s)) \/ (\E i \in Insts : AskInst(w, i))
  /\ UNCHANGED <<mixed, piece>>

(* handle_rpc_func_cmd.                                                    *)
Rpc(w) ==
  /\ \/ /\ Inside(w) /\ at[w] = "none"
        /\ AskAlloc(w) \/ AskFree(w) \/ AskNetwork(w) \/ AskSocket(w)
     \/ GetPiece(w)
  /\ UNCHANGED deviceVars

Serve(w) ==
  /\ at[w] \notin {"none", "answered"}
  /\ IF Alive THEN Supp!Thread(w, InUse) ELSE Supp!Refuse(w)
  /\ UNCHANGED <<deviceVars, piece>>
-----------------------------------------------------------------------------
(* A worker that comes back has no request and no memory.                  *)
Return(w) ==
  /\ at[w] = "none" /\ piece[w] = None
  /\ SecureReturns(w) \/ AccessOver(w)
  /\ UNCHANGED <<suppVars, piece>>

WorkerStep(w) ==
  \/ (BeginCall(w) \/ InDriver(w)) /\ UNCHANGED <<suppVars, piece>>
  \/ Access(w) \/ Return(w) \/ Rpc(w) \/ Serve(w)

(* A file of tee-supplicant is released when the process ends.             *)
FileStep(f) ==
  /\ ClientStep(f)
  /\ IF f \in Supps /\ file[f] = "open"
     THEN Supp!ProcessEnds({w \in Workers : piece[w] # None})
     ELSE UNCHANGED suppVars
  /\ UNCHANGED piece

Next == (\E w \in Workers : WorkerStep(w)) \/ (\E f \in Files : FileStep(f))

Spec == Init /\ [][Next]_vars
-----------------------------------------------------------------------------
TypeOK == DeviceTypeOK /\ Supp!TablesTypeOK /\ piece \in [Workers -> Ids \cup {None}]

(* Who is to close a descriptor: the list of memory, a handle, or a thread *)
(* that has it in hand.                                                    *)
Owners(f) ==
  {<<"list", e>> : e \in {e \in shmList : e.fd = f}}
  \cup {<<"handle", s>> : s \in {s \in Supp!Slots : db[s] = f}}
  \cup {<<"hand", w>> : w \in {w \in Workers : hand[w] = f /\ at[w] \notin {"use", "put"}}}

(* Every descriptor of tee-supplicant that is open is closed by one owner  *)
(* once, and what a table says is open, whatever its threads do at a time  *)
(* (process_alloc, process_free, tee_socket_open, tee_socket_close,        *)
(* tee_socket_close_all).                                                  *)
OwnedOnce ==
  spoilt \/ \A f \in Supp!Fds :
    LET owners == Owners(f) IN
    IF behind[f] = None THEN owners = {} ELSE \E o \in owners : owners = {o}

(* An entry of the list is that of the piece with its identifier, and no   *)
(* other entry has it, so that find_tshm and pop_tshm get the right one.   *)
IdsOnce ==
  spoilt \/ \A e \in shmList :
    behind[e.fd] = e.id /\ \A g \in shmList : g.id = e.id => g = e

(* The calls whose memory cannot be that of another.                       *)
Unmixed == Workers \ mixed

(* The buffer of a network call is memory of the call itself, and stays    *)
(* mapped; also when tee-supplicant was started again and had to find it   *)
(* among new memory (tee_supp_param_to_va, trustio_network_call).          *)
BufferIsOwn ==
  spoilt \/ \A w \in Unmixed :
    at[w] \in {"connect", "transfer"} /\ arg[w] # None =>
      \E e \in shmList : e.id = arg[w] /\ e.by = w

(* Memory that the driver holds for a call is in the list of               *)
(* tee-supplicant for that call, unless tee-supplicant ended after it      *)
(* answered; and no other call holds the same (cmd_alloc_suppl,            *)
(* cmd_free_suppl).                                                        *)
PiecesOwn ==
  spoilt \/ \A w \in Unmixed : piece[w] # None =>
    /\ w \in old \/ \E e \in shmList : e.id = piece[w] /\ e.by = w
    /\ \A v \in Workers : piece[v] = piece[w] => v = w

(* The tables of tee-supplicant hold together, although its threads change *)
(* them in several critical sections (push_tshm, pop_tshm,                 *)
(* sock_handle_get, sock_handle_put).                                      *)
TablesHold == OwnedOnce /\ IdsOnce

(* The memory of a call is its own, on both sides, in the driver and in    *)
(* tee-supplicant.  A restart may mix memory up (rpc.c:205, 281): an       *)
(* identifier answered before it, or memory kept across it, may by then    *)
(* name the memory of another call.  What this says is that nothing else   *)
(* does, in the states before and after restarts and mix-ups: a call that  *)
(* neither went on after a restart with what is of the old process, nor    *)
(* had its memory touched by one that did, keeps its memory to itself; and *)
(* memory kept across a restart is not taken for new memory as long as the *)
(* driver holds it.                                                        *)
MemoryIsOwn == PiecesOwn /\ BufferIsOwn
=============================================================================
