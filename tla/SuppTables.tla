----------------------------- MODULE SuppTables -----------------------------
(***************************************************************************)
(* The tables of tee-supplicant, which all its threads share: the shared   *)
(* memory it allocated (tee_supplicant.c) and the sockets it opened        *)
(* (tee_socket.c), with the descriptors behind them.  A thread serves one  *)
(* request; it has a descriptor in hand while that is in no table.         *)
(*                                                                         *)
(* The kernel is external: it gives a new file the first descriptor that  *)
(* is not open, and a new piece of memory an identifier that is not in     *)
(* use.  So is the table of handles of an instance (handle.h), and so are  *)
(* the socket services of OP-TEE: they give a handle only while it is      *)
(* open, and do not close one that another request is using.               *)
(***************************************************************************)
EXTENDS Integers, FiniteSets

CONSTANTS
  Requesters,  (* who makes requests, one at a time                        *)
  MaxFd,       (* bound: the largest descriptor                            *)
  Ids,         (* bound: identifiers of memory                             *)
  Insts,       (* instances of the socket services                         *)
  MaxHandle,   (* bound: the largest handle of an instance                 *)
  None

Socket == "socket"
Fds == 3 .. MaxFd   (* 0 to 2 are always open                            *)
Slots == [inst : Insts, handle : 0 .. MaxHandle]

VARIABLES
  behind,   (* of a descriptor: a piece of memory, a socket or nothing     *)
  shmList,  (* shm_head: the list of pieces; by is a history               *)
  db,       (* of a handle of an instance: its descriptor                  *)
  at,       (* where the thread that serves a request is                   *)
  arg,      (* what the rest of the request is about; the identifier in an *)
            (* answer, of which nothing else is kept                       *)
  hand,     (* the descriptor the thread has in hand                       *)
  old,      (* history: whose memory or answer is of a process that ended  *)
  mixed,    (* history: whose memory may be mixed up with that of another  *)
            (* after that; see Pop                                         *)
  spoilt    (* history: the descriptor of another was closed; see MapFails *)

tables == <<behind, shmList, db>>
suppVars == <<tables, at, arg, hand, old, mixed, spoilt>>

Asked == {"alloc", "free", "network", "open", "send", "shut", "shut all"}
Places == Asked \cup {"none", "map", "connect", "transfer", "get",
                      "use", "put", "close", "ending", "answered"}

TablesInit ==
  /\ behind = [f \in Fds |-> None]
  /\ shmList = {}
  /\ db = [s \in Slots |-> None]
  /\ at = [r \in Requesters |-> "none"]
  /\ arg = [r \in Requesters |-> None]
  /\ hand = [r \in Requesters |-> None]
  /\ old = {}
  /\ mixed = {}
  /\ spoilt = FALSE

Goto(r, from, to) == at[r] = from /\ at' = [at EXCEPT ![r] = to]
About(r, a) == arg' = [arg EXCEPT ![r] = a]
Hold(r, f) == hand' = [hand EXCEPT ![r] = f]
Finish(r, from) == Goto(r, from, "none") /\ About(r, None)

OpenAs(r, f, what) ==
  /\ behind[f] = None /\ \A g \in 3 .. f - 1 : behind[g] # None
  /\ behind' = [behind EXCEPT ![f] = what]
  /\ Hold(r, f)

CloseFds(S) == behind' = [f \in Fds |-> IF f \in S THEN None ELSE behind[f]]
-----------------------------------------------------------------------------
(* A request arrives.                                                      *)
Ask(r, what, a) ==
  /\ Goto(r, "none", what)
  /\ About(r, a)
  /\ UNCHANGED <<tables, hand, old, spoilt>>

(* The driver fetches the identifier of new memory.                        *)
Fetch(r) ==
  /\ Finish(r, "answered")
  /\ UNCHANGED <<tables, hand, spoilt>>
-----------------------------------------------------------------------------
(* alloc_shm: TEE_IOC_SHM_ALLOC, of memory with an identifier that is free *)
Alloc(r, inUse) ==
  /\ \/ \E f \in Fds, id \in Ids \ inUse :
          /\ Goto(r, "alloc", "map")
          /\ OpenAs(r, f, id)
          /\ About(r, id)
     \/ Finish(r, "alloc") /\ UNCHANGED <<behind, hand>>
  /\ UNCHANGED <<shmList, db, old, mixed, spoilt>>

(* free(shm); close(shm->fd): the number is read from memory that is free. *)
(* It is still there, or something else is.                                *)
MapFails(r) ==
  /\ Finish(r, "map")
  /\ \E f \in Fds : CloseFds({f}) /\ spoilt' = (spoilt \/ f # hand[r])
  /\ Hold(r, None)
  /\ UNCHANGED <<shmList, db, old, mixed>>

(* mmap, push_tshm, and the answer of process_alloc.                       *)
Push(r) ==
  /\ Goto(r, "map", "answered")
  /\ shmList' = shmList \cup {[id |-> arg[r], fd |-> hand[r], by |-> r]}
  /\ Hold(r, None)
  /\ UNCHANGED <<behind, db, arg, old, mixed, spoilt>>

(* Fault: the head of the list, whatever it is.                            *)
Head(id) == shmList

(* The pieces that find_tshm and pop_tshm may find.                        *)
Entries(id) == {e \in shmList : e.id = id}

(* Fault: the piece stays in the list.                                     *)
StaysLinked(e) == shmList

Unlinked(e) == shmList \ {e}

(* pop_tshm, and process_free, which unmaps the piece.  Who has memory of  *)
(* a process that ended, or mixed up memory, may take the piece of another.*)
Pop(r) ==
  /\ \/ \E e \in Entries(arg[r]) :
          /\ Goto(r, "free", "close") /\ About(r, None)
          /\ shmList' = Unlinked(e)
          /\ Hold(r, e.fd)
          /\ mixed' = (IF r \in old \cup mixed THEN mixed \cup {e.by} ELSE mixed) \ {r}
     \/ /\ Entries(arg[r]) = {}
        /\ Finish(r, "free")
        /\ mixed' = mixed \ {r}
        /\ UNCHANGED <<shmList, hand>>
  /\ old' = old \ {r}
  /\ UNCHANGED <<behind, db, spoilt>>

CloseFd(r) ==
  /\ Finish(r, "close")
  /\ CloseFds({hand[r]})
  /\ Hold(r, None)
  /\ UNCHANGED <<shmList, db, old, mixed, spoilt>>
-----------------------------------------------------------------------------
(* trustio_network_call finds its buffer before it connects.               *)
FindBuffer(r) ==
  /\ Goto(r, "network", "connect")
  /\ IF Entries(arg[r]) = {} THEN About(r, None) ELSE UNCHANGED arg
  /\ UNCHANGED <<tables, hand, old, mixed, spoilt>>

(* sock_connect, for trustio_network_call and for tee_socket_open.         *)
Connect(r) ==
  /\ \/ /\ \E f \in Fds : OpenAs(r, f, Socket)
        /\ Goto(r, "connect", "transfer") \/ Goto(r, "open", "get")
        /\ UNCHANGED arg
     \/ /\ Finish(r, "connect") \/ Finish(r, "open")
        /\ UNCHANGED <<behind, hand>>
  /\ UNCHANGED <<shmList, db, old, mixed, spoilt>>

(* The block is sent, and the answer received, or not.                     *)
Transfer(r) ==
  /\ Goto(r, "transfer", "close") /\ About(r, None)
  /\ UNCHANGED <<tables, hand, old, mixed, spoilt>>
-----------------------------------------------------------------------------
(* sock_mutex can be had: only tee_socket_close_all holds it for more than *)
(* a step.                                                                 *)
SockUnlocked == \A r \in Requesters : at[r] # "ending"

(* Fault: the first handle, taken or not.                                  *)
FirstHandle(i) == {s \in Slots : s.inst = i /\ s.handle = 0}

(* handle_get: the first handle that is free.                              *)
FreeHandle(i) ==
  {s \in Slots : /\ s.inst = i /\ db[s] = None
                 /\ \A g \in 0 .. s.handle - 1 : db[[s EXCEPT !.handle = g]] # None}

(* sock_handle_get, and tee_socket_open.                                   *)
GetHandle(r) ==
  /\ at[r] = "get" /\ SockUnlocked
  /\ \/ \E s \in FreeHandle(arg[r]) :
          /\ Finish(r, "get")
          /\ db' = [db EXCEPT ![s] = hand[r]]
          /\ Hold(r, None)
     \/ /\ Goto(r, "get", "close") /\ About(r, None)
        /\ UNCHANGED <<db, hand>>
  /\ UNCHANGED <<behind, shmList, old, mixed, spoilt>>

(* sock_handle_to_fd, to use the socket or to close it.                    *)
LookUp(r) ==
  /\ SockUnlocked
  /\ Goto(r, "send", "use") \/ Goto(r, "shut", "put")
  /\ Hold(r, db[arg[r]])
  /\ UNCHANGED <<tables, arg, old, mixed, spoilt>>

(* The rest of tee_socket_send, _recv and _ioctl.                          *)
Use(r) ==
  /\ Finish(r, "use")
  /\ Hold(r, None)
  /\ UNCHANGED <<tables, old, mixed, spoilt>>

(* Fault: the handle stays in the table.                                   *)
KeepHandle(s) == db

(* Fault: its descriptor becomes -1.                                       *)
NoDescriptor(s) == [db EXCEPT ![s] = -1]

WithoutHandle(s) == [db EXCEPT ![s] = None]

(* sock_handle_put; the descriptor is closed after that.                   *)
Put(r) ==
  /\ SockUnlocked
  /\ Goto(r, "put", "close")
  /\ db' = WithoutHandle(arg[r])
  /\ About(r, None)
  /\ UNCHANGED <<behind, shmList, hand, old, mixed, spoilt>>

(* tee_socket_close_all: under sock_mutex, the descriptors are closed one  *)
(* by one, each with its entry in the table, which nobody else sees; other *)
(* threads may open sockets in between.                                    *)
CloseAll(r) ==
  LET ofInst == {s \in Slots : s.inst = arg[r] /\ db[s] # None} IN
  /\ \/ at[r] = "shut all" /\ SockUnlocked
     \/ at[r] = "ending"
  /\ \/ \E s \in ofInst :
          /\ \A t \in ofInst : s.handle <= t.handle
          /\ CloseFds({db[s]})
          /\ db' = [db EXCEPT ![s] = None]
          /\ at' = [at EXCEPT ![r] = "ending"]
          /\ UNCHANGED arg
     \/ ofInst = {} /\ Finish(r, at[r]) /\ UNCHANGED <<behind, db>>
  /\ UNCHANGED <<shmList, hand, old, mixed, spoilt>>
-----------------------------------------------------------------------------
Thread(r, inUse) ==
  \/ Alloc(r, inUse) \/ MapFails(r) \/ Push(r) \/ Pop(r)
  \/ CloseFd(r) \/ FindBuffer(r) \/ Connect(r) \/ Transfer(r)
  \/ GetHandle(r) \/ LookUp(r) \/ Use(r) \/ Put(r) \/ CloseAll(r)

(* The process ends, and all its files with it.  The driver refuses the    *)
(* requests it has not answered.  Who holds memory of it keeps that.       *)
ProcessEnds(holders) ==
  LET answered == {r \in Requesters : at[r] = "answered"} IN
  /\ CloseFds(Fds)
  /\ shmList' = {}
  /\ db' = [s \in Slots |-> None]
  /\ at' = [r \in Requesters |-> IF r \in answered THEN at[r] ELSE "none"]
  /\ arg' = [r \in Requesters |-> IF r \in answered THEN arg[r] ELSE None]
  /\ hand' = [r \in Requesters |-> None]
  /\ old' = holders \cup answered
  /\ mixed' = mixed \cap (holders \cup answered)
  /\ UNCHANGED spoilt

(* Without a process the driver may refuse a request.                      *)
Refuse(r) ==
  /\ \E what \in Asked : Finish(r, what)
  /\ old' = IF at[r] = "free" THEN old \ {r} ELSE old
  /\ mixed' = IF at[r] = "free" THEN mixed \ {r} ELSE mixed
  /\ UNCHANGED <<tables, hand, spoilt>>
-----------------------------------------------------------------------------
TablesTypeOK ==
  /\ behind \in [Fds -> Ids \cup {Socket, None}]
  /\ shmList \subseteq [id : Ids, fd : Fds, by : Requesters]
  /\ db \in [Slots -> Fds \cup {None}]
  /\ at \in [Requesters -> Places]
  /\ arg \in [Requesters -> Ids \cup Insts \cup Slots \cup {None}]
  /\ hand \in [Requesters -> Fds \cup {None}]
  /\ old \subseteq Requesters /\ mixed \subseteq Requesters
  /\ spoilt \in BOOLEAN
=============================================================================
