----------------------------- MODULE GpioSysfs ------------------------------
(***************************************************************************)
(* The GPIO files of Linux with the hook of Trust.IO                       *)
(* (drivers/gpio/gpiolib-sysfs.c): export, unexport, value_show and        *)
(* value_store of the protected pin, 489, whose value is accessed through  *)
(* TrustIOPin.                                                             *)
(*                                                                         *)
(* An access holds the mutex in the data of the exported pin for as long   *)
(* as the remote server takes, and gpiod_unexport, which holds sysfs_lock, *)
(* waits for it when it unregisters the device: sysfs keeps a device as    *)
(* long as one of its files is being read or written.  That, and           *)
(* gpiod_request and gpiod_free of gpiolib, is external.                   *)
(***************************************************************************)
EXTENDS TrustIOPin, FiniteSets

CONSTANTS
  Data,        (* pieces of memory for struct gpiod_data                   *)
  MaxExports   (* bound: how often the pin is exported                     *)

ASSUME SysfsAssumption ==
  /\ MaxExports \in Nat
  /\ None \notin Data \cup Users

VARIABLES
  step,       (* where a user is in an operation on the files              *)
  held,       (* the data it works with                                    *)
  flags,      (* of the pin: requested, export, sysfs                      *)
  sysfsLock,  (* who holds sysfs_lock                                      *)
  device,     (* the data of the device, None while there is none          *)
  active,     (* who is reading or writing one of its files                *)
  allocated,  (* the data that is allocated                                *)
  mutex,      (* who holds the mutex of a piece of data                    *)
  exports     (* how often the pin was exported                            *)

deviceVars == <<sysfsLock, device, allocated, exports>>
sysfsVars == <<step, held, flags, deviceVars, active, mutex>>
vars == <<accessVars, sysfsVars>>

Init ==
  /\ AccessInit
  /\ step = [u \in Users |-> "idle"]
  /\ held = [u \in Users |-> None]
  /\ flags = {}
  /\ sysfsLock = None
  /\ device = None
  /\ active = {}
  /\ allocated = {}
  /\ mutex = [d \in Data |-> None]
  /\ exports = 0

Move(u, from, to) == step[u] = from /\ step' = [step EXCEPT ![u] = to]
Hold(u, d) == held' = [held EXCEPT ![u] = d]
-----------------------------------------------------------------------------
(* export_store.  Fault: the pin is marked before it is exported.          *)
MarkedAtOnce == {"requested", "sysfs"}

Requested == {"requested"}

ExportRequest(u) ==
  /\ Move(u, "idle", "export")
  /\ "requested" \notin flags
  /\ exports < MaxExports
  /\ flags' = flags \cup Requested
  /\ UNCHANGED <<accessVars, held, deviceVars, active, mutex>>

(* gpiod_export makes the device, which can be used at once; or it fails,  *)
(* for want of memory too, and the pin is freed.                           *)
Export(u, d) ==
  /\ Move(u, "export", "created")
  /\ sysfsLock = None
  /\ "requested" \in flags /\ "export" \notin flags
  /\ d \notin allocated
  /\ allocated' = allocated \cup {d}
  /\ mutex' = [mutex EXCEPT ![d] = None]
  /\ device' = d
  /\ sysfsLock' = u
  /\ exports' = exports + 1
  /\ UNCHANGED <<accessVars, held, flags, active>>

ExportFails(u) ==
  /\ Move(u, "export", "free")
  /\ sysfsLock = None
  /\ UNCHANGED <<accessVars, held, flags, deviceVars, active, mutex>>

ExportDone(u) ==
  /\ Move(u, "created", "mark")
  /\ flags' = flags \cup {"export"}
  /\ sysfsLock' = None
  /\ UNCHANGED <<accessVars, held, device, allocated, exports, active, mutex>>

ExportMark(u) ==
  /\ Move(u, "mark", "idle")
  /\ flags' = flags \cup {"sysfs"}
  /\ UNCHANGED <<accessVars, held, deviceVars, active, mutex>>
-----------------------------------------------------------------------------
(* unexport_store, and the end of an export that failed: gpiod_free.       *)
Unexport(u) ==
  /\ Move(u, "idle", "free")
  /\ "sysfs" \in flags
  /\ flags' = flags \ {"sysfs"}
  /\ UNCHANGED <<accessVars, held, deviceVars, active, mutex>>

(* gpiod_unexport.                                                         *)
Unregister(u) ==
  /\ step[u] = "free"
  /\ sysfsLock = None
  /\ IF "export" \in flags
     THEN /\ Move(u, "free", "drain")
          /\ Hold(u, device)
          /\ flags' = flags \ {"export"}
          /\ device' = None
          /\ sysfsLock' = u
     ELSE /\ Move(u, "free", "release")
          /\ UNCHANGED <<held, flags, device, sysfsLock>>
  /\ UNCHANGED <<accessVars, allocated, exports, active, mutex>>

(* Fault: the device is taken down without waiting for its users.          *)
DeletedOnly == TRUE

NoneActive == active = {}

(* device_unregister comes back.                                           *)
Unregistered(u) ==
  /\ Move(u, "drain", "kfree")
  /\ NoneActive
  /\ sysfsLock' = None
  /\ UNCHANGED <<accessVars, held, flags, device, allocated, exports, active, mutex>>

FreeData(u) ==
  /\ Move(u, "kfree", "release")
  /\ allocated' = allocated \ {held[u]}
  /\ Hold(u, None)
  /\ UNCHANGED <<accessVars, flags, sysfsLock, device, exports, active, mutex>>

Release(u) ==
  /\ Move(u, "release", "idle")
  /\ flags' = flags \ {"requested"}
  /\ UNCHANGED <<accessVars, held, deviceVars, active, mutex>>
-----------------------------------------------------------------------------
(* value_show and value_store.                                             *)
Open(u) ==
  /\ Move(u, "idle", "lock")
  /\ device # None
  /\ \E n \in Accesses : request[n] = None
  /\ active' = active \cup {u}
  /\ Hold(u, device)
  /\ UNCHANGED <<accessVars, flags, deviceVars, mutex>>

(* Fault: value_show and value_store do not take the mutex.                *)
NotLocked(u) == TRUE

(* Fault: they take sysfs_lock first.                                      *)
NeedsSysfsLock(u) == mutex[held[u]] = None /\ sysfsLock = None

MutexFree(u) == mutex[held[u]] = None

Lock(u) ==
  /\ Move(u, "lock", "locked")
  /\ MutexFree(u)
  /\ mutex' = [mutex EXCEPT ![held[u]] = u]
  /\ UNCHANGED <<accessVars, held, flags, deviceVars, active>>

Access(u) ==
  /\ Move(u, "locked", "inside")
  /\ \E n \in Accesses, r \in Requests : Enter(u, n, r)
  /\ UNCHANGED <<held, flags, deviceVars, active, mutex>>

(* The pin is an input, or the number is none: value_store does nothing.   *)
NoAccess(u) ==
  /\ Move(u, "locked", "close")
  /\ mutex' = [mutex EXCEPT ![held[u]] = None]
  /\ UNCHANGED <<accessVars, held, flags, deviceVars, active>>

Unlock(u) ==
  /\ Move(u, "inside", "close")
  /\ Leave(u)
  /\ mutex' = [mutex EXCEPT ![held[u]] = None]
  /\ UNCHANGED <<held, flags, deviceVars, active>>

Close(u) ==
  /\ Move(u, "close", "idle")
  /\ active' = active \ {u}
  /\ Hold(u, None)
  /\ UNCHANGED <<accessVars, flags, deviceVars, mutex>>
-----------------------------------------------------------------------------
(* What needs a lock, and what does not, of the operations u has begun.    *)
Locks(u) ==
  Lock(u) \/ (\E d \in Data : Export(u, d)) \/ ExportFails(u) \/ Unregister(u)

Proceeds(u) ==
  \/ ExportDone(u) \/ ExportMark(u)
  \/ Unregistered(u) \/ FreeData(u) \/ Release(u)
  \/ Access(u) \/ NoAccess(u) \/ Unlock(u) \/ Close(u)
  \/ AccessStep(u) /\ UNCHANGED sysfsVars

Next ==
  \/ \E u \in Users :
       ExportRequest(u) \/ Unexport(u) \/ Open(u) \/ Locks(u) \/ Proceeds(u)
  \/ ServerStep /\ UNCHANGED sysfsVars

Spec == Init /\ [][Next]_vars

-----------------------------------------------------------------------------
SysfsTypeOK ==
  /\ step \in [Users -> {"idle", "export", "created", "mark", "free", "drain",
                         "kfree", "release", "lock", "locked", "inside", "close"}]
  /\ held \in [Users -> Data \cup {None}]
  /\ flags \subseteq {"requested", "export", "sysfs"}
  /\ sysfsLock \in Users \cup {None}
  /\ device \in Data \cup {None}
  /\ active \subseteq Users
  /\ allocated \subseteq Data
  /\ mutex \in [Data -> Users \cup {None}]
  /\ exports \in 0 .. MaxExports

TypeOK == AccessTypeOK /\ SysfsTypeOK

(* Whoever reads or writes the value works with data that has not been     *)
(* freed, although gpiod_unexport frees it without taking its mutex        *)
(* (gpiolib-sysfs.c, gpiod_unexport).                                      *)
DataAlive ==
  \A u \in Users :
    step[u] \in {"lock", "locked", "inside"} => held[u] \in allocated

(* What value_show is about to show of an approved read is still the level *)
(* of the pin: no other access was performed since, not even through the   *)
(* data of another export, which has another mutex.                        *)
ShownIsCurrent ==
  \A u \in Users :
    pc[u] = "done" /\ request[number[u]].kind = "read"
      /\ outcome[number[u]] = "performed" => result[u] = pin

(* When nobody exports or unexports, the pin is exported with everything   *)
(* that belongs to it, or not at all; so it can be unexported, and         *)
(* exported again (export_store and unexport_store, which hold no lock     *)
(* around their steps).                                                    *)
ExportsAreWhole ==
  (\A u \in Users : step[u] \in {"idle", "lock", "locked", "inside", "close"}) =>
    \/ flags = {} /\ device = None /\ allocated = {}
    \/ /\ flags = {"requested", "export", "sysfs"}
       /\ device # None /\ allocated = {device}

(* Only a failure on its way leads to the refusal of an access: the        *)
(* constants of the handlers and the server's answers fit, whatever was in *)
(* the shared memory before (entry_std.c and the server).                  *)
UntroubledArePerformed ==
  \A n \in Accesses : outcome[n] = "refused" => n \in troubled

(* The pin changes only when an access the server answered is performed.   *)
ImplementsProtectedPin == Promise!PinSpec

(* The next step of u waits for nothing, or for what is there.             *)
GoesOn(u) ==
  \/ step[u] \in {"created", "mark", "kfree", "release", "locked", "inside", "close"}
  \/ step[u] \in {"export", "free"} /\ sysfsLock = None
  \/ step[u] = "drain" /\ NoneActive
  \/ step[u] = "lock" /\ MutexFree(u)

Busy == (\E u \in Users : step[u] # "idle") /\ (\A u \in Users : pc[u] # "panic")

(* Whoever has begun an operation can go on, or waits for somebody who     *)
(* can: gpiod_unexport waits for the accesses in progress with sysfs_lock  *)
(* held, so none of them may need it.  Only a panic of OP-TEE, which never *)
(* returns from an access, stops them.                                     *)
NobodyStuck ==
  Busy => \E u \in Users : GoesOn(u) /\ ENABLED (Locks(u) \/ Proceeds(u))
=============================================================================
