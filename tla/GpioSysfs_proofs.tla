-------------------------- MODULE GpioSysfs_proofs --------------------------
(***************************************************************************)
(* Proofs about GpioSysfs and the accesses of TrustIOPin, for any number   *)
(* of users, accesses and exports, and for any numbers written.            *)
(*                                                                         *)
(* The invariant has two halves.  FilesInv: the flag "requested" makes one *)
(* user at a time the owner of the steps of export_store and               *)
(* unexport_store, and while anybody reads or writes the value there is    *)
(* one piece of data, which all of them hold.  AccessInv: what an access   *)
(* has sent, received and decrypted fits what it asked for.                *)
(***************************************************************************)
EXTENDS GpioSysfs, TLAPS

(* The steps of export_store and unexport_store, and of value_show and     *)
(* value_store.                                                            *)
Changing == {"export", "created", "mark", "free", "drain", "kfree", "release"}
Using == {"lock", "locked", "inside", "close"}

Gone == device = None /\ allocated = {}
There == device \in Data /\ allocated = {device}

(* What u has made of the pin.                                             *)
Owns(u) ==
  /\ step[u] = "export" =>
       flags = {"requested"} /\ Gone /\ sysfsLock = None /\ exports < MaxExports
  /\ step[u] = "created" => flags = {"requested"} /\ There /\ sysfsLock = u
  /\ step[u] = "mark" =>
       flags = {"requested", "export"} /\ There /\ sysfsLock = None
  /\ step[u] = "free" =>
       /\ sysfsLock = None
       /\ \/ flags = {"requested"} /\ Gone
          \/ flags = {"requested", "export"} /\ There
  /\ step[u] = "drain" =>
       /\ flags = {"requested"} /\ device = None /\ sysfsLock = u
       /\ held[u] \in Data /\ allocated = {held[u]}
  /\ step[u] = "kfree" =>
       /\ flags = {"requested"} /\ device = None /\ sysfsLock = None
       /\ allocated = {held[u]}
       /\ active = {}
  /\ step[u] = "release" => flags = {"requested"} /\ Gone /\ sysfsLock = None

OneOwner ==
  /\ \A u, v \in Users : step[u] \in Changing /\ step[v] \in Changing => u = v
  /\ \A u \in Users : Owns(u)
  /\ \/ \E u \in Users : step[u] \in Changing
     \/ sysfsLock = None /\ flags = {} /\ Gone
     \/ sysfsLock = None /\ flags = {"requested", "export", "sysfs"} /\ There

UsersHold ==
  /\ active = {u \in Users : step[u] \in Using}
  /\ \A u \in active : held[u] \in Data /\ allocated = {held[u]}
  /\ \A u \in Users : step[u] \in {"locked", "inside"} => mutex[held[u]] = u
  /\ \A u \in Users : pc[u] # "out" <=> step[u] = "inside"

FilesInv == OneOwner /\ UsersHold

(* Nothing has happened yet to an access that has not been made.           *)
Untouched(n) ==
  /\ up[n] = None /\ down[n] = None /\ conn[n] = "none"
  /\ n \notin served \cup answered
  /\ outcome[n] = "open"

Word(n) == TarVal(request[n].kind)

(* What is on the wire of an access, and what the server made of it.       *)
WireFits(n) ==
  /\ request[n] = None => Untouched(n)
  /\ up[n] # None => up[n] = Word(n)
  /\ down[n] # None => n \in answered /\ down[n] = Word(n) + 1
  /\ conn[n] = "none" => n \notin served
  /\ n \in answered => n \in served /\ server # n
  /\ server = n => n \in served
  /\ outcome[n] = "refused" => n \in troubled

(* What the user that makes an access has of it.                           *)
AccessFits(u) ==
  LET n == number[u]
  IN  /\ n \in Accesses
      /\ request[n] # None
      /\ pc[u] \in {"call", "secure", "connect", "send", "recv", "verify"} =>
           outcome[n] = "open"
      /\ pc[u] \in {"connect", "send", "recv"} => buffer[u] = Word(n)
      /\ pc[u] = "verify" =>
           \/ n \in troubled /\ buffer[u] \in {Word(n), Garbage}
           \/ n \in answered /\ buffer[u] = Word(n) + 1

AccessInv ==
  /\ \A n \in Accesses : WireFits(n)
  /\ \A u \in Users : pc[u] # "out" => AccessFits(u)
  /\ \A u, v \in Users :
       pc[u] # "out" /\ pc[v] # "out" /\ number[u] = number[v] => u = v

Inv == TypeOK /\ FilesInv /\ AccessInv /\ ShownIsCurrent
-----------------------------------------------------------------------------
LEMMA EnterInv ==
  ASSUME AccessTypeOK, AccessInv, NEW u \in Users, NEW n \in Accesses, NEW r \in Requests,
         Enter(u, n, r)
  PROVE  AccessTypeOK' /\ AccessInv'
  <1> USE PinAssumption DEF AccessTypeOK, AccessInv, Enter, Goto, netVars, serverVars
  <1>1. AccessTypeOK'
    BY DEF Dead, NoMemory, Garbage, TarVal, Level, Requests, Accesses
  <1>2. \A m \in Accesses : WireFits(m)'
    BY DEF WireFits, Untouched, Word, TarVal, Garbage, AccessFits
  <1>3. \A v \in Users : pc'[v] # "out" => AccessFits(v)'
    BY DEF AccessFits, Word, TarVal, Garbage, WireFits, Untouched
  <1>4. \A v, w \in Users :
          pc'[v] # "out" /\ pc'[w] # "out" /\ number'[v] = number'[w] => v = w
    BY DEF AccessFits
  <1> QED BY <1>1, <1>2, <1>3, <1>4

LEMMA GetMsgArgInv ==
  ASSUME AccessTypeOK, AccessInv, NEW u \in Users, GetMsgArg(u)
  PROVE  AccessTypeOK' /\ AccessInv'
  <1> USE PinAssumption DEF AccessTypeOK, AccessInv, GetMsgArg, Goto, netVars,
      serverVars, Trouble
  <1>0. number[u] \in Accesses /\ AccessFits(u)
    BY DEF AccessFits
  <1>1. AccessTypeOK'
    BY <1>0 DEF Dead, NoMemory, Garbage, TarVal, Level, Requests, Accesses
  <1>2. \A m \in Accesses : WireFits(m)'
    BY <1>0 DEF WireFits, Untouched, Word, TarVal, Garbage, AccessFits
  <1>3. \A v \in Users : pc'[v] # "out" => AccessFits(v)'
    BY <1>0 DEF AccessFits, Word, TarVal, Garbage, WireFits
  <1>4. \A v, w \in Users :
          pc'[v] # "out" /\ pc'[w] # "out" /\ number'[v] = number'[w] => v = w
    BY DEF AccessFits
  <1> QED BY <1>1, <1>2, <1>3, <1>4

LEMMA AllocPayloadInv ==
  ASSUME AccessTypeOK, AccessInv, NEW u \in Users, AllocPayload(u)
  PROVE  AccessTypeOK' /\ AccessInv'
  <1> USE PinAssumption DEF AccessTypeOK, AccessInv, AllocPayload, Goto, netVars,
      serverVars, Trouble
  <1>0. number[u] \in Accesses /\ AccessFits(u)
    BY DEF AccessFits
  <1>1. AccessTypeOK'
    <2>1. TarVal(request[number[u]].kind) \in Int
      BY DEF TarVal
    <2> QED BY <1>0, <2>1
  <1>2. \A m \in Accesses : WireFits(m)'
    BY <1>0 DEF WireFits, Untouched, Word, TarVal, Garbage, AccessFits
  <1>3. \A v \in Users : pc'[v] # "out" => AccessFits(v)'
    BY <1>0 DEF AccessFits, Word, TarVal, Garbage, WireFits
  <1>4. \A v, w \in Users :
          pc'[v] # "out" /\ pc'[w] # "out" /\ number'[v] = number'[w] => v = w
    BY DEF AccessFits
  <1> QED BY <1>1, <1>2, <1>3, <1>4

LEMMA ConnectInv ==
  ASSUME AccessTypeOK, AccessInv, NEW u \in Users, Connect(u)
  PROVE  AccessTypeOK' /\ AccessInv'
  <1> USE PinAssumption DEF AccessTypeOK, AccessInv, Connect, Goto, netVars,
      serverVars, Trouble
  <1>0. number[u] \in Accesses /\ AccessFits(u)
    BY DEF AccessFits
  <1>1. AccessTypeOK'
    BY <1>0 DEF Dead, NoMemory, Garbage, TarVal, Level, Requests, Accesses
  <1>2. \A m \in Accesses : WireFits(m)'
    BY <1>0 DEF WireFits, Untouched, Word, TarVal, Garbage, AccessFits
  <1>3. \A v \in Users : pc'[v] # "out" => AccessFits(v)'
    BY <1>0 DEF AccessFits, Word, TarVal, Garbage, WireFits
  <1>4. \A v, w \in Users :
          pc'[v] # "out" /\ pc'[w] # "out" /\ number'[v] = number'[w] => v = w
    BY DEF AccessFits
  <1> QED BY <1>1, <1>2, <1>3, <1>4

LEMMA SendInv ==
  ASSUME AccessTypeOK, AccessInv, NEW u \in Users, Send(u)
  PROVE  AccessTypeOK' /\ AccessInv'
  <1> USE PinAssumption DEF AccessTypeOK, AccessInv, Send, Goto, netVars,
      serverVars, Trouble, CloseConn
  <1>0. number[u] \in Accesses /\ AccessFits(u)
    BY DEF AccessFits
  <1>1. AccessTypeOK'
    BY <1>0
  <1>2. \A m \in Accesses : WireFits(m)'
    BY <1>0 DEF WireFits, Untouched, Word, TarVal, Garbage, AccessFits
  <1>3. \A v \in Users : pc'[v] # "out" => AccessFits(v)'
    BY <1>0 DEF AccessFits, Word, TarVal, Garbage, WireFits
  <1>4. \A v, w \in Users :
          pc'[v] # "out" /\ pc'[w] # "out" /\ number'[v] = number'[w] => v = w
    BY DEF AccessFits
  <1> QED BY <1>1, <1>2, <1>3, <1>4

LEMMA RecvInv ==
  ASSUME AccessTypeOK, AccessInv, NEW u \in Users, Recv(u)
  PROVE  AccessTypeOK' /\ AccessInv'
  <1> USE PinAssumption DEF AccessTypeOK, AccessInv, Recv, Goto, netVars,
      serverVars, Trouble, CloseConn
  <1>0. number[u] \in Accesses /\ AccessFits(u)
    BY DEF AccessFits
  <1>1. AccessTypeOK'
    BY <1>0 DEF Garbage
  <1>2. \A m \in Accesses : WireFits(m)'
    BY <1>0 DEF WireFits, Untouched, Word, TarVal, Garbage, AccessFits
  <1>3. \A v \in Users : pc'[v] # "out" => AccessFits(v)'
    BY <1>0 DEF AccessFits, Word, TarVal, Garbage, WireFits
  <1>4. \A v, w \in Users :
          pc'[v] # "out" /\ pc'[w] # "out" /\ number'[v] = number'[w] => v = w
    BY DEF AccessFits
  <1> QED BY <1>1, <1>2, <1>3, <1>4

LEMMA VerifyInv ==
  ASSUME AccessTypeOK, AccessInv, NEW u \in Users, Verify(u)
  PROVE  AccessTypeOK' /\ AccessInv'
  <1> USE PinAssumption DEF AccessTypeOK, AccessInv, Verify, Goto, netVars,
      serverVars, Approves
  <1>0. number[u] \in Accesses /\ AccessFits(u)
    BY DEF AccessFits
  <1>1. AccessTypeOK'
    BY <1>0 DEF Level
  <1>2. \A m \in Accesses : WireFits(m)'
    BY <1>0 DEF WireFits, Untouched, Word, TarVal, Garbage, AccessFits
  <1>3. \A v \in Users : pc'[v] # "out" => AccessFits(v)'
    BY <1>0 DEF AccessFits, Word, TarVal, Garbage, WireFits
  <1>4. \A v, w \in Users :
          pc'[v] # "out" /\ pc'[w] # "out" /\ number'[v] = number'[w] => v = w
    BY DEF AccessFits
  <1> QED BY <1>1, <1>2, <1>3, <1>4

LEMMA LeaveInv ==
  ASSUME AccessTypeOK, AccessInv, NEW u \in Users, Leave(u)
  PROVE  AccessTypeOK' /\ AccessInv'
  <1> USE PinAssumption DEF AccessTypeOK, AccessInv, Leave, Goto, netVars, serverVars
  <1>0. number[u] \in Accesses /\ AccessFits(u)
    BY DEF AccessFits
  <1>1. AccessTypeOK'
    BY <1>0 DEF Dead, NoMemory, Garbage, TarVal, Level, Requests, Accesses
  <1>2. \A m \in Accesses : WireFits(m)'
    BY <1>0 DEF WireFits, Untouched, Word, TarVal, Garbage, AccessFits
  <1>3. \A v \in Users : pc'[v] # "out" => AccessFits(v)'
    BY <1>0 DEF AccessFits, Word, TarVal, Garbage, WireFits
  <1>4. \A v, w \in Users :
          pc'[v] # "out" /\ pc'[w] # "out" /\ number'[v] = number'[w] => v = w
    BY DEF AccessFits
  <1> QED BY <1>1, <1>2, <1>3, <1>4

LEMMA ServerAcceptInv ==
  ASSUME AccessTypeOK, AccessInv, NEW n \in Accesses, ServerAccept(n)
  PROVE  AccessTypeOK' /\ AccessInv'
  <1> USE PinAssumption DEF AccessTypeOK, AccessInv, ServerAccept, Goto, netVars, serverVars
  <1>0. /\ None \notin Accesses /\ Dead \notin Accesses /\ WireFits(n)
        /\ up[n] # None => up[n] \in Int
    BY DEF Accesses, Dead
  <1>1. AccessTypeOK'
    BY <1>0 DEF Dead, NoMemory, Garbage, TarVal, Level, Requests, Accesses
  <1>2. \A m \in Accesses : WireFits(m)'
    BY <1>0 DEF WireFits, Untouched, Word, TarVal, Garbage, AccessFits
  <1>3. \A v \in Users : pc'[v] # "out" => AccessFits(v)'
    BY <1>0 DEF AccessFits, Word, TarVal, Garbage, WireFits
  <1>4. \A v, w \in Users :
          pc'[v] # "out" /\ pc'[w] # "out" /\ number'[v] = number'[w] => v = w
    BY <1>0 DEF AccessFits
  <1> QED BY <1>1, <1>2, <1>3, <1>4

LEMMA ServerAnswerInv ==
  ASSUME AccessTypeOK, AccessInv, NEW n \in Accesses, ServerAnswer(n)
  PROVE  AccessTypeOK' /\ AccessInv'
  <1> USE PinAssumption DEF AccessTypeOK, AccessInv, ServerAnswer, Goto, netVars, serverVars
  <1>0. /\ None \notin Accesses /\ Dead \notin Accesses /\ WireFits(n)
        /\ up[n] # None => up[n] \in Int
    BY DEF Accesses, Dead
  <1>1. AccessTypeOK'
    BY <1>0 DEF Dead, NoMemory, Garbage, TarVal, Level, Requests, Accesses
  <1>2. \A m \in Accesses : WireFits(m)'
    BY <1>0 DEF WireFits, Untouched, Word, TarVal, Garbage, AccessFits
  <1>3. \A v \in Users : pc'[v] # "out" => AccessFits(v)'
    BY <1>0 DEF AccessFits, Word, TarVal, Garbage, WireFits
  <1>4. \A v, w \in Users :
          pc'[v] # "out" /\ pc'[w] # "out" /\ number'[v] = number'[w] => v = w
    BY <1>0 DEF AccessFits
  <1> QED BY <1>1, <1>2, <1>3, <1>4

LEMMA ServerDiesInv ==
  ASSUME AccessTypeOK, AccessInv, NEW n \in Accesses, ServerDies(n)
  PROVE  AccessTypeOK' /\ AccessInv'
  <1> USE PinAssumption DEF AccessTypeOK, AccessInv, ServerDies, Goto, netVars,
      serverVars, Trouble
  <1>0. /\ None \notin Accesses /\ Dead \notin Accesses /\ WireFits(n)
        /\ up[n] # None => up[n] \in Int
    BY DEF Accesses, Dead
  <1>1. AccessTypeOK'
    BY <1>0 DEF Dead, NoMemory, Garbage, TarVal, Level, Requests, Accesses
  <1>2. \A m \in Accesses : WireFits(m)'
    BY <1>0 DEF WireFits, Untouched, Word, TarVal, Garbage, AccessFits
  <1>3. \A v \in Users : pc'[v] # "out" => AccessFits(v)'
    BY <1>0 DEF AccessFits, Word, TarVal, Garbage, WireFits
  <1>4. \A v, w \in Users :
          pc'[v] # "out" /\ pc'[w] # "out" /\ number'[v] = number'[w] => v = w
    BY <1>0 DEF AccessFits
  <1> QED BY <1>1, <1>2, <1>3, <1>4
-----------------------------------------------------------------------------

LEMMA ExportRequestFiles ==
  ASSUME SysfsTypeOK, FilesInv, NEW u \in Users, ExportRequest(u)
  PROVE  SysfsTypeOK' /\ FilesInv'
  <1> USE SysfsAssumption
      DEF SysfsTypeOK, FilesInv, ExportRequest, Move, Hold, deviceVars, Requested
  <1>1. SysfsTypeOK'
    OBVIOUS
  <1>0. \A v \in Users : step[v] \notin Changing
    BY DEF OneOwner, Owns, Changing
  <1>2. OneOwner'
    <2>1. flags = {} /\ Gone /\ sysfsLock = None
      BY <1>0 DEF OneOwner
    <2>2. \A v \in Users : step'[v] \in Changing => v = u
      BY <1>0
    <2> QED BY <2>1, <2>2 DEF OneOwner, Owns, Gone, Changing
  <1>3. UsersHold'
    BY DEF OneOwner, Owns, Gone, There, Changing, UsersHold, Using,
           accessVars
  <1> QED BY <1>1, <1>2, <1>3

LEMMA ExportFiles ==
  ASSUME SysfsTypeOK, FilesInv, NEW u \in Users, NEW d \in Data, Export(u, d)
  PROVE  SysfsTypeOK' /\ FilesInv'
  <1> USE SysfsAssumption
      DEF SysfsTypeOK, FilesInv, Export, Move, Hold, deviceVars
  <1>1. SysfsTypeOK'
    BY DEF OneOwner, Owns
  <1>2. OneOwner'
    BY DEF OneOwner, Owns, Gone, There, Changing, UsersHold, Using
  <1>3. UsersHold'
    BY DEF OneOwner, Owns, Gone, There, Changing, UsersHold, Using,
           accessVars
  <1> QED BY <1>1, <1>2, <1>3

LEMMA ExportFailsFiles ==
  ASSUME SysfsTypeOK, FilesInv, NEW u \in Users, ExportFails(u)
  PROVE  SysfsTypeOK' /\ FilesInv'
  <1> USE SysfsAssumption
      DEF SysfsTypeOK, FilesInv, ExportFails, Move, Hold, deviceVars
  <1>1. SysfsTypeOK'
    OBVIOUS
  <1>2. OneOwner'
    BY DEF OneOwner, Owns, Gone, There, Changing, UsersHold, Using
  <1>3. UsersHold'
    BY DEF OneOwner, Owns, Gone, There, Changing, UsersHold, Using,
           accessVars
  <1> QED BY <1>1, <1>2, <1>3

LEMMA ExportDoneFiles ==
  ASSUME SysfsTypeOK, FilesInv, NEW u \in Users, ExportDone(u)
  PROVE  SysfsTypeOK' /\ FilesInv'
  <1> USE SysfsAssumption
      DEF SysfsTypeOK, FilesInv, ExportDone, Move, Hold, deviceVars
  <1>1. SysfsTypeOK'
    OBVIOUS
  <1>2. OneOwner'
    BY DEF OneOwner, Owns, Gone, There, Changing, UsersHold, Using
  <1>3. UsersHold'
    BY DEF OneOwner, Owns, Gone, There, Changing, UsersHold, Using,
           accessVars
  <1> QED BY <1>1, <1>2, <1>3

LEMMA ExportMarkFiles ==
  ASSUME SysfsTypeOK, FilesInv, NEW u \in Users, ExportMark(u)
  PROVE  SysfsTypeOK' /\ FilesInv'
  <1> USE SysfsAssumption
      DEF SysfsTypeOK, FilesInv, ExportMark, Move, Hold, deviceVars
  <1>1. SysfsTypeOK'
    OBVIOUS
  <1>2. OneOwner'
    BY DEF OneOwner, Owns, Gone, There, Changing, UsersHold, Using
  <1>3. UsersHold'
    BY DEF OneOwner, Owns, Gone, There, Changing, UsersHold, Using,
           accessVars
  <1> QED BY <1>1, <1>2, <1>3

LEMMA UnexportFiles ==
  ASSUME SysfsTypeOK, FilesInv, NEW u \in Users, Unexport(u)
  PROVE  SysfsTypeOK' /\ FilesInv'
  <1> USE SysfsAssumption
      DEF SysfsTypeOK, FilesInv, Unexport, Move, Hold, deviceVars
  <1>1. SysfsTypeOK'
    OBVIOUS
  <1>2. OneOwner'
    BY DEF OneOwner, Owns, Gone, There, Changing, UsersHold, Using
  <1>3. UsersHold'
    BY DEF OneOwner, Owns, Gone, There, Changing, UsersHold, Using,
           accessVars
  <1> QED BY <1>1, <1>2, <1>3

LEMMA UnregisterFiles ==
  ASSUME SysfsTypeOK, FilesInv, NEW u \in Users, Unregister(u)
  PROVE  SysfsTypeOK' /\ FilesInv'
  <1> USE SysfsAssumption
      DEF SysfsTypeOK, FilesInv, Unregister, Move, Hold, deviceVars
  <1>1. SysfsTypeOK'
    <2>1. CASE "export" \in flags
      <3>1. held' = [held EXCEPT ![u] = device]
        BY <2>1
      <3>2. held' \in [Users -> Data \cup {None}]
        BY <3>1
      <3>3. step' = [step EXCEPT ![u] = "drain"]
        BY <2>1
      <3>4. step' \in [Users -> {"idle", "export", "created", "mark", "free",
                                "drain", "kfree", "release", "lock", "locked",
                                "inside", "close"}]
        BY <3>3
      <3> QED BY <2>1, <3>2, <3>4
    <2>2. CASE "export" \notin flags
      BY <2>2
    <2> QED BY <2>1, <2>2
  <1>2. OneOwner'
    BY DEF OneOwner, Owns, Gone, There, Changing, UsersHold, Using
  <1>3. UsersHold'
    BY DEF OneOwner, Owns, Gone, There, Changing, UsersHold, Using,
           accessVars
  <1> QED BY <1>1, <1>2, <1>3

LEMMA UnregisteredFiles ==
  ASSUME SysfsTypeOK, FilesInv, NEW u \in Users, Unregistered(u)
  PROVE  SysfsTypeOK' /\ FilesInv'
  <1> USE SysfsAssumption
      DEF SysfsTypeOK, FilesInv, Unregistered, Move, Hold, deviceVars, NoneActive
  <1>1. SysfsTypeOK'
    OBVIOUS
  <1>2. OneOwner'
    BY DEF OneOwner, Owns, Gone, There, Changing, UsersHold, Using
  <1>3. UsersHold'
    BY DEF OneOwner, Owns, Gone, There, Changing, UsersHold, Using,
           accessVars
  <1> QED BY <1>1, <1>2, <1>3

LEMMA FreeDataFiles ==
  ASSUME SysfsTypeOK, FilesInv, NEW u \in Users, FreeData(u)
  PROVE  SysfsTypeOK' /\ FilesInv'
  <1> USE SysfsAssumption
      DEF SysfsTypeOK, FilesInv, FreeData, Move, Hold, deviceVars
  <1>1. SysfsTypeOK'
    OBVIOUS
  <1>2. OneOwner'
    BY DEF OneOwner, Owns, Gone, There, Changing, UsersHold, Using
  <1>3. UsersHold'
    BY DEF OneOwner, Owns, Gone, There, Changing, UsersHold, Using,
           accessVars
  <1> QED BY <1>1, <1>2, <1>3

LEMMA ReleaseFiles ==
  ASSUME SysfsTypeOK, FilesInv, NEW u \in Users, Release(u)
  PROVE  SysfsTypeOK' /\ FilesInv'
  <1> USE SysfsAssumption
      DEF SysfsTypeOK, FilesInv, Release, Move, Hold, deviceVars
  <1>1. SysfsTypeOK'
    OBVIOUS
  <1>2. OneOwner'
    BY DEF OneOwner, Owns, Gone, There, Changing, UsersHold, Using
  <1>3. UsersHold'
    BY DEF OneOwner, Owns, Gone, There, Changing, UsersHold, Using,
           accessVars
  <1> QED BY <1>1, <1>2, <1>3

LEMMA OpenFiles ==
  ASSUME SysfsTypeOK, FilesInv, NEW u \in Users, Open(u)
  PROVE  SysfsTypeOK' /\ FilesInv'
  <1> USE SysfsAssumption
      DEF SysfsTypeOK, FilesInv, Open, Move, Hold, deviceVars
  <1>1. SysfsTypeOK'
    OBVIOUS
  <1>2. OneOwner'
    BY DEF OneOwner, Owns, Gone, There, Changing, UsersHold, Using
  <1>3. UsersHold'
    BY DEF OneOwner, Owns, Gone, There, Changing, UsersHold, Using,
           accessVars
  <1> QED BY <1>1, <1>2, <1>3

LEMMA LockFiles ==
  ASSUME SysfsTypeOK, FilesInv, NEW u \in Users, Lock(u)
  PROVE  SysfsTypeOK' /\ FilesInv'
  <1> USE SysfsAssumption
      DEF SysfsTypeOK, FilesInv, Lock, Move, Hold, deviceVars, MutexFree
  <1>1. SysfsTypeOK'
    OBVIOUS
  <1>2. OneOwner'
    BY DEF OneOwner, Owns, Gone, There, Changing, UsersHold, Using
  <1>3. UsersHold'
    BY DEF OneOwner, Owns, Gone, There, Changing, UsersHold, Using,
           accessVars
  <1> QED BY <1>1, <1>2, <1>3

LEMMA AccessFiles ==
  ASSUME AccessTypeOK, SysfsTypeOK, FilesInv, NEW u \in Users, Access(u)
  PROVE  SysfsTypeOK' /\ FilesInv'
  <1> USE SysfsAssumption
      DEF SysfsTypeOK, FilesInv, Access, Move, Hold, deviceVars, Enter, Goto
  <1>1. SysfsTypeOK'
    OBVIOUS
  <1>2. OneOwner'
    BY DEF OneOwner, Owns, Gone, There, Changing, UsersHold, Using
  <1>3. UsersHold'
    BY DEF OneOwner, Owns, Gone, There, Changing, UsersHold, Using,
           AccessTypeOK
  <1> QED BY <1>1, <1>2, <1>3

LEMMA NoAccessFiles ==
  ASSUME SysfsTypeOK, FilesInv, NEW u \in Users, NoAccess(u)
  PROVE  SysfsTypeOK' /\ FilesInv'
  <1> USE SysfsAssumption
      DEF SysfsTypeOK, FilesInv, NoAccess, Move, Hold, deviceVars
  <1>1. SysfsTypeOK'
    OBVIOUS
  <1>2. OneOwner'
    BY DEF OneOwner, Owns, Gone, There, Changing, UsersHold, Using
  <1>3. UsersHold'
    BY DEF OneOwner, Owns, Gone, There, Changing, UsersHold, Using,
           accessVars
  <1> QED BY <1>1, <1>2, <1>3

LEMMA UnlockFiles ==
  ASSUME AccessTypeOK, SysfsTypeOK, FilesInv, NEW u \in Users, Unlock(u)
  PROVE  SysfsTypeOK' /\ FilesInv'
  <1> USE SysfsAssumption
      DEF SysfsTypeOK, FilesInv, Unlock, Move, Hold, deviceVars, Leave, Goto
  <1>1. SysfsTypeOK'
    OBVIOUS
  <1>2. OneOwner'
    BY DEF OneOwner, Owns, Gone, There, Changing, UsersHold, Using
  <1>3. UsersHold'
    BY DEF OneOwner, Owns, Gone, There, Changing, UsersHold, Using,
           AccessTypeOK
  <1> QED BY <1>1, <1>2, <1>3

LEMMA CloseFiles ==
  ASSUME SysfsTypeOK, FilesInv, NEW u \in Users, Close(u)
  PROVE  SysfsTypeOK' /\ FilesInv'
  <1> USE SysfsAssumption
      DEF SysfsTypeOK, FilesInv, Close, Move, Hold, deviceVars
  <1>1. SysfsTypeOK'
    OBVIOUS
  <1>2. OneOwner'
    BY DEF OneOwner, Owns, Gone, There, Changing, UsersHold, Using
  <1>3. UsersHold'
    BY DEF OneOwner, Owns, Gone, There, Changing, UsersHold, Using,
           accessVars
  <1> QED BY <1>1, <1>2, <1>3
-----------------------------------------------------------------------------
(* No two accesses are made at the same time.                              *)
LEMMA OneInside ==
  ASSUME FilesInv
  PROVE  \A u, v \in Users : pc[u] # "out" /\ pc[v] # "out" => u = v
  BY DEF FilesInv, UsersHold, Using

LEMMA InitInv == Init => Inv
  <1> SUFFICES ASSUME Init PROVE Inv
    OBVIOUS
  <1> USE PinAssumption, SysfsAssumption DEF Init, AccessInit
  <1>1. TypeOK
    BY DEF TypeOK, AccessTypeOK, SysfsTypeOK
  <1>2. FilesInv
    BY DEF FilesInv, OneOwner, Owns, Gone, Changing, UsersHold, Using
  <1>3. AccessInv
    BY DEF AccessInv, WireFits, Untouched, Accesses
  <1>4. ShownIsCurrent
    BY DEF ShownIsCurrent
  <1> QED BY <1>1, <1>2, <1>3, <1>4 DEF Inv

(* The steps that leave the access alone.                                  *)
LEMMA FilesStep ==
  ASSUME Inv, UNCHANGED accessVars, SysfsTypeOK', FilesInv'
  PROVE  Inv'
  <1> USE DEF Inv, accessVars, netVars, serverVars
  <1>1. TypeOK'
    BY DEF TypeOK, AccessTypeOK
  <1>2. AccessInv'
    BY DEF AccessInv, WireFits, Untouched, Word, AccessFits
  <1>3. ShownIsCurrent'
    BY DEF ShownIsCurrent
  <1> QED BY <1>1, <1>2, <1>3

(* The steps that leave the files alone.                                   *)
LEMMA WireStep ==
  ASSUME Inv, UNCHANGED sysfsVars, AccessTypeOK', AccessInv',
         \A u \in Users : pc'[u] # "out" <=> pc[u] # "out",
         ShownIsCurrent'
  PROVE  Inv'
  <1> USE DEF Inv, sysfsVars, deviceVars
  <1>1. TypeOK'
    BY DEF TypeOK, SysfsTypeOK
  <1>2. FilesInv'
    BY DEF FilesInv, OneOwner, Owns, Gone, There, UsersHold
  <1> QED BY <1>1, <1>2

LEMMA AccessStepInv ==
  ASSUME Inv, NEW u \in Users, AccessStep(u), UNCHANGED sysfsVars
  PROVE  Inv'
  <1> USE DEF Goto
  <1>0. AccessTypeOK /\ AccessInv /\ FilesInv /\ ShownIsCurrent
    BY DEF Inv, TypeOK
  <1>1. CASE GetMsgArg(u)
    <2>1. AccessTypeOK' /\ AccessInv'
      BY <1>0, <1>1, GetMsgArgInv
    <2>2. \A v \in Users : pc'[v] # "out" <=> pc[v] # "out"
      BY <1>0, <1>1 DEF GetMsgArg, AccessTypeOK, CloseConn
    <2>3. ShownIsCurrent'
      BY <1>0, <1>1, OneInside DEF ShownIsCurrent, GetMsgArg, AccessTypeOK, AccessInv,
         AccessFits, CloseConn
    <2> QED BY <2>1, <2>2, <2>3, WireStep
  <1>2. CASE AllocPayload(u)
    <2>1. AccessTypeOK' /\ AccessInv'
      BY <1>0, <1>2, AllocPayloadInv
    <2>2. \A v \in Users : pc'[v] # "out" <=> pc[v] # "out"
      BY <1>0, <1>2 DEF AllocPayload, AccessTypeOK, CloseConn
    <2>3. ShownIsCurrent'
      BY <1>0, <1>2, OneInside DEF ShownIsCurrent, AllocPayload, AccessTypeOK, AccessInv,
         AccessFits, CloseConn
    <2> QED BY <2>1, <2>2, <2>3, WireStep
  <1>3. CASE Connect(u)
    <2>1. AccessTypeOK' /\ AccessInv'
      BY <1>0, <1>3, ConnectInv
    <2>2. \A v \in Users : pc'[v] # "out" <=> pc[v] # "out"
      BY <1>0, <1>3 DEF Connect, AccessTypeOK, CloseConn
    <2>3. ShownIsCurrent'
      BY <1>0, <1>3, OneInside DEF ShownIsCurrent, Connect, AccessTypeOK, AccessInv,
         AccessFits, CloseConn
    <2> QED BY <2>1, <2>2, <2>3, WireStep
  <1>4. CASE Send(u)
    <2>1. AccessTypeOK' /\ AccessInv'
      BY <1>0, <1>4, SendInv
    <2>2. \A v \in Users : pc'[v] # "out" <=> pc[v] # "out"
      BY <1>0, <1>4 DEF Send, AccessTypeOK, CloseConn
    <2>3. ShownIsCurrent'
      BY <1>0, <1>4, OneInside DEF ShownIsCurrent, Send, AccessTypeOK, AccessInv,
         AccessFits, CloseConn
    <2> QED BY <2>1, <2>2, <2>3, WireStep
  <1>5. CASE Recv(u)
    <2>1. AccessTypeOK' /\ AccessInv'
      BY <1>0, <1>5, RecvInv
    <2>2. \A v \in Users : pc'[v] # "out" <=> pc[v] # "out"
      BY <1>0, <1>5 DEF Recv, AccessTypeOK, CloseConn
    <2>3. ShownIsCurrent'
      BY <1>0, <1>5, OneInside DEF ShownIsCurrent, Recv, AccessTypeOK, AccessInv,
         AccessFits, CloseConn
    <2> QED BY <2>1, <2>2, <2>3, WireStep
  <1>6. CASE Verify(u)
    <2>1. AccessTypeOK' /\ AccessInv'
      BY <1>0, <1>6, VerifyInv
    <2>2. \A v \in Users : pc'[v] # "out" <=> pc[v] # "out"
      BY <1>0, <1>6 DEF Verify, AccessTypeOK, CloseConn
    <2>3. ShownIsCurrent'
      BY <1>0, <1>6, OneInside DEF ShownIsCurrent, Verify, AccessTypeOK, AccessInv,
         AccessFits, CloseConn
    <2> QED BY <2>1, <2>2, <2>3, WireStep
  <1> QED BY <1>1, <1>2, <1>3, <1>4, <1>5, <1>6 DEF AccessStep

LEMMA ServerStepInv ==
  ASSUME Inv, ServerStep, UNCHANGED sysfsVars
  PROVE  Inv'
  <1>0. AccessTypeOK /\ AccessInv /\ ShownIsCurrent
    BY DEF Inv, TypeOK
  <1> PICK n \in Accesses : ServerAccept(n) \/ ServerAnswer(n) \/ ServerDies(n)
    BY DEF ServerStep
  <1>1. AccessTypeOK' /\ AccessInv'
    BY <1>0, ServerAcceptInv, ServerAnswerInv, ServerDiesInv
  <1>2. UNCHANGED <<pin, request, pc, number, result, outcome>>
    BY DEF ServerAccept, ServerAnswer, ServerDies, netVars
  <1> QED BY <1>0, <1>1, <1>2, WireStep DEF ShownIsCurrent

LEMMA NextInv == Inv /\ [Next]_vars => Inv'
  <1> SUFFICES ASSUME Inv, [Next]_vars PROVE Inv'
    OBVIOUS
  <1>0. /\ AccessTypeOK /\ SysfsTypeOK /\ AccessInv /\ FilesInv
        /\ ShownIsCurrent
    BY DEF Inv, TypeOK
  <1>1. CASE UNCHANGED vars
    <2>1. UNCHANGED accessVars /\ UNCHANGED sysfsVars
      BY <1>1 DEF vars
    <2>2. SysfsTypeOK' /\ FilesInv'
      BY <1>0, <2>1 DEF SysfsTypeOK, FilesInv, OneOwner, Owns, Gone, There,
         UsersHold, sysfsVars, deviceVars, accessVars
    <2> QED BY <2>1, <2>2, FilesStep
  <1>2. CASE ServerStep /\ UNCHANGED sysfsVars
    BY <1>2, ServerStepInv
  <1>3. ASSUME NEW u \in Users, AccessStep(u), UNCHANGED sysfsVars PROVE Inv'
    BY <1>3, AccessStepInv
  <1>4. ASSUME NEW u \in Users, Access(u) PROVE Inv'
    <2>1. SysfsTypeOK' /\ FilesInv'
      BY <1>0, <1>4, AccessFiles
    <2>2. PICK n \in Accesses, r \in Requests : Enter(u, n, r)
      BY <1>4 DEF Access
    <2>3. AccessTypeOK' /\ AccessInv'
      BY <1>0, <2>2, EnterInv
    <2>4. ShownIsCurrent'
      BY <1>0, <2>2 DEF ShownIsCurrent, Enter, Goto, AccessTypeOK, AccessInv, AccessFits
    <2> QED BY <2>1, <2>3, <2>4 DEF Inv, TypeOK
  <1>5. ASSUME NEW u \in Users, Unlock(u) PROVE Inv'
    <2>1. SysfsTypeOK' /\ FilesInv'
      BY <1>0, <1>5, UnlockFiles
    <2>2. Leave(u)
      BY <1>5 DEF Unlock
    <2>3. AccessTypeOK' /\ AccessInv'
      BY <1>0, <2>2, LeaveInv
    <2>4. ShownIsCurrent'
      BY <1>0, <2>2 DEF ShownIsCurrent, Leave, Goto, AccessTypeOK
    <2> QED BY <2>1, <2>3, <2>4 DEF Inv, TypeOK
  <1>6. ASSUME NEW u \in Users, NEW d \in Data, Export(u, d) PROVE Inv'
    BY <1>0, <1>6, ExportFiles, FilesStep DEF Export
  <1>7. ASSUME NEW u \in Users, ExportRequest(u) PROVE Inv'
    BY <1>0, <1>7, ExportRequestFiles, FilesStep DEF ExportRequest
  <1>8. ASSUME NEW u \in Users, ExportFails(u) PROVE Inv'
    BY <1>0, <1>8, ExportFailsFiles, FilesStep DEF ExportFails
  <1>9. ASSUME NEW u \in Users, ExportDone(u) PROVE Inv'
    BY <1>0, <1>9, ExportDoneFiles, FilesStep DEF ExportDone
  <1>10. ASSUME NEW u \in Users, ExportMark(u) PROVE Inv'
    BY <1>0, <1>10, ExportMarkFiles, FilesStep DEF ExportMark
  <1>11. ASSUME NEW u \in Users, Unexport(u) PROVE Inv'
    BY <1>0, <1>11, UnexportFiles, FilesStep DEF Unexport
  <1>12. ASSUME NEW u \in Users, Unregister(u) PROVE Inv'
    BY <1>0, <1>12, UnregisterFiles, FilesStep DEF Unregister
  <1>13. ASSUME NEW u \in Users, Unregistered(u) PROVE Inv'
    BY <1>0, <1>13, UnregisteredFiles, FilesStep DEF Unregistered
  <1>14. ASSUME NEW u \in Users, FreeData(u) PROVE Inv'
    BY <1>0, <1>14, FreeDataFiles, FilesStep DEF FreeData
  <1>15. ASSUME NEW u \in Users, Release(u) PROVE Inv'
    BY <1>0, <1>15, ReleaseFiles, FilesStep DEF Release
  <1>16. ASSUME NEW u \in Users, Open(u) PROVE Inv'
    BY <1>0, <1>16, OpenFiles, FilesStep DEF Open
  <1>17. ASSUME NEW u \in Users, Lock(u) PROVE Inv'
    BY <1>0, <1>17, LockFiles, FilesStep DEF Lock
  <1>18. ASSUME NEW u \in Users, NoAccess(u) PROVE Inv'
    BY <1>0, <1>18, NoAccessFiles, FilesStep DEF NoAccess
  <1>19. ASSUME NEW u \in Users, Close(u) PROVE Inv'
    BY <1>0, <1>19, CloseFiles, FilesStep DEF Close
  <1> QED BY <1>1, <1>2, <1>3, <1>4, <1>5, <1>6, <1>7, <1>8, <1>9, <1>10, <1>11,
      <1>12, <1>13, <1>14, <1>15, <1>16, <1>17, <1>18, <1>19
          DEF Next, Locks, Proceeds
-----------------------------------------------------------------------------
THEOREM Invariance == Spec => []Inv
  BY InitInv, NextInv, PTL DEF Spec

(* The variables of the accesses and of the files keep their types, for    *)
(* any number of users, accesses and exports.                              *)
THEOREM Typing == Spec => []TypeOK
  BY Invariance, PTL DEF Inv

(* Nobody works with the data of a pin that gpiod_unexport has freed.      *)
THEOREM DataStaysAlive == Spec => []DataAlive
  <1>1. Inv => DataAlive
    BY DEF Inv, FilesInv, UsersHold, Using, DataAlive
  <1> QED BY <1>1, Invariance, PTL

(* A read that was approved shows the level the pin still has.             *)
THEOREM ReadsShowThePin == Spec => []ShownIsCurrent
  BY Invariance, PTL DEF Inv

(* Between the operations of export_store and unexport_store the pin is    *)
(* exported wholly or not at all.                                          *)
THEOREM WholeExports == Spec => []ExportsAreWhole
  <1>1. Inv => ExportsAreWhole
    BY SysfsAssumption DEF Inv, FilesInv, OneOwner, Changing, Gone, There,
       ExportsAreWhole
  <1> QED BY <1>1, Invariance, PTL

(* Only an access that met a failure is refused.                           *)
THEOREM OnlyTroubleRefuses == Spec => []UntroubledArePerformed
  <1>1. Inv => UntroubledArePerformed
    BY DEF Inv, AccessInv, WireFits, UntroubledArePerformed
  <1> QED BY <1>1, Invariance, PTL
-----------------------------------------------------------------------------
(* A mutex is held by somebody on the way through value_show or            *)
(* value_store of its data, and by nobody else.                            *)
MutexesHeld ==
  \A d \in Data : mutex[d] # None =>
    \E u \in Users : step[u] \in {"locked", "inside"} /\ held[u] = d

(* A step of u that leaves the mutexes alone, and u with what it held.     *)
LEMMA MutexesKept ==
  ASSUME SysfsTypeOK, MutexesHeld, NEW u \in Users, UNCHANGED mutex,
         step[u] \in {"locked", "inside"} =>
           step'[u] \in {"locked", "inside"} /\ held'[u] = held[u],
         \A v \in Users : v # u => step'[v] = step[v] /\ held'[v] = held[v]
  PROVE  MutexesHeld'
  <1> SUFFICES ASSUME NEW d \in Data, mutex[d] # None
               PROVE  \E v \in Users : step'[v] \in {"locked", "inside"} /\ held'[v] = d
    BY DEF MutexesHeld
  <1>1. PICK v \in Users : step[v] \in {"locked", "inside"} /\ held[v] = d
    BY DEF MutexesHeld
  <1> QED BY <1>1

(* A step of u that lets go of its mutex.                                  *)
LEMMA MutexLeft ==
  ASSUME SysfsTypeOK, FilesInv, MutexesHeld, NEW u \in Users, UNCHANGED held,
         step[u] \in {"locked", "inside"}, step' = [step EXCEPT ![u] = "close"],
         mutex' = [mutex EXCEPT ![held[u]] = None]
  PROVE  MutexesHeld'
  <1> SUFFICES ASSUME NEW d \in Data, mutex'[d] # None
               PROVE  \E v \in Users : step'[v] \in {"locked", "inside"} /\ held'[v] = d
    BY DEF MutexesHeld
  <1>1. mutex[d] # None /\ d # held[u]
    BY DEF SysfsTypeOK
  <1>2. PICK v \in Users : step[v] \in {"locked", "inside"} /\ held[v] = d
    BY <1>1 DEF MutexesHeld
  <1> QED BY <1>1, <1>2 DEF SysfsTypeOK

LEMMA MutexesStep ==
  ASSUME SysfsTypeOK, FilesInv, MutexesHeld, [Next]_vars
  PROVE  MutexesHeld'
  <1>1. CASE UNCHANGED <<step, held, mutex>>
    BY <1>1 DEF MutexesHeld
  <1>2. ASSUME NEW u \in Users,
               \/ ExportRequest(u) \/ ExportFails(u) \/ ExportDone(u) \/ ExportMark(u)
               \/ Unexport(u) \/ Unregister(u) \/ Unregistered(u) \/ FreeData(u)
               \/ Release(u) \/ Open(u) \/ Access(u) \/ Close(u)
        PROVE  MutexesHeld'
    <2>1. /\ UNCHANGED mutex
          /\ step[u] \in {"locked", "inside"} =>
               step'[u] \in {"locked", "inside"} /\ held'[u] = held[u]
      BY <1>2
      DEF ExportRequest, ExportFails, ExportDone, ExportMark, Unexport, Unregister,
          Unregistered, FreeData, Release, Open, Access, Close, Move, Hold, SysfsTypeOK
    <2>2. \A v \in Users : v # u => step'[v] = step[v] /\ held'[v] = held[v]
      BY <1>2
      DEF ExportRequest, ExportFails, ExportDone, ExportMark, Unexport, Unregister,
          Unregistered, FreeData, Release, Open, Access, Close, Move, Hold, SysfsTypeOK
    <2> QED BY <2>1, <2>2, MutexesKept
  <1>3. ASSUME NEW u \in Users, NEW d \in Data, Export(u, d)
        PROVE  MutexesHeld'
    BY <1>3 DEF Export, Move, SysfsTypeOK, MutexesHeld
  <1>4. ASSUME NEW u \in Users, Lock(u)
        PROVE  MutexesHeld'
    BY <1>4 DEF Lock, Move, SysfsTypeOK, MutexesHeld
  <1>5. ASSUME NEW u \in Users, NoAccess(u) \/ Unlock(u)
        PROVE  MutexesHeld'
    BY <1>5, MutexLeft DEF NoAccess, Unlock, Move
  <1> QED BY <1>1, <1>2, <1>3, <1>4, <1>5 DEF Next, Locks, Proceeds, vars, sysfsVars

(* While anybody is busy with the files, somebody's next step waits for    *)
(* nothing: gpiod_unexport, which keeps sysfs_lock, waits for accesses,    *)
(* and those wait for one that has the mutex and needs no lock any more.   *)
THEOREM SomebodyGoesOn == Spec => [](Busy => \E u \in Users : GoesOn(u))
  <1>1. Init => MutexesHeld
    BY DEF Init, MutexesHeld
  <1>2. Inv /\ MutexesHeld /\ [Next]_vars => MutexesHeld'
    BY MutexesStep DEF Inv, TypeOK
  <1>3. Inv /\ MutexesHeld => (Busy => \E u \in Users : GoesOn(u))
    <2> SUFFICES ASSUME Inv, MutexesHeld, Busy PROVE \E u \in Users : GoesOn(u)
      OBVIOUS
    <2>1. ASSUME NEW u \in Users, step[u] \in Using
          PROVE  \E v \in Users : GoesOn(v)
      <3>1. held[u] \in Data
        BY <2>1 DEF Inv, FilesInv, UsersHold
      <3>2. CASE step[u] = "lock" /\ mutex[held[u]] # None
        BY <3>1, <3>2 DEF MutexesHeld, GoesOn
      <3> QED BY <2>1, <3>2 DEF Using, GoesOn, MutexFree
    <2>2. ASSUME NEW u \in Users, step[u] \in Changing
          PROVE  \E v \in Users : GoesOn(v)
      <3>1. CASE step[u] = "drain" /\ active # {}
        BY <2>1, <3>1 DEF Inv, FilesInv, UsersHold
      <3>2. step[u] \in {"export", "free"} => sysfsLock = None
        BY DEF Inv, FilesInv, OneOwner, Owns
      <3> QED BY <2>2, <3>1, <3>2 DEF Changing, GoesOn, NoneActive
    <2>3. PICK u \in Users : step[u] # "idle"
      BY DEF Busy
    <2>4. step[u] \in Using \cup Changing
      BY <2>3 DEF Inv, TypeOK, SysfsTypeOK, Using, Changing
    <2> QED BY <2>1, <2>2, <2>4
  <1> QED BY <1>1, <1>2, <1>3, Invariance, PTL DEF Spec
-----------------------------------------------------------------------------
Stages == [n \in Accesses |-> Stage(n)]

LEMMA Quiet ==
  ASSUME UNCHANGED <<pin, request, outcome, answered>>
  PROVE  UNCHANGED Promise!pinVars
  BY DEF Promise!pinVars, Stage

LEMMA GetMsgArgPromise ==
  ASSUME Inv, NEW u \in Users, GetMsgArg(u)
  PROVE  [Promise!PinNext]_(Promise!pinVars)
  <1> DEFINE n == number[u]
  <1>1. n \in Accesses /\ request[n] # None /\ outcome[n] = "open"
    BY DEF Inv, AccessInv, AccessFits, GetMsgArg
  <1>2. CASE UNCHANGED outcome
    BY <1>2, Quiet DEF GetMsgArg, serverVars
  <1>3. CASE outcome' = [outcome EXCEPT ![n] = "refused"]
    <2>1. Stage(n) \in {"open", "approved"}
      BY <1>1 DEF Stage
    <2>2. Stages' = [Stages EXCEPT ![n] = "refused"]
      BY <1>1, <1>3 DEF Stages, Stage, GetMsgArg, serverVars, Inv, TypeOK,
         AccessTypeOK
    <2>3. Promise!Refuse(n)
      BY <1>1, <2>1, <2>2 DEF Promise!Refuse, Stages, GetMsgArg
    <2> QED BY <1>1, <2>3 DEF Promise!PinNext
  <1> QED BY <1>2, <1>3 DEF GetMsgArg

LEMMA VerifyPromise ==
  ASSUME Inv, NEW u \in Users, Verify(u)
  PROVE  [Promise!PinNext]_(Promise!pinVars)
  <1> DEFINE n == number[u]
  <1>1. n \in Accesses /\ request[n] # None /\ outcome[n] = "open"
    BY DEF Inv, AccessInv, AccessFits, Verify
  <1>2. CASE ~Approves(buffer[u], request[n].kind)
    <2>1. Stage(n) \in {"open", "approved"}
      BY <1>1 DEF Stage
    <2>2. Stages' = [Stages EXCEPT ![n] = "refused"]
      BY <1>1, <1>2 DEF Stages, Stage, Verify, serverVars, Inv, TypeOK,
         AccessTypeOK
    <2>3. Promise!Refuse(n)
      BY <1>1, <1>2, <2>1, <2>2 DEF Promise!Refuse, Stages, Verify
    <2> QED BY <1>1, <2>3 DEF Promise!PinNext
  <1>3. CASE Approves(buffer[u], request[n].kind)
    <2>1. n \in answered
      BY <1>3 DEF Inv, AccessInv, AccessFits, Verify, Approves, Word, TarVal,
         Garbage
    <2>2. Stage(n) = "approved"
      BY <1>1, <2>1 DEF Stage
    <2>3. Stages' = [Stages EXCEPT ![n] = "performed"]
      BY <1>1, <1>3 DEF Stages, Stage, Verify, serverVars, Inv, TypeOK,
         AccessTypeOK
    <2>4. request[n].kind \in {"read", "write"}
      BY <1>1 DEF Inv, TypeOK, AccessTypeOK, Requests
    <2>5. pin' = IF request[n].kind = "write"
                 THEN Promise!Level(request[n].value) ELSE pin
      BY <1>3, <2>4 DEF Verify, Level, Promise!Level
    <2>6. Promise!Perform(n)
      BY <1>1, <2>2, <2>3, <2>5 DEF Promise!Perform, Stages, Verify
    <2> QED BY <1>1, <2>6 DEF Promise!PinNext
  <1> QED BY <1>2, <1>3

LEMMA ServerPromise ==
  ASSUME Inv, ServerStep
  PROVE  [Promise!PinNext]_(Promise!pinVars)
  <1>1. CASE \E n \in Accesses : ServerAccept(n) \/ ServerDies(n)
    BY <1>1, Quiet DEF ServerAccept, ServerDies
  <1>2. ASSUME NEW n \in Accesses, ServerAnswer(n)
        PROVE  [Promise!PinNext]_(Promise!pinVars)
    <2>1. request[n] # None /\ n \notin answered
      BY <1>2 DEF Inv, AccessInv, WireFits, Untouched, ServerAnswer
    <2>2. CASE outcome[n] # "open"
      BY <1>2, <2>2 DEF ServerAnswer, Promise!pinVars, Stage
    <2>3. CASE outcome[n] = "open"
      <3>1. Stages' = [Stages EXCEPT ![n] = "approved"]
        BY <1>2, <2>3 DEF Stages, Stage, ServerAnswer
      <3>2. Promise!Approve(n)
        BY <1>2, <2>1, <2>3, <3>1 DEF Promise!Approve, Stages, Stage, ServerAnswer
      <3> QED BY <3>2 DEF Promise!PinNext
    <2> QED BY <2>2, <2>3
  <1> QED BY <1>1, <1>2 DEF ServerStep

LEMMA EnterPromise ==
  ASSUME NEW u \in Users, NEW n \in Accesses, NEW r \in Requests, Enter(u, n, r)
  PROVE  [Promise!PinNext]_(Promise!pinVars)
  <1>1. Promise!Ask(n)
    BY DEF Promise!Ask, Promise!Requests, Requests, Enter, Stage, serverVars
  <1> QED BY <1>1 DEF Promise!PinNext

LEMMA StepPromise == Inv /\ [Next]_vars => [Promise!PinNext]_(Promise!pinVars)
  <1> SUFFICES ASSUME Inv, [Next]_vars PROVE [Promise!PinNext]_(Promise!pinVars)
    OBVIOUS
  <1>1. CASE ServerStep
    BY <1>1, ServerPromise
  <1>2. ASSUME NEW u \in Users, AccessStep(u)
        PROVE  [Promise!PinNext]_(Promise!pinVars)
    <2>1. CASE GetMsgArg(u) \/ Verify(u)
      BY <2>1, GetMsgArgPromise, VerifyPromise
    <2>2. CASE AllocPayload(u) \/ Connect(u) \/ Send(u) \/ Recv(u)
      BY <2>2, Quiet DEF AllocPayload, Connect, Send, Recv, serverVars
    <2> QED BY <1>2, <2>1, <2>2 DEF AccessStep
  <1>3. ASSUME NEW u \in Users, Access(u)
        PROVE  [Promise!PinNext]_(Promise!pinVars)
    BY <1>3, EnterPromise DEF Access
  <1>4. ASSUME NEW u \in Users, Unlock(u) PROVE UNCHANGED Promise!pinVars
    BY <1>4, Quiet DEF Unlock, Leave, serverVars
  <1>5. CASE UNCHANGED accessVars
    BY <1>5, Quiet DEF accessVars, serverVars
  <1>6. CASE UNCHANGED vars
    BY <1>5, <1>6 DEF vars
  <1>7. ASSUME NEW u \in Users,
               ExportRequest(u) \/ Unexport(u) \/ Open(u) \/ Locks(u)
        PROVE  UNCHANGED accessVars
    BY <1>7 DEF ExportRequest, Unexport, Open, Locks, Lock, Export, ExportFails,
       Unregister
  <1>8. ASSUME NEW u \in Users, Proceeds(u), ~Access(u), ~Unlock(u), ~AccessStep(u)
        PROVE  UNCHANGED accessVars
    BY <1>8 DEF Proceeds, ExportDone, ExportMark, Unregistered, FreeData,
       Release, NoAccess, Close
  <1> QED BY <1>1, <1>2, <1>3, <1>4, <1>5, <1>6, <1>7, <1>8 DEF Next

(* The pin changes only when an access that was asked for, and answered by *)
(* the server, is performed: the files, the handlers and the server        *)
(* together implement ProtectedPin.                                        *)
THEOREM Protection == Spec => ImplementsProtectedPin
  <1>1. Init => Promise!PinInit
    BY DEF Init, AccessInit, Promise!PinInit, Stage
  <1> QED BY <1>1, StepPromise, Invariance, PTL
          DEF Spec, ImplementsProtectedPin, Promise!PinSpec
=============================================================================
