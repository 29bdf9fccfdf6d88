------------------------- MODULE ProtectedRegister --------------------------
(***************************************************************************)
(* What Trust.IO promises of the register on the bare-metal board: it      *)
(* changes only when an access that a client granted is performed, to the  *)
(* value this access writes; a grant serves once; and a read is granted    *)
(* with the value that the register has when it is performed.              *)
(***************************************************************************)
EXTENDS Integers

VARIABLES
  register,
  granted,    (* the accesses that were granted: operation, value, number  *)
  performed   (* those that were performed                                 *)

registerVars == <<register, granted, performed>>

RegisterInit ==
  /\ register = 0
  /\ granted = {}
  /\ performed = {}

Grant ==
  /\ \E a \in granted' : granted' = granted \cup {a}
  /\ UNCHANGED <<register, performed>>

PerformRead(a) ==
  /\ a.op = "read"
  /\ a.value = register
  /\ UNCHANGED register

PerformWrite(a) ==
  /\ a.op = "write"
  /\ register' = a.value

Perform ==
  \E a \in granted \ performed :
    /\ PerformRead(a) \/ PerformWrite(a)
    /\ performed' = performed \cup {a}
    /\ UNCHANGED granted

RegisterNext == Grant \/ Perform

RegisterSpec == RegisterInit /\ [][RegisterNext]_registerVars
=============================================================================
