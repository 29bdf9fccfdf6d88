---------------------------- MODULE ProtectedPin ----------------------------
(***************************************************************************)
(* What Trust.IO promises of the pin on HiKey: it changes only when an     *)
(* access that was asked for, and approved by the remote server, is        *)
(* performed, to the level this access asked for; and an access is         *)
(* performed once, or refused.                                             *)
(***************************************************************************)
EXTENDS Integers

CONSTANTS
  Accesses,  (* the accesses that are ever made                            *)
  Values,    (* the numbers they write                                     *)
  None

VARIABLES
  pin,       (* the level of the pin                                       *)
  asked,     (* what an access asks for, None until it is made             *)
  stage      (* of an access: open, approved, performed or refused         *)

pinVars == <<pin, asked, stage>>

Requests == [kind : {"read"}, value : {0}] \cup [kind : {"write"}, value : Values]

Level(v) == IF v = 0 THEN 0 ELSE 1

PinInit ==
  /\ pin \in {0, 1}
  /\ asked = [n \in Accesses |-> None]
  /\ stage = [n \in Accesses |-> "open"]

Ask(n) ==
  /\ asked[n] = None
  /\ \E r \in Requests : asked' = [asked EXCEPT ![n] = r]
  /\ UNCHANGED <<pin, stage>>

Approve(n) ==
  /\ asked[n] # None
  /\ stage[n] = "open"
  /\ stage' = [stage EXCEPT ![n] = "approved"]
  /\ UNCHANGED <<pin, asked>>

Perform(n) ==
  /\ stage[n] = "approved"
  /\ stage' = [stage EXCEPT ![n] = "performed"]
  /\ pin' = IF asked[n].kind = "write" THEN Level(asked[n].value) ELSE pin
  /\ UNCHANGED asked

Refuse(n) ==
  /\ asked[n] # None
  /\ stage[n] \in {"open", "approved"}
  /\ stage' = [stage EXCEPT ![n] = "refused"]
  /\ UNCHANGED <<pin, asked>>

PinNext ==
  \E n \in Accesses : Ask(n) \/ Approve(n) \/ Perform(n) \/ Refuse(n)

PinSpec == PinInit /\ [][PinNext]_pinVars
=============================================================================
