------------------------------ MODULE MCTrustIO ------------------------------
(***************************************************************************)
(* Instances of TrustIO for TLC.                                           *)
(***************************************************************************)
EXTENDS TrustIO, TLC

CONSTANTS c1, c2

OneClient == {c1}
TwoClients == {c1, c2}

AnyWant == [op : {"read", "write"}, value : Values]
OneWantPerOp == {[op |-> "read", value |-> 0], [op |-> "write", value |-> 1]}

NoEvents == {}
Button == {"button"}
FirstButton == {"button", "first"}
LaterEvents == EventKinds \ {"first"}
AllEvents == EventKinds

Symmetric == Permutations(Clients)
=============================================================================
