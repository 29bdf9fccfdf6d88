---------------------------- MODULE MCCallQueue -----------------------------
(* A small instance of CallQueue.                                          *)
EXTENDS CallQueue, TLC

CONSTANTS p1, p2, p3

ThreeCallers == {p1, p2, p3}
AllOps == OpKinds
=============================================================================
