---------------------------- MODULE MCWaitQueue -----------------------------
(***************************************************************************)
(* Instances of WaitQueue for TLC.                                         *)
(***************************************************************************)
EXTENDS WaitQueue

CONSTANTS k1, k2, w1, w2, w3, e1, e2, e3

TwoKeys == {k1, k2}
ThreeWakers == {w1, w2, w3}
ThreeEntries == {e1, e2, e3}
=============================================================================
