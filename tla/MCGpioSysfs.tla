---------------------------- MODULE MCGpioSysfs -----------------------------
(***************************************************************************)
(* Instances of GpioSysfs for TLC.                                         *)
(***************************************************************************)
EXTENDS GpioSysfs, TLC

CONSTANTS u1, u2, u3, d1, d2

ThreeUsers == {u1, u2, u3}
TwoData == {d1, d2}
ZeroTwo == {0, 2}

Symmetry == Permutations(ThreeUsers) \cup Permutations(TwoData)
=============================================================================
