---------------------------- MODULE MCSupplicant ----------------------------
(***************************************************************************)
(* Instances of Supplicant for TLC.                                        *)
(***************************************************************************)
EXTENDS Supplicant

CONSTANTS t0, t1, t2, t3, r1, r2, r3

FourThreads == {t0, t1, t2, t3}
ThreeRequests == {r1, r2, r3}
TwoStuck == {r1, r2}
AllFailures == {"recv", "params", "create", "send"}
=============================================================================
