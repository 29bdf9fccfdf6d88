----------------------------- MODULE MCOpteeRpc -----------------------------
(***************************************************************************)
(* Instances of OpteeRpc for TLC.                                          *)
(***************************************************************************)
EXTENDS OpteeRpc, TLC

CONSTANTS w1, w2, c1, p1, p2, s1, m1, m2, i1

TwoWorkers == {w1, w2}
OneClient == {c1}
TwoSupps == {p1, p2}
OneSession == {s1}
TwoIds == {m1, m2}
OneInst == {i1}

(* Nothing is claimed once the descriptor of another was closed (MapFails).*)
Unspoilt == ~spoilt

Symmetry ==
  Permutations(TwoWorkers) \cup Permutations(TwoSupps) \cup Permutations(TwoIds)
=============================================================================
