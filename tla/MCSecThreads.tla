---------------------------- MODULE MCSecThreads ----------------------------
(* A small instance of SecThreads: two threads, two CPUs, two guests.      *)
EXTENDS SecThreads, TLC

CONSTANTS c1, c2, g1, g2, b1, b2

MCCores == {c1, c2}
MCGuests == {g1, g2}
MCCookies == {b1, b2}

StandardCommands == {"std", "bad"}
TrustioCommands == {"std", "trustio"}

(* Guests and buffers are interchangeable; CPU c1 boots and threads are    *)
(* taken in order.                                                         *)
Symmetry == Permutations(MCGuests) \cup Permutations(MCCookies)
=============================================================================
