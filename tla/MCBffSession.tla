---------------------------- MODULE MCBffSession ----------------------------
(* Small instances of BffSession for TLC. *)
EXTENDS BffSession, TLC

CONSTANTS ana, r1, r2

MCUsers == {ana}
MCRequests == {r1, r2}
Symmetry == Permutations(MCRequests)
MCTtls == {5}
MCExpiringTtls == {6}
MCShortTtls == {2}
=============================================================================
