--------------------------- MODULE MCSearchService ---------------------------
(* Small instances of SearchService for TLC. *)
EXTENDS SearchService

CONSTANTS ana, f1, f2, k1, b1, b2

MCFamilies == {f1}
MCOwner == [f \in MCFamilies |-> ana]
MCKeys == {k1}
MCBodies == {b1, b2}
=============================================================================
