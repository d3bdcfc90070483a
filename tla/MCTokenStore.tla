----------------------------- MODULE MCTokenStore -----------------------------
(* Small instances of TokenStore for TLC. *)
EXTENDS TokenStore

CONSTANTS ana, sse

MCUsers == {ana}
MCWatchers == {sse}
MCTtls == {1, 2}
=============================================================================
