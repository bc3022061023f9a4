---------------------------- MODULE MC_KeyedMutex ----------------------------
(***************************************************************************)
(* Three calls (one running, one waiting, one that arrives while the first *)
(* cleans up) on any of two exchanges.                                     *)
(***************************************************************************)
EXTENDS KeyedMutex

CONSTANTS c1, c2, c3, x1, x2

ThreeCalls == {c1, c2, c3}
TwoExchanges == {x1, x2}
=============================================================================
