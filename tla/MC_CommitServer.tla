--------------------------- MODULE MC_CommitServer ---------------------------
(***************************************************************************)
(* Two requests with the same payment and one settlement elsewhere; a      *)
(* channel that delivers, one that leaves delivery to its host and one     *)
(* that is advertised without an adapter.                                  *)
(***************************************************************************)
EXTENDS CommitServer, TLC

CONSTANTS r1, r2, d1, ship, pickup, gone

TwoRequests == {r1, r2}
OneDirect == {d1}
ThreeOptions == {ship, pickup, gone}
Adapters == {ship, pickup}
Shipping == {ship}

Hostile == {"elsewhere", "crash", "ambiguousFailure"}

RequestsAlike == Permutations(TwoRequests)
=============================================================================
