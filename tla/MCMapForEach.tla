---------------------------- MODULE MCMapForEach ----------------------------
(* Tables of 4 growing to 16: k1 and k2 collide at the last slot and wrap  *)
(* around onto k0; the first growth sends k2 to 7, behind the loop or      *)
(* before it.                                                              *)
EXTENDS MapForEach, TLC

CONSTANTS k0, k1, k2

WalkKeys == {k0, k1, k2}
WalkHash == (k0 :> 0) @@ (k1 :> 3) @@ (k2 :> 7)
=============================================================================
