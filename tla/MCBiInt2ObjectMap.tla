-------------------------- MODULE MCBiInt2ObjectMap --------------------------
(* Model values and hashes for checking BiInt2ObjectMap.  k0 is the key    *)
(* (0, 0), whose hash is 0.                                                *)
EXTENDS BiInt2ObjectMap, TLC

CONSTANTS k0, k1, k2, k3, k4, k5

(* Tables of 4 growing to 8: k1 and k2 collide at the last slot and wrap   *)
(* around onto k0; k3 leaves them at the first doubling.                   *)
GrowKeys == {k0, k1, k2, k3}
GrowHash == (k0 :> 0) @@ (k1 :> 3) @@ (k2 :> 11) @@ (k3 :> 7)

(* Six keys that do not collide in a table of 8.                           *)
SpreadKeys == {k0, k1, k2, k3, k4, k5}
SpreadHash == (k0 :> 0) @@ (k1 :> 1) @@ (k2 :> 2) @@ (k3 :> 3) @@ (k4 :> 4)
                @@ (k5 :> 5)
=============================================================================
