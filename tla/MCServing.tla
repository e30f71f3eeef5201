----------------------------- MODULE MCServing ------------------------------
(***************************************************************************)
(* Serving on a small instance: stores that hold two of three nonces, two  *)
(* challenges in flight, two accounts with a muxed address m1 of the first *)
(* and a contract c1, two limits of the cached list.                       *)
(***************************************************************************)
EXTENDS Serving, TLC

CONSTANTS a1, a2, n1, n2, n3, i1, i2, g1, g2, m1, c1, r1, r2, k1, k2

BaseOf == (g1 :> {g1}) @@ (g2 :> {g2}) @@ (m1 :> {g1}) @@ (c1 :> {})
RecipientOf == <<g1, g2, g1>>
=============================================================================
