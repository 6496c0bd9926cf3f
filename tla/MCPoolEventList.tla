-------------------------- MODULE MCPoolEventList --------------------------
(* Events sharing a pool of one resource, which c1 holds at the start.     *)
(* MCClients3 has three events, MCClients2 only c1 and c2; in the R2      *)
(* configuration c2 holds a second resource.                              *)
EXTENDS PoolEventList

CONSTANTS c1, c2, c3, r1, r2, n1, n2, h1, h2, h3, h4, h5, h6, h7, h8, h9, h10

MCResNode == r1 :> n1
MCHolders == {h1, h2, h3, h4, h5, h6, h7, h8, h9, h10}

MCClients3 == {c1, c2, c3}
MCSlot03 == c1 :> n1 @@ c2 :> h2 @@ c3 :> h5
MCBy03 == c1 :> h3 @@ c2 :> h4 @@ c3 :> h6

MCClients2 == {c1, c2}
MCSlot02 == c1 :> n1 @@ c2 :> h2
MCBy02 == c1 :> h3 @@ c2 :> h4
MCResNodeR2 == r1 :> n1 @@ r2 :> n2
MCSlot0R2 == c1 :> n1 @@ c2 :> n2
=============================================================================
