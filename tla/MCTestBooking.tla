--------------------------- MODULE MCTestBooking ---------------------------
(* Two links and two addresses: f2 uses the address of f1 for another link,
   f3 the link of f1 with another address. *)
EXTENDS TestBooking, TLC

CONSTANTS i1, i2, l1, l2, e1, e2, f1, f2, f3

LinkOfForm == f1 :> l1 @@ f2 :> l2 @@ f3 :> l1
EmailOfForm == f1 :> e1 @@ f2 :> e1 @@ f3 :> e2
=============================================================================
