---------------------------- MODULE MCBlobTable ----------------------------
(* Row x is inserted and claimed from two instances; row y is inserted and *)
(* removed by the second one.                                              *)
EXTENDS BlobTable, TLC

CONSTANTS x, y, ix, cx1, cx2, iy, ry, one, two

WorkOf == ix :> "insert" @@ cx1 :> "claim" @@ cx2 :> "claim" @@ iy :> "insert" @@ ry :> "remove"
RowOf == ix :> x @@ cx1 :> x @@ cx2 :> x @@ iy :> y @@ ry :> y
TwoHomes == ix :> one @@ cx1 :> one @@ cx2 :> two @@ iy :> two @@ ry :> two
=============================================================================
