-------------------------- MODULE MCExtractorPage --------------------------
(* Small carts for TLC: a single layer and a service of one layer. *)
EXTENDS ExtractorPage, TLC

CONSTANTS i1, i2, r1, r2

MCRecordsOf == (i1 :> {r1}) @@ (i2 :> {r2})
MCServices == {i2}
=============================================================================
