----------------------------- MODULE MCMapInit -----------------------------
(* A small viewer for TLC: a context of two layers, one that has lost the  *)
(* address of a layer, and an empty one; layers of two servers, services   *)
(* of one.                                                                 *)
EXTENDS MapInit, TLC

CONSTANTS c1, c2, c3, a, b, d, f, w, v, s1, s2

MCLayersOf == (c1 :> {a, b}) @@ (c2 :> {a, d}) @@ (c3 :> {})
MCServersOf == [k \in Kinds |-> IF k = "WMSLayer" THEN {s1, s2}
                                 ELSE IF k = "WFS" THEN {s1} ELSE {}]
MCOfferOf == [k \in Kinds |-> IF k = "WMSLayer" THEN {w}
                               ELSE IF k = "WFS" THEN {v} ELSE {}]
=============================================================================
