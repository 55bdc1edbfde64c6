--------------------------- MODULE MCBridgePages ---------------------------
(* A module of two pages; blocks of four pages.  A displacement spans 13    *)
(* pages, the search 14.                                                    *)
EXTENDS BridgePages, TLC

CONSTANTS c1, c2, f1, f2, t1, t2

Owners == (c1 :> t1) @@ (c2 :> t2)
Functions == (c1 :> f1) @@ (c2 :> f2)
Pages == (f1 :> 20) @@ (f2 :> 21)

\* Below: 12 in reach, 8 in reach of f1 only, 4 of nothing, all looked at;
\* above: 24 and 28 in reach, 36 not.
Layouts == {{12}, {8, 24}, {4}, {28, 36}, {}}
=============================================================================
