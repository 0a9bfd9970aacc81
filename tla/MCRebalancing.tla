--------------------------- MODULE MCRebalancing ---------------------------
EXTENDS Rebalancing, TLC

\* Two instruments of one class, one of another, none of a third, and cash; a point is
\* five percent.
MCClassOf == [b |-> "CORE", c |-> "CORE", s |-> "SAFE"]
MCRank == "CASH" :> 1 @@ "CORE" :> 2 @@ "b" :> 3 @@ "c" :> 4 @@ "SAFE" :> 5 @@ "s" :> 6 @@
          "SATELLITE" :> 7 @@ "x" :> 8

\* Most in shares, or most in cash; and entries that are refused: a class without
\* members, and weights that do not add up.
MCWeight(core, safe, satellite, cash) ==
  "CORE" :> core @@ "SAFE" :> safe @@ "SATELLITE" :> satellite @@ "CASH" :> cash
MCWeights ==
  {MCWeight(11, 6, 0, 3), MCWeight(7, 4, 0, 9), MCWeight(7, 4, 2, 7), MCWeight(11, 7, 0, 3)}

MCStartQuantity == {[b |-> n, c |-> m, s |-> k] : n \in {0, 5}, m \in {1, 4}, k \in {0, 2}}
MCStartPrice == [b |-> 2, c |-> 3, s |-> 5]
=============================================================================
