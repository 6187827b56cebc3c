--------------------------- MODULE MCPriceOracle ---------------------------
(* PriceOracle on a small instance.  Two slots and three prices: 1 and 3    *)
(* share a slot, the sum of two prices can pass U32Max.                     *)
EXTENDS PriceOracle

MCPrices == 1 .. 3
============================================================================
