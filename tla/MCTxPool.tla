------------------------------ MODULE MCTxPool ------------------------------
(* TxPool on a small instance: two nodes, one of them the author; two        *)
(* unsigned prices, for the first two blocks and at different distances from *)
(* the average; two numbers that compete for one tag.                        *)
EXTENDS TxPool

CONSTANTS n1, n2

MCPrices == {1, 3}

Price(b, p) == [fn |-> "submit_price_unsigned", block_number |-> b, price |-> p]

MCOffered == {Price(1, 1), Price(2, 3)}
             \cup [fn : {"submit_number_unsigned"}, number : Numbers]
=============================================================================
