--------------------------- MODULE MCPriceSystem ---------------------------
(* PriceSystem on a small instance: two nodes share bob's key, which only    *)
(* their workers use.  One node executes two runs at a time; the other one   *)
(* holds alice's key too, with which somebody else signs as well.            *)
EXTENDS PriceSystem

CONSTANTS n1, n2, alice, bob, w1, w2, w3

MCPrices == 1 .. 1
MCHost == (w1 :> n1) @@ (w2 :> n1) @@ (w3 :> n2)
MCKeys == (n1 :> {bob}) @@ (n2 :> {alice, bob})

\* A payload for block b in the name of one account, signed by another.
Payload(b, public, signature) ==
    [signer |-> NoAccount,
     call |-> [fn |-> "submit_price_unsigned_with_signed_payload",
               payload |-> [block_number |-> b, price |-> 1, public |-> public],
               signature |-> signature]]

\* A signed price, a bare unsigned one, a payload with a signature of one's
\* own, and one in the name of bob that nobody can sign.
MCForeign ==
    {[signer |-> alice, nonce |-> 0, call |-> [fn |-> "submit_price", price |-> 1]],
     [signer |-> NoAccount,
      call |-> [fn |-> "submit_price_unsigned", block_number |-> 1, price |-> 1]],
     Payload(2, alice, alice),
     Payload(2, bob, NoAccount)}

Slots == Permutations({w1, w2})
============================================================================
