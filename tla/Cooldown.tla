------------------------------ MODULE Cooldown ------------------------------
(***************************************************************************)
(* What the unsigned calls of pallets/example-offchain-worker promise: a   *)
(* door that is passed at most once in Interval blocks.  The block counter *)
(* only moves on; passing the door is possible once the counter has        *)
(* reached opensAt, and shuts it for Interval blocks.  PriceOracle         *)
(* implements it with NextUnsignedAt and the validator of unsigned calls.  *)
(***************************************************************************)
EXTENDS Integers

CONSTANT Interval   \* T::UnsignedInterval (3 in the runtime)

VARIABLES
    now,            \* number of the block being built
    opensAt         \* the first block in which the door may be passed

doorVars == <<now, opensAt>>

Init == now = 1 /\ opensAt = 0

Pass == now >= opensAt /\ opensAt' = now + Interval /\ now' = now

Tick == now' = now + 1 /\ opensAt' = opensAt

Next == Pass \/ Tick

Spec == Init /\ [][Next]_doorVars
=============================================================================
