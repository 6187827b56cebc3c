--------------------------- MODULE MCNodeService ---------------------------
(* NodeService for every combination of the switches: authorities with and   *)
(* without a key of the genesis, other full nodes and light nodes, on the    *)
(* built-in chains and on one from a file that funds nobody.                 *)
EXTENDS NodeService

MCConfigs ==
    {c \in Config :
        /\ c.seed \in {"Alice", "Charlie", NoSeed}
        /\ c.role = "Authority" <=> c.seed # NoSeed
        /\ c.seed = "Charlie" => c.chain = "dev"
        /\ c.keystore_remote => c.chain = "dev" /\ ~ c.telemetry}

MCFileGenesis == [authorities |-> {"Bob"}, endowed |-> {"Bob"}]
=============================================================================
