---------------------------- MODULE MCRemoteInfo ----------------------------
(* RemoteInfo for TLC. Runs are interchangeable in the safety properties.   *)
EXTENDS RemoteInfo, TLC

Symmetry == Permutations(Runs)
=============================================================================
