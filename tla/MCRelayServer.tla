--------------------------- MODULE MCRelayServer ---------------------------
(* RelayServer for TLC: connections are interchangeable, and so are ids.   *)
EXTENDS RelayServer, TLC

Symmetry == Permutations(Conns) \union Permutations(Ids)
=============================================================================
