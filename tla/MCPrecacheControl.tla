-------------------------- MODULE MCPrecacheControl --------------------------
(* Small instances of the pre-cache job and its control requests.            *)
EXTENDS PrecacheControl, TLC

Symmetry == Permutations(Handlers)
=============================================================================
