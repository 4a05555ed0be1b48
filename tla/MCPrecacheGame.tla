--------------------------- MODULE MCPrecacheGame ---------------------------
(* A small instance of preparing ROMs: a Dreamcast game and another one.     *)
EXTENDS PrecacheGame
=============================================================================
