-------------------------- MODULE MCServiceProcess --------------------------
(* Small instances of the service's process.                                 *)
EXTENDS ServiceProcess
=============================================================================
