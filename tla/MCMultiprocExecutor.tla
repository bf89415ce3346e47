-------------------------- MODULE MCMultiprocExecutor --------------------------
(* Instance of MultiprocExecutor for TLC.                                     *)
EXTENDS MultiprocExecutor
=============================================================================
