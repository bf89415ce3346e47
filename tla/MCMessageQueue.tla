---------------------------- MODULE MCMessageQueue ----------------------------
(* Instance of MessageQueue for TLC.                                          *)
EXTENDS MessageQueue
=============================================================================
