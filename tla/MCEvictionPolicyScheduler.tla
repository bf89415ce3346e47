---------------------- MODULE MCEvictionPolicyScheduler ----------------------
(* Instance of EvictionPolicyScheduler for TLC.                              *)
EXTENDS EvictionPolicyScheduler

MCShadowPolicies == <<"lru", "rrip", "fifo", "pdp">>

=============================================================================
