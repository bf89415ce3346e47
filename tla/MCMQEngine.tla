------------------------------ MODULE MCMQEngine ------------------------------
(* Instance of MQEngine for TLC: a plain request beside one of another kind. *)
EXTENDS MQEngine

CONSTANTS r1, r2

MCWorkloads == {(r1 :> "plain") @@ (r2 :> k) : k \in {"guided", "adapter"}}
=============================================================================
