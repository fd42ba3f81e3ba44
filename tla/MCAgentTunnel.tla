---------------------------- MODULE MCAgentTunnel ----------------------------
(* Small instances of AgentTunnel for TLC.  Liveness is checked together    *)
(* with the invariants, so the model values are not declared symmetric.     *)
EXTENDS AgentTunnel
=============================================================================
