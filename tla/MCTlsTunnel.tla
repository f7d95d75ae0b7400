----------------------------- MODULE MCTlsTunnel -----------------------------
(* Values for the constants of TlsTunnel. *)
EXTENDS TlsTunnel

TwoEach == [e \in End |-> 2]
=============================================================================
