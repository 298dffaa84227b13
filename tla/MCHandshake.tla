----------------------------- MODULE MCHandshake -----------------------------
(* Instance of Handshake: the secrets of negotiations range over clients   *)
(* and drawn keys.  Two clients race one refresh, or one handshake meets a *)
(* longer life of the refresh thread.                                      *)
EXTENDS Handshake
MCPrks == Clients \X Keys \X Keys
MCLimits == {[passes |-> 2, handshakes |-> 2, calls |-> 2],
             [passes |-> 4, handshakes |-> 1, calls |-> 0]}
=============================================================================
