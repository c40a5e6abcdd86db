---------------------------- MODULE MCRelayClient ----------------------------
(***************************************************************************)
(* A small instance of RelayClient: the queue holds fewer envelopes than   *)
(* are sent, and the delay reaches its maximum.                            *)
(***************************************************************************)
EXTENDS RelayClient
=============================================================================
