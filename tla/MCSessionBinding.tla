--------------------------- MODULE MCSessionBinding ---------------------------
(***************************************************************************)
(* A small instance of SessionBinding: two terminals in two directories    *)
(* that start, clear and resume three times between them, or one that      *)
(* clears three times, and one restart of the daemon.                      *)
(***************************************************************************)
EXTENDS SessionBinding, TLC

CONSTANTS p1, p2, w1, w2
MCCwdOf == (p1 :> w1) @@ (p2 :> w2)
=============================================================================
