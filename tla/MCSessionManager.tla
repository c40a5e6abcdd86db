--------------------------- MODULE MCSessionManager ---------------------------
(***************************************************************************)
(* Small instances of SessionManager.  Sessions.cfg: one transcript, one   *)
(* terminal, two sessions and two queries under a cap of one, so that a    *)
(* cap refuses, an observer becomes a controller and a message resumes a   *)
(* query.  SessionsLive.cfg: three sessions and one query, with emergency  *)
(* aborts and a terminal that is suspended and continued.                  *)
(***************************************************************************)
EXTENDS SessionManager
=============================================================================
