---------------------------- MODULE MCCodexBridge ----------------------------
(***************************************************************************)
(* A small instance of CodexBridge: one text, so that what is typed at the *)
(* terminal and what the phone sends cannot be told apart.                 *)
(***************************************************************************)
EXTENDS CodexBridge

CONSTANTS t1

MCTexts == {t1}
=============================================================================
