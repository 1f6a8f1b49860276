---------------------------- MODULE MCWinSession ----------------------------
(* An instance of WinSession for TLC; the constants are in win_session.cfg. *)
EXTENDS WinSession, TLC
=============================================================================
