---------------------------- MODULE MCFtpSession ----------------------------
(* Instances of FtpSession for TLC. *)
EXTENDS FtpSession, TLC

\* Users and passwords are interchangeable: no action or property names one.
Symmetry == Permutations(User) \cup Permutations(Password)
=============================================================================
