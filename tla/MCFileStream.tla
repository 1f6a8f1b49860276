----------------------------- MODULE MCFileStream -----------------------------
(* An instance of FileStream for TLC; the constants are in byte_stream.cfg. *)
EXTENDS FileStream, TLC
=============================================================================
