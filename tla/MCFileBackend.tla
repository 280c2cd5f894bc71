---------------------------- MODULE MCFileBackend ---------------------------
(* Model checking instance of FileBackend.                                 *)
EXTENDS FileBackend
=============================================================================
