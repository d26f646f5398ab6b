------------------------------- MODULE MCLock -------------------------------
(* Three clients of one lock.                                              *)
EXTENDS Lock
=============================================================================
