------------------------------- MODULE MCTimer ------------------------------
(* Three sleepers, a tick every third instant, a clock that stops at 6.     *)
EXTENDS Timer
=============================================================================
