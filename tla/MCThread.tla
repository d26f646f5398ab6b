------------------------------ MODULE MCThread ------------------------------
(* Two free slots besides main and idle, and three stack pages, so that a   *)
(* slot is reused while another thread is alive, and the pages run out.     *)
EXTENDS ThreadRefinement
=============================================================================
