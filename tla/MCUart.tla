------------------------------- MODULE MCUart -------------------------------
(* Two threads that share a port with rings of one byte, and one thread and *)
(* the ISR on rings of two bytes with positions of two bits: buffers fill   *)
(* and positions wrap.                                                      *)
EXTENDS Uart
=============================================================================
