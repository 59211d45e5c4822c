------------------------------ MODULE MCAppUart ------------------------------
(* Short frames and buffers for TLC.                                         *)
EXTENDS AppUart
=============================================================================
