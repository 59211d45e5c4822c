-------------------------- MODULE MCMeterRegistration --------------------------
(* Short times for TLC.                                                      *)
EXTENDS MeterRegistration
=============================================================================
