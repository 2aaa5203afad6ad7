------------------------------- MODULE MCSignals -------------------------------
(* The instance of Signals for TLC; the constants are given in the cfg file. *)
EXTENDS Signals
================================================================================
