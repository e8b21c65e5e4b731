------------------------------- MODULE MCBench -------------------------------
(* Bench for TLC: all drivers but run-2.0-mixed-traffic. *)
EXTENDS Bench

AllScripts == DriverNames
===============================================================================
