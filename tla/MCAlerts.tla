------------------------------- MODULE MCAlerts -------------------------------
(***************************************************************************)
(* Alerts for TLC.  Devices and rules do not interact except through the   *)
(* bound on busy handlers, so they are interchangeable.                    *)
(***************************************************************************)
EXTENDS Alerts, TLC

Symmetry == Permutations(Devices) \cup Permutations(Types)
===============================================================================
