---------------------------- MODULE FlowFleetMC ----------------------------
(* The hosts of the instances of FlowFleet that TLC checks.                *)
EXTENDS FlowFleet

CONSTANTS g, h
=============================================================================
