----------------------------- MODULE LoadRunMC -----------------------------
(* The workers and callers of the instances of LoadRun that TLC checks.    *)
EXTENDS LoadRun

CONSTANTS w1, w2, p, q
=============================================================================
