----------------------------- MODULE TcpLinkMC -----------------------------
(* The calls of the instances of TcpLink that TLC checks.                  *)
EXTENDS TcpLink

CONSTANTS r1, r2, so
=============================================================================
