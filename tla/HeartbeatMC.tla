---------------------------- MODULE HeartbeatMC ----------------------------
(***************************************************************************)
(* One wake with all its tool calls, and two wakes of one agent that race  *)
(* to start and, when the watchdog fails the first under its thread, write *)
(* side by side.                                                           *)
(***************************************************************************)
EXTENDS Heartbeat, TLC

CONSTANTS h1, h2, a

MCOne == h1 :> a
MCTwo == h1 :> a @@ h2 :> a

\* The two wakes are of one agent, and alike.
MCAlike == Permutations({h1, h2})
=============================================================================
