------------------------- MODULE HeartbeatContract -------------------------
(***************************************************************************)
(* What agent-hub promises about heartbeats to whoever lists them: an      *)
(* agent runs one at a time, a heartbeat runs once and ends once, its undo *)
(* log only grows while it runs, is frozen when it ends, and is emptied    *)
(* once, by a revert.  `Heartbeat` implements this.                        *)
(***************************************************************************)
CONSTANTS
    Ids,        \* heartbeats
    AgentOf     \* the agent each of them wakes

VARIABLES
    stage,      \* of each heartbeat: "new", "running", "ended", "undone"
    log         \* of each heartbeat: the set of its undo records

Init ==
    /\ stage = [h \in Ids |-> "new"]
    /\ log = [h \in Ids |-> {}]

Start(h) ==
    /\ stage[h] = "new"
    /\ \A g \in Ids : AgentOf[g] = AgentOf[h] => stage[g] # "running"
    /\ stage' = [stage EXCEPT ![h] = "running"]
    /\ UNCHANGED log

Note(h, rec) ==
    /\ stage[h] = "running"
    /\ log' = [log EXCEPT ![h] = @ \cup {rec}]
    /\ UNCHANGED stage

\* A record whose write was refused may be gone at the end.
End(h, kept) ==
    /\ stage[h] = "running"
    /\ kept \subseteq log[h]
    /\ stage' = [stage EXCEPT ![h] = "ended"]
    /\ log' = [log EXCEPT ![h] = kept]

Undo(h) ==
    /\ stage[h] = "ended"
    /\ log[h] # {}
    /\ stage' = [stage EXCEPT ![h] = "undone"]
    /\ log' = [log EXCEPT ![h] = {}]

Next ==
    \E h \in Ids :
        \/ Start(h)
        \/ Undo(h)
        \/ \E kept \in SUBSET log[h] : End(h, kept)
        \/ \E rec \in log'[h] : Note(h, rec)

Spec == Init /\ [][Next]_<<stage, log>>
=============================================================================
