------------------------- MODULE WorkflowEngineMC -------------------------
(***************************************************************************)
(* Small workflows for TLC, named in the .cfg files.                       *)
(***************************************************************************)
EXTENDS WorkflowEngine

E(from, to, when) == [from |-> from, to |-> to, when |-> when]

\* Deploy: while an agent plans, a human approves a write tool and a task of the
\* same agent in full mode, which run side by side; a second tool creates what it names.
DeployNode == {"plan", "gate", "tool", "create", "agent", "join"}
DeployEdge == {E("gate", "tool", "approved"), E("gate", "agent", "none"),
               E("tool", "create", "none"),
               E("plan", "join", "none"), E("tool", "join", "none")}
DeployType == [n \in DeployNode |->
    CASE n = "gate" -> "approval" [] n \in {"tool", "create"} -> "tool" [] n = "join" -> "join"
      [] OTHER -> "agent_task"]
DeployAgentOf  == [n \in DeployNode |-> "worker"]
DeployNodeMode == [n \in DeployNode |-> IF n = "plan" THEN "plan" ELSE "inherit"]
DeployMode     == [a \in {"worker"} |-> "full"]

\* Route: a condition skips the gate on one of its branches, and the gate's
\* rejected edge leads to the same agent; in plan mode the agent needs no gate.
RouteNode == {"risky", "gate", "task", "write"}
RouteEdge == {E("risky", "gate", "true"), E("risky", "task", "false"),
              E("gate", "task", "approved"), E("gate", "task", "rejected"),
              E("gate", "write", "approved")}
RouteType == [n \in RouteNode |->
    CASE n = "risky" -> "condition" [] n = "gate" -> "approval" [] n = "write" -> "tool"
      [] OTHER -> "agent_task"]
RouteAgentOf  == [n \in RouteNode |-> "worker"]
RouteNodeMode == [n \in RouteNode |-> "inherit"]
RouteMode     == [a \in {"worker"} |-> "plan"]

\* every workflow here is one the hub would publish
ASSUME PublishedGated
=============================================================================
