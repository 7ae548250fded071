--------------------------- MODULE WorkflowEngine ---------------------------
(***************************************************************************)
(* One run of an agent-hub workflow: the persisted state machine of        *)
(* agent_hub/engine.py over the rows of agent_hub/store.py.                *)
(*                                                                         *)
(* Durable state is what the database holds: the run row (status, cancel,  *)
(* doc), the approval rows (ap), the heartbeat rows (hb) and the hub's     *)
(* pause flag and registry.  Everything else dies with the process: the    *)
(* coroutines waiting for the per-run lock (tasks), the coroutine holding  *)
(* it (pc, cur and its snapshot mem of the row) and the heartbeat runners. *)
(*                                                                         *)
(* A step of the lock holder ends where the code awaits something another  *)
(* coroutine or a crash could come before; the order of spec.nodes is      *)
(* abstracted, so any ready node may be the next one started.  Rows of     *)
(* refused heartbeats and plan artifacts are left out: the engine never    *)
(* reads them.                                                             *)
(***************************************************************************)
EXTENDS Naturals, FiniteSets

CONSTANTS
    Node,         \* node ids of the workflow version
    Edge,         \* records [from, to, when]; edges to "end" carry no state
    Type,         \* Node -> node type
    Agent,        \* agent names
    AgentOf,      \* the agent an agent_task names
    NodeMode,     \* the mode an agent_task narrows to, "inherit" if unset
    MockEnv,      \* nodes labelled with a mock environment
    WriteTier,    \* tool nodes whose tool is of tier write or execute
    Creates,      \* ... whose write assigns the id its record is kept under
    Executes,     \* ... of tier execute: traffic, which leaves nothing to restore
    Timed,        \* approval nodes with a timeout_s
    InitMode,     \* the agents' registered modes when the workflow was published
    HumanCaller,  \* the run was started by a user, not a service principal
    ApId, HbId,   \* row ids
    None,         \* the null id
    MaxCrash, MaxPublish, MaxOther, MaxWrite   \* bounds on the environment

NodeType == {"agent_task", "tool", "condition", "approval", "parallel", "join"}
Label    == {"none", "true", "false", "approved", "rejected"}
Mode     == {"plan", "full"}   \* advisor behaves like plan here: neither writes

ASSUME WorkflowAssumption ==
    /\ Edge \subseteq [from : Node, to : Node, when : Label]
    /\ Type \in [Node -> NodeType]
    /\ AgentOf \in [Node -> Agent]
    /\ NodeMode \in [Node -> Mode \cup {"inherit"}]
    /\ MockEnv \subseteq Node
    /\ WriteTier \subseteq {n \in Node : Type[n] = "tool"}
    /\ Creates \subseteq WriteTier /\ Executes \subseteq WriteTier \ Creates
    /\ Timed \subseteq {n \in Node : Type[n] = "approval"}
    /\ InitMode \in [Agent -> Mode]
    /\ HumanCaller \in BOOLEAN
ASSUME IdAssumption ==
    None \notin ApId /\ None \notin HbId /\ None \notin Node
ASSUME BoundAssumption ==
    MaxCrash \in Nat /\ MaxPublish \in Nat /\ MaxOther \in Nat /\ MaxWrite \in Nat

VARIABLES
    status, cancel, doc,   \* the run row: status, cancel_requested, node_states and results
    ap,                    \* approval rows
    hb,                    \* heartbeat rows
    paused, agentMode,     \* the pause flag; the mode each agent name resolves to
    phase,                 \* of the process: see Crash, Restart, Reconcile, Serve
    pc, cur, mem,          \* the coroutine that holds the run's lock
    tasks,                 \* coroutines that sleep, poll or wait for the lock
    runners,               \* heartbeats a thread of this process is executing
    wrote,                 \* history: writes each tool node has executed
    crashes, publishes     \* counters of the bounds

rowVars == <<status, cancel, doc>>
lockVars == <<pc, cur, mem>>
hubVars == <<paused, agentMode, publishes, phase, crashes>>
vars == <<status, cancel, doc, ap, hb, paused, agentMode, phase, pc, cur, mem,
          tasks, runners, wrote, crashes, publishes>>

-----------------------------------------------------------------------------
(* Rows and snapshots *)

Active     == {"running", "waiting"}
Terminal   == {"done", "failed", "cancelled", "rejected"}
Unresolved == {"pending", "deferred", "running", "waiting"}
NodeStatus == Unresolved \cup {"done", "skipped", "failed", "cancelled"}
Result     == {"none", "ok", "true", "false", "approved", "rejected"}
Decision   == {"approved", "rejected"}

Doc == [states  : [Node -> NodeStatus],
        results : [Node -> Result],
        apid    : [Node -> ApId \cup {None}],
        hbid    : [Node -> HbId \cup {None}],
        journal : [Node -> SUBSET (1 .. MaxWrite)]]

FreshDoc == [states  |-> [n \in Node |-> "pending"],
             results |-> [n \in Node |-> "none"],
             apid    |-> [n \in Node |-> None],
             hbid    |-> [n \in Node |-> None],
             journal |-> [n \in Node |-> {}]]

ApRow == [node : Node \cup {None},
          status : {"none", "pending", "expired", "cancelled"} \cup Decision]
HbRow == [agent : Agent \cup {None}, node : Node \cup {None}, full : BOOLEAN,
          cancel : BOOLEAN, status : {"none", "running", "done", "failed"}]

FreeAp == {a \in ApId : ap[a].status = "none"}
FreeHb == {h \in HbId : hb[h].status = "none"}

Finish(d, n, st)      == [d EXCEPT !.states[n] = st]
FinishAs(d, n, st, r) == [d EXCEPT !.states[n] = st, !.results[n] = r]

AdvanceTask     == [op |-> "advance"]
CancelTask      == [op |-> "cancel"]
DecideTask(a)   == [op |-> "decide", ap |-> a]
ExpiredTask(a)  == [op |-> "expired", ap |-> a]
RetryTask(n)    == [op |-> "retry", node |-> n]
WatchTask(n, h) == [op |-> "watch", node |-> n, hb |-> h]
DoneTask(n, h)  == [op |-> "done", node |-> n, hb |-> h]

Task == [op : {"advance", "cancel"}]
        \cup [op : {"decide", "expired"}, ap : ApId]
        \cup [op : {"retry"}, node : Node]
        \cup [op : {"watch", "done"}, node : Node, hb : HbId]

NoCur == [node |-> None, full |-> FALSE]

-----------------------------------------------------------------------------
(* The graph: edges that fire, readiness, run status, the gate *)

Into(n) == {e \in Edge : e.to = n}

Branch(e) == CASE e.when # "none"              -> e.when
               [] Type[e.from] = "condition"   -> "true"
               [] OTHER                        -> "approved"

\* mutation: an edge labelled "rejected" is followed on any decision
FiresOnAnyDecision(e, d) ==
    /\ d.states[e.from] = "done"
    /\ Type[e.from] = "condition" => d.results[e.from] = Branch(e)

Fires(e, d) ==
    /\ d.states[e.from] = "done"
    /\ Type[e.from] \in {"condition", "approval"} => d.results[e.from] = Branch(e)

Fired(n, d) == {e \in Into(n) : Fires(e, d)}

Resolved(n, d) == \A e \in Into(n) : d.states[e.from] \notin Unresolved

\* mutation: a node starts as soon as one edge into it has fired
ReadyOnFirst(n) == mem.states[n] = "pending" /\ (Into(n) # {} => Fired(n, mem) # {})

Ready(n) == /\ mem.states[n] = "pending"
            /\ Resolved(n, mem)
            /\ Into(n) # {} => Fired(n, mem) # {}

Unreachable(n) == /\ mem.states[n] = "pending"
                  /\ Resolved(n, mem)
                  /\ Into(n) # {} /\ Fired(n, mem) = {}

\* mutation: a run that is not over takes the status of one of its nodes
RunStatusOfNode(states) ==
    IF \A n \in Node : states[n] \in {"done", "skipped"} THEN "done"
    ELSE states[CHOOSE n \in Node : states[n] \notin {"done", "skipped"}]

RunStatus(states) ==
    CASE \E n \in Node : states[n] = "failed"             -> "failed"
      [] \A n \in Node : states[n] \in {"done", "skipped"} -> "done"
      [] OTHER -> IF \E n \in Node : states[n] = "waiting" THEN "waiting" ELSE "running"

GateOpened(e, d) == Type[e.from] = "approval" /\ d.results[e.from] = "approved"

\* mutation: passing an approval node on any edge counts as its approval
ApprovedByPassing(n, d) ==
    \A S \in SUBSET Node :
        (\A m \in Node :
            /\ Fired(m, d) # {}
            /\ \A e \in Fired(m, d) : Type[e.from] = "approval" \/ e.from \in S
            => m \in S)
        => n \in S

\* Every edge that fired into n descends from an approval decided approved: n is
\* in the least set closed under "some edge fired, and each one that did leaves
\* an opened gate or a member".
ApprovedOnPath(n, d) ==
    \A S \in SUBSET Node :
        (\A m \in Node :
            /\ Fired(m, d) # {}
            /\ \A e \in Fired(m, d) : GateOpened(e, d) \/ e.from \in S
            => m \in S)
        => n \in S

\* The same over the graph as published, edges that could be taken included.
ApprovalGated(n) ==
    \A S \in SUBSET Node :
        (\A m \in Node :
            /\ Into(m) # {}
            /\ \A e \in Into(m) :
                  (Type[e.from] = "approval" /\ Branch(e) = "approved") \/ e.from \in S
            => m \in S)
        => n \in S

FullMode(n, mode) == mode = "full" /\ NodeMode[n] \in {"inherit", "full"}

\* What publishing a workflow accepts (the D3 part of validate_workflow_spec).
PublishedGated ==
    \A n \in Node \ MockEnv :
        (n \in WriteTier \/ (Type[n] = "agent_task" /\ FullMode(n, InitMode[AgentOf[n]])))
        => ApprovalGated(n)

-----------------------------------------------------------------------------
Init ==
    /\ status = "none" /\ cancel = FALSE /\ doc = FreshDoc
    /\ ap = [a \in ApId |-> [node |-> None, status |-> "none"]]
    /\ hb = [h \in HbId |-> [agent |-> None, node |-> None, full |-> FALSE,
                             cancel |-> FALSE, status |-> "none"]]
    /\ paused = FALSE /\ agentMode = InitMode
    /\ phase = "serving" /\ pc = "idle" /\ cur = NoCur /\ mem = FreshDoc
    /\ tasks = {} /\ runners = {}
    /\ wrote = [n \in Node |-> 0]
    /\ crashes = 0 /\ publishes = 0

-----------------------------------------------------------------------------
(* The API *)

StartRun ==
    /\ phase = "serving" /\ status = "none"
    /\ status' = "running"
    /\ tasks' = tasks \cup {AdvanceTask}
    /\ UNCHANGED <<cancel, doc, ap, hb, hubVars, lockVars, runners, wrote>>

\* cancel(): the flag is on the row before the lock is asked for
RequestCancel ==
    /\ phase = "serving" /\ status \in Active
    /\ cancel' = TRUE
    /\ tasks' = tasks \cup {CancelTask}
    /\ UNCHANGED <<status, doc, ap, hb, hubVars, lockVars, runners, wrote>>

\* decide(): so is the decision, and only a pending approval can be decided
Decide(a) ==
    /\ phase = "serving" /\ ap[a].status = "pending"
    /\ \E d \in Decision : ap' = [ap EXCEPT ![a].status = d]
    /\ tasks' = tasks \cup {DecideTask(a)}
    /\ UNCHANGED <<rowVars, hb, hubVars, lockVars, runners, wrote>>

-----------------------------------------------------------------------------
(* Short sections under the lock: read the row, decide, save it *)

LockFor(t) == pc = "idle" /\ t \in tasks

Save(d, st) == doc' = d /\ mem' = d /\ status' = st

\* the section ends without writing
Return(t) ==
    /\ tasks' = tasks \ {t}
    /\ UNCHANGED <<rowVars, ap, hb, hubVars, lockVars, runners, wrote>>

\* the section saves d and st, and leaves the coroutines `next`
Section(t, d, st, next) ==
    /\ Save(d, st)
    /\ tasks' = (tasks \ {t}) \cup next
    /\ UNCHANGED <<cancel, ap, hb, hubVars, pc, cur, runners, wrote>>

TakesRejection(n) == \E e \in Edge : e.from = n /\ e.when = "rejected"

DecideLocked(a) ==
    LET n == ap[a].node
        stale == status \notin Active \/ doc.apid[n] \notin {None, a}
        refused == ap[a].status = "rejected" /\ ~TakesRejection(n)
    IN  /\ LockFor(DecideTask(a))
        /\ \/ stale /\ Return(DecideTask(a))
           \/ /\ ~stale
              /\ Section(DecideTask(a), FinishAs(doc, n, "done", ap[a].status),
                         IF refused THEN "rejected" ELSE status, {AdvanceTask})

\* mutation: a timed-out gate is failed even if the run has already ended
ExpireEndedRun(a) ==
    /\ LockFor(ExpiredTask(a))
    /\ Section(ExpiredTask(a), Finish(doc, ap[a].node, "failed"), "failed", {})

\* _approval_expired(): fails the node and the run, and nothing else
ApprovalExpired(a) ==
    LET n == ap[a].node
        stale == status \notin Active \/ doc.apid[n] # a
    IN  /\ LockFor(ExpiredTask(a))
        /\ \/ stale /\ Return(ExpiredTask(a))
           \/ ~stale /\ Section(ExpiredTask(a), Finish(doc, n, "failed"), "failed", {})

RetryLater(n) ==
    LET waits == status \in Active /\ doc.states[n] = "deferred"
    IN  /\ LockFor(RetryTask(n))
        /\ Section(RetryTask(n), IF waits THEN Finish(doc, n, "pending") ELSE doc, status,
                   {AdvanceTask})

HeartbeatDone(n, h) ==
    LET stale == \/ status \notin Active
                 \/ doc.states[n] # "running" \/ doc.hbid[n] # h
    IN  /\ LockFor(DoneTask(n, h))
        /\ \/ stale /\ Return(DoneTask(n, h))
           \/ /\ ~stale
              /\ Section(DoneTask(n, h), FinishAs(doc, n, hb[h].status, "ok"), status,
                         {AdvanceTask})

-----------------------------------------------------------------------------
(* Stopping: cancel a run, or the siblings of its failed node *)

\* mutation: the gates of the run stay open
StopNodesOnly(d, which) ==
    /\ hb' = [h \in HbId |-> IF \E n \in Node : d.states[n] = "running" /\ d.hbid[n] = h
                             THEN [hb[h] EXCEPT !.cancel = TRUE] ELSE hb[h]]
    /\ mem' = [d EXCEPT !.states =
                [n \in Node |-> IF d.states[n] \in which THEN "cancelled" ELSE d.states[n]]]
    /\ ap' = ap

\* mutation: the heartbeats of the run are not told to stop
StopRowsOnly(d, which) ==
    /\ mem' = [d EXCEPT !.states =
                [n \in Node |-> IF d.states[n] \in which THEN "cancelled" ELSE d.states[n]]]
    /\ UNCHANGED <<ap, hb>>

\* _stop_siblings() and _cancel_locked() up to their save: cancel flags on the
\* heartbeats of running nodes, the nodes in `which` cancelled, gates closed
StopNodes(d, which) ==
    /\ hb' = [h \in HbId |->
                IF /\ hb[h].status = "running"
                   /\ \E n \in Node : d.states[n] = "running" /\ d.hbid[n] = h
                THEN [hb[h] EXCEPT !.cancel = TRUE] ELSE hb[h]]
    /\ mem' = [d EXCEPT !.states =
                [n \in Node |-> IF d.states[n] \in which THEN "cancelled" ELSE d.states[n]]]
    /\ ap' = [a \in ApId |->
                IF ap[a].status = "pending" THEN [ap[a] EXCEPT !.status = "cancelled"]
                                            ELSE ap[a]]

Cancelling(t) ==
    /\ status \in Active
    /\ StopNodes(doc, Unresolved)
    /\ pc' = "cancelling"
    /\ tasks' = tasks \ {t}
    /\ UNCHANGED <<rowVars, hubVars, cur, runners, wrote>>

CancelLocked ==
    /\ LockFor(CancelTask)
    /\ \/ status \notin Active /\ Return(CancelTask)
       \/ Cancelling(CancelTask)

SaveStopped ==
    /\ pc \in {"cancelling", "stopping"}
    /\ Save(mem, IF pc = "cancelling" THEN "cancelled" ELSE "failed")
    /\ pc' = "idle"
    /\ UNCHANGED <<cancel, ap, hb, hubVars, cur, tasks, runners, wrote>>

-----------------------------------------------------------------------------
(* advance(): start every node that is ready, until nothing more can move *)

\* mutation: the row's cancel flag is not looked at
AdvanceIgnoresCancel ==
    /\ LockFor(AdvanceTask)
    /\ \/ status \notin Active /\ Return(AdvanceTask)
       \/ /\ status \in Active
          /\ pc' = "scan" /\ mem' = doc
          /\ tasks' = tasks \ {AdvanceTask}
          /\ UNCHANGED <<rowVars, ap, hb, hubVars, cur, runners, wrote>>

Advance ==
    /\ LockFor(AdvanceTask)
    /\ \/ status \notin Active /\ Return(AdvanceTask)
       \/ cancel /\ Cancelling(AdvanceTask)
       \/ /\ status \in Active /\ ~cancel
          /\ pc' = "scan" /\ mem' = doc
          /\ tasks' = tasks \ {AdvanceTask}
          /\ UNCHANGED <<rowVars, ap, hb, hubVars, cur, runners, wrote>>

\* marked in the snapshot, saved with the next node that starts
SkipNode(n) ==
    /\ pc = "scan" /\ Unreachable(n)
    /\ mem' = Finish(mem, n, "skipped")
    /\ UNCHANGED <<rowVars, ap, hb, hubVars, pc, cur, tasks, runners, wrote>>

Starting(n, type) == pc = "scan" /\ Ready(n) /\ Type[n] = type

\* the node ends within _start_node and nothing outside the row changes: its save
EndNode(d) ==
    /\ Save(d, RunStatus(d.states))
    /\ UNCHANGED <<cancel, ap, hb, hubVars, pc, cur, tasks, runners, wrote>>

\* the node goes on outside the row
Go(to, node, full) ==
    /\ pc' = to /\ cur' = [node |-> node, full |-> full]
    /\ UNCHANGED <<rowVars, ap, hb, hubVars, mem, tasks, runners, wrote>>

PassThrough(n) ==
    /\ Starting(n, "parallel") \/ Starting(n, "join")
    /\ EndNode(FinishAs(mem, n, "done", "ok"))

EvaluateCondition(n) ==
    /\ Starting(n, "condition")
    /\ \/ \E value \in {"true", "false"} : EndNode(FinishAs(mem, n, "done", value))
       \/ EndNode(Finish(mem, n, "failed"))   \* ExpressionError

RequestApproval(n) ==
    /\ Starting(n, "approval") /\ FreeAp # {}
    /\ LET a == CHOOSE x \in FreeAp : TRUE
       IN  /\ ap' = [ap EXCEPT ![a] = [node |-> n, status |-> "pending"]]
           /\ mem' = [mem EXCEPT !.states[n] = "waiting", !.apid[n] = a]
    /\ pc' = "save"
    /\ UNCHANGED <<rowVars, hb, hubVars, cur, tasks, runners, wrote>>

\* the save_run after a node that left something outside the row
SaveNode ==
    /\ pc = "save"
    /\ Save(mem, RunStatus(mem.states))
    /\ pc' = "scan" /\ cur' = NoCur
    /\ UNCHANGED <<cancel, ap, hb, hubVars, tasks, runners, wrote>>

NothingMoves == \A n \in Node : ~Ready(n) /\ ~Unreachable(n)

\* all done, skipped or parked: the last save of advance()
EndAdvance ==
    /\ pc = "scan" /\ NothingMoves /\ RunStatus(mem.states) # "failed"
    /\ Save(mem, RunStatus(mem.states))
    /\ pc' = "idle"
    /\ UNCHANGED <<cancel, ap, hb, hubVars, cur, tasks, runners, wrote>>

StopSiblings ==
    /\ pc = "scan" /\ NothingMoves /\ RunStatus(mem.states) = "failed"
    /\ StopNodes(mem, {"running", "waiting", "deferred"})
    /\ pc' = "stopping"
    /\ UNCHANGED <<rowVars, hubVars, cur, tasks, runners, wrote>>

-----------------------------------------------------------------------------
(* Tool nodes: the gate, the journal, the write *)

\* a read tool, or arguments that do not render
CallReadTool(n) ==
    /\ Starting(n, "tool")
    /\ \/ n \notin WriteTier /\ EndNode(FinishAs(mem, n, "done", "ok"))
       \/ EndNode(Finish(mem, n, "failed"))

ToolAllowed(n) == ~paused /\ (n \in MockEnv \/ ApprovedOnPath(n, mem))

GateWriteTool(n) ==
    /\ Starting(n, "tool") /\ n \in WriteTier
    /\ \/ ToolAllowed(n)
          /\ Go(IF n \in Creates \cup Executes THEN "write" ELSE "journal", n, TRUE)
       \/ ~ToolAllowed(n) /\ EndNode(Finish(mem, n, "failed"))

\* append_node_journal: a record straight on the row, whatever the snapshot holds
OnRow(n, record) == [doc EXCEPT !.journal[n] = @ \cup {record}]

\* an update or a delete: the `before` record of the next write, ahead of it
Journal ==
    /\ pc = "journal" /\ wrote[cur.node] < MaxWrite
    /\ doc' = OnRow(cur.node, wrote[cur.node] + 1)
    /\ pc' = "write"
    /\ UNCHANGED <<status, cancel, ap, hb, hubVars, cur, mem, tasks, runners, wrote>>

\* the call returned: ok or an error, with the journal it kept
Returned(n, journal, st) ==
    /\ pc' = "save"
    /\ mem' = [mem EXCEPT !.journal[n] = journal, !.states[n] = st,
                          !.results[n] = IF st = "done" THEN "ok" ELSE @]
    /\ UNCHANGED <<status, cancel, ap, hb, hubVars, cur, tasks, runners>>

\* the record of the write under way: ahead of it, after it, or none
Kept(n) == IF n \in Creates \cup Executes THEN {} ELSE {wrote[n] + 1}

\* mutation: the node's journal is left out of the saved state
WriteForgetsJournal ==
    /\ pc = "write" /\ wrote[cur.node] < MaxWrite
    /\ wrote' = [wrote EXCEPT ![cur.node] = @ + 1] /\ doc' = doc
    /\ \E st \in {"done", "failed"} : Returned(cur.node, {}, st)

\* mutation: a write that answered with an error is tried again
WriteRetriesErrors ==
    /\ pc = "write" /\ wrote[cur.node] < MaxWrite
    /\ wrote' = [wrote EXCEPT ![cur.node] = @ + 1] /\ doc' = doc
    /\ \E st \in {"done", "pending"} : Returned(cur.node, {wrote[cur.node] + 1}, st)

\* the write took place; the answer may still be an error
Write ==
    /\ pc = "write" /\ wrote[cur.node] < MaxWrite
    /\ wrote' = [wrote EXCEPT ![cur.node] = @ + 1] /\ doc' = doc
    /\ \/ Returned(cur.node, Kept(cur.node), "failed")
       \/ cur.node \notin Creates /\ Returned(cur.node, Kept(cur.node), "done")
       \/ /\ cur.node \in Creates /\ pc' = "record"
          /\ UNCHANGED <<status, cancel, ap, hb, hubVars, cur, mem, tasks, runners>>

\* a create is recorded once its write is done: a record that cannot be stored, or
\* not within its ten seconds, fails the call and leaves the write without one
RecordCreate ==
    LET n == cur.node
    IN  /\ pc = "record" /\ wrote' = wrote
        /\ \/ doc' = OnRow(n, wrote[n]) /\ Returned(n, {wrote[n]}, "done")
           \/ doc' \in {doc, OnRow(n, wrote[n])} /\ Returned(n, {}, "failed")

\* refused by the tool layer, or failed before the write took place: one whose record
\* came too late for the call is on the row, and the call does not keep it
DispatchFails ==
    /\ pc \in {"journal", "write"} /\ wrote[cur.node] < MaxWrite
    /\ wrote' = wrote /\ doc' = doc
    /\ \E journal \in {{}} \cup (IF pc = "write" THEN {Kept(cur.node)} ELSE {}) :
          Returned(cur.node, journal, "failed")

-----------------------------------------------------------------------------
(* Agent tasks: resolve the agent, check the gate, launch one heartbeat *)

\* mutation: the gate is checked for the mode the workflow was published with
AgentAllowedAsPublished(n) ==
    /\ agentMode[AgentOf[n]] # "none"
    /\ FullMode(n, InitMode[AgentOf[n]]) /\ n \notin MockEnv => ApprovedOnPath(n, mem)

AgentAllowed(n) ==
    /\ agentMode[AgentOf[n]] # "none"
    /\ FullMode(n, agentMode[AgentOf[n]]) /\ n \notin MockEnv => ApprovedOnPath(n, mem)

ResolveAgent(n) ==
    /\ Starting(n, "agent_task")
    /\ \/ AgentAllowed(n) /\ Go("launch", n, FullMode(n, agentMode[AgentOf[n]]))
       \/ ~AgentAllowed(n) /\ EndNode(Finish(mem, n, "failed"))

Busy(agent) == \E h \in HbId : hb[h].agent = agent /\ hb[h].status = "running"

\* paused, a budget or a quota, no LLM, or a full mode nobody stands behind
LaunchRefused ==
    /\ pc = "launch"
    /\ mem' = Finish(mem, cur.node, "failed")
    /\ pc' = "save"
    /\ UNCHANGED <<rowVars, ap, hb, hubVars, cur, tasks, runners, wrote>>

LaunchCoalesced ==
    /\ pc = "launch" /\ ~paused /\ Busy(AgentOf[cur.node])
    /\ mem' = Finish(mem, cur.node, "deferred")
    /\ tasks' = tasks \cup {RetryTask(cur.node)}
    /\ pc' = "save"
    /\ UNCHANGED <<rowVars, ap, hb, hubVars, cur, runners, wrote>>

\* start_heartbeat: a new `running` row and the thread that executes it
NewHeartbeat(h, agent, node, full) ==
    /\ ~paused /\ ~Busy(agent)
    /\ hb' = [hb EXCEPT ![h] = [agent |-> agent, node |-> node, full |-> full,
                                cancel |-> FALSE, status |-> "running"]]
    /\ runners' = runners \cup {h}

LaunchStarted ==
    /\ pc = "launch" /\ FreeHb # {}
    /\ cur.full /\ cur.node \in MockEnv => HumanCaller
    /\ LET h == CHOOSE x \in FreeHb : TRUE
       IN  /\ NewHeartbeat(h, AgentOf[cur.node], cur.node, cur.full)
           /\ mem' = [mem EXCEPT !.states[cur.node] = "running", !.hbid[cur.node] = h]
    /\ pc' = "save"
    /\ UNCHANGED <<rowVars, ap, hubVars, cur, tasks, wrote>>

-----------------------------------------------------------------------------
(* Heartbeats, the tick, and the rest of the hub *)

\* execute(): record the outcome on a row that is still running, then on_done
RunnerEnds(h) ==
    /\ h \in runners
    /\ \E outcome \in {"done", "failed"} :
          hb' = [hb EXCEPT ![h].status = IF @ = "running" THEN outcome ELSE @]
    /\ runners' = runners \ {h}
    /\ tasks' = IF hb[h].node = None THEN tasks ELSE tasks \cup {DoneTask(hb[h].node, h)}
    /\ UNCHANGED <<rowVars, ap, hubVars, lockVars, wrote>>

\* ... unless the outcome cannot be stored, or the row is stored and what follows raises:
\* execute() ends there, and nobody tells the run
OutcomeLost(h) ==
    /\ h \in runners
    /\ \E outcome \in {"running", "done", "failed"} :
          hb' = [hb EXCEPT ![h].status = IF @ = "running" THEN outcome ELSE @]
    /\ runners' = runners \ {h}
    /\ UNCHANGED <<rowVars, ap, hubVars, lockVars, tasks, wrote>>

\* _watch_heartbeat(): the poll that replaces a runner lost in a restart
WatchSees(n, h) ==
    /\ WatchTask(n, h) \in tasks /\ hb[h].status # "running"
    /\ tasks' = (tasks \ {WatchTask(n, h)}) \cup {DoneTask(n, h)}
    /\ UNCHANGED <<rowVars, ap, hb, hubVars, lockVars, runners, wrote>>

\* mutation: the timed-out rows are marked and nobody is told
ExpireRowsOnly(a) ==
    /\ phase \in {"starting", "serving"}
    /\ ap[a].status = "pending" /\ ap[a].node \in Timed
    /\ ap' = [ap EXCEPT ![a].status = "expired"]
    /\ UNCHANGED <<rowVars, hb, hubVars, lockVars, tasks, runners, wrote>>

\* tick() runs before reconcile() at startup and every 30 s while serving
Expire(a) ==
    /\ phase \in {"starting", "serving"}
    /\ ap[a].status = "pending" /\ ap[a].node \in Timed
    /\ ap' = [ap EXCEPT ![a].status = "expired"]
    /\ tasks' = tasks \cup {ExpiredTask(a)}
    /\ UNCHANGED <<rowVars, hb, hubVars, lockVars, runners, wrote>>

\* reconcile_running(): a row past its wall clock, whether or not a thread hangs on
Watchdog(h) ==
    /\ phase \in {"starting", "serving"} /\ hb[h].status = "running"
    /\ hb' = [hb EXCEPT ![h].status = "failed"]
    /\ UNCHANGED <<rowVars, ap, hubVars, lockVars, tasks, runners, wrote>>

\* another wake (manual, schedule, event, another run) of one of the agents
OtherWake(agent) ==
    /\ phase = "serving" /\ FreeHb # {}
    /\ Cardinality({h \in HbId : hb[h].status # "none" /\ hb[h].node = None}) < MaxOther
    /\ NewHeartbeat(CHOOSE x \in FreeHb : TRUE, agent, None, FALSE)
    /\ UNCHANGED <<rowVars, ap, hubVars, lockVars, tasks, wrote>>

SetPaused ==
    /\ phase = "serving"
    /\ paused' = ~paused
    /\ UNCHANGED <<rowVars, ap, hb, agentMode, publishes, phase, crashes, lockVars, tasks,
                   runners, wrote>>

\* an agent is republished in another mode, or retired
PublishAgent(agent, mode) ==
    /\ phase = "serving" /\ publishes < MaxPublish
    /\ agentMode[agent] # "none" /\ mode # agentMode[agent]
    /\ agentMode' = [agentMode EXCEPT ![agent] = mode]
    /\ publishes' = publishes + 1
    /\ UNCHANGED <<rowVars, ap, hb, paused, phase, crashes, lockVars, tasks, runners, wrote>>

-----------------------------------------------------------------------------
(* Crash and restart *)

Crash ==
    /\ phase # "down" /\ crashes < MaxCrash
    /\ phase' = "down" /\ crashes' = crashes + 1
    /\ pc' = "idle" /\ cur' = NoCur /\ mem' = doc
    /\ tasks' = {} /\ runners' = {}
    /\ UNCHANGED <<rowVars, ap, hb, paused, agentMode, publishes, wrote>>

Enter(to) == phase' = to /\ UNCHANGED <<paused, agentMode, publishes, crashes>>

Restart ==
    /\ phase = "down" /\ Enter("starting")
    /\ UNCHANGED <<rowVars, ap, hb, lockVars, tasks, runners, wrote>>

\* mutation: a deferred node is not put back in line
ReconcileKeepsDeferred ==
    /\ phase = "starting" /\ pc = "idle" /\ tasks = {}
    /\ tasks' = {AdvanceTask} \cup {WatchTask(n, doc.hbid[n]) :
                                    n \in {m \in Node : doc.states[m] = "running"}}
    /\ Enter("resuming")
    /\ UNCHANGED <<rowVars, ap, hb, lockVars, runners, wrote>>

\* reconcile(): after one tick, watch the running nodes, put the deferred ones
\* back in line, and advance; the API answers once that advance() has returned
Reconcile ==
    /\ phase = "starting" /\ pc = "idle" /\ tasks = {}
    /\ IF status \in Active
       THEN /\ Save([doc EXCEPT !.states =
                       [n \in Node |-> IF @[n] = "deferred" THEN "pending" ELSE @[n]]],
                    status)
            /\ tasks' = {AdvanceTask} \cup
                        {WatchTask(n, doc.hbid[n]) :
                           n \in {m \in Node : doc.states[m] = "running" /\ doc.hbid[m] # None}}
       ELSE UNCHANGED <<doc, mem, status, tasks>>
    /\ Enter("resuming")
    /\ UNCHANGED <<cancel, ap, hb, pc, cur, runners, wrote>>

Serve ==
    /\ phase = "resuming" /\ pc = "idle" /\ AdvanceTask \notin tasks
    /\ Enter("serving")
    /\ UNCHANGED <<rowVars, ap, hb, lockVars, tasks, runners, wrote>>

-----------------------------------------------------------------------------
StartNode(n) ==
    \/ PassThrough(n) \/ EvaluateCondition(n) \/ RequestApproval(n)
    \/ CallReadTool(n) \/ GateWriteTool(n) \/ ResolveAgent(n)

\* the coroutine that holds the lock moves on
Holder ==
    \/ \E n \in Node : SkipNode(n) \/ StartNode(n)
    \/ SaveNode \/ SaveStopped \/ EndAdvance \/ StopSiblings
    \/ Journal \/ Write \/ RecordCreate \/ DispatchFails
    \/ LaunchRefused \/ LaunchCoalesced \/ LaunchStarted

\* a coroutine that waits for the lock gets it
Waiter ==
    \/ Advance \/ CancelLocked
    \/ \E a \in ApId : DecideLocked(a) \/ ApprovalExpired(a)
    \/ \E n \in Node : RetryLater(n) \/ \E h \in HbId : HeartbeatDone(n, h)

Recovery == Restart \/ Reconcile \/ Serve

Heartbeats ==
    \E h \in HbId :
        RunnerEnds(h) \/ OutcomeLost(h) \/ Watchdog(h) \/ \E n \in Node : WatchSees(n, h)

Environment ==
    \/ StartRun \/ RequestCancel \/ SetPaused \/ Crash
    \/ \E a \in ApId : Decide(a) \/ Expire(a)
    \/ \E agent \in Agent :
          OtherWake(agent) \/ \E mode \in Mode \cup {"none"} : PublishAgent(agent, mode)

Next == Holder \/ Waiter \/ Recovery \/ Heartbeats \/ Environment

Spec == Init /\ [][Next]_vars

\* asyncio runs every ready coroutine, its locks are granted in order, a restarted
\* process gets to serve, a heartbeat ends at its wall clock, and the tick fails the
\* rows of the ones that cannot.  Nobody is obliged to decide a gate.
Fairness ==
    /\ WF_vars(Holder) /\ WF_vars(Waiter) /\ WF_vars(Recovery) /\ SF_vars(Serve)
    /\ \A h \in HbId : /\ WF_vars(RunnerEnds(h)) /\ WF_vars(Watchdog(h))
                       /\ WF_vars(\E n \in Node : WatchSees(n, h))

LiveSpec == Spec /\ Fairness

-----------------------------------------------------------------------------
(* Properties *)

\* The rows, the snapshot and the queue of coroutines keep their shapes.
TypeOK ==
    /\ status \in {"none"} \cup Active \cup Terminal /\ cancel \in BOOLEAN
    /\ doc \in Doc /\ mem \in Doc
    /\ ap \in [ApId -> ApRow] /\ hb \in [HbId -> HbRow]
    /\ paused \in BOOLEAN /\ agentMode \in [Agent -> Mode \cup {"none"}]
    /\ phase \in {"down", "starting", "resuming", "serving"}
    /\ pc \in {"idle", "scan", "save", "journal", "write", "record", "launch", "cancelling",
              "stopping"}
    /\ cur \in [node : Node \cup {None}, full : BOOLEAN]
    /\ tasks \subseteq Task /\ runners \subseteq HbId
    /\ wrote \in [Node -> 0 .. MaxWrite]
    /\ crashes \in 0 .. MaxCrash /\ publishes \in 0 .. MaxPublish

\* Nodes downstream of a gate in G: the least set that contains every node an edge
\* enters from G or from the set.
Downstream(G) ==
    {n \in Node : \A S \in SUBSET Node :
        (\A e \in Edge : e.from \in G \cup S => e.to \in S) => n \in S}

ApprovedGates == {n \in Node : \E a \in ApId : ap[a].node = n /\ ap[a].status = "approved"}

\* nodes that have written outside mock: a tool call, or a full-mode heartbeat
Executed == {n \in Node \ MockEnv :
               wrote[n] > 0 \/ \E h \in HbId : hb[h].node = n /\ hb[h].full}

\* D3 (engine.py docstring): whatever is republished, skipped, rejected, retried or
\* restarted, a node writes outside mock only downstream of an approval row a human
\* decided `approved` in this run.
HumanGate == Executed \subseteq Downstream(ApprovedGates)

\* The same, from the row alone: what the row says fired shows an approved gate on
\* every path into each node that has written.
RowShowsTheGate == \A n \in Executed : ApprovedOnPath(n, doc)

\* The row is causally closed: a node that has started has all its predecessors
\* resolved in the same row, and one of their edges fired, so advance() recomputes
\* after a restart what it computed before.
CausallyClosed ==
    \A n \in Node :
        doc.states[n] \in {"deferred", "running", "waiting", "done", "failed"} =>
            /\ Resolved(n, doc)
            /\ Into(n) # {} => Fired(n, doc) # {}

\* The gate of the published graph is at least as strict as the one of the run:
\* where every path is gated, the run-time check refuses no node that is ready.
PublishedGateSuffices ==
    pc = "scan" => \A n \in Node : Ready(n) /\ ApprovalGated(n) => ApprovedOnPath(n, mem)

Quiet == phase = "serving" /\ pc = "idle" /\ tasks = {}

\* A gate the run waits at can be answered: its row is still pending.
WaitingGateIsOpen ==
    Quiet /\ status \in Active =>
        \A n \in Node : doc.states[n] = "waiting" => ap[doc.apid[n]].status = "pending"

\* ... at least as long as the process lives.
GatesStayOpen == crashes = 0 => WaitingGateIsOpen

\* A rejection no edge takes, or a gate that timed out, ends the run where it stands:
\* neither stops the nodes beside the gate.
EndedAtGate ==
    \/ status = "rejected"
    \/ \E a \in ApId : /\ ap[a].status = "expired"
                       /\ doc.apid[ap[a].node] = a /\ doc.states[ap[a].node] = "failed"

\* Without a crash the inbox holds no second row for a node, and no gate of a run that
\* has ended, unless it ended at another gate.
InboxIsLive ==
    Quiet /\ crashes = 0 => \A a \in ApId : ap[a].status = "pending" =>
                (status \in Active \/ EndedAtGate) /\ doc.apid[ap[a].node] = a

\* Every heartbeat of the run still going is one the row tracks, or has been told to
\* stop; one that is tracked belongs to an active run, or to one that ended at a gate.
HeartbeatsTracked ==
    Quiet => \A h \in runners : hb[h].node # None /\ hb[h].status = "running" =>
                \/ hb[h].cancel
                \/ /\ status \in Active \/ EndedAtGate
                   /\ doc.states[hb[h].node] = "running" /\ doc.hbid[hb[h].node] = h

\* Without a crash a tool node executes its write at most once in a run.
WriteOnce == crashes = 0 => \A n \in Node : wrote[n] <= 1

\* The tool nodes whose writes the row must be able to undo: all but the tier execute,
\* and a create only once it is done (one whose record failed has failed).
MustCover(n) == n \notin Executes /\ (n \in Creates => doc.states[n] = "done")

\* Each write such a node executed has its record on the row.
JournalCovers == \A n \in Node : MustCover(n) => (1 .. wrote[n]) \subseteq doc.journal[n]

\* ... and still has it at the end of a run no crash interrupted.
JournalComplete == crashes = 0 => JournalCovers

\* A run that has ended keeps its status, whoever still holds an old snapshot.
StatusIsFinal == [][(status \in Terminal) => status' = status]_vars

\* A node whose heartbeat has ended and nobody is left to tell the run, until a restart
\* or a cancel: its outcome was lost.
Forgotten(n) ==
    LET h == doc.hbid[n]
    IN  /\ doc.states[n] = "running" /\ h \notin runners
        /\ {DoneTask(n, h), WatchTask(n, h)} \cap tasks = {}

\* A run that is `running` comes to wait for a human or to an end, crashes included,
\* unless the outcome of one of its heartbeats is lost.
RunMovesOn ==
    (status = "running") ~>
        (status # "running" \/ (phase = "serving" /\ \E n \in Node : Forgotten(n)))

\* A run somebody asked to cancel ends.
CancelEnds == (cancel /\ status \in Active) ~> (status \in Terminal)
=============================================================================
