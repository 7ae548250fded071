------------------------ MODULE WorkflowEngineProofs ------------------------
(***************************************************************************)
(* Theorems about one run of the workflow engine, for every workflow and   *)
(* every value of the bounds: its types, and the human gate.               *)
(***************************************************************************)
EXTENDS WorkflowEngine, TLAPS

\* What the coroutines and the snapshots hold about the rows: a decision waiting
\* for the lock is on its row, a heartbeat that is watched, run or named by a node
\* has been started, and one that is reported has ended.
BackedDoc(d) == \A n \in Node : d.hbid[n] # None => hb[d.hbid[n]].status # "none"

Backed ==
    /\ \A a \in ApId : DecideTask(a) \in tasks => ap[a].status \in Decision
    /\ \A n \in Node, h \in HbId : WatchTask(n, h) \in tasks => hb[h].status # "none"
    /\ \A n \in Node, h \in HbId : DoneTask(n, h) \in tasks => hb[h].status \in {"done", "failed"}
    /\ \A h \in runners : hb[h].status # "none"
    /\ BackedDoc(doc) /\ BackedDoc(mem)
    /\ pc \in {"journal", "write", "record", "launch"} => cur.node \in Node
    /\ pc = "record" => wrote[cur.node] > 0

IInv == TypeOK /\ Backed

-----------------------------------------------------------------------------
(* Helpers *)

\* Updating the state of a node, and its result, gives a row document again.
LEMMA FinishTyped ==
    ASSUME NEW d \in Doc, NEW n, NEW st \in NodeStatus
    PROVE  Finish(d, n, st) \in Doc
BY DEF Finish, Doc

LEMMA FinishAsTyped ==
    ASSUME NEW d \in Doc, NEW n, NEW st \in NodeStatus, NEW r \in Result
    PROVE  FinishAs(d, n, st, r) \in Doc
BY DEF FinishAs, Doc

\* Neither changes the heartbeat a node names.
LEMMA FinishHbid ==
    ASSUME NEW d \in Doc, NEW n, NEW st, NEW r
    PROVE  /\ Finish(d, n, st).hbid = d.hbid
           /\ FinishAs(d, n, st, r).hbid = d.hbid
BY DEF Finish, FinishAs, Doc

\* The status a run takes from its nodes is one a run can have.
LEMMA RunStatusTyped ==
    ASSUME NEW states
    PROVE  RunStatus(states) \in Active \cup Terminal
BY DEF RunStatus, Active, Terminal
-----------------------------------------------------------------------------
(* Types and backing: one lemma per kind of step *)

LEMMA InitTyped == Init => IInv
<1> SUFFICES ASSUME Init PROVE IInv
  OBVIOUS
<1>1. FreshDoc \in Doc
  BY DEF FreshDoc, Doc, NodeStatus, Unresolved, Result
<1>2. ap \in [ApId -> ApRow] /\ hb \in [HbId -> HbRow]
  BY DEF Init, ApRow, HbRow
<1>3. agentMode \in [Agent -> Mode \cup {"none"}]
  BY WorkflowAssumption DEF WorkflowAssumption, Init
<1>4. wrote \in [Node -> 0 .. MaxWrite] /\ crashes \in 0 .. MaxCrash
      /\ publishes \in 0 .. MaxPublish
  BY BoundAssumption DEF BoundAssumption, Init
<1>5. TypeOK
  BY <1>1, <1>2, <1>3, <1>4 DEF Init, TypeOK, NoCur
<1>6. Backed
  BY DEF Init, Backed, BackedDoc, FreshDoc
<1>7. QED
  BY <1>5, <1>6 DEF IInv

\* The API's actions change the row's flag or status, one approval row, and the queue.
LEMMA ApiTyped ==
    ASSUME IInv, StartRun \/ RequestCancel \/ \E a \in ApId : Decide(a)
    PROVE  IInv'
<1>1. CASE StartRun
  BY <1>1 DEF StartRun, IInv, TypeOK, Backed, BackedDoc, hubVars, lockVars, AdvanceTask,
              DecideTask, WatchTask, DoneTask, Task, Active
<1>2. CASE RequestCancel
  BY <1>2 DEF RequestCancel, IInv, TypeOK, Backed, BackedDoc, hubVars, lockVars, CancelTask,
              DecideTask, WatchTask, DoneTask, Task, Active
<1>3. ASSUME NEW a \in ApId, Decide(a) PROVE IInv'
  BY <1>3 DEF Decide, IInv, TypeOK, Backed, BackedDoc, hubVars, rowVars, lockVars, ApRow,
              DecideTask, WatchTask, DoneTask, Task, Decision
<1>4. QED BY <1>1, <1>2, <1>3

\* A section under the lock that returns, and one that saves a well-formed document.
LEMMA ReturnTyped ==
    ASSUME IInv, NEW t, Return(t)
    PROVE  IInv'
BY DEF Return, IInv, TypeOK, Backed, BackedDoc, rowVars, hubVars, lockVars

LEMMA SectionTyped ==
    ASSUME IInv, NEW t, NEW d \in Doc, d.hbid = doc.hbid,
           NEW st \in {"none"} \cup Active \cup Terminal,
           NEW next \in SUBSET {AdvanceTask}, Section(t, d, st, next)
    PROVE  IInv'
BY DEF Section, Save, IInv, TypeOK, Backed, BackedDoc, hubVars, AdvanceTask, Task,
       DecideTask, WatchTask, DoneTask

\* The coroutines that take the lock for one short section.
LEMMA DecideLockedTyped ==
    ASSUME IInv, NEW a \in ApId, DecideLocked(a)
    PROVE  IInv'
<1> DEFINE n == ap[a].node
           d == FinishAs(doc, n, "done", ap[a].status)
           st == IF ap[a].status = "rejected" /\ ~TakesRejection(n) THEN "rejected" ELSE status
<1>1. CASE Return(DecideTask(a))
  BY <1>1, ReturnTyped
<1>2. CASE status \in Active /\ Section(DecideTask(a), d, st, {AdvanceTask})
  <2>1. DecideTask(a) \in tasks /\ doc \in Doc
    BY DEF DecideLocked, LockFor, IInv, TypeOK
  <2>2. ap[a].status \in Result
    BY <2>1 DEF IInv, Backed, Decision, Result
  <2>3. d \in Doc /\ d.hbid = doc.hbid
    BY <2>1, <2>2, FinishAsTyped, FinishHbid DEF NodeStatus
  <2>4. st \in Active \cup Terminal
    BY <1>2 DEF Terminal
  <2>5. QED
    BY <1>2, <2>3, <2>4, SectionTyped
<1>3. QED BY <1>1, <1>2 DEF DecideLocked

LEMMA ApprovalExpiredTyped ==
    ASSUME IInv, NEW a \in ApId, ApprovalExpired(a)
    PROVE  IInv'
<1> DEFINE d == Finish(doc, ap[a].node, "failed")
<1>1. CASE Return(ExpiredTask(a))
  BY <1>1, ReturnTyped
<1>2. CASE Section(ExpiredTask(a), d, "failed", {})
  <2>1. doc \in Doc /\ "failed" \in NodeStatus /\ "failed" \in Active \cup Terminal
    BY DEF IInv, TypeOK, NodeStatus, Terminal
  <2>2. d \in Doc /\ d.hbid = doc.hbid
    BY <2>1, FinishTyped, FinishHbid
  <2>3. QED
    BY <1>2, <2>1, <2>2, SectionTyped
<1>3. QED BY <1>1, <1>2 DEF ApprovalExpired

LEMMA RetryLaterTyped ==
    ASSUME IInv, NEW n \in Node, RetryLater(n)
    PROVE  IInv'
<1> DEFINE waits == status \in Active /\ doc.states[n] = "deferred"
           d == IF waits THEN Finish(doc, n, "pending") ELSE doc
<1>1. doc \in Doc /\ "pending" \in NodeStatus
  BY DEF IInv, TypeOK, NodeStatus, Unresolved
<1>2. d \in Doc /\ d.hbid = doc.hbid
  BY <1>1, FinishTyped, FinishHbid
<1>3. status \in {"none"} \cup Active \cup Terminal
  BY DEF IInv, TypeOK
<1>4. QED
  BY <1>2, <1>3, SectionTyped DEF RetryLater

LEMMA HeartbeatDoneTyped ==
    ASSUME IInv, NEW n \in Node, NEW h \in HbId, HeartbeatDone(n, h)
    PROVE  IInv'
<1> DEFINE d == FinishAs(doc, n, hb[h].status, "ok")
<1>1. CASE Return(DoneTask(n, h))
  BY <1>1, ReturnTyped
<1>2. CASE Section(DoneTask(n, h), d, status, {AdvanceTask})
  <2>1. doc \in Doc /\ "ok" \in Result /\ status \in {"none"} \cup Active \cup Terminal
    BY DEF IInv, TypeOK, Result
  <2>2. hb[h].status \in NodeStatus
    BY DEF HeartbeatDone, LockFor, IInv, Backed, NodeStatus
  <2>3. d \in Doc /\ d.hbid = doc.hbid
    BY <2>1, <2>2, FinishAsTyped, FinishHbid
  <2>4. QED
    BY <1>2, <2>1, <2>3, SectionTyped
<1>3. QED BY <1>1, <1>2 DEF HeartbeatDone

\* Stopping nodes changes only states, cancel flags and pending approval rows.
LEMMA StopNodesTyped ==
    ASSUME IInv, NEW d \in Doc, BackedDoc(d), NEW which, StopNodes(d, which)
    PROVE  /\ ap' \in [ApId -> ApRow] /\ hb' \in [HbId -> HbRow] /\ mem' \in Doc
           /\ \A h \in HbId : hb'[h].status = hb[h].status
           /\ \A a \in ApId : ap[a].status \in Decision => ap'[a].status = ap[a].status
           /\ mem'.hbid = d.hbid
<1> DEFINE runs(h) == \E n \in Node : d.states[n] = "running" /\ d.hbid[n] = h
           flag(h) == IF hb[h].status = "running" /\ runs(h)
                      THEN [hb[h] EXCEPT !.cancel = TRUE] ELSE hb[h]
           close(a) == IF ap[a].status = "pending" THEN [ap[a] EXCEPT !.status = "cancelled"]
                                                   ELSE ap[a]
<1>1. /\ hb \in [HbId -> HbRow] /\ ap \in [ApId -> ApRow]
      /\ hb' = [h \in HbId |-> flag(h)] /\ ap' = [a \in ApId |-> close(a)]
      /\ mem' = [d EXCEPT !.states =
                   [n \in Node |-> IF d.states[n] \in which THEN "cancelled" ELSE d.states[n]]]
  BY DEF StopNodes, IInv, TypeOK
<1> HIDE DEF runs
<1>2. ASSUME NEW h \in HbId
      PROVE  flag(h) \in HbRow /\ flag(h).status = hb[h].status
  <2>1. hb[h] \in HbRow
    BY <1>1
  <2>2. QED BY <2>1 DEF HbRow
<1>3. ASSUME NEW a \in ApId
      PROVE  close(a) \in ApRow /\ (ap[a].status \in Decision => close(a).status = ap[a].status)
  <2>1. ap[a] \in ApRow
    BY <1>1
  <2>2. QED BY <2>1 DEF ApRow, Decision
<1>4. mem' \in Doc /\ mem'.hbid = d.hbid
  BY <1>1 DEF Doc, NodeStatus
<1> HIDE DEF flag, close
<1>5. hb' \in [HbId -> HbRow] /\ \A h \in HbId : hb'[h].status = hb[h].status
  BY <1>1, <1>2
<1>6. ap' \in [ApId -> ApRow]
      /\ \A a \in ApId : ap[a].status \in Decision => ap'[a].status = ap[a].status
  BY <1>1, <1>3
<1>7. QED BY <1>4, <1>5, <1>6

LEMMA CancellingTyped ==
    ASSUME IInv, NEW t, Cancelling(t)
    PROVE  IInv'
<1>1. doc \in Doc /\ BackedDoc(doc) /\ StopNodes(doc, Unresolved)
  BY DEF Cancelling, IInv, TypeOK, Backed
<1>2. TypeOK'
  BY <1>1, StopNodesTyped DEF Cancelling, IInv, TypeOK, rowVars, hubVars
<1>3. /\ mem'.hbid = doc.hbid /\ doc' = doc
      /\ \A n \in Node : doc.hbid[n] \in HbId \cup {None} /\ mem.hbid[n] \in HbId \cup {None}
      /\ \A h \in HbId : hb'[h].status = hb[h].status
      /\ \A a \in ApId : ap[a].status \in Decision => ap'[a].status = ap[a].status
  BY <1>1, StopNodesTyped DEF Cancelling, rowVars, IInv, TypeOK, Doc
<1>4. BackedDoc(doc)' /\ BackedDoc(mem)'
  BY <1>1, <1>3 DEF IInv, Backed, BackedDoc
<1>5. tasks' \subseteq tasks /\ runners' = runners /\ runners \subseteq HbId
      /\ pc' \notin {"journal", "write", "record", "launch"}
  BY DEF Cancelling, IInv, TypeOK
<1>6. Backed'
  BY <1>3, <1>4, <1>5 DEF IInv, Backed
<1>7. QED BY <1>2, <1>6 DEF IInv

LEMMA StopSiblingsTyped ==
    ASSUME IInv, StopSiblings
    PROVE  IInv'
<1>1. mem \in Doc /\ BackedDoc(mem) /\ StopNodes(mem, {"running", "waiting", "deferred"})
  BY DEF StopSiblings, IInv, TypeOK, Backed
<1>2. TypeOK'
  BY <1>1, StopNodesTyped DEF StopSiblings, IInv, TypeOK, rowVars, hubVars
<1>3. /\ mem'.hbid = mem.hbid /\ doc' = doc
      /\ \A n \in Node : doc.hbid[n] \in HbId \cup {None} /\ mem.hbid[n] \in HbId \cup {None}
      /\ \A h \in HbId : hb'[h].status = hb[h].status
      /\ \A a \in ApId : ap[a].status \in Decision => ap'[a].status = ap[a].status
  BY <1>1, StopNodesTyped DEF StopSiblings, rowVars, IInv, TypeOK, Doc
<1>4. BackedDoc(doc)' /\ BackedDoc(mem)'
  BY <1>1, <1>3 DEF IInv, Backed, BackedDoc
<1>5. tasks' \subseteq tasks /\ runners' = runners /\ runners \subseteq HbId
      /\ pc' \notin {"journal", "write", "record", "launch"}
  BY DEF StopSiblings, IInv, TypeOK
<1>6. Backed'
  BY <1>3, <1>4, <1>5 DEF IInv, Backed
<1>7. QED BY <1>2, <1>6 DEF IInv

\* A node that ends at once, one that goes on outside the row, a call that returned.
LEMMA EndNodeTyped ==
    ASSUME IInv, NEW d \in Doc, d.hbid = mem.hbid, EndNode(d)
    PROVE  IInv'
<1>1. RunStatus(d.states) \in Active \cup Terminal
  BY RunStatusTyped
<1>2. QED
  BY <1>1 DEF EndNode, Save, IInv, TypeOK, Backed, BackedDoc, hubVars

LEMMA GoTyped ==
    ASSUME IInv, NEW n \in Node, NEW to \in {"journal", "write", "launch"},
           NEW full \in BOOLEAN, Go(to, n, full)
    PROVE  IInv'
BY DEF Go, IInv, TypeOK, Backed, BackedDoc, rowVars, hubVars

\* A record put on the row leaves a row document, with the same heartbeats.
LEMMA OnRowTyped ==
    ASSUME IInv, NEW n \in Node, NEW record \in 1 .. MaxWrite
    PROVE  OnRow(n, record) \in Doc /\ OnRow(n, record).hbid = doc.hbid
<1>1. doc.journal[n] \cup {record} \in SUBSET (1 .. MaxWrite)
  BY DEF IInv, TypeOK, Doc
<1>2. QED
  BY <1>1 DEF OnRow, IInv, TypeOK, Doc

LEMMA ReturnedTyped ==
    ASSUME IInv, NEW n \in Node, NEW journal \in SUBSET (1 .. MaxWrite),
           NEW st \in {"done", "failed"}, Returned(n, journal, st),
           wrote' \in [Node -> 0 .. MaxWrite], doc' \in Doc, doc'.hbid = doc.hbid
    PROVE  IInv'
<1>1. mem \in Doc /\ st \in NodeStatus /\ "ok" \in Result
  BY DEF IInv, TypeOK, NodeStatus, Result
<1>2. mem' \in Doc /\ mem'.hbid = mem.hbid
  <2> DEFINE r == IF st = "done" THEN "ok" ELSE mem.results[n]
  <2>1. mem' = [mem EXCEPT !.journal[n] = journal, !.states[n] = st, !.results[n] = r]
    BY <1>1 DEF Returned, Doc
  <2>2. r \in Result
    BY <1>1 DEF Doc
  <2> HIDE DEF r
  <2>3. QED BY <1>1, <2>1, <2>2 DEF Doc
<1>3. TypeOK'
  BY <1>2 DEF Returned, IInv, TypeOK, hubVars
<1>4. Backed'
  BY <1>2 DEF Returned, IInv, Backed, BackedDoc
<1>5. QED BY <1>3, <1>4 DEF IInv

\* The steps of the coroutine that holds the lock, other than launching.
LEMMA StartNodeTyped ==
    ASSUME IInv, NEW n \in Node,
           PassThrough(n) \/ EvaluateCondition(n) \/ CallReadTool(n)
             \/ GateWriteTool(n) \/ ResolveAgent(n)
    PROVE  IInv'
<1>1. mem \in Doc
  BY DEF IInv, TypeOK
<1>2. ASSUME NEW r \in Result, EndNode(FinishAs(mem, n, "done", r)) PROVE IInv'
  BY <1>1, <1>2, EndNodeTyped, FinishAsTyped, FinishHbid DEF NodeStatus
<1>3. CASE EndNode(Finish(mem, n, "failed"))
  BY <1>1, <1>3, EndNodeTyped, FinishTyped, FinishHbid DEF NodeStatus
<1>4. CASE PassThrough(n)
  BY <1>2, <1>4 DEF PassThrough, Result
<1>5. CASE EvaluateCondition(n)
  BY <1>2, <1>3, <1>5 DEF EvaluateCondition, Result
<1>6. CASE CallReadTool(n)
  BY <1>2, <1>3, <1>6 DEF CallReadTool, Result
<1>7. CASE GateWriteTool(n)
  BY <1>3, <1>7, GoTyped DEF GateWriteTool
<1>8. CASE ResolveAgent(n)
  <2>1. FullMode(n, agentMode[AgentOf[n]]) \in BOOLEAN
    BY DEF FullMode
  <2>2. QED
    BY <1>3, <1>8, <2>1, GoTyped DEF ResolveAgent
<1>9. QED BY <1>4, <1>5, <1>6, <1>7, <1>8

LEMMA RequestApprovalTyped ==
    ASSUME IInv, NEW n \in Node, RequestApproval(n)
    PROVE  IInv'
<1> DEFINE a == CHOOSE x \in FreeAp : TRUE
<1>1. a \in ApId /\ ap[a].status = "none"
  BY DEF RequestApproval, FreeAp
<1>2. ap' \in [ApId -> ApRow] /\ \A x \in ApId : ap[x].status \in Decision => ap'[x] = ap[x]
  BY <1>1 DEF RequestApproval, IInv, TypeOK, ApRow, Decision
<1>3. mem' \in Doc /\ mem'.hbid = mem.hbid
  BY <1>1 DEF RequestApproval, IInv, TypeOK, Doc, NodeStatus, Unresolved
<1>4. QED
  BY <1>2, <1>3 DEF RequestApproval, IInv, TypeOK, Backed, BackedDoc, rowVars, hubVars

LEMMA SkipNodeTyped ==
    ASSUME IInv, NEW n \in Node, SkipNode(n)
    PROVE  IInv'
<1>1. mem \in Doc /\ "skipped" \in NodeStatus /\ mem' = Finish(mem, n, "skipped")
  BY DEF SkipNode, IInv, TypeOK, NodeStatus
<1>2. mem' \in Doc /\ mem'.hbid = mem.hbid
  BY <1>1, FinishTyped, FinishHbid
<1>3. TypeOK'
  BY <1>2 DEF SkipNode, IInv, TypeOK, rowVars, hubVars
<1>4. Backed'
  BY <1>2 DEF SkipNode, IInv, Backed, BackedDoc, rowVars
<1>5. QED BY <1>3, <1>4 DEF IInv

LEMMA SavesTyped ==
    ASSUME IInv, SaveNode \/ SaveStopped \/ EndAdvance
    PROVE  IInv'
<1> USE DEF Save, IInv, TypeOK, Backed, BackedDoc, hubVars
<1>1. CASE SaveNode
  BY <1>1, RunStatusTyped DEF SaveNode, NoCur
<1>2. CASE SaveStopped
  BY <1>2 DEF SaveStopped, Terminal
<1>3. CASE EndAdvance
  BY <1>3, RunStatusTyped DEF EndAdvance
<1>4. QED BY <1>1, <1>2, <1>3

LEMMA ToolTyped ==
    ASSUME IInv, Journal \/ Write \/ RecordCreate \/ DispatchFails
    PROVE  IInv'
<1>1. /\ pc \in {"journal", "write", "record"} => cur.node \in Node
      /\ pc = "record" => wrote[cur.node] > 0
      /\ wrote \in [Node -> 0 .. MaxWrite] /\ MaxWrite \in Nat /\ doc \in Doc
  BY BoundAssumption DEF BoundAssumption, IInv, TypeOK, Backed
<1>2. ASSUME pc \in {"journal", "write"}, wrote[cur.node] < MaxWrite
      PROVE  /\ cur.node \in Node /\ wrote[cur.node] + 1 \in 1 .. MaxWrite
             /\ Kept(cur.node) \in SUBSET (1 .. MaxWrite)
  BY <1>1, <1>2 DEF Kept
<1>3. CASE Journal
  <2>1. doc' \in Doc /\ doc'.hbid = doc.hbid
    BY <1>2, <1>3, OnRowTyped DEF Journal
  <2>2. QED
    BY <1>2, <1>3, <2>1 DEF Journal, IInv, TypeOK, Backed, BackedDoc, hubVars
<1>4. CASE Write
  <2>1. /\ wrote' \in [Node -> 0 .. MaxWrite] /\ wrote'[cur.node] > 0
        /\ doc' = doc /\ cur.node \in Node
    BY <1>1, <1>2, <1>4 DEF Write
  <2>2. CASE \E st \in {"done", "failed"} : Returned(cur.node, Kept(cur.node), st)
    BY <1>1, <1>2, <1>4, <2>1, <2>2, ReturnedTyped DEF Write
  <2>3. CASE pc' = "record" /\ UNCHANGED <<status, cancel, ap, hb, hubVars, cur, mem, tasks, runners>>
    BY <2>1, <2>3 DEF IInv, TypeOK, Backed, BackedDoc, hubVars
  <2>4. QED
    BY <1>4, <2>2, <2>3 DEF Write
<1>5. CASE RecordCreate
  <2>1. cur.node \in Node /\ wrote[cur.node] \in 1 .. MaxWrite /\ wrote' = wrote
    BY <1>1, <1>5 DEF RecordCreate
  <2>2. doc' \in Doc /\ doc'.hbid = doc.hbid
    BY <1>1, <1>5, <2>1, OnRowTyped DEF RecordCreate
  <2>3. \/ Returned(cur.node, {wrote[cur.node]}, "done")
        \/ Returned(cur.node, {}, "failed")
    BY <1>5 DEF RecordCreate
  <2>4. {wrote[cur.node]} \in SUBSET (1 .. MaxWrite) /\ wrote' \in [Node -> 0 .. MaxWrite]
    BY <1>1, <2>1
  <2>5. QED
    BY <2>1, <2>2, <2>3, <2>4, ReturnedTyped
<1>6. CASE DispatchFails
  <2>1. wrote' \in [Node -> 0 .. MaxWrite] /\ doc' = doc
    BY <1>1, <1>6 DEF DispatchFails
  <2>2. QED
    BY <1>1, <1>2, <1>6, <2>1, ReturnedTyped DEF DispatchFails
<1>7. QED BY <1>3, <1>4, <1>5, <1>6

LEMMA LaunchTyped ==
    ASSUME IInv, LaunchRefused \/ LaunchCoalesced \/ LaunchStarted
    PROVE  IInv'
<1>1. cur.node \in Node
  BY DEF IInv, Backed, LaunchRefused, LaunchCoalesced, LaunchStarted
<1>2. CASE LaunchRefused
  <2>1. mem \in Doc /\ "failed" \in NodeStatus /\ mem' = Finish(mem, cur.node, "failed")
    BY <1>2 DEF LaunchRefused, IInv, TypeOK, NodeStatus
  <2>2. mem' \in Doc /\ mem'.hbid = mem.hbid
    BY <1>1, <2>1, FinishTyped, FinishHbid
  <2>3. TypeOK'
    BY <1>2, <2>2 DEF LaunchRefused, IInv, TypeOK, rowVars, hubVars
  <2>4. Backed'
    BY <1>2, <2>2 DEF LaunchRefused, IInv, Backed, BackedDoc, rowVars
  <2>5. QED BY <2>3, <2>4 DEF IInv
<1>3. CASE LaunchCoalesced
  <2>1. mem' \in Doc /\ mem'.hbid = mem.hbid
    <3>1. /\ mem \in Doc /\ "deferred" \in NodeStatus
          /\ mem' = Finish(mem, cur.node, "deferred")
      BY <1>3 DEF LaunchCoalesced, IInv, TypeOK, NodeStatus, Unresolved
    <3>2. QED BY <1>1, <3>1, FinishTyped, FinishHbid
  <2>2. tasks' \subseteq Task
    BY <1>1, <1>3 DEF LaunchCoalesced, IInv, TypeOK, Task, RetryTask
  <2>3. TypeOK'
    BY <1>3, <2>1, <2>2 DEF LaunchCoalesced, IInv, TypeOK, rowVars, hubVars
  <2>4. Backed'
    BY <1>3, <2>1 DEF LaunchCoalesced, IInv, Backed, BackedDoc, rowVars, RetryTask,
                      DecideTask, WatchTask, DoneTask
  <2>5. QED BY <2>3, <2>4 DEF IInv
<1>4. CASE LaunchStarted
  <2> DEFINE h == CHOOSE x \in FreeHb : TRUE
  <2>1. h \in HbId /\ hb[h].status = "none" /\ NewHeartbeat(h, AgentOf[cur.node], cur.node, cur.full)
    BY <1>4 DEF LaunchStarted, FreeHb
  <2>2. /\ mem' = [mem EXCEPT !.states[cur.node] = "running", !.hbid[cur.node] = h]
        /\ pc' = "save" /\ UNCHANGED <<rowVars, ap, hubVars, cur, tasks, wrote>>
    BY <1>4 DEF LaunchStarted
  <2> HIDE DEF h
  <2>3. AgentOf[cur.node] \in Agent /\ cur.full \in BOOLEAN
    BY <1>1, WorkflowAssumption DEF WorkflowAssumption, IInv, TypeOK
  <2>4. hb' \in [HbId -> HbRow] /\ hb'[h].status = "running"
        /\ \A x \in HbId \ {h} : hb'[x] = hb[x]
    BY <1>1, <2>1, <2>3 DEF NewHeartbeat, IInv, TypeOK, HbRow
  <2>5. mem' \in Doc /\ \A n \in Node : mem'.hbid[n] = IF n = cur.node THEN h ELSE mem.hbid[n]
    <3>1. "running" \in NodeStatus /\ mem \in Doc
      BY DEF NodeStatus, Unresolved, IInv, TypeOK
    <3>2. QED
      BY <1>1, <2>1, <2>2, <3>1 DEF Doc
  <2>6. TypeOK'
    BY <2>1, <2>2, <2>4, <2>5 DEF NewHeartbeat, IInv, TypeOK, rowVars, hubVars
  <2>7. \A x \in HbId : hb[x].status # "none" => hb'[x] = hb[x]
    BY <2>1, <2>4
  <2>8. \A n \in Node : doc.hbid[n] \in HbId \cup {None} /\ mem.hbid[n] \in HbId \cup {None}
    BY DEF IInv, TypeOK, Doc
  <2>9. BackedDoc(doc)' /\ BackedDoc(mem)'
    BY <2>2, <2>4, <2>5, <2>7, <2>8 DEF rowVars, IInv, Backed, BackedDoc
  <2>10. runners' = runners \cup {h} /\ runners \subseteq HbId
    BY <2>1 DEF NewHeartbeat, IInv, TypeOK
  <2>11. Backed'
    BY <2>2, <2>4, <2>7, <2>9, <2>10 DEF IInv, Backed
  <2>12. QED BY <2>6, <2>11 DEF IInv
<1>5. QED BY <1>2, <1>3, <1>4

\* Heartbeats, the tick and the rest of the hub.
LEMMA RunnerEndsTyped ==
    ASSUME IInv, NEW h \in HbId, RunnerEnds(h)
    PROVE  IInv'
<1>1. hb[h] \in HbRow /\ hb[h].status # "none"
  BY DEF RunnerEnds, IInv, TypeOK, Backed
<1>2. /\ hb' \in [HbId -> HbRow] /\ hb'[h].status \in {"done", "failed"}
      /\ \A x \in HbId \ {h} : hb'[x] = hb[x]
  BY <1>1 DEF RunnerEnds, IInv, TypeOK, HbRow
<1>3. hb[h].node # None => hb[h].node \in Node
  BY <1>1 DEF HbRow
<1>4. tasks' \subseteq Task
  BY <1>3 DEF RunnerEnds, IInv, TypeOK, Task, DoneTask
<1>5. TypeOK'
  BY <1>2, <1>4 DEF RunnerEnds, IInv, TypeOK, rowVars, hubVars, lockVars
<1>6. \A x \in HbId : /\ hb[x].status # "none" => hb'[x].status # "none"
                      /\ hb[x].status \in {"done", "failed"} =>
                             hb'[x].status \in {"done", "failed"}
  BY <1>2
<1>7. \A n \in Node : doc.hbid[n] \in HbId \cup {None} /\ mem.hbid[n] \in HbId \cup {None}
  BY DEF IInv, TypeOK, Doc
<1>8. BackedDoc(doc)' /\ BackedDoc(mem)'
  BY <1>6, <1>7 DEF RunnerEnds, rowVars, lockVars, IInv, Backed, BackedDoc
<1>9. Backed'
  BY <1>2, <1>6, <1>8 DEF RunnerEnds, rowVars, lockVars, IInv, TypeOK, Backed,
                          DecideTask, WatchTask, DoneTask
<1>10. QED BY <1>5, <1>9 DEF IInv

LEMMA OutcomeLostTyped ==
    ASSUME IInv, NEW h \in HbId, OutcomeLost(h)
    PROVE  IInv'
<1>1. hb[h] \in HbRow /\ hb[h].status # "none"
  BY DEF OutcomeLost, IInv, TypeOK, Backed
<1>2. /\ hb' \in [HbId -> HbRow]
      /\ \A x \in HbId : /\ hb[x].status # "none" => hb'[x].status # "none"
                         /\ hb[x].status \in {"done", "failed"} =>
                                hb'[x].status \in {"done", "failed"}
  BY <1>1 DEF OutcomeLost, IInv, TypeOK, HbRow
<1>3. TypeOK'
  BY <1>2 DEF OutcomeLost, IInv, TypeOK, rowVars, hubVars, lockVars
<1>4. \A n \in Node : doc.hbid[n] \in HbId \cup {None} /\ mem.hbid[n] \in HbId \cup {None}
  BY DEF IInv, TypeOK, Doc
<1>5. BackedDoc(doc)' /\ BackedDoc(mem)'
  BY <1>2, <1>4 DEF OutcomeLost, rowVars, lockVars, IInv, Backed, BackedDoc
<1>6. Backed'
  BY <1>2, <1>5 DEF OutcomeLost, rowVars, lockVars, IInv, TypeOK, Backed
<1>7. QED BY <1>3, <1>6 DEF IInv

LEMMA WatchSeesTyped ==
    ASSUME IInv, NEW n \in Node, NEW h \in HbId, WatchSees(n, h)
    PROVE  IInv'
<1>1. hb[h].status \in {"done", "failed"}
  BY DEF WatchSees, IInv, TypeOK, Backed, HbRow
<1>2. tasks' \subseteq Task
  BY DEF WatchSees, IInv, TypeOK, Task, DoneTask
<1>3. TypeOK'
  BY <1>2 DEF WatchSees, IInv, TypeOK, rowVars, hubVars, lockVars
<1>4. Backed'
  BY <1>1 DEF WatchSees, rowVars, lockVars, IInv, Backed, BackedDoc,
              DecideTask, WatchTask, DoneTask
<1>5. QED BY <1>3, <1>4 DEF IInv

LEMMA ExpireTyped ==
    ASSUME IInv, NEW a \in ApId, Expire(a)
    PROVE  IInv'
<1>1. ap' \in [ApId -> ApRow]
      /\ \A x \in ApId : ap[x].status \in Decision => ap'[x].status = ap[x].status
  BY DEF Expire, IInv, TypeOK, ApRow, Decision
<1>2. tasks' \subseteq Task
  BY DEF Expire, IInv, TypeOK, Task, ExpiredTask
<1>3. TypeOK'
  BY <1>1, <1>2 DEF Expire, IInv, TypeOK, rowVars, hubVars, lockVars
<1>4. Backed'
  BY <1>1 DEF Expire, rowVars, lockVars, IInv, Backed, BackedDoc, DecideTask, WatchTask,
              DoneTask, ExpiredTask
<1>5. QED BY <1>3, <1>4 DEF IInv

LEMMA WatchdogTyped ==
    ASSUME IInv, NEW h \in HbId, Watchdog(h)
    PROVE  IInv'
<1>1. hb' \in [HbId -> HbRow] /\ hb'[h].status = "failed"
      /\ \A x \in HbId \ {h} : hb'[x] = hb[x]
  BY DEF Watchdog, IInv, TypeOK, HbRow
<1>2. TypeOK'
  BY <1>1 DEF Watchdog, IInv, TypeOK, rowVars, hubVars, lockVars
<1>3. \A n \in Node : doc.hbid[n] \in HbId \cup {None} /\ mem.hbid[n] \in HbId \cup {None}
  BY DEF IInv, TypeOK, Doc
<1>4. BackedDoc(doc)' /\ BackedDoc(mem)'
  BY <1>1, <1>3 DEF Watchdog, rowVars, lockVars, IInv, Backed, BackedDoc
<1>5. Backed'
  BY <1>1, <1>4 DEF Watchdog, lockVars, IInv, TypeOK, Backed
<1>6. QED BY <1>2, <1>5 DEF IInv

LEMMA OtherWakeTyped ==
    ASSUME IInv, NEW agent \in Agent, OtherWake(agent)
    PROVE  IInv'
<1> DEFINE h == CHOOSE x \in FreeHb : TRUE
<1>1. h \in HbId /\ hb[h].status = "none" /\ NewHeartbeat(h, agent, None, FALSE)
  BY DEF OtherWake, FreeHb
<1>2. UNCHANGED <<rowVars, ap, hubVars, lockVars, tasks, wrote>>
  BY DEF OtherWake
<1> HIDE DEF h
<1>3. hb' \in [HbId -> HbRow] /\ hb'[h].status = "running"
      /\ \A x \in HbId \ {h} : hb'[x] = hb[x]
  BY <1>1 DEF NewHeartbeat, IInv, TypeOK, HbRow
<1>4. TypeOK'
  BY <1>1, <1>2, <1>3 DEF NewHeartbeat, IInv, TypeOK, rowVars, hubVars, lockVars
<1>5. \A n \in Node : doc.hbid[n] \in HbId \cup {None} /\ mem.hbid[n] \in HbId \cup {None}
  BY DEF IInv, TypeOK, Doc
<1>6. BackedDoc(doc)' /\ BackedDoc(mem)'
  BY <1>2, <1>3, <1>5 DEF rowVars, lockVars, IInv, Backed, BackedDoc
<1>7. runners' = runners \cup {h} /\ runners \subseteq HbId
  BY <1>1 DEF NewHeartbeat, IInv, TypeOK
<1>8. Backed'
  BY <1>1, <1>2, <1>3, <1>6, <1>7 DEF lockVars, IInv, Backed
<1>9. QED BY <1>4, <1>8 DEF IInv

LEMMA HubTyped ==
    ASSUME IInv,
           SetPaused \/ \E agent \in Agent, mode \in Mode \cup {"none"} :
                           PublishAgent(agent, mode)
    PROVE  IInv'
<1> USE DEF IInv, TypeOK, Backed, BackedDoc, rowVars, lockVars
<1>1. CASE SetPaused
  BY <1>1 DEF SetPaused
<1>2. ASSUME NEW agent \in Agent, NEW mode \in Mode \cup {"none"}, PublishAgent(agent, mode)
      PROVE  IInv'
  BY <1>2, BoundAssumption DEF BoundAssumption, PublishAgent
<1>3. QED BY <1>1, <1>2

\* Crash and restart.
LEMMA CrashTyped ==
    ASSUME IInv, Crash \/ Restart \/ Serve
    PROVE  IInv'
<1> USE DEF IInv, TypeOK, Backed, BackedDoc, rowVars, lockVars
<1>1. CASE Crash
  BY <1>1, BoundAssumption DEF BoundAssumption, Crash, NoCur
<1>2. CASE Restart
  BY <1>2 DEF Restart, Enter
<1>3. CASE Serve
  BY <1>3 DEF Serve, Enter
<1>4. QED BY <1>1, <1>2, <1>3

LEMMA ReconcileTyped ==
    ASSUME IInv, Reconcile
    PROVE  IInv'
<1>1. CASE status \notin Active
  BY <1>1 DEF Reconcile, Enter, IInv, TypeOK, Backed, BackedDoc
<1>2. CASE status \in Active
  <2> DEFINE d == [doc EXCEPT !.states = [n \in Node |-> IF @[n] = "deferred" THEN "pending"
                                                                          ELSE @[n]]]
             watched == {m \in Node : doc.states[m] = "running" /\ doc.hbid[m] # None}
  <2>1. /\ Save(d, status) /\ Enter("resuming") /\ pc = "idle"
        /\ tasks' = {AdvanceTask} \cup {WatchTask(n, doc.hbid[n]) : n \in watched}
        /\ UNCHANGED <<cancel, ap, hb, pc, cur, runners, wrote>>
    BY <1>2 DEF Reconcile
  <2>2. d \in Doc /\ d.hbid = doc.hbid
    BY DEF IInv, TypeOK, Doc, NodeStatus, Unresolved
  <2> HIDE DEF d
  <2>3. \A n \in watched : doc.hbid[n] \in HbId /\ hb[doc.hbid[n]].status # "none"
    BY DEF IInv, TypeOK, Doc, Backed, BackedDoc
  <2>4. tasks' \subseteq Task
    BY <2>1, <2>3 DEF Task, AdvanceTask, WatchTask
  <2>5. TypeOK'
    BY <2>1, <2>2, <2>4 DEF Save, Enter, IInv, TypeOK
  <2>6. /\ \A a \in ApId : DecideTask(a) \notin tasks'
        /\ \A n \in Node, h \in HbId : DoneTask(n, h) \notin tasks'
        /\ \A n \in Node, h \in HbId : WatchTask(n, h) \in tasks' => hb[h].status # "none"
    BY <2>1, <2>3 DEF AdvanceTask, DecideTask, DoneTask, WatchTask
  <2>7. Backed'
    BY <2>1, <2>2, <2>6 DEF Save, IInv, Backed, BackedDoc
  <2>8. QED BY <2>5, <2>7 DEF IInv
<1>3. QED BY <1>1, <1>2

\* Every step keeps the types and what they rest on.
LEMMA NextTyped == IInv /\ [Next]_vars => IInv'
<1> SUFFICES ASSUME IInv, [Next]_vars PROVE IInv'
  OBVIOUS
<1>1. CASE UNCHANGED vars
  BY <1>1 DEF vars, IInv, TypeOK, Backed, BackedDoc
<1>2. CASE Holder
  BY <1>2, SkipNodeTyped, StartNodeTyped, RequestApprovalTyped, SavesTyped, StopSiblingsTyped,
     ToolTyped, LaunchTyped DEF Holder, StartNode
<1>3. CASE Waiter
  <2>1. CASE Advance
    <3>1. CASE Return(AdvanceTask)
      BY <3>1, ReturnTyped
    <3>2. CASE Cancelling(AdvanceTask)
      BY <3>2, CancellingTyped
    <3>3. CASE /\ pc' = "scan" /\ mem' = doc /\ tasks' = tasks \ {AdvanceTask}
               /\ UNCHANGED <<rowVars, ap, hb, hubVars, cur, runners, wrote>>
      BY <3>3 DEF IInv, TypeOK, Backed, BackedDoc, rowVars, hubVars
    <3>4. QED BY <2>1, <3>1, <3>2, <3>3 DEF Advance
  <2>2. CASE CancelLocked
    BY <2>2, ReturnTyped, CancellingTyped DEF CancelLocked
  <2>3. QED
    BY <1>3, <2>1, <2>2, DecideLockedTyped, ApprovalExpiredTyped, RetryLaterTyped,
       HeartbeatDoneTyped DEF Waiter
<1>4. CASE Recovery
  BY <1>4, CrashTyped, ReconcileTyped DEF Recovery
<1>5. CASE Heartbeats
  BY <1>5, RunnerEndsTyped, OutcomeLostTyped, WatchdogTyped, WatchSeesTyped DEF Heartbeats
<1>6. CASE Environment
  BY <1>6, ApiTyped, CrashTyped, ExpireTyped, OtherWakeTyped, HubTyped DEF Environment
<1>7. QED
  BY <1>1, <1>2, <1>3, <1>4, <1>5, <1>6 DEF Next

\* The rows, the snapshot of the lock holder and the queue of coroutines keep their
\* shapes, through every crash and restart.
THEOREM TypesHold == Spec => []TypeOK
<1>1. IInv => TypeOK
  BY DEF IInv
<1>2. QED
  BY <1>1, InitTyped, NextTyped, PTL DEF Spec

-----------------------------------------------------------------------------
(* The human gate *)

\* A row document says `approved` only of nodes whose approval row says so, and a node
\* whose write or full-mode launch is under way has passed the gate.
ApprovedDoc(d) == \A n \in Node : d.results[n] = "approved" => n \in ApprovedGates

Cleared ==
    (pc \in {"journal", "write", "record"} \/ (pc = "launch" /\ cur.full))
    => cur.node \in MockEnv \cup Downstream(ApprovedGates)

Gated == ApprovedDoc(doc) /\ ApprovedDoc(mem) /\ Cleared /\ HumanGate

\* What most steps leave alone.
RowsKept ==
    \A a \in ApId : ap[a].status = "approved" => ap'[a].status = "approved" /\ ap'[a].node = ap[a].node

ResultsKept ==
    \A n \in Node : doc'.results[n] = "approved" \/ mem'.results[n] = "approved" =>
        doc.results[n] = "approved" \/ mem.results[n] = "approved" \/ n \in ApprovedGates

WritesKept ==
    /\ wrote' = wrote
    /\ \A h \in HbId : hb'[h].full => hb[h].full /\ hb[h].node = hb'[h].node

LockKept ==
    \/ pc' \notin {"journal", "write", "record", "launch"}
    \/ cur' = cur /\ (pc' = pc \/ (pc = "journal" /\ pc' = "write"))

OrdinaryStep == RowsKept /\ ResultsKept /\ WritesKept /\ LockKept

\* More approved gates leave more nodes downstream of one.
LEMMA DownstreamMonotone ==
    ASSUME NEW G, NEW H, G \subseteq H
    PROVE  Downstream(G) \subseteq Downstream(H)
BY DEF Downstream

\* The run-time gate of a document that is right about the approved gates lets only
\* nodes downstream of one of them through.
LEMMA GateSound ==
    ASSUME NEW G, NEW d, \A m \in Node : d.results[m] = "approved" => m \in G,
           NEW n \in Node, ApprovedOnPath(n, d)
    PROVE  n \in Downstream(G)
<1> SUFFICES ASSUME NEW S \in SUBSET Node, \A e \in Edge : e.from \in G \cup S => e.to \in S
             PROVE  n \in S
  BY DEF Downstream
<1>1. ASSUME NEW m \in Node, Fired(m, d) # {},
             \A e \in Fired(m, d) : GateOpened(e, d) \/ e.from \in S
      PROVE  m \in S
  <2>1. PICK e \in Fired(m, d) : TRUE
    BY <1>1
  <2>2. e \in Edge /\ e.to = m /\ e.from \in Node
    BY <2>1, WorkflowAssumption DEF WorkflowAssumption, Fired, Into
  <2>3. e.from \in G \cup S
    BY <1>1, <2>1, <2>2 DEF GateOpened
  <2>4. QED BY <2>2, <2>3
<1>2. QED
  BY <1>1 DEF ApprovedOnPath

\* Approved gates stay approved, and the documents stay right about them.
LEMMA GatesKept ==
    ASSUME Gated, RowsKept, ResultsKept
    PROVE  /\ ApprovedGates \subseteq ApprovedGates'
           /\ Downstream(ApprovedGates) \subseteq Downstream(ApprovedGates')
           /\ ApprovedDoc(doc)' /\ ApprovedDoc(mem)'
<1>1. ApprovedGates \subseteq ApprovedGates'
  BY DEF ApprovedGates, RowsKept
<1>2. Downstream(ApprovedGates) \subseteq Downstream(ApprovedGates')
  BY <1>1, DownstreamMonotone
<1>3. QED
  BY <1>1, <1>2 DEF Gated, ApprovedDoc, ResultsKept

LEMMA OrdinaryGated ==
    ASSUME Gated, OrdinaryStep
    PROVE  Gated'
<1>1. /\ ApprovedGates \subseteq ApprovedGates'
      /\ Downstream(ApprovedGates) \subseteq Downstream(ApprovedGates')
      /\ ApprovedDoc(doc)' /\ ApprovedDoc(mem)'
  BY GatesKept DEF OrdinaryStep
<1>2. Cleared'
  BY <1>1 DEF Gated, Cleared, OrdinaryStep, LockKept
<1>3. HumanGate'
  BY <1>1 DEF Gated, HumanGate, Executed, OrdinaryStep, WritesKept
<1>4. QED
  BY <1>1, <1>2, <1>3 DEF Gated

\* What an update does to the results of a document.
LEMMA FinishResults ==
    ASSUME NEW d \in Doc, NEW n, NEW st
    PROVE  Finish(d, n, st).results = d.results
BY DEF Finish, Doc

LEMMA FinishAsResults ==
    ASSUME NEW d \in Doc, NEW n, NEW st, NEW r
    PROVE  \A m \in Node : FinishAs(d, n, st, r).results[m] = IF m = n THEN r ELSE d.results[m]
BY DEF FinishAs, Doc

\* A section under the lock is ordinary when its document is right about the gates.
LEMMA SectionOrdinary ==
    ASSUME NEW t, NEW d, NEW st, NEW next, Section(t, d, st, next), pc = "idle",
           \A n \in Node : d.results[n] = "approved" =>
               doc.results[n] = "approved" \/ n \in ApprovedGates
    PROVE  OrdinaryStep
BY DEF Section, Save, OrdinaryStep, RowsKept, ResultsKept, WritesKept, LockKept, hubVars

LEMMA ReturnOrdinary ==
    ASSUME NEW t, Return(t), pc = "idle"
    PROVE  OrdinaryStep
BY DEF Return, OrdinaryStep, RowsKept, ResultsKept, WritesKept, LockKept, rowVars, hubVars,
       lockVars

\* Stopping nodes touches only approval rows that are still pending.
LEMMA StopOrdinary ==
    ASSUME IInv, NEW d \in {doc, mem}, NEW which, StopNodes(d, which), doc' = doc, wrote' = wrote,
           pc' \notin {"journal", "write", "record", "launch"}
    PROVE  OrdinaryStep
<1> USE DEF StopNodes, IInv, TypeOK
<1>1. RowsKept
  BY DEF RowsKept, ApRow
<1>2. ResultsKept
  BY DEF ResultsKept, Doc
<1>3. WritesKept
  BY DEF WritesKept, HbRow
<1>4. QED BY <1>1, <1>2, <1>3 DEF OrdinaryStep, LockKept

LEMMA WaiterOrdinary ==
    ASSUME IInv, Waiter
    PROVE  OrdinaryStep
<1>0. doc \in Doc
  BY DEF IInv, TypeOK
<1>1. CASE Advance
  <2>1. pc = "idle"
    BY <1>1 DEF Advance, LockFor
  <2>2. CASE Return(AdvanceTask)
    BY <2>1, <2>2, ReturnOrdinary
  <2>3. CASE Cancelling(AdvanceTask)
    BY <2>3, StopOrdinary DEF Cancelling, rowVars
  <2>4. CASE /\ pc' = "scan" /\ mem' = doc
             /\ UNCHANGED <<rowVars, ap, hb, hubVars, cur, runners, wrote>>
    BY <2>4 DEF OrdinaryStep, RowsKept, ResultsKept, WritesKept, LockKept, rowVars
  <2>5. QED BY <1>1, <2>2, <2>3, <2>4 DEF Advance
<1>2. CASE CancelLocked
  <2>1. pc = "idle"
    BY <1>2 DEF CancelLocked, LockFor
  <2>2. CASE Return(CancelTask)
    BY <2>1, <2>2, ReturnOrdinary
  <2>3. CASE Cancelling(CancelTask)
    BY <2>3, StopOrdinary DEF Cancelling, rowVars
  <2>4. QED BY <1>2, <2>2, <2>3 DEF CancelLocked
<1>3. ASSUME NEW a \in ApId, DecideLocked(a) PROVE OrdinaryStep
  <2> DEFINE n == ap[a].node
             d == FinishAs(doc, n, "done", ap[a].status)
  <2>1. pc = "idle"
    BY <1>3 DEF DecideLocked, LockFor
  <2>2. CASE Return(DecideTask(a))
    BY <2>1, <2>2, ReturnOrdinary
  <2>3. \A m \in Node : d.results[m] = "approved" =>
            doc.results[m] = "approved" \/ m \in ApprovedGates
    BY <1>0, FinishAsResults DEF ApprovedGates
  <2>4. CASE \E st : Section(DecideTask(a), d, st, {AdvanceTask})
    BY <2>1, <2>3, <2>4, SectionOrdinary
  <2>5. QED BY <1>3, <2>2, <2>4 DEF DecideLocked
<1>4. ASSUME NEW a \in ApId, ApprovalExpired(a) PROVE OrdinaryStep
  <2> DEFINE d == Finish(doc, ap[a].node, "failed")
  <2>1. pc = "idle" /\ d.results = doc.results
    BY <1>0, <1>4, FinishResults DEF ApprovalExpired, LockFor
  <2>2. CASE Return(ExpiredTask(a))
    BY <2>1, <2>2, ReturnOrdinary
  <2>3. CASE Section(ExpiredTask(a), d, "failed", {})
    BY <2>1, <2>3, SectionOrdinary
  <2>4. QED BY <1>4, <2>2, <2>3 DEF ApprovalExpired
<1>5. ASSUME NEW n \in Node, RetryLater(n) PROVE OrdinaryStep
  BY <1>0, <1>5, FinishResults, SectionOrdinary DEF RetryLater, LockFor
<1>6. ASSUME NEW n \in Node, NEW h \in HbId, HeartbeatDone(n, h) PROVE OrdinaryStep
  BY <1>0, <1>6, FinishAsResults, SectionOrdinary, ReturnOrdinary DEF HeartbeatDone, LockFor
<1>7. QED BY <1>1, <1>2, <1>3, <1>4, <1>5, <1>6 DEF Waiter

\* The steps of the lock holder that write nothing and do not pass the gate.
LEMMA HolderOrdinary ==
    ASSUME IInv,
           \/ SaveNode \/ SaveStopped \/ EndAdvance \/ StopSiblings
           \/ Journal \/ RecordCreate \/ DispatchFails \/ LaunchRefused \/ LaunchCoalesced
    PROVE  OrdinaryStep
<1> USE DEF OrdinaryStep, RowsKept, ResultsKept, WritesKept, LockKept, rowVars, hubVars
<1>0. doc \in Doc /\ mem \in Doc
  BY DEF IInv, TypeOK
<1>1. CASE SaveNode \/ SaveStopped \/ EndAdvance
  BY <1>1 DEF SaveNode, SaveStopped, EndAdvance, Save
<1>2. CASE StopSiblings
  BY <1>2, StopOrdinary DEF StopSiblings
<1>3. CASE Journal
  BY <1>0, <1>3 DEF Journal, OnRow, Doc
<1>4. CASE RecordCreate \/ DispatchFails
  <2>1. /\ \E journal, st : Returned(cur.node, journal, st)
        /\ wrote' = wrote /\ doc'.results = doc.results
    BY <1>0, <1>4 DEF RecordCreate, DispatchFails, OnRow, Doc
  <2>2. QED
    BY <1>0, <2>1 DEF Returned, Doc
<1>5. CASE LaunchRefused \/ LaunchCoalesced
  BY <1>0, <1>5, FinishResults DEF LaunchRefused, LaunchCoalesced
<1>6. QED BY <1>1, <1>2, <1>3, <1>4, <1>5

LEMMA EndNodeOrdinary ==
    ASSUME NEW d, EndNode(d), pc = "scan",
           \A m \in Node : d.results[m] = "approved" => mem.results[m] = "approved"
    PROVE  OrdinaryStep
BY DEF EndNode, Save, OrdinaryStep, RowsKept, ResultsKept, WritesKept, LockKept, hubVars

LEMMA StartNodeGated ==
    ASSUME IInv, Gated, NEW n \in Node, SkipNode(n) \/ StartNode(n)
    PROVE  Gated'
<1>0. mem \in Doc
  BY DEF IInv, TypeOK
<1>1. ASSUME EndNode(Finish(mem, n, "failed")), pc = "scan" PROVE OrdinaryStep
  BY <1>0, <1>1, FinishResults, EndNodeOrdinary
<1>2. ASSUME NEW r \in {"ok", "true", "false"}, EndNode(FinishAs(mem, n, "done", r)), pc = "scan"
      PROVE OrdinaryStep
  BY <1>0, <1>2, FinishAsResults, EndNodeOrdinary
<1>3. CASE SkipNode(n)
  <2>1. OrdinaryStep
    BY <1>0, <1>3, FinishResults
       DEF SkipNode, OrdinaryStep, RowsKept, ResultsKept, WritesKept, LockKept, rowVars
  <2>2. QED BY <2>1, OrdinaryGated
<1>4. CASE PassThrough(n) \/ EvaluateCondition(n) \/ CallReadTool(n)
  <2>1. OrdinaryStep
    BY <1>1, <1>2, <1>4 DEF PassThrough, EvaluateCondition, CallReadTool, Starting
  <2>2. QED BY <2>1, OrdinaryGated
<1>5. CASE RequestApproval(n)
  <2> DEFINE a == CHOOSE x \in FreeAp : TRUE
  <2>1. /\ a \in ApId /\ ap[a].status = "none"
        /\ ap' = [ap EXCEPT ![a] = [node |-> n, status |-> "pending"]]
        /\ mem' = [mem EXCEPT !.states[n] = "waiting", !.apid[n] = a]
        /\ pc' = "save" /\ UNCHANGED <<rowVars, hb, hubVars, cur, tasks, runners, wrote>>
    BY <1>5 DEF RequestApproval, FreeAp
  <2>2. RowsKept
    BY <2>1 DEF RowsKept, IInv, TypeOK
  <2>3. mem'.results = mem.results
    BY <1>0, <2>1 DEF Doc
  <2>4. OrdinaryStep
    BY <2>1, <2>2, <2>3 DEF OrdinaryStep, ResultsKept, WritesKept, LockKept, rowVars
  <2>5. QED BY <2>4, OrdinaryGated
<1>6. ASSUME NEW to \in {"journal", "write", "launch"}, NEW full, Go(to, n, full),
             to # "launch" => full, full => n \in MockEnv \/ ApprovedOnPath(n, mem)
      PROVE  Gated'
  <2>1. RowsKept /\ ResultsKept /\ WritesKept
    BY <1>6 DEF Go, RowsKept, ResultsKept, WritesKept, rowVars
  <2>2. full => n \in MockEnv \cup Downstream(ApprovedGates)
    BY <1>6, GateSound DEF Gated, ApprovedDoc
  <2>3. /\ Downstream(ApprovedGates) \subseteq Downstream(ApprovedGates')
        /\ ApprovedDoc(doc)' /\ ApprovedDoc(mem)'
    BY <2>1, GatesKept
  <2>4. Cleared'
    BY <1>6, <2>2, <2>3 DEF Go, Cleared
  <2>5. HumanGate'
    BY <2>1, <2>3 DEF Gated, HumanGate, Executed, WritesKept
  <2>6. QED BY <2>3, <2>4, <2>5 DEF Gated
<1>7. CASE GateWriteTool(n)
  <2>1. CASE /\ ToolAllowed(n)
             /\ Go(IF n \in Creates \cup Executes THEN "write" ELSE "journal", n, TRUE)
    BY <1>6, <2>1 DEF ToolAllowed
  <2>2. CASE EndNode(Finish(mem, n, "failed"))
    BY <1>1, <1>7, <2>2, OrdinaryGated DEF GateWriteTool, Starting
  <2>3. QED BY <1>7, <2>1, <2>2 DEF GateWriteTool
<1>8. CASE ResolveAgent(n)
  <2>1. CASE Go("launch", n, FullMode(n, agentMode[AgentOf[n]])) /\ AgentAllowed(n)
    BY <1>6, <2>1 DEF AgentAllowed
  <2>2. CASE EndNode(Finish(mem, n, "failed"))
    BY <1>1, <1>8, <2>2, OrdinaryGated DEF ResolveAgent, Starting
  <2>3. QED BY <1>8, <2>1, <2>2 DEF ResolveAgent
<1>9. QED BY <1>3, <1>4, <1>5, <1>7, <1>8 DEF StartNode

\* A write, and a heartbeat in full mode, only come from a node that is cleared.
LEMMA WriteGated ==
    ASSUME IInv, Gated, Write
    PROVE  Gated'
<1>1. cur.node \in Node /\ cur.node \in MockEnv \cup Downstream(ApprovedGates)
  BY DEF Write, IInv, Backed, Gated, Cleared
<1>2. RowsKept /\ ResultsKept
  <2>1. mem' = mem \/ \E journal, st : Returned(cur.node, journal, st)
    BY DEF Write
  <2>2. doc' = doc /\ ap' = ap
    BY DEF Write, Returned
  <2>3. \A m \in Node : mem'.results[m] = "approved" => mem.results[m] = "approved"
    <3>1. mem \in Doc
      BY DEF IInv, TypeOK
    <3>2. CASE mem' = mem
      BY <3>2
    <3>3. ASSUME NEW journal, NEW st, Returned(cur.node, journal, st)
          PROVE  \A m \in Node : mem'.results[m] \in {"ok", mem.results[m]}
      BY <3>1, <3>3 DEF Returned, Doc
    <3> QED BY <2>1, <3>2, <3>3
  <2> QED BY <2>2, <2>3 DEF RowsKept, ResultsKept
<1>3. /\ Downstream(ApprovedGates) \subseteq Downstream(ApprovedGates')
      /\ ApprovedDoc(doc)' /\ ApprovedDoc(mem)'
  BY <1>2, GatesKept
<1>4. /\ pc' \in {"save", "record"} /\ cur' = cur /\ hb' = hb
      /\ wrote' = [wrote EXCEPT ![cur.node] = @ + 1]
  BY DEF Write, Returned
<1>5. \A n \in Node : n # cur.node => wrote'[n] = wrote[n]
  BY <1>4 DEF IInv, TypeOK
<1>6. HumanGate'
  BY <1>1, <1>3, <1>4, <1>5 DEF Gated, HumanGate, Executed
<1>7. Cleared'
  BY <1>1, <1>3, <1>4 DEF Cleared
<1>8. QED BY <1>3, <1>6, <1>7 DEF Gated

LEMMA LaunchStartedGated ==
    ASSUME IInv, Gated, LaunchStarted
    PROVE  Gated'
<1> DEFINE h == CHOOSE x \in FreeHb : TRUE
<1>1. /\ h \in HbId /\ NewHeartbeat(h, AgentOf[cur.node], cur.node, cur.full)
      /\ mem' = [mem EXCEPT !.states[cur.node] = "running", !.hbid[cur.node] = h]
      /\ pc' = "save" /\ UNCHANGED <<rowVars, ap, hubVars, cur, tasks, wrote>>
  BY DEF LaunchStarted, FreeHb
<1> HIDE DEF h
<1>2. cur.full => cur.node \in MockEnv \cup Downstream(ApprovedGates)
  BY DEF LaunchStarted, Gated, Cleared
<1>3. mem'.results = mem.results
  BY <1>1 DEF IInv, TypeOK, Doc
<1>4. RowsKept /\ ResultsKept
  BY <1>1, <1>3 DEF RowsKept, ResultsKept, rowVars
<1>5. /\ Downstream(ApprovedGates) \subseteq Downstream(ApprovedGates')
      /\ ApprovedDoc(doc)' /\ ApprovedDoc(mem)'
  BY <1>4, GatesKept
<1>6. /\ \A x \in HbId \ {h} : hb'[x] = hb[x]
      /\ hb'[h].node = cur.node /\ hb'[h].full = cur.full
  BY <1>1 DEF NewHeartbeat, IInv, TypeOK
<1>7. HumanGate'
  BY <1>1, <1>2, <1>5, <1>6 DEF Gated, HumanGate, Executed
<1>8. Cleared'
  BY <1>1 DEF Cleared
<1>9. QED BY <1>5, <1>7, <1>8 DEF Gated

LEMMA HeartbeatsOrdinary ==
    ASSUME IInv, Heartbeats
    PROVE  OrdinaryStep
<1> USE DEF OrdinaryStep, RowsKept, ResultsKept, WritesKept, LockKept, rowVars, lockVars
<1>1. ASSUME NEW h \in HbId, RunnerEnds(h) \/ OutcomeLost(h) \/ Watchdog(h)
      PROVE  OrdinaryStep
  BY <1>1 DEF RunnerEnds, OutcomeLost, Watchdog, IInv, TypeOK, HbRow
<1>2. ASSUME NEW n \in Node, NEW h \in HbId, WatchSees(n, h) PROVE OrdinaryStep
  BY <1>2 DEF WatchSees
<1>3. QED BY <1>1, <1>2 DEF Heartbeats

LEMMA RecoveryOrdinary ==
    ASSUME IInv, Recovery
    PROVE  OrdinaryStep
<1> USE DEF OrdinaryStep, RowsKept, ResultsKept, WritesKept, LockKept, rowVars, lockVars
<1>1. CASE Restart \/ Serve
  BY <1>1 DEF Restart, Serve, Enter
<1>2. CASE Reconcile
  <2>1. status \in Active => doc'.results = doc.results /\ mem'.results = doc.results
    BY <1>2 DEF Reconcile, Save, IInv, TypeOK, Doc
  <2>2. QED
    BY <1>2, <2>1 DEF Reconcile, Enter
<1>3. QED BY <1>1, <1>2 DEF Recovery

LEMMA EnvironmentOrdinary ==
    ASSUME IInv, Environment
    PROVE  OrdinaryStep
<1> USE DEF OrdinaryStep, RowsKept, ResultsKept, WritesKept, LockKept, rowVars, lockVars
<1>1. CASE StartRun \/ RequestCancel \/ SetPaused \/ Crash
  BY <1>1 DEF StartRun, RequestCancel, SetPaused, Crash, NoCur
<1>2. ASSUME NEW a \in ApId, Decide(a) \/ Expire(a) PROVE OrdinaryStep
  BY <1>2 DEF Decide, Expire, IInv, TypeOK, ApRow
<1>3. ASSUME NEW agent \in Agent, OtherWake(agent) PROVE OrdinaryStep
  <2> DEFINE h == CHOOSE x \in FreeHb : TRUE
  <2>1. h \in HbId /\ NewHeartbeat(h, agent, None, FALSE)
        /\ UNCHANGED <<rowVars, ap, hubVars, lockVars, tasks, wrote>>
    BY <1>3 DEF OtherWake, FreeHb
  <2> HIDE DEF h
  <2>2. hb'[h].full = FALSE /\ \A x \in HbId \ {h} : hb'[x] = hb[x]
    BY <2>1 DEF NewHeartbeat, IInv, TypeOK
  <2>3. QED BY <2>1, <2>2
<1>4. ASSUME NEW agent \in Agent, NEW mode, PublishAgent(agent, mode) PROVE OrdinaryStep
  BY <1>4 DEF PublishAgent
<1>5. QED BY <1>1, <1>2, <1>3, <1>4 DEF Environment

LEMMA NextGated == IInv /\ Gated /\ [Next]_vars => Gated'
<1> SUFFICES ASSUME IInv, Gated, [Next]_vars PROVE Gated'
  OBVIOUS
<1>1. CASE UNCHANGED vars
  BY <1>1, OrdinaryGated
     DEF vars, OrdinaryStep, RowsKept, ResultsKept, WritesKept, LockKept
<1>2. CASE Holder
  BY <1>2, StartNodeGated, HolderOrdinary, OrdinaryGated, WriteGated, LaunchStartedGated DEF Holder
<1>3. CASE Waiter
  BY <1>3, WaiterOrdinary, OrdinaryGated
<1>4. CASE Recovery \/ Heartbeats \/ Environment
  BY <1>4, RecoveryOrdinary, HeartbeatsOrdinary, EnvironmentOrdinary, OrdinaryGated
<1>5. QED
  BY <1>1, <1>2, <1>3, <1>4 DEF Next

\* D3, for every workflow graph, every republication, decision, retry, crash and
\* restart: a node writes outside mock, through a tool or a full-mode heartbeat, only
\* downstream of an approval that a human decided `approved` in this run.
THEOREM HumanGateHolds == Spec => []HumanGate
<1>1. Init => Gated
  BY DEF Init, Gated, ApprovedDoc, Cleared, HumanGate, Executed, FreshDoc
<1>2. Gated => HumanGate
  BY DEF Gated
<1>3. QED
  BY <1>1, <1>2, InitTyped, NextTyped, NextGated, PTL DEF Spec

-----------------------------------------------------------------------------
(* The end of a run *)

\* The snapshot of the coroutine that holds the lock never knows less about the end
\* of the run than the row: the row has ended only the way the snapshot has.
Scanning == pc \in {"scan", "save", "journal", "write", "record", "launch"}

Ended(st, states) ==
    \/ st \in Active
    \/ st = "failed" /\ \E n \in Node : states[n] = "failed"
    \/ st = "done" /\ \A n \in Node : states[n] \in {"done", "skipped"}

LockEnds ==
    /\ pc \in {"journal", "write", "record", "launch"} => mem.states[cur.node] = "pending"
    /\ pc = "cancelling" => status \in Active
    /\ pc = "stopping" => status \in Active \cup {"failed"}
    /\ Scanning => Ended(status, mem.states)

Final == status \in Terminal => status' = status

\* A node that was pending is given another state, and nothing else moves.
Moves(states, n, st) == \A m \in Node : m # n => st[m] = states[m]

LEMMA RunStatusEnds ==
    ASSUME NEW states
    PROVE  Ended(RunStatus(states), states)
BY DEF RunStatus, Ended, Active

\* A row that ended as its snapshot did ends the same way after one more pending node.
LEMMA EndedKept ==
    ASSUME NEW st, NEW states, Ended(st, states), NEW n \in Node, states[n] = "pending",
           NEW next, Moves(states, n, next)
    PROVE  /\ Ended(st, next)
           /\ st \in Terminal => st = RunStatus(next)
<1>1. st # "done"
  BY DEF Ended, Active
<1>2. CASE st \in Active
  BY <1>2 DEF Ended, Active, Terminal
<1>3. CASE st = "failed" /\ \E m \in Node : states[m] = "failed"
  <2>1. \E m \in Node : next[m] = "failed"
    BY <1>3 DEF Moves
  <2>2. RunStatus(next) = "failed"
    BY <2>1 DEF RunStatus
  <2>3. QED BY <1>3, <2>1, <2>2 DEF Ended
<1>4. QED BY <1>1, <1>2, <1>3 DEF Ended

LEMMA EndedStatus ==
    ASSUME NEW st, NEW states, Ended(st, states), st \in Terminal
    PROVE  st = RunStatus(states)
<1>1. CASE st = "failed" /\ \E n \in Node : states[n] = "failed"
  BY <1>1 DEF RunStatus
<1>2. CASE st = "done" /\ \A n \in Node : states[n] \in {"done", "skipped"}
  BY <1>2 DEF RunStatus
<1>3. QED BY <1>1, <1>2 DEF Ended, Active, Terminal

LEMMA FinishStates ==
    ASSUME NEW d \in Doc, NEW n \in Node, NEW st, NEW r
    PROVE  /\ Moves(d.states, n, Finish(d, n, st).states)
           /\ Moves(d.states, n, FinishAs(d, n, st, r).states)
BY DEF Finish, FinishAs, Doc, Moves

LEMMA EndNodeEnds ==
    ASSUME IInv, LockEnds, pc = "scan", NEW n \in Node, mem.states[n] = "pending",
           NEW d, Moves(mem.states, n, d.states), EndNode(d)
    PROVE  LockEnds' /\ Final
<1>1. Ended(status, mem.states)
  BY DEF LockEnds, Scanning
<1>2. status \in Terminal => status = RunStatus(d.states)
  BY <1>1, EndedKept
<1>3. status' = RunStatus(d.states) /\ mem' = d /\ pc' = "scan"
  BY DEF EndNode, Save
<1>4. Ended(status', mem'.states)
  BY <1>3, RunStatusEnds
<1>5. LockEnds'
  BY <1>3, <1>4 DEF LockEnds, Scanning
<1>6. QED BY <1>2, <1>3, <1>5 DEF Final

LEMMA StartNodeEnds ==
    ASSUME IInv, LockEnds, NEW n \in Node, SkipNode(n) \/ StartNode(n)
    PROVE  LockEnds' /\ Final
<1>1. /\ mem \in Doc /\ mem.states[n] = "pending" /\ pc = "scan" /\ Ended(status, mem.states)
  BY DEF IInv, TypeOK, LockEnds, Scanning, SkipNode, StartNode, Starting, Ready, Unreachable,
         PassThrough, EvaluateCondition, RequestApproval, CallReadTool, GateWriteTool, ResolveAgent
<1>2. ASSUME NEW st, NEW r,
             EndNode(Finish(mem, n, st)) \/ EndNode(FinishAs(mem, n, st, r))
      PROVE  LockEnds' /\ Final
  BY <1>1, <1>2, FinishStates, EndNodeEnds
<1>3. CASE SkipNode(n) \/ RequestApproval(n)
  <2>1. Moves(mem.states, n, mem'.states) /\ status' = status /\ pc' \in {"scan", "save"}
    <3>1. CASE SkipNode(n)
      <4>1. mem' = Finish(mem, n, "skipped") /\ status' = status /\ pc' = "scan"
        BY <1>1, <3>1 DEF SkipNode, rowVars
      <4>2. QED BY <1>1, <4>1, FinishStates
    <3>2. CASE RequestApproval(n)
      <4>1. PICK a : mem' = [mem EXCEPT !.states[n] = "waiting", !.apid[n] = a]
        BY <3>2 DEF RequestApproval
      <4>2. status' = status /\ pc' = "save"
        BY <3>2 DEF RequestApproval, rowVars
      <4>3. Moves(mem.states, n, mem'.states)
        BY <1>1, <4>1 DEF Moves, Doc
      <4>4. QED BY <4>2, <4>3
    <3>3. QED BY <1>3, <3>1, <3>2
  <2>2. Ended(status', mem'.states)
    BY <1>1, <2>1, EndedKept
  <2>3. QED BY <2>1, <2>2 DEF LockEnds, Scanning, Final
<1>4. ASSUME NEW to \in {"journal", "write", "launch"}, NEW full, Go(to, n, full)
      PROVE  LockEnds' /\ Final
  BY <1>1, <1>4 DEF Go, LockEnds, Scanning, Final, rowVars
<1>5. QED
  BY <1>2, <1>3, <1>4 DEF StartNode, PassThrough, EvaluateCondition, CallReadTool,
     GateWriteTool, ResolveAgent

LEMMA EffectEnds ==
    ASSUME IInv, LockEnds,
           \/ Journal \/ Write \/ RecordCreate \/ DispatchFails
           \/ LaunchRefused \/ LaunchCoalesced \/ LaunchStarted
    PROVE  LockEnds' /\ Final
<1>1. /\ mem \in Doc /\ pc \in {"journal", "write", "record", "launch"} /\ cur.node \in Node
      /\ mem.states[cur.node] = "pending" /\ Ended(status, mem.states) /\ status' = status
  BY DEF IInv, TypeOK, Backed, LockEnds, Scanning, Journal, Write, RecordCreate, DispatchFails, Returned,
         LaunchRefused, LaunchCoalesced, LaunchStarted, rowVars
<1>2. CASE /\ pc' \in {"write", "record"} /\ mem' = mem /\ cur' = cur
  BY <1>1, <1>2 DEF LockEnds, Scanning, Final
<1>3. CASE \/ \E journal, st : Returned(cur.node, journal, st)
           \/ LaunchRefused \/ LaunchCoalesced \/ LaunchStarted
  <2>1. pc' = "save" /\ Moves(mem.states, cur.node, mem'.states)
    <3>1. ASSUME NEW journal, NEW st, Returned(cur.node, journal, st)
          PROVE  pc' = "save" /\ Moves(mem.states, cur.node, mem'.states)
      BY <1>1, <3>1 DEF Returned, Moves, Doc
    <3>2. CASE LaunchStarted
      BY <1>1, <3>2 DEF LaunchStarted, Moves, Doc
    <3>3. QED
      BY <1>1, <1>3, <3>1, <3>2, FinishStates
         DEF LaunchRefused, LaunchCoalesced
  <2>2. Ended(status', mem'.states)
    BY <1>1, <2>1, EndedKept
  <2>3. QED BY <1>1, <2>1, <2>2 DEF LockEnds, Scanning, Final
<1>4. QED BY <1>2, <1>3 DEF Journal, Write, RecordCreate, DispatchFails

LEMMA SavesEnd ==
    ASSUME IInv, LockEnds, SaveNode \/ SaveStopped \/ EndAdvance \/ StopSiblings
    PROVE  LockEnds' /\ Final
<1>1. CASE SaveNode \/ EndAdvance
  <2>1. /\ Ended(status, mem.states) /\ status' = RunStatus(mem.states) /\ mem' = mem
        /\ pc' \in {"scan", "idle"}
    BY <1>1 DEF LockEnds, Scanning, SaveNode, EndAdvance, Save
  <2>2. Ended(status', mem'.states)
    BY <2>1, RunStatusEnds
  <2>3. status \in Terminal => status' = status
    BY <2>1, EndedStatus
  <2>4. QED BY <2>1, <2>2, <2>3 DEF LockEnds, Scanning, Final
<1>2. CASE SaveStopped
  BY <1>2 DEF SaveStopped, Save, LockEnds, Scanning, Final, Active, Terminal
<1>3. CASE StopSiblings
  <2>1. Ended(status, mem.states) /\ RunStatus(mem.states) = "failed"
        /\ status' = status /\ pc' = "stopping"
    BY <1>3 DEF StopSiblings, LockEnds, Scanning, rowVars
  <2>2. status \in Active \cup {"failed"}
    BY <2>1, EndedStatus DEF Ended, Terminal
  <2>3. QED BY <2>1, <2>2 DEF LockEnds, Scanning, Final
<1>4. QED BY <1>1, <1>2, <1>3

LEMMA WaiterEnds ==
    ASSUME IInv, LockEnds, Waiter
    PROVE  LockEnds' /\ Final
<1> USE DEF LockFor, LockEnds, Scanning, Final, Active, Terminal
<1>1. CASE Advance
  BY <1>1 DEF Advance, Return, Cancelling, lockVars, rowVars, Ended
<1>2. CASE CancelLocked
  BY <1>2 DEF CancelLocked, Return, Cancelling, lockVars, rowVars
<1>3. ASSUME NEW a \in ApId, DecideLocked(a) \/ ApprovalExpired(a) PROVE LockEnds' /\ Final
  BY <1>3 DEF DecideLocked, ApprovalExpired, Return, Section, Save, lockVars, rowVars
<1>4. ASSUME NEW n \in Node, RetryLater(n) PROVE LockEnds' /\ Final
  BY <1>4 DEF RetryLater, Section, Save
<1>5. ASSUME NEW n \in Node, NEW h \in HbId, HeartbeatDone(n, h) PROVE LockEnds' /\ Final
  BY <1>5 DEF HeartbeatDone, Return, Section, Save, lockVars, rowVars
<1>6. QED BY <1>1, <1>2, <1>3, <1>4, <1>5 DEF Waiter

LEMMA OutsideEnds ==
    ASSUME IInv, LockEnds, Recovery \/ Heartbeats \/ Environment
    PROVE  LockEnds' /\ Final
<1> USE DEF LockEnds, Scanning, Final, rowVars, lockVars
<1>1. CASE Recovery
  BY <1>1 DEF Recovery, Restart, Reconcile, Serve, Enter, Save
<1>2. CASE Heartbeats
  BY <1>2 DEF Heartbeats, RunnerEnds, OutcomeLost, WatchSees, Watchdog
<1>3. CASE Environment
  <2>1. CASE StartRun
    <3>1. ~Scanning /\ pc \notin {"cancelling", "stopping"}
      BY <2>1 DEF StartRun, Ended, Active
    <3>2. QED BY <2>1, <3>1 DEF StartRun, Terminal
  <2>2. CASE Crash
    BY <2>2 DEF Crash
  <2>3. CASE Environment /\ ~StartRun /\ ~Crash
    BY <2>3 DEF Environment, RequestCancel, SetPaused, Decide, Expire, OtherWake, PublishAgent
  <2>4. QED BY <1>3, <2>1, <2>2, <2>3
<1>4. QED BY <1>1, <1>2, <1>3

LEMMA NextEnds == IInv /\ LockEnds /\ [Next]_vars => LockEnds' /\ [Final]_vars
<1> SUFFICES ASSUME IInv, LockEnds, [Next]_vars PROVE LockEnds' /\ Final
  OBVIOUS
<1>1. CASE UNCHANGED vars
  BY <1>1 DEF vars, LockEnds, Scanning, Final
<1>2. CASE Holder
  BY <1>2, StartNodeEnds, EffectEnds, SavesEnd DEF Holder
<1>3. CASE Waiter
  BY <1>3, WaiterEnds
<1>4. CASE Recovery \/ Heartbeats \/ Environment
  BY <1>4, OutsideEnds
<1>5. QED
  BY <1>1, <1>2, <1>3, <1>4 DEF Next

\* A run that has ended keeps its status: no advance, callback, timeout or decision that
\* waited for the lock, or works on an older snapshot, revives or relabels it.
THEOREM StatusFinal == Spec => StatusIsFinal
<1>1. Init => LockEnds
  BY DEF Init, LockEnds, Scanning
<1>2. QED
  BY <1>1, InitTyped, NextTyped, NextEnds, PTL DEF Spec, StatusIsFinal, Final
=============================================================================
