------------------------- MODULE WorkflowRowsProofs -------------------------
(***************************************************************************)
(* What a run leaves behind when nobody holds its lock, for every workflow *)
(* and every value of the bounds: the writes of its tool nodes and their   *)
(* journal, the gates of its inbox and the heartbeats in flight.           *)
(***************************************************************************)
EXTENDS WorkflowEngineProofs

\* Between two sections the snapshot is the row.
IdleSame == pc = "idle" => mem = doc

\* A run nobody started has touched nothing.
Unstarted ==
    status = "none" => /\ pc = "idle"
                       /\ \A n \in Node : mem.states[n] = "pending"
                       /\ \A a \in ApId : ap[a].status = "none"

\* Once _stop_siblings or _cancel_locked has been over the nodes, none runs or waits.
Stopped ==
    pc \in {"cancelling", "stopping"} =>
        \A n \in Node : mem.states[n] \notin {"running", "waiting"}

\* A timeout that waits for the lock is on its row.
ExpiredBacked == \A a \in ApId : ExpiredTask(a) \in tasks => ap[a].status = "expired"

\* A node that has written is over in the snapshot, or a create about to be recorded.
\* Snapshot and row hold the record of its one write: of a create once it is done, of an
\* update or a delete always, which has it on the row before it writes.
Recorded(n) == n \notin Creates \cup Executes

Written ==
    crashes = 0 => \A n \in Node :
        /\ wrote[n] <= 1
        /\ wrote[n] > 0 => mem.states[n] \notin Unresolved \/ (pc = "record" /\ cur.node = n)
        /\ doc.states[n] = "done" => mem.states[n] = "done"
        /\ Recorded(n) \/ (n \in Creates /\ doc.states[n] = "done") =>
               (1 .. wrote[n]) \subseteq doc.journal[n]
        /\ Recorded(n) \/ (n \in Creates /\ mem.states[n] = "done") =>
               (1 .. wrote[n]) \subseteq mem.journal[n]
        /\ pc = "write" /\ cur.node = n /\ Recorded(n) => wrote[n] + 1 \in doc.journal[n]
        /\ pc = "record" /\ cur.node = n => n \in Creates

\* The row of a gate can still be decided, or what became of it waits for the lock.
Answerable(n, a) ==
    /\ a \in ApId /\ ap[a].node = n
    /\ \/ ap[a].status = "pending"
       \/ ap[a].status \in Decision /\ DecideTask(a) \in tasks
       \/ ap[a].status = "expired" /\ ExpiredTask(a) \in tasks

Gates ==
    crashes = 0 /\ status \in Active =>
        \A n \in Node : mem.states[n] = "waiting" => Answerable(n, mem.apid[n])

\* A pending row is the one its node waits at; between two sections the run is active,
\* or ended at another gate.
Inbox ==
    crashes = 0 => \A a \in ApId : ap[a].status = "pending" =>
        /\ ap[a].node \in Node
        /\ mem.states[ap[a].node] = "waiting" /\ mem.apid[ap[a].node] = a
        /\ pc = "idle" => status \in Active \/ EndedAtGate

\* A heartbeat a thread still executes for a node is the one the node names, or is told
\* to stop.
Tracked ==
    \A h \in runners : hb[h].node # None /\ hb[h].status = "running" =>
        \/ hb[h].cancel
        \/ /\ mem.states[hb[h].node] = "running" /\ mem.hbid[hb[h].node] = h
           /\ pc = "idle" => status \in Active \/ EndedAtGate

\* Only a process that died once does not serve.
Reborn == phase # "serving" => crashes > 0

\* Heartbeats belong to agent tasks, and approval rows to approvals.
Typed ==
    /\ \A n \in Node : mem.states[n] \in {"running", "deferred"} => Type[n] = "agent_task"
    /\ \A n \in Node : doc.states[n] \in {"running", "deferred"} => Type[n] = "agent_task"
    /\ pc = "launch" => Type[cur.node] = "agent_task"
    /\ \A a \in ApId : ap[a].status # "none" => ap[a].node \in Node
    /\ \A a \in ApId : ap[a].node # None => Type[ap[a].node] = "approval"

RowsInv ==
    /\ Reborn /\ Typed /\ IdleSame /\ Unstarted /\ Stopped /\ ExpiredBacked
    /\ Written /\ Gates /\ Inbox /\ Tracked

-----------------------------------------------------------------------------
\* The shapes the steps below rest on.
RowTypes ==
    /\ doc \in Doc /\ mem \in Doc
    /\ doc.states \in [Node -> NodeStatus] /\ mem.states \in [Node -> NodeStatus]
    /\ doc.apid \in [Node -> ApId \cup {None}] /\ mem.apid \in [Node -> ApId \cup {None}]
    /\ doc.hbid \in [Node -> HbId \cup {None}] /\ mem.hbid \in [Node -> HbId \cup {None}]
    /\ doc.journal \in [Node -> SUBSET (1 .. MaxWrite)]
    /\ mem.journal \in [Node -> SUBSET (1 .. MaxWrite)]
    /\ ap \in [ApId -> ApRow] /\ hb \in [HbId -> HbRow] /\ runners \subseteq HbId
    /\ wrote \in [Node -> 0 .. MaxWrite] /\ cur.node \in Node \cup {None}

LEMMA RowsTyped == IInv => RowTypes
BY DEF IInv, TypeOK, RowTypes, Doc

\* What an update of one node does to a document.
LEMMA FinishFields ==
    ASSUME NEW d \in Doc, NEW n, NEW st, NEW r
    PROVE  /\ Finish(d, n, st).states = [d.states EXCEPT ![n] = st]
           /\ Finish(d, n, st).apid = d.apid /\ Finish(d, n, st).hbid = d.hbid
           /\ Finish(d, n, st).journal = d.journal
           /\ FinishAs(d, n, st, r).states = [d.states EXCEPT ![n] = st]
           /\ FinishAs(d, n, st, r).apid = d.apid /\ FinishAs(d, n, st, r).hbid = d.hbid
           /\ FinishAs(d, n, st, r).journal = d.journal
BY DEF Finish, FinishAs, Doc

\* What stopping the nodes of a document leaves of it, of the inbox and of the heartbeats.
LEMMA StopFields ==
    ASSUME IInv, NEW d \in {doc, mem}, NEW which, StopNodes(d, which)
    PROVE  /\ \A n \in Node : mem'.states[n] = IF d.states[n] \in which
                                                THEN "cancelled" ELSE d.states[n]
           /\ mem'.apid = d.apid /\ mem'.hbid = d.hbid /\ mem'.journal = d.journal
           /\ \A a \in ApId : /\ ap[a].status = "pending" => ap'[a].status = "cancelled"
                              /\ ap[a].status # "pending" => ap'[a].status = ap[a].status
                              /\ ap'[a].node = ap[a].node
           /\ \A h \in HbId : /\ hb'[h].status = hb[h].status /\ hb'[h].node = hb[h].node
                              /\ hb[h].cancel => hb'[h].cancel
                              /\ hb[h].status = "running" =>
                                   \A n \in Node : d.states[n] = "running" /\ d.hbid[n] = h =>
                                      hb'[h].cancel
<1>1. d \in Doc /\ ap \in [ApId -> ApRow] /\ hb \in [HbId -> HbRow]
  BY DEF IInv, TypeOK
<1>2. /\ mem' = [d EXCEPT !.states =
                   [n \in Node |-> IF d.states[n] \in which THEN "cancelled" ELSE d.states[n]]]
      /\ \A n \in Node : mem'.states[n] = IF d.states[n] \in which
                                          THEN "cancelled" ELSE d.states[n]
      /\ mem'.apid = d.apid /\ mem'.hbid = d.hbid /\ mem'.journal = d.journal
  BY <1>1 DEF StopNodes, Doc
<1>3. \A a \in ApId : /\ ap[a].status = "pending" => ap'[a].status = "cancelled"
                      /\ ap[a].status # "pending" => ap'[a].status = ap[a].status
                      /\ ap'[a].node = ap[a].node
  BY <1>1 DEF StopNodes, ApRow
<1>4. \A h \in HbId : /\ hb'[h].status = hb[h].status /\ hb'[h].node = hb[h].node
                      /\ hb[h].cancel => hb'[h].cancel
                      /\ hb[h].status = "running" =>
                           \A n \in Node : d.states[n] = "running" /\ d.hbid[n] = h =>
                              hb'[h].cancel
  BY <1>1 DEF StopNodes, HbRow
<1> QED BY <1>2, <1>3, <1>4

-----------------------------------------------------------------------------
(* One lemma per kind of step, one step per conjunct *)

LEMMA EndNodeRows ==
    ASSUME IInv, LockEnds, RowsInv, NEW n \in Node, NEW st \in {"done", "failed"}, NEW r,
           NEW d \in {Finish(mem, n, st), FinishAs(mem, n, st, r)},
           pc = "scan", mem.states[n] = "pending", EndNode(d)
    PROVE  RowsInv'
<1> SUFFICES ASSUME Reborn, Typed, IdleSame, Unstarted, Stopped, ExpiredBacked,
                    Written, Gates, Inbox, Tracked
             PROVE  RowsInv'
  BY DEF RowsInv
<1>0. RowTypes
  BY RowsTyped
<1>e1. /\ mem' = d /\ doc' = d /\ status' = RunStatus(d.states)
       /\ UNCHANGED <<ap, hb, crashes, phase, pc, cur, tasks, runners, wrote>>
  BY DEF EndNode, Save, hubVars
<1>e2. /\ d.states = [mem.states EXCEPT ![n] = st]
       /\ d.apid = mem.apid /\ d.hbid = mem.hbid /\ d.journal = mem.journal
  <2>0. mem \in Doc
    BY <1>0 DEF RowTypes
  <2> QED BY <2>0, FinishFields
<1>e3. Moves(mem.states, n, d.states)
  BY <1>0, <1>e2 DEF Moves, RowTypes
<1>e4. status' \in Active => status \in Active
  BY <1>e3, EndNodeEnds DEF Final, IInv, TypeOK, Unstarted
<1>1. Reborn'
  BY <1>e1 DEF Reborn
<1>2. Typed'
  BY <1>e1, <1>e2 DEF Typed
<1>3. IdleSame'
  BY <1>e1 DEF IdleSame
<1>4. Unstarted'
  BY <1>e1 DEF Unstarted, RunStatus
<1>5. Stopped'
  BY <1>e1 DEF Stopped
<1>6. ExpiredBacked'
  BY <1>e1 DEF ExpiredBacked
<1>7. Written'
  <2>1. /\ \A m \in Node : m # n => d.states[m] = mem.states[m]
        /\ d.states[n] = st /\ (crashes = 0 => wrote[n] = 0 /\ (1 .. wrote[n]) = {})
    BY <1>0, <1>e2 DEF Written, Unresolved, RowTypes
  <2> QED BY <1>e1, <1>e2, <2>1 DEF Written, Unresolved
<1>8. Gates'
  BY <1>e1, <1>e2, <1>e4 DEF Gates, Answerable
<1>9. Inbox'
  BY <1>e1, <1>e2 DEF Inbox
<1>10. Tracked'
  BY <1>e1, <1>e2 DEF Tracked
<1> QED BY <1>1, <1>2, <1>3, <1>4, <1>5, <1>6, <1>7, <1>8, <1>9, <1>10 DEF RowsInv

LEMMA SkipNodeRows ==
    ASSUME IInv, LockEnds, RowsInv, NEW n \in Node, SkipNode(n)
    PROVE  RowsInv'
<1> USE DEF hubVars, Doc, SkipNode, Unreachable, rowVars, Finish
<1> SUFFICES ASSUME Reborn, Typed, IdleSame, Unstarted, Stopped, ExpiredBacked,
                    Written, Gates, Inbox, Tracked
             PROVE  RowsInv'
  BY DEF RowsInv
<1>0. RowTypes
  BY RowsTyped
<1>1. Reborn'
  BY DEF Reborn
<1>2. Typed'
  BY DEF Typed
<1>3. IdleSame'
  BY DEF IdleSame
<1>4. Unstarted'
  BY DEF Unstarted
<1>5. Stopped'
  BY DEF Stopped
<1>6. ExpiredBacked'
  BY DEF ExpiredBacked
<1>7. Written'
  BY DEF Written, Unresolved
<1>8. Gates'
  BY DEF Gates, Answerable
<1>9. Inbox'
  BY DEF Inbox
<1>10. Tracked'
  BY DEF Tracked
<1> QED BY <1>1, <1>2, <1>3, <1>4, <1>5, <1>6, <1>7, <1>8, <1>9, <1>10 DEF RowsInv

LEMMA RequestApprovalRows ==
    ASSUME IInv, LockEnds, RowsInv, NEW n \in Node, RequestApproval(n)
    PROVE  RowsInv'
<1> USE DEF hubVars, Doc, RequestApproval, Starting, Ready, FreeAp, rowVars
<1> SUFFICES ASSUME Reborn, Typed, IdleSame, Unstarted, Stopped, ExpiredBacked,
                    Written, Gates, Inbox, Tracked
             PROVE  RowsInv'
  BY DEF RowsInv
<1>0. RowTypes
  BY RowsTyped
<1>1. Reborn'
  BY DEF Reborn
<1>2. Typed'
  BY DEF Typed
<1>3. IdleSame'
  BY DEF IdleSame
<1>4. Unstarted'
  BY DEF Unstarted
<1>5. Stopped'
  BY DEF Stopped
<1>6. ExpiredBacked'
  BY DEF ExpiredBacked
<1>7. Written'
  BY DEF Written, Unresolved
<1>8. Gates'
  BY <1>0 DEF RowTypes, Gates, Answerable, Decision
<1>9. Inbox'
  BY <1>0 DEF RowTypes, Inbox
<1>10. Tracked'
  BY DEF Tracked
<1> QED BY <1>1, <1>2, <1>3, <1>4, <1>5, <1>6, <1>7, <1>8, <1>9, <1>10 DEF RowsInv

LEMMA GoRows ==
    ASSUME IInv, LockEnds, RowsInv, NEW n \in Node, NEW full,
           NEW to \in {"journal", "write", "launch"}, pc = "scan",
           to = "launch" => Type[n] = "agent_task", to = "write" => ~Recorded(n), Go(to, n, full)
    PROVE  RowsInv'
<1> USE DEF hubVars, Doc, Go, rowVars
<1> SUFFICES ASSUME Reborn, Typed, IdleSame, Unstarted, Stopped, ExpiredBacked,
                    Written, Gates, Inbox, Tracked
             PROVE  RowsInv'
  BY DEF RowsInv
<1>0. RowTypes
  BY RowsTyped
<1>1. Reborn'
  BY DEF Reborn
<1>2. Typed'
  BY DEF Typed
<1>3. IdleSame'
  BY DEF IdleSame
<1>4. Unstarted'
  BY DEF Unstarted
<1>5. Stopped'
  BY DEF Stopped
<1>6. ExpiredBacked'
  BY DEF ExpiredBacked
<1>7. Written'
  BY DEF Written
<1>8. Gates'
  BY DEF Gates, Answerable
<1>9. Inbox'
  BY DEF Inbox
<1>10. Tracked'
  BY DEF Tracked
<1> QED BY <1>1, <1>2, <1>3, <1>4, <1>5, <1>6, <1>7, <1>8, <1>9, <1>10 DEF RowsInv

LEMMA SaveNodeRows ==
    ASSUME IInv, LockEnds, RowsInv, SaveNode
    PROVE  RowsInv'
<1> SUFFICES ASSUME Reborn, Typed, IdleSame, Unstarted, Stopped, ExpiredBacked,
                    Written, Gates, Inbox, Tracked
             PROVE  RowsInv'
  BY DEF RowsInv
<1>0. RowTypes
  BY RowsTyped
<1>e1. /\ pc = "save" /\ pc' = "scan" /\ mem' = mem /\ doc' = mem /\ status' = RunStatus(mem.states)
       /\ UNCHANGED <<ap, hb, crashes, phase, tasks, runners, wrote>>
  BY DEF SaveNode, Save, hubVars
<1>e2. status' \in Active => status \in Active
  BY <1>e1, SavesEnd DEF Final, IInv, TypeOK, Unstarted
<1>1. Reborn'
  BY <1>e1 DEF Reborn
<1>2. Typed'
  BY <1>e1 DEF Typed
<1>3. IdleSame'
  BY <1>e1 DEF IdleSame
<1>4. Unstarted'
  BY <1>e1 DEF Unstarted, RunStatus
<1>5. Stopped'
  BY <1>e1 DEF Stopped
<1>6. ExpiredBacked'
  BY <1>e1 DEF ExpiredBacked
<1>7. Written'
  BY <1>e1 DEF Written
<1>8. Gates'
  BY <1>e1, <1>e2 DEF Gates, Answerable
<1>9. Inbox'
  BY <1>e1 DEF Inbox
<1>10. Tracked'
  BY <1>e1 DEF Tracked
<1> QED BY <1>1, <1>2, <1>3, <1>4, <1>5, <1>6, <1>7, <1>8, <1>9, <1>10 DEF RowsInv

LEMMA SaveStoppedRows ==
    ASSUME IInv, LockEnds, RowsInv, SaveStopped
    PROVE  RowsInv'
<1> USE DEF hubVars, Doc, SaveStopped, Save
<1> SUFFICES ASSUME Reborn, Typed, IdleSame, Unstarted, Stopped, ExpiredBacked,
                    Written, Gates, Inbox, Tracked
             PROVE  RowsInv'
  BY DEF RowsInv
<1>0. RowTypes
  BY RowsTyped
<1>1. Reborn'
  BY DEF Reborn
<1>2. Typed'
  BY DEF Typed
<1>3. IdleSame'
  BY DEF IdleSame
<1>4. Unstarted'
  BY DEF Unstarted
<1>5. Stopped'
  BY DEF Stopped
<1>6. ExpiredBacked'
  BY DEF ExpiredBacked
<1>7. Written'
  BY DEF Written
<1>8. Gates'
  BY DEF Gates, Active
<1>9. Inbox'
  BY DEF Inbox, Stopped
<1>10. Tracked'
  BY <1>0 DEF RowTypes, Tracked, Stopped, HbRow
<1> QED BY <1>1, <1>2, <1>3, <1>4, <1>5, <1>6, <1>7, <1>8, <1>9, <1>10 DEF RowsInv

LEMMA EndAdvanceRows ==
    ASSUME IInv, LockEnds, RowsInv, EndAdvance
    PROVE  RowsInv'
<1> SUFFICES ASSUME Reborn, Typed, IdleSame, Unstarted, Stopped, ExpiredBacked,
                    Written, Gates, Inbox, Tracked
             PROVE  RowsInv'
  BY DEF RowsInv
<1>0. RowTypes
  BY RowsTyped
<1>e1. /\ pc = "scan" /\ pc' = "idle" /\ mem' = mem /\ doc' = mem /\ status' = RunStatus(mem.states)
       /\ status' # "failed"
       /\ UNCHANGED <<ap, hb, crashes, phase, cur, tasks, runners, wrote>>
  BY DEF EndAdvance, Save, hubVars
<1>e2. status' \in Active => status \in Active
  BY <1>e1, SavesEnd DEF Final, IInv, TypeOK, Unstarted
<1>1. Reborn'
  BY <1>e1 DEF Reborn
<1>2. Typed'
  BY <1>e1 DEF Typed
<1>3. IdleSame'
  BY <1>e1 DEF IdleSame
<1>4. Unstarted'
  BY <1>e1 DEF Unstarted, RunStatus
<1>5. Stopped'
  BY <1>e1 DEF Stopped
<1>6. ExpiredBacked'
  BY <1>e1 DEF ExpiredBacked
<1>7. Written'
  BY <1>e1 DEF Written
<1>8. Gates'
  BY <1>e1, <1>e2 DEF Gates, Answerable
<1>9. Inbox'
  BY <1>e1 DEF Inbox, RunStatus, Active
<1>10. Tracked'
  BY <1>0, <1>e1 DEF RowTypes, Tracked, RunStatus, Active, HbRow
<1> QED BY <1>1, <1>2, <1>3, <1>4, <1>5, <1>6, <1>7, <1>8, <1>9, <1>10 DEF RowsInv

LEMMA StopSiblingsRows ==
    ASSUME IInv, LockEnds, RowsInv, StopSiblings
    PROVE  RowsInv'
<1> SUFFICES ASSUME Reborn, Typed, IdleSame, Unstarted, Stopped, ExpiredBacked,
                    Written, Gates, Inbox, Tracked
             PROVE  RowsInv'
  BY DEF RowsInv
<1>0. RowTypes
  BY RowsTyped
<1>e1. /\ pc = "scan" /\ StopNodes(mem, {"running", "waiting", "deferred"})
       /\ pc' = "stopping" /\ tasks' = tasks /\ UNCHANGED <<status, doc, crashes, phase, runners, wrote>>
  BY DEF StopSiblings, rowVars, hubVars
<1>e2. /\ \A n \in Node : mem'.states[n] = IF mem.states[n] \in {"running", "waiting", "deferred"}
                                           THEN "cancelled" ELSE mem.states[n]
       /\ mem'.apid = mem.apid /\ mem'.hbid = mem.hbid /\ mem'.journal = mem.journal
       /\ \A a \in ApId : /\ ap[a].status = "pending" => ap'[a].status = "cancelled"
                          /\ ap[a].status # "pending" => ap'[a].status = ap[a].status
                          /\ ap'[a].node = ap[a].node
       /\ \A h \in HbId : /\ hb'[h].status = hb[h].status /\ hb'[h].node = hb[h].node
                          /\ hb[h].cancel => hb'[h].cancel
                          /\ hb[h].status = "running" =>
                               \A n \in Node : mem.states[n] = "running" /\ mem.hbid[n] = h =>
                                  hb'[h].cancel
  BY <1>e1, StopFields
<1>1. Reborn'
  BY <1>e1 DEF Reborn
<1>2. Typed'
  BY <1>e1, <1>e2 DEF Typed, ApRow
<1>3. IdleSame'
  BY <1>e1 DEF IdleSame
<1>4. Unstarted'
  BY <1>e1 DEF Unstarted
<1>5. Stopped'
  BY <1>e2 DEF Stopped
<1>6. ExpiredBacked'
  BY <1>e1, <1>e2 DEF ExpiredBacked
<1>7. Written'
  BY <1>e1, <1>e2 DEF Written, Unresolved
<1>8. Gates'
  BY <1>0, <1>e1, <1>e2 DEF RowTypes, Gates
<1>9. Inbox'
  BY <1>e2 DEF Inbox
<1>10. Tracked'
  BY <1>0, <1>e1, <1>e2 DEF RowTypes, Tracked, HbRow
<1> QED BY <1>1, <1>2, <1>3, <1>4, <1>5, <1>6, <1>7, <1>8, <1>9, <1>10 DEF RowsInv

\* A record put on the row leaves the rest of it, and the records it had.
LEMMA OnRowFields ==
    ASSUME IInv, NEW n, NEW record
    PROVE  /\ OnRow(n, record).states = doc.states
           /\ OnRow(n, record).apid = doc.apid /\ OnRow(n, record).hbid = doc.hbid
           /\ \A m \in Node : doc.journal[m] \subseteq OnRow(n, record).journal[m]
           /\ n \in Node => record \in OnRow(n, record).journal[n]
<1>1. doc \in Doc
  BY DEF IInv, TypeOK
<1>2. OnRow(n, record) =
          [doc EXCEPT !.journal = [doc.journal EXCEPT ![n] = doc.journal[n] \cup {record}]]
  BY <1>1 DEF OnRow, Doc
<1>3. doc.journal \in [Node -> SUBSET (1 .. MaxWrite)]
  BY <1>1 DEF Doc
<1> QED BY <1>1, <1>2, <1>3 DEF Doc

\* A call of a tool node ends, for the rows, as any node does: what is left to show of
\* each of its ends is that the writes and the records agree.
ToolReturns(st) ==
    /\ cur.node \in Node /\ mem.states[cur.node] = "pending" /\ pc # "idle" /\ pc' = "save"
    /\ doc'.states = doc.states /\ doc'.apid = doc.apid /\ doc'.hbid = doc.hbid
    /\ mem'.states = [mem.states EXCEPT ![cur.node] = st]
    /\ mem'.apid = mem.apid /\ mem'.hbid = mem.hbid
    /\ \A m \in Node : m # cur.node => mem'.journal[m] = mem.journal[m]
    /\ UNCHANGED <<status, ap, hb, crashes, phase, cur, tasks, runners>>

LEMMA ReturnedFields ==
    ASSUME IInv, LockEnds, pc \in {"journal", "write", "record"}, NEW journal,
           NEW st, Returned(cur.node, journal, st),
           doc' = doc \/ \E record : doc' = OnRow(cur.node, record)
    PROVE  ToolReturns(st) /\ mem'.journal[cur.node] = journal
<1>1. mem \in Doc /\ cur.node \in Node /\ mem.states[cur.node] = "pending"
  BY DEF IInv, TypeOK, Backed, LockEnds
<1>2. doc'.states = doc.states /\ doc'.apid = doc.apid /\ doc'.hbid = doc.hbid
  BY OnRowFields
<1>3. /\ mem'.states = [mem.states EXCEPT ![cur.node] = st]
      /\ mem'.apid = mem.apid /\ mem'.hbid = mem.hbid
      /\ mem'.journal = [mem.journal EXCEPT ![cur.node] = journal]
  BY <1>1 DEF Returned, Doc
<1>4. /\ mem'.journal[cur.node] = journal
      /\ \A m \in Node : m # cur.node => mem'.journal[m] = mem.journal[m]
  BY <1>1, <1>3 DEF Doc
<1> QED BY <1>1, <1>2, <1>3, <1>4 DEF ToolReturns, Returned, hubVars

LEMMA ToolReturnsRows ==
    ASSUME IInv, LockEnds, RowsInv, NEW st \in {"done", "failed"}, ToolReturns(st), Written'
    PROVE  RowsInv'
<1> SUFFICES ASSUME Reborn, Typed, IdleSame, Unstarted, Stopped, ExpiredBacked,
                    Written, Gates, Inbox, Tracked
             PROVE  RowsInv'
  BY DEF RowsInv
<1>0. RowTypes
  BY RowsTyped
<1>1. Reborn'
  BY DEF Reborn, ToolReturns
<1>2. Typed'
  BY DEF Typed, ToolReturns
<1>3. IdleSame'
  BY DEF IdleSame, ToolReturns
<1>4. Unstarted'
  BY DEF Unstarted, ToolReturns
<1>5. Stopped'
  BY DEF Stopped, ToolReturns
<1>6. ExpiredBacked'
  BY DEF ExpiredBacked, ToolReturns
<1>8. Gates'
  BY <1>0 DEF Gates, Answerable, ToolReturns, RowTypes
<1>9. Inbox'
  BY <1>0 DEF Inbox, ToolReturns, RowTypes
<1>10. Tracked'
  BY <1>0 DEF Tracked, ToolReturns, RowTypes
<1> QED BY <1>1, <1>2, <1>3, <1>4, <1>5, <1>6, <1>8, <1>9, <1>10 DEF RowsInv

\* The node in hand goes on: its update has a record, or its create has written.
LEMMA ToolGoesOnRows ==
    ASSUME IInv, LockEnds, RowsInv, pc # "idle", pc' \in {"write", "record"},
           doc'.states = doc.states, doc'.apid = doc.apid, doc'.hbid = doc.hbid, Written',
           UNCHANGED <<status, mem, ap, hb, crashes, phase, cur, tasks, runners>>
    PROVE  RowsInv'
<1> SUFFICES ASSUME Reborn, Typed, IdleSame, Unstarted, Stopped, ExpiredBacked,
                    Written, Gates, Inbox, Tracked
             PROVE  RowsInv'
  BY DEF RowsInv
<1>0. RowTypes
  BY RowsTyped
<1>1. Reborn' /\ ExpiredBacked'
  BY DEF Reborn, ExpiredBacked
<1>2. Typed'
  BY DEF Typed
<1>3. IdleSame' /\ Unstarted' /\ Stopped'
  BY DEF IdleSame, Unstarted, Stopped
<1>4. Gates'
  BY DEF Gates, Answerable
<1>5. Inbox'
  BY DEF Inbox
<1>6. Tracked'
  BY DEF Tracked
<1> QED BY <1>1, <1>2, <1>3, <1>4, <1>5, <1>6 DEF RowsInv

LEMMA JournalRows ==
    ASSUME IInv, LockEnds, RowsInv, Journal
    PROVE  RowsInv'
<1>1. /\ pc = "journal" /\ pc' = "write" /\ cur.node \in Node
      /\ doc' = OnRow(cur.node, wrote[cur.node] + 1)
      /\ UNCHANGED <<status, mem, ap, hb, crashes, phase, cur, tasks, runners, wrote>>
  BY DEF Journal, hubVars, IInv, Backed
<1>2. /\ doc'.states = doc.states /\ doc'.apid = doc.apid /\ doc'.hbid = doc.hbid
      /\ \A m \in Node : doc.journal[m] \subseteq doc'.journal[m]
      /\ wrote[cur.node] + 1 \in doc'.journal[cur.node]
  BY <1>1, OnRowFields
<1>3. Written'
  BY <1>1, <1>2 DEF RowsInv, Written
<1> QED BY <1>1, <1>2, <1>3, ToolGoesOnRows

LEMMA WriteRows ==
    ASSUME IInv, LockEnds, RowsInv, Write
    PROVE  RowsInv'
<1>1. /\ pc = "write" /\ cur.node \in Node /\ mem.states[cur.node] = "pending"
      /\ doc' = doc /\ cur' = cur /\ crashes' = crashes
      /\ wrote' = [wrote EXCEPT ![cur.node] = @ + 1]
  BY DEF Write, Returned, hubVars, IInv, Backed, LockEnds
<1>2. RowTypes
  BY RowsTyped
<1>3. /\ \A n \in Node : n # cur.node => wrote'[n] = wrote[n]
      /\ crashes = 0 => wrote[cur.node] = 0 /\ wrote'[cur.node] = 1
      /\ crashes = 0 => doc.states[cur.node] # "done"
  BY <1>1, <1>2 DEF RowTypes, RowsInv, Written, Unresolved
<1>4. ASSUME NEW st \in {"done", "failed"}, Returned(cur.node, Kept(cur.node), st),
             st = "done" => cur.node \notin Creates
      PROVE  RowsInv'
  <2>1. ToolReturns(st) /\ mem'.journal[cur.node] = Kept(cur.node)
    BY <1>1, <1>4, ReturnedFields
  <2>2. crashes = 0 /\ Recorded(cur.node) =>
            1 \in doc'.journal[cur.node] /\ mem'.journal[cur.node] = {1}
    BY <1>1, <1>3, <2>1 DEF RowsInv, Written, Kept, Recorded
  <2>3. ASSUME crashes = 0, NEW n \in Node, n # cur.node
        PROVE  /\ mem'.states[n] = mem.states[n] /\ mem'.journal[n] = mem.journal[n]
               /\ doc'.states[n] = doc.states[n] /\ doc'.journal[n] = doc.journal[n]
    BY <1>1, <1>2, <2>1, <2>3 DEF ToolReturns, RowTypes
  <2>4. mem'.states[cur.node] = st /\ pc' = "save"
    BY <1>2, <2>1 DEF ToolReturns, RowTypes
  <2>5. crashes = 0 => (1 .. wrote'[cur.node]) = {1}
    BY <1>3
  <2>6. Written'
    BY <1>1, <1>3, <1>4, <2>2, <2>3, <2>4, <2>5 DEF RowsInv, Written, Recorded, Unresolved
  <2> QED BY <2>1, <2>6, ToolReturnsRows
<1>5. CASE /\ cur.node \in Creates /\ pc' = "record"
           /\ UNCHANGED <<status, cancel, ap, hb, hubVars, cur, mem, tasks, runners>>
  <2>1. Written'
    BY <1>1, <1>3, <1>5 DEF RowsInv, Written, Recorded, Unresolved
  <2> QED BY <1>1, <1>5, <2>1, ToolGoesOnRows DEF hubVars
<1> QED BY <1>4, <1>5 DEF Write

LEMMA RecordCreateRows ==
    ASSUME IInv, LockEnds, RowsInv, RecordCreate
    PROVE  RowsInv'
<1>1. /\ pc = "record" /\ cur.node \in Node /\ mem.states[cur.node] = "pending"
      /\ wrote' = wrote /\ doc' \in {doc, OnRow(cur.node, wrote[cur.node])}
      /\ cur' = cur /\ crashes' = crashes
  BY DEF RecordCreate, Returned, hubVars, IInv, Backed, LockEnds
<1>2. PICK st \in {"done", "failed"}, journal \in {{}, {wrote[cur.node]}} :
          /\ Returned(cur.node, journal, st)
          /\ st = "done" => journal = {wrote[cur.node]}
  BY DEF RecordCreate
<1>3. ToolReturns(st) /\ mem'.journal[cur.node] = journal
  BY <1>1, <1>2, ReturnedFields
<1>4. \A m \in Node : doc.journal[m] \subseteq doc'.journal[m] /\ doc'.states[m] = doc.states[m]
  BY <1>1, OnRowFields
<1>5. RowTypes
  BY RowsTyped
<1>6. crashes = 0 => cur.node \in Creates /\ doc.states[cur.node] # "done"
                     /\ (1 .. wrote[cur.node]) \subseteq {wrote[cur.node]}
  BY <1>1, <1>5 DEF RowsInv, Written, RowTypes
<1>7. ASSUME NEW n \in Node, n # cur.node
      PROVE  mem'.states[n] = mem.states[n] /\ mem'.journal[n] = mem.journal[n]
  BY <1>3, <1>5, <1>7 DEF ToolReturns, RowTypes
<1>8. mem'.states[cur.node] = st /\ pc' = "save"
  BY <1>3, <1>5 DEF ToolReturns, RowTypes
<1>9. Written'
  BY <1>1, <1>2, <1>3, <1>4, <1>6, <1>7, <1>8 DEF RowsInv, Written, Recorded, Unresolved
<1> QED BY <1>3, <1>9, ToolReturnsRows

LEMMA DispatchFailsRows ==
    ASSUME IInv, LockEnds, RowsInv, DispatchFails
    PROVE  RowsInv'
<1>1. /\ pc \in {"journal", "write"} /\ cur.node \in Node /\ mem.states[cur.node] = "pending"
      /\ wrote' = wrote /\ doc' = doc /\ cur' = cur /\ crashes' = crashes
  BY DEF DispatchFails, Returned, hubVars, IInv, Backed, LockEnds
<1>2. PICK journal : Returned(cur.node, journal, "failed")
  BY DEF DispatchFails
<1>3. ToolReturns("failed")
  BY <1>1, <1>2, ReturnedFields
<1>4. RowTypes
  BY RowsTyped
<1>5. crashes = 0 => /\ wrote[cur.node] = 0 /\ doc.states[cur.node] # "done"
                     /\ (1 .. wrote[cur.node]) = {}
  BY <1>1, <1>4 DEF RowsInv, Written, RowTypes, Unresolved
<1>6. ASSUME NEW n \in Node, n # cur.node
      PROVE  mem'.states[n] = mem.states[n] /\ mem'.journal[n] = mem.journal[n]
  BY <1>3, <1>4, <1>6 DEF ToolReturns, RowTypes
<1>7. mem'.states[cur.node] = "failed" /\ pc' = "save"
  BY <1>3, <1>4 DEF ToolReturns, RowTypes
<1>8. Written'
  BY <1>1, <1>5, <1>6, <1>7 DEF RowsInv, Written
<1> QED BY <1>3, <1>8, ToolReturnsRows

LEMMA LaunchRefusedRows ==
    ASSUME IInv, LockEnds, RowsInv, LaunchRefused \/ LaunchCoalesced
    PROVE  RowsInv'
<1> SUFFICES ASSUME Reborn, Typed, IdleSame, Unstarted, Stopped, ExpiredBacked,
                    Written, Gates, Inbox, Tracked
             PROVE  RowsInv'
  BY DEF RowsInv
<1>0. RowTypes
  BY RowsTyped
<1>e1. /\ cur.node \in Node /\ mem.states[cur.node] = "pending" /\ pc = "launch" /\ pc' = "save"
       /\ \E st \in {"deferred", "failed"} : mem'.states = [mem.states EXCEPT ![cur.node] = st]
       /\ mem'.apid = mem.apid /\ mem'.hbid = mem.hbid /\ mem'.journal = mem.journal
       /\ tasks' \in {tasks, tasks \cup {RetryTask(cur.node)}}
       /\ UNCHANGED <<status, doc, ap, hb, crashes, phase, cur, runners, wrote>>
   BY <1>0 DEF IInv, TypeOK, Backed, LockEnds, Doc, ApRow, HbRow, hubVars,
     LaunchRefused, LaunchCoalesced, Finish, rowVars, RowTypes
<1>1. Reborn'
  BY <1>e1 DEF Reborn
<1>2. Typed'
  BY <1>e1 DEF Typed
<1>3. IdleSame'
  BY <1>e1 DEF IdleSame
<1>4. Unstarted'
  BY <1>e1 DEF Unstarted
<1>5. Stopped'
  BY <1>e1 DEF Stopped
<1>6. ExpiredBacked'
  BY <1>e1 DEF ExpiredBacked, ExpiredTask, RetryTask
<1>7. Written'
  BY <1>e1 DEF Written, Unresolved
<1>8. Gates'
  BY <1>e1 DEF Gates, Answerable
<1>9. Inbox'
  BY <1>e1 DEF Inbox
<1>10. Tracked'
  BY <1>e1 DEF Tracked
<1> QED BY <1>1, <1>2, <1>3, <1>4, <1>5, <1>6, <1>7, <1>8, <1>9, <1>10 DEF RowsInv

LEMMA LaunchStartedRows ==
    ASSUME IInv, LockEnds, RowsInv, LaunchStarted
    PROVE  RowsInv'
<1> SUFFICES ASSUME Reborn, Typed, IdleSame, Unstarted, Stopped, ExpiredBacked,
                    Written, Gates, Inbox, Tracked
             PROVE  RowsInv'
  BY DEF RowsInv
<1>0. RowTypes
  BY RowsTyped
<1>e1. /\ cur.node \in Node /\ mem.states[cur.node] = "pending" /\ pc = "launch" /\ pc' = "save"
       /\ \E h \in HbId : /\ hb[h].status = "none"
                          /\ mem'.states = [mem.states EXCEPT ![cur.node] = "running"]
                          /\ mem'.hbid = [mem.hbid EXCEPT ![cur.node] = h]
                          /\ \A x \in HbId \ {h} : hb'[x] = hb[x]
                          /\ hb'[h].node = cur.node /\ runners' = runners \cup {h}
       /\ mem'.apid = mem.apid /\ mem'.journal = mem.journal
       /\ UNCHANGED <<status, doc, ap, crashes, phase, cur, tasks, wrote>>
   BY <1>0 DEF IInv, TypeOK, Backed, LockEnds, Doc, ApRow, HbRow, hubVars,
     LaunchStarted, NewHeartbeat, FreeHb, rowVars, RowTypes
<1>1. Reborn'
  BY <1>e1 DEF Reborn
<1>2. Typed'
  BY <1>e1 DEF Typed
<1>3. IdleSame'
  BY <1>e1 DEF IdleSame
<1>4. Unstarted'
  BY <1>e1 DEF Unstarted
<1>5. Stopped'
  BY <1>e1 DEF Stopped
<1>6. ExpiredBacked'
  BY <1>e1 DEF ExpiredBacked
<1>7. Written'
  BY <1>e1 DEF Written, Unresolved
<1>8. Gates'
  BY <1>e1 DEF Gates, Answerable
<1>9. Inbox'
  BY <1>e1 DEF Inbox
<1>10. Tracked'
  BY <1>0, <1>e1 DEF RowTypes, Tracked
<1> QED BY <1>1, <1>2, <1>3, <1>4, <1>5, <1>6, <1>7, <1>8, <1>9, <1>10 DEF RowsInv

LEMMA ReturnRows ==
    ASSUME IInv, LockEnds, RowsInv, NEW t, pc = "idle",
           crashes = 0 /\ status \in Active => \A n \in Node : mem.states[n] = "waiting" =>
               t \notin {DecideTask(mem.apid[n]), ExpiredTask(mem.apid[n])},
           Return(t)
    PROVE  RowsInv'
<1> USE DEF hubVars, Doc, Return, rowVars, lockVars
<1> SUFFICES ASSUME Reborn, Typed, IdleSame, Unstarted, Stopped, ExpiredBacked,
                    Written, Gates, Inbox, Tracked
             PROVE  RowsInv'
  BY DEF RowsInv
<1>0. RowTypes
  BY RowsTyped
<1>1. Reborn'
  BY DEF Reborn
<1>2. Typed'
  BY DEF Typed
<1>3. IdleSame'
  BY DEF IdleSame
<1>4. Unstarted'
  BY DEF Unstarted
<1>5. Stopped'
  BY DEF Stopped
<1>6. ExpiredBacked'
  BY DEF ExpiredBacked
<1>7. Written'
  BY DEF Written
<1>8. Gates'
  BY DEF Gates, Answerable
<1>9. Inbox'
  BY DEF Inbox, EndedAtGate
<1>10. Tracked'
  BY DEF Tracked, EndedAtGate
<1> QED BY <1>1, <1>2, <1>3, <1>4, <1>5, <1>6, <1>7, <1>8, <1>9, <1>10 DEF RowsInv

LEMMA CancellingRows ==
    ASSUME IInv, LockEnds, RowsInv, NEW t \in {AdvanceTask, CancelTask}, pc = "idle", Cancelling(t)
    PROVE  RowsInv'
<1> SUFFICES ASSUME Reborn, Typed, IdleSame, Unstarted, Stopped, ExpiredBacked,
                    Written, Gates, Inbox, Tracked
             PROVE  RowsInv'
  BY DEF RowsInv
<1>0. RowTypes
  BY RowsTyped
<1>e1. /\ status \in Active /\ StopNodes(doc, Unresolved)
       /\ pc' = "cancelling" /\ tasks' = tasks \ {t} /\ UNCHANGED <<status, doc, crashes, phase, runners, wrote>>
  BY DEF Cancelling, rowVars, hubVars
<1>e2. /\ \A n \in Node : mem'.states[n] = IF doc.states[n] \in Unresolved
                                           THEN "cancelled" ELSE doc.states[n]
       /\ mem'.apid = doc.apid /\ mem'.hbid = doc.hbid /\ mem'.journal = doc.journal
       /\ \A a \in ApId : /\ ap[a].status = "pending" => ap'[a].status = "cancelled"
                          /\ ap[a].status # "pending" => ap'[a].status = ap[a].status
                          /\ ap'[a].node = ap[a].node
       /\ \A h \in HbId : /\ hb'[h].status = hb[h].status /\ hb'[h].node = hb[h].node
                          /\ hb[h].cancel => hb'[h].cancel
                          /\ hb[h].status = "running" =>
                               \A n \in Node : doc.states[n] = "running" /\ doc.hbid[n] = h =>
                                  hb'[h].cancel
  BY <1>e1, StopFields
<1>1. Reborn'
  BY <1>e1 DEF Reborn
<1>2. Typed'
  BY <1>e1, <1>e2 DEF Typed, ApRow, IInv
<1>3. IdleSame'
  BY <1>e1 DEF IdleSame
<1>4. Unstarted'
  BY <1>e1 DEF Unstarted, Active
<1>5. Stopped'
  BY <1>e2 DEF Stopped, Unresolved
<1>6. ExpiredBacked'
  BY <1>e1, <1>e2 DEF ExpiredBacked
<1>7. Written'
  BY <1>e1, <1>e2 DEF Written, Unresolved
<1>8. Gates'
  BY <1>e2 DEF Gates, Unresolved
<1>9. Inbox'
  BY <1>e2 DEF Inbox
<1>10. Tracked'
  BY <1>0, <1>e1, <1>e2 DEF RowTypes, Tracked, IdleSame, HbRow
<1> QED BY <1>1, <1>2, <1>3, <1>4, <1>5, <1>6, <1>7, <1>8, <1>9, <1>10 DEF RowsInv

LEMMA ScanRows ==
    ASSUME IInv, LockEnds, RowsInv, LockFor(AdvanceTask), pc' = "scan", mem' = doc, status \in Active,
           tasks' = tasks \ {AdvanceTask}, UNCHANGED <<rowVars, ap, hb, hubVars, cur, runners, wrote>>
    PROVE  RowsInv'
<1> USE DEF hubVars, Doc, LockFor, rowVars
<1> SUFFICES ASSUME Reborn, Typed, IdleSame, Unstarted, Stopped, ExpiredBacked,
                    Written, Gates, Inbox, Tracked
             PROVE  RowsInv'
  BY DEF RowsInv
<1>0. RowTypes
  BY RowsTyped
<1>1. Reborn'
  BY DEF Reborn
<1>2. Typed'
  BY DEF Typed
<1>3. IdleSame'
  BY DEF IdleSame
<1>4. Unstarted'
  BY DEF Unstarted, Active
<1>5. Stopped'
  BY DEF Stopped
<1>6. ExpiredBacked'
  BY DEF ExpiredBacked
<1>7. Written'
  BY DEF Written, IdleSame
<1>8. Gates'
  BY DEF Gates, Answerable, IdleSame, AdvanceTask, DecideTask, ExpiredTask
<1>9. Inbox'
  BY DEF Inbox, IdleSame
<1>10. Tracked'
  BY DEF Tracked, IdleSame
<1> QED BY <1>1, <1>2, <1>3, <1>4, <1>5, <1>6, <1>7, <1>8, <1>9, <1>10 DEF RowsInv

LEMMA DecidedRows ==
    ASSUME IInv, LockEnds, RowsInv, NEW a \in ApId, NEW st \in {status, "rejected"}, NEW n, NEW d,
           n = ap[a].node, d = FinishAs(doc, n, "done", ap[a].status), pc = "idle",
           status \in Active, doc.apid[n] \in {None, a}, DecideTask(a) \in tasks,
           Section(DecideTask(a), d, st, {AdvanceTask})
    PROVE  RowsInv'
<1> SUFFICES ASSUME Reborn, Typed, IdleSame, Unstarted, Stopped, ExpiredBacked,
                    Written, Gates, Inbox, Tracked
             PROVE  RowsInv'
  BY DEF RowsInv
<1>0. RowTypes
  BY RowsTyped
<1>e1. /\ pc = "idle" /\ pc' = "idle" /\ mem' = d /\ doc' = d /\ status' = st
       /\ tasks' = (tasks \ {DecideTask(a)}) \cup {AdvanceTask}
       /\ UNCHANGED <<ap, hb, crashes, phase, cur, runners, wrote>>
  BY DEF Section, Save, hubVars
<1>e2. /\ d.states = [doc.states EXCEPT ![n] = "done"]
       /\ d.apid = doc.apid /\ d.hbid = doc.hbid /\ d.journal = doc.journal
  <2>0. doc \in Doc
    BY <1>0 DEF RowTypes
  <2>1. LET f == FinishAs(doc, n, "done", ap[a].status)
        IN  /\ f.states = [doc.states EXCEPT ![n] = "done"]
            /\ f.apid = doc.apid /\ f.hbid = doc.hbid /\ f.journal = doc.journal
    BY <2>0 DEF Finish, FinishAs, Doc
  <2> QED BY <2>1
<1>e3. /\ n \in Node \cup {None} /\ ap[a].status \in Decision /\ None \notin ApId \cup Node
       /\ n \in Node => Type[n] = "approval"
  BY <1>0, IdAssumption DEF IdAssumption, ApRow, Typed, IInv, Backed, RowTypes
<1>1. Reborn'
  BY <1>e1 DEF Reborn
<1>2. Typed'
  BY <1>0, <1>e1, <1>e2 DEF RowTypes, Typed
<1>3. IdleSame'
  BY <1>e1 DEF IdleSame
<1>4. Unstarted'
  BY <1>e1 DEF Unstarted, Active
<1>5. Stopped'
  BY <1>e1 DEF Stopped
<1>6. ExpiredBacked'
  BY <1>e1 DEF ExpiredBacked, AdvanceTask, ExpiredTask
<1>7. Written'
  <2>1. n \notin Creates
    BY <1>e3, WorkflowAssumption, IdAssumption DEF WorkflowAssumption, IdAssumption
  <2>2. \A m \in Node : m # n => d.states[m] = doc.states[m]
    BY <1>0, <1>e2 DEF RowTypes
  <2>3. n \in Node => d.states[n] = "done"
    BY <1>0, <1>e2 DEF RowTypes
  <2> QED BY <1>e1, <1>e2, <2>1, <2>2, <2>3 DEF Written, IdleSame, Unresolved
<1>8. Gates'
   BY <1>0, <1>e1, <1>e2, <1>e3 DEF RowTypes, Gates, Answerable, IdleSame, DecideTask,
     ExpiredTask, AdvanceTask
<1>9. Inbox'
  BY <1>0, <1>e1, <1>e2, <1>e3 DEF RowTypes, Inbox, Decision, EndedAtGate, IdleSame
<1>10. Tracked'
  BY <1>0, <1>e1, <1>e2 DEF RowTypes, Tracked, Typed, EndedAtGate, IdleSame, HbRow
<1> QED BY <1>1, <1>2, <1>3, <1>4, <1>5, <1>6, <1>7, <1>8, <1>9, <1>10 DEF RowsInv

LEMMA ExpiredRows ==
    ASSUME IInv, LockEnds, RowsInv, NEW a \in ApId, NEW n, NEW d, n = ap[a].node, d = Finish(doc, n, "failed"),
           pc = "idle", status \in Active, doc.apid[n] = a, ExpiredTask(a) \in tasks,
           Section(ExpiredTask(a), d, "failed", {})
    PROVE  RowsInv'
<1> SUFFICES ASSUME Reborn, Typed, IdleSame, Unstarted, Stopped, ExpiredBacked,
                    Written, Gates, Inbox, Tracked
             PROVE  RowsInv'
  BY DEF RowsInv
<1>0. RowTypes
  BY RowsTyped
<1>e1. /\ pc = "idle" /\ pc' = "idle" /\ mem' = d /\ doc' = d /\ status' = "failed"
       /\ tasks' = (tasks \ {ExpiredTask(a)}) \cup {}
       /\ UNCHANGED <<ap, hb, crashes, phase, cur, runners, wrote>>
  BY DEF Section, Save, hubVars
<1>e2. /\ d.states = [doc.states EXCEPT ![n] = "failed"]
       /\ d.apid = doc.apid /\ d.hbid = doc.hbid /\ d.journal = doc.journal
  <2>0. doc \in Doc
    BY <1>0 DEF RowTypes
  <2>1. LET f == Finish(doc, n, "failed")
        IN  /\ f.states = [doc.states EXCEPT ![n] = "failed"]
            /\ f.apid = doc.apid /\ f.hbid = doc.hbid /\ f.journal = doc.journal
    BY <2>0 DEF Finish, FinishAs, Doc
  <2> QED BY <2>1
<1>e3. /\ n \in Node \cup {None} /\ ap[a].status = "expired" /\ None \notin ApId \cup Node
       /\ n \in Node => Type[n] = "approval"
  BY <1>0, IdAssumption DEF IdAssumption, ApRow, Typed, ExpiredBacked, RowTypes
<1>1. Reborn'
  BY <1>e1 DEF Reborn
<1>2. Typed'
  BY <1>0, <1>e1, <1>e2 DEF RowTypes, Typed, IdleSame
<1>3. IdleSame'
  BY <1>e1 DEF IdleSame
<1>4. Unstarted'
  BY <1>e1 DEF Unstarted
<1>5. Stopped'
  BY <1>e1 DEF Stopped
<1>6. ExpiredBacked'
  BY <1>e1 DEF ExpiredBacked
<1>7. Written'
  BY <1>0, <1>e1, <1>e2 DEF RowTypes, Written, IdleSame, Unresolved
<1>8. Gates'
  BY <1>e1 DEF Gates, Active
<1>9. Inbox'
  <2>1. n \in Node
    BY <1>0, <1>e3 DEF Typed
  <2>2. ap' = ap /\ pc' = "idle" /\ crashes' = crashes /\ mem'.apid = mem.apid
        /\ mem'.states = [mem.states EXCEPT ![n] = "failed"]
    BY <1>e1, <1>e2 DEF IdleSame
  <2>3. EndedAtGate'
    BY <1>0, <1>e1, <1>e2, <1>e3, <2>1 DEF EndedAtGate, RowTypes
  <2>4. ASSUME crashes = 0, NEW x \in ApId, ap[x].status = "pending"
        PROVE  /\ ap[x].node \in Node /\ ap[x].node # n
               /\ mem.states[ap[x].node] = "waiting" /\ mem.apid[ap[x].node] = x
    BY <1>0, <1>e3, <2>4 DEF Inbox, RowTypes, IdleSame
  <2> QED BY <1>0, <2>1, <2>2, <2>3, <2>4 DEF Inbox, RowTypes
<1>10. Tracked'
   BY <1>0, <1>e1, <1>e2, <1>e3 DEF RowTypes, Tracked, Typed, EndedAtGate, IdleSame,
     Active, ApRow, HbRow
<1> QED BY <1>1, <1>2, <1>3, <1>4, <1>5, <1>6, <1>7, <1>8, <1>9, <1>10 DEF RowsInv

LEMMA RetryLaterRows ==
    ASSUME IInv, LockEnds, RowsInv, NEW n \in Node, RetryLater(n)
    PROVE  RowsInv'
<1> USE DEF hubVars, Doc, RetryLater, LockFor, Section, Save, Finish
<1> SUFFICES ASSUME Reborn, Typed, IdleSame, Unstarted, Stopped, ExpiredBacked,
                    Written, Gates, Inbox, Tracked
             PROVE  RowsInv'
  BY DEF RowsInv
<1>0. RowTypes
  BY RowsTyped
<1>1. Reborn'
  BY DEF Reborn
<1>2. Typed'
  BY DEF Typed
<1>3. IdleSame'
  BY DEF IdleSame
<1>4. Unstarted'
  BY DEF Unstarted, IdleSame
<1>5. Stopped'
  BY DEF Stopped
<1>6. ExpiredBacked'
  BY DEF ExpiredBacked, AdvanceTask, ExpiredTask
<1>7. Written'
  BY DEF Written, IdleSame, Unresolved
<1>8. Gates'
  BY DEF Gates, Answerable, IdleSame, DecideTask, ExpiredTask, RetryTask
<1>9. Inbox'
  BY DEF Inbox, EndedAtGate, IdleSame
<1>10. Tracked'
  BY DEF Tracked, EndedAtGate, IdleSame
<1> QED BY <1>1, <1>2, <1>3, <1>4, <1>5, <1>6, <1>7, <1>8, <1>9, <1>10 DEF RowsInv

LEMMA HeartbeatDoneRows ==
    ASSUME IInv, LockEnds, RowsInv, NEW n \in Node, NEW h \in HbId, NEW d, d = FinishAs(doc, n, hb[h].status, "ok"),
           pc = "idle", status \in Active, doc.states[n] = "running", doc.hbid[n] = h,
           DoneTask(n, h) \in tasks, Section(DoneTask(n, h), d, status, {AdvanceTask})
    PROVE  RowsInv'
<1> SUFFICES ASSUME Reborn, Typed, IdleSame, Unstarted, Stopped, ExpiredBacked,
                    Written, Gates, Inbox, Tracked
             PROVE  RowsInv'
  BY DEF RowsInv
<1>0. RowTypes
  BY RowsTyped
<1>e1. /\ pc = "idle" /\ pc' = "idle" /\ mem' = d /\ doc' = d /\ status' = status
       /\ tasks' = (tasks \ {DoneTask(n, h)}) \cup {AdvanceTask}
       /\ UNCHANGED <<ap, hb, crashes, phase, cur, runners, wrote>>
  BY DEF Section, Save, hubVars
<1>e2. /\ d.states = [doc.states EXCEPT ![n] = hb[h].status]
       /\ d.apid = doc.apid /\ d.hbid = doc.hbid /\ d.journal = doc.journal
  <2>0. doc \in Doc
    BY <1>0 DEF RowTypes
  <2> QED BY <2>0, FinishFields
<1>e3. hb[h].status \in {"done", "failed"}
  BY DEF IInv, Backed
<1>1. Reborn'
  BY <1>e1 DEF Reborn
<1>2. Typed'
  BY <1>0, <1>e1, <1>e2 DEF RowTypes, Typed
<1>3. IdleSame'
  BY <1>e1 DEF IdleSame
<1>4. Unstarted'
  BY <1>e1 DEF Unstarted, Active
<1>5. Stopped'
  BY <1>e1 DEF Stopped
<1>6. ExpiredBacked'
  BY <1>e1 DEF ExpiredBacked, AdvanceTask, ExpiredTask
<1>7. Written'
  BY <1>0, <1>e1, <1>e2 DEF RowTypes, Written, IdleSame, Unresolved
<1>8. Gates'
   BY <1>0, <1>e1, <1>e2, <1>e3 DEF RowTypes, Gates, Answerable, IdleSame, DecideTask,
     ExpiredTask, AdvanceTask, DoneTask
<1>9. Inbox'
  BY <1>0, <1>e1, <1>e2 DEF RowTypes, Inbox, IdleSame
<1>10. Tracked'
  BY <1>0, <1>e1, <1>e2 DEF RowTypes, Tracked, IdleSame, HbRow
<1> QED BY <1>1, <1>2, <1>3, <1>4, <1>5, <1>6, <1>7, <1>8, <1>9, <1>10 DEF RowsInv

LEMMA ReconcileRows ==
    ASSUME IInv, LockEnds, RowsInv, Reconcile
    PROVE  RowsInv'
<1> SUFFICES ASSUME Reborn, Typed, IdleSame, Unstarted, Stopped, ExpiredBacked,
                    Written, Gates, Inbox, Tracked
             PROVE  RowsInv'
  BY DEF RowsInv
<1>0. RowTypes
  BY RowsTyped
<1>e1. /\ pc = "idle" /\ pc' = "idle" /\ crashes > 0 /\ crashes' > 0 /\ mem = doc /\ mem' = doc' /\ status' = status
       /\ \A n \in Node : mem'.states[n] = IF mem.states[n] = "deferred" /\ status \in Active
                                           THEN "pending" ELSE mem.states[n]
       /\ mem'.apid = mem.apid /\ mem'.hbid = mem.hbid
       /\ \A a \in ApId : ExpiredTask(a) \notin tasks'
       /\ UNCHANGED <<ap, hb, runners, wrote>>
   BY <1>0 DEF Reconcile, Save, Enter, IdleSame, Reborn, Doc, ExpiredTask, WatchTask,
     AdvanceTask, RowTypes
<1>1. Reborn'
  BY <1>e1 DEF Reborn
<1>2. Typed'
  BY <1>e1 DEF Typed
<1>3. IdleSame'
  BY <1>e1 DEF IdleSame
<1>4. Unstarted'
  BY <1>e1 DEF Unstarted
<1>5. Stopped'
  BY <1>e1 DEF Stopped
<1>6. ExpiredBacked'
  BY <1>e1 DEF ExpiredBacked
<1>7. Written'
  BY <1>e1 DEF Written
<1>8. Gates'
  BY <1>e1 DEF Gates
<1>9. Inbox'
  BY <1>e1 DEF Inbox
<1>10. Tracked'
  BY <1>0, <1>e1 DEF RowTypes, Tracked, Typed, EndedAtGate, HbRow
<1> QED BY <1>1, <1>2, <1>3, <1>4, <1>5, <1>6, <1>7, <1>8, <1>9, <1>10 DEF RowsInv

LEMMA RunnerEndsRows ==
    ASSUME IInv, LockEnds, RowsInv, NEW h \in HbId, RunnerEnds(h)
    PROVE  RowsInv'
<1> USE DEF hubVars, Doc, RunnerEnds, rowVars, lockVars
<1> SUFFICES ASSUME Reborn, Typed, IdleSame, Unstarted, Stopped, ExpiredBacked,
                    Written, Gates, Inbox, Tracked
             PROVE  RowsInv'
  BY DEF RowsInv
<1>0. RowTypes
  BY RowsTyped
<1>1. Reborn'
  BY DEF Reborn
<1>2. Typed'
  BY DEF Typed
<1>3. IdleSame'
  BY DEF IdleSame
<1>4. Unstarted'
  BY DEF Unstarted
<1>5. Stopped'
  BY DEF Stopped
<1>6. ExpiredBacked'
  BY DEF ExpiredBacked, ExpiredTask, DoneTask
<1>7. Written'
  BY DEF Written
<1>8. Gates'
  BY DEF Gates, Answerable
<1>9. Inbox'
  BY DEF Inbox, EndedAtGate
<1>10. Tracked'
  BY DEF Tracked, EndedAtGate
<1> QED BY <1>1, <1>2, <1>3, <1>4, <1>5, <1>6, <1>7, <1>8, <1>9, <1>10 DEF RowsInv

LEMMA OutcomeLostRows ==
    ASSUME IInv, LockEnds, RowsInv, NEW h \in HbId, OutcomeLost(h)
    PROVE  RowsInv'
<1> USE DEF hubVars, Doc, OutcomeLost, rowVars, lockVars
<1> SUFFICES ASSUME Reborn, Typed, IdleSame, Unstarted, Stopped, ExpiredBacked,
                    Written, Gates, Inbox, Tracked
             PROVE  RowsInv'
  BY DEF RowsInv
<1>0. RowTypes
  BY RowsTyped
<1>1. Reborn'
  BY DEF Reborn
<1>2. Typed'
  BY DEF Typed
<1>3. IdleSame'
  BY DEF IdleSame
<1>4. Unstarted'
  BY DEF Unstarted
<1>5. Stopped'
  BY DEF Stopped
<1>6. ExpiredBacked'
  BY DEF ExpiredBacked
<1>7. Written'
  BY DEF Written
<1>8. Gates'
  BY DEF Gates, Answerable
<1>9. Inbox'
  BY DEF Inbox, EndedAtGate
<1>10. Tracked'
  BY DEF Tracked, EndedAtGate
<1> QED BY <1>1, <1>2, <1>3, <1>4, <1>5, <1>6, <1>7, <1>8, <1>9, <1>10 DEF RowsInv

LEMMA WatchdogRows ==
    ASSUME IInv, LockEnds, RowsInv, NEW h \in HbId, Watchdog(h)
    PROVE  RowsInv'
<1> USE DEF hubVars, Doc, Watchdog, rowVars, lockVars
<1> SUFFICES ASSUME Reborn, Typed, IdleSame, Unstarted, Stopped, ExpiredBacked,
                    Written, Gates, Inbox, Tracked
             PROVE  RowsInv'
  BY DEF RowsInv
<1>0. RowTypes
  BY RowsTyped
<1>1. Reborn'
  BY DEF Reborn
<1>2. Typed'
  BY DEF Typed
<1>3. IdleSame'
  BY DEF IdleSame
<1>4. Unstarted'
  BY DEF Unstarted
<1>5. Stopped'
  BY DEF Stopped
<1>6. ExpiredBacked'
  BY DEF ExpiredBacked
<1>7. Written'
  BY DEF Written
<1>8. Gates'
  BY DEF Gates, Answerable
<1>9. Inbox'
  BY DEF Inbox, EndedAtGate
<1>10. Tracked'
  BY DEF Tracked, EndedAtGate
<1> QED BY <1>1, <1>2, <1>3, <1>4, <1>5, <1>6, <1>7, <1>8, <1>9, <1>10 DEF RowsInv

LEMMA WatchSeesRows ==
    ASSUME IInv, LockEnds, RowsInv, NEW n \in Node, NEW h \in HbId, WatchSees(n, h)
    PROVE  RowsInv'
<1> USE DEF hubVars, Doc, WatchSees, rowVars, lockVars
<1> SUFFICES ASSUME Reborn, Typed, IdleSame, Unstarted, Stopped, ExpiredBacked,
                    Written, Gates, Inbox, Tracked
             PROVE  RowsInv'
  BY DEF RowsInv
<1>0. RowTypes
  BY RowsTyped
<1>1. Reborn'
  BY DEF Reborn
<1>2. Typed'
  BY DEF Typed
<1>3. IdleSame'
  BY DEF IdleSame
<1>4. Unstarted'
  BY DEF Unstarted
<1>5. Stopped'
  BY DEF Stopped
<1>6. ExpiredBacked'
  BY DEF ExpiredBacked, ExpiredTask, DoneTask
<1>7. Written'
  BY DEF Written
<1>8. Gates'
  BY DEF Gates, Answerable, DecideTask, ExpiredTask, WatchTask
<1>9. Inbox'
  BY DEF Inbox, EndedAtGate
<1>10. Tracked'
  BY DEF Tracked, EndedAtGate
<1> QED BY <1>1, <1>2, <1>3, <1>4, <1>5, <1>6, <1>7, <1>8, <1>9, <1>10 DEF RowsInv

LEMMA StartRunRows ==
    ASSUME IInv, LockEnds, RowsInv, StartRun
    PROVE  RowsInv'
<1> USE DEF hubVars, Doc, StartRun, lockVars
<1> SUFFICES ASSUME Reborn, Typed, IdleSame, Unstarted, Stopped, ExpiredBacked,
                    Written, Gates, Inbox, Tracked
             PROVE  RowsInv'
  BY DEF RowsInv
<1>0. RowTypes
  BY RowsTyped
<1>1. Reborn'
  BY DEF Reborn
<1>2. Typed'
  BY DEF Typed
<1>3. IdleSame'
  BY DEF IdleSame
<1>4. Unstarted'
  BY DEF Unstarted
<1>5. Stopped'
  BY DEF Stopped
<1>6. ExpiredBacked'
  BY DEF ExpiredBacked, AdvanceTask, ExpiredTask
<1>7. Written'
  BY DEF Written
<1>8. Gates'
  BY DEF Gates, Unstarted
<1>9. Inbox'
  BY DEF Inbox, Active
<1>10. Tracked'
  BY DEF Tracked, Active
<1> QED BY <1>1, <1>2, <1>3, <1>4, <1>5, <1>6, <1>7, <1>8, <1>9, <1>10 DEF RowsInv

LEMMA CrashRows ==
    ASSUME IInv, LockEnds, RowsInv, Crash
    PROVE  RowsInv'
<1> SUFFICES ASSUME Reborn, Typed, IdleSame, Unstarted, Stopped, ExpiredBacked,
                    Written, Gates, Inbox, Tracked
             PROVE  RowsInv'
  BY DEF RowsInv
<1>0. RowTypes
  BY RowsTyped
<1>e1. /\ crashes' # 0 /\ crashes' > 0 /\ mem' = doc /\ pc' = "idle" /\ tasks' = {} /\ runners' = {}
       /\ UNCHANGED <<status, doc, ap, hb, wrote>>
  BY BoundAssumption DEF Crash, rowVars, BoundAssumption, IInv, TypeOK
<1>1. Reborn'
  BY <1>e1 DEF Reborn
<1>2. Typed'
  BY <1>e1 DEF Typed
<1>3. IdleSame'
  BY <1>e1 DEF IdleSame
<1>4. Unstarted'
  BY <1>e1 DEF Unstarted, IdleSame
<1>5. Stopped'
  BY <1>e1 DEF Stopped
<1>6. ExpiredBacked'
  BY <1>e1 DEF ExpiredBacked
<1>7. Written'
  BY <1>e1 DEF Written
<1>8. Gates'
  BY <1>e1 DEF Gates
<1>9. Inbox'
  BY <1>e1 DEF Inbox
<1>10. Tracked'
  BY <1>e1 DEF Tracked
<1> QED BY <1>1, <1>2, <1>3, <1>4, <1>5, <1>6, <1>7, <1>8, <1>9, <1>10 DEF RowsInv

LEMMA DecideRows ==
    ASSUME IInv, LockEnds, RowsInv, NEW a \in ApId, Decide(a)
    PROVE  RowsInv'
<1> USE DEF hubVars, Doc, Decide, rowVars, lockVars
<1> SUFFICES ASSUME Reborn, Typed, IdleSame, Unstarted, Stopped, ExpiredBacked,
                    Written, Gates, Inbox, Tracked
             PROVE  RowsInv'
  BY DEF RowsInv
<1>0. RowTypes
  BY RowsTyped
<1>1. Reborn'
  BY DEF Reborn
<1>2. Typed'
  BY DEF Typed
<1>3. IdleSame'
  BY DEF IdleSame
<1>4. Unstarted'
  BY DEF Unstarted
<1>5. Stopped'
  BY DEF Stopped
<1>6. ExpiredBacked'
  BY DEF ExpiredBacked, DecideTask, ExpiredTask
<1>7. Written'
  BY DEF Written
<1>8. Gates'
  BY DEF Gates, Answerable
<1>9. Inbox'
  BY DEF Inbox, Backed, EndedAtGate, IdleSame, Active
<1>10. Tracked'
  BY DEF Tracked, EndedAtGate, IdleSame
<1> QED BY <1>1, <1>2, <1>3, <1>4, <1>5, <1>6, <1>7, <1>8, <1>9, <1>10 DEF RowsInv

LEMMA ExpireRows ==
    ASSUME IInv, LockEnds, RowsInv, NEW a \in ApId, Expire(a)
    PROVE  RowsInv'
<1> USE DEF hubVars, Doc, Expire, rowVars, lockVars
<1> SUFFICES ASSUME Reborn, Typed, IdleSame, Unstarted, Stopped, ExpiredBacked,
                    Written, Gates, Inbox, Tracked
             PROVE  RowsInv'
  BY DEF RowsInv
<1>0. RowTypes
  BY RowsTyped
<1>1. Reborn'
  BY DEF Reborn
<1>2. Typed'
  BY DEF Typed
<1>3. IdleSame'
  BY DEF IdleSame
<1>4. Unstarted'
  BY DEF Unstarted
<1>5. Stopped'
  BY DEF Stopped
<1>6. ExpiredBacked'
  BY <1>0 DEF RowTypes, ExpiredBacked, ExpiredTask
<1>7. Written'
  BY DEF Written
<1>8. Gates'
  BY DEF Gates, Answerable
<1>9. Inbox'
  BY DEF Inbox, EndedAtGate, IdleSame
<1>10. Tracked'
  BY DEF Tracked, EndedAtGate
<1> QED BY <1>1, <1>2, <1>3, <1>4, <1>5, <1>6, <1>7, <1>8, <1>9, <1>10 DEF RowsInv

LEMMA OtherWakeRows ==
    ASSUME IInv, LockEnds, RowsInv, NEW agent \in Agent, OtherWake(agent)
    PROVE  RowsInv'
<1> USE DEF hubVars, Doc, OtherWake, NewHeartbeat, FreeHb, rowVars, lockVars
<1> SUFFICES ASSUME Reborn, Typed, IdleSame, Unstarted, Stopped, ExpiredBacked,
                    Written, Gates, Inbox, Tracked
             PROVE  RowsInv'
  BY DEF RowsInv
<1>0. RowTypes
  BY RowsTyped
<1>1. Reborn'
  BY DEF Reborn
<1>2. Typed'
  BY DEF Typed
<1>3. IdleSame'
  BY DEF IdleSame
<1>4. Unstarted'
  BY DEF Unstarted
<1>5. Stopped'
  BY DEF Stopped
<1>6. ExpiredBacked'
  BY DEF ExpiredBacked
<1>7. Written'
  BY DEF Written
<1>8. Gates'
  BY DEF Gates, Answerable
<1>9. Inbox'
  BY DEF Inbox, EndedAtGate
<1>10. Tracked'
  BY DEF Tracked, EndedAtGate
<1> QED BY <1>1, <1>2, <1>3, <1>4, <1>5, <1>6, <1>7, <1>8, <1>9, <1>10 DEF RowsInv

LEMMA OthersRows ==
    ASSUME IInv, LockEnds, RowsInv,
           \/ Restart \/ Serve \/ RequestCancel \/ SetPaused
           \/ \E agent \in Agent, mode \in Mode \cup {"none"} : PublishAgent(agent, mode)
           \/ UNCHANGED vars
    PROVE  RowsInv'
<1> SUFFICES ASSUME Reborn, Typed, IdleSame, Unstarted, Stopped, ExpiredBacked,
                    Written, Gates, Inbox, Tracked
             PROVE  RowsInv'
  BY DEF RowsInv
<1>0. RowTypes
  BY RowsTyped
<1>e1. /\ UNCHANGED <<status, doc, mem, ap, hb, pc, cur, crashes, runners, wrote>>
       /\ phase' # "serving" => phase # "serving"
       /\ tasks' = tasks \/ tasks' = tasks \cup {CancelTask}
   BY DEF hubVars, Restart, Serve, Enter, RequestCancel, SetPaused, PublishAgent, vars,
     rowVars, lockVars
<1>1. Reborn'
  BY <1>e1 DEF Reborn
<1>2. Typed'
  BY <1>e1 DEF Typed
<1>3. IdleSame'
  BY <1>e1 DEF IdleSame
<1>4. Unstarted'
  BY <1>e1 DEF Unstarted
<1>5. Stopped'
  BY <1>e1 DEF Stopped
<1>6. ExpiredBacked'
  BY <1>e1 DEF ExpiredBacked, CancelTask, ExpiredTask
<1>7. Written'
  BY <1>e1 DEF Written
<1>8. Gates'
  BY <1>e1 DEF Gates, Answerable
<1>9. Inbox'
  BY <1>e1 DEF Inbox, EndedAtGate
<1>10. Tracked'
  BY <1>e1 DEF Tracked, EndedAtGate
<1> QED BY <1>1, <1>2, <1>3, <1>4, <1>5, <1>6, <1>7, <1>8, <1>9, <1>10 DEF RowsInv

-----------------------------------------------------------------------------
(* Every step keeps the invariant *)

LEMMA StartNodeRows ==
    ASSUME IInv, LockEnds, RowsInv, NEW n \in Node, StartNode(n)
    PROVE  RowsInv'
<1>1. pc = "scan" /\ mem.states[n] = "pending"
  BY DEF StartNode, Starting, Ready, PassThrough, EvaluateCondition, RequestApproval,
         CallReadTool, GateWriteTool, ResolveAgent
<1>2. ASSUME NEW st \in {"done", "failed"}, NEW r,
             EndNode(Finish(mem, n, st)) \/ EndNode(FinishAs(mem, n, st, r))
      PROVE  RowsInv'
  BY <1>1, <1>2, EndNodeRows
<1>3. ASSUME NEW full, NEW to \in {"journal", "write", "launch"},
             to = "launch" => Type[n] = "agent_task", to = "write" => ~Recorded(n),
             Go(to, n, full)
      PROVE  RowsInv'
  BY <1>1, <1>3, GoRows
<1>4. CASE PassThrough(n) \/ EvaluateCondition(n) \/ CallReadTool(n)
  BY <1>2, <1>4 DEF PassThrough, EvaluateCondition, CallReadTool
<1>5. CASE GateWriteTool(n)
  BY <1>2, <1>3, <1>5 DEF GateWriteTool, Recorded
<1>6. CASE ResolveAgent(n)
  BY <1>2, <1>3, <1>6 DEF ResolveAgent, Starting
<1>7. CASE RequestApproval(n)
  BY <1>7, RequestApprovalRows
<1> QED BY <1>4, <1>5, <1>6, <1>7 DEF StartNode

LEMMA HolderRows ==
    ASSUME IInv, LockEnds, RowsInv, Holder
    PROVE  RowsInv'
<1>1. CASE \E n \in Node : SkipNode(n) \/ StartNode(n)
  BY <1>1, SkipNodeRows, StartNodeRows
<1>2. CASE SaveNode \/ SaveStopped \/ EndAdvance \/ StopSiblings
  BY <1>2, SaveNodeRows, SaveStoppedRows, EndAdvanceRows, StopSiblingsRows
<1>3. CASE Journal \/ Write \/ RecordCreate \/ DispatchFails
  BY <1>3, JournalRows, WriteRows, RecordCreateRows, DispatchFailsRows
<1>4. CASE LaunchRefused \/ LaunchCoalesced \/ LaunchStarted
  BY <1>4, LaunchRefusedRows, LaunchStartedRows
<1> QED BY <1>1, <1>2, <1>3, <1>4 DEF Holder

\* A section that finds the row has moved on returns, and no gate waits for it.
Stale(t) ==
    \/ t \in {AdvanceTask, CancelTask} \cup {DoneTask(n, h) : n \in Node, h \in HbId}
    \/ status \notin Active
    \/ \E a \in ApId : t \in {DecideTask(a), ExpiredTask(a)} /\ doc.apid[ap[a].node] # a

LEMMA StaleRows ==
    ASSUME IInv, LockEnds, RowsInv, NEW t, LockFor(t), Return(t), Stale(t)
    PROVE  RowsInv'
<1>1. pc = "idle" /\ mem = doc /\ Gates
  BY DEF LockFor, RowsInv, IdleSame
<1>2. ASSUME crashes = 0, status \in Active, NEW n \in Node, mem.states[n] = "waiting"
      PROVE  t \notin {DecideTask(mem.apid[n]), ExpiredTask(mem.apid[n])}
  <2>1. mem.apid[n] \in ApId /\ ap[mem.apid[n]].node = n
    BY <1>1, <1>2 DEF Gates, Answerable
  <2>2. ASSUME NEW a \in ApId, t \in {DecideTask(a), ExpiredTask(a)},
               doc.apid[ap[a].node] # a
        PROVE  t \notin {DecideTask(mem.apid[n]), ExpiredTask(mem.apid[n])}
    BY <1>1, <2>1, <2>2 DEF DecideTask, ExpiredTask
  <2> QED BY <1>2, <2>2 DEF Stale, AdvanceTask, CancelTask, DoneTask, DecideTask, ExpiredTask
<1> QED BY <1>1, <1>2, ReturnRows

LEMMA WaiterRows ==
    ASSUME IInv, LockEnds, RowsInv, Waiter
    PROVE  RowsInv'
<1>1. CASE Advance
  <2>1. LockFor(AdvanceTask) /\ pc = "idle" /\ Stale(AdvanceTask)
    BY <1>1 DEF Advance, LockFor, Stale
  <2>2. CASE Return(AdvanceTask)
    BY <2>1, <2>2, StaleRows
  <2>3. CASE Cancelling(AdvanceTask)
    BY <2>1, <2>3, CancellingRows
  <2> QED BY <1>1, <2>1, <2>2, <2>3, ScanRows DEF Advance
<1>2. CASE CancelLocked
  <2>1. LockFor(CancelTask) /\ pc = "idle" /\ Stale(CancelTask)
    BY <1>2 DEF CancelLocked, LockFor, Stale
  <2> QED BY <1>2, <2>1, StaleRows, CancellingRows DEF CancelLocked
<1>3. ASSUME NEW a \in ApId, DecideLocked(a) PROVE RowsInv'
  <2>1. LockFor(DecideTask(a)) /\ pc = "idle" /\ DecideTask(a) \in tasks
    BY <1>3 DEF DecideLocked, LockFor
  <2>2. CASE (status \notin Active \/ doc.apid[ap[a].node] \notin {None, a})
             /\ Return(DecideTask(a))
    <3>1. Stale(DecideTask(a))
      BY <2>2 DEF Stale
    <3> QED BY <2>1, <2>2, <3>1, StaleRows
  <2>3. ASSUME status \in Active, doc.apid[ap[a].node] \in {None, a},
               NEW st \in {status, "rejected"},
               Section(DecideTask(a), FinishAs(doc, ap[a].node, "done", ap[a].status), st,
                       {AdvanceTask})
        PROVE  RowsInv'
    BY <2>1, <2>3, DecidedRows
  <2> QED BY <1>3, <2>2, <2>3 DEF DecideLocked
<1>4. ASSUME NEW a \in ApId, ApprovalExpired(a) PROVE RowsInv'
  <2>1. LockFor(ExpiredTask(a)) /\ pc = "idle" /\ ExpiredTask(a) \in tasks
    BY <1>4 DEF ApprovalExpired, LockFor
  <2>2. CASE (status \notin Active \/ doc.apid[ap[a].node] # a) /\ Return(ExpiredTask(a))
    <3>1. Stale(ExpiredTask(a))
      BY <2>2 DEF Stale
    <3> QED BY <2>1, <2>2, <3>1, StaleRows
  <2>3. CASE /\ status \in Active /\ doc.apid[ap[a].node] = a
             /\ Section(ExpiredTask(a), Finish(doc, ap[a].node, "failed"), "failed", {})
    BY <2>1, <2>3, ExpiredRows
  <2> QED BY <1>4, <2>2, <2>3 DEF ApprovalExpired
<1>5. ASSUME NEW n \in Node, RetryLater(n) PROVE RowsInv'
  BY <1>5, RetryLaterRows
<1>6. ASSUME NEW n \in Node, NEW h \in HbId, HeartbeatDone(n, h) PROVE RowsInv'
  <2>1. LockFor(DoneTask(n, h)) /\ pc = "idle" /\ DoneTask(n, h) \in tasks
        /\ Stale(DoneTask(n, h))
    BY <1>6 DEF HeartbeatDone, LockFor, Stale
  <2>2. CASE Return(DoneTask(n, h))
    BY <2>1, <2>2, StaleRows
  <2>3. CASE /\ status \in Active /\ doc.states[n] = "running" /\ doc.hbid[n] = h
             /\ Section(DoneTask(n, h), FinishAs(doc, n, hb[h].status, "ok"), status,
                        {AdvanceTask})
    BY <2>1, <2>3, HeartbeatDoneRows
  <2> QED BY <1>6, <2>2, <2>3 DEF HeartbeatDone
<1> QED BY <1>1, <1>2, <1>3, <1>4, <1>5, <1>6 DEF Waiter

LEMMA OutsideRows ==
    ASSUME IInv, LockEnds, RowsInv, Recovery \/ Heartbeats \/ Environment
    PROVE  RowsInv'
<1>1. CASE Recovery
  BY <1>1, ReconcileRows, OthersRows DEF Recovery
<1>2. CASE Heartbeats
  BY <1>2, RunnerEndsRows, OutcomeLostRows, WatchdogRows, WatchSeesRows DEF Heartbeats
<1>3. CASE StartRun \/ Crash \/ \E a \in ApId : Decide(a) \/ Expire(a)
  BY <1>3, StartRunRows, CrashRows, DecideRows, ExpireRows
<1>4. ASSUME NEW agent \in Agent, OtherWake(agent) PROVE RowsInv'
  BY <1>4, OtherWakeRows
<1>5. CASE RequestCancel \/ SetPaused
           \/ \E agent \in Agent, mode \in Mode \cup {"none"} : PublishAgent(agent, mode)
  BY <1>5, OthersRows
<1> QED BY <1>1, <1>2, <1>3, <1>4, <1>5 DEF Environment

LEMMA NextRows == IInv /\ LockEnds /\ RowsInv /\ [Next]_vars => RowsInv'
<1> SUFFICES ASSUME IInv, LockEnds, RowsInv, [Next]_vars PROVE RowsInv'
  OBVIOUS
<1>1. CASE UNCHANGED vars
  BY <1>1, OthersRows
<1>2. CASE Next
  BY <1>2, HolderRows, WaiterRows, OutsideRows DEF Next
<1> QED BY <1>1, <1>2

LEMMA InitRows == Init => LockEnds /\ RowsInv
<1> SUFFICES ASSUME Init PROVE LockEnds /\ RowsInv
  OBVIOUS
<1> USE DEF Init, FreshDoc
<1>1. LockEnds
  BY DEF LockEnds, Scanning
<1>2. Reborn /\ Typed /\ IdleSame /\ Unstarted /\ Stopped /\ ExpiredBacked
  BY IdAssumption DEF Reborn, Typed, IdleSame, Unstarted, Stopped, ExpiredBacked
<1>3. Written /\ Gates /\ Inbox /\ Tracked
  BY DEF Written, Gates, Inbox, Tracked, Active
<1> QED BY <1>1, <1>2, <1>3 DEF RowsInv

LEMMA RowsAlways == Spec => []RowsInv
BY InitTyped, NextTyped, InitRows, NextRows, NextEnds, PTL DEF Spec

\* Without a crash a tool node executes its write at most once in a run: a node leaves
\* `pending` with its write, and nothing puts it back.
THEOREM WriteOnceHolds == Spec => []WriteOnce
<1>1. RowsInv => WriteOnce
  BY DEF RowsInv, Written, WriteOnce
<1> QED BY <1>1, RowsAlways, PTL

\* ... and every write it executed keeps its record on the row, if it updates or deletes,
\* or creates and is done: the record append_node_journal put there, or the journal the
\* node ended with.  A create whose record failed, and the tier execute, have none.
THEOREM JournalCompleteHolds == Spec => []JournalComplete
<1>1. RowsInv => JournalComplete
  BY DEF RowsInv, Written, Recorded, JournalComplete, JournalCovers, MustCover
<1> QED BY <1>1, RowsAlways, PTL

\* Without a crash a gate an active run waits at can be answered: when nothing is left
\* to run, its row is still pending.
THEOREM GatesStayOpenHolds == Spec => []GatesStayOpen
<1>1. RowsInv => GatesStayOpen
  BY DEF RowsInv, Gates, IdleSame, Answerable, GatesStayOpen, WaitingGateIsOpen, Quiet
<1> QED BY <1>1, RowsAlways, PTL

\* Without a crash a row in the inbox is the one its node waits at, of an active run or
\* of one that ended at another gate.
THEOREM InboxIsLiveHolds == Spec => []InboxIsLive
<1>1. RowsInv => InboxIsLive
  BY DEF RowsInv, Inbox, IdleSame, InboxIsLive, Quiet
<1> QED BY <1>1, RowsAlways, PTL

\* A heartbeat of the run that still executes is tracked by the row of a run that is
\* active or ended at a gate, or has been told to stop; crashes included.
THEOREM HeartbeatsTrackedHolds == Spec => []HeartbeatsTracked
<1>1. RowsInv => HeartbeatsTracked
  BY DEF RowsInv, Tracked, IdleSame, HeartbeatsTracked, Quiet
<1> QED BY <1>1, RowsAlways, PTL

=============================================================================
