------------------------ MODULE WorkflowCausalProofs ------------------------
(***************************************************************************)
(* What the row of a run says about its past, for every workflow and every *)
(* value of the bounds: a node that has started was due, and a node that   *)
(* has written is behind an approved gate, whatever was in the snapshot of *)
(* a process that died.                                                    *)
(***************************************************************************)
EXTENDS WorkflowRowsProofs

Started == {"deferred", "running", "waiting", "done", "failed"}

SomeFired(n, d) == Into(n) # {} => Fired(n, d) # {}

\* A node that has started was due in the same document.
Closed(d) == \A n \in Node : d.states[n] \in Started => Resolved(n, d) /\ SomeFired(n, d)

\* Nodes that can only be skipped: the least set of nodes all of whose edges in come
\* from a resolved node without firing, or from the set.
Barred(k, S, d) ==
    /\ Into(k) # {}
    /\ \A e \in Into(k) : (d.states[e.from] \notin Unresolved /\ ~Fires(e, d)) \/ e.from \in S

Doomed(d) ==
    {n \in Node : \A S \in SUBSET Node : (\A k \in Node : Barred(k, S, d) => k \in S) => n \in S}

\* A node is settled when only doomed nodes are missing to make it ready.
Settled(n, d) ==
    /\ \A e \in Into(n) : d.states[e.from] \notin Unresolved \/ e.from \in Doomed(d)
    /\ SomeFired(n, d)

\* What is resolved in d stays as it is in e.
Persists(d, e) ==
    \A n \in Node : d.states[n] \notin Unresolved =>
        e.states[n] = d.states[n] /\ e.results[n] = d.results[n]

-----------------------------------------------------------------------------
(* Documents that grow *)

LEMMA IntoFrom == \A n \in Node : \A e \in Into(n) : e \in Edge /\ e.from \in Node /\ e.to = n
BY WorkflowAssumption DEF WorkflowAssumption, Into

LEMMA FiresDone == \A d : \A e : Fires(e, d) => d.states[e.from] = "done"
BY DEF Fires

\* An edge out of a node that stays as it is fires when it did.
LEMMA FiresKept ==
    ASSUME NEW d, NEW e, Persists(d, e)
    PROVE  \A n \in Node : \A x \in Into(n) :
              d.states[x.from] \notin Unresolved =>
                 /\ e.states[x.from] \notin Unresolved
                 /\ Fires(x, e) <=> Fires(x, d)
                 /\ GateOpened(x, e) <=> GateOpened(x, d)
BY IntoFrom DEF Persists, Fires, GateOpened

LEMMA ResolvedKept ==
    ASSUME NEW d, NEW e, Persists(d, e), NEW n \in Node
    PROVE  /\ Resolved(n, d) => Resolved(n, e)
           /\ Fired(n, d) \subseteq Fired(n, e)
           /\ SomeFired(n, d) => SomeFired(n, e)
<1>1. Resolved(n, d) => Resolved(n, e)
  BY FiresKept DEF Resolved
<1>2. Fired(n, d) \subseteq Fired(n, e)
  BY FiresKept, FiresDone DEF Fired, Unresolved
<1> QED BY <1>1, <1>2 DEF SomeFired

\* A document stays closed when the nodes that start were due.
LEMMA ClosedKept ==
    ASSUME NEW d, NEW e, Closed(d), Persists(d, e),
           \A n \in Node : e.states[n] \in Started /\ d.states[n] \notin Started =>
               Resolved(n, d) /\ SomeFired(n, d)
    PROVE  Closed(e)
BY ResolvedKept DEF Closed

-----------------------------------------------------------------------------
(* Doomed nodes *)

LEMMA DoomedFixed ==
    ASSUME NEW d, NEW k \in Node, Barred(k, Doomed(d), d)
    PROVE  k \in Doomed(d)
<1> SUFFICES ASSUME NEW S \in SUBSET Node, \A x \in Node : Barred(x, S, d) => x \in S
             PROVE  k \in S
  BY DEF Doomed
<1>1. Doomed(d) \subseteq S
  BY DEF Doomed
<1>2. Barred(k, S, d)
  BY <1>1 DEF Barred
<1> QED BY <1>2

LEMMA DoomedKept ==
    ASSUME NEW d, NEW e, Persists(d, e)
    PROVE  Doomed(d) \subseteq Doomed(e)
<1>1. ASSUME NEW S \in SUBSET Node, NEW k \in Node, Barred(k, S, d)
      PROVE  Barred(k, S, e)
  BY <1>1, FiresKept DEF Barred
<1> QED BY <1>1 DEF Doomed

\* Nothing fires into a doomed node of a closed document, and it has not started.
LEMMA DoomedIdle ==
    ASSUME NEW d, Closed(d)
    PROVE  \A n \in Doomed(d) : n \in Node /\ Into(n) # {} /\ Fired(n, d) = {} /\ d.states[n] \notin Started
<1> DEFINE S == {n \in Node : Into(n) # {} /\ Fired(n, d) = {} /\ d.states[n] \notin Started}
<1>1. ASSUME NEW k \in Node, Barred(k, S, d) PROVE k \in S
  <2>1. Into(k) # {} /\ Fired(k, d) = {}
    BY <1>1, FiresDone DEF Barred, Fired, Started
  <2> QED BY <2>1 DEF Closed, SomeFired
<1> HIDE DEF S
<1>2. S \in SUBSET Node
  BY DEF S
<1>3. Doomed(d) \subseteq S
  BY <1>1, <1>2 DEF Doomed
<1> QED BY <1>3 DEF S

\* When nothing can move, the doomed nodes have been skipped.
LEMMA DoomedResolved ==
    ASSUME Closed(mem), NothingMoves, mem.states \in [Node -> NodeStatus]
    PROVE  \A n \in Doomed(mem) : mem.states[n] \notin Unresolved
<1> DEFINE S == {n \in Doomed(mem) : mem.states[n] \notin Unresolved}
<1>1. ASSUME NEW k \in Node, Barred(k, S, mem) PROVE k \in S
  <2>1. Barred(k, Doomed(mem), mem) /\ Resolved(k, mem)
    BY <1>1 DEF Barred, Resolved
  <2>2. k \in Doomed(mem) /\ Into(k) # {} /\ Fired(k, mem) = {} /\ mem.states[k] \notin Started
    BY <2>1, DoomedFixed, DoomedIdle
  <2>3. mem.states[k] # "pending"
    BY <2>1, <2>2 DEF NothingMoves, Unreachable
  <2> QED BY <2>2, <2>3 DEF Started, Unresolved
<1> HIDE DEF S
<1>2. S \in SUBSET Node
  BY DEF S, Doomed
<1>3. Doomed(mem) \subseteq S
  BY <1>1, <1>2 DEF Doomed
<1> QED BY <1>3 DEF S

LEMMA SettledKept ==
    ASSUME NEW d, NEW e, Persists(d, e), NEW n \in Node, Settled(n, d)
    PROVE  Settled(n, e)
<1>1. \A x \in Into(n) : e.states[x.from] \notin Unresolved \/ x.from \in Doomed(e)
  BY DoomedKept, FiresKept DEF Settled
<1>2. SomeFired(n, e)
  BY ResolvedKept DEF Settled
<1> QED BY <1>1, <1>2 DEF Settled

\* A settled node of the snapshot has started once nothing can move.
LEMMA SettledStarts ==
    ASSUME Closed(mem), NothingMoves, mem.states \in [Node -> NodeStatus], NEW n \in Node,
           Settled(n, mem)
    PROVE  mem.states[n] # "pending"
<1>1. Resolved(n, mem)
  BY DoomedResolved DEF Settled, Resolved
<1> QED BY <1>1 DEF Settled, SomeFired, NothingMoves, Ready

-----------------------------------------------------------------------------
(* The gate, in documents that grow *)

\* No edge that fires later enters a settled node.
LEMMA FiredFixed ==
    ASSUME NEW d, NEW e, Persists(d, e), Closed(e), NEW n \in Node, Settled(n, d)
    PROVE  Fired(n, e) = Fired(n, d)
<1>1. ASSUME NEW x \in Into(n), Fires(x, e) PROVE Fires(x, d)
  <2>1. x.from \notin Doomed(d)
    BY <1>1, DoomedKept, DoomedIdle, FiresDone DEF Started
  <2> QED BY <1>1, <2>1, FiresKept DEF Settled
<1> QED BY <1>1, ResolvedKept DEF Fired

\* What the row shows of the gate of a settled node it keeps showing.
LEMMA GateKept ==
    ASSUME NEW d, NEW e, Persists(d, e), Closed(d), Closed(e), NEW n \in Node, Settled(n, d),
           ApprovedOnPath(n, d)
    PROVE  ApprovedOnPath(n, e)
<1> SUFFICES ASSUME NEW T \in SUBSET Node,
                    \A m \in Node : /\ Fired(m, e) # {}
                                    /\ \A x \in Fired(m, e) : GateOpened(x, e) \/ x.from \in T
                                    => m \in T
             PROVE  n \in T
  BY DEF ApprovedOnPath
<1> DEFINE S == {m \in Node : Settled(m, d) => m \in T}
<1>1. ASSUME NEW m \in Node, Fired(m, d) # {},
             \A x \in Fired(m, d) : GateOpened(x, d) \/ x.from \in S
      PROVE  m \in S
  <2> SUFFICES ASSUME Settled(m, d) PROVE m \in T
    OBVIOUS
  <2>1. Fired(m, e) = Fired(m, d)
    BY FiredFixed
  <2>2. ASSUME NEW x \in Fired(m, d) PROVE GateOpened(x, e) \/ x.from \in T
    <3>1. x \in Into(m) /\ x.from \in Node /\ d.states[x.from] = "done"
      BY IntoFrom, FiresDone DEF Fired
    <3>2. GateOpened(x, d) => GateOpened(x, e)
      BY <3>1, FiresKept DEF Unresolved
    <3>3. Settled(x.from, d)
      BY <3>1 DEF Closed, Started, Settled, Resolved
    <3> QED BY <1>1, <3>2, <3>3
  <2> QED BY <1>1, <2>1, <2>2
<1>2. S \in SUBSET Node
  OBVIOUS
<1>3. n \in S
  <2> HIDE DEF S
  <2> QED BY <1>1, <1>2 DEF ApprovedOnPath
<1> QED BY <1>3

\* Marking pending nodes as skipped moves no gate.
AlmostSame(d, e) ==
    \A n \in Node : /\ e.results[n] = d.results[n]
                    /\ e.states[n] = d.states[n]
                       \/ (d.states[n] = "pending" /\ e.states[n] = "skipped")

LEMMA AlmostSameFired ==
    ASSUME NEW d, NEW e, AlmostSame(d, e)
    PROVE  \A n \in Node : /\ Fired(n, d) = Fired(n, e)
                           /\ SomeFired(n, d) <=> SomeFired(n, e)
                           /\ ApprovedOnPath(n, e) => ApprovedOnPath(n, d)
<1>1. \A n \in Node : \A x \in Into(n) : /\ Fires(x, d) <=> Fires(x, e)
                                         /\ GateOpened(x, d) <=> GateOpened(x, e)
  BY IntoFrom DEF AlmostSame, Fires, GateOpened
<1>2. \A n \in Node : Fired(n, d) = Fired(n, e)
  BY <1>1 DEF Fired
<1>3. \A n \in Node : \A x \in Fired(n, e) : GateOpened(x, d) <=> GateOpened(x, e)
  BY <1>1 DEF Fired
<1>4. \A n \in Node : ApprovedOnPath(n, e) => ApprovedOnPath(n, d)
  BY <1>2, <1>3 DEF ApprovedOnPath
<1> QED BY <1>2, <1>4 DEF SomeFired

-----------------------------------------------------------------------------
(* The invariant *)

InHand == pc \in {"journal", "write", "record", "launch"}

\* The snapshot keeps what the row says is resolved.  A node it skips is doomed in the
\* row, and until a node has started it adds nothing else.
Ahead ==
    /\ Persists(doc, mem)
    /\ \A n \in Node : /\ mem.states[n] = "pending" => doc.states[n] = "pending"
                       /\ mem.states[n] = "skipped" => n \in Doomed(doc)
    /\ pc = "scan" \/ InHand => AlmostSame(doc, mem)

\* The node in hand was due.
HandReady ==
    InHand => Ready(cur.node) /\ Type[cur.node] \in {"tool", "agent_task"}

\* A gate waits at its row, and is done when that row has been decided.
AtGate(n, d) ==
    /\ d.states[n] = "waiting" => d.apid[n] # None
    /\ d.states[n] = "failed" => status \notin Active
    /\ d.states[n] = "done" => /\ d.apid[n] # None /\ ap[d.apid[n]].status \in Decision
                               /\ DecideTask(d.apid[n]) \notin tasks
    /\ d.apid[n] # None => /\ ap[d.apid[n]].node = n /\ ap[d.apid[n]].status # "none"
                           /\ d.states[n] \in {"waiting", "done", "failed", "cancelled"}

AtGates == \A n \in Node : Type[n] = "approval" => AtGate(n, doc) /\ AtGate(n, mem)

\* Only a run that ends has cancelled nodes.
Cancelled ==
    \A n \in Node :
        /\ doc.states[n] = "cancelled" => status \notin Active
        /\ mem.states[n] = "cancelled" => status \notin Active \/ pc \in {"cancelling", "stopping"}

\* A decision waits for the lock of the process that took it.
Served ==
    /\ \A a \in ApId : DecideTask(a) \in tasks => phase = "serving"
    /\ \A a \in ApId : ap[a].status = "none" => ap[a].node = None

\* Once a restarted process has been over the run, no row belongs to a node that has yet
\* to start.
Caught == phase = "serving" \/ (phase = "resuming" /\ pc = "idle" /\ AdvanceTask \notin tasks)

NoOrphans ==
    status \in Active /\ Caught => \A a \in ApId : ap[a].node # None =>
        \/ doc.states[ap[a].node] # "pending"
        \/ pc = "save" /\ mem.states[ap[a].node] # "pending"

\* Whatever happened to the snapshots, a node with an approval row or a write, and the one
\* in hand, are settled in the row, and the row shows the gate of a write.
Writes == pc \in {"journal", "write", "record"} \/ (pc = "launch" /\ cur.full)

Traced ==
    /\ \A a \in ApId : ap[a].node # None => Settled(ap[a].node, doc)
    /\ \A n \in Executed : Settled(n, doc) /\ ApprovedOnPath(n, doc)
    /\ InHand => Settled(cur.node, doc)
    /\ Writes => cur.node \in MockEnv \/ ApprovedOnPath(cur.node, doc)

CausalInv ==
    /\ Closed(doc) /\ Closed(mem) /\ Ahead /\ HandReady /\ AtGates /\ Cancelled /\ Served
    /\ NoOrphans /\ Traced

\* The shapes the steps below rest on, and what they keep.
Shapes ==
    /\ RowTypes /\ Typed
    /\ doc.results \in [Node -> Result] /\ mem.results \in [Node -> Result]
    /\ InHand => cur.node \in Node
    /\ None \notin ApId \cup Node

LEMMA Shaped == IInv /\ RowsInv => Shapes
BY RowsTyped, IdAssumption DEF IInv, RowsInv, TypeOK, Backed, Shapes, InHand, Doc, IdAssumption

\* The traces survive a step that keeps the resolved nodes, and leaves rows, writes and
\* the hand as they are or to settled nodes.
LEMMA TracedKept ==
    ASSUME IInv, RowsInv, CausalInv, (IInv)', Closed(doc)', Persists(doc, doc'),
           \A a \in ApId : ap'[a].node # None =>
               ap'[a].node = ap[a].node \/ (ap'[a].node \in Node /\ Settled(ap'[a].node, doc)),
           \A n \in Executed' : n \in Executed \/ (Settled(n, doc) /\ ApprovedOnPath(n, doc)),
           InHand' => cur'.node \in Node /\ Settled(cur'.node, doc),
           Writes' => cur'.node \in MockEnv \/ ApprovedOnPath(cur'.node, doc)
    PROVE  Traced'
<1>1. \A n \in Node : Settled(n, doc) => Settled(n, doc')
  BY SettledKept
<1>2. \A n \in Node : Settled(n, doc) /\ ApprovedOnPath(n, doc) => ApprovedOnPath(n, doc')
  BY GateKept DEF CausalInv
<1>3. \A a \in ApId : ap'[a].node # None => Settled(ap'[a].node, doc')
  BY <1>1 DEF CausalInv, Traced, IInv, TypeOK, ApRow
<1>4. \A n \in Executed' : Settled(n, doc') /\ ApprovedOnPath(n, doc')
  BY <1>1, <1>2 DEF CausalInv, Traced, Executed
<1>5. InHand' => Settled(cur'.node, doc')
  BY <1>1
<1>6. Writes' => cur'.node \in MockEnv \/ ApprovedOnPath(cur'.node, doc')
  BY <1>2 DEF Writes, InHand
<1> QED BY <1>3, <1>4, <1>5, <1>6 DEF Traced

-----------------------------------------------------------------------------
(* One lemma per kind of step *)

Before == IInv /\ LockEnds /\ RowsInv /\ CausalInv
After  == IInv' /\ RowsInv' /\ Final

LEMMA PersistsTrans ==
    ASSUME NEW d, NEW e, NEW f, Persists(d, e), Persists(e, f)
    PROVE  Persists(d, f)
BY DEF Persists

LEMMA PersistsSame == \A d : Persists(d, d) /\ AlmostSame(d, d)
BY DEF Persists, AlmostSame

\* While the lock is held, a run that is active has been all along.
LEMMA ActiveKept ==
    ASSUME Before, After, pc # "idle", status' \in Active
    PROVE  status \in Active
BY DEF Before, After, IInv, TypeOK, RowsInv, Unstarted, Final, Active, Terminal

\* Steps beside the row: the API, the heartbeats, a section that returns.
LEMMA AsideCausal ==
    ASSUME Before, After, UNCHANGED <<doc, mem, pc, cur>>,
           \A a \in ApId : /\ ap'[a].node = ap[a].node
                           /\ ap'[a].status = "none" <=> ap[a].status = "none"
                           /\ ap[a].status \in Decision => ap'[a].status = ap[a].status,
           \A a \in ApId : DecideTask(a) \in tasks' =>
               /\ phase' = "serving"
               /\ DecideTask(a) \in tasks \/ ap[a].status = "pending",
           status' \in Active => status \in Active \cup {"none"},
           Caught' /\ status' \in Active => Caught \/ status = "none",
           Executed' \subseteq Executed
    PROVE  CausalInv'
<1> SUFFICES ASSUME Closed(doc), Closed(mem), Ahead, HandReady, AtGates, Cancelled, Served,
                    NoOrphans, Traced
             PROVE  CausalInv'
  BY DEF Before, CausalInv
<1>0. Shapes
  BY Shaped DEF Before
<1>1. Closed(doc)' /\ Closed(mem)' /\ Ahead' /\ HandReady'
  BY DEF Ahead, HandReady, InHand, Ready
<1>2. status = "none" => /\ \A n \in Node : doc.states[n] = "pending" /\ mem.states[n] = "pending"
                         /\ \A a \in ApId : ap[a].node = None
  BY DEF Before, RowsInv, Unstarted, IdleSame, Served
<1>3. AtGates'
  <2> SUFFICES ASSUME NEW n \in Node, Type[n] = "approval", NEW d \in {doc, mem}
               PROVE  AtGate(n, d)'
    BY DEF AtGates
  <2>1. AtGate(n, d) /\ d.apid[n] \in ApId \cup {None}
    BY <1>0 DEF AtGates, Shapes, RowTypes
  <2>2. d' = d
    OBVIOUS
  <2> QED BY <1>2, <2>1, <2>2 DEF AtGate, Decision
<1>4. Cancelled'
  BY <1>2 DEF Cancelled
<1>5. Served'
  BY DEF Served
<1>6. NoOrphans'
  BY <1>2 DEF NoOrphans
<1>7. Traced'
  <2>1. Persists(doc, doc')
    BY PersistsSame
  <2> QED BY <1>0, <1>1, <2>1, TracedKept
          DEF Before, After, Traced, InHand, Writes, Shapes
<1> QED BY <1>1, <1>3, <1>4, <1>5, <1>6, <1>7 DEF CausalInv

\* Steps that go back to the row, and may move on nodes that have started.
LEMMA SectionCausal ==
    ASSUME Before, After, pc' \in {"idle", "scan"}, mem' = doc', doc'.apid = doc.apid, ap' = ap,
           \A n \in Node :
              \/ doc'.states[n] = doc.states[n] /\ doc'.results[n] = doc.results[n]
              \/ /\ doc.states[n] \in {"deferred", "running", "waiting"}
                 /\ \/ doc'.states[n] \in {"done", "failed"}
                    \/ doc'.states[n] = "pending" /\ Type[n] # "approval",
           \A n \in Node : Type[n] = "approval" /\ doc'.states[n] # doc.states[n] => AtGate(n, doc)',
           \A a \in ApId : DecideTask(a) \in tasks' => DecideTask(a) \in tasks /\ phase' = phase,
           status' \in Active => status \in Active,
           Caught' /\ status' \in Active => Caught /\ pc = "idle",
           Executed' \subseteq Executed
    PROVE  CausalInv'
<1> SUFFICES ASSUME Closed(doc), Closed(mem), Ahead, HandReady, AtGates, Cancelled, Served,
                    NoOrphans, Traced
             PROVE  CausalInv'
  BY DEF Before, CausalInv
<1>0. Shapes
  BY Shaped DEF Before
<1>1. Persists(doc, doc')
  BY DEF Persists, Unresolved
<1>2. Closed(doc') /\ Closed(mem')
  BY <1>1, ClosedKept DEF Started
<1>3. Ahead'
  <2>1. Doomed(doc) \subseteq Doomed(doc')
    BY <1>1, DoomedKept
  <2>2. \A n \in Node : doc'.states[n] = "skipped" => n \in Doomed(doc)
    BY DEF Ahead, Persists, Unresolved
  <2> QED BY <2>1, <2>2, PersistsSame DEF Ahead
<1>4. HandReady'
  BY DEF HandReady, InHand
<1>5. AtGates'
  <2> SUFFICES ASSUME NEW n \in Node, Type[n] = "approval"
               PROVE  AtGate(n, doc)'
    BY DEF AtGates, AtGate
  <2>1. AtGate(n, doc) /\ doc.apid[n] \in ApId \cup {None}
    BY <1>0 DEF AtGates, Shapes, RowTypes
  <2> QED BY <2>1 DEF AtGate
<1>6. Cancelled'
  BY DEF Cancelled
<1>7. Served'
  BY DEF Served
<1>8. NoOrphans'
  <2> SUFFICES ASSUME status' \in Active, Caught', NEW a \in ApId, ap[a].node # None
               PROVE  doc'.states[ap[a].node] # "pending"
    BY DEF NoOrphans
  <2>1. doc.states[ap[a].node] # "pending"
    BY DEF NoOrphans
  <2>2. ap[a].node \in Node /\ Type[ap[a].node] = "approval"
    BY <1>0 DEF Shapes, Typed, RowTypes, ApRow
  <2> QED BY <2>1, <2>2
<1>9. Traced'
  BY <1>1, <1>2, TracedKept DEF Before, After, InHand, Writes
<1> QED BY <1>2, <1>3, <1>4, <1>5, <1>6, <1>7, <1>8, <1>9 DEF CausalInv

\* The snapshot becomes the row.
LEMMA SavedCausal ==
    ASSUME Before, After, pc # "idle", pc' \in {"idle", "scan"}, doc' = mem, mem' = mem,
           UNCHANGED <<ap, tasks, phase>>,
           status' \in Active => pc \notin {"cancelling", "stopping"},
           Caught' => Caught \/ NothingMoves \/ status' \notin Active,
           Executed' \subseteq Executed
    PROVE  CausalInv'
<1> SUFFICES ASSUME Closed(doc), Closed(mem), Ahead, HandReady, AtGates, Cancelled, Served,
                    NoOrphans, Traced
             PROVE  CausalInv'
  BY DEF Before, CausalInv
<1>0. Shapes
  BY Shaped DEF Before
<1>1. Persists(doc, mem)
  BY DEF Ahead
<1>2. status' \in Active => status \in Active
  BY ActiveKept
<1>3. Ahead'
  BY <1>1, DoomedKept, PersistsSame DEF Ahead
<1>4. HandReady' /\ Served'
  BY DEF HandReady, InHand, Served
<1>5. AtGates'
  <2> SUFFICES ASSUME NEW n \in Node, Type[n] = "approval"
               PROVE  AtGate(n, mem)'
    BY DEF AtGates, AtGate
  <2>1. AtGate(n, mem)
    BY DEF AtGates
  <2> QED BY <1>2, <2>1 DEF AtGate
<1>6. Cancelled'
  BY <1>2 DEF Cancelled
<1>7. NoOrphans'
  <2> SUFFICES ASSUME status' \in Active, Caught', NEW a \in ApId, ap[a].node # None
               PROVE  mem.states[ap[a].node] # "pending"
    BY DEF NoOrphans
  <2>1. ap[a].node \in Node /\ Settled(ap[a].node, doc)
    BY <1>0 DEF Traced, Shapes, RowTypes, ApRow
  <2>2. CASE Caught
    BY <1>2, <2>1, <2>2 DEF NoOrphans, Ahead
  <2>3. CASE NothingMoves
    BY <1>0, <1>1, <2>1, <2>3, SettledKept, SettledStarts DEF Shapes, RowTypes
  <2> QED BY <2>2, <2>3
<1>8. Traced'
  BY <1>1, TracedKept DEF Before, After, InHand, Writes
<1> QED BY <1>3, <1>4, <1>5, <1>6, <1>7, <1>8 DEF CausalInv

\* Stopping the nodes of the snapshot.
LEMMA StopsCausal ==
    ASSUME Before, After, NEW which \in SUBSET Unresolved, pc' \in {"cancelling", "stopping"},
           \A n \in Node : mem'.states[n] = IF mem.states[n] \in which THEN "cancelled"
                                            ELSE mem.states[n],
           mem'.apid = mem.apid, mem'.results = mem.results,
           \A a \in ApId : /\ ap[a].status = "pending" => ap'[a].status = "cancelled"
                           /\ ap[a].status # "pending" => ap'[a].status = ap[a].status
                           /\ ap'[a].node = ap[a].node,
           UNCHANGED <<status, doc, phase>>, tasks' \subseteq tasks,
           pc \in {"idle", "scan"}, Executed' \subseteq Executed
    PROVE  CausalInv'
<1> SUFFICES ASSUME Closed(doc), Closed(mem), Ahead, HandReady, AtGates, Cancelled, Served,
                    NoOrphans, Traced
             PROVE  CausalInv'
  BY DEF Before, CausalInv
<1>0. Shapes
  BY Shaped DEF Before
<1>1. Persists(mem, mem') /\ Persists(doc, mem')
  BY PersistsTrans DEF Persists, Ahead
<1>2. Closed(mem')
  BY <1>1, ClosedKept DEF Started
<1>3. Ahead'
  BY <1>1 DEF Ahead, InHand
<1>4. HandReady' /\ Served'
  BY DEF HandReady, InHand, Served
<1>5. AtGates'
  <2> SUFFICES ASSUME NEW n \in Node, Type[n] = "approval"
               PROVE  AtGate(n, doc)' /\ AtGate(n, mem)'
    BY DEF AtGates
  <2>1. /\ AtGate(n, doc) /\ doc.apid[n] \in ApId \cup {None}
        /\ AtGate(n, mem) /\ mem.apid[n] \in ApId \cup {None}
    BY <1>0 DEF AtGates, Shapes, RowTypes
  <2>2. AtGate(n, doc)'
    BY <2>1 DEF AtGate, Decision
  <2>3. AtGate(n, mem)'
    BY <2>1 DEF AtGate, Decision, Unresolved
  <2> QED BY <2>2, <2>3
<1>6. Cancelled'
  BY DEF Cancelled
<1>7. NoOrphans'
  BY DEF NoOrphans, Caught
<1>8. Traced'
  BY <1>0, PersistsSame, TracedKept DEF Before, After, InHand, Writes
<1> QED BY <1>2, <1>3, <1>4, <1>5, <1>6, <1>7, <1>8 DEF CausalInv

\* What the snapshot says of a node while the run is scanned, the row says too.
LEMMA SeenInRow ==
    ASSUME Ahead, Closed(doc), pc = "scan", NEW n \in Node, Resolved(n, mem), SomeFired(n, mem)
    PROVE  Settled(n, doc)
<1>1. SomeFired(n, doc) /\ AlmostSame(doc, mem)
  BY AlmostSameFired DEF Ahead
<1>2. \A e \in Into(n) : doc.states[e.from] \notin Unresolved \/ e.from \in Doomed(doc)
  BY <1>1, IntoFrom DEF Ahead, Resolved, AlmostSame, Unresolved
<1> QED BY <1>1, <1>2 DEF Settled

\* A node that ends within _start_node.
LEMMA EndNodeCausal ==
    ASSUME Before, After, NEW n \in Node, NEW d, pc = "scan", pc' = "scan", Ready(n),
           Type[n] # "approval", doc' = d, mem' = d,
           d.apid = mem.apid, d.states[n] \in {"done", "failed"},
           \A m \in Node \ {n} : d.states[m] = mem.states[m] /\ d.results[m] = mem.results[m],
           UNCHANGED <<ap, tasks, phase>>, Executed' \subseteq Executed
    PROVE  CausalInv'
<1> SUFFICES ASSUME Closed(doc), Closed(mem), Ahead, HandReady, AtGates, Cancelled, Served,
                    NoOrphans, Traced
             PROVE  CausalInv'
  BY DEF Before, CausalInv
<1>0. Shapes
  BY Shaped DEF Before
<1>1. mem.states[n] = "pending" /\ Resolved(n, mem) /\ SomeFired(n, mem)
  BY DEF Ready, SomeFired
<1>2. Persists(mem, d) /\ Persists(doc, d)
  <2>1. Persists(mem, d)
    BY <1>1 DEF Persists, Unresolved
  <2> QED BY <2>1, PersistsTrans DEF Ahead
<1>3. Closed(d)
  BY <1>1, <1>2, ClosedKept
<1>4. status' \in Active => status \in Active
  BY ActiveKept
<1>5. Ahead'
  <2>1. Doomed(doc) \subseteq Doomed(d)
    BY <1>2, DoomedKept
  <2> QED BY <2>1, PersistsSame DEF Ahead
<1>6. HandReady' /\ Served'
  BY DEF HandReady, InHand, Served
<1>7. AtGates'
  <2> SUFFICES ASSUME NEW m \in Node, Type[m] = "approval"
               PROVE  AtGate(m, d)'
    BY DEF AtGates, AtGate
  <2>1. AtGate(m, mem) /\ m # n
    BY DEF AtGates
  <2> QED BY <1>4, <2>1 DEF AtGate
<1>8. Cancelled'
  BY <1>4 DEF Cancelled
<1>9. NoOrphans'
  <2> SUFFICES ASSUME status' \in Active, Caught', NEW a \in ApId, ap[a].node # None
               PROVE  d.states[ap[a].node] # "pending"
    BY DEF NoOrphans
  <2>1. doc.states[ap[a].node] # "pending" /\ ap[a].node \in Node
    BY <1>0, <1>4 DEF NoOrphans, Caught, Shapes, RowTypes, ApRow
  <2> QED BY <2>1 DEF Ahead
<1>10. Traced'
  BY <1>2, <1>3, TracedKept DEF Before, After, InHand, Writes
<1> QED BY <1>3, <1>5, <1>6, <1>7, <1>8, <1>9, <1>10 DEF CausalInv

\* A node no edge fired into is doomed in the row before the snapshot skips it.
LEMMA SkipNodeCausal ==
    ASSUME Before, After, NEW n \in Node, SkipNode(n)
    PROVE  CausalInv'
<1> SUFFICES ASSUME Closed(doc), Closed(mem), Ahead, HandReady, AtGates, Cancelled, Served,
                    NoOrphans, Traced
             PROVE  CausalInv'
  BY DEF Before, CausalInv
<1>0. Shapes
  BY Shaped DEF Before
<1>1. /\ pc = "scan" /\ pc' = "scan" /\ mem.states[n] = "pending" /\ Resolved(n, mem)
      /\ Into(n) # {} /\ Fired(n, mem) = {}
      /\ UNCHANGED <<status, doc, ap, phase, tasks, cur>> /\ Executed' = Executed
  BY DEF SkipNode, Unreachable, rowVars, hubVars, Executed
<1>2. /\ mem'.states = [mem.states EXCEPT ![n] = "skipped"]
      /\ mem'.results = mem.results /\ mem'.apid = mem.apid
  <2>1. mem \in Doc /\ mem' = Finish(mem, n, "skipped")
    BY DEF SkipNode, Before, IInv, TypeOK
  <2> QED BY <2>1 DEF Finish, Doc
<1>3. Persists(mem, mem') /\ Persists(doc, mem') /\ AlmostSame(doc, mem')
  <2>1. Persists(mem, mem')
    BY <1>0, <1>1, <1>2 DEF Persists, Unresolved, Shapes, RowTypes
  <2>2. AlmostSame(doc, mem')
    BY <1>0, <1>1, <1>2 DEF AlmostSame, Ahead, Shapes, RowTypes
  <2> QED BY <2>1, <2>2, PersistsTrans DEF Ahead
<1>4. Closed(mem')
  BY <1>0, <1>1, <1>2, <1>3, ClosedKept DEF Started, Shapes, RowTypes
<1>5. n \in Doomed(doc)
  <2>1. ASSUME NEW e \in Into(n)
        PROVE  (doc.states[e.from] \notin Unresolved /\ ~Fires(e, doc)) \/ e.from \in Doomed(doc)
    <3>1. e.from \in Node /\ mem.states[e.from] \notin Unresolved /\ ~Fires(e, mem)
      BY <1>1, IntoFrom DEF Resolved, Fired
    <3>2. AlmostSame(doc, mem)
      BY <1>1 DEF Ahead
    <3> QED BY <3>1, <3>2 DEF Ahead, AlmostSame, Fires
  <2> QED BY <1>1, <2>1, DoomedFixed DEF Barred
<1>6. Ahead'
  BY <1>0, <1>1, <1>2, <1>3, <1>5 DEF Ahead, Shapes, RowTypes
<1>7. HandReady' /\ Served' /\ Cancelled' /\ NoOrphans'
  BY <1>0, <1>1, <1>2 DEF HandReady, InHand, Served, Cancelled, NoOrphans, Caught, Shapes, RowTypes
<1>8. AtGates'
  <2> SUFFICES ASSUME NEW m \in Node, Type[m] = "approval" PROVE AtGate(m, doc)' /\ AtGate(m, mem)'
    BY DEF AtGates
  <2>1. AtGate(m, doc) /\ AtGate(m, mem)
    BY DEF AtGates
  <2> QED BY <1>0, <1>1, <1>2, <2>1 DEF AtGate, Shapes, RowTypes
<1>9. Traced'
  BY <1>1, PersistsSame, TracedKept DEF Before, After, InHand, Writes
<1> QED BY <1>1, <1>4, <1>6, <1>7, <1>8, <1>9 DEF CausalInv

\* A new row is for a node the run's row shows to be settled.
LEMMA RequestApprovalCausal ==
    ASSUME Before, After, NEW n \in Node, RequestApproval(n)
    PROVE  CausalInv'
<1> SUFFICES ASSUME Closed(doc), Closed(mem), Ahead, HandReady, AtGates, Cancelled, Served,
                    NoOrphans, Traced
             PROVE  CausalInv'
  BY DEF Before, CausalInv
<1>0. Shapes
  BY Shaped DEF Before
<1>1. /\ pc = "scan" /\ pc' = "save" /\ mem.states[n] = "pending" /\ Resolved(n, mem)
      /\ SomeFired(n, mem) /\ Type[n] = "approval"
      /\ UNCHANGED <<status, doc, phase, tasks, cur>> /\ Executed' = Executed
  BY DEF RequestApproval, Starting, Ready, SomeFired, rowVars, hubVars, Executed
<1>2. PICK a \in ApId :
        /\ ap[a].status = "none" /\ ap' = [ap EXCEPT ![a] = [node |-> n, status |-> "pending"]]
        /\ mem'.states = [mem.states EXCEPT ![n] = "waiting"]
        /\ mem'.results = mem.results /\ mem'.apid = [mem.apid EXCEPT ![n] = a]
  BY DEF RequestApproval, FreeAp, Before, IInv, TypeOK, Doc
<1>3. /\ ap'[a].node = n /\ ap'[a].status = "pending" /\ \A x \in ApId \ {a} : ap'[x] = ap[x]
      /\ mem'.states[n] = "waiting" /\ mem'.apid[n] = a /\ a # None
      /\ \A m \in Node \ {n} : mem'.states[m] = mem.states[m] /\ mem'.apid[m] = mem.apid[m]
  BY <1>0, <1>2 DEF Shapes, RowTypes
<1>4. Persists(mem, mem') /\ Persists(doc, mem')
  <2>1. Persists(mem, mem')
    BY <1>1, <1>2, <1>3 DEF Persists, Unresolved
  <2> QED BY <2>1, PersistsTrans DEF Ahead
<1>5. Closed(mem')
  BY <1>1, <1>3, <1>4, ClosedKept
<1>6. Ahead'
  BY <1>1, <1>3, <1>4 DEF Ahead, InHand
<1>7. HandReady' /\ Served' /\ Cancelled'
  BY <1>1, <1>3 DEF HandReady, InHand, Served, Cancelled
<1>8. NoOrphans'
  <2> SUFFICES ASSUME status \in Active, phase = "serving", NEW x \in ApId, ap'[x].node # None
               PROVE  doc.states[ap'[x].node] # "pending" \/ mem'.states[ap'[x].node] # "pending"
    BY <1>1 DEF NoOrphans, Caught
  <2>1. CASE x = a
    BY <1>3, <2>1
  <2>2. CASE x # a
    BY <1>1, <1>3, <2>2 DEF NoOrphans, Caught
  <2> QED BY <2>1, <2>2
<1>9. AtGates'
  <2> SUFFICES ASSUME NEW m \in Node, Type[m] = "approval" PROVE AtGate(m, doc)' /\ AtGate(m, mem)'
    BY DEF AtGates
  <2>1. /\ AtGate(m, doc) /\ doc.apid[m] \in ApId \cup {None}
        /\ AtGate(m, mem) /\ mem.apid[m] \in ApId \cup {None}
    BY <1>0 DEF AtGates, Shapes, RowTypes
  <2>2. AtGate(m, doc)'
    BY <1>1, <1>2, <1>3, <2>1 DEF AtGate, Decision
  <2>3. AtGate(m, mem)'
    BY <1>1, <1>2, <1>3, <2>1 DEF AtGate, Decision
  <2> QED BY <2>2, <2>3
<1>10. Traced'
  <2>1. Settled(n, doc)
    BY <1>1, SeenInRow
  <2> QED BY <1>1, <1>3, <2>1, PersistsSame, TracedKept DEF Before, After, InHand, Writes
<1> QED BY <1>1, <1>5, <1>6, <1>7, <1>8, <1>9, <1>10 DEF CausalInv

\* A write or a launch is under way for a node the row shows to be settled, and cleared.
LEMMA GoCausal ==
    ASSUME Before, After, NEW n \in Node, NEW to \in {"journal", "write", "launch"}, NEW full,
           pc = "scan", Ready(n), Type[n] \in {"tool", "agent_task"},
           to # "launch" \/ full => n \in MockEnv \/ ApprovedOnPath(n, mem), Go(to, n, full)
    PROVE  CausalInv'
<1> SUFFICES ASSUME Closed(doc), Closed(mem), Ahead, HandReady, AtGates, Cancelled, Served,
                    NoOrphans, Traced
             PROVE  CausalInv'
  BY DEF Before, CausalInv
<1>1. /\ pc' = to /\ cur' = [node |-> n, full |-> full] /\ Executed' = Executed
      /\ UNCHANGED <<status, doc, mem, ap, phase, tasks>>
  BY DEF Go, rowVars, hubVars, Executed
<1>2. Ahead' /\ HandReady'
  BY <1>1 DEF Ahead, HandReady, InHand, Ready
<1>3. Served' /\ Cancelled' /\ NoOrphans'
  BY <1>1 DEF Served, Cancelled, NoOrphans, Caught
<1>4. AtGates'
  BY <1>1 DEF AtGates, AtGate
<1>5. Traced'
  <2>1. Settled(n, doc)
    BY SeenInRow DEF Ready, SomeFired
  <2>2. Writes' => n \in MockEnv \/ ApprovedOnPath(n, doc)
    BY <1>1, AlmostSameFired DEF Ahead, Writes
  <2> QED BY <1>1, <2>1, <2>2, PersistsSame, TracedKept DEF Before, After
<1> QED BY <1>1, <1>2, <1>3, <1>4, <1>5 DEF CausalInv

\* A record on the row touches neither its states, nor its results, nor its gates.
SameBarRecords == doc'.states = doc.states /\ doc'.results = doc.results /\ doc'.apid = doc.apid

LEMMA OnRowSame ==
    ASSUME IInv, doc' = doc \/ \E n, record : doc' = OnRow(n, record)
    PROVE  SameBarRecords
BY DEF SameBarRecords, OnRow, IInv, TypeOK, Doc

\* The node in hand has recorded a write, or written: the snapshot is not touched.
LEMMA HandStaysCausal ==
    ASSUME Before, After, InHand, pc' \in {"write", "record"}, Writes, SameBarRecords,
           UNCHANGED <<status, mem, ap, phase, tasks, cur>>,
           \A n \in Executed' : n \in Executed \/ n = cur.node
    PROVE  CausalInv'
<1> SUFFICES ASSUME Closed(doc), Closed(mem), Ahead, HandReady, AtGates, Cancelled, Served,
                    NoOrphans, Traced
             PROVE  CausalInv'
  BY DEF Before, CausalInv
<1>0. Shapes
  BY Shaped DEF Before
<1>1. InHand' /\ Writes' /\ pc # "save" /\ pc # "idle"
  BY DEF InHand, Writes
<1>2. doc'.states = doc.states /\ doc'.results = doc.results /\ doc'.apid = doc.apid
  BY DEF SameBarRecords
<1>3. Persists(doc, doc')
  BY <1>2 DEF Persists
<1>4. Closed(doc')
  BY <1>2, <1>3, ClosedKept
<1>5. Ahead'
  <2>1. Doomed(doc) \subseteq Doomed(doc')
    BY <1>3, DoomedKept
  <2> QED BY <1>1, <1>2, <2>1 DEF Ahead, Persists, AlmostSame
<1>6. HandReady' /\ Served' /\ Cancelled' /\ NoOrphans'
  BY <1>1, <1>2 DEF HandReady, InHand, Ready, Served, Cancelled, NoOrphans, Caught
<1>7. AtGates'
  BY <1>1, <1>2 DEF AtGates, AtGate
<1>8. Traced'
  <2>1. \A n \in Executed' : n \in Executed \/ (Settled(n, doc) /\ ApprovedOnPath(n, doc))
    BY DEF Traced, Executed
  <2> QED BY <1>0, <1>1, <1>3, <1>4, <2>1, TracedKept DEF Before, After, Traced, Shapes
<1> QED BY <1>1, <1>4, <1>5, <1>6, <1>7, <1>8 DEF CausalInv

\* The node in hand has written, failed, or launched its heartbeat.
LEMMA HandEndsCausal ==
    ASSUME Before, After, InHand, pc' = "save",
           mem'.states[cur.node] \in {"done", "failed", "running", "deferred"},
           \A m \in Node \ {cur.node} : /\ mem'.states[m] = mem.states[m]
                                        /\ mem'.results[m] = mem.results[m],
           mem'.apid = mem.apid, SameBarRecords, UNCHANGED <<status, ap, phase, cur>>,
           \A a \in ApId : DecideTask(a) \in tasks' => DecideTask(a) \in tasks,
           \A n \in Executed' : n \in Executed \/ (Writes /\ n = cur.node)
    PROVE  CausalInv'
<1> SUFFICES ASSUME Closed(doc), Closed(mem), Ahead, HandReady, AtGates, Cancelled, Served,
                    NoOrphans, Traced
             PROVE  CausalInv'
  BY DEF Before, CausalInv
<1>0. Shapes
  BY Shaped DEF Before
<1>1. /\ cur.node \in Node /\ mem.states[cur.node] = "pending" /\ Resolved(cur.node, mem)
      /\ SomeFired(cur.node, mem) /\ Type[cur.node] # "approval" /\ pc # "idle"
  BY <1>0 DEF HandReady, Ready, SomeFired, Shapes, InHand
<1>2. Persists(mem, mem') /\ Persists(doc', mem') /\ Persists(doc, doc')
  <2>1. Persists(mem, mem')
    BY <1>1 DEF Persists, Unresolved
  <2>2. Persists(doc, mem')
    BY <2>1, PersistsTrans DEF Ahead
  <2> QED BY <2>1, <2>2 DEF Persists, SameBarRecords
<1>3. Closed(mem') /\ Closed(doc')
  <2>1. Closed(mem')
    BY <1>1, <1>2, ClosedKept
  <2>2. Closed(doc')
    BY <1>2, ClosedKept DEF SameBarRecords
  <2> QED BY <2>1, <2>2
<1>4. Ahead'
  <2>1. Doomed(doc) \subseteq Doomed(doc')
    BY <1>2, DoomedKept
  <2> QED BY <1>1, <1>2, <2>1 DEF Ahead, InHand, SameBarRecords
<1>5. HandReady' /\ Served' /\ Cancelled'
  BY <1>1 DEF HandReady, InHand, Served, Cancelled, SameBarRecords
<1>6. NoOrphans'
  BY DEF NoOrphans, Caught, InHand, SameBarRecords
<1>7. AtGates'
  <2> SUFFICES ASSUME NEW m \in Node, Type[m] = "approval" PROVE AtGate(m, doc)' /\ AtGate(m, mem)'
    BY DEF AtGates
  <2>1. /\ AtGate(m, doc) /\ doc.apid[m] \in ApId \cup {None} /\ m # cur.node
        /\ AtGate(m, mem) /\ mem.apid[m] \in ApId \cup {None}
    BY <1>0, <1>1 DEF AtGates, Shapes, RowTypes
  <2> QED BY <2>1 DEF AtGate, SameBarRecords
<1>8. Traced'
  <2>1. \A n \in Executed' : n \in Executed \/ (Settled(n, doc) /\ ApprovedOnPath(n, doc))
    BY DEF Traced, Executed
  <2> QED BY <1>2, <1>3, <2>1, TracedKept DEF Before, After, InHand, Writes
<1> QED BY <1>3, <1>4, <1>5, <1>6, <1>7, <1>8 DEF CausalInv

-----------------------------------------------------------------------------
(* Every step keeps the invariant *)

LEMMA StartNodeCausal ==
    ASSUME Before, After, NEW n \in Node, StartNode(n)
    PROVE  CausalInv'
<1>1. mem \in Doc /\ pc = "scan" /\ Ready(n)
  BY DEF Before, IInv, TypeOK, StartNode, Starting, PassThrough, EvaluateCondition,
         RequestApproval, CallReadTool, GateWriteTool, ResolveAgent
<1>2. ASSUME Type[n] # "approval", NEW st \in {"done", "failed"}, NEW r,
             NEW d \in {Finish(mem, n, st), FinishAs(mem, n, st, r)}, EndNode(d)
      PROVE  CausalInv'
  <2>1. /\ d.apid = mem.apid /\ d.states = [mem.states EXCEPT ![n] = st]
        /\ \A m \in Node \ {n} : d.results[m] = mem.results[m]
    BY <1>1, <1>2 DEF Finish, FinishAs, Doc
  <2>2. d.states[n] \in {"done", "failed"} /\ \A m \in Node \ {n} : d.states[m] = mem.states[m]
    BY <1>1, <2>1 DEF Doc
  <2>3. /\ doc' = d /\ mem' = d /\ pc' = "scan" /\ UNCHANGED <<ap, tasks, phase>>
        /\ Executed' = Executed
    BY <1>1, <1>2 DEF EndNode, Save, hubVars, Executed
  <2>4. d.apid = mem.apid
        /\ \A m \in Node \ {n} : d.states[m] = mem.states[m] /\ d.results[m] = mem.results[m]
    BY <2>1, <2>2
  <2> QED BY <1>1, <1>2, <2>2, <2>3, <2>4, EndNodeCausal
<1>3. CASE PassThrough(n) \/ EvaluateCondition(n) \/ CallReadTool(n)
  BY <1>2, <1>3 DEF PassThrough, EvaluateCondition, CallReadTool, Starting
<1>4. CASE RequestApproval(n)
  BY <1>4, RequestApprovalCausal
<1>5. CASE GateWriteTool(n)
  <2>1. Type[n] = "tool"
    BY <1>5 DEF GateWriteTool, Starting
  <2>2. CASE /\ ToolAllowed(n)
             /\ Go(IF n \in Creates \cup Executes THEN "write" ELSE "journal", n, TRUE)
    BY <1>1, <2>1, <2>2, GoCausal DEF ToolAllowed
  <2> QED BY <1>2, <1>5, <2>1, <2>2 DEF GateWriteTool
<1>6. CASE ResolveAgent(n)
  <2>1. Type[n] = "agent_task"
    BY <1>6 DEF ResolveAgent, Starting
  <2>2. CASE AgentAllowed(n) /\ Go("launch", n, FullMode(n, agentMode[AgentOf[n]]))
    BY <1>1, <2>1, <2>2, GoCausal DEF AgentAllowed
  <2> QED BY <1>2, <1>6, <2>1, <2>2 DEF ResolveAgent
<1> QED BY <1>3, <1>4, <1>5, <1>6 DEF StartNode

LEMMA SavesCausal ==
    ASSUME Before, After, SaveNode \/ SaveStopped \/ EndAdvance
    PROVE  CausalInv'
<1>1. CASE SaveNode
  BY <1>1, SavedCausal DEF SaveNode, Save, hubVars, Executed, Caught
<1>2. CASE SaveStopped
  BY <1>2, SavedCausal DEF SaveStopped, Save, hubVars, Executed, Active
<1>3. CASE EndAdvance
  BY <1>3, SavedCausal DEF EndAdvance, Save, hubVars, Executed
<1> QED BY <1>1, <1>2, <1>3

\* Stopping leaves the results, and the nodes and modes of the heartbeats.
LEMMA StopResults ==
    ASSUME IInv, NEW which, StopNodes(mem, which), wrote' = wrote
    PROVE  mem'.results = mem.results /\ Executed' = Executed
<1>1. mem'.results = mem.results
  BY DEF StopNodes, IInv, TypeOK, Doc
<1>2. \A h \in HbId : hb'[h].node = hb[h].node /\ hb'[h].full = hb[h].full
  BY DEF StopNodes, IInv, TypeOK, HbRow
<1> QED BY <1>1, <1>2 DEF Executed

LEMMA StoppingCausal ==
    ASSUME Before, After,
           StopSiblings \/ (pc = "idle" /\ \E t \in {AdvanceTask, CancelTask} : Cancelling(t))
    PROVE  CausalInv'
<1>1. PICK which \in SUBSET Unresolved : StopNodes(mem, which)
  BY DEF StopSiblings, Cancelling, Before, RowsInv, IdleSame, Unresolved
<1>2. /\ pc \in {"idle", "scan"} /\ pc' \in {"cancelling", "stopping"}
      /\ UNCHANGED <<status, doc, phase, wrote>> /\ tasks' \subseteq tasks
  BY DEF StopSiblings, Cancelling, rowVars, hubVars
<1>3. mem'.results = mem.results /\ Executed' = Executed
  BY <1>1, <1>2, StopResults DEF Before
<1>4. /\ \A n \in Node : mem'.states[n] = IF mem.states[n] \in which THEN "cancelled"
                                          ELSE mem.states[n]
      /\ mem'.apid = mem.apid
      /\ \A a \in ApId : /\ ap[a].status = "pending" => ap'[a].status = "cancelled"
                         /\ ap[a].status # "pending" => ap'[a].status = ap[a].status
                         /\ ap'[a].node = ap[a].node
  BY <1>1, StopFields DEF Before
<1> QED BY <1>2, <1>3, <1>4, StopsCausal

LEMMA HandCausal ==
    ASSUME Before, After,
           \/ Journal \/ Write \/ RecordCreate \/ DispatchFails
           \/ LaunchRefused \/ LaunchCoalesced \/ LaunchStarted
    PROVE  CausalInv'
<1>0. mem \in Doc /\ InHand /\ cur.node \in Node
      /\ wrote \in [Node -> 0 .. MaxWrite] /\ hb \in [HbId -> HbRow]
  BY DEF Before, IInv, TypeOK, Backed, InHand, Journal, Write, RecordCreate, DispatchFails,
         LaunchRefused, LaunchCoalesced, LaunchStarted
<1> DEFINE Call(j, st) == Returned(cur.node, j, st)
           Called == \E j : \E st \in {"done", "failed"} : Call(j, st)
<1>1. CASE Journal \/ Write \/ RecordCreate \/ DispatchFails
  <2>1. Writes /\ SameBarRecords /\ UNCHANGED <<status, ap, phase, tasks, cur>>
    BY <1>1, OnRowSame
       DEF Before, Journal, Write, RecordCreate, DispatchFails, Returned, Writes, hubVars
  <2>2. \A n \in Executed' : n \in Executed \/ n = cur.node
    <3>1. hb' = hb /\ \A n \in Node : n # cur.node => wrote'[n] = wrote[n]
      BY <1>0, <1>1 DEF Journal, Write, RecordCreate, DispatchFails, Returned
    <3> QED BY <3>1 DEF Executed
  <2>3. CASE pc' \in {"write", "record"} /\ mem' = mem
    BY <1>0, <2>1, <2>2, <2>3, HandStaysCausal
  <2>4. CASE Called
    <3>1. /\ pc' = "save" /\ mem'.apid = mem.apid
          /\ mem'.states[cur.node] \in {"done", "failed"}
          /\ \A m \in Node \ {cur.node} : /\ mem'.states[m] = mem.states[m]
                                          /\ mem'.results[m] = mem.results[m]
      BY <1>0, <2>4 DEF Returned, Doc
    <3> QED BY <1>0, <2>1, <2>2, <3>1, HandEndsCausal
  <2> QED BY <1>1, <2>3, <2>4 DEF Journal, Write, RecordCreate, DispatchFails
<1>2. CASE LaunchRefused \/ LaunchCoalesced \/ LaunchStarted
  <2>1. /\ pc' = "save" /\ UNCHANGED <<status, doc, ap, phase, cur>>
        /\ \A a \in ApId : DecideTask(a) \in tasks' => DecideTask(a) \in tasks
    BY <1>2 DEF LaunchRefused, LaunchCoalesced, LaunchStarted, rowVars, hubVars, DecideTask,
                RetryTask
  <2>2. /\ mem'.states[cur.node] \in {"failed", "running", "deferred"}
        /\ mem'.apid = mem.apid
        /\ \A m \in Node \ {cur.node} : /\ mem'.states[m] = mem.states[m]
                                        /\ mem'.results[m] = mem.results[m]
    <3>1. CASE LaunchRefused \/ LaunchCoalesced
      BY <1>0, <3>1 DEF LaunchRefused, LaunchCoalesced, Finish, Doc
    <3>2. CASE LaunchStarted
      BY <1>0, <3>2 DEF LaunchStarted, Doc
    <3> QED BY <1>2, <3>1, <3>2
  <2>3. \A n \in Executed' : n \in Executed \/ (Writes /\ n = cur.node)
    <3>1. CASE LaunchRefused \/ LaunchCoalesced
      BY <3>1 DEF LaunchRefused, LaunchCoalesced, Executed
    <3>2. CASE LaunchStarted
      <4>1. PICK h \in HbId : NewHeartbeat(h, AgentOf[cur.node], cur.node, cur.full)
        BY <3>2 DEF LaunchStarted, FreeHb
      <4>2. /\ hb'[h].node = cur.node /\ hb'[h].full = cur.full
            /\ \A x \in HbId \ {h} : hb'[x] = hb[x]
        BY <1>0, <4>1 DEF NewHeartbeat
      <4> QED BY <3>2, <4>2 DEF LaunchStarted, Executed, Writes
    <3> QED BY <1>2, <3>1, <3>2
  <2> QED BY <1>0, <2>1, <2>2, <2>3, HandEndsCausal DEF SameBarRecords
<1> QED BY <1>1, <1>2

LEMMA HolderCausal ==
    ASSUME Before, After, Holder
    PROVE  CausalInv'
BY SkipNodeCausal, StartNodeCausal, SavesCausal, StoppingCausal, HandCausal
   DEF Holder

\* The decision that finds the run where it left it finds its node waiting.
LEMMA DecidedNode ==
    ASSUME Before, NEW a \in ApId, LockFor(DecideTask(a)), status \in Active,
           doc.apid[ap[a].node] \in {None, a}
    PROVE  /\ ap[a].node \in Node /\ Type[ap[a].node] = "approval"
           /\ doc.states[ap[a].node] = "waiting" /\ doc.apid[ap[a].node] = a
           /\ ap[a].status \in Decision
<1> DEFINE n == ap[a].node
<1>0. Shapes /\ Typed
  BY Shaped DEF Before, RowsInv
<1>1. pc = "idle" /\ mem = doc /\ DecideTask(a) \in tasks /\ ap[a].status \in Decision
  BY DEF LockFor, Before, RowsInv, IdleSame, IInv, Backed
<1>2. n \in Node /\ n # None /\ Type[n] = "approval" /\ AtGate(n, doc)
  BY <1>0, <1>1 DEF Shapes, Typed, Decision, Before, CausalInv, AtGates
<1>3. doc.states[n] # "pending"
  BY <1>1, <1>2 DEF Before, CausalInv, NoOrphans, Served, Caught
<1>4. doc.states[n] # "skipped"
  <2>1. Settled(n, doc)
    BY <1>2 DEF Before, CausalInv, Traced
  <2>2. doc.states[n] = "skipped" => n \in Doomed(doc)
    BY <1>1, <1>2 DEF Before, CausalInv, Ahead
  <2> QED BY <2>1, <2>2, DoomedIdle DEF Before, CausalInv, Settled, SomeFired
<1>5. doc.states[n] \notin {"cancelled", "failed", "running", "deferred"}
  BY <1>0, <1>2 DEF Before, CausalInv, Cancelled, AtGate, Typed
<1>6. doc.states[n] # "done"
  BY <1>1, <1>2 DEF AtGate
<1>7. doc.states[n] = "waiting"
  BY <1>0, <1>2, <1>3, <1>4, <1>5, <1>6 DEF Shapes, RowTypes, NodeStatus, Unresolved
<1> QED BY <1>1, <1>2, <1>7 DEF AtGate

LEMMA ExpiredNode ==
    ASSUME Before, NEW a \in ApId, LockFor(ExpiredTask(a)), status \in Active,
           doc.apid[ap[a].node] = a
    PROVE  ap[a].node \in Node /\ Type[ap[a].node] = "approval"
           /\ doc.states[ap[a].node] = "waiting"
<1> DEFINE n == ap[a].node
<1>0. Shapes /\ Typed
  BY Shaped DEF Before, RowsInv
<1>1. ap[a].status = "expired"
  BY DEF LockFor, Before, RowsInv, ExpiredBacked
<1>2. n \in Node /\ Type[n] = "approval" /\ AtGate(n, doc) /\ a # None
  BY <1>0, <1>1 DEF Shapes, Typed, Before, CausalInv, AtGates
<1> QED BY <1>1, <1>2 DEF AtGate, Decision, Before, CausalInv, Cancelled

\* A section that moves one node on.
LEMMA MovesOnCausal ==
    ASSUME Before, After, NEW t, NEW n \in Node, NEW d, NEW st, NEW next, pc = "idle",
           Section(t, d, st, next), next = {AdvanceTask} \/ st \notin Active,
           next \subseteq {AdvanceTask}, st \in Active => status \in Active,
           doc.states[n] \in {"deferred", "running", "waiting"},
           \A m \in Node \ {n} : d.states[m] = doc.states[m] /\ d.results[m] = doc.results[m],
           d.apid = doc.apid,
           d.states[n] \in {"done", "failed"}
             \/ (d.states[n] = "pending" /\ Type[n] # "approval"),
           Type[n] = "approval" => AtGate(n, doc)'
    PROVE  CausalInv'
<1>1. /\ doc' = d /\ mem' = d /\ status' = st /\ pc' = "idle" /\ tasks' = (tasks \ {t}) \cup next
      /\ UNCHANGED <<ap, phase>> /\ Executed' = Executed
  BY DEF Section, Save, hubVars, Executed
<1>2. \A a \in ApId : DecideTask(a) \in tasks' => DecideTask(a) \in tasks /\ phase' = phase
  BY <1>1 DEF DecideTask, AdvanceTask
<1>3. Caught' /\ status' \in Active => Caught /\ pc = "idle"
  BY <1>1 DEF Caught
<1> QED BY <1>1, <1>2, <1>3, SectionCausal

\* A section that returns without writing.
LEMMA ReturnCausal ==
    ASSUME Before, After, NEW t, pc = "idle", Return(t), t = AdvanceTask => status \notin Active
    PROVE  CausalInv'
<1>1. UNCHANGED <<status, doc, mem, pc, cur, ap, hb, wrote, phase>> /\ tasks' = tasks \ {t}
  BY DEF Return, rowVars, lockVars, hubVars
<1>2. \A a \in ApId : DecideTask(a) \in tasks' => phase' = "serving" /\ DecideTask(a) \in tasks
  BY <1>1 DEF Before, CausalInv, Served
<1>3. Executed' = Executed /\ (Caught' /\ status' \in Active => Caught)
  BY <1>1 DEF Executed, Caught
<1> QED BY <1>1, <1>2, <1>3, AsideCausal

LEMMA WaiterCausal ==
    ASSUME Before, After, Waiter
    PROVE  CausalInv'
<1>0. doc \in Doc /\ doc.states \in [Node -> NodeStatus]
  BY DEF Before, IInv, TypeOK, Doc
<1>1. CASE Advance
  <2>1. pc = "idle"
    BY <1>1 DEF Advance, LockFor
  <2>2. CASE status \notin Active /\ Return(AdvanceTask)
    BY <2>1, <2>2, ReturnCausal
  <2>3. CASE Cancelling(AdvanceTask)
    BY <2>1, <2>3, StoppingCausal
  <2>4. CASE /\ pc' = "scan" /\ mem' = doc /\ tasks' = tasks \ {AdvanceTask}
             /\ UNCHANGED <<rowVars, ap, hb, hubVars, cur, runners, wrote>>
    <3>1. /\ UNCHANGED <<status, doc, ap, phase>> /\ Executed' = Executed
          /\ Caught' => Caught
          /\ \A a \in ApId : DecideTask(a) \in tasks' => DecideTask(a) \in tasks
      BY <2>4 DEF rowVars, hubVars, Executed, Caught
    <3> QED BY <2>1, <2>4, <3>1, SectionCausal
  <2> QED BY <1>1, <2>2, <2>3, <2>4 DEF Advance
<1>2. CASE CancelLocked
  BY <1>2, ReturnCausal, StoppingCausal DEF CancelLocked, LockFor
<1>3. ASSUME NEW a \in ApId, DecideLocked(a) PROVE CausalInv'
  <2>1. LockFor(DecideTask(a)) /\ pc = "idle" /\ DecideTask(a) # AdvanceTask
    BY <1>3 DEF DecideLocked, LockFor, DecideTask, AdvanceTask
  <2>2. CASE Return(DecideTask(a))
    BY <2>1, <2>2, ReturnCausal
  <2>3. ASSUME status \in Active, doc.apid[ap[a].node] \in {None, a},
               NEW st \in {status, "rejected"},
               Section(DecideTask(a), FinishAs(doc, ap[a].node, "done", ap[a].status), st,
                       {AdvanceTask})
        PROVE  CausalInv'
    <3>1. PICK n \in Node :
             /\ n = ap[a].node /\ Type[n] = "approval" /\ doc.states[n] = "waiting"
             /\ doc.apid[n] = a /\ ap[a].status \in Decision
      BY <2>1, <2>3, DecidedNode
    <3> DEFINE d == FinishAs(doc, n, "done", ap[a].status)
    <3>2. /\ d.apid = doc.apid /\ d.states[n] = "done"
          /\ \A m \in Node \ {n} : d.states[m] = doc.states[m] /\ d.results[m] = doc.results[m]
      BY <1>0, <3>1 DEF FinishAs, Doc
    <3>3. /\ doc' = d /\ ap' = ap /\ status' = st
          /\ tasks' = (tasks \ {DecideTask(a)}) \cup {AdvanceTask}
      BY <2>3, <3>1 DEF Section, Save
    <3>4. AtGate(n, doc)'
      <4>1. a # None /\ DecideTask(a) \notin tasks'
        BY <2>1, <3>3, IdAssumption DEF IdAssumption
      <4> QED BY <3>1, <3>2, <3>3, <4>1 DEF AtGate, Decision
    <3>5. status' \in Active => status \in Active
      BY <2>3
    <3>6. Section(DecideTask(a), d, st, {AdvanceTask})
      BY <2>3, <3>1
    <3> HIDE DEF d
    <3> QED BY <2>1, <3>1, <3>2, <3>3, <3>4, <3>5, <3>6, MovesOnCausal
  <2> QED BY <1>3, <2>2, <2>3 DEF DecideLocked
<1>4. ASSUME NEW a \in ApId, ApprovalExpired(a) PROVE CausalInv'
  <2>1. LockFor(ExpiredTask(a)) /\ pc = "idle" /\ ExpiredTask(a) # AdvanceTask
    BY <1>4 DEF ApprovalExpired, LockFor, ExpiredTask, AdvanceTask
  <2>2. CASE Return(ExpiredTask(a))
    BY <2>1, <2>2, ReturnCausal
  <2>3. CASE /\ status \in Active /\ doc.apid[ap[a].node] = a
             /\ Section(ExpiredTask(a), Finish(doc, ap[a].node, "failed"), "failed", {})
    <3>1. PICK n \in Node : /\ n = ap[a].node /\ Type[n] = "approval"
                            /\ doc.states[n] = "waiting" /\ AtGate(n, doc)
      BY <2>1, <2>3, ExpiredNode DEF Before, CausalInv, AtGates
    <3> DEFINE d == Finish(doc, n, "failed")
    <3>2. /\ d.apid = doc.apid /\ d.states[n] = "failed" /\ d.results = doc.results
          /\ \A m \in Node \ {n} : d.states[m] = doc.states[m]
      BY <1>0, <3>1 DEF Finish, Doc
    <3>3. doc' = d /\ ap' = ap /\ status' = "failed" /\ "failed" \notin Active
      BY <2>3, <3>1 DEF Section, Save, Active
    <3>4. AtGate(n, doc)'
      BY <3>1, <3>2, <3>3 DEF AtGate
    <3>5. Section(ExpiredTask(a), d, "failed", {})
      BY <2>3, <3>1
    <3> HIDE DEF d
    <3> QED BY <2>1, <3>1, <3>2, <3>3, <3>4, <3>5, MovesOnCausal
  <2> QED BY <1>4, <2>2, <2>3 DEF ApprovalExpired
<1>5. ASSUME NEW n \in Node, RetryLater(n) PROVE CausalInv'
  <2>1. pc = "idle" /\ mem = doc
    BY <1>5 DEF RetryLater, LockFor, Before, RowsInv, IdleSame
  <2>2. CASE /\ status \in Active /\ doc.states[n] = "deferred"
             /\ Section(RetryTask(n), Finish(doc, n, "pending"), status, {AdvanceTask})
    <3>1. Type[n] # "approval"
      BY <2>2 DEF Before, RowsInv, Typed
    <3>2. LET d == Finish(doc, n, "pending")
          IN  /\ d.apid = doc.apid /\ d.states[n] = "pending" /\ d.results = doc.results
              /\ \A m \in Node \ {n} : d.states[m] = doc.states[m]
      BY <1>0 DEF Finish, Doc
    <3> QED BY <2>1, <2>2, <3>1, <3>2, MovesOnCausal
  <2>3. CASE Section(RetryTask(n), doc, status, {AdvanceTask})
    <3>1. /\ doc' = doc /\ mem' = doc /\ pc' = "idle" /\ UNCHANGED <<status, ap, phase>>
          /\ Executed' = Executed /\ (Caught' => Caught)
          /\ \A a \in ApId : DecideTask(a) \in tasks' => DecideTask(a) \in tasks
      BY <2>1, <2>3 DEF Section, Save, hubVars, Executed, Caught, DecideTask, AdvanceTask
    <3> QED BY <2>1, <3>1, SectionCausal
  <2> QED BY <1>5, <2>2, <2>3 DEF RetryLater
<1>6. ASSUME NEW n \in Node, NEW h \in HbId, HeartbeatDone(n, h) PROVE CausalInv'
  <2>1. pc = "idle" /\ DoneTask(n, h) # AdvanceTask /\ hb[h].status \in {"done", "failed"}
    BY <1>6 DEF HeartbeatDone, LockFor, DoneTask, AdvanceTask, Before, IInv, Backed
  <2>2. CASE Return(DoneTask(n, h))
    BY <2>1, <2>2, ReturnCausal
  <2>3. CASE /\ status \in Active /\ doc.states[n] = "running"
             /\ Section(DoneTask(n, h), FinishAs(doc, n, hb[h].status, "ok"), status,
                        {AdvanceTask})
    <3>1. Type[n] # "approval"
      BY <2>3 DEF Before, RowsInv, Typed
    <3>2. LET d == FinishAs(doc, n, hb[h].status, "ok")
          IN  /\ d.apid = doc.apid /\ d.states[n] \in {"done", "failed"}
              /\ \A m \in Node \ {n} : d.states[m] = doc.states[m] /\ d.results[m] = doc.results[m]
      BY <1>0, <2>1 DEF FinishAs, Doc
    <3> QED BY <2>1, <2>3, <3>1, <3>2, MovesOnCausal
  <2> QED BY <1>6, <2>2, <2>3 DEF HeartbeatDone
<1> QED BY <1>1, <1>2, <1>3, <1>4, <1>5, <1>6 DEF Waiter

LEMMA RecoveryCausal ==
    ASSUME Before, After, Recovery
    PROVE  CausalInv'
<1>1. CASE Restart \/ Serve
  <2>1. /\ UNCHANGED <<status, doc, mem, pc, cur, ap, tasks>> /\ Executed' = Executed
        /\ Caught' => Caught
        /\ phase # "serving"
    BY <1>1 DEF Restart, Serve, Enter, rowVars, lockVars, Executed, Caught
  <2>2. \A a \in ApId : DecideTask(a) \notin tasks'
    BY <2>1 DEF Before, CausalInv, Served
  <2> QED BY <2>1, <2>2, AsideCausal
<1>2. CASE Reconcile /\ status \notin Active
  <2>1. /\ UNCHANGED <<status, doc, mem, pc, cur, ap, tasks>> /\ Executed' = Executed
        /\ tasks = {}
    BY <1>2 DEF Reconcile, Enter, Executed
  <2> QED BY <1>2, <2>1, AsideCausal
<1>3. CASE Reconcile /\ status \in Active
  <2>1. /\ pc = "idle" /\ pc' = "idle" /\ mem' = doc' /\ phase' = "resuming"
        /\ UNCHANGED <<status, ap>> /\ Executed' = Executed
        /\ AdvanceTask \in tasks' /\ \A a \in ApId : DecideTask(a) \notin tasks'
    BY <1>3 DEF Reconcile, Save, Enter, Executed, DecideTask, AdvanceTask, WatchTask
  <2>2. /\ doc'.apid = doc.apid /\ doc'.results = doc.results
        /\ \A n \in Node : doc'.states[n] = IF doc.states[n] = "deferred" THEN "pending"
                                            ELSE doc.states[n]
    BY <1>3 DEF Reconcile, Save, Before, IInv, TypeOK, Doc
  <2>3. \A n \in Node : doc.states[n] = "deferred" => Type[n] # "approval"
    BY DEF Before, RowsInv, Typed
  <2>4. ~Caught'
    BY <2>1 DEF Caught
  <2> QED BY <2>1, <2>2, <2>3, <2>4, SectionCausal
<1> QED BY <1>1, <1>2, <1>3 DEF Recovery

LEMMA HeartbeatsCausal ==
    ASSUME Before, After, Heartbeats
    PROVE  CausalInv'
<1>1. UNCHANGED <<status, doc, mem, pc, cur, ap, phase>>
  BY DEF Heartbeats, RunnerEnds, OutcomeLost, Watchdog, WatchSees, rowVars, lockVars, hubVars
<1>2. Executed' = Executed
  <2>1. hb \in [HbId -> HbRow]
    BY DEF Before, IInv, TypeOK
  <2>2. wrote' = wrote
    BY DEF Heartbeats, RunnerEnds, OutcomeLost, Watchdog, WatchSees
  <2>3. \A h \in HbId : hb'[h].node = hb[h].node /\ hb'[h].full = hb[h].full
    BY <2>1 DEF Heartbeats, RunnerEnds, OutcomeLost, Watchdog, WatchSees, HbRow
  <2> QED BY <2>2, <2>3 DEF Executed
<1>3. \A a \in ApId : DecideTask(a) \in tasks' => DecideTask(a) \in tasks
  BY DEF Heartbeats, RunnerEnds, OutcomeLost, Watchdog, WatchSees, DecideTask, DoneTask
<1>4. Caught' => Caught
  <2>1. AdvanceTask \in tasks => AdvanceTask \in tasks'
    BY DEF Heartbeats, RunnerEnds, OutcomeLost, Watchdog, WatchSees, AdvanceTask, WatchTask
  <2> QED BY <1>1, <2>1 DEF Caught
<1> QED BY <1>1, <1>2, <1>3, <1>4, AsideCausal DEF Before, CausalInv, Served

LEMMA EnvironmentCausal ==
    ASSUME Before, After, Environment
    PROVE  CausalInv'
<1>0. ap \in [ApId -> ApRow] /\ hb \in [HbId -> HbRow]
  BY DEF Before, IInv, TypeOK
<1>1. CASE Crash
  <2>1. /\ pc' = "idle" /\ mem' = doc /\ UNCHANGED <<status, doc, ap>> /\ tasks' = {}
        /\ phase' = "down" /\ Executed' = Executed
    BY <1>1 DEF Crash, rowVars, Executed
  <2>2. ~Caught'
    BY <2>1 DEF Caught
  <2> QED BY <2>1, <2>2, SectionCausal
<1>2. CASE StartRun
  <2>1. /\ UNCHANGED <<doc, mem, pc, cur, ap, phase>> /\ status = "none" /\ Executed' = Executed
        /\ tasks' = tasks \cup {AdvanceTask}
    BY <1>2 DEF StartRun, lockVars, hubVars, Executed
  <2>2. \A a \in ApId : DecideTask(a) \in tasks' => phase = "serving" /\ DecideTask(a) \in tasks
    BY <2>1 DEF DecideTask, AdvanceTask, Before, CausalInv, Served
  <2> QED BY <2>1, <2>2, AsideCausal
<1>3. ASSUME NEW a \in ApId, Decide(a) PROVE CausalInv'
  <2>1. /\ UNCHANGED <<status, doc, mem, pc, cur, phase>> /\ phase = "serving" /\ Executed' = Executed
        /\ tasks' = tasks \cup {DecideTask(a)} /\ ap[a].status = "pending"
    BY <1>3 DEF Decide, rowVars, lockVars, hubVars, Executed
  <2>2. \A x \in ApId : /\ ap'[x].node = ap[x].node
                        /\ ap'[x].status = "none" <=> ap[x].status = "none"
                        /\ ap[x].status \in Decision => ap'[x].status = ap[x].status
    BY <1>0, <1>3 DEF Decide, ApRow, Decision
  <2>3. \A x \in ApId : DecideTask(x) \in tasks' =>
            DecideTask(x) \in tasks \/ ap[x].status = "pending"
    BY <2>1 DEF DecideTask
  <2>4. Caught' => Caught
    BY <2>1 DEF Caught
  <2> QED BY <2>1, <2>2, <2>3, <2>4, AsideCausal
<1>4. ASSUME NEW a \in ApId, Expire(a) PROVE CausalInv'
  <2>1. /\ UNCHANGED <<status, doc, mem, pc, cur, phase>> /\ Executed' = Executed
        /\ tasks' = tasks \cup {ExpiredTask(a)}
    BY <1>4 DEF Expire, rowVars, lockVars, hubVars, Executed
  <2>2. \A x \in ApId : /\ ap'[x].node = ap[x].node
                        /\ ap'[x].status = "none" <=> ap[x].status = "none"
                        /\ ap[x].status \in Decision => ap'[x].status = ap[x].status
    BY <1>0, <1>4 DEF Expire, ApRow, Decision
  <2>3. \A x \in ApId : DecideTask(x) \in tasks' => phase = "serving" /\ DecideTask(x) \in tasks
    BY <2>1 DEF DecideTask, ExpiredTask, Before, CausalInv, Served
  <2>4. Caught' => Caught
    BY <2>1 DEF Caught
  <2> QED BY <2>1, <2>2, <2>3, <2>4, AsideCausal
<1>5. ASSUME RequestCancel \/ SetPaused
               \/ \E agent \in Agent :
                     OtherWake(agent) \/ \E mode \in Mode \cup {"none"} : PublishAgent(agent, mode)
      PROVE  CausalInv'
  <2>1. /\ UNCHANGED <<status, doc, mem, pc, cur, ap, phase>> /\ phase = "serving"
        /\ tasks' = tasks \/ tasks' = tasks \cup {CancelTask}
    BY <1>5 DEF RequestCancel, SetPaused, OtherWake, PublishAgent, rowVars, lockVars, hubVars
  <2>2. Executed' \subseteq Executed
    <3>1. CASE ~\E agent \in Agent : OtherWake(agent)
      BY <1>5, <3>1 DEF RequestCancel, SetPaused, PublishAgent, Executed
    <3>2. ASSUME NEW agent \in Agent, OtherWake(agent) PROVE Executed' \subseteq Executed
      <4>1. PICK h \in HbId : NewHeartbeat(h, agent, None, FALSE)
        BY <3>2 DEF OtherWake, FreeHb
      <4>2. ~hb'[h].full /\ \A x \in HbId \ {h} : hb'[x] = hb[x]
        BY <1>0, <4>1 DEF NewHeartbeat
      <4>3. wrote' = wrote
        BY <3>2 DEF OtherWake
      <4> QED BY <4>2, <4>3 DEF Executed
    <3> QED BY <3>1, <3>2
  <2>3. \A a \in ApId : DecideTask(a) \in tasks' => DecideTask(a) \in tasks
    BY <2>1 DEF DecideTask, CancelTask
  <2>4. Caught' => Caught
    BY <2>1 DEF Caught
  <2> QED BY <2>1, <2>2, <2>3, <2>4, AsideCausal
<1> QED BY <1>1, <1>2, <1>3, <1>4, <1>5 DEF Environment

LEMMA NextCausal == IInv /\ LockEnds /\ RowsInv /\ CausalInv /\ [Next]_vars => CausalInv'
<1> SUFFICES ASSUME IInv, LockEnds, RowsInv, CausalInv, [Next]_vars PROVE CausalInv'
  OBVIOUS
<1>1. IInv' /\ RowsInv'
  BY NextTyped, NextRows
<1>2. CASE UNCHANGED vars
  <2>1. Before /\ After /\ UNCHANGED <<status, doc, mem, pc, cur, ap, phase, tasks>>
        /\ Executed' = Executed /\ Caught' = Caught
    BY <1>1, <1>2 DEF Before, After, Final, vars, Executed, Caught
  <2> QED BY <2>1, AsideCausal DEF Before, CausalInv, Served
<1>3. CASE Next
  <2>1. Final
    BY <1>3, NextEnds DEF vars, Final
  <2>2. Before /\ After
    BY <1>1, <2>1 DEF Before, After
  <2> QED BY <1>3, <2>2, HolderCausal, WaiterCausal, RecoveryCausal, HeartbeatsCausal,
             EnvironmentCausal DEF Next
<1> QED BY <1>2, <1>3

LEMMA InitCausal == Init => CausalInv
<1> SUFFICES ASSUME Init PROVE CausalInv
  OBVIOUS
<1> USE DEF Init, FreshDoc
<1>1. Closed(doc) /\ Closed(mem)
  BY DEF Closed, Started
<1>2. Ahead
  BY PersistsSame DEF Ahead
<1>3. HandReady /\ Served /\ Cancelled
  BY DEF HandReady, InHand, Served, Cancelled
<1>4. AtGates
  BY DEF AtGates, AtGate
<1>5. NoOrphans
  BY DEF NoOrphans, Active
<1>6. Traced
  BY DEF Traced, Executed, InHand, Writes
<1> QED BY <1>1, <1>2, <1>3, <1>4, <1>5, <1>6 DEF CausalInv

LEMMA CausalAlways == Spec => []CausalInv
BY InitTyped, NextTyped, InitRows, NextRows, NextEnds, InitCausal, NextCausal, PTL DEF Spec

\* The row is causally closed, crashes included: advance() recomputes from it after a
\* restart what it computed before.
THEOREM CausallyClosedHolds == Spec => []CausallyClosed
<1>1. CausalInv => CausallyClosed
  BY DEF CausalInv, Closed, Started, SomeFired, CausallyClosed
<1> QED BY <1>1, CausalAlways, PTL

\* Each node that has written outside mock has an approved gate on every path that fired
\* into it, and the row alone shows it: what fires later cannot take it back.
THEOREM RowShowsTheGateHolds == Spec => []RowShowsTheGate
<1>1. CausalInv => RowShowsTheGate
  BY DEF CausalInv, Traced, RowShowsTheGate
<1> QED BY <1>1, CausalAlways, PTL

\* In a closed document the gate of the published graph implies the one of the run.
LEMMA GraphGate ==
    ASSUME NEW d, Closed(d), NEW n \in Node, Resolved(n, d), SomeFired(n, d), ApprovalGated(n)
    PROVE  ApprovedOnPath(n, d)
<1> SUFFICES ASSUME NEW T \in SUBSET Node,
                    \A m \in Node : /\ Fired(m, d) # {}
                                    /\ \A e \in Fired(m, d) : GateOpened(e, d) \/ e.from \in T
                                    => m \in T
             PROVE  n \in T
  BY DEF ApprovedOnPath
<1> DEFINE S == {m \in Node : Resolved(m, d) /\ SomeFired(m, d) => m \in T}
<1>1. ASSUME NEW m \in Node, Into(m) # {},
             \A e \in Into(m) :
                (Type[e.from] = "approval" /\ Branch(e) = "approved") \/ e.from \in S
      PROVE  m \in S
  <2> SUFFICES ASSUME Resolved(m, d), SomeFired(m, d) PROVE m \in T
    OBVIOUS
  <2>1. ASSUME NEW e \in Fired(m, d) PROVE GateOpened(e, d) \/ e.from \in T
    <3>1. e \in Into(m) /\ Fires(e, d) /\ e.from \in Node /\ d.states[e.from] = "done"
      BY IntoFrom, FiresDone DEF Fired
    <3>2. CASE Type[e.from] = "approval" /\ Branch(e) = "approved"
      BY <3>1, <3>2 DEF Fires, GateOpened
    <3>3. CASE e.from \in S
      BY <3>1, <3>3 DEF Closed, Started
    <3> QED BY <1>1, <3>1, <3>2, <3>3
  <2>2. Fired(m, d) # {}
    BY <1>1 DEF SomeFired
  <2> QED BY <2>1, <2>2
<1>2. S \in SUBSET Node
  OBVIOUS
<1>3. n \in S
  <2> HIDE DEF S
  <2> QED BY <1>1, <1>2 DEF ApprovalGated
<1> QED BY <1>3

\* Where every path of the published graph into a node is gated, the run-time check lets
\* it start as soon as it is ready: what publishing accepts, the run does not refuse.
THEOREM PublishedGateHolds == Spec => []PublishedGateSuffices
<1>1. CausalInv => PublishedGateSuffices
  BY GraphGate DEF CausalInv, PublishedGateSuffices, Ready, SomeFired
<1> QED BY <1>1, CausalAlways, PTL
=============================================================================
