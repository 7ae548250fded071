----------------------------- MODULE Heartbeat -----------------------------
(***************************************************************************)
(* Heartbeats of agent-hub: the launch path with its checks and its unique *)
(* index, the thread that runs one wake with its stop flags and its        *)
(* write-through journal, the watchdog that fails rows nobody will finish, *)
(* cancel, pause, and the revert that undoes a journal.                    *)
(*                                                                         *)
(* Several wakes share the rows, the documents of the platform and one     *)
(* hub process that may die between any two steps.                         *)
(***************************************************************************)
EXTENDS Naturals, Sequences, FiniteSets, Functions

CONSTANTS
    Ids,        \* heartbeats: one for each wake that may ever be asked for
    Agents,
    AgentOf,    \* the agent each wake is for
    Docs,       \* documents writes replace or delete: connections, tables, ...
    Fresh,      \* documents only a create tool makes, under an id of its own
    Values,     \* what a document may hold
    None,       \* no document; no record; no heartbeat
    Untouched,  \* history: no write so far
    Reverters,  \* admins who may ask for a revert
    Cap,        \* AGENT_HUB_MAX_CONCURRENT; 0 is no cap
    MaxSteps,   \* limits.max_steps of the agents
    MaxCalls,   \* bound: tool calls in one reply of the model
    MaxCrashes  \* bound: deaths of the hub process

ASSUME WakesAssumption == AgentOf \in [Ids -> Agents]
ASSUME DocsAssumption == Docs \cap Fresh = {} /\ None \notin Values /\ Untouched \notin Values \cup {None}
ASSUME NoneAssumption ==
    /\ None \notin Ids
    /\ None \notin [doc : Docs \cup Fresh, before : Values \cup {None}]
ASSUME BoundsAssumption ==
    /\ Cap \in Nat
    /\ MaxSteps \in Nat
    /\ MaxCalls \in Nat
    /\ MaxCrashes \in Nat

VARIABLES
    rows,       \* agent_hub_heartbeats
    paused,     \* the pause flag of agent_hub_meta
    call,       \* where the launch_heartbeat coroutine of a wake is
    runner,     \* the thread of a wake and its local state
    undo,       \* reverts in progress
    world,      \* the documents of the platform
    up,         \* the hub process is up
    crashes,
    \* history, read by no action
    base,       \* what a document held before the first write of a heartbeat
    intruded,   \* <<h, d>>: someone else changed d since h first recorded it
    overtaken,  \* heartbeats the watchdog failed while their thread lived
    skipped     \* heartbeats one of whose records could not be restored

history == <<base, intruded, overtaken, skipped>>
vars == <<rows, paused, call, runner, undo, world, up, crashes, history>>

Places == Docs \cup Fresh
Contents == Values \cup {None}
Records == [doc : Places, before : Contents]

CallPcs == {"unused", "coalesce", "count", "insert", "reread", "over"}
Working == {"turn", "llm", "call", "tool", "journal", "write", "note", "record"}

Row == [status : {"none", "running", "ended"}, cancel : BOOLEAN,
        journal : Seq(Records), reverted : BOOLEAN]
ThreadState == [pc : {"none", "queued", "gone"} \cup Working, step : 0..MaxSteps,
                left : 0..MaxCalls, mem : Seq(Records), rec : Records \cup {None},
                overdue : BOOLEAN, expired : BOOLEAN, after : Nat]

TypeOK ==
    /\ rows \in [Ids -> Row]
    /\ paused \in BOOLEAN
    /\ call \in [Ids -> CallPcs]
    /\ runner \in [Ids -> ThreadState]
    /\ undo \in [Reverters -> [hb : Ids \cup {None}, left : Seq(Records)]]
    /\ world \in [Places -> Contents]
    /\ up \in BOOLEAN
    /\ crashes \in 0..MaxCrashes
    /\ base \in [Ids -> [Places -> Contents \cup {Untouched}]]
    /\ intruded \subseteq Ids \X Places
    /\ overtaken \subseteq Ids
    /\ skipped \subseteq Ids

NoThread == [pc |-> "none", step |-> 0, left |-> 0, mem |-> <<>>, rec |-> None,
             overdue |-> FALSE, expired |-> FALSE, after |-> 0]
Idle == [hb |-> None, left |-> <<>>]

Init ==
    /\ rows = [h \in Ids |-> [status |-> "none", cancel |-> FALSE,
                              journal |-> <<>>, reverted |-> FALSE]]
    /\ paused = FALSE
    /\ call = [h \in Ids |-> "unused"]
    /\ runner = [h \in Ids |-> NoThread]
    /\ undo = [u \in Reverters |-> Idle]
    /\ world \in [Places -> Contents]
    /\ \A f \in Fresh : world[f] = None
    /\ up = TRUE
    /\ crashes = 0
    /\ base = [h \in Ids |-> [d \in Places |-> Untouched]]
    /\ intruded = {}
    /\ overtaken = {}
    /\ skipped = {}

Running(h) == rows[h].status = "running"
Ended(h) == rows[h].status = "ended"
Alive(h) == runner[h].pc \in Working \cup {"queued"}
Busy(h) == \E g \in Ids : AgentOf[g] = AgentOf[h] /\ Running(g)
OnRow(h) == Range(rows[h].journal)
InMemory(h) == Range(runner[h].mem)

-----------------------------------------------------------------------------
(* launch_heartbeat: four statements of the store, any of which another    *)
(* coroutine may come before.  The token ledgers are not modelled: the     *)
(* wake may be refused for them, or for want of a human, whatever else.    *)

Go(h, pc) == call' = [call EXCEPT ![h] = pc]
LaunchOnly == UNCHANGED <<rows, paused, runner, undo, world, up, crashes, history>>

\* A wake arrives; pause and the agent's budget are looked at first.
Wake(h) ==
    /\ up
    /\ call[h] = "unused"
    /\ \/ Go(h, "over")
       \/ ~paused /\ Go(h, "coalesce")
    /\ LaunchOnly

CoalesceCheck(h) ==
    /\ call[h] = "coalesce"
    /\ Go(h, IF Busy(h) THEN "over" ELSE "count")
    /\ LaunchOnly

Full == Cap # 0 /\ Cardinality({g \in Ids : Running(g)}) >= Cap

QuotaCheck(h) ==
    /\ call[h] = "count"
    /\ \/ Go(h, "over")
       \/ ~Full /\ Go(h, "insert")
    /\ LaunchOnly

\* mutation: no unique index stands behind the coalesce check
StartUnindexed(h) ==
    /\ call[h] = "insert"
    /\ Go(h, "over")
    /\ rows' = [rows EXCEPT ![h].status = "running"]
    /\ runner' = [runner EXCEPT ![h].pc = "queued"]
    /\ UNCHANGED <<paused, undo, world, up, crashes, history>>

\* start_heartbeat: the partial unique index refuses a second running row.
StartHeartbeat(h) ==
    /\ call[h] = "insert"
    /\ IF Busy(h)
       THEN Go(h, "reread") /\ UNCHANGED <<rows, runner>>
       ELSE /\ Go(h, "over")
            /\ rows' = [rows EXCEPT ![h].status = "running"]
            /\ runner' = [runner EXCEPT ![h].pc = "queued"]
    /\ UNCHANGED <<paused, undo, world, up, crashes, history>>

\* The loser of the race hands back the winner's row, or raises when it ended.
Reread(h) ==
    /\ call[h] = "reread"
    /\ Go(h, "over")
    /\ LaunchOnly

-----------------------------------------------------------------------------
(* run_heartbeat, in its thread.                                           *)

ThreadOnly == UNCHANGED <<rows, paused, call, undo, world, up, crashes, history>>
To(h, pc) == runner' = [runner EXCEPT ![h].pc = pc]

\* The executor has a thread for it, soon or late: the wall clock of the wake
\* starts here, that of its row started with the launch.
Begin(h) ==
    /\ runner[h].pc = "queued"
    /\ \E late \in BOOLEAN :
           runner' = [runner EXCEPT ![h].pc = "turn", ![h].overdue = late]
    /\ ThreadOnly

WallClock(h) ==
    /\ runner[h].pc \in Working
    /\ ~runner[h].expired
    /\ runner' = [runner EXCEPT ![h].expired = TRUE, ![h].overdue = TRUE]
    /\ ThreadOnly

\* stop_reason(): cancelled, paused or timed out.  A check may also end the
\* wake for its tokens, or because it could not read the flags.
Stopped(h) == rows[h].cancel \/ paused \/ runner[h].expired

Turn(h) ==
    /\ runner[h].pc = "turn"
    /\ \/ To(h, "record")
       \/ /\ runner[h].step # MaxSteps
          /\ ~Stopped(h)
          /\ runner' = [runner EXCEPT ![h].pc = "llm", ![h].step = @ + 1]
    /\ ThreadOnly

\* The model fails or gives its final answer, or asks for tool calls.
Reply(h) ==
    /\ runner[h].pc = "llm"
    /\ \/ To(h, "record")
       \/ \E n \in 1..MaxCalls :
              runner' = [runner EXCEPT ![h].pc = "call", ![h].left = n]
    /\ ThreadOnly

\* mutation: the stop flags are looked at between turns only
NextCallUnchecked(h) ==
    /\ runner[h].pc = "call"
    /\ To(h, IF runner[h].left = 0 THEN "turn" ELSE "tool")
    /\ ThreadOnly

\* mutation: one call more than the reply asked for
NextCallOnceMore(h) ==
    /\ runner[h].pc = "call"
    /\ \/ To(h, "turn")
       \/ ~Stopped(h) /\ To(h, "tool")
    /\ ThreadOnly

NextCall(h) ==
    /\ runner[h].pc = "call"
    /\ \/ runner[h].left = 0 /\ To(h, "turn")
       \/ runner[h].left > 0 /\ To(h, "record")
       \/ runner[h].left > 0 /\ ~Stopped(h) /\ To(h, "tool")
    /\ ThreadOnly

\* The call is over, well or not: on to the next one.
Answered(h) == runner' = [runner EXCEPT ![h].pc = "call", ![h].left = @ - 1, ![h].rec = None]

\* A read, a refusal of the tool layer, or a failure before anything is written.
ToolReturns(h) == runner[h].pc = "tool" /\ Answered(h) /\ ThreadOnly

\* Update and delete tools read the `before` they will journal.
ReadBefore(h, d) ==
    /\ runner[h].pc = "tool"
    /\ runner' = [runner EXCEPT ![h].pc = "journal",
                                ![h].rec = [doc |-> d, before |-> world[d]]]
    /\ ThreadOnly

\* mutation: the journal is kept in memory until the wake ends
JournalInMemory(h) ==
    /\ runner[h].pc \in {"journal", "note"}
    /\ LET noted == Append(runner[h].mem, runner[h].rec) IN
       runner' = IF runner[h].pc = "journal"
                 THEN [runner EXCEPT ![h].pc = "write", ![h].mem = noted]
                 ELSE [runner EXCEPT ![h].pc = "call", ![h].left = @ - 1,
                                     ![h].mem = noted, ![h].rec = None]
    /\ ThreadOnly

\* The sink of the journal: append_journal, which matches only a running row
\* and does not say when it matched none.
Journal(h) ==
    /\ runner[h].pc \in {"journal", "note"}
    /\ rows' = IF Running(h)
               THEN [rows EXCEPT ![h].journal = Append(@, runner[h].rec)]
               ELSE rows
    /\ LET noted == Append(runner[h].mem, runner[h].rec) IN
       runner' = IF runner[h].pc = "journal"
                 THEN [runner EXCEPT ![h].pc = "write", ![h].mem = noted]
                 ELSE [runner EXCEPT ![h].pc = "call", ![h].left = @ - 1,
                                     ![h].mem = noted, ![h].rec = None]
    /\ UNCHANGED <<paused, call, undo, world, up, crashes, history>>

\* The statement fails, or answers after ten seconds: the tool is refused, and
\* the record may be on the row all the same.
SinkFails(h) ==
    /\ runner[h].pc \in {"journal", "note"}
    /\ Answered(h)
    /\ \/ UNCHANGED rows
       \/ /\ Running(h)
          /\ rows' = [rows EXCEPT ![h].journal = Append(@, runner[h].rec)]
    /\ UNCHANGED <<paused, call, undo, world, up, crashes, history>>

\* History: g has changed d, or has read what it recorded or will record of d.
Involved(g, d) ==
    \/ base[g][d] # Untouched
    \/ \E r \in OnRow(g) \cup InMemory(g) : r.doc = d
    \/ runner[g].rec # None /\ runner[g].rec.doc = d
Intrude(h, d) == intruded' = intruded \cup {<<g, d>> : g \in {g \in Ids \ {h} : Involved(g, d)}}

\* A request of heartbeat h changes d.
Change(h, d, v) ==
    /\ world' = [world EXCEPT ![d] = v]
    /\ base' = [base EXCEPT ![h][d] = IF @ = Untouched THEN world[d] ELSE @]
    /\ Intrude(h, d)

\* History: writes since the heartbeat was told to stop.
Later(h) == IF Stopped(h) THEN runner[h].after + 1 ELSE 0

\* The request the record protects; it may fail.
Write(h, v) ==
    /\ runner[h].pc = "write"
    /\ \/ /\ Change(h, runner[h].rec.doc, v)
          /\ runner' = [runner EXCEPT ![h].pc = "call", ![h].left = @ - 1,
                                      ![h].rec = None, ![h].after = Later(h)]
       \/ Answered(h) /\ UNCHANGED <<world, base, intruded>>
    /\ UNCHANGED <<rows, paused, call, undo, up, crashes, overtaken, skipped>>

\* Create tools write first: the platform assigns the id their record needs.
Create(h, f, v) ==
    /\ runner[h].pc = "tool"
    /\ \A g \in Ids : base[g][f] = Untouched
    /\ v # None
    /\ Change(h, f, v)
    /\ runner' = [runner EXCEPT ![h].pc = "note", ![h].rec = [doc |-> f, before |-> None],
                                ![h].after = Later(h)]
    /\ UNCHANGED <<rows, paused, call, undo, up, crashes, overtaken, skipped>>

\* The thread is over, and what it held in memory with it.
ThreadEnds(h) == runner' = [runner EXCEPT ![h] = [NoThread EXCEPT !.pc = "gone"]]

\* record_heartbeat: only a row still running is written.
RecordOutcome(h) ==
    /\ runner[h].pc = "record"
    /\ rows' = IF Running(h)
               THEN [rows EXCEPT ![h].status = "ended", ![h].journal = runner[h].mem]
               ELSE rows
    /\ ThreadEnds(h)
    /\ UNCHANGED <<paused, call, undo, world, up, crashes, history>>

\* The statement raises in execute(): the row stays running, its runner is gone.
RecordFails(h) == runner[h].pc = "record" /\ ThreadEnds(h) /\ ThreadOnly

-----------------------------------------------------------------------------
(* The rest of the hub.  An ended row is "ended" whatever its outcome.     *)

\* mutation: only heartbeats that have a thread are looked at
WatchdogOfThreads(h) ==
    /\ up
    /\ Running(h)
    /\ runner[h].pc = "queued" \/ runner[h].overdue
    /\ rows' = [rows EXCEPT ![h].status = "ended"]
    /\ overtaken' = overtaken \cup {h}
    /\ UNCHANGED <<paused, call, runner, undo, world, up, crashes,
                   base, intruded, skipped>>

\* reconcile_running, at startup and on every tick.  A row is past its wall
\* clock and 60 s of grace when its thread is gone, waits or waited long for an
\* executor, or has itself passed its deadline in a request that does not return.
Watchdog(h) ==
    /\ up
    /\ Running(h)
    /\ ~Alive(h) \/ runner[h].pc = "queued" \/ runner[h].overdue
    /\ rows' = [rows EXCEPT ![h].status = "ended"]
    /\ overtaken' = IF Alive(h) THEN overtaken \cup {h} ELSE overtaken
    /\ UNCHANGED <<paused, call, runner, undo, world, up, crashes,
                   base, intruded, skipped>>

RequestCancel(h) ==
    /\ up
    /\ Running(h)
    /\ rows' = [rows EXCEPT ![h].cancel = TRUE]
    /\ UNCHANGED <<paused, call, runner, undo, world, up, crashes, history>>

SetPaused(p) ==
    /\ up
    /\ paused' = p
    /\ runner' = [h \in Ids |-> IF p \/ rows[h].cancel \/ runner[h].expired
                                THEN runner[h] ELSE [runner[h] EXCEPT !.after = 0]]
    /\ UNCHANGED <<rows, call, undo, world, up, crashes, history>>

Undoes(h) == \E u \in Reverters : undo[u].hb = h

\* revert_heartbeat reads the journal of an ended row ...
Revert(u, h) ==
    /\ up
    /\ undo[u] = Idle
    /\ Ended(h)
    /\ rows[h].journal # <<>>
    /\ undo' = [undo EXCEPT ![u] = [hb |-> h, left |-> rows[h].journal]]
    /\ UNCHANGED <<rows, paused, call, runner, world, up, crashes, history>>

\* mutation: oldest first
RestoreOldest(u) ==
    /\ undo[u].left # <<>>
    /\ undo' = [undo EXCEPT ![u].left = Tail(@)]
    /\ world' = [world EXCEPT ![Head(undo[u].left).doc] = Head(undo[u].left).before]
    /\ Intrude(undo[u].hb, Head(undo[u].left).doc)
    /\ UNCHANGED <<rows, paused, call, runner, up, crashes, base, overtaken, skipped>>

\* ... restores record by record, newest first, passing over one that fails ...
RestoreOne(u) ==
    LET h == undo[u].hb
        left == undo[u].left
        last == left[Len(left)]
    IN  /\ left # <<>>
        /\ undo' = [undo EXCEPT ![u].left = SubSeq(left, 1, Len(left) - 1)]
        /\ \/ /\ world' = [world EXCEPT ![last.doc] = last.before]
              /\ Intrude(h, last.doc)
              /\ UNCHANGED skipped
           \/ /\ skipped' = skipped \cup {h}
              /\ UNCHANGED <<world, intruded>>
        /\ UNCHANGED <<rows, paused, call, runner, up, crashes, base, overtaken>>

\* ... and empties it.
MarkReverted(u) ==
    /\ undo[u].hb # None
    /\ undo[u].left = <<>>
    /\ rows' = [rows EXCEPT ![undo[u].hb].journal = <<>>, ![undo[u].hb].reverted = TRUE]
    /\ undo' = [undo EXCEPT ![u] = Idle]
    /\ UNCHANGED <<paused, call, runner, world, up, crashes, history>>

\* Coroutines and threads end with the process; rows and documents stay.
Crash ==
    /\ up
    /\ crashes < MaxCrashes
    /\ up' = FALSE
    /\ crashes' = crashes + 1
    /\ call' = [h \in Ids |-> IF call[h] = "unused" THEN "unused" ELSE "over"]
    /\ runner' = [h \in Ids |-> IF Alive(h) THEN [NoThread EXCEPT !.pc = "gone"] ELSE runner[h]]
    /\ undo' = [u \in Reverters |-> Idle]
    /\ skipped' = skipped \cup {h \in Ids : rows[h].reverted /\ Undoes(h)}
    /\ UNCHANGED <<rows, paused, world, base, intruded, overtaken>>

Restart == ~up /\ up' = TRUE /\ UNCHANGED <<rows, paused, call, runner, undo, world, crashes, history>>

-----------------------------------------------------------------------------
Launch(h) == Wake(h) \/ CoalesceCheck(h) \/ QuotaCheck(h) \/ StartHeartbeat(h) \/ Reread(h)

Run(h) ==
    \/ Begin(h) \/ Turn(h) \/ Reply(h) \/ NextCall(h) \/ ToolReturns(h)
    \/ \E d \in Docs : ReadBefore(h, d)
    \/ Journal(h) \/ SinkFails(h)
    \/ \E v \in Contents : Write(h, v)
    \/ \E f \in Fresh, v \in Values : Create(h, f, v)
    \/ RecordOutcome(h) \/ RecordFails(h)

Undoing(u) == (\E h \in Ids : Revert(u, h)) \/ RestoreOne(u) \/ MarkReverted(u)

Next ==
    \/ \E h \in Ids : Launch(h) \/ Run(h) \/ WallClock(h) \/ Watchdog(h) \/ RequestCancel(h)
    \/ \E u \in Reverters : Undoing(u)
    \/ \E p \in BOOLEAN : SetPaused(p)
    \/ Crash
    \/ Restart

Spec == Init /\ [][Next]_vars

\* Requests return or time out, the executor takes its queue in turn, the
\* ticker ticks, and the operator restarts a dead hub.
Fairness ==
    /\ \A h \in Ids : WF_vars(Run(h)) /\ WF_vars(Watchdog(h))
    /\ WF_vars(Restart)

FairSpec == Spec /\ Fairness

-----------------------------------------------------------------------------
(* Properties.                                                             *)

\* Every document a heartbeat replaced or deleted has its `before` on the row,
\* whether the wake ended, failed or died with the process, until a revert
\* empties the journal: a revert can find every change.  The exception is a
\* heartbeat whose row the watchdog failed under its thread.
WritesRecorded ==
    \A h \in Ids \ overtaken, d \in Docs :
        base[h][d] # Untouched /\ ~rows[h].reverted => \E r \in OnRow(h) : r.doc = d

\* The same without the exception, which append_journal and journal_sink claim.
NoWriteUnrecorded ==
    \A h \in Ids, d \in Docs :
        base[h][d] # Untouched /\ ~rows[h].reverted => \E r \in OnRow(h) : r.doc = d

\* A reverted heartbeat left nothing behind: every document it replaced or
\* deleted, once or several times, holds what it held before the first write,
\* unless someone else changed it since the heartbeat first recorded it (also for
\* a call that then failed), a restore failed, a second revert of the row is under
\* way or died with the hub, or the watchdog had failed the row under its thread.
RevertedIsUndone ==
    \A h \in Ids \ (overtaken \cup skipped), d \in Docs :
        rows[h].reverted /\ ~Undoes(h) /\ base[h][d] # Untouched /\ <<h, d>> \notin intruded
            => world[d] = base[h][d]

\* Pause, cancel and the wall clock stop a heartbeat within one call: whatever
\* the model asked for in one reply, at most the write in flight still happens.
StopsWithinOneWrite == \A h \in Ids : runner[h].after <= 1

\* The row never stays running: the thread ends it, or the watchdog does when
\* the thread died, failed to record the outcome, or never came.
RowsEnd == \A h \in Ids : Running(h) ~> ~Running(h)

\* How rows read as HeartbeatContract.
StageOf(row) ==
    CASE row.status = "none" -> "new"
      [] row.status = "running" -> "running"
      [] row.status = "ended" /\ ~row.reverted -> "ended"
      [] row.status = "ended" /\ row.reverted -> "undone"
Stage == [h \in Ids |-> StageOf(rows[h])]
Log == [h \in Ids |-> OnRow(h)]
Contract == INSTANCE HeartbeatContract WITH stage <- Stage, log <- Log

\* Rows and journals keep the promise of HeartbeatContract: one running
\* heartbeat per agent, no ended row changed by a late thread, a frozen journal.
KeepsContract == Contract!Spec
=============================================================================
