-------------------------- MODULE HeartbeatProofs --------------------------
(***************************************************************************)
(* Theorems about the heartbeats of agent-hub, for every set of wakes,     *)
(* agents and documents and every bound: types, recorded writes, prompt    *)
(* stops, and the contract.                                                *)
(***************************************************************************)
EXTENDS Heartbeat, SequenceTheorems, TLAPS

\* Where a thread has a call in hand, and where it has a record in hand.
InCall == {"tool", "journal", "write", "note"}
WithRecord == {"journal", "write", "note"}

\* A wake that has no row yet has not run, and only such a wake is launched;
\* a reverted row has ended and its journal is empty.
RowOK(h) ==
    /\ call[h] \in CallPcs \ {"over"} => rows[h].status = "none"
    /\ rows[h].status = "none" =>
           /\ runner[h] = NoThread
           /\ rows[h].journal = <<>>
           /\ \A d \in Docs : base[h][d] = Untouched
    /\ rows[h].reverted => rows[h].status = "ended" /\ rows[h].journal = <<>>

\* The thread counts its calls down, and writes only what it has recorded.
ThreadOK(h) ==
    /\ runner[h].pc \in InCall => runner[h].left > 0
    /\ runner[h].pc \in WithRecord => runner[h].rec \in Records
    /\ runner[h].pc = "write" => runner[h].rec \in InMemory(h)

\* The thread knows every document it touched, and while it runs its row holds
\* what it knows; only the watchdog can end the row under it.
RecordOK(h) ==
    /\ Running(h) => InMemory(h) \subseteq OnRow(h)
    /\ Alive(h) /\ h \notin overtaken => Running(h)
    /\ Alive(h) => \A d \in Docs : base[h][d] # Untouched => \E r \in InMemory(h) : r.doc = d
    /\ h \notin overtaken /\ ~rows[h].reverted =>
           \A d \in Docs : base[h][d] # Untouched => \E r \in OnRow(h) : r.doc = d

\* A stopped thread has at most one write behind it, and starts no other.
StopOK(h) ==
    runner[h].after # 0 =>
        /\ runner[h].after = 1
        /\ Stopped(h)
        /\ runner[h].pc \in {"call", "turn", "note", "record"}

Good(h) == RowOK(h) /\ ThreadOK(h) /\ RecordOK(h) /\ StopOK(h)

\* A revert in progress is of an ended row, which had something to undo.
UndoOK(u) ==
    /\ undo[u].left # <<>> => undo[u].hb \in Ids
    /\ undo[u].hb # None =>
           /\ rows[undo[u].hb].status = "ended"
           /\ ~rows[undo[u].hb].reverted => rows[undo[u].hb].journal # <<>>

IInv ==
    /\ TypeOK
    /\ \A h \in Ids : Good(h)
    /\ \A u \in Reverters : UndoOK(u)

-----------------------------------------------------------------------------
(* Helpers *)

\* A record appended to a journal is one more in it, and the only new one.
LEMMA Appended ==
    ASSUME NEW S, NEW s \in Seq(S), NEW e \in S
    PROVE  /\ Append(s, e) \in Seq(S)
           /\ Append(s, e) # <<>>
           /\ Range(Append(s, e)) = Range(s) \cup {e}
<1>1. /\ Append(s, e) \in Seq(S)
      /\ Len(Append(s, e)) = Len(s) + 1
      /\ DOMAIN Append(s, e) = 1..(Len(s) + 1)
      /\ DOMAIN s = 1..Len(s)
      /\ Len(s) \in Nat
      /\ \A i \in 1..Len(s) : Append(s, e)[i] = s[i]
      /\ Append(s, e)[Len(s) + 1] = e
  OBVIOUS
<1>2. Range(Append(s, e)) = Range(s) \cup {e}
  BY <1>1 DEF Range
<1> QED
  BY <1>1, <1>2

\* What a heartbeat relies on when a step leaves its row and its thread alone:
\* its launch may go on while it has no row.
LEMMA Untroubled ==
    ASSUME NEW h \in Ids, Good(h),
           rows'[h] = rows[h], runner'[h] = runner[h], base'[h] = base[h], paused' = paused,
           call'[h] \in CallPcs \ {"over"} => rows[h].status = "none",
           h \in overtaken' <=> h \in overtaken
    PROVE  Good(h)'
<1>1. OnRow(h)' = OnRow(h) /\ InMemory(h)' = InMemory(h)
  BY DEF OnRow, InMemory
<1>2. (Running(h)' <=> Running(h)) /\ (Alive(h)' <=> Alive(h)) /\ (Stopped(h)' <=> Stopped(h))
  BY DEF Running, Alive, Stopped
<1>3. RowOK(h)' /\ ThreadOK(h)'
  BY <1>1, <1>2 DEF Good, RowOK, ThreadOK
<1>4. RecordOK(h)'
  BY <1>1, <1>2 DEF Good, RecordOK
<1>5. StopOK(h)'
  BY <1>2 DEF Good, StopOK
<1> QED
  BY <1>3, <1>4, <1>5 DEF Good

\* A revert in progress relies on ended rows staying as they are.
LEMMA UndoUntroubled ==
    ASSUME TypeOK, \A u \in Reverters : UndoOK(u), undo' = undo,
           \A h \in Ids : rows[h].status = "ended" =>
               /\ rows'[h].status = "ended"
               /\ rows'[h].journal = rows[h].journal
               /\ rows'[h].reverted = rows[h].reverted
    PROVE  \A u \in Reverters : UndoOK(u)'
<1> SUFFICES ASSUME NEW u \in Reverters PROVE UndoOK(u)'
  OBVIOUS
<1>1. undo[u].hb \in Ids \cup {None} /\ UndoOK(u)
  BY DEF TypeOK
<1> QED
  BY <1>1 DEF UndoOK

-----------------------------------------------------------------------------
(* The launch path *)

LEMMA InitGood == Init => IInv
<1> SUFFICES ASSUME Init PROVE IInv
  OBVIOUS
<1>1. TypeOK
  <2>1. rows \in [Ids -> Row]
    BY DEF Init, Row
  <2>2. runner \in [Ids -> ThreadState]
    BY BoundsAssumption DEF Init, ThreadState, NoThread, BoundsAssumption
  <2>3. call \in [Ids -> CallPcs] /\ undo \in [Reverters -> [hb : Ids \cup {None}, left : Seq(Records)]]
    BY DEF Init, CallPcs, Idle
  <2>4. crashes \in 0..MaxCrashes
    BY BoundsAssumption DEF Init, BoundsAssumption
  <2>5. base \in [Ids -> [Places -> Contents \cup {Untouched}]]
    BY DEF Init
  <2>6. /\ paused \in BOOLEAN /\ up \in BOOLEAN /\ world \in [Places -> Contents]
        /\ intruded \subseteq Ids \X Places /\ overtaken \subseteq Ids /\ skipped \subseteq Ids
    BY DEF Init
  <2> QED
    BY <2>1, <2>2, <2>3, <2>4, <2>5, <2>6 DEF TypeOK
<1>2. ASSUME NEW h \in Ids PROVE Good(h)
  <2>1. /\ rows[h] = [status |-> "none", cancel |-> FALSE, journal |-> <<>>, reverted |-> FALSE]
        /\ runner[h] = NoThread
        /\ \A d \in Docs : base[h][d] = Untouched
    BY DEF Init, Places
  <2>2. runner[h].pc = "none" /\ runner[h].after = 0
    BY <2>1 DEF NoThread
  <2>3. ~Running(h) /\ ~Alive(h)
    BY <2>1, <2>2 DEF Running, Alive, Working
  <2> QED
    BY <2>1, <2>2, <2>3 DEF Good, RowOK, ThreadOK, RecordOK, StopOK, InCall, WithRecord
<1>3. ASSUME NEW u \in Reverters PROVE UndoOK(u)
  BY DEF Init, UndoOK, Idle
<1> QED
  BY <1>1, <1>2, <1>3 DEF IInv

\* The checks before the insert, and the insert that loses, only move the
\* coroutine on, and it has no row.
LEMMA ChecksGood ==
    ASSUME IInv, NEW h \in Ids,
           LaunchOnly, NEW pc \in CallPcs, Go(h, pc), pc # "over" => call[h] # "over"
    PROVE  IInv'
<1> USE DEF LaunchOnly, history
<1>1. TypeOK'
  BY DEF IInv, TypeOK, Go
<1>2. ASSUME NEW g \in Ids PROVE Good(g)'
  <2>1. Good(g) /\ call[g] \in CallPcs
    BY DEF IInv, TypeOK
  <2>2. call'[g] \in CallPcs \ {"over"} => call[g] \in CallPcs \ {"over"}
    BY <2>1 DEF IInv, TypeOK, Go
  <2>3. call'[g] \in CallPcs \ {"over"} => rows[g].status = "none"
    BY <2>1, <2>2 DEF Good, RowOK
  <2> QED
    BY <2>1, <2>3, Untroubled
<1>3. \A u \in Reverters : UndoOK(u)'
  BY UndoUntroubled DEF IInv
<1> QED
  BY <1>1, <1>2, <1>3 DEF IInv

LEMMA StartGood ==
    ASSUME IInv, NEW h \in Ids, StartHeartbeat(h)
    PROVE  IInv'
<1>1. CASE Busy(h)
  <2>1. LaunchOnly /\ Go(h, "reread") /\ call[h] # "over"
    BY <1>1 DEF StartHeartbeat, LaunchOnly, history
  <2> QED
    BY <2>1, ChecksGood DEF CallPcs
<1>2. CASE ~Busy(h)
  <2>1. /\ rows' = [rows EXCEPT ![h].status = "running"]
        /\ runner' = [runner EXCEPT ![h].pc = "queued"]
        /\ call' = [call EXCEPT ![h] = "over"]
        /\ UNCHANGED <<paused, undo, world, up, crashes, base, intruded, overtaken, skipped>>
        /\ rows[h].status = "none"
    <3>1. call[h] = "insert" /\ Good(h)
      BY DEF StartHeartbeat, IInv
    <3> QED
      BY <1>2, <3>1 DEF StartHeartbeat, Go, Good, RowOK, CallPcs, history
  <2>2. rows[h] \in Row /\ runner[h] \in ThreadState /\ Good(h)
    BY DEF IInv, TypeOK
  <2>3. /\ rows'[h] = [rows[h] EXCEPT !.status = "running"]
        /\ runner'[h] = [runner[h] EXCEPT !.pc = "queued"]
        /\ call'[h] = "over"
    BY <2>1 DEF IInv, TypeOK
  <2>4. rows'[h] \in Row /\ runner'[h] \in ThreadState
    BY <2>2, <2>3 DEF Row, ThreadState
  <2>5. TypeOK'
    BY <2>1, <2>3, <2>4 DEF IInv, TypeOK, CallPcs
  <2>6. ASSUME NEW g \in Ids, g # h PROVE Good(g)'
    <3>1. Good(g) /\ rows'[g] = rows[g] /\ runner'[g] = runner[g] /\ call'[g] = call[g]
      BY <2>1, <2>6 DEF IInv, TypeOK
    <3> QED
      BY <2>1, <3>1, Untroubled DEF Good, RowOK
  <2>7. Good(h)'
    <3>1. /\ runner[h] = NoThread /\ rows[h].journal = <<>> /\ ~rows[h].reverted
          /\ \A d \in Docs : base[h][d] = Untouched
      BY <2>1, <2>2 DEF Good, RowOK
    <3>2. /\ runner'[h].mem = <<>> /\ runner'[h].pc = "queued" /\ runner'[h].after = 0
          /\ rows'[h].status = "running" /\ ~rows'[h].reverted
          /\ base' = base
      BY <2>1, <2>2, <2>3, <3>1 DEF Row, NoThread
    <3>3. RowOK(h)'
      BY <2>3, <3>2 DEF RowOK
    <3>4. ThreadOK(h)'
      BY <3>2 DEF ThreadOK, InCall, WithRecord
    <3>5. RecordOK(h)'
      <4>1. Running(h)' /\ InMemory(h)' = {}
        BY <3>2 DEF Running, InMemory, Range
      <4> QED
        BY <4>1, <3>1, <3>2 DEF RecordOK
    <3>6. StopOK(h)'
      BY <3>2 DEF StopOK
    <3> QED
      BY <3>3, <3>4, <3>5, <3>6 DEF Good
  <2>8. \A u \in Reverters : UndoOK(u)'
    <3>1. \A g \in Ids : rows[g].status = "ended" => rows'[g] = rows[g]
      BY <2>1 DEF IInv, TypeOK
    <3> QED
      BY <2>1, <3>1, UndoUntroubled DEF IInv
  <2> QED
    BY <2>5, <2>6, <2>7, <2>8 DEF IInv
<1> QED
  BY <1>1, <1>2

-----------------------------------------------------------------------------
(* Steps of one thread, and of the row it runs for *)

\* A step that only concerns heartbeat h: what is left to show is that h is good.
LEMMA OneHeartbeat ==
    ASSUME IInv, NEW h \in Ids,
           NEW r \in Row, rows' = [rows EXCEPT ![h] = r],
           NEW t \in ThreadState, runner' = [runner EXCEPT ![h] = t],
           UNCHANGED <<call, paused, undo, up, crashes>>,
           world' \in [Places -> Contents],
           base' \in [Ids -> [Places -> Contents \cup {Untouched}]],
           intruded' \subseteq Ids \X Places,
           overtaken' \subseteq Ids,
           skipped' \subseteq Ids,
           \A g \in Ids \ {h} : base'[g] = base[g] /\ (g \in overtaken' <=> g \in overtaken),
           rows[h].status = "ended" => r = rows[h],
           Good(h)'
    PROVE  IInv'
<1>1. TypeOK'
  BY DEF IInv, TypeOK
<1>2. ASSUME NEW g \in Ids, g # h PROVE Good(g)'
  <2>1. Good(g) /\ rows'[g] = rows[g] /\ runner'[g] = runner[g] /\ call'[g] = call[g]
    BY <1>2 DEF IInv, TypeOK
  <2>2. base'[g] = base[g] /\ (g \in overtaken' <=> g \in overtaken)
    BY <1>2
  <2> QED
    BY <2>1, <2>2, Untroubled DEF Good, RowOK
<1>3. \A u \in Reverters : UndoOK(u)'
  <2>1. \A g \in Ids : rows[g].status = "ended" => rows'[g] = rows[g]
    BY DEF IInv, TypeOK
  <2> QED
    BY <2>1, UndoUntroubled DEF IInv
<1> QED
  BY <1>1, <1>2, <1>3 DEF IInv

\* A living thread moves on without writing anything down.
LEMMA ThreadMoves ==
    ASSUME IInv, NEW h \in Ids, Alive(h), ThreadOnly,
           NEW t \in ThreadState, runner' = [runner EXCEPT ![h] = t],
           t.pc \in Working, t.mem = runner[h].mem, t.after = runner[h].after,
           runner[h].expired => t.expired,
           t.pc \in InCall => t.left > 0,
           t.pc \in WithRecord => t.rec \in Records,
           t.pc = "write" => runner[h].pc = "write" /\ t.rec = runner[h].rec,
           t.after # 0 => t.pc \in {"call", "turn", "note", "record"}
    PROVE  IInv'
<1> USE DEF ThreadOnly, history
<1>1. rows[h] \in Row /\ runner[h] \in ThreadState /\ Good(h) /\ runner'[h] = t
  BY DEF IInv, TypeOK
<1>2. rows[h].status # "none"
  BY <1>1 DEF Good, RowOK, Alive, NoThread, Working
<1>3. /\ OnRow(h)' = OnRow(h) /\ InMemory(h)' = InMemory(h)
      /\ Running(h)' = Running(h) /\ Alive(h)' /\ (Stopped(h) => Stopped(h)')
  BY <1>1 DEF OnRow, InMemory, Running, Alive, Stopped
<1>4. RowOK(h)'
  BY <1>1, <1>2 DEF Good, RowOK
<1>5. ThreadOK(h)'
  BY <1>1, <1>3 DEF Good, ThreadOK
<1>6. RecordOK(h)'
  BY <1>1, <1>3 DEF Good, RecordOK
<1>7. StopOK(h)'
  BY <1>1, <1>3 DEF Good, StopOK
<1>8. rows' = [rows EXCEPT ![h] = rows[h]]
  BY DEF IInv, TypeOK
<1> QED
  BY <1>1, <1>4, <1>5, <1>6, <1>7, <1>8, OneHeartbeat DEF IInv, TypeOK, Good

LEMMA RunMovesGood ==
    ASSUME IInv, NEW h \in Ids,
           \/ Begin(h) \/ WallClock(h) \/ Turn(h) \/ Reply(h) \/ NextCall(h) \/ ToolReturns(h)
           \/ \E d \in Docs : ReadBefore(h, d)
    PROVE  IInv'
<1>1. /\ runner[h] \in ThreadState /\ ThreadOK(h) /\ StopOK(h)
      /\ runner \in [Ids -> ThreadState]
      /\ world \in [Places -> Contents]
  BY DEF IInv, TypeOK, Good
<1> USE BoundsAssumption DEF BoundsAssumption
<1>2. CASE Begin(h)
  <2>0. PICK late \in BOOLEAN :
            runner' = [runner EXCEPT ![h].pc = "turn", ![h].overdue = late]
    BY <1>2 DEF Begin
  <2> DEFINE t == [runner[h] EXCEPT !.pc = "turn", !.overdue = late]
  <2>1. runner' = [runner EXCEPT ![h] = t] /\ t \in ThreadState /\ Alive(h) /\ ThreadOnly
    BY <1>1, <1>2, <2>0 DEF Begin, ThreadState, Alive, Working
  <2>2. t.pc = "turn" /\ t.mem = runner[h].mem /\ t.after = runner[h].after
        /\ t.expired = runner[h].expired
    BY <1>1 DEF ThreadState
  <2> QED
    BY <2>1, <2>2, ThreadMoves DEF InCall, WithRecord, Working
<1>3. CASE WallClock(h)
  <2> DEFINE t == [runner[h] EXCEPT !.expired = TRUE, !.overdue = TRUE]
  <2>1. runner' = [runner EXCEPT ![h] = t] /\ t \in ThreadState /\ Alive(h) /\ ThreadOnly
    BY <1>1, <1>3 DEF WallClock, ThreadState, Alive, Working
  <2>2. /\ t.pc = runner[h].pc /\ t.mem = runner[h].mem /\ t.after = runner[h].after
        /\ t.expired /\ t.left = runner[h].left /\ t.rec = runner[h].rec /\ t.pc \in Working
    BY <1>1, <1>3 DEF ThreadState, WallClock
  <2> QED
    BY <1>1, <2>1, <2>2, ThreadMoves DEF ThreadOK, StopOK
<1>4. CASE Turn(h)
  <2>1. Alive(h) /\ ThreadOnly /\ runner[h].pc = "turn"
    BY <1>4 DEF Turn, Alive, Working
  <2>2. CASE To(h, "record")
    <3> DEFINE t == [runner[h] EXCEPT !.pc = "record"]
    <3>1. runner' = [runner EXCEPT ![h] = t] /\ t \in ThreadState
      BY <1>1, <2>2 DEF To, ThreadState, Working
    <3>2. t.pc = "record" /\ t.mem = runner[h].mem /\ t.after = runner[h].after
          /\ t.expired = runner[h].expired
      BY <1>1 DEF ThreadState
    <3> QED
      BY <2>1, <3>1, <3>2, ThreadMoves DEF InCall, WithRecord, Working
  <2>3. CASE /\ runner[h].step # MaxSteps
             /\ ~Stopped(h)
             /\ runner' = [runner EXCEPT ![h].pc = "llm", ![h].step = @ + 1]
    <3> DEFINE k == runner[h].step + 1
               t == [runner[h] EXCEPT !.pc = "llm", !.step = k]
    <3>0. k \in 0..MaxSteps
      <4>1. runner[h].step \in 0..MaxSteps
        BY <1>1 DEF ThreadState
      <4> QED
        BY <4>1, <2>3
    <3>1. runner' = [runner EXCEPT ![h] = t] /\ t \in ThreadState
      <4>1. runner' = [runner EXCEPT ![h] = t]
        BY <1>1, <2>3
      <4>2. t \in ThreadState
        <5> HIDE DEF k
        <5> QED BY <1>1, <3>0 DEF ThreadState, Working
      <4> QED
        BY <4>1, <4>2
    <3>2. t.pc = "llm" /\ t.mem = runner[h].mem /\ t.after = runner[h].after
          /\ t.expired = runner[h].expired
      BY <1>1 DEF ThreadState
    <3>3. t.after = 0
      BY <1>1, <2>3, <3>2 DEF StopOK
    <3> QED
      BY <2>1, <3>1, <3>2, <3>3, ThreadMoves DEF InCall, WithRecord, Working
  <2> QED
    BY <1>4, <2>2, <2>3 DEF Turn
<1>5. CASE Reply(h)
  <2>1. Alive(h) /\ ThreadOnly /\ runner[h].pc = "llm"
    BY <1>5 DEF Reply, Alive, Working
  <2>2. CASE To(h, "record")
    <3> DEFINE t == [runner[h] EXCEPT !.pc = "record"]
    <3>1. runner' = [runner EXCEPT ![h] = t] /\ t \in ThreadState
      BY <1>1, <2>2 DEF To, ThreadState, Working
    <3>2. t.pc = "record" /\ t.mem = runner[h].mem /\ t.after = runner[h].after
          /\ t.expired = runner[h].expired
      BY <1>1 DEF ThreadState
    <3> QED
      BY <2>1, <3>1, <3>2, ThreadMoves DEF InCall, WithRecord, Working
  <2>3. ASSUME NEW n \in 1..MaxCalls, runner' = [runner EXCEPT ![h].pc = "call", ![h].left = n]
        PROVE  IInv'
    <3> DEFINE t == [runner[h] EXCEPT !.pc = "call", !.left = n]
    <3>0. n \in 0..MaxCalls
      OBVIOUS
    <3>1. runner' = [runner EXCEPT ![h] = t] /\ t \in ThreadState
      BY <1>1, <2>3, <3>0 DEF ThreadState, Working
    <3>2. t.pc = "call" /\ t.mem = runner[h].mem /\ t.after = runner[h].after
          /\ t.expired = runner[h].expired
      BY <1>1 DEF ThreadState
    <3> QED
      BY <2>1, <3>1, <3>2, ThreadMoves DEF InCall, WithRecord, Working
  <2> QED
    BY <1>5, <2>2, <2>3 DEF Reply
<1>6. CASE NextCall(h)
  <2>1. Alive(h) /\ ThreadOnly /\ runner[h].pc = "call"
    BY <1>6 DEF NextCall, Alive, Working
  <2>2. PICK pc \in {"turn", "record", "tool"} :
            To(h, pc) /\ (pc = "tool" => ~Stopped(h) /\ runner[h].left > 0)
    BY <1>6 DEF NextCall
  <2> DEFINE t == [runner[h] EXCEPT !.pc = pc]
  <2>3. runner' = [runner EXCEPT ![h] = t] /\ t \in ThreadState
    BY <1>1, <2>2 DEF To, ThreadState, Working
  <2>4. t.pc = pc /\ t.mem = runner[h].mem /\ t.after = runner[h].after
        /\ t.expired = runner[h].expired /\ t.left = runner[h].left
    BY <1>1 DEF ThreadState
  <2>5. pc = "tool" => t.after = 0
    BY <1>1, <2>2, <2>4 DEF StopOK
  <2> QED
    BY <2>1, <2>2, <2>3, <2>4, <2>5, ThreadMoves DEF InCall, WithRecord, Working
<1>7. CASE ToolReturns(h)
  <2> DEFINE k == runner[h].left - 1
             t == [runner[h] EXCEPT !.pc = "call", !.left = k, !.rec = None]
  <2>1. /\ runner' = [runner EXCEPT ![h] = t] /\ Alive(h) /\ ThreadOnly
        /\ runner[h].pc = "tool"
    BY <1>1, <1>7 DEF ToolReturns, Answered, Alive, Working
  <2>0. k \in 0..MaxCalls
    BY <1>1, <2>1 DEF ThreadOK, InCall, ThreadState
  <2>2. t \in ThreadState
    <3> HIDE DEF k
    <3> QED BY <1>1, <2>0 DEF ThreadState, Working
  <2>3. t.pc = "call" /\ t.mem = runner[h].mem /\ t.after = runner[h].after
        /\ t.expired = runner[h].expired
    BY <1>1 DEF ThreadState
  <2> QED
    BY <2>1, <2>2, <2>3, ThreadMoves DEF InCall, WithRecord, Working
<1>8. ASSUME NEW d \in Docs, ReadBefore(h, d) PROVE IInv'
  <2> DEFINE rec == [doc |-> d, before |-> world[d]]
             t == [runner[h] EXCEPT !.pc = "journal", !.rec = rec]
  <2>1. /\ runner' = [runner EXCEPT ![h] = t] /\ Alive(h) /\ ThreadOnly
        /\ runner[h].pc = "tool"
    BY <1>1, <1>8 DEF ReadBefore, Alive, Working
  <2>2. rec \in Records
    BY <1>1 DEF Records, Places
  <2>3. t \in ThreadState
    BY <1>1, <2>2 DEF ThreadState, Working
  <2>4. /\ t.pc = "journal" /\ t.mem = runner[h].mem /\ t.after = runner[h].after
        /\ t.expired = runner[h].expired /\ t.left = runner[h].left /\ t.rec = rec
    BY <1>1 DEF ThreadState
  <2>5. t.after = 0 /\ t.left > 0
    BY <1>1, <2>1, <2>4 DEF StopOK, ThreadOK, InCall
  <2> QED
    BY <2>1, <2>2, <2>3, <2>4, <2>5, ThreadMoves DEF InCall, WithRecord, Working
<1> QED
  BY <1>2, <1>3, <1>4, <1>5, <1>6, <1>7, <1>8

\* A record reaches the memory of the thread, the row, both, or neither; never
\* the memory alone while the row runs.
LEMMA NoteGood ==
    ASSUME IInv, NEW h \in Ids, runner[h].pc \in {"journal", "note"},
           UNCHANGED <<paused, call, undo, world, up, crashes, history>>,
           NEW onRow \in BOOLEAN, NEW inMemory \in BOOLEAN,
           onRow => Running(h), inMemory /\ Running(h) => onRow,
           NEW t \in ThreadState, runner' = [runner EXCEPT ![h] = t],
           t.mem = IF inMemory THEN Append(runner[h].mem, runner[h].rec) ELSE runner[h].mem,
           t.after = runner[h].after, t.expired = runner[h].expired,
           t.pc \in {"call", "write"},
           t.pc = "write" => inMemory /\ runner[h].pc = "journal"
                             /\ t.left = runner[h].left /\ t.rec = runner[h].rec,
           rows' = IF onRow THEN [rows EXCEPT ![h].journal = Append(@, runner[h].rec)] ELSE rows
    PROVE  IInv'
<1> USE DEF history
<1> DEFINE rec == runner[h].rec
           journal == IF onRow THEN Append(rows[h].journal, rec) ELSE rows[h].journal
           r == [rows[h] EXCEPT !.journal = journal]
<1>1. /\ rows[h] \in Row /\ runner[h] \in ThreadState /\ Good(h) /\ runner'[h] = t
      /\ rows \in [Ids -> Row]
  BY DEF IInv, TypeOK
<1>2. rec \in Records /\ rows[h].journal \in Seq(Records) /\ runner[h].mem \in Seq(Records)
  BY <1>1 DEF Good, ThreadOK, WithRecord, Row, ThreadState
<1>3. journal \in Seq(Records)
  BY <1>2, Appended
<1>4. r \in Row
  <2> HIDE DEF journal
  <2> QED BY <1>1, <1>3 DEF Row
<1>5. rows' = [rows EXCEPT ![h] = r]
  BY <1>1 DEF Row
<1>6. rows'[h] = r
  BY <1>1, <1>5
<1>7. /\ r.status = rows[h].status /\ r.reverted = rows[h].reverted /\ r.cancel = rows[h].cancel
      /\ r.journal = journal
  BY <1>1 DEF Row
<1>8. /\ onRow => OnRow(h)' = OnRow(h) \cup {rec}
      /\ ~onRow => OnRow(h)' = OnRow(h)
  <2>1. OnRow(h)' = Range(journal)
    BY <1>6, <1>7 DEF OnRow
  <2>2. Range(Append(rows[h].journal, rec)) = OnRow(h) \cup {rec}
    BY <1>2, Appended DEF OnRow
  <2> QED
    BY <2>1, <2>2 DEF OnRow
<1>9. /\ inMemory => InMemory(h)' = InMemory(h) \cup {rec}
      /\ ~inMemory => InMemory(h)' = InMemory(h)
  <2>1. InMemory(h)' = Range(t.mem)
    BY <1>1 DEF InMemory
  <2>2. Range(Append(runner[h].mem, rec)) = InMemory(h) \cup {rec}
    BY <1>2, Appended DEF InMemory
  <2> QED
    BY <2>1, <2>2 DEF InMemory
<1>10. (Running(h)' <=> Running(h)) /\ Alive(h) /\ Alive(h)' /\ (Stopped(h)' <=> Stopped(h))
  BY <1>1, <1>6, <1>7 DEF Running, Alive, Stopped, Working
<1> HIDE DEF r, journal
<1>11. RowOK(h)'
  <2>1. rows[h].status # "none"
    BY <1>1, <1>10 DEF Good, RowOK, Alive, NoThread, Working
  <2>2. rows[h].reverted => r.journal = rows[h].journal
    BY <1>1, <1>7 DEF journal, Good, RowOK, Running
  <2> QED
    BY <1>1, <1>6, <1>7, <2>1, <2>2 DEF Good, RowOK
<1>12. ThreadOK(h)'
  BY <1>1, <1>9 DEF Good, ThreadOK, InCall, WithRecord
<1>13. RecordOK(h)'
  <2>1. Running(h)' => InMemory(h)' \subseteq OnRow(h)'
    BY <1>1, <1>8, <1>9, <1>10 DEF Good, RecordOK
  <2>2. InMemory(h) \subseteq InMemory(h)' /\ OnRow(h) \subseteq OnRow(h)'
    BY <1>8, <1>9
  <2> QED
    BY <1>1, <1>6, <1>7, <1>10, <2>1, <2>2 DEF Good, RecordOK
<1>14. StopOK(h)'
  BY <1>1, <1>10 DEF Good, StopOK
<1>15. Good(h)'
  BY <1>11, <1>12, <1>13, <1>14 DEF Good
<1>16. rows[h].status = "ended" => r = rows[h]
  BY <1>1 DEF r, journal, Row, Running
<1> QED
  BY <1>4, <1>5, <1>15, <1>16, OneHeartbeat DEF IInv, TypeOK

LEMMA JournalGood ==
    ASSUME IInv, NEW h \in Ids, Journal(h)
    PROVE  IInv'
<1> DEFINE rec == runner[h].rec
           noted == Append(runner[h].mem, rec)
           k == runner[h].left - 1
           atWrite == [runner[h] EXCEPT !.pc = "write", !.mem = noted]
           atCall == [runner[h] EXCEPT !.pc = "call", !.left = k, !.mem = noted, !.rec = None]
           t == IF runner[h].pc = "journal" THEN atWrite ELSE atCall
<1>1. /\ runner[h] \in ThreadState /\ ThreadOK(h) /\ runner[h].pc \in {"journal", "note"}
      /\ runner[h].mem \in Seq(Records) /\ runner[h].left \in 0..MaxCalls
  BY DEF IInv, TypeOK, Good, Journal, ThreadState
<1>2. rec \in Records /\ runner[h].left > 0
  BY <1>1 DEF ThreadOK, WithRecord, InCall
<1>3. noted \in Seq(Records)
  BY <1>1, <1>2, Appended
<1>4. k \in 0..MaxCalls
  BY <1>1, <1>2, BoundsAssumption DEF BoundsAssumption
<1>5. runner' = [runner EXCEPT ![h] = t]
  BY <1>1 DEF Journal
<1>6. t \in ThreadState
  <2> HIDE DEF k, noted
  <2> QED BY <1>1, <1>3, <1>4 DEF ThreadState, Working
<1>7. /\ t.mem = noted /\ t.after = runner[h].after /\ t.expired = runner[h].expired
      /\ t.pc \in {"call", "write"}
      /\ t.pc = "write" => /\ runner[h].pc = "journal" /\ t.left = runner[h].left
                           /\ t.rec = runner[h].rec
  BY <1>1 DEF ThreadState
<1>8. Running(h) \in BOOLEAN
  BY DEF Running
<1> HIDE DEF t
<1>9. rows' = IF Running(h) THEN [rows EXCEPT ![h].journal = Append(@, runner[h].rec)] ELSE rows
  BY DEF Journal
<1>10. UNCHANGED <<paused, call, undo, world, up, crashes, history>>
  BY DEF Journal
<1> QED
  BY <1>1, <1>5, <1>6, <1>7, <1>8, <1>9, <1>10, NoteGood

LEMMA SinkFailsGood ==
    ASSUME IInv, NEW h \in Ids, SinkFails(h)
    PROVE  IInv'
<1> DEFINE k == runner[h].left - 1
           t == [runner[h] EXCEPT !.pc = "call", !.left = k, !.rec = None]
<1>1. /\ runner[h] \in ThreadState /\ ThreadOK(h) /\ runner[h].pc \in {"journal", "note"}
      /\ runner[h].left \in 0..MaxCalls
  BY DEF IInv, TypeOK, Good, SinkFails, ThreadState
<1>2. k \in 0..MaxCalls
  BY <1>1, BoundsAssumption DEF ThreadOK, InCall, BoundsAssumption
<1>3. runner' = [runner EXCEPT ![h] = t]
  BY DEF SinkFails, Answered
<1>4. t \in ThreadState
  <2> HIDE DEF k
  <2> QED BY <1>1, <1>2 DEF ThreadState, Working
<1>5. /\ t.mem = runner[h].mem /\ t.after = runner[h].after /\ t.expired = runner[h].expired
      /\ t.pc = "call"
  BY <1>1 DEF ThreadState
<1> HIDE DEF t
<1>6. UNCHANGED <<paused, call, undo, world, up, crashes, history>>
  BY DEF SinkFails
<1>7. CASE UNCHANGED rows
  BY <1>1, <1>3, <1>4, <1>5, <1>6, <1>7, NoteGood
<1>8. CASE Running(h) /\ rows' = [rows EXCEPT ![h].journal = Append(@, runner[h].rec)]
  BY <1>1, <1>3, <1>4, <1>5, <1>6, <1>8, NoteGood
<1> QED
  BY <1>7, <1>8 DEF SinkFails

\* A change of the platform by a thread that knows the document it changes, if
\* that is one of Docs, and was not yet told to stop before its last check.
LEMMA ChangeGood ==
    ASSUME IInv, NEW h \in Ids, Alive(h), runner[h].after = 0,
           NEW d \in Places, NEW v \in Contents, Change(h, d, v),
           d \in Docs => \E r \in InMemory(h) : r.doc = d,
           UNCHANGED <<rows, paused, call, undo, up, crashes, overtaken, skipped>>,
           NEW t \in ThreadState, runner' = [runner EXCEPT ![h] = t],
           t.mem = runner[h].mem, t.after = Later(h), t.expired = runner[h].expired,
           t.pc \in {"call", "note"},
           t.pc = "note" => t.left > 0 /\ t.rec \in Records
    PROVE  IInv'
<1>1. /\ rows[h] \in Row /\ runner[h] \in ThreadState /\ Good(h) /\ runner'[h] = t
      /\ base \in [Ids -> [Places -> Contents \cup {Untouched}]]
      /\ world \in [Places -> Contents]
      /\ intruded \subseteq Ids \X Places
  BY DEF IInv, TypeOK
<1>2. world' \in [Places -> Contents]
  BY <1>1 DEF Change
<1>3. intruded' \subseteq Ids \X Places
  BY <1>1 DEF Change, Intrude
<1>4. /\ base' \in [Ids -> [Places -> Contents \cup {Untouched}]]
      /\ \A g \in Ids \ {h} : base'[g] = base[g]
      /\ \A e \in Places \ {d} : base'[h][e] = base[h][e]
  <2> DEFINE b == IF base[h][d] = Untouched THEN world[d] ELSE base[h][d]
  <2>1. base' = [base EXCEPT ![h][d] = b]
    BY <1>1 DEF Change
  <2>2. b \in Contents \cup {Untouched}
    BY <1>1
  <2> HIDE DEF b
  <2> QED
    BY <1>1, <2>1, <2>2
<1>5. /\ OnRow(h)' = OnRow(h) /\ InMemory(h)' = InMemory(h)
      /\ Running(h)' = Running(h) /\ Alive(h)' /\ Stopped(h)' = Stopped(h)
  BY <1>1 DEF OnRow, InMemory, Running, Alive, Stopped, Working
<1>6. RowOK(h)'
  <2>1. rows[h].status # "none"
    BY <1>1 DEF Good, RowOK, Alive, NoThread, Working
  <2> QED
    BY <1>1, <2>1 DEF Good, RowOK
<1>7. ThreadOK(h)'
  BY <1>1, <1>5 DEF Good, ThreadOK, InCall, WithRecord
<1>8. RecordOK(h)'
  <2>1. \A e \in Docs : base'[h][e] # Untouched => \E r \in InMemory(h) : r.doc = e
    BY <1>1, <1>4 DEF Good, RecordOK, Places
  <2>2. Running(h) => InMemory(h) \subseteq OnRow(h)
    BY <1>1 DEF Good, RecordOK
  <2>3. h \notin overtaken => Running(h)
    BY <1>1 DEF Good, RecordOK
  <2> QED
    BY <1>5, <2>1, <2>2, <2>3 DEF RecordOK
<1>9. StopOK(h)'
  BY <1>1, <1>5 DEF StopOK, Later
<1>10. Good(h)'
  BY <1>6, <1>7, <1>8, <1>9 DEF Good
<1>11. rows' = [rows EXCEPT ![h] = rows[h]]
  BY DEF IInv, TypeOK
<1> QED
  BY <1>1, <1>2, <1>3, <1>4, <1>10, <1>11, OneHeartbeat DEF IInv, TypeOK

LEMMA WriteGood ==
    ASSUME IInv, NEW h \in Ids, NEW v \in Contents, Write(h, v)
    PROVE  IInv'
<1>1. /\ runner[h] \in ThreadState /\ ThreadOK(h) /\ StopOK(h) /\ runner[h].pc = "write"
      /\ runner[h].left \in 0..MaxCalls /\ Alive(h)
  BY DEF IInv, TypeOK, Good, Write, ThreadState, Alive, Working
<1> DEFINE k == runner[h].left - 1
           rec == runner[h].rec
<1>2. k \in 0..MaxCalls
  BY <1>1, BoundsAssumption DEF ThreadOK, InCall, BoundsAssumption
<1>3. rec \in Records /\ rec \in InMemory(h) /\ runner[h].after = 0
  BY <1>1 DEF ThreadOK, WithRecord, StopOK
<1>4. Later(h) \in Nat
  BY <1>3 DEF Later
<1>5. CASE /\ Change(h, rec.doc, v)
           /\ runner' = [runner EXCEPT ![h].pc = "call", ![h].left = @ - 1,
                                       ![h].rec = None, ![h].after = Later(h)]
  <2> DEFINE t == [runner[h] EXCEPT !.pc = "call", !.left = k, !.rec = None, !.after = Later(h)]
  <2>1. runner' = [runner EXCEPT ![h] = t]
    BY <1>5
  <2>2. t \in ThreadState
    <3> HIDE DEF k
    <3> QED BY <1>1, <1>2, <1>4 DEF ThreadState, Working
  <2>3. t.mem = runner[h].mem /\ t.after = Later(h) /\ t.expired = runner[h].expired /\ t.pc = "call"
    BY <1>1 DEF ThreadState
  <2>4. UNCHANGED <<rows, paused, call, undo, up, crashes, overtaken, skipped>>
    BY DEF Write
  <2>5. rec.doc \in Places
    BY <1>3 DEF Records
  <2> HIDE DEF t
  <2> QED
    BY <1>1, <1>3, <1>5, <2>1, <2>2, <2>3, <2>4, <2>5, ChangeGood
<1>6. CASE Answered(h) /\ UNCHANGED <<world, base, intruded>>
  <2> DEFINE t == [runner[h] EXCEPT !.pc = "call", !.left = k, !.rec = None]
  <2>1. runner' = [runner EXCEPT ![h] = t]
    BY <1>6 DEF Answered
  <2>2. t \in ThreadState
    <3> HIDE DEF k
    <3> QED BY <1>1, <1>2 DEF ThreadState, Working
  <2>3. /\ t.mem = runner[h].mem /\ t.after = runner[h].after /\ t.expired = runner[h].expired
        /\ t.pc = "call"
    BY <1>1 DEF ThreadState
  <2>4. ThreadOnly
    BY <1>6 DEF Write, ThreadOnly, history
  <2> HIDE DEF t
  <2> QED
    BY <1>1, <2>1, <2>2, <2>3, <2>4, ThreadMoves DEF InCall, WithRecord, Working
<1> QED
  BY <1>5, <1>6 DEF Write

LEMMA CreateGood ==
    ASSUME IInv, NEW h \in Ids, NEW f \in Fresh, NEW v \in Values, Create(h, f, v)
    PROVE  IInv'
<1>1. /\ runner[h] \in ThreadState /\ ThreadOK(h) /\ StopOK(h) /\ runner[h].pc = "tool"
      /\ Alive(h)
  BY DEF IInv, TypeOK, Good, Create, Alive, Working
<1>2. runner[h].after = 0 /\ runner[h].left > 0
  BY <1>1 DEF StopOK, ThreadOK, InCall
<1> DEFINE rec == [doc |-> f, before |-> None]
           t == [runner[h] EXCEPT !.pc = "note", !.rec = rec, !.after = Later(h)]
<1>3. rec \in Records /\ f \in Places /\ v \in Contents
  BY DEF Records, Places, Contents
<1>4. Later(h) \in Nat
  BY <1>2 DEF Later
<1>5. runner' = [runner EXCEPT ![h] = t]
  BY DEF Create
<1>6. t \in ThreadState
  <2> HIDE DEF rec
  <2> QED BY <1>1, <1>3, <1>4 DEF ThreadState, Working
<1>7. /\ t.mem = runner[h].mem /\ t.after = Later(h) /\ t.expired = runner[h].expired
      /\ t.pc = "note" /\ t.left = runner[h].left /\ t.rec = rec
  BY <1>1 DEF ThreadState
<1>8. /\ Change(h, f, v)
      /\ UNCHANGED <<rows, paused, call, undo, up, crashes, overtaken, skipped>>
  BY DEF Create
<1>9. f \notin Docs
  BY DocsAssumption DEF DocsAssumption
<1> HIDE DEF t, rec
<1> QED
  BY <1>1, <1>2, <1>3, <1>5, <1>6, <1>7, <1>8, <1>9, ChangeGood

LEMMA GoneTyped ==
    /\ [NoThread EXCEPT !.pc = "gone"] \in ThreadState
    /\ [NoThread EXCEPT !.pc = "gone"].pc = "gone"
    /\ [NoThread EXCEPT !.pc = "gone"].after = 0
    /\ [NoThread EXCEPT !.pc = "gone"].mem = <<>>
<1>1. NoThread \in ThreadState
  BY BoundsAssumption DEF NoThread, ThreadState, BoundsAssumption
<1>2. NoThread.after = 0 /\ NoThread.mem = <<>>
  BY DEF NoThread
<1> QED
  BY <1>1, <1>2 DEF ThreadState

\* The thread ends, with or without its last statement.
LEMMA ThreadEndGood ==
    ASSUME IInv, NEW h \in Ids, RecordOutcome(h) \/ RecordFails(h)
    PROVE  IInv'
<1> DEFINE t == [NoThread EXCEPT !.pc = "gone"]
           r == IF RecordFails(h) \/ ~Running(h) THEN rows[h]
                ELSE [rows[h] EXCEPT !.status = "ended", !.journal = runner[h].mem]
<1>1. /\ rows[h] \in Row /\ runner[h] \in ThreadState /\ Good(h) /\ rows \in [Ids -> Row]
      /\ runner \in [Ids -> ThreadState] /\ Alive(h) /\ runner[h].mem \in Seq(Records)
  BY DEF IInv, TypeOK, RecordOutcome, RecordFails, Alive, Working, ThreadState
<1>2. /\ UNCHANGED <<paused, call, undo, world, up, crashes, history>>
      /\ runner' = [runner EXCEPT ![h] = t]
  BY DEF RecordOutcome, RecordFails, ThreadOnly, ThreadEnds
<1>3. r \in Row
  BY <1>1 DEF Row
<1>4. rows' = [rows EXCEPT ![h] = r]
  BY <1>1 DEF RecordOutcome, RecordFails, ThreadOnly, Row
<1>5. t \in ThreadState /\ t.pc = "gone" /\ t.after = 0
  BY GoneTyped
<1>6. rows'[h] = r /\ runner'[h] = t
  BY <1>1, <1>2, <1>4
<1>7. ~Alive(h)'
  BY <1>5, <1>6 DEF Alive, Working
<1>8. /\ r.status \in {"ended", rows[h].status} /\ r.reverted = rows[h].reverted
      /\ Running(h) /\ r # rows[h] => r.status = "ended" /\ r.journal = runner[h].mem
      /\ ~Running(h) => r = rows[h]
  BY <1>1 DEF Row
<1>9. RowOK(h)'
  <2>1. rows[h].status # "none"
    BY <1>1 DEF Good, RowOK, Alive, NoThread, Working
  <2>2. rows[h].reverted => ~Running(h)
    BY <1>1 DEF Good, RowOK, Running
  <2> QED
    BY <1>1, <1>2, <1>6, <1>8, <2>1, <2>2 DEF Good, RowOK
<1>10. ThreadOK(h)'
  BY <1>5, <1>6 DEF ThreadOK, InCall, WithRecord
<1>11. RecordOK(h)'
  <2>1. r # rows[h] => ~Running(h)' /\ OnRow(h)' = InMemory(h)
    BY <1>6, <1>8 DEF Running, OnRow, InMemory
  <2>2. r = rows[h] => OnRow(h)' = OnRow(h) /\ (Running(h)' <=> Running(h))
    BY <1>6 DEF OnRow, Running
  <2>3. InMemory(h)' = {}
    BY <1>6, GoneTyped DEF InMemory, Range
  <2> QED
    BY <1>1, <1>2, <1>6, <1>7, <1>8, <2>1, <2>2, <2>3 DEF Good, RecordOK, history
<1>12. StopOK(h)'
  BY <1>5, <1>6 DEF StopOK
<1>13. Good(h)'
  BY <1>9, <1>10, <1>11, <1>12 DEF Good
<1>14. rows[h].status = "ended" => r = rows[h]
  BY DEF Running
<1> HIDE DEF r, t
<1> QED
  BY <1>2, <1>3, <1>4, <1>5, <1>13, <1>14, OneHeartbeat DEF IInv, TypeOK, history

\* The watchdog and a cancel touch a running row and no thread.
LEMMA RowMovesGood ==
    ASSUME IInv, NEW h \in Ids, Watchdog(h) \/ RequestCancel(h)
    PROVE  IInv'
<1> DEFINE r == IF Watchdog(h) THEN [rows[h] EXCEPT !.status = "ended"]
                ELSE [rows[h] EXCEPT !.cancel = TRUE]
<1>1. /\ rows[h] \in Row /\ runner[h] \in ThreadState /\ Good(h) /\ rows \in [Ids -> Row]
      /\ runner \in [Ids -> ThreadState] /\ Running(h)
  BY DEF IInv, TypeOK, Watchdog, RequestCancel
<1>2. /\ UNCHANGED <<runner, paused, call, undo, world, up, crashes, base, intruded, skipped>>
      /\ rows' = [rows EXCEPT ![h] = r]
  BY <1>1 DEF Watchdog, RequestCancel, history
<1>3. /\ r \in Row /\ r.journal = rows[h].journal /\ r.reverted = rows[h].reverted
      /\ r.status \in {"running", "ended"} /\ (rows[h].cancel => r.cancel)
  BY <1>1 DEF Row, Running
<1>4. rows'[h] = r /\ runner' = [runner EXCEPT ![h] = runner[h]]
  BY <1>1, <1>2
<1>5. /\ overtaken \subseteq overtaken' /\ overtaken' \subseteq overtaken \cup {h}
      /\ Alive(h) /\ r.status = "ended" => h \in overtaken'
  <2>1. CASE Watchdog(h)
    BY <2>1 DEF Watchdog
  <2>2. CASE ~Watchdog(h)
    BY <1>1, <2>2 DEF RequestCancel, history, Running, Row
  <2> QED
    BY <2>1, <2>2
<1>6. /\ OnRow(h)' = OnRow(h) /\ InMemory(h)' = InMemory(h) /\ Alive(h)' = Alive(h)
      /\ Stopped(h) => Stopped(h)'
  BY <1>2, <1>3, <1>4 DEF OnRow, InMemory, Alive, Stopped
<1>7. RowOK(h)'
  BY <1>1, <1>2, <1>3, <1>4 DEF Good, RowOK, Running
<1>8. ThreadOK(h)'
  BY <1>1, <1>2, <1>6 DEF Good, ThreadOK
<1>9. RecordOK(h)'
  <2>1. (Running(h)' => Running(h)) /\ (~Running(h)' => r.status = "ended")
    BY <1>1, <1>3, <1>4 DEF Running
  <2> QED
    BY <1>1, <1>2, <1>3, <1>4, <1>5, <1>6, <2>1 DEF Good, RecordOK
<1>10. StopOK(h)'
  BY <1>1, <1>2, <1>6 DEF Good, StopOK
<1>11. Good(h)'
  BY <1>7, <1>8, <1>9, <1>10 DEF Good
<1>12. rows[h].status = "ended" => r = rows[h]
  BY <1>1 DEF Running
<1> HIDE DEF r
<1> QED
  BY <1>1, <1>2, <1>3, <1>4, <1>5, <1>11, <1>12, OneHeartbeat DEF IInv, TypeOK

-----------------------------------------------------------------------------
(* Steps that are not of one heartbeat *)

LEMMA PauseGood ==
    ASSUME IInv, NEW p \in BOOLEAN, SetPaused(p)
    PROVE  IInv'
<1> DEFINE keep(h) == p \/ rows[h].cancel \/ runner[h].expired
<1>1. /\ UNCHANGED <<rows, call, undo, world, up, crashes, base, intruded, overtaken, skipped>>
      /\ paused' = p
      /\ runner \in [Ids -> ThreadState]
      /\ runner' = [h \in Ids |-> IF keep(h) THEN runner[h] ELSE [runner[h] EXCEPT !.after = 0]]
  BY DEF SetPaused, history, IInv, TypeOK
<1>2. ASSUME NEW h \in Ids
      PROVE  /\ runner'[h] \in ThreadState
             /\ runner'[h].pc = runner[h].pc /\ runner'[h].mem = runner[h].mem
             /\ runner'[h].left = runner[h].left /\ runner'[h].rec = runner[h].rec
             /\ runner'[h].expired = runner[h].expired
             /\ keep(h) => runner'[h] = runner[h]
             /\ ~keep(h) => runner'[h].after = 0
             /\ runner[h] = NoThread => runner'[h] = NoThread
  <2> HIDE DEF keep
  <2>1. runner[h] \in ThreadState
    BY <1>1
  <2>2. CASE keep(h)
    BY <1>1, <2>1, <2>2
  <2>3. CASE ~keep(h)
    <3>1. runner'[h] = [runner[h] EXCEPT !.after = 0]
      BY <1>1, <2>3
    <3> QED
      BY <2>1, <2>3, <3>1 DEF ThreadState, NoThread
  <2> QED
    BY <2>2, <2>3
<1>3. TypeOK'
  <2>1. runner' \in [Ids -> ThreadState]
    BY <1>1, <1>2
  <2> QED
    BY <1>1, <2>1 DEF IInv, TypeOK
<1>4. ASSUME NEW h \in Ids PROVE Good(h)'
  <2>1. /\ OnRow(h)' = OnRow(h) /\ InMemory(h)' = InMemory(h)
        /\ Running(h)' = Running(h) /\ Alive(h)' = Alive(h)
    BY <1>1, <1>2 DEF OnRow, InMemory, Running, Alive
  <2>2. Good(h)
    BY DEF IInv
  <2>3. keep(h) => Stopped(h)'
    BY <1>1, <1>2 DEF Stopped
  <2> HIDE DEF keep
  <2>4. RowOK(h)' /\ ThreadOK(h)' /\ RecordOK(h)'
    BY <1>1, <1>2, <2>1, <2>2 DEF Good, RowOK, ThreadOK, RecordOK
  <2>5. StopOK(h)'
    BY <1>2, <2>2, <2>3 DEF Good, StopOK
  <2> QED
    BY <2>4, <2>5 DEF Good
<1>5. \A u \in Reverters : UndoOK(u)'
  BY <1>1, UndoUntroubled DEF IInv
<1> QED
  BY <1>3, <1>4, <1>5 DEF IInv

\* A revert reads an ended row and restores documents.
LEMMA RestoreGood ==
    ASSUME IInv, NEW u \in Reverters,
           (\E h \in Ids : Revert(u, h)) \/ RestoreOne(u)
    PROVE  IInv'
<1>1. /\ UNCHANGED <<rows, call, runner, paused, up, crashes, base, overtaken>>
      /\ undo \in [Reverters -> [hb : Ids \cup {None}, left : Seq(Records)]]
      /\ UndoOK(u)
      /\ undo[u].left \in Seq(Records)
  BY DEF IInv, TypeOK, Revert, RestoreOne, history
<1>2. ASSUME NEW g \in Ids PROVE Good(g)'
  BY <1>1, Untroubled DEF IInv, Good, RowOK
<1>3. CASE \E h \in Ids : Revert(u, h)
  <2>1. PICK h \in Ids : Revert(u, h)
    BY <1>3
  <2> DEFINE n == [hb |-> h, left |-> rows[h].journal]
  <2>2. /\ undo' = [undo EXCEPT ![u] = n] /\ UNCHANGED <<world, intruded, skipped>>
        /\ rows[h].status = "ended" /\ rows[h].journal # <<>> /\ rows[h] \in Row
    BY <2>1 DEF Revert, history, Ended, IInv, TypeOK
  <2>3. n \in [hb : Ids \cup {None}, left : Seq(Records)]
    BY <2>2 DEF Row
  <2>4. TypeOK'
    BY <1>1, <2>2, <2>3 DEF IInv, TypeOK
  <2>5. ASSUME NEW w \in Reverters PROVE UndoOK(w)'
    BY <1>1, <2>2 DEF IInv, UndoOK
  <2> QED
    BY <1>2, <2>4, <2>5 DEF IInv
<1>4. CASE RestoreOne(u)
  <2> DEFINE left == undo[u].left
             last == left[Len(left)]
             rest == SubSeq(left, 1, Len(left) - 1)
  <2>1. /\ left # <<>> /\ undo' = [undo EXCEPT ![u].left = rest]
        /\ \/ /\ world' = [world EXCEPT ![last.doc] = last.before]
              /\ Intrude(undo[u].hb, last.doc)
              /\ UNCHANGED skipped
           \/ /\ skipped' = skipped \cup {undo[u].hb}
              /\ UNCHANGED <<world, intruded>>
    BY <1>4 DEF RestoreOne
  <2>2. /\ undo[u].hb \in Ids
        /\ Len(left) \in Nat \ {0}
        /\ last \in Records
        /\ rest \in Seq(Records)
    <3>1. undo[u].hb \in Ids /\ Len(left) \in Nat \ {0}
      BY <1>1, <2>1, EmptySeq DEF UndoOK
    <3>2. last \in Records
      BY <1>1, <3>1, ElementOfSeq
    <3>3. \A i \in 1..(Len(left) - 1) : left[i] \in Records
      BY <1>1, <3>1, ElementOfSeq
    <3>4. rest \in Seq(Records)
      BY <3>1, <3>3, SubSeqProperties
    <3> QED
      BY <3>1, <3>2, <3>4
  <2>3. last.doc \in Places /\ last.before \in Contents
    BY <2>2 DEF Records
  <2> HIDE DEF last, rest
  <2>4. /\ world' \in [Places -> Contents] /\ intruded' \subseteq Ids \X Places
        /\ skipped' \subseteq Ids
    <3>1. world \in [Places -> Contents] /\ intruded \subseteq Ids \X Places /\ skipped \subseteq Ids
      BY DEF IInv, TypeOK
    <3>2. CASE /\ world' = [world EXCEPT ![last.doc] = last.before]
               /\ Intrude(undo[u].hb, last.doc)
               /\ UNCHANGED skipped
      <4>1. world' \in [Places -> Contents]
        BY <2>3, <3>1, <3>2
      <4>2. intruded' \subseteq Ids \X Places
        BY <2>3, <3>1, <3>2 DEF Intrude
      <4> QED
        BY <3>1, <3>2, <4>1, <4>2
    <3>3. CASE skipped' = skipped \cup {undo[u].hb} /\ UNCHANGED <<world, intruded>>
      BY <2>2, <3>1, <3>3
    <3> QED
      BY <2>1, <3>2, <3>3
  <2>5. undo' \in [Reverters -> [hb : Ids \cup {None}, left : Seq(Records)]]
    BY <1>1, <2>1, <2>2
  <2>6. TypeOK'
    BY <1>1, <2>4, <2>5 DEF IInv, TypeOK
  <2>7. ASSUME NEW w \in Reverters PROVE UndoOK(w)'
    <3>1. undo'[w].hb = undo[w].hb /\ (w # u => undo'[w] = undo[w])
      BY <1>1, <2>1
    <3>2. UndoOK(w)
      BY DEF IInv
    <3> QED
      BY <1>1, <2>2, <3>1, <3>2 DEF UndoOK
  <2> QED
    BY <1>2, <2>6, <2>7 DEF IInv
<1> QED
  BY <1>3, <1>4

LEMMA MarkRevertedGood ==
    ASSUME IInv, NEW u \in Reverters, MarkReverted(u)
    PROVE  IInv'
<1> PICK h \in Ids : h = undo[u].hb
  BY DEF IInv, TypeOK, MarkReverted
<1> DEFINE r == [rows[h] EXCEPT !.journal = <<>>, !.reverted = TRUE]
<1>1. /\ h \in Ids /\ rows[h].status = "ended"
      /\ UNCHANGED <<paused, call, runner, world, up, crashes, base, intruded, overtaken, skipped>>
      /\ undo' = [undo EXCEPT ![u] = Idle]
      /\ UndoOK(u)
      /\ undo \in [Reverters -> [hb : Ids \cup {None}, left : Seq(Records)]]
      /\ rows \in [Ids -> Row]
  BY DEF IInv, TypeOK, MarkReverted, UndoOK, history
<1>2. rows' = [rows EXCEPT ![h] = r] /\ r \in Row
  <2>1. rows[h] \in Row
    BY <1>1
  <2> QED
    BY <1>1, <2>1 DEF MarkReverted, Row
<1>3. rows'[h] = r /\ r.status = "ended" /\ r.journal = <<>> /\ r.reverted /\ r.cancel = rows[h].cancel
  BY <1>1, <1>2 DEF Row
<1>4. TypeOK'
  BY <1>1, <1>2 DEF IInv, TypeOK, Idle
<1>5. ASSUME NEW g \in Ids, g # h PROVE Good(g)'
  <2>1. rows'[g] = rows[g] /\ Good(g)
    BY <1>1, <1>2, <1>5 DEF IInv
  <2> QED
    BY <1>1, <2>1, Untroubled DEF Good, RowOK
<1>6. Good(h)'
  <2>1. Good(h) /\ ~Running(h) /\ ~Running(h)'
    BY <1>1, <1>3 DEF IInv, Running
  <2>2. InMemory(h)' = InMemory(h) /\ Alive(h)' = Alive(h) /\ Stopped(h)' = Stopped(h)
    BY <1>1, <1>3 DEF InMemory, Alive, Stopped
  <2> HIDE DEF r
  <2>3. RowOK(h)'
    BY <1>1, <1>3, <2>1 DEF Good, RowOK
  <2>4. ThreadOK(h)' /\ StopOK(h)'
    BY <1>1, <2>1, <2>2 DEF Good, ThreadOK, StopOK
  <2>5. RecordOK(h)'
    BY <1>1, <1>3, <2>1, <2>2 DEF Good, RecordOK
  <2> QED
    BY <2>3, <2>4, <2>5 DEF Good
<1>7. ASSUME NEW w \in Reverters PROVE UndoOK(w)'
  <2>1. UndoOK(w) /\ undo[w].hb \in Ids \cup {None}
    BY <1>1 DEF IInv
  <2>2. w = u => undo'[w] = Idle
    BY <1>1
  <2>3. w # u => undo'[w] = undo[w]
    BY <1>1
  <2>4. \A g \in Ids : g = h \/ rows'[g] = rows[g]
    BY <1>1, <1>2
  <2> HIDE DEF r
  <2> QED
    BY <1>3, <2>1, <2>2, <2>3, <2>4 DEF UndoOK, Idle
<1> QED
  BY <1>4, <1>5, <1>6, <1>7 DEF IInv

LEMMA CrashGood == IInv /\ Crash => IInv'
<1> SUFFICES ASSUME IInv, Crash PROVE IInv'
  OBVIOUS
<1> DEFINE gone == [NoThread EXCEPT !.pc = "gone"]
<1>1. /\ UNCHANGED <<rows, paused, world, base, intruded, overtaken>>
      /\ call' = [h \in Ids |-> IF call[h] = "unused" THEN "unused" ELSE "over"]
      /\ runner' = [h \in Ids |-> IF Alive(h) THEN gone ELSE runner[h]]
      /\ undo' = [u \in Reverters |-> Idle]
      /\ skipped' \subseteq Ids /\ up' = FALSE /\ crashes' \in 0..MaxCrashes
  <2>1. crashes' \in 0..MaxCrashes
    BY BoundsAssumption DEF Crash, IInv, TypeOK, BoundsAssumption
  <2> QED
    BY <2>1 DEF Crash, IInv, TypeOK
<1>2. TypeOK'
  <2>1. runner' \in [Ids -> ThreadState]
    BY <1>1, GoneTyped DEF IInv, TypeOK
  <2>2. call' \in [Ids -> CallPcs]
    BY <1>1 DEF CallPcs
  <2>3. undo' \in [Reverters -> [hb : Ids \cup {None}, left : Seq(Records)]]
    BY <1>1 DEF Idle
  <2> QED
    BY <1>1, <2>1, <2>2, <2>3 DEF IInv, TypeOK
<1>3. ASSUME NEW h \in Ids PROVE Good(h)'
  <2>1. Good(h) /\ call[h] \in CallPcs
    BY DEF IInv, TypeOK
  <2>2. call'[h] \in CallPcs \ {"over"} => rows[h].status = "none"
    BY <1>1, <2>1 DEF Good, RowOK, CallPcs
  <2>3. CASE ~Alive(h)
    <3>1. runner'[h] = runner[h]
      BY <1>1, <2>3
    <3> QED
      BY <1>1, <2>1, <2>2, <3>1, Untroubled
  <2>4. CASE Alive(h)
    <3>1. runner'[h] = gone
      BY <1>1, <2>4
    <3>2. /\ runner'[h].pc = "gone" /\ runner'[h].after = 0 /\ InMemory(h)' = {}
      BY <3>1, GoneTyped DEF InMemory, Range
    <3>3. ~Alive(h)' /\ OnRow(h)' = OnRow(h) /\ Running(h)' = Running(h)
      BY <1>1, <3>2 DEF Alive, Working, OnRow, Running
    <3>4. rows[h].status # "none"
      BY <2>1, <2>4 DEF Good, RowOK, Alive, NoThread, Working
    <3>5. RowOK(h)' /\ ThreadOK(h)' /\ StopOK(h)'
      BY <1>1, <2>1, <2>2, <3>2, <3>4 DEF Good, RowOK, ThreadOK, StopOK, InCall, WithRecord
    <3>6. RecordOK(h)'
      BY <1>1, <2>1, <3>2, <3>3 DEF Good, RecordOK
    <3> QED
      BY <3>5, <3>6 DEF Good
  <2> QED
    BY <2>3, <2>4
<1>4. ASSUME NEW u \in Reverters PROVE UndoOK(u)'
  BY <1>1 DEF UndoOK, Idle
<1> QED
  BY <1>2, <1>3, <1>4 DEF IInv

\* A step that leaves everything a heartbeat relies on.
LEMMA QuietGood ==
    ASSUME IInv, up' \in BOOLEAN,
           UNCHANGED <<rows, paused, call, runner, undo, world, crashes, history>>
    PROVE  IInv'
<1> USE DEF history
<1>1. ASSUME NEW h \in Ids PROVE Good(h)'
  BY Untroubled DEF IInv, Good, RowOK
<1>2. \A u \in Reverters : UndoOK(u)'
  BY UndoUntroubled DEF IInv
<1> QED
  BY <1>1, <1>2 DEF IInv, TypeOK

LEMMA LaunchGood ==
    ASSUME IInv, NEW h \in Ids, Launch(h)
    PROVE  IInv'
<1>1. CASE Wake(h)
  <2>1. call[h] = "unused" /\ LaunchOnly /\ (Go(h, "over") \/ Go(h, "coalesce"))
    BY <1>1 DEF Wake
  <2> QED
    BY <2>1, ChecksGood DEF CallPcs
<1>2. CASE CoalesceCheck(h)
  <2>1. call[h] = "coalesce" /\ LaunchOnly /\ (Go(h, "over") \/ Go(h, "count"))
    BY <1>2 DEF CoalesceCheck
  <2> QED
    BY <2>1, ChecksGood DEF CallPcs
<1>3. CASE QuotaCheck(h)
  <2>1. call[h] = "count" /\ LaunchOnly /\ (Go(h, "over") \/ Go(h, "insert"))
    BY <1>3 DEF QuotaCheck
  <2> QED
    BY <2>1, ChecksGood DEF CallPcs
<1>4. CASE Reread(h)
  <2>1. LaunchOnly /\ Go(h, "over")
    BY <1>4 DEF Reread
  <2> QED
    BY <2>1, ChecksGood DEF CallPcs
<1> QED
  BY <1>1, <1>2, <1>3, <1>4, StartGood DEF Launch

\* Every step keeps what the theorems rest on.
LEMMA StepGood == IInv /\ [Next]_vars => IInv'
<1> SUFFICES ASSUME IInv, [Next]_vars PROVE IInv'
  OBVIOUS
<1>1. CASE \E h \in Ids : Launch(h) \/ Run(h) \/ WallClock(h) \/ Watchdog(h) \/ RequestCancel(h)
  <2>1. PICK h \in Ids : Launch(h) \/ Run(h) \/ WallClock(h) \/ Watchdog(h) \/ RequestCancel(h)
    BY <1>1
  <2>2. CASE Launch(h)
    BY <2>2, LaunchGood
  <2>3. CASE Run(h)
    <3>1. CASE \/ Begin(h) \/ Turn(h) \/ Reply(h) \/ NextCall(h) \/ ToolReturns(h)
               \/ \E d \in Docs : ReadBefore(h, d)
      BY <3>1, RunMovesGood
    <3>2. CASE Journal(h) \/ SinkFails(h)
      BY <3>2, JournalGood, SinkFailsGood
    <3>3. CASE \E v \in Contents : Write(h, v)
      BY <3>3, WriteGood
    <3>4. CASE \E f \in Fresh, v \in Values : Create(h, f, v)
      BY <3>4, CreateGood
    <3>5. CASE RecordOutcome(h) \/ RecordFails(h)
      BY <3>5, ThreadEndGood
    <3> QED
      BY <2>3, <3>1, <3>2, <3>3, <3>4, <3>5 DEF Run
  <2>4. CASE WallClock(h)
    BY <2>4, RunMovesGood
  <2>5. CASE Watchdog(h) \/ RequestCancel(h)
    BY <2>5, RowMovesGood
  <2> QED
    BY <2>1, <2>2, <2>3, <2>4, <2>5
<1>2. CASE \E u \in Reverters : Undoing(u)
  BY <1>2, RestoreGood, MarkRevertedGood DEF Undoing
<1>3. CASE \E p \in BOOLEAN : SetPaused(p)
  BY <1>3, PauseGood
<1>4. CASE Crash
  BY <1>4, CrashGood
<1>5. CASE Restart \/ UNCHANGED vars
  <2>1. up' \in BOOLEAN /\ UNCHANGED <<rows, paused, call, runner, undo, world, crashes, history>>
    BY <1>5 DEF Restart, vars, IInv, TypeOK
  <2> QED
    BY <2>1, QuietGood
<1> QED
  BY <1>1, <1>2, <1>3, <1>4, <1>5 DEF Next

LEMMA Invariant == Spec => []IInv
<1> QED
  BY InitGood, StepGood, PTL DEF Spec

-----------------------------------------------------------------------------
(* What a revert restores.  A journal may hold several records of one      *)
(* document, and records of calls that failed; it is the first record of a *)
(* document that a revert, newest first, leaves behind.                    *)

Has(s, d) == \E i \in DOMAIN s : s[i].doc = d

\* The first record of d in s, if there is one, says v.
Opens(s, d, v) ==
    \A i \in DOMAIN s :
        s[i].doc = d => s[i].before = v \/ \E j \in DOMAIN s : j < i /\ s[j].doc = d

\* What the undo of h owes d: what it held before the first write, if that came.
Due(h, d) == IF base[h][d] = Untouched THEN world[d] ELSE base[h][d]
Alone(h, d) == h \notin overtaken /\ <<h, d>> \notin intruded

\* As long as h may still write, and ever after if it has written, the first
\* record says what is due, on the row and in the memory of the thread.
FirstOK(h, d) ==
    Alone(h, d) =>
        /\ base[h][d] # Untouched \/ Alive(h) => Opens(rows[h].journal, d, Due(h, d))
        /\ Alive(h) => Opens(runner[h].mem, d, Due(h, d))
        /\ Alive(h) /\ base[h][d] = Untouched /\ runner[h].rec # None /\ runner[h].rec.doc = d
               => runner[h].rec.before = world[d]

\* A revert of h has d ahead of it.
Ahead(h, d) == \E u \in Reverters : undo[u].hb = h /\ Has(undo[u].left, d)

\* What a revert has left to restore ends at what is due; once one revert is
\* through with d, d holds what is due or another revert will restore it.
UndoneOK(h, d) ==
    Alone(h, d) /\ h \notin skipped /\ base[h][d] # Untouched =>
        /\ \A u \in Reverters : undo[u].hb = h => Opens(undo[u].left, d, base[h][d])
        /\ rows[h].reverted \/ (\E u \in Reverters : undo[u].hb = h /\ ~Has(undo[u].left, d))
               => world[d] = base[h][d] \/ Ahead(h, d)

Pair(h, d) == FirstOK(h, d) /\ UndoneOK(h, d)
UndoInv == \A h \in Ids, d \in Docs : Pair(h, d)

LEMMA EmptyOpens == \A d, v : Opens(<<>>, d, v) /\ ~Has(<<>>, d)
  BY DEF Opens, Has

\* A record at the end of a journal is the first of its document only when the
\* journal had none of that document.
LEMMA AppendOpens ==
    ASSUME NEW S, NEW s \in Seq(S), NEW e \in S, NEW d, NEW v,
           Opens(s, d, v), Has(s, d) \/ (e.doc = d => e.before = v)
    PROVE  Opens(Append(s, e), d, v)
<1>1. /\ DOMAIN Append(s, e) = 1..(Len(s) + 1) /\ DOMAIN s = 1..Len(s)
      /\ Len(s) \in Nat
      /\ \A i \in 1..Len(s) : Append(s, e)[i] = s[i]
      /\ Append(s, e)[Len(s) + 1] = e
  OBVIOUS
<1>2. ASSUME NEW i \in 1..Len(s), s[i].doc = d
      PROVE  s[i].before = v \/ \E j \in 1..(Len(s) + 1) : j < i /\ Append(s, e)[j].doc = d
  BY <1>1, <1>2 DEF Opens
<1>3. ASSUME e.doc = d
      PROVE  e.before = v \/ \E j \in 1..(Len(s) + 1) : j < Len(s) + 1 /\ Append(s, e)[j].doc = d
  BY <1>1, <1>3 DEF Has
<1>4. \A i \in 1..(Len(s) + 1) : i \in 1..Len(s) \/ i = Len(s) + 1
  BY <1>1
<1> QED
  BY <1>1, <1>2, <1>3, <1>4 DEF Opens

\* Without its last record a journal starts as before; when that was its last
\* record of d, it was the first one, too.
LEMMA FrontOpens ==
    ASSUME NEW S, NEW s \in Seq(S), s # <<>>, NEW d, NEW v, Opens(s, d, v)
    PROVE  LET t == SubSeq(s, 1, Len(s) - 1) IN
           /\ Opens(t, d, v)
           /\ s[Len(s)].doc # d => (Has(t, d) <=> Has(s, d))
           /\ s[Len(s)].doc = d /\ ~Has(t, d) => s[Len(s)].before = v
<1> DEFINE t == SubSeq(s, 1, Len(s) - 1)
<1>1. /\ Len(s) \in Nat \ {0} /\ DOMAIN s = 1..Len(s)
      /\ DOMAIN t = 1..(Len(s) - 1)
      /\ \A i \in 1..(Len(s) - 1) : t[i] = s[i]
  <2>1. Len(s) \in Nat \ {0}
    BY EmptySeq
  <2>2. \A i \in 1..(Len(s) - 1) : s[i] \in S
    BY <2>1, ElementOfSeq
  <2> PICK n \in Nat : Len(s) = n + 1
    BY <2>1
  <2>3. t \in Seq(S) /\ Len(t) = n /\ \A i \in 1..n : t[i] = s[i]
    <3>1. n \in Int /\ n - 1 + 1 = n /\ \A i \in 1..n : 1 + i - 1 = i
      OBVIOUS
    <3>2. /\ SubSeq(s, 1, n) \in Seq(S)
          /\ Len(SubSeq(s, 1, n)) = IF 1 <= n THEN n - 1 + 1 ELSE 0
          /\ \A i \in 1..(n - 1 + 1) : SubSeq(s, 1, n)[i] = s[1 + i - 1]
      BY <2>2, <3>1, SubSeqProperties
    <3> QED
      BY <3>1, <3>2
  <2> QED
    BY <2>1, <2>3
<1> HIDE DEF t
<1>2. Opens(t, d, v)
  BY <1>1 DEF Opens
<1>3. s[Len(s)].doc # d => (Has(t, d) <=> Has(s, d))
  <2>1. \A n \in Nat : \A i \in 1..n : i = n \/ i \in 1..(n - 1)
    OBVIOUS
  <2>2. \A i \in 1..(Len(s) - 1) : i \in 1..Len(s)
    BY <1>1
  <2> QED
    BY <1>1, <2>1, <2>2 DEF Has
<1>4. s[Len(s)].doc = d /\ ~Has(t, d) => s[Len(s)].before = v
  <2>1. Len(s) \in 1..Len(s) /\ \A j \in 1..Len(s) : j < Len(s) => j \in 1..(Len(s) - 1)
    BY <1>1
  <2> QED
    BY <1>1, <2>1 DEF Opens, Has
<1> QED
  BY <1>2, <1>3, <1>4 DEF t

\* The parts of the types the steps below rest on.
LEMMA UndoTypes ==
    ASSUME IInv
    PROVE  /\ runner \in [Ids -> ThreadState] /\ rows \in [Ids -> Row]
           /\ undo \in [Reverters -> [hb : Ids \cup {None}, left : Seq(Records)]]
           /\ base \in [Ids -> [Places -> Contents \cup {Untouched}]]
           /\ world \in [Places -> Contents]
           /\ \A h \in Ids : /\ runner[h].mem \in Seq(Records)
                             /\ rows[h].journal \in Seq(Records)
                             /\ rows[h] \in Row /\ runner[h] \in ThreadState
  BY DEF IInv, TypeOK, ThreadState, Row

\* While its row runs nobody undoes a heartbeat.
LEMMA RunningIsDone ==
    ASSUME IInv, NEW h \in Ids, NEW d, ~Ended(h)
    PROVE  UndoneOK(h, d) /\ ~Undoes(h)
<1>1. ~rows[h].reverted
  BY DEF IInv, Good, RowOK, Ended
<1>2. \A u \in Reverters : undo[u].hb # h
  BY NoneAssumption DEF IInv, UndoOK, Ended
<1> QED
  BY <1>1, <1>2 DEF UndoneOK, Undoes

\* A step that leaves the journals and the base of a pair alone, and its document
\* too unless someone else changed it, and starts no revert of it.
LEMMA PairKept ==
    ASSUME NEW h \in Ids, NEW d \in Docs, Pair(h, d),
           rows'[h].journal = rows[h].journal, rows'[h].reverted = rows[h].reverted,
           Alive(h)' => /\ Alive(h) /\ runner'[h].mem = runner[h].mem
                        /\ \/ runner'[h].rec = None \/ runner'[h].rec.doc # d
                           \/ runner'[h].rec = runner[h].rec,
           base'[h][d] = base[h][d],
           world'[d] = world[d] \/ (Involved(h, d) => <<h, d>> \in intruded'),
           overtaken \subseteq overtaken', intruded \subseteq intruded', skipped \subseteq skipped',
           \A u \in Reverters : undo[u].hb = h \/ undo'[u].hb = h => undo'[u] = undo[u]
    PROVE  Pair(h, d)'
<1> SUFFICES ASSUME Alone(h, d)' PROVE Pair(h, d)'
  BY DEF Pair, FirstOK, UndoneOK
<1>1. Alone(h, d)
  BY DEF Alone
<1>2. CASE world'[d] = world[d]
  <2>1. Due(h, d)' = Due(h, d)
    BY <1>2 DEF Due
  <2>2. FirstOK(h, d)'
    BY <1>1, <1>2, <2>1 DEF Pair, FirstOK
  <2>3. (Ahead(h, d) <=> Ahead(h, d)')
    BY DEF Ahead
  <2>4. UndoneOK(h, d)'
    BY <1>1, <1>2, <2>3 DEF Pair, UndoneOK
  <2> QED
    BY <2>2, <2>4 DEF Pair
<1>3. CASE ~Involved(h, d)
  <2>1. base'[h][d] = Untouched /\ (runner[h].rec = None \/ runner[h].rec.doc # d)
    BY <1>3 DEF Involved
  <2>2. UndoneOK(h, d)'
    BY <2>1 DEF UndoneOK
  <2>3. \A r \in OnRow(h) \cup InMemory(h) : r.doc # d
    BY <1>3 DEF Involved
  <2>4. \A v : Opens(rows[h].journal, d, v) /\ Opens(runner[h].mem, d, v)
    BY <2>3 DEF Opens, OnRow, InMemory, Range
  <2>5. FirstOK(h, d)'
    BY <2>1, <2>4 DEF FirstOK
  <2> QED
    BY <2>2, <2>5 DEF Pair
<1> QED
  BY <1>2, <1>3 DEF Alone

\* A step that changes no journal and no document.
LEMMA AllKept ==
    ASSUME UndoInv, UNCHANGED <<undo, world, base, intruded, skipped>>,
           overtaken \subseteq overtaken',
           \A h \in Ids :
               /\ rows'[h].journal = rows[h].journal /\ rows'[h].reverted = rows[h].reverted
               /\ Alive(h)' => /\ Alive(h) /\ runner'[h].mem = runner[h].mem
                               /\ runner'[h].rec \in {None, runner[h].rec}
    PROVE  UndoInv'
<1> SUFFICES ASSUME NEW h \in Ids, NEW d \in Docs PROVE Pair(h, d)'
  BY DEF UndoInv
<1>1. Pair(h, d)
  BY DEF UndoInv
<1> QED
  BY <1>1, PairKept

\* The step of one thread leaves the others to themselves.
LEMMA OtherKept ==
    ASSUME UndoInv, NEW h \in Ids, NEW g \in Ids, g # h, NEW d \in Docs,
           rows'[g] = rows[g], runner'[g] = runner[g], base'[g] = base[g],
           world'[d] = world[d] \/ (Involved(g, d) => <<g, d>> \in intruded'),
           overtaken \subseteq overtaken', intruded \subseteq intruded', skipped \subseteq skipped',
           \A u \in Reverters : undo[u].hb = g \/ undo'[u].hb = g => undo'[u] = undo[u]
    PROVE  Pair(g, d)'
<1>1. Pair(g, d) /\ (Alive(g)' <=> Alive(g))
  BY DEF UndoInv, Alive
<1> QED
  BY <1>1, PairKept

LEMMA InitUndo == Init => UndoInv
<1> SUFFICES ASSUME Init, NEW h \in Ids, NEW d \in Docs PROVE Pair(h, d)
  BY DEF UndoInv
<1>1. /\ base[h][d] = Untouched /\ runner[h] = NoThread
  BY DEF Init, Places
<1>2. ~Alive(h)
  BY <1>1 DEF Alive, NoThread, Working
<1> QED
  BY <1>1, <1>2 DEF Pair, FirstOK, UndoneOK

\* The steps that move a thread, a launch or a flag.
LEMMA MovesUndo ==
    ASSUME IInv, UndoInv, NEW h \in Ids,
           \/ Wake(h) \/ CoalesceCheck(h) \/ QuotaCheck(h) \/ Reread(h)
           \/ Begin(h) \/ Turn(h) \/ Reply(h) \/ NextCall(h) \/ ToolReturns(h) \/ WallClock(h)
           \/ Watchdog(h) \/ RequestCancel(h) \/ RecordFails(h)
           \/ \E p \in BOOLEAN : SetPaused(p)
           \/ Restart \/ UNCHANGED vars
    PROVE  UndoInv'
<1>0. runner \in [Ids -> ThreadState] /\ rows \in [Ids -> Row]
  BY UndoTypes
<1>1. UNCHANGED <<undo, world, base, intruded, skipped>> /\ overtaken \subseteq overtaken'
  BY DEF Wake, CoalesceCheck, QuotaCheck, Reread, LaunchOnly, Begin, Turn, Reply, NextCall,
         ToolReturns, WallClock, ThreadOnly, Watchdog, RequestCancel, RecordFails, SetPaused,
         Restart, vars, history
<1>2. \A g \in Ids : rows'[g].journal = rows[g].journal /\ rows'[g].reverted = rows[g].reverted
  <2>1. rows[h] \in Row
    BY <1>0
  <2>2. CASE Watchdog(h) \/ RequestCancel(h)
    BY <1>0, <2>1, <2>2 DEF Watchdog, RequestCancel, Row
  <2>3. CASE ~(Watchdog(h) \/ RequestCancel(h))
    BY <2>3 DEF Wake, CoalesceCheck, QuotaCheck, Reread, LaunchOnly, Begin, Turn, Reply,
                NextCall, ToolReturns, WallClock, ThreadOnly, RecordFails, SetPaused, Restart,
                vars
  <2> QED
    BY <2>2, <2>3
<1>3. ASSUME NEW g \in Ids, Alive(g)'
      PROVE  /\ Alive(g) /\ runner'[g].mem = runner[g].mem
             /\ runner'[g].rec \in {None, runner[g].rec}
  <2>0. runner[g] \in ThreadState /\ runner[h] \in ThreadState
    BY <1>0
  <2>1. CASE Wake(h) \/ CoalesceCheck(h) \/ QuotaCheck(h) \/ Reread(h)
             \/ Watchdog(h) \/ RequestCancel(h) \/ Restart \/ UNCHANGED vars
    BY <1>3, <2>1 DEF Wake, CoalesceCheck, QuotaCheck, Reread, LaunchOnly, Watchdog,
                      RequestCancel, Restart, vars, Alive
  <2>2. CASE Begin(h) \/ Turn(h) \/ WallClock(h)
    <3>1. CASE g # h
      BY <1>0, <1>3, <2>2, <3>1 DEF Begin, Turn, WallClock, To, Alive
    <3>2. CASE g = h
      <4>1. Alive(h)
        BY <2>2 DEF Begin, Turn, WallClock, Alive, Working
      <4>2. runner'[h].mem = runner[h].mem /\ runner'[h].rec = runner[h].rec
        BY <1>0, <2>0, <2>2 DEF Begin, Turn, WallClock, To, ThreadState
      <4> QED
        BY <3>2, <4>1, <4>2
    <3> QED
      BY <3>1, <3>2
  <2>3. CASE Reply(h) \/ NextCall(h) \/ ToolReturns(h)
    <3>1. CASE g # h
      BY <1>0, <1>3, <2>3, <3>1 DEF Reply, NextCall, ToolReturns, Answered, To, Alive
    <3>2. CASE g = h
      <4>1. Alive(h)
        BY <2>3 DEF Reply, NextCall, ToolReturns, Alive, Working
      <4>2. runner'[h].mem = runner[h].mem /\ runner'[h].rec \in {None, runner[h].rec}
        BY <1>0, <2>0, <2>3 DEF Reply, NextCall, ToolReturns, Answered, To, ThreadState
      <4> QED
        BY <3>2, <4>1, <4>2
    <3> QED
      BY <3>1, <3>2
  <2>4. CASE RecordFails(h)
    <3>1. g # h
      BY <1>0, <1>3, <2>4, GoneTyped DEF RecordFails, ThreadEnds, Alive, Working
    <3> QED
      BY <1>0, <1>3, <2>4, <3>1 DEF RecordFails, ThreadEnds, Alive
  <2>5. CASE \E p \in BOOLEAN : SetPaused(p)
    BY <1>3, <2>0, <2>5 DEF SetPaused, Alive, ThreadState
  <2> QED
    BY <2>1, <2>2, <2>3, <2>4, <2>5
<1> QED
  BY <1>1, <1>2, <1>3, AllKept

\* A heartbeat that starts has recorded nothing.
LEMMA StartUndo ==
    ASSUME IInv, UndoInv, NEW h \in Ids, StartHeartbeat(h)
    PROVE  UndoInv'
<1>0. runner \in [Ids -> ThreadState] /\ rows \in [Ids -> Row]
  BY UndoTypes
<1>1. UNCHANGED <<undo, world, base, intruded, skipped, overtaken>>
  BY DEF StartHeartbeat, history
<1> SUFFICES ASSUME NEW g \in Ids, NEW d \in Docs PROVE Pair(g, d)'
  BY DEF UndoInv
<1>2. CASE Busy(h) \/ g # h
  <2>1. rows'[g] = rows[g] /\ runner'[g] = runner[g]
    BY <1>0, <1>2 DEF StartHeartbeat
  <2>2. Pair(g, d) /\ (Alive(g)' <=> Alive(g))
    BY <2>1 DEF UndoInv, Alive
  <2> QED
    BY <1>1, <2>1, <2>2, PairKept
<1>3. CASE ~Busy(h) /\ g = h
  <2>1. /\ base[h][d] = Untouched /\ rows[h].journal = <<>>
        /\ runner[h].mem = <<>> /\ runner[h].rec = None
    BY DEF StartHeartbeat, IInv, Good, RowOK, CallPcs, NoThread
  <2>2. /\ rows'[h].journal = <<>> /\ runner'[h].mem = <<>> /\ runner'[h].rec = None
    <3>1. rows[h] \in Row /\ runner[h] \in ThreadState
      BY <1>0
    <3> QED
      BY <1>0, <1>3, <2>1, <3>1 DEF StartHeartbeat, Row, ThreadState
  <2> QED
    BY <1>1, <1>3, <2>1, <2>2, EmptyOpens DEF Pair, FirstOK, UndoneOK
<1> QED
  BY <1>2, <1>3

LEMMA ReadUndo ==
    ASSUME IInv, UndoInv, NEW h \in Ids, NEW e \in Docs, ReadBefore(h, e)
    PROVE  UndoInv'
<1>0. runner \in [Ids -> ThreadState] /\ runner[h] \in ThreadState
  BY UndoTypes
<1>1. /\ UNCHANGED <<rows, undo, world, base, intruded, skipped, overtaken>>
      /\ \A g \in Ids : g # h => runner'[g] = runner[g]
      /\ runner'[h].mem = runner[h].mem /\ runner'[h].rec = [doc |-> e, before |-> world[e]]
      /\ Alive(h)
  BY <1>0 DEF ReadBefore, ThreadOnly, history, ThreadState, Alive, Working
<1> SUFFICES ASSUME NEW g \in Ids, NEW d \in Docs PROVE Pair(g, d)'
  BY DEF UndoInv
<1>2. CASE g # h
  BY <1>1, <1>2, OtherKept
<1>3. CASE g = h /\ e # d
  BY <1>1, <1>3, PairKept DEF UndoInv
<1>4. CASE g = h /\ e = d
  <2>1. Pair(h, d) /\ Due(h, d)' = Due(h, d) /\ Alone(h, d)' = Alone(h, d)
    BY <1>1 DEF UndoInv, Due, Alone
  <2>2. FirstOK(h, d)'
    BY <1>1, <1>4, <2>1 DEF Pair, FirstOK
  <2>3. UndoneOK(h, d)'
    BY <1>1, <2>1 DEF Pair, UndoneOK, Alone, Ahead
  <2> QED
    BY <1>4, <2>2, <2>3 DEF Pair
<1> QED
  BY <1>2, <1>3, <1>4

\* A record goes to the end of the row, of the memory of the thread, or both.
LEMMA NotedUndo ==
    ASSUME IInv, IInv', UndoInv, NEW h \in Ids, Alive(h), runner[h].rec \in Records,
           UNCHANGED <<undo, world, base, intruded, skipped, overtaken>>,
           \A g \in Ids : g # h => runner'[g] = runner[g] /\ rows'[g] = rows[g],
           rows'[h].status = rows[h].status,
           rows'[h].journal \in {rows[h].journal, Append(rows[h].journal, runner[h].rec)},
           runner'[h].mem \in {runner[h].mem, Append(runner[h].mem, runner[h].rec)},
           runner'[h].rec \in {None, runner[h].rec}
    PROVE  UndoInv'
<1> SUFFICES ASSUME NEW g \in Ids, NEW d \in Docs PROVE Pair(g, d)'
  BY DEF UndoInv
<1>1. CASE g # h
  BY <1>1, OtherKept
<1>2. CASE g = h
  <2> SUFFICES ASSUME Alone(h, d) PROVE Pair(h, d)'
    BY <1>2 DEF Pair, FirstOK, UndoneOK, Alone
  <2> DEFINE rec == runner[h].rec
  <2>1. Running(h) /\ ~Ended(h)'
    BY DEF Alone, IInv, Good, RecordOK, Running, Ended
  <2>2. UndoneOK(h, d)'
    BY <2>1, RunningIsDone, PTL
  <2>3. /\ Opens(rows[h].journal, d, Due(h, d)) /\ Opens(runner[h].mem, d, Due(h, d))
        /\ base[h][d] = Untouched /\ rec.doc = d => rec.before = world[d]
    <3>1. rec # None
      BY NoneAssumption DEF Records, Places, Contents
    <3> QED
      BY <3>1 DEF UndoInv, Pair, FirstOK
  <2>4. Due(h, d)' = Due(h, d) /\ Alone(h, d)'
    BY DEF Due, Alone
  <2>5. ASSUME base[h][d] # Untouched
        PROVE  Has(runner[h].mem, d) /\ Has(rows[h].journal, d)
    <3>1. \E r \in InMemory(h) : r.doc = d
      BY <2>5 DEF IInv, Good, RecordOK
    <3>2. InMemory(h) \subseteq OnRow(h)
      BY <2>1 DEF IInv, Good, RecordOK
    <3> QED
      BY <3>1, <3>2 DEF InMemory, OnRow, Range, Has
  <2>6. base[h][d] = Untouched => (rec.doc = d => rec.before = Due(h, d))
    BY <2>3 DEF Due
  <2>7. /\ Opens(Append(rows[h].journal, rec), d, Due(h, d))
        /\ Opens(Append(runner[h].mem, rec), d, Due(h, d))
    <3>1. rec \in Records /\ rows[h].journal \in Seq(Records) /\ runner[h].mem \in Seq(Records)
      BY UndoTypes
    <3> HIDE DEF rec
    <3> QED
      BY <2>3, <2>5, <2>6, <3>1, AppendOpens
  <2>8. FirstOK(h, d)'
    <3>1. Opens(rows'[h].journal, d, Due(h, d)) /\ Opens(runner'[h].mem, d, Due(h, d))
      BY <2>3, <2>7
    <3> QED
      BY <2>3, <2>4, <3>1 DEF FirstOK
  <2> QED
    BY <2>2, <2>8 DEF Pair
<1> QED
  BY <1>1, <1>2

LEMMA JournalUndo ==
    ASSUME IInv, IInv', UndoInv, NEW h \in Ids, Journal(h) \/ SinkFails(h)
    PROVE  UndoInv'
<1>0. /\ runner \in [Ids -> ThreadState] /\ rows \in [Ids -> Row]
      /\ rows[h] \in Row /\ runner[h] \in ThreadState
  BY UndoTypes
<1>1. /\ Alive(h) /\ runner[h].rec \in Records
      /\ UNCHANGED <<undo, world, base, intruded, skipped, overtaken>>
  BY DEF Journal, SinkFails, IInv, Good, ThreadOK, WithRecord, Alive, Working, history
<1>2. \A g \in Ids : g # h => runner'[g] = runner[g] /\ rows'[g] = rows[g]
  BY <1>0 DEF Journal, SinkFails, Answered
<1>3. /\ rows'[h].status = rows[h].status
      /\ rows'[h].journal \in {rows[h].journal, Append(rows[h].journal, runner[h].rec)}
  BY <1>0 DEF Journal, SinkFails, Row
<1>4. /\ runner'[h].mem \in {runner[h].mem, Append(runner[h].mem, runner[h].rec)}
      /\ runner'[h].rec \in {None, runner[h].rec}
  BY <1>0 DEF Journal, SinkFails, Answered, ThreadState
<1> QED
  BY <1>1, <1>2, <1>3, <1>4, NotedUndo

\* A write keeps what is due: what the document held when it was the first one.
LEMMA WriteUndo ==
    ASSUME IInv, IInv', UndoInv, NEW h \in Ids, NEW v \in Contents, Write(h, v)
    PROVE  UndoInv'
<1>0. /\ runner \in [Ids -> ThreadState] /\ runner[h] \in ThreadState
      /\ base \in [Ids -> [Places -> Contents \cup {Untouched}]] /\ world \in [Places -> Contents]
  BY UndoTypes
<1>1. /\ Alive(h) /\ UNCHANGED <<rows, undo, skipped, overtaken>>
  BY DEF Write, Alive, Working
<1>2. /\ \A g \in Ids : g # h => runner'[g] = runner[g]
      /\ runner'[h].mem = runner[h].mem /\ runner'[h].rec = None
  BY <1>0 DEF Write, Answered, ThreadState
<1>3. CASE Change(h, runner[h].rec.doc, v)
  <2> DEFINE e == runner[h].rec.doc
  <2>0. e \in Places
    BY DEF Write, IInv, Good, ThreadOK, WithRecord, Records
  <2>1. /\ world' = [world EXCEPT ![e] = v]
        /\ base' = [base EXCEPT ![h][e] = IF @ = Untouched THEN world[e] ELSE @]
        /\ intruded' = intruded \cup {<<g, e>> : g \in {g \in Ids \ {h} : Involved(g, e)}}
    BY <1>3 DEF Change, Intrude
  <2> HIDE DEF e
  <2> SUFFICES ASSUME NEW g \in Ids, NEW d \in Docs PROVE Pair(g, d)'
    BY DEF UndoInv
  <2>2. d \in Places
    BY DEF Places
  <2>3. CASE g # h
    <3>1. base'[g] = base[g] /\ (world'[d] = world[d] \/ (Involved(g, d) => <<g, d>> \in intruded'))
      BY <1>0, <2>0, <2>1, <2>2, <2>3
    <3> QED
      BY <1>1, <1>2, <2>1, <2>3, <3>1, OtherKept
  <2>4. CASE g = h
    <3> SUFFICES ASSUME Alone(h, d) PROVE Pair(h, d)'
      BY <1>1, <2>1, <2>4 DEF Pair, FirstOK, UndoneOK, Alone
    <3>1. Running(h) /\ ~Ended(h)'
      BY <1>1 DEF Alone, IInv, Good, RecordOK, Running, Ended
    <3>2. UndoneOK(h, d)'
      BY <3>1, RunningIsDone, PTL
    <3>3. Due(h, d)' = Due(h, d)
      <4>1. CASE d # e
        BY <1>0, <2>0, <2>1, <2>2, <4>1 DEF Due
      <4>2. CASE d = e
        <5>1. base'[h][d] = IF base[h][d] = Untouched THEN world[d] ELSE base[h][d]
          BY <1>0, <2>1, <2>2, <4>2
        <5>2. world[d] # Untouched
          BY <1>0, <2>2, DocsAssumption DEF Contents, DocsAssumption
        <5> QED
          BY <5>1, <5>2 DEF Due
      <4> QED
        BY <4>1, <4>2
    <3>4. FirstOK(h, d)'
      BY <1>1, <1>2, <3>3 DEF UndoInv, Pair, FirstOK
    <3> QED
      BY <3>2, <3>4 DEF Pair
  <2> QED
    BY <2>3, <2>4
<1>4. CASE UNCHANGED <<world, base, intruded>>
  <2>1. \A g \in Ids : /\ rows'[g] = rows[g]
                       /\ Alive(g)' => /\ Alive(g) /\ runner'[g].mem = runner[g].mem
                                       /\ runner'[g].rec \in {None, runner[g].rec}
    BY <1>1, <1>2 DEF Alive
  <2> QED
    BY <1>1, <1>4, <2>1, AllKept
<1> QED
  BY <1>3, <1>4 DEF Write

\* What a create tool makes is none of Docs.
LEMMA CreateUndo ==
    ASSUME IInv, UndoInv, NEW h \in Ids, NEW f \in Fresh, NEW v \in Values, Create(h, f, v)
    PROVE  UndoInv'
<1>0. /\ runner \in [Ids -> ThreadState] /\ runner[h] \in ThreadState
      /\ base \in [Ids -> [Places -> Contents \cup {Untouched}]] /\ world \in [Places -> Contents]
  BY UndoTypes
<1>1. /\ UNCHANGED <<rows, undo, skipped, overtaken>> /\ Alive(h)
      /\ world' = [world EXCEPT ![f] = v] /\ intruded \subseteq intruded'
      /\ base' = [base EXCEPT ![h][f] = IF @ = Untouched THEN world[f] ELSE @]
  BY DEF Create, Change, Intrude, Alive, Working
<1>2. /\ \A g \in Ids : g # h => runner'[g] = runner[g]
      /\ runner'[h].mem = runner[h].mem /\ runner'[h].rec.doc = f
  BY <1>0 DEF Create, ThreadState
<1> SUFFICES ASSUME NEW g \in Ids, NEW d \in Docs PROVE Pair(g, d)'
  BY DEF UndoInv
<1>3. f # d /\ d \in Places /\ f \in Places
  BY DocsAssumption DEF DocsAssumption, Places
<1>4. world'[d] = world[d] /\ base'[g][d] = base[g][d]
  BY <1>0, <1>1, <1>3
<1>5. Pair(g, d) /\ rows'[g] = rows[g]
  BY <1>1 DEF UndoInv
<1>6. Alive(g)' => /\ Alive(g) /\ runner'[g].mem = runner[g].mem
                   /\ runner'[g].rec.doc # d \/ runner'[g].rec = runner[g].rec
  BY <1>1, <1>2, <1>3 DEF Alive
<1> QED
  BY <1>1, <1>4, <1>5, <1>6, PairKept

\* The journal the thread kept replaces that of the row.
LEMMA OutcomeUndo ==
    ASSUME IInv, UndoInv, NEW h \in Ids, RecordOutcome(h)
    PROVE  UndoInv'
<1>0. /\ runner \in [Ids -> ThreadState] /\ rows \in [Ids -> Row] /\ rows[h] \in Row
  BY UndoTypes
<1>1. /\ UNCHANGED <<undo, world, base, intruded, skipped, overtaken>> /\ Alive(h)
      /\ \A g \in Ids : g # h => runner'[g] = runner[g] /\ rows'[g] = rows[g]
  BY <1>0 DEF RecordOutcome, ThreadEnds, history, Alive, Working
<1>2. ~Alive(h)'
  BY <1>0, GoneTyped DEF RecordOutcome, ThreadEnds, Alive, Working
<1> SUFFICES ASSUME NEW g \in Ids, NEW d \in Docs PROVE Pair(g, d)'
  BY DEF UndoInv
<1>3. CASE g # h
  BY <1>1, <1>3, OtherKept
<1>4. CASE g = h
  <2> SUFFICES ASSUME Alone(h, d) PROVE Pair(h, d)'
    BY <1>1, <1>4 DEF Pair, FirstOK, UndoneOK, Alone
  <2>1. Running(h) /\ ~Ended(h) /\ ~rows[h].reverted
    BY <1>1 DEF Alone, IInv, Good, RecordOK, RowOK, Running, Ended
  <2>2. rows'[h].journal = runner[h].mem /\ ~rows'[h].reverted
    BY <1>0, <2>1 DEF RecordOutcome, Row
  <2>3. ~Undoes(h)
    BY <2>1, RunningIsDone
  <2>4. UndoneOK(h, d)'
    BY <1>1, <2>2, <2>3 DEF UndoneOK, Undoes
  <2>5. Due(h, d)' = Due(h, d) /\ Opens(runner[h].mem, d, Due(h, d))
    BY <1>1 DEF Due, UndoInv, Pair, FirstOK
  <2>6. FirstOK(h, d)'
    BY <1>2, <2>2, <2>5 DEF FirstOK
  <2> QED
    BY <2>4, <2>6 DEF Pair
<1> QED
  BY <1>3, <1>4

\* A revert starts with everything that is due ahead of it.
LEMMA RevertUndo ==
    ASSUME IInv, UndoInv, NEW u \in Reverters, NEW h \in Ids, Revert(u, h)
    PROVE  UndoInv'
<1>0. undo \in [Reverters -> [hb : Ids \cup {None}, left : Seq(Records)]]
  BY UndoTypes
<1>1. /\ UNCHANGED <<rows, runner, world, base, intruded, skipped, overtaken>>
      /\ undo[u].hb = None /\ undo'[u] = [hb |-> h, left |-> rows[h].journal]
      /\ \A w \in Reverters : w # u => undo'[w] = undo[w]
      /\ rows[h].journal # <<>> /\ Ended(h)
  BY <1>0 DEF Revert, history, Idle
<1> SUFFICES ASSUME NEW g \in Ids, NEW d \in Docs PROVE Pair(g, d)'
  BY DEF UndoInv
<1>2. CASE g # h
  BY <1>1, <1>2, NoneAssumption, OtherKept
<1>3. CASE g = h
  <2>1. FirstOK(h, d)'
    BY <1>1 DEF UndoInv, Pair, FirstOK, Alone, Due, Alive
  <2>2. UndoneOK(h, d)'
    <3> SUFFICES ASSUME Alone(h, d), h \notin skipped, base[h][d] # Untouched
                 PROVE  UndoneOK(h, d)'
      BY <1>1 DEF UndoneOK, Alone
    <3>1. ~rows[h].reverted
      BY <1>1 DEF IInv, Good, RowOK
    <3>2. Has(rows[h].journal, d)
      <4>1. \E r \in OnRow(h) : r.doc = d
        BY <3>1 DEF Alone, IInv, Good, RecordOK
      <4> QED
        BY <4>1 DEF OnRow, Range, Has
    <3>3. Ahead(h, d)'
      BY <1>1, <3>2 DEF Ahead
    <3>4. Opens(rows[h].journal, d, base[h][d])
      BY DEF UndoInv, Pair, FirstOK, Due
    <3>5. \A w \in Reverters : undo[w].hb = h => Opens(undo[w].left, d, base[h][d])
      BY DEF UndoInv, Pair, UndoneOK
    <3>6. \A w \in Reverters : undo'[w].hb = h => Opens(undo'[w].left, d, base'[h][d])
      BY <1>1, <3>4, <3>5
    <3> QED
      BY <3>3, <3>6 DEF UndoneOK
  <2> QED
    BY <1>3, <2>1, <2>2 DEF Pair
<1> QED
  BY <1>2, <1>3

\* One record is restored, or passed over.
LEMMA RestoreUndo ==
    ASSUME IInv, UndoInv, NEW u \in Reverters, RestoreOne(u)
    PROVE  UndoInv'
<1>0. /\ undo \in [Reverters -> [hb : Ids \cup {None}, left : Seq(Records)]]
      /\ world \in [Places -> Contents] /\ undo[u].left \in Seq(Records)
  BY UndoTypes
<1> DEFINE left == undo[u].left
           last == left[Len(left)]
           rest == SubSeq(left, 1, Len(left) - 1)
           hb == undo[u].hb
<1>1. /\ left # <<>> /\ undo' = [undo EXCEPT ![u].left = rest]
      /\ UNCHANGED <<rows, runner, base, overtaken>>
      /\ \/ /\ world' = [world EXCEPT ![last.doc] = last.before]
            /\ intruded' = intruded
                   \cup {<<g, last.doc>> : g \in {g \in Ids \ {hb} : Involved(g, last.doc)}}
            /\ skipped' = skipped
         \/ /\ skipped' = skipped \cup {hb}
            /\ world' = world /\ intruded' = intruded
  BY DEF RestoreOne, Intrude
<1>2. PICK h \in Ids : h = hb
  BY <1>1 DEF IInv, UndoOK
<1>3. /\ undo'[u].hb = h /\ undo'[u].left = rest
      /\ \A w \in Reverters : w # u => undo'[w] = undo[w]
  BY <1>0, <1>1, <1>2
<1>4. Ended(h)
  BY <1>2, NoneAssumption DEF IInv, UndoOK, Ended
<1>5. last.doc \in Places
  <2>1. left # <<>> /\ Len(left) \in 1..Len(left)
    BY <1>0, <1>1, EmptySeq
  <2>2. last \in Records
    BY <1>0, <2>1, ElementOfSeq
  <2> QED
    BY <2>2 DEF Records
<1> SUFFICES ASSUME NEW g \in Ids, NEW d \in Docs PROVE Pair(g, d)'
  BY DEF UndoInv
<1>6. d \in Places
  BY DEF Places
<1>7. CASE g # h
  <2>1. world'[d] = world[d] \/ (Involved(g, d) => <<g, d>> \in intruded')
    BY <1>0, <1>1, <1>2, <1>5, <1>6, <1>7
  <2>2. overtaken' = overtaken /\ intruded \subseteq intruded' /\ skipped \subseteq skipped'
    BY <1>1
  <2>3. \A w \in Reverters : undo[w].hb = g \/ undo'[w].hb = g => undo'[w] = undo[w]
    BY <1>2, <1>3, <1>7
  <2>4. rows'[g] = rows[g] /\ runner'[g] = runner[g] /\ base'[g] = base[g]
    BY <1>1
  <2> HIDE DEF left, last, rest, hb
  <2> QED
    BY <1>7, <2>1, <2>2, <2>3, <2>4, OtherKept
<1>8. CASE g = h
  <2> SUFFICES ASSUME Alone(h, d)', base[h][d] # Untouched PROVE Pair(h, d)'
    <3>1. Alone(h, d)' => ~Alive(h)'
      BY <1>1, <1>4 DEF Alone, IInv, Good, RecordOK, Alive, Running, Ended
    <3> QED
      BY <1>1, <1>8, <3>1 DEF Pair, FirstOK, UndoneOK
  <2>1. Alone(h, d) /\ ~Alive(h)'
    BY <1>1, <1>4 DEF Alone, IInv, Good, RecordOK, Alive, Running, Ended
  <2>2. FirstOK(h, d)'
    BY <1>1, <2>1 DEF UndoInv, Pair, FirstOK, Due
  <2>3. UndoneOK(h, d)'
    <3> SUFFICES ASSUME h \notin skipped' PROVE UndoneOK(h, d)'
      BY DEF UndoneOK
    <3>1. /\ world' = [world EXCEPT ![last.doc] = last.before] /\ skipped' = skipped
      BY <1>1, <1>2
    <3> DEFINE b == base[h][d]
    <3>2. /\ \A w \in Reverters : undo[w].hb = h => Opens(undo[w].left, d, b)
          /\ rows[h].reverted \/ (\E w \in Reverters : undo[w].hb = h /\ ~Has(undo[w].left, d))
                 => world[d] = b \/ Ahead(h, d)
      BY <2>1, <3>1 DEF UndoInv, Pair, UndoneOK
    <3>3. /\ Opens(rest, d, b)
          /\ last.doc # d => (Has(rest, d) <=> Has(left, d))
          /\ last.doc = d /\ ~Has(rest, d) => last.before = b
      <4>1. Opens(left, d, b)
        BY <1>2, <3>2
      <4> HIDE DEF b
      <4> QED
        BY <1>0, <1>1, <4>1, FrontOpens
    <3> HIDE DEF left, last, rest, b
    <3>4. \A w \in Reverters : undo'[w].hb = h => Opens(undo'[w].left, d, b)
      BY <1>3, <3>2, <3>3
    <3>5. CASE last.doc # d
      <4>1. world'[d] = world[d]
        BY <1>0, <1>6, <3>1, <3>5
      <4>2. \A w \in Reverters : undo'[w].hb = undo[w].hb
                                 /\ (undo[w].hb = h => (Has(undo'[w].left, d) <=> Has(undo[w].left, d)))
        BY <1>2, <1>3, <3>3, <3>5 DEF left, hb
      <4>3. Ahead(h, d)' <=> Ahead(h, d)
        BY <4>2 DEF Ahead
      <4> QED
        BY <1>1, <3>2, <3>4, <4>1, <4>2, <4>3 DEF UndoneOK, b
    <3>6. CASE last.doc = d
      <4>1. world'[d] = last.before
        BY <1>0, <1>6, <3>1, <3>6
      <4>2. Has(rest, d) => Ahead(h, d)'
        BY <1>3 DEF Ahead
      <4> QED
        BY <1>1, <3>3, <3>4, <3>6, <4>1, <4>2 DEF UndoneOK, b
    <3> QED
      BY <3>5, <3>6
  <2> QED
    BY <2>2, <2>3 DEF Pair
<1> QED
  BY <1>7, <1>8

\* The revert that is through empties the journal; another may have d ahead.
LEMMA MarkUndo ==
    ASSUME IInv, UndoInv, NEW u \in Reverters, MarkReverted(u)
    PROVE  UndoInv'
<1>0. /\ undo \in [Reverters -> [hb : Ids \cup {None}, left : Seq(Records)]]
      /\ rows \in [Ids -> Row]
  BY UndoTypes
<1>1. PICK h \in Ids : h = undo[u].hb
  BY <1>0 DEF MarkReverted
<1>2. /\ UNCHANGED <<runner, world, base, intruded, skipped, overtaken>>
      /\ undo[u].left = <<>> /\ undo'[u] = Idle
      /\ \A w \in Reverters : w # u => undo'[w] = undo[w]
      /\ \A g \in Ids : g # h => rows'[g] = rows[g]
      /\ rows'[h].journal = <<>>
  BY <1>0, <1>1 DEF MarkReverted, history, Row
<1>3. Ended(h)
  BY <1>1, NoneAssumption DEF IInv, UndoOK, Ended
<1> SUFFICES ASSUME NEW g \in Ids, NEW d \in Docs PROVE Pair(g, d)'
  BY DEF UndoInv
<1>4. CASE g # h
  <2>1. \A w \in Reverters : undo[w].hb = g \/ undo'[w].hb = g => undo'[w] = undo[w]
    BY <1>1, <1>2, <1>4, NoneAssumption DEF Idle
  <2> QED
    BY <1>2, <1>4, <2>1, OtherKept
<1>5. CASE g = h
  <2> SUFFICES ASSUME Alone(h, d) PROVE Pair(h, d)'
    BY <1>2, <1>5 DEF Pair, FirstOK, UndoneOK, Alone
  <2>1. ~Alive(h)'
    BY <1>2, <1>3 DEF Alone, IInv, Good, RecordOK, Alive, Running, Ended
  <2>2. FirstOK(h, d)'
    BY <1>2, <2>1, EmptyOpens DEF FirstOK
  <2>3. UndoneOK(h, d)'
    <3> SUFFICES ASSUME h \notin skipped, base[h][d] # Untouched PROVE UndoneOK(h, d)'
      BY <1>2 DEF UndoneOK
    <3>1. ~Has(undo[u].left, d)
      BY <1>2, EmptyOpens
    <3>2. /\ \A w \in Reverters : undo[w].hb = h => Opens(undo[w].left, d, base[h][d])
          /\ world[d] = base[h][d] \/ Ahead(h, d)
      BY <1>1, <3>1 DEF UndoInv, Pair, UndoneOK
    <3>3. Ahead(h, d) => Ahead(h, d)'
      BY <1>2, <3>1 DEF Ahead
    <3>4. \A w \in Reverters : undo'[w].hb = h => Opens(undo'[w].left, d, base[h][d])
      BY <1>2, <3>2, NoneAssumption DEF Idle
    <3> QED
      BY <1>2, <3>2, <3>3, <3>4 DEF UndoneOK
  <2> QED
    BY <1>5, <2>2, <2>3 DEF Pair
<1> QED
  BY <1>4, <1>5

\* With the process go the threads and the reverts; a revert that was not the
\* first one of its row leaves it unclear.
LEMMA CrashUndo == IInv /\ UndoInv /\ Crash => UndoInv'
<1> SUFFICES ASSUME IInv, UndoInv, Crash, NEW h \in Ids, NEW d \in Docs PROVE Pair(h, d)'
  BY DEF UndoInv
<1>1. /\ UNCHANGED <<rows, world, base, intruded, overtaken>>
      /\ \A u \in Reverters : undo'[u] = Idle
      /\ skipped' = skipped \cup {g \in Ids : rows[g].reverted /\ Undoes(g)}
  BY DEF Crash
<1>2. ~Alive(h)'
  BY GoneTyped DEF Crash, Alive, Working
<1>3. FirstOK(h, d)'
  BY <1>1, <1>2 DEF UndoInv, Pair, FirstOK, Alone, Due
<1>4. UndoneOK(h, d)'
  <2>1. \A u \in Reverters : undo'[u].hb # h
    BY <1>1, NoneAssumption DEF Idle
  <2>2. Ahead(h, d) => Undoes(h)
    BY DEF Ahead, Undoes
  <2> QED
    BY <1>1, <2>1, <2>2 DEF UndoInv, Pair, UndoneOK, Alone
<1> QED
  BY <1>3, <1>4 DEF Pair

LEMMA StepUndo == IInv /\ IInv' /\ UndoInv /\ [Next]_vars => UndoInv'
<1> SUFFICES ASSUME IInv, IInv', UndoInv, [Next]_vars PROVE UndoInv'
  OBVIOUS
<1>1. ASSUME NEW h \in Ids, Launch(h) PROVE UndoInv'
  BY <1>1, MovesUndo, StartUndo DEF Launch
<1>2. ASSUME NEW h \in Ids, Run(h) PROVE UndoInv'
  <2>1. CASE Begin(h) \/ Turn(h) \/ Reply(h) \/ NextCall(h) \/ ToolReturns(h) \/ RecordFails(h)
    BY <2>1, MovesUndo
  <2>2. CASE \E d \in Docs : ReadBefore(h, d)
    BY <2>2, ReadUndo
  <2>3. CASE Journal(h) \/ SinkFails(h)
    BY <2>3, JournalUndo
  <2>4. CASE \E v \in Contents : Write(h, v)
    BY <2>4, WriteUndo
  <2>5. CASE \E f \in Fresh, v \in Values : Create(h, f, v)
    BY <2>5, CreateUndo
  <2>6. CASE RecordOutcome(h)
    BY <2>6, OutcomeUndo
  <2> QED
    BY <1>2, <2>1, <2>2, <2>3, <2>4, <2>5, <2>6 DEF Run
<1>3. ASSUME NEW h \in Ids, WallClock(h) \/ Watchdog(h) \/ RequestCancel(h) PROVE UndoInv'
  BY <1>3, MovesUndo
<1>4. CASE \E u \in Reverters : Undoing(u)
  BY <1>4, RevertUndo, RestoreUndo, MarkUndo DEF Undoing
<1>5. CASE (\E p \in BOOLEAN : SetPaused(p)) \/ Restart \/ UNCHANGED vars
  <2>1. CASE Ids = {}
    BY <2>1 DEF UndoInv
  <2> QED
    BY <1>5, <2>1, MovesUndo
<1>6. CASE Crash
  BY <1>6, CrashUndo
<1> QED
  BY <1>1, <1>2, <1>3, <1>4, <1>5, <1>6 DEF Next

-----------------------------------------------------------------------------
(* What holds of every behaviour *)

\* Every variable keeps to its type: a thread holds a step and a call count in
\* its limits, rows and reverts hold well-formed journals.
THEOREM HeartbeatTypes == Spec => []TypeOK
<1>1. IInv => TypeOK
  BY DEF IInv
<1> QED
  BY <1>1, Invariant, PTL

\* Whatever the interleaving of wakes, reverts, crashes and failing statements,
\* what a heartbeat replaced or deleted is on its row, unless the watchdog had
\* failed that row under the living thread (append_journal, record_heartbeat).
THEOREM WritesAreRecorded == Spec => []WritesRecorded
<1>1. IInv => WritesRecorded
  BY DEF IInv, Good, RecordOK, WritesRecorded
<1> QED
  BY <1>1, Invariant, PTL

\* A reverted heartbeat is undone, however often it wrote a document and whatever
\* failed in between, with any number of reverts side by side (restore_journal,
\* newest first): each document holds what it held before the first write, under
\* the exceptions RevertedIsUndone names.
THEOREM RevertsUndo == Spec => []RevertedIsUndone
<1>1. UndoInv => RevertedIsUndone
  BY DEF UndoInv, Pair, UndoneOK, Alone, Ahead, Undoes, RevertedIsUndone
<1>2. Spec => []UndoInv
  BY Invariant, InitUndo, StepUndo, PTL DEF Spec
<1> QED
  BY <1>1, <1>2, PTL

\* A heartbeat that was paused, cancelled or timed out writes once more at
\* most, however many calls one reply of the model asked for (stop_reason).
THEOREM StopsArePrompt == Spec => []StopsWithinOneWrite
<1>1. ASSUME IInv, NEW h \in Ids PROVE runner[h].after <= 1
  <2>1. runner[h].after = 0 \/ runner[h].after = 1
    BY <1>1 DEF IInv, Good, StopOK
  <2> QED
    BY <2>1
<1>2. IInv => StopsWithinOneWrite
  BY <1>1 DEF StopsWithinOneWrite
<1> QED
  BY <1>2, Invariant, PTL

-----------------------------------------------------------------------------
(* Heartbeat implements HeartbeatContract *)

\* A step that changes one row changes one heartbeat of the contract.
LEMMA OneRow ==
    ASSUME TypeOK, NEW h \in Ids, NEW r, rows' = [rows EXCEPT ![h] = r]
    PROVE  /\ Stage' = [Stage EXCEPT ![h] = StageOf(r)]
           /\ Log' = [Log EXCEPT ![h] = Range(r.journal)]
<1>1. /\ rows'[h] = r
      /\ \A g \in Ids \ {h} : rows'[g] = rows[g]
  BY DEF TypeOK
<1>2. Stage' = [g \in Ids |-> StageOf(rows'[g])]
  BY DEF Stage, StageOf
<1>3. Log' = [g \in Ids |-> Range(rows'[g].journal)]
  BY DEF Log, OnRow
<1> HIDE DEF TypeOK
<1>4. [Stage EXCEPT ![h] = StageOf(r)] = [g \in Ids |-> IF g = h THEN StageOf(r) ELSE StageOf(rows[g])]
  BY DEF Stage
<1>5. [Log EXCEPT ![h] = Range(r.journal)]
          = [g \in Ids |-> IF g = h THEN Range(r.journal) ELSE Range(rows[g].journal)]
  BY DEF Log, OnRow
<1>6. \A g \in Ids : StageOf(rows'[g]) = IF g = h THEN StageOf(r) ELSE StageOf(rows[g])
  BY <1>1
<1>7. \A g \in Ids : Range(rows'[g].journal) = IF g = h THEN Range(r.journal) ELSE Range(rows[g].journal)
  BY <1>1
<1> QED
  BY <1>2, <1>3, <1>4, <1>5, <1>6, <1>7

LEMMA RowsAlone == ASSUME rows' = rows PROVE UNCHANGED <<Stage, Log>>
  BY DEF Stage, Log, OnRow, StageOf

\* How the contract sees a heartbeat, from its row.
LEMMA StageIs ==
    ASSUME TypeOK, NEW h \in Ids
    PROVE  /\ Stage[h] = StageOf(rows[h]) /\ Log[h] = OnRow(h)
           /\ Stage[h] = "new" <=> rows[h].status = "none"
           /\ Stage[h] = "running" <=> Running(h)
           /\ rows[h].status = "ended" /\ ~rows[h].reverted => Stage[h] = "ended"
<1>1. rows[h] \in Row
  BY DEF TypeOK
<1> QED
  BY <1>1 DEF Stage, Log, StageOf, Running, Row

\* The unique index keeps an agent to one running row.
LEMMA StartKept ==
    ASSUME IInv, NEW h \in Ids, StartHeartbeat(h)
    PROVE  Contract!Start(h) \/ UNCHANGED <<Stage, Log>>
<1>1. TypeOK /\ Good(h) /\ rows[h] \in Row
  BY DEF IInv, TypeOK
<1>2. CASE Busy(h)
  BY <1>2, RowsAlone DEF StartHeartbeat
<1>3. CASE ~Busy(h)
  <2> DEFINE r == [rows[h] EXCEPT !.status = "running"]
  <2>1. rows' = [rows EXCEPT ![h] = r] /\ rows[h].status = "none"
    BY <1>1, <1>3 DEF StartHeartbeat, Good, RowOK, CallPcs
  <2>2. r.status = "running" /\ r.journal = rows[h].journal
    BY <1>1 DEF Row
  <2> HIDE DEF r
  <2>3. StageOf(r) = "running"
    BY <2>2 DEF StageOf
  <2>4. /\ Stage' = [Stage EXCEPT ![h] = "running"]
        /\ Log' = [Log EXCEPT ![h] = OnRow(h)]
    <3>1. /\ Stage' = [Stage EXCEPT ![h] = StageOf(r)]
          /\ Log' = [Log EXCEPT ![h] = Range(r.journal)]
      BY <1>1, <2>1, OneRow
    <3> QED
      BY <2>2, <2>3, <3>1 DEF OnRow
  <2>5. Log' = Log
    BY <2>4 DEF Log
  <2>6. Stage[h] = "new" /\ \A g \in Ids : AgentOf[g] = AgentOf[h] => Stage[g] # "running"
    BY <1>1, <1>3, <2>1, StageIs DEF Busy
  <2> QED
    BY <2>4, <2>5, <2>6 DEF Contract!Start
<1> QED
  BY <1>2, <1>3

\* Only a running row takes a record.
LEMMA NoteKept ==
    ASSUME IInv, NEW h \in Ids, Journal(h) \/ SinkFails(h)
    PROVE  (\E rec \in Log'[h] : Contract!Note(h, rec)) \/ UNCHANGED <<Stage, Log>>
<1>1. TypeOK /\ rows[h] \in Row /\ runner[h].rec \in Records
  BY DEF IInv, TypeOK, Good, ThreadOK, WithRecord, Journal, SinkFails
<1>2. CASE rows' = rows
  BY <1>2, RowsAlone
<1>3. CASE Running(h) /\ rows' = [rows EXCEPT ![h].journal = Append(@, runner[h].rec)]
  <2> DEFINE rec == runner[h].rec
             j == Append(rows[h].journal, rec)
             r == [rows[h] EXCEPT !.journal = j]
  <2>1. Range(j) = OnRow(h) \cup {rec}
    BY <1>1, Appended DEF Row, OnRow
  <2>2. rows' = [rows EXCEPT ![h] = r] /\ r.status = "running" /\ r.journal = j
    BY <1>1, <1>3 DEF Running, Row
  <2> HIDE DEF r, j, rec
  <2>3. StageOf(r) = "running" /\ Stage[h] = "running"
    BY <1>1, <1>3, <2>2, StageIs DEF StageOf
  <2>4. /\ Stage' = [Stage EXCEPT ![h] = "running"]
        /\ Log' = [Log EXCEPT ![h] = Log[h] \cup {rec}]
    <3>1. /\ Stage' = [Stage EXCEPT ![h] = StageOf(r)]
          /\ Log' = [Log EXCEPT ![h] = Range(r.journal)]
      BY <1>1, <2>2, OneRow
    <3> QED
      BY <1>1, <2>1, <2>2, <2>3, <3>1, StageIs
  <2>5. Stage' = Stage
    BY <2>3, <2>4 DEF Stage
  <2>6. rec \in Log'[h]
    BY <2>4 DEF Log
  <2>7. Contract!Note(h, rec)
    BY <2>3, <2>4, <2>5 DEF Contract!Note
  <2> QED
    BY <2>6, <2>7
<1> QED
  BY <1>2, <1>3 DEF Journal, SinkFails

\* The outcome is recorded once, by the thread or by the watchdog, with no
\* record the row did not hold.
LEMMA EndKept ==
    ASSUME IInv, NEW h \in Ids,
           RecordOutcome(h) \/ RecordFails(h) \/ Watchdog(h) \/ RequestCancel(h)
    PROVE  (\E kept \in SUBSET Log[h] : Contract!End(h, kept)) \/ UNCHANGED <<Stage, Log>>
<1>1. TypeOK /\ Good(h) /\ rows[h] \in Row /\ rows \in [Ids -> Row]
  BY DEF IInv, TypeOK
<1>2. CASE rows' = rows
  BY <1>2, RowsAlone
<1>3. ASSUME Running(h), NEW j, Range(j) \subseteq OnRow(h),
             rows' = [rows EXCEPT ![h].status = "ended", ![h].journal = j]
      PROVE  \E kept \in SUBSET Log[h] : Contract!End(h, kept)
  <2> DEFINE r == [rows[h] EXCEPT !.status = "ended", !.journal = j]
  <2>1. rows' = [rows EXCEPT ![h] = r] /\ r.status = "ended" /\ r.journal = j
        /\ r.reverted = rows[h].reverted
    BY <1>1, <1>3 DEF Row
  <2>2. ~r.reverted
    BY <1>1, <1>3, <2>1 DEF Good, RowOK, Running
  <2> HIDE DEF r
  <2>3. StageOf(r) = "ended" /\ Stage[h] = "running" /\ Log[h] = OnRow(h)
    BY <1>1, <1>3, <2>1, <2>2, StageIs DEF StageOf
  <2>4. /\ Stage' = [Stage EXCEPT ![h] = "ended"]
        /\ Log' = [Log EXCEPT ![h] = Range(j)]
    <3>1. /\ Stage' = [Stage EXCEPT ![h] = StageOf(r)]
          /\ Log' = [Log EXCEPT ![h] = Range(r.journal)]
      BY <1>1, <2>1, OneRow
    <3> QED
      BY <2>1, <2>3, <3>1
  <2> QED
    BY <1>3, <2>3, <2>4 DEF Contract!End
<1>4. CASE RecordOutcome(h) /\ Running(h)
  <2>1. rows' = [rows EXCEPT ![h].status = "ended", ![h].journal = runner[h].mem]
    BY <1>4 DEF RecordOutcome
  <2>2. Range(runner[h].mem) \subseteq OnRow(h)
    BY <1>1, <1>4 DEF Good, RecordOK, InMemory
  <2> QED
    BY <1>3, <1>4, <2>1, <2>2
<1>5. CASE Watchdog(h)
  <2>1. Running(h) /\ rows' = [rows EXCEPT ![h].status = "ended"]
    BY <1>5 DEF Watchdog
  <2>2. rows' = [rows EXCEPT ![h].status = "ended", ![h].journal = rows[h].journal]
    BY <1>1, <2>1 DEF Row
  <2> QED
    BY <1>3, <2>1, <2>2 DEF OnRow
<1>6. CASE RequestCancel(h)
  <2> DEFINE r == [rows[h] EXCEPT !.cancel = TRUE]
  <2>1. rows' = [rows EXCEPT ![h] = r] /\ r.journal = rows[h].journal
        /\ r.status = rows[h].status /\ r.reverted = rows[h].reverted
    BY <1>1, <1>6 DEF RequestCancel, Row
  <2> HIDE DEF r
  <2>2. StageOf(r) = Stage[h]
    BY <1>1, <2>1, StageIs DEF StageOf
  <2>3. Stage' = [Stage EXCEPT ![h] = Stage[h]] /\ Log' = [Log EXCEPT ![h] = Log[h]]
    <3>1. /\ Stage' = [Stage EXCEPT ![h] = StageOf(r)]
          /\ Log' = [Log EXCEPT ![h] = Range(r.journal)]
      BY <1>1, <2>1, OneRow
    <3> QED
      BY <1>1, <2>1, <2>2, <3>1, StageIs DEF OnRow
  <2> QED
    BY <2>3 DEF Stage, Log
<1> QED
  BY <1>2, <1>4, <1>5, <1>6 DEF RecordOutcome, RecordFails, ThreadOnly

\* A journal is emptied once: a second revert of the row finds nothing to take.
LEMMA UndoKept ==
    ASSUME IInv, NEW u \in Reverters, MarkReverted(u)
    PROVE  (\E h \in Ids : Contract!Undo(h)) \/ UNCHANGED <<Stage, Log>>
<1>1. PICK h \in Ids : h = undo[u].hb
  BY DEF IInv, TypeOK, MarkReverted
<1> DEFINE r == [rows[h] EXCEPT !.journal = <<>>, !.reverted = TRUE]
<1>2. TypeOK /\ Good(h) /\ rows[h] \in Row /\ rows' = [rows EXCEPT ![h] = r]
  BY <1>1 DEF IInv, TypeOK, MarkReverted
<1>3. rows[h].status = "ended" /\ (~rows[h].reverted => rows[h].journal # <<>>)
  BY <1>1 DEF IInv, UndoOK, MarkReverted
<1>4. r.status = "ended" /\ r.reverted /\ r.journal = <<>>
  BY <1>2, <1>3 DEF Row
<1> HIDE DEF r
<1>5. StageOf(r) = "undone" /\ Range(r.journal) = {}
  BY <1>4 DEF StageOf, Range
<1>6. Stage' = [Stage EXCEPT ![h] = "undone"] /\ Log' = [Log EXCEPT ![h] = {}]
  <2>1. /\ Stage' = [Stage EXCEPT ![h] = StageOf(r)]
        /\ Log' = [Log EXCEPT ![h] = Range(r.journal)]
    BY <1>2, OneRow
  <2>2. QED BY <1>5, <2>1
<1>7. CASE rows[h].reverted
  <2>1. rows[h].journal = <<>>
    BY <1>2, <1>7 DEF Good, RowOK
  <2>2. Stage[h] = StageOf(rows[h]) /\ Log[h] = OnRow(h)
    BY <1>2, StageIs
  <2>3. Stage[h] = "undone"
    BY <1>3, <1>7, <2>1, <2>2 DEF StageOf
  <2>4. Log[h] = {}
    BY <2>1, <2>2 DEF OnRow, Range
  <2> QED
    BY <1>6, <2>3, <2>4 DEF Stage, Log
<1>8. CASE ~rows[h].reverted
  <2>1. rows[h].journal \in Seq(Records) /\ rows[h].journal # <<>>
    BY <1>2, <1>3, <1>8 DEF Row
  <2>2. rows[h].journal[1] \in OnRow(h)
    BY <2>1 DEF OnRow, Range
  <2>3. Stage[h] = "ended" /\ Log[h] # {}
    BY <1>2, <1>3, <1>8, <2>2, StageIs
  <2> QED
    BY <1>6, <2>3 DEF Contract!Undo
<1> QED
  BY <1>2, <1>7, <1>8 DEF Row

LEMMA InitKept == Init => Contract!Init
<1> SUFFICES ASSUME Init PROVE Contract!Init
  OBVIOUS
<1>1. Stage = [h \in Ids |-> "new"]
  BY DEF Init, Stage, StageOf
<1>2. Log = [h \in Ids |-> {}]
  BY DEF Init, Log, OnRow, Range
<1> QED
  BY <1>1, <1>2 DEF Contract!Init

LEMMA StepKept == IInv /\ [Next]_vars => [Contract!Next]_<<Stage, Log>>
<1> SUFFICES ASSUME IInv, [Next]_vars
             PROVE  Contract!Next \/ UNCHANGED <<Stage, Log>>
  OBVIOUS
<1>1. CASE \E h \in Ids : StartHeartbeat(h)
  BY <1>1, StartKept DEF Contract!Next
<1>2. CASE \E h \in Ids : Journal(h) \/ SinkFails(h)
  BY <1>2, NoteKept DEF Contract!Next
<1>3. CASE \E h \in Ids : RecordOutcome(h) \/ RecordFails(h) \/ Watchdog(h) \/ RequestCancel(h)
  BY <1>3, EndKept DEF Contract!Next
<1>4. CASE \E u \in Reverters : MarkReverted(u)
  BY <1>4, UndoKept DEF Contract!Next
<1>5. CASE rows' = rows
  BY <1>5, RowsAlone
<1>6. \/ \E h \in Ids : StartHeartbeat(h) \/ Journal(h) \/ SinkFails(h) \/ RecordOutcome(h)
                        \/ RecordFails(h) \/ Watchdog(h) \/ RequestCancel(h)
      \/ \E u \in Reverters : MarkReverted(u)
      \/ rows' = rows
  <2>1. ASSUME NEW h \in Ids, Launch(h), ~StartHeartbeat(h) PROVE rows' = rows
    BY <2>1 DEF Launch, Wake, CoalesceCheck, QuotaCheck, Reread, LaunchOnly
  <2>2. ASSUME NEW h \in Ids, Run(h), ~Journal(h), ~SinkFails(h), ~RecordOutcome(h), ~RecordFails(h)
        PROVE  rows' = rows
    BY <2>2 DEF Run, Begin, Turn, Reply, NextCall, ToolReturns, ReadBefore, Write, Create, ThreadOnly
  <2>3. ASSUME NEW h \in Ids, WallClock(h) PROVE rows' = rows
    BY <2>3 DEF WallClock, ThreadOnly
  <2>4. ASSUME NEW u \in Reverters, Undoing(u), ~MarkReverted(u) PROVE rows' = rows
    BY <2>4 DEF Undoing, Revert, RestoreOne
  <2>5. (\E p \in BOOLEAN : SetPaused(p)) \/ Crash \/ Restart \/ UNCHANGED vars => rows' = rows
    BY DEF SetPaused, Crash, Restart, vars
  <2> QED
    BY <2>1, <2>2, <2>3, <2>4, <2>5 DEF Next
<1> QED
  BY <1>1, <1>2, <1>3, <1>4, <1>5, <1>6

\* Heartbeats keep HeartbeatContract through races of wakes, late threads, the
\* watchdog, concurrent reverts and crashes: one running heartbeat per agent,
\* each ended once, its undo records growing only while it runs.
THEOREM ContractKept == Spec => KeepsContract
<1> QED
  BY InitGood, InitKept, StepGood, StepKept, PTL DEF Spec, KeepsContract, Contract!Spec
=============================================================================
