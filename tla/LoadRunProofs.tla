--------------------------- MODULE LoadRunProofs ---------------------------
(* Theorems about LoadRun, for every set of workers, of fleet sizes and of  *)
(* totals, and for every bound.                                             *)
EXTENDS LoadRun, FiniteSetTheorems, TLAPS

USE LoadAssumption DEF LoadAssumption

\* Fleet sizes are positive numbers.
LEMMA SizesType == \A n \in Sizes : n \in Nat \ {0} /\ n \in Nat /\ n \in Int
OBVIOUS

\* A slice of a total is a number.
LEMMA SplitType ==
    ASSUME NEW t \in Nat, NEW n \in Nat \ {0}, NEW i \in Nat
    PROVE  Split(t, n, i) \in Nat
<1>1. t \div n \in Nat
    OBVIOUS
<1> QED
    BY <1>1 DEF Split

\* What a profile is cut into are shards.
LEMMA ShardOfType ==
    ASSUME NEW p \in [workers : Sizes, target : Targets], NEW i \in Nat
    PROVE  ShardOf(p, i) \in Shard
<1>1. p.workers \in Sizes /\ p.workers \in Nat \ {0} /\ p.target \in Nat
    OBVIOUS
<1>2. Split(p.target, p.workers, i) \in Nat
    BY <1>1, SplitType
<1> QED
    BY <1>1, <1>2 DEF ShardOf, Shard

\* Consecutive shards of a profile, none when the count is not positive.
LEMMA ShardsType ==
    ASSUME NEW p \in [workers : Sizes, target : Targets], NEW first \in Nat, NEW n \in Int
    PROVE  [k \in 1 .. n |-> ShardOf(p, first + k - 1)] \in Seq(Shard)
<1>1. \A k \in 1 .. n : ShardOf(p, first + k - 1) \in Shard
    <2> SUFFICES ASSUME NEW k \in 1 .. n
                 PROVE  ShardOf(p, first + k - 1) \in Shard
        OBVIOUS
    <2>1. first + k - 1 \in Nat
        OBVIOUS
    <2> QED
        BY <2>1, ShardOfType
<1>2. CASE n \in Nat
    BY <1>1, <1>2
<1>3. CASE n \notin Nat
    <2>1. 1 .. n = 1 .. 0
        BY <1>3
    <2> QED
        BY <1>1, <2>1
<1> QED
    BY <1>2, <1>3

\* A re-tune re-cuts a shard into a shard.
LEMMA ReslicedType ==
    ASSUME NEW s \in Shard, NEW r \in Retune
    PROVE  Resliced(s, r) \in Shard
<1> DEFINE n == IF r.workers = None THEN s.count ELSE r.workers
<1>1. n \in Sizes /\ n \in Nat \ {0} /\ r.target \in Nat /\ s.index \in Nat
    BY DEF Shard, Retune
<1>2. Split(r.target, n, s.index) \in Nat
    BY <1>1, SplitType
<1> QED
    BY <1>1, <1>2 DEF Resliced, Shard

\* The parts of the invariant.  TypeOK alone is not inductive: a re-tune is cut
\* from the slice of a worker that drives, so such a worker has one.
Workers ==
    /\ pc \in [Worker -> Pc] /\ shard \in [Worker -> Shard \cup {None}]
    /\ \A w \in Worker : pc[w] = "drive" => shard[w] \in Shard
    /\ pend \in [Worker -> 0 .. MaxPend]
    /\ fleet \subseteq Worker

Bus ==
    /\ shards \in Seq(Shard) /\ stopKey \in BOOLEAN
    /\ retune \in Retune \cup {None} /\ done \in BOOLEAN
    /\ present \subseteq Worker

Coordinator ==
    /\ run \in [life : Life, status : {"running", "completed"},
                stop : BOOLEAN, abort : BOOLEAN]
    /\ profile \in [workers : Sizes, target : Targets]
    /\ latest \in [Worker -> 0 .. MaxPend \cup {None}]
    /\ grace \in BOOLEAN

Asking ==
    /\ stopping \in BOOLEAN /\ provisioning \in BOOLEAN
    /\ request \in [Caller -> Request \cup {None}]
    /\ count \in [{"scales", "tunes", "faults"} -> 0 .. MaxOps]

IInv == Workers /\ Bus /\ Coordinator /\ Asking /\ LateComersStop

\* What ends, starts or stops workers keeps their part.

LEMMA ExitType ==
    ASSUME Workers, NEW ws \in SUBSET Worker, Exit(ws)
    PROVE  Workers'
BY DEF Workers, Exit, Pc

LEMMA ScaleFleetType ==
    ASSUME Workers, NEW n, ScaleFleet(n)
    PROVE  Workers'
<1>1. CASE \E ws \in SUBSET Fresh :
              /\ fleet' = fleet \cup ws
              /\ pc' = [w \in Worker |-> IF w \in ws THEN "claim" ELSE pc[w]]
              /\ UNCHANGED <<shard, pend>>
    BY <1>1 DEF Workers, Fresh, Pc
<1>2. CASE \E ws \in SUBSET fleet : Exit(ws)
    BY <1>2, ExitType DEF Workers
<1> QED
    BY <1>1, <1>2 DEF ScaleFleet

LEMMA CloseWindowType ==
    ASSUME Workers, NEW w \in Worker, NEW at \in {"drain", "quiet"}, CloseWindow(w, at),
       UNCHANGED fleet
    PROVE  Workers'
<1>1. Outstanding(w) \subseteq 0 .. MaxPend
    BY DEF Outstanding, Workers
<1> QED
    BY <1>1 DEF Workers, CloseWindow, GoTo, Pc

\* One more of a bounded operation stays in the bound.
LEMMA OpType ==
    ASSUME count \in [{"scales", "tunes", "faults"} -> 0 .. MaxOps],
           NEW o \in {"scales", "tunes", "faults"}, Op(o)
    PROVE  count' \in [{"scales", "tunes", "faults"} -> 0 .. MaxOps]
<1>1. count[o] + 1 \in 0 .. MaxOps
    BY DEF Op
<1> QED
    BY <1>1 DEF Op

\* A caller stands somewhere only with a request, and moves to another.
LEMMA StandsType ==
    ASSUME Asking, NEW c \in Caller
    PROVE  /\ Stands(c, "store") => request[c].total \in Targets
           /\ Stands(c, "signal") \/ Stands(c, "fleet") => request[c].size \in Sizes
           /\ Stands(c, "signal") =>
                  [request EXCEPT ![c].at = "fleet"] \in [Caller -> Request \cup {None}]
           /\ [request EXCEPT ![c] = None] \in [Caller -> Request \cup {None}]
<1>1. request[c] # None => request[c] \in Request
    BY DEF Asking
<1>2. Stands(c, "store") => request[c].total \in Targets
    BY <1>1 DEF Stands, Request
<1>3. Stands(c, "signal") \/ Stands(c, "fleet") =>
          request[c] \in [at : {"signal", "fleet"}, size : Sizes]
    BY <1>1 DEF Stands, Request
<1>4. ASSUME Stands(c, "signal")
      PROVE  [request EXCEPT ![c].at = "fleet"] \in [Caller -> Request \cup {None}]
    <2>1. [request[c] EXCEPT !.at = "fleet"] \in Request
        BY <1>3, <1>4 DEF Request
    <2> QED
        BY <2>1 DEF Asking
<1>5. [request EXCEPT ![c] = None] \in [Caller -> Request \cup {None}]
    BY DEF Asking
<1> QED
    BY <1>2, <1>3, <1>4, <1>5

LEMMA InitHolds == Init => IInv
<1> SUFFICES ASSUME Init PROVE IInv
    OBVIOUS
<1> USE DEF Init
<1>1. profile \in [workers : Sizes, target : Targets]
    OBVIOUS
<1>2. [k \in 1 .. profile.workers |-> ShardOf(profile, 0 + k - 1)] \in Seq(Shard)
    <2>1. profile.workers \in Int /\ 0 \in Nat
        BY <1>1
    <2> QED
        BY <1>1, <2>1, ShardsType
<1>3. [k \in 1 .. profile.workers |-> ShardOf(profile, 0 + k - 1)] = shards
    OBVIOUS
<1>4. Bus
    BY <1>2, <1>3 DEF Bus
<1>5. Workers
    BY DEF Workers, Pc
<1>6. Coordinator
    BY <1>1 DEF Coordinator, Life
<1>7. Asking
    <2>1. 0 \in 0 .. MaxOps
        OBVIOUS
    <2>2. count \in [{"scales", "tunes", "faults"} -> 0 .. MaxOps]
        BY <2>1, Zenon
    <2>3. stopping = FALSE /\ request = [c \in Caller |-> None] /\ provisioning = TRUE
        OBVIOUS
    <2> QED
        BY <2>2, <2>3 DEF Asking
<1> QED
    BY <1>4, <1>5, <1>6, <1>7 DEF IInv, LateComersStop

-----------------------------------------------------------------------------
(* One step.                                                               *)

LEMMA WorkerKeeps ==
    ASSUME IInv, NEW w \in Worker,
           WorkerStep(w) \/ WindowEnds(w) \/ Resolve(w)
           \/ Die(w) \/ DrainWorker(w) \/ Expire(w)
    PROVE  IInv'
<1> USE DEF IInv
<1>1. CASE Claim(w)
    <2>1. Head(shards) \in Shard /\ Tail(shards) \in Seq(Shard)
        BY <1>1 DEF Claim, Bus
    <2>2. Workers' /\ Bus'
        BY <1>1, <2>1 DEF Claim, Workers, Bus, GoTo, Pc
    <2>3. Coordinator' /\ Asking' /\ LateComersStop'
        BY <1>1 DEF Claim, Coordinator, Asking, LateComersStop, runVars, reqVars
    <2> QED
        BY <2>1, <2>2, <2>3 DEF IInv
<1>2. CASE ClaimTimesOut(w)
    <2>1. Workers'
        BY <1>2, ExitType DEF ClaimTimesOut
    <2>2. Bus' /\ Coordinator' /\ Asking' /\ LateComersStop'
        BY <1>2 DEF ClaimTimesOut, Bus, Coordinator, Asking, LateComersStop, busVars,
           runVars, reqVars
    <2> QED
        BY <2>1, <2>2 DEF IInv
<1>3. CASE PollStop(w)
    <2>1. Workers'
        BY <1>3, CloseWindowType DEF PollStop
    <2>2. Bus' /\ Coordinator' /\ Asking' /\ LateComersStop'
        BY <1>3 DEF PollStop, Bus, Coordinator, Asking, LateComersStop, busVars,
           runVars, reqVars
    <2> QED
        BY <2>1, <2>2 DEF IInv
<1>4. CASE PollRetune(w)
    <2>1. Resliced(shard[w], retune) \in Shard
        BY <1>4, ReslicedType DEF PollRetune, Workers, Bus
    <2>2. Workers'
        BY <1>4, <2>1 DEF PollRetune, Workers
    <2>3. Bus' /\ Coordinator' /\ Asking' /\ LateComersStop'
        BY <1>4 DEF PollRetune, Bus, Coordinator, Asking, LateComersStop, busVars,
           runVars, reqVars
    <2> QED
        BY <2>1, <2>2, <2>3 DEF IInv
<1>5. CASE WindowEnds(w)
    <2>1. Workers'
        BY <1>5, CloseWindowType DEF WindowEnds
    <2>2. Bus' /\ Coordinator' /\ Asking' /\ LateComersStop'
        BY <1>5 DEF WindowEnds, Bus, Coordinator, Asking, LateComersStop, busVars,
           runVars, reqVars
    <2> QED
        BY <2>1, <2>2 DEF IInv
<1>6. CASE Resolve(w)
    <2>1. pend[w] - 1 \in 0 .. MaxPend
        BY <1>6 DEF Resolve, Workers
    <2>2. Workers'
        BY <1>6, <2>1 DEF Resolve, Workers
    <2>3. Bus' /\ Coordinator' /\ Asking' /\ LateComersStop'
        BY <1>6 DEF Resolve, Bus, Coordinator, Asking, LateComersStop, busVars, runVars,
           reqVars
    <2> QED
        BY <2>1, <2>2, <2>3 DEF IInv
<1>7. CASE Sample(w)
    <2>1. \A n \in Outstanding(w) : n \in 0 .. MaxPend
        BY DEF Outstanding, Workers
    <2>2. Coordinator'
        BY <1>7, <2>1 DEF Sample, Report, Coordinator
    <2>3. Workers' /\ Bus' /\ Asking' /\ LateComersStop'
        BY <1>7 DEF Sample, Workers, Bus, Asking, LateComersStop, busVars, workerVars,
           reqVars
    <2> QED
        BY <2>1, <2>2, <2>3 DEF IInv
<1>8. CASE Drained(w)
    <2>1. Workers'
        BY <1>8, ExitType DEF Drained
    <2>2. Bus' /\ Coordinator'
        BY <1>8 DEF Drained, Report, Bus, Coordinator
    <2>3. Asking' /\ LateComersStop'
        BY <1>8 DEF Drained, Asking, LateComersStop, reqVars
    <2> QED
        BY <2>1, <2>2, <2>3 DEF IInv
<1>9. CASE Die(w)
    <2>1. Workers'
        BY <1>9, ExitType DEF Die
    <2>2. Asking'
        BY <1>9, OpType DEF Die, Asking, reqVars
    <2>3. Bus' /\ Coordinator' /\ LateComersStop'
        BY <1>9 DEF Die, Bus, Coordinator, LateComersStop, busVars, runVars, reqVars
    <2> QED
        BY <2>1, <2>2, <2>3 DEF IInv
<1>10. CASE DrainWorker(w)
    <2>1. Workers'
        BY <1>10, CloseWindowType DEF DrainWorker
    <2>2. Asking'
        BY <1>10, OpType DEF DrainWorker, Asking, reqVars
    <2>3. Bus' /\ Coordinator' /\ LateComersStop'
        BY <1>10 DEF DrainWorker, Bus, Coordinator, LateComersStop, busVars, runVars,
           reqVars
    <2> QED
        BY <2>1, <2>2, <2>3 DEF IInv
<1>11. CASE Expire(w)
    <2>1. Workers' /\ Bus' /\ Coordinator' /\ Asking' /\ LateComersStop'
        BY <1>11 DEF Expire, Workers, Bus, Coordinator, Asking, LateComersStop,
           workerVars, runVars, reqVars
    <2> QED
        BY <2>1 DEF IInv
<1> QED
    BY <1>1, <1>2, <1>3, <1>4, <1>5, <1>6, <1>7, <1>8, <1>9, <1>10, <1>11 DEF WorkerStep

LEMMA CoordinatorKeeps ==
    ASSUME IInv,
           Lifecycle \/ SendElapsed \/ WatchExternalStop \/ RollUp \/ Stop \/ StopElsewhere
    PROVE  IInv'
<1> USE DEF IInv
<1>1. CASE SendStopped
    <2>1. Workers' /\ Bus' /\ Coordinator' /\ Asking' /\ LateComersStop'
        BY <1>1 DEF SendStopped, Workers, Bus, Coordinator, Asking, LateComersStop,
           workerVars, reqVars, Live, Signalled, Life
    <2> QED
        BY <2>1 DEF IInv
<1>2. CASE SendElapsed
    <2>1. Workers' /\ Bus' /\ Coordinator' /\ Asking' /\ LateComersStop'
        BY <1>2 DEF SendElapsed, Workers, Bus, Coordinator, Asking, LateComersStop,
           busVars, workerVars, reqVars, RunOnly, Life
    <2> QED
        BY <2>1 DEF IInv
<1>3. CASE Close
    <2>1. Workers' /\ Bus' /\ Coordinator' /\ Asking' /\ LateComersStop'
        BY <1>3 DEF Close, Workers, Bus, Coordinator, Asking, LateComersStop,
           workerVars, reqVars, Live, Signalled, Life
    <2> QED
        BY <2>1 DEF IInv
<1>4. CASE DrainEnds
    <2>1. Workers' /\ Bus' /\ Coordinator' /\ Asking' /\ LateComersStop'
        BY <1>4 DEF DrainEnds, Workers, Bus, Coordinator, Asking, LateComersStop,
           busVars, workerVars, reqVars, RunOnly, Live, Draining, Life
    <2> QED
        BY <2>1 DEF IInv
<1>5. CASE DrainWatch
    <2>1. Workers' /\ Bus' /\ Coordinator' /\ Asking' /\ LateComersStop'
        BY <1>5 DEF DrainWatch, Workers, Bus, Coordinator, Asking, LateComersStop,
           busVars, workerVars, reqVars, RunOnly, Live, Life
    <2> QED
        BY <2>1 DEF IInv
<1>6. CASE DrainDeserted
    <2>1. Workers' /\ Bus' /\ Coordinator' /\ Asking' /\ LateComersStop'
        BY <1>6 DEF DrainDeserted, Workers, Bus, Coordinator, Asking, LateComersStop,
           busVars, workerVars, reqVars, RunOnly, Live, Life
    <2> QED
        BY <2>1 DEF IInv
<1>7. CASE DrainTimesOut
    <2>1. Workers' /\ Bus' /\ Coordinator' /\ Asking' /\ LateComersStop'
        BY <1>7 DEF DrainTimesOut, Workers, Bus, Coordinator, Asking, LateComersStop,
           busVars, workerVars, reqVars, RunOnly, Live, Draining, Life
    <2> QED
        BY <2>1 DEF IInv
<1>8. CASE MarkDone
    <2>1. Workers' /\ Bus' /\ Coordinator' /\ Asking' /\ LateComersStop'
        BY <1>8 DEF MarkDone, Workers, Bus, Coordinator, Asking, LateComersStop,
           workerVars, reqVars, Live, Life
    <2> QED
        BY <2>1 DEF IInv
<1>9. CASE WatchExternalStop
    <2>1. Workers' /\ Bus' /\ Coordinator' /\ Asking' /\ LateComersStop'
        BY <1>9 DEF WatchExternalStop, Workers, Bus, Coordinator, Asking,
           LateComersStop, busVars, workerVars, reqVars, RunOnly, Life
    <2> QED
        BY <2>1 DEF IInv
<1>10. CASE StopElsewhere
    <2>1. Workers' /\ Bus' /\ Coordinator' /\ Asking' /\ LateComersStop'
        BY <1>10 DEF StopElsewhere, Workers, Bus, Coordinator, Asking, LateComersStop,
           workerVars, runVars, reqVars, Life
    <2> QED
        BY <2>1 DEF IInv
<1>11. CASE RollUp
    <2>1. Workers'
        BY <1>11, ScaleFleetType DEF RollUp
    <2>2. Bus' /\ Coordinator' /\ Asking' /\ LateComersStop'
        BY <1>11 DEF RollUp, Bus, Coordinator, Asking, LateComersStop, busVars, reqVars,
           Life
    <2> QED
        BY <2>1, <2>2 DEF IInv
<1>12. CASE Stop
    <2>1. Workers' /\ Bus' /\ Coordinator' /\ Asking' /\ LateComersStop'
        BY <1>12 DEF Stop, Workers, Bus, Coordinator, Asking, LateComersStop,
           workerVars, Life
    <2> QED
        BY <2>1 DEF IInv
<1> QED
    BY <1>1, <1>2, <1>3, <1>4, <1>5, <1>6, <1>7, <1>8, <1>9, <1>10, <1>11, <1>12 DEF
       Lifecycle

LEMMA RequestKeeps ==
    ASSUME IInv,
           \/ Requests \/ FallBack
           \/ \E c \in Caller :
                 \/ Provision(c)
                 \/ \E n \in Sizes : ScaleBegin(c, n)
                 \/ \E t \in Targets : RetuneSignal(c, t)
           \/ \E t \in Targets : RetuneElsewhere(t)
    PROVE  IInv'
<1> USE DEF IInv
<1>1. ASSUME NEW c \in Caller, NEW n \in Sizes, ScaleBegin(c, n)
      PROVE  IInv'
    <2>1. profile' \in [workers : Sizes, target : Targets]
        BY <1>1 DEF ScaleBegin, Coordinator
    <2>2. profile.workers \in Nat /\ n - profile.workers \in Int
        <3>1. profile.workers \in Sizes
            BY DEF Coordinator
        <3>2. profile.workers \in Int /\ profile.workers \in Nat
            BY <3>1, SizesType
        <3>3. n \in Int
            BY <1>1, SizesType
        <3> QED
            BY <3>2, <3>3
    <2>3. shards' \in Seq(Shard)
        <3>1. [k \in 1 .. n - profile.workers |->
                  ShardOf(profile', profile.workers + k - 1)] \in Seq(Shard)
            BY <2>1, <2>2, ShardsType
        <3> QED
            BY <1>1, <3>1 DEF ScaleBegin, Bus
    <2>4. Asking'
        <3>1. \A at \in {"signal", "fleet"} : [at |-> at, size |-> n] \in Request
            BY DEF Request
        <3>2. request' \in [Caller -> Request \cup {None}]
            BY <1>1, <3>1 DEF ScaleBegin, Asking
        <3> QED
            BY <1>1, <3>2, OpType DEF ScaleBegin, Asking
    <2>5. Workers' /\ Bus' /\ Coordinator' /\ LateComersStop'
        BY <1>1, <2>1, <2>3 DEF ScaleBegin, Workers, Bus, Coordinator, LateComersStop,
           workerVars
    <2> QED
        BY <2>4, <2>5
<1>2. ASSUME NEW t \in Targets,
             RetuneElsewhere(t) \/ \E c \in Caller : RetuneSignal(c, t)
      PROVE  IInv'
    <2>1. Retunes(t)
        BY <1>2 DEF RetuneElsewhere, RetuneSignal
    <2>2. request' \in [Caller -> Request \cup {None}]
        <3>1. [at |-> "store", total |-> t] \in Request
            BY DEF Request
        <3> QED
            BY <1>2, <3>1 DEF RetuneElsewhere, RetuneSignal, Asking
    <2>3. Asking'
        BY <2>1, <2>2, OpType DEF Retunes, Asking
    <2>4. Workers' /\ Bus' /\ Coordinator' /\ LateComersStop'
        BY <2>1 DEF Retunes, Workers, Bus, Coordinator, LateComersStop, workerVars, runVars,
           Retune
    <2> QED
        BY <2>3, <2>4
<1>3. ASSUME NEW c \in Caller, ScaleSignal(c)
      PROVE  IInv'
    <2>1. request[c].size \in Sizes /\ request' \in [Caller -> Request \cup {None}]
        BY <1>3, StandsType DEF ScaleSignal
    <2>2. retune' \in Retune
        BY <1>3, <2>1 DEF ScaleSignal, Retune, Coordinator
    <2>3. Workers' /\ Bus' /\ Coordinator' /\ Asking' /\ LateComersStop'
        BY <1>3, <2>1, <2>2 DEF ScaleSignal, Workers, Bus, Coordinator, Asking,
           LateComersStop, workerVars, runVars
    <2> QED
        BY <2>3 DEF IInv
<1>4. ASSUME NEW c \in Caller, ScaleProvision(c)
      PROVE  IInv'
    <2>1. Workers'
        BY <1>4, ScaleFleetType DEF ScaleProvision
    <2>2. request' \in [Caller -> Request \cup {None}]
        BY <1>4, StandsType DEF ScaleProvision, Ends
    <2>3. Bus' /\ Coordinator' /\ Asking' /\ LateComersStop'
        BY <1>4, <2>2 DEF ScaleProvision, Bus, Coordinator, Asking, LateComersStop, busVars,
           runVars
    <2> QED
        BY <2>1, <2>3 DEF IInv
<1>5. ASSUME NEW c \in Caller, RetuneStore(c)
      PROVE  IInv'
    <2>1. request[c].total \in Targets /\ request' \in [Caller -> Request \cup {None}]
        BY <1>5, StandsType DEF RetuneStore, Ends
    <2>2. Coordinator'
        BY <1>5, <2>1 DEF RetuneStore, Coordinator
    <2>3. Workers' /\ Bus' /\ LateComersStop'
        BY <1>5 DEF RetuneStore, Workers, Bus, LateComersStop, busVars, workerVars
    <2>4. Asking'
        BY <1>5, <2>1 DEF RetuneStore, Asking
    <2> QED
        BY <2>2, <2>3, <2>4 DEF IInv
<1>6. CASE StopTeardown
    <2>1. Workers'
        BY <1>6, ScaleFleetType DEF StopTeardown
    <2>2. Bus' /\ Coordinator' /\ LateComersStop'
        BY <1>6 DEF StopTeardown, Bus, Coordinator, LateComersStop, busVars, runVars
    <2>3. Asking'
        BY <1>6, Zenon DEF StopTeardown, Asking
    <2> QED
        BY <2>1, <2>2, <2>3 DEF IInv
<1>7. ASSUME NEW c \in Caller, Provision(c)
      PROVE  IInv'
    <2>1. request' \in [Caller -> Request \cup {None}]
        <3>1. [at |-> "fleet", size |-> profile.workers] \in Request
            BY DEF Request, Coordinator
        <3> QED
            BY <1>7, <3>1 DEF Provision, Asking
    <2>2. provisioning' = FALSE /\ stopping' = stopping /\ count' = count
        BY <1>7 DEF Provision
    <2>3. Asking'
        BY <2>1, <2>2 DEF Asking
    <2>4. Workers' /\ Bus' /\ Coordinator' /\ LateComersStop'
        BY <1>7 DEF Provision, Workers, Bus, Coordinator, LateComersStop, busVars, workerVars,
           runVars
    <2> QED
        BY <2>3, <2>4 DEF IInv
<1>8. CASE FallBack
    <2>1. Workers'
        BY <1>8 DEF FallBack, Workers, Fresh, Pc
    <2>2. Bus' /\ Asking' /\ LateComersStop'
        BY <1>8 DEF FallBack, Bus, Asking, LateComersStop, busVars, reqVars
    <2>3. Coordinator'
        BY <1>8, Zenon DEF FallBack, Coordinator
    <2> QED
        BY <2>1, <2>2, <2>3 DEF IInv
<1> QED
    BY <1>1, <1>2, <1>3, <1>4, <1>5, <1>6, <1>7, <1>8 DEF Requests

LEMMA StepKeeps == IInv /\ [Next]_vars => IInv'
<1> SUFFICES ASSUME IInv, [Next]_vars
             PROVE  IInv'
    OBVIOUS
<1>1. CASE UNCHANGED vars
    BY <1>1 DEF vars, busVars, workerVars, runVars, reqVars, IInv, Workers, Bus,
       Coordinator,
                Asking, LateComersStop
<1>2. CASE Next
    BY <1>2, WorkerKeeps, CoordinatorKeeps, RequestKeeps DEF Next
<1> QED
    BY <1>1, <1>2

LEMMA Invariant == Spec => []IInv
<1> QED
    BY InitHolds, StepKeeps, PTL DEF Spec

-----------------------------------------------------------------------------
\* The bus, the workers, the run record and the requests keep their shapes, for
\* every number of workers and every total.
THEOREM LoadTypes == Spec => []TypeOK
<1>1. IInv => TypeOK
    BY DEF IInv, TypeOK, Workers, Bus, Coordinator, Asking
<1> QED
    BY <1>1, Invariant, PTL

\* Whatever ends the send window of a run, an operator on any replica or its
\* duration, the stop key is set before it drains, waits or is rolled up: a
\* worker that claims a shard after that is told to stop.
THEOREM LateComersAreStopped == Spec => []LateComersStop
<1>1. IInv => LateComersStop
    BY DEF IInv
<1> QED
    BY <1>1, Invariant, PTL
-----------------------------------------------------------------------------
(* The slices.  LoadTypes says nothing about which shards a fleet that was   *)
(* never scaled holds; SlicesAddUp needs it.                                 *)

\* Up to the first re-scale, the queue is what is left of the shards of start(),
\* in their order, and those who drive have claimed different ones of the rest.
Unscaled ==
    count["scales"] = 0 =>
        /\ \A c \in Caller : ~Stands(c, "signal")
        /\ retune # None => retune.workers = None
        /\ \A k \in 1 .. Len(shards) :
              /\ shards[k].index = profile.workers - Len(shards) + k - 1
              /\ shards[k].count = profile.workers
              /\ shards[k].share = Split(InitTarget, profile.workers, shards[k].index)
        /\ \A w \in Driver :
              /\ shard[w].index < profile.workers - Len(shards)
              /\ shard[w].count = profile.workers
              /\ retune = None =>
                    shard[w].share = Split(InitTarget, profile.workers, shard[w].index)
        /\ OneEach

SInv == IInv /\ Unscaled

\* What a step does that only takes away from those who drive.
Narrows == Driver' \subseteq Driver /\ \A w \in Driver' : shard'[w] = shard[w]

\* Of the numbers in the state.
LEMMA Numbers ==
    ASSUME IInv
    PROVE  /\ profile.workers \in Nat \ {0} /\ Len(shards) \in Nat
           /\ count["scales"] \in Nat
           /\ IsFiniteSet(fleet) /\ Cardinality(fleet) \in Nat
<1>1. profile.workers \in Nat \ {0}
    BY SizesType DEF IInv, Coordinator
<1>2. Len(shards) \in Nat
    BY DEF IInv, Bus
<1>3. count["scales"] \in Nat
    BY DEF IInv, Asking
<1>4. IsFiniteSet(fleet) /\ Cardinality(fleet) \in Nat
    BY FS_Subset, FS_CardinalityType DEF IInv, Workers
<1> QED
    BY <1>1, <1>2, <1>3, <1>4

\* Nothing is claimed, cut or pushed.
LEMMA UnscaledStill ==
    ASSUME SInv, Narrows, shards' = shards, retune' = retune,
           profile'.workers = profile.workers,
           \A c \in Caller : Stands(c, "signal")' => Stands(c, "signal"),
           count'["scales"] = 0 => count["scales"] = 0
    PROVE  Unscaled'
BY DEF SInv, Unscaled, Narrows, OneEach

LEMMA ExitNarrows ==
    ASSUME IInv, NEW ws, ws \subseteq Worker, Exit(ws)
    PROVE  Narrows
BY DEF Exit, Narrows, Driver, IInv, Workers

LEMMA CloseNarrows ==
    ASSUME IInv, NEW w \in Worker, NEW at \in {"drain", "quiet"}, CloseWindow(w, at)
    PROVE  Narrows
BY DEF CloseWindow, GoTo, Narrows, Driver, IInv, Workers

\* scale() makes nobody drive who did not.
LEMMA ScaleFleetNarrows ==
    ASSUME IInv, NEW n, ScaleFleet(n)
    PROVE  Narrows
<1>1. CASE \E ws \in SUBSET Fresh :
              /\ pc' = [w \in Worker |-> IF w \in ws THEN "claim" ELSE pc[w]]
              /\ UNCHANGED shard
    BY <1>1 DEF Narrows, Driver
<1>2. CASE \E ws \in SUBSET fleet : Exit(ws)
    BY <1>2, ExitNarrows DEF IInv, Workers
<1> QED
    BY <1>1, <1>2 DEF ScaleFleet

LEMMA SlicesInit == Init => SInv
<1> SUFFICES ASSUME Init PROVE Unscaled
    BY InitHolds DEF SInv
<1>1. profile.workers \in Nat \ {0}
    BY InitHolds, Numbers
<1>3. Len(shards) = profile.workers
    BY <1>1 DEF Init
<1>4. ASSUME NEW k \in 1 .. Len(shards)
      PROVE  /\ shards[k].index = profile.workers - Len(shards) + k - 1
             /\ shards[k].count = profile.workers
             /\ shards[k].share = Split(InitTarget, profile.workers, shards[k].index)
    <2>1. shards[k] = ShardOf(profile, k - 1)
        BY <1>3, <1>4 DEF Init
    <2>2. profile.target = InitTarget
        BY DEF Init
    <2> QED
        BY <1>1, <1>3, <2>1, <2>2 DEF ShardOf
<1>5. Driver = {}
    BY DEF Init, Driver
<1>6. (\A c \in Caller : ~Stands(c, "signal")) /\ retune = None
    BY DEF Init, Stands
<1> QED
    BY <1>4, <1>5, <1>6 DEF Unscaled, OneEach

LEMMA SlicesStep == SInv /\ [Next]_vars => SInv'
<1> SUFFICES ASSUME SInv, [Next]_vars
             PROVE  Unscaled'
    BY StepKeeps DEF SInv
<1> IInv /\ Unscaled
    BY DEF SInv
<1>1. ASSUME NEW w \in Worker, Claim(w)
      PROVE  Unscaled'
    <2>2. SUFFICES ASSUME count["scales"] = 0
                   PROVE  Unscaled'
        BY <1>1 DEF Claim, Unscaled
    <2> DEFINE n == profile.workers
               free == n - Len(shards)
    <2>3. n \in Nat /\ Len(shards) \in Nat \ {0} /\ shards \in Seq(Shard)
        BY <1>1, Numbers DEF Claim, IInv, Bus
    <2>4. /\ Len(shards') = Len(shards) - 1
          /\ \A k \in 1 .. Len(shards') : shards'[k] = shards[k + 1] /\ k + 1 \in 1 .. Len(shards)
        BY <1>1, <2>3 DEF Claim
    <2>5. /\ Driver' = Driver \cup {w} /\ w \notin Driver
          /\ shard'[w] = shards[1]
          /\ \A v \in Driver : shard'[v] = shard[v]
        BY <1>1, <2>3 DEF Claim, GoTo, Driver, IInv, Workers
    <2>6. /\ shards[1].index = free /\ shards[1].count = n
          /\ shards[1].share = Split(InitTarget, n, shards[1].index)
        BY <2>2, <2>3 DEF Unscaled
    <2>7. \A v \in Driver : shard[v].index < free /\ shard[v].index \in Nat
        BY <2>2 DEF Unscaled, Driver, IInv, Workers, Shard
    <2>8. free \in Int /\ profile' = profile /\ retune' = retune /\ request' = request
        BY <1>1, <2>3 DEF Claim, runVars, reqVars
    <2>9. \A k \in 1 .. Len(shards') :
              /\ shards'[k].index = n - Len(shards') + k - 1
              /\ shards'[k].count = n
              /\ shards'[k].share = Split(InitTarget, n, shards'[k].index)
        <3> SUFFICES ASSUME NEW k \in 1 .. Len(shards')
                     PROVE  /\ shards'[k].index = n - Len(shards') + k - 1
                            /\ shards'[k].count = n
                            /\ shards'[k].share = Split(InitTarget, n, shards'[k].index)
            OBVIOUS
        <3>1. shards'[k] = shards[k + 1] /\ k + 1 \in 1 .. Len(shards)
            BY <2>4
        <3>2. shards[k + 1].index = n - Len(shards) + (k + 1) - 1
            BY <2>2, <3>1 DEF Unscaled
        <3>3. n - Len(shards) + (k + 1) - 1 = n - Len(shards') + k - 1
            <4>1. n \in Int /\ Len(shards) \in Int /\ Len(shards') = Len(shards) - 1
                BY <2>3, <2>4
            <4>2. k \in Int
                BY <4>1
            <4> QED
                BY <4>1, <4>2
        <3> QED
            BY <2>2, <3>1, <3>2, <3>3 DEF Unscaled
    <2>10. \A v \in Driver' :
              /\ shard'[v].index < n - Len(shards')
              /\ shard'[v].count = n
              /\ retune' = None => shard'[v].share = Split(InitTarget, n, shard'[v].index)
        <3>1. free < n - Len(shards') /\ \A v \in Driver : shard[v].index < n - Len(shards')
            BY <2>3, <2>4, <2>7
        <3> QED
            BY <2>2, <2>5, <2>6, <2>8, <3>1 DEF Unscaled
    <2>11. OneEach'
        <3>1. \A v \in Driver : shard[v].index # free
            BY <2>3, <2>7
        <3> QED
            BY <2>2, <2>5, <2>6, <3>1 DEF OneEach, Unscaled
    <2> QED
        BY <2>2, <2>8, <2>9, <2>10, <2>11 DEF Unscaled, Stands
<1>2. ASSUME NEW w \in Worker, PollRetune(w)
      PROVE  Unscaled'
    <2>1. Driver' = Driver /\ w \in Driver /\ \A v \in Driver : v # w => shard'[v] = shard[v]
        BY <1>2 DEF PollRetune, Driver, IInv, Workers
    <2>2. shard'[w] = Resliced(shard[w], retune) /\ shard[w] \in Shard
        BY <1>2 DEF PollRetune, IInv, Workers
    <2>3. /\ shard'[w].index = shard[w].index
          /\ retune.workers = None => shard'[w].count = shard[w].count
        BY <2>2 DEF Resliced, Shard
    <2>4. /\ retune # None /\ retune' = retune /\ shards' = shards /\ profile' = profile
          /\ request' = request /\ count' = count
        BY <1>2 DEF PollRetune, busVars, runVars, reqVars
    <2> QED
        BY <2>1, <2>3, <2>4 DEF Unscaled, OneEach, Stands
<1>3. ASSUME NEW w \in Worker,
             \/ ClaimTimesOut(w) \/ Drained(w) \/ Die(w)
             \/ PollStop(w) \/ WindowEnds(w) \/ DrainWorker(w)
      PROVE  Unscaled'
    <2>1. Narrows
        BY <1>3, ExitNarrows, CloseNarrows DEF ClaimTimesOut, Drained, Die, PollStop,
           WindowEnds, DrainWorker
    <2>2. UNCHANGED <<shards, retune, profile, request>>
        BY <1>3 DEF ClaimTimesOut, Drained, Die, PollStop, WindowEnds, DrainWorker, busVars,
           runVars, reqVars
    <2>3. count'["scales"] = count["scales"]
        BY <1>3 DEF ClaimTimesOut, Drained, Die, PollStop, WindowEnds, DrainWorker, Op, IInv,
           Asking
    <2> QED
        BY <2>1, <2>2, <2>3, UnscaledStill DEF Stands
<1>4. ASSUME UNCHANGED <<pc, shard, shards, retune, request, count>>,
             profile'.workers = profile.workers
      PROVE  Unscaled'
    <2>1. Narrows
        BY <1>4 DEF Narrows, Driver
    <2> QED
        BY <1>4, <2>1, UnscaledStill DEF Stands
<1>5. ASSUME NEW w \in Worker, Sample(w) \/ Resolve(w) \/ Expire(w)
      PROVE  Unscaled'
    <2>1. UNCHANGED <<pc, shard, shards, retune, request, count>>
          /\ profile'.workers = profile.workers
        BY <1>5 DEF Sample, Resolve, Expire, busVars, workerVars, runVars, reqVars
    <2> QED
        BY <1>4, <2>1
<1>6. CASE Lifecycle \/ SendElapsed \/ WatchExternalStop \/ Stop \/ StopElsewhere
    <2>1. UNCHANGED <<pc, shard, shards, retune, request, count>>
          /\ profile'.workers = profile.workers
        BY <1>6 DEF Lifecycle, SendStopped, Close, DrainEnds, DrainWatch, DrainDeserted,
           DrainTimesOut, MarkDone, Signalled, Live, RunOnly, SendElapsed,
           WatchExternalStop, Stop, StopElsewhere, busVars, workerVars, runVars, reqVars
    <2> QED
        BY <1>4, <2>1
<1>7. ASSUME NEW c \in Caller, RetuneStore(c) \/ Provision(c)
      PROVE  Unscaled'
    <2>1. UNCHANGED <<pc, shard, shards, retune, count>> /\ profile'.workers = profile.workers
        BY <1>7 DEF RetuneStore, Provision, IInv, Coordinator, busVars, workerVars, runVars
    <2>2. ASSUME NEW d \in Caller, Stands(d, "signal")'
          PROVE  Stands(d, "signal")
        BY <1>7, <2>2 DEF RetuneStore, Provision, Ends, Stands, IInv, Asking
    <2>3. Narrows
        BY <2>1 DEF Narrows, Driver
    <2> QED
        BY <2>1, <2>2, <2>3, UnscaledStill
<1>8. CASE RollUp \/ StopTeardown \/ \E c \in Caller : ScaleProvision(c)
    <2>1. Narrows
        BY <1>8, ScaleFleetNarrows DEF RollUp, StopTeardown, ScaleProvision
    <2>2. UNCHANGED <<shards, retune, profile, count>>
        BY <1>8 DEF RollUp, StopTeardown, ScaleProvision, busVars, runVars, reqVars
    <2>3. ASSUME NEW d \in Caller, Stands(d, "signal")'
          PROVE  Stands(d, "signal")
        BY <1>8, <2>3 DEF RollUp, StopTeardown, ScaleProvision, Ends, Stands, reqVars, IInv,
           Asking
    <2> QED
        BY <2>1, <2>2, <2>3, UnscaledStill
<1>9. CASE FallBack
    <2>1. Narrows
        BY <1>9 DEF FallBack, Narrows, Driver, Fresh
    <2> QED
        BY <1>9, <2>1, UnscaledStill DEF FallBack, busVars, reqVars, Stands
<1>10. ASSUME NEW c \in Caller, ScaleSignal(c)
       PROVE  Unscaled'
    <2>1. Stands(c, "signal") /\ count' = count
        BY <1>10 DEF ScaleSignal
    <2> QED
        BY <2>1 DEF Unscaled
<1>11. ASSUME NEW c \in Caller, NEW n \in Sizes, ScaleBegin(c, n)
       PROVE  Unscaled'
    <2>1. count'["scales"] = count["scales"] + 1
        BY <1>11 DEF ScaleBegin, Op, IInv, Asking
    <2>2. count'["scales"] # 0
        BY <2>1, Numbers
    <2> QED
        BY <2>2 DEF Unscaled
<1>12. ASSUME NEW t \in Targets, RetuneElsewhere(t) \/ \E c \in Caller : RetuneSignal(c, t)
       PROVE  Unscaled'
    <2>1. Retunes(t)
        BY <1>12 DEF RetuneElsewhere, RetuneSignal
    <2>2. retune'.workers = None
        BY <2>1 DEF Retunes
    <2>3. UNCHANGED <<pc, shard, shards, profile>> /\ count'["scales"] = count["scales"]
        BY <2>1 DEF Retunes, Op, IInv, Asking, workerVars, runVars
    <2>4. ASSUME NEW d \in Caller, Stands(d, "signal")'
          PROVE  Stands(d, "signal")
        BY <1>12, <2>4 DEF RetuneElsewhere, RetuneSignal, Stands, IInv, Asking
    <2>5. Driver' = Driver
        BY <2>3 DEF Driver
    <2>6. retune' # None
        <3>1. retune' = [workers |-> None, target |-> t]
            BY <2>1 DEF Retunes
        <3>2. retune' \in Retune
            BY <3>1 DEF Retune
        <3> QED
            BY <3>2 DEF Retune
    <2> QED
        BY <2>2, <2>3, <2>4, <2>5, <2>6 DEF Unscaled, OneEach
<1>13. CASE UNCHANGED vars
    BY <1>4, <1>13 DEF vars, busVars, workerVars, runVars, reqVars
<1> QED
    BY <1>1, <1>2, <1>3, <1>5, <1>6, <1>7, <1>8, <1>9, <1>10, <1>11, <1>12, <1>13
    DEF Next, WorkerStep, Requests

\* The provers need this spelled out.
LEMMA TimesKeepsOrder ==
    ASSUME NEW a \in Nat, NEW b \in Nat, NEW c \in Nat, a <= b
    PROVE  a * c <= b * c /\ a * c \in Nat /\ b * c \in Nat
<1>1. PICK d \in Nat : b = a + d
    <2>1. b - a \in Nat /\ b = a + (b - a)
        OBVIOUS
    <2> QED
        BY <2>1
<1>2. b * c = a * c + d * c
    BY <1>1
<1>3. d * c \in Nat /\ a * c \in Nat
    OBVIOUS
<1> QED
    BY <1>2, <1>3

LEMMA UpTo ==
    ASSUME NEW m \in Nat
    PROVE  /\ IsFiniteSet(1 .. m) /\ Cardinality(1 .. m) = m
           /\ IsFiniteSet(0 .. m - 1) /\ Cardinality(0 .. m - 1) = m
<1>1. 0 \in Int /\ 1 \in Int /\ m \in Int /\ m - 1 \in Int
    OBVIOUS
<1>2. IsFiniteSet(1 .. m) /\ Cardinality(1 .. m) = IF 1 > m THEN 0 ELSE m - 1 + 1
    BY <1>1, FS_Interval
<1>3. IsFiniteSet(0 .. m - 1) /\ Cardinality(0 .. m - 1) = IF 0 > m - 1 THEN 0 ELSE m - 1 - 0 + 1
    BY <1>1, FS_Interval
<1> QED
    BY <1>2, <1>3

\* The slices, of a total cut for n, of those in D, and that their indexes differ.
SlicesOf(t, n, i, D) == UNION {{w} \X (1 .. Split(t, n, i[w])) : w \in D}
Apart(i, D) == \A v, w \in D : i[v] = i[w] => v = w

\* Slices of a total, for different indexes: each has the quotient, and as many of
\* them one more as there are indexes below the remainder.  As many as it is cut into
\* add up to no more than it, and each of the others adds a quotient.
LEMMA SumOfSlices ==
    ASSUME NEW t \in Nat, NEW n \in Nat \ {0},
           NEW D, IsFiniteSet(D), NEW s \in Nat, Cardinality(D) <= n + s, NEW i \in [D -> Nat],
           Apart(i, D)
    PROVE  Cardinality(SlicesOf(t, n, i, D)) <= t + s * (t \div n)
<1> DEFINE q == t \div n
           r == t % n
           slices == SlicesOf(t, n, i, D)
           equal  == D \X (1 .. q)
           low    == {w \in D : i[w] < r}
           rest   == low \X {q + 1}
<1>1. q \in Nat /\ r \in Nat /\ t = n * q + r
    OBVIOUS
<1> HIDE DEF q, r
<1>2. IsFiniteSet(equal) /\ Cardinality(equal) \in Nat /\ Cardinality(equal) <= (n + s) * q
    <2>1. IsFiniteSet(1 .. q) /\ Cardinality(1 .. q) = q
        BY <1>1, UpTo
    <2>2. IsFiniteSet(equal) /\ Cardinality(equal) = Cardinality(D) * q
        BY <2>1, FS_Product
    <2>3. Cardinality(D) \in Nat
        BY FS_CardinalityType
    <2> HIDE DEF equal
    <2>4. Cardinality(D) * q <= (n + s) * q /\ Cardinality(D) * q \in Nat
        <3>1. n + s \in Nat
            OBVIOUS
        <3> QED
            BY <1>1, <2>3, <3>1, TimesKeepsOrder
    <2> QED
        BY <2>2, <2>4
<1>3. IsFiniteSet(rest) /\ Cardinality(rest) \in Nat /\ Cardinality(rest) <= r
    <2>1. IsFiniteSet(0 .. r - 1) /\ Cardinality(0 .. r - 1) = r
        BY <1>1, UpTo
    <2>2. [e \in rest |-> i[e[1]]] \in Injection(rest, 0 .. r - 1)
        <3>1. \A e \in rest : e = <<e[1], q + 1>> /\ e[1] \in D /\ i[e[1]] \in 0 .. r - 1
            BY <1>1
        <3> DEFINE f == [e \in rest |-> i[e[1]]]
        <3>2. f \in [rest -> 0 .. r - 1]
            BY <3>1
        <3>3. \A a, b \in rest : f[a] = f[b] => a = b
            BY <3>1 DEF Apart
        <3> QED
            BY <3>2, <3>3 DEF Injection, IsInjective
    <2> HIDE DEF rest
    <2>3. IsFiniteSet(rest) /\ Cardinality(rest) <= Cardinality(0 .. r - 1)
        BY <2>1, <2>2, FS_Injection
    <2> QED
        BY <2>1, <2>3, FS_CardinalityType
<1>4. slices \subseteq equal \cup rest
    <2> SUFFICES ASSUME NEW w \in D, NEW u \in 1 .. Split(t, n, i[w])
                 PROVE  <<w, u>> \in equal \cup rest
        BY DEF SlicesOf
    <2>1. CASE i[w] < r
        <3>1. u \in 1 .. q + 1
            BY <1>1, <2>1 DEF Split, q, r
        <3> QED
            BY <1>1, <2>1, <3>1
    <2>2. CASE ~(i[w] < r)
        BY <1>1, <2>2 DEF Split, q, r
    <2> QED
        BY <2>1, <2>2
<1> HIDE DEF equal, rest, slices
<1>5. IsFiniteSet(equal \cup rest)
      /\ Cardinality(equal \cup rest) = Cardinality(equal) + Cardinality(rest)
                                            - Cardinality(equal \cap rest)
    BY <1>2, <1>3, FS_Union
<1>6. Cardinality(equal \cap rest) \in Nat
    BY <1>2, FS_Intersection, FS_CardinalityType
<1>7. Cardinality(slices) \in Nat /\ Cardinality(slices) <= Cardinality(equal \cup rest)
    BY <1>4, <1>5, FS_Subset, FS_CardinalityType
<1>8. Cardinality(slices) <= (n + s) * q + r
    <2>1. (n + s) * q \in Nat
        BY <1>1
    <2>2. Cardinality(equal \cup rest) \in Nat
        BY <1>5, FS_CardinalityType
    <2> QED
        BY <1>1, <1>2, <1>3, <1>5, <1>6, <1>7, <2>1, <2>2
<1>9. (n + s) * q = n * q + s * q /\ n * q \in Nat /\ s * q \in Nat
    BY <1>1
<1>10. Cardinality(slices) <= t + s * q
    BY <1>1, <1>7, <1>8, <1>9
<1> QED
    BY <1>10 DEF slices, q

\* Who has looked drives its slice of the total that was asked for last, cut for
\* the size of the fleet.
LEMMA ToldIsCut ==
    ASSUME SInv, Told, NEW w \in Driver
    PROVE  /\ shard[w].index \in Nat
           /\ shard[w].share = Split(Asked, profile.workers, shard[w].index)
<1>1. shard[w] \in Shard /\ w \in Worker
    BY DEF Driver, SInv, IInv, Workers
<1>2. shard[w].index \in Nat
    BY <1>1 DEF Shard
<1>3. CASE retune = None
    <2>1. count["scales"] = 0
        BY <1>3 DEF Told
    <2> QED
        BY <1>2, <1>3, <2>1 DEF SInv, Unscaled, Asked
<1>4. CASE retune # None
    <2>1. shard[w] = Resliced(shard[w], retune)
        BY <1>4 DEF Told
    <2>2. (IF retune.workers = None THEN shard[w].count ELSE retune.workers) = profile.workers
        <3>1. CASE count["scales"] = 0
            BY <1>4, <3>1 DEF SInv, Unscaled
        <3>2. CASE count["scales"] # 0
            <4>1. retune.workers = profile.workers /\ profile.workers \in Sizes
                BY <3>2 DEF Told, SInv, IInv, Coordinator
            <4> QED
                BY <4>1, SizesType
        <3> QED
            BY <3>1, <3>2
    <2>3. Resliced(shard[w], retune).share
              = Split(retune.target, profile.workers, shard[w].index)
        BY <1>1, <2>2 DEF Resliced, Shard
    <2> QED
        BY <1>2, <1>4, <2>1, <2>3 DEF Asked
<1> QED
    BY <1>3, <1>4

\* Who drives is of the provisioner's fleet: no more than the key counts and those
\* to spare.
LEMMA DriversFit ==
    ASSUME SInv, Told
    PROVE  /\ IsFiniteSet(Driver) /\ Cardinality(Driver) \in Nat /\ Spare \in Nat
           /\ Cardinality(Driver) <= profile.workers + Spare
<1>1. Driver \subseteq fleet
    BY DEF Told, Driver
<1>2. IsFiniteSet(fleet) /\ Cardinality(fleet) \in Nat /\ profile.workers \in Nat
    BY Numbers DEF SInv
<1>3. IsFiniteSet(Driver) /\ Cardinality(Driver) <= Cardinality(fleet)
    BY <1>1, <1>2, FS_Subset
<1>4. Spare \in Nat /\ Cardinality(fleet) <= profile.workers + Spare
    BY <1>2 DEF Spare
<1> QED
    BY <1>2, <1>3, <1>4, FS_CardinalityType

\* Whatever the operator asked for, in whatever order its requests reached the bus
\* and the provisioner, and whoever died or was drained: once no re-scale is under
\* way and the workers have looked, no total is overdriven, for any fleet size, but
\* for one slice per worker that the key does not count, unless an index was claimed
\* twice.
THEOREM SlicesNeverOverdrive == Spec => []SlicesAddUp
<1>1. SInv => SlicesAddUp
    <2> SUFFICES ASSUME SInv, Told, count["scales"] = 0 \/ OneEach
                 PROVE  Cardinality(Driven) <= Asked + Spare * (Asked \div profile.workers)
        BY DEF SlicesAddUp
    <2> DEFINE n == profile.workers
               i == [w \in Driver |-> shard[w].index]
    <2>1. n \in Nat \ {0} /\ Asked \in Nat
        BY Numbers DEF SInv, IInv, Bus, Retune, Asked
    <2>2. OneEach
        BY DEF SInv, Unscaled
    <2>3. i \in [Driver -> Nat] /\ Apart(i, Driver)
        BY <2>2, ToldIsCut DEF OneEach, Apart
    <2>4. IsFiniteSet(Driver) /\ Spare \in Nat /\ Cardinality(Driver) <= n + Spare
        BY DriversFit
    <2>5. Driven = SlicesOf(Asked, n, i, Driver)
        BY ToldIsCut DEF Driven, SlicesOf
    <2> HIDE DEF n, i
    <2>6. Cardinality(SlicesOf(Asked, n, i, Driver)) <= Asked + Spare * (Asked \div n)
        BY <2>1, <2>3, <2>4, SumOfSlices
    <2> QED
        BY <2>5, <2>6, Zenon DEF n
<1>2. Spec => []SInv
    BY SlicesInit, SlicesStep, PTL DEF Spec
<1> QED
    BY <1>1, <1>2, PTL

\* Even when an index was claimed twice the fleet drives at most one transaction
\* per second and worker above that: the quotient is everyone's, and only the
\* remainder is given out anew.
THEOREM OverdriveIsBounded ==
    Spec => [](Told => Cardinality(Driven) <=
                           Asked + profile.workers + Spare * (Asked \div profile.workers + 1))
<1>1. SInv /\ Told => Cardinality(Driven) <=
                          Asked + profile.workers + Spare * (Asked \div profile.workers + 1)
    <2> SUFFICES ASSUME SInv, Told
                 PROVE  Cardinality(Driven) <=
                            Asked + profile.workers + Spare * (Asked \div profile.workers + 1)
        OBVIOUS
    <2> DEFINE t == Asked
               n == profile.workers
               q == t \div n
               most == Driver \X (1 .. q + 1)
    <2>1. n \in Nat \ {0} /\ t \in Nat
        BY Numbers DEF SInv, IInv, Bus, Retune, Asked
    <2>2. IsFiniteSet(Driver) /\ Cardinality(Driver) \in Nat /\ Spare \in Nat
          /\ Cardinality(Driver) <= n + Spare
        BY DriversFit
    <2> HIDE DEF t, n
    <2>3. q \in Nat /\ n * q <= t /\ n * q \in Nat
        BY <2>1
    <2>4. Driven \subseteq most
        <3> SUFFICES ASSUME NEW w \in Driver, NEW u \in 1 .. shard[w].share
                     PROVE  u \in 1 .. q + 1
            BY DEF Driven
        <3>1. shard[w].share = Split(t, n, shard[w].index)
            BY ToldIsCut DEF t, n
        <3>2. shard[w].share \in {q, q + 1}
            BY <2>3, <3>1 DEF Split
        <3> QED
            BY <2>3, <3>2
    <2> HIDE DEF q
    <2>5. IsFiniteSet(1 .. q + 1) /\ Cardinality(1 .. q + 1) = q + 1
        BY <2>3, FS_Interval
    <2>6. IsFiniteSet(most) /\ Cardinality(most) = Cardinality(Driver) * (q + 1)
        BY <2>2, <2>5, FS_Product
    <2> HIDE DEF most
    <2>7. Cardinality(Driven) \in Nat /\ Cardinality(Driven) <= Cardinality(most)
        BY <2>4, <2>6, FS_Subset, FS_CardinalityType
    <2>8. Cardinality(Driver) * (q + 1) <= (n + Spare) * (q + 1)
        <3>1. n + Spare \in Nat /\ q + 1 \in Nat
            BY <2>1, <2>2, <2>3
        <3> QED
            BY <2>2, <3>1, TimesKeepsOrder
    <2>9. (n + Spare) * (q + 1) = n * q + n + Spare * (q + 1)
        BY <2>1, <2>2, <2>3
    <2>10. Spare * (q + 1) \in Nat
        BY <2>2, <2>3
    <2>11. Cardinality(Driven) <= t + n + Spare * (q + 1)
        BY <2>1, <2>2, <2>3, <2>6, <2>7, <2>8, <2>9, <2>10
    <2> QED
        BY <2>11 DEF t, n, q
<1>2. Spec => []SInv
    BY SlicesInit, SlicesStep, PTL DEF Spec
<1> QED
    BY <1>1, <1>2, PTL
=============================================================================
