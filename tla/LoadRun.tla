------------------------------ MODULE LoadRun ------------------------------
(***************************************************************************)
(* One load run over the Redis bus: the coordinator shards the target rate *)
(* over a fleet, workers claim shards, drive their slice and report        *)
(* samples; the operator re-tunes, re-scales, drains a worker or stops;    *)
(* the lifecycle closes the send window, waits for the fleet to drain and  *)
(* rolls the run up.                                                       *)
(*                                                                         *)
(* Coordinator and workers share the bus only, and a worker looks at it    *)
(* every half second: what the operator did reaches it late, or not at all *)
(* when something else was written over it.                                *)
(***************************************************************************)
EXTENDS Integers, Sequences, FiniteSets

CONSTANTS
    Worker,     \* load workers: processes, or tasks of the orchestrator
    Sizes,      \* the fleet sizes the operator may ask for, at first and later
    InitTarget, \* profile.target_tps at the start
    Targets,    \* the totals the operator may re-tune to
    Caller,     \* bound: requests, and _provision, that wait for bus or provisioner at a time
    None,
    MaxPend,    \* transactions a worker has outstanding (max_backlog)
    Slow,       \* bound: the workers that may have any
    MaxOps      \* bound: re-scales, re-tunes, deaths and drains of workers

ASSUME LoadAssumption ==
    /\ Sizes \subseteq Nat \ {0}
    \* scale() leaves a total of zero out of the key: not modelled
    /\ Targets \subseteq Nat \ {0} /\ InitTarget \in Targets
    /\ IsFiniteSet(Worker) /\ Slow \subseteq Worker
    /\ None \notin Int /\ None \notin [workers : Sizes \cup {None}, target : Targets]
    /\ None \notin [at : {"signal", "fleet"}, size : Sizes]
    /\ None \notin [at : {"store"}, total : Targets]
    /\ MaxPend \in Nat /\ MaxOps \in Nat

VARIABLES
    \* the bus
    shards,     \* loadrun:{run}:shards
    stopKey,    \* loadrun:{run}:stop
    retune,     \* loadrun:{run}:retune
    done,       \* loadrun:{run}:done
    present,    \* loadworker:{worker}
    \* the workers
    pc,
    shard,      \* the slice a worker drives
    pend,       \* transactions left over when the send window closed
    fleet,      \* those that are processes the provisioner started and has not reaped
    \* the coordinator
    run,        \* LoadRun; life is where _lifecycle is
    profile,    \* workers and target_tps
    latest,     \* worker_id -> what its last sample said to be outstanding
    grace,      \* _external_or_fallback has not looked yet
    stopping,   \* a stop() is under way
    request,    \* caller -> its scale() or retune()
    provisioning, \* _provision has not begun
    count       \* how many of each so far

busVars    == <<shards, stopKey, retune, done, present>>
workerVars == <<pc, shard, pend, fleet>>
runVars    == <<run, profile, latest, grace>>
reqVars    == <<stopping, request, provisioning>>
vars == <<busVars, workerVars, runVars, reqVars, count>>

Shard  == [index : Nat, count : Sizes, share : Nat]
Retune == [workers : Sizes \cup {None}, target : Targets]
Request == [at : {"signal", "fleet"}, size : Sizes] \cup [at : {"store"}, total : Targets]

\* send: up to the end of the send window, the wait for a first sample included.
\* watch: draining, with workers seen in the presence.  deserted: grace, after
\* the presence showed none any more.
Life == {"send", "close", "drain", "watch", "grace", "deserted", "over"}

\* quiet: draining after a stop, which also ends the heartbeat.
Pc == {"off", "claim", "drive", "drain", "quiet", "gone"}

TypeOK ==
    /\ shards \in Seq(Shard) /\ stopKey \in BOOLEAN
    /\ retune \in Retune \cup {None} /\ done \in BOOLEAN
    /\ present \subseteq Worker
    /\ pc \in [Worker -> Pc] /\ shard \in [Worker -> Shard \cup {None}]
    /\ pend \in [Worker -> 0 .. MaxPend]
    /\ run \in [life : Life, status : {"running", "completed"},
                stop : BOOLEAN, abort : BOOLEAN]
    /\ profile \in [workers : Sizes, target : Targets]
    /\ latest \in [Worker -> 0 .. MaxPend \cup {None}]
    /\ fleet \subseteq Worker /\ grace \in BOOLEAN
    /\ stopping \in BOOLEAN /\ provisioning \in BOOLEAN
    /\ request \in [Caller -> Request \cup {None}]
    /\ count \in [{"scales", "tunes", "faults"} -> 0 .. MaxOps]

\* _split of an integer: the remainder goes to the low indices.
Split(total, parts, index) ==
    (total \div parts) + (IF index < total % parts THEN 1 ELSE 0)

\* LoadProfile.shard
ShardOf(p, i) == [index |-> i, count |-> p.workers, share |-> Split(p.target, p.workers, i)]

\* start() has pushed the shards and created the run's tasks.
Init ==
    /\ \E n \in Sizes : profile = [workers |-> n, target |-> InitTarget]
    /\ shards = [k \in 1 .. profile.workers |-> ShardOf(profile, k - 1)]
    /\ stopKey = FALSE /\ retune = None /\ done = FALSE
    /\ present = {}
    /\ pc = [w \in Worker |-> "off"] /\ shard = [w \in Worker |-> None]
    /\ pend = [w \in Worker |-> 0]
    /\ run = [life |-> "send", status |-> "running", stop |-> FALSE, abort |-> FALSE]
    /\ latest = [w \in Worker |-> None]
    /\ fleet = {} /\ grace = TRUE
    /\ stopping = FALSE /\ request = [c \in Caller |-> None] /\ provisioning = TRUE
    /\ count = [o \in {"scales", "tunes", "faults"} |-> 0]

Driving(w) == pc[w] \in {"drive", "drain", "quiet"}
Fresh      == {w \in Worker : pc[w] = "off"}
Running(w) == pc[w] \notin {"off", "gone"}
Reporting  == {w \in Worker : latest[w] # None}

\* One more of what is bounded.
Op(o) ==
    /\ count["scales"] + count["tunes"] + count["faults"] < MaxOps
    /\ count' = [count EXCEPT ![o] = @ + 1]

-----------------------------------------------------------------------------
(* run_worker and its driver.                                              *)

GoTo(w, at) == pc' = [pc EXCEPT ![w] = at]

\* These processes end.
Exit(ws) ==
    /\ pc' = [w \in Worker |-> IF w \in ws THEN "gone" ELSE pc[w]]
    /\ shard' = [w \in Worker |-> IF w \in ws THEN None ELSE shard[w]]
    /\ pend' = [w \in Worker |-> IF w \in ws THEN 0 ELSE pend[w]]
    /\ fleet' = fleet \ ws

Claim(w) ==
    /\ pc[w] = "claim" /\ shards # <<>>
    /\ shard' = [shard EXCEPT ![w] = Head(shards)]
    /\ shards' = Tail(shards)
    /\ present' = present \cup {w}
    /\ GoTo(w, "drive")
    /\ UNCHANGED <<stopKey, retune, done, pend, fleet, runVars, reqVars, count>>

ClaimTimesOut(w) ==
    /\ pc[w] = "claim" /\ shards = <<>>
    /\ Exit({w})
    /\ UNCHANGED <<busVars, runVars, reqVars, count>>

\* mutation: the new fleet size is not adopted before the split
ReslicedAsBefore(s, r) == [s EXCEPT !.share = Split(r.target, s.count, s.index)]

\* apply_retune
Resliced(s, r) ==
    LET n == IF r.workers = None THEN s.count ELSE r.workers
    IN  [s EXCEPT !.count = n, !.share = Split(r.target, n, s.index)]

\* What is outstanding counts once the window closes; up to then it is any
\* number the cap of the backlog lets through.
Outstanding(w) ==
    IF pc[w] = "drive" /\ w \in Slow THEN 0 .. MaxPend ELSE {pend[w]}

\* mutation: the backlog has no cap
CloseUncapped(w, at) ==
    /\ \E n \in {pend[w], pend[w] + 1, MaxPend + 1} : pend' = [pend EXCEPT ![w] = n]
    /\ GoTo(w, at)
    /\ shard' = [shard EXCEPT ![w] = None]

CloseWindow(w, at) ==
    /\ \E n \in Outstanding(w) : pend' = [pend EXCEPT ![w] = n]
    /\ GoTo(w, at)
    /\ shard' = [shard EXCEPT ![w] = None]

\* stop_poller: the stop key, or else the retune key.
PollStop(w) ==
    /\ pc[w] \in {"drive", "drain"} /\ stopKey
    /\ CloseWindow(w, "quiet")
    /\ UNCHANGED <<busVars, fleet, runVars, reqVars, count>>

PollRetune(w) ==
    /\ pc[w] = "drive" /\ ~stopKey /\ retune # None
    /\ shard' = [shard EXCEPT ![w] = Resliced(@, retune)]
    /\ shard' # shard
    /\ UNCHANGED <<busVars, pc, pend, fleet, runVars, reqVars, count>>

\* The shard's own duration has passed; the poller and the heartbeat go on.
WindowEnds(w) ==
    /\ pc[w] = "drive"
    /\ CloseWindow(w, "drain")
    /\ UNCHANGED <<busVars, fleet, runVars, reqVars, count>>

Resolve(w) ==
    /\ pend[w] > 0
    /\ pend' = [pend EXCEPT ![w] = @ - 1]
    /\ UNCHANGED <<busVars, pc, shard, fleet, runVars, reqVars, count>>

\* A sample goes to the stream, and from there to the run until its roll-up.
Report(w, n) == latest' = IF run.status = "running" THEN [latest EXCEPT ![w] = n] ELSE latest

Sample(w) ==
    /\ Driving(w) /\ run.status = "running"
    /\ \E n \in Outstanding(w) : latest[w] # n /\ Report(w, n)
    /\ UNCHANGED <<busVars, workerVars, run, profile, grace, reqVars, count>>

\* _drain: nothing is outstanding, or drain_s have passed and the rest is
\* aborted.  A last sample says so, and the process ends.
Drained(w) ==
    /\ pc[w] \in {"drain", "quiet"}
    /\ Exit({w})
    /\ Report(w, 0)
    /\ present' = present \ {w}
    /\ UNCHANGED <<shards, stopKey, retune, done, run, profile, grace, reqVars, count>>

WorkerStep(w) ==
    \/ Claim(w) \/ ClaimTimesOut(w) \/ PollStop(w) \/ PollRetune(w)
    \/ Sample(w) \/ Drained(w)

-----------------------------------------------------------------------------
(* The provisioner.                                                        *)

\* scale(): start workers until there are n or one fails to start, or end some, of
\* whom each may stay when its removal fails.  A listing that fails shows no worker
\* of those there are.  Which one a handle stands for has nothing to do with the
\* shard it claimed.
ScaleFleet(n) ==
    \/ \E seen \in {Cardinality(fleet), 0}, ws \in SUBSET Fresh :
          /\ Cardinality(ws) <= n - seen
          /\ fleet' = fleet \cup ws
          /\ pc' = [w \in Worker |-> IF w \in ws THEN "claim" ELSE pc[w]]
          /\ UNCHANGED <<shard, pend>>
    \/ \E ws \in SUBSET fleet :
          /\ Cardinality(ws) <= Cardinality(fleet) - n
          /\ Exit(ws)

\* c is a coroutine of the orchestrator that stands where this says.
Stands(c, at) == request[c] # None /\ request[c].at = at
Ends(c) == request' = [request EXCEPT ![c] = None]

\* _provision asks whatever became of the run since.
Provision(c) ==
    /\ provisioning /\ request[c] = None
    /\ request' = [request EXCEPT ![c] = [at |-> "fleet", size |-> profile.workers]]
    /\ provisioning' = FALSE
    /\ UNCHANGED <<busVars, workerVars, runVars, stopping, count>>

\* _external_or_fallback, when nobody came: the run's workers are tasks of the
\* orchestrator.  Above the cap, or when somebody came, nothing happens, ever.
Nobody == ~run.stop /\ run.status = "running" /\ Len(shards) >= profile.workers /\ Reporting = {}

FallBack ==
    /\ grace /\ Nobody
    /\ \E ws \in SUBSET Fresh :
          /\ Cardinality(ws) = profile.workers
          /\ pc' = [w \in Worker |-> IF w \in ws THEN "claim" ELSE pc[w]]
    /\ grace' = FALSE
    /\ UNCHANGED <<busVars, shard, pend, fleet, run, profile, latest, reqVars, count>>

-----------------------------------------------------------------------------
(* The operator's requests.  A request is a coroutine of the orchestrator   *)
(* and awaits the bus.                                                     *)

\* scale(): the new size at once, and shards for the workers to come; ...
ScaleBegin(c, n) ==
    /\ request[c] = None /\ Op("scales")
    /\ profile' = [profile EXCEPT !.workers = n]
    /\ shards' = shards \o [k \in 1 .. n - profile.workers |->
                              ShardOf(profile', profile.workers + k - 1)]
    /\ request' = [request EXCEPT ![c] =
                      [at |-> IF n = profile.workers THEN "fleet" ELSE "signal", size |-> n]]
    /\ UNCHANGED <<stopKey, retune, done, present, workerVars, run, latest, grace, stopping,
                    provisioning>>

\* ... then, if it is new, the key that makes the fleet re-slice, with the totals; ...
ScaleSignal(c) ==
    /\ Stands(c, "signal")
    /\ retune' = [workers |-> request[c].size, target |-> profile.target]
    /\ request' = [request EXCEPT ![c].at = "fleet"]
    /\ UNCHANGED <<shards, stopKey, done, present, workerVars, runVars, stopping,
                   provisioning, count>>

\* ... then the provisioner, which serves one caller at a time.
ScaleProvision(c) ==
    /\ Stands(c, "fleet")
    /\ ScaleFleet(request[c].size)
    /\ Ends(c)
    /\ UNCHANGED <<busVars, runVars, stopping, provisioning, count>>

\* retune() writes the same key, with the totals only, ...
Retunes(t) ==
    /\ Op("tunes")
    /\ retune' = [workers |-> None, target |-> t]
    /\ UNCHANGED <<shards, stopKey, done, present, workerVars, runVars, stopping, provisioning>>

RetuneSignal(c, t) ==
    /\ request[c] = None /\ Retunes(t)
    /\ request' = [request EXCEPT ![c] = [at |-> "store", total |-> t]]

\* ... and has the profile say so, unless another replica owns the run.
RetuneElsewhere(t) == Retunes(t) /\ UNCHANGED request

RetuneStore(c) ==
    /\ Stands(c, "store")
    /\ profile' = [profile EXCEPT !.target = request[c].total]
    /\ Ends(c)
    /\ UNCHANGED <<busVars, workerVars, run, latest, grace, stopping, provisioning, count>>

\* stop(), up to the answer of the bus.
Stop ==
    /\ ~stopping /\ ~run.abort
    /\ run' = [run EXCEPT !.abort = TRUE, !.stop = TRUE]
    /\ stopKey' = TRUE
    /\ stopping' = TRUE
    /\ UNCHANGED <<shards, retune, done, present, workerVars, profile, latest, grace, request,
                   provisioning, count>>

StopTeardown ==
    /\ stopping
    /\ ScaleFleet(0)
    /\ stopping' = FALSE
    /\ UNCHANGED <<busVars, runVars, request, provisioning, count>>

\* stop() on a replica that does not own the run.
StopElsewhere ==
    /\ ~stopKey /\ run.status = "running"
    /\ stopKey' = TRUE
    /\ UNCHANGED <<shards, retune, done, present, workerVars, runVars, reqVars, count>>

-----------------------------------------------------------------------------
(* The tasks of the run.                                                   *)

Live(life) == run' = [run EXCEPT !.life = life]
RunOnly == UNCHANGED <<busVars, workerVars, profile, latest, grace, reqVars, count>>

\* mutation: the owner never looks at the stop key
WatchNothing == run.stop /\ ~run.stop /\ UNCHANGED vars

WatchExternalStop ==
    /\ ~run.stop /\ stopKey
    /\ run' = [run EXCEPT !.stop = TRUE]
    /\ RunOnly

\* mutation: the fleet is not told that the window is over
SignalledLocally(life) ==
    /\ Live(life)
    /\ RunOnly

Signalled(life) ==
    /\ stopKey' = TRUE
    /\ Live(life)
    /\ UNCHANGED <<shards, retune, done, present, workerVars, profile, latest, grace,
                   reqVars, count>>

\* _await_ready has nothing to wait for any more, and neither has the window.
SendStopped == run.life = "send" /\ run.stop /\ Signalled("grace")

\* A worker has reported, or had startup_timeout_s to start, and then the
\* duration has passed.
SendElapsed ==
    /\ run.life = "send" /\ ~run.stop
    /\ run' = [run EXCEPT !.life = "close", !.stop = TRUE]
    /\ RunOnly

Close == run.life = "close" /\ Signalled("drain")

Draining == run.life \in {"drain", "watch"}

\* _await_drain: the operator wants out, nobody ever reported, or the merged
\* snapshot shows nothing outstanding; ...
DrainEnds ==
    /\ Draining
    /\ run.abort \/ \A w \in Reporting : latest[w] = 0
    /\ Live("grace")
    /\ RunOnly

\* ... or the presence, which showed the run's workers before, shows none; ...
DrainWatch ==
    /\ run.life = "drain" /\ present # {}
    /\ \E w \in Reporting : latest[w] > 0
    /\ Live("watch")
    /\ RunOnly

DrainDeserted ==
    /\ run.life = "watch" /\ present = {}
    /\ \E w \in Reporting : latest[w] > 0
    /\ Live("deserted")
    /\ RunOnly

\* ... or drain_s, or the ceiling, have passed.
DrainTimesOut ==
    /\ Draining
    /\ Live("grace")
    /\ RunOnly

MarkDone ==
    /\ run.life \in {"grace", "deserted"}
    /\ done' = TRUE
    /\ Live("over")
    /\ UNCHANGED <<shards, stopKey, retune, present, workerVars, profile, latest, grace,
                   reqVars, count>>

\* _aggregate rolls the run up when it is done, and has its fleet reaped.
RollUp ==
    /\ run.status = "running" /\ done
    /\ run' = [run EXCEPT !.status = "completed"]
    /\ ScaleFleet(0)
    /\ UNCHANGED <<busVars, profile, latest, grace, reqVars, count>>

-----------------------------------------------------------------------------
(* Deaths, drains of one worker, and presence that runs out.               *)

Die(w) ==
    /\ Running(w) /\ Op("faults")
    /\ Exit({w})
    /\ UNCHANGED <<busVars, runVars, reqVars>>

DrainWorker(w) ==
    /\ pc[w] \in {"drive", "drain"} /\ Op("faults")
    /\ CloseWindow(w, "quiet")
    /\ UNCHANGED <<busVars, fleet, runVars, reqVars>>

\* Nobody has refreshed the row for WORKER_TTL_S.
Expire(w) ==
    /\ w \in present /\ pc[w] \in {"quiet", "gone"}
    /\ present' = present \ {w}
    /\ UNCHANGED <<shards, stopKey, retune, done, workerVars, runVars, reqVars, count>>

-----------------------------------------------------------------------------
Lifecycle ==
    \/ SendStopped \/ Close
    \/ DrainEnds \/ DrainWatch \/ DrainDeserted \/ DrainTimesOut \/ MarkDone

Requests ==
    \/ \E c \in Caller : ScaleSignal(c) \/ ScaleProvision(c) \/ RetuneStore(c)
    \/ StopTeardown

Next ==
    \/ \E w \in Worker : WorkerStep(w) \/ WindowEnds(w) \/ Resolve(w)
                         \/ Die(w) \/ DrainWorker(w) \/ Expire(w)
    \/ Lifecycle \/ SendElapsed \/ WatchExternalStop \/ RollUp
    \/ Requests \/ FallBack
    \/ \E c \in Caller :
          \/ Provision(c)
          \/ \E n \in Sizes : ScaleBegin(c, n)
          \/ \E t \in Targets : RetuneSignal(c, t)
    \/ \E t \in Targets : RetuneElsewhere(t)
    \/ Stop \/ StopElsewhere

Spec == Init /\ [][Next]_vars

\* Each loop and each request goes on.  No duration need pass (a soak has none),
\* nobody need answer in time and nobody need come.
Fairness ==
    /\ WF_vars(Lifecycle) /\ WF_vars(WatchExternalStop)
    /\ WF_vars(RollUp) /\ WF_vars(Requests)
    /\ \A w \in Worker :
          /\ WF_vars(Claim(w) \/ ClaimTimesOut(w))
          /\ WF_vars(PollStop(w)) /\ WF_vars(PollRetune(w))
          /\ WF_vars(Drained(w))

FairSpec == Spec /\ Fairness

-----------------------------------------------------------------------------
(* Properties.                                                             *)

\* A stop, asked of any replica in any phase, ends in a roll-up, and for good in a
\* fleet where nobody drives or is about to: those too stop whom the teardown could
\* not remove, or whom a re-scale or a late provision brought up meanwhile to claim
\* what is left in the queue.
StopEnds ==
    <>[](run.stop \/ stopKey =>
            /\ run.status = "completed"
            /\ \A w \in Worker : pc[w] \notin {"claim", "drive"})

\* Nothing is rolled up, and no grace begins, before the stop key is set: a
\* worker that comes late finds it, whoever asked for the stop.
LateComersStop == run.life \notin {"send", "close"} => stopKey

Driver == {w \in Worker : pc[w] = "drive"}

\* What the fleet drives, one element for each transaction per second.
Driven == UNION {{w} \X (1 .. shard[w].share) : w \in Driver}
Asked  == IF retune = None THEN InitTarget ELSE retune.target

\* No re-scale is under way, and the key names the fleet, unless it was never
\* scaled; all who drive are the provisioner's, and have looked.
Told == /\ \A c \in Caller : ~Stands(c, "signal") /\ ~Stands(c, "fleet")
        /\ count["scales"] = 0 \/ (retune # None /\ retune.workers = profile.workers)
        /\ \A w \in Driver :
               w \in fleet /\ (retune # None => shard[w] = Resliced(shard[w], retune))

\* Nobody claimed a shard of the index of another who drives.  A shrink leaves
\* the shards that nobody claimed in the queue, and a growth pushes the same
\* indexes once more.
OneEach == \A v, w \in Driver : shard[v].index = shard[w].index => v = w

\* The workers that the key does not count: they could not be removed, or two
\* re-scales reached key and provisioner in different orders.
Spare == IF Cardinality(fleet) > profile.workers THEN Cardinality(fleet) - profile.workers ELSE 0

\* After re-scales that may overlap, the shards of before and the new ones sum to
\* no more than the total: nobody drives on with a slice cut for another fleet
\* size.  Each worker to spare adds one slice, and no more.
SlicesAddUp ==
    Told /\ (count["scales"] = 0 \/ OneEach) =>
        Cardinality(Driven) <= Asked + Spare * (Asked \div profile.workers)

\* When the presence ends the drain of a run, its workers have finished.
DesertedIsFinished ==
    run.life = "deserted" => \A w \in Worker : ~Driving(w)
=============================================================================
