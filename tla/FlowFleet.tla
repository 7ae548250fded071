----------------------------- MODULE FlowFleet -----------------------------
(***************************************************************************)
(* One network run on the worker fleet: the orchestrator places the        *)
(* listeners of the run one wave at a time, flow hosts claim placements    *)
(* from the queue of the bus, start listeners and advertise them in the    *)
(* registry, and the poller of the orchestrator re-places what is no       *)
(* longer advertised, until the run is stopped.                            *)
(*                                                                         *)
(* Orchestrator and hosts share nothing but the bus.  Each await on it is  *)
(* a point where the others move; hosts die or are drained.                *)
(***************************************************************************)
EXTENDS Naturals, Sequences

CONSTANTS
    Host,       \* flow-host processes
    Waves,      \* listeners of the run, in the order they are placed
    None,       \* no instance; no advertisement
    MaxQueue,   \* bound: placements in the queue at a time
    MaxFault    \* bound: drains and deaths of hosts, listeners that fail to start,
                \* calls of the bus that fail, rows that lapse under a slow host

ASSUME FleetAssumption ==
    /\ Waves \in Nat \ {0} /\ None \notin 1 .. Waves
    /\ MaxQueue \in Nat /\ MaxFault \in Nat

Inst == 1 .. Waves
Ad == [host : Host, up : BOOLEAN,
       left : BOOLEAN]  \* history: its host could not retract it

VARIABLES
    \* the bus
    queue,      \* flowhost:placements
    ad,         \* the registry: the last advertisement of each instance
    stopped,    \* flownet:{run}:stop
    draining,   \* loadworker:{host}:stop
    \* the hosts
    pc, cur,    \* where the loop of a host is, and the placement it claimed
    hosted,     \* its table of listeners, by instance
    leaked,     \* listeners it runs that its table has lost
    \* the orchestrator
    run,        \* start_network_flow and stop_topology: pc and current wave
    placements, \* _placements
    watched,    \* _watched
    poll,       \* the poller: pc and the placements it has to look at
    replacedAt, \* _replaced_at: never re-placed, less than a cooldown ago, or before
    faults      \* how many of MaxFault happened

busVars  == <<queue, ad, stopped, draining>>
hostVars == <<pc, cur, hosted, leaked>>
orchVars == <<run, placements, watched, poll, replacedAt>>
vars == <<busVars, hostVars, orchVars, faults>>

HostPc == {"top", "registry", "start", "sweep", "beat", "leave", "off"}
RunPc  == {"push", "wait", "serving", "stopping", "forget", "over"}
PollPc == {"off", "sleep", "push"}

TypeOK ==
    /\ queue \in Seq(Inst)
    /\ ad \in [Inst -> Ad \cup {None}]
    /\ stopped \in BOOLEAN /\ draining \subseteq Host
    /\ pc \in [Host -> HostPc] /\ cur \in [Host -> Inst \cup {None}]
    /\ hosted \in [Host -> SUBSET Inst] /\ leaked \in [Host -> SUBSET Inst]
    /\ run \in [pc : RunPc, wave : Inst]
    /\ placements \subseteq Inst /\ watched \in BOOLEAN
    /\ poll \in [pc : PollPc, todo : SUBSET Inst]
    /\ replacedAt \in [Inst -> {"never", "lately", "before"}]
    /\ faults \in 0 .. MaxFault

\* A run starts on the fleet only when a host is there (available).
Init ==
    /\ queue = <<>> /\ ad = [i \in Inst |-> None]
    /\ stopped = FALSE /\ draining = {}
    /\ pc = [h \in Host |-> "top"] /\ cur = [h \in Host |-> None]
    /\ hosted = [h \in Host |-> {}] /\ leaked = [h \in Host |-> {}]
    /\ run = [pc |-> "push", wave |-> 1]
    /\ placements = {} /\ watched = FALSE
    /\ poll = [pc |-> "off", todo |-> {}]
    /\ replacedAt = [i \in Inst |-> "never"]
    /\ faults = 0

Up(i)     == ad[i] # None /\ ad[i].up
Failed(i) == ad[i] # None /\ ~ad[i].up
Live      == {i \in Inst : Up(i)}
Alive(h)  == pc[h] # "off"
Fault     == faults < MaxFault /\ faults' = faults + 1

-----------------------------------------------------------------------------
(* place and stop: the coroutine of the request.                           *)

RunAt(at) == run' = [run EXCEPT !.pc = at]

\* mutation: the placements of a wave replace those of the waves before it
PlaceReplaces ==
    /\ run.pc = "push" /\ Len(queue) < MaxQueue
    /\ placements' = {run.wave}
    /\ queue' = Append(queue, run.wave)
    /\ RunAt("wait")
    /\ UNCHANGED <<ad, stopped, draining, hostVars, watched, poll,
                   replacedAt, faults>>

\* The placement goes into the dict that reconcile may be iterating over: its
\* next step raises, and the poller gives up the rest of the round.
PlacePush ==
    /\ run.pc = "push" /\ Len(queue) < MaxQueue
    /\ placements' = placements \cup {run.wave}
    /\ poll' = IF poll.pc = "push" THEN [pc |-> "sleep", todo |-> {}] ELSE poll
    /\ queue' = Append(queue, run.wave)
    /\ RunAt("wait")
    /\ UNCHANGED <<ad, stopped, draining, hostVars, watched, replacedAt,
                   faults>>

\* One look at the registry: an error of any instance, then the advertisement
\* waited for, then the deadline.
PlaceFails ==
    /\ run.pc = "wait" /\ \E i \in Inst : Failed(i)
    /\ RunAt("stopping")
    /\ UNCHANGED <<busVars, hostVars, placements, watched, poll, replacedAt,
                   faults>>

\* mutation: one wave too many
PlaceSeesOn ==
    /\ run.pc = "wait" /\ Up(run.wave) /\ ~\E i \in Inst : Failed(i)
    /\ watched' = TRUE
    /\ poll' = IF poll.pc = "off" THEN [poll EXCEPT !.pc = "sleep"] ELSE poll
    /\ run' = IF run.wave > Waves THEN [run EXCEPT !.pc = "serving"]
                                  ELSE [pc |-> "push", wave |-> run.wave + 1]
    /\ UNCHANGED <<busVars, hostVars, placements, replacedAt, faults>>

PlaceSees ==
    /\ run.pc = "wait" /\ Up(run.wave) /\ ~\E i \in Inst : Failed(i)
    /\ watched' = TRUE
    /\ poll' = IF poll.pc = "off" THEN [poll EXCEPT !.pc = "sleep"] ELSE poll
    /\ run' = IF run.wave = Waves THEN [run EXCEPT !.pc = "serving"]
                                  ELSE [pc |-> "push", wave |-> run.wave + 1]
    /\ UNCHANGED <<busVars, hostVars, placements, replacedAt, faults>>

PlaceTimesOut ==
    /\ run.pc = "wait" /\ ad[run.wave] = None /\ ~\E i \in Inst : Failed(i)
    /\ RunAt("stopping")
    /\ UNCHANGED <<busVars, hostVars, placements, watched, poll, replacedAt,
                   faults>>

StopTopology ==
    /\ run.pc = "serving"
    /\ RunAt("stopping")
    /\ UNCHANGED <<busVars, hostVars, placements, watched, poll, replacedAt,
                   faults>>

\* stop() awaits the flag before it drops what the orchestrator knows.
StopSignal ==
    /\ run.pc = "stopping"
    /\ stopped' = TRUE
    /\ RunAt("forget")
    /\ UNCHANGED <<queue, ad, draining, hostVars, placements, watched, poll,
                   replacedAt,
                   faults>>

StopForget ==
    /\ run.pc = "forget"
    /\ watched' = FALSE /\ placements' = {}
    /\ replacedAt' = [i \in Inst |-> IF i \in placements THEN "never" ELSE replacedAt[i]]
    /\ RunAt("over")
    /\ UNCHANGED <<busVars, hostVars, poll, faults>>

-----------------------------------------------------------------------------
(* _poll_loop and reconcile: another coroutine of the same process.        *)

PollEnds ==
    /\ poll.pc = "sleep" /\ ~watched
    /\ poll' = [poll EXCEPT !.pc = "off"]
    /\ UNCHANGED <<busVars, hostVars, run, placements, watched, replacedAt,
                   faults>>

\* The placements left to push after this step of reconcile's loop.
Left(is) == poll' = [pc |-> IF is = {} THEN "sleep" ELSE "push", todo |-> is]

\* A round of the poller for a run that is watched: it is neither forgotten nor
\* stopped, and the poller looks for placements that nobody advertises.  (Three
\* reads, of which one only feeds the cache of the registry, are one step: what
\* moves between them can as well move before the first push.)
Reconcile ==
    /\ poll.pc = "sleep" /\ watched
    /\ Left(IF stopped THEN {} ELSE {i \in placements : ad[i] = None /\ replacedAt[i] # "lately"})
    /\ UNCHANGED <<busVars, hostVars, run, placements, watched, replacedAt, faults>>

PollPush ==
    /\ poll.pc = "push" /\ Len(queue) < MaxQueue
    /\ \E i \in poll.todo :
           /\ replacedAt' = [replacedAt EXCEPT ![i] = "lately"]
           /\ queue' = Append(queue, i)
           /\ Left(poll.todo \ {i})
    /\ UNCHANGED <<ad, stopped, draining, hostVars, run, placements, watched,
                   faults>>

CooldownEnds(i) ==
    /\ replacedAt[i] = "lately"
    /\ replacedAt' = [replacedAt EXCEPT ![i] = "before"]
    /\ UNCHANGED <<busVars, hostVars, run, placements, watched, poll, faults>>

-----------------------------------------------------------------------------
(* run_flow_host: the loop of a host.                                      *)

At(h, at) == pc[h] = at
GoTo(h, at) == pc' = [pc EXCEPT ![h] = at]

\* A drained host leaves its loop; another claims what is first in the queue.
Leave(h) ==
    /\ At(h, "top") /\ h \in draining
    /\ GoTo(h, "leave")
    /\ UNCHANGED <<busVars, cur, hosted, leaked, orchVars, faults>>

Done(h) ==
    /\ cur' = [cur EXCEPT ![h] = None]
    /\ GoTo(h, "sweep")

\* mutation: the placement stays in the queue until its listener is up
ClaimPeeks(h) ==
    /\ At(h, "top") /\ h \notin draining /\ queue # <<>>
    /\ \E g \in Host \ {h} : queue' = IF cur[g] = Head(queue) THEN Tail(queue) ELSE queue
    /\ IF stopped THEN Done(h)
       ELSE cur' = [cur EXCEPT ![h] = Head(queue)] /\ GoTo(h, "registry")
    /\ UNCHANGED <<ad, stopped, draining, hosted, leaked, orchVars, faults>>

\* The placement of a run that was stopped is dropped.  (The flag is read after the
\* claim; a stop between the two is as one before the claim.)
Claim(h) ==
    /\ At(h, "top") /\ h \notin draining /\ queue # <<>>
    /\ queue' = Tail(queue)
    /\ IF stopped THEN Done(h)
       ELSE cur' = [cur EXCEPT ![h] = Head(queue)] /\ GoTo(h, "registry")
    /\ UNCHANGED <<ad, stopped, draining, hosted, leaked, orchVars, faults>>

ClaimNothing(h) ==
    /\ At(h, "top") /\ h \notin draining /\ queue = <<>>
    /\ GoTo(h, "sweep")
    /\ UNCHANGED <<busVars, cur, hosted, leaked, orchVars, faults>>

CheckRegistry(h) ==
    /\ At(h, "registry")
    /\ IF Up(cur[h]) THEN Done(h) ELSE GoTo(h, "start") /\ UNCHANGED cur
    /\ UNCHANGED <<busVars, hosted, leaked, orchVars, faults>>

Advertises(h, is) ==
    ad' = [i \in Inst |-> IF i \in is THEN [host |-> h, up |-> TRUE, left |-> FALSE] ELSE ad[i]]

\* The listener is up and goes into the table, over the entry of one that this host
\* still runs: the registry may have lost the row of that.
Hosts(h) ==
    /\ leaked' = [leaked EXCEPT ![h] = @ \cup (hosted[h] \cap {cur[h]})]
    /\ hosted' = [hosted EXCEPT ![h] = @ \cup {cur[h]}]

StartListener(h) ==
    /\ At(h, "start")
    /\ Hosts(h)
    /\ Advertises(h, {cur[h]})
    /\ Done(h)
    /\ UNCHANGED <<queue, stopped, draining, orchVars, faults>>

\* The error of a listener that did not start, or of the advertisement of one that
\* did: it is advertised in its turn, or this call fails as well and ends the loop.
StartFails(h) ==
    /\ At(h, "start") /\ Fault
    /\ Hosts(h) \/ UNCHANGED <<hosted, leaked>>
    /\ \/ /\ ad' = [ad EXCEPT ![cur[h]] = [host |-> h, up |-> FALSE, left |-> FALSE]]
          /\ Done(h)
       \/ /\ cur' = [cur EXCEPT ![h] = None] /\ GoTo(h, "leave")
          /\ UNCHANGED ad
    /\ UNCHANGED <<queue, stopped, draining, orchVars>>

\* mutation: the teardown drops the listener and reports nothing
PopForgets(h) ==
    /\ cur[h] = None
    /\ \E i \in hosted[h] : hosted' = [hosted EXCEPT ![h] = @ \ {i}] /\ cur' = cur
    /\ UNCHANGED <<busVars, pc, leaked, orchVars, faults>>

\* _stop_instance takes one listener out of the table and closes it, ...
PopInstance(h) ==
    /\ cur[h] = None
    /\ \E i \in hosted[h] :
           /\ hosted' = [hosted EXCEPT ![h] = @ \ {i}]
           /\ cur' = [cur EXCEPT ![h] = i]
    /\ UNCHANGED <<busVars, pc, leaked, orchVars, faults>>

\* ... and then retracts the instance, whoever advertised it last.
Retract(h) ==
    /\ pc[h] \in {"sweep", "leave"} /\ cur[h] # None
    /\ ad' = [ad EXCEPT ![cur[h]] = None]
    /\ cur' = [cur EXCEPT ![h] = None]
    /\ UNCHANGED <<queue, stopped, draining, pc, hosted, leaked, orchVars, faults>>

\* A retract that fails is a line in the log: the row stays until it expires.
RetractFails(h) ==
    /\ pc[h] \in {"sweep", "leave"} /\ cur[h] # None /\ Fault
    /\ ad' = [ad EXCEPT ![cur[h]] = IF @ # None /\ @.host = h THEN [@ EXCEPT !.left = TRUE]
                                    ELSE @]
    /\ cur' = [cur EXCEPT ![h] = None]
    /\ UNCHANGED <<queue, stopped, draining, pc, hosted, leaked, orchVars>>

SweepStop(h) == At(h, "sweep") /\ stopped /\ PopInstance(h)
LeaveStop(h) == At(h, "leave") /\ PopInstance(h)

\* mutation: the loop goes on without asking whether the run was stopped
SweptAnyhow(h) == At(h, "sweep") /\ cur[h] = None

\* Nothing is left of a run that was stopped when the loop asked.
Swept(h) == At(h, "sweep") /\ cur[h] = None /\ (stopped => hosted[h] = {})

SweepDone(h) ==
    /\ Swept(h) /\ GoTo(h, "beat")
    /\ UNCHANGED <<busVars, cur, hosted, leaked, orchVars, faults>>

\* The end of the loop: _heartbeat, when HOST_HEARTBEAT_S have passed; the run may
\* have been stopped since the sweep.
Beat(h) ==
    /\ At(h, "beat") /\ Advertises(h, hosted[h])
    /\ GoTo(h, "top")
    /\ UNCHANGED <<queue, stopped, draining, cur, hosted, leaked, orchVars, faults>>

NoBeat(h) ==
    /\ At(h, "beat")
    /\ GoTo(h, "top")
    /\ UNCHANGED <<busVars, cur, hosted, leaked, orchVars, faults>>

\* Any other call of the bus that fails ends the loop: the finally stops what the
\* table has, and a placement that was claimed is lost.
LoopDies(h) ==
    /\ \/ pc[h] \in {"top", "registry", "beat"}
       \/ At(h, "sweep") /\ cur[h] = None
    /\ Fault
    /\ GoTo(h, "leave") /\ cur' = [cur EXCEPT ![h] = None]
    /\ UNCHANGED <<busVars, hosted, leaked, orchVars>>

\* The process exits.
LeaveDone(h) ==
    /\ At(h, "leave") /\ cur[h] = None /\ hosted[h] = {}
    /\ GoTo(h, "off")
    /\ draining' = draining \ {h}
    /\ leaked' = [leaked EXCEPT ![h] = {}]
    /\ UNCHANGED <<queue, ad, stopped, cur, hosted, orchVars, faults>>

HostStep(h) ==
    \/ Leave(h) \/ Claim(h) \/ ClaimNothing(h) \/ CheckRegistry(h)
    \/ StartListener(h) \/ SweepStop(h) \/ SweepDone(h) \/ Beat(h) \/ NoBeat(h)
    \/ LeaveStop(h) \/ LeaveDone(h) \/ Retract(h)

HostFault(h) == StartFails(h) \/ RetractFails(h) \/ LoopDies(h)

-----------------------------------------------------------------------------
(* The world: the operator, deaths, and time.                              *)

Drain(h) ==
    /\ Alive(h) /\ h \notin draining /\ Fault
    /\ draining' = draining \cup {h}
    /\ UNCHANGED <<queue, ad, stopped, hostVars, orchVars>>

\* A host dies with its listeners; a placement it had claimed is lost.
Crash(h) ==
    /\ Alive(h) /\ Fault
    /\ GoTo(h, "off")
    /\ cur' = [cur EXCEPT ![h] = None]
    /\ hosted' = [hosted EXCEPT ![h] = {}] /\ leaked' = [leaked EXCEPT ![h] = {}]
    /\ UNCHANGED <<busVars, orchVars>>

\* INSTANCE_TTL_S after the last refresh the registry drops a row.  Nobody
\* refreshes an error; a living host refreshes what is in its table, ...
Refreshed(i) == \E h \in Host : Alive(h) /\ i \in hosted[h]

Lapsed(i) ==
    /\ ad[i] # None
    /\ ad' = [ad EXCEPT ![i] = None]
    /\ UNCHANGED <<queue, stopped, draining, hostVars, orchVars>>

Expire(i) == Lapsed(i) /\ ~Refreshed(i) /\ UNCHANGED faults

\* ... and one that is slow does so too late.
ExpireEarly(i) == Lapsed(i) /\ Refreshed(i) /\ Fault

-----------------------------------------------------------------------------
Request == PlacePush \/ PlaceFails \/ PlaceSees \/ PlaceTimesOut \/ StopSignal \/ StopForget
Poll == PollEnds \/ Reconcile \/ PollPush

Time == \E i \in Inst : CooldownEnds(i) \/ Expire(i)

Next ==
    \/ Request \/ StopTopology \/ Poll
    \/ \E h \in Host : HostStep(h) \/ HostFault(h) \/ Drain(h) \/ Crash(h)
    \/ Time \/ \E i \in Inst : ExpireEarly(i)

Spec == Init /\ [][Next]_vars

\* Coroutines and loops run on, a heartbeat falls due again and again, and
\* cooldowns and advertisements run out.  Nobody has to stop, drain or die.
Fairness ==
    /\ WF_vars(Request) /\ WF_vars(Poll)
    /\ \A h \in Host : WF_vars(HostStep(h)) /\ SF_vars(Beat(h))
    /\ WF_vars(Time)

FairSpec == Spec /\ Fairness

-----------------------------------------------------------------------------
(* Properties.                                                             *)

\* Health and discovery go by the registry: an instance it shows as up on a
\* host that lives is in that host's table, or is being closed by that host - or
\* is a row that this host tried to retract, and could not (_stop_instance goes
\* on without it; the row lapses).
Serves(h, i) == i \in hosted[h] \/ (pc[h] \in {"sweep", "leave"} /\ cur[h] = i)
AdIsHonest ==
    \A i \in Inst : Up(i) /\ Alive(ad[i].host) /\ ~ad[i].left => Serves(ad[i].host, i)

\* A listener the poller never re-placed runs once at most, whichever hosts
\* compete for its placement, are drained, slow or die.  One that was re-placed
\* may run twice: two hosts can pass the check before either advertises, and the
\* host that runs it can claim it while its row has lapsed.
ServedOnce ==
    \A i \in Inst : run.pc # "over" /\ replacedAt[i] = "never" =>
        /\ \A g, h \in Host : i \in hosted[g] /\ i \in hosted[h] => g = h
        /\ \A h \in Host : i \notin leaked[h]

\* A stop, of the operator or of a placement that failed or timed out, reaches
\* every host, also the one that is just starting a listener of the run: in the
\* end, and for good, nothing is in a table and nothing advertised.  What a host
\* leaked is in no table, and no stop reaches it: it ends with its process.
NetworkStops == <>[](stopped => Live = {} /\ \A h \in Host : hosted[h] = {})

\* While the run is served, whatever dies with a host comes up on another: again
\* and again every listener is in the table of one, or the run is served no more.
Recovers ==
    []<>(run.pc = "serving" => \A i \in Inst : \E h \in Host : i \in hosted[h])
=============================================================================
