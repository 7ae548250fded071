-------------------------- MODULE FlowFleetProofs --------------------------
(***************************************************************************)
(* The types of FlowFleet, and that the registry tells the truth about     *)
(* hosts that live, for any number of hosts, waves and faults.  AdIsHonest *)
(* is inductive once the placement a host works on is known to be one of   *)
(* the run's.                                                              *)
(***************************************************************************)
EXTENDS FlowFleet, TLAPS

\* Between claim and sweep a host has a placement in its hands.
CurIsPlaced == \A h \in Host : pc[h] \in {"registry", "start"} => cur[h] \in Inst

IInv == TypeOK /\ CurIsPlaced /\ AdIsHonest

LEMMA InitEstablishes ==
  ASSUME Init
  PROVE  IInv
<1>1. run \in [pc : RunPc, wave : Inst]
  BY FleetAssumption DEF Init, Inst, RunPc
<1>2. queue \in Seq(Inst) /\ faults \in 0 .. MaxFault
  BY FleetAssumption DEF Init
<1>3. TypeOK
  BY <1>1, <1>2 DEF Init, TypeOK, HostPc, PollPc
<1>4. CurIsPlaced /\ AdIsHonest
  BY DEF Init, CurIsPlaced, AdIsHonest, Up
<1> QED BY <1>3, <1>4 DEF IInv

LEMMA NoneIsNoInst == None \notin Inst
  BY FleetAssumption DEF Inst

-----------------------------------------------------------------------------
(* What leaves the hosts and the registry alone keeps the invariant, as    *)
(* soon as it keeps the types.                                             *)

LEMMA RestKeeps ==
  ASSUME IInv, TypeOK', UNCHANGED <<ad, hostVars>>
  PROVE  IInv'
  BY DEF IInv, CurIsPlaced, AdIsHonest, Serves, Up, Alive, hostVars

LEMMA RequestTypes ==
  ASSUME TypeOK, Request
  PROVE  TypeOK' /\ UNCHANGED <<ad, hostVars>>
<1>1. CASE PlacePush
  <2>1. queue' \in Seq(Inst)
    BY <1>1 DEF PlacePush, TypeOK
  <2>2. run' \in [pc : RunPc, wave : Inst]
    BY <1>1 DEF PlacePush, RunAt, TypeOK, RunPc
  <2>3. poll' \in [pc : PollPc, todo : SUBSET Inst] /\ placements' \subseteq Inst
    BY <1>1 DEF PlacePush, TypeOK, PollPc
  <2> QED BY <1>1, <2>1, <2>2, <2>3 DEF PlacePush, TypeOK, hostVars
<1>2. CASE PlaceFails \/ PlaceTimesOut
  BY <1>2 DEF PlaceFails, PlaceTimesOut, RunAt, TypeOK, RunPc, busVars, hostVars
<1>3. CASE PlaceSees
  <2>1. run' \in [pc : RunPc, wave : Inst]
    <3>1. CASE run.wave = Waves
      BY <1>3, <3>1 DEF PlaceSees, TypeOK, RunPc
    <3>2. CASE run.wave # Waves
      <4>1. run.wave + 1 \in Inst
        BY <3>2, FleetAssumption DEF TypeOK, Inst
      <4> QED BY <1>3, <3>2, <4>1 DEF PlaceSees, RunPc
    <3> QED BY <3>1, <3>2
  <2>2. poll' \in [pc : PollPc, todo : SUBSET Inst]
    BY <1>3 DEF PlaceSees, TypeOK, PollPc
  <2> QED BY <1>3, <2>1, <2>2 DEF PlaceSees, TypeOK, busVars, hostVars
<1>4. CASE StopSignal
  BY <1>4 DEF StopSignal, RunAt, TypeOK, RunPc, hostVars
<1>5. CASE StopForget
  BY <1>5 DEF StopForget, RunAt, TypeOK, RunPc, busVars, hostVars
<1> QED BY <1>1, <1>2, <1>3, <1>4, <1>5 DEF Request

LEMMA PollTypes ==
  ASSUME TypeOK, Poll
  PROVE  TypeOK' /\ UNCHANGED <<ad, hostVars>>
<1>1. CASE PollEnds
  BY <1>1 DEF PollEnds, TypeOK, PollPc, busVars, hostVars
<1>2. CASE Reconcile
  <2>1. PICK is \in SUBSET Inst : Left(is)
    BY <1>2 DEF Reconcile, TypeOK
  <2>2. poll' \in [pc : PollPc, todo : SUBSET Inst]
    BY <2>1 DEF Left, PollPc
  <2> QED BY <1>2, <2>2 DEF Reconcile, TypeOK, busVars, hostVars
<1>3. CASE PollPush
  <2>1. PICK i \in poll.todo :
          /\ replacedAt' = [replacedAt EXCEPT ![i] = "lately"]
          /\ queue' = Append(queue, i) /\ Left(poll.todo \ {i})
    BY <1>3 DEF PollPush
  <2>2. i \in Inst
    BY <2>1 DEF TypeOK
  <2>3. queue' \in Seq(Inst) /\ replacedAt' \in [Inst -> {"never", "lately", "before"}]
    BY <2>1, <2>2 DEF TypeOK
  <2>4. poll' \in [pc : PollPc, todo : SUBSET Inst]
    BY <2>1 DEF Left, PollPc, TypeOK
  <2> QED BY <1>3, <2>3, <2>4 DEF PollPush, TypeOK, hostVars
<1> QED BY <1>1, <1>2, <1>3 DEF Poll

LEMMA StopTopologyTypes ==
  ASSUME TypeOK, StopTopology
  PROVE  TypeOK' /\ UNCHANGED <<ad, hostVars>>
  BY DEF StopTopology, RunAt, TypeOK, RunPc, busVars, hostVars

LEMMA CooldownTypes ==
  ASSUME TypeOK, NEW i \in Inst, CooldownEnds(i)
  PROVE  TypeOK' /\ UNCHANGED <<ad, hostVars>>
  BY DEF CooldownEnds, TypeOK, busVars, hostVars

LEMMA DrainTypes ==
  ASSUME TypeOK, NEW h \in Host, Drain(h)
  PROVE  TypeOK' /\ UNCHANGED <<ad, hostVars>>
  BY FleetAssumption DEF Drain, Fault, TypeOK, hostVars, orchVars

-----------------------------------------------------------------------------
(* The steps of a host.                                                    *)

HostMoves(h) == HostStep(h) \/ HostFault(h) \/ Crash(h)

LEMMA HostTypes ==
  ASSUME IInv, NEW h \in Host, HostMoves(h)
  PROVE  TypeOK'
<1> USE DEF IInv, TypeOK, HostPc, At, GoTo
<1>1. CASE Leave(h) \/ ClaimNothing(h)
  BY <1>1 DEF Leave, ClaimNothing, busVars, orchVars
<1>2. CASE Claim(h)
  <2>1. Head(queue) \in Inst /\ queue' \in Seq(Inst)
    BY <1>2 DEF Claim
  <2> QED BY <1>2, <2>1 DEF Claim, Done, orchVars
<1>3. CASE SweepDone(h)
  BY <1>3 DEF SweepDone, busVars, orchVars
<1>4. CASE CheckRegistry(h)
  BY <1>4 DEF CheckRegistry, Done, busVars, orchVars
<1>5. CASE StartListener(h)
  <2>1. cur[h] \in Inst
    BY <1>5 DEF StartListener, CurIsPlaced
  <2>2. hosted' \in [Host -> SUBSET Inst] /\ leaked' \in [Host -> SUBSET Inst]
    BY <1>5, <2>1 DEF StartListener, Hosts
  <2>3. ad' \in [Inst -> Ad \cup {None}]
    BY <1>5 DEF StartListener, Advertises, Ad
  <2> QED BY <1>5, <2>2, <2>3 DEF StartListener, Done, orchVars
<1>6. CASE StartFails(h)
  <2>1. cur[h] \in Inst
    BY <1>6 DEF StartFails, CurIsPlaced
  <2>2. ad' \in [Inst -> Ad \cup {None}]
    <3>1. [host |-> h, up |-> FALSE, left |-> FALSE] \in Ad
      BY DEF Ad
    <3> QED BY <1>6, <2>1, <3>1 DEF StartFails
  <2>3. faults' \in 0 .. MaxFault
    BY <1>6, FleetAssumption DEF StartFails, Fault
  <2>4. hosted' \in [Host -> SUBSET Inst] /\ leaked' \in [Host -> SUBSET Inst]
    BY <1>6, <2>1 DEF StartFails, Hosts
  <2>5. cur' \in [Host -> Inst \cup {None}] /\ pc' \in [Host -> HostPc]
    BY <1>6 DEF StartFails, Done
  <2> QED BY <1>6, <2>2, <2>3, <2>4, <2>5 DEF StartFails, orchVars
<1>7. CASE SweepStop(h) \/ LeaveStop(h)
  <2>1. PopInstance(h)
    BY <1>7 DEF SweepStop, LeaveStop
  <2>2. PICK i \in hosted[h] : /\ hosted' = [hosted EXCEPT ![h] = @ \ {i}]
                               /\ cur' = [cur EXCEPT ![h] = i]
    BY <2>1 DEF PopInstance
  <2>3. i \in Inst
    BY <2>2
  <2>4. hosted' \in [Host -> SUBSET Inst] /\ cur' \in [Host -> Inst \cup {None}]
    BY <2>2, <2>3
  <2> QED BY <2>1, <2>4 DEF PopInstance, busVars, orchVars
<1>8. CASE Retract(h)
  BY <1>8 DEF Retract, orchVars
<1>9. CASE Beat(h)
  <2>1. ad' \in [Inst -> Ad \cup {None}]
    BY <1>9 DEF Beat, Advertises, Ad
  <2> QED BY <1>9, <2>1 DEF Beat, orchVars
<1>10. CASE NoBeat(h)
  BY <1>10 DEF NoBeat, busVars, orchVars
<1>11. CASE LeaveDone(h)
  BY <1>11 DEF LeaveDone, orchVars
<1>12. CASE Crash(h) \/ LoopDies(h)
  <2>1. faults' \in 0 .. MaxFault
    BY <1>12, FleetAssumption DEF Crash, LoopDies, Fault
  <2> QED BY <1>12, <2>1 DEF Crash, LoopDies, busVars, orchVars
<1>13. CASE RetractFails(h)
  <2>1. faults' \in 0 .. MaxFault
    BY <1>13, FleetAssumption DEF RetractFails, Fault
  <2>2. ASSUME NEW i \in Inst, ad[i] # None
        PROVE  [ad[i] EXCEPT !.left = TRUE] \in Ad
    <3>1. ad[i] \in Ad
      BY <2>2
    <3> QED BY <3>1 DEF Ad
  <2>3. cur[h] \in Inst
    BY <1>13 DEF RetractFails
  <2>4. ad' \in [Inst -> Ad \cup {None}]
    BY <1>13, <2>2, <2>3 DEF RetractFails
  <2> QED BY <1>13, <2>1, <2>4 DEF RetractFails, orchVars
<1> QED BY <1>1, <1>2, <1>3, <1>4, <1>5, <1>6, <1>7, <1>8, <1>9, <1>10, <1>11, <1>12,
           <1>13 DEF HostMoves, HostStep, HostFault

LEMMA HostPlaced ==
  ASSUME IInv, NEW h \in Host, HostMoves(h)
  PROVE  CurIsPlaced'
<1> SUFFICES ASSUME NEW k \in Host, pc'[k] \in {"registry", "start"}
             PROVE  cur'[k] \in Inst
  BY DEF CurIsPlaced
<1> USE DEF IInv, TypeOK, At, GoTo, CurIsPlaced
<1>1. CASE Claim(h)
  <2>1. Head(queue) \in Inst
    BY <1>1 DEF Claim
  <2> QED BY <1>1, <2>1 DEF Claim, Done
<1>2. CASE CheckRegistry(h)
  BY <1>2 DEF CheckRegistry, Done
<1>3. CASE StartListener(h) \/ StartFails(h)
  BY <1>3 DEF StartListener, StartFails, Done
<1>4. CASE SweepStop(h) \/ LeaveStop(h)
  BY <1>4 DEF SweepStop, LeaveStop, PopInstance
<1>5. CASE Retract(h) \/ RetractFails(h)
  BY <1>5 DEF Retract, RetractFails
<1>6. CASE Leave(h) \/ ClaimNothing(h) \/ SweepDone(h) \/ Beat(h) \/ NoBeat(h)
  BY <1>6 DEF Leave, ClaimNothing, SweepDone, Beat, NoBeat
<1>7. CASE LeaveDone(h) \/ LoopDies(h) \/ Crash(h)
  BY <1>7 DEF LeaveDone, LoopDies, Crash
<1> QED BY <1>1, <1>2, <1>3, <1>4, <1>5, <1>6, <1>7 DEF HostMoves, HostStep, HostFault

\* An instance shown as up on a living host after the step was so before, or is
\* advertised by this step.
LEMMA HostHonest ==
  ASSUME IInv, NEW h \in Host, HostMoves(h)
  PROVE  AdIsHonest'
<1> SUFFICES ASSUME NEW i \in Inst, ad'[i] # None, ad'[i].up, pc'[ad'[i].host] # "off",
                    ~ad'[i].left
             PROVE  \/ i \in hosted'[ad'[i].host]
                    \/ /\ pc'[ad'[i].host] \in {"sweep", "leave"}
                       /\ cur'[ad'[i].host] = i
  BY DEF AdIsHonest, Serves, Up, Alive
<1>a. /\ ad \in [Inst -> Ad \cup {None}] /\ cur \in [Host -> Inst \cup {None}]
      /\ pc \in [Host -> HostPc] /\ hosted \in [Host -> SUBSET Inst]
  BY DEF IInv, TypeOK
<1>b. ASSUME ad[i] # None, ad[i].up, pc[ad[i].host] # "off", ~ad[i].left
      PROVE  \/ i \in hosted[ad[i].host]
             \/ pc[ad[i].host] \in {"sweep", "leave"} /\ cur[ad[i].host] = i
  BY <1>b DEF IInv, AdIsHonest, Serves, Up, Alive
<1>c. ad[i] # None => ad[i].host \in Host
  BY <1>a DEF Ad
<1>d. None # i
  BY NoneIsNoInst
<1> USE DEF At, GoTo
<1>1. CASE Leave(h) \/ ClaimNothing(h)
  BY <1>1, <1>a, <1>b, <1>c DEF Leave, ClaimNothing, busVars
<1>2. CASE Claim(h)
  BY <1>2, <1>a, <1>b, <1>c DEF Claim, Done
<1>3. CASE SweepDone(h)
  BY <1>3, <1>a, <1>b, <1>c, <1>d DEF SweepDone, Swept, busVars
<1>4. CASE CheckRegistry(h)
  BY <1>4, <1>a, <1>b, <1>c DEF CheckRegistry, Done, busVars
<1>5. CASE StartListener(h)
  <2>1. cur[h] \in Inst
    BY <1>5 DEF StartListener, CurIsPlaced, IInv
  <2>2. CASE i = cur[h]
    BY <1>5, <2>1, <2>2, <1>a DEF StartListener, Hosts, Advertises
  <2>3. CASE i # cur[h]
    <3>1. ad'[i] = ad[i]
      BY <1>5, <2>3 DEF StartListener, Advertises
    <3> QED BY <1>5, <2>3, <3>1, <1>a, <1>b, <1>c DEF StartListener, Hosts, Done
  <2> QED BY <2>2, <2>3
<1>6. CASE StartFails(h)
  <2>1. ad'[i] = ad[i]
    BY <1>6, <1>a DEF StartFails
  <2>2. \A k \in Host : hosted[k] \subseteq hosted'[k]
    BY <1>6, <1>a DEF StartFails, Hosts
  <2> QED BY <1>6, <2>1, <2>2, <1>a, <1>b, <1>c DEF StartFails, Done
<1>7. CASE SweepStop(h) \/ LeaveStop(h)
  <2>1. PopInstance(h) /\ pc[h] \in {"sweep", "leave"}
    BY <1>7 DEF SweepStop, LeaveStop
  <2>2. PICK j \in hosted[h] : /\ hosted' = [hosted EXCEPT ![h] = @ \ {j}]
                               /\ cur' = [cur EXCEPT ![h] = j]
    BY <2>1 DEF PopInstance
  <2>3. ad' = ad /\ pc' = pc /\ cur[h] = None
    BY <2>1 DEF PopInstance, busVars
  <2> QED BY <2>1, <2>2, <2>3, <1>a, <1>b, <1>c, <1>d
<1>8. CASE Retract(h)
  <2>1. i # cur[h] /\ ad'[i] = ad[i]
    BY <1>8, <1>a DEF Retract
  <2> QED BY <1>8, <2>1, <1>a, <1>b, <1>c DEF Retract
<1>9. CASE Beat(h)
  <2>1. CASE i \in hosted[h]
    BY <1>9, <2>1 DEF Beat, Advertises
  <2>2. CASE i \notin hosted[h]
    <3>1. ad'[i] = ad[i]
      BY <1>9, <2>2 DEF Beat, Advertises
    <3> QED BY <1>9, <3>1, <1>a, <1>b, <1>c, <1>d DEF Beat
  <2> QED BY <2>1, <2>2
<1>10. CASE NoBeat(h)
  BY <1>10, <1>a, <1>b, <1>c, <1>d DEF NoBeat, busVars
<1>11. CASE LeaveDone(h)
  BY <1>11, <1>a, <1>b, <1>c DEF LeaveDone
<1>12. CASE Crash(h)
  BY <1>12, <1>a, <1>b, <1>c DEF Crash, busVars
<1>13. CASE LoopDies(h)
  BY <1>13, <1>a, <1>b, <1>c, <1>d DEF LoopDies, busVars
<1>14. CASE RetractFails(h)
  <2>1. i = cur[h] => ad[i].host # h
    BY <1>14, <1>a DEF RetractFails, Ad
  <2>2. ad'[i] = ad[i]
    BY <1>14, <2>1, <1>a DEF RetractFails
  <2> QED BY <1>14, <2>1, <2>2, <1>a, <1>b, <1>c DEF RetractFails
<1> QED BY <1>1, <1>2, <1>3, <1>4, <1>5, <1>6, <1>7, <1>8, <1>9, <1>10, <1>11, <1>12,
           <1>13, <1>14 DEF HostMoves, HostStep, HostFault

LEMMA ExpireKeeps ==
  ASSUME IInv, NEW i \in Inst, Expire(i) \/ ExpireEarly(i)
  PROVE  IInv'
<1> USE DEF Expire, ExpireEarly, Lapsed
<1>1. TypeOK' /\ CurIsPlaced'
  BY FleetAssumption DEF Fault, IInv, TypeOK, CurIsPlaced, hostVars, orchVars
<1>2. AdIsHonest'
  BY DEF IInv, TypeOK, AdIsHonest, Serves, Up, Alive, hostVars
<1> QED BY <1>1, <1>2 DEF IInv

-----------------------------------------------------------------------------
LEMMA NextKeeps ==
  ASSUME IInv, [Next]_vars
  PROVE  IInv'
<1>1. CASE Request
  BY <1>1, RequestTypes, RestKeeps DEF IInv
<1>2. CASE StopTopology
  BY <1>2, StopTopologyTypes, RestKeeps DEF IInv
<1>3. CASE Poll
  BY <1>3, PollTypes, RestKeeps DEF IInv
<1>4. ASSUME NEW h \in Host, HostMoves(h) PROVE IInv'
  BY <1>4, HostTypes, HostPlaced, HostHonest DEF IInv
<1>5. ASSUME NEW h \in Host, Drain(h) PROVE IInv'
  BY <1>5, DrainTypes, RestKeeps DEF IInv
<1>6. ASSUME NEW i \in Inst, CooldownEnds(i) PROVE IInv'
  BY <1>6, CooldownTypes, RestKeeps DEF IInv
<1>7. ASSUME NEW i \in Inst, Expire(i) \/ ExpireEarly(i) PROVE IInv'
  BY <1>7, ExpireKeeps
<1>8. CASE UNCHANGED vars
  <2>1. TypeOK' /\ UNCHANGED <<ad, hostVars>>
    BY <1>8 DEF vars, busVars, hostVars, orchVars, IInv, TypeOK
  <2> QED BY <2>1, RestKeeps
<1> QED BY <1>1, <1>2, <1>3, <1>4, <1>5, <1>6, <1>7, <1>8 DEF Next, Time, HostMoves

\* The invariant of the run that the two theorems below take apart.
LEMMA Invariance == Spec => []IInv
  BY InitEstablishes, NextKeeps, PTL DEF Spec

\* The bus, the tables of the hosts and the pcs of the coroutines keep their
\* shapes, whatever dies, fails to start or is drained.
THEOREM FleetTypes == Spec => []TypeOK
<1>1. IInv => TypeOK
  BY DEF IInv
<1> QED BY <1>1, Invariance, PTL

\* For any number of hosts and waves, the registry never shows an instance as
\* up on a living host that does not serve it: an endpoint that health reports
\* and discovery hands out has a listener behind it, or a dead host, or a row that
\* its host failed to retract.
THEOREM RegistryIsHonest == Spec => []AdIsHonest
<1>1. IInv => AdIsHonest
  BY DEF IInv
<1> QED BY <1>1, Invariance, PTL

-----------------------------------------------------------------------------
(* One listener, one host.  A placement is a token: the request makes one  *)
(* for each wave it has begun, a claim takes it off the queue, a start     *)
(* turns it into a listener.  Only the poller makes another, and then the  *)
(* instance is no longer one that was never re-placed.                     *)

Begun == {i \in Inst : i < run.wave \/ (i = run.wave /\ run.pc # "push")}
Starting(h) == pc[h] \in {"registry", "start"}
Holds(h, i) == i \in hosted[h] \cup leaked[h] \/ (Starting(h) /\ cur[h] = i)
Doubles(h, i) == i \in leaked[h] \/ (i \in hosted[h] /\ Starting(h) /\ cur[h] = i)
Fresh == {i \in Inst : run.pc # "over" /\ replacedAt[i] = "never"}

\* What is queued, placed, missing or held belongs to a wave that has begun.
OnlyBegun ==
  /\ \A k \in 1 .. Len(queue) : queue[k] \in Begun
  /\ placements \subseteq Begun /\ poll.todo \subseteq Begun
  /\ \A h \in Host, i \in Inst : Holds(h, i) => i \in Begun

\* An instance that was never re-placed is in the queue once, or once on one host.
Single ==
  \A i \in Fresh :
    /\ \A j, k \in 1 .. Len(queue) : queue[j] = i /\ queue[k] = i => j = k
    /\ \A k \in 1 .. Len(queue), h \in Host : queue[k] = i => ~Holds(h, i)
    /\ \A g, h \in Host : Holds(g, i) /\ Holds(h, i) => g = h
    /\ \A h \in Host : ~Doubles(h, i)

OnceInv == OnlyBegun /\ Single

LEMMA InitOnce ==
  ASSUME Init
  PROVE  OnceInv
<1>1. Len(queue) = 0 /\ \A h \in Host, i \in Inst : ~Holds(h, i)
  BY NoneIsNoInst DEF Init, Holds, Starting
<1>2. OnlyBegun
  BY <1>1 DEF Init, OnlyBegun
<1>3. Single
  BY <1>1 DEF Single, Fresh, Holds, Doubles
<1> QED BY <1>2, <1>3 DEF OnceInv

\* A step that makes no token, begins no fewer waves and makes nothing fresh.
LEMMA FewerTokens ==
  ASSUME OnceInv, Begun \subseteq Begun', Fresh' \subseteq Fresh,
         placements' \subseteq placements, poll'.todo \subseteq placements \cup poll.todo,
         queue' = queue,
         \A h \in Host, i \in Inst : Holds(h, i)' => Holds(h, i),
         \A h \in Host, i \in Inst : Doubles(h, i)' => Doubles(h, i)
  PROVE  OnceInv'
<1>1. OnlyBegun'
  <2>1. placements' \subseteq Begun' /\ poll'.todo \subseteq Begun'
    BY DEF OnceInv, OnlyBegun
  <2>2. \A h \in Host, i \in Inst : Holds(h, i)' => i \in Begun'
    BY DEF OnceInv, OnlyBegun
  <2>3. \A k \in 1 .. Len(queue') : queue'[k] \in Begun'
    BY DEF OnceInv, OnlyBegun
  <2> QED BY <2>1, <2>2, <2>3 DEF OnlyBegun
<1>2. Fresh \subseteq Inst
  BY DEF Fresh
<1>3. Single'
  <2> SUFFICES ASSUME NEW i \in Fresh'
               PROVE  /\ \A j, k \in 1 .. Len(queue') :
                             queue'[j] = i /\ queue'[k] = i => j = k
                      /\ \A k \in 1 .. Len(queue'), h \in Host : queue'[k] = i => ~Holds(h, i)'
                      /\ \A g, h \in Host : Holds(g, i)' /\ Holds(h, i)' => g = h
                      /\ \A h \in Host : ~Doubles(h, i)'
    BY DEF Single
  <2>1. i \in Fresh /\ i \in Inst
    BY <1>2
  <2>2. /\ \A j, k \in 1 .. Len(queue') : queue'[j] = i /\ queue'[k] = i => j = k
        /\ \A k \in 1 .. Len(queue'), h \in Host : queue'[k] = i => ~Holds(h, i)'
    BY <2>1 DEF OnceInv, Single
  <2>3. /\ \A g, h \in Host : Holds(g, i)' /\ Holds(h, i)' => g = h
        /\ \A h \in Host : ~Doubles(h, i)'
    BY <2>1 DEF OnceInv, Single
  <2> QED BY <2>2, <2>3
<1> QED BY <1>1, <1>3 DEF OnceInv

\* A token at the end of the queue, for an instance nobody has or that the
\* poller marks as re-placed.
LEMMA OneMoreToken ==
  ASSUME TypeOK, OnceInv, NEW i \in Inst, queue' = Append(queue, i),
         i \in Begun', Begun \subseteq Begun',
         Fresh' \subseteq Fresh, i \in Begun => i \notin Fresh',
         placements' \subseteq placements \cup {i}, poll'.todo \subseteq poll.todo,
         UNCHANGED hostVars
  PROVE  OnceInv'
<1>1. queue \in Seq(Inst) /\ Len(queue) \in Nat /\ Len(queue') = Len(queue) + 1
  BY DEF TypeOK
<1>2. \A k \in 1 .. Len(queue') :
        \/ k \in 1 .. Len(queue) /\ queue'[k] = queue[k]
        \/ k = Len(queue) + 1 /\ queue'[k] = i
  BY <1>1
<1>3. \A h \in Host, j \in Inst : /\ Holds(h, j)' <=> Holds(h, j)
                                  /\ Doubles(h, j)' <=> Doubles(h, j)
                                  /\ Doubles(h, j) => Holds(h, j)
  BY DEF Holds, Doubles, Starting, hostVars
<1>4. OnlyBegun'
  <2>1. \A k \in 1 .. Len(queue') : queue'[k] \in Begun'
    BY <1>2 DEF OnceInv, OnlyBegun
  <2>2. placements' \subseteq Begun' /\ poll'.todo \subseteq Begun'
    BY DEF OnceInv, OnlyBegun
  <2> QED BY <2>1, <2>2, <1>3 DEF OnceInv, OnlyBegun
<1>5. ASSUME i \in Fresh'
      PROVE  /\ \A k \in 1 .. Len(queue) : queue[k] # i
             /\ \A h \in Host : ~Holds(h, i)
  BY <1>5 DEF OnceInv, OnlyBegun
<1>6. Single'
  <2> SUFFICES ASSUME NEW n \in Fresh'
               PROVE  /\ \A j, k \in 1 .. Len(queue') : queue'[j] = n /\ queue'[k] = n => j = k
                      /\ \A k \in 1 .. Len(queue'), h \in Host : queue'[k] = n => ~Holds(h, n)'
                      /\ \A g, h \in Host : Holds(g, n)' /\ Holds(h, n)' => g = h
                      /\ \A h \in Host : ~Doubles(h, n)'
    BY DEF Single
  <2>1. n \in Inst /\ n \in Fresh
    BY DEF Fresh
  <2>2. CASE n = i
    BY <2>1, <2>2, <1>2, <1>3, <1>5 DEF OnceInv, Single
  <2>3. CASE n # i
    BY <2>1, <2>3, <1>2, <1>3 DEF OnceInv, Single
  <2> QED BY <2>2, <2>3
<1> QED BY <1>4, <1>6 DEF OnceInv

LEMMA RequestOnce ==
  ASSUME TypeOK, OnceInv, Request \/ StopTopology
  PROVE  OnceInv'
<1>0. run \in [pc : RunPc, wave : Inst] /\ Waves \in Nat /\ Inst = 1 .. Waves
  BY FleetAssumption DEF TypeOK, Inst
<1>1. CASE PlacePush
  <2>1. /\ run.pc = "push" /\ run'.pc = "wait" /\ run'.wave = run.wave
        /\ queue' = Append(queue, run.wave) /\ placements' = placements \cup {run.wave}
        /\ poll'.todo \subseteq poll.todo /\ replacedAt' = replacedAt
        /\ UNCHANGED hostVars
    BY <1>1, <1>0 DEF PlacePush, RunAt
  <2>2. run.wave \in Inst /\ run.wave \notin Begun /\ run.wave \in Begun'
        /\ Begun \subseteq Begun' /\ Fresh' \subseteq Fresh
    BY <2>1, <1>0 DEF Begun, Fresh
  <2> QED BY <2>1, <2>2, OneMoreToken
<1>2. CASE ~PlacePush
  <2>1. /\ queue' = queue /\ UNCHANGED hostVars
        /\ placements' \subseteq placements /\ poll'.todo = poll.todo
    BY <1>2, <1>0 DEF Request, PlaceFails, PlaceSees, PlaceTimesOut, StopSignal, StopForget,
                 StopTopology, busVars, TypeOK
  <2>2. Begun \subseteq Begun'
    BY <1>2, <1>0 DEF Request, PlaceFails, PlaceSees, PlaceTimesOut, StopSignal, StopForget,
                 StopTopology, RunAt, Begun
  <2>3. Fresh' \subseteq Fresh
    BY <1>2, <1>0 DEF Request, PlaceFails, PlaceSees, PlaceTimesOut, StopSignal, StopForget,
                 StopTopology, RunAt, Fresh
  <2>4. \A h \in Host, i \in Inst : /\ Holds(h, i)' => Holds(h, i)
                                    /\ Doubles(h, i)' => Doubles(h, i)
    BY <2>1 DEF Holds, Doubles, Starting, hostVars
  <2> QED BY <2>1, <2>2, <2>3, <2>4, FewerTokens
<1> QED BY <1>1, <1>2

LEMMA PollOnce ==
  ASSUME TypeOK, OnceInv, Poll
  PROVE  OnceInv'
<1>1. UNCHANGED <<hostVars, run, placements>>
  BY DEF Poll, PollEnds, Reconcile, PollPush
<1>2. Begun' = Begun
  BY <1>1 DEF Begun
<1>3. CASE PollPush
  <2>1. PICK i \in poll.todo :
          /\ replacedAt' = [replacedAt EXCEPT ![i] = "lately"]
          /\ queue' = Append(queue, i) /\ Left(poll.todo \ {i})
    BY <1>3 DEF PollPush
  <2>2. i \in Inst /\ i \in Begun
    BY <2>1 DEF TypeOK, OnceInv, OnlyBegun
  <2>3. Fresh' \subseteq Fresh /\ i \notin Fresh'
    BY <2>1, <2>2, <1>1 DEF Fresh, TypeOK
  <2>4. poll'.todo \subseteq poll.todo
    BY <2>1 DEF Left
  <2> QED BY <1>1, <1>2, <2>1, <2>2, <2>3, <2>4, OneMoreToken
<1>4. CASE ~PollPush
  <2>1. queue' = queue /\ replacedAt' = replacedAt /\ poll'.todo \subseteq placements \cup poll.todo
    BY <1>4 DEF Poll, PollEnds, Reconcile, Left, busVars, TypeOK
  <2>2. \A h \in Host, i \in Inst : /\ Holds(h, i)' => Holds(h, i)
                                    /\ Doubles(h, i)' => Doubles(h, i)
    BY <1>1 DEF Holds, Doubles, Starting, hostVars
  <2>3. Fresh' \subseteq Fresh
    BY <1>1, <2>1 DEF Fresh
  <2> QED BY <1>1, <1>2, <2>1, <2>2, <2>3, FewerTokens
<1> QED BY <1>3, <1>4

\* The claim moves the token from the queue to the host.
LEMMA ClaimOnce ==
  ASSUME TypeOK, OnceInv, NEW h \in Host, Claim(h)
  PROVE  OnceInv'
<1>1. /\ queue \in Seq(Inst) /\ queue # <<>> /\ queue' = Tail(queue)
      /\ cur \in [Host -> Inst \cup {None}] /\ pc \in [Host -> HostPc]
  BY DEF TypeOK, Claim
<1>2. PICK n \in Inst : n = queue[1]
  BY <1>1
<1>3. /\ Len(queue) \in Nat /\ 1 \in 1 .. Len(queue) /\ Len(queue') = Len(queue) - 1
      /\ \A k \in 1 .. Len(queue') : k + 1 \in 1 .. Len(queue) /\ queue'[k] = queue[k + 1]
  BY <1>1
<1>4. \A g \in Host, i \in Inst :
        /\ Holds(g, i)' => Holds(g, i) \/ (g = h /\ i = n)
        /\ Doubles(g, i)' => Doubles(g, i) \/ (i = n /\ Holds(g, i))
  BY <1>1, <1>2 DEF Claim, Done, Holds, Doubles, Starting, At, GoTo
<1>5. /\ Begun' = Begun /\ Fresh' = Fresh /\ placements' = placements
      /\ poll'.todo = poll.todo /\ Fresh \subseteq Inst
  BY DEF Claim, Begun, Fresh, orchVars
<1>6. OnlyBegun'
  BY <1>2, <1>3, <1>4, <1>5 DEF OnceInv, OnlyBegun
<1>7. Single'
  <2> SUFFICES ASSUME NEW i \in Fresh
               PROVE  /\ \A j, k \in 1 .. Len(queue') : queue'[j] = i /\ queue'[k] = i => j = k
                      /\ \A k \in 1 .. Len(queue'), g \in Host : queue'[k] = i => ~Holds(g, i)'
                      /\ \A f, g \in Host : Holds(f, i)' /\ Holds(g, i)' => f = g
                      /\ \A g \in Host : ~Doubles(g, i)'
    BY <1>5 DEF Single
  <2>1. i \in Inst
    BY <1>5
  <2>2. CASE i = n
    <3>1. \A k \in 1 .. Len(queue') : queue'[k] # i
      <4>1. \A k \in 1 .. Len(queue') : k \in Nat /\ k + 1 # 1
        OBVIOUS
      <4> QED BY <4>1, <2>2, <1>2, <1>3 DEF OnceInv, Single
    <3>2. \A g \in Host : ~Holds(g, i)
      BY <2>2, <1>2, <1>3 DEF OnceInv, Single
    <3> QED BY <3>1, <3>2, <1>4, <2>1 DEF OnceInv, Single
  <2>3. CASE i # n
    <3>1. \A j, k \in 1 .. Len(queue') : queue'[j] = i /\ queue'[k] = i => j = k
      <4>1. ASSUME NEW j \in 1 .. Len(queue'), NEW k \in 1 .. Len(queue'),
                   queue'[j] = i, queue'[k] = i
            PROVE  j + 1 = k + 1
        BY <4>1, <1>3 DEF OnceInv, Single
      <4> QED BY <4>1
    <3> QED BY <3>1, <2>1, <2>3, <1>3, <1>4 DEF OnceInv, Single
  <2> QED BY <2>2, <2>3
<1> QED BY <1>6, <1>7 DEF OnceInv

LEMMA HostOnce ==
  ASSUME IInv, OnceInv, NEW h \in Host, HostMoves(h) \/ Drain(h)
  PROVE  OnceInv'
<1>1. CASE Claim(h)
  BY <1>1, ClaimOnce DEF IInv
<1>2. CASE ~Claim(h)
  <2>1. UNCHANGED <<queue, orchVars>>
    BY <1>2 DEF HostMoves, HostStep, HostFault, Leave, ClaimNothing, CheckRegistry,
                StartListener, StartFails, SweepStop, LeaveStop, PopInstance, SweepDone, Beat,
                NoBeat, LeaveDone, Retract, RetractFails, LoopDies, Crash, Drain, busVars
  <2>2. Begun' = Begun /\ Fresh' = Fresh /\ placements' = placements /\ poll'.todo = poll.todo
    BY <2>1 DEF Begun, Fresh, orchVars
  <2>3. \A g \in Host, i \in Inst : /\ Holds(g, i)' => Holds(g, i)
                                    /\ Doubles(g, i)' => Doubles(g, i)
    <3>0. /\ pc \in [Host -> HostPc] /\ cur \in [Host -> Inst \cup {None}]
          /\ hosted \in [Host -> SUBSET Inst] /\ leaked \in [Host -> SUBSET Inst]
      BY DEF IInv, TypeOK
    <3> USE <3>0 DEF Holds, Doubles, Starting, At, GoTo
    <3>1. CASE Leave(h) \/ ClaimNothing(h) \/ SweepDone(h) \/ NoBeat(h) \/ Beat(h)
      BY <3>1 DEF Leave, ClaimNothing, SweepDone, NoBeat, Beat
    <3>2. CASE CheckRegistry(h)
      BY <3>2 DEF CheckRegistry, Done
    <3>3. CASE StartListener(h) \/ StartFails(h)
      BY <3>3, NoneIsNoInst DEF StartListener, StartFails, Hosts, Done
    <3>4. CASE Retract(h) \/ RetractFails(h) \/ LoopDies(h) \/ Crash(h) \/ LeaveDone(h)
      BY <3>4, NoneIsNoInst DEF Retract, RetractFails, LoopDies, Crash, LeaveDone
    <3>5. CASE SweepStop(h) \/ LeaveStop(h)
      BY <3>5 DEF SweepStop, LeaveStop, PopInstance
    <3>6. CASE Drain(h)
      BY <3>6 DEF Drain, hostVars
    <3> QED BY <1>2, <3>1, <3>2, <3>3, <3>4, <3>5, <3>6 DEF HostMoves, HostStep, HostFault
  <2> QED BY <2>1, <2>2, <2>3, FewerTokens
<1> QED BY <1>1, <1>2

LEMMA NextOnce ==
  ASSUME IInv, OnceInv, [Next]_vars
  PROVE  OnceInv'
<1>1. CASE Request \/ StopTopology \/ Poll
  BY <1>1, RequestOnce, PollOnce DEF IInv
<1>2. ASSUME NEW h \in Host, HostMoves(h) \/ Drain(h) PROVE OnceInv'
  BY <1>2, HostOnce
<1>3. CASE Time \/ (\E i \in Inst : ExpireEarly(i)) \/ UNCHANGED vars
  <2>1. UNCHANGED <<queue, hostVars, run, placements, poll>>
    BY <1>3 DEF Time, CooldownEnds, Expire, ExpireEarly, Lapsed, vars, busVars, orchVars
  <2>2. \A i \in Inst : replacedAt'[i] = "never" => replacedAt[i] = "never"
    BY <1>3 DEF Time, CooldownEnds, Expire, ExpireEarly, Lapsed, vars, orchVars, IInv, TypeOK
  <2>3. Begun' = Begun /\ Fresh' \subseteq Fresh
    BY <2>1, <2>2 DEF Begun, Fresh
  <2>4. \A h \in Host, i \in Inst : Holds(h, i)' => Holds(h, i)
    BY <2>1 DEF Holds, Starting, hostVars
  <2>5. \A h \in Host, i \in Inst : Doubles(h, i)' => Doubles(h, i)
    BY <2>1 DEF Doubles, Starting, hostVars
  <2>6. placements' \subseteq placements /\ poll'.todo \subseteq placements \cup poll.todo
        /\ queue' = queue
    BY <2>1
  <2> QED BY <2>3, <2>4, <2>5, <2>6, FewerTokens
<1> QED BY <1>1, <1>2, <1>3 DEF Next, HostMoves

\* For any number of hosts, waves, faults and placements in flight, a listener
\* that the poller never re-placed runs once at most, on one host: the claim is the
\* only way from the queue to a host, and it takes the placement along.
THEOREM OneHostServes == Spec => []ServedOnce
<1>1. OnceInv => ServedOnce
  BY DEF OnceInv, Single, Fresh, Holds, Doubles, ServedOnce
<1>2. Spec => []OnceInv
  BY Invariance, InitOnce, NextOnce, PTL DEF Spec
<1> QED BY <1>1, <1>2, PTL
=============================================================================
