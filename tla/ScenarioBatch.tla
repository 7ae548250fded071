--------------------------- MODULE ScenarioBatch ---------------------------
(***************************************************************************)
(* One functional run: run_scenario_batch checks the targets, runs the     *)
(* before-fixtures, the scenarios of phases 2 and 3 - those of a phase     *)
(* side by side - and the after-fixtures.  All of them share one           *)
(* ScenarioRunner, and with it the list of undos that their writes have    *)
(* declared and the result that undos are reported on.                     *)
(*                                                                         *)
(* A scenario is a task of its own; the batch waits for a phase in         *)
(* asyncio.gather, which returns when all are done and raises when the     *)
(* first has raised or was cancelled.                                      *)
(***************************************************************************)
EXTENDS Naturals, FiniteSets

CONSTANTS
    Phase2, Phase3, \* the scenarios, by test_class
    Dropped,        \* those of any other test_class: they are in no phase
    Before, After,  \* fixtures
    Target,         \* adapters of the environment
    Targets,        \* the adapters that the steps of a scenario or fixture use
    Writers,        \* the cases with steps that declare an undo
    Permits,        \* connection_semaphore and ops_limiter: the smaller one
    None,
    MaxStep,        \* bound: steps of a scenario
    MaxCancel,      \* bound: cancels of the run
    MaxFault        \* bound: scenarios that raise

Scenario == Phase2 \cup Phase3 \cup Dropped
Case == Scenario \cup Before \cup After

ASSUME BatchAssumption ==
    /\ Phase2 \cap Phase3 = {} /\ Dropped \cap (Phase2 \cup Phase3) = {}
    /\ Before \cap After = {}
    /\ Scenario \cap (Before \cup After) = {} /\ None \notin Case
    /\ Targets \in [Case -> SUBSET Target] /\ Writers \subseteq Case
    /\ Permits \in Nat \ {0}
    /\ MaxStep \in Nat /\ MaxCancel \in Nat /\ MaxFault \in Nat

\* The step of a case that wrote and declared how to undo it.
Write == Writers \X (1 .. MaxStep)

VARIABLES
    \* run_scenario_batch
    stage,      \* where it is
    failed,     \* failed_targets
    sound,      \* phase1_status is PASSED
    ending,     \* what goes on after the after-fixtures: nothing, or an exception
    verdict,    \* rec.status
    \* the runner
    cleanups,   \* _cleanups
    holder,     \* _last_result: the case that started last
    \* the cases
    pc,         \* where the task of a case is
    steps,      \* how many steps it has done
    status,     \* its result
    bad,        \* targets of the steps that did not pass, as its result has them:
                \* the results of phase 2, nobody asks for the others
    todo,       \* undos its _run_cleanups still has to execute
    \* the envelope
    inside,     \* cases with a call under way, each with a permit
    \* cancels and faults
    asked,      \* CancelledError waits for the task of the run
    hit,        \* ... and for the tasks of these cases
    cancels, faults,
    \* history
    declared,   \* writes that declared an undo, once they are in their database
    lost,       \* ... whose step ended without success, or was cancelled under way
    tried,      \* undos that were executed
    struck,     \* a cancel met an undo under way
    cutAt       \* the stage the last cancel met

batchVars == <<stage, failed, sound, ending, verdict>>
caseVars  == <<pc, steps, status, bad, todo>>
faultVars == <<asked, hit, cancels, faults, struck, cutAt>>
vars == <<batchVars, cleanups, holder, caseVars, inside, faultVars, declared, lost, tried>>

Stage == {"health", "before", "phase1", "phase2", "gather2", "phase3", "gather3",
          "ended", "after", "closing", "over"}

TypeOK ==
    /\ stage \in Stage /\ failed \subseteq Target /\ sound \in BOOLEAN
    /\ ending \in {"none", "cancelled", "error"}
    /\ verdict \in {"none", "passed", "failed", "cancelled", "error"}
    /\ cleanups \subseteq Write /\ holder \in Case \cup {None}
    /\ pc \in [Case -> {"idle", "walk", "undo", "over"}]
    /\ steps \in [Case -> 0 .. MaxStep]
    /\ status \in [Case -> {"none", "passed", "failed", "blocked", "error", "cancelled"}]
    /\ bad \in [Phase2 -> SUBSET Target] /\ todo \in [Case -> SUBSET Write]
    /\ inside \subseteq {c \in Case : pc[c] \in {"walk", "undo"}}
    /\ asked \in BOOLEAN /\ hit \subseteq {c \in Case : pc[c] \in {"walk", "undo"}}
    /\ cancels \in 0 .. MaxCancel /\ faults \in 0 .. MaxFault
    /\ declared \subseteq Write /\ tried \subseteq declared /\ lost \subseteq declared
    /\ struck \in BOOLEAN /\ cutAt \in Stage \cup {None}

Init ==
    /\ stage = "health" /\ failed = {} /\ sound = TRUE
    /\ ending = "none" /\ verdict = "none"
    /\ cleanups = {} /\ holder = None
    /\ pc = [c \in Case |-> "idle"] /\ steps = [c \in Case |-> 0]
    /\ status = [c \in Case |-> "none"] /\ bad = [s \in Phase2 |-> {}]
    /\ todo = [c \in Case |-> {}]
    /\ inside = {} /\ asked = FALSE /\ hit = {} /\ cancels = 0 /\ faults = 0
    /\ declared = {} /\ lost = {} /\ tried = {} /\ struck = FALSE /\ cutAt = None

Busy(c) == pc[c] \in {"walk", "undo"}

-----------------------------------------------------------------------------
(* The task of a case: ScenarioRunner.run.                                 *)

\* Cases that have just entered run().
Started(cs) ==
    /\ pc' = [c \in Case |-> IF c \in cs THEN "walk" ELSE pc[c]]
    /\ cleanups' = IF cs = {} THEN cleanups ELSE {}
    /\ \/ cs = {} /\ UNCHANGED holder
       \/ holder' \in cs

\* _execute_step takes a permit for the next step, or the next undo.
Dispatch(c) ==
    /\ Busy(c) /\ c \notin inside /\ c \notin hit
    /\ pc[c] = "walk" => steps[c] < MaxStep
    /\ Cardinality(inside) < Permits
    /\ inside' = inside \cup {c}
    /\ UNCHANGED <<batchVars, cleanups, holder, caseVars, faultVars, declared, lost, tried>>

\* The step of c that is under way, as a write.
Current(c) == <<c, steps[c] + 1>>

\* The database has the write of a step: the step has yet to hear of it, and a
\* cancel that is on its way does not stop the thread or the server.  (A write
\* that declares no undo, or one in a sub-scenario, is as any other step here.)
Commits(c) ==
    /\ pc[c] = "walk" /\ c \in inside /\ c \in Writers
    /\ Current(c) \notin declared
    /\ declared' = declared \cup {Current(c)}
    /\ UNCHANGED <<batchVars, cleanups, holder, caseVars, inside, faultVars, lost, tried>>

\* The step succeeds or not, its assertions pass or not; a write that succeeded
\* leaves its undo with the runner.  One that fails after its commit, by a
\* connection that broke or an assertion that could not be evaluated, does not.
StepReturns(c) ==
    /\ pc[c] = "walk" /\ c \in inside /\ c \notin hit
    /\ inside' = inside \ {c}
    /\ steps' = [steps EXCEPT ![c] = @ + 1]
    /\ \E success, passes \in BOOLEAN :
          /\ LET write == {Current(c)} \cap declared IN
             /\ cleanups' = IF success THEN cleanups \cup write ELSE cleanups
             /\ lost' = IF success THEN lost ELSE lost \cup write
          /\ IF success /\ passes THEN UNCHANGED <<status, bad>>
             ELSE /\ status' = [status EXCEPT ![c] = "failed"]
                  /\ \E t \in {{}} \cup {{x} : x \in Targets[c]} :
                        bad' = [bad EXCEPT ![c] = @ \cup t]
    /\ UNCHANGED <<batchVars, holder, pc, todo, faultVars, declared, tried>>

\* mutation: the list is kept after it was taken.
UnwindKeeping(c) ==
    /\ pc' = [pc EXCEPT ![c] = IF cleanups = {} THEN "over" ELSE "undo"]
    /\ todo' = [todo EXCEPT ![c] = cleanups]
    /\ UNCHANGED cleanups

\* The finally of run(): whoever ends takes every undo that is on the list.
Unwind(c) ==
    /\ pc' = [pc EXCEPT ![c] = IF cleanups = {} THEN "over" ELSE "undo"]
    /\ todo' = [todo EXCEPT ![c] = cleanups]
    /\ cleanups' = {}

\* The last node, or stop_on_failure.
WalkEnds(c) ==
    /\ pc[c] = "walk" /\ c \notin inside /\ c \notin hit
    /\ status' = [status EXCEPT ![c] = IF @ = "none" THEN "passed" ELSE @]
    /\ Unwind(c)
    /\ UNCHANGED <<batchVars, holder, steps, bad, inside, faultVars, declared, lost, tried>>

\* The undos of a case, newest first; one that fails is a note on a result.
Newest(ws) == {w \in ws : \A v \in ws : v[1] = w[1] => v[2] <= w[2]}

UndoReturns(c) ==
    /\ pc[c] = "undo" /\ c \in inside /\ c \notin hit
    /\ inside' = inside \ {c}
    /\ \E w \in Newest(todo[c]) :
          /\ todo' = [todo EXCEPT ![c] = @ \ {w}]
          /\ tried' = tried \cup {w}
          /\ pc' = [pc EXCEPT ![c] = IF todo[c] = {w} THEN "over" ELSE @]
          /\ \E t \in {{}} \cup {{x} : x \in Targets[w[1]]} :
                bad' = [bad EXCEPT ![holder] = @ \cup t]
    /\ UNCHANGED <<batchVars, cleanups, holder, steps, status, faultVars, declared, lost>>

\* mutation: a scenario that raises keeps its permit.
RaisesHolding(c) ==
    /\ Busy(c) /\ c \notin hit /\ faults < MaxFault
    /\ faults' = faults + 1
    /\ status' = [status EXCEPT ![c] = "error"]
    /\ IF pc[c] = "walk" THEN Unwind(c)
       ELSE /\ pc' = [pc EXCEPT ![c] = "over"]
            /\ todo' = [todo EXCEPT ![c] = {}]
            /\ UNCHANGED cleanups
    /\ asked' = (asked /\ c \in Scenario)
    /\ UNCHANGED <<batchVars, holder, steps, bad, inside, hit, cancels, struck, cutAt,
                   declared, lost, tried>>

\* An exception leaves the walk, or the undos: an event could not be published,
\* or a step lacks what it needs.  _run_fixtures records that of a fixture and
\* goes on, even when it took the place of CancelledError.
Raises(c) ==
    /\ Busy(c) /\ c \notin hit /\ faults < MaxFault
    /\ faults' = faults + 1
    /\ status' = [status EXCEPT ![c] = "error"]
    /\ inside' = inside \ {c}
    /\ IF pc[c] = "walk" THEN Unwind(c)
       ELSE /\ pc' = [pc EXCEPT ![c] = "over"]
            /\ todo' = [todo EXCEPT ![c] = {}]
            /\ UNCHANGED cleanups
    /\ asked' = (asked /\ c \in Scenario)
    /\ UNCHANGED <<batchVars, holder, steps, bad, hit, cancels, struck, cutAt,
                   declared, lost, tried>>

\* A write under way whose step is cancelled is made or not, and its undo is with
\* nobody.  (The thread or the server may commit it later: nothing waits for that.)
WriteCutOff(c) ==
    LET write == IF pc[c] = "walk" /\ c \in inside \cap Writers THEN {Current(c)} ELSE {} IN
    /\ \E made \in SUBSET write : declared' = declared \cup made
    /\ lost' = lost \cup (write \cap declared')

\* mutation: a cancelled walk does not come to the undos.
CancelledBare(c) ==
    /\ c \in hit
    /\ hit' = hit \ {c}
    /\ status' = [status EXCEPT ![c] = "cancelled"]
    /\ WriteCutOff(c)
    /\ inside' = inside \ {c}
    /\ pc' = [pc EXCEPT ![c] = "over"]
    /\ todo' = [todo EXCEPT ![c] = {}]
    /\ UNCHANGED <<batchVars, cleanups, holder, steps, bad, asked, cancels, faults,
                   struck, cutAt, tried>>

\* mutation: a cancelled call keeps its permit.
CancelledHolding(c) ==
    /\ c \in hit
    /\ hit' = hit \ {c}
    /\ status' = [status EXCEPT ![c] = "cancelled"]
    /\ WriteCutOff(c)
    /\ IF pc[c] = "walk" THEN Unwind(c)
       ELSE /\ pc' = [pc EXCEPT ![c] = "over"]
            /\ todo' = [todo EXCEPT ![c] = {}]
            /\ UNCHANGED cleanups
    /\ UNCHANGED <<batchVars, holder, steps, bad, inside, asked, cancels, faults,
                   struck, cutAt, tried>>

\* CancelledError leaves the walk through the same finally, and leaves the undos
\* where it meets them.
Cancelled(c) ==
    /\ c \in hit
    /\ hit' = hit \ {c}
    /\ status' = [status EXCEPT ![c] = "cancelled"]
    /\ WriteCutOff(c)
    /\ inside' = inside \ {c}
    /\ IF pc[c] = "walk" THEN Unwind(c)
       ELSE /\ pc' = [pc EXCEPT ![c] = "over"]
            /\ todo' = [todo EXCEPT ![c] = {}]
            /\ UNCHANGED cleanups
    /\ UNCHANGED <<batchVars, holder, steps, bad, asked, cancels, faults,
                   struck, cutAt, tried>>

-----------------------------------------------------------------------------
(* The task of the run: run_scenario_batch, then _run_engine.              *)

\* Where the batch stands, when nothing else of it changes.
GoTo(at) == stage' = at /\ UNCHANGED <<failed, sound, ending, verdict>>

\* Phase 1, the one retry of unhealthy targets included.
HealthCheck ==
    /\ stage = "health" /\ ~asked
    /\ \E down \in SUBSET Target :
          /\ failed' = down /\ sound' = (down = {})
          /\ stage' = IF Before # {} /\ down = {} THEN "before" ELSE "phase1"
    /\ UNCHANGED <<ending, verdict, cleanups, holder, caseVars, inside, faultVars,
                   declared, lost, tried>>

Fixtures == IF stage = "before" THEN Before ELSE IF stage = "after" THEN After ELSE {}

\* Fixtures run one at a time.
StartFixture(f) ==
    /\ f \in Fixtures /\ ~asked
    /\ pc[f] = "idle" /\ \A g \in Fixtures : ~Busy(g)
    /\ Started({f})
    /\ UNCHANGED <<batchVars, steps, status, bad, todo, inside, faultVars, declared, lost, tried>>

\* A before-fixture that failed fails every target of the run.
BeforeDone ==
    /\ stage = "before" /\ ~asked /\ \A f \in Before : pc[f] = "over"
    /\ LET ok == \A f \in Before : status[f] = "passed" IN
       /\ sound' = ok
       /\ failed' = IF ok THEN failed ELSE failed \cup UNION {Targets[s] : s \in Scenario}
    /\ stage' = "phase1"
    /\ UNCHANGED <<ending, verdict, cleanups, holder, caseVars, inside, faultVars,
                   declared, lost, tried>>

EmitPhase1 ==
    /\ stage = "phase1" /\ ~asked /\ GoTo("phase2")
    /\ UNCHANGED <<cleanups, holder, caseVars, inside, faultVars, declared, lost, tried>>

Blocked(s) == Targets[s] \cap failed # {}

\* gather wraps each runnable scenario in a task, and each of them runs up to
\* its first step before any other goes on.
RunPhase(scenarios, at) ==
    /\ Started({s \in scenarios : ~Blocked(s)})
    /\ status' = [c \in Case |-> IF c \in scenarios /\ Blocked(c) THEN "blocked" ELSE status[c]]
    /\ GoTo(at)
    /\ UNCHANGED <<steps, bad, todo, inside, faultVars, declared, lost, tried>>

StartPhase2 == stage = "phase2" /\ ~asked /\ RunPhase(Phase2, "gather2")
StartPhase3 == stage = "phase3" /\ ~asked /\ RunPhase(Phase3, "gather3")

Gathered == IF stage = "gather2" THEN Phase2 ELSE IF stage = "gather3" THEN Phase3 ELSE {}
Threw(s) == pc[s] = "over" /\ status[s] \in {"error", "cancelled"}

\* All are done: the targets of failed scenarios block those of the next phase.
GatherDone ==
    /\ stage \in {"gather2", "gather3"} /\ ~asked
    /\ \A s \in Gathered : ~Busy(s) /\ ~Threw(s)
    /\ failed' = IF stage = "gather3" THEN failed
                 ELSE failed \cup UNION {bad[s] : s \in {p \in Phase2 : status[p] = "failed"}}
    /\ stage' = IF stage = "gather2" THEN "phase3" ELSE "ended"
    /\ UNCHANGED <<sound, ending, verdict, cleanups, holder, caseVars, inside, faultVars,
                   declared, lost, tried>>

\* mutation: an exception does not come by the after-fixtures.
GatherRaisesOut ==
    /\ stage \in {"gather2", "gather3"} /\ ~asked
    /\ \E s \in Gathered : Threw(s)
    /\ ending' = "error" /\ verdict' = "error" /\ stage' = "over"
    /\ UNCHANGED <<failed, sound, cleanups, holder, caseVars, inside, faultVars,
                   declared, lost, tried>>

\* One of them raised; the others run on, and nobody waits for them.
GatherRaises ==
    /\ stage \in {"gather2", "gather3"} /\ ~asked
    /\ \E s \in Gathered : Threw(s)
    /\ ending' = "error" /\ stage' = "after"
    /\ UNCHANGED <<failed, sound, verdict, cleanups, holder, caseVars, inside, faultVars,
                   declared, lost, tried>>

\* The results of phase 3 are out: the end of the try.
PhasesDone ==
    /\ stage = "ended" /\ ~asked /\ GoTo("after")
    /\ UNCHANGED <<cleanups, holder, caseVars, inside, faultVars, declared, lost, tried>>

\* The after-fixtures are done.  An exception goes on to _run_engine.
AfterDone ==
    /\ stage = "after" /\ ~asked /\ \A f \in After : pc[f] = "over"
    /\ IF ending = "none" THEN GoTo("closing")
       ELSE stage' = "over" /\ verdict' = ending /\ UNCHANGED <<failed, sound, ending>>
    /\ UNCHANGED <<cleanups, holder, caseVars, inside, faultVars, declared, lost, tried>>

\* mutation: the status of phase 1 is forgotten.
VerdictOfScenarios ==
    IF \A s \in Scenario : status[s] # "failed" THEN "passed" ELSE "failed"

\* Each target answered and each before-fixture passed, and so did each scenario
\* that was not blocked.
Verdict ==
    IF sound /\ \A s \in Scenario : status[s] # "failed" THEN "passed" ELSE "failed"

Close ==
    /\ stage = "closing" /\ ~asked
    /\ stage' = "over" /\ verdict' = Verdict
    /\ UNCHANGED <<failed, sound, ending, cleanups, holder, caseVars, inside, faultVars,
                   declared, lost, tried>>

-----------------------------------------------------------------------------
(* cancel_run.                                                             *)

\* The cases the task of the run waits for are cancelled with it; a gather that
\* has its exception waits for none.
Awaited == IF \E s \in Gathered : Threw(s) THEN {}
           ELSE {c \in Gathered \cup Fixtures : Busy(c)}

\* A cancel comes at an await: there is none between the try and the first of
\* the after-fixtures.
Cancel ==
    /\ stage # "over" /\ cancels < MaxCancel
    /\ stage = "after" => \E f \in After : pc[f] # "idle"
    /\ cancels' = cancels + 1 /\ cutAt' = stage
    /\ asked' = TRUE /\ hit' = hit \cup Awaited
    /\ struck' = (struck \/ \E c \in Awaited : pc[c] = "undo")
    /\ UNCHANGED <<batchVars, cleanups, holder, caseVars, inside, faults, declared, lost, tried>>

\* CancelledError in the task of the run.  The tasks it cancelled got theirs
\* before; gather passes on the first exception that comes out of one of them.
RunCancelled ==
    /\ asked /\ hit = {} /\ asked' = FALSE
    /\ \A f \in Fixtures : ~Busy(f)
    /\ \/ \E s \in Gathered : Threw(s)
       \/ \A s \in Gathered : ~Busy(s)
    /\ IF stage \in {"phase2", "gather2", "phase3", "gather3", "ended"}
       THEN /\ stage' = "after" /\ UNCHANGED verdict
            /\ \/ ending' = "cancelled"
               \/ ending' = "error" /\ \E s \in Gathered : Threw(s) /\ status[s] = "error"
       ELSE stage' = "over" /\ verdict' = "cancelled" /\ UNCHANGED ending
    /\ UNCHANGED <<failed, sound, cleanups, holder, caseVars, inside, hit, cancels, faults,
                   struck, cutAt, declared, lost, tried>>

-----------------------------------------------------------------------------
CaseStep(c) ==
    \/ Dispatch(c) \/ Commits(c) \/ StepReturns(c) \/ WalkEnds(c) \/ UndoReturns(c) \/ Cancelled(c)

BatchStep ==
    \/ HealthCheck \/ BeforeDone \/ EmitPhase1 \/ StartPhase2 \/ StartPhase3
    \/ GatherDone \/ GatherRaises \/ PhasesDone \/ AfterDone \/ Close \/ RunCancelled
    \/ \E f \in Before \cup After : StartFixture(f)

Next == BatchStep \/ Cancel \/ \E c \in Case : CaseStep(c) \/ Raises(c)

Spec == Init /\ [][Next]_vars

\* Tasks that can go on do, and each call of an adapter returns; nobody has to
\* cancel and nothing has to raise.
FairSpec == Spec /\ WF_vars(BatchStep) /\ \A c \in Case : WF_vars(CaseStep(c))

-----------------------------------------------------------------------------
(* Properties.                                                             *)

\* An undo is never on two lists, and one that was executed is on none: however
\* the scenarios that share the runner end, no undo is executed twice
\* (_run_cleanups empties the list before it executes it).
UndoneOnce ==
    \A c \in Case :
       /\ todo[c] \cap (cleanups \cup tried) = {}
       /\ cleanups \cap tried = {}
       /\ \A d \in Case \ {c} : todo[c] \cap todo[d] = {}

\* Once all scenarios and fixtures have ended, each write that declared an undo
\* has been undone - whoever took the undo, and whether the scenarios passed,
\* failed or were cancelled - unless a scenario raised, a cancel met an undo under
\* way, or the step of the write was cancelled or failed once the database had it:
\* its undo is registered only when the step comes back (_run_step).
WritesUndone ==
    faults = 0 /\ ~struck /\ (\A c \in Case : ~Busy(c)) => declared \ lost \subseteq tried

\* A run passes only if every scenario of its phases ran and passed, none was
\* blocked, and every before-fixture passed: a scenario is blocked only by
\* something that fails the run (run_scenario_batch counts blocked scenarios as no
\* failure).  Scenarios of another test_class are in no phase and never run.
VerdictIsEarned ==
    verdict = "passed" =>
       /\ \A s \in Phase2 \cup Phase3 : status[s] = "passed"
       /\ \A f \in Before : status[f] = "passed"

\* The after-fixtures run once the scenarios were started, however these ended;
\* only a cancel that comes then, or later, keeps them from it.
AfterRuns ==
    /\ stage = "over" /\ (\E s \in Scenario : status[s] # "none" \/ Busy(s))
    /\ cutAt \notin {"after", "closing"}
    => \A f \in After : pc[f] = "over"

\* They run last: no scenario is still at its steps unless one raised, and none
\* is at its undos unless the run was cancelled too.
AfterIsLast ==
    stage \in {"after", "closing", "over"} /\ faults = 0 =>
       \A s \in Scenario : pc[s] # "walk" /\ (pc[s] = "undo" => cancels > 0)

\* The finally around phases 2 and 3.
AfterFixtures == AfterRuns /\ AfterIsLast

\* Every run comes to its end, and so does every task it started: no permit is
\* lost to a step that was cancelled or raised.
RunEnds == <>[](stage = "over" /\ \A c \in Case : ~Busy(c))

\* ADR-0012: the undo of a scenario is executed "when the scenario ends".
UndoneAtEnd == [][\A w \in tried' \ tried : pc[w[1]] # "walk"]_vars
=============================================================================
