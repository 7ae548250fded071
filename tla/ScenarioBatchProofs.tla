------------------------ MODULE ScenarioBatchProofs ------------------------
(***************************************************************************)
(* Proofs about ScenarioBatch, for any scenarios, fixtures, permits and    *)
(* numbers of steps, cancels and faults.  Each property is a conjunct of   *)
(* IInv, or follows from it; each action has a lemma with one step per     *)
(* conjunct.                                                               *)
(***************************************************************************)
EXTENDS ScenarioBatch, TLAPS

-----------------------------------------------------------------------------
(* The inductive invariant.                                                *)

\* An undo on a list, or executed, was declared, by a step that its case has done;
\* undos wait only with a case that executes them, or for one that walks.
Listed ==
    /\ cleanups \subseteq declared
    /\ \A c \in Case : todo[c] \subseteq declared
    /\ \A w \in cleanups \cup tried : w[2] <= steps[w[1]]
    /\ \A c \in Case : \A w \in todo[c] : w[2] <= steps[w[1]]
    /\ \A c \in inside : pc[c] = "walk" => steps[c] < MaxStep
    /\ \A c \in Case : todo[c] # {} => pc[c] = "undo"
    /\ cleanups # {} => \E c \in Case : pc[c] = "walk"

\* Who runs at which stage of the batch.
InOrder ==
    /\ stage \in {"health", "before", "phase1", "phase2"} =>
          \A s \in Scenario : pc[s] = "idle" /\ status[s] = "none"
    /\ \A s \in Dropped : pc[s] = "idle" /\ status[s] = "none"
    /\ stage \in {"gather2", "phase3"} =>
          \A s \in Phase3 : pc[s] = "idle" /\ status[s] = "none"
    /\ stage \in {"phase3", "gather3"} => \A s \in Phase2 : ~Busy(s) /\ ~Threw(s)
    /\ stage # "before" => \A h \in Before : ~Busy(h)
    /\ stage # "after" => \A h \in After : ~Busy(h)
    /\ \A h, k \in Before \cup After : Busy(h) /\ Busy(k) => h = k

\* A cancel is on its way to the cases that the run waits for.
Asked ==
    /\ hit \subseteq Gathered \cup Fixtures
    /\ hit # {} => asked
    /\ asked => cutAt = stage /\ cancels > 0
    /\ \A c \in hit : pc[c] = "undo" => struck

\* Unless a case raised, the run goes on only when no scenario walks.
Exits(c) == status[c] \in {"error", "cancelled"}

Quiet ==
    faults = 0 =>
       /\ \A s \in Gathered : IF asked THEN pc[s] = "walk" => s \in hit ELSE ~Exits(s)
       /\ \A c \in Case : Exits(c) => cancels > 0
       /\ ending # "none" => cancels > 0

\* Each undo is somewhere, unless its case raised or a cancel met the undos: on a
\* list, executed, with the step under way, or lost with it.
Kept ==
    faults = 0 /\ ~struck =>
       \A w \in declared :
          \/ w \in tried \cup cleanups \cup lost
          \/ \E c \in Case : w \in todo[c]
          \/ \E c \in inside : pc[c] = "walk" /\ w = Current(c)

\* The scenarios ended in order, and the after-fixtures follow.
Decided == stage \in {"ended", "closing"} \/ (stage = "after" /\ ending = "none")

Settled ==
    /\ \A c \in Case :
          /\ pc[c] = "idle" => status[c] \in {"none", "blocked"}
          /\ pc[c] = "walk" => status[c] \in {"none", "failed"}
          /\ pc[c] \in {"undo", "over"} => status[c] # "none"
    /\ \A h \in Before \cup After : pc[h] = "idle" => status[h] = "none"
    /\ stage \in {"gather2", "phase3", "gather3"} \/ Decided =>
          \A s \in Phase2 : pc[s] = "idle" => status[s] = "blocked"
    /\ stage = "gather3" \/ Decided =>
          \A s \in Phase3 : pc[s] = "idle" => status[s] = "blocked"
    /\ Decided => \A s \in Scenario : ~Busy(s) /\ ~Threw(s)
    /\ stage = "closing" => \A h \in After : pc[h] = "over"

\* What fails a target fails the run.
Earned ==
    /\ \A s \in Scenario : status[s] = "blocked" => failed # {}
    /\ sound /\ stage \in {"health", "before", "phase1", "phase2", "gather2"} => failed = {}
    /\ sound /\ failed # {} /\ (stage \in {"phase3", "gather3"} \/ Decided) =>
          \E s \in Phase2 : status[s] = "failed"
    /\ sound /\ stage \in {"phase1", "phase2", "gather2", "phase3", "gather3", "ended",
                           "after", "closing"} => \A h \in Before : status[h] = "passed"
    /\ stage = "before" => sound
    /\ verdict # "none" => stage = "over"
    /\ verdict = "passed" => \A s \in Scenario : ~Busy(s)

IInv ==
    /\ TypeOK /\ Listed /\ UndoneOnce /\ InOrder /\ Asked /\ Quiet /\ AfterIsLast /\ Kept
    /\ Settled /\ AfterRuns /\ Earned /\ VerdictIsEarned

-----------------------------------------------------------------------------
(* Each action preserves the invariant.                                    *)

LEMMA DispatchKeeps ==
    ASSUME IInv, NEW c \in Case, Dispatch(c)
    PROVE  IInv'
<1> USE BatchAssumption DEF Scenario, Case, Busy, batchVars, caseVars, faultVars,
       Dispatch
<1> SUFFICES ASSUME TypeOK, Listed, UndoneOnce, InOrder, Asked, Quiet,
                    AfterIsLast, Kept, Settled, AfterRuns, Earned, VerdictIsEarned
             PROVE  IInv'
    BY DEF IInv
<1>1. TypeOK'
      BY DEF TypeOK
<1>2. Listed'
      BY DEF Listed
<1>3. UndoneOnce'
      BY DEF UndoneOnce
<1>4. InOrder'
      BY DEF InOrder, Threw
<1>5. Asked'
      BY DEF Asked, Gathered, Fixtures
<1>6. Quiet'
      BY DEF Quiet, Gathered, Exits
<1>7. AfterIsLast'
      BY DEF AfterIsLast
<1>8. Kept'
      BY DEF Kept, Current
<1>9. Settled'
      BY DEF Settled, Decided, Threw
<1>10. AfterRuns'
      BY DEF AfterRuns
<1>11. Earned'
      BY DEF Earned, Decided
<1>12. VerdictIsEarned'
      BY DEF TypeOK, VerdictIsEarned, InOrder, Threw, Settled, Decided, Earned
<1> QED BY <1>1, <1>2, <1>3, <1>4, <1>5, <1>6, <1>7, <1>8, <1>9, <1>10, <1>11,
          <1>12 DEF IInv

LEMMA CommitsKeeps ==
    ASSUME IInv, NEW c \in Case, Commits(c)
    PROVE  IInv'
<1> USE BatchAssumption DEF Scenario, Case, Busy, batchVars, caseVars, faultVars,
       Commits
<1> SUFFICES ASSUME TypeOK, Listed, UndoneOnce, InOrder, Asked, Quiet,
                    AfterIsLast, Kept, Settled, AfterRuns, Earned, VerdictIsEarned
             PROVE  IInv'
    BY DEF IInv
<1>1. TypeOK'
  <2>1. steps[c] \in Nat /\ steps[c] + 1 \in 1 .. MaxStep
        BY DEF TypeOK, Listed
  <2>2. Current(c) \in Write
        BY <2>1 DEF Write, Current
  <2> QED BY <2>2 DEF TypeOK
<1>2. Listed'
      BY DEF Listed
<1>3. UndoneOnce'
      BY DEF UndoneOnce
<1>4. InOrder'
      BY DEF InOrder, Threw
<1>5. Asked'
      BY DEF Asked, Gathered, Fixtures
<1>6. Quiet'
      BY DEF Quiet, Gathered, Exits
<1>7. AfterIsLast'
      BY DEF AfterIsLast
<1>8. Kept'
      BY DEF Kept, Current
<1>9. Settled'
      BY DEF Settled, Decided, Threw
<1>10. AfterRuns'
      BY DEF AfterRuns
<1>11. Earned'
      BY DEF Earned, Decided
<1>12. VerdictIsEarned'
      BY DEF TypeOK, VerdictIsEarned, InOrder, Threw, Settled, Decided, Earned
<1> QED BY <1>1, <1>2, <1>3, <1>4, <1>5, <1>6, <1>7, <1>8, <1>9, <1>10, <1>11,
          <1>12 DEF IInv

LEMMA StepReturnsKeeps ==
    ASSUME IInv, NEW c \in Case, StepReturns(c)
    PROVE  IInv'
<1> USE BatchAssumption DEF Scenario, Case, Busy, batchVars, caseVars, faultVars,
       StepReturns
<1> SUFFICES ASSUME TypeOK, Listed, UndoneOnce, InOrder, Asked, Quiet,
                    AfterIsLast, Kept, Settled, AfterRuns, Earned, VerdictIsEarned
             PROVE  IInv'
    BY DEF IInv
<1>1. TypeOK'
  <2>1. steps[c] \in Nat /\ steps[c] + 1 \in 0 .. MaxStep
        BY DEF TypeOK, Listed
  <2>2. cleanups' \subseteq Write /\ lost' \subseteq declared' /\ tried' \subseteq declared'
        BY DEF TypeOK
  <2>4. \A t \in {{}} \cup {{x} : x \in Targets[c]} : t \subseteq Target
        OBVIOUS
  <2>5. bad' \in [Phase2 -> SUBSET Target]
        BY <2>4 DEF TypeOK
  <2>6. steps' \in [Case -> 0 .. MaxStep]
        BY <2>1 DEF TypeOK
  <2> QED BY <2>2, <2>5, <2>6 DEF TypeOK
<1>2. Listed'
  <2>1. steps[c] \in Nat /\ steps' = [steps EXCEPT ![c] = steps[c] + 1]
        BY DEF TypeOK
  <2>2. cleanups' \subseteq cleanups \cup {Current(c)} /\ cleanups' \subseteq declared'
        BY DEF Listed
  <2>3. \A w \in Write : w[1] \in Case /\ w[2] \in Nat
        BY DEF Write
  <2>4. \A w \in Write : w[2] <= steps[w[1]] => w[2] <= steps'[w[1]]
        BY <2>1, <2>3 DEF TypeOK
  <2>5. \A w \in cleanups' \cup tried' : w[2] <= steps'[w[1]]
    <3> SUFFICES ASSUME NEW w \in cleanups' \cup tried' PROVE w[2] <= steps'[w[1]]
        OBVIOUS
    <3>1. CASE w = Current(c)
          BY <3>1, <2>1 DEF TypeOK, Current
    <3>2. CASE w \in cleanups \cup tried
          BY <3>2, <2>4 DEF TypeOK, Listed
    <3> QED BY <3>1, <3>2, <2>2
  <2>6. \A k \in Case : \A w \in todo'[k] : w[2] <= steps'[w[1]]
        BY <2>4 DEF TypeOK, Listed
  <2>7. \A k \in inside' : pc'[k] = "walk" => steps'[k] < MaxStep
        BY <2>1 DEF TypeOK, Listed
  <2> QED BY <2>2, <2>5, <2>6, <2>7 DEF Listed, TypeOK
<1>3. UndoneOnce'
  <2>1. Current(c)[2] > steps[Current(c)[1]] /\ steps[c] \in Nat
        BY DEF TypeOK, Current
  <2>2. Current(c) \notin tried /\ \A k \in Case : Current(c) \notin todo[k]
        BY <2>1 DEF Listed, Current
  <2> QED BY <2>2 DEF TypeOK, UndoneOnce
<1>4. InOrder'
      BY DEF TypeOK, InOrder, Threw
<1>5. Asked'
      BY DEF Asked, Gathered, Fixtures
<1>6. Quiet'
      BY DEF TypeOK, Quiet, Gathered, Exits
<1>7. AfterIsLast'
      BY DEF AfterIsLast
<1>8. Kept'
  <2>1. \A k \in inside' : pc'[k] = pc[k] /\ Current(k)' = Current(k)
        BY DEF TypeOK, Current
  <2>2. Current(c) \in declared => Current(c) \in cleanups' \cup lost'
        OBVIOUS
  <2>3. cleanups \subseteq cleanups' /\ lost \subseteq lost'
        OBVIOUS
  <2> QED BY <2>1, <2>2, <2>3 DEF TypeOK, Kept
<1>9. Settled'
      BY DEF TypeOK, Settled, Decided, Threw
<1>10. AfterRuns'
      BY DEF TypeOK, AfterRuns
<1>11. Earned'
      BY DEF TypeOK, Earned, Decided, InOrder
<1>12. VerdictIsEarned'
      BY DEF TypeOK, VerdictIsEarned, InOrder, Threw, Settled, Decided, Earned
<1> QED BY <1>1, <1>2, <1>3, <1>4, <1>5, <1>6, <1>7, <1>8, <1>9, <1>10, <1>11,
          <1>12 DEF IInv

LEMMA WalkEndsKeeps ==
    ASSUME IInv, NEW c \in Case, WalkEnds(c)
    PROVE  IInv'
<1> USE BatchAssumption DEF Scenario, Case, Busy, batchVars, caseVars, faultVars,
       WalkEnds, Unwind
<1> SUFFICES ASSUME TypeOK, Listed, UndoneOnce, InOrder, Asked, Quiet,
                    AfterIsLast, Kept, Settled, AfterRuns, Earned, VerdictIsEarned
             PROVE  IInv'
    BY DEF IInv
<1>1. TypeOK'
      BY DEF TypeOK
<1>2. Listed'
      BY DEF TypeOK, Listed
<1>3. UndoneOnce'
      BY DEF UndoneOnce
<1>4. InOrder'
      BY DEF InOrder, Threw
<1>5. Asked'
      BY DEF Asked, Gathered, Fixtures
<1>6. Quiet'
      BY DEF Quiet, Gathered, Exits
<1>7. AfterIsLast'
      BY DEF AfterIsLast
<1>8. Kept'
      BY DEF TypeOK, Kept, Listed, Current
<1>9. Settled'
      BY DEF TypeOK, Settled, Decided, Threw
<1>10. AfterRuns'
      BY DEF AfterRuns
<1>11. Earned'
      BY DEF Earned, Decided
<1>12. VerdictIsEarned'
      BY DEF TypeOK, VerdictIsEarned, InOrder, Threw, Settled, Decided, Earned
<1> QED BY <1>1, <1>2, <1>3, <1>4, <1>5, <1>6, <1>7, <1>8, <1>9, <1>10, <1>11,
          <1>12 DEF IInv

LEMMA UndoReturnsKeeps ==
    ASSUME IInv, NEW c \in Case, UndoReturns(c)
    PROVE  IInv'
<1> USE BatchAssumption DEF Scenario, Case, Busy, batchVars, caseVars, faultVars,
       UndoReturns, Newest
<1> SUFFICES ASSUME TypeOK, Listed, UndoneOnce, InOrder, Asked, Quiet,
                    AfterIsLast, Kept, Settled, AfterRuns, Earned, VerdictIsEarned
             PROVE  IInv'
    BY DEF IInv
<1>1. TypeOK'
  <2>1. PICK w \in Newest(todo[c]) :
           /\ todo' = [todo EXCEPT ![c] = @ \ {w}]
           /\ tried' = tried \cup {w}
           /\ pc' = [pc EXCEPT ![c] = IF todo[c] = {w} THEN "over" ELSE @]
           /\ \E t \in {{}} \cup {{x} : x \in Targets[w[1]]} :
                 bad' = [bad EXCEPT ![holder] = @ \cup t]
        OBVIOUS
  <2>2. w \in Write /\ w \in declared /\ w[1] \in Case
        BY DEF TypeOK, Listed, Write
  <2>3. \A t \in {{}} \cup {{x} : x \in Targets[w[1]]} : t \subseteq Target
        BY <2>2
  <2>4. bad' \in [Phase2 -> SUBSET Target]
    <3>1. PICK t \in {{}} \cup {{x} : x \in Targets[w[1]]} :
             bad' = [bad EXCEPT ![holder] = @ \cup t]
          BY <2>1
    <3>2. t \subseteq Target
          BY <2>3
    <3> QED BY <3>1, <3>2 DEF TypeOK
  <2>5. todo' \in [Case -> SUBSET Write] /\ tried' \subseteq declared'
        BY <2>1, <2>2 DEF TypeOK
  <2> QED BY <2>1, <2>4, <2>5 DEF TypeOK
<1>2. Listed'
      BY DEF TypeOK, Listed
<1>3. UndoneOnce'
      BY DEF TypeOK, UndoneOnce
<1>4. InOrder'
      BY DEF InOrder, Threw
<1>5. Asked'
      BY DEF Asked, Gathered, Fixtures
<1>6. Quiet'
      BY DEF Quiet, Gathered, Exits
<1>7. AfterIsLast'
      BY DEF AfterIsLast
<1>8. Kept'
      BY DEF Kept, Current
<1>9. Settled'
      BY DEF Settled, Decided, Threw
<1>10. AfterRuns'
      BY DEF AfterRuns
<1>11. Earned'
      BY DEF Earned, Decided
<1>12. VerdictIsEarned'
      BY DEF TypeOK, VerdictIsEarned, InOrder, Threw, Settled, Decided, Earned
<1> QED BY <1>1, <1>2, <1>3, <1>4, <1>5, <1>6, <1>7, <1>8, <1>9, <1>10, <1>11,
          <1>12 DEF IInv

LEMMA RaisesKeeps ==
    ASSUME IInv, NEW c \in Case, Raises(c)
    PROVE  IInv'
<1> USE BatchAssumption DEF Scenario, Case, Busy, batchVars, caseVars, faultVars,
       Raises, Unwind
<1> SUFFICES ASSUME TypeOK, Listed, UndoneOnce, InOrder, Asked, Quiet,
                    AfterIsLast, Kept, Settled, AfterRuns, Earned, VerdictIsEarned
             PROVE  IInv'
    BY DEF IInv
<1>1. TypeOK'
      BY DEF TypeOK
<1>2. Listed'
      BY DEF TypeOK, Listed
<1>3. UndoneOnce'
      BY DEF TypeOK, UndoneOnce
<1>4. InOrder'
      BY DEF TypeOK, InOrder, Threw
<1>5. Asked'
      BY DEF TypeOK, Asked, Gathered, Fixtures, InOrder
<1>6. Quiet'
      BY DEF TypeOK, Quiet
<1>7. AfterIsLast'
      BY DEF TypeOK, AfterIsLast
<1>8. Kept'
      BY DEF TypeOK, Kept
<1>9. Settled'
      BY DEF TypeOK, Settled, Decided, Threw
<1>10. AfterRuns'
      BY DEF TypeOK, AfterRuns
<1>11. Earned'
      BY DEF Earned, Decided, InOrder, Settled
<1>12. VerdictIsEarned'
      BY DEF TypeOK, VerdictIsEarned, InOrder, Threw, Settled, Decided, Earned
<1> QED BY <1>1, <1>2, <1>3, <1>4, <1>5, <1>6, <1>7, <1>8, <1>9, <1>10, <1>11,
          <1>12 DEF IInv

LEMMA CancelledKeeps ==
    ASSUME IInv, NEW c \in Case, Cancelled(c)
    PROVE  IInv'
<1> USE BatchAssumption DEF Scenario, Case, Busy, batchVars, caseVars, faultVars,
       Cancelled, WriteCutOff, Unwind
<1> SUFFICES ASSUME TypeOK, Listed, UndoneOnce, InOrder, Asked, Quiet,
                    AfterIsLast, Kept, Settled, AfterRuns, Earned, VerdictIsEarned
             PROVE  IInv'
    BY DEF IInv
<1>1. TypeOK'
  <2>1. c \in inside \cap Writers /\ pc[c] = "walk" => Current(c) \in Write
        BY DEF TypeOK, Listed, Write, Current
  <2>2. declared' \subseteq Write /\ tried' \subseteq declared' /\ lost' \subseteq declared'
        BY <2>1 DEF TypeOK
  <2> QED BY <2>2 DEF TypeOK
<1>2. Listed'
      BY DEF TypeOK, Listed
<1>3. UndoneOnce'
      BY DEF TypeOK, UndoneOnce
<1>4. InOrder'
      BY DEF TypeOK, InOrder, Threw
<1>5. Asked'
      BY DEF TypeOK, Asked, Gathered, Fixtures
<1>6. Quiet'
      BY DEF TypeOK, Quiet, Gathered, Asked
<1>7. AfterIsLast'
      BY DEF TypeOK, AfterIsLast
<1>8. Kept'
  <2> SUFFICES ASSUME faults = 0, ~struck, NEW w \in declared'
               PROVE  \/ w \in tried' \cup cleanups' \cup lost'
                      \/ \E k \in Case : w \in todo'[k]
                      \/ \E k \in inside' : pc'[k] = "walk" /\ w = Current(k)'
      BY DEF Kept, Current
  <2>1. CASE w = Current(c) /\ c \in inside
    <3>1. pc[c] = "walk"
          BY DEF TypeOK, Asked
    <3>2. w \in declared => c \in Writers
          BY <2>1 DEF TypeOK, Write, Current
    <3>3. c \in Writers
          BY <3>2
    <3> QED BY <2>1, <3>1, <3>3
  <2>2. CASE w \in declared /\ ~(w = Current(c) /\ c \in inside)
        BY <2>2 DEF TypeOK, Kept, Listed, Asked, Current
  <2> QED BY <2>1, <2>2
<1>9. Settled'
      BY DEF TypeOK, Settled, Decided, Threw
<1>10. AfterRuns'
      BY DEF TypeOK, AfterRuns
<1>11. Earned'
      BY DEF TypeOK, Earned, Decided, InOrder, Settled
<1>12. VerdictIsEarned'
      BY DEF TypeOK, VerdictIsEarned, InOrder, Threw, Settled, Decided, Earned
<1> QED BY <1>1, <1>2, <1>3, <1>4, <1>5, <1>6, <1>7, <1>8, <1>9, <1>10, <1>11,
          <1>12 DEF IInv

LEMMA HealthCheckKeeps ==
    ASSUME IInv, HealthCheck
    PROVE  IInv'
<1> USE BatchAssumption DEF Scenario, Case, Busy, batchVars, caseVars, faultVars,
       HealthCheck
<1> SUFFICES ASSUME TypeOK, Listed, UndoneOnce, InOrder, Asked, Quiet,
                    AfterIsLast, Kept, Settled, AfterRuns, Earned, VerdictIsEarned
             PROVE  IInv'
    BY DEF IInv
<1>1. TypeOK'
      BY DEF TypeOK, Stage
<1>2. Listed'
      BY DEF Listed
<1>3. UndoneOnce'
      BY DEF UndoneOnce
<1>4. InOrder'
      BY DEF InOrder
<1>5. Asked'
      BY DEF Asked
<1>6. Quiet'
      BY DEF Quiet, Gathered, Exits
<1>7. AfterIsLast'
      BY DEF AfterIsLast
<1>8. Kept'
      BY DEF Kept, Current
<1>9. Settled'
      BY DEF Settled, Decided
<1>10. AfterRuns'
      BY DEF AfterRuns
<1>11. Earned'
      BY DEF Earned, InOrder
<1>12. VerdictIsEarned'
      BY DEF TypeOK, VerdictIsEarned, InOrder, Threw, Settled, Decided, Earned
<1> QED BY <1>1, <1>2, <1>3, <1>4, <1>5, <1>6, <1>7, <1>8, <1>9, <1>10, <1>11,
          <1>12 DEF IInv

LEMMA StartFixtureKeeps ==
    ASSUME IInv, NEW c \in Case, StartFixture(c)
    PROVE  IInv'
<1> USE BatchAssumption DEF Scenario, Case, Busy, batchVars, caseVars, faultVars,
       StartFixture, Started, Fixtures
<1> SUFFICES ASSUME TypeOK, Listed, UndoneOnce, InOrder, Asked, Quiet,
                    AfterIsLast, Kept, Settled, AfterRuns, Earned, VerdictIsEarned
             PROVE  IInv'
    BY DEF IInv
<1>1. TypeOK'
      BY DEF TypeOK
<1>2. Listed'
      BY DEF TypeOK, Listed
<1>3. UndoneOnce'
      BY DEF UndoneOnce
<1>4. InOrder'
      BY DEF InOrder
<1>5. Asked'
      BY DEF Asked
<1>6. Quiet'
      BY DEF Quiet, Gathered, Exits
<1>7. AfterIsLast'
      BY DEF AfterIsLast
<1>8. Kept'
      BY DEF TypeOK, Kept, Listed, InOrder, AfterIsLast, Current
<1>9. Settled'
      BY DEF Settled, Decided, Threw
<1>10. AfterRuns'
      BY DEF AfterRuns
<1>11. Earned'
      BY DEF Earned, Decided
<1>12. VerdictIsEarned'
      BY DEF TypeOK, VerdictIsEarned, InOrder, Threw, Settled, Decided, Earned
<1> QED BY <1>1, <1>2, <1>3, <1>4, <1>5, <1>6, <1>7, <1>8, <1>9, <1>10, <1>11,
          <1>12 DEF IInv

LEMMA BeforeDoneKeeps ==
    ASSUME IInv, BeforeDone
    PROVE  IInv'
<1> USE BatchAssumption DEF Scenario, Case, Busy, batchVars, caseVars, faultVars,
       BeforeDone
<1> SUFFICES ASSUME TypeOK, Listed, UndoneOnce, InOrder, Asked, Quiet,
                    AfterIsLast, Kept, Settled, AfterRuns, Earned, VerdictIsEarned
             PROVE  IInv'
    BY DEF IInv
<1>1. TypeOK'
      BY DEF TypeOK, Stage
<1>2. Listed'
      BY DEF Listed
<1>3. UndoneOnce'
      BY DEF UndoneOnce
<1>4. InOrder'
      BY DEF InOrder
<1>5. Asked'
      BY DEF Asked
<1>6. Quiet'
      BY DEF Quiet, Gathered, Exits
<1>7. AfterIsLast'
      BY DEF AfterIsLast
<1>8. Kept'
      BY DEF Kept, Current
<1>9. Settled'
      BY DEF Settled, Decided
<1>10. AfterRuns'
      BY DEF AfterRuns
<1>11. Earned'
      BY DEF Earned
<1>12. VerdictIsEarned'
      BY DEF TypeOK, VerdictIsEarned, InOrder, Threw, Settled, Decided, Earned
<1> QED BY <1>1, <1>2, <1>3, <1>4, <1>5, <1>6, <1>7, <1>8, <1>9, <1>10, <1>11,
          <1>12 DEF IInv

LEMMA EmitPhase1Keeps ==
    ASSUME IInv, EmitPhase1
    PROVE  IInv'
<1> USE BatchAssumption DEF Scenario, Case, Busy, batchVars, caseVars, faultVars,
       EmitPhase1, GoTo
<1> SUFFICES ASSUME TypeOK, Listed, UndoneOnce, InOrder, Asked, Quiet,
                    AfterIsLast, Kept, Settled, AfterRuns, Earned, VerdictIsEarned
             PROVE  IInv'
    BY DEF IInv
<1>1. TypeOK'
      BY DEF TypeOK, Stage
<1>2. Listed'
      BY DEF Listed
<1>3. UndoneOnce'
      BY DEF UndoneOnce
<1>4. InOrder'
      BY DEF InOrder
<1>5. Asked'
      BY DEF Asked
<1>6. Quiet'
      BY DEF Quiet, Gathered, Exits
<1>7. AfterIsLast'
      BY DEF AfterIsLast
<1>8. Kept'
      BY DEF Kept, Current
<1>9. Settled'
      BY DEF Settled, Decided
<1>10. AfterRuns'
      BY DEF AfterRuns
<1>11. Earned'
      BY DEF Earned
<1>12. VerdictIsEarned'
      BY DEF TypeOK, VerdictIsEarned, InOrder, Threw, Settled, Decided, Earned
<1> QED BY <1>1, <1>2, <1>3, <1>4, <1>5, <1>6, <1>7, <1>8, <1>9, <1>10, <1>11,
          <1>12 DEF IInv

LEMMA StartPhase2Keeps ==
    ASSUME IInv, StartPhase2
    PROVE  IInv'
<1> USE BatchAssumption DEF Scenario, Case, Busy, batchVars, caseVars, faultVars,
       StartPhase2, RunPhase, GoTo, Started, Blocked
<1> SUFFICES ASSUME TypeOK, Listed, UndoneOnce, InOrder, Asked, Quiet,
                    AfterIsLast, Kept, Settled, AfterRuns, Earned, VerdictIsEarned
             PROVE  IInv'
    BY DEF IInv
<1>1. TypeOK'
      BY DEF TypeOK, Stage
<1>2. Listed'
  <2>1. cleanups' # {} => UNCHANGED cleanups /\ \A k \in Case : pc'[k] = pc[k]
        BY DEF TypeOK
  <2>2. \A k \in Case : pc[k] = "undo" => pc'[k] = "undo"
        BY DEF TypeOK, InOrder
  <2>3. \A k \in inside : pc'[k] = pc[k]
        BY DEF TypeOK, InOrder
  <2>4. cleanups' \subseteq declared'
        BY <2>1 DEF Listed
  <2>5. cleanups' # {} => \E k \in Case : pc'[k] = "walk"
        BY <2>1 DEF Listed
  <2> QED BY <2>2, <2>3, <2>4, <2>5 DEF Listed, TypeOK
<1>3. UndoneOnce'
      BY DEF UndoneOnce
<1>4. InOrder'
      BY DEF InOrder
<1>5. Asked'
      BY DEF Asked
<1>6. Quiet'
      BY DEF Quiet, Gathered, Exits, InOrder
<1>7. AfterIsLast'
      BY DEF AfterIsLast
<1>8. Kept'
      BY DEF TypeOK, Kept, Listed, InOrder, Current
<1>9. Settled'
      BY DEF Settled, Decided, InOrder
<1>10. AfterRuns'
      BY DEF AfterRuns
<1>11. Earned'
      BY DEF Earned
<1>12. VerdictIsEarned'
      BY DEF TypeOK, VerdictIsEarned, InOrder, Threw, Settled, Decided, Earned
<1> QED BY <1>1, <1>2, <1>3, <1>4, <1>5, <1>6, <1>7, <1>8, <1>9, <1>10, <1>11,
          <1>12 DEF IInv

LEMMA StartPhase3Keeps ==
    ASSUME IInv, StartPhase3
    PROVE  IInv'
<1> USE BatchAssumption DEF Scenario, Case, Busy, batchVars, caseVars, faultVars,
       StartPhase3, RunPhase, GoTo, Started, Blocked
<1> SUFFICES ASSUME TypeOK, Listed, UndoneOnce, InOrder, Asked, Quiet,
                    AfterIsLast, Kept, Settled, AfterRuns, Earned, VerdictIsEarned
             PROVE  IInv'
    BY DEF IInv
<1>1. TypeOK'
      BY DEF TypeOK, Stage
<1>2. Listed'
  <2>1. cleanups' # {} => UNCHANGED cleanups /\ \A k \in Case : pc'[k] = pc[k]
        BY DEF TypeOK
  <2>2. \A k \in Case : pc[k] = "undo" => pc'[k] = "undo"
        BY DEF TypeOK, InOrder
  <2>3. \A k \in inside : pc'[k] = pc[k]
        BY DEF TypeOK, InOrder
  <2>4. cleanups' \subseteq declared'
        BY <2>1 DEF Listed
  <2>5. cleanups' # {} => \E k \in Case : pc'[k] = "walk"
        BY <2>1 DEF Listed
  <2> QED BY <2>2, <2>3, <2>4, <2>5 DEF Listed, TypeOK
<1>3. UndoneOnce'
      BY DEF UndoneOnce
<1>4. InOrder'
      BY DEF InOrder, Threw
<1>5. Asked'
      BY DEF Asked
<1>6. Quiet'
      BY DEF Quiet, Gathered, Exits, InOrder
<1>7. AfterIsLast'
      BY DEF AfterIsLast
<1>8. Kept'
      BY DEF TypeOK, Kept, Listed, InOrder, Current
<1>9. Settled'
      BY DEF Settled, Decided, InOrder
<1>10. AfterRuns'
      BY DEF AfterRuns
<1>11. Earned'
      BY DEF Earned
<1>12. VerdictIsEarned'
      BY DEF TypeOK, VerdictIsEarned, InOrder, Threw, Settled, Decided, Earned
<1> QED BY <1>1, <1>2, <1>3, <1>4, <1>5, <1>6, <1>7, <1>8, <1>9, <1>10, <1>11,
          <1>12 DEF IInv

LEMMA GatherDoneKeeps ==
    ASSUME IInv, GatherDone
    PROVE  IInv'
<1> USE BatchAssumption DEF Scenario, Case, Busy, batchVars, caseVars, faultVars,
       GatherDone, Gathered, Threw
<1> SUFFICES ASSUME TypeOK, Listed, UndoneOnce, InOrder, Asked, Quiet,
                    AfterIsLast, Kept, Settled, AfterRuns, Earned, VerdictIsEarned
             PROVE  IInv'
    BY DEF IInv
<1>1. TypeOK'
      BY DEF TypeOK, Stage
<1>2. Listed'
      BY DEF Listed
<1>3. UndoneOnce'
      BY DEF UndoneOnce
<1>4. InOrder'
      BY DEF InOrder
<1>5. Asked'
      BY DEF Asked
<1>6. Quiet'
      BY DEF Quiet, Exits
<1>7. AfterIsLast'
      BY DEF AfterIsLast, InOrder
<1>8. Kept'
      BY DEF Kept, Current
<1>9. Settled'
      BY DEF Settled, Decided, InOrder
<1>10. AfterRuns'
      BY DEF AfterRuns
<1>11. Earned'
      BY DEF Earned
<1>12. VerdictIsEarned'
      BY DEF TypeOK, VerdictIsEarned, InOrder, Settled, Decided, Earned
<1> QED BY <1>1, <1>2, <1>3, <1>4, <1>5, <1>6, <1>7, <1>8, <1>9, <1>10, <1>11,
          <1>12 DEF IInv

LEMMA GatherRaisesKeeps ==
    ASSUME IInv, GatherRaises
    PROVE  IInv'
<1> USE BatchAssumption DEF Scenario, Case, Busy, batchVars, caseVars, faultVars,
       GatherRaises, Gathered, Threw
<1> SUFFICES ASSUME TypeOK, Listed, UndoneOnce, InOrder, Asked, Quiet,
                    AfterIsLast, Kept, Settled, AfterRuns, Earned, VerdictIsEarned
             PROVE  IInv'
    BY DEF IInv
<1>1. TypeOK'
      BY DEF TypeOK, Stage
<1>2. Listed'
      BY DEF Listed
<1>3. UndoneOnce'
      BY DEF UndoneOnce
<1>4. InOrder'
      BY DEF InOrder
<1>5. Asked'
      BY DEF Asked
<1>6. Quiet'
      BY DEF Quiet, Exits
<1>7. AfterIsLast'
      BY DEF AfterIsLast, Quiet, Exits
<1>8. Kept'
      BY DEF Kept, Current
<1>9. Settled'
      BY DEF Settled, Decided
<1>10. AfterRuns'
      BY DEF AfterRuns
<1>11. Earned'
      BY DEF Earned
<1>12. VerdictIsEarned'
      BY DEF TypeOK, VerdictIsEarned, InOrder, Settled, Decided, Earned
<1> QED BY <1>1, <1>2, <1>3, <1>4, <1>5, <1>6, <1>7, <1>8, <1>9, <1>10, <1>11,
          <1>12 DEF IInv

LEMMA PhasesDoneKeeps ==
    ASSUME IInv, PhasesDone
    PROVE  IInv'
<1> USE BatchAssumption DEF Scenario, Case, Busy, batchVars, caseVars, faultVars,
       PhasesDone, GoTo
<1> SUFFICES ASSUME TypeOK, Listed, UndoneOnce, InOrder, Asked, Quiet,
                    AfterIsLast, Kept, Settled, AfterRuns, Earned, VerdictIsEarned
             PROVE  IInv'
    BY DEF IInv
<1>1. TypeOK'
      BY DEF TypeOK, Write, Stage
<1>2. Listed'
      BY DEF TypeOK, Listed
<1>3. UndoneOnce'
      BY DEF TypeOK, UndoneOnce, Listed
<1>4. InOrder'
      BY DEF TypeOK, InOrder, Threw
<1>5. Asked'
      BY DEF TypeOK, Asked, Gathered, Fixtures, InOrder, Threw
<1>6. Quiet'
       BY DEF TypeOK, Quiet, Gathered, Threw, Exits, InOrder, Asked, Fixtures,
         Settled, Decided
<1>7. AfterIsLast'
      BY DEF AfterIsLast, Settled, Decided
<1>8. Kept'
       BY DEF TypeOK, Kept, Current
<1>9. Settled'
      BY DEF TypeOK, Settled, Decided, Threw, InOrder
<1>10. AfterRuns'
       BY DEF TypeOK, AfterRuns, InOrder, Threw, Asked, Gathered, Fixtures, Settled,
         Decided
<1>11. Earned'
      BY DEF TypeOK, Earned, Decided, InOrder, Threw, Settled
<1>12. VerdictIsEarned'
      BY DEF TypeOK, VerdictIsEarned, InOrder, Threw, Settled, Decided, Earned
<1> QED BY <1>1, <1>2, <1>3, <1>4, <1>5, <1>6, <1>7, <1>8, <1>9, <1>10, <1>11,
          <1>12 DEF IInv

LEMMA AfterDoneKeeps ==
    ASSUME IInv, AfterDone
    PROVE  IInv'
<1> USE BatchAssumption DEF Scenario, Case, Busy, batchVars, caseVars, faultVars,
       AfterDone, GoTo
<1> SUFFICES ASSUME TypeOK, Listed, UndoneOnce, InOrder, Asked, Quiet,
                    AfterIsLast, Kept, Settled, AfterRuns, Earned, VerdictIsEarned
             PROVE  IInv'
    BY DEF IInv
<1>1. TypeOK'
      BY DEF TypeOK, Stage
<1>2. Listed'
      BY DEF Listed
<1>3. UndoneOnce'
      BY DEF UndoneOnce
<1>4. InOrder'
      BY DEF InOrder
<1>5. Asked'
      BY DEF Asked
<1>6. Quiet'
      BY DEF Quiet, Gathered, Exits
<1>7. AfterIsLast'
      BY DEF AfterIsLast
<1>8. Kept'
      BY DEF Kept, Current
<1>9. Settled'
      BY DEF Settled, Decided, Threw
<1>10. AfterRuns'
      BY DEF AfterRuns
<1>11. Earned'
      BY DEF TypeOK, Earned, Decided
<1>12. VerdictIsEarned'
      BY DEF TypeOK, VerdictIsEarned, InOrder, Threw, Settled, Decided, Earned
<1> QED BY <1>1, <1>2, <1>3, <1>4, <1>5, <1>6, <1>7, <1>8, <1>9, <1>10, <1>11,
          <1>12 DEF IInv

LEMMA CloseKeeps ==
    ASSUME IInv, Close
    PROVE  IInv'
<1> USE BatchAssumption DEF Scenario, Case, Busy, batchVars, caseVars, faultVars,
       Close, Verdict
<1> SUFFICES ASSUME TypeOK, Listed, UndoneOnce, InOrder, Asked, Quiet,
                    AfterIsLast, Kept, Settled, AfterRuns, Earned, VerdictIsEarned
             PROVE  IInv'
    BY DEF IInv
<1>1. TypeOK'
      BY DEF TypeOK, Stage
<1>2. Listed'
      BY DEF Listed
<1>3. UndoneOnce'
      BY DEF UndoneOnce
<1>4. InOrder'
      BY DEF InOrder
<1>5. Asked'
      BY DEF Asked
<1>6. Quiet'
      BY DEF Quiet, Gathered, Exits
<1>7. AfterIsLast'
      BY DEF AfterIsLast
<1>8. Kept'
      BY DEF Kept, Current
<1>9. Settled'
      BY DEF Settled, Decided
<1>10. AfterRuns'
      BY DEF AfterRuns, Settled
<1>11. Earned'
      BY DEF Earned, Decided, Settled
<1>12. VerdictIsEarned'
      BY DEF TypeOK, VerdictIsEarned, InOrder, Threw, Settled, Decided, Earned
<1> QED BY <1>1, <1>2, <1>3, <1>4, <1>5, <1>6, <1>7, <1>8, <1>9, <1>10, <1>11,
          <1>12 DEF IInv

LEMMA CancelKeeps ==
    ASSUME IInv, Cancel
    PROVE  IInv'
<1> USE BatchAssumption DEF Scenario, Case, Busy, batchVars, caseVars, faultVars,
       Cancel, Awaited, Gathered, Fixtures, Threw
<1> SUFFICES ASSUME TypeOK, Listed, UndoneOnce, InOrder, Asked, Quiet,
                    AfterIsLast, Kept, Settled, AfterRuns, Earned, VerdictIsEarned
             PROVE  IInv'
    BY DEF IInv
<1>1. TypeOK'
      BY DEF TypeOK
<1>2. Listed'
      BY DEF Listed
<1>3. UndoneOnce'
      BY DEF UndoneOnce
<1>4. InOrder'
      BY DEF InOrder
<1>5. Asked'
  <2>1. hit' \subseteq Gathered' \cup Fixtures'
        BY DEF Asked
  <2>2. \A k \in hit' : pc'[k] = "undo" => struck'
        BY DEF Asked
  <2>3. cutAt' = stage' /\ cancels' > 0 /\ asked'
        BY DEF TypeOK
  <2> QED BY <2>1, <2>2, <2>3 DEF Asked
<1>6. Quiet'
      BY DEF TypeOK, Quiet, Exits
<1>7. AfterIsLast'
      BY DEF TypeOK, AfterIsLast
<1>8. Kept'
      BY DEF Kept, Current
<1>9. Settled'
      BY DEF Settled, Decided
<1>10. AfterRuns'
      BY DEF AfterRuns
<1>11. Earned'
      BY DEF Earned, Decided
<1>12. VerdictIsEarned'
      BY DEF TypeOK, VerdictIsEarned, InOrder, Settled, Decided, Earned
<1> QED BY <1>1, <1>2, <1>3, <1>4, <1>5, <1>6, <1>7, <1>8, <1>9, <1>10, <1>11,
          <1>12 DEF IInv

LEMMA RunCancelledKeeps ==
    ASSUME IInv, RunCancelled
    PROVE  IInv'
<1> USE BatchAssumption DEF Scenario, Case, Busy, batchVars, caseVars, faultVars,
       RunCancelled, Gathered, Fixtures, Threw
<1> SUFFICES ASSUME TypeOK, Listed, UndoneOnce, InOrder, Asked, Quiet,
                    AfterIsLast, Kept, Settled, AfterRuns, Earned, VerdictIsEarned
             PROVE  IInv'
    BY DEF IInv
<1>1. TypeOK'
  <2>1. ending' \in {"none", "cancelled", "error"} /\ stage' \in Stage
        BY DEF TypeOK, Stage
  <2>2. verdict' \in {"none", "passed", "failed", "cancelled", "error"}
        BY DEF TypeOK
  <2> QED BY <2>1, <2>2 DEF TypeOK
<1>2. Listed'
      BY DEF Listed
<1>3. UndoneOnce'
      BY DEF UndoneOnce
<1>4. InOrder'
      BY DEF InOrder
<1>5. Asked'
      BY DEF Asked
<1>6. Quiet'
      BY DEF Quiet, Asked
<1>7. AfterIsLast'
  <2>1. cancels > 0
        BY DEF Asked
  <2>2. ASSUME faults = 0, NEW s \in Scenario
        PROVE  pc[s] # "walk"
    <3>1. CASE stage \in {"after", "closing", "over"}
          BY <3>1, <2>2 DEF AfterIsLast
    <3>2. CASE stage \in {"health", "before", "phase1", "phase2"}
          BY <3>2 DEF InOrder
    <3>3. CASE stage \in {"gather2", "phase3", "gather3"}
      <4>1. s \in Gathered => pc[s] # "walk"
            BY <2>2 DEF Quiet
      <4> QED BY <3>3, <4>1 DEF InOrder
    <3>4. CASE stage = "ended"
          BY <3>4 DEF Settled, Decided
    <3> QED BY <3>1, <3>2, <3>3, <3>4 DEF TypeOK, Stage
  <2> QED BY <2>1, <2>2 DEF AfterIsLast
<1>8. Kept'
      BY DEF Kept, Current
<1>9. Settled'
      BY DEF Settled, Decided
<1>10. AfterRuns'
  <2>1. CASE stage \in {"phase2", "gather2", "phase3", "gather3", "ended"}
        BY <2>1 DEF AfterRuns
  <2>2. CASE stage \in {"health", "before", "phase1"}
    <3>1. \A s \in Scenario : status'[s] = "none" /\ pc'[s] = "idle"
          BY <2>2 DEF InOrder
    <3> QED BY <3>1 DEF AfterRuns
  <2>3. CASE stage \in {"after", "closing"}
    <3>1. cutAt' \in {"after", "closing"}
          BY <2>3 DEF Asked
    <3> QED BY <3>1 DEF AfterRuns
  <2>4. CASE stage = "over"
        BY <2>4 DEF AfterRuns
  <2> QED BY <2>1, <2>2, <2>3, <2>4 DEF TypeOK, Stage
<1>11. Earned'
      BY DEF Earned, Decided
<1>12. VerdictIsEarned'
      BY DEF TypeOK, VerdictIsEarned, InOrder, Settled, Decided, Earned
<1> QED BY <1>1, <1>2, <1>3, <1>4, <1>5, <1>6, <1>7, <1>8, <1>9, <1>10, <1>11,
          <1>12 DEF IInv

LEMMA InitIInv == Init => IInv
<1> SUFFICES ASSUME Init PROVE IInv
    OBVIOUS
<1> USE BatchAssumption DEF Init, Scenario, Case, Busy
<1>1. TypeOK
  <2>1. /\ pc \in [Case -> {"idle", "walk", "undo", "over"}]
        /\ status \in [Case -> {"none", "passed", "failed", "blocked", "error", "cancelled"}]
        /\ steps \in [Case -> 0 .. MaxStep] /\ todo \in [Case -> SUBSET Write]
        OBVIOUS
  <2>2. bad \in [Phase2 -> SUBSET Target]
        OBVIOUS
  <2>3. cancels \in 0 .. MaxCancel /\ faults \in 0 .. MaxFault
        OBVIOUS
  <2> QED BY <2>1, <2>2, <2>3 DEF TypeOK, Stage
<1>2. Listed /\ UndoneOnce /\ Kept
      BY DEF Listed, UndoneOnce, Kept
<1>3. InOrder /\ Asked /\ AfterIsLast /\ AfterRuns
      BY DEF InOrder, Asked, AfterIsLast, AfterRuns
<1>4. Quiet
      BY DEF Quiet, Gathered, Exits
<1>5. Settled
      BY DEF Settled, Decided
<1>6. Earned /\ VerdictIsEarned
      BY DEF Earned, Decided, VerdictIsEarned
<1> QED BY <1>1, <1>2, <1>3, <1>4, <1>5, <1>6 DEF IInv

LEMMA StutterKeeps == IInv /\ UNCHANGED vars => IInv'
<1> USE DEF vars, batchVars, caseVars, faultVars
<1> SUFFICES ASSUME IInv, UNCHANGED vars PROVE IInv'
    OBVIOUS
<1>1. TypeOK' /\ Listed' /\ UndoneOnce'
      BY DEF IInv, TypeOK, Busy, Listed, UndoneOnce
<1>2. InOrder' /\ Asked'
      BY DEF IInv, InOrder, Busy, Threw, Asked, Gathered, Fixtures
<1>3. Quiet' /\ AfterIsLast' /\ Kept'
      BY DEF IInv, Quiet, Gathered, Exits, AfterIsLast, Kept, Current
<1>4. Settled' /\ AfterRuns' /\ Earned' /\ VerdictIsEarned'
      BY DEF IInv, Settled, Decided, Busy, Threw, AfterRuns, Earned, VerdictIsEarned
<1> QED BY <1>1, <1>2, <1>3, <1>4 DEF IInv

LEMMA NextKeeps == IInv /\ Next => IInv'
<1> SUFFICES ASSUME IInv, Next PROVE IInv'
    OBVIOUS
<1>1. CASE BatchStep
  <2>1. CASE \E h \in Before \cup After : StartFixture(h)
        BY <2>1, StartFixtureKeeps DEF Case
  <2> QED BY <1>1, <2>1, HealthCheckKeeps, BeforeDoneKeeps, EmitPhase1Keeps,
             StartPhase2Keeps, StartPhase3Keeps, GatherDoneKeeps, GatherRaisesKeeps,
             PhasesDoneKeeps, AfterDoneKeeps, CloseKeeps, RunCancelledKeeps DEF BatchStep
<1>2. ASSUME NEW c \in Case, CaseStep(c) PROVE IInv'
      BY <1>2, DispatchKeeps, CommitsKeeps, StepReturnsKeeps, WalkEndsKeeps, UndoReturnsKeeps,
         CancelledKeeps DEF CaseStep
<1> QED BY <1>1, <1>2, CancelKeeps, RaisesKeeps DEF Next

THEOREM IInvHolds == Spec => []IInv
<1>1. IInv /\ [Next]_vars => IInv'
      BY NextKeeps, StutterKeeps
<1> QED BY InitIInv, <1>1, PTL DEF Spec

-----------------------------------------------------------------------------
(* The theorems.                                                           *)

\* The state of a run, its runner and its cases is always well formed.
THEOREM TypesHold == Spec => []TypeOK
<1>1. IInv => TypeOK
      BY DEF IInv
<1> QED BY <1>1, IInvHolds, PTL

\* No undo is executed twice, or by two of the cases that share the runner.
THEOREM UndoneOnceHolds == Spec => []UndoneOnce
<1>1. IInv => UndoneOnce
      BY DEF IInv
<1> QED BY <1>1, IInvHolds, PTL

\* When no scenario or fixture runs any more, the undo of every write in a database
\* was executed, unless the step of the write never came back with its success, one
\* of the cases raised, or a cancel met the undos.
THEOREM WritesUndoneHolds == Spec => []WritesUndone
<1>1. IInv => WritesUndone
  <2> SUFFICES ASSUME IInv, faults = 0, ~struck, \A c \in Case : ~Busy(c)
               PROVE  declared \ lost \subseteq tried
      BY DEF WritesUndone
  <2>1. cleanups = {} /\ \A c \in Case : todo[c] = {}
        BY DEF IInv, Listed, Busy
  <2>2. inside = {}
        BY DEF IInv, TypeOK, Busy
  <2>3. Kept
        BY DEF IInv
  <2> QED BY <2>1, <2>2, <2>3 DEF Kept
<1> QED BY <1>1, IInvHolds, PTL

\* A run that passed had every scenario of its phases run and pass, and every
\* before-fixture.
THEOREM VerdictIsEarnedHolds == Spec => []VerdictIsEarned
<1>1. IInv => VerdictIsEarned
      BY DEF IInv
<1> QED BY <1>1, IInvHolds, PTL

\* The after-fixtures run, and run last.
THEOREM AfterFixturesHold == Spec => []AfterFixtures
<1>1. IInv => AfterFixtures
      BY DEF IInv, AfterFixtures
<1> QED BY <1>1, IInvHolds, PTL


============================================================================
