-------------------------- MODULE EvaluationProofs --------------------------
(***************************************************************************)
(* What an evaluation may rely on, for any time limit and any number of    *)
(* helper processes.                                                       *)
(***************************************************************************)
EXTENDS Evaluation, TLAPS

USE DEF Killed, Signalled

\* The steps of the rest of the evaluation leave the runner alone, but for the
\* call of the checker and the death of the evaluator.
RunnerNext ==
    \/ Call \/ MainNext \/ Interrupted \/ TimerNext
    \/ Tick \/ Fork \/ HelperExits
    \/ \E code \in OwnCodes : LeaderExits(code)

Again ==
    /\ main = "returned"
    /\ main' = "idle"
    /\ UNCHANGED <<timer, cancelled, expired, raised, processVars, clock, outcome>>

Death ==
    /\ timer' = "none"
    /\ UNCHANGED <<main, cancelled, expired, raised, processVars, clock, outcome>>

\* The exit code of a container is never that of the runner's kill.
WorkloadOwn == workload \in OwnCodes

LEMMA StepOfRunner ==
    ASSUME WorkloadOwn, [EvaluationNext]_evaluationVars
    PROVE  RunnerNext \/ Again \/ Death \/ UNCHANGED runnerVars
<1> USE DEF runnerVars, threadVars, processVars
<1>1. CASE UNCHANGED evaluationVars
  BY <1>1 DEF evaluationVars
<1>2. CASE Evaluator
  BY <1>2 DEF Evaluator, CallRunner, RunnerStep, JudgeSolver, JudgeChecker,
              PassException, Cleanup, CleanupFails, RunnerNext, Again
<1>3. CASE TimerStep \/ Time \/ InterruptRunner \/ Dies
  BY <1>3 DEF TimerStep, Time, InterruptRunner, Dies, RunnerNext, Death
<1>4. CASE Write \/ CandidateForks \/ ChildExits \/ ChildExitsAlone
  BY <1>4 DEF Write, CandidateForks, ChildExits, ChildExitsAlone, RunnerNext
<1>5. CASE Create \/ Start \/ AdapterReturns \/ AdapterFails
  BY <1>5 DEF Create, Start, AdapterReturns, AdapterFails, RunnerNext,
              WorkloadOwn, OwnCodes
<1>6. ASSUME NEW k \in Kinds, Ends(k) \/ InnerTimeout(k)
      PROVE  UNCHANGED runnerVars
  BY <1>6 DEF Ends, InnerTimeout
<1> QED
  BY <1>1, <1>2, <1>3, <1>4, <1>5, <1>6 DEF EvaluationNext, World

LEMMA WorkloadStep ==
    ASSUME WorkloadOwn, [EvaluationNext]_evaluationVars
    PROVE  WorkloadOwn'
<1> USE DEF WorkloadOwn, OwnCodes
<1>1. CASE UNCHANGED workload
  BY <1>1
<1>2. ASSUME NEW k \in Kinds, Ends(k) \/ InnerTimeout(k)
      PROVE  WorkloadOwn'
  BY <1>2 DEF Ends, InnerTimeout, Shown
<1>3. CASE Evaluator \/ TimerStep \/ Time
  BY <1>1, <1>3 DEF Evaluator, CallRunner, RunnerStep, JudgeSolver, JudgeChecker,
        PassException, Cleanup, CleanupFails, TimerStep, Time, judgeVars,
        containerVars
<1>4. CASE InterruptRunner \/ Dies \/ Write \/ CandidateForks \/ ChildExits
           \/ ChildExitsAlone \/ Create \/ Start \/ AdapterReturns \/ AdapterFails
  BY <1>1, <1>4 DEF InterruptRunner, Dies, Write, CandidateForks, ChildExits,
        ChildExitsAlone, Create, Start, AdapterReturns, AdapterFails, judgeVars,
        containerVars
<1>5. CASE UNCHANGED evaluationVars
  BY <1>1, <1>5 DEF evaluationVars, judgeVars, containerVars
<1> QED
  BY <1>2, <1>3, <1>4, <1>5 DEF EvaluationNext, World

-----------------------------------------------------------------------------
\* Everything the proofs of single steps need to see.
LEMMA RunnerInvInit == RunnerInit => RunnerInv
<1> SUFFICES ASSUME RunnerInit PROVE RunnerInv
  OBVIOUS
<1> USE DEF RunnerInit
<1>1. clock \in 0 .. MaxClock
  BY RunnerAssumption
<1>2. outcome \in [returncode : {SIGKILL} \cup OwnCodes, seconds : 0 .. MaxClock,
                   timed_out : BOOLEAN, error : BOOLEAN]
  BY RunnerAssumption DEF NoOutcome, OwnCodes
<1>3. RunnerTypeOK
  BY <1>1, <1>2 DEF RunnerTypeOK, OwnCodes
<1> QED
  BY <1>3 DEF RunnerInv, NoSurvivors, TimedOutHonest, Alive, Returning

LEMMA MainInv == RunnerInv /\ MainNext => RunnerInv'
<1> SUFFICES ASSUME RunnerInv, MainNext PROVE RunnerInv'
  OBVIOUS
<1> USE RunnerAssumption DEF RunnerInv, RunnerTypeOK, NoSurvivors, TimedOutHonest,
        Alive, Returning, OwnCodes, SIGKILL, OwnSignal, processVars
<1>1. CASE Spawn
  BY <1>1 DEF Spawn
<1>2. CASE SpawnFails
  <2>1. outcome' = [returncode |-> 0, seconds |-> clock, timed_out |-> FALSE,
                    error |-> TRUE]
    BY <1>2 DEF SpawnFails
  <2>2. outcome' \in [returncode : {SIGKILL} \cup OwnCodes, seconds : 0 .. MaxClock,
                     timed_out : BOOLEAN, error : BOOLEAN]
    <3>1. clock \in 0 .. MaxClock /\ 0 \in {SIGKILL} \cup OwnCodes
      OBVIOUS
    <3> HIDE DEF OwnCodes, RunnerInv, RunnerTypeOK, SIGKILL
    <3> QED BY <2>1, <3>1
  <2>3. RunnerTypeOK'
    BY <1>2, <2>2 DEF SpawnFails
  <2> QED
    <3>1. ~ outcome'.timed_out /\ outcome'.error
      BY <2>1, Zenon
    <3> QED BY <1>2, <3>1, <2>3 DEF SpawnFails
<1>3. CASE Arm
  BY <1>3 DEF Arm
<1>4. CASE WaitReturns
  BY <1>4 DEF WaitReturns
<1>5. CASE Cancel
  BY <1>5 DEF Cancel
<1>6. CASE Join
  BY <1>6 DEF Join
<1>7. CASE Kill
  BY <1>7 DEF Kill, KillGroup
<1>8. CASE Reap
  BY <1>8 DEF Reap
<1>9. CASE Result
  <2>1. /\ outcome' = [returncode |-> returncode, seconds |-> clock,
                       timed_out |-> TimedOut, error |-> FALSE]
        /\ TimedOut = (expired \/ clock > Limit)
    BY <1>9 DEF Result, TimedOut
  <2>2. outcome' \in [returncode : {SIGKILL} \cup OwnCodes, seconds : 0 .. MaxClock,
                     timed_out : BOOLEAN, error : BOOLEAN]
    <3>1. clock \in 0 .. MaxClock /\ returncode \in {SIGKILL} \cup OwnCodes
      OBVIOUS
    <3> HIDE DEF OwnCodes, RunnerInv, RunnerTypeOK, SIGKILL
    <3> QED BY <2>1, <3>1
  <2>4. RunnerTypeOK'
    BY <1>9, <2>2 DEF Result
  <2>3. TimedOutHonest'
    <3>1. /\ outcome'.returncode = returncode
          /\ outcome'.seconds = clock
          /\ outcome'.timed_out <=> (expired \/ clock > Limit)
      BY <2>1, Zenon
    <3> QED BY <1>9, <3>1 DEF Result
  <2> QED
    BY <1>9, <2>3, <2>4 DEF Result
<1> QED
  BY <1>1, <1>2, <1>3, <1>4, <1>5, <1>6, <1>7, <1>8, <1>9 DEF MainNext

LEMMA OthersInv ==
    RunnerInv /\ (Call \/ Again \/ Death \/ Interrupted \/ TimerNext) => RunnerInv'
<1> SUFFICES ASSUME RunnerInv, Call \/ Again \/ Death \/ Interrupted \/ TimerNext
             PROVE  RunnerInv'
  OBVIOUS
<1> USE RunnerAssumption DEF RunnerInv, RunnerTypeOK, NoSurvivors, TimedOutHonest,
        Alive, Returning, OwnCodes, SIGKILL, OwnSignal, processVars
<1>1. CASE Call
  <2>1. clock' \in 0 .. MaxClock
    BY <1>1 DEF Call
  <2>2. cancelled' \in BOOLEAN /\ expired' \in BOOLEAN /\ ~ expired'
    <3> HIDE DEF RunnerInv
    <3> QED BY <1>1, Zenon DEF Call
  <2>3. RunnerTypeOK'
    BY <1>1, <2>1, <2>2 DEF Call
  <2> QED
    BY <1>1, <2>2, <2>3 DEF Call
<1>2. CASE Again
  BY <1>2 DEF Again
<1>3. CASE Death
  BY <1>3 DEF Death
<1>4. CASE Interrupted
  BY <1>4 DEF Interrupted
<1>5. CASE Wakes
  BY <1>5 DEF Wakes
<1>6. CASE Expire
  BY <1>6 DEF Expire
<1>7. CASE ExpireKills
  BY <1>7 DEF ExpireKills, KillGroup
<1> QED
  BY <1>1, <1>2, <1>3, <1>4, <1>5, <1>6, <1>7 DEF TimerNext

LEMMA SystemInv ==
    RunnerInv /\ (Tick \/ Fork \/ HelperExits \/ \E code \in OwnCodes : LeaderExits(code))
      => RunnerInv'
<1> SUFFICES ASSUME RunnerInv,
                    \/ Tick \/ Fork \/ HelperExits
                    \/ \E code \in OwnCodes : LeaderExits(code)
             PROVE  RunnerInv'
  OBVIOUS
<1> USE RunnerAssumption DEF RunnerInv, RunnerTypeOK, NoSurvivors, TimedOutHonest,
        Alive, Returning, OwnCodes, SIGKILL, OwnSignal, threadVars, processVars
<1>1. CASE Tick
  BY <1>1 DEF Tick
<1>2. CASE Fork
  BY <1>2 DEF Fork
<1>3. CASE HelperExits
  BY <1>3 DEF HelperExits
<1>4. ASSUME NEW code \in OwnCodes, LeaderExits(code) PROVE RunnerInv'
  BY <1>4 DEF LeaderExits
<1> QED
  BY <1>1, <1>2, <1>3, <1>4

-----------------------------------------------------------------------------
LEMMA RunnerInvStep ==
    ASSUME RunnerInv, RunnerNext \/ Again \/ Death \/ UNCHANGED runnerVars
    PROVE  RunnerInv'
<1>1. CASE UNCHANGED runnerVars
  BY <1>1 DEF RunnerInv, RunnerTypeOK, NoSurvivors, TimedOutHonest, Alive,
     runnerVars, threadVars, processVars
<1> QED
  BY <1>1, MainInv, OthersInv, SystemInv DEF RunnerNext

THEOREM RunnerInvariant == EvaluationSpec => [](RunnerInv /\ WorkloadOwn)
<1>1. EvaluationInit => RunnerInv /\ WorkloadOwn
  BY RunnerInvInit DEF EvaluationInit, WorkloadOwn, OwnCodes
<1>2. RunnerInv /\ WorkloadOwn /\ [EvaluationNext]_evaluationVars
        => (RunnerInv /\ WorkloadOwn)'
  BY StepOfRunner, RunnerInvStep, WorkloadStep
<1> QED
  BY <1>1, <1>2, PTL DEF EvaluationSpec

\* When run_process returns or raises nothing of its process group is left,
\* for any number of helpers and any interleaving with the timer.
THEOREM RunnerLeavesNothing == EvaluationSpec => []NoSurvivors
<1>1. RunnerInv => NoSurvivors
  BY DEF RunnerInv
<1> QED
  BY <1>1, RunnerInvariant, PTL

\* Timed out means what it says, for any limit: otherwise the exit code is the
\* child's own and the time within the limit.
THEOREM RunnerHonest == EvaluationSpec => []TimedOutHonest
<1>1. RunnerInv => TimedOutHonest
  BY DEF RunnerInv
<1> QED
  BY <1>1, RunnerInvariant, PTL

-----------------------------------------------------------------------------
\* While the checker runs, verdict.seconds already holds the solver's time.
ScoreInv ==
    /\ verdict.verified => verdict.seconds <= Limit
    /\ (phase = "run" /\ kind = "checker") => verdict.seconds <= Limit

LEMMA SolverVerdictFacts ==
    ASSUME NEW r
    PROVE  /\ SolverVerdict(r) = Check => ~ r.timed_out /\ ~ r.error
           /\ ~ SolverVerdict(r).verified
BY DEF SolverVerdict, Check, Raise, Plain, Disqualified

LEMMA JudgeSolverScore ==
    ASSUME ScoreInv, TimedOutHonest, JudgeSolver
    PROVE  ScoreInv'
<1>1. CASE SolverVerdict(outcome) = Check
  <2>1. outcome.seconds <= Limit
    BY <1>1, SolverVerdictFacts DEF TimedOutHonest, JudgeSolver
  <2>2. verdict' = [NoVerdict EXCEPT !.seconds = outcome.seconds]
    BY <1>1 DEF JudgeSolver
  <2>3. ~ verdict'.verified /\ verdict'.seconds = outcome.seconds
    BY <2>2 DEF NoVerdict
  <2> QED
    BY <2>1, <2>3 DEF ScoreInv
<1>2. CASE SolverVerdict(outcome) # Check
  <2>1. /\ verdict' = Judged(SolverVerdict(outcome), outcome.seconds)
        /\ phase' = "cleanup"
    BY <1>2 DEF JudgeSolver
  <2>2. ~ verdict'.verified
    BY <2>1, SolverVerdictFacts DEF Judged
  <2> QED
    BY <2>1, <2>2 DEF ScoreInv
<1> QED
  BY <1>1, <1>2

LEMMA ScoreStep ==
    ASSUME ScoreInv, TimedOutHonest, [EvaluationNext]_evaluationVars
    PROVE  ScoreInv'
<1>1. CASE UNCHANGED stageVars
  BY <1>1 DEF ScoreInv, stageVars
<1>2. CASE JudgeSolver
  BY <1>2, JudgeSolverScore
<1>3. CASE JudgeChecker
  <2>1. /\ phase = "run" /\ kind = "checker" /\ phase' = "cleanup"
        /\ verdict' = Judged(CheckerVerdict(outcome), verdict.seconds)
    BY <1>3 DEF JudgeChecker
  <2>2. verdict'.verified => verdict'.seconds = verdict.seconds
    BY <2>1 DEF Judged
  <2> QED
    BY <2>1, <2>2 DEF ScoreInv
<1>4. CASE PassException
  <2>1. verdict' = Judged(Raise, 0) /\ phase' = "cleanup"
    BY <1>4 DEF PassException
  <2>2. ~ verdict'.verified
    BY <2>1 DEF Judged, Raise, Plain
  <2> QED
    BY <2>1, <2>2 DEF ScoreInv
<1>5. CASE Cleanup \/ CleanupFails \/ Dies
  BY <1>5 DEF Cleanup, CleanupFails, Dies, ScoreInv
<1>6. CASE CallRunner \/ RunnerStep \/ TimerStep \/ Time \/ InterruptRunner
  BY <1>1, <1>6 DEF CallRunner, RunnerStep, TimerStep, Time, InterruptRunner,
     judgeVars, stageVars
<1>7. CASE Write \/ CandidateForks \/ ChildExits \/ ChildExitsAlone
           \/ Create \/ Start \/ AdapterReturns \/ AdapterFails
  BY <1>1, <1>7 DEF Write, CandidateForks, ChildExits, ChildExitsAlone, Create, Start,
     AdapterReturns, AdapterFails, judgeVars, stageVars
<1>8. ASSUME NEW k \in Kinds, Ends(k) \/ InnerTimeout(k)
      PROVE  ScoreInv'
  BY <1>1, <1>8 DEF Ends, InnerTimeout, stageVars
<1>9. CASE UNCHANGED evaluationVars
  BY <1>1, <1>9 DEF evaluationVars, judgeVars
<1> QED
  BY <1>2, <1>3, <1>4, <1>5, <1>6, <1>7, <1>8, <1>9
     DEF EvaluationNext, Evaluator, World

\* A verified answer took no longer than the limit, for any limit: its score
\* is never more than half of the penalty.
THEOREM VerifiedInTime == EvaluationSpec => []ScoreWithinLimit
<1>1. EvaluationInit => ScoreInv
  BY RunnerAssumption DEF EvaluationInit, ScoreInv, NoVerdict
<1>2. ScoreInv /\ TimedOutHonest /\ [EvaluationNext]_evaluationVars
        => ScoreInv'
  BY ScoreStep
<1>3. ScoreInv => ScoreWithinLimit
  BY DEF ScoreInv, ScoreWithinLimit
<1> QED
  BY <1>1, <1>2, <1>3, RunnerHonest, PTL DEF EvaluationSpec

-----------------------------------------------------------------------------
LEMMA StandsInit == EvaluationInit => StandsInv
BY DEF EvaluationInit, RunnerInit, StandsInv, NoContainers, Kinds, Ended, NoOutcome,
   NoVerdict

\* Steps of the two threads in a run.
LEMMA StandsRun ==
    ASSUME RunnerInv, StandsInv, CallRunner \/ RunnerStep \/ TimerStep \/ InterruptRunner
    PROVE  StandsInv'
<1> USE DEF StandsInv, Ended, Accepts, Kinds, judgeVars, candidateVars, fileVars,
        containerVars, stageVars, processVars
<1>1. UNCHANGED judgeVars
  BY DEF CallRunner, RunnerStep, TimerStep, InterruptRunner
<1>2. CASE Call
  BY <1>1, <1>2 DEF Call
<1>3. CASE Spawn
  BY <1>1, <1>3 DEF Spawn
<1>4. CASE SpawnFails
  BY <1>1, <1>4 DEF SpawnFails
<1>5. CASE Arm
  BY <1>1, <1>5 DEF Arm
<1>6. CASE WaitReturns
  BY <1>1, <1>6 DEF WaitReturns
<1>7. CASE Cancel \/ Join \/ Interrupted
  BY <1>1, <1>7 DEF Cancel, Join, Interrupted
<1>8. CASE Kill
  BY <1>1, <1>8 DEF Kill, KillGroup, SIGKILL
<1>9. CASE Reap
  BY <1>1, <1>9 DEF Reap
<1>10. CASE Result
  <2>1. outcome'.returncode = returncode
    BY <1>10, Zenon DEF Result
  <2> QED
    BY <1>1, <1>10, <2>1 DEF Result, RunnerInv
<1>11. CASE Wakes \/ Expire
  BY <1>1, <1>11 DEF Wakes, Expire
<1>12. CASE ExpireKills
  BY <1>1, <1>12 DEF ExpireKills, KillGroup, SIGKILL
<1> QED
  BY <1>2, <1>3, <1>4, <1>5, <1>6, <1>7, <1>8, <1>9, <1>10, <1>11, <1>12
     DEF CallRunner, RunnerStep, TimerStep, InterruptRunner, MainNext, TimerNext

LEMMA CheckerVerdictFacts ==
    ASSUME NEW r, CheckerVerdict(r).verified
    PROVE  /\ r.returncode = 0 /\ ~ r.error
           /\ CheckerVerdict(r).status =
                 (IF output = "UNSATISFIABLE" THEN "unsat" ELSE "sat")
BY DEF CheckerVerdict, Raise, Plain, Disqualified, Verified, Accepted

LEMMA SolverVerdictChecks ==
    ASSUME NEW r, SolverVerdict(r) = Check
    PROVE  r.returncode \in {0, 10, 20} /\ ~ r.error
BY DEF SolverVerdict, Check, Raise, Plain, Disqualified

\* The checker is called only after the solver's child ended with an answer.
LEMMA StandsJudgeSolver ==
    ASSUME RunnerInv, StandsInv, JudgeSolver
    PROVE  StandsInv'
<1> USE DEF StandsInv, Ended, Accepts, Kinds, processVars, candidateVars, fileVars,
        containerVars
<1>0. /\ UNCHANGED <<timer, cancelled, expired, raised, processVars, clock, outcome,
                     candidateVars, fileVars, containerVars>>
      /\ kind = "solver" /\ main = "returned"
  BY DEF JudgeSolver
<1>1. CASE SolverVerdict(outcome) = Check
  <2>1. kind' = "checker" /\ main' = "idle" /\ phase' = "run"
    BY <1>1 DEF JudgeSolver
  <2>2. verdict' = [NoVerdict EXCEPT !.seconds = outcome.seconds]
    BY <1>1 DEF JudgeSolver
  <2>3. ~ verdict'.verified
    BY <2>2 DEF NoVerdict
  <2>4. helpers = {}
    BY <1>0 DEF RunnerInv, NoSurvivors
  <2>5. docker => container["solver"] = "gone"
    BY <1>0, <1>1, SolverVerdictChecks
  <2>6. leader = "reaped"
    BY <1>0, <1>1, SolverVerdictChecks
  <2> QED
    BY <1>0, <2>1, <2>3, <2>4, <2>5, <2>6
<1>2. CASE SolverVerdict(outcome) # Check
  <2>1. UNCHANGED <<main, kind>>
    BY <1>2 DEF JudgeSolver
  <2>2. verdict' = Judged(SolverVerdict(outcome), outcome.seconds)
    BY <1>2 DEF JudgeSolver
  <2>3. ~ verdict'.verified
    BY <2>2, SolverVerdictFacts DEF Judged
  <2> QED
    BY <1>0, <2>1, <2>3
<1> QED
  BY <1>1, <1>2

LEMMA StandsJudgeChecker ==
    ASSUME RunnerInv, StandsInv, JudgeChecker
    PROVE  StandsInv'
<1> USE DEF StandsInv, Ended, Accepts, Kinds, runnerVars, threadVars, processVars,
        candidateVars, fileVars, containerVars
<1>1. /\ UNCHANGED <<runnerVars, candidateVars, fileVars, containerVars, kind>>
      /\ kind = "checker" /\ main = "returned"
      /\ verdict' = Judged(CheckerVerdict(outcome), verdict.seconds)
  BY DEF JudgeChecker
<1>2. /\ verdict'.verified = CheckerVerdict(outcome).verified
      /\ verdict'.status = CheckerVerdict(outcome).status
  BY <1>1 DEF Judged
<1>3. verdict'.verified =>
        /\ Accepts
        /\ verdict'.status = (IF output = "UNSATISFIABLE" THEN "unsat" ELSE "sat")
  BY <1>1, <1>2, CheckerVerdictFacts
<1> HIDE DEF StandsInv
<1>4. Accepts' = Accepts /\ output' = output
  BY <1>1
<1>5. verdict'.verified =>
        /\ kind' = "checker"
        /\ Accepts'
        /\ verdict'.status = (IF output' = "UNSATISFIABLE" THEN "unsat" ELSE "sat")
  BY <1>1, <1>3, <1>4
<1> QED
  BY <1>1, <1>5 DEF StandsInv

\* What docker rm does to the containers.
LEMMA RemovedFacts ==
    ASSUME StandsInv, NEW S
    PROVE  /\ Removed(S) \in [Kinds -> {"none", "created", "running", "gone"}]
           /\ \A k \in Kinds :
                /\ container[k] \in {"none", "gone"} => Removed(S)[k] = container[k]
                /\ Removed(S)[k] \in {"created", "running"} => k \in S
                /\ container[k] = "none" <=> Removed(S)[k] = "none"
BY DEF StandsInv, Removed, Left

LEMMA StandsEnd ==
    ASSUME RunnerInv, StandsInv, PassException \/ Cleanup \/ CleanupFails \/ Dies \/ Time
    PROVE  StandsInv'
<1> USE DEF StandsInv, Ended, Accepts, Kinds, runnerVars, threadVars, processVars,
        candidateVars, fileVars, containerVars, stageVars
<1>1. CASE PassException
  <2>1. ~ verdict'.verified
    BY <1>1 DEF PassException, Judged, Raise, Plain
  <2> QED
    BY <1>1, <2>1 DEF PassException
<1>2. CASE Cleanup
  <2>1. /\ UNCHANGED <<runnerVars, candidateVars, fileVars, age, workload, kind, verdict>>
        /\ phase = "cleanup" /\ phase' = "done"
        /\ container' = container \/ container' = Removed(refused')
    BY <1>2 DEF Cleanup
  <2>2. leader # "running"
    BY <2>1 DEF RunnerInv, NoSurvivors
  <2>3. /\ container' \in [Kinds -> {"none", "created", "running", "gone"}]
        /\ \A k \in Kinds : container[k] \in {"none", "gone"} => container'[k] = container[k]
    BY <2>1, RemovedFacts
  <2> QED
    BY <2>1, <2>2, <2>3
<1>3. CASE CleanupFails
  <2>1. /\ UNCHANGED <<runnerVars, candidateVars, fileVars, age, workload, kind, verdict>>
        /\ phase = "cleanup" /\ phase' = "failed" /\ docker
        /\ container' = container \/ container' = Removed({"checker"})
    BY <1>3 DEF CleanupFails
  <2>2. leader # "running"
    BY <2>1 DEF RunnerInv, NoSurvivors
  <2>3. /\ container' \in [Kinds -> {"none", "created", "running", "gone"}]
        /\ \A k \in Kinds : container[k] \in {"none", "gone"} => container'[k] = container[k]
    BY <2>1, RemovedFacts
  <2> QED
    BY <2>1, <2>2, <2>3
<1>4. CASE Dies
  BY <1>4 DEF Dies
<1>5. CASE Time
  BY <1>5 DEF Time, Tick
<1> QED
  BY <1>1, <1>2, <1>3, <1>4, <1>5

\* Steps of the candidate, its helpers, the adapter and the daemon.
LEMMA StandsWorld ==
    ASSUME RunnerInv, WorkloadOwn, StandsInv,
           \/ Write \/ CandidateForks \/ ChildExits \/ ChildExitsAlone
           \/ Create \/ Start \/ AdapterReturns \/ AdapterFails
    PROVE  StandsInv'
<1> USE DEF StandsInv, Ended, Accepts, Kinds, runnerVars, threadVars, processVars,
        judgeVars, candidateVars, fileVars, containerVars, stageVars
<1>1. CASE Write
  <2>1. kind = "solver" /\ ~ verdict.verified
    BY <1>1 DEF Write, CandidateRuns
  <2> QED
    BY <1>1, <2>1 DEF Write
<1>2. CASE CandidateForks
  BY <1>2 DEF CandidateForks, CandidateRuns, Fork
<1>3. CASE ChildExits
  <2>1. PICK code \in OwnCodes :
          /\ IF kind = "solver" THEN CandidateCode(code) ELSE CheckerCode(code)
          /\ LeaderExits(code)
    BY <1>3 DEF ChildExits
  <2>2. (kind = "checker" /\ code = 0) => Accepts
    BY <2>1 DEF CheckerCode, OwnSignal
  <2>3. docker => kind = "checker"
    BY <1>3 DEF ChildExits, Contained
  <2>4. UNCHANGED judgeVars
    BY <1>3 DEF ChildExits
  <2> QED
    BY <2>1, <2>2, <2>3, <2>4 DEF LeaderExits, RunnerInv, NoSurvivors
<1>4. CASE ChildExitsAlone
  BY <1>4 DEF ChildExitsAlone, HelperExits
<1>5. CASE Create \/ Start
  <2>1. leader = "running" /\ kind' = kind /\ kind \in Kinds
    BY <1>5 DEF Create, Start, AdapterRuns
  <2> QED
    BY <1>5, <2>1 DEF Create, Start, AdapterRuns, Contained, RunnerInv, Alive
<1>6. CASE AdapterReturns
  BY <1>6 DEF AdapterReturns, AdapterRuns, LeaderExits, RunnerInv, NoSurvivors, Alive
<1>7. CASE AdapterFails
  <2>1. PICK S \in SUBSET Left : container' = Removed(S)
    BY <1>7 DEF AdapterFails
  <2>2. /\ container' \in [Kinds -> {"none", "created", "running", "gone"}]
        /\ \A k \in Kinds : container[k] \in {"none", "gone"} => container'[k] = container[k]
    BY <2>1, RemovedFacts
  <2> QED
    BY <1>7, <2>2 DEF AdapterFails, AdapterRuns, LeaderExits, RunnerInv, NoSurvivors,
       Alive
<1> QED
  BY <1>1, <1>2, <1>3, <1>4, <1>5, <1>6, <1>7

\* A container that ends: the checker's with 0 only when it accepts.
LEMMA StandsContainer ==
    ASSUME RunnerInv, StandsInv, NEW k \in Kinds, Ends(k) \/ InnerTimeout(k)
    PROVE  StandsInv'
<1> USE DEF StandsInv, Ended, Accepts, Kinds, runnerVars, threadVars, processVars,
        candidateVars, fileVars, containerVars, stageVars
<1>1. /\ UNCHANGED <<runnerVars, candidateVars, fileVars, age, stageVars>>
      /\ container[k] = "running"
      /\ container' = [container EXCEPT ![k] = "gone"]
  BY DEF Ends, InnerTimeout
<1>2. /\ container' \in [Kinds -> {"none", "created", "running", "gone"}]
      /\ container["solver"] = "gone" => container'["solver"] = "gone"
      /\ container["checker"] = "none" => container'["checker"] = "none"
  BY <1>1
<1>3. (kind = "checker" /\ workload' = 0 /\ k = "checker") => Accepts
  BY DEF Ends, InnerTimeout, Shown, CheckerCode, OwnSignal, OwnCodes
<1>4. docker /\ (kind = "checker" => k = "checker")
  BY <1>1
<1> QED
  BY <1>1, <1>2, <1>3, <1>4

LEMMA StandsInvariant == EvaluationSpec => []StandsInv
<1>1. RunnerInv /\ WorkloadOwn /\ StandsInv /\ [EvaluationNext]_evaluationVars
        => StandsInv'
  <2> SUFFICES ASSUME RunnerInv, WorkloadOwn, StandsInv,
                      [EvaluationNext]_evaluationVars
               PROVE  StandsInv'
    OBVIOUS
  <2>1. CASE UNCHANGED evaluationVars
    BY <2>1 DEF StandsInv, Ended, Accepts, evaluationVars, judgeVars, runnerVars,
       threadVars, processVars, candidateVars, fileVars, containerVars, stageVars
  <2> QED
    BY <2>1, StandsRun, StandsJudgeSolver, StandsJudgeChecker, StandsEnd, StandsWorld,
       StandsContainer DEF EvaluationNext, Evaluator, World
<1> QED
  BY <1>1, StandsInit, RunnerInvariant, PTL DEF EvaluationSpec

\* Nothing of the candidate writes beside or after the checker, for any limit
\* and any number of helpers, in both modes.
THEOREM VerdictsStand == EvaluationSpec => []VerdictStands
<1>1. StandsInv => VerdictStands
  BY DEF StandsInv, VerdictStands, Accepts
<1> QED
  BY <1>1, StandsInvariant, PTL

-----------------------------------------------------------------------------
\* A container that an adapter created before it was killed is removed, or its
\* removal was refused: no adapter lives when the clean-up begins, so none
\* creates or starts another one.
Removal == phase = "done" => Left \subseteq refused

LEMMA RemovalStep ==
    ASSUME Removal, StandsInv, RunnerInv, [EvaluationNext]_evaluationVars
    PROVE  Removal'
<1>1. phase = "done" => leader # "running"
  BY DEF StandsInv, RunnerInv, NoSurvivors
<1>2. CASE UNCHANGED <<phase, container, refused>>
  BY <1>2 DEF Removal, Left
<1>3. CASE Cleanup
  <2>1. CASE docker
    <3>1. container' = Removed(refused')
      BY <1>3, <2>1 DEF Cleanup
    <3> QED
      BY <3>1, RemovedFacts DEF Removal, Left
  <2>2. CASE ~ docker
    BY <1>3, <2>2 DEF Cleanup, Removal, Left, StandsInv, Kinds
  <2> QED
    BY <2>1, <2>2
<1>4. CASE JudgeSolver \/ JudgeChecker \/ PassException \/ CleanupFails \/ Dies
  BY <1>2, <1>4 DEF JudgeSolver, JudgeChecker, PassException, CleanupFails, Dies,
     Removal, containerVars
<1>5. CASE Create \/ Start \/ AdapterFails
  BY <1>1, <1>5 DEF Create, Start, AdapterFails, AdapterRuns, Removal, stageVars
<1>6. ASSUME NEW k \in Kinds, Ends(k) \/ InnerTimeout(k)
      PROVE  Removal'
  BY <1>6 DEF Ends, InnerTimeout, Removal, Left, StandsInv, stageVars
<1>7. CASE CallRunner \/ RunnerStep \/ TimerStep \/ Time \/ InterruptRunner
  BY <1>2, <1>7 DEF CallRunner, RunnerStep, TimerStep, Time, InterruptRunner,
     judgeVars, stageVars, containerVars
<1>8. CASE Write \/ CandidateForks \/ ChildExits \/ ChildExitsAlone \/ AdapterReturns
  BY <1>2, <1>8 DEF Write, CandidateForks, ChildExits, ChildExitsAlone, AdapterReturns,
     judgeVars, stageVars, containerVars
<1>9. CASE UNCHANGED evaluationVars
  BY <1>2, <1>9 DEF evaluationVars, judgeVars, stageVars, containerVars
<1> QED
  BY <1>3, <1>4, <1>5, <1>6, <1>7, <1>8, <1>9 DEF EvaluationNext, Evaluator, World

\* A finished evaluation leaves no process and, once cleaned up, no container
\* but those whose removal was refused, for any limit and any number of helpers.
THEOREM NothingIsLeft == EvaluationSpec => []NothingLeft
<1>1. EvaluationInit => Removal
  BY DEF EvaluationInit, Removal
<1>2. Removal /\ StandsInv /\ RunnerInv /\ [EvaluationNext]_evaluationVars => Removal'
  BY RemovalStep
<1>3. Removal /\ StandsInv /\ RunnerInv => NothingLeft
  BY DEF Removal, StandsInv, RunnerInv, NoSurvivors, NothingLeft
<1> QED
  BY <1>1, <1>2, <1>3, StandsInvariant, RunnerInvariant, PTL DEF EvaluationSpec

-----------------------------------------------------------------------------
\* An honest candidate's codes and files fit together, at every step.
Fair == honest => HonestInv

LEMMA FairInit == EvaluationInit => Fair
BY DEF EvaluationInit, RunnerInit, Fair, HonestInv, NoContainers, Kinds, Ended, NoVerdict,
   Right, Accepts

\* Steps of the two threads in a run.
LEMMA FairRun ==
    ASSUME RunnerInv, StandsInv, Fair,
           CallRunner \/ RunnerStep \/ TimerStep \/ InterruptRunner
    PROVE  Fair'
<1> SUFFICES ASSUME honest', HonestInv PROVE HonestInv'
  BY DEF Fair, CallRunner, RunnerStep, TimerStep, InterruptRunner, judgeVars,
         candidateVars
<1> USE DEF HonestInv, Ended, Accepts, Right, CodeFits, NotRejected, Contained, SIGKILL,
        OwnSignal, Kinds, judgeVars, candidateVars, fileVars, containerVars, stageVars,
        processVars
<1>1. UNCHANGED judgeVars
  BY DEF CallRunner, RunnerStep, TimerStep, InterruptRunner
<1>1a. main' # main => phase = "run"
  BY DEF CallRunner, RunnerStep, TimerStep, InterruptRunner, TimerNext, Wakes, Expire,
     ExpireKills
<1>2. CASE Call
  BY <1>1, <1>2 DEF Call
<1>3. CASE Spawn
  BY <1>1, <1>3 DEF Spawn, StandsInv
<1>4. CASE SpawnFails
  BY <1>1, <1>1a, <1>4 DEF SpawnFails, RunnerInv
<1>5. CASE Arm \/ WaitReturns \/ Cancel \/ Join \/ Interrupted
  BY <1>1, <1>5 DEF Arm, WaitReturns, Cancel, Join, Interrupted
<1>6. ASSUME KillGroup, UNCHANGED outcome, main \notin {"idle", "spawn"},
             main' \notin {"idle", "spawn"}
      PROVE  HonestInv'
  <2>1. leader' # "running"
    BY <1>6 DEF KillGroup, StandsInv, RunnerInv, RunnerTypeOK
  <2>2. CASE leader = "running"
    <3>1. leader' = "zombie" /\ returncode' = SIGKILL
      BY <1>6, <2>2 DEF KillGroup
    <3>2. CodeFits(returncode)' /\ NotRejected(returncode)'
      BY <3>1
    <3> HIDE DEF CodeFits, NotRejected
    <3> QED BY <1>1, <1>6, <2>1, <3>2
  <2>3. CASE leader # "running"
    BY <1>1, <1>6, <2>3 DEF KillGroup
  <2> QED BY <2>2, <2>3
<1>7. CASE Reap \/ Result
  BY <1>1, <1>1a, <1>7 DEF Reap, Result
<1>8. CASE Wakes \/ Expire
  BY <1>1, <1>8 DEF Wakes, Expire
<1>9. CASE Kill
  BY <1>6, <1>9 DEF Kill
<1>10. CASE ExpireKills
  <2>1. CASE leader = "running"
    <3>1. main \notin {"idle", "spawn"}
      BY <2>1 DEF RunnerInv, Alive
    <3> QED BY <1>6, <1>10, <3>1 DEF ExpireKills
  <2>2. CASE leader # "running"
    BY <1>1, <1>10, <2>2 DEF ExpireKills, KillGroup
  <2> QED BY <2>1, <2>2
<1> QED
  BY <1>2, <1>3, <1>4, <1>5, <1>7, <1>8, <1>9, <1>10
     DEF CallRunner, RunnerStep, TimerStep, InterruptRunner, MainNext, TimerNext

\* What an honest candidate wrote and how it ended is no reason to disqualify it.
LEMMA SolverVerdictFair ==
    ASSUME NEW r, intact, Right(output, proof),
           ~ r.error => CodeFits(r.returncode)
    PROVE  /\ ~ SolverVerdict(r).disqualified
           /\ SolverVerdict(r) = Check => Accepts
<1> USE DEF Right, CodeFits
<1>1. ~ SolverVerdict(r).disqualified
  BY DEF SolverVerdict, Check, Raise, Plain, Disqualified, ExpectedExit, Status
<1>2. ASSUME SolverVerdict(r) = Check PROVE Accepts
  BY <1>2 DEF SolverVerdict, Check, Raise, Plain, Disqualified, ExpectedExit, Status,
     Accepts
<1> QED
  BY <1>1, <1>2

LEMMA FairJudgeSolver ==
    ASSUME RunnerInv, StandsInv, Fair, JudgeSolver
    PROVE  Fair'
<1> SUFFICES ASSUME honest', HonestInv PROVE HonestInv'
  BY DEF Fair, JudgeSolver, candidateVars
<1> USE DEF processVars, candidateVars, fileVars, containerVars
<1>0. /\ UNCHANGED <<timer, cancelled, expired, raised, processVars, clock, outcome,
                     candidateVars, fileVars, containerVars>>
      /\ kind = "solver" /\ main = "returned" /\ phase = "run"
  BY DEF JudgeSolver
<1>0a. ~ verdict.disqualified
  BY <1>0 DEF HonestInv
<1>1. ~ outcome.error => CodeFits(outcome.returncode)
  BY <1>0 DEF StandsInv, HonestInv, Ended
<1>2. /\ ~ SolverVerdict(outcome).disqualified
      /\ SolverVerdict(outcome) = Check => Accepts
  BY <1>1, SolverVerdictFair DEF HonestInv
<1>3. container["checker"] = "none"
  BY <1>0 DEF StandsInv
<1>4. CASE SolverVerdict(outcome) = Check
  <2>1. kind' = "checker" /\ main' = "idle"
    BY <1>4 DEF JudgeSolver
  <2>2. verdict' = [NoVerdict EXCEPT !.seconds = outcome.seconds]
    BY <1>4 DEF JudgeSolver
  <2>3. ~ verdict'.disqualified
    BY <2>2 DEF NoVerdict
  <2>4. leader # "running"
    BY <1>0 DEF RunnerInv, NoSurvivors
  <2> QED
    BY <1>0, <1>2, <1>3, <1>4, <2>1, <2>3, <2>4 DEF HonestInv, Accepts, Right
<1>5. CASE SolverVerdict(outcome) # Check
  <2>1. UNCHANGED <<main, kind>>
    BY <1>5 DEF JudgeSolver
  <2>2. verdict' = Judged(SolverVerdict(outcome), outcome.seconds)
    BY <1>5 DEF JudgeSolver
  <2>3. ~ verdict'.disqualified
    BY <1>2, <2>2 DEF Judged
  <2> QED
    BY <1>0, <2>1, <2>3 DEF HonestInv, Ended, Accepts, Right, CodeFits, NotRejected,
       Contained
<1> QED
  BY <1>4, <1>5

\* ... and the checker's end is none either, but for a signal in its container.
LEMMA CheckerVerdictFair ==
    ASSUME NEW r, ~ r.error => NotRejected(r.returncode)
    PROVE  CheckerVerdict(r).disqualified => Contained /\ r.returncode = Signalled
BY DEF CheckerVerdict, Raise, Plain, Disqualified, Verified, Accepted, NotRejected,
   SIGKILL, OwnSignal

LEMMA FairJudgeChecker ==
    ASSUME RunnerInv, StandsInv, Fair, JudgeChecker
    PROVE  Fair'
<1> SUFFICES ASSUME honest', HonestInv PROVE HonestInv'
  BY DEF Fair, JudgeChecker, candidateVars
<1> USE DEF runnerVars, threadVars, processVars, candidateVars, fileVars, containerVars
<1>1. /\ UNCHANGED <<runnerVars, candidateVars, fileVars, containerVars, kind>>
      /\ kind = "checker" /\ main = "returned"
      /\ verdict' = Judged(CheckerVerdict(outcome), verdict.seconds)
  BY DEF JudgeChecker
<1>2. ~ outcome.error => NotRejected(outcome.returncode)
  BY <1>1 DEF StandsInv, HonestInv, Ended
<1>3. CheckerVerdict(outcome).disqualified =>
         Contained /\ outcome.returncode = Signalled
  BY <1>2, CheckerVerdictFair
<1>4. verdict'.disqualified => Contained /\ outcome.returncode = Signalled
  BY <1>1, <1>3 DEF Judged
<1>5. phase' # "run"
  BY DEF JudgeChecker
<1> QED
  BY <1>1, <1>4, <1>5 DEF HonestInv, Ended, Accepts, Right, CodeFits, NotRejected,
     Contained

LEMMA FairEnd ==
    ASSUME RunnerInv, StandsInv, Fair,
           PassException \/ Cleanup \/ CleanupFails \/ Dies \/ Time
    PROVE  Fair'
<1> SUFFICES ASSUME honest', HonestInv PROVE HonestInv'
  BY DEF Fair, PassException, Cleanup, CleanupFails, Dies, Time, candidateVars
<1> USE DEF HonestInv, Ended, Accepts, Right, CodeFits, NotRejected, Contained, Kinds,
        runnerVars, threadVars, processVars, candidateVars, fileVars, containerVars,
        stageVars
<1>1. CASE PassException
  <2>1. ~ verdict'.disqualified
    BY <1>1 DEF PassException, Judged, Raise, Plain
  <2> QED
    BY <1>1, <2>1 DEF PassException
<1>2. CASE Cleanup
  <2>1. /\ UNCHANGED <<runnerVars, candidateVars, fileVars, age, workload, kind, verdict>>
        /\ phase = "cleanup" /\ phase' = "done"
        /\ container' = container \/ container' = Removed(refused')
    BY <1>2 DEF Cleanup
  <2>2. leader # "running" /\ main \in {"returned", "raised"}
    BY <2>1 DEF RunnerInv, NoSurvivors, StandsInv
  <2>3. container'["checker"] # "none" => container["checker"] # "none"
    BY <2>1, RemovedFacts
  <2> QED
    BY <2>1, <2>2, <2>3
<1>3. CASE CleanupFails
  <2>1. /\ UNCHANGED <<runnerVars, candidateVars, fileVars, age, workload, kind, verdict>>
        /\ phase = "cleanup" /\ phase' = "failed"
        /\ container' = container \/ container' = Removed({"checker"})
    BY <1>3 DEF CleanupFails
  <2>2. leader # "running" /\ main \in {"returned", "raised"}
    BY <2>1 DEF RunnerInv, NoSurvivors, StandsInv
  <2>3. container'["checker"] # "none" => container["checker"] # "none"
    BY <2>1, RemovedFacts
  <2> QED
    BY <2>1, <2>2, <2>3
<1>4. CASE Dies
  BY <1>4 DEF Dies
<1>5. CASE Time
  BY <1>5 DEF Time, Tick
<1> QED
  BY <1>1, <1>2, <1>3, <1>4, <1>5

\* Steps of the candidate, its helpers, the adapter and the daemon.
LEMMA FairWorld ==
    ASSUME RunnerInv, WorkloadOwn, StandsInv, Fair,
           \/ Write \/ CandidateForks \/ ChildExits \/ ChildExitsAlone
           \/ Create \/ Start \/ AdapterReturns \/ AdapterFails
    PROVE  Fair'
<1> SUFFICES ASSUME honest', HonestInv PROVE HonestInv'
  BY DEF Fair, Write, CandidateForks, ChildExits, ChildExitsAlone, Create, Start,
         AdapterReturns, AdapterFails, judgeVars, candidateVars
<1> USE DEF HonestInv, Ended, Accepts, CodeFits, NotRejected, Contained, Kinds,
        SIGKILL, OwnSignal, runnerVars, threadVars, processVars, judgeVars, candidateVars,
        fileVars, containerVars, stageVars
<1>1. CASE Write
  <2>1. /\ kind = "solver"
        /\ container["checker"] = "none"
        /\ docker => container["solver"] = "running"
        /\ ~ docker => leader = "running"
    BY <1>1 DEF Write, CandidateRuns, StandsInv
  <2>2. Ended => docker /\ returncode \notin {0, 10, 20}
    BY <2>1 DEF StandsInv
  <2>3. Right(output, proof)' /\ intact'
    BY <1>1 DEF Write
  <2>4. container["solver"] # "gone"
    BY <2>1 DEF StandsInv
  <2> QED
    BY <1>1, <2>1, <2>2, <2>3, <2>4 DEF Write
<1>2. CASE CandidateForks
  BY <1>2 DEF CandidateForks, Fork, Right
<1>3. CASE ChildExits
  <2>1. PICK code \in OwnCodes :
          /\ IF kind = "solver" THEN CandidateCode(code) ELSE CheckerCode(code)
          /\ code = 137 => kind = "solver"
          /\ LeaderExits(code)
    BY <1>3 DEF ChildExits
  <2>2. UNCHANGED judgeVars
    BY <1>3 DEF ChildExits
  <2>3. CASE kind = "solver"
    BY <2>1, <2>2, <2>3 DEF LeaderExits, CandidateCode, Right
  <2>4. CASE kind # "solver"
    <3>1. kind = "checker" /\ Accepts
      BY <2>4 DEF StandsInv
    <3>2. NotRejected(code)
      BY <2>1, <3>1 DEF CheckerCode
    <3> QED
      BY <2>1, <2>2, <3>1, <3>2 DEF LeaderExits, Right
  <2> QED
    BY <2>3, <2>4
<1>4. CASE ChildExitsAlone
  BY <1>4 DEF ChildExitsAlone, HelperExits, Right
<1>5. CASE Create \/ Start
  <2>1. /\ leader = "running" /\ kind' = kind /\ kind \in Kinds /\ docker
        /\ kind = "checker" => output = "UNSATISFIABLE"
    BY <1>5 DEF Create, Start, AdapterRuns, StandsInv
  <2>2. main \notin {"idle", "spawn"}
    BY <2>1 DEF RunnerInv, Alive
  <2>3. container' = [container EXCEPT ![kind] = "created"]
        \/ container' = [container EXCEPT ![kind] = "running"]
    BY <1>5 DEF Create, Start
  <2>4. container \in [Kinds -> {"none", "created", "running", "gone"}]
    BY DEF StandsInv
  <2>5. UNCHANGED <<runnerVars, candidateVars, fileVars, workload, stageVars>>
    BY <1>5 DEF Create, Start
  <2> QED
    BY <2>1, <2>2, <2>3, <2>4, <2>5 DEF Right, StandsInv
<1>6. CASE AdapterReturns
  <2>1. /\ leader = "running" /\ container[kind] = "gone" /\ kind \in Kinds
        /\ LeaderExits(workload) /\ UNCHANGED judgeVars
    BY <1>6 DEF AdapterReturns, AdapterRuns, StandsInv
  <2> QED
    BY <2>1 DEF LeaderExits, Right
<1>7. CASE AdapterFails
  <2>1. /\ leader = "running" /\ Contained /\ kind \in Kinds
        /\ LeaderExits(125)
        /\ UNCHANGED <<candidateVars, fileVars, age, workload, stageVars>>
    BY <1>7 DEF AdapterFails, AdapterRuns, StandsInv
  <2>2. main \notin {"idle", "spawn"}
    BY <2>1 DEF RunnerInv, Alive
  <2>4. PICK S \in SUBSET Left : container' = Removed(S)
    BY <1>7 DEF AdapterFails
  <2>3. container'["checker"] # "none" => container["checker"] # "none"
    BY <2>4, RemovedFacts
  <2> QED
    BY <2>1, <2>2, <2>3 DEF LeaderExits, Right
<1> QED
  BY <1>1, <1>2, <1>3, <1>4, <1>5, <1>6, <1>7

LEMMA ShownFacts ==
    ASSUME NEW code, NEW w \in Shown(code)
    PROVE  w \in {Killed, Signalled} \/ w = code
BY DEF Shown

LEMMA FairContainer ==
    ASSUME RunnerInv, StandsInv, Fair, NEW k \in Kinds, Ends(k) \/ InnerTimeout(k)
    PROVE  Fair'
<1> SUFFICES ASSUME honest', honest, HonestInv PROVE HonestInv'
  BY DEF Fair, Ends, InnerTimeout, candidateVars
<1> USE DEF HonestInv, Ended, Accepts, Right, Kinds, runnerVars, threadVars,
        processVars, candidateVars, fileVars, containerVars, stageVars
<1>1. /\ UNCHANGED <<runnerVars, candidateVars, fileVars, age, stageVars>>
      /\ container[k] = "running"
      /\ container' = [container EXCEPT ![k] = "gone"]
      /\ container \in [Kinds -> {"none", "created", "running", "gone"}]
  BY DEF Ends, InnerTimeout, StandsInv
<1>2. /\ docker
      /\ kind = "checker" <=> k = "checker"
      /\ kind = "checker" => Contained
  BY <1>1 DEF StandsInv, Contained
<1>3. kind = "solver" => CodeFits(workload')
  <2> SUFFICES ASSUME kind = "solver" PROVE CodeFits(workload')
    OBVIOUS
  <2>1. k = "solver"
    BY <1>2
  <2>2. workload' \in {Killed, Signalled} \/ CandidateCode(workload')
    BY <2>1, ShownFacts DEF Ends, InnerTimeout
  <2> QED
    BY <2>2 DEF CandidateCode, CodeFits
<1>4. kind = "checker" => NotRejected(workload')
  <2> SUFFICES ASSUME kind = "checker" PROVE NotRejected(workload')
    OBVIOUS
  <2>1. k = "checker"
    BY <1>2
  <2>2. workload' \in {Killed, Signalled} \/ CheckerCode(workload')
    BY <2>1, ShownFacts DEF Ends, InnerTimeout
  <2>3. Contained /\ Accepts
    BY <1>2
  <2>4. CASE workload' \in {Killed, Signalled}
    BY <2>3, <2>4 DEF NotRejected
  <2>5. CASE CheckerCode(workload')
    BY <2>3, <2>5 DEF CheckerCode, NotRejected
  <2> QED
    BY <2>2, <2>4, <2>5
<1>5. Contained' = Contained /\ output' = output
  BY <1>1 DEF Contained
<1>6. /\ kind = "solver" => CodeFits(workload)'
      /\ kind = "checker" => NotRejected(workload)'
      /\ CodeFits(returncode) => CodeFits(returncode)'
      /\ NotRejected(returncode) => NotRejected(returncode)'
  BY <1>1, <1>3, <1>4, <1>5 DEF CodeFits, NotRejected
<1> QED
  BY <1>1, <1>2, <1>5, <1>6 DEF StandsInv

\* A candidate that only answers what it knows is disqualified at most when its
\* checker died in a container by a signal other than SIGKILL, for any limit and
\* any number of helpers, wherever else it or its checker is stopped.
THEOREM HonestStays == EvaluationSpec => []HonestNotDisqualified
<1>1. RunnerInv /\ WorkloadOwn /\ StandsInv /\ Fair /\ [EvaluationNext]_evaluationVars
        => Fair'
  <2> SUFFICES ASSUME RunnerInv, WorkloadOwn, StandsInv, Fair,
                      [EvaluationNext]_evaluationVars
               PROVE  Fair'
    OBVIOUS
  <2>1. CASE UNCHANGED evaluationVars
    BY <2>1 DEF Fair, HonestInv, Ended, Accepts, Right, CodeFits, NotRejected, Contained,
       evaluationVars, judgeVars, runnerVars, threadVars, processVars, candidateVars,
       fileVars, containerVars, stageVars
  <2> QED
    BY <2>1, FairRun, FairJudgeSolver, FairJudgeChecker, FairEnd, FairWorld,
       FairContainer DEF EvaluationNext, Evaluator, World
<1>2. Fair => HonestNotDisqualified
  BY DEF Fair, HonestInv, HonestNotDisqualified
<1> QED
  BY <1>1, <1>2, FairInit, RunnerInvariant, StandsInvariant, PTL DEF EvaluationSpec

=============================================================================
