----------------------------- MODULE Evaluation -----------------------------
(***************************************************************************)
(* evaluate_instance of sat_eval/runner.py with the container adapter and  *)
(* the clean-up around it: the candidate runs, its exit code, output and   *)
(* proof are judged in a fixed order, and a checker decides.               *)
(*                                                                         *)
(* In native mode the child is the candidate itself.  In docker mode the   *)
(* child is the adapter (sat_eval/container.py): the candidate runs in a   *)
(* container that the docker daemon keeps when the adapter is killed.      *)
(* The candidate may write its files whenever it runs.                     *)
(***************************************************************************)
EXTENDS Runner

VARIABLES
    docker,                 \* measurement_mode is not native-preview
    truth,                  \* whether the formula is satisfiable
    honest,                 \* the candidate only answers what it knows
    kind,                   \* whose run it is, the solver's or the checker's
    phase,                  \* of the evaluation
    intact,                 \* whether the instance still has its digest
    output,                 \* what solver.stdout says
    proof,                  \* what certificate.dsr is
    container,              \* the containers of the two kinds
    age,                    \* the time the running container has had
    workload,               \* the exit code of the container
    verdict,                \* the EvaluationResult
    refused                 \* the containers whose last docker rm failed

candidateVars == <<docker, truth, honest>>
fileVars == <<intact, output, proof>>
containerVars == <<container, age, workload, refused>>
stageVars == <<kind, phase, verdict>>
judgeVars == <<candidateVars, fileVars, containerVars, stageVars>>
evaluationVars == <<runnerVars, judgeVars>>

Kinds == {"solver", "checker"}
NoContainers == [k \in Kinds |-> "none"]

\* An output has a status, with a model of the formula or another one, or none
\* that can be parsed, or was replaced; a proof is right, wrong, or not there.
Outputs == {"malformed", "UNKNOWN", "UNSATISFIABLE", "model", "other model",
            "replaced"}
Proofs == {"none", "valid", "invalid"}

NoVerdict == [status |-> "none", verified |-> FALSE, disqualified |-> FALSE,
              seconds |-> 0]

EvaluationInit ==
    /\ RunnerInit
    /\ docker \in BOOLEAN
    /\ truth \in BOOLEAN
    /\ honest \in BOOLEAN
    /\ kind = "solver"
    /\ phase = "run"
    /\ intact = TRUE
    /\ output = "malformed"
    /\ proof = "none"
    /\ container = NoContainers
    /\ age = 0
    /\ workload = 0
    /\ verdict = NoVerdict
    /\ refused = {}

-----------------------------------------------------------------------------
\* The candidate at work, in its container or in its process group.
CandidateRuns ==
    IF docker THEN container["solver"] = "running"
    ELSE helpers # {} \/ (kind = "solver" /\ leader = "running")

\* An honest candidate writes an answer only when it is right and, for a
\* refutation, after its proof; its helpers do not write after it ended.
Right(out, pf) ==
    \/ out \in {"malformed", "UNKNOWN"}
    \/ out = "model"
    \/ out = "UNSATISFIABLE" /\ pf = "valid"

Write ==
    /\ CandidateRuns
    /\ output' \in Outputs
    /\ proof' \in Proofs
    /\ intact' \in {intact, FALSE}
    /\ output' = "model" => truth
    /\ proof' = "valid" => ~ truth
    /\ honest => /\ Right(output', proof')
                 /\ intact'
                 /\ docker \/ leader = "running"
    /\ docker => output' # "replaced" /\ intact'
    /\ UNCHANGED <<runnerVars, candidateVars, containerVars, stageVars>>

CandidateForks ==
    /\ ~ docker
    /\ CandidateRuns
    /\ Fork
    /\ UNCHANGED judgeVars

\* Its own exit codes; an honest one uses 10 and 20 for its answers only.
CandidateCode(code) ==
    /\ code \in {OwnSignal, 0, 1, 10, 20, Killed}
    /\ honest => /\ code = 0 => output \in {"malformed", "UNKNOWN"}
                 /\ code = 10 => output = "model"
                 /\ code = 20 => output = "UNSATISFIABLE"

\* What a checker that runs to its end says of the files (check.py, dsr-trim):
\* 0 with its line of verification, or 1.  It may run out of memory (75, and
\* 255 with a message) or be killed.
Accepts == IF output = "UNSATISFIABLE" THEN proof = "valid" ELSE output = "model"
CheckerCode(code) ==
    \/ code = 0 /\ Accepts
    \/ code = 1 /\ ~ Accepts
    \/ code = 75 /\ output # "UNSATISFIABLE"
    \/ code = 255 /\ output = "UNSATISFIABLE"
    \/ code \in {OwnSignal, Killed}

\* The SAT checker runs on the host, also when the candidate does not.
Contained == docker /\ (kind = "checker" => output = "UNSATISFIABLE")

ChildExits ==
    /\ ~ Contained
    /\ \E code \in OwnCodes :
         /\ IF kind = "solver" THEN CandidateCode(code) ELSE CheckerCode(code)
         /\ code = Killed => kind = "solver"
         /\ LeaderExits(code)
    /\ UNCHANGED judgeVars

-----------------------------------------------------------------------------
\* The adapter: docker run creates a container and starts it.
AdapterRuns == Contained /\ leader = "running"

Create ==
    /\ AdapterRuns
    /\ container[kind] = "none"
    /\ container' = [container EXCEPT ![kind] = "created"]
    /\ UNCHANGED <<runnerVars, candidateVars, fileVars, age, workload, refused,
                   stageVars>>

Start ==
    /\ AdapterRuns
    /\ container[kind] = "created"
    /\ container' = [container EXCEPT ![kind] = "running"]
    /\ age' = 0
    /\ UNCHANGED <<runnerVars, candidateVars, fileVars, workload, refused, stageVars>>

\* The exit code by which a container shows how its workload ended.
Shown(code) == IF code < 0 THEN {Killed, Signalled} ELSE {code}

\* The workload ends by itself, or is killed by the timeout inside the
\* container; then the daemon removes the container (--rm).
Ends(k) ==
    /\ container[k] = "running"
    /\ \E code \in OwnCodes :
         /\ IF k = "solver" THEN CandidateCode(code) ELSE CheckerCode(code)
         /\ workload' \in Shown(code)
    /\ container' = [container EXCEPT ![k] = "gone"]
    /\ UNCHANGED <<runnerVars, candidateVars, fileVars, age, refused, stageVars>>

InnerTimeout(k) ==
    /\ container[k] = "running"
    /\ age >= Limit
    /\ workload' = Killed
    /\ container' = [container EXCEPT ![k] = "gone"]
    /\ UNCHANGED <<runnerVars, candidateVars, fileVars, age, refused, stageVars>>

\* The adapter returns the code of the workload; its cleanup finds nothing.
AdapterReturns ==
    /\ AdapterRuns
    /\ container[kind] = "gone"
    /\ LeaderExits(workload)
    /\ UNCHANGED judgeVars

\* docker rm -f for both kinds: it removes a container, or fails, which nothing
\* looks at, for those of S.
Left == {k \in Kinds : container[k] \in {"created", "running"}}
Removed(S) == [k \in Kinds |-> IF k \in Left \ S THEN "gone" ELSE container[k]]

\* docker fails, loses its daemon or does not remove in time: the adapter
\* returns 125 after its cleanup, whatever that came to.
AdapterFails ==
    /\ AdapterRuns
    /\ LeaderExits(125)
    /\ \E S \in SUBSET Left : container' = Removed(S)
    /\ UNCHANGED <<candidateVars, fileVars, age, workload, refused, stageVars>>

-----------------------------------------------------------------------------
\* The verdict on the solver, in the order of the code.  "raise" stands for an
\* exception, "check" for calling the checker.
Plain(status) == [status |-> status, verified |-> FALSE, disqualified |-> FALSE]
Disqualified == [status |-> "invalid", verified |-> FALSE, disqualified |-> TRUE]
Verified(status) == [status |-> status, verified |-> TRUE, disqualified |-> FALSE]
Raise == Plain("raise")
Check == Plain("check")

Status(out) == IF out \in {"model", "other model"} THEN "SATISFIABLE" ELSE out
ExpectedExit(out) ==
    CASE Status(out) = "SATISFIABLE" -> 10
      [] Status(out) = "UNSATISFIABLE" -> 20
      [] OTHER -> 0

SolverVerdict(r) ==
    IF ~ intact THEN Disqualified
    ELSE IF r.timed_out THEN Plain("timeout")
    ELSE IF r.error THEN Plain("crash")
    ELSE IF docker /\ r.returncode \in {125, 126, 127} THEN Raise
    ELSE IF docker /\ r.returncode = 124 THEN Plain("timeout")
    ELSE IF docker /\ r.returncode = Killed THEN Plain("resource")
    ELSE IF r.returncode \notin {0, 10, 20} THEN Plain("crash")
    ELSE IF output = "replaced" THEN Disqualified
    ELSE IF output = "malformed"
           THEN IF r.returncode = 0 THEN Plain("unsolved") ELSE Disqualified
    ELSE IF r.returncode # ExpectedExit(output) THEN Disqualified
    ELSE IF output = "UNKNOWN" THEN Plain("unsolved")
    ELSE IF output = "UNSATISFIABLE" /\ proof = "none" THEN Disqualified
    ELSE Check

Accepted == IF output = "UNSATISFIABLE" THEN Verified("unsat") ELSE Verified("sat")

\* Mutant: a checker that ran out of resources rejects.
CheckerVerdictHarsh(r) ==
    IF r.error THEN Raise
    ELSE IF r.returncode # 0 THEN Disqualified
    ELSE Accepted

\* ... and on what the checker says.
CheckerVerdict(r) ==
    IF r.error THEN Raise
    ELSE IF r.timed_out THEN Plain("checker_timeout")
    ELSE IF Contained /\ r.returncode \in {125, 126, 127} THEN Raise
    ELSE IF Contained /\ r.returncode = 124 THEN Plain("checker_timeout")
    ELSE IF Contained /\ r.returncode = Killed THEN Plain("checker_resource")
    ELSE IF r.returncode < 0 THEN Plain("checker_resource")
    ELSE IF r.returncode = (IF output = "UNSATISFIABLE" THEN 255 ELSE 75)
           THEN Plain("checker_resource")
    ELSE IF r.returncode # 0 THEN Disqualified
    ELSE Accepted

\* par2_seconds
Judged(v, seconds) ==
    [status |-> v.status, verified |-> v.verified, disqualified |-> v.disqualified,
     seconds |-> IF v.verified THEN seconds ELSE 2 * Limit]

-----------------------------------------------------------------------------
\* The thread of evaluate: run, judge, run the checker, judge, clean up.
CallRunner ==
    /\ phase = "run"
    /\ Call
    /\ UNCHANGED judgeVars

RunnerStep ==
    /\ phase = "run"
    /\ MainNext
    /\ UNCHANGED judgeVars

InterruptRunner ==
    /\ phase = "run"
    /\ Interrupted
    /\ UNCHANGED judgeVars

TimerStep ==
    /\ TimerNext
    /\ UNCHANGED judgeVars

\* solver_seconds is kept for the score while the checker runs.
JudgeSolver ==
    /\ phase = "run"
    /\ kind = "solver"
    /\ main = "returned"
    /\ LET v == SolverVerdict(outcome) IN
         \/ /\ v = Check
            /\ kind' = "checker"
            /\ main' = "idle"
            /\ verdict' = [NoVerdict EXCEPT !.seconds = outcome.seconds]
            /\ UNCHANGED phase
         \/ /\ v # Check
            /\ phase' = "cleanup"
            /\ verdict' = Judged(v, outcome.seconds)
            /\ UNCHANGED <<main, kind>>
    /\ UNCHANGED <<timer, cancelled, expired, raised, processVars, clock, outcome,
                   candidateVars, fileVars, containerVars>>

JudgeChecker ==
    /\ phase = "run"
    /\ kind = "checker"
    /\ main = "returned"
    /\ phase' = "cleanup"
    /\ verdict' = Judged(CheckerVerdict(outcome), verdict.seconds)
    /\ UNCHANGED <<runnerVars, candidateVars, fileVars, containerVars, kind>>

\* An exception in run_process, on its way to the finally of cli.evaluate.
PassException ==
    /\ phase = "run"
    /\ main = "raised"
    /\ phase' = "cleanup"
    /\ verdict' = Judged(Raise, 0)
    /\ UNCHANGED <<runnerVars, candidateVars, fileVars, containerVars, kind>>

\* Mutant: only the container of the solver is removed.
CleanupSolver ==
    /\ phase = "cleanup"
    /\ phase' = "done"
    /\ refused' \in SUBSET (IF docker THEN Left \cap {"solver"} ELSE {})
    /\ container' = IF docker THEN Removed(refused' \cup {"checker"}) ELSE container
    /\ UNCHANGED <<runnerVars, candidateVars, fileVars, age, workload, kind, verdict>>

\* container.cleanup, of both kinds, in docker mode.
Cleanup ==
    /\ phase = "cleanup"
    /\ phase' = "done"
    /\ refused' \in SUBSET (IF docker THEN Left ELSE {})
    /\ container' = IF docker THEN Removed(refused') ELSE container
    /\ UNCHANGED <<runnerVars, candidateVars, fileVars, age, workload, kind, verdict>>

\* docker rm does not answer in time, for the first container or the second.
CleanupFails ==
    /\ phase = "cleanup"
    /\ docker
    /\ phase' = "failed"
    /\ container' \in {container, Removed({"checker"})}
    /\ UNCHANGED <<runnerVars, candidateVars, fileVars, age, workload, refused, kind,
                   verdict>>

\* The evaluator is killed; its child lives on.
Dies ==
    /\ phase \notin {"done", "failed", "dead"}
    /\ phase' = "dead"
    /\ timer' = "none"
    /\ UNCHANGED <<main, cancelled, expired, raised, processVars, clock, outcome,
                   candidateVars, fileVars, containerVars, kind, verdict>>

Time ==
    /\ Tick
    /\ age' = IF age < Limit THEN age + 1 ELSE age
    /\ UNCHANGED <<candidateVars, fileVars, container, workload, refused, stageVars>>

ChildExitsAlone ==
    /\ HelperExits
    /\ UNCHANGED judgeVars

Evaluator ==
    \/ CallRunner \/ RunnerStep \/ JudgeSolver \/ JudgeChecker \/ PassException
    \/ Cleanup \/ CleanupFails

World ==
    \/ Write \/ CandidateForks \/ ChildExits \/ ChildExitsAlone
    \/ Create \/ Start \/ AdapterReturns \/ AdapterFails
    \/ \E k \in Kinds : Ends(k) \/ InnerTimeout(k)
    \/ InterruptRunner \/ Dies

EvaluationNext == Evaluator \/ TimerStep \/ Time \/ World

EvaluationSpec == EvaluationInit /\ [][EvaluationNext]_evaluationVars

FairEvaluation ==
    /\ EvaluationSpec
    /\ WF_evaluationVars(Evaluator)
    /\ WF_evaluationVars(TimerStep)
    /\ WF_evaluationVars(Time)
    /\ \A k \in Kinds : WF_evaluationVars(InnerTimeout(k))

-----------------------------------------------------------------------------
\* A verified answer stands: the files that the checker read are still the
\* same when the evaluation is over, because nothing of the candidate ran on
\* beside the checker, in its process group or in its container.
VerdictStands ==
    verdict.verified =>
        /\ verdict.status = "sat" => output = "model"
        /\ verdict.status = "unsat" => output = "UNSATISFIABLE" /\ proof = "valid"

\* The time of a verified answer is within the limit: the penalized score of
\* an answer is never more than half the penalty of none.
ScoreWithinLimit == verdict.verified => verdict.seconds <= Limit

\* "Checker infrastructure/resource failures do not prove an answer wrong"
\* (runner.py): a candidate that only answers what it knows is never
\* disqualified.  It is when a contained checker dies by a signal other than
\* SIGKILL.
FailuresProveNothing == honest => ~ verdict.disqualified

\* ... and by nothing else: wherever an honest candidate or its checker is
\* killed, times out, runs out of memory or loses its container.
HonestNotDisqualified ==
    honest /\ verdict.disqualified =>
        kind = "checker" /\ Contained /\ outcome.returncode = Signalled

\* Nothing is left of a finished evaluation, although the adapter may have
\* been killed before it cleaned up or its own docker rm may have failed, but
\* for a container that the evaluator's docker rm did not remove.
NothingLeft ==
    phase \in {"done", "failed"} =>
        /\ helpers = {}
        /\ leader \in {"none", "reaped"}
        /\ phase = "done" => Left \subseteq refused

\* The evaluation comes to an end, whatever the candidate and its helpers do.
Returns == <>(phase \in {"done", "failed", "dead"})

\* No container runs forever, also when the clean-up failed or the evaluator
\* was killed ("Inner timeout also kills workloads if the host adapter is
\* interrupted", container.py).
ContainersStop ==
    \A k \in Kinds : container[k] = "running" ~> container[k] = "gone"

\* Whatever hangs, is killed or fails, both come to rest.
ComesToRest == Returns /\ ContainersStop

-----------------------------------------------------------------------------
\* Why verdicts stand: once the checker's run has begun, the helpers are dead
\* and the solver's container is gone; so the files are those that the checker
\* accepted when it ended with 0.
Ended == leader \in {"zombie", "reaped"}

StandsInv ==
    /\ container \in [Kinds -> {"none", "created", "running", "gone"}]
    /\ kind \in Kinds
    /\ ~ docker => container["solver"] = "none" /\ container["checker"] = "none"
    /\ phase \in {"cleanup", "done", "failed"} => main \in {"returned", "raised"}
    /\ (main = "returned" /\ ~ outcome.error) =>
          leader = "reaped" /\ outcome.returncode = returncode
    /\ (docker /\ kind = "solver" /\ Ended /\ returncode \in {0, 10, 20})
          => container["solver"] = "gone"
    /\ kind = "checker" => helpers = {} /\ (docker => container["solver"] = "gone")
    /\ kind = "solver" \/ main \in {"idle", "spawn"} => container["checker"] = "none"
    /\ (kind = "checker" /\ leader = "running" /\ container["checker"] = "gone"
          /\ workload = 0) => Accepts
    /\ (kind = "checker" /\ main # "idle" /\ Ended /\ returncode = 0) => Accepts
    /\ verdict.verified =>
          /\ kind = "checker"
          /\ Accepts
          /\ verdict.status = (IF output = "UNSATISFIABLE" THEN "unsat" ELSE "sat")

\* Why an honest candidate is not disqualified: the exit code of its child, or
\* of the workload that the adapter is about to return, fits what it has
\* written, and is not one with which a checker rejects a right answer.
CodeFits(code) ==
    /\ code = 0 => output \in {"malformed", "UNKNOWN"}
    /\ code = 10 => output = "model"
    /\ code = 20 => output = "UNSATISFIABLE"

NotRejected(code) ==
    \/ code \in {0, SIGKILL, OwnSignal}
    \/ code = (IF output = "UNSATISFIABLE" THEN 255 ELSE 75)
    \/ Contained /\ code \in {125, Killed, Signalled}

HonestInv ==
    /\ verdict.disqualified =>
          /\ kind = "checker" /\ Contained /\ outcome.returncode = Signalled
          /\ phase # "run"
    /\ intact
    /\ Right(output, proof)
    /\ (kind = "solver" /\ main \in {"idle", "spawn"}) => container["solver"] = "none"
    /\ (kind = "solver" /\ Ended) => CodeFits(returncode)
    /\ (kind = "solver" /\ leader = "running" /\ container["solver"] = "gone")
          => CodeFits(workload)
    /\ kind = "checker" => Accepts
    /\ container["checker"] # "none" => docker /\ output = "UNSATISFIABLE"
    /\ (kind = "checker" /\ main # "idle" /\ Ended) => NotRejected(returncode)
    /\ (kind = "checker" /\ leader = "running" /\ container["checker"] = "gone")
          => NotRejected(workload)

=============================================================================
