------------------------------- MODULE Runner -------------------------------
(***************************************************************************)
(* run_process of sat_eval/runner.py: a child with its own process group,  *)
(* a timer thread that kills the group at the wall-time limit, and the     *)
(* main thread that waits for the child.                                   *)
(*                                                                         *)
(* The child may start helpers, which stay in its group (a process that    *)
(* leaves the group is beyond the runner; containers exist for that), and  *)
(* may end at any moment.  Each line of the two threads is a step.  An     *)
(* interrupt of the main thread comes in the wait, where it spends its     *)
(* time; at another line it would leave run_process there.                 *)
(***************************************************************************)
EXTENDS Integers

CONSTANTS
    Limit,                  \* limits.wall_seconds, in ticks of the clock
    MaxClock,               \* bound: the clock stands still from then on
    Helpers                 \* processes the child may start

ASSUME RunnerAssumption == Limit \in Nat /\ MaxClock \in Nat /\ Limit < MaxClock

VARIABLES
    main,                   \* where the main thread is
    timer,                  \* the timer thread
    cancelled,              \* timer.cancel() was called
    expired,                \* the event of that name
    raised,                 \* an exception is on its way through finally
    leader,                 \* the child
    helpers,                \* the living helpers
    returncode,             \* of the child, once it ended
    clock,                  \* time since the start
    outcome                 \* the ProcessResult

threadVars == <<main, timer, cancelled, expired, raised>>
processVars == <<leader, helpers, returncode>>
runnerVars == <<threadVars, processVars, clock, outcome>>

\* Return codes: 0, 10 and 20 are answers, 1 any other failure, 75 and 255
\* the checkers' own, 124 and 125 what timeout and docker report.  Negative ones
\* are signals: the runner's SIGKILL is told apart from every other signal,
\* another SIGKILL (of a resource limit, of the kernel) included.  A container
\* reports 128 and the number of the signal: 137 for SIGKILL, and 139 stands
\* for the other ones (134 SIGABRT, 139 SIGSEGV, 152 SIGXCPU, 153 SIGXFSZ).
SIGKILL == -9
OwnSignal == -24
Killed == 137
Signalled == 139
OwnCodes == {OwnSignal, 0, 1, 10, 20, 75, 124, 125, Killed, Signalled, 255}

NoOutcome == [returncode |-> 0, seconds |-> 0, timed_out |-> FALSE, error |-> FALSE]

RunnerInit ==
    /\ main = "idle"
    /\ timer = "none"
    /\ cancelled = FALSE
    /\ expired = FALSE
    /\ raised = FALSE
    /\ leader = "none"
    /\ helpers = {}
    /\ returncode = 0
    /\ clock = 0
    /\ outcome = NoOutcome

-----------------------------------------------------------------------------
\* The operating system: time, the child and its helpers.
Tick ==
    /\ clock' = IF clock < MaxClock THEN clock + 1 ELSE clock
    /\ UNCHANGED <<threadVars, processVars, outcome>>

Alive == leader = "running" \/ helpers # {}

Fork ==
    /\ Alive
    /\ \E h \in Helpers \ helpers : helpers' = helpers \cup {h}
    /\ UNCHANGED <<threadVars, leader, returncode, clock, outcome>>

HelperExits ==
    /\ \E h \in helpers : helpers' = helpers \ {h}
    /\ UNCHANGED <<threadVars, leader, returncode, clock, outcome>>

LeaderExits(code) ==
    /\ leader = "running"
    /\ leader' = "zombie"
    /\ returncode' = code
    /\ UNCHANGED <<threadVars, helpers, clock, outcome>>

\* Mutant: only the child is killed.
KillLeader ==
    /\ leader' = IF leader = "running" THEN "zombie" ELSE leader
    /\ returncode' = IF leader = "running" THEN SIGKILL ELSE returncode
    /\ UNCHANGED helpers

\* _kill_group: nothing happens when no process of the group is left.
KillGroup ==
    /\ leader' = IF leader = "running" THEN "zombie" ELSE leader
    /\ returncode' = IF leader = "running" THEN SIGKILL ELSE returncode
    /\ helpers' = {}

-----------------------------------------------------------------------------
\* The main thread.
Call ==
    /\ main = "idle"
    /\ main' = "spawn"
    /\ timer' = "none"
    /\ cancelled' = FALSE
    /\ expired' = FALSE
    /\ leader' = "none"
    /\ clock' = 0
    /\ UNCHANGED <<raised, helpers, returncode, outcome>>

Spawn ==
    /\ main = "spawn"
    /\ main' = "arm"
    /\ leader' = "running"
    /\ UNCHANGED <<timer, cancelled, expired, raised, helpers, returncode, clock,
                   outcome>>

SpawnFails ==
    /\ main = "spawn"
    /\ main' = "returned"
    /\ outcome' = [returncode |-> 0, seconds |-> clock, timed_out |-> FALSE,
                   error |-> TRUE]
    /\ UNCHANGED <<timer, cancelled, expired, raised, processVars, clock>>

\* Mutant: the timer is created and not started.
ArmNothing ==
    /\ main = "arm"
    /\ main' = "wait"
    /\ UNCHANGED <<timer, cancelled, expired, raised, processVars, clock, outcome>>

Arm ==
    /\ main = "arm"
    /\ main' = "wait"
    /\ timer' = "armed"
    /\ UNCHANGED <<cancelled, expired, raised, processVars, clock, outcome>>

WaitReturns ==
    /\ main = "wait"
    /\ leader = "zombie"
    /\ leader' = "reaped"
    /\ main' = "cancel"
    /\ UNCHANGED <<timer, cancelled, expired, raised, helpers, returncode, clock,
                   outcome>>

\* A KeyboardInterrupt or another exception leaves the wait.
Interrupted ==
    /\ main = "wait"
    /\ main' = "cancel"
    /\ raised' = TRUE
    /\ UNCHANGED <<timer, cancelled, expired, processVars, clock, outcome>>

Cancel ==
    /\ main = "cancel"
    /\ main' = "join"
    /\ cancelled' = TRUE
    /\ UNCHANGED <<timer, expired, raised, processVars, clock, outcome>>

Join ==
    /\ main = "join"
    /\ timer = "ended"
    /\ main' = "kill"
    /\ UNCHANGED <<timer, cancelled, expired, raised, processVars, clock, outcome>>

Kill ==
    /\ main = "kill"
    /\ main' = "reap"
    /\ KillGroup
    /\ UNCHANGED <<timer, cancelled, expired, raised, clock, outcome>>

Reap ==
    /\ main = "reap"
    /\ leader \in {"zombie", "reaped"}
    /\ leader' = "reaped"
    /\ main' = IF raised THEN "raised" ELSE "result"
    /\ UNCHANGED <<timer, cancelled, expired, raised, helpers, returncode, clock,
                   outcome>>

\* Mutant: only the event counts.
TimedOutByEvent == expired

TimedOut == expired \/ clock > Limit

Result ==
    /\ main = "result"
    /\ main' = "returned"
    /\ outcome' = [returncode |-> returncode, seconds |-> clock,
                   timed_out |-> TimedOut, error |-> FALSE]
    /\ UNCHANGED <<timer, cancelled, expired, raised, processVars, clock>>

MainNext ==
    \/ Spawn \/ SpawnFails \/ Arm \/ WaitReturns
    \/ Cancel \/ Join \/ Kill \/ Reap \/ Result

-----------------------------------------------------------------------------
\* The timer thread: threading.Timer waits for the rest of the limit or for
\* the cancellation, looks at the latter once more, and calls expire.
Wakes ==
    /\ timer = "armed"
    /\ clock >= Limit \/ cancelled
    /\ timer' = IF cancelled THEN "ended" ELSE "expire"
    /\ UNCHANGED <<main, cancelled, expired, raised, processVars, clock, outcome>>

Expire ==
    /\ timer = "expire"
    /\ timer' = "kill"
    /\ expired' = TRUE
    /\ UNCHANGED <<main, cancelled, raised, processVars, clock, outcome>>

ExpireKills ==
    /\ timer = "kill"
    /\ timer' = "ended"
    /\ KillGroup
    /\ UNCHANGED <<main, cancelled, expired, raised, clock, outcome>>

TimerNext == Wakes \/ Expire \/ ExpireKills

-----------------------------------------------------------------------------
RunnerTypeOK ==
    /\ main \in {"idle", "spawn", "arm", "wait", "cancel", "join", "kill", "reap",
                 "result", "returned", "raised"}
    /\ timer \in {"none", "armed", "expire", "kill", "ended"}
    /\ cancelled \in BOOLEAN
    /\ expired \in BOOLEAN
    /\ raised \in BOOLEAN
    /\ leader \in {"none", "running", "zombie", "reaped"}
    /\ helpers \subseteq Helpers
    /\ returncode \in {SIGKILL} \cup OwnCodes
    /\ clock \in 0 .. MaxClock
    /\ outcome \in [returncode : {SIGKILL} \cup OwnCodes, seconds : 0 .. MaxClock,
                    timed_out : BOOLEAN, error : BOOLEAN]

\* When run_process returns or raises, no process of the group is left.
NoSurvivors ==
    main \in {"returned", "raised"} =>
        helpers = {} /\ leader \in {"none", "reaped"}

\* A result that is not timed out is the child's own, and within the limit,
\* also when the child ends while the timer is about to kill it; a result
\* that is timed out took the limit.
TimedOutHonest ==
    main = "returned" =>
        /\ ~ outcome.timed_out /\ ~ outcome.error =>
              outcome.returncode # SIGKILL /\ outcome.seconds <= Limit
        /\ outcome.timed_out => outcome.seconds >= Limit

-----------------------------------------------------------------------------
\* The inductive invariant: what the main thread may rely on at each line.
Returning == {"cancel", "join", "kill", "reap", "result", "returned", "raised"}

RunnerInv ==
    /\ RunnerTypeOK
    /\ NoSurvivors
    /\ TimedOutHonest
    /\ main \in {"idle", "spawn", "reap", "result"} => ~ Alive
    /\ main = "spawn" => leader = "none"
    /\ main = "result" => leader = "reaped"
    /\ (main \in Returning /\ main # "returned" /\ ~ raised) => leader = "reaped"
    /\ raised => main \in Returning \ {"result", "returned"}
    /\ timer \in {"expire", "kill"} => clock >= Limit
    /\ timer = "kill" => expired
    /\ expired => clock >= Limit
    /\ (leader \in {"zombie", "reaped"} /\ returncode = SIGKILL
         /\ main \notin {"idle", "spawn"}) => expired \/ raised \/ main = "returned"

=============================================================================
