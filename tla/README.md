# A verification of the SAT solver, its proof and its evaluation

This directory holds TLA+ models of the solver in `src/`, the TLC runs that check
them on small instances, and proofs checked by TLAPS. The program is a modified
Kissat (`solver/kissat`, about 33,000 lines of C), started behind a symmetry
preprocessor (`solver/satsuma`), with a clausal proof that an independent checker
(`vendor/dsr-trim`) verifies, and a Python harness (`sat_eval`) that runs and judges
the two. The build that matters is `./configure --competition -O3`
(`scripts/build_solver.sh`): assertions are compiled out, so what they say is
stated here as properties.

## 1. The system: an inventory

| Part | State | Operations | Interacts with |
|---|---|---|---|
| Trail and control stack: `inlineassign.h`, `assign.c`, `inlineframes.h`, `backtrack.c`, `trail.c` | `values`, `assigned[]` (level, position, reason), `trail`, `propagate`, `frames`, `unassigned`, `unflushed` | assign, decide, backtrack, flush | everything |
| Propagation and watches: `proplit.h`, `propsearch.c`, `fastassign.h`, `watch.c` | watch lists with blocking literals, clause arena, saved search position, delayed watches | propagate a literal, watch, unwatch | trail; returns a conflict |
| Conflict analysis: `analyze.c`, `deduce.c`, `minimize.c`, `shrink.c`, `strengthen.c`, `learn.c` | analyzed and removable marks, the clause being learned, recently learned clauses | level adjustment, first UIP, on-the-fly strengthening, learning, eager subsumption | trail, watches, proof, queue |
| Search loop: `search.c`, `decide.c`, `restart.c` | limits, result | propagate, analyze, restart, decide, reduce, answer | all of them |
| Reduction and collection: `reduce.c`, `collect.c`, `sort.c` | arena, garbage flags, first reducible clause | choose learned clauses, move clauses, rename references, rewatch | watches, reasons, proof |
| Scores heap: `heap.c`, `inlineheap.h` | stack, positions, scores | push, pop, update, rescale, enlarge, renumber | decisions of stable mode, elimination, factoring |
| Watch lists: `vector.c`, `inlinevector.h`, `stack.h` | one stack of words, a pair of pointers a list | push, remove, resize, release, defragment | propagation, dense mode |
| Decision queue: `inlinequeue.h`, `queue.c`, `bump.c`, `reorder.c`, `mode.c` | links, stamps, search pointer | enqueue, dequeue, bump, decide, switch mode, compact | backtracking, analysis |
| Phases: `phases.c`, `rephase.c`, `warmup.c`, `propbeyond.c`, `walk.c`, `lucky.c` | saved, target and best phases; the walker's counters, flip trail and best values | try lucky assignments, warm up, walk, rephase, save | decide, backtrack |
| Import and names: `import.c`, `internal.c`, `compact.c` | import and export tables, units | add a clause, renumber variables | parsing, extension, proof |
| Elimination: `eliminate.c`, `fastel.c`, `resolve.c`, `gates.c`, `ands.c`, `ifthenelse.c`, `definition.c`, `dense.c` | occurrence lists, gates, candidates | resolve, strengthen, eliminate, resume | proof, extension stack, kitten |
| Model extension: `weaken.c`, `extend.c`, `witness.c` | extension stack | push witness, extend model | elimination, output |
| Other passes: `substitute.c`, `transitive.c`, `backbone.c`, `vivify.c`, `factor.c`, `forward.c` | marks, counters, quotients | replace, derive and drop clauses | proof, extension stack |
| Congruence closure: `congruence.c` | union-find of literals, gate table, occurrences, proof chain | extract, rewrite, merge, subsume | proof, probing |
| Sweeping and its subsolver: `sweep.c`, `kitten.c` | environment, backbone, partition, core; an incremental solver with antecedents | solve, refine, flip, save a core, merge | proof |
| Symmetry preprocessor: `satsuma/src` | formula, symmetry group and its stabilizer chain, coloring, predicate, proof | simplify, detect, fix, cut, iterate | its output is the solver's input |
| Proof: `proof.c`, `check.c`; checker `dsr-trim.c` | lines written; clauses held | add, delete | every clause change |
| Application: `application.c`, `handle.c`, `terminate.c`, `parse.c` | flags set by signals, options | parse, solve, print, exit code | search loop |
| Evaluation: `runner.py`, `check.py`, `cli.py` | process group, timer thread, result, verdict | run, time out, judge, aggregate | solver's exit code, stdout and proof |
| Container adapter: `container.py` | CID files; containers of the docker daemon | run, clean up | evaluation, which kills it |
| Corpus: `corpus.py` | manifest, stored files | fetch, resume, verify | evaluation |

The solver is sequential. Its hard behaviours are not interleavings of threads but
*long sequences of operations on tables that refer to one another*: a literal
assigned at a level below the current one, a clause that is shortened while it is
the reason of an assigned literal, a gate that is rewritten while others wait to be
matched with it, a collection that renames every reference in mid search. A second
difficulty is that each change must be written to the proof, in an order that
leaves the checker with the clauses the solver has. Only the evaluation harness has
real concurrency: a timer thread, a child process with helpers of its own, and
containers that a daemon keeps running when their client is killed.

What makes each part correct, in the terms of the modules below:

* trail — positions, frames and counters survive backtracking that compacts the
  trail in place (`TrailInv`); from outside it is a stack (`StackSpec`);
* propagation — nothing false or unit is overlooked (`PropagationComplete`); watches,
  clauses, units and proof tell the same story (`RecordsAgree`);
* analysis — whatever is assigned for a reason is still implied by it
  (`ReasonsSupport`), whatever happens to the reason;
* search — models satisfy and refutations are right (`AnswerSound`); it ends (`Ends`);
* watch lists — lists that share one stack never meddle with each other (`VectorsInv`,
  `ListsSpec`); heap — what is popped has the highest score (`PrioritiesSpec`);
* reduction — no table keeps an old reference (`CollectedReferences`);
* queue — decisions are on the unassigned variable bumped last (`QueueInv`,
  `OrderSpec`);
* phases — a lucky answer is right (`LuckyAnswers`), target and best phases hold
  the largest trail without a conflict (`PhasesHoldLargest`), a walk exports what it says
  (`WalkChecked`);
* preprocessing — models of the simplified formula extend to the input
  (`Reconstructs`), redundant clauses are redundant (`RedundantFollows`), names stay
  inverse (`NamesInverse`), the proof keeps pace (`ProofFollows`);
* congruence and sweeping — gates and equivalences follow (`GatesImplied`,
  `ModelsKept`), with proof chains (`ChainsAccepted`), and the closure is one
  (`Congruent`);
* kitten — models and cores are what they are called (`ModelFound`, `CoreDerives`);
* symmetry — the formula keeps its answer (`AnswerKept`), the proof is accepted
  (`ProofChecks`), chain and coloring are sound (`ChainSound`, `Equitable`);
* proof — each line is accepted (`ProofAccepted`), solver and checker hold the same
  clauses (`ProofMatchesSolver`), acceptance means consequence (`Implied`), and the checker inside kissat agrees (`NeverAborts`, `AcceptsSoundly`);
* evaluation — a verdict rests on the child's own result (`TimedOutHonest`) and on
  files that nobody changes any more (`VerdictStands`); nothing survives but what docker
  refuses to remove (`NothingLeft`); failures of the harness are not held against the
  solver but for one kind (`HonestNotDisqualified`, `FailuresProveNothing`); it ends, its containers too (`ComesToRest`).

`PROJECT.json` lists the hazards line by line.

## 2. The modules

```
            Clauses                 literals, clauses, truth, RUP
        /      |        \
 Assignment  Certificate  Trail                   Trail implements Assignment
  (spec)      (spec)  \     |
                 |     \  Propagation             EXTENDS Trail
                 |      \     |
                 |   Checker  |                   EXTENDS Certificate
                 +------ Search                   EXTENDS Propagation, implements Certificate
                            |
                         Reduce                   EXTENDS Search

 UnitPropagation                                  closure under unit propagation, for sets
   |     |     |         \
   |     |  Preprocessing  Symmetries
   |     |     |              |       \
   |     |  Inprocessing  SymmetryBreaking  ColorRefinement
   |     |     |               \      /
   |   Kitten  Gates            Satsuma
   |   |   \     |
   |   |    \  Congruence
   | Subsolver \  |
   |           Probing                            congruence closure, then sweeping
 LocalSearch

 VariableOrder (spec) <-- DecisionQueue           implements VariableOrder
 Lists (spec)         <-- Vectors                 implements Lists
 Priorities (spec)    <-- Heap                    implements Priorities

 Runner <-- Evaluation                            EXTENDS Runner

 Recursion     lemmas for all proofs: least naturals, functions by recursion
 TrailProofs <-- SearchProofs <-- WatchProofs <-- AnswerProofs       the search
 CheckerProofs     StructureProofs     EvaluationProofs
```

**Clauses** has no state: variables `1..NVars`, literals as integers (the sign is
the negation; the code's `2*idx + sign` is the same numbering up to renaming),
clauses as sets, entailment, and reverse unit propagation (RUP), stated without
recursion so that proofs can use it: every set of literals that contains the negated
candidate and is closed under unit propagation is contradictory. (The checker computes
the least such set; a contradiction there is one in all of them.)

**Certificate** is what the solver promises the outside world. The checker's
clauses are a bag; a line adds a clause that has RUP, or deletes one that is there
(`delete_parsed_clause` stops the checker with a fatal error otherwise, and ignores
the deletion of a unit). The model checks every line when it is written; the
backward mode of dsr-trim checks only the lines that the refutation needs, which
accepts no less. Lines with a witness come from satsuma and are in
SymmetryBreaking.

**Checker** is `check.c`, the checker that debug builds run beside the solver. It
is fed the lines the external checker accepts. It simplifies a line when it stores
it, throws satisfied ones away and keeps units only as values, so it cannot find
most of what it is told to remove; it also accepts pure and blocked literals, by
lists that are complete only while no long line contains the literal.

**Trail** has one action per function. `kissat_backtrack_without_updating_phases`
is a loop; its iterations are the actions `BacktrackKeep` and `BacktrackUnassign`,
between `BacktrackStart` (cut the frames) and `BacktrackDone` (cut the trail, set
the propagation index back), with the loop's locals in `undo`. The C code runs this
loop without interruption; splitting it makes its invariant visible, and the
invariant is what the proof is about. Reasons are added by Propagation; phases are
in LocalSearch.

**Assignment** is the abstract trail: a set of literals with levels, and
backtracking in one step. `Trail` refines it by forgetting the literals that the
running loop has still to unassign.

**Propagation** adds clauses, watches, reasons and the conflict. A step handles one
watch of `search_propagate_literal`: blocking literal, binary clause, replacement
found from the saved position on (`searched`), true replacement, unit, conflict;
`visit` holds the loop's locals, with the delayed watches. The option `jumpreasons`
and the fast path of `fastassign.h` are there.

**Search** is the loop of `kissat_search`. Handlers that backtrack in the middle
keep the rest of their work in `todo`. Conflict analysis reorders the conflict's
literals, finds the conflict level and a forced literal (chronological
backtracking), resolves backwards along the trail a literal a step, strengthens a
reason that the resolvent subsumes (binary results leave the arena, first
resolutions subsume the conflict), detects failed literals on level one, and
learns. What minimization and shrinking return is *any* clause their rules allow:
`Shrunken` lets each level lose literals or be replaced by one, provided the
dropped ones are covered by implication, `Covered` being the least set closed under
it — the models of `minimize.c` and `shrink.c` are these conditions, not their depth
limits. The order of the literals of a strengthened clause behind the second is left
open. Restart policy and decision heuristic
are likewise any choice the code could make: `Restart` at any time after a conflict,
`SearchDecide` on any literal. Each line written to the proof is in `lines` until
`CheckLine` gives it to the checker, which happens before the next step of the
solver, so `db` never lags behind more than the lines of one step.

**Reduce** adds `kissat_reduce` with the sparse collector: flushing unpropagated
root units first, choosing any subset of the reducible clauses that are no reasons,
shrinking clauses by root literals, moving redundant clauses to the end, renaming
references in reasons and watches, and rewatching.

**DecisionQueue** models the links as the code has them, with stamps that run out at
`MaxStamp` (`UINT_MAX` in the code). Running out happens *inside* an enqueue, after
the links are set and before the stamp is; the renumbering loop is modelled one
variable a step. The search for a decision variable is a loop too. Fixed and
eliminated variables are retired, and compaction (`compact_queue`) renames those
that are left, with the search pointer renamed inside the loop that compares it. The
heap of stable mode is the set of its variables here. **VariableOrder** is the abstract
queue: a sequence, moved to the end when bumped, whose last unassigned member is
decided.

**Heap** is the binary heap of scores, an iteration of its loops a step: the bubbling
element is not in the stack while it bubbles, positions and scores are arrays that are
enlarged (what an allocation leaves uninitialised is `Garbage`), rescaled and renumbered.
**Priorities** is what it promises: a set, a score for each element, and an element of
highest score taken out. **Vectors** is the stack of words that holds all watch lists: a
push copies a list to the end when the word behind it is not free, the words it leaves
become free words that another list may grow into, an empty list may point into the middle
of another, and the stack moves with all its pointers. Defragmentation moves a list a step.
**Lists** is what the users see.

**UnitPropagation** is the least set of literals closed under unit propagation, over
sets of clauses; after a conflict it holds more than a solver would derive, which only
matters where the values in a conflict are kept (LocalSearch stops there). The passes below the search propagate
at the root, where nothing depends on which watch is visited first; they use this
instead of Propagation.

**Preprocessing** is the solver between searches: a record `solver` with a bag of
clauses (literals and the redundant flag), flags of the variables, true literals,
import and export tables, units, the extension stack, the checker's database, and
whether all lines so far were accepted. Its operations are those that all passes
share: `kissat_add` with its satisfied, falsified, repeated and opposite literals;
`Derive` and `DropClause`, which write the lines and update the database;
propagation to completion; collection; compaction with renumbering; weakening and
`kissat_extend`. Each pass that follows is an operator from solver to the *set* of
solvers it may leave, so that order, limits and interruption are free.

It has both elimination passes as well. `Resolved` generates resolvents, skips
pairs within a gate, flushes units found on the way, and strengthens antecedents;
`fastel.c` does the same with its own cases for binary and large antecedents
(`Strengthen`, `ReplaceAntecedents`). Gates come from the syntactic searches
(`EquivalenceGatesOf`, `AndGatesOf`, `IteGatesOf`) and from kitten (`Cores`), one-sided ones too.
`EnterDense` and `ResumeSparse` are the two ends of dense mode, between which
redundant clauses may still contain eliminated variables.

**Inprocessing** has the other passes: substitution of equivalent literals with the
lines that prove and later withdraw the equivalences; transitive reduction; the
backbone of the binary clauses; vivification with its candidates, subsumption,
strengthening and instantiation; factoring, which introduces fresh variables;
duplicated binaries and hyper-binary units; forward subsumption. Its specification adds
clauses, then runs passes in any order.

**Gates** and **Congruence** are `congruence.c`. A closure is a record like the
struct: the solver in the pass, union-find forest, gates with their occurrence
lists, scheduled literals, units and the proof chain. `RewriteGate` has all cases of
AND, XOR and ITE gates that shrink, turn into another kind or become equivalent to
another gate. Congruence extracts them in the order of the code, runs units and
equivalences to the fixed point (an action a literal), and subsumes clauses modulo
the equivalences.

**Kitten** is the embedded solver, an action a call in **Subsolver** and one
operator per function here: watches with blocking literals a watch a step,
decisions by queue, analysis, antecedents of learned clauses including the units it
makes of literals implied at the root, assumptions and failing literals, clausal
cores, shrinking, shuffling, flipping. **Probing** uses it as `sweep.c` does:
environment around a variable, candidates for backbone and partition, refinement
by models and flips, two queries per equivalence, cores whose clauses become
lemmas, substitution in the clauses — after a call of Congruence or before one.

**LocalSearch** is about phases. It has the eight assignments of `lucky.c`, the last four
over the import table, and the ProbSAT walk with the trail of flips and the position of
the best assignment on it. It runs lucky assignments, a stable search that decides, learns the clause
of its decisions, restarts and rephases, the warm-up that propagates beyond
conflicts, and the walk.

**Symmetries** has literals, permutations of literals that commute with negation,
automorphisms, orbits, and the shape tests on clauses (unique literal clauses,
at-most-one constraints). **ColorRefinement** is the hypergraph's coloring and `refinement.h`: a worklist of
cells and one operator per shape of a splitting. **SymmetryBreaking** has the
stabilizer chain of `groups.h` with its transversals by generator and power, sifting, and
changes of base; it writes fixings and their witnesses, and checks lines with witness
as the checker does. **Satsuma** is the main loop of `preprocess`: simplify, transfer, detect
matrices, fix and cut along the chain, iterate, write. Which matrices and
automorphisms the searches propose is part of an instance; the model tests them as
the code does.

**Runner** is `run_process`: an action for each line of the main thread and of the
timer thread (`Wakes` is the wait inside `threading.Timer`, which looks at the
cancellation once more; `Expire` sets the event, `ExpireKills` kills the group), and
for the operating system the clock, the child's end and its helpers. The group is
killed by both threads, before and after the child is reaped. Not there: processes
that leave the group or whose number is used again, an interrupt at another line
than the wait, and an end of the child by a SIGKILL that is not the runner's, which
is another signal here (`OwnSignal`) since the code does not tell them apart either.

**Evaluation** is one call of `evaluate_instance` with the `finally` of
`cli.evaluate`, native or in docker. `SolverVerdict` and `CheckerVerdict` are its
decision tables in the order of the code, over what the candidate left behind: an
output with a status (and a model, right or wrong), a proof, the digest of the
instance. The candidate is external: it writes these at any moment while it runs, and
the constant truth of the formula decides only what can be right. A candidate that is
`honest` writes only right answers, after their proof, with the exit code that
belongs to them, and does not write after its leader ended; it may crash or be killed
like any other. In docker mode the child of the runner is the adapter, which creates
and starts a container and can be killed at any point, leaving a container that is
created, running or gone; `Removed` is `docker rm -f` for both kinds. It may fail for any of
them, with an exit status that `cleanup` does not look at; `refused` remembers what
the last one of the evaluator left, `docker rm` without an answer (`CleanupFails`) leaves
anything and raises, and the evaluator itself may die (`Dies`). A request
to the daemon is taken as atomic: it is not still under way when the adapter that
sent it is dead. A workload that is ended by a signal shows as 128 and its number
(`Shown`): 137 for SIGKILL, which the code knows, and `Signalled` (139) for the others. In the native mode of `cli.evaluate` the finally
does nothing, as in the model.

The modules with the prefix **MC** give the constants small values, those that end in
**Proofs** hold the proofs, and **Recursion** lemmas that they share.
Definitions under a comment that starts with `Mutant:` are deliberately wrong
variants that no specification uses: each shows that some property would notice
that bug.

## 3. The runs

| Run | Module / configuration | Distinct states | Question |
|---|---|---|---|
| `certificate` | MCCertificate | 99,679 | do the two checkers accept consequences only, and agree |
| `chrono` | MCSearch / MCChrono.cfg | 144,230 | do trail, watches and proof survive literals assigned out of order, and does the search end |
| `reduce` | MCReduce | 345,572 | does everything survive strengthening, deletion and compaction in mid search |
| `structures` | MCStructures | 539,921 | do queue, heap and watch lists implement the order, the priorities and the lists their users see |
| `inprocessing` | MCInprocessing | 5,182 | can models be extended after any sequence of passes |
| `probing` | MCProbing | 36,348 | do gates, equivalences and their proofs follow |
| `kitten` | MCSubsolver | 1,134,247 | are models models and cores cores, under incremental calls |
| `symmetry` | MCSymmetry | 52,044 | does symmetry breaking keep the answer, with an accepted proof |
| `walk` | MCLocalSearch | 1,083,835 | are lucky answers right and the phases that are kept the largest |
| `evaluation` | Evaluation / Evaluation.cfg | 769,441 | does a verdict stand, under every interleaving, and is nothing left |
| `signals` | Evaluation / EvaluationSignals.cfg | violation | does no failure of a checker disqualify a right answer |
| `matrix` | MCSymmetry / MCMatrix.cfg | violation | does orbitopal fixing keep a satisfiable formula so |

Together the passing runs fire every action.

### Bounds

Every constant that only bounds a run stands in a guard, never in a state constraint.

* `certificate`: `NVars = 3`; `Offered`, nine lines (empty, unit, binary, ternary,
  tautological) that the solver may write; `MaxClauses = 4` clauses of the proof with
  copies. Three variables are needed for a line of three literals one of which is
  false and one true. All three properties are proved without these bounds.
* `chrono`, `reduce`: four variables. The formulas are chosen, not all of that size.
  In `chrono` a unit is learned two levels up and `ChronoLevels = 0` makes every
  backtrack chronological that may be one, so literals land below the current level and are kept.
  `reduce` has the default (`ChronoLevels = 100`: always jump), and clauses of four
  literals, so that strengthening yields large and binary clauses. `BigBig` chooses
  between the two ways a literal is assigned in `fastassign.h`; `JumpReasons`, `Otfs` and
  `EagerSubsume` are options, at their defaults. `MaxReductions = 1`, at any point of the search: the
  collector starts from any arena the search can make. `SearchAssumption` demands
  formulas without tautologies and units, as `kissat_add` sees to.
* `structures`: queue, heap and lists share no state, so a behaviour uses one of the three
  (`structure`), and the states of the run are a sum and not a product. Queue: three
  variables, `MaxStamp = 4`: stamps run out every few bumps, at any place of any
  operation. Heap: elements below four (`MaxVars`, `MaxSize`), two scores. An element that
  went down in a pop and has to go up again needs six elements; only the proof covers it.
  Lists: two literals, interchangeable; two words; two addresses the stack may be at;
  `LdMaxVectors = 3`, that is at most eight words. All five properties of the run are
  proved for any values of these constants.
* `inprocessing`: `Steps = 3` passes after the last clause was added, every order of
  any three; eleven formulas of four or five variables, each with something for several
  passes (comments in the module). A pass is an operator from solver to the set of
  solvers it may leave, which is why so few states hold so many behaviours.
* `probing`: `Steps = 2`: one or two calls; `SweepLimit = 4` active variables, since
  sweeping asks kitten about every choice of the environment (formulas for gates have
  up to seven variables). One formula for each shape that a gate can shrink to.
* `kitten`: `Calls = 2` (the second meets learned clauses, saved phases and old
  values), `Flips = 1`, also between two calls.
* `symmetry`: formulas of up to ten variables, one for each kind of symmetry;
  `MaxIterations = 2`, the first of which may change the formula under the second;
  `Factors = 1` generator multiplied to a random element; `SchreierDomainLimit = 6`
  puts instances on both sides of the limit. `MinTripleReplace = 1` and
  `TernaryLimit = 3` are 16 and 2048 in the code (`matrix` has those values): with
  these no small formula would reach the replacement of ternary clauses. For the
  same reason a Johnson graph has six pairs of four points; the code looks for 28 of eight.
* `walk`: `MaxRephases = 6` is one turn of the schedule (best, walking, inverted, best,
  walking, original); `MaxFlips = 6` flips go past a
  best assignment and back to another one.
* `evaluation`: a `Limit` of two ticks and a clock that stops at three distinguish a
  run that ends before, at and after its limit; solver and checker share the limit. One
  helper shows survival; the invariants are proved for any number and any limit.

`CHECK_DEADLOCK FALSE` is used where the component may rightly come to rest: a
proof may end anywhere, a queue may lose its last variable, the bounds on passes, calls
and flips are used up, the output of satsuma is written, a local search has its
answer. Search, Reduce and Evaluation end in states with a step of their own, so for them
TLC also shows that nothing gets stuck.

### Fairness

`Ends` assumes `WF_searchVars(SearchNext)` and nothing about single actions: the solver
is one thread and some step is always taken. That restarts cannot starve the search
is not assumed: `Restarting` demands a conflict since the last restart, because both
schedules (`kissat_restarting` with its conflict limit, and reluctant doubling, ticked
per conflict) count conflicts. A variant without that condition violates `Ends`.

`FairEvaluation` assumes that the evaluator's thread, the timer thread, time and the
timeout inside a container go on (weak fairness of `Evaluator`, `TimerStep`, `Time`,
`InnerTimeout`), that is, the operating system schedules them. It assumes nothing of
the candidate, of its adapter or of the daemon otherwise: a child that hangs forever
is the case the property is about. `Evaluator` contains `WaitReturns`, which is
enabled only once the child ended, so the timer has to do its work for the wait to
return.

### What the properties say

One property per module states types, where it is needed, and is a conjunct of the
invariant named below.

* `TrailInv`: positions, frames and counters, in the middle of the backtracking loop
  too. `StackSpec`: the trail refines a stack of levels.
* `RecordsAgree`: a clause that is no garbage is watched in exactly its first two
  literals and blocking literals lie in their clause, after each visit of a watch
  list, also when a conflict cut it short with watches delayed (`WatchesMatch`); the array
  of units is what is assigned at the root, flushed or not (`UnitsMatchRoot`); types.
* `PropagationComplete`: when the search thinks propagation is complete, every clause is
  satisfied or has two open literals. With literals below the current level
  this is where an implication is lost.
* `ReasonsSupport`: a reason implies its literal at its level, whatever was
  strengthened, subsumed or moved. `ProofMatchesSolver`, `ProofAccepted`: the
  checker holds what the solver holds, and accepts. `CollectedReferences`: reasons,
  watches and the recently learned clauses name clauses. `AnswerSound`: both answers.
* `VectorsInv`: non-empty lists are disjoint and hold no free word, and every word outside of
  them is free, so that a list may grow into the word behind it without asking whose it was.
  `ListsSpec`, `PrioritiesSpec`: the refinements of Lists and Priorities.
* `QueueInv`: the search pointer has only assigned variables behind it, list and stamps
  are in one order, the heap covers what can be decided. `OrderSpec` is the
  refinement of the abstract queue.
* `Reconstructs`: any model of the current formula, extended as `kissat_extend` does,
  satisfies the input. Every model is tried, not only the one a search would find.
  `RedundantFollows`: a redundant clause follows from the irredundant ones, so it may be
  forgotten. `ProofFollows`: each line was accepted when it was written, and the
  database holds the solver's clauses and, but for units, no others. `NamesInverse`: import and export tables, with all fixed variables
  on one literal.
* `GatesImplied`: each live gate and each merged pair of literals is a consequence.
  `Congruent`: when the closure is finished without conflict, the live gates have
  representatives without values as inputs, and no two of a kind have the same inputs.
  It is claimed of live gates only: a gate that contains its own left side, or meets it
  when it is rewritten (`rewriting_lhs`), is discarded, and what it implied is not
  looked for again. `ModelsKept`: closure and sweeping keep the set of models.
  `ChainsAccepted`: each line is accepted when it is written, and what is deleted
  was there.
* `ModelFound`: status 10 comes with a model of clauses and assumptions.
  `CoreDerives`: a core is a derivation. Each learned clause in it has RUP with respect to those
  before, and the last one is falsified by the failed assumptions.
* `ProofChecks`: each line of satsuma has RUP, or is substitution redundant with its
  witness. `AnswerKept`: the output has a model if the input has, and its models are models of
  the input. `ChainSound`: generators are symmetries, and the transversal element of a point
  moves it to its base point and fixes the base points before. `Equitable`: the
  members of a cell have equally many neighbours in every cell, and no symmetry
  moves a literal out of its cell.
* `LuckyAnswers`: 10 comes with a model, 20 with an inconsistent formula.
  `PhasesHoldLargest`: target and best phases contain the largest trail without a conflict
  that the search was on since they began to be collected, and their recorded sizes are its
  size, unless the search is on a larger one now: backtracking must save it before
  it undoes it, and must not save what falsifies a clause. The variable `largest` is a history of the
  trails, which no action reads. `WalkChecked`: the exported phases falsify as many clauses as
  the minimum that the walk reports, and fewer than those it started from.
* `NeverAborts`: the internal checker accepts each line that the external one
  accepts, and finds or recognises each that it is told to remove. `AcceptsSoundly`: any
  line that it accepts keeps its lines satisfiable.
* `TimedOutHonest`: a result that is not marked as timed out is the child's own.
  `VerdictStands`: what a verified answer rests on is not written after it was checked.
  `FailuresProveNothing`: an honest solver is never disqualified, which is a comment of
  `runner.py` and does not hold (`signals`). `HonestNotDisqualified`: it is for one failure only,
  the end of its contained checker by a signal other than SIGKILL.
  `NothingLeft`: a finished evaluation leaves no process and, once cleaned up, no
  container but those whose removal docker refused. `ComesToRest`: the evaluation ends and its containers do, which is what
  a comment of `container.py` says of the inner timeout; it holds after every failure in
  the model.

### Findings

* **`signals`.** "Checker infrastructure/resource failures do not prove an answer wrong"
  (`runner.py:303`). A checker on the host that is ended by a signal has a negative exit code, which
  becomes `checker_resource` (`runner.py:310`). In a container the same checker gives 128
  and the signal, and only 137 is looked for (`runner.py:308`): with SIGSEGV, SIGABRT,
  SIGXCPU or SIGXFSZ the code goes on to `checker_verified`, and the answer is marked
  `invalid` and disqualified.
* **`matrix`.** `orbitopal_fixing_row_column` (`symmetries.h:1874`), when *rows* hold
  the unique literal clauses, adds a unit for cell (j, 0) under
  `k == size - j - 1 && k == 0`, which is the last row's first cell, where the triangle
  that is fixed to false has its corner in the first row. The instance: nine variables in
  three rows that must all choose the same column. The code's constants are used
  for this run.
* **Without a run.** `flip_literal` (`kitten.c:1786`) passes over watches whose blocking
  literal is true. Propagation may have moved the two watches of that clause since the
  blocking literal was set, so that after two flips a clause can be false. Nothing in the
  source promises otherwise; `sweep.c`, the only caller, drops candidates by flipped
  values and proves those that are left, so sweeping becomes weaker, not wrong.
* **Without a run.** `checker_blocked_literal` (`check.c:787`) takes a line for
  redundant because a literal of it is blocked, looking at the lines that it kept.
  It keeps neither units nor lines that were satisfied when they were added: for
  {-x}, {-y,z}, {-y,-z} the line {x,y} is accepted, although it is not
  redundant. Debug builds only, where the checker is an assertion about the solver;
  `AcceptsSoundly` excludes by a precondition the lines with a literal that is false at the
  root, which the solver never writes.

## 4. The proofs

**The certificate and the checker inside the solver** (`CheckerProofs`, for any `NVars`, any
set of formulas, any lines offered; assumptions `NVarsAssumption`, `FormulasAssumption` and
those of Checker). `RupImplies`: a candidate that has RUP with respect to a set of clauses
is entailed by it. An assignment that satisfies the formula and falsifies the candidate
makes true a closed set of literals that contains the negated candidate, so that set would
be contradictory, which the literals of an assignment never are. `CertificateImplied`
follows by induction on steps (`Implied` itself is inductive together with typing:
additions have RUP, deletions shrink), and `CertificateRefutes` from it with the empty
clause. `CheckerNeverAborts` and `CheckerAcceptsSoundly` are about the internal checker,
which computes with the closure under unit propagation: that the recursive function
`UnitClosure` is defined, closed and least comes first, by the lemmas of Recursion. The
inductive invariant says what a stored line owes to the line it was simplified from, and that
the values are the closure of what is stored; a removal that finds nothing then must
be one of the kinds the code recognises. `CheckerAcceptsSoundly` is about single lines: one that
is accepted as satisfied, pure, implied or blocked, and has no literal that is false at the root,
leaves the held lines satisfiable if they were. It does not say that such a line
follows, and a blocked one need not. `CheckerImplied` is about the whole: over all additions,
removals and shrunken clauses, each line *held inside* and each value follows from the
formula, and `inconsistent` refutes it, because what is handed in has RUP over the external
checker's lines (`HeldImplied`), and simplification and propagation keep consequences
(`PropagatedAgrees`, `InsertAgrees`, `RemoveAgrees`).

**The trail** (`TrailProofs`, for any `NVars`). `TrailInvariant` proves `TrailInv`,
which `chrono` checks inside the search:

* `SlotsTrue` — each live slot holds a true literal and its variable knows the slot,
  so no variable has two. "Live" are all slots, but while a backtrack runs those
  between its write index `q` and its read index `p` are stale;
* `LoopBounds` — `from <= q <= p`, so a kept literal slides down, never over one
  that has still to be read;
* `FramesDelimitLevels` — nothing before a frame has its level: the loop may start
  at the frame although the trail is not sorted;
* `PropagatedBelowFrames` — decisions are only made after complete propagation, so
  setting the propagation index back does not fall below a frame;
* `LevelBound` — what the loop has kept is within the new level;
* `UnassignedCounts`, `UnflushedCounts` — the counters are cardinalities of sets that
  one step changes by one element. Root units are counted by slot: a flushed unit
  stays assigned without a slot.

One lemma per action says that it preserves the invariant. `TrailPositions`,
`TrailFrames` and `TrailFlush` are its corollaries under `Spec`; the last needs that
at level zero every live slot is a root slot. `TrailImplementsStack` proves
`TrailSpec => StackSpec`: deciding, assigning and starting a backtrack are steps of
the abstract stack, every other step is a stutter — in particular unassigning a
literal, whose assignment the abstraction had already forgotten.

**The evaluation** (`EvaluationProofs`, for any `Limit` below `MaxClock` and any set of
helpers; assumption `RunnerAssumption`). `RunnerInvariant` proves `RunnerInv`: at
each line of the main thread, what is known of the child, the timer and the cause of
an exit code. Its heart is the last conjunct: a child with the exit code of the runner's
kill was killed by the timer, after the event was set, or after an exception —
the kill in the `finally` finds the child reaped. So the event is set before a result
is made of that code, however late the timer fires. `RunnerLeavesNothing` and
`RunnerHonest` are corollaries. `VerifiedInTime` carries the solver's time through
the checker's run. `VerdictsStand` rests on `StandsInv`: when the checker is called
the helpers are dead and the solver's container is gone, since the adapter returned an
answer only after its container had ended; so `Write` is disabled from then on, and
what the checker accepted when it ended stays as it is. `NothingIsLeft` adds that
no adapter is alive when the clean-up begins, hence no container appears after it: what is
left is in `refused`, the containers that this clean-up asked docker in vain to remove.

`HonestStays` is the longest: what the evaluator concludes at each of its lines from the
digests, the statuses and the deadlines it has seen, against what an honest candidate may
have done by then. The one case left is a contained checker with exit code `Signalled`,
which is the finding `signals`: nothing else disqualifies an honest candidate.

**The search** (`TrailProofs` from its second half on, then `SearchProofs`; for any `NVars`,
any formulas that satisfy `SearchAssumption`, and any options). `SearchInvariant` proves
`SearchSpec => []SearchInv`, from which the theorems below follow. Its parts:

* `TrailInv` — so the search meets the precondition of every function of the trail
  (`SearchTrail`), and refines the abstract stack (`SearchImplementsStack`);
* `RootSound`, `ArenaSound` — what is true at the root and every clause in the arena follows
  from the formula. Deletion needs no argument for this, strengthening and learning do;
* `WatchesSound` — a watch names a clause that is there, in one of its first two literals, once
  in a list; a binary watch stands for a clause that follows. It is stated of the *hands*
  (`HandsOf`): the lists as they would be if the loop over one were left now, since that loop
  holds watches in three places at once;
* `ReasonsSound` — the reason of a true literal above the root contains it, its other literals
  are false, not above its level, one of them at its level, and earlier on the trail. It
  holds in the middle of a backtrack of the literals that the loop will not undo (`Forced`);
* `Fits` or `Doomed` — the reason is no garbage and has the literal among its first two. That is
  what conflict analysis relies on, but it is *not* invariant: on-the-fly strengthening
  removes the literal from its own reason, and makes the reason garbage when two literals
  are left. Such a literal is `Doomed`: it lies past the last literal of its level in the conflict
  (`PastFrontier`), so that the analysis, which walks backwards from there, does not
  come by, and the backtrack that follows undoes it. This is the strengthening that
  makes `ReasonsSupport` inductive, and the argument the code leaves implicit;
* `ConflictSound`, `ResolventSound` — conflict and resolvent follow from the formula, and their
  literals stay false under every backtrack still to come (`Safe`, `Targets`);
* `TodoSound` — what each pending step of a handler needs will still hold when its turn
  comes, and in which order steps stand. The subsumption at the end of learning may mark a
  clause garbage only if it is longer than the learned one: so never the reason just made.

`SearchReasons` is `ReasonsSupport`, `SearchRefutes` says that answer 20 is right.
One lemma per action says that it preserves the invariant (`PropagateInv` with one for each
kind of watch, `UndoInv`, `AnalyzeConflictInv`, `DeduceAndLearnInv`, `DeduceAndStrengthenInv`, ...);
`Unmoved` and `Bystanders` collect what steps that leave trail or clauses alone keep.

**Completeness and answers** (`WatchProofs`, then `AnswerProofs`; same assumptions).
`SearchInvariant` says that what the search derives is right; that it overlooks nothing is a
second invariant, `WatchedInv` with `PlanInv` and `AnswerInv`:

* `FirstsHeld`, `BothHeld`, `BlockingInside` — clauses are watched in their first two literals,
  binary ones from both sides, blocking literals lie in their clause;
* `Attention` — the heart. A literal is `Settled` if it is false and propagation has passed
  it, as far as it will still have when the backtracks to come are done (`Reach`). A clause
  watched in a settled literal is the conflict, or the one a pending step will force a
  literal with, or its blocking literal or other watched literal is true and `Outlasts` the
  false one: it has no higher level, or the false one lies above the place to which propagation
  returns when the true one's level goes. The second case is the one that chronological
  backtracking needs: a true blocking literal may be of a *higher* level than the false watch;
* `VisitPlaced`, `ConflictOnTop`, `ForcesTop`, `ForcesPaired` — where the loop over a watch list
  stands, which levels the watched literals of a conflict or of a learned clause have, and
  that a new binary clause is forced next: what makes `Attention` survive analysis;
* `Kept` — each clause of the formula is still there, but for literals false at the root;
* `Finished`, `EmptyLast` — answers come when nothing is pending; the empty clause is the last line.

At the end of propagation every false literal is settled, so `SearchComplete`
(`PropagationComplete`); with no variable open and by `Kept` the trail is a model, so
`SearchAnswers` (`AnswerSound`, for 10 and 20).

**The decision queue** (`StructureProofs`, for any variables and `MaxStamp`).
`QueueInvariant` first rewrites `QueueInv` with a *key* of each variable, its stamp but for
the one that waits for it in the middle of an enqueue; then the list is sorted by key
(`KeyInv`), and removing, appending and any monotone change of keys keep that. Stamps run out
in the middle of an enqueue; the renumbering loop is such a monotone change at each of its
iterations. `QueueImplementsOrder`: the abstract sequence is the sorted
enumeration of the variables, which is unique (`EnumerationUnique`).

**The watch lists** and **the heap** (`StructureProofs` too), for any number of lists or
elements. `VectorsKeptApart` and `VectorsImplementLists`: no operation on a list is seen
through another, also while defragmentation has moved some lists and not others, where a list
may be copied onto its own old words. `HeapOrdered` and `HeapImplementsPriorities`: the heap
is ordered but for the hole of the bubbling element (`Near`), which bounds what is above
and below it; so what is popped has the highest score, by induction along the
path to the root, which the lemmas of Recursion provide.

**Induction.** The library's induction theorems take an operator as a parameter, which the
provers cannot instantiate. Recursion has what the proofs need instead: a non-empty set of
naturals has a least element (`LeastNatural`), from the library's theorem about
well-founded orderings of finite sets, and functions given by their graphs.

**Only model-checked.** Of Search: `RecordsAgree`, `ProofMatchesSolver`, `ProofAccepted`. Of Reduce: that a collection keeps all this
(`CollectedReferences`). All modules below UnitPropagation other than Checker compute with
RECURSIVE operators (union-find, the loops of kitten, the collectors, the stabilizer chain),
about which the prover can say nothing, so they carry no theorem. `Ends` and
`ComesToRest` are liveness, for which the prover has no means.

## 5. Not modelled, and the plan

Not modelled, with the reason:

* **Application and signals** (`application.c`, `handle.c`, `terminate.c`): option
  parsing and printing; a handler sets a flag, which is `Terminate` in Search, or prints
  statistics in the middle of anything and raises the signal again. What it reads then
  may be inconsistent, which concerns the printed numbers only.
* **Scores** are numbers of any size: how floating point rounds them is not in Heap.
* **Minimizing and shrinking** as algorithms (`minimize.c`, `shrink.c`): their results are
  any clause the covering condition allows.
* **Schedules and limits** (`reluctant.c`, `averages.c`, `kimits.c`, ticks): when a pass
  starts and how long it runs is a free choice, except that restarts need conflicts.
* **Compaction** of phases, scores, frames and trail (`compact.c`): names, units,
  extension stack and queue are modelled.
* **The other propagators** (`propdense.c`, `proprobe.c`, `propinitially.c`, `propbeyond.c`) watch by watch:
  they differ from `proplit.h` in what they skip; their result is what is used.
* **Automorphism search, cliques, lex-leader predicates** of satsuma: its
  results are tested before they are used; the approach of this program writes
  no predicates with auxiliary variables.
* **Other input formats, DIMACS parsing, printing, statistics, memory, build scripts.**
* **Corpus and summaries** (`corpus.py`, `summarize`): sequential file handling and
  sums. `fetch` resumes from a manifest; an interruption between storing a file and
  recording its digest is in the hazard list.
* **The vendored checker** beyond what it accepts: backward mode, hashes, binary format.

What would come next, in this order: a collection that keeps the invariant of the
search; `ProofMatchesSolver` as a theorem; the minimization and shrinking algorithms with
their caches against `Shrunken`; recursive functions instead of RECURSIVE operators in
Gates, so that its union-find can be reasoned about; the aggregation of repeats in
`summarize`; the download with its manifest.

## 6. Reading the models beside the code

Where a definition looks wrong at first sight, the code does that:

* **Search.** A level-one conflict learns failed literals; a strengthened conflict goes
  back to analysis without learning. `options.h` has `DBGOPT (check, 2, ...)`, so
  release builds have no internal checker.
* **fastel.c.** For a clause with two true literals `flush_occurrences` would move its write
  pointer back twice; but units are propagated after each candidate, and a satisfied
  clause is garbage before it is looked at.
* **Congruence.** Units are not learned while gates are extracted. The shrinking chain of
  XOR gates passes over each clause twice. An ITE gate whose left side has a value
  is not simplified.
* **Sweeping.** Backbone literals that kitten has fixed are not exported as units. Merging a
  class learns the literal in the binary case and its representative in the large
  one. Rounds of the environment are bounded by depth: the model has one or two.
  `flip_partition_literals` asserts a size above one, which the first class may lack; the
  assertion is compiled out.
* **Kitten.** `kitten_shrink_to_clausal_core` keeps the reference of an empty clause
  that was in the input, though the clause has moved.
* **Local search.** `flipped` is incremented twice for a flip (`walk.c:743` and `:470`), so
  that as long as the number of false clauses is even only odd positions of their stack are
  picked. Phases of the warm-up are
  overridden by target phases, if there is a target; a walk that improves nothing
  keeps the warm-up's. `export_best_values` gives inactive variables phase zero.
  LocalSearch has stable mode only, keeps no learned clauses beyond the one it backjumps
  with, and leaves the extra units of failed literals to Search.
* **Satsuma.** `formula.n_variables() < 20000` is tested on a formula that was cleared
  before, so it is always true. Colours of unused variables may coincide with colours of
  hyperedges, which is harmless. A Johnson graph is looked for in orbits of 28 variables or more.

Abstractions used everywhere: a reference is an index of the arena instead of a byte
offset, so `ref < start` comparisons keep their meaning; glue, activity and use
counters are gone, what they decide is a free choice; below the search, clauses are sets with a
count of copies and a garbage clause leaves at once.
