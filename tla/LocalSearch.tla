--------------------------- MODULE LocalSearch ----------------------------
(***************************************************************************)
(* Phases: what the search decides with, and everything that sets them.    *)
(* Lucky assignments come first; then a stable search decides, conflicts,  *)
(* restarts and rephases, where the walking rephase warms up by            *)
(* propagating beyond conflicts and then walks.                            *)
(*                                                                         *)
(* The search is that of module Search seen from its phases: variables are *)
(* decided in any order, a conflict learns the clause of the decisions.    *)
(***************************************************************************)
EXTENDS UnitPropagation

(***************************************************************************)
(* Lucky assignments (lucky.c): before the search, all variables set to    *)
(* one value in the order of the import stack or its reverse.              *)
(*                                                                         *)
(* s is the part of the solver that decisions and phases live in: the      *)
(* irredundant clauses, a sequence of sets of literals; the root units;    *)
(* and the levels, each the literals assigned on it, its decision beside.  *)
(***************************************************************************)
Formula(s) == ToSet(s.clauses)
Assigned(levels) == UNION {levels[k].lits : k \in DOMAIN levels}
Values(s) == s.units \cup Assigned(s.levels)
ActiveVars(s) == s.vars \ {Abs(l) : l \in s.units}
Open(s) == {i \in s.vars : {i, -i} \cap Values(s) = {}}

\* A new level with its decision, propagated until nothing is left or a clause
\* is falsified.
Assume(s, l) ==
    LET closed == UnitClosure(Values(s) \cup {l}, Formula(s))
    IN [s EXCEPT !.levels = Append(@, [decision |-> l, lits |-> closed \ Values(s)])]

Falsified(s) == Conflicting(Values(s), Formula(s))
Backtrack(s, level) == [s EXCEPT !.levels = SubSeq(@, 1, level)]

-----------------------------------------------------------------------------
(***************************************************************************)
(* The check that no clause has only literals of one sign.                 *)
(***************************************************************************)
OnlySigned(s, C, sign) ==
    IF Cardinality(C) = 2
    THEN \A l \in C : Sign(l) = sign /\ Abs(l) \in ActiveVars(s)
    ELSE \A l \in C : Sign(l) = sign \/ -l \in s.units

NoneSigned(s, sign) == \A C \in Formula(s) : ~ OnlySigned(s, C, sign)

\* Every open variable set to the value.
AssumeAll(s, sign) ==
    FoldLeft(LAMBDA t, i : IF i \in Open(t) THEN Assume(t, sign * i) ELSE t,
             s, [i \in 1 .. Max(s.vars) |-> i])

-----------------------------------------------------------------------------
(***************************************************************************)
(* The passes along the import stack.  A conflict on a level above the     *)
(* first turns the last literal; on the first level it is a failed literal *)
(* and leaves units.                                                       *)
(***************************************************************************)
Passes == << [sign |-> -1, forward |-> TRUE], [sign |-> 1, forward |-> TRUE],
             [sign |-> -1, forward |-> FALSE], [sign |-> 1, forward |-> FALSE] >>

Import(s, pass, n) == IF pass.forward THEN n ELSE Max(s.vars) + 1 - n

\* analyze_failed_literal learns the negation of the decision and of literals
\* that alone lead to the conflict: which of those, its reasons decide.
FailedUnits(s, l) ==
    LET conflict == Assume(s, l)
        alone == {k \in conflict.levels[1].lits \ {l} : Falsified(Assume(s, k))}
    IN {Neg(U) \cup {-l} : U \in SUBSET alone}

LearnUnits(s, U) ==
    [s EXCEPT !.levels = <<>>, !.units = UnitClosure(@ \cup U, Formula(s))]

\* Mutant: the literal is not turned after a conflict.
VisitUnturned(s, l) ==
    LET assumed == Assume(s, l)
    IN IF Abs(l) \notin Open(s) \/ (Falsified(assumed) /\ s.levels # <<>>)
       THEN {[s |-> s, res |-> "continue"]}
       ELSE IF ~ Falsified(assumed) THEN {[s |-> assumed, res |-> "continue"]}
       ELSE {LET learned == LearnUnits(s, U)
             IN [s |-> learned, res |-> IF Falsified(learned) THEN "refuted" ELSE "continue"] :
             U \in FailedUnits(s, l)}

\* What a pass does at a variable of the stack: the solvers it may leave, and
\* whether it goes on, gives up, or has refuted the formula.
Visit(s, l) ==
    LET assumed == Assume(s, l)
        turned == Assume(s, -l)
    IN IF Abs(l) \notin Open(s) THEN {[s |-> s, res |-> "continue"]}
       ELSE IF ~ Falsified(assumed) THEN {[s |-> assumed, res |-> "continue"]}
       ELSE IF s.levels # <<>>
            THEN IF Falsified(turned) THEN {[s |-> Backtrack(s, 0), res |-> "give up"]}
                                      ELSE {[s |-> turned, res |-> "continue"]}
       ELSE {LET learned == LearnUnits(s, U)
             IN [s |-> learned, res |-> IF Falsified(learned) THEN "refuted" ELSE "continue"] :
             U \in FailedUnits(s, l)}

-----------------------------------------------------------------------------
(***************************************************************************)
(* Local search (walk.c): ProbSAT on the irredundant clauses, started from *)
(* the decision phases.                                                    *)
(*                                                                         *)
(* Phases and values are sets of literals without opposite ones.  A walker *)
(* is a record like the struct; a counter is the index of its clause.      *)
(***************************************************************************)
\* The phases P with the literals L written over them.
Over(P, L) == (P \ Neg(L)) \cup L
Written(P, lits) == FoldLeft(LAMBDA Q, l : Over(Q, {l}), P, lits)
Unsatisfied(P, clauses) == {c \in DOMAIN clauses : clauses[c] \cap P = {}}

\* INVALID_BEST_TRAIL_POS
Invalid == -1

\* push_unsat and pop_unsat: the last counter takes the place of the popped one.
PushUnsat(w, c) == [w EXCEPT !.pos[c] = Len(w.unsat) + 1, !.unsat = Append(@, c)]
PopUnsat(w, c) ==
    LET other == Last(w.unsat)
        pos == w.pos[c]
    IN [w EXCEPT !.unsat = Front(IF other = c THEN @ ELSE ReplaceAt(@, pos, other)),
                 !.pos[other] = IF other = c THEN @ ELSE pos]

\* Connected counters: the clauses the root does not satisfy, binary ones
\* first, without false literals.
InitWalker(clauses, values) ==
    LET start == [values |-> values, clauses |-> clauses,
                  count |-> [c \in DOMAIN clauses |-> Cardinality(clauses[c] \cap values)],
                  pos |-> [c \in DOMAIN clauses |-> 0], unsat |-> <<>>, best |-> values,
                  bestTrail |-> 0, trail |-> <<>>, minimum |-> 0, initial |-> 0, flipped |-> 0]
        w == FoldLeft(LAMBDA v, c : IF v.count[c] = 0 THEN PushUnsat(v, c) ELSE v,
                      start, [c \in DOMAIN clauses |-> c])
    IN [w EXCEPT !.minimum = Len(w.unsat), !.initial = Len(w.unsat)]

-----------------------------------------------------------------------------
(***************************************************************************)
(* Flipping a literal.                                                     *)
(***************************************************************************)
Occurrences(w, l) == SelectSeq([c \in DOMAIN w.clauses |-> c], LAMBDA c : l \in w.clauses[c])

MakeClauses(w, l) ==
    FoldLeft(LAMBDA v, c : LET u == [v EXCEPT !.count[c] = @ + 1]
                           IN IF v.count[c] = 0 THEN PopUnsat(u, c) ELSE u,
             w, Occurrences(w, l))

BreakClauses(w, l) ==
    FoldLeft(LAMBDA v, c : LET u == [v EXCEPT !.count[c] = @ - 1]
                           IN IF u.count[c] = 0 THEN PushUnsat(u, c) ELSE u,
             w, Occurrences(w, -l))

FlipLiteral(w, l) == BreakClauses(MakeClauses([w EXCEPT !.values = Over(@, {l})], l), l)

\* pick_literal: the clause is given by the number of flips, which counts two
\* a step; scores and a random number pick the literal.
PickedClause(w) == w.clauses[w.unsat[((w.flipped + 1) % Len(w.unsat)) + 1]]

-----------------------------------------------------------------------------
(***************************************************************************)
(* The best values: all of them, and the flips since then as a trail of    *)
(* bounded length with the position of the best.                           *)
(***************************************************************************)
\* Mutant: the position of the best is kept although the trail is shifted.
SaveWalkerTrailPosition(w, keep) ==
    [w EXCEPT !.best = Written(@, SubSeq(w.trail, 1, w.bestTrail)),
              !.trail = IF keep THEN SubSeq(@, w.bestTrail + 1, Len(@)) ELSE @]

SaveWalkerTrail(w, keep) ==
    LET saved == [w EXCEPT !.best = Written(@, SubSeq(w.trail, 1, w.bestTrail))]
    IN IF keep
       THEN [saved EXCEPT !.trail = SubSeq(@, w.bestTrail + 1, Len(@)), !.bestTrail = 0]
       ELSE saved

PushFlipped(w, l, limit) ==
    CASE w.bestTrail = Invalid -> w
      [] w.bestTrail # Invalid /\ Len(w.trail) < limit -> [w EXCEPT !.trail = Append(@, l)]
      [] w.bestTrail > 0 /\ Len(w.trail) >= limit ->
            LET kept == SaveWalkerTrail(w, TRUE) IN [kept EXCEPT !.trail = Append(@, l)]
      [] w.bestTrail = 0 /\ Len(w.trail) >= limit ->
            [w EXCEPT !.trail = <<>>, !.bestTrail = Invalid]

UpdateBest(w) ==
    LET better == [w EXCEPT !.minimum = Len(w.unsat)]
    IN IF w.bestTrail = Invalid
       THEN [better EXCEPT !.best = w.values, !.bestTrail = 0]
       ELSE [better EXCEPT !.bestTrail = Len(w.trail)]

LocalSearchStep(w, l, limit) ==
    LET flipped == FlipLiteral([w EXCEPT !.flipped = @ + 2], l)
        pushed == PushFlipped(flipped, l, limit)
    IN IF Len(pushed.unsat) < pushed.minimum THEN UpdateBest(pushed) ELSE pushed

Improved(w) == w.minimum # w.initial

\* save_final_minimum
FinalBest(w) ==
    IF w.bestTrail \in {0, Invalid} THEN w.best ELSE SaveWalkerTrail(w, FALSE).best

-----------------------------------------------------------------------------
CONSTANTS
    LocalFormulas,      \* sequences of clauses, binary ones first
    MaxRephases,        \* bounds the rephasings
    MaxFlips            \* bounds the flips of a walk (limit, in walk_steps)

VARIABLES
    formula,            \* the clauses at the start
    solver,             \* see above, with the phases
    walker,
    pc,                 \* "lucky", "pass", "search", "warm", "walk", "done"
    at,                 \* pass and place of a lucky pass
    result,             \* 0, 10 or 20
    largest             \* history: the largest trails without a conflict since
                        \* target and best phases began to be collected

vars == <<formula, solver, walker, pc, at, result, largest>>

VarsOf(F) == {Abs(l) : l \in UNION ToSet(F)}
NoWalker == InitWalker(<<>>, {})

Init ==
    /\ formula \in LocalFormulas
    /\ solver = [vars |-> VarsOf(formula), clauses |-> formula, units |-> {}, levels |-> <<>>,
                 saved |-> {}, target |-> {}, best |-> {}, targetAssigned |-> 0,
                 bestAssigned |-> 0, rephased |-> 0]
    /\ walker = NoWalker
    /\ pc \in {"lucky", "search"}       \* the option "lucky"
    /\ at = [pass |-> 1, pos |-> 0]
    /\ result = 0
    /\ largest = [target |-> {}, best |-> {}]

Finish(res) == pc' = "done" /\ result' = res

-----------------------------------------------------------------------------
(***************************************************************************)
(* kissat_lucky.                                                           *)
(***************************************************************************)
AllTrue ==
    /\ pc = "lucky" /\ NoneSigned(solver, -1)
    /\ solver' = AssumeAll(solver, 1)
    /\ Finish(10)
    /\ UNCHANGED <<formula, walker, at, largest>>

AllFalse ==
    /\ pc = "lucky" /\ ~ NoneSigned(solver, -1) /\ NoneSigned(solver, 1)
    /\ solver' = AssumeAll(solver, -1)
    /\ Finish(10)
    /\ UNCHANGED <<formula, walker, at, largest>>

StartPasses ==
    /\ pc = "lucky" /\ ~ NoneSigned(solver, -1) /\ ~ NoneSigned(solver, 1)
    /\ pc' = "pass"
    /\ UNCHANGED <<formula, solver, walker, at, result, largest>>

NextPass ==
    IF at.pass = Len(Passes)
    THEN pc' = "search" /\ UNCHANGED at
    ELSE at' = [pass |-> at.pass + 1, pos |-> 0] /\ UNCHANGED pc

VisitNext ==
    /\ pc = "pass" /\ at.pos < Max(solver.vars)
    /\ LET pass == Passes[at.pass]
       IN \E v \in Visit(solver, pass.sign * Import(solver, pass, at.pos + 1)) :
            /\ solver' = v.s
            /\ CASE v.res = "continue" ->
                        at' = [at EXCEPT !.pos = @ + 1] /\ UNCHANGED <<pc, result>>
                 [] v.res = "give up" -> NextPass /\ UNCHANGED result
                 [] v.res = "refuted" -> Finish(20) /\ UNCHANGED at
    /\ UNCHANGED <<formula, walker, largest>>

EndPass ==
    /\ pc = "pass" /\ at.pos = Max(solver.vars)
    /\ Finish(10)
    /\ UNCHANGED <<formula, solver, walker, at, largest>>

-----------------------------------------------------------------------------
(***************************************************************************)
(* Decisions, conflicts and restarts, with the phases they leave.          *)
(***************************************************************************)
Forced(s, V) ==
    {l \in UNION Formula(s) : /\ {l, -l} \cap V = {}
                             /\ \E C \in Formula(s) : l \in C /\ C \ {l} \subseteq Neg(V)}

\* Propagation from the values V: it may stop at any conflict it comes upon,
\* and leaves one value for a variable.
RECURSIVE Stops(_, _)
Stops(s, V) ==
    (IF Conflicting(V, Formula(s)) \/ Forced(s, V) = {} THEN {V} ELSE {})
    \cup UNION {Stops(s, V \cup {l}) : l \in Forced(s, V)}

Propagations(s, V) ==
    LET closed == UnitClosure(V, Formula(s))
    IN IF Conflicting(closed, Formula(s)) THEN Stops(s, V) ELSE {closed}

\* kissat_decide_phase in stable mode: target, saved, initial phase.
DecidePhase(s, i) ==
    IF {i, -i} \cap s.target # {} THEN CHOOSE l \in {i, -i} : l \in s.target
    ELSE IF {i, -i} \cap s.saved # {} THEN CHOOSE l \in {i, -i} : l \in s.saved
    ELSE i

\* Outside of probing an assignment saves the phase.
Saving(s) == [s EXCEPT !.saved = Over(@, Values(s))]

\* kissat_update_target_and_best_phases
UpdatePhases(s) ==
    LET V == Values(s)
        n == Cardinality(V)
    IN [s EXCEPT !.target = IF s.targetAssigned < n THEN Over(@, V) ELSE @,
                 !.best = IF s.bestAssigned < n THEN Over(@, V) ELSE @,
                 !.targetAssigned = IF @ < n THEN n ELSE @,
                 !.bestAssigned = IF @ < n THEN n ELSE @]

BacktrackInConsistentState(s, level) == Backtrack(UpdatePhases(s), level)
\* Mutant: the phases are updated after the backjump.
BacktrackAfterConflictLate(s, level) == UpdatePhases(Backtrack(s, level))

BacktrackAfterConflict(s, level) ==
    Backtrack(UpdatePhases(Backtrack(s, Len(s.levels) - 1)), level)

\* A decision, or a literal learned for the current level, propagated.
Decided(s, l) ==
    {[s EXCEPT !.levels = Append(@, [decision |-> l, lits |-> V \ Values(s)])] :
        V \in Propagations(s, Values(s) \cup {l})}

Learned(s, l) ==
    {IF s.levels = <<>> THEN [s EXCEPT !.units = V]
     ELSE [s EXCEPT !.levels[Len(s.levels)].lits = @ \cup (V \ Values(s))] :
        V \in Propagations(s, Values(s) \cup {l})}

\* The part of the trail below the level of a conflict.
Untroubled(s) ==
    IF ~ Falsified(s) THEN Values(s)
    ELSE IF s.levels = <<>> THEN {}
    ELSE Values(Backtrack(s, Len(s.levels) - 1))

\* History: where the search has been with s.
Remember(s) ==
    largest' = [p \in DOMAIN largest |->
                  IF Cardinality(largest[p]) < Cardinality(Untroubled(s))
                  THEN Untroubled(s) ELSE largest[p]]

Decide ==
    /\ pc = "search" /\ ~ Falsified(solver)
    /\ \E i \in Open(solver) : \E s \in Decided(solver, DecidePhase(solver, i)) :
         solver' = Saving(s) /\ Remember(s)
    /\ UNCHANGED <<formula, walker, pc, at, result>>

\* The highest other level in the learned clause: the conflict follows from the
\* levels up to it and the last decision.
JumpLevels(s) ==
    LET last == Len(s.levels) - 1
    IN {k \in 0 .. last :
          k = last \/ Falsified(Assume(Backtrack(s, k), Last(s.levels).decision))}

\* On the first level analyze_failed_literal leaves the phases alone.
Conflict ==
    /\ pc = "search" /\ Falsified(solver) /\ solver.levels # <<>>
    /\ \E level \in JumpLevels(solver) :
         LET jumped == IF Len(solver.levels) = 1 THEN Backtrack(solver, 0)
                       ELSE BacktrackAfterConflict(solver, level)
         IN \E s \in Learned(jumped, - Last(solver.levels).decision) :
              solver' = Saving(s) /\ Remember(s)
    /\ UNCHANGED <<formula, walker, pc, at, result>>

Restart ==
    /\ pc = "search" /\ ~ Falsified(solver)
    /\ \E level \in 0 .. Len(solver.levels) - 1 :
         solver' = BacktrackInConsistentState(solver, level)
    /\ UNCHANGED <<formula, walker, pc, at, result, largest>>

Answer ==
    /\ pc = "search"
    /\ \/ ~ Falsified(solver) /\ Open(solver) = {} /\ Finish(10)
       \/ Falsified(solver) /\ solver.levels = <<>> /\ Finish(20)
    /\ UNCHANGED <<formula, solver, walker, at, largest>>

-----------------------------------------------------------------------------
(***************************************************************************)
(* kissat_rephase.                                                         *)
(***************************************************************************)
RephaseSchedule == <<"best", "walking", "inverted", "best", "walking", "original">>

\* The end of reset_phases.
ResetPhases(s, type) ==
    [s EXCEPT !.target = s.saved, !.targetAssigned = 0,
              !.bestAssigned = IF type = "best" THEN 0 ELSE @]

\* History: from here on they are collected anew.
Forget(type) ==
    largest' = [target |-> {}, best |-> IF type = "best" THEN {} ELSE largest.best]

Rephase ==
    /\ pc = "search" /\ ~ Falsified(solver) /\ solver.rephased < MaxRephases
    /\ LET root == IF solver.levels = <<>> THEN solver
                   ELSE BacktrackInConsistentState(solver, 0)
           type == RephaseSchedule[(solver.rephased % Len(RephaseSchedule)) + 1]
           s == [root EXCEPT !.rephased = @ + 1]
       IN CASE type = "best" ->
                 solver' = ResetPhases([s EXCEPT !.saved = Over(@, s.best)], type) /\ UNCHANGED pc
            [] type = "inverted" ->
                 solver' = ResetPhases([s EXCEPT !.saved = Neg(s.vars)], type) /\ UNCHANGED pc
            [] type = "original" ->
                 solver' = ResetPhases([s EXCEPT !.saved = s.vars], type) /\ UNCHANGED pc
            [] type = "walking" -> solver' = s /\ pc' = "warm"
    /\ Forget(RephaseSchedule[(solver.rephased % Len(RephaseSchedule)) + 1])
    /\ UNCHANGED <<formula, walker, at, result>>

-----------------------------------------------------------------------------
(***************************************************************************)
(* kissat_warmup: decide and propagate beyond conflicts.                   *)
(***************************************************************************)
WarmDecide ==
    /\ pc = "warm" /\ Forced(solver, Values(solver)) = {}
    /\ \E i \in Open(solver) :
         LET l == DecidePhase(solver, i)
         IN solver' = Saving([solver EXCEPT !.levels = Append(@, [decision |-> l, lits |-> {l}])])
    /\ UNCHANGED <<formula, walker, pc, at, result, largest>>

WarmPropagate ==
    /\ pc = "warm"
    /\ \E l \in Forced(solver, Values(solver)) :
         solver' = Saving([solver EXCEPT !.levels[Len(solver.levels)].lits = @ \cup {l}])
    /\ UNCHANGED <<formula, walker, pc, at, result, largest>>

\* The end of the warm-up, also when terminated, and the start of the walk;
\* clauses that the root satisfies are gone from then on.
StartWalk ==
    /\ pc = "warm" /\ Forced(solver, Values(solver)) = {}
    /\ LET s == [Backtrack(solver, 0) EXCEPT
                   !.clauses = SelectSeq(@, LAMBDA C : C \cap solver.units = {})]
       IN /\ solver' = s
          /\ walker' = InitWalker(MapSeq(LAMBDA C : C \ Neg(s.units), s.clauses),
                                  {DecidePhase(s, i) : i \in ActiveVars(s)})
    /\ pc' = "walk"
    /\ UNCHANGED <<formula, at, result, largest>>

-----------------------------------------------------------------------------
(***************************************************************************)
(* kissat_walk.                                                            *)
(***************************************************************************)
TrailLimit(s) == Cardinality(s.vars) \div 4 + 1

WalkStep ==
    /\ pc = "walk" /\ walker.minimum > 0 /\ walker.flipped < 2 * MaxFlips
    /\ \E l \in PickedClause(walker) :
         walker' = LocalSearchStep(walker, l, TrailLimit(solver))
    /\ UNCHANGED <<formula, solver, pc, at, result, largest>>

\* At the minimum, at the limit, or when terminated.
StopWalk ==
    /\ pc = "walk"
    /\ solver' = ResetPhases(
         [solver EXCEPT !.saved = IF Improved(walker) THEN FinalBest(walker) ELSE @], "walking")
    /\ walker' = NoWalker
    /\ pc' = "search"
    /\ UNCHANGED <<formula, at, result, largest>>

Done == pc = "done" /\ UNCHANGED vars

Next ==
    \/ AllTrue \/ AllFalse \/ StartPasses \/ VisitNext \/ EndPass
    \/ Decide \/ Conflict \/ Restart \/ Answer \/ Rephase
    \/ WarmDecide \/ WarmPropagate \/ StartWalk \/ WalkStep \/ StopWalk
    \/ Done

LocalSpec == Init /\ [][Next]_vars

-----------------------------------------------------------------------------
(***************************************************************************)
(* Properties.                                                             *)
(***************************************************************************)
Consistent(P) == P \cap Neg(P) = {}

\* The tables of phases hold at most one value for a variable.
TypeOK ==
    /\ \A P \in {solver.saved, solver.target, solver.best} : Consistent(P)
    /\ pc \in {"lucky", "pass", "search", "warm", "walk", "done"}
    /\ result \in {0, 10, 20}

\* A lucky or found answer is right although the passes turn literals instead
\* of analyzing conflicts: 10 with a total model of all clauses, also of those
\* removed on the way, 20 only if there is none.
LuckyAnswers ==
    /\ result = 10 => /\ Open(solver) = {} /\ Consistent(Values(solver))
                      /\ \A C \in ToSet(formula) : C \cap Values(solver) # {}
    /\ result = 20 => \A S \in SUBSET VarsOf(formula) :
                        \E C \in ToSet(formula) : C \cap (S \cup Neg(VarsOf(formula) \ S)) = {}

\* The phases that a walk exports falsify as many clauses as its minimum says
\* (check_walk asserts it), fewer than those it started from: the positions on
\* the bounded trail of flips always lead back to the best assignment.
WalkChecked ==
    [][StopWalk /\ Improved(walker) =>
         LET left == Cardinality(Unsatisfied(solver'.saved \cup solver.units, solver.clauses))
         IN left = walker.minimum /\ left < walker.initial]_vars

\* Target and best phases hold the largest trail without a conflict that the
\* search was on since they began to be collected, whether a conflict, a
\* backjump over several levels or a restart ended it; a larger one is the one
\* the search is still on, until it is refuted.  No trail with a conflict is
\* ever taken for one.
PhasesHoldLargest ==
    /\ TypeOK
    /\ (pc = "search" /\ ~ (Falsified(solver) /\ solver.levels = <<>>)) =>
         \A p \in {[name |-> "target", phases |-> solver.target, size |-> solver.targetAssigned],
                  [name |-> "best", phases |-> solver.best, size |-> solver.bestAssigned]} :
           IF Cardinality(Untroubled(solver)) > p.size
           THEN largest[p.name] \subseteq Untroubled(solver)
           ELSE /\ Cardinality(largest[p.name]) = p.size
                /\ largest[p.name] \subseteq p.phases

=============================================================================
