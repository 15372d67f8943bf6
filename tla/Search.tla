------------------------------- MODULE Search -------------------------------
(***************************************************************************)
(* Conflict-driven clause learning: the loop of kissat_search (search.c)   *)
(* with conflict analysis (analyze.c, deduce.c, minimize.c, shrink.c),     *)
(* on-the-fly strengthening (strengthen.c), learning (learn.c), eager      *)
(* subsumption and restarts.                                               *)
(*                                                                         *)
(* A handler that backtracks and then goes on is split at the backtracks,  *)
(* which are loops of their own: todo holds what the handler still has to  *)
(* do.  The proof lines a step writes are checked before the next step, so *)
(* that the database of the checker follows the solver.                    *)
(***************************************************************************)
EXTENDS Propagation

CONSTANTS
    Formulas,               \* formulas, sets of clauses of two literals or more
    ChronoLevels,           \* the option chronolevels
    Otfs,                   \* the option otfs
    EagerSubsume            \* the option eagersubsume

ASSUME SearchAssumption ==
    /\ Formulas \subseteq SUBSET Clause
    /\ \A F \in Formulas : \A D \in F :
         Cardinality(D) > 1 /\ \A l \in D : -l \notin D
    /\ ChronoLevels \in Nat
    /\ Otfs \in BOOLEAN
    /\ EagerSubsume \in Nat

VARIABLES
    todo,                   \* the rest of the handler that is running
    resolvent,              \* literals above the root during the analysis
    resolved,               \* resolutions of the analysis so far
    lastLearned,            \* solver->last_learned
    mayRestart,             \* a conflict since the last restart
    result,                 \* res of kissat_search; Running before it is set
    formula,                \* the formula
    db                      \* the checker's clauses (module Certificate)

analysisVars == <<resolvent, resolved>>
loopVars == <<lastLearned, mayRestart, result, formula, db>>
searchVars == <<trailVars, clauseVars, visit, lines, todo, analysisVars, loopVars>>

Running == -1

Cert == INSTANCE Certificate

-----------------------------------------------------------------------------
\* The formula's clauses as the solver holds them, in an arbitrary order.
Ordered(D) == SetToSeq(D)
InSequence(F) == LET s == SetToSeq(F) IN [r \in DOMAIN s |-> Ordered(s[r])]

\* The watches of a literal, given the binary clauses and the large ones.
BinarySide(l, small) == {BinaryWatch(m) : m \in {m \in Lit : {l, m} \in small}}
LargeSide(l, large) ==
    {LargeWatch(IF l = large[r][1] THEN large[r][2] ELSE large[r][1], r) :
        r \in {r \in DOMAIN large : l \in {large[r][1], large[r][2]}}}

SearchInit ==
    /\ TrailInit
    /\ PropagationInit
    /\ formula \in Formulas
    /\ db = SetToBag(formula)
    /\ LET small == {D \in formula : Cardinality(D) = 2}
           large == InSequence(formula \ small)
       IN /\ arena = [r \in DOMAIN large |-> NewClause(large[r], FALSE)]
          /\ watches = [l \in Lit |-> SetToSeq(BinarySide(l, small))
                                     \o SetToSeq(LargeSide(l, large))]
    /\ todo = <<>>
    /\ resolvent = {}
    /\ resolved = 0
    /\ lastLearned = <<>>
    /\ mayRestart = FALSE
    /\ result = Running

\* What is left of a handler.
Backtrack(k) == [op |-> "backtrack", to |-> k]
LearnedUnit(lit) == [op |-> "unit", lit |-> lit]
ForceBinary(lit, other) == [op |-> "forceBinary", lit |-> lit, other |-> other]
ForceLarge(lit, ref) == [op |-> "forceLarge", lit |-> lit, ref |-> ref]
WatchBinary(lit, other) == [op |-> "newBinary", lit |-> lit, other |-> other]
Subsume(D, ref) == [op |-> "subsume", clause |-> D, ref |-> ref]
RestartPropagation == [op |-> "propagate"]
Deduce == [op |-> "deduce"]
AnalyzeFailed == [op |-> "failed"]

Doing(op) == todo # <<>> /\ Head(todo).op = op
Done == todo' = Tail(todo)

\* kissat_backtrack_after_conflict from level k goes down one level first.
AfterConflict(k, new) == <<Backtrack(k - 1), Backtrack(new)>>

\* kissat_determine_new_level from level k
NewLevel(k, jump) ==
    IF k - 1 - jump > ChronoLevels THEN k - 1 ELSE jump

-----------------------------------------------------------------------------
\* one_literal_on_conflict_level.  The two literals of highest level move to
\* the front of a large conflict, with their watches.
Highest(lits, i) ==
    LET top == Max({LevelOf(lits[j]) : j \in i .. Len(lits)})
    IN Min({j \in i .. Len(lits) : LevelOf(lits[j]) = top})

Swapped(s, i, j) == [s EXCEPT ![i] = s[j], ![j] = s[i]]

\* The literals above the root, which the analysis resolves.
AboveRoot(lits) == {l \in lits : LevelOf(l) > 0}

\* One iteration of that loop, for i = 1 or 2.
MoveHighest(st, i, ref) ==
    LET h == Highest(st.lits, i)
        lits == Swapped(st.lits, i, h)
        unwatched == Unwatched(st.watches, st.lits[i], ref)
    IN [lits |-> lits,
        watches |-> IF h <= 2 THEN st.watches
                    ELSE [unwatched EXCEPT ![lits[i]] =
                              Append(@, LargeWatch(lits[3 - i], ref))]]

Reordered(ref) ==
    LET st == [lits |-> arena[ref].lits, watches |-> watches]
    IN MoveHighest(MoveHighest(st, 1, ref), 2, ref)

Analyzing == todo = <<>> /\ conflict # NoConflict /\ result = Running

\* kissat_update_conflicts_and_trail at the root, and a conflict all of whose
\* literals are root literals above it: the empty clause.
AnalyzeRootConflict ==
    /\ Analyzing
    /\ LevelsOf(ToSet(LitsOf(conflict))) = {0}
    /\ result' = 20
    /\ lines' = Append(lines, Added({}))
    /\ UNCHANGED <<analysisVars, trailVars, clauseVars, visit, todo, lastLearned, mayRestart,
                   formula, db>>

AnalyzeConflict ==
    /\ Analyzing
    /\ LET lits == ToSet(LitsOf(conflict))
           top == Max(LevelsOf(lits))
           forced == CHOOSE l \in lits : LevelOf(l) = top
           one == \A l \in lits : LevelOf(l) = top => l = forced
           lower == IF top < CurrentLevel THEN AfterConflict(CurrentLevel, top)
                                          ELSE <<>>
           jump == Max(LevelsOf(lits \ {forced}))
       IN /\ top > 0
          /\ IF conflict.ref = 0
               THEN UNCHANGED <<arena, watches>>
               ELSE /\ arena' = [arena EXCEPT ![conflict.ref].lits =
                                     Reordered(conflict.ref).lits]
                    /\ watches' = Reordered(conflict.ref).watches
          /\ \/ /\ one
                /\ conflict' = NoConflict
                /\ UNCHANGED analysisVars
                /\ todo' = lower \o AfterConflict(top, NewLevel(top, jump))
                     \o << IF conflict.ref = 0
                             THEN ForceBinary(forced,
                                      CHOOSE l \in lits : l # forced)
                             ELSE ForceLarge(forced, conflict.ref) >>
             \/ /\ ~ one
                /\ todo' = lower \o << IF top = 1 THEN AnalyzeFailed ELSE Deduce >>
                /\ resolvent' = AboveRoot(lits)
                /\ resolved' = 0
                /\ UNCHANGED conflict
    /\ mayRestart' = TRUE
    /\ UNCHANGED <<trailVars, reason, visit, lines, lastLearned, result, formula, db>>

-----------------------------------------------------------------------------
\* The false literals above the root that the reason of a literal contributes.
Antecedent(lit) ==
    LET why == reason[Idx(lit)] IN
    IF why.kind = "binary" THEN {why.other}
    ELSE AboveRoot(ToSet(arena[why.ref].lits) \ {lit})

\* The literal of the resolvent that comes last on the trail among those of
\* the current level; its negation is resolved upon.
Current(D) == {l \in D : LevelOf(l) = CurrentLevel}
Pivot == CHOOSE l \in Current(resolvent) :
            \A m \in Current(resolvent) : position[Idx(m)] <= position[Idx(l)]

\* Mutant: literals of lower levels are lost.
NextResolventCurrent == Current((resolvent \ {Pivot}) \cup Antecedent(-Pivot))

NextResolvent == (resolvent \ {Pivot}) \cup Antecedent(-Pivot)

\* The first unique implication point is reached; or the next resolvent
\* subsumes the reason it was resolved with.
IsAsserting == Cardinality(Current(resolvent)) = 1

Strengthens ==
    LET size == 1 + Cardinality(Antecedent(-Pivot))
    IN Otfs /\ size > 2 /\ Cardinality(NextResolvent) < size

\* One resolution of kissat_deduce_first_uip_clause.
DeduceStep ==
    /\ Doing("deduce")
    /\ ~ IsAsserting
    /\ ~ Strengthens
    /\ resolvent' = NextResolvent
    /\ resolved' = resolved + 1
    /\ UNCHANGED <<trailVars, clauseVars, visit, lines, todo, loopVars>>

\* One resolution of analyze_failed_literal.  A resolvent of one literal is a
\* unit to learn; todo collects them.
FailedStep ==
    /\ Doing("failed")
    /\ -frames[1].decision \notin resolvent
    /\ resolvent' = NextResolvent
    /\ todo' = IF Cardinality(resolvent) = 1 THEN Append(todo, LearnedUnit(Pivot))
                                             ELSE todo
    /\ UNCHANGED <<trailVars, clauseVars, visit, lines, resolved, loopVars>>

\* It ends with the negation of the decision.
FailedDone ==
    /\ Doing("failed")
    /\ -frames[1].decision \in resolvent
    /\ conflict' = NoConflict
    /\ resolvent' = {}
    /\ todo' = <<Backtrack(0)>> \o Tail(todo) \o <<LearnedUnit(-frames[1].decision)>>
    /\ UNCHANGED <<trailVars, arena, watches, reason, visit, lines, resolved, loopVars>>

-----------------------------------------------------------------------------
\* Minimization and shrinking.  A false literal is covered by D when it is in
\* D, at the root, or its reason's literals are covered: the least set of false
\* literals that is closed under this rule.
FalseLits == {l \in Lit : values[l] < 0}
Resolvable(l) == reason[Idx(l)].kind \in {"binary", "large"}
ClosedCover(X, D) ==
    \A l \in FalseLits :
        (\/ l \in D \/ LevelOf(l) = 0
         \/ Resolvable(l) /\ Antecedent(-l) \subseteq X) => l \in X
Covered(D) == {l \in FalseLits : \A X \in SUBSET FalseLits : ClosedCover(X, D) => l \in X}

\* What minimizing and shrinking D may give: on each level below the current
\* one some of its literals, or one literal, met on the walk along the reasons
\* of the level, instead of them.
BlockKept(E, D, k) ==
    LET block == {l \in E : LevelOf(l) = k}
    IN block \subseteq D \/ Cardinality(block) = 1

BlockCandidates(levels) == {l \in FalseLits : LevelOf(l) \in levels}

Shrunken(D) ==
    LET uip == {l \in D : LevelOf(l) = CurrentLevel}
        levels == LevelsOf(D \ uip)
    IN {E \in {uip \cup B : B \in SUBSET BlockCandidates(levels)} :
          /\ \A k \in levels : BlockKept(E, D, k)
          /\ D \subseteq Covered(E)}

\* The learned clause: the asserting literal first, then decreasing levels, in
\* any order within a level.
Before(l, m) == LevelOf(l) >= LevelOf(m)

\* kissat_learn_clause: a unit, a binary clause, or a new clause in the arena.
InOrder(lits) == \A i, j \in DOMAIN lits : i < j => Before(lits[i], lits[j])
LearnInOrder(D, lits) ==
    LET jump == IF Len(lits) = 1 THEN 0 ELSE LevelOf(lits[2])
        back == AfterConflict(CurrentLevel, NewLevel(CurrentLevel, jump))
        ref == Len(arena) + 1
    IN \/ /\ Len(lits) = 1
          /\ todo' = back \o <<LearnedUnit(lits[1]), Subsume(D, 0)>>
          /\ UNCHANGED <<arena, watches, lines>>
       \/ /\ Len(lits) = 2
          /\ todo' = back \o <<WatchBinary(lits[1], lits[2]),
                               ForceBinary(lits[1], lits[2]), Subsume(D, 0)>>
          /\ UNCHANGED <<arena, watches, lines>>
       \/ /\ Len(lits) > 2
          /\ arena' = Append(arena, NewClause(lits, TRUE))
          /\ watches' = Watched(watches, lits, ref)
          /\ lines' = Append(lines, Added(D))
          /\ todo' = back \o <<ForceLarge(lits[1], ref), Subsume(D, ref)>>

Learn(D) == \E lits \in SetToSeqs(D) : InOrder(lits) /\ LearnInOrder(D, lits)

\* The first unique implication point gives the clause to learn.
DeduceAndLearn ==
    /\ Doing("deduce")
    /\ IsAsserting
    /\ \E D \in Shrunken(resolvent) : Learn(D)
    /\ conflict' = NoConflict
    /\ resolvent' = {}
    /\ resolved' = 0
    /\ UNCHANGED <<trailVars, reason, visit, loopVars>>

-----------------------------------------------------------------------------
\* large_on_the_fly_strengthen: lit, one of the first two literals, leaves the
\* clause and the false root literals with it; the other of the two stays, also
\* at the root, and one of highest level becomes the second.  The order of the
\* rest is left open.
LargeStrengthened(c, lit) ==
    LET first == IF c.lits[1] = lit THEN c.lits[2] ELSE c.lits[1]
        rest == AboveRoot({c.lits[i] : i \in 3 .. Len(c.lits)})
    IN {lits \in SetToSeqs({first} \cup rest) :
            lits[1] = first /\ \A m \in rest : LevelOf(m) <= LevelOf(lits[2])}

\* ... and the clause is watched in the second literal instead of lit.
StrengthenedWatches(lits, lit, ref) ==
    LET unwatched == Unwatched(watches, lit, ref)
        second == [unwatched EXCEPT ![lits[2]] = Append(@, LargeWatch(lits[1], ref))]
    IN [second EXCEPT ![lits[1]] =
           [i \in DOMAIN @ |-> IF ~ @[i].binary /\ @[i].ref = ref
                                 THEN LargeWatch(lits[2], ref) ELSE @[i]]]

\* kissat_on_the_fly_subsume: the first resolution also subsumes the conflict.
\* It becomes garbage, and hands on that it is irredundant.
Subsumed(clauses, new) ==
    [r \in DOMAIN clauses |->
        [clauses[r] EXCEPT !.garbage = @ \/ r = conflict.ref,
                           !.redundant = @ /\ (r = new =>
                                                  clauses[conflict.ref].redundant)]]

\* kissat_on_the_fly_strengthen on the reason of lit, which becomes lits; the
\* result is the next conflict to analyze.
Strengthen(lit, ref, small, lits) ==
    LET c == arena[ref]
        subsumes == resolved = 0 /\ Cardinality(NextResolvent)
                       < Cardinality(AboveRoot(ToSet(LitsOf(conflict))))
        strengthened == IF small
                          THEN [arena EXCEPT ![ref].garbage = TRUE]
                          ELSE [arena EXCEPT ![ref].lits = lits,
                                             ![ref].searched = 3]
    IN /\ watches' = IF small
             THEN Unwatched(Unwatched(Watched(watches, lits, 0),
                                      c.lits[1], ref), c.lits[2], ref)
             ELSE StrengthenedWatches(lits, lit, ref)
       /\ arena' = IF subsumes
             THEN Subsumed(strengthened, IF small THEN 0 ELSE ref)
             ELSE strengthened
       /\ conflict' = IF small THEN BinaryConflict(lits[1], lits[2])
                               ELSE LargeConflict(ref)
       /\ lines' = lines \o <<Added(ToSet(lits)), Deleted(ToSet(c.lits))>> \o
             (IF subsumes THEN <<Deleted(ToSet(LitsOf(conflict)))>> ELSE <<>>)

DeduceAndStrengthen ==
    /\ Doing("deduce")
    /\ ~ IsAsserting
    /\ Strengthens
    /\ LET lit == -Pivot
           ref == reason[Idx(lit)].ref
           small == Cardinality(Antecedent(lit)) = 2
       IN \E lits \in IF small THEN {Ordered(Antecedent(lit))}
                               ELSE LargeStrengthened(arena[ref], lit) :
             Strengthen(lit, ref, small, lits)
    /\ Done
    /\ resolvent' = {}
    /\ resolved' = 0
    /\ UNCHANGED <<trailVars, reason, visit, loopVars>>

-----------------------------------------------------------------------------
\* The steps of a handler after the analysis.
DoBacktrack ==
    /\ Doing("backtrack")
    /\ IF Head(todo).to < CurrentLevel
         THEN BacktrackStart(Head(todo).to)
         ELSE UNCHANGED trailVars
    /\ Done
    /\ UNCHANGED <<analysisVars, clauseVars, visit, lines, loopVars>>

DoLearnedUnit ==
    /\ Doing("unit")
    /\ AssignReason(Head(todo).lit, 0, UnitReason)
    /\ Done
    /\ UNCHANGED <<analysisVars, arena, watches, conflict, visit, loopVars>>

DoForce ==
    /\ \/ Doing("forceBinary") /\ AssignBinary(Head(todo).lit, Head(todo).other)
       \/ Doing("forceLarge") /\ AssignReference(Head(todo).lit, Head(todo).ref)
    /\ Done
    /\ UNCHANGED <<analysisVars, arena, watches, conflict, visit, loopVars>>

DoWatchBinary ==
    /\ Doing("newBinary")
    /\ LET lits == <<Head(todo).lit, Head(todo).other>> IN
         /\ watches' = Watched(watches, lits, 0)
         /\ lines' = Append(lines, Added(ToSet(lits)))
    /\ Done
    /\ UNCHANGED <<analysisVars, trailVars, arena, reason, conflict, visit, loopVars>>

\* eagerly_subsume_last_learned: the recently learned clauses that the new one
\* subsumes.
Hits(D) ==
    {r \in LiveReferences \cap ToSet(lastLearned) :
        /\ arena[r].redundant
        /\ Len(arena[r].lits) > Cardinality(D)
        /\ D \subseteq ToSet(arena[r].lits)}

\* They become garbage, in an arbitrary order, and insert_last_learned puts the
\* new clause in front.
DoSubsume ==
    /\ Doing("subsume")
    /\ LET hits == Hits(Head(todo).clause)
           order == SetToSeq(hits)
           left == SelectSeq(lastLearned, LAMBDA r : r \notin hits)
           new == IF Head(todo).ref = 0 THEN <<>> ELSE <<Head(todo).ref>>
       IN /\ arena' = [r \in DOMAIN arena |->
                          [arena[r] EXCEPT !.garbage = @ \/ r \in hits]]
          /\ lines' = lines \o
                [i \in DOMAIN order |-> Deleted(ToSet(arena[order[i]].lits))]
          /\ LET all == new \o left
             IN lastLearned' = SubSeq(all, 1, Min({Len(all), EagerSubsume}))
    /\ Done
    /\ UNCHANGED <<analysisVars, trailVars, watches, reason, conflict, visit, mayRestart,
                   result, formula, db>>

-----------------------------------------------------------------------------
\* The branches of the search loop without a conflict.
Propagating ==
    /\ todo = <<>> \/ Doing("propagate")
    /\ ~ undo.active
    /\ conflict = NoConflict
    /\ result = Running
Flushed == Propagated /\ (CurrentLevel = 0 => unflushed = 0)
Ready == Propagating /\ todo = <<>> /\ Flushed

Propagate ==
    /\ Propagating
    /\ PropagateStep
    /\ UNCHANGED <<analysisVars, todo, loopVars>>

UndoStep ==
    /\ BacktrackStep
    /\ UNCHANGED <<analysisVars, clauseVars, visit, lines, todo, loopVars>>

\* kissat_update_conflicts_and_trail without a conflict.
FlushTrail ==
    /\ Propagating
    /\ visit = NoVisit
    /\ Flush
    /\ UNCHANGED <<analysisVars, clauseVars, visit, lines, todo, loopVars>>

Satisfiable ==
    /\ Ready
    /\ unassigned = 0
    /\ result' = 10
    /\ UNCHANGED <<analysisVars, trailVars, clauseVars, visit, lines, todo, lastLearned,
                   mayRestart, formula, db>>

\* TERMINATED: the handler of a time limit or an interrupt asked to stop.
Terminate ==
    /\ Ready
    /\ unassigned > 0
    /\ result' = 0
    /\ UNCHANGED <<analysisVars, trailVars, clauseVars, visit, lines, todo, lastLearned,
                   mayRestart, formula, db>>

\* Mutant: not limited by conflicts.
RestartingAnytime == CurrentLevel > 0

\* kissat_restarting.  Both restart schedules count conflicts, so there is at
\* least one between two restarts.
Restarting == CurrentLevel > 0 /\ mayRestart

\* kissat_restart reuses some levels of the trail.
Restart ==
    /\ Ready
    /\ unassigned > 0
    /\ Restarting
    /\ mayRestart' = FALSE
    /\ \E k \in 0 .. CurrentLevel : todo' = <<Backtrack(k)>>
    /\ UNCHANGED <<analysisVars, trailVars, clauseVars, visit, lines, lastLearned, result,
                   formula, db>>

\* kissat_decide, with any unassigned variable and any phase.
SearchDecide ==
    /\ Ready
    /\ \E lit \in Lit :
         /\ Decide(lit)
         /\ reason' = [reason EXCEPT ![Idx(lit)] = DecisionReason]
    /\ UNCHANGED <<analysisVars, arena, watches, conflict, visit, lines, todo, loopVars>>

\* The checker reads the next line of the proof.
CheckLine ==
    /\ lines # <<>>
    /\ LET line == Head(lines)
           unit == Cardinality(line.clause) = 1 IN
         db' = IF line.add THEN db (+) SetToBag({line.clause})
               ELSE IF unit THEN db ELSE db (-) SetToBag({line.clause})
    /\ lines' = Tail(lines)
    /\ UNCHANGED <<analysisVars, trailVars, clauseVars, visit, todo, lastLearned, mayRestart,
                   result, formula>>

Stopped == result # Running /\ lines = <<>> /\ UNCHANGED searchVars

Handler ==
    \/ DoBacktrack \/ DoLearnedUnit \/ DoForce \/ DoWatchBinary \/ DoSubsume
    \/ FailedStep \/ FailedDone
    \/ DeduceStep \/ DeduceAndLearn \/ DeduceAndStrengthen

SearchLoop ==
    \/ Propagate \/ FlushTrail \/ AnalyzeRootConflict \/ AnalyzeConflict
    \/ Satisfiable \/ Terminate \/ Restart \/ SearchDecide

SearchNext ==
    \/ CheckLine
    \/ /\ lines = <<>>
       /\ \/ UndoStep
          \/ ~ undo.active /\ (Handler \/ SearchLoop)
    \/ Stopped

SearchSpec == SearchInit /\ [][SearchNext]_searchVars

-----------------------------------------------------------------------------
\* Types, and that no handler asks for a level below the root.
SearchTypeOK ==
    /\ PropagationTypeOK
    /\ formula \in Formulas
    /\ ToSet(lastLearned) \subseteq References
    /\ Len(lastLearned) <= EagerSubsume
    /\ mayRestart \in BOOLEAN
    /\ resolvent \subseteq Lit
    /\ resolved \in Nat
    /\ \A i \in DOMAIN todo : todo[i].op = "backtrack" => todo[i].to \in Nat
    /\ result \in {Running, 0, 10, 20}

\* No handler is running and no conflict is being analyzed.
Quiet == todo = <<>> /\ ~ undo.active /\ conflict = NoConflict

\* When propagation ends without a conflict no clause is falsified and none
\* forces an unassigned literal.  Out-of-order literals that a backtrack kept
\* must be propagated again for this: clauses blocked by a literal that the
\* backtrack unassigned would be missed otherwise.
PropagationComplete ==
    (Quiet /\ Propagated) =>
        \A D \in Database :
            \/ \E l \in D : values[l] = 1
            \/ Cardinality({l \in D : values[l] = 0}) > 1

\* Whatever was assigned above the root for a reason is still forced by it: a
\* clause that is not garbage, with the literal among the watched two, all
\* other literals false, none above its level and all of them earlier on the
\* trail.  Conflict analysis dereferences the reason and walks the trail
\* backwards on that assumption, through chronological backtracking,
\* on-the-fly strengthening of reasons and eager subsumption.
ReasonsSupport ==
    Quiet => \A v \in {v \in Var : values[v] # 0 /\ level[v] > 0} :
        LET lit == values[v] * v
            Supports(others) ==
                /\ Max(LevelsOf(others)) = level[v]
                /\ \A m \in others : /\ values[m] = -1
                                     /\ LevelOf(m) = 0 \/ position[Idx(m)] < position[v]
        IN CASE reason[v].kind = "decision" -> frames[level[v]].decision = lit
             [] reason[v].kind = "binary" -> Supports({reason[v].other})
             [] reason[v].kind = "large" ->
                  /\ reason[v].ref \in References
                  /\ LET c == arena[reason[v].ref] IN
                       /\ ~ c.garbage
                       /\ lit \in {c.lits[1], c.lits[2]}
                       /\ Supports(ToSet(c.lits) \ {lit})
             [] OTHER -> FALSE

\* The proof keeps pace with the solver: for every clause of two literals or
\* more the checker has as many copies as the solver, so that each later
\* deletion finds its clause and none is left behind.
Copies(D) ==
    Cardinality({r \in LiveReferences : ToSet(arena[r].lits) = D})
    + (IF Cardinality(D) # 2 THEN 0
       ELSE LET l == CHOOSE l \in D : TRUE
                m == CHOOSE m \in D : m # l
            IN Len(SelectSeq(watches[l], LAMBDA w : w = BinaryWatch(m))))

ProofMatchesSolver ==
    (Quiet /\ visit = NoVisit /\ lines = <<>>) =>
        \A D \in DOMAIN db \cup Database :
            Cardinality(D) > 1 => (IF D \in DOMAIN db THEN db[D] ELSE 0) = Copies(D)

\* Unit lines are the root assignments, each once.
UnitsMatchRoot ==
    (Quiet /\ lines = <<>>) =>
        \A l \in Lit : (values[l] = 1 /\ LevelOf(l) = 0)
                         <=> {l} \in DOMAIN db /\ db[{l}] = 1

\* What the search keeps twice agrees, between any two handlers: each clause is
\* watched by its first two literals and no other, on which the loops that
\* search a list for a watch to remove rely (watch.c:kissat_remove_blocking_watch), and the
\* unit lines of the proof are the literals of the root, wherever on the trail
\* they stand.
RecordsAgree == SearchTypeOK /\ WatchesMatch /\ UnitsMatchRoot

\* Answer 10 comes with a model of the formula; answer 20 with a proof that
\* ends in one empty clause.
AnswerSound ==
    /\ result = 10 => \A D \in formula : \E l \in D : values[l] = 1
    /\ result = 20 => Cert!Unsatisfiable(formula)
    /\ (result = 20 /\ lines = <<>>) => {} \in DOMAIN db /\ db[{}] = 1

\* The checker accepts every line of the proof: a clause it adds follows by
\* reverse unit propagation, a clause it deletes is there.  So the solver
\* implements Certificate!Spec, the line naming the clause of each step.
AcceptLine ==
    /\ lines # <<>>
    /\ LET D == Head(lines).clause IN Cert!Add(D) \/ Cert!Delete(D)

ProofAccepted == Cert!Init /\ [][AcceptLine]_<<formula, db>>

\* The search ends: learned clauses, restarts, chronological backtracking and
\* strengthening, which goes back to a conflict analysis without learning,
\* cannot go round forever.
FairSpec == SearchSpec /\ WF_searchVars(SearchNext)
Ends == <>(result # Running)

=============================================================================
