------------------------------- MODULE Satsuma -------------------------------
(***************************************************************************)
(* The symmetry preprocessor as the solver runs it: preprocess and         *)
(* generate_symmetry_predicate in satsuma.h with the options of the        *)
(* submission (orbitopal fixing only, negation fixing, fix-and-cut,        *)
(* iteration).  An iteration simplifies the formula, transfers it into a   *)
(* clause database without duplicates, looks for matrices of exchangeable  *)
(* literals, then breaks the remaining symmetries along a stabilizer       *)
(* chain.  Its additions are clauses of the next iteration.  Next to it    *)
(* runs the checker of the proof it writes.                                *)
(*                                                                         *)
(* Which matrices and automorphisms are proposed is data of an instance:   *)
(* the model tests them as the code does and leaves out the searches that  *)
(* find them.  Any of them may be missed.                                  *)
(***************************************************************************)
EXTENDS ColorRefinement, SymmetryBreaking

CONSTANTS
    Instances,              \* what the preprocessor may be run on
    SchreierDomainLimit,    \* schreier_domain_limit, in variables
    MaxIterations,          \* iteration_max
    Factors                 \* generators multiplied to a random element

ASSUME SatsumaAssumption == {SchreierDomainLimit, MaxIterations, Factors} \subseteq Nat

VARIABLES
    instance,               \* the instance: [vars, clauses, johnson, grids, rows, perms]
    stage,                  \* the pass that runs next
    formula,                \* cnf2wl: the clauses read, in order
    values,                 \* the literals that are true
    db,                     \* cnf: the clauses, in order, each once
    cells,                  \* the equitable coloring of the graph of db
    found,                  \* literals of matrices found, and their negations
    generators,             \* the generators to be broken
    waiting,                \* those a pass has not looked at
    order,                  \* variables of the global order
    propagated,             \* literals a pass fixed
    schreier,               \* the Schreier structure
    ops,                    \* the operation scheduled for each base point
    sbp,                    \* clauses of the predicate, in order
    fixed,                  \* proof_fix_literals
    iteration, limits, unsat, \* counter, reached_limits, is_unsat
    checker,                \* the checker: its database, and whether it accepts
    output                  \* the clauses written

satVars ==
    <<instance, stage, formula, values, db, cells, found, generators,
      waiting, order, propagated, schreier, ops, sbp, fixed, iteration,
      limits, unsat, checker, output>>

groupVars == <<generators, waiting, propagated, schreier, ops>>
detectVars == <<cells, found, order, sbp>>
loopVars == <<instance, fixed, iteration, limits, unsat, output>>

Db == ToSet(db)

SatInit ==
    /\ instance \in Instances
    /\ stage = "simplify"
    /\ formula = instance.clauses
    /\ values = {} /\ db = <<>> /\ cells = {} /\ found = {}
    /\ generators = {} /\ waiting = {} /\ order = {} /\ propagated = {}
    /\ schreier = EmptyStructure /\ ops = <<>> /\ sbp = <<>>
    /\ fixed = {} /\ iteration = 0 /\ limits = FALSE /\ unsat = FALSE
    /\ checker = [db |-> FoldLeft(LAMBDA b, C : b (+) SetToBag({C}),
                                  EmptyBag, instance.clauses),
                  ok |-> TRUE]
    /\ output = {}

-----------------------------------------------------------------------------
(***************************************************************************)
(* Simplification: units, one round of pure literals, units again.         *)
(***************************************************************************)
Unsatisfied(S, F) == {C \ Neg(S) : C \in {D \in F : D \cap S = {}}}

Pures(S, F) ==
    {l \in UNION Unsatisfied(S, F) : -l \notin UNION Unsatisfied(S, F)}

SimplifiedValues(F) ==
    UNION {UnitClosure(S \cup Pures(S, F), F) : S \in {UnitClosure({}, F)}}

\* A line that must follow by unit propagation.
RupLine(C) == Line(C, Witness({}, Identity))

Simplify ==
    /\ stage = "simplify" /\ stage' = "transfer"
    /\ \E S \in {SimplifiedValues(ToSet(formula))} :
         IF Conflicting(S, ToSet(formula))
         THEN /\ formula' = <<{}>> /\ values' = {}
              /\ limits' = TRUE /\ unsat' = TRUE
              /\ checker' = Add(checker, RupLine({}))
              /\ UNCHANGED fixed
         ELSE /\ values' = S /\ fixed' = fixed \cup S
              /\ UNCHANGED <<formula, limits, unsat, checker>>
    /\ UNCHANGED <<instance, db, detectVars, groupVars, iteration, output>>

-----------------------------------------------------------------------------
(***************************************************************************)
(* The transfer drops satisfied clauses, false literals and duplicates.    *)
(* The proof gets a shortened clause first; everything it replaces is      *)
(* deleted after the last addition.                                        *)
(***************************************************************************)
Reduced(C) == C \ Neg(values)

TransferClause(t, C) ==
    IF C \cap values # {} \/ Reduced(C) \in ToSet(t.db)
    THEN [t EXCEPT !.deleted = Append(@, C)]
    ELSE IF Reduced(C) = C THEN [t EXCEPT !.db = Append(@, C)]
    ELSE [db |-> Append(t.db, Reduced(C)),
          added |-> Append(t.added, RupLine(Reduced(C))),
          deleted |-> Append(t.deleted, C)]

Transferred ==
    FoldLeft(TransferClause, [db |-> <<>>, added |-> <<>>, deleted |-> <<>>],
             formula)

\* For a clause of unique literals the pairs of their negations may be added:
\* each is blocked, as its literals occur nowhere else.
MissingPairs(C, F) ==
    {P \in PairsOf(C) : P \notin F}

RECURSIVE UlcAddAmo(_, _)
UlcAddAmo(t, i) ==
    IF i > Len(t.db) THEN t
    ELSE IF ~ UniqueLiterals(t.db[i], ToSet(t.db)) THEN UlcAddAmo(t, i + 1)
    ELSE LET new == ListOf(MissingPairs(t.db[i], ToSet(t.db)))
         IN UlcAddAmo([db |-> t.db \o new,
                       added |-> t.added \o MapSeq(LAMBDA P :
                         Line(P, Pivot(CHOOSE l \in P : TRUE)), new)],
                      i + 1)

TransferProof(t, pairs) ==
    AddAll(DeleteAll(AddAll(checker, t.added), t.deleted), pairs)

Transfer ==
    /\ stage = "transfer"
    /\ \E t \in {Transferred} :
       \E a \in {UlcAddAmo([db |-> t.db, added |-> <<>>], 1)} :
         /\ db' = a.db
         /\ checker' = TransferProof(t, a.added)
         /\ IF unsat THEN cells' = {} /\ stage' = "finish"
            ELSE /\ cells' = CellsOf(ToSet(a.db),
                                     BinaryGraph(ToSet(a.db), instance.vars))
                 /\ stage' = "johnson"
    /\ found' = {} /\ order' = {} /\ sbp' = <<>>
    /\ generators' = {} /\ waiting' = {} /\ propagated' = {}
    /\ schreier' = EmptyStructure /\ ops' = <<>>
    /\ UNCHANGED <<formula, values, loopVars>>

-----------------------------------------------------------------------------
(***************************************************************************)
(* Matrices.  One is looked for along a cell in which no literal belongs   *)
(* to a matrix found before, and its entries are in the same cell where    *)
(* the action moves them.  Literals are fixed if none is in the order;     *)
(* otherwise the exchanges become generators.                              *)
(***************************************************************************)
VariablesOf(L) == {Abs(l) : l \in L}
Unordered(L) == VariablesOf(L) \cap order = {}

New(l) == \A k \in found : ~ SameCell(l, k, cells)

ColumnsInCells(m) ==
    \A j \in Rows(m), k \in Columns(m) : SameCell(m[1][k], m[j][k], cells)

AllInCell(m) == \A l \in Entries(m) : SameCell(m[1][1], l, cells)

\* What makes a matrix worth testing: a column whose first literal is new; a
\* new first literal whose cell has all the entries; a subset of points, each
\* named once.
RowCandidate(m) == (\E k \in Columns(m) : New(m[1][k])) /\ ColumnsInCells(m)
GridCandidate(m) == New(m[1][1]) /\ AllInCell(m)
JohnsonCandidate(x) ==
    /\ \A p \in DOMAIN x.subset : New(x.subset[p])
    /\ \A p, q \in DOMAIN x.subset : x.subset[p] = x.subset[q] => p = q
    /\ ColumnsInCells(x.rows)

Find(L) == found' = found \cup L \cup Neg(L)

Record(additions) ==
    /\ sbp' = sbp \o ClausesOf(additions)
    /\ checker' = AddAll(checker, LinesOf(additions))

FixColumns(L, additions) ==
    /\ Record(additions)
    /\ order' = order \cup VariablesOf(L)
    /\ UNCHANGED generators

Generate(G, L) ==
    /\ generators' = generators \cup G
    /\ order' = order \cup VariablesOf(L)
    /\ UNCHANGED <<sbp, checker>>

\* What a pass over the matrices does not touch.
matrixVars ==
    <<formula, values, db, cells, waiting, propagated, schreier, ops, loopVars>>

DetectJohnson(x) ==
    /\ stage = "johnson"
    /\ JohnsonCandidate(x) /\ JohnsonAction(x, Db)
    /\ \E columns \in {JohnsonColumns(x, Db)} :
         IF Unordered(Entries(x.rows)) /\ columns # <<>>
         THEN FixColumns(UNION {Column(x.rows, k) : k \in ToSet(columns)},
                         JohnsonFixing(x, columns))
         ELSE Generate(IF Unordered(Entries(x.rows)) THEN JohnsonSwaps(x) ELSE {},
                       {})
    /\ Find(Entries(x.rows) \cup {x.subset[p] : p \in DOMAIN x.subset})
    /\ UNCHANGED <<stage, matrixVars>>

ColumnSwaps(t) == {Completed(Exchange(t[1], t[j])) : j \in Rows(t) \ {1}}
RowSwaps(m) == {RowSwap(m, j - 1) : j \in Rows(m) \ {1}}

DetectRowColumn(m) ==
    /\ stage = "grids"
    /\ GridCandidate(m) /\ RowColumnMatrix(m, Db)
    /\ \E fixing \in {RowColumnFixing(m, Db)} :
         IF Unordered(Entries(m)) /\ fixing # <<>>
         THEN FixColumns(Entries(m), fixing)
         ELSE Generate(ColumnSwaps(Transposed(m)),
                       IF fixing # <<>> THEN Entries(m) ELSE {})
    /\ Find(Entries(m))
    /\ UNCHANGED <<stage, matrixVars>>

DetectRows(m) ==
    /\ stage = "rows"
    /\ RowCandidate(m) /\ RowMatrix(m, Db)
    /\ \E columns \in {UlcColumns(m, Db)} :
         IF Unordered(Entries(m)) /\ columns # <<>>
         THEN FixColumns(UNION {Column(m, k) : k \in ToSet(columns)},
                         RowFixing(m, columns))
         ELSE Generate(RowSwaps(m), {})
    /\ Find(Entries(m))
    /\ UNCHANGED <<stage, matrixVars>>

NextPass ==
    /\ \/ stage = "johnson" /\ stage' = "grids"
       \/ stage = "grids" /\ stage' = "rows"
       \/ stage = "rows" /\ stage' = "generic"
    /\ UNCHANGED <<matrixVars, found, generators, order, sbp, checker>>

-----------------------------------------------------------------------------
(***************************************************************************)
(* The symmetries of what the matrices leave: their literals are fixed.    *)
(* Generators that move an ordered variable are dropped, as their exchange *)
(* could undo what was fixed.                                              *)
(***************************************************************************)
Automorphisms ==
    {p \in {Completed(x) : x \in instance.perms} :
        VariablesOf(Support(p)) \subseteq Variables(Db) /\ Automorphism(p, Db)}

Remaining == {p \in Automorphisms : Support(p) \cap found = {}}

Filtered(G) == {g \in G : Unordered(Support(g))}

Sifted(G) == SiftAll(EmptyStructure, ListOf(G))

Direct == instance.vars > SchreierDomainLimit

DetectGeneric ==
    /\ stage = "generic" /\ stage' = "negate"
    /\ \E G \in IF Len(sbp) > 1 THEN {{}} ELSE SUBSET Remaining :
         /\ generators' = Filtered(generators \cup G)
         /\ waiting' = IF Direct THEN generators' ELSE {}
         /\ schreier' = IF Direct THEN EmptyStructure ELSE Sifted(generators')
    /\ UNCHANGED <<formula, values, db, detectVars, propagated, ops, loopVars,
                   checker>>

-----------------------------------------------------------------------------
(***************************************************************************)
(* Passes over single generators, for large formulas: a generator that     *)
(* moves a literal fixed before is skipped, and dropped at the end.        *)
(***************************************************************************)
passVars == <<formula, values, db, cells, found, generators, order,
              schreier, ops, loopVars>>

Pass(g, literals) ==
    /\ g \in waiting /\ waiting' = waiting \ {g}
    /\ IF Support(g) \cap propagated = {} /\ literals # {}
       THEN \E l \in literals :
              /\ Record(<<Propagation(l, l, g)>>)
              /\ propagated' = propagated \cup {l}
       ELSE UNCHANGED <<propagated, sbp, checker>>
    /\ UNCHANGED <<stage, passVars>>

NegationFixing(g) ==
    /\ stage = "negate"
    /\ Pass(g, {l \in Literals : g[l] = -l})

BinaryFixing(g) ==
    /\ stage = "fix"
    /\ Pass(g, {g[l] : l \in {k \in Support(g) : g[k] # -k /\ {k, g[k]} \in Db}})

PassDone ==
    /\ Direct /\ waiting = {}
    /\ generators' = {g \in generators : Support(g) \cap propagated = {}}
    /\ \/ stage = "negate" /\ stage' = "fix" /\ waiting' = generators'
       \/ stage = "fix" /\ stage' = "finish" /\ waiting' = {}
    /\ propagated' = {}
    /\ UNCHANGED <<formula, values, db, detectVars, schreier, ops, loopVars,
                   checker>>

-----------------------------------------------------------------------------
(***************************************************************************)
(* Along a stabilizer chain.  A new base point needs a non-trivial orbit   *)
(* of the stabilizer known so far; then random elements are sifted.  The   *)
(* cost limit may end the loop before every level.                         *)
(***************************************************************************)
Depth == Len(schreier.base)

StabilizerKnown == ~ Direct /\ schreier.kept # {}

OrbitOf(l) == StabilizerOrbit(schreier, Depth, l)

Individualized(v, resift) ==
    {Sift(SetBase(schreier, Append(schreier.base, v), resift), w) :
       w \in Words(schreier, Factors)}

Negatable == {l \in Literals : l > 0 /\ -l \in OrbitOf(l)}

NegationFixingSchreier ==
    /\ stage = "negate" /\ StabilizerKnown /\ Negatable # {}
    /\ \E s \in Individualized(Min(Negatable), FALSE) :
         /\ schreier' = s
         /\ IF InFixedOrbit(s, Depth + 1, -Min(Negatable))
            THEN /\ propagated' = propagated \cup {-Min(Negatable)}
                 /\ Record(<<Propagation(-Min(Negatable), -Min(Negatable),
                        TransversalElement(s, Depth + 1, -Min(Negatable)))>>)
            ELSE UNCHANGED <<propagated, sbp, checker>>
    /\ UNCHANGED <<stage, formula, values, db, cells, found, generators,
                   waiting, order, ops, loopVars>>

\* The loop ends, or the limit ends it.
LoopEnds(again) ==
    /\ limits' \in {limits, TRUE}
    /\ again => limits'

NegationDone ==
    /\ stage = "negate" /\ stage' = "fix" /\ ~ Direct
    /\ LoopEnds(StabilizerKnown /\ Negatable # {})
    /\ generators' = IF propagated = {} THEN generators
                     ELSE StabilizerGenerators(schreier, Depth)
    /\ schreier' = Sifted(generators')
    /\ propagated' = {}
    /\ UNCHANGED <<formula, values, db, detectVars, waiting, ops, instance,
                   fixed, iteration, unsat, checker, output>>

Movable == {l \in Literals : OrbitOf(l) # {l}}

Unbroken ==
    /\ stage = "fix" /\ StabilizerKnown
    /\ \E l \in Movable : Abs(l) \notin order

levelVars == <<stage, formula, values, db, cells, found, generators,
               waiting, order, sbp, loopVars, checker>>

ScheduleCut(v) ==
    /\ Unbroken /\ v \in Movable
    /\ schreier' \in Individualized(v, Depth = 0)
    /\ ops' = Append(ops, Scheduled("cut", {}, FALSE))
    /\ UNCHANGED <<propagated, levelVars>>

ScheduleFix(C, v) ==
    /\ Unbroken /\ v \in Movable
    /\ OverlapsOrbit(C, v, OrbitOf(v), propagated)
    /\ schreier' \in Individualized(v, Depth = 0)
    /\ \E amo \in {FALSE, IsAmo(C, Db)} :
         IF ClauseFixCheck(schreier', C, propagated)
         THEN /\ ops' = Append(ops, Scheduled("fix", C, amo))
              /\ propagated' = propagated \cup ClauseFixPropagate(v, C, amo)
         ELSE /\ ops' = Append(ops, Scheduled("none", C, amo))
              /\ UNCHANGED propagated
    /\ UNCHANGED levelVars

PerformScheduled ==
    /\ stage = "fix" /\ stage' = "finish" /\ ~ Direct
    /\ LoopEnds(Unbroken)
    /\ schreier' = ExtendFully(schreier)
    /\ Record(PerformAll(schreier', ops))
    /\ order' = order \cup CutVariables(schreier', ops)
    /\ propagated' = propagated \cup CutUnits(schreier', ops)
    /\ generators' = IF schreier.base = <<>> THEN generators
                     ELSE StabilizerGenerators(schreier', Depth)
    /\ UNCHANGED <<formula, values, db, cells, found, waiting, ops,
                   instance, fixed, iteration, unsat, output>>

-----------------------------------------------------------------------------
(***************************************************************************)
(* The next iteration reads the database and the predicate; the last one   *)
(* writes them, with a unit for every literal that was simplified away.    *)
(***************************************************************************)
Iterate ==
    /\ stage = "finish" /\ stage' = "simplify"
    /\ sbp # <<>> /\ iteration < MaxIterations /\ ~ limits
    /\ iteration' = iteration + 1
    /\ formula' = db \o sbp /\ values' = {}
    /\ UNCHANGED <<instance, db, detectVars, groupVars, fixed, limits, unsat,
                   checker, output>>

Write ==
    /\ stage = "finish" /\ stage' = "done"
    /\ sbp = <<>> \/ iteration = MaxIterations \/ limits
    /\ fixed' = IF unsat THEN {} ELSE fixed
    /\ checker' = AddAll(checker, MapSeq(LAMBDA l : Line({l}, Pivot(l)),
                                         ListOf(fixed')))
    /\ output' = Db \cup ToSet(sbp) \cup {{l} : l \in fixed'}
    /\ UNCHANGED <<instance, formula, values, db, detectVars, groupVars,
                   iteration, limits, unsat>>

SatNext ==
    \/ Simplify \/ Transfer
    \/ \E x \in instance.johnson : DetectJohnson(x)
    \/ \E m \in instance.grids : DetectRowColumn(m)
    \/ \E m \in instance.rows : DetectRows(m)
    \/ NextPass \/ DetectGeneric
    \/ \E g \in waiting : NegationFixing(g) \/ BinaryFixing(g)
    \/ PassDone
    \/ NegationFixingSchreier \/ NegationDone
    \/ \E v \in Literals : ScheduleCut(v)
    \/ \E C \in Db : \E v \in C : ScheduleFix(C, v)
    \/ PerformScheduled
    \/ Iterate \/ Write

SatSpec == SatInit /\ [][SatNext]_satVars

-----------------------------------------------------------------------------
(***************************************************************************)
(* Properties.                                                             *)
(***************************************************************************)
\* Every line satsuma writes is accepted by the checker when it is read, and
\* every clause it deletes is there (read_from_cnf2wl, proof.h).
ProofChecks == checker.ok

RECURSIVE Satisfiable(_, _)
Satisfiable(S, F) ==
    \E T \in {UnitClosure(S, F)} :
        /\ ~ Conflicting(T, F)
        /\ \A open \in {VariablesOf(UNION Unsatisfied(T, F))} :
             open # {} => \E l \in {Min(open), -Min(open)} :
                            Satisfiable(T \cup {l}, F)

\* The output has a model if the input has one, and every model of the output
\* is one of the input (preprocess).
AnswerKept ==
    stage = "done" =>
        /\ Satisfiable({}, ToSet(instance.clauses)) => Satisfiable({}, output)
        /\ \A C \in ToSet(instance.clauses) : ~ Satisfiable(Neg(C), output)

\* The elements of a level of the stabilizer chain are symmetries of the
\* formula, fix the earlier base points and lead to their own
\* (random_schreier_internal).
ChainSound ==
    /\ \A g \in DOMAIN schreier.gens : Automorphism(schreier.gens[g], Db)
    /\ \A g \in schreier.kept, b \in ToSet(schreier.base) :
         schreier.gens[g][b] = b
    /\ \A k \in DOMAIN schreier.base : \A l \in DOMAIN schreier.levels[k] :
         \E p \in {TransversalElement(schreier, k, l)} :
             /\ p[l] = schreier.base[k]
             /\ \A j \in 1 .. k - 1 : p[schreier.base[j]] = schreier.base[j]

\* Refinement ends with an equitable coloring: vertices of a cell have equally
\* many neighbours in every cell; and a symmetry moves no literal out of its cell, so
\* that none is missed (refine_coloring, hypergraph_reduction).
Equitable ==
    stage = "johnson" =>
        /\ \E g \in {Graph(Db, BinaryGraph(Db, instance.vars))} :
             \A X, Y \in cells : Cardinality(Parts(g, Y, X)) = 1
        /\ \A p \in Automorphisms : \A l \in Support(p) : SameCell(l, p[l], cells)

=============================================================================
