-------------------------- MODULE Preprocessing ---------------------------
(***************************************************************************)
(* The formula inside the solver and its names outside: kissat_add and     *)
(* import.c, flags.c, root propagation, the garbage collection with its    *)
(* renumbering of variables (collect.c, compact.c), and the extension      *)
(* stack that turns a model of the simplified formula into one of the      *)
(* original (weaken.c, extend.c).                                          *)
(*                                                                         *)
(* An external literal is a number of the input and of the proof, an       *)
(* internal one an index into the solver's arrays; both are written in     *)
(* DIMACS form.  The solver is one record, like the struct kissat that     *)
(* every function gets: an operator takes it and returns the next one.     *)
(* Each proof line is checked when it is written: accepted says that every *)
(* added clause had reverse unit propagation and every deleted one was     *)
(* there.  A garbage clause leaves at once; the code keeps it, flagged,    *)
(* until the next collection.                                              *)
(***************************************************************************)
EXTENDS UnitPropagation, Bags

CONSTANTS
    Formulas,               \* the inputs, sequences of sequences of literals
    Steps                   \* bound on the number of passes

VARIABLES
    original,               \* the clauses of the input
    input,                  \* those that kissat_add has not seen yet
    solver,                 \* struct kissat
    mode,                   \* "adding", "sparse", "dense" or "fast"
    steps                   \* the passes left

preVars == <<original, input, solver, mode, steps>>

-----------------------------------------------------------------------------
(***************************************************************************)
(* Proof lines.                                                            *)
(***************************************************************************)
ExportLit(s, l) == Sign(l) * s.export[Abs(l)]
ExportSet(s, C) == {ExportLit(s, l) : l \in C}

AddLineOf(s, E) ==
    [s EXCEPT !.accepted = @ /\ HasRup(E, BagToSet(s.db)),
              !.db = @ (+) SetToBag({E})]

DeleteLineOf(s, E) ==
    [s EXCEPT !.accepted = @ /\ BagIn(E, s.db),
              !.db = @ (-) SetToBag({E})]

AddLine(s, C) == AddLineOf(s, ExportSet(s, C))
DeleteLine(s, C) == DeleteLineOf(s, ExportSet(s, C))

Inconsistent(s) == [AddLine(s, {}) EXCEPT !.inconsistent = TRUE]

-----------------------------------------------------------------------------
(***************************************************************************)
(* Clauses and units.  A binary clause is never redundant.                 *)
(***************************************************************************)
Entry(lits, redundant) ==
    [lits |-> lits, redundant |-> redundant /\ Cardinality(lits) > 2]

Present(s) == BagToSet(s.clauses)
LitsOf(s) == {c.lits : c \in Present(s)}
Irredundant(s) == {c \in Present(s) : ~ c.redundant}
Occurrences(s, l) == {c \in Irredundant(s) : l \in c.lits}
Binaries(s) == {c.lits : c \in {d \in Present(s) : Cardinality(d.lits) = 2}}

PutClause(s, lits, redundant) ==
    [s EXCEPT !.clauses = @ (+) SetToBag({Entry(lits, redundant)})]
NewClause(s, lits, redundant) == PutClause(AddLine(s, lits), lits, redundant)

DropClause(s, c) ==
    [DeleteLine(s, c.lits) EXCEPT !.clauses = @ (-) SetToBag({c})]

RECURSIVE DropCopies(_, _)
DropCopies(s, c) ==
    IF BagIn(c, s.clauses) THEN DropCopies(DropClause(s, c), c) ELSE s

DropAll(s, D) == FoldSet(LAMBDA c, t : DropCopies(t, c), s, D)

Active(s) == {i \in DOMAIN s.flags : s.flags[i] = "active"}
IsTrue(s, C) == C \cap s.value # {}
NonFalse(s, C) == C \ Neg(s.value)

\* kissat_assign at level zero with kissat_mark_fixed_literal.
Assign(s, l) ==
    [s EXCEPT !.value = @ \cup {l},
              !.flags[Abs(l)] = "fixed",
              !.units = @ \cup {ExportLit(s, l)}]

LearnedUnit(s, l) == Assign(AddLine(s, {l}), l)

\* Propagation at the root over the clauses in F.
PropagateOver(s, F) ==
    LET S == UnitClosure(s.value, F) IN
      IF s.inconsistent THEN s
      ELSE IF Conflicting(S, F) THEN Inconsistent(s)
      ELSE FoldSet(LAMBDA l, t : LearnedUnit(t, l), s, S \ s.value)

Propagate(s) == PropagateOver(s, LitsOf(s))

\* A derived clause, simplified by the units: nothing, a unit or a clause.
Derive(s, lits, redundant) ==
    LET C == NonFalse(s, lits) IN
      IF s.inconsistent \/ IsTrue(s, lits) \/ \E l \in C : -l \in C THEN s
      ELSE IF C = {} THEN Inconsistent(s)
      ELSE IF Cardinality(C) = 1 THEN LearnedUnit(s, CHOOSE l \in C : TRUE)
      ELSE NewClause(s, C, redundant)

-----------------------------------------------------------------------------
(***************************************************************************)
(* Import of literals and kissat_add.                                      *)
(***************************************************************************)
NoImport == [imported |-> FALSE, eliminated |-> FALSE, lit |-> 0,
             extension |-> FALSE]

\* All external variables up to the new one get the next internal indices.
ImportUpTo(s, e, extension) ==
    LET old == Len(s.import)
        vars == Len(s.export)
        new == e - old
    IN IF new <= 0 THEN s
       ELSE [s EXCEPT
              !.import = @ \o [i \in 1 .. new |->
                  [imported |-> TRUE, eliminated |-> FALSE, lit |-> vars + i,
                   extension |-> extension]],
              !.export = @ \o [i \in 1 .. new |-> old + i],
              !.flags = @ \o [i \in 1 .. new |-> "inactive"]]

ImportLit(s, e) == Sign(e) * s.import[Abs(e)].lit

Activate(s, C) ==
    FoldSet(LAMBDA l, t : [t EXCEPT !.flags[Abs(l)] = "active"], s, C)

\* The proof lines of an input clause that was imported as C: a shorter one is
\* added before the original goes; units are never deleted.
ImportLines(s, elits, C, skipped) ==
    LET E == ToSet(elits)
    IN IF skipped THEN IF Len(elits) = 1 THEN s ELSE DeleteLineOf(s, E)
       ELSE IF ~ s.inconsistent /\ Cardinality(C) # Len(elits)
              THEN DeleteLineOf(AddLine(s, C), E) ELSE s

\* One clause of the input, with repeated, false, true and opposite literals.
AddOriginal(s, elits) ==
    LET E == ToSet(elits)
        t == ImportUpTo(s, Max({Abs(e) : e \in E} \cup {0}), FALSE)
        I == {ImportLit(t, e) : e \in E}
        open == NonFalse(t, I) \ t.value
        skipped == IsTrue(t, I) \/ \E l \in open : -l \in open
        u == IF t.inconsistent \/ skipped THEN t
             ELSE CASE open = {} -> Inconsistent(Activate(t, open))
                    [] Cardinality(open) = 1 ->
                         Propagate(Assign(Activate(t, open),
                                          CHOOSE l \in open : TRUE))
                    [] OTHER -> PutClause(Activate(t, open), open, FALSE)
    IN ImportLines(u, elits, open, skipped)

-----------------------------------------------------------------------------
(***************************************************************************)
(* Garbage collection at the root, and the renumbering of variables.       *)
(***************************************************************************)
CollectClause(s, c) ==
    LET C == NonFalse(s, c.lits) IN
      IF IsTrue(s, c.lits) THEN DropClause(s, c)
      ELSE IF C = c.lits THEN s
      ELSE DropClause(NewClause(s, C, c.redundant), c)

RECURSIVE CollectCopies(_, _)
CollectCopies(s, c) ==
    IF ~ BagIn(c, s.clauses) \/ CollectClause(s, c) = s THEN s
    ELSE CollectCopies(CollectClause(s, c), c)

Collect(s) == FoldSet(LAMBDA c, t : CollectCopies(t, c), s, Present(s))

\* kissat_compact_literals: the active variables keep their order, one fixed
\* variable stands for all of them, unused variables are forgotten.
Fixed(s) == {i \in DOMAIN s.flags : s.flags[i] = "fixed"}
Kept(s) == Active(s) \cup {i \in Fixed(s) : \A j \in Fixed(s) : i <= j}
Mapped(s, i) == Cardinality({j \in Kept(s) : j <= i})
MapLit(s, l) == Sign(l) * Mapped(s, Abs(l))

\* The literal of the first fixed variable that is true.
MFixed(s) ==
    LET i == Min(Fixed(s)) IN IF i \in s.value THEN Mapped(s, i) ELSE -Mapped(s, i)

\* Mutant: a unit becomes the fixed variable whatever its sign.
CompactImportUnsigned(s, e) ==
    LET r == s.import[e]
    IN IF ~ r.imported \/ r.eliminated THEN r
       ELSE IF {e, -e} \cap s.units # {} THEN [r EXCEPT !.lit = MFixed(s)]
       ELSE IF Abs(r.lit) \in Active(s) THEN [r EXCEPT !.lit = MapLit(s, @)]
       ELSE [r EXCEPT !.imported = FALSE]

CompactImport(s, e) ==
    LET r == s.import[e]
    IN IF ~ r.imported \/ r.eliminated THEN r
       ELSE IF {e, -e} \cap s.units # {}
         THEN [r EXCEPT !.lit = IF e \in s.units THEN MFixed(s) ELSE -MFixed(s)]
       ELSE IF Abs(r.lit) \in Active(s) THEN [r EXCEPT !.lit = MapLit(s, @)]
       ELSE [r EXCEPT !.imported = FALSE]

Compact(s) ==
    LET old == [n \in 1 .. Cardinality(Kept(s)) |->
                  CHOOSE i \in Kept(s) : Mapped(s, i) = n]
        moved(c) == [c EXCEPT !.lits = {MapLit(s, l) : l \in @}]
    IN [s EXCEPT
         !.import = MapSeq(LAMBDA e : CompactImport(s, e), [e \in DOMAIN @ |-> e]),
         !.export = MapSeq(LAMBDA i : s.export[i], old),
         !.flags = MapSeq(LAMBDA i : s.flags[i], old),
         !.value = {MapLit(s, l) : l \in {k \in @ : Abs(k) \in Kept(s)}},
         !.clauses = [d \in {moved(c) : c \in DOMAIN @} |->
            LET same == {c \in DOMAIN @ : moved(c) = d}
            IN FoldSet(LAMBDA c, n : n + s.clauses[c], 0, same)]]

-----------------------------------------------------------------------------
(***************************************************************************)
(* The extension stack and its use.                                        *)
(***************************************************************************)
\* kissat_weaken_clause: the witness, and the literals that are not false.
Weaken(s, l, lits) ==
    [s EXCEPT !.extend = Append(@, [blocking |-> ExportLit(s, l),
                  others |-> ExportSet(s, NonFalse(s, lits \ {l}))])]

\* kissat_mark_eliminated_variable
MarkEliminated(s, i) ==
    [s EXCEPT !.flags[i] = "eliminated",
              !.import[s.export[i]].eliminated = TRUE,
              !.import[s.export[i]].lit = s.eliminated + 1,
              !.eliminated = @ + 1]

\* The value of an external literal: 1, -1 or 0.  A is the set of true
\* internal literals, evalues the values of the eliminated variables.
ExternalValue(s, A, evalues, e) ==
    LET r == s.import[Abs(e)]
    IN IF r.eliminated THEN Sign(e) * evalues[r.lit]
       ELSE IF ImportLit(s, e) \in A THEN 1
       ELSE IF -ImportLit(s, e) \in A THEN -1 ELSE 0

\* One witness-labelled clause of kissat_extend.
Repair(s, A, evalues, x) ==
    LET C == x.others \cup {x.blocking}
        value(e) == ExternalValue(s, A, evalues, e)
        position(e) == s.import[Abs(e)].lit
        free == {e \in C : s.import[Abs(e)].eliminated /\ value(e) = 0}
        chosen == IF free = {} THEN x.blocking
                  ELSE CHOOSE e \in free : \A f \in free : position(f) <= position(e)
    IN IF \E e \in C : value(e) = 1 THEN evalues
       ELSE [evalues EXCEPT ![position(chosen)] = Sign(chosen)]

\* Mutant: the entries are read in the order in which they were written.
ExtendedForward(s, A) ==
    FoldLeft(LAMBDA evalues, x : Repair(s, A, evalues, x),
             [p \in 1 .. s.eliminated |-> 0], s.extend)

\* kissat_extend: from the last entry to the first.
Extended(s, A) ==
    FoldRight(LAMBDA x, evalues : Repair(s, A, evalues, x), s.extend,
              [p \in 1 .. s.eliminated |-> 0])

\* kissat_value and kissat_print_witness: what has no value is printed true.
Witness(s, A, externals) ==
    LET evalues == Extended(s, A)
        value(e) == IF s.import[e].imported
                      THEN ExternalValue(s, A, evalues, e) ELSE 0
    IN {IF value(e) = -1 THEN -e ELSE e : e \in externals}

-----------------------------------------------------------------------------
(***************************************************************************)
(* Elimination of variables by resolution: eliminate.c with resolve.c, its *)
(* gates and definitions (gates.c, definition.c), and fastel.c.            *)
(*                                                                         *)
(* Both work on the irredundant clauses only, in a dense mode without      *)
(* watches; learned clauses with an eliminated variable stay until sparse  *)
(* mode resumes.  The order of the occurrence lists is one that TLC picks; *)
(* the limits on resolvents and effort are left to chance.                 *)
(***************************************************************************)
Resolvent(s, c, d, l) == (c.lits \ {l}) \cup (d.lits \ {-l})

Skipped(s, C) == IsTrue(s, C) \/ \E l \in NonFalse(s, C) : -l \in C

\* kissat_flush_units_while_connected: propagation over what is connected,
\* and satisfied large clauses go.
FlushUnits(s) ==
    LET t == PropagateOver(s, {c.lits : c \in Irredundant(s)})
        satisfied == {c \in Irredundant(t) :
                        Cardinality(c.lits) > 2 /\ IsTrue(t, c.lits)}
    IN IF t.inconsistent THEN t ELSE DropAll(t, satisfied)

-----------------------------------------------------------------------------
(***************************************************************************)
(* A gate of l is a part of the clauses with l and of those with -l that   *)
(* cannot all be satisfied without l and -l: equivalences, conjunctions    *)
(* and if-then-elses found by their syntax, and cores found by kitten.     *)
(***************************************************************************)
EquivalenceGatesOf(s, l) ==
    LET opposite == {p \in Occurrences(s, l) \X Occurrences(s, -l) :
                       Cardinality(p[1].lits) = 2 /\ p[2].lits = Neg(p[1].lits)}
    IN {{p[1], p[2]} : p \in opposite}

\* l is a conjunction: a large clause with -l, and a binary clause with l for
\* each of its other literals that is not false.
AndGatesOf(s, l) ==
    LET marked == {c \in Occurrences(s, l) : Cardinality(c.lits) = 2}
        side(c) == {d \in marked : d.lits \ {l} \subseteq Neg(NonFalse(s, c.lits))}
        bases == {c \in Occurrences(s, -l) :
                    /\ Cardinality(c.lits) > 2
                    /\ ~ IsTrue(s, c.lits)
                    /\ \A k \in NonFalse(s, c.lits) \ {-l} :
                         \E d \in marked : d.lits = {l, -k}}
    IN IF Cardinality(marked) < 2 THEN {} ELSE {{c} \cup side(c) : c \in bases}

\* b selects in two ternary clauses with l; the clauses with -l that close the
\* gate may be shorter.
IteGatesOf(s, l) ==
    LET inputs(c) == NonFalse(s, c.lits) \ {l}
        ternary == {c \in Occurrences(s, l) :
                      ~ IsTrue(s, c.lits) /\ Cardinality(inputs(c)) = 2}
        selected == {t \in ternary \X ternary \X UNION {inputs(c) : c \in ternary} :
                       /\ t[3] \in inputs(t[1])
                       /\ -t[3] \in inputs(t[2])
                       /\ (inputs(t[2]) \ {-t[3]}) \cap
                            (inputs(t[1]) \cup Neg(inputs(t[1]))) = {}}
        closing(c, b) == {d \in Occurrences(s, -l) :
                            /\ ~ IsTrue(s, d.lits)
                            /\ NonFalse(s, d.lits) \subseteq
                                 {-l, b} \cup Neg(inputs(c) \ {b})}
    IN UNION {{{t[1], t[2], p[1], p[2]} :
                 p \in closing(t[1], t[3]) \X closing(t[2], -t[3])} : t \in selected}

IsCore(s, l, G) ==
    LET vars == Active(s) \ {Abs(l)}
        restricted == {NonFalse(s, c.lits) \ {l, -l} : c \in G}
    IN \A P \in SUBSET vars : \E C \in restricted :
         \A k \in C : IF k > 0 THEN k \notin P ELSE -k \in P

Cores(s, l) ==
    LET cores == {G \in SUBSET (Occurrences(s, l) \cup Occurrences(s, -l)) :
                     IsCore(s, l, G)}
    IN {G \in cores : \A H \in cores : H \subseteq G => H = G}

\* kissat_find_gates: each search may be switched off.
FoundGates(s, l) ==
    EquivalenceGatesOf(s, l) \cup AndGatesOf(s, l) \cup AndGatesOf(s, -l)
      \cup IteGatesOf(s, l) \cup IteGatesOf(s, -l) \cup Cores(s, l)

\* traverse_one_sided_core_lemma: when all clauses of a core contain the unit,
\* what kitten learned from them is added to the proof, and deleted again.
OneSidedCore(s, G, unit) ==
    LET vars == {Abs(k) : k \in UNION {c.lits : c \in G}} \ {Abs(unit)}
        lits == vars \cup Neg(vars)
        lemmas(n) == {L \in kSubset(n, lits) : \A k \in L : -k \notin L}
        add(t, L) == IF HasRup(ExportSet(s, L \cup {unit}), BagToSet(t.db))
                       THEN AddLine(t, L \cup {unit}) ELSE t
        sizes == Reverse([n \in 1 .. Cardinality(vars) - 1 |-> n])
        added == FoldLeft(LAMBDA t, n : FoldSet(LAMBDA L, u : add(u, L), t, lemmas(n)),
                          s, sizes)
        learned == LearnedUnit(added, unit)
    IN FoldSet(LAMBDA E, t : DeleteLineOf(t, E), learned,
               BagToSet(added.db (-) s.db))

-----------------------------------------------------------------------------
\* generate_resolvents: r is the solver with the resolvents so far.
ResolvePair(r, c, d, l) ==
    LET C == Resolvent(r.s, c, d, l)
        R == NonFalse(r.s, C)
    IN IF r.s.inconsistent \/ Skipped(r.s, C) THEN r
       ELSE IF R = {} THEN [r EXCEPT !.s = Inconsistent(@)]
       ELSE IF Cardinality(R) = 1
         THEN [r EXCEPT !.s = LearnedUnit(@, CHOOSE k \in R : TRUE)]
       ELSE [r EXCEPT !.resolvents = Append(@, R)]

Resolve(r, C, D, l) ==
    FoldSet(LAMBDA p, q : ResolvePair(q, p[1], p[2], l), r, C \X D)

\* kissat_get_antecedents: the clauses of l outside of its gate.
Divided(s, l, G) ==
    [gate |-> Occurrences(s, l) \cap G, antecedents |-> Occurrences(s, l) \ G]

\* With a gate only gate clauses are resolved with the others; two sides of a
\* definition are resolved as well.
Resolved(s, l, G) ==
    LET C == Divided(s, l, G)
        D == Divided(s, -l, G)
        r == [s |-> s, resolvents |-> <<>>]
    IN IF G = {} THEN Resolve(r, C.antecedents, D.antecedents, l)
       ELSE Resolve(Resolve(Resolve(r, C.gate, D.antecedents, l),
                            C.antecedents, D.gate, l), C.gate, D.gate, l)

\* connect_resolvents
Connected(r) == FoldLeft(LAMBDA t, R : Derive(t, R, FALSE), r.s, r.resolvents)

WeakenAll(s, l) ==
    FoldSet(LAMBDA c, t : IF IsTrue(t, c.lits) THEN t ELSE Weaken(t, l, c.lits),
            s, Occurrences(s, l))

\* weaken_clauses: the clauses with l are kept as witnesses for l, and -l is
\* the value without them.
WeakenClauses(s, l) ==
    LET C == Occurrences(s, l)
        D == Occurrences(s, -l)
        t == DropAll(WeakenAll(s, l), C)
        u == IF D = {} THEN t ELSE Weaken(t, -l, {-l})
    IN FlushUnits(DropAll(u, D))

\* The side with fewer occurrences.
Side(s, i) ==
    IF Cardinality(Occurrences(s, i)) > Cardinality(Occurrences(s, -i)) THEN -i
    ELSE i

SatisfiedBinaries(s, i) ==
    {c \in Occurrences(s, i) \cup Occurrences(s, -i) :
        Cardinality(c.lits) = 2 /\ IsTrue(s, c.lits)}

\* eliminate_variable, with the gate G or without one, within the limits or not.
EliminateVariable(s, i, G, limited) ==
    LET l == Side(s, i)
        r == Resolved(s, l, G)
        t == Connected(r)
        u == IF t.inconsistent THEN t ELSE WeakenClauses(t, l)
    IN IF G # {} /\ \A c \in G : l \in c.lits
         THEN FlushUnits(OneSidedCore(s, G, l))
       ELSE IF G # {} /\ \A c \in G : -l \in c.lits
         THEN FlushUnits(OneSidedCore(s, G, -l))
       ELSE IF (limited /\ Occurrences(s, l) # {}) \/ r.s.inconsistent
         THEN FlushUnits(r.s)
       ELSE MarkEliminated(u, i)

-----------------------------------------------------------------------------
\* kissat_flush_large_watches removes repeated binary clauses on the way.
DropRepeatedBinaries(s) ==
    LET repeated == {c \in Present(s) : Cardinality(c.lits) = 2 /\ s.clauses[c] > 1}
    IN FoldSet(LAMBDA c, t : FoldLeft(LAMBDA u, n : DropClause(u, c), t,
                                      [n \in 1 .. t.clauses[c] - 1 |-> n]), s, repeated)

\* kissat_enter_dense_mode and kissat_connect_irredundant_large_clauses.
EnterDense(next) ==
    /\ mode = "sparse"
    /\ mode' = next
    /\ LET s == DropRepeatedBinaries(solver) IN
         solver' = DropAll(s, {c \in Irredundant(s) :
                       Cardinality(c.lits) > 2 /\ IsTrue(s, c.lits)})

Eliminate(i) ==
    /\ mode = "dense"
    /\ i \in Active(solver)
    /\ LET s == DropAll(solver, SatisfiedBinaries(solver, i)) IN
         \E G \in FoundGates(s, Side(s, i)) \cup {{}}, limited \in BOOLEAN :
            solver' = EliminateVariable(s, i, G, limited)
    /\ UNCHANGED mode

HasEliminated(s, c) == \E l \in c.lits : s.flags[Abs(l)] = "eliminated"

\* kissat_resume_sparse_mode with
\* resume_watching_large_clauses_after_elimination.
ResumeSparse ==
    /\ mode \in {"dense", "fast"}
    /\ mode' = "sparse"
    /\ solver' =
         IF solver.inconsistent THEN solver
         ELSE Propagate(DropAll(solver, {c \in Present(solver) :
                  /\ Cardinality(c.lits) > 2
                  /\ IsTrue(solver, c.lits) \/ HasEliminated(solver, c)}))

-----------------------------------------------------------------------------
\* fast_forward_subsumed: a large clause that another one subsumes.
FastSubsumed(s, c) ==
    \/ s.clauses[c] > 1
    \/ \E d \in Irredundant(s) \ {c} : NonFalse(s, d.lits) \subseteq c.lits

FlushOccurrences(s, C) ==
    FoldSet(LAMBDA c, t : IF FastSubsumed(t, c) THEN DropClause(t, c) ELSE t, s, C)

\* can_fast_resolve_large_large: a resolvent that subsumes an antecedent, or
\* both, replaces them.
ReplaceAntecedents(s, R, c, d) ==
    LET subsumed == {x \in {c, d} : R \subseteq x.lits}
    IN IF subsumed = {} THEN s ELSE DropAll(NewClause(s, R, FALSE), subsumed)

\* can_fast_resolve: while the resolvents are counted, short ones are learned.
Strengthen(s, c, d, l) ==
    LET C == Resolvent(s, c, d, l)
        R == NonFalse(s, C)
    IN IF s.inconsistent \/ {c, d} \ Present(s) # {} \/ Skipped(s, C) THEN s
       ELSE IF Cardinality(R) < 2 THEN Derive(s, C, FALSE)
       ELSE ReplaceAntecedents(s, R, c, d)

FastResolve(s, c, d, l) ==
    IF {c, d} \ Present(s) # {} THEN s ELSE Derive(s, Resolvent(s, c, d, l), FALSE)

Antecedents(s, l) == Occurrences(s, l) \X Occurrences(s, -l)
FastResolveAll(s, l) ==
    FoldSet(LAMBDA p, t : FastResolve(t, p[1], p[2], l), s, Antecedents(s, l))
StrengthenAll(s, l) ==
    FoldSet(LAMBDA p, t : Strengthen(t, p[1], p[2], l), s, Antecedents(s, l))

\* do_fast_eliminate: every clause is its own witness, on both sides.
DoFastEliminate(s, i) ==
    LET t == FastResolveAll(s, i)
        u == MarkEliminated(t, i)
        side(v, l) == DropAll(WeakenAll(v, l), Occurrences(v, l))
    IN IF t.inconsistent THEN t ELSE side(side(u, i), -i)

\* try_to_fast_eliminate: the flushed clauses F of i, the number of resolvents
\* counted or not needed, and within its limit or not.
TryToFastEliminate(i, F, count, limited) ==
    LET s == FlushOccurrences(solver, F)
        t == IF count THEN StrengthenAll(s, i) ELSE s
    IN IF t.inconsistent \/ (count /\ limited) THEN t ELSE DoFastEliminate(t, i)

FastEliminate(i) ==
    /\ mode = "fast"
    /\ i \in Active(solver)
    /\ \E F \in SUBSET {c \in Occurrences(solver, i) \cup Occurrences(solver, -i) :
                          Cardinality(c.lits) > 2},
          count, limited \in BOOLEAN :
         solver' = FlushUnits(TryToFastEliminate(i, F, count, limited))
    /\ UNCHANGED mode

=============================================================================
