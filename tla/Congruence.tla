----------------------------- MODULE Congruence -----------------------------
(***************************************************************************)
(* Congruence closure (congruence.c): gates are extracted from the         *)
(* clauses, units and equivalences from the binary clauses, and both are   *)
(* propagated over the gates until nothing changes; then clauses that are  *)
(* subsumed modulo the equivalences leave.  The equivalences stay in the   *)
(* formula as binary clauses: substitution, the next pass of probe.c, uses *)
(* them to eliminate the variables.                                        *)
(***************************************************************************)
EXTENDS Gates

VARIABLE closure            \* struct closure; closure.s is the solver in the pass

congruenceVars == <<preVars, closure>>

Idle == [phase |-> "idle"]

-----------------------------------------------------------------------------
(***************************************************************************)
(* Extraction, in dense mode: the clauses without their false literals.    *)
(***************************************************************************)
Large(s) == {NonFalse(s, c.lits) : c \in {d \in Irredundant(s) :
                Cardinality(d.lits) > 2 /\ ~ IsTrue(s, d.lits)}}
Bases(s) == {C \in Large(s) : Cardinality(C) > 2}
Ternary(s) == {C \in Bases(s) : Cardinality(C) = 3}

\* extract_binaries: a ternary clause that a binary one shortens.  Clauses are
\* sets here: of several literals that can go, that of the smallest code does,
\* the code takes the first in the clause.
Strengthened(s) ==
    LET B == Binaries(s)
        shortens(C, l) == \E k \in C \ {l} : {-l, k} \in B
        least(C) == MinCode({l \in C : shortens(C, l)})
    IN {C \ {least(C)} : C \in {D \in Ternary(s) : \E l \in D : shortens(D, l)}} \ B

ExtractBinaries(k) ==
    [k EXCEPT !.s = FoldSet(LAMBDA C, s : Derive(s, C, FALSE), @, Strengthened(@))]

\* extract_and_gates_with_base_clause: a left side that no other literal of
\* the clause can be true with.
AndGates(s) ==
    {<<l, C>> \in Lits(s) \X Bases(s) :
        l \in C /\ \A o \in C \ {l} : {-l, -o} \in Binaries(s)}

ExtractAndGates(k) ==
    FoldSet(LAMBDA p, q : IF q.s.inconsistent THEN q
              ELSE NewGate(q, "AND", p[1], Sorted(Neg(p[2] \ {p[1]}))), k, AndGates(k.s))

\* find_large_xor_side_clause, with the false literals of a clause left out.
HasSideClause(s, D) == \E E \in Bases(s) : E \subseteq D

\* extract_xor_gates_with_base_clause: at most the largest literal is
\* negative, and all clauses of the same parity are there.
XorBases(s) ==
    {C \in Bases(s) :
        /\ \A l \in C : l < 0 => \A o \in C : Code(o) <= Code(l)
        /\ \A D \in Signs(C) :
             Cardinality({l \in D : l < 0}) % 2 = Cardinality({l \in C : l < 0}) % 2
               => HasSideClause(s, D)}

ExtractXorGates(k) ==
    LET positive(C) == {Abs(l) : l \in C}
        lhs(C, v) == IF \E l \in C : l < 0 THEN v ELSE -v
        gates == {p \in (DOMAIN k.s.flags) \X XorBases(k.s) : p[1] \in positive(p[2])}
    IN FoldSet(LAMBDA p, q : IF q.s.inconsistent THEN q
                 ELSE NewGate(q, "XOR", lhs(p[2], p[1]), Sorted(positive(p[2]) \ {p[1]})),
               k, gates)

\* find_conditional_equivalences: what is equivalent to the positive literal l
\* when the condition c is true.
CondEquivalent(s, c, l) ==
    {o \in Lits(s) : {{-c, l, -o}, {-c, -l, o}} \subseteq Ternary(s)}

\* extract_condeq_pairs and merge_condeq: a literal with an equivalent one
\* under the condition and one under its negation.
IteGates(s) ==
    UNION {{<<p[1], p[2], t, e>> : t \in CondEquivalent(s, p[1], p[2]),
                                   e \in CondEquivalent(s, -p[1], p[2])}
             : p \in Active(s) \X Active(s)}

ExtractIteGates(k) ==
    FoldSet(LAMBDA g, q : IF q.s.inconsistent THEN q
              ELSE NewIteGate(q, g[2], g[1], g[3], g[4]), k, IteGates(k.s))

-----------------------------------------------------------------------------
(***************************************************************************)
(* forward_subsume_matching_clauses                                        *)
(***************************************************************************)
Image(k, C) == {Find(k, l) : l \in NonFalse(k.s, C)}

Matchable(k, C) ==
    \E l \in C, o \in DOMAIN k.repr :
        /\ Abs(o) \in Active(k.s) /\ k.repr[o] # o
        /\ Abs(l) \in {Abs(o), Abs(Find(k, o))}

\* find_subsuming_clause, for one candidate that was kept.
SubsumesModulo(k, d, c) ==
    /\ Image(k, d.lits) \subseteq Image(k, c.lits)
    /\ d.redundant => c.redundant

\* r: the closure and the candidates kept so far; a copy subsumes the others.
SubsumeCandidate(r, c) ==
    IF \E d \in r.kept : SubsumesModulo(r.k, d, c)
      THEN [r EXCEPT !.k.s = DropCopies(@, c)]
    ELSE [k |-> [r.k EXCEPT !.s = FoldLeft(LAMBDA s, n : DropClause(s, c), @,
                                     [n \in 1 .. r.k.s.clauses[c] - 1 |-> n])],
          kept |-> r.kept \cup {c}]

\* Large clauses up to the last irredundant one, the redundant ones R before it.
SubsumeMatching(k, R) ==
    LET s == DropRepeatedBinaries(k.s)
        large == {c \in Irredundant(s) \cup R : Cardinality(c.lits) > 2}
        gone == {c \in large : IsTrue(s, c.lits) \/ Tautology(Image(k, c.lits))}
        candidates == {c \in large \ gone : Matchable(k, NonFalse(s, c.lits))}
        ofSize(n) == {c \in candidates : Cardinality(Image(k, c.lits)) = n}
        sizes == [n \in 1 .. Cardinality(DOMAIN k.repr) |-> n]
    IN FoldLeft(LAMBDA r, n : FoldSet(LAMBDA c, q : SubsumeCandidate(q, c), r, ofSize(n)),
                [k |-> [k EXCEPT !.s = DropAll(s, gone)], kept |-> {}], sizes).k

-----------------------------------------------------------------------------
(***************************************************************************)
(* The pass.                                                               *)
(***************************************************************************)
Phase(k, next) == [k EXCEPT !.phase = IF k.s.inconsistent THEN "done" ELSE next]

\* init_closure and extract_gates
Extract ==
    /\ mode = "sparse"
    /\ closure.phase = "idle"
    /\ steps > 0
    /\ ~ solver.inconsistent
    /\ \E D \in SUBSET {c \in Irredundant(solver) :
                          Cardinality(c.lits) > 2 /\ IsTrue(solver, c.lits)} :
         LET all == DOMAIN solver.flags
             k == [s |-> DropRepeatedBinaries(DropAll(solver, D)),
                   repr |-> [l \in all |-> l] @@ [l \in Neg(all) |-> l],
                   gates |-> <<>>, schedule |-> <<>>, units |-> solver.value,
                   propagated |-> 0, phase |-> "extract"]
         IN closure' = Phase(ExtractIteGates(ExtractXorGates(ExtractAndGates(
                                 ExtractBinaries(k)))), "units")
    /\ mode' = "closing"
    /\ UNCHANGED <<original, input, solver, steps>>

Closing(phase) ==
    /\ mode = "closing"
    /\ closure.phase = phase
    /\ UNCHANGED <<preVars>>

\* find_units
FindUnits ==
    /\ Closing("units")
    /\ LET units == HyperUnits(closure.s) IN
         IF units = {} THEN closure' = Phase(closure, "equivalences")
         ELSE \E l \in units :
                closure' = Phase(LearnCongruenceUnit(closure, l), "units")

\* find_equivalences
FindEquivalences ==
    /\ Closing("equivalences")
    /\ LET pairs == {<<l, o>> \in Active(closure.s) \X Lits(closure.s) :
                        /\ Code(l) < Code(o) /\ l # -o
                        /\ {{l, -o}, {-l, o}} \subseteq Binaries(closure.s)
                        /\ Find(closure, l) # Find(closure, o)}
       IN IF pairs = {} THEN closure' = Phase(closure, "propagate")
          ELSE \E p \in pairs :
                 closure' = Phase(MergeLiterals(closure, p[1], p[2]), "equivalences")

PropagateUnit ==
    /\ Closing("propagate")
    /\ \E l \in closure.s.value \ closure.units :
         closure' = Phase(FoldLeft(SimplifyGates, [closure EXCEPT !.units = @ \cup {l}],
                                   <<l, -l>>), "propagate")

\* One scheduled literal, when no unit is left to propagate.
PropagateEquivalence ==
    /\ Closing("propagate")
    /\ closure.s.value \subseteq closure.units
    /\ closure.schedule # <<>>
    /\ LET l == Head(closure.schedule)
           k == [closure EXCEPT !.schedule = Tail(@), !.propagated = @ + 1]
           dst == Find(k, l)
       IN closure' = Phase(FoldLeft(LAMBDA q, sign : RewriteGates(q, sign * dst, sign * l),
                                    k, IF Value(k, l) = 0 THEN <<1, -1>> ELSE <<>>),
                           "propagate")

Fixpoint(k) ==
    /\ k.phase = "propagate"
    /\ k.s.value \subseteq k.units
    /\ k.schedule = <<>>

Subsume ==
    /\ Closing("propagate")
    /\ Fixpoint(closure)
    /\ \E R \in SUBSET (Present(closure.s) \ Irredundant(closure.s)) :
         closure' = Phase(IF closure.propagated > 0 THEN SubsumeMatching(closure, R)
                          ELSE closure, "done")

\* The end of the pass, or an interrupt at one of its TERMINATED checks.
Leave ==
    /\ mode = "closing"
    /\ solver' = closure.s
    /\ closure' = Idle
    /\ mode' = "sparse"
    /\ steps' = steps - 1
    /\ UNCHANGED <<original, input>>

CongruenceInit == Init /\ closure = Idle

CongruenceNext ==
    \/ Add /\ UNCHANGED closure
    \/ Start /\ UNCHANGED closure
    \/ Pass(Learn) /\ UNCHANGED closure
    \/ Pass(Substitute) /\ UNCHANGED closure
    \/ Extract \/ FindUnits \/ FindEquivalences
    \/ PropagateUnit \/ PropagateEquivalence \/ Subsume \/ Leave

CongruenceSpec == CongruenceInit /\ [][CongruenceNext]_congruenceVars

-----------------------------------------------------------------------------
(***************************************************************************)
(* Properties.                                                             *)
(***************************************************************************)
\* What a gate says of an assignment.
GateHolds(g, A) ==
    LET lhs == g.lhs \in A
        R == ToSet(g.rhs)
    IN CASE g.tag = "AND" -> lhs = (R \subseteq A)
         [] g.tag = "XOR" -> lhs = (Cardinality(R \cap A) % 2 = 1)
         [] g.tag = "ITE" -> lhs = (IF g.rhs[1] \in A THEN g.rhs[2] \in A
                                                      ELSE g.rhs[3] \in A)

InPass == mode = "closing" /\ ~ closure.s.inconsistent

\* Every gate, however often it was shortened, renamed and turned into another
\* kind, follows from the formula, and so does every equivalence.
GatesImplied ==
    InPass => \A A \in Models(closure.s) :
        /\ \A i \in Live(closure) : GateHolds(closure.gates[i], A)
        /\ \A l \in DOMAIN closure.repr : l \in A <=> Find(closure, l) \in A

\* The closure is complete: the right sides of the gates that are left have
\* representatives only, no values, and no two are alike.
Congruent ==
    (InPass /\ Fixpoint(closure)) =>
        \A i \in Live(closure) : LET g == closure.gates[i] IN
            /\ \A l \in ToSet(g.rhs) : Value(closure, l) = 0 /\ closure.repr[l] = l
            /\ Matching(closure, g.tag, g.rhs, i) = {}

=============================================================================
