--------------------------- MODULE Inprocessing ---------------------------
(***************************************************************************)
(* The passes over the formula that run at the root between two stretches  *)
(* of search, in any order and any number: probe.c, preprocess.c, and the  *)
(* search loop call them as their limits are hit.                          *)
(***************************************************************************)
EXTENDS Preprocessing

(***************************************************************************)
(* The passes of probe.c that do not eliminate by resolution: equivalent   *)
(* literals (substitute.c), transitive reduction (transitive.c), failed    *)
(* literals on the binary clauses (backbone.c), vivification (vivify.c),   *)
(* bounded variable addition (factor.c), and forward subsumption, which    *)
(* runs in dense mode (forward.c).                                         *)
(*                                                                         *)
(* Schedules and effort limits are left to chance: a pass takes any of the *)
(* candidates it has, one at a time where they do not depend on another.   *)
(***************************************************************************)
Lits(s) == Active(s) \cup Neg(Active(s))

\* The order of internal literals: LIT (idx) before NOT (LIT (idx)).
Code(l) == 2 * Abs(l) + (IF l < 0 THEN 1 ELSE 0)
MinCode(S) == CHOOSE l \in S : \A k \in S : Code(l) <= Code(k)

Units(s) == {{l} : l \in s.value}

\* Reachability in the implication graph of binary clauses.
RECURSIVE Reach(_, _)
Reach(S, F) ==
    LET next == {k \in UNION F : \E l \in S : {-l, k} \in F}
    IN IF next \subseteq S THEN S ELSE Reach(S \cup next, F)

Implied(s, l) == Reach({l}, Binaries(s))

LearnUnits(s, U) == FoldSet(LAMBDA l, t : Derive(t, {l}, FALSE), s, U)

\* c becomes the clause C: a unit, a binary clause, or the same one in place.
Replace(s, c, C) ==
    LET t == Derive(s, C, c.redundant)
    IN IF t.inconsistent THEN t ELSE DropClause(t, c)

RECURSIVE ReplaceCopies(_, _, _)
ReplaceCopies(s, c, C) ==
    IF s.inconsistent \/ ~ BagIn(c, s.clauses) THEN s
    ELSE ReplaceCopies(Replace(s, c, C), c, C)

-----------------------------------------------------------------------------
(***************************************************************************)
(* substitute_round: every literal is replaced by the smallest one of its  *)
(* strongly connected component.                                           *)
(***************************************************************************)
Component(s, l) == {k \in Lits(s) : k \in Implied(s, l) /\ l \in Implied(s, k)}
Representative(s, l) == IF Abs(l) \in Active(s) THEN MinCode(Component(s, l)) ELSE l

FailedLiterals(s) == {l \in Lits(s) : \E k \in Implied(s, l) : -k \in Implied(s, l)}

\* assign_and_propagate_units, with the clauses F that are watched.
LearnAndPropagate(s, units, F) ==
    FoldSet(LAMBDA l, t : IF t.inconsistent THEN t
                          ELSE PropagateOver(Derive(t, {l}, FALSE), F), s, units)

\* determine_representatives: the clashing component, or the failed literals
\* that the depth first search happens to see.
ClashingUnits(s) == {MinCode(Component(s, l)) : l \in {k \in Lits(s) : -k \in Component(s, k)}}

\* The lines about the equivalences of the variables I.
AddEquivalences(s, repr, I) ==
    FoldSet(LAMBDA i, t : AddLine(AddLine(t, {-i, repr[i]}), {i, -repr[i]}), s, I)

DeleteEquivalences(s, repr, I) ==
    FoldSet(LAMBDA i, t : DeleteLine(DeleteLine(t, {-i, repr[i]}), {i, -repr[i]}), s, I)

\* substitute_binaries: new lines first, then units, then deletions.
SubstituteBinaries(s, repr) ==
    LET binaries == {c \in Present(s) : Cardinality(c.lits) = 2}
        image(c) == {repr[l] : l \in c.lits}
        changed == {c \in binaries : image(c) # c.lits}
        units == UNION {C \in {image(c) : c \in changed} : Cardinality(C) = 1}
        renamed == {c \in changed : Cardinality(image(c)) = 2
                                    /\ \A l \in image(c) : -l \notin image(c)}
        copies(t, c) == FoldLeft(LAMBDA u, n : NewClause(u, image(c), FALSE), t,
                                 [n \in 1 .. s.clauses[c] |-> n])
        t == LearnAndPropagate(FoldSet(LAMBDA c, u : copies(u, c), s, renamed), units,
                               {image(c) : c \in renamed \cup (binaries \ changed)})
    IN IF s.inconsistent THEN s ELSE DropAll(t, changed)

\* substitute_clauses: one large clause; r also has the units to come and the
\* clauses they stand for, which are deleted after them.
SubstituteClause(r, c, repr) ==
    LET C == {repr[l] : l \in c.lits}
        D == NonFalse(r.s, C)
    IN IF r.s.inconsistent THEN r
       ELSE IF IsTrue(r.s, C \cup c.lits) \/ \E l \in D : -l \in D
         THEN [r EXCEPT !.s = DropCopies(@, c)]
       ELSE IF D = {} THEN [r EXCEPT !.s = Inconsistent(@)]
       ELSE IF D = c.lits THEN r
       ELSE IF Cardinality(D) = 1
         THEN [s |-> r.s, units |-> r.units \cup D, later |-> r.later \cup {c}]
       ELSE [r EXCEPT !.s = ReplaceCopies(@, c, D)]

SubstituteClauses(s, repr) ==
    LET r == FoldSet(LAMBDA c, q : SubstituteClause(q, c, repr),
                     [s |-> s, units |-> {}, later |-> {}],
                     {c \in Present(s) : Cardinality(c.lits) > 2})
        t == LearnAndPropagate(r.s, r.units, Binaries(r.s))
    IN IF t.inconsistent THEN t ELSE DropAll(t, r.later)

\* remove_representative_equivalences: the extension of a substituted variable.
RemoveEquivalence(s, i, other) ==
    LET t == MarkEliminated(s, i)
    IN IF {other, -other} \cap s.value = {}
         THEN Weaken(Weaken(t, -i, {-i, other}), i, {i})
       ELSE IF other \in s.value THEN Weaken(t, i, {i, -other})
       ELSE Weaken(t, -i, {-i, other})

\* Mutant: the equivalences leave the proof before the large clauses need them.
SubstituteRoundEarly(s, repr) ==
    LET eliminate == {i \in Active(s) : repr[i] # i}
        t == AddEquivalences(s, repr, eliminate)
        u == DeleteEquivalences(SubstituteBinaries(t, repr), repr, eliminate)
        v == SubstituteClauses(u, repr)
    IN IF v.inconsistent THEN v
       ELSE Propagate(FoldSet(LAMBDA i, w : RemoveEquivalence(w, i, repr[i]), v, eliminate))

\* substitute_round, then the large clauses are watched and propagated.
SubstituteRound(s, repr) ==
    LET eliminate == {i \in Active(s) : repr[i] # i}
        t == AddEquivalences(s, repr, eliminate)
        u == SubstituteClauses(SubstituteBinaries(t, repr), repr)
        v == DeleteEquivalences(u, repr, eliminate)
    IN IF u.inconsistent THEN u
       ELSE Propagate(FoldSet(LAMBDA i, w : RemoveEquivalence(w, i, repr[i]), v, eliminate))

\* Large clauses are watched in the first round only.
Substitute ==
    /\ mode = "sparse"
    /\ LET all == DOMAIN solver.flags
           repr == [l \in all \cup Neg(all) |-> Representative(solver, l)]
       IN \E F \in {LitsOf(solver), Binaries(solver)} :
            IF ClashingUnits(solver) # {}
              THEN \E l \in ClashingUnits(solver) :
                     solver' = LearnAndPropagate(solver, {l}, F)
              ELSE \E L \in SUBSET FailedLiterals(solver) :
                     LET s == LearnAndPropagate(solver, Neg(L), F)
                     IN solver' = IF s.inconsistent THEN s ELSE SubstituteRound(s, repr)
    /\ UNCHANGED mode

-----------------------------------------------------------------------------
\* transitive_reduce, for a binary clause of src with a larger literal: the
\* others imply it, or the negation of src fails.
TransitiveReduced(s, src, c) ==
    LET dst == CHOOSE k \in c.lits : k # src
        others == LitsOf([s EXCEPT !.clauses = @ (-) SetToBag({c})])
        reached == Reach({-src}, {C \in others : Cardinality(C) = 2})
    IN {t \in {DropClause(s, c)} : dst \in reached}
       \cup {t \in {Propagate(Derive(s, {src}, FALSE))} : \E k \in reached : -k \in reached}

\* kissat_transitive_reduction
Transitive ==
    /\ mode = "sparse"
    /\ \E c \in {d \in Present(solver) :
                   Cardinality(d.lits) = 2 /\ d.lits \subseteq Lits(solver)} :
         solver' \in TransitiveReduced(solver, MinCode(c.lits), c)
    /\ UNCHANGED mode

-----------------------------------------------------------------------------
(***************************************************************************)
(* compute_backbone: probes are decided on top of each other; a failed one *)
(* gives a unit that does not depend on the decisions before.              *)
(***************************************************************************)
Uips(s, A, p) == {u \in Implied(s, p) \ A : \E k \in Implied(s, u) : -k \in Implied(s, u)}

\* b: the true literals, the units found, and the unit that failed as well.
Probe(s, b, p, uip) ==
    LET A == UnitClosure(b.value \cup {p}, Binaries(s))
        B == UnitClosure(b.value \cup {-uip}, Binaries(s))
    IN IF b.inconsistent # {} \/ {p, -p} \cap b.value # {} THEN b
       ELSE IF ~ Conflicting(A, Binaries(s)) THEN [b EXCEPT !.value = A]
       ELSE IF Conflicting(B, Binaries(s))
         THEN [b EXCEPT !.units = @ \cup {-uip}, !.inconsistent = {-uip}]
       ELSE [b EXCEPT !.value = B, !.units = @ \cup {-uip}]

\* schedule_backbone_candidates, keep_backbone_candidates: which literals keep
\* their flag, and so are tried first in the next call, is left open.
BackboneCandidates(s) == Lits(s)

\* The end of a round: units are learned at the root, and when they clash the
\* last one, which failed as well, closes the formula.
LearnBackbone(s, b) ==
    Propagate(LearnUnits(s, IF b.inconsistent # {} THEN b.inconsistent ELSE b.units))

Backbone ==
    /\ mode = "sparse"
    /\ \E p, q \in BackboneCandidates(solver) :
         LET none == [value |-> solver.value, units |-> {}, inconsistent |-> {}]
         IN \E u \in Uips(solver, none.value, p) \cup {p} :
              LET b == Probe(solver, none, p, u)
              IN \E v \in Uips(solver, b.value, q) \cup {q} :
                   LET r == Probe(solver, b, q, v)
                   IN /\ r.units # {}
                      /\ solver' = LearnBackbone(solver, r)
    /\ UNCHANGED mode

-----------------------------------------------------------------------------
(***************************************************************************)
(* vivify_clause: the negated literals of the candidate are assumed and    *)
(* propagated without it.                                                  *)
(***************************************************************************)
Without(s, c) == [s EXCEPT !.clauses = @ (-) SetToBag({c})]

\* Mutant: the subsuming clause stays redundant.
VivifySubsumedStays(s, c, d) == DropClause(s, c)

\* Another clause subsumes it.  If only the candidate is irredundant the other
\* one becomes so.
VivifySubsumed(s, c, d) ==
    IF c.redundant \/ ~ d.redundant THEN DropClause(s, c)
    ELSE [DropClause(s, c) EXCEPT
            !.clauses = (@ (-) SetToBag({d})) (+) SetToBag({[d EXCEPT !.redundant = FALSE]})]

\* The candidate is implied; an irredundant one only by irredundant clauses.
VivifyImplied(s, c) ==
    LET t == Without(s, c)
    IN IF c.redundant
         THEN \E l \in c.lits :
                l \in UnitClosure(s.value \cup Neg(c.lits \ {l}), LitsOf(t))
         ELSE HasRup(c.lits, {d.lits : d \in Irredundant(t)} \cup Units(s))

VivifySubsuming(s, c) ==
    {d \in Present(Without(s, c)) : NonFalse(s, d.lits) \subseteq c.lits}

\* What propagation derives, with the candidate as the last clause or not.
Shorter(s, c) ==
    {D \in (SUBSET c.lits) \ {{}, c.lits} : HasRup(D, LitsOf(s) \cup Units(s))}

Vivified(s, c) ==
    LET shrunken(C) == IF Cardinality(C) = 1 THEN Propagate(Replace(s, c, C))
                       ELSE Replace(s, c, C)
    IN {VivifySubsumed(s, c, d) : d \in VivifySubsuming(s, c)}
       \cup {shrunken(C) : C \in Shorter(s, c)}
       \cup {t \in {DropClause(s, c)} : VivifyImplied(s, c)}

\* schedule_vivification_candidates: the large clauses, those of one tier of
\* glue after the other and then the irredundant ones.
VivifyCandidates(s) == {d \in Present(s) : Cardinality(d.lits) > 2}

\* simplify_vivification_candidate removes what is false at the root, then the
\* clause is vivified.
VivifyResults(s, c) ==
    LET C == NonFalse(s, c.lits)
    IN IF IsTrue(s, c.lits) THEN {DropClause(s, c)}
       ELSE IF C # c.lits THEN {Replace(s, c, C)} ELSE Vivified(s, c)

\* vivify_round, one candidate after the other until it is interrupted.
VivifyRound(s) == UNION {VivifyResults(s, c) : c \in VivifyCandidates(s)}

\* kissat_vivify: rounds of the tiers and of the irredundant clauses.
Vivify ==
    /\ mode = "sparse"
    /\ solver' \in VivifyRound(solver)
    /\ UNCHANGED mode

-----------------------------------------------------------------------------
(***************************************************************************)
(* apply_factoring: the products of the factors F and the quotients Q are  *)
(* replaced by their definition with a fresh variable.                     *)
(***************************************************************************)
Fresh(s) ==
    LET t == ImportUpTo(s, Len(s.import) + 1, TRUE)
    IN Activate(t, {Len(t.export)})

\* A line that defines a fresh variable: the checker resolves it on its first
\* literal with every clause that has the negated literal.
AddDefinition(s, pivot, C) ==
    LET e == ExportLit(s, pivot)
        E == ExportSet(s, C)
        db == BagToSet(s.db)
        rat == \A D \in {X \in db : -e \in X} : HasRup(E \cup (D \ {-e}), db)
    IN [s EXCEPT !.accepted = @ /\ (HasRup(E, db) \/ rat),
                 !.db = @ (+) SetToBag({E}),
                 !.clauses = @ (+) SetToBag({Entry(C, FALSE)})]

\* The number of clauses f or q for a quotient q, which every factor matches.
Matches(s, F, q) ==
    Min({CopiesIn(Entry({f} \cup q, FALSE), s.clauses) : f \in F})

DeleteUnfactored(s, F, q) ==
    FoldSet(LAMBDA f, t : FoldLeft(LAMBDA u, n : DropClause(u, Entry({f} \cup q, FALSE)),
                                   t, [n \in 1 .. Matches(s, F, q) |-> n]), s, F)

ApplyFactoring(s, F, Q) ==
    LET t == Fresh(s)
        x == Len(t.export)
        divided == FoldSet(LAMBDA f, u : AddDefinition(u, x, {x, f}), t, F)
        quotients == FoldSet(LAMBDA q, u :
            FoldLeft(LAMBDA v, n : AddDefinition(v, -x, {-x} \cup q),
                     u, [n \in 1 .. Matches(s, F, q) |-> n]), divided, Q)
    IN FoldSet(LAMBDA q, u : DeleteUnfactored(u, F, q), quotients, Q)

\* connect_clauses_to_factor: a large clause takes part when each of its
\* literals occurs twice.
ConnectedToFactor(s) ==
    {c \in Irredundant(s) : Cardinality(c.lits) > 2 =>
        \A l \in c.lits : 1 < SumFunction([d \in Occurrences(s, l) |-> s.clauses[d]])}

\* first_factor
Quotients(s, f) == {c.lits \ {f} : c \in Occurrences(s, f) \cap ConnectedToFactor(s)}

\* next_factor: any literals in turn; counts and scores only choose the best.
FactorSets(s) == {F \in SUBSET Lits(s) : Cardinality(F) > 1}

\* factorize_next: the quotients that every factor has.
CommonQuotients(s, F) ==
    {q \in Quotients(s, CHOOSE f \in F : TRUE) : q \cap F = {} /\ Matches(s, F, q) > 0}

\* best_quotient
Reduces(s, F, Q) ==
    LET quotients == FoldSet(LAMBDA q, n : n + Matches(s, F, q), 0, Q)
    IN quotients * Cardinality(F) > quotients + Cardinality(F)

\* run_factorization, with one set of factors.
Factored(s) ==
    LET common(F) == CommonQuotients(s, F)
    IN {ApplyFactoring(s, F, common(F)) :
          F \in {G \in FactorSets(s) : Reduces(s, G, common(G))}}

\* kissat_factor: dense mode, the factorization, sparse mode.
Factor ==
    /\ mode = "sparse"
    /\ \E t \in Factored(DropRepeatedBinaries(solver)) : solver' = Propagate(t)
    /\ UNCHANGED mode

-----------------------------------------------------------------------------
(***************************************************************************)
(* Forward subsumption in dense mode.                                      *)
(***************************************************************************)
\* Two binary clauses with a literal in common and opposite other literals.
HyperUnits(s) ==
    {l \in Lits(s) : \E k \in Lits(s) : {{l, k}, {l, -k}} \subseteq Binaries(s)}

RemoveDuplicatedBinaries ==
    /\ mode = "dense"
    /\ LET s == DropRepeatedBinaries(solver)
           units == HyperUnits(s)
       IN solver' = IF units = {} THEN s ELSE FlushUnits(LearnUnits(s, units))
    /\ UNCHANGED mode

\* The literals that a clause removes from c by resolution.
Removable(s, c) ==
    {l \in c.lits : \E d \in Irredundant(s) \ {c} :
        -l \in NonFalse(s, d.lits) /\ NonFalse(s, d.lits) \ {-l} \subseteq c.lits}

\* forward_subsumed_clause
Forwarded(s, c) ==
    LET C == NonFalse(s, c.lits)
        flush(t) == IF Cardinality(C) <= 2 THEN FlushUnits(t) ELSE t
    IN IF IsTrue(s, c.lits) THEN {DropClause(s, c)}
       ELSE IF C = {} THEN {Inconsistent(s)}
       ELSE IF Cardinality(C) = 1 THEN {FlushUnits(Replace(s, c, C))}
       ELSE {t \in {DropClause(s, c)} : FastSubsumed(s, c)}
            \cup {flush(Replace(s, c, C \ {l})) : l \in Removable(s, c) \cap C}

\* find_forward_subsumption_candidates
ForwardCandidates(s) == {d \in Irredundant(s) : Cardinality(d.lits) > 2}

\* forward_subsume_all_clauses
Forward ==
    /\ mode = "dense"
    /\ \E c \in ForwardCandidates(solver) : solver' \in Forwarded(solver, c)
    /\ UNCHANGED mode

-----------------------------------------------------------------------------
Init ==
    /\ input \in Formulas
    /\ original = {ToSet(C) : C \in ToSet(input)}
    /\ solver = [import |-> <<>>, export |-> <<>>, flags |-> <<>>,
                 value |-> {}, units |-> {}, clauses |-> EmptyBag,
                 extend |-> <<>>, eliminated |-> 0, inconsistent |-> FALSE,
                 accepted |-> TRUE,
                 db |-> FoldLeft(LAMBDA b, C : b (+) SetToBag({ToSet(C)}),
                                 EmptyBag, input)]
    /\ mode = "adding"
    /\ steps = Steps

Add ==
    /\ mode = "adding"
    /\ input # <<>>
    /\ solver' = AddOriginal(solver, Head(input))
    /\ input' = Tail(input)
    /\ UNCHANGED <<original, mode, steps>>

\* kissat_solve: the first propagation.
Start ==
    /\ mode = "adding"
    /\ input = <<>>
    /\ solver' = Propagate(solver)
    /\ mode' = "sparse"
    /\ UNCHANGED <<original, input, steps>>

Pass(A) ==
    /\ steps > 0
    /\ ~ solver.inconsistent
    /\ A
    /\ steps' = steps - 1
    /\ UNCHANGED <<original, input>>

Variables == DOMAIN solver.flags

\* The search learns a clause that reverse unit propagation gives.  Those that
\* minimization leaves, so that there are few, and of three literals.
Learn ==
    /\ mode = "sparse"
    /\ \E C \in kSubset(3, Lits(solver)) :
         LET F == LitsOf(solver) \cup Units(solver) IN
         /\ \A l \in C : -l \notin C
         /\ HasRup(C, F)
         /\ \A l \in C : ~ HasRup(C \ {l}, F)
         /\ C \notin F
         /\ solver' = NewClause(solver, C, TRUE)
    /\ UNCHANGED mode

CollectGarbage ==
    /\ mode = "sparse"
    /\ LET s == Collect(solver) IN solver' \in {s, Compact(s)}
    /\ UNCHANGED mode

Next ==
    \/ Add
    \/ Start
    \/ Pass(Learn)
    \/ Pass(CollectGarbage)
    \/ Pass(Substitute) \/ Pass(Transitive) \/ Pass(Backbone)
    \/ Pass(Vivify) \/ Pass(Factor)
    \/ Pass(RemoveDuplicatedBinaries) \/ Pass(Forward)
    \/ Pass(EnterDense("dense")) \/ Pass(EnterDense("fast"))
    \/ \E i \in Variables : Pass(Eliminate(i)) \/ Pass(FastEliminate(i))
    \/ ResumeSparse /\ UNCHANGED <<original, input, steps>>

Spec == Init /\ [][Next]_preVars

-----------------------------------------------------------------------------
(***************************************************************************)
(* Properties.                                                             *)
(***************************************************************************)
Ready == mode # "adding" /\ ~ solver.inconsistent

Models(s) ==
    LET total(P) == s.value \cup P \cup Neg(Active(s) \ P)
    IN {A \in {total(P) : P \in SUBSET Active(s)} :
          \A c \in Irredundant(s) : c.lits \cap A # {}}

\* Every model of the simplified formula, extended, is a model of the input.
Reconstructs ==
    Ready => \A A \in Models(solver) :
        LET W == Witness(solver, A, {Abs(e) : e \in UNION original})
        IN \A C \in original : C \cap W # {}

\* What is kept as redundant follows from what is not: it may be deleted at
\* any time, and be used at any time.
RedundantFollows ==
    Ready => \A c \in Present(solver) :
        (\E l \in c.lits : solver.flags[Abs(l)] = "eliminated")
          \/ \A A \in Models(solver) : c.lits \cap A # {}

\* The checker holds the clauses of the solver and no others, but for units.
DatabaseMatches ==
    Ready => \A E \in {F \in BagToSet(solver.db) : Cardinality(F) > 1}
                        \cup {ExportSet(solver, C) : C \in LitsOf(solver)} :
        CopiesIn(E, solver.db) =
            LET same == {c \in Present(solver) : ExportSet(solver, c.lits) = E}
            IN FoldSet(LAMBDA c, n : n + solver.clauses[c], 0, same)

\* The proof is accepted line by line, whatever the passes derive, replace and
\* delete, in whichever order they run, and neither leaves a clause behind that
\* the solver has dropped nor drops one that it still uses.
ProofFollows == solver.accepted /\ DatabaseMatches

\* Names outside and inside are inverse, also after variables are renumbered:
\* active variables go both ways, units keep their value.
NamesInverse ==
    /\ \A i \in Active(solver) :
         LET r == solver.import[solver.export[i]]
         IN r.imported /\ ~ r.eliminated /\ r.lit = i
    /\ \A e \in solver.units :
         LET r == solver.import[Abs(e)]
         IN r.imported /\ ~ r.eliminated /\ ImportLit(solver, e) \in solver.value

=============================================================================
