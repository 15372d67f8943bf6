-------------------------- MODULE UnitPropagation --------------------------
(***************************************************************************)
(* Literals, written in DIMACS form, and unit propagation over clauses as  *)
(* sets of literals: the solver's at the root and that of its checker.     *)
(***************************************************************************)
EXTENDS Integers, Sequences, FiniteSets, SequencesExt, FiniteSetsExt

Abs(l) == IF l < 0 THEN -l ELSE l
Sign(l) == IF l < 0 THEN -1 ELSE 1
Neg(C) == {-l : l \in C}

\* Op applied to every entry of a sequence.
MapSeq(Op(_), s) == FoldLeft(LAMBDA t, x : Append(t, Op(x)), <<>>, s)

\* The members of a set in some order.
ListOf(S) == FoldSet(LAMBDA x, t : Append(t, x), <<>>, S)

\* The literals that some clause forces.
UnitLiterals(S, F) ==
    LET false == Neg(S)
    IN UNION {open \in {C \ false : C \in F} : \E l \in open : open = {l}}

\* Unit propagation to a fixed point, and reverse unit propagation.
UnitClosure(S, F) ==
    LET closed[T \in SUBSET (S \cup UNION F)] ==
            LET units == UnitLiterals(T, F)
            IN IF units \subseteq T THEN T ELSE closed[T \cup units]
    IN closed[S]

Conflicting(S, F) == \E C \in F : C \subseteq Neg(S)

HasRup(C, F) ==
    \/ \E l \in C : -l \in C
    \/ Conflicting(UnitClosure(Neg(C), F), F)

=============================================================================
