---------------------------- MODULE Certificate ----------------------------
(***************************************************************************)
(* What the solver promises the outside world: a clausal proof.            *)
(*                                                                         *)
(* The checker (vendor/dsr-trim) holds a multiset of clauses, at first the *)
(* formula.  A proof line adds a clause, which the checker accepts when it *)
(* follows by reverse unit propagation, or deletes one, which must be      *)
(* there: deleting a clause it does not have is a fatal error of the       *)
(* checker, and the deletion of a unit is ignored.  The solver modules     *)
(* implement this specification; that the checker's database stays implied *)
(* by the formula, so that deriving the empty clause refutes it, is proved *)
(* here once for all of them.                                              *)
(***************************************************************************)
EXTENDS Clauses, Bags

CONSTANT Formulas           \* the formulas the solver may be given

ASSUME FormulasAssumption == Formulas \subseteq SUBSET Clause

VARIABLES
    formula,                \* the clauses of the DIMACS file
    db                      \* the checker's clauses, with multiplicity

vars == <<formula, db>>

Clauses == BagToSet(db)

TypeOK ==
    /\ formula \in Formulas
    /\ DOMAIN db \subseteq Clause
    /\ \A C \in DOMAIN db : db[C] \in Nat \ {0}

-----------------------------------------------------------------------------
Init ==
    /\ formula \in Formulas
    /\ db = SetToBag(formula)

\* Mutant: a candidate is added without the check.
AddUnchecked(C) ==
    /\ db' = db (+) SetToBag({C})
    /\ UNCHANGED formula

\* check_dsr_line restricted to lines without a witness: assume the negation
\* of the candidate, propagate, and demand a conflict.
Add(C) ==
    /\ db' = db (+) SetToBag({C})
    /\ HasRup(C, Clauses)
    /\ UNCHANGED formula

\* delete_parsed_clause: only a clause that is there, and never a unit.
Delete(C) ==
    /\ BagIn(C, db)
    /\ \/ ~ \E l \in C : C = {l}
       \/ db[C] > 1
    /\ db' = db (-) SetToBag({C})
    /\ UNCHANGED formula

Next == \E C \in Clause : Add(C) \/ Delete(C)

Spec == Init /\ [][Next]_vars

-----------------------------------------------------------------------------
\* Every clause the checker holds is implied by the formula: what makes each
\* line of the proof the solver writes (proof.c) a sound consequence.
Implied == \A C \in Clauses : Entails(formula, C)

\* A database with the empty clause refutes the formula: the verdict
\* "s VERIFIED UNSAT" and the solver's answer 20 are right.
Refutes == {} \in Clauses => Unsatisfiable(formula)

=============================================================================
