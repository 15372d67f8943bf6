------------------------------ MODULE Clauses ------------------------------
(***************************************************************************)
(* Literals, clauses and formulas as every part of the solver sees them.   *)
(*                                                                         *)
(* The code numbers variables 0 .. VARS-1 and writes the two literals of   *)
(* variable i as 2i and 2i+1 (literal.h).  Here a variable is a positive   *)
(* number, a literal is the variable or its negative, and NOT is unary     *)
(* minus: the same free involution, in DIMACS form.                        *)
(***************************************************************************)
EXTENDS Integers

CONSTANT NVars              \* VARS, the number of active variables

ASSUME NVarsAssumption == NVars \in Nat

Var == 1 .. NVars
Lit == {l \in -NVars .. NVars : l # 0}
Idx(l) == IF l < 0 THEN -l ELSE l
Clause == SUBSET Lit

(***************************************************************************)
(* A total assignment is the set of its true literals: exactly one of each *)
(* pair.  Semantic entailment quantifies over all of them.                 *)
(***************************************************************************)
Assignments == {A \in SUBSET Lit : \A l \in Lit : (l \in A) <=> (-l \notin A)}

Satisfies(A, F) == \A C \in F : C \cap A # {}
Entails(F, C) == \A A \in Assignments : Satisfies(A, F) => C \cap A # {}
Unsatisfiable(F) == \A A \in Assignments : ~ Satisfies(A, F)

(***************************************************************************)
(* Reverse unit propagation, the check a DRAT checker makes of every added *)
(* clause.  A set of literals is closed under unit propagation of F when   *)
(* no clause forces a literal outside the set; C has the RUP property when *)
(* every closed set that contains the negation of C is contradictory.      *)
(* (The least closed set is what a checker computes; a contradiction in it *)
(* is a contradiction in each of them.)                                    *)
(***************************************************************************)
Negation(C) == {-l : l \in C}

ClosedUnderPropagation(S, F) ==
    \A C \in F : \A l \in C : Negation(C \ {l}) \subseteq S => l \in S

Contradictory(S) == \E l \in S : -l \in S

\* No closed consistent superset of the negation exists.  An empty clause in F
\* leaves none that a checker would accept, so it makes everything RUP.
HasRup(C, F) ==
    \/ {} \in F
    \/ ~ \E S \in SUBSET Lit :
           /\ Negation(C) \subseteq S /\ ClosedUnderPropagation(S, F)
           /\ ~ Contradictory(S)

=============================================================================
