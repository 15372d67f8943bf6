---------------------------- MODULE Symmetries ----------------------------
(***************************************************************************)
(* Symmetries of a formula in satsuma: permutations of the literals that   *)
(* commute with negation (automorphism_workspace in dejavu/groups.h, the   *)
(* completion and the test of cnf.h), orbits, clauses of unique literals,  *)
(* matrices of literals whose rows or columns can be exchanged.            *)
(*                                                                         *)
(* Literals are in DIMACS form.  A formula is a set of clauses, clauses    *)
(* are sets of literals.  The code keeps the support of a permutation and  *)
(* its images; a permutation here is a function on all literals.           *)
(***************************************************************************)
EXTENDS UnitPropagation

CONSTANT NLits              \* number of variables of the largest formula

ASSUME NLitsAssumption == NLits \in Nat

Literals == (-NLits .. NLits) \ {0}

-----------------------------------------------------------------------------
(***************************************************************************)
(* Permutations.                                                           *)
(***************************************************************************)
Identity == [l \in Literals |-> l]

\* First p, then q: applying q to the permutation p in the workspace.
Apply(p, q) == [l \in Literals |-> q[p[l]]]

InverseOf(p) == [l \in Literals |-> CHOOSE k \in Literals : p[k] = l]

RECURSIVE ApplyPower(_, _, _)
ApplyPower(p, q, n) == IF n = 0 THEN p ELSE ApplyPower(Apply(p, q), q, n - 1)

Support(p) == {l \in Literals : p[l] # l}

Image(p, C) == {p[l] : l \in C}

\* Pairs <<literal, image>> completed on the negations; FALSE for the map
\* when the two disagree.
Completable(pairs) ==
    LET from == {m[1] : m \in pairs}
        full == pairs \cup {<<-m[1], -m[2]>> : m \in pairs}
    IN /\ \A m, k \in full : (m[1] = k[1]) <=> (m[2] = k[2])
       /\ {m[2] : m \in full} = {m[1] : m \in full}

Completed(pairs) ==
    LET full == pairs \cup {<<-m[1], -m[2]>> : m \in pairs}
    IN [l \in Literals |-> IF \E m \in full : m[1] = l
                           THEN (CHOOSE m \in full : m[1] = l)[2] ELSE l]

\* Only clauses with a moved literal need the test.
Automorphism(p, F) == \A C \in F : Image(p, C) \in F

\* The pairs that exchange two rows (or columns) of a matrix.
Exchange(r, s) ==
    {<<r[k], s[k]>> : k \in DOMAIN r} \cup {<<s[k], r[k]>> : k \in DOMAIN r}

-----------------------------------------------------------------------------
(***************************************************************************)
(* Orbits of the group generated by a set of permutations.                 *)
(***************************************************************************)
RECURSIVE Closure(_, _)
Closure(O, G) ==
    LET next == O \cup {g[l] : g \in G, l \in O}
    IN IF next = O THEN O ELSE Closure(next, G)

Orbit(l, G) == Closure({l}, G)

-----------------------------------------------------------------------------
(***************************************************************************)
(* Clauses of unique literals and at-most-one constraints.                 *)
(***************************************************************************)
Occurrences(l, F) == Cardinality({C \in F : l \in C})

UniqueLiterals(C, F) == \A l \in C : Occurrences(l, F) = 1

IsUlc(C, F) == UniqueLiterals(C, F) /\ C \in F

PairsOf(C) == {{-l, -k} : <<l, k>> \in {m \in C \X C : m[1] # m[2]}}

IsAmo(C, F) == PairsOf(C) \subseteq F

-----------------------------------------------------------------------------
(***************************************************************************)
(* Matrices: sequences of rows of the same length.                         *)
(***************************************************************************)
Rows(m) == 1 .. Len(m)
Columns(m) == 1 .. Len(m[1])
Transposed(m) == [k \in Columns(m) |-> [j \in Rows(m) |-> m[j][k]]]
Negated(m) == [j \in Rows(m) |-> [k \in Columns(m) |-> -m[j][k]]]
Entries(m) == UNION {ToSet(m[j]) : j \in Rows(m)}

\* Every entry occurs once, so that an exchange of rows is a permutation.
Distinct(m) == Cardinality(Entries(m)) = Len(m) * Len(m[1])

\* The first row can be exchanged with every other one.
RowsExchange(m, F) ==
    \A j \in Rows(m) \ {1} :
        /\ Completable(Exchange(m[1], m[j]))
        /\ Automorphism(Completed(Exchange(m[1], m[j])), F)

RowMatrix(m, F) == Distinct(m) /\ RowsExchange(m, F)

RowColumnMatrix(m, F) == RowMatrix(m, F) /\ RowsExchange(Transposed(m), F)

=============================================================================
