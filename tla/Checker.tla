------------------------------ MODULE Checker ------------------------------
(***************************************************************************)
(* The proof checker inside kissat (check.c), which runs beside the solver *)
(* in debug builds and aborts it at the first line it cannot justify.      *)
(*                                                                         *)
(* It is handed the same lines as the external checker of Certificate, but *)
(* keeps less of them: root units live in its assignment only, and a line  *)
(* that is satisfied when it arrives is thrown away.  So it must recognise *)
(* the removal of a line it never kept, and it must not abort on a proof   *)
(* the external checker accepts.  It also accepts more: a line with a pure *)
(* literal or with one blocked through binary lines, which is how the      *)
(* solver introduces fresh variables (factor.c).                           *)
(*                                                                         *)
(* Lines are kept with multiplicity: the hash table, its collisions and    *)
(* its growth, and the marks used for matching, only find the line asked   *)
(* for.  Lines of two literals watch both of them; what watching the       *)
(* others finds is unit propagation to completion.                         *)
(***************************************************************************)
EXTENDS Certificate, FiniteSets

UP == INSTANCE UnitPropagation

CONSTANTS
    Offered,                \* the lines the solver may write
    MaxClauses              \* bound: clauses of the proof, with copies

ASSUME OfferedAssumption == Offered \subseteq Clause
ASSUME MaxClausesAssumption == MaxClauses \in Nat

VARIABLES
    unread,                 \* clauses of the formula not yet handed over
    checker,                \* struct checker
    aborted                 \* kissat_abort was called

checkerVars == <<formula, db, unread, checker, aborted>>

Lines(c) == BagToSet(c.lines)
Trivial(C) == \E l \in C : -l \in C

NoLines == [inconsistent |-> FALSE,     \* the empty clause is derived
            values |-> {},              \* the literals true at the root
            lines |-> EmptyBag,
            used |-> {},                \* literals of some line, ever
            large |-> {}]               \* of some line of three or more

-----------------------------------------------------------------------------
\* checker_propagate at the root; a conflict is not forgotten.
Propagated(c) ==
    LET values == UP!UnitClosure(c.values, Lines(c))
    IN IF c.inconsistent
       THEN c
       ELSE [c EXCEPT !.values = values,
                      !.inconsistent = UP!Conflicting(values, Lines(c))]

\* simplify_imported, satisfied_or_trivial_imported: nothing to keep.
Redundant(c, C) == c.inconsistent \/ Trivial(C) \/ C \cap c.values # {}

\* Mutant: only long lines count as uses of their literals.
UseLineLarge(c, C) ==
    [c EXCEPT !.used = IF Cardinality(C) > 2 THEN @ \cup C ELSE @,
              !.large = IF Cardinality(C) > 2 THEN @ \cup C ELSE @]

UseLine(c, C) ==
    [c EXCEPT !.used = @ \cup C,
              !.large = IF Cardinality(C) > 2 THEN @ \cup C ELSE @]

\* insert_imported_if_not_simplified.  A line with one literal that is not
\* false assigns it, to be propagated when the checker is called next.
Insert(c, C) ==
    LET open == C \ Negation(c.values)
    IN CASE Redundant(c, C) -> c
         [] ~ Redundant(c, C) /\ open = {} -> [c EXCEPT !.inconsistent = TRUE]
         [] ~ Redundant(c, C) /\ Cardinality(open) = 1 ->
              [c EXCEPT !.values = @ \cup open]
         [] OTHER -> UseLine([c EXCEPT !.lines = @ (+) SetToBag({C})], C)

-----------------------------------------------------------------------------
\* checker_watches: all lines with the literal, when none of them is large.
Watched(c, l) == {D \in Lines(c) : Cardinality(D) = 2 /\ l \in D}

\* checker_blocked_literal, under the assignment that falsifies the line:
\* every line with the negation has another literal that is true.
Blocked(c, l, values) ==
    /\ -l \notin c.large
    /\ \A D \in Watched(c, -l) : (D \ {-l}) \cap values # {}

\* check_line: satisfied, pure, implied by unit propagation, or blocked.
\* The checker has propagated its root units before.
Accepts(c, C) ==
    LET decided == UP!UnitClosure(c.values \cup Negation(C), Lines(c))
    IN \/ Redundant(c, C)
       \/ \E l \in C : /\ l \notin Negation(c.values)
                       /\ -l \notin c.used
       \/ UP!Conflicting(decided, Lines(c))
       \/ \E l \in C : Blocked(c, l, decided)

\* Mutant: only lines the checker would have to look for are redundant.
RemovableStored(c, C) == c.inconsistent \/ BagIn(C, c.lines)

\* bucket_redundant and find_line: the removed line is redundant or kept.  A
\* unit is never kept, so it must be true; the empty line never is.
Removable(c, C) == Redundant(c, C) \/ BagIn(C, c.lines)

\* remove_line_if_not_redundant
Remove(c, C) ==
    IF Redundant(c, C) THEN c ELSE [c EXCEPT !.lines = @ (-) SetToBag({C})]

-----------------------------------------------------------------------------
CheckerInit ==
    /\ Init
    /\ unread = formula
    /\ checker = NoLines
    /\ aborted = FALSE

\* kissat_add_unchecked_external, as the clauses of the input are read.
AddUncheckedExternal(C) ==
    /\ C \in unread
    /\ unread' = unread \ {C}
    /\ checker' = Insert(checker, C)
    /\ UNCHANGED <<formula, db, aborted>>

\* kissat_check_and_add_clause, _binary, _unit, _empty and _internal.
CheckAndAdd(C) ==
    LET c == Propagated(checker) IN
    /\ BagCardinality(db) < MaxClauses
    /\ Add(C)
    /\ aborted' = ~ Accepts(c, C)
    /\ checker' = Insert(c, C)

\* kissat_remove_checker_clause, _binary and _internal.
RemoveChecker(C) ==
    LET c == Propagated(checker) IN
    /\ Delete(C)
    /\ aborted' = ~ Removable(c, C)
    /\ checker' = Remove(c, C)

\* kissat_check_shrink_clause: C without the literal to remove and without
\* the root-falsified ones is added, then C is removed.
CheckShrinkClause(C, D) ==
    LET c == Propagated(checker)
        shrunken == Propagated(Insert(c, D))
    IN /\ D # C /\ D # {}
       /\ HasRup(D, Clauses)
       /\ db' = (db (+) SetToBag({D})) (-) SetToBag({C})
       /\ aborted' = ~ (Accepts(c, D) /\ Removable(shrunken, C))
       /\ checker' = Remove(shrunken, C)
       /\ UNCHANGED formula

CheckerNext ==
    \/ \E C \in unread : AddUncheckedExternal(C)
    \/ /\ unread = {} /\ ~ aborted
       /\ UNCHANGED unread
       /\ \/ \E C \in Offered : CheckAndAdd(C)
          \/ \E C \in Clauses : RemoveChecker(C)
          \/ \E C \in Clauses : \E D \in SUBSET C : CheckShrinkClause(C, D)

CheckerSpec == CheckerInit /\ [][CheckerNext]_checkerVars

-----------------------------------------------------------------------------
\* The internal checker justifies every line, and finds or recognises every
\* removed one, of a proof that the external checker accepts, although it
\* keeps no units and no satisfied lines and learns of a root conflict only
\* when it is called next (check.c:check_line, remove_line_if_not_redundant).
NeverAborts == ~ aborted

\* A line it accepts keeps its lines satisfiable, by whichever of its four
\* arguments, when no literal of the line is false at the root.  Without this
\* condition it fails: a root-falsified literal has no line with its negation
\* left, because units and satisfied lines are not kept, and passes for
\* blocked (check.c:checker_blocked_literal).
AcceptsSoundly ==
    LET c == Propagated(checker)
        held == Lines(c) \cup {{l} : l \in c.values}
    IN \A C \in Clause :
         (/\ ~ c.inconsistent
          /\ C \cap Negation(c.values) = {}
          /\ Accepts(c, C)
          /\ ~ Unsatisfiable(held)) => ~ Unsatisfiable(held \cup {C})

=============================================================================
