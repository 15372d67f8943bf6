----------------------------- MODULE Subsolver ------------------------------
(***************************************************************************)
(* Kitten under any sequence of calls of its interface (kitten.h): clauses *)
(* and assumptions are added between two solver calls, a core is extracted *)
(* and the formula shrunken to it, literals of a model are flipped.        *)
(***************************************************************************)
EXTENDS Kitten

CONSTANTS
    Formulas,               \* sequences of clauses without repeated variables
    Calls,                  \* bound on the calls of kitten_solve
    Flips                   \* bound on the literals flipped in one model

VARIABLES
    kitten,                 \* struct kitten
    pending,                \* clauses that are not added yet
    calls,                  \* the calls of kitten_solve that are left
    flips                   \* literals flipped since the last model

subVars == <<kitten, pending, calls, flips>>

SubInit ==
    /\ pending \in Formulas
    /\ kitten = NoKitten
    /\ calls = Calls
    /\ flips = 0

KittenClause ==
    /\ pending # <<>>
    /\ kitten' = AddKlause(kitten, Head(pending))
    /\ pending' = Tail(pending)
    /\ flips' = 0
    /\ UNCHANGED calls

Imported == ToSet(kitten.queue)

\* At most two assumptions, on variables of the clauses in their order, which
\* may clash.
KittenAssume ==
    /\ Len(Incremental(kitten).assumptions) < 2
    /\ \E l \in Imported \cup Neg(Imported) :
         /\ \A a \in ToSet(Incremental(kitten).assumptions) : Abs(a) <= Abs(l) /\ a # l
         /\ kitten' = Assume(kitten, l)
    /\ flips' = 0
    /\ UNCHANGED <<pending, calls>>

\* Phases are random: all positive, all negative, or only the first one.
PhaseChoices == {{}, {1}, Imported}

KittenSolve ==
    /\ calls > 0
    /\ Imported # {}
    /\ \E P \in PhaseChoices, limit \in {1, 100} :
         kitten' = Solve(RandomizePhases(kitten, P), limit)
    /\ calls' = calls - 1
    /\ flips' = 0
    /\ UNCHANGED pending

KittenCore ==
    /\ kitten.status = 20
    /\ kitten' = ComputeCore(kitten)
    /\ UNCHANGED <<pending, calls, flips>>

KittenShrink ==
    /\ kitten.status = 21
    /\ kitten.inconsistent # 0
    /\ kitten' \in {Shuffle(ShrinkToCore(kitten), r) : r \in BOOLEAN}
    /\ UNCHANGED <<pending, calls, flips>>

KittenFlip ==
    /\ kitten.status = 10
    /\ flips < Flips
    /\ \E v \in Imported :
         LET r == FlipLiteral(kitten, v) IN
           /\ kitten' = r.k
           /\ flips' = IF r.flipped THEN flips + 1 ELSE flips
    /\ UNCHANGED <<pending, calls>>

SubNext ==
    \/ KittenClause \/ KittenAssume \/ KittenSolve
    \/ KittenCore \/ KittenShrink \/ KittenFlip

SubSpec == SubInit /\ [][SubNext]_subVars

-----------------------------------------------------------------------------
(***************************************************************************)
(* Properties.                                                             *)
(***************************************************************************)
LitsAt(k, ref) == ToSet(Klause(k, ref))

\* The core is a derivation: its learned clauses follow from those before them,
\* and the failed assumptions, which were assumed, falsify the last one.
CoreDerives ==
    kitten.status = 21 =>
        LET core == kitten.core IN
        /\ \A n \in DOMAIN core : kitten.clauses[core[n]].learned =>
             HasRup(LitsAt(kitten, core[n]), {LitsAt(kitten, core[m]) : m \in 1 .. n - 1})
        /\ kitten.failed \subseteq ToSet(kitten.assumptions)
        /\ IF core = <<>> THEN \E l \in kitten.failed : -l \in kitten.failed
           ELSE LitsAt(kitten, Last(core)) \subseteq Neg(kitten.failed)

\* Every clause has a true literal, and so has every assumption.
IsModel == \A ref \in DOMAIN kitten.clauses : LitsAt(kitten, ref) \cap kitten.value # {}

ModelFound ==
    (kitten.status = 10 /\ flips = 0) =>
        IsModel /\ ToSet(kitten.assumptions) \subseteq kitten.value

=============================================================================
