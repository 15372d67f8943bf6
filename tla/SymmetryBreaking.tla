------------------------- MODULE SymmetryBreaking -------------------------
(***************************************************************************)
(* What satsuma adds to a formula to break its symmetries, and the proof   *)
(* line it writes for each addition (symmetries.h, predicate.h, proof.h).  *)
(* With the options of the solver these are units and binary clauses only. *)
(*                                                                         *)
(* An addition is [line, kept]: its proof line, and whether the clause is  *)
(* part of the predicate or serves the proof only.                         *)
(***************************************************************************)
EXTENDS Symmetries, Bags

(***************************************************************************)
(* The Schreier structure of dejavu/groups.h: a chain of pointwise         *)
(* stabilizers of a permutation group, level k fixing the first k points   *)
(* of a base.  A level keeps the orbit of its base point as a Schreier     *)
(* vector: for every other point of the orbit a stored generator and the   *)
(* power of it that leads to a point entered before.                       *)
(*                                                                         *)
(* The structure is one record:                                            *)
(*   base   the points fixed, in order                                     *)
(*   levels per base point the function from its orbit to the entries      *)
(*   gens   the generators stored so far                                   *)
(*   kept   the numbers of those that fix the whole base                   *)
(* An entry is [gen, power]; the base point itself has generator 0.        *)
(***************************************************************************)
EmptyStructure == [base |-> <<>>, levels |-> <<>>, gens |-> <<>>, kept |-> {}]

\* shared_transversal::initialize
NewLevel(b) == [l \in {b} |-> [gen |-> 0, power |-> 0]]

Store(s, p) == [s EXCEPT !.gens = Append(@, p)]

-----------------------------------------------------------------------------
(***************************************************************************)
(* A level gains the points on the cycles of a permutation that meet its   *)
(* orbit; the power leads forward to the next point it had.                *)
(***************************************************************************)
RECURSIVE Distance(_, _, _)
Distance(l, p, O) == IF p[l] \in O THEN 1 ELSE 1 + Distance(p[l], p, O)

Reached(level, p) ==
    UNION {Orbit(l, {p}) : l \in DOMAIN level} \ DOMAIN level

Extended(level, p, g) ==
    level @@ [l \in Reached(level, p) |->
                [gen |-> g, power |-> Distance(l, p, DOMAIN level)]]

\* Following the entries until the base point is reached, starting from the
\* image of a point l under a permutation p.
RECURSIVE Traced(_, _, _, _)
Traced(s, k, p, l) ==
    IF p[l] = s.base[k] THEN p
    ELSE LET e == s.levels[k][p[l]]
         IN Traced(s, k, ApplyPower(p, s.gens[e.gen], e.power), l)

\* Mutant: one entry is followed.
FixedAtOnce(s, k, p) ==
    IF p[s.base[k]] = s.base[k] THEN p
    ELSE LET e == s.levels[k][p[s.base[k]]]
         IN ApplyPower(p, s.gens[e.gen], e.power)

\* shared_transversal::fix_automorphism and fixing_automorphism
FixedAt(s, k, p) == Traced(s, k, p, s.base[k])
TransversalElement(s, k, l) == Traced(s, k, Identity, l)

InFixedOrbit(s, k, l) == l \in DOMAIN s.levels[k]

-----------------------------------------------------------------------------
(***************************************************************************)
(* Sifting goes through the levels: each is extended, then the permutation *)
(* is changed to fix its base point.  What is left at the end fixes the    *)
(* base and is kept.  A permutation is stored once, when it first extends  *)
(* a level, in the form it has there.                                      *)
(***************************************************************************)
ExtendLevel(s, k, p) ==
    IF Reached(s.levels[k], p) = {} THEN s
    ELSE [Store(s, p) EXCEPT
            !.levels = ReplaceAt(@, k, Extended(@[k], p, Len(s.gens) + 1))]

Keep(s, p) ==
    IF p = Identity THEN s
    ELSE [Store(s, p) EXCEPT !.kept = @ \cup {Len(s.gens) + 1}]

RECURSIVE SiftFrom(_, _, _)
SiftFrom(s, k, p) ==
    IF k > Len(s.base) THEN Keep(s, p)
    ELSE LET t == ExtendLevel(s, k, p)
         IN SiftFrom(t, k + 1, FixedAt(t, k, p))

Sift(s, p) == SiftFrom(s, 1, p)

SiftAll(s, perms) == FoldLeft(Sift, s, perms)

-----------------------------------------------------------------------------
(***************************************************************************)
(* Extending by what is stored already: every generator extends every      *)
(* level whose earlier base points it fixes, until nothing changes.        *)
(***************************************************************************)
ValidAt(s, g, k) == \A j \in 1 .. k - 1 : s.gens[g][s.base[j]] = s.base[j]

Extensible(s) ==
    {<<k, g>> \in (DOMAIN s.base) \X (DOMAIN s.gens) :
        ValidAt(s, g, k) /\ Reached(s.levels[k], s.gens[g]) # {}}

RECURSIVE ExtendFully(_)
ExtendFully(s) ==
    IF Extensible(s) = {} THEN s
    ELSE LET kg == CHOOSE x \in Extensible(s) : TRUE
         IN ExtendFully([s EXCEPT
              !.levels = ReplaceAt(@, kg[1],
                           Extended(@[kg[1]], s.gens[kg[2]], kg[2]))])

-----------------------------------------------------------------------------
(***************************************************************************)
(* A new base keeps the levels of the common prefix and loses the kept     *)
(* generators; on request they are sifted again.                           *)
(***************************************************************************)
CommonPrefix(b, c) ==
    LET same == {k \in DOMAIN b \cap DOMAIN c : SubSeq(b, 1, k) = SubSeq(c, 1, k)}
    IN IF same = {} THEN 0 ELSE Max(same)

SetBase(s, b, resift) ==
    LET n == CommonPrefix(s.base, b)
        t == [s EXCEPT !.base = b,
                       !.levels = SubSeq(@, 1, n) \o
                                  MapSeq(NewLevel, SubSeq(b, n + 1, Len(b))),
                       !.kept = {}]
    IN IF n = Len(b) THEN s
       ELSE IF ~ resift THEN t
       ELSE SiftAll(t, MapSeq(LAMBDA g : s.gens[g], SetToSortSeq(s.kept, <)))

\* Products of up to n stored generators, the random elements that are sifted.
RECURSIVE Words(_, _)
Words(s, n) ==
    IF n = 0 THEN {Identity}
    ELSE {Apply(w, p) : w \in Words(s, n - 1), p \in {Identity} \cup ToSet(s.gens)}

-----------------------------------------------------------------------------
(***************************************************************************)
(* The stabilizer of the first k base points: the generators in use from   *)
(* that level on, and the kept ones.                                       *)
(***************************************************************************)
StabilizerGenerators(s, k) ==
    {s.gens[g] : g \in s.kept \cup
        UNION {{s.levels[j][l].gen : l \in DOMAIN s.levels[j]} \ {0} :
                 j \in k + 1 .. Len(s.base)}}

StabilizerOrbit(s, k, l) == Orbit(l, StabilizerGenerators(s, k))

-----------------------------------------------------------------------------
(***************************************************************************)
(* The checker of satsuma's proofs, dsr-trim, as the evaluation runs it:   *)
(* every line is checked when it is read.  Modelled from the lines proof.h *)
(* writes and the command line of sat_eval.                                *)
(*                                                                         *)
(* An added clause has reverse unit propagation, or its witness shows that *)
(* it can be satisfied as well: under the negation of the clause, every    *)
(* clause of the database and the new one hold after the substitution.     *)
(* Without a witness the first literal of the line is made true.  Clauses  *)
(* are counted, since a duplicate can be deleted; the deletion of a unit   *)
(* is ignored.                                                             *)
(***************************************************************************)
\* A substitution: some literals become true, the others are mapped.
Witness(forced, p) == [forced |-> forced, map |-> p]
Pivot(l) == Witness({l}, Identity)

Line(C, w) == [lits |-> C, witness |-> w]

Substituted(C, w) ==
    {w.map[l] : l \in C \ Neg(w.forced)}

HoldsAfter(C, w, N, F) ==
    \/ C \cap w.forced # {}
    \/ \E D \in {Substituted(C, w)} :
         D \in F \/ \E l \in D : -l \in D \/ -l \in N
    \/ HasRup(Substituted(C, w) \cup N, F)

Redundant(line, F) ==
    \/ HasRup(line.lits, F)
    \/ \A C \in F \cup {line.lits} :
         HoldsAfter(C, line.witness, line.lits, F)

Add(checker, line) ==
    [db |-> checker.db (+) SetToBag({line.lits}),
     ok |-> checker.ok /\ Redundant(line, BagToSet(checker.db))]

AddAll(checker, lines) == FoldLeft(Add, checker, lines)

Delete(checker, C) ==
    IF Cardinality(C) = 1 THEN checker
    ELSE [db |-> checker.db (-) SetToBag({C}),
          ok |-> checker.ok /\ BagIn(C, checker.db)]

DeleteAll(checker, clauses) == FoldLeft(Delete, checker, clauses)

-----------------------------------------------------------------------------
Addition(C, w, kept) == [line |-> Line(C, w), kept |-> kept]

\* A literal l is fixed, since p exchanges it with a literal that may then
\* be blocked.
Propagation(l, blocked, p) == Addition({l}, Witness({l, blocked}, p), TRUE)
PurePropagation(l) == Addition({l}, Pivot(l), TRUE)
BinaryClause(r, k, p) == Addition({-r, k}, Witness({-r}, p), TRUE)
LoggedBinary(r, k, p) == Addition({r, -k}, Witness({r}, p), FALSE)

LinesOf(additions) == MapSeq(LAMBDA a : a.line, additions)

ClausesOf(additions) ==
    MapSeq(LAMBDA a : a.line.lits, SelectSeq(additions, LAMBDA a : a.kept))

-----------------------------------------------------------------------------
(***************************************************************************)
(* Orbitopal fixing.  In the i-th column of unique literals all but the    *)
(* last i rows are false: otherwise the row and the next one can be        *)
(* exchanged, which moves nothing that was fixed before.                   *)
(***************************************************************************)
Column(m, k) == {m[j][k] : j \in Rows(m)}

\* Columns of unique literals, without those that negate an earlier one.
UlcColumns(m, F) ==
    FoldLeft(LAMBDA columns, k :
               IF /\ IsUlc(Column(m, k), F)
                  /\ \A i \in ToSet(columns) : -m[1][k] \notin Column(m, i)
               THEN Append(columns, k) ELSE columns,
             <<>>, [k \in Columns(m) |-> k])

\* The rows of a matrix but the last i.
AllBut(m, i) == IF i < Len(m) THEN [j \in 1 .. Len(m) - i |-> j] ELSE <<>>

RowSwap(m, j) == Completed(Exchange(m[j], m[j + 1]))

FixedColumn(m, k, i) ==
    MapSeq(LAMBDA j : Propagation(-m[j][k], m[j + 1][k], RowSwap(m, j)),
           AllBut(m, i))

\* Mutant: every column keeps the last row only.
RowFixingLastRow(m, columns) ==
    FlattenSeq([i \in DOMAIN columns |-> FixedColumn(m, columns[i], 1)])

RowFixing(m, columns) ==
    FlattenSeq([i \in DOMAIN columns |-> FixedColumn(m, columns[i], i)])

\* With all columns of unique literals the last cell of the first is true.
ColumnsFixing(m) ==
    FlattenSeq([k \in Columns(m) |->
        FixedColumn(m, k, k) \o
          (IF k = 1 THEN <<PurePropagation(m[Len(m)][k])>> ELSE <<>>)])

\* With all rows of unique literals the matrix is transposed, except that
\* the last cell is that of the last row fixed.
RowsFixing(t) ==
    FlattenSeq([k \in Columns(t) |->
        FixedColumn(t, k, k) \o
          (IF k = Len(t) THEN <<PurePropagation(t[1][k])>> ELSE <<>>)])

AllUlc(m, F) == \A k \in Columns(m) : IsUlc(Column(m, k), F)

RowColumnFixing(m, F) ==
    LET rows == AllUlc(Transposed(m), F)
        negatedRows == ~ rows /\ AllUlc(Transposed(Negated(m)), F)
        columns == ~ rows /\ ~ negatedRows /\ AllUlc(m, F)
    IN CASE rows -> RowsFixing(Transposed(m))
         [] negatedRows -> RowsFixing(Transposed(Negated(m)))
         [] columns -> ColumnsFixing(m)
         [] ~ (rows \/ negatedRows \/ columns) /\ AllUlc(Negated(m), F) ->
              ColumnsFixing(Negated(m))
         [] OTHER -> <<>>

-----------------------------------------------------------------------------
(***************************************************************************)
(* The action of a symmetric group on pairs: a matrix of blocks, one row   *)
(* per point, and for every pair of points a literal.                      *)
(***************************************************************************)
PointSwap(x, i, j) ==
    Exchange(x.rows[i], x.rows[j]) \cup
      UNION {Exchange(<<x.subset[{k, i}]>>, <<x.subset[{k, j}]>>) :
               k \in Rows(x.rows) \ {i, j}}

JohnsonAction(x, F) ==
    /\ Distinct(x.rows)
    /\ \A j \in Rows(x.rows) \ {1} :
         /\ Completable(PointSwap(x, j - 1, j))
         /\ Automorphism(Completed(PointSwap(x, j - 1, j)), F)

JohnsonSwaps(x) ==
    {Completed(PointSwap(x, j - 1, j)) : j \in Rows(x.rows) \ {1}}

JohnsonColumns(x, F) ==
    SelectSeq([k \in Columns(x.rows) |-> k],
              LAMBDA k : IsUlc(Column(x.rows, k), F))

JohnsonFixing(x, columns) ==
    FlattenSeq([i \in DOMAIN columns |->
        MapSeq(LAMBDA j : Propagation(-x.rows[j][columns[i]],
                                      x.rows[j + 1][columns[i]],
                                      Completed(PointSwap(x, j, j + 1))),
               AllBut(x.rows, i)) \o
          (IF i = 1 THEN <<PurePropagation(x.rows[Len(x.rows)][columns[i]])>>
           ELSE <<>>)])

-----------------------------------------------------------------------------
(***************************************************************************)
(* The operations on the levels of a Schreier structure, written when the  *)
(* whole base is known.                                                    *)
(*                                                                         *)
(* A clause whose literals, but for false ones, are in the orbit of the    *)
(* base point r makes r true: any true literal of it can be moved to r.    *)
(***************************************************************************)
Scheduled(op, clause, amo) == [op |-> op, clause |-> clause, amo |-> amo]

\* Literals of a clause in one orbit, apart from false ones; v itself, the
\* first of the clause, is not asked.
OverlapsOrbit(C, v, orbit, propagated) ==
    /\ C \cap propagated = {}
    /\ v \in C
    /\ C \ Neg(propagated) \subseteq orbit
    /\ Cardinality({v} \cup (C \ Neg(propagated))) > 1

ClauseFixCheck(s, C, propagated) ==
    \E k \in {Len(s.base)} :
        C \ (Neg(propagated) \cup {s.base[k]}) \subseteq DOMAIN s.levels[k]

ClauseFixPropagate(r, C, amo) == {r} \cup (IF amo THEN Neg(C \ {r}) ELSE {})

\* Mutant: the element is not inverted.
ToOtherForward(s, k, l) ==
    IF InFixedOrbit(s, k, l) THEN TransversalElement(s, k, l) ELSE Identity

\* From the base point to l.
ToOther(s, k, l) ==
    IF InFixedOrbit(s, k, l) THEN InverseOf(TransversalElement(s, k, l))
    ELSE Identity

ClauseFix(s, k, C, amo) ==
    LET r == s.base[k]
        others == ListOf(C \ {r})
    IN MapSeq(LAMBDA l : LoggedBinary(r, l, ToOther(s, k, l)), others)
       \o <<PurePropagation(r)>>
       \o (IF amo THEN MapSeq(LAMBDA l : PurePropagation(-l), others) ELSE <<>>)

SchreierCut(s, k) ==
    LET r == s.base[k]
    IN IF InFixedOrbit(s, k, -r)
       THEN <<Propagation(r, r, TransversalElement(s, k, -r))>>
       ELSE MapSeq(LAMBDA l : BinaryClause(r, l, ToOther(s, k, l)),
                   ListOf(DOMAIN s.levels[k] \ {r}))

Performed(s, k, o) ==
    CASE o.op = "fix" -> ClauseFix(s, k, o.clause, o.amo)
      [] o.op = "cut" -> SchreierCut(s, k)
      [] OTHER -> <<>>

PerformAll(s, ops) == FlattenSeq([k \in DOMAIN ops |-> Performed(s, k, ops[k])])

Cuts(ops) == {k \in DOMAIN ops : ops[k].op = "cut"}

CutVariables(s, ops) == {Abs(s.base[k]) : k \in Cuts(ops)}

CutUnits(s, ops) ==
    {s.base[k] : k \in {j \in Cuts(ops) : InFixedOrbit(s, j, -s.base[j])}}

=============================================================================
