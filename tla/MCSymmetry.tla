----------------------------- MODULE MCSymmetry -----------------------------
(***************************************************************************)
(* Small formulas for the symmetry preprocessor.                           *)
(***************************************************************************)
EXTENDS Satsuma

None == [vars |-> 0, clauses |-> <<>>, johnson |-> {}, grids |-> {},
         rows |-> {}, perms |-> {}]

Square == << <<1, 2, 3>>, <<4, 5, 6>>, <<7, 8, 9>> >>

AtMostOne(C) == ListOf(PairsOf(C))

AtMostOneOf(m) ==
    FlattenSeq([k \in Columns(m) |-> AtMostOne({m[j][k] : j \in Rows(m)})])

\* Three in three: one of each row, no two of a column.
Assignment3 ==
    [None EXCEPT !.vars = 9, !.grids = {Square}, !.rows = {Transposed(Square)},
       !.clauses = << {1, 2, 3}, {4, 5, 6}, {7, 8, 9} >> \o AtMostOneOf(Square)]

\* Three in two, as a matrix, and with symmetries to be broken one by one.
Pigeons == << <<1, 2>>, <<3, 4>>, <<5, 6>> >>

PigeonClauses == << {1, 2}, {3, 4}, {5, 6} >> \o AtMostOneOf(Pigeons)

PigeonMatrix ==
    [None EXCEPT !.vars = 6, !.clauses = PigeonClauses,
       !.rows = {Pigeons, Transposed(Pigeons)}]

PigeonGroup ==
    [None EXCEPT !.vars = 6, !.clauses = PigeonClauses,
       !.perms = {Exchange(<<1, 2>>, <<3, 4>>), Exchange(<<3, 4>>, <<5, 6>>),
                  Exchange(<<1, 2>>, <<5, 6>>)}]

\* Clauses of unique literals along the columns only.
Colours ==
    [None EXCEPT !.vars = 6, !.grids = {Transposed(Pigeons)}, !.rows = {Pigeons},
       !.clauses = << {1, 2}, {3, 4}, {5, 6}, {-1, -3, -5}, {-2, -4, -6} >>]

\* Matrices without clauses of unique literals.
Cover == << <<1, 2, 3>>, <<4, 5, 6>> >>

GridCover ==
    [None EXCEPT !.vars = 6, !.grids = {Cover},
       !.clauses = << {1, 2, 3}, {4, 5, 6}, {1, 4}, {2, 5}, {3, 6},
                      -6 .. -1 >>,
       !.perms = {Exchange(<<1, 2, 3>>, <<4, 5, 6>>)}]

RowCover ==
    [None EXCEPT !.vars = 6, !.rows = {Pigeons},
       !.clauses = << {1, 3, 5}, {-1, -3, -5}, {1, 2}, {3, 4}, {5, 6} >>]

\* A literal and its negation can be exchanged.
Parity ==
    [None EXCEPT !.vars = 3,
       !.clauses = << {1, 2}, {-1, -2}, {2, 3}, {-2, -3} >>,
       !.perms = {{<<1, -1>>, <<2, -2>>, <<3, -3>>}, {<<1, 3>>, <<3, 1>>}}]

\* A rotation that is not its own inverse.
Rotation ==
    [None EXCEPT !.vars = 6,
       !.clauses = << {1, 2, 3}, {-1, -2, -3}, {-1, 4}, {-2, 5}, {-3, 6},
                      {-4, -2}, {-5, -3}, {-6, -1} >>,
       !.perms = {{<<1, 2>>, <<2, 3>>, <<3, 1>>, <<4, 5>>, <<5, 6>>, <<6, 4>>}}]

\* Units, pure literals, duplicates before and after false literals are gone.
Untidy ==
    [None EXCEPT !.vars = 6,
       !.clauses = << {1}, {-1, 2, 3}, {2, 3}, {-2, -3}, {-2, -3, -1}, {1, 4},
                      {4, 5}, {2, 6, 5}, {3, 6, 5} >>,
       !.perms = {{<<2, 3>>, <<3, 2>>}}]

\* Four points and their pairs.
Pair(j, k) == CHOOSE l \in 5 .. 10 :
    l = CASE {j, k} = {1, 2} -> 5 [] {j, k} = {1, 3} -> 6 [] {j, k} = {1, 4} -> 7
          [] {j, k} = {2, 3} -> 8 [] {j, k} = {2, 4} -> 9 [] OTHER -> 10

Points == [rows |-> << <<1>>, <<2>>, <<3>>, <<4>> >>,
           subset |-> [p \in {{j, k} : <<j, k>> \in {x \in (1 .. 4) \X (1 .. 4) : x[1] # x[2]}} |->
                         Pair(Min(p), Max(p))]]

PairsOfPoints ==
    [None EXCEPT !.vars = 10, !.johnson = {Points},
       !.clauses = << {1, 2, 3, 4} >> \o
          FlattenSeq([j \in 1 .. 4 |-> MapSeq(LAMBDA k : {-j, Pair(j, k)},
             SetToSortSeq(1 .. 4 \ {j}, <))]) \o
          << {-5, -6, -8}, {-5, -7, -9}, {-6, -7, -10}, {-8, -9, -10} >>]

PairCover ==
    [PairsOfPoints EXCEPT
       !.clauses = << {1, 2, 3, 4}, -4 .. -1, -10 .. -5 >> \o
          FlattenSeq([j \in 1 .. 4 |-> MapSeq(LAMBDA k : {j, Pair(j, k)},
             SetToSortSeq(1 .. 4 \ {j}, <))])]

\* With more variables than SchreierDomainLimit.
Large(x) == [x EXCEPT !.vars = SchreierDomainLimit + 1]

MCInstances ==
    { Assignment3, PigeonMatrix, PigeonGroup, Colours, Parity, Rotation, Untidy,
      GridCover, RowCover, PairsOfPoints, PairCover,
      Large(Parity),
      Large([PigeonGroup EXCEPT !.perms = @ \cup
               {Exchange(<<1, 3, 5>>, <<2, 4, 6>>)}]) }

\* All rows choose the same column: three rows of unique literals.
Agreement ==
    [None EXCEPT !.vars = 9, !.grids = {Square},
       !.clauses = << {1, 2, 3}, {4, 5, 6}, {7, 8, 9} >> \o
          ListOf({{-Square[i][k], -Square[j][l]} :
             <<i, j, k, l>> \in {x \in Rows(Square) \X Rows(Square)
                                       \X Columns(Square) \X Columns(Square) :
                                   x[1] # x[2] /\ x[3] # x[4]}})]

MatrixInstances == {Agreement}

=============================================================================
