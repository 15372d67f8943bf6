-------------------------- MODULE ColorRefinement --------------------------
(***************************************************************************)
(* The graph of a formula and its coarsest equitable coloring, by which    *)
(* satsuma approximates the orbits of the symmetries: hypergraph.h,        *)
(* symmetries::compute_from_hypergraph, dejavu/refinement.h.               *)
(*                                                                         *)
(* A vertex is [kind, lits]: a literal, a clause, a variable, and for      *)
(* pairs of literals that many ternary clauses share the pair and the set  *)
(* of the third literals.  Two vertices are joined by an edge when one     *)
(* contains the other, in the sense of Edge.  A coloring is a partition    *)
(* of the vertices; the code keeps it as a permutation of the vertices     *)
(* with the start of every class.                                          *)
(***************************************************************************)
EXTENDS Symmetries

CONSTANTS
    MinTripleReplace,       \* clauses that share a pair worth a vertex
    TernaryLimit            \* literals with so many ternary clauses needed

ASSUME ReplacementAssumption == {MinTripleReplace, TernaryLimit} \subseteq Nat

Vertex(kind, lits) == [kind |-> kind, lits |-> lits]

-----------------------------------------------------------------------------
(***************************************************************************)
(* Ternary clauses that share a pair of literals with more clauses than    *)
(* with any other pair are replaced by the pair and its third literals.    *)
(***************************************************************************)
Ternary(F) == {C \in F : Cardinality(C) = 3}

Heavy(F) == {l \in Literals : Occurrences(l, Ternary(F)) > MinTripleReplace}

PairUses(P, F) ==
    IF P \subseteq Heavy(F) THEN Cardinality({C \in Ternary(F) : P \subseteq C})
    ELSE 0

\* The pairs that stand for clause C: at most one.
SharedPairs(C, F) ==
    {P \in {C \ {l} : l \in C} :
        /\ PairUses(P, F) > MinTripleReplace
        /\ \A l \in P : PairUses(C \ {l}, F) # PairUses(P, F)}

Replaced(F) ==
    IF Cardinality(Heavy(F)) < TernaryLimit THEN {}
    ELSE {C \in Ternary(F) : SharedPairs(C, F) # {}}

Pairs(F) == UNION {SharedPairs(C, F) : C \in Replaced(F)}

ThirdLiterals(P, F) ==
    UNION {C \ P : C \in {D \in Replaced(F) : P \in SharedPairs(D, F)}}

-----------------------------------------------------------------------------
(***************************************************************************)
(* The graph.  With more binary clauses than variables, a binary clause is *)
(* an edge between its literals and the variable a vertex between them.    *)
(* A variable in no clause has colors of its own and is left out.          *)
(***************************************************************************)
Variables(F) == {Abs(l) : l \in UNION F}

BinaryGraph(F, n) == Cardinality({C \in F : Cardinality(C) = 2}) > n

LiteralVertices(F) ==
    {Vertex("literal", {l}) : l \in {k \in Literals : Abs(k) \in Variables(F)}}

ClauseVertices(F, binary) ==
    {Vertex("clause", C) : C \in
        {D \in F \ Replaced(F) : ~ (binary /\ Cardinality(D) = 2)}}

VariableVertices(F, binary) ==
    IF binary THEN {Vertex("variable", {v, -v}) : v \in Variables(F)}
    ELSE {}

PairVertices(F) ==
    {Vertex("pair", P) : P \in Pairs(F)}
      \cup {Vertex("third", P) : P \in Pairs(F)}

Vertices(F, binary) ==
    LiteralVertices(F) \cup ClauseVertices(F, binary) \cup VariableVertices(F, binary)
      \cup PairVertices(F)

LiteralEdge(l, k, F, binary) ==
    IF binary THEN {l, k} \in F /\ l # k ELSE l = -k

\* From the literal vertex l to w.
EdgeFrom(l, w, F, binary) ==
    CASE w.kind = "literal" -> \E k \in w.lits : LiteralEdge(l, k, F, binary)
      [] w.kind = "third" -> l \in ThirdLiterals(w.lits, F)
      [] OTHER -> l \in w.lits

Edge(v, w, F, binary) ==
    CASE v.kind = "literal" -> \E l \in v.lits : EdgeFrom(l, w, F, binary)
      [] w.kind = "literal" -> \E l \in w.lits : EdgeFrom(l, v, F, binary)
      [] OTHER -> {v.kind, w.kind} = {"pair", "third"} /\ v.lits = w.lits

Graph(F, binary) ==
    [v \in Vertices(F, binary) |-> {w \in Vertices(F, binary) : Edge(v, w, F, binary)}]

\* Before refinement only kinds and degrees are told apart.
InitialCells(g) ==
    {{w \in DOMAIN g : w.kind = v.kind /\ Cardinality(g[w]) = Cardinality(g[v])} :
       v \in DOMAIN g}

-----------------------------------------------------------------------------
(***************************************************************************)
(* Refinement by a cell: every other cell, and the cell itself, is split   *)
(* by the number of neighbours in it.  A new cell is put on the worklist,  *)
(* unless the cell it comes from is neither there nor needed again: then   *)
(* the largest part is left out.                                           *)
(***************************************************************************)
Degree(g, v, X) == Cardinality(g[v] \cap X)

Parts(g, Y, X) ==
    {{w \in Y : Degree(g, w, X) = Degree(g, v, X)} : v \in Y}

\* Vertices next to a singleton leave their cell, all others stay.
SingletonParts(g, Y, X) ==
    {Y \cap UNION {g[v] : v \in X}, Y \ UNION {g[v] : v \in X}} \ {{}}

SplitBy(g, Y, X) ==
    IF Cardinality(X) = 1 THEN SingletonParts(g, Y, X) ELSE Parts(g, Y, X)

Largest(parts) ==
    CHOOSE p \in parts : \A q \in parts : Cardinality(q) <= Cardinality(p)

\* Mutant: the largest part is left out even when its cell was waiting.
ReportSplitSkips(todo, Y, parts) ==
    IF Cardinality(parts) = 1 THEN todo
    ELSE (todo \ {Y}) \cup (parts \ {Largest(parts)})

ReportSplit(todo, Y, parts) ==
    IF Cardinality(parts) = 1 THEN todo
    ELSE IF Y \in todo THEN (todo \ {Y}) \cup parts
    ELSE todo \cup (parts \ {Largest(parts)})

\* A small cell is taken first.
NextCell(todo) ==
    CHOOSE X \in todo : \A Y \in todo : Cardinality(X) <= Cardinality(Y)

RefineBy(g, s, X) ==
    [cells |-> UNION {SplitBy(g, Y, X) : Y \in s.cells},
     todo |-> FoldSet(LAMBDA Y, t : ReportSplit(t, Y, SplitBy(g, Y, X)),
                      s.todo \ {X}, s.cells)]

RECURSIVE Refine(_, _)
Refine(g, s) ==
    IF s.todo = {} \/ Cardinality(s.cells) = Cardinality(DOMAIN g) THEN s.cells
    ELSE Refine(g, RefineBy(g, s, NextCell(s.todo)))

RefineColoring(g) ==
    Refine(g, [cells |-> InitialCells(g), todo |-> InitialCells(g)])

CellsOf(F, binary) ==
    CHOOSE c \in {RefineColoring(g) : g \in {Graph(F, binary)}} : TRUE

SameCell(l, k, cells) ==
    \E Y \in cells : {Vertex("literal", {l}), Vertex("literal", {k})} \subseteq Y

=============================================================================
