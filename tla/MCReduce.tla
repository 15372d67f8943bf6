------------------------------ MODULE MCReduce ------------------------------
(***************************************************************************)
(* Small formulas for the search with its reductions: a satisfiable one,   *)
(* on which every action happens; an unsatisfiable one, on which units     *)
(* learned between two reductions end in a conflict; and one whose clauses *)
(* of four literals are strengthened to three, reasons of three to binary  *)
(* clauses, a conflict being subsumed by what replaces its reason.         *)
(***************************************************************************)
EXTENDS Reduce

MCFormulas ==
  { {{1,2,4},{2,3,-4},{-3,4},{-3,-4}},
    {{-4,-2},{-4,2},{-3,-2,4},{-2,-1,3},{-2,1,3},{-1,2,4},{1,2,4}},
    {{1,2},{-1,3,4},{-2,-3,4},{-2,3,-4,1},{-1,-4,2},{-3,-4,-1,-2},{1,-2,4}} }

=============================================================================
