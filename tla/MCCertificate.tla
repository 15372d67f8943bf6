--------------------------- MODULE MCCertificate ---------------------------
(***************************************************************************)
(* The external and the internal checker, fed the same proof: formulas of  *)
(* three variables, with a unit that satisfies and falsifies other clauses *)
(* at the root, with one of three literals, and an unsatisfiable one.      *)
(***************************************************************************)
EXTENDS Checker

MCFormulas ==
  { {{1,2},{-1,2},{1,-2},{-1,-2}},
    {{-1},{1,2},{-2,3},{-1,2,3}},
    {{1,2,-3},{-1,3},{-2,3}} }

MCOffered ==
  { {}, {1}, {2}, {-2}, {1,2}, {1,3}, {1,-1}, {1,2,-3}, {-1,2,3} }

=============================================================================
