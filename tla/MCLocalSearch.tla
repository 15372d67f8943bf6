---------------------------- MODULE MCLocalSearch ---------------------------
(***************************************************************************)
(* Small formulas for lucky assignments and for walking: ones on which the *)
(* passes find a model, learn units, refute the formula or all give up;    *)
(* ones without a clause of one sign; and, for the walk, ones whose        *)
(* decision phases falsify several clauses.                                *)
(***************************************************************************)
EXTENDS LocalSearch

MCFormulas ==
  { << {1,2}, {-1,-2}, {-3,4}, {1,-2,3}, {-1,2,-4}, {2,3,-4} >>,
    << {1,-2}, {-1,2}, {1,2,3}, {-1,-2,-3}, {3,4,-1}, {-3,-4,1} >>,
    << {1,2}, {1,-2}, {-1,3}, {-1,-3} >>,
    << {-1,2}, {-1,-2}, {1,3,4}, {-3,-4,1}, {1,-3,4}, {2,3,-4} >>,
    << {-1,-2}, {-2,3}, {1,2,-3} >>,
    << {1,2}, {2,-3}, {1,2,-3} >>,
    << {1,2,3}, {1,2,-3}, {1,-2,3}, {1,-2,-3}, {-1,2,3}, {-1,2,-3}, {-1,-2,3}, {-1,-2,-3} >> }

=============================================================================
