------------------------------ MODULE MCSearch ------------------------------
(***************************************************************************)
(* Small formulas for chronological backtracking.                          *)
(***************************************************************************)
EXTENDS Search

\* A decision on 4 or -4 and two more levels conflict, so that a unit is
\* learned two levels up: it is assigned out of order when ChronoLevels is
\* small.  The second formula also strengthens and subsumes clauses.
ChronoFormulas ==
  { {{-4,3},{-4,-3},{4,2,1},{4,2,-1},{4,-2,1},{4,-2,-1}},
    {{-4,3},{-4,-3},{4,2,1,3},{-3,-2,1},{3,2,-1},{-2,-1,-3}} }

=============================================================================
