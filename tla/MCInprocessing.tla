--------------------------- MODULE MCInprocessing ---------------------------
(***************************************************************************)
(* Small formulas for the passes over the formula.                         *)
(***************************************************************************)
EXTENDS Inprocessing

\* A gate and its use; a definition that is no gate; repeated, true, false and
\* opposite literals; variables that occur in one phase only.
Gates ==
  { <<<<3,-1,-2>>, <<-3,1>>, <<-3,2>>, <<3,4>>, <<-3,-4,1>>, <<-4,2,-1>>>>,
    <<<<1,2>>, <<-1,-2>>, <<1,3,4>>, <<2,-3,4>>, <<-1,-3,-4>>>>,
    <<<<1,2,3>>, <<1,-2,4>>, <<-1,2,-3>>, <<-1,-2,-4>>, <<1,2,3>>, <<2,-3,4>>>>,
    <<<<4>>, <<3,2,3>>, <<4,1>>, <<-4,1,2>>, <<2,-2,3>>, <<-1,2,-3>>, <<1>>>>,
    <<<<1,2,4>>, <<1,2,-4>>, <<1,-2,4>>, <<1,-2,-4>>, <<-1,2,3>>, <<-1,-3,4>>>> }

\* Equivalent literals, failed ones, a clash, repeated and implied binary
\* clauses, products of literals.
Binary ==
  { <<<<1,-2>>, <<-1,2>>, <<2,-3>>, <<3,-1>>, <<1,3,4>>, <<-1,-2,4>>, <<2,-4,-3>>>>,
    <<<<1,2>>, <<2,1>>, <<1,-2,3>>, <<-1,4>>, <<-4,3>>, <<-3,4>>, <<-1,3>>, <<-2,-3,-4>>>>,
    <<<<1,2>>, <<-1,2>>, <<1,-2>>, <<-1,-2>>>>,
    <<<<-1,2>>, <<-2,3>>, <<-1,-3>>, <<1,4>>, <<2,-4,3>>>>,
    <<<<-1,2>>, <<-2,3>>, <<-3,1>>, <<1,2,3>>, <<-1,-4>>, <<-1,4,5>>>>,
    <<<<1,3>>, <<1,4>>, <<5,1>>, <<2,3>>, <<2,4>>, <<2,5>>, <<1,3>>, <<-1,-3,-4>>>> }

MCFormulas == Gates \cup Binary

=============================================================================
