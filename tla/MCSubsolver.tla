---------------------------- MODULE MCSubsolver -----------------------------
(***************************************************************************)
(* Small formulas for kitten: with models, without one, without one under  *)
(* assumptions, with units.                                                *)
(***************************************************************************)
EXTENDS Subsolver

Several ==
  { << <<1, 2, 3>>, <<-1, 2>>, <<-2, 3, -1>> >>,
    << <<1>>, <<-1>> >>,
    << <<3, -1, -2, -4>>, <<-1, -2, -4, -3>> >>,
    << <<3>>, <<-3, 1, 2>>, <<-1, 2>>, <<-2, 1>>, <<-2, -1, -3>> >>,
    << <<1, 2, 3>>, <<1, 2, -3>>, <<1, -2, 3>>, <<1, -2, -3>>, <<-1, 2>>, <<-2, -1>> >> }

=============================================================================
