------------------------------ MODULE MCProbing ------------------------------
(***************************************************************************)
(* Small formulas for congruence closure and for sweeping.                 *)
(***************************************************************************)
EXTENDS Probing

And(x, a, b) == << <<-x, a>>, <<-x, b>>, <<x, -a, -b>> >>
Xor(x, a, b) == << <<-x, a, b>>, <<-x, -a, -b>>, <<x, -a, b>>, <<x, a, -b>> >>
Xor3(x, a, b, c) ==
    << <<-x, a, b, c>>, <<-x, a, -b, -c>>, <<-x, -a, b, -c>>, <<-x, -a, -b, c>>,
       <<x, -a, b, c>>, <<x, a, -b, c>>, <<x, a, b, -c>>, <<x, -a, -b, -c>> >>
Ite(x, c, t, e) == << <<-c, -x, t>>, <<-c, x, -t>>, <<c, -x, e>>, <<c, x, -e>> >>
Equal(x, y) == << <<-x, y>>, <<x, -y>> >>

\* A unit that only the pass finds.
Unit(l, o) == << <<l, o>>, <<l, -o>> >>

\* Equal gates below equal gates; inputs that become equal, opposite, true.
Ands == { And(3, 1, 2) \o And(4, 1, 2) \o And(5, 3, 6) \o And(7, 4, 6) \o << <<5, 7, 1>> >>,
          And(4, 1, 2) \o And(5, 1, 3) \o Equal(2, 3) \o << <<4, 6>>, <<-5, 6, 1>>, <<4, 5, 6>> >>,
          And(4, 1, 2) \o And(5, 1, 3) \o Equal(2, -1) \o Unit(3, 6) \o << <<4, 5, 6>> >>,
          And(4, 1, 2) \o And(5, -1, 2) \o And(6, 4, 3) \o And(7, 5, 3) \o Equal(1, 2),
          And(4, 1, 2) \o And(5, 1, 3) \o Equal(2, 3) \o Unit(-4, 6),
          And(4, 3, 5) \o And(1, 5, 6) \o And(2, 5, 7) \o Equal(2, 3) \o Equal(6, 7),
          And(4, 1, 2) \o And(-4, 1, 2) }

Xors == { Xor(3, 1, 2) \o Xor(4, 1, 2) \o << <<3, 4, 5>>, <<3, 5, -1>> >>,
          Xor(4, 1, 2) \o Xor(5, 1, 3) \o Equal(2, -3) \o << <<4, 5, 1>> >>,
          Xor(4, 1, 2) \o Xor(5, 3, 4) \o Equal(2, 1) \o << <<3, 5, 1>> >>,
          Xor(4, 1, 2) \o Unit(1, 3),
          And(4, 1, 2) \o And(5, 1, 2) \o Xor(6, 3, 4) \o Xor(7, -3, 5),
          Xor(4, 1, 2) \o Xor(5, 1, 3) \o Equal(2, 3) \o Unit(4, 6),
          Xor(4, 1, 2) \o Xor(5, 1, 3) \o Equal(2, 3) \o Unit(4, 6) \o Unit(-5, 6),
          Xor3(5, 1, 2, 3) \o Equal(1, 2) \o Unit(5, 4),
          Xor3(5, 1, 2, 3) \o Xor3(6, 1, 4, 3) \o Equal(2, -4) }

\* Branches and condition that become equal, opposite or true.
Ites == { Ite(4, 1, 2, 3) \o Ite(5, 1, 2, 3) \o << <<4, 5, 6>>, <<4, -6, 5>> >>,
          Ite(4, 1, 2, 3) \o Ite(5, 6, 2, 3) \o Equal(1, -6),
          Ite(4, 1, 2, 3) \o Ite(5, 6, 2, 3) \o Equal(1, 6) \o Unit(4, 7) \o Unit(-5, 7) }
    \cup { Ite(4, 1, 2, 3) \o Equal(e[1], e[2]) \o g :
             e \in {<<1, 2>>, <<1, -2>>, <<1, 3>>, <<1, -3>>, <<2, 3>>, <<2, -3>>},
             g \in {And(5, -1, -3), Xor(5, 1, 2)} }
    \cup { Ite(4, 1, 2, 3) \o Unit(u, 5) \o Unit(w, 6) :
             u \in {1, -1, 2, -2}, w \in {3, -3} }
    \cup { Ite(4, 1, 2, 3) \o Unit(u, 5) : u \in {2, -2} }

\* 1 and 2 are equal, which two clauses with each value of 3 say.
Hidden == << <<1, -2, 3>>, <<1, -2, -3>>, <<-1, 2, 3>>, <<-1, 2, -3>> >>

\* A backbone literal, equal literals with occurrences of the one that goes,
\* and a formula that is not satisfiable.
Sweeps == { << <<1, 2>>, <<1, -2, 3>>, <<1, -3, 2>>, <<1, -2, -3>> >>,
            << <<1, 2, 3>>, <<1, 2, -3>>, <<1, -2, 3>>, <<1, -2, -3>>,
               <<-1, 2, 3>>, <<-1, 2, -3>>, <<-1, -2, 3>>, <<-1, -2, -3>> >> }
    \cup { Hidden \o c : c \in { << <<2, 3>> >>, << <<2, 1>>, <<-2, 3>> >>,
                                << <<2, 3, 4>>, <<-2, 4>> >>,
                                << <<2, 1, 4>>, <<-2, 1, 4>> >>,
                                << <<2, 1, 4>>, <<-4, 3>>, <<-4, -3>> >> } }

MCFormulas == Ands \cup Xors \cup Ites \cup Sweeps

=============================================================================
