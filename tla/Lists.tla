------------------------------- MODULE Lists -------------------------------
(***************************************************************************)
(* What the users of watch lists see: every literal has a list of its own, *)
(* and an operation on one list leaves the others alone.                   *)
(***************************************************************************)
EXTENDS Naturals, Sequences

CONSTANTS
    Vector,                 \* the lists: the literals
    Datum                 \* the words of watches

VARIABLE contents

Without(s, k, w) ==
    [i \in 1 .. Len(s) - w |-> IF i < k THEN s[i] ELSE s[i + w]]

ListsInit == contents = [v \in Vector |-> <<>>]

AppendTo(v, e) == contents' = [contents EXCEPT ![v] = Append(@, e)]

\* One watch is taken out: a binary one is one word, a blocking one two.
RemoveFrom(v, k, w) ==
    /\ k + w - 1 <= Len(contents[v])
    /\ contents' = [contents EXCEPT ![v] = Without(@, k, w)]

Truncate(v, n) ==
    contents' = [contents EXCEPT ![v] = [i \in 1 .. n |-> @[i]]]

Replace(v, k, e) ==
    contents' = [contents EXCEPT ![v] = [@ EXCEPT ![k] = e]]

Clear == contents' = [v \in Vector |-> <<>>]

ListsNext ==
    \/ \E v \in Vector, e \in Datum : AppendTo(v, e)
    \/ \E v \in Vector :
         \/ \E k \in DOMAIN contents[v], w \in {1, 2} : RemoveFrom(v, k, w)
         \/ \E n \in 0 .. Len(contents[v]) : Truncate(v, n)
         \/ \E k \in DOMAIN contents[v], e \in Datum : Replace(v, k, e)
    \/ Clear

ListsSpec == ListsInit /\ [][ListsNext]_contents

=============================================================================
