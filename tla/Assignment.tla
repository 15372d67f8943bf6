----------------------------- MODULE Assignment -----------------------------
(***************************************************************************)
(* What the trail promises its users: a stack of decision levels in which  *)
(* a literal may be assigned at any level up to the current one            *)
(* (chronological backtracking makes that possible), and backtracking to k *)
(* undoes, in one step, exactly the assignments above k.                   *)
(***************************************************************************)
EXTENDS Clauses

VARIABLES
    assigned,               \* the true literals, each with its level
    depth                   \* the decision level

vars == <<assigned, depth>>

Free(lit) == lit \notin DOMAIN assigned /\ -lit \notin DOMAIN assigned

Extended(lit, k) ==
    [l \in DOMAIN assigned \cup {lit} |-> IF l = lit THEN k ELSE assigned[l]]

Init == assigned = [l \in {} |-> 0] /\ depth = 0

Assign(lit, k) ==
    /\ Free(lit)
    /\ k <= depth
    /\ assigned' = Extended(lit, k)
    /\ UNCHANGED depth

Decide(lit) ==
    /\ Free(lit)
    /\ assigned' = Extended(lit, depth + 1)
    /\ depth' = depth + 1

Backtrack(k) ==
    /\ k < depth
    /\ assigned' = [l \in {m \in DOMAIN assigned : assigned[m] <= k}
                       |-> assigned[l]]
    /\ depth' = k

Next ==
    \/ \E lit \in Lit : Decide(lit) \/ \E k \in 0 .. depth : Assign(lit, k)
    \/ \E k \in 0 .. depth : Backtrack(k)

Spec == Init /\ [][Next]_vars

=============================================================================
