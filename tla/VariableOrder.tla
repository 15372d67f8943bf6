--------------------------- MODULE VariableOrder ---------------------------
(***************************************************************************)
(* What the decision queue promises in focused mode: the active variables  *)
(* in the order in which they were last bumped, and the next decision is   *)
(* the last of them that is unassigned.                                    *)
(***************************************************************************)
EXTENDS Sequences, SequencesExt

CONSTANT Variables

VARIABLES
    order,                  \* the active variables
    assigned,               \* the variables with a value
    answer                  \* the last variable chosen

vars == <<order, assigned, answer>>

Init ==
    /\ order = <<>>
    /\ assigned = {}
    /\ answer \in Variables

Active == ToSet(order)
Without(v) == RemoveAt(order, CHOOSE i \in DOMAIN order : order[i] = v)

Enqueue(v) ==
    /\ v \notin Active
    /\ v \notin assigned
    /\ order' = Append(order, v)
    /\ UNCHANGED <<assigned, answer>>

Dequeue(v) ==
    /\ v \in Active
    /\ order' = Without(v)
    /\ assigned' \in {assigned, assigned \cup {v}}
    /\ UNCHANGED answer

MoveToFront(v) ==
    /\ v \in Active
    /\ order' = Append(Without(v), v)
    /\ UNCHANGED <<assigned, answer>>

Assign(v) ==
    /\ v \in Active \ assigned
    /\ assigned' = assigned \cup {v}
    /\ UNCHANGED <<order, answer>>

Unassign(v) ==
    /\ v \in Active \cap assigned
    /\ assigned' = assigned \ {v}
    /\ UNCHANGED <<order, answer>>

\* The last unassigned variable.
Choose ==
    /\ \E i \in DOMAIN order :
         /\ order[i] \notin assigned
         /\ \A j \in i + 1 .. Len(order) : order[j] \in assigned
         /\ answer' = order[i]
    /\ UNCHANGED <<order, assigned>>

\* The variables get new names; what is assigned stays so.
Rename(f) ==
    /\ \A u, v \in Active : f[u] = f[v] => u = v
    /\ order' = [i \in DOMAIN order |-> f[order[i]]]
    /\ \A v \in Active : f[v] \in assigned' <=> v \in assigned
    /\ UNCHANGED answer

Next ==
    \/ \E v \in Variables :
         Enqueue(v) \/ Dequeue(v) \/ MoveToFront(v) \/ Assign(v) \/ Unassign(v)
    \/ Choose
    \/ \E f \in [Variables -> Variables] : Rename(f)

Spec == Init /\ [][Next]_vars

=============================================================================
