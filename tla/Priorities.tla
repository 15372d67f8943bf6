----------------------------- MODULE Priorities -----------------------------
(***************************************************************************)
(* What a heap of scored elements promises: a set of elements, a score for *)
(* every element whether it is in the set or not, and a way to take out an *)
(* element whose score no other exceeds.                                   *)
(***************************************************************************)
EXTENDS Integers

CONSTANTS
    Element,                \* indices of variables or of literals
    Score,                  \* what an element may score
    NoElement                    \* no element

VARIABLES
    members,                \* the elements on the heap
    priority,               \* the score of every element
    largest                 \* what the last call returned

vars == <<members, priority, largest>>

Init ==
    /\ members = {}
    /\ priority = [e \in Element |-> 0]
    /\ largest = NoElement

Push(e) ==
    /\ e \notin members
    /\ members' = members \cup {e}
    /\ largest' = NoElement
    /\ UNCHANGED priority

Pop(e) ==
    /\ e \in members
    /\ members' = members \ {e}
    /\ largest' = NoElement
    /\ UNCHANGED priority

PopMax ==
    \E e \in members :
      /\ \A d \in members : priority[d] <= priority[e]
      /\ members' = members \ {e}
      /\ largest' = e
      /\ UNCHANGED priority

Update(e, s) ==
    /\ priority' = [priority EXCEPT ![e] = s]
    /\ largest' = NoElement
    /\ UNCHANGED members

\* Scaling keeps the order, but a small difference may be lost.
Monotone(f) ==
    /\ f[0] = 0
    /\ \A s, t \in Score : s <= t => f[s] <= f[t]

Rescale ==
    /\ \E f \in [Score -> Score] :
         /\ Monotone(f)
         /\ priority' = [e \in Element |-> f[priority[e]]]
    /\ largest' = NoElement
    /\ UNCHANGED members

\* The members get other names, and those the map drops leave.
Renumber(m) ==
    /\ members' = {m[e] : e \in members} \ {NoElement}
    /\ priority' \in [Element -> Score]
    /\ \A e \in members : m[e] # NoElement => priority'[m[e]] = priority[e]
    /\ largest' = NoElement

Release ==
    /\ members' = {}
    /\ priority' = [e \in Element |-> 0]
    /\ largest' = NoElement

Next ==
    \/ \E e \in Element : Push(e) \/ Pop(e) \/ \E s \in Score : Update(e, s)
    \/ PopMax
    \/ Rescale
    \/ Release
    \/ \E m \in [Element -> Element \cup {NoElement}] : Renumber(m)

PrioritiesSpec == Init /\ [][Next]_vars

=============================================================================
