-------------------------------- MODULE Heap --------------------------------
(***************************************************************************)
(* The binary heap of heap.c, heap.h and inlineheap.h, and the renumbering *)
(* of it in compact.c.                                                     *)
(*                                                                         *)
(* The solver keeps three: the scores of its variables, the schedule of    *)
(* bounded variable elimination, and the schedule of factoring, which      *)
(* holds literals.  Positions count from zero as in the code.              *)
(*                                                                         *)
(* A bubbling element is not written to the stack until it has found its   *)
(* place, so that the loops go through states in which the stack repeats   *)
(* an element and the position of the moving one is out of date.  Every    *)
(* iteration is a step here.  The words that an allocation leaves          *)
(* uninitialised hold Garbage.                                             *)
(***************************************************************************)
EXTENDS Integers, Sequences, Functions

CONSTANTS
    MaxVars,                \* more than any element
    MaxSize,                \* the largest allocation
    Score,                  \* what an element may score
    Garbage,                \* what an uninitialised word holds
    NoElement                    \* no element, INVALID_IDX

ASSUME HeapAssumption ==
    /\ MaxVars \in Nat
    /\ MaxSize \in Nat
    /\ MaxVars <= MaxSize
    /\ Score \subseteq Int
    /\ 0 \in Score
    /\ Garbage \notin Int
    /\ NoElement \notin Int

VARIABLES
    tainted,                \* a score other than zero was stored
    vars,                   \* the elements imported so far
    size,                   \* the words allocated for pos and score
    count,                  \* SIZE_STACK (heap->stack)
    stack,                  \* heap->stack
    pos,                    \* heap->pos
    score,                  \* heap->score
    dir,                    \* the loop that runs, if any
    idx,                    \* the element that bubbles
    at,                     \* idx_pos, the hole it leaves in the stack
    pending,                \* the elements still to push when compacting
    largest                 \* what the last call returned

arrayVars == <<vars, size, tainted, score>>
bubbleVars == <<dir, idx, at>>
heapVars == <<arrayVars, count, stack, pos, bubbleVars, pending, largest>>

Element == 0 .. MaxVars - 1

\* DISCONTAIN, the largest unsigned number, which is negative as an int.
Discontain == -1

Child(p) == 2 * p + 1
Parent(p) == (p - 1) \div 2

Empty == [p \in {} |-> 0]

HeapInit ==
    /\ tainted = FALSE
    /\ vars = 0
    /\ size = 0
    /\ count = 0
    /\ stack = Empty
    /\ pos = Empty
    /\ score = Empty
    /\ dir = "rest"
    /\ idx = 0
    /\ at = 0
    /\ pending = <<>>
    /\ largest = NoElement

\* No call runs.
Idle == dir = "rest" /\ pending = <<>>

\* kissat_heap_contains and kissat_get_heap_score
OnHeap(e) == e < vars /\ pos[e] # Discontain
ScoreOf(e) == IF e < vars THEN score[e] ELSE 0

-----------------------------------------------------------------------------
\* HEAP_IMPORT and kissat_enlarge_heap: the elements up to e are imported.
VarsWith(e) == IF vars <= e THEN e + 1 ELSE vars
Imported(f, e, word) ==
    [p \in DOMAIN f |-> IF vars <= p /\ p <= e THEN word ELSE f[p]]
ImportedPos(f, e) == Imported(f, e, Discontain)
ImportedScores(f, e) == IF tainted THEN Imported(f, e, 0) ELSE f

\* kissat_resize_heap: the words that are new, and a fresh array of scores
\* as long as none was stored.
Grown(f, n) ==
    [p \in 0 .. n - 1 |-> IF p < size THEN f[p] ELSE Garbage]
FreshScores(n) == [p \in 0 .. n - 1 |-> 0]
GrownScores(n) == IF tainted THEN Grown(score, n) ELSE FreshScores(n)

Resize(n) ==
    /\ Idle
    /\ size < n
    /\ size' = n
    /\ pos' = Grown(pos, n)
    /\ score' = GrownScores(n)
    /\ UNCHANGED <<vars, tainted, count, stack, bubbleVars, pending, largest>>

\* kissat_adjust_heap: room for e, the allocation doubled as often as it
\* takes, and e imported.
Doubled(n, e) ==
    /\ \E k \in 0 .. MaxSize : n = (IF size = 0 THEN 1 ELSE 2 * size) * 2 ^ k
    /\ n \div 2 <= e

Adjust(e) ==
    /\ Idle
    /\ vars <= e
    /\ IF e < size
       THEN /\ pos' = ImportedPos(pos, e)
            /\ score' = ImportedScores(score, e)
            /\ UNCHANGED size
       ELSE \E n \in e + 1 .. MaxSize :
              /\ Doubled(n, e)
              /\ size' = n
              /\ pos' = ImportedPos(Grown(pos, n), e)
              /\ score' = ImportedScores(GrownScores(n), e)
    /\ vars' = e + 1
    /\ UNCHANGED <<tainted, count, stack, bubbleVars, pending, largest>>

\* kissat_release_heap
Release ==
    /\ Idle
    /\ tainted' = FALSE
    /\ vars' = 0
    /\ size' = 0
    /\ count' = 0
    /\ stack' = Empty
    /\ pos' = Empty
    /\ score' = Empty
    /\ largest' = NoElement
    /\ UNCHANGED <<bubbleVars, pending>>

-----------------------------------------------------------------------------
\* kissat_push_heap: the last place, and up from there.
PushElement(e) ==
    /\ e < size
    /\ ~OnHeap(e)
    /\ vars' = VarsWith(e)
    /\ score' = ImportedScores(score, e)
    /\ pos' = [ImportedPos(pos, e) EXCEPT ![e] = count]
    /\ stack' = [p \in 0 .. count |-> IF p = count THEN e ELSE stack[p]]
    /\ count' = count + 1
    /\ dir' = "up"
    /\ idx' = e
    /\ at' = count
    /\ largest' = NoElement
    /\ UNCHANGED <<size, tainted>>

Push(e) ==
    /\ Idle
    /\ PushElement(e)
    /\ UNCHANGED pending

\* The last element takes the place of e, and bubbles d from there.
PosMoved(e, last) ==
    IF last = e THEN [pos EXCEPT ![e] = Discontain]
    ELSE [pos EXCEPT ![e] = Discontain, ![last] = pos[e]]

TakeOut(e, d) ==
    LET last == stack[count - 1] IN
    /\ stack' = [p \in 0 .. count - 2 |-> IF p = pos[e] THEN last ELSE stack[p]]
    /\ count' = count - 1
    /\ pos' = PosMoved(e, last)
    /\ IF last = e THEN UNCHANGED bubbleVars
       ELSE dir' = d /\ idx' = last /\ at' = pos[e]
    /\ UNCHANGED <<arrayVars, pending>>

\* kissat_pop_heap: up and then down.
Pop(e) ==
    /\ Idle
    /\ OnHeap(e)
    /\ TakeOut(e, "updown")
    /\ largest' = NoElement

\* kissat_pop_max_heap
PopMax ==
    /\ Idle
    /\ count > 0
    /\ TakeOut(stack[0], "down")
    /\ largest' = stack[0]

\* kissat_update_heap

Update(e, s) ==
    /\ Idle
    /\ e < size
    /\ s # ScoreOf(e)
    /\ vars' = VarsWith(e)
    /\ pos' = ImportedPos(pos, e)
    /\ score' = [ImportedScores(score, e) EXCEPT ![e] = s]
    /\ tainted' = TRUE
    /\ IF OnHeap(e)
       THEN /\ dir' = IF s > ScoreOf(e) THEN "up" ELSE "down"
            /\ idx' = e
            /\ at' = pos[e]
       ELSE UNCHANGED bubbleVars
    /\ largest' = NoElement
    /\ UNCHANGED <<size, count, stack, pending>>

\* kissat_rescale_heap: multiplication by a positive factor, which keeps the
\* order of the scores up to rounding.
Monotone(f) ==
    /\ f[0] = 0
    /\ \A s, t \in Score : s <= t => f[s] <= f[t]

Rescale(f) ==
    /\ Idle
    /\ Monotone(f)
    /\ score' = [p \in DOMAIN score |-> IF p < vars THEN f[score[p]] ELSE score[p]]
    /\ largest' = NoElement
    /\ UNCHANGED <<vars, size, tainted, count, stack, pos, bubbleVars, pending>>

-----------------------------------------------------------------------------
\* The loop of kissat_bubble_up.
Rises(p) == at > 0 /\ score[stack[Parent(at)]] < score[idx]
GoingUp == dir \in {"up", "updown"}

UpStep ==
    /\ GoingUp
    /\ Rises(at)
    /\ LET parent == stack[Parent(at)] IN
       /\ stack' = [stack EXCEPT ![at] = parent]
       /\ pos' = [pos EXCEPT ![parent] = at]
    /\ at' = Parent(at)
    /\ UNCHANGED <<arrayVars, count, dir, idx, pending, largest>>

Placed ==
    /\ stack' = [stack EXCEPT ![at] = idx]
    /\ pos' = [pos EXCEPT ![idx] = at]
    /\ UNCHANGED <<arrayVars, count, idx, at, pending, largest>>

UpDone ==
    /\ GoingUp
    /\ ~Rises(at)
    /\ Placed
    /\ dir' = IF dir = "up" THEN "rest" ELSE "down"

\* The loop of kissat_bubble_down: the larger child, the first if they are
\* equal.
\* Mutant: always the first.
FirstChild == Child(at)
LargerChild ==
    LET c == Child(at) IN
    IF c + 1 < count /\ score[stack[c + 1]] > score[stack[c]] THEN c + 1 ELSE c

Sinks ==
    /\ Child(at) < count
    /\ score[stack[LargerChild]] > score[idx]

DownStep ==
    /\ dir = "down"
    /\ Sinks
    /\ LET child == stack[LargerChild] IN
       /\ stack' = [stack EXCEPT ![at] = child]
       /\ pos' = [pos EXCEPT ![child] = at]
    /\ at' = LargerChild
    /\ UNCHANGED <<arrayVars, count, dir, idx, pending, largest>>

DownDone ==
    /\ dir = "down"
    /\ ~Sinks
    /\ Placed
    /\ dir' = "rest"

-----------------------------------------------------------------------------
\* compact_scores: a new heap for the variables under their new indices.  If a
\* score was ever stored, every variable that has a new index, on the heap or
\* not, leaves its score there, and of the fixed variables that share one the
\* last does; otherwise all are zero.
Names(m) == {m[e] : e \in Element} \ {NoElement}
Renumberings ==
    {m \in [Element -> Element \cup {NoElement}] :
       /\ \A e \in Element : m[e] # NoElement => m[e] <= e
       /\ \E n \in 0 .. MaxVars : Names(m) = 0 .. n - 1}

\* Only variables that are fixed, and not on the heap, share a name.
SharedByFixed(m) ==
    \A e, d \in Element :
      e # d /\ m[e] = m[d] /\ m[e] # NoElement => ~OnHeap(e) /\ ~OnHeap(d)

Named(m, n) == {e \in Element : m[e] = n}
CopiedScore(m, n) ==
    ScoreOf(CHOOSE e \in Named(m, n) : \A d \in Named(m, n) : d <= e)
Scored(m) == {m[e] : e \in {d \in Element : ScoreOf(d) # 0}} \ {NoElement}

CompactScores(m) ==
    /\ Idle
    /\ SharedByFixed(m)
    /\ \E n \in 0 .. MaxVars :
         /\ Names(m) = 0 .. n - 1
         /\ size' = n
         /\ \E v \in 0 .. n :
              /\ Scored(m) \subseteq 0 .. v - 1
              /\ v > 0 => v - 1 \in Scored(m)
              /\ vars' = v
              /\ pos' = [p \in 0 .. n - 1 |-> IF p < v THEN Discontain ELSE Garbage]
         /\ score' = [p \in 0 .. n - 1 |-> IF tainted THEN CopiedScore(m, p) ELSE 0]
    /\ tainted' = (tainted /\ Scored(m) # {})
    /\ pending' = [p \in 1 .. count |-> m[stack[p - 1]]]
    /\ count' = 0
    /\ stack' = Empty
    /\ largest' = NoElement
    /\ UNCHANGED bubbleVars

PushNext ==
    /\ dir = "rest"
    /\ pending # <<>>
    /\ pending' = Tail(pending)
    /\ IF Head(pending) = NoElement
       THEN UNCHANGED <<arrayVars, count, stack, pos, bubbleVars, largest>>
       ELSE PushElement(Head(pending))

Call ==
    \/ \E n \in 1 .. MaxSize : Resize(n)
    \/ \E e \in Element : Adjust(e) \/ Push(e) \/ Pop(e)
    \/ \E e \in Element, s \in Score : Update(e, s)
    \/ PopMax
    \/ \E f \in [Score -> Score] : Rescale(f)
    \/ \E m \in Renumberings : CompactScores(m)
    \/ Release

Step == UpStep \/ UpDone \/ DownStep \/ DownDone \/ PushNext

HeapNext == Call \/ Step

HeapSpec == HeapInit /\ [][HeapNext]_heapVars

-----------------------------------------------------------------------------
\* The stack and the positions as they are once the moving element is placed.
Stack == IF dir = "rest" THEN stack ELSE [stack EXCEPT ![at] = idx]
Pos == IF dir = "rest" THEN pos ELSE [pos EXCEPT ![idx] = at]
ScoreAt(p) == score[Stack[p]]

TypeOK ==
    /\ tainted \in BOOLEAN
    /\ vars \in Nat /\ size \in Nat /\ count \in Nat
    /\ vars <= size
    /\ vars <= MaxVars
    /\ stack \in [0 .. count - 1 -> 0 .. vars - 1]
    /\ pos \in [0 .. size - 1 -> Int \cup {Garbage}]
    /\ score \in [0 .. size - 1 -> Score \cup {Garbage}]
    /\ dir \in {"rest", "up", "down", "updown"}
    /\ dir # "rest" => at \in 0 .. count - 1 /\ idx \in 0 .. vars - 1
    /\ pending \in Seq(Element \cup {NoElement})
    /\ largest \in Element \cup {NoElement}

\* The positions are the inverse of the stack, and the moving element counts
\* as contained.
PositionsInverse ==
    /\ \A p \in 0 .. count - 1 : Pos[Stack[p]] = p
    /\ \A e \in 0 .. vars - 1 :
         Pos[e] # Discontain => Pos[e] \in 0 .. count - 1 /\ Stack[Pos[e]] = e
    /\ dir # "rest" => pos[idx] # Discontain

\* The scores of imported elements are defined, and all are zero as long as
\* the heap is not tainted.
ScoresDefined ==
    /\ \A e \in 0 .. vars - 1 : score[e] \in Score
    /\ ~tainted => \A e \in 0 .. size - 1 : score[e] = 0

\* No element scores more than its parent, but for the moving one.
OrderedBelow(p) == p > 0 => ScoreAt(p) <= ScoreAt(Parent(p))
ChildrenOf(p) == {c \in 1 .. count - 1 : Parent(c) = p}

Decreasing ==
    IF dir = "rest" THEN \A p \in 0 .. count - 1 : OrderedBelow(p)
    ELSE /\ \A p \in 0 .. count - 1 :
              p = at \/ (p > 0 /\ Parent(p) = at) \/ OrderedBelow(p)
         /\ at > 0 =>
              \A c \in ChildrenOf(at) : ScoreAt(c) <= ScoreAt(Parent(at))
         /\ dir = "up" => \A c \in ChildrenOf(at) : OrderedBelow(c)
         /\ dir = "down" => OrderedBelow(at)

\* The assertions of kissat_check_heap hold whenever no element moves, and
\* while one moves, its hole is the only place where they may fail.
HeapInv ==
    /\ TypeOK
    /\ PositionsInverse
    /\ ScoresDefined
    /\ Decreasing

\* What the callers see: compaction keeps the members it has yet to push.
Members ==
    {e \in Element : OnHeap(e)}
    \cup {e \in Element : \E p \in DOMAIN pending : pending[p] = e}
Priority == [e \in Element |-> ScoreOf(e)]

Prio == INSTANCE Priorities WITH members <- Members, priority <- Priority

\* The heap is a set of scored elements from which kissat_pop_max_heap takes
\* one that no other exceeds, whatever is resized, imported or renumbered in
\* between: the scores survive a new allocation, an element keeps its score
\* while it is off the heap, and its new name gets it.
PrioritiesSpec == Prio!PrioritiesSpec

=============================================================================
