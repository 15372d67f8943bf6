--------------------------- MODULE DecisionQueue ---------------------------
(***************************************************************************)
(* The decision queue: inlinequeue.h, queue.c, bump.c and the functions of *)
(* decide.c, backtrack.c, flags.c, mode.c, reorder.c and compact.c that    *)
(* use it.                                                                 *)
(*                                                                         *)
(* The active variables form a doubly linked list in the order of their    *)
(* stamps.  A search pointer caches where the last decision found an       *)
(* unassigned variable: everything behind it is assigned.  In stable mode  *)
(* decisions come from a heap instead and the pointer is not maintained.   *)
(*                                                                         *)
(* Two loops are modelled one iteration a step: the search for a decision  *)
(* variable, and the renumbering of the stamps when they run out, which    *)
(* happens in the middle of an enqueue (entering).                         *)
(***************************************************************************)
EXTENDS Naturals, Sequences, FiniteSets, SequencesExt

CONSTANTS
    Variables,              \* indices of variables, from one
    None,                   \* DISCONNECT
    MaxStamp                \* UINT_MAX

ASSUME QueueAssumption ==
    /\ None \notin Variables
    /\ IsFiniteSet(Variables)
    /\ Variables = 1 .. Cardinality(Variables)
    /\ MaxStamp \in Nat
    /\ Cardinality(Variables) < MaxStamp

VARIABLES
    prev, next, stamp,      \* solver->links
    first, last,            \* solver->queue.first and .last
    counter,                \* solver->queue.stamp
    search,                 \* solver->queue.search
    active,                 \* the variables whose flags say active
    retired,                \* the variables fixed or eliminated
    assigned,               \* the variables with a value
    stable,                 \* solver->stable
    heap,                   \* the variables on the heap of scores
    bumping,                \* the rest of solver->ranks
    loop,                   \* the loop that runs
    cursor,                 \* its variable
    entering,               \* the variable whose enqueue it interrupts
    answer                  \* the last variable the queue chose

linkVars == <<prev, next, stamp, first, last, counter>>
stateVars == <<active, retired, assigned, stable, heap>>
loopVars == <<loop, cursor, entering>>
queueVars == <<linkVars, search, stateVars, bumping, loopVars, answer>>

Maybe == Variables \cup {None}

QueueInit ==
    /\ prev = [v \in Variables |-> None]
    /\ next = [v \in Variables |-> None]
    /\ stamp = [v \in Variables |-> 0]
    /\ first = None
    /\ last = None
    /\ counter = 0
    /\ search = [idx |-> None, stamp |-> 0]
    /\ active = {}
    /\ retired = {}
    /\ assigned = {}
    /\ stable = FALSE
    /\ heap = {}
    /\ bumping = <<>>
    /\ loop = "none"
    /\ cursor = None
    /\ entering = None
    /\ answer \in Variables

\* kissat_update_queue
SearchAt(v) == [idx |-> v, stamp |-> stamp[v]]

Linked(f, v, w) == IF v = None THEN f ELSE [f EXCEPT ![v] = w]

-----------------------------------------------------------------------------
\* kissat_dequeue_links: the list without v.
\* Mutant: the next variable keeps its link to v.
PrevWithoutNext(v) == [prev EXCEPT ![v] = None]

PrevWithout(v) == Linked([prev EXCEPT ![v] = None], next[v], prev[v])
NextWithout(v) == Linked([next EXCEPT ![v] = None], prev[v], next[v])
FirstWithout(v) == IF prev[v] = None THEN next[v] ELSE first

LastWithout(v) == IF next[v] = None THEN prev[v] ELSE last

\* kissat_enqueue_links, and the update of the search pointer that follows.
\* When the stamps have run out the loop below assigns them first.
EnqueueLinks(v, p, n, f, l, found) ==
    /\ prev' = [p EXCEPT ![v] = l]
    /\ next' = Linked([n EXCEPT ![v] = None], l, v)
    /\ first' = IF l = None THEN v ELSE f
    /\ last' = v
    /\ \/ /\ counter < MaxStamp
          /\ counter' = counter + 1
          /\ stamp' = [stamp EXCEPT ![v] = counter + 1]
          /\ search' = IF v \in assigned THEN found
                                         ELSE [idx |-> v, stamp |-> counter + 1]
          /\ UNCHANGED loopVars
       \/ /\ counter = MaxStamp
          /\ counter' = 0
          /\ search' = found
          /\ loop' = "restamp"
          /\ cursor' = first'
          /\ entering' = v
          /\ UNCHANGED stamp

\* One iteration of kissat_reassign_queue_stamps.
RestampStep ==
    /\ loop = "restamp"
    /\ cursor # None
    /\ counter' = counter + 1
    /\ stamp' = [stamp EXCEPT ![cursor] = counter + 1]
    /\ cursor' = next[cursor]
    /\ UNCHANGED <<prev, next, first, last, search, stateVars, bumping, loop,
                   entering, answer>>

\* Its end, and the end of the enqueue it interrupted.
RestampDone ==
    /\ loop = "restamp"
    /\ cursor = None
    /\ search' = IF entering \notin assigned THEN SearchAt(entering)
                 ELSE IF search.idx = None THEN search ELSE SearchAt(search.idx)
    /\ loop' = "none"
    /\ entering' = None
    /\ UNCHANGED <<linkVars, stateVars, bumping, cursor, answer>>

-----------------------------------------------------------------------------
Calm == loop = "none" /\ bumping = <<>>
AtRoot == active \cap assigned = {}

\* activate_literal with kissat_enqueue, for a new variable at the root.
Activate(v) ==
    /\ Calm
    /\ AtRoot
    /\ v \notin active \cup retired
    /\ active' = active \cup {v}
    /\ heap' = IF stable THEN heap \cup {v} ELSE heap
    /\ EnqueueLinks(v, prev, next, first, last, search)
    /\ UNCHANGED <<retired, assigned, stable, bumping, answer>>

\* Mutant: the search pointer stays.
SearchWithoutMove(v) == search

\* kissat_dequeue: the search pointer moves to a neighbour.
SearchWithout(v) ==
    IF search.idx # v THEN search
    ELSE IF next[v] # None THEN SearchAt(next[v])
    ELSE IF prev[v] # None THEN SearchAt(prev[v])
    ELSE [idx |-> None, stamp |-> 0]

\* deactivate_variable
Deactivate(v) ==
    /\ active' = active \ {v}
    /\ retired' = retired \cup {v}
    /\ heap' = heap \ {v}
    /\ search' = SearchWithout(v)
    /\ prev' = PrevWithout(v)
    /\ next' = NextWithout(v)
    /\ first' = FirstWithout(v)
    /\ last' = LastWithout(v)
    /\ UNCHANGED <<stamp, counter>>

\* kissat_mark_fixed_literal, in kissat_assign at level zero.
Fix(v) ==
    /\ Calm
    /\ v \in active \ assigned
    /\ assigned' = assigned \cup {v}
    /\ Deactivate(v)
    /\ UNCHANGED <<stable, bumping, loopVars, answer>>

\* kissat_mark_eliminated_variable
Eliminate(v) ==
    /\ Calm
    /\ AtRoot
    /\ v \in active
    /\ Deactivate(v)
    /\ UNCHANGED <<assigned, stable, bumping, loopVars, answer>>

\* kissat_assign above level zero.
Assign(v) ==
    /\ Calm
    /\ v \in active \ assigned
    /\ assigned' = assigned \cup {v}
    /\ UNCHANGED <<linkVars, search, active, retired, stable, heap, bumping,
                   loopVars, answer>>

\* unassign, and add_unassigned_variable_back_to_queue or _to_heap.
Unassign(v) ==
    /\ Calm
    /\ v \in active \cap assigned
    /\ assigned' = assigned \ {v}
    /\ \/ /\ stable
          /\ heap' = heap \cup {v}
          /\ UNCHANGED search
       \/ /\ ~ stable
          /\ search' = IF stamp[v] > search.stamp THEN SearchAt(v) ELSE search
          /\ UNCHANGED heap
    /\ UNCHANGED <<linkVars, active, retired, stable, bumping, loopVars, answer>>

-----------------------------------------------------------------------------
\* move_analyzed_variables_to_front_of_queue: the ranks are the stamps of the
\* analyzed variables before the first one moves.  Units learned by the
\* analysis are among them, and no longer active.
BumpAnalyzed(analyzed) ==
    /\ Calm
    /\ ~ stable
    /\ \A i, j \in DOMAIN analyzed : i < j => stamp[analyzed[i]] <= stamp[analyzed[j]]
    /\ bumping' = analyzed
    /\ UNCHANGED <<linkVars, search, stateVars, loopVars, answer>>

\* reorder_focused: all variables, by weight.
ReorderFocused(sorted) ==
    /\ Calm
    /\ ~ stable
    /\ AtRoot
    /\ bumping' = sorted
    /\ UNCHANGED <<linkVars, search, stateVars, loopVars, answer>>

\* kissat_move_to_front.
FoundWithout(v) ==
    IF v \in assigned /\ search.idx = v
      THEN SearchAt(IF prev[v] # None THEN prev[v] ELSE next[v])
      ELSE search

MoveToFront ==
    /\ loop = "none"
    /\ bumping # <<>>
    /\ bumping' = Tail(bumping)
    /\ LET v == Head(bumping) IN
         \/ /\ v \notin active \/ v = last
            /\ UNCHANGED <<linkVars, search, loopVars>>
         \/ /\ v \in active
            /\ v # last
            /\ EnqueueLinks(v, PrevWithout(v), NextWithout(v), FirstWithout(v),
                            LastWithout(v), FoundWithout(v))
    /\ UNCHANGED <<stateVars, answer>>

-----------------------------------------------------------------------------
\* last_enqueued_unassigned_variable; kissat_decide assigns the variable,
\* reuse_focused_trail only looks at its stamp.
ChooseStart ==
    /\ Calm
    /\ ~ stable
    /\ active \ assigned # {}
    /\ \/ /\ search.idx \notin assigned
          /\ answer' = search.idx
          /\ UNCHANGED <<loop, cursor>>
       \/ /\ search.idx \in assigned
          /\ loop' = "choose"
          /\ cursor' = prev[search.idx]
          /\ UNCHANGED answer
    /\ UNCHANGED <<linkVars, search, stateVars, bumping, entering>>

ChooseStep ==
    /\ loop = "choose"
    /\ cursor \in assigned
    /\ cursor' = prev[cursor]
    /\ UNCHANGED <<linkVars, search, stateVars, bumping, loop, entering, answer>>

ChooseDone ==
    /\ loop = "choose"
    /\ cursor \notin assigned
    /\ answer' = cursor
    /\ search' = SearchAt(cursor)
    /\ loop' = "none"
    /\ cursor' = None
    /\ UNCHANGED <<linkVars, stateVars, bumping, entering>>

\* largest_score_unassigned_variable: assigned variables with larger scores
\* are popped off the heap.
PopAssigned ==
    /\ Calm
    /\ stable
    /\ active \ assigned # {}
    /\ \E popped \in SUBSET (heap \cap assigned) : heap' = heap \ popped
    /\ UNCHANGED <<linkVars, search, active, retired, assigned, stable, bumping,
                   loopVars, answer>>

\* kissat_switch_search_mode
SwitchToStable ==
    /\ Calm
    /\ ~ stable
    /\ active \ assigned # {}
    /\ stable' = TRUE
    /\ heap' = heap \cup active
    /\ UNCHANGED <<linkVars, search, active, retired, assigned, bumping, loopVars,
                   answer>>

SwitchToFocused ==
    /\ Calm
    /\ stable
    /\ active \ assigned # {}
    /\ stable' = FALSE
    /\ search' = SearchAt(last)
    /\ UNCHANGED <<linkVars, active, retired, assigned, heap, bumping, loopVars, answer>>

-----------------------------------------------------------------------------
\* The list from front to end, as its next links give it.
Listed ==
    LET at[n \in 1 .. Cardinality(active)] ==
            IF n = 1 THEN first
            ELSE IF at[n - 1] = None THEN None ELSE next[at[n - 1]]
    IN at

\* kissat_compact_literals: the variables that keep an index, which are the
\* active ones and the first that is fixed, and their indices without gaps.
Kept ==
    LET fixed == retired \cap assigned
    IN active \cup {v \in fixed : \A u \in fixed : v <= u}

Mapped(v) == Cardinality({u \in Kept : u <= v})

\* compact_queue: the search pointer is renamed in the loop that compares it,
\* so that a later variable may be taken for it.
CompactedSearch ==
    LET after[i \in 0 .. Cardinality(active)] ==
            IF i = 0 THEN search
            ELSE IF Listed[i] # after[i - 1].idx THEN after[i - 1]
            ELSE [idx |-> Mapped(Listed[i]), stamp |-> i]
    IN after[Cardinality(active)]

\* Copying links and flags from old to new indices, which are not larger.
Renamed(f, g) ==
    [v \in Variables |->
        IF \E u \in Kept : Mapped(u) = v
          THEN g[CHOOSE u \in Kept : Mapped(u) = v] ELSE f[v]]

MappedLink(f) == [v \in Kept |-> IF f[v] \in Kept THEN Mapped(f[v]) ELSE None]

\* kissat_finalize_compacting, when an index is given up: one that is neither
\* active nor retired may have been imported and not activated.
Compact ==
    /\ Calm
    /\ Kept # Variables
    /\ prev' = Renamed(prev, MappedLink(prev))
    /\ next' = Renamed(next, MappedLink(next))
    /\ stamp' = Renamed(stamp, [v \in Kept |-> IF v \in active
                   THEN CHOOSE i \in DOMAIN Listed : Listed[i] = v ELSE stamp[v]])
    /\ first' = IF active = {} THEN None ELSE Mapped(first)
    /\ last' = IF active = {} THEN None ELSE Mapped(last)
    /\ counter' = Cardinality(active)
    /\ search' = CompactedSearch
    /\ active' = {Mapped(v) : v \in active}
    /\ retired' = {Mapped(v) : v \in Kept \ active}
    /\ assigned' = {Mapped(v) : v \in assigned \cap Kept}
    /\ heap' = {Mapped(v) : v \in heap \cap Kept}
    /\ UNCHANGED <<stable, bumping, loopVars, answer>>

QueueNext ==
    \/ \E v \in Variables :
         Activate(v) \/ Fix(v) \/ Eliminate(v) \/ Assign(v) \/ Unassign(v)
    \/ \E s \in SetToAllKPermutations(active \cup (retired \cap assigned)) :
         BumpAnalyzed(s)
    \/ \E s \in SetToSeqs(active) : ReorderFocused(s)
    \/ MoveToFront
    \/ RestampStep \/ RestampDone
    \/ ChooseStart \/ ChooseStep \/ ChooseDone
    \/ PopAssigned \/ SwitchToStable \/ SwitchToFocused
    \/ Compact

QueueSpec == QueueInit /\ [][QueueNext]_queueVars

-----------------------------------------------------------------------------
QueueTypeOK ==
    /\ prev \in [Variables -> Maybe]
    /\ next \in [Variables -> Maybe]
    /\ stamp \in [Variables -> Nat]
    /\ first \in Maybe
    /\ last \in Maybe
    /\ counter \in 0 .. MaxStamp
    /\ search \in [idx : Maybe, stamp : Nat]
    /\ active \subseteq Variables
    /\ retired \subseteq Variables
    /\ assigned \subseteq Variables
    /\ stable \in BOOLEAN
    /\ heap \subseteq Variables
    /\ bumping \in Seq(Variables)
    /\ loop \in {"none", "choose", "restamp"}
    /\ cursor \in Maybe
    /\ entering \in Maybe
    /\ answer \in Variables

\* The order of the list, by stamps.  A variable whose enqueue waits for new
\* stamps comes last.
Earlier(u, v) ==
    /\ u # entering
    /\ v = entering \/ stamp[u] < stamp[v]

\* p comes right before v in that order, or v comes first when p is None.
IsPrev(p, v) ==
    IF p = None THEN \A u \in active : u = v \/ Earlier(v, u)
    ELSE /\ p \in active
         /\ Earlier(p, v)
         /\ \A u \in active : u = p \/ u = v \/ Earlier(u, p) \/ Earlier(v, u)

IsNext(n, v) ==
    IF n = None THEN \A u \in active : u = v \/ Earlier(u, v)
    ELSE n \in active /\ IsPrev(v, n)

\* The list runs through the active variables in the order of their stamps,
\* forwards and backwards, also while the stamps are renumbered
\* (kissat_check_queue, which a release build does not run).
ListSorted ==
    /\ \A v \in active : IsPrev(prev[v], v) /\ IsNext(next[v], v)
    /\ IF active = {} THEN first = None /\ last = None
       ELSE /\ first \in active /\ IsPrev(None, first)
            /\ last \in active /\ IsNext(None, last)

\* The search pointer has the stamp of its variable: an unassigned variable
\* is compared with it.  Only an empty list has no pointer.
SearchCached ==
    loop # "restamp" =>
        IF active = {} THEN search.idx = None
        ELSE search.idx \in active /\ search.stamp = stamp[search.idx]

\* In focused mode no unassigned variable comes after the search pointer, or
\* a decision would overlook the variable bumped last.
AssignedBehindSearch ==
    ~ stable => \A v \in active \ assigned :
        v = entering \/ v = search.idx \/ Earlier(v, search.idx)

\* In stable mode the heap holds every unassigned variable, although only the
\* backtracks of stable mode put variables back.
HeapCovers == stable => active \ assigned \subseteq heap

-----------------------------------------------------------------------------
\* The inductive invariant adds the state of the two loops.  Renumbering works
\* because a variable never gets a larger stamp than it had: those that the
\* loop has not reached keep stamps above the counter.
Visited == {v \in active : cursor = None \/ Earlier(v, cursor)}

RestampInv ==
    /\ loop # "restamp" => /\ entering = None
                           /\ \A v \in active : stamp[v] <= counter
    /\ loop = "restamp" =>
         /\ entering \in active
         /\ entering = last
         /\ cursor \in active \cup {None}
         /\ counter = Cardinality(Visited)
         /\ search.idx = None => active = {entering} /\ entering \notin assigned
         /\ search.idx # None => search.idx \in active
         /\ \A v \in active \ {entering} :
              /\ v \in Visited => stamp[v] <= counter
              /\ v \notin Visited => stamp[v] > counter
         /\ cursor = None => /\ stamp[entering] = counter
                             /\ \A v \in active \ {entering} : stamp[v] < counter

ChooseInv ==
    loop = "choose" =>
        /\ ~ stable
        /\ bumping = <<>>
        /\ active \ assigned # {}
        /\ cursor \in active
        /\ \A v \in active \ assigned : v = cursor \/ Earlier(v, cursor)

Ordered ==
    /\ assigned \subseteq active \cup retired
    /\ \A v \in active \ {entering} : stamp[v] \in 1 .. MaxStamp
    /\ \A u, v \in active : u = v \/ Earlier(u, v) \/ Earlier(v, u)

QueueInv ==
    /\ QueueTypeOK
    /\ Ordered
    /\ ListSorted
    /\ SearchCached
    /\ AssignedBehindSearch
    /\ HeapCovers
    /\ RestampInv
    /\ ChooseInv
    /\ bumping # <<>> => ~ stable

-----------------------------------------------------------------------------
\* The abstract order is the list, read along its links.
Order == INSTANCE VariableOrder WITH order <- Listed

\* The queue implements the abstract order: whatever is bumped, unassigned,
\* renumbered or switched, the next decision is the last unassigned variable
\* of the order in which the variables were bumped.
OrderSpec == Order!Spec

=============================================================================
