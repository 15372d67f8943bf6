------------------------------- MODULE Trail -------------------------------
(***************************************************************************)
(* The trail: values, levels and the control stack of the CDCL search.     *)
(*                                                                         *)
(* assign.c, inlineassign.h, inlineframes.h, backtrack.c and trail.c.      *)
(* Chronological backtracking puts a literal on the trail at a level below *)
(* the current one, so the trail is not sorted by level and backtracking   *)
(* compacts it in place: literals of a kept level slide down over those    *)
(* that are unassigned.  That loop is modelled one literal a step.         *)
(*                                                                         *)
(* Sequences count from 1, the code's trail from 0: position and the trail *)
(* field of a frame hold the code's numbers.  frames omits the sentinel    *)
(* frame of level 0, so the current level, solver->level, is Len(frames).  *)
(***************************************************************************)
EXTENDS Clauses, Sequences, FiniteSets

VARIABLES
    values,                 \* solver->values: 1 true, -1 false, 0 unassigned
    level,                  \* assigned[idx].level
    position,               \* assigned[idx].trail
    trail,                  \* solver->trail
    propagate,              \* solver->propagate, as an index into the trail
    frames,                 \* solver->frames, for levels 1, 2, ...
    unassigned,             \* solver->unassigned
    unflushed,              \* solver->unflushed
    undo                    \* locals of the loop of kissat_backtrack_...

trailVars == <<values, level, position, trail, propagate, frames,
               unassigned, unflushed, undo>>

Idle == [active |-> FALSE, to |-> 0, from |-> 0, p |-> 0, q |-> 0]
Loop(new, end, p, q) == [active |-> TRUE, to |-> new, from |-> end, p |-> p, q |-> q]

\* LEVEL (lit) and solver->level
LevelOf(lit) == level[Idx(lit)]
CurrentLevel == Len(frames)

-----------------------------------------------------------------------------
TrailInit ==
    /\ values = [l \in Lit |-> 0]
    /\ level = [v \in Var |-> 0]
    /\ position = [v \in Var |-> 0]
    /\ trail = <<>>
    /\ propagate = 0
    /\ frames = <<>>
    /\ unassigned = NVars
    /\ unflushed = 0
    /\ undo = Idle

\* kissat_assign: what every assignment does, whatever its reason.
Push(lit, lvl) ==
    /\ values[lit] = 0
    /\ values' = [values EXCEPT ![lit] = 1, ![-lit] = -1]
    /\ level' = [level EXCEPT ![Idx(lit)] = lvl]
    /\ position' = [position EXCEPT ![Idx(lit)] = Len(trail)]
    /\ trail' = Append(trail, lit)
    /\ unassigned' = unassigned - 1
    /\ unflushed' = IF lvl = 0 THEN unflushed + 1 ELSE unflushed

\* kissat_assign_unit, _binary and _reference: at a level not above the
\* current one.
Assign(lit, lvl) ==
    /\ ~ undo.active
    /\ lvl <= CurrentLevel
    /\ Push(lit, lvl)
    /\ UNCHANGED <<propagate, frames, undo>>

\* kissat_internal_assume: a new frame, once propagation is complete.
Decide(lit) ==
    /\ ~ undo.active
    /\ propagate = Len(trail)
    /\ frames' = Append(frames, [decision |-> lit, trail |-> Len(trail)])
    /\ Push(lit, CurrentLevel + 1)
    /\ UNCHANGED <<propagate, undo>>

\* search_propagate takes the next literal of the trail.
Advance ==
    /\ ~ undo.active
    /\ propagate < Len(trail)
    /\ propagate' = propagate + 1
    /\ UNCHANGED <<values, level, position, trail, frames, unassigned,
                   unflushed, undo>>

\* Mutant: the scan starts at the newest frame.
BacktrackStartTop(new) ==
    /\ ~ undo.active
    /\ new < CurrentLevel
    /\ frames' = SubSeq(frames, 1, new)
    /\ LET end == frames[CurrentLevel].trail IN undo' = Loop(new, end, end, end)
    /\ UNCHANGED <<values, level, position, trail, propagate, unassigned,
                   unflushed>>

\* kissat_backtrack_without_updating_phases, up to its loop: cut the frames.
BacktrackStart(new) ==
    /\ ~ undo.active
    /\ new < CurrentLevel
    /\ frames' = SubSeq(frames, 1, new)
    /\ LET end == frames[new + 1].trail IN undo' = Loop(new, end, end, end)
    /\ UNCHANGED <<values, level, position, trail, propagate, unassigned,
                   unflushed>>

\* One iteration on a literal of a level that stays: it slides down to q.
BacktrackKeep ==
    /\ undo.active
    /\ undo.p < Len(trail)
    /\ LET lit == trail[undo.p + 1] IN
         /\ LevelOf(lit) <= undo.to
         /\ trail' = [trail EXCEPT ![undo.q + 1] = lit]
         /\ position' = [position EXCEPT ![Idx(lit)] = undo.q]
    /\ undo' = Loop(undo.to, undo.from, undo.p + 1, undo.q + 1)
    /\ UNCHANGED <<values, level, propagate, frames, unassigned, unflushed>>

\* Mutant: the variable is not counted.
BacktrackUnassignUncounted ==
    /\ undo.active
    /\ undo.p < Len(trail)
    /\ LET lit == trail[undo.p + 1] IN
         /\ LevelOf(lit) > undo.to
         /\ values' = [values EXCEPT ![lit] = 0, ![-lit] = 0]
    /\ undo' = Loop(undo.to, undo.from, undo.p + 1, undo.q)
    /\ UNCHANGED <<level, position, trail, propagate, frames, unassigned, unflushed>>

\* One iteration on a literal above the new level: unassign.
BacktrackUnassign ==
    /\ undo.active
    /\ undo.p < Len(trail)
    /\ LET lit == trail[undo.p + 1] IN
         /\ LevelOf(lit) > undo.to
         /\ values' = [values EXCEPT ![lit] = 0, ![-lit] = 0]
    /\ unassigned' = unassigned + 1
    /\ undo' = Loop(undo.to, undo.from, undo.p + 1, undo.q)
    /\ UNCHANGED <<level, position, trail, propagate, frames, unflushed>>

\* Mutant: kept literals are not propagated again.
BacktrackDoneSkips ==
    /\ undo.active
    /\ undo.p = Len(trail)
    /\ trail' = SubSeq(trail, 1, undo.q)
    /\ propagate' = undo.q
    /\ undo' = Idle
    /\ UNCHANGED <<values, level, position, frames, unassigned, unflushed>>

\* After the loop: cut the trail, and propagate the kept literals again.
BacktrackDone ==
    /\ undo.active
    /\ undo.p = Len(trail)
    /\ trail' = SubSeq(trail, 1, undo.q)
    /\ propagate' = undo.from
    /\ undo' = Idle
    /\ UNCHANGED <<values, level, position, frames, unassigned, unflushed>>

BacktrackStep == BacktrackKeep \/ BacktrackUnassign \/ BacktrackDone

\* kissat_flush_trail: forget the root units once they are propagated.
Flush ==
    /\ ~ undo.active
    /\ CurrentLevel = 0
    /\ unflushed > 0
    /\ propagate = Len(trail)
    /\ trail' = <<>>
    /\ propagate' = 0
    /\ unflushed' = 0
    /\ UNCHANGED <<values, level, position, frames, unassigned, undo>>

TrailNext ==
    \/ \E lit \in Lit : Decide(lit) \/ \E lvl \in 0 .. CurrentLevel : Assign(lit, lvl)
    \/ Advance
    \/ \E new \in 0 .. CurrentLevel : BacktrackStart(new)
    \/ BacktrackStep
    \/ Flush

TrailSpec == TrailInit /\ [][TrailNext]_trailVars

-----------------------------------------------------------------------------
TrailTypeOK ==
    /\ values \in [Lit -> {-1, 0, 1}]
    /\ level \in [Var -> Nat]
    /\ position \in [Var -> Nat]
    /\ trail \in Seq(Lit)
    /\ propagate \in 0 .. Len(trail)
    /\ frames \in Seq([decision : Lit, trail : Nat])
    /\ unassigned \in Nat
    /\ unflushed \in Nat
    /\ undo \in [active : BOOLEAN, to : Nat, from : Nat, p : Nat, q : Nat]

\* The slots of the trail that hold assignments: all of them, but while the
\* loop runs those between q and p are stale.
Live == IF undo.active THEN (1 .. undo.q) \cup (undo.p + 1 .. Len(trail))
                       ELSE 1 .. Len(trail)

\* Values of a literal and its negation agree, each live slot holds a true
\* literal, and the variable knows its slot; so no variable is on the trail
\* twice, also halfway through the in-place compaction.
SlotsTrue ==
    /\ \A l \in Lit : values[-l] = -values[l]
    /\ \A i \in Live : /\ values[trail[i]] = 1
                       /\ position[Idx(trail[i])] = i - 1

\* A variable assigned above the root is found where its position says.
\* Conflict analysis, which walks the trail by position, relies on it after
\* every backtrack that renumbered kept literals.
AssignedOnTrail ==
    \A v \in Var : (values[v] # 0 /\ level[v] > 0) =>
        /\ position[v] + 1 \in Live
        /\ Idx(trail[position[v] + 1]) = v

\* Frame k starts with its decision, and nothing before it has level k or
\* more: that is why backtracking to k - 1 may start its scan there, although
\* out-of-order literals make the trail unsorted.
FramesDelimitLevels ==
    \A k \in 1 .. Len(frames) : LET f == frames[k] IN
        /\ f.trail < (IF undo.active THEN undo.from ELSE Len(trail))
        /\ trail[f.trail + 1] = f.decision
        /\ level[Idx(f.decision)] = k
        /\ \A i \in 1 .. f.trail : level[Idx(trail[i])] < k
        /\ \A j \in 1 .. k - 1 : frames[j].trail < f.trail

\* Everything before the newest frame has been propagated, also after the
\* propagation index was set back.
PropagatedBelowFrames ==
    \A k \in 1 .. Len(frames) : frames[k].trail <= propagate

\* solver->unassigned is the number of unassigned variables: the test
\* "!solver->unassigned" of the search loop answers satisfiable.
UnassignedCounts == unassigned = Cardinality({v \in Var : values[v] = 0})

\* The assertion of kissat_flush_trail: at level zero the trail holds the
\* unflushed root units and nothing else, whatever was backtracked before.
OnlyUnitsAtRoot ==
    (CurrentLevel = 0 /\ ~ undo.active) => Len(trail) = unflushed

-----------------------------------------------------------------------------
\* The inductive invariant adds bounds of the loop and of the levels, and
\* counts root units by slot.
LoopBounds ==
    undo.active =>
        /\ undo.from <= undo.q
        /\ undo.q <= undo.p
        /\ undo.p <= Len(trail)
        /\ undo.to = Len(frames)

LevelBound ==
    \A i \in Live : (undo.active => i <= undo.q) =>
        level[Idx(trail[i])] <= Len(frames)

RootSlots == {i \in Live : level[Idx(trail[i])] = 0}
UnflushedCounts == unflushed = Cardinality(RootSlots)

TrailInv ==
    /\ TrailTypeOK
    /\ LoopBounds
    /\ SlotsTrue
    /\ AssignedOnTrail
    /\ FramesDelimitLevels
    /\ PropagatedBelowFrames
    /\ LevelBound
    /\ UnassignedCounts
    /\ UnflushedCounts

-----------------------------------------------------------------------------
\* The abstract stack: while the loop runs, the assignments above the new
\* level no longer count.
Abstract == {l \in Lit : values[l] = 1 /\ (undo.active => LevelOf(l) <= undo.to)}

Stack == INSTANCE Assignment WITH
            assigned <- [l \in Abstract |-> LevelOf(l)],
            depth <- Len(frames)

StackSpec == Stack!Spec

=============================================================================
