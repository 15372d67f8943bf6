---------------------------- MODULE Propagation ----------------------------
(***************************************************************************)
(* Unit propagation with two watched literals: proplit.h, propsearch.c,    *)
(* fastassign.h, assign.c and the clause and watch tables they work on.    *)
(*                                                                         *)
(* A large clause (three literals or more) lives in the arena and is       *)
(* watched in its first two literals; a binary clause exists only as two   *)
(* watches.  Each watch carries a blocking literal.  The loop over the     *)
(* watches of one literal is modelled one watch a step: visit.rest holds   *)
(* the watches it has not reached yet, watches[-visit.lit] those it kept,  *)
(* and visit.delayed the watches it will add at its end.                   *)
(***************************************************************************)
EXTENDS Trail, SequencesExt

CONSTANTS
    JumpReasons,            \* the option jumpreasons
    BigBig                  \* classification.bigbig, for the fast path

ASSUME OptionsAssumption == JumpReasons \in BOOLEAN /\ BigBig \in BOOLEAN

VARIABLES
    arena,                  \* the large clauses; a reference is an index
    watches,                \* solver->watches
    reason,                 \* assigned[idx].reason and .binary
    visit,                  \* locals of search_propagate_literal
    conflict,               \* the clause propagation or analysis returned
    lines                   \* proof lines written and not yet checked

clauseVars == <<arena, watches, reason, conflict>>

\* A proof line adds or deletes a clause (proof.c).
Added(C) == [add |-> TRUE, clause |-> C]
Deleted(C) == [add |-> FALSE, clause |-> C]

NewClause(lits, redundant) ==
    [lits |-> lits, redundant |-> redundant, garbage |-> FALSE, searched |-> 3]

BinaryWatch(blocking) == [binary |-> TRUE, blocking |-> blocking, ref |-> 0]
LargeWatch(blocking, ref) == [binary |-> FALSE, blocking |-> blocking, ref |-> ref]

\* Watch lists after watching the first two literals of a clause, a binary
\* clause (ref = 0) in place or a large one by reference.
Watched(ws, lits, ref) ==
    LET w(other) == IF ref = 0 THEN BinaryWatch(other) ELSE LargeWatch(other, ref)
    IN [ws EXCEPT ![lits[1]] = Append(@, w(lits[2])),
                  ![lits[2]] = Append(@, w(lits[1]))]

\* kissat_unwatch_blocking
Watches(w, ref) == ~ w.binary /\ w.ref = ref
Unwatched(ws, lit, ref) ==
    LET found == {i \in DOMAIN ws[lit] : Watches(ws[lit][i], ref)}
    IN [ws EXCEPT ![lit] = IF found = {} THEN @ ELSE RemoveAt(@, Min(found))]

\* DECISION_REASON, UNIT_REASON, or the other literal of a binary clause, or
\* a reference.
DecisionReason == [kind |-> "decision", other |-> 0, ref |-> 0]
UnitReason == [kind |-> "unit", other |-> 0, ref |-> 0]
BinaryReason(other) == [kind |-> "binary", other |-> other, ref |-> 0]
LargeReason(ref) == [kind |-> "large", other |-> 0, ref |-> ref]

\* A binary conflict is copied to solver->conflict and has no reference.
NoConflict == [ref |-> 0, lits |-> <<>>]
BinaryConflict(a, b) == [ref |-> 0, lits |-> <<a, b>>]
LargeConflict(ref) == [ref |-> ref, lits |-> <<>>]
LitsOf(c) == IF c.ref = 0 THEN c.lits ELSE arena[c.ref].lits

NoDelayed == [l \in Lit |-> <<>>]
NoVisit == [lit |-> 0, rest |-> <<>>, delayed |-> NoDelayed]

LevelsOf(lits) == {LevelOf(l) : l \in lits}

-----------------------------------------------------------------------------
PropagationInit ==
    /\ reason = [v \in Var |-> UnitReason]
    /\ visit = NoVisit
    /\ conflict = NoConflict
    /\ lines = <<>>

\* Mutant: only units found at level zero reach the proof.
AssignReasonUnitsAtRoot(lit, lvl, why) ==
    /\ Assign(lit, lvl)
    /\ reason' = [reason EXCEPT ![Idx(lit)] = IF lvl = 0 THEN UnitReason ELSE why]
    /\ lines' = IF CurrentLevel = 0 THEN Append(lines, Added({lit})) ELSE lines

\* kissat_assign with a reason: at the root the literal becomes a unit of the
\* proof, and its reason is forgotten.
AssignReason(lit, lvl, why) ==
    /\ Assign(lit, lvl)
    /\ reason' = [reason EXCEPT ![Idx(lit)] = IF lvl = 0 THEN UnitReason ELSE why]
    /\ lines' = IF lvl = 0 THEN Append(lines, Added({lit})) ELSE lines

\* The reason of a literal forced by a binary clause skips over the binary
\* reason of the other literal.
Jumped(other, jumping) ==
    LET why == reason[Idx(other)] IN
    IF jumping /\ LevelOf(other) > 0 /\ why.kind = "binary" THEN why.other ELSE other

\* kissat_assign_binary and kissat_assign_reference
AssignBinary(lit, other) ==
    AssignReason(lit, LevelOf(other), BinaryReason(Jumped(other, JumpReasons)))

AssignReference(lit, ref) ==
    LET others == ToSet(arena[ref].lits) \ {lit} IN
    AssignReason(lit, Max(LevelsOf(others)), LargeReason(ref))

-----------------------------------------------------------------------------
\* search_propagate_literal on the next literal of the trail.
VisitStart ==
    /\ visit = NoVisit
    /\ Advance
    /\ LET lit == trail[propagate + 1] IN
         /\ visit' = [lit |-> lit, rest |-> watches[-lit], delayed |-> NoDelayed]
         /\ watches' = [watches EXCEPT ![-lit] = <<>>]
    /\ UNCHANGED <<arena, reason, conflict, lines>>

\* The watch under the loop's pointer p, and the value of its blocking literal.
Visiting == visit.lit # 0 /\ visit.rest # <<>>
Watch == Head(visit.rest)
Blocking == values[Watch.blocking]

\* The large clause of that watch, and its other watched literal.
Visited == arena[Watch.ref]
Other == IF Visited.lits[1] = -visit.lit THEN Visited.lits[2] ELSE Visited.lits[1]
LargeVisit == Visiting /\ Blocking <= 0 /\ ~ Watch.binary
LiveVisit == LargeVisit /\ ~ Visited.garbage /\ values[Other] <= 0

\* Positions of a literal that can replace the false one.  The search starts
\* where the last one ended and wraps around.
Replacements == {i \in 3 .. Len(Visited.lits) : values[Visited.lits[i]] >= 0}
Replacement ==
    LET ahead == {i \in Replacements : i >= Visited.searched}
    IN Min(IF ahead # {} THEN ahead ELSE Replacements)

NextWatch == visit' = [visit EXCEPT !.rest = Tail(@)]
Keep(w) == watches' = [watches EXCEPT ![-visit.lit] = Append(@, w)]

\* Leave the loop: the rest of the watches stays, and the delayed ones are
\* pushed (kissat_watch_large_delayed).
Leave ==
    /\ watches' = [l \in Lit |->
           watches[l] \o (IF l = -visit.lit THEN visit.rest ELSE <<>>) \o visit.delayed[l]]
    /\ visit' = NoVisit

VisitBlocked ==
    /\ Visiting
    /\ Blocking > 0
    /\ Keep(Watch)
    /\ NextWatch
    /\ UNCHANGED <<trailVars, arena, reason, conflict, lines>>

VisitBinary ==
    /\ Visiting
    /\ Watch.binary
    /\ \/ /\ Blocking < 0
          /\ conflict' = BinaryConflict(-visit.lit, Watch.blocking)
          /\ Leave
          /\ UNCHANGED <<trailVars, reason, lines>>
       \/ /\ Blocking = 0
          /\ AssignReason(Watch.blocking, LevelOf(visit.lit),
                 BinaryReason(Jumped(-visit.lit, JumpReasons /\ BigBig)))
          /\ Keep(Watch)
          /\ NextWatch
          /\ UNCHANGED conflict
    /\ UNCHANGED arena

\* A garbage clause loses its watch; a true one gets a better blocking literal.
VisitGarbage ==
    /\ LargeVisit
    /\ Visited.garbage
    /\ NextWatch
    /\ UNCHANGED <<trailVars, arena, watches, reason, conflict, lines>>

VisitSatisfied ==
    /\ LargeVisit
    /\ ~ Visited.garbage
    /\ values[Other] > 0
    /\ Keep(LargeWatch(Other, Watch.ref))
    /\ NextWatch
    /\ UNCHANGED <<trailVars, arena, reason, conflict, lines>>

VisitReplace ==
    /\ LiveVisit
    /\ Replacements # {}
    /\ LET r == Replacement
           found == Visited.lits[r]
       IN /\ arena' = [arena EXCEPT
                ![Watch.ref].lits = [@ EXCEPT ![1] = Other, ![2] = found, ![r] = -visit.lit],
                ![Watch.ref].searched = r]
          /\ visit' = [visit EXCEPT !.rest = Tail(@),
                !.delayed[found] = Append(@, LargeWatch(Other, Watch.ref))]
    /\ UNCHANGED <<trailVars, watches, reason, conflict, lines>>

VisitConflict ==
    /\ LiveVisit
    /\ Replacements = {}
    /\ values[Other] < 0
    /\ conflict' = LargeConflict(Watch.ref)
    /\ Leave
    /\ UNCHANGED <<trailVars, arena, reason, lines>>

VisitForce ==
    /\ LiveVisit
    /\ Replacements = {}
    /\ values[Other] = 0
    /\ AssignReference(Other, Watch.ref)
    /\ Keep(Watch)
    /\ NextWatch
    /\ UNCHANGED <<arena, conflict>>

VisitEnd ==
    /\ visit.lit # 0
    /\ visit.rest = <<>>
    /\ Leave
    /\ UNCHANGED <<trailVars, arena, reason, conflict, lines>>

PropagateStep ==
    \/ VisitStart \/ VisitBlocked \/ VisitBinary \/ VisitGarbage
    \/ VisitSatisfied \/ VisitReplace \/ VisitConflict \/ VisitForce \/ VisitEnd

\* Mutant: the last literal's watches may still be unvisited.
PropagatedQueue == propagate = Len(trail)

\* All literals on the trail are propagated.
Propagated == visit = NoVisit /\ propagate = Len(trail)

-----------------------------------------------------------------------------
PropagationTypeOK ==
    /\ arena \in Seq([lits : Seq(Lit), redundant : BOOLEAN,
                      garbage : BOOLEAN, searched : Nat])
    /\ watches \in [Lit -> Seq([binary : BOOLEAN, blocking : Lit, ref : Nat])]
    /\ reason \in [Var -> [kind : {"decision", "unit", "binary", "large"},
                           other : Lit \cup {0}, ref : Nat]]
    /\ conflict \in [ref : 0 .. Len(arena), lits : Seq(Lit)]
    /\ visit.lit \in Lit \cup {0}
    /\ lines \in Seq([add : BOOLEAN, clause : Clause])

References == DOMAIN arena
LiveReferences == {r \in References : ~ arena[r].garbage}

\* Every clause the solver works with: what the watch lists and the arena hold.
BinaryWatches(l) == {w \in ToSet(watches[l]) : w.binary}
Binaries == UNION {{{l, w.blocking} : w \in BinaryWatches(l)} : l \in Lit}
Database == Binaries \cup {ToSet(arena[r].lits) : r \in LiveReferences}

\* Each live large clause is watched once in each of its first two literals
\* and nowhere else, with a blocking literal of its own; a binary clause is
\* watched from both sides.  Removing a watch that is not there would cut an
\* unrelated one off the list (kissat_remove_blocking_watch).
WatchesMatch ==
    visit = NoVisit =>
        /\ \A l \in Lit, r \in LiveReferences :
             LET ws == SelectSeq(watches[l], LAMBDA w : ~ w.binary /\ w.ref = r)
             IN IF l \in {arena[r].lits[1], arena[r].lits[2]}
                  THEN Len(ws) = 1 /\ ws[1].blocking \in ToSet(arena[r].lits) \ {l}
                  ELSE ws = <<>>
        /\ \A l, k \in Lit :
             Len(SelectSeq(watches[l], LAMBDA w : w = BinaryWatch(k)))
               = Len(SelectSeq(watches[k], LAMBDA w : w = BinaryWatch(l)))

=============================================================================
