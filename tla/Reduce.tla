------------------------------- MODULE Reduce -------------------------------
(***************************************************************************)
(* Reduction of the learned clauses and the sparse garbage collection that *)
(* follows: reduce.c, collect.c, trail.c and sort.c.                       *)
(*                                                                         *)
(* The collector compacts the arena while literals are assigned above the  *)
(* root, so it renames the references held by reasons and watches.  The    *)
(* renumbering of variables (compact.c) is in Preprocessing.               *)
(***************************************************************************)
EXTENDS Search

CONSTANT MaxReductions      \* bound: the reductions of a run

ASSUME MaxReductionsAssumption == MaxReductions \in Nat

VARIABLE reductions         \* reductions so far

reduceVars == <<searchVars, reductions>>

ReduceClauses == [op |-> "reduce"]

Fixed(l) == IF values[l] # 0 /\ LevelOf(l) = 0 THEN values[l] ELSE 0

Redundants == {r \in LiveReferences : arena[r].redundant}

\* Reasons marked by kissat_mark_reason_clauses from the reference start on.
MarkedReasons(start) ==
    {reason[Idx(trail[i])].ref : i \in {i \in DOMAIN trail :
        LET why == reason[Idx(trail[i])] IN why.kind = "large" /\ why.ref >= start}}

-----------------------------------------------------------------------------
\* flush_all_watched_clauses: binary clauses satisfied at the root go, and so
\* do the watches of fixed literals and of the clauses from start on.
SatisfiedBinary(l, w) == w.binary /\ (Fixed(l) > 0 \/ Fixed(w.blocking) > 0)

\* Mutant: the watches of the first moved clause stay.
FlushedWatchesOff(start) ==
    [l \in Lit |-> SelectSeq(watches[l], LAMBDA w :
        IF w.binary THEN ~ SatisfiedBinary(l, w) ELSE Fixed(l) = 0 /\ w.ref <= start)]

FlushedWatches(start) ==
    [l \in Lit |-> SelectSeq(watches[l], LAMBDA w :
        IF w.binary THEN ~ SatisfiedBinary(l, w) ELSE Fixed(l) = 0 /\ w.ref < start)]

\* Each such binary clause is deleted from the proof on its smaller side.
DeletedBinaries ==
    FoldSet(LAMBDA l, ls : ls \o
               LET gone == SelectSeq(watches[l], LAMBDA w :
                               SatisfiedBinary(l, w) /\ l < w.blocking)
               IN [i \in DOMAIN gone |-> Deleted({l, gone[i].blocking})],
            <<>>, Lit)

-----------------------------------------------------------------------------
\* sparse_sweep_garbage_clauses: what becomes of the clauses from start on.
KeptLits(c) == SelectSeq(c.lits, LAMBDA l : Fixed(l) = 0)
SatisfiedAtRoot(c) == \E l \in ToSet(c.lits) : Fixed(l) > 0
Survives(c) == ~ c.garbage /\ ~ SatisfiedAtRoot(c)
BecomesBinary(c) == Survives(c) /\ Len(KeptLits(c)) = 2

\* Mutant: a clause that loses literals is not deleted.
SweepLinesNoDelete(c) ==
    IF c.garbage THEN <<>>
    ELSE IF SatisfiedAtRoot(c) THEN <<Deleted(ToSet(c.lits))>>
    ELSE IF KeptLits(c) = c.lits THEN <<>> ELSE <<Added(ToSet(KeptLits(c)))>>

\* The proof lines of one clause: nothing for garbage, whose deletion was
\* written when it became garbage.
SweepLines(c) ==
    CASE c.garbage -> <<>>
      [] ~ c.garbage /\ SatisfiedAtRoot(c) -> <<Deleted(ToSet(c.lits))>>
      [] Survives(c) /\ KeptLits(c) = c.lits -> <<>>
      [] OTHER -> <<Added(ToSet(KeptLits(c))), Deleted(ToSet(c.lits))>>

\* Marking a clause as garbage deletes it from the proof.
MarkLines(clauses) ==
    LET fresh == SelectSeq([r \in References |-> r],
                    LAMBDA r : clauses[r].garbage /\ ~ arena[r].garbage)
    IN [i \in DOMAIN fresh |-> Deleted(ToSet(arena[fresh[i]].lits))]

\* The old references of the clauses that stay large, in their new order:
\* move_redundant_clauses_to_the_end puts redundant ones last.
NewOrder(clauses, start) ==
    LET refs == [r \in DOMAIN clauses |-> r]
        Stays(r) == r >= start /\ Survives(clauses[r]) /\ ~ BecomesBinary(clauses[r])
    IN SelectSeq(refs, LAMBDA r : r < start)
       \o SelectSeq(refs, LAMBDA r : Stays(r) /\ ~ clauses[r].redundant)
       \o SelectSeq(refs, LAMBDA r : Stays(r) /\ clauses[r].redundant)

\* move_smallest_literal_to_front: an unassigned literal, or a true one when
\* that is enough; else the true one of lowest or the false one of highest level.
Front1(lits, i, enough) ==
    LET places == i .. Len(lits)
        good == {j \in places : values[lits[j]] = 0 \/ (enough /\ values[lits[j]] > 0)}
        true == {j \in places : values[lits[j]] > 0}
        low == {j \in true : \A k \in true : LevelOf(lits[j]) <= LevelOf(lits[k])}
    IN Swapped(lits, i, IF good # {} THEN Min(good)
                        ELSE IF true # {} THEN Min(low) ELSE Highest(lits, i))

SortLiterals(lits) ==
    LET first == Front1(lits, 1, FALSE)
    IN Front1(first, 2, values[first[1]] >= 0)

Resettled(c) == [c EXCEPT !.lits = SortLiterals(KeptLits(c)), !.searched = 3]

\* The arena after the sweep: the clauses before start, and those that stay
\* large, one after the other.
Swept(clauses, order, start) ==
    [i \in DOMAIN order |-> IF i < start THEN clauses[i]
                                         ELSE Resettled(clauses[order[i]])]

\* rewatch_clauses on the clauses from start on.
Rewatched(ws, clauses, start) ==
    FoldLeftDomain(LAMBDA acc, r : IF r < start THEN acc
                                   ELSE Watched(acc, clauses[r].lits, r), ws, clauses)

\* Mutant: reasons keep their old references.
MovedReasonStays(v, clauses, order, start) == reason[v]

\* update_large_reason, and a reason that becomes binary.
MovedReason(v, clauses, order, start) ==
    LET why == reason[v]
        lits == KeptLits(clauses[why.ref])
    IN IF why.kind # "large" \/ why.ref < start \/ values[v] = 0 THEN why
       ELSE IF BecomesBinary(clauses[why.ref])
         THEN BinaryReason(CHOOSE l \in ToSet(lits) : values[l] < 0)
         ELSE LargeReason(CHOOSE i \in DOMAIN order : order[i] = why.ref)

\* kissat_reset_last_learned
LastLearnedReset == <<>>

\* kissat_sparse_collect, given the arena with its garbage marked.
SparseCollect(clauses, start) ==
    LET order == NewOrder(clauses, start)
        swept == SelectSeq([r \in DOMAIN clauses |-> r], LAMBDA r : r >= start)
        binaries == SelectSeq(swept, LAMBDA r : BecomesBinary(clauses[r]))
        binaryWatched == FoldLeft(LAMBDA ws, r : Watched(ws, KeptLits(clauses[r]), 0),
                                  FlushedWatches(start), binaries)
    IN /\ arena' = Swept(clauses, order, start)
       /\ watches' = Rewatched(binaryWatched, arena', start)
       /\ reason' = [v \in Var |-> MovedReason(v, clauses, order, start)]
       /\ lastLearned' = LastLearnedReset
       /\ lines' = lines
              \o MarkLines(clauses) \o DeletedBinaries
              \o FlattenSeq([i \in DOMAIN swept |-> SweepLines(clauses[swept[i]])])

-----------------------------------------------------------------------------
\* kissat_reduce: with units on the trail it backtracks to the root, to
\* propagate and flush them first.
Reduce ==
    /\ Ready
    /\ unassigned > 0
    /\ reductions < MaxReductions
    /\ Redundants # {}
    /\ reductions' = reductions + 1
    /\ todo' = (IF unflushed > 0 THEN <<Backtrack(0), RestartPropagation>> ELSE <<>>)
                  \o <<ReduceClauses>>
    /\ UNCHANGED <<analysisVars, trailVars, clauseVars, visit, lines, loopVars>>

\* ... without a conflict (kissat_backtrack_propagate_and_flush_trail).
DoRestartPropagation ==
    /\ Doing("propagate")
    /\ conflict = NoConflict
    /\ Flushed
    /\ Done
    /\ UNCHANGED <<analysisVars, trailVars, clauseVars, visit, lines, loopVars, reductions>>

\* The rest of kissat_reduce.  start is first_reducible, or the first clause
\* when compacting: no redundant clause comes before it.  How many of the
\* reducible clauses go, and which, depends on glue, size and use.
DoReduceClauses ==
    /\ Doing("reduce")
    /\ \E start \in {s \in References : \A r \in References :
                          arena[r].redundant => s <= r} :
         LET reducible == {r \in Redundants : r >= start} \ MarkedReasons(start)
         IN \/ /\ reducible = {}
               /\ UNCHANGED <<clauseVars, lines, lastLearned>>
            \/ /\ \E gone \in SUBSET reducible :
                     SparseCollect([r \in References |->
                         [arena[r] EXCEPT !.garbage = @ \/ r \in gone]], start)
               /\ UNCHANGED conflict
    /\ Done
    /\ UNCHANGED <<analysisVars, trailVars, visit, reductions, mayRestart, result, formula, db>>

ReduceInit == SearchInit /\ reductions = 0

ReduceNext ==
    \/ SearchNext /\ UNCHANGED reductions
    \/ /\ lines = <<>>
       /\ ~ undo.active
       /\ Reduce \/ DoRestartPropagation \/ DoReduceClauses

ReduceSpec == ReduceInit /\ [][ReduceNext]_reduceVars

-----------------------------------------------------------------------------
\* The collector leaves no garbage and no trace of it: the clauses keep the
\* references by which they are watched, and no recently learned clause is
\* remembered that is gone (kissat_reset_last_learned).
CollectedReferences ==
    /\ ToSet(lastLearned) \subseteq References
    /\ (Quiet /\ visit = NoVisit) =>
         \A l \in Lit : \A w \in ToSet(watches[l]) :
             ~ w.binary => w.ref \in References /\ l \in ToSet(arena[w.ref].lits)

=============================================================================
