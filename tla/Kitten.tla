------------------------------- MODULE Kitten -------------------------------
(***************************************************************************)
(* The sub-solver (kitten.c): an incremental solver with assumptions that  *)
(* records the antecedents of what it learns, so that a clausal core can   *)
(* be extracted, and that flips literals of the model it found.            *)
(*                                                                         *)
(* A kitten is one record, like the struct.  A reference is the position   *)
(* of a clause in the arena, 0 is INVALID.  Imported variables keep their  *)
(* names.  The queue is its list from first to last; a stamp is a place in *)
(* it.  value has the true literals; unassigned is the number of others.   *)
(***************************************************************************)
EXTENDS UnitPropagation, TLC

NoKitten ==
    [status |-> 0, clauses |-> <<>>, watches |-> <<>>, units |-> <<>>,
     queue |-> <<>>, search |-> 0, phases |-> {}, value |-> {}, level |-> <<>>,
     reason |-> <<>>, trail |-> <<>>, propagated |-> 0, depth |-> 0, conflict |-> 0,
     assumptions |-> <<>>, failed |-> {}, inconsistent |-> 0, failing |-> 0,
     core |-> <<>>]

Klause(k, ref) == k.clauses[ref].lits
IsFalse(k, l) == -l \in k.value
Unassigned(k) == {v \in ToSet(k.queue) : {v, -v} \cap k.value = {}}
Place(k, v) == CHOOSE n \in DOMAIN k.queue : k.queue[n] = v

\* The last of the variables S and the search position.
UpdateSearch(k, S) ==
    [k EXCEPT !.search = k.queue[Max({Place(k, v) : v \in S \cup {@}})]]

\* unassign: a literal of the trail may have been flipped.
Unassign(k, L) ==
    LET vars == {Abs(l) : l \in L}
    IN IF L = {} THEN k ELSE UpdateSearch([k EXCEPT !.value = @ \ (L \cup Neg(L))], vars)

-----------------------------------------------------------------------------
(***************************************************************************)
(* Clauses.                                                                *)
(***************************************************************************)
ImportVariable(k, v) ==
    IF v \in ToSet(k.queue) THEN k
    ELSE [k EXCEPT !.queue = Append(@, v), !.search = v,
                   !.watches = @ @@ [l \in {v, -v} |-> <<>>], !.phases = @ \cup {v},
                   !.level = @ @@ [i \in {v} |-> 0], !.reason = @ @@ [i \in {v} |-> 0]]

Watch(k, l, blit, ref) ==
    [k EXCEPT !.watches[l] = Append(@, [blit |-> blit, ref |-> ref])]

\* connect_new_klause
Connect(k, ref) ==
    LET c == Klause(k, ref)
    IN CASE c = <<>> -> [k EXCEPT !.inconsistent = IF @ = 0 THEN ref ELSE @]
         [] Len(c) = 1 -> [k EXCEPT !.units = Append(@, ref)]
         [] OTHER -> Watch(Watch(k, c[1], c[2], ref), c[2], c[1], ref)

PutKlause(k, lits, learned, antecedents) ==
    Connect([k EXCEPT !.clauses = Append(@, [lits |-> lits, learned |-> learned,
                                        antecedents |-> antecedents])],
            Len(k.clauses) + 1)

NewLearned(k, lits, antecedents) == PutKlause(k, lits, TRUE, antecedents)

Others(k, ref, l) == SelectSeq(Klause(k, ref), LAMBDA o : o # l)
ReasonsOf(k, lits) == MapSeq(LAMBDA l : k.reason[Abs(l)], lits)

\* Mutant: the learned unit forgets the reasons of the other literals.
AssignKittenBare(k, l, ref) ==
    LET a == [k EXCEPT !.value = @ \cup {l}, !.trail = Append(@, l),
                       !.phases = (@ \ {Abs(l)}) \cup (IF l > 0 THEN {l} ELSE {}),
                       !.level[Abs(l)] = k.depth, !.reason[Abs(l)] = ref]
    IN IF k.depth = 0 /\ Len(Klause(k, ref)) > 1
         THEN NewLearned([a EXCEPT !.reason[Abs(l)] = Len(k.clauses) + 1], <<l>>, <<ref>>)
       ELSE a

\* At the root the reason becomes a learned unit.
AssignKitten(k, l, ref) ==
    LET a == [k EXCEPT !.value = @ \cup {l}, !.trail = Append(@, l),
                       !.phases = (@ \ {Abs(l)}) \cup (IF l > 0 THEN {l} ELSE {}),
                       !.level[Abs(l)] = k.depth, !.reason[Abs(l)] = ref]
    IN IF k.depth = 0 /\ Len(Klause(k, ref)) > 1
         THEN NewLearned([a EXCEPT !.reason[Abs(l)] = Len(k.clauses) + 1], <<l>>,
                         <<ref>> \o ReasonsOf(k, Others(k, ref, l)))
       ELSE a

-----------------------------------------------------------------------------
(***************************************************************************)
(* Propagation.  The blocking literal of a watch is the other watch of the *)
(* time when it was made; the other one may have moved on since.           *)
(***************************************************************************)
OtherWatch(c, l) == IF c[1] = l THEN c[2] ELSE c[1]

\* The watch of l moves to position n.
Rewatch(k, ref, l, n) ==
    LET c == Klause(k, ref)
        other == OtherWatch(c, l)
    IN Watch([k EXCEPT !.clauses[ref].lits =
                 [c EXCEPT ![1] = other, ![2] = c[n], ![n] = l]], c[n], other, ref)

\* Mutant: a blocking literal that is not false is enough.
VisitWatchBlocked(r, l, w) ==
    LET k == r.k
        c == Klause(k, w.ref)
        other == OtherWatch(c, l)
        open == {n \in 3 .. Len(c) : ~ IsFalse(k, c[n])}
        keep == [r EXCEPT !.kept = Append(@, w)]
    IN IF k.conflict # 0 \/ ~ IsFalse(k, w.blit) THEN keep
       ELSE IF open # {} THEN [r EXCEPT !.k = Rewatch(k, w.ref, l, Min(open))]
       ELSE IF IsFalse(k, other) THEN [keep EXCEPT !.k.conflict = w.ref]
       ELSE [keep EXCEPT !.k = AssignKitten(k, other, w.ref)]

\* One watch w of the literal l that became false; r: the kitten and the
\* watches that stay.
VisitWatch(r, l, w) ==
    LET k == r.k
        c == Klause(k, w.ref)
        other == OtherWatch(c, l)
        open == {n \in 3 .. Len(c) : ~ IsFalse(k, c[n])}
        keep == [r EXCEPT !.kept = Append(@, w)]
    IN IF k.conflict # 0 \/ w.blit \in k.value THEN keep
       ELSE IF other \in k.value THEN [r EXCEPT !.kept = Append(@, [w EXCEPT !.blit = other])]
       ELSE IF open # {} THEN [r EXCEPT !.k = Rewatch(k, w.ref, l, Min(open))]
       ELSE IF IsFalse(k, other) THEN [keep EXCEPT !.k.conflict = w.ref]
       ELSE [keep EXCEPT !.k = AssignKitten(k, other, w.ref)]

PropagateLiteral(k, l) ==
    LET r == FoldLeft(LAMBDA q, w : VisitWatch(q, -l, w), [k |-> k, kept |-> <<>>],
                      k.watches[-l])
    IN [r.k EXCEPT !.watches[-l] = r.kept, !.propagated = @ + 1]

RECURSIVE PropagateKitten(_)
PropagateKitten(k) ==
    IF k.conflict # 0 \/ k.propagated = Len(k.trail) THEN k
    ELSE PropagateKitten(PropagateLiteral(k, k.trail[k.propagated + 1]))

-----------------------------------------------------------------------------
(***************************************************************************)
(* Analysis.                                                               *)
(***************************************************************************)
\* Unmarked literals of a clause are marked in its order.
MarkNew(marks, lits) ==
    FoldLeft(LAMBDA m, l : IF Abs(l) \in ToSet(m) THEN m ELSE Append(m, Abs(l)), marks, lits)

\* a: the marked variables, the clauses resolved, the literals of the current
\* level that are open, and the one that is left.
ResolveOn(k, a, ref) ==
    LET marks == MarkNew(a.marks, Klause(k, ref))
        new == SubSeq(marks, Len(a.marks) + 1, Len(marks))
    IN [a EXCEPT !.marks = marks, !.resolved = Append(@, ref),
                 !.open = @ + Len(SelectSeq(new, LAMBDA v : k.level[v] = k.depth))]

ScanTrail(k, a, l) ==
    IF a.uip # 0 \/ Abs(l) \notin ToSet(a.marks) THEN a
    ELSE IF a.open = 1 THEN [a EXCEPT !.uip = l]
    ELSE ResolveOn(k, [a EXCEPT !.open = @ - 1], k.reason[Abs(l)])

FalseLiteral(k, v) == IF v \in k.value THEN -v ELSE v

Backtrack(k, jump) ==
    LET gone == {l \in ToSet(k.trail) : k.level[Abs(l)] > jump}
        trail == SelectSeq(k.trail, LAMBDA l : l \notin gone)
    IN Unassign([k EXCEPT !.trail = trail, !.propagated = Len(trail), !.depth = jump,
                          !.conflict = 0], gone)

MoveToFront(k, v) ==
    [k EXCEPT !.queue = Append(SelectSeq(@, LAMBDA o : o # v), v)]

\* A variable of the jump level is kept in front.
Deepest(k, c, v) ==
    IF c # <<>> /\ k.level[v] > k.level[Head(c)] THEN <<v>> \o Tail(c) \o <<Head(c)>>
    ELSE Append(c, v)

\* The first unique implication point; a literal of the jump level comes next.
Analyze(k) ==
    LET start == [marks |-> <<>>, resolved |-> <<>>, open |-> 0, uip |-> 0]
        a == FoldLeft(LAMBDA q, l : ScanTrail(k, q, l), ResolveOn(k, start, k.conflict),
                      Reverse(k.trail))
        below == SelectSeq(a.marks, LAMBDA v : k.level[v] < k.depth)
        jump == Max({k.level[v] : v \in ToSet(below)} \cup {0})
        ordered == FoldLeft(LAMBDA c, v : Deepest(k, c, v), <<>>, below)
        lits == <<-a.uip>> \o MapSeq(LAMBDA v : FalseLiteral(k, v), ordered)
        learned == NewLearned(FoldLeft(MoveToFront, k, a.marks), lits, a.resolved)
    IN AssignKitten(Backtrack(learned, jump), -a.uip, Len(learned.clauses))

\* inconsistent: a falsified clause at the root, down to the units.
RECURSIVE RootReasons(_, _)
RootReasons(k, refs) ==
    LET next == UNION {{k.reason[Abs(l)] : l \in ToSet(Klause(k, ref))} : ref \in ToSet(refs)}
        new == next \ ToSet(refs)
    IN IF new = {} THEN refs ELSE RootReasons(k, refs \o SetToSortSeq(new, <))

RootConflict(k, ref) == NewLearned(k, <<>>, RootReasons(k, <<ref>>))

\* Final analysis: the failed assumption, and those it depends on.
RECURSIVE Dependencies(_, _)
Dependencies(k, V) ==
    LET above == {v \in V : k.level[v] > 0 /\ k.reason[v] # 0}
        next == V \cup UNION {{Abs(l) : l \in ToSet(Klause(k, k.reason[v]))} : v \in above}
    IN IF next = V THEN V ELSE Dependencies(k, next)

DeeperFirst(k, V) ==
    SelectSeq(Reverse(k.trail), LAMBDA l : Abs(l) \in V /\ k.level[Abs(l)] > 0)

FailingClause(k, failed) ==
    LET V == Dependencies(k, {Abs(failed)})
        trail == DeeperFirst(k, V)
        root == SetToSeq({v \in V : k.level[v] = 0})
        decided == SelectSeq(trail, LAMBDA l : k.reason[Abs(l)] = 0)
        implied == SelectSeq(trail, LAMBDA l : k.reason[Abs(l)] # 0)
        resolved == ReasonsOf(k, implied) \o ReasonsOf(k, root)
        lits == <<-failed>> \o MapSeq(LAMBDA l : -l, decided)
        marked == [k EXCEPT !.failed = @ \cup {failed} \cup ToSet(decided)]
    IN IF Len(resolved) = 1 THEN [marked EXCEPT !.failing = resolved[1]]
       ELSE [NewLearned(marked, lits, resolved) EXCEPT !.failing = Len(k.clauses) + 1]

Failing(k) ==
    LET falsified == SelectSeq(k.assumptions, LAMBDA l : IsFalse(k, l))
        unit == SelectSeq(falsified, LAMBDA l : k.level[Abs(l)] = 0)
        clashing == SelectSeq(falsified, LAMBDA l : k.reason[Abs(l)] = 0)
    IN IF unit # <<>>
         THEN [k EXCEPT !.failed = @ \cup {unit[1]}, !.failing = k.reason[Abs(unit[1])]]
       ELSE IF clashing # <<>>
         THEN [k EXCEPT !.failed = @ \cup {clashing[1], -clashing[1]}]
       ELSE FailingClause(k, falsified[1])

-----------------------------------------------------------------------------
(***************************************************************************)
(* kitten_solve.                                                           *)
(***************************************************************************)
CompletelyBacktrack(k) ==
    LET units == {Klause(k, k.units[n])[1] : n \in DOMAIN k.units}
    IN Unassign([k EXCEPT !.trail = <<>>, !.propagated = 0, !.depth = 0, !.conflict = 0],
                ToSet(k.trail) \cup (units \cap k.value))

ResetAssumptions(k) ==
    [k EXCEPT !.assumptions = <<>>, !.failed = @ \ ToSet(k.assumptions), !.failing = 0]

ResetIncremental(k) ==
    LET r == ResetAssumptions(CompletelyBacktrack(k))
    IN [r EXCEPT !.status = 0, !.core = <<>>]

Incremental(k) == IF k.status = 0 THEN k ELSE ResetIncremental(k)

Finish(k, res) ==
    [IF res = 0 THEN ResetAssumptions(k) ELSE k EXCEPT !.status = res]

\* propagate_units, with the clash of two units as a conflict.
PropagateUnits(k) ==
    LET assign(q, ref) ==
          LET l == Klause(q, ref)[1] IN
            IF q.conflict # 0 \/ l \in q.value THEN q
            ELSE IF IsFalse(q, l) THEN [q EXCEPT !.conflict = ref]
            ELSE AssignKitten(q, l, ref)
    IN PropagateKitten(FoldLeft(assign, k, k.units))

\* Assumptions that hold already get a level of their own.
AssumeLevel(k) ==
    LET n == CHOOSE m \in k.depth .. Len(k.assumptions) :
                /\ \A i \in k.depth + 1 .. m : k.assumptions[i] \in k.value
                /\ m < Len(k.assumptions) => k.assumptions[m + 1] \notin k.value
    IN [k EXCEPT !.depth = n]

SearchFrom(k) ==
    LET n == Max({m \in 1 .. Place(k, k.search) : k.queue[m] \in Unassigned(k)})
    IN [k EXCEPT !.search = k.queue[n]]

DecideLiteral(k, l) == AssignKitten([k EXCEPT !.depth = @ + 1], l, 0)

DecideVariable(k) == DecideLiteral(k, IF k.search \in k.phases THEN k.search ELSE -k.search)

\* The loop of kitten_solve; limit is the number of decisions that are left.
RECURSIVE SolveLoop(_, _)
Decide(k, limit) ==
    LET flushed == IF k.depth = 0 THEN [k EXCEPT !.trail = <<>>, !.propagated = 0] ELSE k
        a == IF flushed.depth < Len(k.assumptions) THEN AssumeLevel(flushed) ELSE flushed
        next == a.assumptions[a.depth + 1]
        open == a.depth < Len(a.assumptions)
    IN IF open /\ IsFalse(a, next) THEN Finish(Failing(a), 20)
       ELSE IF Unassigned(a) = {} THEN Finish(a, 10)
       ELSE IF limit = 0 THEN Finish(a, 0)
       ELSE SolveLoop(IF open THEN DecideLiteral(a, next) ELSE DecideVariable(SearchFrom(a)),
                      limit - 1)

SolveLoop(k, limit) ==
    LET p == PropagateKitten(k)
    IN IF p.conflict = 0 THEN Decide(p, limit)
       ELSE IF p.depth > 0 THEN SolveLoop(Analyze(p), limit)
       ELSE Finish(RootConflict(p, p.conflict), 20)

Solve(k, limit) ==
    LET b == CompletelyBacktrack(k)
        p == PropagateUnits(IF k.status = 0 THEN b ELSE ResetIncremental(k))
    IN IF k.inconsistent # 0
         THEN Finish(IF k.status = 0 THEN b ELSE ResetIncremental(k), 20)
       ELSE SolveLoop(p, limit)

\* kitten_randomize_phases
RandomizePhases(k, P) == [k EXCEPT !.phases = P]

-----------------------------------------------------------------------------
(***************************************************************************)
(* The interface.                                                          *)
(***************************************************************************)
AddKlause(k, lits) ==
    PutKlause(FoldLeft(ImportVariable, Incremental(k), MapSeq(Abs, lits)), lits, FALSE, <<>>)

Assume(k, l) ==
    [ImportVariable(Incremental(k), Abs(l)) EXCEPT !.assumptions = Append(@, l)]

FixedLiteral(k, l) ==
    Abs(l) \in DOMAIN k.level /\ l \in k.value /\ k.level[Abs(l)] = 0

\* One watch of the true literal l that is to be flipped.
VisitFlip(r, l, w) ==
    LET k == r.k
        c == Klause(k, w.ref)
        true == {n \in 3 .. Len(c) : c[n] \in k.value}
        keep == [r EXCEPT !.kept = Append(@, w)]
    IN IF r.single \/ w.blit \in k.value \/ OtherWatch(c, l) \in k.value THEN keep
       ELSE IF true # {} THEN [r EXCEPT !.k = Rewatch(k, w.ref, l, Min(true))]
       ELSE [keep EXCEPT !.single = TRUE]

TrueLiteral(k, l) == IF l \in k.value THEN l ELSE -l

\* flip_literal: the kitten and whether the literal was flipped.
FlipLiteral(k, lit) ==
    LET l == TrueLiteral(k, lit)
        r == FoldLeft(LAMBDA q, w : VisitFlip(q, l, w),
                      [k |-> k, kept |-> <<>>, single |-> FALSE], k.watches[l])
        watched == [r.k EXCEPT !.watches[l] = r.kept]
    IN IF Abs(lit) \notin DOMAIN k.level \/ k.level[Abs(lit)] = 0
         THEN [k |-> k, flipped |-> FALSE]
       ELSE IF r.single THEN [k |-> watched, flipped |-> FALSE]
       ELSE [k |-> [watched EXCEPT !.value = (@ \ {l}) \cup {-l}], flipped |-> TRUE]

\* kitten_compute_clausal_core: antecedents come before what needs them.
RECURSIVE MarkCore(_, _)
MarkCore(k, ref) ==
    LET below == FoldLeft(MarkCore, k, Reverse(k.clauses[ref].antecedents))
    IN IF ref \in ToSet(k.core) THEN k ELSE [below EXCEPT !.core = Append(@, ref)]

ComputeCore(k) ==
    LET ref == IF k.inconsistent # 0 THEN k.inconsistent ELSE k.failing
    IN [IF ref = 0 THEN k ELSE MarkCore(k, ref) EXCEPT !.status = 21]

\* kitten_shrink_to_clausal_core keeps the original core clauses; a reference
\* to an original empty clause is kept as it is.
ShrinkToCore(k) ==
    LET kept == SelectSeq([ref \in DOMAIN k.clauses |-> ref],
                          LAMBDA ref : ref \in ToSet(k.core) /\ ~ k.clauses[ref].learned)
        empty == ~ k.clauses[k.inconsistent].learned
        cleared == [k EXCEPT !.status = 0, !.clauses = <<>>, !.core = <<>>, !.units = <<>>,
            !.trail = <<>>, !.propagated = 0, !.depth = 0, !.conflict = 0, !.value = {},
            !.search = Last(k.queue), !.inconsistent = IF empty THEN @ ELSE 0,
            !.watches = FoldSet(LAMBDA l, w : [w EXCEPT ![l] = <<>>], @, DOMAIN @)]
    IN FoldLeft(LAMBDA q, ref : PutKlause(q, Klause(k, ref), FALSE, <<>>), cleared, kept)

\* kitten_shuffle_clauses, for one of the orders it may choose.
Shuffle(k, reversed) ==
    LET Order(seq) == IF reversed THEN Reverse(seq) ELSE seq
        queue == Order(k.queue)
    IN [k EXCEPT !.queue = queue, !.search = Last(queue), !.units = Order(@),
                 !.watches = [l \in DOMAIN @ |-> Order(@[l])]]

=============================================================================
