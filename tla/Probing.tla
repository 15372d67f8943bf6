----------------------------- MODULE Probing ------------------------------
(***************************************************************************)
(* kissat_probing (probe.c): congruence closure and sweeping work on the   *)
(* formula of the solver, between the other passes.  Both keep a copy of   *)
(* it as their own until they leave.                                       *)
(***************************************************************************)
EXTENDS Congruence, Gates, Kitten

(***************************************************************************)
(* Sweeping (sweep.c): kitten solves the clauses around a variable, its    *)
(* models refine a backbone and a partition of candidates, and what is     *)
(* left is proved literal by literal and pair by pair.  The clauses of     *)
(* kitten's cores become proof lines, so that the units and equivalences   *)
(* they lead to are accepted.                                              *)
(*                                                                         *)
(* A sweeper is a record like the struct; repr is the union-find forest of *)
(* Gates, s the solver.  The variables of an environment are taken in      *)
(* their order, not in that of the watch lists.                            *)
(***************************************************************************)
VARIABLE sweeper

NoSweep ==
    [phase |-> "idle", remaining |-> <<>>, flagged |-> {}, incomplete |-> FALSE]

InOrder(s, V) == SelectSeq([i \in DOMAIN s.flags |-> i], LAMBDA i : i \in V)

-----------------------------------------------------------------------------
(***************************************************************************)
(* The schedule: the last variable comes first.                            *)
(***************************************************************************)
Watching(s, l) ==
    {c \in Present(s) : l \in c.lits /\ (Cardinality(c.lits) = 2 \/ ~ c.redundant)}
WatchCount(s, i) ==
    FoldSet(LAMBDA c, n : n + s.clauses[c], 0, Watching(s, i) \cup Watching(s, -i))

Schedulable(s, i) ==
    i \in Active(s) /\ Watching(s, i) # {} /\ Watching(s, -i) # {}

\* schedule_inner: a scheduled variable moves to the end.
ScheduleLast(schedule, i) == Append(SelectSeq(schedule, LAMBDA o : o # i), i)

\* reschedule_previously_remaining, and then all others by their occurrences.
ScheduleSweeping(w) ==
    LET again == SelectSeq(w.remaining, LAMBDA i : Schedulable(w.s, i))
        open == {i \in Active(w.s) \ ToSet(again) :
                   Schedulable(w.s, i) /\ (w.incomplete => i \in w.flagged)}
        fresh == SortSeq(InOrder(w.s, open), LAMBDA i, j :
                   \/ WatchCount(w.s, i) > WatchCount(w.s, j)
                   \/ /\ WatchCount(w.s, i) = WatchCount(w.s, j)
                      /\ i > j)
        flagged == (w.flagged \cap Active(w.s)) \ {i \in Active(w.s) : ~ Schedulable(w.s, i)}
        schedule == fresh \o again
    IN [w EXCEPT !.schedule = schedule, !.remaining = <<>>, !.incomplete = TRUE,
                 !.flagged = IF flagged = {} THEN ToSet(schedule) ELSE flagged]

\* unschedule_sweeping
Unschedule(w) ==
    LET flagged == w.flagged \cap Active(w.s)
    IN [NoSweep EXCEPT !.flagged = flagged, !.incomplete = flagged # {},
                       !.remaining = SelectSeq(w.schedule, LAMBDA i : i \in Active(w.s))]

-----------------------------------------------------------------------------
(***************************************************************************)
(* The environment of a variable: clauses that are reached in so many      *)
(* rounds, without false literals; binary clauses of representatives only. *)
(***************************************************************************)
Sweepable(w, c) ==
    /\ ~ IsTrue(w.s, c.lits)
    /\ Cardinality(c.lits) = 2 => \A l \in c.lits : Find(w, l) = l

Around(w, V) ==
    {c \in Irredundant(w.s) : {Abs(l) : l \in c.lits} \cap V # {} /\ Sweepable(w, c)}

Reached(w, V) ==
    V \cup {Abs(l) : l \in {k \in UNION {NonFalse(w.s, c.lits) : c \in Around(w, V)} :
                              Find(w, k) = k}}

Satisfied(w, V) ==
    {c \in Irredundant(w.s) : /\ Cardinality(c.lits) > 2 /\ IsTrue(w.s, c.lits)
                              /\ {Abs(l) : l \in c.lits} \cap V # {}}

FillKitten(w, clauses) ==
    FoldLeft(LAMBDA k, c : AddKlause(k, SetToSeq(NonFalse(w.s, c.lits))), NoKitten, clauses)

\* sweep_solve: random phases, and a limit.  Once it is hit the sweeper, which
\* has the same one, is done with the variable (kitten_ticks_limit_hit).
Solved(k) ==
    {Solve(RandomizePhases(k, P), limit) : P \in {{}, ToSet(k.queue)}, limit \in {1, 100}}

KittenValue(k, l) == IF l \in k.value THEN 1 ELSE IF -l \in k.value THEN -1 ELSE 0

-----------------------------------------------------------------------------
(***************************************************************************)
(* Cores become proof lines.                                               *)
(***************************************************************************)
\* save_core_clause: lemmas, and clauses that are units by now.
Saved(s, c) ==
    /\ ~ IsTrue(s, ToSet(c.lits))
    /\ c.learned \/ Cardinality(NonFalse(s, ToSet(c.lits))) <= 1

\* The kitten has its core computed.
SaveCore(s, k) ==
    MapSeq(LAMBDA ref : ToSet(Klause(k, ref)),
           SelectSeq(k.core, LAMBDA ref : Saved(s, k.clauses[ref])))

\* r: the solver and the lines that were added.
AddCoreClause(r, C) ==
    LET D == NonFalse(r.s, C)
    IN IF r.s.inconsistent \/ IsTrue(r.s, C) THEN r
       ELSE IF D = {} THEN [r EXCEPT !.s = Inconsistent(@)]
       ELSE IF Cardinality(D) = 1 THEN [r EXCEPT !.s = LearnedUnit(@, CHOOSE l \in D : TRUE)]
       ELSE [s |-> AddLine(r.s, D), lines |-> Append(r.lines, D)]

\* add_core, what the core is for, clear_core.
ClearCore(s, lines) == IF s.inconsistent THEN s ELSE FoldLeft(DeleteLine, s, lines)
AddCore(s, core) == FoldLeft(AddCoreClause, [s |-> s, lines |-> <<>>], core)

AddClearCore(w, k) ==
    LET r == AddCore(w.s, SaveCore(w.s, k))
    IN [w EXCEPT !.s = ClearCore(r.s, r.lines), !.kitten = k]
SaveAddClearCore(w, k) == AddClearCore(w, ComputeCore(k))

-----------------------------------------------------------------------------
(***************************************************************************)
(* Candidates.                                                             *)
(***************************************************************************)
\* What a model says of the candidates that are still open.
Open(w, l) == Find(w, l) = l /\ Value(w, l) = 0

RefineClass(w, class) ==
    SelectSeq(<<SelectSeq(class, LAMBDA l : Open(w, l) /\ KittenValue(w.kitten, l) > 0),
                SelectSeq(class, LAMBDA l : Open(w, l) /\ KittenValue(w.kitten, l) < 0)>>,
              LAMBDA c : Len(c) > 1)

Refine(w) ==
    [w EXCEPT
       !.backbone = SelectSeq(@, LAMBDA l : Value(w, l) = 0 /\ KittenValue(w.kitten, l) > 0),
       !.partition = FlattenSeq(MapSeq(LAMBDA c : RefineClass(w, c), @))]

\* The flips of one round.  r: the kitten, the candidates that stay and the
\* number of those that go; f: the flip of l.
Keep(r, l, f) ==
    IF f.flipped THEN [r EXCEPT !.k = f.k, !.gone = @ + 1]
    ELSE [r EXCEPT !.k = f.k, !.kept = Append(@, l)]
FlipCandidate(r, l) == Keep(r, l, FlipLiteral(r.k, l))
NoFlips(k) == [k |-> k, kept |-> <<>>, gone |-> 0]

\* flip_backbone_literals
FlippedBackbone(w, r) == [w EXCEPT !.kitten = r.k, !.backbone = r.kept]
FlipBackbone(w) ==
    IF w.kitten.status # 10 THEN w
    ELSE FlippedBackbone(w, FoldLeft(FlipCandidate, NoFlips(w.kitten), w.backbone))

\* flip_partition_literals: a class of one is dropped as soon as it is one.
FlippedClass(q, class, r) ==
    [k |-> r.k, classes |-> IF Len(class) - r.gone < 2 THEN q.classes
                            ELSE Append(q.classes, r.kept)]
FlipClass(q, class) ==
    FlippedClass(q, class,
        FoldLeft(LAMBDA r, l : IF Len(class) - r.gone < 2 THEN r ELSE FlipCandidate(r, l),
                 NoFlips(q.k), class))

FlippedPartition(w, q) == [w EXCEPT !.kitten = q.k, !.partition = q.classes]
FlipPartition(w) ==
    IF w.kitten.status # 10 THEN w
    ELSE FlippedPartition(w, FoldLeft(FlipClass, [k |-> w.kitten, classes |-> <<>>],
                                      w.partition))

\* The last class without a literal, and not at all if one other is left.
WithoutMember(w, l) ==
    LET class == SelectSeq(Last(w.partition), LAMBDA o : o # l)
    IN [w EXCEPT !.partition = Front(@) \o (IF Len(class) > 1 THEN <<class>> ELSE <<>>)]

-----------------------------------------------------------------------------
(***************************************************************************)
(* substitute_connected_clauses                                            *)
(***************************************************************************)
\* One watch of l; r: the solver and whether the loop was left.
SubstituteWatch(r, c, l, repr) ==
    LET s == r.s
        others == c.lits \ {l}
        C == NonFalse(s, others) \cup {repr}
        binary == Cardinality(c.lits) = 2
        unit(u) == [s |-> LearnedUnit(s, u), stop |-> TRUE]
    IN IF r.stop \/ (binary /\ -repr \in others) THEN r
       ELSE IF binary /\ NonFalse(s, others) = {} THEN [r EXCEPT !.stop = TRUE]
       ELSE IF binary /\ IsTrue(s, others) THEN r
       ELSE IF ~ binary /\ (-repr \in others \/ IsTrue(s, others))
         THEN [r EXCEPT !.s = DropClause(s, c)]
       ELSE IF Cardinality(C) = 1 THEN unit(IF binary THEN l ELSE repr)
       ELSE [r EXCEPT !.s = DropClause(NewClause(s, C, FALSE), c)]

SubstituteConnected(s, l, repr) ==
    LET copies(r, c) == FoldLeft(LAMBDA q, n : SubstituteWatch(q, c, l, repr), r,
                                 [n \in 1 .. s.clauses[c] |-> n])
    IN IF s.inconsistent \/ {l, -l, repr, -repr} \cap s.value # {} THEN s
       ELSE FoldSet(LAMBDA c, r : copies(r, c), [s |-> s, stop |-> FALSE],
                    Occurrences(s, l)).s

\* Both implications were proved: cores are those of the two calls.
AddEquivalence(s, l, other, cores) ==
    LET proved(t, core, C) ==
            LET r == AddCore(t, core) IN ClearCore(NewClause(r.s, C, FALSE), r.lines)
    IN proved(proved(s, cores[1], {l, -other}), cores[2], {-l, other})

Rescheduled(w, i) ==
    IF i \in Active(w.s) THEN [w EXCEPT !.schedule = ScheduleLast(@, i)] ELSE w

ReplaceLiteral(w, gone, repr) ==
    Rescheduled(WithoutMember(
        [w EXCEPT !.repr[gone] = repr, !.repr[-gone] = -repr,
                  !.s = SubstituteConnected(SubstituteConnected(@, gone, repr), -gone, -repr)],
        gone), Abs(repr))

MergeSwept(w, l, other, cores) ==
    ReplaceLiteral([w EXCEPT !.s = AddEquivalence(@, l, other, cores)],
                   CHOOSE k \in {l, other} : k # MinCode({l, other}), MinCode({l, other}))

-----------------------------------------------------------------------------
(***************************************************************************)
(* The pass.                                                               *)
(***************************************************************************)
\* init_sweeper and schedule_sweeping, in dense mode.
StartSweep ==
    /\ mode = "sparse"
    /\ steps > 0
    /\ ~ solver.inconsistent
    /\ LET s == DropRepeatedBinaries(solver)
           all == DOMAIN s.flags
           satisfied == {c \in Irredundant(s) : Cardinality(c.lits) > 2 /\ IsTrue(s, c.lits)}
       IN sweeper' = ScheduleSweeping(
            sweeper @@ [s |-> DropAll(s, satisfied), schedule |-> <<>>, kitten |-> NoKitten,
                        repr |-> [l \in all |-> l] @@ [l \in Neg(all) |-> l],
                        backbone |-> <<>>, partition |-> <<>>])
    /\ UNCHANGED <<original, input, solver, steps>>
    /\ mode' = "sweeping"

Sweeping == mode = "sweeping" /\ UNCHANGED preVars

\* clear_sweeper, and propagation of the units over what is connected.
Visited(s) ==
    {c \in Irredundant(s) : /\ Cardinality(c.lits) > 2 /\ IsTrue(s, c.lits)
                            /\ NonFalse(s, c.lits) # c.lits}
DropVisited(s, old) ==
    IF s.inconsistent \/ s.value = old THEN s ELSE DropAll(s, Visited(s))
ConnectedUnits(s) ==
    DropVisited(PropagateOver(s, {c.lits : c \in Irredundant(s)}), s.value)

DoneVariable(w) ==
    [w EXCEPT !.phase = "idle", !.kitten = NoKitten, !.backbone = <<>>, !.partition = <<>>,
              !.s = ConnectedUnits(@)]

\* What comes of the first call; a candidate has the sign that the model gives it.
Candidates(w, i, k) ==
    MapSeq(LAMBDA j : IF KittenValue(k, j) < 0 THEN -j ELSE j,
           SelectSeq(InOrder(w.s, ToSet(k.queue) \cup {i}), LAMBDA j : w.repr[j] = j))
WithCandidates(w, candidates) ==
    [w EXCEPT !.phase = "backbone", !.backbone = candidates, !.partition = <<candidates>>]

FirstAnswer(w, i, k) ==
    CASE k.status = 10 -> WithCandidates([w EXCEPT !.kitten = k], Candidates(w, i, k))
      [] k.status = 20 -> DoneVariable(SaveAddClearCore(w, k))
      [] OTHER -> DoneVariable(w)

FirstAnswers(w, i, clauses) ==
    UNION {{FirstAnswer(w, i, k) : k \in Solved(FillKitten(w, SubSeq(clauses, 1, n)))} :
              n \in {Len(clauses) \div 2, Len(clauses)}}

InEnvironment(w, i, V) ==
    FirstAnswers([w EXCEPT !.s = DropAll(@, Satisfied(w, V))], i,
                 FoldSet(LAMBDA c, q : Append(q, c), <<>>, Around(w, V)))

SweepVariable ==
    /\ Sweeping
    /\ sweeper.phase = "idle"
    /\ ~ sweeper.s.inconsistent
    /\ sweeper.schedule # <<>>
    /\ LET i == Last(sweeper.schedule)
           w == [sweeper EXCEPT !.schedule = Front(@), !.flagged = @ \ {i}]
       IN IF i \notin Active(w.s) \/ w.repr[i] # i THEN sweeper' = w
          ELSE \E V \in {{i}, Reached(w, {i})} : sweeper' \in InEnvironment(w, i, V)

\* sweep_backbone_candidate, after the flips; f is the flip of its own.
BackboneAnswer(w, k) ==
    CASE k.status = 10 -> Refine([w EXCEPT !.kitten = k])
      [] k.status = 20 -> SaveAddClearCore(w, k)
      [] OTHER -> DoneVariable(w)

Flip(k, l) == IF k.status = 10 THEN FlipLiteral(k, l) ELSE [k |-> k, flipped |-> FALSE]

TryBackbone(w, l, f) ==
    IF f.flipped THEN {[w EXCEPT !.kitten = f.k]}
    ELSE {BackboneAnswer(w, k) : k \in Solved(Assume(f.k, -l))}

BackboneCandidate(w, l) ==
    IF Abs(l) \notin Active(w.s) \/ FixedLiteral(w.kitten, l) THEN {w}
    ELSE TryBackbone(w, l, Flip(w.kitten, l))

SweepBackbone ==
    /\ Sweeping
    /\ sweeper.phase = "backbone"
    /\ ~ sweeper.s.inconsistent
    /\ \E w \in {FlipBackbone(sweeper)} :
         IF w.backbone = <<>> THEN sweeper' = [w EXCEPT !.phase = "partition"]
         ELSE sweeper' \in BackboneCandidate([w EXCEPT !.backbone = Front(@)],
                                              Last(w.backbone))

\* The second call, for the other implication; k has the core of the first.
SecondAnswer(w, j, l, other, first) ==
    CASE j.status = 10 -> Refine([w EXCEPT !.kitten = j])
      [] j.status = 20 -> LET c == ComputeCore(j) IN
           MergeSwept([w EXCEPT !.kitten = c], l, other, <<first, SaveCore(w.s, c)>>)
      [] OTHER -> DoneVariable(w)

OtherImplication(w, k, l, other) ==
    {SecondAnswer(w, j, l, other, SaveCore(w.s, k)) :
        j \in Solved(Assume(Assume(k, l), -other))}

\* Mutant: one implication is taken for both.
EquivalenceOneSided(w, k, l, other) ==
    CASE k.status = 10 -> {Refine([w EXCEPT !.kitten = k])}
      [] k.status = 20 -> LET core == SaveCore(w.s, ComputeCore(k)) IN
           {MergeSwept([w EXCEPT !.kitten = ComputeCore(k)], l, other, <<core, core>>)}
      [] OTHER -> {DoneVariable(w)}

EquivalenceAnswers(w, k, l, other) ==
    CASE k.status = 10 -> {Refine([w EXCEPT !.kitten = k])}
      [] k.status = 20 -> OtherImplication(w, ComputeCore(k), l, other)
      [] OTHER -> {DoneVariable(w)}

TryOther(w, l, other, g) ==
    IF g.flipped THEN {[WithoutMember(w, other) EXCEPT !.kitten = g.k]}
    ELSE UNION {EquivalenceAnswers(w, k, l, other) : k \in Solved(Assume(Assume(g.k, -l), other))}

TryEquivalence(w, l, other, f) ==
    IF f.flipped THEN {[WithoutMember(w, l) EXCEPT !.kitten = f.k]}
    ELSE TryOther(w, l, other, Flip(f.k, other))

SweepPartition ==
    /\ Sweeping
    /\ sweeper.phase = "partition"
    /\ ~ sweeper.s.inconsistent
    /\ \E w \in {FlipPartition(sweeper)} :
         LET class == Last(w.partition)
             l == class[Len(class) - 1]
         IN IF w.partition = <<>> THEN sweeper' = DoneVariable(w)
            ELSE IF Len(class) < 2 THEN sweeper' = [w EXCEPT !.partition = <<>>]
            ELSE sweeper' \in TryEquivalence(w, l, Last(class), Flip(w.kitten, l))

\* A limit, an interrupt, or the empty clause.
SweepStop ==
    /\ Sweeping
    /\ sweeper.phase # "idle"
    /\ sweeper' = DoneVariable(sweeper)

\* release_sweeper and propagation over all clauses.
LeaveSweep ==
    /\ mode = "sweeping"
    /\ sweeper.phase = "idle"
    /\ LET s == sweeper.s
           satisfied == {c \in Present(s) : Cardinality(c.lits) > 2 /\ IsTrue(s, c.lits)}
       IN solver' = IF s.inconsistent THEN s ELSE Propagate(DropAll(s, satisfied))
    /\ sweeper' = Unschedule(sweeper)
    /\ mode' = "sparse"
    /\ steps' = steps - 1
    /\ UNCHANGED <<original, input>>

SweepNext ==
    \/ StartSweep \/ SweepVariable \/ SweepBackbone \/ SweepPartition
    \/ SweepStop \/ LeaveSweep

-----------------------------------------------------------------------------
CONSTANT SweepLimit         \* bound on the variables of a formula that is swept

probingVars == <<congruenceVars, sweeper>>

ProbingInit == CongruenceInit /\ sweeper = NoSweep

ProbingNext ==
    \/ CongruenceNext /\ UNCHANGED sweeper
    \/ SweepNext /\ UNCHANGED closure
       /\ Cardinality(Active(solver)) <= SweepLimit

ProbingSpec == ProbingInit /\ [][ProbingNext]_probingVars

-----------------------------------------------------------------------------
(***************************************************************************)
(* Properties.                                                             *)
(***************************************************************************)
InSweep == mode = "sweeping" /\ ~ sweeper.s.inconsistent

\* Both passes keep the models of the formula that they started from, and the
\* literals that sweeping merges are equal in all of them.
ModelsKept ==
    /\ InPass => Models(closure.s) = Models(solver)
    /\ InSweep =>
         /\ Models(sweeper.s) = Models(solver)
         /\ \A A \in Models(solver), l \in DOMAIN sweeper.repr :
              l \in A <=> Find(sweeper, l) \in A

\* Every line of the passes is accepted when it is written: the chains that
\* help the checker, the clauses of kitten's cores and what they lead to.
ChainsAccepted ==
    /\ solver.accepted
    /\ mode = "closing" => closure.s.accepted
    /\ mode = "sweeping" => sweeper.s.accepted

=============================================================================
