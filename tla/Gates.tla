------------------------------- MODULE Gates -------------------------------
(***************************************************************************)
(* The gates of congruence closure (congruence.c): a gate defines its left *)
(* side by its right side, and two gates with the same right side have     *)
(* equivalent left sides.  Units shorten gates, equivalences rename their  *)
(* right sides, and either can turn one kind of gate into another.         *)
(*                                                                         *)
(* A closure is a record like the struct: s is the solver, repr the union  *)
(* find forest, schedule the queue of literals merged into others, units   *)
(* those whose gates are simplified.  A gate keeps in occ the literals     *)
(* under which it is found; the hash table is the search for a live gate   *)
(* with the same kind and right side.                                      *)
(***************************************************************************)
EXTENDS Inprocessing

Sorted(S) == SetToSortSeq(S, LAMBDA a, b : Code(a) < Code(b))

\* The value of a literal: 1, -1 or 0.
Value(k, l) == IF l \in k.s.value THEN 1 ELSE IF -l \in k.s.value THEN -1 ELSE 0

RECURSIVE Find(_, _)
Find(k, l) == IF k.repr[l] = l THEN l ELSE Find(k, k.repr[l])

LearnCongruenceUnit(k, l) ==
    IF k.s.inconsistent \/ Value(k, l) > 0 THEN k
    ELSE IF Value(k, l) < 0 THEN [k EXCEPT !.s = Inconsistent(@)]
    ELSE [k EXCEPT !.s = Propagate(LearnedUnit(@, l))]

PropagateNew(s, t) == IF t.value = s.value THEN t ELSE Propagate(t)

AddBinaryClause(k, C) == [k EXCEPT !.s = PropagateNew(@, Derive(@, C, FALSE))]

\* A variable is in the queue at most once.
Schedule(k, l) ==
    IF \E n \in DOMAIN k.schedule : Abs(k.schedule[n]) = Abs(l) THEN k
    ELSE [k EXCEPT !.schedule = Append(@, l)]

MergeLiterals(k, a, b) ==
    LET A == Find(k, a)
        B == Find(k, b)
        smaller == MinCode({A, B})
        larger == IF smaller = A THEN B ELSE A
        linked == [k EXCEPT !.repr[larger] = smaller, !.repr[-larger] = -smaller]
        unit == IF Value(k, a) # 0 THEN Value(k, a) * b ELSE Value(k, b) * a
    IN IF k.s.inconsistent \/ A = B \/ Value(k, a) * Value(k, b) = 1 THEN k
       ELSE IF Value(k, a) * Value(k, b) = -1
         THEN [k EXCEPT !.s = Inconsistent(@)]
       ELSE IF Value(k, a) # Value(k, b) THEN LearnCongruenceUnit(k, unit)
       ELSE IF A = -B
         THEN [k EXCEPT !.s = Inconsistent(LearnedUnit(@, smaller))]
       ELSE Schedule(FoldSet(LAMBDA C, q : AddBinaryClause(q, C), linked,
                             {{-larger, smaller}, {larger, -smaller}}), larger)

\* A gate of one input.
Equate(k, lhs, l) ==
    IF Value(k, lhs) # 0 THEN LearnCongruenceUnit(k, Value(k, lhs) * l)
    ELSE MergeLiterals(k, lhs, l)

-----------------------------------------------------------------------------
(***************************************************************************)
(* Lines that only help the checker.  A chain is a sequence of sets of     *)
(* clauses, the longer ones first; tautologies are left out.               *)
(***************************************************************************)
Tautology(C) == \E l \in C : -l \in C

AddChain(k, chain) ==
    [k EXCEPT !.s = FoldLeft(LAMBDA s, L :
        FoldSet(LAMBDA C, t : AddLine(t, C), s, {C \in L : ~ Tautology(C)}), @, chain)]

\* delete_proof_chain
DeleteChain(k, chain) ==
    [k EXCEPT !.s = FoldLeft(LAMBDA s, L :
        FoldSet(LAMBDA C, t : DeleteLine(t, C), s, {C \in L : ~ Tautology(C)}), @, chain)]

Signs(lits) == {{IF l \in N THEN -l ELSE l : l \in lits} : N \in SUBSET lits}

\* add_xor_matching_proof_chain
XorChain(rhs, l1, l2) ==
    LET n == Len(rhs) - 1
    IN [j \in 1 .. n |-> UNION {{P \cup {-l1, l2}, P \cup {l1, -l2}} :
                                   P \in Signs({rhs[i] : i \in 1 .. n + 1 - j})}]

\* Mutant: the clauses with the condition are left out.
IteChainShort(rhs, l1, l2) == << {{l1, -l2}, {-l1, l2}} >>

\* add_ite_matching_proof_chain
IteChain(rhs, l1, l2) ==
    << UNION {{{l1, -l2, c}, {-l1, l2, c}} : c \in {rhs[1], -rhs[1]}},
       {{l1, -l2}, {-l1, l2}} >>

MatchingChain(tag, rhs, l1, l2) ==
    IF l1 = l2 \/ tag = "AND" THEN <<>>
    ELSE IF tag = "XOR" THEN XorChain(rhs, l1, l2) ELSE IteChain(rhs, l1, l2)

\* add_ite_turned_and_binary_clauses
TurnedChain(g) == << {{-g.lhs, l} : l \in ToSet(g.rhs)} >>

\* add_xor_shrinking_proof_chain: the gate without the pivot, which occurred
\* twice; the code's counter passes over every clause a second time.
ShrinkingLines(k, g, pivot) ==
    LET clauses == {C \in Signs(ToSet(g.rhs) \cup {-g.lhs}) :
            Cardinality({l \in C : l < 0}) % 2 = IF -g.lhs < 0 THEN 1 ELSE 0}
        helpers(C) == {C \cup {pivot}, C \cup {-pivot}}
        added(s, C) == FoldLeft(AddLine, s, SetToSeq(helpers(C)) \o <<C>>)
        line(s, C) == FoldSet(LAMBDA D, t : DeleteLine(t, D), added(s, C), helpers(C))
    IN [k EXCEPT !.s = FoldSet(LAMBDA p, s : line(s, p[1]), @, clauses \X {1, 2})]

Unchain(k, chain) ==
    IF k.s.inconsistent THEN k ELSE DeleteChain(k, chain)

\* Two left sides of one right side.
Unite(k, chain, a, b) ==
    Unchain(MergeLiterals(AddChain(k, chain), a, b), chain)

-----------------------------------------------------------------------------
(***************************************************************************)
(* New gates.                                                              *)
(***************************************************************************)
Live(k) == {i \in DOMAIN k.gates : ~ k.gates[i].garbage}

\* find_gate
Matching(k, tag, rhs, except) ==
    {i \in Live(k) \ {except} : k.gates[i].tag = tag /\ k.gates[i].rhs = rhs}

NewGate(k, tag, lhs, rhs) ==
    LET same == Matching(k, tag, rhs, 0)
        old == k.gates[CHOOSE i \in same : TRUE]
    IN IF same # {}
         THEN Unite(k, MatchingChain(tag, rhs, old.lhs, lhs), old.lhs, lhs)
       ELSE [k EXCEPT !.gates = Append(@,
               [tag |-> tag, lhs |-> lhs, rhs |-> rhs, occ |-> ToSet(rhs),
                garbage |-> FALSE])]

\* normalize_ite_lits: the condition and the then branch are positive.
NormalizeIte(lhs, c, t, e) ==
    LET r == IF c < 0 THEN <<-c, e, t>> ELSE <<c, t, e>>
        negate == r[2] < 0
    IN [lhs |-> IF negate THEN -lhs ELSE lhs,
        rhs |-> IF negate THEN <<r[1], -r[2], -r[3]>> ELSE r]

NewIteGate(k, lhs, c, t, e) ==
    LET g == NormalizeIte(lhs, c, t, e)
    IN IF t = -e THEN k
       ELSE IF t = e THEN MergeLiterals(k, lhs, t)
       ELSE NewGate(k, "ITE", g.lhs, g.rhs)

-----------------------------------------------------------------------------
(***************************************************************************)
(* A gate that changes.  Settle is the second half of every update: the    *)
(* gate is found to be a copy of another one, or is indexed anew.          *)
(***************************************************************************)
Discard(k, i) == [k EXCEPT !.gates[i].garbage = TRUE]

Settle(k, i, chain) ==
    LET g == k.gates[i]
        same == Matching(k, g.tag, g.rhs, i)
        h == k.gates[CHOOSE j \in same : TRUE]
    IN IF same = {} THEN k
       ELSE Discard(Unite(k, IF chain # <<>> THEN chain
                             ELSE MatchingChain(g.tag, g.rhs, g.lhs, h.lhs),
                          g.lhs, h.lhs), i)

SetRhs(k, i, S) == [k EXCEPT !.gates[i].rhs = Sorted(S)]

\* update_and_gate, update_xor_gate: an AND gate fails on a falsified or a
\* clashing input, an XOR gate when no input is left; an AND gate without
\* inputs is indexed as it is.
UpdateGate(k, i, failed) ==
    LET g == k.gates[i] IN
      IF failed \/ (g.tag = "XOR" /\ g.rhs = <<>>)
      THEN Discard(LearnCongruenceUnit(k, -g.lhs), i)
      ELSE IF Len(g.rhs) = 1 THEN Discard(Equate(k, g.lhs, g.rhs[1]), i)
      ELSE Settle(k, i, <<>>)

SimplifyAnd(k, i) ==
    LET g == k.gates[i]
        R == ToSet(g.rhs)
    IN IF Value(k, g.lhs) > 0 THEN Discard(k, i)
       ELSE UpdateGate(SetRhs(k, i, NonFalse(k.s, R) \ k.s.value), i,
                       NonFalse(k.s, R) # R)

RewriteAnd(k, i, dst, src) ==
    LET g == k.gates[i]
        R == (ToSet(g.rhs) \ {src}) \cup {dst}
    IN IF Value(k, g.lhs) > 0 THEN Discard(k, i)
       ELSE IF src \notin ToSet(g.rhs) THEN k
       ELSE UpdateGate(SetRhs(k, i, R \ k.s.value), i,
                       -g.lhs \in R \/ NonFalse(k.s, R) # R \/ -dst \in R)

FlipLhs(k, i, flip) == [k EXCEPT !.gates[i].lhs = IF flip THEN -@ ELSE @]

SimplifyXor(k, i) ==
    LET R == ToSet(k.gates[i].rhs)
    IN UpdateGate(SetRhs(FlipLhs(k, i, Cardinality(R \cap k.s.value) % 2 = 1), i,
                         NonFalse(k.s, R) \ k.s.value), i, FALSE)

\* l is in the right side of the gate: the gate is found under it.
ConnectOccurrence(k, i, L) ==
    IF k.gates[i].garbage THEN k
    ELSE [k EXCEPT !.gates[i].occ = @ \cup (L \cap ToSet(k.gates[i].rhs))]

\* Equal inputs cancel unless they are assigned, and each occurrence of a true
\* one turns the left side; the representative is kept positive.
RewriteXor(k, i, dst, src) ==
    LET g == k.gates[i]
        R == ToSet(g.rhs) \ {src}
        d == Abs(dst)
        twice == d \in R /\ Value(k, d) = 0
        true == Cardinality(R \cap k.s.value) + Cardinality({d} \cap k.s.value)
        open == NonFalse(k.s, IF twice THEN R \ {d} ELSE R \cup {d}) \ k.s.value
        t == SetRhs(FlipLhs(k, i, (true % 2 = 1) # (dst < 0)), i, open)
        shrunken == IF twice THEN ShrinkingLines(t, t.gates[i], src) ELSE t
    IN IF d = Abs(g.lhs) THEN Discard(k, i)
       ELSE IF src \notin ToSet(g.rhs) THEN k
       ELSE ConnectOccurrence(UpdateGate(shrunken, i, FALSE), i, {d})

-----------------------------------------------------------------------------
\* An if-then-else that becomes a gate of another kind, or stays one.  The
\* literals that it did not have before are connected, all but dst.
Turned(k, i, form) ==
    [k EXCEPT !.gates[i].tag = form.tag, !.gates[i].lhs = form.lhs,
              !.gates[i].rhs = form.rhs]

TurnIte(k, i, form, dst) ==
    LET fresh == ToSet(form.rhs) \ (ToSet(k.gates[i].rhs) \cup {dst})
        chain == IF form.tag = "AND" /\ dst # 0 THEN TurnedChain(form) ELSE <<>>
    IN ConnectOccurrence(Settle(Turned(k, i, form), i, chain), i, fresh)

Form(tag, lhs, S) == [tag |-> tag, lhs |-> lhs, rhs |-> Sorted(S)]

SimplifyIte(k, i) ==
    LET g == k.gates[i]
        c == g.rhs[1]
        t == g.rhs[2]
        e == g.rhs[3]
        C == Value(k, c)
        T == Value(k, t)
        E == Value(k, e)
        and == CASE T > 0 -> Form("AND", -g.lhs, {-c, -e})
                 [] T < 0 -> Form("AND", g.lhs, {-c, e})
                 [] T = 0 /\ E > 0 -> Form("AND", -g.lhs, {-t, c})
                 [] OTHER -> Form("AND", g.lhs, {c, t})
        equal == IF C > 0 THEN t ELSE IF C < 0 THEN e ELSE T * c
    IN IF C # 0 \/ T * E = -1 THEN Discard(MergeLiterals(k, g.lhs, equal), i)
       ELSE IF T * E = 1 THEN Discard(LearnCongruenceUnit(k, T * g.lhs), i)
       ELSE TurnIte(k, i, and, 0)

\* Mutant: the else branch keeps its sign under a positive condition.
IteFormSigned(lhs, c, t, e) ==
    LET odd == (c < 0) # (e < 0) IN
      CASE c = t -> Form("AND", -lhs, {-c, e})
        [] c = -t -> Form("AND", lhs, {-c, e})
        [] c = e -> Form("AND", lhs, {c, t})
        [] c = -e -> Form("AND", -lhs, {-t, -e})
        [] t = -e -> Form("XOR", IF odd THEN -lhs ELSE lhs, {Abs(c), Abs(e)})
        [] OTHER -> NormalizeIte(lhs, c, t, e) @@ [tag |-> "ITE"]

\* The if-then-else of c, t and e, with the representative in place.
IteForm(lhs, c, t, e) ==
    LET odd == (c < 0) # (e < 0) IN
      CASE c = t -> Form("AND", -lhs, {-c, -e})
        [] c = -t -> Form("AND", lhs, {-c, e})
        [] c = e -> Form("AND", lhs, {c, t})
        [] c = -e -> Form("AND", -lhs, {-t, -e})
        [] t = -e -> Form("XOR", IF odd THEN -lhs ELSE lhs, {Abs(c), Abs(e)})
        [] OTHER -> NormalizeIte(lhs, c, t, e) @@ [tag |-> "ITE"]

\* The binary clauses of a gate that became an AND gate.
AddAndBinaries(k, i) ==
    LET g == k.gates[i]
    IN IF g.garbage \/ g.tag # "AND" THEN k
       ELSE FoldSet(LAMBDA C, q : AddBinaryClause(q, C), k,
                    {{-g.lhs, l} : l \in ToSet(g.rhs)})

RewriteIte(k, i, dst, src) ==
    LET g == k.gates[i]
        r == [n \in 1 .. 3 |-> IF g.rhs[n] = src THEN dst ELSE g.rhs[n]]
    IN IF src \notin ToSet(g.rhs) THEN k
       ELSE IF r[2] = r[3] THEN Discard(MergeLiterals(k, g.lhs, r[3]), i)
       ELSE AddAndBinaries(TurnIte(k, i, IteForm(g.lhs, r[1], r[2], r[3]), dst), i)

-----------------------------------------------------------------------------
SimplifyGate(k, i) ==
    IF k.s.inconsistent \/ k.gates[i].garbage THEN k
    ELSE CASE k.gates[i].tag = "AND" -> SimplifyAnd(k, i)
           [] k.gates[i].tag = "XOR" -> SimplifyXor(k, i)
           [] k.gates[i].tag = "ITE" -> SimplifyIte(k, i)

RewriteGate(k, i, dst, src) ==
    IF k.s.inconsistent \/ k.gates[i].garbage THEN k
    ELSE CASE k.gates[i].tag = "AND" -> RewriteAnd(k, i, dst, src)
           [] k.gates[i].tag = "XOR" -> RewriteXor(k, i, dst, src)
           [] k.gates[i].tag = "ITE" -> RewriteIte(k, i, dst, src)

OccurrencesOf(k, l) ==
    SelectSeq([i \in DOMAIN k.gates |-> i], LAMBDA i : l \in k.gates[i].occ)

Release(k, l) ==
    [k EXCEPT !.gates = MapSeq(LAMBDA g : [g EXCEPT !.occ = @ \ {l}], @)]

\* The gates of a literal that was assigned, or of its negation.
SimplifyGates(k, l) ==
    Release(FoldLeft(SimplifyGate, k, OccurrencesOf(k, l)), l)

\* Mutant: the rewritten gates are not found under the representative.
RewriteGatesUnconnected(k, dst, src) ==
    Release(FoldLeft(LAMBDA q, i : RewriteGate(q, i, dst, src),
                     k, OccurrencesOf(k, src)), src)

RewriteGates(k, dst, src) ==
    Release(FoldLeft(LAMBDA q, i : ConnectOccurrence(RewriteGate(q, i, dst, src), i, {dst}),
                     k, OccurrencesOf(k, src)), src)

=============================================================================
