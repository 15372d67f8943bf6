---------------------------- MODULE AnswerProofs ----------------------------
(***************************************************************************)
(* That propagation is complete and both answers right, second half:       *)
(* conflict analysis, which reorders the conflict, strengthens and         *)
(* subsumes clauses and moves their watches, learns, and backtracks; then  *)
(* the proof's last line, and the theorems.                                *)
(***************************************************************************)
EXTENDS WatchProofs

\* Only watches of the clause move, and those of its first two literals stay.
Rewatches(ws, xs, ref, D) ==
    /\ xs \in Lists
    /\ \A l \in Lit : /\ \A u \in ToSet(xs[l]) :
                            u \in ToSet(ws[l]) \/ (Watches(u, ref) /\ u.blocking \in D)
                      /\ \A u \in ToSet(ws[l]) : u \in ToSet(xs[l]) \/ Watches(u, ref)
BothWatched(ws, lits, ref) ==
    \A l \in {lits[1], lits[2]} : \E u \in ToSet(ws[l]) : Watches(u, ref)
Permuted(s, t) ==
    t \in Seq(Lit) /\ Len(t) = Len(s) /\ IsInjective(t) /\ ToSet(t) = ToSet(s)

Rewatching(ws, xs, out, in, ref, D) ==
    /\ Rewatches(ws, xs, ref, D)
    /\ \A l \in Lit : l # out => ToSet(ws[l]) \subseteq ToSet(xs[l])
    /\ \E x \in ToSet(xs[in]) : Watches(x, ref)

\* A clause is watched in another literal instead of one of its first two.
LEMMA RewatchedSets ==
    ASSUME NEW ws \in Lists, NEW out \in Lit, NEW in \in Lit, NEW stay \in Lit, in # out,
           NEW ref \in Nat, NEW D, stay \in D
    PROVE  Rewatching(ws, Rewatched(ws, out, in, stay, ref), out, in, ref, D)
<1> PICK xs : xs = Rewatched(ws, out, in, stay, ref) OBVIOUS
<1> PICK w : w = LargeWatch(stay, ref) OBVIOUS
<1>1. w \in WatchType /\ Watches(w, ref) /\ w.blocking = stay
  BY DEF LargeWatch, WatchType, Watches
<1> PICK less : less = Unwatched(ws, out, ref) OBVIOUS
<1>2. less \in Lists BY UnwatchedSet
<1>3. \A l \in Lit : ToSet(less[l]) \subseteq ToSet(ws[l])
  <2>1. \A l \in Lit : /\ ToSet(less[l]) \subseteq ToSet(ws[l])
                       /\ \A x \in ToSet(ws[l]) : x \in ToSet(less[l]) \/ Watches(x, ref)
                       /\ l # out => less[l] = ws[l]
    BY UnwatchedSet
  <2> QED BY <2>1
<1>4. \A l \in Lit : \A x \in ToSet(ws[l]) : x \in ToSet(less[l]) \/ Watches(x, ref)
  BY UnwatchedSet
<1>5. \A l \in Lit : l # out => less[l] = ws[l] BY UnwatchedSet
<1>6. xs = [less EXCEPT ![in] = Append(@, w)] BY DEF Rewatched
<1>7. /\ xs[in] = Append(less[in], w)
      /\ \A l \in Lit : l # in => xs[l] = less[l]
      /\ \A l \in Lit : less[l] \in Seq(WatchType)
      /\ xs = [l \in Lit |-> xs[l]]
  BY <1>2, <1>6 DEF Lists
<1>8. less[in] \in Seq(WatchType) BY <1>7
<1> PICK k \in Seq(WatchType) : k = less[in] BY <1>8
<1> PICK h : h = xs[in] OBVIOUS
<1>9. h = Append(k, w) BY <1>7
<1>10. h \in Seq(WatchType) BY <1>1, <1>9
<1>11. ToSet(h) = ToSet(k) \cup {w} BY <1>9, AppendSet
<1>12. xs \in Lists
  <2>1. \A l \in Lit : xs[l] \in Seq(WatchType) BY <1>7, <1>10
  <2> QED BY <1>7, <2>1 DEF Lists
<1>13. \A l \in Lit : l = in \/ ToSet(xs[l]) = ToSet(less[l]) BY <1>7
<1>14. ASSUME NEW l \in Lit, NEW x \in ToSet(xs[l])
       PROVE  x \in ToSet(ws[l]) \/ (Watches(x, ref) /\ x.blocking \in D)
  <2>1. x \in ToSet(less[l]) \/ x = w BY <1>11, <1>13
  <2> QED BY <1>1, <1>3, <2>1
<1>15. ASSUME NEW l \in Lit, NEW x \in ToSet(ws[l])
       PROVE  x \in ToSet(xs[l]) \/ Watches(x, ref)
  <2>1. x \in ToSet(less[l]) \/ Watches(x, ref) BY <1>4
  <2> QED BY <1>11, <1>13, <2>1
<1>16. ASSUME NEW l \in Lit, l # out PROVE ToSet(ws[l]) \subseteq ToSet(xs[l])
  BY <1>5, <1>11, <1>13, <1>16
<1>17. w \in ToSet(xs[in]) BY <1>11
<1>18. Rewatches(ws, xs, ref, D) BY <1>12, <1>14, <1>15 DEF Rewatches
<1>19. Rewatching(ws, xs, out, in, ref, D)
  BY ONLY <1>1, <1>16, <1>17, <1>18 DEF Rewatching
<1> QED BY <1>19

\* Two literals of a clause change places.
LEMMA SwappedLiterals ==
    ASSUME NEW s \in Seq(Lit), IsInjective(s),
           NEW i \in 1 .. Len(s), NEW j \in 1 .. Len(s)
    PROVE  /\ Swapped(s, i, j) \in Seq(Lit) /\ Len(Swapped(s, i, j)) = Len(s)
           /\ IsInjective(Swapped(s, i, j)) /\ ToSet(Swapped(s, i, j)) = ToSet(s)
           /\ Swapped(s, i, j)[i] = s[j] /\ Swapped(s, i, j)[j] = s[i]
           /\ \A k \in 1 .. Len(s) : k # i /\ k # j => Swapped(s, i, j)[k] = s[k]
BY SwappedFacts

LEMMA Entries ==
    ASSUME NEW s \in Seq(Lit)
    PROVE  \A j \in 1 .. Len(s) : s[j] \in Lit /\ s[j] \in ToSet(s)
BY DEF ToSet

LEMMA MoveHighestSets ==
    ASSUME NEW st, st.lits \in Seq(Lit), IsInjective(st.lits), Len(st.lits) > 2,
           st.watches \in Lists, NEW i \in {1, 2}, NEW ref \in Nat, NEW b \in Nat,
           \A j \in 1 .. Len(st.lits) : LevelOf(st.lits[j]) \in 0 .. b,
           NEW t, t = MoveHighest(st, i, ref)
    PROVE  /\ Permuted(st.lits, t.lits)
           /\ \A j \in i .. Len(t.lits) : LevelOf(t.lits[j]) <= LevelOf(t.lits[i])
           /\ i = 2 => t.lits[1] = st.lits[1]
           /\ Rewatches(st.watches, t.watches, ref, ToSet(st.lits))
           /\ BothWatched(st.watches, st.lits, ref) => BothWatched(t.watches, t.lits, ref)
<1> PICK s : s = st.lits OBVIOUS
<1> PICK ws : ws = st.watches OBVIOUS
<1> DEFINE best == Highest(s, i)
           u == Swapped(s, i, best)
           rest == Unwatched(ws, s[i], ref)
           watch == LargeWatch(u[3 - i], ref)
<1>0. /\ Len(s) \in Nat /\ Len(s) > 2 /\ s \in Seq(Lit) /\ IsInjective(s) /\ ws \in Lists
      /\ DOMAIN s = 1 .. Len(s)
  OBVIOUS
<1>1. i \in 1 .. Len(s) BY <1>0
<1>2. best \in i .. Len(s) /\ \A j \in i .. Len(s) : LevelOf(s[j]) <= LevelOf(s[best])
  <2>1. \A j \in 1 .. Len(s) : LevelOf(s[j]) \in 0 .. b OBVIOUS
  <2> QED BY <1>0, <1>1, <2>1, HighestFacts
<1>3. best \in 1 .. Len(s) BY <1>1, <1>2
<1> HIDE DEF best
<1>4. /\ u \in Seq(Lit) /\ Len(u) = Len(s) /\ IsInjective(u) /\ ToSet(u) = ToSet(s)
      /\ u[i] = s[best] /\ u[best] = s[i]
      /\ \A k \in 1 .. Len(s) : k # i /\ k # best => u[k] = s[k]
  <2>1. s \in Seq(Lit) /\ IsInjective(s) BY <1>0
  <2> QED BY ONLY <1>1, <1>3, <2>1, SwappedLiterals
<1>5. t.lits = u /\ t.watches = IF best <= 2 THEN ws ELSE [rest EXCEPT ![u[i]] = Append(@, watch)]
  BY DEF MoveHighest, best
<1> HIDE DEF u, rest
<1>6. \A j \in i .. Len(u) : LevelOf(u[j]) <= LevelOf(u[i])
  <2> SUFFICES ASSUME NEW j \in i .. Len(s) PROVE LevelOf(u[j]) <= LevelOf(s[best])
    BY <1>4
  <2>1. CASE j = i
    <3>1. LevelOf(s[best]) \in Nat BY <1>3
    <3> QED BY <1>4, <2>1, <3>1
  <2>2. CASE j = best /\ j # i
    <3>1. i \in i .. Len(s) BY <1>0
    <3> QED BY <1>2, <1>4, <2>2, <3>1
  <2>3. CASE j # i /\ j # best
    <3>1. j \in 1 .. Len(s) BY <1>1
    <3> QED BY <1>2, <1>4, <2>3, <3>1
  <2> QED BY <2>1, <2>2, <2>3
<1>7. i = 2 => u[1] = s[1]
  <2>1. i = 2 => 1 # i /\ 1 # best /\ 1 \in 1 .. Len(s) BY <1>0, <1>2
  <2> QED BY <1>4, <2>1
<1>8. ASSUME best <= 2
      PROVE  /\ Rewatches(ws, t.watches, ref, ToSet(s))
             /\ BothWatched(ws, s, ref) => BothWatched(t.watches, u, ref)
  <2>1. {u[1], u[2]} = {s[1], s[2]}
    <3>1. CASE i = 1 /\ best = 1
      <4>1. 2 \in 1 .. Len(s) BY <1>0
      <4>2. u[1] = s[1] /\ u[2] = s[2] BY <1>4, <3>1, <4>1
      <4> QED BY <4>2
    <3>2. CASE i = 1 /\ best = 2
      <4>1. u[1] = s[2] /\ u[2] = s[1] BY <1>4, <3>2
      <4> QED BY <4>1
    <3>3. CASE i = 2 /\ best = 2
      <4>1. u[1] = s[1] /\ u[2] = s[2] BY <1>4, <1>7, <3>3
      <4> QED BY <4>1
    <3>4. best \in {1, 2} /\ (i = 2 => best = 2) BY <1>0, <1>2, <1>8
    <3> QED BY <3>1, <3>2, <3>3, <3>4
  <2>2. t.watches = ws BY <1>5, <1>8
  <2> QED BY <1>0, <2>1, <2>2 DEF Rewatches, BothWatched
<1>9. ASSUME ~ (best <= 2)
      PROVE  /\ Rewatches(ws, t.watches, ref, ToSet(s))
             /\ BothWatched(ws, s, ref) => BothWatched(t.watches, u, ref)
  <2>1. /\ s[i] \in Lit /\ u[i] \in Lit /\ u[3 - i] \in Lit
        /\ u[3 - i] = s[3 - i] /\ u[3 - i] \in ToSet(s)
        /\ u[i] # s[i] /\ s[i] # s[3 - i]
        /\ {u[1], u[2]} = {u[i], s[3 - i]} /\ {s[1], s[2]} = {s[i], s[3 - i]}
    <3>1. 1 \in 1 .. Len(s) /\ 2 \in 1 .. Len(s) /\ best # 1 /\ best # 2 /\ DOMAIN s = 1 .. Len(s)
      BY <1>0, <1>9
    <3>2. \A j \in 1 .. Len(s) : s[j] \in Lit /\ s[j] \in ToSet(s)
      <4>1. s \in Seq(Lit) BY <1>0
      <4> QED BY ONLY <4>1, Entries
    <3>3. s[best] # s[1] /\ s[best] # s[2] /\ s[1] # s[2]
      <4>1. \A j, k \in 1 .. Len(s) : s[j] = s[k] => j = k BY <1>0, <3>1 DEF IsInjective
      <4>2. 1 # 2 OBVIOUS
      <4> QED BY <1>3, <3>1, <4>1, <4>2
    <3>4. CASE i = 1
      <4>1. 3 - i = 2 BY <3>4
      <4>2. u[1] = s[best] /\ u[2] = s[2] BY <1>4, <3>1, <3>4
      <4> QED BY <1>3, <3>1, <3>2, <3>3, <3>4, <4>1, <4>2
    <3>5. CASE i = 2
      <4>1. 3 - i = 1 BY <3>5
      <4>2. u[2] = s[best] /\ u[1] = s[1] BY <1>4, <3>1, <3>5
      <4> QED BY <1>3, <3>1, <3>2, <3>3, <3>5, <4>1, <4>2
    <3> QED BY <3>4, <3>5
  <2> PICK out \in Lit : out = s[i] BY <2>1
  <2> PICK stay \in Lit : stay = s[3 - i] /\ stay \in ToSet(s) BY <2>1
  <2> PICK in \in Lit : in = u[i] BY <2>1
  <2>2. in # out /\ stay # out BY <2>1
  <2> PICK xs : xs = t.watches OBVIOUS
  <2>3. xs = Rewatched(ws, out, in, stay, ref) BY <1>5, <1>9, <2>1 DEF rest, Rewatched
  <2> PICK D : D = ToSet(s) OBVIOUS
  <2>4. stay \in D OBVIOUS
  <2>5. /\ Rewatches(ws, xs, ref, D)
        /\ \A l \in Lit : l # out => ToSet(ws[l]) \subseteq ToSet(xs[l])
        /\ \E x \in ToSet(xs[in]) : Watches(x, ref)
    <3>1. ws \in Lists /\ ref \in Nat /\ out \in Lit /\ in \in Lit /\ stay \in Lit BY <1>0
    <3>2. Rewatching(ws, Rewatched(ws, out, in, stay, ref), out, in, ref, D)
      BY ONLY <2>2, <2>4, <3>1, RewatchedSets
    <3> QED BY ONLY <2>3, <3>2 DEF Rewatching
  <2>9. BothWatched(ws, s, ref) => BothWatched(xs, u, ref)
    <3> SUFFICES ASSUME BothWatched(ws, s, ref), NEW l \in {in, stay}
                 PROVE  \E x \in ToSet(xs[l]) : Watches(x, ref)
      BY <2>1 DEF BothWatched
    <3>1. CASE l = in BY <2>5, <3>1
    <3>2. CASE l = stay
      <4>1. ToSet(ws[l]) \subseteq ToSet(xs[l]) BY <2>2, <2>5, <3>2
      <4>2. l \in {s[1], s[2]} BY <2>1, <3>2
      <4> QED BY <4>1, <4>2 DEF BothWatched
    <3> QED BY <3>1, <3>2
  <2> QED BY <2>5, <2>9
<1>10. Permuted(s, u) BY <1>4 DEF Permuted
<1>11. t.lits = u BY <1>5
<1> HIDE DEF best
<1> QED BY <1>6, <1>7, <1>8, <1>9, <1>10, <1>11

\* The two of highest level come first.
HighestFirst(s) ==
    \A j \in DOMAIN s : LevelOf(s[j]) <= LevelOf(s[1]) /\ (j # 1 => LevelOf(s[j]) <= LevelOf(s[2]))

LEMMA ReorderedSets ==
    ASSUME SearchInv, visit = NoVisit, NEW ref \in References,
           \A l \in ToSet(arena[ref].lits) : LevelOf(l) \in 0 .. CurrentLevel,
           NEW t, t = Reordered(ref)
    PROVE  /\ Permuted(arena[ref].lits, t.lits) /\ HighestFirst(t.lits)
           /\ Rewatches(watches, t.watches, ref, ToSet(arena[ref].lits))
           /\ BothWatched(watches, arena[ref].lits, ref) => BothWatched(t.watches, t.lits, ref)
<1> PICK b \in Nat : b = CurrentLevel BY DEF SearchInv, TrailInv, TrailTypeOK, CurrentLevel
<1> PICK st : st = [lits |-> arena[ref].lits, watches |-> watches] OBVIOUS
<1> PICK u : u = MoveHighest(st, 1, ref) OBVIOUS
<1>1. t = MoveHighest(u, 2, ref) BY DEF Reordered
<1>2. /\ st.lits = arena[ref].lits /\ st.watches = watches
      /\ st.lits \in Seq(Lit) /\ IsInjective(st.lits) /\ Len(st.lits) > 2
      /\ Len(st.lits) \in Nat /\ st.watches \in Lists
  BY DEF SearchInv, ArenaSound, WatchListsOK
<1>3. ref \in Nat BY DEF SearchInv, ArenaSound, References
<1>4. \A l \in ToSet(st.lits) : LevelOf(l) \in 0 .. b BY <1>2
<1>5. \A j \in 1 .. Len(st.lits) : LevelOf(st.lits[j]) \in 0 .. b BY <1>2, <1>4 DEF ToSet
<1>6. /\ Permuted(st.lits, u.lits)
      /\ \A j \in 1 .. Len(u.lits) : LevelOf(u.lits[j]) <= LevelOf(u.lits[1])
      /\ Rewatches(st.watches, u.watches, ref, ToSet(st.lits))
      /\ BothWatched(st.watches, st.lits, ref) => BothWatched(u.watches, u.lits, ref)
  <2>1. 1 \in {1, 2} OBVIOUS
  <2>2. u = MoveHighest(st, 1, ref) /\ b \in Nat OBVIOUS
  <2> QED BY ONLY <1>2, <1>3, <1>5, <2>1, <2>2, MoveHighestSets
<1>7. /\ u.lits \in Seq(Lit) /\ Len(u.lits) = Len(st.lits) /\ IsInjective(u.lits)
      /\ ToSet(u.lits) = ToSet(st.lits) /\ u.watches \in Lists
  BY <1>6 DEF Permuted, Rewatches
<1>8. \A j \in 1 .. Len(u.lits) : LevelOf(u.lits[j]) \in 0 .. b BY <1>4, <1>7 DEF ToSet
<1>9. /\ Permuted(u.lits, t.lits)
      /\ \A j \in 2 .. Len(t.lits) : LevelOf(t.lits[j]) <= LevelOf(t.lits[2])
      /\ t.lits[1] = u.lits[1]
      /\ Rewatches(u.watches, t.watches, ref, ToSet(u.lits))
      /\ BothWatched(u.watches, u.lits, ref) => BothWatched(t.watches, t.lits, ref)
  <2>1. 2 \in {1, 2} /\ Len(u.lits) > 2 BY <1>2, <1>7
  <2>2. b \in Nat OBVIOUS
  <2> QED BY ONLY <1>1, <1>3, <1>7, <1>8, <2>1, <2>2, MoveHighestSets, ZenonT(60)
<1>10. Permuted(st.lits, t.lits) BY <1>7, <1>9 DEF Permuted
<1>11. HighestFirst(t.lits)
  <2> SUFFICES ASSUME NEW j \in DOMAIN t.lits
               PROVE  /\ LevelOf(t.lits[j]) <= LevelOf(t.lits[1])
                      /\ j # 1 => LevelOf(t.lits[j]) <= LevelOf(t.lits[2])
    BY DEF HighestFirst
  <2>1. t.lits \in Seq(Lit) /\ ToSet(t.lits) = ToSet(u.lits) BY <1>9 DEF Permuted
  <2>2. t.lits[j] \in ToSet(u.lits) BY <2>1 DEF ToSet
  <2>3. \E k \in 1 .. Len(u.lits) : t.lits[j] = u.lits[k] BY <1>7, <2>2 DEF ToSet
  <2>4. LevelOf(t.lits[j]) <= LevelOf(t.lits[1]) BY <1>6, <1>9, <2>3
  <2>5. j # 1 => j \in 2 .. Len(t.lits) BY <2>1
  <2> QED BY <1>9, <2>4, <2>5
<1>12. Rewatches(st.watches, t.watches, ref, ToSet(st.lits))
  <2>1. t.watches \in Lists BY <1>9 DEF Rewatches
  <2>2. ASSUME NEW l \in Lit, NEW x \in ToSet(t.watches[l])
        PROVE  x \in ToSet(st.watches[l]) \/ (Watches(x, ref) /\ x.blocking \in ToSet(st.lits))
    BY <1>6, <1>7, <1>9, <2>2 DEF Rewatches
  <2>3. ASSUME NEW l \in Lit, NEW x \in ToSet(st.watches[l])
        PROVE  x \in ToSet(t.watches[l]) \/ Watches(x, ref)
    BY <1>6, <1>7, <1>9, <2>3 DEF Rewatches
  <2> QED BY <2>1, <2>2, <2>3 DEF Rewatches
<1> QED BY <1>2, <1>6, <1>9, <1>10, <1>11, <1>12

\* Watches of one clause move, outside the loop over a list.
IdleLists == visit = NoVisit /\ visit' = NoVisit
MovesOnly(ref) ==
    \A l \in Lit : \A u \in ToSet(watches[l]) : u \in ToSet(watches'[l]) \/ Watches(u, ref)

LEMMA FirstsRewatched ==
    ASSUME SearchInv, SearchInv', FirstsHeld, IdleLists, NEW ref, MovesOnly(ref),
           \A r \in LiveReferences' :
               r # ref => r \in LiveReferences /\ First(r)' = First(r),
           ref \in LiveReferences' => BothWatched(watches', arena'[ref].lits, ref)
    PROVE  FirstsHeld'
<1> SUFFICES ASSUME NEW r \in LiveReferences', NEW l \in First(r)'
             PROVE  \E u \in Held(l)' : Watches(u, r)
  BY DEF FirstsHeld
<1>1. r \in References' BY DEF LiveReferences
<1>2. l \in Lit
  <2>1. FirstTyped' BY FirstLits, PTL
  <2> QED BY <1>1, <2>1 DEF FirstTyped
<1>3. Held(l)' = ToSet(watches'[l]) /\ Held(l) = ToSet(watches[l])
  BY <1>2, HeldIdle, HeldIdleNext DEF IdleLists
<1>4. CASE r = ref
  <2>1. l \in {arena'[ref].lits[1], arena'[ref].lits[2]} BY <1>4 DEF First
  <2> QED BY <1>3, <1>4, <2>1 DEF BothWatched
<1>5. CASE r # ref
  <2>1. r \in LiveReferences /\ l \in First(r) BY <1>5
  <2>2. PICK u \in Held(l) : Watches(u, r) BY <2>1 DEF FirstsHeld
  <2>3. ~ Watches(u, ref) BY <1>5, <2>2 DEF Watches
  <2> QED BY <1>2, <1>3, <2>2, <2>3 DEF MovesOnly
<1> QED BY <1>4, <1>5

LEMMA BothRewatched ==
    ASSUME SearchInv, SearchInv', BothHeld, IdleLists, NEW ref, MovesOnly(ref),
           \A l \in Lit : \A u \in ToSet(watches'[l]) : u.binary =>
               \/ u \in ToSet(watches[l])
               \/ \E v \in ToSet(watches'[u.blocking]) : v.binary /\ v.blocking = l
    PROVE  BothHeld'
<1> SUFFICES ASSUME NEW l \in Lit, NEW u \in Held(l)', u.binary
             PROVE  \E v \in Held(u.blocking)' : v.binary /\ v.blocking = l
  BY DEF BothHeld
<1>1. u \in ToSet(watches'[l]) BY HeldIdleNext DEF IdleLists
<1>2. CASE u \in ToSet(watches[l])
  <2>1. u \in Held(l) BY <1>2, HeldIdle DEF IdleLists
  <2>2. u.blocking \in Lit BY <2>1, HeldSound
  <2> PICK m \in Lit : m = u.blocking BY <2>2
  <2>3. PICK v \in Held(m) : v.binary /\ v.blocking = l BY <2>1 DEF BothHeld
  <2>4. ~ Watches(v, ref) BY <2>3 DEF Watches
  <2>5. v \in ToSet(watches[m]) BY <2>3, HeldIdle DEF IdleLists
  <2>6. v \in ToSet(watches'[m]) BY <2>4, <2>5 DEF MovesOnly
  <2>7. v \in Held(m)' BY <2>6, HeldIdleNext DEF IdleLists
  <2> QED BY <2>3, <2>7
<1>3. CASE \E v \in ToSet(watches'[u.blocking]) : v.binary /\ v.blocking = l
  <2>1. u.blocking \in Lit
    <3>1. watches' \in Lists BY DEF SearchInv, WatchListsOK
    <3>2. watches'[l] \in Seq(WatchType) BY <3>1 DEF Lists
    <3>3. u \in WatchType BY <1>1, <3>2 DEF ToSet
    <3> QED BY <3>3 DEF WatchType
  <2> PICK m \in Lit : m = u.blocking BY <2>1
  <2>2. Held(m)' = ToSet(watches'[m]) BY HeldIdleNext DEF IdleLists
  <2> QED BY <1>3, <2>2
<1> QED BY <1>1, <1>2, <1>3

\* A large watch of another clause that is still live names a literal of it.
LEMMA BlockingRewatched ==
    ASSUME SearchInv, SearchInv', BlockingInside, IdleLists, NEW ref,
           \A l \in Lit : \A u \in ToSet(watches'[l]) : ~ u.binary =>
               \/ u \in ToSet(watches[l]) /\ u.ref # ref
               \/ u.ref = ref /\ (arena'[ref].garbage \/ u.blocking \in ToSet(arena'[ref].lits)),
           \A r \in References : r # ref =>
               /\ ~ arena'[r].garbage => ~ arena[r].garbage
               /\ ToSet(arena'[r].lits) = ToSet(arena[r].lits)
    PROVE  BlockingInside'
<1> SUFFICES ASSUME NEW l \in Lit, NEW u \in Held(l)', ~ u.binary, ~ arena'[u.ref].garbage
             PROVE  u.blocking \in ToSet(arena'[u.ref].lits)
  BY DEF BlockingInside
<1>1. u \in ToSet(watches'[l]) BY HeldIdleNext DEF IdleLists
<1>2. CASE u \in ToSet(watches[l]) /\ u.ref # ref
  <2>1. u \in Held(l) BY <1>2, HeldIdle DEF IdleLists
  <2>2. u.ref \in References BY <2>1, HeldSound
  <2> QED BY <1>2, <2>1, <2>2 DEF BlockingInside
<1>3. CASE u.ref = ref /\ (arena'[ref].garbage \/ u.blocking \in ToSet(arena'[ref].lits))
  BY <1>3
<1> QED BY <1>1, <1>2, <1>3

\* The conflict is reordered.
ReorderedClauses(ref) ==
    /\ References' = References
    /\ \A r \in References : /\ ToSet(arena'[r].lits) = ToSet(arena[r].lits)
                             /\ arena'[r].garbage = arena[r].garbage
                             /\ arena'[r].redundant = arena[r].redundant
                             /\ r # ref => First(r)' = First(r)
    /\ \A l \in Lit : \A u \in ToSet(watches'[l]) : u \in ToSet(watches[l]) \/ Watches(u, ref)
    /\ MovesOnly(ref)
    /\ ref = 0 => watches' = watches
    /\ ref # 0 => /\ ref \in References
                  /\ arena'[ref].lits \in Seq(Lit) /\ HighestFirst(arena'[ref].lits)
                  /\ Len(arena'[ref].lits) > 2 /\ IsInjective(arena'[ref].lits)

LEMMA ReordersWatched ==
    ASSUME SearchInv, SearchInv', WatchedInv, Analyzing, Reorders, visit' = visit,
           LevelsOf(ToSet(LitsOf(conflict))) \subseteq 0 .. CurrentLevel
    PROVE  /\ ReorderedClauses(conflict.ref) /\ IdleLists
           /\ FirstsHeld' /\ BothHeld' /\ BlockingInside'
<1> PICK ref : ref = conflict.ref OBVIOUS
<1>1. visit = NoVisit /\ conflict # NoConflict BY ConflictTop
<1>2. IdleLists BY <1>1 DEF IdleLists
<1>3. FirstsHeld /\ BothHeld /\ BlockingInside BY DEF WatchedInv
<1>4. CASE ref = 0
  <2>1. UNCHANGED <<arena, watches, visit>> BY <1>4 DEF Reorders
  <2>2. FirstsHeld' /\ BothHeld' /\ BlockingInside' BY <1>3, <2>1, ListsSame
  <2>3. ReorderedClauses(ref)
    BY <1>4, <2>1 DEF ReorderedClauses, References, First, MovesOnly
  <2> QED BY <1>2, <2>2, <2>3
<1>5. CASE ref # 0
  <2>1. ref \in References /\ ~ arena[ref].garbage /\ LitsOf(conflict) = arena[ref].lits
    BY <1>1, <1>5 DEF SearchInv, ConflictSound, LitsOf
  <2> PICK t : t = Reordered(ref) OBVIOUS
  <2>2. arena' = [arena EXCEPT ![ref].lits = t.lits] /\ watches' = t.watches
    BY <1>5 DEF Reorders
  <2>3. \A l \in ToSet(arena[ref].lits) : LevelOf(l) \in 0 .. CurrentLevel
    BY <2>1 DEF LevelsOf
  <2> PICK lits : lits = arena[ref].lits OBVIOUS
  <2>4. /\ Permuted(lits, t.lits) /\ HighestFirst(t.lits)
        /\ Rewatches(watches, t.watches, ref, ToSet(lits))
        /\ BothWatched(watches, lits, ref) => BothWatched(t.watches, t.lits, ref)
    BY <1>1, <2>1, <2>3, ReorderedSets
  <2>5. /\ arena \in Seq(ClauseType) /\ DOMAIN arena = References /\ arena[ref] \in ClauseType
        /\ Len(lits) > 2
    BY <2>1 DEF SearchInv, ArenaSound, References
  <2>6. /\ DOMAIN arena' = DOMAIN arena
        /\ \A r \in References : r # ref => arena'[r] = arena[r]
        /\ arena'[ref] = [arena[ref] EXCEPT !.lits = t.lits]
    BY <2>1, <2>2, <2>5
  <2>7. /\ arena'[ref].lits = t.lits /\ arena'[ref].garbage = arena[ref].garbage
        /\ arena'[ref].redundant = arena[ref].redundant
    BY <2>5, <2>6 DEF ClauseType
  <2>8. References' = References BY <2>6 DEF References
  <2>9. \A r \in References : /\ ToSet(arena'[r].lits) = ToSet(arena[r].lits)
                              /\ arena'[r].garbage = arena[r].garbage
                              /\ arena'[r].redundant = arena[r].redundant
                              /\ r # ref => First(r)' = First(r)
    BY <2>4, <2>6, <2>7 DEF Permuted, First
  <2>10. MovesOnly(ref) BY <2>2, <2>4 DEF Rewatches, MovesOnly
  <2>11. \A l \in Lit : \A u \in ToSet(watches'[l]) :
             u \in ToSet(watches[l]) \/ (Watches(u, ref) /\ u.blocking \in ToSet(lits))
    BY <2>2, <2>4 DEF Rewatches
  <2>12. ReorderedClauses(ref)
    BY <1>5, <2>1, <2>4, <2>5, <2>7, <2>8, <2>9, <2>10, <2>11 DEF ReorderedClauses, Permuted
  <2>13. LiveReferences' = LiveReferences /\ LiveReferences \subseteq References
    BY <2>8, <2>9 DEF LiveReferences
  <2>14. BothWatched(watches, lits, ref)
    <3> SUFFICES ASSUME NEW l \in {lits[1], lits[2]} PROVE \E u \in ToSet(watches[l]) : Watches(u, ref)
      BY DEF BothWatched
    <3>1. ref \in LiveReferences /\ l \in First(ref) BY <2>1 DEF LiveReferences, First
    <3>2. l \in Lit BY <2>1, <3>1, FirstLits DEF FirstTyped
    <3>3. Held(l) = ToSet(watches[l]) BY <1>1, <3>2, HeldIdle
    <3> QED BY <1>3, <3>1, <3>3 DEF FirstsHeld
  <2>15. BothWatched(watches', arena'[ref].lits, ref) BY <2>2, <2>4, <2>7, <2>14
  <2>16. FirstsHeld'
    <3>1. \A r \in LiveReferences' : r # ref => r \in LiveReferences /\ First(r)' = First(r)
      BY <2>9, <2>13
    <3> QED BY <1>2, <1>3, <2>10, <2>15, <3>1, FirstsRewatched
  <2>17. BothHeld'
    <3>1. \A l \in Lit : \A u \in ToSet(watches'[l]) : u.binary => u \in ToSet(watches[l])
      BY <2>11 DEF Watches
    <3> QED BY <1>2, <1>3, <2>10, <3>1, BothRewatched
  <2>18. BlockingInside'
    <3>1. ASSUME NEW l \in Lit, NEW u \in ToSet(watches'[l]), ~ u.binary
          PROVE  \/ u \in ToSet(watches[l]) /\ u.ref # ref
                 \/ u.ref = ref /\ (arena'[ref].garbage \/ u.blocking \in ToSet(arena'[ref].lits))
      <4>1. CASE u \in ToSet(watches[l]) /\ u.ref = ref
        <5>1. u \in Held(l) BY <1>1, <4>1, HeldIdle
        <5>2. u.blocking \in ToSet(arena[ref].lits)
          BY <1>3, <2>1, <3>1, <4>1, <5>1 DEF BlockingInside
        <5> QED BY <2>1, <2>9, <4>1, <5>2
      <4>2. CASE Watches(u, ref) /\ u.blocking \in ToSet(lits)
        BY <2>1, <2>9, <4>2 DEF Watches
      <4> QED BY <2>11, <4>1, <4>2
    <3>2. \A r \in References : r # ref =>
             /\ ~ arena'[r].garbage => ~ arena[r].garbage
             /\ ToSet(arena'[r].lits) = ToSet(arena[r].lits)
      BY <2>9
    <3> QED BY <1>2, <1>3, <3>1, <3>2, BlockingRewatched
  <2> QED BY <1>2, <2>12, <2>16, <2>17, <2>18
<1> QED BY <1>4, <1>5

LEMMA ReordersKept ==
    ASSUME SearchInv, SearchInv', WatchedInv, Analyzing, UNCHANGED <<trailVars, visit, formula>>,
           ReorderedClauses(conflict.ref), IdleLists, FirstsHeld', BothHeld', BlockingInside',
           Retreating',
           \A l \in Lit : \A w \in Held(l) : OfConflict(l, w) => InHand(l, w)',
           conflict.ref # 0 => \A l, w : Watches(w, conflict.ref) => InHand(l, w)'
    PROVE  WatchedInv'
<1> PICK ref : ref = conflict.ref OBVIOUS
<1>1. todo = <<>> BY DEF Analyzing
<1>2. Calm
  <2>1. Reach' <= Reach BY StillReach
  <2> QED BY <2>1, CalmStill DEF trailVars
<1>3. AtRoot' = AtRoot BY StillRoot
<1>4. \A l \in Lit : /\ Held(l) = ToSet(watches[l]) /\ Seen(l) = ToSet(watches[l])
                     /\ Held(l)' = ToSet(watches'[l]) /\ Seen(l)' = ToSet(watches'[l])
  BY HeldIdle, HeldIdleNext DEF IdleLists
<1>5. \A r \in References :
        /\ ToSet(arena'[r].lits) = ToSet(arena[r].lits)
        /\ arena'[r].garbage = arena[r].garbage
        /\ arena'[r].redundant = arena[r].redundant
        /\ r # ref => First(r)' = First(r)
  BY DEF ReorderedClauses
<1>6. References' = References /\ LiveReferences' = LiveReferences /\ LiveReferences \subseteq References
  BY <1>5 DEF ReorderedClauses, LiveReferences
<1>7. Attention'
  <2> SUFFICES ASSUME NEW l \in Lit, NEW w \in Seen(l)', Settled(l)', IsLive(w)'
               PROVE  \/ Attended(l, w)'
                      \/ /\ w \in Seen(l) /\ IsLive(w)
                         /\ InHand(l, w) => Attended(l, w)'
                         /\ \A t \in Partners(l, w) : values[t] = 1 => t \in Partners(l, w)'
    BY <1>2, AttentionKept DEF WatchedInv
  <2>1. CASE ref # 0 /\ Watches(w, ref) BY <2>1 DEF Attended
  <2>2. CASE ref = 0 \/ ~ Watches(w, ref)
    <3>1. w \in Seen(l) /\ w \in Held(l)
      <4>1. CASE ref = 0
        <5>1. watches' = watches BY <4>1 DEF ReorderedClauses
        <5> QED BY <1>4, <5>1
      <4>2. CASE ~ Watches(w, ref)
        <5>1. w \in ToSet(watches'[l]) BY <1>4
        <5> QED BY <1>4, <4>2, <5>1 DEF ReorderedClauses
      <4> QED BY <2>2, <4>1, <4>2
    <3>2. ~ w.binary => w.ref \in References /\ w.ref # 0 BY <3>1, HeldSound
    <3>3. ~ w.binary => w.ref # ref BY <2>2, <3>2 DEF Watches
    <3>4. IsLive(w) BY <1>5, <3>2 DEF IsLive
    <3>5. Partners(l, w)' = Partners(l, w) BY <1>5, <3>2, <3>3 DEF Partners
    <3>6. InHand(l, w) => Attended(l, w)'
      <4>1. InHand(l, w) => OfConflict(l, w) BY <1>1 DEF InHand
      <4> QED BY <3>1, <4>1 DEF Attended
    <3> QED BY <3>1, <3>4, <3>5, <3>6
  <2> QED BY <2>1, <2>2
<1>8. Kept'
  <2>1. \A l \in Lit : \A w \in Held(l) : w.binary => w \in Held(l)'
    BY <1>4 DEF ReorderedClauses, MovesOnly, Watches
  <2>2. \A r \in LiveReferences : ~ arena[r].redundant =>
          /\ r \in LiveReferences' /\ ~ arena'[r].redundant
          /\ ToSet(arena'[r].lits) \subseteq ToSet(arena[r].lits)
    BY <1>5, <1>6
  <2>3. formula' = formula OBVIOUS
  <2> QED BY <1>3, <2>1, <2>2, <2>3, KeptStays DEF WatchedInv
<1> QED BY <1>7, <1>8 DEF WatchedInv

\* The literal that comes next in a clause with the highest ones first.
LEMMA HighestRest ==
    ASSUME SearchInv, NEW s \in Seq(Lit), HighestFirst(s), IsInjective(s), Len(s) > 2,
           NEW forced \in ToSet(s), \A l \in ToSet(s) : l # forced => LevelOf(l) < LevelOf(forced)
    PROVE  /\ s[1] = forced
           /\ \A m \in ToSet(s) \ {forced} : \A o \in {s[1], s[2]} \ {forced} :
                 LevelOf(m) <= LevelOf(o)
<1>1. DOMAIN s = 1 .. Len(s) /\ Len(s) \in Nat /\ 1 \in DOMAIN s OBVIOUS
<1>2. s[1] = forced
  <2>1. s[1] \in ToSet(s) BY <1>1 DEF ToSet
  <2>2. PICK j \in DOMAIN s : s[j] = forced BY DEF ToSet
  <2>3. LevelOf(forced) <= LevelOf(s[1]) BY <2>2 DEF HighestFirst
  <2>4. s[1] \in Lit /\ forced \in Lit BY <1>1, <2>2
  <2>5. LevelOf(s[1]) \in Nat /\ LevelOf(forced) \in Nat BY <2>4, Values DEF SearchInv
  <2> QED BY <2>1, <2>3, <2>5
<1>3. ASSUME NEW m \in ToSet(s) \ {forced}, NEW o \in {s[1], s[2]} \ {forced}
      PROVE  LevelOf(m) <= LevelOf(o)
  <2>1. o = s[2] BY <1>2
  <2>2. PICK j \in DOMAIN s : s[j] = m BY DEF ToSet
  <2>3. j # 1 BY <1>2, <2>2
  <2> QED BY <2>1, <2>2, <2>3 DEF HighestFirst
<1> QED BY <1>2, <1>3

LEMMA ForcedConflictKept ==
    ASSUME SearchInv, SearchInv', WatchedInv, PlanInv, AnalyzeConflict, conflict' = NoConflict
    PROVE  WatchedInv' /\ PlanInv'
<1>0. /\ Analyzing /\ Reorders
      /\ UNCHANGED <<trailVars, reason, visit, result, formula, resolvent>>
  BY ForcedConflictFacts
<1> PICK lits, top, forced, jump, s, t :
      /\ lits = ToSet(LitsOf(conflict)) /\ top = Max(LevelsOf(lits))
      /\ ForcesNext(conflict.ref, lits, top, forced, jump, s, t)
      /\ todo' = s \o <<t>>
  BY ForcedConflictFacts
<1>1. /\ visit = NoVisit /\ conflict # NoConflict /\ lits \in SUBSET Lit
      /\ top \in 0 .. CurrentLevel
      /\ \A l \in lits : values[l] = -1 /\ LevelOf(l) <= top /\ LevelOf(l) \in Nat
  BY <1>0, ConflictTop
<1>2. /\ top > 0 /\ forced \in lits /\ LevelOf(forced) = top
      /\ \A l \in lits : LevelOf(l) = top => l = forced
      /\ Backs(s) /\ top - 1 \in TargetsOf(s)
      /\ t \in StepType /\ t.op \in {"forceBinary", "forceLarge"} /\ t.lit = forced
      /\ conflict.ref = 0 => t.op = "forceBinary" /\ t.other \in lits \ {forced}
      /\ conflict.ref # 0 => t.op = "forceLarge" /\ t.ref = conflict.ref
  BY DEF ForcesNext
<1>3. CurrentLevel \in Nat /\ CurrentLevel' = CurrentLevel /\ \A l : LevelOf(l)' = LevelOf(l)
  BY <1>0, Unmoved, SMTT(30) DEF SearchInv, TrailInv, TrailTypeOK, CurrentLevel
<1>4. LevelsOf(ToSet(LitsOf(conflict))) \subseteq 0 .. CurrentLevel
  <2>1. \A l \in lits : LevelOf(l) \in 0 .. CurrentLevel BY <1>1, <1>3
  <2> QED BY <2>1 DEF LevelsOf
<1>5. /\ ReorderedClauses(conflict.ref) /\ IdleLists
      /\ FirstsHeld' /\ BothHeld' /\ BlockingInside'
  BY <1>0, <1>4, ReordersWatched
<1>6. /\ Targets' = TargetsOf(s)
      /\ \A i \in DOMAIN todo' : todo'[i].op = "backtrack" \/ todo'[i] = t
      /\ \E i \in DOMAIN todo' : todo'[i] = t
  <2> PICK u : u = <<t>> OBVIOUS
  <2>1. u \in Seq(StepType) /\ DOMAIN u = {1} /\ u[1] = t /\ Len(u) = 1 BY <1>2, OneStep
  <2>2. \A i \in DOMAIN u : u[i].op # "backtrack" BY <1>2, <2>1
  <2>3. todo' = s \o u OBVIOUS
  <2>4. /\ Targets' = TargetsOf(s) /\ Len(s) \in Nat
        /\ DOMAIN todo' = 1 .. Len(s) + Len(u)
        /\ \A i \in 1 .. Len(s) : todo'[i].op = "backtrack"
        /\ \A j \in 1 .. Len(u) : todo'[Len(s) + j] = u[j]
        /\ \A i \in DOMAIN todo' : i \in 1 .. Len(s) \/ \E j \in 1 .. Len(u) : i = Len(s) + j
    <3>1. Backs(s) BY <1>2
    <3> QED BY ONLY <2>1, <2>2, <2>3, <3>1, PlanFacts
  <2>5. 1 \in 1 .. Len(u) /\ \A j \in 1 .. Len(u) : j = 1 BY <2>1
  <2>6. Len(s) + 1 \in DOMAIN todo' /\ todo'[Len(s) + 1] = t BY <2>1, <2>4, <2>5
  <2> QED BY <2>1, <2>4, <2>5, <2>6
<1>7. Retreating'
  <2>1. top - 1 \in Targets' BY <1>2, <1>6
  <2>2. top - 1 < CurrentLevel' BY <1>1, <1>3
  <2> QED BY <2>1, <2>2 DEF Retreating
<1>8. \A l, w : OfForce(l, w, t) => InHand(l, w)' BY <1>6 DEF InHand
<1>9. \A l \in Lit : \A w \in Held(l) : OfConflict(l, w) => InHand(l, w)'
  <2> SUFFICES ASSUME NEW l \in Lit, NEW w \in Held(l), OfConflict(l, w) PROVE OfForce(l, w, t)
    BY <1>8
  <2>1. CASE w.binary
    <3>1. conflict.ref = 0 /\ lits = {l, w.blocking} BY <2>1 DEF OfConflict, LitsOf
    <3>2. {t.lit, t.other} = {l, w.blocking} BY <1>2, <3>1
    <3> QED BY <1>2, <2>1, <3>1, <3>2 DEF OfForce
  <2>2. CASE ~ w.binary
    <3>1. conflict.ref = w.ref BY <2>2 DEF OfConflict
    <3>2. w.ref # 0 BY <2>2, HeldSound
    <3> QED BY <1>2, <2>2, <3>1, <3>2 DEF OfForce
  <2> QED BY <2>1, <2>2
<1>10. conflict.ref # 0 => \A l, w : Watches(w, conflict.ref) => InHand(l, w)'
  BY <1>2, <1>8 DEF OfForce, Watches
<1>11. WatchedInv' BY <1>0, <1>5, <1>7, <1>9, <1>10, ReordersKept
<1>12. VisitPlaced' BY <1>0, <1>5, NoPlaceNext DEF IdleLists
<1>13. ConflictOnTop'
  <2>1. \A i \in DOMAIN todo' : todo'[i].op \notin {"deduce", "failed"} BY <1>2, <1>6
  <2>2. ~ Analysis' BY <2>1 DEF Analysis
  <2> QED BY <2>2, NoAnalysis
<1>14. ForcesPaired' BY <1>2, <1>6 DEF ForcesPaired
<1>15. ForcesTop'
  <2> SUFFICES ASSUME NEW i \in DOMAIN todo', todo'[i].op = "forceLarge",
                      NEW m \in ToSet(arena'[todo'[i].ref].lits) \ {todo'[i].lit},
                      NEW o \in {arena'[todo'[i].ref].lits[1], arena'[todo'[i].ref].lits[2]}
                                  \ {todo'[i].lit}
               PROVE  LevelOf(m)' <= LevelOf(o)'
    BY DEF ForcesTop, First
  <2>1. todo'[i] = t BY <1>6
  <2>2. conflict.ref # 0 /\ t.ref = conflict.ref /\ t.lit = forced BY <1>2, <2>1
  <2> PICK c : c = arena'[conflict.ref].lits OBVIOUS
  <2>3. c \in Seq(Lit) /\ HighestFirst(c) /\ Len(c) > 2 /\ IsInjective(c)
    BY <1>5, <2>2 DEF ReorderedClauses
  <2>4. ToSet(c) = lits
    <3>1. conflict.ref \in References /\ ToSet(arena'[conflict.ref].lits) = ToSet(arena[conflict.ref].lits)
      BY <1>5, <2>2 DEF ReorderedClauses
    <3> QED BY <2>2, <3>1 DEF LitsOf
  <2>5. \A l \in ToSet(c) : l # forced => LevelOf(l) < LevelOf(forced)
    <3> SUFFICES ASSUME NEW l \in lits, l # forced PROVE LevelOf(l) < top
      BY <1>2, <2>4
    <3>1. LevelOf(l) # top /\ LevelOf(l) <= top /\ LevelOf(l) \in Nat BY <1>1, <1>2
    <3> QED BY <1>1, <3>1
  <2>6. m \in ToSet(c) \ {forced} /\ o \in {c[1], c[2]} \ {forced} BY <2>1, <2>2
  <2>7. LevelOf(m) <= LevelOf(o) BY <1>2, <2>3, <2>4, <2>5, <2>6, HighestRest
  <2> QED BY <1>3, <2>7
<1> QED BY <1>11, <1>12, <1>13, <1>14, <1>15 DEF PlanInv

\* Two literals of highest level come first.
LEMMA HighestTwo ==
    ASSUME SearchInv, NEW s \in Seq(Lit), HighestFirst(s), Len(s) > 2, NEW top \in Nat,
           \A l \in ToSet(s) : LevelOf(l) <= top,
           NEW a \in ToSet(s), NEW b \in ToSet(s), a # b, LevelOf(a) = top, LevelOf(b) = top
    PROVE  LevelOf(s[1]) = top /\ LevelOf(s[2]) = top
<1>1. DOMAIN s = 1 .. Len(s) /\ Len(s) \in Nat /\ 1 \in DOMAIN s /\ 2 \in DOMAIN s OBVIOUS
<1>2. PICK i \in DOMAIN s : s[i] = a BY DEF ToSet
<1>3. PICK j \in DOMAIN s : s[j] = b BY DEF ToSet
<1>4. i # 1 \/ j # 1 BY <1>2, <1>3
<1>5. top <= LevelOf(s[1]) BY <1>2 DEF HighestFirst
<1>6. top <= LevelOf(s[2]) BY <1>2, <1>3, <1>4 DEF HighestFirst
<1>7. LevelOf(s[1]) <= top /\ LevelOf(s[2]) <= top BY <1>1 DEF ToSet
<1>8. LevelOf(s[1]) \in Nat /\ LevelOf(s[2]) \in Nat
  <2>1. s[1] \in Lit /\ s[2] \in Lit BY <1>1
  <2> QED BY <2>1, Values DEF SearchInv
<1> QED BY <1>5, <1>6, <1>7, <1>8

LEMMA ResolvedConflictTop ==
    ASSUME SearchInv, AnalyzeConflict, conflict' # NoConflict,
           NEW lits, lits = ToSet(LitsOf(conflict)), NEW top, top = Max(LevelsOf(lits))
    PROVE  /\ resolved' = 0
           /\ \E a, b \in lits : a # b /\ LevelOf(a) = top /\ LevelOf(b) = top
<1>1. Analyzing BY DEF AnalyzeConflict
<1>2. PICK l \in lits : LevelOf(l) = top BY <1>1, ConflictTop
<1> PICK forced : forced = CHOOSE m \in lits : LevelOf(m) = top OBVIOUS
<1>3. resolved' = 0 /\ ~ (\A m \in lits : LevelOf(m) = top => m = forced)
  BY DEF AnalyzeConflict
<1>4. forced \in lits /\ LevelOf(forced) = top BY <1>2
<1> QED BY <1>3, <1>4

LEMMA ResolvedConflictKept ==
    ASSUME SearchInv, SearchInv', WatchedInv, PlanInv, AnalyzeConflict, conflict' # NoConflict
    PROVE  WatchedInv' /\ PlanInv'
<1>0. /\ Analyzing /\ Reorders /\ conflict' = conflict
      /\ UNCHANGED <<trailVars, reason, visit, result, formula>>
  BY ResolvedConflictFacts
<1> PICK lits, top, s, t :
      /\ lits = ToSet(LitsOf(conflict)) /\ top = Max(LevelsOf(lits))
      /\ ResolvesNext(lits, top, s, t)
      /\ resolvent' = AboveRoot(lits)
      /\ todo' = s \o <<t>>
  BY ResolvedConflictFacts
<1>1. /\ visit = NoVisit /\ conflict # NoConflict /\ lits \in SUBSET Lit
      /\ top \in 0 .. CurrentLevel
      /\ \A l \in lits : values[l] = -1 /\ LevelOf(l) <= top /\ LevelOf(l) \in Nat
  BY <1>0, ConflictTop
<1>2. CurrentLevel \in Nat /\ CurrentLevel' = CurrentLevel /\ \A l : LevelOf(l)' = LevelOf(l)
      /\ \A D : AboveRoot(D)' = AboveRoot(D)
  BY <1>0, Unmoved, SMTT(30) DEF SearchInv, TrailInv, TrailTypeOK, CurrentLevel
<1>3. LevelsOf(ToSet(LitsOf(conflict))) \subseteq 0 .. CurrentLevel
  <2>1. \A l \in lits : LevelOf(l) \in 0 .. CurrentLevel BY <1>1, <1>2
  <2> QED BY <2>1 DEF LevelsOf
<1>4. /\ ReorderedClauses(conflict.ref) /\ IdleLists
      /\ FirstsHeld' /\ BothHeld' /\ BlockingInside'
  BY <1>0, <1>3, ReordersWatched
<1>5. /\ top = CurrentLevel \/ top \in Targets'
      /\ resolved' = 0
  BY <1>0, ResolvedPlan, ResolvedConflictTop
<1>6. \E a, b \in lits : a # b /\ LevelOf(a) = top /\ LevelOf(b) = top BY ResolvedConflictTop
<1>7. Retreating' BY <1>0, <1>1 DEF Retreating, NoConflict
<1>8. \A l, w : OfConflict(l, w)' => InHand(l, w)' BY DEF InHand
<1>9. \A l, w : OfConflict(l, w) => OfConflict(l, w)' BY <1>0 DEF OfConflict, NoConflict
<1>10. conflict.ref # 0 => \A l, w : Watches(w, conflict.ref) => OfConflict(l, w)'
  BY <1>0, <1>1 DEF OfConflict, Watches, NoConflict
<1>11. WatchedInv'
  <2>1. \A l \in Lit : \A w \in Held(l) : OfConflict(l, w) => InHand(l, w)' BY <1>8, <1>9
  <2>2. conflict.ref # 0 => \A l, w : Watches(w, conflict.ref) => InHand(l, w)' BY <1>8, <1>10
  <2> QED BY <1>0, <1>4, <1>7, <2>1, <2>2, ReordersKept
<1>12. VisitPlaced' BY <1>0, <1>4, NoPlaceNext DEF IdleLists
<1>13. \A i \in DOMAIN todo' : todo'[i].op \notin {"forceLarge", "newBinary"}
  <2>1. AnalysisStep(top, t) BY AnalysisStepFacts DEF ResolvesNext
  <2>2. t \in StepType /\ t.op \in {"deduce", "failed"} BY <2>1 DEF AnalysisStep
  <2>3. Backs(s)
    <3> PICK k \in Nat : k = CurrentLevel BY <1>2
    <3>1. top > 0 /\ s = Lower(k, top) BY DEF ResolvesNext
    <3>2. top \in 1 .. k BY <1>1, <3>1
    <3> QED BY <3>1, <3>2, LowerFacts
  <2> PICK u : u = <<t>> OBVIOUS
  <2>4. u \in Seq(StepType) /\ DOMAIN u = {1} /\ u[1] = t /\ Len(u) = 1 BY <2>2, OneStep
  <2>5. \A i \in DOMAIN u : u[i].op # "backtrack" BY <2>2, <2>4
  <2>6. todo' = s \o u OBVIOUS
  <2>7. /\ Len(s) \in Nat
        /\ \A i \in 1 .. Len(s) : todo'[i].op = "backtrack"
        /\ \A j \in 1 .. Len(u) : todo'[Len(s) + j] = u[j]
        /\ \A i \in DOMAIN todo' : i \in 1 .. Len(s) \/ \E j \in 1 .. Len(u) : i = Len(s) + j
    BY ONLY <2>3, <2>4, <2>5, <2>6, PlanFacts
  <2>8. \A j \in 1 .. Len(u) : j = 1 BY <2>4
  <2> QED BY <2>2, <2>4, <2>7, <2>8
<1>14. ConflictOnTop'
  <2>1. \A l \in ConflictWatched' : LevelOf(l) = top
    <3>1. CASE conflict.ref = 0
      <4>1. ConflictWatched' = lits BY <1>0, <3>1 DEF ConflictWatched, LitsOf
      <4>2. PICK a, b \in Lit : conflict.lits = <<a, b>>
        BY <1>1, <3>1 DEF SearchInv, ConflictSound, ArenaSound, References
      <4>3. lits = {a, b}
        <5>1. lits = ToSet(<<a, b>>) BY <3>1, <4>2 DEF LitsOf
        <5>2. DOMAIN <<a, b>> = {1, 2} /\ <<a, b>>[1] = a /\ <<a, b>>[2] = b OBVIOUS
        <5> QED BY <5>1, <5>2 DEF ToSet
      <4>4. \A l \in lits : LevelOf(l) = top BY <1>6, <4>3
      <4> QED BY <4>1, <4>4
    <3>2. CASE conflict.ref # 0
      <4> PICK c : c = arena'[conflict.ref].lits OBVIOUS
      <4>1. c \in Seq(Lit) /\ HighestFirst(c) /\ Len(c) > 2 BY <1>4, <3>2 DEF ReorderedClauses
      <4>2. ToSet(c) = lits
        <5>1. conflict.ref \in References /\ ToSet(arena'[conflict.ref].lits) = ToSet(arena[conflict.ref].lits)
          BY <1>4, <3>2 DEF ReorderedClauses
        <5> QED BY <3>2, <5>1 DEF LitsOf
      <4>3. ConflictWatched' = {c[1], c[2]} BY <1>0, <3>2 DEF ConflictWatched, First
      <4>4. top \in Nat /\ \A l \in ToSet(c) : LevelOf(l) <= top BY <1>1, <4>2
      <4>5. LevelOf(c[1]) = top /\ LevelOf(c[2]) = top BY <1>6, <4>1, <4>2, <4>4, HighestTwo
      <4> QED BY <4>3, <4>5
    <3> QED BY <3>1, <3>2
  <2>2. ToSet(LitsOf(conflict)') = lits
    <3>1. CASE conflict.ref = 0 BY <1>0, <3>1 DEF LitsOf
    <3>2. CASE conflict.ref # 0
      <4>1. conflict.ref \in References /\ ToSet(arena'[conflict.ref].lits) = ToSet(arena[conflict.ref].lits)
        BY <1>4, <3>2 DEF ReorderedClauses
      <4> QED BY <1>0, <3>2, <4>1 DEF LitsOf
    <3> QED BY <3>1, <3>2
  <2>4. \A l \in ConflictWatched' : LevelOf(l)' = CurrentLevel' \/ LevelOf(l)' \in Targets'
    BY <1>2, <1>5, <2>1
  <2>5. resolvent' = AboveRoot(ToSet(LitsOf(conflict)))'
    BY <1>2, <2>2 DEF AboveRoot
  <2>6. resolved' \in Nat BY <1>5
  <2> QED BY <2>4, <2>5, <2>6 DEF ConflictOnTop
<1>15. ForcesTop' /\ ForcesPaired' BY <1>13, NoForces
<1> QED BY <1>11, <1>12, <1>14, <1>15 DEF PlanInv

LEMMA AnalyzeKept ==
    SearchInv /\ SearchInv' /\ WatchedInv /\ PlanInv /\ AnalyzeConflict => WatchedInv' /\ PlanInv'
BY ForcedConflictKept, ResolvedConflictKept

\* A conflict that has been analyzed is not settled once its level is to be left.
LEMMA AnalyzedInHand ==
    ASSUME SearchInv, Doing("deduce") \/ Doing("failed"),
           NEW l \in Lit, NEW w \in Held(l), InHand(l, w)
    PROVE  l \in ConflictWatched
<1>1. /\ 1 \in DOMAIN todo /\ Head(todo) = todo[1] /\ todo \in Seq(StepType)
      /\ Doing("deduce") => Len(todo) = 1
      /\ Doing("failed") => \A i \in DOMAIN todo : i # 1 => todo[i].op = "unit"
  BY AnalysisFacts
<1>2. \A i \in DOMAIN todo : todo[i].op \notin {"forceBinary", "forceLarge"}
  <2>1. CASE Doing("deduce")
    <3>1. todo[1].op = "deduce" /\ DOMAIN todo = {1} BY <1>1, <2>1 DEF Doing
    <3> QED BY <3>1
  <2>2. CASE Doing("failed")
    <3>1. todo[1].op = "failed" BY <1>1, <2>2 DEF Doing
    <3> QED BY <1>1, <2>2, <3>1
  <2> QED BY <2>1, <2>2
<1>3. OfConflict(l, w) BY <1>2 DEF InHand, OfForce
<1>4. CASE w.binary
  <2>1. conflict.ref = 0 /\ ToSet(conflict.lits) = {l, w.blocking} BY <1>3, <1>4 DEF OfConflict
  <2> QED BY <2>1 DEF ConflictWatched
<1>5. CASE ~ w.binary
  <2>1. conflict.ref = w.ref BY <1>3, <1>5 DEF OfConflict
  <2>2. w.ref # 0 /\ l \in First(w.ref) BY <1>5, HeldSound
  <2> QED BY <2>1, <2>2 DEF ConflictWatched
<1> QED BY <1>4, <1>5

LEMMA ConflictUnsettled ==
    ASSUME SearchInv, PlanInv, ~ undo.active, Doing("deduce") \/ Doing("failed"),
           UNCHANGED trailVars, Retreating',
           NEW l \in Lit, NEW w \in Held(l), InHand(l, w)
    PROVE  ~ Settled(l)'
<1>1. /\ Targets = {} /\ conflict # NoConflict /\ 1 \in DOMAIN todo /\ Head(todo) = todo[1]
      /\ \E m \in resolvent : LevelOf(m) = CurrentLevel /\ LevelOf(m) > 0
  BY AnalysisFacts DEF Current
<1>2. Analysis BY <1>1 DEF Analysis, Doing
<1>3. l \in ConflictWatched BY AnalyzedInHand
<1>4. LevelOf(l) = CurrentLevel BY <1>1, <1>2, <1>3 DEF PlanInv, ConflictOnTop
<1>5. CurrentLevel \in Nat /\ CurrentLevel > 0 /\ Len(frames) = CurrentLevel
  <2>1. CurrentLevel \in Nat BY ReachFacts
  <2> QED BY <1>1, <2>1 DEF CurrentLevel
<1>6. values[l] = -1 BY <1>1, <1>3, WatchedSafe DEF Safe
<1>7. TrailInv /\ TrailTypeOK /\ LoopBounds BY DEF SearchInv, TrailInv
<1> PICK i \in Nat : i = position[Idx(l)] + 1
  <2>1. position[Idx(l)] \in Nat BY <1>7, Values
  <2> QED BY <2>1
<1>8. i \in Live /\ Live = 1 .. Len(trail) /\ Idx(trail[i]) = Idx(l) /\ trail[i] \in Lit
  <2>1. position[Idx(l)] < Len(trail) /\ Idx(trail[position[Idx(l)] + 1]) = Idx(l)
        /\ trail[position[Idx(l)] + 1] \in Lit
    BY <1>4, <1>5, <1>6, <1>7, Assigned
  <2>2. Live = 1 .. Len(trail) BY DEF Live
  <2>3. position[Idx(l)] \in Nat /\ Len(trail) \in Nat BY <1>7, Values, LiveFacts
  <2> QED BY <2>1, <2>2, <2>3
<1>9. trail[i] = -l
  <2>1. values[trail[i]] = 1 BY <1>8 DEF SearchInv, TrailInv, SlotsTrue
  <2>2. trail[i] # l BY <1>6, <2>1
  <2>3. -(-l) = l /\ -l \in Lit BY LitFacts
  <2> QED BY <1>8, <2>2, <2>3, LitFacts
<1>10. frames[CurrentLevel].trail < i
  <2> SUFFICES ASSUME ~ (frames[CurrentLevel].trail < i) PROVE FALSE
    OBVIOUS
  <2>1. frames[CurrentLevel].trail \in Nat BY <1>5, ReachFacts
  <2>2. i \in 1 .. frames[CurrentLevel].trail BY <1>8, <2>1
  <2>3. level[Idx(trail[i])] < CurrentLevel
    BY <1>5, <2>2 DEF SearchInv, TrailInv, FramesDelimitLevels
  <2> QED BY <1>4, <1>5, <1>8, <2>3 DEF LevelOf
<1>11. Live' = Live /\ trail' = trail /\ Reach' = frames[CurrentLevel].trail
  <2>1. UNCHANGED <<trail, undo, frames>> BY DEF trailVars
  <2>2. CurrentLevel' = CurrentLevel BY <2>1 DEF CurrentLevel
  <2>3. Bottom' = frames[CurrentLevel].trail BY <1>5, <2>1, <2>2 DEF Bottom
  <2> QED BY <2>1, <2>3 DEF Live, Reach
<1>12. frames[CurrentLevel].trail \in Nat BY <1>5, ReachFacts
<1>13. \E k \in Live' : trail'[k] = -l /\ ~ (k <= Reach') BY <1>8, <1>9, <1>10, <1>11, <1>12
<1> QED BY <1>13 DEF Settled

\* The negation of the decision is learned, at the root.
LEMMA FailedDoneKept ==
    SearchInv /\ SearchInv' /\ ~ undo.active /\ WatchedInv /\ PlanInv /\ FailedDone
        => WatchedInv' /\ PlanInv'
<1> SUFFICES ASSUME SearchInv, SearchInv', ~ undo.active, WatchedInv, PlanInv, FailedDone
             PROVE  WatchedInv' /\ PlanInv'
  OBVIOUS
<1> PICK u : u = LearnedUnit(-frames[1].decision) OBVIOUS
<1>1. /\ Doing("failed") /\ conflict' = NoConflict
      /\ todo' = <<Backtrack(0)>> \o Tail(todo) \o <<u>>
      /\ UNCHANGED <<trailVars, arena, watches, visit, formula>>
  BY DEF FailedDone, loopVars
<1>2. /\ todo # <<>> /\ todo \in Seq(StepType) /\ CurrentLevel = 1
      /\ \A i \in DOMAIN todo : i # 1 => todo[i].op = "unit"
  BY <1>1, AnalysisFacts
<1>3. u \in StepType /\ u.op = "unit"
  <2>1. u \in StepType BY FailedLiteral, StepTypes, <1>1
  <2> QED BY <2>1 DEF LearnedUnit
<1>4. Backtrack(0) \in StepType /\ Backtrack(0).op = "backtrack" /\ Backtrack(0).to = 0
  BY StepTypes DEF Backtrack
<1>5. \A i \in DOMAIN Tail(todo) : Tail(todo)[i].op = "unit"
  <2>1. \A i \in DOMAIN Tail(todo) : /\ i + 1 \in DOMAIN todo /\ i + 1 # 1
                                     /\ Tail(todo)[i] = todo[i + 1]
    BY <1>2
  <2> QED BY <1>2, <2>1
<1> DEFINE u1 == <<Backtrack(0)>>
           v == Tail(todo) \o <<u>>
<1>6. /\ u1 \in Seq(StepType) /\ v \in Seq(StepType) /\ todo' = u1 \o v
      /\ \A i \in DOMAIN v : v[i].op = "unit"
  <2>1. <<Backtrack(0)>> \in Seq(StepType) /\ Tail(todo) \in Seq(StepType) /\ <<u>> \in Seq(StepType)
    BY <1>2, <1>3, <1>4
  <2> PICK t \in Seq(StepType) : t = Tail(todo) BY <2>1
  <2> PICK n \in Nat : n = Len(t) OBVIOUS
  <2>2. /\ DOMAIN v = 1 .. n + 1 /\ \A i \in 1 .. n + 1 : v[i] = IF i <= n THEN t[i] ELSE u
        /\ DOMAIN t = 1 .. n /\ v \in Seq(StepType)
    BY <2>1
  <2>3. \A i \in DOMAIN v : v[i].op = "unit" BY <1>3, <1>5, <2>2
  <2>4. u1 \o (t \o <<u>>) = (u1 \o t) \o <<u>> BY <2>1
  <2>5. todo' = u1 \o v BY <1>1, <2>4
  <2> QED BY <2>1, <2>2, <2>3, <2>5
<1>7. Backs(u1) /\ TargetsOf(u1) = {0}
  <2>1. DOMAIN u1 = {1} /\ u1[1] = Backtrack(0) OBVIOUS
  <2> HIDE DEF u1
  <2> QED BY <1>4, <1>6, <2>1 DEF Backs, TargetsOf
<1>8. /\ Targets' = {0}
      /\ \A i \in DOMAIN todo' : todo'[i].op \in {"backtrack", "unit"}
  <2> HIDE DEF u1, v
  <2>1. \A i \in DOMAIN v : v[i].op # "backtrack" BY <1>6
  <2>2. /\ Targets' = TargetsOf(u1) /\ Len(u1) \in Nat /\ Len(v) \in Nat
        /\ \A i \in 1 .. Len(u1) : todo'[i].op = "backtrack"
        /\ \A j \in 1 .. Len(v) : todo'[Len(u1) + j] = v[j]
        /\ \A i \in DOMAIN todo' : i \in 1 .. Len(u1) \/ \E j \in 1 .. Len(v) : i = Len(u1) + j
    <3>1. Backs(u1) BY <1>7
    <3>2. v \in Seq(StepType) BY <1>6
    <3>3. todo' = u1 \o v BY <1>6
    <3> QED BY ONLY <2>1, <3>1, <3>2, <3>3, PlanFacts
  <2>3. DOMAIN v = 1 .. Len(v) BY <1>6
  <2> QED BY <1>6, <1>7, <2>2, <2>3
<1>9. CurrentLevel' = 1 BY <1>1, <1>2 DEF CurrentLevel, trailVars
<1>10. Retreating'
  <2>1. 0 \in Targets' /\ 0 < CurrentLevel' BY <1>8, <1>9
  <2> QED BY <2>1 DEF Retreating
<1>11. Calm
  <2>1. Reach' <= Reach BY <1>1, <1>10, StillReach
  <2> QED BY <1>1, <2>1, CalmStill DEF trailVars
<1>12. AtRoot' = AtRoot BY <1>1, StillRoot
<1>13. \A l \in Lit : \A w \in Held(l) : InHand(l, w) => ~ Settled(l)'
  BY <1>1, <1>10, ConflictUnsettled
<1>14. WatchedInv'
  <2>1. \A l \in Lit : \A w \in Seen(l) :
            Settled(l)' /\ IsLive(w) /\ InHand(l, w) => Attended(l, w)'
    BY <1>13, HeldSound
  <2> QED BY <1>1, <1>11, <1>12, <2>1, MovesAttended
<1>15. VisitPlaced'
  <2>1. visit' = NoVisit BY <1>1, <1>2, HandlerIdle
  <2> QED BY <2>1, NoPlaceNext
<1>16. ~ Analysis' BY <1>8 DEF Analysis
<1>17. ForcesTop' /\ ForcesPaired' BY <1>8, NoForces
<1> QED BY <1>14, <1>15, <1>16, <1>17, NoAnalysis DEF PlanInv

\* After the analysis, before its backtracks.
LEMMA UnsettledKept ==
    ASSUME SearchInv, SearchInv', ~ undo.active, WatchedInv, PlanInv,
           Doing("deduce") \/ Doing("failed"),
           UNCHANGED <<trailVars, arena, watches, visit, formula>>, Retreating'
    PROVE  WatchedInv'
<1>1. Calm
  <2>1. Reach' <= Reach BY StillReach
  <2> QED BY <2>1, CalmStill DEF trailVars
<1>2. AtRoot' = AtRoot BY StillRoot
<1>3. \A l \in Lit : \A w \in Seen(l) :
          Settled(l)' /\ IsLive(w) /\ InHand(l, w) => Attended(l, w)'
  BY ConflictUnsettled, HeldSound
<1> QED BY <1>1, <1>2, <1>3, MovesAttended

\* What a handler plans to do that learns a clause.
LearnPlan(s, u) ==
    /\ Retreating' /\ ~ Analysis' /\ VisitPlaced' /\ Len(s) \in Nat
    /\ \A j \in 1 .. Len(u) : Len(s) + j \in DOMAIN todo' /\ todo'[Len(s) + j] = u[j]
    /\ \A i \in DOMAIN todo' : todo'[i].op = "backtrack" \/ \E j \in 1 .. Len(u) : i = Len(s) + j
LEMMA LearnPlanFacts ==
    ASSUME SearchInv, LearnRest, NEW s, NEW lits, LearnBack(s, lits), NEW u, LearnSteps(u),
           todo' = s \o u
    PROVE  LearnPlan(s, u)
<1>1. Backs(s) /\ CurrentLevel - 1 \in TargetsOf(s) BY DEF LearnBack
<1>2. /\ u \in Seq(StepType) /\ DOMAIN u = 1 .. Len(u) /\ Len(u) \in Nat
      /\ \A i \in 1 .. Len(u) : u[i].op \notin {"backtrack", "deduce", "failed"}
  BY DEF LearnSteps
<1>3. \A i \in DOMAIN u : u[i].op # "backtrack" BY <1>2
<1>4. todo' = s \o u /\ u \in Seq(StepType) BY <1>2
<1>5. /\ Targets' = TargetsOf(s) /\ Len(s) \in Nat
      /\ DOMAIN todo' = 1 .. Len(s) + Len(u)
      /\ \A i \in 1 .. Len(s) : todo'[i].op = "backtrack"
      /\ \A j \in 1 .. Len(u) : todo'[Len(s) + j] = u[j]
      /\ \A i \in DOMAIN todo' : i \in 1 .. Len(s) \/ \E j \in 1 .. Len(u) : i = Len(s) + j
  BY ONLY <1>1, <1>3, <1>4, PlanFacts
<1>6. \A j \in 1 .. Len(u) : Len(s) + j \in DOMAIN todo'
  <2> PICK n \in Nat : n = Len(s) BY <1>5
  <2> PICK k \in Nat : k = Len(u) BY <1>2
  <2>1. \A j \in 1 .. k : n + j \in 1 .. n + k OBVIOUS
  <2> QED BY <1>5, <2>1
<1>7. Retreating'
  <2>1. CurrentLevel \in Nat BY ReachFacts
  <2>2. CurrentLevel' = CurrentLevel BY DEF LearnRest, CurrentLevel, trailVars
  <2>3. CurrentLevel - 1 \in Targets' /\ CurrentLevel - 1 < CurrentLevel' BY <1>1, <1>5, <2>1, <2>2
  <2> QED BY <2>3 DEF Retreating
<1>8. ~ Analysis'
  <2> SUFFICES ASSUME NEW i \in DOMAIN todo' PROVE todo'[i].op \notin {"deduce", "failed"}
    BY DEF Analysis
  <2>1. CASE i \in 1 .. Len(s) BY <1>5, <2>1
  <2>2. CASE \E j \in 1 .. Len(u) : i = Len(s) + j BY <1>2, <1>5, <2>2
  <2> QED BY <1>5, <2>1, <2>2
<1>9. VisitPlaced'
  <2>1. todo # <<>> BY DEF LearnRest, Doing
  <2>2. visit' = NoVisit BY <2>1, HandlerIdle DEF LearnRest
  <2> QED BY <2>2, NoPlaceNext
<1> QED BY <1>5, <1>6, <1>7, <1>8, <1>9 DEF LearnPlan

LEMMA LearnUnitKept ==
    ASSUME SearchInv, SearchInv', WatchedInv, PlanInv,
           NEW D, NEW lits, NEW s, LearnContext(D, lits, s), LearnRest,
           Len(lits) = 1, todo' = s \o <<LearnedUnit(lits[1]), Subsume(D, 0)>>,
           UNCHANGED <<arena, watches>>
    PROVE  WatchedInv' /\ PlanInv'
<1>1. Learnt(D) /\ LearntOrder(lits, D) /\ LearnBack(s, lits) BY DEF LearnContext
<1>2. /\ D \in SUBSET Lit /\ ToSet(lits) = D /\ DOMAIN lits = 1 .. Len(lits)
      /\ lits \in Seq(Lit)
  BY <1>1 DEF Learnt, LearntOrder, IsListing
<1> PICK l : l = lits[1] OBVIOUS
<1>3. l \in Lit /\ D = {l}
  <2>1. DOMAIN lits = {1} BY <1>2
  <2> QED BY <1>2, <2>1 DEF ToSet
<1> PICK a : a = LearnedUnit(l) OBVIOUS
<1> PICK b : b = Subsume(D, 0) OBVIOUS
<1> PICK u : u = <<a, b>> OBVIOUS
<1>4. a \in StepType /\ a.op = "unit" /\ a.lit = l BY <1>3, UnitFields
<1>5. b \in StepType /\ b.op = "subsume" /\ b.clause = D /\ b.ref = 0
  <2>1. 0 \in Nat OBVIOUS
  <2> QED BY <1>2, <2>1, SubsumeFields
<1>6. u \in Seq(StepType) /\ Len(u) = 2 /\ u[1] = a /\ u[2] = b BY <1>4, <1>5, Tuples
<1>7. LearnSteps(u)
  <2>1. Forces(a, b) BY <1>3, <1>4, <1>5 DEF Forces
  <2> QED BY <1>5, <1>6, <2>1, TwoSteps
<1>8. todo' = s \o u OBVIOUS
<1>9. LearnPlan(s, u) BY <1>1, <1>7, <1>8, LearnPlanFacts
<1>10. UNCHANGED <<arena, watches, visit, formula, trailVars>> BY DEF LearnRest
<1>11. WatchedInv' BY <1>9, <1>10, UnsettledKept DEF LearnRest, LearnPlan
<1>12. \A i \in DOMAIN todo' : todo'[i].op \notin {"forceLarge", "newBinary"}
  <2> SUFFICES ASSUME NEW i \in DOMAIN todo', todo'[i].op # "backtrack"
               PROVE  todo'[i].op \in {"unit", "subsume"}
    OBVIOUS
  <2> PICK j \in 1 .. Len(u) : i = Len(s) + j BY <1>9 DEF LearnPlan
  <2>1. todo'[i] = u[j] BY <1>9 DEF LearnPlan
  <2>2. j = 1 \/ j = 2 BY <1>6
  <2> QED BY <1>4, <1>5, <1>6, <2>1, <2>2
<1>13. ForcesTop' /\ ForcesPaired' BY <1>12, NoForces
<1> QED BY <1>9, <1>11, <1>13, NoAnalysis DEF PlanInv, LearnPlan

LEMMA LearnBinaryKept ==
    ASSUME SearchInv, SearchInv', WatchedInv, PlanInv,
           NEW D, NEW lits, NEW s, LearnContext(D, lits, s), LearnRest,
           Len(lits) = 2,
           todo' = s \o <<WatchBinary(lits[1], lits[2]), ForceBinary(lits[1], lits[2]),
                          Subsume(D, 0)>>,
           UNCHANGED <<arena, watches>>
    PROVE  WatchedInv' /\ PlanInv'
<1>1. Learnt(D) /\ LearntOrder(lits, D) /\ LearnBack(s, lits) BY DEF LearnContext
<1>2. /\ D \in SUBSET Lit /\ ToSet(lits) = D /\ DOMAIN lits = 1 .. Len(lits)
      /\ lits \in Seq(Lit) /\ IsInjective(lits)
  BY <1>1 DEF Learnt, LearntOrder, IsListing
<1> PICK l, m : l = lits[1] /\ m = lits[2] OBVIOUS
<1>3. l \in Lit /\ m \in Lit /\ D = {l, m}
  <2>1. DOMAIN lits = {1, 2} BY <1>2
  <2> QED BY <1>2, <2>1 DEF ToSet
<1> PICK a : a = WatchBinary(l, m) OBVIOUS
<1> PICK b : b = ForceBinary(l, m) OBVIOUS
<1> PICK c : c = Subsume(D, 0) OBVIOUS
<1> PICK u : u = <<a, b, c>> OBVIOUS
<1>4. a \in StepType /\ a.op = "newBinary" /\ a.lit = l /\ a.other = m BY <1>3, NewBinaryFields
<1>5. b \in StepType /\ b.op = "forceBinary" /\ b.lit = l /\ b.other = m
  <2>1. ForceBinary(l, m) \in StepType BY <1>3, StepTypes
  <2> QED BY <2>1, BinaryFields
<1>6. c \in StepType /\ c.op = "subsume" /\ c.clause = D /\ c.ref = 0
  <2>1. 0 \in Nat OBVIOUS
  <2> QED BY <1>2, <2>1, SubsumeFields
<1>7. u \in Seq(StepType) /\ Len(u) = 3 /\ u[1] = a /\ u[2] = b /\ u[3] = c
  BY <1>4, <1>5, <1>6, Tuples
<1>8. LearnSteps(u)
  <2>1. Forces(b, c) BY <1>3, <1>5, <1>6 DEF Forces
  <2> QED BY <1>4, <1>6, <1>7, <2>1, ThreeSteps
<1>9. todo' = s \o u OBVIOUS
<1>10. LearnPlan(s, u) BY <1>1, <1>8, <1>9, LearnPlanFacts
<1>11. UNCHANGED <<arena, watches, visit, formula, trailVars>> BY DEF LearnRest
<1>12. WatchedInv' BY <1>10, <1>11, UnsettledKept DEF LearnRest, LearnPlan
<1>13. \A i \in DOMAIN todo' :
          \/ todo'[i].op \notin {"forceLarge", "newBinary"}
          \/ i = Len(s) + 1 /\ todo'[i] = a
  <2> SUFFICES ASSUME NEW i \in DOMAIN todo', todo'[i].op # "backtrack"
               PROVE  \/ todo'[i].op \in {"forceBinary", "subsume"}
                      \/ i = Len(s) + 1 /\ todo'[i] = a
    OBVIOUS
  <2> PICK j \in 1 .. Len(u) : i = Len(s) + j BY <1>10 DEF LearnPlan
  <2>1. todo'[i] = u[j] BY <1>10 DEF LearnPlan
  <2>2. j = 1 \/ j = 2 \/ j = 3 BY <1>7
  <2> QED BY <1>4, <1>5, <1>6, <1>7, <2>1, <2>2
<1>14. ForcesTop' BY <1>4, <1>13 DEF ForcesTop
<1>15. ForcesPaired'
  <2> SUFFICES ASSUME NEW i \in DOMAIN todo', todo'[i].op = "newBinary"
               PROVE  i + 1 \in DOMAIN todo' /\ todo'[i + 1] = ForceBinary(todo'[i].lit, todo'[i].other)
    BY DEF ForcesPaired
  <2>1. i = Len(s) + 1 /\ todo'[i] = a BY <1>13
  <2>2. Len(s) + 2 \in DOMAIN todo' /\ todo'[Len(s) + 2] = b
    <3>1. 2 \in 1 .. Len(u) BY <1>7
    <3> QED BY <1>7, <1>10, <3>1 DEF LearnPlan
  <2>3. i + 1 = Len(s) + 2
    <3>1. Len(s) \in Nat BY <1>10 DEF LearnPlan
    <3> QED BY <2>1, <3>1
  <2> QED BY <1>4, <2>1, <2>2, <2>3
<1> QED BY <1>10, <1>12, <1>14, <1>15, NoAnalysis DEF PlanInv, LearnPlan

\* A new clause is watched.
LEMMA LearnedSets ==
    ASSUME NEW ws \in Lists, NEW lits \in Seq(Lit), Len(lits) >= 2, lits[1] # lits[2],
           NEW ref \in Nat, ref # 0, NEW xs, xs = Watched(ws, lits, ref)
    PROVE  /\ \A l \in Lit : ToSet(ws[l]) \subseteq ToSet(xs[l])
           /\ \A l \in Lit : \A u \in ToSet(xs[l]) :
                 u \in ToSet(ws[l]) \/ (Watches(u, ref) /\ u.blocking \in {lits[1], lits[2]})
           /\ BothWatched(xs, lits, ref)
<1> PICK a, b : a = lits[1] /\ b = lits[2] OBVIOUS
<1>1. /\ \A l \in Lit : l \notin {a, b} => xs[l] = ws[l]
      /\ a \in Lit /\ b \in Lit
      /\ NewWatch(a, ref) = LargeWatch(a, ref) /\ NewWatch(b, ref) = LargeWatch(b, ref)
      /\ xs[a] = Append(ws[a], NewWatch(b, ref))
      /\ xs[b] = Append(ws[b], NewWatch(a, ref))
  <2>1. /\ \A l \in Lit : l \notin {a, b} => xs[l] = ws[l]
        /\ a \in Lit /\ b \in Lit
        /\ xs[a] = Append(ws[a], NewWatch(b, ref))
        /\ xs[b] = Append(ws[b], NewWatch(a, ref))
    BY WatchedFacts, ZenonT(60)
  <2>2. NewWatch(a, ref) = LargeWatch(a, ref) /\ NewWatch(b, ref) = LargeWatch(b, ref)
    BY DEF NewWatch
  <2> QED BY <2>1, <2>2
<1>2. \A l \in Lit : ws[l] \in Seq(WatchType) BY DEF Lists
<1>3. /\ ToSet(xs[a]) = ToSet(ws[a]) \cup {LargeWatch(b, ref)}
      /\ ToSet(xs[b]) = ToSet(ws[b]) \cup {LargeWatch(a, ref)}
  BY <1>1, <1>2, AppendSet
<1>4. \A m : Watches(LargeWatch(m, ref), ref) /\ LargeWatch(m, ref).blocking = m
  BY DEF Watches, LargeWatch
<1>5. BothWatched(xs, lits, ref) BY <1>3, <1>4 DEF BothWatched
<1>6. ASSUME NEW l \in Lit
      PROVE  /\ ToSet(ws[l]) \subseteq ToSet(xs[l])
             /\ \A u \in ToSet(xs[l]) :
                   u \in ToSet(ws[l]) \/ (Watches(u, ref) /\ u.blocking \in {a, b})
  <2> PICK A, B, V : A = ToSet(xs[a]) /\ B = ToSet(xs[b]) /\ V = ToSet(xs[l]) OBVIOUS
  <2>1. CASE l = a BY <1>3, <1>4, <2>1
  <2>2. CASE l = b BY <1>3, <1>4, <2>2
  <2>3. CASE l \notin {a, b}
    <3>1. xs[l] = ws[l] BY <1>1, <2>3
    <3> QED BY <3>1
  <2> QED BY <2>1, <2>2, <2>3
<1> QED BY <1>5, <1>6

LEMMA TwoApart ==
    ASSUME NEW lits, IsInjective(lits), DOMAIN lits = 1 .. Len(lits), Len(lits) \in Nat, Len(lits) >= 2
    PROVE  lits[1] # lits[2]
<1>1. 1 \in DOMAIN lits /\ 2 \in DOMAIN lits OBVIOUS
<1> QED BY <1>1 DEF IsInjective

LEMMA LearnLargeKept ==
    ASSUME SearchInv, SearchInv', WatchedInv, PlanInv,
           NEW D, NEW lits, NEW s, LearnContext(D, lits, s), LearnRest,
           Len(lits) > 2, NEW ref, ref = Len(arena) + 1,
           arena' = Append(arena, NewClause(lits, TRUE)), watches' = Watched(watches, lits, ref),
           todo' = s \o <<ForceLarge(lits[1], ref), Subsume(D, ref)>>
    PROVE  WatchedInv' /\ PlanInv'
<1>1. Learnt(D) /\ LearntOrder(lits, D) /\ LearnBack(s, lits) BY DEF LearnContext
<1>2. /\ D \in SUBSET Lit /\ ToSet(lits) = D /\ DOMAIN lits = 1 .. Len(lits)
      /\ lits \in Seq(Lit) /\ Len(lits) \in Nat /\ IsInjective(lits)
  BY <1>1 DEF Learnt, LearntOrder, IsListing
<1>3. /\ \A r \in References : r \in References' /\ arena'[r] = arena[r]
      /\ ref \in Nat /\ ref \in References' /\ arena'[ref].lits = lits /\ ~ arena'[ref].garbage
  <2>1. todo # <<>> BY AnalysisFacts DEF LearnRest
  <2>2. UNCHANGED <<formula, visit>> BY DEF LearnRest
  <2> QED BY <1>1, <2>1, <2>2, LearnedClause
<1>4. /\ ref \notin References /\ ref # 0
      /\ \A r \in References' : r \in References \/ r = ref
  <2>1. arena \in Seq(ClauseType) BY DEF SearchInv, ArenaSound
  <2>2. References = 1 .. Len(arena) /\ Len(arena) \in Nat BY <2>1 DEF References
  <2>3. arena' \in Seq(ClauseType) BY DEF SearchInv, ArenaSound
  <2>4. References' = 1 .. Len(arena') BY <2>3 DEF References
  <2>5. Len(arena') = Len(arena) + 1 BY <2>1
  <2> QED BY <2>2, <2>4, <2>5
<1> PICK a, b : a = lits[1] /\ b = lits[2] OBVIOUS
<1>5. a \in Lit /\ b \in Lit /\ a # b /\ a \in D
  <2>1. 1 \in DOMAIN lits /\ 2 \in DOMAIN lits BY <1>2
  <2>2. a \in D /\ b \in D BY <1>2, <2>1 DEF ToSet
  <2>3. Len(lits) >= 2 BY <1>2
  <2>4. lits[1] # lits[2] BY ONLY <1>2, <2>3, TwoApart
  <2>5. a # b BY <2>4
  <2> QED BY <1>2, <2>2, <2>5
<1> PICK f : f = ForceLarge(a, ref) OBVIOUS
<1> PICK g : g = Subsume(D, ref) OBVIOUS
<1> PICK u : u = <<f, g>> OBVIOUS
<1>6. f \in StepType /\ f.op = "forceLarge" /\ f.lit = a /\ f.ref = ref
  <2>1. ForceLarge(a, ref) \in StepType BY <1>3, <1>5, StepTypes
  <2> QED BY <2>1, LargeFields
<1>7. g \in StepType /\ g.op = "subsume" /\ g.clause = D /\ g.ref = ref
  BY <1>2, <1>3, SubsumeFields
<1>8. u \in Seq(StepType) /\ Len(u) = 2 /\ u[1] = f /\ u[2] = g BY <1>6, <1>7, Tuples
<1>9. LearnSteps(u)
  <2>1. Forces(f, g) BY <1>5, <1>6, <1>7 DEF Forces
  <2> QED BY <1>7, <1>8, <2>1, TwoSteps
<1>10. todo' = s \o u OBVIOUS
<1>11. LearnPlan(s, u) BY <1>1, <1>9, <1>10, LearnPlanFacts
<1>12. /\ UNCHANGED <<trailVars, visit, formula>> /\ ~ undo.active /\ Doing("deduce")
       /\ visit = NoVisit /\ watches \in Lists /\ IdleLists
  <2>1. UNCHANGED <<trailVars, visit, formula>> /\ ~ undo.active /\ Doing("deduce")
    BY DEF LearnRest
  <2>2. todo # <<>> BY <2>1 DEF Doing
  <2> QED BY <2>1, <2>2, HandlerIdle DEF IdleLists
<1>13. /\ \A l \in Lit : ToSet(watches[l]) \subseteq ToSet(watches'[l])
       /\ \A l \in Lit : \A w \in ToSet(watches'[l]) :
             w \in ToSet(watches[l]) \/ (Watches(w, ref) /\ w.blocking \in {a, b})
       /\ BothWatched(watches', lits, ref)
  <2>1. Len(lits) >= 2 /\ lits[1] # lits[2] BY <1>2, <1>5
  <2>2. watches' = Watched(watches, lits, ref) OBVIOUS
  <2> PICK xs : xs = watches' OBVIOUS
  <2>3. /\ \A l \in Lit : ToSet(watches[l]) \subseteq ToSet(xs[l])
        /\ \A l \in Lit : \A w \in ToSet(xs[l]) :
             w \in ToSet(watches[l]) \/ (Watches(w, ref) /\ w.blocking \in {lits[1], lits[2]})
        /\ BothWatched(xs, lits, ref)
    <3>1. xs = Watched(watches, lits, ref) BY <2>2
    <3>2. /\ watches \in Lists /\ lits \in Seq(Lit) /\ Len(lits) >= 2 /\ lits[1] # lits[2]
          /\ ref \in Nat /\ ref # 0
      BY <1>2, <1>3, <1>4, <1>12, <2>1
    <3> HIDE <2>2
    <3> QED BY ONLY <3>1, <3>2, LearnedSets
  <2> QED BY <2>3
<1>14. \A l \in Lit : /\ Held(l) = ToSet(watches[l]) /\ Seen(l) = ToSet(watches[l])
                      /\ Held(l)' = ToSet(watches'[l]) /\ Seen(l)' = ToSet(watches'[l])
  BY <1>12, HeldIdle, HeldIdleNext DEF IdleLists
<1>15. \A l \in Lit : \A w \in ToSet(watches[l]) : ~ w.binary => w.ref \in References /\ w.ref # ref
  BY <1>4, <1>14, HeldSound
<1>16. MovesOnly(ref) BY <1>13 DEF MovesOnly
<1>17. FirstsHeld'
  <2>1. \A r \in LiveReferences' : r # ref => r \in LiveReferences /\ First(r)' = First(r)
    BY <1>3, <1>4 DEF LiveReferences, First
  <2>2. BothWatched(watches', arena'[ref].lits, ref) BY <1>3, <1>13
  <2> QED BY <1>12, <1>16, <2>1, <2>2, FirstsRewatched DEF WatchedInv
<1>18. BothHeld'
  <2>1. \A l \in Lit : \A w \in ToSet(watches'[l]) : w.binary => w \in ToSet(watches[l])
    BY <1>13 DEF Watches
  <2> QED BY <1>12, <1>16, <2>1, BothRewatched DEF WatchedInv
<1>19. BlockingInside'
  <2>1. a \in ToSet(lits) /\ b \in ToSet(lits)
    <3>1. 1 \in 1 .. Len(lits) /\ 2 \in 1 .. Len(lits) BY <1>2
    <3> QED BY <1>2, <3>1 DEF ToSet
  <2>2. \A l \in Lit : \A w \in ToSet(watches'[l]) : ~ w.binary =>
               \/ w \in ToSet(watches[l]) /\ w.ref # ref
               \/ w.ref = ref /\ (arena'[ref].garbage \/ w.blocking \in ToSet(arena'[ref].lits))
    BY <1>3, <1>13, <1>15, <2>1 DEF Watches
  <2>3. \A r \in References : r # ref =>
               /\ ~ arena'[r].garbage => ~ arena[r].garbage
               /\ ToSet(arena'[r].lits) = ToSet(arena[r].lits)
    BY <1>3
  <2> QED BY <1>12, <2>2, <2>3, BlockingRewatched DEF WatchedInv
<1>20. Calm
  <2>1. Reach' <= Reach BY <1>11, <1>12, StillReach DEF LearnPlan
  <2> QED BY <1>12, <2>1, CalmStill DEF trailVars
<1>21. AtRoot' = AtRoot BY <1>12, StillRoot
<1>22. \A l, w : Watches(w, ref) => InHand(l, w)'
  <2>1. Len(s) + 1 \in DOMAIN todo' /\ todo'[Len(s) + 1] = f
    <3>1. 1 \in 1 .. Len(u) BY <1>8
    <3> QED BY <1>8, <1>11, <3>1 DEF LearnPlan
  <2>2. \A l, w : Watches(w, ref) => OfForce(l, w, f) BY <1>6 DEF OfForce, Watches
  <2> QED BY <2>1, <2>2 DEF InHand
<1>23. Attention'
  <2>1. \A l \in Lit : \A w \in Seen(l)' : Settled(l)' /\ IsLive(w)' =>
          \/ Attended(l, w)'
          \/ /\ w \in Seen(l) /\ IsLive(w)
             /\ InHand(l, w) => Attended(l, w)'
             /\ \A t \in Partners(l, w) : values[t] = 1 => t \in Partners(l, w)'
    <3> TAKE l \in Lit
    <3> TAKE w \in Seen(l)'
    <3> HAVE Settled(l)' /\ IsLive(w)'
    <3>1. CASE Watches(w, ref) BY <1>22, <3>1 DEF Attended
    <3>2. CASE ~ Watches(w, ref)
      <4>1. w \in Held(l) /\ w \in Seen(l) BY <1>13, <1>14, <3>2
      <4>2. ~ w.binary => w.ref \in References BY <1>14, <1>15, <4>1
      <4>3. IsLive(w) BY <1>3, <4>2 DEF IsLive
      <4>4. Partners(l, w)' = Partners(l, w) BY <1>3, <4>2 DEF Partners, First
      <4>5. ~ InHand(l, w) BY <1>11, <1>12, <4>1, ConflictUnsettled DEF LearnPlan
      <4> QED BY <4>1, <4>3, <4>4, <4>5
    <3> QED BY <3>1, <3>2
  <2> QED BY <1>20, <2>1, AttentionKept DEF WatchedInv
<1>24. Kept'
  <2>1. \A l \in Lit : \A w \in Held(l) : w.binary => w \in Held(l)' BY <1>13, <1>14
  <2>2. \A r \in LiveReferences : ~ arena[r].redundant =>
          /\ r \in LiveReferences' /\ ~ arena'[r].redundant
          /\ ToSet(arena'[r].lits) \subseteq ToSet(arena[r].lits)
    BY <1>3 DEF LiveReferences
  <2> QED BY <1>12, <1>21, <2>1, <2>2, KeptStays DEF WatchedInv
<1>25. \A i \in DOMAIN todo' : todo'[i].op \in {"forceLarge", "newBinary"} => todo'[i] = f
  <2> SUFFICES ASSUME NEW i \in DOMAIN todo', todo'[i].op # "backtrack"
               PROVE  todo'[i].op = "subsume" \/ todo'[i] = f
    OBVIOUS
  <2> PICK j \in 1 .. Len(u) : i = Len(s) + j BY <1>11 DEF LearnPlan
  <2>1. todo'[i] = u[j] BY <1>11 DEF LearnPlan
  <2>2. j = 1 \/ j = 2 BY <1>8
  <2> QED BY <1>7, <1>8, <2>1, <2>2
<1>26. ForcesPaired' BY <1>6, <1>25 DEF ForcesPaired
<1>27. ForcesTop'
  <2> SUFFICES ASSUME NEW i \in DOMAIN todo', todo'[i].op = "forceLarge",
                      NEW m \in ToSet(arena'[todo'[i].ref].lits) \ {todo'[i].lit},
                      NEW o \in {arena'[todo'[i].ref].lits[1], arena'[todo'[i].ref].lits[2]}
                                  \ {todo'[i].lit}
               PROVE  LevelOf(m)' <= LevelOf(o)'
    BY DEF ForcesTop, First
  <2>1. todo'[i].ref = ref /\ todo'[i].lit = a BY <1>6, <1>25
  <2>2. m \in D \ {a} /\ o = b
    <3>1. arena'[todo'[i].ref].lits = lits BY <1>3, <2>1
    <3>2. m \in ToSet(lits) \ {a} /\ o \in {lits[1], lits[2]} \ {a} BY <2>1, <3>1
    <3> QED BY <1>2, <3>2
  <2>3. JumpOf(lits) = LevelOf(b) BY DEF JumpOf
  <2>4. LevelOf(m) <= LevelOf(b) BY <1>1, <2>2, <2>3 DEF LearntOrder
  <2>5. \A l : LevelOf(l)' = LevelOf(l) BY <1>12, Unmoved
  <2> QED BY <2>2, <2>4, <2>5
<1> QED BY <1>11, <1>17, <1>18, <1>19, <1>23, <1>24, <1>26, <1>27, NoAnalysis
   DEF WatchedInv, PlanInv, LearnPlan

LEMMA LearnKept ==
    SearchInv /\ SearchInv' /\ ~ undo.active /\ WatchedInv /\ PlanInv /\ DeduceAndLearn
        => WatchedInv' /\ PlanInv'
<1> SUFFICES ASSUME SearchInv, SearchInv', ~ undo.active, WatchedInv, PlanInv, DeduceAndLearn
             PROVE  WatchedInv' /\ PlanInv'
  OBVIOUS
<1>1. Doing("deduce") /\ IsAsserting /\ LearnRest
  BY DEF DeduceAndLearn, LearnRest, loopVars
<1>2. PICK D \in Shrunken(resolvent) : Learn(D) BY DEF DeduceAndLearn
<1>3. PICK lits \in SetToSeqs(D) : InOrder(lits) /\ LearnInOrder(D, lits) BY <1>2 DEF Learn
<1>4. Learnt(D) BY <1>1, LearntFacts
<1>5. LearntOrder(lits, D) BY <1>3, <1>4, LearntOrderFacts
<1> PICK s : s = AfterConflict(CurrentLevel, NewLevel(CurrentLevel, JumpOf(lits))) OBVIOUS
<1> PICK ref : ref = Len(arena) + 1 OBVIOUS
<1>6. LearnContext(D, lits, s) BY <1>4, <1>5, LearnBackFacts DEF LearnContext
<1>7. \/ /\ Len(lits) = 1
         /\ todo' = s \o <<LearnedUnit(lits[1]), Subsume(D, 0)>>
         /\ UNCHANGED <<arena, watches, lines>>
      \/ /\ Len(lits) = 2
         /\ todo' = s \o <<WatchBinary(lits[1], lits[2]), ForceBinary(lits[1], lits[2]),
                           Subsume(D, 0)>>
         /\ UNCHANGED <<arena, watches, lines>>
      \/ /\ Len(lits) > 2
         /\ arena' = Append(arena, NewClause(lits, TRUE))
         /\ watches' = Watched(watches, lits, ref)
         /\ todo' = s \o <<ForceLarge(lits[1], ref), Subsume(D, ref)>>
  BY <1>3 DEF LearnInOrder, JumpOf
<1> QED BY <1>1, <1>6, <1>7, LearnUnitKept, LearnBinaryKept, LearnLargeKept

\* The first resolution subsumes the conflict: what is left is part of it.
Subsuming ==
    resolved = 0 /\ Cardinality(NextResolvent) < Cardinality(AboveRoot(ToSet(LitsOf(conflict))))

LEMMA SubsumesConflict ==
    ASSUME SearchInv, ~ undo.active, PlanInv, Doing("deduce"), ~ IsAsserting, Strengthens, Subsuming
    PROVE  Antecedent(-Pivot) \subseteq ToSet(LitsOf(conflict))
<1> PICK p : p = Pivot OBVIOUS
<1> PICK B : B = Antecedent(-p) OBVIOUS
<1> PICK N : N = NextResolvent OBVIOUS
<1> PICK R : R = resolvent OBVIOUS
<1>1. B \in SUBSET Lit BY StrengthenFacts DEF ReasonPlan
<1>2. p \in R /\ R \in SUBSET Lit
  <2>1. \A l \in resolvent : l \in Lit BY AnalysisFacts DEF Safe
  <2>2. Pivot \in resolvent BY PivotFacts
  <2> QED BY <2>1, <2>2
<1>3. N = (R \ {p}) \cup B BY DEF NextResolvent
<1>4. R = AboveRoot(ToSet(LitsOf(conflict)))
  <2>1. 1 \in DOMAIN todo /\ todo[1].op = "deduce" BY AnalysisFacts DEF Doing
  <2>2. Analysis BY <2>1 DEF Analysis
  <2>3. resolved = 0 BY DEF Subsuming
  <2> QED BY <2>1, <2>2, <2>3 DEF PlanInv, ConflictOnTop
<1>5. Cardinality(N) < Cardinality(R) BY <1>4 DEF Subsuming
<1>6. R \ {p} \in SUBSET Lit /\ N \in SUBSET Lit /\ R \ {p} \subseteq N BY <1>1, <1>2, <1>3
<1>7. Cardinality(R) = 1 + Cardinality(R \ {p})
  <2>1. IsFiniteSet(R) BY <1>2, FiniteLiterals
  <2>2. Cardinality(R \ {p}) = Cardinality(R) - 1 BY <1>2, <2>1, FS_RemoveElement
  <2>3. Cardinality(R) \in Nat BY <2>1, FS_CardinalityType
  <2> QED BY <2>2, <2>3
<1>8. N = R \ {p}
  <2>1. Cardinality(N) < 1 + Cardinality(R \ {p}) BY <1>5, <1>7
  <2> QED BY ONLY <1>6, <2>1, NoLarger
<1>9. R \subseteq ToSet(LitsOf(conflict)) BY <1>4 DEF AboveRoot
<1> QED BY <1>3, <1>8, <1>9

LEMMA SubsumedFlags ==
    ASSUME NEW X \in Seq(ClauseType), NEW n, NEW Y, Y = Subsumed(X, n)
    PROVE  \A r \in DOMAIN X :
              /\ Y[r].garbage <=> X[r].garbage \/ r = conflict.ref
              /\ ~ X[r].redundant => ~ Y[r].redundant
              /\ r = n /\ ~ X[conflict.ref].redundant => ~ Y[r].redundant
<1> DEFINE Z(r) == [X[r] EXCEPT !.garbage = @ \/ r = conflict.ref,
                                !.redundant = @ /\ (r = n => X[conflict.ref].redundant)]
<1>1. Y = [r \in DOMAIN X |-> Z(r)] BY DEF Subsumed
<1>2. \A r \in DOMAIN X : X[r] \in ClauseType OBVIOUS
<1>3. ASSUME NEW r \in DOMAIN X
      PROVE  /\ Z(r).garbage <=> X[r].garbage \/ r = conflict.ref
             /\ ~ X[r].redundant => ~ Z(r).redundant
             /\ r = n /\ ~ X[conflict.ref].redundant => ~ Z(r).redundant
  <2> PICK c \in ClauseType : c = X[r] BY <1>2
  <2> PICK b \in BOOLEAN : b = (r = conflict.ref) OBVIOUS
  <2> PICK d \in BOOLEAN : d = (r = n => X[conflict.ref].redundant) OBVIOUS
  <2>1. Z(r) = [c EXCEPT !.garbage = c.garbage \/ b, !.redundant = c.redundant /\ d]
    OBVIOUS
  <2>2. Z(r).garbage = (c.garbage \/ b) /\ Z(r).redundant = (c.redundant /\ d)
    BY <2>1 DEF ClauseType
  <2>3. c.redundant \in BOOLEAN /\ c.garbage \in BOOLEAN BY DEF ClauseType
  <2> HIDE DEF Z
  <2> QED BY <2>2, <2>3, Zenon
<1> HIDE DEF Z
<1> QED BY <1>1, <1>3

\* The clauses after a strengthening: only the reason changes, and what else
\* becomes garbage is the conflict, when it is subsumed.
StrengthenedClauses(ref) ==
    /\ References' = References
    /\ \A r \in References :
         /\ r # ref => arena'[r].lits = arena[r].lits
         /\ ~ arena'[r].garbage => ~ arena[r].garbage
         /\ ~ arena[r].redundant => ~ arena'[r].redundant
         /\ r # ref /\ arena'[r].garbage /\ ~ arena[r].garbage => r = conflict.ref /\ Subsuming

\* What is watched anew belongs to the new conflict.
LEMMA StrengthenKept ==
    ASSUME SearchInv, SearchInv', ~ undo.active, WatchedInv, PlanInv, Doing("deduce"),
           NEW lit, NEW ref, NEW B, ReasonPlan(lit, ref, B), StrengthenRest,
           StrengthenedClauses(ref), conflict' # NoConflict,
           FirstsHeld', BothHeld', BlockingInside',
           \A l \in Lit : \A w \in ToSet(watches'[l]) : IsLive(w)' =>
               \/ w \in ToSet(watches[l]) /\ ~ Watches(w, ref)
               \/ OfConflict(l, w)',
           \A l \in Lit : \A w \in ToSet(watches[l]) : w.binary => w \in ToSet(watches'[l]),
           \A r \in LiveReferences : ~ arena[r].redundant =>
               \/ /\ r \in LiveReferences' /\ ~ arena'[r].redundant
                  /\ ToSet(arena'[r].lits) \subseteq ToSet(arena[r].lits)
               \/ \A D : ToSet(arena[r].lits) \subseteq D \cup AtRoot => KeptAs(D)'
    PROVE  WatchedInv' /\ PlanInv'
<1>1. /\ UNCHANGED <<trailVars, visit, formula>> /\ todo' = <<>> /\ visit = NoVisit
  <2>1. UNCHANGED <<trailVars, visit, formula>> /\ todo' = Tail(todo) BY DEF StrengthenRest
  <2>2. Len(todo) = 1 /\ todo \in Seq(StepType) /\ visit = NoVisit BY DEF ReasonPlan
  <2> QED BY <2>1, <2>2
<1>2. visit' = NoVisit BY <1>1
<1>3. Retreating' BY DEF Retreating
<1>4. \A l \in Lit : /\ Held(l) = ToSet(watches[l]) /\ Seen(l) = ToSet(watches[l])
                     /\ Held(l)' = ToSet(watches'[l]) /\ Seen(l)' = ToSet(watches'[l])
  BY <1>1, <1>2, HeldIdle, HeldIdleNext
<1>5. Calm
  <2>1. Reach' <= Reach BY <1>1, <1>3, StillReach
  <2> QED BY <1>1, <2>1, CalmStill DEF trailVars
<1>6. AtRoot' = AtRoot BY <1>1, StillRoot
<1>7. Attention'
  <2>1. \A l \in Lit : \A w \in Seen(l)' : Settled(l)' /\ IsLive(w)' =>
          \/ Attended(l, w)'
          \/ /\ w \in Seen(l) /\ IsLive(w)
             /\ InHand(l, w) => Attended(l, w)'
             /\ \A t \in Partners(l, w) : values[t] = 1 => t \in Partners(l, w)'
    <3> TAKE l \in Lit
    <3> TAKE w \in Seen(l)'
    <3> HAVE Settled(l)' /\ IsLive(w)'
    <3>1. CASE OfConflict(l, w)' BY <3>1 DEF Attended, InHand
    <3>2. CASE ~ OfConflict(l, w)'
      <4>1. w \in Held(l) /\ w \in Seen(l) /\ ~ Watches(w, ref) BY <1>4, <3>2
      <4>2. ~ w.binary => w.ref \in References /\ w.ref # ref BY <4>1, HeldSound DEF Watches
      <4>3. IsLive(w) BY <4>2 DEF IsLive, StrengthenedClauses
      <4>4. Partners(l, w)' = Partners(l, w)
        BY <4>2 DEF Partners, First, StrengthenedClauses
      <4>5. ~ InHand(l, w) BY <1>1, <1>3, <4>1, ConflictUnsettled
      <4> QED BY <4>1, <4>3, <4>4, <4>5
    <3> QED BY <3>1, <3>2
  <2> QED BY <1>5, <2>1, AttentionKept DEF WatchedInv
<1>8. Kept'
  <2>1. \A l \in Lit : \A w \in Held(l) : w.binary => w \in Held(l)' BY <1>4
  <2> QED BY <1>1, <1>6, <2>1, KeptStays DEF WatchedInv
<1>9. VisitPlaced' BY <1>2, NoPlaceNext
<1> QED BY <1>1, <1>7, <1>8, <1>9, IdlePlan DEF WatchedInv, PlanInv

\* A reason of three literals becomes garbage.
DiscardedClauses(X, ref) ==
    /\ X \in Seq(ClauseType) /\ DOMAIN X = References
    /\ \A r \in References : /\ X[r].lits = arena[r].lits
                             /\ X[r].redundant = arena[r].redundant
                             /\ X[r].garbage <=> arena[r].garbage \/ r = ref

LEMMA DiscardedFlags ==
    ASSUME SearchInv, NEW ref \in References
    PROVE  DiscardedClauses([arena EXCEPT ![ref].garbage = TRUE], ref)
<1>1. arena \in Seq(ClauseType) /\ References = 1 .. Len(arena)
  BY DEF SearchInv, ArenaSound, References
<1> PICK c : c = arena[ref] OBVIOUS
<1> PICK d : d = [c EXCEPT !.garbage = TRUE] OBVIOUS
<1>2. c \in ClauseType BY <1>1
<1>3. d \in ClauseType /\ d.lits = c.lits /\ d.redundant = c.redundant /\ d.garbage = TRUE
  BY <1>2 DEF ClauseType
<1> PICK X : X = [arena EXCEPT ![ref] = d] OBVIOUS
<1>4. [arena EXCEPT ![ref].garbage = TRUE] = X OBVIOUS
<1>5. /\ X \in Seq(ClauseType) /\ DOMAIN X = References /\ X[ref] = d
      /\ \A r \in References : r # ref => X[r] = arena[r]
  <2>1. X = [arena EXCEPT ![ref] = d] OBVIOUS
  <2>2. d \in ClauseType BY <1>3
  <2>3. ref \in 1 .. Len(arena) BY <1>1
  <2>4. X \in Seq(ClauseType) BY ONLY <1>1, <2>1, <2>2, <2>3
  <2>5. DOMAIN X = References /\ X[ref] = d BY ONLY <1>1, <2>1, <2>3
  <2>6. \A r \in References : r # ref => X[r] = arena[r] BY ONLY <1>1, <2>1
  <2> QED BY <2>4, <2>5, <2>6
<1>6. ASSUME NEW r \in References
      PROVE  /\ X[r].lits = arena[r].lits /\ X[r].redundant = arena[r].redundant
             /\ X[r].garbage <=> arena[r].garbage \/ r = ref
  <2>1. CASE r = ref BY <1>3, <1>5, <2>1
  <2>2. CASE r # ref
    <3>1. X[r] = arena[r] BY <1>5, <2>2
    <3> QED BY <2>2, <3>1
  <2> QED BY <2>1, <2>2
<1>7. DiscardedClauses(X, ref) BY <1>5, <1>6 DEF DiscardedClauses
<1> QED BY <1>4, <1>7

LEMMA SmallClauses ==
    ASSUME SearchInv, NEW lit, NEW ref \in References, NEW small, small,
           NEW lits, Strengthen(lit, ref, small, lits)
    PROVE  /\ StrengthenedClauses(ref) /\ arena'[ref].garbage
           /\ \A r \in References : arena'[r].lits = arena[r].lits
<1>1. \/ arena' = [arena EXCEPT ![ref].garbage = TRUE]
      \/ Subsuming /\ arena' = Subsumed([arena EXCEPT ![ref].garbage = TRUE], 0)
  BY DEF Strengthen, Subsuming
<1>2. PICK X : /\ DiscardedClauses(X, ref)
               /\ arena' = X \/ (Subsuming /\ arena' = Subsumed(X, 0))
  BY <1>1, DiscardedFlags
<1>3. X \in Seq(ClauseType) /\ DOMAIN X = References BY <1>2 DEF DiscardedClauses
<1> PICK Y : Y = arena' OBVIOUS
<1>4. /\ DOMAIN Y = References
      /\ \A r \in References : /\ Y[r].lits = X[r].lits
                               /\ ~ X[r].redundant => ~ Y[r].redundant
                               /\ X[r].garbage => Y[r].garbage
                               /\ Y[r].garbage => X[r].garbage \/ (r = conflict.ref /\ Subsuming)
  <2>1. CASE Y = X BY <1>3, <2>1
  <2>2. CASE Subsuming /\ Y = Subsumed(X, 0)
    <3>1. /\ DOMAIN Y = DOMAIN X /\ \A r \in DOMAIN X : Y[r].lits = X[r].lits
      <4>1. Y \in {X, Subsumed(X, 0)} BY <2>2
      <4> QED BY ONLY <1>3, <4>1, SubsumedFacts
    <3>2. \A r \in DOMAIN X : /\ Y[r].garbage <=> X[r].garbage \/ r = conflict.ref
                              /\ ~ X[r].redundant => ~ Y[r].redundant
      BY ONLY <1>3, <2>2, SubsumedFlags
    <3> QED BY <1>3, <2>2, <3>1, <3>2
  <2> QED BY <1>2, <2>1, <2>2
<1>5. References' = References BY <1>4 DEF References
<1>6. \A r \in References : /\ X[r].lits = arena[r].lits
                            /\ X[r].redundant = arena[r].redundant
                            /\ X[r].garbage <=> arena[r].garbage \/ r = ref
  BY <1>2 DEF DiscardedClauses
<1>7. \A r \in References : Y[r].lits = arena[r].lits BY <1>4, <1>6
<1>8. Y[ref].garbage BY <1>4, <1>6
<1>9. ASSUME NEW r \in References
      PROVE  /\ ~ Y[r].garbage => ~ arena[r].garbage
             /\ ~ arena[r].redundant => ~ Y[r].redundant
             /\ r # ref /\ Y[r].garbage /\ ~ arena[r].garbage => r = conflict.ref /\ Subsuming
  BY <1>4, <1>6
<1> QED BY <1>5, <1>7, <1>8, <1>9 DEF StrengthenedClauses

\* A longer one loses its literal, and takes over from a conflict it subsumes.
ReplacedClauses(X, ref, lits) ==
    /\ X \in Seq(ClauseType) /\ DOMAIN X = References
    /\ \A r \in References : /\ X[r].lits = (IF r = ref THEN lits ELSE arena[r].lits)
                             /\ X[r].redundant = arena[r].redundant
                             /\ X[r].garbage = arena[r].garbage

LEMMA ReplacedFlags ==
    ASSUME SearchInv, NEW ref \in References, NEW lits \in Seq(Lit)
    PROVE  ReplacedClauses([arena EXCEPT ![ref].lits = lits, ![ref].searched = 3], ref, lits)
<1>1. arena \in Seq(ClauseType) /\ References = 1 .. Len(arena)
  BY DEF SearchInv, ArenaSound, References
<1> PICK c : c = arena[ref] OBVIOUS
<1> PICK d : d = [[c EXCEPT !.lits = lits] EXCEPT !.searched = 3] OBVIOUS
<1>2. c \in ClauseType BY <1>1
<1>3. d \in ClauseType /\ d.lits = lits /\ d.garbage = c.garbage /\ d.redundant = c.redundant
  BY <1>2 DEF ClauseType
<1>4. [arena EXCEPT ![ref].lits = lits, ![ref].searched = 3] = [arena EXCEPT ![ref] = d]
  BY <1>1
<1> PICK X : X = [arena EXCEPT ![ref] = d] OBVIOUS
<1>5. /\ X \in Seq(ClauseType) /\ DOMAIN X = References
      /\ \A r \in References : /\ X[r].lits = (IF r = ref THEN lits ELSE arena[r].lits)
                               /\ X[r].redundant = arena[r].redundant
                               /\ X[r].garbage = arena[r].garbage
  BY <1>1, <1>3
<1> QED BY <1>4, <1>5, SMTT(30) DEF ReplacedClauses

LEMMA LargeClauses ==
    ASSUME SearchInv, NEW lit, NEW ref \in References, NEW small, ~ small,
           NEW lits \in Seq(Lit), Strengthen(lit, ref, small, lits)
    PROVE  /\ StrengthenedClauses(ref) /\ arena'[ref].lits = lits
           /\ arena'[ref].garbage => arena[ref].garbage \/ ref = conflict.ref
           /\ Subsuming /\ conflict.ref \in References /\ ~ arena[conflict.ref].redundant
                => ~ arena'[ref].redundant
<1>1. \/ ~ Subsuming /\ arena' = [arena EXCEPT ![ref].lits = lits, ![ref].searched = 3]
      \/ Subsuming /\ arena' = Subsumed([arena EXCEPT ![ref].lits = lits, ![ref].searched = 3], ref)
  BY DEF Strengthen, Subsuming
<1>2. PICK X : /\ ReplacedClauses(X, ref, lits)
               /\ (~ Subsuming /\ arena' = X) \/ (Subsuming /\ arena' = Subsumed(X, ref))
  BY <1>1, ReplacedFlags
<1>3. X \in Seq(ClauseType) /\ DOMAIN X = References BY <1>2 DEF ReplacedClauses
<1> PICK Y : Y = arena' OBVIOUS
<1>4. /\ DOMAIN Y = References
      /\ \A r \in References :
           /\ Y[r].lits = X[r].lits
           /\ ~ X[r].redundant => ~ Y[r].redundant
           /\ X[r].garbage => Y[r].garbage
           /\ Y[r].garbage => X[r].garbage \/ (r = conflict.ref /\ Subsuming)
           /\ Subsuming /\ r = ref /\ ~ X[conflict.ref].redundant => ~ Y[r].redundant
  <2>1. CASE ~ Subsuming /\ Y = X BY <1>3, <2>1
  <2>2. CASE Subsuming /\ Y = Subsumed(X, ref)
    <3>1. /\ DOMAIN Y = DOMAIN X /\ \A r \in DOMAIN X : Y[r].lits = X[r].lits
      <4>1. Y \in {X, Subsumed(X, ref)} BY <2>2
      <4> QED BY ONLY <1>3, <4>1, SubsumedFacts
    <3>2. \A r \in DOMAIN X : /\ Y[r].garbage <=> X[r].garbage \/ r = conflict.ref
                              /\ ~ X[r].redundant => ~ Y[r].redundant
                              /\ r = ref /\ ~ X[conflict.ref].redundant => ~ Y[r].redundant
      BY ONLY <1>3, <2>2, SubsumedFlags
    <3> QED BY <1>3, <2>2, <3>1, <3>2
  <2> QED BY <1>2, <2>1, <2>2
<1>5. References' = References BY <1>4 DEF References
<1>6. \A r \in References : /\ X[r].lits = (IF r = ref THEN lits ELSE arena[r].lits)
                            /\ X[r].redundant = arena[r].redundant
                            /\ X[r].garbage = arena[r].garbage
  BY <1>2 DEF ReplacedClauses
<1>7. Y[ref].lits = lits /\ \A r \in References : r # ref => Y[r].lits = arena[r].lits
  BY <1>4, <1>6
<1>8. Y[ref].garbage => arena[ref].garbage \/ ref = conflict.ref BY <1>4, <1>6
<1>9. ASSUME NEW r \in References
      PROVE  /\ ~ Y[r].garbage => ~ arena[r].garbage
             /\ ~ arena[r].redundant => ~ Y[r].redundant
             /\ r # ref /\ Y[r].garbage /\ ~ arena[r].garbage => r = conflict.ref /\ Subsuming
  BY <1>4, <1>6
<1>10. Subsuming /\ conflict.ref \in References /\ ~ arena[conflict.ref].redundant
         => ~ Y[ref].redundant
  BY <1>4, <1>6
<1> QED BY <1>5, <1>7, <1>8, <1>9, <1>10 DEF StrengthenedClauses

\* What becomes of the watches.
SmallMoves(ws, xs, a, b, ref) ==
    /\ \A l \in Lit : \A u \in ToSet(ws[l]) : u \in ToSet(xs[l]) \/ Watches(u, ref)
    /\ \A l \in Lit : \A u \in ToSet(xs[l]) :
          \/ u \in ToSet(ws[l])
          \/ l = a /\ u = BinaryWatch(b)
          \/ l = b /\ u = BinaryWatch(a)
    /\ BinaryWatch(b) \in ToSet(xs[a]) /\ BinaryWatch(a) \in ToSet(xs[b])

LEMMA SmallSets ==
    ASSUME NEW ws \in Lists, NEW a \in Lit, NEW b \in Lit, a # b, NEW c \in Lit, NEW d \in Lit,
           NEW ref, NEW xs,
           xs = Unwatched(Unwatched(Watched(ws, <<a, b>>, 0), c, ref), d, ref)
    PROVE  SmallMoves(ws, xs, a, b, ref)
<1> PICK vs : vs = Watched(ws, <<a, b>>, 0) OBVIOUS
<1> PICK ys : ys = Unwatched(vs, c, ref) OBVIOUS
<1>1. /\ vs \in Lists
      /\ \A l \in Lit : l \notin {a, b} => vs[l] = ws[l]
      /\ vs[a] = Append(ws[a], BinaryWatch(b)) /\ vs[b] = Append(ws[b], BinaryWatch(a))
  <2> PICK lits : lits = <<a, b>> OBVIOUS
  <2> PICK n \in Nat : n = 0 OBVIOUS
  <2>1. lits \in Seq(Lit) /\ Len(lits) >= 2 /\ lits[1] = a /\ lits[2] = b OBVIOUS
  <2>2. vs = Watched(ws, lits, n) OBVIOUS
  <2>3. /\ vs \in Lists /\ \A l \in Lit : l \notin {a, b} => vs[l] = ws[l]
        /\ vs[a] = Append(ws[a], NewWatch(b, n)) /\ vs[b] = Append(ws[b], NewWatch(a, n))
    <3>1. lits[1] # lits[2] /\ Len(lits) >= 2 /\ lits \in Seq(Lit) /\ n \in Nat /\ ws \in Lists
      BY <2>1
    <3>2. /\ vs \in Lists
          /\ \A l \in Lit : l \notin {lits[1], lits[2]} => vs[l] = ws[l]
          /\ vs[lits[1]] = Append(ws[lits[1]], NewWatch(lits[2], n))
          /\ vs[lits[2]] = Append(ws[lits[2]], NewWatch(lits[1], n))
      BY ONLY <2>2, <3>1, WatchedFacts, ZenonT(60)
    <3> HIDE <3>1
    <3> QED BY ONLY <2>1, <3>2
  <2> QED BY <2>3 DEF NewWatch
<1>2. \A l \in Lit : ws[l] \in Seq(WatchType) BY DEF Lists
<1>3. /\ ToSet(vs[a]) = ToSet(ws[a]) \cup {BinaryWatch(b)}
      /\ ToSet(vs[b]) = ToSet(ws[b]) \cup {BinaryWatch(a)}
  BY <1>1, <1>2, AppendSet
<1>4. /\ ys \in Lists
      /\ \A l \in Lit : /\ ToSet(ys[l]) \subseteq ToSet(vs[l])
                        /\ \A w \in ToSet(vs[l]) : w \in ToSet(ys[l]) \/ Watches(w, ref)
  BY <1>1, UnwatchedSet
<1>5. /\ \A l \in Lit : /\ ToSet(xs[l]) \subseteq ToSet(ys[l])
                        /\ \A w \in ToSet(ys[l]) : w \in ToSet(xs[l]) \/ Watches(w, ref)
  <2>1. xs = Unwatched(ys, d, ref) OBVIOUS
  <2> QED BY ONLY <1>4, <2>1, d \in Lit, UnwatchedSet
<1>6. ~ Watches(BinaryWatch(a), ref) /\ ~ Watches(BinaryWatch(b), ref)
  BY DEF Watches, BinaryWatch
<1>7. \A l \in Lit : \A u \in ToSet(ws[l]) : u \in ToSet(vs[l]) BY <1>1, <1>3
<1>8. \A l \in Lit : \A u \in ToSet(vs[l]) :
         \/ u \in ToSet(ws[l]) \/ (l = a /\ u = BinaryWatch(b)) \/ (l = b /\ u = BinaryWatch(a))
  BY <1>1, <1>3
<1>9. BinaryWatch(b) \in ToSet(vs[a]) /\ BinaryWatch(a) \in ToSet(vs[b]) BY <1>3
<1> HIDE <1>1, <1>3
<1> QED BY <1>4, <1>5, <1>6, <1>7, <1>8, <1>9 DEF SmallMoves

LargeMoves(ws, K, lits, a, b, ref) ==
    /\ \A l \in Lit : \A u \in ToSet(ws[l]) : u \in ToSet(K[l]) \/ Watches(u, ref)
    /\ \A l \in Lit : \A u \in ToSet(K[l]) : u \in ToSet(ws[l]) \/ Watches(u, ref)
    /\ \A u \in ToSet(K[a]) : Watches(u, ref) => u.blocking = b
    /\ \A u \in ToSet(K[b]) : u \in ToSet(ws[b]) \/ u.blocking = a
    /\ BothWatched(K, lits, ref)

LEMMA LargeSets ==
    ASSUME NEW ws \in Lists, NEW lits, NEW a, NEW b, a = lits[1], b = lits[2],
           NEW lit \in Lit, a \in Lit, b \in Lit, a # b, a # lit, b # lit, NEW ref \in Nat,
           \E u \in ToSet(ws[a]) : Watches(u, ref),
           NEW K, K = [Rewatched(ws, lit, b, a, ref) EXCEPT ![a] =
               [i \in DOMAIN @ |-> IF Watches(@[i], ref) THEN LargeWatch(b, ref) ELSE @[i]]]
    PROVE  LargeMoves(ws, K, lits, a, b, ref)
<1> PICK H : H = Rewatched(ws, lit, b, a, ref) OBVIOUS
<1> PICK s : s = H[a] OBVIOUS
<1> PICK h : h = [i \in DOMAIN s |-> IF Watches(s[i], ref) THEN LargeWatch(b, ref) ELSE s[i]]
  OBVIOUS
<1>1. /\ Rewatches(ws, H, ref, {a})
      /\ H[a] = ws[a]
      /\ \E x \in ToSet(H[b]) : Watches(x, ref)
  <2> PICK D : D = {a} OBVIOUS
  <2>1. a \in D OBVIOUS
  <2>2. /\ a \in Lit /\ b \in Lit /\ b # lit /\ ref \in Nat /\ lit \in Lit /\ ws \in Lists
        /\ H = Rewatched(ws, lit, b, a, ref)
    OBVIOUS
  <2>3. Rewatching(ws, Rewatched(ws, lit, b, a, ref), lit, b, ref, D)
    BY ONLY <2>1, <2>2, RewatchedSets
  <2>4. Rewatches(ws, H, ref, D) /\ \E x \in ToSet(H[b]) : Watches(x, ref)
    BY ONLY <2>2, <2>3 DEF Rewatching
  <2>5. H[a] = ws[a]
    <3> PICK less : less = Unwatched(ws, lit, ref) OBVIOUS
    <3>1. less \in Lists /\ less[a] = ws[a] BY ONLY <2>2, less = Unwatched(ws, lit, ref), a # lit, UnwatchedSet
    <3>2. H = [less EXCEPT ![b] = Append(@, LargeWatch(a, ref))] BY DEF Rewatched
    <3> QED BY ONLY <2>2, <3>1, <3>2, a # b DEF Lists
  <2> QED BY <2>3, <2>4, <2>5
<1>2. H \in Lists /\ DOMAIN H = Lit BY <1>1 DEF Rewatches, Lists
<1>3. K[a] = h /\ \A l \in Lit : l # a => K[l] = H[l]
  <2>1. K = [H EXCEPT ![a] = h] OBVIOUS
  <2> QED BY ONLY <1>2, <2>1, a \in Lit
<1>4. Watches(LargeWatch(b, ref), ref) /\ LargeWatch(b, ref).blocking = b
  BY DEF Watches, LargeWatch
<1>5. /\ \A u \in ToSet(h) : u = LargeWatch(b, ref) \/ (u \in ToSet(s) /\ ~ Watches(u, ref))
      /\ \A u \in ToSet(s) : IF Watches(u, ref) THEN LargeWatch(b, ref) \in ToSet(h)
                                                ELSE u \in ToSet(h)
  <2>1. DOMAIN h = DOMAIN s OBVIOUS
  <2>2. \A i \in DOMAIN s : h[i] = IF Watches(s[i], ref) THEN LargeWatch(b, ref) ELSE s[i]
    OBVIOUS
  <2>3. ToSet(h) = {h[i] : i \in DOMAIN s} /\ ToSet(s) = {s[i] : i \in DOMAIN s}
    BY <2>1 DEF ToSet
  <2> QED BY ONLY <2>2, <2>3
<1>6. \A l \in Lit : /\ \A u \in ToSet(H[l]) :
                            u \in ToSet(ws[l]) \/ (Watches(u, ref) /\ u.blocking = a)
                     /\ \A u \in ToSet(ws[l]) : u \in ToSet(H[l]) \/ Watches(u, ref)
  BY <1>1 DEF Rewatches
<1> PICK U, V : U = ToSet(h) /\ V = ToSet(s) OBVIOUS
<1>7. ToSet(K[a]) = U /\ ToSet(H[a]) = V /\ \A l \in Lit : l # a => ToSet(K[l]) = ToSet(H[l])
  BY <1>3
<1>8. \A l \in Lit : \A u \in ToSet(ws[l]) : u \in ToSet(K[l]) \/ Watches(u, ref)
  BY <1>5, <1>6, <1>7
<1>9. \A l \in Lit : \A u \in ToSet(K[l]) : u \in ToSet(ws[l]) \/ Watches(u, ref)
  BY <1>4, <1>5, <1>6, <1>7
<1>10. \A u \in ToSet(K[a]) : Watches(u, ref) => u.blocking = b BY <1>4, <1>5, <1>7
<1>11. \A u \in ToSet(K[b]) : u \in ToSet(ws[b]) \/ u.blocking = a BY <1>6, <1>7
<1>12. \E u \in ToSet(K[a]) : Watches(u, ref)
  <2>1. ToSet(ws[a]) = V BY <1>1, <1>7
  <2>2. \E u \in V : Watches(u, ref) BY <2>1
  <2> QED BY <1>4, <1>5, <1>7, <2>2
<1>13. \E u \in ToSet(K[b]) : Watches(u, ref) BY <1>1, <1>7
<1>14. BothWatched(K, lits, ref) BY <1>12, <1>13 DEF BothWatched
<1> QED BY <1>8, <1>9, <1>10, <1>11, <1>14 DEF LargeMoves

\* A binary clause takes the place of the reason, and of a subsumed conflict.
LEMMA StrengthenSmallKept ==
    ASSUME SearchInv, SearchInv', ~ undo.active, WatchedInv, PlanInv, Doing("deduce"),
           NEW lit, NEW ref, NEW B, ReasonPlan(lit, ref, B), Cardinality(B) = 2, StrengthenRest,
           Subsuming => B \subseteq ToSet(LitsOf(conflict)),
           NEW lits, IsListing(lits, B),
           watches' = Unwatched(Unwatched(Watched(watches, lits, 0), arena[ref].lits[1], ref),
                                arena[ref].lits[2], ref),
           conflict' = BinaryConflict(lits[1], lits[2]),
           StrengthenedClauses(ref), arena'[ref].garbage,
           \A r \in References : arena'[r].lits = arena[r].lits
    PROVE  WatchedInv' /\ PlanInv'
<1>1. /\ B \in SUBSET Lit /\ B \subseteq ToSet(arena[ref].lits) /\ ref \in References
      /\ visit = NoVisit
  <2>1. B = AboveRoot(ToSet(arena[ref].lits) \ {lit}) BY DEF ReasonPlan
  <2>2. B \subseteq ToSet(arena[ref].lits) BY <2>1 DEF AboveRoot
  <2> QED BY <2>2 DEF ReasonPlan
<1>2. visit' = NoVisit BY <1>1 DEF StrengthenRest
<1> PICK a, b : a = lits[1] /\ b = lits[2] OBVIOUS
<1>3. a \in Lit /\ b \in Lit /\ a # b /\ B = {a, b} /\ lits = <<a, b>>
  <2>1. lits \in Seq(B) /\ Len(lits) = Cardinality(B) /\ ToSet(lits) = B /\ IsInjective(lits)
    BY DEF IsListing
  <2>2. lits \in Seq(B) /\ Len(lits) = 2 /\ DOMAIN lits = 1 .. 2 /\ lits = <<lits[1], lits[2]>>
    BY ONLY <2>1, Cardinality(B) = 2
  <2>3. ToSet(lits) = {a, b}
    <3>1. ToSet(lits) = {lits[i] : i \in 1 .. 2} BY ONLY <2>2 DEF ToSet
    <3>2. 1 .. 2 = {1, 2} OBVIOUS
    <3>3. ToSet(lits) = {lits[1], lits[2]} BY ONLY <3>1, <3>2
    <3> QED BY <3>3
  <2>4. lits[1] # lits[2]
    <3>1. DOMAIN lits = 1 .. Len(lits) /\ Len(lits) \in Nat /\ Len(lits) >= 2 BY ONLY <2>2
    <3> QED BY ONLY <2>1, <3>1, TwoApart
  <2> QED BY <1>1, <2>1, <2>2, <2>3, <2>4
<1>4. /\ arena[ref].lits[1] \in Lit /\ arena[ref].lits[2] \in Lit /\ watches \in Lists
  <2>1. arena[ref].lits \in Seq(Lit) /\ Len(arena[ref].lits) > 2
    BY <1>1 DEF SearchInv, ArenaSound
  <2> QED BY <2>1 DEF SearchInv, WatchListsOK
<1>5. /\ \A l \in Lit : \A u \in ToSet(watches[l]) : u \in ToSet(watches'[l]) \/ Watches(u, ref)
      /\ \A l \in Lit : \A u \in ToSet(watches'[l]) :
            \/ u \in ToSet(watches[l])
            \/ l = a /\ u = BinaryWatch(b)
            \/ l = b /\ u = BinaryWatch(a)
      /\ BinaryWatch(b) \in ToSet(watches'[a]) /\ BinaryWatch(a) \in ToSet(watches'[b])
  <2> PICK c, d : c = arena[ref].lits[1] /\ d = arena[ref].lits[2] OBVIOUS
  <2> PICK xs : xs = watches' OBVIOUS
  <2>1. xs = Unwatched(Unwatched(Watched(watches, <<a, b>>, 0), c, ref), d, ref) BY <1>3
  <2>2. a \in Lit /\ b \in Lit /\ a # b /\ c \in Lit /\ d \in Lit /\ watches \in Lists
    BY <1>3, <1>4
  <2>3. SmallMoves(watches, xs, a, b, ref) BY ONLY <2>1, <2>2, SmallSets
  <2> QED BY <2>3 DEF SmallMoves
<1>6. /\ BinaryWatch(a).binary /\ BinaryWatch(a).blocking = a
      /\ BinaryWatch(b).binary /\ BinaryWatch(b).blocking = b
  BY DEF BinaryWatch
<1>7. \A l \in Lit : /\ Held(l) = ToSet(watches[l]) /\ Held(l)' = ToSet(watches'[l])
  BY <1>1, <1>2, HeldIdle, HeldIdleNext
<1>8. IdleLists /\ MovesOnly(ref) BY <1>1, <1>2, <1>5 DEF IdleLists, MovesOnly
<1>9. FirstsHeld'
  <2>1. \A r \in LiveReferences' : r # ref => r \in LiveReferences /\ First(r)' = First(r)
    BY DEF LiveReferences, First, StrengthenedClauses
  <2>2. ref \notin LiveReferences' BY DEF LiveReferences
  <2> QED BY <1>8, <2>1, <2>2, FirstsRewatched DEF WatchedInv
<1>10. BothHeld'
  <2>1. \A l \in Lit : \A u \in ToSet(watches'[l]) : u.binary =>
          \/ u \in ToSet(watches[l])
          \/ \E v \in ToSet(watches'[u.blocking]) : v.binary /\ v.blocking = l
    BY <1>5, <1>6
  <2> QED BY <1>8, <2>1, BothRewatched DEF WatchedInv
<1>11. BlockingInside'
  <2>1. \A l \in Lit : \A u \in ToSet(watches'[l]) : ~ u.binary =>
          \/ u \in ToSet(watches[l]) /\ u.ref # ref
          \/ u.ref = ref /\ (arena'[ref].garbage \/ u.blocking \in ToSet(arena'[ref].lits))
    BY <1>5, <1>6
  <2>2. \A r \in References : r # ref => /\ ~ arena'[r].garbage => ~ arena[r].garbage
                                         /\ ToSet(arena'[r].lits) = ToSet(arena[r].lits)
    BY DEF StrengthenedClauses
  <2> QED BY <1>8, <2>1, <2>2, BlockingRewatched DEF WatchedInv
<1>12. /\ conflict'.ref = 0 /\ ToSet(conflict'.lits) = {a, b} /\ conflict' # NoConflict
  <2>1. conflict' = [ref |-> 0, lits |-> <<a, b>>] BY DEF BinaryConflict
  <2>2. conflict'.ref = 0 /\ conflict'.lits = <<a, b>> BY <2>1
  <2>3. ToSet(<<a, b>>) = {a, b}
    <3>1. DOMAIN <<a, b>> = {1, 2} OBVIOUS
    <3> QED BY <3>1 DEF ToSet
  <2>4. conflict'.lits # <<>> BY <2>2
  <2> QED BY <2>2, <2>3, <2>4 DEF NoConflict
<1>13. \A l \in Lit : \A w \in ToSet(watches'[l]) : IsLive(w)' =>
          \/ w \in ToSet(watches[l]) /\ ~ Watches(w, ref)
          \/ OfConflict(l, w)'
  <2> TAKE l \in Lit
  <2> TAKE w \in ToSet(watches'[l])
  <2> HAVE IsLive(w)'
  <2>1. ~ Watches(w, ref) BY DEF IsLive, Watches
  <2>2. CASE l = a /\ w = BinaryWatch(b)
    <3>1. w.binary /\ w.blocking = b BY <1>6, <2>2
    <3> QED BY <1>12, <2>2, <3>1 DEF OfConflict
  <2>3. CASE l = b /\ w = BinaryWatch(a)
    <3>1. w.binary /\ w.blocking = a BY <1>6, <2>3
    <3>2. {a, b} = {l, w.blocking} BY <2>3, <3>1
    <3> QED BY <1>12, <3>1, <3>2 DEF OfConflict
  <2> QED BY <1>5, <2>1, <2>2, <2>3
<1>14. \A l \in Lit : \A w \in ToSet(watches[l]) : w.binary => w \in ToSet(watches'[l])
  BY <1>5 DEF Watches
<1>15. AtRoot' = AtRoot BY StillRoot DEF StrengthenRest
<1>16. ASSUME NEW D, {a, b} \subseteq D \cup AtRoot PROVE KeptAs(D)'
  <2> PICK w : w = BinaryWatch(b) OBVIOUS
  <2>1. w \in Held(a)' /\ w.binary /\ w.blocking = b BY <1>3, <1>5, <1>6, <1>7
  <2>2. {a, w.blocking} \subseteq D \cup AtRoot' BY <1>15, <1>16, <2>1
  <2> QED BY <1>3, <2>1, <2>2 DEF KeptAs
<1>17. \A r \in LiveReferences : ~ arena[r].redundant =>
          \/ /\ r \in LiveReferences' /\ ~ arena'[r].redundant
             /\ ToSet(arena'[r].lits) \subseteq ToSet(arena[r].lits)
          \/ \A D : ToSet(arena[r].lits) \subseteq D \cup AtRoot => KeptAs(D)'
  <2> TAKE r \in LiveReferences
  <2> HAVE ~ arena[r].redundant
  <2>0. r \in References /\ ~ arena[r].garbage BY DEF LiveReferences
  <2>1. CASE r = ref BY <1>1, <1>3, <1>16, <2>1
  <2>2. CASE r # ref /\ ~ arena'[r].garbage
    BY <2>0, <2>2 DEF LiveReferences, StrengthenedClauses
  <2>3. CASE r # ref /\ arena'[r].garbage
    <3>1. r = conflict.ref /\ Subsuming BY <2>0, <2>3 DEF StrengthenedClauses
    <3>2. r # 0 BY <2>0 DEF SearchInv, ArenaSound, References
    <3>3. B \subseteq ToSet(arena[r].lits) BY <3>1, <3>2 DEF LitsOf
    <3> QED BY <1>3, <1>16, <3>3
  <2> QED BY <2>1, <2>2, <2>3
<1> QED BY <1>9, <1>10, <1>11, <1>12, <1>13, <1>14, <1>17, StrengthenKept

\* A large watch is in one of the first two literals of its clause.
HeldFits == \A l \in Lit : \A w \in Held(l) : ~ w.binary => l \in First(w.ref)
LEMMA HeldNow == SearchInv => HeldFits
BY HeldSound DEF HeldFits
LEMMA HeldLater == SearchInv' => HeldFits'
BY HeldNow, PTL

\* The reason loses its literal.
LEMMA StrengthenLargeKept ==
    ASSUME SearchInv, SearchInv', ~ undo.active, WatchedInv, PlanInv, Doing("deduce"),
           NEW lit, NEW ref, NEW B, ReasonPlan(lit, ref, B), StrengthenRest,
           Subsuming => B \subseteq ToSet(LitsOf(conflict)),
           NEW lits, ShorterClause(lit, ref, B, lits),
           watches' = StrengthenedWatches(lits, lit, ref), conflict' = LargeConflict(ref),
           StrengthenedClauses(ref), arena'[ref].lits = lits,
           Subsuming /\ conflict.ref \in References /\ ~ arena[conflict.ref].redundant
               => ~ arena'[ref].redundant,
           arena'[ref].garbage => arena[ref].garbage \/ ref = conflict.ref
    PROVE  WatchedInv' /\ PlanInv'
<1>1. /\ ref \in References /\ visit = NoVisit /\ ~ arena[ref].garbage
      /\ lit \in Forced /\ lit \in Lit
      /\ reason[Idx(lit)].kind = "large" /\ reason[Idx(lit)].ref = ref
      /\ Supported(lit, ToSet(arena[ref].lits) \ {lit})
  BY DEF ReasonPlan
<1>2. visit' = NoVisit BY <1>1 DEF StrengthenRest
<1> PICK a, b : a = lits[1] /\ b = lits[2] OBVIOUS
<1>3. /\ lits \in Seq(Lit) /\ Len(lits) > 2 /\ a \in Lit /\ b \in Lit /\ a # b
      /\ a # lit /\ b # lit /\ First(ref) = {lit, a} /\ Shorter(lit, ref, B, lits)
  BY DEF ShorterClause
<1>4. ref # conflict.ref /\ ~ arena'[ref].garbage
  <2>1. Fits(lit)
    <3>1. lit \in First(ref) BY DEF ReasonPlan
    <3> QED BY <1>1, <3>1 DEF Fits
  <2>2. ref # conflict.ref BY <1>1, <2>1, OneReason
  <2> QED BY <1>1, <2>2
<1>5. watches \in Lists /\ ref \in Nat /\ ref # 0 /\ References' = References
  BY <1>1 DEF SearchInv, WatchListsOK, ArenaSound, References, StrengthenedClauses
<1>6. \A l \in Lit : /\ Held(l) = ToSet(watches[l]) /\ Held(l)' = ToSet(watches'[l])
  BY <1>1, <1>2, HeldIdle, HeldIdleNext
<1>7. ref \in LiveReferences /\ ref \in LiveReferences'
  BY <1>1, <1>4, <1>5 DEF LiveReferences
<1>8. \E u \in ToSet(watches[a]) : Watches(u, ref)
  <2>1. a \in First(ref) BY <1>3
  <2> QED BY <1>3, <1>6, <1>7, <2>1 DEF WatchedInv, FirstsHeld
<1>9. /\ \A l \in Lit : \A u \in ToSet(watches[l]) : u \in ToSet(watches'[l]) \/ Watches(u, ref)
      /\ \A l \in Lit : \A u \in ToSet(watches'[l]) : u \in ToSet(watches[l]) \/ Watches(u, ref)
      /\ \A u \in ToSet(watches'[a]) : Watches(u, ref) => u.blocking = b
      /\ \A u \in ToSet(watches'[b]) : u \in ToSet(watches[b]) \/ u.blocking = a
      /\ BothWatched(watches', lits, ref)
  <2> PICK K : K = watches' OBVIOUS
  <2>1. K = [Rewatched(watches, lit, b, a, ref) EXCEPT ![a] =
               [i \in DOMAIN @ |-> IF Watches(@[i], ref) THEN LargeWatch(b, ref) ELSE @[i]]]
    BY DEF StrengthenedWatches, Rewatched, Watches
  <2>2. /\ lit \in Lit /\ a \in Lit /\ b \in Lit /\ a # b /\ a # lit /\ b # lit /\ ref \in Nat
        /\ watches \in Lists /\ a = lits[1] /\ b = lits[2]
    BY <1>1, <1>3, <1>5
  <2>3. LargeMoves(watches, K, lits, a, b, ref) BY ONLY <1>8, <2>1, <2>2, LargeSets
  <2> QED BY <2>3 DEF LargeMoves
<1>10. IdleLists /\ MovesOnly(ref) BY <1>1, <1>2, <1>9 DEF IdleLists, MovesOnly
<1>11. FirstsHeld'
  <2>1. \A r \in LiveReferences' : r # ref => r \in LiveReferences /\ First(r)' = First(r)
    BY DEF LiveReferences, First, StrengthenedClauses
  <2>2. BothWatched(watches', arena'[ref].lits, ref) BY <1>9
  <2> QED BY <1>10, <2>1, <2>2, FirstsRewatched DEF WatchedInv
<1>12. BothHeld'
  <2>1. \A l \in Lit : \A u \in ToSet(watches'[l]) : u.binary => u \in ToSet(watches[l])
    BY <1>9 DEF Watches
  <2> QED BY <1>10, <2>1, BothRewatched DEF WatchedInv
<1>13. BlockingInside'
  <2>0. a \in ToSet(lits) /\ b \in ToSet(lits)
    <3>1. 1 \in DOMAIN lits /\ 2 \in DOMAIN lits BY <1>3
    <3> QED BY <3>1 DEF ToSet
  <2>1. ASSUME NEW l \in Lit, NEW u \in ToSet(watches'[l]), ~ u.binary
        PROVE  \/ u \in ToSet(watches[l]) /\ u.ref # ref
               \/ u.ref = ref /\ u.blocking \in ToSet(lits)
    <3>1. CASE u.ref # ref BY <1>9, <2>1, <3>1 DEF Watches
    <3>2. CASE u.ref = ref
      <4>1. l \in First(ref)' BY <1>6, <2>1, <3>2, HeldLater DEF HeldFits
      <4>2. First(ref)' = {a, b} BY DEF First
      <4>3. Watches(u, ref) BY <2>1, <3>2 DEF Watches
      <4>4. CASE l = a BY <1>9, <2>0, <2>1, <3>2, <4>3, <4>4
      <4>5. CASE l = b
        <5>1. u \notin ToSet(watches[b])
          <6> SUFFICES ASSUME u \in ToSet(watches[b]) PROVE FALSE
            OBVIOUS
          <6>1. b \in First(ref) BY <1>3, <1>6, <2>1, <3>2, HeldSound
          <6> QED BY <1>3, <6>1
        <5> QED BY <1>9, <2>0, <2>1, <3>2, <4>5, <5>1
      <4> QED BY <4>1, <4>2, <4>4, <4>5
    <3> QED BY <3>1, <3>2
  <2>2. \A l \in Lit : \A u \in ToSet(watches'[l]) : ~ u.binary =>
          \/ u \in ToSet(watches[l]) /\ u.ref # ref
          \/ u.ref = ref /\ (arena'[ref].garbage \/ u.blocking \in ToSet(arena'[ref].lits))
    BY <2>1
  <2>3. \A r \in References : r # ref => /\ ~ arena'[r].garbage => ~ arena[r].garbage
                                         /\ ToSet(arena'[r].lits) = ToSet(arena[r].lits)
    BY DEF StrengthenedClauses
  <2> QED BY <1>10, <2>2, <2>3, BlockingRewatched DEF WatchedInv
<1>14. conflict' # NoConflict /\ \A l, w : Watches(w, ref) => OfConflict(l, w)'
  <2>1. conflict'.ref = ref BY DEF LargeConflict
  <2>2. conflict' # NoConflict BY <1>5, <2>1 DEF NoConflict
  <2> QED BY <2>1, <2>2 DEF OfConflict, Watches
<1>15. \A l \in Lit : \A w \in ToSet(watches'[l]) : IsLive(w)' =>
          \/ w \in ToSet(watches[l]) /\ ~ Watches(w, ref)
          \/ OfConflict(l, w)'
  BY <1>9, <1>14
<1>16. \A l \in Lit : \A w \in ToSet(watches[l]) : w.binary => w \in ToSet(watches'[l])
  BY <1>9 DEF Watches
<1>17. AtRoot' = AtRoot BY StillRoot DEF StrengthenRest
<1>18. ToSet(lits) \subseteq B \cup AtRoot
  <2> SUFFICES ASSUME NEW m \in ToSet(lits), m \notin B PROVE m \in AtRoot
    OBVIOUS
  <2>1. m \in ToSet(arena[ref].lits) \ {lit} /\ ~ (LevelOf(m) > 0) BY <1>3 DEF Shorter
  <2>2. m \in Lit BY <1>3 DEF ToSet
  <2>3. values[m] = -1 BY <1>1, <2>1 DEF Supported
  <2>4. LevelOf(m) = 0
    <3>1. LevelOf(m) \in Nat BY <2>2, Values DEF SearchInv
    <3> QED BY <2>1, <3>1
  <2> QED BY <2>2, <2>3, <2>4 DEF AtRoot
<1>19. \A r \in LiveReferences : ~ arena[r].redundant =>
          \/ /\ r \in LiveReferences' /\ ~ arena'[r].redundant
             /\ ToSet(arena'[r].lits) \subseteq ToSet(arena[r].lits)
          \/ \A D : ToSet(arena[r].lits) \subseteq D \cup AtRoot => KeptAs(D)'
  <2> TAKE r \in LiveReferences
  <2> HAVE ~ arena[r].redundant
  <2>0. r \in References /\ ~ arena[r].garbage BY DEF LiveReferences
  <2>1. CASE r = ref
    <3>1. ToSet(lits) \subseteq ToSet(arena[ref].lits) BY <1>3 DEF Shorter
    <3>2. ~ arena'[ref].redundant BY <2>0, <2>1 DEF StrengthenedClauses
    <3> QED BY <1>7, <2>1, <3>1, <3>2
  <2>2. CASE r # ref /\ ~ arena'[r].garbage
    BY <2>0, <2>2 DEF LiveReferences, StrengthenedClauses
  <2>3. CASE r # ref /\ arena'[r].garbage
    <3>1. r = conflict.ref /\ Subsuming BY <2>0, <2>3 DEF StrengthenedClauses
    <3>2. r # 0 BY <2>0 DEF SearchInv, ArenaSound, References
    <3>3. B \subseteq ToSet(arena[r].lits) BY <3>1, <3>2 DEF LitsOf
    <3>4. ~ arena'[ref].redundant BY <2>0, <3>1
    <3>5. ASSUME NEW D, ToSet(arena[r].lits) \subseteq D \cup AtRoot PROVE KeptAs(D)'
      <4>1. ToSet(arena'[ref].lits) \subseteq D \cup AtRoot' BY <1>17, <1>18, <3>3, <3>5
      <4> QED BY <1>7, <3>4, <4>1 DEF KeptAs
    <3> QED BY <3>5
  <2> QED BY <2>1, <2>2, <2>3
<1> QED BY <1>11, <1>12, <1>13, <1>14, <1>15, <1>16, <1>19, StrengthenKept

LEMMA StrengthenedKept ==
    SearchInv /\ SearchInv' /\ ~ undo.active /\ WatchedInv /\ PlanInv /\ DeduceAndStrengthen
        => WatchedInv' /\ PlanInv'
<1> SUFFICES ASSUME SearchInv, SearchInv', ~ undo.active, WatchedInv, PlanInv,
                    DeduceAndStrengthen
             PROVE  WatchedInv' /\ PlanInv'
  OBVIOUS
<1> PICK lit : lit = -Pivot OBVIOUS
<1> PICK ref : ref = reason[Idx(lit)].ref OBVIOUS
<1> PICK B : B = Antecedent(lit) OBVIOUS
<1> PICK small \in BOOLEAN : small = (Cardinality(B) = 2) OBVIOUS
<1>1. /\ Doing("deduce") /\ ~ IsAsserting /\ Strengthens
      /\ \/ small /\ Strengthen(lit, ref, small, Ordered(B))
         \/ ~ small /\ \E lits \in LargeStrengthened(arena[ref], lit) :
                            Strengthen(lit, ref, small, lits)
      /\ StrengthenRest
  BY DEF DeduceAndStrengthen, StrengthenRest, Done, loopVars
<1>2. ReasonPlan(lit, ref, B) BY <1>1, StrengthenFacts
<1>3. /\ ref \in References /\ Cardinality(B) \in Nat /\ Cardinality(B) > 1
      /\ B \in SUBSET Lit /\ IsFiniteSet(B)
  BY <1>2 DEF ReasonPlan
<1>4. Subsuming => B \subseteq ToSet(LitsOf(conflict)) BY <1>1, SubsumesConflict
<1>5. CASE small
  <2> PICK lits : lits = Ordered(B) OBVIOUS
  <2>1. Strengthen(lit, ref, small, lits) BY <1>1, <1>5
  <2>2. /\ watches' = Unwatched(Unwatched(Watched(watches, lits, 0), arena[ref].lits[1], ref),
                                arena[ref].lits[2], ref)
        /\ conflict' = BinaryConflict(lits[1], lits[2])
    BY <1>3, <1>5, <2>1, StrengthenSmall
  <2>3. /\ StrengthenedClauses(ref) /\ arena'[ref].garbage
        /\ \A r \in References : arena'[r].lits = arena[r].lits
    BY <1>3, <1>5, <2>1, SmallClauses
  <2>4. IsListing(lits, B) BY <1>3, Listings DEF Ordered
  <2> QED BY <1>1, <1>2, <1>4, <1>5, <2>2, <2>3, <2>4, StrengthenSmallKept
<1>6. CASE ~ small
  <2>1. PICK lits \in LargeStrengthened(arena[ref], lit) : Strengthen(lit, ref, small, lits)
    BY <1>1, <1>6
  <2>2. Cardinality(B) > 2
    <3>1. Cardinality(B) # 2 BY <1>6, Zenon
    <3> QED BY <1>3, <3>1
  <2>3. ShorterClause(lit, ref, B, lits) BY <1>2, <2>2, ShorterFacts
  <2>4. lits \in Seq(Lit) BY <2>3 DEF ShorterClause
  <2>5. watches' = StrengthenedWatches(lits, lit, ref) /\ conflict' = LargeConflict(ref)
    BY <1>3, <1>6, <2>1, <2>4, StrengthenLarge
  <2>6. /\ StrengthenedClauses(ref) /\ arena'[ref].lits = lits
        /\ arena'[ref].garbage => arena[ref].garbage \/ ref = conflict.ref
        /\ Subsuming /\ conflict.ref \in References /\ ~ arena[conflict.ref].redundant
             => ~ arena'[ref].redundant
    BY <1>3, <1>6, <2>1, <2>4, LargeClauses
  <2> QED BY <1>1, <1>2, <1>4, <2>3, <2>5, <2>6, StrengthenLargeKept
<1> QED BY <1>5, <1>6

-----------------------------------------------------------------------------
\* Every step of the search keeps it.
LEMMA HandlerKept ==
    SearchInv /\ SearchInv' /\ ~ undo.active /\ WatchedInv /\ PlanInv /\ Handler
        => WatchedInv' /\ PlanInv'
BY BacktrackKept, LearnedUnitKept, ForceKept, WatchBinaryKept, SubsumeKept, FailedStepKept,
   FailedDoneKept, DeduceStepKept, LearnKept, StrengthenedKept DEF Handler

LEMMA SearchLoopKept ==
    SearchInv /\ SearchInv' /\ WatchedInv /\ PlanInv /\ SearchLoop => WatchedInv' /\ PlanInv'
BY PropagateKept, FlushKept, AnalyzeKept, BystandersKept, RestartKept, DecideKept
   DEF SearchLoop

LEMMA NextKept ==
    SearchInv /\ SearchInv' /\ WatchedInv /\ PlanInv /\ [SearchNext]_searchVars
        => WatchedInv' /\ PlanInv'
BY BystandersKept, UndoKept, HandlerKept, SearchLoopKept DEF SearchNext, Stopped

-----------------------------------------------------------------------------
\* Two unassigned literals, or a true one.
Open(D) ==
    \/ \E l \in D : values[l] = 1
    \/ Cardinality({l \in D : values[l] = 0}) > 1

LEMMA PairOpen ==
    ASSUME SearchInv, NEW D, D \subseteq Lit, NEW a \in D, NEW b \in D, a # b,
           values[a] = -1 => \E l \in D : values[l] = 1,
           values[b] = -1 => \E l \in D : values[l] = 1
    PROVE  Open(D)
<1> PICK Z : Z = {l \in D : values[l] = 0} OBVIOUS
<1>1. values[a] \in {-1, 0, 1} /\ values[b] \in {-1, 0, 1}
  BY DEF SearchInv, TrailInv, TrailTypeOK
<1>2. CASE values[a] = 0 /\ values[b] = 0
  <2>1. {a, b} \subseteq Z BY <1>2
  <2>2. Z \in SUBSET Lit BY DEF Lit
  <2>3. IsFiniteSet(Z) /\ Cardinality(Z) \in Nat BY <2>2, FiniteLiterals
  <2>4. Cardinality({a, b}) = 2
    <3>1. Cardinality({a}) = 1 /\ IsFiniteSet({a}) BY FS_Singleton
    <3>2. {a, b} = {a} \cup {b} /\ b \notin {a} OBVIOUS
    <3>3. Cardinality({a} \cup {b}) = Cardinality({a}) + 1 BY <3>1, <3>2, FS_AddElement
    <3> QED BY <3>1, <3>2, <3>3
  <2>5. Cardinality({a, b}) <= Cardinality(Z) BY <2>1, <2>3, FS_Subset
  <2>6. Cardinality(Z) > 1 BY <2>3, <2>4, <2>5
  <2> QED BY <2>6 DEF Open
<1>3. CASE ~ (values[a] = 0 /\ values[b] = 0) BY <1>1, <1>3 DEF Open
<1> QED BY <1>2, <1>3

\* When all is propagated the partners of a false literal hold.
LEMMA QuietWatches ==
    ASSUME SearchInv, WatchedInv, Quiet, Propagated,
           NEW l \in Lit, values[l] = -1, NEW w \in Held(l), IsLive(w)
    PROVE  \E t \in Partners(l, w) : values[t] = 1
<1>1. visit = NoVisit /\ propagate = Len(trail) /\ todo = <<>> /\ ~ undo.active
      /\ conflict = NoConflict
  BY DEF Quiet, Propagated
<1>2. Held(l) = Seen(l)
  <2>1. RestOf(visit, l) = <<>> BY <1>1 DEF RestOf, NoVisit
  <2> QED BY <2>1, EmptySet DEF Held
<1>3. Targets = {} BY <1>1 DEF Targets
<1>4. Reach = Len(trail) BY <1>1, <1>3 DEF Reach, Retreating
<1>5. Settled(l)
  <2>1. \A i \in Live : i <= Len(trail)
    <3>1. Live \subseteq 1 .. Len(trail) /\ Len(trail) \in Nat BY LiveFacts DEF SearchInv, TrailInv
    <3> QED BY <3>1
  <2> QED BY <1>4, <2>1 DEF Settled
<1>6. ~ InHand(l, w) BY <1>1 DEF InHand, OfConflict
<1>7. Attended(l, w) BY <1>2, <1>5 DEF WatchedInv, Attention
<1> QED BY <1>6, <1>7 DEF Attended, Outlasts

\* No clause is falsified then, and none forces an unassigned literal.
LEMMA CompleteFits == SearchInv /\ WatchedInv => PropagationComplete
<1> SUFFICES ASSUME SearchInv, WatchedInv, Quiet, Propagated, NEW D \in Database
             PROVE  Open(D)
  BY DEF PropagationComplete, Open
<1>1. CASE D \in Binaries
  <2> PICK l \in Lit : D \in {{l, w.blocking} : w \in BinaryWatches(l)} BY <1>1 DEF Binaries
  <2>1. PICK w \in BinaryWatches(l) : D = {l, w.blocking} OBVIOUS
  <2>0. l \in Lit OBVIOUS
  <2>2. w \in Held(l) /\ w.binary BY <2>1 DEF BinaryWatches, Held, Seen
  <2> PICK m : m = w.blocking OBVIOUS
  <2>3. m \in Lit /\ m # l BY <2>2, HeldSound
  <2>4. PICK v \in Held(m) : v.binary /\ v.blocking = l BY <2>2 DEF WatchedInv, BothHeld
  <2>5. Partners(l, w) = {m} BY <2>2 DEF Partners
  <2>6. Partners(m, v) = {l} BY <2>4 DEF Partners
  <2>7. values[l] = -1 => values[m] = 1 BY <2>2, <2>5, QuietWatches DEF IsLive
  <2>8. values[m] = -1 => values[l] = 1 BY <2>3, <2>4, <2>6, QuietWatches DEF IsLive
  <2>9. D = {l, m} BY <2>1
  <2> QED BY ONLY SearchInv, <2>0, <2>3, <2>7, <2>8, <2>9, PairOpen
<1>2. CASE D \notin Binaries
  <2>1. PICK r \in LiveReferences : D = ToSet(arena[r].lits) BY <1>2 DEF Database
  <2>2. r \in References /\ ~ arena[r].garbage BY DEF LiveReferences
  <2> PICK c : c = arena[r].lits OBVIOUS
  <2>3. c \in Seq(Lit) /\ Len(c) > 2 /\ IsInjective(c) BY <2>2 DEF SearchInv, ArenaSound
  <2>4. Len(c) \in Nat /\ DOMAIN c = 1 .. Len(c) BY <2>3
  <2>5. 1 \in DOMAIN c /\ 2 \in DOMAIN c BY <2>3, <2>4
  <2> PICK a, b : a = c[1] /\ b = c[2] OBVIOUS
  <2>6. a # b BY <2>3, <2>5 DEF IsInjective
  <2>7. D = ToSet(c) /\ a \in D /\ b \in D /\ D \subseteq Lit BY <2>1, <2>3, <2>4, <2>5 DEF ToSet
  <2>8. First(r) = {a, b} BY DEF First
  <2>9. ASSUME NEW l \in {a, b}, values[l] = -1 PROVE \E t \in D : values[t] = 1
    <3>1. l \in Lit BY <2>7
    <3>2. PICK w \in Held(l) : Watches(w, r) BY <2>8 DEF WatchedInv, FirstsHeld
    <3>3. ~ w.binary /\ w.ref = r BY <3>2 DEF Watches
    <3>4. w.blocking \in D
      BY <2>2, <2>7, <3>1, <3>3 DEF WatchedInv, BlockingInside
    <3>5. IsLive(w) BY <2>2, <3>3 DEF IsLive
    <3>6. \E t \in Partners(l, w) : values[t] = 1 BY <2>9, <3>1, <3>5, QuietWatches
    <3>7. Partners(l, w) \subseteq D BY <2>7, <2>8, <3>3, <3>4 DEF Partners
    <3> QED BY <3>6, <3>7
  <2>10. values[a] = -1 => \E t \in D : values[t] = 1 BY <2>9
  <2>11. values[b] = -1 => \E t \in D : values[t] = 1 BY <2>9
  <2> QED BY ONLY SearchInv, <2>6, <2>7, <2>10, <2>11, PairOpen
<1> QED BY <1>1, <1>2

-----------------------------------------------------------------------------
\* The initial states.
LEMMA ListedSets ==
    ASSUME NEW A, IsFiniteSet(A), A \subseteq WatchType,
           NEW B, IsFiniteSet(B), B \subseteq WatchType
    PROVE  ToSet(SetToSeq(A) \o SetToSeq(B)) = A \cup B
<1> PICK a, b : a = SetToSeq(A) /\ b = SetToSeq(B) OBVIOUS
<1>1. IsListing(a, A) /\ IsListing(b, B) BY Listings
<1>2. a \in Seq(A) /\ b \in Seq(B) /\ ToSet(a) = A /\ ToSet(b) = B BY <1>1 DEF IsListing
<1>3. a \in Seq(WatchType) /\ b \in Seq(WatchType) BY <1>2, WiderSeq
<1>4. ToSet(a \o b) = ToSet(a) \cup ToSet(b) BY <1>3, JoinSet
<1> QED BY <1>2, <1>4

\* Every clause of the formula is in the sequence.
LEMMA SequenceCovers ==
    ASSUME NEW F, F \subseteq SUBSET Lit, NEW D \in F,
           NEW large, large = InSequence(F)
    PROVE  \E r \in DOMAIN large : ToSet(large[r]) = D
<1>1. IsFiniteSet(F)
  <2>1. IsFiniteSet(SUBSET Lit) BY FiniteLiterals, FS_SUBSET
  <2> QED BY <2>1, FS_Subset
<1> PICK s : s = SetToSeq(F) OBVIOUS
<1>2. IsListing(s, F) BY <1>1, Listings
<1>3. ToSet(s) = F BY <1>2 DEF IsListing
<1>4. large = [r \in DOMAIN s |-> Ordered(s[r])] BY DEF InSequence
<1>5. PICK r \in DOMAIN s : s[r] = D BY <1>3 DEF ToSet
<1>6. IsListing(SetToSeq(D), D) BY FiniteLiterals, Listings
<1>7. ToSet(Ordered(D)) = D BY <1>6 DEF IsListing, Ordered
<1> QED BY <1>4, <1>5, <1>7

\* The clauses and their watches as they are set up.
Laid(small, large) ==
    /\ small = {D \in formula : Cardinality(D) = 2}
    /\ References = DOMAIN large
    /\ \A r \in References :
         /\ arena[r].lits = large[r] /\ ~ arena[r].redundant /\ ~ arena[r].garbage
         /\ large[r] \in Seq(Lit) /\ Len(large[r]) > 2
    /\ \A D \in formula \ small : \E r \in DOMAIN large : ToSet(large[r]) = D
    /\ \A l \in Lit : Held(l) = BinarySide(l, small) \cup LargeSide(l, large)

LEMMA InitialHeld ==
    ASSUME SearchInit, SearchInv,
           NEW small, small = {D \in formula : Cardinality(D) = 2},
           NEW large, large = InSequence(formula \ small)
    PROVE  Laid(small, large)
<1>1. /\ PropagationInit /\ formula \in Formulas
  BY DEF SearchInit
<1>2. /\ arena = [r \in DOMAIN large |-> NewClause(large[r], FALSE)]
      /\ watches = [l \in Lit |-> SetToSeq(BinarySide(l, small)) \o SetToSeq(LargeSide(l, large))]
  BY DEF SearchInit
<1>3. \A D \in formula : D \in SUBSET Lit /\ Cardinality(D) \in Nat /\ Cardinality(D) > 1
  <2>1. \A D \in formula : D \in SUBSET Lit BY <1>1, SearchAssumption DEF Clause
  <2> QED BY <1>1, <2>1, SearchAssumption, FiniteLiterals
<1>4. \A D \in formula : Follows(D) BY DEF Follows, Entails, Satisfies
<1>5. formula \ small \subseteq SUBSET Lit BY <1>3
<1>6. \A D \in formula \ small : Cardinality(D) > 2 BY <1>3
<1>7. /\ large \in Seq(Seq(Lit)) /\ DOMAIN large = 1 .. Len(large) /\ Len(large) \in Nat
      /\ \A r \in DOMAIN large : large[r] \in Seq(Lit) /\ Len(large[r]) > 2
  BY <1>5, <1>6, InitialClauses
<1>8. References = DOMAIN large BY <1>2 DEF References
<1>9. ASSUME NEW r \in DOMAIN large
      PROVE  arena[r].lits = large[r] /\ ~ arena[r].redundant /\ ~ arena[r].garbage
  BY <1>2 DEF NewClause
<1>10. ASSUME NEW D \in formula \ small PROVE \E r \in DOMAIN large : ToSet(large[r]) = D
  <2> PICK F : F = formula \ small OBVIOUS
  <2>1. F \subseteq SUBSET Lit /\ D \in F /\ large = InSequence(F) BY <1>5
  <2> QED BY ONLY <2>1, SequenceCovers
<1>11. visit = NoVisit BY <1>1 DEF PropagationInit
<1>12. ASSUME NEW l \in Lit PROVE Held(l) = BinarySide(l, small) \cup LargeSide(l, large)
  <2> PICK E : E = Firsts OBVIOUS
  <2>1. DOMAIN E = DOMAIN large /\ \A r \in DOMAIN large : E[r] = {large[r][1], large[r][2]}
    BY <1>8, <1>9 DEF Firsts, First
  <2>2. TwoLitWatches(BinarySide(l, small), formula, E, l)
    <3>1. small \subseteq SUBSET Lit /\ \A D \in small : Follows(D) /\ Cardinality(D) = 2
      BY <1>3, <1>4
    <3> QED BY <3>1, InitialBinaries
  <2>3. LongWatches(LargeSide(l, large), formula, E, l) BY <1>7, <2>1, InitialLarges
  <2> PICK A, B : A = BinarySide(l, small) /\ B = LargeSide(l, large) OBVIOUS
  <2>4. /\ IsFiniteSet(A) /\ A \subseteq WatchType /\ IsFiniteSet(B) /\ B \subseteq WatchType
    BY <2>2, <2>3 DEF TwoLitWatches, LongWatches
  <2>5. ToSet(SetToSeq(A) \o SetToSeq(B)) = A \cup B BY <2>4, ListedSets
  <2>6. watches[l] = SetToSeq(A) \o SetToSeq(B) BY <1>2
  <2>7. Held(l) = ToSet(watches[l]) BY <1>11, HeldIdle
  <2> QED BY <2>5, <2>6, <2>7
<1>13. \A r \in References :
         /\ arena[r].lits = large[r] /\ ~ arena[r].redundant /\ ~ arena[r].garbage
         /\ large[r] \in Seq(Lit) /\ Len(large[r]) > 2
  BY <1>7, <1>8, <1>9
<1> QED BY <1>8, <1>10, <1>12, <1>13 DEF Laid

LEMMA SideWatches ==
    ASSUME NEW small, NEW large, Laid(small, large), NEW l \in Lit, NEW w \in Held(l)
    PROVE  \/ \E m \in Lit : {l, m} \in small /\ w = BinaryWatch(m) /\ w.binary /\ w.blocking = m
           \/ \E r \in References :
                /\ ~ w.binary /\ w.ref = r
                /\ w.blocking \in {large[r][1], large[r][2]}
<1>1. w \in BinarySide(l, small) \/ (w \in LargeSide(l, large) /\ References = DOMAIN large)
  BY DEF Laid
<1>2. CASE w \in BinarySide(l, small)
  <2>1. PICK m \in Lit : {l, m} \in small /\ w = BinaryWatch(m) BY <1>2 DEF BinarySide
  <2>2. w.binary /\ w.blocking = m BY <2>1 DEF BinaryWatch
  <2> QED BY <2>1, <2>2
<1>3. CASE w \in LargeSide(l, large) /\ References = DOMAIN large
  <2>1. PICK r \in DOMAIN large :
          w = LargeWatch(IF l = large[r][1] THEN large[r][2] ELSE large[r][1], r)
    BY <1>3 DEF LargeSide
  <2>2. /\ ~ w.binary /\ w.ref = r
        /\ w.blocking = IF l = large[r][1] THEN large[r][2] ELSE large[r][1]
    BY <2>1 DEF LargeWatch
  <2> QED BY <1>3, <2>2
<1> QED BY <1>1, <1>2, <1>3

LEMMA TwoMembers ==
    ASSUME NEW D, IsFiniteSet(D), Cardinality(D) = 2
    PROVE  \E l, m : D = {l, m}
<1>1. D # {} BY FS_EmptySet
<1>2. PICK l : l \in D BY <1>1
<1>3. IsFiniteSet(D \ {l}) /\ Cardinality(D \ {l}) = 1 BY <1>2, FS_RemoveElement
<1>4. PICK m : D \ {l} = {m} BY <1>3, FS_Singleton
<1> QED BY <1>2, <1>4

LEMMA InitialWatched == SearchInit => WatchedInv /\ PlanInv
<1> SUFFICES ASSUME SearchInit PROVE WatchedInv /\ PlanInv
  OBVIOUS
<1>0. SearchInv BY SearchInitInv
<1> PICK small : small = {D \in formula : Cardinality(D) = 2} OBVIOUS
<1> PICK large : large = InSequence(formula \ small) OBVIOUS
<1>1. Laid(small, large) BY <1>0, InitialHeld
<1>2. \A l \in Lit : values[l] = 0 BY DEF SearchInit, TrailInit
<1>3. /\ References = DOMAIN large
      /\ \A l \in Lit : Held(l) = BinarySide(l, small) \cup LargeSide(l, large)
  BY <1>1 DEF Laid
<1>4. \A r \in References :
         /\ arena[r].lits = large[r] /\ ~ arena[r].redundant /\ ~ arena[r].garbage
         /\ large[r] \in Seq(Lit) /\ Len(large[r]) > 2
  BY <1>1 DEF Laid
<1>5. ASSUME NEW r \in References
      PROVE  large[r][1] \in ToSet(large[r]) /\ large[r][2] \in ToSet(large[r])
  <2>1. 1 \in DOMAIN large[r] /\ 2 \in DOMAIN large[r] BY <1>4
  <2> QED BY <2>1 DEF ToSet
<1>6. FirstsHeld
  <2> SUFFICES ASSUME NEW r \in LiveReferences, NEW l \in First(r)
               PROVE  \E w \in Held(l) : Watches(w, r)
    BY DEF FirstsHeld
  <2>1. r \in References BY DEF LiveReferences
  <2>2. l \in {large[r][1], large[r][2]} BY <1>4, <2>1 DEF First
  <2>3. l \in Lit
    <3>1. ToSet(large[r]) \subseteq Lit BY <1>4, <2>1 DEF ToSet
    <3> QED BY <1>5, <2>1, <2>2, <3>1
  <2> PICK w : w = LargeWatch(IF l = large[r][1] THEN large[r][2] ELSE large[r][1], r) OBVIOUS
  <2>4. w \in LargeSide(l, large) BY <1>3, <2>1, <2>2 DEF LargeSide
  <2>5. Watches(w, r) BY DEF LargeWatch, Watches
  <2> QED BY <1>3, <2>3, <2>4, <2>5
<1>7. BothHeld
  <2> SUFFICES ASSUME NEW l \in Lit, NEW w \in Held(l), w.binary
               PROVE  \E v \in Held(w.blocking) : v.binary /\ v.blocking = l
    BY DEF BothHeld
  <2>1. PICK m \in Lit : {l, m} \in small /\ w.blocking = m
    BY ONLY <1>1, l \in Lit, w \in Held(l), w.binary, SideWatches
  <2> PICK v : v = BinaryWatch(l) OBVIOUS
  <2>2. v.binary /\ v.blocking = l BY DEF BinaryWatch
  <2>3. {m, l} \in small
    <3>1. {m, l} = {l, m} OBVIOUS
    <3> QED BY <2>1, <3>1
  <2>4. v \in BinarySide(m, small) BY <2>3 DEF BinarySide
  <2> QED BY <1>3, <2>1, <2>2, <2>4
<1>8. BlockingInside
  <2> SUFFICES ASSUME NEW l \in Lit, NEW w \in Held(l), ~ w.binary
               PROVE  w.blocking \in ToSet(arena[w.ref].lits)
    BY DEF BlockingInside
  <2>1. PICK r \in References : w.ref = r /\ w.blocking \in {large[r][1], large[r][2]}
    BY ONLY <1>1, l \in Lit, w \in Held(l), ~ w.binary, SideWatches
  <2> QED BY <1>4, <1>5, <2>1
<1>9. Attention
  <2>1. \A l \in Lit : ~ Settled(l) BY <1>2 DEF Settled
  <2> QED BY <2>1 DEF Attention
<1>10. Kept
  <2> SUFFICES ASSUME NEW D \in formula PROVE KeptAs(D)
    BY DEF Kept
  <2>1. D \in SUBSET Lit BY SearchAssumption DEF SearchInit, Clause
  <2>2. CASE D \in small
    <3>1. PICK l, m : D = {l, m} BY <2>1, <2>2, FiniteLiterals, TwoMembers
    <3>2. l \in Lit /\ m \in Lit BY <2>1, <3>1
    <3> PICK w : w = BinaryWatch(m) OBVIOUS
    <3>3. w \in BinarySide(l, small) BY <2>2, <3>1, <3>2 DEF BinarySide
    <3>4. w.binary /\ w.blocking = m BY DEF BinaryWatch
    <3>5. w \in Held(l) BY <1>3, <3>2, <3>3
    <3>6. {l, w.blocking} \subseteq D \cup AtRoot BY <3>1, <3>4
    <3> QED BY <3>2, <3>4, <3>5, <3>6 DEF KeptAs
  <2>3. CASE D \notin small
    <3>1. PICK r \in DOMAIN large : ToSet(large[r]) = D BY <1>1, <2>3 DEF Laid
    <3>2. r \in LiveReferences /\ ~ arena[r].redundant /\ ToSet(arena[r].lits) = D
      BY <1>3, <1>4, <3>1 DEF LiveReferences
    <3> QED BY <3>2 DEF KeptAs
  <2> QED BY <2>2, <2>3
<1>11. PlanInv
  <2>1. todo = <<>> /\ visit = NoVisit BY DEF SearchInit, PropagationInit
  <2>2. \A i \in DOMAIN todo : FALSE BY <2>1
  <2>3. ~ Analysis BY <2>2 DEF Analysis
  <2>4. visit.lit = 0 BY <2>1 DEF NoVisit
  <2> QED BY <2>2, <2>3, <2>4 DEF PlanInv, VisitPlaced, ConflictOnTop, ForcesTop, ForcesPaired
<1> QED BY <1>6, <1>7, <1>8, <1>9, <1>10, <1>11 DEF WatchedInv

-----------------------------------------------------------------------------
\* The lines of the proof.  None but the last of a refutation is empty.
FullLine(x) == x \in LineType /\ x.clause # {}
FreshLines == lines' \in Seq(LineType) /\ \A i \in DOMAIN lines' : lines'[i].clause # {}

LEMMA FullLines ==
    ASSUME NEW D \in SUBSET Lit, D # {}
    PROVE  FullLine(Added(D)) /\ FullLine(Deleted(D))
BY DEF FullLine, LineType, Added, Deleted

LEMMA NoLines == ASSUME lines = <<>>, lines' = lines PROVE FreshLines
BY DEF FreshLines

LEMMA OneLine ==
    ASSUME lines = <<>>, NEW x, FullLine(x), lines' = Append(lines, x)
    PROVE  FreshLines
<1>1. lines' = <<x>> OBVIOUS
<1>2. x \in LineType /\ x.clause # {} BY DEF FullLine
<1>3. <<x>> \in Seq(LineType) /\ DOMAIN <<x>> = {1} /\ <<x>>[1] = x BY <1>2
<1>4. lines' \in Seq(LineType) BY <1>1, <1>3
<1>5. \A i \in DOMAIN lines' : lines'[i] = x BY <1>1, <1>3
<1> QED BY <1>2, <1>4, <1>5 DEF FreshLines

LEMMA AssignLines ==
    ASSUME lines = <<>>, NEW lit \in Lit, NEW lvl, NEW why, AssignReason(lit, lvl, why)
    PROVE  FreshLines
<1>1. lines' = Append(lines, Added({lit})) \/ lines' = lines BY DEF AssignReason
<1>2. FullLine(Added({lit})) BY FullLines
<1> QED BY <1>1, <1>2, OneLine, NoLines

LEMMA PropagateLines ==
    ASSUME SearchInv, lines = <<>>, Propagate
    PROVE  FreshLines
<1>1. CASE VisitBinary
  <2>1. Visiting BY <1>1 DEF VisitBinary
  <2>2. Watch.blocking \in Lit
    <3>1. Watch \in WatchType BY <2>1, WatchFacts
    <3> QED BY <3>1 DEF WatchType
  <2>3. \/ lines' = lines
        \/ AssignReason(Watch.blocking, LevelOf(visit.lit),
               BinaryReason(Jumped(-visit.lit, JumpReasons /\ BigBig)))
    BY <1>1 DEF VisitBinary
  <2> QED BY <2>2, <2>3, NoLines, AssignLines
<1>2. CASE VisitForce
  <2>1. Visiting /\ ~ Watch.binary /\ AssignReference(Other, Watch.ref)
    BY <1>2 DEF VisitForce, LiveVisit, LargeVisit
  <2>2. Other \in Lit BY <2>1, LargeFacts
  <2> QED BY <2>1, <2>2, AssignLines DEF AssignReference
<1>3. CASE ~ VisitBinary /\ ~ VisitForce
  <2>1. lines' = lines
    BY <1>3 DEF Propagate, PropagateStep, VisitStart, VisitBlocked, VisitGarbage, VisitSatisfied,
                VisitReplace, VisitConflict, VisitEnd
  <2> QED BY <2>1, NoLines
<1> QED BY <1>1, <1>2, <1>3

LEMMA HeadStep ==
    ASSUME SearchInv, todo # <<>>
    PROVE  /\ Head(todo) \in StepType
           /\ Head(todo).op \in {"unit", "newBinary", "forceBinary", "forceLarge"}
                => Head(todo).lit \in Lit
           /\ Head(todo).op = "newBinary" => Head(todo).other \in Lit
<1>1. Head(todo) \in StepType BY DEF SearchInv, TodoSound
<1> PICK t \in StepType : t = Head(todo) BY <1>1
<1>2. t.op \in {"unit", "newBinary", "forceBinary", "forceLarge"} => t.lit \in Lit
  BY DEF StepType
<1>3. t.op = "newBinary" => t.other \in Lit BY DEF StepType
<1> QED BY <1>1, <1>2, <1>3

LEMMA ForceLines ==
    ASSUME SearchInv, lines = <<>>, DoLearnedUnit \/ DoForce \/ DoWatchBinary
    PROVE  FreshLines
<1>1. CASE DoLearnedUnit
  <2>1. todo # <<>> /\ Head(todo).op = "unit" /\ AssignReason(Head(todo).lit, 0, UnitReason)
    BY <1>1 DEF DoLearnedUnit, Doing
  <2> QED BY <2>1, HeadStep, AssignLines
<1>2. CASE DoForce
  <2>1. /\ todo # <<>> /\ Head(todo).op \in {"forceBinary", "forceLarge"}
        /\ \E lvl, why : AssignReason(Head(todo).lit, lvl, why)
    BY <1>2 DEF DoForce, Doing, AssignBinary, AssignReference
  <2> QED BY <2>1, HeadStep, AssignLines
<1>3. CASE DoWatchBinary
  <2>1. /\ todo # <<>> /\ Head(todo).op = "newBinary"
        /\ lines' = Append(lines, Added(ToSet(<<Head(todo).lit, Head(todo).other>>)))
    BY <1>3 DEF DoWatchBinary, Doing
  <2> PICK a, b : a = Head(todo).lit /\ b = Head(todo).other OBVIOUS
  <2>2. a \in Lit /\ b \in Lit
    <3>1. Head(todo).lit \in Lit /\ Head(todo).other \in Lit BY <2>1, HeadStep
    <3>2. a = Head(todo).lit /\ b = Head(todo).other OBVIOUS
    <3> QED BY ONLY <3>1, <3>2
  <2>3. ToSet(<<a, b>>) = {a, b}
    <3> PICK s : s = <<a, b>> OBVIOUS
    <3>1. DOMAIN s = 1 .. 2 /\ s[1] = a /\ s[2] = b OBVIOUS
    <3>2. 1 .. 2 = {1, 2} OBVIOUS
    <3>3. ToSet(s) = {a, b} BY <3>1, <3>2 DEF ToSet
    <3> QED BY <3>3
  <2>4. FullLine(Added({a, b})) BY <2>2, FullLines
  <2> QED BY <2>1, <2>3, <2>4, OneLine
<1> QED BY <1>1, <1>2, <1>3

\* The clauses of the arena are not empty.
LEMMA ArenaFull ==
    ASSUME SearchInv, NEW r \in References
    PROVE  ToSet(arena[r].lits) \in SUBSET Lit /\ ToSet(arena[r].lits) # {}
<1> PICK s : s = arena[r].lits OBVIOUS
<1>1. s \in Seq(Lit) /\ Len(s) > 2 BY DEF SearchInv, ArenaSound
<1>2. s[1] \in ToSet(s) /\ ToSet(s) \in SUBSET Lit
  <2>1. 1 \in DOMAIN s BY ONLY <1>1
  <2> QED BY ONLY <1>1, <2>1 DEF ToSet
<1>3. ToSet(s) \in SUBSET Lit /\ ToSet(s) # {} BY ONLY <1>2
<1> QED BY <1>3, Zenon

LEMMA LinesJoin ==
    ASSUME lines = <<>>, NEW n \in Nat, NEW f \in [1 .. n -> LineType],
           \A i \in 1 .. n : f[i].clause # {}, lines' = lines \o f
    PROVE  FreshLines
<1>1. f \in Seq(LineType) /\ Len(f) = n /\ DOMAIN f = 1 .. n BY ONLY f \in [1 .. n -> LineType], n \in Nat
<1>2. <<>> \o f = f BY ONLY <1>1
<1>3. lines' = f BY <1>2
<1> QED BY <1>1, <1>3 DEF FreshLines

LEMMA SubsumeLines ==
    ASSUME SearchInv, lines = <<>>, DoSubsume
    PROVE  FreshLines
<1> PICK hits : hits = Hits(Head(todo).clause) OBVIOUS
<1> PICK order : order = SetToSeq(hits) OBVIOUS
<1>1. lines' = lines \o [i \in DOMAIN order |-> Deleted(ToSet(arena[order[i]].lits))]
  BY DEF DoSubsume
<1>2. hits \subseteq References BY DEF Hits, LiveReferences
<1>3. IsFiniteSet(hits)
  <2>1. References = 1 .. Len(arena) /\ Len(arena) \in Nat
    BY DEF SearchInv, ArenaSound, References
  <2>2. IsFiniteSet(References) BY <2>1, FS_Interval
  <2> QED BY <1>2, <2>2, FS_Subset
<1>4. IsListing(order, hits) BY <1>3, Listings
<1>5. /\ order \in Seq(hits) /\ DOMAIN order = 1 .. Len(order) /\ Len(order) \in Nat
  BY <1>4 DEF IsListing
<1> PICK n \in Nat : n = Len(order) BY <1>5
<1> DEFINE f == [i \in 1 .. n |-> Deleted(ToSet(arena[order[i]].lits))]
<1>6. ASSUME NEW i \in 1 .. n PROVE FullLine(f[i])
  <2>1. order[i] \in References BY <1>2, <1>5
  <2>2. FullLine(Deleted(ToSet(arena[order[i]].lits))) BY <2>1, ArenaFull, FullLines
  <2> QED BY <2>2
<1>7. f \in [1 .. n -> LineType] /\ \A i \in 1 .. n : f[i].clause # {}
  BY <1>6 DEF FullLine
<1>8. lines' = lines \o f BY <1>1, <1>5
<1> HIDE DEF f
<1> QED BY <1>7, <1>8, LinesJoin

LEMMA LearnLines ==
    ASSUME SearchInv, lines = <<>>, ~ undo.active, DeduceAndLearn
    PROVE  FreshLines
<1>1. Doing("deduce") /\ IsAsserting BY DEF DeduceAndLearn
<1>2. PICK D \in Shrunken(resolvent) : Learn(D) BY DEF DeduceAndLearn
<1>3. Learnt(D) BY <1>1, LearntFacts
<1>4. D \in SUBSET Lit /\ D # {} BY <1>3 DEF Learnt
<1>5. lines' = lines \/ lines' = Append(lines, Added(D)) BY <1>2 DEF Learn, LearnInOrder
<1>6. FullLine(Added(D)) BY <1>4, FullLines
<1> QED BY <1>5, <1>6, NoLines, OneLine

\* The literals of a conflict.
LEMMA ConflictFull ==
    ASSUME SearchInv, conflict # NoConflict
    PROVE  ToSet(LitsOf(conflict)) \in SUBSET Lit /\ ToSet(LitsOf(conflict)) # {}
<1> PICK s : s = LitsOf(conflict) OBVIOUS
<1>1. \/ conflict.ref \in References
      \/ conflict.ref = 0 /\ \E a, b \in Lit : a # b /\ conflict.lits = <<a, b>>
  BY DEF SearchInv, ConflictSound
<1>2. CASE conflict.ref \in References
  <2>1. conflict.ref # 0 BY <1>2 DEF SearchInv, ArenaSound, References
  <2>2. s = arena[conflict.ref].lits BY <2>1 DEF LitsOf
  <2> QED BY <1>2, <2>2, ArenaFull
<1>3. CASE conflict.ref = 0 /\ \E a, b \in Lit : a # b /\ conflict.lits = <<a, b>>
  <2> PICK a, b \in Lit : conflict.lits = <<a, b>> BY <1>3
  <2>1. s = <<a, b>> BY <1>3 DEF LitsOf
  <2>2. DOMAIN s = 1 .. 2 /\ s[1] = a /\ s[2] = b BY <2>1
  <2>3. 1 .. 2 = {1, 2} OBVIOUS
  <2>4. ToSet(s) = {a, b} BY <2>2, <2>3 DEF ToSet
  <2> QED BY <2>4
<1> QED BY <1>1, <1>2, <1>3

\* The lines of a strengthening.
StrengthLines(x, y, z) ==
    lines' = lines \o <<x, y>> \o <<z>> \/ lines' = lines \o <<x, y>> \o <<>>

LEMMA JoinedLists ==
    ASSUME NEW S, NEW p \in Seq(S), NEW q \in Seq(S), NEW s, s = p \o q,
           NEW m \in Nat, m = Len(p), NEW n \in Nat, n = Len(q)
    PROVE  /\ s \in Seq(S) /\ DOMAIN s = 1 .. m + n
           /\ \A i \in 1 .. m + n : s[i] = IF i <= m THEN p[i] ELSE q[i - m]
OBVIOUS

LEMMA JoinedLines ==
    ASSUME NEW p \in Seq(LineType), NEW q \in Seq(LineType), Len(p) = 2, Len(q) = 1,
           NEW s, s = p \o q
    PROVE  /\ s \in Seq(LineType) /\ DOMAIN s = 1 .. 3
           /\ \A i \in 1 .. 3 : s[i] = IF i <= 2 THEN p[i] ELSE q[i - 2]
<1> PICK m, n \in Nat : m = Len(p) /\ n = Len(q) OBVIOUS
<1> PICK L : L = LineType OBVIOUS
<1>1. /\ s \in Seq(L) /\ DOMAIN s = 1 .. m + n
      /\ \A i \in 1 .. m + n : s[i] = IF i <= m THEN p[i] ELSE q[i - m]
  <2>1. p \in Seq(L) /\ q \in Seq(L) OBVIOUS
  <2> QED BY ONLY <2>1, s = p \o q, m = Len(p) /\ n = Len(q), m \in Nat, n \in Nat, JoinedLists
<1>2. m = 2 /\ n = 1 OBVIOUS
<1>3. m + n = 3 BY <1>2
<1> QED BY ONLY <1>1, <1>2, <1>3, L = LineType

LEMMA ThreeLines ==
    ASSUME lines = <<>>, NEW x, FullLine(x), NEW y, FullLine(y), NEW z, FullLine(z),
           StrengthLines(x, y, z)
    PROVE  FreshLines
<1>1. /\ x \in LineType /\ x.clause # {} /\ y \in LineType /\ y.clause # {}
      /\ z \in LineType /\ z.clause # {}
  BY DEF FullLine
<1> PICK e : e = <<>> OBVIOUS
<1>2. CASE lines' = lines \o <<x, y>> \o <<z>>
  <2> PICK p : p = <<x, y>> OBVIOUS
  <2> PICK q : q = <<z>> OBVIOUS
  <2> PICK s : s = lines' OBVIOUS
  <2>1. /\ p \in Seq(LineType) /\ Len(p) = 2 /\ p[1] = x /\ p[2] = y
        /\ q \in Seq(LineType) /\ Len(q) = 1 /\ q[1] = z
    BY <1>1
  <2>2. s = p \o q
    <3>1. <<>> \o p = p BY ONLY <2>1
    <3>2. s = (<<>> \o p) \o q BY <1>2
    <3> QED BY ONLY <3>1, <3>2
  <2>9. /\ s \in Seq(LineType) /\ DOMAIN s = 1 .. 3
        /\ \A i \in 1 .. 3 : s[i] = IF i <= 2 THEN p[i] ELSE q[i - 2]
    BY ONLY <2>1, <2>2, JoinedLines
  <2>3. s \in Seq(LineType) /\ DOMAIN s = 1 .. 3 BY ONLY <2>9
  <2>4. s[1] = x /\ s[2] = y /\ s[3] = z BY ONLY <2>1, <2>9
  <2>5. \A i \in DOMAIN s : s[i].clause # {}
    <3>1. 1 .. 3 = {1, 2, 3} OBVIOUS
    <3> QED BY ONLY <1>1, <2>3, <2>4, <3>1
  <2> QED BY <2>3, <2>5 DEF FreshLines
<1>3. CASE lines' = lines \o <<x, y>> \o <<>>
  <2> PICK s : s = lines' OBVIOUS
  <2>1. s = <<x, y>> BY <1>3
  <2>2. s \in Seq(LineType) /\ DOMAIN s = 1 .. 2 /\ s[1] = x /\ s[2] = y
    BY ONLY <1>1, <2>1
  <2>3. \A i \in DOMAIN s : s[i].clause # {}
    <3>1. 1 .. 2 = {1, 2} OBVIOUS
    <3> QED BY ONLY <1>1, <2>2, <3>1
  <2> QED BY <2>2, <2>3 DEF FreshLines
<1> QED BY <1>2, <1>3 DEF StrengthLines

LEMMA StrengthenLines ==
    ASSUME SearchInv, lines = <<>>, ~ undo.active, DeduceAndStrengthen
    PROVE  FreshLines
<1> PICK lit : lit = -Pivot OBVIOUS
<1> PICK ref : ref = reason[Idx(lit)].ref OBVIOUS
<1> PICK B : B = Antecedent(lit) OBVIOUS
<1> PICK small \in BOOLEAN : small = (Cardinality(B) = 2) OBVIOUS
<1>1. /\ Doing("deduce") /\ ~ IsAsserting /\ Strengthens
      /\ \/ small /\ Strengthen(lit, ref, small, Ordered(B))
         \/ ~ small /\ \E lits \in LargeStrengthened(arena[ref], lit) :
                            Strengthen(lit, ref, small, lits)
  BY DEF DeduceAndStrengthen
<1>2. ReasonPlan(lit, ref, B) BY <1>1, StrengthenFacts
<1>3. /\ ref \in References /\ Cardinality(B) \in Nat /\ Cardinality(B) > 1
      /\ B \in SUBSET Lit /\ IsFiniteSet(B) /\ conflict # NoConflict
  BY <1>2 DEF ReasonPlan
<1>4. PICK lits : /\ Strengthen(lit, ref, small, lits)
                  /\ ToSet(lits) \in SUBSET Lit /\ ToSet(lits) # {}
  <2>1. CASE small
    <3> PICK lits : lits = Ordered(B) OBVIOUS
    <3>1. Strengthen(lit, ref, small, lits) BY <1>1, <2>1
    <3>2. IsListing(lits, B) BY <1>3, Listings DEF Ordered
    <3>3. ToSet(lits) = B BY <3>2 DEF IsListing
    <3>4. B # {} BY <1>3, FS_EmptySet
    <3> QED BY <1>3, <3>1, <3>3, <3>4
  <2>2. CASE ~ small
    <3>1. PICK lits \in LargeStrengthened(arena[ref], lit) : Strengthen(lit, ref, small, lits)
      BY <1>1, <2>2
    <3>2. Cardinality(B) > 2
      <4>1. Cardinality(B) # 2 BY <2>2, Zenon
      <4> QED BY <1>3, <4>1
    <3>3. ShorterClause(lit, ref, B, lits) BY <1>2, <3>2, ShorterFacts
    <3>4. ToSet(lits) \in SUBSET Lit /\ ToSet(lits) # {}
      <4>1. lits \in Seq(Lit) /\ B \subseteq ToSet(lits) BY <3>3 DEF ShorterClause, Shorter
      <4>2. ToSet(lits) \in SUBSET Lit BY <4>1 DEF ToSet
      <4>3. B # {} BY <1>3, FS_EmptySet
      <4> QED BY <4>1, <4>2, <4>3
    <3> QED BY <3>1, <3>4
  <2> QED BY <2>1, <2>2
<1> PICK x : x = Added(ToSet(lits)) OBVIOUS
<1> PICK y : y = Deleted(ToSet(arena[ref].lits)) OBVIOUS
<1> PICK z : z = Deleted(ToSet(LitsOf(conflict))) OBVIOUS
<1>5. FullLine(x) BY <1>4, FullLines
<1>6. FullLine(y) BY <1>3, ArenaFull, FullLines
<1>7. FullLine(z) BY <1>3, ConflictFull, FullLines
<1>8. StrengthLines(x, y, z) BY <1>4 DEF Strengthen, StrengthLines
<1> QED BY <1>5, <1>6, <1>7, <1>8, ThreeLines

-----------------------------------------------------------------------------
\* A step of the solver leaves the checker alone.  Its lines are full, except
\* that a refutation adds the empty clause.
SolverLines ==
    /\ db' = db
    /\ \/ FreshLines /\ result' # 20
       \/ lines' = <<Added({})>> /\ result' = 20

LEMMA HandlerLines ==
    ASSUME SearchInv, lines = <<>>, result = Running, ~ undo.active, Handler
    PROVE  SolverLines
<1>1. db' = db /\ result' = result
  BY DEF Handler, DoBacktrack, DoLearnedUnit, DoForce, DoWatchBinary, DoSubsume, FailedStep,
         FailedDone, DeduceStep, DeduceAndLearn, DeduceAndStrengthen, loopVars
<1>3. result' # 20 BY <1>1 DEF Running
<1>2. FreshLines
  <2>1. CASE DoBacktrack \/ FailedStep \/ FailedDone \/ DeduceStep
    <3>1. lines' = lines
      BY <2>1 DEF DoBacktrack, FailedStep, FailedDone, DeduceStep
    <3> QED BY <3>1, NoLines
  <2>2. CASE DoLearnedUnit \/ DoForce \/ DoWatchBinary BY <2>2, ForceLines
  <2>3. CASE DoSubsume BY <2>3, SubsumeLines
  <2>4. CASE DeduceAndLearn BY <2>4, LearnLines
  <2>5. CASE DeduceAndStrengthen BY <2>5, StrengthenLines
  <2> QED BY <2>1, <2>2, <2>3, <2>4, <2>5 DEF Handler
<1> QED BY <1>1, <1>2, <1>3 DEF SolverLines

LEMMA LoopLines ==
    ASSUME SearchInv, lines = <<>>, result = Running, SearchLoop
    PROVE  SolverLines
<1>1. db' = db
  BY DEF SearchLoop, Propagate, FlushTrail, AnalyzeRootConflict, AnalyzeConflict, Satisfiable,
         Terminate, Restart, SearchDecide, loopVars
<1>2. CASE Propagate
  <2>1. FreshLines BY <1>2, PropagateLines
  <2>2. result' # 20 BY <1>2 DEF Propagate, loopVars, Running
  <2> QED BY <1>1, <2>1, <2>2 DEF SolverLines
<1>3. CASE AnalyzeRootConflict
  <2>1. lines' = Append(lines, Added({})) /\ result' = 20 BY <1>3 DEF AnalyzeRootConflict
  <2>2. lines' = <<Added({})>> BY <2>1
  <2> QED BY <1>1, <2>1, <2>2 DEF SolverLines
<1>4. CASE FlushTrail \/ AnalyzeConflict \/ Satisfiable \/ Terminate \/ Restart \/ SearchDecide
  <2>1. lines' = lines
    BY <1>4 DEF FlushTrail, AnalyzeConflict, Satisfiable, Terminate, Restart, SearchDecide
  <2>2. result' # 20
    BY <1>4 DEF FlushTrail, AnalyzeConflict, Satisfiable, Terminate, Restart, SearchDecide,
                loopVars, Running
  <2> QED BY <1>1, <2>1, <2>2, NoLines DEF SolverLines
<1> QED BY <1>2, <1>3, <1>4 DEF SearchLoop

LEMMA BagWith ==
    ASSUME NEW b, NEW D
    PROVE  /\ DOMAIN (b (+) SetToBag({D})) = DOMAIN b \cup {D}
           /\ D \notin DOMAIN b => (b (+) SetToBag({D}))[D] = 1
<1> DEFINE a == b (+) SetToBag({D})
<1>1. SetToBag({D}) = [e \in {D} |-> 1] BY DEF SetToBag
<1>2. a = [e \in DOMAIN b \cup {D} |->
             (IF e \in DOMAIN b THEN b[e] ELSE 0) + (IF e \in {D} THEN 1 ELSE 0)]
  BY <1>1, SMT DEF (+)
<1> HIDE DEF a
<1>3. DOMAIN a = DOMAIN b \cup {D} BY <1>2
<1>4. D \notin DOMAIN b => a[D] = 1 BY <1>2
<1> QED BY <1>3, <1>4 DEF a

LEMMA BagWithout ==
    ASSUME NEW b, NEW D
    PROVE  DOMAIN (b (-) SetToBag({D})) \subseteq DOMAIN b
<1> DEFINE a == b (-) SetToBag({D})
           left == [e \in DOMAIN b |-> IF e \in {D} THEN b[e] - 1 ELSE b[e]]
           kept == {d \in DOMAIN left : left[d] > 0}
<1>1. SetToBag({D}) = [e \in {D} |-> 1] BY DEF SetToBag
<1>2. a = [e \in kept |-> left[e]] BY <1>1, SMT DEF (-)
<1>3. DOMAIN left = DOMAIN b OBVIOUS
<1> HIDE DEF left, a
<1>4. kept \subseteq DOMAIN b BY <1>3
<1> HIDE DEF kept
<1>5. DOMAIN a = kept BY <1>2
<1> QED BY <1>4, <1>5 DEF a

\* The checker reads a line.
LEMMA CheckLast == EmptyLast /\ CheckLine => EmptyLast'
<1> SUFFICES ASSUME EmptyLast, CheckLine PROVE EmptyLast'
  OBVIOUS
<1> PICK s : s = lines OBVIOUS
<1> PICK x : x = Head(lines) OBVIOUS
<1> PICK D : D = x.clause OBVIOUS
<1>1. /\ s \in Seq(LineType) /\ s # <<>> /\ x = s[1] /\ 1 \in DOMAIN s
  BY DEF EmptyLast, CheckLine
<1>2. /\ lines' = Tail(s) /\ result' = result
      /\ \/ x.add /\ db' = db (+) SetToBag({D})
         \/ ~ x.add /\ (db' = db \/ db' = db (-) SetToBag({D}))
  BY DEF CheckLine, loopVars
<1>3. /\ lines' \in Seq(LineType)
      /\ \A i \in DOMAIN lines' : i + 1 \in DOMAIN s /\ lines'[i] = s[i + 1]
  BY <1>1, <1>2
<1>4. CASE result # 20
  <2>1. {} \notin DOMAIN db /\ \A i \in DOMAIN s : s[i].clause # {} BY <1>4 DEF EmptyLast
  <2>2. D # {} BY <1>1, <2>1
  <2>3. DOMAIN (db (+) SetToBag({D})) = DOMAIN db \cup {D} BY BagWith
  <2>4. DOMAIN (db (-) SetToBag({D})) \subseteq DOMAIN db BY BagWithout
  <2>5. {} \notin DOMAIN db' BY <1>2, <2>1, <2>2, <2>3, <2>4
  <2>6. \A i \in DOMAIN lines' : lines'[i].clause # {} BY <1>3, <2>1
  <2>7. result' # 20 BY <1>2, <1>4
  <2> QED BY <1>3, <2>5, <2>6, <2>7 DEF EmptyLast
<1>5. CASE result = 20
  <2>1. s = <<Added({})>> /\ {} \notin DOMAIN db BY <1>1, <1>5 DEF EmptyLast
  <2>2. x = Added({}) BY <1>1, <2>1
  <2>3. D = {} /\ x.add BY <2>2 DEF Added
  <2>4. lines' = <<>> BY <1>2, <2>1
  <2>5. db' = db (+) SetToBag({{}}) BY <1>2, <2>3
  <2>6. /\ DOMAIN (db (+) SetToBag({{}})) = DOMAIN db \cup {{}}
        /\ (db (+) SetToBag({{}}))[{}] = 1
    BY <2>1, BagWith
  <2>7. {} \in DOMAIN db' /\ db'[{}] = 1 BY <2>5, <2>6
  <2>8. result' = 20 BY <1>2, <1>5
  <2> QED BY <1>3, <2>4, <2>7, <2>8 DEF EmptyLast
<1> QED BY <1>4, <1>5

LEMMA SolverLast == EmptyLast /\ lines = <<>> /\ result = Running /\ SolverLines => EmptyLast'
<1> SUFFICES ASSUME EmptyLast, lines = <<>>, result = Running, SolverLines PROVE EmptyLast'
  OBVIOUS
<1>1. {} \notin DOMAIN db BY DEF EmptyLast, Running
<1>2. db' = db BY DEF SolverLines
<1>3. CASE FreshLines BY <1>1, <1>2, <1>3 DEF FreshLines, EmptyLast, SolverLines
<1>4. CASE lines' = <<Added({})>> /\ result' = 20
  <2>1. Added({}) \in LineType BY DEF Added, LineType
  <2>2. <<Added({})>> \in Seq(LineType) BY <2>1
  <2> QED BY <1>1, <1>2, <1>4, <2>2 DEF EmptyLast
<1> QED BY <1>3, <1>4 DEF SolverLines

-----------------------------------------------------------------------------
\* Answer 10.  No variable is unassigned, so that every clause has a true
\* literal, and what stands for a clause of the formula gives it one.
LEMMA AllAssigned ==
    ASSUME SearchInv, unassigned = 0, NEW l \in Lit
    PROVE  values[l] # 0
<1> SUFFICES ASSUME values[l] = 0 PROVE FALSE
  OBVIOUS
<1> PICK Z : Z = {v \in Var : values[v] = 0} OBVIOUS
<1>1. Cardinality(Z) = 0 BY DEF SearchInv, TrailInv, UnassignedCounts
<1>2. Var \subseteq Lit /\ Idx(l) \in Var /\ (Idx(l) = l \/ Idx(l) = -l)
  BY NVarsAssumption DEF Var, Lit, Idx
<1>3. values[-l] = -values[l] BY Values DEF SearchInv
<1>4. values[Idx(l)] = 0 BY <1>2, <1>3
<1>5. Z \in SUBSET Lit BY <1>2
<1>6. IsFiniteSet(Z) BY <1>5, FiniteLiterals
<1>7. Z = {} BY <1>1, <1>6, FS_EmptySet
<1> QED BY <1>2, <1>4, <1>7

LEMMA SatisfiableAnswers ==
    ASSUME SearchInv, WatchedInv, Satisfiable
    PROVE  Satisfied
<1>1. todo = <<>> /\ ~ undo.active /\ conflict = NoConflict /\ Propagated /\ unassigned = 0
  BY DEF Satisfiable, Ready, Propagating, Flushed
<1>2. Quiet BY <1>1 DEF Quiet
<1>3. visit = NoVisit BY <1>1 DEF Propagated
<1>4. ASSUME NEW E \in Database, E \subseteq Lit PROVE \E l \in E : values[l] = 1
  <2>1. \/ \E l \in E : values[l] = 1
        \/ Cardinality({l \in E : values[l] = 0}) > 1
    BY <1>1, <1>2, CompleteFits DEF PropagationComplete
  <2>2. {l \in E : values[l] = 0} = {} BY <1>1, <1>4, AllAssigned
  <2>3. Cardinality({l \in E : values[l] = 0}) = 0 BY <2>2, FS_EmptySet
  <2> QED BY <2>1, <2>3
<1>5. ASSUME NEW D, NEW E \in Database, E \subseteq Lit, E \subseteq D \cup AtRoot
      PROVE  \E l \in D : values[l] = 1
  <2> PICK l \in E : values[l] = 1 BY <1>4, <1>5
  <2>1. l \notin AtRoot BY DEF AtRoot
  <2> QED BY <1>5, <2>1
<1> SUFFICES ASSUME NEW D \in formula PROVE \E l \in D : values[l] = 1
  BY DEF Satisfied
<1>6. KeptAs(D) BY DEF WatchedInv, Kept
<1>7. CASE \E l \in Lit : \E w \in Held(l) : w.binary /\ {l, w.blocking} \subseteq D \cup AtRoot
  <2> PICK l \in Lit : \E w \in Held(l) : w.binary /\ {l, w.blocking} \subseteq D \cup AtRoot
    BY <1>7
  <2>1. PICK w \in Held(l) : w.binary /\ {l, w.blocking} \subseteq D \cup AtRoot OBVIOUS
  <2>2. w.blocking \in Lit BY <2>1, HeldSound
  <2>3. w \in ToSet(watches[l])
    <3>1. RestOf(visit, l) = <<>> /\ visit.delayed[l] = <<>>
      BY <1>3 DEF RestOf, NoVisit, NoDelayed
    <3> QED BY <3>1, EmptySet DEF Held, Seen
  <2>4. {l, w.blocking} \in Database BY <2>1, <2>3 DEF Database, Binaries, BinaryWatches
  <2>5. {l, w.blocking} \subseteq Lit BY <2>2
  <2> QED BY <1>5, <2>1, <2>4, <2>5
<1>8. CASE \E r \in LiveReferences : ~ arena[r].redundant /\ ToSet(arena[r].lits) \subseteq D \cup AtRoot
  <2> PICK r \in LiveReferences : ToSet(arena[r].lits) \subseteq D \cup AtRoot BY <1>8
  <2>1. r \in References BY DEF LiveReferences
  <2>2. ToSet(arena[r].lits) \subseteq Lit BY <2>1, ArenaFull
  <2>3. ToSet(arena[r].lits) \in Database BY DEF Database
  <2> QED BY <1>5, <2>2, <2>3
<1> QED BY <1>6, <1>7, <1>8 DEF KeptAs

\* An answer ends the search: no step is left but those of the checker.
LEMMA AnswerEnds ==
    ASSUME Finished, lines = <<>>, UndoStep \/ (~ undo.active /\ (Handler \/ SearchLoop))
    PROVE  result = Running
<1> SUFFICES ASSUME result # Running PROVE FALSE
  OBVIOUS
<1>1. todo = <<>> /\ ~ undo.active BY DEF Finished
<1>2. CASE UndoStep
  BY <1>1, <1>2 DEF UndoStep, BacktrackStep, BacktrackKeep, BacktrackUnassign, BacktrackDone
<1>3. CASE Handler
  BY <1>1, <1>3 DEF Handler, DoBacktrack, DoLearnedUnit, DoForce, DoWatchBinary, DoSubsume,
                    FailedStep, FailedDone, DeduceStep, DeduceAndLearn, DeduceAndStrengthen, Doing
<1>4. CASE SearchLoop
  BY <1>4 DEF SearchLoop, Propagate, FlushTrail, AnalyzeRootConflict, AnalyzeConflict,
              Satisfiable, Terminate, Restart, SearchDecide, Ready, Propagating, Analyzing
<1> QED BY <1>2, <1>3, <1>4

LEMMA RunningOn == ASSUME result' = result, result = Running PROVE Finished'
BY DEF Finished, Running

LEMMA SameAnswer ==
    ASSUME Finished, UNCHANGED <<result, todo, undo, values, formula>>
    PROVE  Finished'
BY DEF Finished, Satisfied

LEMMA AnswerStep ==
    ASSUME SearchInv, WatchedInv, ~ undo.active, result = Running, Handler \/ SearchLoop
    PROVE  Finished'
<1>1. CASE AnalyzeRootConflict
  <2>1. result' = 20 /\ todo' = todo /\ todo = <<>> /\ undo' = undo
    BY <1>1 DEF AnalyzeRootConflict, Analyzing, trailVars
  <2> QED BY <2>1 DEF Finished
<1>2. CASE Terminate
  <2>1. result' = 0 /\ todo' = todo /\ todo = <<>> /\ undo' = undo
    BY <1>2 DEF Terminate, Ready, trailVars
  <2> QED BY <2>1 DEF Finished
<1>3. CASE Satisfiable
  <2>1. /\ result' = 10 /\ todo' = todo /\ todo = <<>> /\ undo' = undo
        /\ UNCHANGED <<values, formula>>
    BY <1>3 DEF Satisfiable, Ready, trailVars
  <2>2. Satisfied BY <1>3, SatisfiableAnswers
  <2>3. Satisfied' BY <2>1, <2>2 DEF Satisfied
  <2> QED BY <2>1, <2>3 DEF Finished
<1>4. CASE Handler
  <2>1. result' = result
    BY <1>4 DEF Handler, DoBacktrack, DoLearnedUnit, DoForce, DoWatchBinary, DoSubsume,
                FailedStep, FailedDone, DeduceStep, DeduceAndLearn, DeduceAndStrengthen, loopVars
  <2> QED BY <2>1, RunningOn
<1>5. CASE Propagate \/ FlushTrail \/ AnalyzeConflict \/ Restart \/ SearchDecide
  <2>1. result' = result
    BY <1>5 DEF Propagate, FlushTrail, AnalyzeConflict, Restart, SearchDecide, loopVars
  <2> QED BY <2>1, RunningOn
<1> QED BY <1>1, <1>2, <1>3, <1>4, <1>5 DEF SearchLoop

LEMMA AnswerNext ==
    SearchInv /\ WatchedInv /\ AnswerInv /\ [SearchNext]_searchVars => AnswerInv'
<1> SUFFICES ASSUME SearchInv, WatchedInv, Finished, EmptyLast, [SearchNext]_searchVars
             PROVE  Finished' /\ EmptyLast'
  BY DEF AnswerInv
<1>1. CASE CheckLine
  <2>1. UNCHANGED <<result, todo, undo, values, formula>> BY <1>1 DEF CheckLine, trailVars
  <2> QED BY <1>1, <2>1, SameAnswer, CheckLast
<1>2. CASE lines = <<>> /\ UndoStep
  <2>1. result = Running BY <1>2, AnswerEnds
  <2>2. lines' = lines /\ db' = db /\ result' = result BY <1>2 DEF UndoStep, loopVars
  <2>3. EmptyLast' BY <2>2 DEF EmptyLast
  <2> QED BY <2>1, <2>2, <2>3, RunningOn
<1>3. CASE lines = <<>> /\ ~ undo.active /\ (Handler \/ SearchLoop)
  <2>1. result = Running BY <1>3, AnswerEnds
  <2>2. SolverLines BY <1>3, <2>1, HandlerLines, LoopLines
  <2>3. EmptyLast' BY <1>3, <2>1, <2>2, SolverLast
  <2>4. Finished' BY <1>3, <2>1, AnswerStep
  <2> QED BY <2>3, <2>4
<1>4. CASE UNCHANGED searchVars
  <2>1. UNCHANGED <<result, todo, undo, values, formula>> /\ UNCHANGED <<lines, db>>
    BY <1>4 DEF searchVars, loopVars, trailVars
  <2>2. EmptyLast' BY <2>1 DEF EmptyLast
  <2> QED BY <2>1, <2>2, SameAnswer
<1> QED BY <1>1, <1>2, <1>3, <1>4 DEF SearchNext, Stopped

LEMMA AnswerInit == SearchInit => AnswerInv
<1> SUFFICES ASSUME SearchInit PROVE Finished /\ EmptyLast
  BY DEF AnswerInv
<1>1. result = Running /\ lines = <<>> BY DEF SearchInit, PropagationInit
<1>2. db = SetToBag(formula) /\ formula \in Formulas BY DEF SearchInit
<1>3. DOMAIN db = formula BY <1>2 DEF SetToBag
<1>4. {} \notin formula
  <2> SUFFICES ASSUME {} \in formula PROVE FALSE
    OBVIOUS
  <2>1. Cardinality({}) > 1 BY <1>2, SearchAssumption
  <2> QED BY <2>1, FS_EmptySet
<1>5. lines \in Seq(LineType) BY <1>1
<1> QED BY <1>1, <1>3, <1>4, <1>5 DEF Finished, EmptyLast, Running

-----------------------------------------------------------------------------
\* The invariant of the search: what each clause and each step is about
\* (SearchInv), which clauses are watched and which have been seen to, and
\* what an answer means.
AnswerSearchInv == SearchInv /\ WatchedInv /\ PlanInv /\ AnswerInv

\* It is inductive.
LEMMA AnswerInvariant == SearchSpec => []AnswerSearchInv
<1>1. SearchInit => AnswerSearchInv
  BY SearchInitInv, InitialWatched, AnswerInit DEF AnswerSearchInv
<1>2. AnswerSearchInv /\ [SearchNext]_searchVars => AnswerSearchInv'
  <2> SUFFICES ASSUME AnswerSearchInv, [SearchNext]_searchVars PROVE AnswerSearchInv'
    OBVIOUS
  <2>1. SearchInv /\ WatchedInv /\ PlanInv /\ AnswerInv BY DEF AnswerSearchInv
  <2>2. SearchInv' BY <2>1, SearchNextInv
  <2>3. WatchedInv' /\ PlanInv' BY <2>1, <2>2, NextKept
  <2>4. AnswerInv' BY <2>1, AnswerNext
  <2> QED BY <2>2, <2>3, <2>4 DEF AnswerSearchInv
<1> QED BY <1>1, <1>2, PTL DEF SearchSpec

\* Whenever propagation ends without a conflict, every clause of the solver has
\* a true literal or two that are unassigned: the watches, the blocking
\* literals and the propagation index, which a chronological backtrack sets
\* back, let no clause slip (propsearch.c, backtrack.c).
THEOREM SearchComplete == SearchSpec => []PropagationComplete
<1>1. AnswerSearchInv => PropagationComplete BY CompleteFits DEF AnswerSearchInv
<1> QED BY <1>1, AnswerInvariant, PTL

\* Answer 10 comes with a model of the whole formula, and answer 20 with an
\* unsatisfiable formula and a proof whose last line, and no other, is the
\* empty clause (search.c:kissat_search, analyze.c).
THEOREM SearchAnswers == SearchSpec => []AnswerSound
<1>1. AnswerSearchInv => AnswerSound
  <2> SUFFICES ASSUME AnswerSearchInv PROVE AnswerSound
    OBVIOUS
  <2>1. SearchInv /\ Finished /\ EmptyLast BY DEF AnswerSearchInv, AnswerInv
  <2>2. result = 10 => \A D \in formula : \E l \in D : values[l] = 1
    BY <2>1 DEF Finished, Satisfied
  <2>3. result = 20 => Cert!Unsatisfiable(formula)
    <3>1. result = 20 => Unsatisfiable(formula) BY <2>1 DEF SearchInv, RefutationSound
    <3> QED BY <3>1 DEF Unsatisfiable, Cert!Unsatisfiable, Satisfies, Cert!Satisfies,
                        Assignments, Cert!Assignments, Lit, Cert!Lit, Var, Cert!Var
  <2>4. (result = 20 /\ lines = <<>>) => {} \in DOMAIN db /\ db[{}] = 1
    BY <2>1 DEF EmptyLast
  <2> QED BY <2>2, <2>3, <2>4 DEF AnswerSound
<1> QED BY <1>1, AnswerInvariant, PTL
=============================================================================
