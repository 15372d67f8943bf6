---------------------------- MODULE TrailProofs ----------------------------
(***************************************************************************)
(* The invariants of the trail, for every number of variables, that the    *)
(* trail with its in-place compaction implements the abstract stack; then  *)
(* the inductive invariant of the search, and that every step of it that   *)
(* moves the trail, walks a watch list or takes up an answer preserves it. *)
(***************************************************************************)
EXTENDS Search, FiniteSetTheorems, SequenceTheorems, Recursion, TLAPS

\* Variables are literals; a literal and its negation share the variable.
LEMMA LitFacts ==
    /\ \A l \in Lit : /\ Idx(l) \in Var
                      /\ -l \in Lit
                      /\ -l # l
                      /\ -(-l) = l
                      /\ Idx(-l) = Idx(l)
    /\ \A l, m \in Lit : Idx(l) = Idx(m) => l = m \/ l = -m
    /\ \A v \in Var : v \in Lit /\ Idx(v) = v
BY NVarsAssumption DEF Lit, Var, Idx

LEMMA VarFinite == IsFiniteSet(Var) /\ Cardinality(Var) = NVars
BY NVarsAssumption, FS_Interval DEF Var

-----------------------------------------------------------------------------
(***************************************************************************)
(* Facts about the live slots that several steps use.                      *)
(***************************************************************************)
LEMMA LiveFacts ==
    ASSUME TrailTypeOK, LoopBounds
    PROVE  /\ Live \subseteq 1 .. Len(trail)
           /\ \A i \in 1 .. Len(trail) : trail[i] \in Lit
           /\ \A k \in 1 .. Len(frames) : frames[k].trail \in Nat
           /\ Len(trail) \in Nat /\ Len(frames) \in Nat
           /\ IsFiniteSet(Live)
<1>1. Len(trail) \in Nat /\ Len(frames) \in Nat
  BY DEF TrailTypeOK
<1>2. Live \subseteq 1 .. Len(trail)
  BY <1>1 DEF Live, TrailTypeOK, LoopBounds
<1>3. IsFiniteSet(Live)
  <2>1. IsFiniteSet(1 .. Len(trail))
    BY <1>1, FS_Interval
  <2> QED BY <1>2, <2>1, FS_Subset
<1>4. \A i \in 1 .. Len(trail) : trail[i] \in Lit
  BY DEF TrailTypeOK
<1>5. \A k \in 1 .. Len(frames) : frames[k].trail \in Nat
  <2>1. \A k \in 1 .. Len(frames) : frames[k] \in [decision : Lit, trail : Nat]
    BY ElementOfSeq DEF TrailTypeOK
  <2> QED BY <2>1
<1> QED BY <1>1, <1>2, <1>3, <1>4, <1>5

\* No variable is on the trail twice, and an unassigned one is not there.
LEMMA SlotsDistinct ==
    ASSUME TrailTypeOK, LoopBounds, SlotsTrue
    PROVE  /\ \A i, j \in Live : Idx(trail[i]) = Idx(trail[j]) => i = j
           /\ \A i \in Live, l \in Lit :
                values[l] = 0 => Idx(trail[i]) # Idx(l)
<1>1. Live \subseteq 1 .. Len(trail) /\ \A i \in 1 .. Len(trail) : trail[i] \in Lit
  BY LiveFacts
<1>2. \A i, j \in Live : Idx(trail[i]) = Idx(trail[j]) => i = j
  <2>1. ASSUME NEW i \in Live, NEW j \in Live, Idx(trail[i]) = Idx(trail[j])
        PROVE  i = j
    <3>1. position[Idx(trail[i])] = i - 1 /\ position[Idx(trail[j])] = j - 1
      BY DEF SlotsTrue
    <3>2. i \in Int /\ j \in Int
      BY <1>1
    <3> QED BY <2>1, <3>1, <3>2
  <2> QED BY <2>1
<1>3. ASSUME NEW i \in Live, NEW l \in Lit, values[l] = 0,
             Idx(trail[i]) = Idx(l)
      PROVE  FALSE
  <2>1. trail[i] = l \/ trail[i] = -l
    BY <1>1, <1>3, LitFacts
  <2>2. values[trail[i]] = 1
    BY DEF SlotsTrue
  <2>3. values[-l] = 0
    BY <1>3 DEF SlotsTrue
  <2> QED BY <2>1, <2>2, <2>3, <1>3
<1> QED BY <1>2, <1>3

-----------------------------------------------------------------------------
(***************************************************************************)
(* Assigning a literal (kissat_assign).                                    *)
(***************************************************************************)
LEMMA PushFacts ==
    ASSUME TrailInv, ~ undo.active, undo' = undo,
           NEW lit \in Lit, NEW lvl \in Nat, Push(lit, lvl)
    PROVE  /\ values' \in [Lit -> {-1, 0, 1}]
           /\ level' \in [Var -> Nat]
           /\ position' \in [Var -> Nat]
           /\ trail' \in Seq(Lit) /\ Len(trail') = Len(trail) + 1
           /\ trail'[Len(trail) + 1] = lit
           /\ \A i \in 1 .. Len(trail) :
                /\ trail'[i] = trail[i]
                /\ level'[Idx(trail[i])] = level[Idx(trail[i])]
           /\ level'[Idx(lit)] = lvl
           /\ Live = 1 .. Len(trail) /\ Live' = 1 .. Len(trail) + 1
           /\ unassigned' \in Nat /\ unflushed' \in Nat
           /\ SlotsTrue' /\ AssignedOnTrail'
           /\ UnassignedCounts' /\ UnflushedCounts'
<1> USE DEF TrailInv
<1>1. /\ Live = 1 .. Len(trail) /\ Len(trail) \in Nat
      /\ \A i \in 1 .. Len(trail) : trail[i] \in Lit
  BY LiveFacts DEF Live
<1>2. /\ values' \in [Lit -> {-1, 0, 1}]
      /\ level' \in [Var -> Nat]
      /\ position' \in [Var -> Nat]
  BY <1>1, LitFacts DEF Push, TrailTypeOK
<1>3. /\ trail' \in Seq(Lit) /\ Len(trail') = Len(trail) + 1
      /\ trail'[Len(trail) + 1] = lit
      /\ \A i \in 1 .. Len(trail) : trail'[i] = trail[i]
  BY <1>1 DEF Push, TrailTypeOK
<1>4. Live' = 1 .. Len(trail) + 1
  BY <1>3 DEF Live
<1>5. \A i \in 1 .. Len(trail) : Idx(trail[i]) # Idx(lit)
  BY <1>1, SlotsDistinct DEF Push
<1>6. /\ level'[Idx(lit)] = lvl /\ position'[Idx(lit)] = Len(trail)
      /\ \A v \in Var : v # Idx(lit) =>
           level'[v] = level[v] /\ position'[v] = position[v]
      /\ values'[lit] = 1 /\ values'[-lit] = -1
      /\ \A m \in Lit : m # lit /\ m # -lit => values'[m] = values[m]
  BY LitFacts DEF Push, TrailTypeOK
<1>7. \A i \in 1 .. Len(trail) : Idx(trail[i]) \in Var
  BY <1>1, LitFacts
<1>8. SlotsTrue'
  <2>1. ASSUME NEW l \in Lit PROVE values'[-l] = -values'[l]
    <3>1. CASE l = lit \/ l = -lit
      BY <3>1, <1>6, LitFacts
    <3>2. CASE l # lit /\ l # -lit
      <4>1. -l # lit /\ -l # -lit /\ -l \in Lit
        BY <3>2, LitFacts
      <4> QED BY <4>1, <3>2, <1>6 DEF SlotsTrue
    <3> QED BY <3>1, <3>2
  <2>2. ASSUME NEW i \in 1 .. Len(trail) + 1
        PROVE  values'[trail'[i]] = 1 /\ position'[Idx(trail'[i])] = i - 1
    <3>1. CASE i = Len(trail) + 1
      BY <3>1, <1>1, <1>3, <1>6
    <3>2. CASE i \in 1 .. Len(trail)
      <4>1. trail[i] # lit /\ trail[i] # -lit
        BY <3>2, <1>5, LitFacts
      <4> QED BY <4>1, <3>2, <1>1, <1>3, <1>5, <1>6, <1>7 DEF SlotsTrue
    <3> QED BY <3>1, <3>2, <1>1
  <2> QED BY <2>1, <2>2, <1>4 DEF SlotsTrue
<1>9. AssignedOnTrail'
  <2>1. SUFFICES ASSUME NEW v \in Var, values'[v] # 0, level'[v] > 0
                 PROVE  /\ position'[v] + 1 \in 1 .. Len(trail) + 1
                        /\ Idx(trail'[position'[v] + 1]) = v
    BY <1>4 DEF AssignedOnTrail
  <2>2. CASE v = Idx(lit)
    BY <2>2, <1>1, <1>3, <1>6
  <2>3. CASE v # Idx(lit)
    <3>1. values[v] # 0 /\ level[v] > 0
      BY <2>1, <2>3, <1>6, LitFacts
    <3>2. position[v] + 1 \in 1 .. Len(trail) /\ Idx(trail[position[v] + 1]) = v
      BY <3>1, <1>1 DEF AssignedOnTrail
    <3> QED BY <3>2, <2>3, <1>1, <1>3, <1>6
  <2> QED BY <2>2, <2>3
<1>10. unassigned' \in Nat /\ UnassignedCounts'
  <2> DEFINE U == {v \in Var : values[v] = 0}
  <2>1. IsFiniteSet(U) /\ Cardinality(U) \in Nat
    BY VarFinite, FS_Subset, FS_CardinalityType
  <2>2. Idx(lit) \in U
    BY LitFacts DEF Push, SlotsTrue, Idx
  <2>3. U \ {Idx(lit)} = {v \in Var : values'[v] = 0}
    <3>1. \A v \in Var : v # Idx(lit) => values'[v] = values[v]
      BY <1>6, LitFacts
    <3>2. values'[Idx(lit)] # 0
      BY <1>6, LitFacts DEF Idx
    <3> QED BY <3>1, <3>2
  <2>4. /\ Cardinality(U \ {Idx(lit)}) = Cardinality(U) - 1
        /\ Cardinality(U \ {Idx(lit)}) \in Nat
    BY <2>1, <2>2, FS_RemoveElement, FS_CardinalityType
  <2>5. unassigned' = Cardinality(U) - 1
    BY DEF Push, UnassignedCounts
  <2> QED BY <2>3, <2>4, <2>5 DEF UnassignedCounts
<1>11. unflushed' \in Nat /\ UnflushedCounts'
  <2>1. /\ RootSlots \subseteq 1 .. Len(trail) /\ IsFiniteSet(RootSlots)
        /\ RootSlots = {i \in 1 .. Len(trail) : level[Idx(trail[i])] = 0}
    <3>1. RootSlots = {i \in 1 .. Len(trail) : level[Idx(trail[i])] = 0}
      BY <1>1 DEF RootSlots
    <3>2. RootSlots \in SUBSET (1 .. Len(trail)) /\ IsFiniteSet(1 .. Len(trail))
      BY <3>1, <1>1, FS_Interval
    <3>3. IsFiniteSet(RootSlots)
      BY <3>2, FS_Subset
    <3> QED BY <3>1, <3>2, <3>3
  <2>2. \A i \in 1 .. Len(trail) :
          level'[Idx(trail'[i])] = level[Idx(trail[i])]
    BY <1>3, <1>5, <1>6, <1>7
  <2>3. level'[Idx(trail'[Len(trail) + 1])] = lvl
    BY <1>3, <1>6
  <2>4. RootSlots' = {i \in 1 .. Len(trail) + 1 : level'[Idx(trail'[i])] = 0}
    BY <1>4 DEF RootSlots
  <2>5. RootSlots' = IF lvl = 0 THEN RootSlots \cup {Len(trail) + 1}
                                ELSE RootSlots
    BY <2>1, <2>2, <2>3, <2>4, <1>1
  <2>6. Len(trail) + 1 \notin RootSlots
    BY <2>1, <1>1
  <2>7. Cardinality(RootSlots') = IF lvl = 0 THEN unflushed + 1 ELSE unflushed
    BY <2>1, <2>5, <2>6, FS_AddElement DEF UnflushedCounts
  <2> QED BY <2>7 DEF Push, TrailTypeOK, UnflushedCounts
<1>12. \A i \in 1 .. Len(trail) :
         level'[Idx(trail[i])] = level[Idx(trail[i])]
  BY <1>5, <1>6, <1>7
<1> QED
  BY <1>1, <1>2, <1>3, <1>4, <1>6, <1>8, <1>9, <1>10, <1>11, <1>12

\* The parts about levels and frames when the new literal opens no frame.
LEMMA AssignInv ==
    ASSUME TrailInv, NEW lit \in Lit, NEW lvl \in 0 .. CurrentLevel, Assign(lit, lvl)
    PROVE  TrailInv'
<1> USE DEF TrailInv
<1>1. ~ undo.active /\ undo' = undo /\ frames' = frames /\ propagate' = propagate
  BY DEF Assign
<1>2. lvl \in Nat /\ lvl <= Len(frames) /\ Len(frames) \in Nat
  BY LiveFacts DEF CurrentLevel
<1>3. /\ values' \in [Lit -> {-1, 0, 1}]
      /\ level' \in [Var -> Nat]
      /\ position' \in [Var -> Nat]
      /\ trail' \in Seq(Lit) /\ Len(trail') = Len(trail) + 1
      /\ trail'[Len(trail) + 1] = lit
      /\ \A i \in 1 .. Len(trail) :
           /\ trail'[i] = trail[i]
           /\ level'[Idx(trail[i])] = level[Idx(trail[i])]
      /\ level'[Idx(lit)] = lvl
      /\ Live = 1 .. Len(trail) /\ Live' = 1 .. Len(trail) + 1
      /\ unassigned' \in Nat /\ unflushed' \in Nat
      /\ SlotsTrue' /\ AssignedOnTrail'
      /\ UnassignedCounts' /\ UnflushedCounts'
  BY <1>1, <1>2, PushFacts DEF Assign
<1>4. Len(trail) \in Nat
  BY LiveFacts
<1>5. TrailTypeOK'
  BY <1>1, <1>3, <1>4 DEF TrailTypeOK
<1>6. LoopBounds'
  BY <1>1 DEF LoopBounds
<1>7. FramesDelimitLevels'
  <2>1. SUFFICES ASSUME NEW k \in 1 .. Len(frames)
                 PROVE  LET f == frames[k] IN
                          /\ f.trail < Len(trail')
                          /\ trail'[f.trail + 1] = f.decision
                          /\ level'[Idx(f.decision)] = k
                          /\ \A i \in 1 .. f.trail : level'[Idx(trail'[i])] < k
                          /\ \A j \in 1 .. k - 1 : frames[j].trail < f.trail
    BY <1>1 DEF FramesDelimitLevels
  <2> DEFINE f == frames[k]
  <2>2. /\ f.trail < Len(trail) /\ trail[f.trail + 1] = f.decision
        /\ level[Idx(f.decision)] = k
        /\ \A i \in 1 .. f.trail : level[Idx(trail[i])] < k
        /\ \A j \in 1 .. k - 1 : frames[j].trail < f.trail
    BY <1>1 DEF FramesDelimitLevels
  <2>3. f.trail \in Nat
    BY LiveFacts
  <2>4. f.trail + 1 \in 1 .. Len(trail) /\ 1 .. f.trail \subseteq 1 .. Len(trail)
    BY <1>4, <2>2, <2>3
  <2> HIDE DEF f
  <2>5. f.trail < Len(trail')
    BY <1>3, <1>4, <2>2, <2>3
  <2>6. trail'[f.trail + 1] = f.decision /\ level'[Idx(f.decision)] = k
    BY <1>3, <2>2, <2>4
  <2>7. \A i \in 1 .. f.trail : level'[Idx(trail'[i])] < k
    BY <1>3, <2>2, <2>4
  <2> QED BY <2>2, <2>5, <2>6, <2>7 DEF f
<1>8. PropagatedBelowFrames'
  BY <1>1 DEF PropagatedBelowFrames
<1>9. LevelBound'
  <2>1. \A i \in 1 .. Len(trail) : level[Idx(trail[i])] <= Len(frames)
    BY <1>1, <1>3 DEF LevelBound
  <2>2. \A i \in 1 .. Len(trail) + 1 : i \in 1 .. Len(trail) \/ i = Len(trail) + 1
    BY <1>4
  <2>3. \A i \in 1 .. Len(trail) + 1 : level'[Idx(trail'[i])] <= Len(frames)
    BY <1>2, <1>3, <2>1, <2>2
  <2> QED BY <1>1, <1>3, <2>3 DEF LevelBound
<1> QED BY <1>3, <1>5, <1>6, <1>7, <1>8, <1>9

\* A decision opens a frame at the end of a completely propagated trail.
LEMMA DecideInv ==
    ASSUME TrailInv, NEW lit \in Lit, Decide(lit)
    PROVE  TrailInv'
<1> USE DEF TrailInv
<1>1. ~ undo.active /\ undo' = undo /\ propagate' = propagate
  BY DEF Decide
<1>2. Len(frames) \in Nat /\ Len(frames) + 1 \in Nat /\ Len(trail) \in Nat
  BY LiveFacts
<1>3. /\ values' \in [Lit -> {-1, 0, 1}]
      /\ level' \in [Var -> Nat]
      /\ position' \in [Var -> Nat]
      /\ trail' \in Seq(Lit) /\ Len(trail') = Len(trail) + 1
      /\ trail'[Len(trail) + 1] = lit
      /\ \A i \in 1 .. Len(trail) :
           /\ trail'[i] = trail[i]
           /\ level'[Idx(trail[i])] = level[Idx(trail[i])]
      /\ level'[Idx(lit)] = Len(frames) + 1
      /\ Live = 1 .. Len(trail) /\ Live' = 1 .. Len(trail) + 1
      /\ unassigned' \in Nat /\ unflushed' \in Nat
      /\ SlotsTrue' /\ AssignedOnTrail'
      /\ UnassignedCounts' /\ UnflushedCounts'
  BY <1>1, <1>2, PushFacts DEF Decide, CurrentLevel
<1>4. /\ frames' \in Seq([decision : Lit, trail : Nat])
      /\ Len(frames') = Len(frames) + 1
      /\ frames'[Len(frames) + 1] = [decision |-> lit, trail |-> Len(trail)]
      /\ \A k \in 1 .. Len(frames) : frames'[k] = frames[k]
  <2>1. [decision |-> lit, trail |-> Len(trail)] \in [decision : Lit, trail : Nat]
    BY <1>2
  <2> QED BY <2>1 DEF Decide, TrailTypeOK
<1>5. TrailTypeOK'
  <2>1. propagate' \in 0 .. Len(trail')
    BY <1>1, <1>2, <1>3 DEF TrailTypeOK
  <2>2. undo' \in [active : BOOLEAN, to : Nat, from : Nat, p : Nat, q : Nat]
    BY <1>1 DEF TrailTypeOK
  <2> QED BY <1>3, <1>4, <2>1, <2>2 DEF TrailTypeOK
<1>6. LoopBounds'
  BY <1>1 DEF LoopBounds
<1>7. \A i \in 1 .. Len(trail) : level[Idx(trail[i])] <= Len(frames)
  BY <1>1, <1>3 DEF LevelBound
<1>8. FramesDelimitLevels'
  <2>1. SUFFICES ASSUME NEW k \in 1 .. Len(frames) + 1
                 PROVE  LET f == frames'[k] IN
                          /\ f.trail < Len(trail')
                          /\ trail'[f.trail + 1] = f.decision
                          /\ level'[Idx(f.decision)] = k
                          /\ \A i \in 1 .. f.trail : level'[Idx(trail'[i])] < k
                          /\ \A j \in 1 .. k - 1 : frames'[j].trail < f.trail
    BY <1>1, <1>4 DEF FramesDelimitLevels
  <2>2. CASE k \in 1 .. Len(frames)
    <3> DEFINE f == frames[k]
    <3>1. /\ f.trail < Len(trail) /\ trail[f.trail + 1] = f.decision
          /\ level[Idx(f.decision)] = k
          /\ \A i \in 1 .. f.trail : level[Idx(trail[i])] < k
          /\ \A j \in 1 .. k - 1 : frames[j].trail < f.trail
      BY <1>1, <2>2 DEF FramesDelimitLevels
    <3>2. f.trail \in Nat
      BY <2>2, LiveFacts
    <3>3. f.trail + 1 \in 1 .. Len(trail) /\ 1 .. f.trail \subseteq 1 .. Len(trail)
      BY <1>2, <3>1, <3>2
    <3>4. frames'[k] = f
      BY <1>4, <2>2
    <3>5. \A j \in 1 .. k - 1 : frames'[j] = frames[j]
      BY <1>4, <1>2, <2>2
    <3> HIDE DEF f
    <3>6. f.trail < Len(trail')
      BY <1>2, <1>3, <3>1, <3>2
    <3>7. trail'[f.trail + 1] = f.decision /\ level'[Idx(f.decision)] = k
      BY <1>3, <3>1, <3>3
    <3>8. \A i \in 1 .. f.trail : level'[Idx(trail'[i])] < k
      BY <1>3, <3>1, <3>3
    <3> QED BY <3>1, <3>4, <3>5, <3>6, <3>7, <3>8
  <2>3. CASE k = Len(frames) + 1
    <3>1. frames'[k].trail = Len(trail) /\ frames'[k].decision = lit
      BY <1>4, <2>3
    <3>2. \A i \in 1 .. Len(trail) : level'[Idx(trail'[i])] < k
      <4>1. \A i \in 1 .. Len(trail) : Idx(trail[i]) \in Var
        BY LiveFacts, LitFacts
      <4>2. \A i \in 1 .. Len(trail) : level[Idx(trail[i])] \in Nat
        BY <4>1 DEF TrailTypeOK
      <4> QED BY <4>2, <1>2, <1>3, <1>7, <2>3
    <3>3. \A j \in 1 .. k - 1 : frames'[j].trail < Len(trail)
      <4>1. \A j \in 1 .. Len(frames) : frames[j].trail < Len(trail)
        BY <1>1 DEF FramesDelimitLevels
      <4> QED BY <4>1, <1>2, <1>4, <2>3
    <3> QED BY <1>2, <1>3, <2>3, <3>1, <3>2, <3>3
  <2> QED BY <1>2, <2>2, <2>3
<1>9. PropagatedBelowFrames'
  <2>1. propagate = Len(trail)
    BY DEF Decide
  <2>2. ASSUME NEW k \in 1 .. Len(frames) + 1
        PROVE  frames'[k].trail <= propagate
    BY <1>2, <1>4, <2>1, <2>2 DEF PropagatedBelowFrames
  <2> QED BY <1>1, <1>4, <2>2 DEF PropagatedBelowFrames
<1>10. LevelBound'
  <2>1. \A i \in 1 .. Len(trail) + 1 : i \in 1 .. Len(trail) \/ i = Len(trail) + 1
    BY <1>2
  <2>2. \A i \in 1 .. Len(trail) : level[Idx(trail[i])] \in Nat
    BY LiveFacts, LitFacts DEF TrailTypeOK
  <2>3. ASSUME NEW i \in 1 .. Len(trail) + 1
        PROVE  level'[Idx(trail'[i])] <= Len(frames) + 1
    <3>1. CASE i = Len(trail) + 1
      BY <3>1, <1>2, <1>3
    <3>2. CASE i \in 1 .. Len(trail)
      <4>1. level'[Idx(trail'[i])] = level[Idx(trail[i])]
        BY <3>2, <1>3
      <4> QED BY <4>1, <3>2, <1>2, <1>7, <2>2
    <3> QED BY <3>1, <3>2, <2>1
  <2> QED BY <1>1, <1>3, <1>4, <2>3 DEF LevelBound
<1> QED BY <1>3, <1>5, <1>6, <1>8, <1>9, <1>10

LEMMA AdvanceInv == TrailInv /\ Advance => TrailInv'
<1> SUFFICES ASSUME TrailInv, Advance PROVE TrailInv'
  OBVIOUS
<1> USE DEF TrailInv, Advance
<1>1. TrailTypeOK'
  BY LiveFacts DEF TrailTypeOK
<1>2. Live' = Live
  BY DEF Live
<1>3. PropagatedBelowFrames'
  <2>1. \A k \in 1 .. Len(frames) : frames[k].trail \in Nat
    BY LiveFacts
  <2> QED BY <2>1 DEF PropagatedBelowFrames, TrailTypeOK
<1>4. LoopBounds' /\ SlotsTrue' /\ AssignedOnTrail' /\ FramesDelimitLevels'
  BY <1>2 DEF LoopBounds, SlotsTrue, AssignedOnTrail, FramesDelimitLevels
<1>5. LevelBound' /\ UnassignedCounts' /\ UnflushedCounts'
  BY <1>2 DEF LevelBound, UnassignedCounts, UnflushedCounts, RootSlots
<1> QED BY <1>1, <1>3, <1>4, <1>5

-----------------------------------------------------------------------------
(***************************************************************************)
(* Backtracking.                                                           *)
(***************************************************************************)

\* Cutting the frames: the scan starts where frame new + 1 started, and no
\* literal before that point is above the new level.
LEMMA StartInv ==
    ASSUME TrailInv, NEW new \in 0 .. CurrentLevel, BacktrackStart(new)
    PROVE  TrailInv'
<1> USE DEF TrailInv
<1> DEFINE end == frames[new + 1].trail
<1>1. /\ new \in Nat /\ new + 1 \in 1 .. Len(frames)
      /\ Len(frames) \in Nat /\ Len(trail) \in Nat
  BY LiveFacts DEF BacktrackStart, CurrentLevel
<1>2. ~ undo.active
  BY DEF BacktrackStart
<1>3. /\ end \in Nat /\ end < Len(trail)
      /\ \A i \in 1 .. end : level[Idx(trail[i])] < new + 1
      /\ \A j \in 1 .. new : frames[j].trail < end
  BY <1>1, <1>2, LiveFacts DEF FramesDelimitLevels
<1>4. /\ frames' \in Seq([decision : Lit, trail : Nat])
      /\ Len(frames') = new
      /\ \A k \in 1 .. new : frames'[k] = frames[k]
  <2>0. \A i \in 1 .. Len(frames) : frames[i] \in [decision : Lit, trail : Nat]
    BY ElementOfSeq DEF TrailTypeOK
  <2>1. \A i \in 1 .. new : frames[i] \in [decision : Lit, trail : Nat]
    BY <1>1, <2>0
  <2>2. frames' = SubSeq(frames, 1, new)
    BY DEF BacktrackStart
  <2> QED BY <1>1, <2>1, <2>2, SubSeqProperties
<1>5. /\ undo' = Loop(new, end, end, end)
      /\ undo'.active /\ undo'.to = new /\ undo'.from = end
      /\ undo'.p = end /\ undo'.q = end
      /\ UNCHANGED <<values, level, position, trail, propagate, unassigned,
                     unflushed>>
  BY DEF BacktrackStart, Loop
<1> HIDE DEF end
<1>6. TrailTypeOK'
  <2>1. undo' \in [active : BOOLEAN, to : Nat, from : Nat, p : Nat, q : Nat]
    BY <1>1, <1>3, <1>5 DEF Loop
  <2> QED BY <1>4, <1>5, <2>1 DEF TrailTypeOK
<1>7. LoopBounds'
  BY <1>1, <1>3, <1>4, <1>5 DEF LoopBounds
<1>8. Live' = Live
  BY <1>1, <1>2, <1>3, <1>5 DEF Live
<1>9. SlotsTrue' /\ AssignedOnTrail'
  BY <1>5, <1>8 DEF SlotsTrue, AssignedOnTrail
<1>10. FramesDelimitLevels'
  <2>1. SUFFICES ASSUME NEW k \in 1 .. Len(frames')
                 PROVE  LET f == frames'[k] IN
                          /\ f.trail < (IF undo'.active THEN undo'.from ELSE Len(trail'))
                          /\ trail'[f.trail + 1] = f.decision
                          /\ level'[Idx(f.decision)] = k
                          /\ \A i \in 1 .. f.trail : level'[Idx(trail'[i])] < k
                          /\ \A j \in 1 .. k - 1 : frames'[j].trail < f.trail
    BY DEF FramesDelimitLevels
  <2>2. frames'[k] = frames[k] /\ \A j \in 1 .. k - 1 : frames'[j] = frames[j]
    BY <1>1, <1>4
  <2>3. k \in 1 .. Len(frames) /\ k \in 1 .. new
    BY <1>1, <1>4
  <2>4. LET f == frames[k] IN
          /\ f.trail < end
          /\ trail[f.trail + 1] = f.decision
          /\ level[Idx(f.decision)] = k
          /\ \A i \in 1 .. f.trail : level[Idx(trail[i])] < k
          /\ \A j \in 1 .. k - 1 : frames[j].trail < f.trail
    BY <1>2, <1>3, <2>3 DEF FramesDelimitLevels
  <2> QED BY <1>5, <2>2, <2>4
<1>11. PropagatedBelowFrames'
  BY <1>1, <1>4, <1>5 DEF PropagatedBelowFrames
<1>12. LevelBound'
  <2>1. \A i \in Live : i \in 1 .. Len(trail)
    BY LiveFacts
  <2>2. \A i \in 1 .. Len(trail) : level[Idx(trail[i])] \in Nat
    BY LiveFacts, LitFacts DEF TrailTypeOK
  <2>3. \A i \in Live : i <= end => level[Idx(trail[i])] <= new
    BY <1>1, <1>3, <2>1, <2>2
  <2> QED BY <1>4, <1>5, <1>8, <2>3 DEF LevelBound
<1>13. UnassignedCounts' /\ UnflushedCounts'
  BY <1>5, <1>8 DEF UnassignedCounts, UnflushedCounts, RootSlots
<1> QED BY <1>6, <1>7, <1>9, <1>10, <1>11, <1>12, <1>13

\* What the two iterations of the loop have in common.
LEMMA LoopFacts ==
    ASSUME TrailInv, undo.active, undo.p < Len(trail)
    PROVE  LET p == undo.p  q == undo.q  lit == trail[undo.p + 1] IN
           /\ p \in Nat /\ q \in Nat /\ undo.to \in Nat /\ undo.from \in Nat
           /\ Len(trail) \in Nat /\ undo.from <= q /\ q <= p
           /\ Live = (1 .. q) \cup (p + 1 .. Len(trail))
           /\ p + 1 \in Live /\ lit \in Lit
           /\ values[lit] = 1 /\ position[Idx(lit)] = p
           /\ \A i \in Live : i # p + 1 => Idx(trail[i]) # Idx(lit)
<1> USE DEF TrailInv
<1>1. /\ undo.p \in Nat /\ undo.q \in Nat /\ undo.to \in Nat /\ undo.from \in Nat
      /\ Len(trail) \in Nat /\ undo.from <= undo.q /\ undo.q <= undo.p
      /\ Live = (1 .. undo.q) \cup (undo.p + 1 .. Len(trail))
  BY LiveFacts DEF TrailTypeOK, LoopBounds, Live
<1>2. undo.p + 1 \in Live /\ trail[undo.p + 1] \in Lit
  BY <1>1, LiveFacts
<1>3. values[trail[undo.p + 1]] = 1 /\ position[Idx(trail[undo.p + 1])] = undo.p
  BY <1>1, <1>2 DEF SlotsTrue
<1>4. \A i \in Live : i # undo.p + 1 => Idx(trail[i]) # Idx(trail[undo.p + 1])
  BY <1>2, SlotsDistinct
<1> QED BY <1>1, <1>2, <1>3, <1>4

\* A kept literal slides from slot p + 1 down to slot q + 1.
LEMMA KeepInv == TrailInv /\ BacktrackKeep => TrailInv'
<1> SUFFICES ASSUME TrailInv, BacktrackKeep PROVE TrailInv'
  OBVIOUS
<1> USE DEF TrailInv
<1> DEFINE p == undo.p
           q == undo.q
           lit == trail[undo.p + 1]
<1>1. /\ undo.active /\ p < Len(trail)
      /\ p \in Nat /\ q \in Nat /\ undo.to \in Nat /\ undo.from \in Nat
      /\ Len(trail) \in Nat /\ undo.from <= q /\ q <= p
      /\ Live = (1 .. q) \cup (p + 1 .. Len(trail))
      /\ p + 1 \in Live /\ lit \in Lit
      /\ values[lit] = 1 /\ position[Idx(lit)] = p
      /\ \A i \in Live : i # p + 1 => Idx(trail[i]) # Idx(lit)
  BY LoopFacts DEF BacktrackKeep
<1>2. /\ level[Idx(lit)] <= undo.to
      /\ trail' = [trail EXCEPT ![q + 1] = lit]
      /\ position' = [position EXCEPT ![Idx(lit)] = q]
      /\ undo' = Loop(undo.to, undo.from, p + 1, q + 1)
      /\ UNCHANGED <<values, level, propagate, frames, unassigned, unflushed>>
  BY DEF BacktrackKeep, LevelOf
<1>3. /\ undo' \in [active : BOOLEAN, to : Nat, from : Nat, p : Nat, q : Nat]
      /\ undo'.active /\ undo'.to = undo.to /\ undo'.from = undo.from
      /\ undo'.p = p + 1 /\ undo'.q = q + 1
  BY <1>1, <1>2 DEF Loop
<1>4. undo.to = Len(frames) /\ Len(frames) \in Nat
  BY <1>1, LiveFacts DEF LoopBounds
<1> HIDE DEF p, q, lit
<1>5. /\ trail' \in Seq(Lit) /\ Len(trail') = Len(trail)
      /\ trail'[q + 1] = lit
      /\ \A i \in 1 .. Len(trail) : i # q + 1 => trail'[i] = trail[i]
  <2>1. q + 1 \in 1 .. Len(trail)
    BY <1>1
  <2> QED BY <1>1, <1>2, <2>1, ExceptSeq DEF TrailTypeOK
<1>6. Live' = (1 .. q + 1) \cup (p + 2 .. Len(trail))
  BY <1>1, <1>3, <1>5 DEF Live
<1>7. Idx(lit) \in Var /\ \A i \in Live : trail[i] \in Lit /\ Idx(trail[i]) \in Var
  BY <1>1, LiveFacts, LitFacts
<1>8. /\ position' \in [Var -> Nat] /\ position'[Idx(lit)] = q
      /\ \A v \in Var : v # Idx(lit) => position'[v] = position[v]
  BY <1>1, <1>2, <1>7 DEF TrailTypeOK
<1>9. \A i \in Live' : i # q + 1 => i \in Live /\ i # p + 1 /\ trail'[i] = trail[i]
  <2>1. ASSUME NEW i \in Live', i # q + 1 PROVE i \in Live /\ i # p + 1
    BY <1>1, <1>6, <2>1
  <2>2. \A i \in Live : i \in 1 .. Len(trail)
    BY LiveFacts
  <2> QED BY <1>5, <2>1, <2>2
<1>10. \A i \in Live : i # p + 1 => i \in Live' /\ i # q + 1
  BY <1>1, <1>6
<1>11. TrailTypeOK'
  BY <1>2, <1>3, <1>5, <1>8 DEF TrailTypeOK
<1>12. LoopBounds'
  BY <1>1, <1>2, <1>3, <1>4, <1>5 DEF LoopBounds
<1>13. SlotsTrue'
  <2>1. ASSUME NEW i \in Live'
        PROVE  values[trail'[i]] = 1 /\ position'[Idx(trail'[i])] = i - 1
    <3>1. CASE i = q + 1
      BY <3>1, <1>1, <1>5, <1>8
    <3>2. CASE i # q + 1
      <4>1. i \in Live /\ i # p + 1 /\ trail'[i] = trail[i]
        BY <3>2, <1>9
      <4>2. Idx(trail[i]) # Idx(lit) /\ Idx(trail[i]) \in Var
        BY <4>1, <1>1, <1>7
      <4> QED BY <4>1, <4>2, <1>8 DEF SlotsTrue
    <3> QED BY <3>1, <3>2
  <2>2. \A l \in Lit : values[-l] = -values[l]
    BY DEF SlotsTrue
  <2> QED BY <1>2, <2>1, <2>2 DEF SlotsTrue
<1>14. AssignedOnTrail'
  <2>1. SUFFICES ASSUME NEW v \in Var, values[v] # 0, level[v] > 0
                 PROVE  position'[v] + 1 \in Live' /\ Idx(trail'[position'[v] + 1]) = v
    BY <1>2 DEF AssignedOnTrail
  <2>2. CASE v = Idx(lit)
    BY <2>2, <1>1, <1>5, <1>6, <1>8
  <2>3. CASE v # Idx(lit)
    <3>1. position[v] + 1 \in Live /\ Idx(trail[position[v] + 1]) = v
      BY <2>1 DEF AssignedOnTrail
    <3>2. position[v] + 1 # p + 1
      BY <3>1, <2>3 DEF p, lit
    <3>3. position'[v] = position[v]
      BY <2>3, <1>8
    <3> QED BY <3>1, <3>2, <3>3, <1>9, <1>10
  <2> QED BY <2>2, <2>3
<1>15. FramesDelimitLevels'
  <2>1. SUFFICES ASSUME NEW k \in 1 .. Len(frames)
                 PROVE  LET f == frames[k] IN
                          /\ f.trail < undo.from
                          /\ trail'[f.trail + 1] = f.decision
                          /\ level[Idx(f.decision)] = k
                          /\ \A i \in 1 .. f.trail : level[Idx(trail'[i])] < k
                          /\ \A j \in 1 .. k - 1 : frames[j].trail < f.trail
    BY <1>2, <1>3 DEF FramesDelimitLevels
  <2> DEFINE f == frames[k]
  <2>2. /\ f.trail < undo.from /\ trail[f.trail + 1] = f.decision
        /\ level[Idx(f.decision)] = k
        /\ \A i \in 1 .. f.trail : level[Idx(trail[i])] < k
        /\ \A j \in 1 .. k - 1 : frames[j].trail < f.trail
    BY <1>1 DEF FramesDelimitLevels
  <2>3. f.trail \in Nat
    BY LiveFacts
  <2> HIDE DEF f
  <2>4. \A i \in 1 .. f.trail + 1 : i \in 1 .. Len(trail) /\ i # q + 1
    BY <1>1, <2>2, <2>3
  <2>5. \A i \in 1 .. f.trail + 1 : trail'[i] = trail[i]
    BY <1>5, <2>4
  <2>6. f.trail + 1 \in 1 .. f.trail + 1 /\ 1 .. f.trail \subseteq 1 .. f.trail + 1
    BY <2>3
  <2> QED BY <2>2, <2>5, <2>6 DEF f
<1>16. PropagatedBelowFrames'
  BY <1>2 DEF PropagatedBelowFrames
<1>17. LevelBound'
  <2>1. ASSUME NEW i \in Live', i <= q + 1
        PROVE  level[Idx(trail'[i])] <= Len(frames)
    <3>1. CASE i = q + 1
      BY <3>1, <1>2, <1>4, <1>5
    <3>2. CASE i # q + 1
      <4>1. i \in Live /\ trail'[i] = trail[i] /\ i <= q
        BY <3>2, <2>1, <1>1, <1>9, LiveFacts
      <4> QED BY <4>1, <1>1 DEF LevelBound, q
    <3> QED BY <3>1, <3>2
  <2> QED BY <1>2, <1>3, <2>1 DEF LevelBound
<1>18. UnassignedCounts'
  BY <1>2 DEF UnassignedCounts
<1>19. UnflushedCounts'
  <2>1. IsFiniteSet(RootSlots)
    BY LiveFacts, FS_Subset DEF RootSlots
  <2>2. \A i \in Live' : i # q + 1 => level'[Idx(trail'[i])] = level[Idx(trail[i])]
    BY <1>2, <1>9
  <2>3. level'[Idx(trail'[q + 1])] = level[Idx(lit)]
    BY <1>2, <1>5
  <2>4. q + 1 \in Live' /\ (q + 1 \in Live => q + 1 = p + 1)
    BY <1>1, <1>6
  <2>5. CASE level[Idx(lit)] # 0
    <3>1. p + 1 \notin RootSlots
      BY <2>5 DEF RootSlots, lit, p
    <3>2. RootSlots' = RootSlots
      BY <2>2, <2>3, <2>4, <2>5, <3>1, <1>9, <1>10 DEF RootSlots
    <3> QED BY <1>2, <3>2 DEF UnflushedCounts
  <2>6. CASE level[Idx(lit)] = 0
    <3>1. p + 1 \in RootSlots
      BY <2>6, <1>1 DEF RootSlots, lit, p
    <3>2. RootSlots' = (RootSlots \ {p + 1}) \cup {q + 1}
      BY <2>2, <2>3, <2>4, <2>6, <1>9, <1>10 DEF RootSlots
    <3>3. q + 1 \notin RootSlots \ {p + 1}
      BY <2>4 DEF RootSlots
    <3>4. /\ IsFiniteSet(RootSlots \ {p + 1})
          /\ Cardinality(RootSlots \ {p + 1}) = Cardinality(RootSlots) - 1
          /\ Cardinality(RootSlots) \in Nat
      BY <2>1, <3>1, FS_RemoveElement, FS_CardinalityType
    <3>5. Cardinality(RootSlots') = Cardinality(RootSlots \ {p + 1}) + 1
      BY <3>2, <3>3, <3>4, FS_AddElement
    <3> QED BY <1>2, <3>4, <3>5 DEF UnflushedCounts
  <2> QED BY <2>5, <2>6
<1> QED BY <1>11, <1>12, <1>13, <1>14, <1>15, <1>16, <1>17, <1>18, <1>19

\* A literal above the new level loses its value and its slot.
LEMMA UnassignInv == TrailInv /\ BacktrackUnassign => TrailInv'
<1> SUFFICES ASSUME TrailInv, BacktrackUnassign PROVE TrailInv'
  OBVIOUS
<1> USE DEF TrailInv
<1> DEFINE p == undo.p
           q == undo.q
           lit == trail[undo.p + 1]
<1>1. /\ undo.active /\ p < Len(trail)
      /\ p \in Nat /\ q \in Nat /\ undo.to \in Nat /\ undo.from \in Nat
      /\ Len(trail) \in Nat /\ undo.from <= q /\ q <= p
      /\ Live = (1 .. q) \cup (p + 1 .. Len(trail))
      /\ p + 1 \in Live /\ lit \in Lit
      /\ values[lit] = 1 /\ position[Idx(lit)] = p
      /\ \A i \in Live : i # p + 1 => Idx(trail[i]) # Idx(lit)
  BY LoopFacts DEF BacktrackUnassign
<1>2. /\ level[Idx(lit)] > undo.to
      /\ values' = [values EXCEPT ![lit] = 0, ![-lit] = 0]
      /\ unassigned' = unassigned + 1
      /\ undo' = Loop(undo.to, undo.from, p + 1, q)
      /\ UNCHANGED <<level, position, trail, propagate, frames, unflushed>>
  BY DEF BacktrackUnassign, LevelOf
<1>3. /\ undo' \in [active : BOOLEAN, to : Nat, from : Nat, p : Nat, q : Nat]
      /\ undo'.active /\ undo'.to = undo.to /\ undo'.from = undo.from
      /\ undo'.p = p + 1 /\ undo'.q = q
  BY <1>1, <1>2 DEF Loop
<1>4. undo.to = Len(frames) /\ Len(frames) \in Nat
  BY <1>1, LiveFacts DEF LoopBounds
<1> HIDE DEF p, q, lit
<1>5. /\ values' \in [Lit -> {-1, 0, 1}]
      /\ values'[lit] = 0 /\ values'[-lit] = 0
      /\ \A m \in Lit : m # lit /\ m # -lit => values'[m] = values[m]
  BY <1>1, <1>2, LitFacts DEF TrailTypeOK
<1>6. /\ Live' = (1 .. q) \cup (p + 2 .. Len(trail))
      /\ \A i \in Live : i \in Live' <=> i # p + 1
      /\ Live' \subseteq Live
  BY <1>1, <1>2, <1>3 DEF Live
<1>7. /\ Idx(lit) \in Var
      /\ \A i \in Live : trail[i] \in Lit /\ Idx(trail[i]) \in Var
  BY <1>1, LiveFacts, LitFacts
<1>8. TrailTypeOK'
  <2>1. unassigned' \in Nat
    BY <1>2 DEF TrailTypeOK
  <2> QED BY <1>2, <1>3, <1>5, <2>1 DEF TrailTypeOK
<1>9. LoopBounds'
  BY <1>1, <1>2, <1>3, <1>4 DEF LoopBounds
<1>10. SlotsTrue'
  <2>1. ASSUME NEW l \in Lit PROVE values'[-l] = -values'[l]
    <3>1. CASE l = lit \/ l = -lit
      BY <3>1, <1>1, <1>5, LitFacts
    <3>2. CASE l # lit /\ l # -lit
      <4>1. -l # lit /\ -l # -lit /\ -l \in Lit
        BY <3>2, <1>1, LitFacts
      <4> QED BY <4>1, <3>2, <1>5 DEF SlotsTrue
    <3> QED BY <3>1, <3>2
  <2>2. ASSUME NEW i \in Live'
        PROVE  values'[trail[i]] = 1 /\ position[Idx(trail[i])] = i - 1
    <3>1. i \in Live /\ i # p + 1
      BY <1>6
    <3>2. Idx(trail[i]) # Idx(lit)
      BY <3>1, <1>1
    <3>3. trail[i] # lit /\ trail[i] # -lit
      BY <3>2, <1>1, LitFacts
    <3> QED BY <3>1, <3>3, <1>5, <1>7 DEF SlotsTrue
  <2> QED BY <1>2, <2>1, <2>2 DEF SlotsTrue
<1>11. AssignedOnTrail'
  <2>1. SUFFICES ASSUME NEW v \in Var, values'[v] # 0, level[v] > 0
                 PROVE  position[v] + 1 \in Live' /\ Idx(trail[position[v] + 1]) = v
    BY <1>2 DEF AssignedOnTrail
  <2>2. v # Idx(lit)
    BY <2>1, <1>1, <1>5, LitFacts DEF Idx
  <2>3. v \in Lit /\ v # lit /\ v # -lit
    BY <2>2, <1>1, LitFacts
  <2>4. values[v] # 0
    BY <2>1, <2>3, <1>5
  <2>5. position[v] + 1 \in Live /\ Idx(trail[position[v] + 1]) = v
    BY <2>1, <2>4 DEF AssignedOnTrail
  <2>6. position[v] + 1 # p + 1
    BY <2>2, <2>5 DEF p, lit
  <2> QED BY <2>5, <2>6, <1>6
<1>12. FramesDelimitLevels' /\ PropagatedBelowFrames'
  BY <1>1, <1>2, <1>3 DEF FramesDelimitLevels, PropagatedBelowFrames
<1>13. LevelBound'
  BY <1>1, <1>2, <1>3, <1>6 DEF LevelBound, q
<1>14. UnassignedCounts'
  <2> DEFINE U == {v \in Var : values[v] = 0}
  <2>1. IsFiniteSet(U)
    BY VarFinite, FS_Subset
  <2>2. Idx(lit) \notin U
    <3>1. values[-lit] = -1
      BY <1>1 DEF SlotsTrue
    <3>2. Idx(lit) = lit \/ Idx(lit) = -lit
      BY DEF Idx
    <3> QED BY <3>1, <3>2, <1>1
  <2>3. U \cup {Idx(lit)} = {v \in Var : values'[v] = 0}
    <3>1. values'[Idx(lit)] = 0
      BY <1>5 DEF Idx
    <3>2. \A v \in Var : v # Idx(lit) => values'[v] = values[v]
      BY <1>1, <1>5, LitFacts
    <3> QED BY <3>1, <3>2, <1>7
  <2> QED BY <1>2, <2>1, <2>2, <2>3, FS_AddElement DEF UnassignedCounts
<1>15. UnflushedCounts'
  <2>1. level[Idx(lit)] # 0
    BY <1>1, <1>2
  <2>2. RootSlots' = RootSlots
    BY <1>1, <1>2, <1>6, <2>1 DEF RootSlots, lit, p
  <2> QED BY <1>2, <2>2 DEF UnflushedCounts
<1> QED BY <1>8, <1>9, <1>10, <1>11, <1>12, <1>13, <1>14, <1>15

\* The end of the loop: the trail is cut behind the kept literals.
LEMMA DoneInv == TrailInv /\ BacktrackDone => TrailInv'
<1> SUFFICES ASSUME TrailInv, BacktrackDone PROVE TrailInv'
  OBVIOUS
<1> USE DEF TrailInv
<1> DEFINE q == undo.q
<1>1. /\ undo.active /\ undo.p = Len(trail)
      /\ trail' = SubSeq(trail, 1, q) /\ propagate' = undo.from /\ undo' = Idle
      /\ UNCHANGED <<values, level, position, frames, unassigned, unflushed>>
  BY DEF BacktrackDone
<1>2. /\ q \in Nat /\ undo.from \in Nat /\ Len(trail) \in Nat
      /\ undo.from <= q /\ q <= Len(trail)
      /\ Live = 1 .. q
  BY <1>1, LiveFacts DEF TrailTypeOK, LoopBounds, Live
<1> HIDE DEF q
<1>3. /\ trail' \in Seq(Lit) /\ Len(trail') = q
      /\ \A i \in 1 .. q : trail'[i] = trail[i]
  <2>1. \A i \in 1 .. q : trail[i] \in Lit
    BY <1>2, LiveFacts
  <2> QED BY <1>1, <1>2, <2>1, SubSeqProperties
<1>4. /\ undo' \in [active : BOOLEAN, to : Nat, from : Nat, p : Nat, q : Nat]
      /\ ~ undo'.active
  BY <1>1 DEF Idle
<1>5. Live' = Live
  BY <1>2, <1>3, <1>4 DEF Live
<1>6. TrailTypeOK'
  <2>1. propagate' \in 0 .. Len(trail')
    BY <1>1, <1>2, <1>3
  <2> QED BY <1>1, <1>3, <1>4, <2>1 DEF TrailTypeOK
<1>7. LoopBounds'
  BY <1>4 DEF LoopBounds
<1>8. SlotsTrue' /\ AssignedOnTrail'
  BY <1>1, <1>2, <1>3, <1>5 DEF SlotsTrue, AssignedOnTrail
<1>9. FramesDelimitLevels'
  <2>1. SUFFICES ASSUME NEW k \in 1 .. Len(frames)
                 PROVE  LET f == frames[k] IN
                          /\ f.trail < q
                          /\ trail'[f.trail + 1] = f.decision
                          /\ level[Idx(f.decision)] = k
                          /\ \A i \in 1 .. f.trail : level[Idx(trail'[i])] < k
                          /\ \A j \in 1 .. k - 1 : frames[j].trail < f.trail
    BY <1>1, <1>3, <1>4 DEF FramesDelimitLevels
  <2> DEFINE f == frames[k]
  <2>2. /\ f.trail < undo.from /\ trail[f.trail + 1] = f.decision
        /\ level[Idx(f.decision)] = k
        /\ \A i \in 1 .. f.trail : level[Idx(trail[i])] < k
        /\ \A j \in 1 .. k - 1 : frames[j].trail < f.trail
    BY <1>1 DEF FramesDelimitLevels
  <2>3. f.trail \in Nat
    BY LiveFacts
  <2> HIDE DEF f
  <2>4. f.trail < q /\ 1 .. f.trail + 1 \subseteq 1 .. q
    BY <1>2, <2>2, <2>3
  <2>5. \A i \in 1 .. f.trail + 1 : trail'[i] = trail[i]
    BY <1>3, <2>4
  <2>6. f.trail + 1 \in 1 .. f.trail + 1 /\ 1 .. f.trail \subseteq 1 .. f.trail + 1
    BY <2>3
  <2> QED BY <2>2, <2>4, <2>5, <2>6 DEF f
<1>10. PropagatedBelowFrames'
  <2>1. \A k \in 1 .. Len(frames) : frames[k].trail < undo.from /\ frames[k].trail \in Nat
    BY <1>1, LiveFacts DEF FramesDelimitLevels
  <2> QED BY <1>1, <1>2, <2>1 DEF PropagatedBelowFrames
<1>11. LevelBound'
  <2>1. \A i \in 1 .. q : level[Idx(trail[i])] <= Len(frames)
    BY <1>1, <1>2 DEF LevelBound, q
  <2> QED BY <1>1, <1>2, <1>3, <1>5, <2>1 DEF LevelBound
<1>12. UnassignedCounts' /\ UnflushedCounts'
  <2>1. RootSlots' = RootSlots
    BY <1>1, <1>2, <1>3, <1>5 DEF RootSlots
  <2> QED BY <1>1, <2>1 DEF UnassignedCounts, UnflushedCounts
<1> QED BY <1>6, <1>7, <1>8, <1>9, <1>10, <1>11, <1>12

\* The assertion of kissat_flush_trail.
LEMMA OnlyUnitsLemma == TrailInv => OnlyUnitsAtRoot
<1> SUFFICES ASSUME TrailInv, CurrentLevel = 0, ~ undo.active
             PROVE  Len(trail) = unflushed
  BY DEF OnlyUnitsAtRoot
<1> USE DEF TrailInv
<1>1. Live = 1 .. Len(trail) /\ Len(trail) \in Nat
  BY LiveFacts DEF Live
<1>2. \A i \in Live : level[Idx(trail[i])] \in Nat
  BY LiveFacts, LitFacts DEF TrailTypeOK
<1>3. RootSlots = 1 .. Len(trail)
  BY <1>1, <1>2 DEF RootSlots, LevelBound, CurrentLevel
<1>4. Cardinality(1 .. Len(trail)) = Len(trail)
  <2>1. \A n \in Nat : Cardinality(1 .. n) = n
    BY FS_Interval
  <2> QED BY <1>1, <2>1
<1> QED BY <1>3, <1>4 DEF UnflushedCounts

LEMMA FlushInv == TrailInv /\ Flush => TrailInv'
<1> SUFFICES ASSUME TrailInv, Flush PROVE TrailInv'
  OBVIOUS
<1> USE DEF TrailInv
<1>1. /\ ~ undo.active /\ Len(frames) = 0
      /\ trail' = <<>> /\ propagate' = 0 /\ unflushed' = 0
      /\ UNCHANGED <<values, level, position, frames, unassigned, undo>>
  BY DEF Flush, CurrentLevel
<1>2. trail' \in Seq(Lit) /\ Len(trail') = 0
  BY <1>1
<1>3. Live' = {}
  BY <1>1, <1>2 DEF Live
<1>4. TrailTypeOK'
  BY <1>1, <1>2 DEF TrailTypeOK
<1>5. LoopBounds' /\ FramesDelimitLevels' /\ PropagatedBelowFrames' /\ LevelBound'
  BY <1>1, <1>3 DEF LoopBounds, FramesDelimitLevels, PropagatedBelowFrames, LevelBound
<1>6. SlotsTrue'
  BY <1>1, <1>3 DEF SlotsTrue
<1>7. AssignedOnTrail'
  <2>1. ASSUME NEW v \in Var, values[v] # 0, level[v] > 0 PROVE FALSE
    <3>1. position[v] + 1 \in Live /\ Idx(trail[position[v] + 1]) = v
      BY <2>1 DEF AssignedOnTrail
    <3>2. level[v] <= 0
      BY <3>1, <1>1 DEF LevelBound
    <3> QED BY <2>1, <3>2 DEF TrailTypeOK
  <2> QED BY <1>1, <2>1 DEF AssignedOnTrail
<1>8. UnassignedCounts' /\ UnflushedCounts'
  <2>1. RootSlots' = {}
    BY <1>3 DEF RootSlots
  <2> QED BY <1>1, <2>1, FS_EmptySet DEF UnassignedCounts, UnflushedCounts
<1> QED BY <1>4, <1>5, <1>6, <1>7, <1>8

LEMMA InitInv == TrailInit => TrailInv
<1> SUFFICES ASSUME TrailInit PROVE TrailInv
  OBVIOUS
<1> USE DEF TrailInit
<1>1. Len(trail) = 0 /\ Len(frames) = 0 /\ trail \in Seq(Lit)
      /\ frames \in Seq([decision : Lit, trail : Nat])
  OBVIOUS
<1>2. undo \in [active : BOOLEAN, to : Nat, from : Nat, p : Nat, q : Nat]
      /\ ~ undo.active
  BY DEF Idle
<1>3. TrailTypeOK
  BY <1>1, <1>2, NVarsAssumption DEF TrailTypeOK
<1>4. Live = {} /\ RootSlots = {}
  BY <1>1, <1>2 DEF Live, RootSlots
<1>5. SlotsTrue /\ AssignedOnTrail
  <2>1. \A l \in Lit : values[l] = 0 /\ values[-l] = 0
    BY LitFacts
  <2>2. \A v \in Var : values[v] = 0
    BY LitFacts
  <2> QED BY <1>4, <2>1, <2>2 DEF SlotsTrue, AssignedOnTrail
<1>6. LoopBounds /\ FramesDelimitLevels /\ PropagatedBelowFrames /\ LevelBound
  BY <1>1, <1>2, <1>4 DEF LoopBounds, FramesDelimitLevels, PropagatedBelowFrames, LevelBound
<1>7. UnassignedCounts /\ UnflushedCounts
  <2>1. {v \in Var : values[v] = 0} = Var
    BY LitFacts
  <2> QED BY <1>4, <2>1, VarFinite, FS_EmptySet DEF UnassignedCounts, UnflushedCounts
<1> QED BY <1>3, <1>5, <1>6, <1>7 DEF TrailInv

LEMMA NextInv == TrailInv /\ [TrailNext]_trailVars => TrailInv'
<1>1. ASSUME TrailInv, UNCHANGED trailVars PROVE TrailInv'
  BY <1>1 DEF TrailInv, trailVars, TrailTypeOK, LoopBounds, SlotsTrue,
     AssignedOnTrail, FramesDelimitLevels, PropagatedBelowFrames, LevelBound,
     UnassignedCounts, UnflushedCounts, RootSlots, Live
<1> QED BY <1>1, AssignInv, DecideInv, AdvanceInv, StartInv, KeepInv,
           UnassignInv, DoneInv, FlushInv
        DEF TrailNext, BacktrackStep

-----------------------------------------------------------------------------
\* The inductive invariant of the trail: types, frame boundaries, positions
\* and counters are right in every reachable state, also between two
\* iterations of the compaction loop of backtrack.c.
THEOREM TrailInvariant == TrailSpec => []TrailInv
BY InitInv, NextInv, PTL DEF TrailSpec

\* Literals, their values and their positions agree; after any number of
\* chronological backtracks conflict analysis finds each assigned variable
\* where its position field says.
THEOREM TrailPositions == TrailSpec => [](SlotsTrue /\ AssignedOnTrail)
<1>1. TrailInv => SlotsTrue /\ AssignedOnTrail
  BY DEF TrailInv
<1> QED BY <1>1, TrailInvariant, PTL

\* No literal of level k or more lies before the start of frame k, although
\* the trail is not sorted by level: backtrack.c may start its scan there.
THEOREM TrailFrames == TrailSpec => []FramesDelimitLevels
<1>1. TrailInv => FramesDelimitLevels
  BY DEF TrailInv
<1> QED BY <1>1, TrailInvariant, PTL

\* The assertion SIZE_ARRAY (trail) == unflushed of kissat_flush_trail can
\* never fail.
THEOREM TrailFlush == TrailSpec => []OnlyUnitsAtRoot
BY OnlyUnitsLemma, TrailInvariant, PTL

-----------------------------------------------------------------------------
(***************************************************************************)
(* The trail implements the stack of assignments.                          *)
(***************************************************************************)
Levels == [l \in Abstract |-> LevelOf(l)]

LEMMA PushRefines ==
    ASSUME TrailInv, ~ undo.active, undo' = undo,
           NEW lit \in Lit, NEW lvl \in Nat, Push(lit, lvl)
    PROVE  /\ Stack!Free(lit)
           /\ Levels' = Stack!Extended(lit, lvl)
<1> USE DEF TrailInv
<1>1. Abstract = {l \in Lit : values[l] = 1} /\ Abstract' = {l \in Lit : values'[l] = 1}
  BY DEF Abstract
<1>2. values[lit] = 0 /\ values[-lit] = 0 /\ -lit \in Lit /\ Idx(lit) \in Var
  BY LitFacts DEF Push, SlotsTrue
<1>3. /\ values'[lit] = 1 /\ values'[-lit] = -1
      /\ \A m \in Lit : m # lit /\ m # -lit => values'[m] = values[m]
      /\ level'[Idx(lit)] = lvl
      /\ \A v \in Var : v # Idx(lit) => level'[v] = level[v]
  BY <1>2, LitFacts DEF Push, TrailTypeOK
<1>4. Abstract' = Abstract \cup {lit} /\ lit \notin Abstract /\ -lit \notin Abstract
  BY <1>1, <1>2, <1>3
<1>5. \A l \in Abstract : Idx(l) \in Var /\ Idx(l) # Idx(lit)
  BY <1>1, <1>2, LitFacts
<1>6. DOMAIN Levels = Abstract
  BY DEF Levels
<1>7. Stack!Free(lit)
  BY <1>4, <1>6 DEF Stack!Free, Levels
<1>8. Levels' = [l \in Abstract \cup {lit} |-> level'[Idx(l)]]
  BY <1>4 DEF Levels, LevelOf
<1>9. \A l \in Abstract \cup {lit} :
        level'[Idx(l)] = IF l = lit THEN lvl ELSE level[Idx(l)]
  BY <1>3, <1>4, <1>5
<1>10. Stack!Extended(lit, lvl) =
         [l \in Abstract \cup {lit} |-> IF l = lit THEN lvl ELSE Levels[l]]
  BY DEF Stack!Extended, Levels
<1>11. \A l \in Abstract : Levels[l] = level[Idx(l)]
  BY DEF Levels, LevelOf
<1> QED BY <1>7, <1>8, <1>9, <1>10, <1>11

LEMMA StepRefines ==
    TrailInv /\ TrailInv' /\ [TrailNext]_trailVars
        => [Stack!Next]_<<Levels, Len(frames)>>
<1> SUFFICES ASSUME TrailInv, TrailInv', [TrailNext]_trailVars
             PROVE  Stack!Next \/ UNCHANGED <<Levels, Len(frames)>>
  OBVIOUS
<1> USE DEF TrailInv
<1>0. Len(frames) \in Nat /\ CurrentLevel = Len(frames)
  BY LiveFacts DEF CurrentLevel
<1>1. ASSUME NEW lit \in Lit, NEW lvl \in 0 .. CurrentLevel, Assign(lit, lvl)
      PROVE  Stack!Next
  <2>1. lvl \in Nat /\ lvl <= Len(frames) /\ lvl \in 0 .. Len(frames)
    BY <1>0
  <2>2. Stack!Free(lit) /\ Levels' = Stack!Extended(lit, lvl)
    BY <1>1, <2>1, PushRefines DEF Assign
  <2>3. Stack!Assign(lit, lvl)
    BY <1>1, <2>1, <2>2 DEF Stack!Assign, Assign, Levels
  <2>4. \E k \in 0 .. Len(frames) : Stack!Assign(lit, k)
    BY <2>1, <2>3
  <2> QED BY <2>4 DEF Stack!Next, Stack!Lit, Lit
<1>2. ASSUME NEW lit \in Lit, Decide(lit)
      PROVE  Stack!Next
  <2>1. Stack!Free(lit) /\ Levels' = Stack!Extended(lit, Len(frames) + 1)
    BY <1>0, <1>2, PushRefines DEF Decide
  <2>2. Len(frames') = Len(frames) + 1
    BY <1>2, <1>0 DEF Decide, TrailTypeOK
  <2>3. Stack!Decide(lit)
    BY <2>1, <2>2 DEF Stack!Decide, Levels
  <2> QED BY <2>3 DEF Stack!Next, Stack!Lit, Lit
<1>3. ASSUME NEW new \in 0 .. CurrentLevel, BacktrackStart(new)
      PROVE  Stack!Next
  <2>1. new \in Nat /\ new < Len(frames) /\ new \in 0 .. Len(frames)
    BY <1>0, <1>3 DEF BacktrackStart, CurrentLevel
  <2>2. /\ ~ undo.active /\ undo'.active /\ undo'.to = new
        /\ values' = values /\ level' = level
        /\ frames' = SubSeq(frames, 1, new)
    BY <1>3 DEF BacktrackStart, Loop
  <2>3. Len(frames') = new
    <3>1. \A i \in 1 .. Len(frames) : frames[i] \in [decision : Lit, trail : Nat]
      BY ElementOfSeq DEF TrailTypeOK
    <3>2. \A i \in 1 .. new : frames[i] \in [decision : Lit, trail : Nat]
      BY <1>0, <2>1, <3>1
    <3> QED BY <2>1, <2>2, <3>2, SubSeqProperties
  <2>4. /\ DOMAIN Levels = Abstract
        /\ \A l \in Abstract : Levels[l] = level[Idx(l)]
    BY DEF Levels, LevelOf
  <2>5. Abstract' = {m \in Abstract : level[Idx(m)] <= new}
    BY <2>2 DEF Abstract, LevelOf
  <2>6. Levels' = [l \in Abstract' |-> level[Idx(l)]]
    BY <2>2 DEF Levels, LevelOf
  <2>7. Abstract' = {m \in Abstract : Levels[m] <= new}
    BY <2>4, <2>5
  <2>8. Levels' = [l \in {m \in DOMAIN Levels : Levels[m] <= new} |-> Levels[l]]
    BY <2>4, <2>6, <2>7
  <2>9. Stack!Backtrack(new)
    BY <2>1, <2>3, <2>8 DEF Stack!Backtrack, Levels
  <2> QED BY <2>1, <2>9 DEF Stack!Next
<1>4. ASSUME BacktrackKeep PROVE UNCHANGED <<Levels, Len(frames)>>
  BY <1>4 DEF BacktrackKeep, Loop, Levels, Abstract, LevelOf
<1>5. ASSUME BacktrackUnassign PROVE UNCHANGED <<Levels, Len(frames)>>
  <2> DEFINE lit == trail[undo.p + 1]
  <2>1. undo.active /\ lit \in Lit /\ -lit \in Lit /\ values[lit] = 1 /\ undo.to \in Nat
    BY <1>5, LoopFacts, LitFacts DEF BacktrackUnassign
  <2>2. /\ level[Idx(lit)] > undo.to /\ level' = level /\ frames' = frames
        /\ values' = [values EXCEPT ![lit] = 0, ![-lit] = 0]
        /\ undo'.active /\ undo'.to = undo.to
    BY <1>5 DEF BacktrackUnassign, Loop, LevelOf
  <2> HIDE DEF lit
  <2>3. level[Idx(lit)] \in Nat /\ values[-lit] = -1
    <3>1. Idx(lit) \in Var
      BY <2>1, LitFacts
    <3>2. values[-lit] = -values[lit]
      BY <2>1 DEF SlotsTrue
    <3> QED BY <2>1, <3>1, <3>2 DEF TrailTypeOK
  <2>4. /\ values'[lit] = 0 /\ values'[-lit] = 0
        /\ \A m \in Lit : m # lit /\ m # -lit => values'[m] = values[m]
    BY <2>1, <2>2, LitFacts DEF TrailTypeOK
  <2>5. lit \notin Abstract /\ -lit \notin Abstract
    BY <2>1, <2>2, <2>3 DEF Abstract, LevelOf
  <2>6. Abstract' = Abstract
    <3>1. ASSUME NEW l \in Lit PROVE l \in Abstract' <=> l \in Abstract
      <4>1. CASE l = lit \/ l = -lit
        BY <4>1, <2>1, <2>4, <2>5 DEF Abstract
      <4>2. CASE l # lit /\ l # -lit
        BY <4>2, <2>1, <2>2, <2>4 DEF Abstract, LevelOf
      <4> QED BY <4>1, <4>2
    <3>2. Abstract \subseteq Lit /\ Abstract' \subseteq Lit
      BY DEF Abstract
    <3> QED BY <3>1, <3>2
  <2> QED BY <2>2, <2>6 DEF Levels, LevelOf
<1>6. ASSUME BacktrackDone PROVE UNCHANGED <<Levels, Len(frames)>>
  <2>1. /\ undo.active /\ undo.p = Len(trail) /\ ~ undo'.active
        /\ values' = values /\ level' = level /\ frames' = frames
    BY <1>6 DEF BacktrackDone, Idle
  <2>2. undo.to = Len(frames) /\ undo.to \in Nat /\ undo.q \in Nat
        /\ Live \subseteq 1 .. undo.q
    BY <2>1, LiveFacts DEF LoopBounds, TrailTypeOK, Live
  <2>3. ASSUME NEW l \in Lit, values[l] = 1 PROVE level[Idx(l)] <= undo.to
    <3>1. Idx(l) \in Var /\ values[Idx(l)] # 0 /\ level[Idx(l)] \in Nat
      <4>1. Idx(l) = l \/ Idx(l) = -l
        BY DEF Idx
      <4>2. values[-l] = -1
        BY <2>3 DEF SlotsTrue
      <4>3. values[Idx(l)] # 0
        BY <4>1, <4>2, <2>3
      <4>4. Idx(l) \in Var
        BY LitFacts
      <4> QED BY <4>3, <4>4 DEF TrailTypeOK
    <3>2. CASE level[Idx(l)] > 0
      <4>1. /\ position[Idx(l)] + 1 \in Live
            /\ Idx(trail[position[Idx(l)] + 1]) = Idx(l)
        BY <3>1, <3>2 DEF AssignedOnTrail
      <4>2. PICK i \in Live : Idx(trail[i]) = Idx(l)
        BY <4>1
      <4>3. i <= undo.q
        BY <2>2
      <4> QED BY <4>2, <4>3, <2>1, <2>2 DEF LevelBound
    <3>3. CASE ~ level[Idx(l)] > 0
      BY <3>1, <3>3, <2>2
    <3> QED BY <3>2, <3>3
  <2>4. Abstract' = Abstract
    BY <2>1, <2>3 DEF Abstract, LevelOf
  <2> QED BY <2>1, <2>4 DEF Levels, LevelOf
<1>7. ASSUME Advance \/ Flush \/ UNCHANGED trailVars
      PROVE  UNCHANGED <<Levels, Len(frames)>>
  BY <1>7 DEF Advance, Flush, trailVars, Levels, Abstract, LevelOf
<1> QED BY <1>1, <1>2, <1>3, <1>4, <1>5, <1>6, <1>7 DEF TrailNext, BacktrackStep

LEMMA StartRefines == TrailInit => Stack!Init
<1> SUFFICES ASSUME TrailInit PROVE Stack!Init
  OBVIOUS
<1>1. Abstract = {}
  BY DEF TrailInit, Abstract
<1>2. Len(frames) = 0
  BY DEF TrailInit
<1> QED BY <1>1, <1>2 DEF Stack!Init

\* The in-place loop of kissat_backtrack_without_updating_phases is, from the
\* outside, one step that undoes exactly the assignments above the new level.
THEOREM TrailImplementsStack == TrailSpec => StackSpec
<1>1. TrailInit => Stack!Init BY StartRefines
<1>2. TrailInv /\ TrailInv' /\ [TrailNext]_trailVars => [Stack!Next]_(Stack!vars)
  BY StepRefines DEF Stack!vars, Levels
<1> QED BY <1>1, <1>2, TrailInvariant, PTL DEF TrailSpec, StackSpec, Stack!Spec

-----------------------------------------------------------------------------
\* The inductive invariant.
Follows(D) == Entails(formula, D)

RootSound == \A l \in Lit : values[l] = 1 /\ LevelOf(l) = 0 => Follows({l})

ClauseType == [lits : Seq(Lit), redundant : BOOLEAN, garbage : BOOLEAN, searched : Nat]

ArenaSound ==
    /\ arena \in Seq(ClauseType)
    /\ \A r \in References :
        /\ arena[r].lits \in Seq(Lit)
        /\ Len(arena[r].lits) > 2
        /\ IsInjective(arena[r].lits)
        /\ Follows(ToSet(arena[r].lits))

\* The watches of each literal, were the loop over a watch list left now.
RestOf(v, l) == IF l = -v.lit THEN v.rest ELSE <<>>
HandsOf(ws, v) == [l \in Lit |-> ws[l] \o RestOf(v, l) \o v.delayed[l]]

WatchType == [binary : BOOLEAN, blocking : Lit, ref : Nat]

Lists == [Lit -> Seq(WatchType)]
VisitType == [lit : Lit \cup {0}, rest : Seq(WatchType), delayed : Lists]

WatchListsOK == watches \in Lists /\ visit \in VisitType

\* A binary watch stands for a clause that follows, a large one for a clause
\* with the literal among its first two; no hand holds two of one clause.
WatchOK(G, F, l, w) ==
    /\ w.binary => w.blocking # l /\ Entails(G, {l, w.blocking})
    /\ ~ w.binary => w.ref \in DOMAIN F /\ l \in F[w.ref]
Once(h) == \A i, j \in DOMAIN h : ~ h[i].binary /\ Watches(h[j], h[i].ref) => i = j
HandsSound(G, F, H) ==
    \A l \in Lit : Once(H[l]) /\ \A i \in DOMAIN H[l] : WatchOK(G, F, l, H[l][i])

First(r) == {arena[r].lits[1], arena[r].lits[2]}
Firsts == [r \in References |-> First(r)]
WatchesSound == HandsSound(formula, Firsts, HandsOf(watches, visit))

VisitSound ==
    IF visit.lit = 0
      THEN visit = NoVisit
      ELSE values[visit.lit] = 1 /\ todo = <<>> /\ conflict = NoConflict /\ ~ undo.active

\* A false literal that the backtracks to come leave alone.
Targets == {todo[i].to : i \in {i \in DOMAIN todo : todo[i].op = "backtrack"}}
Safe(l) ==
    /\ l \in Lit
    /\ values[l] = -1
    /\ LevelOf(l) <= CurrentLevel
    /\ \A k \in Targets : LevelOf(l) <= k

\* True literals above the root that the loop of a backtrack will not undo.
Forced == {l \in Lit : values[l] = 1 /\ LevelOf(l) > 0 /\ LevelOf(l) <= CurrentLevel}

Earlier(m, l) == LevelOf(m) = 0 \/ position[Idx(m)] < position[Idx(l)]
Supported(l, others) ==
    /\ \A m \in others : values[m] = -1 /\ LevelOf(m) <= LevelOf(l) /\ Earlier(m, l)
    /\ \E m \in others : LevelOf(m) = LevelOf(l)

ReasonType == [kind : {"decision", "unit", "binary", "large"}, other : Lit \cup {0}, ref : Nat]

ReasonSound(l) ==
    LET why == reason[Idx(l)] IN
    \/ why.kind = "decision" /\ frames[LevelOf(l)].decision = l
    \/ /\ why.kind = "binary"
       /\ why.other \in Lit
       /\ Follows({l, why.other})
       /\ Supported(l, {why.other})
    \/ /\ why.kind = "large"
       /\ why.ref \in References
       /\ Supported(l, ToSet(arena[why.ref].lits) \ {l})

Fits(l) ==
    LET why == reason[Idx(l)] IN
    why.kind = "large" => ~ arena[why.ref].garbage /\ l \in First(why.ref)

\* A reason that was strengthened no longer fits: its literal will be undone
\* before anybody asks for the reason.
Frontier == IF resolvent # {} THEN resolvent ELSE ToSet(LitsOf(conflict))
PastFrontier(l) ==
    /\ ~ undo.active
    /\ conflict # NoConflict
    /\ LevelOf(l) = CurrentLevel
    /\ \E m \in Frontier : LevelOf(m) = CurrentLevel
    /\ \A m \in Frontier : LevelOf(m) = CurrentLevel => position[Idx(m)] < position[Idx(l)]
Doomed(l) == (\E k \in Targets : k < LevelOf(l)) \/ PastFrontier(l)

ReasonsSound ==
    /\ reason \in [Var -> ReasonType]
    /\ \A l \in Forced : ReasonSound(l) /\ (Fits(l) \/ Doomed(l))

ConflictSound ==
    conflict # NoConflict =>
        /\ \/ conflict.ref \in References /\ ~ arena[conflict.ref].garbage
           \/ /\ conflict.ref = 0
              /\ \E a, b \in Lit : a # b /\ conflict.lits = <<a, b>>
        /\ Follows(ToSet(LitsOf(conflict)))
        /\ \A l \in ToSet(LitsOf(conflict)) : Safe(l)

Analysis == \E i \in DOMAIN todo : todo[i].op \in {"deduce", "failed"}
ResolventSound ==
    /\ resolvent # {} <=> Analysis
    /\ resolvent # {} =>
         /\ conflict # NoConflict
         /\ Follows(resolvent)
         /\ \A l \in resolvent : Safe(l) /\ LevelOf(l) > 0
         /\ \E l \in resolvent : LevelOf(l) = CurrentLevel \/ LevelOf(l) \in Targets
         /\ (\E i \in DOMAIN todo : todo[i].op = "failed") => \A l \in resolvent : LevelOf(l) = 1

\* The step before the subsumption assigns a literal of the clause.
Forces(s, t) ==
    /\ s.op \in {"unit", "forceBinary", "forceLarge"}
    /\ s.lit \in t.clause
    /\ s.op = "forceLarge" => s.ref = t.ref
ForcedBy(l, t) ==
    /\ values[l] = 1
    /\ \/ LevelOf(l) = 0
       \/ reason[Idx(l)].kind = "binary"
       \/ reason[Idx(l)] = LargeReason(t.ref)

StepType ==
    [op : {"backtrack"}, to : Nat]
    \cup [op : {"unit"}, lit : Lit]
    \cup [op : {"newBinary", "forceBinary"}, lit : Lit, other : Lit]
    \cup [op : {"forceLarge"}, lit : Lit, ref : Nat]
    \cup [op : {"subsume"}, clause : SUBSET Lit, ref : Nat]
    \cup [op : {"deduce", "failed"}]

\* What a step that is still to do relies on ...
Holds(t) ==
    /\ t.op = "unit" => Follows({t.lit})
    /\ t.op \in {"newBinary", "forceBinary"} => t.lit # t.other /\ Follows({t.lit, t.other})
    /\ t.op = "forceBinary" => Safe(t.other)
    /\ t.op = "forceLarge" =>
         /\ t.ref \in References
         /\ ~ arena[t.ref].garbage
         /\ t.lit \in First(t.ref)
         /\ \A m \in ToSet(arena[t.ref].lits) \ {t.lit} : Safe(m)
    /\ t.op = "subsume" /\ t.ref \in References =>
         Len(arena[t.ref].lits) = Cardinality(t.clause)

\* ... and where it may stand.
Placed(i) ==
    LET t == todo[i] IN
    /\ t.op \in {"deduce", "failed"} => \A j \in 1 .. i - 1 : todo[j].op = "backtrack"
    /\ t.op = "deduce" => i = Len(todo)
    /\ t.op = "failed" => \A j \in i + 1 .. Len(todo) : todo[j].op = "unit"
    /\ t.op = "subsume" =>
         /\ i = Len(todo)
         /\ IF i = 1 THEN ~ undo.active /\ \E l \in t.clause : ForcedBy(l, t)
                     ELSE Forces(todo[i - 1], t)

TodoSound ==
    /\ todo \in Seq(StepType)
    /\ \A i \in DOMAIN todo : Holds(todo[i]) /\ Placed(i)
    /\ conflict # NoConflict /\ todo # <<>> => Analysis

RefutationSound == result = 20 => Unsatisfiable(formula)

SearchInv ==
    /\ TrailInv
    /\ formula \in Formulas
    /\ RootSound
    /\ ArenaSound
    /\ WatchListsOK
    /\ WatchesSound
    /\ VisitSound
    /\ ReasonsSound
    /\ ConflictSound
    /\ ResolventSound
    /\ TodoSound
    /\ RefutationSound
-----------------------------------------------------------------------------
\* Sets of naturals, and sequences.
LEMMA MaxFacts ==
    ASSUME NEW b \in Nat, NEW S \in SUBSET (0 .. b), S # {}
    PROVE  Max(S) \in S /\ \A y \in S : y <= Max(S)
<1> DEFINE T == {b - y : y \in S}
<1>0. \A y \in S : y \in Nat /\ b - y \in Nat OBVIOUS
<1>1. T \in SUBSET Nat /\ T # {} BY <1>0
<1>2. PICK m \in T : \A k \in T : m <= k
  <2> HIDE DEF T
  <2> QED BY <1>1, LeastNatural
<1>3. PICK x \in S : m = b - x BY <1>2
<1>4. \A y \in S : x >= y
  <2> TAKE y \in S
  <2>1. m <= b - y BY <1>2
  <2>2. x \in 0 .. b /\ y \in 0 .. b OBVIOUS
  <2> QED BY <1>3, <2>1, <2>2
<1> HIDE DEF T
<1>5. Max(S) \in S /\ \A y \in S : Max(S) >= y BY <1>4, Zenon DEF Max
<1> QED BY <1>0, <1>5

LEMMA MinFacts ==
    ASSUME NEW S \in SUBSET Nat, S # {}
    PROVE  Min(S) \in S /\ \A y \in S : Min(S) <= y
<1>1. PICK m \in S : \A y \in S : m <= y BY LeastNatural
<1> QED BY <1>1 DEF Min

\* The sequences that list a finite set.
IsListing(s, D) ==
    /\ s \in Seq(D) /\ DOMAIN s = 1 .. Len(s) /\ Len(s) = Cardinality(D) /\ Len(s) \in Nat
    /\ IsInjective(s) /\ ToSet(s) = D

LEMMA Injections ==
    ASSUME NEW D, IsFiniteSet(D), NEW s \in [1 .. Cardinality(D) -> D], IsInjective(s)
    PROVE  IsListing(s, D)
<1> DEFINE n == Cardinality(D)
<1>1. n \in Nat BY FS_CardinalityType
<1> HIDE DEF n
<1>2. s \in [1 .. n -> D] BY DEF n
<1>3. s \in Injection(1 .. n, D) BY <1>2 DEF Injection
<1>4. IsFiniteSet(1 .. n) /\ Cardinality(1 .. n) = n BY <1>1, FS_Interval
<1>5. s \in Surjection(1 .. n, D) BY <1>3, <1>4, FS_Injection DEF n
<1>6. ToSet(s) = D BY <1>2, <1>5 DEF ToSet, Surjection
<1>7. s \in Seq(D) /\ DOMAIN s = 1 .. n /\ Len(s) = n BY <1>1, <1>2
<1> QED BY <1>1, <1>6, <1>7 DEF IsListing, n

LEMMA Listings ==
    ASSUME NEW D, IsFiniteSet(D)
    PROVE  /\ \A s \in SetToSeqs(D) : IsListing(s, D)
           /\ IsListing(SetToSeq(D), D)
<1>1. ASSUME NEW s \in SetToSeqs(D) PROVE IsListing(s, D)
  <2>1. s \in [1 .. Cardinality(D) -> D] /\ IsInjective(s)
    BY DEF SetToSeqs, IsInjective
  <2> QED BY <2>1, Injections
<1>2. \E f \in [1 .. Cardinality(D) -> D] : IsInjective(f)
  BY FS_CardinalityType DEF ExistsBijection, Bijection, Injection
<1>3. SetToSeq(D) \in [1 .. Cardinality(D) -> D] /\ IsInjective(SetToSeq(D))
  BY <1>2 DEF SetToSeq
<1>4. IsListing(SetToSeq(D), D) BY <1>3, Injections
<1> QED BY <1>1, <1>4

LEMMA SwappedFacts ==
    ASSUME NEW S, NEW s \in Seq(S), IsInjective(s),
           NEW i \in 1 .. Len(s), NEW j \in 1 .. Len(s)
    PROVE  LET t == Swapped(s, i, j) IN
           /\ t \in Seq(S) /\ Len(t) = Len(s) /\ IsInjective(t) /\ ToSet(t) = ToSet(s)
           /\ t[i] = s[j] /\ t[j] = s[i]
           /\ \A k \in 1 .. Len(s) : k # i /\ k # j => t[k] = s[k]
<1> DEFINE t == Swapped(s, i, j)
<1>1. s \in [1 .. Len(s) -> S] /\ Len(s) \in Nat OBVIOUS
<1>2. t \in [1 .. Len(s) -> S] /\ t[i] = s[j] /\ t[j] = s[i]
      /\ \A k \in 1 .. Len(s) : k # i /\ k # j => t[k] = s[k]
  BY <1>1 DEF Swapped
<1>3. DOMAIN t = 1 .. Len(s) /\ DOMAIN s = 1 .. Len(s) BY <1>1, <1>2
<1> HIDE DEF t
<1>4. t \in Seq(S) /\ Len(t) = Len(s) BY <1>1, <1>2
<1>5. IsInjective(t)
  <2> SUFFICES ASSUME NEW a \in 1 .. Len(s), NEW b \in 1 .. Len(s), t[a] = t[b] PROVE a = b
    BY <1>3 DEF IsInjective
  <2> DEFINE at(k) == IF k = i THEN j ELSE IF k = j THEN i ELSE k
  <2>1. \A k \in 1 .. Len(s) : at(k) \in 1 .. Len(s) /\ t[k] = s[at(k)] BY <1>2
  <2>2. at(a) = at(b) BY <1>3, <2>1 DEF IsInjective
  <2> QED BY <2>2
<1>6. ToSet(t) = ToSet(s)
  <2>1. ASSUME NEW x \in ToSet(t) PROVE x \in ToSet(s)
    BY <1>2, <1>3, <2>1 DEF ToSet
  <2>2. ASSUME NEW x \in ToSet(s) PROVE x \in ToSet(t)
    BY <1>2, <1>3, <2>2 DEF ToSet
  <2> QED BY <2>1, <2>2
<1> QED BY <1>2, <1>4, <1>5, <1>6 DEF t

\* The binary relation between a list of watches and a longer one.
Alike(v, w) == v.binary = w.binary /\ v.ref = w.ref /\ (v.binary => v.blocking = w.blocking)
Embeds(h, k) ==
    \E g \in [DOMAIN h -> DOMAIN k] :
        /\ \A i, j \in DOMAIN h : g[i] = g[j] => i = j
        /\ \A i \in DOMAIN h : Alike(h[i], k[g[i]])

LEMMA EmbedsSelf == ASSUME NEW h PROVE Embeds(h, h)
<1> DEFINE g == [i \in DOMAIN h |-> i]
<1>1. g \in [DOMAIN h -> DOMAIN h] /\ \A i \in DOMAIN h : g[i] = i OBVIOUS
<1> HIDE DEF g
<1> QED BY <1>1 DEF Embeds, Alike

LEMMA OnceEmbeds ==
    ASSUME NEW h, NEW k, Once(k), Embeds(h, k)
    PROVE  Once(h)
<1>1. PICK g \in [DOMAIN h -> DOMAIN k] :
        /\ \A i, j \in DOMAIN h : g[i] = g[j] => i = j
        /\ \A i \in DOMAIN h : Alike(h[i], k[g[i]])
  BY DEF Embeds
<1> SUFFICES ASSUME NEW i \in DOMAIN h, NEW j \in DOMAIN h,
                    ~ h[i].binary, Watches(h[j], h[i].ref)
             PROVE  i = j
  BY DEF Once
<1>2. g[i] \in DOMAIN k /\ g[j] \in DOMAIN k OBVIOUS
<1>3. ~ k[g[i]].binary /\ Watches(k[g[j]], k[g[i]].ref) BY <1>1 DEF Alike, Watches
<1> QED BY <1>1, <1>2, <1>3 DEF Once

LEMMA HandsLess ==
    ASSUME NEW G, NEW F, NEW H, HandsSound(G, F, H),
           NEW E, NEW K, \A l \in Lit : Embeds(K[l], H[l]),
           \A r \in DOMAIN F : r \in DOMAIN E /\ E[r] = F[r]
    PROVE  HandsSound(G, E, K)
<1> SUFFICES ASSUME NEW l \in Lit
             PROVE  Once(K[l]) /\ \A i \in DOMAIN K[l] : WatchOK(G, E, l, K[l][i])
  BY DEF HandsSound
<1>1. Once(H[l]) /\ \A i \in DOMAIN H[l] : WatchOK(G, F, l, H[l][i]) BY DEF HandsSound
<1>2. Once(K[l]) BY <1>1, OnceEmbeds
<1>3. ASSUME NEW i \in DOMAIN K[l] PROVE WatchOK(G, E, l, K[l][i])
  <2>1. PICK j \in DOMAIN H[l] : Alike(K[l][i], H[l][j]) BY DEF Embeds
  <2>2. WatchOK(G, F, l, H[l][j]) BY <1>1
  <2> QED BY <2>1, <2>2 DEF WatchOK, Alike
<1> QED BY <1>2, <1>3

\* One more watch, at the end.
LEMMA HandsMore ==
    ASSUME NEW G, NEW F, NEW H, HandsSound(G, F, H),
           NEW K, \A l \in Lit : H[l] \in Seq(WatchType),
           \A l \in Lit :
               K[l] # H[l] =>
                   \E w \in WatchType : /\ K[l] = Append(H[l], w)
                                        /\ WatchOK(G, F, l, w)
                                        /\ w.binary \/ \A i \in DOMAIN H[l] : ~ Watches(H[l][i], w.ref)
    PROVE  HandsSound(G, F, K)
<1> SUFFICES ASSUME NEW l \in Lit, K[l] # H[l]
             PROVE  Once(K[l]) /\ \A i \in DOMAIN K[l] : WatchOK(G, F, l, K[l][i])
  BY DEF HandsSound
<1> DEFINE h == H[l]
           n == Len(h)
<1>1. PICK w \in WatchType : /\ K[l] = Append(h, w)
                             /\ WatchOK(G, F, l, w)
                             /\ w.binary \/ \A i \in DOMAIN h : ~ Watches(h[i], w.ref)
  OBVIOUS
<1>2. Once(h) /\ \A i \in DOMAIN h : WatchOK(G, F, l, h[i]) BY DEF HandsSound
<1>3. h \in Seq(WatchType) /\ n \in Nat /\ DOMAIN h = 1 .. n OBVIOUS
<1>4. DOMAIN K[l] = 1 .. n + 1 /\ K[l][n + 1] = w /\ \A i \in 1 .. n : K[l][i] = h[i]
  BY <1>1, <1>3, AppendProperties
<1> HIDE DEF h, n
<1>5. \A i \in DOMAIN K[l] : WatchOK(G, F, l, K[l][i])
  <2> SUFFICES ASSUME NEW i \in 1 .. n + 1 PROVE WatchOK(G, F, l, K[l][i]) BY <1>4
  <2>1. i \in 1 .. n \/ i = n + 1 BY <1>3
  <2> QED BY <1>1, <1>2, <1>3, <1>4, <2>1
<1>6. Once(K[l])
  <2> SUFFICES ASSUME NEW i \in 1 .. n + 1, NEW j \in 1 .. n + 1,
                      ~ K[l][i].binary, Watches(K[l][j], K[l][i].ref)
               PROVE  i = j
    BY <1>4 DEF Once
  <2>1. i \in 1 .. n \/ i = n + 1 BY <1>3
  <2>2. j \in 1 .. n \/ j = n + 1 BY <1>3
  <2>3. CASE i \in 1 .. n /\ j \in 1 .. n BY <1>2, <1>3, <1>4, <2>3 DEF Once
  <2>4. CASE i \in 1 .. n /\ j = n + 1 BY <1>1, <1>3, <1>4, <2>4 DEF Watches
  <2>5. CASE i = n + 1 /\ j \in 1 .. n BY <1>1, <1>3, <1>4, <2>5 DEF Watches
  <2> QED BY <2>1, <2>2, <2>3, <2>4, <2>5
<1> QED BY <1>5, <1>6

\* The first two literals of a clause may change when it is not watched in
\* one that leaves.
LEMMA HandsMoved ==
    ASSUME NEW G, NEW F, NEW H, HandsSound(G, F, H),
           NEW E, NEW ref, \A r \in DOMAIN F : r \in DOMAIN E /\ (r # ref => E[r] = F[r]),
           \A l \in Lit : \A i \in DOMAIN H[l] : Watches(H[l][i], ref) => l \in E[ref]
    PROVE  HandsSound(G, E, H)
BY DEF HandsSound, WatchOK, Watches

\* Three lists in a row.
LEMMA ThreeLists ==
    ASSUME NEW S, NEW s \in Seq(S), NEW t \in Seq(S), NEW u \in Seq(S)
    PROVE  /\ s \o t \o u \in Seq(S)
           /\ Len(s \o t \o u) = (Len(s) + Len(t)) + Len(u)
           /\ Len(s) \in Nat /\ Len(t) \in Nat /\ Len(u) \in Nat
           /\ \A i \in 1 .. (Len(s) + Len(t)) + Len(u) : (s \o t \o u)[i] =
                  IF i <= Len(s) THEN s[i]
                  ELSE IF i <= Len(s) + Len(t) THEN t[i - Len(s)]
                  ELSE u[i - (Len(s) + Len(t))]
<1>1. /\ s \o t \in Seq(S) /\ Len(s \o t) = Len(s) + Len(t)
      /\ \A i \in 1 .. Len(s) + Len(t) :
             (s \o t)[i] = IF i <= Len(s) THEN s[i] ELSE t[i - Len(s)]
  BY ConcatProperties
<1>2. Len(s) \in Nat /\ Len(t) \in Nat /\ Len(u) \in Nat OBVIOUS
<1> DEFINE st == s \o t
           m == Len(s) + Len(t)
<1>3. /\ st \o u \in Seq(S) /\ Len(st \o u) = m + Len(u)
      /\ \A i \in 1 .. m + Len(u) :
             (st \o u)[i] = IF i <= m THEN st[i] ELSE u[i - m]
  <2>1. st \in Seq(S) /\ Len(st) = m BY <1>1
  <2> HIDE DEF st, m
  <2>2. u \in Seq(S) OBVIOUS
  <2>3. \A a, b \in Seq(S) :
           /\ a \o b \in Seq(S) /\ Len(a \o b) = Len(a) + Len(b)
           /\ \A i \in 1 .. Len(a) + Len(b) :
                  (a \o b)[i] = IF i <= Len(a) THEN a[i] ELSE b[i - Len(a)]
    BY ConcatProperties
  <2> QED BY <2>1, <2>2, <2>3
<1>4. ASSUME NEW i \in 1 .. m + Len(u)
      PROVE  (st \o u)[i] = IF i <= Len(s) THEN s[i]
                            ELSE IF i <= m THEN t[i - Len(s)]
                            ELSE u[i - m]
  <2>1. CASE i <= m
    <3>1. i \in 1 .. Len(s) + Len(t) BY <1>2, <2>1
    <3>2. (st \o u)[i] = st[i] BY <1>3, <2>1
    <3> QED BY <1>1, <1>2, <2>1, <3>1, <3>2
  <2>2. CASE ~ (i <= m)
    <3>1. (st \o u)[i] = u[i - m] BY <1>3, <2>2
    <3>2. ~ (i <= Len(s)) BY <1>2, <2>2
    <3> QED BY <2>2, <3>1, <3>2
  <2> QED BY <2>1, <2>2
<1> QED BY <1>2, <1>3, <1>4

\* The list h is k without its element p.
Drops(h, k, p) ==
    /\ DOMAIN k = 1 .. Len(k) /\ Len(k) \in Nat /\ p \in 1 .. Len(k)
    /\ DOMAIN h = 1 .. Len(k) - 1
    /\ \A i \in 1 .. Len(k) - 1 : h[i] = IF i < p THEN k[i] ELSE k[i + 1]

LEMMA DropsEmbeds ==
    ASSUME NEW h, NEW k, NEW p, Drops(h, k, p)
    PROVE  Embeds(h, k)
<1> DEFINE g == [i \in DOMAIN h |-> IF i < p THEN i ELSE i + 1]
<1>1. g \in [DOMAIN h -> DOMAIN k] BY DEF Drops
<1>2. \A i, j \in DOMAIN h : g[i] = g[j] => i = j BY DEF Drops
<1>3. \A i \in DOMAIN h : h[i] = k[g[i]] BY DEF Drops
<1> HIDE DEF g
<1> QED BY <1>1, <1>2, <1>3 DEF Embeds, Alike

LEMMA DropsOnly ==
    ASSUME NEW h, NEW k, NEW p, Drops(h, k, p), Once(k), ~ k[p].binary
    PROVE  \A i \in DOMAIN h : ~ Watches(h[i], k[p].ref)
<1> SUFFICES ASSUME NEW i \in DOMAIN h, Watches(h[i], k[p].ref) PROVE FALSE
  OBVIOUS
<1>1. PICK j \in DOMAIN k : j # p /\ h[i] = k[j] BY DEF Drops
<1>2. p \in DOMAIN k BY DEF Drops
<1> QED BY <1>1, <1>2 DEF Once

LEMMA RemoveAtDrops ==
    ASSUME NEW S, NEW k \in Seq(S), NEW p \in 1 .. Len(k)
    PROVE  RemoveAt(k, p) \in Seq(S) /\ Drops(RemoveAt(k, p), k, p)
<1> DEFINE s == SubSeq(k, 1, p - 1)
           t == SubSeq(k, p + 1, Len(k))
           n == Len(k)
<1>1. n \in Nat /\ p \in Nat /\ DOMAIN k = 1 .. n /\ p <= n /\ 1 <= p /\ k \in [1 .. n -> S]
  OBVIOUS
<1>2. /\ s \in Seq(S) /\ Len(s) = p - 1
      /\ \A i \in 1 .. p - 1 : s[i] = k[i]
  BY <1>1, SubSeqProperties
<1>3. /\ t \in Seq(S) /\ Len(t) = n - p
      /\ \A i \in 1 .. n - p : t[i] = k[i + p]
  <2>1. \A i \in p + 1 .. n : k[i] \in S BY <1>1
  <2>2. p + 1 \in Int /\ n \in Int BY <1>1
  <2>3. /\ t \in Seq(S) /\ Len(t) = IF p + 1 <= n THEN n - (p + 1) + 1 ELSE 0
        /\ \A i \in 1 .. n - (p + 1) + 1 : t[i] = k[p + 1 + i - 1]
    <3> HIDE DEF n
    <3>1. /\ SubSeq(k, p + 1, n) \in Seq(S)
          /\ Len(SubSeq(k, p + 1, n)) = IF p + 1 <= n THEN n - (p + 1) + 1 ELSE 0
          /\ \A i \in 1 .. n - (p + 1) + 1 : SubSeq(k, p + 1, n)[i] = k[p + 1 + i - 1]
      BY <2>1, <2>2, SubSeqProperties
    <3> QED BY <3>1 DEF n
  <2> HIDE DEF t, n
  <2>4. (n - (p + 1)) + 1 = n - p BY <1>1
  <2>5. \A i \in 1 .. n - p : (p + 1 + i) - 1 = i + p BY <1>1
  <2> QED BY <1>1, <2>3, <2>4, <2>5
<1>4. RemoveAt(k, p) = s \o t BY DEF RemoveAt
<1> HIDE DEF s, t
<1>5. /\ s \o t \in Seq(S) /\ Len(s \o t) = n - 1
      /\ \A i \in 1 .. n - 1 : (s \o t)[i] = IF i < p THEN k[i] ELSE k[i + 1]
  <2> HIDE DEF n
  <2>1. /\ s \o t \in Seq(S) /\ Len(s \o t) = Len(s) + Len(t)
        /\ \A i \in 1 .. Len(s) + Len(t) :
               (s \o t)[i] = IF i <= Len(s) THEN s[i] ELSE t[i - Len(s)]
    BY <1>2, <1>3, ConcatProperties
  <2>2. Len(s) + Len(t) = n - 1 BY <1>1, <1>2, <1>3
  <2>3. ASSUME NEW i \in 1 .. n - 1
        PROVE  (s \o t)[i] = IF i < p THEN k[i] ELSE k[i + 1]
    <3>1. CASE i < p
      <4>1. i \in 1 .. p - 1 /\ i <= Len(s) BY <1>1, <1>2, <3>1
      <4> QED BY <1>2, <2>1, <2>2, <3>1, <4>1
    <3>2. CASE ~ (i < p)
      <4>1. i - Len(s) \in 1 .. n - p /\ ~ (i <= Len(s)) /\ (i - Len(s)) + p = i + 1
        BY <1>1, <1>2, <3>2
      <4>2. (s \o t)[i] = t[i - Len(s)] BY <2>1, <2>2, <4>1
      <4>3. t[i - Len(s)] = k[(i - Len(s)) + p] BY <1>3, <4>1
      <4> QED BY <3>2, <4>1, <4>2, <4>3
    <3> QED BY <3>1, <3>2
  <2> QED BY <2>1, <2>2, <2>3
<1>6. DOMAIN (s \o t) = 1 .. n - 1 BY <1>5
<1> QED BY <1>1, <1>4, <1>5, <1>6 DEF Drops

\* One watch leaves a list of watches.
LEMMA HandsUnwatched ==
    ASSUME NEW G, NEW F, NEW H, HandsSound(G, F, H), NEW lit \in Lit, NEW ref,
           DOMAIN H = Lit, \A l \in Lit : H[l] \in Seq(WatchType),
           NEW K, K = Unwatched(H, lit, ref)
    PROVE  /\ HandsSound(G, F, K)
           /\ DOMAIN K = Lit /\ \A l \in Lit : K[l] \in Seq(WatchType)
           /\ \A i \in DOMAIN K[lit] : ~ Watches(K[lit][i], ref)
           /\ \A l \in Lit : l # lit => K[l] = H[l]
<1> DEFINE h == H[lit]
           found == {i \in DOMAIN h : Watches(h[i], ref)}
<1>1. K = [H EXCEPT ![lit] = IF found = {} THEN @ ELSE RemoveAt(@, Min(found))]
  BY DEF Unwatched
<1>2. /\ DOMAIN K = Lit /\ \A l \in Lit : l # lit => K[l] = H[l]
      /\ K[lit] = IF found = {} THEN h ELSE RemoveAt(h, Min(found))
  BY <1>1
<1>3. h \in Seq(WatchType) /\ Once(h) /\ DOMAIN h = 1 .. Len(h) /\ Len(h) \in Nat
  BY DEF HandsSound
<1> HIDE DEF h
<1>4. /\ K[lit] \in Seq(WatchType) /\ Embeds(K[lit], h)
      /\ \A i \in DOMAIN K[lit] : ~ Watches(K[lit][i], ref)
  <2>1. CASE found = {} BY <1>2, <1>3, <2>1, EmbedsSelf
  <2>2. CASE found # {}
    <3> DEFINE p == Min(found)
    <3>1. p \in found
      <4>1. found \in SUBSET Nat BY <1>3
      <4> HIDE DEF found
      <4> QED BY <2>2, <4>1, MinFacts
    <3> HIDE DEF p
    <3>2. p \in 1 .. Len(h) /\ ~ h[p].binary /\ h[p].ref = ref
      BY <1>3, <3>1 DEF Watches
    <3>3. K[lit] = RemoveAt(h, p) BY <1>2, <2>2 DEF p
    <3>4. K[lit] \in Seq(WatchType) /\ Drops(K[lit], h, p) BY <1>3, <3>2, <3>3, RemoveAtDrops
    <3> HIDE DEF found
    <3>5. Embeds(K[lit], h) BY <3>4, DropsEmbeds
    <3>6. \A i \in DOMAIN K[lit] : ~ Watches(K[lit][i], h[p].ref)
      BY <1>3, <3>2, <3>4, DropsOnly
    <3> QED BY <3>2, <3>4, <3>5, <3>6
  <2> QED BY <2>1, <2>2
<1>5. HandsSound(G, F, K)
  <2>1. \A l \in Lit : Embeds(K[l], H[l]) BY <1>2, <1>4, EmbedsSelf DEF h
  <2> QED BY <2>1, HandsLess
<1> QED BY <1>2, <1>4, <1>5

\* The hands of a loop over a watch list, as it goes on.
LEMMA HandsTyped ==
    ASSUME NEW ws \in Lists, NEW v \in VisitType
    PROVE  /\ HandsOf(ws, v) \in Lists
           /\ \A l \in Lit : /\ ws[l] \in Seq(WatchType) /\ v.delayed[l] \in Seq(WatchType)
                             /\ RestOf(v, l) \in Seq(WatchType)
                             /\ HandsOf(ws, v)[l] =
                                  ws[l] \o RestOf(v, l) \o v.delayed[l]
<1>1. ASSUME NEW l \in Lit
      PROVE  /\ ws[l] \in Seq(WatchType) /\ v.delayed[l] \in Seq(WatchType)
             /\ RestOf(v, l) \in Seq(WatchType)
             /\ ws[l] \o RestOf(v, l) \o v.delayed[l] \in Seq(WatchType)
  <2>1. ws[l] \in Seq(WatchType) BY DEF Lists
  <2>2. v.delayed[l] \in Seq(WatchType) BY DEF Lists, VisitType
  <2>3. RestOf(v, l) \in Seq(WatchType) BY DEF VisitType, RestOf
  <2> QED BY <2>1, <2>2, <2>3, ThreeLists
<1>2. HandsOf(ws, v) \in Lists BY <1>1 DEF HandsOf, Lists
<1>3. \A l \in Lit : HandsOf(ws, v)[l] =
                       ws[l] \o RestOf(v, l) \o v.delayed[l]
  BY DEF HandsOf
<1> QED BY <1>1, <1>2, <1>3

LEMMA NoVisitTyped ==
    /\ NoVisit \in VisitType /\ NoVisit.lit = 0 /\ NoVisit.rest = <<>>
    /\ \A l \in Lit : NoVisit.delayed[l] = <<>> /\ RestOf(NoVisit, l) = <<>>
<1>1. NoDelayed \in Lists BY DEF NoDelayed, Lists
<1>2. <<>> \in Seq(WatchType) OBVIOUS
<1> QED BY <1>1, <1>2 DEF NoVisit, VisitType, NoDelayed, RestOf

LEMMA HandsIdle ==
    ASSUME NEW ws \in Lists
    PROVE  HandsOf(ws, NoVisit) = ws
<1>1. ASSUME NEW l \in Lit PROVE HandsOf(ws, NoVisit)[l] = ws[l]
  <2>1. HandsOf(ws, NoVisit)[l] = ws[l] \o <<>> \o <<>>
    BY NoVisitTyped, HandsTyped
  <2>2. ws[l] \in Seq(WatchType) BY DEF Lists
  <2> QED BY <2>1, <2>2, ConcatEmptySeq
<1>2. HandsOf(ws, NoVisit) \in [Lit -> Seq(WatchType)] /\ ws \in [Lit -> Seq(WatchType)]
  BY HandsTyped, NoVisitTyped DEF Lists
<1> QED BY <1>1, <1>2

LEMMA HandsStart ==
    ASSUME NEW ws \in Lists, NEW lit \in Lit, -lit \in Lit
    PROVE  LET xs == [ws EXCEPT ![-lit] = <<>>]
               v == [lit |-> lit, rest |-> ws[-lit], delayed |-> NoDelayed]
           IN xs \in Lists /\ v \in VisitType /\ HandsOf(xs, v) = ws
<1> DEFINE xs == [ws EXCEPT ![-lit] = <<>>]
           v == [lit |-> lit, rest |-> ws[-lit], delayed |-> NoDelayed]
<1>1. xs \in Lists BY DEF Lists
<1>2. v \in VisitType
  <2>1. NoDelayed \in Lists BY DEF NoDelayed, Lists
  <2>2. ws[-lit] \in Seq(WatchType) BY DEF Lists
  <2> QED BY <2>1, <2>2 DEF VisitType
<1>3. /\ v.lit = lit /\ v.rest = ws[-lit] /\ \A l \in Lit : v.delayed[l] = <<>>
      /\ xs[-lit] = <<>> /\ \A l \in Lit : l # -lit => xs[l] = ws[l]
  BY DEF Lists, NoDelayed
<1> HIDE DEF xs, v
<1>4. ASSUME NEW l \in Lit PROVE HandsOf(xs, v)[l] = ws[l]
  <2>1. HandsOf(xs, v)[l] = xs[l] \o RestOf(v, l) \o v.delayed[l]
    BY <1>1, <1>2, HandsTyped
  <2>2. ws[l] \in Seq(WatchType) /\ RestOf(v, l) = IF l = -lit THEN ws[l] ELSE <<>>
    BY <1>3 DEF Lists, RestOf
  <2>3. CASE l = -lit
    <3>1. HandsOf(xs, v)[l] = <<>> \o ws[l] \o <<>> BY <1>3, <2>1, <2>2, <2>3
    <3> QED BY <2>2, <3>1, ConcatEmptySeq
  <2>4. CASE l # -lit
    <3>1. HandsOf(xs, v)[l] = ws[l] \o <<>> \o <<>> BY <1>3, <2>1, <2>2, <2>4
    <3> QED BY <2>2, <3>1, ConcatEmptySeq
  <2> QED BY <2>3, <2>4
<1>5. HandsOf(xs, v) \in [Lit -> Seq(WatchType)] /\ ws \in [Lit -> Seq(WatchType)]
  BY <1>1, <1>2, HandsTyped DEF Lists
<1>6. HandsOf(xs, v) = ws BY <1>4, <1>5
<1> QED BY <1>1, <1>2, <1>6 DEF xs, v

LEMMA HandsKeep ==
    ASSUME NEW ws \in Lists, NEW v \in VisitType, v.lit \in Lit, -v.lit \in Lit, v.rest # <<>>,
           NEW w \in WatchType, Alike(w, Head(v.rest))
    PROVE  LET xs == [ws EXCEPT ![-v.lit] = Append(@, w)]
               u == [v EXCEPT !.rest = Tail(@)]
           IN /\ xs \in Lists /\ u \in VisitType
              /\ \A l \in Lit : Embeds(HandsOf(xs, u)[l], HandsOf(ws, v)[l])
<1> DEFINE xs == [ws EXCEPT ![-v.lit] = Append(@, w)]
           u == [v EXCEPT !.rest = Tail(@)]
           k == -v.lit
           s == ws[k]
           t == v.rest
           d == v.delayed[k]
<1>1. s \in Seq(WatchType) /\ t \in Seq(WatchType) /\ d \in Seq(WatchType)
  BY DEF Lists, VisitType
<1>2. Append(s, w) \in Seq(WatchType) /\ Tail(t) \in Seq(WatchType)
  BY <1>1, AppendProperties, HeadTailProperties
<1>3. xs \in Lists /\ u \in VisitType
  BY <1>2 DEF Lists, VisitType
<1>4. /\ u.lit = v.lit /\ u.rest = Tail(t) /\ u.delayed = v.delayed
      /\ xs[k] = Append(s, w) /\ \A l \in Lit : l # k => xs[l] = ws[l]
  BY DEF Lists, VisitType
<1> HIDE DEF xs, u
<1>5. ASSUME NEW l \in Lit PROVE Embeds(HandsOf(xs, u)[l], HandsOf(ws, v)[l])
  <2>1. HandsOf(xs, u)[l] = xs[l] \o RestOf(u, l) \o v.delayed[l]
    <3>1. HandsOf(xs, u)[l] = xs[l] \o RestOf(u, l) \o u.delayed[l] BY <1>3, HandsTyped
    <3> QED BY <1>4, <3>1
  <2>2. HandsOf(ws, v)[l] = ws[l] \o RestOf(v, l) \o v.delayed[l]
    BY HandsTyped
  <2>5. /\ RestOf(u, l) = IF l = k THEN Tail(t) ELSE <<>>
        /\ RestOf(v, l) = IF l = k THEN t ELSE <<>>
    BY <1>4 DEF RestOf
  <2>3. CASE l # k BY <1>4, <2>1, <2>2, <2>3, <2>5, EmbedsSelf
  <2>4. CASE l = k
    <3> DEFINE a == Append(s, w) \o Tail(t) \o d
               b == s \o t \o d
    <3>1. HandsOf(xs, u)[l] = a /\ HandsOf(ws, v)[l] = b BY <1>4, <2>1, <2>2, <2>4, <2>5
    <3> HIDE DEF k, s, t, d
    <3>2. /\ b \in Seq(WatchType) /\ Len(b) = (Len(s) + Len(t)) + Len(d)
          /\ Len(s) \in Nat /\ Len(t) \in Nat /\ Len(d) \in Nat
          /\ \A i \in 1 .. (Len(s) + Len(t)) + Len(d) : b[i] =
                IF i <= Len(s) THEN s[i]
                ELSE IF i <= Len(s) + Len(t) THEN t[i - Len(s)]
                ELSE d[i - (Len(s) + Len(t))]
      BY <1>1, ThreeLists
    <3>3. t # <<>> /\ Len(Append(s, w)) = Len(s) + 1 /\ Len(Tail(t)) = Len(t) - 1 /\ Len(t) > 0
      BY <1>1 DEF t
    <3>4. /\ a \in Seq(WatchType)
          /\ Len(a) = (Len(Append(s, w)) + Len(Tail(t))) + Len(d)
          /\ \A i \in 1 .. (Len(Append(s, w)) + Len(Tail(t))) + Len(d) : a[i] =
                IF i <= Len(Append(s, w)) THEN Append(s, w)[i]
                ELSE IF i <= Len(Append(s, w)) + Len(Tail(t))
                     THEN Tail(t)[i - Len(Append(s, w))]
                ELSE d[i - (Len(Append(s, w)) + Len(Tail(t)))]
      BY <1>1, <1>2, ThreeLists
    <3>5. Len(Append(s, w)) + Len(Tail(t)) = Len(s) + Len(t) BY <3>2, <3>3
    <3> HIDE DEF a, b
    <3>10. Len(a) = Len(b) BY <3>2, <3>4, <3>5
    <3>6. DOMAIN a = 1 .. Len(b) /\ DOMAIN b = 1 .. Len(b)
      <4>1. DOMAIN a = 1 .. Len(a) BY <3>4, LenProperties
      <4>2. DOMAIN b = 1 .. Len(b) BY <3>2, LenProperties
      <4> QED BY <3>10, <4>1, <4>2
    <3>7. ASSUME NEW i \in 1 .. Len(b) PROVE Alike(a[i], b[i])
      <4>1. CASE i <= Len(s)
        <5>1. i \in 1 .. Len(s) BY <3>2, <4>1
        <5>2. a[i] = Append(s, w)[i] /\ b[i] = s[i] BY <3>2, <3>3, <3>4, <3>5, <4>1
        <5>3. Append(s, w)[i] = s[i] BY <1>1, <5>1, AppendProperties
        <5> QED BY <5>2, <5>3 DEF Alike
      <4>2. CASE i = Len(s) + 1
        <5>3. ~ (i <= Len(s)) /\ i <= Len(s) + Len(t) /\ i - Len(s) = 1
          BY <3>2, <3>3, <4>2
        <5>4. b[i] = t[1] BY <3>2, <5>3
        <5>1. a[i] = Append(s, w)[i] /\ b[i] = t[1]
          BY <3>2, <3>3, <3>4, <3>5, <4>2, <5>4
        <5>2. Append(s, w)[i] = w /\ t[1] = Head(t) BY <1>1, <3>3, <4>2, AppendProperties
        <5> QED BY <5>1, <5>2 DEF t
      <4>3. CASE i > Len(s) + 1
        <5>1. CASE i <= Len(s) + Len(t)
          <6>5. ~ (i <= Len(s)) BY <3>2, <4>3
          <6>1. b[i] = t[i - Len(s)] BY <3>2, <5>1, <6>5
          <6>2. a[i] = Tail(t)[i - Len(Append(s, w))] BY <3>2, <3>3, <3>4, <3>5, <4>3, <5>1
          <6>3. i - Len(Append(s, w)) \in 1 .. Len(Tail(t))
                /\ (i - Len(Append(s, w))) + 1 = i - Len(s)
            BY <3>2, <3>3, <4>3, <5>1
          <6>4. Tail(t)[i - Len(Append(s, w))] = t[(i - Len(Append(s, w))) + 1]
            BY <1>1, <3>3, <6>3, HeadTailProperties
          <6> QED BY <6>1, <6>2, <6>3, <6>4 DEF Alike
        <5>2. CASE ~ (i <= Len(s) + Len(t))
          <6>1. b[i] = d[i - (Len(s) + Len(t))] BY <3>2, <4>3, <5>2
          <6>2. a[i] = d[i - (Len(s) + Len(t))] BY <3>2, <3>3, <3>4, <3>5, <4>3, <5>2
          <6> QED BY <6>1, <6>2 DEF Alike
        <5> QED BY <5>1, <5>2
      <4> QED BY <3>2, <4>1, <4>2, <4>3
    <3> DEFINE g == [i \in DOMAIN a |-> i]
    <3>8. g \in [DOMAIN a -> DOMAIN b] /\ \A i \in DOMAIN a : g[i] = i BY <3>6
    <3> HIDE DEF g
    <3>9. Embeds(a, b) BY <3>6, <3>7, <3>8 DEF Embeds
    <3> QED BY <3>1, <3>9
  <2> QED BY <2>3, <2>4
<1> QED BY <1>3, <1>5 DEF xs, u

LEMMA HandsSkip ==
    ASSUME NEW ws \in Lists, NEW v \in VisitType, v.lit \in Lit, -v.lit \in Lit, v.rest # <<>>
    PROVE  LET u == [v EXCEPT !.rest = Tail(@)]
               k == -v.lit
               p == Len(ws[k]) + 1
           IN /\ u \in VisitType
              /\ \A l \in Lit : l # k => HandsOf(ws, u)[l] = HandsOf(ws, v)[l]
              /\ Drops(HandsOf(ws, u)[k], HandsOf(ws, v)[k], p)
              /\ HandsOf(ws, v)[k][p] = Head(v.rest)
<1> DEFINE u == [v EXCEPT !.rest = Tail(@)]
           k == -v.lit
           s == ws[k]
           t == v.rest
           d == v.delayed[k]
           p == Len(s) + 1
<1>1. s \in Seq(WatchType) /\ t \in Seq(WatchType) /\ d \in Seq(WatchType) /\ t # <<>>
  BY DEF Lists, VisitType
<1>2. /\ Tail(t) \in Seq(WatchType) /\ Len(Tail(t)) = Len(t) - 1
      /\ \A i \in 1 .. Len(Tail(t)) : Tail(t)[i] = t[i + 1]
  BY <1>1, HeadTailProperties
<1>3. u \in VisitType /\ u.lit = v.lit /\ u.rest = Tail(t) /\ u.delayed = v.delayed
  BY <1>2 DEF VisitType
<1> HIDE DEF u
<1>4. \A l \in Lit : /\ HandsOf(ws, u)[l] = ws[l] \o RestOf(u, l) \o u.delayed[l]
                     /\ HandsOf(ws, v)[l] = ws[l] \o RestOf(v, l) \o v.delayed[l]
  BY <1>3, HandsTyped
<1>5. \A l \in Lit : /\ RestOf(u, l) = IF l = k THEN Tail(t) ELSE <<>>
                     /\ RestOf(v, l) = IF l = k THEN t ELSE <<>>
  BY <1>3 DEF RestOf
<1>6. \A l \in Lit : l # k => HandsOf(ws, u)[l] = HandsOf(ws, v)[l]
  BY <1>3, <1>4, <1>5
<1> DEFINE a == s \o Tail(t) \o d
           b == s \o t \o d
<1>7. HandsOf(ws, u)[k] = a /\ HandsOf(ws, v)[k] = b BY <1>3, <1>4, <1>5
<1> HIDE DEF k, s, t, d
<1>8. /\ b \in Seq(WatchType) /\ Len(b) = (Len(s) + Len(t)) + Len(d)
      /\ Len(s) \in Nat /\ Len(t) \in Nat /\ Len(d) \in Nat
      /\ \A i \in 1 .. (Len(s) + Len(t)) + Len(d) : b[i] =
            IF i <= Len(s) THEN s[i]
            ELSE IF i <= Len(s) + Len(t) THEN t[i - Len(s)]
            ELSE d[i - (Len(s) + Len(t))]
  BY <1>1, ThreeLists
<1>9. /\ a \in Seq(WatchType) /\ Len(a) = (Len(s) + Len(Tail(t))) + Len(d)
      /\ \A i \in 1 .. (Len(s) + Len(Tail(t))) + Len(d) : a[i] =
            IF i <= Len(s) THEN s[i]
            ELSE IF i <= Len(s) + Len(Tail(t)) THEN Tail(t)[i - Len(s)]
            ELSE d[i - (Len(s) + Len(Tail(t)))]
  BY <1>1, <1>2, ThreeLists
<1> HIDE DEF a, b
<1>10. DOMAIN a = 1 .. Len(a) /\ DOMAIN b = 1 .. Len(b)
  BY <1>8, <1>9, LenProperties
<1>11. Len(t) > 0 /\ t[1] = Head(t) BY <1>1
<1>12. Len(a) = Len(b) - 1 /\ Len(b) \in Nat /\ p \in 1 .. Len(b) BY <1>2, <1>8, <1>9, <1>11
<1>13. b[p] = Head(t)
  <2>1. p \in 1 .. Len(b) /\ ~ (p <= Len(s)) /\ p <= Len(s) + Len(t) /\ p - Len(s) = 1
    BY <1>8, <1>11, <1>12
  <2> HIDE DEF p
  <2>2. b[p] = t[p - Len(s)] BY <1>8, <2>1
  <2> QED BY <1>11, <2>1, <2>2
<1>14. ASSUME NEW i \in 1 .. Len(b) - 1 PROVE a[i] = IF i < p THEN b[i] ELSE b[i + 1]
  <2>1. i \in Nat /\ i \in 1 .. Len(b) /\ i + 1 \in 1 .. Len(b) BY <1>8
  <2>2. CASE i <= Len(s)
    <3>1. a[i] = s[i] /\ b[i] = s[i] BY <1>8, <1>9, <1>12, <2>1, <2>2
    <3> QED BY <2>2, <3>1, <1>8
  <2>3. CASE ~ (i <= Len(s)) /\ i < Len(s) + Len(t)
    <3>1. i <= Len(s) + Len(Tail(t)) /\ ~ (i + 1 <= Len(s)) /\ i + 1 <= Len(s) + Len(t)
          /\ i - Len(s) \in 1 .. Len(Tail(t)) /\ (i - Len(s)) + 1 = (i + 1) - Len(s)
      BY <1>2, <1>8, <2>1, <2>3
    <3>2. a[i] = Tail(t)[i - Len(s)] BY <1>9, <1>12, <2>3, <3>1
    <3>3. b[i + 1] = t[(i + 1) - Len(s)] BY <1>8, <2>1, <3>1
    <3>4. Tail(t)[i - Len(s)] = t[(i - Len(s)) + 1] BY <1>2, <3>1
    <3>5. ~ (i < p) BY <1>8, <2>1, <2>3
    <3> QED BY <3>1, <3>2, <3>3, <3>4, <3>5
  <2>4. CASE ~ (i <= Len(s)) /\ ~ (i < Len(s) + Len(t))
    <3>1. /\ ~ (i <= Len(s) + Len(Tail(t))) /\ ~ (i + 1 <= Len(s)) /\ ~ (i + 1 <= Len(s) + Len(t))
          /\ i - (Len(s) + Len(Tail(t))) = (i + 1) - (Len(s) + Len(t))
      BY <1>2, <1>8, <1>11, <2>1, <2>4
    <3>2. a[i] = d[i - (Len(s) + Len(Tail(t)))] BY <1>9, <1>12, <2>4, <3>1
    <3>3. b[i + 1] = d[(i + 1) - (Len(s) + Len(t))] BY <1>8, <2>1, <3>1
    <3>5. ~ (i < p) BY <1>8, <2>1, <2>4
    <3> QED BY <3>1, <3>2, <3>3, <3>5
  <2> QED BY <2>2, <2>3, <2>4
<1> HIDE DEF p
<1>15. Drops(a, b, p) BY <1>10, <1>12, <1>14 DEF Drops
<1> QED BY <1>3, <1>6, <1>7, <1>13, <1>15 DEF u, k, s, t, d, p

LEMMA HandsDelay ==
    ASSUME NEW ws \in Lists, NEW v \in VisitType, NEW m \in Lit, NEW w \in WatchType
    PROVE  LET u == [v EXCEPT !.delayed[m] = Append(@, w)] IN
           /\ u \in VisitType
           /\ \A l \in Lit : l # m => HandsOf(ws, u)[l] = HandsOf(ws, v)[l]
           /\ HandsOf(ws, u)[m] = Append(HandsOf(ws, v)[m], w)
<1> DEFINE u == [v EXCEPT !.delayed[m] = Append(@, w)]
           d == v.delayed[m]
           e == [v.delayed EXCEPT ![m] = Append(d, w)]
<1>1. v.delayed \in Lists /\ d \in Seq(WatchType) BY DEF VisitType, Lists
<1>2. Append(d, w) \in Seq(WatchType) BY <1>1, AppendProperties
<1>3. e \in Lists /\ e[m] = Append(d, w) /\ \A l \in Lit : l # m => e[l] = v.delayed[l]
  BY <1>1, <1>2 DEF Lists
<1>4. u.lit = v.lit /\ u.rest = v.rest /\ u.delayed = e /\ u \in VisitType
  BY <1>1, <1>3 DEF VisitType
<1> HIDE DEF u, e
<1>5. \A l \in Lit : /\ HandsOf(ws, u)[l] = ws[l] \o RestOf(u, l) \o u.delayed[l]
                     /\ HandsOf(ws, v)[l] = ws[l] \o RestOf(v, l) \o v.delayed[l]
                     /\ ws[l] \in Seq(WatchType) /\ RestOf(v, l) \in Seq(WatchType)
  BY <1>4, HandsTyped
<1>6. \A l \in Lit : RestOf(u, l) = RestOf(v, l) BY <1>4 DEF RestOf
<1>7. \A l \in Lit : l # m => HandsOf(ws, u)[l] = HandsOf(ws, v)[l]
  BY <1>3, <1>4, <1>5, <1>6
<1>8. HandsOf(ws, u)[m] = Append(HandsOf(ws, v)[m], w)
  <2> DEFINE r == ws[m] \o RestOf(v, m)
  <2>1. r \in Seq(WatchType) BY <1>5, ConcatProperties
  <2>2. HandsOf(ws, u)[m] = r \o Append(d, w) /\ HandsOf(ws, v)[m] = r \o d
    BY <1>3, <1>4, <1>5, <1>6
  <2> HIDE DEF r, d
  <2>3. Append(d, w) = d \o <<w>> BY <1>1, AppendIsConcat
  <2>4. <<w>> \in Seq(WatchType) OBVIOUS
  <2>5. r \o d \in Seq(WatchType) BY <1>1, <2>1, ConcatProperties
  <2>6. (r \o d) \o <<w>> = r \o (d \o <<w>>) BY <1>1, <2>1, <2>4, ConcatAssociative
  <2>7. Append(r \o d, w) = (r \o d) \o <<w>> BY <2>5, AppendIsConcat
  <2> QED BY <2>2, <2>3, <2>6, <2>7
<1> QED BY <1>4, <1>7, <1>8 DEF u

-----------------------------------------------------------------------------
\* Consequences of the formula.
LEMMA FollowsMore ==
    ASSUME NEW D, NEW E, Follows(D), D \subseteq E
    PROVE  Follows(E)
BY DEF Follows, Entails

\* Literals whose negation follows can be dropped.
LEMMA FollowsWithout ==
    ASSUME NEW D, NEW E, Follows(D), \A m \in D \ E : Follows({-m})
    PROVE  Follows(E)
<1> SUFFICES ASSUME NEW A \in Assignments, Satisfies(A, formula) PROVE E \cap A # {}
  BY DEF Follows, Entails
<1>1. PICK m \in D : m \in A BY DEF Follows, Entails
<1>2. CASE m \in E BY <1>1, <1>2
<1>3. CASE m \notin E
  <2>1. -m \in A BY <1>1, <1>3 DEF Follows, Entails
  <2>2. m \in Lit BY <1>1 DEF Assignments
  <2> QED BY <1>1, <2>1, <2>2 DEF Assignments
<1> QED BY <1>2, <1>3

LEMMA FollowsResolvent ==
    ASSUME NEW D, NEW l, NEW B, Follows(D), Follows({-l} \cup B)
    PROVE  Follows((D \ {l}) \cup B)
<1> SUFFICES ASSUME NEW A \in Assignments, Satisfies(A, formula)
             PROVE  ((D \ {l}) \cup B) \cap A # {}
  BY DEF Follows, Entails
<1>1. PICK m \in D : m \in A BY DEF Follows, Entails
<1>2. PICK n \in {-l} \cup B : n \in A BY DEF Follows, Entails
<1>3. CASE m # l BY <1>1, <1>3
<1>4. CASE n \in B BY <1>2, <1>4
<1>5. CASE m = l /\ n = -l
  <2>1. l \in Lit BY <1>1, <1>5 DEF Assignments
  <2> QED BY <1>1, <1>2, <1>5, <2>1 DEF Assignments
<1> QED BY <1>2, <1>3, <1>4, <1>5

LEMMA FollowsNothing ==
    ASSUME Follows({})
    PROVE  Unsatisfiable(formula)
BY DEF Follows, Entails, Unsatisfiable

\* Values of literals.
LEMMA Values ==
    ASSUME TrailInv, NEW l \in Lit
    PROVE  /\ -l \in Lit /\ -(-l) = l /\ Idx(-l) = Idx(l) /\ Idx(l) \in Var
           /\ values[l] \in {-1, 0, 1}
           /\ values[-l] = -values[l]
           /\ LevelOf(-l) = LevelOf(l)
           /\ LevelOf(l) \in Nat
           /\ position[Idx(l)] \in Nat
BY LitFacts DEF TrailInv, TrailTypeOK, SlotsTrue, LevelOf

LEMMA RootFalse ==
    ASSUME TrailInv, RootSound, NEW l \in Lit, values[l] = -1, LevelOf(l) = 0
    PROVE  Follows({-l})
BY Values DEF RootSound

LEMMA FollowsAboveRoot ==
    ASSUME TrailInv, RootSound, NEW D \in SUBSET Lit, Follows(D),
           \A m \in D : LevelOf(m) = 0 => values[m] = -1
    PROVE  Follows(AboveRoot(D))
<1>1. ASSUME NEW m \in D \ AboveRoot(D) PROVE Follows({-m})
  <2>1. m \in Lit /\ LevelOf(m) = 0 BY Values DEF AboveRoot
  <2> QED BY <2>1, RootFalse
<1> QED BY <1>1, FollowsWithout

\* An assigned literal is not above the current level, and found on the trail.
LEMMA Assigned ==
    ASSUME TrailInv, ~ undo.active, NEW l \in Lit, values[l] # 0
    PROVE  /\ LevelOf(l) <= CurrentLevel
           /\ LevelOf(l) > 0 => /\ position[Idx(l)] < Len(trail)
                                /\ Idx(trail[position[Idx(l)] + 1]) = Idx(l)
                                /\ trail[position[Idx(l)] + 1] \in Lit
<1>1. LevelOf(l) \in Nat /\ CurrentLevel \in Nat /\ Len(trail) \in Nat
  BY Values, LiveFacts DEF TrailInv, CurrentLevel
<1>2. CASE LevelOf(l) = 0 BY <1>1, <1>2
<1>3. CASE LevelOf(l) > 0
  <2> DEFINE v == Idx(l)
             i == position[v] + 1
  <2>1. v \in Var /\ values[v] # 0 /\ level[v] > 0 /\ position[v] \in Nat
    <3>1. v \in Var /\ v \in Lit /\ (l = v \/ l = -v) BY LitFacts
    <3>2. values[-v] = -values[v] /\ values[v] \in {-1, 0, 1} BY <3>1, Values
    <3> QED BY <1>3, <3>1, <3>2, Values DEF LevelOf
  <2>2. i \in Live /\ Idx(trail[i]) = v BY <2>1 DEF TrailInv, AssignedOnTrail
  <2>3. i \in 1 .. Len(trail) /\ trail[i] \in Lit BY <2>2, LiveFacts DEF TrailInv
  <2>4. level[Idx(trail[i])] <= Len(frames) BY <2>2 DEF TrailInv, LevelBound
  <2> QED BY <1>1, <2>1, <2>2, <2>3, <2>4 DEF LevelOf, CurrentLevel
<1> QED BY <1>1, <1>2, <1>3

\* No two variables have the same position above the root.
LEMMA PositionsDiffer ==
    ASSUME TrailInv, ~ undo.active, NEW l \in Lit, NEW m \in Lit,
           values[l] # 0, values[m] # 0, LevelOf(l) > 0, LevelOf(m) > 0,
           position[Idx(l)] = position[Idx(m)]
    PROVE  Idx(l) = Idx(m)
BY Assigned

\* The decision of a level comes first on the trail.
LEMMA DecisionFirst ==
    ASSUME TrailInv, ~ undo.active, NEW l \in Lit, values[l] # 0, LevelOf(l) > 0
    PROVE  LET d == frames[LevelOf(l)].decision IN
           /\ LevelOf(l) \in 1 .. Len(frames)
           /\ d \in Lit /\ values[d] = 1 /\ LevelOf(d) = LevelOf(l)
           /\ Idx(l) # Idx(d) => position[Idx(d)] < position[Idx(l)]
<1> DEFINE k == LevelOf(l)
           f == frames[k]
           p == position[Idx(l)]
<1>1. k \in 1 .. Len(frames) /\ Len(frames) \in Nat /\ Len(trail) \in Nat
  BY Assigned, Values, LiveFacts DEF TrailInv, CurrentLevel
<1>2. p < Len(trail) /\ Idx(trail[p + 1]) = Idx(l) /\ p \in Nat BY Assigned, Values
<1>3. f.trail \in Nat /\ f.trail < Len(trail) /\ trail[f.trail + 1] = f.decision
      /\ level[Idx(f.decision)] = k /\ \A i \in 1 .. f.trail : level[Idx(trail[i])] < k
  BY <1>1, LiveFacts DEF TrailInv, FramesDelimitLevels
<1>4. f.trail + 1 \in Live /\ p + 1 \in Live BY <1>1, <1>2, <1>3 DEF Live
<1>5. values[f.decision] = 1 /\ position[Idx(f.decision)] = f.trail /\ f.decision \in Lit
  BY <1>1, <1>3, <1>4, LiveFacts DEF TrailInv, SlotsTrue
<1>6. ~ (p + 1 \in 1 .. f.trail)
  <2>1. level[Idx(trail[p + 1])] = k BY <1>2 DEF LevelOf
  <2> QED BY <1>1, <1>3, <2>1
<1>7. Idx(l) # Idx(f.decision) => p # f.trail BY <1>2, <1>3
<1> HIDE DEF p, f, k
<1>8. Idx(l) # Idx(f.decision) => f.trail < p BY <1>2, <1>3, <1>6, <1>7
<1> QED BY <1>1, <1>3, <1>5, <1>8 DEF LevelOf, f, k, p

-----------------------------------------------------------------------------
\* The steps that a handler still has to do.
LEMMA StepTypes ==
    /\ \A t \in StepType :
         /\ t.op \in {"backtrack", "unit", "newBinary", "forceBinary", "forceLarge",
                      "subsume", "deduce", "failed"}
         /\ t.op = "backtrack" => t.to \in Nat
         /\ t.op = "unit" => t.lit \in Lit
         /\ t.op \in {"newBinary", "forceBinary"} => t.lit \in Lit /\ t.other \in Lit
         /\ t.op = "forceLarge" => t.lit \in Lit /\ t.ref \in Nat
         /\ t.op = "subsume" => t.clause \subseteq Lit /\ t.ref \in Nat
    /\ \A k \in Nat : Backtrack(k) \in StepType
    /\ \A l \in Lit : LearnedUnit(l) \in StepType
    /\ \A l, m \in Lit : WatchBinary(l, m) \in StepType /\ ForceBinary(l, m) \in StepType
    /\ \A l \in Lit, r \in Nat : ForceLarge(l, r) \in StepType
    /\ \A D \in SUBSET Lit, r \in Nat : Subsume(D, r) \in StepType
    /\ Deduce \in StepType /\ AnalyzeFailed \in StepType
BY DEF StepType, Backtrack, LearnedUnit, WatchBinary, ForceBinary, ForceLarge, Subsume,
       Deduce, AnalyzeFailed

LEMMA TodoTail ==
    ASSUME TodoSound, todo # <<>>, Done
    PROVE  /\ todo' \in Seq(StepType) /\ Len(todo) \in Nat /\ Len(todo') = Len(todo) - 1
           /\ DOMAIN todo = 1 .. Len(todo) /\ DOMAIN todo' = 1 .. Len(todo')
           /\ 1 \in DOMAIN todo /\ Head(todo) = todo[1] /\ todo[1] \in StepType
           /\ \A i \in DOMAIN todo' : i + 1 \in DOMAIN todo /\ todo'[i] = todo[i + 1]
           /\ \A i \in DOMAIN todo : i # 1 => i - 1 \in DOMAIN todo' /\ todo'[i - 1] = todo[i]
<1>1. todo \in Seq(StepType) /\ todo' = Tail(todo) BY DEF TodoSound, Done
<1>2. /\ Tail(todo) \in Seq(StepType) /\ Len(Tail(todo)) = Len(todo) - 1
      /\ \A i \in 1 .. Len(Tail(todo)) : Tail(todo)[i] = todo[i + 1]
  BY <1>1, HeadTailProperties
<1>3. Len(todo) \in Nat /\ Len(todo) > 0 /\ DOMAIN todo = 1 .. Len(todo) BY <1>1
<1>4. DOMAIN todo' = 1 .. Len(todo') BY <1>1, <1>2
<1>5. \A i \in DOMAIN todo' : i + 1 \in DOMAIN todo /\ todo'[i] = todo[i + 1]
  BY <1>1, <1>2, <1>3, <1>4
<1>6. ASSUME NEW i \in DOMAIN todo, i # 1
      PROVE  i - 1 \in DOMAIN todo' /\ todo'[i - 1] = todo[i]
  <2>1. i - 1 \in DOMAIN todo' /\ (i - 1) + 1 = i BY <1>1, <1>2, <1>3, <1>4, <1>6
  <2> QED BY <1>5, <2>1
<1>7. 1 \in DOMAIN todo /\ Head(todo) = todo[1] /\ todo[1] \in StepType BY <1>1, <1>3
<1> QED BY <1>1, <1>2, <1>3, <1>4, <1>5, <1>6, <1>7

LEMMA TargetsTail ==
    ASSUME TodoSound, todo # <<>>, Done
    PROVE  /\ Targets' \subseteq Targets
           /\ Head(todo).op = "backtrack" => Targets = Targets' \cup {Head(todo).to}
           /\ Head(todo).op # "backtrack" => Targets' = Targets
<1>1. /\ \A i \in DOMAIN todo' : i + 1 \in DOMAIN todo /\ todo'[i] = todo[i + 1]
      /\ \A i \in DOMAIN todo : i # 1 => i - 1 \in DOMAIN todo' /\ todo'[i - 1] = todo[i]
      /\ 1 \in DOMAIN todo /\ Head(todo) = todo[1]
  BY TodoTail
<1>2. Targets' \subseteq Targets BY <1>1 DEF Targets
<1>3. ASSUME NEW k \in Targets PROVE k \in Targets' \/ (Head(todo).op = "backtrack" /\ k = Head(todo).to)
  <2>1. PICK i \in DOMAIN todo : todo[i].op = "backtrack" /\ k = todo[i].to BY DEF Targets
  <2>2. CASE i = 1 BY <1>1, <2>1, <2>2
  <2>3. CASE i # 1
    <3>1. i - 1 \in DOMAIN todo' /\ todo'[i - 1] = todo[i] BY <1>1, <2>3
    <3>2. todo'[i - 1].op = "backtrack" /\ todo'[i - 1].to = k BY <2>1, <3>1
    <3> QED BY <3>1, <3>2 DEF Targets
  <2> QED BY <2>2, <2>3
<1>4. Head(todo).op = "backtrack" => Head(todo).to \in Targets BY <1>1 DEF Targets
<1> QED BY <1>2, <1>3, <1>4

LEMMA TargetsNat == ASSUME TodoSound PROVE Targets \subseteq Nat
<1> SUFFICES ASSUME NEW i \in DOMAIN todo, todo[i].op = "backtrack" PROVE todo[i].to \in Nat
  BY DEF Targets
<1>1. todo[i] \in StepType BY DEF TodoSound
<1> QED BY <1>1, StepTypes

LEMMA AnalysisTail ==
    ASSUME TodoSound, todo # <<>>, Done, Head(todo).op \notin {"deduce", "failed"}
    PROVE  Analysis' <=> Analysis
<1>1. /\ \A i \in DOMAIN todo' : i + 1 \in DOMAIN todo /\ todo'[i] = todo[i + 1]
      /\ \A i \in DOMAIN todo : i # 1 => i - 1 \in DOMAIN todo' /\ todo'[i - 1] = todo[i]
      /\ Head(todo) = todo[1]
  BY TodoTail
<1>2. Analysis' => Analysis BY <1>1 DEF Analysis
<1>3. Analysis => Analysis'
  <2> SUFFICES ASSUME NEW i \in DOMAIN todo, todo[i].op \in {"deduce", "failed"} PROVE Analysis'
    BY DEF Analysis
  <2>1. i # 1 BY <1>1
  <2> QED BY <1>1, <2>1 DEF Analysis
<1> QED BY <1>2, <1>3

\* After a step that is neither a backtrack nor part of the analysis there is
\* no conflict any more.
LEMMA AnalysisOver ==
    ASSUME TodoSound, ResolventSound, todo # <<>>,
           Head(todo).op \notin {"backtrack", "deduce", "failed"}
    PROVE  ~ Analysis /\ conflict = NoConflict /\ resolvent = {}
<1>1. todo \in Seq(StepType) /\ 1 \in DOMAIN todo /\ Head(todo) = todo[1]
      /\ DOMAIN todo = 1 .. Len(todo) /\ Len(todo) \in Nat
  BY DEF TodoSound
<1>2. ASSUME NEW i \in DOMAIN todo, todo[i].op \in {"deduce", "failed"} PROVE FALSE
  <2>1. i # 1 BY <1>1, <1>2
  <2>2. \A j \in 1 .. i - 1 : todo[j].op = "backtrack" BY <1>2 DEF TodoSound, Placed
  <2>3. 1 \in 1 .. i - 1 BY <1>1, <2>1
  <2> QED BY <1>1, <2>2, <2>3
<1> QED BY <1>2 DEF Analysis, TodoSound, ResolventSound

LEMMA HoldsKept ==
    ASSUME NEW t \in StepType, Holds(t), UNCHANGED <<formula, arena>>,
           \A l \in Lit : Safe(l) => Safe(l)'
    PROVE  Holds(t)'
<1>1. \A l : Safe(l) => Safe(l)' BY DEF Safe
<1>2. \A D : Follows(D)' <=> Follows(D) BY DEF Follows
<1>3. References' = References /\ \A r : First(r)' = First(r) BY DEF References, First
<1> QED BY <1>1, <1>2, <1>3 DEF Holds

LEMMA TodoKept ==
    ASSUME TodoSound, todo # <<>>, Done, Head(todo).op \notin {"deduce", "failed"},
           UNCHANGED <<formula, arena>>, conflict' = conflict,
           \A l \in Lit : Safe(l) => Safe(l)',
           \A t \in StepType :
               2 \in DOMAIN todo /\ t = todo[2] /\ t.op = "subsume" /\ Forces(todo[1], t)
                   => ~ undo'.active /\ \E l \in t.clause : ForcedBy(l, t)'
    PROVE  TodoSound'
<1>1. /\ todo' \in Seq(StepType) /\ Len(todo) \in Nat /\ Len(todo') = Len(todo) - 1
      /\ DOMAIN todo = 1 .. Len(todo) /\ DOMAIN todo' = 1 .. Len(todo')
      /\ \A i \in DOMAIN todo' : i + 1 \in DOMAIN todo /\ todo'[i] = todo[i + 1]
  BY TodoTail
<1>2. ASSUME NEW i \in DOMAIN todo' PROVE Holds(todo[i])' /\ Placed(i)'
  <2>1. i + 1 \in DOMAIN todo /\ todo'[i] = todo[i + 1] BY <1>1
  <2>2. todo[i + 1] \in StepType /\ Holds(todo[i + 1]) /\ Placed(i + 1) BY <2>1 DEF TodoSound
  <2>3. PICK t \in StepType : t = todo[i + 1] /\ t = todo'[i] BY <2>1, <2>2
  <2>4. Holds(todo[i])'
    <3>1. Holds(t)' BY <2>2, <2>3, HoldsKept
    <3> QED BY <2>3, <3>1
  <2>5. Placed(i)'
    <3>1. i \in Nat /\ i >= 1 /\ i <= Len(todo) - 1 BY <1>1
    <3>2. \A j \in 1 .. i - 1 : j + 1 \in 1 .. i /\ todo'[j] = todo[j + 1] BY <1>1, <3>1
    <3>3. t.op \in {"deduce", "failed"} => \A j \in 1 .. i - 1 : todo'[j].op = "backtrack"
      <4> SUFFICES ASSUME t.op \in {"deduce", "failed"}, NEW j \in 1 .. i - 1
                   PROVE  todo'[j].op = "backtrack"
        OBVIOUS
      <4>1. \A k \in 1 .. i : todo[k].op = "backtrack" BY <2>2, <2>3, <3>1 DEF Placed
      <4> QED BY <3>2, <4>1
    <3>4. t.op = "deduce" => i = Len(todo') BY <1>1, <2>2, <2>3, <3>1 DEF Placed
    <3>5. t.op = "failed" => \A j \in i + 1 .. Len(todo') : todo'[j].op = "unit"
      <4> SUFFICES ASSUME t.op = "failed", NEW j \in i + 1 .. Len(todo')
                   PROVE  todo'[j].op = "unit"
        OBVIOUS
      <4>1. \A k \in i + 2 .. Len(todo) : todo[k].op = "unit" BY <2>2, <2>3, <3>1 DEF Placed
      <4>2. j \in DOMAIN todo' /\ j + 1 \in i + 2 .. Len(todo) BY <1>1, <3>1
      <4> QED BY <1>1, <4>1, <4>2
    <3>6. t.op = "subsume" => i = Len(todo') BY <1>1, <2>2, <2>3, <3>1 DEF Placed
    <3>7. CASE i = 1
      <4>1. t.op = "subsume" => Forces(todo[1], t) BY <2>2, <2>3, <3>7 DEF Placed
      <4>2. t.op = "subsume" => ~ undo'.active /\ \E l \in t.clause : ForcedBy(l, t)'
        BY <2>1, <2>3, <3>7, <4>1
      <4>3. t.op = "subsume" => \E l \in todo'[i].clause : ForcedBy(l, todo[i])'
        BY <2>3, <4>2 DEF ForcedBy
      <4> QED BY <2>3, <3>3, <3>4, <3>5, <3>6, <3>7, <4>2, <4>3 DEF Placed
    <3>8. CASE i # 1
      <4>1. (i + 1) - 1 = i /\ i - 1 \in 1 .. i - 1 /\ (i - 1) + 1 = i BY <3>1, <3>8
      <4>2. todo'[i - 1] = todo[i] BY <3>2, <4>1
      <4>3. t.op = "subsume" => Forces(todo[i], t) BY <2>2, <2>3, <3>1, <3>8, <4>1 DEF Placed
      <4>4. t.op = "subsume" => Forces(todo'[i - 1], todo'[i]) BY <2>3, <4>2, <4>3 DEF Forces
      <4> QED BY <2>3, <3>3, <3>4, <3>5, <3>6, <3>8, <4>4 DEF Placed, Forces
    <3> QED BY <3>7, <3>8
  <2> QED BY <2>4, <2>5
<1>3. conflict' # NoConflict /\ todo' # <<>> => Analysis'
  BY AnalysisTail DEF TodoSound, NoConflict
<1> QED BY <1>1, <1>2, <1>3 DEF TodoSound

-----------------------------------------------------------------------------
\* Steps that leave the trail alone.
LEMMA Unmoved ==
    ASSUME UNCHANGED <<trailVars, formula>>
    PROVE  /\ TrailInv => TrailInv'
           /\ RootSound => RootSound'
           /\ Forced' = Forced
           /\ CurrentLevel' = CurrentLevel
           /\ \A l : /\ LevelOf(l)' = LevelOf(l) /\ values'[l] = values[l]
                     /\ position'[Idx(l)] = position[Idx(l)]
           /\ \A D : (Follows(D)' <=> Follows(D)) /\ AboveRoot(D)' = AboveRoot(D)
           /\ \A l, D : Supported(l, D)' <=> Supported(l, D)
           /\ Targets' \subseteq Targets => \A l : Safe(l) => Safe(l)'
<1>1. TrailInv => TrailInv' BY NextInv
<1>2. /\ CurrentLevel' = CurrentLevel
      /\ \A l : /\ LevelOf(l)' = LevelOf(l) /\ values'[l] = values[l]
                /\ position'[Idx(l)] = position[Idx(l)]
      /\ \A D : Follows(D)' <=> Follows(D)
  BY DEF CurrentLevel, LevelOf, trailVars, Follows
<1>3. Forced' = Forced BY <1>2 DEF Forced
<1>4. RootSound => RootSound' BY <1>2 DEF RootSound
<1>5. \A D : AboveRoot(D)' = AboveRoot(D) BY <1>2 DEF AboveRoot
<1>6. \A l, D : Supported(l, D)' <=> Supported(l, D) BY <1>2 DEF Supported, Earlier
<1>7. Targets' \subseteq Targets => \A l : Safe(l) => Safe(l)' BY <1>2 DEF Safe
<1> QED BY <1>1, <1>2, <1>3, <1>4, <1>5, <1>6, <1>7

LEMMA ReasonsKept ==
    ASSUME ReasonsSound, UNCHANGED <<trailVars, formula, reason>>,
           \A r \in References :
               r \in References' /\ ToSet(arena'[r].lits) = ToSet(arena[r].lits),
           \A l \in Forced : Fits(l) \/ Doomed(l) => Fits(l)' \/ Doomed(l)'
    PROVE  ReasonsSound'
<1>1. reason' \in [Var -> ReasonType] BY DEF ReasonsSound
<1>2. Forced' = Forced BY Unmoved
<1>3. ASSUME NEW l \in Forced PROVE ReasonSound(l)' /\ (Fits(l)' \/ Doomed(l)')
  <2>1. ReasonSound(l) /\ (Fits(l) \/ Doomed(l)) BY DEF ReasonsSound
  <2>2. /\ LevelOf(l)' = LevelOf(l) /\ frames' = frames /\ reason' = reason
        /\ \A D : (Follows(D)' <=> Follows(D))
        /\ \A D : Supported(l, D)' <=> Supported(l, D)
    BY Unmoved DEF trailVars
  <2>3. ReasonSound(l)' BY <2>1, <2>2 DEF ReasonSound
  <2> QED BY <2>1, <2>3
<1> QED BY <1>1, <1>2, <1>3 DEF ReasonsSound

LEMMA Bystanders ==
    ASSUME SearchInv,
           UNCHANGED <<trailVars, clauseVars, visit, todo, resolvent, formula>>,
           result' = 20 => Unsatisfiable(formula)
    PROVE  SearchInv'
<1>1. UNCHANGED <<values, level, position, trail, frames, undo, arena, watches, reason, conflict>>
  BY DEF trailVars, clauseVars
<1>2. /\ TrailInv' /\ RootSound' /\ Forced' = Forced /\ CurrentLevel' = CurrentLevel
      /\ \A l : LevelOf(l)' = LevelOf(l)
      /\ \A D : Follows(D)' <=> Follows(D)
  BY Unmoved DEF SearchInv
<1>3. Targets' = Targets /\ (Analysis' <=> Analysis) BY DEF Targets, Analysis
<1>4. \A l : Safe(l)' <=> Safe(l) BY <1>1, <1>2, <1>3 DEF Safe
<1>5. References' = References /\ \A r : First(r)' = First(r) BY <1>1 DEF References, First
<1>6. ArenaSound' BY <1>1, <1>2, <1>5 DEF SearchInv, ArenaSound
<1>7. WatchListsOK' /\ WatchesSound'
  BY <1>1 DEF SearchInv, WatchListsOK, WatchesSound, Firsts, First, References
<1>8. VisitSound' BY <1>1 DEF SearchInv, VisitSound
<1>9. ReasonsSound'
  <2>1. \A l \in Forced : Fits(l) \/ Doomed(l) => Fits(l)' \/ Doomed(l)'
    <3>1. Frontier' = Frontier BY <1>1 DEF Frontier, LitsOf
    <3>2. \A l : PastFrontier(l)' <=> PastFrontier(l) BY <1>1, <1>2, <3>1 DEF PastFrontier
    <3>3. \A l : Fits(l)' <=> Fits(l) BY <1>1, <1>5 DEF Fits
    <3> QED BY <1>2, <1>3, <3>2, <3>3 DEF Doomed
  <2> QED BY <1>1, <1>5, <2>1, ReasonsKept DEF SearchInv
<1>10. ConflictSound'
  <2>1. LitsOf(conflict)' = LitsOf(conflict) BY <1>1 DEF LitsOf
  <2> QED BY <1>1, <1>2, <1>4, <1>5, <2>1 DEF SearchInv, ConflictSound, NoConflict
<1>11. ResolventSound'
  BY <1>1, <1>2, <1>3, <1>4 DEF SearchInv, ResolventSound, NoConflict
<1>12. TodoSound'
  <2>1. \A t : Holds(t)' <=> Holds(t) BY <1>1, <1>2, <1>4, <1>5 DEF Holds
  <2>2. \A l, t : ForcedBy(l, t)' <=> ForcedBy(l, t) BY <1>1, <1>2 DEF ForcedBy
  <2>3. \A i : Placed(i)' <=> Placed(i) BY <1>1, <2>2 DEF Placed
  <2> QED BY <1>1, <1>3, <2>1, <2>3 DEF SearchInv, TodoSound, NoConflict
<1>13. RefutationSound' BY DEF RefutationSound
<1>14. formula' \in Formulas BY DEF SearchInv
<1> QED BY <1>2, <1>6, <1>7, <1>8, <1>9, <1>10, <1>11, <1>12, <1>13, <1>14 DEF SearchInv

LEMMA CheckLineInv == SearchInv /\ CheckLine => SearchInv'
<1>1. SearchInv /\ CheckLine => (result' = 20 => Unsatisfiable(formula))
  BY DEF SearchInv, RefutationSound, CheckLine
<1> QED BY <1>1, Bystanders DEF CheckLine, analysisVars

LEMMA StoppedInv == SearchInv /\ UNCHANGED searchVars => SearchInv'
<1>1. SearchInv /\ UNCHANGED searchVars => (result' = 20 => Unsatisfiable(formula))
  BY DEF SearchInv, RefutationSound, searchVars, loopVars
<1> QED BY <1>1, Bystanders DEF searchVars, loopVars, analysisVars

LEMMA AnswersInv == SearchInv /\ (Satisfiable \/ Terminate) => SearchInv'
BY Bystanders DEF Satisfiable, Terminate, analysisVars

LEMMA RootConflictInv == SearchInv /\ AnalyzeRootConflict => SearchInv'
<1> SUFFICES ASSUME SearchInv, AnalyzeRootConflict PROVE SearchInv'
  OBVIOUS
<1>1. conflict # NoConflict /\ LevelsOf(ToSet(LitsOf(conflict))) = {0}
  BY DEF AnalyzeRootConflict, Analyzing
<1>2. \A l \in ToSet(LitsOf(conflict)) : LevelOf(l) = 0 BY <1>1 DEF LevelsOf
<1>3. \A l \in ToSet(LitsOf(conflict)) : l \in Lit /\ values[l] = -1
  BY <1>1 DEF SearchInv, ConflictSound, Safe
<1>4. \A l \in ToSet(LitsOf(conflict)) : Follows({-l})
  BY <1>2, <1>3, RootFalse DEF SearchInv
<1>5. Follows(ToSet(LitsOf(conflict))) BY <1>1 DEF SearchInv, ConflictSound
<1>6. Follows({}) BY <1>4, <1>5, FollowsWithout
<1>7. Unsatisfiable(formula) BY <1>6, FollowsNothing
<1> QED BY <1>7, Bystanders DEF AnalyzeRootConflict, analysisVars

-----------------------------------------------------------------------------
\* The steps of a handler after the analysis.
LEMMA HandlerIdle ==
    ASSUME SearchInv, todo # <<>>
    PROVE  visit = NoVisit /\ HandsOf(watches, visit) = watches /\ watches \in Lists
<1>1. visit = NoVisit BY DEF SearchInv, VisitSound
<1>2. watches \in Lists BY DEF SearchInv, WatchListsOK
<1> QED BY <1>1, <1>2, HandsIdle

LEMMA AfterAnalysis ==
    ASSUME SearchInv, todo # <<>>, Head(todo).op \notin {"backtrack", "deduce", "failed"},
           Done, UNCHANGED <<conflict, resolvent, visit>>
    PROVE  ConflictSound' /\ ResolventSound' /\ VisitSound'
<1>1. ~ Analysis /\ conflict = NoConflict /\ resolvent = {} BY AnalysisOver DEF SearchInv
<1>2. ~ Analysis' BY <1>1, AnalysisTail DEF SearchInv
<1>3. conflict' = NoConflict' BY <1>1 DEF NoConflict
<1>4. ConflictSound' BY <1>3 DEF ConflictSound
<1>5. ResolventSound' BY <1>1, <1>2 DEF ResolventSound
<1>6. VisitSound'
  <2>1. visit' = NoVisit BY HandlerIdle
  <2>2. NoVisit' = NoVisit BY DEF NoVisit, NoDelayed
  <2> QED BY <2>1, <2>2, NoVisitTyped DEF VisitSound
<1> QED BY <1>4, <1>5, <1>6

NewWatch(m, ref) == IF ref = 0 THEN BinaryWatch(m) ELSE LargeWatch(m, ref)

LEMMA WatchedFacts ==
    ASSUME NEW ws \in Lists, NEW lits \in Seq(Lit), Len(lits) >= 2, lits[1] # lits[2],
           NEW ref \in Nat
    PROVE  LET xs == Watched(ws, lits, ref) IN
           /\ xs \in Lists
           /\ \A l \in Lit : l \notin {lits[1], lits[2]} => xs[l] = ws[l]
           /\ NewWatch(lits[1], ref) \in WatchType /\ NewWatch(lits[2], ref) \in WatchType
           /\ lits[1] \in Lit /\ lits[2] \in Lit
           /\ xs[lits[1]] = Append(ws[lits[1]], NewWatch(lits[2], ref))
           /\ xs[lits[2]] = Append(ws[lits[2]], NewWatch(lits[1], ref))
<1>1. lits[1] \in Lit /\ lits[2] \in Lit OBVIOUS
<1>2. NewWatch(lits[1], ref) \in WatchType /\ NewWatch(lits[2], ref) \in WatchType
  BY <1>1 DEF NewWatch, WatchType, BinaryWatch, LargeWatch
<1>3. Watched(ws, lits, ref) =
        [ws EXCEPT ![lits[1]] = Append(@, NewWatch(lits[2], ref)),
                   ![lits[2]] = Append(@, NewWatch(lits[1], ref))]
  BY DEF Watched, NewWatch
<1> DEFINE a == lits[1]
           b == lits[2]
           v == NewWatch(b, ref)
           w == NewWatch(a, ref)
<1>0. a \in Lit /\ b \in Lit /\ a # b /\ v \in WatchType /\ w \in WatchType
  BY <1>1, <1>2
<1> HIDE DEF a, b, v, w
<1> DEFINE xs == [ws EXCEPT ![a] = Append(@, v), ![b] = Append(@, w)]
<1>4. /\ DOMAIN xs = Lit /\ xs[a] = Append(ws[a], v) /\ xs[b] = Append(ws[b], w)
      /\ \A l \in Lit : l \notin {a, b} => xs[l] = ws[l]
      /\ xs = [l \in Lit |-> xs[l]]
  BY <1>0 DEF Lists
<1> HIDE DEF xs
<1>5. xs \in Lists
  <2>1. \A l \in Lit : ws[l] \in Seq(WatchType) BY DEF Lists
  <2>2. Append(ws[a], v) \in Seq(WatchType) /\ Append(ws[b], w) \in Seq(WatchType)
    BY <1>0, <2>1, AppendProperties
  <2>3. \A l \in Lit : xs[l] \in Seq(WatchType)
    <3> TAKE l \in Lit
    <3> QED BY <1>4, <2>1, <2>2
  <2> QED BY <1>4, <2>3 DEF Lists
<1> QED BY <1>1, <1>2, <1>3, <1>4, <1>5 DEF a, b, v, w, xs

LEMMA WatchBinaryInv == SearchInv /\ DoWatchBinary => SearchInv'
<1> SUFFICES ASSUME SearchInv, DoWatchBinary PROVE SearchInv'
  OBVIOUS
<1>1. /\ todo # <<>> /\ Head(todo).op = "newBinary" /\ Done
      /\ watches' = Watched(watches, <<Head(todo).lit, Head(todo).other>>, 0)
      /\ UNCHANGED <<trailVars, resolvent, arena, reason, conflict, visit, result, formula>>
  BY DEF DoWatchBinary, Doing, analysisVars, loopVars
<1>2. PICK t \in StepType : t = Head(todo) /\ t = todo[1] /\ Holds(t)
  <2>1. 1 \in DOMAIN todo /\ Head(todo) = todo[1] /\ todo[1] \in StepType
    BY <1>1, TodoTail DEF SearchInv
  <2> QED BY <2>1 DEF SearchInv, TodoSound
<1>3. t.lit \in Lit /\ t.other \in Lit /\ t.lit # t.other /\ Follows({t.lit, t.other})
  BY <1>1, <1>2, StepTypes DEF Holds
<1>4. UNCHANGED <<values, level, position, frames, undo>> BY <1>1 DEF trailVars
<1>5. /\ TrailInv' /\ RootSound' /\ Forced' = Forced /\ CurrentLevel' = CurrentLevel
      /\ \A l : LevelOf(l)' = LevelOf(l)
      /\ \A D : Follows(D)' <=> Follows(D)
  BY <1>1, Unmoved DEF SearchInv
<1>6. References' = References /\ \A r : First(r)' = First(r) BY <1>1 DEF References, First
<1>7. ArenaSound' BY <1>1, <1>5, <1>6 DEF SearchInv, ArenaSound
<1>8. watches' \in Lists /\ WatchesSound'
  <2>1. watches \in Lists /\ HandsSound(formula, Firsts, watches)
    BY <1>1, HandlerIdle DEF SearchInv, WatchesSound
  <2> DEFINE lits == <<t.lit, t.other>>
  <2>2. lits \in Seq(Lit) /\ Len(lits) = 2 /\ lits[1] = t.lit /\ lits[2] = t.other BY <1>3
  <2> HIDE DEF lits
  <2>3. /\ watches' \in Lists
        /\ \A l \in Lit : l \notin {t.lit, t.other} => watches'[l] = watches[l]
        /\ NewWatch(t.lit, 0) \in WatchType /\ NewWatch(t.other, 0) \in WatchType
        /\ watches'[t.lit] = Append(watches[t.lit], NewWatch(t.other, 0))
        /\ watches'[t.other] = Append(watches[t.other], NewWatch(t.lit, 0))
    <3>1. watches' = Watched(watches, lits, 0) BY <1>1, <1>2 DEF lits
    <3>2. Len(lits) >= 2 /\ lits[1] # lits[2] /\ 0 \in Nat BY <1>3, <2>2
    <3>3. /\ watches' \in Lists
          /\ \A l \in Lit : l \notin {lits[1], lits[2]} => watches'[l] = watches[l]
          /\ NewWatch(lits[1], 0) \in WatchType /\ NewWatch(lits[2], 0) \in WatchType
          /\ watches'[lits[1]] = Append(watches[lits[1]], NewWatch(lits[2], 0))
          /\ watches'[lits[2]] = Append(watches[lits[2]], NewWatch(lits[1], 0))
      BY <2>1, <2>2, <3>1, <3>2, WatchedFacts, Zenon
    <3> QED BY <2>2, <3>3
  <2>4. HandsSound(formula, Firsts, watches')
    <3>1. \A l \in Lit : watches[l] \in Seq(WatchType) BY <2>1 DEF Lists
    <3>2. /\ NewWatch(t.lit, 0).binary /\ NewWatch(t.lit, 0).blocking = t.lit
          /\ NewWatch(t.other, 0).binary /\ NewWatch(t.other, 0).blocking = t.other
      BY DEF NewWatch, BinaryWatch
    <3>3. Entails(formula, {t.lit, t.other}) /\ Entails(formula, {t.other, t.lit})
      <4>1. {t.lit, t.other} = {t.other, t.lit} OBVIOUS
      <4> QED BY <1>3, <4>1 DEF Follows
    <3>4. /\ WatchOK(formula, Firsts, t.lit, NewWatch(t.other, 0))
          /\ WatchOK(formula, Firsts, t.other, NewWatch(t.lit, 0))
      BY <1>3, <3>2, <3>3 DEF WatchOK
    <3>5. \A l \in Lit : watches'[l] # watches[l] =>
             \E w \in WatchType : /\ watches'[l] = Append(watches[l], w)
                                  /\ WatchOK(formula, Firsts, l, w)
                                  /\ w.binary
      BY <1>3, <2>3, <3>2, <3>4
    <3> QED BY <2>1, <3>1, <3>5, HandsMore
  <2>5. HandsOf(watches', visit') = watches'
    <3>1. visit' = NoVisit BY <1>1, HandlerIdle
    <3> QED BY <2>3, <3>1, HandsIdle
  <2>6. Firsts' = Firsts BY <1>1 DEF Firsts, References, First
  <2> QED BY <1>1, <2>3, <2>4, <2>5, <2>6 DEF WatchesSound
<1>9. WatchListsOK' BY <1>1, <1>8 DEF SearchInv, WatchListsOK
<1>10. Targets' = Targets BY <1>1, TargetsTail DEF SearchInv
<1>11. ReasonsSound'
  <2>1. \A l \in Forced : Fits(l) \/ Doomed(l) => Fits(l)' \/ Doomed(l)'
    <3>1. Frontier' = Frontier BY <1>1 DEF Frontier, LitsOf
    <3>2. \A l : PastFrontier(l)' <=> PastFrontier(l)
      BY <1>1, <1>4, <1>5, <3>1 DEF PastFrontier, NoConflict
    <3>3. \A l : Fits(l)' <=> Fits(l) BY <1>1, <1>6 DEF Fits
    <3> QED BY <1>5, <1>10, <3>2, <3>3 DEF Doomed
  <2> QED BY <1>1, <1>6, <2>1, ReasonsKept DEF SearchInv
<1>12. ConflictSound' /\ ResolventSound' /\ VisitSound' BY <1>1, AfterAnalysis
<1>13. TodoSound'
  <2>1. \A l \in Lit : Safe(l) => Safe(l)' BY <1>1, <1>10, Unmoved
  <2>2. 2 \in DOMAIN todo => ~ (todo[2].op = "subsume" /\ Forces(todo[1], todo[2]))
    BY <1>1, <1>2 DEF Forces
  <2> QED BY <1>1, <2>1, <2>2, TodoKept DEF SearchInv
<1>14. RefutationSound' /\ formula' \in Formulas BY <1>1 DEF SearchInv, RefutationSound
<1> QED BY <1>5, <1>7, <1>8, <1>9, <1>11, <1>12, <1>13, <1>14 DEF SearchInv

LEMMA SubsumeInv == SearchInv /\ DoSubsume => SearchInv'
<1> SUFFICES ASSUME SearchInv, DoSubsume PROVE SearchInv'
  OBVIOUS
<1> DEFINE D == Head(todo).clause
           Hit(r) == r \in Hits(D)
<1>1. /\ todo # <<>> /\ Head(todo).op = "subsume" /\ Done
      /\ arena' = [r \in DOMAIN arena |-> [arena[r] EXCEPT !.garbage = @ \/ Hit(r)]]
      /\ UNCHANGED <<trailVars, resolvent, watches, reason, conflict, visit, result, formula>>
  BY DEF DoSubsume, Doing, analysisVars
<1> HIDE DEF Hit
<1>2. PICK t \in StepType : t = Head(todo) /\ t = todo[1] /\ Holds(t)
  <2>1. 1 \in DOMAIN todo /\ Head(todo) = todo[1] /\ todo[1] \in StepType
    BY <1>1, TodoTail DEF SearchInv
  <2> QED BY <2>1 DEF SearchInv, TodoSound
<1>3. /\ Len(todo) = 1 /\ DOMAIN todo = {1} /\ t.op = "subsume"
      /\ \E l \in t.clause : ForcedBy(l, t)
  <2>1. 1 \in DOMAIN todo /\ todo[1].op = "subsume" /\ DOMAIN todo = 1 .. Len(todo)
    BY <1>1, <1>2, TodoTail DEF SearchInv
  <2>2. Placed(1) BY <2>1 DEF SearchInv, TodoSound
  <2>3. 1 = Len(todo) /\ \E l \in todo[1].clause : ForcedBy(l, todo[1]) BY <2>1, <2>2 DEF Placed
  <2>4. DOMAIN todo = {1}
    <3>1. DOMAIN todo = 1 .. 1 BY <2>1, <2>3
    <3> QED BY <3>1
  <2> QED BY <1>2, <2>1, <2>3, <2>4
<1>4. todo' = <<>> /\ todo' \in Seq(StepType)
  <2>1. todo' \in Seq(StepType) /\ Len(todo') = 0 BY <1>1, <1>3, TodoTail DEF SearchInv
  <2> QED BY <2>1
<1>5. UNCHANGED <<values, level, position, frames, undo>> BY <1>1 DEF trailVars
<1>6. /\ TrailInv' /\ RootSound' /\ Forced' = Forced
      /\ \A D1 : Follows(D1)' <=> Follows(D1)
  BY <1>1, Unmoved DEF SearchInv
<1>7. /\ arena' \in Seq(ClauseType) /\ References' = References
      /\ \A r \in References : /\ arena'[r].lits = arena[r].lits
                               /\ First(r)' = First(r)
                               /\ arena'[r].garbage <=> arena[r].garbage \/ Hit(r)
  <2>1. arena \in Seq(ClauseType) BY DEF SearchInv, ArenaSound
  <2>2. ASSUME NEW r \in DOMAIN arena
        PROVE  /\ arena'[r] \in ClauseType /\ arena'[r].lits = arena[r].lits
               /\ arena'[r].garbage <=> arena[r].garbage \/ Hit(r)
    <3>1. arena[r] \in ClauseType BY <2>1
    <3>2. arena'[r] = [arena[r] EXCEPT !.garbage = @ \/ Hit(r)] BY <1>1
    <3> QED BY <3>1, <3>2 DEF ClauseType
  <2>3. DOMAIN arena' = DOMAIN arena /\ DOMAIN arena = 1 .. Len(arena) /\ Len(arena) \in Nat
    BY <1>1, <2>1
  <2>4. arena' \in Seq(ClauseType)
    <3>1. arena' = [r \in 1 .. Len(arena) |-> arena'[r]] BY <1>1, <2>3
    <3> QED BY <2>2, <2>3, <3>1
  <2> QED BY <2>2, <2>3, <2>4 DEF References, First
<1>8. ArenaSound' BY <1>6, <1>7 DEF SearchInv, ArenaSound
<1>9. WatchListsOK' /\ WatchesSound'
  <2>1. Firsts' = Firsts BY <1>7 DEF Firsts
  <2> QED BY <1>1, <2>1 DEF SearchInv, WatchListsOK, WatchesSound
<1>10. ReasonsSound'
  <2>1. ~ Analysis /\ conflict = NoConflict BY <1>1, AnalysisOver DEF SearchInv
  <2>2. \A l : ~ Doomed(l)
    <3>1. Targets = {} BY <1>1, <1>2, <1>3 DEF Targets
    <3> QED BY <2>1, <3>1 DEF Doomed, PastFrontier
  <2>3. ASSUME NEW l \in Forced, Fits(l) PROVE Fits(l)'
    <3> DEFINE why == reason[Idx(l)]
    <3> SUFFICES ASSUME why.kind = "large" PROVE ~ arena'[why.ref].garbage /\ l \in First(why.ref)'
      BY <1>1 DEF Fits, First
    <3>1. why.ref \in References /\ Supported(l, ToSet(arena[why.ref].lits) \ {l})
      BY DEF SearchInv, ReasonsSound, ReasonSound
    <3>2. ~ arena[why.ref].garbage /\ l \in First(why.ref) BY <2>3 DEF Fits
    <3>3. ASSUME Hit(why.ref) PROVE FALSE
      <4>1. PICK m \in t.clause : ForcedBy(m, t) BY <1>3
      <4>2. m \in ToSet(arena[why.ref].lits) BY <1>2, <3>3 DEF Hit, Hits
      <4>3. m = l BY <3>1, <4>1, <4>2 DEF Supported, ForcedBy
      <4>4. LevelOf(l) > 0 BY DEF Forced
      <4>5. LevelOf(l) # 0 BY <4>4
      <4>6. why = LargeReason(t.ref) BY <4>1, <4>3, <4>5 DEF ForcedBy
      <4>7. why.ref = t.ref BY <4>6 DEF LargeReason
      <4>8. Len(arena[why.ref].lits) = Cardinality(t.clause)
        BY <1>2, <1>3, <3>1, <4>7 DEF Holds
      <4>9. Len(arena[why.ref].lits) \in Nat BY <3>1 DEF SearchInv, ArenaSound
      <4> QED BY <1>2, <3>3, <4>8, <4>9 DEF Hit, Hits
    <3>4. ~ arena'[why.ref].garbage BY <1>7, <3>1, <3>2, <3>3
    <3>5. l \in First(why.ref)' BY <1>1, <1>7, <3>1, <3>2 DEF First
    <3> QED BY <3>4, <3>5
  <2> QED BY <1>1, <1>7, <2>2, <2>3, ReasonsKept DEF SearchInv
<1>11. ConflictSound' /\ ResolventSound' /\ VisitSound' BY <1>1, AfterAnalysis
<1>12. TodoSound' BY <1>4 DEF TodoSound
<1>13. RefutationSound' /\ formula' \in Formulas BY <1>1 DEF SearchInv, RefutationSound
<1> QED BY <1>6, <1>8, <1>9, <1>10, <1>11, <1>12, <1>13 DEF SearchInv

\* Steps that leave the clauses alone.
LEMMA ClausesKept ==
    ASSUME SearchInv, UNCHANGED <<arena, watches, visit, conflict, formula>>
    PROVE  /\ ArenaSound' /\ WatchListsOK' /\ WatchesSound'
           /\ References' = References
           /\ \A r : First(r)' = First(r)
           /\ \A D : Follows(D)' <=> Follows(D)
           /\ LitsOf(conflict)' = LitsOf(conflict)
           /\ formula' \in Formulas
<1>1. \A D : Follows(D)' <=> Follows(D) BY DEF Follows
<1>2. References' = References /\ \A r : First(r)' = First(r) BY DEF References, First
<1>3. ArenaSound' BY <1>1, <1>2 DEF SearchInv, ArenaSound
<1>4. WatchListsOK' /\ WatchesSound'
  BY DEF SearchInv, WatchListsOK, WatchesSound, Firsts, First, References
<1>5. LitsOf(conflict)' = LitsOf(conflict) BY DEF LitsOf
<1>6. formula' \in Formulas BY DEF SearchInv
<1> QED BY <1>1, <1>2, <1>3, <1>4, <1>5, <1>6

LEMMA ReasonsMoved ==
    ASSUME ReasonsSound, UNCHANGED <<formula, arena, reason>>,
           Forced' \subseteq Forced,
           \A l \in Forced' :
               /\ LevelOf(l)' = LevelOf(l)
               /\ frames'[LevelOf(l)].decision = frames[LevelOf(l)].decision
               /\ \A D \in SUBSET Lit : Supported(l, D) => Supported(l, D)'
               /\ Doomed(l) => Fits(l) \/ Doomed(l)',
           \A r \in References : arena[r].lits \in Seq(Lit)
    PROVE  ReasonsSound'
<1>1. reason' \in [Var -> ReasonType] BY DEF ReasonsSound
<1>2. ASSUME NEW l \in Forced' PROVE ReasonSound(l)' /\ (Fits(l)' \/ Doomed(l)')
  <2>1. l \in Forced OBVIOUS
  <2>2. l \in Lit BY <2>1 DEF Forced
  <2>3. ReasonSound(l) /\ (Fits(l) \/ Doomed(l)) BY <2>1 DEF ReasonsSound
  <2>4. Fits(l)' <=> Fits(l) BY DEF Fits, First
  <2>5. LevelOf(l)' = LevelOf(l) /\ frames'[LevelOf(l)].decision = frames[LevelOf(l)].decision
    OBVIOUS
  <2>6. \A D \in SUBSET Lit : Supported(l, D) => Supported(l, D)' OBVIOUS
  <2>7. \A D : Follows(D)' <=> Follows(D) BY DEF Follows
  <2>8. \A r \in References : ToSet(arena[r].lits) \ {l} \in SUBSET Lit BY DEF ToSet
  <2>9. References' = References BY DEF References
  <2>10. ReasonSound(l)'
    <3>1. CASE reason[Idx(l)].kind = "decision" /\ frames[LevelOf(l)].decision = l
      BY <2>5, <3>1 DEF ReasonSound
    <3>2. CASE /\ reason[Idx(l)].kind = "binary"
               /\ reason[Idx(l)].other \in Lit
               /\ Follows({l, reason[Idx(l)].other})
               /\ Supported(l, {reason[Idx(l)].other})
      <4>1. {reason[Idx(l)].other} \in SUBSET Lit BY <3>2
      <4>2. Supported(l, {reason[Idx(l)].other})' BY <2>6, <3>2, <4>1
      <4> QED BY <2>7, <3>2, <4>2 DEF ReasonSound
    <3>3. CASE /\ reason[Idx(l)].kind = "large"
               /\ reason[Idx(l)].ref \in References
               /\ Supported(l, ToSet(arena[reason[Idx(l)].ref].lits) \ {l})
      <4>1. Supported(l, ToSet(arena[reason[Idx(l)].ref].lits) \ {l})' BY <2>6, <2>8, <3>3
      <4> QED BY <2>9, <3>3, <4>1 DEF ReasonSound
    <3> QED BY <2>3, <3>1, <3>2, <3>3 DEF ReasonSound
  <2> QED BY <2>3, <2>4, <2>10
<1> QED BY <1>1, <1>2 DEF ReasonsSound

\* A conflict, or the resolvent of its analysis, that the backtracks leave alone.
LEMMA ConflictKept ==
    ASSUME SearchInv, UNCHANGED <<arena, conflict, resolvent, formula>>,
           \A l \in Lit : Safe(l) => Safe(l)' /\ LevelOf(l)' = LevelOf(l),
           Analysis' <=> Analysis,
           \A l \in Lit : Safe(l) /\ (LevelOf(l) = CurrentLevel \/ LevelOf(l) \in Targets)
               => (LevelOf(l) = CurrentLevel \/ LevelOf(l) \in Targets)',
           (\E i \in DOMAIN todo' : todo'[i].op = "failed")
               => \E i \in DOMAIN todo : todo[i].op = "failed"
    PROVE  ConflictSound' /\ ResolventSound'
<1>1. \A D : Follows(D)' <=> Follows(D) BY DEF Follows
<1>2. References' = References BY DEF References
<1>3. LitsOf(conflict)' = LitsOf(conflict) BY DEF LitsOf
<1>4. ConflictSound'
  <2>1. \A l : Safe(l) => Safe(l)' BY DEF Safe
  <2> QED BY <1>1, <1>2, <1>3, <2>1 DEF SearchInv, ConflictSound, NoConflict
<1>5. ResolventSound'
  <2>1. ASSUME resolvent # {}
        PROVE  /\ conflict' # NoConflict'
               /\ Follows(resolvent)'
               /\ \A l \in resolvent : Safe(l)' /\ LevelOf(l)' > 0
               /\ \E l \in resolvent : (LevelOf(l) = CurrentLevel \/ LevelOf(l) \in Targets)'
               /\ (\E i \in DOMAIN todo' : todo'[i].op = "failed")
                    => \A l \in resolvent : LevelOf(l)' = 1
    <3>1. /\ conflict # NoConflict
          /\ Follows(resolvent)
          /\ \A l \in resolvent : Safe(l) /\ LevelOf(l) > 0
          /\ \E l \in resolvent : LevelOf(l) = CurrentLevel \/ LevelOf(l) \in Targets
          /\ (\E i \in DOMAIN todo : todo[i].op = "failed")
               => \A l \in resolvent : LevelOf(l) = 1
      BY <2>1 DEF SearchInv, ResolventSound
    <3>2. \A l \in resolvent : l \in Lit BY <3>1 DEF Safe
    <3>3. \A l \in resolvent : Safe(l)' /\ LevelOf(l)' = LevelOf(l) BY <3>1, <3>2
    <3>4. conflict' # NoConflict' BY <3>1 DEF NoConflict
    <3>5. Follows(resolvent)' BY <1>1, <3>1 DEF Follows
    <3>6. \E l \in resolvent : (LevelOf(l) = CurrentLevel \/ LevelOf(l) \in Targets)'
      <4>1. PICK l \in resolvent : LevelOf(l) = CurrentLevel \/ LevelOf(l) \in Targets BY <3>1
      <4> QED BY <3>1, <3>2, <4>1
    <3> QED BY <3>1, <3>3, <3>4, <3>5, <3>6
  <2>2. resolvent # {} <=> Analysis BY DEF SearchInv, ResolventSound
  <2>3. resolvent' # {} <=> Analysis' BY <2>2
  <2> QED BY <2>1, <2>3 DEF ResolventSound
<1> QED BY <1>4, <1>5

LEMMA BacktrackInv == SearchInv /\ DoBacktrack => SearchInv'
<1> SUFFICES ASSUME SearchInv, DoBacktrack PROVE SearchInv'
  OBVIOUS
<1>1. /\ todo # <<>> /\ Head(todo).op = "backtrack" /\ Done
      /\ UNCHANGED <<arena, watches, reason, conflict, resolvent, visit, result, formula>>
      /\ IF Head(todo).to < CurrentLevel THEN BacktrackStart(Head(todo).to)
                                         ELSE UNCHANGED trailVars
  BY DEF DoBacktrack, Doing, analysisVars, clauseVars, loopVars
<1>2. PICK k \in Nat : k = Head(todo).to
  <2>1. todo[1] \in StepType /\ Head(todo) = todo[1] BY <1>1, TodoTail DEF SearchInv
  <2> QED BY <1>1, <2>1, StepTypes
<1>3. Targets = Targets' \cup {k} /\ Targets \subseteq Nat
  BY <1>1, <1>2, TargetsTail, TargetsNat DEF SearchInv
<1>4. CurrentLevel \in Nat /\ frames \in Seq([decision : Lit, trail : Nat])
  BY DEF SearchInv, TrailInv, TrailTypeOK, CurrentLevel
<1>5. UNCHANGED <<values, level, position>>
  BY <1>1, <1>2 DEF BacktrackStart, trailVars
<1>6. /\ CurrentLevel' \in Nat
      /\ IF k < CurrentLevel THEN CurrentLevel' = k ELSE CurrentLevel' = CurrentLevel
      /\ \A j \in 1 .. CurrentLevel' : frames'[j] = frames[j]
  <2>1. CASE k < CurrentLevel
    <3>1. frames' = SubSeq(frames, 1, k) BY <1>1, <1>2, <2>1 DEF BacktrackStart
    <3>2. Len(frames') = k /\ \A j \in 1 .. k : frames'[j] = frames[j]
      BY <1>2, <1>4, <2>1, <3>1 DEF CurrentLevel
    <3> QED BY <1>2, <2>1, <3>2 DEF CurrentLevel
  <2>2. CASE ~ (k < CurrentLevel)
    <3>1. frames' = frames BY <1>1, <1>2, <2>2 DEF trailVars
    <3> QED BY <1>4, <2>2, <3>1 DEF CurrentLevel
  <2> QED BY <2>1, <2>2
<1>7. TrailInv'
  <2>1. CASE k < CurrentLevel
    <3>1. k \in 0 .. CurrentLevel BY <1>2, <1>4, <2>1
    <3>2. TrailNext BY <1>1, <1>2, <2>1, <3>1 DEF TrailNext
    <3> QED BY <3>2, NextInv DEF SearchInv
  <2>2. CASE ~ (k < CurrentLevel) BY <1>1, <1>2, <2>2, NextInv DEF SearchInv
  <2> QED BY <2>1, <2>2
<1>8. \A l : LevelOf(l)' = LevelOf(l) /\ position'[Idx(l)] = position[Idx(l)]
  BY <1>5 DEF LevelOf
<1>9. RootSound' BY <1>1, <1>5, <1>8 DEF SearchInv, RootSound, Follows
<1>10. \A l \in Lit : LevelOf(l) \in Nat BY Values DEF SearchInv
<1>11. \A l \in Lit : Safe(l) => Safe(l)' /\ LevelOf(l)' = LevelOf(l)
  <2> TAKE l \in Lit
  <2> HAVE Safe(l)
  <2>1. values[l] = -1 /\ LevelOf(l) <= CurrentLevel /\ LevelOf(l) <= k
        /\ \A j \in Targets' : LevelOf(l) <= j
    BY <1>3 DEF Safe
  <2>2. LevelOf(l)' <= CurrentLevel' BY <1>6, <1>8, <2>1
  <2> QED BY <1>5, <1>8, <2>1, <2>2 DEF Safe
<1>12. /\ ArenaSound' /\ WatchListsOK' /\ WatchesSound' /\ formula' \in Formulas
       /\ Frontier' = Frontier
  <2>1. /\ ArenaSound' /\ WatchListsOK' /\ WatchesSound' /\ formula' \in Formulas
        /\ LitsOf(conflict)' = LitsOf(conflict)
    BY <1>1, ClausesKept
  <2> QED BY <1>1, <2>1 DEF Frontier
<1>13. ReasonsSound'
  <2>1. Forced' \subseteq Forced
    <3>1. CurrentLevel' <= CurrentLevel BY <1>2, <1>4, <1>6
    <3> QED BY <1>4, <1>5, <1>6, <1>8, <1>10, <3>1 DEF Forced
  <2>2. ASSUME NEW l \in Forced', Doomed(l) PROVE Doomed(l)'
    <3>1. LevelOf(l) \in Nat /\ LevelOf(l) <= CurrentLevel' BY <1>8, <1>10 DEF Forced
    <3>2. LevelOf(l) <= k BY <1>2, <1>4, <1>6, <3>1
    <3>6. k \in Nat /\ ~ (k < LevelOf(l)) BY <1>2, <3>1, <3>2
    <3>3. CASE \E j \in Targets' : j < LevelOf(l) BY <1>8, <3>3 DEF Doomed
    <3>4. CASE ~ (\E j \in Targets' : j < LevelOf(l)) /\ PastFrontier(l)
      <4>1. LevelOf(l) = CurrentLevel BY <3>4 DEF PastFrontier
      <4>2. ~ (k < CurrentLevel) BY <1>2, <1>4, <1>6, <3>1, <4>1
      <4>3. UNCHANGED trailVars BY <1>1, <1>2, <4>2
      <4>4. undo' = undo /\ CurrentLevel' = CurrentLevel BY <4>2, <4>3, <1>6 DEF trailVars
      <4>5. PastFrontier(l)'
        BY <1>1, <1>8, <1>12, <3>4, <4>4 DEF PastFrontier, NoConflict
      <4> QED BY <4>5 DEF Doomed
    <3>5. CASE ~ (\E j \in Targets' : j < LevelOf(l)) /\ ~ PastFrontier(l)
      BY <1>3, <2>2, <3>5, <3>6 DEF Doomed
    <3> QED BY <3>3, <3>4, <3>5
  <2>3. ASSUME NEW l \in Forced'
        PROVE  frames'[LevelOf(l)].decision = frames[LevelOf(l)].decision
    <3>1. LevelOf(l) \in 1 .. CurrentLevel' BY <1>6, <1>8, <1>10 DEF Forced
    <3> QED BY <1>6, <3>1
  <2>4. \A l, D : Supported(l, D) => Supported(l, D)' BY <1>5, <1>8 DEF Supported, Earlier
  <2>5. \A r \in References : arena[r].lits \in Seq(Lit) BY DEF SearchInv, ArenaSound
  <2>6. ReasonsSound BY DEF SearchInv
  <2> QED BY <1>1, <1>8, <2>1, <2>2, <2>3, <2>4, <2>5, <2>6, ReasonsMoved
<1>14. ConflictSound' /\ ResolventSound'
  <2>1. Analysis' <=> Analysis BY <1>1, AnalysisTail DEF SearchInv
  <2>2. ASSUME NEW l \in Lit, Safe(l), LevelOf(l) = CurrentLevel \/ LevelOf(l) \in Targets
        PROVE  LevelOf(l)' = CurrentLevel' \/ LevelOf(l)' \in Targets'
    <3>1. LevelOf(l) <= k /\ LevelOf(l) <= CurrentLevel /\ LevelOf(l) \in Nat
      BY <1>3, <1>10, <2>2 DEF Safe
    <3> QED BY <1>2, <1>3, <1>4, <1>6, <1>8, <2>2, <3>1
  <2>3. (\E i \in DOMAIN todo' : todo'[i].op = "failed")
           => \E i \in DOMAIN todo : todo[i].op = "failed"
    <3>1. \A i \in DOMAIN todo' : i + 1 \in DOMAIN todo /\ todo'[i] = todo[i + 1]
      BY <1>1, TodoTail DEF SearchInv
    <3> QED BY <3>1
  <2> QED BY <1>1, <1>11, <2>1, <2>2, <2>3, ConflictKept
<1>15. VisitSound'
  <2>1. visit' = NoVisit BY <1>1, HandlerIdle
  <2>2. NoVisit' = NoVisit BY DEF NoVisit, NoDelayed
  <2> QED BY <2>1, <2>2, NoVisitTyped DEF VisitSound
<1>16. TodoSound'
  <2>1. 2 \in DOMAIN todo => ~ (todo[2].op = "subsume" /\ Forces(todo[1], todo[2]))
    <3>1. Head(todo) = todo[1] BY <1>1, TodoTail DEF SearchInv
    <3> QED BY <1>1, <3>1 DEF Forces
  <2> QED BY <1>1, <1>11, <2>1, TodoKept DEF SearchInv
<1>17. RefutationSound' BY <1>1 DEF SearchInv, RefutationSound
<1> QED BY <1>7, <1>9, <1>12, <1>13, <1>14, <1>15, <1>16, <1>17 DEF SearchInv

\* The loop of a backtrack keeps the order of the literals that stay.
LEMMA OrderKept ==
    ASSUME TrailInv, BacktrackStep, NEW l \in Lit, NEW m \in Lit,
           values[l] # 0, LevelOf(l) > 0, values[m] # 0, Earlier(m, l)
    PROVE  Earlier(m, l)'
<1>1. undo.active /\ level' = level
  BY DEF BacktrackStep, BacktrackKeep, BacktrackUnassign, BacktrackDone
<1>2. LevelOf(m)' = LevelOf(m) BY <1>1 DEF LevelOf
<1> SUFFICES ASSUME LevelOf(m) # 0 PROVE position'[Idx(m)] < position'[Idx(l)]
  BY <1>2 DEF Earlier
<1>3. Idx(l) \in Var /\ Idx(m) \in Var /\ values[Idx(l)] # 0 /\ values[Idx(m)] # 0
  <2>1. Idx(l) \in Var /\ Idx(m) \in Var BY Values
  <2>2. Idx(l) \in {l, -l} /\ Idx(m) \in {m, -m} BY DEF Idx
  <2>3. values[-l] = -values[l] /\ values[-m] = -values[m] BY Values
  <2>4. values[l] \in {-1, 0, 1} /\ values[m] \in {-1, 0, 1} BY Values
  <2> QED BY <2>1, <2>2, <2>3, <2>4
<1>4. level[Idx(l)] > 0 /\ level[Idx(m)] > 0
  <2>1. LevelOf(m) \in Nat BY Values
  <2> QED BY <2>1 DEF LevelOf
<1>5. /\ position[Idx(l)] \in Nat /\ position[Idx(m)] \in Nat
      /\ position[Idx(l)] + 1 \in Live /\ position[Idx(m)] + 1 \in Live
      /\ position[Idx(m)] < position[Idx(l)]
  BY <1>3, <1>4, Values DEF TrailInv, AssignedOnTrail, Earlier, LevelOf
<1>6. /\ undo.p \in Nat /\ undo.q \in Nat /\ undo.q <= undo.p /\ undo.p <= Len(trail)
      /\ Len(trail) \in Nat /\ Live = (1 .. undo.q) \cup (undo.p + 1 .. Len(trail))
  BY <1>1 DEF TrailInv, TrailTypeOK, LoopBounds, Live
<1>7. CASE BacktrackKeep
  <2> DEFINE lit == trail[undo.p + 1]
             x == Idx(lit)
             y == undo.q
  <2>1. undo.p < Len(trail) /\ position' = [position EXCEPT ![x] = y]
    BY <1>7 DEF BacktrackKeep
  <2>2. undo.p + 1 \in Live BY <1>6, <2>1
  <2>3. position[x] = undo.p BY <1>6, <2>2 DEF TrailInv, SlotsTrue
  <2>4. DOMAIN position = Var BY DEF TrailInv, TrailTypeOK
  <2> HIDE DEF x, y
  <2>5. /\ position'[Idx(l)] = IF Idx(l) = x THEN y ELSE position[Idx(l)]
        /\ position'[Idx(m)] = IF Idx(m) = x THEN y ELSE position[Idx(m)]
    BY <1>3, <2>1, <2>4
  <2>6. CASE Idx(l) = x
    <3>1. position[Idx(l)] = undo.p BY <2>3, <2>6
    <3>2. Idx(m) # x BY <1>5, <2>6
    <3>3. position[Idx(m)] + 1 <= undo.q BY <1>5, <1>6, <3>1
    <3> QED BY <1>5, <1>6, <2>5, <2>6, <3>2, <3>3 DEF y
  <2>7. CASE Idx(l) # x
    <3>1. CASE Idx(m) = x BY <1>5, <1>6, <2>3, <2>5, <2>7, <3>1 DEF y
    <3>2. CASE Idx(m) # x BY <1>5, <2>5, <2>7, <3>2
    <3> QED BY <3>1, <3>2
  <2> QED BY <2>6, <2>7
<1>8. CASE BacktrackUnassign \/ BacktrackDone
  BY <1>5, <1>8 DEF BacktrackUnassign, BacktrackDone
<1> QED BY <1>7, <1>8 DEF BacktrackStep

LEMMA UndoFacts ==
    ASSUME TrailInv, BacktrackStep
    PROVE  /\ undo.active /\ UNCHANGED <<level, frames>> /\ CurrentLevel' = CurrentLevel
           /\ values' \in [Lit -> {-1, 0, 1}]
           /\ \A l \in Lit : /\ LevelOf(l)' = LevelOf(l)
                             /\ LevelOf(l) <= CurrentLevel => values'[l] = values[l]
                             /\ values'[l] = 1 => values[l] = 1
<1>1. undo.active /\ UNCHANGED <<level, frames>>
  BY DEF BacktrackStep, BacktrackKeep, BacktrackUnassign, BacktrackDone
<1>2. CurrentLevel' = CurrentLevel /\ \A l : LevelOf(l)' = LevelOf(l)
  BY <1>1 DEF CurrentLevel, LevelOf
<1>3. TrailInv'
  <2>1. TrailNext BY DEF TrailNext
  <2> QED BY <2>1, NextInv
<1>4. values' \in [Lit -> {-1, 0, 1}] BY <1>3 DEF TrailInv, TrailTypeOK
<1>5. CASE BacktrackUnassign
  <2> DEFINE lit == trail[undo.p + 1]
  <2>1. /\ LevelOf(lit) > CurrentLevel /\ values' = [values EXCEPT ![lit] = 0, ![-lit] = 0]
        /\ undo.p < Len(trail)
    BY <1>1, <1>5 DEF BacktrackUnassign, TrailInv, LoopBounds, CurrentLevel
  <2>2. lit \in Lit
    <3>1. undo.p + 1 \in 1 .. Len(trail) BY <2>1 DEF TrailInv, TrailTypeOK
    <3> QED BY <3>1 DEF TrailInv, TrailTypeOK
  <2>3. LevelOf(-lit) = LevelOf(lit) BY <2>2, Values
  <2>4. CurrentLevel \in Nat BY DEF TrailInv, TrailTypeOK, CurrentLevel
  <2> HIDE DEF lit
  <2>5. ASSUME NEW l \in Lit
        PROVE  /\ LevelOf(l) <= CurrentLevel => values'[l] = values[l]
               /\ values'[l] = 1 => values[l] = 1
    <3>1. LevelOf(l) \in Nat /\ LevelOf(lit) \in Nat BY <2>2, Values
    <3>2. CASE l \in {lit, -lit}
      <4>1. LevelOf(l) = LevelOf(lit) BY <2>3, <3>2
      <4>2. ~ (LevelOf(l) <= CurrentLevel) BY <2>1, <2>4, <3>1, <4>1
      <4>3. values'[l] = 0
        <5>1. values \in [Lit -> {-1, 0, 1}] BY DEF TrailInv, TrailTypeOK
        <5> QED BY <2>1, <3>2, <5>1
      <4> QED BY <4>2, <4>3
    <3>3. CASE l \notin {lit, -lit}
      <4>1. values'[l] = values[l] BY <2>1, <3>3 DEF TrailInv, TrailTypeOK
      <4> QED BY <4>1
    <3> QED BY <3>2, <3>3
  <2> QED BY <1>1, <1>2, <1>4, <2>5
<1>6. CASE BacktrackKeep \/ BacktrackDone
  <2>1. values' = values BY <1>6 DEF BacktrackKeep, BacktrackDone
  <2> QED BY <1>1, <1>2, <1>4, <2>1
<1> QED BY <1>5, <1>6 DEF BacktrackStep

LEMMA UndoInv == SearchInv /\ UndoStep => SearchInv'
<1> SUFFICES ASSUME SearchInv, UndoStep PROVE SearchInv'
  OBVIOUS
<1>1. /\ BacktrackStep
      /\ UNCHANGED <<arena, watches, reason, conflict, resolvent, visit, result, formula, todo>>
  BY DEF UndoStep, analysisVars, clauseVars, loopVars
<1>0. TrailInv BY DEF SearchInv
<1>2. /\ undo.active /\ UNCHANGED <<level, frames>> /\ CurrentLevel' = CurrentLevel
      /\ \A l \in Lit : /\ LevelOf(l)' = LevelOf(l)
                        /\ LevelOf(l) <= CurrentLevel => values'[l] = values[l]
                        /\ values'[l] = 1 => values[l] = 1
  BY <1>0, <1>1, UndoFacts
<1>3. TrailInv'
  <2>1. TrailNext BY <1>1 DEF TrailNext
  <2> QED BY <1>0, <2>1, NextInv
<1>4. RootSound'
  BY <1>1, <1>2 DEF SearchInv, RootSound, Follows
<1>5. Targets' = Targets /\ (Analysis' <=> Analysis) BY <1>1 DEF Targets, Analysis
<1>6. \A l \in Lit : Safe(l) => Safe(l)' BY <1>2, <1>5 DEF Safe
<1>7. ArenaSound' /\ WatchListsOK' /\ WatchesSound' /\ formula' \in Formulas
  BY <1>1, ClausesKept
<1>8. \A l \in Lit : LevelOf(l) \in Nat BY <1>0, Values
<1>9. ReasonsSound'
  <2>1. Forced' = Forced BY <1>2 DEF Forced
  <2>2. ASSUME NEW l \in Forced', NEW D \in SUBSET Lit, Supported(l, D) PROVE Supported(l, D)'
    <3>1. l \in Lit /\ values[l] = 1 /\ LevelOf(l) > 0 /\ LevelOf(l) <= CurrentLevel
      BY <2>1 DEF Forced
    <3>2. ASSUME NEW m \in D
          PROVE  values'[m] = -1 /\ LevelOf(m)' <= LevelOf(l)' /\ Earlier(m, l)'
      <4>1. m \in Lit /\ values[m] = -1 /\ LevelOf(m) <= LevelOf(l) /\ Earlier(m, l)
        BY <2>2 DEF Supported
      <4>2. LevelOf(m) <= CurrentLevel
        <5>1. CurrentLevel \in Nat BY <1>0 DEF TrailInv, TrailTypeOK, CurrentLevel
        <5> QED BY <1>8, <3>1, <4>1, <5>1
      <4>3. Earlier(m, l)'
        <5>1. values[l] # 0 /\ values[m] # 0 BY <3>1, <4>1
        <5> QED BY <1>0, <1>1, <3>1, <4>1, <5>1, OrderKept
      <4> QED BY <1>2, <3>1, <4>1, <4>2, <4>3
    <3>3. \E m \in D : LevelOf(m)' = LevelOf(l)'
      <4>1. PICK m \in D : LevelOf(m) = LevelOf(l) BY <2>2 DEF Supported
      <4> QED BY <1>2, <3>1, <4>1
    <3> QED BY <3>2, <3>3 DEF Supported
  <2>3. ASSUME NEW l \in Forced', Doomed(l) PROVE Doomed(l)'
    <3>1. l \in Lit BY <2>1 DEF Forced
    <3>2. ~ PastFrontier(l) BY <1>2 DEF PastFrontier
    <3> QED BY <1>2, <1>5, <2>3, <3>1, <3>2 DEF Doomed
  <2>4. \A r \in References : arena[r].lits \in Seq(Lit) BY DEF SearchInv, ArenaSound
  <2>5. ReasonsSound /\ \A l \in Forced : l \in Lit BY DEF SearchInv, Forced
  <2> QED BY <1>1, <1>2, <2>1, <2>2, <2>3, <2>4, <2>5, ReasonsMoved
<1>10. ConflictSound' /\ ResolventSound'
  <2>1. \A l \in Lit : (LevelOf(l) = CurrentLevel \/ LevelOf(l) \in Targets)
                         => (LevelOf(l)' = CurrentLevel' \/ LevelOf(l)' \in Targets')
    BY <1>2, <1>5
  <2> QED BY <1>1, <1>2, <1>5, <1>6, <2>1, ConflictKept
<1>11. VisitSound'
  <2>1. visit = NoVisit BY <1>2 DEF SearchInv, VisitSound
  <2>2. visit' = NoVisit' BY <1>1, <2>1 DEF NoVisit, NoDelayed
  <2> QED BY <2>2, NoVisitTyped DEF VisitSound
<1>12. TodoSound'
  <2>1. todo \in Seq(StepType) /\ \A i \in DOMAIN todo : Holds(todo[i]) /\ Placed(i)
    BY DEF SearchInv, TodoSound
  <2>2. ASSUME NEW i \in DOMAIN todo PROVE Holds(todo[i])' /\ Placed(i)'
    <3>1. todo[i] \in StepType /\ Holds(todo[i]) /\ Placed(i) BY <2>1
    <3>2. PICK t \in StepType : t = todo[i] /\ Holds(t) BY <3>1
    <3>3. Holds(t)' BY <1>1, <1>6, <3>2, HoldsKept
    <3>4. Placed(i)' BY <1>1, <1>2, <3>1 DEF Placed
    <3> QED BY <1>1, <3>2, <3>3, <3>4
  <2>3. conflict # NoConflict /\ todo # <<>> => Analysis BY DEF SearchInv, TodoSound
  <2> QED BY <1>1, <1>5, <2>1, <2>2, <2>3 DEF TodoSound, NoConflict
<1>13. RefutationSound' BY <1>1 DEF SearchInv, RefutationSound
<1> QED BY <1>3, <1>4, <1>7, <1>9, <1>10, <1>11, <1>12, <1>13 DEF SearchInv

-----------------------------------------------------------------------------
\* Assigning a literal.
LEMMA PushKept ==
    ASSUME TrailInv, ~ undo.active, NEW lit \in Lit, NEW lvl \in Nat, Push(lit, lvl)
    PROVE  /\ values[lit] = 0 /\ values'[lit] = 1 /\ values'[-lit] = -1
           /\ LevelOf(lit)' = lvl /\ position'[Idx(lit)] = Len(trail)
           /\ \A m \in Lit : m \notin {lit, -lit} =>
                /\ values'[m] = values[m] /\ LevelOf(m)' = LevelOf(m)
                /\ position'[Idx(m)] = position[Idx(m)]
           /\ \A m \in Lit : values[m] # 0 => m \notin {lit, -lit}
<1>1. /\ values[lit] = 0 /\ values' = [values EXCEPT ![lit] = 1, ![-lit] = -1]
      /\ level' = [level EXCEPT ![Idx(lit)] = lvl]
      /\ position' = [position EXCEPT ![Idx(lit)] = Len(trail)]
  BY DEF Push
<1>2. -lit \in Lit /\ -lit # lit /\ Idx(lit) \in Var /\ values[-lit] = 0
  <2>1. /\ values[-lit] = -values[lit] /\ values[lit] \in {-1, 0, 1}
        /\ -lit \in Lit /\ values[-lit] \in {-1, 0, 1}
    BY Values, LitFacts
  <2>2. values[lit] = 0 BY <1>1
  <2>3. values[-lit] = 0
    <3>1. \A x \in {-1, 0, 1} : \A y \in {-1, 0, 1} : y = -x /\ y # 0 => x # 0 OBVIOUS
    <3> QED BY <2>1, <2>2, <3>1, Zenon
  <2> QED BY <2>3, LitFacts
<1>3. DOMAIN values = Lit /\ DOMAIN level = Var /\ DOMAIN position = Var
  BY DEF TrailInv, TrailTypeOK
<1>4. ASSUME NEW m \in Lit, m \notin {lit, -lit}
      PROVE  /\ values'[m] = values[m] /\ LevelOf(m)' = LevelOf(m)
             /\ position'[Idx(m)] = position[Idx(m)]
  <2>1. Idx(m) \in Var /\ Idx(m) # Idx(lit) BY <1>4, LitFacts
  <2>2. values'[m] = values[m] BY <1>1, <1>3, <1>4
  <2>3. level'[Idx(m)] = level[Idx(m)] /\ position'[Idx(m)] = position[Idx(m)]
    BY <1>1, <1>3, <2>1
  <2> QED BY <2>2, <2>3 DEF LevelOf
<1>5. values'[lit] = 1 /\ values'[-lit] = -1 BY <1>1, <1>2, <1>3
<1>6. LevelOf(lit)' = lvl /\ position'[Idx(lit)] = Len(trail)
  <2>1. level'[Idx(lit)] = lvl /\ position'[Idx(lit)] = Len(trail) BY <1>1, <1>2, <1>3
  <2> QED BY <2>1 DEF LevelOf
<1> QED BY <1>1, <1>2, <1>4, <1>5, <1>6

LEMMA PushSupported ==
    ASSUME TrailInv, ~ undo.active, NEW lit \in Lit, NEW lvl \in Nat, Push(lit, lvl),
           NEW l \in Lit, values[l] = 1, NEW D \in SUBSET Lit, Supported(l, D)
    PROVE  Supported(l, D)'
<1>1. values[l] # 0 OBVIOUS
<1>2. LevelOf(l)' = LevelOf(l) /\ position'[Idx(l)] = position[Idx(l)]
  BY <1>1, PushKept
<1>3. ASSUME NEW m \in D
      PROVE  /\ values'[m] = -1 /\ LevelOf(m)' = LevelOf(m) /\ LevelOf(m)' <= LevelOf(l)'
             /\ Earlier(m, l)'
  <2>1. m \in Lit /\ values[m] = -1 /\ LevelOf(m) <= LevelOf(l) /\ Earlier(m, l)
    BY DEF Supported
  <2>2. values[m] # 0 BY <2>1
  <2>3. /\ values'[m] = values[m] /\ LevelOf(m)' = LevelOf(m)
        /\ position'[Idx(m)] = position[Idx(m)]
    BY <2>1, <2>2, PushKept
  <2> QED BY <1>2, <2>1, <2>3 DEF Earlier
<1>4. \E m \in D : LevelOf(m)' = LevelOf(l)'
  <2>1. PICK m \in D : LevelOf(m) = LevelOf(l) BY DEF Supported
  <2> QED BY <1>2, <1>3, <2>1
<1> QED BY <1>3, <1>4 DEF Supported

\* The literal that is assigned now comes after all the others.
LEMMA NewSupported ==
    ASSUME TrailInv, ~ undo.active, NEW lit \in Lit, NEW lvl \in Nat, Push(lit, lvl),
           NEW D \in SUBSET Lit,
           \A m \in D : values[m] = -1 /\ LevelOf(m) <= lvl,
           \E m \in D : LevelOf(m) = lvl
    PROVE  Supported(lit, D)'
<1>1. LevelOf(lit)' = lvl /\ position'[Idx(lit)] = Len(trail) BY PushKept
<1>2. ASSUME NEW m \in D
      PROVE  /\ values'[m] = -1 /\ LevelOf(m)' = LevelOf(m) /\ Earlier(m, lit)'
  <2>1. m \in Lit /\ values[m] = -1 /\ values[m] # 0 OBVIOUS
  <2>2. /\ values'[m] = values[m] /\ LevelOf(m)' = LevelOf(m)
        /\ position'[Idx(m)] = position[Idx(m)]
    BY <2>1, PushKept
  <2>3. LevelOf(m) \in Nat BY <2>1, Values
  <2>4. LevelOf(m) > 0 => position[Idx(m)] < Len(trail) BY <2>1, Assigned
  <2> QED BY <1>1, <2>1, <2>2, <2>3, <2>4 DEF Earlier
<1> QED BY <1>1, <1>2 DEF Supported

\* kissat_assign keeps the reasons sound, when the new one is.
LEMMA AssignSound ==
    ASSUME SearchInv, conflict = NoConflict, NEW lit \in Lit, NEW lvl \in 0 .. CurrentLevel,
           NEW why \in ReasonType, AssignReason(lit, lvl, why),
           UNCHANGED <<arena, formula>>, Targets \subseteq Targets', Targets' \subseteq Targets,
           lvl = 0 => Follows({lit}),
           lvl > 0 =>
               \/ /\ why.kind = "binary"
                  /\ why.other \in Lit
                  /\ Follows({lit, why.other})
                  /\ values[why.other] = -1 /\ LevelOf(why.other) = lvl
               \/ /\ why.kind = "large"
                  /\ why.ref \in References
                  /\ ~ arena[why.ref].garbage
                  /\ lit \in First(why.ref)
                  /\ \A m \in ToSet(arena[why.ref].lits) \ {lit} :
                        values[m] = -1 /\ LevelOf(m) <= lvl
                  /\ \E m \in ToSet(arena[why.ref].lits) \ {lit} : LevelOf(m) = lvl
    PROVE  /\ TrailInv' /\ RootSound' /\ ReasonsSound'
           /\ \A l \in Lit : Safe(l) => Safe(l)'
           /\ values'[lit] = 1 /\ ~ undo'.active
           /\ LevelOf(lit)' = 0 \/ reason'[Idx(lit)] = why
<1> DEFINE now == IF lvl = 0 THEN UnitReason ELSE why
<1>1. /\ TrailInv /\ ~ undo.active /\ Assign(lit, lvl) /\ Push(lit, lvl)
      /\ frames' = frames /\ undo' = undo
      /\ reason' = [reason EXCEPT ![Idx(lit)] = now]
  BY DEF AssignReason, Assign, SearchInv
<1> HIDE DEF now
<1>2. CurrentLevel \in Nat /\ lvl \in Nat /\ CurrentLevel' = CurrentLevel
  <2>1. CurrentLevel \in Nat BY <1>1 DEF TrailInv, TrailTypeOK, CurrentLevel
  <2> QED BY <1>1, <2>1 DEF CurrentLevel
<1>3. /\ values[lit] = 0 /\ values'[lit] = 1 /\ values'[-lit] = -1
      /\ LevelOf(lit)' = lvl
      /\ \A m \in Lit : m \notin {lit, -lit} =>
           /\ values'[m] = values[m] /\ LevelOf(m)' = LevelOf(m)
           /\ position'[Idx(m)] = position[Idx(m)]
      /\ \A m \in Lit : values[m] # 0 => m \notin {lit, -lit}
  BY <1>1, <1>2, PushKept
<1>4. TrailInv' BY <1>1, AssignInv
<1>5. \A D : Follows(D)' <=> Follows(D) BY DEF Follows
<1>6. RootSound'
  <2>1. ASSUME NEW l \in Lit, values'[l] = 1, LevelOf(l)' = 0 PROVE Follows({l})
    <3>1. CASE l = lit BY <1>3, <2>1, <3>1
    <3>2. CASE l = -lit BY <1>3, <2>1, <3>2
    <3>3. CASE l \notin {lit, -lit} BY <1>3, <2>1, <3>3 DEF SearchInv, RootSound
    <3> QED BY <3>1, <3>2, <3>3
  <2> QED BY <1>5, <2>1 DEF RootSound
<1>7. \A l \in Lit : Safe(l) => Safe(l)'
  <2> TAKE l \in Lit
  <2> HAVE Safe(l)
  <2>1. values[l] = -1 /\ values[l] # 0 /\ LevelOf(l) <= CurrentLevel
        /\ \A k \in Targets : LevelOf(l) <= k
    BY DEF Safe
  <2> QED BY <1>2, <1>3, <2>1 DEF Safe
<1>8. now \in ReasonType /\ DOMAIN reason = Var /\ Idx(lit) \in Var
  <2>1. UnitReason \in ReasonType BY DEF UnitReason, ReasonType
  <2>2. Idx(lit) \in Var BY LitFacts
  <2> QED BY <2>1, <2>2 DEF now, SearchInv, ReasonsSound
<1>9. reason' \in [Var -> ReasonType] /\ reason'[Idx(lit)] = now
  BY <1>1, <1>8 DEF SearchInv, ReasonsSound
<1>10. References' = References /\ \A r : First(r)' = First(r) BY DEF References, First
<1>11. \A r \in References : arena[r].lits \in Seq(Lit) BY DEF SearchInv, ArenaSound
<1>12. ASSUME NEW l \in Forced' PROVE ReasonSound(l)' /\ (Fits(l)' \/ Doomed(l)')
  <2>0. l \in Lit /\ values'[l] = 1 /\ LevelOf(l)' > 0 /\ LevelOf(l)' <= CurrentLevel
    BY <1>2 DEF Forced
  <2>1. CASE l = lit
    <3>1. lvl > 0 /\ reason'[Idx(l)] = why BY <1>3, <1>9, <2>0, <2>1 DEF now
    <3>2. CASE /\ why.kind = "binary"
               /\ why.other \in Lit
               /\ Follows({lit, why.other})
               /\ values[why.other] = -1 /\ LevelOf(why.other) = lvl
      <4>1. {why.other} \in SUBSET Lit BY <3>2
      <4>2. /\ \A m \in {why.other} : values[m] = -1 /\ LevelOf(m) <= lvl
            /\ \E m \in {why.other} : LevelOf(m) = lvl
        BY <1>2, <3>2
      <4>3. Supported(lit, {why.other})' BY <1>1, <1>2, <4>1, <4>2, NewSupported
      <4> QED BY <1>5, <2>1, <3>1, <3>2, <4>3 DEF ReasonSound, Fits
    <3>3. CASE /\ why.kind = "large"
               /\ why.ref \in References
               /\ ~ arena[why.ref].garbage
               /\ lit \in First(why.ref)
               /\ \A m \in ToSet(arena[why.ref].lits) \ {lit} :
                     values[m] = -1 /\ LevelOf(m) <= lvl
               /\ \E m \in ToSet(arena[why.ref].lits) \ {lit} : LevelOf(m) = lvl
      <4>1. PICK D \in SUBSET Lit : D = ToSet(arena[why.ref].lits) \ {lit}
        <5>1. arena[why.ref].lits \in Seq(Lit) BY <1>11, <3>3
        <5>2. ToSet(arena[why.ref].lits) \ {lit} \in SUBSET Lit BY <5>1 DEF ToSet
        <5> QED BY <5>2
      <4>2. /\ \A m \in D : values[m] = -1 /\ LevelOf(m) <= lvl
            /\ \E m \in D : LevelOf(m) = lvl
        BY <3>3, <4>1
      <4>3. Supported(lit, D)' BY <1>1, <1>2, <4>2, NewSupported
      <4>4. D = ToSet(arena'[why.ref].lits) \ {lit} BY <4>1
      <4>5. ReasonSound(l)' BY <1>10, <2>1, <3>1, <3>3, <4>3, <4>4 DEF ReasonSound
      <4>6. Fits(l)' BY <1>10, <2>1, <3>1, <3>3 DEF Fits
      <4> QED BY <4>5, <4>6
    <3> QED BY <3>1, <3>2, <3>3
  <2>2. CASE l # lit
    <3>1. l # -lit
      <4>1. values'[-lit] = -1 BY <1>3
      <4> QED BY <2>0, <4>1
    <3>2. values[l] = 1 /\ LevelOf(l)' = LevelOf(l) BY <1>3, <2>0, <2>2, <3>1
    <3>3. l \in Forced BY <2>0, <3>2 DEF Forced
    <3>4. ReasonSound(l) /\ (Fits(l) \/ Doomed(l)) BY <3>3 DEF SearchInv, ReasonsSound
    <3>5. reason'[Idx(l)] = reason[Idx(l)]
      <4>1. Idx(l) # Idx(lit) /\ Idx(l) \in Var BY <2>0, <2>2, <3>1, LitFacts
      <4> QED BY <1>1, <1>8, <4>1
    <3>6. \A D \in SUBSET Lit : Supported(l, D) => Supported(l, D)'
      <4> TAKE D \in SUBSET Lit
      <4> QED BY <1>1, <1>2, <2>0, <3>2, PushSupported
    <3>7. ReasonSound(l)'
      <4>1. CASE reason[Idx(l)].kind = "decision" /\ frames[LevelOf(l)].decision = l
        BY <1>1, <3>2, <3>5, <4>1 DEF ReasonSound
      <4>2. CASE /\ reason[Idx(l)].kind = "binary"
                 /\ reason[Idx(l)].other \in Lit
                 /\ Follows({l, reason[Idx(l)].other})
                 /\ Supported(l, {reason[Idx(l)].other})
        <5>1. PICK m \in Lit : m = reason[Idx(l)].other BY <4>2
        <5>2. Supported(l, {m})' BY <3>6, <4>2, <5>1
        <5> QED BY <1>5, <3>5, <4>2, <5>1, <5>2 DEF ReasonSound
      <4>3. CASE /\ reason[Idx(l)].kind = "large"
                 /\ reason[Idx(l)].ref \in References
                 /\ Supported(l, ToSet(arena[reason[Idx(l)].ref].lits) \ {l})
        <5>1. ToSet(arena[reason[Idx(l)].ref].lits) \ {l} \in SUBSET Lit
          <6>1. arena[reason[Idx(l)].ref].lits \in Seq(Lit) BY <1>11, <4>3
          <6> QED BY <6>1 DEF ToSet
        <5>2. PICK D \in SUBSET Lit : D = ToSet(arena[reason[Idx(l)].ref].lits) \ {l} BY <5>1
        <5>3. Supported(l, D)' BY <3>6, <4>3, <5>2
        <5>4. D = ToSet(arena'[reason'[Idx(l)].ref].lits) \ {l} BY <3>5, <5>2
        <5> QED BY <1>10, <3>5, <4>3, <5>3, <5>4 DEF ReasonSound
      <4> QED BY <3>4, <4>1, <4>2, <4>3 DEF ReasonSound
    <3>8. Fits(l)' <=> Fits(l) BY <1>10, <3>5 DEF Fits
    <3>9. Doomed(l) => Doomed(l)'
      <4>1. ~ PastFrontier(l) BY DEF PastFrontier
      <4> QED BY <3>2, <4>1 DEF Doomed
    <3> QED BY <3>4, <3>7, <3>8, <3>9
  <2> QED BY <2>1, <2>2
<1>13. ReasonsSound' BY <1>9, <1>12 DEF ReasonsSound
<1>14. LevelOf(lit)' = 0 \/ reason'[Idx(lit)] = why BY <1>3, <1>9 DEF now
<1> QED BY <1>1, <1>3, <1>4, <1>6, <1>7, <1>13, <1>14

\* The reason of a literal that jumps over a binary reason.
LEMMA JumpedFacts ==
    ASSUME SearchInv, NEW lit \in Lit, NEW other \in Lit, lit # other, Follows({lit, other}),
           values[other] = -1, LevelOf(other) <= CurrentLevel, NEW jumping
    PROVE  LET why == BinaryReason(Jumped(other, jumping)) IN
           /\ why \in ReasonType /\ why.kind = "binary"
           /\ why.other \in Lit
           /\ Follows({lit, why.other})
           /\ values[why.other] = -1 /\ LevelOf(why.other) = LevelOf(other)
<1> DEFINE j == Jumped(other, jumping)
           o == reason[Idx(other)]
<1>1. \A m \in Lit : /\ BinaryReason(m) \in ReasonType
                     /\ BinaryReason(m).kind = "binary" /\ BinaryReason(m).other = m
  BY DEF BinaryReason, ReasonType
<1>2. CASE j = other BY <1>1, <1>2
<1>3. CASE j # other
  <2>1. LevelOf(other) > 0 /\ o.kind = "binary" /\ j = o.other BY <1>3 DEF Jumped
  <2>2. /\ -other \in Lit /\ values[-other] = -values[other] /\ -(-other) = other
        /\ Idx(-other) = Idx(other) /\ LevelOf(-other) = LevelOf(other)
    BY Values DEF SearchInv
  <2>3. values[-other] = 1
    <3>1. \A x \in {-1, 0, 1}, y \in {-1, 0, 1} : y = -x /\ x = -1 => y = 1 OBVIOUS
    <3>2. values[other] \in {-1, 0, 1} /\ values[-other] \in {-1, 0, 1}
      BY <2>2, Values DEF SearchInv
    <3> QED BY <2>2, <3>1, <3>2, Zenon
  <2>4. -other \in Forced BY <2>1, <2>2, <2>3 DEF Forced
  <2>5. ReasonSound(-other) BY <2>4 DEF SearchInv, ReasonsSound
  <2>6. j \in Lit /\ Follows({-other, j}) /\ Supported(-other, {j})
    BY <2>1, <2>2, <2>5 DEF ReasonSound
  <2>7. values[j] = -1 /\ LevelOf(j) = LevelOf(other) BY <2>2, <2>6 DEF Supported
  <2>8. Follows({lit, j})
    <3>1. {-other} \cup {j} = {-other, j} /\ ({lit, other} \ {other}) \cup {j} = {lit, j}
      OBVIOUS
    <3>2. Follows({-other} \cup {j}) BY <2>6, <3>1
    <3>3. Follows(({lit, other} \ {other}) \cup {j})
      <4> DEFINE B == {j}
      <4> HIDE DEF B
      <4>1. Follows({-other} \cup B) BY <3>2 DEF B
      <4>2. Follows(({lit, other} \ {other}) \cup B) BY <4>1, FollowsResolvent
      <4> QED BY <4>2 DEF B
    <3> QED BY <3>1, <3>3
  <2> HIDE DEF j
  <2>9. BinaryReason(j).other = j BY <1>1, <2>6
  <2> QED BY <1>1, <2>6, <2>7, <2>8, <2>9 DEF j
<1> QED BY <1>2, <1>3

\* The steps of a handler that assign a literal.
LEMMA AssignStep ==
    ASSUME SearchInv, todo # <<>>, Done, Head(todo).op \notin {"backtrack", "deduce", "failed"},
           UNCHANGED <<resolvent, watches, arena, conflict, visit, result, formula>>,
           TrailInv', RootSound', ReasonsSound',
           \A l \in Lit : Safe(l) => Safe(l)',
           \A t \in StepType :
               2 \in DOMAIN todo /\ t = todo[2] /\ t.op = "subsume" /\ Forces(todo[1], t)
                   => ~ undo'.active /\ \E l \in t.clause : ForcedBy(l, t)'
    PROVE  SearchInv'
<1>1. /\ ArenaSound' /\ WatchListsOK' /\ WatchesSound' /\ formula' \in Formulas
  BY ClausesKept
<1>2. ConflictSound' /\ ResolventSound' /\ VisitSound' BY AfterAnalysis
<1>3. TodoSound' BY TodoKept DEF SearchInv
<1>4. RefutationSound' BY DEF SearchInv, RefutationSound
<1> QED BY <1>1, <1>2, <1>3, <1>4 DEF SearchInv

LEMMA LearnedUnitInv == SearchInv /\ DoLearnedUnit => SearchInv'
<1> SUFFICES ASSUME SearchInv, DoLearnedUnit PROVE SearchInv'
  OBVIOUS
<1>1. /\ todo # <<>> /\ Head(todo).op = "unit" /\ Done
      /\ UNCHANGED <<resolvent, watches, arena, conflict, visit, result, formula>>
      /\ AssignReason(Head(todo).lit, 0, UnitReason)
  BY DEF DoLearnedUnit, Doing, analysisVars, loopVars
<1>2. PICK t \in StepType : t = Head(todo) /\ t = todo[1] /\ Holds(t)
  <2>1. 1 \in DOMAIN todo /\ Head(todo) = todo[1] /\ todo[1] \in StepType
    BY <1>1, TodoTail DEF SearchInv
  <2> QED BY <2>1 DEF SearchInv, TodoSound
<1>3. t.lit \in Lit /\ Follows({t.lit}) BY <1>1, <1>2, StepTypes DEF Holds
<1>4. Targets' = Targets /\ conflict = NoConflict
  BY <1>1, TargetsTail, AnalysisOver DEF SearchInv
<1>5. PICK lit \in Lit : lit = t.lit BY <1>3
<1>6. PICK lvl \in 0 .. CurrentLevel : lvl = 0
  <2>1. CurrentLevel \in Nat BY DEF SearchInv, TrailInv, TrailTypeOK, CurrentLevel
  <2> QED BY <2>1
<1>7. UnitReason \in ReasonType BY DEF UnitReason, ReasonType
<1>8. AssignReason(lit, lvl, UnitReason) BY <1>1, <1>2, <1>5, <1>6
<1>9. /\ TrailInv' /\ RootSound' /\ ReasonsSound'
      /\ \A l \in Lit : Safe(l) => Safe(l)'
      /\ values'[lit] = 1 /\ ~ undo'.active
  <2>1. ~ (lvl > 0) /\ Follows({lit}) BY <1>3, <1>5, <1>6
  <2>2. Targets \subseteq Targets' /\ Targets' \subseteq Targets BY <1>4
  <2>3. UNCHANGED <<arena, formula>> BY <1>1
  <2> QED BY <1>4, <1>7, <1>8, <2>1, <2>2, <2>3, AssignSound
<1>10. LevelOf(lit)' = 0
  <2>1. TrailInv /\ ~ undo.active /\ Push(lit, 0) /\ 0 \in Nat
    BY <1>6, <1>8 DEF SearchInv, AssignReason, Assign
  <2> QED BY <2>1, PushKept
<1>11. ASSUME NEW s \in StepType, 2 \in DOMAIN todo, s = todo[2], s.op = "subsume",
              Forces(todo[1], s)
       PROVE  ~ undo'.active /\ \E l \in s.clause : ForcedBy(l, s)'
  <2>1. lit \in s.clause BY <1>2, <1>5, <1>11 DEF Forces
  <2>2. ForcedBy(lit, s)' BY <1>9, <1>10 DEF ForcedBy
  <2> QED BY <1>9, <2>1, <2>2
<1> QED BY <1>1, <1>9, <1>11, AssignStep

LEMMA ForceInv == SearchInv /\ DoForce => SearchInv'
<1> SUFFICES ASSUME SearchInv, DoForce PROVE SearchInv'
  OBVIOUS
<1>1. /\ todo # <<>> /\ Head(todo).op \in {"forceBinary", "forceLarge"} /\ Done
      /\ UNCHANGED <<resolvent, watches, arena, conflict, visit, result, formula>>
  BY DEF DoForce, Doing, analysisVars, loopVars
<1>2. PICK t \in StepType : t = Head(todo) /\ t = todo[1] /\ Holds(t)
  <2>1. 1 \in DOMAIN todo /\ Head(todo) = todo[1] /\ todo[1] \in StepType
    BY <1>1, TodoTail DEF SearchInv
  <2> QED BY <2>1 DEF SearchInv, TodoSound
<1>3. PICK lit \in Lit : lit = t.lit BY <1>1, <1>2, StepTypes
<1>4. Targets' = Targets /\ conflict = NoConflict
  BY <1>1, TargetsTail, AnalysisOver DEF SearchInv
<1>5. CurrentLevel \in Nat /\ TrailInv
  BY DEF SearchInv, TrailInv, TrailTypeOK, CurrentLevel
<1>6. ASSUME NEW lvl \in 0 .. CurrentLevel, NEW why \in ReasonType, AssignReason(lit, lvl, why),
             lvl = 0 => Follows({lit}),
             lvl > 0 =>
               \/ /\ why.kind = "binary"
                  /\ why.other \in Lit
                  /\ Follows({lit, why.other})
                  /\ values[why.other] = -1 /\ LevelOf(why.other) = lvl
               \/ /\ why.kind = "large"
                  /\ why.ref \in References
                  /\ ~ arena[why.ref].garbage
                  /\ lit \in First(why.ref)
                  /\ \A m \in ToSet(arena[why.ref].lits) \ {lit} :
                        values[m] = -1 /\ LevelOf(m) <= lvl
                  /\ \E m \in ToSet(arena[why.ref].lits) \ {lit} : LevelOf(m) = lvl,
             why.kind = "binary" \/ (why = LargeReason(t.ref) /\ t.op = "forceLarge")
      PROVE  SearchInv'
  <2>1. /\ TrailInv' /\ RootSound' /\ ReasonsSound'
        /\ \A l \in Lit : Safe(l) => Safe(l)'
        /\ values'[lit] = 1 /\ ~ undo'.active
        /\ LevelOf(lit)' = 0 \/ reason'[Idx(lit)] = why
    BY <1>1, <1>4, <1>6, AssignSound
  <2>2. ASSUME NEW s \in StepType, 2 \in DOMAIN todo, s = todo[2], s.op = "subsume",
               Forces(todo[1], s)
        PROVE  ~ undo'.active /\ \E l \in s.clause : ForcedBy(l, s)'
    <3>1. lit \in s.clause BY <1>2, <1>3, <2>2 DEF Forces
    <3>2. t.op = "forceLarge" => s.ref = t.ref BY <1>2, <2>2 DEF Forces
    <3>3. LevelOf(lit)' = 0 \/ reason'[Idx(lit)].kind = "binary"
          \/ reason'[Idx(lit)] = LargeReason(s.ref)
      BY <1>6, <2>1, <3>2
    <3>4. ForcedBy(lit, s)' BY <2>1, <3>3 DEF ForcedBy, LargeReason
    <3> QED BY <2>1, <3>1, <3>4
  <2> QED BY <1>1, <2>1, <2>2, AssignStep
<1>7. CASE t.op = "forceBinary"
  <2>1. PICK other \in Lit : other = t.other BY <1>2, <1>7, StepTypes
  <2>2. lit # other /\ Follows({lit, other}) /\ Safe(other) BY <1>2, <1>3, <1>7, <2>1 DEF Holds
  <2>3. values[other] = -1 /\ LevelOf(other) <= CurrentLevel BY <2>2 DEF Safe
  <2>4. PICK lvl \in 0 .. CurrentLevel : lvl = LevelOf(other)
    <3>1. LevelOf(other) \in Nat BY <1>5, Values
    <3> QED BY <1>5, <2>3, <3>1
  <2> DEFINE j == BinaryReason(Jumped(other, JumpReasons))
  <2>5. /\ j \in ReasonType /\ j.kind = "binary"
        /\ j.other \in Lit
        /\ Follows({lit, j.other})
        /\ values[j.other] = -1 /\ LevelOf(j.other) = LevelOf(other)
    BY <2>2, <2>3, JumpedFacts
  <2>6. PICK why \in ReasonType : why = j BY <2>5
  <2>7. AssignReason(lit, lvl, why)
    <3>1. AssignBinary(lit, other) BY <1>2, <1>3, <1>7, <2>1 DEF DoForce, Doing
    <3> QED BY <2>4, <2>6, <3>1 DEF AssignBinary
  <2>8. lvl = 0 => Follows({lit})
    <3> HAVE lvl = 0
    <3>1. Follows({-other}) BY <1>5, <2>3, <2>4, RootFalse DEF SearchInv
    <3>2. \A m \in {lit, other} \ {lit} : Follows({-m}) BY <3>1
    <3> QED BY <2>2, <3>2, FollowsWithout
  <2> HIDE DEF j
  <2>9. /\ why.kind = "binary" /\ why.other \in Lit /\ Follows({lit, why.other})
        /\ values[why.other] = -1 /\ LevelOf(why.other) = lvl
    BY <2>4, <2>5, <2>6
  <2>10. why.kind = "binary" BY <2>9
  <2>11. lvl > 0 =>
           /\ why.kind = "binary"
           /\ why.other \in Lit
           /\ Follows({lit, why.other})
           /\ values[why.other] = -1 /\ LevelOf(why.other) = lvl
    BY <2>9
  <2> QED BY <1>6, <2>7, <2>8, <2>10, <2>11
<1>8. CASE t.op = "forceLarge"
  <2>1. PICK ref \in Nat : ref = t.ref BY <1>2, <1>8, StepTypes
  <2>2. /\ ref \in References
        /\ ~ arena[ref].garbage
        /\ lit \in First(ref)
        /\ \A m \in ToSet(arena[ref].lits) \ {lit} : Safe(m)
    BY <1>2, <1>3, <1>8, <2>1 DEF Holds
  <2> DEFINE others == ToSet(arena[ref].lits) \ {lit}
  <2>3. \A m \in others : m \in Lit /\ values[m] = -1 /\ LevelOf(m) \in 0 .. CurrentLevel
    <3>1. \A m \in others : m \in Lit /\ values[m] = -1 /\ LevelOf(m) <= CurrentLevel
      BY <2>2 DEF Safe
    <3>2. \A m \in others : LevelOf(m) \in Nat BY <1>5, <3>1, Values
    <3> QED BY <1>5, <3>1, <3>2
  <2>4. others # {} /\ Follows(ToSet(arena[ref].lits))
    <3>1. /\ Len(arena[ref].lits) > 2 /\ IsInjective(arena[ref].lits)
          /\ arena[ref].lits \in Seq(Lit) /\ Follows(ToSet(arena[ref].lits))
      BY <2>2 DEF SearchInv, ArenaSound
    <3>2. arena[ref].lits[1] # arena[ref].lits[2]
          /\ arena[ref].lits[1] \in ToSet(arena[ref].lits)
          /\ arena[ref].lits[2] \in ToSet(arena[ref].lits)
      BY <3>1 DEF IsInjective, ToSet
    <3> QED BY <3>1, <3>2
  <2> HIDE DEF others
  <2>5. PICK lvl \in 0 .. CurrentLevel :
           /\ lvl = Max(LevelsOf(others))
           /\ \A m \in others : LevelOf(m) <= lvl
           /\ \E m \in others : LevelOf(m) = lvl
    <3>1. LevelsOf(others) \in SUBSET (0 .. CurrentLevel) /\ LevelsOf(others) # {}
      BY <2>3, <2>4 DEF LevelsOf
    <3>2. /\ Max(LevelsOf(others)) \in LevelsOf(others)
          /\ \A y \in LevelsOf(others) : y <= Max(LevelsOf(others))
      BY <1>5, <3>1, MaxFacts
    <3> QED BY <3>1, <3>2 DEF LevelsOf
  <2>6. PICK why \in ReasonType : why = LargeReason(ref)
    <3>1. LargeReason(ref) \in ReasonType BY DEF LargeReason, ReasonType
    <3> QED BY <3>1
  <2>7. AssignReason(lit, lvl, why)
    <3>1. AssignReference(lit, ref) BY <1>2, <1>3, <1>8, <2>1 DEF DoForce, Doing
    <3> QED BY <2>5, <2>6, <3>1 DEF AssignReference, others
  <2>8. lvl = 0 => Follows({lit})
    <3> HAVE lvl = 0
    <3>1. \A m \in others : LevelOf(m) = 0
      <4>1. \A m \in others : LevelOf(m) \in 0 .. CurrentLevel /\ LevelOf(m) <= 0 BY <2>3, <2>5
      <4> QED BY <4>1
    <3>2. \A m \in others : Follows({-m}) BY <1>5, <2>3, <3>1, RootFalse DEF SearchInv
    <3>3. \A m \in ToSet(arena[ref].lits) \ {lit} : Follows({-m}) BY <3>2 DEF others
    <3> QED BY <2>4, <3>3, FollowsWithout
  <2>9. why.kind = "large" /\ why.ref = ref BY <2>6 DEF LargeReason
  <2>10. /\ \A m \in ToSet(arena[why.ref].lits) \ {lit} : values[m] = -1 /\ LevelOf(m) <= lvl
         /\ \E m \in ToSet(arena[why.ref].lits) \ {lit} : LevelOf(m) = lvl
    BY <2>3, <2>5, <2>9 DEF others
  <2> QED BY <1>6, <1>8, <2>1, <2>2, <2>6, <2>7, <2>8, <2>9, <2>10
<1> QED BY <1>1, <1>2, <1>7, <1>8

-----------------------------------------------------------------------------
\* The branches of the search loop without a conflict.
LEMMA LoopIdle ==
    ASSUME SearchInv, todo = <<>>
    PROVE  Targets = {} /\ ~ Analysis /\ resolvent = {}
<1>1. Targets = {} /\ ~ Analysis BY DEF Targets, Analysis
<1> QED BY <1>1 DEF SearchInv, ResolventSound

LEMMA StillIdle ==
    ASSUME todo' = <<>>, conflict' = NoConflict, resolvent' = {}
    PROVE  ConflictSound' /\ ResolventSound' /\ TodoSound' /\ Targets' = {}
<1>1. ~ Analysis' /\ Targets' = {} BY DEF Analysis, Targets
<1>2. NoConflict' = NoConflict BY DEF NoConflict
<1>3. ConflictSound' BY <1>2 DEF ConflictSound
<1>4. ResolventSound' BY <1>1 DEF ResolventSound
<1>5. TodoSound'
  <2>1. <<>> \in Seq(StepType) OBVIOUS
  <2> QED BY <2>1 DEF TodoSound
<1> QED BY <1>1, <1>3, <1>4, <1>5

LEMMA FlushTrailInv == SearchInv /\ FlushTrail => SearchInv'
<1> SUFFICES ASSUME SearchInv, FlushTrail PROVE SearchInv'
  OBVIOUS
<1>1. /\ Flush /\ visit = NoVisit /\ conflict = NoConflict
      /\ UNCHANGED <<arena, watches, reason, conflict, resolvent, visit, result, formula, todo>>
  BY DEF FlushTrail, Propagating, analysisVars, clauseVars, loopVars
<1>2. todo = <<>>
  <2> SUFFICES ASSUME Doing("propagate"), todo # <<>> PROVE FALSE
    BY DEF FlushTrail, Propagating
  <2>1. todo[1] \in StepType /\ Head(todo) = todo[1]
    <3>1. todo \in Seq(StepType) BY DEF SearchInv, TodoSound
    <3> QED BY <3>1
  <2> QED BY <2>1, StepTypes DEF Doing
<1>3. resolvent = {} BY <1>2, LoopIdle
<1>4. ConflictSound' /\ ResolventSound' /\ TodoSound'
  <2>1. todo' = <<>> /\ conflict' = NoConflict /\ resolvent' = {} BY <1>1, <1>2, <1>3
  <2> QED BY <2>1, StillIdle
<1>5. TrailInv'
  <2>1. TrailNext BY <1>1 DEF TrailNext
  <2> QED BY <2>1, NextInv DEF SearchInv
<1>6. UNCHANGED <<values, level, frames, undo>> /\ CurrentLevel = 0 BY <1>1 DEF Flush
<1>7. \A l : LevelOf(l)' = LevelOf(l) BY <1>6 DEF LevelOf
<1>8. RootSound' BY <1>1, <1>6, <1>7 DEF SearchInv, RootSound, Follows
<1>9. ArenaSound' /\ WatchListsOK' /\ WatchesSound' /\ formula' \in Formulas
  BY <1>1, ClausesKept
<1>10. ReasonsSound'
  <2>1. reason' \in [Var -> ReasonType] BY <1>1 DEF SearchInv, ReasonsSound
  <2>2. CurrentLevel' = 0 BY <1>6 DEF CurrentLevel
  <2>3. \A l \in Lit : LevelOf(l)' \in Nat BY <1>5, <1>7, Values DEF SearchInv
  <2>4. \A l : l \notin Forced' BY <2>2, <2>3 DEF Forced
  <2> QED BY <2>1, <2>4 DEF ReasonsSound
<1>11. VisitSound'
  <2>1. visit' = NoVisit' BY <1>1 DEF NoVisit, NoDelayed
  <2> QED BY <2>1, NoVisitTyped DEF VisitSound, NoVisit
<1>12. RefutationSound' BY <1>1 DEF SearchInv, RefutationSound
<1> QED BY <1>4, <1>5, <1>8, <1>9, <1>10, <1>11, <1>12 DEF SearchInv

LEMMA RestartInv == SearchInv /\ Restart => SearchInv'
<1> SUFFICES ASSUME SearchInv, Restart PROVE SearchInv'
  OBVIOUS
<1>1. /\ todo = <<>> /\ conflict = NoConflict /\ visit = NoVisit /\ ~ undo.active
      /\ UNCHANGED <<arena, watches, reason, conflict, resolvent, visit, result, formula>>
      /\ UNCHANGED trailVars
  BY DEF Restart, Ready, Propagating, Flushed, Propagated, analysisVars, clauseVars
<1>2. PICK k \in Nat : todo' = <<Backtrack(k)>>
  <2>1. PICK k \in 0 .. CurrentLevel : todo' = <<Backtrack(k)>> BY DEF Restart
  <2> QED BY <2>1
<1>3. resolvent = {} /\ Targets = {} BY <1>1, LoopIdle
<1>4. /\ todo' \in Seq(StepType) /\ DOMAIN todo' = {1} /\ todo'[1].op = "backtrack"
      /\ todo'[1] = Backtrack(k)
  <2>1. Backtrack(k) \in StepType BY StepTypes
  <2> QED BY <1>2, <2>1 DEF Backtrack
<1>5. ~ Analysis' BY <1>4 DEF Analysis
<1>6. conflict' = NoConflict' /\ resolvent' = {} BY <1>1, <1>3 DEF NoConflict
<1>7. ConflictSound' BY <1>6 DEF ConflictSound
<1>8. ResolventSound' BY <1>5, <1>6 DEF ResolventSound
<1>9. TodoSound'
  <2>1. ASSUME NEW i \in DOMAIN todo' PROVE Holds(todo[i])' /\ Placed(i)'
    <3>1. todo'[i].op = "backtrack" BY <1>4
    <3>2. Holds(todo[i])' BY <3>1 DEF Holds
    <3>3. Placed(i)' BY <3>1 DEF Placed
    <3> QED BY <3>2, <3>3
  <2> QED BY <1>4, <1>6, <2>1 DEF TodoSound
<1>10. /\ TrailInv' /\ RootSound' /\ Forced' = Forced BY <1>1, Unmoved DEF SearchInv
<1>11. /\ ArenaSound' /\ WatchListsOK' /\ WatchesSound' /\ formula' \in Formulas
       /\ References' = References /\ \A r : First(r)' = First(r)
  BY <1>1, ClausesKept
<1>12. ReasonsSound'
  <2>1. \A l : ~ Doomed(l) BY <1>1, <1>3 DEF Doomed, PastFrontier
  <2>2. \A l : Fits(l)' <=> Fits(l) BY <1>1, <1>11 DEF Fits
  <2> QED BY <1>1, <1>11, <2>1, <2>2, ReasonsKept DEF SearchInv
<1>13. VisitSound'
  <2>1. visit' = NoVisit' BY <1>1 DEF NoVisit, NoDelayed
  <2> QED BY <2>1, NoVisitTyped DEF VisitSound, NoVisit
<1>14. RefutationSound' BY <1>1 DEF SearchInv, RefutationSound
<1> QED BY <1>7, <1>8, <1>9, <1>10, <1>11, <1>12, <1>13, <1>14 DEF SearchInv

LEMMA PropagatingIdle ==
    ASSUME SearchInv, Propagating
    PROVE  /\ todo = <<>> /\ conflict = NoConflict /\ ~ undo.active /\ result = Running
           /\ Targets = {} /\ resolvent = {} /\ \A l : ~ Doomed(l)
<1>1. conflict = NoConflict /\ ~ undo.active /\ result = Running BY DEF Propagating
<1>2. todo = <<>>
  <2> SUFFICES ASSUME Doing("propagate"), todo # <<>> PROVE FALSE
    BY DEF Propagating
  <2>1. todo[1] \in StepType /\ Head(todo) = todo[1]
    <3>1. todo \in Seq(StepType) BY DEF SearchInv, TodoSound
    <3> QED BY <3>1
  <2> QED BY <2>1, StepTypes DEF Doing
<1>3. resolvent = {} /\ Targets = {} BY <1>2, LoopIdle
<1>4. \A l : ~ Doomed(l) BY <1>1, <1>3 DEF Doomed, PastFrontier
<1> QED BY <1>1, <1>2, <1>3, <1>4

LEMMA SearchDecideInv == SearchInv /\ SearchDecide => SearchInv'
<1> SUFFICES ASSUME SearchInv, SearchDecide PROVE SearchInv'
  OBVIOUS
<1>1. /\ todo = <<>> /\ conflict = NoConflict /\ visit = NoVisit /\ ~ undo.active
      /\ resolvent = {} /\ \A l : ~ Doomed(l)
      /\ UNCHANGED <<arena, watches, conflict, resolvent, visit, result, formula, todo>>
  BY PropagatingIdle
  DEF SearchDecide, Ready, Flushed, Propagated, analysisVars, clauseVars, loopVars
<1>2. PICK lit \in Lit :
         Decide(lit) /\ reason' = [reason EXCEPT ![Idx(lit)] = DecisionReason]
  BY DEF SearchDecide
<1>3. PICK lvl \in Nat : lvl = CurrentLevel + 1
  <2>1. CurrentLevel \in Nat BY DEF SearchInv, TrailInv, TrailTypeOK, CurrentLevel
  <2> QED BY <2>1
<1>4. /\ TrailInv /\ Push(lit, lvl) /\ undo' = undo
      /\ frames' = Append(frames, [decision |-> lit, trail |-> Len(trail)])
      /\ frames \in Seq([decision : Lit, trail : Nat]) /\ Len(trail) \in Nat
      /\ CurrentLevel \in Nat
  BY <1>2, <1>3 DEF Decide, SearchInv, TrailInv, TrailTypeOK, CurrentLevel
<1>5. /\ CurrentLevel' = lvl
      /\ frames'[lvl].decision = lit
      /\ \A k \in 1 .. CurrentLevel : frames'[k] = frames[k]
  BY <1>3, <1>4 DEF CurrentLevel
<1>6. /\ values[lit] = 0 /\ values'[lit] = 1 /\ values'[-lit] = -1
      /\ LevelOf(lit)' = lvl
      /\ \A m \in Lit : m \notin {lit, -lit} =>
           /\ values'[m] = values[m] /\ LevelOf(m)' = LevelOf(m)
           /\ position'[Idx(m)] = position[Idx(m)]
      /\ \A m \in Lit : values[m] # 0 => m \notin {lit, -lit}
  BY <1>1, <1>3, <1>4, PushKept
<1>7. TrailInv'
  <2>1. TrailNext BY <1>2 DEF TrailNext
  <2> QED BY <1>4, <2>1, NextInv
<1>8. \A D : Follows(D)' <=> Follows(D) BY <1>1 DEF Follows
<1>9. RootSound'
  <2>1. ASSUME NEW l \in Lit, values'[l] = 1, LevelOf(l)' = 0 PROVE Follows({l})
    <3>1. l \notin {lit, -lit} BY <1>3, <1>4, <1>6, <2>1
    <3> QED BY <1>6, <2>1, <3>1 DEF SearchInv, RootSound
  <2> QED BY <1>8, <2>1 DEF RootSound
<1>10. /\ ArenaSound' /\ WatchListsOK' /\ WatchesSound' /\ formula' \in Formulas
       /\ References' = References /\ \A r : First(r)' = First(r)
  BY <1>1, ClausesKept
<1>11. ConflictSound' /\ ResolventSound' /\ TodoSound'
  <2>1. todo' = <<>> /\ conflict' = NoConflict /\ resolvent' = {} BY <1>1
  <2> QED BY <2>1, StillIdle
<1>12. ReasonsSound'
  <2>0. DOMAIN reason = Var /\ Idx(lit) \in Var BY LitFacts DEF SearchInv, ReasonsSound
  <2>1. reason' \in [Var -> ReasonType] /\ reason'[Idx(lit)] = DecisionReason
    <3>1. DecisionReason \in ReasonType BY DEF DecisionReason, ReasonType
    <3> QED BY <1>2, <2>0, <3>1 DEF SearchInv, ReasonsSound
  <2>2. \A r \in References : arena[r].lits \in Seq(Lit) BY DEF SearchInv, ArenaSound
  <2>3. ASSUME NEW l \in Forced' PROVE ReasonSound(l)' /\ Fits(l)'
    <3>0. l \in Lit /\ values'[l] = 1 /\ LevelOf(l)' > 0 BY DEF Forced
    <3>1. CASE l = lit
      <4>1. reason'[Idx(l)].kind = "decision" BY <2>1, <3>1 DEF DecisionReason
      <4>2. frames'[LevelOf(l)'].decision = l BY <1>5, <1>6, <3>1
      <4> QED BY <4>1, <4>2 DEF ReasonSound, Fits
    <3>2. CASE l # lit
      <4>1. l # -lit BY <1>6, <3>0
      <4>2. values[l] = 1 /\ LevelOf(l)' = LevelOf(l) /\ values[l] # 0 BY <1>6, <3>0, <3>2, <4>1
      <4>3. LevelOf(l) \in 1 .. CurrentLevel
        <5>1. LevelOf(l) <= CurrentLevel /\ LevelOf(l) \in Nat
          BY <1>1, <1>4, <3>0, <4>2, Assigned, Values
        <5> QED BY <1>4, <3>0, <4>2, <5>1
      <4>4. l \in Forced BY <3>0, <4>2, <4>3 DEF Forced
      <4>5. ReasonSound(l) /\ Fits(l) BY <1>1, <4>4 DEF SearchInv, ReasonsSound
      <4>6. reason'[Idx(l)] = reason[Idx(l)]
        <5>1. Idx(l) # Idx(lit) /\ Idx(l) \in Var BY <3>0, <3>2, <4>1, LitFacts
        <5> QED BY <1>2, <2>0, <5>1
      <4>7. \A D \in SUBSET Lit : Supported(l, D) => Supported(l, D)'
        <5> TAKE D \in SUBSET Lit
        <5> QED BY <1>1, <1>3, <1>4, <3>0, <4>2, PushSupported
      <4>8. ReasonSound(l)'
        <5>1. CASE reason[Idx(l)].kind = "decision" /\ frames[LevelOf(l)].decision = l
          <6>1. frames'[LevelOf(l)].decision = l BY <1>5, <4>3, <5>1
          <6> QED BY <4>2, <4>6, <5>1, <6>1 DEF ReasonSound
        <5>2. CASE /\ reason[Idx(l)].kind = "binary"
                   /\ reason[Idx(l)].other \in Lit
                   /\ Follows({l, reason[Idx(l)].other})
                   /\ Supported(l, {reason[Idx(l)].other})
          <6>1. PICK m \in Lit : m = reason[Idx(l)].other BY <5>2
          <6>2. Supported(l, {m})' BY <4>7, <5>2, <6>1
          <6> QED BY <1>8, <4>6, <5>2, <6>1, <6>2 DEF ReasonSound
        <5>3. CASE /\ reason[Idx(l)].kind = "large"
                   /\ reason[Idx(l)].ref \in References
                   /\ Supported(l, ToSet(arena[reason[Idx(l)].ref].lits) \ {l})
          <6>1. ToSet(arena[reason[Idx(l)].ref].lits) \ {l} \in SUBSET Lit
            <7>1. arena[reason[Idx(l)].ref].lits \in Seq(Lit) BY <2>2, <5>3
            <7> QED BY <7>1 DEF ToSet
          <6>2. PICK D \in SUBSET Lit : D = ToSet(arena[reason[Idx(l)].ref].lits) \ {l} BY <6>1
          <6>3. Supported(l, D)' BY <4>7, <5>3, <6>2
          <6>4. D = ToSet(arena'[reason'[Idx(l)].ref].lits) \ {l} BY <1>1, <4>6, <6>2
          <6> QED BY <1>10, <4>6, <5>3, <6>3, <6>4 DEF ReasonSound
        <5> QED BY <4>5, <5>1, <5>2, <5>3 DEF ReasonSound
      <4>9. Fits(l)' BY <1>1, <1>10, <4>5, <4>6 DEF Fits
      <4> QED BY <4>8, <4>9
    <3> QED BY <3>1, <3>2
  <2> QED BY <2>1, <2>3 DEF ReasonsSound
<1>13. VisitSound'
  <2>1. visit' = NoVisit' BY <1>1 DEF NoVisit, NoDelayed
  <2> QED BY <2>1, NoVisitTyped DEF VisitSound, NoVisit
<1>14. RefutationSound' BY <1>1 DEF SearchInv, RefutationSound
<1> QED BY <1>7, <1>9, <1>10, <1>11, <1>12, <1>13, <1>14 DEF SearchInv

-----------------------------------------------------------------------------
\* Propagation.  A step that leaves the trail and the clauses alone goes on to
\* hands that are sound, or to a conflict.
LEMMA VisitGoesOn ==
    ASSUME SearchInv, Propagating,
           UNCHANGED <<arena, reason, resolvent, result, formula, todo, conflict, trailVars>>,
           WatchListsOK', WatchesSound', VisitSound'
    PROVE  SearchInv'
<1>1. /\ todo = <<>> /\ conflict = NoConflict /\ resolvent = {} /\ \A l : ~ Doomed(l)
  BY PropagatingIdle
<1>2. ConflictSound' /\ ResolventSound' /\ TodoSound'
  <2>1. todo' = <<>> /\ conflict' = NoConflict /\ resolvent' = {} BY <1>1
  <2> QED BY <2>1, StillIdle
<1>3. /\ TrailInv' /\ RootSound' /\ Forced' = Forced
      /\ \A D : Follows(D)' <=> Follows(D)
  BY Unmoved DEF SearchInv
<1>4. References' = References /\ \A r : First(r)' = First(r) BY DEF References, First
<1>5. ArenaSound' BY <1>3, <1>4 DEF SearchInv, ArenaSound
<1>6. ReasonsSound'
  <2>1. \A l : Fits(l)' <=> Fits(l) BY <1>4 DEF Fits
  <2> QED BY <1>1, <1>4, <2>1, ReasonsKept DEF SearchInv
<1>7. RefutationSound' /\ formula' \in Formulas BY DEF SearchInv, RefutationSound
<1> QED BY <1>2, <1>3, <1>5, <1>6, <1>7 DEF SearchInv

\* The loop's own facts.
LEMMA VisitFacts ==
    ASSUME SearchInv, visit.lit # 0
    PROVE  /\ visit.lit \in Lit /\ -visit.lit \in Lit /\ values[visit.lit] = 1
           /\ values[-visit.lit] = -1
           /\ visit \in VisitType /\ watches \in Lists
           /\ LevelOf(-visit.lit) = LevelOf(visit.lit)
           /\ LevelOf(visit.lit) <= CurrentLevel /\ LevelOf(visit.lit) \in Nat
           /\ TrailInv /\ ~ undo.active
<1>1. visit \in VisitType /\ watches \in Lists /\ TrailInv BY DEF SearchInv, WatchListsOK
<1>2. visit.lit \in Lit BY <1>1 DEF VisitType
<1>3. values[visit.lit] = 1 /\ ~ undo.active BY DEF SearchInv, VisitSound
<1>4. /\ -visit.lit \in Lit /\ values[-visit.lit] = -values[visit.lit]
      /\ LevelOf(-visit.lit) = LevelOf(visit.lit) /\ LevelOf(visit.lit) \in Nat
      /\ values[-visit.lit] \in {-1, 0, 1}
  BY <1>1, <1>2, Values
<1>5. values[-visit.lit] = -1
  <2>1. \A x \in {-1, 0, 1}, y \in {-1, 0, 1} : y = -x /\ x = 1 => y = -1 OBVIOUS
  <2>2. values[visit.lit] \in {-1, 0, 1} BY <1>1, <1>2, Values
  <2> QED BY <1>3, <1>4, <2>1, <2>2, Zenon
<1>6. LevelOf(visit.lit) <= CurrentLevel
  <2>1. values[visit.lit] # 0 BY <1>3
  <2> QED BY <1>1, <1>2, <1>3, <2>1, Assigned
<1> QED BY <1>1, <1>2, <1>3, <1>4, <1>5, <1>6

\* The watch under the pointer.
LEMMA WatchFacts ==
    ASSUME SearchInv, Visiting
    PROVE  /\ Watch \in WatchType /\ Watch = visit.rest[1] /\ 1 \in DOMAIN visit.rest
           /\ visit.rest \in Seq(WatchType)
           /\ WatchOK(formula, Firsts, -visit.lit, Watch)
<1>1. visit.lit \in Lit /\ -visit.lit \in Lit /\ visit \in VisitType /\ watches \in Lists
  BY VisitFacts DEF Visiting
<1>2. visit.rest \in Seq(WatchType) /\ visit.rest # <<>> BY <1>1 DEF Visiting, VisitType
<1>3. Watch \in WatchType /\ Watch = visit.rest[1] /\ 1 \in DOMAIN visit.rest
  BY <1>2 DEF Watch
<1>4. WatchOK(formula, Firsts, -visit.lit, Watch)
  <2> DEFINE k == -visit.lit
             H == HandsOf(watches, visit)
             p == Len(watches[k]) + 1
             u == [visit EXCEPT !.rest = Tail(@)]
  <2>1. Drops(HandsOf(watches, u)[k], H[k], p) /\ H[k][p] = Head(visit.rest)
    BY <1>1, <1>2, HandsSkip
  <2>2. p \in DOMAIN H[k] BY <2>1 DEF Drops
  <2>3. HandsSound(formula, Firsts, H) BY DEF SearchInv, WatchesSound
  <2> HIDE DEF H, p
  <2>4. WatchOK(formula, Firsts, k, H[k][p]) BY <1>1, <2>2, <2>3 DEF HandsSound
  <2> QED BY <2>1, <2>4 DEF Watch
<1> QED BY <1>2, <1>3, <1>4

LEMMA LargeFacts ==
    ASSUME SearchInv, Visiting, ~ Watch.binary
    PROVE  /\ Watch.ref \in References /\ Watch.ref \in Nat \ {0}
           /\ Visited \in ClauseType
           /\ Visited.lits \in Seq(Lit) /\ Len(Visited.lits) > 2 /\ Len(Visited.lits) \in Nat
           /\ IsInjective(Visited.lits) /\ Follows(ToSet(Visited.lits))
           /\ Visited.lits[1] # Visited.lits[2]
           /\ -visit.lit \in {Visited.lits[1], Visited.lits[2]}
           /\ Other \in Lit /\ Other # -visit.lit
           /\ {Other, -visit.lit} = {Visited.lits[1], Visited.lits[2]}
           /\ First(Watch.ref) = {Visited.lits[1], Visited.lits[2]}
<1>1. WatchOK(formula, Firsts, -visit.lit, Watch) BY WatchFacts
<1>2. Watch.ref \in References /\ -visit.lit \in First(Watch.ref)
  BY <1>1 DEF WatchOK, Firsts
<1>3. arena \in Seq(ClauseType) /\ Watch.ref \in DOMAIN arena
  BY <1>2 DEF SearchInv, ArenaSound, References
<1>4. Watch.ref \in Nat \ {0} /\ Visited \in ClauseType BY <1>3 DEF Visited
<1>5. /\ Visited.lits \in Seq(Lit) /\ Len(Visited.lits) > 2 /\ IsInjective(Visited.lits)
      /\ Follows(ToSet(Visited.lits))
  BY <1>2 DEF SearchInv, ArenaSound, Visited
<1>6. /\ Visited.lits[1] # Visited.lits[2] /\ Len(Visited.lits) \in Nat
      /\ Visited.lits[1] \in Lit /\ Visited.lits[2] \in Lit
  BY <1>5 DEF IsInjective
<1>7. First(Watch.ref) = {Visited.lits[1], Visited.lits[2]} BY DEF First, Visited
<1>8. /\ Other \in Lit /\ Other # -visit.lit
      /\ {Other, -visit.lit} = {Visited.lits[1], Visited.lits[2]}
  BY <1>2, <1>6, <1>7 DEF Other
<1> QED BY <1>2, <1>4, <1>5, <1>6, <1>7, <1>8

\* The watch is kept, perhaps with another blocking literal.
LEMMA KeepSound ==
    ASSUME SearchInv, Visiting, NEW w \in WatchType, Alike(w, Watch), Keep(w), NextWatch,
           UNCHANGED <<arena, formula>>
    PROVE  WatchListsOK' /\ WatchesSound' /\ visit'.lit = visit.lit
<1>1. visit.lit \in Lit /\ -visit.lit \in Lit /\ visit \in VisitType /\ watches \in Lists
      /\ visit.rest # <<>>
  BY VisitFacts DEF Visiting
<1> DEFINE xs == [watches EXCEPT ![-visit.lit] = Append(@, w)]
           u == [visit EXCEPT !.rest = Tail(@)]
<1>2. watches' = xs /\ visit' = u BY DEF Keep, NextWatch
<1>3. /\ xs \in Lists /\ u \in VisitType
      /\ \A l \in Lit : Embeds(HandsOf(xs, u)[l], HandsOf(watches, visit)[l])
  BY <1>1, HandsKeep DEF Watch
<1>4. u.lit = visit.lit BY <1>1 DEF VisitType
<1> HIDE DEF xs, u
<1>5. \A r \in DOMAIN Firsts : r \in DOMAIN Firsts /\ Firsts[r] = Firsts[r] OBVIOUS
<1>6. HandsSound(formula, Firsts, HandsOf(watches, visit)) BY DEF SearchInv, WatchesSound
<1>7. HandsSound(formula, Firsts, HandsOf(xs, u)) BY <1>3, <1>5, <1>6, HandsLess
<1>8. Firsts' = Firsts BY DEF Firsts, References, First
<1>9. WatchesSound' BY <1>2, <1>7, <1>8 DEF WatchesSound
<1>10. WatchListsOK' BY <1>2, <1>3 DEF WatchListsOK
<1> QED BY <1>2, <1>4, <1>9, <1>10

LEMMA LeaveSound ==
    ASSUME SearchInv, Leave, UNCHANGED <<arena, formula>>
    PROVE  WatchListsOK' /\ WatchesSound' /\ VisitSound'
<1>1. watches \in Lists /\ visit \in VisitType BY DEF SearchInv, WatchListsOK
<1>2. HandsOf(watches, visit) \in Lists BY <1>1, HandsTyped
<1>3. watches' = HandsOf(watches, visit) /\ visit' = NoVisit
  BY DEF Leave, HandsOf, RestOf
<1>4. NoVisit' = NoVisit BY DEF NoVisit, NoDelayed
<1>5. WatchListsOK' BY <1>2, <1>3, NoVisitTyped DEF WatchListsOK
<1>6. VisitSound' BY <1>3, <1>4, NoVisitTyped DEF VisitSound
<1>7. HandsOf(watches', visit') = HandsOf(watches, visit) BY <1>2, <1>3, HandsIdle
<1>8. Firsts' = Firsts BY DEF Firsts, References, First
<1>9. WatchesSound' BY <1>7, <1>8 DEF SearchInv, WatchesSound
<1> QED BY <1>5, <1>6, <1>9

LEMMA VisitStartInv == SearchInv /\ Propagate /\ VisitStart => SearchInv'
<1> SUFFICES ASSUME SearchInv, Propagate, VisitStart PROVE SearchInv'
  OBVIOUS
<1>1. /\ Propagating /\ visit = NoVisit /\ Advance
      /\ visit' = [lit |-> trail[propagate + 1], rest |-> watches[-trail[propagate + 1]],
                   delayed |-> NoDelayed]
      /\ watches' = [watches EXCEPT ![-trail[propagate + 1]] = <<>>]
      /\ UNCHANGED <<arena, reason, conflict, resolvent, result, formula, todo>>
  BY DEF Propagate, VisitStart, analysisVars, loopVars
<1>2. /\ todo = <<>> /\ conflict = NoConflict /\ resolvent = {} /\ \A l : ~ Doomed(l)
      /\ ~ undo.active
  BY <1>1, PropagatingIdle
<1>3. UNCHANGED <<values, level, position, trail, frames, undo>> BY <1>1 DEF Advance
<1>4. TrailInv'
  <2>1. TrailNext BY <1>1 DEF TrailNext
  <2> QED BY <2>1, NextInv DEF SearchInv
<1>5. PICK lit \in Lit : lit = trail[propagate + 1] /\ values[lit] = 1 /\ -lit \in Lit
  <2>1. propagate + 1 \in 1 .. Len(trail) /\ trail \in Seq(Lit)
    BY <1>1 DEF Advance, SearchInv, TrailInv, TrailTypeOK
  <2>2. values[trail[propagate + 1]] = 1
    BY <1>2, <2>1 DEF SearchInv, TrailInv, SlotsTrue, Live
  <2>3. trail[propagate + 1] \in Lit BY <2>1
  <2>4. -trail[propagate + 1] \in Lit BY <2>3, LitFacts
  <2> QED BY <2>2, <2>3, <2>4
<1>6. watches \in Lists /\ HandsOf(watches, visit) = watches
  <2>1. watches \in Lists BY DEF SearchInv, WatchListsOK
  <2> QED BY <1>1, <2>1, HandsIdle
<1>7. WatchListsOK' /\ WatchesSound' /\ VisitSound'
  <2> DEFINE xs == [watches EXCEPT ![-lit] = <<>>]
             v == [lit |-> lit, rest |-> watches[-lit], delayed |-> NoDelayed]
  <2>1. xs \in Lists /\ v \in VisitType /\ HandsOf(xs, v) = watches
    BY <1>5, <1>6, HandsStart
  <2>2. watches' = xs /\ visit' = v /\ v.lit = lit BY <1>1, <1>5
  <2> HIDE DEF xs, v
  <2>3. WatchListsOK' BY <2>1, <2>2 DEF WatchListsOK
  <2>4. Firsts' = Firsts BY <1>1 DEF Firsts, References, First
  <2>5. WatchesSound' BY <1>1, <1>6, <2>1, <2>2, <2>4 DEF SearchInv, WatchesSound
  <2>6. lit # 0 BY DEF Lit
  <2>7. NoConflict' = NoConflict BY DEF NoConflict
  <2>8. VisitSound' BY <1>1, <1>2, <1>3, <1>5, <2>2, <2>6, <2>7 DEF VisitSound
  <2> QED BY <2>3, <2>5, <2>8
<1>8. \A l : LevelOf(l)' = LevelOf(l) BY <1>3 DEF LevelOf
<1>9. \A D : Follows(D)' <=> Follows(D) BY <1>1 DEF Follows
<1>10. RootSound' BY <1>3, <1>8, <1>9 DEF SearchInv, RootSound
<1>11. References' = References /\ \A r : First(r)' = First(r) BY <1>1 DEF References, First
<1>12. ArenaSound' BY <1>1, <1>9, <1>11 DEF SearchInv, ArenaSound
<1>13. ConflictSound' /\ ResolventSound' /\ TodoSound'
  <2>1. todo' = <<>> /\ conflict' = NoConflict /\ resolvent' = {} BY <1>1, <1>2
  <2> QED BY <2>1, StillIdle
<1>14. ReasonsSound'
  <2>1. Forced' = Forced BY <1>3, <1>8 DEF Forced, CurrentLevel
  <2>2. \A l, D : Supported(l, D) => Supported(l, D)' BY <1>3, <1>8 DEF Supported, Earlier
  <2>3. \A r \in References : arena[r].lits \in Seq(Lit) BY DEF SearchInv, ArenaSound
  <2>4. ReasonsSound BY DEF SearchInv
  <2> QED BY <1>1, <1>2, <1>3, <1>8, <2>1, <2>2, <2>3, <2>4, ReasonsMoved
<1>15. RefutationSound' /\ formula' \in Formulas BY <1>1 DEF SearchInv, RefutationSound
<1> QED BY <1>4, <1>7, <1>10, <1>12, <1>13, <1>14, <1>15 DEF SearchInv

LEMMA VisitingOn ==
    ASSUME SearchInv, Visiting, UNCHANGED <<values, undo, todo, conflict>>,
           visit'.lit = visit.lit
    PROVE  VisitSound'
<1>1. visit.lit # 0 BY DEF Visiting
<1> QED BY <1>1 DEF SearchInv, VisitSound, NoConflict

LEMMA VisitKeepInv == SearchInv /\ Propagate /\ (VisitBlocked \/ VisitSatisfied) => SearchInv'
<1> SUFFICES ASSUME SearchInv, Propagate, VisitBlocked \/ VisitSatisfied PROVE SearchInv'
  OBVIOUS
<1>1. /\ Propagating /\ Visiting
      /\ UNCHANGED <<trailVars, arena, reason, conflict, resolvent, result, formula, todo>>
  BY DEF Propagate, VisitBlocked, VisitSatisfied, LargeVisit, analysisVars, loopVars
<1>2. \E w \in WatchType : Alike(w, Watch) /\ Keep(w) /\ NextWatch
  <2>1. CASE VisitBlocked
    <3>1. Watch \in WatchType BY <1>1, WatchFacts
    <3> QED BY <2>1, <3>1 DEF VisitBlocked, Alike
  <2>2. CASE VisitSatisfied
    <3>1. ~ Watch.binary BY <2>2 DEF VisitSatisfied, LargeVisit
    <3>2. Other \in Lit /\ Watch.ref \in Nat BY <1>1, <3>1, LargeFacts
    <3> DEFINE w == LargeWatch(Other, Watch.ref)
    <3>3. w \in WatchType /\ w.ref = Watch.ref /\ ~ w.binary
      BY <3>2 DEF LargeWatch, WatchType
    <3>4. Keep(w) /\ NextWatch BY <2>2 DEF VisitSatisfied
    <3>5. Watch \in WatchType BY <1>1, WatchFacts
    <3>6. w.binary = Watch.binary BY <3>1, <3>3, <3>5 DEF WatchType
    <3> HIDE DEF w
    <3> QED BY <3>3, <3>4, <3>6 DEF Alike
  <2> QED BY <2>1, <2>2
<1>3. PICK w \in WatchType : Alike(w, Watch) /\ Keep(w) /\ NextWatch BY <1>2
<1>4. WatchListsOK' /\ WatchesSound' /\ visit'.lit = visit.lit BY <1>1, <1>3, KeepSound
<1>5. VisitSound' BY <1>1, <1>4, VisitingOn DEF trailVars
<1> QED BY <1>1, <1>4, <1>5, VisitGoesOn

LEMMA VisitGarbageInv == SearchInv /\ Propagate /\ VisitGarbage => SearchInv'
<1> SUFFICES ASSUME SearchInv, Propagate, VisitGarbage PROVE SearchInv'
  OBVIOUS
<1>1. /\ Propagating /\ Visiting /\ visit' = [visit EXCEPT !.rest = Tail(@)]
      /\ UNCHANGED <<trailVars, arena, reason, conflict, watches, resolvent, result, formula,
                     todo>>
  BY DEF Propagate, VisitGarbage, LargeVisit, NextWatch, analysisVars, loopVars
<1>2. visit.lit \in Lit /\ -visit.lit \in Lit /\ visit \in VisitType /\ watches \in Lists
      /\ visit.rest # <<>>
  BY <1>1, VisitFacts DEF Visiting
<1> DEFINE u == [visit EXCEPT !.rest = Tail(@)]
           k == -visit.lit
           p == Len(watches[k]) + 1
           H == HandsOf(watches, visit)
           K == HandsOf(watches, u)
<1>3. /\ u \in VisitType /\ \A l \in Lit : l # k => K[l] = H[l]
      /\ Drops(K[k], H[k], p)
  BY <1>2, HandsSkip
<1>4. u.lit = visit.lit BY <1>2 DEF VisitType
<1> HIDE DEF u, p, H, K
<1>5. \A l \in Lit : Embeds(K[l], H[l])
  <2> TAKE l \in Lit
  <2>1. CASE l = k BY <1>3, <2>1, DropsEmbeds
  <2>2. CASE l # k BY <1>3, <2>2, EmbedsSelf
  <2> QED BY <2>1, <2>2
<1>6. HandsSound(formula, Firsts, H) BY DEF SearchInv, WatchesSound, H
<1>7. HandsSound(formula, Firsts, K)
  <2>1. \A r \in DOMAIN Firsts : r \in DOMAIN Firsts /\ Firsts[r] = Firsts[r] OBVIOUS
  <2> QED BY <1>5, <1>6, <2>1, HandsLess
<1>8. visit' = u BY <1>1 DEF u
<1>9. Firsts' = Firsts BY <1>1 DEF Firsts, References, First
<1>10. WatchesSound' BY <1>1, <1>7, <1>8, <1>9 DEF WatchesSound, K
<1>11. WatchListsOK' BY <1>1, <1>2, <1>3, <1>8 DEF WatchListsOK
<1>12. VisitSound' BY <1>1, <1>4, <1>8, VisitingOn DEF trailVars
<1> QED BY <1>1, <1>10, <1>11, <1>12, VisitGoesOn

LEMMA VisitEndInv == SearchInv /\ Propagate /\ VisitEnd => SearchInv'
<1> SUFFICES ASSUME SearchInv, Propagate, VisitEnd PROVE SearchInv'
  OBVIOUS
<1>1. /\ Propagating /\ Leave
      /\ UNCHANGED <<trailVars, arena, reason, conflict, resolvent, result, formula, todo>>
  BY DEF Propagate, VisitEnd, analysisVars, loopVars
<1> QED BY <1>1, LeaveSound, VisitGoesOn

\* A conflict ends the loop.
LEMMA ConflictFound ==
    ASSUME SearchInv, Propagating, Leave,
           UNCHANGED <<trailVars, arena, reason, resolvent, result, formula, todo>>,
           \/ /\ conflict'.ref \in References /\ ~ arena[conflict'.ref].garbage
              /\ LitsOf(conflict)' = arena[conflict'.ref].lits
           \/ /\ conflict'.ref = 0 /\ LitsOf(conflict)' = conflict'.lits
              /\ \E a, b \in Lit : a # b /\ conflict'.lits = <<a, b>>,
           Follows(ToSet(LitsOf(conflict)')),
           \A l \in ToSet(LitsOf(conflict)') :
               l \in Lit /\ values[l] = -1 /\ LevelOf(l) <= CurrentLevel
    PROVE  SearchInv'
<1>1. /\ todo = <<>> /\ conflict = NoConflict /\ resolvent = {} /\ \A l : ~ Doomed(l)
  BY PropagatingIdle
<1>2. /\ TrailInv' /\ RootSound' /\ Forced' = Forced /\ CurrentLevel' = CurrentLevel
      /\ \A l : LevelOf(l)' = LevelOf(l)
      /\ \A D : Follows(D)' <=> Follows(D)
  BY Unmoved DEF SearchInv
<1>3. values' = values BY DEF trailVars
<1>4. WatchListsOK' /\ WatchesSound' /\ VisitSound' BY LeaveSound
<1>5. References' = References /\ \A r : First(r)' = First(r) BY DEF References, First
<1>6. ArenaSound' BY <1>2, <1>5 DEF SearchInv, ArenaSound
<1>7. Targets' = {} /\ ~ Analysis' /\ todo' = <<>> BY <1>1 DEF Targets, Analysis
<1>8. ConflictSound'
  <2>1. \A l \in ToSet(LitsOf(conflict)') : Safe(l)' BY <1>2, <1>3, <1>7 DEF Safe
  <2>2. Follows(ToSet(LitsOf(conflict)))' BY <1>2
  <2> QED BY <1>5, <2>1, <2>2 DEF ConflictSound
<1>9. ResolventSound' BY <1>1, <1>7 DEF ResolventSound
<1>10. TodoSound'
  <2>1. <<>> \in Seq(StepType) OBVIOUS
  <2> QED BY <1>7, <2>1 DEF TodoSound
<1>11. ReasonsSound'
  <2>1. \A l : Fits(l)' <=> Fits(l) BY <1>5 DEF Fits
  <2> QED BY <1>1, <1>5, <2>1, ReasonsKept DEF SearchInv
<1>12. RefutationSound' /\ formula' \in Formulas BY DEF SearchInv, RefutationSound
<1> QED BY <1>2, <1>4, <1>6, <1>8, <1>9, <1>10, <1>11, <1>12 DEF SearchInv

LEMMA FalseBelow ==
    ASSUME SearchInv, ~ undo.active, NEW l \in Lit, values[l] < 0
    PROVE  values[l] = -1 /\ LevelOf(l) <= CurrentLevel /\ LevelOf(l) \in Nat
<1>1. TrailInv /\ values[l] \in {-1, 0, 1} /\ LevelOf(l) \in Nat BY Values DEF SearchInv
<1>2. values[l] = -1 /\ values[l] # 0 BY <1>1
<1> QED BY <1>1, <1>2, Assigned

LEMMA VisitBinaryConflictInv ==
    ASSUME SearchInv, Propagate, VisitBinary, Blocking < 0
    PROVE  SearchInv'
<1>1. /\ Propagating /\ Visiting /\ Watch.binary /\ Blocking # 0
      /\ UNCHANGED <<arena, resolvent, result, formula, todo>>
  BY DEF Propagate, VisitBinary, analysisVars, loopVars
<1>2. /\ conflict' = BinaryConflict(-visit.lit, Watch.blocking) /\ Leave
      /\ UNCHANGED <<trailVars, reason>>
  BY <1>1 DEF VisitBinary
<1>3. Watch \in WatchType /\ WatchOK(formula, Firsts, -visit.lit, Watch) BY <1>1, WatchFacts
<1>4. PICK a \in Lit, b \in Lit :
         a = -visit.lit /\ b = Watch.blocking /\ a # b /\ Follows({a, b})
  <2>1. -visit.lit \in Lit BY <1>1, VisitFacts DEF Visiting
  <2>2. Watch.blocking \in Lit BY <1>3 DEF WatchType
  <2>3. Watch.blocking # -visit.lit /\ Follows({-visit.lit, Watch.blocking})
    BY <1>1, <1>3 DEF WatchOK, Follows
  <2> QED BY <2>1, <2>2, <2>3
<1>5. /\ values[a] = -1 /\ LevelOf(a) <= CurrentLevel
      /\ values[b] = -1 /\ LevelOf(b) <= CurrentLevel
  <2>1. values[a] < 0 /\ values[b] < 0
    <3>1. values[a] = -1 BY <1>1, <1>4, VisitFacts DEF Visiting
    <3> QED BY <1>4, <3>1 DEF Blocking
  <2>2. ~ undo.active BY <1>1, PropagatingIdle
  <2> QED BY <2>1, <2>2, FalseBelow
<1>6. conflict'.ref = 0 /\ conflict'.lits = <<a, b>> /\ LitsOf(conflict)' = <<a, b>>
  BY <1>2, <1>4 DEF BinaryConflict, LitsOf
<1>7. ToSet(<<a, b>>) = {a, b} BY DEF ToSet
<1>8. Follows(ToSet(LitsOf(conflict)')) BY <1>4, <1>6, <1>7
<1>9. \A l \in ToSet(LitsOf(conflict)') :
         l \in Lit /\ values[l] = -1 /\ LevelOf(l) <= CurrentLevel
  BY <1>5, <1>6, <1>7
<1> QED BY <1>1, <1>2, <1>4, <1>6, <1>8, <1>9, ConflictFound

\* Without a replacement all literals but the other watched one are false.
LEMMA OthersFalse ==
    ASSUME SearchInv, Propagating, LiveVisit, Replacements = {}
    PROVE  \A m \in ToSet(Visited.lits) \ {Other} :
               m \in Lit /\ values[m] = -1 /\ LevelOf(m) <= CurrentLevel /\ LevelOf(m) \in Nat
<1>1. Visiting /\ ~ Watch.binary BY DEF LiveVisit, LargeVisit
<1>2. /\ Visited.lits \in Seq(Lit) /\ Len(Visited.lits) \in Nat /\ Len(Visited.lits) > 2
      /\ {Other, -visit.lit} = {Visited.lits[1], Visited.lits[2]}
      /\ DOMAIN Visited.lits = 1 .. Len(Visited.lits)
  BY <1>1, LargeFacts
<1>3. ~ undo.active BY PropagatingIdle
<1> TAKE m \in ToSet(Visited.lits) \ {Other}
<1>4. PICK i \in 1 .. Len(Visited.lits) : m = Visited.lits[i] BY <1>2 DEF ToSet
<1>5. m \in Lit BY <1>2, <1>4
<1>6. values[m] < 0
  <2>1. CASE i \in {1, 2}
    <3>1. m = -visit.lit BY <1>2, <1>4, <2>1
    <3>2. values[m] = -1 BY <1>1, <3>1, VisitFacts DEF Visiting
    <3> QED BY <3>2
  <2>2. CASE i \notin {1, 2}
    <3>1. i \in 3 .. Len(Visited.lits) BY <1>2, <2>2
    <3>2. ~ (values[m] >= 0) BY <1>4, <3>1 DEF Replacements
    <3>3. values[m] \in {-1, 0, 1} BY <1>5, Values DEF SearchInv
    <3> QED BY <3>2, <3>3
  <2> QED BY <2>1, <2>2
<1> QED BY <1>3, <1>5, <1>6, FalseBelow

LEMMA VisitConflictInv == SearchInv /\ Propagate /\ VisitConflict => SearchInv'
<1> SUFFICES ASSUME SearchInv, Propagate, VisitConflict PROVE SearchInv'
  OBVIOUS
<1>1. /\ Propagating /\ LiveVisit /\ Replacements = {} /\ values[Other] < 0
      /\ conflict' = LargeConflict(Watch.ref) /\ Leave
      /\ UNCHANGED <<trailVars, arena, reason, resolvent, result, formula, todo>>
  BY DEF Propagate, VisitConflict, analysisVars, loopVars
<1>2. Visiting /\ ~ Watch.binary BY <1>1 DEF LiveVisit, LargeVisit
<1>3. /\ Watch.ref \in References /\ Watch.ref \in Nat \ {0} /\ Other \in Lit
      /\ Follows(ToSet(Visited.lits))
  BY <1>2, LargeFacts
<1>4. conflict'.ref = Watch.ref /\ LitsOf(conflict)' = Visited.lits
  BY <1>1, <1>3 DEF LargeConflict, LitsOf, Visited
<1>5. ~ undo.active BY <1>1, PropagatingIdle
<1>6. \A l \in ToSet(Visited.lits) :
         l \in Lit /\ values[l] = -1 /\ LevelOf(l) <= CurrentLevel
  BY <1>1, <1>3, <1>5, FalseBelow, OthersFalse
<1>7. \A l \in ToSet(LitsOf(conflict)') :
         l \in Lit /\ values[l] = -1 /\ LevelOf(l) <= CurrentLevel
  BY <1>4, <1>6
<1>8. Follows(ToSet(LitsOf(conflict)')) BY <1>3, <1>4
<1>9. /\ conflict'.ref \in References /\ ~ arena[conflict'.ref].garbage
      /\ LitsOf(conflict)' = arena[conflict'.ref].lits
  BY <1>1, <1>3, <1>4 DEF Visited, LiveVisit
<1> QED BY <1>1, <1>7, <1>8, <1>9, ConflictFound

\* A literal is assigned and the watch kept.
LEMMA VisitAssign ==
    ASSUME SearchInv, Propagating, Visiting, Keep(Watch), NextWatch,
           UNCHANGED <<arena, conflict, resolvent, result, formula, todo>>,
           NEW lit \in Lit, NEW lvl \in 0 .. CurrentLevel,
           NEW why \in ReasonType, AssignReason(lit, lvl, why),
           lvl = 0 => Follows({lit}),
           lvl > 0 =>
               \/ /\ why.kind = "binary"
                  /\ why.other \in Lit
                  /\ Follows({lit, why.other})
                  /\ values[why.other] = -1 /\ LevelOf(why.other) = lvl
               \/ /\ why.kind = "large"
                  /\ why.ref \in References
                  /\ ~ arena[why.ref].garbage
                  /\ lit \in First(why.ref)
                  /\ \A m \in ToSet(arena[why.ref].lits) \ {lit} :
                        values[m] = -1 /\ LevelOf(m) <= lvl
                  /\ \E m \in ToSet(arena[why.ref].lits) \ {lit} : LevelOf(m) = lvl
    PROVE  SearchInv'
<1>1. /\ todo = <<>> /\ conflict = NoConflict /\ resolvent = {}
  BY PropagatingIdle
<1>2. ConflictSound' /\ ResolventSound' /\ TodoSound'
  <2>1. todo' = <<>> /\ conflict' = NoConflict /\ resolvent' = {} BY <1>1
  <2> QED BY <2>1, StillIdle
<1>3. /\ TrailInv' /\ RootSound' /\ ReasonsSound' /\ ~ undo'.active
  <2>1. Targets \subseteq Targets' /\ Targets' \subseteq Targets BY DEF Targets
  <2> QED BY <1>1, <2>1, AssignSound
<1>4. WatchListsOK' /\ WatchesSound' /\ visit'.lit = visit.lit
  <2>1. Watch \in WatchType BY WatchFacts
  <2> QED BY <2>1, KeepSound DEF Alike
<1>5. VisitSound'
  <2>1. visit.lit \in Lit /\ values[visit.lit] = 1 /\ visit.lit # 0
    BY VisitFacts DEF Visiting
  <2>2. values'[visit.lit] = 1
    <3>1. TrailInv /\ ~ undo.active /\ Push(lit, lvl) /\ lvl \in Nat
      BY DEF SearchInv, AssignReason, Assign
    <3> QED BY <2>1, <3>1, PushKept
  <2>3. NoConflict' = NoConflict BY DEF NoConflict
  <2> QED BY <1>1, <1>3, <1>4, <2>1, <2>2, <2>3 DEF VisitSound
<1>6. ArenaSound'
  <2>1. \A D : Follows(D)' <=> Follows(D) BY DEF Follows
  <2>2. References' = References BY DEF References
  <2> QED BY <2>1, <2>2 DEF SearchInv, ArenaSound
<1>7. RefutationSound' /\ formula' \in Formulas BY DEF SearchInv, RefutationSound
<1> QED BY <1>2, <1>3, <1>4, <1>5, <1>6, <1>7 DEF SearchInv

LEMMA VisitBinaryForceInv ==
    ASSUME SearchInv, Propagate, VisitBinary, Blocking = 0
    PROVE  SearchInv'
<1>1. /\ Propagating /\ Visiting /\ Watch.binary /\ Keep(Watch) /\ NextWatch
      /\ UNCHANGED <<arena, conflict, resolvent, result, formula, todo>>
      /\ AssignReason(Watch.blocking, LevelOf(visit.lit),
             BinaryReason(Jumped(-visit.lit, JumpReasons /\ BigBig)))
  BY DEF Propagate, VisitBinary, analysisVars, loopVars
<1>2. Watch \in WatchType /\ WatchOK(formula, Firsts, -visit.lit, Watch) BY <1>1, WatchFacts
<1>3. PICK lit \in Lit, other \in Lit :
         /\ other = -visit.lit /\ lit = Watch.blocking /\ lit # other /\ Follows({lit, other})
  <2>1. -visit.lit \in Lit BY <1>1, VisitFacts DEF Visiting
  <2>2. Watch.blocking \in Lit BY <1>2 DEF WatchType
  <2>3. Watch.blocking # -visit.lit /\ Follows({-visit.lit, Watch.blocking})
    BY <1>1, <1>2 DEF WatchOK, Follows
  <2>4. {-visit.lit, Watch.blocking} = {Watch.blocking, -visit.lit} OBVIOUS
  <2> QED BY <2>1, <2>2, <2>3, <2>4
<1>4. PICK lvl \in 0 .. CurrentLevel :
         lvl = LevelOf(visit.lit) /\ LevelOf(other) = lvl /\ values[other] = -1
  <2>1. CurrentLevel \in Nat BY DEF SearchInv, TrailInv, TrailTypeOK, CurrentLevel
  <2> QED BY <1>1, <1>3, <2>1, VisitFacts DEF Visiting
<1> DEFINE jumping == JumpReasons /\ BigBig
           j == BinaryReason(Jumped(other, jumping))
<1>5. /\ j \in ReasonType /\ j.kind = "binary" /\ j.other \in Lit
      /\ Follows({lit, j.other})
      /\ values[j.other] = -1 /\ LevelOf(j.other) = LevelOf(other)
  <2>1. LevelOf(other) <= CurrentLevel BY <1>4
  <2> HIDE DEF jumping
  <2> QED BY <1>3, <1>4, <2>1, JumpedFacts
<1>6. PICK why \in ReasonType : why = j BY <1>5
<1>7. AssignReason(lit, lvl, why) BY <1>1, <1>3, <1>4, <1>6
<1> HIDE DEF j
<1>8. lvl = 0 => Follows({lit})
  <2> HAVE lvl = 0
  <2>1. Follows({-other}) BY <1>4, RootFalse DEF SearchInv
  <2>2. \A m \in {lit, other} \ {lit} : Follows({-m}) BY <2>1
  <2> QED BY <1>3, <2>2, FollowsWithout
<1>9. lvl > 0 =>
        /\ why.kind = "binary" /\ why.other \in Lit /\ Follows({lit, why.other})
        /\ values[why.other] = -1 /\ LevelOf(why.other) = lvl
  BY <1>4, <1>5, <1>6
<1> QED BY <1>1, <1>7, <1>8, <1>9, VisitAssign

LEMMA VisitForceInv == SearchInv /\ Propagate /\ VisitForce => SearchInv'
<1> SUFFICES ASSUME SearchInv, Propagate, VisitForce PROVE SearchInv'
  OBVIOUS
<1>1. /\ Propagating /\ LiveVisit /\ Replacements = {} /\ values[Other] = 0
      /\ AssignReference(Other, Watch.ref) /\ Keep(Watch) /\ NextWatch
      /\ UNCHANGED <<arena, conflict, resolvent, result, formula, todo>>
  BY DEF Propagate, VisitForce, analysisVars, loopVars
<1>2. Visiting /\ ~ Watch.binary /\ ~ Visited.garbage BY <1>1 DEF LiveVisit, LargeVisit
<1>3. /\ Watch.ref \in References /\ Watch.ref \in Nat \ {0} /\ Other \in Lit
      /\ Follows(ToSet(Visited.lits)) /\ -visit.lit \in {Visited.lits[1], Visited.lits[2]}
      /\ Other # -visit.lit /\ Other \in First(Watch.ref)
      /\ Visited.lits \in Seq(Lit) /\ Len(Visited.lits) > 2 /\ Len(Visited.lits) \in Nat
  BY <1>2, LargeFacts
<1>4. PICK lit \in Lit, ref \in Nat : lit = Other /\ ref = Watch.ref BY <1>3
<1> DEFINE others == ToSet(arena[ref].lits) \ {lit}
<1>5. CurrentLevel \in Nat BY DEF SearchInv, TrailInv, TrailTypeOK, CurrentLevel
<1>6. \A m \in others : m \in Lit /\ values[m] = -1 /\ LevelOf(m) \in 0 .. CurrentLevel
  <2>1. \A m \in others :
           m \in Lit /\ values[m] = -1 /\ LevelOf(m) <= CurrentLevel /\ LevelOf(m) \in Nat
    BY <1>1, <1>4, OthersFalse DEF Visited
  <2> QED BY <1>5, <2>1
<1>7. -visit.lit \in others
  <2>1. -visit.lit \in ToSet(Visited.lits) BY <1>3 DEF ToSet
  <2> QED BY <1>3, <1>4, <2>1 DEF Visited
<1> HIDE DEF others
<1>8. PICK lvl \in 0 .. CurrentLevel :
         /\ lvl = Max(LevelsOf(others))
         /\ \A m \in others : LevelOf(m) <= lvl
         /\ \E m \in others : LevelOf(m) = lvl
  <2>1. LevelsOf(others) \in SUBSET (0 .. CurrentLevel) /\ LevelsOf(others) # {}
    BY <1>6, <1>7 DEF LevelsOf
  <2>2. /\ Max(LevelsOf(others)) \in LevelsOf(others)
        /\ \A y \in LevelsOf(others) : y <= Max(LevelsOf(others))
    BY <1>5, <2>1, MaxFacts
  <2> QED BY <2>1, <2>2 DEF LevelsOf
<1>9. PICK why \in ReasonType : why = LargeReason(ref)
  <2>1. LargeReason(ref) \in ReasonType BY DEF LargeReason, ReasonType
  <2> QED BY <2>1
<1>10. AssignReason(lit, lvl, why) BY <1>1, <1>4, <1>8, <1>9 DEF AssignReference, others
<1>11. lvl = 0 => Follows({lit})
  <2> HAVE lvl = 0
  <2>1. \A m \in others : LevelOf(m) = 0
    <3>1. \A m \in others : LevelOf(m) \in 0 .. CurrentLevel /\ LevelOf(m) <= 0 BY <1>6, <1>8
    <3> QED BY <3>1
  <2>2. \A m \in others : Follows({-m}) BY <1>6, <2>1, RootFalse DEF SearchInv
  <2>3. \A m \in ToSet(Visited.lits) \ {lit} : Follows({-m}) BY <1>4, <2>2 DEF others, Visited
  <2> QED BY <1>3, <2>3, FollowsWithout
<1>12. why.kind = "large" /\ why.ref = ref BY <1>9 DEF LargeReason
<1>13. /\ \A m \in ToSet(arena[why.ref].lits) \ {lit} : values[m] = -1 /\ LevelOf(m) <= lvl
       /\ \E m \in ToSet(arena[why.ref].lits) \ {lit} : LevelOf(m) = lvl
  BY <1>6, <1>8, <1>12 DEF others
<1>14. why.ref \in References /\ ~ arena[why.ref].garbage /\ lit \in First(why.ref)
  BY <1>2, <1>3, <1>4, <1>12 DEF Visited
<1> QED BY <1>1, <1>2, <1>10, <1>11, <1>12, <1>13, <1>14, VisitAssign

\* The false literal and its replacement trade places.
Replacing(ref, found, other, k) ==
    /\ ref = Watch.ref /\ ref # 0 /\ other = Other /\ k = -visit.lit
    /\ found \in ToSet(arena[ref].lits) /\ values[found] >= 0
    /\ visit' = [[visit EXCEPT !.rest = Tail(@)] EXCEPT
                     !.delayed[found] = Append(@, LargeWatch(other, ref))]
    /\ arena' \in Seq(ClauseType) /\ References' = References
    /\ arena'[ref].lits \in Seq(Lit) /\ Len(arena'[ref].lits) > 2
    /\ IsInjective(arena'[ref].lits)
    /\ arena'[ref].garbage = arena[ref].garbage /\ arena'[ref].redundant = arena[ref].redundant
    /\ \A c \in References : c # ref => arena'[c] = arena[c] /\ First(c)' = First(c)
    /\ \A c \in References : ToSet(arena'[c].lits) = ToSet(arena[c].lits)
    /\ First(ref)' = {other, found} /\ First(ref) = {other, k}
    /\ found \notin First(ref) /\ other # k

LEMMA VisitReplaceFacts ==
    ASSUME SearchInv, Propagate, VisitReplace
    PROVE  \E ref \in References : \E found, other, k \in Lit : Replacing(ref, found, other, k)
<1>1. /\ Propagating /\ LiveVisit /\ Replacements # {}
      /\ UNCHANGED <<trailVars, watches, reason, conflict, resolvent, result, formula, todo>>
  BY DEF Propagate, VisitReplace, analysisVars, loopVars
<1>2. /\ Visiting /\ ~ Watch.binary /\ ~ (values[Other] > 0)
  <2>1. Visiting /\ ~ Watch.binary /\ values[Other] <= 0 BY <1>1 DEF LiveVisit, LargeVisit
  <2>2. values[Other] \in {-1, 0, 1}
    <3>1. Other \in Lit BY <2>1, LargeFacts
    <3> QED BY <3>1, Values DEF SearchInv
  <2> QED BY <2>1, <2>2
<1>3. /\ Watch.ref \in References /\ Watch.ref \in Nat \ {0}
      /\ Visited \in ClauseType
      /\ Visited.lits \in Seq(Lit) /\ Len(Visited.lits) > 2 /\ Len(Visited.lits) \in Nat
      /\ IsInjective(Visited.lits) /\ Follows(ToSet(Visited.lits))
      /\ Visited.lits[1] # Visited.lits[2]
      /\ Other \in Lit /\ Other # -visit.lit
      /\ {Other, -visit.lit} = {Visited.lits[1], Visited.lits[2]}
      /\ First(Watch.ref) = {Visited.lits[1], Visited.lits[2]}
  BY <1>2, LargeFacts
<1>4. PICK ref \in Nat : ref = Watch.ref BY <1>3
<1>5. PICK r \in 3 .. Len(Visited.lits) : r = Replacement /\ r \in Replacements
  <2>1. Replacements \subseteq 3 .. Len(Visited.lits) BY DEF Replacements
  <2> DEFINE ahead == {i \in Replacements : i >= Visited.searched}
             pool == IF ahead # {} THEN ahead ELSE Replacements
  <2>2. /\ pool \in SUBSET Nat /\ pool # {} /\ pool \subseteq 3 .. Len(Visited.lits)
        /\ pool \subseteq Replacements
    <3>1. \A i \in 3 .. Len(Visited.lits) : i \in Nat BY <1>3
    <3> QED BY <1>1, <2>1, <3>1
  <2>3. Replacement = Min(pool) BY DEF Replacement
  <2> HIDE DEF pool
  <2>4. Min(pool) \in pool BY <2>2, MinFacts
  <2> QED BY <2>2, <2>3, <2>4
<1>6. PICK found \in Lit, other \in Lit, k \in Lit :
         found = Visited.lits[r] /\ other = Other /\ k = -visit.lit
  <2>1. Visited.lits[r] \in Lit BY <1>3, <1>5
  <2>2. -visit.lit \in Lit BY <1>2, VisitFacts DEF Visiting
  <2> QED BY <1>3, <2>1, <2>2
<1>21. Visited = arena[ref] BY <1>4 DEF Visited
<1> DEFINE new == [arena[ref].lits EXCEPT ![1] = other, ![2] = found, ![r] = k]
           w == LargeWatch(other, ref)
           u == [visit EXCEPT !.rest = Tail(@)]
           v == [u EXCEPT !.delayed[found] = Append(@, w)]
\* The clause is permuted.
<1>7. /\ new \in Seq(Lit) /\ Len(new) = Len(Visited.lits) /\ IsInjective(new)
      /\ ToSet(new) = ToSet(Visited.lits)
      /\ new[1] = other /\ new[2] = found
  <2> DEFINE s == arena[ref].lits
  <2>1. /\ DOMAIN s = 1 .. Len(s) /\ Len(s) \in Nat /\ Len(s) > 2 /\ s \in Seq(Lit)
        /\ IsInjective(s) /\ {other, k} = {s[1], s[2]} /\ s[1] # s[2] /\ other # k
        /\ s[r] = found /\ r \in 3 .. Len(s)
    <3>1. Visited.lits = s BY <1>21
    <3> HIDE DEF s
    <3>2. s \in Seq(Lit) /\ Len(s) > 2 /\ Len(s) \in Nat /\ IsInjective(s) /\ s[1] # s[2]
      BY <1>3, <3>1
    <3>3. {other, k} = {s[1], s[2]} /\ other # k BY <1>3, <1>6, <3>1
    <3>4. s[r] = found /\ r \in 3 .. Len(s) BY <1>5, <1>6, <3>1
    <3> QED BY <3>2, <3>3, <3>4
  <2>2. 1 \in 1 .. Len(s) /\ 2 \in 1 .. Len(s) /\ r \in 1 .. Len(s) /\ r # 1 /\ r # 2
    BY <2>1
  <2>3. new[1] = other /\ new[2] = found BY <2>1, <2>2
  <2>4. CASE s[2] = k
    <3>1. s[1] = other BY <2>1, <2>4
    <3> DEFINE t == Swapped(s, 2, r)
    <3>2. t \in Seq(Lit) /\ Len(t) = Len(s) /\ IsInjective(t) /\ ToSet(t) = ToSet(s)
      BY <2>1, <2>2, SwappedFacts
    <3>3. new = t
      <4>1. t = [s EXCEPT ![2] = s[r], ![r] = s[2]] BY DEF Swapped
      <4>2. DOMAIN new = DOMAIN s /\ DOMAIN t = DOMAIN s BY <4>1
      <4>3. \A i \in DOMAIN s : new[i] = t[i] BY <2>1, <2>2, <2>4, <3>1, <4>1
      <4>4. new = [i \in DOMAIN s |-> new[i]] /\ t = [i \in DOMAIN s |-> t[i]]
        BY <4>1
      <4> HIDE DEF new, t
      <4> QED BY <4>2, <4>3, <4>4
    <3> HIDE DEF new, t
    <3> QED BY <1>21, <2>3, <3>2, <3>3
  <2>5. CASE s[2] # k
    <3>1. s[2] = other /\ s[1] = k BY <2>1, <2>5
    <3> DEFINE q == Swapped(s, 1, 2)
               t == Swapped(q, 2, r)
    <3>5. /\ q \in Seq(Lit) /\ Len(q) = Len(s) /\ IsInjective(q) /\ ToSet(q) = ToSet(s)
      BY <2>1, <2>2, SwappedFacts
    <3>6. /\ q[1] = s[2] /\ q[2] = s[1]
          /\ \A i \in 1 .. Len(s) : i # 1 /\ i # 2 => q[i] = s[i]
      BY <2>1, <2>2 DEF Swapped
    <3> HIDE DEF q
    <3>2. /\ q \in Seq(Lit) /\ Len(q) = Len(s) /\ IsInjective(q) /\ ToSet(q) = ToSet(s)
          /\ q[1] = s[2] /\ q[2] = s[1]
          /\ \A i \in 1 .. Len(s) : i # 1 /\ i # 2 => q[i] = s[i]
      BY <3>5, <3>6
    <3>3. /\ t \in Seq(Lit) /\ Len(t) = Len(q) /\ IsInjective(t) /\ ToSet(t) = ToSet(q)
      BY <2>2, <3>2, SwappedFacts
    <3>4. new = t
      <4>1. t = [q EXCEPT ![2] = q[r], ![r] = q[2]] BY DEF Swapped
      <4>2. DOMAIN new = DOMAIN s /\ DOMAIN t = DOMAIN s BY <2>1, <3>2, <4>1
      <4>3. \A i \in DOMAIN s : new[i] = t[i]
        <5> TAKE i \in DOMAIN s
        <5>1. DOMAIN q = DOMAIN s BY <2>1, <3>2
        <5>2. t[i] = IF i = r THEN q[2] ELSE IF i = 2 THEN q[r] ELSE q[i] BY <4>1, <5>1, <2>2
        <5>3. new[i] = IF i = r THEN k ELSE IF i = 2 THEN found ELSE IF i = 1 THEN other
                       ELSE s[i]
          BY <2>1, <2>2
        <5>4. q[r] = found /\ q[2] = k /\ q[1] = other BY <2>1, <2>2, <3>1, <3>2
        <5>5. i # 1 /\ i # 2 => q[i] = s[i] BY <2>1, <3>2
        <5> HIDE DEF new, t
        <5> QED BY <5>2, <5>3, <5>4, <5>5
      <4>4. new = [i \in DOMAIN s |-> new[i]] /\ t = [i \in DOMAIN s |-> t[i]]
        <5>1. new = [i \in DOMAIN s |-> new[i]] OBVIOUS
        <5>2. q \in [1 .. Len(q) -> Lit] /\ DOMAIN q = DOMAIN s BY <2>1, <3>2
        <5>3. t = [i \in DOMAIN q |-> t[i]] BY <4>1, <5>2
        <5> QED BY <5>1, <5>2, <5>3
      <4> HIDE DEF new, t
      <4> QED BY <4>2, <4>3, <4>4
    <3> HIDE DEF new, t
    <3> QED BY <1>21, <2>3, <3>2, <3>3, <3>4
  <2> QED BY <1>21, <2>4, <2>5
<1> HIDE DEF new
<1> DEFINE z == [arena[ref] EXCEPT
              !.lits = [arena[ref].lits EXCEPT ![1] = other, ![2] = found, ![r] = k],
              !.searched = r]
<1>8. /\ arena' = [arena EXCEPT
              ![ref].lits = [@ EXCEPT ![1] = other, ![2] = found, ![r] = k],
              ![ref].searched = r]
      /\ visit' = v
  <2>1. /\ arena' = [arena EXCEPT
              ![ref].lits = [@ EXCEPT ![1] = other, ![2] = found, ![r] = k],
              ![ref].searched = r]
        /\ visit' = [visit EXCEPT !.rest = Tail(@), !.delayed[found] = Append(@, w)]
    BY <1>4, <1>5, <1>6 DEF VisitReplace
  <2>2. visit \in VisitType BY <1>2, VisitFacts DEF Visiting
  <2>3. v = [visit EXCEPT !.rest = Tail(@), !.delayed[found] = Append(@, w)]
    BY <2>2 DEF VisitType
  <2> QED BY <2>1, <2>3
<1>10. /\ arena' \in Seq(ClauseType) /\ References' = References /\ ref \in References
       /\ arena'[ref].lits = new
       /\ arena'[ref].garbage = arena[ref].garbage /\ arena'[ref].redundant = arena[ref].redundant
       /\ \A c \in References : c # ref => arena'[c] = arena[c]
       /\ \A c \in References : ToSet(arena'[c].lits) = ToSet(arena[c].lits)
  <2>1. arena \in Seq(ClauseType) /\ ref \in DOMAIN arena /\ arena[ref] \in ClauseType
    BY <1>3, <1>4 DEF SearchInv, ArenaSound, References
  <2>2. r \in Nat BY <1>3, <1>5
  <2>3. /\ z.lits = new /\ z \in ClauseType
        /\ z.garbage = arena[ref].garbage /\ z.redundant = arena[ref].redundant
    <3>1. z.lits = new BY <2>1 DEF new, ClauseType
    <3>2. z \in ClauseType BY <1>7, <2>1, <2>2 DEF new, ClauseType
    <3>3. z.garbage = arena[ref].garbage /\ z.redundant = arena[ref].redundant
      BY <2>1 DEF ClauseType
    <3> QED BY <3>1, <3>2, <3>3
  <2>4. /\ DOMAIN arena' = DOMAIN arena /\ arena'[ref] = z
        /\ \A c \in DOMAIN arena : c # ref => arena'[c] = arena[c]
        /\ arena' = [c \in DOMAIN arena |-> arena'[c]]
    <3>1. DOMAIN arena' = DOMAIN arena BY <1>8
    <3>2. \A c \in DOMAIN arena : c # ref => arena'[c] = arena[c] BY <1>8
    <3>3. arena'[ref] = z BY <1>8, <2>1
    <3>4. arena' = [c \in DOMAIN arena |-> arena'[c]] BY <1>8, <3>1
    <3> QED BY <3>1, <3>2, <3>3, <3>4
  <2> HIDE DEF z
  <2>5. arena' \in Seq(ClauseType)
    <3>1. \A c \in DOMAIN arena : arena'[c] \in ClauseType BY <2>1, <2>3, <2>4
    <3>2. DOMAIN arena = 1 .. Len(arena) /\ Len(arena) \in Nat BY <2>1
    <3> QED BY <2>4, <3>1, <3>2
  <2>6. ToSet(arena'[ref].lits) = ToSet(arena[ref].lits)
    BY <1>7, <1>21, <2>3, <2>4
  <2> QED BY <2>1, <2>3, <2>4, <2>5, <2>6 DEF References
<1>11. /\ First(ref)' = {other, found} /\ First(ref) = {other, k}
       /\ \A c \in References : c # ref => First(c)' = First(c)
  BY <1>3, <1>4, <1>6, <1>7, <1>10 DEF First
<1>12. found \notin First(ref)
  <2>1. /\ DOMAIN Visited.lits = 1 .. Len(Visited.lits) /\ 1 \in DOMAIN Visited.lits
        /\ 2 \in DOMAIN Visited.lits /\ r \in DOMAIN Visited.lits /\ r # 1 /\ r # 2
    BY <1>3, <1>5
  <2>2. found # Visited.lits[1] /\ found # Visited.lits[2]
    BY <1>3, <1>6, <2>1 DEF IsInjective
  <2> QED BY <1>3, <1>4, <2>2
<1>13. visit' = [[visit EXCEPT !.rest = Tail(@)] EXCEPT
                    !.delayed[found] = Append(@, LargeWatch(other, ref))]
  BY <1>8
<1>14. found \in ToSet(arena[ref].lits) /\ values[found] >= 0
  <2>1. r \in Replacements BY <1>5
  <2>2. DOMAIN Visited.lits = 1 .. Len(Visited.lits) BY <1>3
  <2>3. r \in DOMAIN Visited.lits BY <1>3, <1>5, <2>2
  <2> QED BY <1>6, <1>21, <2>1, <2>3 DEF Replacements, ToSet
<1>15. ref # 0 /\ other # k BY <1>3, <1>4, <1>6
<1>16. /\ arena'[ref].lits \in Seq(Lit) /\ Len(arena'[ref].lits) > 2
       /\ IsInjective(arena'[ref].lits)
  BY <1>3, <1>7, <1>10
<1>17. Replacing(ref, found, other, k)
  BY <1>4, <1>6, <1>10, <1>11, <1>12, <1>13, <1>14, <1>15, <1>16 DEF Replacing
<1> QED BY <1>10, <1>17

LEMMA VisitReplaceInv == SearchInv /\ Propagate /\ VisitReplace => SearchInv'
<1> SUFFICES ASSUME SearchInv, Propagate, VisitReplace PROVE SearchInv'
  OBVIOUS
<1>1. /\ Propagating /\ LiveVisit /\ Replacements # {}
      /\ UNCHANGED <<trailVars, watches, reason, conflict, resolvent, result, formula, todo>>
  BY DEF Propagate, VisitReplace, analysisVars, loopVars
<1>2. /\ Visiting /\ ~ Watch.binary /\ ~ (values[Other] > 0)
  <2>1. Visiting /\ ~ Watch.binary /\ values[Other] <= 0 BY <1>1 DEF LiveVisit, LargeVisit
  <2>2. values[Other] \in {-1, 0, 1}
    <3>1. Other \in Lit BY <2>1, LargeFacts
    <3> QED BY <3>1, Values DEF SearchInv
  <2> QED BY <2>1, <2>2
<1>3. Follows(ToSet(Visited.lits)) BY <1>2, LargeFacts
<1>4. PICK ref \in References, found \in Lit, other \in Lit, k \in Lit :
         Replacing(ref, found, other, k)
  BY VisitReplaceFacts
<1>6. ref = Watch.ref /\ other = Other /\ k = -visit.lit /\ ref \in Nat
  BY <1>2, <1>4, LargeFacts DEF Replacing
<1> DEFINE w == LargeWatch(other, ref)
           u == [visit EXCEPT !.rest = Tail(@)]
           v == [u EXCEPT !.delayed[found] = Append(@, w)]
<1>8. visit' = v BY <1>4 DEF Replacing
<1>10. /\ arena' \in Seq(ClauseType) /\ References' = References /\ ref \in References
       /\ \A c \in References : c # ref => arena'[c] = arena[c]
       /\ \A c \in References : ToSet(arena'[c].lits) = ToSet(arena[c].lits)
  BY <1>4 DEF Replacing
<1>11. /\ First(ref)' = {other, found} /\ First(ref) = {other, k}
       /\ \A c \in References : c # ref => First(c)' = First(c)
  BY <1>4 DEF Replacing
<1>12. found \notin First(ref) BY <1>4 DEF Replacing
\* The watch moves to the replacement.
<1>13. WatchListsOK' /\ WatchesSound' /\ visit'.lit = visit.lit
  <2>1. visit.lit \in Lit /\ visit \in VisitType /\ watches \in Lists /\ visit.rest # <<>>
    BY <1>2, VisitFacts DEF Visiting
  <2> DEFINE p == Len(watches[k]) + 1
             H == HandsOf(watches, visit)
             K == HandsOf(watches, u)
             J == HandsOf(watches, v)
             E == Firsts'
  <2>2. /\ u \in VisitType /\ \A l \in Lit : l # k => K[l] = H[l]
        /\ Drops(K[k], H[k], p) /\ H[k][p] = Watch
    BY <1>6, <2>1, HandsSkip DEF Watch
  <2>3. w \in WatchType /\ w.ref = ref /\ ~ w.binary BY <1>6 DEF LargeWatch, WatchType
  <2> HIDE DEF w
  <2>4. v \in VisitType /\ u.lit = visit.lit /\ v.lit = visit.lit BY <2>1, <2>2, <2>3, HandsDelay DEF VisitType
  <2>5. /\ \A l \in Lit : l # found => J[l] = K[l]
        /\ J[found] = Append(K[found], w)
    <3>1. u \in VisitType BY <2>2
    <3> HIDE DEF u
    <3>2. watches \in Lists BY <2>1
    <3>3. LET x == [u EXCEPT !.delayed[found] = Append(@, w)] IN
             /\ x \in VisitType
             /\ \A l \in Lit : l # found => HandsOf(watches, x)[l] = HandsOf(watches, u)[l]
             /\ HandsOf(watches, x)[found] = Append(HandsOf(watches, u)[found], w)
      BY <2>3, <3>1, <3>2, HandsDelay, Zenon
    <3> QED BY <3>3
  <2>6. \A l \in Lit : K[l] \in Seq(WatchType)
    <3> HIDE DEF u
    <3>1. K \in Lists BY <2>1, <2>2, HandsTyped
    <3> QED BY <3>1 DEF Lists
  <2> HIDE DEF u, v, p, H, K, J
  <2>7. HandsSound(formula, Firsts, H) BY DEF SearchInv, WatchesSound, H
  <2>8. \A l \in Lit : Embeds(K[l], H[l])
    <3> TAKE l \in Lit
    <3>1. CASE l = k BY <2>2, <3>1, DropsEmbeds
    <3>2. CASE l # k BY <2>2, <3>2, EmbedsSelf
    <3> QED BY <3>1, <3>2
  <2>9. HandsSound(formula, Firsts, K)
    <3>1. \A c \in DOMAIN Firsts : c \in DOMAIN Firsts /\ Firsts[c] = Firsts[c] OBVIOUS
    <3> QED BY <2>7, <2>8, <3>1, HandsLess
  <2>10. \A i \in DOMAIN K[k] : ~ Watches(K[k][i], ref)
    <3>1. Once(H[k]) BY <2>7 DEF HandsSound
    <3>2. ~ H[k][p].binary /\ H[k][p].ref = ref BY <1>2, <1>6, <2>2
    <3> QED BY <2>2, <3>1, <3>2, DropsOnly
  <2>11. /\ DOMAIN Firsts = References /\ DOMAIN E = References
         /\ \A c \in References : Firsts[c] = First(c) /\ (c # ref => E[c] = First(c))
         /\ E[ref] = {other, found}
    BY <1>10, <1>11 DEF Firsts
  <2> HIDE DEF E
  <2>12. \A l \in Lit : \A i \in DOMAIN K[l] : Watches(K[l][i], ref) => l \in First(ref) /\ l # k
    <3> TAKE l \in Lit
    <3> TAKE i \in DOMAIN K[l]
    <3> HAVE Watches(K[l][i], ref)
    <3>1. WatchOK(formula, Firsts, l, K[l][i]) BY <2>9 DEF HandsSound
    <3>2. l \in First(ref) BY <1>10, <2>11, <3>1 DEF WatchOK, Watches
    <3> QED BY <2>10, <3>2
  <2>13. HandsSound(formula, E, K)
    <3>1. \A c \in DOMAIN Firsts : c \in DOMAIN E /\ (c # ref => E[c] = Firsts[c])
      BY <2>11
    <3>2. \A l \in Lit : \A i \in DOMAIN K[l] : Watches(K[l][i], ref) => l \in E[ref]
      BY <1>11, <2>11, <2>12
    <3> QED BY <2>9, <3>1, <3>2, HandsMoved
  <2>14. HandsSound(formula, E, J)
    <3>1. WatchOK(formula, E, found, w) BY <1>10, <2>3, <2>11 DEF WatchOK
    <3>2. \A i \in DOMAIN K[found] : ~ Watches(K[found][i], w.ref)
      BY <1>12, <2>3, <2>12
    <3>3. \A l \in Lit : J[l] # K[l] =>
             \E x \in WatchType : /\ J[l] = Append(K[l], x)
                                  /\ WatchOK(formula, E, l, x)
                                  /\ x.binary \/ \A i \in DOMAIN K[l] : ~ Watches(K[l][i], x.ref)
      BY <2>3, <2>5, <3>1, <3>2
    <3> QED BY <2>6, <2>13, <3>3, HandsMore
  <2>15. WatchesSound' BY <1>1, <1>8, <2>14 DEF WatchesSound, E, J
  <2>16. WatchListsOK' BY <1>1, <1>8, <2>1, <2>4 DEF WatchListsOK
  <2> QED BY <1>8, <2>4, <2>15, <2>16
<1>14. VisitSound' BY <1>1, <1>2, <1>13, VisitingOn DEF trailVars
<1>15. /\ todo = <<>> /\ conflict = NoConflict /\ resolvent = {} /\ \A l : ~ Doomed(l)
  BY <1>1, PropagatingIdle
<1>16. ConflictSound' /\ ResolventSound' /\ TodoSound'
  <2>1. todo' = <<>> /\ conflict' = NoConflict /\ resolvent' = {} BY <1>1, <1>15
  <2> QED BY <2>1, StillIdle
<1>17. /\ TrailInv' /\ RootSound' /\ Forced' = Forced
       /\ \A D : Follows(D)' <=> Follows(D)
  BY <1>1, Unmoved DEF SearchInv
<1>18. ArenaSound'
  <2>1. ASSUME NEW c \in References'
        PROVE  /\ arena'[c].lits \in Seq(Lit)
               /\ Len(arena'[c].lits) > 2
               /\ IsInjective(arena'[c].lits)
               /\ Follows(ToSet(arena[c].lits))'
    <3>1. CASE c = ref
      <4>1. /\ arena'[ref].lits \in Seq(Lit) /\ Len(arena'[ref].lits) > 2
            /\ IsInjective(arena'[ref].lits)
        BY <1>4 DEF Replacing
      <4>2. Follows(ToSet(arena'[ref].lits)) BY <1>3, <1>6, <1>10 DEF Visited
      <4> QED BY <1>17, <3>1, <4>1, <4>2
    <3>2. CASE c # ref BY <1>10, <1>17, <3>2 DEF SearchInv, ArenaSound
    <3> QED BY <3>1, <3>2
  <2> QED BY <1>10, <2>1 DEF ArenaSound
\* No literal is true because of the clause.
<1>19. ReasonsSound'
  <2>1. ASSUME NEW l \in Forced, Fits(l) PROVE Fits(l)'
    <3> SUFFICES ASSUME NEW c, c = reason[Idx(l)].ref, reason[Idx(l)].kind = "large"
                 PROVE  ~ arena'[c].garbage /\ l \in First(c)'
      BY <1>1 DEF Fits, First
    <3>1. ~ arena[reason[Idx(l)].ref].garbage /\ l \in First(reason[Idx(l)].ref)
      BY <2>1 DEF Fits
    <3>2. reason[Idx(l)].ref \in References BY DEF SearchInv, ReasonsSound, ReasonSound
    <3>3. reason[Idx(l)].ref # ref
      <4> SUFFICES ASSUME l \in First(ref) PROVE FALSE BY <3>1
      <4>1. values[l] = 1 BY DEF Forced
      <4>2. values[k] = -1 BY <1>2, <1>6, VisitFacts DEF Visiting
      <4>3. l = other BY <1>11, <4>1, <4>2
      <4>4. values[Other] = 1 BY <1>6, <4>1, <4>3
      <4>5. values[Other] > 0 BY <4>4
      <4> QED BY <1>2, <4>5
    <3>4. c \in References /\ c # ref /\ ~ arena[c].garbage /\ l \in First(c)
      BY <3>1, <3>2, <3>3
    <3> QED BY <1>10, <1>11, <3>4
  <2>2. \A c \in References :
           c \in References' /\ ToSet(arena'[c].lits) = ToSet(arena[c].lits)
    BY <1>10
  <2> QED BY <1>1, <1>15, <2>1, <2>2, ReasonsKept DEF SearchInv
<1>20. RefutationSound' /\ formula' \in Formulas BY <1>1 DEF SearchInv, RefutationSound
<1> QED BY <1>13, <1>14, <1>16, <1>17, <1>18, <1>19, <1>20 DEF SearchInv

LEMMA PropagateInv == SearchInv /\ Propagate => SearchInv'
<1> SUFFICES ASSUME SearchInv, Propagate PROVE SearchInv'
  OBVIOUS
<1>1. PropagateStep BY DEF Propagate
<1>2. CASE VisitBinary
  <2>1. Blocking < 0 \/ Blocking = 0 BY <1>2 DEF VisitBinary
  <2> QED BY <1>2, <2>1, VisitBinaryConflictInv, VisitBinaryForceInv
<1> QED BY <1>1, <1>2, VisitStartInv, VisitKeepInv, VisitGarbageInv, VisitReplaceInv,
           VisitConflictInv, VisitForceInv, VisitEndInv DEF PropagateStep

=============================================================================
