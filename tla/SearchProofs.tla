---------------------------- MODULE SearchProofs ----------------------------
(***************************************************************************)
(* The search is sound, for every formula and every setting of its         *)
(* options: it refutes no satisfiable formula, and between two handlers    *)
(* whatever was assigned above the root for a reason is still forced by    *)
(* it.  The inductive invariant and the steps that move the trail are in   *)
(* TrailProofs; here are the analysis of conflicts, the clauses learned    *)
(* and strengthened, failed literals, the initial states, the theorems.    *)
(***************************************************************************)
EXTENDS TrailProofs

-----------------------------------------------------------------------------
\* The conflict analysis.  While it resolves nothing is left to backtrack, and
\* the resolvent has a literal of the current level.
LEMMA AnalysisFacts ==
    ASSUME SearchInv, Doing("deduce") \/ Doing("failed")
    PROVE  /\ todo # <<>> /\ 1 \in DOMAIN todo /\ Head(todo) = todo[1] /\ todo \in Seq(StepType)
           /\ Targets = {} /\ resolvent # {} /\ conflict # NoConflict /\ Follows(resolvent)
           /\ \A l \in resolvent : Safe(l) /\ LevelOf(l) > 0
           /\ Current(resolvent) # {}
           /\ Doing("deduce") => Len(todo) = 1
           /\ Doing("failed") => /\ \A i \in DOMAIN todo : i # 1 => todo[i].op = "unit"
                                 /\ \A l \in resolvent : LevelOf(l) = 1
                                 /\ CurrentLevel = 1
<1>1. todo # <<>> /\ todo \in Seq(StepType) BY DEF Doing, SearchInv, TodoSound
<1>2. /\ 1 \in DOMAIN todo /\ Head(todo) = todo[1] /\ DOMAIN todo = 1 .. Len(todo)
      /\ Len(todo) \in Nat
  BY <1>1
<1>3. todo[1].op \in {"deduce", "failed"} /\ Placed(1)
  BY <1>2 DEF Doing, SearchInv, TodoSound
<1>4. Analysis BY <1>2, <1>3 DEF Analysis
<1>5. /\ resolvent # {} /\ conflict # NoConflict /\ Follows(resolvent)
      /\ \A l \in resolvent : Safe(l) /\ LevelOf(l) > 0
      /\ \E l \in resolvent : LevelOf(l) = CurrentLevel \/ LevelOf(l) \in Targets
  BY <1>4 DEF SearchInv, ResolventSound
<1>6. Doing("deduce") => Len(todo) = 1 BY <1>2, <1>3 DEF Doing, Placed
<1>7. Doing("failed") => /\ \A i \in DOMAIN todo : i # 1 => todo[i].op = "unit"
                         /\ \A l \in resolvent : LevelOf(l) = 1
  <2> SUFFICES ASSUME Doing("failed")
               PROVE  /\ \A i \in DOMAIN todo : i # 1 => todo[i].op = "unit"
                      /\ \A l \in resolvent : LevelOf(l) = 1
    OBVIOUS
  <2>1. todo[1].op = "failed" BY <1>2 DEF Doing
  <2>2. \A i \in 2 .. Len(todo) : todo[i].op = "unit" BY <1>3, <2>1 DEF Placed
  <2>3. \A l \in resolvent : LevelOf(l) = 1
    BY <1>2, <1>5, <2>1 DEF SearchInv, ResolventSound
  <2>4. \A i \in DOMAIN todo : i # 1 => i \in 2 .. Len(todo) BY <1>2
  <2> QED BY <2>2, <2>3, <2>4
<1>8. Targets = {}
  <2>1. \A i \in DOMAIN todo : todo[i].op # "backtrack"
    <3>1. CASE Doing("deduce")
      <4>1. DOMAIN todo = 1 .. 1 BY <1>2, <1>6, <3>1
      <4>2. \A i \in DOMAIN todo : i = 1 BY <4>1
      <4> QED BY <1>3, <4>2
    <3>2. CASE Doing("failed") BY <1>3, <1>7, <3>2
    <3> QED BY <3>1, <3>2
  <2> QED BY <2>1 DEF Targets
<1>9. Current(resolvent) # {} BY <1>5, <1>8 DEF Current
<1>10. Doing("failed") => CurrentLevel = 1 BY <1>5, <1>7, <1>8
<1> QED BY <1>1, <1>2, <1>5, <1>6, <1>7, <1>8, <1>9, <1>10

\* The literals that the reason of a literal contributes.
LEMMA AntecedentFacts ==
    ASSUME SearchInv, NEW l \in Forced, ReasonSound(l), reason[Idx(l)].kind # "decision"
    PROVE  /\ Antecedent(l) \subseteq Lit
           /\ \A m \in Antecedent(l) :
                /\ values[m] = -1 /\ LevelOf(m) > 0 /\ LevelOf(m) <= LevelOf(l)
                /\ position[Idx(m)] < position[Idx(l)]
           /\ \E m \in Antecedent(l) : LevelOf(m) = LevelOf(l)
           /\ Follows({l} \cup Antecedent(l))
           /\ reason[Idx(l)].kind = "large" => reason[Idx(l)].ref \in References
           /\ reason[Idx(l)].kind \in {"binary", "large"}
<1> DEFINE why == reason[Idx(l)]
<1>1. l \in Lit /\ values[l] = 1 /\ LevelOf(l) > 0 BY DEF Forced
<1>2. TrailInv /\ RootSound /\ \A m \in Lit : LevelOf(m) \in Nat BY Values DEF SearchInv
<1>3. CASE why.kind = "binary"
  <2>1. why.other \in Lit /\ Follows({l, why.other}) /\ Supported(l, {why.other})
    BY <1>3 DEF ReasonSound
  <2>2. Antecedent(l) = {why.other} BY <1>3 DEF Antecedent
  <2>3. {l} \cup Antecedent(l) = {l, why.other} BY <2>2
  <2>4. LevelOf(why.other) = LevelOf(l) /\ values[why.other] = -1 /\ Earlier(why.other, l)
    BY <2>1 DEF Supported
  <2>5. LevelOf(why.other) # 0 BY <1>1, <2>4
  <2>6. position[Idx(why.other)] < position[Idx(l)] BY <2>4, <2>5 DEF Earlier
  <2>7. LevelOf(why.other) <= LevelOf(l) /\ LevelOf(why.other) > 0 BY <1>1, <1>2, <2>4
  <2> QED BY <1>3, <2>1, <2>2, <2>3, <2>4, <2>6, <2>7
<1>4. CASE why.kind = "large"
  <2> DEFINE D == ToSet(arena[why.ref].lits)
  <2>1. why.ref \in References /\ Supported(l, D \ {l}) BY <1>4 DEF ReasonSound
  <2>2. arena[why.ref].lits \in Seq(Lit) /\ Follows(D) BY <2>1 DEF SearchInv, ArenaSound
  <2>3. D \subseteq Lit BY <2>2 DEF ToSet
  <2>4. Antecedent(l) = AboveRoot(D \ {l}) BY <1>4 DEF Antecedent
  <2> HIDE DEF D
  <2>5. \A m \in D \ {l} : values[m] = -1 /\ LevelOf(m) <= LevelOf(l) /\ Earlier(m, l)
    BY <2>1 DEF Supported
  <2>6. \A m \in D \ {l} : m \notin Antecedent(l) => LevelOf(m) = 0
    BY <1>2, <2>3, <2>4 DEF AboveRoot
  <2>7. \A m \in Antecedent(l) : m \in D \ {l} /\ LevelOf(m) > 0 BY <2>4 DEF AboveRoot
  <2>8. \E m \in Antecedent(l) : LevelOf(m) = LevelOf(l)
    BY <1>1, <2>1, <2>4 DEF Supported, AboveRoot
  <2>9. \A m \in D \ ({l} \cup Antecedent(l)) : Follows({-m})
    BY <1>2, <2>3, <2>5, <2>6, RootFalse
  <2>10. Follows({l} \cup Antecedent(l)) BY <2>2, <2>9, FollowsWithout
  <2>11. \A m \in Antecedent(l) : position[Idx(m)] < position[Idx(l)]
    <3>1. \A m \in Antecedent(l) : LevelOf(m) # 0 BY <2>7
    <3> QED BY <2>5, <2>7, <3>1 DEF Earlier
  <2> QED BY <1>4, <2>1, <2>3, <2>5, <2>7, <2>8, <2>10, <2>11
<1> QED BY <1>3, <1>4 DEF ReasonSound

\* The literal that is resolved upon comes last, and its reason still fits.
LEMMA PivotFacts ==
    ASSUME SearchInv, ~ undo.active, Doing("deduce") \/ Doing("failed")
    PROVE  /\ Pivot \in resolvent /\ Pivot \in Lit /\ values[Pivot] = -1
           /\ LevelOf(Pivot) = CurrentLevel /\ LevelOf(Pivot) > 0
           /\ \A m \in resolvent : LevelOf(m) = CurrentLevel /\ m # Pivot
                => position[Idx(m)] < position[Idx(Pivot)]
           /\ -Pivot \in Forced /\ -Pivot \in Lit /\ -(-Pivot) = Pivot
           /\ Idx(-Pivot) = Idx(Pivot) /\ LevelOf(-Pivot) = CurrentLevel
           /\ ReasonSound(-Pivot) /\ Fits(-Pivot)
<1> DEFINE C == Current(resolvent)
           S == {position[Idx(l)] : l \in C}
<1>1. /\ Targets = {} /\ resolvent # {} /\ C # {}
      /\ \A l \in resolvent : Safe(l) /\ LevelOf(l) > 0
  BY AnalysisFacts
<1>2. \A l \in C : l \in resolvent /\ l \in Lit /\ values[l] = -1 /\ LevelOf(l) > 0
                     /\ LevelOf(l) = CurrentLevel
  BY <1>1 DEF Safe, Current
<1>3. \A l \in C : position[Idx(l)] \in Nat /\ position[Idx(l)] < Len(trail)
  BY <1>2, Values, Assigned DEF SearchInv
<1>4. Len(trail) \in Nat BY DEF SearchInv, TrailInv, TrailTypeOK
<1>5. S \in SUBSET (0 .. Len(trail)) /\ S # {} BY <1>1, <1>3, <1>4
<1>6. Max(S) \in S /\ \A y \in S : y <= Max(S)
  <2> HIDE DEF S
  <2> QED BY <1>4, <1>5, MaxFacts
<1>7. \E l \in C : \A m \in C : position[Idx(m)] <= position[Idx(l)] BY <1>6
<1>8. Pivot \in C /\ \A m \in C : position[Idx(m)] <= position[Idx(Pivot)]
  BY <1>7 DEF Pivot
<1>9. \A m \in resolvent : LevelOf(m) = CurrentLevel => m \in C BY DEF Current
<1> HIDE DEF C, S
<1> PICK p \in Lit : p = Pivot BY <1>2, <1>8
<1>10. \A m \in C : m # p => position[Idx(m)] # position[Idx(p)]
  <2> SUFFICES ASSUME NEW m \in C, m # p, position[Idx(m)] = position[Idx(p)] PROVE FALSE
    OBVIOUS
  <2>1. m \in Lit /\ values[m] = -1 /\ values[p] = -1 /\ LevelOf(m) > 0 /\ LevelOf(p) > 0
    BY <1>2, <1>8
  <2>2. Idx(m) = Idx(p) BY <2>1, PositionsDiffer DEF SearchInv
  <2>3. m = -p BY <2>1, <2>2, LitFacts
  <2>4. values[-p] = -values[p] BY Values DEF SearchInv
  <2> QED BY <2>1, <2>3, <2>4
<1>11. -p \in Lit /\ -(-p) = p /\ Idx(-p) = Idx(p) /\ LevelOf(-p) = LevelOf(p)
       /\ values[-p] = -values[p] /\ LevelOf(p) \in Nat
  BY Values DEF SearchInv
<1>12. p \in resolvent /\ values[p] = -1 /\ LevelOf(p) > 0 /\ LevelOf(p) = CurrentLevel
  BY <1>2, <1>8
<1>13. -p \in Forced BY <1>11, <1>12 DEF Forced
<1>14. ReasonSound(-p) /\ (Fits(-p) \/ Doomed(-p)) BY <1>13 DEF SearchInv, ReasonsSound
<1>15. ~ Doomed(-p)
  <2>1. Frontier = resolvent BY <1>1 DEF Frontier
  <2>2. ~ (position[Idx(p)] < position[Idx(-p)])
    <3>1. position[Idx(p)] \in Nat BY Values DEF SearchInv
    <3> QED BY <1>11, <3>1
  <2>3. ~ PastFrontier(-p) BY <1>12, <2>1, <2>2 DEF PastFrontier
  <2> QED BY <1>1, <2>3 DEF Doomed
<1>16. \A m \in resolvent : LevelOf(m) = CurrentLevel /\ m # p
          => position[Idx(m)] < position[Idx(p)]
  <2> SUFFICES ASSUME NEW m \in resolvent, LevelOf(m) = CurrentLevel, m # p
               PROVE  position[Idx(m)] < position[Idx(p)]
    OBVIOUS
  <2>1. m \in C BY <1>9
  <2>2. position[Idx(m)] <= position[Idx(p)] /\ position[Idx(m)] # position[Idx(p)]
    BY <1>8, <1>10, <2>1
  <2>3. position[Idx(m)] \in Nat /\ position[Idx(p)] \in Nat BY <1>3, <1>8, <2>1
  <2> QED BY <2>2, <2>3
<1> QED BY <1>11, <1>12, <1>13, <1>14, <1>15, <1>16

\* The next resolvent goes on where the last one stopped.
LEMMA ResolveFacts ==
    ASSUME SearchInv, ~ undo.active, Doing("deduce") \/ Doing("failed"),
           reason[Idx(-Pivot)].kind # "decision"
    PROVE  /\ NextResolvent \subseteq Lit
           /\ Follows(NextResolvent)
           /\ \A m \in NextResolvent :
                /\ values[m] = -1 /\ LevelOf(m) > 0 /\ LevelOf(m) <= CurrentLevel
                /\ LevelOf(m) = CurrentLevel => position[Idx(m)] < position[Idx(Pivot)]
           /\ \E m \in NextResolvent : LevelOf(m) = CurrentLevel
<1> PICK p : p = -Pivot OBVIOUS
<1>1. /\ Pivot \in resolvent /\ LevelOf(Pivot) = CurrentLevel
      /\ \A m \in resolvent : LevelOf(m) = CurrentLevel /\ m # Pivot
           => position[Idx(m)] < position[Idx(Pivot)]
      /\ p \in Forced /\ -p = Pivot /\ Idx(p) = Idx(Pivot) /\ LevelOf(p) = CurrentLevel
      /\ ReasonSound(p) /\ Fits(p)
  BY PivotFacts
<1>2. /\ Antecedent(p) \subseteq Lit
      /\ \A m \in Antecedent(p) :
           /\ values[m] = -1 /\ LevelOf(m) > 0 /\ LevelOf(m) <= LevelOf(p)
           /\ position[Idx(m)] < position[Idx(p)]
      /\ \E m \in Antecedent(p) : LevelOf(m) = LevelOf(p)
      /\ Follows({p} \cup Antecedent(p))
  BY <1>1, AntecedentFacts
<1>3. NextResolvent = (resolvent \ {Pivot}) \cup Antecedent(p) BY DEF NextResolvent
<1>4. \A l \in resolvent : l \in Lit /\ values[l] = -1 /\ LevelOf(l) > 0 /\ LevelOf(l) <= CurrentLevel
  BY AnalysisFacts DEF Safe
<1>5. Follows(resolvent) BY AnalysisFacts
<1> PICK q : q = Pivot OBVIOUS
<1>6. Follows({-q} \cup Antecedent(p))
  <2>1. p = -q OBVIOUS
  <2> QED BY <1>2, <2>1
<1>7. Follows((resolvent \ {q}) \cup Antecedent(p)) BY <1>5, <1>6, FollowsResolvent
<1>8. \A m \in NextResolvent : \/ m \in resolvent /\ m # Pivot
                               \/ m \in Antecedent(p)
  BY <1>3
<1> QED BY <1>1, <1>2, <1>3, <1>4, <1>7, <1>8

LEMMA FiniteLiterals == \A D \in SUBSET Lit : IsFiniteSet(D) /\ Cardinality(D) \in Nat
<1>1. IsFiniteSet(-NVars .. NVars) BY NVarsAssumption, FS_Interval
<1>2. Lit \subseteq -NVars .. NVars BY DEF Lit
<1>3. IsFiniteSet(Lit) BY <1>1, <1>2, FS_Subset
<1> QED BY <1>3, FS_Subset, FS_CardinalityType

\* A resolution that leaves the rest alone.
LEMMA ResolutionInv ==
    ASSUME SearchInv, ~ undo.active, Doing("deduce") \/ Doing("failed"),
           reason[Idx(-Pivot)].kind # "decision", resolvent' = NextResolvent,
           UNCHANGED <<trailVars, clauseVars, visit, result, formula>>,
           TodoSound', Targets' = {}, Analysis',
           (\E i \in DOMAIN todo' : todo'[i].op = "failed") => CurrentLevel = 1
    PROVE  SearchInv'
<1>1. UNCHANGED <<arena, watches, reason, conflict>> /\ UNCHANGED <<level, position, frames, undo, values>>
  BY DEF clauseVars, trailVars
<1>2. /\ TrailInv' /\ RootSound' /\ Forced' = Forced /\ CurrentLevel' = CurrentLevel
      /\ \A l : /\ LevelOf(l)' = LevelOf(l) /\ values'[l] = values[l]
                /\ position'[Idx(l)] = position[Idx(l)]
      /\ \A D : (Follows(D)' <=> Follows(D))
  BY Unmoved DEF SearchInv
<1>3. /\ ArenaSound' /\ WatchListsOK' /\ WatchesSound' /\ formula' \in Formulas
      /\ References' = References /\ \A r : First(r)' = First(r)
      /\ LitsOf(conflict)' = LitsOf(conflict)
  BY <1>1, ClausesKept
<1>4. /\ todo # <<>> /\ Targets = {} /\ resolvent # {} /\ conflict # NoConflict
      /\ \A l \in resolvent : Safe(l)
  BY AnalysisFacts
<1>5. /\ Pivot \in resolvent /\ LevelOf(Pivot) = CurrentLevel /\ Pivot \in Lit
  BY PivotFacts
<1>6. /\ resolvent' \subseteq Lit /\ Follows(resolvent')
      /\ \A m \in resolvent' :
           /\ values[m] = -1 /\ LevelOf(m) > 0 /\ LevelOf(m) <= CurrentLevel
           /\ LevelOf(m) = CurrentLevel => position[Idx(m)] < position[Idx(Pivot)]
      /\ \E m \in resolvent' : LevelOf(m) = CurrentLevel
  BY ResolveFacts
<1>7. \A l \in Lit : position[Idx(l)] \in Nat /\ LevelOf(l) \in Nat BY Values DEF SearchInv
<1> PICK p \in Lit : p = Pivot BY <1>5
<1>8. visit' = NoVisit' /\ conflict' # NoConflict'
  <2>1. NoVisit' = NoVisit /\ NoConflict' = NoConflict BY DEF NoVisit, NoDelayed, NoConflict
  <2> QED BY <1>1, <1>4, <2>1, HandlerIdle
<1>9. \A l \in Lit : values[l] = -1 /\ LevelOf(l) <= CurrentLevel => Safe(l)'
  <2> SUFFICES ASSUME NEW l \in Lit, values[l] = -1, LevelOf(l) <= CurrentLevel PROVE Safe(l)'
    OBVIOUS
  <2> QED BY <1>2 DEF Safe
<1>10. ReasonsSound'
  <2>1. ASSUME NEW l \in Forced, Doomed(l) PROVE Doomed(l)'
    <3>1. PastFrontier(l) BY <1>4, <2>1 DEF Doomed
    <3>2. Frontier = resolvent /\ Frontier' = resolvent' BY <1>4, <1>6 DEF Frontier
    <3>3. l \in Lit BY DEF Forced
    <3>4. /\ ~ undo.active /\ LevelOf(l) = CurrentLevel /\ position[Idx(p)] < position[Idx(l)]
      BY <1>5, <3>1, <3>2 DEF PastFrontier
    <3>5. \A m \in resolvent' : LevelOf(m) = CurrentLevel => position[Idx(m)] < position[Idx(l)]
      BY <1>6, <1>7, <3>3, <3>4
    <3>6. PastFrontier(l)'
      BY <1>1, <1>2, <1>6, <1>8, <3>2, <3>4, <3>5 DEF PastFrontier
    <3> QED BY <3>6 DEF Doomed
  <2>2. \A l : Fits(l)' <=> Fits(l) BY <1>1, <1>3 DEF Fits
  <2> QED BY <1>1, <1>3, <2>1, <2>2, ReasonsKept DEF SearchInv
<1>11. ConflictSound'
  <2>1. \A l \in ToSet(LitsOf(conflict)) : Safe(l)' 
    <3>1. \A l \in ToSet(LitsOf(conflict)) : Safe(l) BY <1>4 DEF SearchInv, ConflictSound
    <3> QED BY <1>9, <3>1 DEF Safe
  <2> QED BY <1>1, <1>2, <1>3, <1>4, <2>1 DEF SearchInv, ConflictSound, NoConflict
<1>12. ResolventSound'
  <2>1. \A l \in resolvent' : Safe(l)' /\ LevelOf(l)' > 0 BY <1>2, <1>6, <1>9
  <2>2. \E l \in resolvent' : LevelOf(l)' = CurrentLevel' BY <1>2, <1>6
  <2>3. (\E i \in DOMAIN todo' : todo'[i].op = "failed") => \A l \in resolvent' : LevelOf(l)' = 1
    <3>1. \A l \in resolvent' : CurrentLevel = 1 => LevelOf(l) = 1 BY <1>6, <1>7
    <3> QED BY <1>2, <3>1
  <2>4. Follows(resolvent)' BY <1>2, <1>6
  <2>5. resolvent' # {} BY <1>6
  <2> QED BY <1>8, <2>1, <2>2, <2>3, <2>4, <2>5 DEF ResolventSound
<1>13. VisitSound' BY <1>8, NoVisitTyped DEF VisitSound, NoVisit
<1>14. RefutationSound' BY DEF SearchInv, RefutationSound
<1> QED BY <1>2, <1>3, <1>10, <1>11, <1>12, <1>13, <1>14 DEF SearchInv

LEMMA DeduceStepInv == SearchInv /\ ~ undo.active /\ DeduceStep => SearchInv'
<1> SUFFICES ASSUME SearchInv, ~ undo.active, DeduceStep PROVE SearchInv'
  OBVIOUS
<1>1. /\ Doing("deduce") /\ ~ IsAsserting /\ resolvent' = NextResolvent /\ todo' = todo
      /\ UNCHANGED <<trailVars, clauseVars, visit, result, formula>>
  BY DEF DeduceStep, loopVars
<1>2. /\ Targets = {} /\ 1 \in DOMAIN todo /\ Head(todo) = todo[1] /\ Len(todo) = 1
      /\ Current(resolvent) # {} /\ todo \in Seq(StepType)
      /\ \A l \in resolvent : Safe(l)
  BY <1>1, AnalysisFacts
<1>3. /\ Pivot \in Lit /\ -Pivot \in Lit /\ Idx(-Pivot) = Idx(Pivot) /\ LevelOf(-Pivot) = CurrentLevel
      /\ \A m \in resolvent : LevelOf(m) = CurrentLevel /\ m # Pivot
             => position[Idx(m)] < position[Idx(Pivot)]
      /\ Pivot \in resolvent /\ LevelOf(Pivot) = CurrentLevel /\ LevelOf(Pivot) > 0
      /\ ReasonSound(-Pivot)
  BY <1>1, PivotFacts
<1> PICK p \in Lit : p = Pivot BY <1>3
<1>4. \E m \in resolvent : LevelOf(m) = CurrentLevel /\ m # p
  <2> SUFFICES ASSUME \A m \in resolvent : LevelOf(m) = CurrentLevel => m = p PROVE FALSE
    OBVIOUS
  <2>1. Current(resolvent) = {p} BY <1>3 DEF Current
  <2> QED BY <1>1, <2>1, FS_Singleton DEF IsAsserting
<1>5. reason[Idx(-p)].kind # "decision"
  <2> SUFFICES ASSUME reason[Idx(-p)].kind = "decision" PROVE FALSE
    OBVIOUS
  <2>1. frames[LevelOf(-p)].decision = -p BY <1>3 DEF ReasonSound
  <2> PICK m \in resolvent : LevelOf(m) = CurrentLevel /\ m # p BY <1>4
  <2>2. m \in Lit /\ values[m] = -1 /\ LevelOf(m) > 0 BY <1>2, <1>3 DEF Safe
  <2>3. frames[LevelOf(m)].decision = -p BY <1>3, <2>1
  <2>4. position[Idx(m)] < position[Idx(p)] /\ position[Idx(m)] \in Nat /\ position[Idx(p)] \in Nat
    BY <1>3, <2>2, Values DEF SearchInv
  <2>5. Idx(m) # Idx(-p) BY <1>3, <2>4
  <2>6. position[Idx(-p)] < position[Idx(m)] BY <2>2, <2>3, <2>5, DecisionFirst DEF SearchInv
  <2> QED BY <1>3, <2>4, <2>6
<1>6. Targets' = {} /\ (Analysis' <=> Analysis) BY <1>1, <1>2 DEF Targets, Analysis
<1>7. Analysis /\ \A i \in DOMAIN todo : todo[i].op # "failed"
  <2>1. DOMAIN todo = 1 .. 1 BY <1>2
  <2>2. \A i \in DOMAIN todo : i = 1 BY <2>1
  <2>3. todo[1].op = "deduce" BY <1>1, <1>2 DEF Doing
  <2> QED BY <1>2, <2>2, <2>3 DEF Analysis
<1>8. TodoSound'
  <2>1. ASSUME NEW i \in DOMAIN todo' PROVE Holds(todo[i])' /\ Placed(i)'
    <3>1. i \in 1 .. 1 BY <1>1, <1>2
    <3>2. i = 1 /\ i = Len(todo') BY <1>1, <1>2, <3>1
    <3>3. todo'[i].op = "deduce" BY <1>1, <1>2, <3>2 DEF Doing
    <3>4. Holds(todo[i])' BY <3>3 DEF Holds
    <3>5. Placed(i)' BY <3>2, <3>3 DEF Placed
    <3> QED BY <3>4, <3>5
  <2> QED BY <1>1, <1>2, <1>6, <1>7, <2>1 DEF TodoSound
<1>9. ~ \E i \in DOMAIN todo' : todo'[i].op = "failed" BY <1>1, <1>7
<1> QED BY <1>1, <1>5, <1>6, <1>7, <1>8, <1>9, ResolutionInv

LEMMA FailedStepInv == SearchInv /\ ~ undo.active /\ FailedStep => SearchInv'
<1> SUFFICES ASSUME SearchInv, ~ undo.active, FailedStep PROVE SearchInv'
  OBVIOUS
<1>1. /\ Doing("failed") /\ -frames[1].decision \notin resolvent /\ resolvent' = NextResolvent
      /\ todo' = IF Cardinality(resolvent) = 1 THEN Append(todo, LearnedUnit(Pivot)) ELSE todo
      /\ UNCHANGED <<trailVars, clauseVars, visit, result, formula>>
  BY DEF FailedStep, loopVars
<1>2. /\ Targets = {} /\ 1 \in DOMAIN todo /\ Head(todo) = todo[1]
      /\ CurrentLevel = 1 /\ todo \in Seq(StepType)
      /\ \A l \in resolvent : Safe(l)
      /\ \A i \in DOMAIN todo : i # 1 => todo[i].op = "unit"
      /\ Follows(resolvent)
  BY <1>1, AnalysisFacts
<1>3. /\ Pivot \in Lit /\ -(-Pivot) = Pivot /\ LevelOf(-Pivot) = CurrentLevel
      /\ Pivot \in resolvent /\ ReasonSound(-Pivot)
  BY <1>1, PivotFacts
<1> PICK p \in Lit : p = Pivot BY <1>3
<1>4. reason[Idx(-p)].kind # "decision"
  <2> SUFFICES ASSUME reason[Idx(-p)].kind = "decision" PROVE FALSE
    OBVIOUS
  <2>1. frames[LevelOf(-p)].decision = -p BY <1>3 DEF ReasonSound
  <2>2. frames[1].decision = -p BY <1>2, <1>3, <2>1
  <2> QED BY <1>1, <1>3, <2>2
<1>5. /\ todo' \in Seq(StepType) /\ 1 \in DOMAIN todo' /\ todo'[1].op = "failed"
      /\ \A i \in DOMAIN todo' : i # 1 =>
            /\ todo'[i].op = "unit"
            /\ Follows({todo'[i].lit})
  <2>1. todo[1].op = "failed" /\ Len(todo) \in Nat /\ DOMAIN todo = 1 .. Len(todo)
    BY <1>1, <1>2 DEF Doing
  <2>2. \A i \in DOMAIN todo : i # 1 => Follows({todo[i].lit})
    BY <1>2 DEF SearchInv, TodoSound, Holds
  <2>3. CASE Cardinality(resolvent) = 1
    <3>1. IsFiniteSet(resolvent)
      <4>1. resolvent \in SUBSET Lit BY <1>2 DEF Safe
      <4> QED BY <4>1, FiniteLiterals
    <3>2. \E x : resolvent = {x} BY <2>3, <3>1, FS_Singleton
    <3>3. resolvent = {p} BY <1>3, <3>2
    <3>4. Follows({p}) BY <1>2, <3>3
    <3> PICK t \in StepType : t = LearnedUnit(p) BY StepTypes
    <3>5. t.op = "unit" /\ t.lit = p BY DEF LearnedUnit
    <3>6. todo' = Append(todo, t) BY <1>1, <2>3
    <3>7. todo' \in Seq(StepType) /\ DOMAIN todo' = 1 .. Len(todo) + 1 BY <1>2, <3>6
    <3>8. \A i \in DOMAIN todo' : todo'[i] = IF i \in DOMAIN todo THEN todo[i] ELSE t
      BY <1>2, <2>1, <3>6, <3>7
    <3>9. 1 \in DOMAIN todo' /\ todo'[1].op = "failed" BY <1>2, <2>1, <3>7, <3>8
    <3>10. ASSUME NEW i \in DOMAIN todo', i # 1
           PROVE  todo'[i].op = "unit" /\ Follows({todo'[i].lit})
      <4>1. CASE i \in DOMAIN todo
        <5>1. todo'[i] = todo[i] BY <3>8, <4>1
        <5> QED BY <1>2, <2>2, <3>10, <4>1, <5>1
      <4>2. CASE i \notin DOMAIN todo
        <5>1. todo'[i] = t BY <3>8, <4>2
        <5> QED BY <3>4, <3>5, <5>1
      <4> QED BY <4>1, <4>2
    <3> QED BY <3>7, <3>9, <3>10
  <2>4. CASE Cardinality(resolvent) # 1
    <3>1. todo' = todo BY <1>1, <2>4
    <3> QED BY <1>2, <2>1, <2>2, <3>1
  <2> QED BY <2>3, <2>4
<1>6. \A i \in DOMAIN todo' : todo'[i].op \in {"failed", "unit"} /\ (todo'[i].op = "failed" <=> i = 1)
  BY <1>5
<1>7. Targets' = {} /\ Analysis' BY <1>5, <1>6 DEF Targets, Analysis
<1>8. TodoSound'
  <2>0. DOMAIN todo' = 1 .. Len(todo') /\ Len(todo') \in Nat BY <1>5
  <2>1. ASSUME NEW i \in DOMAIN todo' PROVE Holds(todo[i])' /\ Placed(i)'
    <3> PICK t : t = todo'[i] OBVIOUS
    <3>1. t.op = "unit" => Follows({t.lit})' 
      <4>1. t.op = "unit" => Follows({t.lit}) BY <1>5, <1>6
      <4> QED BY <1>1, <4>1, Unmoved
    <3>2. t.op \in {"failed", "unit"} BY <1>6
    <3>3. Holds(t)' BY <3>1, <3>2 DEF Holds
    <3>4. Placed(i)'
      <4>1. CASE i = 1 
        <5>0. \A j \in 2 .. Len(todo') : j \in DOMAIN todo' /\ j # 1 BY <2>0
        <5>3. i + 1 = 2 BY <4>1
        <5>1. \A j \in i + 1 .. Len(todo') : todo'[j].op = "unit" BY <1>5, <5>0, <5>3
        <5>2. \A j \in 1 .. i - 1 : FALSE BY <4>1
        <5> QED BY <1>5, <4>1, <5>1, <5>2 DEF Placed
      <4>2. CASE i # 1 
        <5>1. todo'[i].op = "unit" BY <1>5, <4>2
        <5> QED BY <5>1 DEF Placed
      <4> QED BY <4>1, <4>2
    <3> QED BY <3>3, <3>4
  <2> QED BY <1>5, <1>7, <2>1 DEF TodoSound
<1> QED BY <1>1, <1>2, <1>4, <1>7, <1>8, ResolutionInv

\* Below the second level every true literal above the root follows from the
\* decision.
LEMMA DecisionImplies ==
    ASSUME SearchInv, CurrentLevel = 1, NEW A \in Assignments, Satisfies(A, formula),
           frames[1].decision \in A
    PROVE  \A l \in Forced : l \in A
<1> DEFINE Missing == {l \in Forced : l \notin A}
           T == {position[Idx(l)] : l \in Missing}
<1> SUFFICES ASSUME Missing # {} PROVE FALSE
  OBVIOUS
<1>1. \A l \in Forced : /\ l \in Lit /\ values[l] = 1 /\ LevelOf(l) = 1
                        /\ position[Idx(l)] \in Nat
  BY Values DEF Forced, SearchInv
<1>2. T \in SUBSET Nat /\ T # {} BY <1>1
<1>3. \E k \in T : \A j \in T : k <= j
  <2> HIDE DEF T
  <2> QED BY <1>2, LeastNatural
<1>4. PICK l \in Missing : \A m \in Missing : position[Idx(l)] <= position[Idx(m)] BY <1>3
<1>5. l \in Forced /\ l \notin A BY <1>4
<1>6. ReasonSound(l) BY <1>5 DEF SearchInv, ReasonsSound
<1>7. reason[Idx(l)].kind # "decision"
  <2> SUFFICES ASSUME reason[Idx(l)].kind = "decision" PROVE FALSE
    OBVIOUS
  <2>1. frames[LevelOf(l)].decision = l BY <1>6 DEF ReasonSound
  <2>2. LevelOf(l) = 1 BY <1>1, <1>5
  <2> QED BY <1>5, <2>1, <2>2
<1>8. /\ Antecedent(l) \subseteq Lit
      /\ \A m \in Antecedent(l) :
           /\ values[m] = -1 /\ LevelOf(m) > 0 /\ LevelOf(m) <= LevelOf(l)
           /\ position[Idx(m)] < position[Idx(l)]
      /\ Follows({l} \cup Antecedent(l))
  BY <1>5, <1>6, <1>7, AntecedentFacts
<1>9. ({l} \cup Antecedent(l)) \cap A # {} BY <1>8 DEF Follows, Entails
<1>10. PICK m \in Antecedent(l) : m \in A BY <1>5, <1>9
<1>11. /\ m \in Lit /\ -m \in Lit /\ values[-m] = 1 /\ LevelOf(-m) = LevelOf(m)
       /\ Idx(-m) = Idx(m) /\ position[Idx(m)] \in Nat /\ LevelOf(m) \in Nat
  <2>1. m \in Lit BY <1>8
  <2>2. values[m] = -1 /\ values[-m] = -values[m] BY <1>8, <2>1, Values DEF SearchInv
  <2>3. \A x \in {-1, 0, 1} : \A y \in {-1, 0, 1} : y = -x /\ x = -1 => y = 1
    OBVIOUS
  <2>4. values[-m] = 1
    <3>1. values[m] \in {-1, 0, 1} /\ values[-m] \in {-1, 0, 1}
      BY <2>1, LitFacts, Values DEF SearchInv
    <3> QED BY <2>2, <2>3, <3>1
  <2> QED BY <2>1, <2>4, Values DEF SearchInv
<1>12. -m \in Forced
  <2>1. LevelOf(m) > 0 /\ LevelOf(m) <= LevelOf(l) /\ LevelOf(l) = 1 BY <1>1, <1>5, <1>8
  <2> QED BY <1>11, <2>1 DEF Forced
<1>13. -m \notin A BY <1>10, <1>11 DEF Assignments
<1>14. -m \in Missing BY <1>12, <1>13
<1>15. position[Idx(l)] <= position[Idx(-m)] BY <1>4, <1>14
<1>16. position[Idx(m)] < position[Idx(l)] /\ position[Idx(l)] \in Nat BY <1>1, <1>5, <1>8
<1> QED BY <1>11, <1>15, <1>16

LEMMA FailedLiteral ==
    ASSUME SearchInv, Doing("failed")
    PROVE  Follows({-frames[1].decision}) /\ -frames[1].decision \in Lit
<1>1. /\ Follows(resolvent) /\ CurrentLevel = 1 /\ resolvent # {}
      /\ \A l \in resolvent : Safe(l) /\ LevelOf(l) = 1
  BY AnalysisFacts
<1> PICK d : d = frames[1].decision OBVIOUS
<1>2. d \in Lit
  <2>1. frames \in Seq([decision : Lit, trail : Nat]) /\ Len(frames) = 1
    BY <1>1 DEF SearchInv, TrailInv, TrailTypeOK, CurrentLevel
  <2>2. frames[1] \in [decision : Lit, trail : Nat]
    <3>1. 1 \in 1 .. Len(frames) BY <2>1
    <3> QED BY <2>1, <3>1, ElementOfSeq
  <2> QED BY <2>2
<1>3. -d \in Lit BY <1>2, LitFacts
<1>4. ASSUME NEW A \in Assignments, Satisfies(A, formula), d \in A PROVE FALSE
  <2>1. \A l \in Forced : l \in A BY <1>1, <1>4, DecisionImplies
  <2>2. resolvent \cap A # {} BY <1>1, <1>4 DEF Follows, Entails
  <2> PICK m \in resolvent : m \in A BY <2>2
  <2>3. m \in Lit /\ values[m] = -1 /\ LevelOf(m) = 1 BY <1>1 DEF Safe
  <2>4. -m \in Lit /\ values[-m] = -values[m] /\ LevelOf(-m) = LevelOf(m)
    BY <2>3, Values DEF SearchInv
  <2>5. -m \in Forced BY <1>1, <2>3, <2>4 DEF Forced
  <2>6. -m \in A BY <2>1, <2>5
  <2> QED BY <2>3, <2>6 DEF Assignments
<1>5. \A A \in Assignments : d \notin A => {-d} \cap A # {} BY <1>2 DEF Assignments
<1>6. Follows({-d}) BY <1>4, <1>5 DEF Follows, Entails
<1> QED BY <1>3, <1>6

LEMMA FailedDoneInv == SearchInv /\ FailedDone => SearchInv'
<1> SUFFICES ASSUME SearchInv, FailedDone PROVE SearchInv'
  OBVIOUS
<1> PICK u : u = LearnedUnit(-frames[1].decision) OBVIOUS
<1>1. /\ Doing("failed") /\ conflict' = NoConflict /\ resolvent' = {}
      /\ todo' = <<Backtrack(0)>> \o Tail(todo) \o <<u>>
      /\ UNCHANGED <<trailVars, arena, watches, reason, visit, result, formula>>
  BY DEF FailedDone, loopVars
<1>2. /\ todo # <<>> /\ todo \in Seq(StepType)
      /\ \A i \in DOMAIN todo : i # 1 => todo[i].op = "unit"
  BY <1>1, AnalysisFacts
<1>3. u \in StepType /\ u.op = "unit" /\ Follows({u.lit})
  <2>1. u \in StepType BY FailedLiteral, StepTypes, <1>1
  <2> QED BY FailedLiteral, <1>1, <2>1 DEF LearnedUnit
<1>4. Backtrack(0) \in StepType /\ Backtrack(0).op = "backtrack" /\ Backtrack(0).to = 0
  BY StepTypes DEF Backtrack
<1>5. \A i \in DOMAIN Tail(todo) : Tail(todo)[i].op = "unit" /\ Follows({Tail(todo)[i].lit})
  <2>1. \A i \in DOMAIN todo : i # 1 => Follows({todo[i].lit})
    BY <1>2 DEF SearchInv, TodoSound, Holds
  <2>2. \A i \in DOMAIN Tail(todo) : /\ i + 1 \in DOMAIN todo /\ i + 1 # 1
                                     /\ Tail(todo)[i] = todo[i + 1]
    BY <1>2
  <2> QED BY <1>2, <2>1, <2>2
<1>6. /\ todo' \in Seq(StepType) /\ 1 \in DOMAIN todo'
      /\ todo'[1].op = "backtrack" /\ todo'[1].to = 0
      /\ \A i \in DOMAIN todo' :
            \/ todo'[i].op = "backtrack" /\ todo'[i].to = 0
            \/ todo'[i].op = "unit" /\ Follows({todo'[i].lit})
  <2>1. <<Backtrack(0)>> \in Seq(StepType) /\ Tail(todo) \in Seq(StepType) /\ <<u>> \in Seq(StepType)
    BY <1>2, <1>3, <1>4
  <2>2. Len(<<Backtrack(0)>>) = 1 /\ Len(<<u>>) = 1 /\ <<Backtrack(0)>>[1] = Backtrack(0) /\ <<u>>[1] = u
    OBVIOUS
  <2> PICK s, t, w : s = <<Backtrack(0)>> /\ t = Tail(todo) /\ w = <<u>> OBVIOUS
  <2>3. /\ s \o t \o w \in Seq(StepType)
        /\ Len(s \o t \o w) = (Len(s) + Len(t)) + Len(w)
        /\ Len(t) \in Nat
        /\ \A i \in 1 .. (Len(s) + Len(t)) + Len(w) : (s \o t \o w)[i] =
                  IF i <= Len(s) THEN s[i]
                  ELSE IF i <= Len(s) + Len(t) THEN t[i - Len(s)]
                  ELSE w[i - (Len(s) + Len(t))]
    BY <2>1, ThreeLists
  <2>4. todo' = s \o t \o w /\ Len(s) = 1 /\ Len(w) = 1 /\ s[1] = Backtrack(0) /\ w[1] = u
    BY <1>1, <2>2
  <2>5. todo' \in Seq(StepType) /\ DOMAIN todo' = 1 .. Len(t) + 2
    <3>1. Len(todo') = Len(t) + 2 BY <2>3, <2>4
    <3> QED BY <2>3, <2>4, <3>1
  <2>6. ASSUME NEW i \in 1 .. Len(t) + 2
        PROVE  todo'[i] = IF i = 1 THEN Backtrack(0) ELSE IF i <= Len(t) + 1 THEN t[i - 1] ELSE u
    <3>1. i \in 1 .. (Len(s) + Len(t)) + Len(w) BY <2>3, <2>4
    <3>2. i <= Len(s) <=> i = 1 BY <2>4
    <3>3. i <= Len(s) + Len(t) <=> i <= Len(t) + 1 BY <2>3, <2>4
    <3>4. i - Len(s) = i - 1 BY <2>4
    <3>5. ~ (i <= Len(t) + 1) => i - (Len(s) + Len(t)) = 1 BY <2>3, <2>4
    <3> QED BY <2>3, <2>4, <3>1, <3>2, <3>3, <3>4, <3>5
  <2>7. DOMAIN t = 1 .. Len(t) BY <2>1
  <2>8. ASSUME NEW i \in DOMAIN todo'
        PROVE  \/ todo'[i].op = "backtrack" /\ todo'[i].to = 0
               \/ todo'[i].op = "unit" /\ Follows({todo'[i].lit})
    <3>1. i \in 1 .. Len(t) + 2 BY <2>5
    <3>2. CASE i = 1 BY <1>4, <2>6, <3>1, <3>2
    <3>3. CASE i # 1 /\ i <= Len(t) + 1
      <4>1. i - 1 \in DOMAIN t BY <2>3, <2>7, <3>1, <3>3
      <4>2. todo'[i] = t[i - 1] BY <2>6, <3>1, <3>3
      <4> QED BY <1>5, <4>1, <4>2
    <3>4. CASE i # 1 /\ ~ (i <= Len(t) + 1) BY <1>3, <2>6, <3>1, <3>4
    <3> QED BY <3>2, <3>3, <3>4
  <2>9. 1 \in 1 .. Len(t) + 2 BY <2>3
  <2> QED BY <1>4, <2>5, <2>6, <2>8, <2>9
<1>7. /\ TrailInv' /\ RootSound' /\ Forced' = Forced
      /\ \A l : LevelOf(l)' = LevelOf(l)
      /\ \A D : (Follows(D)' <=> Follows(D))
  BY <1>1, Unmoved DEF SearchInv
<1>8. ArenaSound' /\ WatchListsOK' /\ WatchesSound' /\ References' = References
  <2>1. UNCHANGED <<arena, watches, visit, formula>> BY <1>1
  <2> QED BY <1>7, <2>1
     DEF SearchInv, ArenaSound, WatchListsOK, WatchesSound, Firsts, First, References
<1>9. NoConflict' = NoConflict /\ NoVisit' = NoVisit BY DEF NoConflict, NoVisit, NoDelayed
<1>10. ConflictSound' BY <1>1, <1>9 DEF ConflictSound
<1>11. ~ Analysis' BY <1>6 DEF Analysis
<1>12. ResolventSound' BY <1>1, <1>11 DEF ResolventSound
<1>13. ReasonsSound'
  <2>1. 0 \in Targets' BY <1>6 DEF Targets
  <2>2. \A l \in Forced : 0 < LevelOf(l)' BY <1>7 DEF Forced
  <2>3. \A l \in Forced : Doomed(l)' BY <2>1, <2>2 DEF Doomed
  <2>4. \A r \in References : r \in References' /\ ToSet(arena'[r].lits) = ToSet(arena[r].lits)
    BY <1>1, <1>8
  <2> QED BY <1>1, <2>3, <2>4, ReasonsKept DEF SearchInv
<1>14. TodoSound'
  <2>1. ASSUME NEW i \in DOMAIN todo' PROVE Holds(todo[i])' /\ Placed(i)'
    <3> PICK t : t = todo'[i] OBVIOUS
    <3>1. \/ t.op = "backtrack"
          \/ t.op = "unit" /\ Follows({t.lit})'
      BY <1>6, <1>7
    <3>2. Holds(t)' BY <3>1 DEF Holds
    <3>3. Placed(i)'
      <4>1. todo'[i].op \in {"backtrack", "unit"} BY <1>6
      <4> QED BY <4>1 DEF Placed
    <3> QED BY <3>2, <3>3
  <2> QED BY <1>1, <1>6, <1>9, <2>1 DEF TodoSound
<1>15. VisitSound'
  <2>1. visit' = NoVisit' BY <1>1, <1>2, <1>9, HandlerIdle
  <2> QED BY <2>1, NoVisitTyped DEF VisitSound, NoVisit
<1>16. RefutationSound' /\ formula' \in Formulas BY <1>1 DEF SearchInv, RefutationSound
<1> QED BY <1>7, <1>8, <1>10, <1>12, <1>13, <1>14, <1>15, <1>16 DEF SearchInv

-----------------------------------------------------------------------------
\* The literal of highest level moves to the front of a conflict.
LEMMA HighestFacts ==
    ASSUME NEW lits \in Seq(Lit), NEW i \in 1 .. Len(lits), NEW b \in Nat,
           \A j \in 1 .. Len(lits) : LevelOf(lits[j]) \in 0 .. b
    PROVE  /\ Highest(lits, i) \in i .. Len(lits)
           /\ \A j \in i .. Len(lits) : LevelOf(lits[j]) <= LevelOf(lits[Highest(lits, i)])
<1> DEFINE L == {LevelOf(lits[j]) : j \in i .. Len(lits)}
           top == Max(L)
           T == {j \in i .. Len(lits) : LevelOf(lits[j]) = top}
<1>1. Len(lits) \in Nat /\ i \in Nat /\ i >= 1 /\ i \in i .. Len(lits) OBVIOUS
<1>2. \A j \in i .. Len(lits) : j \in 1 .. Len(lits) /\ j \in Nat BY <1>1
<1>3. L \in SUBSET (0 .. b) /\ L # {} BY <1>1, <1>2
<1>4. top \in L /\ \A y \in L : y <= top
  <2> HIDE DEF L
  <2> QED BY <1>3, MaxFacts
<1>5. T \in SUBSET Nat /\ T # {} BY <1>2, <1>4
<1>6. Min(T) \in T
  <2> HIDE DEF T
  <2> QED BY <1>5, MinFacts
<1>7. Highest(lits, i) = Min(T) BY DEF Highest
<1> QED BY <1>4, <1>6, <1>7

\* A clause is watched in another literal instead of one of its first two.
Rewatched(ws, out, in, other, ref) ==
    [Unwatched(ws, out, ref) EXCEPT ![in] = Append(@, LargeWatch(other, ref))]

MovesWatch(F, E, ref, out, stay, in) ==
    /\ ref \in Nat /\ ref \in DOMAIN F
    /\ out \in Lit /\ stay \in Lit /\ in \in Lit /\ out # stay /\ in # out /\ in # stay
    /\ F[ref] = {out, stay} /\ E[ref] = {in, stay}
    /\ \A r \in DOMAIN F : r \in DOMAIN E /\ (r # ref => E[r] = F[r])

LEMMA MoveWatch ==
    ASSUME NEW ws \in Lists, NEW G, NEW F, HandsSound(G, F, ws),
           NEW ref, NEW out, NEW stay, NEW in, NEW E, MovesWatch(F, E, ref, out, stay, in),
           NEW other \in Lit, NEW H, H = Rewatched(ws, out, in, other, ref)
    PROVE  H \in Lists /\ HandsSound(G, E, H)
<1>0. /\ ref \in Nat /\ ref \in DOMAIN F
      /\ out \in Lit /\ stay \in Lit /\ in \in Lit /\ out # stay /\ in # out /\ in # stay
      /\ F[ref] = {out, stay} /\ E[ref] = {in, stay}
      /\ \A r \in DOMAIN F : r \in DOMAIN E /\ (r # ref => E[r] = F[r])
  BY DEF MovesWatch
<1>1. DOMAIN ws = Lit /\ \A l \in Lit : ws[l] \in Seq(WatchType) BY DEF Lists
<1> PICK less : less = Unwatched(ws, out, ref) OBVIOUS
<1>12. H = [less EXCEPT ![in] = Append(@, LargeWatch(other, ref))] BY DEF Rewatched
<1>2. /\ HandsSound(G, F, less) /\ DOMAIN less = Lit /\ \A l \in Lit : less[l] \in Seq(WatchType)
      /\ \A j \in DOMAIN less[out] : ~ Watches(less[out][j], ref)
      /\ \A l \in Lit : l # out => less[l] = ws[l]
  BY <1>0, <1>1, HandsUnwatched
<1>3. \A l \in Lit : \A j \in DOMAIN ws[l] : Watches(ws[l][j], ref) => l \in {out, stay}
  BY <1>0 DEF HandsSound, WatchOK, Watches
<1>4. \A l \in Lit : \A j \in DOMAIN less[l] : Watches(less[l][j], ref) => l = stay
  BY <1>0, <1>2, <1>3
<1>5. HandsSound(G, E, less)
  <2>1. \A l \in Lit : \A j \in DOMAIN less[l] : Watches(less[l][j], ref) => l \in E[ref]
    BY <1>0, <1>4
  <2> QED BY <1>0, <1>2, <2>1, HandsMoved
<1> DEFINE w == LargeWatch(other, ref)
<1>6. w \in WatchType /\ ~ w.binary /\ w.ref = ref BY <1>0 DEF WatchType, LargeWatch
<1>7. WatchOK(G, E, in, w) BY <1>0, <1>6 DEF WatchOK
<1>8. \A j \in DOMAIN less[in] : ~ Watches(less[in][j], w.ref) BY <1>0, <1>4, <1>6
<1>9. /\ DOMAIN H = Lit /\ H[in] = Append(less[in], w)
      /\ \A l \in Lit : l # in => H[l] = less[l]
      /\ H = [l \in Lit |-> H[l]]
  BY <1>0, <1>2, <1>12
<1> HIDE DEF w
<1>10. HandsSound(G, E, H)
  <2>1. ASSUME NEW l \in Lit, H[l] # less[l]
        PROVE  \E x \in WatchType : /\ H[l] = Append(less[l], x)
                                    /\ WatchOK(G, E, l, x)
                                    /\ x.binary \/ \A j \in DOMAIN less[l] : ~ Watches(less[l][j], x.ref)
    <3>1. l = in BY <1>9, <2>1
    <3> QED BY <1>6, <1>7, <1>8, <1>9, <3>1
  <2> QED BY <1>2, <1>5, <2>1, HandsMore
<1>11. H \in Lists
  <2>1. ASSUME NEW l \in Lit PROVE H[l] \in Seq(WatchType)
    <3>1. less[l] \in Seq(WatchType) BY <1>2
    <3>2. H[l] = Append(less[l], w) \/ H[l] = less[l] BY <1>9
    <3>3. w \in WatchType => Append(less[l], w) \in Seq(WatchType) BY <3>1
    <3> QED BY <1>6, <3>1, <3>2, <3>3
  <2> QED BY <1>9, <2>1 DEF Lists
<1> QED BY <1>10, <1>11

LEMMA MoveHighestFacts ==
    ASSUME NEW st, st.lits \in Seq(Lit), IsInjective(st.lits), Len(st.lits) > 2,
           st.watches \in Lists, NEW i \in {1, 2}, NEW ref \in Nat, NEW b \in Nat,
           \A j \in 1 .. Len(st.lits) : LevelOf(st.lits[j]) \in 0 .. b,
           NEW G, NEW F, HandsSound(G, F, st.watches), ref \in DOMAIN F,
           F[ref] = {st.lits[1], st.lits[2]}
    PROVE  LET t == MoveHighest(st, i, ref)
               E == [F EXCEPT ![ref] = {t.lits[1], t.lits[2]}]
           IN /\ t.lits \in Seq(Lit) /\ IsInjective(t.lits) /\ Len(t.lits) = Len(st.lits)
              /\ ToSet(t.lits) = ToSet(st.lits)
              /\ t.watches \in Lists
              /\ HandsSound(G, E, t.watches)
              /\ \A j \in i .. Len(t.lits) : LevelOf(t.lits[j]) <= LevelOf(t.lits[i])
              /\ i = 2 => t.lits[1] = st.lits[1]
<1> DEFINE s == st.lits
           best == Highest(s, i)
           u == Swapped(s, i, best)
           rest == Unwatched(st.watches, s[i], ref)
           watch == LargeWatch(u[3 - i], ref)
           t == MoveHighest(st, i, ref)
           pairs == [F EXCEPT ![ref] = {u[1], u[2]}]
<1>0. Len(s) \in Nat /\ Len(s) > 2 /\ s \in Seq(Lit) /\ IsInjective(s) OBVIOUS
<1>1. i \in 1 .. Len(s) BY <1>0
<1>2. best \in i .. Len(s) /\ \A j \in i .. Len(s) : LevelOf(s[j]) <= LevelOf(s[best])
  <2>1. \A j \in 1 .. Len(s) : LevelOf(s[j]) \in 0 .. b OBVIOUS
  <2> HIDE DEF s
  <2> QED BY <1>0, <1>1, <2>1, HighestFacts
<1>3. best \in 1 .. Len(s) BY <1>1, <1>2
<1> HIDE DEF best
<1>4. /\ u \in Seq(Lit) /\ Len(u) = Len(s) /\ IsInjective(u) /\ ToSet(u) = ToSet(s)
      /\ u[i] = s[best] /\ u[best] = s[i]
      /\ \A k \in 1 .. Len(s) : k # i /\ k # best => u[k] = s[k]
  <2> HIDE DEF s
  <2> QED BY <1>0, <1>1, <1>3, SwappedFacts
<1>5. t.lits = u /\ t.watches = IF best <= 2 THEN st.watches ELSE [rest EXCEPT ![u[i]] = Append(@, watch)]
  BY DEF MoveHighest, best
<1> HIDE DEF u, t, rest
<1>6. \A j \in i .. Len(u) : LevelOf(u[j]) <= LevelOf(u[i])
  <2> SUFFICES ASSUME NEW j \in i .. Len(s) PROVE LevelOf(u[j]) <= LevelOf(s[best])
    BY <1>4
  <2>1. CASE j = i
    <3>1. LevelOf(s[best]) \in Nat BY <1>3
    <3> QED BY <1>4, <2>1, <3>1
  <2>2. CASE j = best /\ j # i
    <3>1. i \in i .. Len(s) BY <1>0
    <3> QED BY <1>2, <1>4, <2>2, <3>1
  <2>3. CASE j # i /\ j # best
    <3>1. j \in 1 .. Len(s) BY <1>1
    <3> QED BY <1>2, <1>4, <2>3, <3>1
  <2> QED BY <2>1, <2>2, <2>3
<1>7. i = 2 => u[1] = s[1]
  <2>1. i = 2 => 1 # i /\ 1 # best /\ 1 \in 1 .. Len(s) BY <1>0, <1>2
  <2> QED BY <1>4, <2>1
<1>8. ASSUME best <= 2
      PROVE  HandsSound(G, pairs, t.watches) /\ t.watches \in Lists
  <2>1. {u[1], u[2]} = {s[1], s[2]}
    <3>1. CASE i = 1 /\ best = 1
      <4>1. 2 \in 1 .. Len(s) BY <1>0
      <4>2. u[1] = s[1] /\ u[2] = s[2] BY <1>4, <3>1, <4>1
      <4> QED BY <4>2
    <3>2. CASE i = 1 /\ best = 2 
      <4>1. u[1] = s[2] /\ u[2] = s[1] BY <1>4, <3>2
      <4> QED BY <4>1
    <3>3. CASE i = 2 /\ best = 2
      <4>1. u[1] = s[1] /\ u[2] = s[2] BY <1>4, <1>7, <3>3
      <4> QED BY <4>1
    <3>4. best \in {1, 2} /\ (i = 2 => best = 2) BY <1>0, <1>2, <1>8
    <3> QED BY <3>1, <3>2, <3>3, <3>4
  <2>2. \A r \in DOMAIN F : r \in DOMAIN pairs /\ pairs[r] = F[r] BY <2>1
  <2>3. \A l \in Lit : Embeds(st.watches[l], st.watches[l]) BY EmbedsSelf
  <2>4. HandsSound(G, pairs, st.watches)
    <3> HIDE DEF pairs
    <3> QED BY <2>2, <2>3, HandsLess
  <2>5. t.watches = st.watches BY <1>5, <1>8
  <2> QED BY <2>4, <2>5
<1>9. ASSUME ~ (best <= 2)
      PROVE  HandsSound(G, pairs, t.watches) /\ t.watches \in Lists
  <2>1. /\ s[i] \in Lit /\ u[i] \in Lit /\ u[3 - i] \in Lit
        /\ u[3 - i] = s[3 - i]
        /\ s[i] \in {s[1], s[2]} /\ u[i] \notin {s[1], s[2]} /\ s[i] # s[3 - i]
        /\ {u[1], u[2]} = {u[i], s[3 - i]} /\ {s[1], s[2]} = {s[i], s[3 - i]}
    <3>1. 1 \in 1 .. Len(s) /\ 2 \in 1 .. Len(s) /\ best # 1 /\ best # 2 /\ DOMAIN s = 1 .. Len(s)
      BY <1>0, <1>9
    <3>2. \A j \in 1 .. Len(s) : s[j] \in Lit BY <1>0
    <3>3. s[best] # s[1] /\ s[best] # s[2] /\ s[1] # s[2]
      <4>1. \A j, k \in 1 .. Len(s) : s[j] = s[k] => j = k BY <1>0, <3>1 DEF IsInjective
      <4>2. 1 # 2 OBVIOUS
      <4> HIDE DEF s
      <4> QED BY <1>3, <3>1, <4>1, <4>2
    <3>4. CASE i = 1
      <4>1. 3 - i = 2 BY <3>4
      <4>2. u[1] = s[best] /\ u[2] = s[2] BY <1>4, <3>1, <3>4
      <4> QED BY <1>3, <3>1, <3>2, <3>3, <3>4, <4>1, <4>2
    <3>5. CASE i = 2
      <4>1. 3 - i = 1 BY <3>5
      <4>2. u[2] = s[best] /\ u[1] = s[1] BY <1>4, <3>1, <3>5
      <4> QED BY <1>3, <3>1, <3>2, <3>3, <3>5, <4>1, <4>2
    <3> QED BY <3>4, <3>5
  <2>2. ref \in DOMAIN pairs /\ DOMAIN pairs = DOMAIN F /\ pairs[ref] = {u[i], s[3 - i]}
        /\ \A r \in DOMAIN F : r # ref => pairs[r] = F[r]
    BY <2>1
  <2> DEFINE now == [rest EXCEPT ![u[i]] = Append(@, watch)]
  <2>3. now \in Lists /\ HandsSound(G, pairs, now)
    <3> PICK out \in Lit : out = s[i] BY <2>1
    <3> PICK stay \in Lit : stay = s[3 - i] BY <2>1
    <3> PICK in \in Lit : in = u[i] BY <2>1
    <3> PICK lists \in Lists : lists = st.watches OBVIOUS
    <3>1. rest = Unwatched(lists, out, ref) BY DEF rest
    <3> PICK e : e = pairs OBVIOUS
    <3>2. watch = LargeWatch(u[3 - i], ref) /\ u[3 - i] = stay BY <2>1
    <3> HIDE DEF pairs, watch
    <3> PICK y : y = Rewatched(lists, out, in, stay, ref) OBVIOUS
    <3>3. now = y BY <3>1, <3>2 DEF Rewatched
    <3>4. HandsSound(G, F, lists) /\ MovesWatch(F, e, ref, out, stay, in)
      BY <2>1, <2>2 DEF MovesWatch
    <3>5. y \in Lists /\ HandsSound(G, e, y)
      BY <3>4, MoveWatch
    <3> HIDE DEF now
    <3> QED BY <3>3, <3>5
  <2>14. t.watches = now BY <1>5, <1>9
  <2> QED BY <2>3, <2>14
<1>10. /\ t.lits \in Seq(Lit) /\ IsInjective(t.lits) /\ Len(t.lits) = Len(s)
       /\ ToSet(t.lits) = ToSet(s)
       /\ t.watches \in Lists
       /\ HandsSound(G, [F EXCEPT ![ref] = {t.lits[1], t.lits[2]}], t.watches)
       /\ \A j \in i .. Len(t.lits) : LevelOf(t.lits[j]) <= LevelOf(t.lits[i])
       /\ i = 2 => t.lits[1] = s[1]
  <2>1. HandsSound(G, pairs, t.watches) /\ t.watches \in Lists BY <1>8, <1>9
  <2>2. pairs = [F EXCEPT ![ref] = {t.lits[1], t.lits[2]}] BY <1>5
  <2> QED BY <1>4, <1>5, <1>6, <1>7, <2>1, <2>2
<1> QED BY <1>10 DEF t

LEMMA ReorderedFacts ==
    ASSUME SearchInv, visit = NoVisit, NEW ref \in References,
           \A l \in ToSet(arena[ref].lits) : LevelOf(l) \in 0 .. CurrentLevel
    PROVE  LET t == Reordered(ref)
               E == [Firsts EXCEPT ![ref] = {t.lits[1], t.lits[2]}]
           IN /\ t.lits \in Seq(Lit) /\ IsInjective(t.lits) /\ Len(t.lits) = Len(arena[ref].lits)
              /\ ToSet(t.lits) = ToSet(arena[ref].lits)
              /\ t.watches \in Lists
              /\ HandsSound(formula, E, t.watches)
              /\ \A j \in 1 .. Len(t.lits) : LevelOf(t.lits[j]) <= LevelOf(t.lits[1])
<1> PICK b \in Nat : b = CurrentLevel BY DEF SearchInv, TrailInv, TrailTypeOK, CurrentLevel
<1> PICK st : st = [lits |-> arena[ref].lits, watches |-> watches] OBVIOUS
<1> PICK u : u = MoveHighest(st, 1, ref) OBVIOUS
<1> PICK t : t = MoveHighest(u, 2, ref) OBVIOUS
<1>1. t = Reordered(ref) BY DEF Reordered
<1>2. /\ st.lits = arena[ref].lits /\ st.watches = watches
      /\ st.lits \in Seq(Lit) /\ IsInjective(st.lits) /\ Len(st.lits) > 2
      /\ Len(st.lits) \in Nat /\ st.watches \in Lists
  BY DEF SearchInv, ArenaSound, WatchListsOK
<1>3. ref \in Nat /\ ref \in DOMAIN Firsts /\ Firsts[ref] = {st.lits[1], st.lits[2]}
  BY <1>2 DEF Firsts, First, References, SearchInv, ArenaSound
<1>4. HandsSound(formula, Firsts, st.watches)
  <2>1. HandsOf(watches, visit) = watches BY <1>2, HandsIdle
  <2> QED BY <1>2, <2>1 DEF SearchInv, WatchesSound
<1>5. \A j \in 1 .. Len(st.lits) : LevelOf(st.lits[j]) \in 0 .. b
  <2> SUFFICES ASSUME NEW j \in 1 .. Len(st.lits) PROVE LevelOf(st.lits[j]) \in 0 .. b
    OBVIOUS
  <2>1. st.lits[j] \in ToSet(st.lits) BY <1>2 DEF ToSet
  <2> QED BY <1>2, <2>1
<1> PICK F : F = Firsts OBVIOUS
<1> DEFINE E == [F EXCEPT ![ref] = {u.lits[1], u.lits[2]}]
<1>6. /\ u.lits \in Seq(Lit) /\ IsInjective(u.lits) /\ Len(u.lits) = Len(st.lits)
      /\ ToSet(u.lits) = ToSet(st.lits) /\ u.watches \in Lists
      /\ HandsSound(formula, E, u.watches)
      /\ \A j \in 1 .. Len(u.lits) : LevelOf(u.lits[j]) <= LevelOf(u.lits[1])
  <2>1. 1 \in {1, 2} OBVIOUS
  <2> PICK G : G = formula OBVIOUS
  <2>2. HandsSound(G, F, st.watches) /\ ref \in DOMAIN F /\ F[ref] = {st.lits[1], st.lits[2]}
    BY <1>3, <1>4
  <2> QED BY <1>2, <1>3, <1>5, <2>1, <2>2, MoveHighestFacts, ZenonT(60)
<1>7. \A j \in 1 .. Len(u.lits) : LevelOf(u.lits[j]) \in 0 .. b
  <2> SUFFICES ASSUME NEW j \in 1 .. Len(u.lits) PROVE LevelOf(u.lits[j]) \in 0 .. b
    OBVIOUS
  <2>1. u.lits[j] \in ToSet(u.lits) BY <1>2, <1>6 DEF ToSet
  <2> QED BY <1>2, <1>6, <2>1
<1>8. ref \in DOMAIN E /\ E[ref] = {u.lits[1], u.lits[2]} BY <1>3
<1> DEFINE D == [E EXCEPT ![ref] = {t.lits[1], t.lits[2]}]
<1>9. D = [F EXCEPT ![ref] = {t.lits[1], t.lits[2]}] BY <1>3
<1> HIDE DEF E
<1>10. /\ t.lits \in Seq(Lit) /\ IsInjective(t.lits) /\ Len(t.lits) = Len(u.lits)
       /\ ToSet(t.lits) = ToSet(u.lits) /\ t.watches \in Lists
       /\ HandsSound(formula, D, t.watches)
       /\ t.lits[1] = u.lits[1]
  <2>1. 2 \in {1, 2} OBVIOUS
  <2> PICK G : G = formula OBVIOUS
  <2>2. HandsSound(G, E, u.watches) /\ Len(u.lits) > 2 BY <1>2, <1>6
  <2> QED BY <1>3, <1>6, <1>7, <1>8, <2>1, <2>2, MoveHighestFacts, ZenonT(60)
<1>11. \A j \in 1 .. Len(t.lits) : LevelOf(t.lits[j]) <= LevelOf(t.lits[1])
  <2> SUFFICES ASSUME NEW j \in 1 .. Len(t.lits) PROVE LevelOf(t.lits[j]) <= LevelOf(u.lits[1])
    BY <1>10
  <2>0. j \in DOMAIN t.lits BY <1>10
  <2>1. t.lits[j] \in ToSet(u.lits) BY <1>10, <2>0 DEF ToSet
  <2>2. \E k \in 1 .. Len(u.lits) : t.lits[j] = u.lits[k] BY <1>6, <2>1, SMTT(30) DEF ToSet
  <2> QED BY <1>6, <2>2
<1> QED BY <1>1, <1>2, <1>6, <1>9, <1>10, <1>11

-----------------------------------------------------------------------------
\* What a handler plans to do: backtracks first.
Backs(s) == s \in Seq(StepType) /\ \A i \in DOMAIN s : s[i].op = "backtrack"
TargetsOf(s) == {s[i].to : i \in DOMAIN s}

LEMMA BacksFacts ==
    /\ Backs(<<>>) /\ TargetsOf(<<>>) = {}
    /\ \A k, n \in Nat : k > 0 => /\ Backs(AfterConflict(k, n))
                                  /\ TargetsOf(AfterConflict(k, n)) = {k - 1, n}
    /\ \A s, t : Backs(s) /\ Backs(t) =>
                    Backs(s \o t) /\ TargetsOf(s \o t) = TargetsOf(s) \cup TargetsOf(t)
<1>1. Backs(<<>>) /\ TargetsOf(<<>>) = {} BY DEF Backs, TargetsOf
<1>2. ASSUME NEW k \in Nat, NEW n \in Nat, k > 0
      PROVE  Backs(AfterConflict(k, n)) /\ TargetsOf(AfterConflict(k, n)) = {k - 1, n}
  <2>1. k - 1 \in Nat BY <1>2
  <2> PICK a \in StepType : a = Backtrack(k - 1) BY <2>1, StepTypes
  <2> PICK b \in StepType : b = Backtrack(n) BY StepTypes
  <2>2. a.op = "backtrack" /\ a.to = k - 1 /\ b.op = "backtrack" /\ b.to = n BY DEF Backtrack
  <2>3. AfterConflict(k, n) = <<a, b>> BY DEF AfterConflict
  <2>4. DOMAIN <<a, b>> = {1, 2} /\ <<a, b>>[1] = a /\ <<a, b>>[2] = b /\ <<a, b>> \in Seq(StepType)
    OBVIOUS
  <2> PICK s : s = <<a, b>> OBVIOUS
  <2>5. Backs(s) BY <2>2, <2>4 DEF Backs
  <2>6. TargetsOf(s) = {k - 1, n} BY <2>2, <2>4 DEF TargetsOf
  <2> QED BY <2>3, <2>5, <2>6
<1>3. ASSUME NEW s, NEW t, Backs(s), Backs(t)
      PROVE  Backs(s \o t) /\ TargetsOf(s \o t) = TargetsOf(s) \cup TargetsOf(t)
  <2>1. s \in Seq(StepType) /\ t \in Seq(StepType) /\ Len(s) \in Nat /\ Len(t) \in Nat
    BY <1>3 DEF Backs
  <2> PICK u : u = s \o t OBVIOUS
  <2>2. /\ u \in Seq(StepType) /\ DOMAIN s = 1 .. Len(s) /\ DOMAIN t = 1 .. Len(t)
        /\ DOMAIN u = 1 .. Len(s) + Len(t)
        /\ \A i \in 1 .. Len(s) + Len(t) : u[i] = IF i <= Len(s) THEN s[i] ELSE t[i - Len(s)]
    BY <2>1
  <2>3. \A i \in DOMAIN u : \/ i \in DOMAIN s /\ u[i] = s[i]
                            \/ i - Len(s) \in DOMAIN t /\ u[i] = t[i - Len(s)]
    BY <2>1, <2>2
  <2>4. \A i \in DOMAIN s : i \in DOMAIN u /\ u[i] = s[i] BY <2>1, <2>2
  <2>5. \A i \in DOMAIN t : Len(s) + i \in DOMAIN u /\ u[Len(s) + i] = t[i]
    <3> SUFFICES ASSUME NEW i \in DOMAIN t PROVE Len(s) + i \in DOMAIN u /\ u[Len(s) + i] = t[i]
      OBVIOUS
    <3>1. i \in 1 .. Len(t) BY <2>2
    <3>2. Len(s) + i \in 1 .. Len(s) + Len(t) /\ ~ (Len(s) + i <= Len(s)) /\ (Len(s) + i) - Len(s) = i
      BY <2>1, <3>1
    <3> QED BY <2>2, <3>2
  <2>6. Backs(u) BY <1>3, <2>2, <2>3 DEF Backs
  <2>7. TargetsOf(u) = TargetsOf(s) \cup TargetsOf(t)
    <3>1. \A x \in TargetsOf(u) : x \in TargetsOf(s) \/ x \in TargetsOf(t) BY <2>3 DEF TargetsOf
    <3>2. \A x \in TargetsOf(s) : x \in TargetsOf(u) BY <2>4 DEF TargetsOf
    <3>3. \A x \in TargetsOf(t) : x \in TargetsOf(u) BY <2>5 DEF TargetsOf
    <3> QED BY <3>1, <3>2, <3>3
  <2> QED BY <2>6, <2>7
<1> QED BY <1>1, <1>2, <1>3

LEMMA PlanFacts ==
    ASSUME NEW s, Backs(s), NEW u \in Seq(StepType), todo' = s \o u,
           \A i \in DOMAIN u : u[i].op # "backtrack"
    PROVE  /\ todo' \in Seq(StepType) /\ Len(s) \in Nat /\ Len(u) \in Nat
           /\ Len(todo') = Len(s) + Len(u)
           /\ DOMAIN todo' = 1 .. Len(s) + Len(u)
           /\ Targets' = TargetsOf(s)
           /\ \A i \in 1 .. Len(s) : todo'[i].op = "backtrack"
           /\ \A j \in 1 .. Len(u) : todo'[Len(s) + j] = u[j]
           /\ \A i \in DOMAIN todo' : i \in 1 .. Len(s) \/ \E j \in 1 .. Len(u) : i = Len(s) + j
<1>1. s \in Seq(StepType) /\ Len(s) \in Nat /\ Len(u) \in Nat /\ DOMAIN s = 1 .. Len(s)
      /\ DOMAIN u = 1 .. Len(u)
  BY DEF Backs
<1>2. /\ todo' \in Seq(StepType) /\ Len(todo') = Len(s) + Len(u)
      /\ DOMAIN todo' = 1 .. Len(s) + Len(u)
      /\ \A i \in 1 .. Len(s) + Len(u) : todo'[i] = IF i <= Len(s) THEN s[i] ELSE u[i - Len(s)]
  BY <1>1
<1>3. \A i \in 1 .. Len(s) : i \in DOMAIN todo' /\ todo'[i] = s[i] /\ todo'[i].op = "backtrack"
  BY <1>1, <1>2 DEF Backs
<1>4. ASSUME NEW j \in 1 .. Len(u) PROVE todo'[Len(s) + j] = u[j]
  <2>1. Len(s) + j \in 1 .. Len(s) + Len(u) /\ ~ (Len(s) + j <= Len(s)) /\ (Len(s) + j) - Len(s) = j
    BY <1>1
  <2> QED BY <1>2, <2>1
<1>5. ASSUME NEW i \in DOMAIN todo' 
      PROVE  i \in 1 .. Len(s) \/ \E j \in 1 .. Len(u) : i = Len(s) + j
  <2>1. i \in 1 .. Len(s) + Len(u) BY <1>2
  <2>2. CASE i <= Len(s) BY <1>1, <2>1, <2>2
  <2>3. CASE ~ (i <= Len(s))
    <3>1. i - Len(s) \in 1 .. Len(u) /\ i = Len(s) + (i - Len(s)) BY <1>1, <2>1, <2>3
    <3> QED BY <3>1
  <2> QED BY <2>2, <2>3
<1>6. Targets' = TargetsOf(s)
  <2>1. \A i \in DOMAIN todo' : todo'[i].op = "backtrack" => i \in 1 .. Len(s)
    BY <1>1, <1>4, <1>5
  <2>2. Targets' = {todo'[i].to : i \in {i \in DOMAIN todo' : todo'[i].op = "backtrack"}}
    BY DEF Targets
  <2>3. {i \in DOMAIN todo' : todo'[i].op = "backtrack"} = DOMAIN s BY <1>1, <1>3, <2>1
  <2> QED BY <1>1, <1>3, <2>2, <2>3 DEF TargetsOf
<1> QED BY <1>1, <1>2, <1>3, <1>4, <1>5, <1>6

LEMMA PlanOne ==
    ASSUME NEW s, Backs(s), NEW t \in StepType, t.op \notin {"backtrack", "subsume"},
           todo' = s \o <<t>>, Holds(t)'
    PROVE  /\ todo' \in Seq(StepType)
           /\ Targets' = TargetsOf(s)
           /\ \A i \in DOMAIN todo' : Holds(todo[i])' /\ Placed(i)'
           /\ \A op : op # "backtrack" => ((\E i \in DOMAIN todo' : todo'[i].op = op) <=> t.op = op)
<1> PICK u : u = <<t>> OBVIOUS
<1>1. u \in Seq(StepType) /\ Len(u) = 1 /\ u[1] = t /\ DOMAIN u = {1}
  <2>1. <<t>> \in Seq(StepType) /\ Len(<<t>>) = 1 /\ <<t>>[1] = t /\ DOMAIN <<t>> = {1} OBVIOUS
  <2> QED BY <2>1
<1>2. \A i \in DOMAIN u : u[i].op # "backtrack" BY <1>1
<1>3. todo' = s \o u OBVIOUS
<1>4. /\ todo' \in Seq(StepType) /\ Len(s) \in Nat
      /\ Len(todo') = Len(s) + 1 /\ DOMAIN todo' = 1 .. Len(s) + 1
      /\ Targets' = TargetsOf(s)
      /\ \A i \in 1 .. Len(s) : todo'[i].op = "backtrack"
      /\ todo'[Len(s) + 1] = t
  <2>1. /\ todo' \in Seq(StepType) /\ Len(s) \in Nat
        /\ Len(todo') = Len(s) + Len(u) /\ DOMAIN todo' = 1 .. Len(s) + Len(u)
        /\ Targets' = TargetsOf(s)
        /\ \A i \in 1 .. Len(s) : todo'[i].op = "backtrack"
        /\ \A j \in 1 .. Len(u) : todo'[Len(s) + j] = u[j]
    BY <1>1, <1>2, <1>3, PlanFacts, ZenonT(90)
  <2>2. 1 \in 1 .. Len(u) BY <1>1
  <2> QED BY <1>1, <2>1, <2>2
<1>5. \A i \in DOMAIN todo' : i \in 1 .. Len(s) \/ i = Len(s) + 1 BY <1>4
<1>6. ASSUME NEW i \in DOMAIN todo' PROVE Holds(todo[i])' /\ Placed(i)'
  <2>1. CASE i \in 1 .. Len(s)
    <3>1. todo'[i].op = "backtrack" BY <1>4, <2>1
    <3> QED BY <3>1 DEF Holds, Placed
  <2>2. CASE i = Len(s) + 1
    <3>1. todo'[i] = t /\ i = Len(todo') BY <1>4, <2>2
    <3>2. \A j \in 1 .. i - 1 : todo'[j].op = "backtrack"
      <4>1. i - 1 = Len(s) BY <1>4, <2>2
      <4> QED BY <1>4, <4>1
    <3>3. \A j \in i + 1 .. Len(todo') : FALSE BY <1>4, <2>2
    <3>4. Holds(todo[i])' BY <3>1
    <3>5. Placed(i)' BY <3>1, <3>2, <3>3 DEF Placed
    <3> QED BY <3>4, <3>5
  <2> QED BY <1>5, <2>1, <2>2
<1>7. ASSUME NEW op, op # "backtrack"
      PROVE  (\E i \in DOMAIN todo' : todo'[i].op = op) <=> t.op = op
  <2>1. Len(s) + 1 \in DOMAIN todo' BY <1>4
  <2> QED BY <1>4, <1>5, <1>7, <2>1
<1> QED BY <1>4, <1>6, <1>7

\* The conflict that the analysis begins with.
LEMMA ConflictTop ==
    ASSUME SearchInv, Analyzing
    PROVE  LET lits == ToSet(LitsOf(conflict))
               top == Max(LevelsOf(lits))
           IN /\ todo = <<>> /\ Targets = {} /\ resolvent = {} /\ visit = NoVisit
              /\ conflict # NoConflict
              /\ lits \in SUBSET Lit /\ Follows(lits)
              /\ \A x : \E l \in lits : l # x
              /\ top \in 0 .. CurrentLevel
              /\ \E l \in lits : LevelOf(l) = top
              /\ \A l \in lits : values[l] = -1 /\ LevelOf(l) <= top /\ LevelOf(l) \in Nat
<1> PICK lits : lits = ToSet(LitsOf(conflict)) OBVIOUS
<1> DEFINE L == LevelsOf(lits)
<1>1. todo = <<>> /\ conflict # NoConflict BY DEF Analyzing
<1>2. Targets = {} /\ resolvent = {} BY <1>1, LoopIdle
<1>3. visit = NoVisit BY <1>1 DEF SearchInv, VisitSound
<1>4. CurrentLevel \in Nat BY DEF SearchInv, TrailInv, TrailTypeOK, CurrentLevel
<1>5. /\ \/ conflict.ref \in References
         \/ conflict.ref = 0 /\ \E a, b \in Lit : a # b /\ conflict.lits = <<a, b>>
      /\ Follows(lits)
      /\ \A l \in lits : Safe(l)
  BY <1>1 DEF SearchInv, ConflictSound
<1>6. \A l \in lits : l \in Lit /\ values[l] = -1 /\ LevelOf(l) <= CurrentLevel /\ LevelOf(l) \in Nat
  BY <1>5, Values DEF SearchInv, Safe
<1>7. \E a, b \in lits : a # b
  <2>1. CASE conflict.ref \in References
    <3> PICK s : s = arena[conflict.ref].lits OBVIOUS
    <3>1. s \in Seq(Lit) /\ Len(s) > 2 /\ IsInjective(s) BY <2>1 DEF SearchInv, ArenaSound
    <3>2. 1 \in DOMAIN s /\ 2 \in DOMAIN s BY <3>1
    <3>3. s[1] # s[2] BY <3>1, <3>2 DEF IsInjective
    <3>4. conflict.ref # 0
      <4>1. DOMAIN arena = 1 .. Len(arena) BY DEF SearchInv, ArenaSound
      <4> QED BY <2>1, <4>1 DEF References
    <3>5. lits = ToSet(s) BY <3>4 DEF LitsOf
    <3>6. s[1] \in lits /\ s[2] \in lits BY <3>2, <3>5 DEF ToSet
    <3> QED BY <3>3, <3>6
  <2>2. CASE conflict.ref = 0 /\ \E a, b \in Lit : a # b /\ conflict.lits = <<a, b>>
    <3> PICK a, b \in Lit : a # b /\ conflict.lits = <<a, b>> BY <2>2
    <3>1. lits = ToSet(<<a, b>>) BY <2>2 DEF LitsOf
    <3>2. a \in lits /\ b \in lits BY <3>1 DEF ToSet
    <3> QED BY <3>2
  <2> QED BY <1>5, <2>1, <2>2
<1>8. L \in SUBSET (0 .. CurrentLevel) /\ L # {} BY <1>4, <1>6, <1>7 DEF LevelsOf
<1>9. Max(L) \in L /\ \A y \in L : y <= Max(L)
  <2> PICK b \in Nat : b = CurrentLevel BY <1>4
  <2> PICK S \in SUBSET (0 .. b) : S = L /\ S # {} BY <1>8
  <2>1. Max(S) \in S /\ \A y \in S : y <= Max(S) BY MaxFacts
  <2> QED BY <2>1
<1> PICK top : top = Max(L) OBVIOUS
<1>10. /\ top \in 0 .. CurrentLevel
       /\ \E l \in lits : LevelOf(l) = top
       /\ \A l \in lits : LevelOf(l) <= top
  BY <1>8, <1>9 DEF LevelsOf
<1>11. \A x : \E l \in lits : l # x BY <1>7
<1>12. lits \in SUBSET Lit BY <1>6
<1> QED BY <1>1, <1>2, <1>3, <1>5, <1>6, <1>10, <1>11, <1>12

LEMMA HandsSame ==
    ASSUME NEW G, NEW F, NEW H, HandsSound(G, F, H), NEW E,
           \A r \in DOMAIN F : r \in DOMAIN E /\ E[r] = F[r]
    PROVE  HandsSound(G, E, H)
<1>1. \A l \in Lit : Embeds(H[l], H[l]) BY EmbedsSelf
<1> QED BY <1>1, HandsLess

\* Its literals of highest level move to the front.
LEMMA ConflictReordered ==
    ASSUME SearchInv, Analyzing,
           IF conflict.ref = 0
             THEN UNCHANGED <<arena, watches>>
             ELSE /\ arena' = [arena EXCEPT ![conflict.ref].lits =
                                     Reordered(conflict.ref).lits]
                  /\ watches' = Reordered(conflict.ref).watches,
           UNCHANGED <<formula, visit>>
    PROVE  /\ ArenaSound' /\ WatchListsOK' /\ WatchesSound'
           /\ References' = References
           /\ \A r \in References : /\ ToSet(arena'[r].lits) = ToSet(arena[r].lits)
                                    /\ arena'[r].garbage = arena[r].garbage
                                    /\ r # conflict.ref => First(r)' = First(r)
           /\ conflict.ref # 0 =>
                /\ conflict.ref \in References
                /\ ToSet(arena[conflict.ref].lits) = ToSet(LitsOf(conflict))
                /\ arena'[conflict.ref].lits[1] \in ToSet(LitsOf(conflict))
                /\ LevelOf(arena'[conflict.ref].lits[1]) = Max(LevelsOf(ToSet(LitsOf(conflict))))
<1> PICK ref : ref = conflict.ref OBVIOUS
<1> PICK lits : lits = ToSet(LitsOf(conflict)) OBVIOUS
<1> PICK top : top = Max(LevelsOf(lits)) OBVIOUS
<1>1. /\ visit = NoVisit /\ conflict # NoConflict
      /\ top \in 0 .. CurrentLevel
      /\ \E l \in lits : LevelOf(l) = top
      /\ \A l \in lits : LevelOf(l) <= top /\ LevelOf(l) \in Nat
      /\ lits \in SUBSET Lit
  BY ConflictTop
<1>2. /\ arena \in Seq(ClauseType) /\ DOMAIN arena = 1 .. Len(arena) /\ Len(arena) \in Nat
      /\ \A r \in References :
            /\ arena[r] \in ClauseType /\ arena[r].lits \in Seq(Lit)
            /\ Len(arena[r].lits) > 2 /\ IsInjective(arena[r].lits)
            /\ Follows(ToSet(arena[r].lits))
  BY DEF SearchInv, ArenaSound, References
<1>3. visit' = NoVisit' /\ visit' \in VisitType'
  <2>1. NoVisit' = NoVisit BY DEF NoVisit, NoDelayed
  <2> QED BY <1>1, <2>1, NoVisitTyped DEF VisitType
<1>4. \A D : Follows(D)' <=> Follows(D) BY DEF Follows
<1>5. CASE ref = 0
  <2>1. UNCHANGED <<arena, watches>> BY <1>5
  <2>2. ArenaSound' /\ WatchListsOK' /\ WatchesSound'
    BY <1>4, <2>1 DEF SearchInv, ArenaSound, WatchListsOK, WatchesSound, Firsts, First, References
  <2>3. References' = References /\ \A r : First(r)' = First(r) BY <2>1 DEF References, First
  <2> QED BY <1>5, <2>1, <2>2, <2>3
<1>6. CASE ref # 0
  <2>1. ref \in References /\ lits = ToSet(arena[ref].lits)
    BY <1>1, <1>6 DEF SearchInv, ConflictSound, LitsOf
  <2> PICK t : t = Reordered(ref) OBVIOUS
  <2>2. arena' = [arena EXCEPT ![ref].lits = t.lits] /\ watches' = t.watches BY <1>6
  <2> PICK E : E = [Firsts EXCEPT ![ref] = {t.lits[1], t.lits[2]}] OBVIOUS
  <2>3. /\ t.lits \in Seq(Lit) /\ IsInjective(t.lits) /\ Len(t.lits) = Len(arena[ref].lits)
        /\ ToSet(t.lits) = lits
        /\ t.watches \in Lists
        /\ HandsSound(formula, E, t.watches)
        /\ \A j \in 1 .. Len(t.lits) : LevelOf(t.lits[j]) <= LevelOf(t.lits[1])
    <3>1. \A l \in ToSet(arena[ref].lits) : LevelOf(l) \in 0 .. CurrentLevel
      <4>1. CurrentLevel \in Nat BY DEF SearchInv, TrailInv, TrailTypeOK, CurrentLevel
      <4> QED BY <1>1, <2>1, <4>1
    <3> QED BY <1>1, <2>1, <3>1, ReorderedFacts
  <2>4. /\ DOMAIN arena' = DOMAIN arena
        /\ \A r \in DOMAIN arena : r # ref => arena'[r] = arena[r]
        /\ arena'[ref] = [arena[ref] EXCEPT !.lits = t.lits]
    BY <2>1, <2>2 DEF References
  <2>5. /\ arena'[ref].lits = t.lits /\ arena'[ref].garbage = arena[ref].garbage
        /\ arena'[ref] \in ClauseType
    <3>1. arena[ref] \in ClauseType BY <1>2, <2>1
    <3> QED BY <2>3, <2>4, <3>1 DEF ClauseType
  <2>6. References' = References BY <2>4 DEF References
  <2>7. arena' \in Seq(ClauseType)
    <3>1. \A r \in 1 .. Len(arena) : arena'[r] \in ClauseType BY <1>2, <2>4, <2>5 DEF References
    <3>2. arena' = [r \in 1 .. Len(arena) |-> arena'[r]] BY <1>2, <2>2, <2>4
    <3> QED BY <1>2, <3>1, <3>2
  <2>8. \A r \in References :
            /\ arena'[r].lits \in Seq(Lit)
            /\ Len(arena'[r].lits) > 2 /\ IsInjective(arena'[r].lits)
            /\ ToSet(arena'[r].lits) = ToSet(arena[r].lits)
            /\ arena'[r].garbage = arena[r].garbage
            /\ r # ref => First(r)' = First(r)
    BY <1>2, <2>1, <2>3, <2>4, <2>5 DEF References, First
  <2>9. ArenaSound' BY <1>2, <1>4, <2>6, <2>7, <2>8 DEF ArenaSound
  <2>10. WatchListsOK' BY <1>3, <2>2, <2>3 DEF WatchListsOK, Lists
  <2>11. WatchesSound'
    <3>1. HandsOf(watches', visit') = watches' 
      <4> PICK ws \in Lists : ws = watches' BY <2>2, <2>3
      <4>1. HandsOf(ws, NoVisit) = ws BY HandsIdle
      <4> QED BY <1>1, <4>1
    <3>2. HandsOf(watches, visit)' = HandsOf(watches', visit') BY DEF HandsOf, RestOf
    <3>3. \A r \in DOMAIN E : r \in DOMAIN Firsts' /\ Firsts'[r] = E[r]
      <4>1. DOMAIN E = References /\ E[ref] = {t.lits[1], t.lits[2]}
            /\ \A r \in References : r # ref => E[r] = First(r)
        BY <2>1 DEF Firsts
      <4>2. DOMAIN Firsts' = References /\ \A r \in References : Firsts'[r] = First(r)'
        BY <2>6 DEF Firsts
      <4>3. First(ref)' = {t.lits[1], t.lits[2]} BY <2>5 DEF First
      <4> QED BY <2>8, <4>1, <4>2, <4>3
    <3> PICK F : F = Firsts' OBVIOUS
    <3> PICK G : G = formula OBVIOUS
    <3> PICK K : K = t.watches OBVIOUS
    <3>4. HandsSound(G, F, K)
      <4>2. HandsSound(G, E, K) BY <2>3
      <4>3. \A r \in DOMAIN E : r \in DOMAIN F /\ F[r] = E[r] BY <3>3
      <4> QED BY <4>2, <4>3, HandsSame
    <3>5. HandsSound(formula', Firsts', HandsOf(watches, visit)') BY <2>2, <3>1, <3>2, <3>4
    <3> QED BY <3>5 DEF WatchesSound, HandsSound, WatchOK, Once, Watches
  <2>12. t.lits[1] \in lits /\ LevelOf(t.lits[1]) = top
    <3>1. 1 \in DOMAIN t.lits /\ DOMAIN t.lits = 1 .. Len(t.lits) BY <1>2, <2>1, <2>3
    <3>2. t.lits[1] \in lits BY <2>3, <3>1 DEF ToSet
    <3> PICK l \in lits : LevelOf(l) = top BY <1>1
    <3>3. \E j \in DOMAIN t.lits : l = t.lits[j] BY <2>3 DEF ToSet
    <3>4. top <= LevelOf(t.lits[1]) BY <2>3, <3>1, <3>3
    <3> QED BY <1>1, <3>2, <3>4
  <2> QED BY <1>6, <2>1, <2>5, <2>6, <2>8, <2>9, <2>10, <2>11, <2>12
<1> QED BY <1>5, <1>6

\* The backtrack that precedes the analysis of a conflict of a lower level.
Lower(k, top) == IF top < k THEN AfterConflict(k, top) ELSE <<>>

LEMMA LowerFacts ==
    ASSUME NEW k \in Nat, NEW top \in 1 .. k, NEW s, s = Lower(k, top)
    PROVE  /\ Backs(s)
           /\ \A j \in TargetsOf(s) : j \in Nat /\ j >= top
           /\ top = k \/ top \in TargetsOf(s)
           /\ top = k => TargetsOf(s) = {}
<1>0. top \in Nat /\ k > 0 /\ top <= k OBVIOUS
<1>1. CASE top < k
  <2>1. s = AfterConflict(k, top) BY <1>1 DEF Lower
  <2>2. Backs(s) /\ TargetsOf(s) = {k - 1, top} BY <1>0, <2>1, BacksFacts
  <2>3. k - 1 >= top /\ k - 1 \in Nat BY <1>0, <1>1
  <2> QED BY <1>0, <1>1, <2>2, <2>3
<1>2. CASE ~ (top < k)
  <2>1. s = <<>> /\ top = k BY <1>0, <1>2 DEF Lower
  <2> QED BY <2>1, BacksFacts
<1> QED BY <1>1, <1>2

\* The backtracks that precede the assignment of a literal that a conflict forces.
LEMMA ConflictPlan ==
    ASSUME NEW k \in Nat, NEW top \in 1 .. k, NEW jump \in 0 .. top - 1,
           NEW s, s = Lower(k, top) \o AfterConflict(top, NewLevel(top, jump))
    PROVE  /\ Backs(s)
           /\ top - 1 \in TargetsOf(s)
           /\ \A j \in TargetsOf(s) : j \in Nat /\ jump <= j
<1>1. top \in Nat /\ top > 0 /\ jump \in Nat /\ jump <= top - 1 /\ top - 1 \in Nat OBVIOUS
<1> PICK new : new = NewLevel(top, jump) OBVIOUS
<1>2. new \in Nat /\ jump <= new BY <1>1 DEF NewLevel
<1> PICK lower : lower = Lower(k, top) OBVIOUS
<1> PICK after : after = AfterConflict(top, new) OBVIOUS
<1>3. Backs(lower) /\ \A j \in TargetsOf(lower) : j \in Nat /\ j >= top BY LowerFacts
<1>4. Backs(after) /\ TargetsOf(after) = {top - 1, new} BY <1>1, <1>2, BacksFacts
<1>5. s = lower \o after OBVIOUS
<1>6. Backs(s) /\ TargetsOf(s) = TargetsOf(lower) \cup TargetsOf(after)
  BY <1>3, <1>4, <1>5, BacksFacts
<1>7. \A j \in TargetsOf(lower) : j \in Nat /\ jump <= j BY <1>1, <1>3
<1> QED BY <1>1, <1>2, <1>4, <1>6, <1>7

LEMMA OneStep == \A t \in StepType : <<t>> \in Seq(StepType) /\ DOMAIN <<t>> = {1} /\ <<t>>[1] = t
OBVIOUS

\* The literal that it forces.
ForceStep(ref, lit, other) ==
    IF ref = 0 THEN ForceBinary(lit, other) ELSE ForceLarge(lit, ref)

LEMMA BinaryFields ==
    ASSUME NEW lit, NEW other, NEW t, t = ForceBinary(lit, other)
    PROVE  t.op = "forceBinary" /\ t.lit = lit /\ t.other = other
<1>1. t.op = "forceBinary" BY DEF ForceBinary
<1>2. t.lit = lit /\ t.other = other BY DEF ForceBinary
<1> QED BY <1>1, <1>2

LEMMA LargeFields ==
    ASSUME NEW lit, NEW ref, NEW t, t = ForceLarge(lit, ref)
    PROVE  t.op = "forceLarge" /\ t.lit = lit /\ t.ref = ref
<1>1. t.op = "forceLarge" BY DEF ForceLarge
<1>2. t.lit = lit /\ t.ref = ref BY DEF ForceLarge
<1> QED BY <1>1, <1>2

IsForceStep(ref, lit, other, t) ==
    /\ t \in StepType /\ t.op \in {"forceBinary", "forceLarge"} /\ t.lit = lit
    /\ ref = 0 => t.op = "forceBinary" /\ t.other = other
    /\ ref # 0 => t.op = "forceLarge" /\ t.ref = ref

LEMMA ForceStepFacts ==
    ASSUME NEW ref \in Nat, NEW lit \in Lit, NEW other, ref = 0 => other \in Lit,
           NEW t, t = ForceStep(ref, lit, other)
    PROVE  IsForceStep(ref, lit, other, t)
<1> USE DEF IsForceStep
<1>1. CASE ref = 0
  <2>1. t = ForceBinary(lit, other) BY <1>1 DEF ForceStep
  <2>2. t \in StepType
    <3>1. ForceBinary(lit, other) \in StepType BY <1>1, StepTypes
    <3> QED BY <2>1, <3>1
  <2>3. t.op = "forceBinary" /\ t.lit = lit /\ t.other = other BY <2>1, BinaryFields
  <2> QED BY <1>1, <2>2, <2>3
<1>2. CASE ref # 0
  <2>1. t = ForceLarge(lit, ref) BY <1>2 DEF ForceStep
  <2>2. t \in StepType
    <3>1. ForceLarge(lit, ref) \in StepType BY StepTypes
    <3> QED BY <2>1, <3>1
  <2>3. t.op = "forceLarge" /\ t.lit = lit /\ t.ref = ref BY <2>1, LargeFields
  <2> QED BY <1>2, <2>2, <2>3
<1> QED BY <1>1, <1>2

\* A conflict with one literal of highest level: what the solver goes on to do.
ForcesNext(ref, lits, top, forced, jump, s, t) ==
    /\ forced \in lits /\ LevelOf(forced) = top /\ top > 0
    /\ \A l \in lits : LevelOf(l) = top => l = forced
    /\ jump \in 0 .. top - 1 /\ \A l \in lits \ {forced} : LevelOf(l) <= jump
    /\ Backs(s) /\ top - 1 \in TargetsOf(s)
    /\ \A k \in TargetsOf(s) : k \in Nat /\ jump <= k
    /\ t \in StepType /\ t.op \in {"forceBinary", "forceLarge"} /\ t.lit = forced
    /\ ref = 0 => t.op = "forceBinary" /\ t.other \in lits \ {forced}
    /\ ref # 0 => t.op = "forceLarge" /\ t.ref = ref

Reorders ==
    IF conflict.ref = 0
      THEN UNCHANGED <<arena, watches>>
      ELSE /\ arena' = [arena EXCEPT ![conflict.ref].lits = Reordered(conflict.ref).lits]
           /\ watches' = Reordered(conflict.ref).watches

LEMMA JumpFacts ==
    ASSUME NEW lits, NEW top \in Nat, top > 0,
           \A l \in lits : LevelOf(l) <= top /\ LevelOf(l) \in Nat,
           \A x : \E l \in lits : l # x,
           NEW forced, \A l \in lits : LevelOf(l) = top => l = forced,
           NEW jump, jump = Max(LevelsOf(lits \ {forced}))
    PROVE  jump \in 0 .. top - 1 /\ \A l \in lits \ {forced} : LevelOf(l) <= jump
<1> PICK L : L = LevelsOf(lits \ {forced}) OBVIOUS
<1>1. L \in SUBSET (0 .. top) BY DEF LevelsOf
<1>2. L # {} BY DEF LevelsOf
<1>3. jump \in L /\ \A y \in L : y <= jump BY <1>1, <1>2, MaxFacts
<1>4. \A l \in lits \ {forced} : LevelOf(l) <= jump BY <1>3 DEF LevelsOf
<1>5. PICK l \in lits \ {forced} : LevelOf(l) = jump BY <1>3 DEF LevelsOf
<1>6. LevelOf(l) # top /\ LevelOf(l) <= top /\ LevelOf(l) \in Nat BY <1>5
<1> QED BY <1>4, <1>5, <1>6

LEMMA ForcesNextFacts ==
    ASSUME NEW ref \in Nat, NEW k \in Nat, NEW top \in 1 .. k, NEW lits \in SUBSET Lit,
           \A x : \E l \in lits : l # x, \E l \in lits : LevelOf(l) = top,
           \A l \in lits : LevelOf(l) <= top /\ LevelOf(l) \in Nat,
           NEW forced \in lits, LevelOf(forced) = top,
           \A l \in lits : LevelOf(l) = top => l = forced,
           NEW jump, jump = Max(LevelsOf(lits \ {forced})),
           NEW other \in lits, other # forced,
           NEW t, t = ForceStep(ref, forced, other),
           NEW s, s = Lower(k, top) \o AfterConflict(top, NewLevel(top, jump))
    PROVE  ForcesNext(ref, lits, top, forced, jump, s, t)
<1>1. jump \in 0 .. top - 1 /\ \A l \in lits \ {forced} : LevelOf(l) <= jump 
  <2>1. top \in Nat /\ top > 0 OBVIOUS
  <2> QED BY <2>1, JumpFacts
<1>2. /\ Backs(s) /\ top - 1 \in TargetsOf(s)
      /\ \A j \in TargetsOf(s) : j \in Nat /\ jump <= j
  BY <1>1, ConflictPlan
<1>3. forced \in Lit /\ (ref = 0 => other \in Lit) OBVIOUS
<1>4. IsForceStep(ref, forced, other, t) BY <1>3, ForceStepFacts
<1>5. top > 0 OBVIOUS
<1> QED BY <1>1, <1>2, <1>4, <1>5 DEF ForcesNext, IsForceStep

LEMMA ForcesNextChosen ==
    ASSUME NEW ref \in Nat, NEW k \in Nat, NEW top \in 1 .. k, NEW lits \in SUBSET Lit,
           \A x : \E l \in lits : l # x, \E l \in lits : LevelOf(l) = top,
           \A l \in lits : LevelOf(l) <= top /\ LevelOf(l) \in Nat,
           NEW forced \in lits, LevelOf(forced) = top,
           \A l \in lits : LevelOf(l) = top => l = forced,
           NEW jump, jump = Max(LevelsOf(lits \ {forced})),
           NEW other, other = (CHOOSE l \in lits : l # forced),
           NEW t, t = ForceStep(ref, forced, other),
           NEW s, s = Lower(k, top) \o AfterConflict(top, NewLevel(top, jump))
    PROVE  ForcesNext(ref, lits, top, forced, jump, s, t)
<1>1. other \in lits /\ other # forced
  <2>1. \E l \in lits : l # forced OBVIOUS
  <2> QED BY <2>1, Zenon
<1> QED BY <1>1, ForcesNextFacts, ZenonT(30)

LEMMA ForcedConflictFacts ==
    ASSUME SearchInv, AnalyzeConflict, conflict' = NoConflict
    PROVE  /\ Analyzing /\ Reorders
           /\ UNCHANGED <<trailVars, reason, visit, result, formula, resolvent>>
           /\ \E lits, top, forced, jump, s, t :
                /\ lits = ToSet(LitsOf(conflict)) /\ top = Max(LevelsOf(lits))
                /\ ForcesNext(conflict.ref, lits, top, forced, jump, s, t)
                /\ todo' = s \o <<t>>
<1> PICK lits : lits = ToSet(LitsOf(conflict)) OBVIOUS
<1> PICK top : top = Max(LevelsOf(lits)) OBVIOUS
<1>1. Analyzing BY DEF AnalyzeConflict
<1>2. /\ conflict # NoConflict /\ lits \in SUBSET Lit
      /\ \A x : \E l \in lits : l # x
      /\ top \in 0 .. CurrentLevel
      /\ \E l \in lits : LevelOf(l) = top
      /\ \A l \in lits : LevelOf(l) <= top /\ LevelOf(l) \in Nat
  BY <1>1, ConflictTop
<1> PICK forced : forced = CHOOSE l \in lits : LevelOf(l) = top OBVIOUS
<1> PICK jump : jump = Max(LevelsOf(lits \ {forced})) OBVIOUS
<1> PICK other : other = CHOOSE l \in lits : l # forced OBVIOUS
<1> PICK t : t = ForceStep(conflict.ref, forced, other) OBVIOUS
<1> PICK s : s = Lower(CurrentLevel, top) \o AfterConflict(top, NewLevel(top, jump)) OBVIOUS
<1>3. /\ top > 0 /\ Reorders
      /\ \A l \in lits : LevelOf(l) = top => l = forced
      /\ todo' = s \o <<t>>
      /\ UNCHANGED <<trailVars, reason, visit, result, formula, resolvent>>
  BY <1>2 DEF AnalyzeConflict, analysisVars, Reorders, Lower, ForceStep
<1>4. forced \in lits /\ LevelOf(forced) = top BY <1>2
<1>6. CurrentLevel \in Nat BY DEF SearchInv, TrailInv, TrailTypeOK, CurrentLevel
<1>7. top \in 1 .. CurrentLevel BY <1>2, <1>3, <1>6
<1>8. conflict.ref \in Nat BY <1>2 DEF SearchInv, ConflictSound, References, ArenaSound
<1>9. ForcesNext(conflict.ref, lits, top, forced, jump, s, t)
  <2> PICK ref \in Nat : ref = conflict.ref BY <1>8
  <2> PICK k \in Nat : k = CurrentLevel BY <1>6
  <2>1. t = ForceStep(ref, forced, other) OBVIOUS
  <2>2. s = Lower(k, top) \o AfterConflict(top, NewLevel(top, jump)) OBVIOUS
  <2>3. top \in 1 .. k BY <1>7
  <2>4. lits \in SUBSET Lit /\ (\A x : \E l \in lits : l # x) BY <1>2
  <2>5. \E l \in lits : LevelOf(l) = top BY <1>4
  <2>6. \A l \in lits : LevelOf(l) <= top /\ LevelOf(l) \in Nat BY <1>2
  <2>7. \A l \in lits : LevelOf(l) = top => l = forced BY <1>3
  <2>10. other = (CHOOSE l \in lits : l # forced) OBVIOUS
  <2>8. jump = Max(LevelsOf(lits \ {forced})) OBVIOUS
  <2>9. ForcesNext(ref, lits, top, forced, jump, s, t)
    BY <1>4, <2>10, <2>1, <2>2, <2>3, <2>4, <2>5, <2>6, <2>7, <2>8, ForcesNextChosen, ZenonT(30)
  <2> QED BY <2>9
<1> QED BY <1>1, <1>3, <1>9

\* The end of an analysis: there is no conflict any more, and a plan.
LEMMA AnalysisEnds ==
    ASSUME SearchInv, visit = NoVisit, conflict' = NoConflict, resolvent' = {},
           UNCHANGED <<trailVars, reason, visit, result, formula>>,
           ArenaSound', WatchListsOK', WatchesSound',
           \A r \in References : r \in References' /\ ToSet(arena'[r].lits) = ToSet(arena[r].lits),
           todo' \in Seq(StepType), \A i \in DOMAIN todo' : Holds(todo[i])' /\ Placed(i)',
           \A i \in DOMAIN todo' : todo'[i].op \notin {"deduce", "failed"},
           \A l \in Forced : Fits(l) \/ Doomed(l) => Fits(l)' \/ Doomed(l)'
    PROVE  SearchInv'
<1>1. TrailInv' /\ RootSound' BY Unmoved DEF SearchInv
<1>2. NoConflict' = NoConflict /\ NoVisit' = NoVisit BY DEF NoConflict, NoVisit, NoDelayed
<1>3. ConflictSound' /\ TodoSound' BY <1>2 DEF ConflictSound, TodoSound
<1>4. ResolventSound'
  <2>1. ~ Analysis' BY DEF Analysis
  <2> QED BY <2>1 DEF ResolventSound
<1>5. ReasonsSound' BY ReasonsKept DEF SearchInv
<1>6. VisitSound'
  <2>1. visit' = NoVisit' BY <1>2
  <2> QED BY <2>1, NoVisitTyped DEF VisitSound, NoVisit
<1>7. RefutationSound' /\ formula' \in Formulas BY DEF SearchInv, RefutationSound
<1> QED BY <1>1, <1>3, <1>4, <1>5, <1>6, <1>7 DEF SearchInv

\* A false literal of a level that no backtrack of the plan goes below.
LEMMA SafeInPlan ==
    ASSUME SearchInv, UNCHANGED <<trailVars, formula>>, NEW l \in Lit, values[l] = -1,
           LevelOf(l) <= CurrentLevel, \A k \in Targets' : LevelOf(l) <= k
    PROVE  Safe(l)'
<1>1. CurrentLevel' = CurrentLevel /\ LevelOf(l)' = LevelOf(l) /\ values'[l] = values[l]
  BY Unmoved
<1>2. \A k \in Targets' : LevelOf(l)' <= k BY <1>1
<1> QED BY <1>1, <1>2 DEF Safe

LEMMA ForcedHolds ==
    ASSUME SearchInv, Analyzing, conflict.ref # 0 => arena'[conflict.ref].lits[1] \in Lit,
           UNCHANGED <<trailVars, formula>>,
           NEW lits, lits = ToSet(LitsOf(conflict)), NEW top, top = Max(LevelsOf(lits)),
           NEW forced, NEW jump, NEW s, NEW t, ForcesNext(conflict.ref, lits, top, forced, jump, s, t),
           Targets' = TargetsOf(s), References' = References,
           conflict.ref # 0 => /\ conflict.ref \in References
                               /\ ToSet(arena'[conflict.ref].lits) = lits
                               /\ arena'[conflict.ref].garbage = arena[conflict.ref].garbage
                               /\ arena'[conflict.ref].lits[1] = forced
    PROVE  Holds(t)'
<1>1. /\ lits \in SUBSET Lit /\ Follows(lits) /\ top \in 0 .. CurrentLevel
      /\ conflict # NoConflict
      /\ \A l \in lits : values[l] = -1 /\ LevelOf(l) <= top /\ LevelOf(l) \in Nat
  BY ConflictTop
<1>2. /\ \A l \in lits \ {forced} : LevelOf(l) <= jump
      /\ \A k \in TargetsOf(s) : k \in Nat /\ jump <= k
      /\ forced \in lits /\ jump \in 0 .. top - 1 /\ t.lit = forced
      /\ t.op \in {"forceBinary", "forceLarge"}
      /\ conflict.ref = 0 => t.op = "forceBinary" /\ t.other \in lits \ {forced}
      /\ conflict.ref # 0 => t.op = "forceLarge" /\ t.ref = conflict.ref
  BY DEF ForcesNext
<1>3. CurrentLevel \in Nat BY DEF SearchInv, TrailInv, TrailTypeOK, CurrentLevel
<1>4. \A l \in lits \ {forced} : Safe(l)'
  <2> SUFFICES ASSUME NEW l \in lits \ {forced} PROVE Safe(l)'
    OBVIOUS
  <2>1. l \in Lit BY <1>1
  <2>2. values[l] = -1 /\ LevelOf(l) \in Nat /\ LevelOf(l) <= top BY <1>1
  <2>3. LevelOf(l) <= jump BY <1>2
  <2>4. jump \in Nat
    <3>1. jump \in 0 .. top - 1 BY <1>2
    <3> QED BY <3>1
  <2>5. LevelOf(l) <= CurrentLevel BY <1>1, <1>3, <2>2
  <2>6. \A k \in Targets' : LevelOf(l) <= k
    <3> SUFFICES ASSUME NEW k \in Targets' PROVE LevelOf(l) <= k
      OBVIOUS
    <3>1. k \in Nat /\ jump <= k BY <1>2
    <3> QED BY <2>2, <2>3, <2>4, <3>1
  <2> QED BY <2>1, <2>2, <2>5, <2>6, SafeInPlan
<1>5. \A D : (Follows(D)' <=> Follows(D)) BY Unmoved
<1>6. CASE conflict.ref = 0
  <2>1. t.op = "forceBinary" /\ t.other \in lits \ {forced} BY <1>2, <1>6
  <2>2. PICK a, b \in Lit : a # b /\ conflict.lits = <<a, b>>
    BY <1>1, <1>6 DEF SearchInv, ConflictSound, References, ArenaSound
  <2>3. lits = {a, b}
    <3> PICK x : x = <<a, b>> OBVIOUS
    <3>1. DOMAIN x = {1, 2} /\ x[1] = a /\ x[2] = b OBVIOUS
    <3>2. lits = ToSet(x) BY <1>6, <2>2 DEF LitsOf
    <3> QED BY <3>1, <3>2 DEF ToSet
  <2>4. {forced, t.other} = lits
    <3>1. forced \in lits BY <1>2
    <3> QED BY <2>1, <2>3, <3>1
  <2>5. Follows({t.lit, t.other})' BY <1>1, <1>2, <1>5, <2>4
  <2>6. Safe(t.other)' BY <1>4, <2>1
  <2>7. t.lit # t.other BY <1>2, <2>1
  <2> QED BY <2>1, <2>5, <2>6, <2>7 DEF Holds
<1>7. CASE conflict.ref # 0
  <2> PICK ref : ref = conflict.ref OBVIOUS
  <2>1. t.op = "forceLarge" /\ t.lit = forced /\ t.ref = ref BY <1>2, <1>7
  <2>2. ref \in References /\ ToSet(arena'[ref].lits) = lits /\ arena'[ref].lits[1] = forced
        /\ arena'[ref].garbage = arena[ref].garbage
    BY <1>7
  <2>3. ~ arena[ref].garbage BY <1>1, <2>2, <1>7 DEF SearchInv, ConflictSound
  <2>4. ~ arena'[ref].garbage BY <2>2, <2>3
  <2>5. forced \in First(ref)' BY <2>2 DEF First
  <2>6. \A m \in ToSet(arena'[ref].lits) \ {forced} : Safe(m)' BY <1>4, <2>2
  <2>7. ref \in References' BY <2>2
  <2> QED BY <2>1, <2>4, <2>5, <2>6, <2>7 DEF Holds
<1> QED BY <1>6, <1>7

LEMMA ReorderedFits ==
    ASSUME SearchInv, Analyzing, Reorders, UNCHANGED <<reason, formula, visit>>,
           NEW l \in Forced, Fits(l)
    PROVE  Fits(l)'
<1>1. /\ \A r \in References : /\ arena'[r].garbage = arena[r].garbage
                               /\ r # conflict.ref => First(r)' = First(r)
      /\ conflict.ref # 0 =>
           ToSet(arena[conflict.ref].lits) = ToSet(LitsOf(conflict))
  BY ConflictReordered DEF Reorders
<1>2. \A m \in ToSet(LitsOf(conflict)) : values[m] = -1 BY ConflictTop
<1> SUFFICES ASSUME reason[Idx(l)].kind = "large"
             PROVE  LET r == reason[Idx(l)].ref IN
                    ~ arena'[r].garbage /\ l \in {arena'[r].lits[1], arena'[r].lits[2]}
  BY DEF Fits, First
<1> PICK r : r = reason[Idx(l)].ref OBVIOUS
<1>3. r \in References BY DEF SearchInv, ReasonsSound, ReasonSound
<1>4. ~ arena[r].garbage /\ l \in First(r) BY DEF Fits
<1>5. r # conflict.ref
  <2> SUFFICES ASSUME r = conflict.ref PROVE FALSE
    OBVIOUS
  <2>1. conflict.ref # 0 BY <1>3 DEF References, SearchInv, ArenaSound
  <2>2. l \in ToSet(arena[r].lits)
    <3>1. 1 \in DOMAIN arena[r].lits /\ 2 \in DOMAIN arena[r].lits
      BY <1>3 DEF SearchInv, ArenaSound
    <3> QED BY <1>4, <3>1 DEF First, ToSet
  <2>3. l \in ToSet(LitsOf(conflict)) BY <1>1, <2>1, <2>2
  <2> QED BY <1>2, <2>3 DEF Forced
<1>6. arena'[r].garbage = arena[r].garbage BY <1>1, <1>3
<1>7. First(r)' = First(r) BY <1>1, <1>3, <1>5
<1> QED BY <1>4, <1>6, <1>7 DEF First

LEMMA ForcedConflictInv ==
    ASSUME SearchInv, AnalyzeConflict, conflict' = NoConflict
    PROVE  SearchInv'
<1>0. /\ Analyzing /\ Reorders
      /\ UNCHANGED <<trailVars, reason, visit, result, formula, resolvent>>
  BY ForcedConflictFacts
<1> PICK lits, top, forced, jump, s, t :
      /\ lits = ToSet(LitsOf(conflict)) /\ top = Max(LevelsOf(lits))
      /\ ForcesNext(conflict.ref, lits, top, forced, jump, s, t)
      /\ todo' = s \o <<t>>
  BY ForcedConflictFacts
<1>1. /\ todo = <<>> /\ Targets = {} /\ resolvent = {} /\ visit = NoVisit
      /\ conflict # NoConflict
      /\ lits \in SUBSET Lit
      /\ top \in 0 .. CurrentLevel
      /\ \A l \in lits : values[l] = -1 /\ LevelOf(l) <= top /\ LevelOf(l) \in Nat
  BY <1>0, ConflictTop
<1>2. /\ top > 0 /\ forced \in lits /\ LevelOf(forced) = top
      /\ \A l \in lits : LevelOf(l) = top => l = forced
      /\ Backs(s) /\ top - 1 \in TargetsOf(s)
      /\ t \in StepType /\ t.op \in {"forceBinary", "forceLarge"}
  BY DEF ForcesNext
<1>3. /\ ArenaSound' /\ WatchListsOK' /\ WatchesSound' /\ References' = References
      /\ \A r \in References : /\ ToSet(arena'[r].lits) = ToSet(arena[r].lits)
                               /\ arena'[r].garbage = arena[r].garbage
                               /\ r # conflict.ref => First(r)' = First(r)
      /\ conflict.ref # 0 =>
           /\ conflict.ref \in References
           /\ ToSet(arena[conflict.ref].lits) = lits
           /\ arena'[conflict.ref].lits[1] \in lits
           /\ LevelOf(arena'[conflict.ref].lits[1]) = top
  BY <1>0, ConflictReordered DEF Reorders
<1>4. CurrentLevel' = CurrentLevel /\ \A l : LevelOf(l)' = LevelOf(l)
  BY <1>0, Unmoved
<1>5. CurrentLevel \in Nat BY DEF SearchInv, TrailInv, TrailTypeOK, CurrentLevel
<1>6. Targets' = TargetsOf(s)
  <2> PICK u : u = <<t>> OBVIOUS
  <2>1. u \in Seq(StepType) /\ DOMAIN u = {1} /\ u[1] = t
    BY <1>2, OneStep
  <2>2. \A i \in DOMAIN u : u[i].op # "backtrack" BY <1>2, <2>1
  <2>3. todo' = s \o u OBVIOUS
  <2> QED BY <1>2, <2>1, <2>2, <2>3, PlanFacts
<1>7. Holds(t)'
  <2>1. conflict.ref # 0 =>
           /\ conflict.ref \in References
           /\ ToSet(arena'[conflict.ref].lits) = lits
           /\ arena'[conflict.ref].garbage = arena[conflict.ref].garbage
           /\ arena'[conflict.ref].lits[1] = forced
           /\ arena'[conflict.ref].lits[1] \in Lit
    BY <1>1, <1>2, <1>3
  <2> QED BY <1>0, <1>3, <1>6, <2>1, ForcedHolds
<1>8. /\ todo' \in Seq(StepType)
      /\ \A i \in DOMAIN todo' : Holds(todo[i])' /\ Placed(i)'
      /\ \A op : op # "backtrack" => ((\E i \in DOMAIN todo' : todo'[i].op = op) <=> t.op = op)
  <2>1. t.op \notin {"backtrack", "subsume"} BY <1>2
  <2> QED BY <1>2, <1>7, <2>1, PlanOne
<1>9. \A i \in DOMAIN todo' : todo'[i].op \notin {"deduce", "failed"}
  <2>1. ~ (\E i \in DOMAIN todo' : todo'[i].op = "deduce") BY <1>2, <1>8
  <2>2. ~ (\E i \in DOMAIN todo' : todo'[i].op = "failed") BY <1>2, <1>8
  <2> QED BY <2>1, <2>2
<1>10. ASSUME NEW l \in Forced, Fits(l) PROVE Fits(l)' BY <1>0, <1>10, ReorderedFits
<1>11. ASSUME NEW l \in Forced, Doomed(l) PROVE Doomed(l)'
  <2>1. PastFrontier(l) BY <1>1, <1>11 DEF Doomed
  <2>2. Frontier = lits BY <1>1 DEF Frontier
  <2>3. LevelOf(l) = CurrentLevel /\ \E m \in lits : LevelOf(m) = CurrentLevel
    BY <2>1, <2>2 DEF PastFrontier
  <2>4. LevelOf(l) = top
    <3> PICK m \in lits : LevelOf(m) = CurrentLevel BY <2>3
    <3>1. CurrentLevel <= top BY <1>1
    <3> QED BY <1>1, <1>5, <2>3, <3>1
  <2>5. top - 1 \in Targets' BY <1>2, <1>6
  <2>6. LevelOf(l)' = top BY <1>4, <2>4
  <2>7. top - 1 < LevelOf(l)'
    <3>1. top \in Nat BY <1>1
    <3>2. top - 1 < top BY <3>1
    <3> QED BY <2>6, <3>2
  <2> QED BY <2>5, <2>7 DEF Doomed
<1>12. \A l \in Forced : Fits(l) \/ Doomed(l) => Fits(l)' \/ Doomed(l)' BY <1>10, <1>11
<1>13. resolvent' = {} BY <1>0, <1>1
<1>14. \A r \in References : r \in References' /\ ToSet(arena'[r].lits) = ToSet(arena[r].lits)
  BY <1>3
<1> QED BY <1>0, <1>1, <1>3, <1>8, <1>9, <1>12, <1>13, <1>14, AnalysisEnds

\* A conflict with several literals of highest level is analyzed.
ResolvesNext(lits, top, s, t) ==
    /\ top > 0
    /\ s = Lower(CurrentLevel, top)
    /\ t = IF top = 1 THEN AnalyzeFailed ELSE Deduce

AnalysisStep(top, t) ==
    /\ t \in StepType /\ t.op \in {"deduce", "failed"} /\ (t.op = "failed" => top = 1)

LEMMA AnalysisStepFacts ==
    ASSUME NEW top, NEW t, t = IF top = 1 THEN AnalyzeFailed ELSE Deduce
    PROVE  AnalysisStep(top, t)
<1>1. AnalyzeFailed.op = "failed" /\ Deduce.op = "deduce" BY DEF AnalyzeFailed, Deduce
<1>2. AnalyzeFailed \in StepType /\ Deduce \in StepType BY StepTypes
<1> QED BY <1>1, <1>2 DEF AnalysisStep

LEMMA ResolvedConflictFacts ==
    ASSUME SearchInv, AnalyzeConflict, conflict' # NoConflict
    PROVE  /\ Analyzing /\ Reorders /\ conflict' = conflict
           /\ UNCHANGED <<trailVars, reason, visit, result, formula>>
           /\ \E lits, top, s, t :
                /\ lits = ToSet(LitsOf(conflict)) /\ top = Max(LevelsOf(lits))
                /\ ResolvesNext(lits, top, s, t)
                /\ resolvent' = AboveRoot(lits)
                /\ todo' = s \o <<t>>
<1>1. Analyzing BY DEF AnalyzeConflict
<1> PICK lits : lits = ToSet(LitsOf(conflict)) OBVIOUS
<1> PICK top : top = Max(LevelsOf(lits)) OBVIOUS
<1> PICK s : s = Lower(CurrentLevel, top) OBVIOUS
<1> PICK t : t = IF top = 1 THEN AnalyzeFailed ELSE Deduce OBVIOUS
<1>2. /\ top > 0 /\ Reorders
      /\ todo' = s \o <<t>>
      /\ resolvent' = AboveRoot(lits)
      /\ conflict' = conflict
      /\ UNCHANGED <<trailVars, reason, visit, result, formula>>
  BY DEF AnalyzeConflict, Reorders, Lower
<1> QED BY <1>1, <1>2 DEF ResolvesNext

LEMMA ResolvedPlan ==
    ASSUME SearchInv, Analyzing, NEW lits, lits = ToSet(LitsOf(conflict)),
           NEW top, top = Max(LevelsOf(lits)), NEW s, NEW t, ResolvesNext(lits, top, s, t),
           todo' = s \o <<t>>, UNCHANGED <<trailVars, formula>>
    PROVE  /\ todo' \in Seq(StepType) /\ \A i \in DOMAIN todo' : Holds(todo[i])' /\ Placed(i)'
           /\ \E i \in DOMAIN todo' : todo'[i].op \in {"deduce", "failed"}
           /\ (\E i \in DOMAIN todo' : todo'[i].op = "failed") => top = 1
           /\ \A l \in lits : Safe(l)'
           /\ top = CurrentLevel \/ top \in Targets'
<1>1. /\ lits \in SUBSET Lit /\ top \in 0 .. CurrentLevel
      /\ \A l \in lits : values[l] = -1 /\ LevelOf(l) <= top /\ LevelOf(l) \in Nat
  BY ConflictTop
<1>2. CurrentLevel \in Nat BY DEF SearchInv, TrailInv, TrailTypeOK, CurrentLevel
<1>3. top > 0 /\ s = Lower(CurrentLevel, top) /\ AnalysisStep(top, t)
  BY AnalysisStepFacts DEF ResolvesNext
<1>4. /\ Backs(s) /\ (top = CurrentLevel \/ top \in TargetsOf(s))
      /\ \A j \in TargetsOf(s) : j \in Nat /\ j >= top
  <2> PICK k \in Nat : k = CurrentLevel BY <1>2
  <2>1. top \in 1 .. k BY <1>1, <1>2, <1>3
  <2>2. s = Lower(k, top) BY <1>3
  <2> QED BY <2>1, <2>2, LowerFacts
<1>5. t \in StepType /\ t.op \in {"deduce", "failed"} /\ (t.op = "failed" => top = 1)
  BY <1>3 DEF AnalysisStep
<1>6. Holds(t)' BY <1>5 DEF Holds
<1>7. /\ todo' \in Seq(StepType) /\ Targets' = TargetsOf(s)
      /\ \A i \in DOMAIN todo' : Holds(todo[i])' /\ Placed(i)'
      /\ \A op : op # "backtrack" => ((\E i \in DOMAIN todo' : todo'[i].op = op) <=> t.op = op)
  <2>1. t.op \notin {"backtrack", "subsume"} BY <1>5
  <2> QED BY <1>4, <1>5, <1>6, <2>1, PlanOne
<1>8. (\E i \in DOMAIN todo' : todo'[i].op = "failed") <=> t.op = "failed" BY <1>7
<1>9. (\E i \in DOMAIN todo' : todo'[i].op = "deduce") <=> t.op = "deduce" BY <1>7
<1>10. \E i \in DOMAIN todo' : todo'[i].op \in {"deduce", "failed"} BY <1>5, <1>8, <1>9
<1>11. ASSUME NEW l \in lits PROVE Safe(l)'
  <2>1. l \in Lit BY <1>1
  <2>2. values[l] = -1 /\ LevelOf(l) \in Nat /\ LevelOf(l) <= top BY <1>1
  <2>3. top \in Nat /\ top <= CurrentLevel BY <1>1, <1>2
  <2>4. LevelOf(l) <= CurrentLevel BY <1>2, <2>2, <2>3
  <2>5. \A k \in Targets' : LevelOf(l) <= k
    <3> SUFFICES ASSUME NEW k \in Targets' PROVE LevelOf(l) <= k
      OBVIOUS
    <3>1. k \in Nat /\ k >= top BY <1>4, <1>7
    <3> QED BY <2>2, <2>3, <3>1
  <2> QED BY <2>1, <2>2, <2>4, <2>5, SafeInPlan
<1>12. top = CurrentLevel \/ top \in Targets' BY <1>4, <1>7
<1> QED BY <1>5, <1>7, <1>8, <1>10, <1>11, <1>12

LEMMA ResolvedConflictInv ==
    ASSUME SearchInv, AnalyzeConflict, conflict' # NoConflict
    PROVE  SearchInv'
<1>0. /\ Analyzing /\ Reorders /\ conflict' = conflict
      /\ UNCHANGED <<trailVars, reason, visit, result, formula>>
  BY ResolvedConflictFacts
<1> PICK lits, top, s, t :
      /\ lits = ToSet(LitsOf(conflict)) /\ top = Max(LevelsOf(lits))
      /\ ResolvesNext(lits, top, s, t)
      /\ resolvent' = AboveRoot(lits)
      /\ todo' = s \o <<t>>
  BY ResolvedConflictFacts
<1>1. /\ todo = <<>> /\ Targets = {} /\ resolvent = {} /\ visit = NoVisit
      /\ conflict # NoConflict
      /\ lits \in SUBSET Lit /\ Follows(lits)
      /\ top \in 0 .. CurrentLevel
      /\ \E l \in lits : LevelOf(l) = top
      /\ \A l \in lits : values[l] = -1 /\ LevelOf(l) <= top /\ LevelOf(l) \in Nat
  BY <1>0, ConflictTop
<1>2. top > 0 BY DEF ResolvesNext
<1>3. /\ ArenaSound' /\ WatchListsOK' /\ WatchesSound' /\ References' = References
      /\ \A r \in References : /\ ToSet(arena'[r].lits) = ToSet(arena[r].lits)
                               /\ arena'[r].garbage = arena[r].garbage
      /\ conflict.ref # 0 =>
           /\ conflict.ref \in References
           /\ ToSet(arena[conflict.ref].lits) = lits
  BY <1>0, ConflictReordered DEF Reorders
<1>4. /\ TrailInv' /\ RootSound' /\ CurrentLevel' = CurrentLevel
      /\ \A l : LevelOf(l)' = LevelOf(l) /\ position'[Idx(l)] = position[Idx(l)]
      /\ \A D : (Follows(D)' <=> Follows(D))
  BY <1>0, Unmoved DEF SearchInv
<1>5. /\ todo' \in Seq(StepType) /\ \A i \in DOMAIN todo' : Holds(todo[i])' /\ Placed(i)'
      /\ \E i \in DOMAIN todo' : todo'[i].op \in {"deduce", "failed"}
      /\ (\E i \in DOMAIN todo' : todo'[i].op = "failed") => top = 1
      /\ \A l \in lits : Safe(l)'
      /\ top = CurrentLevel \/ top \in Targets'
  BY <1>0, ResolvedPlan
<1>6. NoConflict' = NoConflict /\ NoVisit' = NoVisit BY DEF NoConflict, NoVisit, NoDelayed
<1>7. Analysis' BY <1>5 DEF Analysis
<1>8. TodoSound' BY <1>5, <1>7 DEF TodoSound
<1>9. LitsOf(conflict)' = IF conflict.ref = 0 THEN conflict.lits ELSE arena'[conflict.ref].lits
  BY <1>0 DEF LitsOf
<1>10. ToSet(LitsOf(conflict)') = lits
  <2>1. CASE conflict.ref = 0 BY <1>9, <2>1 DEF LitsOf
  <2>2. CASE conflict.ref # 0 BY <1>3, <1>9, <2>2
  <2> QED BY <2>1, <2>2
<1>11. ConflictSound'
  <2>1. \/ conflict.ref \in References /\ ~ arena[conflict.ref].garbage
        \/ conflict.ref = 0 /\ \E a, b \in Lit : a # b /\ conflict.lits = <<a, b>>
    BY <1>1 DEF SearchInv, ConflictSound
  <2>2. \/ conflict'.ref \in References' /\ ~ arena'[conflict'.ref].garbage
        \/ conflict'.ref = 0 /\ \E a, b \in Lit : a # b /\ conflict'.lits = <<a, b>>
    BY <1>0, <1>3, <2>1
  <2>3. Follows(lits)' BY <1>1, <1>4
  <2> QED BY <1>5, <1>10, <2>2, <2>3 DEF ConflictSound
<1>12. ResolventSound'
  <2>1. \A l \in resolvent' : l \in lits /\ LevelOf(l) > 0 BY DEF AboveRoot
  <2>2. PICK l \in lits : LevelOf(l) = top BY <1>1
  <2>3. l \in resolvent' BY <1>2, <2>2 DEF AboveRoot
  <2>4. Follows(resolvent)'
    <3>1. \A m \in lits : LevelOf(m) = 0 => values[m] = -1 BY <1>1
    <3>2. Follows(AboveRoot(lits)) BY <1>1, <3>1, FollowsAboveRoot DEF SearchInv
    <3> PICK D : D = AboveRoot(lits) OBVIOUS
    <3>4. Follows(D)' BY <1>4, <3>2
    <3>5. resolvent' = D OBVIOUS
    <3> QED BY <3>4, <3>5 DEF Follows
  <2>5. \A m \in resolvent' : Safe(m)' /\ LevelOf(m)' > 0 BY <1>4, <1>5, <2>1
  <2>6. \E m \in resolvent' : LevelOf(m)' = CurrentLevel' \/ LevelOf(m)' \in Targets'
    BY <1>4, <1>5, <2>2, <2>3
  <2>7. (\E i \in DOMAIN todo' : todo'[i].op = "failed") => \A m \in resolvent' : LevelOf(m)' = 1
    <3> SUFFICES ASSUME \E i \in DOMAIN todo' : todo'[i].op = "failed", NEW m \in resolvent'
                 PROVE  LevelOf(m)' = 1
      OBVIOUS
    <3>1. top = 1 BY <1>5
    <3>2. LevelOf(m) <= top /\ LevelOf(m) \in Nat /\ LevelOf(m) > 0 BY <1>1, <2>1
    <3>3. LevelOf(m) = 1 BY <3>1, <3>2
    <3> QED BY <1>4, <3>3
  <2>8. resolvent' # {} BY <2>3
  <2>9. conflict' # NoConflict' BY <1>6
  <2> QED BY <1>7, <2>4, <2>5, <2>6, <2>7, <2>8, <2>9 DEF ResolventSound
<1>13. ReasonsSound'
  <2>1. ASSUME NEW l \in Forced, Fits(l) PROVE Fits(l)' BY <1>0, <2>1, ReorderedFits
  <2>2. ASSUME NEW l \in Forced, Doomed(l) PROVE Doomed(l)'
    <3>1. PastFrontier(l) BY <1>1, <2>2 DEF Doomed
    <3>2. Frontier = lits BY <1>1 DEF Frontier
    <3>3. /\ ~ undo.active /\ LevelOf(l) = CurrentLevel
          /\ \E m \in lits : LevelOf(m) = CurrentLevel
          /\ \A m \in lits : LevelOf(m) = CurrentLevel => position[Idx(m)] < position[Idx(l)]
      BY <3>1, <3>2 DEF PastFrontier
    <3>4. CurrentLevel > 0 BY <3>3 DEF Forced
    <3>5. resolvent' # {} /\ \E m \in resolvent' : LevelOf(m) = CurrentLevel
      <4> PICK m \in lits : LevelOf(m) = CurrentLevel BY <3>3
      <4>1. m \in AboveRoot(lits) BY <3>4 DEF AboveRoot
      <4> QED BY <4>1
    <3>6. Frontier' = resolvent' BY <3>5 DEF Frontier
    <3>7. \A m \in resolvent' : LevelOf(m) = CurrentLevel => position[Idx(m)] < position[Idx(l)]
      BY <3>3 DEF AboveRoot
    <3>8. undo' = undo BY <1>0 DEF trailVars
    <3>9. PastFrontier(l)'
      BY <1>4, <1>6, <3>3, <3>5, <3>6, <3>7, <3>8 DEF PastFrontier
    <3> QED BY <3>9 DEF Doomed
  <2> QED BY <1>0, <1>3, <2>1, <2>2, ReasonsKept DEF SearchInv
<1>14. VisitSound'
  <2>1. visit' = NoVisit' BY <1>0, <1>1, <1>6
  <2> QED BY <2>1, NoVisitTyped DEF VisitSound, NoVisit
<1>15. RefutationSound' /\ formula' \in Formulas BY <1>0 DEF SearchInv, RefutationSound
<1> QED BY <1>3, <1>4, <1>8, <1>11, <1>12, <1>13, <1>14, <1>15 DEF SearchInv

LEMMA AnalyzeConflictInv == SearchInv /\ AnalyzeConflict => SearchInv'
BY ForcedConflictInv, ResolvedConflictInv

-----------------------------------------------------------------------------
\* Learning.  A false literal above the root whose reason can be resolved: its
\* negation, or a literal of the antecedent, is in every model.
LEMMA ResolvableFollows ==
    ASSUME SearchInv, ~ undo.active, NEW l \in FalseLits, LevelOf(l) # 0, Resolvable(l)
    PROVE  Follows({-l} \cup Antecedent(-l)) /\ Antecedent(-l) \subseteq Lit
<1>1. l \in Lit /\ values[l] < 0 BY DEF FalseLits
<1>2. /\ -l \in Lit /\ Idx(-l) = Idx(l) /\ values[l] = -1 /\ values[-l] = -values[l]
      /\ LevelOf(-l) = LevelOf(l) /\ LevelOf(l) \in Nat /\ LevelOf(l) <= CurrentLevel
  BY <1>1, Values, FalseBelow DEF SearchInv
<1>3. values[-l] = 1
  <2>1. \A x \in {-1, 0, 1} : \A y \in {-1, 0, 1} : y = -x /\ x = -1 => y = 1
    OBVIOUS
  <2>2. values[l] \in {-1, 0, 1} /\ values[-l] \in {-1, 0, 1}
    BY <1>1, <1>2, Values DEF SearchInv
  <2> QED BY <1>2, <2>1, <2>2
<1>4. -l \in Forced
  <2>1. LevelOf(l) > 0 BY <1>2
  <2> QED BY <1>2, <1>3, <2>1 DEF Forced
<1>5. ReasonSound(-l) BY <1>4 DEF SearchInv, ReasonsSound
<1>6. reason[Idx(-l)].kind # "decision" BY <1>2 DEF Resolvable
<1> PICK m \in Forced : m = -l BY <1>4
<1> QED BY <1>5, <1>6, AntecedentFacts

\* What covers a clause that follows, follows.
LEMMA CoveredFollows ==
    ASSUME SearchInv, ~ undo.active, NEW C, Follows(C), NEW D, C \subseteq Covered(D)
    PROVE  Follows(D)
<1> SUFFICES ASSUME NEW A \in Assignments, Satisfies(A, formula), D \cap A = {} PROVE FALSE
  BY DEF Follows, Entails
<1> DEFINE X == {l \in FalseLits : l \notin A}
<1>1. ClosedCover(X, D)
  <2> SUFFICES ASSUME NEW l \in FalseLits,
                      \/ l \in D \/ LevelOf(l) = 0
                      \/ Resolvable(l) /\ Antecedent(-l) \subseteq X
               PROVE  l \notin A
    BY DEF ClosedCover
  <2>0. l \in Lit BY DEF FalseLits
  <2>1. CASE l \in D BY <2>1
  <2>2. CASE LevelOf(l) = 0
    <3>1. values[l] = -1 BY FalseBelow, <2>0 DEF FalseLits
    <3>2. Follows({-l}) BY <2>0, <2>2, <3>1, RootFalse DEF SearchInv
    <3>3. -l \in A BY <3>2 DEF Follows, Entails
    <3> QED BY <2>0, <3>3 DEF Assignments
  <2>3. CASE LevelOf(l) # 0 /\ Resolvable(l) /\ Antecedent(-l) \subseteq X
    <3>1. Follows({-l} \cup Antecedent(-l)) BY <2>3, ResolvableFollows
    <3>2. ({-l} \cup Antecedent(-l)) \cap A # {} BY <3>1 DEF Follows, Entails
    <3>3. -l \in A BY <2>3, <3>2
    <3> QED BY <2>0, <3>3 DEF Assignments
  <2> QED BY <2>1, <2>2, <2>3
<1>2. X \in SUBSET FalseLits OBVIOUS
<1>3. C \subseteq X
  <2> HIDE DEF X
  <2> QED BY <1>1, <1>2 DEF Covered
<1>4. C \cap A # {} BY DEF Follows, Entails
<1> QED BY <1>3, <1>4

\* The clause to learn: one literal of the current level, the rest below.
Learnt(D) ==
    /\ D \in SUBSET Lit /\ Follows(D)
    /\ \A l \in D : values[l] = -1 /\ LevelOf(l) \in Nat /\ LevelOf(l) <= CurrentLevel
    /\ \E u \in D : /\ LevelOf(u) = CurrentLevel
                    /\ \A l \in D : LevelOf(l) = CurrentLevel => l = u
    /\ CurrentLevel > 0 /\ CurrentLevel \in Nat

LEMMA LearntFacts ==
    ASSUME SearchInv, ~ undo.active, Doing("deduce"), IsAsserting,
           NEW D \in Shrunken(resolvent)
    PROVE  Learnt(D)
<1>1. /\ Follows(resolvent) /\ Current(resolvent) # {}
      /\ \A l \in resolvent : Safe(l) /\ LevelOf(l) > 0
  BY AnalysisFacts
<1>2. PICK u \in Current(resolvent) : \A l \in Current(resolvent) : l = u
  <2>1. resolvent \in SUBSET Lit BY <1>1 DEF Safe
  <2>2. IsFiniteSet(Current(resolvent)) BY <2>1, FiniteLiterals DEF Current
  <2>3. \E u : Current(resolvent) = {u} BY <2>2, FS_Singleton DEF IsAsserting
  <2> QED BY <2>3
<1>3. u \in resolvent /\ LevelOf(u) = CurrentLevel BY <1>2 DEF Current
<1>4. CurrentLevel \in Nat BY DEF SearchInv, TrailInv, TrailTypeOK, CurrentLevel
<1>5. PICK B : /\ D = {l \in resolvent : LevelOf(l) = CurrentLevel} \cup B
               /\ B \in SUBSET BlockCandidates(LevelsOf(resolvent \
                                   {l \in resolvent : LevelOf(l) = CurrentLevel}))
               /\ resolvent \subseteq Covered(D)
  BY DEF Shrunken
<1>6. {l \in resolvent : LevelOf(l) = CurrentLevel} = {u}
  BY <1>2 DEF Current
<1>7. Follows(D) BY <1>1, <1>5, CoveredFollows
<1>8. \A l \in resolvent : l \in Lit /\ values[l] = -1 /\ LevelOf(l) \in Nat /\ LevelOf(l) <= CurrentLevel
  BY <1>1, Values DEF Safe, SearchInv
<1>9. ASSUME NEW l \in B
      PROVE  /\ l \in Lit /\ values[l] = -1 /\ LevelOf(l) \in Nat
             /\ LevelOf(l) < CurrentLevel
  <2>1. l \in FalseLits /\ \E m \in resolvent : LevelOf(m) # CurrentLevel /\ LevelOf(l) = LevelOf(m)
    BY <1>5, <1>9 DEF BlockCandidates, LevelsOf
  <2>2. l \in Lit /\ values[l] < 0 BY <2>1 DEF FalseLits
  <2>3. values[l] = -1 BY <2>2, FalseBelow
  <2>4. PICK m \in resolvent : LevelOf(m) # CurrentLevel /\ LevelOf(l) = LevelOf(m) BY <2>1
  <2>5. LevelOf(m) \in Nat /\ LevelOf(m) <= CurrentLevel BY <1>8
  <2> QED BY <1>4, <2>2, <2>3, <2>4, <2>5
<1>10. D = {u} \cup B BY <1>5, <1>6
<1>11. D \in SUBSET Lit BY <1>3, <1>8, <1>9, <1>10
<1>12. \A l \in D : values[l] = -1 /\ LevelOf(l) \in Nat /\ LevelOf(l) <= CurrentLevel
  BY <1>3, <1>4, <1>8, <1>9, <1>10
<1>13. u \in D /\ \A l \in D : LevelOf(l) = CurrentLevel => l = u
  BY <1>4, <1>9, <1>10
<1>14. CurrentLevel > 0 BY <1>1, <1>3
<1> QED BY <1>3, <1>4, <1>7, <1>11, <1>12, <1>13, <1>14 DEF Learnt

\* Its literals in order: the asserting one first, a highest of the rest next.
JumpOf(lits) == IF Len(lits) = 1 THEN 0 ELSE LevelOf(lits[2])
LearntOrder(lits, D) ==
    /\ IsListing(lits, D)
    /\ Len(lits) > 0 /\ lits \in Seq(Lit)
    /\ JumpOf(lits) \in 0 .. CurrentLevel - 1
    /\ \A m \in D \ {lits[1]} : LevelOf(m) <= JumpOf(lits)

LEMMA LearntOrderFacts ==
    ASSUME SearchInv, NEW D, Learnt(D), NEW lits \in SetToSeqs(D), InOrder(lits)
    PROVE  LearntOrder(lits, D)
<1>1. /\ D \in SUBSET Lit /\ CurrentLevel > 0 /\ CurrentLevel \in Nat
      /\ \A l \in D : LevelOf(l) \in Nat /\ LevelOf(l) <= CurrentLevel
  BY DEF Learnt
<1>2. PICK u \in D : /\ LevelOf(u) = CurrentLevel
                     /\ \A l \in D : LevelOf(l) = CurrentLevel => l = u
  BY DEF Learnt
<1>3. IsListing(lits, D)
  <2>1. IsFiniteSet(D) BY <1>1, FiniteLiterals
  <2> QED BY <2>1, Listings
<1>4. /\ lits \in Seq(D) /\ DOMAIN lits = 1 .. Len(lits) /\ Len(lits) \in Nat
      /\ IsInjective(lits) /\ ToSet(lits) = D
  BY <1>3 DEF IsListing
<1>5. PICK p \in 1 .. Len(lits) : lits[p] = u BY <1>2, <1>4 DEF ToSet
<1>6. Len(lits) > 0 /\ 1 \in 1 .. Len(lits) BY <1>4, <1>5
<1>7. \A i \in 1 .. Len(lits) : lits[i] \in D BY <1>4
<1>8. lits[1] = u
  <2> SUFFICES ASSUME p # 1 PROVE lits[1] = u
    BY <1>5
  <2>1. 1 < p BY <1>4, <1>5
  <2>2. Before(lits[1], lits[p]) BY <1>4, <1>5, <1>6, <2>1 DEF InOrder
  <2>3. LevelOf(lits[1]) >= CurrentLevel BY <1>1, <1>2, <1>5, <1>6, <1>7, <2>2 DEF Before
  <2>4. LevelOf(lits[1]) = CurrentLevel BY <1>1, <1>6, <1>7, <2>3
  <2> QED BY <1>2, <1>6, <1>7, <2>4
<1>9. ASSUME NEW m \in D \ {lits[1]}
      PROVE  Len(lits) # 1 /\ LevelOf(m) <= LevelOf(lits[2])
  <2>1. PICK j \in 1 .. Len(lits) : lits[j] = m BY <1>4 DEF ToSet
  <2>2. j # 1 BY <1>9, <2>1
  <2>3. j >= 2 /\ 2 \in 1 .. Len(lits) BY <1>4, <2>2
  <2>4. CASE j = 2 BY <1>1, <2>1, <2>3, <2>4
  <2>5. CASE j # 2
    <3>1. 2 < j BY <2>3, <2>5
    <3>2. Before(lits[2], lits[j]) BY <1>4, <2>1, <2>3, <3>1 DEF InOrder
    <3>3. LevelOf(lits[2]) \in Nat /\ LevelOf(m) \in Nat BY <1>1, <1>7, <2>3
    <3> QED BY <2>1, <2>3, <3>2, <3>3 DEF Before
  <2> QED BY <2>3, <2>4, <2>5
<1>10. JumpOf(lits) \in 0 .. CurrentLevel - 1
  <2>1. CASE Len(lits) = 1 BY <1>1, <2>1 DEF JumpOf
  <2>2. CASE Len(lits) # 1
    <3>1. 2 \in 1 .. Len(lits) BY <1>4, <1>6, <2>2
    <3>2. lits[2] \in D /\ lits[2] # lits[1] BY <1>4, <1>6, <1>7, <3>1 DEF IsInjective
    <3>3. LevelOf(lits[2]) # CurrentLevel BY <1>2, <1>8, <3>2
    <3>4. LevelOf(lits[2]) \in Nat /\ LevelOf(lits[2]) <= CurrentLevel BY <1>1, <3>2
    <3>5. LevelOf(lits[2]) \in 0 .. CurrentLevel - 1 BY <1>1, <3>3, <3>4
    <3> QED BY <2>2, <3>5 DEF JumpOf
  <2> QED BY <2>1, <2>2
<1>11. \A m \in D \ {lits[1]} : LevelOf(m) <= JumpOf(lits) BY <1>9 DEF JumpOf
<1>12. lits \in Seq(Lit) BY <1>1, <1>4
<1> QED BY <1>3, <1>6, <1>10, <1>11, <1>12 DEF LearntOrder

\* The backtracks and then the steps that learn a clause.
LearnSteps(u) ==
    /\ u \in Seq(StepType) /\ Len(u) \in Nat /\ Len(u) > 1 /\ DOMAIN u = 1 .. Len(u)
    /\ \A i \in 1 .. Len(u) : u[i].op \notin {"backtrack", "deduce", "failed"}
    /\ \A i \in 1 .. Len(u) : i # Len(u) => u[i].op # "subsume"
    /\ u[Len(u)].op = "subsume" /\ Forces(u[Len(u) - 1], u[Len(u)])

LEMMA PlanLearn ==
    ASSUME NEW s, Backs(s), NEW u, LearnSteps(u), todo' = s \o u,
           \A i \in 1 .. Len(u) : Holds(u[i])'
    PROVE  /\ todo' \in Seq(StepType)
           /\ \A i \in DOMAIN todo' : Holds(todo[i])' /\ Placed(i)'
           /\ \A i \in DOMAIN todo' : todo'[i].op \notin {"deduce", "failed"}
<1>1. /\ u \in Seq(StepType) /\ Len(u) \in Nat /\ Len(u) > 1 /\ DOMAIN u = 1 .. Len(u)
      /\ \A i \in 1 .. Len(u) : u[i].op \notin {"backtrack", "deduce", "failed"}
      /\ \A i \in 1 .. Len(u) : i # Len(u) => u[i].op # "subsume"
      /\ u[Len(u)].op = "subsume" /\ Forces(u[Len(u) - 1], u[Len(u)])
  BY DEF LearnSteps
<1>2. /\ todo' \in Seq(StepType) /\ Len(s) \in Nat
      /\ Len(todo') = Len(s) + Len(u)
      /\ DOMAIN todo' = 1 .. Len(s) + Len(u)
      /\ \A i \in 1 .. Len(s) : todo'[i].op = "backtrack"
      /\ \A j \in 1 .. Len(u) : todo'[Len(s) + j] = u[j]
      /\ \A i \in DOMAIN todo' : i \in 1 .. Len(s) \/ \E j \in 1 .. Len(u) : i = Len(s) + j
  <2>1. \A i \in DOMAIN u : u[i].op # "backtrack" BY <1>1
  <2> QED BY <1>1, <2>1, PlanFacts, ZenonT(60)
<1>3. ASSUME NEW i \in DOMAIN todo'
      PROVE  Holds(todo[i])' /\ Placed(i)' /\ todo'[i].op \notin {"deduce", "failed"}
  <2>1. CASE i \in 1 .. Len(s)
    <3>1. todo'[i].op = "backtrack" BY <1>2, <2>1
    <3> QED BY <3>1 DEF Holds, Placed
  <2>2. ASSUME NEW j \in 1 .. Len(u), i = Len(s) + j
        PROVE  Holds(todo[i])' /\ Placed(i)' /\ todo'[i].op \notin {"deduce", "failed"}
    <3>1. todo'[i] = u[j] BY <1>2, <2>2
    <3>2. Holds(todo[i])' BY <3>1
    <3>3. u[j].op \notin {"deduce", "failed"} BY <1>1
    <3>4. Placed(i)'
      <4>1. CASE j # Len(u)
        <5>1. u[j].op # "subsume" BY <1>1, <4>1
        <5> QED BY <3>1, <3>3, <5>1 DEF Placed
      <4>2. CASE j = Len(u)
        <5> PICK a \in Nat : a = Len(s) BY <1>2
        <5> PICK b \in Nat : b = Len(u) BY <1>1
        <5>0. b > 1 /\ i = a + b BY <1>1, <2>2, <4>2
        <5>1. i = Len(todo') /\ i # 1
          <6>1. Len(todo') = a + b BY <1>2
          <6>2. a + b # 1 BY <5>0
          <6> QED BY <5>0, <6>1, <6>2
        <5>2. Len(u) - 1 \in 1 .. Len(u) /\ i - 1 = Len(s) + (Len(u) - 1)
          <6>1. b - 1 \in 1 .. b /\ (a + b) - 1 = a + (b - 1) BY <5>0
          <6> QED BY <5>0, <6>1
        <5>3. todo'[i - 1] = u[Len(u) - 1] BY <1>2, <5>2
        <5>4. Forces(todo'[i - 1], todo'[i]) BY <1>1, <3>1, <4>2, <5>3
        <5> QED BY <3>1, <3>3, <5>1, <5>4 DEF Placed
      <4> QED BY <4>1, <4>2
    <3> QED BY <3>1, <3>2, <3>3, <3>4
  <2> QED BY <1>2, <2>1, <2>2
<1> QED BY <1>2, <1>3

\* The backtracks before a learned clause.
LearnBack(s, lits) ==
    /\ Backs(s) /\ CurrentLevel - 1 \in TargetsOf(s)
    /\ \A j \in TargetsOf(s) : j \in Nat /\ JumpOf(lits) <= j

LEMMA LearnBackFacts ==
    ASSUME SearchInv, NEW D, Learnt(D), NEW lits, LearntOrder(lits, D),
           NEW s, s = AfterConflict(CurrentLevel, NewLevel(CurrentLevel, JumpOf(lits)))
    PROVE  LearnBack(s, lits)
<1>1. CurrentLevel \in Nat /\ CurrentLevel > 0 BY DEF Learnt
<1> PICK k \in Nat : k = CurrentLevel BY <1>1
<1> PICK jump \in 0 .. k - 1 : jump = JumpOf(lits) BY DEF LearntOrder
<1> PICK new : new = NewLevel(k, jump) OBVIOUS
<1>2. new \in Nat /\ jump <= new BY <1>1 DEF NewLevel
<1>3. s = AfterConflict(k, new) OBVIOUS
<1>4. Backs(s) /\ TargetsOf(s) = {k - 1, new} BY <1>1, <1>2, <1>3, BacksFacts
<1>5. k - 1 \in Nat /\ jump <= k - 1 BY <1>1
<1>6. \A j \in TargetsOf(s) : j \in Nat /\ jump <= j BY <1>2, <1>4, <1>5
<1> QED BY <1>4, <1>6 DEF LearnBack

LEMMA LearnSafe ==
    ASSUME SearchInv, NEW D, Learnt(D), NEW lits, LearntOrder(lits, D),
           NEW s, LearnBack(s, lits), Targets' = TargetsOf(s), UNCHANGED <<trailVars, formula>>,
           NEW m \in D, m # lits[1]
    PROVE  Safe(m)'
<1>1. /\ m \in Lit /\ values[m] = -1 /\ LevelOf(m) \in Nat /\ LevelOf(m) <= CurrentLevel
  BY DEF Learnt
<1>2. LevelOf(m) <= JumpOf(lits) /\ JumpOf(lits) \in Nat BY DEF LearntOrder
<1>3. \A k \in Targets' : LevelOf(m) <= k
  <2> SUFFICES ASSUME NEW k \in Targets' PROVE LevelOf(m) <= k
    OBVIOUS
  <2>1. k \in Nat /\ JumpOf(lits) <= k BY DEF LearnBack
  <2> QED BY <1>1, <1>2, <2>1
<1> QED BY <1>1, <1>3, SafeInPlan

LEMMA LearnEnds ==
    ASSUME SearchInv, ~ undo.active, Doing("deduce"), conflict' = NoConflict, resolvent' = {},
           UNCHANGED <<trailVars, reason, visit, result, formula>>,
           ArenaSound', WatchListsOK', WatchesSound',
           \A r \in References : r \in References' /\ arena'[r] = arena[r],
           NEW s, NEW lits, LearnBack(s, lits), NEW u, LearnSteps(u), todo' = s \o u,
           Targets' = TargetsOf(s),
           \A i \in 1 .. Len(u) : Holds(u[i])'
    PROVE  SearchInv'
<1>1. visit = NoVisit
  <2>1. todo # <<>> BY AnalysisFacts
  <2> QED BY <2>1, HandlerIdle
<1>2. /\ todo' \in Seq(StepType)
      /\ \A i \in DOMAIN todo' : Holds(todo[i])' /\ Placed(i)'
      /\ \A i \in DOMAIN todo' : todo'[i].op \notin {"deduce", "failed"}
  BY PlanLearn DEF LearnBack
<1>3. ASSUME NEW l \in Forced, Fits(l) PROVE Fits(l)'
  <2> SUFFICES ASSUME reason[Idx(l)].kind = "large"
               PROVE  LET r == reason[Idx(l)].ref IN
                      ~ arena'[r].garbage /\ l \in {arena'[r].lits[1], arena'[r].lits[2]}
    BY DEF Fits, First
  <2> PICK r : r = reason[Idx(l)].ref OBVIOUS
  <2>1. r \in References BY DEF SearchInv, ReasonsSound, ReasonSound
  <2>2. ~ arena[r].garbage /\ l \in First(r) BY <1>3 DEF Fits
  <2>3. arena'[r] = arena[r] BY <2>1
  <2> QED BY <2>2, <2>3 DEF First
<1>4. ASSUME NEW l \in Forced, Doomed(l) PROVE Doomed(l)'
  <2>1. Targets = {} BY AnalysisFacts
  <2>2. LevelOf(l) = CurrentLevel BY <1>4, <2>1 DEF Doomed, PastFrontier
  <2>3. CurrentLevel \in Nat BY DEF SearchInv, TrailInv, TrailTypeOK, CurrentLevel
  <2>4. CurrentLevel - 1 \in Targets' BY DEF LearnBack
  <2>5. LevelOf(l)' = LevelOf(l) BY Unmoved
  <2>6. CurrentLevel - 1 < LevelOf(l)' BY <2>2, <2>3, <2>5
  <2> QED BY <2>4, <2>6 DEF Doomed
<1>5. \A l \in Forced : Fits(l) \/ Doomed(l) => Fits(l)' \/ Doomed(l)' BY <1>3, <1>4
<1>6. \A r \in References : r \in References' /\ ToSet(arena'[r].lits) = ToSet(arena[r].lits)
  OBVIOUS
<1> QED BY <1>1, <1>2, <1>5, <1>6, AnalysisEnds

\* The steps that learn a clause.
LEMMA UnitFields ==
    ASSUME NEW lit \in Lit, NEW t, t = LearnedUnit(lit)
    PROVE  t \in StepType /\ t.op = "unit" /\ t.lit = lit
<1>1. LearnedUnit(lit) \in StepType BY StepTypes
<1>2. t.op = "unit" /\ t.lit = lit BY DEF LearnedUnit
<1> QED BY <1>1, <1>2

LEMMA NewBinaryFields ==
    ASSUME NEW lit \in Lit, NEW other \in Lit, NEW t, t = WatchBinary(lit, other)
    PROVE  t \in StepType /\ t.op = "newBinary" /\ t.lit = lit /\ t.other = other
<1>1. WatchBinary(lit, other) \in StepType BY StepTypes
<1>2. t.op = "newBinary" BY DEF WatchBinary
<1>3. t.lit = lit /\ t.other = other BY DEF WatchBinary
<1> QED BY <1>1, <1>2, <1>3

LEMMA SubsumeFields ==
    ASSUME NEW D \in SUBSET Lit, NEW ref \in Nat, NEW t, t = Subsume(D, ref)
    PROVE  t \in StepType /\ t.op = "subsume" /\ t.clause = D /\ t.ref = ref
<1>1. Subsume(D, ref) \in StepType BY StepTypes
<1>2. t.op = "subsume" BY DEF Subsume
<1>3. t.clause = D /\ t.ref = ref BY DEF Subsume
<1> QED BY <1>1, <1>2, <1>3

LEMMA Tuples ==
    /\ \A a, b \in StepType : /\ <<a, b>> \in Seq(StepType) /\ Len(<<a, b>>) = 2
                              /\ <<a, b>>[1] = a /\ <<a, b>>[2] = b
    /\ \A a, b, c \in StepType : /\ <<a, b, c>> \in Seq(StepType) /\ Len(<<a, b, c>>) = 3
                                 /\ <<a, b, c>>[1] = a /\ <<a, b, c>>[2] = b /\ <<a, b, c>>[3] = c
OBVIOUS

LEMMA TwoSteps ==
    ASSUME NEW u \in Seq(StepType), Len(u) = 2, u[2].op = "subsume", Forces(u[1], u[2])
    PROVE  LearnSteps(u)
<1>1. Len(u) - 1 = 1 /\ DOMAIN u = 1 .. 2 /\ Len(u) \in Nat /\ Len(u) > 1 OBVIOUS
<1>2. \A i \in 1 .. 2 : i = 1 \/ i = 2 OBVIOUS
<1>3. u[1].op \notin {"backtrack", "deduce", "failed", "subsume"} BY DEF Forces
<1> QED BY <1>1, <1>2, <1>3 DEF LearnSteps

LEMMA ThreeSteps ==
    ASSUME NEW u \in Seq(StepType), Len(u) = 3, u[1].op = "newBinary", u[3].op = "subsume",
           Forces(u[2], u[3])
    PROVE  LearnSteps(u)
<1>1. Len(u) - 1 = 2 /\ DOMAIN u = 1 .. 3 /\ Len(u) \in Nat /\ Len(u) > 1 OBVIOUS
<1>2. \A i \in 1 .. 3 : i = 1 \/ i = 2 \/ i = 3 OBVIOUS
<1>3. u[2].op \notin {"backtrack", "deduce", "failed", "subsume"} BY DEF Forces
<1> QED BY <1>1, <1>2, <1>3 DEF LearnSteps

LEMMA AppendFacts ==
    ASSUME NEW S, NEW s \in Seq(S), NEW c \in S
    PROVE  /\ Append(s, c) \in Seq(S) /\ Len(Append(s, c)) = Len(s) + 1
           /\ Append(s, c)[Len(s) + 1] = c
           /\ \A r \in 1 .. Len(s) : Append(s, c)[r] = s[r]
OBVIOUS

\* A new clause in the arena, and its watches.
LEMMA LearnedClause ==
    ASSUME SearchInv, todo # <<>>, NEW D, Learnt(D), NEW lits, LearntOrder(lits, D),
           Len(lits) > 2, NEW ref, ref = Len(arena) + 1,
           arena' = Append(arena, NewClause(lits, TRUE)), watches' = Watched(watches, lits, ref),
           UNCHANGED <<formula, visit>>
    PROVE  /\ ArenaSound' /\ WatchListsOK' /\ WatchesSound'
           /\ \A r \in References : r \in References' /\ arena'[r] = arena[r]
           /\ ref \in Nat /\ ref \in References' /\ arena'[ref].lits = lits /\ ~ arena'[ref].garbage
<1>1. /\ arena \in Seq(ClauseType)
      /\ \A r \in References :
           /\ arena[r].lits \in Seq(Lit)
           /\ Len(arena[r].lits) > 2
           /\ IsInjective(arena[r].lits)
           /\ Follows(ToSet(arena[r].lits))
  BY DEF SearchInv, ArenaSound
<1>2. /\ lits \in Seq(Lit) /\ IsInjective(lits) /\ ToSet(lits) = D /\ Len(lits) \in Nat
      /\ DOMAIN lits = 1 .. Len(lits)
  BY DEF LearntOrder, IsListing
<1>3. Follows(D) BY DEF Learnt
<1> PICK c : c = NewClause(lits, TRUE) OBVIOUS
<1>4. c \in ClauseType /\ c.lits = lits /\ ~ c.garbage BY <1>2 DEF NewClause, ClauseType
<1>5. Len(arena) \in Nat /\ References = 1 .. Len(arena) BY <1>1 DEF References
<1>6. /\ arena' \in Seq(ClauseType) /\ Len(arena') = ref /\ arena'[ref] = c
      /\ \A r \in 1 .. Len(arena) : arena'[r] = arena[r]
  <2>1. arena' = Append(arena, c) OBVIOUS
  <2>2. /\ Append(arena, c) \in Seq(ClauseType) /\ Len(Append(arena, c)) = Len(arena) + 1
        /\ Append(arena, c)[Len(arena) + 1] = c
        /\ \A r \in 1 .. Len(arena) : Append(arena, c)[r] = arena[r]
    <3>1. arena \in Seq(ClauseType) /\ c \in ClauseType BY <1>1, <1>4
    <3> HIDE <1>1, <1>2, <1>3, <1>4, <1>5
    <3> PICK a0 \in Seq(ClauseType) : a0 = arena BY <3>1
    <3>2. /\ Append(a0, c) \in Seq(ClauseType) /\ Len(Append(a0, c)) = Len(a0) + 1
          /\ Append(a0, c)[Len(a0) + 1] = c
      BY <3>1, AppendFacts
    <3>3. \A r \in 1 .. Len(a0) : Append(a0, c)[r] = a0[r]
      BY <3>1, AppendFacts
    <3> QED BY <3>2, <3>3
  <2> QED BY <2>1, <2>2
<1>7. References' = 1 .. ref /\ ref \in Nat BY <1>5, <1>6 DEF References
<1>8. \A r \in References : r \in References' /\ arena'[r] = arena[r] BY <1>5, <1>6, <1>7
<1>9. ref \in References' /\ ref \notin References BY <1>5, <1>7
<1>10. \A r \in References' : r \in References \/ r = ref BY <1>5, <1>7
<1>11. ArenaSound'
  <2>1. ASSUME NEW r \in References'
        PROVE  /\ arena'[r].lits \in Seq(Lit)
               /\ Len(arena'[r].lits) > 2
               /\ IsInjective(arena'[r].lits)
               /\ Follows(ToSet(arena[r].lits))'
    <3>1. CASE r \in References
      <4>1. arena'[r] = arena[r] BY <1>8, <3>1
      <4>2. Follows(ToSet(arena[r].lits)) BY <1>1, <3>1
      <4>3. Follows(ToSet(arena[r].lits))' BY <4>1, <4>2 DEF Follows
      <4> QED BY <1>1, <3>1, <4>1, <4>3
    <3>2. CASE r = ref
      <4>1. arena'[r].lits = lits BY <1>4, <1>6, <3>2
      <4>2. Follows(ToSet(lits)) BY <1>2, <1>3
      <4>3. Follows(ToSet(arena[r].lits))' BY <4>1, <4>2 DEF Follows
      <4> QED BY <1>2, <4>1, <4>3
    <3> QED BY <1>10, <3>1, <3>2
  <2> QED BY <1>6, <2>1 DEF ArenaSound
<1>12. visit = NoVisit /\ watches \in Lists /\ HandsSound(formula, Firsts, watches)
  BY HandlerIdle DEF SearchInv, WatchesSound
<1> PICK a, b : a = lits[1] /\ b = lits[2] OBVIOUS
<1>13. a \in Lit /\ b \in Lit /\ a # b /\ Len(lits) >= 2
  <2>1. 1 \in 1 .. Len(lits) /\ 2 \in 1 .. Len(lits) BY <1>2
  <2> QED BY <1>2, <2>1 DEF IsInjective
<1>14. /\ watches' \in Lists
       /\ \A l \in Lit : l \notin {a, b} => watches'[l] = watches[l]
       /\ NewWatch(a, ref) \in WatchType /\ NewWatch(b, ref) \in WatchType
       /\ watches'[a] = Append(watches[a], NewWatch(b, ref))
       /\ watches'[b] = Append(watches[b], NewWatch(a, ref))
  <2>1. Len(lits) >= 2 /\ lits[1] # lits[2] /\ ref \in Nat /\ watches \in Lists /\ lits \in Seq(Lit)
    BY <1>2, <1>7, <1>12, <1>13
  <2>2. /\ watches' \in Lists
        /\ \A l \in Lit : l \notin {lits[1], lits[2]} => watches'[l] = watches[l]
        /\ NewWatch(lits[1], ref) \in WatchType /\ NewWatch(lits[2], ref) \in WatchType
        /\ watches'[lits[1]] = Append(watches[lits[1]], NewWatch(lits[2], ref))
        /\ watches'[lits[2]] = Append(watches[lits[2]], NewWatch(lits[1], ref))
    BY <2>1, WatchedFacts, ZenonT(60)
  <2> QED BY <2>2
<1>15. \A m : ~ NewWatch(m, ref).binary /\ NewWatch(m, ref).ref = ref
  BY <1>5, <1>7 DEF NewWatch, LargeWatch
<1> PICK E : E = Firsts' OBVIOUS
<1>16. /\ \A r \in References : r \in DOMAIN E /\ E[r] = Firsts[r]
       /\ ref \in DOMAIN E /\ E[ref] = {a, b}
  BY <1>4, <1>6, <1>8, <1>9 DEF Firsts, First
<1>17. HandsSound(formula, E, watches)
  <2>1. DOMAIN Firsts = References BY DEF Firsts
  <2> QED BY <1>12, <1>16, <2>1, HandsSame
<1>18. \A l \in Lit : \A i \in DOMAIN watches[l] : ~ Watches(watches[l][i], ref)
  <2> TAKE l \in Lit
  <2> TAKE i \in DOMAIN watches[l]
  <2>1. WatchOK(formula, Firsts, l, watches[l][i]) BY <1>12 DEF HandsSound
  <2>2. ~ watches[l][i].binary => watches[l][i].ref \in References BY <2>1 DEF WatchOK, Firsts
  <2> QED BY <1>9, <2>2 DEF Watches
<1>19. HandsSound(formula, E, watches')
  <2>1. \A l \in Lit : watches[l] \in Seq(WatchType) BY <1>12 DEF Lists
  <2>2. /\ WatchOK(formula, E, a, NewWatch(b, ref))
        /\ WatchOK(formula, E, b, NewWatch(a, ref))
    BY <1>15, <1>16 DEF WatchOK
  <2>3. \A l \in Lit : watches'[l] # watches[l] =>
             \E w \in WatchType : /\ watches'[l] = Append(watches[l], w)
                                  /\ WatchOK(formula, E, l, w)
                                  /\ w.ref = ref
    BY <1>13, <1>14, <1>15, <2>2
  <2>4. \A l \in Lit :
          watches'[l] # watches[l] =>
             \E w \in WatchType : /\ watches'[l] = Append(watches[l], w)
                                  /\ WatchOK(formula, E, l, w)
                                  /\ w.binary \/ \A i \in DOMAIN watches[l] : ~ Watches(watches[l][i], w.ref)
    BY <1>18, <2>3
  <2> QED BY <1>17, <2>1, <2>4, HandsMore
<1>20. HandsOf(watches', visit') = watches'
  <2>1. visit' = NoVisit BY <1>12
  <2> QED BY <1>14, <2>1, HandsIdle
<1>21. WatchesSound'
  <2>1. HandsSound(formula', Firsts', HandsOf(watches', visit')) BY <1>19, <1>20
  <2> QED BY <2>1 DEF WatchesSound
<1>22. WatchListsOK' BY <1>12, <1>14, NoVisitTyped DEF WatchListsOK
<1> QED BY <1>4, <1>6, <1>7, <1>8, <1>9, <1>11, <1>21, <1>22

LearnContext(D, lits, s) == Learnt(D) /\ LearntOrder(lits, D) /\ LearnBack(s, lits)

LearnRest ==
    /\ Doing("deduce") /\ ~ undo.active /\ conflict' = NoConflict /\ resolvent' = {}
    /\ UNCHANGED <<trailVars, reason, visit, result, formula>>

\* The backtracks of the plan, and the last step.
LEMMA LearnTargets ==
    ASSUME NEW s, NEW lits, LearnBack(s, lits), NEW u, LearnSteps(u), todo' = s \o u
    PROVE  Targets' = TargetsOf(s)
<1>1. Backs(s) BY DEF LearnBack
<1>2. u \in Seq(StepType) /\ DOMAIN u = 1 .. Len(u) BY DEF LearnSteps
<1>3. \A i \in DOMAIN u : u[i].op # "backtrack" BY <1>2 DEF LearnSteps
<1> QED BY <1>1, <1>2, <1>3, PlanFacts

LEMMA SubsumeHolds ==
    ASSUME NEW t, t.op = "subsume",
           t.ref \in References' => Len(arena'[t.ref].lits) = Cardinality(t.clause)
    PROVE  Holds(t)'
BY DEF Holds

LEMMA ClausesSame ==
    ASSUME SearchInv, UNCHANGED <<arena, watches, visit, formula>>
    PROVE  /\ ArenaSound' /\ WatchListsOK' /\ WatchesSound'
           /\ \A r \in References : r \in References' /\ arena'[r] = arena[r]
           /\ 0 \notin References'
<1>1. References' = References /\ Firsts' = Firsts BY DEF References, Firsts, First
<1>2. \A D : Follows(D)' <=> Follows(D) BY DEF Follows
<1>3. ArenaSound' BY <1>1, <1>2 DEF SearchInv, ArenaSound
<1>4. WatchListsOK' BY DEF SearchInv, WatchListsOK
<1>5. WatchesSound'
  <2>1. HandsSound(formula, Firsts, HandsOf(watches, visit)) BY DEF SearchInv, WatchesSound
  <2>2. HandsOf(watches', visit') = HandsOf(watches, visit) OBVIOUS
  <2>3. HandsSound(formula', Firsts', HandsOf(watches', visit')) BY <1>1, <2>1, <2>2
  <2> QED BY <2>3 DEF WatchesSound
<1>6. 0 \notin References BY DEF SearchInv, ArenaSound, References
<1> QED BY <1>1, <1>3, <1>4, <1>5, <1>6

LEMMA LearnUnitInv ==
    ASSUME SearchInv, NEW D, NEW lits, NEW s, LearnContext(D, lits, s), LearnRest,
           Len(lits) = 1, todo' = s \o <<LearnedUnit(lits[1]), Subsume(D, 0)>>,
           UNCHANGED <<arena, watches>>
    PROVE  SearchInv'
<1>1. Learnt(D) /\ LearntOrder(lits, D) /\ LearnBack(s, lits) BY DEF LearnContext
<1>2. /\ D \in SUBSET Lit /\ Follows(D) /\ ToSet(lits) = D /\ DOMAIN lits = 1 .. Len(lits)
      /\ lits \in Seq(Lit)
  BY <1>1 DEF Learnt, LearntOrder, IsListing
<1> PICK l : l = lits[1] OBVIOUS
<1>3. l \in Lit /\ D = {l}
  <2>1. DOMAIN lits = {1} BY <1>2
  <2> QED BY <1>2, <2>1 DEF ToSet
<1> PICK a : a = LearnedUnit(l) OBVIOUS
<1> PICK b : b = Subsume(D, 0) OBVIOUS
<1> PICK u : u = <<a, b>> OBVIOUS
<1>4. a \in StepType /\ a.op = "unit" /\ a.lit = l BY <1>3, UnitFields
<1>5. b \in StepType /\ b.op = "subsume" /\ b.clause = D /\ b.ref = 0
  <2>1. 0 \in Nat OBVIOUS
  <2> QED BY <1>2, <2>1, SubsumeFields
<1>6. u \in Seq(StepType) /\ Len(u) = 2 /\ u[1] = a /\ u[2] = b BY <1>4, <1>5, Tuples
<1>7. LearnSteps(u)
  <2>1. Forces(a, b) BY <1>3, <1>4, <1>5 DEF Forces
  <2> QED BY <1>5, <1>6, <2>1, TwoSteps
<1>8. todo' = s \o u OBVIOUS
<1>9. Targets' = TargetsOf(s) BY <1>1, <1>7, <1>8, LearnTargets
<1>10. UNCHANGED <<arena, watches, visit, formula>> BY DEF LearnRest
<1>11. /\ ArenaSound' /\ WatchListsOK' /\ WatchesSound'
       /\ \A r \in References : r \in References' /\ arena'[r] = arena[r]
       /\ 0 \notin References'
  BY <1>10, ClausesSame
<1>12. Holds(a)'
  <2>1. Follows({l})' BY <1>2, <1>3, <1>10 DEF Follows
  <2> QED BY <1>4, <2>1 DEF Holds
<1>13. Holds(b)' BY <1>5, <1>11, SubsumeHolds
<1>14. \A i \in 1 .. Len(u) : Holds(u[i])'
  <2> TAKE i \in 1 .. Len(u)
  <2>1. i = 1 \/ i = 2 BY <1>6
  <2>2. CASE i = 1 BY <1>6, <1>12, <2>2
  <2>3. CASE i = 2 BY <1>6, <1>13, <2>3
  <2> QED BY <2>1, <2>2, <2>3
<1> QED BY <1>1, <1>7, <1>8, <1>9, <1>11, <1>14, LearnEnds DEF LearnRest

LEMMA LearnBinaryInv ==
    ASSUME SearchInv, NEW D, NEW lits, NEW s, LearnContext(D, lits, s), LearnRest,
           Len(lits) = 2,
           todo' = s \o <<WatchBinary(lits[1], lits[2]), ForceBinary(lits[1], lits[2]),
                          Subsume(D, 0)>>,
           UNCHANGED <<arena, watches>>
    PROVE  SearchInv'
<1>1. Learnt(D) /\ LearntOrder(lits, D) /\ LearnBack(s, lits) BY DEF LearnContext
<1>2. /\ D \in SUBSET Lit /\ Follows(D) /\ ToSet(lits) = D /\ DOMAIN lits = 1 .. Len(lits)
      /\ lits \in Seq(Lit) /\ IsInjective(lits)
  BY <1>1 DEF Learnt, LearntOrder, IsListing
<1> PICK l, m : l = lits[1] /\ m = lits[2] OBVIOUS
<1>3. l \in Lit /\ m \in Lit /\ l # m /\ D = {l, m}
  <2>1. DOMAIN lits = {1, 2} BY <1>2
  <2> QED BY <1>2, <2>1 DEF ToSet, IsInjective
<1> PICK a : a = WatchBinary(l, m) OBVIOUS
<1> PICK b : b = ForceBinary(l, m) OBVIOUS
<1> PICK c : c = Subsume(D, 0) OBVIOUS
<1> PICK u : u = <<a, b, c>> OBVIOUS
<1>4. a \in StepType /\ a.op = "newBinary" /\ a.lit = l /\ a.other = m BY <1>3, NewBinaryFields
<1>5. b \in StepType /\ b.op = "forceBinary" /\ b.lit = l /\ b.other = m
  <2>1. ForceBinary(l, m) \in StepType BY <1>3, StepTypes
  <2> QED BY <2>1, BinaryFields
<1>6. c \in StepType /\ c.op = "subsume" /\ c.clause = D /\ c.ref = 0
  <2>1. 0 \in Nat OBVIOUS
  <2> QED BY <1>2, <2>1, SubsumeFields
<1>7. u \in Seq(StepType) /\ Len(u) = 3 /\ u[1] = a /\ u[2] = b /\ u[3] = c
  BY <1>4, <1>5, <1>6, Tuples
<1>8. LearnSteps(u)
  <2>1. Forces(b, c) BY <1>3, <1>5, <1>6 DEF Forces
  <2> QED BY <1>4, <1>6, <1>7, <2>1, ThreeSteps
<1>9. todo' = s \o u OBVIOUS
<1>10. Targets' = TargetsOf(s) BY <1>1, <1>8, <1>9, LearnTargets
<1>11. UNCHANGED <<arena, watches, visit, formula, trailVars>> BY DEF LearnRest
<1>12. /\ ArenaSound' /\ WatchListsOK' /\ WatchesSound'
       /\ \A r \in References : r \in References' /\ arena'[r] = arena[r]
       /\ 0 \notin References'
  BY <1>11, ClausesSame
<1>13. Follows({l, m})' BY <1>2, <1>3, <1>11 DEF Follows
<1>14. Holds(a)' BY <1>3, <1>4, <1>13 DEF Holds
<1>15. Safe(m)' BY <1>1, <1>3, <1>10, <1>11, LearnSafe
<1>16. Holds(b)' BY <1>3, <1>5, <1>13, <1>15 DEF Holds
<1>17. Holds(c)' BY <1>6, <1>12, SubsumeHolds
<1>18. \A i \in 1 .. Len(u) : Holds(u[i])'
  <2> TAKE i \in 1 .. Len(u)
  <2>1. i = 1 \/ i = 2 \/ i = 3 BY <1>7
  <2>2. CASE i = 1 BY <1>7, <1>14, <2>2
  <2>3. CASE i = 2 BY <1>7, <1>16, <2>3
  <2>4. CASE i = 3 BY <1>7, <1>17, <2>4
  <2> QED BY <2>1, <2>2, <2>3, <2>4
<1> QED BY <1>1, <1>8, <1>9, <1>10, <1>12, <1>18, LearnEnds DEF LearnRest

LEMMA LearnLargeInv ==
    ASSUME SearchInv, NEW D, NEW lits, NEW s, LearnContext(D, lits, s), LearnRest,
           Len(lits) > 2, NEW ref, ref = Len(arena) + 1,
           arena' = Append(arena, NewClause(lits, TRUE)), watches' = Watched(watches, lits, ref),
           todo' = s \o <<ForceLarge(lits[1], ref), Subsume(D, ref)>>
    PROVE  SearchInv'
<1>1. Learnt(D) /\ LearntOrder(lits, D) /\ LearnBack(s, lits) BY DEF LearnContext
<1>2. /\ D \in SUBSET Lit /\ ToSet(lits) = D /\ DOMAIN lits = 1 .. Len(lits)
      /\ lits \in Seq(Lit) /\ Len(lits) = Cardinality(D)
  BY <1>1 DEF Learnt, LearntOrder, IsListing
<1>3. /\ ArenaSound' /\ WatchListsOK' /\ WatchesSound'
      /\ \A r \in References : r \in References' /\ arena'[r] = arena[r]
      /\ ref \in Nat /\ ref \in References' /\ arena'[ref].lits = lits /\ ~ arena'[ref].garbage
  <2>1. todo # <<>> BY AnalysisFacts DEF LearnRest
  <2>2. UNCHANGED <<formula, visit>> BY DEF LearnRest
  <2> QED BY <1>1, <2>1, <2>2, LearnedClause
<1> PICK l : l = lits[1] OBVIOUS
<1>4. l \in Lit /\ l \in D
  <2>1. Len(lits) \in Nat /\ 1 \in 1 .. Len(lits) BY <1>2
  <2> QED BY <1>2, <2>1 DEF ToSet
<1> PICK a : a = ForceLarge(l, ref) OBVIOUS
<1> PICK b : b = Subsume(D, ref) OBVIOUS
<1> PICK u : u = <<a, b>> OBVIOUS
<1>5. a \in StepType /\ a.op = "forceLarge" /\ a.lit = l /\ a.ref = ref
  <2>1. ForceLarge(l, ref) \in StepType BY <1>3, <1>4, StepTypes
  <2> QED BY <2>1, LargeFields
<1>6. b \in StepType /\ b.op = "subsume" /\ b.clause = D /\ b.ref = ref
  BY <1>2, <1>3, SubsumeFields
<1>7. u \in Seq(StepType) /\ Len(u) = 2 /\ u[1] = a /\ u[2] = b BY <1>5, <1>6, Tuples
<1>8. LearnSteps(u)
  <2>1. Forces(a, b) BY <1>4, <1>5, <1>6 DEF Forces
  <2> QED BY <1>6, <1>7, <2>1, TwoSteps
<1>9. todo' = s \o u OBVIOUS
<1>10. Targets' = TargetsOf(s) BY <1>1, <1>8, <1>9, LearnTargets
<1>11. UNCHANGED <<trailVars, formula>> BY DEF LearnRest
<1>12. Holds(a)'
  <2>1. l \in First(ref)' BY <1>3 DEF First
  <2>2. \A m \in ToSet(arena'[ref].lits) \ {l} : Safe(m)'
    <3> SUFFICES ASSUME NEW m \in ToSet(arena'[ref].lits) \ {l} PROVE Safe(m)'
      OBVIOUS
    <3>1. m \in D /\ m # lits[1] BY <1>2, <1>3
    <3> QED BY <1>1, <1>10, <1>11, <3>1, LearnSafe
  <2> QED BY <1>3, <1>5, <2>1, <2>2 DEF Holds
<1>13. Holds(b)'
  <2>1. Len(arena'[ref].lits) = Cardinality(D) BY <1>2, <1>3
  <2> QED BY <1>6, <2>1, SubsumeHolds
<1>14. \A i \in 1 .. Len(u) : Holds(u[i])'
  <2> TAKE i \in 1 .. Len(u)
  <2>1. i = 1 \/ i = 2 BY <1>7
  <2>2. CASE i = 1 BY <1>7, <1>12, <2>2
  <2>3. CASE i = 2 BY <1>7, <1>13, <2>3
  <2> QED BY <2>1, <2>2, <2>3
<1> QED BY <1>1, <1>3, <1>8, <1>9, <1>10, <1>14, LearnEnds DEF LearnRest

LEMMA DeduceAndLearnInv == SearchInv /\ ~ undo.active /\ DeduceAndLearn => SearchInv'
<1> SUFFICES ASSUME SearchInv, ~ undo.active, DeduceAndLearn PROVE SearchInv'
  OBVIOUS
<1>1. /\ Doing("deduce") /\ IsAsserting
      /\ LearnRest
  BY DEF DeduceAndLearn, LearnRest, loopVars
<1>2. PICK D \in Shrunken(resolvent) : Learn(D) BY DEF DeduceAndLearn
<1>3. PICK lits \in SetToSeqs(D) : InOrder(lits) /\ LearnInOrder(D, lits) BY <1>2 DEF Learn
<1>4. Learnt(D) BY <1>1, LearntFacts
<1>5. LearntOrder(lits, D) BY <1>3, <1>4, LearntOrderFacts
<1> PICK s : s = AfterConflict(CurrentLevel, NewLevel(CurrentLevel, JumpOf(lits))) OBVIOUS
<1> PICK ref : ref = Len(arena) + 1 OBVIOUS
<1>6. LearnContext(D, lits, s) BY <1>4, <1>5, LearnBackFacts DEF LearnContext
<1>7. \/ /\ Len(lits) = 1
         /\ todo' = s \o <<LearnedUnit(lits[1]), Subsume(D, 0)>>
         /\ UNCHANGED <<arena, watches, lines>>
      \/ /\ Len(lits) = 2
         /\ todo' = s \o <<WatchBinary(lits[1], lits[2]), ForceBinary(lits[1], lits[2]),
                           Subsume(D, 0)>>
         /\ UNCHANGED <<arena, watches, lines>>
      \/ /\ Len(lits) > 2
         /\ arena' = Append(arena, NewClause(lits, TRUE))
         /\ watches' = Watched(watches, lits, ref)
         /\ todo' = s \o <<ForceLarge(lits[1], ref), Subsume(D, ref)>>
  BY <1>3 DEF LearnInOrder, JumpOf
<1> QED BY <1>1, <1>6, <1>7, LearnUnitInv, LearnBinaryInv, LearnLargeInv

-----------------------------------------------------------------------------
\* The reason of the literal that is resolved upon is strengthened: without
\* the literal it follows.  Nothing is left to do, and a reason that fits no
\* longer belongs to a literal after that one.
ReasonPlan(lit, ref, B) ==
    /\ lit \in Forced /\ lit \in Lit
    /\ reason[Idx(lit)].kind = "large" /\ reason[Idx(lit)].ref = ref /\ ref \in References
    /\ ~ arena[ref].garbage /\ lit \in First(ref)
    /\ Supported(lit, ToSet(arena[ref].lits) \ {lit})
    /\ LevelOf(lit) = CurrentLevel /\ CurrentLevel \in Nat /\ CurrentLevel > 0
    /\ B = AboveRoot(ToSet(arena[ref].lits) \ {lit})
    /\ B \in SUBSET Lit /\ Follows(B)
    /\ IsFiniteSet(B) /\ Cardinality(B) \in Nat /\ Cardinality(B) > 1
    /\ \A m \in B : LevelOf(m) = CurrentLevel => position[Idx(m)] < position[Idx(lit)]
    /\ \E m \in B : LevelOf(m) = CurrentLevel
    /\ \A l \in Forced : Doomed(l) =>
         LevelOf(l) = CurrentLevel /\ position[Idx(lit)] < position[Idx(l)]
    /\ Targets = {} /\ todo # <<>> /\ Len(todo) = 1 /\ todo \in Seq(StepType)
    /\ visit = NoVisit /\ conflict # NoConflict

LEMMA NotDecision ==
    ASSUME SearchInv, ~ undo.active, Doing("deduce"), ~ IsAsserting
    PROVE  reason[Idx(-Pivot)].kind # "decision"
<1>1. /\ resolvent # {} /\ Current(resolvent) # {}
      /\ \A l \in resolvent : Safe(l) /\ LevelOf(l) > 0
  BY AnalysisFacts
<1>2. /\ Pivot \in resolvent /\ Pivot \in Lit /\ values[Pivot] = -1
      /\ LevelOf(Pivot) = CurrentLevel /\ LevelOf(Pivot) > 0
      /\ \A m \in resolvent : LevelOf(m) = CurrentLevel /\ m # Pivot
           => position[Idx(m)] < position[Idx(Pivot)]
      /\ Idx(-Pivot) = Idx(Pivot) /\ LevelOf(-Pivot) = CurrentLevel
      /\ ReasonSound(-Pivot)
  BY PivotFacts
<1> PICK p \in Lit : p = Pivot BY <1>2
<1>3. \E m \in resolvent : LevelOf(m) = CurrentLevel /\ m # p
  <2> SUFFICES ASSUME \A m \in resolvent : LevelOf(m) = CurrentLevel => m = p PROVE FALSE
    OBVIOUS
  <2>1. Current(resolvent) = {p} BY <1>2 DEF Current
  <2> QED BY <2>1, FS_Singleton DEF IsAsserting
<1> SUFFICES ASSUME reason[Idx(-p)].kind = "decision" PROVE FALSE
  OBVIOUS
<1>4. frames[LevelOf(-p)].decision = -p BY <1>2 DEF ReasonSound
<1> PICK m \in resolvent : LevelOf(m) = CurrentLevel /\ m # p BY <1>3
<1>5. m \in Lit /\ values[m] = -1 /\ LevelOf(m) > 0 BY <1>1 DEF Safe
<1>6. frames[LevelOf(m)].decision = -p BY <1>2, <1>4
<1>7. position[Idx(m)] < position[Idx(p)] /\ position[Idx(m)] \in Nat /\ position[Idx(p)] \in Nat
  BY <1>2, <1>5, Values DEF SearchInv
<1>8. Idx(m) # Idx(-p) BY <1>2, <1>7
<1>9. position[Idx(-p)] < position[Idx(m)] BY <1>5, <1>6, <1>8, DecisionFirst DEF SearchInv
<1> QED BY <1>2, <1>7, <1>9

\* The next resolvent is what the reason contributes, when it is no larger.
LEMMA NoLarger ==
    ASSUME NEW A \in SUBSET Lit, NEW B \in SUBSET Lit, B \subseteq A,
           Cardinality(A) < 1 + Cardinality(B)
    PROVE  A = B
<1>1. IsFiniteSet(A) /\ IsFiniteSet(B) /\ Cardinality(A) \in Nat /\ Cardinality(B) \in Nat
  BY FiniteLiterals
<1>2. SUFFICES ASSUME A # B PROVE FALSE
  OBVIOUS
<1>3. Cardinality(B) < Cardinality(A) BY <1>1, <1>2, FS_Subset
<1> QED BY <1>1, <1>3

LEMMA StrengthenFacts ==
    ASSUME SearchInv, ~ undo.active, Doing("deduce"), ~ IsAsserting, Strengthens
    PROVE  ReasonPlan(-Pivot, reason[Idx(-Pivot)].ref, Antecedent(-Pivot))
<1> PICK p : p = Pivot OBVIOUS
<1> PICK l : l = -p OBVIOUS
<1> PICK B : B = Antecedent(l) OBVIOUS
<1> PICK N : N = NextResolvent OBVIOUS
<1>1. reason[Idx(l)].kind # "decision" BY NotDecision
<1>2. /\ p \in resolvent /\ p \in Lit /\ LevelOf(p) = CurrentLevel /\ LevelOf(p) > 0
      /\ \A m \in resolvent : LevelOf(m) = CurrentLevel /\ m # p
           => position[Idx(m)] < position[Idx(p)]
      /\ l \in Forced /\ l \in Lit /\ Idx(l) = Idx(p) /\ LevelOf(l) = CurrentLevel
      /\ ReasonSound(l) /\ Fits(l)
  BY PivotFacts
<1>3. /\ B \subseteq Lit
      /\ reason[Idx(l)].kind = "large" => reason[Idx(l)].ref \in References
      /\ reason[Idx(l)].kind \in {"binary", "large"}
  BY <1>1, <1>2, AntecedentFacts
<1>4. /\ N \subseteq Lit /\ Follows(N)
      /\ \A m \in N : LevelOf(m) = CurrentLevel => position[Idx(m)] < position[Idx(p)]
      /\ \E m \in N : LevelOf(m) = CurrentLevel
  BY <1>1, ResolveFacts
<1>5. B \subseteq N BY DEF NextResolvent
<1>6. 1 + Cardinality(B) > 2 /\ Cardinality(N) < 1 + Cardinality(B)
  BY DEF Strengthens
<1>7. N = B BY <1>3, <1>4, <1>5, <1>6, NoLarger
<1>8. IsFiniteSet(B) /\ Cardinality(B) \in Nat /\ Cardinality(B) > 1
  BY <1>3, <1>6, FiniteLiterals
<1>9. reason[Idx(l)].kind = "large"
  <2> SUFFICES ASSUME reason[Idx(l)].kind = "binary" PROVE FALSE
    BY <1>3
  <2>1. B = {reason[Idx(l)].other} BY DEF Antecedent
  <2>2. Cardinality(B) = 1 BY <1>8, <2>1, FS_Singleton
  <2> QED BY <1>8, <2>2
<1>10. reason[Idx(l)].kind # "binary" BY <1>9
<1> PICK r : r = reason[Idx(l)].ref OBVIOUS
<1>11. B = AboveRoot(ToSet(arena[r].lits) \ {l}) BY <1>10 DEF Antecedent
<1>12. Supported(l, ToSet(arena[r].lits) \ {l}) BY <1>1, <1>2, <1>9 DEF ReasonSound
<1>13. ~ arena[r].garbage /\ l \in First(r) BY <1>2, <1>9 DEF Fits
<1>14. CurrentLevel \in Nat BY DEF SearchInv, TrailInv, TrailTypeOK, CurrentLevel
<1>15. /\ todo # <<>> /\ Len(todo) = 1 /\ todo \in Seq(StepType) /\ Targets = {}
       /\ conflict # NoConflict /\ resolvent # {}
  BY AnalysisFacts
<1>16. visit = NoVisit BY <1>15, HandlerIdle
<1>17. ASSUME NEW k \in Forced, Doomed(k)
       PROVE  LevelOf(k) = CurrentLevel /\ position[Idx(l)] < position[Idx(k)]
  <2>1. PastFrontier(k) BY <1>15, <1>17 DEF Doomed
  <2>2. Frontier = resolvent BY <1>15 DEF Frontier
  <2> QED BY <1>2, <2>1, <2>2 DEF PastFrontier
<1>18. \A m \in B : LevelOf(m) = CurrentLevel => position[Idx(m)] < position[Idx(l)]
  BY <1>2, <1>4, <1>7
<1>19. (\E m \in B : LevelOf(m) = CurrentLevel) /\ Follows(B) BY <1>4, <1>7
<1>20. r \in References BY <1>3, <1>9
<1>21. ReasonPlan(l, r, B)
  BY <1>2, <1>3, <1>8, <1>9, <1>11, <1>12, <1>13, <1>14, <1>15, <1>16, <1>17, <1>18, <1>19, <1>20
  DEF ReasonPlan
<1> QED BY <1>21

\* What the strengthened clause, and what is subsumed, leaves of the arena.
StrengthenedArena(ref, lits) ==
    /\ References' = References
    /\ \A r \in References : r # ref =>
         ToSet(arena'[r].lits) = ToSet(arena[r].lits) /\ First(r)' = First(r)
    /\ ToSet(arena'[ref].lits) \in {ToSet(arena[ref].lits), ToSet(lits)}
    /\ \A r \in References : arena'[r].garbage => arena[r].garbage \/ r = ref \/ r = conflict.ref

StrengthenedConflict(lits) ==
    /\ conflict' # NoConflict
    /\ \/ conflict'.ref \in References' /\ ~ arena'[conflict'.ref].garbage
       \/ /\ conflict'.ref = 0
          /\ \E a, b \in Lit : a # b /\ conflict'.lits = <<a, b>>
    /\ LitsOf(conflict)' = lits

Shorter(lit, ref, B, lits) ==
    /\ B \subseteq ToSet(lits) /\ ToSet(lits) \subseteq ToSet(arena[ref].lits) \ {lit}
    /\ \A m \in ToSet(lits) : LevelOf(m) > 0 => m \in B

StrengthenRest ==
    /\ todo' = Tail(todo) /\ resolvent' = {}
    /\ UNCHANGED <<trailVars, reason, visit, result, formula>>

\* A clause with a true literal beside it is nobody else's reason, nor the conflict.
LEMMA OneReason ==
    ASSUME SearchInv, NEW lit, NEW ref, NEW B, ReasonPlan(lit, ref, B), NEW l \in Forced,
           reason[Idx(l)].kind = "large"
    PROVE  /\ reason[Idx(l)].ref = ref => l = lit
           /\ reason[Idx(l)].ref # conflict.ref \/ ~ Fits(l)
<1> PICK r : r = reason[Idx(l)].ref OBVIOUS
<1>1. ReasonSound(l) BY DEF SearchInv, ReasonsSound
<1>2. Supported(l, ToSet(arena[r].lits) \ {l}) /\ r \in References BY <1>1 DEF ReasonSound
<1>3. values[l] = 1 /\ values[lit] = 1 BY DEF Forced, ReasonPlan
<1>4. ASSUME r = ref PROVE l = lit
  <2>1. lit \in ToSet(arena[ref].lits)
    <3>1. lit \in First(ref) /\ ref \in References BY DEF ReasonPlan
    <3>2. arena[ref].lits \in Seq(Lit) /\ Len(arena[ref].lits) > 2
      BY <3>1 DEF SearchInv, ArenaSound
    <3>3. 1 \in DOMAIN arena[ref].lits /\ 2 \in DOMAIN arena[ref].lits BY <3>2
    <3> QED BY <3>1, <3>3 DEF First, ToSet
  <2>2. \A m \in ToSet(arena[r].lits) \ {l} : values[m] = -1 BY <1>2 DEF Supported
  <2> QED BY <1>3, <1>4, <2>1, <2>2
<1>5. ASSUME r = conflict.ref, Fits(l) PROVE FALSE
  <2>1. l \in First(r) BY <1>5 DEF Fits
  <2>2. arena[r].lits \in Seq(Lit) /\ Len(arena[r].lits) > 2
    BY <1>2 DEF SearchInv, ArenaSound
  <2>3. 1 \in DOMAIN arena[r].lits /\ 2 \in DOMAIN arena[r].lits BY <2>2
  <2>4. l \in ToSet(arena[r].lits) BY <2>1, <2>3 DEF First, ToSet
  <2>5. r # 0 BY <1>2 DEF SearchInv, ArenaSound, References
  <2>6. LitsOf(conflict) = arena[r].lits BY <1>5, <2>5 DEF LitsOf
  <2>7. conflict # NoConflict BY DEF ReasonPlan
  <2>8. Safe(l) BY <2>4, <2>6, <2>7 DEF SearchInv, ConflictSound
  <2> QED BY <1>3, <2>8 DEF Safe
<1> QED BY <1>4, <1>5

LEMMA StrengthenReasons ==
    ASSUME SearchInv, NEW lit, NEW ref, NEW B, ReasonPlan(lit, ref, B),
           NEW lits, StrengthenedArena(ref, lits), StrengthenedConflict(lits), StrengthenRest,
           Shorter(lit, ref, B, lits), ~ undo.active
    PROVE  ReasonsSound'
<1>1. /\ UNCHANGED <<trailVars, reason, formula>> /\ resolvent' = {}
  BY DEF StrengthenRest
<1>0. /\ B \subseteq ToSet(lits) /\ ToSet(lits) \subseteq ToSet(arena[ref].lits) \ {lit}
      /\ \A m \in ToSet(lits) : LevelOf(m) > 0 => m \in B
  BY DEF Shorter
<1>2. /\ Forced' = Forced /\ CurrentLevel' = CurrentLevel
      /\ \A l : /\ LevelOf(l)' = LevelOf(l) /\ values'[l] = values[l]
                /\ position'[Idx(l)] = position[Idx(l)]
      /\ \A D : Follows(D)' <=> Follows(D)
      /\ \A l, D : Supported(l, D)' <=> Supported(l, D)
  BY <1>1, Unmoved
<1>3. reason' \in [Var -> ReasonType] BY <1>1 DEF SearchInv, ReasonsSound
<1>4. /\ LevelOf(lit) = CurrentLevel /\ CurrentLevel > 0
      /\ \A m \in B : LevelOf(m) = CurrentLevel => position[Idx(m)] < position[Idx(lit)]
      /\ \E m \in B : LevelOf(m) = CurrentLevel
      /\ B \subseteq Lit
  BY DEF ReasonPlan
<1>5. Frontier' = ToSet(lits) BY <1>1 DEF Frontier, StrengthenedConflict
<1>6. ASSUME NEW l \in Forced, LevelOf(l) = CurrentLevel,
             l = lit \/ position[Idx(lit)] < position[Idx(l)]
      PROVE  Doomed(l)'
  <2>1. ~ undo'.active BY <1>1 DEF trailVars
  <2>2. conflict' # NoConflict BY DEF StrengthenedConflict
  <2>3. \E m \in ToSet(lits) : LevelOf(m) = CurrentLevel BY <1>0, <1>4
  <2>4. ASSUME NEW m \in ToSet(lits), LevelOf(m) = CurrentLevel
        PROVE  position[Idx(m)] < position[Idx(l)]
    <3>1. m \in B BY <1>0, <1>4, <2>4
    <3>2. position[Idx(m)] < position[Idx(lit)] BY <1>4, <2>4, <3>1
    <3>3. l \in Lit /\ lit \in Lit /\ m \in Lit BY <1>4, <3>1 DEF Forced, ReasonPlan
    <3>4. position[Idx(m)] \in Nat /\ position[Idx(l)] \in Nat /\ position[Idx(lit)] \in Nat
      BY <3>3, Values DEF SearchInv
    <3> QED BY <1>6, <3>2, <3>4
  <2>5. PastFrontier(l)' BY <1>2, <1>5, <1>6, <2>1, <2>2, <2>3, <2>4 DEF PastFrontier
  <2> QED BY <2>5 DEF Doomed
<1>7. ASSUME NEW l \in Forced PROVE ReasonSound(l)'
  <2>1. ReasonSound(l) BY DEF SearchInv, ReasonsSound
  <2>2. CASE reason[Idx(l)].kind # "large"
    <3>1. reason' = reason /\ frames' = frames BY <1>1 DEF trailVars
    <3> QED BY <1>2, <2>1, <2>2, <3>1 DEF ReasonSound
  <2>3. CASE reason[Idx(l)].kind = "large"
    <3> PICK r : r = reason[Idx(l)].ref OBVIOUS
    <3>1. r \in References /\ Supported(l, ToSet(arena[r].lits) \ {l})
      BY <2>1, <2>3 DEF ReasonSound
    <3> PICK D : D = ToSet(arena'[r].lits) \ {l} OBVIOUS
    <3>2. Supported(l, D)
      <4>1. CASE ToSet(arena'[r].lits) = ToSet(arena[r].lits) BY <3>1, <4>1
      <4>2. CASE ToSet(arena'[r].lits) # ToSet(arena[r].lits)
        <5>1. r = ref /\ ToSet(arena'[r].lits) = ToSet(lits)
          BY <3>1, <4>2 DEF StrengthenedArena
        <5>2. l = lit BY <2>3, <5>1, OneReason
        <5>3. \E m \in ToSet(lits) \ {lit} : LevelOf(m) = LevelOf(lit) BY <1>0, <1>4
        <5>4. ToSet(lits) \ {lit} \subseteq ToSet(arena[r].lits) \ {lit} BY <1>0, <5>1
        <5> QED BY <3>1, <5>1, <5>2, <5>3, <5>4 DEF Supported
      <4> QED BY <4>1, <4>2
    <3>3. Supported(l, D)' BY <1>2, <3>2
    <3>4. reason'[Idx(l)] = reason[Idx(l)] /\ r \in References'
      BY <1>1, <3>1 DEF StrengthenedArena
    <3> QED BY <2>3, <3>3, <3>4 DEF ReasonSound
  <2> QED BY <2>2, <2>3
<1>8. ASSUME NEW l \in Forced PROVE (Fits(l) \/ Doomed(l))'
  <2>1. Fits(l) \/ Doomed(l) BY DEF SearchInv, ReasonsSound
  <2>2. CASE Doomed(l)
    <3>1. LevelOf(l) = CurrentLevel /\ position[Idx(lit)] < position[Idx(l)]
      BY <2>2 DEF ReasonPlan
    <3> QED BY <1>6, <3>1
  <2>3. CASE Fits(l) /\ reason[Idx(l)].kind # "large"
    <3>1. Fits(l)' BY <1>1, <2>3 DEF Fits
    <3> QED BY <3>1
  <2>4. CASE Fits(l) /\ reason[Idx(l)].kind = "large"
    <3> PICK r : r = reason[Idx(l)].ref OBVIOUS
    <3>1. ~ arena[r].garbage /\ l \in First(r) BY <2>4 DEF Fits
    <3>2. r \in References BY <2>4 DEF SearchInv, ReasonsSound, ReasonSound
    <3>3. r # conflict.ref BY <2>4, OneReason
    <3>4. CASE r = ref
      <4>1. l = lit BY <2>4, <3>4, OneReason
      <4> QED BY <1>4, <1>6, <4>1
    <3>5. CASE r # ref
      <4>1. ~ arena'[r].garbage /\ First(r)' = First(r)
        BY <3>1, <3>2, <3>3, <3>5 DEF StrengthenedArena
      <4>2. Fits(l)'
        <5>1. l \in First(r)' BY <3>1, <4>1
        <5>2. reason'[Idx(l)].ref = r BY <1>1
        <5>3. First(reason[Idx(l)].ref)' = First(r)' BY <5>2 DEF First
        <5> QED BY <4>1, <5>1, <5>2, <5>3 DEF Fits
      <4> QED BY <4>2
    <3> QED BY <3>4, <3>5
  <2> QED BY <2>1, <2>2, <2>3, <2>4
<1> QED BY <1>2, <1>3, <1>7, <1>8 DEF ReasonsSound

LEMMA StrengthenEnds ==
    ASSUME SearchInv, ~ undo.active, NEW lit, NEW ref, NEW B, ReasonPlan(lit, ref, B),
           NEW lits, StrengthenedArena(ref, lits), StrengthenedConflict(lits), StrengthenRest,
           Shorter(lit, ref, B, lits), ArenaSound', WatchListsOK', WatchesSound'
    PROVE  SearchInv'
<1>1. /\ UNCHANGED <<trailVars, reason, visit, result, formula>> /\ resolvent' = {}
      /\ todo' = Tail(todo)
  BY DEF StrengthenRest
<1>2. /\ TrailInv' /\ RootSound' /\ CurrentLevel' = CurrentLevel
      /\ \A l : LevelOf(l)' = LevelOf(l) /\ values'[l] = values[l]
      /\ \A D : Follows(D)' <=> Follows(D)
  BY <1>1, Unmoved DEF SearchInv
<1>3. /\ todo \in Seq(StepType) /\ Len(todo) = 1 /\ visit = NoVisit /\ ref \in References
      /\ LevelOf(lit) = CurrentLevel /\ Follows(B)
      /\ Supported(lit, ToSet(arena[ref].lits) \ {lit})
  BY DEF ReasonPlan
<1>4. todo' = <<>> BY <1>1, <1>3
<1>5. Targets' = {} /\ ~ Analysis' /\ TodoSound'
  <2>1. todo' \in Seq(StepType) /\ DOMAIN todo' = {} BY <1>4
  <2> QED BY <1>4, <2>1 DEF Targets, Analysis, TodoSound
<1>6. ReasonsSound' BY StrengthenReasons
<1>7. VisitSound' BY <1>1, <1>3 DEF VisitSound, NoVisit
<1>8. ResolventSound' BY <1>1, <1>5 DEF ResolventSound
<1>9. ConflictSound'
  <2>1. Follows(ToSet(lits))' BY <1>2, <1>3, FollowsMore DEF Shorter
  <2>2. ASSUME NEW m \in ToSet(lits) PROVE Safe(m)'
    <3>1. m \in ToSet(arena[ref].lits) \ {lit} BY DEF Shorter
    <3>2. m \in Lit
      <4>1. arena[ref].lits \in Seq(Lit) BY <1>3 DEF SearchInv, ArenaSound
      <4> QED BY <3>1, <4>1 DEF ToSet
    <3>3. values[m] = -1 /\ LevelOf(m) <= CurrentLevel BY <1>3, <3>1 DEF Supported
    <3> QED BY <1>2, <1>5, <3>2, <3>3 DEF Safe
  <2>3. LitsOf(conflict)' = lits BY DEF StrengthenedConflict
  <2>4. Follows(ToSet(LitsOf(conflict)))' BY <2>1, <2>3
  <2>5. (\A l \in ToSet(LitsOf(conflict)) : Safe(l))' BY <2>2, <2>3
  <2> QED BY <2>4, <2>5 DEF ConflictSound, StrengthenedConflict
<1>10. formula' \in Formulas /\ RefutationSound' BY <1>1 DEF SearchInv, RefutationSound
<1> QED BY <1>2, <1>5, <1>6, <1>7, <1>8, <1>9, <1>10 DEF SearchInv

\* A subsumed conflict becomes garbage.
LEMMA SubsumedFacts ==
    ASSUME NEW X \in Seq(ClauseType), NEW n, NEW Y \in {X, Subsumed(X, n)}
    PROVE  /\ Y \in Seq(ClauseType) /\ DOMAIN Y = DOMAIN X
           /\ \A r \in DOMAIN X : /\ Y[r].lits = X[r].lits
                                  /\ Y[r].garbage => X[r].garbage \/ r = conflict.ref
<1>1. CASE Y = X BY <1>1
<1>2. CASE Y = Subsumed(X, n)
  <2>1. Y = Subsumed(X, n) BY <1>2
  <2> DEFINE Z(r) == [X[r] EXCEPT !.garbage = @ \/ r = conflict.ref,
                                  !.redundant = @ /\ (r = n => X[conflict.ref].redundant)]
  <2>2. Y = [r \in DOMAIN X |-> Z(r)] BY <2>1 DEF Subsumed
  <2>3. DOMAIN X = 1 .. Len(X) /\ Len(X) \in Nat /\ \A r \in DOMAIN X : X[r] \in ClauseType
    OBVIOUS
  <2>4. ASSUME NEW r \in DOMAIN X
        PROVE  /\ Z(r) \in ClauseType /\ Z(r).lits = X[r].lits
               /\ Z(r).garbage => X[r].garbage \/ r = conflict.ref
    <3> PICK c \in ClauseType : c = X[r] BY <2>3
    <3> PICK b \in BOOLEAN : b = (r = conflict.ref) OBVIOUS
    <3> PICK d \in BOOLEAN : d = (r = n => X[conflict.ref].redundant) OBVIOUS
    <3>1. Z(r) = [c EXCEPT !.garbage = c.garbage \/ b, !.redundant = c.redundant /\ d]
      OBVIOUS
    <3>2. c.lits \in Seq(Lit) /\ c.redundant \in BOOLEAN /\ c.garbage \in BOOLEAN
      BY DEF ClauseType
    <3> QED BY <3>1, <3>2 DEF ClauseType
  <2> HIDE DEF Z
  <2>5. Y \in [1 .. Len(X) -> ClauseType] BY <2>2, <2>3, <2>4
  <2> QED BY <2>2, <2>3, <2>4, <2>5
<1> QED BY <1>1, <1>2

LEMMA ArenaAfter ==
    ASSUME NEW X, X \in Seq(ClauseType), DOMAIN X = References, NEW n,
           arena' \in {X, Subsumed(X, n)}
    PROVE  /\ arena' \in Seq(ClauseType) /\ References' = References
           /\ \A r \in References :
                /\ arena'[r].lits = X[r].lits
                /\ arena'[r].garbage => X[r].garbage \/ r = conflict.ref
<1> PICK Y : Y = arena' OBVIOUS
<1>1. Y \in {X, Subsumed(X, n)} OBVIOUS
<1>2. /\ Y \in Seq(ClauseType) /\ DOMAIN Y = DOMAIN X
      /\ \A r \in DOMAIN X : /\ Y[r].lits = X[r].lits
                             /\ Y[r].garbage => X[r].garbage \/ r = conflict.ref
  BY <1>1, SubsumedFacts
<1>3. References' = DOMAIN Y BY DEF References
<1> QED BY <1>2, <1>3

LEMMA WiderSeq == ASSUME NEW S, NEW T, S \subseteq T, NEW s \in Seq(S) PROVE s \in Seq(T)
<1>1. \A i \in 1 .. Len(s) : s[i] \in T OBVIOUS
<1>2. s = [i \in 1 .. Len(s) |-> s[i]] /\ Len(s) \in Nat OBVIOUS
<1>3. s \in [1 .. Len(s) -> T] BY <1>1, <1>2
<1> QED BY <1>2, <1>3

LEMMA TwoListed ==
    ASSUME NEW s \in Seq(Lit), Len(s) = 2
    PROVE  s = <<s[1], s[2]>> /\ s # <<>> /\ s[1] \in Lit /\ s[2] \in Lit
OBVIOUS

\* A binary clause replaces the reason.
LEMMA BinaryWatched ==
    ASSUME NEW ws \in Lists, NEW G, NEW F, HandsSound(G, F, ws),
           NEW lits \in Seq(Lit), Len(lits) = 2, lits[1] # lits[2],
           Entails(G, {lits[1], lits[2]}), NEW H, H = Watched(ws, lits, 0)
    PROVE  H \in Lists /\ HandsSound(G, F, H)
<1>1. Len(lits) >= 2 /\ 0 \in Nat OBVIOUS
<1>2. /\ H \in Lists
      /\ \A l \in Lit : l \notin {lits[1], lits[2]} => H[l] = ws[l]
      /\ NewWatch(lits[1], 0) \in WatchType /\ NewWatch(lits[2], 0) \in WatchType
      /\ lits[1] \in Lit /\ lits[2] \in Lit
      /\ H[lits[1]] = Append(ws[lits[1]], NewWatch(lits[2], 0))
      /\ H[lits[2]] = Append(ws[lits[2]], NewWatch(lits[1], 0))
  BY <1>1, WatchedFacts, Zenon
<1>3. \A l \in Lit : ws[l] \in Seq(WatchType) BY DEF Lists
<1>4. \A m : NewWatch(m, 0).binary /\ NewWatch(m, 0).blocking = m
  BY DEF NewWatch, BinaryWatch
<1>5. Entails(G, {lits[2], lits[1]})
  <2>1. {lits[1], lits[2]} = {lits[2], lits[1]} OBVIOUS
  <2> QED BY <2>1
<1>6. /\ WatchOK(G, F, lits[1], NewWatch(lits[2], 0))
      /\ WatchOK(G, F, lits[2], NewWatch(lits[1], 0))
  <2> PICK a, b : a = lits[1] /\ b = lits[2] OBVIOUS
  <2> PICK v, w : v = NewWatch(a, 0) /\ w = NewWatch(b, 0) OBVIOUS
  <2>1. v.binary /\ v.blocking = a /\ w.binary /\ w.blocking = b BY <1>4
  <2>2. a # b /\ Entails(G, {a, b}) /\ Entails(G, {b, a}) BY <1>5
  <2> QED BY <2>1, <2>2 DEF WatchOK
<1>7. \A l \in Lit : H[l] # ws[l] =>
         \E w \in WatchType : H[l] = Append(ws[l], w) /\ WatchOK(G, F, l, w) /\ w.binary
  BY <1>2, <1>4, <1>6
<1>8. HandsSound(G, F, H) BY <1>3, <1>7, HandsMore
<1> QED BY <1>2, <1>8

DiscardedIn(X, ref) ==
    /\ X \in Seq(ClauseType) /\ DOMAIN X = References
    /\ \A r \in References : /\ X[r].lits = arena[r].lits
                             /\ X[r].garbage => arena[r].garbage \/ r = ref

LEMMA Discarded ==
    ASSUME SearchInv, NEW ref \in References
    PROVE  DiscardedIn([arena EXCEPT ![ref].garbage = TRUE], ref)
<1>1. arena \in Seq(ClauseType) /\ References = 1 .. Len(arena)
  BY DEF SearchInv, ArenaSound, References
<1> PICK c : c = arena[ref] OBVIOUS
<1> PICK d : d = [c EXCEPT !.garbage = TRUE] OBVIOUS
<1>2. c \in ClauseType BY <1>1
<1>3. d \in ClauseType /\ d.lits = c.lits BY <1>2 DEF ClauseType
<1> PICK X : X = [arena EXCEPT ![ref] = d] OBVIOUS
<1>4. [arena EXCEPT ![ref].garbage = TRUE] = X OBVIOUS
<1>5. DiscardedIn(X, ref) BY <1>1, <1>3 DEF DiscardedIn
<1> QED BY <1>4, <1>5

SmallArena(ref) ==
    /\ arena' \in Seq(ClauseType) /\ References' = References
    /\ \A r \in References :
         /\ arena'[r].lits = arena[r].lits
         /\ arena'[r].garbage => arena[r].garbage \/ r = ref \/ r = conflict.ref

LEMMA DiscardedAfter ==
    ASSUME NEW ref, NEW X, DiscardedIn(X, ref), NEW n, arena' \in {X, Subsumed(X, n)}
    PROVE  SmallArena(ref)
<1> PICK Y : Y = arena' OBVIOUS
<1>0. X \in Seq(ClauseType) /\ DOMAIN X = References BY DEF DiscardedIn
<1>1. /\ Y \in Seq(ClauseType) /\ References' = References
      /\ \A r \in References : /\ Y[r].lits = X[r].lits
                               /\ Y[r].garbage => X[r].garbage \/ r = conflict.ref
  BY <1>0, ArenaAfter
<1>2. \A r \in References :
         /\ Y[r].lits = arena[r].lits
         /\ Y[r].garbage => arena[r].garbage \/ r = ref \/ r = conflict.ref
  BY <1>1 DEF DiscardedIn
<1> QED BY <1>1, <1>2 DEF SmallArena

LEMMA StrengthenSmallInv ==
    ASSUME SearchInv, ~ undo.active, NEW lit, NEW ref, NEW B, ReasonPlan(lit, ref, B),
           Cardinality(B) = 2, NEW lits, IsListing(lits, B),
           SmallArena(ref),
           watches' = Unwatched(Unwatched(Watched(watches, lits, 0), arena[ref].lits[1], ref),
                                arena[ref].lits[2], ref),
           conflict' = BinaryConflict(lits[1], lits[2]), StrengthenRest
    PROVE  SearchInv'
<1>1. /\ B \in SUBSET Lit /\ Follows(B) /\ ref \in References /\ visit = NoVisit
      /\ B = AboveRoot(ToSet(arena[ref].lits) \ {lit})
      /\ todo # <<>>
  BY DEF ReasonPlan
<1>2. /\ lits \in Seq(Lit) /\ Len(lits) = 2 /\ DOMAIN lits = 1 .. 2 /\ ToSet(lits) = B
      /\ IsInjective(lits)
  <2>1. lits \in Seq(B) /\ Len(lits) = 2 /\ DOMAIN lits = 1 .. 2 /\ ToSet(lits) = B
        /\ IsInjective(lits)
    BY DEF IsListing
  <2>3. lits \in Seq(Lit) BY <1>1, <2>1, WiderSeq
  <2> QED BY <2>1, <2>3
<1>3. lits[1] \in Lit /\ lits[2] \in Lit /\ lits[1] # lits[2] /\ lits = <<lits[1], lits[2]>>
  <2>1. 1 \in DOMAIN lits /\ 2 \in DOMAIN lits BY <1>2
  <2>2. lits[1] # lits[2] BY <1>2, <2>1 DEF IsInjective
  <2> QED BY <1>2, <2>2, TwoListed
<1>4. B = {lits[1], lits[2]}
  <2>1. 1 .. 2 = {1, 2} OBVIOUS
  <2> QED BY <1>2, <2>1 DEF ToSet
<1>5. UNCHANGED <<trailVars, visit, formula>> BY DEF StrengthenRest
<1>6. \A D : Follows(D)' <=> Follows(D) BY <1>5, Unmoved
<1>7. /\ arena \in Seq(ClauseType) /\ References = 1 .. Len(arena)
      /\ \A r \in References :
           /\ arena[r].lits \in Seq(Lit) /\ Len(arena[r].lits) > 2
           /\ IsInjective(arena[r].lits) /\ Follows(ToSet(arena[r].lits))
  BY DEF SearchInv, ArenaSound, References
<1>9. /\ arena' \in Seq(ClauseType) /\ References' = References
      /\ \A r \in References :
           /\ arena'[r].lits = arena[r].lits
           /\ arena'[r].garbage => arena[r].garbage \/ r = ref \/ r = conflict.ref
  BY DEF SmallArena
<1>10. ArenaSound' BY <1>6, <1>7, <1>9 DEF ArenaSound
<1>11. Firsts' = Firsts /\ \A r \in References : First(r)' = First(r) BY <1>9 DEF Firsts, First
<1>12. StrengthenedArena(ref, lits) BY <1>1, <1>9, <1>11 DEF StrengthenedArena
<1>13. StrengthenedConflict(lits)
  <2>1. conflict'.ref = 0 /\ conflict'.lits = lits BY <1>3 DEF BinaryConflict
  <2>2. conflict' # NoConflict
    <3>1. lits # <<>> BY <1>2, TwoListed
    <3> QED BY <2>1, <3>1 DEF NoConflict
  <2>3. LitsOf(conflict)' = lits BY <2>1 DEF LitsOf
  <2> QED BY <1>3, <2>1, <2>2, <2>3 DEF StrengthenedConflict
<1>14. Shorter(lit, ref, B, lits) BY <1>1, <1>2 DEF Shorter, AboveRoot
<1>15. watches' \in Lists /\ HandsSound(formula, Firsts, watches')
  <2>1. watches \in Lists /\ HandsSound(formula, Firsts, watches)
    BY <1>1, HandlerIdle DEF SearchInv, WatchesSound
  <2> PICK a : a = arena[ref].lits[1] OBVIOUS
  <2> PICK b : b = arena[ref].lits[2] OBVIOUS
  <2>2. a \in Lit /\ b \in Lit BY <1>1, <1>7
  <2> PICK G : G = formula OBVIOUS
  <2> PICK F : F = Firsts OBVIOUS
  <2> PICK W : W = watches OBVIOUS
  <2> PICK H : H = Watched(W, lits, 0) OBVIOUS
  <2> PICK I : I = Unwatched(H, a, ref) OBVIOUS
  <2> PICK K : K = Unwatched(I, b, ref) OBVIOUS
  <2>3. Entails(G, {lits[1], lits[2]}) BY <1>1, <1>4 DEF Follows
  <2>4. H \in Lists /\ HandsSound(G, F, H) BY <1>2, <1>3, <2>1, <2>3, BinaryWatched
  <2>5. DOMAIN H = Lit /\ \A l \in Lit : H[l] \in Seq(WatchType) BY <2>4 DEF Lists
  <2>6. HandsSound(G, F, I) /\ DOMAIN I = Lit /\ \A l \in Lit : I[l] \in Seq(WatchType)
    BY <2>2, <2>4, <2>5, HandsUnwatched
  <2>7. HandsSound(G, F, K) /\ DOMAIN K = Lit /\ \A l \in Lit : K[l] \in Seq(WatchType)
    BY <2>2, <2>6, HandsUnwatched
  <2>8. K \in Lists
    <3>1. K = [l \in Lit |-> K[l]]
      <4>1. I = [H EXCEPT ![a] = I[a]] BY <2>2, <2>5 DEF Unwatched
      <4>2. K = [I EXCEPT ![b] = K[b]] BY <2>2, <2>6 DEF Unwatched
      <4>3. H = [l \in Lit |-> H[l]] BY <2>4 DEF Lists
      <4> QED BY <2>2, <4>1, <4>2, <4>3
    <3> QED BY <2>7, <3>1 DEF Lists
  <2> QED BY <2>7, <2>8
<1>16. WatchListsOK' /\ WatchesSound'
  <2>1. visit' = NoVisit BY <1>1, <1>5
  <2>2. HandsOf(watches', visit') = watches' BY <1>15, <2>1, HandsIdle
  <2>3. visit' \in VisitType BY <1>5 DEF SearchInv, WatchListsOK
  <2> QED BY <1>5, <1>11, <1>15, <2>2, <2>3 DEF WatchListsOK, WatchesSound
<1> QED BY <1>10, <1>12, <1>13, <1>14, <1>16, StrengthenEnds

\* A shorter large clause replaces the reason.
ShorterClause(lit, ref, B, lits) ==
    /\ lits \in Seq(Lit) /\ IsInjective(lits) /\ Len(lits) > 2
    /\ lits[1] \in Lit /\ lits[2] \in Lit /\ lits[1] # lits[2]
    /\ lits[1] # lit /\ lits[2] # lit
    /\ First(ref) = {lit, lits[1]}
    /\ Shorter(lit, ref, B, lits)

LEMMA ShorterFacts ==
    ASSUME SearchInv, NEW lit, NEW ref, NEW B, ReasonPlan(lit, ref, B), Cardinality(B) > 2,
           NEW lits \in LargeStrengthened(arena[ref], lit)
    PROVE  ShorterClause(lit, ref, B, lits)
<1>1. /\ B = AboveRoot(ToSet(arena[ref].lits) \ {lit}) /\ ref \in References
      /\ IsFiniteSet(B) /\ lit \in First(ref)
  BY DEF ReasonPlan
<1> PICK s : s = arena[ref].lits OBVIOUS
<1>2. s \in Seq(Lit) /\ Len(s) > 2 /\ IsInjective(s) BY <1>1 DEF SearchInv, ArenaSound
<1>3. DOMAIN s = 1 .. Len(s) /\ Len(s) \in Nat /\ 1 \in DOMAIN s /\ 2 \in DOMAIN s BY <1>2
<1>4. s[1] # s[2] /\ s[1] \in Lit /\ s[2] \in Lit BY <1>2, <1>3 DEF IsInjective
<1> PICK f : f = IF s[1] = lit THEN s[2] ELSE s[1] OBVIOUS
<1>5. f \in Lit /\ f # lit /\ {lit, f} = {s[1], s[2]} /\ lit \in {s[1], s[2]}
  BY <1>1, <1>4 DEF First
<1> PICK R : R = AboveRoot({s[i] : i \in 3 .. Len(s)}) OBVIOUS
<1>6. R = {m \in Lit : LevelOf(m) > 0 /\ \E i \in 3 .. Len(s) : m = s[i]}
  <2>1. \A i \in 3 .. Len(s) : s[i] \in Lit BY <1>2, <1>3
  <2> QED BY <2>1 DEF AboveRoot
<1>7. \A i \in 3 .. Len(s) : s[i] # s[1] /\ s[i] # s[2] BY <1>2, <1>3 DEF IsInjective
<1>8. lit \notin R /\ f \notin R BY <1>5, <1>6, <1>7
<1> PICK E : E = {f} \cup R OBVIOUS
<1>9. lits \in SetToSeqs(E) /\ lits[1] = f BY DEF LargeStrengthened
<1>10. E \in SUBSET Lit BY <1>5, <1>6
<1>11. IsListing(lits, E) BY <1>9, <1>10, FiniteLiterals, Listings
<1>12. /\ lits \in Seq(E) /\ Len(lits) = Cardinality(E) /\ IsInjective(lits)
       /\ ToSet(lits) = E /\ DOMAIN lits = 1 .. Len(lits) /\ Len(lits) \in Nat
  BY <1>11 DEF IsListing
<1>13. lits \in Seq(Lit) BY <1>10, <1>12, WiderSeq
<1>14. ToSet(s) = {s[i] : i \in DOMAIN s} BY DEF ToSet
<1>15. ASSUME NEW m \in B PROVE m \in E
  <2>1. m \in ToSet(s) \ {lit} /\ LevelOf(m) > 0 BY <1>1 DEF AboveRoot
  <2>2. PICK i \in 1 .. Len(s) : m = s[i] BY <1>3, <1>14, <2>1
  <2>3. CASE i \in 3 .. Len(s)
    <3>1. m \in Lit BY <1>2, <1>3, <2>2
    <3> QED BY <1>6, <2>1, <2>2, <2>3, <3>1
  <2>4. CASE i \in {1, 2} BY <1>5, <2>1, <2>2, <2>4
  <2> QED BY <1>3, <2>3, <2>4
<1>16. E \subseteq ToSet(s) \ {lit}
  <2>1. f \in ToSet(s) BY <1>3, <1>5, <1>14
  <2>2. R \subseteq ToSet(s)
    <3>1. \A i \in 3 .. Len(s) : i \in DOMAIN s BY <1>3
    <3> QED BY <1>6, <1>14, <3>1
  <2> QED BY <1>5, <1>8, <2>1, <2>2
<1>17. Shorter(lit, ref, B, lits)
  <2>1. \A m \in E : LevelOf(m) > 0 => m \in B BY <1>1, <1>16 DEF AboveRoot
  <2> QED BY <1>12, <1>15, <1>16, <2>1 DEF Shorter
<1>18. Len(lits) > 2
  <2>1. IsFiniteSet(E) /\ Cardinality(E) \in Nat /\ Cardinality(B) \in Nat
    BY <1>1, <1>10, FiniteLiterals, FS_CardinalityType
  <2>2. Cardinality(B) <= Cardinality(E) BY <1>15, <2>1, FS_Subset
  <2> QED BY <1>12, <2>1, <2>2
<1>19. 1 \in DOMAIN lits /\ 2 \in DOMAIN lits BY <1>12, <1>18
<1>20. lits[1] # lits[2]
  <2>1. IsInjective(lits) BY <1>12
  <2> QED BY <1>19, <2>1 DEF IsInjective
<1>21. lits[2] \in E BY <1>12, <1>19, SMTT(30)
<1>22. lits[2] # lit BY <1>5, <1>8, <1>21
<1>23. First(ref) = {lit, lits[1]} BY <1>5, <1>9 DEF First
<1> QED BY <1>5, <1>9, <1>10, <1>12, <1>13, <1>17, <1>18, <1>20, <1>21, <1>22, <1>23
    DEF ShorterClause

\* Blocking literals of large watches do not matter.
LEMMA Reblocked ==
    ASSUME NEW H \in Lists, NEW G, NEW F, HandsSound(G, F, H), NEW l \in Lit, NEW m \in Lit,
           NEW ref \in Nat,
           NEW h, h = [i \in DOMAIN H[l] |-> IF Watches(H[l][i], ref) THEN LargeWatch(m, ref)
                                                                      ELSE H[l][i]],
           NEW K, K = [H EXCEPT ![l] = h]
    PROVE  K \in Lists /\ HandsSound(G, F, K)
<1> PICK g : g = H[l] OBVIOUS
<1>1. g \in Seq(WatchType) /\ DOMAIN g = 1 .. Len(g) /\ Len(g) \in Nat BY DEF Lists
<1>2. LargeWatch(m, ref) \in WatchType BY DEF LargeWatch, WatchType
<1>3. ASSUME NEW i \in DOMAIN g PROVE h[i] \in WatchType /\ Alike(h[i], g[i])
  <2>1. g[i] \in WatchType BY <1>1
  <2>2. CASE Watches(g[i], ref)
    <3>1. h[i] = LargeWatch(m, ref) BY <2>2
    <3>2. g[i].binary \in BOOLEAN BY <2>1 DEF WatchType
    <3> QED BY <1>2, <2>2, <3>1, <3>2 DEF Watches, Alike, LargeWatch
  <2>3. CASE ~ Watches(g[i], ref)
    <3>1. h[i] = g[i] BY <2>3
    <3> QED BY <2>1, <3>1 DEF Alike
  <2> QED BY <2>2, <2>3
<1>4. h \in Seq(WatchType) /\ DOMAIN h = DOMAIN g
  <2>1. h \in [1 .. Len(g) -> WatchType] BY <1>1, <1>3
  <2> QED BY <1>1, <2>1
<1>5. K \in Lists BY <1>4 DEF Lists
<1>6. ASSUME NEW k \in Lit PROVE Embeds(K[k], H[k])
  <2>1. CASE k # l
    <3>1. K[k] = H[k] BY <2>1 DEF Lists
    <3> QED BY <3>1, EmbedsSelf
  <2>2. CASE k = l
    <3>1. K[k] = h BY <2>2 DEF Lists
    <3> DEFINE e == [i \in DOMAIN h |-> i]
    <3>2. e \in [DOMAIN h -> DOMAIN g] /\ \A i \in DOMAIN h : e[i] = i BY <1>4
    <3> HIDE DEF e
    <3>3. \A i, j \in DOMAIN h : e[i] = e[j] => i = j BY <3>2
    <3>4. \A i \in DOMAIN h : Alike(h[i], g[e[i]]) BY <1>3, <1>4, <3>2
    <3>5. Embeds(h, g) BY <3>2, <3>3, <3>4 DEF Embeds
    <3> QED BY <2>2, <3>1, <3>5
  <2> QED BY <2>1, <2>2
<1>7. HandsSound(G, F, K) BY <1>6, HandsLess
<1> QED BY <1>5, <1>7

LEMMA StrengthenedHands ==
    ASSUME SearchInv, NEW lit, NEW ref, NEW B, ReasonPlan(lit, ref, B),
           NEW lits, ShorterClause(lit, ref, B, lits),
           NEW E, MovesWatch(Firsts, E, ref, lit, lits[1], lits[2]),
           NEW K, K = StrengthenedWatches(lits, lit, ref)
    PROVE  K \in Lists /\ HandsSound(formula, E, K)
<1>1. watches \in Lists /\ HandsSound(formula, Firsts, watches)
  <2>1. todo # <<>> BY DEF ReasonPlan
  <2> QED BY <2>1, HandlerIdle DEF SearchInv, WatchesSound
<1>2. lits[1] \in Lit /\ lits[2] \in Lit BY DEF ShorterClause
<1>3. ref \in Nat BY DEF MovesWatch
<1> PICK a, b : a = lits[1] /\ b = lits[2] OBVIOUS
<1> PICK H : H = Rewatched(watches, lit, b, a, ref) OBVIOUS
<1>4. H \in Lists /\ HandsSound(formula, E, H) BY <1>1, <1>2, MoveWatch
<1> PICK h : h = [i \in DOMAIN H[a] |-> IF Watches(H[a][i], ref) THEN LargeWatch(b, ref)
                                                               ELSE H[a][i]]
  OBVIOUS
<1> PICK J : J = [H EXCEPT ![a] = h] OBVIOUS
<1>5. K = J BY DEF StrengthenedWatches, Rewatched, Watches
<1>6. J \in Lists /\ HandsSound(formula, E, J) BY <1>2, <1>3, <1>4, Reblocked
<1> QED BY <1>5, <1>6

LargeArena(ref, lits) ==
    /\ arena' \in Seq(ClauseType) /\ References' = References
    /\ \A r \in References :
         /\ arena'[r].lits = IF r = ref THEN lits ELSE arena[r].lits
         /\ arena'[r].garbage => arena[r].garbage \/ r = conflict.ref

LEMMA StrengthenLargeInv ==
    ASSUME SearchInv, ~ undo.active, NEW lit, NEW ref, NEW B, ReasonPlan(lit, ref, B),
           NEW lits, ShorterClause(lit, ref, B, lits), LargeArena(ref, lits),
           watches' = StrengthenedWatches(lits, lit, ref),
           conflict' = LargeConflict(ref), StrengthenRest
    PROVE  SearchInv'
<1>1. /\ Follows(B) /\ ref \in References /\ visit = NoVisit
      /\ ~ arena[ref].garbage /\ lit \in Forced /\ lit \in Lit
      /\ reason[Idx(lit)].kind = "large" /\ reason[Idx(lit)].ref = ref /\ lit \in First(ref)
  BY DEF ReasonPlan
<1>2. /\ lits \in Seq(Lit) /\ IsInjective(lits) /\ Len(lits) > 2
      /\ lits[1] \in Lit /\ lits[2] \in Lit /\ lits[1] # lits[2]
      /\ lits[1] # lit /\ lits[2] # lit /\ First(ref) = {lit, lits[1]}
      /\ Shorter(lit, ref, B, lits)
  BY DEF ShorterClause
<1>3. UNCHANGED <<trailVars, visit, formula>> BY DEF StrengthenRest
<1>4. \A D : Follows(D)' <=> Follows(D) BY <1>3, Unmoved
<1>5. /\ arena' \in Seq(ClauseType) /\ References' = References
      /\ \A r \in References :
           /\ arena'[r].lits = IF r = ref THEN lits ELSE arena[r].lits
           /\ arena'[r].garbage => arena[r].garbage \/ r = conflict.ref
  BY DEF LargeArena
<1>6. Follows(ToSet(lits)) BY <1>1, <1>2, FollowsMore DEF Shorter
<1>7. ArenaSound'
  <2>1. ASSUME NEW r \in References
        PROVE  /\ arena'[r].lits \in Seq(Lit) /\ Len(arena'[r].lits) > 2
               /\ IsInjective(arena'[r].lits) /\ Follows(ToSet(arena'[r].lits))
    <3>1. CASE r = ref
      <4>1. arena'[r].lits = lits BY <1>5, <3>1
      <4> QED BY <1>2, <1>6, <4>1
    <3>2. CASE r # ref
      <4>1. arena'[r].lits = arena[r].lits BY <1>5, <3>2
      <4> QED BY <4>1 DEF SearchInv, ArenaSound
    <3> QED BY <3>1, <3>2
  <2> QED BY <1>4, <1>5, <2>1 DEF ArenaSound
<1>8. /\ \A r \in References : r # ref => First(r)' = First(r)
      /\ First(ref)' = {lits[1], lits[2]}
  BY <1>1, <1>5 DEF First
<1>9. StrengthenedArena(ref, lits)
  <2>1. \A r \in References : r # ref => ToSet(arena'[r].lits) = ToSet(arena[r].lits) BY <1>5
  <2>2. ToSet(arena'[ref].lits) = ToSet(lits) BY <1>1, <1>5
  <2> QED BY <1>5, <1>8, <2>1, <2>2 DEF StrengthenedArena
<1>10. ref # conflict.ref BY <1>1, OneReason DEF Fits
<1>11. ref \in Nat /\ ref # 0 BY <1>1 DEF SearchInv, ArenaSound, References
<1>12. StrengthenedConflict(lits)
  <2>1. conflict'.ref = ref BY DEF LargeConflict
  <2>2. conflict' # NoConflict BY <1>11, <2>1 DEF NoConflict
  <2>3. LitsOf(conflict)' = lits BY <1>1, <1>5, <1>11, <2>1 DEF LitsOf
  <2>4. ref \in References' /\ ~ arena'[ref].garbage BY <1>1, <1>5, <1>10
  <2> QED BY <2>1, <2>2, <2>3, <2>4 DEF StrengthenedConflict
<1> PICK E : E = Firsts' OBVIOUS
<1>13. MovesWatch(Firsts, E, ref, lit, lits[1], lits[2])
  <2>1. DOMAIN Firsts = References /\ \A r \in References : Firsts[r] = First(r) BY DEF Firsts
  <2>2. DOMAIN E = References /\ \A r \in References : E[r] = First(r)' BY <1>5 DEF Firsts
  <2>3. E[ref] = {lits[2], lits[1]} BY <1>1, <1>8, <2>2
  <2>4. Firsts[ref] = {lit, lits[1]} /\ ref \in DOMAIN Firsts BY <1>1, <1>2, <2>1
  <2>5. \A r \in DOMAIN Firsts : r \in DOMAIN E /\ (r # ref => E[r] = Firsts[r])
    BY <1>8, <2>1, <2>2
  <2> PICK F : F = Firsts OBVIOUS
  <2>6. MovesWatch(F, E, ref, lit, lits[1], lits[2])
    BY <1>1, <1>2, <1>11, <2>3, <2>4, <2>5 DEF MovesWatch
  <2> QED BY <2>6
<1> PICK K : K = StrengthenedWatches(lits, lit, ref) OBVIOUS
<1>14. K \in Lists /\ HandsSound(formula, E, K) BY <1>13, StrengthenedHands
<1>15. WatchListsOK' /\ WatchesSound'
  <2>1. visit' = NoVisit BY <1>1, <1>3
  <2>2. HandsOf(watches', visit') = watches' BY <1>14, <2>1, HandsIdle
  <2>3. visit' \in VisitType BY <1>3 DEF SearchInv, WatchListsOK
  <2> QED BY <1>3, <1>14, <2>2, <2>3 DEF WatchListsOK, WatchesSound
<1> QED BY <1>2, <1>7, <1>9, <1>12, <1>15, StrengthenEnds

ReplacedIn(X, ref, lits) ==
    /\ X \in Seq(ClauseType) /\ DOMAIN X = References
    /\ \A r \in References : /\ X[r].lits = (IF r = ref THEN lits ELSE arena[r].lits)
                             /\ X[r].garbage = arena[r].garbage

LEMMA LargeAfter ==
    ASSUME NEW ref \in References, NEW lits \in Seq(Lit), NEW X, ReplacedIn(X, ref, lits),
           NEW n, arena' \in {X, Subsumed(X, n)}
    PROVE  LargeArena(ref, lits)
<1> PICK Y : Y = arena' OBVIOUS
<1>0. X \in Seq(ClauseType) /\ DOMAIN X = References BY DEF ReplacedIn
<1>1. /\ Y \in Seq(ClauseType) /\ References' = References
      /\ \A r \in References : /\ Y[r].lits = X[r].lits
                               /\ Y[r].garbage => X[r].garbage \/ r = conflict.ref
  BY <1>0, ArenaAfter
<1>2. \A r \in References :
         /\ Y[r].lits = IF r = ref THEN lits ELSE arena[r].lits
         /\ Y[r].garbage => arena[r].garbage \/ r = conflict.ref
  BY <1>1 DEF ReplacedIn
<1> QED BY <1>1, <1>2 DEF LargeArena

LEMMA Replaced ==
    ASSUME SearchInv, NEW ref \in References, NEW lits \in Seq(Lit)
    PROVE  ReplacedIn([arena EXCEPT ![ref].lits = lits, ![ref].searched = 3], ref, lits)
<1>1. arena \in Seq(ClauseType) /\ References = 1 .. Len(arena)
  BY DEF SearchInv, ArenaSound, References
<1> PICK c : c = arena[ref] OBVIOUS
<1> PICK d : d = [[c EXCEPT !.lits = lits] EXCEPT !.searched = 3] OBVIOUS
<1>2. c \in ClauseType BY <1>1
<1>3. d \in ClauseType /\ d.lits = lits /\ d.garbage = c.garbage BY <1>2 DEF ClauseType
<1>4. [arena EXCEPT ![ref].lits = lits, ![ref].searched = 3] = [arena EXCEPT ![ref] = d]
  BY <1>1
<1> PICK X : X = [arena EXCEPT ![ref] = d] OBVIOUS
<1>5. /\ X \in Seq(ClauseType) /\ DOMAIN X = References
      /\ \A r \in References : /\ X[r].lits = (IF r = ref THEN lits ELSE arena[r].lits)
                               /\ X[r].garbage = arena[r].garbage
  BY <1>1, <1>3
<1> QED BY <1>4, <1>5 DEF ReplacedIn

\* The two ways to strengthen.
LEMMA StrengthenSmall ==
    ASSUME SearchInv, NEW lit, NEW ref \in References, NEW small, small,
           NEW lits, Strengthen(lit, ref, small, lits)
    PROVE  /\ watches' = Unwatched(Unwatched(Watched(watches, lits, 0), arena[ref].lits[1], ref),
                                   arena[ref].lits[2], ref)
           /\ conflict' = BinaryConflict(lits[1], lits[2])
           /\ SmallArena(ref)
<1>1. /\ watches' = Unwatched(Unwatched(Watched(watches, lits, 0), arena[ref].lits[1], ref),
                              arena[ref].lits[2], ref)
      /\ conflict' = BinaryConflict(lits[1], lits[2])
  BY DEF Strengthen
<1>2. \/ arena' = [arena EXCEPT ![ref].garbage = TRUE]
      \/ arena' = Subsumed([arena EXCEPT ![ref].garbage = TRUE], 0)
  BY DEF Strengthen
<1>3. \E X : DiscardedIn(X, ref) /\ arena' \in {X, Subsumed(X, 0)} BY <1>2, Discarded
<1>4. SmallArena(ref) BY <1>3, DiscardedAfter
<1> QED BY <1>1, <1>4

LEMMA StrengthenLarge ==
    ASSUME SearchInv, NEW lit, NEW ref \in References, NEW small, ~ small,
           NEW lits \in Seq(Lit), Strengthen(lit, ref, small, lits)
    PROVE  /\ watches' = StrengthenedWatches(lits, lit, ref)
           /\ conflict' = LargeConflict(ref)
           /\ LargeArena(ref, lits)
<1>1. watches' = StrengthenedWatches(lits, lit, ref) /\ conflict' = LargeConflict(ref)
  BY DEF Strengthen
<1>2. \/ arena' = [arena EXCEPT ![ref].lits = lits, ![ref].searched = 3]
      \/ arena' = Subsumed([arena EXCEPT ![ref].lits = lits, ![ref].searched = 3], ref)
  BY DEF Strengthen
<1>3. \E X : ReplacedIn(X, ref, lits) /\ arena' \in {X, Subsumed(X, ref)} BY <1>2, Replaced
<1>4. LargeArena(ref, lits) BY <1>3, LargeAfter
<1> QED BY <1>1, <1>4

LEMMA DeduceAndStrengthenInv ==
    SearchInv /\ ~ undo.active /\ DeduceAndStrengthen => SearchInv'
<1> SUFFICES ASSUME SearchInv, ~ undo.active, DeduceAndStrengthen PROVE SearchInv'
  OBVIOUS
<1> PICK lit : lit = -Pivot OBVIOUS
<1> PICK ref : ref = reason[Idx(lit)].ref OBVIOUS
<1> PICK B : B = Antecedent(lit) OBVIOUS
<1> PICK small \in BOOLEAN : small = (Cardinality(B) = 2) OBVIOUS
<1>1. /\ Doing("deduce") /\ ~ IsAsserting /\ Strengthens
      /\ \/ small /\ Strengthen(lit, ref, small, Ordered(B))
         \/ ~ small /\ \E lits \in LargeStrengthened(arena[ref], lit) :
                            Strengthen(lit, ref, small, lits)
      /\ StrengthenRest
  BY DEF DeduceAndStrengthen, StrengthenRest, Done, loopVars
<1>2. ReasonPlan(lit, ref, B) BY <1>1, StrengthenFacts
<1>3. /\ ref \in References /\ Cardinality(B) \in Nat /\ Cardinality(B) > 1
      /\ B \in SUBSET Lit /\ IsFiniteSet(B)
  BY <1>2 DEF ReasonPlan
<1>4. CASE small
  <2> PICK lits : lits = Ordered(B) OBVIOUS
  <2>1. Strengthen(lit, ref, small, lits) BY <1>1, <1>4
  <2>2. /\ watches' = Unwatched(Unwatched(Watched(watches, lits, 0), arena[ref].lits[1], ref),
                                arena[ref].lits[2], ref)
        /\ conflict' = BinaryConflict(lits[1], lits[2])
        /\ SmallArena(ref)
    BY <1>3, <1>4, <2>1, StrengthenSmall
  <2>4. IsListing(lits, B) BY <1>3, Listings DEF Ordered
  <2> QED BY <1>1, <1>2, <1>4, <2>2, <2>4, StrengthenSmallInv
<1>5. CASE ~ small
  <2>1. PICK lits \in LargeStrengthened(arena[ref], lit) : Strengthen(lit, ref, small, lits)
    BY <1>1, <1>5
  <2>2. Cardinality(B) > 2
    <3>1. Cardinality(B) # 2 BY <1>5, Zenon
    <3> QED BY <1>3, <3>1
  <2>3. ShorterClause(lit, ref, B, lits) BY <1>2, <2>2, ShorterFacts
  <2>4. lits \in Seq(Lit) BY <2>3 DEF ShorterClause
  <2>5. /\ watches' = StrengthenedWatches(lits, lit, ref)
        /\ conflict' = LargeConflict(ref)
        /\ LargeArena(ref, lits)
    BY <1>3, <1>5, <2>1, <2>4, StrengthenLarge
  <2> QED BY <1>1, <1>2, <2>3, <2>5, StrengthenLargeInv
<1> QED BY <1>4, <1>5

-----------------------------------------------------------------------------
\* The initial states.
LEMMA FiniteImage ==
    ASSUME NEW S, IsFiniteSet(S), NEW f, DOMAIN f = S
    PROVE  IsFiniteSet({f[x] : x \in S})
<1> DEFINE T == {f[x] : x \in S}
           g == [x \in S |-> f[x]]
<1>1. g \in Surjection(S, T) BY DEF Surjection
<1> HIDE DEF g
<1> QED BY <1>1, FS_Surjection

LEMMA InitialList ==
    ASSUME NEW G, NEW F, NEW l \in Lit,
           NEW A, IsFiniteSet(A), A \subseteq WatchType,
           \A w \in A : w.binary /\ WatchOK(G, F, l, w),
           NEW B, IsFiniteSet(B), B \subseteq WatchType,
           \A w \in B : ~ w.binary /\ WatchOK(G, F, l, w),
           \A v, w \in B : v.ref = w.ref => v = w,
           NEW h, h = SetToSeq(A) \o SetToSeq(B)
    PROVE  h \in Seq(WatchType) /\ Once(h) /\ \A i \in DOMAIN h : WatchOK(G, F, l, h[i])
<1> PICK a, b : a = SetToSeq(A) /\ b = SetToSeq(B) OBVIOUS
<1>1. IsListing(a, A) /\ IsListing(b, B) BY Listings
<1>2. a \in Seq(A) /\ b \in Seq(B) /\ IsInjective(b) BY <1>1 DEF IsListing
<1>3. a \in Seq(WatchType) /\ b \in Seq(WatchType) BY <1>2, WiderSeq
<1> PICK m, n \in Nat : m = Len(a) /\ n = Len(b) BY <1>3
<1>4. /\ h \in Seq(WatchType) /\ Len(h) = m + n /\ DOMAIN h = 1 .. m + n
      /\ \A i \in 1 .. m + n : h[i] = IF i <= m THEN a[i] ELSE b[i - m]
  BY <1>3
<1>5. \A i \in 1 .. m : a[i] \in A BY <1>2
<1>6. \A i \in 1 .. n : b[i] \in B BY <1>2
<1>7. ASSUME NEW i \in 1 .. m + n
      PROVE  /\ WatchOK(G, F, l, h[i])
             /\ ~ h[i].binary => i - m \in 1 .. n /\ h[i] = b[i - m]
  <2>1. CASE i <= m
    <3>1. h[i] \in A BY <1>4, <1>5, <2>1
    <3> QED BY <3>1
  <2>2. CASE ~ i <= m
    <3>1. i - m \in 1 .. n /\ h[i] = b[i - m] BY <1>4, <2>2
    <3>2. h[i] \in B BY <1>6, <3>1
    <3> QED BY <3>1, <3>2
  <2> QED BY <2>1, <2>2
<1>8. Once(h)
  <2> SUFFICES ASSUME NEW i \in 1 .. m + n, NEW j \in 1 .. m + n,
                      ~ h[i].binary, Watches(h[j], h[i].ref)
               PROVE  i = j
    BY <1>4 DEF Once
  <2>1. i - m \in 1 .. n /\ h[i] = b[i - m] BY <1>7
  <2>2. j - m \in 1 .. n /\ h[j] = b[j - m] /\ h[j].ref = h[i].ref BY <1>7 DEF Watches
  <2>3. b[i - m] = b[j - m] BY <1>6, <2>1, <2>2
  <2>4. DOMAIN b = 1 .. n BY <1>3
  <2>5. i - m = j - m BY <1>2, <2>1, <2>2, <2>3, <2>4 DEF IsInjective
  <2> QED BY <2>5
<1> QED BY <1>4, <1>7, <1>8

\* The formula's clauses in the arena.
LEMMA InitialClauses ==
    ASSUME NEW F, F \subseteq SUBSET Lit, \A D \in F : Cardinality(D) > 2,
           NEW large, large = InSequence(F)
    PROVE  /\ large \in Seq(Seq(Lit)) /\ DOMAIN large = 1 .. Len(large) /\ Len(large) \in Nat
           /\ \A r \in DOMAIN large :
                /\ large[r] \in Seq(Lit) /\ Len(large[r]) > 2 /\ IsInjective(large[r])
                /\ ToSet(large[r]) \in F
<1>1. IsFiniteSet(F)
  <2>1. IsFiniteSet(SUBSET Lit) BY FiniteLiterals, FS_SUBSET
  <2> QED BY <2>1, FS_Subset
<1> PICK s : s = SetToSeq(F) OBVIOUS
<1>2. IsListing(s, F) BY <1>1, Listings
<1>3. s \in Seq(F) /\ DOMAIN s = 1 .. Len(s) /\ Len(s) \in Nat BY <1>2 DEF IsListing
<1>4. large = [r \in DOMAIN s |-> Ordered(s[r])] BY DEF InSequence
<1>5. ASSUME NEW r \in DOMAIN s
      PROVE  /\ large[r] \in Seq(Lit) /\ Len(large[r]) > 2 /\ IsInjective(large[r])
             /\ ToSet(large[r]) \in F
  <2> PICK D : D = s[r] OBVIOUS
  <2> PICK t : t = SetToSeq(D) OBVIOUS
  <2>1. D \in F /\ D \in SUBSET Lit BY <1>3
  <2>2. IsListing(t, D) BY <2>1, FiniteLiterals, Listings
  <2>3. t \in Seq(D) /\ Len(t) = Cardinality(D) /\ IsInjective(t) /\ ToSet(t) = D
    BY <2>2 DEF IsListing
  <2>4. t \in Seq(Lit) BY <2>1, <2>3, WiderSeq
  <2>5. large[r] = t BY <1>4 DEF Ordered
  <2> QED BY <2>1, <2>3, <2>4, <2>5
<1>6. DOMAIN large = 1 .. Len(s) BY <1>3, <1>4
<1>7. large \in Seq(Seq(Lit))
  <2>1. large \in [1 .. Len(s) -> Seq(Lit)] BY <1>3, <1>4, <1>5
  <2> QED BY <1>3, <2>1
<1> QED BY <1>3, <1>5, <1>6, <1>7

TwoLitWatches(A, F, E, l) ==
    /\ IsFiniteSet(A) /\ A \subseteq WatchType
    /\ \A w \in A : w.binary /\ WatchOK(F, E, l, w)

LongWatches(B, F, E, l) ==
    /\ IsFiniteSet(B) /\ B \subseteq WatchType
    /\ \A w \in B : ~ w.binary /\ WatchOK(F, E, l, w)
    /\ \A v, w \in B : v.ref = w.ref => v = w

ListOK(h, F, E, l) ==
    h \in Seq(WatchType) /\ Once(h) /\ \A i \in DOMAIN h : WatchOK(F, E, l, h[i])

LEMMA InitialLists ==
    ASSUME NEW F, NEW E, NEW l \in Lit, NEW A, NEW B,
           TwoLitWatches(A, F, E, l), LongWatches(B, F, E, l)
    PROVE  ListOK(SetToSeq(A) \o SetToSeq(B), F, E, l)
BY InitialList DEF TwoLitWatches, LongWatches, ListOK

LEMMA AsSequence ==
    ASSUME NEW B, NEW n \in Nat, NEW f \in [1 .. n -> B]
    PROVE  f \in Seq(B)
OBVIOUS

LEMMA InitialBinaries ==
    ASSUME NEW F, F \subseteq SUBSET Lit, \A D \in F : Follows(D) /\ Cardinality(D) = 2,
           NEW E, NEW l \in Lit
    PROVE  TwoLitWatches(BinarySide(l, F), formula, E, l)
<1> DEFINE S == {m \in Lit : {l, m} \in F}
           f == [m \in S |-> BinaryWatch(m)]
<1>1. IsFiniteSet(S) BY FiniteLiterals
<1> PICK A : A = BinarySide(l, F) OBVIOUS
<1>2. A = {f[m] : m \in S} BY DEF BinarySide
<1>3. DOMAIN f = S OBVIOUS
<1>4. ASSUME NEW m \in S
      PROVE  /\ f[m] \in WatchType /\ f[m].binary /\ WatchOK(formula, E, l, f[m])
  <2> PICK w : w = BinaryWatch(m) OBVIOUS
  <2>1. w = [binary |-> TRUE, blocking |-> m, ref |-> 0] BY DEF BinaryWatch
  <2>2. w \in WatchType /\ w.binary /\ w.blocking = m BY <2>1 DEF WatchType
  <2>3. m # l
    <3> SUFFICES ASSUME m = l PROVE FALSE
      OBVIOUS
    <3>1. {l, m} = {l} OBVIOUS
    <3>2. Cardinality({l}) = 1 BY FS_Singleton
    <3>3. {l, m} \in F OBVIOUS
    <3>4. Cardinality({l, m}) = 2 BY <3>3
    <3>5. Cardinality({l}) = 2 BY <3>1, <3>4, Zenon
    <3> QED BY <3>2, <3>5
  <2>4. Entails(formula, {l, m}) BY DEF Follows
  <2>5. WatchOK(formula, E, l, w) BY <2>2, <2>3, <2>4 DEF WatchOK
  <2> QED BY <2>2, <2>5
<1> HIDE DEF S, f
<1>5. IsFiniteSet(A) BY <1>1, <1>2, <1>3, FiniteImage
<1> QED BY <1>2, <1>4, <1>5 DEF TwoLitWatches

LEMMA LongWatch ==
    ASSUME NEW m \in Lit, NEW r \in Nat, NEW w, w = LargeWatch(m, r)
    PROVE  w \in WatchType /\ ~ w.binary /\ w.ref = r
<1>1. w = [binary |-> FALSE, blocking |-> m, ref |-> r] BY DEF LargeWatch
<1> QED BY <1>1 DEF WatchType

LEMMA InitialLarges ==
    ASSUME NEW large \in Seq(Seq(Lit)), DOMAIN large = 1 .. Len(large), Len(large) \in Nat,
           \A r \in DOMAIN large : large[r] \in Seq(Lit) /\ Len(large[r]) > 2,
           NEW G, NEW E, DOMAIN E = DOMAIN large,
           \A r \in DOMAIN large : E[r] = {large[r][1], large[r][2]},
           NEW l \in Lit
    PROVE  LongWatches(LargeSide(l, large), G, E, l)
<1> PICK B : B = LargeSide(l, large) OBVIOUS
<1> DEFINE S == {r \in DOMAIN large : l \in {large[r][1], large[r][2]}}
           f == [r \in S |-> LargeWatch(IF l = large[r][1] THEN large[r][2] ELSE large[r][1], r)]
<1>1. IsFiniteSet(S)
  <2>1. IsFiniteSet(1 .. Len(large)) BY FS_Interval
  <2> QED BY <2>1, FS_Subset
<1>2. B = {f[r] : r \in S} BY DEF LargeSide
<1>3. DOMAIN f = S OBVIOUS
<1>4. ASSUME NEW r \in S
      PROVE  f[r] \in WatchType /\ ~ f[r].binary /\ f[r].ref = r /\ WatchOK(G, E, l, f[r])
  <2> PICK m : m = IF l = large[r][1] THEN large[r][2] ELSE large[r][1] OBVIOUS
  <2>1. m \in Lit
    <3>1. 1 \in 1 .. Len(large[r]) /\ 2 \in 1 .. Len(large[r]) OBVIOUS
    <3> QED BY <3>1
  <2> PICK w : w = LargeWatch(m, r) OBVIOUS
  <2>0. r \in 1 .. Len(large) OBVIOUS
  <2>7. r \in Nat
    <3> PICK n \in Nat : n = Len(large) OBVIOUS
    <3> HIDE DEF S, f
    <3>1. r \in 1 .. n BY <2>0
    <3> QED BY <3>1
  <2>3. w \in WatchType /\ ~ w.binary /\ w.ref = r BY <2>1, <2>7, LongWatch
  <2>4. r \in DOMAIN E /\ l \in E[r] OBVIOUS
  <2>5. WatchOK(G, E, l, w) BY <2>3, <2>4 DEF WatchOK
  <2>6. f[r] = w OBVIOUS
  <2> QED BY <2>3, <2>5, <2>6
<1> HIDE DEF S, f
<1>5. IsFiniteSet(B) BY <1>1, <1>2, <1>3, FiniteImage
<1>6. ASSUME NEW v \in B, NEW w \in B, v.ref = w.ref PROVE v = w
  <2>1. PICK r \in S : v = f[r] BY <1>2
  <2>2. PICK q \in S : w = f[q] BY <1>2
  <2>3. r = q BY <1>4, <1>6, <2>1, <2>2
  <2> QED BY <2>1, <2>2, <2>3
<1> QED BY <1>2, <1>4, <1>5, <1>6 DEF LongWatches

LEMMA SearchInitInv == SearchInit => SearchInv
<1> SUFFICES ASSUME SearchInit PROVE SearchInv
  OBVIOUS
<1>1. /\ TrailInit /\ PropagationInit /\ formula \in Formulas
      /\ todo = <<>> /\ resolvent = {} /\ result = Running
  BY DEF SearchInit
<1> PICK small : small = {D \in formula : Cardinality(D) = 2} OBVIOUS
<1> PICK large : large = InSequence(formula \ small) OBVIOUS
<1>2. /\ arena = [r \in DOMAIN large |-> NewClause(large[r], FALSE)]
      /\ watches = [l \in Lit |-> SetToSeq(BinarySide(l, small)) \o SetToSeq(LargeSide(l, large))]
  BY DEF SearchInit
<1>3. TrailInv BY <1>1, InitInv
<1>4. \A D \in formula : D \in SUBSET Lit /\ Cardinality(D) \in Nat /\ Cardinality(D) > 1
  <2>1. \A D \in formula : D \in SUBSET Lit BY <1>1, SearchAssumption DEF Clause
  <2> QED BY <1>1, <2>1, SearchAssumption, FiniteLiterals
<1>5. \A D \in formula : Follows(D) BY DEF Follows, Entails, Satisfies
<1>6. \A D \in formula \ small : Cardinality(D) > 2 BY <1>4
<1>7. /\ large \in Seq(Seq(Lit)) /\ DOMAIN large = 1 .. Len(large) /\ Len(large) \in Nat
      /\ \A r \in DOMAIN large :
           /\ large[r] \in Seq(Lit) /\ Len(large[r]) > 2 /\ IsInjective(large[r])
           /\ ToSet(large[r]) \in formula \ small
  <2>1. formula \ small \subseteq SUBSET Lit BY <1>4
  <2> QED BY <1>6, <2>1, InitialClauses
<1>8. References = DOMAIN large BY <1>2 DEF References
<1>9. ASSUME NEW r \in DOMAIN large
      PROVE  arena[r] \in ClauseType /\ arena[r].lits = large[r]
  <2>1. arena[r] = NewClause(large[r], FALSE) BY <1>2
  <2>2. arena[r] = [lits |-> large[r], redundant |-> FALSE, garbage |-> FALSE, searched |-> 3]
    BY <2>1 DEF NewClause
  <2> QED BY <1>7, <2>2 DEF ClauseType
<1>10. ArenaSound
  <2>1. arena \in Seq(ClauseType)
    <3>1. arena \in [1 .. Len(large) -> ClauseType] BY <1>2, <1>7, <1>9
    <3> QED BY <1>7, <3>1, AsSequence
  <2>2. ASSUME NEW r \in References
        PROVE  /\ arena[r].lits \in Seq(Lit) /\ Len(arena[r].lits) > 2
               /\ IsInjective(arena[r].lits) /\ Follows(ToSet(arena[r].lits))
    <3>1. r \in DOMAIN large /\ arena[r].lits = large[r] BY <1>8, <1>9
    <3> QED BY <1>5, <1>7, <3>1
  <2> QED BY <2>1, <2>2 DEF ArenaSound
<1>11. watches \in Lists /\ HandsSound(formula, Firsts, watches)
  <2> PICK E : E = Firsts OBVIOUS
  <2>1. DOMAIN E = DOMAIN large /\ \A r \in DOMAIN large : E[r] = {large[r][1], large[r][2]}
    BY <1>8, <1>9 DEF Firsts, First
  <2>2. ASSUME NEW l \in Lit
        PROVE  /\ watches[l] \in Seq(WatchType) /\ Once(watches[l])
               /\ \A i \in DOMAIN watches[l] : WatchOK(formula, E, l, watches[l][i])
    <3>1. TwoLitWatches(BinarySide(l, small), formula, E, l)
      <4>1. small \subseteq SUBSET Lit /\ \A D \in small : Follows(D) /\ Cardinality(D) = 2
        BY <1>4, <1>5
      <4> QED BY <4>1, InitialBinaries
    <3>2. LongWatches(LargeSide(l, large), formula, E, l)
      BY <1>7, <2>1, InitialLarges
    <3>3. ListOK(SetToSeq(BinarySide(l, small)) \o SetToSeq(LargeSide(l, large)), formula, E, l)
      BY <3>1, <3>2, InitialLists
    <3>4. watches[l] = SetToSeq(BinarySide(l, small)) \o SetToSeq(LargeSide(l, large)) BY <1>2
    <3>5. ListOK(watches[l], formula, E, l) BY <3>3, <3>4, Zenon
    <3> QED BY <3>5 DEF ListOK
  <2>3. watches \in Lists
    <3>1. watches = [l \in Lit |-> watches[l]] BY <1>2
    <3> QED BY <2>2, <3>1 DEF Lists
  <2> QED BY <2>2, <2>3 DEF HandsSound
<1>12. visit = NoVisit /\ conflict = NoConflict /\ reason = [v \in Var |-> UnitReason]
  BY <1>1 DEF PropagationInit
<1>13. WatchListsOK /\ WatchesSound
  <2>1. HandsOf(watches, visit) = watches BY <1>11, <1>12, HandsIdle
  <2>2. visit \in VisitType BY <1>12, NoVisitTyped
  <2> QED BY <1>11, <2>1, <2>2 DEF WatchListsOK, WatchesSound
<1>14. \A l \in Lit : values[l] = 0 BY <1>1 DEF TrailInit
<1>15. RootSound BY <1>14 DEF RootSound
<1>16. ReasonsSound
  <2>1. Forced = {} BY <1>14 DEF Forced
  <2>2. UnitReason \in ReasonType BY DEF UnitReason, ReasonType
  <2> QED BY <1>12, <2>1, <2>2 DEF ReasonsSound
<1>17. VisitSound BY <1>12, NoVisitTyped DEF VisitSound
<1>18. ConflictSound BY <1>12 DEF ConflictSound
<1>19. TodoSound /\ ~ Analysis
  <2>1. todo \in Seq(StepType) /\ DOMAIN todo = {} BY <1>1
  <2> QED BY <1>1, <2>1 DEF TodoSound, Analysis
<1>20. ResolventSound BY <1>1, <1>19 DEF ResolventSound
<1>21. RefutationSound BY <1>1 DEF RefutationSound, Running
<1> QED BY <1>1, <1>3, <1>10, <1>13, <1>15, <1>16, <1>17, <1>18, <1>19, <1>20, <1>21
    DEF SearchInv

-----------------------------------------------------------------------------
\* Every step of the search keeps the invariant.
LEMMA HandlerInv == SearchInv /\ ~ undo.active /\ Handler => SearchInv'
BY BacktrackInv, LearnedUnitInv, ForceInv, WatchBinaryInv, SubsumeInv, FailedStepInv,
   FailedDoneInv, DeduceStepInv, DeduceAndLearnInv, DeduceAndStrengthenInv DEF Handler

LEMMA SearchLoopInv == SearchInv /\ SearchLoop => SearchInv'
BY PropagateInv, FlushTrailInv, RootConflictInv, AnalyzeConflictInv, AnswersInv, RestartInv,
   SearchDecideInv DEF SearchLoop

LEMMA SearchNextInv == SearchInv /\ [SearchNext]_searchVars => SearchInv'
BY CheckLineInv, UndoInv, HandlerInv, SearchLoopInv, StoppedInv DEF SearchNext, Stopped

\* For every formula, whatever the options and however the restarts fall.
THEOREM SearchInvariant == SearchSpec => []SearchInv
<1>1. SearchInit => SearchInv BY SearchInitInv
<1>2. SearchInv /\ [SearchNext]_searchVars => SearchInv' BY SearchNextInv
<1> QED BY <1>1, <1>2, PTL DEF SearchSpec

\* Answer 20 is right: no assignment satisfies the formula.
THEOREM SearchRefutes == SearchSpec => []RefutationSound
<1>1. SearchInv => RefutationSound BY DEF SearchInv
<1> QED BY <1>1, SearchInvariant, PTL

\* The trail, the control stack and the values agree throughout the search.
THEOREM SearchTrail == SearchSpec => []TrailInv
<1>1. SearchInv => TrailInv BY DEF SearchInv
<1> QED BY <1>1, SearchInvariant, PTL

-----------------------------------------------------------------------------
\* What the search does to the trail is what the trail's module allows.
LEMMA AssignMoves ==
    ASSUME TrailInv, TrailInv', NEW lit, NEW lvl, Assign(lit, lvl)
    PROVE  TrailNext
<1>1. /\ trail \in Seq(Lit) /\ trail' \in Seq(Lit) /\ trail' = Append(trail, lit)
      /\ level' = [level EXCEPT ![Idx(lit)] = lvl]
      /\ level \in [Var -> Nat] /\ level' \in [Var -> Nat] /\ lvl <= CurrentLevel
  BY DEF TrailInv, TrailTypeOK, Assign, Push
<1>2. lit \in Lit
  <2> PICK n \in Nat : n = Len(trail) BY <1>1
  <2>1. n + 1 \in DOMAIN trail' /\ trail'[n + 1] = lit BY <1>1
  <2> QED BY <1>1, <2>1
<1>3. lvl \in Nat
  <2>1. Idx(lit) \in Var BY <1>2, Values
  <2> QED BY <1>1, <2>1
<1>4. CurrentLevel \in Nat BY DEF TrailInv, TrailTypeOK, CurrentLevel
<1>5. lvl \in 0 .. CurrentLevel BY <1>1, <1>3, <1>4
<1> QED BY <1>2, <1>5 DEF TrailNext

LEMMA BacktrackMoves ==
    ASSUME TrailInv, TrailInv', NEW new, BacktrackStart(new)
    PROVE  TrailNext
<1>1. undo'.to \in Nat BY DEF TrailInv, TrailTypeOK
<1>2. undo'.to = new /\ new < CurrentLevel BY DEF BacktrackStart, Loop
<1>3. CurrentLevel \in Nat BY DEF TrailInv, TrailTypeOK, CurrentLevel
<1>4. new \in 0 .. CurrentLevel BY <1>1, <1>2, <1>3
<1> QED BY <1>4 DEF TrailNext

LEMMA SearchMoves ==
    SearchInv /\ SearchInv' /\ [SearchNext]_searchVars => [TrailNext]_trailVars
<1> SUFFICES ASSUME SearchInv, SearchInv', [SearchNext]_searchVars
             PROVE  TrailNext \/ UNCHANGED trailVars
  OBVIOUS
<1>1. TrailInv /\ TrailInv' BY DEF SearchInv
<1>2. ASSUME NEW lit, NEW lvl, NEW why, AssignReason(lit, lvl, why) PROVE TrailNext
  BY <1>1, <1>2, AssignMoves DEF AssignReason
<1>3. ASSUME NEW lit, NEW other, AssignBinary(lit, other) PROVE TrailNext
  BY <1>2, <1>3 DEF AssignBinary
<1>4. ASSUME NEW lit, NEW ref, AssignReference(lit, ref) PROVE TrailNext
  BY <1>2, <1>4 DEF AssignReference
<1>5. CASE UndoStep BY <1>5 DEF UndoStep, TrailNext
<1>6. CASE Handler
  <2>1. CASE DoBacktrack BY <1>1, <2>1, BacktrackMoves DEF DoBacktrack
  <2>2. CASE DoLearnedUnit BY <1>2, <2>2 DEF DoLearnedUnit
  <2>3. CASE DoForce BY <1>3, <1>4, <2>3 DEF DoForce
  <2>4. CASE DoWatchBinary \/ DoSubsume BY <2>4 DEF DoWatchBinary, DoSubsume
  <2>5. CASE FailedStep \/ FailedDone BY <2>5 DEF FailedStep, FailedDone
  <2>6. CASE DeduceStep BY <2>6 DEF DeduceStep
  <2>7. CASE DeduceAndLearn BY <2>7 DEF DeduceAndLearn
  <2>8. CASE DeduceAndStrengthen BY <2>8 DEF DeduceAndStrengthen
  <2> QED BY <1>6, <2>1, <2>2, <2>3, <2>4, <2>5, <2>6, <2>7, <2>8 DEF Handler
<1>7. CASE Propagate
  <2>1. CASE VisitStart BY <2>1 DEF VisitStart, TrailNext
  <2>2. CASE VisitBinary BY <1>2, <2>2 DEF VisitBinary
  <2>3. CASE VisitForce BY <1>4, <2>3 DEF VisitForce
  <2>4. CASE VisitBlocked \/ VisitGarbage \/ VisitSatisfied
    BY <2>4 DEF VisitBlocked, VisitGarbage, VisitSatisfied
  <2>5. CASE VisitReplace \/ VisitConflict \/ VisitEnd
    BY <2>5 DEF VisitReplace, VisitConflict, VisitEnd
  <2> QED BY <1>7, <2>1, <2>2, <2>3, <2>4, <2>5 DEF Propagate, PropagateStep
<1>8. CASE FlushTrail BY <1>8 DEF FlushTrail, TrailNext
<1>9. CASE SearchDecide BY <1>9 DEF SearchDecide, TrailNext
<1>10. CASE AnalyzeRootConflict \/ AnalyzeConflict BY <1>10 DEF AnalyzeRootConflict, AnalyzeConflict
<1>11. CASE Satisfiable \/ Terminate \/ Restart BY <1>11 DEF Satisfiable, Terminate, Restart
<1>12. CASE CheckLine BY <1>12 DEF CheckLine
<1>13. CASE UNCHANGED searchVars BY <1>13 DEF searchVars
<1> QED BY <1>5, <1>6, <1>7, <1>8, <1>9, <1>10, <1>11, <1>12, <1>13
    DEF SearchNext, SearchLoop, Stopped

\* Inside the search, too, the trail implements the stack of decision levels:
\* a backtrack takes exactly the levels above the new one off, at one step.
THEOREM SearchImplementsStack == SearchSpec => StackSpec
<1>1. SearchInit => TrailInit BY DEF SearchInit
<1>2. TrailInit => Stack!Init BY StartRefines
<1>3. SearchInv => TrailInv BY DEF SearchInv
<1>4. SearchInv /\ SearchInv' /\ [SearchNext]_searchVars => [TrailNext]_trailVars BY SearchMoves
<1>5. TrailInv /\ TrailInv' /\ [TrailNext]_trailVars => [Stack!Next]_(Stack!vars)
  BY StepRefines DEF Stack!vars, Levels
<1> QED BY <1>1, <1>2, <1>3, <1>4, <1>5, SearchInvariant, PTL
    DEF SearchSpec, StackSpec, Stack!Spec

-----------------------------------------------------------------------------
\* Between two handlers every reason supports its literal.
LEMMA MaxLevel ==
    ASSUME SearchInv, NEW l \in Forced, NEW D, D \subseteq Lit, Supported(l, D)
    PROVE  Max(LevelsOf(D)) = LevelOf(l)
<1>1. CurrentLevel \in Nat /\ TrailInv BY DEF SearchInv, TrailInv, TrailTypeOK, CurrentLevel
<1>2. l \in Lit /\ LevelOf(l) \in Nat /\ LevelOf(l) <= CurrentLevel BY <1>1, Values DEF Forced
<1>3. PICK k \in Nat : k = LevelOf(l) BY <1>2
<1>4. \A m \in D : LevelOf(m) \in Nat BY <1>1, Values
<1>5. \A m \in D : LevelOf(m) <= k BY <1>3 DEF Supported
<1>6. \A m \in D : LevelOf(m) \in 0 .. k BY <1>3, <1>4, <1>5
<1> PICK S : S = LevelsOf(D) OBVIOUS
<1>7. S \in SUBSET (0 .. k) BY <1>6 DEF LevelsOf
<1>8. k \in S BY <1>3 DEF Supported, LevelsOf
<1>9. Max(S) \in S /\ \A y \in S : y <= Max(S) BY <1>7, <1>8, MaxFacts
<1>10. PICK x \in 0 .. k : x = Max(S) BY <1>7, <1>9
<1>11. k <= x BY <1>8, <1>9, <1>10
<1>12. x = k BY <1>3, <1>10, <1>11
<1> QED BY <1>3, <1>10, <1>12

SupportedBy(l, D) ==
    /\ Max(LevelsOf(D)) = LevelOf(l)
    /\ \A m \in D : values[m] = -1 /\ (LevelOf(m) = 0 \/ position[Idx(m)] < position[Idx(l)])

LEMMA SupportedFacts ==
    ASSUME SearchInv, NEW l \in Forced, NEW D, D \subseteq Lit, Supported(l, D)
    PROVE  SupportedBy(l, D)
<1>1. \A m \in D : values[m] = -1 /\ (LevelOf(m) = 0 \/ position[Idx(m)] < position[Idx(l)])
  BY DEF Supported, Earlier
<1> QED BY <1>1, MaxLevel DEF SupportedBy

LEMMA AssignedForced ==
    ASSUME SearchInv, ~ undo.active, NEW v \in Var, values[v] # 0, level[v] > 0
    PROVE  \E l \in Forced : l = values[v] * v /\ Idx(l) = v /\ LevelOf(l) = level[v]
<1>1. TrailInv BY DEF SearchInv
<1>2. v \in Lit /\ -v \in Lit /\ Idx(v) = v /\ Idx(-v) = v /\ v \in Nat
  BY NVarsAssumption DEF Lit, Var, Idx
<1>3. values[v] \in {-1, 0, 1} /\ values[-v] = -values[v] BY <1>1, <1>2 DEF TrailInv, TrailTypeOK, SlotsTrue
<1>4. PICK i : i = position[v] + 1 /\ i \in Live /\ Idx(trail[i]) = v
  BY <1>1 DEF TrailInv, AssignedOnTrail
<1>5. level[v] <= CurrentLevel
  BY <1>1, <1>4 DEF TrailInv, LevelBound, CurrentLevel
<1>6. CASE values[v] = 1
  <2>1. v = values[v] * v BY <1>2, <1>6
  <2>2. v \in Forced /\ LevelOf(v) = level[v] BY <1>2, <1>5, <1>6 DEF Forced, LevelOf
  <2> QED BY <1>2, <2>1, <2>2
<1>7. CASE values[v] = -1
  <2>1. -v = values[v] * v
    <3>1. -v = (-1) * v BY <1>2
    <3> QED BY <1>7, <3>1
  <2>2. values[-v] = 1
    <3>1. \A x \in {-1, 0, 1}, y \in {-1, 0, 1} : y = -x /\ x = -1 => y = 1 OBVIOUS
    <3>2. values[v] \in {-1, 0, 1} /\ values[-v] \in {-1, 0, 1}
      BY <1>1, <1>2 DEF TrailInv, TrailTypeOK
    <3> QED BY <1>3, <1>7, <3>1, <3>2, Zenon
  <2>3. -v \in Forced /\ LevelOf(-v) = level[v] BY <1>2, <1>5, <2>2 DEF Forced, LevelOf
  <2> QED BY <1>2, <2>1, <2>3
<1> QED BY <1>3, <1>6, <1>7

LEMMA ReasonsFit == SearchInv => ReasonsSupport
<1> SUFFICES ASSUME SearchInv, Quiet PROVE ReasonsSupport
  BY DEF ReasonsSupport
<1>1. todo = <<>> /\ ~ undo.active /\ conflict = NoConflict BY DEF Quiet
<1>2. \A l : ~ Doomed(l) BY <1>1, LoopIdle DEF Doomed, PastFrontier
<1>3. ASSUME NEW v \in Var, values[v] # 0, level[v] > 0,
             NEW lit, lit = values[v] * v
      PROVE  \/ reason[v].kind = "decision" /\ frames[level[v]].decision = lit
             \/ reason[v].kind = "binary" /\ SupportedBy(lit, {reason[v].other})
             \/ /\ reason[v].kind = "large"
                /\ reason[v].ref \in References
                /\ ~ arena[reason[v].ref].garbage
                /\ lit \in First(reason[v].ref)
                /\ SupportedBy(lit, ToSet(arena[reason[v].ref].lits) \ {lit})
  <2>1. PICK l \in Forced : l = lit /\ Idx(l) = v /\ LevelOf(l) = level[v]
    BY <1>1, <1>3, AssignedForced
  <2>2. ReasonSound(l) /\ Fits(l) BY <1>2 DEF SearchInv, ReasonsSound
  <2>3. PICK why : why = reason[v] OBVIOUS
  <2>4. CASE why.kind = "decision" /\ frames[LevelOf(l)].decision = l BY <2>1, <2>3, <2>4
  <2>5. CASE why.kind = "binary" /\ why.other \in Lit /\ Supported(l, {why.other})
    <3>1. {why.other} \subseteq Lit BY <2>5
    <3>2. SupportedBy(l, {why.other}) BY <2>5, <3>1, SupportedFacts
    <3> QED BY <2>1, <2>3, <2>5, <3>2
  <2>6. CASE /\ why.kind = "large"
             /\ why.ref \in References
             /\ Supported(l, ToSet(arena[why.ref].lits) \ {l})
    <3>1. arena[why.ref].lits \in Seq(Lit) BY <2>6 DEF SearchInv, ArenaSound
    <3>2. ToSet(arena[why.ref].lits) \ {l} \subseteq Lit BY <3>1 DEF ToSet
    <3>3. SupportedBy(l, ToSet(arena[why.ref].lits) \ {l}) BY <2>6, <3>2, SupportedFacts
    <3>4. ~ arena[why.ref].garbage /\ l \in First(why.ref) BY <2>1, <2>2, <2>3, <2>6 DEF Fits
    <3> QED BY <2>1, <2>3, <2>6, <3>3, <3>4
  <2> QED BY <2>1, <2>2, <2>3, <2>4, <2>5, <2>6 DEF ReasonSound
<1>4. ASSUME NEW v \in Var, values[v] # 0, level[v] > 0
      PROVE  Idx(values[v] * v) = v /\ LevelOf(values[v] * v) = level[v]
  BY <1>1, <1>4, AssignedForced
<1> QED BY <1>3, <1>4 DEF ReasonsSupport, SupportedBy, First

\* Conflict analysis may dereference every reason and walk the trail backwards.
THEOREM SearchReasons == SearchSpec => []ReasonsSupport
<1>1. SearchInv => ReasonsSupport BY ReasonsFit
<1> QED BY <1>1, SearchInvariant, PTL

=============================================================================
