-------------------------- MODULE CheckerProofs ---------------------------
(***************************************************************************)
(* The checker inside kissat neither rejects a proof that the external     *)
(* checker accepts, nor accepts a line that its own lines do not justify,  *)
(* for any formula and any number of variables.                            *)
(***************************************************************************)
EXTENDS Checker, Certificate, TLAPS, Recursion

(***************************************************************************)
(* Soundness of the certificate, for every number of variables and every   *)
(* set of formulas.                                                        *)
(***************************************************************************)
\* Literals are closed under negation, which is an involution (NOT of
\* literal.h).
LEMMA NegationInvolutive == \A l \in Lit : -l \in Lit /\ -(-l) = l
BY NVarsAssumption DEF Lit

\* A reverse-unit-propagation consequence is a semantic consequence: the true
\* literals of a model that falsified C would be a closed and consistent set
\* (what dsr-trim's assume_candidate_clause_and_perform_up relies on).
LEMMA RupImplies ==
    ASSUME NEW F \in SUBSET Clause, NEW C \in Clause, HasRup(C, F)
    PROVE  Entails(F, C)
<1>1. SUFFICES ASSUME NEW A \in Assignments, Satisfies(A, F), C \cap A = {}
               PROVE  FALSE
  BY DEF Entails
<1>2. A \subseteq Lit /\ \A l \in Lit : (l \in A) <=> (-l \notin A)
  BY DEF Assignments
<1>3. {} \notin F
  BY <1>1 DEF Satisfies
<1>4. Negation(C) \subseteq A
  <2>1. ASSUME NEW l \in C PROVE -l \in A
    BY <1>1, <1>2, NegationInvolutive DEF Clause
  <2> QED BY <2>1 DEF Negation
<1>5. ClosedUnderPropagation(A, F)
  <2>1. SUFFICES ASSUME NEW D \in F, NEW l \in D, Negation(D \ {l}) \subseteq A
                 PROVE  l \in A
    BY DEF ClosedUnderPropagation
  <2>2. PICK m \in D : m \in A
    BY <1>1 DEF Satisfies
  <2>3. ASSUME m # l PROVE FALSE
    <3>1. -m \in A
      BY <2>1, <2>2, <2>3 DEF Negation
    <3>2. m \in Lit
      BY <2>2, <1>2
    <3> QED BY <3>1, <3>2, <2>2, <1>2
  <2> QED BY <2>2, <2>3
<1>6. ~ Contradictory(A)
  <2>1. ASSUME NEW l \in A, -l \in A PROVE FALSE
    BY <2>1, <1>2
  <2> QED BY <2>1 DEF Contradictory
<1>7. Contradictory(A)
  BY <1>2, <1>3, <1>4, <1>5 DEF HasRup
<1> QED BY <1>6, <1>7

\* Adding an implied clause changes no model, so implication is kept by
\* conjunction with clauses that are themselves implied.
LEMMA ImpliedByImplied ==
    ASSUME NEW F \in SUBSET Clause, NEW G \in SUBSET Clause, NEW C \in Clause,
           \A D \in G : Entails(F, D), Entails(G, C)
    PROVE  Entails(F, C)
<1>1. SUFFICES ASSUME NEW A \in Assignments, Satisfies(A, F)
               PROVE  C \cap A # {}
  BY DEF Entails
<1>2. Satisfies(A, G)
  BY <1>1 DEF Entails, Satisfies
<1> QED BY <1>2 DEF Entails

IInv == TypeOK /\ Implied

LEMMA InitIInv == Init => IInv
<1>1. SUFFICES ASSUME Init PROVE IInv
  OBVIOUS
<1>2. DOMAIN db = formula /\ \A C \in formula : db[C] = 1
  BY <1>1 DEF Init, SetToBag
<1>3. formula \subseteq Clause
  BY <1>1, FormulasAssumption DEF Init
<1>4. \A C \in formula : Entails(formula, C)
  BY DEF Entails, Satisfies
<1> QED BY <1>1, <1>2, <1>3, <1>4
        DEF IInv, TypeOK, Implied, Clauses, BagToSet, Init

LEMMA AddIInv ==
    ASSUME NEW C \in Clause, IInv, Add(C)
    PROVE  IInv'
<1>0. SetToBag({C}) = [e \in {C} |-> 1]
  BY DEF SetToBag
<1>1. /\ DOMAIN db' = DOMAIN db \cup {C}
      /\ \A D \in DOMAIN db' : db'[D] \in Nat \ {0}
  <2>1. db' = [e \in DOMAIN db \cup {C} |->
                 (IF e \in DOMAIN db THEN db[e] ELSE 0)
                   + (IF e \in {C} THEN 1 ELSE 0)]
    BY <1>0, SMT DEF Add, (+)
  <2> QED BY <2>1 DEF IInv, TypeOK
<1>2. DOMAIN db \subseteq Clause /\ formula \subseteq Clause
  BY FormulasAssumption DEF IInv, TypeOK
<1>3. Entails(DOMAIN db, C)
  BY <1>2, RupImplies DEF Add, Clauses, BagToSet
<1>4. Entails(formula, C)
  BY <1>2, <1>3, ImpliedByImplied DEF IInv, Implied, Clauses, BagToSet
<1>5. formula' = formula
  BY DEF Add
<1> QED BY <1>1, <1>2, <1>4, <1>5
        DEF IInv, TypeOK, Implied, Clauses, BagToSet

LEMMA DeleteIInv ==
    ASSUME NEW C \in Clause, IInv, Delete(C)
    PROVE  IInv'
<1>0. SetToBag({C}) = [e \in {C} |-> 1]
  BY DEF SetToBag
<1>1. /\ DOMAIN db' \subseteq DOMAIN db
      /\ \A D \in DOMAIN db' : db'[D] \in Nat \ {0}
  <2> DEFINE Left == [e \in DOMAIN db |->
                        IF e \in {C} THEN db[e] - 1 ELSE db[e]]
             Kept == {d \in DOMAIN Left : Left[d] > 0}
  <2>1. db' = [e \in Kept |-> Left[e]]
    BY <1>0, SMT DEF Delete, (-)
  <2>2. \A e \in DOMAIN db : Left[e] \in Int
    BY DEF IInv, TypeOK
  <2>3. \A e \in Kept : e \in DOMAIN db /\ Left[e] \in Nat \ {0}
    BY <2>2
  <2> HIDE DEF Left, Kept
  <2> QED BY <2>1, <2>3
<1>5. formula' = formula
  BY DEF Delete
<1> QED BY <1>1, <1>5 DEF IInv, TypeOK, Implied, Clauses, BagToSet

LEMMA NextIInv == IInv /\ [Next]_vars => IInv'
<1>1. ASSUME IInv, UNCHANGED vars PROVE IInv'
  BY <1>1 DEF IInv, TypeOK, Implied, Clauses, vars
<1> QED BY <1>1, AddIInv, DeleteIInv DEF Next

\* Whatever lines the solver writes and the checker accepts, the checker's
\* clauses stay implied by the input formula.
THEOREM CertificateImplied == Spec => []Implied
<1>1. IInv => Implied
  BY DEF IInv
<1> QED BY <1>1, InitIInv, NextIInv, PTL DEF Spec

\* A certificate that reaches the empty clause refutes the input formula: the
\* exit code 20 of a run whose proof was accepted is never wrong.
THEOREM CertificateRefutes == Spec => []Refutes
<1>1. IInv => Refutes
  <2>1. ASSUME Implied, {} \in Clauses PROVE Unsatisfiable(formula)
    <3>1. Entails(formula, {})
      BY <2>1 DEF Implied
    <3> QED BY <3>1 DEF Entails, Unsatisfiable
  <2> QED BY <2>1 DEF IInv, Refutes
<1> QED BY <1>1, InitIInv, NextIInv, PTL DEF Spec

-----------------------------------------------------------------------------
\* T is what unit propagation of F makes of S: it is closed, every literal it
\* adds is the last of a clause that is not false, and it is part of every
\* model that contains S.
Propagates(T, S, F) ==
    /\ S \subseteq T
    /\ T \subseteq Lit
    /\ UP!UnitLiterals(T, F) \subseteq T
    /\ \A l \in T \ S : \E D \in F : l \in D /\ D \ {l} \subseteq Negation(T)
    /\ \A A \in Assignments : Satisfies(A, F) /\ S \subseteq A => T \subseteq A

LEMMA LiteralsFinite == IsFiniteSet(Lit)
<1>1. -NVars \in Int /\ NVars \in Int BY NVarsAssumption
<1>2. IsFiniteSet(-NVars .. NVars) BY <1>1, FS_Interval
<1> QED BY <1>2, FS_Subset DEF Lit

LEMMA UnitLiteral ==
    ASSUME NEW F, NEW T
    PROVE  \A l : l \in UP!UnitLiterals(T, F) <=> \E C \in F : C \ UP!Neg(T) = {l}
<1> DEFINE false == UP!Neg(T)
<1>1. UP!UnitLiterals(T, F)
        = UNION {open \in {C \ false : C \in F} : \E l \in open : open = {l}}
  BY DEF UP!UnitLiterals
<1> HIDE DEF false
<1>2. ASSUME NEW l, l \in UP!UnitLiterals(T, F) PROVE \E C \in F : C \ false = {l}
  <2>1. PICK C \in F : l \in C \ false /\ \E m \in C \ false : C \ false = {m}
    BY <1>1, <1>2
  <2> QED BY <2>1
<1>3. ASSUME NEW l, NEW C \in F, C \ false = {l} PROVE l \in UP!UnitLiterals(T, F)
  <2>1. C \ false \in {D \ false : D \in F} OBVIOUS
  <2>2. \E m \in C \ false : C \ false = {m} BY <1>3
  <2>3. C \ false \in {open \in {D \ false : D \in F} : \E m \in open : open = {m}}
    BY <2>1, <2>2
  <2> QED BY <1>1, <1>3, <2>3
<1> QED BY <1>2, <1>3 DEF false

\* A clause whose other literals are false forces its last one in a model.
LEMMA ForcedHolds ==
    ASSUME NEW F \in SUBSET Clause, NEW T \in SUBSET Lit, NEW A \in Assignments,
           Satisfies(A, F), T \subseteq A
    PROVE  UP!UnitLiterals(T, F) \subseteq A
<1> SUFFICES ASSUME NEW l \in UP!UnitLiterals(T, F) PROVE l \in A OBVIOUS
<1>1. PICK C \in F : C \ UP!Neg(T) = {l} BY UnitLiteral
<1>2. PICK m \in C : m \in A BY DEF Satisfies
<1>3. C \subseteq Lit BY DEF Clause
<1>4. m \notin UP!Neg(T)
  <2> SUFFICES ASSUME NEW n \in T, m = -n PROVE FALSE BY DEF UP!Neg
  <2>1. n \in A /\ n \in Lit /\ -n \in A BY <1>2
  <2> QED BY <2>1 DEF Assignments
<1> QED BY <1>1, <1>2, <1>4

LEMMA ClosurePropagates ==
    ASSUME NEW F \in SUBSET Clause, NEW S \in SUBSET Lit
    PROVE  Propagates(UP!UnitClosure(S, F), S, F)
<1> DEFINE X == S \cup UNION F
           U(T) == UP!UnitLiterals(T, F)
           s == [T \in SUBSET X |-> T \cup U(T)]
           Step(f, T) == IF U(T) \subseteq T THEN T ELSE f[T \cup U(T)]
           c == CHOOSE f : f = [T \in SUBSET X |-> Step(f, T)]
<1>1. X \subseteq Lit /\ IsFiniteSet(X)
  <2>1. X \subseteq Lit BY DEF Clause
  <2> QED BY <2>1, LiteralsFinite, FS_Subset
<1>2. \A T : U(T) \subseteq X
  BY UnitLiteral
<1> HIDE DEF X, U
<1>3. Adds(s, X)
  BY <1>2 DEF Adds
<1>4. PICK f \in [SUBSET X -> SUBSET X] : Fixpoint(f, s, X)
  <2> HIDE DEF s
  <2> QED BY <1>1, <1>3, FixpointExists
<1>5. \A T \in SUBSET X : f[T] = Step(f, T)
  <2> SUFFICES ASSUME NEW T \in SUBSET X PROVE f[T] = Step(f, T) OBVIOUS
  <2>1. f[T] = IF s[T] = T THEN T ELSE f[s[T]] BY <1>4 DEF Fixpoint
  <2>2. s[T] = T \cup U(T) BY <1>2
  <2>3. U(T) \subseteq T <=> T \cup U(T) = T OBVIOUS
  <2> HIDE DEF s
  <2> QED BY <2>1, <2>2, <2>3
<1>6. f = [T \in SUBSET X |-> Step(f, T)]
  <2>1. f = [T \in SUBSET X |-> f[T]] OBVIOUS
  <2> HIDE DEF Step
  <2> QED BY <1>5, <2>1
<1>7. c = [T \in SUBSET X |-> Step(c, T)]
  <2> HIDE DEF Step
  <2> QED BY <1>6
<1>8. UP!UnitClosure(S, F) = c[S]
  BY DEF UP!UnitClosure, X, U
<1> HIDE DEF c, s
<1>9. \A T \in SUBSET X : c[T] = Step(c, T)
  <2> HIDE DEF Step
  <2> QED BY <1>7
<1> DEFINE P == {T \in SUBSET X : Propagates(c[T], T, F)}
<1>10. ASSUME NEW T \in SUBSET X,
              \A V \in SUBSET X : T \subseteq V /\ T # V => V \in P
       PROVE  T \in P
  <2>1. CASE U(T) \subseteq T
    <3>1. c[T] = T BY <1>9, <2>1
    <3>2. Propagates(T, T, F) BY <1>1, <2>1 DEF Propagates, U
    <3> QED BY <3>1, <3>2
  <2>2. CASE ~ (U(T) \subseteq T)
    <3> DEFINE V == T \cup U(T)
    <3>1. V \in SUBSET X /\ T \subseteq V /\ T # V BY <1>2, <2>2
    <3>2. c[T] = c[V] /\ Propagates(c[V], V, F) BY <1>9, <1>10, <2>2, <3>1
    <3>3. ASSUME NEW l \in c[V] \ T PROVE \E D \in F : l \in D /\ D \ {l} \subseteq Negation(c[V])
      <4>1. CASE l \in V
        <5>1. PICK D \in F : D \ UP!Neg(T) = {l}
          BY <3>3, <4>1, UnitLiteral DEF U
        <5>2. UP!Neg(T) \subseteq Negation(c[V])
          BY <3>1, <3>2 DEF UP!Neg, Negation, Propagates
        <5>3. l \in D /\ D \ {l} \subseteq Negation(c[V]) BY <5>1, <5>2
        <5> QED BY <5>3
      <4>2. CASE l \notin V BY <3>2, <3>3, <4>2 DEF Propagates
      <4> QED BY <4>1, <4>2
    <3>4. ASSUME NEW A \in Assignments, Satisfies(A, F), T \subseteq A PROVE c[V] \subseteq A
      <4>1. T \in SUBSET Lit BY <1>1
      <4>2. U(T) \subseteq A BY <3>4, <4>1, ForcedHolds DEF U
      <4>3. V \subseteq A BY <3>4, <4>2
      <4> QED BY <3>2, <3>4, <4>3 DEF Propagates
    <3> HIDE DEF V
    <3>5. Propagates(c[V], T, F)
      BY <3>1, <3>2, <3>3, <3>4 DEF Propagates
    <3> QED BY <3>2, <3>5
  <2> QED BY <2>1, <2>2
<1>11. \A T \in SUBSET X : T \in P
  <2> HIDE DEF P
  <2> QED BY <1>1, <1>10, GrowthInduction
<1>12. S \in SUBSET X BY DEF X
<1> QED BY <1>8, <1>11, <1>12

\* A contradiction that propagation derives shows as a falsified clause.
Consistent(S) == \A l \in S : -l \notin S

LEMMA NoConflict ==
    ASSUME NEW F \in SUBSET Clause, NEW S \in SUBSET Lit, NEW T, Propagates(T, S, F),
           Consistent(S), ~ UP!Conflicting(T, F)
    PROVE  /\ Consistent(T)
           /\ \A D \in F : \A l \in D : Negation(D \ {l}) \subseteq T => l \in T
<1>1. T \subseteq Lit /\ S \subseteq T /\ UP!UnitLiterals(T, F) \subseteq T
      /\ \A l \in T \ S : \E D \in F : l \in D /\ D \ {l} \subseteq Negation(T)
  BY DEF Propagates
<1>2. ASSUME NEW l \in T, -l \in T, l \notin S PROVE FALSE
  <2>1. PICK D \in F : l \in D /\ D \ {l} \subseteq Negation(T) BY <1>1, <1>2
  <2>2. -(-l) = l BY <1>1, NegationInvolutive
  <2>3. l \in Negation(T) BY <1>2, <2>2 DEF Negation
  <2>4. D \subseteq UP!Neg(T) BY <2>1, <2>3 DEF UP!Neg, Negation
  <2> QED BY <2>4 DEF UP!Conflicting
<1>3. ASSUME NEW l \in T, -l \in T PROVE FALSE
  <2>1. -(-l) = l BY <1>1, NegationInvolutive
  <2>2. l \in S /\ -l \in S BY <1>2, <1>3, <2>1
  <2> QED BY <2>2 DEF Consistent
<1>4. ASSUME NEW D \in F, NEW l \in D, Negation(D \ {l}) \subseteq T PROVE l \in T
  <2>1. D \subseteq Lit BY DEF Clause
  <2>2. ASSUME NEW m \in D, m # l PROVE m \in UP!Neg(T)
    <3>1. -m \in T /\ -(-m) = m BY <1>4, <2>1, <2>2, NegationInvolutive DEF Negation
    <3> QED BY <3>1 DEF UP!Neg
  <2>3. l \notin UP!Neg(T) BY <2>2 DEF UP!Conflicting
  <2>4. D \ UP!Neg(T) = {l} BY <2>2, <2>3
  <2>5. l \in UP!UnitLiterals(T, F) BY <2>4, UnitLiteral
  <2> QED BY <1>1, <2>5
<1> QED BY <1>3, <1>4 DEF Consistent

-----------------------------------------------------------------------------
\* Lines with multiplicity.
LineBags == UNION {[S -> Nat \ {0}] : S \in SUBSET Clause}

Copies(b, C) == IF C \in DOMAIN b THEN b[C] ELSE 0

LEMMA BagFacts ==
    ASSUME NEW b \in LineBags
    PROVE  /\ BagToSet(b) = DOMAIN b /\ DOMAIN b \subseteq Clause
           /\ \A C : BagIn(C, b) <=> C \in DOMAIN b
           /\ \A C \in DOMAIN b : b[C] \in Nat \ {0}
           /\ \A C : Copies(b, C) \in Nat /\ (Copies(b, C) # 0 <=> C \in DOMAIN b)
BY DEF LineBags, BagToSet, BagIn, Copies

LEMMA BagAdd ==
    ASSUME NEW b \in LineBags, NEW C \in Clause
    PROVE  /\ b (+) SetToBag({C}) \in LineBags
           /\ DOMAIN (b (+) SetToBag({C})) = DOMAIN b \cup {C}
           /\ \A D : Copies(b (+) SetToBag({C}), D) = Copies(b, D) + (IF D = C THEN 1 ELSE 0)
<1> DEFINE a == b (+) SetToBag({C})
<1>0. SetToBag({C}) = [e \in {C} |-> 1]
  BY DEF SetToBag
<1>1. a = [e \in DOMAIN b \cup {C} |->
             (IF e \in DOMAIN b THEN b[e] ELSE 0) + (IF e \in {C} THEN 1 ELSE 0)]
  BY <1>0, SMT DEF (+)
<1> HIDE DEF a
<1>2. DOMAIN a = DOMAIN b \cup {C} BY <1>1
<1>3. \A e \in DOMAIN a : a[e] = Copies(b, e) + (IF e = C THEN 1 ELSE 0)
  BY <1>1 DEF Copies
<1>4. \A e \in DOMAIN a : a[e] \in Nat \ {0}
  BY <1>2, <1>3, BagFacts
<1>5. a = [e \in DOMAIN a |-> a[e]] BY <1>1
<1>6. a \in LineBags
  <2>1. DOMAIN a \in SUBSET Clause BY <1>2, BagFacts
  <2>2. a \in [DOMAIN a -> Nat \ {0}] BY <1>4, <1>5
  <2> QED BY <2>1, <2>2 DEF LineBags
<1>7. \A D : Copies(a, D) = Copies(b, D) + (IF D = C THEN 1 ELSE 0)
  BY <1>2, <1>3, BagFacts DEF Copies
<1> QED BY <1>2, <1>6, <1>7 DEF a

LEMMA BagRemove ==
    ASSUME NEW b \in LineBags, NEW C \in DOMAIN b
    PROVE  /\ b (-) SetToBag({C}) \in LineBags
           /\ DOMAIN (b (-) SetToBag({C})) \subseteq DOMAIN b
           /\ \A D : Copies(b (-) SetToBag({C}), D) = Copies(b, D) - (IF D = C THEN 1 ELSE 0)
<1> DEFINE a == b (-) SetToBag({C})
           left == [e \in DOMAIN b |-> IF e \in {C} THEN b[e] - 1 ELSE b[e]]
           kept == {d \in DOMAIN left : left[d] > 0}
<1>0. SetToBag({C}) = [e \in {C} |-> 1]
  BY DEF SetToBag
<1>1. a = [e \in kept |-> left[e]]
  BY <1>0, SMT DEF (-)
<1>2. \A e \in DOMAIN b : left[e] = Copies(b, e) - (IF e = C THEN 1 ELSE 0)
  BY BagFacts DEF Copies
<1>3. DOMAIN left = DOMAIN b OBVIOUS
<1>4. \A e \in DOMAIN b : left[e] \in Nat
  BY <1>2, BagFacts
<1>5. kept \subseteq DOMAIN b /\ \A e \in DOMAIN b : e \in kept <=> left[e] # 0
  <2> HIDE DEF left
  <2> QED BY <1>3, <1>4
<1> HIDE DEF a, left, kept
<1>6. DOMAIN a = kept /\ \A e \in kept : a[e] = left[e] BY <1>1
<1>7. a \in LineBags
  <2>1. kept \in SUBSET Clause BY <1>5, BagFacts
  <2>2. a \in [kept -> Nat \ {0}] BY <1>1, <1>4, <1>5
  <2> QED BY <2>1, <2>2 DEF LineBags
<1>8. ASSUME NEW D PROVE Copies(a, D) = Copies(b, D) - (IF D = C THEN 1 ELSE 0)
  <2>1. CASE D \in kept BY <1>2, <1>5, <1>6, <2>1 DEF Copies
  <2>2. CASE D \in DOMAIN b \ kept
    <3>1. Copies(a, D) = 0 BY <1>6, <2>2 DEF Copies
    <3>2. left[D] = 0 BY <1>5, <2>2
    <3> QED BY <1>2, <2>2, <3>1, <3>2
  <2>3. CASE D \notin DOMAIN b
    <3>1. Copies(a, D) = 0 /\ Copies(b, D) = 0 BY <1>5, <1>6, <2>3 DEF Copies
    <3>2. D # C BY <2>3
    <3>3. (IF D = C THEN 1 ELSE 0) = 0 BY <3>2
    <3>4. 0 = 0 - 0 OBVIOUS
    <3> QED BY <3>1, <3>3, <3>4, Zenon
  <2> QED BY <1>5, <2>1, <2>2, <2>3
<1> QED BY <1>5, <1>6, <1>7, <1>8 DEF a

-----------------------------------------------------------------------------
\* What the checker keeps: lines of two or more literals, all of which count
\* as used, and root values without a contradiction unless it is inconsistent.
CheckerStates ==
    [inconsistent : BOOLEAN, values : SUBSET Lit, lines : LineBags,
     used : SUBSET Lit, large : SUBSET Lit]

Kept(c) ==
    /\ c \in CheckerStates
    /\ \A D \in Lines(c) : /\ \E l, m \in D : l # m
                           /\ D \subseteq c.used
                           /\ Cardinality(D) > 2 => D \subseteq c.large
                           /\ Cardinality(D) \in Nat /\ Cardinality(D) >= 2
    /\ ~ c.inconsistent => Consistent(c.values)

\* Every line that the external checker holds is redundant or kept as often.
Mirrors(c, b, waiting) ==
    \A D \in Clause : Redundant(c, D) \/ D \in waiting \/ Copies(b, D) <= Copies(c.lines, D)

LEMMA ClausesFinite ==
    ASSUME NEW C \in Clause
    PROVE  IsFiniteSet(C) /\ Cardinality(C) \in Nat
BY LiteralsFinite, FS_Subset, FS_CardinalityType DEF Clause

LEMMA PropagatedKeeps ==
    ASSUME NEW c, Kept(c)
    PROVE  /\ Kept(Propagated(c))
           /\ \A C : Redundant(c, C) => Redundant(Propagated(c), C)
           /\ Propagated(c).lines = c.lines
           /\ ~ Propagated(c).inconsistent =>
                /\ ~ UP!Conflicting(Propagated(c).values, Lines(c))
                /\ Propagates(Propagated(c).values, c.values, Lines(c))
<1> DEFINE p == Propagated(c)
           values == UP!UnitClosure(c.values, Lines(c))
<1>1. c \in CheckerStates /\ c.lines \in LineBags /\ c.values \in SUBSET Lit
  BY DEF Kept, CheckerStates
<1>2. Lines(c) \in SUBSET Clause BY <1>1, BagFacts DEF Lines
<1>3. Propagates(values, c.values, Lines(c)) BY <1>1, <1>2, ClosurePropagates
<1> HIDE DEF values
<1>4. CASE c.inconsistent
  <2>1. p = c BY <1>4 DEF Propagated
  <2> QED BY <1>4, <2>1
<1>5. CASE ~ c.inconsistent
  <2>1. p = [c EXCEPT !.values = values, !.inconsistent = UP!Conflicting(values, Lines(c))]
    BY <1>5 DEF Propagated, values
  <2>2. /\ p.values = values /\ p.inconsistent = UP!Conflicting(values, Lines(c))
        /\ p.lines = c.lines /\ p.used = c.used /\ p.large = c.large
    BY <1>1, <2>1 DEF CheckerStates
  <2>3. p \in CheckerStates
    <3>1. values \in SUBSET Lit BY <1>3 DEF Propagates
    <3>2. UP!Conflicting(values, Lines(c)) \in BOOLEAN BY DEF UP!Conflicting
    <3> QED BY <1>1, <2>1, <3>1, <3>2 DEF CheckerStates
  <2>4. ~ p.inconsistent => Consistent(p.values)
    BY <1>1, <1>2, <1>3, <1>5, <2>2, NoConflict DEF Kept
  <2>5. Lines(p) = Lines(c) BY <2>2 DEF Lines
  <2> HIDE DEF p
  <2>6. Kept(p) BY <2>2, <2>3, <2>4, <2>5 DEF Kept
  <2>7. ASSUME NEW C, Redundant(c, C) PROVE Redundant(p, C)
    <3>1. c.values \subseteq p.values BY <1>3, <2>2 DEF Propagates
    <3> QED BY <1>5, <2>7, <3>1 DEF Redundant
  <2> QED BY <1>3, <2>2, <2>6, <2>7 DEF p
<1> QED BY <1>4, <1>5

LEMMA PropagatedMirrors ==
    ASSUME NEW c, Kept(c), NEW b, NEW waiting, Mirrors(c, b, waiting)
    PROVE  Mirrors(Propagated(c), b, waiting)
BY PropagatedKeeps DEF Mirrors

\* A line that is handed over is kept, or makes itself redundant.
LEMMA InsertKeeps ==
    ASSUME NEW c, Kept(c), NEW C \in Clause
    PROVE  /\ Kept(Insert(c, C))
           /\ \A D : Redundant(c, D) => Redundant(Insert(c, C), D)
           /\ \A D : Copies(Insert(c, C).lines, D) >= Copies(c.lines, D)
           /\ \/ Redundant(Insert(c, C), C)
              \/ Copies(Insert(c, C).lines, C) = Copies(c.lines, C) + 1
<1> DEFINE i == Insert(c, C)
           open == C \ Negation(c.values)
<1>1. c \in CheckerStates /\ c.lines \in LineBags /\ c.values \in SUBSET Lit
      /\ C \subseteq Lit /\ \A D : Copies(c.lines, D) \in Nat
  BY BagFacts DEF Kept, CheckerStates, Clause
<1>2. CASE Redundant(c, C)
  <2>1. i = c BY <1>2 DEF Insert
  <2> QED BY <1>1, <1>2, <2>1
<1>3. CASE ~ Redundant(c, C) /\ open = {}
  <2>1. i = [c EXCEPT !.inconsistent = TRUE]
    <3>1. Cardinality({}) = 0 BY FS_EmptySet
    <3> QED BY <1>3, <3>1 DEF Insert
  <2>2. i \in CheckerStates /\ i.inconsistent /\ i.lines = c.lines
        /\ i.used = c.used /\ i.large = c.large
    BY <1>1, <2>1 DEF CheckerStates
  <2> HIDE DEF i
  <2>3. Kept(i) BY <2>2 DEF Kept, Lines
  <2> QED BY <1>1, <2>2, <2>3 DEF Redundant, i
<1>4. CASE ~ Redundant(c, C) /\ open # {} /\ Cardinality(open) = 1
  <2>1. i = [c EXCEPT !.values = @ \cup open] BY <1>4 DEF Insert
  <2>2. IsFiniteSet(open) BY ClausesFinite, FS_Subset
  <2>3. PICK l : open = {l} BY <1>4, <2>2, FS_Singleton
  <2>4. /\ i \in CheckerStates /\ i.values = c.values \cup {l} /\ i.lines = c.lines
        /\ i.inconsistent = c.inconsistent /\ i.used = c.used /\ i.large = c.large
    BY <1>1, <2>1, <2>3 DEF CheckerStates
  <2>5. l \in C /\ l \notin Negation(c.values) /\ l \in Lit BY <1>1, <2>3
  <2>6. Consistent(c.values) => Consistent(i.values)
    <3>1. -(-l) = l /\ -l # l BY <2>5, NVarsAssumption DEF Lit
    <3>2. \A m \in c.values : -(-m) = m BY <1>1, NegationInvolutive
    <3>3. -l \notin c.values BY <2>5, <3>1 DEF Negation
    <3>4. \A m \in c.values : -m # l BY <2>5 DEF Negation
    <3> QED BY <2>4, <3>1, <3>3, <3>4 DEF Consistent
  <2> HIDE DEF i
  <2>7. Kept(i) BY <2>4, <2>6 DEF Kept, Lines
  <2> QED BY <1>1, <2>4, <2>5, <2>7 DEF Redundant, i
<1>5. CASE ~ Redundant(c, C) /\ open # {} /\ Cardinality(open) # 1
  <2> DEFINE lines == c.lines (+) SetToBag({C})
  <2>1. i = UseLine([c EXCEPT !.lines = lines], C) BY <1>5 DEF Insert
  <2>2. /\ lines \in LineBags /\ DOMAIN lines = DOMAIN c.lines \cup {C}
        /\ \A D : Copies(lines, D) = Copies(c.lines, D) + (IF D = C THEN 1 ELSE 0)
    BY <1>1, BagAdd
  <2> HIDE DEF lines
  <2>3. /\ i \in CheckerStates /\ i.inconsistent = c.inconsistent /\ i.values = c.values
        /\ i.lines = lines /\ i.used = c.used \cup C
        /\ i.large = IF Cardinality(C) > 2 THEN c.large \cup C ELSE c.large
    <3> DEFINE k == [c EXCEPT !.lines = lines]
    <3>1. /\ k \in CheckerStates /\ k.inconsistent = c.inconsistent /\ k.values = c.values
          /\ k.lines = lines /\ k.used = c.used /\ k.large = c.large
      BY <1>1, <2>2 DEF CheckerStates
    <3> HIDE DEF k
    <3>2. i = UseLine(k, C) BY <2>1 DEF k
    <3>3. i = [k EXCEPT !.used = k.used \cup C,
                        !.large = IF Cardinality(C) > 2 THEN k.large \cup C ELSE k.large]
      BY <3>1, <3>2 DEF UseLine, CheckerStates
    <3> HIDE DEF i
    <3> QED BY <1>1, <3>1, <3>3 DEF CheckerStates
  <2>4. (\E l, m \in C : l # m) /\ Cardinality(C) \in Nat /\ Cardinality(C) >= 2
    <3>1. IsFiniteSet(C) /\ IsFiniteSet(open) /\ Cardinality(C) \in Nat
      BY ClausesFinite, FS_Subset
    <3>2. PICK l : l \in open BY <1>5
    <3>3. \E m \in open : m # l
      <4> SUFFICES ASSUME open = {l} PROVE FALSE BY <3>2
      <4> QED BY <1>5, FS_Singleton
    <3>4. PICK m \in open : m # l BY <3>3
    <3>5. {l, m} \subseteq C /\ Cardinality({l, m}) = 2
      <4>1. Cardinality({l}) = 1 /\ IsFiniteSet({l}) BY FS_Singleton
      <4>2. {l, m} = {l} \cup {m} /\ m \notin {l} BY <3>4
      <4>3. Cardinality({l} \cup {m}) = 1 + 1 BY <4>1, <4>2, FS_AddElement
      <4> QED BY <3>2, <4>2, <4>3
    <3>6. Cardinality({l, m}) <= Cardinality(C) BY <3>1, <3>5, FS_Subset
    <3> HIDE DEF open
    <3> QED BY <3>1, <3>4, <3>5, <3>6
  <2>5. Lines(i) = Lines(c) \cup {C}
    BY <1>1, <2>2, <2>3, BagFacts DEF Lines
  <2> HIDE DEF i
  <2>6. Kept(i) BY <2>3, <2>4, <2>5 DEF Kept
  <2>7. \A D : Redundant(c, D) => Redundant(i, D) BY <2>3 DEF Redundant
  <2> QED BY <1>1, <2>2, <2>3, <2>6, <2>7 DEF i
<1> QED BY <1>2, <1>3, <1>4, <1>5

\* A line that is taken out was redundant or kept.
LEMMA RemoveKeeps ==
    ASSUME NEW c, Kept(c), NEW C \in Clause, Removable(c, C)
    PROVE  /\ Kept(Remove(c, C))
           /\ \A D : Redundant(c, D) <=> Redundant(Remove(c, C), D)
           /\ \/ Redundant(c, C) /\ Remove(c, C) = c
              \/ \A D : Copies(Remove(c, C).lines, D)
                           = Copies(c.lines, D) - (IF D = C THEN 1 ELSE 0)
<1> DEFINE r == Remove(c, C)
<1>1. c \in CheckerStates /\ c.lines \in LineBags
  BY DEF Kept, CheckerStates
<1>2. CASE Redundant(c, C)
  <2>1. r = c BY <1>2 DEF Remove
  <2> QED BY <1>2, <2>1
<1>3. CASE ~ Redundant(c, C)
  <2> DEFINE lines == c.lines (-) SetToBag({C})
  <2>1. r = [c EXCEPT !.lines = lines] BY <1>3 DEF Remove
  <2>2. C \in DOMAIN c.lines BY <1>1, <1>3, BagFacts DEF Removable
  <2>3. /\ lines \in LineBags /\ DOMAIN lines \subseteq DOMAIN c.lines
        /\ \A D : Copies(lines, D) = Copies(c.lines, D) - (IF D = C THEN 1 ELSE 0)
    BY <1>1, <2>2, BagRemove
  <2> HIDE DEF lines
  <2>4. /\ r \in CheckerStates /\ r.inconsistent = c.inconsistent /\ r.values = c.values
        /\ r.lines = lines /\ r.used = c.used /\ r.large = c.large
    BY <1>1, <2>1, <2>3 DEF CheckerStates
  <2>5. Lines(r) \subseteq Lines(c) BY <1>1, <2>3, <2>4, BagFacts DEF Lines
  <2> HIDE DEF r
  <2>6. Kept(r) BY <2>4, <2>5 DEF Kept
  <2> QED BY <2>3, <2>4, <2>6 DEF r, Redundant
<1> QED BY <1>2, <1>3

-----------------------------------------------------------------------------
\* A line that the external checker accepts from b is accepted from c: were
\* there no conflict in c, what it propagates would be closed and consistent
\* for the lines of b too, since those that c lacks are satisfied.
LEMMA AcceptsRup ==
    ASSUME NEW c, Kept(c), NEW b \in LineBags, Mirrors(c, b, {}),
           NEW C \in Clause, HasRup(C, BagToSet(b))
    PROVE  Accepts(c, C)
<1> DEFINE S == c.values \cup Negation(C)
           T == UP!UnitClosure(S, Lines(c))
<1> SUFFICES ASSUME ~ Redundant(c, C), ~ UP!Conflicting(T, Lines(c)) PROVE FALSE
  BY DEF Accepts
<1>1. c \in CheckerStates /\ c.lines \in LineBags /\ c.values \in SUBSET Lit /\ C \subseteq Lit
  BY DEF Kept, CheckerStates, Clause
<1>2. Lines(c) \in SUBSET Clause /\ Lines(c) = DOMAIN c.lines BY <1>1, BagFacts DEF Lines
<1>3. ~ c.inconsistent /\ ~ Trivial(C) /\ C \cap c.values = {} BY DEF Redundant
<1>4. S \in SUBSET Lit /\ \A l \in C : -l \in S
  BY <1>1, NegationInvolutive DEF Negation
<1>5. Consistent(S)
  <2>1. \A l \in c.values : -l \notin c.values BY <1>3 DEF Kept, Consistent
  <2>2. ASSUME NEW l \in c.values, -l \in Negation(C) PROVE FALSE
    <3>1. PICK m \in C : -l = -m BY <2>2 DEF Negation
    <3>2. l = m BY <1>1, <3>1, NegationInvolutive
    <3> QED BY <1>3, <3>2
  <2>3. ASSUME NEW m \in C, -(-m) \in S PROVE FALSE
    <3>1. m \in S BY <1>1, <2>3, NegationInvolutive
    <3>2. PICK n \in C : m = -n BY <1>3, <3>1 DEF Negation
    <3> QED BY <1>3, <3>2 DEF Trivial
  <2> QED BY <2>1, <2>2, <2>3 DEF Consistent, Negation
<1>6. Propagates(T, S, Lines(c)) BY <1>2, <1>4, ClosurePropagates
<1> HIDE DEF T, S
<1>7. /\ Consistent(T) /\ T \in SUBSET Lit /\ S \subseteq T
      /\ \A D \in Lines(c) : \A l \in D : Negation(D \ {l}) \subseteq T => l \in T
  <2>1. T \in SUBSET Lit /\ S \subseteq T BY <1>6 DEF Propagates
  <2>2. /\ Consistent(T)
        /\ \A D \in Lines(c) : \A l \in D : Negation(D \ {l}) \subseteq T => l \in T
    BY <1>2, <1>4, <1>5, <1>6, NoConflict
  <2> QED BY <2>1, <2>2
<1> USE DEF S
<1>8. \A D \in BagToSet(b) : D \in Clause /\ (Redundant(c, D) \/ D \in Lines(c))
  <2> SUFFICES ASSUME NEW D \in BagToSet(b)
               PROVE  D \in Clause /\ (Redundant(c, D) \/ D \in Lines(c))
    OBVIOUS
  <2>1. D \in Clause /\ Copies(b, D) # 0 /\ Copies(b, D) \in Nat BY BagFacts
  <2>2. Copies(c.lines, D) \in Nat /\ (Copies(c.lines, D) # 0 => D \in Lines(c))
    BY <1>1, <1>2, BagFacts
  <2> QED BY <2>1, <2>2 DEF Mirrors
<1>9. {} \notin BagToSet(b)
  <2> SUFFICES ASSUME {} \in BagToSet(b) PROVE FALSE OBVIOUS
  <2>1. ~ Redundant(c, {}) BY <1>3 DEF Redundant, Trivial
  <2> QED BY <1>8, <2>1 DEF Kept
<1>10. ClosedUnderPropagation(T, BagToSet(b))
  <2> SUFFICES ASSUME NEW D \in BagToSet(b), NEW l \in D, Negation(D \ {l}) \subseteq T,
                      l \notin T
               PROVE  FALSE
    BY DEF ClosedUnderPropagation
  <2>1. D \subseteq Lit BY <1>8 DEF Clause
  <2>2. D \notin Lines(c) BY <1>7
  <2>3. \A m \in D : m # l => -m \in T BY DEF Negation
  <2>4. CASE Trivial(D)
    <3>1. PICK m \in D : -m \in D BY <2>4 DEF Trivial
    <3>2. -(-m) = m /\ m \in Lit BY <2>1, <3>1, NegationInvolutive
    <3>3. CASE m = l
      <4>1. -l # l BY <2>1, NVarsAssumption DEF Lit
      <4> QED BY <2>3, <3>1, <3>2, <3>3, <4>1
    <3>4. CASE -m = l BY <2>3, <3>1, <3>2, <3>4, NVarsAssumption DEF Lit
    <3>5. CASE m # l /\ -m # l
      <4>1. -m \in T /\ -(-m) \in T BY <2>3, <3>1, <3>5
      <4> QED BY <1>7, <4>1 DEF Consistent
    <3> QED BY <3>3, <3>4, <3>5
  <2>5. CASE D \cap c.values # {}
    <3>1. PICK m \in D : m \in c.values BY <2>5
    <3>2. m \in T BY <1>7, <3>1
    <3>3. m # l BY <3>2
    <3> QED BY <1>7, <2>3, <3>2, <3>3 DEF Consistent
  <2> QED BY <1>3, <1>8, <2>2, <2>4, <2>5 DEF Redundant
<1>11. ~ Contradictory(T) BY <1>7 DEF Consistent, Contradictory
<1>12. Negation(C) \subseteq T BY <1>7
<1> QED BY <1>7, <1>9, <1>10, <1>11, <1>12 DEF HasRup

-----------------------------------------------------------------------------
\* The kept lines follow those of the external checker, line by line.
LEMMA InsertMirrors ==
    ASSUME NEW c, Kept(c), NEW b \in LineBags, NEW waiting, Mirrors(c, b, waiting),
           NEW C \in Clause
    PROVE  /\ Mirrors(Insert(c, C), b (+) SetToBag({C}), waiting)
           /\ Copies(b, C) = 1 => Mirrors(Insert(c, C), b, waiting \ {C})
<1> DEFINE i == Insert(c, C)
           a == b (+) SetToBag({C})
<1>1. c.lines \in LineBags /\ i.lines \in LineBags
  BY InsertKeeps DEF Kept, CheckerStates
<1>2. \A D : /\ Redundant(c, D) => Redundant(i, D)
             /\ Copies(i.lines, D) >= Copies(c.lines, D)
             /\ Copies(i.lines, D) \in Nat /\ Copies(c.lines, D) \in Nat
  BY <1>1, BagFacts, InsertKeeps
<1>3. Redundant(i, C) \/ Copies(i.lines, C) = Copies(c.lines, C) + 1
  BY InsertKeeps
<1>4. /\ \A D : D # C => Copies(a, D) = Copies(b, D)
      /\ Copies(a, C) = Copies(b, C) + 1
      /\ \A D : Copies(b, D) \in Nat
  <2>1. \A D : Copies(b, D) \in Nat BY BagFacts
  <2>2. \A D : Copies(a, D) = Copies(b, D) + (IF D = C THEN 1 ELSE 0) BY BagAdd
  <2> HIDE DEF a
  <2>3. ASSUME NEW D, D # C PROVE Copies(a, D) = Copies(b, D)
    <3>1. Copies(a, D) = Copies(b, D) + 0 BY <2>2, <2>3
    <3> QED BY <2>1, <3>1
  <2>4. Copies(a, C) = Copies(b, C) + 1 BY <2>2
  <2> QED BY <2>1, <2>3, <2>4
<1> HIDE DEF i, a
<1>5. Mirrors(i, a, waiting)
  <2> SUFFICES ASSUME NEW D \in Clause, ~ Redundant(i, D), D \notin waiting
               PROVE  Copies(a, D) <= Copies(i.lines, D)
    BY DEF Mirrors
  <2>1. Copies(b, D) <= Copies(c.lines, D) BY <1>2 DEF Mirrors
  <2>2. CASE D = C BY <1>2, <1>3, <1>4, <2>1, <2>2
  <2>3. CASE D # C BY <1>2, <1>4, <2>1, <2>3
  <2> QED BY <2>2, <2>3
<1>6. ASSUME Copies(b, C) = 1 PROVE Mirrors(i, b, waiting \ {C})
  <2> SUFFICES ASSUME NEW D \in Clause, ~ Redundant(i, D), D \notin waiting \ {C}
               PROVE  Copies(b, D) <= Copies(i.lines, D)
    BY DEF Mirrors
  <2>1. CASE D = C BY <1>2, <1>3, <1>6, <2>1
  <2>2. CASE D # C
    <3>1. Copies(b, D) <= Copies(c.lines, D) BY <1>2, <2>2 DEF Mirrors
    <3> QED BY <1>2, <1>4, <3>1
  <2> QED BY <2>1, <2>2
<1> QED BY <1>5, <1>6 DEF i, a

LEMMA RemoveMirrors ==
    ASSUME NEW c, Kept(c), NEW b \in LineBags, Mirrors(c, b, {}), NEW C \in DOMAIN b
    PROVE  /\ Removable(c, C)
           /\ Kept(Remove(c, C))
           /\ Mirrors(Remove(c, C), b (-) SetToBag({C}), {})
<1> DEFINE r == Remove(c, C)
           a == b (-) SetToBag({C})
<1>1. c.lines \in LineBags /\ C \in Clause
  BY BagFacts DEF Kept, CheckerStates
<1>2. Removable(c, C)
  <2>1. Copies(b, C) \in Nat /\ Copies(b, C) # 0 BY BagFacts
  <2>2. Copies(c.lines, C) \in Nat
        /\ (Copies(c.lines, C) # 0 => BagIn(C, c.lines))
    BY <1>1, BagFacts
  <2> QED BY <1>1, <2>1, <2>2 DEF Mirrors, Removable
<1>3. /\ Kept(r)
      /\ \A D : Redundant(c, D) <=> Redundant(r, D)
      /\ \/ Redundant(c, C) /\ r = c
         \/ \A D : Copies(r.lines, D) = Copies(c.lines, D) - (IF D = C THEN 1 ELSE 0)
  BY <1>1, <1>2, RemoveKeeps
<1>4. \A D : Copies(a, D) = Copies(b, D) - (IF D = C THEN 1 ELSE 0)
  BY BagRemove
<1>5. \A D : Copies(b, D) \in Nat /\ Copies(c.lines, D) \in Nat
  BY <1>1, BagFacts
<1> HIDE DEF r, a
<1>6. Mirrors(r, a, {})
  <2> SUFFICES ASSUME NEW D \in Clause, ~ Redundant(r, D)
               PROVE  Copies(a, D) <= Copies(r.lines, D)
    BY DEF Mirrors
  <2>1. Copies(b, D) <= Copies(c.lines, D) BY <1>3 DEF Mirrors
  <2>2. CASE D = C
    <3>1. Copies(a, D) = Copies(b, D) - 1 BY <1>4, <2>2
    <3>2. Copies(r.lines, D) = Copies(c.lines, D) - 1 BY <1>3, <2>2
    <3> QED BY <1>5, <2>1, <3>1, <3>2
  <2>3. CASE D # C
    <3>1. Copies(a, D) = Copies(b, D) - 0 BY <1>4, <2>3
    <3>2. \/ Copies(r.lines, D) = Copies(c.lines, D)
          \/ Copies(r.lines, D) = Copies(c.lines, D) - 0
      BY <1>3, <2>3
    <3> QED BY <1>5, <2>1, <3>1, <3>2
  <2> QED BY <2>2, <2>3
<1> QED BY <1>2, <1>3, <1>6 DEF r, a

-----------------------------------------------------------------------------
\* The state between two calls: while the input is read, the external checker
\* has all of it and the internal one lacks the clauses still unread.
CheckerInv ==
    /\ IInv
    /\ db \in LineBags
    /\ Kept(checker)
    /\ Mirrors(checker, db, unread)
    /\ unread \subseteq formula
    /\ unread # {} => db = SetToBag(formula)
    /\ ~ aborted

LEMMA CheckerInitInv == CheckerInit => CheckerInv
<1> SUFFICES ASSUME CheckerInit PROVE CheckerInv OBVIOUS
<1>1. IInv BY InitIInv DEF CheckerInit
<1>2. formula \subseteq Clause BY FormulasAssumption DEF CheckerInit, Init
<1>3. db = [C \in formula |-> 1] BY DEF CheckerInit, Init, SetToBag
<1>4. db \in LineBags
  <2>1. db \in [formula -> Nat \ {0}] BY <1>3
  <2> QED BY <1>2, <2>1 DEF LineBags
<1>5. EmptyBag \in LineBags /\ DOMAIN EmptyBag = {}
  <2>1. EmptyBag = [C \in {} |-> 1] BY DEF EmptyBag, SetToBag
  <2>2. EmptyBag \in [{} -> Nat \ {0}] BY <2>1
  <2>3. {} \in SUBSET Clause OBVIOUS
  <2> QED BY <2>1, <2>2, <2>3 DEF LineBags
<1>6. /\ checker.values = {} /\ checker.lines = EmptyBag /\ checker.inconsistent = FALSE
      /\ checker.used = {} /\ checker.large = {} /\ checker \in CheckerStates
  BY <1>5 DEF CheckerInit, NoLines, CheckerStates
<1>7. Kept(checker)
  <2>1. Lines(checker) = {} BY <1>5, <1>6, BagFacts DEF Lines
  <2> QED BY <1>6, <2>1 DEF Kept, Consistent
<1>8. Mirrors(checker, db, unread)
  <2> SUFFICES ASSUME NEW D \in Clause, D \notin unread
               PROVE  Copies(db, D) <= Copies(checker.lines, D)
    BY DEF Mirrors
  <2>1. Copies(db, D) = 0 BY <1>3 DEF CheckerInit, Copies
  <2>2. Copies(checker.lines, D) = 0 BY <1>5, <1>6 DEF Copies
  <2> QED BY <2>1, <2>2
<1> QED BY <1>1, <1>4, <1>7, <1>8 DEF CheckerInv, CheckerInit, Init

LEMMA CheckerNextInv == CheckerInv /\ [CheckerNext]_checkerVars => CheckerInv'
<1> SUFFICES ASSUME CheckerInv, [CheckerNext]_checkerVars PROVE CheckerInv' OBVIOUS
<1> USE DEF CheckerInv
<1> DEFINE p == Propagated(checker)
<1>0. /\ Kept(p) /\ Mirrors(p, db, unread)
      /\ formula \subseteq Clause
  BY PropagatedKeeps, PropagatedMirrors, FormulasAssumption DEF IInv, TypeOK
<1> HIDE DEF p
<1>1. ASSUME NEW C \in unread, AddUncheckedExternal(C) PROVE CheckerInv'
  <2>1. /\ unread' = unread \ {C} /\ checker' = Insert(checker, C)
        /\ db' = db /\ formula' = formula /\ aborted' = aborted
    BY <1>1 DEF AddUncheckedExternal
  <2>2. C \in Clause /\ C \in formula BY <1>0
  <2>3. Copies(db, C) = 1
    <3>1. db = [D \in formula |-> 1] BY <1>1 DEF SetToBag
    <3> QED BY <2>2, <3>1 DEF Copies
  <2>4. Kept(checker') BY <2>1, <2>2, InsertKeeps
  <2>5. Mirrors(checker', db', unread') BY <2>1, <2>2, <2>3, InsertMirrors
  <2>6. IInv' BY <2>1 DEF IInv, TypeOK, Implied, Clauses
  <2> QED BY <2>1, <2>4, <2>5, <2>6
<1>2. ASSUME unread = {}, unread' = unread, NEW C \in Offered, CheckAndAdd(C)
      PROVE  CheckerInv'
  <2>1. C \in Clause BY OfferedAssumption
  <2>2. /\ Add(C) /\ aborted' = ~ Accepts(p, C) /\ checker' = Insert(p, C)
    BY <1>2 DEF CheckAndAdd, p
  <2>3. db' = db (+) SetToBag({C}) /\ HasRup(C, BagToSet(db)) /\ formula' = formula
    BY <2>2 DEF Add, Clauses
  <2>4. ~ aborted' BY <1>0, <1>2, <2>1, <2>2, <2>3, AcceptsRup
  <2>5. IInv' BY <2>1, <2>2, AddIInv
  <2>6. db' \in LineBags BY <2>1, <2>3, BagAdd
  <2>7. Kept(checker') BY <1>0, <2>1, <2>2, InsertKeeps
  <2>8. Mirrors(checker', db', unread') BY <1>0, <1>2, <2>1, <2>2, <2>3, InsertMirrors
  <2> QED BY <1>2, <2>3, <2>4, <2>5, <2>6, <2>7, <2>8
<1>3. ASSUME unread = {}, unread' = unread, NEW C \in Clauses, RemoveChecker(C)
      PROVE  CheckerInv'
  <2>1. C \in DOMAIN db /\ C \in Clause BY BagFacts DEF Clauses
  <2>2. /\ Delete(C) /\ aborted' = ~ Removable(p, C) /\ checker' = Remove(p, C)
    BY <1>3 DEF RemoveChecker, p
  <2>3. db' = db (-) SetToBag({C}) /\ formula' = formula BY <2>2 DEF Delete
  <2>4. Removable(p, C) /\ Kept(checker') /\ Mirrors(checker', db', unread')
    BY <1>0, <1>3, <2>1, <2>2, <2>3, RemoveMirrors
  <2>5. IInv' BY <2>1, <2>2, DeleteIInv
  <2>6. db' \in LineBags BY <2>1, <2>3, BagRemove
  <2> QED BY <1>3, <2>2, <2>3, <2>4, <2>5, <2>6
<1>4. ASSUME unread = {}, unread' = unread, NEW C \in Clauses, NEW D \in SUBSET C,
             CheckShrinkClause(C, D)
      PROVE  CheckerInv'
  <2> DEFINE b == db (+) SetToBag({D})
             i == Insert(p, D)
             s == Propagated(i)
  <2>1. C \in DOMAIN db /\ C \in Clause /\ D \in Clause
    <3>1. C \in DOMAIN db /\ C \in Clause BY BagFacts DEF Clauses
    <3> QED BY <3>1 DEF Clause
  <2>2. /\ HasRup(D, BagToSet(db)) /\ db' = b (-) SetToBag({C}) /\ formula' = formula
        /\ aborted' = ~ (Accepts(p, D) /\ Removable(s, C)) /\ checker' = Remove(s, C)
    BY <1>4 DEF CheckShrinkClause, Clauses, p
  <2>3. b \in LineBags /\ DOMAIN b = DOMAIN db \cup {D} BY <2>1, BagAdd
  <2>4. Accepts(p, D) BY <1>0, <1>4, <2>1, <2>2, AcceptsRup
  <2>5. Kept(i) /\ Mirrors(i, b, unread) BY <1>0, <2>1, InsertKeeps, InsertMirrors
  <2> HIDE DEF b, i
  <2>6. Kept(s) /\ Mirrors(s, b, unread) BY <2>5, PropagatedKeeps, PropagatedMirrors
  <2> HIDE DEF s
  <2>7. Removable(s, C) /\ Kept(checker') /\ Mirrors(checker', db', unread')
    BY <1>4, <2>1, <2>2, <2>3, <2>6, RemoveMirrors
  <2>8. db' \in LineBags /\ DOMAIN db' \subseteq DOMAIN db \cup {D}
    BY <2>1, <2>2, <2>3, BagRemove
  <2>9. Entails(formula, D)
    <3>1. BagToSet(db) \in SUBSET Clause /\ BagToSet(db) = Clauses BY BagFacts DEF Clauses
    <3>2. Entails(Clauses, D) BY <2>1, <2>2, <3>1, RupImplies
    <3>3. \A E \in Clauses : Entails(formula, E) BY DEF IInv, Implied
    <3> QED BY <1>0, <2>1, <3>1, <3>2, <3>3, ImpliedByImplied
  <2>10. IInv'
    <3>1. TypeOK'
      <4>1. DOMAIN db' \subseteq Clause /\ \A E \in DOMAIN db' : db'[E] \in Nat \ {0}
        BY <2>8, BagFacts
      <4> QED BY <2>2, <4>1 DEF IInv, TypeOK
    <3>2. Clauses' \subseteq Clauses \cup {D}
      <4>1. Clauses' = DOMAIN db' /\ Clauses = DOMAIN db BY DEF Clauses, BagToSet
      <4> QED BY <2>8, <4>1
    <3>3. Implied' BY <2>2, <2>9, <3>2 DEF IInv, Implied
    <3> QED BY <3>1, <3>3 DEF IInv
  <2> QED BY <1>4, <2>2, <2>4, <2>7, <2>8, <2>10
<1>5. CASE UNCHANGED checkerVars
  BY <1>5 DEF checkerVars, IInv, TypeOK, Implied, Clauses
<1> QED BY <1>1, <1>2, <1>3, <1>4, <1>5 DEF CheckerNext

LEMMA CheckerInvariant == CheckerSpec => []CheckerInv
BY CheckerInitInv, CheckerNextInv, PTL DEF CheckerSpec

\* The internal checker never aborts on a proof that the external one accepts,
\* whatever it has thrown away or assigned (check.c:check_line and
\* remove_line_if_not_redundant against dsr-trim).
THEOREM CheckerNeverAborts == CheckerSpec => []NeverAborts
<1>1. CheckerInv => NeverAborts BY DEF CheckerInv, NeverAborts
<1> QED BY <1>1, CheckerInvariant, PTL

\* A is a model of everything that the internal checker holds.
Agrees(A, c) ==
    /\ ~ c.inconsistent
    /\ c.values \subseteq A
    /\ Satisfies(A, Lines(c))

HeldImplied == \A A \in Assignments : Satisfies(A, formula) => Agrees(A, checker)

LEMMA PropagatedAgrees ==
    ASSUME NEW c, Kept(c), NEW A \in Assignments, Agrees(A, c)
    PROVE  Agrees(A, Propagated(c))
<1> DEFINE values == UP!UnitClosure(c.values, Lines(c))
<1>1. c \in CheckerStates /\ c.lines \in LineBags /\ c.values \in SUBSET Lit
  BY DEF Kept, CheckerStates
<1>2. Lines(c) \in SUBSET Clause BY <1>1, BagFacts DEF Lines
<1>3. Propagates(values, c.values, Lines(c)) BY <1>1, <1>2, ClosurePropagates
<1> HIDE DEF values
<1>4. values \subseteq A BY <1>3 DEF Propagates, Agrees
<1>5. ~ UP!Conflicting(values, Lines(c))
  <2> SUFFICES ASSUME NEW C \in Lines(c), C \subseteq UP!Neg(values) PROVE FALSE
    BY DEF UP!Conflicting
  <2>1. PICK m \in C : m \in A BY DEF Agrees, Satisfies
  <2>2. PICK n \in values : m = -n BY <2>1 DEF UP!Neg
  <2>3. n \in A /\ n \in Lit /\ -n \in A BY <1>4, <2>1, <2>2 DEF Assignments
  <2> QED BY <2>3 DEF Assignments
<1>6. Propagated(c) = [c EXCEPT !.values = values,
                                !.inconsistent = UP!Conflicting(values, Lines(c))]
  BY DEF Propagated, values, Agrees
<1>7. /\ Propagated(c).values = values /\ Propagated(c).lines = c.lines
      /\ ~ Propagated(c).inconsistent
  BY <1>1, <1>5, <1>6 DEF CheckerStates
<1> QED BY <1>4, <1>7 DEF Agrees, Lines

\* What is kept of a line that A satisfies, A satisfies: the literals that are
\* left out are false in A.
LEMMA InsertAgrees ==
    ASSUME NEW c, Kept(c), NEW C \in Clause, NEW A \in Assignments, Agrees(A, c),
           C \cap A # {}
    PROVE  Agrees(A, Insert(c, C))
<1> DEFINE i == Insert(c, C)
           open == C \ Negation(c.values)
<1>1. c \in CheckerStates /\ c.lines \in LineBags /\ C \subseteq Lit
  BY DEF Kept, CheckerStates, Clause
<1>2. open \cap A # {}
  <2>1. PICK m \in C : m \in A OBVIOUS
  <2>2. ASSUME m \in Negation(c.values) PROVE FALSE
    <3>1. PICK n \in c.values : m = -n BY <2>2 DEF Negation
    <3>2. n \in A /\ n \in Lit /\ -n \in A BY <2>1, <3>1 DEF Agrees, Assignments
    <3> QED BY <3>2 DEF Assignments
  <2> QED BY <2>1, <2>2
<1>3. CASE Redundant(c, C)
  <2>1. i = c BY <1>3 DEF Insert
  <2> QED BY <2>1
<1>4. CASE ~ Redundant(c, C) /\ Cardinality(open) = 1
  <2>1. i = [c EXCEPT !.values = @ \cup open] BY <1>2, <1>4 DEF Insert
  <2>2. IsFiniteSet(open) BY ClausesFinite, FS_Subset
  <2>3. PICK l : open = {l} BY <1>4, <2>2, FS_Singleton
  <2>4. /\ i.values = c.values \cup {l} /\ i.lines = c.lines
        /\ i.inconsistent = c.inconsistent
    BY <1>1, <2>1, <2>3 DEF CheckerStates
  <2>5. l \in A BY <1>2, <2>3
  <2> HIDE DEF i
  <2>6. Agrees(A, i) BY <2>4, <2>5 DEF Agrees, Lines
  <2> QED BY <2>6 DEF i
<1>5. CASE ~ Redundant(c, C) /\ Cardinality(open) # 1
  <2> DEFINE lines == c.lines (+) SetToBag({C})
             k == [c EXCEPT !.lines = lines]
  <2>1. i = UseLine(k, C) BY <1>2, <1>5 DEF Insert
  <2>2. lines \in LineBags /\ DOMAIN lines = DOMAIN c.lines \cup {C}
    BY <1>1, BagAdd
  <2> HIDE DEF lines
  <2>3. /\ k \in CheckerStates /\ k.inconsistent = c.inconsistent
        /\ k.values = c.values /\ k.lines = lines
    BY <1>1, <2>2 DEF CheckerStates
  <2> HIDE DEF k
  <2>4. i.inconsistent = k.inconsistent /\ i.values = k.values /\ i.lines = k.lines
    BY <2>1, <2>3 DEF UseLine, CheckerStates
  <2> HIDE DEF i
  <2>5. Lines(i) = Lines(c) \cup {C} BY <1>1, <2>2, <2>3, <2>4, BagFacts DEF Lines
  <2>6. Agrees(A, i) BY <2>3, <2>4, <2>5 DEF Agrees, Satisfies
  <2> QED BY <2>6 DEF i
<1> QED BY <1>3, <1>4, <1>5

LEMMA RemoveAgrees ==
    ASSUME NEW c, Kept(c), NEW C \in Clause, Removable(c, C), NEW A, Agrees(A, c)
    PROVE  Agrees(A, Remove(c, C))
<1> DEFINE r == Remove(c, C)
<1>1. c \in CheckerStates /\ c.lines \in LineBags
  BY DEF Kept, CheckerStates
<1>2. CASE Redundant(c, C)
  <2>1. r = c BY <1>2 DEF Remove
  <2> QED BY <2>1
<1>3. CASE ~ Redundant(c, C)
  <2> DEFINE lines == c.lines (-) SetToBag({C})
  <2>1. r = [c EXCEPT !.lines = lines] BY <1>3 DEF Remove
  <2>2. C \in DOMAIN c.lines BY <1>1, <1>3, BagFacts DEF Removable
  <2>3. lines \in LineBags /\ DOMAIN lines \subseteq DOMAIN c.lines
    BY <1>1, <2>2, BagRemove
  <2> HIDE DEF lines
  <2>4. r.inconsistent = c.inconsistent /\ r.values = c.values /\ r.lines = lines
    BY <1>1, <2>1, <2>3 DEF CheckerStates
  <2>5. Lines(r) \subseteq Lines(c) BY <1>1, <2>3, <2>4, BagFacts DEF Lines
  <2> HIDE DEF r
  <2>6. Agrees(A, r) BY <2>4, <2>5 DEF Agrees, Satisfies
  <2> QED BY <2>6 DEF r
<1> QED BY <1>2, <1>3

LEMMA CheckerNextHeld ==
    CheckerInv /\ HeldImplied /\ CheckerInv' /\ [CheckerNext]_checkerVars => HeldImplied'
<1> SUFFICES ASSUME CheckerInv, HeldImplied, CheckerInv', [CheckerNext]_checkerVars
             PROVE  HeldImplied'
  OBVIOUS
<1>0. /\ Kept(checker) /\ Kept(Propagated(checker))
      /\ formula \subseteq Clause
      /\ \A C \in Clauses : Entails(formula, C)
      /\ \A C \in Clauses' : Entails(formula', C)
      /\ ~ aborted'
  BY PropagatedKeeps, FormulasAssumption DEF CheckerInv, IInv, TypeOK, Implied
<1>1. CASE UNCHANGED checkerVars BY <1>1 DEF checkerVars, HeldImplied
<1>2. SUFFICES ASSUME CheckerNext, NEW A \in Assignments, Satisfies(A, formula')
               PROVE  Agrees(A, checker')
  BY <1>1 DEF HeldImplied
<1>3. formula' = formula
  BY <1>2 DEF CheckerNext, AddUncheckedExternal, CheckAndAdd, RemoveChecker,
              CheckShrinkClause, Add, Delete
<1>4. Agrees(A, checker) /\ Agrees(A, Propagated(checker))
  BY <1>0, <1>2, <1>3, PropagatedAgrees DEF HeldImplied
<1> DEFINE p == Propagated(checker)
<1> HIDE DEF p
<1>5. ASSUME NEW C \in unread, AddUncheckedExternal(C) PROVE Agrees(A, checker')
  <2>1. C \in Clause /\ C \in formula BY <1>0 DEF CheckerInv
  <2>2. C \cap A # {} BY <1>2, <1>3, <2>1 DEF Satisfies
  <2>3. checker' = Insert(checker, C) BY <1>5 DEF AddUncheckedExternal
  <2> QED BY <1>0, <1>4, <2>1, <2>2, <2>3, InsertAgrees
<1>6. ASSUME NEW C \in Offered, CheckAndAdd(C) PROVE Agrees(A, checker')
  <2>1. C \in Clause BY OfferedAssumption
  <2>2. Add(C) /\ checker' = Insert(p, C) BY <1>6 DEF CheckAndAdd, p
  <2>3. db' = db (+) SetToBag({C}) BY <2>2 DEF Add
  <2>4. C \in Clauses'
    <3>1. DOMAIN (db (+) SetToBag({C})) = DOMAIN db \cup {C}
      BY <2>1, BagAdd DEF CheckerInv
    <3> QED BY <2>3, <3>1 DEF Clauses, BagToSet
  <2>5. C \cap A # {} BY <1>0, <1>2, <2>4 DEF Entails
  <2> QED BY <1>0, <1>4, <2>1, <2>2, <2>5, InsertAgrees DEF p
<1>7. ASSUME NEW C \in Clauses, RemoveChecker(C) PROVE Agrees(A, checker')
  <2>1. C \in Clause BY BagFacts DEF Clauses, CheckerInv
  <2>2. Removable(p, C) /\ checker' = Remove(p, C)
    BY <1>0, <1>7 DEF RemoveChecker, p
  <2> QED BY <1>0, <1>4, <2>1, <2>2, RemoveAgrees DEF p
<1>8. ASSUME NEW C \in Clauses, NEW D \in SUBSET C, CheckShrinkClause(C, D)
      PROVE  Agrees(A, checker')
  <2> DEFINE i == Insert(p, D)
             s == Propagated(i)
  <2>1. C \in Clause /\ D \in Clause
    <3>1. C \in Clause BY BagFacts DEF Clauses, CheckerInv
    <3> QED BY <3>1 DEF Clause
  <2>2. HasRup(D, Clauses) /\ Removable(s, C) /\ checker' = Remove(s, C)
    BY <1>0, <1>8 DEF CheckShrinkClause, p
  <2>3. D \cap A # {}
    <3>1. Clauses \in SUBSET Clause BY BagFacts DEF Clauses, CheckerInv
    <3>2. Entails(Clauses, D) BY <2>1, <2>2, <3>1, RupImplies
    <3>3. Satisfies(A, Clauses) BY <1>0, <1>2, <1>3 DEF Entails, Satisfies
    <3> QED BY <3>2, <3>3 DEF Entails
  <2>4. Kept(i) /\ Agrees(A, i)
    BY <1>0, <1>4, <2>1, <2>3, InsertKeeps, InsertAgrees DEF p
  <2> HIDE DEF i
  <2>5. Kept(s) /\ Agrees(A, s) BY <2>4, PropagatedKeeps, PropagatedAgrees
  <2> HIDE DEF s
  <2> QED BY <2>1, <2>2, <2>5, RemoveAgrees
<1> QED BY <1>2, <1>5, <1>6, <1>7, <1>8 DEF CheckerNext

\* Every line that the internal checker holds and every literal it assigned
\* follows from the formula, and a root conflict refutes it, although it
\* would accept lines that do not follow: the lines it is handed are those of
\* a proof by reverse unit propagation, shrunken clauses included (check.c:
\* insert_imported_if_not_simplified, checker_propagate).
THEOREM CheckerImplied ==
    CheckerSpec => [](/\ \A C \in Lines(checker) : Entails(formula, C)
                      /\ \A l \in checker.values : Entails(formula, {l})
                      /\ checker.inconsistent => Unsatisfiable(formula))
<1>1. CheckerInit => HeldImplied
  <2> SUFFICES ASSUME CheckerInit, NEW A \in Assignments PROVE Agrees(A, checker)
    BY DEF HeldImplied
  <2>1. /\ checker.values = {} /\ checker.lines = EmptyBag
        /\ checker.inconsistent = FALSE
    BY DEF CheckerInit, NoLines
  <2>2. Lines(checker) = {} BY <2>1 DEF Lines, BagToSet, EmptyBag, SetToBag
  <2> QED BY <2>1, <2>2 DEF Agrees, Satisfies
<1>2. HeldImplied => /\ \A C \in Lines(checker) : Entails(formula, C)
                     /\ \A l \in checker.values : Entails(formula, {l})
                     /\ checker.inconsistent => Unsatisfiable(formula)
  BY DEF HeldImplied, Agrees, Entails, Satisfies, Unsatisfiable
<1>3. CheckerSpec => []HeldImplied
  BY <1>1, CheckerInvariant, CheckerNextHeld, PTL DEF CheckerSpec
<1> QED BY <1>2, <1>3, PTL

-----------------------------------------------------------------------------
\* The assignment A with the literal l made true.
Flipped(A, l) == (A \ {-l}) \cup {l}

LEMMA FlippedAssignment ==
    ASSUME NEW A \in Assignments, NEW l \in Lit
    PROVE  Flipped(A, l) \in Assignments /\ l \in Flipped(A, l)
           /\ A \ {-l} \subseteq Flipped(A, l)
<1>1. A \subseteq Lit /\ -l \in Lit /\ -(-l) = l /\ -l # l
  BY NegationInvolutive DEF Assignments, Lit
<1>2. ASSUME NEW m \in Lit PROVE m \in Flipped(A, l) <=> -m \notin Flipped(A, l)
  <2>1. -(-m) = m /\ -m \in Lit /\ (m \in A <=> -m \notin A)
    BY NegationInvolutive DEF Assignments
  <2>2. CASE m = l BY <1>1, <2>2 DEF Flipped
  <2>3. CASE m = -l BY <1>1, <2>3 DEF Flipped
  <2>4. CASE m # l /\ m # -l
    <3>1. -m # l /\ -m # -l BY <2>1, <2>4, NegationInvolutive
    <3> QED BY <2>1, <2>4, <3>1 DEF Flipped
  <2> QED BY <2>2, <2>3, <2>4
<1>3. Flipped(A, l) \in SUBSET Lit BY <1>1 DEF Flipped
<1> QED BY <1>2, <1>3 DEF Assignments, Flipped

\* Making one literal of a line true is enough when every kept line with its
\* negation has another literal that is true and stays so.
LEMMA FlipSatisfies ==
    ASSUME NEW c, Kept(c), NEW C \in Clause, NEW A \in Assignments, NEW l \in C,
           Satisfies(A, Lines(c) \cup {{v} : v \in c.values}),
           -l \notin c.values,
           \A D \in Lines(c) : -l \in D => (D \ {-l}) \cap A # {}
    PROVE  ~ Unsatisfiable((Lines(c) \cup {{v} : v \in c.values}) \cup {C})
<1> DEFINE B == Flipped(A, l)
           held == Lines(c) \cup {{v} : v \in c.values}
<1>1. l \in Lit BY DEF Clause
<1>2. B \in Assignments /\ l \in B /\ A \ {-l} \subseteq B BY <1>1, FlippedAssignment
<1> HIDE DEF B
<1>3. ASSUME NEW D \in Lines(c) PROVE D \cap B # {}
  <2>1. D \cap A # {} BY DEF Satisfies
  <2>2. CASE -l \in D BY <1>2, <2>2
  <2>3. CASE -l \notin D BY <1>2, <2>1, <2>3
  <2> QED BY <2>2, <2>3
<1>4. ASSUME NEW v \in c.values PROVE {v} \cap B # {}
  <2>1. {v} \cap A # {} BY DEF Satisfies
  <2>2. v \in A /\ v # -l BY <2>1
  <2> QED BY <1>2, <2>2
<1>5. C \cap B # {} BY <1>2
<1>6. Satisfies(B, held \cup {C}) BY <1>3, <1>4, <1>5 DEF Satisfies
<1> QED BY <1>2, <1>6 DEF Unsatisfiable

LEMMA KeptAcceptsSoundly ==
    ASSUME NEW c, Kept(c), NEW C \in Clause, ~ c.inconsistent,
           C \cap Negation(c.values) = {}, Accepts(c, C),
           ~ Unsatisfiable(Lines(c) \cup {{l} : l \in c.values})
    PROVE  ~ Unsatisfiable((Lines(c) \cup {{l} : l \in c.values}) \cup {C})
<1> DEFINE held == Lines(c) \cup {{l} : l \in c.values}
           S == c.values \cup Negation(C)
           T == UP!UnitClosure(S, Lines(c))
<1>1. c \in CheckerStates /\ c.lines \in LineBags /\ c.values \in SUBSET Lit /\ C \subseteq Lit
  BY DEF Kept, CheckerStates, Clause
<1>2. Lines(c) \in SUBSET Clause BY <1>1, BagFacts DEF Lines
<1>3. PICK A \in Assignments : Satisfies(A, held) BY DEF Unsatisfiable
<1>4. c.values \subseteq A /\ Satisfies(A, Lines(c))
  <2>1. \A v \in c.values : {v} \cap A # {} BY <1>3 DEF Satisfies
  <2> QED BY <1>3, <2>1 DEF Satisfies
<1>5. \A l \in C : -l \notin c.values
  <2>1. \A l \in C : -(-l) = l BY <1>1, NegationInvolutive
  <2> QED BY <2>1 DEF Negation
<1> SUFFICES ASSUME C \cap A = {} PROVE ~ Unsatisfiable(held \cup {C})
  <2>1. C \cap A # {} => Satisfies(A, held \cup {C}) BY <1>3 DEF Satisfies
  <2> QED BY <2>1 DEF Unsatisfiable
<1>6. Negation(C) \subseteq A
  <2>1. \A l \in C : l \in Lit /\ -l \in A BY <1>1, <1>3 DEF Assignments, Negation
  <2> QED BY <2>1 DEF Negation
<1>7. S \in SUBSET Lit /\ S \subseteq A
  <2>1. \A l \in C : -l \in Lit BY <1>1, NegationInvolutive
  <2> QED BY <1>1, <1>4, <1>6, <2>1 DEF Negation
<1>8. T \subseteq A
  <2>1. Propagates(T, S, Lines(c)) BY <1>2, <1>7, ClosurePropagates
  <2> HIDE DEF T, S
  <2> QED BY <1>3, <1>4, <1>7, <2>1 DEF Propagates
<1>9. \A D \in Lines(c) : D \cap A # {} BY <1>4 DEF Satisfies
<1>10. CASE Redundant(c, C)
  <2>1. Trivial(C) \/ C \cap c.values # {} BY <1>10 DEF Redundant
  <2>2. ~ Trivial(C)
    <3> SUFFICES ASSUME NEW l \in C, -l \in C PROVE FALSE BY DEF Trivial
    <3>1. -l \in A BY <1>6 DEF Negation
    <3> QED BY <3>1
  <2> QED BY <1>4, <2>1, <2>2
<1>11. CASE \E l \in C : l \notin Negation(c.values) /\ -l \notin c.used
  <2>1. PICK l \in C : -l \notin c.used BY <1>11
  <2>2. \A D \in Lines(c) : -l \notin D BY <2>1 DEF Kept
  <2> HIDE DEF held
  <2> QED BY <1>3, <1>5, <2>1, <2>2, FlipSatisfies DEF held
<1>12. CASE UP!Conflicting(T, Lines(c))
  <2>1. PICK D \in Lines(c) : D \subseteq UP!Neg(T) BY <1>12 DEF UP!Conflicting
  <2>2. PICK l \in D : l \in A BY <1>9
  <2>3. PICK m \in T : l = -m BY <2>1, <2>2 DEF UP!Neg
  <2>4. m \in A /\ m \in Lit /\ -m \in A BY <1>3, <1>8, <2>2, <2>3 DEF Assignments
  <2> QED BY <2>4 DEF Assignments
<1>13. CASE \E l \in C : Blocked(c, l, T)
  <2>1. PICK l \in C : Blocked(c, l, T) BY <1>13
  <2>2. ASSUME NEW D \in Lines(c), -l \in D PROVE (D \ {-l}) \cap A # {}
    <3>1. Cardinality(D) \in Nat /\ Cardinality(D) >= 2
          /\ (Cardinality(D) > 2 => D \subseteq c.large)
      BY DEF Kept
    <3>2. -l \notin c.large BY <2>1 DEF Blocked
    <3>3. Cardinality(D) = 2 BY <2>2, <3>1, <3>2
    <3>4. D \in Watched(c, -l) BY <2>2, <3>3 DEF Watched
    <3>5. (D \ {-l}) \cap T # {} BY <2>1, <3>4 DEF Blocked
    <3> HIDE DEF T
    <3> QED BY <1>8, <3>5
  <2> HIDE DEF held
  <2> QED BY <1>3, <1>5, <2>1, <2>2, FlipSatisfies DEF held
<1> HIDE DEF held
<1>14. \/ Redundant(c, C)
       \/ \E l \in C : l \notin Negation(c.values) /\ -l \notin c.used
       \/ UP!Conflicting(T, Lines(c))
       \/ \E l \in C : Blocked(c, l, T)
  BY DEF Accepts
<1> QED BY <1>10, <1>11, <1>12, <1>13, <1>14

\* Every line that the internal checker accepts for a literal that is not
\* false at the root leaves what it holds satisfiable, by whichever of its
\* arguments: satisfied, pure, implied, or blocked through binary lines
\* (check.c:check_line, checker_blocked_literal).
THEOREM CheckerAcceptsSoundly == CheckerSpec => []AcceptsSoundly
<1>1. CheckerInv => AcceptsSoundly
  <2> SUFFICES ASSUME CheckerInv PROVE AcceptsSoundly OBVIOUS
  <2> DEFINE c == Propagated(checker)
  <2>1. Kept(c) BY PropagatedKeeps DEF CheckerInv
  <2>2. \A C \in Clause :
           (/\ ~ c.inconsistent
            /\ C \cap Negation(c.values) = {}
            /\ Accepts(c, C)
            /\ ~ Unsatisfiable(Lines(c) \cup {{l} : l \in c.values}))
              => ~ Unsatisfiable((Lines(c) \cup {{l} : l \in c.values}) \cup {C})
    <3> HIDE DEF c
    <3> QED BY <2>1, KeptAcceptsSoundly
  <2> QED BY <2>2 DEF AcceptsSoundly
<1> QED BY <1>1, CheckerInvariant, PTL

=============================================================================
