---------------------------- MODULE WatchProofs ----------------------------
(***************************************************************************)
(* That propagation is complete, first half: which clauses are watched,    *)
(* what has been seen to, and that propagation, backtracking and decisions *)
(* keep it. The steps of conflict analysis are in AnswerProofs.            *)
(*                                                                         *)
(* A watched literal that is false and that propagation has passed is      *)
(* Settled. Attention says that a clause watched in a settled literal      *)
(* needs no more work: its blocking literal or its other watched literal   *)
(* is true and Outlasts the false one, that is, any backtrack that undoes  *)
(* the true one undoes the false one or sends it through propagation       *)
(* again; or else the clause is the conflict, or the clause that a pending *)
(* step is about to force a literal with. How far propagation has come is  *)
(* Reach, which a conflict and the backtracks to come (Targets) set back   *)
(* to the newest level.                                                    *)
(***************************************************************************)
EXTENDS SearchProofs

\* The watches of a literal, those that the loop has still to visit too.
Seen(l) == ToSet(watches[l]) \cup ToSet(visit.delayed[l])
Held(l) == Seen(l) \cup ToSet(RestOf(visit, l))

IsLive(w) == w.binary \/ ~ arena[w.ref].garbage

\* A clause that is no garbage is watched in its first two literals.
FirstsHeld == \A r \in LiveReferences : \A l \in First(r) : \E w \in Held(l) : Watches(w, r)
\* A binary clause is watched from both sides.
BothHeld ==
    \A l \in Lit : \A w \in Held(l) : w.binary =>
        \E v \in Held(w.blocking) : v.binary /\ v.blocking = l
\* The blocking literal is one of the clause, unless that is garbage.
BlockingInside ==
    \A l \in Lit : \A w \in Held(l) :
        w.binary \/ arena[w.ref].garbage \/ w.blocking \in ToSet(arena[w.ref].lits)

\* What the propagation has reached: after a conflict the newest level counts
\* for nothing any more.
Retreating == conflict # NoConflict \/ \E k \in Targets : k < CurrentLevel
Bottom == IF CurrentLevel = 0 THEN 0 ELSE frames[CurrentLevel].trail
Reach == IF undo.active THEN undo.from ELSE IF Retreating THEN Bottom ELSE propagate

\* A false literal whose watches have been visited.
Settled(l) == values[l] = -1 /\ \A i \in Live : trail[i] = -l => i <= Reach

\* t is true, and remains so until -l is undone or propagated again.
Outlasts(t, l) ==
    /\ values[t] = 1
    /\ LevelOf(t) <= CurrentLevel
    /\ \/ LevelOf(t) <= LevelOf(l)
       \/ \E i \in Live : trail[i] = -l /\ i > frames[LevelOf(t)].trail

\* The literals that may make the clause of a watch of l need no attention.
Partners(l, w) == {w.blocking} \cup (IF w.binary THEN {} ELSE First(w.ref) \ {l})

\* The clause of the watch is in conflict, or a pending step forces with it.
OfConflict(l, w) ==
    /\ conflict # NoConflict
    /\ IF w.binary THEN conflict.ref = 0 /\ ToSet(conflict.lits) = {l, w.blocking}
                   ELSE conflict.ref = w.ref
OfForce(l, w, t) ==
    IF w.binary THEN t.op = "forceBinary" /\ {t.lit, t.other} = {l, w.blocking}
                ELSE t.op = "forceLarge" /\ t.ref = w.ref
InHand(l, w) == OfConflict(l, w) \/ \E i \in DOMAIN todo : OfForce(l, w, todo[i])

Attended(l, w) == InHand(l, w) \/ \E t \in Partners(l, w) : Outlasts(t, l)

Attention ==
    \A l \in Lit : Settled(l) => \A w \in Seen(l) : IsLive(w) => Attended(l, w)

\* The loop over a watch list is at the literal before the propagation index,
\* which belongs to the newest level.
VisitPlaced ==
    visit.lit # 0 =>
        /\ propagate > 0
        /\ trail[propagate] = visit.lit
        /\ \A k \in 1 .. CurrentLevel : frames[k].trail < propagate

ConflictWatched == IF conflict.ref = 0 THEN ToSet(conflict.lits) ELSE First(conflict.ref)
\* The watched literals of a conflict are of its highest levels.
ConflictOnTop ==
    Analysis =>
        /\ \A l \in ConflictWatched : LevelOf(l) = CurrentLevel \/ LevelOf(l) \in Targets
        /\ resolved \in Nat
        /\ (resolved = 0 /\ \E i \in DOMAIN todo : todo[i].op = "deduce")
             => resolvent = AboveRoot(ToSet(LitsOf(conflict)))

\* A clause learned is watched in the highest level below the one it leaves.
ForcesTop ==
    \A i \in DOMAIN todo : todo[i].op = "forceLarge" =>
        \A m \in ToSet(arena[todo[i].ref].lits) \ {todo[i].lit} :
        \A o \in First(todo[i].ref) \ {todo[i].lit} : LevelOf(m) <= LevelOf(o)
\* A learned binary clause forces a literal in the next step.
ForcesPaired ==
    \A i \in DOMAIN todo : todo[i].op = "newBinary" =>
        i + 1 \in DOMAIN todo /\ todo[i + 1] = ForceBinary(todo[i].lit, todo[i].other)

\* Each clause of the formula is still there, but for literals false at the
\* root: as an irredundant clause or as a binary one.
AtRoot == {l \in Lit : values[l] = -1 /\ LevelOf(l) = 0}
KeptAs(D) ==
    \/ \E l \in Lit : \E w \in Held(l) : w.binary /\ {l, w.blocking} \subseteq D \cup AtRoot
    \/ \E r \in LiveReferences :
           ~ arena[r].redundant /\ ToSet(arena[r].lits) \subseteq D \cup AtRoot
Kept == \A D \in formula : KeptAs(D)

\* Answers are given when nothing is left to do, and 10 with a model.
Satisfied == \A D \in formula : \E l \in D : values[l] = 1
Finished == /\ result # Running => todo = <<>> /\ ~ undo.active
            /\ result = 10 => Satisfied

\* The proof has the empty clause, once, after answer 20 only.
LineType == [add : BOOLEAN, clause : SUBSET Lit]
EmptyLast ==
    /\ lines \in Seq(LineType)
    /\ IF result # 20
         THEN {} \notin DOMAIN db /\ \A i \in DOMAIN lines : lines[i].clause # {}
         ELSE \/ {} \notin DOMAIN db /\ lines = <<Added({})>>
              \/ lines = <<>> /\ {} \in DOMAIN db /\ db[{}] = 1

-----------------------------------------------------------------------------
\* Lists as sets.
LEMMA AppendSet ==
    ASSUME NEW S, NEW s \in Seq(S), NEW x
    PROVE  ToSet(Append(s, x)) = ToSet(s) \cup {x}
<1>1. Len(s) \in Nat /\ DOMAIN s = 1 .. Len(s) OBVIOUS
<1> PICK n \in Nat : n = Len(s) BY <1>1
<1> PICK t : t = Append(s, x) OBVIOUS
<1>2. s \in Seq(S \cup {x}) /\ x \in S \cup {x} BY WiderSeq
<1>3. Len(t) = n + 1 /\ DOMAIN t = 1 .. n + 1 /\ t[n + 1] = x /\ \A i \in 1 .. n : t[i] = s[i]
  BY <1>2
<1>4. ToSet(t) = {t[i] : i \in 1 .. n + 1} /\ ToSet(s) = {s[i] : i \in 1 .. n}
  BY <1>1, <1>3 DEF ToSet
<1>5. \A i \in 1 .. n + 1 : i = n + 1 \/ i \in 1 .. n OBVIOUS
<1>6. \A i \in 1 .. n : i \in 1 .. n + 1 OBVIOUS
<1>7. n + 1 \in 1 .. n + 1 OBVIOUS
<1> QED BY <1>3, <1>4, <1>5, <1>6, <1>7

LEMMA TailSet ==
    ASSUME NEW S, NEW s \in Seq(S), s # <<>>
    PROVE  ToSet(s) = {Head(s)} \cup ToSet(Tail(s))
<1>1. Len(s) \in Nat /\ DOMAIN s = 1 .. Len(s) /\ Len(s) > 0 /\ Head(s) = s[1] OBVIOUS
<1> PICK n \in Nat : n = Len(s) BY <1>1
<1> PICK t : t = Tail(s) OBVIOUS
<1>2. DOMAIN t = 1 .. n - 1 /\ \A i \in 1 .. n - 1 : t[i] = s[i + 1] BY <1>1
<1>3. ToSet(t) = {t[i] : i \in 1 .. n - 1} /\ ToSet(s) = {s[i] : i \in 1 .. n}
  BY <1>1, <1>2 DEF ToSet
<1>4. \A i \in 1 .. n : i = 1 \/ (i - 1 \in 1 .. n - 1 /\ s[i] = t[i - 1])
  <2> TAKE i \in 1 .. n
  <2>1. i # 1 => i - 1 \in 1 .. n - 1 OBVIOUS
  <2>2. (i - 1) + 1 = i OBVIOUS
  <2> QED BY <1>2, <2>1, <2>2
<1>5. \A i \in 1 .. n - 1 : i + 1 \in 1 .. n OBVIOUS
<1>6. 1 \in 1 .. n BY <1>1
<1>7. \A x \in ToSet(s) : x = s[1] \/ x \in ToSet(t) BY <1>3, <1>4
<1>8. s[1] \in ToSet(s) BY <1>3, <1>6
<1>9. \A x \in ToSet(t) : x \in ToSet(s) BY <1>2, <1>3, <1>5
<1> QED BY <1>1, <1>7, <1>8, <1>9

LEMMA JoinSet ==
    ASSUME NEW S, NEW s \in Seq(S), NEW t \in Seq(S)
    PROVE  ToSet(s \o t) = ToSet(s) \cup ToSet(t)
<1>1. /\ Len(s) \in Nat /\ DOMAIN s = 1 .. Len(s)
      /\ Len(t) \in Nat /\ DOMAIN t = 1 .. Len(t) OBVIOUS
<1> PICK n \in Nat : n = Len(s) BY <1>1
<1> PICK m \in Nat : m = Len(t) BY <1>1
<1> PICK u : u = s \o t OBVIOUS
<1>2. DOMAIN u = 1 .. n + m /\ \A i \in 1 .. n + m : u[i] = IF i <= n THEN s[i] ELSE t[i - n]
  BY <1>1
<1>3. /\ ToSet(u) = {u[i] : i \in 1 .. n + m} /\ ToSet(s) = {s[i] : i \in 1 .. n}
      /\ ToSet(t) = {t[i] : i \in 1 .. m}
  BY <1>1, <1>2 DEF ToSet
<1>4. \A i \in 1 .. n + m : \/ i \in 1 .. n /\ u[i] = s[i]
                            \/ i - n \in 1 .. m /\ u[i] = t[i - n]
  BY <1>2
<1>5. \A i \in 1 .. n : i \in 1 .. n + m /\ u[i] = s[i] BY <1>2
<1>6. \A i \in 1 .. m : i + n \in 1 .. n + m /\ u[i + n] = t[i]
  <2> TAKE i \in 1 .. m
  <2>1. i + n \in 1 .. n + m /\ ~ (i + n <= n) /\ (i + n) - n = i OBVIOUS
  <2> QED BY <1>2, <2>1
<1>7. \A x \in ToSet(u) : x \in ToSet(s) \cup ToSet(t) BY <1>3, <1>4
<1>8. \A x \in ToSet(s) : x \in ToSet(u) BY <1>3, <1>5
<1>9. \A x \in ToSet(t) : x \in ToSet(u) BY <1>3, <1>6
<1> QED BY <1>7, <1>8, <1>9

LEMMA EmptySet == ToSet(<<>>) = {}
BY DEF ToSet

\* Nothing but watches of the clause is removed.
LEMMA UnwatchedSet ==
    ASSUME NEW ws \in Lists, NEW lit \in Lit, NEW ref, NEW xs, xs = Unwatched(ws, lit, ref)
    PROVE  /\ xs \in Lists
           /\ \A l \in Lit : /\ ToSet(xs[l]) \subseteq ToSet(ws[l])
                             /\ \A w \in ToSet(ws[l]) : w \in ToSet(xs[l]) \/ Watches(w, ref)
                             /\ l # lit => xs[l] = ws[l]
<1> DEFINE found == {i \in DOMAIN ws[lit] : Watches(ws[lit][i], ref)}
           k == ws[lit]
<1>1. /\ k \in Seq(WatchType) /\ DOMAIN ws = Lit /\ Len(k) \in Nat /\ DOMAIN k = 1 .. Len(k)
      /\ \A l \in Lit : ws[l] \in Seq(WatchType)
  BY DEF Lists
<1>2. xs = [ws EXCEPT ![lit] = IF found = {} THEN k ELSE RemoveAt(k, Min(found))]
  BY DEF Unwatched
<1> PICK h : h = IF found = {} THEN k ELSE RemoveAt(k, Min(found)) OBVIOUS
<1>3. DOMAIN xs = Lit /\ xs[lit] = h /\ \A l \in Lit : l # lit => xs[l] = ws[l]
  BY <1>1, <1>2
<1>4. /\ h \in Seq(WatchType) /\ ToSet(h) \subseteq ToSet(k)
      /\ \A w \in ToSet(k) : w \in ToSet(h) \/ Watches(w, ref)
  <2>1. CASE found = {} BY <1>1, <2>1
  <2>2. CASE found # {}
    <3>1. found \in SUBSET Nat BY <1>1
    <3>2. Min(found) \in found BY <2>2, <3>1, MinFacts
    <3> PICK p \in found : p = Min(found) BY <3>2
    <3>3. p \in 1 .. Len(k) /\ Watches(k[p], ref) BY <1>1
    <3>4. h = RemoveAt(k, p) BY <2>2
    <3> HIDE DEF found, k
    <3>5. h \in Seq(WatchType) /\ Drops(h, k, p) BY <1>1, <3>3, <3>4, RemoveAtDrops
    <3>6. \A i \in DOMAIN h : \E j \in DOMAIN k : h[i] = k[j]
      <4> SUFFICES ASSUME NEW i \in DOMAIN h PROVE \E j \in DOMAIN k : h[i] = k[j]
        OBVIOUS
      <4>1. i \in 1 .. Len(k) - 1 /\ h[i] = IF i < p THEN k[i] ELSE k[i + 1] BY <3>5 DEF Drops
      <4>2. i \in DOMAIN k /\ i + 1 \in DOMAIN k BY <1>1, <4>1
      <4> QED BY <4>1, <4>2
    <3>7. \A j \in DOMAIN k : j = p \/ \E i \in DOMAIN h : h[i] = k[j]
      <4> SUFFICES ASSUME NEW j \in DOMAIN k, j # p PROVE \E i \in DOMAIN h : h[i] = k[j]
        OBVIOUS
      <4>0. \A i \in 1 .. Len(k) - 1 : h[i] = IF i < p THEN k[i] ELSE k[i + 1] BY <3>5 DEF Drops
      <4>1. DOMAIN h = 1 .. Len(k) - 1 BY <3>5 DEF Drops
      <4>2. CASE j < p
        <5>1. j \in 1 .. Len(k) - 1 BY <1>1, <3>3, <4>2
        <5> QED BY <4>0, <4>1, <4>2, <5>1
      <4>3. CASE j > p
        <5>1. j - 1 \in 1 .. Len(k) - 1 /\ ~ (j - 1 < p) /\ (j - 1) + 1 = j
          BY <1>1, <3>3, <4>3
        <5> QED BY <4>0, <4>1, <5>1
      <4> QED BY <1>1, <3>3, <4>2, <4>3
    <3> QED BY <3>3, <3>5, <3>6, <3>7 DEF ToSet
  <2> QED BY <2>1, <2>2
<1>5. xs \in Lists
  <2>1. xs = [l \in Lit |-> xs[l]] BY <1>1, <1>2
  <2>2. \A l \in Lit : xs[l] \in Seq(WatchType) BY <1>1, <1>3, <1>4
  <2> QED BY <2>1, <2>2 DEF Lists
<1> QED BY <1>3, <1>4, <1>5

\* The watches in hand are sound, and so are the literals they name.
LEMMA HeldSound ==
    ASSUME SearchInv, NEW l \in Lit
    PROVE  /\ Held(l) = ToSet(HandsOf(watches, visit)[l]) /\ Seen(l) \subseteq Held(l)
           /\ \A w \in Held(l) :
                /\ w \in WatchType /\ w.blocking \in Lit
                /\ w.binary => w.blocking # l /\ Follows({l, w.blocking})
                /\ ~ w.binary => w.ref \in References /\ w.ref # 0 /\ l \in First(w.ref)
                /\ Partners(l, w) \subseteq Lit
<1>1. /\ watches \in Lists /\ visit \in VisitType /\ WatchesSound
  BY DEF SearchInv, WatchListsOK
<1>2. /\ watches[l] \in Seq(WatchType) /\ visit.delayed[l] \in Seq(WatchType)
      /\ RestOf(visit, l) \in Seq(WatchType)
      /\ HandsOf(watches, visit)[l] = watches[l] \o RestOf(visit, l) \o visit.delayed[l]
  BY <1>1, HandsTyped
<1> PICK a \in Seq(WatchType) : a = watches[l] BY <1>2
<1> PICK b \in Seq(WatchType) : b = RestOf(visit, l) BY <1>2
<1> PICK c \in Seq(WatchType) : c = visit.delayed[l] BY <1>2
<1> PICK h \in Seq(WatchType) : h = a \o b \o c BY ThreeLists
<1>3. ToSet(h) = (ToSet(a) \cup ToSet(b)) \cup ToSet(c)
  <2> PICK d \in Seq(WatchType) : d = a \o b BY ConcatProperties
  <2>1. ToSet(d) = ToSet(a) \cup ToSet(b) BY JoinSet
  <2>3. h = d \o c OBVIOUS
  <2>2. ToSet(d \o c) = ToSet(d) \cup ToSet(c)
    <3> HIDE DEF WatchType
    <3> QED BY ONLY d \in Seq(WatchType), c \in Seq(WatchType), JoinSet
  <2> QED BY <2>1, <2>2, <2>3
<1>4. Held(l) = ToSet(h) /\ Seen(l) \subseteq Held(l)
  BY <1>3 DEF Held, Seen
<1>5. HandsOf(watches, visit)[l] = h BY <1>2
<1>6. \A i \in DOMAIN h : WatchOK(formula, Firsts, l, h[i])
  BY <1>1, <1>5 DEF WatchesSound, HandsSound
<1>0. \A i \in DOMAIN h : h[i] \in WatchType
  <2> HIDE DEF WatchType
  <2>1. DOMAIN h = 1 .. Len(h) OBVIOUS
  <2> QED BY <2>1, ElementOfSeq
<1>7. ASSUME NEW w \in ToSet(h)
      PROVE  /\ w \in WatchType /\ w.blocking \in Lit
             /\ w.binary => w.blocking # l /\ Follows({l, w.blocking})
             /\ ~ w.binary => w.ref \in References /\ w.ref # 0 /\ l \in First(w.ref)
             /\ Partners(l, w) \subseteq Lit
  <2> PICK i \in DOMAIN h : w = h[i] BY <1>7 DEF ToSet
  <2>1. w \in WatchType BY <1>0
  <2>2. w.blocking \in Lit BY <2>1 DEF WatchType
  <2>3. WatchOK(formula, Firsts, l, w) BY <1>6
  <2>4. w.binary => w.blocking # l /\ Follows({l, w.blocking}) BY <2>3 DEF WatchOK, Follows
  <2>5. ~ w.binary => w.ref \in References /\ l \in First(w.ref)
    BY <2>3 DEF WatchOK, Firsts
  <2>6. \A r \in References : r # 0 /\ First(r) \subseteq Lit
    <3> TAKE r \in References
    <3>1. /\ arena \in Seq(ClauseType) /\ arena[r].lits \in Seq(Lit) /\ Len(arena[r].lits) > 2
      BY DEF SearchInv, ArenaSound, References, ClauseType
    <3>2. arena[r].lits[1] \in Lit /\ arena[r].lits[2] \in Lit BY <3>1, SMTT(30)
    <3>3. r # 0 BY <3>1 DEF References
    <3> QED BY <3>2, <3>3 DEF First
  <2>7. Partners(l, w) \subseteq Lit BY <2>2, <2>5, <2>6 DEF Partners
  <2> QED BY <2>1, <2>2, <2>4, <2>5, <2>6, <2>7
<1> QED BY <1>4, <1>5, <1>7

\* How far the propagation has reached.
LEMMA ReachFacts ==
    ASSUME SearchInv
    PROVE  /\ CurrentLevel \in Nat /\ Len(trail) \in Nat /\ propagate \in Nat
           /\ propagate <= Len(trail)
           /\ \A k \in 1 .. CurrentLevel : /\ frames[k].trail \in Nat /\ frames[k].trail <= propagate
                                           /\ frames[k].trail <= Len(trail)
                                           /\ \A j \in 1 .. k : frames[j].trail <= frames[k].trail
           /\ Bottom \in Nat /\ Bottom <= propagate
           /\ \A k \in 1 .. CurrentLevel : frames[k].trail <= Bottom
           /\ Reach \in Nat /\ Reach <= Len(trail)
           /\ ~ undo.active => Bottom <= Reach /\ Reach <= propagate
           /\ undo.active => Bottom <= undo.from
<1>1. TrailTypeOK /\ LoopBounds /\ PropagatedBelowFrames /\ FramesDelimitLevels
  BY DEF SearchInv, TrailInv
<1>2. /\ CurrentLevel \in Nat /\ Len(trail) \in Nat /\ propagate \in Nat
      /\ propagate <= Len(trail) /\ CurrentLevel = Len(frames)
      /\ \A k \in 1 .. CurrentLevel : frames[k].trail \in Nat
      /\ undo.active \in BOOLEAN /\ undo.from \in Nat /\ undo.q \in Nat /\ undo.p \in Nat
  <2>1. Len(trail) \in Nat /\ propagate \in Nat /\ propagate <= Len(trail)
    <3>1. Len(trail) \in Nat /\ propagate \in 0 .. Len(trail) BY <1>1 DEF TrailTypeOK
    <3> QED BY <3>1
  <2>2. undo.active \in BOOLEAN /\ undo.from \in Nat /\ undo.q \in Nat /\ undo.p \in Nat
    BY <1>1 DEF TrailTypeOK
  <2>3. CurrentLevel = Len(frames) /\ CurrentLevel \in Nat
        /\ \A k \in 1 .. CurrentLevel : frames[k].trail \in Nat
    BY <1>1, LiveFacts DEF CurrentLevel
  <2> QED BY <2>1, <2>2, <2>3
<1>3. \A k \in 1 .. CurrentLevel : frames[k].trail <= propagate
  BY <1>1, <1>2 DEF PropagatedBelowFrames
<1>4. \A k \in 1 .. CurrentLevel :
        /\ frames[k].trail < (IF undo.active THEN undo.from ELSE Len(trail))
        /\ \A j \in 1 .. k - 1 : frames[j].trail < frames[k].trail
  BY <1>1, <1>2 DEF FramesDelimitLevels
<1>5. \A k \in 1 .. CurrentLevel : \A j \in 1 .. k : frames[j].trail <= frames[k].trail
  <2> TAKE k \in 1 .. CurrentLevel
  <2> TAKE j \in 1 .. k
  <2>1. j = k \/ j \in 1 .. k - 1 BY <1>2
  <2>2. j \in 1 .. CurrentLevel BY <1>2
  <2> QED BY <1>2, <1>4, <2>1, <2>2
<1>6. /\ Bottom \in Nat /\ Bottom <= propagate
      /\ \A k \in 1 .. CurrentLevel : frames[k].trail <= Bottom
      /\ undo.active => Bottom <= undo.from
  <2>1. CASE CurrentLevel = 0
    <3>1. Bottom = 0 BY <2>1 DEF Bottom
    <3> QED BY <1>2, <2>1, <3>1
  <2>2. CASE CurrentLevel # 0
    <3>1. CurrentLevel \in 1 .. CurrentLevel BY <1>2, <2>2
    <3>2. Bottom = frames[CurrentLevel].trail BY <2>2 DEF Bottom
    <3> QED BY <1>2, <1>3, <1>4, <1>5, <3>1, <3>2
  <2> QED BY <2>1, <2>2
<1>7. undo.active => undo.from <= Len(trail) BY <1>1, <1>2 DEF LoopBounds
<1>8. /\ Reach \in Nat /\ Reach <= Len(trail)
      /\ ~ undo.active => Bottom <= Reach /\ Reach <= propagate
  <2>1. Reach = undo.from \/ Reach = Bottom \/ Reach = propagate BY DEF Reach
  <2>2. ~ undo.active => Reach = Bottom \/ Reach = propagate BY DEF Reach
  <2>3. undo.active => Reach = undo.from BY DEF Reach
  <2> QED BY <1>2, <1>6, <1>7, <2>2, <2>3
<1>9. \A k \in 1 .. CurrentLevel : frames[k].trail <= Len(trail) BY <1>2, <1>3
<1> QED BY <1>2, <1>3, <1>5, <1>6, <1>8, <1>9

\* A step after which no literal is settled that was not, and a true literal
\* that outlasts a settled one goes on to do so.
Calm ==
    \A l \in Lit : Settled(l)' =>
        Settled(l) /\ \A t \in Lit : Outlasts(t, l) => Outlasts(t, l)'

\* Then every watch that was attended to is.
LEMMA AttentionKept ==
    ASSUME SearchInv, Attention, Calm,
           \A l \in Lit : \A w \in Seen(l)' : Settled(l)' /\ IsLive(w)' =>
               \/ Attended(l, w)'
               \/ /\ w \in Seen(l) /\ IsLive(w)
                  /\ InHand(l, w) => Attended(l, w)'
                  /\ \A t \in Partners(l, w) : values[t] = 1 => t \in Partners(l, w)'
    PROVE  Attention'
<1> SUFFICES ASSUME NEW l \in Lit, Settled(l)', NEW w \in Seen(l)', IsLive(w)'
             PROVE  Attended(l, w)'
  BY DEF Attention
<1>1. Settled(l) /\ \A t \in Lit : Outlasts(t, l) => Outlasts(t, l)' BY DEF Calm
<1>2. SUFFICES ASSUME w \in Seen(l), IsLive(w), InHand(l, w) => Attended(l, w)',
                      \A t \in Partners(l, w) : values[t] = 1 => t \in Partners(l, w)'
               PROVE  Attended(l, w)'
  OBVIOUS
<1>3. Attended(l, w) BY <1>1, <1>2 DEF Attention
<1>4. CASE InHand(l, w) BY <1>2, <1>4
<1>5. CASE \E t \in Partners(l, w) : Outlasts(t, l)
  <2> PICK t \in Partners(l, w) : Outlasts(t, l) BY <1>5
  <2>1. t \in Lit BY <1>2, HeldSound
  <2>2. values[t] = 1 BY DEF Outlasts
  <2>3. Outlasts(t, l)' /\ t \in Partners(l, w)' BY <1>1, <1>2, <2>1, <2>2
  <2> QED BY <2>3 DEF Attended
<1> QED BY <1>3, <1>4, <1>5 DEF Attended

\* The lists and the clauses stay as they are.
LEMMA ListsSame ==
    ASSUME UNCHANGED <<arena, watches, visit>>
    PROVE  /\ FirstsHeld => FirstsHeld'
           /\ BothHeld => BothHeld'
           /\ BlockingInside => BlockingInside'
           /\ \A l : Seen(l)' = Seen(l) /\ Held(l)' = Held(l)
           /\ \A w : IsLive(w)' <=> IsLive(w)
           /\ \A l, w : Partners(l, w)' = Partners(l, w)
           /\ References' = References /\ LiveReferences' = LiveReferences
           /\ \A r : First(r)' = First(r)
<1>1. \A l : Seen(l)' = Seen(l) BY DEF Seen
<1>2. \A l : Held(l)' = Held(l) BY <1>1 DEF Held, RestOf
<1>3. References' = References /\ LiveReferences' = LiveReferences
  BY DEF References, LiveReferences
<1>4. \A r : First(r)' = First(r) BY DEF First
<1>5. \A w : IsLive(w)' <=> IsLive(w) BY DEF IsLive
<1>6. \A l, w : Partners(l, w)' = Partners(l, w) BY <1>4 DEF Partners
<1>7. FirstsHeld => FirstsHeld' BY <1>2, <1>3, <1>4 DEF FirstsHeld
<1>8. BothHeld => BothHeld' BY <1>2 DEF BothHeld
<1>9. BlockingInside => BlockingInside' BY <1>2 DEF BlockingInside
<1> QED BY <1>1, <1>2, <1>3, <1>4, <1>5, <1>6, <1>7, <1>8, <1>9

\* Nothing is lost of the formula.
LEMMA KeptStays ==
    ASSUME Kept, formula' = formula, AtRoot \subseteq AtRoot',
           \A l \in Lit : \A w \in Held(l) : w.binary => w \in Held(l)',
           \A r \in LiveReferences : ~ arena[r].redundant =>
               \/ /\ r \in LiveReferences' /\ ~ arena'[r].redundant
                  /\ ToSet(arena'[r].lits) \subseteq ToSet(arena[r].lits)
               \/ \A D : ToSet(arena[r].lits) \subseteq D \cup AtRoot => KeptAs(D)'
    PROVE  Kept'
<1> SUFFICES ASSUME NEW D \in formula PROVE KeptAs(D)'
  BY DEF Kept
<1>1. KeptAs(D) BY DEF Kept
<1>2. CASE \E l \in Lit : \E w \in Held(l) : w.binary /\ {l, w.blocking} \subseteq D \cup AtRoot
  <2> PICK l \in Lit : \E w \in Held(l) : w.binary /\ {l, w.blocking} \subseteq D \cup AtRoot BY <1>2
  <2> PICK w \in Held(l) : w.binary /\ {l, w.blocking} \subseteq D \cup AtRoot OBVIOUS
  <2>1. w \in Held(l)' /\ {l, w.blocking} \subseteq D \cup AtRoot' OBVIOUS
  <2> QED BY <2>1 DEF KeptAs
<1>3. CASE \E r \in LiveReferences :
             ~ arena[r].redundant /\ ToSet(arena[r].lits) \subseteq D \cup AtRoot
  <2> PICK r \in LiveReferences :
             ~ arena[r].redundant /\ ToSet(arena[r].lits) \subseteq D \cup AtRoot BY <1>3
  <2>1. CASE /\ r \in LiveReferences' /\ ~ arena'[r].redundant
             /\ ToSet(arena'[r].lits) \subseteq ToSet(arena[r].lits)
    <3>1. ToSet(arena'[r].lits) \subseteq D \cup AtRoot' BY <2>1
    <3> QED BY <2>1, <3>1 DEF KeptAs
  <2> QED BY <2>1
<1> QED BY <1>1, <1>2, <1>3 DEF KeptAs

ReachOK == Reach \in Nat /\ CurrentLevel \in Nat

LEMMA ReachNat == SearchInv => ReachOK
BY ReachFacts DEF ReachOK
LEMMA ReachLater == SearchInv' => ReachOK'
BY ReachNat, PTL
LEMMA ReachNext == SearchInv' => Reach' \in Nat /\ CurrentLevel' \in Nat
BY ReachLater DEF ReachOK

LEMMA CalmStill ==
    ASSUME SearchInv, SearchInv', UNCHANGED <<values, level, trail, frames, undo>>,
           Reach' <= Reach
    PROVE  Calm
<1>1. /\ Live' = Live /\ CurrentLevel' = CurrentLevel
      /\ \A l : LevelOf(l)' = LevelOf(l)
  BY DEF Live, CurrentLevel, LevelOf
<1>2. ASSUME NEW l, NEW t, Outlasts(t, l) PROVE Outlasts(t, l)'
  <2>1. /\ values[t] = 1 /\ LevelOf(t) <= CurrentLevel
        /\ \/ LevelOf(t) <= LevelOf(l)
           \/ \E i \in Live : trail[i] = -l /\ i > frames[LevelOf(t)].trail
    BY <1>2 DEF Outlasts
  <2>2. values' = values /\ trail' = trail /\ frames' = frames OBVIOUS
  <2> QED BY <1>1, <2>1, <2>2 DEF Outlasts
<1>3. Reach \in Nat /\ Reach' \in Nat BY ReachFacts, ReachNext
<1>4. \A i \in Live : i \in Nat BY LiveFacts DEF SearchInv, TrailInv
<1>5. \A l : Settled(l)' => Settled(l)
  <2> SUFFICES ASSUME NEW l, Settled(l)' PROVE Settled(l)
    OBVIOUS
  <2>1. values[l] = -1 /\ \A i \in Live : trail[i] = -l => i <= Reach' BY <1>1 DEF Settled
  <2>2. \A i \in Live : trail[i] = -l => i <= Reach BY <1>3, <1>4, <2>1
  <2> QED BY <2>1, <2>2 DEF Settled
<1> QED BY <1>2, <1>5 DEF Calm

\* An assigned literal is above no settled one.
LEMMA CalmPush ==
    ASSUME SearchInv, SearchInv', ~ undo.active, undo' = undo,
           NEW lit \in Lit, NEW lvl \in Nat, Push(lit, lvl),
           CurrentLevel <= CurrentLevel', \A k \in 1 .. CurrentLevel : frames'[k] = frames[k],
           Reach' <= Reach
    PROVE  Calm
<1>1. TrailInv BY DEF SearchInv
<1>2. /\ values[lit] = 0 /\ values'[lit] = 1 /\ values'[-lit] = -1
      /\ \A m \in Lit : m \notin {lit, -lit} => values'[m] = values[m] /\ LevelOf(m)' = LevelOf(m)
      /\ \A m \in Lit : values[m] # 0 => m \notin {lit, -lit}
  BY <1>1, PushKept
<1>3. /\ trail'[Len(trail) + 1] = lit /\ \A i \in 1 .. Len(trail) : trail'[i] = trail[i]
      /\ Live = 1 .. Len(trail) /\ Live' = 1 .. Len(trail) + 1
  BY <1>1, PushFacts
<1>4. Reach \in Nat /\ Reach' \in Nat /\ Reach <= Len(trail) /\ Len(trail) \in Nat
      /\ CurrentLevel \in Nat /\ CurrentLevel' \in Nat
  BY ReachFacts, ReachNext
<1> PICK n \in Nat : n = Len(trail) BY <1>4
<1> SUFFICES ASSUME NEW l \in Lit, Settled(l)'
             PROVE  Settled(l) /\ \A t \in Lit : Outlasts(t, l) => Outlasts(t, l)'
  BY DEF Calm
<1>5. values'[l] = -1 /\ \A i \in 1 .. n + 1 : trail'[i] = -l => i <= Reach'
  BY <1>3 DEF Settled
<1>6. l # lit BY <1>2, <1>5
<1>7. l # -lit
  <2> SUFFICES ASSUME l = -lit PROVE FALSE
    OBVIOUS
  <2>1. -l = lit BY LitFacts
  <2>2. n + 1 <= Reach' BY <1>3, <1>5, <2>1
  <2> QED BY <1>4, <2>2
<1>8. values[l] = -1 /\ LevelOf(l)' = LevelOf(l) BY <1>2, <1>5, <1>6, <1>7
<1>9. \A i \in 1 .. n : i \in 1 .. n + 1 /\ trail'[i] = trail[i] BY <1>3
<1>10. Settled(l)
  <2>1. \A i \in 1 .. n : trail[i] = -l => i <= Reach BY <1>4, <1>5, <1>9
  <2> QED BY <1>3, <1>8, <2>1 DEF Settled
<1>11. ASSUME NEW t \in Lit, Outlasts(t, l) PROVE Outlasts(t, l)'
  <2>1. /\ values[t] = 1 /\ LevelOf(t) <= CurrentLevel
        /\ \/ LevelOf(t) <= LevelOf(l)
           \/ \E i \in 1 .. n : trail[i] = -l /\ i > frames[LevelOf(t)].trail
    BY <1>3, <1>11 DEF Outlasts
  <2>2. values'[t] = 1 /\ LevelOf(t)' = LevelOf(t)
    <3>1. t \notin {lit, -lit} BY <1>2, <2>1
    <3> QED BY <1>2, <2>1, <3>1
  <2>3. LevelOf(t) \in Nat /\ LevelOf(l) \in Nat BY <1>1, Values
  <2>4. LevelOf(t)' <= CurrentLevel' BY <1>4, <2>1, <2>2, <2>3
  <2>5. CASE LevelOf(t) <= LevelOf(l) BY <1>8, <2>2, <2>4, <2>5 DEF Outlasts
  <2>6. CASE LevelOf(t) > LevelOf(l)
    <3>1. LevelOf(t) \in 1 .. CurrentLevel BY <2>1, <2>3, <2>6, <1>4
    <3>2. frames'[LevelOf(t)] = frames[LevelOf(t)] BY <3>1
    <3>3. \E i \in 1 .. n : trail[i] = -l /\ i > frames[LevelOf(t)].trail BY <2>1, <2>3, <2>6
    <3>4. \E i \in 1 .. n + 1 : trail'[i] = -l /\ i > frames'[LevelOf(t)].trail BY <1>9, <3>2, <3>3
    <3> QED BY <1>3, <2>2, <2>4, <3>4 DEF Outlasts
  <2> QED BY <2>3, <2>5, <2>6
<1> QED BY <1>10, <1>11

\* A backtrack begins: its frames are cut, and the literals of their levels no
\* longer outlast anything.
LEMMA CalmStart ==
    ASSUME SearchInv, SearchInv', NEW to \in Nat, BacktrackStart(to), Retreating
    PROVE  Calm
<1>1. TrailInv BY DEF SearchInv
<1>2. /\ ~ undo.active /\ to < CurrentLevel /\ frames' = SubSeq(frames, 1, to)
      /\ undo' = Loop(to, frames[to + 1].trail, frames[to + 1].trail, frames[to + 1].trail)
      /\ UNCHANGED <<values, level, position, trail>>
  BY DEF BacktrackStart
<1>3. /\ CurrentLevel \in Nat /\ Len(trail) \in Nat
      /\ \A k \in 1 .. CurrentLevel : /\ frames[k].trail \in Nat /\ frames[k].trail <= Len(trail)
                                      /\ \A j \in 1 .. k : frames[j].trail <= frames[k].trail
      /\ \A k \in 1 .. CurrentLevel : frames[k].trail <= Bottom
      /\ Bottom \in Nat /\ Reach' \in Nat
  BY ReachFacts, ReachNext
<1> PICK c \in Nat : c = CurrentLevel BY <1>3
<1> PICK from : from = frames[to + 1].trail OBVIOUS
<1>4. to + 1 \in 1 .. c BY <1>2
<1>5. from \in Nat /\ from <= Len(trail) /\ from <= Bottom BY <1>3, <1>4
<1>6. undo'.active /\ undo'.from = from /\ undo'.p = from /\ undo'.q = from BY <1>2 DEF Loop
<1>7. Reach' = from /\ Reach = Bottom BY <1>2, <1>6 DEF Reach
<1>8. Live = 1 .. Len(trail) /\ Live' = Live
  <2>1. Live = 1 .. Len(trail) BY <1>2 DEF Live
  <2>2. Live' = (1 .. from) \cup (from + 1 .. Len(trail)) BY <1>2, <1>6 DEF Live
  <2>3. (1 .. from) \cup (from + 1 .. Len(trail)) = 1 .. Len(trail) BY <1>3, <1>5, SMTT(30)
  <2> QED BY <2>1, <2>2, <2>3
<1>9. /\ frames \in Seq([decision : Lit, trail : Nat]) /\ c = Len(frames)
      /\ \A k \in 1 .. c : \A i \in 1 .. frames[k].trail : level[Idx(trail[i])] < k
      /\ \A k \in 1 .. c : \A j \in 1 .. k - 1 : frames[j].trail < frames[k].trail
  BY <1>1 DEF TrailInv, TrailTypeOK, FramesDelimitLevels, CurrentLevel
<1>10. CurrentLevel' = to /\ \A k \in 1 .. to : frames'[k] = frames[k]
  <2>1. 1 \in Nat /\ to <= c BY <1>2
  <2>2. Len(frames') = to /\ \A k \in 1 .. to : frames'[k] = frames[k]
    BY <1>2, <1>9, <2>1
  <2> QED BY <2>2 DEF CurrentLevel
<1>11. \A l : LevelOf(l)' = LevelOf(l) BY <1>2 DEF LevelOf
<1> SUFFICES ASSUME NEW l \in Lit, Settled(l)'
             PROVE  Settled(l) /\ \A t \in Lit : Outlasts(t, l) => Outlasts(t, l)'
  BY DEF Calm
<1>12. values[l] = -1 /\ \A i \in Live : trail[i] = -l => i <= from
  BY <1>2, <1>7, <1>8 DEF Settled
<1>13. Settled(l)
  <2>1. \A i \in Live : i \in Nat BY <1>3, <1>8
  <2>2. \A i \in Live : trail[i] = -l => i <= Bottom BY <1>3, <1>5, <1>12, <2>1
  <2> QED BY <1>7, <1>12, <2>2 DEF Settled
<1>14. /\ LevelOf(l) \in Nat /\ LevelOf(l) <= c /\ -l \in Lit /\ values[-l] = -values[l]
       /\ LevelOf(-l) = LevelOf(l) /\ Idx(-l) = Idx(l)
  BY <1>1, <1>2, <1>12, Values, Assigned
<1>15. LevelOf(l) <= to
  <2> SUFFICES ASSUME LevelOf(l) > to PROVE FALSE
    BY <1>14
  <2>1. LevelOf(l) > 0 BY <1>14
  <2>2. values[-l] = 1
    <3>1. \A y \in {-1, 0, 1} : y = -(-1) => y = 1 OBVIOUS
    <3>2. values[-l] \in {-1, 0, 1} BY <1>1, <1>14, Values
    <3> QED BY <1>12, <1>14, <3>1, <3>2
  <2> PICK i \in Live : trail[i] = -l
    <3> DEFINE p == position[Idx(l)]
    <3>1. p < Len(trail) /\ Idx(trail[p + 1]) = Idx(l) /\ trail[p + 1] \in Lit /\ p \in Nat
      BY <1>1, <1>2, <1>12, <2>1, Assigned, Values
    <3>2. p + 1 \in Live BY <1>3, <1>8, <3>1
    <3>3. values[trail[p + 1]] = 1 BY <1>1, <3>2 DEF TrailInv, SlotsTrue
    <3>4. trail[p + 1] = l \/ trail[p + 1] = -l BY <3>1, LitFacts
    <3>5. trail[p + 1] # l BY <1>12, <3>3
    <3> QED BY <3>2, <3>4, <3>5
  <2>3. i \in 1 .. from BY <1>3, <1>5, <1>8, <1>12
  <2>4. level[Idx(trail[i])] < to + 1 BY <1>4, <1>9, <2>3
  <2>5. level[Idx(trail[i])] = LevelOf(l) BY <1>14 DEF LevelOf
  <2> QED BY <1>14, <2>4, <2>5
<1>16. ASSUME NEW t \in Lit, Outlasts(t, l) PROVE Outlasts(t, l)'
  <2>1. /\ values[t] = 1 /\ LevelOf(t) <= c
        /\ \/ LevelOf(t) <= LevelOf(l)
           \/ \E i \in Live : trail[i] = -l /\ i > frames[LevelOf(t)].trail
    BY <1>16 DEF Outlasts
  <2>2. LevelOf(t) \in Nat BY <1>1, Values
  <2>3. CASE LevelOf(t) <= LevelOf(l)
    <3>1. LevelOf(t) <= to BY <1>14, <1>15, <2>2, <2>3
    <3> QED BY <1>2, <1>10, <1>11, <2>1, <2>3, <3>1 DEF Outlasts
  <2>4. CASE LevelOf(t) > LevelOf(l)
    <3> PICK i \in Live : trail[i] = -l /\ i > frames[LevelOf(t)].trail BY <1>14, <2>1, <2>2, <2>4
    <3>1. i <= from /\ i \in Nat BY <1>3, <1>8, <1>12
    <3>2. LevelOf(t) \in 1 .. c BY <1>14, <2>1, <2>2, <2>4
    <3>3. frames[LevelOf(t)].trail \in Nat /\ frames[LevelOf(t)].trail < from
      BY <1>3, <1>5, <3>1, <3>2, SMTT(30)
    <3>4. LevelOf(t) <= to
      <4> SUFFICES ASSUME LevelOf(t) > to PROVE FALSE
        BY <2>2
      <4>1. LevelOf(t) = to + 1 \/ to + 1 \in 1 .. LevelOf(t) BY <2>2
      <4>2. to + 1 \in 1 .. LevelOf(t) BY <2>2, <4>1
      <4>3. from <= frames[LevelOf(t)].trail BY <1>3, <3>2, <4>2
      <4> QED BY <1>5, <3>3, <4>3
    <3>5. frames'[LevelOf(t)] = frames[LevelOf(t)] BY <1>10, <3>2, <3>4, <2>2
    <3>6. \E j \in Live : trail[j] = -l /\ j > frames'[LevelOf(t)].trail BY <3>5
    <3> QED BY <1>2, <1>8, <1>10, <1>11, <2>1, <3>4, <3>6 DEF Outlasts
  <2> QED BY <1>14, <2>2, <2>3, <2>4
<1> QED BY <1>13, <1>16

LEMMA UndoBounds ==
    ASSUME SearchInv, undo.active
    PROVE  /\ undo.from \in Nat /\ undo.q \in Nat /\ undo.p \in Nat /\ Len(trail) \in Nat
           /\ undo.from <= undo.q /\ undo.q <= undo.p /\ undo.p <= Len(trail)
           /\ undo.to = CurrentLevel /\ CurrentLevel \in Nat
           /\ Live = (1 .. undo.q) \cup (undo.p + 1 .. Len(trail))
           /\ trail \in Seq(Lit) /\ DOMAIN trail = 1 .. Len(trail)
<1>1. TrailTypeOK /\ LoopBounds BY DEF SearchInv, TrailInv
<1>2. undo.from \in Nat /\ undo.q \in Nat /\ undo.p \in Nat BY <1>1 DEF TrailTypeOK
<1>3. /\ undo.from <= undo.q /\ undo.q <= undo.p /\ undo.p <= Len(trail)
      /\ undo.to = CurrentLevel
  BY <1>1 DEF LoopBounds, CurrentLevel
<1>4. trail \in Seq(Lit) /\ DOMAIN trail = 1 .. Len(trail) /\ Len(trail) \in Nat
  BY <1>1 DEF TrailTypeOK
<1> QED BY <1>2, <1>3, <1>4, ReachFacts DEF Live

\* The loop of a backtrack.
LEMMA CalmKeep ==
    ASSUME SearchInv, SearchInv', BacktrackKeep
    PROVE  Calm
<1>1. undo.active /\ undo.p < Len(trail) /\ frames' = frames
  BY DEF BacktrackKeep
<1> PICK lit : lit = trail[undo.p + 1] OBVIOUS
<1> PICK q \in Nat, p \in Nat, n \in Nat, from \in Nat :
         q = undo.q /\ p = undo.p /\ n = Len(trail) /\ from = undo.from
  BY <1>1, UndoBounds
<1>2. /\ from <= q /\ q <= p /\ p < n /\ Live = (1 .. q) \cup (p + 1 .. n)
      /\ trail \in Seq(Lit) /\ DOMAIN trail = 1 .. n
  BY <1>1, UndoBounds
<1>3. /\ trail' = [trail EXCEPT ![q + 1] = lit] /\ undo' = Loop(undo.to, from, p + 1, q + 1)
      /\ UNCHANGED <<values, level>>
  BY DEF BacktrackKeep
<1>4. undo'.active /\ undo'.from = from /\ undo'.p = p + 1 /\ undo'.q = q + 1
  BY <1>3 DEF Loop
<1>5. Reach = from /\ Reach' = from BY <1>1, <1>4 DEF Reach
<1>6. Live' = (1 .. q + 1) \cup (p + 2 .. n)
  <2>1. Len(trail') = n BY <1>2, <1>3
  <2> QED BY <1>4, <2>1 DEF Live
<1>7. /\ \A i \in 1 .. n : i # q + 1 => trail'[i] = trail[i]
      /\ trail'[q + 1] = lit
  BY <1>2, <1>3
<1>8. CurrentLevel' = CurrentLevel /\ \A l : LevelOf(l)' = LevelOf(l)
  BY <1>1, <1>3 DEF CurrentLevel, LevelOf
<1> SUFFICES ASSUME NEW l \in Lit, Settled(l)'
             PROVE  Settled(l) /\ \A t \in Lit : Outlasts(t, l) => Outlasts(t, l)'
  BY DEF Calm
<1>9. values[l] = -1 /\ \A i \in (1 .. q + 1) \cup (p + 2 .. n) : trail'[i] = -l => i <= from
  BY <1>3, <1>5, <1>6 DEF Settled
<1>10. lit # -l
  <2> SUFFICES ASSUME lit = -l PROVE FALSE
    OBVIOUS
  <2>1. q + 1 <= from BY <1>7, <1>9
  <2> QED BY <1>2, <2>1
<1>11. \A i \in Live : trail[i] = -l => i \in 1 .. q + 1 /\ i # q + 1 /\ trail'[i] = trail[i] /\ i <= from
  <2> SUFFICES ASSUME NEW i \in (1 .. q) \cup (p + 1 .. n), trail[i] = -l
               PROVE  i \in 1 .. q + 1 /\ i # q + 1 /\ trail'[i] = trail[i] /\ i <= from
    BY <1>2
  <2>1. i # p + 1 BY <1>10
  <2>2. i # q + 1 /\ i \in 1 .. n /\ i \in (1 .. q + 1) \cup (p + 2 .. n) BY <1>2, <2>1
  <2>3. trail'[i] = trail[i] /\ i <= from BY <1>7, <1>9, <2>2
  <2> QED BY <1>2, <2>2, <2>3
<1>12. Settled(l) BY <1>5, <1>9, <1>11 DEF Settled
<1>13. ASSUME NEW t \in Lit, Outlasts(t, l) PROVE Outlasts(t, l)'
  <2>1. /\ values[t] = 1 /\ LevelOf(t) <= CurrentLevel
        /\ \/ LevelOf(t) <= LevelOf(l)
           \/ \E i \in Live : trail[i] = -l /\ i > frames[LevelOf(t)].trail
    BY <1>13 DEF Outlasts
  <2>2. (\E i \in Live : trail[i] = -l /\ i > frames[LevelOf(t)].trail)
          => \E i \in Live' : trail'[i] = -l /\ i > frames[LevelOf(t)].trail
    BY <1>6, <1>11
  <2> QED BY <1>1, <1>3, <1>8, <2>1, <2>2 DEF Outlasts
<1> QED BY <1>12, <1>13

LEMMA CalmUnassign ==
    ASSUME SearchInv, SearchInv', BacktrackUnassign
    PROVE  Calm
<1>1. undo.active /\ undo.p < Len(trail) /\ frames' = frames
  BY DEF BacktrackUnassign
<1> PICK q \in Nat, p \in Nat, n \in Nat, from \in Nat :
         q = undo.q /\ p = undo.p /\ n = Len(trail) /\ from = undo.from
  BY <1>1, UndoBounds
<1>2. /\ from <= q /\ q <= p /\ p < n /\ Live = (1 .. q) \cup (p + 1 .. n)
      /\ trail \in Seq(Lit) /\ DOMAIN trail = 1 .. n /\ undo.to = CurrentLevel
      /\ CurrentLevel \in Nat
  BY <1>1, UndoBounds
<1> PICK lit \in Lit : lit = trail[p + 1] BY <1>2
<1>3. /\ values' = [values EXCEPT ![lit] = 0, ![-lit] = 0]
      /\ undo' = Loop(undo.to, from, p + 1, q) /\ LevelOf(lit) > CurrentLevel
      /\ UNCHANGED <<trail, level>>
  BY <1>2 DEF BacktrackUnassign
<1>4. undo'.active /\ undo'.from = from /\ undo'.p = p + 1 /\ undo'.q = q
  BY <1>3 DEF Loop
<1>5. Reach = from /\ Reach' = from BY <1>1, <1>4 DEF Reach
<1>6. Live' = (1 .. q) \cup (p + 2 .. n)
  <2>1. Len(trail') = n BY <1>2, <1>3
  <2> QED BY <1>4, <2>1 DEF Live
<1>7. /\ -lit \in Lit /\ LevelOf(-lit) = LevelOf(lit) /\ LevelOf(lit) \in Nat
      /\ values'[lit] = 0 /\ values'[-lit] = 0
      /\ \A m \in Lit : m \notin {lit, -lit} => values'[m] = values[m]
  <2>1. values \in [Lit -> {-1, 0, 1}] BY DEF SearchInv, TrailInv, TrailTypeOK
  <2>2. -lit \in Lit /\ LevelOf(-lit) = LevelOf(lit) /\ LevelOf(lit) \in Nat
    BY Values DEF SearchInv
  <2> QED BY <1>3, <2>1, <2>2
<1>8. CurrentLevel' = CurrentLevel /\ \A l : LevelOf(l)' = LevelOf(l)
  BY <1>1, <1>3 DEF CurrentLevel, LevelOf
<1> SUFFICES ASSUME NEW l \in Lit, Settled(l)'
             PROVE  Settled(l) /\ \A t \in Lit : Outlasts(t, l) => Outlasts(t, l)'
  BY DEF Calm
<1>9. values'[l] = -1 /\ \A i \in (1 .. q) \cup (p + 2 .. n) : trail[i] = -l => i <= from
  BY <1>3, <1>5, <1>6 DEF Settled
<1>10. l # lit /\ l # -lit /\ values[l] = -1
  <2>1. l # lit /\ l # -lit BY <1>7, <1>9
  <2> QED BY <1>7, <1>9, <2>1
<1>11. \A i \in Live : trail[i] = -l => i \in 1 .. q /\ i <= from
  <2> SUFFICES ASSUME NEW i \in (1 .. q) \cup (p + 1 .. n), trail[i] = -l
               PROVE  i \in 1 .. q /\ i <= from
    BY <1>2
  <2>1. i # p + 1
    <3> SUFFICES ASSUME lit = -l PROVE FALSE
      OBVIOUS
    <3>1. -lit = l BY LitFacts
    <3> QED BY <1>10, <3>1
  <2>2. i \in (1 .. q) \cup (p + 2 .. n) BY <1>2, <2>1
  <2> QED BY <1>2, <1>9, <2>2
<1>12. Settled(l) BY <1>5, <1>10, <1>11 DEF Settled
<1>13. ASSUME NEW t \in Lit, Outlasts(t, l) PROVE Outlasts(t, l)'
  <2>1. /\ values[t] = 1 /\ LevelOf(t) <= CurrentLevel
        /\ \/ LevelOf(t) <= LevelOf(l)
           \/ \E i \in Live : trail[i] = -l /\ i > frames[LevelOf(t)].trail
    BY <1>13 DEF Outlasts
  <2>2. (\E i \in Live : trail[i] = -l /\ i > frames[LevelOf(t)].trail)
          => \E i \in Live' : trail'[i] = -l /\ i > frames[LevelOf(t)].trail
    BY <1>3, <1>6, <1>11
  <2>3. t \notin {lit, -lit} BY <1>2, <1>3, <1>7, <2>1
  <2>4. values'[t] = 1 BY <1>7, <2>1, <2>3
  <2> QED BY <1>1, <1>8, <2>1, <2>2, <2>4 DEF Outlasts
<1> QED BY <1>12, <1>13

LEMMA CalmDone ==
    ASSUME SearchInv, SearchInv', BacktrackDone
    PROVE  Calm
<1>1. undo.active /\ undo.p = Len(trail) /\ frames' = frames /\ UNCHANGED <<values, level>>
  BY DEF BacktrackDone
<1> PICK q \in Nat, n \in Nat, from \in Nat :
         q = undo.q /\ n = Len(trail) /\ from = undo.from
  BY <1>1, UndoBounds
<1>2. /\ from <= q /\ q <= n /\ Live = (1 .. q) \cup (n + 1 .. n)
      /\ trail \in Seq(Lit) /\ DOMAIN trail = 1 .. n
  BY <1>1, UndoBounds
<1>3. /\ trail' = SubSeq(trail, 1, q) /\ undo' = Idle /\ propagate' = from
  BY DEF BacktrackDone
<1>4. Live = 1 .. q /\ Live' = 1 .. q /\ ~ undo'.active /\ \A i \in 1 .. q : trail'[i] = trail[i]
  <2>1. ~ undo'.active BY <1>3 DEF Idle
  <2>2. Len(trail') = q /\ \A i \in 1 .. q : trail'[i] = trail[i] BY <1>2, <1>3
  <2>3. Live' = 1 .. q BY <2>1, <2>2 DEF Live
  <2>4. Live = 1 .. q BY <1>2
  <2> QED BY <2>1, <2>2, <2>3, <2>4
<1>5. CurrentLevel' = CurrentLevel /\ \A l : LevelOf(l)' = LevelOf(l)
  BY <1>1 DEF CurrentLevel, LevelOf
<1>6. Reach = from /\ Reach' <= from /\ Reach' \in Nat
  <2>1. Bottom' = Bottom BY <1>1, <1>5 DEF Bottom
  <2>2. Bottom <= from /\ Bottom \in Nat BY <1>1, ReachFacts
  <2>3. Reach' = Bottom \/ Reach' = from BY <1>3, <1>4, <2>1 DEF Reach
  <2>4. Reach = from BY <1>1 DEF Reach
  <2> QED BY <2>2, <2>3, <2>4
<1> SUFFICES ASSUME NEW l \in Lit, Settled(l)'
             PROVE  Settled(l) /\ \A t \in Lit : Outlasts(t, l) => Outlasts(t, l)'
  BY DEF Calm
<1>7. values[l] = -1 /\ \A i \in 1 .. q : trail'[i] = -l => i <= Reach'
  BY <1>1, <1>4 DEF Settled
<1>8. \A i \in 1 .. q : trail[i] = -l => i <= from BY <1>4, <1>6, <1>7
<1>9. Settled(l) BY <1>4, <1>6, <1>7, <1>8 DEF Settled
<1>10. ASSUME NEW t \in Lit, Outlasts(t, l) PROVE Outlasts(t, l)'
  <2>1. /\ values[t] = 1 /\ LevelOf(t) <= CurrentLevel
        /\ \/ LevelOf(t) <= LevelOf(l)
           \/ \E i \in 1 .. q : trail[i] = -l /\ i > frames[LevelOf(t)].trail
    BY <1>4, <1>10 DEF Outlasts
  <2>2. (\E i \in 1 .. q : trail[i] = -l /\ i > frames[LevelOf(t)].trail)
          => \E i \in 1 .. q : trail'[i] = -l /\ i > frames[LevelOf(t)].trail
    BY <1>4
  <2> QED BY <1>1, <1>4, <1>5, <2>1, <2>2 DEF Outlasts
<1> QED BY <1>9, <1>10

LEMMA CalmUndo ==
    ASSUME SearchInv, SearchInv', BacktrackStep
    PROVE  Calm
BY CalmKeep, CalmUnassign, CalmDone DEF BacktrackStep

\* At the root all is propagated when the trail is flushed.
LEMMA CalmFlush ==
    ASSUME SearchInv, Flush, conflict = NoConflict, \A k \in Targets : k \in Nat
    PROVE  Calm
<1>1. /\ ~ undo.active /\ CurrentLevel = 0 /\ propagate = Len(trail)
      /\ UNCHANGED <<values, level, frames>>
  BY DEF Flush
<1>2. Reach = Len(trail)
  <2>1. ~ Retreating BY <1>1 DEF Retreating
  <2> QED BY <1>1, <2>1 DEF Reach
<1>3. Len(trail) \in Nat /\ Live = 1 .. Len(trail) BY <1>1, ReachFacts DEF Live
<1>4. CurrentLevel' = CurrentLevel /\ \A l : LevelOf(l)' = LevelOf(l)
  BY <1>1 DEF CurrentLevel, LevelOf
<1> SUFFICES ASSUME NEW l \in Lit, Settled(l)'
             PROVE  Settled(l) /\ \A t \in Lit : Outlasts(t, l) => Outlasts(t, l)'
  BY DEF Calm
<1>5. values[l] = -1 BY <1>1 DEF Settled
<1>6. Settled(l) BY <1>2, <1>3, <1>5 DEF Settled
<1>7. ASSUME NEW t \in Lit, Outlasts(t, l) PROVE Outlasts(t, l)'
  <2>1. values[t] = 1 /\ LevelOf(t) <= 0 BY <1>1, <1>7 DEF Outlasts
  <2>2. LevelOf(t) \in Nat /\ LevelOf(l) \in Nat BY Values DEF SearchInv
  <2>3. LevelOf(t) <= LevelOf(l) BY <2>1, <2>2
  <2> QED BY <1>1, <1>4, <2>1, <2>3 DEF Outlasts
<1> QED BY <1>6, <1>7

\* The three parts of the invariant.
WatchedInv == FirstsHeld /\ BothHeld /\ BlockingInside /\ Attention /\ Kept
PlanInv == VisitPlaced /\ ConflictOnTop /\ ForcesTop /\ ForcesPaired
AnswerInv == Finished /\ EmptyLast

IsForce(t) == t.op \in {"forceBinary", "forceLarge"}

\* A clause in hand stays in hand as long as the step that forces its literal
\* is still to do.
LEMMA InHandStays ==
    ASSUME UNCHANGED conflict,
           \A i \in DOMAIN todo : IsForce(todo[i]) => \E j \in DOMAIN todo' : todo'[j] = todo[i],
           NEW l, NEW w, InHand(l, w)
    PROVE  InHand(l, w)'
<1>1. CASE OfConflict(l, w)
  <2>1. NoConflict' = NoConflict BY DEF NoConflict
  <2>2. OfConflict(l, w)' BY <1>1, <2>1 DEF OfConflict
  <2> QED BY <2>2 DEF InHand
<1>2. CASE \E i \in DOMAIN todo : OfForce(l, w, todo[i])
  <2> PICK i \in DOMAIN todo : OfForce(l, w, todo[i]) BY <1>2
  <2>1. IsForce(todo[i]) BY DEF OfForce, IsForce
  <2> PICK j \in DOMAIN todo' : todo'[j] = todo[i] BY <2>1
  <2>2. OfForce(l, w, todo'[j]) OBVIOUS
  <2>3. \E k \in DOMAIN todo' : OfForce(l, w, todo'[k]) BY <2>2
  <2> QED BY <2>3 DEF InHand
<1> QED BY <1>1, <1>2 DEF InHand

\* Steps that leave the clauses and their watches alone.
LEMMA MovesKept ==
    ASSUME SearchInv, WatchedInv, UNCHANGED <<arena, watches, visit, conflict, formula>>,
           Calm, AtRoot \subseteq AtRoot',
           \A i \in DOMAIN todo : IsForce(todo[i]) => \E j \in DOMAIN todo' : todo'[j] = todo[i]
    PROVE  WatchedInv'
<1>1. /\ FirstsHeld /\ BothHeld /\ BlockingInside /\ Attention /\ Kept
  BY DEF WatchedInv
<1>2. /\ FirstsHeld' /\ BothHeld' /\ BlockingInside'
      /\ \A l : Seen(l)' = Seen(l) /\ Held(l)' = Held(l)
      /\ \A w : IsLive(w)' <=> IsLive(w)
      /\ \A l, w : Partners(l, w)' = Partners(l, w)
      /\ References' = References /\ LiveReferences' = LiveReferences
  BY <1>1, ListsSame
<1>3. \A l, w : InHand(l, w) => Attended(l, w)' BY InHandStays DEF Attended
<1>4. Attention' BY <1>1, <1>2, <1>3, AttentionKept
<1>5. Kept'
  <2>1. \A l \in Lit : \A w \in Held(l) : w.binary => w \in Held(l)' BY <1>2
  <2>2. \A r \in LiveReferences : ~ arena[r].redundant =>
          /\ r \in LiveReferences' /\ ~ arena'[r].redundant
          /\ ToSet(arena'[r].lits) \subseteq ToSet(arena[r].lits)
    BY <1>2
  <2> QED BY <1>1, <2>1, <2>2, KeptStays
<1> QED BY <1>2, <1>4, <1>5 DEF WatchedInv

\* Root literals stay false when no level changes.
LEMMA RootStays ==
    ASSUME \A l \in Lit : values[l] = -1 /\ LevelOf(l) = 0
                              => values'[l] = -1 /\ LevelOf(l)' = 0
    PROVE  AtRoot \subseteq AtRoot'
BY DEF AtRoot

LEMMA VisitStays ==
    ASSUME VisitPlaced, UNCHANGED <<visit, trail, propagate, frames>>
    PROVE  VisitPlaced'
<1>1. CurrentLevel' = CurrentLevel BY DEF CurrentLevel
<1> QED BY <1>1 DEF VisitPlaced

LEMMA NoPlace == visit = NoVisit => VisitPlaced
BY DEF VisitPlaced, NoVisit

LEMMA NoPlaceNext == visit' = NoVisit => VisitPlaced'
BY DEF VisitPlaced, NoVisit

\* The steps that force a literal rely on literals that are safe.
LEMMA ForcesStay ==
    ASSUME SearchInv, ForcesTop,
           \A i \in DOMAIN todo' : todo'[i].op = "forceLarge"
               => \E j \in DOMAIN todo : todo[j] = todo'[i],
           \A r \in References : arena'[r].lits = arena[r].lits,
           \A l \in Lit : Safe(l) => LevelOf(l)' = LevelOf(l)
    PROVE  ForcesTop'
<1> SUFFICES ASSUME NEW i \in DOMAIN todo', todo'[i].op = "forceLarge",
                    NEW m \in ToSet(arena'[todo'[i].ref].lits) \ {todo'[i].lit},
                    NEW o \in {arena'[todo'[i].ref].lits[1], arena'[todo'[i].ref].lits[2]}
                                \ {todo'[i].lit}
             PROVE  LevelOf(m)' <= LevelOf(o)'
  BY DEF ForcesTop, First
<1> PICK j \in DOMAIN todo : todo[j] = todo'[i] OBVIOUS
<1> PICK t : t = todo[j] OBVIOUS
<1>1. Holds(t) BY DEF SearchInv, TodoSound
<1>2. /\ t.op = "forceLarge" /\ t.ref \in References
      /\ \A k \in ToSet(arena[t.ref].lits) \ {t.lit} : Safe(k)
  BY <1>1 DEF Holds
<1>3. arena'[t.ref].lits = arena[t.ref].lits BY <1>2
<1>5. m \in ToSet(arena[t.ref].lits) \ {t.lit} BY <1>3
<1>6. o \in First(t.ref) \ {t.lit} BY <1>3 DEF First
<1>7. First(t.ref) \subseteq ToSet(arena[t.ref].lits)
  <2>1. arena[t.ref].lits \in Seq(Lit) /\ Len(arena[t.ref].lits) > 2
    BY <1>2 DEF SearchInv, ArenaSound, ClauseType, References
  <2>2. 1 \in DOMAIN arena[t.ref].lits /\ 2 \in DOMAIN arena[t.ref].lits BY <2>1
  <2> QED BY <2>2 DEF First, ToSet
<1>8. Safe(m) /\ Safe(o) BY <1>2, <1>5, <1>6, <1>7
<1>9. LevelOf(m)' = LevelOf(m) /\ LevelOf(o)' = LevelOf(o) BY <1>8 DEF Safe
<1>10. LevelOf(m) <= LevelOf(o) BY <1>2, <1>5, <1>6 DEF ForcesTop
<1> QED BY <1>9, <1>10

LEMMA NoForces ==
    ASSUME \A i \in DOMAIN todo' : todo'[i].op \notin {"forceLarge", "newBinary"}
    PROVE  ForcesTop' /\ ForcesPaired'
BY DEF ForcesTop, ForcesPaired

LEMMA NoAnalysis == ~ Analysis' => ConflictOnTop'
BY DEF ConflictOnTop

\* Of the steps to do only the first is taken off.
LEMMA PairsTail ==
    ASSUME SearchInv, ForcesPaired, todo # <<>>, Done
    PROVE  ForcesPaired'
<1>1. TodoSound BY DEF SearchInv
<1>2. /\ Len(todo) \in Nat /\ Len(todo') = Len(todo) - 1
      /\ DOMAIN todo = 1 .. Len(todo) /\ DOMAIN todo' = 1 .. Len(todo')
      /\ \A i \in DOMAIN todo' : i + 1 \in DOMAIN todo /\ todo'[i] = todo[i + 1]
  BY <1>1, TodoTail
<1> SUFFICES ASSUME NEW i \in DOMAIN todo', todo'[i].op = "newBinary"
             PROVE  i + 1 \in DOMAIN todo' /\ todo'[i + 1] = ForceBinary(todo'[i].lit, todo'[i].other)
  BY DEF ForcesPaired, ForceBinary
<1>3. i + 1 \in DOMAIN todo /\ todo'[i] = todo[i + 1] /\ i \in Nat BY <1>2
<1>4. /\ (i + 1) + 1 \in DOMAIN todo
      /\ todo[(i + 1) + 1] = ForceBinary(todo[i + 1].lit, todo[i + 1].other)
  BY <1>3 DEF ForcesPaired
<1>5. i + 1 \in DOMAIN todo' BY <1>2, <1>3, <1>4
<1>6. todo'[i + 1] = todo[(i + 1) + 1] BY <1>2, <1>5
<1> QED BY <1>3, <1>4, <1>5, <1>6

LEMMA ForcesTail ==
    ASSUME SearchInv, todo # <<>>, Done
    PROVE  /\ \A i \in DOMAIN todo' : \E j \in DOMAIN todo : todo[j] = todo'[i]
           /\ \A i \in DOMAIN todo : todo[i] = Head(todo) \/ \E j \in DOMAIN todo' : todo'[j] = todo[i]
           /\ \A i \in DOMAIN todo : i = 1 \/ \E j \in DOMAIN todo' : todo'[j] = todo[i]
           /\ Head(todo) = todo[1] /\ 1 \in DOMAIN todo
<1>1. TodoSound BY DEF SearchInv
<1>2. /\ \A i \in DOMAIN todo' : i + 1 \in DOMAIN todo /\ todo'[i] = todo[i + 1]
      /\ \A i \in DOMAIN todo : i # 1 => i - 1 \in DOMAIN todo' /\ todo'[i - 1] = todo[i]
      /\ Head(todo) = todo[1] /\ 1 \in DOMAIN todo
  BY <1>1, TodoTail
<1>3. \A i \in DOMAIN todo' : \E j \in DOMAIN todo : todo[j] = todo'[i] BY <1>2
<1>4. \A i \in DOMAIN todo : i = 1 \/ \E j \in DOMAIN todo' : todo'[j] = todo[i] BY <1>2
<1> QED BY <1>2, <1>3, <1>4

\* Steps that leave the trail alone too.
LEMMA StillReach ==
    ASSUME SearchInv, UNCHANGED trailVars, undo.active \/ (Retreating => Retreating')
    PROVE  Reach' <= Reach
<1>1. /\ Bottom \in Nat /\ Reach \in Nat /\ (~ undo.active => Bottom <= Reach)
  BY ReachFacts
<1>2. /\ undo' = undo /\ propagate' = propagate /\ frames' = frames /\ CurrentLevel' = CurrentLevel
  BY DEF trailVars, CurrentLevel
<1>3. Bottom' = Bottom BY <1>2 DEF Bottom
<1>4. CASE undo.active
  <2>1. Reach' = Reach BY <1>2, <1>4 DEF Reach
  <2> QED BY <1>1, <2>1
<1>5. CASE ~ undo.active /\ Retreating'
  <2>1. Reach' = Bottom BY <1>2, <1>3, <1>5 DEF Reach
  <2> QED BY <1>1, <1>5, <2>1
<1>6. CASE ~ undo.active /\ ~ Retreating'
  <2>1. Reach' = Reach BY <1>2, <1>6 DEF Reach
  <2> QED BY <1>1, <2>1
<1> QED BY <1>4, <1>5, <1>6

LEMMA StillRoot ==
    ASSUME UNCHANGED trailVars
    PROVE  AtRoot' = AtRoot
<1>1. \A l : LevelOf(l)' = LevelOf(l) BY DEF trailVars, LevelOf
<1> QED BY <1>1 DEF AtRoot, trailVars

LEMMA StillKept ==
    ASSUME SearchInv, SearchInv', WatchedInv,
           UNCHANGED <<trailVars, arena, watches, visit, conflict, formula>>,
           Retreating => Retreating',
           \A i \in DOMAIN todo : IsForce(todo[i]) => \E j \in DOMAIN todo' : todo'[j] = todo[i]
    PROVE  WatchedInv'
<1>1. Reach' <= Reach BY StillReach
<1>2. Calm BY <1>1, CalmStill DEF trailVars
<1>3. AtRoot' = AtRoot BY StillRoot
<1> QED BY <1>2, <1>3, MovesKept

\* Steps that take no part in all this.
LEMMA BystandersWatched ==
    ASSUME SearchInv, SearchInv', WatchedInv, PlanInv,
           UNCHANGED <<trailVars, clauseVars, visit, todo, analysisVars, formula>>
    PROVE  WatchedInv' /\ PlanInv'
<1>0. /\ UNCHANGED <<arena, watches, visit, conflict, formula, todo, resolvent, resolved, frames>>
      /\ UNCHANGED <<trail, propagate, level>>
  BY DEF clauseVars, analysisVars, trailVars
<1>1. Targets' = Targets /\ CurrentLevel' = CurrentLevel /\ (Analysis' <=> Analysis)
  BY <1>0 DEF Targets, CurrentLevel, Analysis
<1>2. Retreating => Retreating' BY <1>0, <1>1 DEF Retreating, NoConflict
<1>3. WatchedInv' BY <1>0, <1>2, StillKept
<1>4. \A l : LevelOf(l)' = LevelOf(l) BY <1>0 DEF LevelOf
<1>5. \A r : First(r)' = First(r) BY <1>0 DEF First
<1>6. ConflictWatched' = ConflictWatched /\ LitsOf(conflict)' = LitsOf(conflict)
  BY <1>0 DEF ConflictWatched, First, LitsOf
<1>7. \A D : AboveRoot(D)' = AboveRoot(D) BY <1>4 DEF AboveRoot
<1>8. ConflictOnTop' BY <1>0, <1>1, <1>4, <1>6, <1>7 DEF PlanInv, ConflictOnTop
<1>9. VisitPlaced' BY <1>0, VisitStays DEF PlanInv
<1>10. ForcesTop' BY <1>0, <1>4, <1>5 DEF PlanInv, ForcesTop
<1>11. ForcesPaired' BY <1>0 DEF PlanInv, ForcesPaired
<1> QED BY <1>3, <1>8, <1>9, <1>10, <1>11 DEF PlanInv

LEMMA BystandersKept ==
    /\ SearchInv /\ SearchInv' /\ WatchedInv /\ PlanInv /\ UNCHANGED searchVars
          => WatchedInv' /\ PlanInv'
    /\ SearchInv /\ SearchInv' /\ WatchedInv /\ PlanInv
          /\ (CheckLine \/ Satisfiable \/ Terminate \/ AnalyzeRootConflict)
          => WatchedInv' /\ PlanInv'
<1>1. UNCHANGED searchVars
        => UNCHANGED <<trailVars, clauseVars, visit, todo, analysisVars, formula>>
  BY DEF searchVars, loopVars
<1>2. CheckLine \/ Satisfiable \/ Terminate \/ AnalyzeRootConflict
        => UNCHANGED <<trailVars, clauseVars, visit, todo, analysisVars, formula>>
  BY DEF CheckLine, Satisfiable, Terminate, AnalyzeRootConflict
<1> QED BY <1>1, <1>2, BystandersWatched

\* Resolving.
LEMMA DeduceStepKept ==
    SearchInv /\ SearchInv' /\ WatchedInv /\ PlanInv /\ DeduceStep => WatchedInv' /\ PlanInv'
<1> SUFFICES ASSUME SearchInv, SearchInv', WatchedInv, PlanInv, DeduceStep
             PROVE  WatchedInv' /\ PlanInv'
  OBVIOUS
<1>0. /\ UNCHANGED <<trailVars, arena, watches, visit, conflict, formula, todo, level>>
      /\ resolved' = resolved + 1 /\ Doing("deduce")
  BY DEF DeduceStep, clauseVars, loopVars, trailVars
<1>1. Targets' = Targets /\ CurrentLevel' = CurrentLevel /\ (Analysis' <=> Analysis)
  BY <1>0 DEF Targets, CurrentLevel, Analysis, trailVars
<1>2. Retreating => Retreating' BY <1>0, <1>1 DEF Retreating, NoConflict
<1>3. WatchedInv' BY <1>0, <1>2, StillKept
<1>4. todo # <<>> BY <1>0 DEF Doing
<1>5. visit' = NoVisit BY <1>0, <1>4, HandlerIdle
<1>6. VisitPlaced' BY <1>5, NoPlaceNext
<1>7. \A l : LevelOf(l)' = LevelOf(l) BY <1>0 DEF LevelOf
<1>8. \A r : First(r)' = First(r) BY <1>0 DEF First
<1>9. ConflictWatched' = ConflictWatched BY <1>0 DEF ConflictWatched, First
<1>10. ConflictOnTop'
  <2> SUFFICES ASSUME Analysis
               PROVE  /\ \A l \in ConflictWatched : LevelOf(l) = CurrentLevel \/ LevelOf(l) \in Targets
                      /\ resolved' \in Nat /\ resolved' # 0
    BY <1>1, <1>7, <1>9 DEF ConflictOnTop
  <2>1. /\ \A l \in ConflictWatched : LevelOf(l) = CurrentLevel \/ LevelOf(l) \in Targets
        /\ resolved \in Nat
    BY DEF PlanInv, ConflictOnTop
  <2> QED BY <1>0, <2>1
<1>11. ForcesTop' BY <1>0, <1>7, <1>8 DEF PlanInv, ForcesTop
<1>12. ForcesPaired' BY <1>0 DEF PlanInv, ForcesPaired
<1> QED BY <1>3, <1>6, <1>10, <1>11, <1>12 DEF PlanInv

LEMMA FailedStepKept ==
    SearchInv /\ SearchInv' /\ WatchedInv /\ PlanInv /\ FailedStep => WatchedInv' /\ PlanInv'
<1> SUFFICES ASSUME SearchInv, SearchInv', WatchedInv, PlanInv, FailedStep
             PROVE  WatchedInv' /\ PlanInv'
  OBVIOUS
<1>0. /\ UNCHANGED <<trailVars, arena, watches, visit, conflict, formula, level, resolved>>
      /\ Doing("failed")
      /\ todo' = todo \/ todo' = Append(todo, LearnedUnit(Pivot))
  BY DEF FailedStep, clauseVars, loopVars, trailVars
<1>1. /\ todo # <<>> /\ 1 \in DOMAIN todo /\ todo \in Seq(StepType) /\ Targets = {}
      /\ \A i \in DOMAIN todo : i # 1 => todo[i].op = "unit"
      /\ todo[1].op = "failed"
  BY <1>0, AnalysisFacts DEF Doing
<1>2. \A i \in DOMAIN todo' : todo'[i].op \in {"failed", "unit"}
  <2>1. CASE todo' = todo BY <1>1, <2>1
  <2>2. CASE todo' = Append(todo, LearnedUnit(Pivot))
    <3>1. DOMAIN todo' = 1 .. Len(todo) + 1 /\ DOMAIN todo = 1 .. Len(todo) /\ Len(todo) \in Nat
      BY <1>1, <2>2
    <3>2. todo'[Len(todo) + 1].op = "unit" BY <1>1, <2>2 DEF LearnedUnit
    <3>3. \A i \in 1 .. Len(todo) : todo'[i] = todo[i] BY <1>1, <2>2
    <3> QED BY <1>1, <3>1, <3>2, <3>3
  <2> QED BY <1>0, <2>1, <2>2
<1>3. Targets' = {} BY <1>2 DEF Targets
<1>4. Analysis BY <1>1 DEF Analysis
<1>5. CurrentLevel' = CurrentLevel BY <1>0 DEF CurrentLevel, trailVars
<1>6. Retreating => Retreating' BY <1>0, <1>1, <1>3 DEF Retreating, NoConflict
<1>7. \A i \in DOMAIN todo : ~ IsForce(todo[i]) BY <1>1 DEF IsForce
<1>8. WatchedInv' BY <1>0, <1>6, <1>7, StillKept
<1>9. visit' = NoVisit BY <1>0, <1>1, HandlerIdle
<1>10. VisitPlaced' BY <1>9, NoPlaceNext
<1>11. ForcesTop' /\ ForcesPaired' BY <1>2, NoForces
<1>12. \A l : LevelOf(l)' = LevelOf(l) BY <1>0 DEF LevelOf
<1>13. ConflictWatched' = ConflictWatched BY <1>0 DEF ConflictWatched, First
<1>14. ConflictOnTop'
  <2>1. /\ \A l \in ConflictWatched : LevelOf(l) = CurrentLevel
        /\ resolved \in Nat
    BY <1>1, <1>4 DEF PlanInv, ConflictOnTop
  <2>2. ~ \E i \in DOMAIN todo' : todo'[i].op = "deduce" BY <1>2
  <2> QED BY <1>0, <1>5, <1>12, <1>13, <2>1, <2>2 DEF ConflictOnTop
<1> QED BY <1>8, <1>10, <1>11, <1>14 DEF PlanInv

LEMMA RestartKept ==
    SearchInv /\ SearchInv' /\ WatchedInv /\ PlanInv /\ Restart => WatchedInv' /\ PlanInv'
<1> SUFFICES ASSUME SearchInv, SearchInv', WatchedInv, PlanInv, Restart
             PROVE  WatchedInv' /\ PlanInv'
  OBVIOUS
<1>0. /\ UNCHANGED <<trailVars, arena, watches, visit, conflict, formula>>
      /\ todo = <<>> /\ conflict = NoConflict /\ visit = NoVisit
      /\ \E k \in 0 .. CurrentLevel : todo' = <<Backtrack(k)>>
  BY DEF Restart, clauseVars, Ready, Flushed, Propagated, Propagating
<1>1. Targets = {} BY <1>0, LoopIdle
<1>2. ~ Retreating BY <1>0, <1>1 DEF Retreating
<1>3. WatchedInv' BY <1>0, <1>2, StillKept
<1>4. VisitPlaced' BY <1>0, NoPlaceNext
<1>5. \A i \in DOMAIN todo' : todo'[i].op = "backtrack" BY <1>0 DEF Backtrack
<1>6. ForcesTop' /\ ForcesPaired' BY <1>5, NoForces
<1>7. ConflictOnTop' BY <1>5, NoAnalysis DEF Analysis
<1> QED BY <1>3, <1>4, <1>6, <1>7 DEF PlanInv

\* The watched literals of a conflict are literals of it.
LEMMA WatchedSafe ==
    ASSUME SearchInv, conflict # NoConflict
    PROVE  /\ ConflictWatched \subseteq ToSet(LitsOf(conflict))
           /\ \A l \in ToSet(LitsOf(conflict)) : Safe(l) /\ l \in Lit
<1>1. /\ \/ conflict.ref \in References /\ ~ arena[conflict.ref].garbage
         \/ conflict.ref = 0
      /\ \A l \in ToSet(LitsOf(conflict)) : Safe(l)
  BY DEF SearchInv, ConflictSound
<1>2. CASE conflict.ref = 0 BY <1>1, <1>2 DEF ConflictWatched, LitsOf, Safe
<1>3. CASE conflict.ref # 0
  <2>1. conflict.ref \in References BY <1>1, <1>3
  <2>2. arena[conflict.ref].lits \in Seq(Lit) /\ Len(arena[conflict.ref].lits) > 2
    BY <2>1 DEF SearchInv, ArenaSound
  <2>3. 1 \in DOMAIN arena[conflict.ref].lits /\ 2 \in DOMAIN arena[conflict.ref].lits BY <2>2
  <2>4. First(conflict.ref) \subseteq ToSet(arena[conflict.ref].lits) BY <2>3 DEF First, ToSet
  <2> QED BY <1>1, <1>3, <2>4 DEF ConflictWatched, LitsOf, Safe
<1> QED BY <1>2, <1>3

\* A conflict that is still on top.
LEMMA OnTopStays ==
    ASSUME SearchInv, ConflictOnTop, UNCHANGED <<arena, conflict, analysisVars>>,
           Analysis' => Analysis,
           \A l \in Lit : Safe(l) => LevelOf(l)' = LevelOf(l),
           \A l \in Lit : Safe(l) /\ (LevelOf(l) = CurrentLevel \/ LevelOf(l) \in Targets)
               => (LevelOf(l) = CurrentLevel \/ LevelOf(l) \in Targets)',
           (\E i \in DOMAIN todo' : todo'[i].op = "deduce")
               => \E i \in DOMAIN todo : todo[i].op = "deduce"
    PROVE  ConflictOnTop'
<1>0. UNCHANGED <<arena, conflict, resolvent, resolved>> BY DEF analysisVars
<1> SUFFICES ASSUME Analysis
             PROVE  ConflictOnTop'
  BY DEF ConflictOnTop
<1>1. conflict # NoConflict BY DEF SearchInv, ResolventSound
<1>2. /\ ConflictWatched \subseteq ToSet(LitsOf(conflict))
      /\ \A l \in ToSet(LitsOf(conflict)) : Safe(l) /\ l \in Lit
  BY <1>1, WatchedSafe
<1>3. ConflictWatched' = ConflictWatched BY <1>0 DEF ConflictWatched, First
<1>4. LitsOf(conflict)' = LitsOf(conflict) BY <1>0 DEF LitsOf
<1>5. AboveRoot(ToSet(LitsOf(conflict)))' = AboveRoot(ToSet(LitsOf(conflict)))
  <2>1. \A l \in ToSet(LitsOf(conflict)) : LevelOf(l)' = LevelOf(l) BY <1>2
  <2> QED BY <1>4, <2>1 DEF AboveRoot
<1>6. \A l \in ConflictWatched' : (LevelOf(l) = CurrentLevel \/ LevelOf(l) \in Targets)'
  BY <1>2, <1>3 DEF ConflictOnTop
<1>7. resolved' \in Nat BY <1>0 DEF ConflictOnTop
<1>8. (resolved' = 0 /\ \E i \in DOMAIN todo' : todo'[i].op = "deduce")
        => resolvent' = AboveRoot(ToSet(LitsOf(conflict)))'
  BY <1>0, <1>5 DEF ConflictOnTop
<1> QED BY <1>6, <1>7, <1>8 DEF ConflictOnTop

\* A backtrack begins, or is none.
LEMMA BacktrackKept ==
    SearchInv /\ SearchInv' /\ WatchedInv /\ PlanInv /\ DoBacktrack => WatchedInv' /\ PlanInv'
<1> SUFFICES ASSUME SearchInv, SearchInv', WatchedInv, PlanInv, DoBacktrack
             PROVE  WatchedInv' /\ PlanInv'
  OBVIOUS
<1>1. /\ todo # <<>> /\ Head(todo).op = "backtrack" /\ Done
      /\ UNCHANGED <<arena, watches, conflict, analysisVars, visit, formula>>
      /\ IF Head(todo).to < CurrentLevel THEN BacktrackStart(Head(todo).to)
                                         ELSE UNCHANGED trailVars
  BY DEF DoBacktrack, Doing, clauseVars, loopVars
<1>2. PICK k \in Nat : k = Head(todo).to
  <2>1. todo[1] \in StepType /\ Head(todo) = todo[1] BY <1>1, TodoTail DEF SearchInv
  <2> QED BY <1>1, <2>1, StepTypes
<1>3. Targets = Targets' \cup {k} /\ Targets \subseteq Nat
  BY <1>1, <1>2, TargetsTail, TargetsNat DEF SearchInv
<1>4. CurrentLevel \in Nat /\ frames \in Seq([decision : Lit, trail : Nat])
  BY DEF SearchInv, TrailInv, TrailTypeOK, CurrentLevel
<1>5. UNCHANGED <<values, level>>
  BY <1>1, <1>2 DEF BacktrackStart, trailVars
<1>6. IF k < CurrentLevel THEN CurrentLevel' = k ELSE CurrentLevel' = CurrentLevel
  <2>1. CASE k < CurrentLevel
    <3>1. frames' = SubSeq(frames, 1, k) BY <1>1, <1>2, <2>1 DEF BacktrackStart
    <3>2. Len(frames') = k
      BY <1>2, <1>4, <2>1, <3>1 DEF CurrentLevel
    <3> QED BY <1>2, <2>1, <3>2 DEF CurrentLevel
  <2>2. CASE ~ (k < CurrentLevel)
    <3>1. frames' = frames BY <1>1, <1>2, <2>2 DEF trailVars
    <3> QED BY <1>4, <2>2, <3>1 DEF CurrentLevel
  <2> QED BY <2>1, <2>2
<1>7. \A l : LevelOf(l)' = LevelOf(l) BY <1>5 DEF LevelOf
<1>8. \A i \in DOMAIN todo : IsForce(todo[i]) => \E j \in DOMAIN todo' : todo'[j] = todo[i]
  <2>1. ~ IsForce(Head(todo)) BY <1>1 DEF IsForce
  <2> QED BY <1>1, <2>1, ForcesTail
<1>9. AtRoot' = AtRoot BY <1>5, <1>7 DEF AtRoot
<1>10. WatchedInv'
  <2>1. CASE k < CurrentLevel
    <3>1. k \in Targets BY <1>3
    <3>2. Retreating BY <2>1, <3>1 DEF Retreating
    <3>3. BacktrackStart(k) BY <1>1, <1>2, <2>1
    <3>4. Calm BY <3>2, <3>3, CalmStart
    <3> QED BY <1>1, <1>8, <1>9, <3>4, MovesKept
  <2>2. CASE ~ (k < CurrentLevel)
    <3>1. UNCHANGED trailVars /\ CurrentLevel' = CurrentLevel BY <1>1, <1>2, <1>6, <2>2
    <3>2. \A j \in Targets : j < CurrentLevel => j \in Targets' BY <1>3, <2>2
    <3>3. Retreating => Retreating' BY <1>1, <3>1, <3>2 DEF Retreating, NoConflict
    <3> QED BY <1>1, <1>8, <3>1, <3>3, StillKept
  <2> QED BY <2>1, <2>2
<1>11. VisitPlaced'
  <2>1. visit' = NoVisit BY <1>1, HandlerIdle
  <2> QED BY <2>1, NoPlaceNext
<1>12. ForcesPaired' BY <1>1, PairsTail DEF PlanInv
<1>13. ForcesTop'
  <2>1. \A i \in DOMAIN todo' : todo'[i].op = "forceLarge" => \E j \in DOMAIN todo : todo[j] = todo'[i]
    BY <1>1, ForcesTail
  <2> QED BY <1>1, <1>7, <2>1, ForcesStay DEF PlanInv
<1>14. ConflictOnTop'
  <2>1. Analysis' => Analysis
    BY <1>1, AnalysisTail DEF SearchInv
  <2>2. (\E i \in DOMAIN todo' : todo'[i].op = "deduce") => \E i \in DOMAIN todo : todo[i].op = "deduce"
    <3>1. \A i \in DOMAIN todo' : \E j \in DOMAIN todo : todo[j] = todo'[i] BY <1>1, ForcesTail
    <3> QED BY <3>1
  <2>3. ASSUME NEW l \in Lit, Safe(l), LevelOf(l) = CurrentLevel \/ LevelOf(l) \in Targets
        PROVE  (LevelOf(l) = CurrentLevel \/ LevelOf(l) \in Targets)'
    <3>1. LevelOf(l) <= k /\ LevelOf(l) <= CurrentLevel /\ LevelOf(l) \in Nat
      BY <1>3, <2>3, Values DEF Safe, SearchInv
    <3>2. CASE k < CurrentLevel
      <4>1. LevelOf(l) = k \/ LevelOf(l) \in Targets' BY <1>3, <1>4, <2>3, <3>1, <3>2
      <4> QED BY <1>6, <1>7, <3>2, <4>1
    <3>3. CASE ~ (k < CurrentLevel)
      <4>1. LevelOf(l) = CurrentLevel \/ LevelOf(l) \in Targets' BY <1>3, <1>4, <2>3, <3>1, <3>3
      <4> QED BY <1>6, <1>7, <3>3, <4>1
    <3> QED BY <3>2, <3>3
  <2>4. UNCHANGED <<arena, conflict, analysisVars>> BY <1>1
  <2> QED BY <1>7, <2>1, <2>2, <2>3, <2>4, OnTopStays DEF PlanInv
<1> QED BY <1>10, <1>11, <1>12, <1>13, <1>14 DEF PlanInv

\* Its loop.
LEMMA UndoKept ==
    SearchInv /\ SearchInv' /\ WatchedInv /\ PlanInv /\ UndoStep => WatchedInv' /\ PlanInv'
<1> SUFFICES ASSUME SearchInv, SearchInv', WatchedInv, PlanInv, UndoStep
             PROVE  WatchedInv' /\ PlanInv'
  OBVIOUS
<1>1. /\ BacktrackStep
      /\ UNCHANGED <<arena, watches, conflict, analysisVars, visit, todo, formula>>
  BY DEF UndoStep, clauseVars, loopVars
<1>2. /\ undo.active /\ CurrentLevel' = CurrentLevel
      /\ \A l \in Lit : /\ LevelOf(l)' = LevelOf(l)
                        /\ LevelOf(l) <= CurrentLevel => values'[l] = values[l]
  BY <1>1, UndoFacts DEF SearchInv
<1>3. Calm BY <1>1, CalmUndo
<1>4. AtRoot \subseteq AtRoot'
  <2>1. CurrentLevel \in Nat BY ReachFacts
  <2>2. 0 <= CurrentLevel BY <2>1
  <2> QED BY <1>2, <2>2, RootStays
<1>5. WatchedInv' BY <1>1, <1>3, <1>4, MovesKept
<1>6. VisitPlaced'
  <2>1. visit' = NoVisit BY <1>1, <1>2 DEF SearchInv, VisitSound
  <2> QED BY <2>1, NoPlaceNext
<1>7. ForcesPaired' BY <1>1 DEF PlanInv, ForcesPaired
<1>8. ForcesTop' BY <1>1, <1>2, ForcesStay DEF PlanInv
<1>9. ConflictOnTop'
  <2>1. Targets' = Targets /\ (Analysis' <=> Analysis) BY <1>1 DEF Targets, Analysis
  <2> QED BY <1>1, <1>2, <2>1, OnTopStays DEF PlanInv
<1> QED BY <1>5, <1>6, <1>7, <1>8, <1>9 DEF PlanInv

\* Nothing is left to do.
LEMMA IdlePlan ==
    ASSUME todo' = <<>>
    PROVE  ForcesTop' /\ ForcesPaired' /\ ConflictOnTop'
<1>1. DOMAIN todo' = {} OBVIOUS
<1>2. ForcesTop' /\ ForcesPaired' BY <1>1, NoForces
<1>3. ConflictOnTop' BY <1>1, NoAnalysis DEF Analysis
<1> QED BY <1>2, <1>3

LEMMA FlushKept ==
    SearchInv /\ WatchedInv /\ PlanInv /\ FlushTrail => WatchedInv' /\ PlanInv'
<1> SUFFICES ASSUME SearchInv, WatchedInv, PlanInv, FlushTrail
             PROVE  WatchedInv' /\ PlanInv'
  OBVIOUS
<1>1. /\ Flush /\ Propagating /\ visit' = NoVisit
      /\ UNCHANGED <<arena, watches, conflict, visit, todo, formula, values, level>>
  BY DEF FlushTrail, clauseVars, loopVars, Flush
<1>2. todo = <<>> /\ conflict = NoConflict BY <1>1, PropagatingIdle
<1>3. \A k \in Targets : k \in Nat BY TargetsNat DEF SearchInv
<1>4. Calm BY <1>1, <1>2, <1>3, CalmFlush
<1>5. AtRoot' = AtRoot BY <1>1 DEF AtRoot, LevelOf
<1>6. WatchedInv' BY <1>1, <1>4, <1>5, MovesKept
<1>7. VisitPlaced' BY <1>1, NoPlaceNext
<1> QED BY <1>1, <1>2, <1>6, <1>7, IdlePlan DEF PlanInv

\* A false literal of the root stays one when another is assigned.
LEMMA PushRoot ==
    ASSUME SearchInv, ~ undo.active, NEW lit \in Lit, NEW lvl \in Nat, Push(lit, lvl)
    PROVE  AtRoot \subseteq AtRoot'
<1>1. /\ \A m \in Lit : m \notin {lit, -lit} => values'[m] = values[m] /\ LevelOf(m)' = LevelOf(m)
      /\ \A m \in Lit : values[m] # 0 => m \notin {lit, -lit}
  BY PushKept DEF SearchInv
<1> QED BY <1>1, RootStays

LEMMA DecideKept ==
    SearchInv /\ SearchInv' /\ WatchedInv /\ PlanInv /\ SearchDecide => WatchedInv' /\ PlanInv'
<1> SUFFICES ASSUME SearchInv, SearchInv', WatchedInv, PlanInv, SearchDecide
             PROVE  WatchedInv' /\ PlanInv'
  OBVIOUS
<1>1. PICK lit \in Lit : Decide(lit) BY DEF SearchDecide
<1>2. /\ Ready /\ UNCHANGED <<arena, watches, conflict, visit, todo, formula>>
  BY DEF SearchDecide, clauseVars, loopVars
<1>3. /\ Propagating /\ visit = NoVisit /\ todo = <<>> /\ conflict = NoConflict /\ ~ undo.active
  BY <1>2 DEF Ready, Flushed, Propagated, Propagating
<1>4. Targets = {} /\ Targets' = {}
  <2>1. Targets = {} BY <1>3, LoopIdle
  <2> QED BY <1>2, <2>1 DEF Targets
<1>5. CurrentLevel \in Nat /\ propagate \in Nat BY ReachFacts
<1> PICK n \in Nat : n = CurrentLevel BY <1>5
<1>6. /\ frames' = Append(frames, [decision |-> lit, trail |-> Len(trail)])
      /\ Push(lit, n + 1) /\ propagate' = propagate /\ undo' = undo
  BY <1>1 DEF Decide
<1>7. CurrentLevel' = n + 1 /\ \A k \in 1 .. n : frames'[k] = frames[k]
  <2>1. frames \in Seq([decision : Lit, trail : Nat]) /\ Len(frames) = n
    BY DEF SearchInv, TrailInv, TrailTypeOK, CurrentLevel
  <2>2. Len(Append(frames, [decision |-> lit, trail |-> Len(trail)])) = n + 1
        /\ \A k \in 1 .. n : Append(frames, [decision |-> lit, trail |-> Len(trail)])[k] = frames[k]
    BY <2>1
  <2> QED BY <1>6, <2>2 DEF CurrentLevel
<1>8. Reach' = propagate /\ Reach = propagate
  <2>1. ~ Retreating /\ ~ Retreating' BY <1>2, <1>3, <1>4 DEF Retreating, NoConflict
  <2> QED BY <1>3, <1>6, <2>1 DEF Reach
<1>9. Calm
  <2>1. Reach' <= Reach /\ n <= CurrentLevel' /\ n + 1 \in Nat BY <1>5, <1>7, <1>8
  <2> QED BY <1>3, <1>6, <1>7, <2>1, CalmPush
<1>10. AtRoot \subseteq AtRoot'
  <2>1. n + 1 \in Nat OBVIOUS
  <2> QED BY <1>3, <1>6, <2>1, PushRoot
<1>11. WatchedInv' BY <1>2, <1>9, <1>10, MovesKept
<1>12. VisitPlaced' BY <1>2, <1>3, NoPlaceNext
<1> QED BY <1>2, <1>3, <1>11, <1>12, IdlePlan DEF PlanInv

\* Steps that leave the clauses alone, and attend to what was in hand.
LEMMA MovesAttended ==
    ASSUME SearchInv, WatchedInv, UNCHANGED <<arena, watches, visit, formula>>,
           Calm, AtRoot \subseteq AtRoot',
           \A l \in Lit : \A w \in Seen(l) :
               Settled(l)' /\ IsLive(w) /\ InHand(l, w) => Attended(l, w)'
    PROVE  WatchedInv'
<1>1. /\ FirstsHeld /\ BothHeld /\ BlockingInside /\ Attention /\ Kept
  BY DEF WatchedInv
<1>2. /\ FirstsHeld' /\ BothHeld' /\ BlockingInside'
      /\ \A l : Seen(l)' = Seen(l) /\ Held(l)' = Held(l)
      /\ \A w : IsLive(w)' <=> IsLive(w)
      /\ \A l, w : Partners(l, w)' = Partners(l, w)
      /\ References' = References /\ LiveReferences' = LiveReferences
  BY <1>1, ListsSame
<1>4. Attention'
  <2>1. \A l \in Lit : \A w \in Seen(l)' : Settled(l)' /\ IsLive(w)' =>
          /\ w \in Seen(l) /\ IsLive(w)
          /\ InHand(l, w) => Attended(l, w)'
          /\ \A t \in Partners(l, w) : values[t] = 1 => t \in Partners(l, w)'
    BY <1>2
  <2> QED BY <1>1, <2>1, AttentionKept
<1>5. Kept'
  <2>1. \A l \in Lit : \A w \in Held(l) : w.binary => w \in Held(l)' BY <1>2
  <2>2. \A r \in LiveReferences : ~ arena[r].redundant =>
          /\ r \in LiveReferences' /\ ~ arena'[r].redundant
          /\ ToSet(arena'[r].lits) \subseteq ToSet(arena[r].lits)
    BY <1>2
  <2> QED BY <1>1, <2>1, <2>2, KeptStays
<1> QED BY <1>2, <1>4, <1>5 DEF WatchedInv

\* A literal is assigned that some step of a handler forces.
LEMMA AssignKept ==
    ASSUME SearchInv, SearchInv', WatchedInv, PlanInv, todo # <<>>, Done,
           Head(todo).op \notin {"backtrack", "deduce", "failed"},
           UNCHANGED <<arena, watches, conflict, visit, formula>>,
           NEW lit \in Lit, NEW lvl \in Nat, Assign(lit, lvl),
           \A l \in Lit : \A w \in Seen(l) :
               Settled(l)' /\ OfForce(l, w, Head(todo)) /\ IsForce(Head(todo)) => Attended(l, w)'
    PROVE  WatchedInv' /\ PlanInv'
<1>1. /\ ~ undo.active /\ Push(lit, lvl) /\ UNCHANGED <<propagate, frames, undo>>
  BY DEF Assign
<1>2. conflict = NoConflict /\ ~ Analysis /\ ~ Analysis' /\ Targets' = Targets
  BY AnalysisOver, AnalysisTail, TargetsTail DEF SearchInv
<1>3. CurrentLevel' = CurrentLevel /\ CurrentLevel \in Nat BY <1>1, ReachFacts DEF CurrentLevel
<1>4. Retreating' <=> Retreating BY <1>2, <1>3 DEF Retreating, NoConflict
<1>5. Reach' = Reach BY <1>1, <1>3, <1>4 DEF Reach, Bottom
<1>6. Reach \in Nat BY ReachFacts
<1>7. Reach' <= Reach /\ CurrentLevel <= CurrentLevel' /\ \A k \in 1 .. CurrentLevel : frames'[k] = frames[k]
  BY <1>1, <1>3, <1>5, <1>6
<1>8. Calm BY <1>1, <1>7, CalmPush
<1>9. AtRoot \subseteq AtRoot' BY <1>1, PushRoot
<1>10. /\ \A i \in DOMAIN todo' : \E j \in DOMAIN todo : todo[j] = todo'[i]
       /\ \A i \in DOMAIN todo : todo[i] = Head(todo) \/ \E j \in DOMAIN todo' : todo'[j] = todo[i]
  BY ForcesTail
<1>11. ASSUME NEW l \in Lit, NEW w \in Seen(l), Settled(l)', InHand(l, w) PROVE Attended(l, w)'
  <2>1. ~ OfConflict(l, w) BY <1>2 DEF OfConflict
  <2>2. PICK i \in DOMAIN todo : OfForce(l, w, todo[i]) BY <1>11, <2>1 DEF InHand
  <2>3. IsForce(todo[i]) BY <2>2 DEF OfForce, IsForce
  <2>4. CASE todo[i] = Head(todo) BY <1>11, <2>2, <2>3, <2>4
  <2>5. CASE \E j \in DOMAIN todo' : todo'[j] = todo[i]
    <3> PICK j \in DOMAIN todo' : todo'[j] = todo[i] BY <2>5
    <3>1. OfForce(l, w, todo'[j]) BY <2>2
    <3>2. \E k \in DOMAIN todo' : OfForce(l, w, todo'[k]) BY <3>1
    <3>3. InHand(l, w)' BY <3>2 DEF InHand
    <3> QED BY <3>3 DEF Attended
  <2> QED BY <1>10, <2>4, <2>5
<1>12. WatchedInv' BY <1>8, <1>9, <1>11, MovesAttended
<1>13. VisitPlaced'
  <2>1. visit' = NoVisit BY HandlerIdle
  <2> QED BY <2>1, NoPlaceNext
<1>14. ForcesPaired' BY PairsTail DEF PlanInv
<1>15. ForcesTop'
  <2>1. \A m \in Lit : m \notin {lit, -lit} => LevelOf(m)' = LevelOf(m)
    BY <1>1, PushKept DEF SearchInv
  <2>2. \A m \in Lit : values[m] # 0 => m \notin {lit, -lit} BY <1>1, PushKept DEF SearchInv
  <2>3. \A l \in Lit : Safe(l) => LevelOf(l)' = LevelOf(l) BY <2>1, <2>2 DEF Safe
  <2>4. \A i \in DOMAIN todo' : todo'[i].op = "forceLarge" => \E j \in DOMAIN todo : todo[j] = todo'[i]
    BY <1>10
  <2> QED BY <2>3, <2>4, ForcesStay DEF PlanInv
<1>16. ConflictOnTop' BY <1>2, NoAnalysis
<1> QED BY <1>12, <1>13, <1>14, <1>15, <1>16 DEF PlanInv

LEMMA LearnedUnitKept ==
    SearchInv /\ SearchInv' /\ WatchedInv /\ PlanInv /\ DoLearnedUnit => WatchedInv' /\ PlanInv'
<1> SUFFICES ASSUME SearchInv, SearchInv', WatchedInv, PlanInv, DoLearnedUnit
             PROVE  WatchedInv' /\ PlanInv'
  OBVIOUS
<1>1. /\ todo # <<>> /\ Head(todo).op = "unit" /\ Done
      /\ UNCHANGED <<arena, watches, conflict, visit, formula>>
      /\ AssignReason(Head(todo).lit, 0, UnitReason)
  BY DEF DoLearnedUnit, Doing, loopVars
<1>2. PICK lit \in Lit : lit = Head(todo).lit
  <2>1. 1 \in DOMAIN todo /\ Head(todo) = todo[1] /\ todo[1] \in StepType
    BY <1>1, TodoTail DEF SearchInv
  <2> QED BY <1>1, <2>1, StepTypes
<1>3. Assign(lit, 0) BY <1>1, <1>2 DEF AssignReason
<1>4. ~ IsForce(Head(todo)) /\ Head(todo).op \notin {"backtrack", "deduce", "failed"}
  BY <1>1 DEF IsForce
<1>5. 0 \in Nat OBVIOUS
<1> QED BY <1>1, <1>3, <1>4, <1>5, AssignKept

\* The clause in hand is attended to once its literal is assigned.
LEMMA ForceKept ==
    SearchInv /\ SearchInv' /\ WatchedInv /\ PlanInv /\ DoForce => WatchedInv' /\ PlanInv'
<1> SUFFICES ASSUME SearchInv, SearchInv', WatchedInv, PlanInv, DoForce
             PROVE  WatchedInv' /\ PlanInv'
  OBVIOUS
<1>1. /\ todo # <<>> /\ Head(todo).op \in {"forceBinary", "forceLarge"} /\ Done
      /\ UNCHANGED <<watches, arena, conflict, visit, formula>>
  BY DEF DoForce, Doing, loopVars
<1>2. PICK t \in StepType : t = Head(todo) /\ t = todo[1] /\ Holds(t) /\ 1 \in DOMAIN todo
  <2>1. 1 \in DOMAIN todo /\ Head(todo) = todo[1] /\ todo[1] \in StepType
    BY <1>1, TodoTail DEF SearchInv
  <2> QED BY <2>1 DEF SearchInv, TodoSound
<1>3. PICK lit \in Lit : lit = t.lit BY <1>1, <1>2, StepTypes
<1>4. CurrentLevel \in Nat /\ TrailInv BY ReachFacts DEF SearchInv
<1>5. ASSUME NEW lvl \in Nat, Assign(lit, lvl)
      PROVE  /\ values'[lit] = 1 /\ values'[-lit] = -1 /\ LevelOf(lit)' = lvl
             /\ lvl <= CurrentLevel'
             /\ \A m \in Lit : Safe(m) => LevelOf(m)' = LevelOf(m)
  <2>1. ~ undo.active /\ Push(lit, lvl) /\ frames' = frames /\ lvl <= CurrentLevel
    BY <1>5 DEF Assign
  <2>2. /\ values'[lit] = 1 /\ values'[-lit] = -1 /\ LevelOf(lit)' = lvl
        /\ \A m \in Lit : m \notin {lit, -lit} => LevelOf(m)' = LevelOf(m)
        /\ \A m \in Lit : values[m] # 0 => m \notin {lit, -lit}
    BY <2>1, PushKept DEF SearchInv
  <2> QED BY <2>1, <2>2 DEF Safe, CurrentLevel
<1>6. CASE t.op = "forceBinary"
  <2>1. PICK other \in Lit : other = t.other BY <1>2, <1>6, StepTypes
  <2>2. lit # other /\ Safe(other) BY <1>2, <1>3, <1>6, <2>1 DEF Holds
  <2>3. PICK lvl \in Nat : lvl = LevelOf(other) BY <1>4, Values
  <2>4. Assign(lit, lvl)
    <3>1. AssignBinary(lit, other) BY <1>2, <1>3, <1>6, <2>1 DEF DoForce, Doing
    <3> QED BY <2>3, <3>1 DEF AssignBinary, AssignReason
  <2>5. ASSUME NEW l \in Lit, NEW w \in Seen(l), Settled(l)', OfForce(l, w, t)
        PROVE  Attended(l, w)'
    <3>1. w \in Held(l) BY HeldSound
    <3>2. w.binary => {lit, other} = {l, w.blocking} BY <1>3, <2>1, <2>5 DEF OfForce
    <3>3. w.binary BY <1>6, <2>5 DEF OfForce
    <3>4. l # lit BY <1>5, <2>4, <2>5 DEF Settled
    <3>5. l = other /\ w.blocking = lit BY <2>2, <3>2, <3>3, <3>4
    <3>6. lit \in Partners(l, w)' BY <3>5 DEF Partners
    <3>7. LevelOf(other)' = LevelOf(other) BY <1>5, <2>2, <2>4
    <3>8. LevelOf(lit)' <= LevelOf(l)' BY <1>5, <2>3, <2>4, <3>5, <3>7
    <3>9. Outlasts(lit, l)' BY <1>5, <2>4, <3>8 DEF Outlasts
    <3> QED BY <3>6, <3>9 DEF Attended
  <2>6. t.op \notin {"backtrack", "deduce", "failed"} BY <1>6
  <2> QED BY <1>1, <1>2, <2>4, <2>5, <2>6, AssignKept
<1>7. CASE t.op = "forceLarge"
  <2> PICK ref : ref = t.ref OBVIOUS
  <2>1. /\ ref \in References /\ lit \in First(ref)
        /\ \A m \in ToSet(arena[ref].lits) \ {lit} : Safe(m)
    BY <1>2, <1>3, <1>7 DEF Holds
  <2>2. First(ref) \subseteq ToSet(arena[ref].lits) /\ ToSet(arena[ref].lits) \subseteq Lit
        /\ \E m \in First(ref) : m # lit
    <3>1. arena[ref].lits \in Seq(Lit) /\ Len(arena[ref].lits) > 2 /\ IsInjective(arena[ref].lits)
      BY <2>1 DEF SearchInv, ArenaSound
    <3>2. 1 \in DOMAIN arena[ref].lits /\ 2 \in DOMAIN arena[ref].lits BY <3>1
    <3>3. arena[ref].lits[1] # arena[ref].lits[2] BY <3>1, <3>2 DEF IsInjective
    <3>4. \A i \in DOMAIN arena[ref].lits : arena[ref].lits[i] \in Lit BY <3>1
    <3> QED BY <3>2, <3>3, <3>4 DEF First, ToSet
  <2>3. \A m \in ToSet(arena[ref].lits) \ {lit} : \A o \in First(ref) \ {lit} : LevelOf(m) <= LevelOf(o)
    BY <1>2, <1>3, <1>7 DEF PlanInv, ForcesTop
  <2> DEFINE others == ToSet(arena[ref].lits) \ {lit}
  <2>4. PICK lvl \in Nat : lvl = Max(LevelsOf(others)) /\ \A o \in First(ref) \ {lit} : lvl <= LevelOf(o)
    <3>1. \A m \in others : LevelOf(m) \in 0 .. CurrentLevel
      <4>1. \A m \in others : LevelOf(m) <= CurrentLevel /\ LevelOf(m) \in Nat
        BY <1>4, <2>1, <2>2, Values DEF Safe
      <4> QED BY <1>4, <4>1
    <3>2. LevelsOf(others) \in SUBSET (0 .. CurrentLevel) /\ LevelsOf(others) # {}
      BY <2>2, <3>1 DEF LevelsOf
    <3>3. Max(LevelsOf(others)) \in LevelsOf(others) BY <1>4, <3>2, MaxFacts
    <3>4. PICK m \in others : LevelOf(m) = Max(LevelsOf(others)) BY <3>3 DEF LevelsOf
    <3> QED BY <2>3, <3>1, <3>4
  <2>5. Assign(lit, lvl)
    <3>1. AssignReference(lit, ref) BY <1>2, <1>3, <1>7 DEF DoForce, Doing
    <3> QED BY <2>4, <3>1 DEF AssignReference, AssignReason
  <2>6. ASSUME NEW l \in Lit, NEW w \in Seen(l), Settled(l)', OfForce(l, w, t)
        PROVE  Attended(l, w)'
    <3>1. w \in Held(l) BY HeldSound
    <3>2. ~ w.binary /\ w.ref = ref BY <1>7, <2>6 DEF OfForce
    <3>3. l \in First(ref) BY <3>1, <3>2, HeldSound
    <3>4. l # lit BY <1>5, <2>5, <2>6 DEF Settled
    <3>5. lit \in Partners(l, w)'
      <4>1. First(ref)' = First(ref) BY <1>1 DEF First
      <4> QED BY <2>1, <3>2, <3>4, <4>1 DEF Partners
    <3>6. Safe(l) BY <2>1, <2>2, <3>3, <3>4
    <3>7. LevelOf(l)' = LevelOf(l) BY <1>5, <2>5, <3>6
    <3>8. LevelOf(lit)' <= LevelOf(l)' BY <1>5, <2>4, <2>5, <3>3, <3>4, <3>7
    <3>9. Outlasts(lit, l)' BY <1>5, <2>5, <3>8 DEF Outlasts
    <3> QED BY <3>5, <3>9 DEF Attended
  <2>7. t.op \notin {"backtrack", "deduce", "failed"} BY <1>7
  <2> QED BY <1>1, <1>2, <2>5, <2>6, <2>7, AssignKept
<1> QED BY <1>1, <1>2, <1>6, <1>7

\* Outside a loop over a list the watches held are those of the lists.
LEMMA HeldIdle ==
    ASSUME visit = NoVisit, NEW l \in Lit
    PROVE  Held(l) = ToSet(watches[l]) /\ Seen(l) = ToSet(watches[l])
<1>1. RestOf(visit, l) = <<>> /\ visit.delayed[l] = <<>> BY NoVisitTyped
<1> QED BY <1>1, EmptySet DEF Held, Seen

LEMMA HeldIdleNext ==
    ASSUME visit' = NoVisit, NEW l \in Lit
    PROVE  Held(l)' = ToSet(watches'[l]) /\ Seen(l)' = ToSet(watches'[l])
<1>1. RestOf(visit', l) = <<>> /\ visit'.delayed[l] = <<>> BY NoVisitTyped
<1> QED BY <1>1, EmptySet DEF Held, Seen

\* A step of a handler that leaves the trail and the literals of the clauses.
LEMMA HandlerStill ==
    ASSUME SearchInv, SearchInv', PlanInv, todo # <<>>, Done,
           Head(todo).op \notin {"backtrack", "deduce", "failed"},
           UNCHANGED <<trailVars, conflict, visit>>,
           \A r \in References : arena'[r].lits = arena[r].lits
    PROVE  /\ Calm /\ AtRoot' = AtRoot /\ PlanInv' /\ visit = NoVisit /\ visit' = NoVisit
<1>1. visit = NoVisit BY HandlerIdle
<1>2. conflict = NoConflict /\ ~ Analysis /\ ~ Analysis' /\ Targets' = Targets
  BY AnalysisOver, AnalysisTail, TargetsTail DEF SearchInv
<1>3. CurrentLevel' = CurrentLevel BY DEF CurrentLevel, trailVars
<1>4. Retreating => Retreating' BY <1>2, <1>3 DEF Retreating, NoConflict
<1>5. Reach' <= Reach BY <1>4, StillReach
<1>6. Calm BY <1>5, CalmStill DEF trailVars
<1>7. AtRoot' = AtRoot BY StillRoot
<1>8. VisitPlaced' BY <1>1, NoPlaceNext
<1>9. ForcesPaired' BY PairsTail DEF PlanInv
<1>10. ForcesTop'
  <2>1. \A l \in Lit : Safe(l) => LevelOf(l)' = LevelOf(l) BY DEF LevelOf, trailVars
  <2>2. \A i \in DOMAIN todo' : todo'[i].op = "forceLarge" => \E j \in DOMAIN todo : todo[j] = todo'[i]
    BY ForcesTail
  <2> QED BY <2>1, <2>2, ForcesStay DEF PlanInv
<1>11. ConflictOnTop' BY <1>2, NoAnalysis
<1> QED BY <1>1, <1>6, <1>7, <1>8, <1>9, <1>10, <1>11 DEF PlanInv

\* A new binary clause is in hand: the next step forces its literal.
LEMMA WatchBinaryKept ==
    SearchInv /\ SearchInv' /\ WatchedInv /\ PlanInv /\ DoWatchBinary => WatchedInv' /\ PlanInv'
<1> SUFFICES ASSUME SearchInv, SearchInv', WatchedInv, PlanInv, DoWatchBinary
             PROVE  WatchedInv' /\ PlanInv'
  OBVIOUS
<1>1. /\ todo # <<>> /\ Head(todo).op = "newBinary" /\ Done
      /\ UNCHANGED <<trailVars, arena, conflict, visit, formula>>
      /\ watches' = Watched(watches, <<Head(todo).lit, Head(todo).other>>, 0)
  BY DEF DoWatchBinary, Doing, loopVars
<1>2. PICK t \in StepType : t = Head(todo) /\ t = todo[1] /\ Holds(t) /\ 1 \in DOMAIN todo
  <2>1. 1 \in DOMAIN todo /\ Head(todo) = todo[1] /\ todo[1] \in StepType
    BY <1>1, TodoTail DEF SearchInv
  <2> QED BY <2>1 DEF SearchInv, TodoSound
<1>3. PICK a \in Lit : a = t.lit BY <1>1, <1>2, StepTypes
<1>4. PICK b \in Lit : b = t.other BY <1>1, <1>2, StepTypes
<1>5. a # b BY <1>1, <1>2, <1>3, <1>4 DEF Holds
<1>6. /\ Calm /\ AtRoot' = AtRoot /\ PlanInv' /\ visit = NoVisit /\ visit' = NoVisit
  <2>1. Head(todo).op \notin {"backtrack", "deduce", "failed"} BY <1>1
  <2> QED BY <1>1, <2>1, HandlerStill
<1>7. /\ watches'[a] = Append(watches[a], BinaryWatch(b))
      /\ watches'[b] = Append(watches[b], BinaryWatch(a))
      /\ \A l \in Lit : l \notin {a, b} => watches'[l] = watches[l]
      /\ \A l \in Lit : watches[l] \in Seq(WatchType)
  <2>1. watches \in Lists BY DEF SearchInv, WatchListsOK
  <2> PICK lits : lits = <<a, b>> OBVIOUS
  <2>2. lits \in Seq(Lit) /\ Len(lits) >= 2 /\ lits[1] = a /\ lits[2] = b OBVIOUS
  <2> PICK ref \in Nat : ref = 0 OBVIOUS
  <2>3. watches' = Watched(watches, lits, ref) BY <1>1, <1>2, <1>3, <1>4
  <2>4. /\ watches'[a] = Append(watches[a], NewWatch(b, ref))
        /\ watches'[b] = Append(watches[b], NewWatch(a, ref))
        /\ \A l \in Lit : l \notin {a, b} => watches'[l] = watches[l]
    BY <1>5, <2>1, <2>2, <2>3, WatchedFacts, ZenonT(60)
  <2> QED BY <2>1, <2>4 DEF NewWatch, Lists
<1>8. /\ ToSet(watches'[a]) = ToSet(watches[a]) \cup {BinaryWatch(b)}
      /\ ToSet(watches'[b]) = ToSet(watches[b]) \cup {BinaryWatch(a)}
  BY <1>7, AppendSet
<1>9. /\ \A l \in Lit : /\ Held(l) = ToSet(watches[l]) /\ Seen(l) = ToSet(watches[l])
                        /\ Held(l)' = ToSet(watches'[l]) /\ Seen(l)' = ToSet(watches'[l])
  BY <1>6, HeldIdle, HeldIdleNext
<1>10. \A l \in Lit : /\ Held(l) \subseteq Held(l)'
                      /\ \A w \in Held(l)' : \/ w \in Held(l)
                                             \/ l = a /\ w = BinaryWatch(b)
                                             \/ l = b /\ w = BinaryWatch(a)
  BY <1>7, <1>8, <1>9
<1>11. /\ BinaryWatch(a).binary /\ BinaryWatch(a).blocking = a
       /\ BinaryWatch(b).binary /\ BinaryWatch(b).blocking = b
       /\ BinaryWatch(b) \in Held(a)' /\ BinaryWatch(a) \in Held(b)'
  BY <1>8, <1>9 DEF BinaryWatch
<1>12. /\ LiveReferences' = LiveReferences /\ \A r : First(r)' = First(r)
       /\ \A w : IsLive(w)' <=> IsLive(w)
       /\ \A l, w : Partners(l, w)' = Partners(l, w)
  BY <1>1 DEF LiveReferences, References, First, IsLive, Partners
<1>13. FirstsHeld' BY <1>1, <1>7, <1>10, <1>12 DEF WatchedInv, FirstsHeld, LiveReferences, References, First, ArenaSound, SearchInv
<1>14. BothHeld'
  <2> SUFFICES ASSUME NEW l \in Lit, NEW w \in Held(l)', w.binary
               PROVE  \E v \in Held(w.blocking)' : v.binary /\ v.blocking = l
    BY DEF BothHeld
  <2>1. CASE w \in Held(l)
    <3>1. w.blocking \in Lit BY <2>1, HeldSound
    <3> QED BY <1>10, <2>1, <3>1 DEF WatchedInv, BothHeld
  <2> QED BY <1>10, <1>11, <2>1
<1>15. BlockingInside'
  <2> SUFFICES ASSUME NEW l \in Lit, NEW w \in Held(l)', ~ w.binary, ~ arena[w.ref].garbage
               PROVE  w.blocking \in ToSet(arena[w.ref].lits)
    BY <1>1 DEF BlockingInside
  <2>1. w \in Held(l) BY <1>10, <1>11
  <2> QED BY <2>1 DEF WatchedInv, BlockingInside
<1>16. Attention'
  <2>1. /\ 1 \in DOMAIN todo' /\ todo'[1] = ForceBinary(a, b)
    <3>1. /\ 2 \in DOMAIN todo /\ todo[2] = ForceBinary(a, b)
      <4>1. 1 + 1 \in DOMAIN todo /\ todo[1 + 1] = ForceBinary(todo[1].lit, todo[1].other)
        BY <1>1, <1>2 DEF PlanInv, ForcesPaired
      <4> QED BY <1>2, <1>3, <1>4, <4>1
    <3>2. 2 - 1 \in DOMAIN todo' /\ todo'[2 - 1] = todo[2] BY <1>1, <3>1, TodoTail DEF SearchInv
    <3> QED BY <3>1, <3>2
  <2>2. /\ OfForce(a, BinaryWatch(b), todo'[1]) /\ OfForce(b, BinaryWatch(a), todo'[1])
    BY <1>11, <2>1 DEF OfForce, ForceBinary
  <2>3. InHand(a, BinaryWatch(b))' /\ InHand(b, BinaryWatch(a))' BY <2>1, <2>2 DEF InHand
  <2>4. \A i \in DOMAIN todo : IsForce(todo[i]) => \E j \in DOMAIN todo' : todo'[j] = todo[i]
    <3>1. ~ IsForce(Head(todo)) BY <1>1 DEF IsForce
    <3> QED BY <1>1, <3>1, ForcesTail
  <2>5. \A l, w : InHand(l, w) => InHand(l, w)' BY <1>1, <2>4, InHandStays
  <2>6. \A l \in Lit : \A w \in Seen(l)' : Settled(l)' /\ IsLive(w)' =>
          \/ Attended(l, w)'
          \/ /\ w \in Seen(l) /\ IsLive(w)
             /\ InHand(l, w) => Attended(l, w)'
             /\ \A s \in Partners(l, w) : values[s] = 1 => s \in Partners(l, w)'
    <3> TAKE l \in Lit
    <3> TAKE w \in Seen(l)'
    <3> HAVE Settled(l)' /\ IsLive(w)'
    <3>1. CASE w \in Held(l) BY <1>9, <1>12, <2>5, <3>1 DEF Attended
    <3>2. CASE w \notin Held(l) BY <1>9, <1>10, <2>3, <3>2 DEF Attended
    <3> QED BY <3>1, <3>2
  <2> QED BY <1>6, <2>6, AttentionKept DEF WatchedInv
<1>17. Kept'
  <2>1. \A l \in Lit : \A w \in Held(l) : w.binary => w \in Held(l)' BY <1>10
  <2>2. \A r \in LiveReferences : ~ arena[r].redundant =>
          /\ r \in LiveReferences' /\ ~ arena'[r].redundant
          /\ ToSet(arena'[r].lits) \subseteq ToSet(arena[r].lits)
    BY <1>1, <1>12
  <2>3. AtRoot \subseteq AtRoot' BY <1>6
  <2> QED BY <1>1, <2>1, <2>2, <2>3, KeptStays DEF WatchedInv
<1> QED BY <1>6, <1>13, <1>14, <1>15, <1>16, <1>17 DEF WatchedInv

\* Subsumed clauses become garbage; they are redundant.
LEMMA SubsumeKept ==
    SearchInv /\ SearchInv' /\ WatchedInv /\ PlanInv /\ DoSubsume => WatchedInv' /\ PlanInv'
<1> SUFFICES ASSUME SearchInv, SearchInv', WatchedInv, PlanInv, DoSubsume
             PROVE  WatchedInv' /\ PlanInv'
  OBVIOUS
<1>1. /\ todo # <<>> /\ Head(todo).op = "subsume" /\ Done
      /\ UNCHANGED <<trailVars, watches, conflict, visit, formula>>
  BY DEF DoSubsume, Doing
<1>2. /\ References' = References
      /\ \A r \in References : /\ arena'[r].lits = arena[r].lits
                               /\ arena'[r].redundant = arena[r].redundant
                               /\ arena[r].garbage => arena'[r].garbage
                               /\ ~ arena[r].redundant => arena'[r].garbage = arena[r].garbage
  <2>1. PICK hit \in [References -> BOOLEAN] :
          /\ arena' = [r \in DOMAIN arena |-> [arena[r] EXCEPT !.garbage = @ \/ hit[r]]]
          /\ \A r \in References : hit[r] => arena[r].redundant
    <3> DEFINE h == [r \in References |-> r \in Hits(Head(todo).clause)]
    <3>1. arena' = [r \in DOMAIN arena |-> [arena[r] EXCEPT !.garbage = @ \/ h[r]]]
      BY DEF DoSubsume, References
    <3>2. h \in [References -> BOOLEAN] OBVIOUS
    <3>3. \A r \in References : h[r] => arena[r].redundant BY DEF Hits
    <3> HIDE DEF h
    <3> QED BY <3>1, <3>2, <3>3
  <2>2. arena \in Seq(ClauseType) BY DEF SearchInv, ArenaSound
  <2>3. \A r \in References : arena[r] \in ClauseType BY <2>2 DEF References
  <2>4. \A r \in References : arena'[r] = [arena[r] EXCEPT !.garbage = @ \/ hit[r]]
    BY <2>1 DEF References
  <2>5. \A r \in References : /\ arena'[r].lits = arena[r].lits
                              /\ arena'[r].redundant = arena[r].redundant
                              /\ arena'[r].garbage = (arena[r].garbage \/ hit[r])
    BY <2>3, <2>4 DEF ClauseType
  <2>6. References' = References BY <2>1 DEF References
  <2> QED BY <2>1, <2>3, <2>5, <2>6 DEF ClauseType
<1>3. /\ Calm /\ AtRoot' = AtRoot /\ PlanInv' /\ visit = NoVisit /\ visit' = NoVisit
  <2>1. Head(todo).op \notin {"backtrack", "deduce", "failed"} BY <1>1
  <2> QED BY <1>1, <1>2, <2>1, HandlerStill
<1>4. \A l \in Lit : Held(l)' = Held(l) /\ Seen(l)' = Seen(l) BY <1>1, <1>3, HeldIdle, HeldIdleNext
<1>5. \A r \in References : First(r)' = First(r) BY <1>2 DEF First
<1>6. LiveReferences' \subseteq LiveReferences /\ LiveReferences \subseteq References
  BY <1>2 DEF LiveReferences
<1>7. \A l \in Lit : \A w \in Held(l) :
        IsLive(w)' => IsLive(w) /\ Partners(l, w)' = Partners(l, w)
  <2> TAKE l \in Lit
  <2> TAKE w \in Held(l)
  <2>1. ~ w.binary => w.ref \in References BY HeldSound
  <2> QED BY <1>2, <1>5, <2>1 DEF IsLive, Partners
<1>8. FirstsHeld'
  <2> SUFFICES ASSUME NEW r \in LiveReferences', NEW l \in First(r)'
               PROVE  \E w \in Held(l)' : Watches(w, r)
    BY DEF FirstsHeld
  <2>1. r \in LiveReferences /\ r \in References /\ l \in First(r) BY <1>5, <1>6
  <2>2. l \in Lit
    <3>1. arena[r].lits \in Seq(Lit) /\ Len(arena[r].lits) > 2 BY <2>1 DEF SearchInv, ArenaSound
    <3> QED BY <2>1, <3>1 DEF First
  <2> QED BY <1>4, <2>1, <2>2 DEF WatchedInv, FirstsHeld
<1>9. BothHeld'
  <2> SUFFICES ASSUME NEW l \in Lit, NEW w \in Held(l), w.binary
               PROVE  \E v \in Held(w.blocking)' : v.binary /\ v.blocking = l
    BY <1>4 DEF BothHeld
  <2>1. w.blocking \in Lit BY HeldSound
  <2> QED BY <1>4, <2>1 DEF WatchedInv, BothHeld
<1>10. BlockingInside'
  <2> SUFFICES ASSUME NEW l \in Lit, NEW w \in Held(l), ~ w.binary, ~ arena'[w.ref].garbage
               PROVE  w.blocking \in ToSet(arena'[w.ref].lits)
    BY <1>4 DEF BlockingInside
  <2>1. w.ref \in References BY HeldSound
  <2> QED BY <1>2, <2>1 DEF WatchedInv, BlockingInside
<1>11. Attention'
  <2>1. \A i \in DOMAIN todo : IsForce(todo[i]) => \E j \in DOMAIN todo' : todo'[j] = todo[i]
    <3>1. ~ IsForce(Head(todo)) BY <1>1 DEF IsForce
    <3> QED BY <1>1, <3>1, ForcesTail
  <2>2. \A l, w : InHand(l, w) => InHand(l, w)' BY <1>1, <2>1, InHandStays
  <2>3. \A l \in Lit : \A w \in Seen(l)' : Settled(l)' /\ IsLive(w)' =>
             /\ w \in Seen(l) /\ IsLive(w)
             /\ InHand(l, w) => Attended(l, w)'
             /\ \A s \in Partners(l, w) : values[s] = 1 => s \in Partners(l, w)'
    <3> TAKE l \in Lit
    <3> TAKE w \in Seen(l)'
    <3> HAVE Settled(l)' /\ IsLive(w)'
    <3>1. w \in Seen(l) /\ w \in Held(l) BY <1>4, HeldSound
    <3> QED BY <1>7, <2>2, <3>1 DEF Attended
  <2> QED BY <1>3, <2>3, AttentionKept DEF WatchedInv
<1>12. Kept'
  <2>1. \A l \in Lit : \A w \in Held(l) : w.binary => w \in Held(l)' BY <1>4
  <2>2. \A r \in LiveReferences : ~ arena[r].redundant =>
          /\ r \in LiveReferences' /\ ~ arena'[r].redundant
          /\ ToSet(arena'[r].lits) \subseteq ToSet(arena[r].lits)
    BY <1>2 DEF LiveReferences
  <2> QED BY <1>1, <1>3, <2>1, <2>2, KeptStays DEF WatchedInv
<1> QED BY <1>3, <1>8, <1>9, <1>10, <1>11, <1>12 DEF WatchedInv

\* Whatever is true outlasts the literal whose watches are visited.
AllOutlast == visit.lit # 0 => \A t \in Lit : values[t] = 1 => Outlasts(t, -visit.lit)
LEMMA VisitOutlasts == SearchInv /\ VisitPlaced => AllOutlast
<1> SUFFICES ASSUME SearchInv, VisitPlaced, visit.lit # 0, NEW t \in Lit, values[t] = 1
             PROVE  Outlasts(t, -visit.lit)
  BY DEF AllOutlast
<1>1. /\ TrailInv /\ ~ undo.active /\ visit.lit \in Lit /\ -visit.lit \in Lit
      /\ LevelOf(-visit.lit) \in Nat /\ -(-visit.lit) = visit.lit
  BY VisitFacts, Values
<1>2. /\ propagate > 0 /\ trail[propagate] = visit.lit /\ propagate \in Nat
      /\ \A k \in 1 .. CurrentLevel : frames[k].trail < propagate
      /\ Len(trail) \in Nat /\ propagate <= Len(trail) /\ CurrentLevel \in Nat
      /\ \A k \in 1 .. CurrentLevel : frames[k].trail \in Nat
  BY ReachFacts DEF VisitPlaced
<1>3. propagate \in Live BY <1>1, <1>2 DEF Live
<1>4. LevelOf(t) \in Nat /\ LevelOf(t) <= CurrentLevel BY <1>1, Values, Assigned
<1>5. CASE LevelOf(t) = 0 BY <1>1, <1>4, <1>5 DEF Outlasts
<1>6. CASE LevelOf(t) # 0
  <2>1. LevelOf(t) \in 1 .. CurrentLevel BY <1>2, <1>4, <1>6
  <2>2. propagate > frames[LevelOf(t)].trail BY <1>2, <2>1
  <2>3. trail[propagate] = -(-visit.lit) BY <1>1, <1>2
  <2> QED BY <1>3, <1>4, <2>2, <2>3 DEF Outlasts
<1> QED BY <1>5, <1>6

LEMMA VisitOutlastsNext == SearchInv' /\ VisitPlaced' => AllOutlast'
BY VisitOutlasts, PTL

\* The watches held in the next state, as a set.
HeldAll == \A l \in Lit : Held(l) = ToSet(HandsOf(watches, visit)[l]) /\ Seen(l) \subseteq Held(l)
LEMMA HeldHands == SearchInv => HeldAll
BY HeldSound DEF HeldAll
LEMMA HeldHandsNext == SearchInv' => HeldAll'
BY HeldHands, PTL
LEMMA HeldNext ==
    ASSUME SearchInv', NEW l \in Lit
    PROVE  Held(l)' = ToSet(HandsOf(watches', visit')[l]) /\ Seen(l)' \subseteq Held(l)'
BY HeldHandsNext DEF HeldAll

FirstTyped == \A r \in References : First(r) \subseteq Lit
LEMMA FirstLits == SearchInv => FirstTyped
<1> SUFFICES ASSUME SearchInv, NEW r \in References PROVE First(r) \subseteq Lit
  BY DEF FirstTyped
<1>1. arena[r].lits \in Seq(Lit) /\ Len(arena[r].lits) > 2 BY DEF SearchInv, ArenaSound
<1> QED BY <1>1 DEF First

\* The same watches are held.
LEMMA HeldSame ==
    ASSUME SearchInv, WatchedInv, UNCHANGED <<arena, formula>>, AtRoot \subseteq AtRoot',
           \A l \in Lit : Held(l)' = Held(l)
    PROVE  FirstsHeld' /\ BothHeld' /\ BlockingInside' /\ Kept'
<1>1. /\ LiveReferences' = LiveReferences /\ \A r : First(r)' = First(r)
  BY DEF LiveReferences, References, First
<1>2. FirstsHeld'
  <2>1. \A r \in LiveReferences : First(r) \subseteq Lit BY FirstLits DEF FirstTyped, LiveReferences
  <2> QED BY <1>1, <2>1 DEF WatchedInv, FirstsHeld
<1>3. BothHeld'
  <2> SUFFICES ASSUME NEW l \in Lit, NEW w \in Held(l), w.binary
               PROVE  \E v \in Held(w.blocking)' : v.binary /\ v.blocking = l
    BY DEF BothHeld
  <2>1. w.blocking \in Lit BY HeldSound
  <2> QED BY <2>1 DEF WatchedInv, BothHeld
<1>4. BlockingInside' BY DEF WatchedInv, BlockingInside
<1>5. Kept'
  <2>1. \A l \in Lit : \A w \in Held(l) : w.binary => w \in Held(l)' OBVIOUS
  <2>2. \A r \in LiveReferences : ~ arena[r].redundant =>
          /\ r \in LiveReferences' /\ ~ arena'[r].redundant
          /\ ToSet(arena'[r].lits) \subseteq ToSet(arena[r].lits)
    BY <1>1
  <2> QED BY <2>1, <2>2, KeptStays DEF WatchedInv
<1> QED BY <1>2, <1>3, <1>4, <1>5

\* While propagation goes on nothing is in hand.
LEMMA NothingInHand ==
    ASSUME SearchInv, Propagating
    PROVE  /\ todo = <<>> /\ conflict = NoConflict /\ ~ undo.active /\ ~ Retreating
           /\ Reach = propagate /\ Live = 1 .. Len(trail)
           /\ \A l, w : ~ InHand(l, w)
<1>1. todo = <<>> /\ conflict = NoConflict /\ ~ undo.active /\ Targets = {} BY PropagatingIdle
<1>2. ~ Retreating BY <1>1 DEF Retreating
<1> QED BY <1>1, <1>2 DEF Reach, Live, InHand, OfConflict

LEMMA VisitStartKept ==
    SearchInv /\ SearchInv' /\ WatchedInv /\ PlanInv /\ Propagate /\ VisitStart
        => WatchedInv' /\ PlanInv'
<1> SUFFICES ASSUME SearchInv, SearchInv', WatchedInv, PlanInv, Propagate, VisitStart
             PROVE  WatchedInv' /\ PlanInv'
  OBVIOUS
<1>1. /\ Propagating /\ visit = NoVisit /\ Advance
      /\ visit' = [lit |-> trail[propagate + 1], rest |-> watches[-trail[propagate + 1]],
                   delayed |-> NoDelayed]
      /\ watches' = [watches EXCEPT ![-trail[propagate + 1]] = <<>>]
      /\ UNCHANGED <<arena, conflict, formula, todo>>
  BY DEF Propagate, VisitStart, analysisVars, loopVars
<1>2. /\ todo = <<>> /\ conflict = NoConflict /\ ~ undo.active /\ Reach = propagate
      /\ Live = 1 .. Len(trail) /\ \A l, w : ~ InHand(l, w)
  BY <1>1, NothingInHand
<1>3. /\ UNCHANGED <<values, level, trail, frames, undo>> /\ propagate' = propagate + 1
      /\ propagate < Len(trail)
  BY <1>1 DEF Advance
<1>4. /\ propagate \in Nat /\ Len(trail) \in Nat /\ CurrentLevel \in Nat
      /\ \A k \in 1 .. CurrentLevel : frames[k].trail \in Nat /\ frames[k].trail <= propagate
  BY ReachFacts
<1> PICK p \in Nat : p = propagate BY <1>4
<1>5. PICK lit \in Lit : lit = trail[p + 1] /\ -lit \in Lit /\ -(-lit) = lit
  <2>1. p + 1 \in 1 .. Len(trail) /\ trail \in Seq(Lit)
    BY <1>3, <1>4 DEF SearchInv, TrailInv, TrailTypeOK
  <2>2. trail[p + 1] \in Lit BY <2>1
  <2> QED BY <2>2, LitFacts
<1> PICK v : v = [lit |-> lit, rest |-> watches[-lit], delayed |-> NoDelayed] OBVIOUS
<1>6. visit' = v /\ watches' = [watches EXCEPT ![-lit] = <<>>] BY <1>1, <1>5
<1>7. watches \in Lists BY DEF SearchInv, WatchListsOK
<1>8. HandsOf(watches', visit') = watches
  BY <1>5, <1>6, <1>7, HandsStart
<1>9. \A l \in Lit : Held(l) = ToSet(watches[l]) /\ Seen(l) = ToSet(watches[l]) BY <1>1, HeldIdle
<1>10. \A l \in Lit : Held(l)' = Held(l) BY <1>8, <1>9, HeldNext
<1>11. AtRoot' = AtRoot BY <1>3 DEF AtRoot, LevelOf
<1>12. FirstsHeld' /\ BothHeld' /\ BlockingInside' /\ Kept' BY <1>1, <1>10, <1>11, HeldSame
<1>13. Targets' = {} /\ conflict' = NoConflict /\ ~ Retreating' /\ Reach' = p + 1
       /\ Live' = 1 .. Len(trail)
  <2>1. Targets = {} BY <1>2, LoopIdle
  <2>2. Targets' = {} BY <1>1, <2>1 DEF Targets
  <2>3. conflict' = NoConflict BY <1>1, <1>2
  <2>4. ~ Retreating' BY <2>2, <2>3 DEF Retreating, NoConflict
  <2> QED BY <1>2, <1>3, <2>2, <2>3, <2>4 DEF Reach, Live
<1>14. \A l : LevelOf(l)' = LevelOf(l) /\ CurrentLevel' = CurrentLevel
  BY <1>3 DEF LevelOf, CurrentLevel
<1>15. Attention'
  <2> SUFFICES ASSUME NEW l \in Lit, Settled(l)', NEW w \in Seen(l)', IsLive(w)'
               PROVE  Attended(l, w)'
    BY DEF Attention
  <2>1. visit'.delayed[l] = <<>> BY <1>6 DEF NoDelayed
  <2>2. l # -lit
    <3> SUFFICES ASSUME l = -lit PROVE FALSE
      OBVIOUS
    <3>1. watches'[l] = <<>> BY <1>5, <1>6, <1>7 DEF Lists
    <3> QED BY <2>1, <3>1, EmptySet DEF Seen
  <2>3. watches'[l] = watches[l] BY <1>5, <1>6, <1>7, <2>2 DEF Lists
  <2>4. w \in Seen(l) BY <1>9, <2>1, <2>3, EmptySet DEF Seen
  <2>5. values[l] = -1 /\ \A i \in 1 .. Len(trail) : trail[i] = -l => i <= p + 1
    BY <1>3, <1>13 DEF Settled
  <2>6. trail[p + 1] # -l BY <1>5, <2>2, LitFacts
  <2>7. Settled(l)
    <3>1. \A i \in 1 .. Len(trail) : trail[i] = -l => i <= p
      <4> SUFFICES ASSUME NEW i \in 1 .. Len(trail), trail[i] = -l PROVE i <= p
        OBVIOUS
      <4>1. i <= p + 1 /\ i # p + 1 /\ i \in Nat BY <1>4, <2>5, <2>6
      <4> QED BY <4>1
    <3> QED BY <1>2, <2>5, <3>1 DEF Settled
  <2>8. IsLive(w) BY <1>1 DEF IsLive
  <2>9. PICK t \in Partners(l, w) : Outlasts(t, l)
    BY <1>2, <2>4, <2>7, <2>8 DEF WatchedInv, Attention, Attended
  <2>10. t \in Partners(l, w)' BY <1>1 DEF Partners, First
  <2>11. Outlasts(t, l)' BY <1>2, <1>3, <1>13, <1>14, <2>9 DEF Outlasts
  <2> QED BY <2>10, <2>11 DEF Attended
<1>16. VisitPlaced'
  <2>1. visit'.lit = lit BY <1>6
  <2>2. \A k \in 1 .. CurrentLevel : frames[k].trail < p + 1 BY <1>4
  <2>3. p + 1 > 0 OBVIOUS
  <2> QED BY <1>3, <1>5, <1>14, <2>1, <2>2, <2>3 DEF VisitPlaced
<1> QED BY <1>1, <1>2, <1>12, <1>15, <1>16, IdlePlan DEF WatchedInv, PlanInv

\* The loop over a list is left: at its end, or with a conflict.
LEMMA LeaveKept ==
    ASSUME SearchInv, SearchInv', WatchedInv, PlanInv, Propagate, Leave, visit.lit # 0,
           UNCHANGED <<trailVars, arena>>,
           visit.rest = <<>> \/ conflict' # NoConflict
    PROVE  WatchedInv' /\ PlanInv'
<1>1. Propagating /\ UNCHANGED <<formula, todo>> BY DEF Propagate, loopVars
<1>2. /\ todo = <<>> /\ conflict = NoConflict /\ ~ undo.active /\ ~ Retreating /\ Reach = propagate
      /\ Live = 1 .. Len(trail) /\ \A l, w : ~ InHand(l, w)
  BY <1>1, NothingInHand
<1>3. watches \in Lists /\ visit \in VisitType BY DEF SearchInv, WatchListsOK
<1>4. HandsOf(watches, visit) \in Lists BY <1>3, HandsTyped
<1>5. watches' = HandsOf(watches, visit) /\ visit' = NoVisit BY DEF Leave, HandsOf, RestOf
<1>6. \A l \in Lit : /\ Held(l)' = ToSet(watches'[l]) /\ Seen(l)' = ToSet(watches'[l])
                     /\ Held(l) = ToSet(watches'[l])
  BY <1>5, HeldIdleNext, HeldSound
<1>7. AtRoot' = AtRoot BY StillRoot
<1>8. FirstsHeld' /\ BothHeld' /\ BlockingInside' /\ Kept' BY <1>1, <1>6, <1>7, HeldSame
<1>9. Reach' <= Reach BY <1>2, StillReach
<1>10. Calm BY <1>9, CalmStill DEF trailVars
<1>11. /\ values' = values /\ trail' = trail /\ frames' = frames /\ undo' = undo /\ propagate' = propagate
  BY DEF trailVars
<1>12. Attention'
  <2>1. ASSUME NEW l \in Lit, NEW w \in Seen(l)', Settled(l)', IsLive(w)'
        PROVE  w \in Seen(l)
    <3>1. w \in Held(l) BY <1>6, <2>1
    <3>2. CASE visit.rest = <<>>
      <4>1. ToSet(RestOf(visit, l)) = {} BY <3>2, EmptySet DEF RestOf
      <4> QED BY <3>1, <4>1 DEF Held
    <3>3. CASE l # -visit.lit
      <4>1. ToSet(RestOf(visit, l)) = {} BY <3>3, EmptySet DEF RestOf
      <4> QED BY <3>1, <4>1 DEF Held
    <3>4. CASE l = -visit.lit /\ conflict' # NoConflict
      <4>1. visit.lit \in Lit BY VisitFacts
      <4>2. -l = visit.lit BY <3>4, <4>1, LitFacts
      <4>3. /\ propagate > 0 /\ trail[propagate] = visit.lit /\ propagate \in Nat
            /\ \A k \in 1 .. CurrentLevel : frames[k].trail < propagate
            /\ Len(trail) \in Nat /\ propagate <= Len(trail) /\ CurrentLevel \in Nat
            /\ \A k \in 1 .. CurrentLevel : frames[k].trail \in Nat
        BY ReachFacts DEF PlanInv, VisitPlaced
      <4>4. Bottom < propagate
        <5>1. CASE CurrentLevel = 0 BY <4>3, <5>1 DEF Bottom
        <5>2. CASE CurrentLevel # 0
          <6>1. CurrentLevel \in 1 .. CurrentLevel BY <4>3, <5>2
          <6> QED BY <4>3, <5>2, <6>1 DEF Bottom
        <5> QED BY <5>1, <5>2
      <4>5. Reach' = Bottom
        <5>1. Retreating' BY <3>4 DEF Retreating, NoConflict
        <5>2. Bottom' = Bottom BY <1>11 DEF Bottom, CurrentLevel
        <5> QED BY <1>2, <1>11, <5>1, <5>2 DEF Reach
      <4>6. propagate \in Live' BY <1>2, <1>11, <4>3 DEF Live
      <4>7. trail'[propagate] = -l BY <1>11, <4>2, <4>3
      <4>8. propagate <= Reach' BY <2>1, <4>6, <4>7 DEF Settled
      <4>9. Bottom \in Nat BY ReachFacts
      <4> QED BY <4>3, <4>4, <4>5, <4>8, <4>9
    <3> QED BY <3>2, <3>3, <3>4
  <2>2. \A l \in Lit : \A w \in Seen(l)' : Settled(l)' /\ IsLive(w)' =>
             /\ w \in Seen(l) /\ IsLive(w)
             /\ InHand(l, w) => Attended(l, w)'
             /\ \A s \in Partners(l, w) : values[s] = 1 => s \in Partners(l, w)'
    BY <1>2, <2>1 DEF IsLive, Partners, First
  <2> QED BY <1>10, <2>2, AttentionKept DEF WatchedInv
<1>13. VisitPlaced' BY <1>5, NoPlaceNext
<1> QED BY <1>1, <1>2, <1>8, <1>12, <1>13, IdlePlan DEF WatchedInv, PlanInv

\* The watch under the pointer is kept, and a partner of it is true then.
KeepsOn(w) ==
    /\ w \in WatchType /\ Alike(w, Watch) /\ Keep(w) /\ NextWatch
    /\ w.binary \/ arena[w.ref].garbage \/ w.blocking \in ToSet(arena[w.ref].lits)
    /\ \E t \in Lit : t \in Partners(-visit.lit, w) /\ values'[t] = 1

\* The lists of the visited literal and of the others, as sets.
LEMMA KeptHands ==
    ASSUME SearchInv, Visiting, NEW w, w \in WatchType, Keep(w), NextWatch
    PROVE  /\ visit'.lit = visit.lit /\ -visit.lit \in Lit
           /\ Watch \in Held(-visit.lit) /\ Watch \in WatchType
           /\ \A l \in Lit : l # -visit.lit => Held(l)' = Held(l) /\ Seen(l)' = Seen(l)
           /\ Seen(-visit.lit)' = Seen(-visit.lit) \cup {w}
           /\ Held(-visit.lit) \subseteq Held(-visit.lit)' \cup {Watch}
           /\ Held(-visit.lit)' \subseteq Held(-visit.lit) \cup {w}
           /\ w \in Held(-visit.lit)'
<1>1. /\ visit.lit \in Lit /\ -visit.lit \in Lit /\ visit \in VisitType /\ watches \in Lists
      /\ visit.rest # <<>> /\ visit.rest \in Seq(WatchType) /\ Watch \in WatchType
      /\ Watch = Head(visit.rest)
  BY VisitFacts, WatchFacts DEF Visiting, Watch
<1> PICK k \in Lit : k = -visit.lit BY <1>1
<1>2. watches' = [watches EXCEPT ![k] = Append(@, w)] /\ visit' = [visit EXCEPT !.rest = Tail(@)]
  BY DEF Keep, NextWatch
<1>3. /\ visit'.lit = visit.lit /\ visit'.rest = Tail(visit.rest) /\ visit'.delayed = visit.delayed
  BY <1>1, <1>2 DEF VisitType
<1>4. /\ watches'[k] = Append(watches[k], w) /\ watches[k] \in Seq(WatchType)
      /\ \A l \in Lit : l # k => watches'[l] = watches[l]
  BY <1>1, <1>2 DEF Lists
<1>5. ToSet(watches'[k]) = ToSet(watches[k]) \cup {w} BY <1>4, AppendSet
<1>6. ToSet(visit.rest) = {Watch} \cup ToSet(visit'.rest) BY <1>1, <1>3, TailSet
<1>7. /\ RestOf(visit, k) = visit.rest /\ RestOf(visit', k) = visit'.rest
      /\ \A l : l # k => RestOf(visit, l) = <<>> /\ RestOf(visit', l) = <<>>
  BY <1>3 DEF RestOf
<1>8. \A l \in Lit : l # k => Held(l)' = Held(l) /\ Seen(l)' = Seen(l)
  BY <1>3, <1>4, <1>7 DEF Held, Seen
<1>9. Seen(k)' = Seen(k) \cup {w} BY <1>3, <1>5 DEF Seen
<1>10. Held(k)' = Seen(k) \cup {w} \cup ToSet(visit'.rest) BY <1>7, <1>9 DEF Held
<1>11. Held(k) = Seen(k) \cup {Watch} \cup ToSet(visit'.rest) BY <1>6, <1>7 DEF Held
<1> QED BY <1>1, <1>3, <1>8, <1>9, <1>10, <1>11

LEMMA SameWatch ==
    ASSUME NEW v \in WatchType, NEW w \in WatchType,
           v.binary = w.binary, v.ref = w.ref, v.blocking = w.blocking
    PROVE  v = w
<1>1. v = [binary |-> v.binary, blocking |-> v.blocking, ref |-> v.ref] BY DEF WatchType
<1>2. w = [binary |-> w.binary, blocking |-> w.blocking, ref |-> w.ref] BY DEF WatchType
<1> QED BY <1>1, <1>2

LEMMA KeepKept ==
    ASSUME SearchInv, SearchInv', WatchedInv, PlanInv, Propagate, Visiting,
           UNCHANGED <<arena, conflict>>, Calm, AtRoot \subseteq AtRoot', VisitPlaced',
           NEW w, KeepsOn(w)
    PROVE  WatchedInv' /\ PlanInv'
<1>0. Propagating /\ UNCHANGED <<formula, todo>> BY DEF Propagate, loopVars
<1>1. /\ todo = <<>> /\ conflict = NoConflict /\ \A l, u : ~ InHand(l, u)
  BY <1>0, NothingInHand
<1>2. /\ w \in WatchType /\ Alike(w, Watch) /\ Keep(w) /\ NextWatch
      /\ w.binary \/ arena[w.ref].garbage \/ w.blocking \in ToSet(arena[w.ref].lits)
      /\ \E t \in Lit : t \in Partners(-visit.lit, w) /\ values'[t] = 1
  BY DEF KeepsOn
<1> PICK k : k = -visit.lit OBVIOUS
<1>3. /\ visit'.lit = visit.lit /\ k \in Lit
      /\ Watch \in Held(k) /\ Watch \in WatchType
      /\ \A l \in Lit : l # k => Held(l)' = Held(l) /\ Seen(l)' = Seen(l)
      /\ Seen(k)' = Seen(k) \cup {w}
      /\ Held(k) \subseteq Held(k)' \cup {Watch}
      /\ Held(k)' \subseteq Held(k) \cup {w}
      /\ w \in Held(k)'
  BY <1>2, KeptHands
<1>4. \A l \in Lit : \A u \in Held(l) : \E v \in Held(l)' : Alike(v, u)
  <2> TAKE l \in Lit
  <2> TAKE u \in Held(l)
  <2>1. CASE u \in Held(l)' BY <2>1 DEF Alike
  <2>2. CASE u \notin Held(l)'
    <3>1. l = k /\ u = Watch BY <1>3, <2>2
    <3> QED BY <1>2, <1>3, <3>1
  <2> QED BY <2>1, <2>2
<1>5. \A l \in Lit : \A u \in Held(l)' : u \in Held(l) \/ (l = k /\ u = w) BY <1>3
<1>6. /\ LiveReferences' = LiveReferences /\ \A r : First(r)' = First(r)
      /\ \A u : IsLive(u)' <=> IsLive(u)
      /\ \A l, u : Partners(l, u)' = Partners(l, u)
  BY DEF LiveReferences, References, First, IsLive, Partners
<1>7. FirstsHeld'
  <2> SUFFICES ASSUME NEW r \in LiveReferences, NEW l \in First(r)
               PROVE  \E v \in Held(l)' : Watches(v, r)
    BY <1>6 DEF FirstsHeld
  <2>1. l \in Lit BY FirstLits DEF FirstTyped, LiveReferences
  <2>2. PICK u \in Held(l) : Watches(u, r) BY DEF WatchedInv, FirstsHeld
  <2>3. PICK v \in Held(l)' : Alike(v, u) BY <1>4, <2>1
  <2>4. Watches(v, r) BY <2>2, <2>3 DEF Alike, Watches
  <2> QED BY <2>4
<1>8. BothHeld'
  <2> SUFFICES ASSUME NEW l \in Lit, NEW u \in Held(l)', u.binary
               PROVE  \E v \in Held(u.blocking)' : v.binary /\ v.blocking = l
    BY DEF BothHeld
  <2>1. PICK x \in Held(l) : x.binary /\ x.blocking = u.blocking
    <3>1. CASE u \in Held(l) BY <3>1
    <3>2. CASE l = k /\ u = w BY <1>2, <1>3, <3>2 DEF Alike
    <3> QED BY <1>5, <3>1, <3>2
  <2>2. x.blocking \in Lit BY HeldSound
  <2>3. PICK y \in Held(x.blocking) : y.binary /\ y.blocking = l BY <2>1 DEF WatchedInv, BothHeld
  <2>4. PICK v \in Held(x.blocking)' : Alike(v, y) BY <1>4, <2>2
  <2>5. v.binary /\ v.blocking = l BY <2>3, <2>4 DEF Alike
  <2> QED BY <2>1, <2>5
<1>9. BlockingInside'
  <2> SUFFICES ASSUME NEW l \in Lit, NEW u \in Held(l)', ~ u.binary, ~ arena[u.ref].garbage
               PROVE  u.blocking \in ToSet(arena[u.ref].lits)
    BY DEF BlockingInside
  <2>1. CASE u \in Held(l) BY <2>1 DEF WatchedInv, BlockingInside
  <2>2. CASE u = w BY <1>2, <2>2
  <2> QED BY <1>5, <2>1, <2>2
<1>10. Attention'
  <2>1. Attended(k, w)'
    <3> PICK t \in Lit : t \in Partners(k, w) /\ values'[t] = 1 BY <1>2
    <3>1. visit'.lit # 0 BY <1>3 DEF Visiting
    <3>2. Outlasts(t, k)' BY <1>3, <3>1, VisitOutlastsNext DEF AllOutlast
    <3> QED BY <1>6, <3>2 DEF Attended
  <2>2. \A l \in Lit : \A u \in Seen(l)' : Settled(l)' /\ IsLive(u)' =>
          \/ Attended(l, u)'
          \/ /\ u \in Seen(l) /\ IsLive(u)
             /\ InHand(l, u) => Attended(l, u)'
             /\ \A s \in Partners(l, u) : values[s] = 1 => s \in Partners(l, u)'
    <3> TAKE l \in Lit
    <3> TAKE u \in Seen(l)'
    <3> HAVE Settled(l)' /\ IsLive(u)'
    <3>1. CASE u \in Seen(l) BY <1>1, <1>6, <3>1
    <3>2. CASE u \notin Seen(l)
      <4>1. l = k /\ u = w BY <1>3, <3>2
      <4> QED BY <2>1, <4>1
    <3> QED BY <3>1, <3>2
  <2> QED BY <2>2, AttentionKept DEF WatchedInv
<1>11. Kept'
  <2>1. \A l \in Lit : \A u \in Held(l) : u.binary => u \in Held(l)'
    <3> TAKE l \in Lit
    <3> TAKE u \in Held(l)
    <3> HAVE u.binary
    <3>1. CASE u = Watch /\ l = k
      <4>1. w.binary = u.binary /\ w.ref = u.ref /\ w.blocking = u.blocking BY <1>2, <3>1 DEF Alike
      <4>2. w \in WatchType /\ u \in WatchType BY <1>2, <1>3, <3>1
      <4>3. w = u BY <4>1, <4>2, SameWatch
      <4> QED BY <1>3, <3>1, <4>3
    <3> QED BY <1>3, <3>1
  <2>2. \A r \in LiveReferences : ~ arena[r].redundant =>
          /\ r \in LiveReferences' /\ ~ arena'[r].redundant
          /\ ToSet(arena'[r].lits) \subseteq ToSet(arena[r].lits)
    BY <1>6
  <2> QED BY <1>0, <2>1, <2>2, KeptStays DEF WatchedInv
<1> QED BY <1>0, <1>1, <1>7, <1>8, <1>9, <1>10, <1>11, IdlePlan DEF WatchedInv, PlanInv

\* The trail stays as it is.
LEMMA VisitStill ==
    ASSUME SearchInv, SearchInv', PlanInv, Propagate, UNCHANGED <<trailVars, conflict>>,
           visit'.lit = visit.lit
    PROVE  Calm /\ AtRoot' = AtRoot /\ VisitPlaced'
<1>0. Propagating /\ UNCHANGED todo BY DEF Propagate
<1>1. ~ Retreating BY <1>0, NothingInHand
<1>2. Reach' <= Reach BY <1>1, StillReach
<1>3. Calm BY <1>2, CalmStill DEF trailVars
<1>4. AtRoot' = AtRoot BY StillRoot
<1>5. UNCHANGED <<trail, propagate, frames>> BY DEF trailVars
<1>6. VisitPlaced' BY <1>5 DEF PlanInv, VisitPlaced, CurrentLevel
<1> QED BY <1>3, <1>4, <1>6

\* A literal is assigned.
LEMMA VisitMoves ==
    ASSUME SearchInv, SearchInv', PlanInv, Propagate, NEW lit \in Lit, NEW lvl, Assign(lit, lvl),
           conflict' = conflict, visit'.lit = visit.lit
    PROVE  Calm /\ AtRoot \subseteq AtRoot' /\ VisitPlaced' /\ values'[lit] = 1
<1>0. Propagating /\ UNCHANGED todo BY DEF Propagate
<1>1. ~ Retreating /\ todo = <<>> /\ conflict = NoConflict /\ ~ undo.active BY <1>0, NothingInHand
<1>2. /\ Push(lit, lvl) /\ UNCHANGED <<propagate, frames, undo>>
  BY DEF Assign
<1>3. lvl \in Nat
  <2>1. level' = [level EXCEPT ![Idx(lit)] = lvl] BY <1>2 DEF Push
  <2>2. level \in [Var -> Nat] /\ level' \in [Var -> Nat]
    BY DEF SearchInv, TrailInv, TrailTypeOK
  <2>3. Idx(lit) \in Var BY LitFacts
  <2> QED BY <2>1, <2>2, <2>3
<1>4. Targets = {} /\ Targets' = {}
  <2>1. Targets = {} BY <1>1, LoopIdle
  <2> QED BY <1>0, <2>1 DEF Targets
<1>5. CurrentLevel' = CurrentLevel /\ CurrentLevel \in Nat /\ Reach \in Nat
  BY <1>2, ReachFacts DEF CurrentLevel
<1>6. Reach' = Reach
  <2>1. ~ Retreating' BY <1>1, <1>4 DEF Retreating, NoConflict
  <2> QED BY <1>1, <1>2, <2>1 DEF Reach
<1>7. Calm
  <2>1. /\ Reach' <= Reach /\ CurrentLevel <= CurrentLevel'
        /\ \A k \in 1 .. CurrentLevel : frames'[k] = frames[k]
    BY <1>2, <1>5, <1>6
  <2> QED BY <1>1, <1>2, <1>3, <2>1, CalmPush
<1>8. AtRoot \subseteq AtRoot' BY <1>1, <1>2, <1>3, PushRoot
<1>9. VisitPlaced'
  <2>1. propagate \in Nat /\ Len(trail) \in Nat /\ propagate <= Len(trail) BY ReachFacts
  <2>2. \A i \in 1 .. Len(trail) : trail'[i] = trail[i] BY <1>1, <1>2, <1>3, PushFacts DEF SearchInv
  <2>3. visit.lit # 0 => propagate \in 1 .. Len(trail) BY <2>1 DEF PlanInv, VisitPlaced
  <2> QED BY <1>2, <1>5, <2>2, <2>3 DEF PlanInv, VisitPlaced
<1>10. values'[lit] = 1 BY <1>1, <1>2, <1>3, PushKept DEF SearchInv
<1> QED BY <1>7, <1>8, <1>9, <1>10

\* The watch under the pointer is one of those held.
LEMMA WatchHeld ==
    ASSUME SearchInv, WatchedInv, Visiting
    PROVE  /\ Watch \in WatchType /\ Watch.blocking \in Lit /\ -visit.lit \in Lit
           /\ Watch.binary \/ arena[Watch.ref].garbage
                 \/ Watch.blocking \in ToSet(arena[Watch.ref].lits)
           /\ Watch.blocking \in Partners(-visit.lit, Watch)
           /\ Alike(Watch, Watch)
<1>1. /\ -visit.lit \in Lit /\ Watch \in WatchType /\ visit.rest # <<>>
      /\ visit.rest \in Seq(WatchType) /\ Watch = Head(visit.rest)
  BY VisitFacts, WatchFacts DEF Visiting, Watch
<1>2. Watch.blocking \in Lit BY <1>1 DEF WatchType
<1>3. Watch \in Held(-visit.lit)
  <2>1. ToSet(visit.rest) = {Watch} \cup ToSet(Tail(visit.rest)) BY <1>1, TailSet
  <2>2. RestOf(visit, -visit.lit) = visit.rest BY DEF RestOf
  <2> QED BY <2>1, <2>2 DEF Held
<1> QED BY <1>1, <1>2, <1>3 DEF WatchedInv, BlockingInside, Partners, Alike

LEMMA NextLit ==
    ASSUME SearchInv, Visiting, NextWatch
    PROVE  visit'.lit = visit.lit
BY VisitFacts DEF Visiting, NextWatch, VisitType

LEMMA VisitBlockedKept ==
    SearchInv /\ SearchInv' /\ WatchedInv /\ PlanInv /\ Propagate /\ VisitBlocked
        => WatchedInv' /\ PlanInv'
<1> SUFFICES ASSUME SearchInv, SearchInv', WatchedInv, PlanInv, Propagate, VisitBlocked
             PROVE  WatchedInv' /\ PlanInv'
  OBVIOUS
<1>1. /\ Visiting /\ Keep(Watch) /\ NextWatch /\ UNCHANGED <<trailVars, arena, conflict>>
      /\ Blocking > 0
  BY DEF VisitBlocked
<1>2. Calm /\ AtRoot' = AtRoot /\ VisitPlaced' BY <1>1, NextLit, VisitStill
<1>3. values'[Watch.blocking] = 1
  <2>1. Watch.blocking \in Lit BY <1>1, WatchHeld
  <2>2. values[Watch.blocking] \in {-1, 0, 1} BY <2>1, Values DEF SearchInv
  <2>3. values' = values BY <1>1 DEF trailVars
  <2> QED BY <1>1, <2>2, <2>3 DEF Blocking
<1>4. KeepsOn(Watch) BY <1>1, <1>3, WatchHeld DEF KeepsOn
<1> QED BY <1>1, <1>2, <1>4, KeepKept

LEMMA VisitSatisfiedKept ==
    SearchInv /\ SearchInv' /\ WatchedInv /\ PlanInv /\ Propagate /\ VisitSatisfied
        => WatchedInv' /\ PlanInv'
<1> SUFFICES ASSUME SearchInv, SearchInv', WatchedInv, PlanInv, Propagate, VisitSatisfied
             PROVE  WatchedInv' /\ PlanInv'
  OBVIOUS
<1>1. /\ Visiting /\ ~ Watch.binary /\ values[Other] > 0
      /\ Keep(LargeWatch(Other, Watch.ref)) /\ NextWatch
      /\ UNCHANGED <<trailVars, arena, conflict>>
  BY DEF VisitSatisfied, LargeVisit
<1>2. Calm /\ AtRoot' = AtRoot /\ VisitPlaced' BY <1>1, NextLit, VisitStill
<1>3. /\ Watch.ref \in Nat /\ Other \in Lit /\ Other # -visit.lit
      /\ {Other, -visit.lit} = First(Watch.ref)
      /\ Visited.lits \in Seq(Lit) /\ Len(Visited.lits) > 2
      /\ {Other, -visit.lit} = {Visited.lits[1], Visited.lits[2]}
  BY <1>1, LargeFacts
<1>4. Other \in ToSet(arena[Watch.ref].lits)
  <2>1. DOMAIN Visited.lits = 1 .. Len(Visited.lits) /\ Len(Visited.lits) \in Nat BY <1>3
  <2>2. 1 \in DOMAIN Visited.lits /\ 2 \in DOMAIN Visited.lits BY <1>3, <2>1
  <2> QED BY <1>3, <2>2 DEF Visited, ToSet
<1> PICK w : w = LargeWatch(Other, Watch.ref) OBVIOUS
<1>5. /\ w \in WatchType /\ ~ w.binary /\ w.ref = Watch.ref /\ w.blocking = Other
  BY <1>3 DEF LargeWatch, WatchType
<1>6. values'[Other] = 1
  <2>1. values[Other] \in {-1, 0, 1} BY <1>3, Values DEF SearchInv
  <2>2. values' = values BY <1>1 DEF trailVars
  <2> QED BY <1>1, <2>1, <2>2
<1>7. Other \in Partners(-visit.lit, w) BY <1>5 DEF Partners
<1>8. Alike(w, Watch) BY <1>1, <1>5, WatchHeld DEF Alike, WatchType
<1>9. KeepsOn(w) BY <1>1, <1>3, <1>4, <1>5, <1>6, <1>7, <1>8 DEF KeepsOn
<1> QED BY <1>1, <1>2, <1>9, KeepKept

LEMMA VisitBinaryKept ==
    SearchInv /\ SearchInv' /\ WatchedInv /\ PlanInv /\ Propagate /\ VisitBinary
        => WatchedInv' /\ PlanInv'
<1> SUFFICES ASSUME SearchInv, SearchInv', WatchedInv, PlanInv, Propagate, VisitBinary
             PROVE  WatchedInv' /\ PlanInv'
  OBVIOUS
<1>1. Visiting /\ UNCHANGED arena BY DEF VisitBinary
<1>2. CASE Blocking < 0
  <2>1. /\ conflict' = BinaryConflict(-visit.lit, Watch.blocking) /\ Leave
        /\ UNCHANGED trailVars
    BY <1>2 DEF VisitBinary
  <2>2. conflict' # NoConflict
    <3>1. conflict'.lits = <<-visit.lit, Watch.blocking>> BY <2>1 DEF BinaryConflict
    <3>2. NoConflict.lits = <<>> BY DEF NoConflict
    <3>3. <<-visit.lit, Watch.blocking>> # <<>> OBVIOUS
    <3> QED BY <3>1, <3>2, <3>3
  <2>3. visit.lit # 0 BY <1>1 DEF Visiting
  <2> QED BY <1>1, <2>1, <2>2, <2>3, LeaveKept
<1>3. CASE ~ (Blocking < 0)
  <2>1. /\ Assign(Watch.blocking, LevelOf(visit.lit)) /\ Keep(Watch) /\ NextWatch
        /\ UNCHANGED conflict
    BY <1>3 DEF VisitBinary, AssignReason
  <2>2. Watch.blocking \in Lit BY <1>1, WatchHeld
  <2>3. visit'.lit = visit.lit BY <1>1, <2>1, NextLit
  <2>4. Calm /\ AtRoot \subseteq AtRoot' /\ VisitPlaced' /\ values'[Watch.blocking] = 1
    BY <2>1, <2>2, <2>3, VisitMoves
  <2>5. KeepsOn(Watch) BY <1>1, <2>1, <2>4, WatchHeld DEF KeepsOn
  <2> QED BY <1>1, <2>1, <2>4, <2>5, KeepKept
<1> QED BY <1>2, <1>3

LEMMA VisitForceKept ==
    SearchInv /\ SearchInv' /\ WatchedInv /\ PlanInv /\ Propagate /\ VisitForce
        => WatchedInv' /\ PlanInv'
<1> SUFFICES ASSUME SearchInv, SearchInv', WatchedInv, PlanInv, Propagate, VisitForce
             PROVE  WatchedInv' /\ PlanInv'
  OBVIOUS
<1>1. /\ Visiting /\ ~ Watch.binary /\ AssignReference(Other, Watch.ref)
      /\ Keep(Watch) /\ NextWatch /\ UNCHANGED <<arena, conflict>>
  BY DEF VisitForce, LiveVisit, LargeVisit
<1>2. PICK lvl : Assign(Other, lvl) BY <1>1 DEF AssignReference, AssignReason
<1>3. Other \in Lit /\ Other # -visit.lit /\ First(Watch.ref) = {Other, -visit.lit}
  BY <1>1, LargeFacts
<1>4. visit'.lit = visit.lit BY <1>1, NextLit
<1>5. Calm /\ AtRoot \subseteq AtRoot' /\ VisitPlaced' /\ values'[Other] = 1
  BY <1>1, <1>2, <1>3, <1>4, VisitMoves
<1>6. Other \in Partners(-visit.lit, Watch) BY <1>1, <1>3 DEF Partners
<1>7. KeepsOn(Watch) BY <1>1, <1>3, <1>5, <1>6, WatchHeld DEF KeepsOn
<1> QED BY <1>1, <1>5, <1>7, KeepKept

LEMMA VisitConflictKept ==
    SearchInv /\ SearchInv' /\ WatchedInv /\ PlanInv /\ Propagate /\ VisitConflict
        => WatchedInv' /\ PlanInv'
<1> SUFFICES ASSUME SearchInv, SearchInv', WatchedInv, PlanInv, Propagate, VisitConflict
             PROVE  WatchedInv' /\ PlanInv'
  OBVIOUS
<1>1. /\ Visiting /\ ~ Watch.binary /\ conflict' = LargeConflict(Watch.ref) /\ Leave
      /\ UNCHANGED <<trailVars, arena>>
  BY DEF VisitConflict, LiveVisit, LargeVisit
<1>2. conflict' # NoConflict
  <2>1. Watch.ref # 0 BY <1>1, LargeFacts
  <2>2. conflict'.ref = Watch.ref BY <1>1 DEF LargeConflict
  <2>3. NoConflict.ref = 0 BY DEF NoConflict
  <2> QED BY <2>1, <2>2, <2>3
<1>3. visit.lit # 0 BY <1>1 DEF Visiting
<1> QED BY <1>1, <1>2, <1>3, LeaveKept

LEMMA VisitEndKept ==
    SearchInv /\ SearchInv' /\ WatchedInv /\ PlanInv /\ Propagate /\ VisitEnd
        => WatchedInv' /\ PlanInv'
BY LeaveKept DEF VisitEnd

\* The watch under the pointer is passed over, and another may be delayed.
LEMMA PassedHands ==
    ASSUME SearchInv, Visiting, watches' = watches, visit'.lit = visit.lit,
           visit'.rest = Tail(visit.rest), visit'.delayed = visit.delayed
    PROVE  \A l \in Lit :
               /\ Seen(l)' = Seen(l) /\ Held(l)' \subseteq Held(l)
               /\ \A u \in Held(l) : u \in Held(l)' \/ (l = -visit.lit /\ u = Watch)
<1>1. /\ visit.rest # <<>> /\ visit.rest \in Seq(WatchType) /\ Watch = Head(visit.rest)
  BY WatchFacts DEF Visiting, Watch
<1>2. ToSet(visit.rest) = {Watch} \cup ToSet(visit'.rest) BY <1>1, TailSet
<1> TAKE l \in Lit
<1>3. Seen(l)' = Seen(l) BY DEF Seen
<1>4. CASE l = -visit.lit
  <2>1. RestOf(visit, l) = visit.rest /\ RestOf(visit', l) = visit'.rest BY <1>4 DEF RestOf
  <2>2. Held(l) = Seen(l) \cup {Watch} \cup ToSet(visit'.rest) BY <1>2, <2>1 DEF Held
  <2>3. Held(l)' = Seen(l) \cup ToSet(visit'.rest) BY <1>3, <2>1 DEF Held
  <2> QED BY <1>3, <1>4, <2>2, <2>3
<1>5. CASE l # -visit.lit
  <2>1. RestOf(visit, l) = <<>> /\ RestOf(visit', l) = <<>> BY <1>5 DEF RestOf
  <2>2. Held(l) = Seen(l) \cup ToSet(<<>>) /\ Held(l)' = Seen(l) \cup ToSet(<<>>)
    BY <1>3, <2>1 DEF Held
  <2> QED BY <1>3, <2>2
<1> QED BY <1>4, <1>5

LEMMA VisitGarbageKept ==
    SearchInv /\ SearchInv' /\ WatchedInv /\ PlanInv /\ Propagate /\ VisitGarbage
        => WatchedInv' /\ PlanInv'
<1> SUFFICES ASSUME SearchInv, SearchInv', WatchedInv, PlanInv, Propagate, VisitGarbage
             PROVE  WatchedInv' /\ PlanInv'
  OBVIOUS
<1>1. /\ Visiting /\ ~ Watch.binary /\ arena[Watch.ref].garbage /\ NextWatch
      /\ UNCHANGED <<trailVars, arena, watches, conflict>> /\ Propagating
      /\ UNCHANGED <<formula, todo>>
  BY DEF VisitGarbage, LargeVisit, Visited, Propagate, loopVars
<1>2. /\ todo = <<>> /\ conflict = NoConflict /\ \A l, u : ~ InHand(l, u)
  BY <1>1, NothingInHand
<1>3. /\ visit'.lit = visit.lit /\ visit'.rest = Tail(visit.rest)
      /\ visit'.delayed = visit.delayed
  BY <1>1, VisitFacts DEF Visiting, NextWatch, VisitType
<1>4. Calm /\ AtRoot' = AtRoot /\ VisitPlaced' BY <1>1, <1>3, VisitStill
<1>5. \A l \in Lit : /\ Seen(l)' = Seen(l) /\ Held(l)' \subseteq Held(l)
                     /\ \A u \in Held(l) : u \in Held(l)' \/ (l = -visit.lit /\ u = Watch)
  BY <1>1, <1>3, PassedHands
<1>6. /\ LiveReferences' = LiveReferences /\ \A r : First(r)' = First(r)
      /\ \A u : IsLive(u)' <=> IsLive(u)
      /\ \A l, u : Partners(l, u)' = Partners(l, u)
  BY <1>1 DEF LiveReferences, References, First, IsLive, Partners
<1>7. FirstsHeld'
  <2> SUFFICES ASSUME NEW r \in LiveReferences, NEW l \in First(r)
               PROVE  \E v \in Held(l)' : Watches(v, r)
    BY <1>6 DEF FirstsHeld
  <2>1. l \in Lit BY FirstLits DEF FirstTyped, LiveReferences
  <2>2. PICK u \in Held(l) : Watches(u, r) BY DEF WatchedInv, FirstsHeld
  <2>3. u # Watch BY <1>1, <2>2 DEF Watches, LiveReferences
  <2> QED BY <1>5, <2>1, <2>2, <2>3
<1>8. BothHeld'
  <2> SUFFICES ASSUME NEW l \in Lit, NEW u \in Held(l)', u.binary
               PROVE  \E v \in Held(u.blocking)' : v.binary /\ v.blocking = l
    BY DEF BothHeld
  <2>1. u \in Held(l) BY <1>5
  <2>2. u.blocking \in Lit BY <2>1, HeldSound
  <2>3. PICK v \in Held(u.blocking) : v.binary /\ v.blocking = l
    BY <2>1 DEF WatchedInv, BothHeld
  <2>4. v # Watch BY <1>1, <2>3
  <2> QED BY <1>5, <2>2, <2>3, <2>4
<1>9. BlockingInside' BY <1>1, <1>5 DEF WatchedInv, BlockingInside
<1>10. Attention'
  <2>1. \A l \in Lit : \A u \in Seen(l)' : Settled(l)' /\ IsLive(u)' =>
          \/ Attended(l, u)'
          \/ /\ u \in Seen(l) /\ IsLive(u)
             /\ InHand(l, u) => Attended(l, u)'
             /\ \A s \in Partners(l, u) : values[s] = 1 => s \in Partners(l, u)'
    BY <1>2, <1>5, <1>6
  <2> QED BY <1>4, <2>1, AttentionKept DEF WatchedInv
<1>11. Kept'
  <2>1. \A l \in Lit : \A u \in Held(l) : u.binary => u \in Held(l)' BY <1>1, <1>5
  <2>2. \A r \in LiveReferences : ~ arena[r].redundant =>
          /\ r \in LiveReferences' /\ ~ arena'[r].redundant
          /\ ToSet(arena'[r].lits) \subseteq ToSet(arena[r].lits)
    BY <1>1, <1>6
  <2> QED BY <1>1, <1>4, <2>1, <2>2, KeptStays DEF WatchedInv
<1> QED BY <1>1, <1>2, <1>4, <1>7, <1>8, <1>9, <1>10, <1>11, IdlePlan DEF WatchedInv, PlanInv

\* The watch goes to the replacement.
LEMMA ReplacedHands ==
    ASSUME SearchInv, Visiting, watches' = watches, NEW found \in Lit, NEW w \in WatchType,
           visit' = [[visit EXCEPT !.rest = Tail(@)] EXCEPT !.delayed[found] = Append(@, w)]
    PROVE  /\ visit'.lit = visit.lit /\ w \in Held(found)'
           /\ \A l \in Lit :
                /\ \A u \in Seen(l)' : u \in Seen(l) \/ (l = found /\ u = w)
                /\ \A u \in Held(l)' : u \in Held(l) \/ (l = found /\ u = w)
                /\ \A u \in Held(l) : u \in Held(l)' \/ (l = -visit.lit /\ u = Watch)
<1>1. /\ visit.rest # <<>> /\ visit.rest \in Seq(WatchType) /\ Watch = Head(visit.rest)
      /\ visit \in VisitType
  BY VisitFacts, WatchFacts DEF Visiting, Watch
<1>2. ToSet(visit.rest) = {Watch} \cup ToSet(Tail(visit.rest)) BY <1>1, TailSet
<1>3. /\ visit'.lit = visit.lit /\ visit'.rest = Tail(visit.rest)
      /\ visit'.delayed[found] = Append(visit.delayed[found], w)
      /\ \A l \in Lit : l # found => visit'.delayed[l] = visit.delayed[l]
      /\ visit.delayed[found] \in Seq(WatchType)
  BY <1>1 DEF VisitType, Lists
<1>4. ToSet(visit'.delayed[found]) = ToSet(visit.delayed[found]) \cup {w} BY <1>3, AppendSet
<1>5. /\ \A l \in Lit : l # found => Seen(l)' = Seen(l)
      /\ Seen(found)' = Seen(found) \cup {w}
  BY <1>3, <1>4 DEF Seen
<1>6. \A l : ToSet(RestOf(visit', l)) =
               (IF l = -visit.lit THEN ToSet(Tail(visit.rest)) ELSE ToSet(<<>>))
  BY <1>3 DEF RestOf
<1>7. \A l : ToSet(RestOf(visit, l)) =
               (IF l = -visit.lit THEN {Watch} \cup ToSet(Tail(visit.rest)) ELSE ToSet(<<>>))
  BY <1>2 DEF RestOf
<1>8. \A l : /\ ToSet(RestOf(visit', l)) \subseteq ToSet(RestOf(visit, l))
             /\ \A u \in ToSet(RestOf(visit, l)) :
                   u \in ToSet(RestOf(visit', l)) \/ (l = -visit.lit /\ u = Watch)
  BY <1>6, <1>7
<1>9. \A l : Held(l) = Seen(l) \cup ToSet(RestOf(visit, l))
             /\ Held(l)' = Seen(l)' \cup ToSet(RestOf(visit', l))
  BY DEF Held
<1> QED BY <1>3, <1>5, <1>8, <1>9

LEMMA VisitReplaceKept ==
    SearchInv /\ SearchInv' /\ WatchedInv /\ PlanInv /\ Propagate /\ VisitReplace
        => WatchedInv' /\ PlanInv'
<1> SUFFICES ASSUME SearchInv, SearchInv', WatchedInv, PlanInv, Propagate, VisitReplace
             PROVE  WatchedInv' /\ PlanInv'
  OBVIOUS
<1>1. /\ Visiting /\ ~ Watch.binary /\ UNCHANGED <<trailVars, watches, conflict>>
      /\ Propagating /\ UNCHANGED <<formula, todo>>
  BY DEF VisitReplace, LiveVisit, LargeVisit, Propagate, loopVars
<1>2. /\ todo = <<>> /\ conflict = NoConflict /\ \A l, u : ~ InHand(l, u)
  BY <1>1, NothingInHand
<1>3. PICK ref \in References, found \in Lit, other \in Lit, k \in Lit :
         Replacing(ref, found, other, k)
  BY VisitReplaceFacts
<1>4. /\ ref = Watch.ref /\ ref # 0 /\ k = -visit.lit /\ values[found] >= 0 /\ other # k
      /\ References' = References
      /\ arena'[ref].garbage = arena[ref].garbage /\ arena'[ref].redundant = arena[ref].redundant
      /\ \A c \in References : c # ref => arena'[c] = arena[c] /\ First(c)' = First(c)
      /\ \A c \in References : ToSet(arena'[c].lits) = ToSet(arena[c].lits)
      /\ First(ref)' = {other, found} /\ First(ref) = {other, k}
  BY <1>3 DEF Replacing
<1> PICK w : w = LargeWatch(other, ref) OBVIOUS
<1>5. w \in WatchType /\ ~ w.binary /\ w.ref = ref /\ w.blocking = other
  <2>1. ref \in Nat BY <1>1, <1>4, LargeFacts
  <2> QED BY <2>1 DEF LargeWatch, WatchType
<1>6. visit' = [[visit EXCEPT !.rest = Tail(@)] EXCEPT !.delayed[found] = Append(@, w)]
  BY <1>3 DEF Replacing
<1>7. /\ visit'.lit = visit.lit /\ w \in Held(found)'
      /\ \A l \in Lit :
           /\ \A u \in Seen(l)' : u \in Seen(l) \/ (l = found /\ u = w)
           /\ \A u \in Held(l)' : u \in Held(l) \/ (l = found /\ u = w)
           /\ \A u \in Held(l) : u \in Held(l)' \/ (l = k /\ u = Watch)
  BY <1>1, <1>4, <1>5, <1>6, ReplacedHands
<1>8. Calm /\ AtRoot' = AtRoot /\ VisitPlaced' BY <1>1, <1>7, VisitStill
<1>9. /\ LiveReferences' = LiveReferences
      /\ \A c \in References : arena'[c].garbage = arena[c].garbage
                               /\ arena'[c].redundant = arena[c].redundant
  BY <1>4 DEF LiveReferences
<1>10. FirstsHeld'
  <2> SUFFICES ASSUME NEW r \in LiveReferences, NEW l \in First(r)'
               PROVE  \E v \in Held(l)' : Watches(v, r)
    BY <1>9 DEF FirstsHeld
  <2>1. CASE r = ref /\ l = found BY <1>5, <1>7, <2>1 DEF Watches
  <2>2. CASE ~ (r = ref /\ l = found)
    <3>1. l \in First(r) /\ l \in Lit
      <4>1. CASE r = ref BY <1>4, <2>2, <4>1
      <4>2. CASE r # ref
        <5>1. r \in References BY DEF LiveReferences
        <5>2. l \in First(r) BY <1>4, <4>2, <5>1
        <5> QED BY <5>1, <5>2, FirstLits DEF FirstTyped
      <4> QED BY <4>1, <4>2
    <3>2. PICK u \in Held(l) : Watches(u, r) BY <3>1 DEF WatchedInv, FirstsHeld
    <3>3. ~ (l = k /\ u = Watch)
      <4> SUFFICES ASSUME l = k, u = Watch PROVE FALSE
        OBVIOUS
      <4>1. r = ref BY <1>4, <3>2 DEF Watches
      <4>2. l = other BY <1>4, <2>2, <4>1
      <4> QED BY <1>4, <4>2
    <3> QED BY <1>7, <3>1, <3>2, <3>3
  <2> QED BY <2>1, <2>2
<1>11. BothHeld'
  <2> SUFFICES ASSUME NEW l \in Lit, NEW u \in Held(l)', u.binary
               PROVE  \E v \in Held(u.blocking)' : v.binary /\ v.blocking = l
    BY DEF BothHeld
  <2>1. u \in Held(l) BY <1>5, <1>7
  <2>2. u.blocking \in Lit BY <2>1, HeldSound
  <2>3. PICK v \in Held(u.blocking) : v.binary /\ v.blocking = l
    BY <2>1 DEF WatchedInv, BothHeld
  <2>4. v # Watch BY <1>1, <2>3
  <2> QED BY <1>7, <2>2, <2>3, <2>4
<1>12. BlockingInside'
  <2> SUFFICES ASSUME NEW l \in Lit, NEW u \in Held(l)', ~ u.binary, ~ arena'[u.ref].garbage
               PROVE  u.blocking \in ToSet(arena'[u.ref].lits)
    BY DEF BlockingInside
  <2>1. CASE u \in Held(l)
    <3>1. u.ref \in References BY <2>1, HeldSound
    <3>2. ~ arena[u.ref].garbage BY <1>9, <3>1
    <3>3. u.blocking \in ToSet(arena[u.ref].lits) BY <2>1, <3>2 DEF WatchedInv, BlockingInside
    <3> QED BY <1>4, <3>1, <3>3
  <2>2. CASE u = w
    <3>1. other \in ToSet(arena[ref].lits)
      <4>1. Visited.lits \in Seq(Lit) /\ Len(Visited.lits) > 2 BY <1>1, LargeFacts
      <4>2. DOMAIN Visited.lits = 1 .. Len(Visited.lits) /\ Len(Visited.lits) \in Nat BY <4>1
      <4>3. 1 \in DOMAIN Visited.lits /\ 2 \in DOMAIN Visited.lits BY <4>1, <4>2
      <4>4. Visited = arena[ref] BY <1>4 DEF Visited
      <4>5. First(ref) \subseteq ToSet(arena[ref].lits) BY <4>3, <4>4 DEF First, ToSet
      <4> QED BY <1>4, <4>5
    <3> QED BY <1>4, <1>5, <2>2, <3>1
  <2> QED BY <1>7, <2>1, <2>2
<1>13. Attention'
  <2> SUFFICES ASSUME NEW l \in Lit, NEW u \in Seen(l)', Settled(l)', IsLive(u)'
               PROVE  \/ Attended(l, u)'
                      \/ /\ u \in Seen(l) /\ IsLive(u)
                         /\ InHand(l, u) => Attended(l, u)'
                         /\ \A s \in Partners(l, u) : values[s] = 1 => s \in Partners(l, u)'
    BY <1>8, AttentionKept DEF WatchedInv
  <2>1. u \in Seen(l)
    <3> SUFFICES ASSUME l = found PROVE FALSE
      BY <1>7
    <3>1. values'[found] = -1 BY DEF Settled
    <3>2. values' = values BY <1>1 DEF trailVars
    <3> QED BY <1>4, <3>1, <3>2
  <2>2. u \in Held(l) BY <2>1 DEF Held
  <2>3. ~ u.binary => u.ref \in References BY <2>2, HeldSound
  <2>4. IsLive(u) BY <1>9, <2>3 DEF IsLive
  <2>5. \A s \in Partners(l, u) : values[s] = 1 => s \in Partners(l, u)'
    <3> SUFFICES ASSUME ~ u.binary, NEW s \in First(u.ref), s # l, values[s] = 1
                 PROVE  s \in First(u.ref)'
      BY DEF Partners
    <3>1. CASE u.ref # ref BY <1>4, <2>3, <3>1
    <3>2. CASE u.ref = ref
      <4>1. values[k] = -1 BY <1>1, <1>4, VisitFacts DEF Visiting
      <4>2. s = other BY <1>4, <3>2, <4>1
      <4> QED BY <1>4, <3>2, <4>2
    <3> QED BY <3>1, <3>2
  <2> QED BY <1>2, <2>1, <2>4, <2>5
<1>14. Kept'
  <2>1. \A l \in Lit : \A u \in Held(l) : u.binary => u \in Held(l)' BY <1>1, <1>7
  <2>2. \A r \in LiveReferences : ~ arena[r].redundant =>
          /\ r \in LiveReferences' /\ ~ arena'[r].redundant
          /\ ToSet(arena'[r].lits) \subseteq ToSet(arena[r].lits)
    <3> TAKE r \in LiveReferences
    <3>1. r \in References BY DEF LiveReferences
    <3> QED BY <1>4, <1>9, <3>1
  <2> QED BY <1>1, <1>8, <2>1, <2>2, KeptStays DEF WatchedInv
<1> QED BY <1>1, <1>2, <1>8, <1>10, <1>11, <1>12, <1>13, <1>14, IdlePlan DEF WatchedInv, PlanInv

LEMMA PropagateKept ==
    SearchInv /\ SearchInv' /\ WatchedInv /\ PlanInv /\ Propagate => WatchedInv' /\ PlanInv'
<1>1. Propagate => PropagateStep BY DEF Propagate
<1> QED BY <1>1, VisitStartKept, VisitBlockedKept, VisitBinaryKept, VisitGarbageKept,
           VisitSatisfiedKept, VisitReplaceKept, VisitConflictKept, VisitForceKept, VisitEndKept
        DEF PropagateStep
=============================================================================
