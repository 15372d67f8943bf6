-------------------------- MODULE StructureProofs --------------------------
(***************************************************************************)
(* The data structures below the search, each by itself: the decision      *)
(* queue, for any number of variables and of stamps; the heap of scores,   *)
(* for any number of elements, any scores and any sizes; and the watch     *)
(* lists in one stack, for any number of lists, any words and any size of  *)
(* the stack.                                                              *)
(***************************************************************************)
EXTENDS DecisionQueue, Heap, Vectors, Recursion, FiniteSetTheorems, SequenceTheorems

-----------------------------------------------------------------------------
(***************************************************************************)
(* The decision queue.                                                     *)
(*                                                                         *)
(* The list is first treated for itself: it is sorted by a key, which is   *)
(* the stamp but for the variable that waits for one.  Removing, appending *)
(* and any monotone change of the keys keep it sorted.  The theorems are   *)
(* QueueInvariant and, last, QueueImplementsOrder.                         *)
(***************************************************************************)
\* p comes right before v in S, by the key k; f and l are the ends.
RightBefore(S, k, p, v) ==
    IF p = None THEN \A u \in S : k[v] <= k[u]
    ELSE p \in S /\ k[p] < k[v] /\ \A u \in S : k[u] <= k[p] \/ k[v] <= k[u]

RightAfter(S, k, n, v) ==
    IF n = None THEN \A u \in S : k[u] <= k[v]
    ELSE n \in S /\ RightBefore(S, k, v, n)

SortedList(S, k, p, n, f, l) ==
    /\ \A v \in S : RightBefore(S, k, p[v], v) /\ RightAfter(S, k, n[v], v)
    /\ S = {} => f = None /\ l = None
    /\ S # {} => /\ f \in S /\ \A u \in S : k[f] <= k[u]
                 /\ l \in S /\ \A u \in S : k[u] <= k[l]

Injective(S, k) == \A u, v \in S : k[u] = k[v] => u = v

\* A variable leaves the list (kissat_dequeue_links).
LEMMA SortedWithout ==
    ASSUME NEW S \in SUBSET Variables, NEW k \in [Variables -> Nat], Injective(S, k),
           NEW p \in [Variables -> Maybe], NEW n \in [Variables -> Maybe],
           NEW f \in Maybe, NEW l \in Maybe, SortedList(S, k, p, n, f, l),
           NEW v \in S
    PROVE  LET p2 == Linked([p EXCEPT ![v] = None], n[v], p[v])
               n2 == Linked([n EXCEPT ![v] = None], p[v], n[v])
               f2 == IF p[v] = None THEN n[v] ELSE f
               l2 == IF n[v] = None THEN p[v] ELSE l
           IN  /\ SortedList(S \ {v}, k, p2, n2, f2, l2)
               /\ p2 \in [Variables -> Maybe] /\ n2 \in [Variables -> Maybe]
               /\ f2 \in Maybe /\ l2 \in Maybe
<1> USE QueueAssumption DEF Maybe
<1> DEFINE T == S \ {v}
           p2 == Linked([p EXCEPT ![v] = None], n[v], p[v])
           n2 == Linked([n EXCEPT ![v] = None], p[v], n[v])
           f2 == IF p[v] = None THEN n[v] ELSE f
           l2 == IF n[v] = None THEN p[v] ELSE l
<1>1. RightBefore(S, k, p[v], v) /\ RightAfter(S, k, n[v], v)
  BY DEF SortedList
<1>2. /\ p2 \in [Variables -> Maybe] /\ n2 \in [Variables -> Maybe]
      /\ f2 \in Maybe /\ l2 \in Maybe
  BY DEF Linked
<1>3. p[v] # v /\ n[v] # v
  BY <1>1 DEF RightBefore, RightAfter
<1>4. \A u \in T : /\ p2[u] = IF u = n[v] THEN p[v] ELSE p[u]
                   /\ n2[u] = IF u = p[v] THEN n[v] ELSE n[u]
  BY <1>3 DEF Linked
<1>5. ASSUME NEW u \in T PROVE RightBefore(T, k, p2[u], u)
  <2>1. RightBefore(S, k, p[u], u) BY DEF SortedList
  <2>2. CASE u = n[v]
    <3>1. p2[u] = p[v] /\ RightBefore(S, k, v, u)
      BY <1>1, <1>4, <2>2 DEF RightAfter
    <3>2. CASE p[v] = None
      BY <1>1, <3>1, <3>2 DEF RightBefore, Injective
    <3>3. CASE p[v] # None
      <4>1. \A w \in T : k[w] <= k[p[v]] \/ k[u] <= k[w]
        BY <1>1, <3>1, <3>3 DEF RightBefore, Injective
      <4>2. p[v] \in T /\ k[p[v]] < k[u]
        BY <1>1, <3>1, <3>3 DEF RightBefore
      <4> QED BY <3>1, <3>3, <4>1, <4>2 DEF RightBefore
    <3> QED BY <3>2, <3>3
  <2>3. CASE u # n[v]
    <3>1. p[u] # v
      BY <1>1, <2>1, <2>3 DEF RightBefore, RightAfter, Injective
    <3> QED BY <1>4, <2>1, <2>3, <3>1 DEF RightBefore
  <2> QED BY <2>2, <2>3
<1>6. ASSUME NEW u \in T PROVE RightAfter(T, k, n2[u], u)
  <2>1. RightAfter(S, k, n[u], u) BY DEF SortedList
  <2>2. CASE u = p[v]
    <3>1. n2[u] = n[v] /\ RightBefore(S, k, u, v)
      BY <1>1, <1>4, <2>2
    <3>2. CASE n[v] = None
      BY <1>1, <3>1, <3>2 DEF RightBefore, RightAfter, Injective
    <3>3. CASE n[v] # None
      <4>1. n[v] \in S /\ RightBefore(S, k, v, n[v])
        BY <1>1, <3>3 DEF RightAfter
      <4>2. \A w \in T : k[w] <= k[u] \/ k[n[v]] <= k[w]
        BY <3>1, <4>1 DEF RightBefore, Injective
      <4>3. n[v] \in T /\ k[u] < k[n[v]]
        BY <3>1, <4>1 DEF RightBefore
      <4> QED BY <3>1, <3>3, <4>2, <4>3 DEF RightAfter, RightBefore
    <3> QED BY <3>2, <3>3
  <2>3. CASE u # p[v]
    <3>1. n[u] # v
      BY <1>1, <2>1, <2>3 DEF RightBefore, RightAfter, Injective
    <3> QED BY <1>4, <2>1, <2>3, <3>1 DEF RightBefore, RightAfter
  <2> QED BY <2>2, <2>3
<1>7. T = {} => f2 = None /\ l2 = None
  BY <1>1, <1>3 DEF RightBefore, RightAfter, SortedList
<1>8. T # {} => f2 \in T /\ \A u \in T : k[f2] <= k[u]
  <2> SUFFICES ASSUME T # {} PROVE f2 \in T /\ \A u \in T : k[f2] <= k[u]
    OBVIOUS
  <2>1. f \in S /\ \A u \in S : k[f] <= k[u] BY DEF SortedList
  <2>2. CASE p[v] = None
    BY <1>1, <1>3, <2>2 DEF RightBefore, RightAfter, Injective
  <2>3. CASE p[v] # None
    BY <1>1, <2>1, <2>3 DEF RightBefore
  <2> QED BY <2>2, <2>3
<1>9. T # {} => l2 \in T /\ \A u \in T : k[u] <= k[l2]
  <2> SUFFICES ASSUME T # {} PROVE l2 \in T /\ \A u \in T : k[u] <= k[l2]
    OBVIOUS
  <2>1. l \in S /\ \A u \in S : k[u] <= k[l] BY DEF SortedList
  <2>2. CASE n[v] = None
    BY <1>1, <1>3, <2>2 DEF RightBefore, RightAfter, Injective
  <2>3. CASE n[v] # None
    BY <1>1, <2>1, <2>3 DEF RightBefore, RightAfter
  <2> QED BY <2>2, <2>3
<1> QED BY <1>2, <1>5, <1>6, <1>7, <1>8, <1>9 DEF SortedList

\* A variable is appended with the largest key (kissat_enqueue_links).
LEMMA SortedAppend ==
    ASSUME NEW S \in SUBSET Variables, NEW k \in [Variables -> Nat], Injective(S, k),
           NEW k2 \in [Variables -> Nat],
           NEW p \in [Variables -> Maybe], NEW n \in [Variables -> Maybe],
           NEW f \in Maybe, NEW l \in Maybe, SortedList(S, k, p, n, f, l),
           NEW v \in Variables \ S,
           \A u \in S : k2[u] = k[u] /\ k2[u] < k2[v]
    PROVE  LET p2 == [p EXCEPT ![v] = l]
               n2 == Linked([n EXCEPT ![v] = None], l, v)
               f2 == IF l = None THEN v ELSE f
           IN  /\ SortedList(S \cup {v}, k2, p2, n2, f2, v)
               /\ p2 \in [Variables -> Maybe] /\ n2 \in [Variables -> Maybe]
               /\ f2 \in Maybe
<1> USE QueueAssumption DEF Maybe
<1> DEFINE T == S \cup {v}
           p2 == [p EXCEPT ![v] = l]
           n2 == Linked([n EXCEPT ![v] = None], l, v)
           f2 == IF l = None THEN v ELSE f
<1>1. /\ p2 \in [Variables -> Maybe] /\ n2 \in [Variables -> Maybe]
      /\ f2 \in Maybe
  BY DEF Linked
<1>2. l \in S \/ (l = None /\ S = {})
  BY DEF SortedList
<1>3. /\ p2[v] = l /\ n2[v] = None
      /\ \A u \in S : p2[u] = p[u] /\ n2[u] = IF u = l THEN v ELSE n[u]
  BY <1>2 DEF Linked
<1>4. ASSUME NEW u \in T PROVE RightBefore(T, k2, p2[u], u)
  <2>1. CASE u = v
    BY <1>2, <1>3, <2>1 DEF RightBefore, SortedList
  <2>2. CASE u \in S
    BY <1>3, <2>2 DEF RightBefore, SortedList
  <2> QED BY <2>1, <2>2
<1>5. ASSUME NEW u \in T PROVE RightAfter(T, k2, n2[u], u)
  <2>1. CASE u = v
    BY <1>3, <2>1 DEF RightAfter
  <2>2. CASE u \in S /\ u = l
    <3>1. n2[u] = v /\ \A w \in S : k[w] <= k[u]
      BY <1>3, <2>2 DEF SortedList
    <3>2. \A w \in T : k2[w] <= k2[u] \/ k2[v] <= k2[w]
      BY <2>2, <3>1
    <3>3. v \in T /\ k2[u] < k2[v] /\ v # None /\ u # None
      BY <2>2
    <3> HIDE DEF T
    <3> QED BY <2>2, <3>1, <3>2, <3>3 DEF RightAfter, RightBefore
  <2>3. CASE u \in S /\ u # l
    <3>1. RightAfter(S, k, n[u], u) BY <2>3 DEF SortedList
    <3>2. n2[u] = n[u] /\ k[u] <= k[l] /\ l \in S BY <1>2, <1>3, <2>3 DEF SortedList
    <3>3. n[u] # None
      <4> SUFFICES ASSUME n[u] = None PROVE FALSE OBVIOUS
      <4>1. k[l] <= k[u] BY <3>1, <3>2 DEF RightAfter
      <4>2. k[l] = k[u] BY <2>3, <3>2, <4>1
      <4> QED BY <2>3, <3>2, <4>2 DEF Injective
    <3>4. n[u] \in S /\ RightBefore(S, k, u, n[u])
      BY <3>1, <3>3 DEF RightAfter
    <3>5. n[u] \in T /\ k2[u] < k2[n[u]] /\ u # None
      BY <2>3, <3>4 DEF RightBefore
    <3>6. \A w \in T : k2[w] <= k2[u] \/ k2[n[u]] <= k2[w]
      BY <2>3, <3>4 DEF RightBefore
    <3> HIDE DEF T
    <3> QED BY <2>3, <3>2, <3>3, <3>5, <3>6 DEF RightAfter, RightBefore
  <2> QED BY <2>1, <2>2, <2>3
<1>6. f2 \in T /\ \A u \in T : k2[f2] <= k2[u]
  BY <1>2 DEF SortedList
<1>7. \A u \in T : k2[u] <= k2[v]
  OBVIOUS
<1> QED BY <1>1, <1>4, <1>5, <1>6, <1>7 DEF SortedList

\* New keys in the same order leave the list sorted.
LEMMA SortedRekeyed ==
    ASSUME NEW S \in SUBSET Variables, NEW k \in [Variables -> Nat],
           NEW k2 \in [Variables -> Nat],
           \A u, v \in S : k[u] < k[v] <=> k2[u] < k2[v],
           NEW p, NEW n, NEW f, NEW l, SortedList(S, k, p, n, f, l)
    PROVE  SortedList(S, k2, p, n, f, l)
<1>1. \A u, v \in S : k[u] <= k[v] <=> k2[u] <= k2[v]
  OBVIOUS
<1>2. ASSUME NEW v \in S, NEW q, RightBefore(S, k, q, v)
      PROVE  RightBefore(S, k2, q, v)
  BY <1>1, <1>2 DEF RightBefore
<1>3. ASSUME NEW v \in S, NEW q, RightAfter(S, k, q, v)
      PROVE  RightAfter(S, k2, q, v)
  BY <1>1, <1>2, <1>3 DEF RightAfter, RightBefore
<1> QED BY <1>1, <1>2, <1>3 DEF SortedList

-----------------------------------------------------------------------------
\* The invariant in terms of keys.  A variable whose enqueue waits for new
\* stamps comes after all others.
Key == [v \in Variables |-> IF v = entering THEN MaxStamp + 1 ELSE stamp[v]]

Stamped ==
    /\ assigned \subseteq active \cup retired
    /\ \A v \in active \ {entering} : stamp[v] \in 1 .. MaxStamp
    /\ Injective(active, Key)

Found ==
    ~ stable => \A v \in active \ assigned :
        v = entering \/ (search.idx \in active /\ Key[v] <= Key[search.idx])

KeyVisited == {v \in active : cursor = None \/ Key[v] < Key[cursor]}

Restamping ==
    loop = "restamp" =>
         /\ entering \in active
         /\ entering = last
         /\ cursor \in active \cup {None}
         /\ counter = Cardinality(KeyVisited)
         /\ search.idx = None => active = {entering} /\ entering \notin assigned
         /\ search.idx # None => search.idx \in active
         /\ \A v \in active \ {entering} :
              /\ v \in KeyVisited => stamp[v] <= counter
              /\ v \notin KeyVisited => stamp[v] > counter
         /\ cursor = None => /\ stamp[entering] = counter
                             /\ \A v \in active \ {entering} : stamp[v] < counter

NotRestamping ==
    loop # "restamp" => /\ entering = None
                        /\ \A v \in active : stamp[v] <= counter

Choosing ==
    loop = "choose" =>
        /\ ~ stable
        /\ bumping = <<>>
        /\ active \ assigned # {}
        /\ cursor \in active
        /\ \A v \in active \ assigned : Key[v] <= Key[cursor]

KeyInv ==
    /\ QueueTypeOK
    /\ Stamped
    /\ SortedList(active, Key, prev, next, first, last)
    /\ SearchCached
    /\ Found
    /\ HeapCovers
    /\ NotRestamping
    /\ Restamping
    /\ Choosing
    /\ bumping # <<>> => ~ stable

LEMMA KeyType == QueueTypeOK => Key \in [Variables -> Nat]
BY QueueAssumption DEF QueueTypeOK, Key

LEMMA KeyedEarlier ==
    QueueTypeOK /\ (\A v \in active \ {entering} : stamp[v] \in 1 .. MaxStamp) =>
        \A u, v \in active : Earlier(u, v) <=> Key[u] < Key[v]
<1> SUFFICES ASSUME QueueTypeOK, \A v \in active \ {entering} : stamp[v] \in 1 .. MaxStamp,
                    NEW u \in active, NEW v \in active
             PROVE  Earlier(u, v) <=> Key[u] < Key[v]
  OBVIOUS
<1> USE QueueAssumption DEF QueueTypeOK, Key, Earlier
<1>1. CASE u = entering BY <1>1
<1>2. CASE u # entering /\ v = entering BY <1>2
<1>3. CASE u # entering /\ v # entering BY <1>3
<1> QED BY <1>1, <1>2, <1>3

\* The two forms of the invariant agree.
LEMMA KeyedInv == QueueInv <=> KeyInv
<1> SUFFICES ASSUME QueueTypeOK,
                    \A v \in active \ {entering} : stamp[v] \in 1 .. MaxStamp
             PROVE  QueueInv <=> KeyInv
  BY DEF QueueInv, KeyInv, Ordered, Stamped
<1> USE QueueAssumption
<1>1. \A u, v \in active : Earlier(u, v) <=> Key[u] < Key[v]
  BY KeyedEarlier
<1>2. Key \in [Variables -> Nat] /\ active \subseteq Variables /\ None \notin active
  BY KeyType DEF QueueTypeOK
<1>3. (\A u, v \in active : u = v \/ Earlier(u, v) \/ Earlier(v, u))
        <=> Injective(active, Key)
  BY <1>1, <1>2 DEF Injective
<1> SUFFICES ASSUME Injective(active, Key) PROVE QueueInv <=> KeyInv
  BY <1>3 DEF QueueInv, KeyInv, Ordered, Stamped
<1>4. \A u, v \in active : (u = v \/ Earlier(u, v)) <=> Key[u] <= Key[v]
  BY <1>1, <1>2 DEF Injective
<1>5. ASSUME NEW q, NEW v \in active
      PROVE  IsPrev(q, v) <=> RightBefore(active, Key, q, v)
  <2>1. CASE q = None BY <1>4, <2>1 DEF IsPrev, RightBefore
  <2>2. CASE q # None /\ q \notin active BY <2>2 DEF IsPrev, RightBefore
  <2>3. CASE q \in active
    <3>1. \A u \in active : u = q \/ u = v \/ Earlier(u, q) \/ Earlier(v, u)
                             <=> Key[u] <= Key[q] \/ Key[v] <= Key[u]
      BY <1>4, <2>3
    <3> QED BY <1>1, <1>2, <2>3, <3>1 DEF IsPrev, RightBefore
  <2> QED BY <2>1, <2>2, <2>3
<1>6. ASSUME NEW q, NEW v \in active
      PROVE  IsNext(q, v) <=> RightAfter(active, Key, q, v)
  BY <1>4, <1>5 DEF IsNext, RightAfter
<1>7. ListSorted <=> SortedList(active, Key, prev, next, first, last)
  <2>1. (first \in active /\ IsPrev(None, first))
          <=> (first \in active /\ \A u \in active : Key[first] <= Key[u])
    BY <1>5 DEF RightBefore
  <2>2. (last \in active /\ IsNext(None, last))
          <=> (last \in active /\ \A u \in active : Key[u] <= Key[last])
    BY <1>6 DEF RightAfter
  <2> QED BY <1>5, <1>6, <2>1, <2>2 DEF ListSorted, SortedList
<1>8. RestampInv <=> NotRestamping /\ Restamping
  <2>1. CASE cursor \in active \cup {None}
    <3>1. Visited = KeyVisited
      BY <1>1, <2>1 DEF Visited, KeyVisited
    <3> QED BY <3>1 DEF RestampInv, NotRestamping, Restamping
  <2>2. CASE cursor \notin active \cup {None}
    BY <2>2 DEF RestampInv, NotRestamping, Restamping
  <2> QED BY <2>1, <2>2
<1>9. ChooseInv <=> Choosing
  <2>1. cursor \in active =>
          ((\A v \in active \ assigned : v = cursor \/ Earlier(v, cursor))
            <=> \A v \in active \ assigned : Key[v] <= Key[cursor])
    BY <1>4
  <2> QED BY <2>1 DEF ChooseInv, Choosing
<1>10. SearchCached /\ Restamping => (AssignedBehindSearch <=> Found)
  <2> SUFFICES ASSUME SearchCached, Restamping PROVE AssignedBehindSearch <=> Found
    OBVIOUS
  <2>1. ASSUME NEW v \in active \ assigned
        PROVE  (v = entering \/ v = search.idx \/ Earlier(v, search.idx))
                 <=> (v = entering \/ (search.idx \in active /\ Key[v] <= Key[search.idx]))
    <3> DEFINE x == search.idx
    <3>0. v \in active OBVIOUS
    <3>1. CASE x \in active
      <4> HIDE DEF x
      <4>1. (v = x \/ Earlier(v, x)) <=> Key[v] <= Key[x] BY <1>4, <3>0, <3>1
      <4> QED BY <3>1, <4>1 DEF x
    <3>2. CASE x \notin active
      <4>1. active # {} /\ loop = "restamp"
        BY <3>0, <3>2 DEF SearchCached
      <4>2. active = {entering}
        BY <3>2, <4>1 DEF Restamping
      <4> QED BY <3>0, <4>2
    <3> QED BY <3>1, <3>2
  <2> QED BY <2>1 DEF AssignedBehindSearch, Found
<1>11. Ordered <=> Stamped
  BY <1>3 DEF Ordered, Stamped
<1> HIDE QueueAssumption
<1> QED BY <1>7, <1>8, <1>9, <1>10, <1>11 DEF QueueInv, KeyInv

-----------------------------------------------------------------------------
\* The keys change with the stamps only.
LEMMA KeyKept == UNCHANGED <<stamp, entering>> => Key' = Key
BY DEF Key

LEMMA InitKeyed == QueueInit => KeyInv
<1> SUFFICES ASSUME QueueInit PROVE KeyInv OBVIOUS
<1> USE QueueAssumption DEF QueueInit
<1>1. QueueTypeOK
  <2>1. search \in [idx : Maybe, stamp : Nat] BY DEF Maybe
  <2>2. counter \in 0 .. MaxStamp /\ bumping \in Seq(Variables) OBVIOUS
  <2>3. prev \in [Variables -> Maybe] /\ next \in [Variables -> Maybe]
        /\ stamp \in [Variables -> Nat]
    BY DEF Maybe
  <2> QED BY <2>1, <2>2, <2>3 DEF QueueTypeOK, Maybe
<1>2. Stamped /\ SortedList(active, Key, prev, next, first, last)
  BY DEF Stamped, SortedList, Injective
<1> QED BY <1>1, <1>2 DEF KeyInv, SearchCached, Found, HeapCovers, NotRestamping,
                          Restamping, Choosing

\* Steps that leave the list alone.
LEMMA AssignKeeps ==
    ASSUME KeyInv, NEW v \in Variables, Assign(v)
    PROVE  KeyInv'
<1> USE DEF Assign, Calm, linkVars, loopVars
<1>1. Key' = Key BY KeyKept
<1>2. QueueTypeOK' BY DEF KeyInv, QueueTypeOK
<1>3. Stamped' BY <1>1 DEF KeyInv, Stamped, Injective
<1>4. SortedList(active, Key, prev, next, first, last)'
  BY <1>1 DEF KeyInv, SortedList, RightBefore, RightAfter
<1>5. Found' BY <1>1 DEF KeyInv, Found
<1>6. HeapCovers' BY DEF KeyInv, HeapCovers
<1> QED BY <1>2, <1>3, <1>4, <1>5, <1>6
        DEF KeyInv, SearchCached, NotRestamping, Restamping, Choosing

LEMMA UnassignKeeps ==
    ASSUME KeyInv, NEW v \in Variables, Unassign(v)
    PROVE  KeyInv'
<1> USE DEF Unassign, Calm, linkVars, loopVars
<1>1. Key' = Key BY KeyKept
<1>2. QueueTypeOK' BY DEF KeyInv, QueueTypeOK, SearchAt, Maybe
<1>3. Stamped' BY <1>1 DEF KeyInv, Stamped, Injective
<1>4. SortedList(active, Key, prev, next, first, last)'
  BY <1>1 DEF KeyInv, SortedList, RightBefore, RightAfter
<1>5. HeapCovers' BY DEF KeyInv, HeapCovers
<1>6. entering = None /\ \A u \in active : Key[u] = stamp[u] /\ stamp[u] \in Nat
  BY QueueAssumption DEF KeyInv, NotRestamping, Key, QueueTypeOK
<1>7. search.idx \in active /\ search.stamp = stamp[search.idx]
  BY DEF KeyInv, SearchCached
<1>8. SearchCached'
  BY <1>7 DEF SearchCached, SearchAt
<1>9. Found'
  <2> SUFFICES ASSUME ~ stable, NEW u \in active \ assigned'
               PROVE  search'.idx \in active /\ Key[u] <= Key[search'.idx]
    BY <1>1, <1>6 DEF Found
  <2>1. u = v \/ Key[u] <= Key[search.idx]
    BY <1>6, QueueAssumption DEF KeyInv, Found, QueueTypeOK
  <2>2. CASE stamp[v] > search.stamp
    <3>1. search'.idx = v BY <2>2 DEF SearchAt
    <3> QED BY <1>6, <1>7, <2>1, <2>2, <3>1
  <2>3. CASE ~ (stamp[v] > search.stamp)
    <3>1. search' = search BY <2>3
    <3> QED BY <1>6, <1>7, <2>1, <2>3, <3>1
  <2> QED BY <2>2, <2>3
<1> QED BY <1>2, <1>3, <1>4, <1>5, <1>8, <1>9
        DEF KeyInv, NotRestamping, Restamping, Choosing

LEMMA BumpKeeps ==
    ASSUME KeyInv, NEW s \in Seq(Variables),
           BumpAnalyzed(s) \/ ReorderFocused(s)
    PROVE  KeyInv'
<1> USE DEF BumpAnalyzed, ReorderFocused, Calm, linkVars, stateVars, loopVars
<1>1. Key' = Key BY KeyKept
<1>2. QueueTypeOK' BY DEF KeyInv, QueueTypeOK
<1>3. Stamped' BY <1>1 DEF KeyInv, Stamped, Injective
<1>4. SortedList(active, Key, prev, next, first, last)'
  BY <1>1 DEF KeyInv, SortedList, RightBefore, RightAfter
<1>5. Found' BY <1>1 DEF KeyInv, Found
<1> QED BY <1>2, <1>3, <1>4, <1>5
        DEF KeyInv, SearchCached, HeapCovers, NotRestamping, Restamping, Choosing

LEMMA PopKeeps ==
    ASSUME KeyInv, PopAssigned
    PROVE  KeyInv'
<1> USE DEF PopAssigned, Calm, linkVars, loopVars
<1>1. Key' = Key BY KeyKept
<1>2. QueueTypeOK' BY DEF KeyInv, QueueTypeOK
<1>3. Stamped' BY <1>1 DEF KeyInv, Stamped, Injective
<1>4. SortedList(active, Key, prev, next, first, last)'
  BY <1>1 DEF KeyInv, SortedList, RightBefore, RightAfter
<1>5. Found' BY <1>1 DEF KeyInv, Found
<1>6. HeapCovers' BY DEF KeyInv, HeapCovers
<1> QED BY <1>2, <1>3, <1>4, <1>5, <1>6
        DEF KeyInv, SearchCached, NotRestamping, Restamping, Choosing

LEMMA SwitchKeeps ==
    ASSUME KeyInv, SwitchToStable \/ SwitchToFocused
    PROVE  KeyInv'
<1> USE DEF SwitchToStable, SwitchToFocused, Calm, linkVars, loopVars
<1>1. Key' = Key BY KeyKept
<1>0. active # {} /\ last \in active /\ \A u \in active : Key[u] <= Key[last]
  BY DEF KeyInv, SortedList
<1>2. QueueTypeOK'
  <2>1. SearchAt(last) \in [idx : Maybe, stamp : Nat]
    BY <1>0 DEF KeyInv, QueueTypeOK, SearchAt
  <2> QED BY <2>1 DEF KeyInv, QueueTypeOK
<1>3. Stamped' BY <1>1 DEF KeyInv, Stamped, Injective
<1>4. SortedList(active, Key, prev, next, first, last)'
  BY <1>1 DEF KeyInv, SortedList, RightBefore, RightAfter
<1>5. Found' BY <1>0, <1>1 DEF KeyInv, Found, SearchAt
<1>6. HeapCovers' BY DEF KeyInv, HeapCovers
<1>7. SearchCached' BY <1>0 DEF KeyInv, SearchCached, SearchAt
<1> QED BY <1>2, <1>3, <1>4, <1>5, <1>6, <1>7
        DEF KeyInv, NotRestamping, Restamping, Choosing

\* The search for a decision: all unassigned variables are at or before the
\* cursor, and there is one.
LEMMA ChooseKeeps ==
    ASSUME KeyInv, ChooseStart \/ ChooseStep \/ ChooseDone
    PROVE  KeyInv'
<1> USE DEF linkVars, stateVars
<1>1. UNCHANGED <<prev, next, stamp, first, last, counter, active, retired, assigned,
                  stable, heap, bumping, entering>>
  BY DEF ChooseStart, ChooseStep, ChooseDone
<1>2. Key' = Key BY <1>1, KeyKept
<1>3. Stamped' BY <1>1, <1>2 DEF KeyInv, Stamped, Injective
<1>4. SortedList(active, Key, prev, next, first, last)'
  BY <1>1, <1>2 DEF KeyInv, SortedList, RightBefore, RightAfter
<1>5. HeapCovers' BY <1>1 DEF KeyInv, HeapCovers
<1>6. /\ loop # "restamp" /\ loop' # "restamp" /\ bumping = <<>> /\ ~ stable
      /\ entering = None /\ active \ assigned # {}
  BY DEF KeyInv, NotRestamping, Choosing, ChooseStart, ChooseStep, ChooseDone, Calm
<1>7. search.idx \in active /\ search.stamp = stamp[search.idx]
  BY <1>6 DEF KeyInv, SearchCached
<1>8. Key \in [Variables -> Nat] /\ active \subseteq Variables /\ None \notin active
  BY QueueAssumption, KeyType DEF KeyInv, QueueTypeOK
<1>9. NotRestamping' /\ Restamping'
  BY <1>1, <1>6 DEF KeyInv, NotRestamping, Restamping
\* Stepping back from an assigned variable that no unassigned one is after.
<1>10. ASSUME NEW c \in active \cap assigned,
              \A v \in active \ assigned : Key[v] <= Key[c]
       PROVE  prev[c] \in active /\ \A v \in active \ assigned : Key[v] <= Key[prev[c]]
  <2>1. RightBefore(active, Key, prev[c], c) /\ Injective(active, Key)
    BY DEF KeyInv, SortedList, Stamped
  <2>2. \A v \in active \ assigned : Key[v] < Key[c]
    BY <1>8, <1>10, <2>1 DEF Injective
  <2>3. prev[c] # None
    BY <1>6, <1>8, <2>1, <2>2 DEF RightBefore
  <2> QED BY <1>8, <2>1, <2>2, <2>3 DEF RightBefore
<1>11. \A v \in active \ assigned : Key[v] <= Key[search.idx]
  BY <1>6, <1>8, QueueAssumption DEF KeyInv, Found
<1>12. CASE ChooseStart
  <2>1. CASE search.idx \notin assigned
    <3>1. answer' \in Variables /\ UNCHANGED <<search, loop, cursor>>
      BY <1>7, <1>8, <1>12, <2>1 DEF ChooseStart
    <3>2. QueueTypeOK' BY <1>1, <3>1 DEF KeyInv, QueueTypeOK
    <3> QED BY <1>1, <1>2, <1>3, <1>4, <1>5, <1>6, <1>9, <3>1, <3>2
            DEF KeyInv, SearchCached, Found, Choosing
  <2>2. CASE search.idx \in assigned
    <3>1. /\ UNCHANGED <<search, answer>> /\ loop' = "choose"
          /\ cursor' = prev[search.idx] /\ cursor' \in active
          /\ \A v \in active \ assigned : Key[v] <= Key[cursor']
      BY <1>7, <1>10, <1>11, <1>12, <2>2 DEF ChooseStart
    <3>2. QueueTypeOK' BY <1>1, <3>1 DEF KeyInv, QueueTypeOK, Maybe
    <3> QED BY <1>1, <1>2, <1>3, <1>4, <1>5, <1>6, <1>9, <3>1, <3>2
            DEF KeyInv, SearchCached, Found, Choosing
  <2> QED BY <2>1, <2>2
<1>13. CASE ChooseStep
  <2>1. cursor \in active \cap assigned /\ \A v \in active \ assigned : Key[v] <= Key[cursor]
    BY <1>13 DEF KeyInv, Choosing, ChooseStep
  <2>2. /\ UNCHANGED <<search, answer>> /\ loop' = "choose"
        /\ cursor' = prev[cursor] /\ cursor' \in active
        /\ \A v \in active \ assigned : Key[v] <= Key[cursor']
    BY <1>10, <1>13, <2>1 DEF ChooseStep
  <2>3. QueueTypeOK' BY <1>1, <2>2 DEF KeyInv, QueueTypeOK, Maybe
  <2> QED BY <1>1, <1>2, <1>3, <1>4, <1>5, <1>6, <1>9, <2>2, <2>3
          DEF KeyInv, SearchCached, Found, Choosing
<1>14. CASE ChooseDone
  <2>1. cursor \in active /\ \A v \in active \ assigned : Key[v] <= Key[cursor]
    BY <1>14 DEF KeyInv, Choosing, ChooseDone
  <2>2. /\ answer' = cursor /\ cursor' = None /\ loop' = "none"
        /\ search'.idx = cursor /\ search'.stamp = stamp[cursor]
        /\ search' \in [idx : Maybe, stamp : Nat]
    BY <1>14, <2>1 DEF KeyInv, QueueTypeOK, ChooseDone, SearchAt, Maybe
  <2>3. QueueTypeOK' BY <1>1, <1>8, <2>1, <2>2 DEF KeyInv, QueueTypeOK, Maybe
  <2> QED BY <1>1, <1>2, <1>3, <1>4, <1>5, <1>6, <1>9, <2>1, <2>2, <2>3
          DEF KeyInv, SearchCached, Found, Choosing
<1> QED BY <1>12, <1>13, <1>14

\* A variable that is fixed or eliminated leaves the queue.
LEMMA DeactivateKeeps ==
    ASSUME KeyInv, NEW v \in Variables, Fix(v) \/ Eliminate(v)
    PROVE  KeyInv'
<1> USE DEF linkVars, loopVars, Calm
<1>1. /\ Deactivate(v) /\ v \in active /\ loop = "none" /\ bumping = <<>>
      /\ UNCHANGED <<stable, bumping, loop, cursor, entering, answer>>
      /\ assigned' \in {assigned, assigned \cup {v}}
  BY DEF Fix, Eliminate
<1>2. Key' = Key BY <1>1, KeyKept DEF Deactivate
<1>3. active' = active \ {v} /\ retired' = retired \cup {v} /\ heap' = heap \ {v}
      /\ UNCHANGED <<stamp, counter>>
  BY <1>1 DEF Deactivate
<1>4. Stamped' BY <1>1, <1>2, <1>3 DEF KeyInv, Stamped, Injective
<1>5. Key \in [Variables -> Nat] /\ active \subseteq Variables /\ None \notin active
      /\ Injective(active, Key) /\ SortedList(active, Key, prev, next, first, last)
  BY QueueAssumption, KeyType DEF KeyInv, QueueTypeOK, Stamped
<1>6. /\ SortedList(active', Key', prev', next', first', last')
      /\ prev' \in [Variables -> Maybe] /\ next' \in [Variables -> Maybe]
      /\ first' \in Maybe /\ last' \in Maybe
  <2>1. /\ prev' = Linked([prev EXCEPT ![v] = None], next[v], prev[v])
        /\ next' = Linked([next EXCEPT ![v] = None], prev[v], next[v])
        /\ first' = IF prev[v] = None THEN next[v] ELSE first
        /\ last' = IF next[v] = None THEN prev[v] ELSE last
    BY <1>1 DEF Deactivate, PrevWithout, NextWithout, FirstWithout, LastWithout
  <2>2. /\ prev \in [Variables -> Maybe] /\ next \in [Variables -> Maybe]
        /\ first \in Maybe /\ last \in Maybe
    BY DEF KeyInv, QueueTypeOK
  <2>3. /\ SortedList(active \ {v}, Key, prev', next', first', last')
        /\ prev' \in [Variables -> Maybe] /\ next' \in [Variables -> Maybe]
        /\ first' \in Maybe /\ last' \in Maybe
    BY <1>1, <1>5, <2>1, <2>2, SortedWithout
  <2> QED BY <1>2, <1>3, <2>3
<1>7. HeapCovers' BY <1>1, <1>3 DEF KeyInv, HeapCovers
<1>8. /\ RightBefore(active, Key, prev[v], v) /\ RightAfter(active, Key, next[v], v)
      /\ search.idx \in active /\ search.stamp = stamp[search.idx]
  BY <1>1, <1>5 DEF KeyInv, SortedList, SearchCached
<1>9. entering = None /\ \A u \in active \ assigned : ~ stable => Key[u] <= Key[search.idx]
  BY <1>1, <1>5, QueueAssumption DEF KeyInv, Found, NotRestamping
<1>10. /\ search' \in [idx : Maybe, stamp : Nat]
       /\ active' = {} => search'.idx = None
       /\ active' # {} => /\ search'.idx \in active' /\ search'.stamp = stamp[search'.idx]
                          /\ \A u \in active' \ assigned' : ~ stable => Key[u] <= Key[search'.idx]
  <2> USE <1>1 DEF Deactivate, SearchWithout, SearchAt
  <2>1. CASE search.idx # v
    <3>1. search' = search BY <2>1
    <3> QED BY <1>3, <1>8, <1>9, <2>1, <3>1 DEF KeyInv, QueueTypeOK
  <2>2. CASE search.idx = v /\ next[v] # None
    <3>1. next[v] \in active /\ Key[v] < Key[next[v]]
      BY <1>1, <1>5, <1>8, <2>2 DEF RightAfter, RightBefore
    <3>2. search'.idx = next[v] /\ search'.stamp = stamp[next[v]]
          /\ search' \in [idx : Maybe, stamp : Nat]
      BY <2>2, <3>1 DEF KeyInv, QueueTypeOK, Maybe
    <3> QED BY <1>3, <1>5, <1>9, <2>2, <3>1, <3>2
  <2>3. CASE search.idx = v /\ next[v] = None /\ prev[v] # None
    <3>1. prev[v] \in active /\ Key[prev[v]] < Key[v]
          /\ \A u \in active : u = v \/ Key[u] <= Key[prev[v]]
      BY <1>5, <1>8, <2>3 DEF RightAfter, RightBefore, Injective
    <3>2. search'.idx = prev[v] /\ search'.stamp = stamp[prev[v]]
          /\ search' \in [idx : Maybe, stamp : Nat]
      BY <2>3, <3>1 DEF KeyInv, QueueTypeOK, Maybe
    <3> QED BY <1>3, <1>5, <1>9, <2>3, <3>1, <3>2
  <2>4. CASE search.idx = v /\ next[v] = None /\ prev[v] = None
    <3>1. active = {v}
      BY <1>5, <1>8, <2>4 DEF RightAfter, RightBefore, Injective
    <3>2. search' = [idx |-> None, stamp |-> 0] BY <2>4
    <3> QED BY <1>3, <3>1, <3>2 DEF Maybe
  <2> QED BY <2>1, <2>2, <2>3, <2>4
<1>11. QueueTypeOK' BY <1>1, <1>3, <1>6, <1>10 DEF KeyInv, QueueTypeOK
<1>12. SearchCached' /\ Found'
  BY <1>1, <1>2, <1>3, <1>10 DEF SearchCached, Found
<1> QED BY <1>1, <1>3, <1>4, <1>6, <1>7, <1>11, <1>12
        DEF KeyInv, NotRestamping, Restamping, Choosing

\* A variable that is not on the list is enqueued; found is where the search
\* pointer was moved before.
LEMMA EnqueueKeeps ==
    ASSUME KeyInv, loop = "none",
           NEW S \in SUBSET Variables, NEW v \in Variables \ S, S \subseteq active,
           NEW p \in [Variables -> Maybe], NEW n \in [Variables -> Maybe],
           NEW f \in Maybe, NEW l \in Maybe, SortedList(S, Key, p, n, f, l),
           NEW found \in [idx : Maybe, stamp : Nat],
           EnqueueLinks(v, p, n, f, l, found),
           found.idx \in S => found.stamp = stamp[found.idx],
           found.idx \notin S => v \notin assigned,
           found.idx = None => S = {},
           found.idx \in S \cup {v, None},
           ~ stable => \A u \in S \ assigned :
               found.idx = v \/ (found.idx \in S /\ Key[u] <= Key[found.idx]),
           active' = S \cup {v}, active' \subseteq active \cup {v},
           retired' = retired, active \cup retired \subseteq active' \cup retired,
           assigned' = assigned, stable' = stable,
           heap' \in SUBSET Variables, HeapCovers',
           bumping' \in Seq(Variables), bumping' # <<>> => ~ stable, answer' = answer
    PROVE  KeyInv'
<1> DEFINE T == S \cup {v}
<1>1. /\ entering = None /\ \A u \in active : stamp[u] \in 1 .. MaxStamp /\ stamp[u] <= counter
      /\ v # None /\ None \notin S /\ Key \in [Variables -> Nat]
      /\ counter \in 0 .. MaxStamp /\ MaxStamp \in Nat
  BY QueueAssumption, KeyType DEF KeyInv, Stamped, NotRestamping, QueueTypeOK
<1>2. \A u \in Variables : Key[u] = stamp[u] /\ stamp[u] \in Nat
  BY <1>1, QueueAssumption DEF Key, KeyInv, QueueTypeOK
<1>3. Injective(S, Key)
  BY DEF KeyInv, Stamped, Injective
<1>4. QueueTypeOK' /\ Key' \in [Variables -> Nat]
  <2>1. /\ prev' \in [Variables -> Maybe] /\ next' \in [Variables -> Maybe]
        /\ first' \in Maybe /\ last' \in Maybe
    BY <1>1 DEF EnqueueLinks, Linked, Maybe
  <2>2. /\ stamp' \in [Variables -> Nat] /\ counter' \in 0 .. MaxStamp
        /\ search' \in [idx : Maybe, stamp : Nat]
    <3>1. stamp \in [Variables -> Nat] BY DEF KeyInv, QueueTypeOK
    <3>2. CASE counter < MaxStamp
      <4>1. /\ counter' = counter + 1 /\ stamp' = [stamp EXCEPT ![v] = counter + 1]
            /\ search' = IF v \in assigned THEN found ELSE [idx |-> v, stamp |-> counter + 1]
        BY <1>1, <3>2 DEF EnqueueLinks
      <4>2. counter + 1 \in Nat /\ v \in Maybe BY <1>1 DEF Maybe
      <4>3. [idx |-> v, stamp |-> counter + 1] \in [idx : Maybe, stamp : Nat]
        BY <4>2
      <4> QED BY <1>1, <3>1, <3>2, <4>1, <4>2, <4>3
    <3>3. CASE counter = MaxStamp
      BY <1>1, <3>1, <3>3 DEF EnqueueLinks
    <3> QED BY <1>1, <3>2, <3>3
  <2>3. loop' \in {"none", "choose", "restamp"} /\ cursor' \in Maybe /\ entering' \in Maybe
    BY <2>1 DEF EnqueueLinks, Maybe, KeyInv, QueueTypeOK, loopVars
  <2>4. QueueTypeOK'
    BY <2>1, <2>2, <2>3 DEF KeyInv, QueueTypeOK
  <2>5. QueueTypeOK' => Key' \in [Variables -> Nat]
    BY QueueAssumption DEF QueueTypeOK, Key
  <2> QED BY <2>4, <2>5
<1>5. CASE counter < MaxStamp
  <2>1. /\ counter' = counter + 1 /\ stamp' = [stamp EXCEPT ![v] = counter + 1]
        /\ search' = IF v \in assigned THEN found ELSE [idx |-> v, stamp |-> counter + 1]
        /\ loop' = loop /\ cursor' = cursor /\ entering' = entering
    BY <1>1, <1>5 DEF EnqueueLinks, loopVars
  <2>2. /\ \A u \in S : stamp'[u] = stamp[u] /\ u # v /\ u \in Variables
        /\ stamp'[v] = counter + 1
    BY <2>1, <1>1 DEF KeyInv, QueueTypeOK
  <2>3. \A u \in S : Key'[u] = Key[u] /\ Key'[u] < Key'[v]
    BY <1>1, <1>2, <2>1, <2>2 DEF Key
  <2>4. Stamped'
    <3>1. Injective(T, Key')
      BY <1>2, <1>3, <2>2, <2>3 DEF Injective
    <3>2. \A u \in T : stamp'[u] \in 1 .. MaxStamp
      <4>1. \A u \in S : stamp'[u] \in 1 .. MaxStamp BY <1>1, <2>2
      <4>2. stamp'[v] \in 1 .. MaxStamp BY <1>1, <1>5, <2>2
      <4> QED BY <4>1, <4>2
    <3> QED BY <3>1, <3>2 DEF KeyInv, Stamped
  <2>5. SortedList(active', Key', prev', next', first', last')
    <3>1. SortedList(S \cup {v}, Key', [p EXCEPT ![v] = l],
                     Linked([n EXCEPT ![v] = None], l, v), IF l = None THEN v ELSE f, v)
      BY <1>1, <1>3, <1>4, <2>3, SortedAppend
    <3> QED BY <3>1 DEF EnqueueLinks
  <2>6. SearchCached' /\ Found'
    <3>1. CASE v \in assigned
      <4>1. search' = found /\ found.idx \in S BY <2>1, <3>1
      <4> QED BY <1>1, <2>1, <2>2, <2>3, <3>1, <4>1 DEF SearchCached, Found
    <3>2. CASE v \notin assigned
      <4>1. search'.idx = v /\ search'.stamp = counter + 1 BY <2>1, <3>2
      <4>2. \A u \in T : Key'[u] <= Key'[v]
        BY <1>4, <2>3
      <4> QED BY <2>1, <2>2, <4>1, <4>2 DEF SearchCached, Found
    <3> QED BY <3>1, <3>2
  <2>7. NotRestamping' /\ Restamping' /\ Choosing'
    BY <1>1, <2>1, <2>2 DEF NotRestamping, Restamping, Choosing
  <2> QED BY <1>4, <2>4, <2>5, <2>6, <2>7 DEF KeyInv
<1>6. CASE counter = MaxStamp
  <2>1. /\ counter' = 0 /\ stamp' = stamp /\ search' = found
        /\ loop' = "restamp" /\ cursor' = first' /\ entering' = v
    BY <1>1, <1>6 DEF EnqueueLinks
  <2>2. /\ \A u \in S : u # v /\ u \in Variables /\ Key'[u] = Key[u]
        /\ Key'[v] = MaxStamp + 1
    BY <1>2, <2>1 DEF Key
  <2>3. \A u \in S : Key'[u] = Key[u] /\ Key'[u] < Key'[v]
    BY <1>1, <1>2, <2>1, <2>2, SMTT(30)
  <2>4. Stamped'
    <3>1. Injective(T, Key')
      BY <1>2, <1>3, <2>2, <2>3 DEF Injective
    <3>2. \A u \in T \ {v} : stamp'[u] \in 1 .. MaxStamp
      BY <1>1, <2>1
    <3> QED BY <2>1, <3>1, <3>2 DEF KeyInv, Stamped
  <2>5. SortedList(active', Key', prev', next', first', last')
    <3>1. SortedList(S \cup {v}, Key', [p EXCEPT ![v] = l],
                     Linked([n EXCEPT ![v] = None], l, v), IF l = None THEN v ELSE f, v)
      BY <1>1, <1>3, <1>4, <2>3, SortedAppend
    <3> QED BY <3>1 DEF EnqueueLinks
  <2>6. SearchCached' BY <2>1 DEF SearchCached
  <2>7. Found'
    BY <1>4, <2>1, <2>2, <2>3 DEF Found
  <2>8. first' \in T /\ \A u \in T : Key'[first'] <= Key'[u]
    BY <2>5 DEF SortedList
  <2>9. KeyVisited' = {}
    BY <1>1, <1>4, <2>1, <2>8 DEF KeyVisited
  <2>10. last' = v BY DEF EnqueueLinks
  <2>11. Restamping'
    <3>1. Cardinality(KeyVisited') = 0 BY <2>9, FS_EmptySet
    <3>2. \A u \in T \ {v} : u \notin KeyVisited' /\ stamp'[u] > 0
      BY <1>1, <2>1, <2>9
    <3>3. cursor' \in T /\ cursor' # None
      BY <1>1, <2>1, <2>8
    <3> QED BY <1>1, <2>1, <2>9, <2>10, <3>1, <3>2, <3>3 DEF Restamping
  <2>12. NotRestamping' /\ Choosing'
    BY <2>1 DEF NotRestamping, Choosing
  <2> QED BY <1>4, <2>4, <2>5, <2>6, <2>7, <2>11, <2>12 DEF KeyInv
<1> QED BY <1>1, <1>5, <1>6

LEMMA ActivateKeeps ==
    ASSUME KeyInv, NEW v \in Variables, Activate(v)
    PROVE  KeyInv'
<1>1. /\ loop = "none" /\ bumping = <<>> /\ v \notin active \cup retired
      /\ active' = active \cup {v} /\ heap' = IF stable THEN heap \cup {v} ELSE heap
      /\ EnqueueLinks(v, prev, next, first, last, search)
      /\ UNCHANGED <<retired, assigned, stable, bumping, answer>>
  BY DEF Activate, Calm
<1>2. v \notin assigned
  BY <1>1 DEF KeyInv, Stamped
<1>3. /\ active = {} => search.idx = None
      /\ active # {} => search.idx \in active /\ search.stamp = stamp[search.idx]
  BY <1>1 DEF KeyInv, SearchCached
<1>4. heap' \in SUBSET Variables /\ HeapCovers'
  BY <1>1 DEF KeyInv, QueueTypeOK, HeapCovers
<1>5. ~ stable => \A u \in active \ assigned :
        search.idx = v \/ (search.idx \in active /\ Key[u] <= Key[search.idx])
  BY <1>1, QueueAssumption DEF KeyInv, Found, NotRestamping, QueueTypeOK
<1>6. /\ active \in SUBSET Variables /\ search \in [idx : Maybe, stamp : Nat]
      /\ prev \in [Variables -> Maybe] /\ next \in [Variables -> Maybe]
      /\ first \in Maybe /\ last \in Maybe /\ bumping \in Seq(Variables)
      /\ None \notin active
  BY QueueAssumption DEF KeyInv, QueueTypeOK
<1>7. SortedList(active, Key, prev, next, first, last) BY DEF KeyInv
<1>8. v \in Variables \ active BY <1>1
<1> DEFINE S == active
<1>9. /\ search.idx \in S => search.stamp = stamp[search.idx]
      /\ search.idx \notin S => v \notin assigned
      /\ search.idx = None => S = {}
      /\ search.idx \in S \cup {v, None}
  BY <1>2, <1>3, <1>6
<1> QED BY <1>1, <1>4, <1>5, <1>6, <1>7, <1>8, <1>9, EnqueueKeeps

LEMMA MoveKeeps ==
    ASSUME KeyInv, MoveToFront
    PROVE  KeyInv'
<1> DEFINE v == Head(bumping)
<1>1. /\ loop = "none" /\ v \in Variables /\ bumping' \in Seq(Variables)
      /\ ~ stable /\ UNCHANGED <<active, retired, assigned, stable, heap, answer>>
  BY DEF MoveToFront, KeyInv, QueueTypeOK, stateVars
<1>2. /\ active \subseteq Variables /\ None \notin active /\ Key \in [Variables -> Nat]
      /\ Injective(active, Key) /\ SortedList(active, Key, prev, next, first, last)
      /\ prev \in [Variables -> Maybe] /\ next \in [Variables -> Maybe]
      /\ first \in Maybe /\ last \in Maybe /\ search \in [idx : Maybe, stamp : Nat]
      /\ stamp \in [Variables -> Nat] /\ heap \subseteq Variables
  BY QueueAssumption, KeyType DEF KeyInv, QueueTypeOK, Stamped
<1>3. CASE v \notin active \/ v = last
  <2>1. UNCHANGED <<prev, next, stamp, first, last, counter, search, loop, cursor, entering>>
    BY <1>3 DEF MoveToFront, linkVars, loopVars
  <2>2. Key' = Key BY <2>1, KeyKept
  <2>3. QueueTypeOK' BY <1>1, <2>1 DEF KeyInv, QueueTypeOK
  <2>4. Stamped' BY <1>1, <2>1, <2>2 DEF KeyInv, Stamped, Injective
  <2>5. SortedList(active, Key, prev, next, first, last)'
    BY <1>1, <1>2, <2>1, <2>2 DEF SortedList, RightBefore, RightAfter
  <2>6. Found' BY <1>1, <2>1, <2>2 DEF KeyInv, Found
  <2> QED BY <1>1, <2>1, <2>3, <2>4, <2>5, <2>6
          DEF KeyInv, SearchCached, HeapCovers, NotRestamping, Restamping, Choosing
<1>4. CASE v \in active /\ v # last
  <2> DEFINE S == active \ {v}
             p == Linked([prev EXCEPT ![v] = None], next[v], prev[v])
             n == Linked([next EXCEPT ![v] = None], prev[v], next[v])
             f == IF prev[v] = None THEN next[v] ELSE first
             l == IF next[v] = None THEN prev[v] ELSE last
  <2>1. EnqueueLinks(v, p, n, f, l, FoundWithout(v))
    BY <1>4 DEF MoveToFront, PrevWithout, NextWithout, FirstWithout, LastWithout
  <2>2. /\ SortedList(S, Key, p, n, f, l)
        /\ p \in [Variables -> Maybe] /\ n \in [Variables -> Maybe]
        /\ f \in Maybe /\ l \in Maybe
    BY <1>2, <1>4, SortedWithout
  <2>3. /\ RightBefore(active, Key, prev[v], v) /\ RightAfter(active, Key, next[v], v)
        /\ last \in active /\ \A u \in active : Key[u] <= Key[last]
    BY <1>2, <1>4 DEF SortedList
  <2>4. search.idx \in active /\ search.stamp = stamp[search.idx]
    BY <1>1, <1>4 DEF KeyInv, SearchCached
  <2>5. \A u \in active \ assigned : Key[u] <= Key[search.idx]
    BY <1>1, <1>2, QueueAssumption DEF KeyInv, Found, NotRestamping
  <2>8. /\ S \in SUBSET Variables /\ v \in Variables \ S /\ S \subseteq active
        /\ active' = S \cup {v} /\ active' \subseteq active \cup {v}
        /\ retired' = retired /\ active \cup retired \subseteq active' \cup retired
        /\ assigned' = assigned /\ stable' = stable /\ None \notin S
        /\ heap' \in SUBSET Variables /\ HeapCovers'
        /\ bumping' \in Seq(Variables) /\ (bumping' # <<>> => ~ stable) /\ answer' = answer
    BY <1>1, <1>2, <1>4 DEF HeapCovers
  <2>6. CASE v \in assigned /\ search.idx = v
    <3>1. CASE prev[v] # None
      <4>1. prev[v] \in S
        BY <1>2, <2>3, <3>1 DEF RightBefore
      <4>2. \A u \in S \ assigned : Key[u] <= Key[prev[v]]
        BY <1>2, <1>4, <2>3, <2>5, <2>6, <3>1 DEF RightBefore, Injective
      <4>3. FoundWithout(v) \in [idx : Maybe, stamp : Nat]
            /\ FoundWithout(v).idx = prev[v] /\ FoundWithout(v).stamp = stamp[prev[v]]
        BY <1>2, <2>6, <3>1, <4>1 DEF FoundWithout, SearchAt, Maybe
      <4> HIDE DEF v, p, n, f, l, S
      <4>4. /\ FoundWithout(v).idx \in S /\ FoundWithout(v).idx # None
        BY <2>8, <4>1, <4>3
      <4> QED BY <1>1, <2>1, <2>2, <2>8, <4>2, <4>3, <4>4, EnqueueKeeps
    <3>2. CASE prev[v] = None
      <4>1. next[v] \in S
        BY <1>2, <1>4, <2>3, <3>2 DEF RightBefore, RightAfter, Injective
      <4>2. \A u \in S \ assigned : Key[u] <= Key[next[v]]
        BY <1>2, <1>4, <2>3, <2>5, <2>6, <3>2 DEF RightBefore, Injective
      <4>3. FoundWithout(v) \in [idx : Maybe, stamp : Nat]
            /\ FoundWithout(v).idx = next[v] /\ FoundWithout(v).stamp = stamp[next[v]]
        BY <1>2, <2>6, <3>2, <4>1 DEF FoundWithout, SearchAt, Maybe
      <4> HIDE DEF v, p, n, f, l, S
      <4>4. /\ FoundWithout(v).idx \in S /\ FoundWithout(v).idx # None
        BY <2>8, <4>1, <4>3
      <4> QED BY <1>1, <2>1, <2>2, <2>8, <4>2, <4>3, <4>4, EnqueueKeeps
    <3> QED BY <3>1, <3>2
  <2>7. CASE ~ (v \in assigned /\ search.idx = v)
    <3>1. FoundWithout(v) = search BY <2>7 DEF FoundWithout
    <3>2. /\ search.idx \in S \cup {v} /\ search.idx # None
          /\ search.idx \notin S => v \notin assigned
          /\ \A u \in S \ assigned : search.idx = v \/ (search.idx \in S /\ Key[u] <= Key[search.idx])
      BY <1>2, <2>4, <2>5, <2>7
    <3> HIDE DEF v, p, n, f, l, S
    <3> QED BY <1>1, <1>2, <2>1, <2>2, <2>4, <2>8, <3>1, <3>2, EnqueueKeeps
  <2> QED BY <2>6, <2>7
<1> QED BY <1>3, <1>4

\* One variable gets a new stamp, which is not larger than the old one: the
\* order stays.
LEMMA RestampKeeps ==
    ASSUME KeyInv, RestampStep
    PROVE  KeyInv'
<1>1. /\ loop = "restamp" /\ cursor # None /\ counter' = counter + 1
      /\ stamp' = [stamp EXCEPT ![cursor] = counter + 1] /\ cursor' = next[cursor]
      /\ UNCHANGED <<prev, next, first, last, search, active, retired, assigned, stable, heap,
                     bumping, loop, entering, answer>>
  BY DEF RestampStep, stateVars
<1>2. /\ entering \in active /\ entering = last /\ cursor \in active
      /\ counter = Cardinality(KeyVisited)
      /\ \A v \in active \ {entering} : /\ v \in KeyVisited => stamp[v] <= counter
                                        /\ v \notin KeyVisited => stamp[v] > counter
  BY <1>1 DEF KeyInv, Restamping
<1>3. /\ active \subseteq Variables /\ None \notin active /\ Key \in [Variables -> Nat]
      /\ Injective(active, Key) /\ SortedList(active, Key, prev, next, first, last)
      /\ stamp \in [Variables -> Nat] /\ next \in [Variables -> Maybe] /\ MaxStamp \in Nat
      /\ counter \in Nat
      /\ \A v \in active \ {entering} : stamp[v] \in 1 .. MaxStamp
      /\ IsFiniteSet(active) /\ Cardinality(active) < MaxStamp
  <2>1. active \subseteq Variables BY DEF KeyInv, QueueTypeOK
  <2>2. IsFiniteSet(active) /\ Cardinality(active) <= Cardinality(Variables)
        /\ Cardinality(active) \in Nat /\ Cardinality(Variables) \in Nat
    BY <2>1, QueueAssumption, FS_Subset, FS_CardinalityType
  <2> QED BY <2>1, <2>2, QueueAssumption, KeyType, SMTT(30) DEF KeyInv, QueueTypeOK, Stamped
<1>4. KeyVisited = {u \in active : Key[u] < Key[cursor]}
  BY <1>1 DEF KeyVisited
<1>5. IsFiniteSet(KeyVisited \cup {cursor})
      /\ Cardinality(KeyVisited \cup {cursor}) = counter + 1
      /\ counter + 1 <= Cardinality(active)
  <2>1. KeyVisited \subseteq active /\ cursor \notin KeyVisited
    BY <1>2, <1>3, <1>4
  <2>2. IsFiniteSet(KeyVisited) BY <1>3, <2>1, FS_Subset
  <2> QED BY <1>2, <1>3, <2>1, <2>2, FS_AddElement, FS_Subset
<1>6. counter + 1 \in 1 .. MaxStamp /\ counter + 1 < MaxStamp
  <2>1. Cardinality(active) \in Nat BY <1>3, FS_CardinalityType
  <2> QED BY <1>3, <1>5, <2>1
<1>7. /\ \A u \in active : u # cursor => stamp'[u] = stamp[u]
      /\ stamp'[cursor] = counter + 1 /\ stamp' \in [Variables -> Nat]
  BY <1>1, <1>2, <1>3
<1>8. /\ \A u \in active \ {entering} : Key[u] = stamp[u] /\ Key'[u] = stamp'[u]
      /\ Key[entering] = MaxStamp + 1 /\ Key'[entering] = MaxStamp + 1
  BY <1>1, <1>2, <1>3 DEF Key
<1>9. Key' \in [Variables -> Nat]
  BY <1>1, <1>3, <1>7 DEF Key
<1>10. cursor # entering => stamp[cursor] > counter
  BY <1>2, <1>3, <1>4
<1>11. \A u \in active : u # cursor => Key'[u] = Key[u]
  BY <1>7, <1>8
<1>12. cursor = entering => Key'[cursor] = Key[cursor]
  BY <1>8
<1>13. cursor # entering => Key'[cursor] = counter + 1
  BY <1>2, <1>7, <1>8
\* The order stays.
<1>14. \A u, w \in active : Key[u] < Key[w] <=> Key'[u] < Key'[w]
  <2>1. CASE cursor = entering
    BY <1>11, <1>12, <2>1
  <2>2. CASE cursor # entering
    <3>1. ASSUME NEW w \in active, w # cursor
          PROVE  /\ Key[cursor] < Key[w] <=> Key'[cursor] < Key'[w]
                 /\ Key[w] < Key[cursor] <=> Key'[w] < Key'[cursor]
      <4>1. CASE w = entering
        <5>1. Key[w] = MaxStamp + 1 /\ Key'[w] = MaxStamp + 1 BY <1>8, <4>1
        <5>2. Key[cursor] <= MaxStamp /\ Key[cursor] \in Nat
          BY <1>2, <1>3, <1>8, <2>2
        <5> QED BY <1>3, <1>6, <1>13, <2>2, <5>1, <5>2
      <4>2. CASE w # entering /\ w \in KeyVisited
        <5>1. Key[w] < Key[cursor] /\ Key[w] \in Nat /\ Key[cursor] \in Nat
          BY <1>2, <1>3, <1>4, <4>2
        <5>2. Key'[w] <= counter /\ Key'[w] \in Nat
          BY <1>2, <1>3, <1>8, <1>11, <3>1, <4>2
        <5> QED BY <1>3, <1>13, <2>2, <5>1, <5>2
      <4>3. CASE w # entering /\ w \notin KeyVisited
        <5>1. Key[cursor] < Key[w] /\ Key[w] \in Nat /\ Key[cursor] \in Nat
          BY <1>2, <1>3, <1>4, <3>1, <4>3 DEF Injective
        <5>2. Key[cursor] > counter
          BY <1>2, <1>8, <1>10, <2>2
        <5>3. Key'[w] = Key[w] BY <1>11, <3>1
        <5> QED BY <1>3, <1>13, <2>2, <5>1, <5>2, <5>3
      <4> QED BY <4>1, <4>2, <4>3
    <3>2. ASSUME NEW u \in active, NEW w \in active
          PROVE  Key[u] < Key[w] <=> Key'[u] < Key'[w]
      <4>1. CASE u = cursor /\ w # cursor BY <3>1, <4>1
      <4>2. CASE u # cursor /\ w = cursor BY <3>1, <4>2
      <4>3. CASE u = cursor /\ w = cursor BY <1>3, <1>9, <4>3
      <4>4. CASE u # cursor /\ w # cursor BY <1>11, <4>4
      <4> QED BY <4>1, <4>2, <4>3, <4>4
    <3> QED BY <3>2
  <2> QED BY <2>1, <2>2
<1>15. SortedList(active', Key', prev', next', first', last')
  <2>1. SortedList(active, Key', prev, next, first, last)
    BY <1>3, <1>9, <1>14, SortedRekeyed
  <2> QED BY <1>1, <2>1
<1>16. Stamped'
  <2>1. Injective(active, Key')
    BY <1>3, <1>9, <1>14 DEF Injective
  <2>2. \A v \in active \ {entering} : stamp'[v] \in 1 .. MaxStamp
    BY <1>3, <1>6, <1>7
  <2> QED BY <1>1, <2>1, <2>2 DEF KeyInv, Stamped
<1>17. RightAfter(active, Key, next[cursor], cursor)
  BY <1>2, <1>3 DEF SortedList
<1>18. KeyVisited' = KeyVisited \cup {cursor}
  <2>1. CASE next[cursor] = None
    <3>1. \A u \in active : Key[u] <= Key[cursor]
      BY <1>17, <2>1 DEF RightAfter
    <3>2. \A u \in active : u = cursor \/ Key[u] < Key[cursor]
      BY <1>2, <1>3, <3>1 DEF Injective
    <3>3. KeyVisited' = active
      BY <1>1, <2>1 DEF KeyVisited
    <3> QED BY <1>2, <1>4, <3>2, <3>3
  <2>2. CASE next[cursor] # None
    <3> DEFINE n == next[cursor]
    <3>1. /\ n \in active /\ Key[cursor] < Key[n]
          /\ \A u \in active : Key[u] <= Key[cursor] \/ Key[n] <= Key[u]
      BY <1>2, <1>3, <1>17, <2>2 DEF RightAfter, RightBefore
    <3>2. KeyVisited' = {u \in active : Key'[u] < Key'[n]}
      BY <1>1, <2>2 DEF KeyVisited
    <3> HIDE DEF n
    <3>3. \A u \in active : Key'[u] < Key'[n] <=> Key[u] < Key[n]
      BY <1>14, <3>1
    <3>4. \A u \in active : Key[u] < Key[n] <=> u = cursor \/ Key[u] < Key[cursor]
      BY <1>2, <1>3, <3>1 DEF Injective
    <3> QED BY <1>2, <1>4, <3>2, <3>3, <3>4
  <2> QED BY <2>1, <2>2
<1>19. cursor' = None => cursor = entering
  <2> SUFFICES ASSUME next[cursor] = None PROVE cursor = entering
    BY <1>1
  <2>1. Key[entering] <= Key[cursor] /\ Key[cursor] <= Key[last]
    BY <1>2, <1>3, <1>17 DEF RightAfter, SortedList
  <2>2. Key[entering] = Key[cursor] BY <1>2, <1>3, <2>1
  <2> QED BY <1>2, <1>3, <2>2 DEF Injective
<1>20. ASSUME NEW v \in active \ {entering}
       PROVE  /\ v \in KeyVisited' => stamp'[v] <= counter'
              /\ v \notin KeyVisited' => stamp'[v] > counter'
              /\ cursor = entering => stamp'[v] < counter'
  <2>0. counter' = counter + 1 BY <1>1
  <2>1. CASE v = cursor BY <1>3, <1>7, <1>18, <2>0, <2>1
  <2>2. CASE v # cursor /\ v \in KeyVisited
    <3>1. stamp'[v] = stamp[v] /\ stamp[v] <= counter /\ stamp[v] \in Nat
      BY <1>2, <1>3, <1>7, <2>2
    <3> QED BY <1>3, <1>18, <2>0, <2>2, <3>1
  <2>3. CASE v # cursor /\ v \notin KeyVisited
    <3>1. Key[cursor] < Key[v]
      BY <1>2, <1>3, <1>4, <2>3 DEF Injective
    <3>2. cursor # entering
      BY <1>2, <1>3, <3>1 DEF SortedList
    <3>3. stamp[cursor] < stamp[v] /\ counter < stamp[cursor] /\ stamp'[v] = stamp[v]
      BY <1>2, <1>7, <1>8, <1>10, <2>3, <3>1, <3>2
    <3>4. stamp[v] \in Nat /\ stamp[cursor] \in Nat BY <1>2, <1>3
    <3> QED BY <1>3, <1>18, <2>0, <2>3, <3>2, <3>3, <3>4
  <2> QED BY <2>1, <2>2, <2>3
<1>21. Restamping'
  <2>1. cursor' \in active \cup {None}
    BY <1>17, <1>1 DEF RightAfter
  <2>2. counter' = Cardinality(KeyVisited')
    BY <1>1, <1>5, <1>18
  <2>3. /\ search.idx = None => active = {entering} /\ entering \notin assigned
        /\ search.idx # None => search.idx \in active
    BY <1>1 DEF KeyInv, Restamping
  <2>4. cursor' = None => /\ stamp'[entering] = counter'
                          /\ \A v \in active \ {entering} : stamp'[v] < counter'
    BY <1>1, <1>7, <1>19, <1>20
  <2> QED BY <1>1, <1>2, <1>20, <2>1, <2>2, <2>3, <2>4 DEF Restamping
<1>22. QueueTypeOK'
  <2>1. counter' \in 0 .. MaxStamp BY <1>1, <1>6
  <2>2. cursor' \in Maybe BY <1>1, <1>2, <1>3
  <2> QED BY <1>1, <1>7, <2>1, <2>2 DEF KeyInv, QueueTypeOK
<1>23. Found'
  <2> SUFFICES ASSUME ~ stable, NEW v \in active \ assigned, v # entering
               PROVE  search.idx \in active /\ Key'[v] <= Key'[search.idx]
    BY <1>1 DEF Found
  <2>1. search.idx \in active /\ Key[v] <= Key[search.idx]
    BY DEF KeyInv, Found
  <2> DEFINE x == search.idx
  <2> HIDE DEF x
  <2>2. x \in active /\ Key[v] <= Key[x] BY <2>1 DEF x
  <2>3. Key'[v] <= Key'[x] BY <1>3, <1>9, <1>14, <2>2
  <2> QED BY <2>2, <2>3 DEF x
<1> QED BY <1>1, <1>15, <1>16, <1>21, <1>22, <1>23
        DEF KeyInv, SearchCached, HeapCovers, NotRestamping, Choosing

\* The variable that waited has the last stamp now.
LEMMA RestampDoneKeeps ==
    ASSUME KeyInv, RestampDone
    PROVE  KeyInv'
<1>1. /\ loop = "restamp" /\ cursor = None /\ loop' = "none" /\ entering' = None
      /\ search' = IF entering \notin assigned THEN SearchAt(entering)
                   ELSE IF search.idx = None THEN search ELSE SearchAt(search.idx)
      /\ UNCHANGED <<prev, next, stamp, first, last, counter, active, retired, assigned,
                     stable, heap, bumping, cursor, answer>>
  BY DEF RestampDone, linkVars, stateVars
<1>2. /\ entering \in active /\ counter = Cardinality(active)
      /\ stamp[entering] = counter /\ \A v \in active \ {entering} : stamp[v] < counter
      /\ search.idx # None => search.idx \in active
      /\ search.idx = None => entering \notin assigned
  <2>1. KeyVisited = active BY <1>1 DEF KeyVisited
  <2> QED BY <1>1, <2>1 DEF KeyInv, Restamping
<1>3. /\ active \subseteq Variables /\ None \notin active /\ Key \in [Variables -> Nat]
      /\ Injective(active, Key) /\ SortedList(active, Key, prev, next, first, last)
      /\ stamp \in [Variables -> Nat] /\ MaxStamp \in Nat /\ counter \in 0 .. MaxStamp
      /\ \A v \in active \ {entering} : stamp[v] \in 1 .. MaxStamp
      /\ None \notin Variables
  BY QueueAssumption, KeyType DEF KeyInv, QueueTypeOK, Stamped
<1>4. counter > 0
  <2>1. IsFiniteSet(active) BY <1>3, QueueAssumption, FS_Subset
  <2> QED BY <1>2, <1>3, <2>1, FS_EmptySet
<1>5. /\ Key' \in [Variables -> Nat]
      /\ \A u \in active : Key'[u] = stamp[u]
      /\ \A u \in active \ {entering} : Key[u] = stamp[u]
      /\ Key[entering] = MaxStamp + 1
  BY <1>1, <1>2, <1>3 DEF Key
<1>6. \A u, w \in active : Key[u] < Key[w] <=> Key'[u] < Key'[w]
  <2>1. ASSUME NEW u \in active \ {entering}
        PROVE  /\ Key[u] < Key[entering] /\ Key'[u] < Key'[entering]
    BY <1>2, <1>3, <1>5
  <2>2. ASSUME NEW u \in active, NEW w \in active
        PROVE  Key[u] < Key[w] <=> Key'[u] < Key'[w]
    <3>1. CASE u # entering /\ w # entering BY <1>5, <3>1
    <3>2. CASE u = entering /\ w # entering BY <1>2, <1>3, <1>5, <2>1, <3>2
    <3>3. CASE u # entering /\ w = entering BY <2>1, <3>3
    <3>4. CASE u = entering /\ w = entering BY <1>2, <1>3, <1>5, <3>4
    <3> QED BY <3>1, <3>2, <3>3, <3>4
  <2> QED BY <2>2
<1>7. SortedList(active', Key', prev', next', first', last')
  <2>1. SortedList(active, Key', prev, next, first, last)
    BY <1>3, <1>5, <1>6, SortedRekeyed
  <2> QED BY <1>1, <2>1
<1>8. Stamped'
  <2>1. Injective(active, Key')
    BY <1>3, <1>5, <1>6 DEF Injective
  <2>2. \A v \in active : stamp[v] \in 1 .. MaxStamp
    BY <1>2, <1>3, <1>4
  <2> QED BY <1>1, <2>1, <2>2 DEF KeyInv, Stamped
<1>9. /\ search' \in [idx : Maybe, stamp : Nat]
      /\ search'.idx \in active /\ search'.stamp = stamp[search'.idx]
      /\ entering \notin assigned => search'.idx = entering
      /\ entering \in assigned => search'.idx = search.idx
  BY <1>1, <1>2, <1>3 DEF SearchAt, Maybe
<1>10. QueueTypeOK' BY <1>1, <1>9 DEF KeyInv, QueueTypeOK, Maybe
<1>11. SearchCached' BY <1>1, <1>2, <1>9 DEF SearchCached
<1>12. Found'
  <2> SUFFICES ASSUME ~ stable, NEW v \in active \ assigned
               PROVE  Key'[v] <= Key'[search'.idx]
    BY <1>1, <1>9 DEF Found
  <2>1. CASE entering \notin assigned
    <3>1. stamp[v] <= stamp[entering] BY <1>2, <1>3
    <3> QED BY <1>2, <1>5, <1>9, <2>1, <3>1
  <2>2. CASE entering \in assigned
    <3> DEFINE x == search.idx
    <3>1. x \in active /\ Key[v] <= Key[x] /\ search'.idx = x
      BY <1>9, <2>2 DEF KeyInv, Found
    <3> HIDE DEF x
    <3> QED BY <1>3, <1>5, <1>6, <3>1
  <2> QED BY <2>1, <2>2
<1>13. NotRestamping'
  <2>1. \A v \in active : stamp[v] <= counter BY <1>2, <1>3
  <2> QED BY <1>1, <2>1 DEF NotRestamping
<1> QED BY <1>1, <1>7, <1>8, <1>10, <1>11, <1>12, <1>13
        DEF KeyInv, HeapCovers, Restamping, Choosing

-----------------------------------------------------------------------------
\* e lists S in the order of the keys k.
Enumerates(e, S, k) ==
    /\ e \in [1 .. Cardinality(S) -> S]
    /\ \A i, j \in 1 .. Cardinality(S) : i < j => k[e[i]] < k[e[j]]
    /\ \A v \in S : \E i \in 1 .. Cardinality(S) : e[i] = v

VariablesFinite(S) == IsFiniteSet(S) /\ Cardinality(S) \in Nat

LEMMA SubsetFinite ==
    ASSUME NEW S \in SUBSET Variables
    PROVE  VariablesFinite(S) /\ Cardinality(S) <= Cardinality(Variables)
           /\ Cardinality(Variables) \in Nat /\ Cardinality(Variables) < MaxStamp
BY QueueAssumption, FS_Subset, FS_CardinalityType DEF VariablesFinite

\* Following the next links from the first variable enumerates the list.
LEMMA LinksEnumerate ==
    ASSUME NEW S \in SUBSET Variables, NEW k \in [Variables -> Nat], Injective(S, k),
           NEW p \in [Variables -> Maybe], NEW n \in [Variables -> Maybe],
           NEW f \in Maybe, NEW l \in Maybe, SortedList(S, k, p, n, f, l),
           NEW e, \A i \in 1 .. Cardinality(S) :
               e[i] = IF i = 1 THEN f ELSE IF e[i - 1] = None THEN None ELSE n[e[i - 1]],
           e \in [1 .. Cardinality(S) -> Maybe]
    PROVE  Enumerates(e, S, k)
<1> USE QueueAssumption DEF Maybe
<1> DEFINE N == Cardinality(S)
           Upto(v) == {u \in S : k[u] <= k[v]}
           I == {i \in 1 .. N : e[i] \in S /\ Cardinality(Upto(e[i])) = i}
<1>1. N \in Nat /\ IsFiniteSet(S) /\ None \notin S
  BY SubsetFinite DEF VariablesFinite
<1>2. CASE N = 0
  <2>1. S = {} BY <1>1, <1>2, FS_EmptySet
  <2>2. 1 .. N = {} BY <1>2
  <2> QED BY <2>1, <2>2 DEF Enumerates
<1>3. CASE N # 0
  <2>0. 1 \in 1 .. N /\ S # {} BY <1>1, <1>3, FS_EmptySet
  <2>1. 1 \in I
    <3>1. e[1] = f /\ f \in S /\ \A u \in S : k[f] <= k[u]
      BY <2>0 DEF SortedList
    <3>2. Upto(f) = {f}
      BY <3>1 DEF Injective
    <3>3. Cardinality(Upto(f)) = 1 BY <3>2, FS_Singleton
    <3> QED BY <2>0, <3>1, <3>3
  <2>2. ASSUME NEW i \in I, i \in 1 .. N - 1 PROVE i + 1 \in I
    <3>1. i + 1 \in 1 .. N /\ i + 1 # 1 /\ e[i] \in S /\ e[i] # None
          /\ e[i + 1] = n[e[i]]
      BY <1>1, <2>2
    <3>0. Cardinality(Upto(e[i])) = i OBVIOUS
    <3>2. RightAfter(S, k, n[e[i]], e[i]) BY <3>1 DEF SortedList
    <3>3. n[e[i]] # None
      <4> SUFFICES ASSUME n[e[i]] = None PROVE FALSE OBVIOUS
      <4>1. Upto(e[i]) = S BY <3>2 DEF RightAfter
      <4>2. Cardinality(S) = i BY <3>0, <4>1
      <4> QED BY <1>1, <2>2, <4>2
    <3>4. n[e[i]] \in S /\ k[e[i]] < k[n[e[i]]]
          /\ \A u \in S : k[u] <= k[e[i]] \/ k[n[e[i]]] <= k[u]
      BY <3>1, <3>2, <3>3 DEF RightAfter, RightBefore
    <3>5. Upto(n[e[i]]) = Upto(e[i]) \cup {n[e[i]]}
      BY <3>1, <3>4 DEF Injective
    <3>6. n[e[i]] \notin Upto(e[i])
      BY <3>1, <3>4
    <3>7. IsFiniteSet(Upto(e[i])) BY <1>1, FS_Subset
    <3>8. Cardinality(Upto(n[e[i]])) = i + 1
      <4>1. i \in Nat BY <1>1
      <4> HIDE DEF Upto, I
      <4> DEFINE A == Upto(e[i])
                 x == n[e[i]]
      <4> HIDE DEF A, x
      <4>2. IsFiniteSet(A) /\ x \notin A /\ Cardinality(A) = i /\ Upto(n[e[i]]) = A \cup {x}
        BY <3>0, <3>5, <3>6, <3>7 DEF A, x
      <4>3. Cardinality(A \cup {x}) = Cardinality(A) + 1
        BY <4>2, FS_AddElement
      <4> QED BY <4>1, <4>2, <4>3
    <3> QED BY <3>1, <3>4, <3>8
  <2>3. \A i \in 1 .. N : i \in I
    <3> HIDE DEF I
    <3> QED BY <1>1, <2>1, <2>2, IntervalInduction
  <2>4. e \in [1 .. N -> S]
    BY <2>3
  <2>5. ASSUME NEW i \in 1 .. N, NEW j \in 1 .. N, i < j
        PROVE  k[e[i]] < k[e[j]]
    <3> SUFFICES ASSUME k[e[j]] <= k[e[i]] PROVE FALSE
      BY <2>4
    <3>1. Upto(e[j]) \subseteq Upto(e[i]) BY <2>4
    <3>2. IsFiniteSet(Upto(e[i])) BY <1>1, FS_Subset
    <3>3. Cardinality(Upto(e[j])) <= Cardinality(Upto(e[i])) BY <3>1, <3>2, FS_Subset
    <3>4. i \in I /\ j \in I BY <2>3
    <3>5. Cardinality(Upto(e[i])) = i /\ Cardinality(Upto(e[j])) = j BY <3>4
    <3> QED BY <2>5, <3>3, <3>5
  <2>6. \A v \in S : \E i \in 1 .. N : e[i] = v
    <3>1. \A i, j \in 1 .. N : e[i] = e[j] => i = j
      BY <2>4, <2>5
    <3>2. e \in Injection(1 .. N, S)
      BY <2>4, <3>1 DEF Injection, IsInjective
    <3>3. Cardinality(1 .. N) = N BY <1>1, FS_Interval
    <3>4. e \in Surjection(1 .. N, S)
      BY <1>1, <3>2, <3>3, FS_Injection
    <3> QED BY <3>4 DEF Surjection
  <2> QED BY <2>4, <2>5, <2>6 DEF Enumerates
<1> QED BY <1>1, <1>2, <1>3

LEMMA EnumerationUnique ==
    ASSUME NEW S, IsFiniteSet(S), NEW k, \A v \in S : k[v] \in Nat, NEW e, NEW g,
           Enumerates(e, S, k), Enumerates(g, S, k)
    PROVE  e = g
<1> DEFINE N == Cardinality(S)
           T == {i \in 1 .. N : e[i] # g[i]}
<1>0. N \in Nat BY FS_CardinalityType
<1>1. /\ e \in [1 .. N -> S] /\ g \in [1 .. N -> S]
      /\ \A i, j \in 1 .. N : i < j => k[e[i]] < k[e[j]] /\ k[g[i]] < k[g[j]]
      /\ \A v \in S : /\ \E i \in 1 .. N : e[i] = v
                      /\ \E i \in 1 .. N : g[i] = v
  BY DEF Enumerates
<1> SUFFICES ASSUME e # g PROVE FALSE OBVIOUS
<1>2. PICK m \in T : \A i \in T : m <= i
  <2>1. T \in SUBSET Nat BY <1>0
  <2>2. T # {}
    <3> SUFFICES ASSUME T = {} PROVE FALSE OBVIOUS
    <3>1. \A i \in 1 .. N : e[i] = g[i] OBVIOUS
    <3>2. e \in [1 .. N -> S] /\ g \in [1 .. N -> S] BY <1>1
    <3> HIDE DEF T, N
    <3>3. e = [i \in 1 .. N |-> e[i]] /\ g = [i \in 1 .. N |-> g[i]] BY <3>2
    <3>4. e = g BY <3>1, <3>3
    <3> QED BY <3>4
  <2> QED BY <2>1, <2>2, LeastNatural
<1>3. \A i \in 1 .. N : i < m => e[i] = g[i] BY <1>0, <1>2
<1>4. e[m] \in S /\ g[m] \in S /\ m \in 1 .. N BY <1>1
<1>5. PICK i \in 1 .. N : g[i] = e[m] BY <1>1, <1>4
<1>6. PICK j \in 1 .. N : e[j] = g[m] BY <1>1, <1>4
<1>7. i > m
  <2>1. i # m BY <1>2, <1>5
  <2>2. ~ (i < m)
    <3> SUFFICES ASSUME i < m PROVE FALSE OBVIOUS
    <3>1. e[i] = e[m] /\ k[e[i]] < k[e[m]] BY <1>1, <1>3, <1>4, <1>5
    <3> QED BY <1>1, <1>4, <3>1
  <2> QED BY <1>4, <2>1, <2>2
<1>8. j > m
  <2>1. j # m BY <1>2, <1>6
  <2>2. ~ (j < m)
    <3> SUFFICES ASSUME j < m PROVE FALSE OBVIOUS
    <3>1. g[j] = g[m] /\ k[g[j]] < k[g[m]] BY <1>1, <1>3, <1>4, <1>6
    <3> QED BY <1>1, <1>4, <3>1
  <2> QED BY <1>4, <2>1, <2>2
<1>9. k[g[m]] < k[e[m]] /\ k[e[m]] < k[g[m]]
  BY <1>1, <1>4, <1>5, <1>6, <1>7, <1>8
<1> QED BY <1>4, <1>9

\* The list as the model reads it.
LEMMA ListedEnumerates == KeyInv => Enumerates(Listed, active, Key)
<1> SUFFICES ASSUME KeyInv PROVE Enumerates(Listed, active, Key) OBVIOUS
<1> DEFINE N == Cardinality(active)
           StepTo(e, i) == IF i = 1 THEN first ELSE IF e[i - 1] = None THEN None ELSE next[e[i - 1]]
<1>1. /\ active \in SUBSET Variables /\ Key \in [Variables -> Nat] /\ Injective(active, Key)
      /\ prev \in [Variables -> Maybe] /\ next \in [Variables -> Maybe]
      /\ first \in Maybe /\ last \in Maybe
      /\ SortedList(active, Key, prev, next, first, last)
  BY KeyType DEF KeyInv, QueueTypeOK, Stamped
<1>2. N \in Nat BY <1>1, SubsetFinite DEF VariablesFinite
<1> DEFINE g == [x \in Nat \X Maybe |-> IF x[2] = None THEN None ELSE next[x[2]]]
<1>3. g \in [Nat \X Maybe -> Maybe]
  BY <1>1 DEF Maybe
<1>4. PICK e \in [1 .. N -> Maybe] : IsRecursion(e, 1, N, first, g)
  <2>1. 1 \in Nat OBVIOUS
  <2> HIDE DEF g, N
  <2> QED BY <1>1, <1>2, <1>3, <2>1, RecursiveFunction
<1>5. \A n \in 1 .. N : e[n] = StepTo(e, n)
  <2>1. ASSUME NEW n \in 1 .. N, n # 1 PROVE g[<<n, e[n - 1]>>] = StepTo(e, n)
    <3>1. n - 1 \in 1 .. N /\ n \in Nat BY <1>2, <2>1
    <3>2. <<n, e[n - 1]>> \in Nat \X Maybe BY <3>1
    <3> QED BY <2>1, <3>2
  <2> QED BY <1>4, <2>1, ZenonT(60) DEF IsRecursion
<1>6. e = [n \in 1 .. N |-> StepTo(e, n)]
  BY <1>5
<1>7. Listed = [n \in 1 .. N |-> StepTo(Listed, n)]
  BY <1>6 DEF Listed
<1>8. \A n \in 1 .. N : Listed[n] = StepTo(Listed, n)
  <2> HIDE DEF StepTo
  <2> QED BY <1>7
<1>9. \A n \in 1 .. N : Listed[n] = e[n]
  <2> DEFINE J == {n \in 1 .. N : Listed[n] = e[n]}
  <2> SUFFICES ASSUME N # 0 PROVE \A n \in 1 .. N : n \in J
    BY <1>2
  <2>1. 1 \in J BY <1>2, <1>5, <1>8
  <2>2. ASSUME NEW n \in J, n \in 1 .. N - 1 PROVE n + 1 \in J
    <3>1. n + 1 \in 1 .. N /\ n + 1 # 1 /\ (n + 1) - 1 = n BY <1>2, <2>2
    <3> QED BY <1>5, <1>8, <3>1
  <2> HIDE DEF J
  <2> QED BY <1>2, <2>1, <2>2, IntervalInduction
<1>10. Listed = e
  <2>1. Listed = [n \in 1 .. N |-> Listed[n]] BY <1>7
  <2>2. e = [n \in 1 .. N |-> e[n]] OBVIOUS
  <2> QED BY <1>9, <2>1, <2>2
<1> QED BY <1>1, <1>8, <1>10, LinksEnumerate, ZenonT(60)

-----------------------------------------------------------------------------
\* The compaction gives the variables it keeps different, not larger indices.
LEMMA MappedFacts ==
    ASSUME QueueTypeOK
    PROVE  /\ active \subseteq Kept /\ Kept \subseteq active \cup retired
           /\ Kept \subseteq Variables
           /\ \A v \in Kept : Mapped(v) \in Variables
           /\ \A u, v \in Kept : Mapped(u) = Mapped(v) => u = v
<1>1. active \subseteq Kept /\ Kept \subseteq active \cup retired /\ Kept \subseteq Variables
  BY DEF Kept, QueueTypeOK
<1> DEFINE Upto(v) == {u \in Kept : u <= v}
<1>2. Cardinality(Variables) \in Nat /\ Variables = 1 .. Cardinality(Variables)
  BY QueueAssumption, FS_CardinalityType
<1>3. ASSUME NEW v \in Kept
      PROVE  IsFiniteSet(Upto(v)) /\ Cardinality(Upto(v)) \in 1 .. v
  <2>1. v \in Nat /\ v \in Upto(v) /\ Upto(v) \subseteq 1 .. v
    BY <1>1, <1>2
  <2>2. IsFiniteSet(1 .. v) /\ Cardinality(1 .. v) = v
    BY <2>1, FS_Interval
  <2>3. IsFiniteSet(Upto(v)) /\ Cardinality(Upto(v)) <= v
    BY <2>1, <2>2, FS_Subset
  <2>4. Cardinality(Upto(v)) \in Nat /\ Cardinality(Upto(v)) # 0
    BY <2>1, <2>3, FS_EmptySet, FS_CardinalityType
  <2> QED BY <2>1, <2>3, <2>4
<1>4. \A v \in Kept : Mapped(v) \in Variables
  BY <1>1, <1>2, <1>3 DEF Mapped
<1>5. ASSUME NEW u \in Kept, NEW v \in Kept, u < v
      PROVE  Mapped(u) # Mapped(v)
  <2>1. Upto(u) \subseteq Upto(v) /\ v \in Upto(v) /\ v \notin Upto(u)
    BY <1>1, <1>2, <1>5
  <2>2. Cardinality(Upto(u)) # Cardinality(Upto(v))
    BY <1>3, <2>1, FS_Subset
  <2> QED BY <2>2 DEF Mapped
<1>6. \A u, v \in Kept : Mapped(u) = Mapped(v) => u = v
  <2> SUFFICES ASSUME NEW u \in Kept, NEW v \in Kept, u # v PROVE Mapped(u) # Mapped(v)
    OBVIOUS
  <2>1. u < v \/ v < u BY <1>1, <1>2
  <2> QED BY <1>5, <2>1
<1> QED BY <1>1, <1>4, <1>6

LEMMA RenamedFacts ==
    ASSUME QueueTypeOK, NEW f, NEW g
    PROVE  /\ Renamed(f, g) = [v \in Variables |-> Renamed(f, g)[v]]
           /\ \A v \in Variables : \/ Renamed(f, g)[v] = f[v]
                                   \/ \E u \in Kept : Renamed(f, g)[v] = g[u]
           /\ \A v \in Kept : Renamed(f, g)[Mapped(v)] = g[v]
<1>1. ASSUME NEW v \in Variables, NEW u \in Kept, Mapped(u) = v
      PROVE  Renamed(f, g)[v] = g[u]
  <2>1. (CHOOSE w \in Kept : Mapped(w) = v) = u
    BY <1>1, MappedFacts
  <2> QED BY <1>1, <2>1 DEF Renamed
<1>2. ASSUME NEW v \in Variables, ~ \E u \in Kept : Mapped(u) = v
      PROVE  Renamed(f, g)[v] = f[v]
  BY <1>2 DEF Renamed
<1>3. \A v \in Kept : Renamed(f, g)[Mapped(v)] = g[v]
  BY <1>1, MappedFacts
<1>4. Renamed(f, g) = [v \in Variables |-> Renamed(f, g)[v]]
  BY DEF Renamed
<1> QED BY <1>1, <1>2, <1>3, <1>4

\* The list under new names and keys in the same order.
Renames(S, k, p, n, f, l, m, k2, p2, n2, f2, l2) ==
    /\ S \in SUBSET Variables
    /\ k \in [Variables -> Nat]
    /\ k2 \in [Variables -> Nat]
    /\ Injective(S, k)
    /\ SortedList(S, k, p, n, f, l)
    /\ m \in [S -> Variables]
    /\ \A u, v \in S : m[u] = m[v] => u = v
    /\ \A u, v \in S : k[u] < k[v] => k2[m[u]] < k2[m[v]]
    /\ \A v \in S : /\ p2[m[v]] = IF p[v] = None THEN None ELSE m[p[v]]
                    /\ n2[m[v]] = IF n[v] = None THEN None ELSE m[n[v]]
    /\ S = {} => f2 = None /\ l2 = None
    /\ S # {} => f2 = m[f] /\ l2 = m[l]

LEMMA SortedRenamed ==
    ASSUME NEW S, NEW k, NEW p, NEW n, NEW f, NEW l, NEW m, NEW k2, NEW p2, NEW n2,
           NEW f2, NEW l2, Renames(S, k, p, n, f, l, m, k2, p2, n2, f2, l2)
    PROVE  /\ SortedList({m[v] : v \in S}, k2, p2, n2, f2, l2)
           /\ Injective({m[v] : v \in S}, k2)
<1> DEFINE S2 == {m[v] : v \in S}
<1> USE QueueAssumption DEF Maybe, Renames
<1>1. \A u, v \in S : /\ k[u] < k[v] <=> k2[m[u]] < k2[m[v]]
                      /\ k[u] <= k[v] <=> k2[m[u]] <= k2[m[v]]
  <2> SUFFICES ASSUME NEW u \in S, NEW v \in S
               PROVE  /\ k[u] < k[v] <=> k2[m[u]] < k2[m[v]]
                      /\ k[u] <= k[v] <=> k2[m[u]] <= k2[m[v]]
    OBVIOUS
  <2>1. k[u] \in Nat /\ k[v] \in Nat /\ k2[m[u]] \in Nat /\ k2[m[v]] \in Nat
    OBVIOUS
  <2>2. CASE k[u] < k[v] BY <2>1, <2>2
  <2>3. CASE k[v] < k[u] BY <2>1, <2>3, SMTT(30)
  <2>4. CASE u = v BY <2>1, <2>4
  <2> QED BY <2>1, <2>2, <2>3, <2>4 DEF Injective
<1>2. Injective(S2, k2)
  BY <1>1 DEF Injective
<1>3. ASSUME NEW q \in S, NEW v \in S, RightBefore(S, k, q, v)
      PROVE  RightBefore(S2, k2, m[q], m[v])
  <2>1. m[q] # None /\ q # None OBVIOUS
  <2>2. \A u \in S : k2[m[u]] <= k2[m[q]] \/ k2[m[v]] <= k2[m[u]]
    BY <1>1, <1>3, <2>1 DEF RightBefore
  <2> QED BY <1>1, <1>3, <2>1, <2>2, SMTT(30) DEF RightBefore
<1>4. ASSUME NEW v \in S PROVE RightBefore(S2, k2, p2[m[v]], m[v])
  <2>1. RightBefore(S, k, p[v], v) BY DEF SortedList
  <2>2. CASE p[v] = None BY <1>1, <2>1, <2>2 DEF RightBefore
  <2>3. CASE p[v] # None
    <3>1. p[v] \in S BY <2>1, <2>3 DEF RightBefore
    <3> QED BY <1>3, <2>1, <2>3, <3>1
  <2> QED BY <2>2, <2>3
<1>5. ASSUME NEW v \in S PROVE RightAfter(S2, k2, n2[m[v]], m[v])
  <2>1. RightAfter(S, k, n[v], v) BY DEF SortedList
  <2>2. CASE n[v] = None BY <1>1, <2>1, <2>2 DEF RightAfter
  <2>3. CASE n[v] # None
    <3>1. n[v] \in S /\ RightBefore(S, k, v, n[v]) BY <2>1, <2>3 DEF RightAfter
    <3>2. RightBefore(S2, k2, m[v], m[n[v]]) BY <1>3, <3>1
    <3>3. n2[m[v]] = m[n[v]] /\ m[n[v]] \in S2 /\ m[n[v]] # None BY <2>3, <3>1, ZenonT(60)
    <3> QED BY <3>2, <3>3 DEF RightAfter
  <2> QED BY <2>2, <2>3
<1>6. \A w \in S2 : RightBefore(S2, k2, p2[w], w) /\ RightAfter(S2, k2, n2[w], w)
  <2> SUFFICES ASSUME NEW w \in S2
               PROVE  RightBefore(S2, k2, p2[w], w) /\ RightAfter(S2, k2, n2[w], w)
    OBVIOUS
  <2>1. PICK v \in S : w = m[v] OBVIOUS
  <2> QED BY <1>4, <1>5, <2>1
<1>7. S2 # {} => /\ f2 \in S2 /\ \A u \in S2 : k2[f2] <= k2[u]
                /\ l2 \in S2 /\ \A u \in S2 : k2[u] <= k2[l2]
  <2> SUFFICES ASSUME S2 # {}
               PROVE  /\ f2 \in S2 /\ \A u \in S2 : k2[f2] <= k2[u]
                      /\ l2 \in S2 /\ \A u \in S2 : k2[u] <= k2[l2]
    OBVIOUS
  <2>1. /\ f \in S /\ l \in S /\ \A u \in S : k[f] <= k[u]
        /\ \A u \in S : k[u] <= k[l]
    BY SMTT(30) DEF SortedList
  <2>5. f2 = m[f] /\ l2 = m[l] OBVIOUS
  <2>2. \A u \in S : k2[m[f]] <= k2[m[u]] /\ k2[m[u]] <= k2[m[l]]
    BY <1>1, <2>1
  <2>3. m[f] \in S2 /\ m[l] \in S2 BY <2>1
  <2>4. ASSUME NEW w \in S2 PROVE k2[m[f]] <= k2[w] /\ k2[w] <= k2[m[l]]
    <3>1. PICK u \in S : w = m[u] OBVIOUS
    <3> QED BY <2>2, <3>1
  <2>6. \A w \in S2 : k2[f2] <= k2[w] BY <2>4, <2>5
  <2>7. \A w \in S2 : k2[w] <= k2[l2] BY <2>4, <2>5
  <2> QED BY <2>3, <2>5, <2>6, <2>7
<1>8. S2 = {} => f2 = None /\ l2 = None
  <2>1. \A v \in S : m[v] \in S2 OBVIOUS
  <2>2. S2 = {} => S = {} BY <2>1
  <2> QED BY <2>2
<1> QED BY <1>2, <1>6, <1>7, <1>8 DEF SortedList

\* The position of a variable in an enumeration.
Position(e, v) == CHOOSE i \in DOMAIN e : e[i] = v

LEMMA PositionFacts ==
    ASSUME NEW S \in SUBSET Variables, NEW k \in [Variables -> Nat], NEW e,
           Enumerates(e, S, k)
    PROVE  /\ \A v \in S : Position(e, v) \in 1 .. Cardinality(S) /\ e[Position(e, v)] = v
           /\ \A u, v \in S : k[u] < k[v] => Position(e, u) < Position(e, v)
           /\ \A u, v \in S : k[u] <= k[v] => Position(e, u) <= Position(e, v)
<1> DEFINE place(v) == Position(e, v)
           N == Cardinality(S)
<1>1. N \in Nat BY SubsetFinite DEF VariablesFinite
<1>2. e \in [1 .. N -> S] /\ DOMAIN e = 1 .. N
  BY DEF Enumerates
<1>3. \A v \in S : place(v) \in 1 .. N /\ e[place(v)] = v
  BY <1>2 DEF Enumerates, Position
<1>4. \A i, j \in 1 .. N : i < j => k[e[i]] < k[e[j]]
  BY DEF Enumerates
<1> HIDE DEF place, N
<1>5. ASSUME NEW u \in S, NEW v \in S, ~ (place(u) < place(v)) PROVE k[v] <= k[u]
  <2>1. place(u) = place(v) \/ place(v) < place(u) BY <1>1, <1>3, <1>5
  <2> QED BY <1>3, <1>4, <2>1
<1>6. ASSUME NEW u \in S, NEW v \in S, ~ (place(u) <= place(v)) PROVE k[v] < k[u]
  <2>1. place(v) < place(u) BY <1>1, <1>3, <1>6
  <2> QED BY <1>3, <1>4, <2>1
<1>7. \A u, v \in S : k[u] < k[v] => place(u) < place(v)
  BY <1>5
<1>8. \A u, v \in S : k[u] <= k[v] => place(u) <= place(v)
  BY <1>6
<1> QED BY <1>3, <1>7, <1>8 DEF place, N

\* The search pointer after the compaction is at or after its old position.
LEMMA CompactedFacts ==
    ASSUME KeyInv, loop = "none"
    PROVE  IF active = {} THEN CompactedSearch = search
           ELSE \E i, j \in 1 .. Cardinality(active) :
                  /\ Listed[i] = search.idx /\ i <= j
                  /\ CompactedSearch = [idx |-> Mapped(Listed[j]), stamp |-> j]
<1> DEFINE N == Cardinality(active)
           V == [idx : Maybe, stamp : Nat]
           StepTo(e, i) == IF i = 0 THEN search
                         ELSE IF Listed[i] # e[i - 1].idx THEN e[i - 1]
                         ELSE [idx |-> Mapped(Listed[i]), stamp |-> i]
           g == [x \in Nat \X V |->
                   IF x[1] \in 1 .. N /\ Listed[x[1]] = x[2].idx
                     THEN [idx |-> Mapped(Listed[x[1]]), stamp |-> x[1]] ELSE x[2]]
<1>1. /\ active \subseteq Variables /\ N \in Nat /\ search \in V /\ QueueTypeOK
      /\ IsFiniteSet(active)
  BY SubsetFinite DEF KeyInv, QueueTypeOK, VariablesFinite
<1>2. /\ Listed \in [1 .. N -> active]
      /\ \A v \in active : \E i \in 1 .. N : Listed[i] = v
      /\ \A i, j \in 1 .. N : i < j => Key[Listed[i]] < Key[Listed[j]]
  BY ListedEnumerates DEF Enumerates
<1>3. \A i \in 1 .. N : Mapped(Listed[i]) \in Variables
  BY <1>1, <1>2, MappedFacts
<1>4. g \in [Nat \X V -> V]
  BY <1>3 DEF Maybe
<1>5. PICK e \in [0 .. N -> V] : IsRecursion(e, 0, N, search, g)
  <2>1. 0 \in Nat OBVIOUS
  <2> HIDE DEF g, V, N
  <2> QED BY <1>1, <1>4, <2>1, RecursiveFunction
<1>6. \A i \in 0 .. N : e[i] = StepTo(e, i)
  <2>1. ASSUME NEW i \in 0 .. N, i # 0 PROVE g[<<i, e[i - 1]>>] = StepTo(e, i)
    <3>1. i - 1 \in 0 .. N /\ i \in Nat /\ i \in 1 .. N BY <1>1, <2>1
    <3>2. <<i, e[i - 1]>> \in Nat \X V BY <3>1
    <3> QED BY <2>1, <3>1, <3>2
  <2> SUFFICES ASSUME NEW i \in 0 .. N PROVE e[i] = StepTo(e, i) OBVIOUS
  <2>2. e[i] = IF i = 0 THEN search ELSE g[<<i, e[i - 1]>>]
    BY <1>5 DEF IsRecursion
  <2>3. CASE i = 0 BY <2>2, <2>3
  <2>4. CASE i # 0
    <3> HIDE DEF g, StepTo
    <3> QED BY <2>1, <2>2, <2>4
  <2> QED BY <2>3, <2>4
<1> DEFINE after == CHOOSE f : f = [i \in 0 .. N |-> StepTo(f, i)]
<1>7. after = [i \in 0 .. N |-> StepTo(after, i)]
  <2>1. e = [i \in 0 .. N |-> StepTo(e, i)]
    <3> HIDE DEF StepTo
    <3>1. e = [i \in 0 .. N |-> e[i]] OBVIOUS
    <3> QED BY <1>6, <3>1
  <2> HIDE DEF StepTo, N
  <2> QED BY <2>1
<1>8. CompactedSearch = after[N]
  BY DEF CompactedSearch
<1> HIDE DEF after
<1>9. \A i \in 0 .. N : after[i] = StepTo(after, i)
  <2> HIDE DEF StepTo
  <2> QED BY <1>7
<1>10. CASE active = {}
  <2>1. N = 0 /\ 0 \in 0 .. N BY <1>10, FS_EmptySet
  <2> QED BY <1>8, <1>9, <1>10, <2>1
<1>11. CASE active # {}
  <2>1. search.idx \in active BY <1>11 DEF KeyInv, SearchCached
  <2>2. PICK q \in 1 .. N : Listed[q] = search.idx BY <1>2, <2>1
  <2>3. Injective(active, Key) /\ Key \in [Variables -> Nat]
    BY KeyType DEF KeyInv, Stamped
  <2>4. ASSUME NEW i \in 1 .. N, i # q PROVE Listed[i] # search.idx
    BY <1>1, <1>2, <2>2, <2>3, <2>4
  <2> DEFINE Claim(i) == /\ i < q => after[i] = search
                         /\ i >= q => \E j \in q .. i :
                              after[i] = [idx |-> Mapped(Listed[j]), stamp |-> j]
             I == {i \in 0 .. N : Claim(i)}
  <2>5. 0 \in I
    <3>1. 0 \in 0 .. N BY <1>1
    <3>2. after[0] = search BY <1>9, <3>1
    <3>3. Claim(0) BY <1>1, <3>2
    <3> QED BY <3>1, <3>3
  <2>6. ASSUME NEW i \in I, i \in 0 .. N - 1 PROVE i + 1 \in I
    <3>1. /\ i + 1 \in 0 .. N /\ i + 1 \in 1 .. N /\ i + 1 # 0 /\ (i + 1) - 1 = i
      BY <1>1, <2>6
    <3>0. i \in Nat /\ q \in Nat /\ Claim(i) BY <1>1
    <3>2. after[i + 1] = IF Listed[i + 1] # after[i].idx THEN after[i]
                         ELSE [idx |-> Mapped(Listed[i + 1]), stamp |-> i + 1]
      BY <1>9, <3>1
    <3>3. ASSUME i + 1 < q PROVE Claim(i + 1)
      <4>1. after[i] = search /\ Listed[i + 1] # search.idx
        BY <2>4, <3>0, <3>1, <3>3
      <4> QED BY <3>0, <3>2, <3>3, <4>1
    <3>4. ASSUME i + 1 = q PROVE Claim(i + 1)
      <4>1. after[i] = search /\ Listed[i + 1] = search.idx
        BY <2>2, <3>0, <3>1, <3>4
      <4>2. after[q] = [idx |-> Mapped(Listed[q]), stamp |-> q]
        BY <3>2, <3>4, <4>1
      <4>3. q \in q .. q /\ q \in 0 .. N BY <1>1
      <4> QED BY <3>4, <4>2, <4>3
    <3>5. ASSUME i + 1 > q PROVE Claim(i + 1)
      <4>1. PICK j \in q .. i : after[i] = [idx |-> Mapped(Listed[j]), stamp |-> j]
        BY <3>0, <3>5
      <4>2. j \in q .. i + 1 /\ i + 1 \in q .. i + 1 BY <3>0, <3>5
      <4>3. \E h \in q .. i + 1 : after[i + 1] = [idx |-> Mapped(Listed[h]), stamp |-> h]
        BY <3>2, <4>1, <4>2
      <4> QED BY <3>0, <3>5, <4>3
    <3>6. Claim(i + 1)
      <4> HIDE DEF Claim
      <4> QED BY <3>0, <3>3, <3>4, <3>5
    <3> QED BY <3>1, <3>6
  <2>7. \A i \in 0 .. N : i \in I
    <3> HIDE DEF I
    <3>1. 0 \in Nat OBVIOUS
    <3> QED BY <1>1, <2>5, <2>6, <3>1, IntervalInduction
  <2>8. N \in I /\ N >= q BY <1>1, <2>7
  <2>9. PICK j \in q .. N : after[N] = [idx |-> Mapped(Listed[j]), stamp |-> j]
    BY <2>8
  <2>10. j \in 1 .. N /\ q <= j BY <1>1, <2>9
  <2> HIDE DEF N
  <2> QED BY <1>8, <1>11, <2>2, <2>9, <2>10 DEF N
<1> QED BY <1>10, <1>11

LEMMA CompactKeeps ==
    ASSUME KeyInv, Compact
    PROVE  KeyInv'
<1> DEFINE N == Cardinality(active)
           place(v) == Position(Listed, v)
           m == [v \in active |-> Mapped(v)]
<1>1. /\ loop = "none" /\ bumping = <<>> /\ entering = None
      /\ UNCHANGED <<stable, bumping, loop, cursor, entering, answer>>
  BY DEF Compact, Calm, loopVars, KeyInv, NotRestamping
<1>2. /\ QueueTypeOK /\ active \in SUBSET Variables /\ Key \in [Variables -> Nat]
      /\ Injective(active, Key) /\ SortedList(active, Key, prev, next, first, last)
      /\ prev \in [Variables -> Maybe] /\ next \in [Variables -> Maybe]
      /\ first \in Maybe /\ last \in Maybe /\ stamp \in [Variables -> Nat]
      /\ None \notin Variables /\ MaxStamp \in Nat
  BY KeyType, QueueAssumption DEF KeyInv, QueueTypeOK, Stamped
<1>3. /\ N \in Nat /\ N <= MaxStamp /\ IsFiniteSet(active)
  BY <1>2, SubsetFinite DEF VariablesFinite
<1>4. /\ active \subseteq Kept /\ Kept \subseteq active \cup retired /\ Kept \subseteq Variables
      /\ \A v \in Kept : Mapped(v) \in Variables
      /\ \A u, v \in Kept : Mapped(u) = Mapped(v) => u = v
  BY <1>2, MappedFacts
<1>5. Enumerates(Listed, active, Key) BY ListedEnumerates
<1>6. /\ \A v \in active : place(v) \in 1 .. N /\ Listed[place(v)] = v
      /\ \A u, v \in active : Key[u] < Key[v] => place(u) < place(v)
      /\ \A u, v \in active : Key[u] <= Key[v] => place(u) <= place(v)
  BY <1>2, <1>5, PositionFacts
<1> DEFINE stamps == [v \in Kept |-> IF v \in active THEN place(v) ELSE stamp[v]]
<1>7. stamps \in [Kept -> Nat]
  <2>1. ASSUME NEW v \in Kept PROVE (IF v \in active THEN place(v) ELSE stamp[v]) \in Nat
    <3> HIDE DEF place
    <3> QED BY <1>2, <1>3, <1>4, <1>6
  <2> HIDE DEF place
  <2> QED BY <2>1
<1>8. MappedLink(prev) \in [Kept -> Maybe] /\ MappedLink(next) \in [Kept -> Maybe]
  BY <1>4 DEF MappedLink, Maybe
<1>9. /\ stamp' = Renamed(stamp, stamps) /\ prev' = Renamed(prev, MappedLink(prev))
      /\ next' = Renamed(next, MappedLink(next))
      /\ first' = (IF active = {} THEN None ELSE Mapped(first))
      /\ last' = (IF active = {} THEN None ELSE Mapped(last))
      /\ counter' = N /\ search' = CompactedSearch
      /\ active' = {Mapped(v) : v \in active}
      /\ retired' = {Mapped(v) : v \in Kept \ active}
      /\ assigned' = {Mapped(v) : v \in assigned \cap Kept}
      /\ heap' = {Mapped(v) : v \in heap \cap Kept}
  BY DEF Compact, Position
<1> HIDE DEF place
<1>10. /\ stamp' \in [Variables -> Nat] /\ prev' \in [Variables -> Maybe]
       /\ next' \in [Variables -> Maybe]
       /\ \A v \in active : /\ stamp'[Mapped(v)] = place(v)
                            /\ prev'[Mapped(v)] = MappedLink(prev)[v]
                            /\ next'[Mapped(v)] = MappedLink(next)[v]
  <2>1. /\ stamp' \in [Variables -> Nat] /\ \A v \in Kept : stamp'[Mapped(v)] = stamps[v]
    <3> HIDE DEF stamps
    <3>1. /\ Renamed(stamp, stamps) = [v \in Variables |-> Renamed(stamp, stamps)[v]]
          /\ \A v \in Variables : \/ Renamed(stamp, stamps)[v] = stamp[v]
                                  \/ \E u \in Kept : Renamed(stamp, stamps)[v] = stamps[u]
          /\ \A v \in Kept : Renamed(stamp, stamps)[Mapped(v)] = stamps[v]
      BY <1>2, RenamedFacts
    <3>2. Renamed(stamp, stamps) \in [Variables -> Nat]
      BY <1>2, <1>7, <3>1
    <3> QED BY <1>9, <3>1, <3>2
  <2>2. /\ prev' \in [Variables -> Maybe] /\ \A v \in Kept : prev'[Mapped(v)] = MappedLink(prev)[v]
    <3>1. /\ Renamed(prev, MappedLink(prev)) = [v \in Variables |-> Renamed(prev, MappedLink(prev))[v]]
          /\ \A v \in Variables : \/ Renamed(prev, MappedLink(prev))[v] = prev[v]
                                  \/ \E u \in Kept : Renamed(prev, MappedLink(prev))[v] = MappedLink(prev)[u]
          /\ \A v \in Kept : Renamed(prev, MappedLink(prev))[Mapped(v)] = MappedLink(prev)[v]
      BY <1>2, RenamedFacts
    <3>2. Renamed(prev, MappedLink(prev)) \in [Variables -> Maybe]
      BY <1>2, <1>8, <3>1
    <3> QED BY <1>9, <3>1, <3>2
  <2>3. /\ next' \in [Variables -> Maybe] /\ \A v \in Kept : next'[Mapped(v)] = MappedLink(next)[v]
    <3>1. /\ Renamed(next, MappedLink(next)) = [v \in Variables |-> Renamed(next, MappedLink(next))[v]]
          /\ \A v \in Variables : \/ Renamed(next, MappedLink(next))[v] = next[v]
                                  \/ \E u \in Kept : Renamed(next, MappedLink(next))[v] = MappedLink(next)[u]
          /\ \A v \in Kept : Renamed(next, MappedLink(next))[Mapped(v)] = MappedLink(next)[v]
      BY <1>2, RenamedFacts
    <3>2. Renamed(next, MappedLink(next)) \in [Variables -> Maybe]
      BY <1>2, <1>8, <3>1
    <3> QED BY <1>9, <3>1, <3>2
  <2> QED BY <1>4, <2>1, <2>2, <2>3
<1>11. Key' \in [Variables -> Nat] /\ \A v \in active : Key'[Mapped(v)] = place(v)
  BY <1>1, <1>2, <1>4, <1>10 DEF Key
<1>12. \A v \in active : /\ prev[v] \in active \cup {None} /\ next[v] \in active \cup {None}
  BY <1>2 DEF SortedList, RightBefore, RightAfter
<1>13. SortedList(active', Key', prev', next', first', last') /\ Injective(active', Key')
  <2>1. m \in [active -> Variables] /\ \A u, v \in active : m[u] = m[v] => u = v
    BY <1>4
  <2>2. active' = {m[v] : v \in active} BY <1>9
  <2>3. \A u, v \in active : Key[u] < Key[v] => Key'[m[u]] < Key'[m[v]]
    BY <1>6, <1>11
  <2>4. \A v \in active : /\ prev'[m[v]] = IF prev[v] = None THEN None ELSE m[prev[v]]
                        /\ next'[m[v]] = IF next[v] = None THEN None ELSE m[next[v]]
    <3> SUFFICES ASSUME NEW v \in active
                 PROVE  /\ prev'[m[v]] = IF prev[v] = None THEN None ELSE m[prev[v]]
                        /\ next'[m[v]] = IF next[v] = None THEN None ELSE m[next[v]]
      OBVIOUS
    <3>1. v \in Kept /\ None \notin Kept /\ m[v] = Mapped(v) BY <1>2, <1>4
    <3>2. prev[v] # None => prev[v] \in Kept /\ m[prev[v]] = Mapped(prev[v])
      BY <1>4, <1>12
    <3>3. next[v] # None => next[v] \in Kept /\ m[next[v]] = Mapped(next[v])
      BY <1>4, <1>12
    <3>4. /\ prev'[m[v]] = IF prev[v] \in Kept THEN Mapped(prev[v]) ELSE None
          /\ next'[m[v]] = IF next[v] \in Kept THEN Mapped(next[v]) ELSE None
      BY <1>10, <3>1 DEF MappedLink
    <3> HIDE DEF m
    <3> QED BY <3>1, <3>2, <3>3, <3>4
  <2>5. /\ active = {} => first' = None /\ last' = None
        /\ active # {} => first' = m[first] /\ last' = m[last]
    BY <1>2, <1>9 DEF SortedList
  <2>6. /\ SortedList({m[v] : v \in active}, Key', prev', next', first', last')
        /\ Injective({m[v] : v \in active}, Key')
    <3> HIDE DEF m
    <3>1. Renames(active, Key, prev, next, first, last, m, Key', prev', next', first', last')
      BY <1>2, <1>11, <2>1, <2>3, <2>4, <2>5 DEF Renames
    <3> QED BY <3>1, SortedRenamed
  <2> QED BY <2>2, <2>6
<1>14. \A v \in active : Mapped(v) \in assigned' <=> v \in assigned
  BY <1>4, <1>9
<1>15. /\ active' \subseteq Variables /\ retired' \subseteq Variables /\ assigned' \subseteq Variables
       /\ heap' \subseteq Variables /\ first' \in Maybe /\ last' \in Maybe
  BY <1>2, <1>4, <1>9 DEF SortedList, Maybe
<1>16. Stamped'
  <2>1. assigned' \subseteq active' \cup retired'
    BY <1>9
  <2>2. \A w \in active' : stamp'[w] \in 1 .. MaxStamp
    <3> SUFFICES ASSUME NEW v \in active PROVE stamp'[Mapped(v)] \in 1 .. MaxStamp
      BY <1>9
    <3> QED BY <1>2, <1>3, <1>6, <1>10
  <2> QED BY <1>13, <2>1, <2>2 DEF Stamped
<1>17. NotRestamping'
  BY <1>1, <1>3, <1>6, <1>9, <1>10 DEF NotRestamping
<1>18. HeapCovers'
  BY <1>1, <1>4, <1>9, <1>14 DEF KeyInv, HeapCovers
<1>19. search' \in [idx : Maybe, stamp : Nat] /\ SearchCached' /\ Found'
  <2>1. CASE active = {}
    <3>1. search' = search /\ active' = {}
      BY <1>1, <1>9, <2>1, CompactedFacts
    <3> QED BY <1>1, <2>1, <3>1 DEF KeyInv, QueueTypeOK, SearchCached, Found
  <2>2. CASE active # {}
    <3>1. PICK i, j \in 1 .. N : /\ Listed[i] = search.idx /\ i <= j
                               /\ search' = [idx |-> Mapped(Listed[j]), stamp |-> j]
      BY <1>1, <1>9, <2>2, CompactedFacts
    <3>2. Listed[i] \in active /\ Listed[j] \in active BY <1>5 DEF Enumerates
    <3>3. \A v \in active, h \in 1 .. N : Listed[h] = v => place(v) = h
      <4> SUFFICES ASSUME NEW h \in 1 .. N PROVE place(Listed[h]) = h
        OBVIOUS
      <4>1. Listed \in [1 .. N -> active]
            /\ \A a, b \in 1 .. N : a < b => Key[Listed[a]] < Key[Listed[b]]
        BY <1>5 DEF Enumerates
      <4>2. place(Listed[h]) \in 1 .. N /\ Listed[place(Listed[h])] = Listed[h]
        BY <1>6, <4>1
      <4> QED BY <1>2, <1>3, <4>1, <4>2
    <3>4. place(Listed[i]) = i /\ place(Listed[j]) = j BY <3>2, <3>3
    <3>5. search'.idx \in active' /\ search'.stamp = stamp'[search'.idx]
          /\ search' \in [idx : Maybe, stamp : Nat]
      BY <1>3, <1>4, <1>9, <1>10, <3>1, <3>2, <3>4 DEF Maybe
    <3>6. ASSUME ~ stable, NEW v \in active \ assigned
          PROVE  Key'[Mapped(v)] <= Key'[search'.idx]
      <4>1. Key[v] <= Key[Listed[i]]
        BY <1>1, <1>2, <3>1, <3>6 DEF KeyInv, Found
      <4>2. place(v) <= i BY <1>6, <3>2, <3>4, <4>1
      <4>3. place(v) \in Nat BY <1>3, <1>6
      <4>4. Key'[Mapped(v)] = place(v) /\ Key'[search'.idx] = j
        BY <1>11, <3>1, <3>2, <3>4
      <4> QED BY <1>3, <3>1, <4>2, <4>3, <4>4
    <3>7. Found'
      <4> SUFFICES ASSUME ~ stable, NEW w \in active' \ assigned'
                   PROVE  Key'[w] <= Key'[search'.idx]
        BY <1>1, <3>5 DEF Found
      <4>1. PICK v \in active : w = Mapped(v) BY <1>9
      <4>2. v \notin assigned BY <1>14, <4>1
      <4> QED BY <3>6, <4>1, <4>2
    <3> QED BY <1>9, <2>2, <3>2, <3>5, <3>7 DEF SearchCached
  <2> QED BY <2>1, <2>2
<1>20. QueueTypeOK'
  BY <1>1, <1>3, <1>9, <1>10, <1>15, <1>19 DEF KeyInv, QueueTypeOK
<1> QED BY <1>1, <1>13, <1>16, <1>17, <1>18, <1>19, <1>20
        DEF KeyInv, Restamping, Choosing

-----------------------------------------------------------------------------
LEMMA SequencesOf ==
    ASSUME NEW S \in SUBSET Variables
    PROVE  /\ SetToSeqs(S) \subseteq Seq(Variables)
           /\ SetToAllKPermutations(S) \subseteq Seq(Variables)
<1>1. ASSUME NEW T \in SUBSET Variables, NEW s \in SetToSeqs(T) PROVE s \in Seq(Variables)
  <2>1. Cardinality(T) \in Nat BY SubsetFinite DEF VariablesFinite
  <2>2. s \in [1 .. Cardinality(T) -> T] BY DEF SetToSeqs
  <2>3. s \in [1 .. Cardinality(T) -> Variables] BY <2>2
  <2> QED BY <2>1, <2>3
<1>2. ASSUME NEW s \in SetToAllKPermutations(S) PROVE s \in Seq(Variables)
  <2>1. PICK T \in SUBSET S : s \in SetToSeqs(T) BY DEF SetToAllKPermutations
  <2> QED BY <1>1, <2>1
<1> QED BY <1>1, <1>2

LEMMA StutterKeeps ==
    ASSUME KeyInv, UNCHANGED queueVars
    PROVE  KeyInv'
<1> USE DEF queueVars, linkVars, stateVars, loopVars
<1>1. Key' = Key BY KeyKept
<1>2. QueueTypeOK' BY DEF KeyInv, QueueTypeOK
<1>3. Stamped' BY <1>1 DEF KeyInv, Stamped, Injective
<1>4. SortedList(active, Key, prev, next, first, last)'
  BY <1>1 DEF KeyInv, SortedList, RightBefore, RightAfter
<1>5. Found' BY <1>1 DEF KeyInv, Found
<1>6. Restamping'
  <2>1. KeyVisited' = KeyVisited BY <1>1 DEF KeyVisited
  <2> QED BY <2>1 DEF KeyInv, Restamping
<1>7. Choosing' BY <1>1 DEF KeyInv, Choosing
<1> QED BY <1>2, <1>3, <1>4, <1>5, <1>6, <1>7
        DEF KeyInv, SearchCached, HeapCovers, NotRestamping

LEMMA NextKeeps ==
    ASSUME KeyInv, [QueueNext]_queueVars
    PROVE  KeyInv'
<1>1. ASSUME NEW v \in Variables, Activate(v) PROVE KeyInv'
  BY <1>1, ActivateKeeps
<1>2. ASSUME NEW v \in Variables, Fix(v) \/ Eliminate(v) PROVE KeyInv'
  BY <1>2, DeactivateKeeps
<1>3. ASSUME NEW v \in Variables, Assign(v) PROVE KeyInv'
  BY <1>3, AssignKeeps
<1>4. ASSUME NEW v \in Variables, Unassign(v) PROVE KeyInv'
  BY <1>4, UnassignKeeps
<1>5. active \in SUBSET Variables /\ retired \in SUBSET Variables
  BY DEF KeyInv, QueueTypeOK
<1>6. ASSUME NEW s \in SetToAllKPermutations(active \cup (retired \cap assigned)), BumpAnalyzed(s)
      PROVE  KeyInv'
  BY <1>5, <1>6, BumpKeeps, SequencesOf
<1>7. ASSUME NEW s \in SetToSeqs(active), ReorderFocused(s) PROVE KeyInv'
  BY <1>5, <1>7, BumpKeeps, SequencesOf
<1>8. CASE MoveToFront BY <1>8, MoveKeeps
<1>9. CASE RestampStep BY <1>9, RestampKeeps
<1>10. CASE RestampDone BY <1>10, RestampDoneKeeps
<1>11. CASE ChooseStart \/ ChooseStep \/ ChooseDone BY <1>11, ChooseKeeps
<1>12. CASE PopAssigned BY <1>12, PopKeeps
<1>13. CASE SwitchToStable \/ SwitchToFocused BY <1>13, SwitchKeeps
<1>14. CASE Compact BY <1>14, CompactKeeps
<1>15. CASE UNCHANGED queueVars BY <1>15, StutterKeeps
<1> QED
  BY <1>1, <1>2, <1>3, <1>4, <1>6, <1>7, <1>8, <1>9, <1>10, <1>11, <1>12, <1>13, <1>14,
     <1>15 DEF QueueNext

\* For every number of variables and of stamps, the list runs through the
\* active variables in the order of their stamps, also while the stamps are
\* renumbered, the search pointer has the stamp of its variable and no
\* unassigned variable is behind it in focused mode, and the heap holds every
\* unassigned variable in stable mode.
THEOREM QueueInvariant == QueueSpec => []QueueInv
<1>1. QueueInit => KeyInv BY InitKeyed
<1>2. KeyInv /\ [QueueNext]_queueVars => KeyInv' BY NextKeeps
<1>3. KeyInv => QueueInv BY KeyedInv
<1> QED BY <1>1, <1>2, <1>3, PTL DEF QueueSpec

-----------------------------------------------------------------------------
\* The refinement.  An enumeration changes with the list it enumerates, and
\* there is one for a set and its keys.

\* The sequence e lists S, a finite set of variables with natural keys.
Lists(e, S, k) ==
    /\ S \in SUBSET Variables
    /\ \A v \in S : k[v] \in Nat
    /\ Enumerates(e, S, k)

LEMMA ListsFacts ==
    ASSUME NEW e, NEW S, NEW k, Lists(e, S, k)
    PROVE  /\ Cardinality(S) \in Nat /\ IsFiniteSet(S)
           /\ e \in Seq(S) /\ Len(e) = Cardinality(S) /\ DOMAIN e = 1 .. Len(e)
           /\ ToSet(e) = S
<1>1. Cardinality(S) \in Nat /\ IsFiniteSet(S)
  BY SubsetFinite DEF Lists, VariablesFinite
<1>2. e \in [1 .. Cardinality(S) -> S] BY DEF Lists, Enumerates
<1>3. e \in Seq(S) /\ Len(e) = Cardinality(S) BY <1>1, <1>2
<1>4. \A v \in S : \E i \in 1 .. Cardinality(S) : e[i] = v
  BY DEF Lists, Enumerates
<1>5. ToSet(e) = S BY <1>2, <1>4 DEF ToSet
<1> QED BY <1>1, <1>2, <1>3, <1>5

LEMMA ListsUnique ==
    ASSUME NEW e, NEW g, NEW S, NEW k, Lists(e, S, k), Lists(g, S, k)
    PROVE  e = g
BY EnumerationUnique, ListsFacts DEF Lists

\* A variable with a larger key comes last.
LEMMA ListsAppend ==
    ASSUME NEW e, NEW S, NEW k, NEW v \in Variables, NEW k2, Lists(e, S, k), v \notin S,
           \A u \in S : k2[u] = k[u] /\ k2[u] < k2[v], k2[v] \in Nat
    PROVE  Lists(Append(e, v), S \cup {v}, k2)
<1> DEFINE N == Cardinality(S)
           a == Append(e, v)
           T == S \cup {v}
<1>1. N \in Nat /\ IsFiniteSet(S) /\ e \in Seq(S) /\ Len(e) = N
  BY ListsFacts
<1>2. Cardinality(T) = N + 1 BY <1>1, FS_AddElement
<1>3. \A i \in 1 .. N : a[i] = e[i] /\ e[i] \in S
  BY <1>1
<1>4. a[N + 1] = v /\ a \in Seq(T) /\ Len(a) = N + 1
  <2>1. e \in Seq(T)
    <3>1. S \subseteq T OBVIOUS
    <3> HIDE DEF T, N
    <3>2. e \in [1 .. N -> S] BY <1>1
    <3>3. e \in [1 .. N -> T] BY <3>1, <3>2
    <3> QED BY <1>1, <3>3
  <2>2. v \in T OBVIOUS
  <2> HIDE DEF T, N
  <2> QED BY <1>1, <2>1, <2>2
<1>5. a \in [1 .. N + 1 -> T]
  <2> HIDE DEF a, T, N
  <2> QED BY <1>4
<1>6. ASSUME NEW i \in 1 .. N + 1, NEW j \in 1 .. N + 1, i < j PROVE k2[a[i]] < k2[a[j]]
  <2>1. i \in 1 .. N BY <1>1, <1>6
  <2>2. CASE j \in 1 .. N
    <3>1. k[e[i]] < k[e[j]] BY <1>6, <2>1, <2>2 DEF Lists, Enumerates
    <3>2. a[i] = e[i] /\ e[i] \in S /\ a[j] = e[j] /\ e[j] \in S BY <1>3, <2>1, <2>2
    <3>3. k2[a[i]] = k[e[i]] /\ k2[a[j]] = k[e[j]]
      <4> HIDE DEF a, N
      <4> QED BY <3>2
    <3> QED BY <3>1, <3>3
  <2>3. CASE j = N + 1
    <3>1. a[j] = v /\ a[i] \in S BY <1>3, <1>4, <2>1, <2>3
    <3> QED BY <3>1
  <2> QED BY <1>1, <2>2, <2>3
<1>7. ASSUME NEW u \in T PROVE \E i \in 1 .. N + 1 : a[i] = u
  <2>1. CASE u = v
    <3>1. N + 1 \in 1 .. N + 1 BY <1>1
    <3> QED BY <1>4, <2>1, <3>1
  <2>2. CASE u \in S
    <3>1. PICK i \in 1 .. N : e[i] = u BY <2>2 DEF Lists, Enumerates
    <3>2. i \in 1 .. N + 1 BY <1>1
    <3> QED BY <1>3, <3>1, <3>2
  <2> QED BY <2>1, <2>2
<1>8. T \in SUBSET Variables /\ \A u \in T : k2[u] \in Nat BY DEF Lists
<1> HIDE DEF a, T, N
<1>9. Enumerates(a, T, k2) BY <1>2, <1>5, <1>6, <1>7 DEF Enumerates
<1> QED BY <1>8, <1>9 DEF Lists, a, T

LEMMA ListsWithout ==
    ASSUME NEW e, NEW S, NEW k, NEW v \in S, Lists(e, S, k)
    PROVE  Lists(RemoveAt(e, Position(e, v)), S \ {v}, k)
<1> DEFINE N == Cardinality(S)
           q == Position(e, v)
           a == RemoveAt(e, q)
           T == S \ {v}
<1>1. N \in Nat /\ IsFiniteSet(S) /\ e \in Seq(S) /\ Len(e) = N /\ DOMAIN e = 1 .. N
  BY ListsFacts
<1>2. q \in 1 .. N /\ e[q] = v
  <2>1. \E i \in 1 .. N : e[i] = v BY DEF Lists, Enumerates
  <2> HIDE DEF N
  <2>2. \E i \in DOMAIN e : e[i] = v BY <1>1, <2>1
  <2>3. q \in DOMAIN e /\ e[q] = v BY <2>2 DEF Position
  <2> QED BY <1>1, <2>3
<1>3. Cardinality(T) = N - 1 /\ N >= 1
  <2>1. Cardinality(T) = N - 1 BY <1>1, FS_RemoveElement
  <2> HIDE DEF q, N
  <2>2. N >= 1 BY <1>1, <1>2
  <2> QED BY <2>1, <2>2
<1>4. \A i, j \in 1 .. N : i < j => k[e[i]] < k[e[j]]
  BY DEF Lists, Enumerates
<1>5. \A i \in 1 .. N : e[i] \in S /\ k[e[i]] \in Nat
  BY <1>1 DEF Lists
<1> HIDE DEF q, N
<1>6. \A i \in 1 .. N : i # q => e[i] # v
  BY <1>1, <1>2, <1>4, <1>5
<1>7. /\ a \in Seq(S) /\ Len(a) = N - 1
      /\ \A i \in 1 .. N - 1 : a[i] = IF i < q THEN e[i] ELSE e[i + 1]
  <2>1. /\ SubSeq(e, 1, q - 1) \in Seq(S) /\ SubSeq(e, q + 1, N) \in Seq(S)
        /\ Len(SubSeq(e, 1, q - 1)) = q - 1 /\ Len(SubSeq(e, q + 1, N)) = N - q
        /\ \A i \in 1 .. q - 1 : SubSeq(e, 1, q - 1)[i] = e[i]
        /\ \A i \in 1 .. N - q : SubSeq(e, q + 1, N)[i] = e[i + q]
    BY <1>1, <1>2
  <2> DEFINE x == SubSeq(e, 1, q - 1)
             y == SubSeq(e, q + 1, N)
  <2>2. a = x \o y BY <1>1 DEF RemoveAt
  <2> HIDE DEF x, y
  <2>3. /\ x \in Seq(S) /\ y \in Seq(S) /\ Len(x) = q - 1 /\ Len(y) = N - q
        /\ \A i \in 1 .. q - 1 : x[i] = e[i]
        /\ \A i \in 1 .. N - q : y[i] = e[i + q]
    BY <2>1, Zenon DEF x, y
  <2> HIDE DEF a
  <2>4. a \in Seq(S) /\ Len(a) = N - 1
    <3>1. x \o y \in Seq(S) BY <2>3
    <3>2. Len(x \o y) = Len(x) + Len(y) BY <2>3
    <3>3. (q - 1) + (N - q) = N - 1 BY <1>1, <1>2
    <3> QED BY <2>2, <2>3, <3>1, <3>2, <3>3
  <2>5. ASSUME NEW i \in 1 .. N - 1 PROVE a[i] = IF i < q THEN e[i] ELSE e[i + 1]
    <3>1. CASE i < q
      <4>1. i \in 1 .. q - 1 BY <1>1, <1>2, <3>1
      <4> QED BY <1>1, <1>2, <2>2, <2>3, <3>1, <4>1
    <3>2. CASE i >= q
      <4>1. i - (q - 1) \in 1 .. N - q /\ (i - (q - 1)) + q = i + 1
        BY <1>1, <1>2, <3>2
      <4>2. a[i] = y[i - (q - 1)] BY <1>1, <1>2, <2>2, <2>3, <3>2
      <4> QED BY <1>1, <1>2, <2>3, <3>2, <4>1, <4>2
    <3> QED BY <1>1, <1>2, <3>1, <3>2
  <2> QED BY <2>4, <2>5
<1> HIDE DEF a
<1>8. a \in [1 .. N - 1 -> T]
  <2>1. a \in [1 .. N - 1 -> S] BY <1>1, <1>3, <1>7
  <2>2. ASSUME NEW i \in 1 .. N - 1 PROVE a[i] # v
    <3>1. /\ i \in 1 .. N /\ i + 1 \in 1 .. N BY <1>1
    <3>2. CASE i < q BY <1>6, <1>7, <3>1, <3>2
    <3>3. CASE ~ (i < q)
      <4>1. i + 1 # q /\ a[i] = e[i + 1] BY <1>1, <1>2, <1>7, <3>3
      <4> QED BY <1>6, <3>1, <4>1
    <3> QED BY <3>2, <3>3
  <2> QED BY <2>1, <2>2
<1>9. ASSUME NEW i \in 1 .. N - 1, NEW j \in 1 .. N - 1, i < j PROVE k[a[i]] < k[a[j]]
  <2>1. /\ i \in 1 .. N /\ i + 1 \in 1 .. N /\ j \in 1 .. N /\ j + 1 \in 1 .. N
    BY <1>1
  <2>2. PICK h \in 1 .. N : a[i] = e[h] /\ h = IF i < q THEN i ELSE i + 1
    BY <1>7, <2>1
  <2>3. PICK g \in 1 .. N : a[j] = e[g] /\ g = IF j < q THEN j ELSE j + 1
    BY <1>7, <2>1
  <2>4. h < g BY <1>1, <1>2, <1>9, <2>2, <2>3
  <2> QED BY <1>4, <2>2, <2>3, <2>4
<1>10. ASSUME NEW u \in T PROVE \E i \in 1 .. N - 1 : a[i] = u
  <2>1. PICK h \in 1 .. N : e[h] = u BY DEF Lists, Enumerates, N
  <2>2. h # q BY <1>2, <2>1
  <2>3. CASE h < q
    <3>1. h \in 1 .. N - 1 BY <1>1, <1>2, <2>3
    <3> QED BY <1>7, <2>1, <2>3, <3>1
  <2>4. CASE h > q
    <3>1. h - 1 \in 1 .. N - 1 /\ ~ (h - 1 < q) /\ (h - 1) + 1 = h BY <1>1, <1>2, <2>4
    <3>2. a[h - 1] = e[h] BY <1>7, <3>1
    <3> QED BY <2>1, <3>1, <3>2
  <2> QED BY <1>2, <2>2, <2>3, <2>4
<1>11. T \in SUBSET Variables /\ \A u \in T : k[u] \in Nat BY DEF Lists
<1> HIDE DEF T
<1>12. Enumerates(a, T, k) BY <1>3, <1>8, <1>9, <1>10 DEF Enumerates
<1> QED BY <1>11, <1>12 DEF Lists, a, q, T

LEMMA ListsRenamed ==
    ASSUME NEW e, NEW S, NEW k, NEW m, NEW k2, Lists(e, S, k),
           \A u \in S : m[u] \in Variables /\ k2[m[u]] \in Nat,
           \A u, v \in S : m[u] = m[v] => u = v,
           \A u, v \in S : k[u] < k[v] => k2[m[u]] < k2[m[v]]
    PROVE  Lists([i \in DOMAIN e |-> m[e[i]]], {m[u] : u \in S}, k2)
<1> DEFINE N == Cardinality(S)
           a == [i \in DOMAIN e |-> m[e[i]]]
           T == {m[u] : u \in S}
<1>1. N \in Nat /\ IsFiniteSet(S) /\ e \in [1 .. N -> S] /\ DOMAIN e = 1 .. N
  BY ListsFacts DEF Lists, Enumerates
<1>2. Cardinality(T) = N
  <2>1. [u \in S |-> m[u]] \in Bijection(S, T)
    <3> DEFINE b == [u \in S |-> m[u]]
    <3>1. b \in [S -> T] BY Zenon
    <3>2. b \in Injection(S, T) BY <3>1 DEF Injection, IsInjective
    <3>3. b \in Surjection(S, T)
      <4>1. \A t \in T : \E s \in S : b[s] = t OBVIOUS
      <4> QED BY <3>1, <4>1 DEF Surjection
    <3> QED BY <3>2, <3>3 DEF Bijection
  <2>2. ExistsBijection(S, T) BY <2>1 DEF ExistsBijection
  <2> HIDE DEF T
  <2> QED BY <1>1, <2>2, FS_Bijection
<1>3. a \in [1 .. N -> T] BY <1>1
<1>4. \A i, j \in 1 .. N : i < j => k2[a[i]] < k2[a[j]]
  BY <1>1 DEF Lists, Enumerates
<1>5. ASSUME NEW t \in T PROVE \E i \in 1 .. N : a[i] = t
  <2>1. PICK u \in S : t = m[u] OBVIOUS
  <2>2. PICK i \in 1 .. N : e[i] = u BY DEF Lists, Enumerates
  <2> QED BY <1>1, <2>1, <2>2
<1>6. T \in SUBSET Variables /\ \A t \in T : k2[t] \in Nat OBVIOUS
<1> HIDE DEF T, a, N
<1>7. Enumerates(a, T, k2) BY <1>2, <1>3, <1>4, <1>5 DEF Enumerates
<1> QED BY <1>6, <1>7 DEF Lists, a, T

-----------------------------------------------------------------------------
LEMMA ListedLists == KeyInv => Lists(Listed, active, Key)
<1> SUFFICES ASSUME KeyInv PROVE Lists(Listed, active, Key) OBVIOUS
<1>1. active \in SUBSET Variables /\ Key \in [Variables -> Nat]
  BY KeyType DEF KeyInv, QueueTypeOK
<1> QED BY <1>1, ListedEnumerates DEF Lists

LEMMA ListedListsNext == KeyInv' => Lists(Listed', active', Key')
<1>1. KeyInv => Lists(Listed, active, Key) BY ListedLists
<1>2. KeyInv' => Lists(Listed, active, Key)' BY <1>1, PTL
<1>3. Lists(Listed, active, Key)' => Lists(Listed', active', Key') BY DEF Lists, Enumerates
<1> QED BY <1>2, <1>3

LEMMA SameList == UNCHANGED <<active, first, next>> => Listed' = Listed
BY DEF Listed

\* What the abstract order sees of the list.
LEMMA OrderFacts ==
    ASSUME KeyInv
    PROVE  /\ Order!Active = active
           /\ \A v : Order!Without(v) = RemoveAt(Listed, Position(Listed, v))
           /\ DOMAIN Listed = 1 .. Len(Listed) /\ Len(Listed) \in Nat
           /\ \A v \in active : \E i \in DOMAIN Listed : Listed[i] = v
           /\ \A i \in DOMAIN Listed : Listed[i] \in active
           /\ \A i, j \in DOMAIN Listed : i < j => Key[Listed[i]] < Key[Listed[j]]
<1>1. Lists(Listed, active, Key) BY ListedLists
<1>2. /\ ToSet(Listed) = active /\ DOMAIN Listed = 1 .. Len(Listed)
      /\ Len(Listed) = Cardinality(active) /\ Cardinality(active) \in Nat
  BY <1>1, ListsFacts
<1>3. Order!Active = active BY <1>2 DEF Order!Active, Order!ToSet, ToSet
<1>4. \A v : Order!Without(v) = RemoveAt(Listed, Position(Listed, v))
  BY DEF Order!Without, Position, Order!RemoveAt, RemoveAt
<1>5. Enumerates(Listed, active, Key) BY <1>1 DEF Lists
<1> QED BY <1>2, <1>3, <1>4, <1>5 DEF Enumerates

\* An enqueued variable gets the largest key and the others keep theirs.
LEMMA EnqueueKeys ==
    ASSUME KeyInv, loop = "none", NEW v \in Variables,
           NEW p, NEW n, NEW f, NEW l, NEW found, EnqueueLinks(v, p, n, f, l, found)
    PROVE  \A u \in active \ {v} : Key'[u] = Key[u] /\ Key'[u] < Key'[v]
<1>1. /\ entering = None /\ \A u \in active : stamp[u] \in 1 .. MaxStamp /\ stamp[u] <= counter
      /\ v # None /\ None \notin active /\ active \subseteq Variables
      /\ stamp \in [Variables -> Nat] /\ counter \in 0 .. MaxStamp /\ MaxStamp \in Nat
  BY QueueAssumption DEF KeyInv, Stamped, NotRestamping, QueueTypeOK
<1>2. CASE counter < MaxStamp
  <2>1. stamp' = [stamp EXCEPT ![v] = counter + 1] /\ entering' = entering
    BY <1>1, <1>2 DEF EnqueueLinks, loopVars
  <2> QED BY <1>1, <1>2, <2>1 DEF Key
<1>3. CASE counter = MaxStamp
  <2>1. stamp' = stamp /\ entering' = v
    BY <1>1, <1>3 DEF EnqueueLinks
  <2> QED BY <1>1, <2>1 DEF Key
<1> QED BY <1>1, <1>2, <1>3

LEMMA ActivateOrders ==
    ASSUME KeyInv, KeyInv', NEW v \in Variables, Activate(v)
    PROVE  Order!Enqueue(v)
<1>1. /\ loop = "none" /\ v \notin active \cup retired /\ active' = active \cup {v}
      /\ EnqueueLinks(v, prev, next, first, last, search)
      /\ UNCHANGED <<assigned, answer>>
  BY DEF Activate, Calm
<1>2. v \notin assigned BY <1>1 DEF KeyInv, Stamped
<1>3. Lists(Listed, active, Key) /\ Lists(Listed', active', Key')
  BY ListedLists, ListedListsNext
<1>4. \A u \in active : Key'[u] = Key[u] /\ Key'[u] < Key'[v]
  BY <1>1, EnqueueKeys
<1>5. Key'[v] \in Nat BY <1>1, <1>3 DEF Lists
<1>6. Lists(Append(Listed, v), active \cup {v}, Key')
  BY <1>1, <1>3, <1>4, <1>5, ListsAppend
<1>7. Listed' = Append(Listed, v) BY <1>1, <1>3, <1>6, ListsUnique
<1> QED BY <1>1, <1>2, <1>7, OrderFacts DEF Order!Enqueue

LEMMA DeactivateOrders ==
    ASSUME KeyInv, KeyInv', NEW v \in Variables, Fix(v) \/ Eliminate(v)
    PROVE  Order!Dequeue(v)
<1>1. /\ v \in active /\ active' = active \ {v} /\ answer' = answer
      /\ UNCHANGED <<stamp, entering>> /\ assigned' \in {assigned, assigned \cup {v}}
  BY DEF Fix, Eliminate, Deactivate, loopVars
<1>2. Key' = Key BY <1>1, KeyKept
<1>3. Lists(Listed, active, Key) /\ Lists(Listed', active \ {v}, Key)
  BY <1>1, <1>2, ListedLists, ListedListsNext
<1>4. Lists(RemoveAt(Listed, Position(Listed, v)), active \ {v}, Key)
  BY <1>1, <1>3, ListsWithout
<1>5. Listed' = Order!Without(v) BY <1>3, <1>4, ListsUnique, OrderFacts
<1> QED BY <1>1, <1>5, OrderFacts DEF Order!Dequeue

LEMMA MoveOrders ==
    ASSUME KeyInv, KeyInv', MoveToFront
    PROVE  Order!MoveToFront(Head(bumping)) \/ UNCHANGED Order!vars
<1> DEFINE v == Head(bumping)
<1>1. /\ loop = "none" /\ v \in Variables /\ UNCHANGED <<active, assigned, answer>>
  BY DEF MoveToFront, KeyInv, QueueTypeOK, stateVars
<1>2. CASE v \notin active \/ v = last
  <2>1. UNCHANGED <<active, first, next, assigned, answer>>
    BY <1>1, <1>2 DEF MoveToFront, linkVars
  <2> QED BY <2>1, SameList DEF Order!vars
<1>3. CASE v \in active /\ v # last
  <2>1. \E p, n, f, l, found : EnqueueLinks(v, p, n, f, l, found)
    BY <1>3 DEF MoveToFront
  <2> HIDE DEF v
  <2>2. \A u \in active \ {v} : Key'[u] = Key[u] /\ Key'[u] < Key'[v]
    BY <1>1, <2>1, EnqueueKeys
  <2>3. Lists(Listed, active, Key) /\ Lists(Listed', active, Key')
    BY <1>1, ListedLists, ListedListsNext
  <2>4. Lists(Order!Without(v), active \ {v}, Key)
    BY <1>3, <2>3, ListsWithout, OrderFacts
  <2>5. Key'[v] \in Nat BY <1>3, <2>3 DEF Lists
  <2>6. Lists(Append(Order!Without(v), v), (active \ {v}) \cup {v}, Key')
    BY <1>1, <2>2, <2>4, <2>5, ListsAppend
  <2>7. (active \ {v}) \cup {v} = active BY <1>3
  <2>8. Listed' = Append(Order!Without(v), v) BY <2>3, <2>6, <2>7, ListsUnique
  <2>9. Order!MoveToFront(v)
    BY <1>1, <1>3, <2>8, OrderFacts DEF Order!MoveToFront
  <2> QED BY <2>9 DEF v
<1> QED BY <1>2, <1>3

\* An unassigned variable with the largest key is the last of the order.
LEMMA LastChosen ==
    ASSUME KeyInv, UNCHANGED <<active, first, next, assigned>>,
           answer' \in active \ assigned,
           \A v \in active \ assigned : Key[v] <= Key[answer']
    PROVE  Order!Choose
<1>1. Key \in [Variables -> Nat] /\ active \subseteq Variables
  BY KeyType DEF KeyInv, QueueTypeOK
<1>2. PICK i \in DOMAIN Listed : Listed[i] = answer' BY OrderFacts
<1>3. ASSUME NEW j \in i + 1 .. Len(Listed) PROVE Listed[j] \in assigned
  <2>1. j \in DOMAIN Listed /\ i < j /\ i \in Nat BY <1>2, OrderFacts
  <2>2. Key[Listed[i]] < Key[Listed[j]] /\ Listed[j] \in active BY <1>2, <2>1, OrderFacts
  <2> QED BY <1>1, <1>2, <2>2
<1>4. Listed' = Listed BY SameList
<1> QED BY <1>2, <1>3, <1>4 DEF Order!Choose

LEMMA ChooseOrders ==
    ASSUME KeyInv, ChooseStart \/ ChooseStep \/ ChooseDone
    PROVE  Order!Choose \/ UNCHANGED Order!vars
<1>0. UNCHANGED <<active, first, next, assigned>>
  BY DEF ChooseStart, ChooseStep, ChooseDone, linkVars, stateVars
<1>1. CASE UNCHANGED answer
  BY <1>0, <1>1, SameList DEF Order!vars
<1>2. CASE answer' = search.idx /\ ChooseStart /\ search.idx \notin assigned
  <2>1. /\ ~ stable /\ entering = None /\ active # {} /\ loop = "none"
        /\ None \notin active
    BY <1>2, QueueAssumption DEF ChooseStart, Calm, KeyInv, NotRestamping, QueueTypeOK
  <2>2. search.idx \in active BY <2>1 DEF KeyInv, SearchCached
  <2>3. \A v \in active \ assigned : Key[v] <= Key[search.idx]
    BY <2>1 DEF KeyInv, Found
  <2> QED BY <1>0, <1>2, <2>2, <2>3, LastChosen
<1>3. CASE ChooseDone
  <2>1. cursor \in active \ assigned /\ \A v \in active \ assigned : Key[v] <= Key[cursor]
    BY <1>3 DEF ChooseDone, KeyInv, Choosing
  <2>2. answer' = cursor BY <1>3 DEF ChooseDone
  <2> QED BY <1>0, <2>1, <2>2, LastChosen
<1>4. ChooseStep => UNCHANGED answer BY DEF ChooseStep
<1>5. ChooseStart => UNCHANGED answer \/ (answer' = search.idx /\ search.idx \notin assigned)
  BY DEF ChooseStart
<1> QED BY <1>1, <1>2, <1>3, <1>4, <1>5

\* The compaction keeps the order of the keys.
LEMMA CompactKeys ==
    ASSUME KeyInv, Compact
    PROVE  \A u, v \in active : Key[u] < Key[v] => Key'[Mapped(u)] < Key'[Mapped(v)]
<1>1. /\ loop = "none" /\ entering = None /\ entering' = None
  BY DEF Compact, Calm, loopVars, KeyInv, NotRestamping
<1>2. /\ QueueTypeOK /\ active \in SUBSET Variables /\ Key \in [Variables -> Nat]
      /\ None \notin Variables
  BY KeyType, QueueAssumption DEF KeyInv, QueueTypeOK
<1>3. active \subseteq Kept /\ \A v \in Kept : Mapped(v) \in Variables
  BY <1>2, MappedFacts
<1>4. \A u, v \in active : Key[u] < Key[v] => Position(Listed, u) < Position(Listed, v)
  BY <1>2, ListedEnumerates, PositionFacts
<1>5. \A v \in active : stamp'[Mapped(v)] = Position(Listed, v)
  <2> DEFINE stamps == [v \in Kept |-> IF v \in active THEN Position(Listed, v) ELSE stamp[v]]
  <2>1. stamp' = Renamed(stamp, stamps) BY DEF Compact, Position
  <2>2. \A v \in active : stamps[v] = Position(Listed, v) BY <1>3
  <2> HIDE DEF stamps
  <2>3. \A v \in Kept : Renamed(stamp, stamps)[Mapped(v)] = stamps[v]
    BY <1>2, RenamedFacts
  <2> QED BY <1>3, <2>1, <2>2, <2>3
<1>6. \A v \in active : Key'[Mapped(v)] = Position(Listed, v)
  BY <1>1, <1>2, <1>3, <1>5 DEF Key
<1> QED BY <1>4, <1>6

LEMMA CompactOrders ==
    ASSUME KeyInv, KeyInv', Compact
    PROVE  \E m \in [Variables -> Variables] : Order!Rename(m)
<1> DEFINE m == [v \in Variables |-> IF v \in Kept THEN Mapped(v) ELSE v]
<1>1. /\ active \subseteq Kept /\ Kept \subseteq Variables
      /\ \A v \in Kept : Mapped(v) \in Variables
      /\ \A u, v \in Kept : Mapped(u) = Mapped(v) => u = v
  BY MappedFacts DEF KeyInv
<1>2. m \in [Variables -> Variables] BY <1>1
<1>3. /\ \A v \in Kept : m[v] = Mapped(v)
      /\ \A u, v \in active : m[u] = m[v] => u = v
      /\ \A v \in active : m[v] \in Variables
  BY <1>1
<1>4. /\ active' = {m[v] : v \in active}
      /\ assigned' = {Mapped(v) : v \in assigned \cap Kept} /\ answer' = answer
  <2>1. /\ active' = {Mapped(v) : v \in active} /\ answer' = answer
        /\ assigned' = {Mapped(v) : v \in assigned \cap Kept}
    BY DEF Compact
  <2>2. {m[v] : v \in active} = {Mapped(v) : v \in active}
    <3> HIDE DEF m
    <3> QED BY <1>1, <1>3
  <2> QED BY <2>1, <2>2
<1> HIDE DEF m
<1>5. \A v \in active : m[v] \in assigned' <=> v \in assigned
  BY <1>1, <1>3, <1>4
<1>6. Lists(Listed, active, Key) /\ Lists(Listed', active', Key')
  BY ListedLists, ListedListsNext
<1>7. \A u, v \in active : Key[u] < Key[v] => Key'[m[u]] < Key'[m[v]]
  BY <1>1, <1>3, CompactKeys
<1>8. \A v \in active : Key'[m[v]] \in Nat
  BY <1>4, <1>6 DEF Lists
<1>9. Lists([i \in DOMAIN Listed |-> m[Listed[i]]], {m[v] : v \in active}, Key')
  BY <1>3, <1>6, <1>7, <1>8, ListsRenamed
<1>10. Listed' = [i \in DOMAIN Listed |-> m[Listed[i]]]
  BY <1>4, <1>6, <1>9, ListsUnique
<1>11. Order!Rename(m) BY <1>3, <1>4, <1>5, <1>10, OrderFacts DEF Order!Rename
<1> QED BY <1>2, <1>11

LEMMA NextOrders ==
    ASSUME KeyInv, KeyInv', [QueueNext]_queueVars
    PROVE  [Order!Next]_(Order!vars)
<1> USE DEF Order!Next
<1>1. ASSUME NEW v \in Variables, Activate(v) PROVE Order!Next
  BY <1>1, ActivateOrders
<1>2. ASSUME NEW v \in Variables, Fix(v) \/ Eliminate(v) PROVE Order!Next
  BY <1>2, DeactivateOrders
<1>3. ASSUME NEW v \in Variables, Assign(v) PROVE Order!Next
  <2>1. UNCHANGED <<active, first, next, answer>> BY <1>3 DEF Assign, linkVars
  <2> QED BY <1>3, <2>1, SameList, OrderFacts DEF Assign, Order!Assign
<1>4. ASSUME NEW v \in Variables, Unassign(v) PROVE Order!Next
  <2>1. UNCHANGED <<active, first, next, answer>> BY <1>4 DEF Unassign, linkVars
  <2> QED BY <1>4, <2>1, SameList, OrderFacts DEF Unassign, Order!Unassign
<1>5. ASSUME NEW s, BumpAnalyzed(s) \/ ReorderFocused(s) PROVE UNCHANGED Order!vars
  BY <1>5, SameList DEF BumpAnalyzed, ReorderFocused, linkVars, stateVars, Order!vars
<1>6. CASE MoveToFront
  <2>1. Head(bumping) \in Variables BY <1>6 DEF MoveToFront, KeyInv, QueueTypeOK
  <2> QED BY <1>6, <2>1, MoveOrders
<1>7. CASE RestampStep \/ RestampDone \/ PopAssigned \/ SwitchToStable \/ SwitchToFocused
  <2>1. UNCHANGED <<active, first, next, assigned, answer>>
    BY <1>7 DEF RestampStep, RestampDone, PopAssigned, SwitchToStable, SwitchToFocused,
                linkVars, stateVars
  <2> QED BY <2>1, SameList DEF Order!vars
<1>8. CASE ChooseStart \/ ChooseStep \/ ChooseDone BY <1>8, ChooseOrders
<1>9. CASE Compact BY <1>9, CompactOrders
<1>10. CASE UNCHANGED queueVars
  BY <1>10, SameList DEF queueVars, linkVars, stateVars, Order!vars
<1> QED
  BY <1>1, <1>2, <1>3, <1>4, <1>5, <1>6, <1>7, <1>8, <1>9, <1>10 DEF QueueNext

LEMMA InitOrders ==
    ASSUME QueueInit, KeyInv
    PROVE  Order!Init
<1>1. active = {} /\ assigned = {} /\ answer \in Variables BY DEF QueueInit
<1>2. Listed \in Seq({}) /\ Len(Listed) = 0
  BY <1>1, ListedLists, ListsFacts, FS_EmptySet
<1>3. Listed = <<>> BY <1>2
<1> QED BY <1>1, <1>3 DEF Order!Init

\* The queue with its search pointer and its stamps implements the order in
\* which variables were bumped: a decision takes the last unassigned variable
\* of that order, whatever was bumped, unassigned, renumbered or compacted.
THEOREM QueueImplementsOrder == QueueSpec => OrderSpec
<1>1. QueueInit => KeyInv BY InitKeyed
<1>2. KeyInv /\ [QueueNext]_queueVars => KeyInv' BY NextKeeps
<1>3. QueueInit /\ KeyInv => Order!Init BY InitOrders
<1>4. KeyInv /\ KeyInv' /\ [QueueNext]_queueVars => [Order!Next]_(Order!vars)
  BY NextOrders
<1> QED BY <1>1, <1>2, <1>3, <1>4, PTL DEF QueueSpec, OrderSpec, Order!Spec

-----------------------------------------------------------------------------
(***************************************************************************)
(* The heap stays a heap, and does what its callers expect of a set of     *)
(* scored elements.                                                        *)
(***************************************************************************)
-----------------------------------------------------------------------------
\* The tree in the stack.
LEMMA BelowLast ==
    \A n \in Nat : \A p \in 0 .. n - 1 : p # n - 1 => p \in 0 .. n - 2
OBVIOUS

LEMMA Parents ==
    ASSUME NEW p \in Nat, p > 0
    PROVE  /\ Parent(p) \in Nat
           /\ Parent(p) < p
           /\ \A q \in Nat : Parent(p) = q <=> p = Child(q) \/ p = Child(q) + 1
BY DEF Parent, Child

LEMMA Children ==
    ASSUME NEW p \in Nat
    PROVE  /\ Child(p) \in Nat /\ Child(p) > p
           /\ Parent(Child(p)) = p /\ Parent(Child(p) + 1) = p
BY DEF Parent, Child

\* A tree K of keys that is a heap but for its place a.
Near(K, n, a) ==
    \A p \in 0 .. n - 1 : p > 0 /\ p # a /\ Parent(p) # a => K[p] <= K[Parent(p)]
Over(K, n, a) ==
    a > 0 => \A c \in 1 .. n - 1 : Parent(c) = a => K[c] <= K[Parent(a)]
Below(K, n, a) == \A c \in 1 .. n - 1 : Parent(c) = a => K[c] <= K[a]
Above(K, a) == a > 0 => K[a] <= K[Parent(a)]
Complete(K, n) == \A p \in 0 .. n - 1 : p > 0 => K[p] <= K[Parent(p)]

Swapped(f, a, b) == [f EXCEPT ![a] = f[b], ![b] = f[a]]

LEMMA Rise ==
    ASSUME NEW n \in Nat, NEW K \in [0 .. n - 1 -> Int], NEW a \in 0 .. n - 1, a > 0,
           NEW b, b = Parent(a), K[b] < K[a], Near(K, n, a), Over(K, n, a)
    PROVE  LET Lo == Swapped(K, a, b)
           IN Near(Lo, n, b) /\ Over(Lo, n, b) /\ Below(Lo, n, b)
<1> DEFINE Lo == Swapped(K, a, b)
<1>1. b \in 0 .. n - 1 /\ b < a BY Parents
<1>2. /\ Lo \in [0 .. n - 1 -> Int] /\ Lo[a] = K[b] /\ Lo[b] = K[a]
      /\ \A p \in 0 .. n - 1 : p # a /\ p # b => Lo[p] = K[p]
  BY <1>1 DEF Swapped
<1> HIDE DEF Lo
<1>3. Near(Lo, n, b)
  <2> SUFFICES ASSUME NEW p \in 0 .. n - 1, p > 0, p # b, Parent(p) # b
               PROVE  Lo[p] <= Lo[Parent(p)]
    BY DEF Near
  <2>1. p # a /\ Parent(p) \in 0 .. n - 1 BY Parents, SMTT(30)
  <2>2. Lo[p] = K[p] BY <1>2, <2>1
  <2>3. CASE Parent(p) = a
    <3>1. p \in 1 .. n - 1 OBVIOUS
    <3>2. K[p] <= K[b] BY <2>3, <3>1 DEF Over
    <3> QED BY <1>2, <2>2, <2>3, <3>2
  <2>4. CASE Parent(p) # a
    <3>1. K[p] <= K[Parent(p)] BY <2>1, <2>4 DEF Near
    <3> QED BY <1>2, <2>1, <2>2, <2>4, <3>1
  <2> QED BY <2>3, <2>4
<1>4. \A c \in 1 .. n - 1 : Parent(c) = b => Lo[c] <= K[b]
  <2> SUFFICES ASSUME NEW c \in 1 .. n - 1, Parent(c) = b PROVE Lo[c] <= K[b] OBVIOUS
  <2>0. K[b] \in Int BY <1>1
  <2>1. CASE c = a BY <1>2, <2>0, <2>1
  <2>2. CASE c # a
    <3>1. c \in 0 .. n - 1 /\ c > 0 /\ c # b /\ b # a BY <1>1, Parents
    <3>2. K[c] <= K[b] BY <2>2, <3>1 DEF Near
    <3> QED BY <1>2, <2>2, <3>1, <3>2
  <2> QED BY <2>1, <2>2
<1>5. Over(Lo, n, b)
  <2> SUFFICES ASSUME b > 0, NEW c \in 1 .. n - 1, Parent(c) = b
               PROVE  Lo[c] <= Lo[Parent(b)]
    BY DEF Over
  <2>1. Parent(b) \in 0 .. n - 1 /\ Parent(b) # b /\ Parent(b) # a BY <1>1, Parents, SMTT(30)
  <2>2. K[b] <= K[Parent(b)] BY <1>1, <2>1 DEF Near
  <2>3. Lo[Parent(b)] = K[Parent(b)] BY <1>2, <2>1
  <2>4. Lo[c] <= K[b] BY <1>4
  <2>5. Lo[c] \in Int /\ K[b] \in Int /\ K[Parent(b)] \in Int BY <1>1, <1>2, <2>1
  <2> QED BY <2>2, <2>3, <2>4, <2>5
<1>6. Below(Lo, n, b)
  <2> SUFFICES ASSUME NEW c \in 1 .. n - 1, Parent(c) = b PROVE Lo[c] <= Lo[b]
    BY DEF Below
  <2>1. Lo[c] <= K[b] BY <1>4
  <2>2. Lo[c] \in Int /\ K[b] \in Int /\ K[a] \in Int BY <1>1, <1>2
  <2> QED BY <1>2, <2>1, <2>2
<1> QED BY <1>3, <1>5, <1>6 DEF Lo

LEMMA Sink ==
    ASSUME NEW n \in Nat, NEW K \in [0 .. n - 1 -> Int], NEW a \in 0 .. n - 1,
           NEW b \in 1 .. n - 1, Parent(b) = a, K[a] < K[b],
           \A c \in 1 .. n - 1 : Parent(c) = a => K[c] <= K[b],
           Near(K, n, a), Over(K, n, a)
    PROVE  LET Lo == Swapped(K, a, b)
           IN Near(Lo, n, b) /\ Over(Lo, n, b) /\ Above(Lo, b)
<1> DEFINE Lo == Swapped(K, a, b)
<1>1. b \in 0 .. n - 1 /\ a < b /\ b > 0 BY Parents
<1>2. /\ Lo \in [0 .. n - 1 -> Int] /\ Lo[a] = K[b] /\ Lo[b] = K[a]
      /\ \A p \in 0 .. n - 1 : p # a /\ p # b => Lo[p] = K[p]
  BY <1>1 DEF Swapped
<1> HIDE DEF Lo
<1>3. Near(Lo, n, b)
  <2> SUFFICES ASSUME NEW p \in 0 .. n - 1, p > 0, p # b, Parent(p) # b
               PROVE  Lo[p] <= Lo[Parent(p)]
    BY DEF Near
  <2>1. Parent(p) \in 0 .. n - 1 /\ Parent(p) < p BY Parents
  <2>2. CASE p = a
    <3>1. K[b] <= K[Parent(a)] BY <1>1, <2>2 DEF Over
    <3>2. Lo[Parent(a)] = K[Parent(a)] BY <1>2, <2>1, <2>2
    <3> QED BY <1>2, <2>2, <3>1, <3>2
  <2>3. CASE p # a /\ Parent(p) = a
    <3>1. p \in 1 .. n - 1 OBVIOUS
    <3>2. K[p] <= K[b] BY <2>3, <3>1
    <3> QED BY <1>2, <2>3, <3>2
  <2>4. CASE p # a /\ Parent(p) # a
    <3>1. K[p] <= K[Parent(p)] BY <2>4 DEF Near
    <3> QED BY <1>2, <2>1, <2>4, <3>1
  <2> QED BY <2>2, <2>3, <2>4
<1>4. Over(Lo, n, b)
  <2> SUFFICES ASSUME NEW c \in 1 .. n - 1, Parent(c) = b PROVE Lo[c] <= Lo[a]
    BY DEF Over
  <2>1. c \in 0 .. n - 1 /\ c > b /\ c > 0 BY <1>1, Parents
  <2>2. K[c] <= K[b] BY <1>1, <2>1 DEF Near
  <2> QED BY <1>1, <1>2, <2>1, <2>2
<1>5. Above(Lo, b)
  <2>1. K[a] \in Int /\ K[b] \in Int BY <1>1
  <2> QED BY <1>2, <2>1 DEF Above
<1> QED BY <1>3, <1>4, <1>5 DEF Lo

\* The key at the root is the largest.
LEMMA RootLargest ==
    ASSUME NEW n \in Nat, NEW K \in [0 .. n - 1 -> Int], Complete(K, n)
    PROVE  \A p \in 0 .. n - 1 : K[p] <= K[0]
<1> DEFINE T == {p \in 0 .. n - 1 : ~ (K[p] <= K[0])}
<1> SUFFICES ASSUME T # {} PROVE FALSE OBVIOUS
<1>1. T \in SUBSET Nat OBVIOUS
<1>2. PICK m \in T : \A k \in T : m <= k BY <1>1, LeastNatural
<1>3. m \in 0 .. n - 1 /\ m > 0 OBVIOUS
<1>4. Parent(m) \in 0 .. n - 1 /\ Parent(m) < m BY <1>3, Parents
<1>5. Parent(m) \notin T BY <1>2, <1>3, <1>4
<1>6. K[Parent(m)] <= K[0] BY <1>4, <1>5
<1>7. K[m] <= K[Parent(m)] BY <1>3 DEF Complete
<1> QED BY <1>3, <1>4, <1>6, <1>7

-----------------------------------------------------------------------------
\* A stack S of n of the elements below w, and their positions Q.
Mirrors(S, Q, n, w) ==
    /\ \A p \in 0 .. n - 1 : Q[S[p]] = p
    /\ \A e \in 0 .. w - 1 : Q[e] # Discontain => Q[e] \in 0 .. n - 1 /\ S[Q[e]] = e

LEMMA InverseSwapped ==
    ASSUME NEW n \in Nat, NEW w \in Nat, NEW s \in Nat, w <= s,
           NEW W, NEW S \in [0 .. n - 1 -> 0 .. w - 1], NEW Q \in [0 .. s - 1 -> W],
           Mirrors(S, Q, n, w), NEW a \in 0 .. n - 1, NEW b \in 0 .. n - 1, a # b
    PROVE  Mirrors(Swapped(S, a, b), [Q EXCEPT ![S[b]] = a, ![S[a]] = b], n, w)
<1> DEFINE S2 == Swapped(S, a, b)
           Q2 == [Q EXCEPT ![S[b]] = a, ![S[a]] = b]
<1>1. S[a] \in 0 .. s - 1 /\ S[b] \in 0 .. s - 1 /\ S[a] # S[b] BY DEF Mirrors
<1>2. S2[a] = S[b] /\ S2[b] = S[a] /\ \A p \in 0 .. n - 1 : p # a /\ p # b => S2[p] = S[p]
  BY DEF Swapped
<1>3. Q2[S[b]] = a /\ Q2[S[a]] = b
      /\ \A e \in 0 .. s - 1 : e # S[a] /\ e # S[b] => Q2[e] = Q[e]
  BY <1>1
<1> HIDE DEF S2, Q2
<1>4. ASSUME NEW p \in 0 .. n - 1 PROVE Q2[S2[p]] = p
  <2>1. CASE p = a \/ p = b BY <1>2, <1>3, <2>1
  <2>2. CASE p # a /\ p # b
    <3>1. S[p] \in 0 .. s - 1 /\ S[p] # S[a] /\ S[p] # S[b] BY <2>2 DEF Mirrors
    <3> QED BY <1>2, <1>3, <2>2, <3>1 DEF Mirrors
  <2> QED BY <2>1, <2>2
<1>5. ASSUME NEW e \in 0 .. w - 1, Q2[e] # Discontain
      PROVE  Q2[e] \in 0 .. n - 1 /\ S2[Q2[e]] = e
  <2>1. CASE e = S[a] \/ e = S[b] BY <1>2, <1>3, <2>1
  <2>2. CASE e # S[a] /\ e # S[b]
    <3>1. Q2[e] = Q[e] BY <1>3, <2>2
    <3>2. Q[e] \in 0 .. n - 1 /\ S[Q[e]] = e BY <1>5, <3>1 DEF Mirrors
    <3> QED BY <1>2, <2>2, <3>1, <3>2
  <2> QED BY <2>1, <2>2
<1> QED BY <1>4, <1>5 DEF Mirrors, S2, Q2

-----------------------------------------------------------------------------
\* The invariant once more, in terms of the tree and of the inverse.
HeapKey == [p \in 0 .. count - 1 |-> score[Stack[p]]]

Shaped ==
    IF dir = "rest" THEN Complete(HeapKey, count)
    ELSE /\ Near(HeapKey, count, at) /\ Over(HeapKey, count, at)
         /\ dir = "up" => Below(HeapKey, count, at)
         /\ dir = "down" => Above(HeapKey, at)

Moving == dir # "rest" => pos[idx] # Discontain

HeapIInv == TypeOK /\ Mirrors(Stack, Pos, count, vars) /\ Moving /\ ScoresDefined /\ Shaped

LEMMA StackType ==
    ASSUME TypeOK
    PROVE  /\ Stack \in [0 .. count - 1 -> 0 .. vars - 1]
           /\ Pos \in [0 .. size - 1 -> Int \cup {Garbage}]
           /\ \A e \in 0 .. vars - 1 : e \in 0 .. size - 1 /\ e \in Element
<1>1. Stack \in [0 .. count - 1 -> 0 .. vars - 1] BY DEF TypeOK, Stack
<1>2. Pos \in [0 .. size - 1 -> Int \cup {Garbage}]
  <2>1. CASE dir = "rest" BY <2>1 DEF TypeOK, Pos
  <2>2. CASE dir # "rest"
    <3>1. at \in Int /\ pos \in [0 .. size - 1 -> Int \cup {Garbage}] BY <2>2 DEF TypeOK
    <3> QED BY <2>2, <3>1 DEF Pos
  <2> QED BY <2>1, <2>2
<1>3. \A e \in 0 .. vars - 1 : e \in 0 .. size - 1 /\ e \in Element
  BY HeapAssumption DEF TypeOK, Element
<1> QED BY <1>1, <1>2, <1>3

LEMMA HeapKeyType ==
    ASSUME TypeOK, ScoresDefined
    PROVE  HeapKey \in [0 .. count - 1 -> Int]
BY StackType, HeapAssumption DEF HeapKey, ScoresDefined

LEMMA SameInvariant == HeapInv <=> HeapIInv
<1> SUFFICES ASSUME TypeOK
             PROVE  /\ PositionsInverse <=> Mirrors(Stack, Pos, count, vars) /\ Moving
                    /\ Decreasing <=> Shaped
  BY DEF HeapInv, HeapIInv
<1>1. PositionsInverse <=> Mirrors(Stack, Pos, count, vars) /\ Moving
  BY DEF PositionsInverse, Mirrors, Moving
<1>2. /\ count \in Nat
      /\ \A p \in 0 .. count - 1 : HeapKey[p] = ScoreAt(p)
      /\ dir # "rest" => at \in 0 .. count - 1
  BY DEF TypeOK, HeapKey, ScoreAt
<1>3. \A p \in 0 .. count - 1 : p > 0 =>
        /\ Parent(p) \in 0 .. count - 1
        /\ OrderedBelow(p) <=> HeapKey[p] <= HeapKey[Parent(p)]
  <2> SUFFICES ASSUME NEW p \in 0 .. count - 1, p > 0
               PROVE  /\ Parent(p) \in 0 .. count - 1
                      /\ OrderedBelow(p) <=> HeapKey[p] <= HeapKey[Parent(p)]
    OBVIOUS
  <2>1. Parent(p) \in 0 .. count - 1 BY <1>2, Parents
  <2>2. HeapKey[p] = ScoreAt(p) /\ HeapKey[Parent(p)] = ScoreAt(Parent(p)) BY <1>2, <2>1
  <2>3. OrderedBelow(p) <=> ScoreAt(p) <= ScoreAt(Parent(p)) BY DEF OrderedBelow
  <2> QED BY <2>1, <2>2, <2>3
<1>4. ~ (0 > 0) /\ \A p \in 0 .. count - 1 : p > 0 \/ OrderedBelow(p)
  BY <1>2 DEF OrderedBelow
<1>5. CASE dir = "rest"
  <2>1. Decreasing <=> \A p \in 0 .. count - 1 : OrderedBelow(p) BY <1>5 DEF Decreasing
  <2>2. Shaped <=> \A p \in 0 .. count - 1 : p > 0 => HeapKey[p] <= HeapKey[Parent(p)]
    BY <1>5 DEF Shaped, Complete
  <2> QED BY <1>1, <1>3, <1>4, <2>1, <2>2
<1>6. CASE dir # "rest"
  <2>1. (\A p \in 0 .. count - 1 :
           p = at \/ (p > 0 /\ Parent(p) = at) \/ OrderedBelow(p))
        <=> Near(HeapKey, count, at)
    BY <1>3, <1>4 DEF Near
  <2>2. at > 0 =>
         ((\A c \in ChildrenOf(at) : ScoreAt(c) <= ScoreAt(Parent(at)))
          <=> \A c \in 1 .. count - 1 : Parent(c) = at => HeapKey[c] <= HeapKey[Parent(at)])
    <3> SUFFICES ASSUME at > 0
                 PROVE ((\A c \in ChildrenOf(at) : ScoreAt(c) <= ScoreAt(Parent(at)))
          <=> \A c \in 1 .. count - 1 : Parent(c) = at => HeapKey[c] <= HeapKey[Parent(at)])
      OBVIOUS
    <3>1. HeapKey[Parent(at)] = ScoreAt(Parent(at)) BY <1>2, <1>3, <1>6
    <3>2. \A c \in 1 .. count - 1 : HeapKey[c] = ScoreAt(c) BY <1>2
    <3> QED BY <3>1, <3>2 DEF ChildrenOf
  <2>3. (\A c \in ChildrenOf(at) : OrderedBelow(c)) <=> Below(HeapKey, count, at)
    <3>1. \A c \in 1 .. count - 1 : Parent(c) = at => (OrderedBelow(c) <=> HeapKey[c] <= HeapKey[at])
      <4> SUFFICES ASSUME NEW c \in 1 .. count - 1, Parent(c) = at
                   PROVE  OrderedBelow(c) <=> HeapKey[c] <= HeapKey[at]
        OBVIOUS
      <4>1. c \in 0 .. count - 1 /\ c > 0 BY <1>2
      <4> QED BY <1>3, <4>1
    <3> QED BY <3>1 DEF ChildrenOf, Below
  <2>4. OrderedBelow(at) <=> Above(HeapKey, at)
    BY <1>2, <1>3, <1>4, <1>6 DEF Above
  <2> QED BY <1>1, <1>6, <2>1, <2>2, <2>3, <2>4 DEF Decreasing, Shaped, Over
<1> QED BY <1>5, <1>6

LEMMA InitInv == HeapInit => HeapIInv
<1> SUFFICES ASSUME HeapInit PROVE HeapIInv OBVIOUS
<1>0. /\ vars = 0 /\ count = 0 /\ size = 0 /\ dir = "rest" /\ tainted = FALSE
      /\ stack = Empty /\ pos = Empty /\ score = Empty /\ pending = <<>> /\ largest = NoElement
  BY DEF HeapInit
<1>1. \A T : Empty \in [0 .. 0 - 1 -> T]
  <2>1. 0 .. 0 - 1 = {} OBVIOUS
  <2> QED BY <2>1 DEF Empty
<1>2. TypeOK
  <2>1. pending \in Seq(Element \cup {NoElement}) BY <1>0
  <2>2. /\ stack \in [0 .. count - 1 -> 0 .. vars - 1]
        /\ pos \in [0 .. size - 1 -> Int \cup {Garbage}]
        /\ score \in [0 .. size - 1 -> Score \cup {Garbage}]
    BY <1>0, <1>1
  <2>3. 0 \in Nat /\ 0 <= 0 /\ 0 <= MaxVars BY HeapAssumption
  <2> QED BY <1>0, <2>1, <2>2, <2>3 DEF TypeOK
<1>3. Mirrors(Stack, Pos, count, vars) BY <1>0 DEF Mirrors
<1>4. ScoresDefined BY <1>0 DEF ScoresDefined
<1>5. Shaped BY <1>0 DEF Shaped, Complete
<1> QED BY <1>0, <1>2, <1>3, <1>4, <1>5 DEF HeapIInv, Moving

-----------------------------------------------------------------------------
\* The loops: an element moves into the hole and leaves one behind.
LEMMA HoleMoves ==
    ASSUME HeapIInv, dir # "rest", NEW b \in 0 .. count - 1, b # at,
           stack' = [stack EXCEPT ![at] = stack[b]],
           pos' = [pos EXCEPT ![stack[b]] = at],
           at' = b,
           UNCHANGED <<arrayVars, count, dir, idx, pending, largest>>
    PROVE  /\ TypeOK'
           /\ Mirrors(Stack, Pos, count, vars)'
           /\ ScoresDefined' /\ Moving'
           /\ HeapKey' = Swapped(HeapKey, at, b)
<1>0. /\ TypeOK /\ ScoresDefined /\ Mirrors(Stack, Pos, count, vars)
      /\ dir' = dir /\ idx' = idx /\ count' = count /\ vars' = vars /\ size' = size
      /\ score' = score /\ tainted' = tainted /\ pending' = pending /\ largest' = largest
  BY DEF HeapIInv, arrayVars
<1>1. /\ at \in 0 .. count - 1 /\ idx \in 0 .. vars - 1
      /\ count \in Nat /\ vars \in Nat /\ size \in Nat /\ vars <= size
      /\ stack \in [0 .. count - 1 -> 0 .. vars - 1]
      /\ pos \in [0 .. size - 1 -> Int \cup {Garbage}]
  BY <1>0 DEF TypeOK
<1>2. stack[b] \in 0 .. vars - 1 /\ stack[b] \in 0 .. size - 1 /\ idx \in 0 .. size - 1
  BY <1>1
<1>3. /\ stack' \in [0 .. count - 1 -> 0 .. vars - 1]
      /\ pos' \in [0 .. size - 1 -> Int \cup {Garbage}]
  BY <1>1, <1>2
<1>4. TypeOK' BY <1>0, <1>1, <1>3 DEF TypeOK
<1>5. /\ Stack = [stack EXCEPT ![at] = idx] /\ Pos = [pos EXCEPT ![idx] = at]
      /\ Stack' = [stack' EXCEPT ![b] = idx] /\ Pos' = [pos' EXCEPT ![idx] = b]
  BY <1>0 DEF Stack, Pos
<1>6. /\ Stack[at] = idx /\ Stack[b] = stack[b]
      /\ Stack \in [0 .. count - 1 -> 0 .. vars - 1]
      /\ Pos \in [0 .. size - 1 -> Int \cup {Garbage}]
  BY <1>1, <1>5, <1>0, StackType
<1>7. Stack' = Swapped(Stack, at, b) BY <1>1, <1>5, <1>6 DEF Swapped
<1>8. Pos' = [Pos EXCEPT ![Stack[b]] = at, ![Stack[at]] = b]
  BY <1>1, <1>2, <1>5, <1>6
<1>9. Mirrors(Stack, Pos, count, vars)'
  <2>1. Mirrors(Swapped(Stack, at, b), [Pos EXCEPT ![Stack[b]] = at, ![Stack[at]] = b],
                count, vars)
    BY <1>0, <1>1, <1>6, InverseSwapped
  <2> QED BY <2>1, <1>0, <1>7, <1>8
<1>10. ScoresDefined' BY <1>0 DEF ScoresDefined
<1>11. HeapKey' = Swapped(HeapKey, at, b)
  <2>1. HeapKey' = [p \in 0 .. count - 1 |-> score[Swapped(Stack, at, b)[p]]]
    BY <1>0, <1>7 DEF HeapKey
  <2>2. \A p \in 0 .. count - 1 : Swapped(Stack, at, b)[p] =
          IF p = b THEN Stack[at] ELSE IF p = at THEN Stack[b] ELSE Stack[p]
    BY <1>1, <1>6 DEF Swapped
  <2>3. Swapped(HeapKey, at, b) = [p \in 0 .. count - 1 |->
          IF p = b THEN HeapKey[at] ELSE IF p = at THEN HeapKey[b] ELSE HeapKey[p]]
    BY <1>1 DEF Swapped, HeapKey
  <2>4. \A p \in 0 .. count - 1 : HeapKey[p] = score[Stack[p]] BY DEF HeapKey
  <2> QED BY <1>1, <2>1, <2>2, <2>3, <2>4
<1>12. Moving'
  <2>1. pos[idx] # Discontain /\ at # Discontain BY <1>1 DEF HeapIInv, Moving, Discontain
  <2>2. pos'[idx] = at \/ pos'[idx] = pos[idx] BY <1>1, <1>2
  <2> QED BY <1>0, <2>1, <2>2 DEF Moving
<1> QED BY <1>4, <1>9, <1>10, <1>11, <1>12

LEMMA UpStepKeeps == HeapIInv /\ UpStep => HeapIInv'
<1> SUFFICES ASSUME HeapIInv, UpStep PROVE HeapIInv' OBVIOUS
<1> DEFINE b == Parent(at)
<1>0. TypeOK /\ ScoresDefined BY DEF HeapIInv
<1>1. /\ dir \in {"up", "updown"} /\ at > 0 /\ score[stack[b]] < score[idx]
      /\ stack' = [stack EXCEPT ![at] = stack[b]] /\ pos' = [pos EXCEPT ![stack[b]] = at]
      /\ at' = b /\ UNCHANGED <<arrayVars, count, dir, idx, pending, largest>>
      /\ dir' = dir /\ count' = count
  BY DEF UpStep, GoingUp, Rises
<1>2. at \in 0 .. count - 1 /\ count \in Nat BY <1>0, <1>1 DEF TypeOK
<1>3. b \in 0 .. count - 1 /\ b # at BY <1>1, <1>2, Parents
<1>4. /\ TypeOK' /\ Mirrors(Stack, Pos, count, vars)' /\ ScoresDefined' /\ Moving'
      /\ HeapKey' = Swapped(HeapKey, at, b)
  BY <1>1, <1>3, HoleMoves
<1>5. HeapKey[b] < HeapKey[at]
  <2>1. Stack[at] = idx /\ Stack[b] = stack[b] BY <1>0, <1>1, <1>2, <1>3 DEF Stack, TypeOK
  <2> QED BY <1>1, <1>2, <1>3, <2>1 DEF HeapKey
<1>6. Near(HeapKey, count, at) /\ Over(HeapKey, count, at) BY <1>1 DEF HeapIInv, Shaped
<1>7. HeapKey \in [0 .. count - 1 -> Int] BY <1>0, HeapKeyType
<1>8. LET Lo == Swapped(HeapKey, at, b)
      IN Near(Lo, count, b) /\ Over(Lo, count, b) /\ Below(Lo, count, b)
  BY <1>1, <1>2, <1>5, <1>6, <1>7, Rise
<1>9. Shaped'
  <2>1. Near(HeapKey', count', at') /\ Over(HeapKey', count', at') /\ Below(HeapKey', count', at')
    BY <1>1, <1>4, <1>8
  <2>2. dir' # "rest" /\ dir' # "down" BY <1>1
  <2> QED BY <2>1, <2>2 DEF Shaped
<1> QED BY <1>4, <1>9 DEF HeapIInv

\* The child that moves up has the larger key of the two.
LEMMA Larger ==
    ASSUME HeapIInv, dir = "down", Child(at) < count
    PROVE  /\ LargerChild \in 1 .. count - 1 /\ Parent(LargerChild) = at
           /\ LargerChild # at
           /\ stack[LargerChild] = Stack[LargerChild]
           /\ \A c \in 1 .. count - 1 : Parent(c) = at => HeapKey[c] <= HeapKey[LargerChild]
<1> DEFINE c1 == Child(at)
           c2 == Child(at) + 1
<1>0. TypeOK /\ ScoresDefined BY DEF HeapIInv
<1>1. at \in Nat /\ at \in 0 .. count - 1 /\ count \in Nat
      /\ stack \in [0 .. count - 1 -> 0 .. vars - 1]
  BY <1>0 DEF TypeOK
<1>2. c1 \in Nat /\ c1 > at /\ Parent(c1) = at /\ Parent(c2) = at BY <1>1, Children
<1>3. LargerChild = IF c2 < count /\ score[stack[c2]] > score[stack[c1]] THEN c2 ELSE c1
  BY DEF LargerChild
<1>4. LargerChild \in 1 .. count - 1 /\ Parent(LargerChild) = at /\ LargerChild # at
  BY <1>1, <1>2, <1>3
<1>5. \A c \in 0 .. count - 1 : c # at => stack[c] = Stack[c] /\ HeapKey[c] = score[stack[c]]
  BY <1>1 DEF Stack, HeapKey
<1>6. HeapKey \in [0 .. count - 1 -> Int] BY <1>0, HeapKeyType
<1>7. ASSUME NEW c \in 1 .. count - 1, Parent(c) = at PROVE HeapKey[c] <= HeapKey[LargerChild]
  <2>1. c = c1 \/ c = c2 BY <1>1, <1>7, Parents
  <2>2. HeapKey[c1] = score[stack[c1]] /\ c1 \in 0 .. count - 1 BY <1>1, <1>2, <1>5
  <2>3. c2 < count => HeapKey[c2] = score[stack[c2]] /\ c2 \in 0 .. count - 1 BY <1>1, <1>2, <1>5
  <2>4. CASE c2 < count
    <3> HIDE DEF c1, c2
    <3>1. HeapKey[c1] \in Int /\ HeapKey[c2] \in Int BY <1>6, <2>2, <2>3, <2>4
    <3> QED BY <1>3, <2>1, <2>2, <2>3, <2>4, <3>1
  <2>5. CASE ~ (c2 < count)
    <3>1. c = c1 BY <1>1, <1>2, <2>1, <2>5
    <3>2. LargerChild = c1 BY <1>3, <2>5
    <3> QED BY <1>6, <2>2, <3>1, <3>2
  <2> QED BY <2>4, <2>5
<1>8. stack[LargerChild] = Stack[LargerChild] BY <1>1, <1>4, <1>5
<1> QED BY <1>4, <1>7, <1>8

LEMMA DownStepKeeps == HeapIInv /\ DownStep => HeapIInv'
<1> SUFFICES ASSUME HeapIInv, DownStep PROVE HeapIInv' OBVIOUS
<1> DEFINE b == LargerChild
<1>0. TypeOK /\ ScoresDefined BY DEF HeapIInv
<1>1. /\ dir = "down" /\ Child(at) < count /\ score[stack[b]] > score[idx]
      /\ stack' = [stack EXCEPT ![at] = stack[b]] /\ pos' = [pos EXCEPT ![stack[b]] = at]
      /\ at' = b /\ UNCHANGED <<arrayVars, count, dir, idx, pending, largest>>
      /\ dir' = dir /\ count' = count
  BY DEF DownStep, Sinks
<1>2. at \in 0 .. count - 1 /\ count \in Nat BY <1>0, <1>1 DEF TypeOK
<1>3. /\ b \in 1 .. count - 1 /\ Parent(b) = at /\ b # at /\ stack[b] = Stack[b]
      /\ \A c \in 1 .. count - 1 : Parent(c) = at => HeapKey[c] <= HeapKey[b]
  BY <1>1, Larger
<1>4. b \in 0 .. count - 1 BY <1>2, <1>3
<1> HIDE DEF b
<1>5. /\ TypeOK' /\ Mirrors(Stack, Pos, count, vars)' /\ ScoresDefined' /\ Moving'
      /\ HeapKey' = Swapped(HeapKey, at, b)
  BY <1>1, <1>3, <1>4, HoleMoves
<1>6. HeapKey \in [0 .. count - 1 -> Int] BY <1>0, HeapKeyType
<1>7. HeapKey[at] < HeapKey[b]
  <2>1. Stack[at] = idx BY <1>0, <1>1, <1>2 DEF Stack, TypeOK
  <2>2. HeapKey[at] = score[idx] /\ HeapKey[b] = score[stack[b]] BY <1>2, <1>3, <1>4, <2>1 DEF HeapKey
  <2> QED BY <1>1, <1>2, <1>4, <1>6, <2>2
<1>8. Near(HeapKey, count, at) /\ Over(HeapKey, count, at) BY <1>1 DEF HeapIInv, Shaped
<1>9. LET Lo == Swapped(HeapKey, at, b)
      IN Near(Lo, count, b) /\ Over(Lo, count, b) /\ Above(Lo, b)
  BY <1>2, <1>3, <1>6, <1>7, <1>8, Sink
<1>10. Shaped'
  <2>1. Near(HeapKey', count', at') /\ Over(HeapKey', count', at') /\ Above(HeapKey', at')
    BY <1>1, <1>5, <1>9
  <2>2. dir' = "down" BY <1>1
  <2> QED BY <2>1, <2>2 DEF Shaped
<1> QED BY <1>5, <1>10 DEF HeapIInv

LEMMA PlacedKeeps ==
    ASSUME HeapIInv, dir # "rest", Placed, dir' \in {"rest", "down"}
    PROVE  /\ TypeOK' /\ Mirrors(Stack, Pos, count, vars)' /\ ScoresDefined' /\ Moving'
           /\ HeapKey' = HeapKey /\ count' = count /\ at' = at
<1>0. TypeOK /\ ScoresDefined /\ Mirrors(Stack, Pos, count, vars) BY DEF HeapIInv
<1>1. /\ stack' = [stack EXCEPT ![at] = idx] /\ pos' = [pos EXCEPT ![idx] = at]
      /\ idx' = idx /\ at' = at /\ count' = count /\ vars' = vars /\ size' = size
      /\ score' = score /\ tainted' = tainted /\ pending' = pending /\ largest' = largest
  BY DEF Placed, arrayVars
<1>2. /\ at \in 0 .. count - 1 /\ idx \in 0 .. vars - 1
      /\ vars \in Nat /\ size \in Nat /\ vars <= size /\ count \in Nat
      /\ stack \in [0 .. count - 1 -> 0 .. vars - 1]
      /\ pos \in [0 .. size - 1 -> Int \cup {Garbage}]
  BY <1>0 DEF TypeOK
<1>3. idx \in 0 .. size - 1 BY <1>2
<1>4. Stack' = Stack /\ Pos' = Pos BY <1>1, <1>2, <1>3 DEF Stack, Pos
<1>5. /\ stack' \in [0 .. count - 1 -> 0 .. vars - 1]
      /\ pos' \in [0 .. size - 1 -> Int \cup {Garbage}]
  BY <1>1, <1>2
<1>6. TypeOK' BY <1>0, <1>1, <1>2, <1>5 DEF TypeOK
<1>7. Mirrors(Stack, Pos, count, vars)' BY <1>0, <1>1, <1>4
<1>8. ScoresDefined' BY <1>0, <1>1 DEF ScoresDefined
<1>9. HeapKey' = HeapKey BY <1>1, <1>4 DEF HeapKey
<1>10. Moving' BY <1>1, <1>2, <1>3 DEF Moving, Discontain
<1> QED BY <1>1, <1>6, <1>7, <1>8, <1>9, <1>10

LEMMA UpDoneKeeps == HeapIInv /\ UpDone => HeapIInv'
<1> SUFFICES ASSUME HeapIInv, UpDone PROVE HeapIInv' OBVIOUS
<1>0. TypeOK /\ ScoresDefined BY DEF HeapIInv
<1>1. dir \in {"up", "updown"} /\ ~ Rises(at) /\ Placed
      /\ dir' = IF dir = "up" THEN "rest" ELSE "down"
  BY DEF UpDone, GoingUp
<1>2. /\ TypeOK' /\ Mirrors(Stack, Pos, count, vars)' /\ ScoresDefined' /\ Moving'
      /\ HeapKey' = HeapKey /\ count' = count /\ at' = at
  BY <1>1, PlacedKeeps
<1>3. Near(HeapKey, count, at) /\ Over(HeapKey, count, at) /\ (dir = "up" => Below(HeapKey, count, at))
  BY <1>1 DEF HeapIInv, Shaped
<1>4. at \in 0 .. count - 1 /\ count \in Nat /\ HeapKey \in [0 .. count - 1 -> Int]
  BY <1>0, <1>1, HeapKeyType DEF TypeOK
<1>5. Above(HeapKey, at)
  <2> SUFFICES ASSUME at > 0 PROVE HeapKey[at] <= HeapKey[Parent(at)] BY DEF Above
  <2>1. Parent(at) \in 0 .. count - 1 /\ Parent(at) # at BY <1>4, Parents
  <2>2. ~ (score[stack[Parent(at)]] < score[idx]) BY <1>1 DEF Rises
  <2>3. Stack[at] = idx /\ Stack[Parent(at)] = stack[Parent(at)]
    BY <1>0, <1>1, <1>4, <2>1 DEF Stack, TypeOK
  <2>4. HeapKey[at] = score[idx] /\ HeapKey[Parent(at)] = score[stack[Parent(at)]]
    BY <1>4, <2>1, <2>3 DEF HeapKey
  <2> QED BY <1>4, <2>1, <2>2, <2>4
<1>6. CASE dir = "updown"
  <2>1. dir' = "down" BY <1>1, <1>6
  <2>2. Shaped' BY <1>2, <1>3, <1>5, <2>1 DEF Shaped
  <2> QED BY <1>2, <2>2 DEF HeapIInv
<1>7. CASE dir = "up"
  <2>1. dir' = "rest" BY <1>1, <1>7
  <2>2. Complete(HeapKey, count)
    <3> SUFFICES ASSUME NEW p \in 0 .. count - 1, p > 0 PROVE HeapKey[p] <= HeapKey[Parent(p)]
      BY DEF Complete
    <3>1. CASE p = at BY <1>5, <3>1 DEF Above
    <3>2. CASE Parent(p) = at
      <4>1. p \in 1 .. count - 1 BY <1>4
      <4> QED BY <1>3, <1>7, <3>2, <4>1 DEF Below
    <3>3. CASE p # at /\ Parent(p) # at BY <1>3, <3>3 DEF Near
    <3> QED BY <3>1, <3>2, <3>3
  <2>3. Shaped' BY <1>2, <2>1, <2>2 DEF Shaped
  <2> QED BY <1>2, <2>3 DEF HeapIInv
<1> QED BY <1>1, <1>6, <1>7

LEMMA DownDoneKeeps == HeapIInv /\ DownDone => HeapIInv'
<1> SUFFICES ASSUME HeapIInv, DownDone PROVE HeapIInv' OBVIOUS
<1>0. TypeOK /\ ScoresDefined BY DEF HeapIInv
<1>1. dir = "down" /\ ~ Sinks /\ Placed /\ dir' = "rest" BY DEF DownDone
<1>2. /\ TypeOK' /\ Mirrors(Stack, Pos, count, vars)' /\ ScoresDefined' /\ Moving'
      /\ HeapKey' = HeapKey /\ count' = count /\ at' = at
  BY <1>1, PlacedKeeps
<1>3. Near(HeapKey, count, at) /\ Above(HeapKey, at) BY <1>1 DEF HeapIInv, Shaped
<1>4. at \in 0 .. count - 1 /\ at \in Nat /\ count \in Nat /\ HeapKey \in [0 .. count - 1 -> Int]
  BY <1>0, <1>1, HeapKeyType DEF TypeOK
<1>5. ASSUME NEW p \in 1 .. count - 1, Parent(p) = at PROVE HeapKey[p] <= HeapKey[at]
  <2>1. p = Child(at) \/ p = Child(at) + 1 BY <1>4, <1>5, Parents
  <2>0. Child(at) \in Nat BY <1>4, Children
  <2>2. Child(at) < count BY <1>4, <2>0, <2>1
  <2>3. /\ LargerChild \in 1 .. count - 1 /\ LargerChild # at
        /\ stack[LargerChild] = Stack[LargerChild]
        /\ HeapKey[p] <= HeapKey[LargerChild]
    BY <1>1, <1>5, <2>2, Larger
  <2>4. ~ (score[stack[LargerChild]] > score[idx]) BY <1>1, <2>2 DEF Sinks
  <2>5. Stack[at] = idx BY <1>0, <1>1, <1>4 DEF Stack, TypeOK
  <2>6. LargerChild \in 0 .. count - 1 BY <1>4, <2>3
  <2>7. HeapKey[LargerChild] = score[stack[LargerChild]] /\ HeapKey[at] = score[idx]
    BY <1>4, <2>3, <2>5, <2>6 DEF HeapKey
  <2>8. HeapKey[p] \in Int /\ HeapKey[LargerChild] \in Int /\ HeapKey[at] \in Int BY <1>4, <2>6
  <2> QED BY <2>3, <2>4, <2>7, <2>8
<1>6. Complete(HeapKey, count)
  <2> SUFFICES ASSUME NEW p \in 0 .. count - 1, p > 0 PROVE HeapKey[p] <= HeapKey[Parent(p)]
    BY DEF Complete
  <2>1. CASE p = at BY <1>3, <2>1 DEF Above
  <2>2. CASE Parent(p) = at
    <3>1. p \in 1 .. count - 1 BY <1>4
    <3> QED BY <1>5, <2>2, <3>1
  <2>3. CASE p # at /\ Parent(p) # at BY <1>3, <2>3 DEF Near
  <2> QED BY <2>1, <2>2, <2>3
<1>7. Shaped' BY <1>1, <1>2, <1>6 DEF Shaped
<1> QED BY <1>2, <1>7 DEF HeapIInv

-----------------------------------------------------------------------------
\* The calls, which start when nothing bubbles.
LEMMA AtRest ==
    ASSUME HeapIInv, dir = "rest"
    PROVE  /\ Stack = stack /\ Pos = pos
           /\ Mirrors(stack, pos, count, vars)
           /\ HeapKey = [p \in 0 .. count - 1 |-> score[stack[p]]]
           /\ Complete(HeapKey, count)
           /\ TypeOK /\ ScoresDefined
BY DEF HeapIInv, Stack, Pos, HeapKey, Shaped

\* A call that lets an element bubble has written it to its first place.
LEMMA Started ==
    ASSUME TypeOK', dir' = "rest" \/ (stack'[at'] = idx' /\ pos'[idx'] = at')
    PROVE  Stack' = stack' /\ Pos' = pos' /\ Moving'
<1>1. Stack' = stack' /\ Pos' = pos' BY DEF TypeOK, Stack, Pos
<1>2. dir' # "rest" => at' # Discontain BY DEF TypeOK, Discontain
<1> QED BY <1>1, <1>2 DEF Moving

LEMMA Either ==
    ASSUME NEW w \in Nat, NEW v \in Nat
    PROVE  \A p \in 0 .. v - 1 : p \in 0 .. w - 1 \/ p \in w .. v - 1
OBVIOUS

LEMMA Initial ==
    ASSUME NEW w \in Nat, NEW v \in Nat, w <= v
    PROVE  \A p \in 0 .. w - 1 : p \in 0 .. v - 1
OBVIOUS

LEMMA InverseWider ==
    ASSUME NEW n \in Nat, NEW w \in Nat, NEW v \in Nat, w <= v, NEW S, NEW Q, NEW R,
           S \in [0 .. n - 1 -> 0 .. w - 1],
           Mirrors(S, Q, n, w),
           \A e \in 0 .. w - 1 : R[e] = Q[e],
           \A e \in w .. v - 1 : R[e] = Discontain
    PROVE  Mirrors(S, R, n, v)
<1>1. \A p \in 0 .. n - 1 : S[p] \in 0 .. w - 1 OBVIOUS
<1>2. \A e \in 0 .. v - 1 : e \in 0 .. w - 1 \/ e \in w .. v - 1 OBVIOUS
<1> QED BY <1>1, <1>2 DEF Mirrors

\* What importing e leaves in arrays P and F of n words.
LEMMA Imports ==
    ASSUME TypeOK, NEW e \in Element, NEW n \in Nat, e < n, vars <= n,
           NEW P \in [0 .. n - 1 -> Int \cup {Garbage}],
           NEW F \in [0 .. n - 1 -> Score \cup {Garbage}],
           ~ tainted => \A p \in 0 .. n - 1 : F[p] = 0
    PROVE  /\ VarsWith(e) \in Nat /\ vars <= VarsWith(e) /\ e < VarsWith(e)
           /\ VarsWith(e) <= n /\ VarsWith(e) <= MaxVars
           /\ ImportedPos(P, e) \in [0 .. n - 1 -> Int \cup {Garbage}]
           /\ ImportedScores(F, e) \in [0 .. n - 1 -> Score \cup {Garbage}]
           /\ \A p \in 0 .. vars - 1 :
                ImportedPos(P, e)[p] = P[p] /\ ImportedScores(F, e)[p] = F[p]
           /\ \A p \in vars .. VarsWith(e) - 1 :
                ImportedPos(P, e)[p] = Discontain /\ ImportedScores(F, e)[p] = 0
           /\ ~ tainted => \A p \in 0 .. n - 1 : ImportedScores(F, e)[p] = 0
<1>0. vars \in Nat /\ vars <= MaxVars /\ e \in Nat /\ e < MaxVars /\ MaxVars \in Nat /\ 0 \in Score
  BY HeapAssumption DEF TypeOK, Element
<1>1. VarsWith(e) \in Nat /\ vars <= VarsWith(e) /\ e < VarsWith(e)
      /\ VarsWith(e) <= n /\ VarsWith(e) <= MaxVars
      /\ \A p \in Int : vars <= p /\ p <= e <=> p \in vars .. VarsWith(e) - 1
  BY <1>0 DEF VarsWith
<1>2. /\ ImportedPos(P, e) =
           [p \in 0 .. n - 1 |-> IF vars <= p /\ p <= e THEN Discontain ELSE P[p]]
      /\ ImportedScores(F, e) =
           [p \in 0 .. n - 1 |-> IF tainted /\ vars <= p /\ p <= e THEN 0 ELSE F[p]]
  <2>1. DOMAIN P = 0 .. n - 1 /\ DOMAIN F = 0 .. n - 1 OBVIOUS
  <2>2. CASE tainted BY <2>1, <2>2 DEF ImportedPos, ImportedScores, Imported
  <2>3. CASE ~ tainted
    <3>1. F = [p \in 0 .. n - 1 |-> F[p]] OBVIOUS
    <3> QED BY <2>1, <2>3, <3>1 DEF ImportedPos, ImportedScores, Imported
  <2> QED BY <2>2, <2>3
<1>3. /\ ImportedPos(P, e) \in [0 .. n - 1 -> Int \cup {Garbage}]
      /\ ImportedScores(F, e) \in [0 .. n - 1 -> Score \cup {Garbage}]
  BY <1>0, <1>2 DEF Discontain
<1>4. \A p \in 0 .. vars - 1 : p \in 0 .. n - 1 /\ ~ (vars <= p) BY <1>0
<1>5. \A p \in vars .. VarsWith(e) - 1 : p \in 0 .. n - 1 /\ vars <= p /\ p <= e
  BY <1>0, <1>1
<1>6. \A p \in 0 .. vars - 1 :
        ImportedPos(P, e)[p] = P[p] /\ ImportedScores(F, e)[p] = F[p]
  BY <1>2, <1>4
<1>7. \A p \in vars .. VarsWith(e) - 1 :
        ImportedPos(P, e)[p] = Discontain /\ ImportedScores(F, e)[p] = 0
  BY <1>2, <1>5
<1>8. ~ tainted => \A p \in 0 .. n - 1 : ImportedScores(F, e)[p] = 0 BY <1>2
<1> QED BY <1>1, <1>3, <1>6, <1>7, <1>8

LEMMA Grows ==
    ASSUME TypeOK, ScoresDefined, NEW n \in Nat, size < n
    PROVE  /\ Grown(pos, n) \in [0 .. n - 1 -> Int \cup {Garbage}]
           /\ GrownScores(n) \in [0 .. n - 1 -> Score \cup {Garbage}]
           /\ \A p \in 0 .. vars - 1 :
                Grown(pos, n)[p] = pos[p] /\ GrownScores(n)[p] = score[p]
           /\ ~ tainted => \A p \in 0 .. n - 1 : GrownScores(n)[p] = 0
<1>0. vars \in Nat /\ size \in Nat /\ vars <= size /\ 0 \in Score
      /\ pos \in [0 .. size - 1 -> Int \cup {Garbage}]
      /\ score \in [0 .. size - 1 -> Score \cup {Garbage}]
  BY HeapAssumption DEF TypeOK
<1>1. \A p \in 0 .. n - 1 : p < size => p \in 0 .. size - 1 BY <1>0
<1>2. \A p \in 0 .. vars - 1 : p \in 0 .. n - 1 /\ p < size /\ p \in 0 .. size - 1 BY <1>0
<1>3. /\ Grown(pos, n) \in [0 .. n - 1 -> Int \cup {Garbage}]
      /\ Grown(score, n) \in [0 .. n - 1 -> Score \cup {Garbage}]
  BY <1>0, <1>1 DEF Grown
<1>4. /\ \A p \in 0 .. vars - 1 : Grown(pos, n)[p] = pos[p] /\ Grown(score, n)[p] = score[p]
  BY <1>2 DEF Grown
<1>5. CASE tainted BY <1>3, <1>4, <1>5 DEF GrownScores
<1>6. CASE ~ tainted
  <2>1. GrownScores(n) = [p \in 0 .. n - 1 |-> 0] BY <1>6 DEF GrownScores, FreshScores
  <2>2. \A p \in 0 .. vars - 1 : score[p] = 0 BY <1>2, <1>6 DEF ScoresDefined
  <2> QED BY <1>0, <1>2, <1>3, <1>4, <1>6, <2>1, <2>2
<1> QED BY <1>5, <1>6

\* A call that imports elements, and changes neither the stack nor the
\* scores on it.
LEMMA Wider ==
    ASSUME HeapIInv, dir = "rest", TypeOK', ScoresDefined', UNCHANGED <<count, stack>>,
           vars <= vars', dir' = "rest",
           \A p \in 0 .. vars - 1 : pos'[p] = pos[p],
           \A p \in vars .. vars' - 1 : pos'[p] = Discontain,
           \A p \in 0 .. count - 1 : score'[stack[p]] = score[stack[p]]
    PROVE  HeapIInv'
<1>1. /\ Mirrors(stack, pos, count, vars) /\ Complete(HeapKey, count)
      /\ HeapKey = [p \in 0 .. count - 1 |-> score[stack[p]]]
  BY AtRest
<1>2. /\ vars \in Nat /\ vars' \in Nat /\ count \in Nat
      /\ stack \in [0 .. count - 1 -> 0 .. vars - 1]
  BY DEF HeapIInv, TypeOK
<1>3. Mirrors(stack, pos', count, vars') BY <1>1, <1>2, InverseWider
<1>4. Stack' = stack /\ Pos' = pos' BY DEF Stack, Pos
<1>5. Mirrors(Stack, Pos, count, vars)' BY <1>3, <1>4
<1>6. HeapKey' = HeapKey BY <1>1, <1>4 DEF HeapKey
<1>7. Shaped' BY <1>1, <1>6 DEF Shaped
<1> QED BY <1>5, <1>7 DEF HeapIInv, Moving

LEMMA ResizeKeeps == ASSUME NEW n \in 1 .. MaxSize, HeapIInv, Resize(n) PROVE HeapIInv'
<1>1. /\ dir = "rest" /\ size < n /\ size' = n /\ pos' = Grown(pos, n)
      /\ score' = GrownScores(n)
      /\ vars' = vars /\ tainted' = tainted /\ count' = count /\ stack' = stack
      /\ dir' = dir /\ idx' = idx /\ at' = at /\ pending' = pending /\ largest' = largest
  BY DEF Resize, Idle, bubbleVars
<1>2. TypeOK /\ ScoresDefined BY DEF HeapIInv
<1>3. n \in Nat /\ vars \in Nat /\ vars <= n BY <1>1, <1>2 DEF TypeOK
<1>4. /\ pos' \in [0 .. n - 1 -> Int \cup {Garbage}]
      /\ score' \in [0 .. n - 1 -> Score \cup {Garbage}]
      /\ \A p \in 0 .. vars - 1 : pos'[p] = pos[p] /\ score'[p] = score[p]
      /\ ~ tainted => \A p \in 0 .. n - 1 : score'[p] = 0
  BY <1>1, <1>2, <1>3, Grows
<1>5. TypeOK' BY <1>1, <1>2, <1>3, <1>4 DEF TypeOK
<1>6. ScoresDefined' BY <1>1, <1>2, <1>4 DEF ScoresDefined
<1>7. \A p \in 0 .. count - 1 : score'[stack[p]] = score[stack[p]]
  BY <1>2, <1>4 DEF TypeOK
<1>8. vars <= vars' /\ \A p \in vars .. vars' - 1 : pos'[p] = Discontain BY <1>1, <1>3
<1> QED BY <1>1, <1>4, <1>5, <1>6, <1>7, <1>8, Wider

\* What kissat_adjust_heap leaves in the arrays.
LEMMA Adjusts ==
    ASSUME NEW e \in Element, TypeOK, ScoresDefined, Adjust(e)
    PROVE  /\ vars' \in Nat /\ vars <= vars' /\ vars' <= size' /\ vars' <= MaxVars
           /\ size' \in Nat
           /\ pos' \in [0 .. size' - 1 -> Int \cup {Garbage}]
           /\ score' \in [0 .. size' - 1 -> Score \cup {Garbage}]
           /\ \A p \in 0 .. vars - 1 : pos'[p] = pos[p] /\ score'[p] = score[p]
           /\ \A p \in vars .. vars' - 1 : pos'[p] = Discontain /\ score'[p] = 0
           /\ ~ tainted => \A p \in 0 .. size' - 1 : score'[p] = 0
<1>1. vars <= e /\ vars' = e + 1 BY DEF Adjust
<1>3. /\ vars \in Nat /\ size \in Nat /\ vars <= size
      /\ pos \in [0 .. size - 1 -> Int \cup {Garbage}]
      /\ score \in [0 .. size - 1 -> Score \cup {Garbage}]
      /\ ~ tainted => \A p \in 0 .. size - 1 : score[p] = 0
  BY DEF TypeOK, ScoresDefined
<1>4. PICK n, P, F :
        /\ n \in Nat
        /\ P \in [0 .. n - 1 -> Int \cup {Garbage}]
        /\ F \in [0 .. n - 1 -> Score \cup {Garbage}]
        /\ size' = n /\ e < n /\ vars <= n
        /\ pos' = ImportedPos(P, e) /\ score' = ImportedScores(F, e)
        /\ \A p \in 0 .. vars - 1 : P[p] = pos[p] /\ F[p] = score[p]
        /\ ~ tainted => \A p \in 0 .. n - 1 : F[p] = 0
  <2>1. CASE e < size
    <3>1. size' = size /\ pos' = ImportedPos(pos, e) /\ score' = ImportedScores(score, e)
      BY <2>1 DEF Adjust
    <3> QED BY <1>3, <2>1, <3>1
  <2>2. CASE ~ (e < size)
    <3>1. PICK n \in e + 1 .. MaxSize :
            /\ size' = n /\ pos' = ImportedPos(Grown(pos, n), e)
            /\ score' = ImportedScores(GrownScores(n), e)
      BY <2>2 DEF Adjust
    <3>2. n \in Nat /\ size < n /\ e < n /\ vars <= n BY <1>3, <2>2, HeapAssumption DEF Element
    <3>3. /\ Grown(pos, n) \in [0 .. n - 1 -> Int \cup {Garbage}]
          /\ GrownScores(n) \in [0 .. n - 1 -> Score \cup {Garbage}]
          /\ \A p \in 0 .. vars - 1 :
               Grown(pos, n)[p] = pos[p] /\ GrownScores(n)[p] = score[p]
          /\ ~ tainted => \A p \in 0 .. n - 1 : GrownScores(n)[p] = 0
      BY <3>2, Grows
    <3> QED BY <3>1, <3>2, <3>3
  <2> QED BY <2>1, <2>2
<1>5. /\ VarsWith(e) = vars' /\ vars' \in Nat /\ vars <= vars' /\ vars' <= n /\ vars' <= MaxVars
      /\ pos' \in [0 .. n - 1 -> Int \cup {Garbage}]
      /\ score' \in [0 .. n - 1 -> Score \cup {Garbage}]
      /\ \A p \in 0 .. vars - 1 : pos'[p] = P[p] /\ score'[p] = F[p]
      /\ \A p \in vars .. vars' - 1 : pos'[p] = Discontain /\ score'[p] = 0
      /\ ~ tainted => \A p \in 0 .. n - 1 : score'[p] = 0
  <2>1. VarsWith(e) = vars' BY <1>1 DEF VarsWith
  <2>2. e < n /\ vars <= n BY <1>4
  <2> HIDE DEF VarsWith
  <2> QED BY <1>4, <2>1, <2>2, Imports
<1> QED BY <1>4, <1>5

LEMMA AdjustKeeps == ASSUME NEW e \in Element, HeapIInv, Adjust(e) PROVE HeapIInv'
<1>1. /\ dir = "rest" /\ tainted' = tainted /\ count' = count /\ stack' = stack
      /\ dir' = dir /\ idx' = idx /\ at' = at /\ pending' = pending /\ largest' = largest
  BY DEF Adjust, Idle, bubbleVars
<1>2. TypeOK /\ ScoresDefined BY DEF HeapIInv
<1>3. vars \in Nat /\ count \in Nat /\ stack \in [0 .. count - 1 -> 0 .. vars - 1]
  BY <1>2 DEF TypeOK
<1>4. /\ vars' \in Nat /\ vars <= vars' /\ vars' <= size' /\ vars' <= MaxVars
      /\ size' \in Nat
      /\ pos' \in [0 .. size' - 1 -> Int \cup {Garbage}]
      /\ score' \in [0 .. size' - 1 -> Score \cup {Garbage}]
      /\ \A p \in 0 .. vars - 1 : pos'[p] = pos[p] /\ score'[p] = score[p]
      /\ \A p \in vars .. vars' - 1 : pos'[p] = Discontain /\ score'[p] = 0
      /\ ~ tainted => \A p \in 0 .. size' - 1 : score'[p] = 0
  BY <1>2, Adjusts
<1>5. TypeOK'
  <2>1. stack \in [0 .. count - 1 -> 0 .. vars' - 1] BY <1>3, <1>4
  <2> QED BY <1>1, <1>2, <1>4, <2>1 DEF TypeOK
<1>6. ScoresDefined'
  <2>1. \A p \in 0 .. vars' - 1 : p \in 0 .. vars - 1 \/ p \in vars .. vars' - 1
    BY <1>3, <1>4, Either
  <2>2. \A p \in 0 .. vars' - 1 : score'[p] \in Score
    BY <1>2, <1>4, <2>1, HeapAssumption DEF ScoresDefined
  <2> QED BY <1>1, <1>4, <2>2 DEF ScoresDefined
<1>7. \A p \in 0 .. count - 1 : score'[stack[p]] = score[stack[p]] BY <1>3, <1>4
<1> QED BY <1>1, <1>4, <1>5, <1>6, <1>7, Wider

LEMMA ReleaseKeeps == HeapIInv /\ Release => HeapIInv'
<1> SUFFICES ASSUME HeapIInv, Release PROVE HeapIInv' OBVIOUS
<1>0. /\ vars' = 0 /\ count' = 0 /\ size' = 0 /\ dir' = "rest" /\ tainted' = FALSE
      /\ stack' = Empty /\ pos' = Empty /\ score' = Empty /\ pending' = pending /\ largest' = NoElement
  BY DEF Release, Idle, bubbleVars
<1>1. \A T : Empty \in [0 .. 0 - 1 -> T]
  <2>1. 0 .. 0 - 1 = {} OBVIOUS
  <2> QED BY <2>1 DEF Empty
<1>2. TypeOK'
  <2>1. pending' \in Seq(Element \cup {NoElement}) BY <1>0 DEF HeapIInv, TypeOK
  <2>2. /\ stack' \in [0 .. count' - 1 -> 0 .. vars' - 1]
        /\ pos' \in [0 .. size' - 1 -> Int \cup {Garbage}]
        /\ score' \in [0 .. size' - 1 -> Score \cup {Garbage}]
    BY <1>0, <1>1
  <2>3. 0 \in Nat /\ 0 <= 0 /\ 0 <= MaxVars BY HeapAssumption
  <2> QED BY <1>0, <2>1, <2>2, <2>3 DEF TypeOK
<1>3. Mirrors(Stack, Pos, count, vars)' BY <1>0 DEF Mirrors
<1>4. ScoresDefined' BY <1>0 DEF ScoresDefined
<1>5. Shaped' BY <1>0 DEF Shaped, Complete
<1> QED BY <1>0, <1>2, <1>3, <1>4, <1>5 DEF HeapIInv, Moving

LEMMA RescaleKeeps == ASSUME NEW f \in [Score -> Score], HeapIInv, Rescale(f) PROVE HeapIInv'
<1>1. /\ dir = "rest" /\ Monotone(f)
      /\ score' = [p \in DOMAIN score |-> IF p < vars THEN f[score[p]] ELSE score[p]]
      /\ vars' = vars /\ tainted' = tainted /\ count' = count /\ stack' = stack
      /\ dir' = dir /\ idx' = idx /\ at' = at /\ pending' = pending /\ largest' = NoElement
      /\ size' = size /\ pos' = pos
  BY DEF Rescale, Idle, bubbleVars
<1>2. TypeOK /\ ScoresDefined BY DEF HeapIInv
<1>3. /\ vars \in Nat /\ size \in Nat /\ vars <= size /\ count \in Nat
      /\ score \in [0 .. size - 1 -> Score \cup {Garbage}]
      /\ stack \in [0 .. count - 1 -> 0 .. vars - 1]
  BY <1>2 DEF TypeOK
<1>4. \A p \in 0 .. vars - 1 : p \in 0 .. size - 1 /\ p < vars /\ score[p] \in Score
  BY <1>2, <1>3 DEF ScoresDefined
<1>5. \A p \in 0 .. size - 1 : p < vars => p \in 0 .. vars - 1 BY <1>3
<1>6. /\ score' \in [0 .. size - 1 -> Score \cup {Garbage}]
      /\ \A p \in 0 .. vars - 1 : score'[p] = f[score[p]] /\ score'[p] \in Score
  BY <1>1, <1>3, <1>4, <1>5
<1>7. TypeOK' BY <1>1, <1>2, <1>6 DEF TypeOK
<1>8. ScoresDefined'
  <2>1. ~ tainted => \A p \in 0 .. size - 1 : score'[p] = 0
    BY <1>1, <1>2, <1>3 DEF ScoresDefined, Monotone
  <2> QED BY <1>1, <1>6, <2>1 DEF ScoresDefined
<1>9. Stack' = stack /\ Pos' = pos BY <1>1 DEF Stack, Pos
<1>10. Mirrors(Stack, Pos, count, vars)' BY <1>1, <1>9, AtRest
<1>11. Shaped'
  <2>1. HeapKey' = [p \in 0 .. count - 1 |-> score'[stack[p]]] BY <1>1, <1>9 DEF HeapKey
  <2>2. Complete(HeapKey, count) /\ HeapKey = [p \in 0 .. count - 1 |-> score[stack[p]]]
    BY <1>1, AtRest
  <2>3. ASSUME NEW p \in 0 .. count - 1, p > 0 PROVE HeapKey'[p] <= HeapKey'[Parent(p)]
    <3>0. count \in Nat /\ p \in Nat BY <1>3
    <3>1. Parent(p) \in 0 .. count - 1 BY <2>3, <3>0, Parents
    <3>2. /\ HeapKey'[p] = f[score[stack[p]]]
          /\ HeapKey'[Parent(p)] = f[score[stack[Parent(p)]]]
      BY <1>3, <1>6, <2>1, <3>1
    <3>3. score[stack[p]] <= score[stack[Parent(p)]] BY <2>2, <2>3, <3>1 DEF Complete
    <3>4. score[stack[p]] \in Score /\ score[stack[Parent(p)]] \in Score BY <1>3, <1>4, <3>1
    <3> QED BY <1>1, <3>2, <3>3, <3>4 DEF Monotone
  <2> QED BY <1>1, <2>3 DEF Shaped, Complete
<1> QED BY <1>1, <1>7, <1>8, <1>10, <1>11 DEF HeapIInv, Moving

\* The stack and its inverse after e is pushed.
PushMirrors(S, Q, n, w, e) ==
    Mirrors([p \in 0 .. n |-> IF p = n THEN e ELSE S[p]], [Q EXCEPT ![e] = n], n + 1, w)

LEMMA InversePushed ==
    ASSUME NEW n \in Nat, NEW w \in Nat, NEW s \in Nat, w <= s, NEW W,
           NEW S \in [0 .. n - 1 -> 0 .. w - 1], NEW Q \in [0 .. s - 1 -> W],
           Mirrors(S, Q, n, w), NEW e \in 0 .. w - 1, Q[e] = Discontain
    PROVE  PushMirrors(S, Q, n, w, e)
<1> DEFINE S2 == [p \in 0 .. n |-> IF p = n THEN e ELSE S[p]]
           Q2 == [Q EXCEPT ![e] = n]
<1>1. S2[n] = e /\ (\A p \in 0 .. n - 1 : S2[p] = S[p]) BY 0 .. n - 1 \subseteq 0 .. n
<1>2. Q2[e] = n /\ (\A d \in 0 .. w - 1 : d # e => Q2[d] = Q[d]) OBVIOUS
<1>3. \A p \in 0 .. (n + 1) - 1 : p = n \/ p \in 0 .. n - 1 OBVIOUS
<1>4. n \in 0 .. (n + 1) - 1 /\ 0 .. n - 1 \subseteq 0 .. (n + 1) - 1 OBVIOUS
<1> HIDE DEF S2, Q2
<1>5. \A p \in 0 .. n - 1 : S[p] \in 0 .. w - 1 /\ S[p] # e
  <2> TAKE p \in 0 .. n - 1
  <2>1. Q[S[p]] = p BY DEF Mirrors
  <2>2. p # Discontain BY DEF Discontain
  <2> QED BY <2>1, <2>2
<1>6. \A p \in 0 .. (n + 1) - 1 : Q2[S2[p]] = p
  <2>1. \A p \in 0 .. n - 1 : Q2[S2[p]] = p BY <1>1, <1>2, <1>5 DEF Mirrors
  <2>2. Q2[S2[n]] = n BY <1>1, <1>2
  <2> QED BY <1>3, <2>1, <2>2
<1>7. \A d \in 0 .. w - 1 : Q2[d] # Discontain => Q2[d] \in 0 .. (n + 1) - 1 /\ S2[Q2[d]] = d
  BY <1>1, <1>2, <1>4 DEF Mirrors
<1>8. Mirrors(S2, Q2, n + 1, w) BY <1>6, <1>7 DEF Mirrors
<1> QED BY <1>8 DEF PushMirrors, S2, Q2

LEMMA InverseRemoved ==
    ASSUME NEW n \in Nat, n > 0, NEW w \in Nat, NEW s \in Nat, w <= s, NEW W,
           NEW S \in [0 .. n - 1 -> 0 .. w - 1], NEW Q \in [0 .. s - 1 -> W],
           Mirrors(S, Q, n, w), NEW e \in 0 .. w - 1, Q[e] # Discontain,
           NEW S2, S2 = [p \in 0 .. n - 2 |-> IF p = Q[e] THEN S[n - 1] ELSE S[p]],
           NEW Q2, Q2 = IF S[n - 1] = e THEN [Q EXCEPT ![e] = Discontain]
                        ELSE [Q EXCEPT ![e] = Discontain, ![S[n - 1]] = Q[e]]
    PROVE  Mirrors(S2, Q2, n - 1, w)
<1> DEFINE q == Q[e]
           lastPlace == S[n - 1]
<1>1. /\ q \in 0 .. n - 1 /\ S[q] = e /\ lastPlace \in 0 .. w - 1
      /\ e \in 0 .. s - 1 /\ lastPlace \in 0 .. s - 1 /\ n - 1 \in 0 .. n - 1
      /\ (n - 1) - 1 = n - 2
  BY DEF Mirrors
<1>2. Q[lastPlace] = n - 1 /\ (lastPlace = e <=> q = n - 1) BY <1>1 DEF Mirrors
<1>3. /\ Q2[e] = Discontain
      /\ lastPlace # e => Q2[lastPlace] = q
      /\ \A d \in 0 .. w - 1 : d # e /\ d # lastPlace => Q2[d] = Q[d]
  <2>1. \A d \in 0 .. w - 1 : d \in 0 .. s - 1 OBVIOUS
  <2>2. CASE lastPlace = e
    <3>1. Q2 = [Q EXCEPT ![e] = Discontain] BY <2>2
    <3> QED BY <1>1, <2>1, <2>2, <3>1
  <2>3. CASE lastPlace # e
    <3>1. Q2 = [Q EXCEPT ![e] = Discontain, ![lastPlace] = q] BY <2>3
    <3> HIDE DEF lastPlace, q
    <3> QED BY <1>1, <2>1, <2>3, <3>1
  <2> QED BY <2>2, <2>3
<1>4. \A p \in 0 .. n - 2 : p \in 0 .. n - 1 /\ S2[p] = IF p = q THEN lastPlace ELSE S[p] OBVIOUS
<1> HIDE DEF q, lastPlace
<1>5. ASSUME NEW p \in 0 .. n - 2 PROVE Q2[S2[p]] = p
  <2>1. p \in 0 .. n - 1 /\ p # n - 1 /\ Q[S[p]] = p /\ S[p] \in 0 .. w - 1 BY DEF Mirrors
  <2>2. CASE p = q BY <1>2, <1>3, <1>4, <2>1, <2>2
  <2>3. CASE p # q
    <3>1. S[p] # e /\ S[p] # lastPlace BY <1>2, <2>1, <2>3 DEF q
    <3> QED BY <1>3, <1>4, <2>1, <2>3, <3>1
  <2> QED BY <2>2, <2>3
<1>6. ASSUME NEW d \in 0 .. w - 1, Q2[d] # Discontain
      PROVE  Q2[d] \in 0 .. n - 2 /\ S2[Q2[d]] = d
  <2>1. d # e BY <1>3, <1>6
  <2>2. CASE d = lastPlace
    <3>1. Q2[d] = q /\ q # n - 1 BY <1>2, <1>3, <2>1, <2>2
    <3>2. q \in 0 .. n - 2 BY <1>1, <3>1
    <3> QED BY <1>4, <2>2, <3>1, <3>2
  <2>3. CASE d # lastPlace
    <3>1. Q2[d] = Q[d] BY <1>3, <2>1, <2>3
    <3>2. Q[d] \in 0 .. n - 1 /\ S[Q[d]] = d BY <1>6, <3>1 DEF Mirrors
    <3>3. Q[d] # n - 1 /\ Q[d] # q BY <1>1, <2>1, <2>3, <3>2 DEF lastPlace
    <3>4. Q[d] \in 0 .. n - 2 BY <3>2, <3>3, BelowLast
    <3> QED BY <1>4, <3>1, <3>2, <3>3, <3>4
  <2> QED BY <2>2, <2>3
<1> QED BY <1>1, <1>5, <1>6 DEF Mirrors

LEMMA ImportsHere ==
    ASSUME TypeOK, ScoresDefined, NEW e \in Element, e < size
    PROVE  /\ VarsWith(e) \in Nat /\ vars <= VarsWith(e) /\ e < VarsWith(e)
           /\ VarsWith(e) <= size /\ VarsWith(e) <= MaxVars
           /\ ImportedPos(pos, e) \in [0 .. size - 1 -> Int \cup {Garbage}]
           /\ ImportedScores(score, e) \in [0 .. size - 1 -> Score \cup {Garbage}]
           /\ \A p \in 0 .. vars - 1 :
                ImportedPos(pos, e)[p] = pos[p] /\ ImportedScores(score, e)[p] = score[p]
           /\ \A p \in vars .. VarsWith(e) - 1 :
                ImportedPos(pos, e)[p] = Discontain /\ ImportedScores(score, e)[p] = 0
           /\ ~ tainted => \A p \in 0 .. size - 1 : ImportedScores(score, e)[p] = 0
<1>1. PICK n, P, F : n = size /\ P = pos /\ F = score OBVIOUS
<1>2. /\ TypeOK /\ e < n /\ n \in Nat /\ vars <= n
      /\ P \in [0 .. n - 1 -> Int \cup {Garbage}]
      /\ F \in [0 .. n - 1 -> Score \cup {Garbage}]
      /\ ~ tainted => \A p \in 0 .. n - 1 : F[p] = 0
  BY <1>1 DEF TypeOK, ScoresDefined
<1>3. /\ VarsWith(e) \in Nat /\ vars <= VarsWith(e) /\ e < VarsWith(e)
      /\ VarsWith(e) <= n /\ VarsWith(e) <= MaxVars
      /\ ImportedPos(P, e) \in [0 .. n - 1 -> Int \cup {Garbage}]
      /\ ImportedScores(F, e) \in [0 .. n - 1 -> Score \cup {Garbage}]
      /\ \A p \in 0 .. vars - 1 :
           ImportedPos(P, e)[p] = P[p] /\ ImportedScores(F, e)[p] = F[p]
      /\ \A p \in vars .. VarsWith(e) - 1 :
           ImportedPos(P, e)[p] = Discontain /\ ImportedScores(F, e)[p] = 0
      /\ ~ tainted => \A p \in 0 .. n - 1 : ImportedScores(F, e)[p] = 0
  BY <1>2, Imports
<1> QED BY <1>1, <1>3

\* A heap of which one key has changed, or the lastPlace has moved.
LEMMA Disturbed ==
    ASSUME NEW n \in Nat, NEW m \in Nat, m <= n, NEW K \in [0 .. n - 1 -> Int],
           Complete(K, n), NEW a \in 0 .. m - 1, NEW Lo \in [0 .. m - 1 -> Int],
           \A p \in 0 .. m - 1 : p # a => Lo[p] = K[p]
    PROVE  /\ Near(Lo, m, a) /\ Over(Lo, m, a)
           /\ Lo[a] >= K[a] => Below(Lo, m, a)
           /\ Lo[a] <= K[a] => Above(Lo, a)
<1>1. ASSUME NEW p \in 0 .. m - 1, p > 0
      PROVE  /\ Parent(p) \in 0 .. m - 1 /\ Parent(p) # p
             /\ K[p] <= K[Parent(p)] /\ K[p] \in Int /\ K[Parent(p)] \in Int
  <2>1. p \in 0 .. n - 1 /\ p \in Nat OBVIOUS
  <2>3. Parent(p) \in Nat /\ Parent(p) < p BY <1>1, <2>1, Parents
  <2>2. Parent(p) \in 0 .. m - 1 /\ Parent(p) \in 0 .. n - 1 /\ Parent(p) # p
    BY <2>1, <2>3
  <2> QED BY <1>1, <2>1, <2>2 DEF Complete
<1>2. Near(Lo, m, a) BY <1>1 DEF Near
<1>3. a \in 0 .. n - 1 /\ K[a] \in Int /\ Lo[a] \in Int /\ a \in Nat OBVIOUS
<1>4. ASSUME NEW c \in 1 .. m - 1, Parent(c) = a PROVE Lo[c] <= K[a]
  <2>1. c \in 0 .. m - 1 /\ c > 0 OBVIOUS
  <2> QED BY <1>1, <1>4, <2>1
<1>5. Over(Lo, m, a)
  <2> SUFFICES ASSUME a > 0, NEW c \in 1 .. m - 1, Parent(c) = a
               PROVE  Lo[c] <= Lo[Parent(a)]
    BY DEF Over
  <2>1. /\ Parent(a) \in 0 .. m - 1 /\ Parent(a) # a
        /\ K[a] <= K[Parent(a)] /\ K[Parent(a)] \in Int
    BY <1>1
  <2>2. Lo[Parent(a)] = K[Parent(a)] BY <2>1
  <2>3. Lo[c] <= K[a] /\ Lo[c] \in Int BY <1>4
  <2> QED BY <1>3, <2>1, <2>2, <2>3
<1>6. Lo[a] >= K[a] => Below(Lo, m, a)
  <2> SUFFICES ASSUME Lo[a] >= K[a], NEW c \in 1 .. m - 1, Parent(c) = a PROVE Lo[c] <= Lo[a]
    BY DEF Below
  <2>1. Lo[c] <= K[a] /\ Lo[c] \in Int BY <1>4
  <2> QED BY <1>3, <2>1
<1>7. Lo[a] <= K[a] => Above(Lo, a)
  <2> SUFFICES ASSUME Lo[a] <= K[a], a > 0 PROVE Lo[a] <= Lo[Parent(a)] BY DEF Above
  <2>1. /\ Parent(a) \in 0 .. m - 1 /\ Parent(a) # a
        /\ K[a] <= K[Parent(a)] /\ K[Parent(a)] \in Int
    BY <1>1
  <2>2. Lo[Parent(a)] = K[Parent(a)] BY <2>1
  <2> QED BY <1>3, <2>1, <2>2
<1> QED BY <1>2, <1>5, <1>6, <1>7

LEMMA PushKeeps ==
    ASSUME NEW e \in Element, HeapIInv, dir = "rest", PushElement(e),
           pending' \in Seq(Element \cup {NoElement})
    PROVE  HeapIInv'
<1> DEFINE P == ImportedPos(pos, e)
           F == ImportedScores(score, e)
<1>1. /\ e < size /\ ~ OnHeap(e) /\ vars' = VarsWith(e) /\ score' = F
      /\ pos' = [P EXCEPT ![e] = count]
      /\ stack' = [p \in 0 .. count |-> IF p = count THEN e ELSE stack[p]]
      /\ count' = count + 1 /\ dir' = "up" /\ idx' = e /\ at' = count /\ largest' = NoElement
      /\ size' = size /\ tainted' = tainted
  BY DEF PushElement
<1>2. TypeOK /\ ScoresDefined /\ Mirrors(stack, pos, count, vars) /\ Complete(HeapKey, count)
      /\ HeapKey = [p \in 0 .. count - 1 |-> score[stack[p]]]
  BY AtRest
<1>3. /\ vars \in Nat /\ size \in Nat /\ vars <= size /\ count \in Nat /\ e \in Nat
      /\ pos \in [0 .. size - 1 -> Int \cup {Garbage}]
      /\ score \in [0 .. size - 1 -> Score \cup {Garbage}]
      /\ stack \in [0 .. count - 1 -> 0 .. vars - 1]
      /\ ~ tainted => \A p \in 0 .. size - 1 : score[p] = 0
  BY <1>2 DEF TypeOK, ScoresDefined, Element
<1>4. /\ vars' \in Nat /\ vars <= vars' /\ e < vars' /\ vars' <= size /\ vars' <= MaxVars
      /\ P \in [0 .. size - 1 -> Int \cup {Garbage}]
      /\ F \in [0 .. size - 1 -> Score \cup {Garbage}]
      /\ \A p \in 0 .. vars - 1 : P[p] = pos[p] /\ F[p] = score[p]
      /\ \A p \in vars .. vars' - 1 : P[p] = Discontain /\ F[p] = 0
      /\ ~ tainted => \A p \in 0 .. size - 1 : F[p] = 0
  BY <1>1, <1>2, ImportsHere
<1> HIDE DEF P, F
<1>5. e \in 0 .. vars' - 1 /\ e \in 0 .. size - 1 BY <1>1, <1>3, <1>4
<1>6. P[e] = Discontain
  <2>1. CASE e < vars
    <3>1. e \in 0 .. vars - 1 /\ pos[e] = Discontain BY <1>1, <1>3, <2>1 DEF OnHeap
    <3> QED BY <1>4, <3>1
  <2>2. CASE ~ (e < vars)
    <3>0. vars \in Nat /\ vars' \in Nat BY <1>3, <1>4
    <3>1. e \notin 0 .. vars - 1 BY <2>2, <3>0
    <3>2. e \in vars .. vars' - 1 BY <1>5, <3>0, <3>1, Either
    <3> QED BY <1>4, <3>2
  <2> QED BY <2>1, <2>2
<1>7. Mirrors(stack, P, count, vars') BY <1>2, <1>3, <1>4, InverseWider
<1>8. stack \in [0 .. count - 1 -> 0 .. vars' - 1] BY <1>3, <1>4
<1>9. Mirrors(stack', pos', count', vars')
  <2>1. ASSUME NEW w \in Nat, w <= size, e \in 0 .. w - 1,
               stack \in [0 .. count - 1 -> 0 .. w - 1], Mirrors(stack, P, count, w)
        PROVE  Mirrors([p \in 0 .. count |-> IF p = count THEN e ELSE stack[p]],
                       [P EXCEPT ![e] = count], count + 1, w)
    <3>1. count \in Nat /\ size \in Nat /\ P \in [0 .. size - 1 -> Int \cup {Garbage}]
      BY <1>3, <1>4
    <3> PICK W : W = Int \cup {Garbage} OBVIOUS
    <3>2. P \in [0 .. size - 1 -> W] BY <3>1
    <3>3. w \in Nat /\ e \in 0 .. w - 1 BY <2>1
    <3>4. w <= size /\ stack \in [0 .. count - 1 -> 0 .. w - 1] /\ Mirrors(stack, P, count, w)
      BY <2>1
    <3>5. count \in Nat /\ size \in Nat BY <3>1
    <3>6. PushMirrors(stack, P, count, w, e)
      BY ONLY <1>6, <3>2, <3>3, <3>4, <3>5, InversePushed
    <3> QED BY ONLY <3>6 DEF PushMirrors
  <2> QED BY <1>1, <1>4, <1>5, <1>7, <1>8, <2>1
<1>10. (count + 1) - 1 = count BY <1>3
<1>11. /\ stack' \in [0 .. count' - 1 -> 0 .. vars' - 1]
       /\ pos' \in [0 .. size - 1 -> Int \cup {Garbage}]
  <2>1. \A p \in 0 .. count : p = count \/ p \in 0 .. count - 1 BY <1>3
  <2>2. stack' \in [0 .. count -> 0 .. vars' - 1] BY <1>1, <1>5, <1>8, <2>1
  <2>3. count \in Int BY <1>3
  <2> QED BY <1>1, <1>4, <1>10, <2>2, <2>3
<1>12. TypeOK'
  <2>1. count' \in Nat /\ at' \in 0 .. count' - 1 BY <1>1, <1>3, <1>10
  <2> QED BY <1>1, <1>2, <1>3, <1>4, <1>5, <1>11, <2>1 DEF TypeOK
<1>13. ScoresDefined'
  <2>1. \A p \in 0 .. vars' - 1 : p \in 0 .. vars - 1 \/ p \in vars .. vars' - 1
    BY <1>3, <1>4, Either
  <2>2. \A p \in 0 .. vars' - 1 : score'[p] \in Score
    BY <1>1, <1>2, <1>4, <2>1, HeapAssumption DEF ScoresDefined
  <2> QED BY <1>1, <1>4, <2>2 DEF ScoresDefined
<1>14. stack'[at'] = idx' /\ pos'[idx'] = at'
  <2>1. count \in 0 .. count BY <1>3
  <2> QED BY <1>1, <1>4, <1>5, <2>1
<1>15. Stack' = stack' /\ Pos' = pos' /\ Moving' BY <1>12, <1>14, Started
<1>16. \A p \in 0 .. count - 1 : HeapKey'[p] = HeapKey[p]
  <2> TAKE p \in 0 .. count - 1
  <2>1. p \in 0 .. count /\ p # count BY <1>3
  <2>2. stack'[p] = stack[p] /\ stack[p] \in 0 .. vars - 1 BY <1>1, <1>3, <2>1
  <2>3. HeapKey'[p] = score'[stack'[p]] BY <1>1, <1>10, <1>15, <2>1 DEF HeapKey
  <2>4. score'[stack[p]] = score[stack[p]] BY <1>1, <1>4, <2>2
  <2> QED BY <1>2, <2>2, <2>3, <2>4
<1>17. \A c \in 1 .. count' - 1 : Parent(c) # at'
  <2> TAKE c \in 1 .. count' - 1
  <2>1. c \in Nat /\ c > 0 /\ c <= count BY <1>1, <1>3, <1>10
  <2>2. Parent(c) < c /\ Parent(c) \in Nat BY <2>1, Parents
  <2> QED BY <1>1, <1>3, <2>1, <2>2
<1>18. Near(HeapKey', count', at')
  <2> SUFFICES ASSUME NEW p \in 0 .. count, p > 0, p # count
               PROVE  HeapKey'[p] <= HeapKey'[Parent(p)]
    BY <1>1, <1>10 DEF Near
  <2>1. p \in 0 .. count - 1 /\ p \in Nat BY <1>3
  <2>2. Parent(p) \in 0 .. count - 1 BY <1>3, <2>1, Parents
  <2> QED BY <1>2, <1>16, <2>1, <2>2 DEF Complete
<1>19. Shaped' BY <1>1, <1>17, <1>18 DEF Shaped, Over, Below
<1> QED BY <1>9, <1>12, <1>13, <1>15, <1>19 DEF HeapIInv

\* Where an element on the heap is.
LEMMA Located ==
    ASSUME HeapIInv, dir = "rest", NEW e \in Element
    PROVE  IF OnHeap(e)
           THEN /\ e \in 0 .. vars - 1 /\ pos[e] # Discontain
                /\ pos[e] \in 0 .. count - 1 /\ stack[pos[e]] = e
           ELSE \A p \in 0 .. count - 1 : stack[p] # e
<1>1. TypeOK /\ Mirrors(stack, pos, count, vars) BY AtRest
<1>2. vars \in Nat /\ count \in Nat /\ stack \in [0 .. count - 1 -> 0 .. vars - 1] /\ e \in Nat
  BY <1>1 DEF TypeOK, Element
<1>3. CASE OnHeap(e)
  <2>1. e \in 0 .. vars - 1 /\ pos[e] # Discontain BY <1>2, <1>3 DEF OnHeap
  <2> QED BY <1>1, <1>3, <2>1 DEF Mirrors
<1>4. CASE ~ OnHeap(e)
  <2>1. ASSUME NEW p \in 0 .. count - 1, stack[p] = e PROVE FALSE
    <3>1. e \in 0 .. vars - 1 /\ pos[e] = p BY <1>1, <1>2, <2>1 DEF Mirrors
    <3>2. p # Discontain BY <1>2 DEF Discontain
    <3>3. e < vars BY <1>2, <3>1
    <3> QED BY <1>4, <3>1, <3>2, <3>3 DEF OnHeap
  <2> QED BY <1>4, <2>1
<1> QED BY <1>3, <1>4

LEMMA UpdateKeeps ==
    ASSUME NEW e \in Element, NEW s \in Score, HeapIInv, Update(e, s) PROVE HeapIInv'
<1> DEFINE P == ImportedPos(pos, e)
           F == ImportedScores(score, e)
<1>1. /\ dir = "rest" /\ e < size /\ s # ScoreOf(e) /\ vars' = VarsWith(e)
      /\ pos' = P /\ score' = [F EXCEPT ![e] = s] /\ tainted' = TRUE
      /\ IF OnHeap(e)
         THEN /\ dir' = IF s > ScoreOf(e) THEN "up" ELSE "down"
              /\ idx' = e /\ at' = pos[e]
         ELSE dir' = dir /\ idx' = idx /\ at' = at
      /\ largest' = NoElement /\ size' = size /\ count' = count /\ stack' = stack
      /\ pending' = pending
  BY DEF Update, Idle, bubbleVars
<1>2. TypeOK /\ ScoresDefined /\ Mirrors(stack, pos, count, vars) /\ Complete(HeapKey, count)
      /\ HeapKey = [p \in 0 .. count - 1 |-> score[stack[p]]]
  BY <1>1, AtRest
<1>3. /\ vars \in Nat /\ size \in Nat /\ vars <= size /\ count \in Nat /\ e \in Nat
      /\ stack \in [0 .. count - 1 -> 0 .. vars - 1]
      /\ s \in Int /\ HeapKey \in [0 .. count - 1 -> Int]
  BY <1>2, HeapKeyType, HeapAssumption DEF TypeOK, Element
<1>4. /\ vars' \in Nat /\ vars <= vars' /\ e < vars' /\ vars' <= size /\ vars' <= MaxVars
      /\ P \in [0 .. size - 1 -> Int \cup {Garbage}]
      /\ F \in [0 .. size - 1 -> Score \cup {Garbage}]
      /\ \A p \in 0 .. vars - 1 : P[p] = pos[p] /\ F[p] = score[p]
      /\ \A p \in vars .. vars' - 1 : P[p] = Discontain /\ F[p] = 0
  BY <1>1, <1>2, ImportsHere
<1> HIDE DEF P, F
<1>5. e \in 0 .. vars' - 1 /\ e \in 0 .. size - 1 BY <1>1, <1>3, <1>4
<1>6. /\ score' \in [0 .. size - 1 -> Score \cup {Garbage}]
      /\ score'[e] = s /\ \A p \in 0 .. size - 1 : p # e => score'[p] = F[p]
  BY <1>1, <1>4, <1>5
<1>7. \A p \in 0 .. count - 1 : stack[p] # e => score'[stack[p]] = score[stack[p]]
  BY <1>3, <1>4, <1>6
<1>8. ScoresDefined'
  <2>1. \A p \in 0 .. vars' - 1 : p \in 0 .. vars - 1 \/ p \in vars .. vars' - 1
    BY <1>3, <1>4, Either
  <2>2. \A p \in 0 .. vars' - 1 : F[p] \in Score
    BY <1>2, <1>4, <2>1, HeapAssumption DEF ScoresDefined
  <2>3. \A p \in 0 .. vars' - 1 : score'[p] \in Score
    <3>1. vars' \in Nat /\ vars' <= size /\ size \in Nat BY <1>3, <1>4
    <3>2. \A p \in 0 .. vars' - 1 : p \in 0 .. size - 1 BY <3>1, Initial
    <3> QED BY <1>6, <2>2, <3>2
  <2> QED BY <1>1, <2>3 DEF ScoresDefined
<1>9. stack \in [0 .. count - 1 -> 0 .. vars' - 1] BY <1>3, <1>4
<1>10. CASE ~ OnHeap(e)
  <2>1. dir' = "rest" /\ \A p \in 0 .. count - 1 : stack[p] # e BY <1>1, <1>10, Located
  <2>2. TypeOK' BY <1>1, <1>2, <1>3, <1>4, <1>6, <1>9, <2>1 DEF TypeOK
  <2>3. \A p \in 0 .. count - 1 : score'[stack[p]] = score[stack[p]] BY <1>7, <2>1
  <2> QED BY <1>1, <1>4, <1>8, <2>1, <2>2, <2>3, Wider
<1>11. CASE OnHeap(e)
  <2> DEFINE q == pos[e]
  <2>1. e \in 0 .. vars - 1 /\ q \in 0 .. count - 1 /\ stack[q] = e
    BY <1>1, <1>11, Located
  <2>2. /\ dir' \in {"up", "down"} /\ idx' = e /\ at' = q
        /\ ScoreOf(e) = score[e]
        /\ dir' = "up" => s > score[e]
        /\ dir' = "down" => ~ (s > score[e])
    BY <1>1, <1>3, <1>11, <2>1 DEF ScoreOf
  <2>3. TypeOK' BY <1>1, <1>2, <1>3, <1>4, <1>5, <1>6, <1>9, <2>1, <2>2 DEF TypeOK
  <2>4. Stack' = stack /\ Pos' = P /\ Moving'
    <3>1. stack'[at'] = idx' /\ pos'[idx'] = at' BY <1>1, <1>4, <2>1, <2>2
    <3> QED BY <1>1, <2>3, <3>1, Started
  <2>5. Mirrors(Stack, Pos, count, vars)'
    <3>1. Mirrors(stack, P, count, vars') BY <1>2, <1>3, <1>4, InverseWider
    <3> QED BY <1>1, <2>4, <3>1
  <2>6. HeapKey' = [p \in 0 .. count - 1 |-> score'[stack[p]]] BY <1>1, <2>4 DEF HeapKey
  <2>7. /\ HeapKey' \in [0 .. count - 1 -> Int] /\ HeapKey'[q] = s /\ HeapKey[q] = score[e]
        /\ \A p \in 0 .. count - 1 : p # q => HeapKey'[p] = HeapKey[p]
    <3>1. ASSUME NEW p \in 0 .. count - 1, p # q PROVE HeapKey'[p] = HeapKey[p]
      <4>1. stack[p] # e BY <1>2, <2>1, <3>1 DEF Mirrors
      <4> QED BY <1>2, <1>7, <2>6, <4>1
    <3>2. HeapKey'[q] = s /\ HeapKey[q] = score[e] BY <1>2, <1>6, <2>1, <2>6
    <3>3. \A p \in 0 .. count - 1 : HeapKey'[p] \in Int BY <1>3, <3>1, <3>2
    <3> QED BY <2>6, <3>1, <3>2, <3>3
  <2> HIDE DEF q
  <2>8. /\ Near(HeapKey', count, q) /\ Over(HeapKey', count, q)
        /\ HeapKey'[q] >= HeapKey[q] => Below(HeapKey', count, q)
        /\ HeapKey'[q] <= HeapKey[q] => Above(HeapKey', q)
    <3>1. PICK Lo : Lo = HeapKey' OBVIOUS
    <3>2. /\ Lo \in [0 .. count - 1 -> Int]
          /\ \A p \in 0 .. count - 1 : p # q => Lo[p] = HeapKey[p]
      BY <2>7, <3>1
    <3>3. count <= count BY <1>3
    <3>4. /\ Near(Lo, count, q) /\ Over(Lo, count, q)
          /\ Lo[q] >= HeapKey[q] => Below(Lo, count, q)
          /\ Lo[q] <= HeapKey[q] => Above(Lo, q)
      BY <1>2, <1>3, <2>1, <3>2, <3>3, Disturbed, ZenonT(60)
    <3> QED BY <3>1, <3>4
  <2>9. /\ s > score[e] => HeapKey'[q] >= HeapKey[q]
        /\ ~ (s > score[e]) => HeapKey'[q] <= HeapKey[q]
    BY <1>3, <2>1, <2>7
  <2>10. Shaped' BY <1>1, <2>2, <2>8, <2>9 DEF Shaped
  <2> QED BY <1>8, <2>3, <2>4, <2>5, <2>10 DEF HeapIInv
<1> QED BY <1>10, <1>11

LEMMA RemoveKeeps ==
    ASSUME HeapIInv, dir = "rest", NEW e \in Element, OnHeap(e),
           NEW d \in {"updown", "down"}, d = "down" => pos[e] = 0,
           TakeOut(e, d), largest' \in Element \cup {NoElement}
    PROVE  HeapIInv'
<1> DEFINE q == pos[e]
           lastPlace == stack[count - 1]
<1>1. TypeOK /\ ScoresDefined /\ Mirrors(stack, pos, count, vars) /\ Complete(HeapKey, count)
      /\ HeapKey = [p \in 0 .. count - 1 |-> score[stack[p]]]
  BY AtRest
<1>2. e \in 0 .. vars - 1 /\ q # Discontain /\ q \in 0 .. count - 1 /\ stack[q] = e
  BY Located
<1>3. /\ vars \in Nat /\ size \in Nat /\ vars <= size /\ count \in Nat /\ count > 0
      /\ stack \in [0 .. count - 1 -> 0 .. vars - 1]
      /\ pos \in [0 .. size - 1 -> Int \cup {Garbage}]
      /\ HeapKey \in [0 .. count - 1 -> Int]
  BY <1>1, <1>2, HeapKeyType DEF TypeOK
<1>4. /\ stack' = [p \in 0 .. count - 2 |-> IF p = q THEN lastPlace ELSE stack[p]]
      /\ count' = count - 1
      /\ pos' = IF lastPlace = e THEN [pos EXCEPT ![e] = Discontain]
                ELSE [pos EXCEPT ![e] = Discontain, ![lastPlace] = q]
      /\ IF lastPlace = e THEN dir' = dir /\ idx' = idx /\ at' = at
         ELSE dir' = d /\ idx' = lastPlace /\ at' = q
      /\ vars' = vars /\ size' = size /\ tainted' = tainted /\ score' = score
      /\ pending' = pending
  BY DEF TakeOut, PosMoved, arrayVars, bubbleVars
<1>5. /\ count - 1 \in 0 .. count - 1 /\ count - 1 \in Nat /\ count - 1 <= count
      /\ (count - 1) - 1 = count - 2
      /\ \A p \in 0 .. count - 2 : p \in 0 .. count - 1 /\ p # count - 1
      /\ q # count - 1 => q \in 0 .. count - 2
  BY <1>2, <1>3
<1>6. lastPlace \in 0 .. vars - 1 /\ lastPlace \in 0 .. size - 1 /\ e \in 0 .. size - 1
  BY <1>2, <1>3, <1>5
<1>7. lastPlace = e <=> q = count - 1
  <2>1. pos[lastPlace] = count - 1 BY <1>1, <1>5 DEF Mirrors
  <2> QED BY <1>2, <2>1
<1>8. Mirrors(stack', pos', count', vars')
  BY <1>1, <1>2, <1>3, <1>4, InverseRemoved
<1>9. /\ stack' \in [0 .. count' - 1 -> 0 .. vars' - 1]
      /\ pos' \in [0 .. size' - 1 -> Int \cup {Garbage}]
  <2>1. Discontain \in Int /\ q \in Int BY <1>2 DEF Discontain
  <2>2. pos' \in [0 .. size - 1 -> Int \cup {Garbage}] BY <1>3, <1>4, <1>6, <2>1
  <2>3. stack' \in [0 .. count - 2 -> 0 .. vars - 1] BY <1>3, <1>4, <1>5, <1>6
  <2> QED BY <1>4, <1>5, <2>2, <2>3
<1>10. TypeOK'
  <2>1. count' \in Nat BY <1>4, <1>5
  <2>2. dir' # "rest" => at' \in 0 .. count' - 1 /\ idx' \in 0 .. vars' - 1
    BY <1>4, <1>5, <1>6, <1>7
  <2>3. dir' \in {"rest", "up", "down", "updown"} BY <1>4
  <2> QED BY <1>1, <1>4, <1>9, <2>1, <2>2, <2>3 DEF TypeOK
<1>11. ScoresDefined' BY <1>1, <1>4 DEF ScoresDefined
<1>12. dir' = "rest" \/ (stack'[at'] = idx' /\ pos'[idx'] = at')
  <2>1. CASE lastPlace = e BY <1>4, <2>1
  <2>2. CASE lastPlace # e
    <3>1. q \in 0 .. count - 2 BY <1>5, <1>7, <2>2
    <3> HIDE DEF lastPlace, q
    <3>2. stack'[q] = lastPlace /\ pos'[lastPlace] = q BY <1>3, <1>4, <1>6, <2>2, <3>1
    <3> QED BY <1>4, <2>2, <3>2
  <2> QED BY <2>1, <2>2
<1>13. Stack' = stack' /\ Pos' = pos' /\ Moving' BY <1>10, <1>12, Started
<1>14. /\ HeapKey' = [p \in 0 .. count - 2 |-> score[stack'[p]]]
       /\ \A p \in 0 .. count - 2 : p # q => HeapKey'[p] = HeapKey[p]
  <2>1. HeapKey' = [p \in 0 .. count - 2 |-> score[stack'[p]]]
    BY <1>4, <1>5, <1>13 DEF HeapKey
  <2>2. \A p \in 0 .. count - 2 : p # q => stack'[p] = stack[p] BY <1>4
  <2> QED BY <1>1, <1>5, <2>1, <2>2
<1>15. CASE lastPlace = e
  <2>1. \A p \in 0 .. count - 2 : HeapKey'[p] = HeapKey[p] BY <1>5, <1>7, <1>14, <1>15
  <2>2. Complete(HeapKey', count')
    <3> SUFFICES ASSUME NEW p \in 0 .. count - 2, p > 0 PROVE HeapKey'[p] <= HeapKey'[Parent(p)]
      BY <1>4, <1>5 DEF Complete
    <3>1. p \in 0 .. count - 1 /\ p \in Nat BY <1>5
    <3>2. Parent(p) \in Nat /\ Parent(p) < p BY <3>1, Parents
    <3>3. Parent(p) \in 0 .. count - 2 BY <1>3, <3>1, <3>2
    <3> QED BY <1>1, <2>1, <3>1, <3>3 DEF Complete
  <2>3. Shaped' BY <1>4, <1>15, <2>2 DEF Shaped
  <2> QED BY <1>8, <1>10, <1>11, <1>13, <2>3 DEF HeapIInv
<1>16. CASE lastPlace # e
  <2>1. q \in 0 .. count - 2 BY <1>5, <1>7, <1>16
  <2>2. PICK m, Lo : m = count - 1 /\ Lo = HeapKey' OBVIOUS
  <2>3. /\ m \in Nat /\ m <= count /\ q \in 0 .. m - 1
        /\ Lo \in [0 .. m - 1 -> Int]
        /\ \A p \in 0 .. m - 1 : p # q => Lo[p] = HeapKey[p]
    <3>1. \A p \in 0 .. count - 2 : HeapKey'[p] \in Int
      <4>1. \A p \in 0 .. count - 2 : p # q => HeapKey'[p] \in Int BY <1>3, <1>5, <1>14
      <4>2. HeapKey'[q] = score[lastPlace] BY <1>4, <1>14, <2>1
      <4>3. score[lastPlace] \in Int BY <1>1, <1>6, HeapAssumption DEF ScoresDefined
      <4> QED BY <4>1, <4>2, <4>3
    <3>2. HeapKey' \in [0 .. count - 2 -> Int] BY <1>14, <3>1
    <3> QED BY <1>5, <1>14, <2>1, <2>2, <3>2
  <2> HIDE DEF q
  <2>4. Near(Lo, m, q) /\ Over(Lo, m, q) BY <1>1, <1>3, <2>3, Disturbed
  <2>5. dir' = d /\ at' = q /\ count' = m BY <1>4, <1>16, <2>2 DEF q
  <2>6. dir' = "down" => Above(HeapKey', q) BY <2>5 DEF Above, q
  <2>7. Shaped' BY <2>2, <2>4, <2>5, <2>6 DEF Shaped
  <2> QED BY <1>8, <1>10, <1>11, <1>13, <2>7 DEF HeapIInv
<1> QED BY <1>15, <1>16

LEMMA PopHeapKeeps == ASSUME NEW e \in Element, HeapIInv, Pop(e) PROVE HeapIInv'
<1>1. dir = "rest" /\ OnHeap(e) /\ TakeOut(e, "updown") /\ largest' = NoElement
  BY DEF Pop, Idle
<1> QED BY <1>1, RemoveKeeps

LEMMA TopContained ==
    ASSUME HeapIInv, dir = "rest", count > 0
    PROVE  stack[0] \in Element /\ OnHeap(stack[0]) /\ pos[stack[0]] = 0
<1>1. TypeOK /\ Mirrors(stack, pos, count, vars) BY AtRest
<1>2. count \in Nat /\ 0 \in 0 .. count - 1 /\ stack[0] \in 0 .. vars - 1 /\ vars \in Nat
      /\ stack[0] \in Element
  BY <1>1, StackType DEF TypeOK
<1>3. pos[stack[0]] = 0 /\ stack[0] < vars BY <1>1, <1>2 DEF Mirrors
<1> QED BY <1>2, <1>3 DEF OnHeap, Discontain

LEMMA PopMaxKeeps == HeapIInv /\ PopMax => HeapIInv'
<1> SUFFICES ASSUME HeapIInv, PopMax PROVE HeapIInv' OBVIOUS
<1>1. dir = "rest" /\ count > 0 /\ TakeOut(stack[0], "down") /\ largest' = stack[0]
  BY DEF PopMax, Idle
<1>2. PICK e : e = stack[0] OBVIOUS
<1>3. e \in Element /\ OnHeap(e) /\ pos[e] = 0 BY <1>1, <1>2, TopContained
<1> QED BY <1>1, <1>2, <1>3, RemoveKeeps

\* The score that compaction copies is that of an element with the new name.
LEMMA Copied ==
    ASSUME NEW m \in Renumberings, NEW p \in Names(m)
    PROVE  \E e \in Element : m[e] = p /\ CopiedScore(m, p) = ScoreOf(e)
<1> DEFINE T == {MaxVars - d : d \in Named(m, p)}
           LastPlace(e) == e \in Named(m, p) /\ \A d \in Named(m, p) : d <= e
<1>1. Named(m, p) # {} /\ Named(m, p) \subseteq Element BY DEF Named, Names
<1>2. MaxVars \in Nat BY HeapAssumption
<1>3. \A d \in Named(m, p) : d \in Nat /\ d < MaxVars /\ MaxVars - d \in Nat
  BY <1>1, <1>2 DEF Element
<1>4. T \in SUBSET Nat /\ T # {} BY <1>1, <1>3
<1>5. PICK t \in T : \A k \in T : t <= k BY <1>4, LeastNatural
<1>6. PICK e \in Named(m, p) : t = MaxVars - e BY <1>5
<1>7. LastPlace(e)
  <2> SUFFICES ASSUME NEW d \in Named(m, p) PROVE d <= e BY <1>6
  <2>1. MaxVars - e <= MaxVars - d BY <1>5, <1>6
  <2> QED BY <1>2, <1>3, <2>1
<1>8. PICK c : c = CHOOSE x \in Named(m, p) : \A d \in Named(m, p) : d <= x OBVIOUS
<1>9. c \in Named(m, p) BY <1>7, <1>8
<1>10. CopiedScore(m, p) = ScoreOf(c) BY <1>8 DEF CopiedScore
<1> QED BY <1>9, <1>10 DEF Named

LEMMA CompactHeapKeeps == ASSUME NEW m \in Renumberings, HeapIInv, CompactScores(m) PROVE HeapIInv'
<1>1. /\ dir = "rest" /\ dir' = "rest" /\ idx' = idx /\ at' = at
      /\ tainted' = (tainted /\ Scored(m) # {})
      /\ pending' = [p \in 1 .. count |-> m[stack[p - 1]]]
      /\ count' = 0 /\ stack' = Empty /\ largest' = NoElement
  BY DEF CompactScores, Idle, bubbleVars
<1>2. PICK n \in 0 .. MaxVars, v \in Int :
        /\ v \in 0 .. n /\ Names(m) = 0 .. n - 1 /\ size' = n /\ vars' = v
        /\ pos' = [p \in 0 .. n - 1 |-> IF p < v THEN Discontain ELSE Garbage]
        /\ score' = [p \in 0 .. n - 1 |-> IF tainted THEN CopiedScore(m, p) ELSE 0]
        /\ Scored(m) \subseteq 0 .. v - 1
  BY DEF CompactScores
<1>3. TypeOK /\ ScoresDefined BY DEF HeapIInv
<1>4. vars \in Nat /\ vars <= size /\ size \in Nat /\ count \in Nat
      /\ stack \in [0 .. count - 1 -> 0 .. vars - 1] /\ MaxVars \in Nat
  BY <1>3, HeapAssumption DEF TypeOK
<1>5. \A e \in Element : ScoreOf(e) \in Score
  BY <1>3, <1>4, HeapAssumption DEF ScoreOf, ScoresDefined, Element
<1>6. \A p \in 0 .. n - 1 : \E e \in Element : m[e] = p /\ CopiedScore(m, p) = ScoreOf(e)
  BY <1>2, Copied
<1>7. score' \in [0 .. n - 1 -> Score] BY <1>2, <1>5, <1>6, HeapAssumption
<1>8. TypeOK'
  <2>1. pending' \in Seq(Element \cup {NoElement})
    <3>1. ASSUME NEW p \in 1 .. count PROVE m[stack[p - 1]] \in Element \cup {NoElement}
      <4>1. p - 1 \in 0 .. count - 1 BY <1>4
      <4>2. stack[p - 1] \in Element BY <1>3, <1>4, <4>1, StackType
      <4> QED BY <4>2 DEF Renumberings
    <3>2. [p \in 1 .. count |-> m[stack[p - 1]]] \in [1 .. count -> Element \cup {NoElement}]
      BY <3>1
    <3> QED BY <1>1, <1>4, <3>2, SeqDef
  <2>2. /\ vars' \in Nat /\ size' \in Nat /\ vars' <= size' /\ vars' <= MaxVars
    BY <1>2, <1>4
  <2>3. /\ pos' \in [0 .. size' - 1 -> Int \cup {Garbage}]
        /\ score' \in [0 .. size' - 1 -> Score \cup {Garbage}]
    BY <1>2, <1>7 DEF Discontain
  <2>4. stack' \in [0 .. 0 - 1 -> 0 .. vars' - 1]
    <3>1. 0 .. 0 - 1 = {} OBVIOUS
    <3> QED BY <1>1, <3>1 DEF Empty
  <2> QED BY <1>1, <1>3, <2>1, <2>2, <2>3, <2>4 DEF TypeOK
<1>9. Mirrors(Stack, Pos, count, vars)'
  <2>1. Pos' = pos' BY <1>1 DEF Pos
  <2>2. \A e \in 0 .. v - 1 : e \in 0 .. n - 1 /\ e < v BY <1>2
  <2>3. \A e \in 0 .. vars' - 1 : Pos'[e] = Discontain BY <1>2, <2>1, <2>2
  <2> QED BY <1>1, <2>3 DEF Mirrors
<1>10. ScoresDefined'
  <2>1. \A e \in 0 .. v - 1 : e \in 0 .. n - 1 BY <1>2
  <2>2. ASSUME ~ tainted', NEW p \in 0 .. n - 1 PROVE score'[p] = 0
    <3>1. CASE ~ tainted BY <1>2, <3>1
    <3>2. CASE tainted
      <4>1. Scored(m) = {} BY <1>1, <2>2, <3>2
      <4>2. PICK e \in Element : m[e] = p /\ CopiedScore(m, p) = ScoreOf(e) BY <1>6
      <4>3. p # NoElement BY <1>2, HeapAssumption
      <4>4. ScoreOf(e) = 0 BY <4>1, <4>2, <4>3 DEF Scored
      <4> QED BY <1>2, <3>2, <4>2, <4>4
    <3> QED BY <3>1, <3>2
  <2> QED BY <1>2, <1>7, <2>1, <2>2 DEF ScoresDefined
<1>11. Shaped' BY <1>1 DEF Shaped, Complete
<1> QED BY <1>1, <1>8, <1>9, <1>10, <1>11 DEF HeapIInv, Moving

LEMMA PushNextKeeps == HeapIInv /\ PushNext => HeapIInv'
<1> SUFFICES ASSUME HeapIInv, PushNext PROVE HeapIInv' OBVIOUS
<1>1. dir = "rest" /\ pending # <<>> /\ pending' = Tail(pending) BY DEF PushNext
<1>2. TypeOK /\ pending \in Seq(Element \cup {NoElement}) BY DEF HeapIInv, TypeOK
<1>3. pending' \in Seq(Element \cup {NoElement}) /\ Head(pending) \in Element \cup {NoElement}
  BY <1>1, <1>2
<1>4. CASE Head(pending) = NoElement
  <2>1. UNCHANGED <<arrayVars, count, stack, pos, bubbleVars, largest>>
    BY <1>4 DEF PushNext
  <2>2. TypeOK' BY <1>2, <1>3, <2>1 DEF TypeOK, arrayVars, bubbleVars
  <2>3. Stack' = Stack /\ Pos' = Pos BY <2>1 DEF Stack, Pos, bubbleVars
  <2>4. HeapKey' = HeapKey BY <2>1, <2>3 DEF HeapKey, arrayVars
  <2> QED BY <2>1, <2>2, <2>3, <2>4
     DEF HeapIInv, Moving, Mirrors, ScoresDefined, Shaped, arrayVars, bubbleVars
<1>5. CASE Head(pending) # NoElement
  <2>1. PushElement(Head(pending)) BY <1>5 DEF PushNext
  <2>2. PICK e : e = Head(pending) OBVIOUS
  <2>3. e \in Element BY <1>3, <1>5, <2>2
  <2> QED BY <1>1, <1>3, <2>1, <2>2, <2>3, PushKeeps
<1> QED BY <1>4, <1>5

LEMMA StepKeeps == HeapIInv /\ [HeapNext]_heapVars => HeapIInv'
<1> SUFFICES ASSUME HeapIInv, [HeapNext]_heapVars PROVE HeapIInv' OBVIOUS
<1>1. ASSUME UNCHANGED heapVars PROVE HeapIInv'
  <2>1. /\ UNCHANGED <<vars, size, tainted, score, count, stack, pos, dir, idx, at, pending, largest>>
    BY <1>1 DEF heapVars, arrayVars, bubbleVars
  <2>2. Stack' = Stack /\ Pos' = Pos /\ TypeOK' BY <2>1 DEF Stack, Pos, HeapIInv, TypeOK
  <2>3. HeapKey' = HeapKey BY <2>1, <2>2 DEF HeapKey
  <2> QED BY <2>1, <2>2, <2>3 DEF HeapIInv, Moving, Mirrors, ScoresDefined, Shaped
<1>2. ASSUME NEW n \in 1 .. MaxSize, Resize(n) PROVE HeapIInv' BY <1>2, ResizeKeeps
<1>3. ASSUME NEW e \in Element, Adjust(e) PROVE HeapIInv' BY <1>3, AdjustKeeps
<1>4. ASSUME NEW e \in Element, Push(e) PROVE HeapIInv'
  <2>1. dir = "rest" /\ PushElement(e) /\ pending' = pending BY <1>4 DEF Push, Idle
  <2>2. pending' \in Seq(Element \cup {NoElement}) BY <2>1 DEF HeapIInv, TypeOK
  <2> QED BY <2>1, <2>2, PushKeeps
<1>5. ASSUME NEW e \in Element, Pop(e) PROVE HeapIInv' BY <1>5, PopHeapKeeps
<1>6. ASSUME NEW e \in Element, NEW s \in Score, Update(e, s) PROVE HeapIInv' BY <1>6, UpdateKeeps
<1>7. ASSUME NEW f \in [Score -> Score], Rescale(f) PROVE HeapIInv' BY <1>7, RescaleKeeps
<1>8. ASSUME NEW m \in Renumberings, CompactScores(m) PROVE HeapIInv' BY <1>8, CompactHeapKeeps
<1>9. ASSUME Call PROVE HeapIInv'
  BY <1>2, <1>3, <1>4, <1>5, <1>6, <1>7, <1>8, <1>9, PopMaxKeeps, ReleaseKeeps DEF Call
<1>10. ASSUME Step PROVE HeapIInv'
  BY <1>10, UpStepKeeps, UpDoneKeeps, DownStepKeeps, DownDoneKeeps, PushNextKeeps DEF Step
<1> QED BY <1>1, <1>9, <1>10 DEF HeapNext

\* No call leaves the heap out of order: for every number of elements, any
\* scores and any sequence of calls, the assertions of kissat_check_heap hold
\* whenever no element moves, and the positions are the inverse of the stack.
THEOREM HeapOrdered == HeapSpec => []HeapInv
<1>1. HeapInit => HeapIInv BY InitInv
<1>2. HeapIInv /\ [HeapNext]_heapVars => HeapIInv' BY StepKeeps
<1>3. HeapIInv => HeapInv BY SameInvariant
<1> QED BY <1>1, <1>2, <1>3, PTL DEF HeapSpec

-----------------------------------------------------------------------------
\* The callers' view.  What a step has to keep for an element to stay on the
\* heap and to keep its score, and what it does for the whole view.
View == <<Members, Priority, largest>>
SameOn(e) == OnHeap(e)' <=> OnHeap(e)
SameScore(e) == ScoreOf(e)' = ScoreOf(e)

LEMMA Stutters ==
    ASSUME pending' = pending, largest' = largest,
           \A e \in Element : SameOn(e) /\ SameScore(e)
    PROVE  UNCHANGED View
<1>1. Members' = Members BY DEF Members, SameOn
<1>2. Priority' = Priority BY DEF Priority, SameScore
<1> QED BY <1>1, <1>2 DEF View

LEMMA Between ==
    ASSUME NEW w \in Nat, NEW v \in Nat, NEW e \in Nat, ~ (e < w), e < v
    PROVE  e \in w .. v - 1
OBVIOUS

LEMMA Inside ==
    ASSUME NEW w \in Nat, NEW v \in Nat, NEW s \in Nat, v <= s
    PROVE  \A p \in w .. v - 1 : p \in 0 .. s - 1
OBVIOUS

\* Imported elements are not on the heap and score zero, as they did before.
LEMMA Beyond ==
    ASSUME vars \in Nat, vars' \in Nat, vars <= vars', NEW e \in Element,
           e < vars => score'[e] = score[e],
           e \in vars .. vars' - 1 => score'[e] = 0
    PROVE  SameScore(e)
<1>1. e \in Nat BY DEF Element
<1>2. CASE e < vars
  <2>1. e < vars' BY <1>1, <1>2
  <2> QED BY <1>2, <2>1 DEF SameScore, ScoreOf
<1>3. CASE ~ (e < vars) /\ e < vars'
  <2>1. e \in vars .. vars' - 1 BY <1>1, <1>3, Between
  <2> QED BY <1>3, <2>1 DEF SameScore, ScoreOf
<1>4. CASE ~ (e < vars) /\ ~ (e < vars') BY <1>4 DEF SameScore, ScoreOf
<1> QED BY <1>2, <1>3, <1>4

LEMMA BeyondOff ==
    ASSUME vars \in Nat, vars' \in Nat, vars <= vars', NEW e \in Element,
           e < vars => pos'[e] = pos[e],
           e \in vars .. vars' - 1 => pos'[e] = Discontain
    PROVE  SameOn(e)
<1>1. e \in Nat BY DEF Element
<1>2. CASE e < vars
  <2>1. e < vars' BY <1>1, <1>2
  <2> QED BY <1>2, <2>1 DEF SameOn, OnHeap
<1>3. CASE ~ (e < vars) /\ e < vars'
  <2>1. e \in vars .. vars' - 1 BY <1>1, <1>3, Between
  <2> QED BY <1>3, <2>1 DEF SameOn, OnHeap
<1>4. CASE ~ (e < vars) /\ ~ (e < vars') BY <1>4 DEF SameOn, OnHeap
<1> QED BY <1>2, <1>3, <1>4

LEMMA SameOfElements ==
    ASSUME vars \in Nat
    PROVE  \A e \in Element : e < vars => e \in 0 .. vars - 1
BY DEF Element

\* A bubbling element and the ones it passes stay on the heap.
LEMMA Passes ==
    ASSUME HeapIInv, NEW x \in 0 .. vars - 1, pos[x] # Discontain, at # Discontain,
           pos' = [pos EXCEPT ![x] = at],
           UNCHANGED <<arrayVars, pending, largest>>
    PROVE  UNCHANGED View
<1>1. /\ vars' = vars /\ score' = score /\ pending' = pending /\ largest' = largest
      /\ vars \in Nat /\ size \in Nat /\ vars <= size
      /\ pos \in [0 .. size - 1 -> Int \cup {Garbage}]
  BY DEF HeapIInv, TypeOK, arrayVars
<1>2. ASSUME NEW e \in Element PROVE SameOn(e) /\ SameScore(e)
  <2>1. SameScore(e) BY <1>1 DEF SameScore, ScoreOf
  <2>2. CASE e < vars
    <3>1. e \in 0 .. size - 1 BY <1>1, <2>2 DEF Element
    <3>2. pos'[e] = IF e = x THEN at ELSE pos[e] BY <1>1, <3>1
    <3>3. pos'[e] # Discontain <=> pos[e] # Discontain BY <3>2
    <3> QED BY <1>1, <2>1, <3>3 DEF SameOn, OnHeap
  <2>3. CASE ~ (e < vars) BY <1>1, <2>1, <2>3 DEF SameOn, OnHeap
  <2> QED BY <2>2, <2>3
<1> QED BY <1>1, <1>2, Stutters

LEMMA HoleStutters ==
    ASSUME HeapIInv, dir # "rest", NEW b \in 0 .. count - 1, b # at,
           pos' = [pos EXCEPT ![stack[b]] = at],
           UNCHANGED <<arrayVars, pending, largest>>
    PROVE  UNCHANGED View
<1>1. TypeOK /\ Mirrors(Stack, Pos, count, vars) BY DEF HeapIInv
<1>2. /\ at \in 0 .. count - 1 /\ idx \in 0 .. vars - 1
      /\ vars \in Nat /\ size \in Nat /\ vars <= size
      /\ stack \in [0 .. count - 1 -> 0 .. vars - 1]
      /\ pos \in [0 .. size - 1 -> Int \cup {Garbage}]
  BY <1>1 DEF TypeOK
<1>3. /\ Stack[b] = stack[b] /\ Stack[at] = idx
      /\ stack[b] \in 0 .. vars - 1 /\ stack[b] \in 0 .. size - 1
  BY <1>2 DEF Stack
<1>4. Pos[stack[b]] = b /\ Pos[idx] = at BY <1>1, <1>2, <1>3 DEF Mirrors
<1>5. stack[b] # idx BY <1>4
<1>6. pos[stack[b]] = b BY <1>2, <1>3, <1>4, <1>5 DEF Pos
<1>7. b # Discontain /\ at # Discontain BY <1>2 DEF Discontain
<1>8. PICK x : x = stack[b] OBVIOUS
<1> QED BY <1>3, <1>6, <1>7, <1>8, Passes

LEMMA LoopStutters ==
    ASSUME HeapIInv, UpStep \/ UpDone \/ DownStep \/ DownDone
    PROVE  UNCHANGED View
<1>0. TypeOK BY DEF HeapIInv
<1>1. CASE UpStep
  <2>1. dir # "rest" /\ at > 0 BY <1>1 DEF UpStep, GoingUp, Rises
  <2>2. at \in 0 .. count - 1 /\ count \in Nat BY <1>0, <2>1 DEF TypeOK
  <2>3. Parent(at) \in 0 .. count - 1 /\ Parent(at) # at BY <2>1, <2>2, Parents
  <2>4. PICK b \in 0 .. count - 1 : b = Parent(at) BY <2>3
  <2> QED BY <1>1, <2>1, <2>3, <2>4, HoleStutters DEF UpStep
<1>2. CASE DownStep
  <2>1. dir = "down" /\ Child(at) < count BY <1>2 DEF DownStep, Sinks
  <2>2. LargerChild \in 1 .. count - 1 /\ LargerChild # at BY <2>1, Larger
  <2>3. LargerChild \in 0 .. count - 1 BY <1>0, <2>2 DEF TypeOK
  <2>4. PICK b \in 0 .. count - 1 : b = LargerChild BY <2>3
  <2> QED BY <1>2, <2>1, <2>2, <2>4, HoleStutters DEF DownStep
<1>3. CASE UpDone \/ DownDone
  <2>1. dir # "rest" /\ Placed BY <1>3 DEF UpDone, DownDone, GoingUp
  <2>2. at # Discontain /\ idx \in 0 .. vars - 1
    BY <1>0, <2>1 DEF TypeOK, Discontain
  <2>3. pos[idx] # Discontain BY <2>1 DEF HeapIInv, Moving
  <2>4. PICK x : x = idx OBVIOUS
  <2> QED BY <2>1, <2>2, <2>3, <2>4, Passes DEF Placed
<1> QED BY <1>1, <1>2, <1>3

LEMMA AllocationStutters ==
    ASSUME HeapIInv, (\E n \in 1 .. MaxSize : Resize(n)) \/ (\E e \in Element : Adjust(e))
    PROVE  UNCHANGED View
<1>0. TypeOK /\ ScoresDefined /\ vars \in Nat /\ size \in Nat /\ vars <= size
  BY DEF HeapIInv, TypeOK
<1> DEFINE More ==
             /\ pending' = pending /\ largest' = largest
             /\ vars' \in Nat /\ vars <= vars'
             /\ \A p \in 0 .. vars - 1 : pos'[p] = pos[p] /\ score'[p] = score[p]
             /\ \A p \in vars .. vars' - 1 : pos'[p] = Discontain /\ score'[p] = 0
<1>1. More
  <2>1. ASSUME NEW n \in 1 .. MaxSize, Resize(n) PROVE More
    <3>1. size < n /\ n \in Nat BY <2>1 DEF Resize
    <3>2. \A p \in 0 .. vars - 1 : Grown(pos, n)[p] = pos[p] /\ GrownScores(n)[p] = score[p]
      BY <1>0, <3>1, Grows
    <3>3. vars .. vars - 1 = {} BY <1>0
    <3> QED BY <1>0, <2>1, <3>2, <3>3 DEF Resize
  <2>2. ASSUME NEW e \in Element, Adjust(e) PROVE More
    <3>1. pending' = pending /\ largest' = largest BY <2>2 DEF Adjust
    <3> QED BY <1>0, <2>2, <3>1, Adjusts
  <2> QED BY <2>1, <2>2
<1>2. ASSUME NEW e \in Element PROVE SameOn(e) /\ SameScore(e)
  <2>1. e < vars => e \in 0 .. vars - 1 BY <1>0 DEF Element
  <2> QED BY <1>0, <1>1, <2>1, Beyond, BeyondOff
<1> QED BY <1>1, <1>2, Stutters

\* Between calls the elements on the heap are the members.
LEMMA IdleMembers ==
    ASSUME pending = <<>>
    PROVE  Members = {e \in Element : OnHeap(e)}
BY DEF Members

LEMMA PushesElement ==
    ASSUME HeapIInv, NEW e \in Element, PushElement(e)
    PROVE  /\ OnHeap(e)' /\ SameScore(e)
           /\ \A d \in Element : d # e => SameOn(d) /\ SameScore(d)
<1> DEFINE Q == ImportedPos(pos, e)
<1>0. TypeOK /\ ScoresDefined /\ vars \in Nat /\ size \in Nat /\ count \in Nat
  BY DEF HeapIInv, TypeOK
<1>1. /\ e < size /\ vars' = VarsWith(e) /\ score' = ImportedScores(score, e)
      /\ pos' = [Q EXCEPT ![e] = count]
  BY DEF PushElement
<1>2. /\ vars' \in Nat /\ vars <= vars' /\ e < vars' /\ vars' <= size
      /\ Q \in [0 .. size - 1 -> Int \cup {Garbage}]
      /\ \A p \in 0 .. vars - 1 : Q[p] = pos[p] /\ score'[p] = score[p]
      /\ \A p \in vars .. vars' - 1 : Q[p] = Discontain /\ score'[p] = 0
  BY <1>0, <1>1, ImportsHere
<1> HIDE DEF Q
<1>3. e \in 0 .. size - 1 BY <1>0, <1>1 DEF Element
<1>4. pos'[e] = count /\ \A d \in 0 .. size - 1 : d # e => pos'[d] = Q[d] BY <1>1, <1>2, <1>3
<1>5. OnHeap(e)' BY <1>0, <1>2, <1>4 DEF OnHeap, Discontain
<1>6. ASSUME NEW d \in Element PROVE SameScore(d)
  <2>1. d < vars => d \in 0 .. vars - 1 BY <1>0, SameOfElements
  <2> QED BY <1>0, <1>2, <2>1, Beyond
<1>7. ASSUME NEW d \in Element, d # e PROVE SameOn(d)
  <2>1. d < vars => d \in 0 .. vars - 1 BY <1>0, SameOfElements
  <2>2. d < vars => d \in 0 .. size - 1
    <3>1. d \in Nat /\ vars <= size BY <1>0 DEF TypeOK, Element
    <3> QED BY <1>0, <3>1
  <2>3. d \in vars .. vars' - 1 => d \in 0 .. size - 1
    BY <1>0, <1>2, Inside
  <2>4. /\ d < vars => pos'[d] = pos[d]
        /\ d \in vars .. vars' - 1 => pos'[d] = Discontain
    BY <1>2, <1>4, <1>7, <2>1, <2>2, <2>3
  <2> QED BY <1>0, <1>2, <2>4, BeyondOff
<1> QED BY <1>5, <1>6, <1>7

LEMMA PushNextStutters ==
    ASSUME HeapIInv, pending # <<>> => largest = NoElement, PushNext
    PROVE  UNCHANGED View
<1> DEFINE h == Head(pending)
           In(e, s) == \E p \in DOMAIN s : s[p] = e
<1>1. /\ dir = "rest" /\ pending # <<>> /\ pending' = Tail(pending) /\ largest = NoElement
      /\ pending \in Seq(Element \cup {NoElement})
  BY DEF PushNext, HeapIInv, TypeOK
<1>2. ASSUME NEW e PROVE In(e, pending) <=> e = h \/ In(e, pending')
  <2>1. /\ h = pending[1] /\ DOMAIN pending = 1 .. Len(pending) /\ Len(pending) \in Nat
        /\ Len(pending) >= 1
        /\ DOMAIN pending' = 1 .. Len(pending) - 1
        /\ \A p \in 1 .. Len(pending) - 1 : pending'[p] = pending[p + 1]
    BY <1>1
  <2> HIDE DEF h
  <2>2. ASSUME In(e, pending), e # h PROVE In(e, pending')
    <3>1. PICK p \in 1 .. Len(pending) : pending[p] = e BY <2>1, <2>2
    <3>2. p # 1 BY <2>1, <2>2, <3>1
    <3>3. p - 1 \in 1 .. Len(pending) - 1 /\ (p - 1) + 1 = p BY <2>1, <3>2
    <3>4. pending'[p - 1] = e BY <2>1, <3>1, <3>3
    <3> QED BY <2>1, <3>3, <3>4
  <2>3. ASSUME In(e, pending') PROVE In(e, pending)
    <3>1. PICK p \in 1 .. Len(pending) - 1 : pending'[p] = e BY <2>1, <2>3
    <3>2. p + 1 \in 1 .. Len(pending) BY <2>1
    <3> QED BY <2>1, <3>1, <3>2
  <2>4. In(h, pending)
    <3>1. 1 \in 1 .. Len(pending) BY <2>1
    <3> QED BY <2>1, <3>1
  <2> QED BY <2>2, <2>3, <2>4
<1>3. CASE h = NoElement
  <2>1. UNCHANGED <<arrayVars, count, stack, pos, bubbleVars, largest>> BY <1>3 DEF PushNext
  <2>2. \A e \in Element : SameOn(e) /\ SameScore(e)
    BY <2>1 DEF SameOn, SameScore, OnHeap, ScoreOf, arrayVars
  <2>3. \A e \in Element : e # h BY <1>3, HeapAssumption DEF Element
  <2>4. \A e \in Element : In(e, pending) <=> In(e, pending') BY <1>2, <2>3
  <2>5. Members' = Members BY <2>2, <2>4 DEF Members, SameOn
  <2>6. Priority' = Priority BY <2>2 DEF Priority, SameScore
  <2> QED BY <2>1, <2>5, <2>6 DEF View
<1>4. CASE h # NoElement
  <2>1. PICK e \in Element : e = h
    <3>1. h \in Element \cup {NoElement} BY <1>1
    <3> QED BY <1>4, <3>1
  <2>2. PushElement(e) /\ largest' = NoElement BY <1>4, <2>1 DEF PushNext, PushElement
  <2>3. /\ OnHeap(e)' /\ SameScore(e)
        /\ \A d \in Element : d # e => SameOn(d) /\ SameScore(d)
    BY <2>2, PushesElement
  <2>4. \A d \in Element : d # e => (In(d, pending) <=> In(d, pending')) BY <1>2, <2>1
  <2>5. In(e, pending) BY <1>2, <2>1
  <2>6. Members' = Members BY <2>3, <2>4, <2>5 DEF Members, SameOn
  <2>7. Priority' = Priority BY <2>3 DEF Priority, SameScore
  <2> QED BY <1>1, <2>2, <2>6, <2>7 DEF View
<1> QED BY <1>3, <1>4

LEMMA PushPushes == ASSUME NEW e \in Element, HeapIInv, Push(e) PROVE Prio!Push(e)
<1>1. pending = <<>> /\ pending' = <<>> /\ PushElement(e) BY DEF Push, Idle
<1>2. ~ OnHeap(e) /\ largest' = NoElement BY <1>1 DEF PushElement
<1>3. /\ OnHeap(e)' /\ SameScore(e)
      /\ \A d \in Element : d # e => SameOn(d) /\ SameScore(d)
  BY <1>1, PushesElement
<1>4. Members = {d \in Element : OnHeap(d)} BY <1>1, IdleMembers
<1>5. Members' = {d \in Element : OnHeap(d)'} BY <1>1 DEF Members
<1>6. Members' = Members \cup {e} BY <1>3, <1>4, <1>5 DEF SameOn
<1>7. Priority' = Priority BY <1>3 DEF Priority, SameScore
<1> QED BY <1>2, <1>4, <1>6, <1>7 DEF Prio!Push

\* Taking an element out takes out nothing else.
LEMMA Removes ==
    ASSUME HeapIInv, Idle, NEW e \in Element, OnHeap(e),
           NEW d, TakeOut(e, d)
    PROVE  /\ Members' = Members \ {e} /\ Priority' = Priority /\ e \in Members
<1> DEFINE q == pos[e]
           lastPlace == stack[count - 1]
<1>1. dir = "rest" /\ pending = <<>> BY DEF Idle
<1>2. /\ pos' = IF lastPlace = e THEN [pos EXCEPT ![e] = Discontain]
                ELSE [pos EXCEPT ![e] = Discontain, ![lastPlace] = q]
      /\ vars' = vars /\ score' = score /\ pending' = <<>>
  BY <1>1 DEF TakeOut, PosMoved, arrayVars
<1>3. TypeOK /\ Mirrors(stack, pos, count, vars) BY <1>1, AtRest
<1>4. e \in 0 .. vars - 1 /\ q # Discontain /\ q \in 0 .. count - 1 BY <1>1, Located
<1>5. /\ vars \in Nat /\ size \in Nat /\ vars <= size /\ count \in Nat
      /\ pos \in [0 .. size - 1 -> Int \cup {Garbage}]
      /\ stack \in [0 .. count - 1 -> 0 .. vars - 1]
  BY <1>3 DEF TypeOK
<1>6. /\ count - 1 \in 0 .. count - 1 /\ lastPlace \in 0 .. vars - 1 /\ pos[lastPlace] = count - 1
      /\ count - 1 # Discontain
  <2>1. count - 1 \in 0 .. count - 1 BY <1>4, <1>5
  <2> QED BY <1>3, <1>5, <2>1 DEF Mirrors, Discontain
<1>7. lastPlace < vars BY <1>5, <1>6
<1> HIDE DEF lastPlace, q
<1>8. ASSUME NEW x \in Element PROVE OnHeap(x)' <=> OnHeap(x) /\ x # e
  <2>1. CASE ~ (x < vars) BY <1>2, <2>1 DEF OnHeap
  <2>2. CASE x < vars
    <3>1. x \in 0 .. size - 1 BY <1>5, <2>2 DEF Element
    <3>2. e \in 0 .. size - 1 /\ lastPlace \in 0 .. size - 1 BY <1>4, <1>5, <1>6
    <3>3. CASE lastPlace = e
      <4>1. pos' = [pos EXCEPT ![e] = Discontain] BY <1>2, <3>3
      <4>2. pos'[x] = IF x = e THEN Discontain ELSE pos[x] BY <1>5, <3>1, <4>1
      <4> QED BY <1>2, <2>2, <4>2 DEF OnHeap
    <3>4. CASE lastPlace # e
      <4>1. pos' = [pos EXCEPT ![e] = Discontain, ![lastPlace] = q] BY <1>2, <3>4
      <4>2. pos'[x] = IF x = lastPlace THEN q ELSE IF x = e THEN Discontain ELSE pos[x]
        BY <1>5, <3>1, <3>2, <4>1
      <4> QED BY <1>2, <1>4, <1>6, <1>7, <2>2, <3>4, <4>2 DEF OnHeap
    <3> QED BY <3>3, <3>4
  <2> QED BY <2>1, <2>2
<1>9. Members = {x \in Element : OnHeap(x)} BY <1>1, IdleMembers
<1>10. Members' = {x \in Element : OnHeap(x)'} BY <1>2 DEF Members
<1>11. Priority' = Priority BY <1>2 DEF Priority, ScoreOf
<1> QED BY <1>8, <1>9, <1>10, <1>11

LEMMA PopPops == ASSUME NEW e \in Element, HeapIInv, Pop(e) PROVE Prio!Pop(e)
<1>1. Idle /\ OnHeap(e) /\ TakeOut(e, "updown") /\ largest' = NoElement BY DEF Pop
<1> QED BY <1>1, Removes DEF Prio!Pop

LEMMA PopMaxPops == HeapIInv /\ PopMax => Prio!PopMax
<1> SUFFICES ASSUME HeapIInv, PopMax PROVE Prio!PopMax OBVIOUS
<1>1. Idle /\ dir = "rest" /\ count > 0 /\ TakeOut(stack[0], "down") /\ largest' = stack[0]
  BY DEF PopMax, Idle
<1>2. PICK e : e = stack[0] OBVIOUS
<1>3. e \in Element /\ OnHeap(e) BY <1>1, <1>2, TopContained
<1>4. Members' = Members \ {e} /\ Priority' = Priority /\ e \in Members
  BY <1>1, <1>2, <1>3, Removes
<1>5. /\ TypeOK /\ ScoresDefined /\ Complete(HeapKey, count)
      /\ HeapKey = [p \in 0 .. count - 1 |-> score[stack[p]]]
  BY <1>1, AtRest
<1>6. count \in Nat /\ HeapKey \in [0 .. count - 1 -> Int] BY <1>5, HeapKeyType DEF TypeOK
<1>7. \A p \in 0 .. count - 1 : HeapKey[p] <= HeapKey[0] BY <1>5, <1>6, RootLargest
<1>8. ASSUME NEW d \in Members PROVE Priority[d] <= Priority[e]
  <2>1. d \in Element /\ OnHeap(d) BY <1>1, IdleMembers DEF Idle
  <2>2. pos[d] \in 0 .. count - 1 /\ stack[pos[d]] = d BY <1>1, <2>1, Located
  <2>3. 0 \in 0 .. count - 1 BY <1>1, <1>6
  <2>4. HeapKey[pos[d]] = score[d] /\ HeapKey[0] = score[e] BY <1>2, <1>5, <2>2, <2>3
  <2>5. Priority[d] = score[d] /\ Priority[e] = score[e]
    BY <1>3, <2>1 DEF Priority, ScoreOf, OnHeap
  <2> QED BY <1>7, <2>2, <2>4, <2>5
<1> QED BY <1>1, <1>2, <1>4, <1>8 DEF Prio!PopMax

LEMMA UpdateUpdates ==
    ASSUME NEW e \in Element, NEW s \in Score, HeapIInv, Update(e, s) PROVE Prio!Update(e, s)
<1> DEFINE F == ImportedScores(score, e)
<1>0. TypeOK /\ ScoresDefined /\ vars \in Nat /\ size \in Nat /\ e \in Nat
  BY DEF HeapIInv, TypeOK, Element
<1>1. /\ e < size /\ vars' = VarsWith(e) /\ pos' = ImportedPos(pos, e)
      /\ score' = [F EXCEPT ![e] = s]
      /\ pending' = pending /\ largest' = NoElement
  BY DEF Update
<1>2. /\ vars' \in Nat /\ vars <= vars' /\ e < vars' /\ vars' <= size
      /\ F \in [0 .. size - 1 -> Score \cup {Garbage}]
      /\ \A p \in 0 .. vars - 1 : pos'[p] = pos[p] /\ F[p] = score[p]
      /\ \A p \in vars .. vars' - 1 : pos'[p] = Discontain /\ F[p] = 0
  BY <1>0, <1>1, ImportsHere
<1> HIDE DEF F
<1>3. e \in 0 .. size - 1 BY <1>0, <1>1
<1>4. score'[e] = s /\ \A d \in 0 .. size - 1 : d # e => score'[d] = F[d] BY <1>1, <1>2, <1>3
<1>5. ASSUME NEW d \in Element PROVE SameOn(d)
  <2>1. d < vars => d \in 0 .. vars - 1 BY <1>0, SameOfElements
  <2> QED BY <1>0, <1>2, <2>1, BeyondOff
<1>6. ASSUME NEW d \in Element, d # e PROVE SameScore(d)
  <2>1. d < vars => d \in 0 .. vars - 1 BY <1>0, SameOfElements
  <2>2. d < vars => d \in 0 .. size - 1
    <3>1. d \in Nat /\ vars <= size BY <1>0 DEF TypeOK, Element
    <3> QED BY <1>0, <3>1
  <2>3. d \in vars .. vars' - 1 => d \in 0 .. size - 1 BY <1>0, <1>2, Inside
  <2>4. /\ d < vars => score'[d] = score[d]
        /\ d \in vars .. vars' - 1 => score'[d] = 0
    BY <1>2, <1>4, <1>6, <2>1, <2>2, <2>3
  <2> QED BY <1>0, <1>2, <2>4, Beyond
<1>7. Members' = Members BY <1>1, <1>5 DEF Members, SameOn
<1>8. ScoreOf(e)' = s BY <1>2, <1>4 DEF ScoreOf
<1>9. Priority' = [Priority EXCEPT ![e] = s] BY <1>6, <1>8 DEF Priority, SameScore
<1> QED BY <1>1, <1>7, <1>9 DEF Prio!Update

LEMMA RescaleRescales ==
    ASSUME NEW f \in [Score -> Score], HeapIInv, Rescale(f) PROVE Prio!Rescale
<1>0. /\ vars \in Nat /\ size \in Nat /\ vars <= size
      /\ score \in [0 .. size - 1 -> Score \cup {Garbage}]
  BY DEF HeapIInv, TypeOK
<1>1. /\ Monotone(f) /\ vars' = vars /\ pos' = pos /\ pending' = pending /\ largest' = NoElement
      /\ score' = [p \in DOMAIN score |-> IF p < vars THEN f[score[p]] ELSE score[p]]
  BY DEF Rescale
<1>2. Members' = Members BY <1>1 DEF Members, OnHeap
<1>3. ASSUME NEW e \in Element PROVE ScoreOf(e)' = f[Priority[e]]
  <2>1. Priority[e] = ScoreOf(e) BY DEF Priority
  <2>2. CASE e < vars
    <3>1. e \in 0 .. size - 1 BY <1>0, <2>2 DEF Element
    <3> QED BY <1>0, <1>1, <2>1, <2>2, <3>1 DEF ScoreOf
  <2>3. CASE ~ (e < vars) BY <1>1, <2>1, <2>3 DEF ScoreOf, Monotone
  <2> QED BY <2>2, <2>3
<1>4. Priority' = [e \in Element |-> f[Priority[e]]] BY <1>3 DEF Priority
<1>5. Prio!Monotone(f) BY <1>1 DEF Monotone, Prio!Monotone
<1> QED BY <1>1, <1>2, <1>4, <1>5 DEF Prio!Rescale

\* Every name belongs to one element on the heap, and the new score is its old.
LEMMA CompactRenumbers ==
    ASSUME NEW m \in Renumberings, HeapIInv, HeapIInv', CompactScores(m) PROVE Prio!Renumber(m)
<1>1. /\ dir = "rest" /\ pending = <<>> /\ SharedByFixed(m)
      /\ pending' = [p \in 1 .. count |-> m[stack[p - 1]]]
      /\ largest' = NoElement
  BY DEF CompactScores, Idle
<1>2. PICK n \in 0 .. MaxVars, v \in Int :
        /\ v \in 0 .. n /\ Names(m) = 0 .. n - 1 /\ size' = n /\ vars' = v
        /\ pos' = [p \in 0 .. n - 1 |-> IF p < v THEN Discontain ELSE Garbage]
        /\ score' = [p \in 0 .. n - 1 |-> IF tainted THEN CopiedScore(m, p) ELSE 0]
        /\ Scored(m) \subseteq 0 .. v - 1
  BY DEF CompactScores
<1>3. TypeOK /\ ScoresDefined /\ Mirrors(stack, pos, count, vars) BY <1>1, AtRest
<1>4. /\ vars \in Nat /\ size \in Nat /\ vars <= size /\ count \in Nat /\ MaxVars \in Nat
      /\ stack \in [0 .. count - 1 -> 0 .. vars - 1]
      /\ m \in [Element -> Element \cup {NoElement}]
  BY <1>3, HeapAssumption DEF TypeOK, Renumberings
<1>5. Members = {e \in Element : OnHeap(e)} BY <1>1, IdleMembers
<1>6. \A e \in Element : ~ OnHeap(e)'
  <2> SUFFICES ASSUME NEW e \in Element, e < v PROVE pos'[e] = Discontain
    BY <1>2 DEF OnHeap
  <2>1. e \in 0 .. n - 1 BY <1>2 DEF Element
  <2> QED BY <1>2, <2>1
<1>7. Members' = {m[e] : e \in Members} \ {NoElement}
  <2>1. DOMAIN pending' = 1 .. count /\ \A p \in 1 .. count : pending'[p] = m[stack[p - 1]]
    BY <1>1
  <2>2. ASSUME NEW x \in Members' PROVE x \in {m[e] : e \in Members} \ {NoElement}
    <3>1. x \in Element /\ \E p \in 1 .. count : pending'[p] = x
      BY <1>6, <2>1 DEF Members
    <3>2. PICK p \in 1 .. count : pending'[p] = x BY <3>1
    <3>3. p - 1 \in 0 .. count - 1 BY <1>4
    <3>4. PICK e \in 0 .. vars - 1 : e = stack[p - 1] BY <1>4, <3>3
    <3>5. e \in Element BY <1>3, StackType
    <3>6. pos[e] = p - 1 /\ e < vars BY <1>3, <1>4, <3>3, <3>4 DEF Mirrors
    <3>7. OnHeap(e) BY <3>3, <3>6 DEF OnHeap, Discontain
    <3>8. m[e] = x BY <2>1, <3>2, <3>4
    <3>9. x # NoElement BY <3>1, HeapAssumption DEF Element
    <3> QED BY <1>5, <3>5, <3>7, <3>8, <3>9
  <2>3. ASSUME NEW e \in Members, m[e] # NoElement PROVE m[e] \in Members'
    <3>1. e \in Element /\ OnHeap(e) BY <1>5
    <3>2. pos[e] \in 0 .. count - 1 /\ stack[pos[e]] = e BY <1>1, <3>1, Located
    <3>3. PICK q \in 0 .. count - 1 : q = pos[e] BY <3>2
    <3>4. q + 1 \in 1 .. count /\ (q + 1) - 1 = q BY <1>4
    <3>5. pending'[q + 1] = m[e] BY <2>1, <3>2, <3>3, <3>4
    <3>6. m[e] \in Element BY <1>4, <2>3, <3>1
    <3> QED BY <2>1, <3>4, <3>5, <3>6 DEF Members
  <2> QED BY <2>2, <2>3
<1>8. Priority' \in [Element -> Score]
  <2>1. \A e \in Element : ScoreOf(e)' \in Score
    <3> TAKE e \in Element
    <3>1. CASE e < v
      <4>1. e \in 0 .. v - 1 BY <1>2, <3>1 DEF Element
      <4>2. \A d \in 0 .. vars' - 1 : score'[d] \in Score BY DEF HeapIInv, ScoresDefined
      <4> QED BY <1>2, <3>1, <4>1, <4>2 DEF ScoreOf
    <3>2. CASE ~ (e < v) BY <1>2, <3>2, HeapAssumption DEF ScoreOf
    <3> QED BY <3>1, <3>2
  <2> QED BY <2>1 DEF Priority
<1>9. ASSUME NEW e \in Members, m[e] # NoElement PROVE Priority'[m[e]] = Priority[e]
  <2>1. e \in Element /\ OnHeap(e) BY <1>5
  <2>2. PICK p \in Element : p = m[e] BY <1>4, <1>9, <2>1
  <2>3. p \in Names(m) BY <1>9, <2>1, <2>2 DEF Names
  <2>4. Priority[e] = ScoreOf(e) /\ Priority'[p] = ScoreOf(p)' BY <2>1 DEF Priority
  <2>5. CASE p < v
    <3>1. p \in 0 .. n - 1 BY <1>2, <2>3
    <3>2. ScoreOf(p)' = IF tainted THEN CopiedScore(m, p) ELSE 0
      BY <1>2, <2>5, <3>1 DEF ScoreOf
    <3>3. CASE tainted
      <4>1. PICK d \in Element : m[d] = p /\ CopiedScore(m, p) = ScoreOf(d)
        BY <2>3, Copied
      <4>2. d = e BY <1>1, <1>9, <2>1, <2>2, <4>1 DEF SharedByFixed
      <4> QED BY <2>2, <2>4, <3>2, <3>3, <4>1, <4>2
    <3>4. CASE ~ tainted
      <4>1. e \in 0 .. size - 1 BY <1>4, <2>1 DEF OnHeap, Element
      <4>2. ScoreOf(e) = 0 BY <1>3, <3>4, <4>1 DEF ScoreOf, ScoresDefined
      <4> QED BY <2>2, <2>4, <3>2, <3>4, <4>2
    <3> QED BY <3>3, <3>4
  <2>6. CASE ~ (p < v)
    <3>1. ScoreOf(p)' = 0 BY <1>2, <2>6 DEF ScoreOf
    <3>2. p \notin 0 .. v - 1 BY <1>2, <2>6
    <3>3. p \notin Scored(m) BY <1>2, <3>2
    <3>4. ScoreOf(e) = 0 BY <1>9, <2>1, <2>2, <3>3 DEF Scored
    <3> QED BY <2>2, <2>4, <3>1, <3>4
  <2> QED BY <2>5, <2>6
<1> QED BY <1>1, <1>7, <1>8, <1>9 DEF Prio!Renumber

LEMMA ReleaseReleases == HeapIInv /\ Release => Prio!Release
<1> SUFFICES ASSUME HeapIInv, Release PROVE Prio!Release OBVIOUS
<1>1. vars' = 0 /\ pending' = <<>> /\ largest' = NoElement BY DEF Release, Idle
<1>2. \A e \in Element : ~ (e < 0) BY DEF Element
<1>3. Members' = {} BY <1>1, <1>2 DEF Members, OnHeap
<1>4. Priority' = [e \in Element |-> 0] BY <1>1, <1>2 DEF Priority, ScoreOf
<1> QED BY <1>1, <1>3, <1>4 DEF Prio!Release

\* Nothing was returned since compaction began.
Waiting == pending # <<>> => largest = NoElement

LEMMA StillWaiting == Waiting /\ [HeapNext]_heapVars => Waiting'
<1> SUFFICES ASSUME Waiting, [HeapNext]_heapVars PROVE Waiting' OBVIOUS
<1>1. CASE UNCHANGED heapVars BY <1>1 DEF Waiting, heapVars
<1>2. CASE Step
  <2>1. CASE PushNext
    <3>1. pending # <<>> /\ (largest' = largest \/ largest' = NoElement)
      BY <2>1 DEF PushNext, PushElement
    <3> QED BY <3>1 DEF Waiting
  <2>2. CASE UpStep \/ UpDone \/ DownStep \/ DownDone
    BY <2>2 DEF UpStep, UpDone, DownStep, DownDone, Placed, Waiting
  <2> QED BY <1>2, <2>1, <2>2 DEF Step
<1>3. CASE Call
  <2>1. ASSUME NEW m \in Renumberings, CompactScores(m) PROVE Waiting'
    BY <2>1 DEF CompactScores, Waiting
  <2>2. ASSUME NEW n \in 1 .. MaxSize, Resize(n) PROVE Waiting'
    BY <2>2 DEF Resize, Waiting
  <2>3. ASSUME NEW e \in Element, Adjust(e) PROVE Waiting'
    BY <2>3 DEF Adjust, Waiting
  <2>4. ASSUME NEW e \in Element, Push(e) PROVE Waiting'
    BY <2>4 DEF Push, PushElement, Waiting
  <2>5. ASSUME NEW e \in Element, Pop(e) PROVE Waiting'
    BY <2>5 DEF Pop, Waiting
  <2>6. ASSUME NEW e \in Element, NEW s \in Score, Update(e, s) PROVE Waiting'
    BY <2>6 DEF Update, Waiting
  <2>7. CASE PopMax BY <2>7 DEF PopMax, Idle, TakeOut, Waiting
  <2>8. ASSUME NEW f \in [Score -> Score], Rescale(f) PROVE Waiting'
    BY <2>8 DEF Rescale, Waiting
  <2>9. CASE Release BY <2>9 DEF Release, Waiting
  <2> QED BY <1>3, <2>1, <2>2, <2>3, <2>4, <2>5, <2>6, <2>7, <2>8, <2>9 DEF Call
<1> QED BY <1>1, <1>2, <1>3 DEF HeapNext

LEMMA StepImplements ==
    HeapIInv /\ HeapIInv' /\ Waiting /\ [HeapNext]_heapVars => Prio!Next \/ UNCHANGED View
<1> SUFFICES ASSUME HeapIInv, HeapIInv', Waiting, [HeapNext]_heapVars
             PROVE  Prio!Next \/ UNCHANGED View
  OBVIOUS
<1>1. CASE UNCHANGED heapVars
  <2>1. UNCHANGED <<vars, score, pos, pending, largest>>
    BY <1>1 DEF heapVars, arrayVars
  <2> QED BY <2>1 DEF View, Members, Priority, OnHeap, ScoreOf
<1>2. CASE Step BY <1>2, LoopStutters, PushNextStutters DEF Step, Waiting
<1>3. CASE Call
  <2>1. ASSUME NEW m \in Renumberings, CompactScores(m) PROVE Prio!Next
    <3>1. Prio!Renumber(m) BY <2>1, CompactRenumbers
    <3> QED BY <3>1 DEF Prio!Next, Renumberings
  <2>2. ASSUME NEW e \in Element, Push(e) PROVE Prio!Next BY <2>2, PushPushes DEF Prio!Next
  <2>3. ASSUME NEW e \in Element, Pop(e) PROVE Prio!Next BY <2>3, PopPops DEF Prio!Next
  <2>4. ASSUME NEW e \in Element, NEW s \in Score, Update(e, s) PROVE Prio!Next
    BY <2>4, UpdateUpdates DEF Prio!Next
  <2>5. CASE PopMax BY <2>5, PopMaxPops DEF Prio!Next
  <2>6. ASSUME NEW f \in [Score -> Score], Rescale(f) PROVE Prio!Next
    BY <2>6, RescaleRescales DEF Prio!Next
  <2>7. CASE Release BY <2>7, ReleaseReleases DEF Prio!Next
  <2> QED BY <1>3, <2>1, <2>2, <2>3, <2>4, <2>5, <2>6, <2>7, AllocationStutters DEF Call
<1> QED BY <1>1, <1>2, <1>3 DEF HeapNext

LEMMA InitImplements == HeapInit => Prio!Init
<1> SUFFICES ASSUME HeapInit PROVE Prio!Init OBVIOUS
<1>1. vars = 0 /\ pending = <<>> /\ largest = NoElement BY DEF HeapInit
<1>2. \A e \in Element : ~ (e < 0) BY DEF Element
<1>3. Members = {} BY <1>1, <1>2 DEF Members, OnHeap
<1>4. Priority = [e \in Element |-> 0] BY <1>1, <1>2 DEF Priority, ScoreOf
<1> QED BY <1>1, <1>3, <1>4 DEF Prio!Init

\* The heap implements a set of scored elements: whatever is resized, imported
\* or renumbered in between, kissat_pop_max_heap returns a member that no other
\* exceeds, no member and no score is lost, and a renamed element keeps both.
THEOREM HeapImplementsPriorities == HeapSpec => PrioritiesSpec
<1>1. HeapInit => HeapIInv /\ Waiting /\ Prio!Init
  BY InitInv, InitImplements DEF HeapInit, Waiting
<1>2. HeapIInv /\ Waiting /\ [HeapNext]_heapVars => HeapIInv' /\ Waiting'
  BY StepKeeps, StillWaiting
<1>3. HeapIInv /\ HeapIInv' /\ Waiting /\ [HeapNext]_heapVars => [Prio!Next]_(Prio!vars)
  BY StepImplements DEF Prio!vars, View
<1> QED BY <1>1, <1>2, <1>3, PTL DEF HeapSpec, PrioritiesSpec, Prio!PrioritiesSpec

-----------------------------------------------------------------------------
(***************************************************************************)
(* The lists in the shared stack stay apart and are the lists their users  *)
(* see.                                                                    *)
(***************************************************************************)
LEMMA VectorsInitInv == VectorsInit => VectorsInv
BY DEF VectorsInit, VectorsInv, VectorsTypeOK, InStack, Disjoint, NoneFree, OthersFree,
       InOrder, Settled, Top, Within, Null, Word

\* The types that the steps below compute with.
Words == Datum \cup {0, Invalid}

Numbers == base \in Nat /\ used \in Nat /\ capacity \in Nat /\ Top = base + used
           /\ Top \in Nat /\ used <= capacity /\ target \in Nat /\ usable \in Int

Pointers == begin \in [Vector -> Nat] /\ end \in [Vector -> Nat]

PlacedAt(v) ==
    \/ begin[v] = 0 /\ end[v] = 0
    \/ base < begin[v] /\ begin[v] <= end[v] /\ end[v] <= Top /\ begin[v] < Top

LEMMA Types ==
    ASSUME VectorsInv
    PROVE  /\ Numbers /\ Pointers
           /\ memory \in [0 .. used - 1 -> Words]
           /\ \A v \in Vector : PlacedAt(v)
BY DatumAssumption, AddressesAssumption
   DEF VectorsInv, VectorsTypeOK, InStack, Words, Top, Null, Invalid, Numbers, Pointers, PlacedAt

LEMMA ElementWords == \A e \in Datum : e # Invalid /\ e \in Words
BY DatumAssumption DEF Words, Invalid


\* Two stacks, one of which lies d words further.
LEMMA Shift ==
    ASSUME NEW b \in Int, NEW c \in Int, NEW d \in Int, c = b + d, NEW n \in Int, NEW p \in Int
    PROVE  p + d \in c + 1 .. c + n - 1 <=> p \in b + 1 .. b + n - 1
OBVIOUS

LEMMA Difference == \A b, c \in Int : \E d \in Int : c = b + d
<1> SUFFICES ASSUME NEW b \in Int, NEW c \in Int PROVE \E d \in Int : c = b + d
  OBVIOUS
<1>1. c - b \in Int /\ c = b + (c - b) OBVIOUS
<1> QED BY <1>1

LEMMA Cancel == \A b, q \in Int : q = b + 1 => (0 + q) - b = 1
OBVIOUS

LEMMA Behind == \A n \in Nat : n + 1 \in Nat /\ n + 2 \in Nat
OBVIOUS

LEMMA PastEnd ==
    \A b, u, s, w, p \in Int :
        ~ (p <= b + u + s) /\ p - b < w => p - b \in u + s + 1 .. w - 1
OBVIOUS

LEMMA InRow == \A n \in Nat : n < n + 1 /\ n + 1 <= n + 2 /\ n + 2 <= n + 2 /\ n + 1 < n + 2
OBVIOUS

LEMMA InsideStack ==
    ASSUME NEW b \in Int, NEW n \in Int, NEW m \in Int, n <= m, NEW p \in Int, b < p, p < b + n
    PROVE  p \in b .. b + n /\ p \in b + 1 .. b + m - 1 /\ ~ (p >= b + n)
OBVIOUS

\* What an operation does not move apart and does not write remains.
LEMMA ContentKept ==
    ASSUME NEW w \in Vector, NEW d \in Int,
           begin[w] \in Nat, end[w] \in Nat, begin'[w] \in Nat, end'[w] \in Nat,
           begin[w] <= end[w], begin'[w] <= end'[w],
           \A p \in Int : Within(p + d, w)' <=> Within(p, w),
           \A p \in Int : Within(p, w) => Word(p + d)' = Word(p)
    PROVE  Content(w)' = Content(w)
<1>1. \A p \in Int : begin'[w] <= p + d /\ p + d < end'[w] <=> begin[w] <= p /\ p < end[w]
  BY DEF Within
<1>2. CASE begin[w] = end[w]
  <2>1. begin'[w] = end'[w]
    <3> SUFFICES ASSUME begin'[w] # end'[w] PROVE FALSE
      OBVIOUS
    <3>1. begin'[w] - d \in Int /\ (begin'[w] - d) + d = begin'[w] /\ begin'[w] < end'[w] OBVIOUS
    <3> QED BY <1>1, <1>2, <3>1
  <2>2. Size(w) = 0 /\ Size(w)' = 0 BY <1>2, <2>1 DEF Size
  <2>3. Content(w) = [i \in 1 .. 0 |-> Word(begin[w] + (i - 1))] BY <2>2 DEF Content
  <2>4. Content(w)' = [i \in 1 .. 0 |-> Word(begin[w] + (i - 1))'] BY <2>2 DEF Content
  <2>5. 1 .. 0 = {} OBVIOUS
  <2> QED BY <2>3, <2>4, <2>5
<1>3. CASE begin[w] # end[w]
  <2>1. begin[w] < end[w] BY <1>3
  <2>2. begin'[w] <= begin[w] + d /\ begin[w] + d < end'[w] BY <1>1, <2>1
  <2>3. begin'[w] = begin[w] + d
    <3>1. begin'[w] - d \in Int /\ (begin'[w] - d) + d = begin'[w] /\ begin'[w] < end'[w]
      BY <2>2
    <3>2. begin[w] <= begin'[w] - d BY <1>1, <3>1
    <3> QED BY <2>2, <3>2
  <2>4. end'[w] = end[w] + d
    <3>1. end[w] - 1 \in Int /\ end'[w] - 1 - d \in Int
          /\ (end'[w] - 1 - d) + d = end'[w] - 1 /\ begin'[w] <= end'[w] - 1 /\ end'[w] - 1 < end'[w]
      BY <2>2
    <3>2. (end[w] - 1) + d < end'[w] BY <1>1, <2>1, <3>1
    <3>3. end'[w] - 1 - d < end[w] BY <1>1, <3>1
    <3> QED BY <3>2, <3>3
  <2>5. Size(w)' = Size(w) BY <2>3, <2>4 DEF Size
  <2>6. ASSUME NEW i \in 1 .. Size(w)
        PROVE  Word(begin[w] + (i - 1))' = Word(begin[w] + (i - 1))
    <3>1. PICK p \in Int : p = begin[w] + (i - 1) OBVIOUS
    <3>2. Within(p, w) BY <3>1 DEF Size, Within
    <3>3. Word(p + d)' = Word(p) BY <3>2
    <3>4. begin'[w] + (i - 1) = p + d BY <2>3, <3>1
    <3>5. Word(begin[w] + (i - 1))' = memory'[(p + d) - base'] BY <3>4 DEF Word
    <3>6. Word(begin[w] + (i - 1)) = Word(p) BY <3>1
    <3> QED BY <3>3, <3>5, <3>6 DEF Word
  <2> QED BY <2>5, <2>6 DEF Content
<1> QED BY <1>2, <1>3

\* No list changes, or none but v.
AllKept == \A w \in Vector : Content(w)' = Content(w)

Others(v) == \A w \in Vector : w # v => Content(w)' = Content(w)

\* An operation on the list v, after which the stack lies d words further: the
\* other lists are moved along, no word of theirs is taken, and the words that
\* v leaves or has in reserve are free.
LEMMA OneList ==
    ASSUME VectorsInv, VectorsTypeOK', Settled, Settled', waiting' = {}, NEW v \in Vector,
           NEW d \in Int, base' = base + d, used <= used',
           \A w \in Vector : PlacedAt(w)',
           \A w \in Vector : w # v => \A p \in Int : Within(p + d, w)' <=> Within(p, w),
           \A p \in Int : Within(p + d, v)' =>
              Word(p + d)' # Invalid /\ \A w \in Vector : w # v => ~ Within(p, w),
           \A p \in base + 1 .. base + used' - 1 : ~ Within(p + d, v)' =>
              IF p >= Top \/ Within(p, v) THEN Word(p + d)' = Invalid
                                          ELSE Word(p + d)' = Word(p)
    PROVE  VectorsInv' /\ Others(v)
<1>0. Numbers /\ Pointers /\ \A w \in Vector : PlacedAt(w) BY Types
<1>1. Top' = base' + used' /\ used' \in Nat /\ base' = base + d /\ base' \in Int
  <2>1. Top' = base' + used' BY DEF Top
  <2>2. used' \in Nat BY DEF VectorsTypeOK
  <2> QED BY <1>0, <2>1, <2>2 DEF Numbers
<1>2. \A w \in Vector, p \in Int : Within(p, w) => base < p /\ p < Top
  BY <1>0 DEF Within, PlacedAt, Numbers, Pointers
<1>3. InStack' BY DEF InStack, PlacedAt, Null
<1>4. Disjoint'
  <2> SUFFICES ASSUME NEW w \in Vector, NEW u \in Vector, w # u, NEW q \in base' .. Top',
                      Within(q, w)', Within(q, u)'
               PROVE  FALSE
    BY DEF Disjoint
  <2> DEFINE p == q - d
  <2>1. p \in Int /\ q = p + d BY <1>0, <1>1 DEF Numbers
  <2> HIDE DEF p
  <2>2. Within(p + d, w)' /\ Within(p + d, u)' BY <2>1
  <2>3. CASE w = v BY <2>1, <2>2, <2>3
  <2>4. CASE u = v BY <2>1, <2>2, <2>4
  <2>5. CASE w # v /\ u # v
    <3>1. Within(p, w) /\ Within(p, u) BY <2>1, <2>2, <2>5
    <3>2. p \in base .. Top BY <1>0, <1>2, <2>1, <3>1 DEF Numbers
    <3> QED BY <3>1, <3>2 DEF VectorsInv, Disjoint
  <2> QED BY <2>3, <2>4, <2>5
<1>5. NoneFree'
  <2> SUFFICES ASSUME NEW w \in Vector, NEW q \in base' .. Top', Within(q, w)'
               PROVE  Word(q)' # Invalid
    BY DEF NoneFree
  <2> DEFINE p == q - d
  <2>1. p \in Int /\ q = p + d BY <1>0, <1>1 DEF Numbers
  <2> HIDE DEF p
  <2>2. Within(p + d, w)' /\ Word(q)' = Word(p + d)' BY <2>1
  <2>3. CASE w = v BY <2>1, <2>2, <2>3
  <2>4. CASE w # v
    <3>1. Within(p, w) BY <2>1, <2>2, <2>4
    <3>2. p \in base .. Top /\ p \in base + 1 .. base + used' - 1 /\ ~ (p >= Top)
      <4>1. base < p /\ p < Top BY <1>2, <2>1, <3>1
      <4>2. base \in Int /\ used \in Int /\ used' \in Int /\ Top = base + used
        BY <1>0, <1>1 DEF Numbers
      <4> QED BY <2>1, <4>1, <4>2, InsideStack
    <3>3. Word(p) # Invalid /\ ~ Within(p, v)
      BY <2>4, <3>1, <3>2 DEF VectorsInv, NoneFree, Disjoint
    <3>4. ~ Within(p + d, v)' BY <2>1, <2>4, <3>1
    <3>5. Word(p + d)' = Word(p) BY <3>2, <3>3, <3>4
    <3> QED BY <2>2, <3>3, <3>5
  <2> QED BY <2>3, <2>4
<1>6. OthersFree'
  <2> SUFFICES ASSUME NEW q \in base' + 1 .. Top' - 1
               PROVE  Word(q)' = Invalid \/ \E w \in Vector : Within(q, w)'
    BY DEF OthersFree
  <2> DEFINE p == q - d
  <2>1. p \in Int /\ q = p + d BY <1>0, <1>1 DEF Numbers
  <2> HIDE DEF p
  <2>2. p \in base + 1 .. base + used' - 1
    <3>1. p + d \in base' + 1 .. base' + used' - 1 BY <1>1, <2>1
    <3>2. base \in Int /\ base' \in Int /\ used' \in Int /\ base' = base + d
      BY <1>0, <1>1 DEF Numbers
    <3> QED BY <2>1, <3>1, <3>2, Shift
  <2>3. CASE Within(p + d, v)' BY <2>1, <2>3
  <2>4. CASE ~ Within(p + d, v)' /\ (p >= Top \/ Within(p, v))
    BY <2>1, <2>2, <2>4
  <2>5. CASE ~ Within(p + d, v)' /\ ~ (p >= Top \/ Within(p, v))
    <3>1. Word(p + d)' = Word(p) BY <2>2, <2>5
    <3>2. p \in base + 1 .. Top - 1 BY <1>0, <2>1, <2>2, <2>5 DEF Numbers
    <3>3. Word(p) = Invalid \/ \E w \in Vector : Within(p, w)
      BY <3>2 DEF VectorsInv, OthersFree
    <3>4. ASSUME NEW w \in Vector, Within(p, w) PROVE Within(p + d, w)'
      BY <2>1, <2>5, <3>4
    <3> QED BY <2>1, <3>1, <3>3, <3>4
  <2> QED BY <2>3, <2>4, <2>5
<1>7. InOrder' BY DEF InOrder
<1>8. ASSUME NEW w \in Vector, w # v PROVE Content(w)' = Content(w)
  <2>1. begin' \in [Vector -> Nat] /\ end' \in [Vector -> Nat] BY DEF VectorsTypeOK
  <2>2. /\ begin[w] \in Nat /\ end[w] \in Nat /\ begin'[w] \in Nat /\ end'[w] \in Nat
        /\ PlacedAt(w) /\ PlacedAt(w)'
    BY <1>0, <2>1 DEF Pointers
  <2>3. begin[w] <= end[w] /\ begin'[w] <= end'[w] BY <2>2 DEF PlacedAt
  <2>4. \A p \in Int : Within(p + d, w)' <=> Within(p, w) BY <1>8
  <2>5. ASSUME NEW p \in Int, Within(p, w) PROVE Word(p + d)' = Word(p)
    <3>1. p \in base .. Top /\ p \in base + 1 .. base + used' - 1 /\ ~ (p >= Top)
      <4>1. base < p /\ p < Top BY <1>2, <2>5
      <4>2. base \in Int /\ used \in Int /\ used' \in Int /\ Top = base + used
        BY <1>0, <1>1 DEF Numbers
      <4> QED BY <4>1, <4>2, InsideStack
    <3>2. ~ Within(p, v) BY <1>8, <2>5, <3>1 DEF VectorsInv, Disjoint
    <3>3. ~ Within(p + d, v)' BY <1>8, <2>5
    <3> QED BY <3>1, <3>2, <3>3
  <2> QED BY <2>2, <2>3, <2>4, <2>5, ContentKept
<1> QED BY <1>3, <1>4, <1>5, <1>6, <1>7, <1>8 DEF VectorsInv, Others
\* A list is a sequence of words.
LEMMA ContentSequence ==
    ASSUME VectorsInv, NEW v \in Vector
    PROVE  /\ Size(v) \in Nat /\ Size(v) = end[v] - begin[v]
           /\ Content(v) \in Seq(Words) /\ Len(Content(v)) = Size(v)
           /\ \A i \in 1 .. Size(v) : Content(v)[i] = Word(begin[v] + (i - 1))
<1>0. Numbers /\ Pointers /\ memory \in [0 .. used - 1 -> Words] /\ PlacedAt(v) BY Types
<1>1. Size(v) \in Nat /\ Size(v) = end[v] - begin[v]
  BY <1>0 DEF Size, PlacedAt, Pointers
<1>2. ASSUME NEW i \in 1 .. Size(v) PROVE Word(begin[v] + (i - 1)) \in Words
  <2>1. (begin[v] + (i - 1)) - base \in 0 .. used - 1
    BY <1>0, <1>1 DEF PlacedAt, Numbers, Pointers
  <2> QED BY <1>0, <2>1 DEF Word
<1>3. Content(v) \in [1 .. Size(v) -> Words] BY <1>2 DEF Content
<1>4. Content(v) \in Seq(Words) BY <1>1, <1>3
<1>5. Len(Content(v)) = Size(v) BY <1>1, <1>3, <1>4
<1> QED BY <1>1, <1>4, <1>5 DEF Content

\* A push copies the words of the list, if it copies them, and writes behind.
LEMMA ContentAppended ==
    ASSUME VectorsInv, NEW v \in Vector, NEW e \in Datum, NEW q \in Int,
           begin'[v] = begin[v] + q, end'[v] = end[v] + q + 1,
           \A p \in Int : Within(p, v) => Word(p + q)' = Word(p),
           \A p \in Int : p = end[v] => Word(p + q)' = e
    PROVE  Content(v)' = Append(Content(v), e)
<1>0. Pointers /\ begin[v] \in Nat /\ end[v] \in Nat BY Types DEF Pointers
<1> DEFINE n == Size(v)
<1>1. /\ n \in Nat /\ n = end[v] - begin[v] /\ Content(v) \in Seq(Words)
      /\ Len(Content(v)) = n /\ \A i \in 1 .. n : Content(v)[i] = Word(begin[v] + (i - 1))
  BY ContentSequence
<1>2. Size(v)' = n + 1
  <2>1. Size(v)' = end'[v] - begin'[v] BY DEF Size
  <2> QED BY <1>0, <1>1, <2>1
<1> HIDE DEF n
<1>3. Content(v)' = [i \in 1 .. n + 1 |-> Word(begin[v] + (i - 1))'] BY <1>2 DEF Content
<1>4. ASSUME NEW i \in 1 .. n + 1
      PROVE  Word(begin[v] + (i - 1))' = Append(Content(v), e)[i]
  <2>0. i \in Int BY <1>1
  <2>1. PICK p \in Int : p = begin[v] + (i - 1) BY <1>0, <2>0
  <2>2. begin'[v] + (i - 1) = p + q BY <1>0, <2>0, <2>1
  <2>3. Word(begin[v] + (i - 1))' = Word(p + q)' BY <2>2 DEF Word
  <2>4. CASE i = n + 1
    <3>1. p = end[v] BY <1>0, <1>1, <2>1, <2>4
    <3>2. Append(Content(v), e)[n + 1] = e BY <1>1, ElementWords, AppendProperties
    <3> QED BY <2>3, <2>4, <3>1, <3>2
  <2>5. CASE i # n + 1
    <3>1. i \in 1 .. n BY <1>1, <2>0, <2>5
    <3>2. Within(p, v) BY <1>0, <1>1, <2>1, <3>1 DEF Within
    <3>3. Append(Content(v), e)[i] = Content(v)[i] BY <1>1, <3>1, ElementWords, AppendProperties
    <3>4. Content(v)[i] = Word(p) BY <1>1, <2>1, <3>1
    <3> QED BY <2>3, <3>2, <3>3, <3>4
  <2> QED BY <2>4, <2>5
<1>5. Append(Content(v), e) = [i \in 1 .. n + 1 |-> Append(Content(v), e)[i]]
  <2>1. /\ Append(Content(v), e) \in Seq(Words) /\ Len(Append(Content(v), e)) = n + 1
    BY <1>1, ElementWords, AppendProperties
  <2>2. Append(Content(v), e) \in [1 .. n + 1 -> Words] BY <2>1, LenProperties
  <2> QED BY <2>2
<1> QED BY <1>3, <1>4, <1>5

LEMMA Idling == VectorsInv /\ Settled => waiting = {} /\ target = 0
BY DEF VectorsInv, InOrder, Settled, Null

LEMMA AppendInv ==
    ASSUME VectorsInv, Settled, NEW v \in Vector, NEW e \in Datum, AppendWord(v, e),
           \/ begin' = begin /\ begin[v] # 0 /\ end[v] = Top
           \/ begin' = [begin EXCEPT ![v] = Top] /\ begin[v] = 0 /\ used > 0
    PROVE  VectorsInv' /\ Others(v) /\ Content(v)' = Append(Content(v), e)
<1>0. Numbers /\ Pointers /\ memory \in [0 .. used - 1 -> Words]
      /\ \A w \in Vector : PlacedAt(w)
  BY Types
<1>1. /\ base' = base /\ used' = used + 1 /\ capacity' = capacity /\ used < capacity
      /\ usable' = usable /\ waiting' = waiting /\ target' = target /\ Top' = Top + 1
  BY <1>0 DEF AppendWord, Numbers, Top
<1>2. /\ \A w \in Vector : w # v => begin'[w] = begin[w] /\ end'[w] = end[w]
      /\ end'[v] = Top + 1 /\ begin' \in [Vector -> Nat] /\ end' \in [Vector -> Nat]
  <2>1. end' = [end EXCEPT ![v] = Top + 1] /\ Top + 1 \in Nat /\ Top \in Nat
    BY <1>0 DEF AppendWord, Numbers
  <2>2. CASE begin' = begin BY <1>0, <2>1, <2>2 DEF Pointers
  <2>3. CASE begin' = [begin EXCEPT ![v] = Top] BY <1>0, <2>1, <2>3 DEF Pointers
  <2> QED BY <2>2, <2>3
<1>3. base < begin'[v] /\ begin'[v] <= Top
      /\ \A p \in Int : begin'[v] <= p /\ p < Top => Within(p, v)
  BY <1>0 DEF PlacedAt, Pointers, Numbers, Within
<1>4. /\ memory' \in [0 .. used' - 1 -> Words]
      /\ memory'[used] = e /\ \A i \in 0 .. used - 1 : memory'[i] = memory[i]
  <2>1. memory' = [i \in 0 .. used |-> IF i = used THEN e ELSE memory[i]] /\ used' - 1 = used
    BY <1>0, <1>1 DEF AppendWord, Numbers
  <2>2. \A i \in 0 .. used : i = used \/ i \in 0 .. used - 1 BY <1>0 DEF Numbers
  <2>3. used \in 0 .. used /\ \A i \in 0 .. used - 1 : i \in 0 .. used /\ i # used
    BY <1>0 DEF Numbers
  <2> QED BY <1>0, <2>1, <2>2, <2>3, ElementWords
<1>5. VectorsTypeOK'
  BY <1>0, <1>1, <1>2, <1>4, Idling DEF VectorsTypeOK, VectorsInv, Words, Numbers
<1>6. \A w \in Vector : PlacedAt(w)'
  <2> SUFFICES ASSUME NEW w \in Vector PROVE PlacedAt(w)' OBVIOUS
  <2>1. CASE w = v BY <1>0, <1>1, <1>2, <1>3, <2>1 DEF PlacedAt, Numbers, Pointers
  <2>2. CASE w # v BY <1>0, <1>1, <1>2, <2>2 DEF PlacedAt, Numbers, Pointers
  <2> QED BY <2>1, <2>2
<1>7. \A w \in Vector : w # v => \A p \in Int : Within(p + 0, w)' <=> Within(p, w)
  BY <1>2 DEF Within
<1>8. ASSUME NEW p \in Int PROVE Within(p, v)' <=> begin'[v] <= p /\ p < Top + 1
  BY <1>2 DEF Within
<1>9. ASSUME NEW p \in Int, p >= base, p < Top
      PROVE  Word(p)' = Word(p)
  <2>1. p - base \in 0 .. used - 1 BY <1>0, <1>9 DEF Numbers
  <2> QED BY <1>1, <1>4, <2>1 DEF Word
<1>10. ASSUME NEW p \in Int, Within(p + 0, v)'
       PROVE  Word(p + 0)' # Invalid /\ \A w \in Vector : w # v => ~ Within(p, w)
  <2>1. begin'[v] <= p /\ p < Top + 1 BY <1>8, <1>10
  <2>2. CASE p = Top
    <3>1. p - base = used BY <1>0, <2>2 DEF Numbers
    <3>2. Word(p)' = e BY <1>1, <1>4, <3>1 DEF Word
    <3>3. \A w \in Vector : ~ Within(p, w)
      BY <1>0, <2>2 DEF Within, PlacedAt, Numbers, Pointers
    <3> QED BY <3>2, <3>3, ElementWords
  <2>3. CASE p < Top
    <3>1. Within(p, v) BY <1>3, <2>1, <2>3
    <3>2. p >= base /\ p \in base .. Top BY <1>0, <1>2, <1>3, <2>1, <2>3 DEF Numbers
    <3>3. Word(p) # Invalid /\ \A w \in Vector : w # v => ~ Within(p, w)
      BY <3>1, <3>2 DEF VectorsInv, NoneFree, Disjoint
    <3> QED BY <1>9, <2>3, <3>2, <3>3
  <2> QED BY <1>0, <2>1, <2>2, <2>3 DEF Numbers
<1>11. ASSUME NEW p \in base + 1 .. base + used' - 1, ~ Within(p + 0, v)'
       PROVE  IF p >= Top \/ Within(p, v) THEN Word(p + 0)' = Invalid
                                          ELSE Word(p + 0)' = Word(p)
  <2>1. p \in Int /\ base < p /\ p <= Top BY <1>0, <1>1 DEF Numbers
  <2>2. begin'[v] <= Top /\ ~ (begin'[v] <= p /\ p < Top + 1) BY <1>3, <1>8, <1>11, <2>1
  <2>3. p < Top BY <1>0, <2>1, <2>2 DEF Numbers
  <2>4. ~ Within(p, v)
    BY <1>0, <1>2, <2>1, <2>2, <2>3 DEF Within, PlacedAt, Pointers, Numbers
  <2>5. Word(p)' = Word(p) BY <1>9, <2>1, <2>3, <1>0 DEF Numbers
  <2> QED BY <1>0, <2>1, <2>3, <2>4, <2>5 DEF Numbers
<1>12. base' = base + 0 /\ used <= used' /\ Settled' /\ waiting' = {}
  BY <1>0, <1>1, Idling DEF Numbers, Settled
<1>13. Content(v)' = Append(Content(v), e)
  <2>1. PICK q \in Int : /\ begin'[v] = begin[v] + q /\ end'[v] = end[v] + q + 1
                         /\ (q = 0 \/ (begin[v] = 0 /\ end[v] = 0)) /\ end[v] + q = Top
    <3>0. Top \in Int /\ begin[v] \in Int /\ end'[v] = Top + 1 BY <1>0, <1>2 DEF Numbers, Pointers
    <3>1. CASE begin' = begin /\ end[v] = Top
      <4>1. /\ begin'[v] = begin[v] + 0 /\ end'[v] = end[v] + 0 + 1 /\ end[v] + 0 = Top
            /\ 0 \in Int
        BY <3>0, <3>1
      <4> WITNESS 0 \in Int
      <4> QED BY <4>1
    <3>2. CASE begin' = [begin EXCEPT ![v] = Top] /\ begin[v] = 0
      <4>1. end[v] = 0 /\ begin'[v] = Top BY <1>0, <3>2 DEF PlacedAt, Numbers, Pointers
      <4> QED BY <3>0, <3>2, <4>1
    <3> QED BY <3>1, <3>2
  <2>2. ASSUME NEW p \in Int, Within(p, v) PROVE Word(p + q)' = Word(p)
    <3>1. begin[v] # 0 /\ base < begin[v] /\ begin[v] <= p /\ p < Top
      BY <1>0, <2>2 DEF PlacedAt, Within, Numbers, Pointers
    <3>2. q = 0 /\ p >= base BY <1>0, <2>1, <3>1 DEF Numbers, Pointers
    <3>3. Word(p)' = Word(p) BY <1>9, <3>1, <3>2
    <3> QED BY <3>2, <3>3
  <2>3. ASSUME NEW p \in Int, p = end[v] PROVE Word(p + q)' = e
    <3>1. (p + q) - base' = used BY <1>0, <1>1, <2>1, <2>3 DEF Numbers
    <3> QED BY <1>4, <3>1 DEF Word
  <2> QED BY <2>1, <2>2, <2>3, ContentAppended
<1>14. VectorsInv' /\ Others(v)
  <2>0. PICK d \in Int : d = 0 OBVIOUS
  <2>1. \A w \in Vector : w # v => \A p \in Int : Within(p + d, w)' <=> Within(p, w)
    BY <1>7, <2>0
  <2>2. \A p \in Int : Within(p + d, v)' =>
           Word(p + d)' # Invalid /\ \A w \in Vector : w # v => ~ Within(p, w)
    BY <1>10, <2>0
  <2>3. \A p \in base + 1 .. base + used' - 1 : ~ Within(p + d, v)' =>
           IF p >= Top \/ Within(p, v) THEN Word(p + d)' = Invalid
                                       ELSE Word(p + d)' = Word(p)
    BY <1>11, <2>0
  <2>4. base' = base + d BY <1>12, <2>0
  <2> QED BY <1>5, <1>6, <1>12, <2>1, <2>2, <2>3, <2>4, OneList
<1> QED BY <1>14, <1>13

LEMMA PushFirstInv ==
    ASSUME VectorsInv, NEW v \in Vector, NEW e \in Datum, PushFirst(v, e)
    PROVE  VectorsInv' /\ Others(v) /\ Content(v)' = Append(Content(v), e)
<1>0. Numbers /\ Pointers /\ \A w \in Vector : PlacedAt(w) BY Types
<1>1. /\ base' \in Addresses /\ base' \in Nat /\ used = 0 /\ used' = 2 /\ capacity' = 4
      /\ usable' = usable /\ waiting' = waiting /\ target' = target /\ Settled /\ Top' = base' + 2
  BY AddressesAssumption DEF PushFirst, Top
<1>2. /\ \A w \in Vector : w # v => begin'[w] = begin[w] /\ end'[w] = end[w]
      /\ begin'[v] = base' + 1 /\ end'[v] = base' + 2
      /\ begin' \in [Vector -> Nat] /\ end' \in [Vector -> Nat]
  <2>1. /\ begin' = [begin EXCEPT ![v] = base' + 1] /\ end' = [end EXCEPT ![v] = base' + 2]
    BY DEF PushFirst
  <2>2. base' + 1 \in Nat /\ base' + 2 \in Nat BY <1>1, Behind
  <2> QED BY <1>0, <2>1, <2>2 DEF Pointers
<1>3. \A w \in Vector : begin[w] = 0 /\ end[w] = 0
  BY <1>0, <1>1 DEF PlacedAt, Numbers, Pointers
<1>4. memory' \in [0 .. used' - 1 -> Words] /\ memory'[1] = e
  <2>1. memory' = [i \in 0 .. 1 |-> IF i = 0 THEN 0 ELSE e] /\ used' - 1 = 1
    BY <1>1 DEF PushFirst
  <2>2. 0 \in Words /\ 1 \in 0 .. 1 BY DEF Words
  <2> QED BY <2>1, <2>2, ElementWords
<1>5. VectorsTypeOK'
  BY <1>0, <1>1, <1>2, <1>4, Idling DEF VectorsTypeOK, VectorsInv, Words, Numbers
<1>6. \A w \in Vector : PlacedAt(w)'
  <2> SUFFICES ASSUME NEW w \in Vector PROVE PlacedAt(w)' OBVIOUS
  <2>1. CASE w = v
    <3>1. /\ begin'[v] = base' + 1 /\ end'[v] = base' + 2 /\ Top' = base' + 2
          /\ base' \in Nat
      BY <1>1, <1>2
    <3>2. base' < begin'[v] /\ begin'[v] <= end'[v] /\ end'[v] <= Top' /\ begin'[v] < Top'
      BY <3>1, InRow
    <3> QED BY <2>1, <3>2 DEF PlacedAt
  <2>2. CASE w # v BY <1>2, <1>3, <2>2 DEF PlacedAt
  <2> QED BY <2>1, <2>2
<1>7. PICK d \in Int : base' = base + d
  <2>1. base \in Int /\ base' \in Int BY <1>0, <1>1 DEF Numbers
  <2> QED BY <2>1, Difference
<1>8. \A w \in Vector, p \in Int : ~ Within(p, w) BY <1>3 DEF Within
<1>9. \A w \in Vector : w # v => \A p \in Int : Within(p + d, w)' <=> Within(p, w)
  BY <1>2, <1>3, <1>7, <1>8 DEF Within
<1>10. ASSUME NEW p \in Int
       PROVE  Within(p + d, v)' <=> p = base + 1
  <2>1. Within(p + d, v)' <=> base' + 1 <= p + d /\ p + d < base' + 2
    BY <1>2 DEF Within
  <2> QED BY <1>0, <1>7, <2>1 DEF Numbers
<1>11. ASSUME NEW p \in Int, Within(p + d, v)' PROVE Word(p + d)' # Invalid
  <2>1. (p + d) - base' = 1
    <3>1. p = base + 1 /\ base \in Int BY <1>0, <1>10, <1>11 DEF Numbers
    <3> QED BY <1>7, <3>1
  <2>2. memory'[1] # Invalid BY <1>4, ElementWords
  <2> QED BY <2>1, <2>2 DEF Word
<1>12. ASSUME NEW p \in base + 1 .. base + used' - 1 PROVE Within(p + d, v)'
  <2>1. p = base + 1 /\ p \in Int BY <1>0, <1>1 DEF Numbers
  <2> QED BY <1>10, <2>1
<1>13. used <= used' /\ Settled' /\ waiting' = {} BY <1>1, Idling DEF Settled
<1>14. Settled BY <1>1
<1>15. Content(v)' = Append(Content(v), e)
  <2>1. PICK q \in Int : q = base' + 1
    <3>1. base' + 1 \in Int BY <1>1, Behind
    <3> QED BY <3>1
  <2>2. begin'[v] = begin[v] + q /\ end'[v] = end[v] + q + 1
    <3>1. base' + 1 = 0 + q /\ base' + 2 = 0 + q + 1 BY <1>1, <2>1
    <3> QED BY <1>2, <1>3, <3>1
  <2>3. ASSUME NEW p \in Int, p = end[v] PROVE Word(p + q)' = e
    <3>1. (p + q) - base' = 1
      <4>1. p = 0 BY <1>3, <2>3
      <4>2. base' \in Int BY <1>1
      <4> QED BY <2>1, <4>1, <4>2, Cancel
    <3> QED BY <1>4, <3>1 DEF Word
  <2> QED BY <1>8, <2>2, <2>3, ContentAppended
<1>16. VectorsInv' /\ Others(v)
  BY <1>14, <1>5, <1>6, <1>7, <1>8, <1>9, <1>11, <1>12, <1>13, OneList
<1> QED BY <1>16, <1>15

LEMMA PushBehindInv ==
    ASSUME VectorsInv, NEW v \in Vector, NEW e \in Datum, PushBehind(v, e)
    PROVE  VectorsInv' /\ Others(v) /\ Content(v)' = Append(Content(v), e)
<1>0. Numbers /\ Pointers /\ memory \in [0 .. used - 1 -> Words]
      /\ \A w \in Vector : PlacedAt(w)
  BY Types
<1>1. /\ base' = base /\ used' = used /\ capacity' = capacity /\ begin' = begin
      /\ usable' = usable - 1 /\ waiting' = waiting /\ target' = target /\ Settled /\ Top' = Top
      /\ begin[v] # 0 /\ end[v] # Top /\ Word(end[v]) = Invalid
  BY DEF PushBehind, FreeBehind, stackVars, Null, Top
<1>2. base < begin[v] /\ begin[v] <= end[v] /\ end[v] < Top /\ end[v] \in Nat /\ begin[v] \in Nat
  BY <1>0, <1>1, SMTT(30) DEF PlacedAt, Numbers, Pointers
<1>3. /\ \A w \in Vector : w # v => end'[w] = end[w]
      /\ end'[v] = end[v] + 1 /\ end' \in [Vector -> Nat]
  <2>1. end' = [end EXCEPT ![v] = end[v] + 1] /\ end[v] + 1 \in Nat BY <1>2 DEF PushBehind
  <2> QED BY <1>0, <2>1 DEF Pointers
<1>4. /\ memory' \in [0 .. used' - 1 -> Words] /\ memory'[end[v] - base] = e
      /\ \A i \in 0 .. used - 1 : i # end[v] - base => memory'[i] = memory[i]
  <2>1. memory' = [memory EXCEPT ![end[v] - base] = e] BY DEF PushBehind
  <2>2. end[v] - base \in 0 .. used - 1 BY <1>0, <1>2 DEF Numbers
  <2> QED BY <1>0, <1>1, <2>1, <2>2, ElementWords
<1>5. VectorsTypeOK'
  <2>1. usable' \in Int BY <1>0, <1>1 DEF Numbers
  <2> QED BY <1>0, <1>1, <1>3, <1>4, <2>1, Idling
          DEF VectorsTypeOK, VectorsInv, Words, Numbers, Pointers
<1>6. \A w \in Vector : PlacedAt(w)'
  <2> SUFFICES ASSUME NEW w \in Vector PROVE PlacedAt(w)' OBVIOUS
  <2>1. CASE w = v BY <1>0, <1>1, <1>2, <1>3, <2>1 DEF PlacedAt, Numbers, Pointers
  <2>2. CASE w # v BY <1>0, <1>1, <1>3, <2>2 DEF PlacedAt
  <2> QED BY <2>1, <2>2
<1>7. \A w \in Vector : w # v => \A p \in Int : Within(p + 0, w)' <=> Within(p, w)
  BY <1>1, <1>3 DEF Within
<1>8. ASSUME NEW p \in Int PROVE Within(p, v)' <=> Within(p, v) \/ p = end[v]
  <2>1. Within(p, v)' <=> begin[v] <= p /\ p < end[v] + 1 BY <1>1, <1>3 DEF Within
  <2>2. Within(p, v) <=> begin[v] <= p /\ p < end[v] BY DEF Within
  <2> QED BY <1>2, <2>1, <2>2
<1>9. ASSUME NEW p \in Int, p >= base, p < Top
      PROVE  Word(p)' = IF p = end[v] THEN e ELSE Word(p)
  <2>1. p - base \in 0 .. used - 1 BY <1>0, <1>9 DEF Numbers
  <2>2. Word(p)' = memory'[p - base] BY <1>1 DEF Word
  <2>3. CASE p = end[v] BY <1>4, <2>2, <2>3
  <2>4. CASE p # end[v]
    <3>1. p - base # end[v] - base BY <1>0, <1>2, <2>4 DEF Numbers
    <3> QED BY <1>4, <2>1, <2>2, <2>4, <3>1 DEF Word
  <2> QED BY <2>3, <2>4
<1>10. ASSUME NEW p \in Int, Within(p + 0, v)'
       PROVE  Word(p + 0)' # Invalid /\ \A w \in Vector : w # v => ~ Within(p, w)
  <2>0. base <= p /\ p < Top /\ p \in base .. Top /\ (Within(p, v) \/ p = end[v])
    <3>1. Within(p, v) \/ p = end[v] BY <1>8, <1>10
    <3> QED BY <1>0, <1>2, <3>1 DEF Within, Numbers
  <2>1. CASE p = end[v]
    <3>1. \A w \in Vector : ~ Within(p, w)
      BY <1>1, <2>0, <2>1 DEF VectorsInv, NoneFree
    <3>2. Word(p)' = e BY <1>9, <2>0, <2>1
    <3> QED BY <3>1, <3>2, ElementWords
  <2>2. CASE p # end[v]
    <3>1. Word(p)' = Word(p) BY <1>9, <2>0, <2>2
    <3>2. Word(p) # Invalid /\ \A w \in Vector : w # v => ~ Within(p, w)
      BY <2>0, <2>2 DEF VectorsInv, NoneFree, Disjoint
    <3> QED BY <3>1, <3>2
  <2> QED BY <2>1, <2>2
<1>11. ASSUME NEW p \in base + 1 .. base + used' - 1, ~ Within(p + 0, v)'
       PROVE  IF p >= Top \/ Within(p, v) THEN Word(p + 0)' = Invalid
                                          ELSE Word(p + 0)' = Word(p)
  <2>1. p \in Int /\ base <= p /\ p < Top BY <1>0, <1>1 DEF Numbers
  <2>2. ~ Within(p, v) /\ p # end[v] BY <1>8, <1>11, <2>1
  <2>3. Word(p)' = Word(p) BY <1>9, <2>1, <2>2
  <2> QED BY <1>0, <2>1, <2>2, <2>3 DEF Numbers
<1>12. base' = base + 0 /\ used <= used' /\ Settled /\ Settled' /\ waiting' = {}
  BY <1>0, <1>1, Idling DEF Numbers, Settled
<1>13. Content(v)' = Append(Content(v), e)
  <2>1. begin'[v] = begin[v] + 0 /\ end'[v] = end[v] + 0 + 1 BY <1>1, <1>2, <1>3
  <2>2. ASSUME NEW p \in Int, Within(p, v) PROVE Word(p + 0)' = Word(p)
    <3>1. p >= base /\ p < Top /\ p # end[v] BY <1>0, <1>2, <2>2 DEF Within, Numbers
    <3> QED BY <1>9, <3>1
  <2>3. ASSUME NEW p \in Int, p = end[v] PROVE Word(p + 0)' = e
    <3>1. p >= base /\ p < Top BY <1>0, <1>2, <2>3 DEF Numbers
    <3> QED BY <1>9, <2>3, <3>1
  <2> QED BY <2>1, <2>2, <2>3, ContentAppended
<1>14. VectorsInv' /\ Others(v)
  <2>0. PICK d \in Int : d = 0 OBVIOUS
  <2>1. \A w \in Vector : w # v => \A p \in Int : Within(p + d, w)' <=> Within(p, w)
    BY <1>7, <2>0
  <2>2. \A p \in Int : Within(p + d, v)' =>
           Word(p + d)' # Invalid /\ \A w \in Vector : w # v => ~ Within(p, w)
    BY <1>10, <2>0
  <2>3. \A p \in base + 1 .. base + used' - 1 : ~ Within(p + d, v)' =>
           IF p >= Top \/ Within(p, v) THEN Word(p + d)' = Invalid
                                       ELSE Word(p + d)' = Word(p)
    BY <1>11, <2>0
  <2>4. base' = base + d BY <1>12, <2>0
  <2> QED BY <1>5, <1>6, <1>12, <2>1, <2>2, <2>3, <2>4, OneList
<1> QED BY <1>14, <1>13

\* An operation inside of the place of v, of which the first n words remain.
LEMMA InPlace ==
    ASSUME VectorsInv, Settled, UNCHANGED <<stackVars, begin, waiting, target>>, usable' \in Int,
           NEW v \in Vector, NEW n \in Nat, n <= end[v] - begin[v],
           end' \in [Vector -> Nat], end'[v] = begin[v] + n,
           \A w \in Vector : w # v => end'[w] = end[w],
           memory' \in [0 .. used - 1 -> Words],
           \A i \in 0 .. used - 1 :
              IF ~ Within(base + i, v) THEN memory'[i] = memory[i]
              ELSE IF base + i < begin[v] + n THEN memory'[i] # Invalid
              ELSE memory'[i] = Invalid
    PROVE  VectorsInv' /\ Others(v)
<1>0. Numbers /\ Pointers /\ \A w \in Vector : PlacedAt(w) BY Types
<1>1. /\ base' = base /\ used' = used /\ capacity' = capacity /\ begin' = begin
      /\ waiting' = waiting /\ target' = target /\ Top' = Top
  BY DEF stackVars, Top
<1>2. begin[v] \in Nat /\ end[v] \in Nat /\ begin[v] + n <= end[v] BY <1>0 DEF Pointers
<1>3. VectorsTypeOK'
  BY <1>0, <1>1, Idling DEF VectorsTypeOK, VectorsInv, Words, Numbers, Pointers
<1>4. \A w \in Vector : PlacedAt(w)'
  <2> SUFFICES ASSUME NEW w \in Vector PROVE PlacedAt(w)' OBVIOUS
  <2>1. CASE w = v BY <1>0, <1>1, <1>2, <2>1 DEF PlacedAt, Numbers, Pointers
  <2>2. CASE w # v BY <1>0, <1>1, <2>2 DEF PlacedAt
  <2> QED BY <2>1, <2>2
<1>5. \A w \in Vector : w # v => \A p \in Int : Within(p + 0, w)' <=> Within(p, w)
  BY <1>1 DEF Within
<1>6. ASSUME NEW p \in Int PROVE Within(p, v)' <=> Within(p, v) /\ p < begin[v] + n
  <2>1. Within(p, v)' <=> begin[v] <= p /\ p < begin[v] + n BY <1>1 DEF Within
  <2>2. Within(p, v) <=> begin[v] <= p /\ p < end[v] BY DEF Within
  <2> QED BY <1>2, <2>1, <2>2
<1>7. ASSUME NEW p \in Int, p >= base, p < Top
      PROVE  IF ~ Within(p, v) THEN Word(p)' = Word(p)
             ELSE IF Within(p, v)' THEN Word(p)' # Invalid
             ELSE Word(p)' = Invalid
  <2> DEFINE i == p - base
  <2>1. i \in 0 .. used - 1 /\ base + i = p BY <1>0, <1>7 DEF Numbers
  <2>2. Word(p)' = memory'[i] /\ Word(p) = memory[i] BY <1>1 DEF Word
  <2> HIDE DEF i
  <2> QED BY <1>6, <2>1, <2>2
<1>8. ASSUME NEW p \in Int, Within(p + 0, v)'
      PROVE  Word(p + 0)' # Invalid /\ \A w \in Vector : w # v => ~ Within(p, w)
  <2>1. Within(p, v)' /\ Within(p, v) BY <1>6, <1>8
  <2>2. p >= base /\ p < Top /\ p \in base .. Top
    BY <1>0, <2>1 DEF Within, PlacedAt, Numbers, Pointers
  <2>3. Word(p)' # Invalid BY <1>7, <2>1, <2>2
  <2> QED BY <2>1, <2>2, <2>3 DEF VectorsInv, Disjoint
<1>9. ASSUME NEW p \in base + 1 .. base + used' - 1, ~ Within(p + 0, v)'
      PROVE  IF p >= Top \/ Within(p, v) THEN Word(p + 0)' = Invalid
                                         ELSE Word(p + 0)' = Word(p)
  <2>1. p \in Int /\ p >= base /\ p < Top BY <1>0, <1>1 DEF Numbers
  <2>2. ~ Within(p, v)' /\ ~ (p >= Top) BY <1>0, <1>9, <2>1 DEF Numbers
  <2>3. IF Within(p, v) THEN Word(p)' = Invalid ELSE Word(p)' = Word(p)
    BY <1>7, <2>1, <2>2
  <2> QED BY <2>1, <2>2, <2>3
<1>12. base' = base + 0 /\ used <= used' /\ Settled /\ Settled' /\ waiting' = {}
  BY <1>0, <1>1, Idling DEF Numbers, Settled
<1> QED
  <2>0. PICK d \in Int : d = 0 OBVIOUS
  <2>1. \A w \in Vector : w # v => \A p \in Int : Within(p + d, w)' <=> Within(p, w)
    BY <1>5, <2>0
  <2>2. \A p \in Int : Within(p + d, v)' =>
           Word(p + d)' # Invalid /\ \A w \in Vector : w # v => ~ Within(p, w)
    BY <1>8, <2>0
  <2>3. \A p \in base + 1 .. base + used' - 1 : ~ Within(p + d, v)' =>
           IF p >= Top \/ Within(p, v) THEN Word(p + d)' = Invalid
                                       ELSE Word(p + d)' = Word(p)
    BY <1>9, <2>0
  <2>4. base' = base + d BY <1>12, <2>0
  <2> QED BY <1>3, <1>4, <1>12, <2>1, <2>2, <2>3, <2>4, OneList

\* The words of a list, by their offset.
LEMMA OwnWords ==
    ASSUME VectorsInv, NEW v \in Vector, NEW i \in 0 .. used - 1, Within(base + i, v)
    PROVE  memory[i] # Invalid
<1>1. Numbers BY Types
<1>2. base + i \in base .. Top /\ (base + i) - base = i BY <1>1 DEF Numbers
<1>3. Word(base + i) # Invalid BY <1>2 DEF VectorsInv, NoneFree
<1> QED BY <1>2, <1>3 DEF Word

\* The words of a list that keeps its place.
LEMMA ContentInPlace ==
    ASSUME VectorsInv, UNCHANGED <<stackVars, begin>>, NEW v \in Vector,
           NEW n \in Nat, end'[v] = begin[v] + n
    PROVE  \E o \in Int :
             /\ o = begin[v] - base
             /\ Content(v)' = [i \in 1 .. n |-> memory'[o + (i - 1)]]
             /\ Content(v) = [i \in 1 .. Size(v) |-> memory[o + (i - 1)]]
             /\ \A i \in 1 .. Size(v) : o + (i - 1) \in 0 .. used - 1
<1>0. Numbers /\ Pointers /\ PlacedAt(v) BY Types
<1>1. base \in Int /\ used \in Int /\ Top = base + used /\ begin[v] \in Int /\ end[v] \in Int
      /\ base' = base /\ begin' = begin
  BY <1>0 DEF Numbers, Pointers, stackVars
<1>2. PICK o \in Int : o = begin[v] - base BY <1>1
<1>3. Size(v)' = n /\ Size(v) = end[v] - begin[v] BY <1>1 DEF Size
<1>4. \A i \in Int : (begin[v] + (i - 1)) - base = o + (i - 1) BY <1>1, <1>2
<1>5. Content(v)' = [i \in 1 .. n |-> memory'[(begin[v] + (i - 1)) - base]]
  BY <1>1, <1>3 DEF Content, Word
<1>6. Content(v) = [i \in 1 .. Size(v) |-> memory[(begin[v] + (i - 1)) - base]]
  BY DEF Content, Word
<1>7. Content(v)' = [i \in 1 .. n |-> memory'[o + (i - 1)]] BY <1>4, <1>5
<1>8. Size(v) \in Int BY <1>1, <1>3
<1>9. Content(v) = [i \in 1 .. Size(v) |-> memory[o + (i - 1)]] BY <1>4, <1>6, <1>8
<1>10. ASSUME NEW i \in 1 .. Size(v) PROVE o + (i - 1) \in 0 .. used - 1
  BY <1>0, <1>1, <1>2, <1>3 DEF PlacedAt
<1> QED BY <1>2, <1>7, <1>9, <1>10

LEMMA ShortenInv ==
    ASSUME VectorsInv, NEW v \in Vector, NEW n \in Nat, Shorten(v, n)
    PROVE  VectorsInv' /\ Others(v) /\ Content(v)' = [i \in 1 .. n |-> Content(v)[i]]
<1>0. Numbers /\ Pointers /\ memory \in [0 .. used - 1 -> Words] /\ PlacedAt(v) BY Types
<1>1. begin[v] \in Nat /\ end[v] \in Nat /\ n < end[v] - begin[v]
  BY <1>0 DEF Shorten, Size, Pointers
<1>2. /\ end' \in [Vector -> Nat] /\ end'[v] = begin[v] + n
      /\ \A w \in Vector : w # v => end'[w] = end[w]
  <2>1. end' = [end EXCEPT ![v] = begin[v] + n] BY DEF Shorten
  <2> QED BY <1>0, <1>1, <2>1 DEF Pointers
<1>3. usable' \in Int BY <1>0, <1>1 DEF Shorten, Size, Numbers
<1>4. \A i \in 0 .. used - 1 :
         memory'[i] = IF begin[v] + n <= base + i /\ base + i < end[v]
                      THEN Invalid ELSE memory[i]
  BY <1>0 DEF Shorten
<1>5. memory' \in [0 .. used - 1 -> Words]
  <2>1. Invalid \in Words BY DEF Words
  <2> QED BY <1>0, <2>1 DEF Shorten
<1>6. ASSUME NEW i \in 0 .. used - 1
      PROVE  IF ~ Within(base + i, v) THEN memory'[i] = memory[i]
             ELSE IF base + i < begin[v] + n THEN memory'[i] # Invalid
             ELSE memory'[i] = Invalid
  <2>0. base + i \in Int /\ base \in Int /\ begin[v] + n \in Int BY <1>0, <1>1 DEF Numbers
  <2>1. CASE ~ Within(base + i, v)
    <3>1. ~ (begin[v] + n <= base + i /\ base + i < end[v])
      BY <1>1, <2>0, <2>1 DEF Within
    <3> QED BY <1>4, <2>1, <3>1
  <2>2. CASE Within(base + i, v) /\ base + i < begin[v] + n
    <3>1. ~ (begin[v] + n <= base + i) BY <2>0, <2>2
    <3>2. memory'[i] = memory[i] BY <1>4, <3>1
    <3> QED BY <2>2, <3>2, OwnWords
  <2>3. CASE Within(base + i, v) /\ ~ (base + i < begin[v] + n)
    <3>1. begin[v] + n <= base + i BY <2>0, <2>3
    <3> QED BY <1>4, <2>3, <3>1 DEF Within
  <2> QED BY <2>1, <2>2, <2>3
<1>7. Settled /\ UNCHANGED <<stackVars, begin, waiting, target>> /\ n <= end[v] - begin[v]
  BY <1>1 DEF Shorten
<1>8. VectorsInv' /\ Others(v)
  BY <1>2, <1>3, <1>5, <1>6, <1>7, InPlace
<1>9. Content(v)' = [i \in 1 .. n |-> Content(v)[i]]
  <2>1. PICK o \in Int :
             /\ o = begin[v] - base
             /\ Content(v)' = [i \in 1 .. n |-> memory'[o + (i - 1)]]
             /\ Content(v) = [i \in 1 .. Size(v) |-> memory[o + (i - 1)]]
             /\ \A i \in 1 .. Size(v) : o + (i - 1) \in 0 .. used - 1
    BY <1>2, <1>7, ContentInPlace
  <2>2. ASSUME NEW i \in 1 .. n PROVE memory'[o + (i - 1)] = Content(v)[i]
    <3>1. i \in 1 .. Size(v) BY <1>1 DEF Size
    <3>2. base \in Int BY <1>0 DEF Numbers
    <3>3. ~ (begin[v] + n <= base + (o + (i - 1))) BY <1>1, <2>1, <3>2
    <3>4. memory'[o + (i - 1)] = memory[o + (i - 1)] BY <1>4, <2>1, <3>1, <3>3
    <3> QED BY <2>1, <3>1, <3>4
  <2> QED BY <2>1, <2>2
<1> QED BY <1>8, <1>9

LEMMA SubstituteInv ==
    ASSUME VectorsInv, NEW v \in Vector, NEW k \in 1 .. Size(v), NEW e \in Datum,
           Substitute(v, k, e)
    PROVE  VectorsInv' /\ Others(v) /\ Content(v)' = [Content(v) EXCEPT ![k] = e]
<1>0. Numbers /\ Pointers /\ memory \in [0 .. used - 1 -> Words] /\ PlacedAt(v) BY Types
<1>1. begin[v] \in Nat /\ end[v] \in Nat /\ k \in 1 .. end[v] - begin[v]
  BY <1>0 DEF Size, Pointers
<1> DEFINE n == end[v] - begin[v]
           j == begin[v] + k - 1 - base
<1>2. n \in Nat /\ n <= end[v] - begin[v] /\ end[v] = begin[v] + n BY <1>1
<1>3. j \in 0 .. used - 1 /\ base + j >= begin[v] /\ base + j < end[v]
  BY <1>0, <1>1 DEF PlacedAt, Numbers
<1>4. memory' = [memory EXCEPT ![j] = e] /\ end' = end BY DEF Substitute
<1>5. memory' \in [0 .. used - 1 -> Words] BY <1>0, <1>3, <1>4, ElementWords
<1>6. ASSUME NEW i \in 0 .. used - 1
      PROVE  IF ~ Within(base + i, v) THEN memory'[i] = memory[i]
             ELSE IF base + i < begin[v] + n THEN memory'[i] # Invalid
             ELSE memory'[i] = Invalid
  <2>1. CASE ~ Within(base + i, v)
    <3>1. i # j BY <1>3, <2>1 DEF Within
    <3> QED BY <1>0, <1>4, <2>1, <3>1
  <2>2. CASE Within(base + i, v)
    <3>1. memory'[i] = e \/ memory'[i] = memory[i] BY <1>0, <1>4
    <3>2. memory'[i] # Invalid BY <2>2, <3>1, OwnWords, ElementWords
    <3> QED BY <1>2, <2>2, <3>2 DEF Within
  <2> QED BY <2>1, <2>2
<1>7. Settled /\ UNCHANGED <<stackVars, begin, waiting, target>> /\ usable' = usable
  BY DEF Substitute
<1>8. usable' \in Int BY <1>0, <1>7 DEF Numbers
<1> HIDE DEF n, j
<1>9. VectorsInv' /\ Others(v)
  BY <1>0, <1>2, <1>4, <1>5, <1>6, <1>7, <1>8, InPlace DEF Pointers
<1>10. Content(v)' = [Content(v) EXCEPT ![k] = e]
  <2>0. end'[v] = begin[v] + n BY <1>2, <1>4
  <2>1. PICK o \in Int :
             /\ o = begin[v] - base
             /\ Content(v)' = [i \in 1 .. n |-> memory'[o + (i - 1)]]
             /\ Content(v) = [i \in 1 .. Size(v) |-> memory[o + (i - 1)]]
             /\ \A i \in 1 .. Size(v) : o + (i - 1) \in 0 .. used - 1
    BY <1>2, <1>7, <2>0, ContentInPlace
  <2>2. Size(v) = n BY DEF n, Size
  <2>3. \A i \in 1 .. n : o + (i - 1) = j <=> i = k
    <3>1. base \in Int /\ begin[v] \in Int /\ k \in Int /\ o = begin[v] - base
      BY <1>0, <1>1, <2>1 DEF Numbers
    <3>2. j = o + (k - 1) BY <3>1 DEF j
    <3>3. \A i \in Int : o + (i - 1) = o + (k - 1) <=> i = k BY <3>1
    <3> QED BY <3>2, <3>3
  <2>4. ASSUME NEW i \in 1 .. n
        PROVE  memory'[o + (i - 1)] = IF i = k THEN e ELSE memory[o + (i - 1)]
    <3>1. o + (i - 1) \in 0 .. used - 1 BY <2>1, <2>2
    <3> QED BY <1>0, <1>4, <2>3, <3>1
  <2>5. Content(v)' = [i \in 1 .. n |-> IF i = k THEN e ELSE memory[o + (i - 1)]]
    BY <2>1, <2>4
  <2> QED BY <2>1, <2>2, <2>5
<1> QED BY <1>9, <1>10

LEMMA RemoveInv ==
    ASSUME VectorsInv, NEW v \in Vector, NEW k \in 1 .. Size(v), NEW w \in {1, 2},
           RemoveWords(v, k, w)
    PROVE  VectorsInv' /\ Others(v) /\ Content(v)' = L!Without(Content(v), k, w)
<1>0. Numbers /\ Pointers /\ memory \in [0 .. used - 1 -> Words] /\ PlacedAt(v) BY Types
<1>1. /\ begin[v] \in Nat /\ end[v] \in Nat /\ k \in 1 .. end[v] - begin[v]
      /\ k + w - 1 <= end[v] - begin[v] /\ w \in Nat
  BY <1>0 DEF Size, Pointers, RemoveWords
<1> DEFINE n == end[v] - begin[v] - w
<1>2. /\ n \in Nat /\ n <= end[v] - begin[v] /\ begin[v] + n = end[v] - w
      /\ end[v] - w \in Nat
  BY <1>1
<1> HIDE DEF n
<1>3. /\ end' \in [Vector -> Nat] /\ end'[v] = begin[v] + n
      /\ \A u \in Vector : u # v => end'[u] = end[u]
  <2>1. end' = [end EXCEPT ![v] = end[v] - w] BY DEF RemoveWords
  <2> QED BY <1>0, <1>2, <2>1 DEF Pointers
<1>4. \A i \in 0 .. used - 1 :
         memory'[i] = IF base + i >= begin[v] + (k - 1) /\ base + i < end[v]
                      THEN IF base + i < end[v] - w THEN memory[i + w] ELSE Invalid
                      ELSE memory[i]
  BY <1>0 DEF RemoveWords
<1>5. ASSUME NEW i \in 0 .. used - 1, base + i < end[v] - w
      PROVE  i + w \in 0 .. used - 1 /\ base + (i + w) < end[v]
  <2>1. base \in Nat /\ used \in Nat /\ Top = base + used /\ end[v] <= Top
    BY <1>0, <1>1 DEF PlacedAt, Numbers
  <2>2. PICK e, t : e = end[v] /\ t = Top OBVIOUS
  <2> QED BY <1>1, <1>2, <1>5, <2>1, <2>2
<1>6. memory' \in [0 .. used - 1 -> Words]
  <2>1. Invalid \in Words BY DEF Words
  <2>2. ASSUME NEW i \in 0 .. used - 1 PROVE memory'[i] \in Words
    BY <1>0, <1>4, <1>5, <2>1
  <2>3. memory' = [i \in 0 .. used - 1 |-> memory'[i]] BY <1>0 DEF RemoveWords
  <2> QED BY <2>2, <2>3
<1>7. ASSUME NEW i \in 0 .. used - 1
      PROVE  IF ~ Within(base + i, v) THEN memory'[i] = memory[i]
             ELSE IF base + i < begin[v] + n THEN memory'[i] # Invalid
             ELSE memory'[i] = Invalid
  <2>0. base + i \in Int /\ base \in Int BY <1>0 DEF Numbers
  <2>1. CASE ~ Within(base + i, v)
    <3>1. ~ (base + i >= begin[v] + (k - 1) /\ base + i < end[v])
      BY <1>1, <2>0, <2>1 DEF Within
    <3> QED BY <1>4, <2>1, <3>1
  <2>2. CASE Within(base + i, v) /\ base + i < begin[v] + n
    <3>0. base + i < end[v] - w BY <1>2, <2>2
    <3>1. i + w \in 0 .. used - 1 /\ Within(base + (i + w), v)
      <4>1. base + (i + w) >= begin[v] BY <1>0, <1>1, <2>2 DEF Within, Numbers
      <4> QED BY <1>5, <3>0, <4>1 DEF Within
    <3>2. memory[i] # Invalid /\ memory[i + w] # Invalid BY <2>2, <3>1, OwnWords
    <3>3. memory'[i] = memory[i] \/ memory'[i] = memory[i + w] BY <1>4, <3>0
    <3> QED BY <2>2, <3>2, <3>3
  <2>3. CASE Within(base + i, v) /\ ~ (base + i < begin[v] + n)
    <3>1. ~ (base + i < end[v] - w) /\ base + i < end[v] BY <1>2, <2>3 DEF Within
    <3>2. base + i >= begin[v] + (k - 1) BY <1>1, <2>0, <3>1
    <3> QED BY <1>4, <2>3, <3>1, <3>2
  <2> QED BY <2>1, <2>2, <2>3
<1>8. Settled /\ UNCHANGED <<stackVars, begin, waiting, target>> /\ usable' \in Int
  BY <1>0, <1>1 DEF RemoveWords, Numbers
<1>9. VectorsInv' /\ Others(v)
  BY <1>2, <1>3, <1>6, <1>7, <1>8, InPlace
<1>10. Content(v)' = L!Without(Content(v), k, w)
  <2>1. PICK o \in Int :
             /\ o = begin[v] - base
             /\ Content(v)' = [i \in 1 .. n |-> memory'[o + (i - 1)]]
             /\ Content(v) = [i \in 1 .. Size(v) |-> memory[o + (i - 1)]]
             /\ \A i \in 1 .. Size(v) : o + (i - 1) \in 0 .. used - 1
    BY <1>2, <1>3, <1>8, ContentInPlace
  <2>2. Len(Content(v)) = Size(v) /\ Size(v) = end[v] - begin[v] BY ContentSequence
  <2>3. n = Len(Content(v)) - w BY <2>2 DEF n
  <2>4. ASSUME NEW i \in 1 .. n
        PROVE  memory'[o + (i - 1)] = IF i < k THEN Content(v)[i] ELSE Content(v)[i + w]
    <3>0. base \in Int BY <1>0 DEF Numbers
    <3>1. i \in 1 .. Size(v) /\ i + w \in 1 .. Size(v)
      <4>1. n = Size(v) - w BY <2>2, <2>3
      <4>2. Size(v) \in Int /\ w \in Nat BY <1>1, <2>2
      <4>3. i \in 1 .. Size(v) - w BY <2>4, <4>1
      <4> QED BY ONLY <4>2, <4>3
    <3>2. base + (o + (i - 1)) = begin[v] + (i - 1)
      <4>1. o = begin[v] - base /\ begin[v] \in Int /\ i \in Int BY <1>1, <2>1
      <4> QED BY <3>0, <4>1
    <3>3. o + ((i + w) - 1) = (o + (i - 1)) + w BY <1>1
    <3>4. base + (o + (i - 1)) < end[v] - w /\ base + (o + (i - 1)) < end[v] BY <1>1, <1>2, <3>2
    <3>5. base + (o + (i - 1)) >= begin[v] + (k - 1) <=> ~ (i < k) BY <1>1, <3>2
    <3>6. o + (i - 1) \in 0 .. used - 1 BY <2>1, <3>1
    <3>7. memory'[o + (i - 1)] =
             IF i < k THEN memory[o + (i - 1)] ELSE memory[(o + (i - 1)) + w]
      BY <1>4, <3>4, <3>5, <3>6
    <3> QED BY <2>1, <3>1, <3>3, <3>7
  <2>5. Content(v)' = [i \in 1 .. n |-> IF i < k THEN Content(v)[i] ELSE Content(v)[i + w]]
    BY <2>1, <2>4
  <2> QED BY <2>3, <2>5 DEF L!Without
<1> QED BY <1>9, <1>10

LEMMA Fits ==
    ASSUME NEW b \in Nat, NEW n \in Nat, n > 0, NEW s \in Nat, NEW m \in Nat, s + 1 <= m
    PROVE  /\ b < b + n /\ b + n <= b + n + s + 1 /\ b + n + s + 1 <= b + (n + m)
           /\ b + n < b + (n + m) /\ b + n \in Nat /\ b + n + s + 1 \in Nat
OBVIOUS

LEMMA Ranges ==
    ASSUME NEW n \in Nat, NEW s \in Nat, NEW z \in Int, NEW i \in 0 .. z - 1
    PROVE  i \in 0 .. n - 1 \/ i \in n .. n + s - 1 \/ i = n + s \/ i \in n + s + 1 .. z - 1
OBVIOUS

LEMMA PushEnlargedInv ==
    ASSUME VectorsInv, NEW v \in Vector, NEW e \in Datum, PushEnlarged(v, e)
    PROVE  VectorsInv' /\ Others(v) /\ Content(v)' = Append(Content(v), e)
<1>0. Numbers /\ Pointers /\ memory \in [0 .. used - 1 -> Words]
      /\ \A w \in Vector : PlacedAt(w)
  BY Types
<1> DEFINE m == NewSize(v)
           s == Size(v)
<1>1. m \in Nat /\ s \in Nat /\ s + 1 <= m /\ s = end[v] - begin[v]
  BY <1>0 DEF NewSize, Size, PlacedAt, Pointers
<1>2. used > 0 BY <1>0 DEF PushEnlarged, Enlarging, PlacedAt, Numbers, Pointers, Null
<1>3. capacity' \in Nat /\ used + m <= capacity'
  <2>1. capacity' \in IF m <= capacity - used THEN {capacity} ELSE Enlargements(m)
    BY DEF PushEnlarged
  <2>2. CASE m <= capacity - used BY <1>0, <1>1, <2>1, <2>2 DEF Numbers
  <2>3. CASE ~ (m <= capacity - used)
    <3>1. capacity' \in 1 .. MaxVectors /\ m <= capacity' - used BY <2>1, <2>3 DEF Enlargements
    <3> QED BY <1>0, <1>1, <3>1 DEF Numbers
  <2> QED BY <2>2, <2>3
<1>4. base' \in Addresses \cup {base} BY DEF PushEnlarged
<1>5. base' \in Nat /\ base' \in Addresses \cup {Null}
  BY <1>0, <1>4, AddressesAssumption DEF VectorsInv, VectorsTypeOK, Numbers
<1>6. PICK d \in Int : base' = base + d
  <2>1. base \in Int /\ base' \in Int BY <1>0, <1>5 DEF Numbers
  <2> QED BY <2>1, Difference
<1>7. /\ used' = used + m /\ usable' = usable + m - 1 /\ waiting' = waiting /\ target' = target
      /\ Settled /\ Top' = base' + used'
  BY DEF PushEnlarged, Top
<1>8. /\ begin' = [w \in Vector |-> IF w = v THEN base' + used ELSE Moved(begin, w, base')]
      /\ end' = [w \in Vector |-> IF w = v THEN base' + used + s + 1 ELSE Moved(end, w, base')]
      /\ memory' = [i \in 0 .. used + m - 1 |->
                      IF i < used THEN IF Within(base + i, v) THEN Invalid ELSE memory[i]
                      ELSE IF i < used + s THEN Word(begin[v] + (i - used))
                      ELSE IF i = used + s THEN e ELSE Invalid]
  BY DEF PushEnlarged
<1> HIDE DEF m, s
<1>9. ASSUME NEW w \in Vector, w # v
      PROVE  /\ begin'[w] = IF begin[w] = 0 THEN 0 ELSE begin[w] + d
             /\ end'[w] = IF begin[w] = 0 THEN 0 ELSE end[w] + d
  <2>0. base' - base = d BY <1>0, <1>6 DEF Numbers
  <2>1. PlacedAt(w) /\ begin[w] \in Nat /\ end[w] \in Nat BY <1>0 DEF Pointers
  <2>2. begin[w] = 0 <=> end[w] = 0 BY <1>0, <2>1 DEF PlacedAt, Numbers
  <2> QED BY <1>8, <1>9, <2>0, <2>2 DEF Moved, Null
<1>10. begin'[v] = base' + used /\ end'[v] = base' + used + s + 1 BY <1>8
<1>11. ASSUME NEW w \in Vector
       PROVE  PlacedAt(w)' /\ begin'[w] \in Nat /\ end'[w] \in Nat
  <2>1. CASE w = v
    <3>1. used \in Nat /\ used > 0 /\ m \in Nat /\ s \in Nat /\ s + 1 <= m /\ base' \in Nat
      BY <1>0, <1>1, <1>2, <1>5 DEF Numbers
    <3>2. begin'[v] = base' + used /\ end'[v] = base' + used + s + 1 /\ Top' = base' + (used + m)
      BY <1>7, <1>10
    <3>3. /\ base' < base' + used /\ base' + used <= base' + used + s + 1
          /\ base' + used + s + 1 <= base' + (used + m)
          /\ base' + used < base' + (used + m)
          /\ base' + used \in Nat /\ base' + used + s + 1 \in Nat
      BY <3>1, Fits
    <3>4. base' < begin'[v] /\ begin'[v] <= end'[v] /\ end'[v] <= Top' /\ begin'[v] < Top'
          /\ begin'[v] \in Nat /\ end'[v] \in Nat
      BY <3>2, <3>3
    <3> QED BY <2>1, <3>4 DEF PlacedAt
  <2>2. CASE w # v
    <3>1. PlacedAt(w) /\ begin[w] \in Nat /\ end[w] \in Nat BY <1>0 DEF Pointers
    <3>2. CASE begin[w] = 0 BY <1>9, <2>2, <3>2 DEF PlacedAt
    <3>3. CASE begin[w] # 0
      <4>1. base < begin[w] /\ begin[w] <= end[w] /\ end[w] <= base + used /\ begin[w] < base + used
        BY <1>0, <3>1, <3>3 DEF PlacedAt, Numbers
      <4>2. /\ begin'[w] = begin[w] + d /\ end'[w] = end[w] + d
            /\ Top' = base + d + (used + m)
        BY <1>6, <1>7, <1>9, <2>2, <3>3
      <4>3. base' = base + d /\ base \in Nat /\ base + d \in Nat /\ used \in Nat
        BY <1>0, <1>5, <1>6 DEF Numbers
      <4> QED BY <1>1, <3>1, <4>1, <4>2, <4>3 DEF PlacedAt
    <3> QED BY <3>2, <3>3
  <2> QED BY <2>1, <2>2
<1>12. begin' \in [Vector -> Nat] /\ end' \in [Vector -> Nat]
  <2>1. begin' = [w \in Vector |-> begin'[w]] /\ end' = [w \in Vector |-> end'[w]] BY <1>8
  <2> QED BY <1>11, <2>1
<1>13. /\ DOMAIN memory' = 0 .. used' - 1
       /\ \A i \in 0 .. used - 1 :
            memory'[i] = IF Within(base + i, v) THEN Invalid ELSE memory[i]
       /\ \A i \in used .. used + s - 1 : memory'[i] = memory[begin[v] - base + (i - used)]
       /\ memory'[used + s] = e
       /\ \A i \in used + s + 1 .. used' - 1 : memory'[i] = Invalid
  <2>1. used \in Nat /\ m \in Nat /\ s \in Nat /\ s + 1 <= m /\ used' = used + m /\ used' \in Nat
        /\ base \in Nat /\ begin[v] \in Nat
    BY <1>0, <1>1, <1>7 DEF Numbers, Pointers
  <2>2. \A i \in 0 .. used - 1 : i \in 0 .. used + m - 1 /\ i < used BY <2>1
  <2>3. \A i \in used .. used + s - 1 : /\ i \in 0 .. used + m - 1 /\ ~ (i < used) /\ i < used + s
                                        /\ (begin[v] + (i - used)) - base = begin[v] - base + (i - used)
    BY <2>1
  <2>4. used + s \in 0 .. used + m - 1 /\ ~ (used + s < used) /\ ~ (used + s < used + s) BY <2>1
  <2>5. \A i \in used + s + 1 .. used' - 1 :
           i \in 0 .. used + m - 1 /\ ~ (i < used) /\ ~ (i < used + s) /\ i # used + s
    BY <2>1
  <2> QED BY <1>8, <2>1, <2>2, <2>3, <2>4, <2>5 DEF Word
<1>14. ASSUME NEW i \in used .. used + s - 1
       PROVE  /\ begin[v] - base + (i - used) \in 0 .. used - 1
              /\ Within(base + (begin[v] - base + (i - used)), v)
  <2>1. base \in Nat /\ used \in Nat /\ begin[v] \in Nat /\ end[v] \in Nat /\ Top = base + used
    BY <1>0 DEF Numbers, Pointers
  <2>2. i \in Int /\ used <= i /\ i < used + s /\ s = end[v] - begin[v] /\ s > 0
    BY <1>1, <2>1
  <2>3. begin[v] # 0
    <3>1. PlacedAt(v) BY <1>0
    <3> QED BY <2>1, <2>2, <3>1 DEF PlacedAt
  <2>4. base < begin[v] /\ end[v] <= base + used
    <3>1. PlacedAt(v) BY <1>0
    <3> QED BY <2>1, <2>3, <3>1 DEF PlacedAt
  <2> QED BY <2>1, <2>2, <2>4 DEF Within
<1>15. memory' \in [0 .. used' - 1 -> Words]
  <2>1. Invalid \in Words BY DEF Words
  <2>2. ASSUME NEW i \in 0 .. used' - 1 PROVE memory'[i] \in Words
    <3>1. i \in 0 .. used - 1 \/ i \in used .. used + s - 1 \/ i = used + s
          \/ i \in used + s + 1 .. used' - 1
      <4>1. used \in Nat /\ s \in Nat /\ used' \in Int BY <1>0, <1>1, <1>7 DEF Numbers
      <4> QED BY <4>1, Ranges
    <3> QED BY <1>0, <1>13, <1>14, <2>1, <3>1, ElementWords
  <2>3. memory' = [i \in 0 .. used' - 1 |-> memory'[i]] BY <1>8, <1>13
  <2> QED BY <2>2, <2>3
<1>16. VectorsTypeOK'
  <2>1. used' \in Nat /\ used' <= capacity' /\ usable' \in Int
    BY <1>0, <1>1, <1>3, <1>7 DEF Numbers
  <2> QED BY <1>0, <1>3, <1>5, <1>7, <1>12, <1>15, <2>1, Idling
          DEF VectorsTypeOK, VectorsInv, Words, Numbers
<1>17. ASSUME NEW w \in Vector, w # v, NEW p \in Int
       PROVE  Within(p + d, w)' <=> Within(p, w)
  <2>1. PlacedAt(w) /\ begin[w] \in Nat /\ end[w] \in Nat BY <1>0 DEF Pointers
  <2>2. CASE begin[w] = 0 BY <1>0, <1>9, <1>17, <2>1, <2>2 DEF PlacedAt, Within, Numbers
  <2>3. CASE begin[w] # 0
    <3>1. begin'[w] = begin[w] + d /\ end'[w] = end[w] + d BY <1>9, <1>17, <2>3
    <3> QED BY <2>1, <3>1 DEF Within
  <2> QED BY <2>2, <2>3
<1>18. ASSUME NEW p \in Int
       PROVE  Within(p + d, v)' <=> Top <= p /\ p <= Top + s
  <2>1. Within(p + d, v)' <=> base' + used <= p + d /\ p + d < base' + used + s + 1
    BY <1>10 DEF Within
  <2> QED BY <1>0, <1>1, <1>6, <2>1 DEF Numbers
<1>19. ASSUME NEW p \in Int PROVE Word(p + d)' = memory'[p - base]
  <2>1. (p + d) - base' = p - base BY <1>0, <1>6 DEF Numbers
  <2> QED BY <2>1 DEF Word
<1>20. ASSUME NEW p \in Int, Within(p + d, v)'
       PROVE  Word(p + d)' # Invalid /\ \A w \in Vector : w # v => ~ Within(p, w)
  <2>1. Top <= p /\ p <= Top + s BY <1>18, <1>20
  <2>2. ASSUME NEW w \in Vector, Within(p, w) PROVE FALSE
    <3>1. begin[w] <= p /\ p < end[w] /\ begin[w] \in Nat /\ end[w] \in Nat
      BY <1>0, <2>2 DEF Within, Pointers
    <3>2. Top \in Nat /\ (end[w] = 0 \/ end[w] <= Top) BY <1>0 DEF PlacedAt, Numbers
    <3> QED BY <2>1, <3>1, <3>2
  <2>3. p - base \in used .. used + s - 1 \/ p - base = used + s
    <3>1. base \in Nat /\ used \in Nat /\ Top = base + used /\ s \in Nat
      BY <1>0, <1>1 DEF Numbers
    <3>2. PICK t : t = Top OBVIOUS
    <3>3. t <= p /\ p <= t + s /\ t = base + used BY <2>1, <3>1, <3>2
    <3>4. p - base >= used /\ p - base <= used + s BY <3>1, <3>3
    <3> QED BY <3>1, <3>4
  <2>4. memory'[p - base] # Invalid BY <1>13, <1>14, <2>3, OwnWords, ElementWords
  <2> QED BY <1>19, <2>2, <2>4
<1>21. ASSUME NEW p \in base + 1 .. base + used' - 1, ~ Within(p + d, v)'
       PROVE  IF p >= Top \/ Within(p, v) THEN Word(p + d)' = Invalid
                                          ELSE Word(p + d)' = Word(p)
  <2>1. p \in Int /\ base < p /\ p - base < used' BY <1>0, <1>1, <1>7 DEF Numbers
  <2>2. Word(p + d)' = memory'[p - base] BY <1>19, <2>1
  <2>3. CASE p >= Top
    <3>1. ~ (p <= Top + s) BY <1>18, <1>21, <2>1, <2>3, <1>0 DEF Numbers
    <3>2. p - base \in used + s + 1 .. used' - 1
      <4>1. base \in Nat /\ used \in Nat /\ used' \in Int /\ s \in Nat /\ Top = base + used
        BY <1>0, <1>1, <1>7 DEF Numbers
      <4>2. ~ (p <= base + used + s) BY <3>1, <4>1
      <4>3. /\ base \in Int /\ used \in Int /\ s \in Int /\ used' \in Int /\ p \in Int
            /\ p - base < used'
        BY <2>1, <4>1
      <4> QED BY ONLY <4>2, <4>3, PastEnd
    <3> QED BY <1>13, <2>2, <2>3, <3>2
  <2>4. CASE ~ (p >= Top)
    <3>1. p - base \in 0 .. used - 1 /\ base + (p - base) = p BY <1>0, <2>1, <2>4 DEF Numbers
    <3> QED BY <1>13, <2>2, <2>4, <3>1 DEF Word
  <2> QED BY <2>3, <2>4
<1>22. used <= used' /\ Settled /\ Settled' /\ waiting' = {}
  BY <1>0, <1>1, <1>7, Idling DEF Settled, Numbers
<1>23. Content(v)' = Append(Content(v), e)
  <2>0. base \in Nat /\ used \in Nat /\ begin[v] \in Nat /\ end[v] \in Nat /\ s = end[v] - begin[v]
    BY <1>0, <1>1 DEF Numbers, Pointers
  <2>1. PICK q \in Int : base' + used = begin[v] + q
    <3>1. base' + used \in Int /\ begin[v] \in Int BY <1>5, <2>0
    <3> QED BY <3>1, Difference
  <2>2. begin'[v] = begin[v] + q /\ end'[v] = end[v] + q + 1
    <3>1. begin[v] + q + s + 1 = end[v] + q + 1 BY <2>0
    <3> QED BY <1>10, <2>1, <3>1
  <2>3. ASSUME NEW p \in Int PROVE (p + q) - base' = used + (p - begin[v])
    <3>1. begin[v] + q - base' = used BY <1>5, <2>0, <2>1
    <3> QED BY <1>5, <2>0, <3>1
  <2>4. ASSUME NEW p \in Int, Within(p, v) PROVE Word(p + q)' = Word(p)
    <3>1. begin[v] <= p /\ p < end[v] BY <2>4 DEF Within
    <3> DEFINE i == used + (p - begin[v])
    <3>2. i \in used .. used + s - 1 BY <2>0, <3>1
    <3>3. begin[v] - base + (i - used) = p - base BY <2>0
    <3>4. memory'[i] = memory[p - base] BY <1>13, <3>2, <3>3
    <3>5. (p + q) - base' = i BY <2>3
    <3> QED BY <3>4, <3>5 DEF Word
  <2>5. ASSUME NEW p \in Int, p = end[v] PROVE Word(p + q)' = e
    <3>1. used + (p - begin[v]) = used + s BY <2>0, <2>5
    <3>2. (p + q) - base' = used + s BY <2>3, <3>1
    <3> QED BY <1>13, <3>2 DEF Word
  <2> QED BY <2>2, <2>4, <2>5, ContentAppended
<1>24. VectorsInv' /\ Others(v)
  BY <1>6, <1>11, <1>16, <1>17, <1>20, <1>21, <1>22, OneList
<1> QED BY <1>24, <1>23

LEMMA ReleaseInv == VectorsInv /\ ReleaseAll => VectorsInv' /\ \A v \in Vector : Content(v)' = <<>>
<1> SUFFICES ASSUME VectorsInv, ReleaseAll PROVE VectorsInv' /\ \A v \in Vector : Content(v)' = <<>>
  OBVIOUS
<1>1. Settled /\ target' = target /\ waiting' = waiting /\ waiting = {}
  BY Idling DEF ReleaseAll
<1>2. /\ base' = 0 /\ used' = 0 /\ capacity' = 0 /\ memory' = [i \in {} |-> 0]
      /\ begin' = [v \in Vector |-> 0] /\ end' = [v \in Vector |-> 0] /\ usable' = 0
  BY DEF ReleaseAll, Null
<1>3. VectorsTypeOK'
  <2>1. 0 .. 0 - 1 = {} OBVIOUS
  <2>2. memory' \in [0 .. used' - 1 -> Words] BY <1>2, <2>1
  <2> QED BY <1>1, <1>2, <2>2 DEF VectorsTypeOK, VectorsInv, Words, Null
<1>4. InStack' BY <1>2 DEF InStack, Null
<1>5. \A v \in Vector, p \in Int : ~ Within(p, v)' BY <1>2 DEF Within
<1>6. Disjoint' /\ NoneFree' BY <1>2, <1>5 DEF Disjoint, NoneFree
<1>7. OthersFree' BY <1>2 DEF OthersFree, Top
<1>8. InOrder' BY <1>1 DEF InOrder, Settled
<1>9. VectorsInv'
  BY <1>3, <1>4, <1>6, <1>7, <1>8 DEF VectorsInv
<1>10. ASSUME NEW v \in Vector PROVE Content(v)' = <<>>
  <2>1. Size(v)' = 0 BY <1>2 DEF Size
  <2>2. Content(v)' = [i \in 1 .. 0 |-> Word(begin[v] + (i - 1))'] BY <2>1 DEF Content
  <2>3. 1 .. 0 = {} OBVIOUS
  <2> QED BY <2>2, <2>3
<1> QED BY <1>9, <1>10

LEMMA DefragStartInv == VectorsInv /\ DefragStart => VectorsInv' /\ AllKept
<1> SUFFICES ASSUME VectorsInv, DefragStart PROVE VectorsInv' /\ AllKept
  OBVIOUS
<1>0. Numbers /\ Pointers /\ \A v \in Vector : PlacedAt(v) BY Types
<1>1. /\ base' = base /\ used' = used /\ capacity' = capacity /\ memory' = memory
      /\ usable' = usable /\ Top' = Top /\ target' = base + 1 /\ used > 1
      /\ waiting' = {v \in Vector : begin[v] # end[v]}
  BY DEF DefragStart, stackVars, Top
<1>2. \A v \in Vector : /\ begin'[v] = IF begin[v] = end[v] THEN 0 ELSE begin[v]
                        /\ end'[v] = IF begin[v] = end[v] THEN 0 ELSE end[v]
  BY DEF DefragStart, Null
<1>3. begin' \in [Vector -> Nat] /\ end' \in [Vector -> Nat]
  <2>1. begin' = [v \in Vector |-> begin'[v]] /\ end' = [v \in Vector |-> end'[v]]
    BY DEF DefragStart
  <2> QED BY <1>0, <1>2, <2>1 DEF Pointers
<1>4. VectorsTypeOK'
  BY <1>0, <1>1, <1>3 DEF VectorsTypeOK, VectorsInv, Numbers
<1>5. \A v \in Vector : PlacedAt(v)'
  BY <1>0, <1>1, <1>2 DEF PlacedAt
<1>6. \A v \in Vector, p \in Int : Within(p, v)' => Within(p, v)
  BY <1>0, <1>2 DEF Within, Pointers
<1>7. InStack' BY <1>5 DEF InStack, PlacedAt, Null
<1>8. \A p : Word(p)' = Word(p) BY <1>1 DEF Word
<1>9. base .. Top \subseteq Int BY <1>0 DEF Numbers
<1>10. Disjoint' BY <1>1, <1>6, <1>9 DEF VectorsInv, Disjoint
<1>11. NoneFree' BY <1>1, <1>6, <1>8, <1>9 DEF VectorsInv, NoneFree
<1>12. ~ Settled' BY <1>0, <1>1 DEF Settled, Null, Numbers
<1>13. base' < target' /\ target' <= Top' BY <1>0, <1>1 DEF Numbers
<1>14. \A v \in Vector : begin'[v] = end'[v] => begin'[v] = 0 BY <1>2
<1>15. \A v \in waiting' : begin'[v] # end'[v] /\ target' <= begin'[v]
  BY <1>0, <1>1, <1>2 DEF PlacedAt, Numbers, Pointers
<1>16. \A v \in Vector \ waiting' : end'[v] <= target' BY <1>0, <1>1, <1>2 DEF Numbers
<1>17. base' + 1 .. target' - 1 = {} BY <1>0, <1>1 DEF Numbers
<1>18. InOrder' BY <1>12, <1>13, <1>14, <1>15, <1>16, <1>17 DEF InOrder, Null
<1>19. OthersFree' BY <1>12 DEF OthersFree
<1>20. VectorsInv'
  BY <1>4, <1>7, <1>10, <1>11, <1>18, <1>19 DEF VectorsInv
<1>21. ASSUME NEW w \in Vector PROVE Content(w)' = Content(w)
  <2>0. PICK d \in Int : d = 0 OBVIOUS
  <2>1. /\ begin[w] \in Nat /\ end[w] \in Nat /\ begin'[w] \in Nat /\ end'[w] \in Nat
        /\ begin[w] <= end[w] /\ begin'[w] <= end'[w]
    BY <1>0, <1>3, <1>5 DEF Pointers, PlacedAt
  <2>2. ASSUME NEW p \in Int PROVE Within(p + d, w)' <=> Within(p, w)
    BY <1>2, <2>0, <2>1 DEF Within
  <2>3. ASSUME NEW p \in Int, Within(p, w) PROVE Word(p + d)' = Word(p)
    <3>1. Word(p + d)' = memory[(p + d) - base] /\ p + d = p BY <1>1, <2>0 DEF Word
    <3> QED BY <3>1 DEF Word
  <2> QED BY <2>1, <2>2, <2>3, ContentKept
<1> QED BY <1>20, <1>21 DEF AllKept

\* What holds while the lists move.
LEMMA MovingVector ==
    ASSUME VectorsInv, ~ Settled
    PROVE  /\ base < target /\ target <= Top /\ waiting \subseteq Vector
           /\ \A v \in Vector : begin[v] = end[v] => begin[v] = 0
           /\ \A v \in waiting : begin[v] # end[v] /\ target <= begin[v]
           /\ \A v \in Vector \ waiting : end[v] <= target
           /\ \A p \in base + 1 .. target - 1 : \E v \in Vector \ waiting : Within(p, v)
BY DEF VectorsInv, VectorsTypeOK, InOrder, Null

LEMMA DefragMoveInv ==
    ASSUME VectorsInv, NEW v \in Vector, DefragMove(v)
    PROVE  VectorsInv' /\ AllKept
<1>0. Numbers /\ Pointers /\ memory \in [0 .. used - 1 -> Words]
      /\ \A w \in Vector : PlacedAt(w)
  BY Types
<1> DEFINE s == Size(v)
<1>1. /\ base' = base /\ used' = used /\ capacity' = capacity /\ usable' = usable /\ Top' = Top
      /\ target' = target + s /\ waiting' = waiting \ {v} /\ ~ Settled /\ Lowest(v)
      /\ begin' = [begin EXCEPT ![v] = target] /\ end' = [end EXCEPT ![v] = target + s]
      /\ memory' = [i \in DOMAIN memory |->
                      IF target <= base + i /\ base + i < target + s
                      THEN Word(begin[v] + (base + i - target)) ELSE memory[i]]
  BY DEF DefragMove, stackVars, Top
<1>2. /\ v \in waiting /\ target <= begin[v] /\ begin[v] \in Nat /\ end[v] \in Nat
      /\ end[v] = begin[v] + s /\ s \in Nat /\ s > 0 /\ end[v] <= Top /\ base < begin[v]
      /\ base < target
  <2>1. v \in waiting /\ begin[v] # end[v] /\ target <= begin[v] /\ base < target
    BY <1>1, MovingVector DEF Lowest
  <2> QED BY <1>0, <2>1 DEF Numbers, Pointers, PlacedAt, Size
<1> HIDE DEF s
<1>3. /\ target + s \in Nat /\ target + s <= end[v] /\ target \in Nat /\ target + s <= Top
      /\ base < target + s
  BY <1>0, <1>2 DEF Numbers
<1>4. /\ \A w \in Vector : w # v => begin'[w] = begin[w] /\ end'[w] = end[w]
      /\ begin'[v] = target /\ end'[v] = target + s
      /\ begin' \in [Vector -> Nat] /\ end' \in [Vector -> Nat]
  BY <1>0, <1>1, <1>3 DEF Pointers
<1>5. \A w \in waiting : w # v => end[v] <= begin[w]
  <2> SUFFICES ASSUME NEW w \in waiting, w # v, ~ (end[v] <= begin[w]) PROVE FALSE
    OBVIOUS
  <2>1. w \in Vector /\ begin[v] <= begin[w] /\ begin[w] # end[w] BY <1>1, MovingVector DEF Lowest
  <2>2. PlacedAt(w) /\ begin[w] \in Nat /\ end[w] \in Nat BY <1>0, <2>1 DEF Pointers
  <2>3. Within(begin[w], v) BY <1>2, <2>1, <2>2 DEF Within
  <2>4. Within(begin[w], w) /\ begin[w] \in base .. Top
    BY <1>0, <2>1, <2>2 DEF Within, PlacedAt, Numbers
  <2> QED BY <2>1, <2>3, <2>4 DEF VectorsInv, Disjoint
<1>6. ASSUME NEW i \in 0 .. used - 1
      PROVE  memory'[i] = IF target <= base + i /\ base + i < target + s
                          THEN memory[(begin[v] - target) + i] ELSE memory[i]
  <2>1. (begin[v] + (base + i - target)) - base = (begin[v] - target) + i
    BY <1>0, <1>2, <1>3 DEF Numbers
  <2> QED BY <1>0, <1>1, <2>1 DEF Word
<1>7. ASSUME NEW i \in 0 .. used - 1, target <= base + i, base + i < target + s
      PROVE  /\ (begin[v] - target) + i \in 0 .. used - 1
             /\ Within(base + ((begin[v] - target) + i), v)
  <2>1. base \in Nat /\ used \in Nat /\ Top = base + used BY <1>0 DEF Numbers
  <2> QED BY <1>2, <1>3, <1>7, <2>1 DEF Within
<1>8. memory' \in [0 .. used - 1 -> Words]
  <2>1. \A i \in 0 .. used - 1 : memory'[i] \in Words BY <1>0, <1>6, <1>7
  <2>2. memory' = [i \in 0 .. used - 1 |-> memory'[i]] BY <1>0, <1>1
  <2> QED BY <2>1, <2>2
<1>9. VectorsTypeOK'
  BY <1>0, <1>1, <1>3, <1>4, <1>8 DEF VectorsTypeOK, VectorsInv, Words, Numbers
<1>10. \A w \in Vector : PlacedAt(w)'
  <2> SUFFICES ASSUME NEW w \in Vector PROVE PlacedAt(w)' OBVIOUS
  <2>1. CASE w = v BY <1>0, <1>1, <1>2, <1>3, <1>4, <2>1 DEF PlacedAt, Numbers
  <2>2. CASE w # v BY <1>0, <1>1, <1>4, <2>2 DEF PlacedAt
  <2> QED BY <2>1, <2>2
<1>11. \A w \in Vector : w # v => \A p : Within(p, w)' <=> Within(p, w) BY <1>4 DEF Within
<1>12. \A p : Within(p, v)' <=> target <= p /\ p < target + s BY <1>4 DEF Within
<1>13. ASSUME NEW w \in Vector, w # v, NEW p \in Int, Within(p, w)
       PROVE  ~ (target <= p /\ p < target + s)
  <2>1. begin[w] \in Nat /\ end[w] \in Nat /\ begin[w] <= p /\ p < end[w]
    BY <1>0, <1>13 DEF Within, Pointers
  <2>2. CASE w \in waiting
    <3>1. end[v] <= begin[w] BY <1>5, <1>13, <2>2
    <3> QED BY <1>2, <1>3, <2>1, <3>1
  <2>3. CASE w \notin waiting
    <3>1. end[w] <= target BY <1>1, <2>3, MovingVector
    <3> QED BY <1>3, <2>1, <3>1
  <2> QED BY <2>2, <2>3
<1>14. base .. Top \subseteq Int BY <1>0 DEF Numbers
<1>15. Disjoint'
  <2> SUFFICES ASSUME NEW w \in Vector, NEW u \in Vector, w # u, NEW p \in base .. Top,
                      Within(p, w)', Within(p, u)'
               PROVE  FALSE
    BY <1>1 DEF Disjoint
  <2>1. CASE w = v BY <1>11, <1>12, <1>13, <1>14, <2>1
  <2>2. CASE u = v BY <1>11, <1>12, <1>13, <1>14, <2>2
  <2>3. CASE w # v /\ u # v BY <1>11, <2>3 DEF VectorsInv, Disjoint
  <2> QED BY <2>1, <2>2, <2>3
<1>16. NoneFree'
  <2> SUFFICES ASSUME NEW w \in Vector, NEW p \in base .. Top, Within(p, w)'
               PROVE  Word(p)' # Invalid
    BY <1>1 DEF NoneFree
  <2> DEFINE i == p - base
  <2>0. p \in Int /\ i \in Int /\ base + i = p /\ Word(p)' = memory'[i] /\ Word(p) = memory[i]
    BY <1>0, <1>1, <1>14 DEF Numbers, Word
  <2> HIDE DEF i
  <2>1. CASE w = v
    <3>1. target <= p /\ p < target + s BY <1>12, <2>1
    <3>2. i \in 0 .. used - 1
      <4>1. p < Top /\ base <= p BY <1>0, <1>3, <2>0, <3>1 DEF Numbers
      <4> QED BY <1>0, <2>0, <4>1 DEF Numbers
    <3>3. memory'[i] = memory[(begin[v] - target) + i] BY <1>6, <2>0, <3>1, <3>2
    <3>4. memory[(begin[v] - target) + i] # Invalid BY <1>7, <2>0, <3>1, <3>2, OwnWords
    <3> QED BY <2>0, <3>3, <3>4
  <2>2. CASE w # v
    <3>1. Within(p, w) /\ ~ (target <= p /\ p < target + s) BY <1>11, <1>13, <2>0, <2>2
    <3>2. i \in 0 .. used - 1
      <4>1. p < Top BY <1>0, <3>1 DEF Within, PlacedAt, Numbers, Pointers
      <4>2. base \in Int /\ used \in Int /\ Top = base + used /\ base <= p BY <1>0 DEF Numbers
      <4> QED BY <2>0, <4>1, <4>2
    <3>3. memory'[i] = memory[i] BY <1>6, <2>0, <3>1, <3>2
    <3>4. Word(p) # Invalid BY <3>1 DEF VectorsInv, NoneFree
    <3> QED BY <2>0, <3>3, <3>4
  <2> QED BY <2>1, <2>2
<1>17. ~ Settled' BY <1>0, <1>1, <1>3 DEF Settled, Null, Numbers
<1>18. InOrder'
  <2>1. base' < target' /\ target' <= Top' BY <1>1, <1>3
  <2>2. \A w \in Vector : begin'[w] = end'[w] => begin'[w] = 0
    <3>1. target # target + s BY <1>2, <1>3
    <3> QED BY <1>1, <1>4, <3>1, MovingVector
  <2>3. ASSUME NEW w \in waiting' PROVE begin'[w] # end'[w] /\ target' <= begin'[w]
    <3>1. w \in waiting /\ w # v /\ w \in Vector BY <1>1, <2>3, MovingVector
    <3>2. begin[w] # end[w] /\ end[v] <= begin[w] BY <1>1, <1>5, <3>1, MovingVector
    <3>3. begin[w] \in Nat BY <1>0, <3>1 DEF Pointers
    <3>4. target + s <= begin[w] BY <1>2, <1>3, <3>2, <3>3
    <3> QED BY <1>1, <1>4, <3>1, <3>2, <3>4
  <2>4. ASSUME NEW w \in Vector \ waiting' PROVE end'[w] <= target'
    <3>1. CASE w = v BY <1>1, <1>3, <1>4, <3>1
    <3>2. CASE w # v
      <4>1. end[w] <= target /\ end[w] \in Nat BY <1>0, <1>1, <2>4, <3>2, MovingVector DEF Pointers
      <4>2. end[w] <= target + s BY <1>2, <1>3, <4>1
      <4> QED BY <1>1, <1>4, <3>2, <4>2
    <3> QED BY <3>1, <3>2
  <2>5. ASSUME NEW p \in base' + 1 .. target' - 1
        PROVE  \E w \in Vector \ waiting' : Within(p, w)'
    <3>0. p \in Int /\ p \in base + 1 .. (target + s) - 1 BY <1>1, <1>3
    <3>1. CASE target <= p
      <4>1. Within(p, v)' BY <1>3, <1>12, <3>0, <3>1
      <4> QED BY <1>1, <4>1
    <3>2. CASE ~ (target <= p)
      <4>1. p \in base + 1 .. target - 1 BY <1>0, <3>0, <3>2 DEF Numbers
      <4>2. PICK w \in Vector \ waiting : Within(p, w) BY <1>1, <4>1, MovingVector
      <4>3. w # v /\ w \in Vector \ waiting' BY <1>1, <1>2, <4>2
      <4> QED BY <1>11, <4>2, <4>3
    <3> QED BY <3>1, <3>2
  <2> QED BY <1>17, <2>1, <2>2, <2>3, <2>4, <2>5 DEF InOrder, Null
<1>19. InStack' BY <1>10 DEF InStack, PlacedAt, Null
<1>20. OthersFree' BY <1>17 DEF OthersFree
<1>21. VectorsInv'
  BY <1>9, <1>15, <1>16, <1>18, <1>19, <1>20 DEF VectorsInv
<1>22. ASSUME NEW w \in Vector PROVE Content(w)' = Content(w)
  <2>1. /\ begin[w] \in Nat /\ end[w] \in Nat /\ begin'[w] \in Nat /\ end'[w] \in Nat
        /\ begin[w] <= end[w] /\ begin'[w] <= end'[w]
    BY <1>0, <1>4, <1>10 DEF Pointers, PlacedAt
  <2>2. base \in Nat /\ used \in Nat /\ Top = base + used BY <1>0 DEF Numbers
  <2>3. CASE w # v
    <3>0. PICK d \in Int : d = 0 OBVIOUS
    <3>1. \A p \in Int : Within(p + d, w)' <=> Within(p, w) BY <1>11, <2>3, <3>0
    <3>2. ASSUME NEW p \in Int, Within(p, w) PROVE Word(p + d)' = Word(p)
      <4>1. base < p /\ p < Top BY <1>0, <3>2 DEF Within, PlacedAt, Numbers, Pointers
      <4> DEFINE i == p - base
      <4>2. i \in 0 .. used - 1 /\ base + i = p /\ (p + d) - base = i BY <2>2, <3>0, <4>1
      <4>3. ~ (target <= base + i /\ base + i < target + s) BY <1>13, <2>3, <3>2, <4>2
      <4>4. memory'[i] = memory[i] BY <1>6, <4>2, <4>3
      <4>5. Word(p + d)' = memory'[(p + d) - base] BY <1>1 DEF Word
      <4> QED BY <4>2, <4>4, <4>5 DEF Word
    <3> QED BY <2>1, <3>1, <3>2, ContentKept
  <2>4. CASE w = v
    <3>0. PICK d \in Int : d = target - begin[v] BY <1>2, <1>3
    <3>1. ASSUME NEW p \in Int PROVE Within(p + d, v)' <=> Within(p, v)
      <4>1. Within(p + d, v)' <=> target <= p + d /\ p + d < target + s BY <1>12
      <4> QED BY <1>2, <1>3, <3>0, <4>1 DEF Within
    <3>2. ASSUME NEW p \in Int, Within(p, v) PROVE Word(p + d)' = Word(p)
      <4>0. begin[v] <= p /\ p < end[v] BY <3>2 DEF Within
      <4> DEFINE i == (p + d) - base
      <4>1. i \in 0 .. used - 1 /\ target <= base + i /\ base + i < target + s
        BY <1>2, <1>3, <2>2, <3>0, <4>0
      <4>2. (begin[v] - target) + i = p - base BY <1>2, <1>3, <2>2, <3>0
      <4>3. memory'[i] = memory[p - base] BY <1>6, <4>1, <4>2
      <4>4. Word(p + d)' = memory'[(p + d) - base] BY <1>1 DEF Word
      <4> QED BY <4>3, <4>4 DEF Word
    <3> QED BY <2>1, <2>4, <3>1, <3>2, ContentKept
  <2> QED BY <2>3, <2>4
<1> QED BY <1>21, <1>22 DEF AllKept
\* The list has moved with the stack.
LEMMA MovedBy ==
    ASSUME Numbers, Pointers, NEW v \in Vector, PlacedAt(v),
           NEW d \in Int, NEW a \in Nat, a = base + d
    PROVE  /\ Moved(begin, v, a) = IF begin[v] = 0 THEN 0 ELSE begin[v] + d
           /\ Moved(end, v, a) = IF begin[v] = 0 THEN 0 ELSE end[v] + d
<1>0. a - base = d BY DEF Numbers
<1>1. begin[v] \in Nat /\ end[v] \in Nat BY DEF Pointers
<1>2. begin[v] = 0 <=> end[v] = 0 BY <1>1 DEF PlacedAt, Numbers
<1> QED BY <1>0, <1>2 DEF Moved, Null

LEMMA DefragEndInv == VectorsInv /\ DefragEnd => VectorsInv' /\ AllKept
<1> SUFFICES ASSUME VectorsInv, DefragEnd PROVE VectorsInv' /\ AllKept
  OBVIOUS
<1>0. Numbers /\ Pointers /\ memory \in [0 .. used - 1 -> Words]
      /\ \A w \in Vector : PlacedAt(w)
  BY Types
<1>1. /\ ~ Settled /\ waiting = {} /\ waiting' = {} /\ used' = target - base /\ usable' = 0
      /\ target' = 0 /\ memory' = [i \in 0 .. target - base - 1 |-> memory[i]]
      /\ Shrink(target - base)
  BY DEF DefragEnd, Null
<1>2. base < target /\ target <= Top /\ used' \in Nat /\ used' <= used /\ target = base + used'
  BY <1>0, <1>1, MovingVector DEF Numbers
<1>3. /\ capacity' \in Nat /\ used' <= capacity' /\ base' \in Addresses \cup {base}
      /\ base' \in Nat
      /\ \/ UNCHANGED <<base, begin, end>>
         \/ /\ begin' = [v \in Vector |-> Moved(begin, v, base')]
            /\ end' = [v \in Vector |-> Moved(end, v, base')]
  <2>1. CASE ~ Shrinkable(target - base)
    <3>1. UNCHANGED <<capacity, base, begin, end>> BY <1>1, <2>1 DEF Shrink
    <3> QED BY <1>0, <1>2, <3>1 DEF Numbers
  <2>2. CASE Shrinkable(target - base)
    <3>1. PICK c \in ShrunkenTo(target - base) :
             /\ capacity' = c
             /\ \E address \in IF c = capacity THEN {base} ELSE Addresses : MovePointers(address)
      BY <1>1, <2>2 DEF Shrink
    <3>2. c \in 1 .. MaxVectors /\ used' <= c BY <1>1 DEF ShrunkenTo
    <3>3. PICK address \in Addresses \cup {base} : MovePointers(address) BY <3>1
    <3>4. address \in Nat BY <1>0, AddressesAssumption DEF Numbers
    <3> QED BY <3>1, <3>2, <3>3, <3>4 DEF MovePointers
  <2> QED BY <2>1, <2>2
<1>4. PICK d \in Int : base' = base + d
  <2>1. base \in Int /\ base' \in Int BY <1>0, <1>3 DEF Numbers
  <2> QED BY <2>1, Difference
<1>5. ASSUME NEW v \in Vector
      PROVE  /\ begin'[v] = IF begin[v] = 0 THEN 0 ELSE begin[v] + d
             /\ end'[v] = IF begin[v] = 0 THEN 0 ELSE end[v] + d
  <2>1. CASE UNCHANGED <<base, begin, end>>
    <3>1. d = 0 BY <1>0, <1>4, <2>1 DEF Numbers
    <3>2. PlacedAt(v) /\ begin[v] \in Nat /\ end[v] \in Nat BY <1>0 DEF Pointers
    <3> QED BY <1>0, <2>1, <3>1, <3>2 DEF PlacedAt, Numbers
  <2>2. CASE /\ begin' = [w \in Vector |-> Moved(begin, w, base')]
             /\ end' = [w \in Vector |-> Moved(end, w, base')]
    BY <1>0, <1>3, <1>4, <2>2, MovedBy
  <2> QED BY <1>3, <2>1, <2>2
<1>6. ASSUME NEW v \in Vector, begin[v] # 0
      PROVE  base < begin[v] /\ begin[v] < end[v] /\ end[v] <= target
             /\ begin[v] \in Nat /\ end[v] \in Nat
  <2>1. PlacedAt(v) /\ begin[v] \in Nat /\ end[v] \in Nat /\ begin[v] # end[v] /\ end[v] <= target
    BY <1>0, <1>1, <1>6, MovingVector DEF Pointers
  <2> QED BY <1>6, <2>1 DEF PlacedAt
<1>7. ASSUME NEW v \in Vector
      PROVE  PlacedAt(v)' /\ begin'[v] \in Nat /\ end'[v] \in Nat
  <2>1. CASE begin[v] = 0 BY <1>5, <2>1 DEF PlacedAt
  <2>2. CASE begin[v] # 0
    <3>1. begin'[v] = begin[v] + d /\ end'[v] = end[v] + d BY <1>5, <2>2
    <3>2. Top' = target + d
      <4>1. Top' = base' + used' BY DEF Top
      <4> QED BY <1>0, <1>2, <1>4, <4>1 DEF Numbers
    <3>3. base + d \in Nat /\ base \in Nat /\ target \in Nat BY <1>0, <1>3, <1>4 DEF Numbers
    <3>4. /\ base + d < begin[v] + d /\ begin[v] + d <= end[v] + d /\ end[v] + d <= target + d
          /\ begin[v] + d < target + d /\ begin[v] + d \in Nat /\ end[v] + d \in Nat
      BY <1>6, <2>2, <3>3
    <3> QED BY <1>4, <3>1, <3>2, <3>4 DEF PlacedAt
  <2> QED BY <2>1, <2>2
<1>8. begin' \in [Vector -> Nat] /\ end' \in [Vector -> Nat]
  <2>1. begin' = [v \in Vector |-> begin'[v]] /\ end' = [v \in Vector |-> end'[v]]
    BY <1>0, <1>3 DEF Pointers
  <2> QED BY <1>7, <2>1
<1>9. ASSUME NEW i \in 0 .. used' - 1
      PROVE  memory'[i] = memory[i] /\ i \in 0 .. used - 1
  BY <1>0, <1>1, <1>2 DEF Numbers
<1>10. memory' \in [0 .. used' - 1 -> Words]
  <2>1. memory' = [i \in 0 .. used' - 1 |-> memory[i]] BY <1>1
  <2> QED BY <1>0, <1>9, <2>1
<1>11. VectorsTypeOK'
  <2>1. base' \in Addresses \cup {Null} BY <1>3 DEF VectorsInv, VectorsTypeOK
  <2> QED BY <1>1, <1>2, <1>3, <1>8, <1>10, <2>1 DEF VectorsTypeOK, Words
<1>12. ASSUME NEW v \in Vector, NEW p \in Int PROVE Within(p + d, v)' <=> Within(p, v)
  <2>1. CASE begin[v] = 0
    <3>1. end[v] = 0 BY <1>0, <2>1 DEF PlacedAt, Numbers
    <3> QED BY <1>5, <2>1, <3>1 DEF Within
  <2>2. CASE begin[v] # 0
    <3>1. begin'[v] = begin[v] + d /\ end'[v] = end[v] + d BY <1>5, <2>2
    <3> QED BY <1>6, <2>2, <3>1 DEF Within
  <2> QED BY <2>1, <2>2
<1>13. \A v \in Vector, p \in Int : Within(p, v) => base < p /\ p < target
  <2> SUFFICES ASSUME NEW v \in Vector, NEW p \in Int, Within(p, v) PROVE base < p /\ p < target
    OBVIOUS
  <2>1. begin[v] # 0
    <3>1. begin[v] = 0 => end[v] = 0 BY <1>0 DEF PlacedAt, Numbers
    <3> QED BY <3>1 DEF Within
  <2> QED BY <1>0, <1>6, <2>1 DEF Within, Numbers
<1>14. ASSUME NEW q, q \in Int
       PROVE  \E p \in Int : q = p + d /\ q - base' = p - base
  <2>1. q - d \in Int /\ q = (q - d) + d /\ q - (base + d) = (q - d) - base
    BY <1>0, <1>14 DEF Numbers
  <2> QED BY <1>4, <2>1
<1>15. base' .. Top' \subseteq Int BY <1>3
<1>16. Disjoint'
  <2> SUFFICES ASSUME NEW v \in Vector, NEW w \in Vector, v # w, NEW q \in base' .. Top',
                      Within(q, v)', Within(q, w)'
               PROVE  FALSE
    BY DEF Disjoint
  <2>1. PICK p \in Int : q = p + d BY <1>14, <1>15
  <2>2. Within(p, v) /\ Within(p, w) BY <1>12, <2>1
  <2>3. p \in base .. Top
    <3>1. base < p /\ p < target /\ target <= Top BY <1>2, <1>13, <2>2
    <3>2. base \in Int /\ target \in Int /\ Top \in Int BY <1>0 DEF Numbers
    <3> QED BY <3>1, <3>2
  <2> QED BY <2>2, <2>3 DEF VectorsInv, Disjoint
<1>17. NoneFree'
  <2> SUFFICES ASSUME NEW v \in Vector, NEW q \in base' .. Top', Within(q, v)'
               PROVE  Word(q)' # Invalid
    BY DEF NoneFree
  <2>1. PICK p \in Int : q = p + d /\ q - base' = p - base BY <1>14, <1>15
  <2>2. Within(p, v) BY <1>12, <2>1
  <2>3. p \in base .. Top /\ p - base \in 0 .. used' - 1
    <3>1. base < p /\ p < target /\ target <= Top BY <1>2, <1>13, <2>2
    <3>2. base \in Int /\ target \in Int /\ Top \in Int BY <1>0 DEF Numbers
    <3>3. p \in base .. Top BY <3>1, <3>2
    <3>4. p - base \in 0 .. (target - base) - 1 BY <3>1, <3>2
    <3>5. used' = target - base BY <1>1
    <3> QED BY <3>3, <3>4, <3>5
  <2>4. Word(p) # Invalid BY <2>2, <2>3 DEF VectorsInv, NoneFree
  <2> QED BY <1>9, <2>1, <2>3, <2>4 DEF Word
<1>18. OthersFree'
  <2> SUFFICES ASSUME NEW q \in base' + 1 .. Top' - 1
               PROVE  \E w \in Vector : Within(q, w)'
    BY DEF OthersFree
  <2>0. q \in Int OBVIOUS
  <2>1. PICK p \in Int : q = p + d /\ q - base' = p - base BY <1>14, <2>0
  <2>2. p \in base + 1 .. base + used' - 1
    <3>1. Top' - 1 = base' + used' - 1 BY <1>2, <1>3 DEF Top
    <3>2. q \in base' + 1 .. base' + used' - 1 BY <3>1
    <3>3. p + d \in base' + 1 .. base' + used' - 1 BY <2>1, <3>2
    <3>4. base \in Int /\ base' \in Int /\ used' \in Int /\ base' = base + d
      BY <1>0, <1>2, <1>3, <1>4 DEF Numbers
    <3> QED BY <3>3, <3>4, Shift
  <2>3. p \in base + 1 .. target - 1
    <3>1. base + used' - 1 = target - 1 BY <1>0, <1>2 DEF Numbers
    <3> QED BY <2>2, <3>1
  <2>4. PICK w \in Vector : Within(p, w) BY <1>1, <2>3, MovingVector
  <2> QED BY <1>12, <2>1, <2>4
<1>19. InOrder' BY <1>1 DEF InOrder, Settled, Null
<1>20. InStack' BY <1>7 DEF InStack, PlacedAt, Null
<1>21. VectorsInv'
  BY <1>11, <1>16, <1>17, <1>18, <1>19, <1>20 DEF VectorsInv
<1>22. ASSUME NEW w \in Vector PROVE Content(w)' = Content(w)
  <2>1. /\ begin[w] \in Nat /\ end[w] \in Nat /\ begin'[w] \in Nat /\ end'[w] \in Nat
        /\ begin[w] <= end[w] /\ begin'[w] <= end'[w]
    BY <1>0, <1>7 DEF Pointers, PlacedAt
  <2>2. ASSUME NEW p \in Int, Within(p, w) PROVE Word(p + d)' = Word(p)
    <3>1. base < p /\ p < target BY <1>13, <2>2
    <3>2. base \in Int /\ target \in Int BY <1>0 DEF Numbers
    <3>3. p - base \in 0 .. (target - base) - 1 BY <3>1, <3>2
    <3>4. memory'[p - base] = memory[p - base] BY <1>1, <1>9, <3>3
    <3>5. (p + d) - base' = p - base BY <1>4, <3>2
    <3> QED BY <3>4, <3>5 DEF Word
  <2> QED BY <1>12, <2>1, <2>2, ContentKept
<1> QED BY <1>21, <1>22 DEF AllKept

LEMMA PushInv ==
    ASSUME VectorsInv, NEW v \in Vector, NEW e \in Datum, PushWord(v, e)
    PROVE  VectorsInv' /\ Others(v) /\ Content(v)' = Append(Content(v), e)
<1>1. CASE PushNew(v, e)
  <2>1. /\ Settled /\ AppendWord(v, e) /\ used > 0 /\ begin[v] = 0
        /\ begin' = [begin EXCEPT ![v] = Top]
    BY <1>1 DEF PushNew, Null
  <2> QED BY <2>1, AppendInv
<1>2. CASE PushTop(v, e)
  <2>1. Settled /\ AppendWord(v, e) /\ begin[v] # 0 /\ end[v] = Top /\ begin' = begin
    BY <1>2 DEF PushTop, Null
  <2> QED BY <2>1, AppendInv
<1> QED BY <1>1, <1>2, PushFirstInv, PushBehindInv, PushEnlargedInv DEF PushWord

LEMMA VectorsStep == VectorsInv /\ [VectorsNext]_vectorsVars => VectorsInv'
<1> SUFFICES ASSUME VectorsInv, [VectorsNext]_vectorsVars PROVE VectorsInv'
  OBVIOUS
<1>1. ASSUME NEW v \in Vector, NEW e \in Datum, PushWord(v, e) PROVE VectorsInv'
  BY <1>1, PushInv
<1>2. ASSUME NEW v \in Vector, NEW k \in 1 .. Size(v), NEW w \in {1, 2}, RemoveWords(v, k, w)
      PROVE  VectorsInv'
  BY <1>2, RemoveInv
<1>3. ASSUME NEW v \in Vector, NEW n \in 0 .. Size(v), Shorten(v, n) PROVE VectorsInv'
  <2>1. n \in Nat OBVIOUS
  <2> QED BY <1>3, <2>1, ShortenInv
<1>4. ASSUME NEW v \in Vector, NEW k \in 1 .. Size(v), NEW e \in Datum, Substitute(v, k, e)
      PROVE  VectorsInv'
  BY <1>4, SubstituteInv
<1>5. ASSUME NEW v \in Vector, DefragMove(v) PROVE VectorsInv'
  BY <1>5, DefragMoveInv
<1>6. CASE UNCHANGED vectorsVars
  <2>1. /\ base' = base /\ used' = used /\ capacity' = capacity /\ memory' = memory
        /\ begin' = begin /\ end' = end /\ usable' = usable /\ waiting' = waiting
        /\ target' = target
    BY <1>6 DEF vectorsVars, stackVars
  <2> QED BY <2>1 DEF VectorsInv, VectorsTypeOK, InStack, Disjoint, NoneFree, OthersFree, InOrder,
                      Top, Word, Within, Settled
<1> QED BY <1>1, <1>2, <1>3, <1>4, <1>5, <1>6, ReleaseInv, DefragStartInv, DefragEndInv
        DEF VectorsNext

\* The lists in the stack: a list has no place or lies on the stack, no word
\* belongs to two lists, no word of a list looks free, every other word is
\* free, and while lists are moved those that wait lie above those that moved.
THEOREM VectorsKeptApart == VectorsSpec => []VectorsInv
BY VectorsInitInv, VectorsStep, PTL DEF VectorsSpec
\* What the users of the lists see.
contents == [v \in Vector |-> Content(v)]

LEMMA OneChanged ==
    ASSUME NEW v \in Vector, Others(v), NEW x, Content(v)' = x
    PROVE  contents' = [contents EXCEPT ![v] = x]
<1>1. contents' = [w \in Vector |-> Content(w)'] BY DEF contents
<1>2. \A w \in Vector : Content(w)' = IF w = v THEN x ELSE Content(w) BY DEF Others
<1>3. contents' = [w \in Vector |-> IF w = v THEN x ELSE Content(w)] BY <1>1, <1>2
<1> QED BY <1>3 DEF contents

LEMMA ListsStep == VectorsInv /\ [VectorsNext]_vectorsVars => [L!ListsNext]_contents
<1> SUFFICES ASSUME VectorsInv, [VectorsNext]_vectorsVars PROVE L!ListsNext \/ contents' = contents
  OBVIOUS
<1>0. \A v \in Vector : contents[v] = Content(v) BY DEF contents
<1>1. ASSUME NEW v \in Vector, NEW e \in Datum, PushWord(v, e) PROVE L!ListsNext
  <2>1. Others(v) /\ Content(v)' = Append(contents[v], e) BY <1>0, <1>1, PushInv
  <2>2. contents' = [contents EXCEPT ![v] = Append(contents[v], e)] BY <2>1, OneChanged
  <2> QED BY <2>2 DEF L!ListsNext, L!AppendTo, contents
<1>2. ASSUME NEW v \in Vector, NEW k \in 1 .. Size(v), NEW w \in {1, 2}, RemoveWords(v, k, w)
      PROVE  L!ListsNext
  <2>1. Others(v) /\ Content(v)' = L!Without(contents[v], k, w) BY <1>0, <1>2, RemoveInv
  <2>2. contents' = [contents EXCEPT ![v] = L!Without(contents[v], k, w)]
    BY <2>1, OneChanged
  <2>3. Len(contents[v]) = Size(v) /\ DOMAIN contents[v] = 1 .. Size(v)
    BY <1>0, ContentSequence DEF Content
  <2>4. k + w - 1 <= Len(contents[v]) BY <1>2, <2>3 DEF RemoveWords
  <2> QED BY <2>2, <2>3, <2>4 DEF L!ListsNext, L!RemoveFrom, contents
<1>3. ASSUME NEW v \in Vector, NEW n \in 0 .. Size(v), Shorten(v, n) PROVE L!ListsNext
  <2>1. n \in Nat OBVIOUS
  <2>2. Others(v) /\ Content(v)' = [i \in 1 .. n |-> contents[v][i]]
    BY <1>0, <1>3, <2>1, ShortenInv
  <2>3. contents' = [contents EXCEPT ![v] = [i \in 1 .. n |-> contents[v][i]]]
    BY <2>2, OneChanged
  <2>4. n \in 0 .. Len(contents[v]) BY <1>0, ContentSequence
  <2> QED BY <2>3, <2>4 DEF L!ListsNext, L!Truncate, contents
<1>4. ASSUME NEW v \in Vector, NEW k \in 1 .. Size(v), NEW e \in Datum, Substitute(v, k, e)
      PROVE  L!ListsNext
  <2>1. Others(v) /\ Content(v)' = [contents[v] EXCEPT ![k] = e]
    BY <1>0, <1>4, SubstituteInv
  <2>2. contents' = [contents EXCEPT ![v] = [contents[v] EXCEPT ![k] = e]]
    BY <2>1, OneChanged
  <2>3. k \in DOMAIN contents[v] BY <1>0 DEF Content
  <2>4. L!Replace(v, k, e) BY <2>2 DEF L!Replace, contents
  <2> QED BY <2>3, <2>4 DEF L!ListsNext, contents
<1>5. CASE ReleaseAll
  <2>1. contents' = [v \in Vector |-> <<>>] BY <1>5, ReleaseInv DEF contents
  <2> QED BY <2>1 DEF L!ListsNext, L!Clear, contents
<1>6. ASSUME AllKept PROVE contents' = contents BY <1>6 DEF AllKept, contents
<1>7. ASSUME NEW v \in Vector, DefragMove(v) PROVE contents' = contents
  BY <1>6, <1>7, DefragMoveInv
<1>8. CASE DefragStart \/ DefragEnd
  BY <1>6, <1>8, DefragStartInv, DefragEndInv
<1>9. CASE UNCHANGED vectorsVars
  <2>1. AllKept
    BY <1>9 DEF vectorsVars, stackVars, AllKept, Content, Size, Word
  <2> QED BY <1>6, <2>1
<1> QED BY <1>1, <1>2, <1>3, <1>4, <1>5, <1>7, <1>8, <1>9 DEF VectorsNext

LEMMA ListsStart == VectorsInit => L!ListsInit
<1> SUFFICES ASSUME VectorsInit PROVE contents = [v \in Vector |-> <<>>]
  BY DEF L!ListsInit, contents
<1>1. ASSUME NEW v \in Vector PROVE Content(v) = <<>>
  <2>1. Size(v) = 0 BY DEF VectorsInit, Size, Null
  <2>2. Content(v) = [i \in 1 .. 0 |-> Word(begin[v] + (i - 1))] BY <2>1 DEF Content
  <2>3. 1 .. 0 = {} OBVIOUS
  <2> QED BY <2>2, <2>3
<1> QED BY <1>1 DEF contents

\* The stack with its free words implements independent lists: a push to one of
\* them never changes another, whatever place is reused, copied, moved or
\* closed up, and a defragmentation changes none.
THEOREM VectorsImplementLists == VectorsSpec => ListsSpec
<1>1. VectorsInv /\ [VectorsNext]_vectorsVars => [L!ListsNext]_([v \in Vector |-> Content(v)])
  BY ListsStep DEF contents
<1> QED BY <1>1, VectorsInitInv, VectorsStep, ListsStart, PTL
        DEF VectorsSpec, ListsSpec, L!ListsSpec
=============================================================================
