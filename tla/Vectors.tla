------------------------------ MODULE Vectors ------------------------------
(***************************************************************************)
(* The watch lists of all literals in one stack of words (vector.c,        *)
(* inlinevector.h, stack.h, in the configuration without COMPACT).         *)
(*                                                                         *)
(* A list is a pair of pointers into the stack.  A push writes behind the  *)
(* list if the word there is free, that is Invalid, and otherwise copies   *)
(* the list to the end of the stack with as many free words again; the     *)
(* words it leaves become Invalid.  So a free word may be taken by a list  *)
(* that once lay elsewhere, an empty list may point into another one, and  *)
(* the stack may move when it is enlarged or shrunk, with all pointers.    *)
(* Defragmentation closes the gaps, a list at a time.                      *)
(***************************************************************************)
EXTENDS Integers, Sequences, FiniteSets

CONSTANTS
    Vector,                 \* the lists: the literals
    Datum,                \* the words of watches
    Addresses,              \* where the allocator may put the stack
    LdMaxVectors            \* LD_MAX_VECTORS

ASSUME DatumAssumption == Datum \subseteq Nat
ASSUME AddressesAssumption == Addresses \subseteq Nat \ {0}
ASSUME LdMaxVectorsAssumption == LdMaxVectors \in Nat

Invalid == -1               \* INVALID_VECTOR_ELEMENT
Null == 0
MaxVectors == 2 ^ LdMaxVectors

VARIABLES
    base,                   \* solver->vectors.stack.begin, an address
    used, capacity,         \* of the stack
    memory,                 \* its words, by their offset
    begin, end,             \* the pointers of each list
    usable,                 \* solver->vectors.usable
    waiting,                \* in kissat_defrag_vectors: lists yet to move
    target                    \* and where to (p); Null outside

stackVars == <<base, used, capacity>>
vectorsVars == <<stackVars, memory, begin, end, usable, waiting, target>>

Size(v) == end[v] - begin[v]
Top == base + used                  \* END_STACK
Word(p) == memory[p - base]
Within(p, v) == begin[v] <= p /\ p < end[v]

VectorsInit ==
    /\ base = Null /\ used = 0 /\ capacity = 0
    /\ memory = [i \in {} |-> 0]
    /\ begin = [v \in Vector |-> Null]
    /\ end = [v \in Vector |-> Null]
    /\ usable = 0 /\ waiting = {} /\ target = Null

-----------------------------------------------------------------------------
(***************************************************************************)
(* The stack: ENLARGE_STACK doubles it until there is room, SHRINK_STACK   *)
(* leaves the least power of two; either may move it.                      *)
(***************************************************************************)
Enlargements(needed) ==
    {c \in 1 .. MaxVectors :
       /\ \E k \in 1 .. LdMaxVectors : c = capacity * 2 ^ k
       /\ needed <= c - used
       /\ needed > c \div 2 - used}

\* Mutant: an empty list keeps its old address.
MovedNonEmpty(ptr, v, address) ==
    IF begin[v] = end[v] THEN ptr[v] ELSE ptr[v] + (address - base)

\* fix_vector_pointers_after_moving_stack
Moved(ptr, v, address) ==
    IF ptr[v] = Null THEN Null ELSE ptr[v] + (address - base)

MovePointers(address) ==
    /\ base' = address
    /\ begin' = [v \in Vector |-> Moved(begin, v, address)]
    /\ end' = [v \in Vector |-> Moved(end, v, address)]

Shrinkable(n) == n # capacity /\ capacity > 2

ShrunkenTo(n) ==
    {c \in 1 .. MaxVectors :
       /\ \E k \in 0 .. LdMaxVectors : c = 2 ^ k
       /\ n <= c /\ n > c \div 2}

Shrink(n) ==
    IF Shrinkable(n)
    THEN \E c \in ShrunkenTo(n) :
           /\ capacity' = c
           /\ \E address \in IF c = capacity THEN {base} ELSE Addresses :
                MovePointers(address)
    ELSE UNCHANGED <<capacity, base, begin, end>>

-----------------------------------------------------------------------------
(***************************************************************************)
(* kissat_push_vectors.                                                    *)
(***************************************************************************)
Settled == target = Null

\* The first push ever also pushes the word that no list uses.
PushFirst(v, e) ==
    /\ Settled /\ used = 0 /\ begin[v] = Null
    /\ base' \in Addresses /\ capacity' = 4 /\ used' = 2
    /\ memory' = [i \in 0 .. 1 |-> IF i = 0 THEN 0 ELSE e]
    /\ begin' = [begin EXCEPT ![v] = base' + 1]
    /\ end' = [end EXCEPT ![v] = base' + 2]
    /\ UNCHANGED <<usable, waiting, target>>

AppendWord(v, e) ==
    /\ used < capacity
    /\ used' = used + 1
    /\ memory' = [i \in 0 .. used |-> IF i = used THEN e ELSE memory[i]]
    /\ end' = [end EXCEPT ![v] = Top + 1]
    /\ UNCHANGED <<base, capacity, usable, waiting, target>>

PushNew(v, e) ==
    /\ Settled /\ used > 0 /\ begin[v] = Null
    /\ begin' = [begin EXCEPT ![v] = Top]
    /\ AppendWord(v, e)

PushTop(v, e) ==
    /\ Settled /\ begin[v] # Null /\ end[v] = Top
    /\ AppendWord(v, e)
    /\ UNCHANGED begin

FreeBehind(v) == begin[v] # Null /\ end[v] # Top /\ Word(end[v]) = Invalid

PushBehind(v, e) ==
    /\ Settled /\ FreeBehind(v)
    /\ memory' = [memory EXCEPT ![end[v] - base] = e]
    /\ end' = [end EXCEPT ![v] = @ + 1]
    /\ usable' = usable - 1
    /\ UNCHANGED <<stackVars, begin, waiting, target>>

\* No place behind the list, or no room on the stack.
Enlarging(v) ==
    \/ begin[v] = Null /\ used > 0 /\ used = capacity
    \/ begin[v] # Null /\ end[v] = Top /\ used = capacity
    \/ begin[v] # Null /\ end[v] # Top /\ Word(end[v]) # Invalid

NewSize(v) == IF Size(v) = 0 THEN 1 ELSE 2 * Size(v)

\* kissat_enlarge_vector, and the push into its first free word.
PushEnlarged(v, e) ==
    /\ Settled /\ Enlarging(v)
    /\ capacity' \in IF NewSize(v) <= capacity - used THEN {capacity}
                     ELSE Enlargements(NewSize(v))
    /\ base' \in IF capacity' = capacity THEN {base} ELSE Addresses
    /\ used' = used + NewSize(v)
    /\ memory' = [i \in 0 .. used + NewSize(v) - 1 |->
                    IF i < used THEN IF Within(base + i, v) THEN Invalid ELSE memory[i]
                    ELSE IF i < used + Size(v) THEN Word(begin[v] + (i - used))
                    ELSE IF i = used + Size(v) THEN e ELSE Invalid]
    /\ begin' = [w \in Vector |-> IF w = v THEN base' + used ELSE Moved(begin, w, base')]
    /\ end' = [w \in Vector |-> IF w = v THEN base' + used + Size(v) + 1
                                ELSE Moved(end, w, base')]
    /\ usable' = usable + NewSize(v) - 1
    /\ UNCHANGED <<waiting, target>>

-----------------------------------------------------------------------------
\* kissat_remove_from_vector, and the removal of one watch in watch.c: the
\* rest of the list closes the gap of w words at its k-th one.
RemoveWords(v, k, w) ==
    /\ Settled /\ k + w - 1 <= Size(v)
    /\ memory' = [i \in DOMAIN memory |->
                    IF base + i >= begin[v] + (k - 1) /\ base + i < end[v]
                    THEN IF base + i < end[v] - w THEN memory[i + w] ELSE Invalid
                    ELSE memory[i]]
    /\ end' = [end EXCEPT ![v] = @ - w]
    /\ usable' = usable + w
    /\ UNCHANGED <<stackVars, begin, waiting, target>>

\* kissat_resize_vector, which SET_END_OF_WATCHES and RELEASE_WATCHES call.
Shorten(v, n) ==
    /\ Settled /\ n < Size(v)
    /\ end' = [end EXCEPT ![v] = begin[v] + n]
    /\ memory' = [i \in DOMAIN memory |->
                    IF begin[v] + n <= base + i /\ base + i < end[v]
                    THEN Invalid ELSE memory[i]]
    /\ usable' = usable + (Size(v) - n)
    /\ UNCHANGED <<stackVars, begin, waiting, target>>

\* A watch is replaced in place (kissat_substitute_large_watch).
Substitute(v, k, e) ==
    /\ Settled /\ k <= Size(v)
    /\ memory' = [memory EXCEPT ![begin[v] + k - 1 - base] = e]
    /\ UNCHANGED <<stackVars, begin, end, usable, waiting, target>>

\* kissat_release_vectors, when all lists have been cleared (dense.c).
ReleaseAll ==
    /\ Settled
    /\ base' = Null /\ used' = 0 /\ capacity' = 0
    /\ memory' = [i \in {} |-> 0]
    /\ begin' = [v \in Vector |-> Null] /\ end' = [v \in Vector |-> Null]
    /\ usable' = 0
    /\ UNCHANGED <<waiting, target>>

-----------------------------------------------------------------------------
(***************************************************************************)
(* kissat_defrag_vectors: empty lists lose their place, the others move    *)
(* down in the order of their places.                                      *)
(***************************************************************************)
DefragStart ==
    /\ Settled /\ used > 1
    /\ waiting' = {v \in Vector : begin[v] # end[v]}
    /\ target' = base + 1
    /\ begin' = [v \in Vector |-> IF begin[v] = end[v] THEN Null ELSE begin[v]]
    /\ end' = [v \in Vector |-> IF begin[v] = end[v] THEN Null ELSE end[v]]
    /\ UNCHANGED <<stackVars, memory, usable>>

\* Mutant: the lists move in any order.
LowestAny(v) == v \in waiting

\* RADIX_SORT by the address of the list.
Lowest(v) == v \in waiting /\ \A w \in waiting : begin[v] <= begin[w]

DefragMove(v) ==
    /\ ~ Settled /\ Lowest(v)
    /\ memory' = [i \in DOMAIN memory |->
                    IF target <= base + i /\ base + i < target + Size(v)
                    THEN Word(begin[v] + (base + i - target)) ELSE memory[i]]
    /\ begin' = [begin EXCEPT ![v] = target]
    /\ end' = [end EXCEPT ![v] = target + Size(v)]
    /\ target' = target + Size(v)
    /\ waiting' = waiting \ {v}
    /\ UNCHANGED <<stackVars, usable>>

DefragEnd ==
    /\ ~ Settled /\ waiting = {}
    /\ used' = target - base
    /\ memory' = [i \in 0 .. target - base - 1 |-> memory[i]]
    /\ Shrink(target - base)
    /\ usable' = 0 /\ target' = Null
    /\ UNCHANGED waiting

-----------------------------------------------------------------------------
PushWord(v, e) ==
    \/ PushFirst(v, e) \/ PushNew(v, e) \/ PushTop(v, e)
    \/ PushBehind(v, e) \/ PushEnlarged(v, e)

VectorsNext ==
    \/ \E v \in Vector, e \in Datum : PushWord(v, e)
    \/ \E v \in Vector : \E k \in 1 .. Size(v), w \in {1, 2} : RemoveWords(v, k, w)
    \/ \E v \in Vector : \E n \in 0 .. Size(v) : Shorten(v, n)
    \/ \E v \in Vector : \E k \in 1 .. Size(v), e \in Datum : Substitute(v, k, e)
    \/ ReleaseAll
    \/ DefragStart \/ \E v \in Vector : DefragMove(v)
    \/ DefragEnd

VectorsSpec == VectorsInit /\ [][VectorsNext]_vectorsVars

-----------------------------------------------------------------------------
(***************************************************************************)
(* Properties.                                                             *)
(***************************************************************************)
VectorsTypeOK ==
    /\ base \in Addresses \cup {Null} /\ used \in Nat /\ capacity \in Nat
    /\ used <= capacity
    /\ memory \in [0 .. used - 1 -> Datum \cup {0, Invalid}]
    /\ begin \in [Vector -> Nat] /\ end \in [Vector -> Nat]
    /\ usable \in Int /\ waiting \subseteq Vector /\ target \in Nat

\* A list has no place, or one on the stack above its first word.
InStack ==
    \A v \in Vector :
      \/ begin[v] = Null /\ end[v] = Null
      \/ base < begin[v] /\ begin[v] <= end[v] /\ end[v] <= Top /\ begin[v] < Top

\* No word is in two lists, although empty lists may point anywhere.
Disjoint ==
    \A v, w \in Vector : v # w => \A p \in base .. Top : ~ (Within(p, v) /\ Within(p, w))

\* No word of a list looks free (kissat_check_vector).
NoneFree ==
    \A v \in Vector : \A p \in base .. Top : Within(p, v) => Word(p) # Invalid

\* No word is lost: outside of the lists all words are free.
OthersFree ==
    Settled => \A p \in base + 1 .. Top - 1 :
              Word(p) = Invalid \/ \E v \in Vector : Within(p, v)

\* While lists move, those that have not moved yet are above all that have.
InOrder ==
    /\ Settled => waiting = {}
    /\ ~ Settled =>
         /\ base < target /\ target <= Top
         /\ \A v \in Vector : begin[v] = end[v] => begin[v] = Null
         /\ \A v \in waiting : begin[v] # end[v] /\ target <= begin[v]
         /\ \A v \in Vector \ waiting : end[v] <= target
         /\ \A p \in base + 1 .. target - 1 : \E v \in Vector \ waiting : Within(p, v)

VectorsInv ==
    VectorsTypeOK /\ InStack /\ Disjoint /\ NoneFree /\ OthersFree /\ InOrder

\* Pushing to one list never changes another one, whatever place is reused,
\* copied, moved or closed: the lists are what their users see.
Content(v) == [i \in 1 .. Size(v) |-> Word(begin[v] + (i - 1))]

L == INSTANCE Lists WITH contents <- [v \in Vector |-> Content(v)]

ListsSpec == L!ListsSpec

=============================================================================
