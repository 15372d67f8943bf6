---------------------------- MODULE MCStructures ----------------------------
(***************************************************************************)
(* The data structures below the search: the decision queue, a heap of     *)
(* scores and the watch lists.  They share no state, so that a behaviour   *)
(* uses one of them and leaves the others as they are at the start.        *)
(***************************************************************************)
EXTENDS DecisionQueue, Heap, Vectors, TLC

VARIABLE structure

MCVariables == 1 .. 3
MCScore == 0 .. 1
MCSymmetry == Permutations(Vector)

StructuresInit ==
    /\ structure \in {"queue", "heap", "vectors"}
    /\ QueueInit /\ answer = 1
    /\ HeapInit
    /\ VectorsInit

StructuresNext ==
    /\ UNCHANGED structure
    /\ \/ structure = "queue" /\ QueueNext /\ UNCHANGED <<heapVars, vectorsVars>>
       \/ structure = "heap" /\ HeapNext /\ UNCHANGED <<queueVars, vectorsVars>>
       \/ structure = "vectors" /\ VectorsNext /\ UNCHANGED <<queueVars, heapVars>>

StructuresSpec ==
    StructuresInit /\ [][StructuresNext]_<<structure, queueVars, heapVars, vectorsVars>>

=============================================================================
