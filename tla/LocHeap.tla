-------------------------------- MODULE LocHeap -------------------------------
(***************************************************************************)
(* The heap of the timers (gps/utils/LocHeap.cpp): a binary tree whose      *)
(* nodes never move, only their data do.  A node that comes in goes to the  *)
(* smaller subtree, one that leaves is a leaf its data was swapped into.    *)
(* A tree is NULL or a record, mSize counting its own node too.            *)
(*                                                                         *)
(* What compares the data, LocRankable::outRanks(), is given to each        *)
(* operation as the ranks of all data: the less the higher.                *)
(***************************************************************************)
EXTENDS Naturals, FiniteSets

CONSTANTS
    Rankables,          \* the data a heap may have, each once
    NULL                \* no node, and no data

MaxNodes == Cardinality(Rankables)

OutRanks(rank, d, e) == rank[d] < rank[e]

(* The nodes of which at most n lie on one path down                       *)
NodesOver(below) ==
    [mSize : Nat, mData : Rankables, mLeft : below \cup {NULL}, mRight : below \cup {NULL}]

NodesOf[n \in 0 .. MaxNodes] == IF n = 0 THEN {} ELSE NodesOver(NodesOf[n - 1])

Nodes == NodesOf[MaxNodes]
Trees == Nodes \cup {NULL}

ASSUME HeapAssumption == IsFiniteSet(Rankables) /\ NULL \notin Nodes \cup Rankables

Node(data) == [mSize |-> 1, mData |-> data, mLeft |-> NULL, mRight |-> NULL]

(* The data that goes on down is the lower ranked                          *)
NodePush(rank) ==
    LET pushed[top \in Nodes] ==
        [data \in Rankables |->
            LET first == OutRanks(rank, data, top.mData)
                low == IF first THEN top.mData ELSE data
                grown == [top EXCEPT !.mData = IF first THEN data ELSE @, !.mSize = @ + 1]
            IN  IF top.mLeft = NULL THEN [grown EXCEPT !.mLeft = Node(low)]
                ELSE IF top.mRight = NULL THEN [grown EXCEPT !.mRight = Node(low)]
                ELSE IF top.mLeft.mSize <= top.mRight.mSize
                     THEN [grown EXCEPT !.mLeft = pushed[top.mLeft][low]]
                     ELSE [grown EXCEPT !.mRight = pushed[top.mRight][low]]]
    IN pushed

(* The child that is swapped up: the higher ranked of the two              *)
UpperIsLeft(rank, top) ==
    /\ top.mLeft # NULL
    /\ top.mRight = NULL \/ OutRanks(rank, top.mLeft.mData, top.mRight.mData)

NodePop(rank) ==
    LET popped[top \in Nodes] ==
        LET shrunk == [top EXCEPT !.mSize = @ - 1]
        IN  IF top.mLeft = NULL /\ top.mRight = NULL THEN NULL
            ELSE IF UpperIsLeft(rank, top)
                 THEN [shrunk EXCEPT !.mData = top.mLeft.mData, !.mLeft = popped[top.mLeft]]
                 ELSE [shrunk EXCEPT !.mData = top.mRight.mData, !.mRight = popped[top.mRight]]
    IN popped

(* A linear search that leaves out the subtrees data outranks, left first  *)
Finds(rank, data) ==
    LET found[tree \in Trees] ==
        /\ tree # NULL
        /\ \/ tree.mData = data
           \/ /\ ~OutRanks(rank, data, tree.mData)
              /\ found[tree.mLeft] \/ found[tree.mRight]
    IN found

(* It stops where it would find nothing, and pops what it finds            *)
NodeRemove(rank, data) ==
    LET removed[tree \in Trees] ==
        IF ~Finds(rank, data)[tree] THEN tree
        ELSE IF tree.mData = data THEN NodePop(rank)[tree]
        ELSE IF Finds(rank, data)[tree.mLeft]
             THEN [tree EXCEPT !.mSize = @ - 1, !.mLeft = removed[tree.mLeft]]
             ELSE [tree EXCEPT !.mSize = @ - 1, !.mRight = removed[tree.mRight]]
    IN removed

(* LocHeap's methods                                                       *)
push(rank, tree, data) == IF tree = NULL THEN Node(data) ELSE NodePush(rank)[tree][data]
peek(tree) == IF tree = NULL THEN NULL ELSE tree.mData
pop(rank, tree) == IF tree = NULL THEN NULL ELSE NodePop(rank)[tree]
remove(rank, tree, data) == NodeRemove(rank, data)[tree]

Subtrees[tree \in Trees] ==
    IF tree = NULL THEN {} ELSE {tree} \cup Subtrees[tree.mLeft] \cup Subtrees[tree.mRight]

Data(tree) == {node.mData : node \in Subtrees[tree]}

SizeOf(tree) == IF tree = NULL THEN 0 ELSE tree.mSize

(* The sizes are right, and no node outranks the one above it              *)
checkTree(rank, tree) ==
    \A node \in Subtrees[tree] :
        /\ \A child \in {node.mLeft, node.mRight} \ {NULL} :
             ~OutRanks(rank, child.mData, node.mData)
        /\ node.mSize = SizeOf(node.mLeft) + SizeOf(node.mRight) + 1
=============================================================================
