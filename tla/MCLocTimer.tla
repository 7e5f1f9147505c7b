---------------------------- MODULE MCLocTimer ----------------------------
(***************************************************************************)
(* Two clients and three starts: one client may stop and restart its timer *)
(* while the other's is in the heap.  A heap of three is small, so the      *)
(* operators of LocHeap are checked on their own: six pushes, with equal   *)
(* ranks among them, then any two removals, then pops until it is empty.   *)
(***************************************************************************)
EXTENDS LocTimer

H == INSTANCE LocHeap WITH Rankables <- 1 .. 6

RECURSIVE Pushed(_, _), PopsInOrder(_, _)
Pushed(rank, n) == IF n = 0 THEN NULL ELSE H!push(rank, Pushed(rank, n - 1), n)

PopsInOrder(rank, tree) ==
    tree # NULL =>
        LET data == H!Data(tree)
            first == H!peek(tree)
            rest == H!pop(rank, tree)
        IN  /\ \A d \in data : rank[first] <= rank[d]
            /\ H!Data(rest) = data \ {first} /\ H!checkTree(rank, rest)
            /\ PopsInOrder(rank, rest)

ASSUME HeapIsOne ==
    \A rank \in [1 .. 6 -> 0 .. 2] : \A d, e \in 1 .. 6 :
        LET tree == H!remove(rank, H!remove(rank, Pushed(rank, 6), d), e)
        IN  /\ H!Data(tree) = (1 .. 6) \ {d, e}
            /\ H!checkTree(rank, tree)
            /\ PopsInOrder(rank, tree)
=============================================================================
