--------------------------- MODULE MCGreedyAlloc ---------------------------
(***************************************************************************)
(* A small instance of the allocator: three levels of bits per weight, the *)
(* middle one shared by two types (as IQ3_S and Q3_K share 3.4375), three  *)
(* tensors, the first two in one layer.                                    *)
(***************************************************************************)
EXTENDS GreedyAlloc

MCQuantTypes == {[name |-> "IQ2", pos |-> 1, bpw |-> 2, family |-> 0],
                 [name |-> "IQ3", pos |-> 2, bpw |-> 4, family |-> 0],
                 [name |-> "Q3",  pos |-> 3, bpw |-> 4, family |-> 3],
                 [name |-> "Q8",  pos |-> 4, bpw |-> 7, family |-> 4]}
MCNoiseAt == [b \in {2, 4, 7} |-> CASE b = 2 -> 9 [] b = 4 -> 4 [] b = 7 -> 1]
MCLayer == <<1, 1, 2>>
MCParams == <<1, 2, 1>>
MCScores == {-2, 0, 1, 3}
MCTargets == {6, 8, 11, 13, 14, 18, 24}
=============================================================================
