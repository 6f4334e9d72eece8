---------------------------- MODULE MCMergeQueue ----------------------------
(* One repository: two worktrees that are only merged, or one that is allocated, *)
(* committed to, merged and cleaned up.                                          *)
EXTENDS MergeQueue, TLC

CONSTANTS w1, w2
SecondFirst == w1 :> 1 @@ w2 :> 2
Merging == [prepared |-> <<w1, w2>>, working |-> {}]
WholeLife == [prepared |-> <<>>, working |-> {w1}]
Separately == {Merging, WholeLife}

=============================================================================
