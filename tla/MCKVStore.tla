------------------------------ MODULE MCKVStore ------------------------------
(* Instances of KVStore for TLC: threads and names can be exchanged.         *)
EXTENDS KVStore, TLC

Negative == {-1, 3}

ThreadAndNameSymmetry ==
    Permutations(Threads) \union Permutations(Collections) \union Permutations(Keys)
===============================================================================
