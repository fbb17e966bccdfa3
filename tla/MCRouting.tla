------------------------------- MODULE MCRouting -------------------------------
(* Instances of Routing for TLC: addresses, patterns and functions can be      *)
(* exchanged.                                                                 *)
EXTENDS Routing, TLC

RoutingSymmetry ==
    Permutations(Contexts) \union Permutations(Apps) \union Permutations(Protocols)
        \union Permutations(Cells) \union Permutations(Patterns) \union Permutations(Callbacks)
===============================================================================
