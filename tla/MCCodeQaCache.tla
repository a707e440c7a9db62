--------------------------- MODULE MCCodeQaCache ----------------------------
(* Two questions at a time about two repositories that move on once, asked *)
(* about in either order.                                                  *)
EXTENDS CodeQaCache

CONSTANTS core, bots

MCRepos  == {core, bots}
MCOrders == { <<core, bots>>, <<bots, core>> }

Symmetry == Permutations(Callers)
=============================================================================
