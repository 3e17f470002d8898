-------------------------- MODULE MCBrowserEngine --------------------------
(***************************************************************************)
(* BrowserEngine for TLC: two loops that may succeed each other at one     *)
(* shop, and one at another.                                               *)
(***************************************************************************)
EXTENDS BrowserEngine, TLC

CONSTANTS s1, s2, l1, l2, l3

ShopOfLoops == (l1 :> s1) @@ (l2 :> s1) @@ (l3 :> s2)

\* The loops of one shop are alike.
Alike == Permutations({l1, l2})
=============================================================================
