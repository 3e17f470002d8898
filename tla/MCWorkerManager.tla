-------------------------- MODULE MCWorkerManager --------------------------
(***************************************************************************)
(* Instances of WorkerManager for TLC, and the claims of the repository    *)
(* that the code does not keep.                                            *)
(***************************************************************************)
EXTENDS WorkerManager, TLC

\* Shops are interchangeable: no action compares them.  (Used in the runs of
\* safety properties only.)
ShopSymmetry == Permutations(Shops)

-----------------------------------------------------------------------------
(* Claims of the repository *)

\* "Each shop gets an isolated Chrome window and user data directory"
\* (backend/engines/playwright_engine.py, open_shop): no two workers hold one
\* shop, each with a browser on that directory.  While a recovery respawns a
\* process outside the lock, its shops are in no map and the API may assign
\* them elsewhere; the recovery then restores them regardless.
OneHolderPerShop ==
    \A s \in Shops : \A v, w \in workers :
        s \in shopIds[v] /\ s \in shopIds[w] => v = w
=============================================================================
