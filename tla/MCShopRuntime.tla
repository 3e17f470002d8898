--------------------------- MODULE MCShopRuntime ---------------------------
(***************************************************************************)
(* Instances of ShopRuntime for TLC, and the claims of the repository that *)
(* the code does not keep.                                                 *)
(***************************************************************************)
EXTENDS ShopRuntime, TLC

\* Shops are interchangeable, and so are the callers of one kind.  (Used in
\* the runs of safety properties only.)
ShopSymmetry == Permutations(Shops)
CallerSymmetry == Permutations(Callers)
ShopCallerSymmetry == {f @@ g : f \in ShopSymmetry, g \in CallerSymmetry}

\* A view for runtime_requests: what the steps of its instance and its properties
\* depend on.  No step reads the flags, the events and the other histories; two
\* loops never reach three login failures, and without retries the first crash
\* is the last, so that neither count makes a difference there.
Essentials ==
    <<shopOf, pc, cancel, runningTasks, timers, browserVars, shopTable, policy,
      callerPc, callerShop, callerTask, callerTodo, called>>

\* A bound for a large instance: no row is deleted.
NoRowDeleted == shopTable = Shops

-----------------------------------------------------------------------------
(* Claims of the repository *)

\* "Login failed %s times, auto restart paused" (shop_worker.py, _on_task_done):
\* after as many login failures in a row no restart is scheduled any more.  But
\* each restart is a start_shop, which resets the count.
LoginFailuresPauseRestart ==
    \A s \in Shops : loginStreak[s] >= MaxLoginFailures => timers[s] = 0
=============================================================================
