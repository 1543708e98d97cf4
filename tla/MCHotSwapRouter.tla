-------------------------- MODULE MCHotSwapRouter ---------------------------
(***************************************************************************)
(* Instances of HotSwapRouter for TLC.                                     *)
(***************************************************************************)
EXTENDS HotSwapRouter

CONSTANTS a, b, c, r1, r2, r3, k, c1, c2

Symmetry == Permutations(Controller)

(* A router that starts for the first time, and one that finds a registry  *)
(* with an active generation, its rollback target and a third one.         *)
BootEmpty == {EmptyRegistry}
BootRunning == {[epoch |-> 0, active |-> a, previous |-> None, generations |-> (a :> First) @@ (b :> First)]}
BootThree ==
  {[epoch |-> 0, active |-> a, previous |-> b, generations |-> (a :> First) @@ (b :> First) @@ (c :> First)]}

(* Every request but the last has the same caller, session and id.         *)
SharedKey(r) == IF r = r2 THEN None ELSE k

=============================================================================
