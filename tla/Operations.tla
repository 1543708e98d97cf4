----------------------------- MODULE Operations ------------------------------
(***************************************************************************)
(* The scripts that run beside the router and the backends.  A tick of the *)
(* recovery controller and the scripts of a deployment exclude each other: *)
(* both hold the lock of src/scripts/recovery.py:294.  They share nothing  *)
(* else but the route, which recovery changes only as Select of            *)
(* HotDeployment does, so a behaviour is one of the former or one of the   *)
(* latter.                                                                 *)
(***************************************************************************)
EXTENDS Recovery, HotDeployment

CONSTANT Work      \* of {"recovery", "deployment"}, what may be at work

VARIABLE work

vars == <<work, recoveryVars, hotVars>>

Init == work \in Work /\ RecoveryInit /\ HotInit

Recovering(A) == work = "recovery" /\ A /\ UNCHANGED <<work, hotVars>>
Deploying(A) == work = "deployment" /\ A /\ UNCHANGED <<work, recoveryVars>>

Next == Recovering(RecoveryNext) \/ Deploying(HotNext)

(* The fairness of both.                                                   *)
Fairness ==
  /\ WF_vars(Recovering(TickStep)) /\ SF_vars(Recovering(Advance))
  /\ WF_vars(Deploying(DeployStep)) /\ WF_vars(Deploying(CallEnds))
  /\ \A g \in Gen : WF_vars(Deploying(GuardStep(g)))
  /\ \A s \in Script : WF_vars(Deploying(Fail(s)))

FairSpec == Init /\ [][Next]_vars /\ Fairness
=============================================================================
