---------------------------- MODULE HotDeployment ----------------------------
(***************************************************************************)
(* What may replace the backend the router serves, or the router's policy  *)
(* (src/scripts/deploy-hot.py, src/scripts/hot_control.py):                *)
(*                                                                         *)
(*   - the deployer, which stages a candidate, records it, registers and   *)
(*     activates it, or crosses a change of policy by a maintenance;       *)
(*   - the guard of each maintenance, started by a timer it sets, which    *)
(*     undoes it if it was not committed, also when a later deployment has *)
(*     made another maintenance meanwhile;                                 *)
(*   - the operator and the recovery controller, which select a backend.   *)
(*                                                                         *)
(* All of them work under one lock.  A maintenance halts the tunnels and   *)
(* the ingress (SIGSTOP), stops the router when nothing is in flight,      *)
(* replaces its policy and registry files, starts it again, commits its    *)
(* plan and lets the traffic go on.                                        *)
(*                                                                         *)
(* The router is a single value here: the files as it read them when it    *)
(* started and has changed them since, or None when it is down.  What      *)
(* happens inside it is the matter of HotSwapRouter; a call to it fails    *)
(* with or without its effect.  The adoption of a legacy ingress, the      *)
(* repair of a router whose executable was replaced, and rebinding are     *)
(* left out.                                                               *)
(***************************************************************************)
EXTENDS Naturals, FiniteSets

CONSTANTS
  Gen, Old,        \* generations, and the one that serves at first
  PolicyOf(_),     \* the policy a generation was built for
  Faults,          \* those of AllFaults that may happen
  None

AllFaults ==
  {"kill",         \* a script is killed
   "call",         \* a call to the router or to systemd fails
   "drain",        \* a call outlasts the wait for an idle router
   "start",        \* the router does not come up
   "write"}        \* a file is not written

Script == {"deployer"} \cup Gen     \* a guard goes by its maintenance's candidate

ASSUME DeploymentAssumption ==
  Old \in Gen /\ "deployer" \notin Gen /\ None \notin Script /\ Faults \subseteq AllFaults

VARIABLES
  router,          \* the registry and the policy the router serves with, or None
  disk,            \* its registry and policy files
  running,         \* backends whose unit is started
  recorded,        \* backends in deployment.json
  published,       \* the backend active.json and recovery.json name
  halted,          \* of the tunnels and the ingress, the stopped ones
  call,            \* the backend of the call in flight in the router
  plan, timers,    \* each candidate's maintenance plan; the guards whose timer is set
  lock,            \* the script that holds the lock
  at, cand, undoing,  \* each script's step; the deployer's candidate, and
                      \* whether it undoes its maintenance
  overruled        \* history: committed candidates that an undoing has taken back

trafficVars == <<halted, call>>
backendVars == <<running, recorded, published>>
planVars == <<plan, timers, overruled>>
hotVars == <<router, disk, backendVars, trafficVars, planVars, lock, at, cand, undoing>>

First == [registry |-> [active |-> Old, previous |-> None, generations |-> {Old}], policy |-> PolicyOf(Old)]

HotInit ==
  /\ disk = First
  /\ router = First
  /\ running = {Old} /\ recorded = {Old} /\ published = Old
  /\ halted = {} /\ call = None
  /\ plan = [g \in Gen |-> [state |-> "none", backup |-> First, next |-> First]]
  /\ timers = {} /\ overruled = {}
  /\ lock = None
  /\ at = [s \in Script |-> "idle"] /\ cand = None /\ undoing = FALSE

Up == router # None
May(fault) == fault \in Faults
Goes(s, step) == at' = [at EXCEPT ![s] = step]

-----------------------------------------------------------------------------
(* Traffic.  Local clients reach the ingress without a tunnel.             *)

CallStarts ==
  /\ Up /\ call = None /\ "ingress" \notin halted
  /\ call' = router.registry.active
  /\ UNCHANGED <<router, disk, backendVars, halted, planVars, lock, at, cand, undoing>>

CallEnds ==
  /\ call # None
  /\ call' = None
  /\ UNCHANGED <<router, disk, backendVars, halted, planVars, lock, at, cand, undoing>>

-----------------------------------------------------------------------------
(* Deployment.                                                             *)

Started == IF Up THEN router ELSE disk        \* ensure_router

(* Outside the lock: the router is started if it is down, and a private    *)
(* candidate staged, a new instance with a directory of its own.           *)
Stage(g) ==
  /\ at["deployer"] = "idle" /\ g \notin running /\ plan[g].state = "none"
  /\ router' = Started
  /\ running' = running \cup {g}
  /\ cand' = g
  /\ Goes("deployer", "staged")
  /\ UNCHANGED <<disk, recorded, published, trafficVars, planVars, lock, undoing>>

(* The deployer stops: the lock is free, and a candidate that the router   *)
(* cannot know of is stopped.                                              *)
StoppedAlways_Slip(g) == running \ {g}
Kept(g) == IF g \in recorded THEN running ELSE running \ {g}
DeployerEnds ==
  /\ Goes("deployer", "idle")
  /\ lock' = IF lock = "deployer" THEN None ELSE lock
  /\ cand' = None /\ undoing' = FALSE

(* Under the lock, the candidate is on record before the router may hear   *)
(* of it.                                                                  *)
Record ==
  /\ at["deployer"] = "staged" /\ lock = None
  /\ lock' = "deployer"
  /\ router' = Started
  /\ recorded' = recorded \cup {cand}
  /\ Goes("deployer", IF PolicyOf(router'.registry.active) = PolicyOf(cand) THEN "registering" ELSE "planning")
  /\ UNCHANGED <<disk, running, published, trafficVars, planVars, cand, undoing>>

RecordFails ==
  /\ at["deployer"] = "staged" /\ lock = None
  /\ May("call")
  /\ running' = Kept(cand)
  /\ DeployerEnds
  /\ UNCHANGED <<router, disk, recorded, published, trafficVars, planVars>>

(* A change of the registry, persisted before it is served.                *)
Serves(registry) ==
  /\ router' = [router EXCEPT !.registry = registry]
  /\ disk' = [disk EXCEPT !.registry = registry]
Registering == [router.registry EXCEPT !.generations = @ \cup {cand}]
Selecting(g) ==
  IF g = router.registry.active THEN router.registry
  ELSE [router.registry EXCEPT !.active = g, !.previous = router.registry.active]
Compatible(g) == Up /\ router.policy = PolicyOf(g)
Answers == "ingress" \notin halted      \* ensure_bridge asks the ingress

Register ==
  /\ at["deployer"] = "registering" /\ Compatible(cand)
  /\ Serves(Registering)
  /\ Goes("deployer", "activating")
  /\ UNCHANGED <<backendVars, trafficVars, planVars, lock, cand, undoing>>

(* After a selection, whatever its answer, the selected backend is         *)
(* published.                                                              *)
Activate ==
  /\ at["deployer"] = "activating" /\ Compatible(cand) /\ Answers
  /\ Serves(Selecting(cand))
  /\ published' = router'.registry.active
  /\ Goes("deployer", "probing")
  /\ UNCHANGED <<running, recorded, trafficVars, planVars, lock, cand, undoing>>

(* A registration or an activation fails, perhaps after it was done; the   *)
(* activation is looked up and published, never sent again.                *)
ChangeFails ==
  /\ at["deployer"] \in {"registering", "activating"} /\ (May("call") \/ ~Answers)
  /\ \/ UNCHANGED <<router, disk>>
     \/ /\ Compatible(cand) /\ May("call") /\ (at["deployer"] = "activating" => Answers)
        /\ Serves(IF at["deployer"] = "registering" THEN Registering ELSE Selecting(cand))
  /\ published' \in {published} \cup (IF at["deployer"] = "activating" THEN {router'.registry.active} ELSE {})
  /\ running' = Kept(cand)
  /\ DeployerEnds
  /\ UNCHANGED <<recorded, trafficVars, planVars>>

(* The last probe: an unhealthy candidate gives the route back, and stays. *)
Probe ==
  /\ at["deployer"] = "probing"
  /\ \/ UNCHANGED <<router, disk, published>>
     \/ /\ Up /\ router.registry.previous # None
        /\ Serves(Selecting(router.registry.previous))
        /\ published' = router'.registry.active
  /\ running' = Kept(cand)
  /\ DeployerEnds
  /\ UNCHANGED <<recorded, trafficVars, planVars>>

(* The operator selects a backend, or the recovery controller the previous *)
(* one.                                                                    *)
Select(g) ==
  /\ lock = None /\ Compatible(g)
  /\ g \in router.registry.generations \ {router.registry.active}
  /\ Serves(Selecting(g))
  /\ published' = g
  /\ UNCHANGED <<running, recorded, trafficVars, planVars, lock, at, cand, undoing>>

-----------------------------------------------------------------------------
(* Maintenance.  The cutover and its undoing take the same steps, with     *)
(* other files; the undoing is the deployer's own or the guard's.          *)

PlanOf(s) == IF s = "deployer" THEN cand ELSE s
Restoring(s) == s # "deployer" \/ undoing
Files(s) == IF Restoring(s) THEN plan[PlanOf(s)].backup ELSE plan[PlanOf(s)].next

(* The files of the candidate's policy, after what the router serves now.  *)
NextFiles ==
  [registry |-> [active |-> cand, previous |-> None, generations |-> router.registry.generations \cup {cand}],
   policy |-> PolicyOf(cand)]

(* The backups, the plan and its guard's timer come before the first halt, *)
(* whatever other plans there are.                                         *)
Planned == plan' = [plan EXCEPT ![cand] = [state |-> "armed", backup |-> disk, next |-> NextFiles]]
Arm ==
  /\ at["deployer"] = "planning" /\ Up /\ Answers
  /\ Planned
  /\ timers' = timers \cup {cand}
  /\ Goes("deployer", "haltingTunnels")
  /\ UNCHANGED <<router, disk, backendVars, trafficVars, lock, cand, undoing, overruled>>

ArmFails ==
  /\ at["deployer"] = "planning" /\ (May("call") \/ ~Answers)
  /\ \/ Up /\ Answers /\ Planned      \* but the timer is not set
     \/ UNCHANGED plan
  /\ running' = Kept(cand)
  /\ DeployerEnds
  /\ UNCHANGED <<router, disk, recorded, published, trafficVars, timers, overruled>>

HaltTunnels(s) ==
  /\ at[s] = "haltingTunnels"
  /\ halted' = halted \cup {"tunnels"}
  /\ Goes(s, "drainingTunnels")
  /\ UNCHANGED <<router, disk, backendVars, call, planVars, lock, cand, undoing>>

HaltIngress(s) ==
  /\ at[s] = "haltingIngress"
  /\ halted' = halted \cup {"ingress"}
  /\ Goes(s, "drainingIngress")
  /\ UNCHANGED <<router, disk, backendVars, call, planVars, lock, cand, undoing>>

Drain(s) ==
  /\ Up /\ call = None
  /\ \/ at[s] = "drainingTunnels" /\ Goes(s, "haltingIngress")
     \/ at[s] = "drainingIngress" /\ Goes(s, "stoppingRouter")
  /\ UNCHANGED <<router, disk, backendVars, trafficVars, planVars, lock, cand, undoing>>

StopRouter(s) ==
  /\ at[s] = "stoppingRouter"
  /\ router' = None
  /\ Goes(s, "writingPolicy")
  /\ UNCHANGED <<disk, backendVars, trafficVars, planVars, lock, cand, undoing>>

(* The committed candidates that an undoing does not know of.              *)
Overrules(s) ==
  overruled' = IF ~Restoring(s) THEN overruled
               ELSE overruled \cup {g \in Gen : plan[g].state = "committed" /\ g \notin Files(s).registry.generations}

WritePolicy(s) ==
  /\ at[s] = "writingPolicy"
  /\ disk' = [disk EXCEPT !.policy = Files(s).policy] /\ Overrules(s)
  /\ Goes(s, "writingRegistry")
  /\ UNCHANGED <<router, backendVars, trafficVars, plan, timers, lock, cand, undoing>>

WriteRegistry(s) ==
  /\ at[s] = "writingRegistry"
  /\ disk' = [disk EXCEPT !.registry = Files(s).registry]
  /\ Goes(s, "startingRouter")
  /\ UNCHANGED <<router, backendVars, trafficVars, planVars, lock, cand, undoing>>

StartRouter(s) ==
  /\ at[s] = "startingRouter"
  /\ router' = Started
  /\ Goes(s, "settling")
  /\ UNCHANGED <<disk, backendVars, trafficVars, planVars, lock, cand, undoing>>

(* The cutover is checked, published and committed; an undoing publishes   *)
(* what it restored.  Only then does the traffic go on.                    *)
Decides(s) ==
  /\ at[s] = "settling" /\ Up
  /\ Restoring(s) \/ router.registry.active = cand
  /\ plan' = [plan EXCEPT ![PlanOf(s)].state = IF Restoring(s) THEN "rolledBack" ELSE "committed"]
Settle(s) ==
  /\ Decides(s)
  /\ published' = router.registry.active
  /\ timers' = IF s = "deployer" THEN timers \ {cand} ELSE timers
  /\ Goes(s, "resumingIngress")
  /\ UNCHANGED <<router, disk, running, recorded, trafficVars, lock, cand, undoing, overruled>>

ResumeIngress(s) ==
  /\ at[s] = "resumingIngress"
  /\ halted' = halted \ {"ingress"}
  /\ Goes(s, "resumingTunnels")
  /\ UNCHANGED <<router, disk, backendVars, call, planVars, lock, cand, undoing>>

(* The script that holds the lock ends.                                    *)
Ends(s) ==
  /\ Goes(s, "idle")
  /\ lock' = None
  /\ IF s = "deployer" THEN cand' = None /\ undoing' = FALSE ELSE UNCHANGED <<cand, undoing>>

ResumeTunnels(s) ==
  /\ at[s] = "resumingTunnels"
  /\ halted' = halted \ {"tunnels"}
  /\ Ends(s)
  /\ UNCHANGED <<router, disk, backendVars, call, planVars>>

-----------------------------------------------------------------------------
(* Failures of a maintenance, and its undoing.                             *)

Before == {"haltingTunnels", "drainingTunnels", "haltingIngress", "drainingIngress"}
Within == {"stoppingRouter", "writingPolicy", "writingRegistry", "startingRouter", "settling"}

(* A failed cutover is undone at once.  An undoing that fails before it    *)
(* has stopped the router leaves everything as it is, the halted traffic   *)
(* included; later, the traffic goes on whatever was restored.             *)
Fails(s) ==
  IF ~Restoring(s)
  THEN Goes(s, "checking") /\ undoing' = TRUE /\ UNCHANGED <<lock, cand>>
  ELSE IF at[s] \in Before THEN Ends(s)
       ELSE Goes(s, "resumingIngress") /\ UNCHANGED <<lock, cand, undoing>>

(* Why a step may fail.  The router is asked at a drain; the candidate is  *)
(* checked when the cutover settles.                                       *)
Failure(s) ==
  \/ May("call") /\ at[s] \in Before \cup Within
  \/ May("drain") /\ at[s] \in {"drainingTunnels", "drainingIngress"} /\ call # None
  \/ at[s] \in {"drainingTunnels", "drainingIngress", "settling"} /\ ~Up
  \/ May("write") /\ at[s] \in {"writingPolicy", "writingRegistry", "settling"}
  \/ May("start") /\ at[s] = "startingRouter"
  \/ ~Restoring(s) /\ at[s] = "settling"

(* The step may have had its effect: the router goes down after the wait   *)
(* for it has ended, a file or the commit is there but not surely durable. *)
Fail(s) ==
  /\ Failure(s)
  /\ \/ UNCHANGED <<router, disk, plan, overruled>>
     \/ /\ at[s] = "stoppingRouter" /\ May("call")
        /\ router' = None /\ UNCHANGED <<disk, plan, overruled>>
     \/ /\ at[s] = "writingPolicy" /\ May("write")
        /\ disk' = [disk EXCEPT !.policy = Files(s).policy] /\ Overrules(s)
        /\ UNCHANGED <<router, plan>>
     \/ /\ at[s] = "writingRegistry" /\ May("write")
        /\ disk' = [disk EXCEPT !.registry = Files(s).registry]
        /\ UNCHANGED <<router, plan, overruled>>
     \/ Decides(s) /\ May("write") /\ UNCHANGED <<router, disk, overruled>>
  /\ published' \in {published} \cup (IF at[s] = "settling" /\ Up THEN {router.registry.active} ELSE {})
  /\ Fails(s)
  /\ UNCHANGED <<running, recorded, trafficVars, timers>>

(* An undoing, the lock held, looks at its plan again, not at any other.   *)
(* The deployer then stops the timer of its guard.                         *)
UncommittedAlways_Slip(g) == plan[g].state # "rolledBack"
Uncommitted(g) == plan[g].state \notin {"committed", "rolledBack"}
Check(s) ==
  /\ at[s] = "checking"
  /\ IF Uncommitted(PlanOf(s))
     THEN Goes(s, "haltingTunnels") /\ UNCHANGED <<timers, lock, cand, undoing>>
     ELSE Ends(s) /\ timers' = IF s = "deployer" THEN timers \ {cand} ELSE timers
  /\ UNCHANGED <<router, disk, backendVars, trafficVars, plan, overruled>>

(* A guard's timer fires once, 180 seconds after it was set, whatever a    *)
(* deployer is doing then; the guard waits for the lock.                   *)
Fire(g) ==
  /\ g \in timers
  /\ timers' = timers \ {g}
  /\ IF Uncommitted(g) THEN Goes(g, "waiting") ELSE UNCHANGED at
  /\ UNCHANGED <<router, disk, backendVars, trafficVars, plan, lock, cand, undoing, overruled>>
TakeLock(g) ==
  /\ at[g] = "waiting" /\ lock = None
  /\ lock' = g
  /\ Goes(g, "checking")
  /\ UNCHANGED <<router, disk, backendVars, trafficVars, planVars, cand, undoing>>

(* A script is killed: the lock is free, everything else stays.            *)
Kill(s) ==
  /\ May("kill") /\ at[s] # "idle"
  /\ Goes(s, "idle")
  /\ lock' = IF lock = s THEN None ELSE lock
  /\ IF s = "deployer" THEN cand' = None /\ undoing' = FALSE ELSE UNCHANGED <<cand, undoing>>
  /\ UNCHANGED <<router, disk, backendVars, trafficVars, planVars>>

-----------------------------------------------------------------------------
Maintain(s) ==
  \/ HaltTunnels(s) \/ HaltIngress(s) \/ Drain(s) \/ StopRouter(s)
  \/ WritePolicy(s) \/ WriteRegistry(s) \/ StartRouter(s) \/ Settle(s)
  \/ ResumeIngress(s) \/ ResumeTunnels(s) \/ Check(s)

DeployStep == Record \/ Register \/ Activate \/ Probe \/ Arm \/ Maintain("deployer")
GuardStep(g) == Fire(g) \/ TakeLock(g) \/ Maintain(g)

HotNext ==
  \/ CallStarts \/ CallEnds
  \/ \E g \in Gen : Stage(g) \/ Select(g)
  \/ DeployStep \/ \E g \in Gen : GuardStep(g)
  \/ RecordFails \/ ChangeFails \/ ArmFails
  \/ \E s \in Script : Fail(s) \/ Kill(s)

(* Scripts go on, the timers fire and calls end; a step that can only fail *)
(* does.                                                                   *)
HotFairness ==
  /\ WF_hotVars(DeployStep) /\ (\A g \in Gen : WF_hotVars(GuardStep(g))) /\ WF_hotVars(CallEnds)
  /\ \A s \in Script : WF_hotVars(Fail(s))
HotSpec == HotInit /\ [][HotNext]_hotVars /\ HotFairness

-----------------------------------------------------------------------------
(* Properties.                                                             *)

(* Every backend that may be asked for, by a call in flight, the router,   *)
(* its file, a plan's backup or the recovery settings, runs and is on      *)
(* record, however a deployment ended (deploy-hot.py:684, 429).            *)
Exposed ==
  disk.registry.generations \cup (UNION {plan[g].backup.registry.generations : g \in Gen}) \cup {disk.registry.active, published}
    \cup (IF Up THEN router.registry.generations ELSE {}) \cup ({call} \ {None})
ExposedIsKept == Exposed \subseteq recorded \cap running

(* The policy of the router's file changes only while the ingress is       *)
(* halted and nothing is in flight, by the script that holds the lock and  *)
(* for a plan that is not decided: a guard that fires late, or waits for   *)
(* the lock meanwhile, undoes nothing its own deployment committed         *)
(* (deploy-hot.py:545, 627).  What another deployment committed is taken   *)
(* back by a guard alone, one whose deployer was killed or failed before   *)
(* it was decided: its plan says nothing of later ones.                    *)
PolicyHolds ==
  [][/\ disk'.policy # disk.policy =>
          "ingress" \in halted /\ call = None /\ \E s \in Script : lock = s /\ plan[PlanOf(s)].state = "armed"
     /\ overruled' # overruled => lock \in Gen \ {cand} /\ plan[lock].state = "armed"]_hotVars

(* "A failed maintenance cutover restores the old registry and router      *)
(* capability file before ingress/tunnels resume."                         *)
(* (docs/specs/HOT-SWAP.md:29)                                             *)
FailureRestores ==
  \A g \in Gen : (undoing /\ cand = g) ~> (plan[g].state = "rolledBack" /\ halted = {})
=============================================================================
