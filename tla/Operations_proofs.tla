-------------------------- MODULE Operations_proofs --------------------------
(***************************************************************************)
(* Proofs about Operations: what a deployment and its guard never do, and, *)
(* from Recovery_proofs, what holds of the recovery controller beside it.  *)
(*                                                                         *)
(* The deployment's invariant has three layers: who holds the lock and     *)
(* what a maintenance has halted and planned (Exclusion, Halting), what    *)
(* the backends that anything names are (Named), and where the committed   *)
(* candidates are still known (Lasts).                                     *)
(***************************************************************************)
EXTENDS Operations, Recovery_proofs

-----------------------------------------------------------------------------
(* The deployment.                                                         *)

Policy == {PolicyOf(g) : g \in Gen}
Reg == [active : Gen, previous : Gen \cup {None}, generations : SUBSET Gen]
FilePair == [registry : Reg, policy : Policy]
Plan == [state : {"none", "armed", "committed", "rolledBack"}, backup : FilePair, next : FilePair]

(* The steps of a script within the lock, and those of a maintenance.      *)
Changing == {"registering", "activating", "probing", "planning"}
Resuming == {"resumingIngress", "resumingTunnels"}
Maintaining == {"checking"} \cup Before \cup Within \cup Resuming

HotType ==
  /\ router \in FilePair \cup {None} /\ disk \in FilePair
  /\ running \subseteq Gen /\ recorded \subseteq Gen /\ published \in Gen
  /\ halted \subseteq {"tunnels", "ingress"} /\ call \in Gen \cup {None}
  /\ plan \in [Gen -> Plan] /\ timers \subseteq Gen /\ overruled \subseteq Gen /\ undoing \in BOOLEAN
  /\ lock \in Script \cup {None}
  /\ cand \in Gen \cup {None}
  /\ at \in [Script -> {"idle", "staged", "waiting"} \cup Changing \cup Maintaining]

(* What the lock excludes, which guards may be there, and that a candidate *)
(* has no plan before its maintenance.                                     *)
Exclusion ==
  /\ at["deployer"] \in {"idle", "staged"} \/ lock = "deployer"
  /\ at["deployer"] # "waiting"
  /\ \A g \in Gen :
       /\ at[g] \in {"idle", "waiting"} \/ lock = g
       /\ at[g] \in {"idle", "waiting"} \cup Maintaining
       /\ g \in timers => at[g] = "idle"
       /\ plan[g].state = "none" => g \notin timers /\ at[g] = "idle"
  /\ at["deployer"] # "idle" => cand \in Gen
  /\ at["deployer"] \in {"staged"} \cup Changing => plan[cand].state = "none"
  /\ at["deployer"] \in Maintaining => plan[cand].state # "none"
  /\ at["deployer"] \in {"registering", "activating", "probing"} => router \in FilePair

Halting(s) ==
  /\ at[s] \in Before \cup Within => plan[PlanOf(s)].state = "armed"
  /\ at[s] \in {"drainingIngress"} \cup Within => "ingress" \in halted
  /\ at[s] \in Within => call = None

HotInv == HotType /\ Exclusion /\ \A s \in Script : Halting(s)

(* At first nothing is under way.                                          *)
LEMMA HotInitInv == HotInit => HotInv
<1>. SUFFICES ASSUME HotInit PROVE HotInv
  OBVIOUS
<1>1. First \in FilePair
  BY DeploymentAssumption DEF First, FilePair, Reg, Policy
<1>2. HotType
  BY <1>1, DeploymentAssumption DEF HotInit, HotType, Plan, Script
<1>3. \A s \in Script : at[s] = "idle"
  BY DEF HotInit
<1>4. "deployer" \in Script /\ Gen \subseteq Script
  BY DEF Script
<1>5. Exclusion
  BY <1>3, <1>4 DEF HotInit, Exclusion, Maintaining, Resuming, Before, Within, Changing
<1>. QED  BY <1>2, <1>3, <1>5 DEF HotInv, Halting, Before, Within

(* What the scripts write is a registry, and a pair of files.              *)
LEMMA Written ==
  ASSUME HotType
  PROVE  /\ Started \in FilePair
         /\ Up => router \in FilePair
         /\ Up /\ cand \in Gen => Registering \in Reg
         /\ Up => \A g \in Gen : Selecting(g) \in Reg
         /\ Up /\ cand \in Gen => NextFiles \in FilePair
         /\ \A s \in Script : PlanOf(s) \in Gen => Files(s) \in FilePair
<1>1. Up => router \in FilePair
  BY DEF HotType, Up
<1>2. Started \in FilePair
  BY <1>1 DEF HotType, Started
<1>3. Up /\ cand \in Gen => Registering \in Reg
  BY <1>1 DEF Registering, FilePair, Reg
<1>4. Up => \A g \in Gen : Selecting(g) \in Reg
  BY <1>1 DEF Selecting, FilePair, Reg
<1>5. Up /\ cand \in Gen => NextFiles \in FilePair
  BY <1>1 DEF NextFiles, FilePair, Reg, Policy
<1>6. \A g \in Gen : plan[g].backup \in FilePair /\ plan[g].next \in FilePair
  BY DEF HotType, Plan
<1>. QED  BY <1>1, <1>2, <1>3, <1>4, <1>5, <1>6 DEF Files

(* A change of the registry leaves files and a router of their type.       *)
LEMMA ServesWell ==
  ASSUME HotType, Up, NEW registry \in Reg, Serves(registry)
  PROVE  router' \in FilePair /\ disk' \in FilePair /\ router'.registry = registry /\ disk'.registry = registry
         /\ router'.policy = router.policy /\ disk'.policy = disk.policy
<1>1. router \in FilePair /\ disk \in FilePair
  BY Written DEF HotType
<1>. QED  BY <1>1 DEF Serves, FilePair

Steps == {"idle", "staged", "waiting"} \cup Changing \cup Maintaining

(* A script's step, after it went to another.                              *)
LEMMA GoesTo ==
  ASSUME HotType, NEW s \in Script, NEW step \in Steps, Goes(s, step)
  PROVE  at' \in [Script -> Steps] /\ at'[s] = step /\ \A o \in Script \ {s} : at'[o] = at[o]
BY DEF Goes, HotType, Steps

(* Traffic leaves the scripts alone, and no call starts at a halted        *)
(* ingress.                                                                *)
LEMMA TrafficKeeps == HotInv /\ (CallStarts \/ CallEnds) => HotInv'
<1>. SUFFICES ASSUME HotInv, CallStarts \/ CallEnds PROVE HotInv'
  OBVIOUS
<1>. USE DEF backendVars, planVars
<1>1. UNCHANGED <<router, disk, backendVars, halted, planVars, lock, at, cand, undoing>>
  BY DEF CallStarts, CallEnds
<1>2. call' \in Gen \cup {None}
  BY Written DEF CallStarts, CallEnds, HotInv, HotType, FilePair, Reg
<1>3. "ingress" \in halted => call' = None \/ call' = call
  BY DEF CallStarts, CallEnds
<1>4. HotType'
  BY <1>1, <1>2 DEF HotInv, HotType
<1>5. Exclusion'
  BY <1>1 DEF HotInv, Exclusion
<1>6. \A s \in Script : Halting(s)'
  BY <1>1, <1>3 DEF HotInv, Halting, PlanOf
<1>. QED  BY <1>4, <1>5, <1>6 DEF HotInv

(* The deployer alone, before and within the lock, halts nothing.          *)
LEMMA DeployKeeps ==
  HotInv /\ ((\E g \in Gen : Stage(g)) \/ Record \/ RecordFails \/ Register \/ Activate \/ ChangeFails \/ Probe \/ ArmFails)
    => HotInv'
<1>. SUFFICES ASSUME HotInv,
         (\E g \in Gen : Stage(g)) \/ Record \/ RecordFails \/ Register \/ Activate \/ ChangeFails \/ Probe \/ ArmFails
     PROVE HotInv'
  OBVIOUS
<1>. USE DEF backendVars, planVars, trafficVars
<1>1. HotType /\ Exclusion /\ "deployer" \in Script /\ Gen \subseteq Script /\ "deployer" \notin Gen
  BY DeploymentAssumption DEF HotInv, Script
<1>2. \E step \in {"idle", "staged"} \cup Changing : Goes("deployer", step) 
  BY DEF Stage, Record, RecordFails, Register, Activate, ChangeFails, Probe, ArmFails, DeployerEnds, Changing
<1>3. PICK step \in {"idle", "staged"} \cup Changing : Goes("deployer", step) 
  BY <1>2
<1>4. at' \in [Script -> Steps] /\ at'["deployer"] = step /\ \A g \in Gen : at'[g] = at[g]
  BY <1>1, <1>3, GoesTo DEF Steps
<1>5. /\ UNCHANGED <<router, disk>> \/ (router' \in FilePair /\ disk' \in FilePair)
      /\ Record => router' \in FilePair
  <2>1. ASSUME NEW g \in Gen, Stage(g) PROVE router' = Started /\ disk' = disk
    BY <2>1 DEF Stage
  <2>2. Record => router' = Started /\ disk' = disk
    BY DEF Record
  <2>3. ASSUME Up, NEW g \in Reg, Serves(g) PROVE router' \in FilePair /\ disk' \in FilePair
    BY <1>1, <2>3, ServesWell
  <2>4. Up /\ (Register \/ Activate \/ ChangeFails) => cand \in Gen
    BY <1>1 DEF Exclusion, Register, Activate, ChangeFails
  <2>5. Register \/ Activate \/ ChangeFails => UNCHANGED <<router, disk>> \/ (Up /\ \E g \in Reg : Serves(g))
    BY <1>1, <2>4, Written DEF Register, Activate, ChangeFails, Compatible
  <2>6. Up /\ router.registry.previous # None => router.registry.previous \in Gen
    BY <1>1, Written DEF FilePair, Reg
  <2>7. Probe => UNCHANGED <<router, disk>> \/ (Up /\ \E g \in Reg : Serves(g))
    BY <1>1, <2>6, Written DEF Probe
  <2>8. RecordFails \/ ArmFails => UNCHANGED <<router, disk>>
    BY DEF RecordFails, ArmFails
  <2>9. Started \in FilePair /\ disk \in FilePair
    BY <1>1, Written DEF HotType
  <2>. QED  BY <2>1, <2>2, <2>3, <2>5, <2>7, <2>8, <2>9
<1>6. published' \in Gen
  <2>1. router' \in FilePair => router'.registry.active \in Gen
    BY DEF FilePair, Reg
  <2>2. Activate \/ ChangeFails \/ Probe => router \in FilePair
    BY <1>1 DEF Activate, ChangeFails, Probe, Exclusion
  <2>3. Activate \/ ChangeFails \/ Probe => published' \in {published, router'.registry.active}
    BY DEF Activate, ChangeFails, Probe
  <2>4. ASSUME NEW g \in Gen, Stage(g) PROVE published' = published
    BY <2>4 DEF Stage
  <2>5. Record \/ RecordFails \/ Register \/ ArmFails => published' = published
    BY DEF Record, RecordFails, Register, ArmFails
  <2>6. published \in Gen
    BY <1>1 DEF HotType
  <2>. QED  BY <1>5, <2>1, <2>2, <2>3, <2>4, <2>5, <2>6
<1>7. /\ UNCHANGED <<halted, call, timers, overruled>> /\ undoing' \in {undoing, FALSE}
      /\ running' \subseteq Gen /\ recorded' \subseteq Gen
      /\ cand' \in Gen \cup {None} /\ lock' \in Script \cup {None}
  <2>1. running' \subseteq Gen /\ recorded' \subseteq Gen
    BY <1>1 DEF HotType, Exclusion, Stage, Record, RecordFails, Register, Activate, ChangeFails, Probe, ArmFails, Kept
  <2>2. cand' \in Gen \cup {None} /\ lock' \in Script \cup {None}
    BY <1>1 DEF HotType, Stage, Record, RecordFails, Register, Activate, ChangeFails, Probe, ArmFails, DeployerEnds
  <2>. QED  BY <2>1, <2>2 DEF Stage, Record, RecordFails, Register, Activate, ChangeFails, Probe, ArmFails, DeployerEnds
<1>8. /\ plan' \in [Gen -> Plan]
      /\ plan' = plan \/ ArmFails
      /\ \A g \in Gen : plan'[g] = plan[g] \/ (plan[g].state = "none" /\ plan'[g].state = "armed")
  <2>1. CASE plan' = plan
    BY <1>1, <2>1 DEF HotType
  <2>2. CASE ArmFails /\ Up /\ Planned
    <3>1. cand \in Gen /\ plan[cand].state = "none"
      BY <1>1, <2>2 DEF ArmFails, Exclusion, Changing
    <3>2. NextFiles \in FilePair /\ disk \in FilePair
      BY <1>1, <2>2, <3>1, Written DEF HotType
    <3>. QED  BY <1>1, <2>2, <3>1, <3>2 DEF Planned, HotType, Plan
  <2>3. plan' = plan \/ (ArmFails /\ Up /\ Planned)
    BY DEF Stage, Record, RecordFails, Register, Activate, ChangeFails, Probe, ArmFails
  <2>. QED  BY <2>1, <2>2, <2>3
<1>9. HotType'
  BY <1>1, <1>4, <1>5, <1>6, <1>7, <1>8 DEF HotType, Steps
<1>10. Exclusion'
  <2>1. ASSUME NEW g \in Gen, Stage(g) PROVE step = "staged" /\ cand' = g /\ plan[g].state = "none" /\ UNCHANGED <<lock, plan>>
    BY <1>1, <1>4, <2>1 DEF Stage, Goes, HotType
  <2>2. Record => step \in {"registering", "planning"} /\ lock' = "deployer" /\ lock = None /\ UNCHANGED <<cand, plan>> /\ at["deployer"] = "staged"
    BY <1>1, <1>4 DEF Record, Goes, HotType
  <2>3. Register => step = "activating" /\ lock = "deployer" /\ UNCHANGED <<lock, cand, plan>> /\ at["deployer"] = "registering"
    BY <1>1, <1>4 DEF Register, Goes, HotType, Exclusion
  <2>4. Activate => step = "probing" /\ lock = "deployer" /\ UNCHANGED <<lock, cand, plan>> /\ at["deployer"] = "activating"
    BY <1>1, <1>4 DEF Activate, Goes, HotType, Exclusion
  <2>5. DeployerEnds => step = "idle" /\ (lock' = lock \/ lock = "deployer")
    BY <1>1, <1>4 DEF DeployerEnds, Goes, HotType
  <2>6. Register \/ Activate => router' \in FilePair
    BY <1>1, <1>5 DEF Register, Activate, Exclusion
  <2>7. RecordFails \/ ChangeFails \/ Probe \/ ArmFails => DeployerEnds
    BY DEF RecordFails, ChangeFails, Probe, ArmFails
  <2>8. at["deployer"] \in {"staged"} \cup Changing => cand \in Gen /\ plan[cand].state = "none"
    BY <1>1 DEF Exclusion, Changing
  <2>9. /\ step \in {"idle", "staged"} \/ lock' = "deployer"
        /\ step # "idle" => cand' \in Gen /\ plan'[cand'].state = "none"
        /\ lock' = lock \/ lock \in {None, "deployer"}
        /\ step \in {"registering", "activating", "probing"} => router' \in FilePair
    BY <1>5, <2>1, <2>2, <2>3, <2>4, <2>5, <2>6, <2>7, <2>8 DEF Changing
  <2>10. step \notin Maintaining /\ step # "waiting" /\ (step # "idle" => step \in {"staged"} \cup Changing)
    BY DEF Maintaining, Changing, Before, Within, Resuming
  <2>11. ASSUME NEW g \in Gen
         PROVE  /\ at'[g] \in {"idle", "waiting"} \/ lock' = g
                /\ at'[g] \in {"idle", "waiting"} \cup Maintaining
                /\ g \in timers' => at'[g] = "idle"
                /\ plan'[g].state = "none" => g \notin timers' /\ at'[g] = "idle"
    BY <1>1, <1>4, <1>7, <1>8, <2>9, DeploymentAssumption DEF Exclusion, Script
  <2>. QED  BY <1>4, <2>9, <2>10, <2>11 DEF Exclusion, Changing
<1>11. \A s \in Script : Halting(s)'
  <2>1. Halting("deployer")'
    BY <1>4 DEF Halting, Before, Within, Changing
  <2>2. ASSUME NEW g \in Gen PROVE Halting(g)'
    <3>1. Halting(g) /\ g # "deployer" /\ at'[g] = at[g]
      BY <1>1, <1>4, DeploymentAssumption DEF HotInv, Script
    <3>2. at[g] \in Before \cup Within => plan'[g] = plan[g]
      BY <1>8, <3>1 DEF Halting, PlanOf
    <3>. QED  BY <1>1, <1>4, <1>7, <1>8, <3>1, <3>2 DEF Halting, PlanOf
  <2>. QED  BY <2>1, <2>2 DEF Script
<1>. QED  BY <1>9, <1>10, <1>11 DEF HotInv

(* The script that maintains holds the lock: the others do nothing.        *)
LEMMA MaintainerAlone ==
  ASSUME HotInv, NEW s \in Script, at[s] \in Maintaining
  PROVE  /\ lock = s /\ PlanOf(s) \in Gen /\ plan[PlanOf(s)].state # "none" /\ s \notin timers
         /\ \A o \in Script \ {s} : at[o] \in {"idle", "staged", "waiting"}
         /\ s = "deployer" => cand \in Gen
<1>1. Maintaining \cap ({"idle", "staged", "waiting"} \cup Changing) = {}
  BY DEF Maintaining, Changing, Before, Within, Resuming
<1>2. HotType /\ Exclusion /\ "deployer" \notin Gen
  BY DeploymentAssumption DEF HotInv
<1>3. lock = s
  BY <1>1, <1>2 DEF Exclusion, Script
<1>4. \A o \in Script \ {s} : at[o] \in {"idle", "staged", "waiting"}
  BY <1>2, <1>3 DEF Exclusion, Script
<1>5. s = "deployer" => cand \in Gen /\ plan[cand].state # "none"
  BY <1>1, <1>2 DEF Exclusion
<1>6. s # "deployer" => s \in Gen /\ plan[s].state # "none" /\ s \notin timers
  BY <1>1, <1>2 DEF Exclusion, Script
<1>. QED  BY <1>2, <1>3, <1>4, <1>5, <1>6 DEF PlanOf, HotType

(* What a step of a maintenance must leave for the locks and halts to      *)
(* stay as they should be.                                                 *)
LEMMA MaintainerKeeps ==
  ASSUME HotInv, NEW s \in Script, at[s] \in Maintaining, NEW step \in {"idle"} \cup Maintaining, Goes(s, step),
         \/ step # "idle" /\ UNCHANGED <<lock, cand>>
         \/ step = "idle" /\ lock' = None /\ (s = "deployer" \/ cand' = cand),
         timers' \subseteq timers,
         \A g \in Gen : plan'[g] = plan[g] \/ (g = PlanOf(s) /\ plan'[g].state \in {"committed", "rolledBack"}),
         step \in Before \cup Within => plan'[PlanOf(s)].state = "armed",
         step \in {"drainingIngress"} \cup Within => "ingress" \in halted',
         step \in Within => call' = None
  PROVE  Exclusion' /\ \A o \in Script : Halting(o)'
<1>1. at' \in [Script -> Steps] /\ at'[s] = step /\ \A o \in Script \ {s} : at'[o] = at[o]
  BY GoesTo DEF HotInv, Steps
<1>2. /\ lock = s /\ PlanOf(s) \in Gen /\ plan[PlanOf(s)].state # "none" /\ s \notin timers
      /\ \A o \in Script \ {s} : at[o] \in {"idle", "staged", "waiting"}
      /\ s = "deployer" => cand \in Gen
  BY MaintainerAlone
<1>3. Exclusion /\ "deployer" \notin Gen /\ "deployer" \in Script /\ Gen \subseteq Script
  BY DeploymentAssumption DEF HotInv, Script
<1>4. \A x \in Maintaining : x \notin {"idle", "staged", "waiting"} \cup Changing
  BY DEF Maintaining, Changing, Before, Within, Resuming
<1>5. \A o \in Script \ {s} : Halting(o)'
  BY <1>1, <1>2 DEF Halting, Before, Within
<1>6. step \in Before \cup Within => PlanOf(s)' = PlanOf(s)
  BY DEF PlanOf, Before, Within
<1>7. Halting(s)'
  BY <1>1, <1>6 DEF Halting
<1>8. \A g \in Gen : plan'[g].state = "none" => plan[g].state = "none"
  BY <1>2
<1>9. ASSUME NEW g \in Gen
      PROVE  /\ at'[g] \in {"idle", "waiting"} \/ lock' = g
             /\ at'[g] \in {"idle", "waiting"} \cup Maintaining
             /\ g \in timers' => at'[g] = "idle"
             /\ plan'[g].state = "none" => g \notin timers' /\ at'[g] = "idle"
  <2>1. CASE g = s
    <3>1. plan[g].state # "none" /\ g \notin timers' /\ at'[g] = step
      BY <1>1, <1>2, <1>3, <2>1 DEF PlanOf
    <3>. QED  BY <1>2, <1>8, <2>1, <3>1
  <2>2. CASE g # s
    <3>1. at'[g] = at[g] /\ at[g] \in {"idle", "staged", "waiting"}
      BY <1>1, <1>2, <1>3, <2>2
    <3>2. at[g] \in {"idle", "waiting"} /\ (g \in timers => at[g] = "idle") /\ (plan[g].state = "none" => g \notin timers /\ at[g] = "idle")
      BY <1>3, <1>4, <3>1 DEF Exclusion
    <3>. QED  BY <1>8, <3>1, <3>2
  <2>. QED  BY <2>1, <2>2
<1>10. ASSUME s = "deployer" PROVE Exclusion'
  <2>1. at'["deployer"] = step /\ step \notin {"staged", "waiting"} \cup Changing
    BY <1>1, <1>4, <1>10 DEF Changing
  <2>2. step # "idle" => lock' = "deployer" /\ cand' = cand /\ cand \in Gen /\ plan'[cand].state # "none"
    BY <1>2, <1>8, <1>10 DEF PlanOf
  <2>3. step \in Maintaining => step # "idle"
    BY <1>4
  <2>. QED  BY <1>9, <2>1, <2>2, <2>3 DEF Exclusion, Changing
<1>11. ASSUME s # "deployer" PROVE Exclusion'
  <2>1. at'["deployer"] = at["deployer"] /\ at["deployer"] \in {"idle", "staged"}
    BY <1>1, <1>2, <1>3, <1>11 DEF Exclusion
  <2>2. cand' = cand /\ PlanOf(s) = s
    BY <1>11 DEF PlanOf
  <2>3. at["deployer"] = "staged" => cand \in Gen /\ plan'[cand] = plan[cand] /\ plan[cand].state = "none"
    BY <1>2, <1>3, <2>2 DEF Exclusion
  <2>4. at["deployer"] \notin Changing \cup Maintaining
    BY <1>4, <2>1 DEF Changing
  <2>. QED  BY <1>9, <2>1, <2>2, <2>3, <2>4 DEF Exclusion, Changing
<1>. QED  BY <1>5, <1>7, <1>10, <1>11

(* A selection by the operator or by recovery, and the guard's first steps.*)
LEMMA SelectKeeps == ASSUME HotInv, NEW g \in Gen, Select(g) PROVE HotInv'
<1>. USE DEF backendVars, planVars, trafficVars
<1>1. Up /\ Serves(Selecting(g)) /\ HotType /\ Selecting(g) \in Reg
  BY Written DEF Select, Compatible, HotInv
<1>2. router' \in FilePair /\ disk' \in FilePair
  BY <1>1, ServesWell
<1>3. published' = g /\ UNCHANGED <<running, recorded, trafficVars, planVars, lock, at, cand, undoing>>
  BY DEF Select
<1>4. HotType'
  BY <1>1, <1>2, <1>3 DEF HotType
<1>5. Exclusion'
  BY <1>2, <1>3 DEF HotInv, Exclusion
<1>6. \A s \in Script : Halting(s)'
  BY <1>3 DEF HotInv, Halting, PlanOf
<1>. QED  BY <1>4, <1>5, <1>6 DEF HotInv

LEMMA GuardStarts == ASSUME HotInv, NEW g \in Gen, Fire(g) \/ TakeLock(g) PROVE HotInv'
<1>. USE DEF backendVars, planVars, trafficVars
<1>1. HotType /\ Exclusion /\ (\A s \in Script : Halting(s)) /\ g \in Script /\ g # "deployer" /\ "deployer" \in Script
  BY DeploymentAssumption DEF HotInv, Script
<1>2. PICK step \in {at[g], "waiting", "checking"} :
        /\ at' = [at EXCEPT ![g] = step]
        /\ \/ /\ g \in timers /\ timers' = timers \ {g} /\ lock' = lock
              /\ step \in {at[g], "waiting"} /\ (step # at[g] => plan[g].state # "none")
           \/ /\ lock = None /\ lock' = g /\ timers' = timers
              /\ step = "checking" /\ at[g] = "waiting"
  <2>1. at = [at EXCEPT ![g] = at[g]]
    BY <1>1 DEF HotType
  <2>2. Fire(g) => plan[g].state # "none"
    BY <1>1 DEF Fire, Exclusion
  <2>. QED  BY <2>1, <2>2 DEF Fire, TakeLock, Goes
<1>3. /\ at' \in [Script -> Steps] /\ at'[g] = step /\ \A o \in Script \ {g} : at'[o] = at[o]
      /\ step \in Steps
  BY <1>1, <1>2 DEF HotType, Steps, Maintaining
<1>4. UNCHANGED <<router, disk, backendVars, trafficVars, plan, cand, undoing, overruled>>
  BY DEF Fire, TakeLock
<1>5. HotType'
  BY <1>1, <1>2, <1>3, <1>4 DEF HotType, Steps
<1>6. "checking" \in Maintaining /\ "checking" \notin Before \cup Within
  BY DEF Maintaining, Before, Within
<1>7. plan[g].state # "none"
  BY <1>1, <1>2 DEF Exclusion
<1>8. ASSUME NEW h \in Gen
      PROVE  /\ at'[h] \in {"idle", "waiting"} \/ lock' = h
             /\ at'[h] \in {"idle", "waiting"} \cup Maintaining
             /\ h \in timers' => at'[h] = "idle"
             /\ plan'[h].state = "none" => h \notin timers' /\ at'[h] = "idle"
  <2>1. CASE h = g
    BY <1>1, <1>2, <1>3, <1>4, <1>6, <1>7, <2>1 DEF Exclusion
  <2>2. CASE h # g
    BY <1>1, <1>2, <1>3, <1>4, <2>2, DeploymentAssumption DEF Exclusion, Script
  <2>. QED  BY <2>1, <2>2
<1>9. Exclusion'
  <2>1. at'["deployer"] = at["deployer"]
    BY <1>1, <1>3
  <2>2. at["deployer"] \in {"idle", "staged"} \/ lock' = "deployer"
    BY <1>1, <1>2, DeploymentAssumption DEF Exclusion, Script
  <2>. QED  BY <1>1, <1>4, <1>8, <2>1, <2>2 DEF Exclusion
<1>10. ASSUME NEW s \in Script PROVE Halting(s)'
  <2>1. CASE s = g
    <3>1. step \in {"waiting", "checking"} \/ step = at[g]
      BY <1>2
    <3>. QED  BY <1>1, <1>3, <1>4, <1>6, <2>1, <3>1 DEF Halting, PlanOf, Before, Within
  <2>2. CASE s # g
    BY <1>1, <1>3, <1>4, <2>2 DEF Halting, PlanOf
  <2>. QED  BY <2>1, <2>2
<1>. QED  BY <1>5, <1>9, <1>10 DEF HotInv

(* A maintenance is planned and its timer set before anything is halted.   *)
LEMMA ArmKeeps == HotInv /\ Arm => HotInv'
<1>. SUFFICES ASSUME HotInv, Arm PROVE HotInv'
  OBVIOUS
<1>. USE DEF backendVars, planVars, trafficVars
<1>1. HotType /\ Exclusion /\ (\A s \in Script : Halting(s)) /\ "deployer" \in Script /\ Gen \subseteq Script /\ "deployer" \notin Gen
  BY DeploymentAssumption DEF HotInv, Script
<1>2. at["deployer"] = "planning" /\ cand \in Gen /\ plan[cand].state = "none" /\ lock = "deployer" /\ at[cand] = "idle"
  BY <1>1 DEF Arm, Exclusion, Changing
<1>3. "haltingTunnels" \in Maintaining /\ "haltingTunnels" \in Before
  BY DEF Maintaining, Before
<1>4. at' \in [Script -> Steps] /\ at'["deployer"] = "haltingTunnels" /\ \A g \in Gen : at'[g] = at[g]
  BY <1>1, <1>3, GoesTo DEF Arm, Steps
<1>5. /\ timers' = timers \cup {cand}
      /\ UNCHANGED <<router, disk, backendVars, trafficVars, lock, cand, undoing, overruled>>
  BY DEF Arm
<1>6. /\ plan' \in [Gen -> Plan] /\ plan'[cand].state = "armed"
      /\ \A g \in Gen \ {cand} : plan'[g] = plan[g]
  <2>1. NextFiles \in FilePair /\ disk \in FilePair
    BY <1>1, <1>2, Written DEF Arm, HotType
  <2>. QED  BY <1>1, <1>2, <2>1 DEF Arm, Planned, HotType, Plan
<1>7. HotType'
  BY <1>1, <1>2, <1>4, <1>5, <1>6 DEF HotType, Steps
<1>8. Exclusion'
  <2>1. \A x \in Maintaining : x \notin {"idle", "staged", "waiting"} \cup Changing
    BY DEF Maintaining, Changing, Before, Within, Resuming
  <2>2. ASSUME NEW g \in Gen
        PROVE  /\ at'[g] \in {"idle", "waiting"} \/ lock' = g
               /\ at'[g] \in {"idle", "waiting"} \cup Maintaining
               /\ g \in timers' => at'[g] = "idle"
               /\ plan'[g].state = "none" => g \notin timers' /\ at'[g] = "idle"
    BY <1>1, <1>2, <1>4, <1>5, <1>6 DEF Exclusion
  <2>. QED  BY <1>2, <1>3, <1>4, <1>5, <1>6, <2>1, <2>2 DEF Exclusion, Changing
<1>9. ASSUME NEW s \in Script PROVE Halting(s)'
  <2>1. CASE s = "deployer"
    <3>1. "haltingTunnels" \notin {"drainingIngress"} \cup Within
      BY DEF Within
    <3>. QED  BY <1>4, <1>5, <1>6, <2>1, <3>1 DEF Halting, PlanOf
  <2>2. CASE s \in Gen
    <3>1. at[s] \in Before \cup Within => s # cand
      BY <1>2 DEF Before, Within
    <3>. QED  BY <1>1, <1>4, <1>5, <1>6, <2>2, <3>1 DEF Halting, PlanOf
  <2>. QED  BY <2>1, <2>2 DEF Script
<1>. QED  BY <1>7, <1>8, <1>9 DEF HotInv

(* A script that is killed leaves the lock, and all else as it is.         *)
LEMMA KillKeeps == ASSUME HotInv, NEW s \in Script, Kill(s) PROVE HotInv'
<1>. USE DEF backendVars, planVars, trafficVars
<1>1. /\ HotType /\ Exclusion /\ \A o \in Script : Halting(o)
      /\ "deployer" \in Script /\ Gen \subseteq Script /\ "deployer" \notin Gen /\ None \notin Script
  BY DeploymentAssumption DEF HotInv, Script
<1>2. at' \in [Script -> Steps] /\ at'[s] = "idle" /\ \A o \in Script \ {s} : at'[o] = at[o]
  BY <1>1, GoesTo DEF Kill, Steps
<1>3. UNCHANGED <<router, disk, backendVars, trafficVars, planVars>>
  BY DEF Kill
<1>4. /\ lock' = IF lock = s THEN None ELSE lock
      /\ s # "deployer" => UNCHANGED <<cand, undoing>>
      /\ cand' \in {cand, None} /\ undoing' \in {undoing, FALSE}
  BY DEF Kill
<1>5. HotType'
  BY <1>1, <1>2, <1>3, <1>4 DEF HotType, Steps
<1>6. Exclusion'
  <2>1. ASSUME NEW g \in Gen
        PROVE  /\ at'[g] \in {"idle", "waiting"} \/ lock' = g
               /\ at'[g] \in {"idle", "waiting"} \cup Maintaining
               /\ g \in timers' => at'[g] = "idle"
               /\ plan'[g].state = "none" => g \notin timers' /\ at'[g] = "idle"
    <3>1. at'[g] = "idle" \/ (g # s /\ at'[g] = at[g])
      BY <1>1, <1>2
    <3>2. g # s /\ lock = g => lock' = g
      BY <1>4
    <3>. QED  BY <1>1, <1>3, <3>1, <3>2 DEF Exclusion
  <2>2. CASE s = "deployer"
    <3>1. "idle" \notin {"waiting", "staged"} \cup Changing \cup Maintaining
      BY DEF Changing, Maintaining, Before, Within, Resuming
    <3>. QED  BY <1>2, <2>1, <2>2, <3>1 DEF Exclusion, Changing
  <2>3. CASE s # "deployer"
    <3>1. at'["deployer"] = at["deployer"] /\ (lock = "deployer" => lock' = "deployer") /\ cand' = cand
      BY <1>1, <1>2, <1>4, <2>3
    <3>. QED  BY <1>1, <1>3, <2>1, <3>1 DEF Exclusion
  <2>. QED  BY <2>2, <2>3
<1>7. ASSUME NEW o \in Script PROVE Halting(o)'
  <2>1. CASE o = s
    BY <1>2, <2>1 DEF Halting, Before, Within
  <2>2. CASE o # s
    <3>1. at'[o] = at[o] /\ (at[o] \in Before \cup Within => PlanOf(o)' = PlanOf(o))
      BY <1>2, <1>4, <2>2 DEF PlanOf
    <3>. QED  BY <1>1, <1>3, <3>1 DEF Halting
  <2>. QED  BY <2>1, <2>2
<1>. QED  BY <1>5, <1>6, <1>7 DEF HotInv

(* A decision changes the plan it is about, and no other.                  *)
LEMMA DecidesWell ==
  ASSUME HotType, NEW s \in Script, Decides(s)
  PROVE  /\ plan' \in [Gen -> Plan]
         /\ \A g \in Gen : plan'[g] = plan[g] \/ (g = PlanOf(s) /\ plan'[g].state \in {"committed", "rolledBack"})
         /\ \A g \in Gen : plan'[g].backup = plan[g].backup /\ plan'[g].next = plan[g].next
         /\ \A g \in Gen : plan'[g].state = "committed" => plan[g].state = "committed" \/ (g = PlanOf(s) /\ ~Restoring(s))
<1>. DEFINE new == IF Restoring(s) THEN "rolledBack" ELSE "committed"
<1>1. plan' = [plan EXCEPT ![PlanOf(s)].state = new] /\ plan \in [Gen -> Plan]
  BY DEF Decides, HotType
<1>2. new \in {"committed", "rolledBack"} /\ (Restoring(s) => new # "committed")
  OBVIOUS
<1>. HIDE DEF new
<1>3. \A g \in Gen : plan'[g] = IF g = PlanOf(s) THEN [plan[g] EXCEPT !.state = new] ELSE plan[g]
  BY <1>1
<1>4. \A g \in Gen : plan[g] \in Plan
  BY <1>1
<1>. QED  BY <1>1, <1>2, <1>3, <1>4 DEF Plan

(* The steps of a maintenance, and of its undoing.                         *)
LEMMA MaintainStep ==
  ASSUME HotInv, NEW s \in Script, Maintain(s)
  PROVE  at[s] \in Maintaining /\ HotInv'
<1>. USE DEF backendVars, planVars, trafficVars
<1>1. HotType /\ Halting(s)
  BY DEF HotInv
<1>2. at[s] \in Maintaining
  <2>1. HaltTunnels(s) \/ HaltIngress(s) \/ Drain(s) => at[s] \in Before
    BY DEF HaltTunnels, HaltIngress, Drain, Before
  <2>2. StopRouter(s) \/ WritePolicy(s) \/ WriteRegistry(s) \/ StartRouter(s) \/ Settle(s) => at[s] \in Within
    BY DEF StopRouter, WritePolicy, WriteRegistry, StartRouter, Settle, Decides, Within
  <2>3. ResumeIngress(s) \/ ResumeTunnels(s) \/ Check(s) => at[s] \in {"checking"} \cup Resuming
    BY DEF ResumeIngress, ResumeTunnels, Check, Resuming
  <2>. QED  BY <2>1, <2>2, <2>3 DEF Maintain, Maintaining
<1>3. ASSUME NEW step \in {"idle"} \cup Maintaining, Goes(s, step) PROVE at' \in [Script -> Steps]
  BY <1>1, <1>3, GoesTo DEF Steps
<1>4. PlanOf(s) \in Gen /\ plan[PlanOf(s)].state \in {"armed", "committed", "rolledBack"}
  BY <1>1, <1>2, MaintainerAlone DEF HotType, Plan
<1>7. Files(s) \in FilePair /\ Started \in FilePair /\ (Up => router \in FilePair)
  BY <1>1, <1>4, Written
<1>8. HotType'
  <2>1. at' \in [Script -> Steps]
    BY <1>3 DEF Maintain, HaltTunnels, HaltIngress, Drain, StopRouter, WritePolicy, WriteRegistry, StartRouter, Settle,
         ResumeIngress, ResumeTunnels, Check, Maintaining, Before, Within, Resuming, Ends
  <2>2. router' \in {router, None, Started}
    BY DEF Maintain, HaltTunnels, HaltIngress, Drain, StopRouter, WritePolicy, WriteRegistry, StartRouter, Settle,
         ResumeIngress, ResumeTunnels, Check
  <2>3. disk' \in {disk, [disk EXCEPT !.policy = Files(s).policy], [disk EXCEPT !.registry = Files(s).registry]}
    BY DEF Maintain, HaltTunnels, HaltIngress, Drain, StopRouter, WritePolicy, WriteRegistry, StartRouter, Settle,
         ResumeIngress, ResumeTunnels, Check
  <2>4. disk' \in FilePair
    BY <1>1, <1>7, <2>3 DEF HotType, FilePair
  <2>5. published' = published \/ (Up /\ published' = router.registry.active)
    <3>1. Settle(s) => Up /\ published' = router.registry.active
      BY DEF Settle, Decides
    <3>2. ~Settle(s) => published' = published
      BY DEF Maintain, HaltTunnels, HaltIngress, Drain, StopRouter, WritePolicy, WriteRegistry, StartRouter,
         ResumeIngress, ResumeTunnels, Check
    <3>. QED  BY <3>1, <3>2
  <2>6. published' \in Gen
    BY <1>1, <1>7, <2>5 DEF HotType, FilePair, Reg
  <2>7. /\ halted' \subseteq {"tunnels", "ingress"}
        /\ running' = running /\ recorded' = recorded /\ call' = call
        /\ timers' \subseteq Gen /\ overruled' \subseteq Gen
    BY <1>1 DEF HotType, Maintain, HaltTunnels, HaltIngress, Drain, StopRouter, WritePolicy, WriteRegistry, StartRouter, Settle,
         ResumeIngress, ResumeTunnels, Check, Overrules
  <2>9. plan' \in [Gen -> Plan]
    <3>1. plan' = plan \/ Decides(s)
      BY DEF Maintain, HaltTunnels, HaltIngress, Drain, StopRouter, WritePolicy, WriteRegistry, StartRouter, Settle,
         ResumeIngress, ResumeTunnels, Check
    <3>. QED  BY <1>1, <3>1, DecidesWell DEF HotType
  <2>8. undoing' \in {undoing, FALSE} /\ lock' \in {lock, None} /\ cand' \in {cand, None}
    BY DEF Maintain, HaltTunnels, HaltIngress, Drain, StopRouter, WritePolicy, WriteRegistry, StartRouter, Settle,
         ResumeIngress, ResumeTunnels, Check, Ends
  <2>. QED  BY <1>1, <1>7, <2>1, <2>2, <2>4, <2>6, <2>7, <2>8, <2>9 DEF HotType, Steps
<1>. SUFFICES Exclusion' /\ \A o \in Script : Halting(o)'
  BY <1>2, <1>8 DEF HotInv
<1>9. ASSUME NEW step \in Maintaining, Goes(s, step), UNCHANGED <<lock, cand, timers, plan>>,
             step \in Before \cup Within => plan[PlanOf(s)].state = "armed",
             step \in {"drainingIngress"} \cup Within => "ingress" \in halted',
             step \in Within => call' = None
      PROVE  Exclusion' /\ \A o \in Script : Halting(o)'
  <2>1. step # "idle" /\ step \in {"idle"} \cup Maintaining
    BY DEF Maintaining, Before, Within, Resuming
  <2>. QED  BY <1>2, <1>9, <2>1, MaintainerKeeps
<1>10. CASE HaltTunnels(s)
  BY <1>1, <1>9, <1>10 DEF HaltTunnels, Halting, Maintaining, Before, Within
<1>11. CASE HaltIngress(s)
  BY <1>1, <1>9, <1>11 DEF HaltIngress, Halting, Maintaining, Before, Within
<1>12. CASE Drain(s)
  BY <1>1, <1>9, <1>12 DEF Drain, Halting, Maintaining, Before, Within
<1>13. CASE StopRouter(s)
  BY <1>1, <1>9, <1>13 DEF StopRouter, Halting, Maintaining, Before, Within
<1>14. CASE WritePolicy(s)
  BY <1>1, <1>9, <1>14 DEF WritePolicy, Halting, Maintaining, Before, Within
<1>15. CASE WriteRegistry(s)
  BY <1>1, <1>9, <1>15 DEF WriteRegistry, Halting, Maintaining, Before, Within
<1>16. CASE StartRouter(s)
  BY <1>1, <1>9, <1>16 DEF StartRouter, Halting, Maintaining, Before, Within
<1>17. CASE ResumeIngress(s)
  BY <1>1, <1>9, <1>17 DEF ResumeIngress, Halting, Maintaining, Before, Within, Resuming
<1>18. CASE Settle(s)
  <2>1. Goes(s, "resumingIngress") /\ UNCHANGED <<lock, cand>> /\ timers' \subseteq timers
    BY <1>18 DEF Settle
  <2>2. \A g \in Gen : plan'[g] = plan[g] \/ (g = PlanOf(s) /\ plan'[g].state \in {"committed", "rolledBack"})
    BY <1>1, <1>18, DecidesWell DEF Settle
  <2>3. "resumingIngress" \in Maintaining /\ "resumingIngress" \notin Before \cup Within /\ "resumingIngress" # "idle"
    BY DEF Maintaining, Resuming, Before, Within
  <2>. QED  BY <1>2, <2>1, <2>2, <2>3, MaintainerKeeps DEF Before
<1>19. ASSUME Ends(s), UNCHANGED plan, timers' \subseteq timers PROVE Exclusion' /\ \A o \in Script : Halting(o)'
  <2>1. "idle" \notin Before \cup Within /\ "idle" # "drainingIngress"
    BY DEF Before, Within
  <2>2. Goes(s, "idle") /\ lock' = None /\ (s = "deployer" \/ cand' = cand)
    BY <1>19 DEF Ends
  <2>. QED  BY <1>2, <1>19, <2>1, <2>2, MaintainerKeeps
<1>20. CASE ResumeTunnels(s)
  BY <1>19, <1>20 DEF ResumeTunnels
<1>21. CASE Check(s)
  <2>1. plan' = plan /\ timers' \subseteq timers
    BY <1>21 DEF Check
  <2>2. CASE Uncommitted(PlanOf(s))
    <3>1. Goes(s, "haltingTunnels") /\ UNCHANGED <<timers, lock, cand>>
      BY <1>21, <2>2 DEF Check
    <3>2. plan[PlanOf(s)].state = "armed"
      BY <1>4, <2>2 DEF Uncommitted
    <3>. QED  BY <1>9, <2>1, <3>1, <3>2 DEF Maintaining, Before, Within
  <2>3. CASE ~Uncommitted(PlanOf(s))
    BY <1>19, <1>21, <2>1, <2>3 DEF Check
  <2>. QED  BY <2>2, <2>3
<1>. QED  BY <1>10, <1>11, <1>12, <1>13, <1>14, <1>15, <1>16, <1>17, <1>18, <1>20, <1>21 DEF Maintain

(* A step of a maintenance that fails, with or without its effect.         *)
LEMMA FailKeeps ==
  ASSUME HotInv, NEW s \in Script, Fail(s)
  PROVE  at[s] \in Before \cup Within /\ HotInv'
<1>. USE DEF backendVars, trafficVars
<1>1. HotType /\ Halting(s)
  BY DEF HotInv
<1>2. at[s] \in Before \cup Within
  BY DEF Fail, Failure, Before, Within
<1>3. at[s] \in Maintaining
  BY <1>2 DEF Maintaining
<1>4. PlanOf(s) \in Gen
  BY <1>3, MaintainerAlone
<1>5. Files(s) \in FilePair /\ (Up => router \in FilePair)
  BY <1>1, <1>4, Written
<1>6. PICK step \in {"checking", "idle", "resumingIngress"} : Goes(s, step)
  BY DEF Fail, Fails, Ends
<1>7. step \in {"idle"} \cup Maintaining /\ step \notin Before \cup Within
  BY DEF Maintaining, Resuming, Before, Within
<1>8. at' \in [Script -> Steps] /\ at'[s] = step
  BY <1>1, <1>6, <1>7, GoesTo DEF Steps
<1>9. /\ step # "idle" => UNCHANGED <<lock, cand>>
      /\ step = "idle" => lock' = None /\ (s = "deployer" \/ cand' = cand)
      /\ lock' \in {lock, None} /\ cand' \in {cand, None} /\ undoing' \in {undoing, FALSE, TRUE}
  <2>1. \A x \in Steps : Goes(s, x) => step = x
    BY <1>1, <1>8, GoesTo
  <2>2. {"checking", "idle", "resumingIngress"} \subseteq Steps
    BY DEF Steps, Maintaining, Resuming
  <2>3. Fails(s)
    BY DEF Fail
  <2>. QED  BY <2>1, <2>2, <2>3 DEF Fails, Ends
<1>10. HotType'
  <2>1. router' \in {router, None} /\ published' \in {published} \cup (IF Up THEN {router.registry.active} ELSE {})
    BY DEF Fail
  <2>2. disk' \in {disk, [disk EXCEPT !.policy = Files(s).policy], [disk EXCEPT !.registry = Files(s).registry]}
    BY DEF Fail
  <2>3. disk' \in FilePair
    BY <1>1, <1>5, <2>2 DEF HotType, FilePair
  <2>4. published' \in Gen
    BY <1>1, <1>5, <2>1 DEF HotType, FilePair, Reg
  <2>5. UNCHANGED <<running, recorded, trafficVars, timers>> /\ overruled' \subseteq Gen
    BY <1>1 DEF Fail, Overrules, HotType
  <2>6. plan' \in [Gen -> Plan]
    BY <1>1, DecidesWell DEF HotType, Fail
  <2>. QED  BY <1>1, <1>8, <1>9, <2>1, <2>3, <2>4, <2>5, <2>6 DEF HotType, Steps
<1>11. \A g \in Gen : plan'[g] = plan[g] \/ (g = PlanOf(s) /\ plan'[g].state \in {"committed", "rolledBack"})
  BY <1>1, DecidesWell DEF Fail
<1>12. timers' = timers
  BY DEF Fail
<1>. QED  BY <1>2, <1>3, <1>6, <1>7, <1>9, <1>10, <1>11, <1>12, MaintainerKeeps DEF HotInv, Before

(* Every step keeps the invariant of the deployment.                       *)
LEMMA HotNextInv == HotInv /\ [HotNext]_hotVars => HotInv'
<1>1. ASSUME HotInv, UNCHANGED hotVars PROVE HotInv'
  <2>. USE <1>1 DEF HotInv, hotVars, backendVars, trafficVars, planVars
  <2>1. HotType'
    BY DEF HotType
  <2>2. Exclusion' /\ \A s \in Script : Halting(s)'
    BY DEF Exclusion, Halting, PlanOf
  <2>. QED  BY <2>1, <2>2
<1>2. HotInv /\ (DeployStep \/ \E g \in Gen : GuardStep(g)) => HotInv'
  BY DeployKeeps, ArmKeeps, GuardStarts, MaintainStep DEF DeployStep, GuardStep, Script
<1>. QED  BY <1>1, <1>2, TrafficKeeps, DeployKeeps, SelectKeeps, FailKeeps, KillKeeps DEF HotNext
(* A step of one is a stuttering step of the other.                        *)
LEMMA Apart == [Next]_vars => [HotNext]_hotVars /\ [RecoveryNext]_recoveryVars
BY DEF Next, vars, Recovering, Deploying

(* HotInv holds of every deployment, with the recovery controller beside.  *)
THEOREM HotInvariance == FairSpec => []HotInv
<1>1. Init => HotInv
  BY HotInitInv DEF Init
<1>. QED  BY <1>1, Apart, HotNextInv, PTL DEF FairSpec

-----------------------------------------------------------------------------
(* The backends that anything names.                                       *)

Keeping == recorded \cap running
Names(r) == r.generations \cup {r.active} \cup ({r.previous} \ {None})

Asking == {"registering", "activating", "probing"}

Named ==
  /\ Names(disk.registry) \subseteq Keeping /\ \A g \in Gen : Names(plan[g].backup.registry) \subseteq Keeping /\ Names(plan[g].next.registry) \subseteq Keeping
  /\ Up \/ at["deployer"] \in Asking => Names(router.registry) \subseteq Keeping
  /\ published \in Keeping /\ call \in Keeping \cup {None}
  /\ at["deployer"] = "staged" => cand \in running
  /\ at["deployer"] \notin {"idle", "staged"} => cand \in Keeping

(* At first everything names the one backend that runs.                    *)
LEMMA NamedInit == HotInit => Named
BY DeploymentAssumption DEF HotInit, Named, Names, Keeping, First, Script, Asking

(* A backend on record is not stopped.                                     *)
LEMMA KeepingGrows == HotInv /\ [HotNext]_hotVars => Keeping \subseteq Keeping'
<1>. USE DEF backendVars, trafficVars, planVars
<1>1. ASSUME NEW g \in Gen, Stage(g) \/ Select(g) PROVE Keeping \subseteq Keeping'
  BY <1>1 DEF Stage, Select, Keeping
<1>2. CallStarts \/ CallEnds \/ Record \/ Register \/ Activate \/ Arm \/ (\E g \in Gen : Fire(g) \/ TakeLock(g)) => Keeping \subseteq Keeping'
  BY DEF CallStarts, CallEnds, Record, Register, Activate, Arm, Fire, TakeLock, Keeping
<1>3. Probe \/ RecordFails \/ ChangeFails \/ ArmFails => Keeping \subseteq Keeping'
  BY DEF Probe, RecordFails, ChangeFails, ArmFails, Kept, Keeping
<1>4. ASSUME NEW s \in Script, Maintain(s) \/ Fail(s) \/ Kill(s) PROVE Keeping \subseteq Keeping'
  BY <1>4 DEF Maintain, HaltTunnels, HaltIngress, Drain, StopRouter, WritePolicy, WriteRegistry, StartRouter, Settle,
     ResumeIngress, ResumeTunnels, Check, Fail, Kill, Keeping
<1>5. UNCHANGED hotVars => Keeping \subseteq Keeping'
  BY DEF hotVars, Keeping
<1>. QED  BY <1>1, <1>2, <1>3, <1>4, <1>5 DEF HotNext, DeployStep, GuardStep, Script

(* What the scripts write names only such backends.                        *)
LEMMA WrittenNames ==
  ASSUME HotType, Named
  PROVE  /\ Names(Started.registry) \subseteq Keeping
         /\ Up /\ cand \in Keeping => Names(Registering) \subseteq Keeping
         /\ Up => \A g \in Keeping : Names(Selecting(g)) \subseteq Keeping
         /\ Up /\ cand \in Keeping => Names(NextFiles.registry) \subseteq Keeping
         /\ \A s \in Script : PlanOf(s) \in Gen => Names(Files(s).registry) \subseteq Keeping
<1>1. Up => router \in FilePair /\ Names(router.registry) \subseteq Keeping
  BY Written DEF Named
<1>2. Names(Started.registry) \subseteq Keeping
  BY DEF Named, Started
<1>3. Up /\ cand \in Keeping => Names(Registering) \subseteq Keeping
  BY <1>1 DEF Registering, FilePair, Reg, Names
<1>4. Up => \A g \in Keeping : Names(Selecting(g)) \subseteq Keeping
  BY <1>1 DEF Selecting, FilePair, Reg, Names
<1>5. Up /\ cand \in Keeping => Names(NextFiles.registry) \subseteq Keeping
  BY <1>1 DEF NextFiles, Names
<1>. QED  BY <1>2, <1>3, <1>4, <1>5 DEF Files, Named

(* So does a plan.                                                         *)
LEMMA PlannedNames ==
  ASSUME HotType, Named, Up, cand \in Keeping, Planned
  PROVE  \A g \in Gen : Names(plan'[g].backup.registry) \subseteq Keeping /\ Names(plan'[g].next.registry) \subseteq Keeping
<1>1. \A g \in Gen : plan'[g] = IF g = cand THEN [state |-> "armed", backup |-> disk, next |-> NextFiles] ELSE plan[g]
  BY DEF Planned, HotType
<1>2. Names(NextFiles.registry) \subseteq Keeping /\ Names(disk.registry) \subseteq Keeping
  BY WrittenNames DEF Named
<1>. QED  BY <1>1, <1>2 DEF Named

(* A change of the registry to one that names only such backends.          *)
LEMMA ServesNames ==
  ASSUME HotType, Named, Up, NEW registry \in Reg, Names(registry) \subseteq Keeping, Serves(registry)
  PROVE  Names(router'.registry) \subseteq Keeping /\ Names(disk'.registry) \subseteq Keeping
         /\ router'.registry.active \in Keeping
BY ServesWell DEF Names

(* What the deployer does to the route.                                    *)
LEMMA DeployNames ==
  ASSUME HotInv, Named,
         (\E g \in Gen : Stage(g)) \/ Record \/ RecordFails \/ Register \/ Activate \/ ChangeFails \/ Probe \/ ArmFails
  PROVE  /\ Names(disk'.registry) \subseteq Keeping
         /\ Up' \/ at'["deployer"] \in Asking => Names(router'.registry) \subseteq Keeping
         /\ published' \in Keeping
<1>1. HotType /\ Exclusion
  BY DEF HotInv
<1>2. Register \/ Activate \/ ChangeFails => cand \in Keeping /\ cand \in Gen
  BY <1>1 DEF Register, Activate, ChangeFails, Named, Exclusion
<1>3. Activate \/ ChangeFails \/ Probe => router \in FilePair
  BY <1>1 DEF Activate, ChangeFails, Probe, Exclusion
<1>4. CASE router' = Started /\ UNCHANGED <<disk, published>>
  BY <1>1, <1>4, WrittenNames DEF Named
<1>5. CASE UNCHANGED <<router, disk, published>> /\ at'["deployer"] \notin Asking
  BY <1>5 DEF Named, Up
<1>6. ASSUME Up, NEW registry \in Reg, Names(registry) \subseteq Keeping, Serves(registry),
             published' \in {published, router'.registry.active}
      PROVE  /\ Names(disk'.registry) \subseteq Keeping
             /\ Names(router'.registry) \subseteq Keeping
             /\ published' \in Keeping
  BY <1>1, <1>6, ServesNames DEF Named
<1>7. Up => /\ cand \in Keeping /\ cand \in Gen => Registering \in Reg /\ Names(Registering) \subseteq Keeping
            /\ \A g \in Keeping \cap Gen : Selecting(g) \in Reg /\ Names(Selecting(g)) \subseteq Keeping
  BY <1>1, Written, WrittenNames
<1>8. CASE (\E g \in Gen : Stage(g)) \/ Record
  BY <1>4, <1>8 DEF Stage, Record, backendVars
<1>. DEFINE Ended == at'["deployer"] \notin Asking
<1>. HIDE DEF Ended
<1>14. RecordFails \/ ArmFails \/ ChangeFails \/ Probe => Ended
  BY <1>1 DEF RecordFails, ArmFails, ChangeFails, Probe, DeployerEnds, Goes, HotType, Script, Asking, Ended
<1>9. CASE RecordFails \/ ArmFails
  BY <1>5, <1>9, <1>14 DEF RecordFails, ArmFails, Ended
<1>10. CASE Register
  BY <1>2, <1>6, <1>7, <1>10 DEF Register, Compatible, backendVars
<1>11. CASE Activate
  BY <1>2, <1>6, <1>7, <1>11 DEF Activate, Compatible
<1>12. CASE ChangeFails
  <2>1. published' \in {published, router'.registry.active}
    BY <1>12 DEF ChangeFails
  <2>2. CASE UNCHANGED <<router, disk>>
    <3>1. router.registry.active \in Keeping
      BY <1>12 DEF Named, Names, ChangeFails, Asking
    <3>2. published' \in Keeping
      BY <2>1, <2>2, <3>1 DEF Named
    <3>. QED  BY <1>12, <1>14, <2>2, <3>2 DEF Named, Up, Ended
  <2>3. CASE Compatible(cand) /\ (Serves(Registering) \/ Serves(Selecting(cand)))
    BY <1>2, <1>6, <1>7, <1>12, <2>1, <2>3 DEF Compatible
  <2>. QED  BY <1>12, <2>2, <2>3 DEF ChangeFails
<1>13. CASE Probe
  <2>1. Up /\ router.registry.previous # None => router.registry.previous \in Keeping \cap Gen
    BY <1>3, <1>13 DEF Named, Names, FilePair, Reg
  <2>2. \/ UNCHANGED <<router, disk, published>>
        \/ /\ Up /\ router.registry.previous # None /\ Serves(Selecting(router.registry.previous))
           /\ published' = router'.registry.active
    BY <1>13 DEF Probe
  <2>. QED  BY <1>5, <1>6, <1>7, <1>13, <1>14, <2>1, <2>2 DEF Ended
<1>. QED  BY <1>8, <1>9, <1>10, <1>11, <1>12, <1>13
(* What a maintenance and its undoing do to the route.                     *)
LEMMA MaintainNames ==
  ASSUME HotInv, Named, NEW s \in Script, Maintain(s) \/ Fail(s)
  PROVE  /\ Names(disk'.registry) \subseteq Keeping
         /\ Up' => Names(router'.registry) \subseteq Keeping
         /\ published' \in Keeping
<1>1. HotType /\ at[s] \in Maintaining
  BY MaintainStep, FailKeeps DEF HotInv, Maintaining
<1>2. PlanOf(s) \in Gen
  BY <1>1, MaintainerAlone
<1>3. Names(Files(s).registry) \subseteq Keeping /\ Names(Started.registry) \subseteq Keeping /\ disk \in FilePair
  BY <1>1, <1>2, WrittenNames DEF HotType
<1>4. disk' \in {disk, [disk EXCEPT !.policy = Files(s).policy], [disk EXCEPT !.registry = Files(s).registry]}
  BY DEF Maintain, HaltTunnels, HaltIngress, Drain, StopRouter, WritePolicy, WriteRegistry, StartRouter, Settle,
     ResumeIngress, ResumeTunnels, Check, Fail
<1>5. Names(disk'.registry) \subseteq Keeping
  <2>1. disk'.registry \in {disk.registry, Files(s).registry}
    BY <1>3, <1>4 DEF FilePair
  <2>. QED  BY <1>3, <2>1 DEF Named
<1>6. router' \in {router, None, Started}
  BY DEF Maintain, HaltTunnels, HaltIngress, Drain, StopRouter, WritePolicy, WriteRegistry, StartRouter, Settle,
     ResumeIngress, ResumeTunnels, Check, Fail
<1>7. Up' => Names(router'.registry) \subseteq Keeping
  BY <1>3, <1>6 DEF Named, Up
<1>8. published' = published \/ (Up /\ published' = router.registry.active)
  <2>1. Settle(s) => Up /\ published' = router.registry.active
    BY DEF Settle, Decides
  <2>2. Fail(s) => published' = published \/ (Up /\ published' = router.registry.active)
    BY DEF Fail
  <2>3. ~Settle(s) /\ ~Fail(s) => published' = published
    BY DEF Maintain, HaltTunnels, HaltIngress, Drain, StopRouter, WritePolicy, WriteRegistry, StartRouter,
       ResumeIngress, ResumeTunnels, Check, backendVars
  <2>. QED  BY <2>1, <2>2, <2>3
<1>. QED  BY <1>5, <1>7, <1>8 DEF Named, Names

(* Every step keeps what is named among the backends that are kept.        *)
LEMMA NamedNext == HotInv /\ Named /\ [HotNext]_hotVars => Named'
<1>. SUFFICES ASSUME HotInv, Named, [HotNext]_hotVars PROVE Named'
  OBVIOUS
<1>. USE DEF backendVars, trafficVars, planVars
<1>1. HotType /\ Exclusion /\ Keeping \subseteq Keeping'
  BY KeepingGrows DEF HotInv
<1>2. ASSUME UNCHANGED <<router, disk, published, plan, at, cand, running>>, call' \in Keeping \cup {None} PROVE Named'
  BY <1>1, <1>2 DEF Named, Up
<1>3. CASE CallStarts \/ CallEnds
  <2>1. call' \in Keeping \cup {None}
    BY <1>3 DEF CallStarts, CallEnds, Named, Names
  <2>. QED  BY <1>2, <1>3, <2>1 DEF CallStarts, CallEnds
<1>4. CASE UNCHANGED hotVars
  BY <1>2, <1>4 DEF Named, hotVars
<1>5. CASE (\E g \in Gen : Stage(g)) \/ Record \/ RecordFails \/ Register \/ Activate \/ ChangeFails \/ Probe \/ ArmFails
  <2>1. /\ Names(disk'.registry) \subseteq Keeping
        /\ Up' \/ at'["deployer"] \in Asking => Names(router'.registry) \subseteq Keeping
        /\ published' \in Keeping
    BY <1>5, DeployNames
  <2>2. call' = call /\ (plan' = plan \/ (Up /\ Planned /\ ArmFails))
    BY <1>5 DEF Stage, Record, RecordFails, Register, Activate, ChangeFails, Probe, ArmFails
  <2>4. \A g \in Gen : Names(plan'[g].backup.registry) \subseteq Keeping /\ Names(plan'[g].next.registry) \subseteq Keeping
    <3>1. ArmFails => cand \in Keeping
      BY DEF ArmFails, Named
    <3>. QED  BY <1>1, <2>2, <3>1, PlannedNames DEF Named
  <2>3. /\ at'["deployer"] = "staged" => cand' \in running'
        /\ at'["deployer"] \notin {"idle", "staged"} => cand' \in Keeping'
    <3>1. ASSUME NEW g \in Gen, Stage(g) PROVE at'["deployer"] = "staged" /\ cand' \in running'
      BY <1>1, <3>1 DEF Stage, Goes, HotType, Script
    <3>2. DeployerEnds => at'["deployer"] = "idle"
      BY <1>1 DEF DeployerEnds, Goes, HotType, Script
    <3>3. Register \/ Activate => cand' = cand /\ cand \in Keeping /\ at'["deployer"] # "staged"
      BY <1>1 DEF Register, Activate, Named, Goes, HotType, Script
    <3>4. Record => cand' \in Keeping' /\ at'["deployer"] # "staged"
      BY <1>1 DEF Record, Named, Keeping, Goes, HotType, Script
    <3>. QED  BY <1>1, <1>5, <3>1, <3>2, <3>3, <3>4 DEF RecordFails, ChangeFails, Probe, ArmFails
  <2>. QED  BY <1>1, <2>1, <2>2, <2>3, <2>4 DEF Named
<1>6. ASSUME NEW g \in Gen, Select(g) PROVE Named'
  <2>1. Up /\ g \in Keeping /\ Serves(Selecting(g)) /\ published' = g
    BY <1>6 DEF Select, Compatible, Named, Names
  <2>2. Names(router'.registry) \subseteq Keeping /\ Names(disk'.registry) \subseteq Keeping
    BY <1>1, <2>1, ServesNames, Written, WrittenNames
  <2>3. UNCHANGED <<running, recorded, trafficVars, planVars, lock, at, cand, undoing>>
    BY <1>6 DEF Select
  <2>. QED  BY <1>1, <2>1, <2>2, <2>3 DEF Named
<1>7. CASE Arm
  <2>1. /\ Up /\ Planned /\ UNCHANGED <<router, disk, running, recorded, published, call, cand>>
        /\ at'["deployer"] = "haltingTunnels" /\ cand \in Keeping
    BY <1>1, <1>7 DEF Arm, Named, Goes, HotType, Script
  <2>2. \A g \in Gen : Names(plan'[g].backup.registry) \subseteq Keeping /\ Names(plan'[g].next.registry) \subseteq Keeping
    BY <1>1, <2>1, PlannedNames
  <2>. QED  BY <1>1, <2>1, <2>2 DEF Named, Up, Asking
<1>8. ASSUME NEW g \in Gen, Fire(g) \/ TakeLock(g) PROVE Named'
  <2>1. UNCHANGED <<router, disk, published, plan, cand, running, call>> /\ at'["deployer"] = at["deployer"]
    BY <1>1, <1>8, DeploymentAssumption DEF Fire, TakeLock, Goes, HotType, Script
  <2>. QED  BY <1>1, <2>1 DEF Named, Up
<1>9. ASSUME NEW s \in Script, Kill(s) PROVE Named'
  <2>1. /\ UNCHANGED <<router, disk, published, plan, running, call>>
        /\ at'["deployer"] = "idle" \/ (at'["deployer"] = at["deployer"] /\ cand' = cand)
    BY <1>1, <1>9 DEF Kill, Goes, HotType, Script
  <2>. QED  BY <1>1, <2>1 DEF Named, Up, Asking
<1>10. ASSUME NEW s \in Script, Maintain(s) \/ Fail(s) PROVE Named'
  <2>1. /\ Names(disk'.registry) \subseteq Keeping
        /\ Up' => Names(router'.registry) \subseteq Keeping
        /\ published' \in Keeping
    BY <1>10, MaintainNames
  <2>2. /\ call' = call /\ running' = running
        /\ \A g \in Gen : plan'[g].backup = plan[g].backup /\ plan'[g].next = plan[g].next
    <3>1. call' = call /\ running' = running /\ (plan' = plan \/ Decides(s))
      BY <1>10 DEF Maintain, HaltTunnels, HaltIngress, Drain, StopRouter, WritePolicy, WriteRegistry, StartRouter,
         Settle, ResumeIngress, ResumeTunnels, Check, Fail
    <3>. QED  BY <1>1, <3>1, DecidesWell
  <2>3. at[s] \in Maintaining
    BY <1>10, MaintainStep, FailKeeps DEF Maintaining
  <2>4. at["deployer"] \notin Asking
    BY <1>1, <2>3, MaintainerAlone DEF Script, Asking, Maintaining, Before, Within, Resuming
  <2>5. \E step \in {"idle"} \cup Maintaining :
          Goes(s, step) /\ (cand' = cand \/ (s = "deployer" /\ step = "idle"))
    BY <1>10 DEF Maintain, HaltTunnels, HaltIngress, Drain, StopRouter, WritePolicy, WriteRegistry, StartRouter,
       Settle, ResumeIngress, ResumeTunnels, Check, Fail, Fails, Ends, Maintaining, Before, Within, Resuming
  <2>6. PICK step \in {"idle"} \cup Maintaining :
          Goes(s, step) /\ (cand' = cand \/ (s = "deployer" /\ step = "idle"))
    BY <2>5
  <2>7. at'[s] = step /\ \A o \in Script \ {s} : at'[o] = at[o]
    BY <1>1, <2>6, GoesTo DEF Steps
  <2>8. \A x \in Maintaining : x \notin {"idle", "staged"} \cup Asking
    BY DEF Asking, Maintaining, Before, Within, Resuming
  <2>9. CASE s = "deployer"
    <3>1. at'["deployer"] \notin Asking /\ (at'["deployer"] = "idle" \/ (cand' = cand /\ cand \in Keeping))
      BY <2>3, <2>6, <2>7, <2>8, <2>9 DEF Named, Asking
    <3>2. at'["deployer"] # "staged"
      BY <2>7, <2>8, <2>9
    <3>. QED  BY <1>1, <2>1, <2>2, <3>1, <3>2 DEF Named
  <2>10. CASE s # "deployer"
    <3>1. at'["deployer"] = at["deployer"] /\ cand' = cand
      BY <2>6, <2>7, <2>10 DEF Script
    <3>. QED  BY <1>1, <2>1, <2>2, <2>4, <3>1 DEF Named
  <2>. QED  BY <2>9, <2>10 DEF Script
<1>11. CASE DeployStep \/ \E g \in Gen : GuardStep(g)
  BY <1>5, <1>7, <1>8, <1>10, <1>11 DEF DeployStep, GuardStep, Script
<1>. QED  BY <1>3, <1>4, <1>5, <1>6, <1>9, <1>10, <1>11 DEF HotNext

-----------------------------------------------------------------------------
(* What is committed, and was not taken back, is known to the router and   *)
(* to the files; so a plan made then knows of it too.                      *)

Lasting == {g \in Gen : plan[g].state = "committed"} \ overruled
Ongoing == {"checking"} \cup Before \cup Within

Lasts ==
  /\ at["deployer"] = "idle" => cand = None
  /\ Lasting \subseteq disk.registry.generations
  /\ Up => Lasting \subseteq router.registry.generations
  /\ at["deployer"] \in {"writingPolicy", "writingRegistry", "startingRouter"} => ~Up
  /\ at["deployer"] \in {"startingRouter", "settling"} /\ ~undoing =>
       cand \in disk.registry.generations /\ (Up => cand \in router.registry.generations)
  /\ at["deployer"] \in Ongoing /\ plan[cand].state = "armed" =>
       /\ Lasting \subseteq plan[cand].backup.registry.generations
       /\ Lasting \cup {cand} \subseteq plan[cand].next.registry.generations
  /\ \A g \in Gen : at[g] = "writingRegistry" => Lasting \subseteq plan[g].backup.registry.generations

LEMMA LastsInit == HotInit => Lasts
BY DeploymentAssumption DEF HotInit, Lasts, Lasting, Script, Ongoing, Before, Within

(* A step that neither decides nor takes back, outside the deployer's own  *)
(* maintenance.                                                            *)
LEMMA LastsQuietly ==
  ASSUME HotInv, Lasts, UNCHANGED <<plan, overruled>>,
         Lasting \subseteq disk'.registry.generations,
         Up' => Lasting \subseteq router'.registry.generations,
         at'["deployer"] \notin Ongoing,
         at'["deployer"] = "idle" => cand' = None,
         \A g \in Gen : at'[g] = "writingRegistry" => at[g] = "writingRegistry"
  PROVE  Lasts'
<1>1. Lasting' = Lasting
  BY DEF Lasting
<1>. QED  BY <1>1 DEF Lasts, Ongoing, Within

(* A step of the traffic, or of who has the lock.                          *)
LEMMA LastsBeside ==
  ASSUME HotInv, Lasts, UNCHANGED <<router, disk, plan, overruled>>,
         \/ UNCHANGED <<cand, undoing>> /\ at'["deployer"] = at["deployer"]
         \/ at'["deployer"] = "idle" /\ cand' = None,
         \A g \in Gen : at'[g] = "writingRegistry" => at[g] = "writingRegistry"
  PROVE  Lasts'
<1>1. Lasting' = Lasting
  BY DEF Lasting
<1>2. Up' = Up
  BY DEF Up
<1>. QED  BY <1>1, <1>2 DEF Lasts, Ongoing, Before, Within

(* A registry that knows of what the router knows of.                      *)
LEMMA ServesLasts ==
  ASSUME HotInv, Lasts, Up, NEW registry \in Reg, router.registry.generations \subseteq registry.generations, Serves(registry)
  PROVE  Lasting \subseteq disk'.registry.generations /\ Lasting \subseteq router'.registry.generations
BY ServesWell DEF HotInv, Lasts

(* The deployer's steps but those of a maintenance, and a selection.       *)
LEMMA DeployLasts ==
  ASSUME HotInv, Lasts,
         (\E g \in Gen : Stage(g) \/ Select(g)) \/ Record \/ RecordFails \/ Register \/ Activate \/ ChangeFails \/ Probe
  PROVE  Lasts'
<1>. USE DEF backendVars, trafficVars, planVars
<1>1. HotType /\ Exclusion /\ "deployer" \in Script /\ "deployer" \notin Gen
  BY DeploymentAssumption DEF HotInv, Script
<1>2. Up => /\ cand \in Gen => Registering \in Reg /\ router.registry.generations \subseteq Registering.generations
            /\ \A g \in Gen : Selecting(g) \in Reg /\ router.registry.generations \subseteq Selecting(g).generations
  BY <1>1, Written DEF Registering, Selecting, FilePair, Reg
<1>3. Lasting \subseteq disk.registry.generations /\ (Up => Lasting \subseteq router.registry.generations)
  BY DEF Lasts
<1>4. \/ UNCHANGED <<router, disk>>
      \/ router' = Started /\ disk' = disk
      \/ Up /\ \E registry \in Reg : router.registry.generations \subseteq registry.generations /\ Serves(registry)
  <2>1. CASE \E g \in Gen : Stage(g)
    BY <2>1 DEF Stage
  <2>2. ASSUME NEW g \in Gen, Select(g) PROVE Up /\ Serves(Selecting(g))
    BY <2>2 DEF Select, Compatible
  <2>3. CASE Record \/ RecordFails
    BY <2>3 DEF Record, RecordFails
  <2>4. CASE Register \/ Activate
    <3>1. cand \in Gen /\ Up
      BY <1>1, <2>4 DEF Register, Activate, Compatible, Exclusion
    <3>. QED  BY <1>2, <2>4, <3>1 DEF Register, Activate
  <2>5. CASE ChangeFails
    <3>1. cand \in Gen
      BY <1>1, <2>5 DEF ChangeFails, Exclusion
    <3>2. \/ UNCHANGED <<router, disk>>
          \/ Up /\ (Serves(Registering) \/ Serves(Selecting(cand)))
      BY <2>5 DEF ChangeFails, Compatible
    <3>. QED  BY <1>2, <3>1, <3>2
  <2>6. CASE Probe
    <3>1. \/ UNCHANGED <<router, disk>>
          \/ Up /\ router.registry.previous # None /\ Serves(Selecting(router.registry.previous))
      BY <2>6 DEF Probe
    <3>2. Up /\ router.registry.previous # None => router.registry.previous \in Gen
      BY <1>1, Written DEF FilePair, Reg
    <3>. QED  BY <1>2, <3>1, <3>2
  <2>. QED  BY <1>2, <2>1, <2>2, <2>3, <2>4, <2>5, <2>6
<1>5. Lasting \subseteq disk'.registry.generations /\ (Up' => Lasting \subseteq router'.registry.generations)
  <2>1. CASE UNCHANGED <<router, disk>> \/ (router' = Started /\ disk' = disk)
    BY <1>3, <2>1 DEF Started, Up
  <2>2. CASE Up /\ \E registry \in Reg : router.registry.generations \subseteq registry.generations /\ Serves(registry)
    BY <2>2, ServesLasts
  <2>. QED  BY <1>4, <2>1, <2>2
<1>6. ASSUME NEW g \in Gen, Select(g) PROVE at' = at /\ cand' = cand /\ at["deployer"] \in {"idle", "staged"}
  BY <1>1, <1>6, DeploymentAssumption DEF Select, Exclusion, Script
<1>7. ASSUME NEW step \in {"idle", "staged"} \cup Changing, Goes("deployer", step)
      PROVE  at'["deployer"] = step /\ \A g \in Gen : at'[g] = at[g]
  BY <1>1, <1>7, GoesTo DEF Steps, Script
<1>8. CASE \E g \in Gen : Select(g)
  <2>1. at' = at /\ cand' = cand /\ at["deployer"] \in {"idle", "staged"} /\ UNCHANGED <<plan, overruled>>
    BY <1>6, <1>8 DEF Select
  <2>. QED  BY <1>5, <2>1, LastsQuietly DEF Lasts, Ongoing, Before, Within
<1>9. CASE ~\E g \in Gen : Select(g)
  <2>1. UNCHANGED <<plan, overruled>>
    BY <1>9 DEF Stage, Record, RecordFails, Register, Activate, ChangeFails, Probe
  <2>2. \E step \in {"idle", "staged"} \cup Changing : Goes("deployer", step) /\ (step = "idle" => cand' = None)
    BY <1>9 DEF Stage, Record, RecordFails, Register, Activate, ChangeFails, Probe, DeployerEnds, Changing
  <2>3. PICK step \in {"idle", "staged"} \cup Changing : Goes("deployer", step) /\ (step = "idle" => cand' = None)
    BY <2>2
  <2>4. step \notin Ongoing
    BY DEF Changing, Ongoing, Before, Within
  <2>. QED  BY <1>5, <1>7, <2>1, <2>3, <2>4, LastsQuietly
<1>. QED  BY <1>8, <1>9

(* A plan is made of what the files and the router know.                   *)
LEMMA PlannedLasts ==
  ASSUME HotInv, Lasts, Up, at["deployer"] = "planning", Planned, overruled' = overruled
  PROVE  /\ Lasting' = Lasting
         /\ Lasting \subseteq plan'[cand].backup.registry.generations
         /\ Lasting \cup {cand} \subseteq plan'[cand].next.registry.generations
         /\ \A g \in Gen : at[g] # "writingRegistry"
<1>1. HotType /\ Exclusion /\ cand \in Gen /\ plan[cand].state = "none"
  BY DEF HotInv, Exclusion, Changing
<1>2. \A g \in Gen : plan'[g] = IF g = cand THEN [state |-> "armed", backup |-> disk, next |-> NextFiles] ELSE plan[g]
  BY <1>1 DEF Planned, HotType
<1>3. \A g \in Gen : plan'[g].state = "committed" <=> plan[g].state = "committed"
  BY <1>1, <1>2
<1>4. Lasting' = Lasting
  BY <1>3 DEF Lasting
<1>5. \A g \in Gen : at[g] # "writingRegistry"
  BY <1>1, DeploymentAssumption DEF Exclusion
<1>6. Lasting \subseteq disk.registry.generations /\ Lasting \subseteq router.registry.generations
  BY DEF Lasts
<1>7. plan'[cand].backup = disk /\ plan'[cand].next = NextFiles
  BY <1>1, <1>2
<1>8. NextFiles.registry.generations = router.registry.generations \cup {cand}
  BY DEF NextFiles
<1>. QED  BY <1>4, <1>5, <1>6, <1>7, <1>8

(* A maintenance begins, or fails to.                                      *)
LEMMA ArmLasts == ASSUME HotInv, Lasts, Arm \/ ArmFails PROVE Lasts'
<1>1. HotType /\ Exclusion /\ "deployer" \in Script /\ "deployer" \notin Gen /\ at["deployer"] = "planning"
  BY DeploymentAssumption DEF HotInv, Script, Arm, ArmFails
<1>2. UNCHANGED <<router, disk, overruled>> /\ Up' = Up
  BY DEF Arm, ArmFails, Up
<1>3. ASSUME NEW step \in {"idle", "haltingTunnels"}, Goes("deployer", step)
      PROVE  at'["deployer"] = step /\ \A g \in Gen : at'[g] = at[g]
  BY <1>1, <1>3, GoesTo DEF Steps, Script, Maintaining, Before
<1>4. CASE Arm
  <2>1. Up /\ Planned /\ cand' = cand /\ at'["deployer"] = "haltingTunnels" /\ \A g \in Gen : at'[g] = at[g]
    BY <1>3, <1>4 DEF Arm
  <2>. QED  BY <1>1, <1>2, <2>1, PlannedLasts DEF Lasts
<1>5. CASE ArmFails
  <2>1. cand' = None /\ at'["deployer"] = "idle" /\ \A g \in Gen : at'[g] = at[g]
    BY <1>3, <1>5 DEF ArmFails, DeployerEnds
  <2>2. CASE Up /\ Planned
    BY <1>1, <1>2, <2>1, <2>2, PlannedLasts DEF Lasts, Ongoing, Before, Within
  <2>3. CASE plan' = plan
    BY <1>2, <2>1, <2>3, LastsQuietly DEF Lasts, Ongoing, Before, Within
  <2>. QED  BY <1>5, <2>2, <2>3 DEF ArmFails
<1>. QED  BY <1>4, <1>5

(* What a step of a maintenance does, as far as this matters.              *)
LEMMA MaintainParts ==
  ASSUME HotInv, NEW s \in Script, Maintain(s) \/ Fail(s)
  PROVE  \/ UNCHANGED <<disk, plan, overruled>> /\ router' \in {router, None}
         \/ at[s] = "startingRouter" /\ Goes(s, "settling") /\ router' = Started /\ UNCHANGED <<disk, plan, overruled, undoing>>
         \/ /\ at[s] = "writingPolicy" /\ disk'.registry = disk.registry /\ Overrules(s)
            /\ UNCHANGED <<router, plan>>
         \/ /\ at[s] = "writingRegistry" /\ disk'.registry = Files(s).registry
            /\ UNCHANGED <<router, plan, overruled>>
         \/ Decides(s) /\ UNCHANGED <<router, disk, overruled>>
<1>. USE DEF planVars
<1>1. disk \in FilePair
  BY DEF HotInv, HotType
<1>2. disk' = [disk EXCEPT !.policy = Files(s).policy] => disk'.registry = disk.registry
  BY <1>1 DEF FilePair
<1>3. disk' = [disk EXCEPT !.registry = Files(s).registry] => disk'.registry = Files(s).registry
  BY <1>1 DEF FilePair
<1>4. CASE Maintain(s)
  <2>1. CASE StopRouter(s)
    BY <2>1 DEF StopRouter, backendVars
  <2>2. CASE StartRouter(s)
    BY <2>2 DEF StartRouter, backendVars
  <2>3. CASE WritePolicy(s)
    BY <1>2, <2>3 DEF WritePolicy, backendVars
  <2>4. CASE WriteRegistry(s)
    BY <1>3, <2>4 DEF WriteRegistry
  <2>5. CASE Settle(s)
    BY <2>5 DEF Settle
  <2>6. CASE HaltTunnels(s) \/ HaltIngress(s) \/ Drain(s) \/ ResumeIngress(s) \/ ResumeTunnels(s) \/ Check(s)
    BY <2>6 DEF HaltTunnels, HaltIngress, Drain, ResumeIngress, ResumeTunnels, Check
  <2>. QED  BY <1>4, <2>1, <2>2, <2>3, <2>4, <2>5, <2>6 DEF Maintain
<1>5. CASE Fail(s)
  <2>1. \/ UNCHANGED <<disk, plan, overruled>> /\ router' \in {router, None}
        \/ /\ at[s] = "writingPolicy" /\ disk' = [disk EXCEPT !.policy = Files(s).policy] /\ Overrules(s)
           /\ UNCHANGED <<router, plan>>
        \/ /\ at[s] = "writingRegistry" /\ disk' = [disk EXCEPT !.registry = Files(s).registry]
           /\ UNCHANGED <<router, plan, overruled>>
        \/ Decides(s) /\ UNCHANGED <<router, disk, overruled>>
    BY <1>5 DEF Fail
  <2>. QED  BY <1>2, <1>3, <2>1
<1>. QED  BY <1>4, <1>5

(* The committed candidates that are left stay known.                      *)
LEMMA MaintainKnows ==
  ASSUME HotInv, Lasts, NEW s \in Script, Maintain(s) \/ Fail(s)
  PROVE  /\ Lasting' \subseteq disk'.registry.generations /\ (Up' => Lasting' \subseteq router'.registry.generations)
         /\ Lasting' \subseteq Lasting \/ (Decides(s) /\ ~Restoring(s))
<1>1. HotType /\ at[s] \in Maintaining
  BY MaintainStep, FailKeeps DEF HotInv, Maintaining
<1>2. /\ lock = s /\ PlanOf(s) \in Gen
      /\ s # "deployer" => at["deployer"] \in {"idle", "staged", "waiting"}
  BY <1>1, MaintainerAlone DEF Script
<1>3. at[s] = "writingRegistry" => Lasting \subseteq Files(s).registry.generations
  <2>1. ASSUME s = "deployer", at[s] = "writingRegistry" PROVE Lasting \subseteq Files(s).registry.generations
    <3>1. plan[cand].state = "armed"
      BY <2>1 DEF HotInv, Halting, Within, PlanOf
    <3>. QED  BY <2>1, <3>1 DEF Lasts, Ongoing, Within, Files, PlanOf
  <2>2. ASSUME s # "deployer", at[s] = "writingRegistry" PROVE Lasting \subseteq Files(s).registry.generations
    BY <2>2 DEF Lasts, Files, Restoring, PlanOf, Script
  <2>. QED  BY <2>1, <2>2
<1>4. CASE UNCHANGED <<disk, plan, overruled>> /\ router' \in {router, None}
  BY <1>4 DEF Lasts, Lasting, Up
<1>5. CASE at[s] = "startingRouter" /\ router' = Started /\ UNCHANGED <<disk, plan, overruled>>
  BY <1>5 DEF Lasts, Lasting, Up, Started
<1>6. CASE at[s] = "writingPolicy" /\ disk'.registry = disk.registry /\ Overrules(s) /\ UNCHANGED <<router, plan>>
  <2>1. overruled \subseteq overruled'
    BY <1>6 DEF Overrules
  <2>2. Lasting' \subseteq Lasting
    BY <1>6, <2>1 DEF Lasting
  <2>3. Restoring(s) => Lasting' \subseteq Files(s).registry.generations
    BY <1>6 DEF Overrules, Lasting
  <2>4. Up' = Up
    BY <1>6 DEF Up
  <2>. QED  BY <1>6, <2>2, <2>3, <2>4 DEF Lasts
<1>7. CASE at[s] = "writingRegistry" /\ disk'.registry = Files(s).registry /\ UNCHANGED <<router, plan, overruled>>
  BY <1>3, <1>7 DEF Lasts, Lasting, Up
<1>8. CASE Decides(s) /\ UNCHANGED <<router, disk, overruled>>
  <2>1. \A g \in Gen : plan'[g].state = "committed" => plan[g].state = "committed" \/ (g = PlanOf(s) /\ ~Restoring(s))
    BY <1>1, <1>8, DecidesWell
  <2>2. Lasting' \subseteq Lasting \cup (IF Restoring(s) THEN {} ELSE {PlanOf(s)})
    BY <1>8, <2>1 DEF Lasting
  <2>3. ~Restoring(s) => /\ s = "deployer" /\ ~undoing /\ PlanOf(s) = cand
                         /\ at["deployer"] = "settling" /\ Up
    BY <1>8 DEF Restoring, PlanOf, Decides
  <2>4. ~Restoring(s) => cand \in disk.registry.generations /\ cand \in router.registry.generations
    BY <2>3 DEF Lasts
  <2>5. at[s] = "settling" /\ Up' = Up
    BY <1>8 DEF Decides, Up
  <2>. QED  BY <1>8, <2>2, <2>3, <2>4, <2>5 DEF Lasts
<1>. QED  BY <1>4, <1>5, <1>6, <1>7, <1>8, MaintainParts

(* A guard's undoing takes nothing from the deployer's plan.               *)
LEMMA GuardLasts == ASSUME HotInv, Lasts, NEW s \in Gen, Maintain(s) \/ Fail(s) PROVE Lasts'
<1>1. HotType /\ Exclusion /\ s \in Script /\ s # "deployer" /\ "deployer" \in Script /\ Gen \subseteq Script
  BY DeploymentAssumption DEF HotInv, Script
<1>2. at[s] \in Maintaining
  BY <1>1, MaintainStep, FailKeeps DEF Maintaining
<1>3. \A o \in Script \ {s} : at[o] \in {"idle", "staged", "waiting"}
  BY <1>1, <1>2, MaintainerAlone
<1>4. Restoring(s) /\ PlanOf(s) = s
  BY <1>1 DEF Restoring, PlanOf
<1>5. cand' = cand /\ \E step \in {"idle"} \cup Maintaining : Goes(s, step) /\ (step = "writingRegistry" => WritePolicy(s))
  BY <1>1, <1>4 DEF Maintain, HaltTunnels, HaltIngress, Drain, StopRouter, WritePolicy, WriteRegistry, StartRouter,
     Settle, ResumeIngress, ResumeTunnels, Check, Fail, Fails, Ends, Maintaining, Before, Within, Resuming
<1>6. PICK step \in {"idle"} \cup Maintaining : Goes(s, step) /\ (step = "writingRegistry" => WritePolicy(s))
  BY <1>5
<1>7. at'[s] = step /\ \A o \in Script \ {s} : at'[o] = at[o]
  BY <1>1, <1>6, GoesTo DEF Steps
<1>8. at'["deployer"] = at["deployer"] /\ at["deployer"] \in {"idle", "staged"}
  BY <1>1, <1>3, <1>7 DEF Exclusion
<1>9. at'["deployer"] \notin Ongoing
  BY <1>8 DEF Ongoing, Before, Within
<1>10. ASSUME NEW g \in Gen, at'[g] = "writingRegistry" PROVE Lasting' \subseteq plan'[g].backup.registry.generations
  <2>1. g = s
    BY <1>1, <1>3, <1>7, <1>10
  <2>2. WritePolicy(s)
    BY <1>6, <1>7, <1>10, <2>1
  <2>3. Overrules(s) /\ plan' = plan
    BY <2>2 DEF WritePolicy
  <2>4. Lasting' \subseteq Files(s).registry.generations
    BY <1>4, <2>3 DEF Overrules, Lasting
  <2>. QED  BY <1>4, <2>1, <2>3, <2>4 DEF Files
<1>. QED  BY <1>1, <1>5, <1>8, <1>9, <1>10, MaintainKnows DEF Lasts, Ongoing, Within

(* The deployer's maintenance: what it is about to commit is in the files  *)
(* and in the router by then, and its undoing knows of the rest.           *)
LEMMA DeployerLasts == ASSUME HotInv, Lasts, Maintain("deployer") \/ Fail("deployer") PROVE Lasts'
<1>. DEFINE s == "deployer"
<1>1. HotType /\ Exclusion /\ s \in Script /\ s \notin Gen /\ Gen \subseteq Script
  BY DeploymentAssumption DEF HotInv, Script
<1>2. at[s] \in Maintaining /\ HotInv'
  BY <1>1, MaintainStep, FailKeeps DEF Maintaining
<1>3. cand \in Gen /\ PlanOf(s) = cand /\ \A g \in Gen : at[g] \in {"idle", "staged", "waiting"}
  BY <1>1, <1>2, MaintainerAlone DEF PlanOf
<1>4. \E step \in {"idle"} \cup Maintaining :
        /\ Goes(s, step) /\ (cand' = cand \/ step = "idle") /\ (step = "idle" => cand' = None)
        /\ step \in Ongoing => at[s] \in Ongoing
        /\ step = "writingPolicy" => StopRouter(s)
        /\ step = "writingRegistry" => WritePolicy(s)
        /\ step = "startingRouter" => WriteRegistry(s)
        /\ step = "settling" => StartRouter(s)
  BY DEF Maintain, HaltTunnels, HaltIngress, Drain, StopRouter, WritePolicy, WriteRegistry, StartRouter,
     Settle, ResumeIngress, ResumeTunnels, Check, Fail, Failure, Fails, Ends, Maintaining, Ongoing, Before, Within, Resuming
<1>5. PICK step \in {"idle"} \cup Maintaining :
        /\ Goes(s, step) /\ (cand' = cand \/ step = "idle") /\ (step = "idle" => cand' = None)
        /\ step \in Ongoing => at[s] \in Ongoing
        /\ step = "writingPolicy" => StopRouter(s)
        /\ step = "writingRegistry" => WritePolicy(s)
        /\ step = "startingRouter" => WriteRegistry(s)
        /\ step = "settling" => StartRouter(s)
  BY <1>4
<1>6. at'[s] = step /\ \A o \in Script \ {s} : at'[o] = at[o]
  BY <1>1, <1>5, GoesTo DEF Steps
<1>7. \A g \in Gen : at'[g] # "writingRegistry"
  BY <1>1, <1>3, <1>6
<1>8. step \in {"writingPolicy", "writingRegistry", "startingRouter"} => ~Up'
  <2>1. step = "writingPolicy" => ~Up'
    BY <1>5 DEF StopRouter, Up
  <2>2. step \in {"writingRegistry", "startingRouter"} => router' = router /\ ~Up
    BY <1>5 DEF WritePolicy, WriteRegistry, Lasts
  <2>. QED  BY <2>1, <2>2 DEF Up
<1>9. step \in {"startingRouter", "settling"} /\ ~undoing' =>
        cand' \in disk'.registry.generations /\ (Up' => cand' \in router'.registry.generations)
  <2>1. ASSUME step = "startingRouter", ~undoing'
        PROVE  cand' \in disk'.registry.generations /\ ~Up'
    <3>1. at[s] = "writingRegistry" /\ disk' = [disk EXCEPT !.registry = Files(s).registry] /\ cand' = cand /\ ~undoing
      BY <1>5, <2>1 DEF WriteRegistry
    <3>2. disk'.registry = plan[cand].next.registry
      BY <1>1, <1>3, <3>1 DEF Files, Restoring, HotType, FilePair
    <3>3. plan[cand].state = "armed"
      BY <1>1, <1>3, <3>1 DEF HotInv, Halting, Within
    <3>4. cand \in plan[cand].next.registry.generations
      BY <3>1, <3>3 DEF Lasts, Ongoing, Within
    <3>. QED  BY <1>8, <2>1, <3>1, <3>2, <3>4
  <2>2. ASSUME step = "settling", ~undoing'
        PROVE  cand' \in disk'.registry.generations /\ (Up' => cand' \in router'.registry.generations)
    <3>1. at[s] = "startingRouter" /\ router' = Started /\ disk' = disk /\ cand' = cand /\ ~undoing
      BY <1>5, <2>2 DEF StartRouter
    <3>. QED  BY <3>1 DEF Lasts, Started
  <2>. QED  BY <2>1, <2>2
<1>10. step \in Ongoing /\ plan'[cand'].state = "armed" =>
         /\ Lasting' \subseteq plan'[cand'].backup.registry.generations
         /\ Lasting' \cup {cand'} \subseteq plan'[cand'].next.registry.generations
  <2>. SUFFICES ASSUME step \in Ongoing, plan'[cand'].state = "armed"
                PROVE  /\ Lasting' \subseteq plan'[cand'].backup.registry.generations
                       /\ Lasting' \cup {cand'} \subseteq plan'[cand'].next.registry.generations
    OBVIOUS
  <2>1. cand' = cand /\ at[s] \in Ongoing
    BY <1>5 DEF Ongoing, Before, Within
  <2>2. ~Decides(s)
    <3>1. ASSUME Decides(s) PROVE plan'[cand].state # "armed"
      BY <1>1, <1>3, <3>1 DEF Decides, HotType, Plan
    <3>. QED  BY <2>1, <3>1
  <2>3. plan' = plan
    BY <1>1, <2>2, MaintainParts
  <2>4. Lasting' \subseteq Lasting
    BY <1>1, <2>2, MaintainKnows
  <2>. QED  BY <2>1, <2>3, <2>4 DEF Lasts
<1>11. Lasting' \subseteq disk'.registry.generations /\ (Up' => Lasting' \subseteq router'.registry.generations)
  BY <1>1, MaintainKnows
<1>12. at'["deployer"] = "idle" => cand' = None
  BY <1>5, <1>6
<1>13. at'["deployer"] = step
  BY <1>6
<1>. QED  BY <1>7, <1>8, <1>9, <1>10, <1>11, <1>12, <1>13 DEF Lasts

(* Every step keeps what is committed and not taken back known.            *)
LEMMA LastsNext == HotInv /\ Lasts /\ [HotNext]_hotVars => Lasts'
<1>. SUFFICES ASSUME HotInv, Lasts, [HotNext]_hotVars PROVE Lasts'
  OBVIOUS
<1>. USE DEF backendVars, trafficVars, planVars
<1>1. HotType /\ "deployer" \in Script /\ "deployer" \notin Gen /\ Gen \subseteq Script
  BY DeploymentAssumption DEF HotInv, Script
<1>2. CASE CallStarts \/ CallEnds \/ UNCHANGED hotVars
  <2>1. UNCHANGED <<router, disk, plan, overruled, cand, undoing, at>>
    BY <1>2 DEF CallStarts, CallEnds, hotVars
  <2>. QED  BY <2>1, LastsBeside
<1>3. ASSUME NEW g \in Gen, Fire(g) \/ TakeLock(g) PROVE Lasts'
  <2>1. UNCHANGED <<router, disk, plan, overruled, cand, undoing>>
    BY <1>3 DEF Fire, TakeLock
  <2>2. at' = at \/ \E step \in {"waiting", "checking"} : Goes(g, step)
    BY <1>3 DEF Fire, TakeLock
  <2>3. ASSUME NEW step \in {"waiting", "checking"}, Goes(g, step)
        PROVE  at'[g] # "writingRegistry" /\ \A o \in Script \ {g} : at'[o] = at[o]
    BY <1>1, <2>3, GoesTo DEF Steps, Maintaining
  <2>4. at'["deployer"] = at["deployer"] /\ \A o \in Gen : at'[o] = "writingRegistry" => at[o] = "writingRegistry"
    BY <1>1, <2>2, <2>3
  <2>. QED  BY <2>1, <2>4, LastsBeside
<1>4. ASSUME NEW s \in Script, Kill(s) PROVE Lasts'
  <2>1. UNCHANGED <<router, disk, plan, overruled>> /\ Goes(s, "idle")
    BY <1>4 DEF Kill
  <2>2. at'[s] = "idle" /\ \A o \in Script \ {s} : at'[o] = at[o]
    BY <1>1, <2>1, GoesTo DEF Steps
  <2>3. IF s = "deployer" THEN cand' = None ELSE UNCHANGED <<cand, undoing>>
    BY <1>4 DEF Kill
  <2>4. \/ UNCHANGED <<cand, undoing>> /\ at'["deployer"] = at["deployer"]
        \/ at'["deployer"] = "idle" /\ cand' = None
    BY <1>1, <2>2, <2>3
  <2>5. \A o \in Gen : at'[o] = "writingRegistry" => at[o] = "writingRegistry"
    BY <1>1, <2>2
  <2>. QED  BY <2>1, <2>4, <2>5, LastsBeside
<1>5. ASSUME NEW s \in Script, Maintain(s) \/ Fail(s) PROVE Lasts'
  BY <1>5, GuardLasts, DeployerLasts DEF Script
<1>. QED  BY <1>1, <1>2, <1>3, <1>4, <1>5, ArmLasts, DeployLasts DEF HotNext, DeployStep, GuardStep

(* What a maintenance committed, and no guard took back, is in the files   *)
(* and in the router (deploy-hot.py:545, 614-632).                         *)
THEOREM LastsInvariance == FairSpec => []Lasts
<1>1. Init => Lasts
  BY LastsInit DEF Init
<1>. QED  BY <1>1, Apart, HotInvariance, LastsNext, PTL DEF FairSpec

-----------------------------------------------------------------------------
(* What a deployment promises.                                             *)

(* Whatever a deployment, a guard or a selection did, and wherever it was  *)
(* killed, each backend that a call, the router, its file, a plan's backup *)
(* or the recovery settings names still runs and is on record              *)
(* (deploy-hot.py:684, 429).                                               *)
THEOREM DeploymentKeepsExposed == FairSpec => []ExposedIsKept
<1>1. Named => ExposedIsKept
  BY DEF Named, Names, ExposedIsKept, Exposed, Keeping
<1>2. Init => Named
  BY NamedInit DEF Init
<1>. QED  BY <1>1, <1>2, NamedNext, Apart, HotInvariance, PTL DEF FairSpec

(* The policy of the router's file changes only within a maintenance that  *)
(* is not decided, the ingress halted and nothing in flight                *)
(* (deploy-hot.py:545, 627).                                               *)
LEMMA PolicyStep ==
  ASSUME HotInv, [HotNext]_hotVars, disk'.policy # disk.policy
  PROVE  "ingress" \in halted /\ call = None /\ \E s \in Script : lock = s /\ plan[PlanOf(s)].state = "armed"
<1>. USE DEF backendVars, trafficVars, planVars
<1>1. HotType /\ Exclusion /\ \A s \in Script : Halting(s)
  BY DEF HotInv
<1>2. ASSUME NEW s \in Script, Maintain(s) \/ Fail(s)
      PROVE  at[s] = "writingPolicy" \/ disk'.policy = disk.policy
  <2>1. \/ at[s] = "writingPolicy"
        \/ disk' \in {disk, [disk EXCEPT !.registry = Files(s).registry]}
    BY <1>2 DEF Maintain, HaltTunnels, HaltIngress, Drain, StopRouter, WritePolicy, WriteRegistry, StartRouter, Settle,
       ResumeIngress, ResumeTunnels, Check, Fail
  <2>. QED  BY <1>1, <2>1 DEF HotType, FilePair
<1>3. ASSUME NEW registry, Serves(registry) PROVE disk'.policy = disk.policy
  BY <1>1, <1>3 DEF Serves, HotType, FilePair
<1>4. ASSUME NEW g \in Gen, Stage(g) \/ Select(g) \/ Fire(g) \/ TakeLock(g) PROVE disk'.policy = disk.policy
  BY <1>3, <1>4 DEF Stage, Select, Fire, TakeLock
<1>5. CallStarts \/ CallEnds \/ Record \/ RecordFails \/ Register \/ Activate \/ ChangeFails \/ Probe \/ Arm \/ ArmFails
        => disk'.policy = disk.policy
  BY <1>3 DEF CallStarts, CallEnds, Record, RecordFails, Register, Activate, ChangeFails, Probe, Arm, ArmFails
<1>6. ASSUME NEW s \in Script, Kill(s) PROVE disk' = disk
  BY <1>6 DEF Kill
<1>7. PICK s \in Script : (Maintain(s) \/ Fail(s)) /\ at[s] = "writingPolicy"
  BY <1>2, <1>4, <1>5, <1>6 DEF HotNext, DeployStep, GuardStep, Script, hotVars
<1>8. lock = s
  BY <1>7, MaintainerAlone DEF Maintaining, Within
<1>. QED  BY <1>1, <1>7, <1>8 DEF Halting, Within

(* Only an undoing that writes the policy takes back what was committed.   *)
LEMMA OverruledStep ==
  ASSUME HotInv, Lasts, [HotNext]_hotVars, overruled' # overruled
  PROVE  lock \in Gen \ {cand} /\ plan[lock].state = "armed"
<1>. USE DEF backendVars, trafficVars, planVars
<1>1. HotType /\ Exclusion /\ \A s \in Script : Halting(s)
  BY DEF HotInv
<1>2. PICK s \in Script : (Maintain(s) \/ Fail(s)) /\ at[s] = "writingPolicy" /\ Overrules(s)
  <2>1. ASSUME NEW s \in Script, Maintain(s) \/ Fail(s) PROVE at[s] = "writingPolicy" /\ Overrules(s)
    BY <2>1 DEF Maintain, HaltTunnels, HaltIngress, Drain, StopRouter, WritePolicy, WriteRegistry, StartRouter, Settle,
       ResumeIngress, ResumeTunnels, Check, Fail
  <2>2. ASSUME NEW g \in Gen, Stage(g) \/ Select(g) \/ Fire(g) \/ TakeLock(g) PROVE FALSE
    BY <2>2 DEF Stage, Select, Fire, TakeLock
  <2>3. CallStarts \/ CallEnds \/ Record \/ RecordFails \/ Register \/ Activate \/ ChangeFails \/ Probe \/ Arm \/ ArmFails => FALSE
    BY DEF CallStarts, CallEnds, Record, RecordFails, Register, Activate, ChangeFails, Probe, Arm, ArmFails
  <2>4. ASSUME NEW s \in Script, Kill(s) PROVE FALSE
    BY <2>4 DEF Kill
  <2>. QED  BY <2>1, <2>2, <2>3, <2>4 DEF HotNext, DeployStep, GuardStep, Script, hotVars
<1>3. lock = s /\ plan[PlanOf(s)].state = "armed" /\ at["deployer"] \in {"idle", "staged", "waiting", "writingPolicy"}
  BY <1>1, <1>2, MaintainerAlone DEF Maintaining, Within, Halting, Script
<1>4. s # "deployer"
  <2>1. ASSUME s = "deployer" PROVE FALSE
    <3>1. Lasting \subseteq plan[cand].backup.registry.generations
      BY <1>2, <1>3, <2>1 DEF Lasts, Ongoing, Within, PlanOf
    <3>2. Restoring(s) => Files(s) = plan[cand].backup
      BY <2>1 DEF Files, PlanOf
    <3>. QED  BY <1>2, <3>1, <3>2 DEF Overrules, Lasting
  <2>. QED  BY <2>1
<1>5. s \in Gen /\ PlanOf(s) = s
  BY <1>4 DEF Script, PlanOf
<1>6. s # cand
  <2>1. CASE at["deployer"] = "idle"
    BY <1>1, <1>3, <1>5, <2>1, DeploymentAssumption DEF Lasts
  <2>2. CASE at["deployer"] = "staged"
    BY <1>1, <1>3, <1>5, <2>2 DEF Exclusion
  <2>. QED  BY <1>1, <1>3, <1>4, <2>1, <2>2 DEF Exclusion, Maintaining, Within
<1>. QED  BY <1>3, <1>5, <1>6

(* So no change of the policy meets traffic: it waits for the ingress to   *)
(* be halted, for calls to end and for its plan to be armed, and what a    *)
(* deployment committed is taken back by no guard but one left over from   *)
(* another (deploy-hot.py:545, 627).                                       *)
THEOREM PolicyAlwaysHolds == FairSpec => PolicyHolds
<1>. DEFINE Holds ==
       /\ disk'.policy # disk.policy =>
            "ingress" \in halted /\ call = None /\ \E s \in Script : lock = s /\ plan[PlanOf(s)].state = "armed"
       /\ overruled' # overruled => lock \in Gen \ {cand} /\ plan[lock].state = "armed"
<1>1. HotInv /\ Lasts /\ [HotNext]_hotVars => [Holds]_hotVars
  BY PolicyStep, OverruledStep
<1>. QED  BY <1>1, Apart, HotInvariance, LastsInvariance, PTL DEF FairSpec, PolicyHolds

-----------------------------------------------------------------------------
(* What the recovery controller promises beside a deployment.              *)

LEMMA RecoveryBeside == FairSpec => []RecoveryInv
<1>1. Init => RecoveryInit
  BY DEF Init
<1>. QED  BY <1>1, Apart, RecoveryInvariance, PTL DEF FairSpec

(* No hour has more restarts of a component than its budget, unless the    *)
(* clock is set back: not if a tick is killed at any step, a save fails or *)
(* the ledger is damaged (recovery.py:48, 342).                            *)
THEOREM BudgetAlwaysRespected == FairSpec => []BudgetRespected
BY RecoveryBeside, BudgetFollows, PTL

(* While fewer steps failed than a new incident needs confirmations, no    *)
(* incident's file stays open for good (recovery.py:344).                  *)
THEOREM IncidentsAlwaysSettle == FairSpec => []IncidentsSettle
BY RecoveryBeside, SettleFollows, PTL
=============================================================================
