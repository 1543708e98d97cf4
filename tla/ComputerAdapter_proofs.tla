------------------------ MODULE ComputerAdapter_proofs ------------------------
(***************************************************************************)
(* Proofs about ComputerAdapter.  Its four parts share no state, so each   *)
(* has an invariant of its own, and a step of one is a stuttering step of  *)
(* the others.                                                             *)
(***************************************************************************)
EXTENDS ComputerAdapter, FiniteSetTheorems, WellFoundedInduction, TLAPS

-----------------------------------------------------------------------------
(* A command on the host.                                                  *)

(* The escalation: before the process there is none, once it is given up   *)
(* or has closed no process of the group is left for it, but for a leader  *)
(* that the last SIGKILL was not allowed to reach.                         *)
Escalated ==
  /\ stage \in {"idle", "staging", "preparing"} =>
       leader = "none" /\ kid = "none" /\ unit = "none" /\ ~terminating /\ timer = "none" /\ flags = {} /\ gaveUp = {}
  /\ timer # "none" => terminating
  /\ "kill" \in gaveUp => mode = "system"
  /\ mode # "plain" => kid = "none"
  /\ timer = "pipe" => (leader = "alive" => "kill" \in gaveUp) /\ kid \notin {"attached", "detached"}
  /\ stage \in {"flushing", "stopping", "removing", "settled"} =>
       /\ leader = "alive" => terminating /\ "kill" \in gaveUp /\ "refused" \in flags
       /\ terminating => kid \notin {"attached", "detached"}

(* What isolation leaves until its finally block.                          *)
Isolated ==
  /\ stage = "idle" => mode = "plain"
  /\ stage \in {"staging", "removing"} => mode = "system"
  /\ stage = "stopping" => mode # "plain"
  /\ mode = "plain" => unit = "none"
  /\ mode # "system" => ~envFile
  /\ stage \in {"removing", "settled"} => (unit = "running" => gaveUp \cap {"kill", "unit"} # {})
  /\ stage = "settled" => (envFile => gaveUp \cap {"env", "staging"} # {})

(* The flags tell what terminated the command, and whether its caller did. *)
Reported ==
  \/ outcome = "error"
  \/ /\ outcome = "CANCELLED" <=> abortedAt \in {"staging", "preparing", "running"}
     /\ outcome = "ok" => leader = "zero" /\ ~terminating
     /\ outcome = "exit" => ~terminating
     /\ outcome \in {"timedOut", "OUTPUT_LIMIT"} => terminating
Told ==
  /\ abortedAt \in {"none", "staging", "preparing", "running", "flushing"}
  /\ stage = "idle" => abortedAt = "none"
  /\ stage \in {"staging", "preparing"} => abortedAt \in {"none", "staging", "preparing"}
  /\ stage = "running" => abortedAt \in {"none", "running"}
  /\ stage = "flushing" => abortedAt \in {"none", "running", "flushing"}
  /\ "cancelled" \in flags <=> abortedAt = "running"
  /\ flags \cap {"timedOut", "exceeded", "cancelled"} # {} => terminating
  /\ terminating => flags \cap {"timedOut", "exceeded", "cancelled", "spool"} # {}
  /\ stage \in {"stopping", "removing", "settled"} => Reported

CommandInv == P!TypeOK /\ Escalated /\ Isolated /\ Told

LEMMA CommandStart == P!Init => CommandInv
BY DEF P!Init, CommandInv, P!TypeOK, P!Flag, Escalated, Isolated, Told

(* Each step keeps the invariant.                                          *)
LEMMA CommandNext == CommandInv /\ P!Next => CommandInv'
<1>. SUFFICES ASSUME CommandInv, P!Next PROVE CommandInv'
  OBVIOUS
<1>0. Mode \subseteq {"plain", "user", "system"}
  BY AdapterAssumption
<1>. USE <1>0 DEF CommandInv, P!TypeOK, P!Flag, P!process, P!clean, P!Refusable, P!Terminate, P!KillGroup, P!SettleClose, P!Afterwards
<1>1. CASE P!Begin
  <2>. USE <1>1 DEF P!Begin
  <2>1. P!TypeOK'
    OBVIOUS
  <2>2. Escalated'
    BY DEF Escalated
  <2>3. Isolated'
    BY DEF Escalated, Isolated
  <2>4. Told'
    BY DEF Escalated, Isolated, Told, Reported
  <2>. QED  BY <2>1, <2>2, <2>3, <2>4
<1>2. CASE P!StageEnvironment
  <2>. USE <1>2 DEF P!StageEnvironment
  <2>1. P!TypeOK'
    <3>1. flags' \subseteq P!Flag /\ gaveUp' \subseteq {"kill", "unit", "env", "staging"}
      OBVIOUS
    <3>2. terminating' \in BOOLEAN /\ timer' \in {"none", "force", "pipe"} /\ envFile' \in BOOLEAN
      OBVIOUS
    <3>. QED  BY <3>1, <3>2
  <2>2. Escalated'
    BY DEF Escalated
  <2>3. Isolated'
    BY DEF Escalated, Isolated
  <2>4. Told'
    BY DEF Escalated, Isolated, Told, Reported
  <2>. QED  BY <2>1, <2>2, <2>3, <2>4
<1>3. CASE P!Spawn
  <2>. USE <1>3 DEF P!Spawn
  <2>1. P!TypeOK'
    <3>1. flags' \subseteq P!Flag /\ gaveUp' \subseteq {"kill", "unit", "env", "staging"}
      OBVIOUS
    <3>2. terminating' \in BOOLEAN /\ timer' \in {"none", "force", "pipe"} /\ envFile' \in BOOLEAN
      OBVIOUS
    <3>. QED  BY <3>1, <3>2
  <2>2. Escalated'
    BY DEF Escalated
  <2>3. Isolated'
    BY DEF Escalated, Isolated
  <2>4. Told'
    BY DEF Escalated, Isolated, Told, Reported
  <2>. QED  BY <2>1, <2>2, <2>3, <2>4
<1>4. CASE P!LeaderExits
  <2>. USE <1>4 DEF P!LeaderExits
  <2>1. P!TypeOK'
    OBVIOUS
  <2>2. Escalated'
    BY DEF Escalated
  <2>3. Isolated'
    BY DEF Escalated, Isolated
  <2>4. Told'
    BY DEF Escalated, Isolated, Told, Reported
  <2>. QED  BY <2>1, <2>2, <2>3, <2>4
<1>5. CASE P!Forks
  <2>. USE <1>5 DEF P!Forks
  <2>1. P!TypeOK'
    OBVIOUS
  <2>2. Escalated'
    BY DEF Escalated
  <2>3. Isolated'
    BY DEF Escalated, Isolated
  <2>4. Told'
    BY DEF Escalated, Isolated, Told, Reported
  <2>. QED  BY <2>1, <2>2, <2>3, <2>4
<1>6. CASE P!KidMoves
  <2>. USE <1>6 DEF P!KidMoves
  <2>1. P!TypeOK'
    OBVIOUS
  <2>2. Escalated'
    BY DEF Escalated
  <2>3. Isolated'
    BY DEF Escalated, Isolated
  <2>4. Told'
    BY DEF Escalated, Isolated, Told, Reported
  <2>. QED  BY <2>1, <2>2, <2>3, <2>4
<1>7. CASE P!UnitMoves
  <2>. USE <1>7 DEF P!UnitMoves
  <2>1. P!TypeOK'
    OBVIOUS
  <2>2. Escalated'
    BY DEF Escalated
  <2>3. Isolated'
    BY DEF Escalated, Isolated
  <2>4. Told'
    BY DEF Escalated, Isolated, Told, Reported
  <2>. QED  BY <2>1, <2>2, <2>3, <2>4
<1>8. CASE P!Deadline
  <2>. USE <1>8 DEF P!Deadline
  <2>1. P!TypeOK'
    <3>1. flags' \subseteq P!Flag /\ gaveUp' \subseteq {"kill", "unit", "env", "staging"}
      OBVIOUS
    <3>2. terminating' \in BOOLEAN /\ timer' \in {"none", "force", "pipe"} /\ envFile' \in BOOLEAN
      OBVIOUS
    <3>. QED  BY <3>1, <3>2
  <2>2. Escalated'
    BY DEF Escalated
  <2>3. Isolated'
    BY DEF Escalated, Isolated
  <2>4. Told'
    BY DEF Escalated, Isolated, Told, Reported
  <2>. QED  BY <2>1, <2>2, <2>3, <2>4
<1>9. CASE P!ForceTimer
  <2>. USE <1>9 DEF P!ForceTimer
  <2>1. P!TypeOK'
    <3>1. flags' \subseteq P!Flag /\ gaveUp' \subseteq {"kill", "unit", "env", "staging"}
      OBVIOUS
    <3>2. UNCHANGED <<mode, terminating, unit, envFile, outcome, abortedAt>> /\ timer' \in {"none", "force", "pipe"}
      OBVIOUS
    <3>3. stage' = stage /\ leader' \in {leader, "killed"} /\ kid' \in {kid, "gone"}
      OBVIOUS
    <3>. QED  BY <3>1, <3>2, <3>3
  <2>2. Escalated'
    BY DEF Escalated
  <2>3. Isolated'
    BY DEF Escalated, Isolated
  <2>4. Told'
    BY DEF Escalated, Isolated, Told, Reported
  <2>. QED  BY <2>1, <2>2, <2>3, <2>4
<1>10. CASE P!PipeTimer
  <2>. USE <1>10 DEF P!PipeTimer
  <2>1. P!TypeOK'
    <3>1. flags' \subseteq P!Flag /\ gaveUp' \subseteq {"kill", "unit", "env", "staging"}
      OBVIOUS
    <3>2. UNCHANGED <<mode, terminating, unit, envFile, outcome, abortedAt>> /\ timer' \in {"none", "force", "pipe"}
      OBVIOUS
    <3>3. /\ stage' \in {stage, "flushing"} /\ leader' \in {leader, "killed"} /\ kid' \in {kid, "gone"}
      OBVIOUS
    <3>. QED  BY <3>1, <3>2, <3>3
  <2>2. Escalated'
    BY DEF Escalated
  <2>3. Isolated'
    BY DEF Escalated, Isolated
  <2>4. Told'
    BY DEF Escalated, Isolated, Told, Reported
  <2>. QED  BY <2>1, <2>2, <2>3, <2>4
<1>11. CASE P!Abort
  <2>. USE <1>11 DEF P!Abort
  <2>1. P!TypeOK'
    <3>1. flags' \subseteq P!Flag /\ gaveUp' \subseteq {"kill", "unit", "env", "staging"}
      OBVIOUS
    <3>2. terminating' \in BOOLEAN /\ timer' \in {"none", "force", "pipe"} /\ envFile' \in BOOLEAN
      OBVIOUS
    <3>. QED  BY <3>1, <3>2
  <2>2. Escalated'
    BY DEF Escalated
  <2>3. Isolated'
    BY DEF Escalated, Isolated
  <2>4. Told'
    BY DEF Escalated, Isolated, Told, Reported
  <2>. QED  BY <2>1, <2>2, <2>3, <2>4
<1>12. CASE P!Overflow
  <2>. USE <1>12 DEF P!Overflow
  <2>1. P!TypeOK'
    <3>1. flags' \subseteq P!Flag /\ gaveUp' \subseteq {"kill", "unit", "env", "staging"}
      OBVIOUS
    <3>2. terminating' \in BOOLEAN /\ timer' \in {"none", "force", "pipe"} /\ envFile' \in BOOLEAN
      OBVIOUS
    <3>. QED  BY <3>1, <3>2
  <2>2. Escalated'
    BY DEF Escalated
  <2>3. Isolated'
    BY DEF Escalated, Isolated
  <2>4. Told'
    BY DEF Escalated, Isolated, Told, Reported
  <2>. QED  BY <2>1, <2>2, <2>3, <2>4
<1>13. CASE P!SpoolFails
  <2>. USE <1>13 DEF P!SpoolFails
  <2>1. P!TypeOK'
    <3>1. flags' \subseteq P!Flag /\ gaveUp' \subseteq {"kill", "unit", "env", "staging"}
      OBVIOUS
    <3>2. terminating' \in BOOLEAN /\ timer' \in {"none", "force", "pipe"} /\ envFile' \in BOOLEAN
      OBVIOUS
    <3>. QED  BY <3>1, <3>2
  <2>2. Escalated'
    BY DEF Escalated
  <2>3. Isolated'
    BY DEF Escalated, Isolated
  <2>4. Told'
    BY DEF Escalated, Isolated, Told, Reported
  <2>. QED  BY <2>1, <2>2, <2>3, <2>4
<1>14. CASE P!StdinFails
  <2>. USE <1>14 DEF P!StdinFails
  <2>1. P!TypeOK'
    OBVIOUS
  <2>2. Escalated'
    BY DEF Escalated
  <2>3. Isolated'
    BY DEF Escalated, Isolated
  <2>4. Told'
    BY DEF Escalated, Isolated, Told, Reported
  <2>. QED  BY <2>1, <2>2, <2>3, <2>4
<1>15. CASE P!Closes
  <2>. USE <1>15 DEF P!Closes
  <2>1. P!TypeOK'
    BY ZenonT(60)
  <2>2. Escalated'
    BY DEF Escalated
  <2>3. Isolated'
    BY DEF Escalated, Isolated
  <2>4. Told'
    BY DEF Escalated, Isolated, Told, Reported
  <2>. QED  BY <2>1, <2>2, <2>3, <2>4
<1>16. CASE P!Report
  <2>. USE <1>16 DEF P!Report
  <2>1. P!TypeOK'
    OBVIOUS
  <2>2. Escalated'
    BY DEF Escalated
  <2>3. Isolated'
    BY DEF Escalated, Isolated
  <2>4. Told'
    BY DEF Escalated, Isolated, Told, Reported
  <2>. QED  BY <2>1, <2>2, <2>3, <2>4
<1>17. CASE P!StopUnit
  <2>. USE <1>17 DEF P!StopUnit
  <2>1. P!TypeOK'
    <3>1. flags' \subseteq P!Flag /\ gaveUp' \subseteq {"kill", "unit", "env", "staging"}
      OBVIOUS
    <3>2. terminating' \in BOOLEAN /\ timer' \in {"none", "force", "pipe"} /\ envFile' \in BOOLEAN
      OBVIOUS
    <3>. QED  BY <3>1, <3>2
  <2>2. Escalated'
    BY DEF Escalated
  <2>3. Isolated'
    BY DEF Escalated, Isolated
  <2>4. Told'
    BY DEF Escalated, Isolated, Told, Reported
  <2>. QED  BY <2>1, <2>2, <2>3, <2>4
<1>18. CASE P!RemoveEnvironment
  <2>. USE <1>18 DEF P!RemoveEnvironment
  <2>1. P!TypeOK'
    <3>1. flags' \subseteq P!Flag /\ gaveUp' \subseteq {"kill", "unit", "env", "staging"}
      OBVIOUS
    <3>2. terminating' \in BOOLEAN /\ timer' \in {"none", "force", "pipe"} /\ envFile' \in BOOLEAN
      OBVIOUS
    <3>. QED  BY <3>1, <3>2
  <2>2. Escalated'
    BY DEF Escalated
  <2>3. Isolated'
    BY DEF Escalated, Isolated
  <2>4. Told'
    BY DEF Escalated, Isolated, Told, Reported
  <2>. QED  BY <2>1, <2>2, <2>3, <2>4
<1>. QED  BY <1>1, <1>2, <1>3, <1>4, <1>5, <1>6, <1>7, <1>8, <1>9, <1>10, <1>11, <1>12, <1>13, <1>14, <1>15, <1>16, <1>17, <1>18
     DEF P!Next, P!TimerStep, P!ProcessStep, P!EventStep, P!CallStep
LEMMA CommandStep == CommandInv /\ [P!Next]_(P!vars) => CommandInv'
<1>. SUFFICES ASSUME CommandInv, UNCHANGED P!vars PROVE CommandInv'
  BY CommandNext
<1>. QED
  BY DEF P!vars, P!process, P!clean, CommandInv, P!TypeOK, Escalated, Isolated, Told, Reported

(* What the invariant says of a command that has returned.                 *)
LEMMA CommandPromises == CommandInv => P!TypeOK /\ P!NothingOutlives /\ P!OutcomeHonest
BY DEF CommandInv, Escalated, Isolated, Told, Reported, P!NothingOutlives, P!OutcomeHonest

-----------------------------------------------------------------------------
(* Remote commands.                                                        *)

(* A pod belongs to a command at work, was abandoned by a backend that     *)
(* died, or has been leaked.                                               *)
Attributed ==
  \A e \in Exec :
    /\ step[e] \in {"idle", "failed", "reap", "create"} => pod[e] = "none"
    /\ step[e] = "done" /\ pod[e] # "none" => e \in leaked

(* What the reap has yet to delete was old when it listed it.              *)
Spared == doomed \subseteq old

RemoteInv == K!TypeOK /\ Attributed /\ Spared

LEMMA RemoteStart == K!Init => RemoteInv
<1>1. MaxReaps \in Nat /\ MaxCrashes \in Nat
  BY AdapterAssumption
<1>. SUFFICES ASSUME K!Init PROVE RemoteInv
  OBVIOUS
<1>2. due \in 0..MaxReaps /\ crashes \in 0..MaxCrashes
  BY <1>1 DEF K!Init
<1>3. stream \in [Exec -> SUBSET {"tar", "remote"}]
  BY DEF K!Init
<1>4. K!TypeOK
  BY <1>2, <1>3 DEF K!Init, K!TypeOK
<1>. QED
  BY <1>4 DEF K!Init, RemoteInv, Attributed, Spared

LEMMA RemoteStep == RemoteInv /\ [K!Next]_(K!vars) => RemoteInv'
<1>. SUFFICES ASSUME RemoteInv, [K!Next]_(K!vars) PROVE RemoteInv'
  OBVIOUS
<1>. USE DEF RemoteInv, K!TypeOK, K!Working, K!pods, K!transfer, K!reaper, K!Moves
<1>0. MaxReaps \in Nat /\ MaxCrashes \in Nat /\ PinnedImage \in BOOLEAN
  BY AdapterAssumption
<1>1. ASSUME NEW e \in Exec, K!Start(e) PROVE RemoteInv'
  BY <1>1 DEF K!Start, Attributed, Spared
<1>2. CASE K!ReapLists
  <2>. USE <1>2 DEF K!ReapLists, K!ReapSettles, K!Expired
  <2>1. K!TypeOK'
    <3>1. CASE reap' = "deleting"
      BY <3>1
    <3>2. CASE reap' = "none"
      BY <3>2
    <3>. QED  BY <3>1, <3>2
  <2>2. Attributed'
    BY DEF Attributed
  <2>3. Spared'
    BY DEF Spared
  <2>. QED  BY <2>1, <2>2, <2>3
<1>3. CASE K!ReapEnds
  BY <1>3 DEF K!ReapEnds, K!ReapSettles, Attributed, Spared
<1>4. ASSUME NEW e \in Exec, K!ReapDeletes(e) PROVE RemoteInv'
  BY <1>4 DEF K!ReapDeletes, Attributed, Spared
<1>5. ASSUME NEW e \in Exec, K!Create(e) PROVE RemoteInv'
  BY <1>5 DEF K!Create, Attributed, Spared
<1>6. ASSUME NEW e \in Exec, K!LateCreate(e) PROVE RemoteInv'
  BY <1>6 DEF K!LateCreate, Attributed, Spared
<1>7. ASSUME NEW e \in Exec, K!Ready(e) PROVE RemoteInv'
  BY <1>7 DEF K!Ready, Attributed, Spared
<1>8. ASSUME NEW e \in Exec, K!StreamBreaks(e) PROVE RemoteInv'
  BY <1>8 DEF K!StreamBreaks, Attributed, Spared
<1>9. ASSUME NEW e \in Exec, NEW c \in {"tar", "remote"}, K!StreamCloses(e, c) PROVE RemoteInv'
  BY <1>9 DEF K!StreamCloses, Attributed, Spared
<1>10. ASSUME NEW e \in Exec, K!Transferred(e) PROVE RemoteInv'
  BY <1>10 DEF K!Transferred, Attributed, Spared
<1>11. ASSUME NEW e \in Exec, K!VerifyParity(e) PROVE RemoteInv'
  BY <1>0, <1>11 DEF K!VerifyParity, Attributed, Spared
<1>12. ASSUME NEW e \in Exec, K!Prepare(e) PROVE RemoteInv'
  BY <1>12 DEF K!Prepare, Attributed, Spared
<1>13. ASSUME NEW e \in Exec, K!Run(e) PROVE RemoteInv'
  BY <1>13 DEF K!Run, Attributed, Spared
<1>14. ASSUME NEW e \in Exec, K!Cleanup(e) PROVE RemoteInv'
  BY <1>14 DEF K!Cleanup, Attributed, Spared
<1>15. ASSUME NEW e \in Exec, K!Abort(e) PROVE RemoteInv'
  BY <1>15 DEF K!Abort, Attributed, Spared
<1>16. ASSUME NEW e \in Exec, K!Ages(e) PROVE RemoteInv'
  BY <1>16 DEF K!Ages, Attributed, Spared
<1>17. CASE K!ReapDue
  <2>1. due' \in 0..MaxReaps
    BY <1>0, <1>17 DEF K!ReapDue
  <2>. QED  BY <1>17, <2>1 DEF K!ReapDue, Attributed, Spared
<1>18. CASE K!Crash
  <2>1. crashes' \in 0..MaxCrashes
    BY <1>0, <1>18 DEF K!Crash
  <2>2. K!TypeOK'
    BY <1>18, <2>1 DEF K!Crash
  <2>. QED  BY <1>18, <2>2 DEF K!Crash, Attributed, Spared
<1>19. CASE UNCHANGED K!vars
  BY <1>19 DEF K!vars, Attributed, Spared
<1>. QED
  BY <1>1, <1>2, <1>3, <1>4, <1>5, <1>6, <1>7, <1>8, <1>9, <1>10, <1>11, <1>12, <1>13, <1>14, <1>15, <1>16, <1>17, <1>18, <1>19
  DEF K!Next, K!ReapStep, K!CommandStep, K!StreamStep, K!WorldStep

LEMMA RemotePromises == RemoteInv => K!TypeOK /\ K!PodsAccounted
BY DEF RemoteInv, K!TypeOK, K!Working, Attributed, K!PodsAccounted

(* A pod disappears by its own command's cleanup or by the reap.           *)
LEMMA RemoteSpares ==
  ASSUME RemoteInv, [K!Next]_(K!vars), NEW e \in Exec,
         pod[e] = "up", pod'[e] = "none", step[e] \in K!Working \ {"cleanup"}
  PROVE  e \in doomed \cap old
<1>. USE DEF RemoteInv, K!TypeOK, K!Working, K!pods, K!Moves
<1>1. doomed \subseteq old /\ step[e] # "create"
  BY DEF Spared, Attributed
<1>2. CASE \E d \in Exec : K!Create(d)
  <2>1. PICK d \in Exec : K!Create(d)
    BY <1>2
  <2>2. d # e
    BY <1>1, <2>1 DEF K!Create
  <2>. QED  BY <2>1, <2>2 DEF K!Create
<1>3. CASE \E d \in Exec : K!ReapDeletes(d)
  BY <1>1, <1>3 DEF K!ReapDeletes
<1>4. CASE \E d \in Exec : K!LateCreate(d)
  BY <1>4 DEF K!LateCreate
<1>5. CASE \E d \in Exec : K!Cleanup(d)
  BY <1>5 DEF K!Cleanup
<1>6. CASE UNCHANGED pod
  BY <1>6
<1>7. \/ UNCHANGED pod
      \/ \E d \in Exec : K!Create(d) \/ K!ReapDeletes(d) \/ K!LateCreate(d) \/ K!Cleanup(d)
  BY DEF K!Next, K!ReapStep, K!CommandStep, K!StreamStep, K!WorldStep, K!vars, K!Start, K!ReapLists, K!ReapEnds,
         K!Ready, K!StreamBreaks, K!StreamCloses, K!Transferred, K!VerifyParity, K!Prepare, K!Run, K!Abort, K!Ages,
         K!ReapDue, K!Crash
<1>. QED  BY <1>2, <1>3, <1>4, <1>5, <1>6, <1>7

-----------------------------------------------------------------------------
(* Applications and recordings.                                            *)

(* OwnedResources counts with the same operator.                           *)
LEMMA SameCount == ASSUME NEW S PROVE O!Cardinality(S) = Cardinality(S)
BY DEF O!Cardinality, Cardinality

Kept ==
  \A r \in O!Res :
    /\ child[r] = "live" => place[r] \in {"spawning", "tracked", "closing"}
    /\ place[r] \in {"none", "checked"} => child[r] = "none"

(* A launch in flight takes its place before it is in a map.               *)
Busy(L) == {r \in L : place[r] \in {"checked", "spawning", "tracked", "closing"}}
Limited(L) == IsFiniteSet(Busy(L)) /\ Cardinality(Busy(L) \ raced) <= MaxTracked

OwnedInv == O!TypeOK /\ Kept /\ \A L \in {App, Rec} : Limited(L)

LEMMA OwnedStart == O!Init => OwnedInv
<1>. SUFFICES ASSUME O!Init PROVE OwnedInv
  OBVIOUS
<1>1. O!TypeOK /\ Kept
  BY DEF O!Init, O!TypeOK, O!Res, O!Map, Kept
<1>2. ASSUME NEW L \in {App, Rec} PROVE Limited(L)
  <2>1. Busy(L) = {}
    BY DEF O!Init, O!Res, Busy
  <2>. QED  BY <2>1, FS_EmptySet, AdapterAssumption DEF Limited, O!Init
<1>. QED  BY <1>1, <1>2 DEF OwnedInv

(* What leaves the maps, or was launched late, keeps the limit.            *)
LEMMA FewerStayLimited ==
  ASSUME NEW L, Limited(L), Busy(L)' \subseteq Busy(L), raced \subseteq raced'
  PROVE  Limited(L)'
<1>1. Busy(L)' \ raced' \subseteq Busy(L) \ raced
  OBVIOUS
<1>2. IsFiniteSet(Busy(L)') /\ IsFiniteSet(Busy(L) \ raced)
  BY FS_Subset, FS_Difference DEF Limited
<1>3. Cardinality(Busy(L)' \ raced') <= Cardinality(Busy(L) \ raced)
  BY <1>1, <1>2, FS_Subset
<1>4. /\ Cardinality(Busy(L)' \ raced') \in Nat /\ Cardinality(Busy(L) \ raced) \in Nat
      /\ MaxTracked \in Nat
  BY <1>1, <1>2, FS_Subset, FS_CardinalityType, AdapterAssumption
<1>. QED  BY <1>2, <1>3, <1>4 DEF Limited

LEMMA LaunchIsTyped == ASSUME OwnedInv, NEW r \in O!Res, O!Launch(r) PROVE O!TypeOK' /\ Kept'
<1>. USE DEF OwnedInv, O!TypeOK, O!Res, O!Map
<1>1. PICK kept : kept = IF r \in App THEN O!Pruned ELSE place
  OBVIOUS
<1>2. /\ kept \in [App \cup Rec -> {"none", "checked", "spawning", "gone", "tracked", "closing"}]
      /\ \A q \in O!Res : kept[q] = place[q] \/ (kept[q] = "gone" /\ child[q] = "exited")
  BY <1>1 DEF O!Pruned
<1>3. PICK p \in {"gone", "checked", "spawning"} : place' = [kept EXCEPT ![r] = p]
  BY <1>1 DEF O!Launch
<1>4. child[r] = "none" /\ UNCHANGED <<child, target, escalation>>
  BY DEF O!Launch, Kept
<1>5. raced' \subseteq O!Res
  BY DEF O!Launch, O!InFlight, O!Kind
<1>6. place' \in [App \cup Rec -> {"none", "checked", "spawning", "gone", "tracked", "closing"}]
  BY <1>2, <1>3
<1>7. Kept'
  BY <1>2, <1>3, <1>4 DEF Kept
<1>. QED  BY <1>4, <1>5, <1>6, <1>7

(* A launch that overlaps no other finds room for itself; of those that    *)
(* overlap none counts any more.                                           *)
LEMMA LaunchIsLimited ==
  ASSUME OwnedInv, NEW r \in O!Res, O!Launch(r), NEW L \in {App, Rec} PROVE Limited(L)'
<1>. USE DEF OwnedInv, O!TypeOK, O!Res, O!Map
<1>. DEFINE kept == IF r \in App THEN O!Pruned ELSE place
            tracked == {q \in O!Kind(r) : kept[q] \in O!Map}
<1>2. /\ kept \in [App \cup Rec -> {"none", "checked", "spawning", "gone", "tracked", "closing"}]
      /\ \A q \in O!Res : kept[q] = place[q] \/ kept[q] = "gone"
  BY DEF O!Pruned
<1>0. place' = [kept EXCEPT ![r] = IF O!Cardinality(tracked) >= MaxTracked THEN "gone"
                                   ELSE IF r \in Rec THEN "checked" ELSE "spawning"]
  BY DEF O!Launch
<1>3. tracked = {q \in O!Kind(r) : kept[q] \in O!Map}
  OBVIOUS
<1>. HIDE DEF kept, tracked
<1>1. place' = [kept EXCEPT ![r] = IF Cardinality(tracked) >= MaxTracked THEN "gone"
                                   ELSE IF r \in Rec THEN "checked" ELSE "spawning"]
  BY <1>0, SameCount
<1>4. raced \subseteq raced'
  BY DEF O!Launch
<1>5. CASE Cardinality(tracked) >= MaxTracked \/ L # O!Kind(r)
  <2>1. Busy(L)' \subseteq Busy(L)
    <3>1. CASE L # O!Kind(r)
      <4>1. r \notin L
        BY <3>1, AdapterAssumption DEF O!Kind
      <4>2. \A q \in L : place'[q] = kept[q]
        BY <1>1, <1>2, <4>1
      <4>. QED  BY <1>2, <4>2 DEF Busy
    <3>2. CASE Cardinality(tracked) >= MaxTracked
      <4>1. place' = [kept EXCEPT ![r] = "gone"]
        BY <1>1, <3>2
      <4>. QED  BY <1>2, <4>1 DEF Busy
    <3>. QED  BY <1>5, <3>1, <3>2
  <2>. QED  BY <1>4, <2>1, FewerStayLimited
<1>6. CASE ~(Cardinality(tracked) >= MaxTracked) /\ L = O!Kind(r)
  <2>1. \A q \in L : q # r => place'[q] = kept[q]
    BY <1>1, <1>2
  <2>2. tracked \subseteq Busy(L) /\ Busy(L)' \subseteq Busy(L) \cup {r}
    BY <1>2, <1>3, <1>6, <2>1 DEF Busy
  <2>3. Busy(L)' \ raced' \subseteq tracked \cup {r}
    <3>1. CASE O!InFlight(L) = {}
      BY <1>2, <1>3, <1>6, <2>1, <3>1 DEF Busy, O!InFlight
    <3>2. CASE O!InFlight(L) # {}
      <4>1. O!InFlight(L) \subseteq raced'
        BY <1>6, <3>2 DEF O!Launch
      <4>. QED  BY <1>2, <1>3, <1>6, <2>1, <4>1 DEF Busy, O!InFlight
    <3>. QED  BY <3>1, <3>2
  <2>4. IsFiniteSet(tracked) /\ IsFiniteSet(Busy(L) \cup {r})
    BY <2>2, FS_Subset, FS_AddElement DEF Limited
  <2>5. IsFiniteSet(tracked \cup {r}) /\ Cardinality(tracked \cup {r}) <= Cardinality(tracked) + 1
    <3>1. Cardinality(tracked) \in Nat
      BY <2>4, FS_CardinalityType
    <3>2. CASE r \in tracked
      <4>1. tracked \cup {r} = tracked
        BY <3>2
      <4>2. Cardinality(tracked \cup {r}) = Cardinality(tracked) /\ IsFiniteSet(tracked \cup {r})
        BY <2>4, <4>1, Zenon
      <4>. QED  BY <3>1, <4>2
    <3>3. CASE r \notin tracked
      <4>1. Cardinality(tracked \cup {r}) = Cardinality(tracked) + 1 /\ IsFiniteSet(tracked \cup {r})
        BY <2>4, <3>3, FS_AddElement, Zenon
      <4>. QED  BY <3>1, <4>1
    <3>. QED  BY <3>2, <3>3
  <2>6. /\ IsFiniteSet(Busy(L)')
        /\ Cardinality(Busy(L)' \ raced') <= Cardinality(tracked \cup {r})
    BY <2>2, <2>3, <2>4, <2>5, FS_Subset
  <2>7. /\ Cardinality(tracked) \in Nat /\ Cardinality(tracked \cup {r}) \in Nat /\ MaxTracked \in Nat
        /\ Cardinality(Busy(L)' \ raced') \in Nat
    BY <2>3, <2>4, <2>5, FS_Subset, FS_CardinalityType, AdapterAssumption
  <2>. QED  BY <1>6, <2>5, <2>6, <2>7 DEF Limited
<1>. QED  BY <1>5, <1>6

LEMMA OwnedStep == OwnedInv /\ [O!Next]_(O!vars) => OwnedInv'
<1>. SUFFICES ASSUME OwnedInv, [O!Next]_(O!vars) PROVE OwnedInv'
  OBVIOUS
<1>1. CASE \E r \in O!Res : O!Launch(r)
  BY <1>1, LaunchIsTyped, LaunchIsLimited DEF OwnedInv
<1>2. ASSUME O!TypeOK', Kept', raced \subseteq raced',
             \A q \in O!Res : place'[q] \in {"none", "gone", place[q]} \/ place[q] \in O!Map \cup {"checked", "spawning"}
      PROVE  OwnedInv'
  BY <1>2, FewerStayLimited DEF OwnedInv, O!TypeOK, O!Res, O!Map, Busy
<1>3. CASE O!Prune
  BY <1>2, <1>3 DEF O!Prune, O!Pruned, OwnedInv, O!TypeOK, O!Res, O!Map, Kept
<1>4. ASSUME NEW r \in O!Res, O!CheckPath(r) \/ O!Spawn(r) \/ O!Track(r) PROVE OwnedInv'
  BY <1>2, <1>4 DEF O!CheckPath, O!Spawn, O!Track, O!Moves, OwnedInv, O!TypeOK, O!Res, O!Map, Kept
<1>5. ASSUME NEW r \in O!Res, O!Exits(r) \/ O!CloseApplication(r) PROVE OwnedInv'
  BY <1>2, <1>5 DEF O!Exits, O!CloseApplication, O!Moves, OwnedInv, O!TypeOK, O!Res, O!Map, Kept
<1>6. ASSUME NEW s \in Stopper, NEW r \in Rec, O!Stop(s, r) PROVE OwnedInv'
  BY <1>2, <1>6 DEF O!Stop, OwnedInv, O!TypeOK, O!Res, O!Map, Kept
<1>7. ASSUME NEW s \in Stopper, O!Waited(s) PROVE OwnedInv'
  BY <1>2, <1>7 DEF O!Waited, O!After, OwnedInv, O!TypeOK, O!Res, O!Map, Kept
<1>8. ASSUME NEW s \in Stopper, O!Settle(s) PROVE OwnedInv'
  BY <1>2, <1>8 DEF O!Settle, O!Moves, OwnedInv, O!TypeOK, O!Res, O!Map, Kept
<1>9. CASE UNCHANGED O!vars
  BY <1>2, <1>9 DEF O!vars, OwnedInv, O!TypeOK, O!Res, O!Map, Kept
<1>. QED
  BY <1>1, <1>3, <1>4, <1>5, <1>6, <1>7, <1>8, <1>9 DEF O!Next, O!LaunchStep

LEMMA OwnedPromises == OwnedInv => O!TypeOK /\ O!LiveIsOwned /\ O!LimitUnlessRaced
<1>. SUFFICES ASSUME OwnedInv PROVE O!LiveIsOwned /\ O!LimitUnlessRaced
  BY DEF OwnedInv
<1>1. O!LiveIsOwned
  BY DEF OwnedInv, Kept, O!LiveIsOwned, O!Owned, O!Kind, O!Res, O!Map
<1>2. ASSUME NEW L \in {App, Rec} PROVE Cardinality(O!Owned(L) \ raced) <= MaxTracked
  <2>1. Limited(L)
    BY DEF OwnedInv
  <2>2. O!Owned(L) \ raced \subseteq Busy(L) \ raced /\ IsFiniteSet(Busy(L) \ raced)
    BY <2>1, FS_Difference DEF O!Owned, O!Map, Busy, Limited
  <2>3. /\ Cardinality(O!Owned(L) \ raced) <= Cardinality(Busy(L) \ raced)
        /\ Cardinality(O!Owned(L) \ raced) \in Nat /\ Cardinality(Busy(L) \ raced) \in Nat /\ MaxTracked \in Nat
    BY <2>2, FS_Subset, FS_CardinalityType, AdapterAssumption
  <2>4. Cardinality(Busy(L) \ raced) <= MaxTracked
    BY <2>1 DEF Limited
  <2>. QED  BY <2>3, <2>4
<1>. QED  BY <1>1, <1>2, SameCount DEF O!LimitUnlessRaced

-----------------------------------------------------------------------------
(* Files.                                                                  *)

(* The entries of frozen directories that are in place and that no other   *)
(* program has changed.                                                    *)
Shielded == {p \in Path \ meddled : \E d \in Frozen \ uprooted : F!Lowest(d, p, Path)}
Original(p) == InitialFile[p] # F!Absent

(* A call that was checked makes no entry of such a directory appear or    *)
(* disappear, and concerns no such directory itself.                       *)
SafeEdit(e) ==
  /\ edit[e].tool \in {"create", "overwrite", "mkdir"} =>
       \A p \in {edit[e].path} \cup Above[edit[e].path] : p \in Shielded => Original(p)
  /\ edit[e].tool \in {"move", "delete"} => {edit[e].path, edit[e].to} \cap (Shielded \cup Frozen) = {}

(* An entry is there only in directories that are.                         *)
Grown == \A p \in Path : file[p] # F!Absent => \A a \in Above[p] : file[a] = F!Dir

(* A frozen directory is there until it goes with one above it; till then  *)
(* it holds what it held at the start, and no call that was checked will   *)
(* change that.                                                            *)
Shield ==
  /\ Grown
  /\ \A d \in Frozen \ uprooted : file[d] = F!Dir
  /\ \A p \in Shielded : file[p] # F!Absent <=> Original(p)
  /\ \A e \in Editor : SafeEdit(e)
  /\ \A c \in Replacer : rpath[c] # None => rpath[c] \notin Shielded

(* The replacements of one path in the order they came: each but the first *)
(* waits for the one before it, and the lock names the last.               *)
Active(p) == {c \in Replacer : rstep[c] \notin {"idle", "done"} /\ rpath[c] = p}
Waits(c)  == prior[c] # None /\ rstep[prior[c]] # "done"
Queue(p, ord) ==
  /\ locks[p] = None <=> Active(p) = {}
  /\ locks[p] # None => locks[p] \in Active(p)
  /\ \A c \in Active(p) : Waits(c) =>
       prior[c] \in Active(p) /\ ord[prior[c]] < ord[c] /\ rstep[c] = "queued"
  /\ \A c, d \in Active(p) : c # d =>
       /\ ord[c] # ord[d]
       /\ c = locks[p] => ord[d] < ord[c]
       /\ ~Waits(c) => ord[c] < ord[d]
       /\ Waits(c) /\ ord[d] < ord[c] => d = prior[c] \/ ord[d] < ord[prior[c]]
Queued == \E ord \in [Replacer -> Nat] : \A p \in Path : Queue(p, ord)

(* What a replacement knows of the file it opened.                         *)
Known ==
  \A c \in Replacer :
    /\ rstep[c] \notin {"idle", "done"} <=> rpath[c] # None
    /\ c \in fresh => rstep[c] \in {"opened", "staged", "checked"} /\ file[rpath[c]] = seen[c]
    /\ rstep[c] \in {"staged", "checked"} =>
         IF seen[c] = F!Absent THEN expect[c] = F!Absent ELSE c \in fresh => expect[c] = seen[c]
    /\ rstep[c] = "checked" => seen[c] # F!Absent /\ c \in fresh \cup foreign

FilesInv == F!TypeOK /\ Shield /\ Queued /\ Known

(* The steps that end a replacement.                                       *)
Ending(c) == F!Link(c) \/ F!Rename(c) \/ F!ReplaceFails(c)

LEMMA FilesTyped == F!TypeOK /\ Known /\ [F!Next]_(F!vars) => F!TypeOK'
<1>. SUFFICES ASSUME F!TypeOK, Known, [F!Next]_(F!vars) PROVE F!TypeOK'
  OBVIOUS
<1>. USE DEF F!TypeOK, F!replacing, F!Absent, F!Dir
<1>1. MaxEdits \in Nat /\ Target \subseteq Path
  BY AdapterAssumption
<1>2. ASSUME NEW e \in Editor, F!Check(e) PROVE F!TypeOK'
  <2>1. PICK t \in F!Tool, p \in Path, q \in Path : edit' = [edit EXCEPT ![e] = [tool |-> t, path |-> p, to |-> q]]
    BY <1>2 DEF F!Check
  <2>2. edit' \in [Editor -> {F!NoCall} \cup [tool : F!Tool, path : Path, to : Path]]
    BY <2>1
  <2>3. edits' \in 0..MaxEdits
    BY <1>1, <1>2 DEF F!Check
  <2>. QED  BY <1>2, <2>2, <2>3 DEF F!Check
<1>3. ASSUME NEW e \in Editor, NEW tool, F!Ends(e, tool) PROVE edit' \in [Editor -> {F!NoCall} \cup [tool : F!Tool, path : Path, to : Path]]
  BY <1>3 DEF F!Ends
<1>4. ASSUME NEW e \in Editor, F!WriteFile(e) PROVE F!TypeOK'
  <2>1. file' \in [Path -> Content \cup {F!Absent, F!Dir}]
    BY <1>4 DEF F!WriteFile
  <2>2. UNCHANGED <<F!replacing, edits, meddled>>
    BY <1>4 DEF F!WriteFile, F!Ends
  <2>. QED  BY <1>3, <1>4, <2>1, <2>2 DEF F!WriteFile, F!Disturbs
<1>5. ASSUME NEW e \in Editor, F!MakeDirectory(e) PROVE F!TypeOK'
  <2>1. file' \in [Path -> Content \cup {F!Absent, F!Dir}]
    BY <1>5 DEF F!MakeDirectory
  <2>2. UNCHANGED <<F!replacing, edits, meddled>>
    BY <1>5 DEF F!MakeDirectory, F!Ends
  <2>. QED  BY <1>3, <1>5, <2>1, <2>2 DEF F!MakeDirectory, F!Disturbs
<1>6. ASSUME NEW e \in Editor, F!MovePath(e) \/ F!DeletePath(e) PROVE F!TypeOK'
  <2>1. edit[e].path \in Path
    BY <1>6 DEF F!MovePath, F!DeletePath, F!Ends, F!NoCall
  <2>2. file' \in [Path -> Content \cup {F!Absent, F!Dir}]
    BY <1>6, <2>1 DEF F!MovePath, F!DeletePath
  <2>3. UNCHANGED <<F!replacing, edits, meddled>> /\ uprooted' \subseteq Frozen
    BY <1>6 DEF F!MovePath, F!DeletePath, F!Ends, F!Uproots
  <2>4. fresh' \subseteq Replacer /\ foreign' \subseteq Replacer
    BY <1>6 DEF F!MovePath, F!DeletePath, F!Disturbs
  <2>5. edit' \in [Editor -> {F!NoCall} \cup [tool : F!Tool, path : Path, to : Path]]
    BY <1>3, <1>6 DEF F!MovePath, F!DeletePath
  <2>. QED  BY <2>2, <2>3, <2>4, <2>5
<1>8. ASSUME NEW e \in Editor, F!EditFails(e) PROVE F!TypeOK'
  BY <1>3, <1>8 DEF F!EditFails, F!Ends
<1>9. ASSUME NEW p \in Path, F!External(p) PROVE F!TypeOK'
  BY <1>9 DEF F!External, F!Disturbs
<1>10. ASSUME NEW c \in Replacer, NEW p \in Target, NEW x \in Content \cup {F!Absent}, F!Replace(c, p, x) PROVE F!TypeOK'
  BY <1>1, <1>10 DEF F!Replace
<1>11. ASSUME NEW c \in Replacer, F!Open(c) PROVE F!TypeOK'
  <2>1. rpath[c] \in Path
    BY <1>11 DEF F!Open, Known
  <2>2. seen' \in [Replacer -> Content \cup {F!Absent}]
    BY <1>11, <2>1 DEF F!Open
  <2>. QED  BY <1>11, <2>2 DEF F!Open
<1>12. ASSUME NEW c \in Replacer, F!Stage(c) \/ F!Recheck(c) PROVE F!TypeOK'
  BY <1>12 DEF F!Stage, F!Recheck
<1>13. ASSUME NEW c \in Replacer, F!Release(c), file' \in [Path -> Content \cup {F!Absent, F!Dir}], fresh' \subseteq fresh PROVE F!TypeOK'
  BY <1>13 DEF F!Release
<1>14. ASSUME NEW c \in Replacer, Ending(c) PROVE F!TypeOK'
  <2>1. CASE F!PutInPlace(c)
    <3>1. file' \in [Path -> Content \cup {F!Absent, F!Dir}] /\ fresh' \subseteq fresh
      BY <2>1 DEF F!PutInPlace
    <3>. QED  BY <1>13, <2>1, <3>1 DEF F!PutInPlace
  <2>2. CASE F!ReplaceFails(c)
    BY <1>13, <2>2 DEF F!ReplaceFails
  <2>. QED  BY <1>14, <2>1, <2>2 DEF Ending, F!Link, F!Rename
<1>15. CASE UNCHANGED F!vars
  BY <1>15 DEF F!vars
<1>. QED
  BY <1>2, <1>4, <1>5, <1>6, <1>8, <1>9, <1>10, <1>11, <1>12, <1>14, <1>15 DEF F!Next, F!EditStep, F!ReplaceStep, Ending

(* Every step keeps the shield.                                            *)
LEMMA ShieldStep == F!TypeOK /\ Shield /\ Known /\ [F!Next]_(F!vars) => Shield'
<1>. SUFFICES ASSUME F!TypeOK, Shield, Known, [F!Next]_(F!vars) PROVE Shield'
  OBVIOUS
<1>. USE AdapterAssumption DEF F!TypeOK
<1>1. F!Absent \notin Content /\ F!Dir \notin Content /\ F!Absent # F!Dir
  BY DEF F!Absent, F!Dir
<1>2. \A p \in Path : p \notin Above[p]
  OBVIOUS
(* An entry of a frozen directory can come only where it was at the start. *)
<1>3. ASSUME NEW p \in Path, F!CreationAllowed(p), NEW r \in {p} \cup Above[p], r \in Shielded PROVE Original(r)
  <2>1. CASE F!Exists(p)
    <3>1. file[r] # F!Absent
      BY <1>1, <2>1 DEF F!Exists, Shield, Grown
    <3>. QED  BY <1>3, <3>1 DEF Shield
  <2>2. CASE ~F!Exists(p) /\ file[r] = F!Absent
    <3>1. PICK d \in Frozen \ uprooted : F!Lowest(d, r, Path)
      BY <1>3 DEF Shielded
    <3>2. file[d] = F!Dir /\ d \in Above[r] /\ d \in Path /\ r \in Path /\ \A a \in Above[r] : d \notin Above[a]
      BY <3>1 DEF Shield, F!Lowest
    <3>3. d \in Above[p] /\ F!Exists(d)
      BY <1>1, <3>2 DEF F!Exists
    <3>4. ASSUME NEW a \in Above[p], F!Exists(a), d \in Above[a] PROVE FALSE
      <4>1. a \in Path /\ a # r /\ a \notin Above[r]
        BY <2>2, <3>2, <3>4 DEF F!Exists
      <4>2. r \in Above[a]
        BY <3>4, <4>1
      <4>. QED  BY <1>1, <2>2, <3>4, <4>1, <4>2 DEF F!Exists, Shield, Grown
    <3>5. F!InFrozen(p, {a \in Path : F!Exists(a)})
      BY <3>2, <3>3, <3>4 DEF F!InFrozen, F!Lowest
    <3>. QED  BY <1>3, <2>2, <3>5 DEF F!CreationAllowed
  <2>. QED  BY <1>1, <1>3, <2>1, <2>2 DEF Shield, Grown, F!Exists
<1>4. ASSUME NEW p \in Path, F!MutationAllowed(p) PROVE p \notin Shielded \cup Frozen
  <2>1. ASSUME p \in Shielded PROVE FALSE
    <3>1. PICK d \in Frozen \ uprooted : F!Lowest(d, p, Path)
      BY <2>1 DEF Shielded
    <3>2. file[d] = F!Dir /\ d \in Above[p] /\ d \in Path /\ \A a \in Above[p] : d \notin Above[a]
      BY <3>1 DEF Shield, F!Lowest
    <3>3. ASSUME NEW a \in Above[p] PROVE F!IsDir(a)
      BY <1>1, <3>2, <3>3 DEF Shield, Grown, F!IsDir
    <3>. QED  BY <1>4, <3>1, <3>3 DEF F!MutationAllowed, F!Reachable, F!InFrozen
  <2>. QED  BY <1>4, <2>1 DEF F!MutationAllowed
(* An entry that a step makes was there at the start or is in no such      *)
(* directory, and one that it removes is in none.                          *)
<1>5. ASSUME NEW changed \in SUBSET Path, Grown',
             \A p \in Path \ changed : file'[p] = file[p],
             \A p \in changed \cap Shielded' : file'[p] # F!Absent /\ Original(p),
             \A d \in Frozen \ uprooted' : file'[d] = F!Dir,
             meddled \subseteq meddled', uprooted \subseteq uprooted',
             \A e \in Editor : edit'[e] \in {F!NoCall, edit[e]},
             \A c \in Replacer : rpath'[c] \in {None, rpath[c]}
      PROVE  Shield'
  <2>1. Shielded' \subseteq Shielded
    BY <1>5 DEF Shielded
  <2>2. \A e \in Editor : SafeEdit(e)'
    BY <1>5, <2>1 DEF Shield, SafeEdit, F!NoCall, Original
  <2>3. \A p \in Shielded' : file'[p] # F!Absent <=> Original(p)
    BY <1>5, <2>1 DEF Shield, Shielded
  <2>. QED  BY <1>5, <2>1, <2>2, <2>3 DEF Shield, Original
<1>6. ASSUME NEW e \in Editor, NEW t, F!Ends(e, t), t # "none"
      PROVE  /\ UNCHANGED <<rpath, meddled>> /\ \A d \in Editor : edit'[d] \in {F!NoCall, edit[d]}
             /\ edit[e].path \in Path /\ edit[e].to \in Path
  BY <1>6 DEF F!Ends, F!NoCall, F!replacing
(* A file comes or is replaced, or a file goes.                            *)
<1>7. ASSUME NEW p \in Path, NEW x \in Content \cup {F!Absent}, file' = [file EXCEPT ![p] = x],
             file[p] # F!Dir, F!Reachable(p), UNCHANGED uprooted
      PROVE  Grown' /\ \A d \in Frozen \ uprooted' : file'[d] = F!Dir
  <2>1. \A q \in Path \ {p} : file'[q] = file[q]
    BY <1>7
  <2>2. \A q \in Path : file[q] # F!Absent => p \notin Above[q]
    BY <1>7 DEF Shield, Grown
  <2>3. \A a \in Above[p] : file'[a] = F!Dir
    BY <1>7, <2>1 DEF F!Reachable, F!IsDir
  <2>4. Grown'
    BY <2>1, <2>2, <2>3 DEF Shield, Grown
  <2>. QED  BY <1>7, <2>1, <2>4 DEF Shield
<1>8. ASSUME NEW e \in Editor, F!Check(e) PROVE Shield'
  <2>1. PICK t \in F!Tool, p \in Path, q \in Path :
          F!Allowed(t, p, q) /\ edit' = [edit EXCEPT ![e] = [tool |-> t, path |-> p, to |-> q]]
    BY <1>8 DEF F!Check
  <2>2. t \in {"move", "delete"} => {p, q} \cap (Shielded \cup Frozen) = {}
    BY <1>4, <2>1 DEF F!Allowed
  <2>3. t \in {"create", "overwrite", "mkdir"} => \A r \in {p} \cup Above[p] : r \in Shielded => Original(r)
    BY <1>3, <2>1 DEF F!Allowed
  <2>4. edit'[e].tool = t /\ edit'[e].path = p /\ edit'[e].to = q /\ \A d \in Editor \ {e} : edit'[d] = edit[d]
    BY <2>1
  <2>5. UNCHANGED <<file, rpath, meddled, uprooted>>
    BY <1>8 DEF F!Check, F!replacing
  <2>6. UNCHANGED Shielded
    BY <2>5 DEF Shielded
  <2>7. SafeEdit(e)'
    BY <2>2, <2>3, <2>4, <2>6 DEF SafeEdit, Original
  <2>8. \A d \in Editor \ {e} : SafeEdit(d)'
    BY <2>4, <2>6 DEF Shield, SafeEdit, Original
  <2>. QED  BY <2>5, <2>6, <2>7, <2>8 DEF Shield, Grown, Original
<1>9. ASSUME NEW e \in Editor, F!WriteFile(e) PROVE Shield'
  <2>1. PICK p \in Path : p = edit[e].path
    BY <1>6, <1>9 DEF F!WriteFile
  <2>2. PICK x \in Content : file' = [file EXCEPT ![p] = x]
    BY <1>9, <2>1 DEF F!WriteFile
  <2>3. file[p] # F!Dir /\ F!Reachable(p) /\ UNCHANGED <<uprooted, meddled, rpath>>
    BY <1>1, <1>6, <1>9, <2>1 DEF F!WriteFile, F!Exists, F!IsDir
  <2>4. \A q \in {p} \cap Shielded' : file'[q] # F!Absent /\ Original(q)
    BY <1>1, <1>9, <2>1, <2>2, <2>3 DEF F!WriteFile, F!Ends, Shield, SafeEdit, Shielded
  <2>5. Grown' /\ \A d \in Frozen \ uprooted' : file'[d] = F!Dir
    BY <1>7, <2>2, <2>3
  <2>6. \A d \in Editor : edit'[d] \in {F!NoCall, edit[d]}
    BY <1>6, <1>9 DEF F!WriteFile
  <2>7. \A q \in Path \ {p} : file'[q] = file[q]
    BY <2>2
  <2>8. PICK changed : changed = {p} /\ changed \in SUBSET Path
    <3>1. {p} \in SUBSET Path
      BY <2>1
    <3>. QED  BY <3>1
  <2>. QED  BY <1>5, <2>3, <2>4, <2>5, <2>6, <2>7, <2>8
<1>10. ASSUME NEW e \in Editor, F!MakeDirectory(e) PROVE Shield'
  <2>1. PICK p \in Path : p = edit[e].path
    BY <1>6, <1>10 DEF F!MakeDirectory
  <2>2. PICK made \in {{p}, {p} \cup {a \in Above[p] : ~F!Exists(a)}} :
          /\ \A q \in made : \A a \in Above[q] : F!IsDir(a) \/ a \in made
          /\ file' = [q \in Path |-> IF q \in made THEN F!Dir ELSE file[q]]
    BY <1>10, <2>1 DEF F!MakeDirectory
  <2>3. ~F!Exists(p) /\ UNCHANGED <<uprooted, meddled, rpath>> /\ \A q \in {p} \cup Above[p] : q \in Shielded => Original(q)
    BY <1>6, <1>10, <2>1 DEF F!MakeDirectory, F!Ends, Shield, SafeEdit
  <2>4. made \in SUBSET Path /\ \A q \in made : file[q] = F!Absent /\ file'[q] = F!Dir /\ q \in {p} \cup Above[p]
    BY <2>2, <2>3 DEF F!Exists
  <2>5. \A q \in made \cap Shielded' : file'[q] # F!Absent /\ Original(q)
    BY <1>1, <2>3, <2>4 DEF Shielded
  <2>6. \A q \in Path \ made : file'[q] = file[q]
    BY <2>2
  <2>7. Grown'
    <3>1. ASSUME NEW q \in Path, file'[q] # F!Absent, NEW a \in Above[q] PROVE file'[a] = F!Dir
      BY <2>2, <2>4, <2>6, <3>1 DEF Shield, Grown, F!IsDir
    <3>. QED  BY <3>1 DEF Grown
  <2>8. \A d \in Frozen \ uprooted' : file'[d] = F!Dir
    BY <2>3, <2>4, <2>6 DEF Shield
  <2>9. \A d \in Editor : edit'[d] \in {F!NoCall, edit[d]}
    BY <1>6, <1>10 DEF F!MakeDirectory
  <2>. QED  BY <1>5, <2>3, <2>4, <2>5, <2>6, <2>7, <2>8, <2>9
<1>11. ASSUME NEW e \in Editor, F!MovePath(e) PROVE Shield'
  <2>1. PICK p \in Path, q \in Path : p = edit[e].path /\ q = edit[e].to
    BY <1>6, <1>11 DEF F!MovePath
  <2>2. {p, q} \cap (Shielded \cup Frozen) = {}
    BY <1>11, <2>1 DEF F!MovePath, F!Ends, Shield, SafeEdit
  <2>3. /\ q # p /\ p \notin Above[q] /\ file[p] # F!Absent /\ \A a \in Above[q] : file[a] = F!Dir
        /\ file' = [r \in Path |-> IF r = q THEN file[p] ELSE IF r \in F!Tree(p) THEN F!Absent ELSE file[r]]
        /\ uprooted' = uprooted \cup {d \in Frozen : p \in Above[d]}
    BY <1>11, <2>1 DEF F!MovePath, F!Tree, F!Exists, F!Reachable, F!IsDir, F!Uproots
  <2>4. \A r \in Path : q \in Above[r] => file[r] = F!Absent
    <3>1. CASE F!Exists(q)
      BY <1>2, <1>11, <2>1, <3>1 DEF F!MovePath, F!Tree, F!Exists
    <3>2. CASE file[q] = F!Absent
      BY <1>1, <3>2 DEF Shield, Grown
    <3>. QED  BY <3>1, <3>2 DEF F!Exists
  <2>5. \A r \in Path : r # q /\ (r = p \/ p \in Above[r]) => file'[r] = F!Absent
    BY <2>3 DEF F!Tree
  <2>6. \A r \in Path : r # q /\ r # p /\ p \notin Above[r] => file'[r] = file[r]
    BY <2>3 DEF F!Tree
  <2>7. \A d \in Frozen \ uprooted' : file[d] = F!Dir /\ d # p /\ d # q /\ p \notin Above[d] /\ q \notin Above[d] /\ d \in Path
    BY <1>1, <2>2, <2>3, <2>4 DEF Shield
  <2>8. Grown'
    <3>1. ASSUME NEW r \in Path, file'[r] # F!Absent, NEW a \in Above[r] PROVE file'[a] = F!Dir
      <4>1. CASE r = q
        <5>1. a # q /\ a # p /\ p \notin Above[a]
          BY <1>2, <2>3, <3>1, <4>1
        <5>. QED  BY <2>3, <2>6, <3>1, <4>1, <5>1
      <4>2. CASE r # q
        <5>1. r # p /\ p \notin Above[r] /\ file'[r] = file[r] /\ file[a] = F!Dir
          BY <2>5, <2>6, <3>1, <4>2 DEF Shield, Grown
        <5>2. a # q /\ a # p /\ p \notin Above[a] /\ a \in Path
          BY <2>4, <3>1, <5>1
        <5>. QED  BY <2>6, <5>1, <5>2
      <4>. QED  BY <4>1, <4>2
    <3>. QED  BY <3>1 DEF Grown
  <2>9. PICK changed : changed = {q} \cup F!Tree(p) /\ changed \in SUBSET Path
    <3>1. {q} \cup F!Tree(p) \in SUBSET Path
      BY <2>1 DEF F!Tree
    <3>. QED  BY <3>1
  <2>10. ASSUME NEW r \in changed \cap Shielded' PROVE FALSE
    <3>1. PICK d \in Frozen \ uprooted' : F!Lowest(d, r, Path)
      BY DEF Shielded
    <3>2. r \in Shielded
      BY <2>3, <1>6, <1>11 DEF Shielded, F!MovePath
    <3>3. p \in Above[r] /\ d \in Above[r] /\ \A a \in Above[r] : d \notin Above[a]
      BY <2>2, <2>9, <3>1, <3>2 DEF F!Tree, F!Lowest, Shielded
    <3>4. p # d /\ p \notin Above[d] /\ d \notin Above[p] /\ r \in Path
      BY <2>7, <2>9, <3>3
    <3>. QED  BY <3>3, <3>4
  <2>11. UNCHANGED <<rpath, meddled>> /\ \A d \in Editor : edit'[d] \in {F!NoCall, edit[d]}
    BY <1>6, <1>11 DEF F!MovePath
  <2>12. \A r \in Path \ changed : file'[r] = file[r]
    BY <2>3, <2>9
  <2>13. uprooted \subseteq uprooted' /\ \A d \in Frozen \ uprooted' : file'[d] = F!Dir
    BY <2>3, <2>6, <2>7
  <2>. QED  BY <1>5, <2>8, <2>9, <2>10, <2>11, <2>12, <2>13
<1>12. ASSUME NEW e \in Editor, F!DeletePath(e) PROVE Shield'
  <2>1. PICK p \in Path : p = edit[e].path
    BY <1>6, <1>12 DEF F!DeletePath
  <2>2. p \notin Shielded /\ p \notin Frozen
    BY <1>12, <2>1 DEF F!DeletePath, F!Ends, Shield, SafeEdit
  <2>3. PICK gone \in SUBSET {q \in F!Tree(p) : F!Exists(q)} :
          /\ \A q \in gone : \A r \in F!Tree(q) : F!Exists(r) => r \in gone
          /\ file' = [q \in Path |-> IF q \in gone THEN F!Absent ELSE file[q]]
    BY ZenonT(60), <1>12, <2>1 DEF F!DeletePath
  <2>4. uprooted' = uprooted \cup {d \in Frozen : p \in Above[d]}
    BY <1>12, <2>1 DEF F!DeletePath, F!Uproots
  <2>5. gone \in SUBSET Path /\ \A r \in gone : r = p \/ p \in Above[r]
    BY <2>3 DEF F!Tree
  <2>6. \A q \in gone : \A r \in Path : q \in Above[r] /\ file[r] # F!Absent => r \in gone
    BY <2>3, <2>5 DEF F!Tree, F!Exists
  <2>7. \A q \in Path : file'[q] = IF q \in gone THEN F!Absent ELSE file[q]
    BY <2>3
  <2>8. Grown'
    <3>1. ASSUME NEW r \in Path, file'[r] # F!Absent, NEW a \in Above[r] PROVE file'[a] = F!Dir
      <4>1. r \notin gone /\ file[r] # F!Absent /\ file[a] = F!Dir /\ a \in Path
        BY <2>7, <3>1 DEF Shield, Grown
      <4>. QED  BY <2>6, <2>7, <3>1, <4>1
    <3>. QED  BY <3>1 DEF Grown
  <2>9. \A d \in Frozen \ uprooted' : file'[d] = F!Dir
    <3>1. ASSUME NEW d \in Frozen \ uprooted' PROVE d \notin gone /\ d \in Path /\ file[d] = F!Dir
      BY <2>2, <2>4, <2>5, <3>1 DEF Shield
    <3>. QED  BY <2>7, <3>1
  <2>10. ASSUME NEW r \in gone \cap Shielded' PROVE FALSE
    <3>1. PICK d \in Frozen \ uprooted' : F!Lowest(d, r, Path)
      BY DEF Shielded
    <3>2. r \in Shielded
      BY <1>6, <1>12, <2>4 DEF Shielded, F!DeletePath
    <3>3. p \in Above[r] /\ d \in Above[r] /\ \A a \in Above[r] : d \notin Above[a]
      BY <2>2, <2>5, <3>1, <3>2 DEF F!Lowest, Shielded
    <3>4. p # d /\ p \notin Above[d] /\ r \in Path
      BY <2>2, <2>4, <2>5
    <3>. QED  BY <3>3, <3>4
  <2>11. UNCHANGED <<rpath, meddled>> /\ \A d \in Editor : edit'[d] \in {F!NoCall, edit[d]}
    BY <1>6, <1>12 DEF F!DeletePath
  <2>12. \A r \in Path \ gone : file'[r] = file[r]
    BY <2>7
  <2>13. uprooted \subseteq uprooted'
    BY <2>4
  <2>. QED  BY <1>5, <2>5, <2>8, <2>9, <2>10, <2>11, <2>12, <2>13
<1>13. ASSUME UNCHANGED <<file, meddled, uprooted>>,
              \A e \in Editor : edit'[e] \in {F!NoCall, edit[e]}, \A c \in Replacer : rpath'[c] \in {None, rpath[c]}
       PROVE  Shield'
  <2>1. Grown' /\ \A d \in Frozen \ uprooted' : file'[d] = F!Dir
    BY <1>13 DEF Shield, Grown
  <2>2. PICK changed \in SUBSET Path : changed = {}
    OBVIOUS
  <2>. QED  BY <1>5, <1>13, <2>1, <2>2
<1>14. ASSUME NEW e \in Editor, F!EditFails(e) PROVE Shield'
  <2>1. edit[e].tool # "none"
    BY <1>14 DEF F!EditFails, F!Tool, F!NoCall
  <2>2. UNCHANGED <<file, uprooted>> /\ F!Ends(e, edit[e].tool)
    BY <1>14 DEF F!EditFails
  <2>. QED  BY <1>6, <1>13, <2>1, <2>2
<1>15. ASSUME NEW p \in Path, F!External(p) PROVE Shield'
  <2>1. PICK x \in Content \cup {F!Absent} : file' = [file EXCEPT ![p] = x]
    BY <1>15 DEF F!External
  <2>2. /\ meddled \subseteq meddled' /\ p \in meddled' /\ F!Reachable(p) /\ file[p] # F!Dir
        /\ UNCHANGED <<rpath, edit, uprooted>>
    BY <1>15 DEF F!External, F!replacing
  <2>3. Grown' /\ \A d \in Frozen \ uprooted' : file'[d] = F!Dir
    BY <1>7, <2>1, <2>2
  <2>4. {p} \cap Shielded' = {} /\ \A q \in Path \ {p} : file'[q] = file[q]
    BY <2>1, <2>2 DEF Shielded
  <2>5. PICK changed : changed = {p} /\ changed \in SUBSET Path
    <3>1. {p} \in SUBSET Path
      BY <1>15
    <3>. QED  BY <3>1
  <2>. QED  BY <1>5, <2>2, <2>3, <2>4, <2>5
<1>16. ASSUME NEW c \in Replacer, NEW p \in Target, NEW x \in Content \cup {F!Absent}, F!Replace(c, p, x) PROVE Shield'
  <2>1. p \in Path /\ p \notin Shielded
    BY <1>4, <1>16 DEF F!Replace
  <2>2. rpath' = [rpath EXCEPT ![c] = p] /\ UNCHANGED <<file, edit, meddled, uprooted>>
    BY <1>16 DEF F!Replace
  <2>3. Shielded' = Shielded
    BY <2>2 DEF Shielded
  <2>4. \A e \in Editor : SafeEdit(e)'
    BY <2>2, <2>3 DEF Shield, SafeEdit, Original
  <2>. QED  BY <2>1, <2>2, <2>3, <2>4 DEF Shield, Grown, Original
<1>17. ASSUME NEW c \in Replacer, F!Open(c) \/ F!Stage(c) \/ F!Recheck(c) PROVE Shield'
  <2>1. UNCHANGED <<file, rpath, edit, meddled, uprooted>>
    BY <1>17 DEF F!Open, F!Stage, F!Recheck
  <2>. QED  BY <1>13, <2>1
<1>18. ASSUME NEW c \in Replacer, F!Release(c)
       PROVE  UNCHANGED <<edit, meddled, uprooted>> /\ \A d \in Replacer : rpath'[d] \in {None, rpath[d]}
  BY <1>18 DEF F!Release
<1>19. ASSUME NEW c \in Replacer, F!PutInPlace(c), rpath[c] # None, file[rpath[c]] # F!Dir PROVE Shield'
  <2>1. PICK p \in Path : p = rpath[c]
    BY <1>19
  <2>2. PICK x \in Content : file' = [file EXCEPT ![p] = x]
    BY <1>19, <2>1 DEF F!PutInPlace
  <2>3. F!Reachable(p) /\ p \notin Shielded /\ UNCHANGED <<edit, meddled, uprooted>> /\ \A d \in Replacer : rpath'[d] \in {None, rpath[d]}
    BY <1>18, <1>19, <2>1 DEF F!PutInPlace, Shield
  <2>4. Grown' /\ \A d \in Frozen \ uprooted' : file'[d] = F!Dir
    BY <1>7, <1>19, <2>1, <2>2, <2>3
  <2>5. {p} \cap Shielded' = {} /\ \A q \in Path \ {p} : file'[q] = file[q]
    BY <2>2, <2>3 DEF Shielded
  <2>6. PICK changed : changed = {p} /\ changed \in SUBSET Path
    <3>1. {p} \in SUBSET Path
      BY <2>1
    <3>. QED  BY <3>1
  <2>. QED  BY <1>5, <2>3, <2>4, <2>5, <2>6
<1>20. ASSUME NEW c \in Replacer, Ending(c) PROVE Shield'
  <2>1. CASE F!Link(c) \/ F!Rename(c)
    BY <1>1, <1>19, <2>1 DEF F!Link, F!Rename, Known
  <2>2. CASE F!ReplaceFails(c)
    BY <1>13, <1>18, <2>2 DEF F!ReplaceFails
  <2>. QED  BY <1>20, <2>1, <2>2 DEF Ending
<1>21. CASE UNCHANGED F!vars
  BY <1>13, <1>21 DEF F!vars, F!replacing
<1>. QED
  BY <1>8, <1>9, <1>10, <1>11, <1>12, <1>14, <1>15, <1>16, <1>17, <1>20, <1>21 DEF F!Next, F!EditStep, F!ReplaceStep, Ending

(* Every step keeps the queues.                                            *)
LEMMA WaitingIsQueued ==
  ASSUME Queued, NEW p \in Path, NEW c \in Active(p), NEW d \in Active(p), c # d, ~Waits(c)
  PROVE  rstep[d] = "queued"
<1>1. PICK ord \in [Replacer -> Nat] : Queue(p, ord)
  BY DEF Queued
<1>2. ord[c] \in Nat /\ ord[d] \in Nat
  BY DEF Active
<1>3. Waits(d)
  BY <1>1, <1>2 DEF Queue
<1>. QED  BY <1>1, <1>3 DEF Queue

LEMMA ReplaceQueues ==
  ASSUME F!TypeOK, Known, Queued, NEW c \in Replacer, NEW p \in Target, NEW x \in Content \cup {F!Absent}, F!Replace(c, p, x)
  PROVE  Queued'
<1>. USE DEF F!TypeOK
<1>1. PICK ord \in [Replacer -> Nat] : \A q \in Path : Queue(q, ord)
  BY DEF Queued
<1>2. p \in Path /\ None \notin Replacer
  BY AdapterAssumption
<1>3. PICK k \in Nat : k = IF locks[p] = None THEN 0 ELSE ord[locks[p]] + 1
  <2>1. locks[p] # None => ord[locks[p]] \in Nat
    BY <1>2
  <2>. QED  BY <2>1
<1>4. PICK new \in [Replacer -> Nat] : new = [ord EXCEPT ![c] = k]
  OBVIOUS
<1>5. /\ rstep[c] = "idle" /\ rpath[c] = None
      /\ rstep' = [rstep EXCEPT ![c] = "queued"] /\ rpath' = [rpath EXCEPT ![c] = p]
      /\ prior' = [prior EXCEPT ![c] = locks[p]] /\ locks' = [locks EXCEPT ![p] = c]
  BY DEF F!Replace, Known
<1>6. /\ Active(p)' = Active(p) \cup {c} /\ c \notin Active(p)
      /\ \A q \in Path \ {p} : Active(q)' = Active(q) /\ c \notin Active(q)
  BY <1>2, <1>5 DEF Active
<1>7. \A d \in Replacer \ {c} : Waits(d)' = Waits(d) /\ prior'[d] = prior[d] /\ rstep'[d] = rstep[d] /\ new[d] = ord[d]
  BY <1>4, <1>5 DEF Waits
<1>8. \A q \in Path : Active(q) \subseteq Replacer
  BY DEF Active
<1>9. ASSUME NEW q \in Path, q # p PROVE Queue(q, new)'
  <2>1. Queue(q, ord) /\ locks'[q] = locks[q] /\ Active(q)' = Active(q)
    BY <1>1, <1>5, <1>6, <1>9
  <2>2. \A d \in Active(q) : Waits(d) => prior[d] \in Active(q)
    BY <2>1 DEF Queue
  <2>. QED  BY <1>6, <1>7, <1>8, <1>9, <2>1, <2>2 DEF Queue
<1>10. Queue(p, new)'
  <2>1. Queue(p, ord) /\ locks'[p] = c /\ new[c] = k
    BY <1>1, <1>2, <1>4, <1>5
  <2>2. Waits(c)' <=> locks[p] # None
    BY <1>2, <1>5, <2>1 DEF Waits, Queue, Active
  <2>3. \A d \in Active(p) : ord[d] \in Nat /\ ord[d] < k
    <3>1. ASSUME NEW d \in Active(p) PROVE ord[d] \in Nat /\ ord[d] < k
      <4>1. locks[p] \in Active(p) /\ locks[p] # None
        BY <2>1 DEF Queue
      <4>2. ord[d] \in Nat /\ ord[locks[p]] \in Nat
        BY <1>2, <1>8, <2>1, <4>1
      <4>3. d = locks[p] \/ ord[d] < ord[locks[p]]
        BY <2>1, <4>1 DEF Queue
      <4>. QED  BY <1>3, <4>1, <4>2, <4>3
    <3>. QED  BY <3>1
  <2>4. \A d \in Active(p) : d \in Replacer \ {c} /\ (Waits(d) => prior[d] \in Active(p))
    <3>1. \A d \in Active(p) : Waits(d) => prior[d] \in Active(p)
      BY <2>1 DEF Queue
    <3>. QED  BY <1>2, <1>6, <1>8, <3>1
  <2>5. \A d \in Active(p)' : Waits(d)' =>
          prior'[d] \in Active(p)' /\ new[prior'[d]] < new[d] /\ rstep'[d] = "queued"
    <3>1. ASSUME NEW d \in Active(p), Waits(d)' PROVE prior'[d] \in Active(p)' /\ new[prior'[d]] < new[d] /\ rstep'[d] = "queued"
      BY <1>6, <1>7, <2>1, <2>4, <3>1 DEF Queue
    <3>2. ASSUME Waits(c)' PROVE prior'[c] \in Active(p)' /\ new[prior'[c]] < new[c] /\ rstep'[c] = "queued"
      BY <1>5, <1>6, <1>7, <2>1, <2>2, <2>3, <2>4, <3>2 DEF Queue
    <3>. QED  BY <1>6, <3>1, <3>2
  <2>6. ASSUME NEW d \in Active(p)', NEW e \in Active(p)', d # e
        PROVE  /\ new[d] # new[e]
               /\ d = c => new[e] < new[d]
               /\ ~Waits(d)' => new[d] < new[e]
               /\ Waits(d)' /\ new[e] < new[d] => e = prior'[d] \/ new[e] < new[prior'[d]]
    <3>1. CASE d = c
      <4>1. e \in Active(p) /\ new[e] = ord[e] /\ ord[e] < k /\ k \in Nat /\ ord[e] \in Nat
        BY <1>6, <1>7, <2>3, <2>4, <2>6, <3>1
      <4>2. locks[p] # None /\ prior'[d] = locks[p] /\ locks[p] \in Active(p)
        BY <1>5, <2>1, <3>1, <4>1 DEF Queue
      <4>3. e = locks[p] \/ ord[e] < ord[locks[p]]
        BY <2>1, <4>1, <4>2 DEF Queue
      <4>. QED  BY <1>7, <2>1, <2>2, <2>4, <3>1, <4>1, <4>2, <4>3
    <3>2. CASE e = c
      BY <1>6, <1>7, <2>1, <2>3, <2>4, <2>6, <3>2
    <3>3. CASE d # c /\ e # c
      <4>1. d \in Active(p) /\ e \in Active(p)
        BY <1>6, <3>3
      <4>. QED  BY <1>7, <2>1, <2>4, <2>6, <3>3, <4>1 DEF Queue
    <3>. QED  BY <3>1, <3>2, <3>3
  <2>7. Active(p)' # {} /\ c \in Active(p)' /\ c # None
    BY <1>2, <1>6
  <2>. QED  BY <2>1, <2>5, <2>6, <2>7 DEF Queue
<1>. QED  BY <1>4, <1>9, <1>10 DEF Queued

LEMMA ReleaseQueues ==
  ASSUME F!TypeOK, Known, Queued, NEW c \in Replacer, rstep[c] \notin {"idle", "done"}, ~Waits(c), F!Release(c)
  PROVE  Queued'
<1>. USE DEF F!TypeOK
<1>1. PICK ord \in [Replacer -> Nat] : \A q \in Path : Queue(q, ord)
  BY DEF Queued
<1>2. PICK p \in Path : p = rpath[c]
  BY DEF Known
<1>3. None \notin Replacer /\ c \in Active(p)
  BY <1>2, AdapterAssumption DEF Active
<1>4. /\ rstep' = [rstep EXCEPT ![c] = "done"] /\ rpath' = [rpath EXCEPT ![c] = None]
      /\ prior' = [prior EXCEPT ![c] = None]
      /\ locks' = [locks EXCEPT ![p] = IF locks[p] = c THEN None ELSE locks[p]]
  BY <1>2 DEF F!Release
<1>5. /\ Active(p)' = Active(p) \ {c}
      /\ \A q \in Path \ {p} : Active(q)' = Active(q) /\ c \notin Active(q)
  BY <1>2, <1>4 DEF Active
<1>6. \A d \in Replacer \ {c} : prior'[d] = prior[d] /\ rstep'[d] = rstep[d] /\ (Waits(d)' <=> Waits(d) /\ prior[d] # c)
  BY <1>4 DEF Waits
<1>7. \A q \in Path : Active(q) \subseteq Replacer
  BY DEF Active
<1>8. ASSUME NEW q \in Path, q # p PROVE Queue(q, ord)'
  <2>1. Queue(q, ord) /\ locks'[q] = locks[q] /\ Active(q)' = Active(q) /\ c \notin Active(q)
    BY <1>1, <1>4, <1>5, <1>8
  <2>2. \A d \in Active(q) : (Waits(d)' <=> Waits(d)) /\ prior'[d] = prior[d] /\ rstep'[d] = rstep[d]
    BY <1>6, <1>7, <2>1 DEF Queue
  <2>. QED  BY <2>1, <2>2 DEF Queue
<1>9. Queue(p, ord)'
  <2>1. Queue(p, ord)
    BY <1>1
  <2>2. \A d \in Active(p) \ {c} : d \in Replacer \ {c} /\ ord[d] \in Nat /\ ord[c] \in Nat /\ ord[c] < ord[d]
    BY <1>3, <1>7, <2>1 DEF Queue
  <2>3. CASE locks[p] = c
    <3>1. Active(p)' = {} /\ locks'[p] = None
      BY <1>3, <1>4, <1>5, <2>1, <2>2, <2>3 DEF Queue
    <3>. QED  BY <3>1 DEF Queue
  <2>4. CASE locks[p] # c
    <3>1. locks'[p] = locks[p] /\ locks[p] \in Active(p)' /\ locks[p] # None
      BY <1>3, <1>4, <1>5, <2>1, <2>4 DEF Queue
    <3>2. \A d \in Active(p)' : Waits(d)' => prior'[d] \in Active(p)' /\ ord[prior'[d]] < ord[d] /\ rstep'[d] = "queued"
      BY <1>5, <1>6, <2>1, <2>2 DEF Queue
    <3>3. ASSUME NEW d \in Active(p)', NEW e \in Active(p)', d # e
          PROVE  /\ ord[d] # ord[e]
                 /\ d = locks'[p] => ord[e] < ord[d]
                 /\ ~Waits(d)' => ord[d] < ord[e]
                 /\ Waits(d)' /\ ord[e] < ord[d] => e = prior'[d] \/ ord[e] < ord[prior'[d]]
      <4>1. d \in Active(p) \ {c} /\ e \in Active(p) \ {c}
        BY <1>5
      <4>2. ord[d] # ord[e] /\ (d = locks'[p] => ord[e] < ord[d])
        BY <2>1, <3>1, <3>3, <4>1 DEF Queue
      <4>3. ASSUME ~Waits(d)' PROVE ord[d] < ord[e]
        <5>1. CASE ~Waits(d)
          BY <2>1, <3>3, <4>1, <5>1 DEF Queue
        <5>2. CASE Waits(d) /\ prior[d] = c
          <6>1. ord[e] < ord[d] => e = c \/ ord[e] < ord[c]
            BY <2>1, <3>3, <4>1, <5>2 DEF Queue
          <6>. QED  BY <2>2, <4>1, <4>2, <6>1
        <5>. QED  BY <1>6, <2>2, <4>1, <4>3, <5>1, <5>2
      <4>4. ASSUME Waits(d)', ord[e] < ord[d] PROVE e = prior'[d] \/ ord[e] < ord[prior'[d]]
        BY <1>6, <2>1, <2>2, <3>3, <4>1, <4>4 DEF Queue
      <4>. QED  BY <4>2, <4>3, <4>4
    <3>. QED  BY <3>1, <3>2, <3>3 DEF Queue
  <2>. QED  BY <2>3, <2>4
<1>. QED  BY <1>8, <1>9 DEF Queued

LEMMA QueueStep == F!TypeOK /\ Known /\ Queued /\ [F!Next]_(F!vars) => Queued'
<1>. SUFFICES ASSUME F!TypeOK, Known, Queued, [F!Next]_(F!vars) PROVE Queued'
  OBVIOUS
<1>1. PICK ord \in [Replacer -> Nat] : \A p \in Path : Queue(p, ord)
  BY DEF Queued
(* A replacement that does not wait goes on.                               *)
<1>2. ASSUME UNCHANGED <<rpath, prior, locks>>, NEW c \in Replacer,
             \A d \in Replacer \ {c} : rstep'[d] = rstep[d],
             {rstep[c], rstep'[c]} \cap {"idle", "done"} = {}, ~Waits(c)
      PROVE  Queued'
  <2>1. \A d \in Replacer : rstep'[d] \notin {"idle", "done"} <=> rstep[d] \notin {"idle", "done"}
    BY <1>2
  <2>2. \A p \in Path : Active(p)' = Active(p)
    BY <1>2, <2>1 DEF Active
  <2>3. ASSUME NEW p \in Path, NEW d \in Active(p) PROVE (Waits(d)' <=> Waits(d)) /\ (Waits(d) => rstep'[d] = rstep[d])
    <3>1. Waits(d) => rstep[d] = "queued" /\ d # c /\ d \in Replacer /\ prior[d] \in Replacer
      BY <1>1, <1>2, <2>3 DEF Queue, Active
    <3>2. d \in Replacer /\ prior[d] \in Replacer \cup {None} /\ None \notin Replacer
      BY <2>3, AdapterAssumption DEF Active, F!TypeOK
    <3>. QED  BY <1>2, <2>1, <3>1, <3>2 DEF Waits
  <2>4. ASSUME NEW p \in Path PROVE Queue(p, ord)'
    BY <1>1, <1>2, <2>2, <2>3 DEF Queue
  <2>. QED  BY <1>1, <2>4 DEF Queued
<1>3. ASSUME UNCHANGED F!replacing PROVE Queued'
  <2>1. UNCHANGED <<rstep, rpath, prior, locks>>
    BY <1>3 DEF F!replacing
  <2>. QED  BY <2>1 DEF Queued, Queue, Active, Waits
<1>4. ASSUME NEW c \in Replacer, NEW p \in Target, NEW x \in Content \cup {F!Absent}, F!Replace(c, p, x) PROVE Queued'
  BY <1>4, ReplaceQueues
<1>5. ASSUME NEW c \in Replacer, rstep[c] \in {"opened", "staged", "checked"} PROVE ~Waits(c)
  <2>1. rpath[c] \in Path
    BY <1>5 DEF Known, F!TypeOK
  <2>2. c \in Active(rpath[c])
    BY <1>5 DEF Active
  <2>. QED  BY <1>1, <1>5, <2>1, <2>2 DEF Queue
<1>6. ASSUME NEW c \in Replacer, F!Open(c) PROVE Queued'
  BY <1>2, <1>6 DEF F!Open, F!TypeOK, Waits
<1>7. ASSUME NEW c \in Replacer, F!Stage(c) \/ F!Recheck(c) PROVE Queued'
  BY <1>2, <1>5, <1>7 DEF F!Stage, F!Recheck, F!TypeOK
<1>8. ASSUME NEW c \in Replacer, Ending(c) PROVE Queued'
  <2>1. F!Release(c) /\ rstep[c] \notin {"idle", "done"}
    BY <1>8 DEF Ending, F!Link, F!Rename, F!PutInPlace, F!ReplaceFails
  <2>2. ~Waits(c)
    BY <1>5, <1>8 DEF Ending, F!Link, F!Rename, F!ReplaceFails, Waits
  <2>. QED  BY <2>1, <2>2, ReleaseQueues
<1>9. ASSUME NEW e \in Editor, F!EditStep(e) PROVE UNCHANGED F!replacing
  BY <1>9 DEF F!EditStep, F!Check, F!WriteFile, F!MakeDirectory, F!MovePath, F!DeletePath, F!EditFails, F!Ends
<1>10. ASSUME NEW p \in Path, F!External(p) PROVE UNCHANGED F!replacing
  BY <1>10 DEF F!External
<1>11. CASE UNCHANGED F!vars
  BY <1>3, <1>11 DEF F!vars
<1>. QED  BY <1>3, <1>4, <1>6, <1>7, <1>8, <1>9, <1>10, <1>11 DEF F!Next, F!ReplaceStep, Ending

(* Every step keeps what the replacements know.                            *)
LEMMA KnownStep == FilesInv /\ [F!Next]_(F!vars) => Known'
<1>. SUFFICES ASSUME FilesInv, [F!Next]_(F!vars) PROVE Known'
  OBVIOUS
<1>. USE AdapterAssumption DEF FilesInv, F!TypeOK
<1>1. ASSUME NEW changed, \A p \in Path \ changed : file'[p] = file[p], F!Disturbs(changed), UNCHANGED F!replacing
      PROVE  Known'
  BY <1>1 DEF F!Disturbs, F!replacing, Known
<1>2. ASSUME NEW e \in Editor, F!Check(e) \/ F!EditFails(e) PROVE Known'
  BY <1>2 DEF F!Check, F!EditFails, F!Ends, F!replacing, Known
<1>3. ASSUME NEW e \in Editor, NEW t, F!Ends(e, t), t # "none" PROVE UNCHANGED F!replacing /\ edit[e].path \in Path /\ edit[e].to \in Path
  BY <1>3 DEF F!Ends, F!NoCall
<1>4. ASSUME NEW e \in Editor, F!WriteFile(e) PROVE Known'
  <2>1. PICK changed : changed = {edit[e].path}
    OBVIOUS
  <2>2. (\A p \in Path \ changed : file'[p] = file[p]) /\ F!Disturbs(changed) /\ UNCHANGED F!replacing
    BY <1>3, <1>4, <2>1 DEF F!WriteFile
  <2>. QED  BY <1>1, <2>2
<1>5. ASSUME NEW e \in Editor, F!MakeDirectory(e) PROVE Known'
  <2>1. PICK made \in SUBSET Path : file' = [q \in Path |-> IF q \in made THEN F!Dir ELSE file[q]] /\ F!Disturbs(made)
    BY <1>3, <1>5 DEF F!MakeDirectory
  <2>. QED  BY <1>1, <1>3, <1>5, <2>1 DEF F!MakeDirectory
<1>6. ASSUME NEW e \in Editor, F!MovePath(e) \/ F!DeletePath(e) PROVE Known'
  <2>1. UNCHANGED F!replacing
    BY <1>3, <1>6 DEF F!MovePath, F!DeletePath
  <2>2. PICK changed : (\A p \in Path \ changed : file'[p] = file[p]) /\ F!Disturbs(changed)
    <3>1. CASE F!MovePath(e)
      BY <3>1 DEF F!MovePath
    <3>2. CASE F!DeletePath(e)
      BY <3>2 DEF F!DeletePath
    <3>. QED  BY <1>6, <3>1, <3>2
  <2>. QED  BY <1>1, <2>1, <2>2
<1>7. ASSUME NEW p \in Path, F!External(p) PROVE Known'
  <2>1. PICK changed : changed = {p}
    OBVIOUS
  <2>2. (\A q \in Path \ changed : file'[q] = file[q]) /\ F!Disturbs(changed) /\ UNCHANGED F!replacing
    BY <1>7, <2>1 DEF F!External
  <2>. QED  BY <1>1, <2>2
<1>8. ASSUME NEW c \in Replacer, NEW p \in Target, NEW x \in Content \cup {F!Absent}, F!Replace(c, p, x) PROVE Known'
  BY <1>8 DEF F!Replace, Known
<1>9. ASSUME NEW c \in Replacer, F!Open(c) PROVE Known'
  BY <1>9 DEF F!Open, Known
<1>10. ASSUME NEW c \in Replacer, F!Stage(c) PROVE Known'
  BY <1>10 DEF F!Stage, Known
<1>11. ASSUME NEW c \in Replacer, F!Recheck(c) PROVE Known'
  BY <1>11 DEF F!Recheck, Known
<1>12. ASSUME NEW c \in Replacer, F!PutInPlace(c), rstep[c] \in {"staged", "checked"} PROVE Known'
  <2>1. rpath[c] \in Path /\ c \in Active(rpath[c])
    BY <1>12 DEF Known, Active
  <2>2. ~Waits(c)
    BY <1>12, <2>1 DEF Queued, Queue
  <2>3. \A d \in Replacer \ {c} : rpath[d] = rpath[c] => rstep[d] = "queued"
    <3>1. ASSUME NEW d \in Replacer \ {c}, rpath[d] = rpath[c] PROVE d \in Active(rpath[c])
      BY <2>1, <3>1 DEF Known, Active
    <3>. QED  BY <2>1, <2>2, <3>1, WaitingIsQueued
  <2>. QED  BY <1>12, <2>1, <2>3 DEF F!PutInPlace, F!Release, Known
<1>13. ASSUME NEW c \in Replacer, F!ReplaceFails(c) PROVE Known'
  BY <1>13 DEF F!ReplaceFails, F!Release, Known
<1>14. CASE UNCHANGED F!vars
  BY <1>14 DEF F!vars, F!replacing, Known
<1>. QED
  BY <1>2, <1>4, <1>5, <1>6, <1>7, <1>8, <1>9, <1>10, <1>11, <1>12, <1>13, <1>14 DEF F!Next, F!EditStep, F!ReplaceStep, F!Link, F!Rename


LEMMA FilesStart == F!Init => FilesInv
<1>. SUFFICES ASSUME F!Init PROVE FilesInv
  OBVIOUS
<1>. USE AdapterAssumption DEF F!Init
<1>1. F!TypeOK
  <2>1. 0 \in 0..MaxEdits
    OBVIOUS
  <2>. QED  BY <2>1 DEF F!TypeOK
<1>2. Shield
  <2>1. Grown /\ \A d \in Frozen : file[d] = F!Dir
    BY DEF Grown
  <2>2. \A e \in Editor : SafeEdit(e)
    BY DEF SafeEdit, F!NoCall
  <2>. QED  BY <2>1, <2>2 DEF Shield, Shielded, Original
<1>3. Queued
  <2>1. PICK ord \in [Replacer -> Nat] : ord = [c \in Replacer |-> 0]
    OBVIOUS
  <2>2. \A p \in Path : Active(p) = {} /\ locks[p] = None
    BY DEF Active
  <2>. QED  BY <2>1, <2>2 DEF Queued, Queue
<1>4. Known
  BY DEF Known
<1>. QED  BY <1>1, <1>2, <1>3, <1>4 DEF FilesInv

LEMMA FilesStep == FilesInv /\ [F!Next]_(F!vars) => FilesInv'
BY FilesTyped, ShieldStep, QueueStep, KnownStep DEF FilesInv

(* What is put in place replaces what was expected.                        *)
LEMMA FilesExpected ==
  ASSUME FilesInv, NEW c \in Replacer, F!Link(c) \/ F!Rename(c) PROVE file[rpath[c]] = expect[c] \/ c \in foreign
BY DEF FilesInv, Known, F!Link, F!Rename

(* An entry that stays in a frozen directory is there before a step if it  *)
(* is there after it.                                                      *)
LEMMA FilesFrozen ==
  ASSUME FilesInv, FilesInv', [F!Next]_(F!vars),
         NEW p \in Path \ meddled', \E d \in Frozen \ uprooted' : F!Lowest(d, p, Path)
  PROVE  F!Exists(p) <=> F!Exists(p)'
<1>1. meddled \subseteq meddled' /\ uprooted \subseteq uprooted'
  BY DEF F!Next, F!vars, F!replacing, F!EditStep, F!Check, F!WriteFile, F!MakeDirectory, F!MovePath, F!DeletePath, F!EditFails, F!Ends, F!Uproots,
         F!External, F!ReplaceStep, F!Replace, F!Open, F!Stage, F!Recheck, F!Link, F!Rename, F!ReplaceFails, F!PutInPlace, F!Release
<1>2. p \in Shielded /\ p \in Shielded'
  BY <1>1 DEF Shielded, F!Lowest
<1>. QED  BY <1>2 DEF FilesInv, Shield, F!Exists, Original

-----------------------------------------------------------------------------
(* The adapter: a step is a step of one of its parts.                      *)
RouteOK == route \in {"none", "refused", "local", "remote", "owned", "files"}
AdapterInv == RouteOK /\ CommandInv /\ RemoteInv /\ OwnedInv /\ FilesInv

LEMMA StepOfParts ==
  ASSUME [Next]_vars
  PROVE  [P!Next]_(P!vars) /\ [K!Next]_(K!vars) /\ [O!Next]_(O!vars) /\ [F!Next]_(F!vars)
<1>. USE DEF commandVars, podVars, ownedVars, fileVars, P!vars, P!process, P!clean, K!vars, K!pods, K!transfer, K!reaper,
             O!vars, F!vars, F!replacing
<1>1. CASE UNCHANGED <<commandVars, podVars, ownedVars, fileVars>>
  BY <1>1
<1>2. CASE P!Next /\ UNCHANGED <<podVars, ownedVars, fileVars>>
  BY <1>2
<1>3. CASE K!Next /\ UNCHANGED <<commandVars, ownedVars, fileVars>>
  BY <1>3
<1>4. CASE O!Next /\ UNCHANGED <<commandVars, podVars, fileVars>>
  BY <1>4
<1>5. CASE F!Next /\ UNCHANGED <<commandVars, podVars, ownedVars>>
  BY <1>5
<1>. QED
  BY <1>1, <1>2, <1>3, <1>4, <1>5 DEF Next, vars, RouteExec, OtherTool, Local, Remote, Owned, Files

(* A set of numbers has a least one, so some rule is the first that        *)
(* matches, if any does.                                                   *)
LEMMA Least == ASSUME NEW T \in SUBSET Nat, T # {} PROVE \E i \in T : \A j \in T : i <= j
<1>1. PICK R : R = OpToRel(<, Nat) /\ IsWellFoundedOn(R, Nat)
  BY NatLessThanWellFounded
<1>2. PICK i \in T : \A j \in T : ~ (<<j, i>> \in R)
  BY <1>1, WFMin
<1>3. \A j \in T : ~ (j < i)
  BY <1>1, <1>2 DEF OpToRel
<1>. QED  BY <1>2, <1>3

LEMMA DecisionIsAction ==
  ASSUME NEW n \in Nat, NEW rules \in [1..n -> Rule]
  PROVE  Decision(rules) \in {"none", "deny", "allow", "local", "kubernetes"}
<1>1. PICK hits \in SUBSET (1..n) : hits = {i \in DOMAIN rules : rules[i].matches}
  OBVIOUS
<1>2. CASE hits = {}
  BY <1>1, <1>2 DEF Decision
<1>3. CASE hits # {}
  <2>1. \E i \in hits : \A j \in hits : i <= j
    BY <1>3, Least
  <2>2. PICK k \in 1..n : k = CHOOSE i \in hits : \A j \in hits : i <= j
    BY <2>1
  <2>3. Decision(rules) = rules[k].action
    BY <1>1, <1>3, <2>2 DEF Decision
  <2>. QED  BY <2>3 DEF Rule
<1>. QED  BY <1>2, <1>3

LEMMA RouteStep == RouteOK /\ [Next]_vars => RouteOK'
<1>. SUFFICES ASSUME RouteOK, [Next]_vars PROVE RouteOK'
  OBVIOUS
<1>1. CASE RouteExec
  <2>1. PICK n \in 0..MaxRules : \E rules \in [1..n -> Rule], a \in SUBSET Attribute :
          route' \in {Classify(Decision(rules), a), "refused"}
    BY <1>1 DEF RouteExec
  <2>2. PICK rules \in [1..n -> Rule], a \in SUBSET Attribute : route' \in {Classify(Decision(rules), a), "refused"}
    BY <2>1
  <2>3. Decision(rules) \in {"none", "deny", "allow", "local", "kubernetes"}
    BY <2>1, DecisionIsAction, AdapterAssumption
  <2>4. Classify(Decision(rules), a) \in {"refused", "local", "remote"}
    BY <2>3 DEF Classify
  <2>. QED  BY <2>2, <2>4 DEF RouteOK
<1>2. CASE OtherTool
  BY <1>2 DEF OtherTool, RouteOK
<1>3. CASE UNCHANGED route
  BY <1>3 DEF RouteOK
<1>. QED  BY <1>1, <1>2, <1>3 DEF Next, vars, Local, Remote, Owned, Files

(* The invariant of the adapter, by its parts.                             *)
THEOREM AdapterInvariance == Spec => []AdapterInv
<1>1. Init => AdapterInv
  BY CommandStart, RemoteStart, OwnedStart, FilesStart DEF Init, AdapterInv, RouteOK
<1>2. AdapterInv /\ [Next]_vars => AdapterInv'
  BY StepOfParts, RouteStep, CommandStep, RemoteStep, OwnedStep, FilesStep DEF AdapterInv
<1>. QED  BY <1>1, <1>2, PTL DEF Spec

(* However the timers, the signals, the exits and the caller's abort       *)
(* interleave, a command that was terminated leaves no process, unit or    *)
(* environment file behind (spawnBounded, spawnSystemdIsolated).           *)
THEOREM NothingAlwaysOutlives == FairSpec => []NothingOutlives
<1>1. AdapterInv => NothingOutlives
  BY CommandPromises, RemotePromises, OwnedPromises DEF AdapterInv, RouteOK, FilesInv, NothingOutlives, TypeOK
<1>. QED  BY <1>1, AdapterInvariance, PTL DEF FairSpec

(* Whatever raced with the end of a command, its caller is told an outcome *)
(* that happened (spawnBounded).                                           *)
THEOREM OutcomeAlwaysHonest == FairSpec => []OutcomeHonest
<1>1. AdapterInv => OutcomeHonest
  BY CommandPromises DEF AdapterInv, OutcomeHonest
<1>. QED  BY <1>1, AdapterInvariance, PTL DEF FairSpec

(* A pod whose command has ended is gone, but for a crash, a failed delete *)
(* or a creation after it (KubernetesExecutor.exec).                       *)
THEOREM PodsAlwaysAccounted == FairSpec => []PodsAccounted
<1>1. AdapterInv => PodsAccounted
  BY RemotePromises DEF AdapterInv, PodsAccounted
<1>. QED  BY <1>1, AdapterInvariance, PTL DEF FairSpec

(* The shared reap takes a pod that a command is at work in only if that   *)
(* pod was older than ttlSeconds when it was listed (reapExpiredPodsNow).  *)
THEOREM ReapAlwaysSparesYoung == FairSpec => ReapSparesYoung
<1>1. AdapterInv /\ [Next]_vars =>
        [\A e \in Exec : pod[e] = "up" /\ pod'[e] = "none" /\ step[e] \in K!Working \ {"cleanup"}
           => e \in doomed \cap old]_(K!vars)
  BY StepOfParts, RemoteSpares DEF AdapterInv
<1>. QED  BY <1>1, AdapterInvariance, PTL DEF FairSpec, Spec, ReapSparesYoung, K!ReapSparesYoung

(* Every application and recorder that runs is owned, and their number is  *)
(* within the limit unless launches overlap (local-computer-adapter.ts).   *)
THEOREM ResourcesAlwaysAccounted == FairSpec => []ResourcesAccounted
<1>1. AdapterInv => ResourcesAccounted
  BY OwnedPromises DEF AdapterInv, ResourcesAccounted
<1>. QED  BY <1>1, AdapterInvariance, PTL DEF FairSpec

(* However many replacements of a path overlap, each overwrites what its   *)
(* caller expects, or an entry that something else changed after the last  *)
(* comparison (replaceUtf8).                                               *)
THEOREM AlwaysReplacesExpected == FairSpec => ReplacesExpected
<1>1. AdapterInv => \A c \in Replacer : F!Link(c) \/ F!Rename(c) => file[rpath[c]] = expect[c] \/ c \in foreign
  BY FilesExpected DEF AdapterInv
<1>. QED  BY <1>1, AdapterInvariance, PTL DEF FairSpec, ReplacesExpected, F!ReplacesExpected

(* For any tree: no tool makes an entry of a frozen directory appear or    *)
(* disappear, with the policy checked before an await and the effect after *)
(* it, until a tool moves or deletes a directory above the frozen one,     *)
(* which the policy lets pass (authorizePathEntryMutation).                *)
THEOREM FrozenEntriesAlwaysStay == FairSpec => FrozenEntriesStay
<1>1. AdapterInv /\ AdapterInv' /\ [Next]_vars =>
        [\A p \in Path \ meddled' :
           (\E d \in Frozen \ uprooted' : F!Lowest(d, p, Path)) => (F!Exists(p) <=> F!Exists(p)')]_(F!vars)
  BY StepOfParts, FilesFrozen DEF AdapterInv
<1>. QED  BY <1>1, AdapterInvariance, PTL DEF FairSpec, Spec, FrozenEntriesStay, F!FrozenEntriesStay

=============================================================================
