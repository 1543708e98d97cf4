--------------------------- MODULE OwnedResources ---------------------------
(***************************************************************************)
(* The applications and screen recordings the adapter owns                 *)
(* (src/src/adapter/local-computer-adapter.ts).  A backend is kept for as  *)
(* long as ownedResources() counts one, so a child that runs must be in    *)
(* one of the maps.  The limits are checked before the awaits of a launch  *)
(* and the handle is added after them.                                     *)
(***************************************************************************)
EXTENDS Integers, FiniteSets

CONSTANTS
  App, Rec,    \* applications and recordings a caller may ask for
  Stopper,     \* calls of stopScreenRecording
  MaxTracked,  \* application.maxTracked and desktop.maxRecordings
  None

VARIABLES
  place,   \* where each resource is: its launch, a map, or "gone"
  child,   \* its process
  target, escalation,   \* of each stop: the recording and how far it escalated
  raced    \* history: launches that overlapped another one of their kind

vars == <<place, child, target, escalation, raced>>

Res == App \cup Rec
Map == {"tracked", "closing"}

TypeOK ==
  /\ place \in [Res -> {"none", "checked", "spawning", "gone"} \cup Map]
  /\ child \in [Res -> {"none", "live", "exited"}]
  /\ target \in [Stopper -> Rec \cup {None}]
  /\ escalation \in [Stopper -> {"none", "quit", "int", "term", "kill", "settle"}]
  /\ raced \subseteq Res

Init ==
  /\ place = [r \in Res |-> "none"] /\ child = [r \in Res |-> "none"]
  /\ target = [s \in Stopper |-> None] /\ escalation = [s \in Stopper |-> "none"]
  /\ raced = {}

Moves(r, p) == place' = [place EXCEPT ![r] = p]
Kind(r)     == IF r \in App THEN App ELSE Rec
Owned(K)    == {r \in K : place[r] \in Map}
InFlight(K) == {r \in K : place[r] \in {"checked", "spawning"}}

\* pruneApplications: the maps without the applications that have exited.
Pruned == [r \in Res |->
  IF r \in App /\ place[r] \in Map /\ child[r] = "exited" THEN "gone" ELSE place[r]]

\* ownedResources prunes before it counts.
Prune == place' = Pruned /\ UNCHANGED <<child, target, escalation, raced>>

\* The limit is checked; a recording then checks its path.
Launch(r) ==
  /\ place[r] = "none"
  /\ LET kept == IF r \in App THEN Pruned ELSE place
         full == Cardinality({q \in Kind(r) : kept[q] \in Map}) >= MaxTracked
     IN place' = [kept EXCEPT ![r] = IF full THEN "gone" ELSE IF r \in Rec THEN "checked" ELSE "spawning"]
  /\ raced' = IF InFlight(Kind(r)) = {} THEN raced ELSE raced \cup {r} \cup InFlight(Kind(r))
  /\ UNCHANGED <<child, target, escalation>>

CheckPath(r) ==
  /\ place[r] = "checked" /\ \E p \in {"spawning", "gone"} : Moves(r, p)
  /\ UNCHANGED <<child, target, escalation, raced>>

Spawn(r) ==
  /\ place[r] = "spawning" /\ child[r] = "none"
  /\ \/ child' = [child EXCEPT ![r] = "live"] /\ UNCHANGED place
     \/ Moves(r, "gone") /\ UNCHANGED child
  /\ UNCHANGED <<target, escalation, raced>>

\* The spawn event is handled.
Track(r) ==
  /\ place[r] = "spawning" /\ child[r] # "none" /\ Moves(r, "tracked")
  /\ UNCHANGED <<child, target, escalation, raced>>

Exits(r) ==
  /\ child[r] = "live" /\ child' = [child EXCEPT ![r] = "exited"]
  /\ UNCHANGED <<place, target, escalation, raced>>

\* closeApplication: the handle is known no longer, the child is until it has
\* exited; if the signal is refused the handle is known again.
CloseApplication(r) ==
  /\ r \in App /\ place[r] = "tracked"
  /\ \/ child[r] = "exited" /\ Moves(r, "gone")
     \/ child[r] = "live" /\ Moves(r, "closing")
     \/ child[r] = "live" /\ UNCHANGED place
  /\ UNCHANGED <<child, target, escalation, raced>>

(***************************************************************************)
(* stopScreenRecording: the letter q, SIGINT, SIGTERM and SIGKILL, each    *)
(* awaited for some seconds; two calls may stop the same recording.        *)
(***************************************************************************)
Stop(s, r) ==
  /\ escalation[s] = "none" /\ place[r] = "tracked"
  /\ target' = [target EXCEPT ![s] = r]
  /\ escalation' = [escalation EXCEPT ![s] = IF child[r] = "exited" THEN "settle" ELSE "quit"]
  /\ UNCHANGED <<place, child, raced>>

After == [quit |-> "int", int |-> "term", term |-> "kill", kill |-> "settle"]

Waited(s) ==
  /\ escalation[s] \in DOMAIN After
  /\ \/ child[target[s]] = "exited" /\ escalation' = [escalation EXCEPT ![s] = "settle"]
     \/ child[target[s]] = "live" /\ escalation' = [escalation EXCEPT ![s] = After[@]]
  /\ UNCHANGED <<place, child, target, raced>>

\* The finally block: a recorder that survived is still owned.
SettleForgets_Slip(s) ==
  /\ escalation[s] = "settle" /\ Moves(target[s], "gone")
  /\ escalation' = [escalation EXCEPT ![s] = "none"] /\ target' = [target EXCEPT ![s] = None]
  /\ UNCHANGED <<child, raced>>
Settle(s) ==
  /\ escalation[s] = "settle"
  /\ IF child[target[s]] = "exited" THEN Moves(target[s], "gone") ELSE UNCHANGED place
  /\ escalation' = [escalation EXCEPT ![s] = "none"] /\ target' = [target EXCEPT ![s] = None]
  /\ UNCHANGED <<child, raced>>

LaunchStep(r) == Launch(r) \/ CheckPath(r) \/ Spawn(r) \/ Track(r)

Next ==
  \/ Prune
  \/ \E r \in Res : LaunchStep(r) \/ Exits(r) \/ CloseApplication(r)
  \/ \E s \in Stopper : Waited(s) \/ Settle(s) \/ \E r \in Rec : Stop(s, r)

Spec == Init /\ [][Next]_vars

\* The stop's timers fire; no child need ever exit.
Fairness == \A s \in Stopper : WF_vars(Waited(s) \/ Settle(s))

FairSpec == Spec /\ Fairness

(***************************************************************************)
(* Properties.                                                             *)
(***************************************************************************)
\* Every child that runs is owned: while its launch is in flight by that, then
\* by a map, through a refused signal, a stop that gave up on it, and two
\* stops of one recording.
LiveIsOwned ==
  \A r \in Res : child[r] = "live" => place[r] = "spawning" \/ r \in Owned(Kind(r))

\* The limit on tracked children holds unless launches overlapped.
LimitUnlessRaced ==
  \A K \in {App, Rec} : Cardinality(Owned(K) \ raced) <= MaxTracked

\* Every stop returns, even if the recorder survives SIGKILL.
EveryStopReturns == \A s \in Stopper : escalation[s] # "none" ~> escalation[s] = "none"

=============================================================================
