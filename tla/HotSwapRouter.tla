--------------------------- MODULE HotSwapRouter ----------------------------
(***************************************************************************)
(* The persistent local router in front of the replaceable backends, and   *)
(* the backends as far as routing concerns them:                           *)
(*                                                                         *)
(*   - the registry (src/src/hotswap/router.ts), in memory and on disk,    *)
(*     changed by control requests that run one at a time and spend        *)
(*     awaits probing a backend and writing the file;                      *)
(*   - the data plane, where a request is admitted, read, routed once to a *)
(*     generation and answered or given up;                                *)
(*   - the part of the backend (src/src/http-server.ts) that refuses a     *)
(*     wrong incarnation, fences a retired one and counts its exchanges.   *)
(*                                                                         *)
(* The router and any backend may crash and restart at any time; a write   *)
(* of the registry may fail before or after the rename that publishes it.  *)
(* Generations adopted from a legacy process are left out.                 *)
(***************************************************************************)
EXTENDS Naturals, Sequences, FiniteSets, SequencesExt, FiniteSetsExt, Functions, TLC

CONSTANTS
  Gen,             \* generation ids; the id is the first incarnation's
  Request,         \* data plane requests
  Launcher,        \* the requests that launch an application or a recording
  Controller,      \* clients of the control socket
  Key,             \* cancellation keys: caller, session and request id
  KeyOf(_),        \* the key of a request
  Boot,            \* what the registry file may hold when the router first starts
  MaxAdmitted,     \* requests the router holds at once (256)
  MaxGenerations,  \* generations it retains (128)
  MaxInc, MaxEpoch,  \* bounds of the model: restarts of a backend, changes
  BlindReadback,   \* TRUE iff reading the registry back may fail too
  None

First == 0                                    \* the incarnation that a generation's id names
Inc == First..MaxInc
Registry == [epoch : 0..(MaxEpoch + 1), active : Gen \cup {None}, previous : Gen \cup {None},
             generations : UNION {[S -> Inc] : S \in SUBSET Gen}]
EmptyRegistry == [epoch |-> 0, active |-> None, previous |-> None, generations |-> <<>>]
Registered(r) == DOMAIN r.generations
WellFormed(r) == {r.active, r.previous} \subseteq Registered(r) \cup {None}

ASSUME ConstantsAssumption ==
  /\ None \notin Gen \cup Request \cup Key
  /\ None \notin Registry /\ None \notin Gen \X Inc
  /\ Launcher \subseteq Request
  /\ \A r \in Request : KeyOf(r) \in Key \cup {None}
  /\ \A b \in Boot : b \in Registry /\ WellFormed(b) /\ \A g \in Registered(b) : b.generations[g] = First
  /\ {MaxAdmitted, MaxGenerations, MaxInc, MaxEpoch} \subseteq Nat
  /\ BlindReadback \in BOOLEAN

VARIABLES
  reg, disk,       \* the registry the router serves from, and the one in its file
  acked,           \* the registry of the last acknowledged change (history)
  serial, op, step, retiring,   \* the chain of control changes, and each one's progress
  status, gen, target, want, admitted, inFlight, exchanges,   \* data plane
  at, ran,         \* where each forwarded request is, and the incarnations that ran it
  inc, fenced, resources   \* of each backend: incarnation, fence, owned resources

registryVars == <<reg, disk, acked>>
controlVars == <<serial, op, step, retiring>>
planeVars == <<status, gen, target, want, admitted, inFlight, exchanges>>
backendVars == <<inc, fenced, resources>>
vars == <<registryVars, controlVars, planeVars, at, ran, backendVars>>

Kind == {"register", "rebind", "activate", "rollback", "retire"}
NoOp == [kind |-> "none", gen |-> None, inst |-> First, saw |-> EmptyRegistry]

Init ==
  /\ disk \in Boot
  /\ reg = disk
  /\ acked = disk
  /\ serial = <<>>
  /\ op = [c \in Controller |-> NoOp]
  /\ step = [c \in Controller |-> "idle"]
  /\ retiring = {}
  /\ status = [r \in Request |-> "idle"]
  /\ gen = [r \in Request |-> None]
  /\ target = [r \in Request |-> None]
  /\ want = [r \in Request |-> First]
  /\ admitted = 0
  /\ inFlight = [g \in Gen |-> 0]
  /\ exchanges = [k \in Key |-> {}]
  /\ at = [r \in Request |-> "nowhere"]
  /\ ran = [r \in Request |-> <<>>]
  /\ inc = [g \in Gen |-> First]
  /\ fenced = [g \in Gen |-> FALSE]
  /\ resources = [g \in Gen |-> {}]

-----------------------------------------------------------------------------
(* The backend's view of itself: the exchanges it executes, and whether it *)
(* owns work or resources.                                                 *)
Executing(g) == {r \in Request : at[r] = "executing" /\ gen[r] = g}
Idle(g) == Executing(g) = {} /\ resources[g] = {}

-----------------------------------------------------------------------------
(* Control plane.  A change waits for its turn in the chain, then runs to  *)
(* its end: checks, a call to the backend, the write of the registry.      *)

Turn(c) == serial # <<>> /\ Head(serial) = c

(* A controller reads the status and sends a change for that epoch.  What  *)
(* change it is matters, and is chosen, only when its turn comes.          *)
Issue(c) ==
  /\ step[c] = "idle"
  /\ reg.epoch < MaxEpoch /\ disk.epoch < MaxEpoch
  /\ serial' = Append(serial, c)
  /\ op' = [op EXCEPT ![c].saw = reg]
  /\ step' = [step EXCEPT ![c] = "queued"]
  /\ UNCHANGED <<registryVars, retiring, planeVars, at, ran, backendVars>>

(* The end of the change whose turn it is, acknowledged or refused: the    *)
(* next one may run.                                                       *)
EndChange(c) ==
  /\ serial' = Tail(serial)
  /\ op' = [op EXCEPT ![c] = NoOp]
  /\ step' = [step EXCEPT ![c] = "idle"]
  /\ retiring' = retiring \ {op[c].gen}

Fresh_Slip(c) == TRUE
Fresh(c) == op[c].saw.epoch = reg.epoch

(* What a change of kind k to generation g checks before its first await;  *)
(* i is the incarnation it rebinds to.  (register looks for an existing    *)
(* descriptor only after its probe.)                                       *)
Permitted(k, g, i) ==
  /\ k = "register" \/ g \in Registered(reg)
  /\ k = "rollback" => g = reg.previous
  /\ k \in {"rebind", "retire"} => inFlight[g] = 0
  /\ k = "rebind" => i # reg.generations[g]
  /\ k = "retire" => g \notin {reg.active, reg.previous}

Begin(c) ==
  /\ Turn(c) /\ step[c] = "queued" /\ Fresh(c)
  /\ \E k \in Kind, g \in Gen : \E i \in IF k = "rebind" THEN First..inc[g] ELSE {First} :
       /\ Permitted(k, g, i)
       /\ op' = [op EXCEPT ![c] = [kind |-> k, gen |-> g, inst |-> i, saw |-> @.saw]]
       /\ step' = [step EXCEPT ![c] = IF k = "retire" THEN "fencing" ELSE "probing"]
       /\ retiring' = IF k = "retire" THEN retiring \cup {g} ELSE retiring
  /\ UNCHANGED <<registryVars, serial, planeVars, at, ran, backendVars>>

(* A stale epoch, or a change that is not permitted, which a controller    *)
(* may always send: an unknown generation, say.                            *)
BeginRefused(c) ==
  /\ Turn(c) /\ step[c] = "queued"
  /\ EndChange(c)
  /\ UNCHANGED <<registryVars, planeVars, at, ran, backendVars>>

(* The incarnation the change expects to meet: the descriptor's.           *)
Expected(c) ==
  CASE op[c].kind = "register" -> First
    [] op[c].kind = "rebind" -> op[c].inst
    [] OTHER -> reg.generations[op[c].gen]

(* The backend answers the probe as that incarnation and not fenced.       *)
ProbeSound_Slip(c) ==
  /\ inc[op[c].gen] = Expected(c)
  /\ op[c].kind = "rebind" => Idle(op[c].gen)
ProbeSound(c) ==
  LET g == op[c].gen IN
  /\ inc[g] = Expected(c) /\ ~fenced[g]
  /\ op[c].kind = "rebind" => Idle(g)

(* After the probe: a registration that is there already and the           *)
(* activation of the active generation change nothing.                     *)
NeedsCommit(c) ==
  CASE op[c].kind = "register" -> op[c].gen \notin Registered(reg) /\ Cardinality(Registered(reg)) < MaxGenerations
    [] op[c].kind \in {"activate", "rollback"} -> reg.active # op[c].gen
    [] OTHER -> TRUE

ProbeAnswered(c) ==
  /\ Turn(c) /\ step[c] = "probing" /\ ProbeSound(c)
  /\ IF NeedsCommit(c)
     THEN step' = [step EXCEPT ![c] = "writing"] /\ UNCHANGED <<serial, op, retiring>>
     ELSE EndChange(c)
  /\ UNCHANGED <<registryVars, planeVars, at, ran, backendVars>>

(* A wrong answer, none within five seconds, or no connection.             *)
CallFails(c) ==
  /\ Turn(c) /\ step[c] \in {"probing", "fencing", "confirming"}
  /\ EndChange(c)
  /\ UNCHANGED <<registryVars, planeVars, at, ran, backendVars>>

(* The backend fences itself against new requests, if it is the expected   *)
(* incarnation and owns nothing.                                           *)
MayFenceBusy_Slip(g, i) == inc[g] = i /\ resources[g] = {}
MayFence(g, i) == inc[g] = i /\ Idle(g)
BackendFences(c) ==
  /\ Turn(c) /\ step[c] = "fencing" /\ MayFence(op[c].gen, Expected(c))
  /\ fenced' = [fenced EXCEPT ![op[c].gen] = TRUE]
  /\ step' = [step EXCEPT ![c] = "confirming"]
  /\ UNCHANGED <<registryVars, serial, op, retiring, planeVars, at, ran, inc, resources>>

(* The router hears of the fence and checks its own count again.           *)
FenceConfirmed(c) ==
  /\ Turn(c) /\ step[c] = "confirming" /\ inFlight[op[c].gen] = 0
  /\ step' = [step EXCEPT ![c] = "writing"]
  /\ UNCHANGED <<registryVars, serial, op, retiring, planeVars, at, ran, backendVars>>

(* The registry after change o of registry r.                              *)
Changed(r, o) ==
  LET next == [r EXCEPT !.epoch = @ + 1] IN
  CASE o.kind = "register" ->
         [next EXCEPT !.generations = [g \in Registered(r) \cup {o.gen} |-> IF g = o.gen THEN First ELSE @[g]]]
    [] o.kind = "rebind" -> [next EXCEPT !.generations[o.gen] = o.inst]
    [] o.kind = "retire" -> [next EXCEPT !.generations = Restrict(@, Registered(r) \ {o.gen})]
    [] OTHER -> [next EXCEPT !.active = o.gen, !.previous = r.active]

(* The write: the rename publishes the new registry on disk; the router    *)
(* serves from it once the directory is synced.                            *)
RenameSkipped_Slip(c) ==
  /\ Turn(c) /\ step[c] = "writing"
  /\ step' = [step EXCEPT ![c] = "renamed"]
  /\ UNCHANGED <<registryVars, serial, op, retiring, planeVars, at, ran, backendVars>>
Rename(c) ==
  /\ Turn(c) /\ step[c] = "writing"
  /\ disk' = Changed(reg, op[c])
  /\ step' = [step EXCEPT ![c] = "renamed"]
  /\ UNCHANGED <<reg, acked, serial, op, retiring, planeVars, at, ran, backendVars>>

Acknowledge(c) ==
  /\ Turn(c) /\ step[c] = "renamed"
  /\ reg' = Changed(reg, op[c])
  /\ acked' = reg'
  /\ EndChange(c)
  /\ UNCHANGED <<disk, planeVars, at, ran, backendVars>>

(* The write fails, before or after the rename.  The router adopts what    *)
(* the file says; if it cannot read it, it serves no active generation.    *)
Reconciled_Slip(r) == r = reg
Reconciled(r) == r = disk \/ (BlindReadback /\ r = [reg EXCEPT !.active = None])
WriteFails(c) ==
  /\ Turn(c) /\ step[c] \in {"writing", "renamed"}
  /\ \E r \in {disk, [reg EXCEPT !.active = None], reg} : Reconciled(r) /\ reg' = r
  /\ EndChange(c)
  /\ UNCHANGED <<disk, acked, planeVars, at, ran, backendVars>>

-----------------------------------------------------------------------------
(* Data plane of the router.                                               *)

Arrive(r) ==
  /\ status[r] = "idle"
  /\ IF admitted < MaxAdmitted
     THEN /\ status' = [status EXCEPT ![r] = "reading"]
          /\ admitted' = admitted + 1
     ELSE /\ status' = [status EXCEPT ![r] = "refused"]
          /\ UNCHANGED admitted
  /\ UNCHANGED <<registryVars, controlVars, gen, target, want, inFlight, exchanges, at, ran, backendVars>>

(* A follow-up carries a handle that a launch returned; it goes to the     *)
(* generation that launched.  Any other request goes to the active one.    *)
Handles == {l \in Launcher : status[l] = "replied"}
Owner(h) == IF h = None THEN reg.active ELSE gen[h]
Routable(g) == g \in Registered(reg) /\ g \notin retiring

Route(r) ==
  /\ status[r] = "reading"
  /\ \E h \in {None} \cup (IF r \in Launcher THEN {} ELSE Handles) :
       /\ Routable(Owner(h))
       /\ gen' = [gen EXCEPT ![r] = Owner(h)]
       /\ target' = [target EXCEPT ![r] = h]
       /\ want' = [want EXCEPT ![r] = reg.generations[Owner(h)]]
       /\ inFlight' = [inFlight EXCEPT ![Owner(h)] = @ + 1]
  /\ status' = [status EXCEPT ![r] = "sent"]
  /\ exchanges' = IF KeyOf(r) = None THEN exchanges ELSE [exchanges EXCEPT ![KeyOf(r)] = @ \cup {r}]
  /\ at' = [at EXCEPT ![r] = "travelling"]
  /\ UNCHANGED <<registryVars, controlVars, admitted, ran, backendVars>>

(* The body is broken or cut off, or there is no generation to route to.   *)
RouteRefused(r) ==
  /\ status[r] = "reading"
  /\ status' = [status EXCEPT ![r] = "refused"]
  /\ admitted' = admitted - 1
  /\ UNCHANGED <<registryVars, controlVars, gen, target, want, inFlight, exchanges, at, ran, backendVars>>

(* The finally block: r is answered, and counted no more.                  *)
SettleLeak_Slip(r, outcome) ==
  /\ status' = [status EXCEPT ![r] = outcome]
  /\ admitted' = admitted - 1
  /\ inFlight' = IF outcome = "cancelled" THEN inFlight ELSE [inFlight EXCEPT ![gen[r]] = Max({0, @ - 1})]
  /\ exchanges' = IF KeyOf(r) = None THEN exchanges ELSE [exchanges EXCEPT ![KeyOf(r)] = @ \ {r}]
  /\ UNCHANGED <<gen, target, want>>
Settle(r, outcome) ==
  /\ status' = [status EXCEPT ![r] = outcome]
  /\ admitted' = admitted - 1
  /\ inFlight' = [inFlight EXCEPT ![gen[r]] = Max({0, @ - 1})]
  /\ exchanges' = IF KeyOf(r) = None THEN exchanges ELSE [exchanges EXCEPT ![KeyOf(r)] = @ \ {r}]
  /\ UNCHANGED <<gen, target, want>>

(* The backend's answer is passed on, a refusal of the backend included.   *)
Reply(r) ==
  /\ status[r] = "sent"
  /\ at[r] \in {"done", "turnedAway"}
  /\ Settle(r, IF at[r] = "done" THEN "replied" ELSE "refused")
  /\ UNCHANGED <<registryVars, controlVars, at, ran, backendVars>>

(* Once the request has been handed to the connection, any failure is an   *)
(* unknown outcome: a reset, a malformed reply, a caller that left.        *)
Fail(r) ==
  /\ status[r] = "sent"
  /\ Settle(r, "unknown")
  /\ UNCHANGED <<registryVars, controlVars, at, ran, backendVars>>

(* A cancellation names exactly one exchange, or it touches none.          *)
Cancel(r) ==
  /\ KeyOf(r) # None
  /\ exchanges[KeyOf(r)] = {r}
  /\ Settle(r, "cancelled")
  /\ UNCHANGED <<registryVars, controlVars, at, ran, backendVars>>

(* The router dies and starts again from the registry in its file.         *)
Held == {r \in Request : status[r] \in {"reading", "sent"}}
RouterRestarts ==
  /\ reg' = disk
  /\ serial' = <<>>
  /\ op' = [c \in Controller |-> NoOp]
  /\ step' = [c \in Controller |-> "idle"]
  /\ retiring' = {}
  /\ status' = [r \in Request |-> IF r \in Held THEN "lost" ELSE status[r]]
  /\ admitted' = 0
  /\ inFlight' = [g \in Gen |-> 0]
  /\ exchanges' = [k \in Key |-> {}]
  /\ UNCHANGED <<disk, acked, gen, target, want, at, ran, backendVars>>

-----------------------------------------------------------------------------
(* Backends.                                                               *)

(* The incarnation the router asks a request to be executed by: the        *)
(* generation's id, whatever incarnation the registry has bound it to.     *)
RouteInstance(r) == First

AcceptsAny_Slip(r) == ~fenced[gen[r]]
Accepts(r) == RouteInstance(r) = inc[gen[r]] /\ ~fenced[gen[r]]

(* A request reaches the process that listens at its generation's address. *)
Deliver(r) ==
  /\ at[r] = "travelling"
  /\ IF Accepts(r)
     THEN /\ at' = [at EXCEPT ![r] = "executing"]
          /\ ran' = [ran EXCEPT ![r] = Append(@, inc[gen[r]])]
     ELSE /\ at' = [at EXCEPT ![r] = "turnedAway"]
          /\ UNCHANGED ran
  /\ UNCHANGED <<registryVars, controlVars, planeVars, backendVars>>

Complete(r) ==
  /\ at[r] = "executing"
  /\ at' = [at EXCEPT ![r] = "done"]
  /\ resources' = [resources EXCEPT ![gen[r]] = (@ \ {target[r]}) \cup ({r} \cap Launcher)]
  /\ UNCHANGED <<registryVars, controlVars, planeVars, ran, inc, fenced>>

(* The connection closed: what has not arrived never does, and what is     *)
(* executed is aborted.                                                    *)
Drop(r) ==
  /\ at[r] \in {"travelling", "executing"} /\ status[r] # "sent"
  /\ at' = [at EXCEPT ![r] = "gone"]
  /\ UNCHANGED <<registryVars, controlVars, planeVars, ran, backendVars>>

(* An application exits, or a recording ends, by itself.                   *)
ResourceEnds(g, h) ==
  /\ h \in resources[g]
  /\ resources' = [resources EXCEPT ![g] = @ \ {h}]
  /\ UNCHANGED <<registryVars, controlVars, planeVars, at, ran, inc, fenced>>

BackendRestarts(g) ==
  /\ inc[g] < MaxInc
  /\ inc' = [inc EXCEPT ![g] = @ + 1]
  /\ fenced' = [fenced EXCEPT ![g] = FALSE]
  /\ resources' = [resources EXCEPT ![g] = {}]
  /\ at' = [r \in Request |-> IF r \in Executing(g) THEN "gone" ELSE at[r]]
  /\ UNCHANGED <<registryVars, controlVars, planeVars, ran>>

-----------------------------------------------------------------------------
ControlStep(c) ==
  \/ Begin(c) \/ BeginRefused(c) \/ ProbeAnswered(c) \/ CallFails(c)
  \/ BackendFences(c) \/ FenceConfirmed(c) \/ Rename(c) \/ Acknowledge(c) \/ WriteFails(c)

Next ==
  \/ \E c \in Controller : Issue(c)
  \/ \E c \in Controller : ControlStep(c)
  \/ \E r \in Request : Arrive(r) \/ Route(r) \/ RouteRefused(r) \/ Reply(r) \/ Fail(r) \/ Cancel(r)
  \/ RouterRestarts
  \/ \E r \in Request : Deliver(r) \/ Complete(r) \/ Drop(r)
  \/ \E g \in Gen : BackendRestarts(g) \/ \E h \in Launcher : ResourceEnds(g, h)

Spec == Init /\ [][Next]_vars

-----------------------------------------------------------------------------
(* Properties.                                                             *)

TypeOK ==
  /\ {reg, disk, acked} \subseteq Registry
  /\ \A r \in {reg, disk, acked} : WellFormed(r)
  /\ ToSet(serial) = {c \in Controller : step[c] # "idle"} /\ IsInjective(serial)
  /\ \A c \in Controller : step[c] \in {"idle", "queued", "probing", "fencing", "confirming", "writing", "renamed"}
  /\ retiring \subseteq Gen
  /\ status \in [Request -> {"idle", "reading", "sent", "replied", "refused", "unknown", "cancelled", "lost"}]
  /\ at \in [Request -> {"nowhere", "travelling", "executing", "turnedAway", "done", "gone"}]
  /\ gen \in [Request -> Gen \cup {None}] /\ want \in [Request -> Inc]
  /\ target \in [Request -> Launcher \cup {None}]
  /\ inc \in [Gen -> Inc] /\ fenced \in [Gen -> BOOLEAN]
  /\ resources \in [Gen -> SUBSET Launcher]

(* The counters the overload guard and the retirement checks read, and the *)
(* map that cancellation looks in, are the requests the router really      *)
(* holds (router.ts:264, 299, 314, 380-384), across every way a request ends. *)
CountersExact ==
  /\ TypeOK
  /\ admitted = Cardinality(Held)
  /\ \A g \in Gen : inFlight[g] = Cardinality({r \in Request : status[r] = "sent" /\ gen[r] = g})
  /\ \A k \in Key : exchanges[k] = {r \in Request : status[r] = "sent" /\ KeyOf(r) = k}

(* Outside the instant between rename and acknowledgement, the router      *)
(* routes as the file says, or routes nowhere (router.ts:126-127).         *)
RoutesAsOnDisk ==
  (\A c \in Controller : step[c] # "renamed") => reg.active \in {disk.active, None}

(* A router that could not read its registry back: it remembers that       *)
(* registry without its active generation, or the one before it.           *)
Blind == reg # disk /\ \A c \in Controller : step[c] # "renamed"

(* Registry s is r after one decision: a selection, which touches no        *)
(* generation, or a change of one generation, which selects nothing.       *)
Succeeds(r, s) ==
  /\ s.epoch = r.epoch + 1
  /\ \/ s.generations = r.generations /\ s.active \in Registered(r) /\ s.previous = r.active
     \/ /\ s.active = r.active /\ s.previous = r.previous
        /\ \E g \in Gen : Restrict(s.generations, Registered(s) \ {g}) = Restrict(r.generations, Registered(r) \ {g})

(* A change that was acknowledged is never undone, whatever failed or       *)
(* restarted: the file holds it, or a decision of a later epoch, and each  *)
(* decision leaves in force what it does not change: an activation until   *)
(* the next one, a generation until it is retired or rebound.  A router    *)
(* that goes on blind (router.ts:129) keeps this promise only for what it  *)
(* remembers: its next decision (router.ts:154, 174) publishes "no active  *)
(* generation" over an acknowledged activation.                            *)
Supersedes(r, s) == r.epoch > s.epoch \/ r \in {s, [s EXCEPT !.active = None]}
Superseding == (disk = acked \/ disk.epoch > acked.epoch) /\ Supersedes(reg, acked)
AcknowledgedHolds ==
  [][/\ Superseding /\ Superseding'
     /\ disk' # disk => Succeeds(IF Blind THEN reg ELSE disk, disk')]_vars

(* A change is published over the registry its author saw: whatever ran,    *)
(* failed or restarted in between, no update of another controller is      *)
(* overwritten.  An author may have asked a blind router, and saw all but  *)
(* the active generation.  A change that a blind router itself publishes   *)
(* is made to what the author saw without the active generation, and       *)
(* overwrites what the router could not read (router.ts:127-129).          *)
NoLostUpdate ==
  [][\A c \in Controller : step[c] = "writing" /\ step'[c] = "renamed" =>
       LET saw == op[c].saw IN
       IF Blind THEN disk' = Changed([saw EXCEPT !.active = None], op[c])
       ELSE saw \in {disk, [disk EXCEPT !.active = None]} /\ disk' = Changed(disk, op[c])]_vars

(* Retirement strands nothing: a fenced process executes no request and    *)
(* holds no application or recording, and never will; nor does a           *)
(* generation the router has dropped, and no request is on its way there.  *)
RetiredOwnsNothing ==
  /\ \A g \in Gen : fenced[g] => Idle(g)
  /\ \A g \in Gen \ (Registered(reg) \cup Registered(disk)) : Idle(g) /\ inFlight[g] = 0

(* A request runs at most once, and only in the process that its           *)
(* generation meant when the request was routed, whatever restarted since; *)
(* and its answer is honest: a request reported as refused never ran, and  *)
(* one reported as done ran (router.ts:307, 376).                          *)
RunsOnceWhereBound ==
  \A r \in Request : ran[r] \in {<<>>, <<want[r]>>}
AnswersHonest ==
  \A r \in Request :
    /\ status[r] \in {"reading", "refused"} => ran[r] = <<>>
    /\ status[r] = "replied" => Len(ran[r]) = 1
RequestsHonest == RunsOnceWhereBound /\ AnswersHonest

(* The active generation is never a retired one: its process, if it is     *)
(* still the one the registry means, is not fenced.                        *)
ActiveServes ==
  reg.active # None =>
    ~(fenced[reg.active] /\ inc[reg.active] = reg.generations[reg.active])

(* A backend turns a request away for its incarnation only if it is not    *)
(* the incarnation the registry bound the generation to.                   *)
MismatchMeansRestarted ==
  \A r \in Request :
    at[r] = "turnedAway" => fenced[gen[r]] \/ inc[gen[r]] # want[r]

-----------------------------------------------------------------------------
(* The promise RouterPromise makes.                                        *)

Asked(c) == IF step[c] = "idle" THEN None ELSE op[c].saw

Answered(r) ==
  CASE status[r] \in {"reading", "sent"} -> "open"
    [] status[r] \in {"unknown", "cancelled", "lost"} -> "unknown"
    [] OTHER -> status[r]

Bound(r) == IF at[r] = "nowhere" THEN None ELSE <<gen[r], want[r]>>

Promise == INSTANCE RouterPromise WITH
  decided <- disk,
  served <- reg,
  seen <- [c \in Controller |-> Asked(c)],
  deciding <- {c \in Controller : step[c] = "renamed"},
  call <- [r \in Request |-> Answered(r)],
  bound <- [r \in Request |-> Bound(r)],
  owned <- resources

(* Although a change is checked, probed, fenced, written and acknowledged  *)
(* in steps with requests, failures and restarts in between, every step of *)
(* the router and the backends is a step of RouterPromise, or none: each   *)
(* check still holds at the rename (router.ts:161-219).                    *)
KeepsPromise == Promise!Spec

=============================================================================
