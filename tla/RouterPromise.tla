---------------------------- MODULE RouterPromise ----------------------------
(***************************************************************************)
(* What the hot-swap router and its backends promise, without the chain,   *)
(* the probes, the fences, the counters and the file of HotSwapRouter:     *)
(*                                                                         *)
(*   - to a controller: a registry with compare-and-swap, where a change   *)
(*     takes effect in one step, is lawful when it does, and is never      *)
(*     undone once acknowledged;                                           *)
(*   - to a caller: a request is bound once to a registered generation,    *)
(*     runs there at most once, and is answered truly;                     *)
(*   - to both: a generation leaves the registry only when nothing is      *)
(*     under way or owned there, and nothing runs there afterwards.        *)
(***************************************************************************)
EXTENDS Naturals, FiniteSets

CONSTANTS
  Gen, Inc,        \* generations, and the incarnations of each
  First,           \* the incarnation a generation is registered with
  Request, Launcher, Controller,
  Boot,            \* the registries to start from
  MaxAdmitted, MaxGenerations,
  None

VARIABLES
  decided,         \* the registry of the latest decision
  served,          \* the one that requests are routed by
  acked,           \* the latest that was acknowledged
  seen,            \* seen[c]: the registry that the change c asks for is meant for
  deciding,        \* who has decided a change and is not answered yet
  call,            \* call[r]: what the caller of r knows
  bound,           \* bound[r]: generation and incarnation that r is bound to
  ran,             \* ran[r]: the incarnations that executed r
  owned            \* owned[g]: the launches whose resource lives in g

control == <<decided, served, acked, seen, deciding>>
plane == <<call, bound, ran>>
vars == <<control, plane, owned>>

Init ==
  /\ decided \in Boot /\ served = decided /\ acked = decided
  /\ seen = [c \in Controller |-> None]
  /\ deciding = {}
  /\ call = [r \in Request |-> "idle"]
  /\ bound = [r \in Request |-> None]
  /\ ran = [r \in Request |-> <<>>]
  /\ owned = [g \in Gen |-> {}]

Registered(r) == DOMAIN r.generations
Open == {r \in Request : call[r] = "open"}
BoundTo(r, g) == bound[r] # None /\ bound[r][1] = g

-----------------------------------------------------------------------------
(* The registry.  d is the decision that a change turns into e.            *)

Unused(g) == owned[g] = {} /\ \A r \in Open : ~BoundTo(r, g)

Registers(d, e, g) ==
  /\ g \notin Registered(d) /\ Cardinality(Registered(d)) < MaxGenerations
  /\ e.generations = [h \in Registered(d) \cup {g} |-> IF h = g THEN First ELSE d.generations[h]]
  /\ e.active = d.active /\ e.previous = d.previous

Rebinds(d, e, g) ==
  /\ g \in Registered(d)
  /\ \E i \in Inc \ {d.generations[g]} : e.generations = [d.generations EXCEPT ![g] = i]
  /\ e.active = d.active /\ e.previous = d.previous

Activates(d, e, g) ==
  /\ g \in Registered(d) \ {d.active}
  /\ e.generations = d.generations
  /\ e.active = g /\ e.previous = d.active

Retires(d, e, g) ==
  /\ g \in Registered(d) \ {d.active, d.previous} /\ Unused(g)
  /\ e.generations = [h \in Registered(d) \ {g} |-> d.generations[h]]
  /\ e.active = d.active /\ e.previous = d.previous

Ask(c) ==
  /\ seen[c] = None
  /\ seen' = [seen EXCEPT ![c] = served]
  /\ UNCHANGED <<decided, served, acked, deciding, plane, owned>>

(* One change at a time, of the very registry that its author saw.         *)
Decide(c) ==
  /\ deciding = {} /\ seen[c] = decided
  /\ decided'.epoch = decided.epoch + 1
  /\ \E g \in Gen :
       \/ Registers(decided, decided', g) \/ Rebinds(decided, decided', g)
       \/ Activates(decided, decided', g) \/ Retires(decided, decided', g)
  /\ deciding' = {c}
  /\ UNCHANGED <<served, acked, seen, plane, owned>>

Confirm(c) ==
  /\ c \in deciding
  /\ served' = decided /\ acked' = decided
  /\ seen' = [seen EXCEPT ![c] = None]
  /\ deciding' = deciding \ {c}
  /\ UNCHANGED <<decided, plane, owned>>

(* The controller is told of a failure, or of nothing to do.  A decision   *)
(* that was made by then stands.                                           *)
Refuse(c) ==
  /\ seen[c] # None
  /\ served' = IF c \in deciding THEN decided ELSE served
  /\ seen' = [seen EXCEPT ![c] = None]
  /\ deciding' = deciding \ {c}
  /\ UNCHANGED <<decided, acked, plane, owned>>

-----------------------------------------------------------------------------
(* The requests.                                                           *)

Answer(r, what) == call' = [call EXCEPT ![r] = what] /\ UNCHANGED <<control, bound, ran, owned>>

Admit(r) == call[r] = "idle" /\ Cardinality(Open) < MaxAdmitted /\ Answer(r, "open")

(* To the active generation, or to the one whose launch the caller names.  *)
Destinations(r) ==
  {served.active} \cup
  {g \in Gen : r \notin Launcher /\ \E l \in Launcher : call[l] = "replied" /\ BoundTo(l, g)}

Bind(r) ==
  /\ call[r] = "open" /\ bound[r] = None
  /\ \E g \in Destinations(r) \cap Registered(served) \cap Registered(decided) :
       bound' = [bound EXCEPT ![r] = <<g, served.generations[g]>>]
  /\ UNCHANGED <<control, call, ran, owned>>

Run(r) ==
  /\ \E g \in Registered(decided) : BoundTo(r, g)
  /\ ran[r] = <<>> /\ call[r] # "refused"
  /\ ran' = [ran EXCEPT ![r] = <<bound[r][2]>>]
  /\ UNCHANGED <<control, call, bound, owned>>

(* Told that it ran, that it did not, or that nobody knows.                *)
Replied(r) == call[r] = "open" /\ ran[r] # <<>> /\ Answer(r, "replied")
TurnedAway(r) == call[r] \in {"idle", "open"} /\ ran[r] = <<>> /\ Answer(r, "refused")
Unknown(r) == call[r] = "open" /\ Answer(r, "unknown")

Launch(r) ==
  /\ r \in Launcher /\ ran[r] # <<>>
  /\ \E g \in Registered(decided) : BoundTo(r, g) /\ owned' = [owned EXCEPT ![g] = @ \cup {r}]
  /\ UNCHANGED <<control, plane>>

End(g) ==
  /\ \E gone \in SUBSET owned[g] : owned' = [owned EXCEPT ![g] = @ \ gone]
  /\ UNCHANGED <<control, plane>>

(* The router dies and starts again: no request it held will be answered,  *)
(* no controller that waits; what was decided stands.                      *)
Restart ==
  /\ served' = decided
  /\ seen' = [c \in Controller |-> None]
  /\ deciding' = {}
  /\ call' = [r \in Request |-> IF r \in Open THEN "unknown" ELSE call[r]]
  /\ UNCHANGED <<decided, acked, bound, ran, owned>>

Next ==
  \/ \E c \in Controller : Ask(c) \/ Decide(c) \/ Confirm(c) \/ Refuse(c)
  \/ \E r \in Request :
       \/ Admit(r) \/ Bind(r) \/ Run(r) \/ Launch(r)
       \/ Replied(r) \/ TurnedAway(r) \/ Unknown(r)
  \/ \E g \in Gen : End(g)
  \/ Restart

Spec == Init /\ [][Next]_vars

=============================================================================
