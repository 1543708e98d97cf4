------------------------------- MODULE SlotPool -------------------------------
(***************************************************************************)
(* What the admission controller promises its callers, without the queues, *)
(* the counters and the drain loop of Admission: calls of several classes  *)
(* compete for pools of slots; a call may run when every pool of its class *)
(* has a slot; of the calls of one class that wait, only the first to come *)
(* may start; the number of those that wait is bounded.                    *)
(***************************************************************************)
EXTENDS Naturals, FiniteSets

CONSTANTS
  Request,       \* the calls
  Class,         \* their classes
  Slots,         \* the slot pools
  SlotsOf,       \* SlotsOf[k]: the pools a class needs a slot of
  Size,          \* Size[p]: the number of slots of a pool
  Room           \* how many calls may wait, all classes together

VARIABLES
  holds,         \* holds[p]: the calls that hold a slot of pool p
  waits,         \* waits[k]: the calls of class k that wait
  before,        \* the pairs of waiting calls of one class, the earlier first
  gone           \* the calls that have ended or were turned away

vars == <<holds, waits, before, gone>>

Init ==
  /\ holds = [p \in Slots |-> {}]
  /\ waits = [k \in Class |-> {}]
  /\ before = {}
  /\ gone = {}

Holders == UNION {holds[p] : p \in Slots}
InLine == UNION {waits[k] : k \in Class}
Fresh(r) == r \notin Holders \cup InLine \cup gone

Fits(k) == \A p \in SlotsOf[k] : Cardinality(holds[p]) < Size[p]
First(k) == {r \in waits[k] : \A s \in waits[k] : <<s, r>> \notin before}

Take(r, k) == holds' = [p \in Slots |-> IF p \in SlotsOf[k] THEN holds[p] \cup {r} ELSE holds[p]]
Leave(r, k) ==
  /\ waits' = [waits EXCEPT ![k] = @ \ {r}]
  /\ before' = {p \in before : r \notin {p[1], p[2]}}

(* A new call starts only if no call of its class waits.                   *)
Enter(r, k) ==
  /\ Fresh(r) /\ waits[k] = {} /\ Fits(k)
  /\ Take(r, k)
  /\ UNCHANGED <<waits, before, gone>>

Queue(r, k) ==
  /\ Fresh(r) /\ ~Fits(k) /\ Cardinality(InLine) < Room
  /\ waits' = [waits EXCEPT ![k] = @ \cup {r}]
  /\ before' = before \cup (waits[k] \X {r})
  /\ UNCHANGED <<holds, gone>>

TurnAway(r) ==
  /\ Fresh(r)
  /\ gone' = gone \cup {r}
  /\ UNCHANGED <<holds, waits, before>>

Start(r, k) ==
  /\ Fits(k) /\ r \in First(k)
  /\ Take(r, k) /\ Leave(r, k)
  /\ UNCHANGED gone

GiveUp(r, k) ==
  /\ r \in waits[k]
  /\ Leave(r, k)
  /\ gone' = gone \cup {r}
  /\ UNCHANGED holds

Release(r) ==
  /\ r \in Holders
  /\ holds' = [p \in Slots |-> holds[p] \ {r}]
  /\ gone' = gone \cup {r}
  /\ UNCHANGED <<waits, before>>

Next ==
  \E r \in Request :
    \/ TurnAway(r) \/ Release(r)
    \/ \E k \in Class : Enter(r, k) \/ Queue(r, k) \/ Start(r, k) \/ GiveUp(r, k)

Spec == Init /\ [][Next]_vars

=============================================================================
