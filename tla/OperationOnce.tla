--------------------------- MODULE OperationOnce ----------------------------
(***************************************************************************)
(* What the durable job ledger promises of each operation identifier,      *)
(* whatever fails: it stands for one request, the request is executed at   *)
(* most once, its outcome once recorded never changes, and nobody is told  *)
(* that a different request was accepted under it.                         *)
(***************************************************************************)
CONSTANTS Operation, Request, None

VARIABLES
  life,   \* of each operation: where it is in its life
  asked,  \* the request it stands for
  told    \* the requests whose submitters were told of acceptance

Outcome == {"succeeded", "failed", "cancelled"}
Life == {"free", "reserved", "running", "forgotten"} \cup Outcome

Init ==
  /\ life = [o \in Operation |-> "free"]
  /\ asked = [o \in Operation |-> None]
  /\ told = [o \in Operation |-> {}]

Reserve(o, r) ==
  /\ life[o] = "free"
  /\ life' = [life EXCEPT ![o] = "reserved"]
  /\ asked' = [asked EXCEPT ![o] = r]
  /\ UNCHANGED told

Tell(o) ==
  /\ asked[o] # None
  /\ told' = [told EXCEPT ![o] = @ \cup {asked[o]}]
  /\ UNCHANGED <<life, asked>>

Run(o) ==
  /\ life[o] = "reserved"
  /\ life' = [life EXCEPT ![o] = "running"]
  /\ UNCHANGED <<asked, told>>

(* An operation may be decided without running: cancelled, or failed.      *)
Decide(o) ==
  /\ \/ life[o] = "running" /\ \E result \in Outcome : life' = [life EXCEPT ![o] = result]
     \/ life[o] = "reserved" /\ \E result \in {"failed", "cancelled"} : life' = [life EXCEPT ![o] = result]
  /\ UNCHANGED <<asked, told>>

(* The record of a decided operation expires.                              *)
Forget(o) ==
  /\ life[o] \in Outcome
  /\ life' = [life EXCEPT ![o] = "forgotten"]
  /\ asked' = [asked EXCEPT ![o] = None]
  /\ UNCHANGED told

Next ==
  \E o \in Operation :
    \/ \E r \in Request : Reserve(o, r)
    \/ Tell(o) \/ Run(o) \/ Decide(o) \/ Forget(o)

Spec == Init /\ [][Next]_<<life, asked, told>>

=============================================================================
