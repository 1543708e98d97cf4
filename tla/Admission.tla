------------------------------ MODULE Admission ------------------------------
(***************************************************************************)
(* The process-wide admission controller of the HTTP backend               *)
(* (src/concurrency.ts, class ConcurrencyController): every tool call goes *)
(* through run(), which starts it, queues it or refuses it.                *)
(*                                                                         *)
(* The controller lives on the event loop of one process, so a handler     *)
(* (a call of run, a timer, an abort event, the continuation after a       *)
(* command) runs to its end before the next one begins.  Four of them end  *)
(* with drain(), a loop that starts waiting entries until none can start.  *)
(* The variable draining is TRUE from the point where a handler enters     *)
(* that loop until it leaves it: an iteration of the loop is a step, and   *)
(* no other step is possible before the loop has ended.                    *)
(*                                                                         *)
(* An operator whose name ends in _Slip is a plausible slip in the         *)
(* definition that follows it; it is part of no specification and serves   *)
(* to show that a property can fail.                                       *)
(***************************************************************************)
EXTENDS Integers, Sequences, FiniteSets, SequencesExt

CONSTANTS
  Request,                        \* calls of run(), each with its own signal
  MaxConcurrent,                  \* config.maxConcurrent
  ReservedControlSlots,           \* config.reservedControlSlots
  ShellMaxConcurrent,             \* config.shellMaxConcurrent
  ReservedInteractiveShellSlots,  \* config.reservedInteractiveShellSlots
  RemoteShellMaxConcurrent,       \* execution.kubernetes.maxConcurrent
  MaxQueue                        \* config.maxQueue

(* What the configuration schema accepts (src/config.ts).                  *)
ASSUME LimitsAssumption ==
  /\ MaxConcurrent \in Nat /\ MaxConcurrent >= 2
  /\ ReservedControlSlots \in Nat /\ ReservedControlSlots < MaxConcurrent
  /\ ShellMaxConcurrent \in Nat \ {0}
  /\ ShellMaxConcurrent <= MaxConcurrent - ReservedControlSlots
  /\ ReservedInteractiveShellSlots \in Nat
  /\ ReservedInteractiveShellSlots < ShellMaxConcurrent
  /\ RemoteShellMaxConcurrent \in Nat \ {0}
  /\ MaxQueue \in Nat \ {0}

ASSUME RequestAssumption == IsFiniteSet(Request)

AdmissionClass == {"control", "normal", "shell-local", "shell-local-long", "shell-remote"}
LocalShell == {"shell-local", "shell-local-long"}

(* The counters of running work; every class occupies some of the pools.   *)
Pool == {"total", "control", "nonControl", "shellLocal", "shellLocalLong", "shellRemote"}

PoolsOf(k) ==
  {"total", IF k = "control" THEN "control" ELSE "nonControl"}
    \cup (IF k \in LocalShell THEN {"shellLocal"} ELSE {})
    \cup (IF k = "shell-local-long" THEN {"shellLocalLong"} ELSE {})
    \cup (IF k = "shell-remote" THEN {"shellRemote"} ELSE {})

(* "cancelled": the signal had fired before run(); "withdrawn": it fired   *)
(* while the entry waited.  Both reject the caller with CANCELLED.         *)
Settled == {"completed", "rejected", "timedOut", "cancelled", "withdrawn"}
Status == {"idle", "queued", "running"} \cup Settled
Counter == {"submitted", "accepted", "started", "completed", "rejected", "timedOut", "cancelled"}

VARIABLES
  status,         \* where each call of run() stands
  kind,           \* the class of a call that waits or runs
  aborted,        \* the calls whose AbortSignal has fired
  controlQueue,   \* waiting entries of class control
  regularQueue,   \* waiting entries of the other classes
  active,         \* the six active* counters
  counters,       \* the seven event counters
  draining        \* a handler is inside the loop of drain()

vars == <<status, kind, aborted, controlQueue, regularQueue, active, counters, draining>>

Init ==
  /\ status = [r \in Request |-> "idle"]
  /\ kind = [r \in Request |-> "none"]
  /\ aborted = {}
  /\ controlQueue = <<>>
  /\ regularQueue = <<>>
  /\ active = [p \in Pool |-> 0]
  /\ counters = [c \in Counter |-> 0]
  /\ draining = FALSE

-----------------------------------------------------------------------------
(* Limits and the start condition.                                         *)

MaxNonControlConcurrent == MaxConcurrent - ReservedControlSlots
LongShellMaxConcurrent == ShellMaxConcurrent - ReservedInteractiveShellSlots

QueuedTotal == Len(controlQueue) + Len(regularQueue)

CanStartOneOver_Slip(k) ==
  /\ active["total"] <= MaxConcurrent
  /\ k # "control" => active["nonControl"] < MaxNonControlConcurrent

CanStart(k) ==
  /\ active["total"] < MaxConcurrent
  /\ k # "control" => active["nonControl"] < MaxNonControlConcurrent
  /\ k \in LocalShell => active["shellLocal"] < ShellMaxConcurrent
  /\ k = "shell-local-long" => active["shellLocalLong"] < LongShellMaxConcurrent
  /\ k = "shell-remote" => active["shellRemote"] < RemoteShellMaxConcurrent

Count(names) == counters' = [c \in Counter |-> IF c \in names THEN counters[c] + 1 ELSE counters[c]]

(* execute() up to the command's first suspension, and its finally block.  *)
Occupy(k) == active' = [p \in Pool |-> IF p \in PoolsOf(k) THEN active[p] + 1 ELSE active[p]]
VacateNotLong_Slip(k) ==
  active' = [p \in Pool |-> IF p \in PoolsOf(k) \ {"shellLocalLong"} THEN active[p] - 1 ELSE active[p]]
Vacate(k) == active' = [p \in Pool |-> IF p \in PoolsOf(k) THEN active[p] - 1 ELSE active[p]]

-----------------------------------------------------------------------------
(* run(): a caller submits request r, whose operation is of class k.       *)

(* The signal had already fired.                                           *)
SubmitAborted(r) ==
  /\ ~draining /\ status[r] = "idle" /\ r \in aborted
  /\ status' = [status EXCEPT ![r] = "cancelled"]
  /\ Count({"submitted", "cancelled"})
  /\ UNCHANGED <<kind, aborted, controlQueue, regularQueue, active, draining>>

(* There is a slot: the call starts without passing through a queue.       *)
SubmitStarts(r, k) ==
  /\ ~draining /\ status[r] = "idle" /\ r \notin aborted
  /\ CanStart(k)
  /\ status' = [status EXCEPT ![r] = "running"]
  /\ kind' = [kind EXCEPT ![r] = k]
  /\ Occupy(k)
  /\ Count({"submitted", "accepted", "started"})
  /\ UNCHANGED <<aborted, controlQueue, regularQueue, draining>>

(* No slot, and the two queues together are at their common limit.         *)
SubmitRejected(r, k) ==
  /\ ~draining /\ status[r] = "idle" /\ r \notin aborted
  /\ ~CanStart(k) /\ QueuedTotal >= MaxQueue
  /\ status' = [status EXCEPT ![r] = "rejected"]
  /\ Count({"submitted", "rejected"})
  /\ UNCHANGED <<kind, aborted, controlQueue, regularQueue, active, draining>>

(* No slot, but room to wait: push, arm the timer and the abort listener,  *)
(* then drain.                                                             *)
SubmitQueued(r, k) ==
  /\ ~draining /\ status[r] = "idle" /\ r \notin aborted
  /\ ~CanStart(k) /\ QueuedTotal < MaxQueue
  /\ status' = [status EXCEPT ![r] = "queued"]
  /\ kind' = [kind EXCEPT ![r] = k]
  /\ IF k = "control"
       THEN controlQueue' = Append(controlQueue, r) /\ UNCHANGED regularQueue
       ELSE regularQueue' = Append(regularQueue, r) /\ UNCHANGED controlQueue
  /\ Count({"submitted", "accepted"})
  /\ draining' = TRUE
  /\ UNCHANGED <<aborted, active>>

-----------------------------------------------------------------------------
(* Events of a submitted request.                                          *)

(* removeQueued(): the entry leaves whichever queue holds it.              *)
RemoveQueuedKeeps_Slip(r) ==
  /\ r \in ToSet(controlQueue) \cup ToSet(regularQueue)
  /\ UNCHANGED <<controlQueue, regularQueue>>

RemoveQueued(r) ==
  /\ \/ \E i \in DOMAIN controlQueue :
          /\ controlQueue[i] = r
          /\ controlQueue' = RemoveAt(controlQueue, i)
          /\ UNCHANGED regularQueue
     \/ \E i \in DOMAIN regularQueue :
          /\ regularQueue[i] = r
          /\ regularQueue' = RemoveAt(regularQueue, i)
          /\ UNCHANGED controlQueue

(* The queue timer of a waiting entry fires.                               *)
QueueTimeout(r) ==
  /\ ~draining
  /\ RemoveQueued(r)
  /\ status' = [status EXCEPT ![r] = "timedOut"]
  /\ kind' = [kind EXCEPT ![r] = "none"]
  /\ Count({"timedOut"})
  /\ draining' = TRUE
  /\ UNCHANGED <<aborted, active>>

(* The signal fires before run() is called.                                *)
AbortEarly(r) ==
  /\ ~draining /\ status[r] = "idle" /\ r \notin aborted
  /\ aborted' = aborted \cup {r}
  /\ UNCHANGED <<status, kind, controlQueue, regularQueue, active, counters, draining>>

(* ... while the entry waits: the listener run() installed.                *)
AbortQueued(r) ==
  /\ ~draining /\ r \notin aborted
  /\ RemoveQueued(r)
  /\ aborted' = aborted \cup {r}
  /\ status' = [status EXCEPT ![r] = "withdrawn"]
  /\ kind' = [kind EXCEPT ![r] = "none"]
  /\ Count({"cancelled"})
  /\ draining' = TRUE
  /\ UNCHANGED <<active>>

(* ... while the command runs: the listener execute() installed only       *)
(* counts; ending the command is the business of the command.              *)
AbortRunning(r) ==
  /\ ~draining /\ status[r] = "running" /\ r \notin aborted
  /\ aborted' = aborted \cup {r}
  /\ Count({"cancelled"})
  /\ UNCHANGED <<status, kind, controlQueue, regularQueue, active, draining>>

(* The command settles, either way: the finally block of execute().        *)
FinishNoDrain_Slip(r) ==
  /\ ~draining /\ status[r] = "running"
  /\ status' = [status EXCEPT ![r] = "completed"]
  /\ kind' = [kind EXCEPT ![r] = "none"]
  /\ Vacate(kind[r])
  /\ Count({"completed"})
  /\ UNCHANGED <<aborted, controlQueue, regularQueue, draining>>

Finish(r) ==
  /\ ~draining /\ status[r] = "running"
  /\ status' = [status EXCEPT ![r] = "completed"]
  /\ kind' = [kind EXCEPT ![r] = "none"]
  /\ Vacate(kind[r])
  /\ Count({"completed"})
  /\ draining' = TRUE
  /\ UNCHANGED <<aborted, controlQueue, regularQueue>>

-----------------------------------------------------------------------------
(* drain().                                                                *)

(* takeStartable(): the position of the first entry that can start.        *)
Startable(queue) == {i \in DOMAIN queue : CanStart(kind[queue[i]])}
AnyStartable_Slip(queue) == Startable(queue)
FirstStartable(queue) == {i \in Startable(queue) : \A j \in Startable(queue) : i <= j}

DrainStart(r) ==
  /\ status' = [status EXCEPT ![r] = "running"]
  /\ Occupy(kind[r])
  /\ Count({"started"})
  /\ UNCHANGED <<kind, aborted, draining>>

DrainControl ==
  /\ draining
  /\ \E i \in FirstStartable(controlQueue) :
       /\ controlQueue' = RemoveAt(controlQueue, i)
       /\ DrainStart(controlQueue[i])
  /\ UNCHANGED regularQueue

DrainRegularEager_Slip ==
  /\ draining
  /\ \E i \in FirstStartable(regularQueue) :
       /\ regularQueue' = RemoveAt(regularQueue, i)
       /\ DrainStart(regularQueue[i])
  /\ UNCHANGED controlQueue

DrainRegular ==
  /\ draining
  /\ FirstStartable(controlQueue) = {}
  /\ \E i \in FirstStartable(regularQueue) :
       /\ regularQueue' = RemoveAt(regularQueue, i)
       /\ DrainStart(regularQueue[i])
  /\ UNCHANGED controlQueue

DrainEnd ==
  /\ draining
  /\ FirstStartable(controlQueue) = {} /\ FirstStartable(regularQueue) = {}
  /\ draining' = FALSE
  /\ UNCHANGED <<status, kind, aborted, controlQueue, regularQueue, active, counters>>

Drain == DrainControl \/ DrainRegular \/ DrainEnd

Submit(r, k) ==
  \/ SubmitAborted(r)
  \/ SubmitStarts(r, k)
  \/ SubmitRejected(r, k)
  \/ SubmitQueued(r, k)

Next ==
  \/ \E r \in Request :
       \/ \E k \in AdmissionClass : Submit(r, k)
       \/ QueueTimeout(r)
       \/ AbortEarly(r)
       \/ AbortQueued(r)
       \/ AbortRunning(r)
       \/ Finish(r)
  \/ Drain

Spec == Init /\ [][Next]_vars

(* A loop the event loop has entered ends, and every command settles, as   *)
(* each has a time limit.  Nothing is assumed of the queue timers.         *)
CommandSpec == Spec /\ WF_vars(Drain) /\ \A r \in Request : WF_vars(Finish(r))

-----------------------------------------------------------------------------
Running == {r \in Request : status[r] = "running"}
Occupants(p) == {r \in Running : p \in PoolsOf(kind[r])}
Waiting == {r \in Request : status[r] = "queued"}

TypeOK ==
  /\ status \in [Request -> Status]
  /\ kind \in [Request -> AdmissionClass \cup {"none"}]
  /\ aborted \subseteq Request
  /\ controlQueue \in Seq(Request)
  /\ regularQueue \in Seq(Request)
  /\ active \in [Pool -> Nat]
  /\ counters \in [Counter -> Nat]
  /\ draining \in BOOLEAN

(* Each active* counter is the number of calls that occupy its pool.       *)
ActiveIsExact == \A p \in Pool : active[p] = Cardinality(Occupants(p))

(* The counters the start condition reads are the requests that really     *)
(* occupy each pool, and none goes below zero: every path out of execute() *)
(* undoes what its path in did, for the class the request was started with *)
(* (lines 268-273, 293-298 of src/concurrency.ts).                         *)
CountersExact == TypeOK /\ ActiveIsExact

(* The limits of HEAVY-CONCURRENCY-HARDENING.md section 2.1, for the work  *)
(* that really runs: total, non-control, local, long local, remote.        *)
CapsHold ==
  /\ Cardinality(Running) <= MaxConcurrent
  /\ Cardinality(Occupants("nonControl")) <= MaxNonControlConcurrent
  /\ Cardinality(Occupants("shellLocal")) <= ShellMaxConcurrent
  /\ Cardinality(Occupants("shellLocalLong")) <= LongShellMaxConcurrent
  /\ Cardinality(Occupants("shellRemote")) <= RemoteShellMaxConcurrent
  /\ Cardinality(Waiting) <= MaxQueue

(* No lost wakeup: between two handlers nothing that waits could start.    *)
(* run() relies on it when it starts a call without looking at the queue.  *)
NoStartableWaiter == ~draining => \A r \in Waiting : ~CanStart(kind[r])

(* The reserved slots: a control call waits only behind at least           *)
(* ReservedControlSlots running control calls, an interactive shell call   *)
(* with non-control capacity left only behind at least                     *)
(* ReservedInteractiveShellSlots running interactive ones.                 *)
ReservesHold ==
  ~draining =>
    \A r \in Waiting :
      /\ kind[r] = "control" => active["control"] >= ReservedControlSlots
      /\ /\ kind[r] = "shell-local"
         /\ active["nonControl"] < MaxNonControlConcurrent
         /\ active["total"] < MaxConcurrent
         => active["shellLocal"] - active["shellLocalLong"] >= ReservedInteractiveShellSlots

(* Both kinds of limit, which the same start condition (canStart) and the  *)
(* same counters must keep: a bug in one often trades it for the other.    *)
LimitsHold == CapsHold /\ ReservesHold

-----------------------------------------------------------------------------
(* The inductive invariant behind the safety properties: each waiting call *)
(* is in exactly one queue, the one of its class; the counters respect the *)
(* limits and their own sum.                                               *)

QueuesExact ==
  /\ IsInjective(controlQueue) /\ IsInjective(regularQueue)
  /\ ToSet(controlQueue) = {r \in Waiting : kind[r] = "control"}
  /\ ToSet(regularQueue) = {r \in Waiting : kind[r] # "control"}
  /\ \A r \in Request : kind[r] # "none" <=> status[r] \in {"queued", "running"}
  /\ QueuedTotal = Cardinality(Waiting)
  /\ QueuedTotal <= MaxQueue

CountersWithinLimits ==
  /\ active["total"] = active["control"] + active["nonControl"]
  /\ active["total"] <= MaxConcurrent
  /\ active["nonControl"] <= MaxNonControlConcurrent
  /\ active["shellLocal"] <= ShellMaxConcurrent
  /\ active["shellLocalLong"] <= LongShellMaxConcurrent
  /\ active["shellRemote"] <= RemoteShellMaxConcurrent

IInv ==
  /\ TypeOK
  /\ QueuesExact
  /\ ActiveIsExact
  /\ CountersWithinLimits
  /\ NoStartableWaiter

-----------------------------------------------------------------------------
(* What a step may never do.                                               *)

Starts(r) == status[r] # "running" /\ status'[r] = "running"

(* r waits in the same queue as s and closer to its front.                 *)
Ahead(r, s) ==
  \E queue \in {controlQueue, regularQueue} :
    \E i, j \in DOMAIN queue : i < j /\ queue[i] = r /\ queue[j] = s

(* Calls of one class start in the order in which they were submitted,     *)
(* although drain() skips entries that cannot start and run() starts a     *)
(* call without looking at the queue.                                      *)
NoOvertaking ==
  [][\A r, s \in Request :
       Starts(r) /\ s # r /\ status[s] = "queued" /\ kind[s] = kind'[r] => Ahead(r, s)]_vars

(* Queued control work has priority (HEAVY-CONCURRENCY-HARDENING.md, 2.2): *)
(* no other call starts, from the queue or past it, while one waits.       *)
ControlFirst ==
  [][\A r, s \in Request :
       Starts(r) /\ status[s] = "queued" /\ kind[s] = "control" => kind'[r] = "control"]_vars

(* A caller that was told its call was refused, timed out or cancelled     *)
(* never has it run later, and a call never runs twice.                    *)
SettledIsFinal ==
  [][\A r \in Request : status[r] \in Settled => status'[r] = status[r]]_vars

(* A waiting call never stays, even if its timer never fires: the calls    *)
(* that end wake it.                                                       *)
EveryWaitEnds == \A r \in Request : status[r] = "queued" ~> status[r] # "queued"

-----------------------------------------------------------------------------
(* The promise SlotPool makes.                                             *)

PoolSize(p) ==
  CASE p \in {"total", "control"} -> MaxConcurrent
    [] p = "nonControl" -> MaxNonControlConcurrent
    [] p = "shellLocal" -> ShellMaxConcurrent
    [] p = "shellLocalLong" -> LongShellMaxConcurrent
    [] p = "shellRemote" -> RemoteShellMaxConcurrent

Line(k) == {r \in Waiting : kind[r] = k}

Promise == INSTANCE SlotPool WITH
  Class <- AdmissionClass,
  Slots <- Pool,
  SlotsOf <- [k \in AdmissionClass |-> PoolsOf(k)],
  Size <- [p \in Pool |-> PoolSize(p)],
  Room <- MaxQueue,
  holds <- [p \in Pool |-> Occupants(p)],
  waits <- [k \in AdmissionClass |-> Line(k)],
  before <- {q \in Request \X Request : kind[q[1]] = kind[q[2]] /\ Ahead(q[1], q[2])},
  gone <- {r \in Request : status[r] \in Settled}

(* Every behaviour of the controller is one of SlotPool: it starts a call  *)
(* only when all its pools have a slot, and never past a call of its class *)
(* that waits, although two queues hold four classes (concurrency.ts:251). *)
KeepsPromise == Promise!Spec

=============================================================================
