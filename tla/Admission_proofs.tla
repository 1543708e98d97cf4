--------------------------- MODULE Admission_proofs ---------------------------
(***************************************************************************)
(* Safety of the admission controller, for every set of calls and every    *)
(* limits the configuration schema accepts.                                *)
(***************************************************************************)
EXTENDS Admission, QueueLemmas, FiniteSetTheorems, TLAPS

-----------------------------------------------------------------------------
(* The event counters and the sets of calls.                               *)

LEMMA CountType ==
  ASSUME counters \in [Counter -> Nat], NEW names, Count(names)
  PROVE  counters' \in [Counter -> Nat]
BY DEF Count

LEMMA FiniteSubsets ==
  ASSUME NEW S \in SUBSET Request
  PROVE  IsFiniteSet(S) /\ Cardinality(S) \in Nat
BY RequestAssumption, FS_Subset, FS_CardinalityType

-----------------------------------------------------------------------------
(* The pools.                                                              *)

(* execute(): the counters stay exact and, because the start condition     *)
(* held, within their limits.                                              *)
LEMMA OccupyKeeps ==
  ASSUME TypeOK, ActiveIsExact, CountersWithinLimits,
         NEW r \in Request, status[r] # "running",
         NEW k \in AdmissionClass, CanStart(k),
         status' = [status EXCEPT ![r] = "running"],
         kind' = [kind EXCEPT ![r] = k],
         Occupy(k)
  PROVE  /\ active' \in [Pool -> Nat]
         /\ ActiveIsExact'
         /\ CountersWithinLimits'
         /\ \A c \in AdmissionClass : CanStart(c)' => CanStart(c)
<1>1. active' \in [Pool -> Nat]
  BY DEF Occupy, TypeOK
<1>2. ASSUME NEW p \in Pool
      PROVE  active'[p] = Cardinality(Occupants(p)')
  <2>1. Occupants(p)' = IF p \in PoolsOf(k) THEN Occupants(p) \cup {r} ELSE Occupants(p)
    BY DEF Occupants, Running, TypeOK
  <2>2. IsFiniteSet(Occupants(p)) /\ r \notin Occupants(p)
    BY FiniteSubsets DEF Occupants, Running
  <2>3. active[p] = Cardinality(Occupants(p))
    BY DEF ActiveIsExact
  <2>4. Cardinality(Occupants(p) \cup {r}) = Cardinality(Occupants(p)) + 1
    BY <2>2, FS_AddElement
  <2>. QED  BY <2>1, <2>3, <2>4 DEF Occupy
<1>3. ActiveIsExact'
  BY <1>2 DEF ActiveIsExact
<1>4. \A p \in Pool : active'[p] = IF p \in PoolsOf(k) THEN active[p] + 1 ELSE active[p]
  BY DEF Occupy
<1>5. active \in [Pool -> Nat]
  BY DEF TypeOK
<1>6. CountersWithinLimits'
  BY <1>4, <1>5, LimitsAssumption
  DEF CountersWithinLimits, CanStart, PoolsOf, Pool, AdmissionClass, LocalShell,
      MaxNonControlConcurrent, LongShellMaxConcurrent
<1>7. ASSUME NEW c \in AdmissionClass, CanStart(c)'
      PROVE  CanStart(c)
  BY <1>4, <1>5, <1>7, LimitsAssumption
  DEF CanStart, PoolsOf, Pool, AdmissionClass, LocalShell,
      MaxNonControlConcurrent, LongShellMaxConcurrent
<1>. QED  BY <1>1, <1>3, <1>6, <1>7

(* The finally block of execute() gives back exactly what execute() took.  *)
LEMMA VacateKeeps ==
  ASSUME TypeOK, ActiveIsExact, CountersWithinLimits,
         NEW r \in Request, status[r] = "running", kind[r] \in AdmissionClass,
         status' = [status EXCEPT ![r] = "completed"],
         kind' = [kind EXCEPT ![r] = "none"],
         Vacate(kind[r])
  PROVE  /\ active' \in [Pool -> Nat]
         /\ ActiveIsExact'
         /\ CountersWithinLimits'
<1> DEFINE k == kind[r]
<1>1. ASSUME NEW p \in Pool
      PROVE  /\ active'[p] = Cardinality(Occupants(p)')
             /\ active'[p] \in Nat
  <2>1. Occupants(p)' = IF p \in PoolsOf(k) THEN Occupants(p) \ {r} ELSE Occupants(p)
    BY DEF Occupants, Running, TypeOK
  <2>2. IsFiniteSet(Occupants(p)) /\ (p \in PoolsOf(k) => r \in Occupants(p))
    BY FiniteSubsets DEF Occupants, Running
  <2>3. active[p] = Cardinality(Occupants(p))
    BY DEF ActiveIsExact
  <2>4. p \in PoolsOf(k) => Cardinality(Occupants(p) \ {r}) = Cardinality(Occupants(p)) - 1
    BY <2>2, FS_RemoveElement
  <2>5. Occupants(p)' \in SUBSET Request
    BY DEF Occupants, Running
  <2>6. active'[p] = Cardinality(Occupants(p)')
    BY <2>1, <2>3, <2>4 DEF Vacate
  <2>. QED  BY <2>5, <2>6, FiniteSubsets
<1>2. ActiveIsExact'
  BY <1>1 DEF ActiveIsExact
<1>3. active' \in [Pool -> Nat]
  BY <1>1 DEF Vacate
<1>4. \A p \in Pool : active'[p] = IF p \in PoolsOf(k) THEN active[p] - 1 ELSE active[p]
  BY DEF Vacate
<1>5. active \in [Pool -> Nat] /\ k \in AdmissionClass
  BY DEF TypeOK
<1>6. CountersWithinLimits'
  BY <1>4, <1>5, LimitsAssumption
  DEF CountersWithinLimits, PoolsOf, Pool, AdmissionClass, LocalShell,
      MaxNonControlConcurrent, LongShellMaxConcurrent
<1>. QED  BY <1>2, <1>3, <1>6

(* A call that neither runs before nor after the step occupies nothing.    *)
LEMMA BystanderKeeps ==
  ASSUME TypeOK, ActiveIsExact,
         NEW r \in Request, status[r] # "running",
         NEW x \in Status, x # "running",
         status' = [status EXCEPT ![r] = x],
         \A s \in Request : s # r => kind'[s] = kind[s],
         active' = active
  PROVE  ActiveIsExact'
<1> SUFFICES ASSUME NEW p \in Pool
             PROVE  Occupants(p)' = Occupants(p)
  BY DEF ActiveIsExact
<1>. QED  BY DEF Occupants, Running, TypeOK


-----------------------------------------------------------------------------
(* The queues.                                                             *)

(* A call that leaves the set of waiting calls leaves its queue in the     *)
(* same step: by its timer, by its signal, or because drain() starts it.   *)
LEMMA LeaveKeeps ==
  ASSUME TypeOK, QueuesExact,
         NEW r \in Request, RemoveQueued(r),
         NEW x \in Status, x # "queued",
         status' = [status EXCEPT ![r] = x],
         NEW k, (k # "none") <=> (x = "running"),
         kind' = [kind EXCEPT ![r] = k]
  PROVE  /\ status[r] = "queued"
         /\ controlQueue' \in Seq(Request) /\ regularQueue' \in Seq(Request)
         /\ QueuesExact'
<1>1. /\ controlQueue \in Seq(Request) /\ regularQueue \in Seq(Request)
      /\ Len(controlQueue) \in Nat /\ Len(regularQueue) \in Nat
  BY LenProperties DEF TypeOK
<1>2. CASE \E i \in DOMAIN controlQueue :
             /\ controlQueue[i] = r
             /\ controlQueue' = RemoveAt(controlQueue, i)
             /\ UNCHANGED regularQueue
  <2>1. PICK i \in DOMAIN controlQueue :
             /\ controlQueue[i] = r
             /\ controlQueue' = RemoveAt(controlQueue, i)
             /\ UNCHANGED regularQueue
    BY <1>2
  <2>2. /\ controlQueue' \in Seq(Request)
        /\ Len(controlQueue') = Len(controlQueue) - 1
        /\ IsInjective(controlQueue')
        /\ ToSet(controlQueue') = ToSet(controlQueue) \ {r}
    BY <1>1, <2>1, RemoveAtProperties, RemoveAtQueue DEF QueuesExact
  <2>3. r \in ToSet(controlQueue)
    BY <2>1 DEF ToSet
  <2>4. r \in Waiting /\ kind[r] = "control"
    BY <2>3 DEF QueuesExact
  <2>5. Waiting' = Waiting \ {r} /\ status[r] = "queued"
    BY <2>4 DEF Waiting, TypeOK
  <2>6. Cardinality(Waiting') = Cardinality(Waiting) - 1
    <3>1. IsFiniteSet(Waiting)
      BY FiniteSubsets DEF Waiting
    <3>. QED  BY <2>4, <2>5, <3>1, FS_RemoveElement
  <2>7. /\ ToSet(controlQueue') = {q \in Waiting' : kind'[q] = "control"}
        /\ ToSet(regularQueue') = {q \in Waiting' : kind'[q] # "control"}
    BY <2>1, <2>2, <2>4, <2>5 DEF QueuesExact, Waiting, TypeOK
  <2>8. \A q \in Request : kind'[q] # "none" <=> status'[q] \in {"queued", "running"}
    BY DEF QueuesExact, TypeOK
  <2>9. QueuedTotal' = Cardinality(Waiting') /\ QueuedTotal' <= MaxQueue
    BY <1>1, <2>1, <2>2, <2>6, LimitsAssumption DEF QueuesExact, QueuedTotal
  <2>. QED  BY <1>1, <2>1, <2>2, <2>5, <2>7, <2>8, <2>9 DEF QueuesExact
<1>3. CASE \E i \in DOMAIN regularQueue :
             /\ regularQueue[i] = r
             /\ regularQueue' = RemoveAt(regularQueue, i)
             /\ UNCHANGED controlQueue
  <2>1. PICK i \in DOMAIN regularQueue :
             /\ regularQueue[i] = r
             /\ regularQueue' = RemoveAt(regularQueue, i)
             /\ UNCHANGED controlQueue
    BY <1>3
  <2>2. /\ regularQueue' \in Seq(Request)
        /\ Len(regularQueue') = Len(regularQueue) - 1
        /\ IsInjective(regularQueue')
        /\ ToSet(regularQueue') = ToSet(regularQueue) \ {r}
    BY <1>1, <2>1, RemoveAtProperties, RemoveAtQueue DEF QueuesExact
  <2>3. r \in ToSet(regularQueue)
    BY <2>1 DEF ToSet
  <2>4. r \in Waiting /\ kind[r] # "control"
    BY <2>3 DEF QueuesExact
  <2>5. Waiting' = Waiting \ {r} /\ status[r] = "queued"
    BY <2>4 DEF Waiting, TypeOK
  <2>6. Cardinality(Waiting') = Cardinality(Waiting) - 1
    <3>1. IsFiniteSet(Waiting)
      BY FiniteSubsets DEF Waiting
    <3>. QED  BY <2>4, <2>5, <3>1, FS_RemoveElement
  <2>7. /\ ToSet(controlQueue') = {q \in Waiting' : kind'[q] = "control"}
        /\ ToSet(regularQueue') = {q \in Waiting' : kind'[q] # "control"}
    BY <2>1, <2>2, <2>4, <2>5 DEF QueuesExact, Waiting, TypeOK
  <2>8. \A q \in Request : kind'[q] # "none" <=> status'[q] \in {"queued", "running"}
    BY DEF QueuesExact, TypeOK
  <2>9. QueuedTotal' = Cardinality(Waiting') /\ QueuedTotal' <= MaxQueue
    BY <1>1, <2>1, <2>2, <2>6, LimitsAssumption DEF QueuesExact, QueuedTotal
  <2>. QED  BY <1>1, <2>1, <2>2, <2>5, <2>7, <2>8, <2>9 DEF QueuesExact
<1>. QED  BY <1>2, <1>3 DEF RemoveQueued

(* A call that does not wait, neither before nor after, leaves the queues  *)
(* as they are.                                                            *)
LEMMA NotWaitingKeeps ==
  ASSUME TypeOK, QueuesExact,
         NEW r \in Request, status[r] # "queued",
         NEW x \in Status, x # "queued",
         status' = [status EXCEPT ![r] = x],
         NEW k, (k # "none") <=> (x = "running"),
         kind' = [kind EXCEPT ![r] = k],
         controlQueue' = controlQueue, regularQueue' = regularQueue
  PROVE  /\ Waiting' = Waiting
         /\ QueuesExact'
<1>1. Waiting' = Waiting /\ \A s \in Waiting : kind'[s] = kind[s]
  BY DEF Waiting, TypeOK
<1>2. \A q \in Request : kind'[q] # "none" <=> status'[q] \in {"queued", "running"}
  BY DEF QueuesExact, TypeOK
<1>3. QueuedTotal' = QueuedTotal
  BY DEF QueuedTotal
<1>. QED  BY <1>1, <1>2, <1>3 DEF QueuesExact

(* push(): a new call joins the queue of its class, within the bound.      *)
LEMMA JoinKeeps ==
  ASSUME TypeOK, QueuesExact,
         NEW r \in Request, NEW k \in AdmissionClass, SubmitQueued(r, k)
  PROVE  /\ controlQueue' \in Seq(Request) /\ regularQueue' \in Seq(Request)
         /\ QueuesExact'
<1> USE DEF SubmitQueued
<1>1. /\ controlQueue \in Seq(Request) /\ regularQueue \in Seq(Request)
      /\ Len(controlQueue) \in Nat /\ Len(regularQueue) \in Nat
  BY LenProperties DEF TypeOK
<1>2. r \notin Waiting /\ k # "none"
  BY DEF Waiting, AdmissionClass
<1>3. r \notin ToSet(controlQueue) /\ r \notin ToSet(regularQueue)
  BY <1>2 DEF QueuesExact
<1>4. Waiting' = Waiting \cup {r}
  BY DEF Waiting, TypeOK
<1>5. Cardinality(Waiting') = Cardinality(Waiting) + 1
  BY <1>2, <1>4, FiniteSubsets, FS_AddElement DEF Waiting
<1>6. \A q \in Request : kind'[q] # "none" <=> status'[q] \in {"queued", "running"}
  BY <1>2 DEF QueuesExact, TypeOK
<1>7. /\ controlQueue' \in Seq(Request) /\ regularQueue' \in Seq(Request)
      /\ IsInjective(controlQueue') /\ IsInjective(regularQueue')
      /\ ToSet(controlQueue') = IF k = "control" THEN ToSet(controlQueue) \cup {r} ELSE ToSet(controlQueue)
      /\ ToSet(regularQueue') = IF k = "control" THEN ToSet(regularQueue) ELSE ToSet(regularQueue) \cup {r}
      /\ Len(controlQueue') + Len(regularQueue') = Len(controlQueue) + Len(regularQueue) + 1
  <2>1. CASE k = "control"
    <3>1. controlQueue' = Append(controlQueue, r) /\ regularQueue' = regularQueue
      BY <2>1
    <3>2. IsInjective(controlQueue) /\ IsInjective(regularQueue)
      BY DEF QueuesExact
    <3>3. /\ Append(controlQueue, r) \in Seq(Request)
          /\ Len(Append(controlQueue, r)) = Len(controlQueue) + 1
          /\ IsInjective(Append(controlQueue, r))
          /\ ToSet(Append(controlQueue, r)) = ToSet(controlQueue) \cup {r}
      BY <1>1, <1>3, <3>2, AppendQueue
    <3>. QED  BY <1>1, <2>1, <3>1, <3>2, <3>3
  <2>2. CASE k # "control"
    <3>1. regularQueue' = Append(regularQueue, r) /\ controlQueue' = controlQueue
      BY <2>2
    <3>2. IsInjective(controlQueue) /\ IsInjective(regularQueue)
      BY DEF QueuesExact
    <3>3. /\ Append(regularQueue, r) \in Seq(Request)
          /\ Len(Append(regularQueue, r)) = Len(regularQueue) + 1
          /\ IsInjective(Append(regularQueue, r))
          /\ ToSet(Append(regularQueue, r)) = ToSet(regularQueue) \cup {r}
      BY <1>1, <1>3, <3>2, AppendQueue
    <3>. QED  BY <1>1, <2>2, <3>1, <3>2, <3>3
  <2>. QED  BY <2>1, <2>2
<1>8. /\ ToSet(controlQueue') = {q \in Waiting' : kind'[q] = "control"}
      /\ ToSet(regularQueue') = {q \in Waiting' : kind'[q] # "control"}
  BY <1>2, <1>4, <1>7 DEF QueuesExact, Waiting, TypeOK
<1>9. QueuedTotal' = Cardinality(Waiting') /\ QueuedTotal' <= MaxQueue
  BY <1>1, <1>5, <1>7, LimitsAssumption DEF QueuesExact, QueuedTotal
<1>. QED  BY <1>6, <1>7, <1>8, <1>9 DEF QueuesExact

(* A position takeStartable() chooses is one removeQueued() could choose.  *)
LEMMA DrainLeaves ==
  ASSUME TypeOK, QueuesExact, DrainControl \/ DrainRegular
  PROVE  \E r \in Request :
           /\ RemoveQueued(r) /\ DrainStart(r)
           /\ CanStart(kind[r]) /\ kind[r] \in AdmissionClass /\ status[r] = "queued"
<1>0. controlQueue \in Seq(Request) /\ regularQueue \in Seq(Request)
  BY DEF TypeOK
<1>1. CASE DrainControl
  <2>1. PICK i \in FirstStartable(controlQueue) :
               /\ controlQueue' = RemoveAt(controlQueue, i)
               /\ DrainStart(controlQueue[i])
    BY <1>1 DEF DrainControl
  <2>2. i \in DOMAIN controlQueue /\ CanStart(kind[controlQueue[i]])
    BY <2>1 DEF FirstStartable, Startable
  <2>3. controlQueue[i] \in Request /\ controlQueue[i] \in ToSet(controlQueue)
    BY <1>0, <2>2, LenProperties DEF ToSet
  <2>4. RemoveQueued(controlQueue[i])
    BY <1>1, <2>1, <2>2 DEF RemoveQueued, DrainControl
  <2>5. status[controlQueue[i]] = "queued" /\ kind[controlQueue[i]] \in AdmissionClass
    BY <2>3 DEF QueuesExact, Waiting, AdmissionClass
  <2>. QED  BY <2>1, <2>2, <2>3, <2>4, <2>5
<1>2. CASE DrainRegular
  <2>1. PICK i \in FirstStartable(regularQueue) :
               /\ regularQueue' = RemoveAt(regularQueue, i)
               /\ DrainStart(regularQueue[i])
    BY <1>2 DEF DrainRegular
  <2>2. i \in DOMAIN regularQueue /\ CanStart(kind[regularQueue[i]])
    BY <2>1 DEF FirstStartable, Startable
  <2>3. regularQueue[i] \in Request /\ regularQueue[i] \in ToSet(regularQueue)
    BY <1>0, <2>2, LenProperties DEF ToSet
  <2>4. RemoveQueued(regularQueue[i])
    BY <1>2, <2>1, <2>2 DEF RemoveQueued, DrainRegular
  <2>5. status[regularQueue[i]] = "queued" /\ kind[regularQueue[i]] \in AdmissionClass
    BY <2>3 DEF QueuesExact, Waiting, TypeOK
  <2>. QED  BY <2>1, <2>2, <2>3, <2>4, <2>5
<1>. QED  BY <1>1, <1>2

-----------------------------------------------------------------------------
(* The invariant.                                                          *)

LEMMA InitIInv == Init => IInv
<1> SUFFICES ASSUME Init PROVE IInv
  OBVIOUS
<1>1. TypeOK
  BY EmptySeq DEF Init, TypeOK, Status
<1>2. Waiting = {} /\ Running = {} /\ \A p \in Pool : Occupants(p) = {}
  BY DEF Init, Waiting, Running, Occupants
<1>3. QueuesExact
  <2>1. ToSet(<<>>) = {} /\ IsInjective(<<>>) /\ Len(<<>>) = 0
    BY EmptySeq DEF ToSet, IsInjective
  <2>2. \A r \in Request : kind[r] = "none" /\ status[r] = "idle"
    BY DEF Init
  <2>. QED  BY <1>2, <2>1, <2>2, FS_EmptySet, LimitsAssumption DEF Init, QueuesExact, QueuedTotal
<1>4. ActiveIsExact
  BY <1>2, FS_EmptySet DEF Init, ActiveIsExact
<1>5. CountersWithinLimits
  BY LimitsAssumption
  DEF Init, CountersWithinLimits, Pool, MaxNonControlConcurrent, LongShellMaxConcurrent
<1>6. NoStartableWaiter
  BY <1>2 DEF NoStartableWaiter
<1>. QED  BY <1>1, <1>3, <1>4, <1>5, <1>6 DEF IInv

(* Calls that are not running have the class "none" or wait: what the      *)
(* steps below need to know of a call by its status.                       *)
LEMMA KindByStatus ==
  ASSUME IInv, NEW r \in Request
  PROVE  /\ status[r] \in {"queued", "running"} => kind[r] \in AdmissionClass
         /\ status[r] \notin {"queued", "running"} => kind[r] = "none"
BY DEF IInv, TypeOK, QueuesExact

LEMMA SubmitKeeps ==
  ASSUME IInv, NEW r \in Request, NEW k \in AdmissionClass, Submit(r, k)
  PROVE  IInv'
<1> USE DEF IInv
<1>0. counters \in [Counter -> Nat] /\ kind[r] \in AdmissionClass \cup {"none"} /\ k # "none"
  BY DEF TypeOK, AdmissionClass
<1>1. CASE SubmitAborted(r)
  <2> USE <1>1 DEF SubmitAborted
  <2>1. kind[r] = "none" /\ kind' = [kind EXCEPT ![r] = "none"]
    BY KindByStatus DEF TypeOK
  <2>2. "cancelled" \in Status
    BY DEF Status, Settled
  <2>3. Waiting' = Waiting /\ QueuesExact'
    <3>1. /\ status[r] # "queued" /\ "cancelled" # "queued"
          /\ ("none" # "none") <=> ("cancelled" = "running")
          /\ status' = [status EXCEPT ![r] = "cancelled"]
          /\ controlQueue' = controlQueue /\ regularQueue' = regularQueue
      OBVIOUS
    <3>. QED  BY <2>1, <2>2, <3>1, NotWaitingKeeps
  <2>4. ActiveIsExact'
    BY <2>2, BystanderKeeps
  <2>5. TypeOK'
    BY <1>0, <2>2, CountType DEF TypeOK
  <2>6. CountersWithinLimits' /\ NoStartableWaiter'
    BY <2>3 DEF CountersWithinLimits, NoStartableWaiter, CanStart
  <2>. QED  BY <2>3, <2>4, <2>5, <2>6
<1>2. CASE SubmitStarts(r, k)
  <2> USE <1>2 DEF SubmitStarts
  <2>1. "running" \in Status
    BY DEF Status
  <2>2. Waiting' = Waiting /\ QueuesExact'
    BY <1>0, <2>1, NotWaitingKeeps
  <2>3. /\ active' \in [Pool -> Nat] /\ ActiveIsExact' /\ CountersWithinLimits'
        /\ \A c \in AdmissionClass : CanStart(c)' => CanStart(c)
    BY OccupyKeeps
  <2>4. TypeOK'
    BY <1>0, <2>1, <2>3, CountType DEF TypeOK
  <2>5. ASSUME NEW s \in Waiting
        PROVE  ~CanStart(kind[s])'
    <3>1. s \in Request /\ s # r /\ kind[s] \in AdmissionClass /\ kind'[s] = kind[s]
      BY KindByStatus DEF Waiting, TypeOK
    <3>2. ~CanStart(kind[s])
      BY DEF NoStartableWaiter
    <3>3. CanStart(kind[s])' => CanStart(kind[s])
      BY <2>3, <3>1 DEF CanStart
    <3>. QED  BY <3>2, <3>3
  <2>6. NoStartableWaiter'
    BY <2>2, <2>5 DEF NoStartableWaiter
  <2>. QED  BY <2>2, <2>3, <2>4, <2>6
<1>3. CASE SubmitRejected(r, k)
  <2> USE <1>3 DEF SubmitRejected
  <2>1. kind[r] = "none" /\ kind' = [kind EXCEPT ![r] = "none"]
    BY KindByStatus DEF TypeOK
  <2>2. "rejected" \in Status
    BY DEF Status, Settled
  <2>3. Waiting' = Waiting /\ QueuesExact'
    <3>1. /\ status[r] # "queued" /\ "rejected" # "queued"
          /\ ("none" # "none") <=> ("rejected" = "running")
          /\ status' = [status EXCEPT ![r] = "rejected"]
          /\ controlQueue' = controlQueue /\ regularQueue' = regularQueue
      OBVIOUS
    <3>. QED  BY <2>1, <2>2, <3>1, NotWaitingKeeps
  <2>4. ActiveIsExact'
    BY <2>2, BystanderKeeps
  <2>5. TypeOK'
    BY <1>0, <2>2, CountType DEF TypeOK
  <2>6. CountersWithinLimits' /\ NoStartableWaiter'
    BY <2>3 DEF CountersWithinLimits, NoStartableWaiter, CanStart
  <2>. QED  BY <2>3, <2>4, <2>5, <2>6
<1>4. CASE SubmitQueued(r, k)
  <2>1. /\ controlQueue' \in Seq(Request) /\ regularQueue' \in Seq(Request)
        /\ QueuesExact'
    BY <1>4, JoinKeeps
  <2> USE <1>4 DEF SubmitQueued
  <2>2. "queued" \in Status
    BY DEF Status
  <2>3. ActiveIsExact'
    BY <2>2, BystanderKeeps DEF TypeOK
  <2>4. TypeOK'
    BY <1>0, <2>1, <2>2, CountType DEF TypeOK
  <2>5. CountersWithinLimits' /\ NoStartableWaiter'
    BY DEF CountersWithinLimits, NoStartableWaiter
  <2>. QED  BY <2>1, <2>3, <2>4, <2>5
<1>. QED  BY <1>1, <1>2, <1>3, <1>4 DEF Submit

(* A waiting call that times out or is cancelled.                          *)
LEMMA WithdrawKeeps ==
  ASSUME IInv, NEW r \in Request, QueueTimeout(r) \/ AbortQueued(r)
  PROVE  IInv'
<1> USE DEF IInv, QueueTimeout, AbortQueued
<1> DEFINE x == IF QueueTimeout(r) THEN "timedOut" ELSE "withdrawn"
<1>1. /\ x \in Status /\ x # "queued" /\ x # "running"
      /\ status' = [status EXCEPT ![r] = x]
      /\ kind' = [kind EXCEPT ![r] = "none"]
      /\ RemoveQueued(r) /\ active' = active /\ draining' = TRUE
      /\ aborted' \subseteq Request
  BY DEF Status, Settled, TypeOK
<1>2. counters' \in [Counter -> Nat]
  BY CountType DEF TypeOK
<1> HIDE DEF x, QueueTimeout, AbortQueued
<1>3. /\ status[r] = "queued"
      /\ controlQueue' \in Seq(Request) /\ regularQueue' \in Seq(Request)
      /\ QueuesExact'
  <2>1. ("none" # "none") <=> (x = "running")
    BY <1>1
  <2>. QED  BY <1>1, <2>1, LeaveKeeps
<1>4. ActiveIsExact'
  BY <1>1, <1>3, BystanderKeeps DEF TypeOK
<1>5. TypeOK'
  BY <1>1, <1>2, <1>3 DEF TypeOK
<1>6. CountersWithinLimits' /\ NoStartableWaiter'
  BY <1>1 DEF CountersWithinLimits, NoStartableWaiter
<1>. QED  BY <1>3, <1>4, <1>5, <1>6

(* An abort that reaches no queue changes no set and no pool.              *)
LEMMA AbortKeeps ==
  ASSUME IInv, NEW r \in Request, AbortEarly(r) \/ AbortRunning(r)
  PROVE  IInv'
<1> USE DEF IInv, AbortEarly, AbortRunning
<1>1. /\ status' = status /\ kind' = kind /\ active' = active /\ draining' = draining
      /\ controlQueue' = controlQueue /\ regularQueue' = regularQueue
      /\ aborted' \subseteq Request
  BY DEF TypeOK
<1>2. TypeOK'
  BY <1>1, CountType DEF TypeOK
<1>3. Waiting' = Waiting /\ \A p \in Pool : Occupants(p)' = Occupants(p)
  BY <1>1 DEF Waiting, Occupants, Running
<1>4. QueuesExact' /\ ActiveIsExact'
  BY <1>1, <1>3 DEF QueuesExact, QueuedTotal, ActiveIsExact
<1>5. CountersWithinLimits' /\ NoStartableWaiter'
  BY <1>1, <1>3 DEF CountersWithinLimits, NoStartableWaiter, CanStart
<1>. QED  BY <1>2, <1>4, <1>5

LEMMA FinishKeeps ==
  ASSUME IInv, NEW r \in Request, Finish(r)
  PROVE  IInv'
<1> USE DEF IInv, Finish
<1>1. kind[r] \in AdmissionClass /\ "completed" \in Status
  BY KindByStatus DEF Status, Settled
<1>2. active' \in [Pool -> Nat] /\ ActiveIsExact' /\ CountersWithinLimits'
  BY <1>1, VacateKeeps
<1>3. Waiting' = Waiting /\ QueuesExact'
  <2>1. /\ status[r] # "queued" /\ "completed" # "queued"
        /\ ("none" # "none") <=> ("completed" = "running")
        /\ controlQueue' = controlQueue /\ regularQueue' = regularQueue
    OBVIOUS
  <2>. QED  BY <1>1, <2>1, NotWaitingKeeps
<1>4. TypeOK'
  BY <1>1, <1>2, CountType DEF TypeOK
<1>5. NoStartableWaiter'
  BY DEF NoStartableWaiter
<1>. QED  BY <1>2, <1>3, <1>4, <1>5

(* findIndex() finds something if there is something to find: a non-empty  *)
(* set of positions has a least element.                                   *)
LEMMA EmptyScan ==
  ASSUME NEW q \in Seq(Request), FirstStartable(q) = {}
  PROVE  Startable(q) = {}
<1> SUFFICES ASSUME Startable(q) # {} PROVE FALSE
  OBVIOUS
<1>1. Startable(q) \subseteq Nat
  BY LenProperties DEF Startable
<1>2. PICK i \in Startable(q) : \A j \in Startable(q) : <<j, i>> \notin OpToRel(<, Nat)
  BY <1>1, WFMin, NatLessThanWellFounded
<1>3. ASSUME NEW j \in Startable(q)
      PROVE  i <= j
  <2>1. OpToRel(<, Nat) = {ss \in Nat \X Nat : ss[1] < ss[2]}
    BY DEF OpToRel
  <2>2. i \in Nat /\ j \in Nat /\ <<j, i>> \notin {ss \in Nat \X Nat : ss[1] < ss[2]}
    BY <1>1, <1>2, <2>1
  <2>3. ~(j < i)
    BY <2>2
  <2>. QED  BY <2>2, <2>3
<1>. QED  BY <1>3 DEF FirstStartable

LEMMA DrainKeeps ==
  ASSUME IInv, draining, Drain
  PROVE  IInv'
<1> USE DEF IInv
<1>1. CASE DrainControl \/ DrainRegular
  <2>1. PICK r \in Request :
          /\ RemoveQueued(r) /\ DrainStart(r)
          /\ CanStart(kind[r]) /\ kind[r] \in AdmissionClass /\ status[r] = "queued"
    BY <1>1, DrainLeaves
  <2>2. /\ status' = [status EXCEPT ![r] = "running"]
        /\ kind' = [kind EXCEPT ![r] = kind[r]]
        /\ Occupy(kind[r]) /\ aborted' = aborted /\ draining' = draining
        /\ counters' \in [Counter -> Nat]
        /\ "running" \in Status
    BY <2>1, CountType DEF DrainStart, TypeOK, Status
  <2>3. active' \in [Pool -> Nat] /\ ActiveIsExact' /\ CountersWithinLimits'
    BY <2>1, <2>2, OccupyKeeps
  <2>4. /\ controlQueue' \in Seq(Request) /\ regularQueue' \in Seq(Request)
        /\ QueuesExact'
    <3>1. (kind[r] # "none") <=> ("running" = "running")
      BY <2>1 DEF AdmissionClass
    <3>. QED  BY <2>1, <2>2, <3>1, LeaveKeeps
  <2>5. TypeOK'
    BY <2>2, <2>3, <2>4 DEF TypeOK
  <2>6. NoStartableWaiter'
    BY <2>2 DEF NoStartableWaiter
  <2>. QED  BY <2>3, <2>4, <2>5, <2>6
<1>2. CASE DrainEnd
  <2> USE <1>2 DEF DrainEnd
  <2>1. TypeOK' /\ CountersWithinLimits'
    BY DEF TypeOK, CountersWithinLimits
  <2>2. QueuesExact' /\ ActiveIsExact'
    BY DEF QueuesExact, QueuedTotal, Waiting, ActiveIsExact, Occupants, Running
  <2>3. ASSUME NEW r \in Waiting
        PROVE  ~CanStart(kind[r])
    <3>1. r \in ToSet(controlQueue) \/ r \in ToSet(regularQueue)
      BY DEF QueuesExact
    <3>2. /\ controlQueue \in Seq(Request) /\ regularQueue \in Seq(Request)
      BY DEF TypeOK
    <3>3. Startable(controlQueue) = {} /\ Startable(regularQueue) = {}
      BY <3>2, EmptyScan
    <3>. QED  BY <3>1, <3>3 DEF ToSet, Startable
  <2>4. NoStartableWaiter'
    BY <2>3 DEF NoStartableWaiter, Waiting, CanStart
  <2>. QED  BY <2>1, <2>2, <2>4
<1>. QED  BY <1>1, <1>2 DEF Drain

THEOREM Invariance == Spec => []IInv
<1>1. IInv /\ [Next]_vars => IInv'
  <2> SUFFICES ASSUME IInv, [Next]_vars PROVE IInv'
    OBVIOUS
  <2>1. CASE UNCHANGED vars
    BY <2>1 DEF vars, IInv, TypeOK, QueuesExact, QueuedTotal, Waiting, ActiveIsExact,
                Occupants, Running, CountersWithinLimits, NoStartableWaiter, CanStart
  <2>2. ASSUME NEW r \in Request, NEW k \in AdmissionClass, Submit(r, k)
        PROVE  IInv'
    BY <2>2, SubmitKeeps
  <2>3. ASSUME NEW r \in Request, QueueTimeout(r) \/ AbortQueued(r)
        PROVE  IInv'
    BY <2>3, WithdrawKeeps
  <2>4. ASSUME NEW r \in Request, AbortEarly(r) \/ AbortRunning(r)
        PROVE  IInv'
    BY <2>4, AbortKeeps
  <2>5. ASSUME NEW r \in Request, Finish(r)
        PROVE  IInv'
    BY <2>5, FinishKeeps
  <2>6. CASE Drain
    BY <2>6, DrainKeeps DEF Drain, DrainControl, DrainRegular, DrainEnd
  <2>. QED  BY <2>1, <2>2, <2>3, <2>4, <2>5, <2>6 DEF Next
<1>. QED  BY <1>1, InitIInv, PTL DEF Spec

-----------------------------------------------------------------------------
(* What follows from the invariant.                                        *)

(* The active* counters are, between any two steps, the number of calls    *)
(* that really occupy each pool, and the variables keep their types; in    *)
(* particular no counter of running work ever goes below zero.             *)
THEOREM CountersAlwaysExact == Spec => []CountersExact
BY Invariance, PTL DEF IInv, CountersExact

(* Between two handlers nothing that waits could start.                    *)
THEOREM NoLostWakeup == Spec => []NoStartableWaiter
BY Invariance, PTL DEF IInv

(* The limits hold of the calls that really run or wait.                   *)
THEOREM LimitsRespected == Spec => []CapsHold
<1>1. IInv => CapsHold
  <2> SUFFICES ASSUME IInv PROVE CapsHold
    OBVIOUS
  <2>1. \A p \in Pool : Cardinality(Occupants(p)) = active[p]
    BY DEF IInv, ActiveIsExact
  <2>2. Occupants("total") = Running
    BY DEF Occupants, PoolsOf
  <2>3. Cardinality(Waiting) <= MaxQueue
    BY DEF IInv, QueuesExact
  <2>. QED  BY <2>1, <2>2, <2>3 DEF IInv, CountersWithinLimits, CapsHold, Pool
<1>. QED  BY <1>1, Invariance, PTL

(* The slots reserved for control calls and for interactive shell calls    *)
(* cannot be taken by others: who waits, waits behind its own kind.        *)
THEOREM ReservesRespected == Spec => []ReservesHold
<1>1. IInv => ReservesHold
  <2> SUFFICES ASSUME IInv, ~draining, NEW r \in Waiting
               PROVE  /\ kind[r] = "control" => active["control"] >= ReservedControlSlots
                      /\ /\ kind[r] = "shell-local"
                         /\ active["nonControl"] < MaxNonControlConcurrent
                         /\ active["total"] < MaxConcurrent
                         => active["shellLocal"] - active["shellLocalLong"] >= ReservedInteractiveShellSlots
    BY DEF ReservesHold
  <2>1. ~CanStart(kind[r])
    BY DEF IInv, NoStartableWaiter
  <2>2. \A p \in Pool : active[p] \in Nat
    BY DEF IInv, TypeOK
  <2>3. ASSUME kind[r] = "control"
        PROVE  active["control"] >= ReservedControlSlots
    BY <2>1, <2>2, <2>3, LimitsAssumption
    DEF CanStart, LocalShell, Pool, IInv, CountersWithinLimits, MaxNonControlConcurrent
  <2>4. ASSUME kind[r] = "shell-local",
               active["nonControl"] < MaxNonControlConcurrent,
               active["total"] < MaxConcurrent
        PROVE  active["shellLocal"] - active["shellLocalLong"] >= ReservedInteractiveShellSlots
    <3>1. active["shellLocal"] >= ShellMaxConcurrent
      BY <2>1, <2>2, <2>4, LimitsAssumption DEF CanStart, LocalShell, Pool
    <3>. QED  BY <2>2, <3>1, LimitsAssumption
              DEF Pool, IInv, CountersWithinLimits, LongShellMaxConcurrent
  <2>. QED  BY <2>3, <2>4
<1>. QED  BY <1>1, Invariance, PTL

(* Caps and reserves together, the limits of the configuration, for every  *)
(* one that LimitsAssumption admits (canStart, src/concurrency.ts:208).    *)
THEOREM LimitsAlwaysHold == Spec => []LimitsHold
BY LimitsRespected, ReservesRespected, PTL DEF LimitsHold

(* Which steps make a call run, and from where.                            *)
LEMMA WhatStarts ==
  ASSUME IInv, [Next]_vars, NEW r \in Request, Starts(r)
  PROVE  \/ \E k \in AdmissionClass : SubmitStarts(r, k)
         \/ /\ draining /\ kind' = kind
            /\ \E i \in FirstStartable(controlQueue) : controlQueue[i] = r
         \/ /\ draining /\ kind' = kind
            /\ FirstStartable(controlQueue) = {}
            /\ \E i \in FirstStartable(regularQueue) : regularQueue[i] = r
<1> USE DEF IInv, TypeOK, Starts
<1>1. CASE UNCHANGED vars
  BY <1>1 DEF vars
<1>2. ASSUME NEW q \in Request, NEW k \in AdmissionClass, Submit(q, k)
      PROVE  SubmitStarts(r, k)
  BY <1>2 DEF Submit, SubmitAborted, SubmitStarts, SubmitRejected, SubmitQueued
<1>3. ASSUME NEW q \in Request,
             QueueTimeout(q) \/ AbortEarly(q) \/ AbortQueued(q) \/ AbortRunning(q) \/ Finish(q)
      PROVE  FALSE
  BY <1>3 DEF QueueTimeout, AbortEarly, AbortQueued, AbortRunning, Finish
<1>4. CASE DrainControl
  BY <1>4 DEF DrainControl, DrainStart
<1>5. CASE DrainRegular
  BY <1>5 DEF DrainRegular, DrainStart
<1>6. CASE DrainEnd
  BY <1>6 DEF DrainEnd
<1>. QED  BY <1>1, <1>2, <1>3, <1>4, <1>5, <1>6 DEF Next, Drain

(* A call that starts was ahead of those of its class that wait.           *)
LEMMA StartsInOrder ==
  ASSUME IInv, [Next]_vars, NEW r \in Request, NEW s \in Request,
         Starts(r), s # r, status[s] = "queued", kind[s] = kind'[r]
  PROVE  Ahead(r, s)
<1>0. s \in Waiting /\ controlQueue \in Seq(Request) /\ regularQueue \in Seq(Request)
  BY DEF Waiting, IInv, TypeOK
<1>1. CASE \E k \in AdmissionClass : SubmitStarts(r, k)
  BY <1>0, <1>1 DEF SubmitStarts, IInv, NoStartableWaiter, TypeOK
<1>2. ASSUME kind' = kind, NEW i \in FirstStartable(controlQueue), controlQueue[i] = r
      PROVE  Ahead(r, s)
  <2>1. i \in DOMAIN controlQueue /\ CanStart(kind[r])
    BY <1>2 DEF FirstStartable, Startable
  <2>2. r \in ToSet(controlQueue)
    BY <1>2, <2>1 DEF ToSet
  <2>3. s \in ToSet(controlQueue)
    BY <1>0, <1>2, <2>2 DEF IInv, QueuesExact
  <2>4. PICK j \in DOMAIN controlQueue : controlQueue[j] = s
    BY <2>3 DEF ToSet
  <2>5. j \in Startable(controlQueue)
    BY <1>2, <2>1, <2>4 DEF Startable
  <2>6. i <= j /\ i # j
    BY <1>2, <2>4, <2>5 DEF FirstStartable
  <2>7. i < j
    BY <1>0, <2>1, <2>4, <2>6, LenProperties
  <2>. QED  BY <1>2, <2>1, <2>4, <2>7 DEF Ahead
<1>3. ASSUME kind' = kind, NEW i \in FirstStartable(regularQueue), regularQueue[i] = r
      PROVE  Ahead(r, s)
  <2>1. i \in DOMAIN regularQueue /\ CanStart(kind[r])
    BY <1>3 DEF FirstStartable, Startable
  <2>2. r \in ToSet(regularQueue)
    BY <1>3, <2>1 DEF ToSet
  <2>3. s \in ToSet(regularQueue)
    BY <1>0, <1>3, <2>2 DEF IInv, QueuesExact
  <2>4. PICK j \in DOMAIN regularQueue : regularQueue[j] = s
    BY <2>3 DEF ToSet
  <2>5. j \in Startable(regularQueue)
    BY <1>3, <2>1, <2>4 DEF Startable
  <2>6. i <= j /\ i # j
    BY <1>3, <2>4, <2>5 DEF FirstStartable
  <2>7. i < j
    BY <1>0, <2>1, <2>4, <2>6, LenProperties
  <2>. QED  BY <1>3, <2>1, <2>4, <2>7 DEF Ahead
<1>. QED  BY <1>1, <1>2, <1>3, WhatStarts

(* First come, first served within a class, past the fast path of run()    *)
(* and the skipping of drain().                                            *)
THEOREM FirstComeFirstServed == Spec => NoOvertaking
<1>1. IInv /\ [Next]_vars =>
        [\A r, s \in Request :
           Starts(r) /\ s # r /\ status[s] = "queued" /\ kind[s] = kind'[r] => Ahead(r, s)]_vars
  BY StartsInOrder
<1>. QED  BY <1>1, Invariance, PTL DEF Spec, NoOvertaking

(* Waiting control work goes before everything else.                       *)
THEOREM ControlHasPriority == Spec => ControlFirst
<1>1. ASSUME IInv, [Next]_vars, NEW r \in Request, NEW s \in Request,
             Starts(r), status[s] = "queued", kind[s] = "control"
      PROVE  kind'[r] = "control"
  <2>0. s \in Waiting /\ controlQueue \in Seq(Request) /\ regularQueue \in Seq(Request)
    BY <1>1 DEF Waiting, IInv, TypeOK
  <2>1. \A k \in AdmissionClass : CanStart(k) => CanStart("control")
    BY DEF CanStart, LocalShell
  <2>2. CASE \E k \in AdmissionClass : SubmitStarts(r, k)
    BY <1>1, <2>0, <2>1, <2>2 DEF SubmitStarts, IInv, NoStartableWaiter
  <2>3. ASSUME kind' = kind, NEW i \in FirstStartable(controlQueue), controlQueue[i] = r
        PROVE  kind'[r] = "control"
    <3>1. r \in ToSet(controlQueue)
      BY <2>3 DEF FirstStartable, Startable, ToSet
    <3>. QED  BY <1>1, <2>3, <3>1 DEF IInv, QueuesExact
  <2>4. ASSUME FirstStartable(controlQueue) = {},
               NEW i \in FirstStartable(regularQueue), regularQueue[i] = r
        PROVE  FALSE
    <3>1. r \in ToSet(regularQueue) /\ CanStart(kind[r])
      BY <2>4 DEF FirstStartable, Startable, ToSet
    <3>2. kind[r] \in AdmissionClass
      BY <1>1, <3>1, KindByStatus DEF IInv, QueuesExact, Waiting
    <3>3. s \in ToSet(controlQueue)
      BY <1>1, <2>0 DEF IInv, QueuesExact
    <3>4. PICK j \in DOMAIN controlQueue : controlQueue[j] = s
      BY <3>3 DEF ToSet
    <3>5. j \in Startable(controlQueue)
      BY <1>1, <2>1, <3>1, <3>2, <3>4 DEF Startable
    <3>. QED  BY <2>0, <2>4, <3>5, EmptyScan
  <2>. QED  BY <1>1, <2>2, <2>3, <2>4, WhatStarts
<1>2. IInv /\ [Next]_vars =>
        [\A r, s \in Request :
           Starts(r) /\ status[s] = "queued" /\ kind[s] = "control" => kind'[r] = "control"]_vars
  BY <1>1
<1>. QED  BY <1>2, Invariance, PTL DEF Spec, ControlFirst

(* What a caller was told of a call that is over stays true.               *)
THEOREM OutcomesAreFinal == Spec => SettledIsFinal
<1>1. ASSUME IInv, [Next]_vars, NEW r \in Request, status[r] \in Settled
      PROVE  status'[r] = status[r]
  <2> USE <1>1 DEF IInv, TypeOK, Settled
  <2>1. CASE UNCHANGED vars
    BY <2>1 DEF vars
  <2>2. ASSUME NEW q \in Request, NEW k \in AdmissionClass, Submit(q, k)
        PROVE  status'[r] = status[r]
    BY <2>2 DEF Submit, SubmitAborted, SubmitStarts, SubmitRejected, SubmitQueued
  <2>3. ASSUME NEW q \in Request, QueueTimeout(q) \/ AbortQueued(q)
        PROVE  status'[r] = status[r]
    <3>1. q \in ToSet(controlQueue) \cup ToSet(regularQueue)
      BY <2>3 DEF QueueTimeout, AbortQueued, RemoveQueued, ToSet
    <3>2. status[q] = "queued"
      BY <3>1 DEF QueuesExact, Waiting
    <3>. QED  BY <2>3, <3>2 DEF QueueTimeout, AbortQueued
  <2>4. ASSUME NEW q \in Request, AbortEarly(q) \/ AbortRunning(q) \/ Finish(q)
        PROVE  status'[r] = status[r]
    BY <2>4 DEF AbortEarly, AbortRunning, Finish
  <2>5. CASE DrainControl \/ DrainRegular
    BY <2>5, DrainLeaves DEF DrainStart
  <2>6. CASE DrainEnd
    BY <2>6 DEF DrainEnd
  <2>. QED  BY <2>1, <2>2, <2>3, <2>4, <2>5, <2>6 DEF Next, Drain
<1>2. IInv /\ [Next]_vars => [\A r \in Request : status[r] \in Settled => status'[r] = status[r]]_vars
  BY <1>1
<1>. QED  BY <1>2, Invariance, PTL DEF Spec, SettledIsFinal

-----------------------------------------------------------------------------
(* The promise of SlotPool.                                                *)

(* Who is ahead of whom, among the calls of one class that wait.           *)
Order == {q \in Request \X Request : kind[q[1]] = kind[q[2]] /\ Ahead(q[1], q[2])}

LEMMA AheadIs ==
  ASSUME NEW a, NEW b
  PROVE  Ahead(a, b) <=> Precedes(controlQueue, a, b) \/ Precedes(regularQueue, a, b)
BY DEF Ahead, Precedes

(* What is in a queue in some place waits.                                 *)
LEMMA AheadWaits ==
  ASSUME TypeOK, QueuesExact, NEW a, NEW b
  PROVE  /\ Precedes(controlQueue, a, b) => a \in ToSet(controlQueue) /\ b \in ToSet(controlQueue)
         /\ Precedes(regularQueue, a, b) => a \in ToSet(regularQueue) /\ b \in ToSet(regularQueue)
         /\ Ahead(a, b) => a \in Waiting /\ b \in Waiting
<1>1. /\ Precedes(controlQueue, a, b) => a \in ToSet(controlQueue) /\ b \in ToSet(controlQueue)
      /\ Precedes(regularQueue, a, b) => a \in ToSet(regularQueue) /\ b \in ToSet(regularQueue)
  BY DEF Precedes, ToSet
<1>. QED  BY <1>1, AheadIs DEF QueuesExact

(* No two calls are ahead of each other.                                   *)
LEMMA AheadOneWay ==
  ASSUME TypeOK, QueuesExact, NEW a, NEW b, Ahead(a, b)
  PROVE  ~Ahead(b, a)
<1>1. ASSUME NEW q \in Seq(Request), IsInjective(q), Precedes(q, a, b) PROVE ~Precedes(q, b, a)
  <2>. SUFFICES ASSUME Precedes(q, b, a) PROVE FALSE
    OBVIOUS
  <2>1. DOMAIN q \subseteq Nat
    BY <1>1, LenProperties
  <2>2. PICK i \in DOMAIN q, j \in DOMAIN q : i < j /\ q[i] = a /\ q[j] = b
    BY <1>1 DEF Precedes
  <2>3. PICK k \in DOMAIN q, l \in DOMAIN q : k < l /\ q[k] = b /\ q[l] = a
    BY DEF Precedes
  <2>4. i = l /\ j = k
    BY <1>1, <2>2, <2>3 DEF IsInjective
  <2>. QED  BY <2>1, <2>2, <2>3, <2>4
<1>2. ToSet(controlQueue) \cap ToSet(regularQueue) = {}
  BY DEF QueuesExact
<1>3. CASE Precedes(controlQueue, a, b)
  BY <1>1, <1>2, <1>3, AheadIs, AheadWaits DEF QueuesExact, TypeOK
<1>4. CASE Precedes(regularQueue, a, b)
  BY <1>1, <1>2, <1>4, AheadIs, AheadWaits DEF QueuesExact, TypeOK
<1>. QED  BY <1>3, <1>4, AheadIs

-----------------------------------------------------------------------------
(* What SlotPool sees.                                                     *)

LEMMA SameCount == ASSUME NEW S PROVE Promise!Cardinality(S) = Cardinality(S)
BY DEF Promise!Cardinality, Cardinality

LEMMA FitsIs ==
  ASSUME IInv, NEW k \in AdmissionClass
  PROVE  Promise!Fits(k) <=> CanStart(k)
<1>1. Promise!Fits(k) <=> \A p \in PoolsOf(k) : active[p] < PoolSize(p)
  <2>1. PoolsOf(k) \subseteq Pool
    BY DEF PoolsOf, Pool
  <2>2. \A p \in PoolsOf(k) : Promise!Cardinality(Occupants(p)) = active[p]
    BY <2>1, SameCount DEF IInv, ActiveIsExact
  <2>. QED  BY <2>1, <2>2 DEF Promise!Fits
<1>2. active["total"] = active["control"] + active["nonControl"] /\ active \in [Pool -> Nat]
  BY DEF IInv, CountersWithinLimits, TypeOK
<1>3. /\ PoolSize("total") = MaxConcurrent /\ PoolSize("control") = MaxConcurrent
      /\ PoolSize("nonControl") = MaxNonControlConcurrent
      /\ PoolSize("shellLocal") = ShellMaxConcurrent /\ PoolSize("shellLocalLong") = LongShellMaxConcurrent
      /\ PoolSize("shellRemote") = RemoteShellMaxConcurrent
  BY DEF PoolSize
<1>. QED
  BY <1>1, <1>2, <1>3, LimitsAssumption DEF CanStart, PoolsOf, Pool, AdmissionClass, LocalShell

LEMMA ViewIs ==
  ASSUME IInv
  PROVE  /\ Promise!Holders = Running /\ Promise!InLine = Waiting
         /\ \A r \in Request : Promise!Fresh(r) <=> status[r] = "idle"
<1>1. \A r \in Running \cup Waiting : kind[r] \in AdmissionClass
  BY KindByStatus DEF Running, Waiting
<1>2. Promise!Holders = Running
  <2>1. \A r \in Running : r \in Occupants("total")
    BY DEF Occupants, PoolsOf
  <2>2. "total" \in Pool /\ \A p \in Pool : Occupants(p) \subseteq Running
    BY DEF Pool, Occupants
  <2>. QED  BY <2>1, <2>2 DEF Promise!Holders
<1>3. Promise!InLine = Waiting
  BY <1>1 DEF Promise!InLine, Line
<1>4. ASSUME NEW r \in Request PROVE Promise!Fresh(r) <=> status[r] = "idle"
  BY <1>2, <1>3 DEF Promise!Fresh, IInv, TypeOK, Status, Running, Waiting, Settled
<1>. QED  BY <1>2, <1>3, <1>4

(* Of a call that does not wait, neither before nor after, the lines see   *)
(* nothing.                                                                *)
LEMMA LinesStay ==
  ASSUME TypeOK, QueuesExact, NEW r \in Request, status[r] # "queued",
         NEW x \in Status, x # "queued", status' = [status EXCEPT ![r] = x],
         \A s \in Request \ {r} : kind'[s] = kind[s],
         controlQueue' = controlQueue, regularQueue' = regularQueue
  PROVE  (\A c \in AdmissionClass : Line(c)' = Line(c)) /\ Order' = Order
<1>1. \A c \in AdmissionClass : Line(c)' = Line(c)
  BY DEF Line, Waiting, TypeOK
<1>2. \A a, b \in Request : Ahead(a, b)' <=> Ahead(a, b)
  BY DEF Ahead
<1>3. \A a, b \in Request : Ahead(a, b) => kind'[a] = kind[a] /\ kind'[b] = kind[b]
  BY AheadWaits DEF Waiting
<1>4. ASSUME NEW q \in Request \X Request PROVE q \in Order' <=> q \in Order
  BY <1>2, <1>3 DEF Order
<1>5. Order \subseteq Request \X Request /\ Order' \subseteq Request \X Request
  BY DEF Order
<1>. QED  BY <1>1, <1>4, <1>5

(* A call that leaves its queue leaves its line, and the others keep their *)
(* order.                                                                  *)
LEMMA LeaveLine ==
  ASSUME IInv, NEW r \in Request, RemoveQueued(r),
         NEW x \in Status, x # "queued", status' = [status EXCEPT ![r] = x],
         \A s \in Request \ {r} : kind'[s] = kind[s]
  PROVE  /\ kind[r] \in AdmissionClass /\ r \in Line(kind[r])
         /\ Promise!Leave(r, kind[r])
<1>. USE DEF IInv
<1>1. /\ controlQueue \in Seq(Request) /\ regularQueue \in Seq(Request)
      /\ IsInjective(controlQueue) /\ IsInjective(regularQueue)
      /\ ToSet(controlQueue) \cap ToSet(regularQueue) = {}
  BY DEF TypeOK, QueuesExact
<1>2. r \in ToSet(controlQueue) \cup ToSet(regularQueue)
  BY DEF RemoveQueued, ToSet
<1>3. r \in Waiting /\ kind[r] \in AdmissionClass /\ r \in Line(kind[r])
  BY <1>2, KindByStatus DEF QueuesExact, Waiting, Line
<1>4. ASSUME NEW c \in AdmissionClass
      PROVE  Line(c)' = IF c = kind[r] THEN Line(c) \ {r} ELSE Line(c)
  BY <1>3 DEF Line, Waiting, TypeOK
<1>5. ASSUME NEW a \in Request, NEW b \in Request
      PROVE  Ahead(a, b)' <=> Ahead(a, b) /\ r \notin {a, b}
  <2>1. Ahead(a, b)' <=> Precedes(controlQueue', a, b) \/ Precedes(regularQueue', a, b)
    BY DEF Ahead, Precedes
  <2>2. ASSUME NEW i \in DOMAIN controlQueue, controlQueue[i] = r,
               controlQueue' = RemoveAt(controlQueue, i), regularQueue' = regularQueue
        PROVE  Ahead(a, b)' <=> Ahead(a, b) /\ r \notin {a, b}
    <3>1. Precedes(controlQueue', a, b) <=> Precedes(controlQueue, a, b) /\ r \notin {a, b}
      BY <1>1, <2>2, RemoveAtOrder
    <3>2. r \notin ToSet(regularQueue)
      BY <1>1, <2>2 DEF ToSet
    <3>3. Precedes(regularQueue, a, b) => r \notin {a, b}
      BY <3>2, AheadWaits
    <3>. QED  BY <2>1, <2>2, <3>1, <3>3, AheadIs
  <2>3. ASSUME NEW i \in DOMAIN regularQueue, regularQueue[i] = r,
               regularQueue' = RemoveAt(regularQueue, i), controlQueue' = controlQueue
        PROVE  Ahead(a, b)' <=> Ahead(a, b) /\ r \notin {a, b}
    <3>1. Precedes(regularQueue', a, b) <=> Precedes(regularQueue, a, b) /\ r \notin {a, b}
      BY <1>1, <2>3, RemoveAtOrder
    <3>2. r \notin ToSet(controlQueue)
      BY <1>1, <2>3 DEF ToSet
    <3>3. Precedes(controlQueue, a, b) => r \notin {a, b}
      BY <3>2, AheadWaits
    <3>. QED  BY <2>1, <2>3, <3>1, <3>3, AheadIs
  <2>. QED  BY <2>2, <2>3 DEF RemoveQueued
<1>6. Order' = {q \in Order : r \notin {q[1], q[2]}}
  <2>1. ASSUME NEW q \in Request \X Request
        PROVE  q \in Order' <=> q \in Order /\ r \notin {q[1], q[2]}
    BY <1>5 DEF Order
  <2>2. Order \subseteq Request \X Request /\ Order' \subseteq Request \X Request
    BY DEF Order
  <2>. QED  BY <2>1, <2>2
<1>. QED  BY <1>3, <1>4, <1>6 DEF Promise!Leave, Order

(* A call that is refused, or withdrawn before it was submitted, is turned *)
(* away.                                                                   *)
LEMMA RefusalRefines ==
  ASSUME IInv, NEW r \in Request, status[r] = "idle", NEW x \in Settled, status' = [status EXCEPT ![r] = x],
         UNCHANGED <<kind, controlQueue, regularQueue>>
  PROVE  Promise!TurnAway(r)
<1>1. x \in Status /\ x \notin {"queued", "running"}
  BY DEF Status, Settled
<1>2. (\A c \in AdmissionClass : Line(c)' = Line(c)) /\ Order' = Order
  BY <1>1, LinesStay DEF IInv
<1>3. \A p \in Pool : Occupants(p)' = Occupants(p)
  BY <1>1 DEF Occupants, Running, IInv, TypeOK
<1>4. {s \in Request : status'[s] \in Settled} = {s \in Request : status[s] \in Settled} \cup {r}
  BY DEF IInv, TypeOK
<1>. QED  BY <1>2, <1>3, <1>4, ViewIs DEF Promise!TurnAway, Order

(* A call that starts at once finds a slot in each pool, and none of its   *)
(* class waiting.                                                          *)
LEMMA EnterRefines ==
  ASSUME IInv, NEW r \in Request, NEW k \in AdmissionClass, SubmitStarts(r, k)
  PROVE  Promise!Enter(r, k)
<1>1. /\ ~draining /\ status[r] = "idle" /\ CanStart(k) /\ status' = [status EXCEPT ![r] = "running"]
      /\ kind' = [kind EXCEPT ![r] = k] /\ UNCHANGED <<controlQueue, regularQueue>>
  BY DEF SubmitStarts
<1>2. (\A c \in AdmissionClass : Line(c)' = Line(c)) /\ Order' = Order
  BY <1>1, LinesStay DEF IInv, TypeOK, Status
<1>3. Line(k) = {}
  BY <1>1 DEF IInv, NoStartableWaiter, Line
<1>4. \A p \in Pool : Occupants(p)' = IF p \in PoolsOf(k) THEN Occupants(p) \cup {r} ELSE Occupants(p)
  BY <1>1 DEF Occupants, Running, IInv, TypeOK
<1>5. {s \in Request : status'[s] \in Settled} = {s \in Request : status[s] \in Settled}
  BY <1>1 DEF IInv, TypeOK, Settled
<1>. QED
  BY <1>1, <1>2, <1>3, <1>4, <1>5, ViewIs, FitsIs DEF Promise!Enter, Promise!Take, Order

(* A call that is queued joins the end of its line.                        *)
LEMMA QueueRefines ==
  ASSUME IInv, NEW r \in Request, NEW k \in AdmissionClass, SubmitQueued(r, k)
  PROVE  Promise!Queue(r, k)
<1>. USE DEF IInv
<1>1. /\ status[r] = "idle" /\ ~CanStart(k) /\ QueuedTotal < MaxQueue
      /\ status' = [status EXCEPT ![r] = "queued"] /\ kind' = [kind EXCEPT ![r] = k]
  BY DEF SubmitQueued
<1>2. /\ controlQueue \in Seq(Request) /\ regularQueue \in Seq(Request)
      /\ r \notin Waiting /\ r \notin ToSet(controlQueue) \cup ToSet(regularQueue)
  BY <1>1 DEF TypeOK, QueuesExact, Waiting
<1>3. \A c \in AdmissionClass : Line(c)' = IF c = k THEN Line(c) \cup {r} ELSE Line(c)
  BY <1>1, <1>2 DEF Line, Waiting, TypeOK
<1>4. \A p \in Pool : Occupants(p)' = Occupants(p)
  BY <1>1 DEF Occupants, Running, TypeOK
<1>5. {s \in Request : status'[s] \in Settled} = {s \in Request : status[s] \in Settled}
  BY <1>1 DEF TypeOK, Settled
<1>6. ASSUME NEW a \in Request, NEW b \in Request, kind'[a] = kind'[b]
      PROVE  Ahead(a, b)' <=> Ahead(a, b) \/ (a \in Line(k) /\ b = r)
  <2>. DEFINE queue == IF k = "control" THEN controlQueue ELSE regularQueue
  <2>1. Ahead(a, b)' <=> Precedes(controlQueue', a, b) \/ Precedes(regularQueue', a, b)
    BY DEF Ahead, Precedes
  <2>2. Precedes(Append(queue, r), a, b) <=> Precedes(queue, a, b) \/ (a \in ToSet(queue) /\ b = r)
    BY <1>2, AppendOrder
  <2>3. Ahead(a, b)' <=> Ahead(a, b) \/ (a \in ToSet(queue) /\ b = r)
    BY <2>1, <2>2, AheadIs DEF SubmitQueued
  <2>4. b = r => (a \in ToSet(queue) <=> a \in Line(k))
    <3>1. b = r => kind'[b] = k
      BY <1>1 DEF TypeOK
    <3>2. a # r => kind'[a] = kind[a]
      BY <1>1 DEF TypeOK
    <3>3. ASSUME b = r, a # r PROVE a \in ToSet(queue) <=> a \in Line(k)
      BY <1>6, <3>1, <3>2, <3>3 DEF QueuesExact, Line
    <3>4. ASSUME a = r PROVE a \notin ToSet(queue) /\ a \notin Line(k)
      BY <1>2, <3>4 DEF Line
    <3>. QED  BY <3>3, <3>4
  <2>. QED  BY <2>3, <2>4
<1>7. Order' = Order \cup (Line(k) \X {r})
  <2>1. ASSUME NEW a \in Request, NEW b \in Request
        PROVE  <<a, b>> \in Order' <=> <<a, b>> \in Order \/ (a \in Line(k) /\ b = r)
    <3>1. Ahead(a, b) => r \notin {a, b}
      BY <1>2, AheadWaits
    <3>2. a \in Line(k) => a # r /\ kind[a] = k
      BY <1>2 DEF Line
    <3>3. kind'[r] = k /\ \A s \in Request \ {r} : kind'[s] = kind[s]
      BY <1>1 DEF TypeOK
    <3>. QED  BY <1>6, <3>1, <3>2, <3>3 DEF Order
  <2>2. Order \subseteq Request \X Request /\ Order' \subseteq Request \X Request /\ Line(k) \subseteq Request
    BY DEF Order, Line, Waiting
  <2>. QED  BY <2>1, <2>2
<1>8. Promise!Cardinality(Promise!InLine) < MaxQueue
  BY <1>1, ViewIs, SameCount DEF QueuesExact
<1>. QED
  BY <1>1, <1>3, <1>4, <1>5, <1>7, <1>8, ViewIs, FitsIs DEF Promise!Queue, Order

(* A timer or a signal takes a call out of its line.                       *)
LEMMA GiveUpRefines ==
  ASSUME IInv, NEW r \in Request, QueueTimeout(r) \/ AbortQueued(r)
  PROVE  \E k \in AdmissionClass : Promise!GiveUp(r, k)
<1>1. PICK x \in {"timedOut", "withdrawn"} :
        RemoveQueued(r) /\ status' = [status EXCEPT ![r] = x] /\ kind' = [kind EXCEPT ![r] = "none"]
  BY DEF QueueTimeout, AbortQueued
<1>2. x \in Status /\ x # "queued" /\ \A s \in Request \ {r} : kind'[s] = kind[s]
  BY <1>1 DEF Status, Settled, IInv, TypeOK
<1>3. kind[r] \in AdmissionClass /\ r \in Line(kind[r]) /\ Promise!Leave(r, kind[r])
  BY <1>1, <1>2, LeaveLine
<1>4. status[r] = "queued"
  BY <1>3 DEF Line, Waiting
<1>5. \A p \in Pool : Occupants(p)' = Occupants(p)
  BY <1>1, <1>4 DEF Occupants, Running, IInv, TypeOK
<1>6. {s \in Request : status'[s] \in Settled} = {s \in Request : status[s] \in Settled} \cup {r}
  BY <1>1 DEF IInv, TypeOK, Settled
<1>7. PICK k \in AdmissionClass : k = kind[r]
  BY <1>3
<1>8. Promise!GiveUp(r, k)
  BY <1>3, <1>5, <1>6, <1>7 DEF Promise!GiveUp, Promise!Leave
<1>. QED  BY <1>8

(* The end of a command gives all its slots back.                          *)
LEMMA ReleaseRefines ==
  ASSUME IInv, NEW r \in Request, Finish(r)
  PROVE  Promise!Release(r)
<1>1. /\ status[r] = "running" /\ status' = [status EXCEPT ![r] = "completed"]
      /\ kind' = [kind EXCEPT ![r] = "none"] /\ UNCHANGED <<controlQueue, regularQueue>>
  BY DEF Finish
<1>2. (\A c \in AdmissionClass : Line(c)' = Line(c)) /\ Order' = Order
  <2>1. "completed" \in Status /\ \A s \in Request \ {r} : kind'[s] = kind[s]
    BY <1>1 DEF Status, Settled, IInv, TypeOK
  <2>. QED  BY <1>1, <2>1, LinesStay DEF IInv
<1>3. \A p \in Pool : Occupants(p)' = Occupants(p) \ {r}
  BY <1>1 DEF Occupants, Running, IInv, TypeOK
<1>4. {s \in Request : status'[s] \in Settled} = {s \in Request : status[s] \in Settled} \cup {r}
  BY <1>1 DEF IInv, TypeOK, Settled
<1>5. r \in Promise!Holders
  BY <1>1, ViewIs DEF Running
<1>. QED  BY <1>2, <1>3, <1>4, <1>5 DEF Promise!Release, Order

(* An iteration of drain() starts the first of its line.                   *)
LEMMA StartRefines ==
  ASSUME IInv, draining, DrainControl \/ DrainRegular
  PROVE  \E r \in Request, k \in AdmissionClass : Promise!Start(r, k)
<1>1. PICK r \in Request :
        /\ RemoveQueued(r) /\ DrainStart(r)
        /\ CanStart(kind[r]) /\ kind[r] \in AdmissionClass /\ status[r] = "queued"
  BY DrainLeaves DEF IInv
<1>. DEFINE k == kind[r]
<1>2. status' = [status EXCEPT ![r] = "running"] /\ kind' = kind
  BY <1>1 DEF DrainStart
<1>3. r \in Line(k) /\ Promise!Leave(r, k)
  <2>1. "running" \in Status /\ "running" # "queued"
    BY DEF Status
  <2>. QED  BY <1>1, <1>2, <2>1, LeaveLine
<1>4. ASSUME NEW s \in Line(k) PROVE <<s, r>> \notin Order
  <2>1. s \in Request /\ status[s] = "queued" /\ kind[s] = kind'[r]
    BY <1>2 DEF Line, Waiting
  <2>2. Starts(r) /\ [Next]_vars
    BY <1>1, <1>2 DEF Starts, Next, Drain, IInv, TypeOK
  <2>3. s # r => Ahead(r, s)
    BY <2>1, <2>2, StartsInOrder
  <2>4. ~Ahead(s, r)
    BY <2>3, AheadOneWay DEF IInv
  <2>. QED  BY <2>4 DEF Order
<1>5. r \in Promise!First(k)
  BY <1>1, <1>3, <1>4 DEF Promise!First, Order
<1>6. \A p \in Pool : Occupants(p)' = IF p \in PoolsOf(k) THEN Occupants(p) \cup {r} ELSE Occupants(p)
  BY <1>1, <1>2 DEF Occupants, Running, IInv, TypeOK
<1>7. {s \in Request : status'[s] \in Settled} = {s \in Request : status[s] \in Settled}
  BY <1>1, <1>2 DEF IInv, TypeOK, Settled
<1>8. Promise!Fits(k)
  BY <1>1, FitsIs
<1>. HIDE DEF k
<1>9. k \in AdmissionClass
  BY <1>1 DEF k
<1>10. Promise!Take(r, k)
  BY <1>6, <1>9 DEF Promise!Take
<1>11. Promise!Start(r, k)
  BY <1>3, <1>5, <1>7, <1>8, <1>10 DEF Promise!Start
<1>. QED  BY <1>9, <1>11

(* What SlotPool does not see.                                             *)
LEMMA UnseenSteps ==
  ASSUME UNCHANGED <<status, kind, controlQueue, regularQueue>>
  PROVE  UNCHANGED Promise!vars
<1>1. \A p \in Pool : Occupants(p)' = Occupants(p)
  BY DEF Occupants, Running
<1>2. \A c \in AdmissionClass : Line(c)' = Line(c)
  BY DEF Line, Waiting
<1>3. Order' = Order
  BY DEF Order, Ahead
<1>. QED  BY <1>1, <1>2, <1>3 DEF Promise!vars, Order

(* The controller keeps the promise of SlotPool for any number of calls    *)
(* and all limits: a call starts only when each of its pools has a slot,   *)
(* of those of its class that wait the first to come, and none of them is  *)
(* passed by a call that does not wait, although the classes share two     *)
(* queues and drain() skips what cannot start (concurrency.ts:251).        *)
THEOREM PromiseAlwaysKept == Spec => KeepsPromise
<1>1. Init => Promise!Init
  <2>. SUFFICES ASSUME Init PROVE Promise!Init
    OBVIOUS
  <2>1. \A p \in Pool : Occupants(p) = {}
    BY DEF Init, Occupants, Running
  <2>2. \A c \in AdmissionClass : Line(c) = {}
    BY DEF Init, Line, Waiting
  <2>3. Order = {}
    <3>1. IInv
      BY InitIInv
    <3>. QED  BY <3>1, AheadWaits DEF Order, Init, Waiting, IInv
  <2>4. {r \in Request : status[r] \in Settled} = {}
    BY DEF Init, Settled
  <2>. QED  BY <2>1, <2>2, <2>3, <2>4 DEF Promise!Init, Order
<1>2. IInv /\ [Next]_vars => [Promise!Next]_(Promise!vars)
  <2>. SUFFICES ASSUME IInv, [Next]_vars PROVE [Promise!Next]_(Promise!vars)
    OBVIOUS
  <2>1. ASSUME NEW r \in Request, NEW k \in AdmissionClass, Submit(r, k)
        PROVE  [Promise!Next]_(Promise!vars)
    <3>1. CASE SubmitAborted(r) \/ SubmitRejected(r, k)
      <4>1. PICK x \in {"cancelled", "rejected"} :
              /\ status[r] = "idle" /\ status' = [status EXCEPT ![r] = x]
              /\ UNCHANGED <<kind, controlQueue, regularQueue>>
        BY <3>1 DEF SubmitAborted, SubmitRejected
      <4>2. x \in Settled
        BY DEF Settled
      <4>. QED  BY <4>1, <4>2, RefusalRefines DEF Promise!Next
    <3>2. CASE SubmitStarts(r, k)
      BY <3>2, EnterRefines DEF Promise!Next
    <3>3. CASE SubmitQueued(r, k)
      BY <3>3, QueueRefines DEF Promise!Next
    <3>. QED  BY <2>1, <3>1, <3>2, <3>3 DEF Submit
  <2>2. ASSUME NEW r \in Request, QueueTimeout(r) \/ AbortQueued(r)
        PROVE  [Promise!Next]_(Promise!vars)
    BY <2>2, GiveUpRefines DEF Promise!Next
  <2>3. ASSUME NEW r \in Request, Finish(r) PROVE [Promise!Next]_(Promise!vars)
    BY <2>3, ReleaseRefines DEF Promise!Next
  <2>4. ASSUME NEW r \in Request, AbortEarly(r) \/ AbortRunning(r)
        PROVE  [Promise!Next]_(Promise!vars)
    BY <2>4, UnseenSteps DEF AbortEarly, AbortRunning
  <2>5. CASE DrainControl \/ DrainRegular
    <3>1. draining
      BY <2>5 DEF DrainControl, DrainRegular
    <3>. QED  BY <2>5, <3>1, StartRefines DEF Promise!Next
  <2>6. CASE DrainEnd \/ UNCHANGED vars
    BY <2>6, UnseenSteps DEF DrainEnd, vars
  <2>. QED  BY <2>1, <2>2, <2>3, <2>4, <2>5, <2>6 DEF Next, Drain
<1>. QED  BY <1>1, <1>2, Invariance, PTL DEF Spec, KeepsPromise, Promise!Spec
=============================================================================
