----------------------------- MODULE JobLedger ------------------------------
(***************************************************************************)
(* The durable job ledger: a directory per operation, reserved by a        *)
(* backend's store (src/src/execution/job-store.ts) and carried out by a   *)
(* detached worker process (src/src/execution/job-worker.ts).  Several     *)
(* backends of a hot swap, each with a store of its own, may share the     *)
(* ledger; they meet only in the file system.                              *)
(*                                                                         *)
(* Every await of a start is a step of its own.  A store may crash between *)
(* any two, a worker may die at any moment, and a launch may be lost or    *)
(* its acknowledgement may be.  An operation identifier is not used again  *)
(* once its record has expired (docs/RELIABILITY.md).  An output is one    *)
(* unit or empty.                                                          *)
(***************************************************************************)
EXTENDS Naturals, FiniteSets

CONSTANTS
  Store, Job, Hash,
  MaxConcurrent, MaxStoredJobs, MaxStoredOutputs,
  Cancellable,     \* the jobs that callers may cancel
  StoresCrash,     \* TRUE iff a backend may die during a start
  PromptWorkers,   \* TRUE iff a started job is launched and reports within thirty seconds
  None

ASSUME ConstantsAssumption ==
  /\ None \notin Job \cup Hash
  /\ {MaxConcurrent, MaxStoredJobs, MaxStoredOutputs} \subseteq Nat \ {0}
  /\ Cancellable \subseteq Job
  /\ {StoresCrash, PromptWorkers} \subseteq BOOLEAN

VARIABLES
  dir,        \* the ledger: of each job the directory and its files
  age,        \* of each record, by its last update: new, late, old
  worker,     \* of each job the progress of its worker process
  result,     \* what the worker is about to record
  call,       \* of each store the start it performs
  cancelling, \* jobs that a cancel call has found undecided
  poll,       \* of each job its worker's timer: idle, a look under way and what it saw, or aborted
  runs, accepted, forgotten, stopped
              \* history: executions, hashes acknowledged, expired records, and
              \* jobs whose cancellation was there before their worker reported

vars == <<dir, age, worker, result, call, cancelling, runs, accepted, forgotten, stopped, poll>>
history == <<runs, accepted, forgotten, stopped>>

Terminal == {"succeeded", "failed", "cancelled"}
Recorded == {"starting", "running"} \cup Terminal
NoRecord == [state |-> "none", hash |-> None, size |-> 0, expired |-> FALSE]
NoDirectory == [exists |-> FALSE, record |-> NoRecord, cancel |-> FALSE, output |-> "none"]
NoCall == [step |-> "idle", job |-> None, hash |-> None, sweep |-> {}]
Alive == {"claimed", "checking", "executing", "decided", "written"}

Init ==
  /\ dir = [j \in Job |-> NoDirectory]
  /\ age = [j \in Job |-> "new"]
  /\ worker = [j \in Job |-> "none"]
  /\ result = [j \in Job |-> [state |-> "none", size |-> 0]]
  /\ call = [s \in Store |-> NoCall]
  /\ cancelling = {}
  /\ runs = [j \in Job |-> 0]
  /\ accepted = [j \in Job |-> {}]
  /\ forgotten = {}
  /\ stopped = {}
  /\ poll = [j \in Job |-> "idle"]

-----------------------------------------------------------------------------
(* What status() makes of a record: an undecided one whose worker is gone, *)
(* or that no worker has taken up for thirty seconds, is unknown.          *)
State(j) == dir[j].record.state
Records == {j \in Job : State(j) # "none"}
Observed(j) ==
  IF \/ State(j) = "starting" /\ age[j] # "new"
     \/ State(j) = "running" /\ worker[j] \notin Alive
  THEN "unknown" ELSE State(j)

-----------------------------------------------------------------------------
(* start(): a store performs one at a time.  The request matters, and is   *)
(* chosen, when it is compared or recorded.                                *)

At(s, step) == call[s].step = step
Goto(s, step) == call' = [call EXCEPT ![s].step = step]
Return(s) == call' = [call EXCEPT ![s] = NoCall]

(* An operation whose retention is over is not submitted again.            *)
Submitted(s, j) == At(s, "idle") /\ j \notin forgotten /\ age[j] # "old"

(* The operation is known: its record is the answer, or a conflict.        *)
SameRequest(j, h) == dir[j].record.hash = h
Retrieve(s, j, h) ==
  /\ Submitted(s, j) /\ j \in Records /\ SameRequest(j, h)
  /\ accepted' = [accepted EXCEPT ![j] = @ \cup {h}]
  /\ UNCHANGED <<dir, age, worker, result, call, cancelling, runs, forgotten, stopped, poll>>

(* It is not: first the records whose retention is over are surveyed, to   *)
(* be purged or, earlier in their life, to lose their output.              *)
SweepableEarly_Slip(j) == State(j) \in Terminal /\ (age[j] = "old" \/ ~dir[j].record.expired)
Sweepable(j) == State(j) \in Terminal /\ (age[j] = "old" \/ (age[j] = "late" /\ ~dir[j].record.expired))
Survey(s, j) ==
  /\ Submitted(s, j) /\ j \notin Records
  /\ call' = [call EXCEPT ![s].step = "sweep", ![s].job = j,
       ![s].sweep = {[job |-> i, record |-> dir[i].record, purge |-> age[i] = "old"] : i \in {k \in Job : Sweepable(k)}}]
  /\ UNCHANGED <<dir, age, worker, result, cancelling, history, poll>>

Sweeping(s, e) == At(s, "sweep") /\ e \in call[s].sweep
Swept(s, e) == call' = [call EXCEPT ![s].sweep = @ \ {e}]

(* Removing a directory removes its files in some order, then itself; what *)
(* another store has removed already is no error.                          *)
PurgeFile(s, e) ==
  /\ Sweeping(s, e) /\ e.purge
  /\ \/ /\ State(e.job) # "none"
        /\ dir' = [dir EXCEPT ![e.job].record = NoRecord]
        /\ forgotten' = forgotten \cup {e.job}
     \/ /\ dir[e.job].output # "none"
        /\ dir' = [dir EXCEPT ![e.job].output = "none"]
        /\ UNCHANGED forgotten
  /\ UNCHANGED <<age, worker, result, call, cancelling, runs, accepted, stopped, poll>>

PurgeDirectory(s, e) ==
  /\ Sweeping(s, e) /\ e.purge
  /\ State(e.job) = "none" /\ dir[e.job].output = "none"
  /\ dir' = [dir EXCEPT ![e.job] = NoDirectory]
  /\ Swept(s, e)
  /\ UNCHANGED <<age, worker, result, cancelling, history, poll>>

(* The output files go, then the surveyed record is written again, marked. *)
(* If another store removed the directory meanwhile, the start fails.      *)
ExpireOutput(s, e) ==
  /\ Sweeping(s, e) /\ ~e.purge
  /\ dir[e.job].output # "none"
  /\ dir' = [dir EXCEPT ![e.job].output = "none"]
  /\ UNCHANGED <<age, worker, result, call, cancelling, history, poll>>

ExpireRecord(s, e) ==
  /\ Sweeping(s, e) /\ ~e.purge
  /\ dir[e.job].output = "none"
  /\ IF dir[e.job].exists
     THEN /\ dir' = [dir EXCEPT ![e.job].record = [e.record EXCEPT !.expired = TRUE, !.size = 0]]
          /\ Swept(s, e)
     ELSE Return(s) /\ UNCHANGED dir
  /\ UNCHANGED <<age, worker, result, cancelling, history, poll>>

(* Then the records are read again, and the start is refused if too many   *)
(* jobs are active or the ledger or its output budget is full.             *)
ActiveUnreported_Slip == {j \in Records : Observed(j) = "running"}
Active == {j \in Records : Observed(j) \in {"starting", "running"}}
Reserved == {j \in Records : State(j) \notin Terminal \/ dir[j].record.size = 1}
HasRoom ==
  /\ Cardinality(Active) < MaxConcurrent
  /\ Cardinality(Records) < MaxStoredJobs
  /\ Cardinality(Reserved) < MaxStoredOutputs

Admit(s) ==
  /\ At(s, "sweep") /\ call[s].sweep = {}
  /\ IF HasRoom THEN Goto(s, "reserve") ELSE Return(s)
  /\ UNCHANGED <<dir, age, worker, result, cancelling, history, poll>>

(* mkdir is the reservation: of all stores one makes the directory, and    *)
(* the others report an unknown outcome.                                   *)
Free_Slip(j) == TRUE
Free(j) == ~dir[j].exists
Reserve(s) ==
  /\ At(s, "reserve")
  /\ IF Free(call[s].job)
     THEN /\ dir' = [dir EXCEPT ![call[s].job].exists = TRUE]
          /\ Goto(s, "record")
     ELSE Return(s) /\ UNCHANGED dir
  /\ UNCHANGED <<age, worker, result, cancelling, history, poll>>

Record(s, h) ==
  LET j == call[s].job IN
  /\ At(s, "record")
  /\ dir' = [dir EXCEPT ![j].record = [state |-> "starting", hash |-> h, size |-> 0, expired |-> FALSE]]
  /\ age' = [age EXCEPT ![j] = "new"]
  /\ call' = [call EXCEPT ![s].step = "launch", ![s].hash = h]
  /\ UNCHANGED <<worker, result, cancelling, history, poll>>

(* The launch reaches the service manager or is lost; the caller is told   *)
(* of the job in either case, as unknown if nothing was confirmed.         *)
Launch(s) ==
  LET j == call[s].job IN
  /\ At(s, "launch")
  /\ worker' \in {worker, [worker EXCEPT ![j] = "launched"]}
  /\ accepted' = [accepted EXCEPT ![j] = @ \cup {call[s].hash}]
  /\ Return(s)
  /\ UNCHANGED <<dir, age, result, cancelling, runs, forgotten, stopped, poll>>

StoreCrashes(s) ==
  /\ StoresCrash /\ ~At(s, "idle")
  /\ Return(s)
  /\ UNCHANGED <<dir, age, worker, result, cancelling, history, poll>>

-----------------------------------------------------------------------------
(* cancel(): reads the record, then leaves a request beside it.            *)
CancelRead(j) ==
  /\ j \in Records \cap Cancellable /\ State(j) \notin Terminal
  /\ cancelling' = cancelling \cup {j}
  /\ UNCHANGED <<dir, age, worker, result, call, history, poll>>

CancelWrite(j) ==
  /\ j \in cancelling
  /\ cancelling' = cancelling \ {j}
  /\ dir' = [dir EXCEPT ![j].cancel = @ \/ dir[j].exists]
  /\ stopped' = IF dir[j].exists /\ worker[j] \in {"none", "launched", "claimed"} THEN stopped \cup {j} ELSE stopped
  /\ UNCHANGED <<age, worker, result, call, runs, accepted, forgotten, poll>>

-----------------------------------------------------------------------------
(* The worker process.                                                     *)

Step(j, from, to) == worker[j] = from /\ worker' = [worker EXCEPT ![j] = to]
Decides(j, state, size) == result' = [result EXCEPT ![j] = [state |-> state, size |-> size]]

(* The claim is a mkdir too; the launched worker is the only one to try.   *)
Claim(j) ==
  /\ Step(j, "launched", "claimed")
  /\ UNCHANGED <<dir, age, result, call, cancelling, history, poll>>

ReportRunning(j) ==
  /\ Step(j, "claimed", "checking")
  /\ dir' = [dir EXCEPT ![j].record.state = "running"]
  /\ age' = [age EXCEPT ![j] = "new"]
  /\ UNCHANGED <<result, call, cancelling, history, poll>>

(* Meanwhile a timer polls for a cancellation, one look at a time: a look  *)
(* under way has found one, or nothing, and aborts, or does not, when it   *)
(* is answered.  Polls are followed until the command is started.          *)
Preparing == {"claimed", "checking"}
Look(j, from, to) == poll[j] \in from /\ poll' = [poll EXCEPT ![j] = to]
PollStarts(j) ==
  /\ worker[j] \in Preparing
  /\ Look(j, {"idle"}, IF dir[j].cancel THEN "found" ELSE "clear")
  /\ UNCHANGED <<dir, age, worker, result, call, cancelling, history>>

PollAnswers(j) ==
  /\ worker[j] \in Preparing
  /\ Look(j, {"clear"}, "idle") \/ Look(j, {"found"}, "aborted")
  /\ UNCHANGED <<dir, age, worker, result, call, cancelling, history>>

(* The request cannot be read, or the process cannot identify itself; a    *)
(* poll or a signal that came meanwhile makes it a cancellation.           *)
WorkerErrs(j) ==
  /\ Step(j, "claimed", "decided")
  /\ \E state \in {"failed", "cancelled"} : (poll[j] = "aborted" => state = "cancelled") /\ Decides(j, state, 0)
  /\ poll' = [poll EXCEPT ![j] = "idle"]
  /\ UNCHANGED <<dir, age, call, cancelling, history>>

(* Before the command is started the worker looks once more, but not while *)
(* a poll is under way, whose answer it does not wait for.  A signal, too, *)
(* prevents the execution, and can come at any time.                       *)
Withdrawn_Slip(j) == FALSE
Withdrawn(j) == poll[j] = "aborted" \/ (poll[j] = "idle" /\ dir[j].cancel)
Execute(j) ==
  /\ ~Withdrawn(j)
  /\ Step(j, "checking", "executing")
  /\ runs' = [runs EXCEPT ![j] = @ + 1]
  /\ poll' = [poll EXCEPT ![j] = "idle"]
  /\ UNCHANGED <<dir, age, result, call, cancelling, accepted, forgotten, stopped>>

WithdrawSilently_Slip(j) ==
  /\ Step(j, "checking", "exited")
  /\ UNCHANGED <<dir, age, result, call, cancelling, history, poll>>
Withdraw(j) ==
  /\ Step(j, "checking", "decided")
  /\ Decides(j, "cancelled", 0)
  /\ poll' = [poll EXCEPT ![j] = "idle"]
  /\ UNCHANGED <<dir, age, call, cancelling, history>>

(* The command ends, or is aborted by the poll for a cancellation or by a  *)
(* signal; either may also come when the command has ended.                *)
CommandEnds(j) ==
  /\ Step(j, "executing", "decided")
  /\ \E state \in Terminal, size \in 0..1 : Decides(j, state, size)
  /\ UNCHANGED <<dir, age, call, cancelling, history, poll>>

WriteOutput(j) ==
  /\ Step(j, "decided", "written")
  /\ dir' = [dir EXCEPT ![j].output = IF result[j].size = 1 THEN "full" ELSE "empty"]
  /\ UNCHANGED <<age, result, call, cancelling, history, poll>>

WriteResult(j) ==
  /\ Step(j, "written", "exited")
  /\ dir' = [dir EXCEPT ![j].record.state = result[j].state, ![j].record.size = result[j].size]
  /\ age' = [age EXCEPT ![j] = "new"]
  /\ Decides(j, "none", 0)
  /\ UNCHANGED <<call, cancelling, history, poll>>

WorkerDies(j) ==
  /\ worker[j] \in Alive \cup {"launched"}
  /\ worker' = [worker EXCEPT ![j] = "dead"]
  /\ Decides(j, "none", 0)
  /\ poll' = [poll EXCEPT ![j] = "idle"]
  /\ UNCHANGED <<dir, age, call, cancelling, history>>

Underway(j) ==
  \/ worker[j] \in Alive \cup {"launched"}
  \/ \E s \in Store : At(s, "launch") /\ call[s].job = j

(* Time passes over a record.  Nobody starts an operation while its record *)
(* expires.                                                                *)
Ages(j) ==
  /\ j \in Records
  /\ \/ /\ age[j] = "new"
        /\ State(j) \in {"starting"} \cup Terminal
        /\ PromptWorkers => State(j) \in Terminal \/ ~Underway(j)
        /\ age' = [age EXCEPT ![j] = "late"]
     \/ /\ age[j] = "late" /\ State(j) \in Terminal
        /\ \A s \in Store : call[s].job # j
        /\ age' = [age EXCEPT ![j] = "old"]
  /\ UNCHANGED <<dir, worker, result, call, cancelling, history, poll>>

-----------------------------------------------------------------------------
StartStep(s) ==
  \/ Admit(s) \/ Reserve(s) \/ Launch(s) \/ \E h \in Hash : Record(s, h)
  \/ \E e \in call[s].sweep : PurgeFile(s, e) \/ PurgeDirectory(s, e) \/ ExpireOutput(s, e) \/ ExpireRecord(s, e)

WorkerStep(j) ==
  \/ Claim(j) \/ ReportRunning(j) \/ WorkerErrs(j) \/ Execute(j) \/ Withdraw(j)
  \/ CommandEnds(j) \/ WriteOutput(j) \/ WriteResult(j)

Next ==
  \/ \E s \in Store : StartStep(s) \/ StoreCrashes(s) \/ \E j \in Job : Survey(s, j) \/ \E h \in Hash : Retrieve(s, j, h)
  \/ \E j \in Job : WorkerStep(j) \/ PollStarts(j) \/ PollAnswers(j) \/ WorkerDies(j) \/ Ages(j) \/ CancelRead(j) \/ CancelWrite(j)

Spec == Init /\ [][Next]_vars

(* The file system answers, and commands end: they have a time limit.      *)
FairSpec ==
  /\ Spec
  /\ \A s \in Store : WF_vars(StartStep(s))
  /\ \A j \in Job : WF_vars(WorkerStep(j))

-----------------------------------------------------------------------------
(* Properties.                                                             *)

RecordType == [state : Recorded \cup {"none"}, hash : Hash \cup {None}, size : {0, 1}, expired : BOOLEAN]
DirectoryType == [exists : BOOLEAN, record : RecordType, cancel : BOOLEAN, output : {"none", "empty", "full"}]
EntryType == [job : Job, record : RecordType, purge : BOOLEAN]
CallType ==
  [step : {"idle", "sweep", "reserve", "record", "launch"},
   job : Job \cup {None}, hash : Hash \cup {None}, sweep : SUBSET EntryType]
TypeOK ==
  /\ dir \in [Job -> DirectoryType]
  /\ age \in [Job -> {"new", "late", "old"}]
  /\ worker \in [Job -> Alive \cup {"none", "launched", "exited", "dead"}]
  /\ result \in [Job -> [state : Terminal \cup {"none"}, size : {0, 1}]]
  /\ call \in [Store -> CallType]
  /\ cancelling \subseteq Job /\ forgotten \subseteq Job /\ stopped \subseteq Job
  /\ poll \in [Job -> {"idle", "clear", "found", "aborted"}]
  /\ runs \in [Job -> Nat] /\ accepted \in [Job -> SUBSET Hash]

(* Refinement: see OperationOnce.                                          *)
Life(j) ==
  IF j \in forgotten THEN "forgotten"
  ELSE IF State(j) = "none" THEN "free"
  ELSE IF State(j) \in Terminal THEN State(j)
  ELSE IF runs[j] = 1 THEN "running" ELSE "reserved"

Asked(j) == IF j \in forgotten THEN None ELSE dir[j].record.hash

Once == INSTANCE OperationOnce WITH
  Operation <- Job,
  Request <- Hash,
  life <- [j \in Job |-> Life(j)],
  asked <- [j \in Job |-> Asked(j)],
  told <- accepted

(* The stores and the workers together keep the promise of OperationOnce:  *)
(* one request per operation, at most one execution, one outcome.          *)
KeepsOnce == Once!Spec

(* No more workers are busy than jobs.maxConcurrent allows (docs/RELIABILITY.md: *)
(* "Their limits default to two concurrent jobs").                         *)
CapacityRespected == Cardinality({j \in Job : worker[j] \in Alive}) <= MaxConcurrent

(* The outputs on disk, and those that running jobs will still write, fit  *)
(* into the budget across sweeps, lost launches and worker deaths          *)
(* (docs/RELIABILITY.md: "256 MiB of stored/reserved output").             *)
BudgetHolds ==
  Cardinality({j \in Job : dir[j].output = "full" \/ worker[j] \in Alive}) <= MaxStoredOutputs

(* The two limits of the ledger, of what really runs and lies on disk; a   *)
(* start checks both on one list of the records (job-store.ts:153-159).    *)
LimitsHold == CapacityRespected /\ BudgetHolds

(* An outcome that is recorded can be fetched: its output was written      *)
(* before it and no sweep, crash or expiry of another record removes it    *)
(* before its time (output(), lines 184-192).                              *)
OutcomeHasOutput ==
  TypeOK /\ \A j \in Records : State(j) \in Terminal /\ age[j] = "new" => dir[j].output # "none"

(* A cancellation that is on disk before the worker reports prevents the   *)
(* execution for good (test/jobs.test.ts:76), unless a poll is under way   *)
(* just when the worker looks for the last time (job-worker.ts:25, 43).    *)
EarlyCancelPrevents ==
  [][\A j \in stopped : runs'[j] # runs[j] => poll[j] \in {"clear", "found"}]_vars

(* A worker that took up a job records its outcome, unless it is killed.   *)
EveryJobDecided ==
  \A j \in Job : worker[j] = "claimed" ~> (worker[j] = "dead" \/ State(j) \in Terminal)

=============================================================================
