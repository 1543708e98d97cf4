-------------------------- MODULE JobLedger_proofs --------------------------
(***************************************************************************)
(* Safety of the durable job ledger, and that it implements OperationOnce, *)
(* for every number of backends and operations and all limits.             *)
(***************************************************************************)
EXTENDS JobLedger, FiniteSetTheorems, TLAPS

-----------------------------------------------------------------------------
(* The inductive invariant: of each job, and of each start.                *)

(* What the record says while the worker is somewhere.                     *)
Progress(j) ==
  /\ worker[j] = "none" => State(j) \in {"none", "starting"} /\ runs[j] = 0
  /\ worker[j] \in {"launched", "claimed"} => State(j) = "starting" /\ runs[j] = 0
  /\ worker[j] = "checking" => State(j) = "running" /\ runs[j] = 0
  /\ worker[j] = "executing" => State(j) = "running" /\ runs[j] = 1
  /\ worker[j] \in {"decided", "written", "dead"} =>
       \/ State(j) = "starting" /\ runs[j] = 0
       \/ State(j) = "running" /\ runs[j] \in {0, 1}
  /\ worker[j] \in {"decided", "written"} =>
       result[j].state \in Terminal /\ (runs[j] = 0 => result[j].state # "succeeded")
  /\ worker[j] = "exited" =>
       State(j) \in Terminal \cup {"none"} /\ (j \notin forgotten => State(j) \in Terminal)
  /\ worker[j] = "written" => dir[j].output # "none"
  /\ State(j) \in Terminal /\ age[j] = "new" => dir[j].output # "none"

(* What the directory holds, and how long.                                 *)
Retention(j) ==
  /\ j \in forgotten => age[j] = "old"
  /\ age[j] = "old" => worker[j] = "exited"
  /\ ~dir[j].exists => dir[j] = NoDirectory /\ (worker[j] = "none" \/ j \in forgotten)
  /\ State(j) = "none" => dir[j].record = NoRecord
  /\ State(j) # "none" => dir[j].record.hash \in Hash

(* An early cancellation is still there when the worker looks for it.      *)
Withdrawal(j) ==
  j \in stopped /\ worker[j] \in {"none", "launched", "claimed", "checking"} => dir[j].cancel

JobInv(j) == Progress(j) /\ Retention(j) /\ Withdrawal(j)

(* A sweep is about decided jobs whose time has come; until another sweep  *)
(* purges one, the surveyed record is its record but for the expiry.       *)
Entries(s) ==
  \A e \in call[s].sweep :
    /\ worker[e.job] = "exited" /\ age[e.job] # "new" /\ (e.purge => age[e.job] = "old")
    /\ e.record.state \in Terminal /\ e.record.hash \in Hash
    /\ e.job \notin forgotten =>
         e.record.state = State(e.job) /\ e.record.hash = dir[e.job].record.hash

(* A start is about a job that is not over, and from its reservation on    *)
(* about a job of its own.                                                 *)
Owns(s) == call[s].step \in {"record", "launch"}
Claimed(s) ==
  /\ call[s].step # "idle" => call[s].job \in Job /\ age[call[s].job] # "old"
  /\ Owns(s) => dir[call[s].job].exists /\ worker[call[s].job] = "none"
  /\ call[s].step = "record" => State(call[s].job) = "none"
  /\ call[s].step = "launch" =>
       State(call[s].job) = "starting" /\ dir[call[s].job].record.hash = call[s].hash
Exclusive(s) == \A t \in Store : Owns(s) /\ Owns(t) /\ call[s].job = call[t].job => s = t

StoreInv(s) == Entries(s) /\ Claimed(s) /\ Exclusive(s)

IInv == TypeOK /\ (\A j \in Job : JobInv(j)) /\ (\A s \in Store : StoreInv(s))

-----------------------------------------------------------------------------
(* A step about one job.                                                   *)

(* Nothing that the invariant says of a job changes.                       *)
SameJob(k) ==
  /\ dir'[k] = dir[k] /\ age'[k] = age[k] /\ worker'[k] = worker[k] /\ result'[k] = result[k]
  /\ runs'[k] = runs[k] /\ (k \in forgotten' <=> k \in forgotten) /\ (k \in stopped' <=> k \in stopped)

(* The invariant of a job depends on nothing but what SameJob lists.       *)
LEMMA SameJobKeeps ==
  ASSUME NEW k \in Job, JobInv(k), SameJob(k)
  PROVE  JobInv(k)'
BY DEF SameJob, JobInv, Progress, Retention, Withdrawal, State

(* A step of the worker of a job, which has not exited, leaves the sweeps  *)
(* and the starts in progress alone.                                       *)
LEMMA WorkerLeavesStarts ==
  ASSUME IInv, NEW j \in Job, worker[j] \in Alive \cup {"launched"},
         \A k \in Job \ {j} : SameJob(k),
         age'[j] # "old", forgotten' = forgotten, call' = call
  PROVE  \A s \in Store : StoreInv(s)'
<1>. SUFFICES ASSUME NEW s \in Store PROVE StoreInv(s)'
  OBVIOUS
<1>1. Entries(s)'
  <2>. SUFFICES ASSUME NEW e \in call[s].sweep
       PROVE  /\ worker'[e.job] = "exited" /\ age'[e.job] # "new" /\ (e.purge => age'[e.job] = "old")
              /\ e.record.state \in Terminal /\ e.record.hash \in Hash
              /\ e.job \notin forgotten =>
                   e.record.state = State(e.job)' /\ e.record.hash = dir'[e.job].record.hash
    BY DEF Entries
  <2>1. e.job \in Job
    BY DEF IInv, TypeOK, CallType, EntryType
  <2>2. e.job # j
    BY DEF IInv, StoreInv, Entries, Alive
  <2>. QED  BY <2>1, <2>2 DEF IInv, StoreInv, Entries, SameJob, State
<1>2. Claimed(s)'
  <2>1. Owns(s) => call[s].job # j
    BY DEF IInv, StoreInv, Claimed, Owns, Alive
  <2>. QED  BY <2>1 DEF IInv, StoreInv, Claimed, Owns, SameJob, State
<1>3. Exclusive(s)'
  BY DEF IInv, StoreInv, Exclusive, Owns
<1>. QED  BY <1>1, <1>2, <1>3 DEF StoreInv

-----------------------------------------------------------------------------
(* A change of one directory.                                              *)

(* A directory is replaced as a whole,                                     *)
LEMMA DirectoryReplaced ==
  ASSUME TypeOK, NEW j \in Job, NEW d \in DirectoryType, dir' = [dir EXCEPT ![j] = d]
  PROVE  /\ dir' \in [Job -> DirectoryType] /\ dir'[j] = d
         /\ \A k \in Job \ {j} : dir'[k] = dir[k]
BY DEF TypeOK

(* or its record is,                                                       *)
LEMMA RecordReplaced ==
  ASSUME TypeOK, NEW j \in Job, NEW r \in RecordType, dir' = [dir EXCEPT ![j].record = r]
  PROVE  /\ dir' \in [Job -> DirectoryType] /\ \A k \in Job \ {j} : dir'[k] = dir[k]
         /\ dir'[j].record = r /\ State(j)' = r.state /\ dir'[j].record.hash = r.hash
         /\ dir'[j].exists = dir[j].exists /\ dir'[j].cancel = dir[j].cancel /\ dir'[j].output = dir[j].output
<1>. DEFINE d == [dir[j] EXCEPT !.record = r]
<1>1. d \in DirectoryType
  <2>1. dir[j] \in DirectoryType
    BY DEF TypeOK
  <2>. QED  BY <2>1 DEF DirectoryType
<1>2. dir' = [dir EXCEPT ![j] = d]
  OBVIOUS
<1>3. d.record = r /\ d.exists = dir[j].exists /\ d.cancel = dir[j].cancel /\ d.output = dir[j].output
  BY DEF TypeOK, DirectoryType
<1>. HIDE DEF d
<1>. QED  BY <1>1, <1>2, <1>3, DirectoryReplaced DEF State

(* or its output.                                                          *)
LEMMA OutputReplaced ==
  ASSUME TypeOK, NEW j \in Job, NEW o \in {"none", "empty", "full"}, dir' = [dir EXCEPT ![j].output = o]
  PROVE  /\ dir' \in [Job -> DirectoryType] /\ \A k \in Job \ {j} : dir'[k] = dir[k]
         /\ dir'[j].record = dir[j].record /\ State(j)' = State(j) /\ dir'[j].output = o
         /\ dir'[j].exists = dir[j].exists /\ dir'[j].cancel = dir[j].cancel
<1>. DEFINE d == [dir[j] EXCEPT !.output = o]
<1>1. d \in DirectoryType
  <2>1. dir[j] \in DirectoryType
    BY DEF TypeOK
  <2>. QED  BY <2>1 DEF DirectoryType
<1>2. dir' = [dir EXCEPT ![j] = d]
  OBVIOUS
<1>3. d.record = dir[j].record /\ d.exists = dir[j].exists /\ d.cancel = dir[j].cancel /\ d.output = o
  BY DEF TypeOK, DirectoryType
<1>. HIDE DEF d
<1>. QED  BY <1>1, <1>2, <1>3, DirectoryReplaced DEF State

-----------------------------------------------------------------------------
(* The worker.                                                             *)

(* The worker reports: the record was still that of the start.             *)
LEMMA ReportRunningKeeps ==
  ASSUME IInv, NEW j \in Job, ReportRunning(j)
  PROVE  IInv'
<1>1. /\ worker[j] = "claimed" /\ worker' = [worker EXCEPT ![j] = "checking"]
      /\ age' = [age EXCEPT ![j] = "new"]
      /\ UNCHANGED <<result, call, cancelling, runs, accepted, forgotten, stopped, poll>>
  BY DEF ReportRunning, Step, history
<1>. DEFINE r == [dir[j].record EXCEPT !.state = "running"]
<1>2. r \in RecordType /\ r.state = "running" /\ r.hash = dir[j].record.hash
  <2>1. dir[j].record \in RecordType
    BY DEF IInv, TypeOK, DirectoryType
  <2>2. result[j].state \in Terminal \cup {"none"} /\ result[j].size \in {0, 1}
    BY DEF IInv, TypeOK
  <2>. QED  BY <2>1, <2>2 DEF RecordType, Recorded
<1>3. dir' = [dir EXCEPT ![j].record = r]
  BY DEF ReportRunning
<1>. HIDE DEF r
<1>4. /\ dir' \in [Job -> DirectoryType] /\ \A k \in Job \ {j} : dir'[k] = dir[k]
      /\ State(j)' = "running" /\ dir'[j].record.hash = dir[j].record.hash
      /\ dir'[j].exists = dir[j].exists /\ dir'[j].cancel = dir[j].cancel /\ dir'[j].output = dir[j].output
  BY <1>2, <1>3, RecordReplaced DEF IInv
<1>5. TypeOK'
  BY <1>1, <1>4 DEF IInv, TypeOK, Alive
<1>6. \A k \in Job \ {j} : SameJob(k)
  BY <1>1, <1>4 DEF SameJob, IInv, TypeOK
<1>7. JobInv(j)'
  <2>1. JobInv(j) /\ State(j) = "starting" /\ runs[j] = 0
    BY <1>1 DEF IInv, JobInv, Progress
  <2>2. worker'[j] = "checking" /\ age'[j] = "new"
    BY <1>1 DEF IInv, TypeOK
  <2>. QED
    BY <1>1, <1>4, <2>1, <2>2 DEF JobInv, Progress, Retention, Withdrawal, Terminal, NoDirectory, NoRecord
<1>8. \A s \in Store : StoreInv(s)'
  BY <1>1, <1>6, WorkerLeavesStarts DEF IInv, TypeOK, Alive
<1>. QED  BY <1>5, <1>6, <1>7, <1>8, SameJobKeeps DEF IInv

(* It writes the output,                                                   *)
LEMMA WriteOutputKeeps ==
  ASSUME IInv, NEW j \in Job, WriteOutput(j)
  PROVE  IInv'
<1>1. /\ worker[j] = "decided" /\ worker' = [worker EXCEPT ![j] = "written"]
      /\ UNCHANGED <<age, result, call, cancelling, runs, accepted, forgotten, stopped, poll>>
  BY DEF WriteOutput, Step, history
<1>. DEFINE o == IF result[j].size = 1 THEN "full" ELSE "empty"
<1>2. o \in {"none", "empty", "full"} /\ o # "none" /\ dir' = [dir EXCEPT ![j].output = o]
  BY DEF WriteOutput
<1>. HIDE DEF o
<1>3. /\ dir' \in [Job -> DirectoryType] /\ \A k \in Job \ {j} : dir'[k] = dir[k]
      /\ dir'[j].record = dir[j].record /\ State(j)' = State(j) /\ dir'[j].output = o
      /\ dir'[j].exists = dir[j].exists /\ dir'[j].cancel = dir[j].cancel
  BY <1>2, OutputReplaced DEF IInv
<1>4. TypeOK'
  BY <1>1, <1>3 DEF IInv, TypeOK, Alive
<1>5. \A k \in Job \ {j} : SameJob(k)
  BY <1>1, <1>3 DEF SameJob, IInv, TypeOK
<1>6. JobInv(j) /\ worker'[j] = "written" /\ age[j] # "old" /\ dir[j].exists
  BY <1>1 DEF IInv, TypeOK, JobInv, Progress, Retention, State, NoDirectory, NoRecord
<1>7. JobInv(j)'
  BY <1>1, <1>2, <1>3, <1>6 DEF JobInv, Progress, Retention, Withdrawal, Terminal
<1>8. \A s \in Store : StoreInv(s)'
  BY <1>1, <1>5, <1>6, WorkerLeavesStarts DEF Alive
<1>. QED  BY <1>4, <1>5, <1>7, <1>8, SameJobKeeps DEF IInv

(* and then the outcome, which has its output by now.                      *)
LEMMA WriteResultKeeps ==
  ASSUME IInv, NEW j \in Job, WriteResult(j)
  PROVE  IInv'
<1>1. /\ worker[j] = "written" /\ worker' = [worker EXCEPT ![j] = "exited"]
      /\ age' = [age EXCEPT ![j] = "new"]
      /\ result' = [result EXCEPT ![j] = [state |-> "none", size |-> 0]]
      /\ UNCHANGED <<call, cancelling, runs, accepted, forgotten, stopped, poll>>
  BY DEF WriteResult, Step, Decides, history
<1>. DEFINE r == [dir[j].record EXCEPT !.state = result[j].state, !.size = result[j].size]
<1>2. r \in RecordType /\ r.state = result[j].state /\ r.hash = dir[j].record.hash
  <2>1. dir[j].record \in RecordType
    BY DEF IInv, TypeOK, DirectoryType
  <2>2. result[j].state \in Terminal \cup {"none"} /\ result[j].size \in {0, 1}
    BY DEF IInv, TypeOK
  <2>. QED  BY <2>1, <2>2 DEF RecordType, Recorded
<1>3. dir' = [dir EXCEPT ![j].record = r]
  BY DEF WriteResult
<1>. HIDE DEF r
<1>4. /\ dir' \in [Job -> DirectoryType] /\ \A k \in Job \ {j} : dir'[k] = dir[k]
      /\ State(j)' = result[j].state /\ dir'[j].record.hash = dir[j].record.hash
      /\ dir'[j].exists = dir[j].exists /\ dir'[j].cancel = dir[j].cancel /\ dir'[j].output = dir[j].output
  BY <1>2, <1>3, RecordReplaced DEF IInv
<1>5. TypeOK'
  BY <1>1, <1>4 DEF IInv, TypeOK
<1>6. \A k \in Job \ {j} : SameJob(k)
  BY <1>1, <1>4 DEF SameJob, IInv, TypeOK
<1>7. JobInv(j)'
  <2>1. /\ JobInv(j) /\ State(j) \in {"starting", "running"} /\ runs[j] \in {0, 1}
        /\ result[j].state \in Terminal /\ dir[j].output # "none"
    BY <1>1 DEF IInv, JobInv, Progress
  <2>2. worker'[j] = "exited" /\ age'[j] = "new" /\ dir[j].exists
    BY <1>1, <2>1 DEF IInv, TypeOK, JobInv, Retention, State, NoDirectory, NoRecord
  <2>. QED
    BY <1>1, <1>4, <2>1, <2>2 DEF JobInv, Progress, Retention, Withdrawal, Terminal, NoDirectory, NoRecord
<1>8. \A s \in Store : StoreInv(s)'
  BY <1>1, <1>6, WorkerLeavesStarts DEF IInv, TypeOK, Alive
<1>. QED  BY <1>5, <1>6, <1>7, <1>8, SameJobKeeps DEF IInv

(* The steps that change neither the directory nor the age of the record.  *)
LEMMA WorkerAdvances ==
  ASSUME IInv, NEW j \in Job,
         Claim(j) \/ WorkerErrs(j) \/ Execute(j) \/ Withdraw(j) \/ CommandEnds(j) \/ WorkerDies(j)
  PROVE  IInv'
<1>1. /\ worker[j] \in Alive \cup {"launched"}
      /\ UNCHANGED <<dir, age, call, cancelling, accepted, forgotten, stopped>>
  BY DEF Claim, WorkerErrs, Execute, Withdraw, CommandEnds, WorkerDies, Step, Alive, history, IInv, TypeOK
<1>2. /\ worker' \in [Job -> Alive \cup {"none", "launched", "exited", "dead"}]
      /\ result' \in [Job -> [state : Terminal \cup {"none"}, size : {0, 1}]]
      /\ runs' \in [Job -> Nat]
      /\ poll' \in [Job -> {"idle", "clear", "found", "aborted"}]
      /\ \A k \in Job \ {j} : worker'[k] = worker[k] /\ result'[k] = result[k] /\ runs'[k] = runs[k]
  <2>1. worker' \in [Job -> Alive \cup {"none", "launched", "exited", "dead"}] /\ \A k \in Job \ {j} : worker'[k] = worker[k]
    BY DEF Claim, WorkerErrs, Execute, Withdraw, CommandEnds, WorkerDies, Step, Alive, IInv, TypeOK
  <2>2. \/ result' = result
        \/ \E state \in Terminal \cup {"none"}, size \in {0, 1} : result' = [result EXCEPT ![j] = [state |-> state, size |-> size]]
    BY DEF Claim, WorkerErrs, Execute, Withdraw, CommandEnds, WorkerDies, Decides, Terminal
  <2>3. result' \in [Job -> [state : Terminal \cup {"none"}, size : {0, 1}]] /\ \A k \in Job \ {j} : result'[k] = result[k]
    BY <2>2 DEF IInv, TypeOK
  <2>4. runs' \in [Job -> Nat] /\ \A k \in Job \ {j} : runs'[k] = runs[k]
    BY DEF Claim, WorkerErrs, Execute, Withdraw, CommandEnds, WorkerDies, history, IInv, TypeOK
  <2>5. poll' \in [Job -> {"idle", "clear", "found", "aborted"}]
    BY DEF Claim, WorkerErrs, Execute, Withdraw, CommandEnds, WorkerDies, IInv, TypeOK
  <2>. QED  BY <2>1, <2>3, <2>4, <2>5
<1>3. TypeOK'
  BY <1>1, <1>2 DEF IInv, TypeOK
<1>4. \A k \in Job \ {j} : SameJob(k)
  BY <1>1, <1>2 DEF SameJob
<1>5. JobInv(j) /\ State(j)' = State(j) /\ UNCHANGED <<dir[j], age[j]>> /\ age[j] # "old"
  <2>1. JobInv(j)
    BY DEF IInv
  <2>2. age[j] # "old"
    BY <1>1, <2>1 DEF JobInv, Retention, Alive
  <2>. QED  BY <1>1, <2>1, <2>2 DEF State
<1>6. JobInv(j)'
  <2>1. CASE Claim(j)
    BY <1>1, <1>5, <2>1
    DEF Claim, Step, history, IInv, TypeOK, JobInv, Progress, Retention, Withdrawal, Terminal
  <2>2. CASE WorkerErrs(j)
    BY <1>1, <1>5, <2>2
    DEF WorkerErrs, Step, Decides, history, IInv, TypeOK, JobInv, Progress, Retention, Withdrawal, Terminal
  <2>3. CASE Execute(j)
    BY <1>1, <1>5, <2>3
    DEF Execute, Withdrawn, Step, history, IInv, TypeOK, JobInv, Progress, Retention, Withdrawal, Terminal
  <2>4. CASE Withdraw(j)
    BY <1>1, <1>5, <2>4
    DEF Withdraw, Step, Decides, history, IInv, TypeOK, JobInv, Progress, Retention, Withdrawal, Terminal
  <2>5. CASE CommandEnds(j)
    BY <1>1, <1>5, <2>5
    DEF CommandEnds, Step, Decides, history, IInv, TypeOK, JobInv, Progress, Retention, Withdrawal, Terminal
  <2>6. CASE WorkerDies(j)
    BY <1>1, <1>5, <2>6
    DEF WorkerDies, Decides, history, Alive, IInv, TypeOK, JobInv, Progress, Retention, Withdrawal, Terminal
  <2>. QED  BY <2>1, <2>2, <2>3, <2>4, <2>5, <2>6
<1>7. \A s \in Store : StoreInv(s)'
  BY <1>1, <1>4, <1>5, WorkerLeavesStarts
<1>. QED  BY <1>3, <1>4, <1>6, <1>7, SameJobKeeps DEF IInv

-----------------------------------------------------------------------------
(* Polls, cancellations, and the time that passes.                         *)

(* A step that the invariant does not see.                                 *)
LEMMA NothingChanges ==
  ASSUME IInv, TypeOK', UNCHANGED <<dir, age, worker, result, call, runs, forgotten, stopped>>
  PROVE  IInv'
<1>1. \A k \in Job : JobInv(k)'
  BY SameJobKeeps DEF SameJob, IInv
<1>2. \A s \in Store : StoreInv(s)'
  BY DEF IInv, StoreInv, Entries, Claimed, Exclusive, Owns, State
<1>. QED  BY <1>1, <1>2 DEF IInv

(* A worker polls for a cancellation.                                      *)
LEMMA PollKeeps ==
  ASSUME IInv, NEW j \in Job, PollStarts(j) \/ PollAnswers(j)
  PROVE  IInv'
<1>1. UNCHANGED <<dir, age, worker, result, call, cancelling, runs, accepted, forgotten, stopped>>
  BY DEF PollStarts, PollAnswers, history
<1>2. poll' \in [Job -> {"idle", "clear", "found", "aborted"}]
  BY DEF PollStarts, PollAnswers, Look, IInv, TypeOK
<1>. QED  BY <1>1, <1>2, NothingChanges DEF IInv, TypeOK

(* A cancel call reads the record,                                         *)
LEMMA CancelReadKeeps ==
  ASSUME IInv, NEW j \in Job, CancelRead(j)
  PROVE  IInv'
<1>1. UNCHANGED <<dir, age, worker, result, call, runs, accepted, forgotten, stopped, poll>> /\ cancelling' = cancelling \cup {j}
  BY DEF CancelRead, history
<1>. QED  BY <1>1, NothingChanges DEF IInv, TypeOK

(* and leaves its request if the directory is still there; the request     *)
(* counts as early only where the worker is yet to look for it.            *)
LEMMA CancelWriteKeeps ==
  ASSUME IInv, NEW j \in Job, CancelWrite(j)
  PROVE  IInv'
<1>1. /\ cancelling' = cancelling \ {j}
      /\ UNCHANGED <<age, worker, result, call, runs, accepted, forgotten, poll>>
  BY DEF CancelWrite
<1>. DEFINE d == [dir[j] EXCEPT !.cancel = @ \/ dir[j].exists]
<1>2. d \in DirectoryType /\ dir' = [dir EXCEPT ![j] = d]
  <2>1. dir[j] \in DirectoryType
    BY DEF IInv, TypeOK
  <2>2. (dir[j].cancel \/ dir[j].exists) \in BOOLEAN
    OBVIOUS
  <2>. QED  BY <2>1, <2>2 DEF CancelWrite, DirectoryType
<1>3. /\ d.record = dir[j].record /\ d.exists = dir[j].exists /\ d.output = dir[j].output
      /\ dir[j].cancel \/ dir[j].exists => d.cancel
      /\ ~dir[j].exists => d = dir[j]
  <2>1. dir[j] \in DirectoryType
    BY DEF IInv, TypeOK
  <2>2. /\ d.record = dir[j].record /\ d.exists = dir[j].exists /\ d.output = dir[j].output
        /\ d.cancel = (dir[j].cancel \/ dir[j].exists)
    BY <2>1 DEF DirectoryType
  <2>3. ASSUME ~dir[j].exists PROVE d = dir[j]
    <3>1. (dir[j].cancel \/ dir[j].exists) = dir[j].cancel
      BY <2>1, <2>3 DEF DirectoryType
    <3>. QED  BY <2>1, <3>1 DEF DirectoryType
  <2>. QED  BY <2>2, <2>3
<1>. HIDE DEF d
<1>4. dir' \in [Job -> DirectoryType] /\ dir'[j] = d /\ \A k \in Job \ {j} : dir'[k] = dir[k]
  BY <1>2, DirectoryReplaced DEF IInv
<1>5. /\ stopped' \subseteq stopped \cup {j} /\ stopped \subseteq stopped'
      /\ j \in stopped' \ stopped => dir[j].exists /\ worker[j] \in {"none", "launched", "claimed"}
  BY DEF CancelWrite
<1>6. TypeOK'
  BY <1>1, <1>4, <1>5 DEF IInv, TypeOK
<1>7. \A k \in Job \ {j} : SameJob(k)
  BY <1>1, <1>4, <1>5 DEF SameJob
<1>8. JobInv(j)'
  <2>1. JobInv(j) /\ State(j)' = State(j) /\ dir'[j].record = dir[j].record
    BY <1>3, <1>4 DEF IInv, State
  <2>2. Progress(j)'
    BY <1>1, <1>3, <1>4, <2>1 DEF JobInv, Progress
  <2>3. Retention(j)'
    BY <1>1, <1>3, <1>4, <2>1 DEF JobInv, Retention
  <2>4. Withdrawal(j)'
    BY <1>1, <1>3, <1>4, <1>5, <2>1 DEF JobInv, Progress, Withdrawal
  <2>. QED  BY <2>2, <2>3, <2>4 DEF JobInv
<1>9. \A k \in Job : dir'[k].record = dir[k].record /\ dir'[k].exists = dir[k].exists
  BY <1>3, <1>4
<1>10. \A s \in Store : StoreInv(s)'
  <2>. SUFFICES ASSUME NEW s \in Store PROVE StoreInv(s)'
    OBVIOUS
  <2>1. Entries(s)'
    BY <1>1, <1>9 DEF IInv, TypeOK, CallType, EntryType, StoreInv, Entries, State
  <2>2. Claimed(s)' /\ Exclusive(s)'
    BY <1>1, <1>9 DEF IInv, StoreInv, Claimed, Exclusive, Owns, State
  <2>. QED  BY <2>1, <2>2 DEF StoreInv
<1>. QED  BY <1>6, <1>7, <1>8, <1>10, SameJobKeeps DEF IInv

(* Only decided records grow old, and no start is about one that does.     *)
LEMMA AgesKeeps ==
  ASSUME IInv, NEW j \in Job, Ages(j)
  PROVE  IInv'
<1>1. UNCHANGED <<dir, worker, result, call, cancelling, runs, accepted, forgotten, stopped, poll>>
  BY DEF Ages, history
<1>2. /\ age' \in [Job -> {"new", "late", "old"}] /\ \A k \in Job \ {j} : age'[k] = age[k]
      /\ \/ age[j] = "new" /\ age'[j] = "late"
         \/ /\ age[j] = "late" /\ age'[j] = "old" /\ State(j) \in Terminal
            /\ \A s \in Store : call[s].job # j
  BY DEF Ages, IInv, TypeOK
<1>3. TypeOK'
  BY <1>1, <1>2 DEF IInv, TypeOK
<1>4. \A k \in Job \ {j} : SameJob(k)
  BY <1>1, <1>2 DEF SameJob
<1>5. JobInv(j)'
  <2>1. JobInv(j) /\ UNCHANGED <<State(j), dir[j], worker[j], result[j], runs[j]>>
    BY <1>1 DEF IInv, State
  <2>2. State(j) \in Terminal => worker[j] = "exited"
    BY <2>1 DEF IInv, TypeOK, JobInv, Progress, Terminal, Alive
  <2>. QED  BY <1>1, <1>2, <2>1, <2>2 DEF JobInv, Progress, Retention, Withdrawal
<1>6. \A s \in Store : StoreInv(s)'
  <2>. SUFFICES ASSUME NEW s \in Store PROVE StoreInv(s)'
    OBVIOUS
  <2>1. Entries(s)'
    BY <1>1, <1>2 DEF IInv, TypeOK, CallType, EntryType, StoreInv, Entries, State
  <2>2. Claimed(s)' /\ Exclusive(s)'
    BY <1>1, <1>2 DEF IInv, StoreInv, Claimed, Exclusive, Owns, State
  <2>. QED  BY <2>1, <2>2 DEF StoreInv
<1>. QED  BY <1>3, <1>4, <1>5, <1>6, SameJobKeeps DEF IInv

-----------------------------------------------------------------------------
(* The starts.                                                             *)

(* A store goes on, without reserving anything.                            *)
LEMMA StartAdvances ==
  ASSUME IInv, TypeOK', NEW s \in Store, \A t \in Store \ {s} : call'[t] = call[t],
         UNCHANGED <<dir, age, worker, result, runs, forgotten, stopped, poll>>,
         Entries(s)', Claimed(s)', Owns(s)' => Owns(s) /\ call'[s].job = call[s].job
  PROVE  IInv'
<1>1. \A k \in Job : JobInv(k)'
  BY SameJobKeeps DEF SameJob, IInv
<1>2. \A t \in Store : Entries(t)' /\ Claimed(t)'
  BY DEF IInv, StoreInv, Entries, Claimed, Owns, State
<1>3. \A t \in Store : Exclusive(t)'
  BY DEF IInv, StoreInv, Exclusive, Owns
<1>. QED  BY <1>1, <1>2, <1>3 DEF IInv, StoreInv

(* A start returns, or its store dies.                                     *)
LEMMA ReturnKeeps ==
  ASSUME IInv, NEW s \in Store, Return(s),
         UNCHANGED <<dir, age, worker, result, cancelling, runs, accepted, forgotten, stopped, poll>>
  PROVE  IInv'
<1>1. call'[s] = NoCall /\ \A t \in Store \ {s} : call'[t] = call[t]
  BY DEF Return, IInv, TypeOK
<1>2. TypeOK'
  <2>1. NoCall \in CallType
    BY DEF NoCall, CallType
  <2>. QED  BY <2>1 DEF Return, IInv, TypeOK
<1>3. Entries(s)' /\ Claimed(s)' /\ ~Owns(s)'
  BY <1>1 DEF NoCall, Entries, Claimed, Owns
<1>. QED  BY <1>1, <1>2, <1>3, StartAdvances

(* The second list decides; nothing is reserved yet.                       *)
LEMMA AdmitKeeps ==
  ASSUME IInv, NEW s \in Store, Admit(s)
  PROVE  IInv'
<1>1. /\ call[s].step = "sweep" /\ (Goto(s, "reserve") \/ Return(s))
      /\ UNCHANGED <<dir, age, worker, result, cancelling, runs, accepted, forgotten, stopped, poll>>
  BY DEF Admit, At, history
<1>2. CASE Goto(s, "reserve")
  <2>1. /\ \A t \in Store \ {s} : call'[t] = call[t]
        /\ call'[s].step = "reserve" /\ call'[s].job = call[s].job /\ call'[s].sweep = call[s].sweep
    BY <1>2 DEF Goto, IInv, TypeOK, CallType
  <2>2. TypeOK'
    <3>1. call[s] \in CallType /\ call' = [call EXCEPT ![s].step = "reserve"]
      BY <1>2 DEF Goto, IInv, TypeOK
    <3>2. call' \in [Store -> CallType]
      BY <3>1 DEF IInv, TypeOK, CallType
    <3>. QED  BY <1>1, <3>2 DEF IInv, TypeOK
  <2>3. Entries(s)' /\ Claimed(s)' /\ ~Owns(s)'
    BY <1>1, <2>1 DEF Admit, At, IInv, StoreInv, Entries, Claimed, Owns, State
  <2>. QED  BY <1>1, <2>1, <2>2, <2>3, StartAdvances
<1>. QED  BY <1>1, <1>2, ReturnKeeps

(* The first list takes records of decided jobs only.                      *)
LEMMA SurveyKeeps ==
  ASSUME IInv, NEW s \in Store, NEW j \in Job, Survey(s, j)
  PROVE  IInv'
<1>. DEFINE entries == {[job |-> i, record |-> dir[i].record, purge |-> age[i] = "old"] : i \in {k \in Job : Sweepable(k)}}
<1>1. /\ call' = [call EXCEPT ![s].step = "sweep", ![s].job = j, ![s].sweep = entries]
      /\ age[j] # "old"
      /\ UNCHANGED <<dir, age, worker, result, cancelling, runs, accepted, forgotten, stopped, poll>>
  BY DEF Survey, Submitted, history
<1>2. entries \subseteq EntryType
  <2>. SUFFICES ASSUME NEW i \in Job
       PROVE  [job |-> i, record |-> dir[i].record, purge |-> age[i] = "old"] \in EntryType
    OBVIOUS
  <2>1. dir[i].record \in RecordType
    BY DEF IInv, TypeOK, DirectoryType
  <2>2. (age[i] = "old") \in BOOLEAN
    OBVIOUS
  <2>. QED  BY <2>1, <2>2 DEF EntryType
<1>3. \A e \in entries : e.job \in Job /\ Sweepable(e.job) /\ e.record = dir[e.job].record /\ e.purge = (age[e.job] = "old")
  OBVIOUS
<1>. HIDE DEF entries
<1>. DEFINE c == [call[s] EXCEPT !.step = "sweep", !.job = j, !.sweep = entries]
<1>4. c \in CallType /\ call' = [call EXCEPT ![s] = c] /\ c.step = "sweep" /\ c.job = j /\ c.sweep = entries
  <2>1. call[s] \in CallType
    BY DEF IInv, TypeOK
  <2>. QED  BY <1>1, <1>2, <2>1 DEF CallType
<1>. HIDE DEF c
<1>5. /\ call' \in [Store -> CallType] /\ \A t \in Store \ {s} : call'[t] = call[t]
      /\ call'[s].step = "sweep" /\ call'[s].job = j /\ call'[s].sweep = entries
  BY <1>4 DEF IInv, TypeOK
<1>8. TypeOK'
  BY <1>1, <1>5 DEF IInv, TypeOK
<1>6. Entries(s)'
  <2>. SUFFICES ASSUME NEW e \in entries
       PROVE  /\ worker[e.job] = "exited" /\ age[e.job] # "new" /\ (e.purge => age[e.job] = "old")
              /\ e.record.state \in Terminal /\ e.record.hash \in Hash
              /\ e.record.state = State(e.job) /\ e.record.hash = dir[e.job].record.hash
    BY <1>1, <1>5 DEF Entries, State
  <2>1. e.job \in Job /\ State(e.job) \in Terminal /\ age[e.job] \in {"late", "old"} /\ e.record = dir[e.job].record
    BY <1>3 DEF Sweepable
  <2>2. worker[e.job] = "exited" /\ dir[e.job].record.hash \in Hash
    BY <2>1 DEF IInv, TypeOK, JobInv, Progress, Retention, Terminal, Alive
  <2>3. e.purge => age[e.job] = "old"
    BY <1>3
  <2>. QED  BY <2>1, <2>2, <2>3 DEF State
<1>7. Claimed(s)' /\ ~Owns(s)'
  BY <1>1, <1>5 DEF Claimed, Owns
<1>. QED  BY <1>1, <1>5, <1>6, <1>7, <1>8, StartAdvances

(* A sweep changes the directory of a decided job, by forgetting it or by  *)
(* writing again what it says.                                             *)
LEMMA SweepLeavesStarts ==
  ASSUME IInv, NEW j \in Job, worker[j] = "exited",
         UNCHANGED <<age, worker>>, \A k \in Job \ {j} : SameJob(k),
         forgotten \subseteq forgotten', forgotten' \subseteq forgotten \cup {j},
         j \notin forgotten' => State(j)' = State(j) /\ dir'[j].record.hash = dir[j].record.hash,
         \A t \in Store : /\ call'[t].sweep \subseteq call[t].sweep
                         /\ call'[t].step = call[t].step /\ call'[t].job = call[t].job
                         /\ call'[t].hash = call[t].hash
  PROVE  \A t \in Store : StoreInv(t)'
<1>. SUFFICES ASSUME NEW t \in Store PROVE StoreInv(t)'
  OBVIOUS
<1>1. Entries(t)'
  <2>. SUFFICES ASSUME NEW e \in call[t].sweep
       PROVE  /\ worker[e.job] = "exited" /\ age[e.job] # "new" /\ (e.purge => age[e.job] = "old")
              /\ e.record.state \in Terminal /\ e.record.hash \in Hash
              /\ e.job \notin forgotten' =>
                   e.record.state = State(e.job)' /\ e.record.hash = dir'[e.job].record.hash
    BY DEF Entries
  <2>1. e.job \in Job
    BY DEF IInv, TypeOK, CallType, EntryType
  <2>2. /\ worker[e.job] = "exited" /\ age[e.job] # "new" /\ (e.purge => age[e.job] = "old")
        /\ e.record.state \in Terminal /\ e.record.hash \in Hash
        /\ e.job \notin forgotten =>
             e.record.state = State(e.job) /\ e.record.hash = dir[e.job].record.hash
    BY DEF IInv, StoreInv, Entries
  <2>. QED  BY <2>1, <2>2 DEF SameJob, State
<1>2. Claimed(t)'
  <2>1. Claimed(t) /\ (Owns(t) => call[t].job \in Job \ {j})
    BY DEF IInv, StoreInv, Claimed, Owns
  <2>. QED  BY <2>1 DEF Claimed, Owns, SameJob, State
<1>3. Exclusive(t)'
  BY DEF IInv, StoreInv, Exclusive, Owns
<1>. QED  BY <1>1, <1>2, <1>3 DEF StoreInv

(* What is known of an entry of a sweep.                                   *)
LEMMA SweptEntry ==
  ASSUME IInv, NEW s \in Store, NEW e \in call[s].sweep
  PROVE  /\ e.job \in Job /\ e.record \in RecordType /\ e.record.state \in Terminal /\ e.record.hash \in Hash
         /\ worker[e.job] = "exited" /\ age[e.job] # "new" /\ (e.purge => age[e.job] = "old")
         /\ e.job \notin forgotten =>
              /\ e.record.state = State(e.job) /\ e.record.hash = dir[e.job].record.hash
         /\ JobInv(e.job)
<1>1. e.job \in Job /\ e.record \in RecordType
  BY DEF IInv, TypeOK, CallType, EntryType
<1>. QED  BY <1>1 DEF IInv, StoreInv, Entries

(* A sweep gets shorter and is otherwise the same start.                   *)
LEMMA EntrySwept ==
  ASSUME IInv, NEW s \in Store, NEW e \in call[s].sweep, Swept(s, e)
  PROVE  /\ call' \in [Store -> CallType]
         /\ \A t \in Store : /\ call'[t].sweep \subseteq call[t].sweep
                            /\ call'[t].step = call[t].step /\ call'[t].job = call[t].job
                            /\ call'[t].hash = call[t].hash
<1>. DEFINE c == [call[s] EXCEPT !.sweep = @ \ {e}]
<1>1. /\ c \in CallType /\ call' = [call EXCEPT ![s] = c]
      /\ c.sweep \subseteq call[s].sweep /\ c.step = call[s].step /\ c.job = call[s].job /\ c.hash = call[s].hash
  <2>1. call[s] \in CallType
    BY DEF IInv, TypeOK
  <2>. QED  BY <2>1 DEF CallType, Swept
<1>. HIDE DEF c
<1>. QED  BY <1>1 DEF IInv, TypeOK

(* A purge takes the record, which forgets the operation, or the output.   *)
LEMMA PurgeFileKeeps ==
  ASSUME IInv, NEW s \in Store, NEW e \in call[s].sweep, PurgeFile(s, e)
  PROVE  IInv'
<1>. DEFINE j == e.job
<1>1. j \in Job /\ JobInv(j) /\ worker[j] = "exited" /\ age[j] = "old"
  BY SweptEntry DEF PurgeFile
<1>2. UNCHANGED <<age, worker, result, call, cancelling, runs, accepted, stopped, poll>>
  BY DEF PurgeFile
<1>. HIDE DEF j
<1>3. CASE dir' = [dir EXCEPT ![j].record = NoRecord] /\ forgotten' = forgotten \cup {j}
  <2>1. NoRecord \in RecordType /\ NoRecord.state = "none"
    BY DEF NoRecord, RecordType
  <2>2. /\ dir' \in [Job -> DirectoryType] /\ \A k \in Job \ {j} : dir'[k] = dir[k]
        /\ dir'[j].record = NoRecord /\ State(j)' = "none"
        /\ dir'[j].exists = dir[j].exists /\ dir'[j].cancel = dir[j].cancel /\ dir'[j].output = dir[j].output
    BY <1>1, <1>3, <2>1, RecordReplaced DEF IInv
  <2>3. TypeOK'
    BY <1>1, <1>2, <1>3, <2>2 DEF IInv, TypeOK
  <2>4. \A k \in Job \ {j} : SameJob(k)
    BY <1>2, <1>3, <2>2 DEF SameJob
  <2>5. JobInv(j)'
    <3>1. ~dir[j].exists => dir'[j] = NoDirectory
      <4>. SUFFICES ASSUME ~dir[j].exists PROVE dir'[j] = NoDirectory
        OBVIOUS
      <4>1. dir[j] = NoDirectory
        BY <1>1 DEF JobInv, Retention
      <4>2. dir'[j] \in DirectoryType /\ NoDirectory \in DirectoryType
        BY <1>1, <2>1, <2>2 DEF NoDirectory, DirectoryType
      <4>. QED  BY <2>2, <4>1, <4>2 DEF NoDirectory, DirectoryType
    <3>. QED  BY <1>1, <1>2, <1>3, <2>2, <3>1 DEF JobInv, Progress, Retention, Withdrawal, Terminal
  <2>6. \A t \in Store : StoreInv(t)'
    BY <1>1, <1>2, <1>3, <2>4, SweepLeavesStarts
  <2>. QED  BY <2>3, <2>4, <2>5, <2>6, SameJobKeeps DEF IInv
<1>4. CASE dir[j].output # "none" /\ dir' = [dir EXCEPT ![j].output = "none"] /\ forgotten' = forgotten
  <2>1. /\ dir' \in [Job -> DirectoryType] /\ \A k \in Job \ {j} : dir'[k] = dir[k]
        /\ dir'[j].record = dir[j].record /\ State(j)' = State(j)
        /\ dir'[j].exists = dir[j].exists /\ dir'[j].cancel = dir[j].cancel
    BY <1>1, <1>4, OutputReplaced DEF IInv
  <2>2. TypeOK'
    BY <1>2, <1>4, <2>1 DEF IInv, TypeOK
  <2>3. \A k \in Job \ {j} : SameJob(k)
    BY <1>2, <1>4, <2>1 DEF SameJob
  <2>4. JobInv(j)'
    BY <1>1, <1>2, <1>4, <2>1 DEF JobInv, Progress, Retention, Withdrawal, NoDirectory
  <2>5. \A t \in Store : StoreInv(t)'
    BY <1>1, <1>2, <1>4, <2>1, <2>3, SweepLeavesStarts
  <2>. QED  BY <2>2, <2>3, <2>4, <2>5, SameJobKeeps DEF IInv
<1>. QED  BY <1>3, <1>4 DEF PurgeFile, j

(* It removes the directory of a forgotten operation only.                 *)
LEMMA PurgeDirectoryKeeps ==
  ASSUME IInv, NEW s \in Store, NEW e \in call[s].sweep, PurgeDirectory(s, e)
  PROVE  IInv'
<1>. DEFINE j == e.job
<1>1. j \in Job /\ JobInv(j) /\ worker[j] = "exited" /\ age[j] = "old"
  BY SweptEntry DEF PurgeDirectory
<1>2. /\ dir' = [dir EXCEPT ![j] = NoDirectory] /\ State(j) = "none"
      /\ UNCHANGED <<age, worker, result, cancelling, runs, accepted, forgotten, stopped, poll>>
  BY DEF PurgeDirectory, history
<1>3. /\ call' \in [Store -> CallType]
      /\ \A t \in Store : /\ call'[t].sweep \subseteq call[t].sweep
                         /\ call'[t].step = call[t].step /\ call'[t].job = call[t].job
                         /\ call'[t].hash = call[t].hash
  BY EntrySwept DEF PurgeDirectory
<1>. HIDE DEF j
<1>4. j \in forgotten
  BY <1>1, <1>2 DEF JobInv, Progress, Terminal
<1>5. /\ dir' \in [Job -> DirectoryType] /\ dir'[j] = NoDirectory
      /\ \A k \in Job \ {j} : dir'[k] = dir[k]
  <2>1. NoDirectory \in DirectoryType
    BY DEF NoDirectory, NoRecord, DirectoryType, RecordType
  <2>. QED  BY <1>1, <1>2, <2>1, DirectoryReplaced DEF IInv
<1>6. TypeOK'
  BY <1>2, <1>3, <1>5 DEF IInv, TypeOK
<1>7. \A k \in Job \ {j} : SameJob(k)
  BY <1>2, <1>5 DEF SameJob
<1>8. JobInv(j)'
  BY <1>1, <1>2, <1>4, <1>5 DEF JobInv, Progress, Retention, Withdrawal, State, NoDirectory, NoRecord, Terminal
<1>9. \A t \in Store : StoreInv(t)'
  BY <1>1, <1>2, <1>3, <1>4, <1>7, SweepLeavesStarts
<1>. QED  BY <1>6, <1>7, <1>8, <1>9, SameJobKeeps DEF IInv

(* An expiry takes the output of a record that is no longer new,           *)
LEMMA ExpireOutputKeeps ==
  ASSUME IInv, NEW s \in Store, NEW e \in call[s].sweep, ExpireOutput(s, e)
  PROVE  IInv'
<1>. DEFINE j == e.job
<1>1. j \in Job /\ JobInv(j) /\ worker[j] = "exited" /\ age[j] # "new"
  BY SweptEntry
<1>2. /\ dir[j].output # "none" /\ dir' = [dir EXCEPT ![j].output = "none"]
      /\ UNCHANGED <<age, worker, result, call, cancelling, runs, accepted, forgotten, stopped, poll>>
  BY DEF ExpireOutput, history
<1>. HIDE DEF j
<1>3. /\ dir' \in [Job -> DirectoryType] /\ \A k \in Job \ {j} : dir'[k] = dir[k]
      /\ dir'[j].record = dir[j].record /\ State(j)' = State(j)
      /\ dir'[j].exists = dir[j].exists /\ dir'[j].cancel = dir[j].cancel
  BY <1>1, <1>2, OutputReplaced DEF IInv
<1>4. TypeOK'
  BY <1>2, <1>3 DEF IInv, TypeOK
<1>5. \A k \in Job \ {j} : SameJob(k)
  BY <1>2, <1>3 DEF SameJob
<1>6. JobInv(j)'
  BY <1>1, <1>2, <1>3 DEF JobInv, Progress, Retention, Withdrawal, NoDirectory
<1>7. \A t \in Store : StoreInv(t)'
  BY <1>1, <1>2, <1>3, <1>5, SweepLeavesStarts
<1>. QED  BY <1>4, <1>5, <1>6, <1>7, SameJobKeeps DEF IInv

(* and writes the surveyed record again, which says what the record says   *)
(* unless the operation is forgotten.                                      *)
LEMMA ExpireRecordKeeps ==
  ASSUME IInv, NEW s \in Store, NEW e \in call[s].sweep, ExpireRecord(s, e)
  PROVE  IInv'
<1>. DEFINE j == e.job
           r == [e.record EXCEPT !.expired = TRUE, !.size = 0]
<1>1. /\ j \in Job /\ JobInv(j) /\ worker[j] = "exited" /\ age[j] # "new"
      /\ e.record \in RecordType /\ e.record.state \in Terminal /\ e.record.hash \in Hash
      /\ j \notin forgotten => e.record.state = State(j) /\ e.record.hash = dir[j].record.hash
  BY SweptEntry
<1>2. UNCHANGED <<age, worker, result, cancelling, runs, accepted, forgotten, stopped, poll>>
  BY DEF ExpireRecord, history
<1>3. r \in RecordType /\ r.state = e.record.state /\ r.hash = e.record.hash
  BY <1>1 DEF RecordType
<1>4. \/ dir[j].exists /\ dir' = [dir EXCEPT ![j].record = r] /\ Swept(s, e)
      \/ Return(s) /\ UNCHANGED dir
  BY DEF ExpireRecord
<1>. HIDE DEF j, r
<1>5. CASE dir[j].exists /\ dir' = [dir EXCEPT ![j].record = r] /\ Swept(s, e)
  <2>1. /\ call' \in [Store -> CallType]
        /\ \A t \in Store : /\ call'[t].sweep \subseteq call[t].sweep
                           /\ call'[t].step = call[t].step /\ call'[t].job = call[t].job
                           /\ call'[t].hash = call[t].hash
    BY <1>5, EntrySwept
  <2>2. /\ dir' \in [Job -> DirectoryType] /\ \A k \in Job \ {j} : dir'[k] = dir[k]
        /\ State(j)' = e.record.state /\ dir'[j].record.hash = e.record.hash
        /\ dir'[j].exists = dir[j].exists /\ dir'[j].cancel = dir[j].cancel /\ dir'[j].output = dir[j].output
    BY <1>1, <1>3, <1>5, RecordReplaced DEF IInv
  <2>3. TypeOK'
    BY <1>2, <2>1, <2>2 DEF IInv, TypeOK
  <2>4. \A k \in Job \ {j} : SameJob(k)
    BY <1>2, <2>2 DEF SameJob
  <2>5. JobInv(j)'
    BY <1>1, <1>2, <1>5, <2>2 DEF JobInv, Progress, Retention, Withdrawal, Terminal
  <2>6. \A t \in Store : StoreInv(t)'
    BY <1>1, <1>2, <2>1, <2>2, <2>4, SweepLeavesStarts
  <2>. QED  BY <2>3, <2>4, <2>5, <2>6, SameJobKeeps DEF IInv
<1>. QED  BY <1>2, <1>4, <1>5, ReturnKeeps

(* From the reservation on, the start is the only one about its job.       *)
LEMMA ReserveKeeps ==
  ASSUME IInv, NEW s \in Store, Reserve(s)
  PROVE  IInv'
<1>0. PICK j \in Job : j = call[s].job
  BY DEF Reserve, At, IInv, StoreInv, Claimed
<1>1. /\ call[s].step = "reserve"
      /\ UNCHANGED <<age, worker, result, cancelling, runs, accepted, forgotten, stopped, poll>>
      /\ \/ ~dir[j].exists /\ dir' = [dir EXCEPT ![j].exists = TRUE] /\ Goto(s, "record")
         \/ Return(s) /\ UNCHANGED dir
  BY <1>0 DEF Reserve, At, Free, history
<1>2. JobInv(j) /\ age[j] # "old"
  BY <1>0, <1>1 DEF IInv, StoreInv, Claimed
<1>3. CASE ~dir[j].exists /\ dir' = [dir EXCEPT ![j].exists = TRUE] /\ Goto(s, "record")
  <2>. DEFINE d == [dir[j] EXCEPT !.exists = TRUE]
  <2>1. /\ d \in DirectoryType /\ dir' = [dir EXCEPT ![j] = d]
        /\ d.exists = TRUE /\ d.record = dir[j].record /\ d.cancel = dir[j].cancel /\ d.output = dir[j].output
    <3>1. dir[j] \in DirectoryType
      BY <1>2 DEF IInv, TypeOK
    <3>. QED  BY <1>3, <3>1 DEF DirectoryType
  <2>. HIDE DEF d
  <2>2. dir' \in [Job -> DirectoryType] /\ dir'[j] = d /\ \A k \in Job \ {j} : dir'[k] = dir[k]
    BY <1>2, <2>1, DirectoryReplaced DEF IInv
  <2>3. /\ \A t \in Store \ {s} : call'[t] = call[t]
        /\ call' \in [Store -> CallType]
        /\ call'[s].step = "record" /\ call'[s].job = j /\ call'[s].sweep = call[s].sweep
    BY ZenonT(60), <1>0, <1>3 DEF Goto, IInv, TypeOK, CallType
  <2>4. TypeOK'
    BY <1>1, <2>2, <2>3 DEF IInv, TypeOK
  <2>5. dir[j] = NoDirectory /\ worker[j] = "none" /\ State(j) = "none" /\ State(j)' = "none" /\ j \notin forgotten
    BY <1>2, <1>3, <2>1, <2>2 DEF JobInv, Retention, State, NoDirectory, NoRecord
  <2>6. \A k \in Job \ {j} : SameJob(k)
    BY <1>1, <2>2 DEF SameJob
  <2>7. JobInv(j)'
    BY <1>1, <1>2, <2>1, <2>2, <2>5 DEF JobInv, Progress, Retention, Withdrawal
  <2>8. ASSUME NEW t \in Store PROVE Entries(t)'
    <3>1. call'[t].sweep = call[t].sweep
      BY <2>3
    <3>2. \A e \in call[t].sweep : e.job \in Job \ {j}
      <4>. SUFFICES ASSUME NEW e \in call[t].sweep PROVE e.job \in Job \ {j}
        OBVIOUS
      <4>. QED  BY <2>5, SweptEntry
    <3>. QED  BY <1>1, <2>6, <3>1, <3>2 DEF IInv, StoreInv, Entries, SameJob, State
  <2>9. \A t \in Store \ {s} : Claimed(t)' /\ (Owns(t) => call[t].job # j)
    BY <1>1, <1>3, <2>3, <2>5, <2>6 DEF IInv, StoreInv, Claimed, Owns, SameJob, State
  <2>10. Claimed(s)'
    BY <1>1, <1>2, <2>1, <2>2, <2>3, <2>5 DEF Claimed, Owns
  <2>11. \A t \in Store : Exclusive(t)'
    BY <2>3, <2>9 DEF IInv, StoreInv, Exclusive, Owns
  <2>. QED  BY <2>4, <2>6, <2>7, <2>8, <2>9, <2>10, <2>11, SameJobKeeps DEF IInv, StoreInv
<1>. QED  BY <1>1, <1>3, ReturnKeeps

(* No other start and no sweep is about the job of a start that has it     *)
(* reserved.                                                               *)
LEMMA OwnersAlone ==
  ASSUME IInv, NEW s \in Store, Owns(s), NEW j, j = call[s].job,
         UNCHANGED forgotten, \A k \in Job \ {j} : SameJob(k),
         \A t \in Store \ {s} : call'[t] = call[t],
         call'[s].sweep \subseteq call[s].sweep, call'[s].step \in {"idle", "launch"},
         call'[s].step # "idle" => call'[s].job = j,
         age'[j] # "old", Claimed(s)'
  PROVE  \A t \in Store : StoreInv(t)'
<1>1. j \in Job /\ worker[j] = "none"
  BY DEF IInv, StoreInv, Claimed, Owns
<1>2. ASSUME NEW t \in Store PROVE Entries(t)'
  <2>1. call'[t].sweep \subseteq call[t].sweep
    OBVIOUS
  <2>2. \A e \in call[t].sweep : e.job \in Job \ {j}
    <3>. SUFFICES ASSUME NEW e \in call[t].sweep PROVE e.job \in Job \ {j}
      OBVIOUS
    <3>. QED  BY <1>1, SweptEntry
  <2>. QED  BY <2>1, <2>2 DEF IInv, StoreInv, Entries, SameJob, State
<1>3. \A t \in Store \ {s} : Claimed(t)'
  <2>1. \A t \in Store \ {s} : Owns(t) => call[t].job # j
    BY DEF IInv, StoreInv, Exclusive
  <2>. QED  BY <2>1 DEF IInv, StoreInv, Claimed, Owns, SameJob, State
<1>4. \A t \in Store : Exclusive(t)'
  BY DEF IInv, StoreInv, Exclusive, Owns
<1>. QED  BY <1>2, <1>3, <1>4 DEF StoreInv

(* The record is made once, for a job without a worker.                    *)
LEMMA RecordKeeps ==
  ASSUME IInv, NEW s \in Store, NEW h \in Hash, Record(s, h)
  PROVE  IInv'
<1>0. PICK j \in Job : j = call[s].job
  BY DEF Record, At, IInv, StoreInv, Claimed
<1>. DEFINE r == [state |-> "starting", hash |-> h, size |-> 0, expired |-> FALSE]
            c == [call[s] EXCEPT !.step = "launch", !.hash = h]
<1>1. /\ call[s].step = "record" /\ dir' = [dir EXCEPT ![j].record = r]
      /\ age' = [age EXCEPT ![j] = "new"]
      /\ call' = [call EXCEPT ![s].step = "launch", ![s].hash = h]
      /\ UNCHANGED <<worker, result, cancelling, runs, accepted, forgotten, stopped, poll>>
  BY <1>0 DEF Record, At, history
<1>2. /\ JobInv(j) /\ age[j] # "old" /\ Owns(s)
      /\ dir[j].exists /\ worker[j] = "none" /\ State(j) = "none"
  BY <1>0, <1>1 DEF IInv, StoreInv, Claimed, Owns
<1>3. r \in RecordType /\ r.state = "starting" /\ r.hash = h
  BY DEF RecordType, Recorded
<1>4. /\ c \in CallType /\ call' = [call EXCEPT ![s] = c]
      /\ c.step = "launch" /\ c.hash = h /\ c.job = j /\ c.sweep = call[s].sweep
  <2>1. call[s] \in CallType
    BY DEF IInv, TypeOK
  <2>. QED  BY <1>0, <1>1, <2>1 DEF CallType
<1>. HIDE DEF r, c
<1>5. /\ call' \in [Store -> CallType] /\ call'[s] = c /\ \A t \in Store \ {s} : call'[t] = call[t]
  BY <1>4 DEF IInv, TypeOK
<1>6. /\ dir' \in [Job -> DirectoryType] /\ \A k \in Job \ {j} : dir'[k] = dir[k]
      /\ State(j)' = "starting" /\ dir'[j].record.hash = h
      /\ dir'[j].exists = dir[j].exists /\ dir'[j].cancel = dir[j].cancel /\ dir'[j].output = dir[j].output
  BY <1>1, <1>2, <1>3, RecordReplaced DEF IInv
<1>7. age' \in [Job -> {"new", "late", "old"}] /\ age'[j] = "new" /\ \A k \in Job \ {j} : age'[k] = age[k]
  BY <1>1, <1>2 DEF IInv, TypeOK
<1>8. TypeOK'
  BY <1>1, <1>5, <1>6, <1>7 DEF IInv, TypeOK
<1>9. \A k \in Job \ {j} : SameJob(k)
  BY <1>1, <1>6, <1>7 DEF SameJob
<1>10. JobInv(j)'
  BY <1>1, <1>2, <1>6, <1>7 DEF JobInv, Progress, Retention, Withdrawal, Terminal
<1>11. Claimed(s)'
  BY <1>1, <1>2, <1>4, <1>5, <1>6, <1>7 DEF Claimed, Owns
<1>12. \A t \in Store : StoreInv(t)'
  BY <1>1, <1>2, <1>4, <1>5, <1>7, <1>9, <1>11, <1>0, OwnersAlone
<1>. QED  BY <1>8, <1>9, <1>10, <1>12, SameJobKeeps DEF IInv

(* The launch makes at most one worker, of a job that has none.            *)
LEMMA LaunchKeeps ==
  ASSUME IInv, NEW s \in Store, Launch(s)
  PROVE  IInv'
<1>0. PICK j \in Job : j = call[s].job
  BY DEF Launch, At, IInv, StoreInv, Claimed
<1>1. /\ call[s].step = "launch" /\ worker' \in {worker, [worker EXCEPT ![j] = "launched"]}
      /\ accepted' = [accepted EXCEPT ![j] = @ \cup {call[s].hash}] /\ Return(s)
      /\ UNCHANGED <<dir, age, result, cancelling, runs, forgotten, stopped, poll>>
  BY <1>0 DEF Launch, At
<1>2. /\ JobInv(j) /\ age[j] # "old" /\ Owns(s) /\ State(j) = "starting"
      /\ dir[j].exists /\ worker[j] = "none" /\ dir[j].record.hash = call[s].hash
  BY <1>0, <1>1 DEF IInv, StoreInv, Claimed, Owns
<1>3. call[s].hash \in Hash
  BY <1>2 DEF JobInv, Retention
<1>4. call' \in [Store -> CallType] /\ call'[s] = NoCall /\ \A t \in Store \ {s} : call'[t] = call[t]
  <2>1. NoCall \in CallType
    BY DEF NoCall, CallType
  <2>. QED  BY <1>1, <2>1 DEF Return, IInv, TypeOK
<1>5. /\ worker' \in [Job -> Alive \cup {"none", "launched", "exited", "dead"}]
      /\ worker'[j] \in {"none", "launched"} /\ \A k \in Job \ {j} : worker'[k] = worker[k]
  BY <1>1, <1>2 DEF IInv, TypeOK
<1>6. accepted' \in [Job -> SUBSET Hash]
  BY <1>1, <1>3 DEF IInv, TypeOK
<1>7. TypeOK'
  BY <1>1, <1>4, <1>5, <1>6 DEF IInv, TypeOK
<1>8. \A k \in Job \ {j} : SameJob(k)
  BY <1>1, <1>5 DEF SameJob
<1>9. JobInv(j)'
  BY <1>1, <1>2, <1>5 DEF JobInv, Progress, Retention, Withdrawal, State, Terminal
<1>10. Claimed(s)' /\ call'[s].sweep \subseteq call[s].sweep /\ call'[s].step = "idle"
  BY <1>4 DEF NoCall, Claimed, Owns
<1>11. \A t \in Store : StoreInv(t)'
  BY <1>1, <1>2, <1>4, <1>8, <1>10, <1>0, OwnersAlone
<1>. QED  BY <1>7, <1>8, <1>9, <1>11, SameJobKeeps DEF IInv

(* An answer from the record changes nothing of the ledger.                *)
LEMMA RetrieveKeeps ==
  ASSUME IInv, NEW s \in Store, NEW j \in Job, NEW h \in Hash, Retrieve(s, j, h)
  PROVE  IInv'
<1>1. /\ UNCHANGED <<dir, age, worker, result, call, cancelling, runs, forgotten, stopped, poll>>
      /\ accepted' = [accepted EXCEPT ![j] = @ \cup {h}]
  BY DEF Retrieve
<1>. QED  BY <1>1, NothingChanges DEF IInv, TypeOK

-----------------------------------------------------------------------------
(* All steps.                                                              *)

(* The ledger is empty at first.                                           *)
LEMMA InitHolds == Init => IInv
<1>. SUFFICES ASSUME Init PROVE IInv
  OBVIOUS
<1>1. NoDirectory \in DirectoryType /\ NoCall \in CallType
  BY DEF NoDirectory, NoRecord, DirectoryType, RecordType, NoCall, CallType
<1>2. TypeOK
  BY <1>1 DEF Init, TypeOK
<1>3. \A j \in Job : JobInv(j)
  BY DEF Init, JobInv, Progress, Retention, Withdrawal, State, NoDirectory, NoRecord, Terminal
<1>4. \A s \in Store : StoreInv(s)
  BY DEF Init, NoCall, StoreInv, Entries, Claimed, Exclusive, Owns
<1>. QED  BY <1>2, <1>3, <1>4 DEF IInv

(* Every step keeps the invariant.                                         *)
LEMMA StepHolds == IInv /\ [Next]_vars => IInv'
<1>. SUFFICES ASSUME IInv, [Next]_vars PROVE IInv'
  OBVIOUS
<1>1. ASSUME NEW s \in Store, StartStep(s) PROVE IInv'
  BY <1>1, AdmitKeeps, ReserveKeeps, LaunchKeeps, RecordKeeps,
     PurgeFileKeeps, PurgeDirectoryKeeps, ExpireOutputKeeps, ExpireRecordKeeps DEF StartStep
<1>2. ASSUME NEW s \in Store, StoreCrashes(s) PROVE IInv'
  BY <1>2, ReturnKeeps DEF StoreCrashes, history
<1>3. ASSUME NEW s \in Store, NEW j \in Job, Survey(s, j) \/ \E h \in Hash : Retrieve(s, j, h) PROVE IInv'
  BY <1>3, SurveyKeeps, RetrieveKeeps
<1>4. ASSUME NEW j \in Job, WorkerStep(j) \/ WorkerDies(j) PROVE IInv'
  BY <1>4, WorkerAdvances, ReportRunningKeeps, WriteOutputKeeps, WriteResultKeeps DEF WorkerStep
<1>5. ASSUME NEW j \in Job, Ages(j) \/ CancelRead(j) \/ CancelWrite(j) PROVE IInv'
  BY <1>5, AgesKeeps, CancelReadKeeps, CancelWriteKeeps
<1>6. ASSUME NEW j \in Job, PollStarts(j) \/ PollAnswers(j) PROVE IInv'
  BY <1>6, PollKeeps
<1>7. CASE UNCHANGED vars
  BY <1>7, NothingChanges DEF vars, IInv, TypeOK
<1>. QED  BY <1>1, <1>2, <1>3, <1>4, <1>5, <1>6, <1>7 DEF Next

-----------------------------------------------------------------------------
(* The theorems.                                                           *)

(* IInv holds of every ledger the backends and workers can reach.          *)
THEOREM Invariance == Spec => []IInv
<1>. QED  BY InitHolds, StepHolds, PTL DEF Spec

(* A recorded outcome has its output for as long as it is kept             *)
(* (job-worker.ts writes the output first, and sweeps take decided jobs    *)
(* whose time has come only).                                              *)
THEOREM OutcomesHaveOutputs == Spec => []OutcomeHasOutput
<1>1. IInv => OutcomeHasOutput
  BY DEF IInv, JobInv, Progress, OutcomeHasOutput, Records
<1>. QED  BY <1>1, Invariance, PTL

(* What is cancelled before its worker reported is not executed, unless a  *)
(* poll is under way when the worker looks for the last time               *)
(* (job-worker.ts, checkCancellation).                                     *)
THEOREM EarlyCancelsPrevent == Spec => EarlyCancelPrevents
<1> DEFINE Prevents == \A j \in stopped : runs'[j] # runs[j] => poll[j] \in {"clear", "found"}
<1>1. IInv /\ [Next]_vars => [Prevents]_vars
  <2>. SUFFICES ASSUME IInv, [Next]_vars, NEW j \in stopped, runs'[j] # runs[j]
       PROVE  poll[j] \in {"clear", "found"}
    OBVIOUS
  <2>1. Execute(j)
    <3>1. PICK k \in Job : Execute(k)
      BY ZenonT(60) DEF Next, StartStep, Admit, Reserve, Launch, Record, PurgeFile, PurgeDirectory, ExpireOutput, ExpireRecord,
             StoreCrashes, Survey, Retrieve, WorkerStep, Claim, ReportRunning, WorkerErrs, Withdraw, CommandEnds,
             WriteOutput, WriteResult, PollStarts, PollAnswers, WorkerDies, Ages, CancelRead, CancelWrite, history, vars
    <3>2. k = j
      BY <3>1 DEF Execute, IInv, TypeOK
    <3>. QED  BY <3>1, <3>2
  <2>2. worker[j] = "checking" /\ ~Withdrawn(j)
    BY <2>1 DEF Execute, Step
  <2>3. j \in Job /\ dir[j].cancel
    BY <2>2 DEF IInv, TypeOK, JobInv, Withdrawal
  <2>. QED  BY <2>2, <2>3 DEF Withdrawn, IInv, TypeOK
<1>. QED  BY <1>1, Invariance, PTL DEF Spec, EarlyCancelPrevents

-----------------------------------------------------------------------------
(* Refinement: what OperationOnce sees of a job.                           *)

(* Of a forgotten job nothing is seen any more.                            *)
SameView(k) ==
  \/ k \in forgotten /\ k \in forgotten'
  \/ /\ k \notin forgotten /\ k \notin forgotten' /\ runs'[k] = runs[k]
     /\ State(k)' = State(k) /\ dir'[k].record.hash = dir[k].record.hash

(* OperationOnce sees nothing else of a job.                               *)
LEMMA SameViewKeeps ==
  ASSUME NEW k \in Job, SameView(k)
  PROVE  Life(k)' = Life(k) /\ Asked(k)' = Asked(k)
BY DEF SameView, Life, Asked

(* If it sees the same of every job, it sees no step.                      *)
LEMMA Stutters ==
  ASSUME \A k \in Job : SameView(k), accepted' = accepted
  PROVE  UNCHANGED <<[j \in Job |-> Life(j)], [j \in Job |-> Asked(j)], accepted>>
<1>1. \A k \in Job : Life(k)' = Life(k) /\ Asked(k)' = Asked(k)
  BY SameViewKeeps
<1>. QED  BY <1>1

(* If it sees the same of every job but one, it sees that one change.      *)
LEMMA Moves ==
  ASSUME NEW j \in Job, \A k \in Job \ {j} : SameView(k)
  PROVE  /\ [k \in Job |-> Life(k)]' = [[k \in Job |-> Life(k)] EXCEPT ![j] = Life(j)']
         /\ [k \in Job |-> Asked(k)]' = [[k \in Job |-> Asked(k)] EXCEPT ![j] = Asked(j)']
<1>1. \A k \in Job \ {j} : Life(k)' = Life(k) /\ Asked(k)' = Asked(k)
  BY SameViewKeeps
<1>. QED  BY <1>1

(* Every step of the ledger is one of OperationOnce, or is not seen by it. *)
Refines == Once!Next \/ UNCHANGED <<[j \in Job |-> Life(j)], [j \in Job |-> Asked(j)], accepted>>

(* Telling a caller of the request that the operation stands for,          *)
LEMMA TellRefines ==
  ASSUME NEW j \in Job, Asked(j) # None, \A k \in Job : SameView(k),
         accepted' = [accepted EXCEPT ![j] = @ \cup {Asked(j)}]
  PROVE  Refines
<1>1. \A k \in Job : Life(k)' = Life(k) /\ Asked(k)' = Asked(k)
  BY SameViewKeeps
<1>2. Once!Tell(j)
  BY <1>1 DEF Once!Tell
<1>. QED  BY <1>2 DEF Refines, Once!Next

(* a reservation, an execution, a decision and an expiry are its steps;    *)
LEMMA MoveRefines ==
  ASSUME NEW j \in Job, \A k \in Job \ {j} : SameView(k), accepted' = accepted,
         \/ Life(j) = "free" /\ Life(j)' = "reserved" /\ Asked(j)' \in Hash
         \/ Life(j) = "reserved" /\ Life(j)' = "running" /\ Asked(j)' = Asked(j)
         \/ Life(j) = "running" /\ Life(j)' \in Terminal /\ Asked(j)' = Asked(j)
         \/ Life(j) = "reserved" /\ Life(j)' \in {"failed", "cancelled"} /\ Asked(j)' = Asked(j)
         \/ Life(j) \in Terminal /\ Life(j)' = "forgotten" /\ Asked(j)' = None
  PROVE  Refines
<1>. DEFINE L == [k \in Job |-> Life(k)]
            A == [k \in Job |-> Asked(k)]
<1>1. L' = [L EXCEPT ![j] = Life(j)'] /\ A' = [A EXCEPT ![j] = Asked(j)']
  BY Moves
<1>2. L[j] = Life(j) /\ A[j] = Asked(j)
  OBVIOUS
<1>3. A \in [Job -> {Asked(k) : k \in Job}]
  OBVIOUS
<1>4. Asked(j)' = Asked(j) => UNCHANGED A
  BY <1>1, <1>2, <1>3
<1>5. CASE Life(j) = "free" /\ Life(j)' = "reserved" /\ Asked(j)' \in Hash
  <2>1. Once!Reserve(j, Asked(j)')
    BY <1>1, <1>2, <1>5 DEF Once!Reserve
  <2>2. \E r \in Hash : Once!Reserve(j, r)
    BY <1>5, <2>1
  <2>. QED  BY <2>2 DEF Refines, Once!Next
<1>6. CASE Life(j) = "reserved" /\ Life(j)' = "running" /\ Asked(j)' = Asked(j)
  BY <1>1, <1>2, <1>4, <1>6 DEF Once!Run, Refines, Once!Next
<1>7. CASE /\ Asked(j)' = Asked(j)
           /\ \/ Life(j) = "running" /\ Life(j)' \in Terminal
              \/ Life(j) = "reserved" /\ Life(j)' \in {"failed", "cancelled"}
  BY <1>1, <1>2, <1>4, <1>7 DEF Once!Decide, Once!Outcome, Terminal, Refines, Once!Next
<1>8. CASE Life(j) \in Terminal /\ Life(j)' = "forgotten" /\ Asked(j)' = None
  BY <1>1, <1>2, <1>8 DEF Once!Forget, Once!Outcome, Terminal, Refines, Once!Next
<1>. QED  BY <1>5, <1>6, <1>7, <1>8

(* everything else it does not see.                                        *)
LEMMA UnseenRefines ==
  ASSUME \A k \in Job : SameView(k), accepted' = accepted
  PROVE  Refines
BY Stutters DEF Refines

(* The steps of workers: Execute is Run, WriteResult is Decide.            *)
LEMMA WorkerRefines ==
  ASSUME IInv, NEW j \in Job, WorkerStep(j) \/ WorkerDies(j)
  PROVE  Refines
<1>1. accepted' = accepted /\ forgotten' = forgotten
  BY DEF WorkerStep, WorkerDies, Claim, ReportRunning, WorkerErrs, Execute, Withdraw, CommandEnds,
         WriteOutput, WriteResult, history
<1>2. JobInv(j) /\ (worker[j] # "exited" => j \notin forgotten)
  BY DEF IInv, JobInv, Retention
<1>3. CASE Claim(j) \/ WorkerErrs(j) \/ Withdraw(j) \/ CommandEnds(j) \/ WorkerDies(j)
  <2>1. UNCHANGED <<dir, runs>>
    BY <1>3 DEF Claim, WorkerErrs, Withdraw, CommandEnds, WorkerDies, history
  <2>. QED  BY <1>1, <2>1, UnseenRefines DEF SameView, State
<1>4. CASE Execute(j)
  <2>1. /\ worker[j] = "checking" /\ UNCHANGED dir /\ runs' = [runs EXCEPT ![j] = @ + 1]
    BY <1>4 DEF Execute, Step
  <2>2. State(j) = "running" /\ State(j)' = "running" /\ runs[j] = 0 /\ runs'[j] = 1 /\ j \notin forgotten
    BY <1>2, <2>1 DEF IInv, TypeOK, JobInv, Progress, State
  <2>3. \A k \in Job \ {j} : SameView(k)
    BY <1>1, <2>1 DEF SameView, State, IInv, TypeOK
  <2>4. Life(j) = "reserved" /\ Life(j)' = "running" /\ Asked(j)' = Asked(j)
    BY <1>1, <2>1, <2>2 DEF Life, Asked, Terminal
  <2>. QED  BY <1>1, <2>3, <2>4, MoveRefines
<1>5. CASE ReportRunning(j)
  <2>1. worker[j] = "claimed" /\ dir' = [dir EXCEPT ![j].record.state = "running"] /\ runs' = runs
    BY <1>5 DEF ReportRunning, Step, history
  <2>2. /\ State(j)' = "running" /\ dir'[j].record.hash = dir[j].record.hash
        /\ \A k \in Job \ {j} : dir'[k] = dir[k]
    <3>1. dir[j] \in DirectoryType /\ dir[j].record \in RecordType
      BY DEF IInv, TypeOK, DirectoryType
    <3>. QED  BY <2>1, <3>1 DEF State, DirectoryType, RecordType, IInv, TypeOK
  <2>3. State(j) = "starting" /\ runs[j] = 0 /\ j \notin forgotten
    BY <1>2, <2>1 DEF JobInv, Progress
  <2>4. \A k \in Job \ {j} : SameView(k)
    BY <1>1, <2>1, <2>2 DEF SameView, State
  <2>5. Life(j)' = Life(j) /\ Asked(j)' = Asked(j)
    BY <1>1, <2>1, <2>2, <2>3 DEF Life, Asked, Terminal
  <2>6. UNCHANGED <<[k \in Job |-> Life(k)], [k \in Job |-> Asked(k)], accepted>>
    BY <1>1, <2>4, <2>5, SameViewKeeps
  <2>. QED  BY <2>6 DEF Refines
<1>6. CASE WriteOutput(j)
  <2>1. runs' = runs /\ \A k \in Job : dir'[k].record = dir[k].record
    <3>1. \E o \in {"empty", "full"} : dir' = [dir EXCEPT ![j].output = o]
      BY <1>6 DEF WriteOutput
    <3>2. PICK o \in {"empty", "full"} : dir' = [dir EXCEPT ![j].output = o]
      BY <3>1
    <3>3. dir'[j].record = dir[j].record /\ \A k \in Job \ {j} : dir'[k] = dir[k]
      BY <3>2, OutputReplaced DEF IInv
    <3>. QED  BY <1>6, <3>3 DEF WriteOutput, history
  <2>. QED  BY <1>1, <2>1, UnseenRefines DEF SameView, State
<1>7. CASE WriteResult(j)
  <2>1. /\ worker[j] = "written" /\ runs' = runs
        /\ dir' = [dir EXCEPT ![j].record.state = result[j].state, ![j].record.size = result[j].size]
    BY <1>7 DEF WriteResult, Step, history
  <2>2. /\ State(j)' = result[j].state /\ dir'[j].record.hash = dir[j].record.hash
        /\ \A k \in Job \ {j} : dir'[k] = dir[k]
    <3>1. dir[j] \in DirectoryType /\ dir[j].record \in RecordType
      BY DEF IInv, TypeOK, DirectoryType
    <3>. QED  BY <2>1, <3>1 DEF State, DirectoryType, RecordType, IInv, TypeOK
  <2>3. /\ \/ State(j) = "starting" /\ runs[j] = 0
           \/ State(j) = "running" /\ runs[j] \in {0, 1}
        /\ result[j].state \in Terminal /\ (runs[j] = 0 => result[j].state # "succeeded")
        /\ j \notin forgotten
    BY <1>2, <2>1 DEF JobInv, Progress
  <2>4. \A k \in Job \ {j} : SameView(k)
    BY <1>1, <2>1, <2>2 DEF SameView, State
  <2>5. /\ Life(j) = (IF runs[j] = 1 THEN "running" ELSE "reserved")
        /\ Life(j)' = result[j].state /\ Asked(j)' = Asked(j)
    BY <1>1, <2>1, <2>2, <2>3 DEF Life, Asked, Terminal
  <2>6. \/ Life(j) = "running" /\ Life(j)' \in Terminal /\ Asked(j)' = Asked(j)
        \/ Life(j) = "reserved" /\ Life(j)' \in {"failed", "cancelled"} /\ Asked(j)' = Asked(j)
    BY <2>3, <2>5 DEF Terminal
  <2>. QED  BY <1>1, <2>4, <2>6, MoveRefines
<1>. QED  BY <1>3, <1>4, <1>5, <1>6, <1>7 DEF WorkerStep

(* Cancellations and time are not seen.                                    *)
LEMMA BesideRefines ==
  ASSUME IInv, NEW j \in Job,
         Ages(j) \/ CancelRead(j) \/ CancelWrite(j) \/ PollStarts(j) \/ PollAnswers(j)
  PROVE  Refines
<1>1. UNCHANGED <<runs, accepted, forgotten>>
  BY DEF Ages, CancelRead, CancelWrite, PollStarts, PollAnswers, history
<1>2. \A k \in Job : dir'[k].record = dir[k].record
  <2>1. CASE ~CancelWrite(j)
    BY <2>1 DEF Ages, CancelRead, PollStarts, PollAnswers
  <2>2. CASE CancelWrite(j)
    <3>1. dir[j] \in DirectoryType
      BY DEF IInv, TypeOK
    <3>. DEFINE d == [dir[j] EXCEPT !.cancel = @ \/ dir[j].exists]
    <3>2. d.record = dir[j].record /\ dir' = [dir EXCEPT ![j] = d]
      BY <2>2, <3>1 DEF CancelWrite, DirectoryType
    <3>. HIDE DEF d
    <3>. QED  BY <3>2 DEF IInv, TypeOK
  <2>. QED  BY <2>1, <2>2
<1>. QED  BY <1>1, <1>2, UnseenRefines DEF SameView, State

(* Removing the record is Forget, once.                                    *)
LEMMA SweepRefines ==
  ASSUME IInv, NEW s \in Store, NEW e \in call[s].sweep,
         PurgeFile(s, e) \/ PurgeDirectory(s, e) \/ ExpireOutput(s, e) \/ ExpireRecord(s, e)
  PROVE  Refines
<1>. DEFINE j == e.job
<1>1. /\ j \in Job /\ JobInv(j) /\ worker[j] = "exited"
      /\ e.record \in RecordType /\ e.record.state \in Terminal
      /\ j \notin forgotten => e.record.state = State(j) /\ e.record.hash = dir[j].record.hash
  BY SweptEntry
<1>2. UNCHANGED <<runs, accepted>>
  BY DEF PurgeFile, PurgeDirectory, ExpireOutput, ExpireRecord, history
<1>. DEFINE r == [e.record EXCEPT !.expired = TRUE, !.size = 0]
<1>3. \/ /\ forgotten' = forgotten \cup {j} /\ dir' = [dir EXCEPT ![j].record = NoRecord]
      \/ forgotten' = forgotten /\ dir' = [dir EXCEPT ![j].output = "none"]
      \/ /\ forgotten' = forgotten /\ State(j) = "none" /\ dir' = [dir EXCEPT ![j] = NoDirectory]
      \/ forgotten' = forgotten /\ dir' = [dir EXCEPT ![j].record = r]
      \/ forgotten' = forgotten /\ dir' = dir
  BY DEF PurgeFile, PurgeDirectory, ExpireOutput, ExpireRecord, history
<1>4. r \in RecordType /\ r.state = e.record.state /\ r.hash = e.record.hash
  BY <1>1 DEF RecordType
<1>5. NoRecord \in RecordType
  BY DEF NoRecord, RecordType
<1>. HIDE DEF j, r
<1>6. CASE forgotten' = forgotten \cup {j} /\ dir' = [dir EXCEPT ![j].record = NoRecord]
  <2>1. \A k \in Job \ {j} : SameView(k)
    BY <1>1, <1>2, <1>5, <1>6, RecordReplaced DEF IInv, SameView, State
  <2>2. CASE j \in forgotten
    BY <1>2, <1>6, <2>1, <2>2, UnseenRefines DEF SameView
  <2>3. CASE j \notin forgotten
    <3>1. Life(j) \in Terminal /\ Life(j)' = "forgotten" /\ Asked(j)' = None
      <4>1. State(j) \in Terminal /\ State(j) # "none"
        BY <1>1, <2>3 DEF JobInv, Progress, Terminal
      <4>2. j \in forgotten'
        BY <1>6
      <4>. QED  BY <2>3, <4>1, <4>2 DEF Life, Asked
    <3>. QED  BY <1>1, <1>2, <2>1, <3>1, MoveRefines
  <2>. QED  BY <2>2, <2>3
<1>7. CASE forgotten' = forgotten /\ dir' = [dir EXCEPT ![j].output = "none"]
  BY <1>1, <1>2, <1>7, OutputReplaced, UnseenRefines DEF IInv, SameView, State
<1>8. CASE forgotten' = forgotten /\ State(j) = "none" /\ dir' = [dir EXCEPT ![j] = NoDirectory]
  <2>1. dir[j].record = NoRecord
    BY <1>1, <1>8 DEF JobInv, Retention
  <2>2. \A k \in Job : dir'[k].record = dir[k].record
    BY <1>1, <1>8, <2>1 DEF NoDirectory, IInv, TypeOK
  <2>. QED  BY <1>2, <1>8, <2>2, UnseenRefines DEF SameView, State
<1>9. CASE forgotten' = forgotten /\ dir' = [dir EXCEPT ![j].record = r]
  BY <1>1, <1>2, <1>4, <1>9, RecordReplaced, UnseenRefines DEF IInv, SameView, State
<1>10. CASE forgotten' = forgotten /\ dir' = dir
  BY <1>2, <1>10, UnseenRefines DEF SameView, State
<1>. QED  BY <1>3, <1>6, <1>7, <1>8, <1>9, <1>10

(* Writing the record is Reserve, the launch is Tell.                      *)
LEMMA StartRefines ==
  ASSUME IInv, NEW s \in Store,
         Admit(s) \/ Reserve(s) \/ Launch(s) \/ StoreCrashes(s) \/ (\E h \in Hash : Record(s, h))
  PROVE  Refines
<1>1. CASE Admit(s) \/ StoreCrashes(s)
  BY <1>1, UnseenRefines DEF Admit, StoreCrashes, history, SameView, State
<1>2. CASE Reserve(s)
  <2>1. PICK j \in Job : j = call[s].job
    BY <1>2 DEF Reserve, At, IInv, StoreInv, Claimed
  <2>2. UNCHANGED <<runs, accepted, forgotten>> /\ (dir' = dir \/ dir' = [dir EXCEPT ![j].exists = TRUE])
    BY <1>2, <2>1 DEF Reserve, history
  <2>3. \A k \in Job : dir'[k].record = dir[k].record
    <3>1. dir[j] \in DirectoryType
      BY DEF IInv, TypeOK
    <3>. DEFINE d == [dir[j] EXCEPT !.exists = TRUE]
    <3>2. d.record = dir[j].record
      BY <3>1 DEF DirectoryType
    <3>3. dir' = dir \/ dir' = [dir EXCEPT ![j] = d]
      BY <2>2
    <3>. HIDE DEF d
    <3>. QED  BY <3>2, <3>3 DEF IInv, TypeOK
  <2>. QED  BY <2>2, <2>3, UnseenRefines DEF SameView, State
<1>3. CASE Launch(s)
  <2>1. PICK j \in Job : j = call[s].job
    BY <1>3 DEF Launch, At, IInv, StoreInv, Claimed
  <2>2. /\ call[s].step = "launch" /\ UNCHANGED <<dir, runs, forgotten>>
        /\ accepted' = [accepted EXCEPT ![j] = @ \cup {call[s].hash}]
    BY <1>3, <2>1 DEF Launch, At
  <2>3. JobInv(j) /\ age[j] # "old" /\ State(j) = "starting" /\ dir[j].record.hash = call[s].hash
    BY <2>1, <2>2 DEF IInv, StoreInv, Claimed
  <2>4. Asked(j) = call[s].hash /\ Asked(j) # None
    BY <2>3, ConstantsAssumption DEF Asked, JobInv, Retention
  <2>. QED  BY <2>2, <2>4, TellRefines DEF SameView, State
<1>4. ASSUME NEW h \in Hash, Record(s, h) PROVE Refines
  <2>1. PICK j \in Job : j = call[s].job
    BY <1>4 DEF Record, At, IInv, StoreInv, Claimed
  <2>. DEFINE r == [state |-> "starting", hash |-> h, size |-> 0, expired |-> FALSE]
  <2>2. /\ call[s].step = "record" /\ UNCHANGED <<runs, accepted, forgotten>>
        /\ dir' = [dir EXCEPT ![j].record = r]
    BY <1>4, <2>1 DEF Record, At, history
  <2>3. r \in RecordType /\ r.state = "starting" /\ r.hash = h
    BY DEF RecordType, Recorded
  <2>. HIDE DEF r
  <2>4. /\ \A k \in Job \ {j} : dir'[k] = dir[k]
        /\ State(j)' = "starting" /\ dir'[j].record.hash = h
    BY <2>2, <2>3, RecordReplaced DEF IInv
  <2>5. JobInv(j) /\ age[j] # "old" /\ State(j) = "none" /\ worker[j] = "none"
    BY <2>1, <2>2 DEF IInv, StoreInv, Claimed, Owns
  <2>6. j \notin forgotten /\ runs[j] = 0
    BY <2>5 DEF JobInv, Retention, Progress
  <2>7. Life(j) = "free" /\ Life(j)' = "reserved" /\ Asked(j)' \in Hash
    BY <2>2, <2>4, <2>5, <2>6 DEF Life, Asked, Terminal
  <2>8. \A k \in Job \ {j} : SameView(k)
    BY <2>2, <2>4 DEF SameView, State
  <2>. QED  BY <2>2, <2>7, <2>8, MoveRefines
<1>. QED  BY <1>1, <1>2, <1>3, <1>4

(* So is an answer from the record.                                        *)
LEMMA SubmissionRefines ==
  ASSUME IInv, NEW s \in Store, NEW j \in Job, Survey(s, j) \/ (\E h \in Hash : Retrieve(s, j, h))
  PROVE  Refines
<1>1. CASE Survey(s, j)
  BY <1>1, UnseenRefines DEF Survey, history, SameView, State
<1>2. ASSUME NEW h \in Hash, Retrieve(s, j, h) PROVE Refines
  <2>1. /\ UNCHANGED <<dir, runs, forgotten>> /\ accepted' = [accepted EXCEPT ![j] = @ \cup {h}]
        /\ j \notin forgotten /\ dir[j].record.hash = h
    BY <1>2 DEF Retrieve, Submitted, SameRequest
  <2>2. Asked(j) = h /\ h # None
    BY <2>1, ConstantsAssumption DEF Asked
  <2>. QED  BY <2>1, <2>2, TellRefines DEF SameView, State
<1>. QED  BY <1>1, <1>2

(* All steps.                                                              *)
LEMMA NextRefines == IInv /\ [Next]_vars => Refines
<1>. SUFFICES ASSUME IInv, [Next]_vars PROVE Refines
  OBVIOUS
<1>1. ASSUME NEW s \in Store, StartStep(s) \/ StoreCrashes(s) PROVE Refines
  BY <1>1, StartRefines, SweepRefines DEF StartStep
<1>2. CASE UNCHANGED vars
  BY <1>2, UnseenRefines DEF vars, SameView, State
<1>. QED  BY <1>1, <1>2, WorkerRefines, BesideRefines, SubmissionRefines DEF Next

(* The ledger implements OperationOnce, with any number of backends that   *)
(* may crash, of workers that may die and of launches that may be lost:    *)
(* an operation stands for one request, is executed at most once, and its  *)
(* outcome never changes (docs/RELIABILITY.md; job-store.ts, start).       *)
THEOREM LedgerKeepsOnce == Spec => KeepsOnce
<1>1. Init => Once!Init
  BY DEF Init, Once!Init, Life, Asked, State, NoDirectory, NoRecord
<1>2. Spec => [][Refines]_vars
  BY Invariance, NextRefines, PTL DEF Spec
<1>3. UNCHANGED vars => UNCHANGED <<[j \in Job |-> Life(j)], [j \in Job |-> Asked(j)], accepted>>
  BY Stutters DEF vars, SameView, State
<1>4. [Refines]_vars => [Once!Next]_<<[j \in Job |-> Life(j)], [j \in Job |-> Asked(j)], accepted>>
  BY <1>3 DEF Refines
<1>. QED  BY <1>1, <1>2, <1>4, PTL DEF Spec, KeepsOnce, Once!Spec

-----------------------------------------------------------------------------
(* The limits, of one backend whose workers are prompt.                    *)

(* What a start has admitted counts before it is on record.                *)
Alone == \A s, t \in Store : s = t
Admitted == {j \in Job : \E s \in Store : call[s].step \in {"reserve", "record"} /\ call[s].job = j}

(* Capacity: a job that is under way is counted as active until its worker *)
(* ends, as its record does not become late before the worker reports.     *)
Punctual(j) == Underway(j) /\ State(j) = "starting" => age[j] = "new"
Placed == Active \cup Admitted
CapacityInv ==
  /\ \A j \in Job : Punctual(j)
  /\ IsFiniteSet(Placed) /\ Cardinality(Placed) <= MaxConcurrent

(* Budget: an output on disk is charged to its record, or a sweep is about *)
(* to remove it.  A sweep that expires a record finds its directory, so it *)
(* does not fail before it has purged the others.                          *)
Matched(j) == worker[j] = "written" /\ dir[j].output = "full" => result[j].size = 1
Doomed(j) == \E s \in Store : \E e \in call[s].sweep : e.purge /\ e.job = j
Charged(j) == dir[j].output = "full" => j \in Reserved \/ Doomed(j)
Surveyed(s) ==
  /\ call[s].step # "sweep" => call[s].sweep = {}
  /\ \A e \in call[s].sweep : ~e.purge => dir[e.job].exists /\ ~Doomed(e.job)
Held == Reserved \cup Admitted \cup {j \in Job : dir[j].output = "full"}
BudgetInv ==
  /\ \A j \in Job : Matched(j) /\ Charged(j)
  /\ \A s \in Store : Surveyed(s)
  /\ IsFiniteSet(Held) /\ Cardinality(Held) <= MaxStoredOutputs

(* A set that loses elements stays within its limit,                       *)
LEMMA Smaller ==
  ASSUME NEW S, NEW T, NEW n \in Nat, IsFiniteSet(S), Cardinality(S) <= n, T \subseteq S
  PROVE  IsFiniteSet(T) /\ Cardinality(T) <= n
<1>1. IsFiniteSet(T) /\ Cardinality(T) <= Cardinality(S)
  BY FS_Subset
<1>2. Cardinality(S) \in Nat /\ Cardinality(T) \in Nat
  BY <1>1, FS_CardinalityType
<1>. QED  BY <1>1, <1>2

(* and below it there is room for one more.                                *)
LEMMA OneMore ==
  ASSUME NEW S, NEW T, NEW x, NEW n \in Nat, IsFiniteSet(S), Cardinality(S) < n, T \subseteq S \cup {x}
  PROVE  IsFiniteSet(T) /\ Cardinality(T) <= n
<1>1. /\ IsFiniteSet(S \cup {x})
      /\ Cardinality(S \cup {x}) = IF x \in S THEN Cardinality(S) ELSE Cardinality(S) + 1
  BY FS_AddElement
<1>2. Cardinality(S) \in Nat
  BY FS_CardinalityType
<1>3. Cardinality(S \cup {x}) <= n
  BY <1>1, <1>2
<1>. QED  BY <1>1, <1>3, Smaller

(* The limits of the configuration are numbers.                            *)
LEMMA LimitsAreNumbers == MaxConcurrent \in Nat /\ MaxStoredOutputs \in Nat /\ MaxConcurrent > 0 /\ MaxStoredOutputs > 0
<1>1. {MaxConcurrent, MaxStoredJobs, MaxStoredOutputs} \subseteq Nat \ {0}
  BY ConstantsAssumption
<1>2. MaxConcurrent \in Nat \ {0} /\ MaxStoredOutputs \in Nat \ {0}
  BY <1>1
<1>. QED  BY <1>2

(* What a worker does to its job: it goes on, reports, writes its output   *)
(* or records its outcome.                                                 *)
LEMMA WorkerMoves ==
  ASSUME IInv, NEW j \in Job, WorkerStep(j) \/ WorkerDies(j)
  PROVE  /\ call' = call /\ dir'[j].exists = dir[j].exists
         /\ worker[j] \in Alive \cup {"launched"}
         /\ \A k \in Job \ {j} : dir'[k] = dir[k] /\ age'[k] = age[k] /\ worker'[k] = worker[k] /\ result'[k] = result[k]
         /\ \/ dir' = dir /\ age' = age /\ worker'[j] # "written"
            \/ /\ worker[j] = "claimed" /\ worker'[j] = "checking" /\ State(j)' = "running"
               /\ dir'[j].record.size = dir[j].record.size /\ dir'[j].output = dir[j].output
            \/ /\ worker[j] = "decided" /\ worker'[j] = "written" /\ age' = age /\ result' = result
               /\ dir'[j].record = dir[j].record /\ (dir'[j].output = "full" => result[j].size = 1)
            \/ /\ worker[j] = "written" /\ worker'[j] = "exited" /\ State(j)' \in Terminal
               /\ dir'[j].record.size = result[j].size /\ dir'[j].output = dir[j].output
<1>1. CASE Claim(j) \/ WorkerErrs(j) \/ Execute(j) \/ Withdraw(j) \/ CommandEnds(j) \/ WorkerDies(j)
  <2>1. UNCHANGED <<dir, age, call>> /\ worker[j] \in Alive \cup {"launched"}
    BY <1>1 DEF Claim, WorkerErrs, Execute, Withdraw, CommandEnds, WorkerDies, Step, Alive, history
  <2>2. worker'[j] # "written" /\ \A k \in Job \ {j} : worker'[k] = worker[k]
    BY <1>1 DEF Claim, WorkerErrs, Execute, Withdraw, CommandEnds, WorkerDies, Step, IInv, TypeOK
  <2>3. \A k \in Job \ {j} : result'[k] = result[k]
    BY <1>1 DEF Claim, WorkerErrs, Execute, Withdraw, CommandEnds, WorkerDies, Decides, IInv, TypeOK
  <2>. QED  BY <2>1, <2>2, <2>3
<1>2. CASE ReportRunning(j)
  <2>1. /\ worker[j] = "claimed" /\ worker' = [worker EXCEPT ![j] = "checking"]
        /\ age' = [age EXCEPT ![j] = "new"] /\ UNCHANGED <<result, call>>
    BY <1>2 DEF ReportRunning, Step
  <2>. DEFINE r == [dir[j].record EXCEPT !.state = "running"]
  <2>2. r \in RecordType /\ r.state = "running" /\ r.size = dir[j].record.size
    <3>1. dir[j].record \in RecordType
      BY DEF IInv, TypeOK, DirectoryType
    <3>. QED  BY <3>1 DEF RecordType, Recorded
  <2>3. dir' = [dir EXCEPT ![j].record = r]
    BY <1>2 DEF ReportRunning
  <2>. HIDE DEF r
  <2>4. /\ \A k \in Job \ {j} : dir'[k] = dir[k]
        /\ dir'[j].record = r /\ State(j)' = "running"
        /\ dir'[j].exists = dir[j].exists /\ dir'[j].output = dir[j].output
    BY <2>2, <2>3, RecordReplaced DEF IInv
  <2>5. worker'[j] = "checking" /\ \A k \in Job \ {j} : worker'[k] = worker[k] /\ age'[k] = age[k]
    BY <2>1 DEF IInv, TypeOK
  <2>. QED  BY <2>1, <2>2, <2>4, <2>5 DEF Alive
<1>3. CASE WriteOutput(j)
  <2>1. worker[j] = "decided" /\ worker' = [worker EXCEPT ![j] = "written"] /\ UNCHANGED <<age, result, call>>
    BY <1>3 DEF WriteOutput, Step
  <2>. DEFINE o == IF result[j].size = 1 THEN "full" ELSE "empty"
  <2>2. o \in {"none", "empty", "full"} /\ (o = "full" => result[j].size = 1) /\ dir' = [dir EXCEPT ![j].output = o]
    BY <1>3 DEF WriteOutput
  <2>. HIDE DEF o
  <2>3. /\ \A k \in Job \ {j} : dir'[k] = dir[k]
        /\ dir'[j].record = dir[j].record /\ dir'[j].output = o /\ dir'[j].exists = dir[j].exists
    BY <2>2, OutputReplaced DEF IInv
  <2>4. worker'[j] = "written" /\ \A k \in Job \ {j} : worker'[k] = worker[k]
    BY <2>1 DEF IInv, TypeOK
  <2>. QED  BY <2>1, <2>2, <2>3, <2>4 DEF Alive
<1>4. CASE WriteResult(j)
  <2>1. /\ worker[j] = "written" /\ worker' = [worker EXCEPT ![j] = "exited"]
        /\ age' = [age EXCEPT ![j] = "new"] /\ call' = call
        /\ result' = [result EXCEPT ![j] = [state |-> "none", size |-> 0]]
    BY <1>4 DEF WriteResult, Step, Decides
  <2>. DEFINE r == [dir[j].record EXCEPT !.state = result[j].state, !.size = result[j].size]
  <2>2. r \in RecordType /\ r.state = result[j].state /\ r.size = result[j].size /\ result[j].state \in Terminal
    <3>1. dir[j].record \in RecordType
      BY DEF IInv, TypeOK, DirectoryType
    <3>2. result[j].state \in Terminal /\ result[j].size \in {0, 1}
      BY <2>1 DEF IInv, TypeOK, JobInv, Progress
    <3>. QED  BY <3>1, <3>2 DEF RecordType, Recorded
  <2>3. dir' = [dir EXCEPT ![j].record = r]
    BY <1>4 DEF WriteResult
  <2>. HIDE DEF r
  <2>4. /\ \A k \in Job \ {j} : dir'[k] = dir[k]
        /\ dir'[j].record = r /\ State(j)' = r.state
        /\ dir'[j].exists = dir[j].exists /\ dir'[j].output = dir[j].output
    BY <2>2, <2>3, RecordReplaced DEF IInv
  <2>5. /\ worker'[j] = "exited"
        /\ \A k \in Job \ {j} : worker'[k] = worker[k] /\ age'[k] = age[k] /\ result'[k] = result[k]
    BY <2>1 DEF IInv, TypeOK
  <2>. QED  BY <2>1, <2>2, <2>4, <2>5 DEF Alive
<1>. QED  BY <1>1, <1>2, <1>3, <1>4 DEF WorkerStep

(* What a sweep does to the job of an entry, which its worker has decided  *)
(* long ago.                                                               *)
LEMMA SweepMoves ==
  ASSUME IInv, NEW s \in Store, NEW e \in call[s].sweep,
         PurgeFile(s, e) \/ PurgeDirectory(s, e) \/ ExpireOutput(s, e) \/ ExpireRecord(s, e)
  PROVE  /\ UNCHANGED <<age, worker, result>> /\ worker[e.job] = "exited" /\ e.job \in Job
         /\ \A k \in Job \ {e.job} : dir'[k] = dir[k]
         /\ State(e.job) \in Terminal \cup {"none"} /\ State(e.job)' \in Terminal \cup {"none"}
         /\ \A t \in Store : call'[t] = call[t] \/ call'[t].step \in {"idle", "sweep"}
         /\ \/ /\ call' = call /\ e.purge /\ dir'[e.job].exists = dir[e.job].exists
               /\ dir'[e.job].record = NoRecord /\ dir'[e.job].output = dir[e.job].output
            \/ /\ call' = call /\ dir'[e.job].exists = dir[e.job].exists
               /\ dir'[e.job].record = dir[e.job].record /\ dir'[e.job].output = "none"
            \/ Swept(s, e) /\ e.purge /\ dir'[e.job] = NoDirectory
            \/ /\ Swept(s, e) /\ ~e.purge /\ dir'[e.job].output = "none" /\ dir'[e.job].record.size = 0
               /\ dir'[e.job].exists = dir[e.job].exists /\ dir[e.job].record.size \in {0, 1}
               /\ dir[e.job].output = "none"
            \/ Return(s) /\ dir' = dir /\ ~e.purge /\ ~dir[e.job].exists
<1>. DEFINE j == e.job
            r == [e.record EXCEPT !.expired = TRUE, !.size = 0]
<1>1. /\ j \in Job /\ JobInv(j) /\ worker[j] = "exited"
      /\ e.record \in RecordType /\ e.record.state \in Terminal
  BY SweptEntry
<1>2. UNCHANGED <<age, worker, result>>
  BY DEF PurgeFile, PurgeDirectory, ExpireOutput, ExpireRecord
<1>3. \/ call' = call /\ e.purge /\ dir' = [dir EXCEPT ![j].record = NoRecord]
      \/ call' = call /\ dir' = [dir EXCEPT ![j].output = "none"]
      \/ Swept(s, e) /\ e.purge /\ dir' = [dir EXCEPT ![j] = NoDirectory]
      \/ Swept(s, e) /\ ~e.purge /\ dir[j].output = "none" /\ dir' = [dir EXCEPT ![j].record = r]
      \/ Return(s) /\ dir' = dir /\ ~e.purge /\ ~dir[j].exists
  BY DEF PurgeFile, PurgeDirectory, ExpireOutput, ExpireRecord
<1>4. r \in RecordType /\ r.state \in Terminal /\ r.size = 0
  BY <1>1 DEF RecordType
<1>5. NoRecord \in RecordType /\ NoRecord.state = "none" /\ NoDirectory \in DirectoryType /\ NoDirectory.record = NoRecord
  BY DEF NoRecord, RecordType, NoDirectory, DirectoryType
<1>6. State(j) \in Terminal \cup {"none"}
  BY <1>1 DEF JobInv, Progress
<1>7. call[s].step \in {"idle", "sweep"} /\ call[s] \in CallType
  BY DEF PurgeFile, PurgeDirectory, ExpireOutput, ExpireRecord, Sweeping, At, IInv, TypeOK
<1>8. Swept(s, e) \/ Return(s) => \A t \in Store : call'[t] = call[t] \/ call'[t].step \in {"idle", "sweep"}
  <2>1. CASE Swept(s, e)
    BY <1>7, <2>1, EntrySwept DEF Swept, IInv, TypeOK
  <2>2. CASE Return(s)
    BY <2>2 DEF Return, NoCall, IInv, TypeOK
  <2>. QED  BY <2>1, <2>2
<1>9. dir[j].record.size \in {0, 1}
  BY <1>1 DEF IInv, TypeOK, DirectoryType, RecordType
<1>. HIDE DEF j, r
<1>10. CASE call' = call /\ e.purge /\ dir' = [dir EXCEPT ![j].record = NoRecord]
  <2>1. /\ \A k \in Job \ {j} : dir'[k] = dir[k]
        /\ dir'[j].record = NoRecord /\ State(j)' = "none"
        /\ dir'[j].exists = dir[j].exists /\ dir'[j].output = dir[j].output
    BY <1>1, <1>5, <1>10, RecordReplaced DEF IInv
  <2>. QED  BY <1>1, <1>2, <1>6, <1>10, <2>1 DEF j
<1>11. CASE call' = call /\ dir' = [dir EXCEPT ![j].output = "none"]
  <2>1. /\ \A k \in Job \ {j} : dir'[k] = dir[k]
        /\ dir'[j].record = dir[j].record /\ State(j)' = State(j) /\ dir'[j].output = "none"
        /\ dir'[j].exists = dir[j].exists
    BY <1>1, <1>11, OutputReplaced DEF IInv
  <2>. QED  BY <1>1, <1>2, <1>6, <1>11, <2>1 DEF j
<1>12. CASE Swept(s, e) /\ e.purge /\ dir' = [dir EXCEPT ![j] = NoDirectory]
  <2>1. dir'[j] = NoDirectory /\ \A k \in Job \ {j} : dir'[k] = dir[k]
    BY <1>1, <1>5, <1>12, DirectoryReplaced DEF IInv
  <2>2. State(j)' = "none"
    BY <1>5, <2>1 DEF State
  <2>. QED  BY <1>1, <1>2, <1>6, <1>8, <1>12, <2>1, <2>2 DEF j
<1>13. CASE Swept(s, e) /\ ~e.purge /\ dir[j].output = "none" /\ dir' = [dir EXCEPT ![j].record = r]
  <2>1. /\ \A k \in Job \ {j} : dir'[k] = dir[k]
        /\ dir'[j].record = r /\ State(j)' = r.state
        /\ dir'[j].exists = dir[j].exists /\ dir'[j].output = dir[j].output
    BY <1>1, <1>4, <1>13, RecordReplaced DEF IInv
  <2>. QED  BY <1>1, <1>2, <1>4, <1>6, <1>8, <1>9, <1>13, <2>1 DEF j
<1>14. CASE Return(s) /\ dir' = dir /\ ~e.purge /\ ~dir[j].exists
  BY <1>1, <1>2, <1>6, <1>8, <1>14 DEF j, State
<1>. QED  BY <1>3, <1>10, <1>11, <1>12, <1>13, <1>14

(* What a start does from its admission on: it reserves the directory,     *)
(* records the job, launches it, or fails.                                 *)
LEMMA StartMoves ==
  ASSUME IInv, NEW s \in Store, Reserve(s) \/ (\E h \in Hash : Record(s, h)) \/ Launch(s)
  PROVE  /\ call[s].job \in Job /\ result' = result /\ \A t \in Store \ {s} : call'[t] = call[t]
         /\ \A k \in Job \ {call[s].job} : dir'[k] = dir[k] /\ age'[k] = age[k] /\ worker'[k] = worker[k]
         /\ \/ /\ call[s].step = "reserve" /\ call'[s] = NoCall /\ UNCHANGED <<dir, age, worker>>
            \/ /\ call[s].step = "reserve" /\ call'[s].step = "record" /\ call'[s].job = call[s].job
               /\ call'[s].sweep = call[s].sweep /\ UNCHANGED <<age, worker>>
               /\ dir'[call[s].job].exists /\ dir'[call[s].job].record = dir[call[s].job].record
               /\ dir'[call[s].job].output = dir[call[s].job].output
            \/ /\ call[s].step = "record" /\ call'[s].step = "launch" /\ call'[s].job = call[s].job
               /\ call'[s].sweep = call[s].sweep /\ worker' = worker
               /\ age'[call[s].job] = "new" /\ State(call[s].job)' = "starting"
               /\ dir'[call[s].job].exists = dir[call[s].job].exists
               /\ dir'[call[s].job].output = dir[call[s].job].output
            \/ /\ call[s].step = "launch" /\ call'[s] = NoCall /\ UNCHANGED <<dir, age>>
               /\ worker[call[s].job] = "none" /\ worker'[call[s].job] \in {"none", "launched"}
<1>0. PICK j \in Job : j = call[s].job
  BY DEF Reserve, Record, Launch, At, IInv, StoreInv, Claimed
<1>1. CASE Reserve(s)
  <2>1. /\ call[s].step = "reserve" /\ UNCHANGED <<age, worker, result>>
        /\ \/ ~dir[j].exists /\ dir' = [dir EXCEPT ![j].exists = TRUE] /\ Goto(s, "record")
           \/ Return(s) /\ UNCHANGED dir
    BY <1>0, <1>1 DEF Reserve, At, Free, history
  <2>2. CASE dir' = [dir EXCEPT ![j].exists = TRUE] /\ Goto(s, "record")
    <3>. DEFINE d == [dir[j] EXCEPT !.exists = TRUE]
    <3>1. /\ d \in DirectoryType /\ dir' = [dir EXCEPT ![j] = d]
          /\ d.exists = TRUE /\ d.record = dir[j].record /\ d.output = dir[j].output
      <4>1. dir[j] \in DirectoryType
        BY DEF IInv, TypeOK
      <4>. QED  BY <2>2, <4>1 DEF DirectoryType
    <3>. HIDE DEF d
    <3>2. dir'[j] = d /\ \A k \in Job \ {j} : dir'[k] = dir[k]
      BY <3>1, DirectoryReplaced DEF IInv
    <3>3. /\ \A t \in Store \ {s} : call'[t] = call[t]
          /\ call'[s].step = "record" /\ call'[s].job = j /\ call'[s].sweep = call[s].sweep
      BY <1>0, <2>2 DEF Goto, IInv, TypeOK, CallType
    <3>. QED  BY <1>0, <2>1, <3>1, <3>2, <3>3
  <2>3. CASE Return(s) /\ UNCHANGED dir
    BY <1>0, <2>1, <2>3 DEF Return, IInv, TypeOK
  <2>. QED  BY <2>1, <2>2, <2>3
<1>2. ASSUME NEW h \in Hash, Record(s, h)
      PROVE  /\ result' = result /\ \A t \in Store \ {s} : call'[t] = call[t]
             /\ \A k \in Job \ {j} : dir'[k] = dir[k] /\ age'[k] = age[k] /\ worker'[k] = worker[k]
             /\ call[s].step = "record" /\ call'[s].step = "launch" /\ call'[s].job = j
             /\ call'[s].sweep = call[s].sweep /\ worker' = worker
             /\ age'[j] = "new" /\ State(j)' = "starting"
             /\ dir'[j].exists = dir[j].exists /\ dir'[j].output = dir[j].output
  <2>. DEFINE r == [state |-> "starting", hash |-> h, size |-> 0, expired |-> FALSE]
              c == [call[s] EXCEPT !.step = "launch", !.hash = h]
  <2>1. /\ call[s].step = "record" /\ dir' = [dir EXCEPT ![j].record = r]
        /\ age' = [age EXCEPT ![j] = "new"]
        /\ call' = [call EXCEPT ![s].step = "launch", ![s].hash = h]
        /\ UNCHANGED <<worker, result>>
    BY <1>0, <1>2 DEF Record, At
  <2>2. r \in RecordType /\ r.state = "starting"
    BY DEF RecordType, Recorded
  <2>3. call' = [call EXCEPT ![s] = c] /\ c.step = "launch" /\ c.job = j /\ c.sweep = call[s].sweep
    <3>1. call[s] \in CallType
      BY DEF IInv, TypeOK
    <3>. QED  BY <1>0, <2>1, <3>1 DEF CallType
  <2>. HIDE DEF r, c
  <2>4. call'[s] = c /\ \A t \in Store \ {s} : call'[t] = call[t]
    BY <2>3 DEF IInv, TypeOK
  <2>5. /\ \A k \in Job \ {j} : dir'[k] = dir[k]
        /\ State(j)' = "starting" /\ dir'[j].exists = dir[j].exists /\ dir'[j].output = dir[j].output
    BY <2>1, <2>2, RecordReplaced DEF IInv
  <2>6. age'[j] = "new" /\ \A k \in Job \ {j} : age'[k] = age[k]
    BY <2>1 DEF IInv, TypeOK
  <2>. QED  BY <2>1, <2>3, <2>4, <2>5, <2>6
<1>3. CASE Launch(s)
  <2>1. /\ call[s].step = "launch" /\ worker' \in {worker, [worker EXCEPT ![j] = "launched"]}
        /\ Return(s) /\ UNCHANGED <<dir, age, result>>
    BY <1>0, <1>3 DEF Launch, At
  <2>2. worker[j] = "none"
    BY <1>0, <2>1 DEF IInv, StoreInv, Claimed, Owns
  <2>3. call'[s] = NoCall /\ \A t \in Store \ {s} : call'[t] = call[t]
    BY <2>1 DEF Return, IInv, TypeOK
  <2>4. worker'[j] \in {"none", "launched"} /\ \A k \in Job \ {j} : worker'[k] = worker[k]
    BY <2>1, <2>2 DEF IInv, TypeOK
  <2>. QED  BY <1>0, <2>1, <2>2, <2>3, <2>4
<1>. QED  BY <1>0, <1>1, <1>2, <1>3

-----------------------------------------------------------------------------
(* Capacity.                                                               *)

(* It is enough that no job becomes active that was not admitted.          *)
LEMMA PlacedShrinks ==
  ASSUME CapacityInv, \A j \in Job : Punctual(j)' /\ (j \in Active' => j \in Placed),
         \A s \in Store : call'[s].step \in {"reserve", "record"} =>
           call[s].step \in {"reserve", "record"} /\ call'[s].job = call[s].job
  PROVE  CapacityInv'
<1>1. Placed' \subseteq Placed
  BY DEF Placed, Admitted, Active, Records
<1>2. IsFiniteSet(Placed') /\ Cardinality(Placed') <= MaxConcurrent
  BY <1>1, Smaller, LimitsAreNumbers DEF CapacityInv
<1>. QED  BY <1>2 DEF CapacityInv

(* The place of a job does not change with the rest of its directory.      *)
SamePlace(j) ==
  /\ State(j)' = State(j) /\ age'[j] = age[j]
  /\ worker'[j] \in Alive => worker[j] \in Alive
  /\ Underway(j)' => Underway(j)
LEMMA SamePlaceKeeps ==
  ASSUME CapacityInv, NEW j \in Job, SamePlace(j)
  PROVE  Punctual(j)' /\ (j \in Active' => j \in Placed)
BY DEF CapacityInv, SamePlace, Punctual, Placed, Active, Records, Observed

LEMMA WorkerKeepsCapacity ==
  ASSUME IInv, CapacityInv, NEW j \in Job, WorkerStep(j) \/ WorkerDies(j)
  PROVE  CapacityInv'
<1>1. /\ call' = call /\ worker[j] \in Alive \cup {"launched"} /\ Underway(j)
      /\ \A k \in Job \ {j} : dir'[k] = dir[k] /\ age'[k] = age[k] /\ worker'[k] = worker[k]
  BY WorkerMoves DEF Underway
<1>2. \A k \in Job \ {j} : SamePlace(k)
  BY <1>1 DEF SamePlace, State, Underway, At
<1>3. JobInv(j) /\ Punctual(j)
  BY DEF IInv, CapacityInv
<1>4. CASE dir' = dir /\ age' = age
  <2>1. State(j)' = State(j)
    BY <1>4 DEF State
  <2>2. Punctual(j)'
    BY <1>1, <1>3, <1>4, <2>1 DEF Punctual
  <2>3. j \in Active' => j \in Active
    <3>1. State(j) \in {"starting", "running"} /\ (State(j) = "running" => worker[j] \in Alive)
      BY <1>1, <1>3 DEF JobInv, Progress, Alive
    <3>. QED  BY <1>1, <1>3, <2>1, <3>1 DEF Punctual, Active, Records, Observed
  <2>. QED  BY <1>1, <1>2, <2>2, <2>3, SamePlaceKeeps, PlacedShrinks DEF Placed
<1>5. CASE worker[j] = "claimed" /\ State(j)' = "running"
  <2>1. State(j) = "starting" /\ age[j] = "new"
    BY <1>1, <1>3, <1>5 DEF JobInv, Progress, Punctual
  <2>2. j \in Active
    BY <2>1 DEF Active, Records, Observed
  <2>3. Punctual(j)'
    BY <1>5 DEF Punctual
  <2>. QED  BY <1>1, <1>2, <2>2, <2>3, SamePlaceKeeps, PlacedShrinks DEF Placed
<1>6. CASE worker[j] = "decided" /\ worker'[j] = "written" /\ age' = age /\ dir'[j].record = dir[j].record
  <2>1. SamePlace(j)
    BY <1>1, <1>6 DEF SamePlace, State, Alive
  <2>. QED  BY <1>1, <1>2, <2>1, SamePlaceKeeps, PlacedShrinks
<1>7. CASE State(j)' \in Terminal
  <2>1. Punctual(j)' /\ j \notin Active'
    BY <1>7 DEF Terminal, Punctual, Active, Records, Observed
  <2>. QED  BY <1>1, <1>2, <2>1, SamePlaceKeeps, PlacedShrinks
<1>. QED  BY <1>4, <1>5, <1>6, <1>7, WorkerMoves

LEMMA SweepKeepsCapacity ==
  ASSUME IInv, CapacityInv, NEW s \in Store, NEW e \in call[s].sweep,
         PurgeFile(s, e) \/ PurgeDirectory(s, e) \/ ExpireOutput(s, e) \/ ExpireRecord(s, e)
  PROVE  CapacityInv'
<1>1. /\ UNCHANGED <<age, worker>> /\ e.job \in Job
      /\ \A k \in Job \ {e.job} : dir'[k] = dir[k]
      /\ State(e.job)' \in Terminal \cup {"none"}
      /\ \A t \in Store : call'[t] = call[t] \/ call'[t].step \in {"idle", "sweep"}
  BY SweepMoves
<1>2. \A k \in Job \ {e.job} : SamePlace(k)
  BY <1>1 DEF SamePlace, State, Underway, At
<1>3. Punctual(e.job)' /\ e.job \notin Active'
  BY <1>1 DEF Terminal, Punctual, Active, Records, Observed
<1>. QED  BY <1>1, <1>2, <1>3, SamePlaceKeeps, PlacedShrinks

LEMMA StartKeepsCapacity ==
  ASSUME IInv, CapacityInv, NEW s \in Store, Reserve(s) \/ (\E h \in Hash : Record(s, h)) \/ Launch(s)
  PROVE  CapacityInv'
<1>0. PICK j \in Job : j = call[s].job
  BY StartMoves
<1>1. /\ \A t \in Store \ {s} : call'[t] = call[t]
      /\ \A k \in Job \ {j} : dir'[k] = dir[k] /\ age'[k] = age[k] /\ worker'[k] = worker[k]
  BY <1>0, StartMoves
<1>2. CASE call[s].step = "reserve" /\ call'[s] = NoCall /\ UNCHANGED <<dir, age, worker>>
  <2>1. \A k \in Job : SamePlace(k)
    BY <1>1, <1>2 DEF SamePlace, State, Underway, At, NoCall
  <2>. QED  BY <1>1, <1>2, <2>1, SamePlaceKeeps, PlacedShrinks DEF NoCall
<1>3. CASE /\ call[s].step = "reserve" /\ call'[s].step = "record" /\ call'[s].job = j
           /\ UNCHANGED <<age, worker>> /\ dir'[j].record = dir[j].record
  <2>1. \A k \in Job : SamePlace(k)
    BY <1>1, <1>3 DEF SamePlace, State, Underway, At
  <2>. QED  BY <1>0, <1>1, <1>3, <2>1, SamePlaceKeeps, PlacedShrinks
<1>4. CASE /\ call[s].step = "record" /\ call'[s].step = "launch" /\ call'[s].job = j
           /\ worker' = worker /\ age'[j] = "new"
  <2>1. \A k \in Job \ {j} : SamePlace(k)
    BY <1>1, <1>4 DEF SamePlace, State, Underway, At
  <2>2. Punctual(j)' /\ j \in Placed
    BY <1>0, <1>4 DEF Punctual, Placed, Admitted
  <2>. QED  BY <1>1, <1>4, <2>1, <2>2, SamePlaceKeeps, PlacedShrinks
<1>5. CASE /\ call[s].step = "launch" /\ call'[s] = NoCall /\ UNCHANGED <<dir, age>>
           /\ worker[j] = "none" /\ worker'[j] \in {"none", "launched"}
  <2>1. \A k \in Job \ {j} : SamePlace(k)
    BY <1>1, <1>5 DEF SamePlace, State, Underway, At, NoCall
  <2>2. SamePlace(j)
    BY <1>0, <1>5 DEF SamePlace, State, Underway, At, Alive
  <2>. QED  BY <1>1, <1>5, <2>1, <2>2, SamePlaceKeeps, PlacedShrinks DEF NoCall
<1>. QED  BY <1>0, <1>2, <1>3, <1>4, <1>5, StartMoves

(* A start is admitted if there is room for one more.                      *)
LEMMA AdmitKeepsCapacity ==
  ASSUME Alone, IInv, CapacityInv, NEW s \in Store, Admit(s)
  PROVE  CapacityInv'
<1>1. /\ call[s].step = "sweep" /\ UNCHANGED <<dir, age, worker>>
      /\ (HasRoom /\ Goto(s, "reserve")) \/ Return(s)
  BY DEF Admit, At
<1>2. CASE Return(s)
  <2>1. \A t \in Store : call'[t] = call[t] \/ call'[t] = NoCall
    BY <1>2 DEF Return, IInv, TypeOK
  <2>2. \A k \in Job : SamePlace(k)
    BY <1>1, <2>1 DEF SamePlace, State, Underway, At, NoCall
  <2>. QED  BY <2>1, <2>2, SamePlaceKeeps, PlacedShrinks DEF NoCall
<1>3. CASE HasRoom /\ Goto(s, "reserve")
  <2>1. call'[s].step = "reserve" /\ call'[s].job = call[s].job /\ \A t \in Store : t = s
    BY <1>3 DEF Alone, Goto, IInv, TypeOK, CallType
  <2>2. \A k \in Job : SamePlace(k)
    BY <1>1, <2>1 DEF SamePlace, State, Underway, At
  <2>3. Active' \subseteq Active
    BY <1>1 DEF Active, Records, Observed, State
  <2>4. Placed' \subseteq Active \cup {call[s].job}
    BY <2>1, <2>3 DEF Placed, Admitted
  <2>5. IsFiniteSet(Active)
    BY Smaller, LimitsAreNumbers DEF CapacityInv, Placed
  <2>6. IsFiniteSet(Placed') /\ Cardinality(Placed') <= MaxConcurrent
    BY <1>3, <2>4, <2>5, OneMore, LimitsAreNumbers DEF HasRoom
  <2>. QED  BY <2>2, <2>6, SamePlaceKeeps DEF CapacityInv
<1>. QED  BY <1>1, <1>2, <1>3

LEMMA BesideKeepsCapacity ==
  ASSUME IInv, CapacityInv, PromptWorkers, NEW j \in Job,
         Ages(j) \/ CancelRead(j) \/ CancelWrite(j) \/ PollStarts(j) \/ PollAnswers(j)
  PROVE  CapacityInv'
<1>1. worker' = worker /\ call' = call /\ \A k \in Job \ {j} : age'[k] = age[k]
  BY DEF Ages, CancelRead, CancelWrite, PollStarts, PollAnswers, history, IInv, TypeOK
<1>2. \A k \in Job : State(k)' = State(k)
  <2>1. CASE ~CancelWrite(j)
    BY <2>1 DEF Ages, CancelRead, PollStarts, PollAnswers, State
  <2>2. CASE CancelWrite(j)
    <3>1. dir[j] \in DirectoryType
      BY DEF IInv, TypeOK
    <3>. DEFINE d == [dir[j] EXCEPT !.cancel = @ \/ dir[j].exists]
    <3>2. d.record = dir[j].record /\ dir' = [dir EXCEPT ![j] = d]
      BY <2>2, <3>1 DEF CancelWrite, DirectoryType
    <3>. HIDE DEF d
    <3>. QED  BY <3>2 DEF IInv, TypeOK, State
  <2>. QED  BY <2>1, <2>2
<1>3. \A k \in Job \ {j} : SamePlace(k)
  BY <1>1, <1>2 DEF SamePlace, Underway, At
<1>4. CASE age'[j] = age[j]
  <2>1. SamePlace(j)
    BY <1>1, <1>2, <1>4 DEF SamePlace, Underway, At
  <2>. QED  BY <1>1, <1>3, <2>1, SamePlaceKeeps, PlacedShrinks
<1>5. CASE Ages(j)
  <2>1. /\ State(j) \in Terminal \/ ~Underway(j)
        /\ State(j)' = "starting" \/ State(j)' \in Terminal
        /\ age'[j] \in {"late", "old"}
    BY <1>2, <1>5 DEF Ages, IInv, TypeOK
  <2>2. Punctual(j)'
    BY <1>1, <1>2, <2>1 DEF Punctual, Underway, At, Terminal
  <2>3. j \notin Active'
    BY <2>1 DEF Active, Records, Observed, Terminal
  <2>. QED  BY <1>1, <1>3, <2>2, <2>3, SamePlaceKeeps, PlacedShrinks
<1>. QED  BY <1>4, <1>5 DEF CancelRead, CancelWrite, PollStarts, PollAnswers

LEMMA CallKeepsCapacity ==
  ASSUME IInv, CapacityInv,
         (\E s \in Store : StoreCrashes(s) \/ \E j \in Job : Survey(s, j) \/ \E h \in Hash : Retrieve(s, j, h))
           \/ UNCHANGED vars
  PROVE  CapacityInv'
<1>1. UNCHANGED <<dir, age, worker>>
  BY DEF StoreCrashes, Survey, Retrieve, vars
<1>2. \A t \in Store : call'[t] = call[t] \/ call'[t].step \in {"idle", "sweep"}
  <2>1. ASSUME NEW s \in Store, StoreCrashes(s) PROVE \A t \in Store : call'[t] = call[t] \/ call'[t].step = "idle"
    BY <2>1 DEF StoreCrashes, Return, NoCall, IInv, TypeOK
  <2>2. ASSUME NEW s \in Store, NEW j \in Job, Survey(s, j)
        PROVE  \A t \in Store : call'[t] = call[t] \/ call'[t].step = "sweep"
    <3>. DEFINE c == [call[s] EXCEPT !.step = "sweep", !.job = j,
           !.sweep = {[job |-> i, record |-> dir[i].record, purge |-> age[i] = "old"] : i \in {k \in Job : Sweepable(k)}}]
    <3>1. c.step = "sweep" /\ call' = [call EXCEPT ![s] = c]
      BY ZenonT(60), <2>2 DEF Survey, IInv, TypeOK, CallType
    <3>. HIDE DEF c
    <3>. QED  BY <3>1 DEF IInv, TypeOK
  <2>. QED  BY <2>1, <2>2 DEF Retrieve, vars
<1>3. \A k \in Job : SamePlace(k)
  BY <1>1, <1>2 DEF SamePlace, State, Underway, At
<1>. QED  BY <1>2, <1>3, SamePlaceKeeps, PlacedShrinks

(* Every step keeps it.                                                    *)
LEMMA CapacityNext ==
  ASSUME Alone, PromptWorkers, IInv, CapacityInv, [Next]_vars
  PROVE  CapacityInv'
<1>1. ASSUME NEW s \in Store, StartStep(s) PROVE CapacityInv'
  BY <1>1, AdmitKeepsCapacity, StartKeepsCapacity, SweepKeepsCapacity DEF StartStep
<1>. QED  BY <1>1, CallKeepsCapacity, WorkerKeepsCapacity, BesideKeepsCapacity DEF Next

(* An empty ledger has room.                                               *)
LEMMA CapacityInit == Init => CapacityInv
<1>. SUFFICES ASSUME Init PROVE CapacityInv
  OBVIOUS
<1>1. Placed = {} /\ \A j \in Job : Punctual(j)
  BY DEF Init, NoDirectory, NoRecord, NoCall, Placed, Admitted, Active, Records, Punctual, State
<1>2. IsFiniteSet({}) /\ Cardinality({}) = 0
  BY FS_EmptySet
<1>. QED  BY <1>1, <1>2, LimitsAreNumbers DEF CapacityInv

(* No more workers of a backend are busy than jobs.maxConcurrent allows,   *)
(* also if it crashes during starts and launches are lost                  *)
(* (job-store.ts:153-159).                                                 *)
THEOREM CapacityAlwaysRespected ==
  ASSUME Alone, PromptWorkers
  PROVE  Spec => []CapacityRespected
<1>1. IInv /\ CapacityInv /\ [Next]_vars => CapacityInv'
  BY CapacityNext
<1>2. IInv /\ CapacityInv => CapacityRespected
  <2>. SUFFICES ASSUME IInv, CapacityInv PROVE CapacityRespected
    OBVIOUS
  <2>1. {j \in Job : worker[j] \in Alive} \subseteq Placed
    <3>. SUFFICES ASSUME NEW j \in Job, worker[j] \in Alive PROVE j \in Active
      BY DEF Placed
    <3>1. JobInv(j) /\ Punctual(j) /\ Underway(j)
      BY DEF IInv, CapacityInv, Underway
    <3>2. State(j) \in {"starting", "running"}
      BY <3>1 DEF JobInv, Progress, Alive
    <3>3. State(j) = "starting" => age[j] = "new"
      BY <3>1 DEF Punctual
    <3>. QED  BY <3>2, <3>3 DEF Active, Records, Observed
  <2>. QED  BY <2>1, Smaller, LimitsAreNumbers DEF CapacityInv, CapacityRespected
<1>. QED  BY <1>1, <1>2, CapacityInit, Invariance, PTL DEF Spec

-----------------------------------------------------------------------------
(* Budget.                                                                 *)

(* What is said of a job in it.                                            *)
Kept(j) ==
  /\ Matched(j)' /\ Charged(j)'
  /\ (j \in Reserved \/ dir[j].output = "full")' => j \in Held

(* It is enough that no job is charged anew that was not admitted.         *)
LEMMA HeldShrinks ==
  ASSUME BudgetInv, \A j \in Job : Kept(j), \A s \in Store : Surveyed(s)',
         \A s \in Store : call'[s].step \in {"reserve", "record"} =>
           call[s].step \in {"reserve", "record"} /\ call'[s].job = call[s].job
  PROVE  BudgetInv'
<1>1. Held' \subseteq Held
  <2>1. Admitted' \subseteq Admitted
    BY DEF Admitted
  <2>2. Reserved' \subseteq Held /\ {j \in Job : dir'[j].output = "full"} \subseteq Held
    BY DEF Kept, Reserved, Records
  <2>. QED  BY <2>1, <2>2 DEF Held
<1>2. IsFiniteSet(Held') /\ Cardinality(Held') <= MaxStoredOutputs
  BY <1>1, Smaller, LimitsAreNumbers DEF BudgetInv
<1>. QED  BY <1>2 DEF BudgetInv, Kept

(* The charge of a job does not change with what is not about it.          *)
SameCharge(j) ==
  /\ dir'[j].record = dir[j].record /\ dir'[j].output = dir[j].output
  /\ result'[j] = result[j] /\ (worker'[j] = "written" => worker[j] = "written")
  /\ Doomed(j) => Doomed(j)'
LEMMA SameChargeKeeps ==
  ASSUME BudgetInv, NEW j \in Job, SameCharge(j)
  PROVE  Kept(j)
<1>1. j \in Reserved' <=> j \in Reserved
  BY DEF SameCharge, Reserved, Records, State
<1>. QED  BY <1>1 DEF BudgetInv, SameCharge, Kept, Matched, Charged, Held

(* A sweep in progress depends on the directories that exist.              *)
LEMMA SameSurvey ==
  ASSUME BudgetInv, \A s \in Store : call'[s].sweep = call[s].sweep /\ (call'[s].step # "sweep" => call'[s].sweep = {}),
         \A j \in Job : dir[j].exists => dir'[j].exists, IInv
  PROVE  /\ \A s \in Store : Surveyed(s)'
         /\ \A j \in Job : Doomed(j)' <=> Doomed(j)
<1>1. \A s \in Store : \A e \in call[s].sweep : e.job \in Job
  BY SweptEntry
<1>2. \A j : Doomed(j)' <=> Doomed(j)
  BY DEF Doomed
<1>. QED  BY <1>1, <1>2 DEF BudgetInv, Surveyed

LEMMA WorkerKeepsBudget ==
  ASSUME IInv, BudgetInv, NEW j \in Job, WorkerStep(j) \/ WorkerDies(j)
  PROVE  BudgetInv'
<1>1. /\ call' = call /\ worker[j] \in Alive \cup {"launched"} /\ dir'[j].exists = dir[j].exists
      /\ \A k \in Job \ {j} : dir'[k] = dir[k] /\ worker'[k] = worker[k] /\ result'[k] = result[k]
  BY WorkerMoves
<1>2. (\A s \in Store : Surveyed(s)') /\ \A k \in Job : Doomed(k)' <=> Doomed(k)
  <2>1. \A s \in Store : call'[s].step # "sweep" => call'[s].sweep = {}
    BY <1>1 DEF BudgetInv, Surveyed
  <2>. QED  BY <1>1, <2>1, SameSurvey
<1>3. \A k \in Job \ {j} : SameCharge(k)
  BY <1>1, <1>2 DEF SameCharge
<1>4. j \in Reserved /\ Matched(j) /\ Charged(j)
  <2>1. State(j) \in {"starting", "running"}
    BY <1>1 DEF IInv, JobInv, Progress, Alive
  <2>. QED  BY <2>1 DEF BudgetInv, Reserved, Records, Terminal
<1>5. j \in Held
  BY <1>4 DEF Held
<1>6. CASE dir' = dir /\ worker'[j] # "written"
  <2>1. j \in Reserved'
    BY <1>4, <1>6 DEF Reserved, Records, State
  <2>. QED  BY <1>1, <1>2, <1>3, <1>5, <1>6, <2>1, SameChargeKeeps, HeldShrinks DEF Kept, Matched, Charged
<1>7. CASE worker'[j] = "checking" /\ State(j)' = "running"
  <2>1. j \in Reserved'
    BY <1>7 DEF Reserved, Records, Terminal
  <2>. QED  BY <1>1, <1>2, <1>3, <1>5, <1>7, <2>1, SameChargeKeeps, HeldShrinks DEF Kept, Matched, Charged
<1>8. CASE /\ worker'[j] = "written" /\ result' = result
           /\ dir'[j].record = dir[j].record /\ (dir'[j].output = "full" => result[j].size = 1)
  <2>1. j \in Reserved'
    BY <1>4, <1>8 DEF Reserved, Records, State
  <2>. QED  BY <1>1, <1>2, <1>3, <1>5, <1>8, <2>1, SameChargeKeeps, HeldShrinks DEF Kept, Matched, Charged
<1>9. CASE /\ worker[j] = "written" /\ worker'[j] = "exited" /\ State(j)' \in Terminal
           /\ dir'[j].record.size = result[j].size /\ dir'[j].output = dir[j].output
  <2>1. dir'[j].output = "full" => j \in Reserved'
    BY <1>4, <1>9 DEF Matched, Reserved, Records, Terminal
  <2>. QED  BY <1>1, <1>2, <1>3, <1>5, <1>9, <2>1, SameChargeKeeps, HeldShrinks DEF Kept, Matched, Charged
<1>. QED  BY <1>6, <1>7, <1>8, <1>9, WorkerMoves

(* A sweep that takes an entry away leaves the others.                     *)
LEMMA EntriesLeft ==
  ASSUME IInv, BudgetInv, NEW s \in Store, NEW e \in call[s].sweep, Swept(s, e)
  PROVE  /\ \A t \in Store : /\ call'[t].step = call[t].step /\ call'[t].job = call[t].job
                            /\ call'[t].sweep \subseteq call[t].sweep
                            /\ \A f \in call[t].sweep : f = e \/ f \in call'[t].sweep
         /\ \A j : Doomed(j)' => Doomed(j)
         /\ \A j : Doomed(j) /\ (e.job # j \/ ~e.purge) => Doomed(j)'
<1>1. \A t \in Store : /\ call'[t].step = call[t].step /\ call'[t].job = call[t].job
                      /\ call'[t].sweep \subseteq call[t].sweep
  BY EntrySwept
<1>2. \A t \in Store : \A f \in call[t].sweep : f = e \/ f \in call'[t].sweep
  <2>. DEFINE c == [call[s] EXCEPT !.sweep = @ \ {e}]
  <2>1. call' = [call EXCEPT ![s] = c] /\ c.sweep = call[s].sweep \ {e}
    BY DEF Swept, IInv, TypeOK, CallType
  <2>. HIDE DEF c
  <2>. QED  BY <2>1 DEF IInv, TypeOK
<1>3. \A j : Doomed(j)' => Doomed(j)
  BY <1>1 DEF Doomed
<1>4. \A j : Doomed(j) /\ (e.job # j \/ ~e.purge) => Doomed(j)'
  BY <1>2 DEF Doomed
<1>. QED  BY <1>1, <1>2, <1>3, <1>4

LEMMA SweepKeepsBudget ==
  ASSUME IInv, BudgetInv, NEW s \in Store, NEW e \in call[s].sweep,
         PurgeFile(s, e) \/ PurgeDirectory(s, e) \/ ExpireOutput(s, e) \/ ExpireRecord(s, e)
  PROVE  BudgetInv'
<1>0. PICK j \in Job : j = e.job
  BY SweptEntry
<1>1. /\ UNCHANGED <<worker, result>> /\ worker[j] = "exited"
      /\ \A k \in Job \ {j} : dir'[k] = dir[k]
      /\ State(j)' \in Terminal \cup {"none"}
      /\ \A t \in Store : call'[t] = call[t] \/ call'[t].step \in {"idle", "sweep"}
  BY <1>0, SweepMoves
<1>2. Matched(j)'
  BY <1>1 DEF Matched
<1>3. \A t \in Store : \A f \in call[t].sweep : f.job \in Job
  BY SweptEntry
<1>4. CASE /\ call' = call /\ e.purge /\ dir'[j].exists = dir[j].exists
           /\ dir'[j].record = NoRecord /\ dir'[j].output = dir[j].output
  <2>1. (\A t \in Store : Surveyed(t)') /\ \A k \in Job : Doomed(k)' <=> Doomed(k)
    <3>1. \A t \in Store : call'[t].step # "sweep" => call'[t].sweep = {}
      BY <1>4 DEF BudgetInv, Surveyed
    <3>. QED  BY <1>1, <1>4, <3>1, SameSurvey
  <2>2. Doomed(j) /\ j \notin Reserved'
    BY <1>0, <1>4 DEF Doomed, Reserved, Records, State, NoRecord
  <2>3. Kept(j)
    BY <1>2, <1>4, <2>1, <2>2 DEF Kept, Charged, Held
  <2>4. \A k \in Job \ {j} : SameCharge(k)
    BY <1>1, <2>1 DEF SameCharge
  <2>. QED  BY <1>4, <2>1, <2>3, <2>4, SameChargeKeeps, HeldShrinks
<1>5. CASE /\ call' = call /\ dir'[j].exists = dir[j].exists
           /\ dir'[j].record = dir[j].record /\ dir'[j].output = "none"
  <2>1. (\A t \in Store : Surveyed(t)') /\ \A k \in Job : Doomed(k)' <=> Doomed(k)
    <3>1. \A t \in Store : call'[t].step # "sweep" => call'[t].sweep = {}
      BY <1>5 DEF BudgetInv, Surveyed
    <3>. QED  BY <1>1, <1>5, <3>1, SameSurvey
  <2>2. Kept(j)
    BY <1>2, <1>5 DEF Kept, Charged, Held, Reserved, Records, State
  <2>3. \A k \in Job \ {j} : SameCharge(k)
    BY <1>1, <2>1 DEF SameCharge
  <2>. QED  BY <1>5, <2>1, <2>2, <2>3, SameChargeKeeps, HeldShrinks
<1>6. CASE /\ Swept(s, e) /\ dir'[j].output = "none" /\ j \notin Reserved'
           /\ e.purge \/ dir'[j].exists = dir[j].exists
  <2>1. Kept(j)
    BY <1>2, <1>6 DEF Kept, Charged
  <2>2. \A k \in Job \ {j} : SameCharge(k)
    BY <1>0, <1>1, <1>6, EntriesLeft DEF SameCharge
  <2>3. ASSUME NEW t \in Store PROVE Surveyed(t)'
    <3>1. ASSUME NEW f \in call'[t].sweep, ~f.purge PROVE dir'[f.job].exists /\ ~Doomed(f.job)'
      <4>1. f \in call[t].sweep /\ f.job \in Job
        BY <1>3, <1>6, <3>1, EntriesLeft
      <4>2. dir[f.job].exists /\ ~Doomed(f.job)
        BY <3>1, <4>1 DEF BudgetInv, Surveyed
      <4>3. e.purge => f.job # j
        BY <1>0, <4>2 DEF Doomed
      <4>. QED  BY <1>1, <1>6, <4>1, <4>2, <4>3, EntriesLeft
    <3>2. call'[t].step # "sweep" => call'[t].sweep = {}
      BY <1>6, EntriesLeft DEF BudgetInv, Surveyed
    <3>. QED  BY <3>1, <3>2 DEF Surveyed
  <2>4. \A t \in Store : call'[t].step = call[t].step /\ call'[t].job = call[t].job
    BY <1>6, EntriesLeft
  <2>. QED  BY <2>1, <2>2, <2>3, <2>4, SameChargeKeeps, HeldShrinks
<1>7. dir'[j] = NoDirectory => dir'[j].output = "none" /\ j \notin Reserved'
  BY DEF NoDirectory, NoRecord, Reserved, Records, State
<1>8. dir'[j].record.size = 0 => j \notin Reserved'
  BY <1>1 DEF Reserved, Records
<1>9. ~e.purge => dir[j].exists
  BY <1>0 DEF BudgetInv, Surveyed
<1>. QED  BY <1>0, <1>4, <1>5, <1>6, <1>7, <1>8, <1>9, SweepMoves

LEMMA StartKeepsBudget ==
  ASSUME IInv, BudgetInv, NEW s \in Store, Reserve(s) \/ (\E h \in Hash : Record(s, h)) \/ Launch(s)
  PROVE  BudgetInv'
<1>0. PICK j \in Job : j = call[s].job
  BY StartMoves
<1>1. /\ \A t \in Store \ {s} : call'[t] = call[t]
      /\ result' = result /\ \A k \in Job \ {j} : dir'[k] = dir[k] /\ worker'[k] = worker[k]
  BY <1>0, StartMoves
<1>2. call[s].step # "sweep" /\ call[s].sweep = {} /\ NoCall.sweep = {} /\ NoCall.step = "idle"
  BY DEF Reserve, Record, Launch, At, BudgetInv, Surveyed, NoCall
<1>3. call'[s].sweep = {} /\ (dir[j].exists => dir'[j].exists)
  BY <1>0, <1>2, StartMoves
<1>4. (\A t \in Store : Surveyed(t)') /\ \A k \in Job : Doomed(k)' <=> Doomed(k)
  <2>1. \A t \in Store : call'[t].step # "sweep" => call'[t].sweep = {}
    BY <1>1, <1>3 DEF BudgetInv, Surveyed
  <2>2. \A t \in Store : call'[t].sweep = call[t].sweep
    BY <1>1, <1>2, <1>3
  <2>. QED  BY <1>1, <1>3, <2>1, <2>2, SameSurvey
<1>5. \A k \in Job \ {j} : SameCharge(k)
  BY <1>1, <1>4 DEF SameCharge
<1>6. CASE /\ dir'[j].record = dir[j].record /\ dir'[j].output = dir[j].output
           /\ worker'[j] = "written" => worker[j] = "written"
  <2>1. SameCharge(j)
    BY <1>1, <1>4, <1>6 DEF SameCharge
  <2>2. call'[s].step \in {"reserve", "record"} => call[s].step \in {"reserve", "record"} /\ call'[s].job = call[s].job
    BY <1>0, <1>2, StartMoves
  <2>. QED  BY <1>1, <1>4, <1>5, <2>1, <2>2, SameChargeKeeps, HeldShrinks
<1>7. CASE call[s].step = "record" /\ call'[s].step = "launch" /\ worker' = worker /\ State(j)' = "starting"
  <2>1. worker[j] = "none"
    BY <1>0, <1>7 DEF IInv, StoreInv, Claimed, Owns
  <2>2. j \in Reserved' /\ j \in Held
    BY <1>0, <1>7 DEF Reserved, Records, Terminal, Held, Admitted
  <2>3. Kept(j)
    BY <1>7, <2>1, <2>2 DEF Kept, Matched, Charged
  <2>. QED  BY <1>1, <1>4, <1>5, <1>7, <2>3, SameChargeKeeps, HeldShrinks
<1>. QED  BY <1>0, <1>6, <1>7, StartMoves

(* A start is admitted after its sweep, when nothing is left to be purged. *)
LEMMA AdmitKeepsBudget ==
  ASSUME Alone, IInv, BudgetInv, NEW s \in Store, Admit(s)
  PROVE  BudgetInv'
<1>1. /\ call[s].step = "sweep" /\ call[s].sweep = {} /\ UNCHANGED <<dir, worker, result>>
      /\ (HasRoom /\ Goto(s, "reserve")) \/ Return(s)
  BY DEF Admit, At
<1>2. call'[s].sweep = {} /\ \A t \in Store : t = s
  BY <1>1 DEF Alone, Goto, Return, NoCall, IInv, TypeOK, CallType
<1>3. (\A t \in Store : Surveyed(t)') /\ \A k \in Job : ~Doomed(k) /\ ~Doomed(k)'
  BY <1>1, <1>2 DEF Surveyed, Doomed
<1>4. \A k \in Job : SameCharge(k)
  BY <1>1, <1>3 DEF SameCharge
<1>5. CASE Return(s)
  <2>1. \A t \in Store : call'[t].step = "idle"
    BY <1>2, <1>5 DEF Return, NoCall, IInv, TypeOK
  <2>. QED  BY <1>3, <1>4, <2>1, SameChargeKeeps, HeldShrinks
<1>6. CASE HasRoom /\ Goto(s, "reserve")
  <2>1. call'[s].job = call[s].job
    BY <1>6 DEF Goto, IInv, TypeOK, CallType
  <2>2. Reserved' \subseteq Reserved /\ {k \in Job : dir'[k].output = "full"} \subseteq Reserved
    BY <1>1, <1>3 DEF BudgetInv, Charged, Reserved, Records, State
  <2>3. Held' \subseteq Reserved \cup {call[s].job}
    BY <1>2, <2>1, <2>2 DEF Held, Admitted
  <2>4. IsFiniteSet(Reserved)
    BY Smaller, LimitsAreNumbers DEF BudgetInv, Held
  <2>5. IsFiniteSet(Held') /\ Cardinality(Held') <= MaxStoredOutputs
    BY <1>6, <2>3, <2>4, OneMore, LimitsAreNumbers DEF HasRoom
  <2>. QED  BY <1>3, <1>4, <2>5, SameChargeKeeps DEF BudgetInv, Kept
<1>. QED  BY <1>1, <1>5, <1>6

(* The survey takes every job once, from its directory.                    *)
LEMMA SurveyKeepsBudget ==
  ASSUME Alone, IInv, BudgetInv, NEW s \in Store, NEW j \in Job, Survey(s, j)
  PROVE  BudgetInv'
<1>. DEFINE entries == {[job |-> i, record |-> dir[i].record, purge |-> age[i] = "old"] : i \in {k \in Job : Sweepable(k)}}
            c == [call[s] EXCEPT !.step = "sweep", !.job = j, !.sweep = entries]
<1>1. /\ call' = [call EXCEPT ![s] = c] /\ call[s].step = "idle" /\ UNCHANGED <<dir, worker, result>>
  BY DEF Survey, Submitted, At
<1>2. c.step = "sweep" /\ c.sweep = entries
  BY DEF IInv, TypeOK, CallType
<1>3. \A e \in entries : e.job \in Job /\ Sweepable(e.job) /\ e.purge = (age[e.job] = "old")
  OBVIOUS
<1>. HIDE DEF entries, c
<1>4. \A t \in Store : t = s /\ call'[t].step = "sweep" /\ call'[t].sweep = entries
  BY <1>1, <1>2 DEF Alone, IInv, TypeOK
<1>5. \A k \in Job : ~Doomed(k)
  BY <1>1, <1>4 DEF BudgetInv, Surveyed, Doomed
<1>6. \A k \in Job : SameCharge(k)
  BY <1>1, <1>5 DEF SameCharge
<1>7. ASSUME NEW e \in entries, ~e.purge PROVE dir'[e.job].exists /\ ~Doomed(e.job)'
  <2>1. e.job \in Job /\ State(e.job) \in Terminal /\ age[e.job] # "old"
    BY <1>3, <1>7 DEF Sweepable
  <2>2. dir[e.job].exists
    BY <2>1 DEF IInv, JobInv, Retention, State, NoDirectory, NoRecord, Terminal
  <2>3. \A f \in entries : f.job = e.job => ~f.purge
    BY <1>3, <2>1
  <2>. QED  BY <1>1, <1>4, <2>2, <2>3 DEF Doomed
<1>8. \A t \in Store : Surveyed(t)'
  BY <1>4, <1>7 DEF Surveyed
<1>. QED  BY <1>4, <1>6, <1>8, SameChargeKeeps, HeldShrinks

LEMMA OthersKeepBudget ==
  ASSUME IInv, BudgetInv,
         \/ \E j \in Job : Ages(j) \/ CancelRead(j) \/ CancelWrite(j) \/ PollStarts(j) \/ PollAnswers(j)
         \/ \E s \in Store, j \in Job, h \in Hash : Retrieve(s, j, h)
         \/ UNCHANGED vars
  PROVE  BudgetInv'
<1>1. UNCHANGED <<worker, result, call>>
  BY DEF Ages, CancelRead, CancelWrite, PollStarts, PollAnswers, Retrieve, vars
<1>2. \A k \in Job : dir'[k].record = dir[k].record /\ dir'[k].output = dir[k].output /\ dir'[k].exists = dir[k].exists
  <2>1. ASSUME NEW j \in Job, CancelWrite(j)
        PROVE  \A k \in Job : dir'[k].record = dir[k].record /\ dir'[k].output = dir[k].output /\ dir'[k].exists = dir[k].exists
    <3>1. dir[j] \in DirectoryType
      BY DEF IInv, TypeOK
    <3>. DEFINE d == [dir[j] EXCEPT !.cancel = @ \/ dir[j].exists]
    <3>2. d.record = dir[j].record /\ d.output = dir[j].output /\ d.exists = dir[j].exists /\ dir' = [dir EXCEPT ![j] = d]
      BY <2>1, <3>1 DEF CancelWrite, DirectoryType
    <3>. HIDE DEF d
    <3>. QED  BY <3>2 DEF IInv, TypeOK
  <2>. QED  BY <2>1 DEF Ages, CancelRead, PollStarts, PollAnswers, Retrieve, vars
<1>3. (\A s \in Store : Surveyed(s)') /\ \A k \in Job : Doomed(k)' <=> Doomed(k)
  <2>1. \A s \in Store : call'[s].step # "sweep" => call'[s].sweep = {}
    BY <1>1 DEF BudgetInv, Surveyed
  <2>. QED  BY <1>1, <1>2, <2>1, SameSurvey
<1>4. \A k \in Job : SameCharge(k)
  BY <1>1, <1>2, <1>3 DEF SameCharge
<1>. QED  BY <1>1, <1>3, <1>4, SameChargeKeeps, HeldShrinks

(* Every step keeps it, if the backend does not crash in a sweep.          *)
LEMMA BudgetNext ==
  ASSUME Alone, ~StoresCrash, IInv, BudgetInv, [Next]_vars
  PROVE  BudgetInv'
<1>1. ASSUME NEW s \in Store, StartStep(s) PROVE BudgetInv'
  BY <1>1, AdmitKeepsBudget, StartKeepsBudget, SweepKeepsBudget DEF StartStep
<1>2. \A s \in Store : ~StoreCrashes(s)
  BY DEF StoreCrashes
<1>. QED  BY <1>1, <1>2, SurveyKeepsBudget, WorkerKeepsBudget, OthersKeepBudget DEF Next

LEMMA BudgetInit == Init => BudgetInv
<1>. SUFFICES ASSUME Init PROVE BudgetInv
  OBVIOUS
<1>1. /\ Held = {} /\ \A j \in Job : Matched(j) /\ Charged(j)
      /\ \A s \in Store : Surveyed(s)
  BY DEF Init, NoDirectory, NoRecord, NoCall, Held, Admitted, Reserved, Records, State, Matched, Charged, Surveyed
<1>2. IsFiniteSet({}) /\ Cardinality({}) = 0
  BY FS_EmptySet
<1>. QED  BY <1>1, <1>2, LimitsAreNumbers DEF BudgetInv

(* Both limits of one backend hold of what runs and lies on disk, across   *)
(* sweeps, lost launches and workers that die, if it is not killed between *)
(* two removals of a sweep (job-store.ts:147-159).                         *)
THEOREM LimitsAlwaysHold ==
  ASSUME Alone, PromptWorkers, ~StoresCrash
  PROVE  Spec => []LimitsHold
<1>1. IInv /\ BudgetInv /\ [Next]_vars => BudgetInv'
  BY BudgetNext
<1>2. IInv /\ BudgetInv => BudgetHolds
  <2>. SUFFICES ASSUME IInv, BudgetInv PROVE BudgetHolds
    OBVIOUS
  <2>1. {j \in Job : dir[j].output = "full" \/ worker[j] \in Alive} \subseteq Held
    <3>. SUFFICES ASSUME NEW j \in Job, worker[j] \in Alive PROVE j \in Reserved
      BY DEF Held
    <3>1. State(j) \in {"starting", "running"}
      BY DEF IInv, JobInv, Progress, Alive
    <3>. QED  BY <3>1 DEF Reserved, Records, Terminal
  <2>. QED  BY <2>1, Smaller, LimitsAreNumbers DEF BudgetInv, BudgetHolds
<1>3. Spec => []BudgetInv
  BY <1>1, BudgetInit, Invariance, PTL DEF Spec
<1>4. Spec => []CapacityRespected
  BY CapacityAlwaysRespected
<1>5. CapacityRespected /\ BudgetHolds => LimitsHold
  BY DEF LimitsHold
<1>. QED  BY <1>2, <1>3, <1>4, <1>5, Invariance, PTL

=============================================================================
