# Formal models of chatgpt-mcp

TLA+ models of the parts of chatgpt-mcp whose correctness lies in the order of
events: admission, the hot-swap router in front of the backends, the durable job
ledger, the proxy to other MCP servers, the local and remote execution of
commands, the file tools, and the scripts that deploy and recover it all. Each
module is written from the code it names, TLC checks small instances, and TLAPS
proves the safety properties of all of them for every value of the constants.

## 1. The system

An MCP server gives a language model tools on a computer (files, shell,
applications, screen recordings, durable jobs). One machine runs

- a **router** process, which stays up behind the public port. It keeps a
  registry of *generations* (backend releases), one of them active, and forwards
  each request to one generation;
- one or more **backend** processes, each an HTTP server that executes tools
  through an admission controller and an adapter, and may offer the tools of
  other MCP servers through a proxy;
- **worker** processes, one per durable job, detached from the backend that
  launched them;
- a **recovery** timer and **deployment** scripts, which act on the router
  through its control socket and exclude each other by one lock.

| Component | State | Operations | Hard behaviour |
|---|---|---|---|
| Admission controller (`src/concurrency.ts`) | two queues, six counters of running work, event counters | `run`, queue timer, abort (early, waiting, running), end of a call, `drain` | a wakeup lost, a caller overtaken, a slot leaked, an event for an entry that has gone |
| Hot-swap router (`src/hotswap/router.ts`) | registry in memory and in a file, promise chain of changes, retiring set, in-flight counts, cancellation map | register, rebind, activate, rollback, retire; forward, answer, cancel | a request routed while a retirement awaits; a write with unknown outcome; restarts |
| Backend, routing side (`src/http-server.ts`) | incarnation, fence, running exchanges, owned resources | accept or refuse, fence, complete, abort | the fence against a request under way; a restart at the same address |
| Job ledger (`src/execution/job-store.ts`, `job-worker.ts`) | a directory per operation: record, cancel request, output | `start` with its sweep, `status`, `cancel`; worker: claim, report, execute, record | two stores and many workers that meet only in the file system; crashes; a lost launch |
| MCP proxy (`src/proxy/*.ts`) | per upstream: client, catalogue and its expiry, shared discovery, active calls; registered names | discover, call, refresh, notification, close | invalidation during a discovery; a session lost or closed under a call |
| Bounded process (`src/execution/bounded-process.ts`, `systemd-isolated-process.ts`) | flags, one timer, pipes, process group; transient unit, environment file | spawn, deadline, abort, limit, close, cleanup | races of outcomes; descendants that outlive the leader |
| Kubernetes executor (`src/execution/kubernetes-executor.ts`) | shared reap, parity, a pod per command | create, transfer, verify, prepare, run, clean up, reap | a pod that nobody removes, or that is removed under a command |
| Owned resources (`src/adapter/local-computer-adapter.ts`) | maps of applications and recordings | launch, close, start and stop of a recording | limits checked before an await; a recorder that survives |
| File tools (same file, `src/policy/filesystem.ts`, `src/execution/atomic-file.ts`) | the files; a lock chain per path | write, mkdir, move, delete, replace | rules checked before an await; another writer between compare and rename |
| Routing adapter, command policies (`src/adapter/routing-computer-adapter.ts`, `src/policy/*.ts`) | none | classify, authorise, choose an executor | a check that one way skips |
| Recovery (`scripts/recovery.py`) | ledger of restarts and incidents, incident files | tick | a crash between save and restart; a damaged ledger; clock steps |
| Deployment (`scripts/deploy-hot.py`, `hot_control.py`) | deployment record, selection files, maintenance plan, halted traffic | stage, register, activate, select, maintain, roll back | a lost answer; a kill between two writes; a guard that fires late |

How they interact. The router's retirement asks the backend to fence itself and
then drops it; the backend refuses once fenced, counts its exchanges, and reports
what its adapter owns. Every tool call of a backend passes the admission
controller; its command then goes to the host or to a pod. `exec.start` reserves a
directory that any other backend sees. Recovery and deployment change the
registry through the router, by compare-and-swap on its epoch; a maintenance
replaces the router's files while it is stopped.

What makes each correct. *Admission*: limits and reserves hold of what really
runs, order within a class, control first, no waiting entry that could start.
*Router*: an acknowledged decision survives failures and restarts, a request runs
at most once and in the process it was routed to, retirement strands nothing, the
caller is told the truth. *Ledger*: one request, at most one execution and one
outcome per operation; limits; outputs kept for their time. *Proxy*: a call goes
only to the live session that offers its tool; slots are exact; nothing survives
`close()`. *Execution*: every command returns, its outcome happened, nothing of
it is left behind. *Files*: a replacement overwrites what its caller expects,
frozen entries stay. *Recovery*: the restart budget is never exceeded and the
circuit closes again. *Deployment*: no backend that may be asked for is stopped;
the policy changes only behind halted traffic, and what was committed is not taken
back by its own guard.

## 2. Modules

| Module | Models |
|---|---|
| `Admission` | class `ConcurrencyController`, one action per handler; the mapping to `SlotPool` |
| `SlotPool` | what admission promises: slots, and an order of the calls of a class that wait; no queues or loop |
| `MCAdmission` | instance |
| `QueueLemmas`, `Admission_proofs` | lemmas about sequences; the theorems |
| `HotSwapRouter`, `MCHotSwapRouter` | router control and data plane with the backends behind them, and the mapping to `RouterPromise`; instances |
| `RouterPromise` | what the router promises: a compare-and-swap registry, requests bound and run once and answered truly, retirement only of what is unused |
| `HotSwapRouter_proofs` | its safety: decisions, counts, requests, retirement; the refinement of `RouterPromise` |
| `JobLedger`, `MCJobLedger` | stores, worker processes and the shared directory; instances |
| `OperationOnce` | what the ledger promises of one operation identifier |
| `JobLedger_proofs` | outputs, cancellation, the limits, and the refinement of `OperationOnce` |
| `McpProxy`, `MCMcpProxy`, `McpProxy_proofs` | one upstream of the proxy; instance; theorems |
| `BoundedProcess` | one local command, plain or isolated in a systemd unit |
| `KubernetesExecutor` | remote commands, their pods and the shared reap |
| `OwnedResources` | applications and recordings |
| `FileStore` | the file tools and the atomic replacement |
| `ComputerAdapter`, `MCComputerAdapter` | routing and authorisation in front of these four, which it instantiates |
| `ComputerAdapter_proofs` | safety of the four and of the whole |
| `Recovery` | the recovery controller's tick |
| `HotDeployment` | deployer, guard, selections and maintenance |
| `Operations`, `MCOperations` | the two behind their common lock; instance |
| `Recovery_proofs`, `Operations_proofs` | the budget and the incidents; exposed backends, the policy, and both together |

An operator whose name ends in `_Slip` is a plausible bug in the definition that
follows it. It is part of no specification; it documents which bug each property
would find.

### Admission

The controller lives on one event loop, so a handler is one action: `SubmitStarts`,
`SubmitRejected`, `SubmitQueued` and `SubmitAborted` are the four ends of `run()`;
`QueueTimeout` and `AbortQueued` are the timer and the listener of a waiting entry;
`AbortRunning` only counts, as in the code; `Finish` is the finally block. Where the
code calls `drain()`, the handler sets `draining`, and the iterations of the loop
(`DrainControl`, `DrainRegular`, `DrainEnd`) are the only steps until it ends.

### Hot-swap router

A control change is a sequence of steps, because each of its awaits lets requests,
completions and crashes in: `Issue` (a client reads the status and sends a change for
that epoch), `Begin` (its turn: checks, then the call), `ProbeAnswered` or
`BackendFences` and `FenceConfirmed`, then the write as `Rename` and `Acknowledge`.
`CallFails` and `WriteFails` are the error paths; a write may fail before or after
the rename, and the router then adopts what it reads back. The chain `serial`
keeps one change at a time. The data plane is `Arrive`, `Route`, `Reply`, `Fail`,
`Cancel`; the backend's is `Deliver`, `Complete`, `Drop`. `RouterRestarts` and
`BackendRestarts` can happen at any time.

Assumed: an abandoned fence call is processed by the backend before the router's next
call reaches it; requests reach a backend only through the router. Left out:
generations adopted from a legacy process, the authentication of callers and handles
(a handle names the generation that launched it), rewriting of event streams, the
orderly shutdown.

### Job ledger

`start()` is followed await by await: `Retrieve` if the record exists, else `Survey` (the
first list, which fixes what the sweep does), `PurgeFile`/`PurgeDirectory` and
`ExpireOutput`/`ExpireRecord`, `Admit` (second list and the limits), `Reserve` (the
mkdir), `Record`, `Launch`. A store does one start at a time, as its promise chain
does. The worker is `Claim`, `ReportRunning`, `Execute` or `Withdraw`, `CommandEnds`,
`WriteOutput`, `WriteResult`; it may die anywhere. `Observed` is what `status()` makes of
a record. The worker's timer that looks for a cancellation is `PollStarts` and `PollAnswers`. Time is the age of a record: *new*, *late* (an undecided one is then
unknown, a decided one loses its output), *old* (retention over).

Abstracted: a whole output is one unit or nothing; the request is compared by hash;
reading a record and looking for its worker is one step; `request.json` and `claimed`
are folded into the launched worker, as one launch makes one worker. An identifier is
not used again after its retention (docs/RELIABILITY.md says not to), and nobody submits
an operation while its own record expires.

### MCP proxy

One upstream, as upstreams share only the lifetime of the proxy. `Quiet` states that
JavaScript runs to completion: continuations of a promise come before the next
event. A discovery moves through *connecting*, *listing* page by page, *closing* (its
failure path awaits the transport's close); callers that need the catalogue wait for it
and are woken together (`WakeWaiters`). `SessionLost` is the client's `onclose`,
`ListChanged` its notification, `Expires` the TTL. A call is `Invoke`, then `Send` or
`Refuse` after the checks that follow the wait, then `CallEnds`, or `FailCalls` with the
session. `refresh` is `proxy.refresh`, whose result `Reconcile` registers downstream.
`Close`, `CloseSession`, `CloseEnds` are `close()`. The upstream itself (`OfferChanges`)
is the environment. Names, credentials and result sizes are data.

### The adapter

`ComputerAdapter` first chooses a route. `RouteExec` takes every list of up to two
rules and every set of the attributes the checks ask about (does a pattern match, is the cwd
inside the roots, is the environment allowed, ...), decides as `evaluateCommandPolicy` and
`classifyExec` do, and authorises as `exec` does on that way. A behaviour then follows one
route: the four parts share no variable and no lock, so interleaving them would show
nothing that each does not show alone.

- `BoundedProcess`: the stages of a call (*staging* the environment, *preparing*,
  *running*, *flushing* the spool, *stopping* the unit, *removing* the environment);
  the timer of the escalation, *force* (SIGTERM to SIGKILL) or *pipe* (SIGKILL to giving
  the pipes up); a leader and one descendant, which may keep the pipes (*attached*), drop
  them (*detached*) or leave the group (*escaped*). `SettleClose` and `Report` are the
  settlement and the choice of the outcome. With isolation of the system the leader is sudo,
  which may refuse any signal (`Refusable`); the call then goes on as `signalProcess` does.
- `KubernetesExecutor`: each command goes through the reap it shares, `Create`, `Ready`,
  the two processes of the transfer, `VerifyParity`, `Prepare`, `Run`, `Cleanup`. Aborts,
  broken streams, failed deletes, a create the API server carries out late, pods that
  age and a restart of the backend come in between.
- `OwnedResources`: a launch checks its limit (`Launch`), awaits, and adds its handle
  (`Track`); a child exits at any time; a stop escalates q, SIGINT, SIGTERM, SIGKILL and
  settles; two stops of one recording may overlap.
- `FileStore`: the tools check (`Check`) and act after another await (`WriteFile`,
  `MakeDirectory`, `MovePath`, `DeletePath`); a replacement is `Replace`, its turn in the
  lock chain, `Open`, `Stage`, `Recheck`, `Link` or `Rename`, `Release`; `External` is
  another program. The entries form a tree (`Above`): making, moving and deleting directories
  takes what is above or below an entry along, as `mkdir -p`, `rename` and a recursive delete do;
  what a moved directory holds gets names that no call gives. `uprooted` records the frozen
  directories that went with one above them.

`RouteExec` has no property of its own: one about a single decision would only repeat it.

### Operations

`Recovery` keeps every time stamp as its age, so that time is bounded without a bound
on behaviours: `Advance` makes every stamp older, up to an hour, beyond which all are
alike. A tick is `Begin` (lock, load, clock check), then for each component `Decide`
(the code's pure `decision`, translated whole), `Save`, `Report`, `Act`, and at last
`End`. A tick stamps everything with one reading of the clock, so no time passes in it.
`Abort` kills a tick or fails a save, with or without its effect; `Damage` makes the
ledger unreadable; `StepBack` sets the clock back. `Recent` is the filter of line 48: stamps
are appended in the order of time, so those within the hour are a segment of the list.

`HotDeployment` follows `deploy` (`Stage`, `Record`, `Register`, `Activate`, `Probe`) and
`policy_maintenance` (`Arm`, `HaltTunnels`, `Drain`, `HaltIngress`, `Drain`, `StopRouter`,
`WritePolicy`, `WriteRegistry`, `StartRouter`, `Settle`, `ResumeIngress`, `ResumeTunnels`).
`restore()` takes the same steps with the backup's files, on behalf of the deployer or of
a guard (`Fire`, `TakeLock`, `Check`). Each maintenance has a plan and a guard of its own, which go
by its candidate (`PlanOf`), so the guard of a deployer that was killed or failed may meet later
deployments; `overruled` records the committed candidates that an undoing did not know of. `Fail` is an exception of the step a script is at,
with or without the step's effect; `Kill` ends a script. The router is one value, as
what happens inside it is the matter of `HotSwapRouter`.

`Operations` takes the steps of one of the two: a tick and a deployment exclude each
other by the lock (`recovery.py:294`), and what recovery does to the route is `Select`.

## 3. Runs

| Run | Configuration | States | Shows |
|---|---|---|---|
| `admission_safety` | 5 calls of any class, 3 slots (1 for control), 2 local shell (1 interactive), 1 remote, queue of 2 | 50 thousand | safety and action properties, and the refinement of `SlotPool` |
| `admission_commands` | 3 calls, 2 slots | 10 thousand | a waiting call is served or leaves, with no help of its timer |
| `router_control` | 2 controllers, 2 generations, 2 incarnations each, 1 request, 2 changes, unreadable registry | 0.6 million | decisions on disk and in memory, no lost update, requests run once and where bound, answers true |
| `router_requests` | 3 generations, a launch and a follow-up, 3 changes | 1.4 million | counters, fence, retirement, and the refinement of `RouterPromise` |
| `ledger_shared` | 2 stores that may crash, 2 operations, 2 requests | 1.8 million | refinement of `OperationOnce`, outputs kept, early cancellation |
| `ledger_limits` | 1 store, 3 operations, 1 concurrent, 3 records, 2 outputs | 0.3 million | the limits hold of what is on disk and running; every job is decided unless its worker is killed |
| `proxy` | 2 calls, 2 tools (1 allowed) on 2 pages, 2 session identities, 1 slot, 1 change | 29 thousand | slots, sessions, honest sends, everyone answered |
| `adapter` | 2 remote commands, 2 applications, 1 recording, 2 stoppers, limit 1, 7 paths, 2 replacements, 1 edit, 1 crash, 1 further reap | 0.15 million | nothing left behind, outcomes true, limits, replacement, frozen entries, everything returns |
| `operations` | 1 tunnel, budget of 2, 1 fault, clock back by up to 2 units; 3 generations, 2 policies, any number of faults | 1.0 million | budget, incidents, circuit, exposed backends, policy |
| `router_rebound_header` | 1 request, a rebind | violation | see below |
| `proxy_notice` | as `proxy` | violation | see below |
| `maintenance_fails` | as `operations`, deployment only, the router may not come up | violation | see below |

Why the bounds suffice.

- *Admission*: with three slots, one of them reserved, five calls fill the pools and
  leave a control call and another call waiting together, the smallest situation in
  which priority, order and the reserves can be violated; two local shell slots make the
  interactive reserve differ from the whole; a queue of two can be full with one entry of
  each class.
- *Router*: with three generations there is an active one, a rollback target and one to
  retire; two requests are a launch and a request bound to its handle; two controllers
  produce stale epochs; one restart (`MaxInc`) separates the first incarnation from the
  bound one. `MaxEpoch` bounds the changes.
- *Ledger*: two stores race for one operation and sweep each other's directories; three
  operations exceed the limits of concurrency and output.
- *Proxy*: two calls compete for one slot and one discovery; two pages put a change
  between them; one tool is offered and not allowed; two identities tell a session from its
  successor (a forgotten one may be used again).
- *Adapter*: two commands share a reap; two applications and a limit of one race; two
  stops meet on one recording; the paths include a frozen directory's file, an absent
  entry in it, one in a nested directory, and two outside; two replacements queue on one
  path while another tool or program changes it. The frozen directory lies in another one, which the
  tools may move or delete.
- *Recovery*: an hour of three units, a cooldown of one that doubles to two, and a budget
  of two let restarts age out one by one; a clock set back by two is believed or not,
  depending on the last tick. One fault per behaviour: every property is about what one
  interruption loses.
- *Deployment*: of three generations one serves, and two have another policy, so that two
  deployments may each make a maintenance and leave a guard, or the second meet the policy the
  first has committed. Kills and failures are not bounded. Four generations, two of each policy,
  show the same in four minutes.

Symmetry is used for calls, stores, operations and controllers, only in runs without
liveness. Deadlock checking is off because every system here may come to rest: all calls
settled, the bound on changes reached, all operations decided.

Fairness. `admission_commands`: the drain loop continues (it is synchronous code) and
each running call ends (commands have a time limit); nothing is assumed of timers.
`ledger_limits`: awaits of a start end, and so do a worker's steps; nothing is assumed of
deaths or time. `proxy`: a discovery's awaits end (each has a timeout) and so do calls that
were sent; strong fairness, because steps that must run to completion disable both for a
moment. `adapter`: the process's own timers fire and the call goes on; processes are never
obliged to exit. A reap, a remote command's awaits (bounded by timeouts) and a killed
stream end; a stop's waits end. `operations`: the timer starts ticks and a tick goes on unless killed
(weak); time passes between ticks, however many there are (strong); scripts go on, timers
fire, calls in the router end. No run assumes that a failure stops happening.

### Disagreements with the documentation

Three runs end with a violation of one property the documentation states.

- `router_rebound_header`: after a *rebind* (a backend restarted at its address and
  the registry was told so) the control plane expects the new incarnation, but the
  data plane still asks for the generation's first one (`router.ts:307`), so the live
  and correctly bound backend refuses every request of its generation.
- `proxy_notice`: a `list_changed` notification that arrives between two pages of a
  discovery marks the cache stale, and the end of that discovery (`manager.ts:150`) marks
  it fresh again, with earlier pages from before the change.
- `maintenance_fails`: when the router does not come up with the new policy's files,
  `restore()` waits for it to be idle, which raises (`deploy-hot.py:550`, before the
  `try`). The inline rollback fails so, and the guard later in the same way: the old files
  are not restored and the traffic stays stopped, unlike docs/specs/HOT-SWAP.md:29.

Others were met while modelling and are not given a run; each can be seen by the change
named here.

- Reap under a command (`kubernetes-executor.ts:295`): pods older than `ttlSeconds` (300 if not
  configured, and as little as 1, `config.ts:166`) are deleted even while a command, which may take
  up to an hour, is at work in them; nothing compares the two. The document says that "orphan cleanup
  must be deterministic by labels/TTL; startup may reap expired owned pods"
  (OPTIONAL-KUBERNETES-EXECUTION.md:212), but such a pod is no orphan. `ReapSparesYoung` says what
  does hold: the reap takes no pod that it did not list as older than that.
- Blind read-back (`router.ts:127-130`, "never continue with a different on-disk routing
  decision", and HOT-SWAP.md:25): when a registry write fails *and* reading it back fails, the
  router goes on with the registry it had, without the active generation. Then
  - it may retire the generation that is active (209): `ActiveServes` fails with
    `BlindReadback = TRUE`;
  - its next change passes the comparison of epochs (154) and is published (174) over what the
    file holds, so that an acknowledged activation is lost, and so is the change whose write failed
    after the rename. `Blind` names that state. `AcknowledgedHolds` says that each publication is one
    decision on top of the file, or, by a blind router, of its memory; `NoLostUpdate` that each is made
    to what its author saw, which in the blind case lacks the active generation.
- Early cancellation (`job-worker.ts:25`, 43-44, against test/jobs.test.ts:76, "cancellation before
  launch prevents execution"): the last look for a cancellation returns at once while a look of the
  timer is under way, and the command is then started although the request was there before the worker
  reported. `EarlyCancelPrevents` names this as its one exception.
- Environment file (`systemd-isolated-process.ts:182`): the environment is staged before the `try`
  of line 185, so a helper that fails or is cut off after it wrote the file leaves it: no removal
  is tried. `NothingOutlives` has it as an exception (*staging*).
- Sudo (`bounded-process.ts:69-71`): with isolation of the system the leader is sudo, which runs as
  root; a signal it refuses is swallowed, or becomes the error of the child, so that the caller of a
  command that timed out is told of an error, and sudo, which may yet start the unit, is left
  behind. `NothingOutlives` excepts it (*kill*).
- Frozen directories (`policy/filesystem.ts:104-124`, against README.md:437, "native MCP filesystem
  mutations reject creation, deletion, rename, or move of a direct entry"): only the frozen directory
  and its own entries are refused. A recursive `fs.delete` (`local-computer-adapter.ts:258`) or an
  `fs.move` of a directory above it passes, and takes the frozen directory with all its entries.
  `FrozenEntriesStay` excepts the directories this happened to.
- Guard left over (`deploy-hot.py:512-531`, 534-546, against the comment at 627-630): a guard reads
  the plan of its own maintenance only. If its deployer was killed before it committed, a second
  deployment may make its own maintenance and commit it, and the first guard, when its timer fires,
  restores files from before both: it takes back the policy the second one committed, and every
  activation since. `PolicyHolds` says that nothing else does: whoever takes back a committed
  deployment is the guard of another one that was not decided.
- Slow workers (`job-store.ts:97`): a worker that reports later than thirty seconds after its
  record is not counted. `LimitsHold` fails with `PromptWorkers = FALSE`.
- Crashed sweep (`job-store.ts:147`): a backend that dies between the removal of an expired
  record and of its output leaves output that nothing counts. `LimitsHold` fails with
  `StoresCrash = TRUE`. Likewise with two stores, which both list before either reserves;
  docs/RELIABILITY.md does not promise the limits across backends.
- Concurrent launches (`local-computer-adapter.ts:430`, 581, README.md:320) may exceed the
  limits on applications and recordings; `LimitUnlessRaced` excludes launches that
  overlapped. A finished recording that nobody stops keeps its slot.
- A cancelled create (`kubernetes-executor.ts:336`) may leave a pod until its TTL
  (`LateCreate`).
- Clock (`recovery.py:303`: "Backwards wall-clock jumps invalidate timers, but never erase
  restart budgets."): a clock set back within the tolerance of line 304, or after a tick
  that died before it saved `lastTick`, makes recorded restarts lie in the future, and line
  48 drops them. `BudgetRespected` therefore excludes behaviours in which the clock was
  set back.
- Damaged ledger (`recovery.py:277-288`): its successor knows of no incident, so the file of an
  incident open at the time stays open for ever. `IncidentsSettle` is about incidents the
  ledger knows.
- Maintenance, beside the run: the `finally` of `restore()` lets traffic go on even when one
  of its writes failed, so that the next `ensure_router` may serve a mixture of old and new
  files; the first `ensure_router` of `deploy()` (line 424) runs outside the lock and may start the
  router between two writes of the guard; a deployer that is killed between its commit and the
  resumption, or whose commit fails after the rename, leaves the traffic stopped, as the guard
  finds the plan committed; a call longer than both drains does the same.

## 4. Proofs

Everything is proved from the named assumptions on the constants, and from the hypotheses
a theorem itself states; there is no bound in a theorem but those the model puts in its
constants (`MaxEpoch`, `MaxInc`, `MaxReaps` and so on), and these may be any number. Every
safety property that a run checks is a theorem.

### Admission (`Admission_proofs`)

For every finite set of calls and all limits the configuration accepts
(`LimitsAssumption`, from the schema in `src/config.ts`): `CountersAlwaysExact` (with
the types), `NoLostWakeup`, `LimitsAlwaysHold` (from `LimitsRespected` and
`ReservesRespected`), `FirstComeFirstServed`, `ControlHasPriority`, `OutcomesAreFinal`, and `PromiseAlwaysKept`,
the refinement of `SlotPool`.

All follow from one inductive invariant, `IInv` (theorem `Invariance`): types;
`QueuesExact` (every waiting call is in exactly one queue, that of its class, once, and
the queues hold nothing else); `ActiveIsExact`; `CountersWithinLimits`; and
`NoStartableWaiter`. None of the stated properties is inductive alone. The
limits need the counters to be exact, or a completion could vacate a pool that its
call never occupied; exactness needs to know that a call taken from a queue was not
running; and the order properties rest on `NoStartableWaiter`: `run()` starts a call
without looking at the queues, which is fair only because nothing that waits could have
started. That in turn holds because every handler that frees a slot or removes an entry
drains before any other handler can run, and because a call that is queued or starts
leaves less room than before. `QueueLemmas` holds the facts about appending to and removing
from a sequence without repetition, `OccupyKeeps` and `VacateKeeps` the change of each
counter with the set it counts.

`SlotPool` has one set of waiting calls for each class and an order on it, the code two queues that
hold four classes. The mapping takes the order from the positions (`Ahead`), and the refinement
asks what each change of a queue does to it: an append puts the new call behind every call of
its class (`AppendOrder`), a removal takes out the pairs of the call removed and no other
(`RemoveAtOrder`, `LeaveLine`). The condition `canStart()` reads off the counters is `SlotPool`'s
(`FitsIs`, by `ActiveIsExact`), and the first entry that `drain()` finds startable is the first of its
class (`StartsInOrder`), as every entry of the same class before it would have been startable too.

### Job ledger (`JobLedger_proofs`)

For any number of stores, operations and requests: `OutcomesHaveOutputs` (types, and a recorded
outcome has its output while it is kept), `EarlyCancelsPrevent` (an operation cancelled
before its worker reported is never executed, but while a poll is under way), and `LedgerKeepsOnce`, the refinement: every
step of a start, a sweep, a worker or a cancel call is a step of `OperationOnce` or a stutter.

`IInv` is `TypeOK`, `JobInv` of each operation (`Progress`: what record, output, result, runs and
worker together can be; `Retention`: what age allows to be removed; `Withdrawal`: a stopped
operation's cancel request is on disk until its worker has looked) and `StoreInv` of each store
(`Entries`: what a surveyed entry still says of its operation; `Claimed`: the directory it
reserved is its own; `Exclusive`: no other store's call is past the reservation of the same
operation). The refinement needs all three: a sweep writes back a record it read some awaits
ago, which is harmless only because a record in an outcome never changes but to expire; and a
launch makes one worker only because the mkdir made the directory one store's.

Two more theorems are about the limits. `LimitsAlwaysHold` says that they hold of what runs
and lies on disk (`LimitsHold`), and `CapacityAlwaysRespected` that the first of them holds even
when the backend crashes in the middle of starts and sweeps. Their hypotheses are the
disagreements of section 3, no more: `Alone` (one store), `PromptWorkers` (a worker reports within
thirty seconds) and, for the output budget only, `~StoresCrash`. The difficulty is that the
decision is taken on a list read two awaits earlier and on records, while the limits are about
workers and files. `CapacityInv` bounds the jobs that are *placed*: those whose record counts as
active, and the one that is admitted but has no record yet. `Punctual` says that a record stays
recent until its worker reports, so that every live worker's job is placed. `BudgetInv` bounds the
jobs that hold output or will (`Held`): an output is charged to its record, or a sweep that goes on
is about to remove it (`Charged`), which is what a crash between two removals destroys.
`WorkerMoves`, `SweepMoves` and `StartMoves` say what each kind of step does to the jobs' records.

### MCP proxy (`McpProxy_proofs`)

For every set of calls, tools, pages and sessions and any slot limit: `ActiveAlwaysExact`
(types; the count is exact and within the limit), `CloseIsFinal` (nothing is open after
`close()`), `CallsAreSentHonestly` (a call is sent only while wanted, to the live session
whose catalogue offers its tool). `IInv` is `TypeOK`, `SessionsExact` (which sessions are open in
which phase), `CatalogueExact` (which session a fresh catalogue came from), `CountExact`, `CallsEnd`
and `ClosedIsQuiet`.

### Hot-swap router (`HotSwapRouter_proofs`)

For any sets of generations, requests and controllers, any registries the router may start
from (well formed, and bound to the first incarnation) and all limits. The proof is in five
layers, each an invariant on top of those before it, because each needs the earlier ones
at every step:

- `ControlInv`: the chain and who has its turn, how far the registries in memory, on disk and
  acknowledged may be apart at each step of a change (`Aligned`), and what a client that has its turn
  knew (`Informed`). From it `AlwaysRoutesAsOnDisk`, `AcknowledgedAlwaysHolds` and `NoUpdateIsLost`: the epoch
  a client saw is compared at its turn, and nothing else changes it before the rename. Both theorems
  include the blind router and say what it overwrites.
- `PlaneInv`: where a request can be in each of its states, and the counters as cardinalities of
  what is really sent or held. From it `CountersAlwaysExact` and `TypeCorrect`.
- `RunInv`: which process ran a request (`Runs`), that what is sent reaches the process it
  was bound to or none (`Reach`), and what a fenced process cannot do (`Sealed`). From it
  `RequestsAlwaysHonest`: a request runs at most once, where it was routed, and a caller told *refused*
  was not served.
- `RetireInv`: a generation that has left the registry has nothing in flight (`Dropped`), and each step
  of a retirement is guarded by what the steps before it found (`Guarded`). From it
  `RetiredAlwaysOwnsNothing` and `ActiveAlwaysServes`. These two assume `~BlindReadback`: without it
  they are false, which is the second disagreement in the list of section 3.
- `LawInv`: what a change found when it began still holds when it is written (`Lawful`), although
  it awaited a probe or a fence in between. The check of `Begin` is about the registry then, and
  `BegunKeepsRegistry` says that only the head of the chain replaces it.

From all five follows `PromiseAlwaysKept`, the refinement of `RouterPromise`, also for
`~BlindReadback`. `RouterPromise` has no chain, probes, fences, counters or file: a change takes effect
in one step, `Decide`, which requires that its author saw the registry it changes and that the
change is lawful in it; a request is bound in one step to a registered generation, and may run
only while that generation is registered. The mapping takes the registry in the file for the one
decided and that in memory for the one served, so that a change is decided at the *rename* (`RenameRefines`),
which is why a write that fails after it must be adopted (`EndRefines`). Where the code cannot see the
abstract guard, an invariant supplies it: the router routes by its memory, but what it
routes to is also in the file unless it is retiring (`OpenIsRegistered`, `RouteRefines`); a backend executes
without asking the router, but what has left the registry is fenced or untouched (`Dropped`,
`Sealed`, used by `DeliverRefines` and `CompleteRefines`); and that nothing is under way where a
retirement is decided (`RetiredUnused`) was established by the fence and by two reads of a counter some
awaits before.

### Adapter (`ComputerAdapter_proofs`)

The four parts share no variable, so each has its own invariant over its own next-state relation,
and `StepOfParts` shows that a step of the whole is a step of one part and a stutter of the others.

- `CommandInv` (bounded process): how far the escalation has come (`Escalated`), what isolation still
  holds at each stage (`Isolated`), with what was tried in vain, and what the flags tell of the outcome (`Told`). From it
  `OutcomeAlwaysHonest`, and the command's share of `NothingAlwaysOutlives`.
- `RemoteInv` (Kubernetes): a pod belongs to a command at work, was abandoned by a backend that
  died, or has been leaked (`Attributed`); what a reap is about to delete is old (`Spared`). From it
  `PodsAlwaysAccounted` and `ReapAlwaysSparesYoung`.
- `OwnedInv`: what lives is in its map or on its way there (`Kept`), and of what is tracked or about to
  be, those that did not overlap another launch are within the limit (`Limited`). From it
  `ResourcesAlwaysAccounted`.
- `FilesInv`: `AlwaysReplacesExpected` rests on the lock chain, `FrozenEntriesAlwaysStay` on what checked calls
  may still do. The chain is a linked list (each replacement waits for the one before it, the lock
  names the last), so `Queued` says that there is a numbering of the calls in which each waits
  for the nearest one before it; each step is proved by giving the new numbering. `Shield` says that
  no call that passed its checks will make an entry of a frozen directory appear or go, unless what it
  names lies above that directory.

The assumptions on the constants say that names are distinct, that the directories above an entry
are a chain, that an entry is there at the start only in a directory, and that the frozen directories
are: while one is missing, the code refuses every call its rule could concern (`RulesExist`).

### Recovery and deployment (`Recovery_proofs`, `Operations_proofs`)

`RecoveryInv` is inductive for every profile list, budget, window and tolerance. `Budgeted` is the heart:
the restarts recorded *cover* the restarts asked for (`Covered`: the k-th latest stamp is no older
than the k-th latest restart), because a restart is asked for only after the ledger that records it
was saved, and time moves both alike; hence the records within the hour cover the restarts within
it, and a budget that is respected by one is respected by the other (`BudgetAlwaysRespected`). `NoneAhead`
says that no stamp lies in the future unless the clock was set back, which the property excludes.

`Filed` is for `IncidentsSettle`. The file of an incident is left open when the tick that resolved it
is killed after it saved the ledger. The next failing observation closes it, unless that tick is
killed as well; and once there are as many such ticks as an incident needs confirmations, the
component's next incident is opened with a file of its own, and nothing closes the old one. The proof
did not go through for any number of faults, and TLC gives this behaviour for two. The property
therefore holds while *fewer steps failed than a new incident needs confirmations* (two by default,
which tolerates one kill; with one confirmation, none). `Closable` is its induction: an open file whose
incident is over has seen fewer failing observations than steps were lost.

`HotInv` says who may be at which step (`Exclusion`: the holder of the lock, and a script that has not
taken it; a candidate has no plan and no guard before its maintenance), and what is halted and planned
while a script is in the middle (`Halting`). With `Named`, the backends named in the files and the plans
are kept, and `DeploymentKeepsExposed` follows. `Lasts` says where the committed candidates are known that
no undoing has taken back: in the file, in the router, and in both files of the plan a deployer works
on, because it was made from these under the lock. So a deployer's own undoing never takes back what
another deployment committed, which is the second half of `PolicyAlwaysHolds`; a guard's may, because its
plan can be older than that commit. `Operations_proofs` then takes the
steps of the two together: a step of one leaves the other's variables alone or is a step it allows
(`RecoveryBeside`).

### Only model-checked

- Liveness (`EveryWaitEnds`, `EveryJobDecided`, `EveryCallAnswered`, `EveryCommandReturns`, `KeepsTrying`),
  which is not in the prover's reach.
- The three properties of the runs that end in a violation are false.

## 5. Plan

What would come next: path policies as operators over small trees, with symbolic links,
compared with a reference definition; and the adoption of a legacy generation, in the router's
registry and in the deployment.

## 6. Not modelled

Configuration, errors, metrics, diagnostics, tool declarations and event-stream rewriting
are functions of data without interleaving, and are tested as such. The release and
installation scripts are linear and run by hand. The legacy bridge is one synchronous
replacement of a listener surrounded by I/O. The key manager client is one bounded call to
an external service. In the modelled components: the text of commands, paths and patterns
(each check is an attribute of a call), the pod's manifest, the probes of the recovery
controller (each is what it concludes), its dry runs, the repair of a router whose
executable was replaced, and rebinding after a reboot. `PROJECT.json` lists each
component with its reason, and every hazard with the properties that cover it.

## 7. Running

    tlc -workers 2 -config AdmissionSafety.cfg MCAdmission
    tlapm Admission_proofs.tla

and likewise for the other pairs listed in `PROJECT.json`. Every run takes about three
minutes or less on two cores; the proofs of the router and the ledger take the longest.
