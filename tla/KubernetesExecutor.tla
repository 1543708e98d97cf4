------------------------- MODULE KubernetesExecutor -------------------------
(***************************************************************************)
(* Remote commands (src/src/execution/kubernetes-executor.ts): each makes  *)
(* a pod of its own, streams the working directory into it, verifies and   *)
(* prepares it, runs the command and deletes the pod, whatever happened.   *)
(* Before all that it reaps pods older than the TTL, at most one reap at a *)
(* time and one per interval, shared by all commands.  The API server may  *)
(* still create a pod whose client was killed, and a delete may fail.      *)
(***************************************************************************)
EXTENDS Integers

CONSTANTS
  Exec,         \* the remote commands
  PinnedImage,  \* the configured image is a digest
  MaxReaps,     \* bound: reaps that become due again
  MaxCrashes    \* bound: restarts of the backend

VARIABLES
  step,       \* where each command is
  pod,        \* its pod: "none", "up", or "late": still to be created
  old,        \* the pods created longer than ttlSeconds ago
  aborted,    \* the commands whose caller has aborted
  stream,     \* the processes of a transfer, tar and remote, still running
  broken,     \* transfers with a killed, failed or oversized stream
  reap,       \* reapInFlight: "none", "listing", "deleting"
  doomed,     \* the listed pods the reap has yet to delete
  recent,     \* lastReapAt is less than the interval ago
  parity,     \* parityVerifiedForPinnedImage
  leaked,     \* history: commands whose cleanup failed or came too early
  due, crashes

pods     == <<pod, old, leaked>>
transfer == <<stream, broken>>
reaper   == <<reap, doomed, recent>>
vars == <<step, pods, aborted, transfer, reaper, parity, due, crashes>>

Working == {"reap", "create", "ready", "transfer", "parity", "prepare", "run", "cleanup"}

TypeOK ==
  /\ step \in [Exec -> Working \cup {"idle", "done", "failed", "lost"}]
  /\ pod \in [Exec -> {"none", "late", "up"}]
  /\ old \subseteq Exec /\ aborted \subseteq Exec /\ leaked \subseteq Exec
  /\ stream \in [Exec -> SUBSET {"tar", "remote"}] /\ broken \subseteq Exec
  /\ reap \in {"none", "listing", "deleting"} /\ doomed \subseteq Exec
  /\ recent \in BOOLEAN /\ parity \in BOOLEAN
  /\ due \in 0..MaxReaps /\ crashes \in 0..MaxCrashes

Init ==
  /\ step = [e \in Exec |-> "idle"] /\ pod = [e \in Exec |-> "none"]
  /\ old = {} /\ aborted = {} /\ leaked = {}
  /\ stream = [e \in Exec |-> {}] /\ broken = {}
  /\ reap = "none" /\ doomed = {} /\ recent = FALSE /\ parity = FALSE
  /\ due = 0 /\ crashes = 0

Moves(e, s) == step' = [step EXCEPT ![e] = s]

(***************************************************************************)
(* The shared reap.                                                        *)
(***************************************************************************)
\* Disabled execution and a request without cwd are refused before the try.
Start(e) ==
  /\ step[e] = "idle"
  /\ \/ Moves(e, "failed") /\ UNCHANGED reaper
     \/ recent /\ Moves(e, "create") /\ UNCHANGED reaper
     \/ /\ ~recent /\ Moves(e, "reap")
        /\ reap' = IF reap = "none" THEN "listing" ELSE reap
        /\ UNCHANGED <<doomed, recent>>
  /\ UNCHANGED <<pods, aborted, transfer, parity, due, crashes>>

Expired(e) == pod[e] = "up" /\ e \in old

\* The end of a reap, good or bad: every command that awaits it goes on.
ReapSettles ==
  /\ reap' = "none" /\ doomed' = {} /\ recent' = TRUE
  /\ step' = [e \in Exec |-> IF step[e] = "reap" THEN "create" ELSE step[e]]

ReapListsAll_Slip ==
  /\ reap = "listing"
  /\ \/ /\ reap' = "deleting" /\ doomed' = {e \in Exec : pod[e] = "up"}
        /\ UNCHANGED <<step, recent>>
     \/ ReapSettles
  /\ UNCHANGED <<pods, aborted, transfer, parity, due, crashes>>
ReapLists ==
  /\ reap = "listing"
  /\ \/ /\ reap' = "deleting" /\ doomed' = {e \in Exec : Expired(e)}
        /\ UNCHANGED <<step, recent>>
     \/ ReapSettles
  /\ UNCHANGED <<pods, aborted, transfer, parity, due, crashes>>

\* Deletes are best effort.
ReapDeletes(e) ==
  /\ reap = "deleting" /\ e \in doomed /\ doomed' = doomed \ {e}
  /\ \/ pod' = [pod EXCEPT ![e] = "none"]
     \/ UNCHANGED pod
  /\ UNCHANGED <<step, old, leaked, aborted, transfer, reap, recent, parity, due, crashes>>

ReapEnds ==
  /\ reap = "deleting" /\ doomed = {} /\ ReapSettles
  /\ UNCHANGED <<pods, aborted, transfer, parity, due, crashes>>

(***************************************************************************)
(* One command.                                                            *)
(***************************************************************************)
\* A client process does its work only for a caller that still waits, and in
\* a pod that is there.
Works(e) == pod[e] = "up" /\ e \notin aborted

\* kubectl create: killed by its deadline or by the caller it may have created
\* the pod all the same, or the API server may do so later.
Create(e) ==
  /\ step[e] = "create"
  /\ \/ /\ e \notin aborted /\ Moves(e, "ready")
        /\ pod' = [pod EXCEPT ![e] = "up"]
     \/ /\ Moves(e, "cleanup")
        /\ \E p \in {"none", "late", "up"} : pod' = [pod EXCEPT ![e] = p]
  /\ UNCHANGED <<old, leaked, aborted, transfer, reaper, parity, due, crashes>>

LateCreate(e) ==
  /\ pod[e] = "late" /\ pod' = [pod EXCEPT ![e] = "up"]
  /\ UNCHANGED <<step, old, leaked, aborted, transfer, reaper, parity, due, crashes>>

\* The pod becomes ready; tar and the client that unpacks are spawned, unless
\* the caller has aborted.
Ready(e) ==
  /\ step[e] = "ready"
  /\ \/ /\ Works(e) /\ Moves(e, "transfer")
        /\ stream' = [stream EXCEPT ![e] = {"tar", "remote"}]
     \/ Moves(e, "cleanup") /\ UNCHANGED stream
  /\ UNCHANGED <<pods, aborted, broken, reaper, parity, due, crashes>>

\* The deadline, the byte limit, an error of a process or of a pipe: both
\* processes get SIGTERM.
StreamBreaks(e) ==
  /\ step[e] = "transfer" /\ e \notin broken /\ stream[e] # {}
  /\ broken' = broken \cup {e}
  /\ UNCHANGED <<step, pods, aborted, stream, reaper, parity, due, crashes>>

\* One of the two closes; with a bad code the transfer will have failed.
StreamCloses(e, c) ==
  /\ step[e] = "transfer" /\ c \in stream[e]
  /\ stream' = [stream EXCEPT ![e] = @ \ {c}]
  /\ \/ broken' = broken \cup {e}
     \/ pod[e] = "up" /\ UNCHANGED broken
  /\ UNCHANGED <<step, pods, aborted, reaper, parity, due, crashes>>

Transferred(e) ==
  /\ step[e] = "transfer" /\ stream[e] = {}
  /\ Moves(e, IF e \in aborted \cup broken THEN "cleanup" ELSE "parity")
  /\ broken' = broken \ {e}
  /\ UNCHANGED <<pods, aborted, stream, reaper, parity, due, crashes>>

\* A pinned image is verified once.
VerifyParity(e) ==
  /\ step[e] = "parity"
  /\ \/ PinnedImage /\ parity /\ Moves(e, "prepare") /\ UNCHANGED parity
     \/ ~(PinnedImage /\ parity) /\ Works(e) /\ Moves(e, "prepare") /\ parity' = PinnedImage
     \/ ~(PinnedImage /\ parity) /\ Moves(e, "cleanup") /\ UNCHANGED parity
  /\ UNCHANGED <<pods, aborted, transfer, reaper, due, crashes>>

\* The preparation commands, none of them if no whenFiles are there.
Prepare(e) ==
  /\ step[e] = "prepare" /\ step' \in {[step EXCEPT ![e] = s] : s \in {"run", "cleanup"}}
  /\ UNCHANGED <<pods, aborted, transfer, reaper, parity, due, crashes>>

Run(e) ==
  /\ step[e] = "run" /\ Moves(e, "cleanup")
  /\ UNCHANGED <<pods, aborted, transfer, reaper, parity, due, crashes>>

\* The finally block: the answer does not depend on whether the delete worked.
CleanupSkipsAborted_Slip(e) ==
  /\ step[e] = "cleanup" /\ Moves(e, "done")
  /\ \/ /\ pod' = [pod EXCEPT ![e] = IF @ = "up" /\ e \notin aborted THEN "none" ELSE @]
        /\ leaked' = IF pod[e] = "late" THEN leaked \cup {e} ELSE leaked
     \/ leaked' = leaked \cup {e} /\ UNCHANGED pod
  /\ UNCHANGED <<old, aborted, transfer, reaper, parity, due, crashes>>
Cleanup(e) ==
  /\ step[e] = "cleanup" /\ Moves(e, "done")
  /\ \/ /\ pod' = [pod EXCEPT ![e] = IF @ = "up" THEN "none" ELSE @]
        /\ leaked' = IF pod[e] = "late" THEN leaked \cup {e} ELSE leaked
     \/ leaked' = leaked \cup {e} /\ UNCHANGED pod
  /\ UNCHANGED <<old, aborted, transfer, reaper, parity, due, crashes>>

(***************************************************************************)
(* The caller, the clock and the host.                                     *)
(***************************************************************************)
Abort(e) ==
  /\ step[e] \in Working \ {"cleanup"} /\ e \notin aborted
  /\ aborted' = aborted \cup {e}
  /\ broken' = IF step[e] = "transfer" /\ stream[e] # {} THEN broken \cup {e} ELSE broken
  /\ UNCHANGED <<step, pods, stream, reaper, parity, due, crashes>>

\* Nothing compares ttlSeconds with how long a command may be at work.
Ages(e) ==
  /\ pod[e] = "up" /\ e \notin old /\ old' = old \cup {e}
  /\ UNCHANGED <<step, pod, leaked, aborted, transfer, reaper, parity, due, crashes>>

ReapDue ==
  /\ recent /\ due < MaxReaps /\ due' = due + 1 /\ recent' = FALSE
  /\ UNCHANGED <<step, pods, aborted, transfer, reap, doomed, parity, crashes>>

\* The backend dies; the pods and what the API server has yet to do remain.
Crash ==
  /\ crashes < MaxCrashes /\ crashes' = crashes + 1
  /\ step' = [e \in Exec |-> IF step[e] \in Working THEN "lost" ELSE step[e]]
  /\ stream' = [e \in Exec |-> {}] /\ broken' = {}
  /\ reap' = "none" /\ doomed' = {} /\ recent' = FALSE /\ parity' = FALSE
  /\ UNCHANGED <<pods, aborted, due>>

ReapStep    == ReapLists \/ ReapEnds \/ \E e \in Exec : ReapDeletes(e)
CommandStep(e) ==
  \/ Create(e) \/ Ready(e) \/ Transferred(e) \/ VerifyParity(e) \/ Prepare(e)
  \/ Run(e) \/ Cleanup(e)
StreamStep(e) == StreamBreaks(e) \/ \E c \in {"tar", "remote"} : StreamCloses(e, c)
WorldStep(e) == LateCreate(e) \/ Abort(e) \/ Ages(e)

Next ==
  \/ ReapStep \/ ReapDue \/ Crash
  \/ \E e \in Exec : Start(e) \/ CommandStep(e) \/ StreamStep(e) \/ WorldStep(e)

Spec == Init /\ [][Next]_vars

\* Every client runs with a deadline, so every step ends; the transfer has one
\* too and its two processes are assumed to obey the SIGTERM it sends.
Fairness ==
  /\ WF_vars(ReapStep)
  /\ \A e \in Exec : WF_vars(CommandStep(e)) /\ WF_vars(StreamBreaks(e))
  /\ \A e \in Exec, c \in {"tar", "remote"} : WF_vars(e \in broken /\ StreamCloses(e, c))

FairSpec == Spec /\ Fairness

(***************************************************************************)
(* Properties.                                                             *)
(***************************************************************************)
\* When a command has ended, however it ended and whoever aborted it, its pod
\* is gone, unless the backend died, the delete failed, or the API server
\* created the pod after the delete.
PodsAccounted ==
  \A e \in Exec : pod[e] # "none" /\ step[e] \notin Working => step[e] = "lost" \/ e \in leaked

\* The reap that one command starts takes the pod another command is at work in
\* only if it listed that pod, and then only one older than ttlSeconds: never a
\* younger one, although others are created and age while the reap deletes.
ReapSparesYoung ==
  [][\A e \in Exec : pod[e] = "up" /\ pod'[e] = "none" /\ step[e] \in Working \ {"cleanup"}
       => e \in doomed \cap old]_vars

\* Every command ends, whether its reap, a client or a transfer fails, and
\* also when the reap it waits for was started by another.
EveryExecReturns ==
  \A e \in Exec : step[e] \in Working ~> step[e] \in {"done", "lost"}

=============================================================================
