--------------------------- MODULE BoundedProcess ---------------------------
(***************************************************************************)
(* One command run by spawnBounded (src/src/execution/bounded-process.ts), *)
(* plainly or as a transient unit of systemd (systemd-isolated-process.ts).*)
(* A deadline, the caller's abort, too much output and a failing spool all *)
(* call terminate(): SIGTERM, after a second SIGKILL, after a quarter of a *)
(* second the pipes are given up.  The command may fork; a descendant may  *)
(* drop the pipes or leave the process group, and may outlive the leader.  *)
(***************************************************************************)
EXTENDS Integers

CONSTANT Mode    \* "plain", or the scope of local isolation: "user", "system"

VARIABLES
  mode,         \* how this command is run
  stage,        \* where the call is between Begin and "settled"
  flags,        \* timedOut, outputExceeded, cancelled, and the errors; "refused"
                \* is the error of the child when it may not be signalled
  terminating, timer,   \* the escalation and the timer it has armed
  leader, kid,  \* the process that was spawned, and one it forked
  unit, envFile,        \* the transient unit and its staged environment
  outcome,      \* what the caller is told
  abortedAt,    \* history: the stage in which the caller aborted
  gaveUp        \* history: what was tried in vain, and "staging": not tried

process == <<leader, kid>>
clean   == <<unit, envFile, gaveUp>>
vars == <<mode, stage, flags, terminating, timer, process, clean, outcome, abortedAt>>

Flag == {"timedOut", "exceeded", "cancelled", "spool", "spawn", "refused", "stdin"}

TypeOK ==
  /\ mode \in Mode \cup {"plain"}
  /\ stage \in {"idle", "staging", "preparing", "running", "flushing", "stopping", "removing", "settled"}
  /\ flags \subseteq Flag /\ terminating \in BOOLEAN /\ timer \in {"none", "force", "pipe"}
  /\ leader \in {"none", "alive", "zero", "failed", "killed"}
  /\ kid \in {"none", "attached", "detached", "escaped", "gone"}
  /\ unit \in {"none", "running", "gone"} /\ envFile \in BOOLEAN
  /\ outcome \in {"none", "CANCELLED", "OUTPUT_LIMIT", "error", "timedOut", "ok", "exit"}
  /\ gaveUp \subseteq {"kill", "unit", "env", "staging"}

Init ==
  /\ mode = "plain" /\ stage = "idle" /\ flags = {}
  /\ terminating = FALSE /\ timer = "none"
  /\ leader = "none" /\ kid = "none" /\ unit = "none" /\ envFile = FALSE
  /\ outcome = "none" /\ abortedAt = "none" /\ gaveUp = {}

(***************************************************************************)
(* Before the process exists.                                              *)
(***************************************************************************)
\* The configuration says how commands are run.
Begin ==
  /\ stage = "idle" /\ mode' \in Mode
  /\ stage' = IF mode' = "system" THEN "staging" ELSE "preparing"
  /\ UNCHANGED <<flags, terminating, timer, process, clean, outcome, abortedAt>>

\* stageSystemEnvironment.  It runs before the try: a helper that fails, or is
\* cut off, may have written the file, and no removal of it is attempted.
StageEnvironment ==
  /\ stage = "staging"
  /\ \/ /\ stage' = "preparing" /\ envFile' = TRUE
        /\ UNCHANGED <<outcome, gaveUp>>
     \/ /\ stage' = "settled" /\ outcome' = "error"
        /\ envFile' \in BOOLEAN /\ gaveUp' = IF envFile' THEN {"staging"} ELSE gaveUp
  /\ UNCHANGED <<mode, flags, terminating, timer, process, unit, abortedAt>>

\* What follows spawnBounded: the finally block of spawnSystemdIsolated.
Afterwards == IF mode = "plain" THEN "settled" ELSE "stopping"

\* The check of the signal after the spool exists, and the spawn.
Spawn ==
  /\ stage = "preparing"
  /\ \/ /\ abortedAt # "none"
        /\ stage' = Afterwards /\ outcome' = "CANCELLED" /\ UNCHANGED <<leader, flags>>
     \/ /\ abortedAt = "none"
        /\ stage' = "running" /\ UNCHANGED outcome
        /\ \/ leader' = "alive" /\ UNCHANGED flags
           \/ leader' = "failed" /\ flags' = flags \cup {"spawn"}
  /\ UNCHANGED <<mode, terminating, timer, kid, clean, abortedAt>>

(***************************************************************************)
(* The processes.                                                          *)
(***************************************************************************)
LeaderExits ==
  /\ leader = "alive" /\ leader' \in {"zero", "failed"}
  /\ UNCHANGED <<mode, stage, flags, terminating, timer, kid, clean, outcome, abortedAt>>

Forks ==
  /\ mode = "plain" /\ leader = "alive" /\ kid = "none" /\ kid' = "attached"
  /\ UNCHANGED <<mode, stage, flags, terminating, timer, leader, clean, outcome, abortedAt>>

\* It exits, or closes its pipes, or keeps them in a session of its own.
KidMoves ==
  /\ kid \in {"attached", "detached", "escaped"}
  /\ kid' \in IF kid = "attached" THEN {"gone", "detached", "escaped"} ELSE {"gone"}
  /\ UNCHANGED <<mode, stage, flags, terminating, timer, leader, clean, outcome, abortedAt>>

\* With isolation the command runs in the unit, which the leader asks for, with
\* its environment file, and then only waits for.
UnitMoves ==
  /\ mode # "plain"
  /\ \/ /\ unit = "none" /\ leader = "alive" /\ unit' = "running"
        /\ mode = "system" => envFile
     \/ unit = "running" /\ unit' = "gone"
  /\ UNCHANGED <<mode, stage, flags, terminating, timer, process, envFile, outcome, abortedAt, gaveUp>>

(***************************************************************************)
(* Termination.                                                            *)
(***************************************************************************)
\* With isolation of the system the leader is sudo, which runs as root: neither
\* its group nor itself may take a signal from here.
Refusable == mode = "system" /\ leader = "alive"

\* terminate(), for this reason: SIGTERM obliges no process, so what shows is
\* the timer, and the error of the child if the signal was refused.
Terminate(reason) ==
  IF terminating THEN flags' = flags \cup reason /\ UNCHANGED <<terminating, timer>>
  ELSE /\ terminating' = TRUE /\ timer' = "force"
       /\ \/ flags' = flags \cup reason
          \/ Refusable /\ flags' = flags \cup reason \cup {"refused"}

\* signalProcess, with SIGKILL.
KillGroup ==
  \/ /\ leader' = IF leader = "alive" THEN "killed" ELSE leader
     /\ kid' = IF kid \in {"attached", "detached"} THEN "gone" ELSE kid
     /\ UNCHANGED <<flags, gaveUp>>
  \/ /\ Refusable /\ flags' = flags \cup {"refused"} /\ gaveUp' = gaveUp \cup {"kill"}
     /\ UNCHANGED process

Deadline ==
  /\ stage = "running" /\ "timedOut" \notin flags /\ Terminate({"timedOut"})
  /\ UNCHANGED <<mode, stage, process, clean, outcome, abortedAt>>

\* The abort listener is there from the spawn until the process has closed.
AbortIgnoredOnceTerminating_Slip ==
  /\ abortedAt = "none" /\ stage \in {"staging", "preparing", "running", "flushing"}
  /\ abortedAt' = stage
  /\ IF stage = "running" /\ ~terminating
       THEN Terminate({"cancelled"})
       ELSE UNCHANGED <<flags, terminating, timer>>
  /\ UNCHANGED <<mode, stage, process, clean, outcome>>
Abort ==
  /\ abortedAt = "none" /\ stage \in {"staging", "preparing", "running", "flushing"}
  /\ abortedAt' = stage
  /\ IF stage = "running" THEN Terminate({"cancelled"})
     ELSE UNCHANGED <<flags, terminating, timer>>
  /\ UNCHANGED <<mode, stage, process, clean, outcome>>

Overflow ==
  /\ stage = "running" /\ flags \cap {"exceeded", "spool", "spawn"} = {}
  /\ Terminate({"exceeded"})
  /\ UNCHANGED <<mode, stage, process, clean, outcome, abortedAt>>

\* Writing the spool fails, at the latest while it is flushed.
SpoolFails ==
  /\ stage \in {"running", "flushing"} /\ "spool" \notin flags
  /\ IF stage = "running" THEN Terminate({"spool"})
     ELSE flags' = flags \cup {"spool"} /\ UNCHANGED <<terminating, timer>>
  /\ UNCHANGED <<mode, stage, process, clean, outcome, abortedAt>>

StdinFails ==
  /\ stage = "running" /\ "stdin" \notin flags /\ flags' = flags \cup {"stdin"}
  /\ UNCHANGED <<mode, stage, terminating, timer, process, clean, outcome, abortedAt>>

\* settleClose, and the timers and the listener that are then removed.
SettleCloseLeavesGroup_Slip ==
  /\ stage' = "flushing" /\ timer' = "none" /\ UNCHANGED <<process, flags, gaveUp>>
SettleClose ==
  /\ stage' = "flushing" /\ timer' = "none"
  /\ IF terminating THEN KillGroup ELSE UNCHANGED <<process, flags, gaveUp>>

\* The child's close event: it has exited and nobody holds its pipes.
Closes ==
  /\ stage = "running" /\ leader # "alive" /\ kid \notin {"attached", "escaped"}
  /\ SettleClose
  /\ UNCHANGED <<mode, terminating, unit, envFile, outcome, abortedAt>>

ForceTimer ==
  /\ stage = "running" /\ timer = "force" /\ timer' = "pipe" /\ KillGroup
  /\ UNCHANGED <<mode, stage, terminating, unit, envFile, outcome, abortedAt>>

PipeTimerNever_Slip == FALSE /\ UNCHANGED vars
PipeTimer ==
  /\ stage = "running" /\ timer = "pipe" /\ SettleClose
  /\ UNCHANGED <<mode, terminating, unit, envFile, outcome, abortedAt>>

\* The spool is flushed; the flags say what is reported.
Report ==
  /\ stage = "flushing" /\ stage' = Afterwards
  /\ outcome' =
       IF "cancelled" \in flags THEN "CANCELLED"
       ELSE IF "exceeded" \in flags THEN "OUTPUT_LIMIT"
       ELSE IF flags \cap {"spool", "spawn", "refused"} # {} THEN "error"
       ELSE IF "stdin" \in flags /\ leader = "zero" THEN "error"
       ELSE IF "timedOut" \in flags THEN "timedOut"
       ELSE IF leader = "zero" THEN "ok" ELSE "exit"
  /\ UNCHANGED <<mode, flags, terminating, timer, process, clean, abortedAt>>

(***************************************************************************)
(* The finally block of isolation; both steps are best effort.             *)
(***************************************************************************)
StopUnit ==
  /\ stage = "stopping"
  /\ stage' = IF mode = "system" THEN "removing" ELSE "settled"
  /\ \/ unit' = (IF unit = "running" THEN "gone" ELSE unit) /\ UNCHANGED gaveUp
     \/ gaveUp' = gaveUp \cup {"unit"} /\ UNCHANGED unit
  /\ UNCHANGED <<mode, flags, terminating, timer, process, envFile, outcome, abortedAt>>

RemoveEnvironment ==
  /\ stage = "removing" /\ stage' = "settled"
  /\ \/ envFile' = FALSE /\ UNCHANGED gaveUp
     \/ gaveUp' = gaveUp \cup {"env"} /\ UNCHANGED envFile
  /\ UNCHANGED <<mode, flags, terminating, timer, process, unit, outcome, abortedAt>>

TimerStep   == Deadline \/ ForceTimer \/ PipeTimer
ProcessStep == LeaderExits \/ Forks \/ KidMoves \/ UnitMoves
EventStep   == Abort \/ Overflow \/ SpoolFails \/ StdinFails \/ Closes
CallStep    == StageEnvironment \/ Spawn \/ Report \/ StopUnit \/ RemoveEnvironment

Next == Begin \/ TimerStep \/ ProcessStep \/ EventStep \/ CallStep

Spec == Init /\ [][Next]_vars

\* Timers fire and the call's own steps are taken; a process need not do
\* anything, least of all exit.
Fairness ==
  /\ WF_vars(Deadline) /\ WF_vars(ForceTimer) /\ WF_vars(PipeTimer) /\ WF_vars(CallStep)

FairSpec == Spec /\ Fairness

(***************************************************************************)
(* Properties.                                                             *)
(***************************************************************************)
\* A command that was terminated leaves no process of its group behind, even
\* if a descendant ignored SIGTERM and the leader closed first, unless sudo
\* refused the last SIGKILL; an isolated one leaves no unit, unless stopping it
\* failed or that sudo lived to start it, and no environment file, unless
\* removing it failed or the helper that wrote it did.
NothingOutlives ==
  stage = "settled" =>
    /\ terminating => (leader = "alive" => "kill" \in gaveUp) /\ kid \notin {"attached", "detached"}
    /\ unit = "running" => gaveUp \cap {"kill", "unit"} # {}
    /\ envFile => gaveUp \cap {"env", "staging"} # {}

\* The outcome is one that happened, whatever raced with it: a caller that
\* aborted before the process had closed is told so, success means that the
\* leader itself exited with zero and nothing cut it short.
OutcomeHonest ==
  stage = "settled" /\ outcome # "error" =>
    /\ outcome = "CANCELLED" <=> abortedAt \in {"staging", "preparing", "running"}
    /\ outcome = "ok" => leader = "zero" /\ ~terminating
    /\ outcome = "exit" => ~terminating
    /\ outcome \in {"timedOut", "OUTPUT_LIMIT"} => terminating

\* Every call settles, although a process may ignore signals and a descendant
\* that left the group may hold the pipes for ever.
EveryCallSettles == stage = "preparing" ~> stage = "settled"

=============================================================================
