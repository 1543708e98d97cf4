--------------------------- MODULE ComputerAdapter ---------------------------
(***************************************************************************)
(* The computer adapter serving one kind of tool at a time: shell.exec is  *)
(* routed (routing-computer-adapter.ts, command-policy.ts) to the host or  *)
(* to Kubernetes; the others are the filesystem tools and the applications *)
(* and recordings the adapter owns.  The parts share no state, so the      *)
(* composition takes their steps for one route and not interleaved.        *)
(***************************************************************************)
EXTENDS Integers, FiniteSets, Sequences

CONSTANTS
  Mode,                                                  \* BoundedProcess
  Exec, PinnedImage, MaxReaps, MaxCrashes,               \* KubernetesExecutor
  App, Rec, Stopper, MaxTracked,                         \* OwnedResources
  Path, Above, Frozen, Content, InitialFile, Target,    \* FileStore
  Replacer, Editor, MaxEdits,
  MaxRules,   \* bound: command policies
  None

VARIABLES
  route,      \* where the calls of this behaviour go
  mode, stage, flags, terminating, timer, leader, kid, unit, envFile, outcome, abortedAt, gaveUp,
  step, pod, old, aborted, stream, broken, reap, doomed, recent, parity, leaked, due, crashes,
  place, child, target, escalation, raced,
  file, rstep, rpath, expect, seen, fresh, prior, locks, edit, edits, foreign, meddled, uprooted

P == INSTANCE BoundedProcess
K == INSTANCE KubernetesExecutor
O == INSTANCE OwnedResources
F == INSTANCE FileStore

commandVars == <<mode, stage, flags, terminating, timer, leader, kid, unit, envFile, outcome, abortedAt, gaveUp>>
podVars     == <<step, pod, old, aborted, stream, broken, reap, doomed, recent, parity, leaked, due, crashes>>
ownedVars   == <<place, child, target, escalation, raced>>
fileVars    == <<file, rstep, rpath, expect, seen, fresh, prior, locks, edit, edits, foreign, meddled, uprooted>>

\* The directories above an entry are a chain, whose directories are there at
\* the start if the entry is.  So are those with a freeze-children rule: while
\* one is missing, the tools refuse what the rule could concern.
ASSUME AdapterAssumption ==
  /\ Mode \subseteq {"plain", "user", "system"} /\ PinnedImage \in BOOLEAN
  /\ MaxTracked \in Nat \ {0} /\ None \notin Rec \cup Replacer \cup Path /\ App \cap Rec = {}
  /\ Above \in [Path -> SUBSET Path] /\ Frozen \subseteq Path
  /\ \A p \in Path : p \notin Above[p] /\ \A a \in Above[p] :
       Above[a] \subseteq Above[p] /\ \A b \in Above[p] : a = b \/ a \in Above[b] \/ b \in Above[a]
  /\ InitialFile \in [Path -> Content \cup {F!Absent, F!Dir}] /\ {F!Absent, F!Dir} \cap Content = {}
  /\ \A p \in Path : InitialFile[p] # F!Absent => \A a \in Above[p] : InitialFile[a] = F!Dir
  /\ \A d \in Frozen : InitialFile[d] = F!Dir
  /\ Target \subseteq Path
  /\ {MaxReaps, MaxCrashes, MaxEdits, MaxRules} \subseteq Nat

vars == <<route, commandVars, podVars, ownedVars, fileVars>>

TypeOK ==
  /\ route \in {"none", "refused", "local", "remote", "owned", "files"}
  /\ P!TypeOK /\ K!TypeOK /\ O!TypeOK /\ F!TypeOK

Init == route = "none" /\ P!Init /\ K!Init /\ O!Init /\ F!Init

(***************************************************************************)
(* Routing a command.  A rule of the configuration matches it or does not; *)
(* the command has some of these attributes.                               *)
(***************************************************************************)
Rule == [matches : BOOLEAN, action : {"deny", "allow", "local", "kubernetes"}]

Attribute ==
  {"remoteReady", "cwd",      \* Kubernetes is enabled with an image; a cwd is given
   "localOnly", "remoteCommand", "heavy",
   "forbidden", "captures",   \* see CommandAllowed, HostDisplaySafe
   "outside", "guarded",      \* cwd outside the roots; a guarded file is named
   "badEnv"}                  \* environment entries that are not allowed

\* evaluateCommandPolicy: the first rule that matches.
Decision(rules) ==
  LET hits == {i \in DOMAIN rules : rules[i].matches}
  IN IF hits = {} THEN "none" ELSE rules[CHOOSE i \in hits : \A j \in hits : i <= j].action

\* classifyExec.
Classify(d, a) ==
  LET remote == {"remoteReady", "cwd"} \subseteq a IN
  CASE d = "deny"             -> "refused"
    [] d \in {"allow", "local"} -> "local"
    [] d = "kubernetes"       -> IF remote THEN "remote" ELSE "refused"
    [] d = "none"             -> IF remote /\ "localOnly" \notin a /\ a \cap {"remoteCommand", "heavy"} # {}
                                 THEN "remote" ELSE "local"

\* authorizeCommand: shell disabled, not on the allow list, an agent, a
\* command that asks for a password.
CommandAllowed(a) == "forbidden" \notin a

\* authorizeHostDisplaySafeInvocation.
HostDisplaySafe(a) == "captures" \notin a

\* validateShellEnvironment.
EnvironmentAllowed(a) == "badEnv" \notin a

\* authorizePath, of the cwd.
InsideRoots(a) == "cwd" \in a => "outside" \notin a

\* authorizeShellFilesystemRead and authorizeShellFilesystemMutation.
Unguarded(a) == "guarded" \notin a

\* exec, local and remote: a pod holds a copy, so its way skips the guards of
\* the host's files.
Authorized(r, a) ==
  /\ CommandAllowed(a) /\ HostDisplaySafe(a) /\ EnvironmentAllowed(a) /\ InsideRoots(a)
  /\ r = "local" => Unguarded(a)

RouteExec ==
  /\ route = "none"
  /\ \E n \in 0..MaxRules : \E rules \in [1..n -> Rule], a \in SUBSET Attribute :
       LET r == Classify(Decision(rules), a)
       IN route' = IF r # "refused" /\ Authorized(r, a) THEN r ELSE "refused"
  /\ UNCHANGED <<commandVars, podVars, ownedVars, fileVars>>

OtherTool ==
  /\ route = "none" /\ route' \in {"owned", "files"}
  /\ UNCHANGED <<commandVars, podVars, ownedVars, fileVars>>

Local  == route = "local"  /\ P!Next /\ UNCHANGED <<route, podVars, ownedVars, fileVars>>
Remote == route = "remote" /\ K!Next /\ UNCHANGED <<route, commandVars, ownedVars, fileVars>>
Owned  == route = "owned"  /\ O!Next /\ UNCHANGED <<route, commandVars, podVars, fileVars>>
Files  == route = "files"  /\ F!Next /\ UNCHANGED <<route, commandVars, podVars, ownedVars>>

Next == RouteExec \/ OtherTool \/ Local \/ Remote \/ Owned \/ Files

Spec == Init /\ [][Next]_vars

FairSpec == Spec /\ P!Fairness /\ K!Fairness /\ O!Fairness

(***************************************************************************)
(* What the parts promise, here under the configuration of the adapter.    *)
(***************************************************************************)
\* No process, unit or environment file of a terminated command is left.
NothingOutlives == TypeOK /\ P!NothingOutlives

\* What the caller of a command is told is what happened.
OutcomeHonest == P!OutcomeHonest

\* No pod is left behind but by a crash, a failed delete or a late creation.
PodsAccounted == K!PodsAccounted

\* The reaper takes a pod a command is at work in only if it was listed as old.
ReapSparesYoung == K!ReapSparesYoung

\* Every application or recorder that runs is counted by ownedResources, and
\* the limit on them holds unless launches overlap.
ResourcesAccounted == O!LiveIsOwned /\ O!LimitUnlessRaced

\* A replacement overwrites what its caller expects and nothing else.
ReplacesExpected == F!ReplacesExpected

\* The entries of a frozen directory stay, but with a directory above it they go.
FrozenEntriesStay == F!FrozenEntriesStay

\* Every command, local or remote, and every stop of a recording returns.
EveryCommandReturns == P!EveryCallSettles /\ K!EveryExecReturns /\ O!EveryStopReturns

=============================================================================
