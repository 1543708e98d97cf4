----------------------------- MODULE FileStore -----------------------------
(***************************************************************************)
(* The filesystem tools of the adapter.  fs.write, fs.mkdir, fs.move and   *)
(* fs.delete check the freeze-children rules (policy/filesystem.ts) and    *)
(* act after another await.  fs.replace (execution/atomic-file.ts) checks  *)
(* them too, waits for the earlier replacements of the same path, compares *)
(* the content with the hash its caller gave, and puts a staged file in    *)
(* place.  Another program may change an entry at any time.                *)
(***************************************************************************)
EXTENDS Integers

CONSTANTS
  Path,         \* the entries that calls name, all inside a configured root
  Above,        \* the directories above each, those among the entries
  Frozen,       \* the directories with a freeze-children rule
  Content,      \* the contents of files
  InitialFile,  \* what is there at first
  Target,       \* the entries that calls of fs.replace name
  Replacer,     \* calls of fs.replace
  Editor,       \* callers of the other tools
  MaxEdits,     \* bound: how often they call
  None

Absent == "absent"
Dir    == "dir"
Tool   == {"create", "overwrite", "mkdir", "move", "delete"}

VARIABLES
  file,       \* the content of each entry
  rstep, rpath, expect,   \* each replacement: its progress, path and hash
  seen,       \* the content of the file it opened
  fresh,      \* the replacements whose file is still the one they opened
  prior,      \* the replacement each one waits for
  locks,      \* the last replacement of each path
  edit,       \* each caller of another tool: the call that was checked
  edits,
  foreign,    \* history: replacements overtaken after their last comparison
  meddled,    \* history: entries another program changed
  uprooted    \* history: frozen directories a tool has taken with one above

replacing == <<rstep, rpath, expect, seen, prior, locks>>
vars == <<file, replacing, fresh, edit, edits, foreign, meddled, uprooted>>

NoCall == [tool |-> "none", path |-> None, to |-> None]

TypeOK ==
  /\ file \in [Path -> Content \cup {Absent, Dir}]
  /\ rstep \in [Replacer -> {"idle", "queued", "opened", "staged", "checked", "done"}]
  /\ rpath \in [Replacer -> Path \cup {None}] /\ locks \in [Path -> Replacer \cup {None}]
  /\ expect \in [Replacer -> Content \cup {Absent}] /\ seen \in [Replacer -> Content \cup {Absent}]
  /\ prior \in [Replacer -> Replacer \cup {None}]
  /\ edit \in [Editor -> {NoCall} \cup [tool : Tool, path : Path, to : Path]] /\ edits \in 0..MaxEdits
  /\ fresh \subseteq Replacer /\ foreign \subseteq Replacer 
  /\ meddled \subseteq Path /\ uprooted \subseteq Frozen

Init ==
  /\ file = InitialFile
  /\ rstep = [c \in Replacer |-> "idle"] /\ rpath = [c \in Replacer |-> None]
  /\ expect = [c \in Replacer |-> Absent] /\ seen = [c \in Replacer |-> Absent]
  /\ fresh = {} /\ prior = [c \in Replacer |-> None] /\ locks = [p \in Path |-> None]
  /\ edit = [e \in Editor |-> NoCall] /\ edits = 0 
  /\ foreign = {} /\ meddled = {} /\ uprooted = {}

(***************************************************************************)
(* The policy.                                                             *)
(***************************************************************************)
Exists(p) == file[p] # Absent
IsDir(p)  == file[p] = Dir

\* Its directory is there.
Reachable(p) == \A a \in Above[p] : IsDir(a)

\* The lowest of these directories above an entry; of all, it holds the entry.
Lowest(d, p, dirs) == d \in Above[p] \cap dirs /\ \A a \in Above[p] \cap dirs : d \notin Above[a]
InFrozen(p, dirs)  == \E d \in Frozen : Lowest(d, p, dirs)

\* canonicalRulePath: while one of the configured directories is missing,
\* whatever asks for the rules is refused.
RulesExist == \A d \in Frozen : Exists(d)

\* authorizePathEntryCreation: an entry that is there may be written, any
\* other may be created unless its nearest existing directory is frozen.
CreationAllowed(p) ==
  \/ Exists(p)
  \/ /\ \A a \in Above[p] : Exists(a) => IsDir(a)
     /\ RulesExist /\ ~InFrozen(p, {a \in Path : Exists(a)})

\* authorizePathEntryMutation: neither a frozen directory nor an entry of one,
\* but an entry above one passes.
MutationAllowed(p) ==
  /\ p \notin Frozen
  /\ Reachable(p) => RulesExist /\ ~InFrozen(p, Path)

MoveChecksTarget_Slip(t, p, q) ==
  /\ t \in {"move", "delete"} => MutationAllowed(q)
  /\ t \in {"create", "overwrite", "mkdir"} => CreationAllowed(p)
Allowed(t, p, q) ==
  /\ t \in {"move", "delete"} => MutationAllowed(p) /\ MutationAllowed(q)
  /\ t \in {"create", "overwrite", "mkdir"} => CreationAllowed(p)

\* A changed entry has another inode, size or time of change, which the
\* replacements that have opened it will notice, except after the comparison.
Disturbs(changed) ==
  /\ fresh' = {c \in fresh : rpath[c] \notin changed}
  /\ foreign' = foreign \cup {c \in Replacer : rstep[c] = "checked" /\ rpath[c] \in changed}

(***************************************************************************)
(* The other tools: the check, and after an await the effect.              *)
(***************************************************************************)
Check(e) ==
  /\ edit[e] = NoCall /\ edits < MaxEdits /\ edits' = edits + 1
  /\ \E t \in Tool, p \in Path, q \in Path :
       /\ t # "move" => q = p
       /\ Allowed(t, p, q)
       /\ edit' = [edit EXCEPT ![e] = [tool |-> t, path |-> p, to |-> q]]
  /\ UNCHANGED <<file, replacing, fresh, foreign, meddled, uprooted>>

Ends(e, tool) ==
  /\ edit[e].tool = tool /\ edit' = [edit EXCEPT ![e] = NoCall]
  /\ UNCHANGED <<replacing, edits, meddled>>

\* Creating is exclusive; overwriting and appending create a missing file.
WriteFile(e) ==
  LET p == edit[e].path IN
  /\ \/ Ends(e, "create") /\ ~Exists(p)
     \/ Ends(e, "overwrite") /\ ~IsDir(p)
  /\ Reachable(p) /\ \E x \in Content : file' = [file EXCEPT ![p] = x]
  /\ Disturbs({p}) /\ UNCHANGED uprooted

\* With recursive, the missing directories above are made too.
MakeDirectory(e) ==
  LET p == edit[e].path IN
  /\ Ends(e, "mkdir") /\ ~Exists(p)
  /\ \E made \in {{p}, {p} \cup {a \in Above[p] : ~Exists(a)}} :
       /\ \A q \in made : \A a \in Above[q] : IsDir(a) \/ a \in made
       /\ file' = [q \in Path |-> IF q \in made THEN Dir ELSE file[q]]
       /\ Disturbs(made)
  /\ UNCHANGED uprooted

\* An entry and what is below it.
Tree(p) == {q \in Path : q = p \/ p \in Above[q]}

\* The frozen directories that go with an entry.
Uproots(p) == uprooted' = uprooted \cup {d \in Frozen : p \in Above[d]}

\* What a directory that is moved holds gets names that no call gives.
MovePath(e) ==
  LET p == edit[e].path
      q == edit[e].to IN
  /\ Ends(e, "move") /\ q \notin Tree(p) /\ Exists(p) /\ Reachable(q)
  /\ Exists(q) => (IsDir(p) <=> IsDir(q)) /\ \A r \in Tree(q) \ {q} : ~Exists(r)
  /\ file' = [r \in Path |-> IF r = q THEN file[p] ELSE IF r \in Tree(p) THEN Absent ELSE file[r]]
  /\ Disturbs({q} \cup Tree(p)) /\ Uproots(p)

\* A directory must be empty or is removed recursively, what is below an entry
\* before the entry; that may fail halfway.
DeletePath(e) ==
  LET p == edit[e].path IN
  /\ Ends(e, "delete")
  /\ \E gone \in SUBSET {q \in Tree(p) : Exists(q)} :
       /\ gone # {} /\ \A q \in gone : \A r \in Tree(q) : Exists(r) => r \in gone
       /\ file' = [q \in Path |-> IF q \in gone THEN Absent ELSE file[q]]
       /\ Disturbs(gone)
  /\ Uproots(p)

\* The operating system refuses: an entry is missing, or there, or of another
\* type, or it just fails.
EditFails(e) ==
  /\ edit[e] # NoCall /\ Ends(e, edit[e].tool) /\ UNCHANGED <<file, fresh, foreign, uprooted>>

\* Another program writes or removes a file.
External(p) ==
  /\ meddled = {} /\ meddled' = {p}
  /\ Reachable(p) /\ file[p] # Dir
  /\ \E x \in (Content \cup {Absent}) \ {file[p]} : file' = [file EXCEPT ![p] = x]
  /\ Disturbs({p}) /\ UNCHANGED <<replacing, edit, edits, uprooted>>

(***************************************************************************)
(* fs.replace.                                                             *)
(***************************************************************************)
\* After both checks of the policy it queues behind the last one of its path.
Replace(c, p, x) ==
  /\ rstep[c] = "idle" /\ CreationAllowed(p) /\ MutationAllowed(p)
  /\ rstep' = [rstep EXCEPT ![c] = "queued"]
  /\ rpath' = [rpath EXCEPT ![c] = p] /\ expect' = [expect EXCEPT ![c] = x]
  /\ prior' = [prior EXCEPT ![c] = locks[p]] /\ locks' = [locks EXCEPT ![p] = c]
  /\ UNCHANGED <<file, seen, fresh, edit, edits, foreign, meddled, uprooted>>

\* lstat, open and stat of the entry.
Open(c) ==
  /\ rstep[c] = "queued" /\ (prior[c] # None => rstep[prior[c]] = "done")
  /\ file[rpath[c]] # Dir
  /\ rstep' = [rstep EXCEPT ![c] = "opened"] /\ fresh' = fresh \cup {c}
  /\ seen' = [seen EXCEPT ![c] = file[rpath[c]]]
  /\ UNCHANGED <<file, rpath, expect, prior, locks, edit, edits, foreign, meddled, uprooted>>

\* The content read has the expected hash and the staged file is written; a
\* file that was changed since it was opened may read as anything.
Stage(c) ==
  /\ rstep[c] = "opened" /\ rstep' = [rstep EXCEPT ![c] = "staged"]
  /\ IF seen[c] = Absent THEN expect[c] = Absent
     ELSE expect[c] # Absent /\ (c \in fresh => expect[c] = seen[c])
  /\ UNCHANGED <<file, rpath, expect, seen, prior, locks, fresh, edit, edits, foreign, meddled, uprooted>>

\* The last comparison before the rename.
RecheckSkips_Slip(c) ==
  /\ rstep[c] = "staged" /\ seen[c] # Absent
  /\ rstep' = [rstep EXCEPT ![c] = "checked"]
  /\ UNCHANGED <<file, rpath, expect, seen, prior, locks, fresh, edit, edits, foreign, meddled, uprooted>>
Recheck(c) ==
  /\ rstep[c] = "staged" /\ seen[c] # Absent /\ c \in fresh
  /\ rstep' = [rstep EXCEPT ![c] = "checked"]
  /\ UNCHANGED <<file, rpath, expect, seen, prior, locks, fresh, edit, edits, foreign, meddled, uprooted>>

\* The end of a task, good or bad: whoever waits for it starts, and the last
\* one of a path removes the lock.
Release(c) ==
  /\ rstep' = [rstep EXCEPT ![c] = "done"]
  /\ locks' = [locks EXCEPT ![rpath[c]] = IF @ = c THEN None ELSE @]
  /\ rpath' = [rpath EXCEPT ![c] = None] /\ expect' = [expect EXCEPT ![c] = Absent]
  /\ seen' = [seen EXCEPT ![c] = Absent] /\ prior' = [prior EXCEPT ![c] = None]
  /\ UNCHANGED <<edit, edits, foreign, meddled, uprooted>>

PutInPlace(c) ==
  /\ Reachable(rpath[c]) /\ \E x \in Content : file' = [file EXCEPT ![rpath[c]] = x]
  /\ fresh' = {d \in fresh : rpath[d] # rpath[c]} /\ Release(c)

\* The link of a new file refuses an entry that has appeared; the rename does
\* not look at what it replaces.
Link(c)   == rstep[c] = "staged" /\ seen[c] = Absent /\ file[rpath[c]] = Absent /\ PutInPlace(c)
Rename(c) == rstep[c] = "checked" /\ file[rpath[c]] # Dir /\ PutInPlace(c)

\* Another type, another hash, too large, a conflict, or any error.
ReplaceFails(c) ==
  /\ rstep[c] \in {"queued", "opened", "staged", "checked"}
  /\ rstep[c] = "queued" /\ prior[c] # None => rstep[prior[c]] = "done"
  /\ fresh' = fresh \ {c} /\ Release(c) /\ UNCHANGED file

EditStep(e) ==
  \/ Check(e) \/ WriteFile(e) \/ MakeDirectory(e) \/ MovePath(e) \/ DeletePath(e) \/ EditFails(e)
ReplaceStep(c) ==
  Open(c) \/ Stage(c) \/ Recheck(c) \/ Link(c) \/ Rename(c) \/ ReplaceFails(c)

Next ==
  \/ \E e \in Editor : EditStep(e)
  \/ \E p \in Path : External(p)
  \/ \E c \in Replacer : ReplaceStep(c) \/ \E p \in Target, x \in Content \cup {Absent} : Replace(c, p, x)

Spec == Init /\ [][Next]_vars

(***************************************************************************)
(* Properties.                                                             *)
(***************************************************************************)
\* What a replacement overwrites has the content its caller named, and what it
\* creates was not there, whatever else was writing, unless the entry was
\* changed by something other than a replacement after the last comparison.
ReplacesExpected ==
  [][\A c \in Replacer : Link(c) \/ Rename(c) => file[rpath[c]] = expect[c] \/ c \in foreign]_vars

\* No tool makes an entry appear in a frozen directory or disappear from it,
\* although its checks and its effect are apart, unless another program changed
\* that entry, or a tool moved or deleted a directory above the frozen one: that
\* passes the checks, and takes the frozen directory with all it holds.
FrozenEntriesStay ==
  [][\A p \in Path \ meddled' :
       (\E d \in Frozen \ uprooted' : Lowest(d, p, Path)) => (Exists(p) <=> Exists(p)')]_vars

=============================================================================
