------------------------------ MODULE Recovery ------------------------------
(***************************************************************************)
(* The recovery controller (src/scripts/recovery.py): one tick after       *)
(* another, under a lock, observes the backend and then the tunnels,       *)
(* decides with a ledger what to do about each, saves the ledger, writes   *)
(* the incident's file and only then asks for a restart.                   *)
(*                                                                         *)
(* Every time stamp is kept as its age: the wall clock's time minus the    *)
(* stamp, in units of which an hour has Hour.  A stamp that lies in the    *)
(* future, because the clock was set back, has a negative age.  A tick     *)
(* reads the clock once, so no time passes in it.                          *)
(*                                                                         *)
(* Any save may fail before or after the rename that publishes it, a tick  *)
(* may be killed between any two steps, the ledger may be damaged and the  *)
(* clock set back: MaxFaults bounds how often.  Dry runs, which write      *)
(* nothing, and the evidence kept with an observation are left out.        *)
(***************************************************************************)
EXTENDS Integers, Sequences, FiniteSets, FiniteSetsExt, SequencesExt

CONSTANTS
  Profiles,        \* the tunnels, in the order of the settings
  Hour,            \* 3600 seconds
  Confirmations,   \* failing observations before anything is done
  MaxRestarts,     \* maxRestartsPerHour
  Cooldown, MaxCooldown,   \* between two restarts: the first, and the longest (900 s)
  Stable,          \* healthy for this long ends an incident
  Tolerance,       \* a last tick this far in the future is still believed (5 s)
  MaxBack,         \* how far the clock may be set back
  MaxFaults

Samples == <<"backend">> \o Profiles
Component == Range(Samples)
Status == {"HEALTHY", "OVERLOADED", "UNAVAILABLE", "ATTENTION"}

ASSUME RecoveryAssumption ==
  /\ Profiles \in Seq(STRING) /\ "backend" \notin Range(Profiles) /\ IsInjective(Profiles)
  /\ {Hour, Confirmations, MaxRestarts, Cooldown} \subseteq Nat \ {0}
  /\ {MaxCooldown, Stable, Tolerance, MaxBack, MaxFaults} \subseteq Nat
  /\ Cooldown <= MaxCooldown

NoAge == MaxBack + Hour + Stable + 1          \* no stamp
Age == (-MaxBack)..Hour
New == [restarts |-> <<>>, streak |-> 0, since |-> NoAge, open |-> FALSE, known |-> FALSE]

VARIABLES
  ledger,    \* state.json: the components' entries, the age of lastTick; damaged or not
  tick,      \* the tick at work: its step, its copy of the entries, what is left to do
  file,      \* of each component, its last incident's file
  stray,     \* components with an open incident file that nothing will close
  issued,    \* the real ages of the restarts asked for in the last hour (history)
  stepped,   \* TRUE iff the clock was set back once
  faults

recoveryVars == <<ledger, tick, file, stray, issued, stepped, faults>>

Idle == [at |-> "idle", n |-> 0, entry |-> [c \in Component |-> New], seen |-> "none", action |-> "none", backendOk |-> TRUE]

RecoveryInit ==
  /\ ledger = [damaged |-> FALSE, last |-> NoAge, entry |-> [c \in Component |-> New]]
  /\ tick = Idle
  /\ file = [c \in Component |-> "none"]
  /\ stray = {}
  /\ issued = [c \in Component |-> <<>>]
  /\ stepped = FALSE
  /\ faults = 0

-----------------------------------------------------------------------------
(* The decision, a pure function of an entry and a status.                 *)

RecentNever_Slip(restarts) == restarts

(* The stamps of the last hour that do not lie in the future.  They are in *)
(* the order in which they were made, so they follow those that are too    *)
(* old and precede those of the future.                                    *)
Recent(restarts) ==
  LET Least(age) == {i \in DOMAIN restarts : age <= restarts[i]}
  IN SubSeq(restarts, Cardinality(Least(Hour)) + 1, Cardinality(Least(0)))

CoolingFor(restarts) ==
  LET long == Cooldown * 2^(Len(restarts) - 1) IN IF long < MaxCooldown THEN long ELSE MaxCooldown
Cooling(restarts) == restarts # <<>> /\ Last(restarts) < CoolingFor(restarts)

(* A healthy observation; the incident ends when it has lasted.            *)
Healthy(e) ==
  LET since == IF e.since = NoAge THEN 0 ELSE e.since
      over == since >= Stable
  IN [entry |-> [e EXCEPT !.streak = 0, !.since = since, !.open = @ /\ ~over],
      action |-> IF over /\ e.open THEN "resolved" ELSE "none"]

(* A failing one: suspected until it is confirmed, then an incident, and a *)
(* restart if one may help, the budget has room and the last one is past.  *)
MayRestart(status, restarts) ==
  /\ status = "UNAVAILABLE"
  /\ Len(restarts) < MaxRestarts
  /\ ~Cooling(restarts)

Failing(e, status) ==
  LET streak == Min({e.streak + 1, Confirmations})
      confirmed == [e EXCEPT !.streak = streak, !.since = NoAge, !.open = TRUE, !.known = TRUE]
  IN IF streak < Confirmations
     THEN [entry |-> [e EXCEPT !.streak = streak, !.since = NoAge], action |-> "none"]
     ELSE IF MayRestart(status, e.restarts)
          THEN [entry |-> [confirmed EXCEPT !.restarts = Append(@, 0), !.streak = 0], action |-> "restart"]
          ELSE [entry |-> confirmed, action |-> IF e.open THEN "none" ELSE "incident"]

Decision(entry, status) ==
  LET e == [entry EXCEPT !.restarts = Recent(@)] IN
  CASE status = "HEALTHY" -> Healthy(e)
    [] status \in {"OVERLOADED", "DEPENDENCY_UNAVAILABLE"} ->
         [entry |-> [e EXCEPT !.streak = 0, !.since = NoAge], action |-> "none"]
    [] OTHER -> Failing(e, status)

-----------------------------------------------------------------------------
(* A tick, step by step.  Only one runs: others find the lock taken.       *)

(* A damaged ledger is replaced by one that has no restart left and knows  *)
(* of no incident.                                                         *)
Conservative ==
  [damaged |-> FALSE, last |-> 0,
   entry |-> [c \in Component |-> [New EXCEPT !.restarts = [i \in 1..MaxRestarts |-> 0]]]]

Begin ==
  /\ tick.at = "idle"
  /\ LET read == IF ledger.damaged THEN Conservative ELSE ledger IN
     /\ ledger' = read
     /\ IF read.last < -Tolerance           \* CLOCK_SKEW
        THEN tick' = tick
        ELSE tick' = [Idle EXCEPT !.at = "deciding", !.n = 1, !.entry = read.entry]
  /\ file' = IF ledger.damaged THEN [c \in Component |-> "none"] ELSE file
  /\ UNCHANGED <<stray, issued, stepped, faults>>

Current == Samples[tick.n]

(* A tunnel behind a failing backend is not judged by what it shows.       *)
Observable(c) ==
  IF c = "backend" \/ tick.backendOk THEN Status ELSE {"DEPENDENCY_UNAVAILABLE"}

AfterDecision_Slip == "acting"
AfterDecision == "saving"
Decide ==
  /\ tick.at = "deciding"
  /\ \E s \in Observable(Current) : LET d == Decision(tick.entry[Current], s) IN
     /\ tick' = [tick EXCEPT !.at = AfterDecision, !.entry[Current] = d.entry, !.seen = s, !.action = d.action,
         !.backendOk = IF Current = "backend" THEN s \in {"HEALTHY", "OVERLOADED"} ELSE @]
     \* A new incident has a file of its own.
     /\ IF d.entry.open /\ ~tick.entry[Current].open
        THEN /\ stray' = IF file[Current] = "open" THEN stray \cup {Current} ELSE stray
             /\ file' = [file EXCEPT ![Current] = "none"]
        ELSE UNCHANGED <<stray, file>>
  /\ UNCHANGED <<ledger, issued, stepped, faults>>

Save ==
  /\ tick.at = "saving"
  /\ ledger' = [ledger EXCEPT !.entry = tick.entry]
  /\ tick' = [tick EXCEPT !.at = IF tick.entry[Current].known THEN "reporting" ELSE "acting"]
  /\ UNCHANGED <<file, stray, issued, stepped, faults>>

ReportedOpenOnly_Slip(e, f) == IF e.open THEN "open" ELSE f
Reported(e, f) == IF e.open THEN "open" ELSE "closed"
Report ==
  /\ tick.at = "reporting"
  /\ file' = [file EXCEPT ![Current] = Reported(tick.entry[Current], @)]
  /\ tick' = [tick EXCEPT !.at = "acting"]
  /\ UNCHANGED <<ledger, stray, issued, stepped, faults>>

(* The restart is asked for, or the route is recovered; whether that works *)
(* is noted and changes nothing else.  Then the next component's turn.     *)
Act ==
  /\ tick.at = "acting"
  /\ issued' = IF tick.action = "restart" THEN [issued EXCEPT ![Current] = Append(@, 0)] ELSE issued
  /\ tick' = IF tick.n < Len(Samples)
             THEN [tick EXCEPT !.at = "deciding", !.n = @ + 1, !.seen = "none", !.action = "none"]
             ELSE [tick EXCEPT !.at = "ending", !.seen = "none", !.action = "none"]
  /\ UNCHANGED <<ledger, file, stray, stepped, faults>>

End ==
  /\ tick.at = "ending"
  /\ ledger' = [ledger EXCEPT !.entry = tick.entry, !.last = 0]
  /\ tick' = Idle
  /\ UNCHANGED <<file, stray, issued, stepped, faults>>

TickStep == Begin \/ Decide \/ Save \/ Report \/ Act \/ End

-----------------------------------------------------------------------------
(* Faults and the environment.                                             *)

Fault == faults < MaxFaults /\ faults' = faults + 1

(* A save that fails, although it may have published the ledger, ends the  *)
(* tick; so does a failing incident file, and a kill at any step.          *)
Abort ==
  /\ Fault /\ tick.at # "idle"
  /\ tick' = Idle
  /\ \/ UNCHANGED ledger
     \/ tick.at = "saving" /\ ledger' = [ledger EXCEPT !.entry = tick.entry]
     \/ tick.at = "ending" /\ ledger' = [ledger EXCEPT !.entry = tick.entry, !.last = 0]
  /\ UNCHANGED <<file, stray, issued, stepped>>

Damage ==
  /\ Fault /\ tick.at = "idle" /\ ~ledger.damaged
  /\ ledger' = [ledger EXCEPT !.damaged = TRUE, !.last = NoAge, !.entry = [c \in Component |-> New]]
  /\ UNCHANGED <<tick, file, stray, issued, stepped>>

(* The stamps as the clock moves by d: past an hour, or past Stable, they  *)
(* are all alike.                                                          *)
Capped(age, d, cap) == IF age = NoAge THEN NoAge ELSE Min({age + d, cap})
Aged(e, d) ==
  [e EXCEPT !.restarts = [i \in DOMAIN @ |-> Capped(@[i], d, Hour)], !.since = Capped(@, d, Stable)]
ClockMoves(d) ==
  ledger' = [ledger EXCEPT !.last = Capped(@, d, 0), !.entry = [c \in Component |-> Aged(@[c], d)]]

Advance ==
  /\ tick.at = "idle"
  /\ ClockMoves(1)
  /\ issued' = [c \in Component |-> Recent([i \in DOMAIN issued[c] |-> issued[c][i] + 1])]
  /\ UNCHANGED <<tick, file, stray, stepped, faults>>

(* The clock is set back once.                                             *)
StepBack(d) ==
  /\ Fault /\ tick.at = "idle" /\ ~stepped
  /\ ClockMoves(-d)
  /\ stepped' = TRUE
  /\ UNCHANGED <<tick, file, stray, issued>>

RecoveryNext ==
  \/ TickStep
  \/ Abort
  \/ Damage
  \/ Advance
  \/ \E d \in 1..MaxBack : StepBack(d)

(* The timer starts a tick again and again, a tick goes on unless it is    *)
(* killed, and time passes whatever the ticks do.                          *)
RecoveryFairness == WF_recoveryVars(TickStep) /\ SF_recoveryVars(Advance)
RecoverySpec == RecoveryInit /\ [][RecoveryNext]_recoveryVars /\ RecoveryFairness

-----------------------------------------------------------------------------
(* Properties.                                                             *)

(* The ledger, the tick and the history are what the code may keep.        *)
Entry ==
  [restarts : Seq(Age), streak : 0..Confirmations, since : (-MaxBack)..Stable \cup {NoAge}, open : BOOLEAN, known : BOOLEAN]
InOrder(ages) == \A i, j \in DOMAIN ages : i <= j => ages[j] <= ages[i]
RecoveryTypeOK ==
  /\ ledger.damaged \in BOOLEAN /\ ledger.last \in Age \cup {NoAge}
  /\ \A c \in Component : \A e \in {ledger.entry[c], tick.entry[c]} : e \in Entry /\ InOrder(e.restarts)
  /\ tick.at \in {"idle", "deciding", "saving", "reporting", "acting", "ending"}
  /\ tick.n \in 0..Len(Samples)
  /\ file \in [Component -> {"none", "open", "closed"}] /\ stray \subseteq Component
  /\ issued \in [Component -> Seq(0..(Hour - 1))]
  /\ stepped \in BOOLEAN /\ faults \in 0..MaxFaults

(* No hour has more restarts of a component than its budget, whatever was  *)
(* lost: a tick killed at any step, a failed save, a damaged ledger        *)
(* (recovery.py:342; docs/RELIABILITY.md:69).  This needs a clock that is  *)
(* not set back: a stamp in the future leaves the budget (recovery.py:48). *)
BudgetRespected ==
  /\ RecoveryTypeOK
  /\ stepped \/ \A c \in Component : Len(issued[c]) <= MaxRestarts

(* The file of an incident the ledger knows does not stay open when the    *)
(* component's next incident gets a file of its own, even if the tick that *)
(* resolved it was killed before it wrote the file (recovery.py:344): the  *)
(* ticks that confirm the next one close it first, unless they are killed  *)
(* as well, once for each confirmation.                                    *)
IncidentsSettle == faults < Confirmations => stray = {}

(* The circuit reopens: a component that is judged again and again, and    *)
(* from some time on always found unavailable, is restarted again and      *)
(* again, as old restarts leave the budget (recovery.py:79).               *)
Judged(c) == tick.at = "saving" /\ Current = c
Restarted(c) == tick.at = "acting" /\ tick.action = "restart" /\ Current = c
KeepsTrying ==
  \A c \in Component :
    []<>Judged(c) /\ <>[](Judged(c) => tick.seen = "UNAVAILABLE") => []<>Restarted(c)
=============================================================================
