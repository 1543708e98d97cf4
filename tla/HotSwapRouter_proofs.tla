------------------------ MODULE HotSwapRouter_proofs ------------------------
(***************************************************************************)
(* Safety of the hot-swap router, for every set of generations, requests   *)
(* and controllers, every registry it may start from and all limits.       *)
(*                                                                         *)
(* The invariant is proved in layers, each on top of those before it: the  *)
(* control plane and its registries; the requests and their counts; which  *)
(* process ran what; and, if a registry that was written can be read back, *)
(* what retirement and activation promise.                                 *)
(***************************************************************************)
EXTENDS HotSwapRouter, QueueLemmas, FiniteSetTheorems

-----------------------------------------------------------------------------
(* Registries.                                                             *)

Bindings == UNION {[S -> Inc] : S \in SUBSET Gen}

(* A set of bindings is a function on some of the generations.             *)
LEMMA BindingsAre == ASSUME NEW m \in Bindings PROVE DOMAIN m \subseteq Gen /\ m \in [DOMAIN m -> Inc]
BY DEF Bindings
LEMMA AreBindings == \A m : DOMAIN m \subseteq Gen /\ m \in [DOMAIN m -> Inc] => m \in Bindings
BY DEF Bindings

(* The parts of a registry.                                                *)
LEMMA RegistryIs ==
  ASSUME NEW r \in Registry
  PROVE  /\ r.epoch \in 0..(MaxEpoch + 1)
         /\ r.active \in Gen \cup {None} /\ r.previous \in Gen \cup {None}
         /\ r.generations \in Bindings /\ Registered(r) \subseteq Gen
         /\ \A g \in Registered(r) : r.generations[g] \in Inc
<1>1. r.generations \in Bindings
  BY DEF Registry, Bindings
<1>. QED  BY <1>1, BindingsAre DEF Registry, Registered

(* A registry of such parts.                                               *)
LEMMA IsRegistry ==
  ASSUME NEW e \in 0..(MaxEpoch + 1), NEW a \in Gen \cup {None}, NEW p \in Gen \cup {None}, NEW m \in Bindings
  PROVE  [epoch |-> e, active |-> a, previous |-> p, generations |-> m] \in Registry
BY DEF Bindings, Registry

(* The registry before the first registration.                             *)
LEMMA EmptyIsRegistry == EmptyRegistry \in Registry
<1>1. <<>> \in Bindings
  <2>1. <<>> \in [{} -> Inc]
    OBVIOUS
  <2>. QED  BY <2>1 DEF Bindings
<1>2. 0 \in 0..(MaxEpoch + 1)
  BY ConstantsAssumption
<1>. QED  BY <1>1, <1>2, IsRegistry DEF EmptyRegistry

(* The registry without an active generation.                              *)
Blinded(r) == [r EXCEPT !.active = None]

(* Blinding changes nothing but the active generation.                     *)
LEMMA BlindedIs ==
  ASSUME NEW r \in Registry, WellFormed(r)
  PROVE  /\ Blinded(r) \in Registry /\ WellFormed(Blinded(r))
         /\ Blinded(r).active = None /\ Blinded(r).epoch = r.epoch /\ Blinded(r).previous = r.previous
         /\ Blinded(r).generations = r.generations
BY DEF Registry, WellFormed, Registered, Blinded

(* What a change does to each part of a registry.                          *)
LEMMA ChangedIs ==
  ASSUME NEW r \in Registry, NEW o, o.kind \in Kind
  PROVE  LET n == Changed(r, o) IN
         /\ n = [epoch |-> n.epoch, active |-> n.active, previous |-> n.previous, generations |-> n.generations]
         /\ n.epoch = r.epoch + 1
         /\ o.kind \in {"activate", "rollback"} =>
              n.active = o.gen /\ n.previous = r.active /\ n.generations = r.generations
         /\ o.kind \notin {"activate", "rollback"} => n.active = r.active /\ n.previous = r.previous
         /\ o.kind = "register" =>
              n.generations = [g \in Registered(r) \cup {o.gen} |-> IF g = o.gen THEN First ELSE r.generations[g]]
         /\ o.kind = "rebind" => n.generations = [r.generations EXCEPT ![o.gen] = o.inst]
         /\ o.kind = "retire" => n.generations = [g \in Registered(r) \ {o.gen} |-> r.generations[g]]
<1>. USE DEF Registry, Changed, Restrict
<1>1. CASE o.kind = "register"
  BY <1>1
<1>2. CASE o.kind = "rebind"
  BY <1>2
<1>3. CASE o.kind = "retire"
  BY <1>3
<1>4. CASE o.kind \in {"activate", "rollback"}
  BY <1>4
<1>. QED  BY <1>1, <1>2, <1>3, <1>4 DEF Kind

(* What change o may be about, in registry r.                              *)
Admissible(r, o) ==
  /\ o.kind \in Kind /\ o.gen \in Gen /\ o.inst \in Inc
  /\ o.kind # "register" => o.gen \in Registered(r)
  /\ o.kind = "retire" => o.gen \notin {r.active, r.previous}

(* Such a change makes a registry of the next epoch.                       *)
LEMMA ChangedIsRegistry ==
  ASSUME NEW r \in Registry, WellFormed(r), r.epoch <= MaxEpoch, NEW o, Admissible(r, o)
  PROVE  /\ Changed(r, o) \in Registry /\ WellFormed(Changed(r, o)) /\ Changed(r, o).epoch = r.epoch + 1
         /\ o.kind # "retire" => Registered(r) \subseteq Registered(Changed(r, o))
<1>. DEFINE m == r.generations
            g == o.gen
            n == Changed(r, o).generations
<1>1. MaxEpoch \in Nat /\ MaxInc \in Nat /\ First \in Inc
  BY ConstantsAssumption DEF First, Inc
<1>2. m \in [DOMAIN m -> Inc] /\ DOMAIN m \subseteq Gen /\ DOMAIN m = Registered(r)
  BY BindingsAre, RegistryIs DEF Registered
<1>. HIDE DEF n
<1>3. /\ n \in Bindings
      /\ o.kind # "retire" => DOMAIN m \subseteq DOMAIN n
      /\ o.kind = "retire" => DOMAIN n = DOMAIN m \ {g}
  <2>1. CASE o.kind = "register"
    <3>1. n = [h \in Registered(r) \cup {g} |-> IF h = g THEN First ELSE m[h]]
      BY <2>1, ChangedIs DEF Admissible, n
    <3>2. DOMAIN n = Registered(r) \cup {g} /\ n \in [DOMAIN n -> Inc]
      BY <3>1, <1>1, <1>2
    <3>. QED  BY <3>2, <1>2, AreBindings, <2>1 DEF Admissible
  <2>2. CASE o.kind = "rebind"
    <3>1. n = [m EXCEPT ![g] = o.inst]
      BY <2>2, ChangedIs DEF Admissible, n
    <3>2. DOMAIN n = DOMAIN m /\ n \in [DOMAIN n -> Inc]
      BY <3>1, <1>1, <1>2 DEF Admissible
    <3>. QED  BY <3>2, <1>2, AreBindings, <2>2
  <2>3. CASE o.kind = "retire"
    <3>1. n = [h \in Registered(r) \ {g} |-> m[h]]
      BY <2>3, ChangedIs DEF Admissible, n
    <3>2. DOMAIN n = Registered(r) \ {g} /\ n \in [DOMAIN n -> Inc]
      BY <3>1, <1>1, <1>2
    <3>. QED  BY <3>2, <1>2, AreBindings, <2>3
  <2>4. CASE o.kind \in {"activate", "rollback"}
    BY <2>4, ChangedIs, RegistryIs DEF Admissible, n
  <2>. QED  BY <2>1, <2>2, <2>3, <2>4 DEF Admissible, Kind
<1>4. r.epoch \in 0..MaxEpoch /\ r.active \in Gen \cup {None} /\ r.previous \in Gen \cup {None}
  BY RegistryIs, <1>1
<1>5. LET s == Changed(r, o) IN
      /\ s.epoch = r.epoch + 1
      /\ o.kind \in {"activate", "rollback"} => s.active = o.gen /\ s.previous = r.active
      /\ o.kind \notin {"activate", "rollback"} => s.active = r.active /\ s.previous = r.previous
      /\ s = [epoch |-> s.epoch, active |-> s.active, previous |-> s.previous, generations |-> n]
  BY ChangedIs DEF Admissible, n
<1>6. Changed(r, o) \in Registry
  BY <1>1, <1>3, <1>4, <1>5, IsRegistry DEF Admissible
<1>. QED  BY <1>3, <1>4, <1>5, <1>6 DEF WellFormed, Registered, Admissible, n

-----------------------------------------------------------------------------
(* The control plane: an invariant of the registries and of the chain of   *)
(* changes, whatever the requests and the backends do.                     *)

Step == {"idle", "queued", "probing", "fencing", "confirming", "writing", "renamed"}
Waiting == {"idle", "queued"}
OpType == [kind : Kind \cup {"none"}, gen : Gen \cup {None}, inst : Inc, saw : Registry]

ControlType ==
  /\ reg \in Registry /\ disk \in Registry /\ acked \in Registry
  /\ WellFormed(reg) /\ WellFormed(disk) /\ WellFormed(acked)
  /\ serial \in Seq(Controller)
  /\ op \in [Controller -> OpType]
  /\ step \in [Controller -> Step]
  /\ retiring \subseteq Gen
  /\ inc \in [Gen -> Inc]

(* The changes that were not answered wait in line, and only the first of  *)
(* them has begun.                                                         *)
Chain ==
  /\ ToSet(serial) = {c \in Controller : step[c] # "idle"} /\ IsInjective(serial)
  /\ \A c \in Controller : step[c] \notin Waiting => Turn(c)

(* A change that has begun is one the registry admits, and was meant for   *)
(* this epoch; once it is renamed, the file is what it makes of the        *)
(* registry in memory.                                                     *)
Progress(c) ==
  /\ step[c] \notin Waiting => Admissible(reg, op[c]) /\ Fresh(c)
  /\ step[c] = "renamed" => disk = Changed(reg, op[c])

(* Two registries of the same epoch are the same but for an active         *)
(* generation that one of them may have lost; an author saw the file, or   *)
(* what a blind router remembers of it.                                    *)
Like(s, r) == r = [s EXCEPT !.active = r.active] /\ (r.active = s.active \/ None \in {r.active, s.active})
Informed(c) ==
  step[c] # "idle" =>
    /\ op[c].saw.epoch < MaxEpoch /\ op[c].saw.epoch <= reg.epoch
    /\ op[c].saw.epoch = reg.epoch => Like(op[c].saw, reg)
    /\ op[c].saw.epoch = disk.epoch => op[c].saw \in {disk, Blinded(disk)}

(* The file is the registry in memory, but for the active generation, or   *)
(* one change ahead of it.                                                 *)
Renaming == \E c \in Controller : step[c] = "renamed"
Aligned ==
  \/ reg \in {disk, Blinded(disk)}
  \/ disk.epoch = reg.epoch + 1 /\ (reg.active = None \/ Renaming)

ControlInv ==
  /\ ControlType /\ Chain /\ Aligned /\ Superseding
  /\ \A c \in Controller : Progress(c) /\ Informed(c)

(* Only one change has begun.                                              *)
LEMMA OneAtATime ==
  ASSUME Chain, NEW c \in Controller, Turn(c)
  PROVE  \A d \in Controller \ {c} : step[d] \in Waiting
BY DEF Chain, Turn

(* Nothing of the control plane changes.                                   *)
LEMMA ControlFrame ==
  ASSUME ControlInv, UNCHANGED <<registryVars, controlVars>>, inc' \in [Gen -> Inc]
  PROVE  ControlInv'
BY DEF ControlInv, ControlType, Chain, Aligned, Superseding, Progress, Informed, registryVars, controlVars,
       Turn, Fresh, Renaming, WellFormed, Registered

(* Router and controllers start from one registry and no changes.          *)
LEMMA ControlInit == Init => ControlInv
<1>. SUFFICES ASSUME Init PROVE ControlInv
  OBVIOUS
<1>1. MaxEpoch \in Nat /\ MaxInc \in Nat /\ First \in Inc
  BY ConstantsAssumption DEF First, Inc
<1>2. EmptyRegistry \in Registry
  BY EmptyIsRegistry
<1>3. disk \in Registry /\ WellFormed(disk) /\ reg = disk /\ acked = disk
  BY ConstantsAssumption DEF Init
<1>4. ControlType
  BY <1>1, <1>2, <1>3 DEF Init, ControlType, OpType, Step, NoOp
<1>5. Chain
  <2>1. ToSet(<<>>) = {} /\ IsInjective(<<>>)
    BY EmptyQueue
  <2>2.. serial = <<>> /\ \A c \in Controller : step[c] = "idle"
    BY DEF Init
  <2>. QED  BY <2>1, <2>2 DEF Chain, Waiting
<1>6. Aligned /\ Superseding
  BY <1>3 DEF Aligned, Superseding, Supersedes
<1>7. ASSUME NEW c \in Controller PROVE Progress(c) /\ Informed(c)
  BY DEF Init, Progress, Informed, Waiting
<1>. QED  BY <1>4, <1>5, <1>6, <1>7 DEF ControlInv

(* A change ends, and the router serves from registry reg' from then on.   *)
LEMMA EndKeeps ==
  ASSUME ControlInv, NEW c \in Controller, Turn(c), step[c] # "idle", EndChange(c), disk' = disk, inc' = inc,
         reg' \in Registry, WellFormed(reg)', acked' \in Registry, WellFormed(acked)', Superseding',
         reg' \in {disk, Blinded(disk)} \/ (disk.epoch = reg'.epoch + 1 /\ reg'.active = None),
         \A d \in Controller \ {c} : step[d] # "idle" =>
           /\ op[d].saw.epoch <= reg'.epoch
           /\ op[d].saw.epoch = reg'.epoch => Like(op[d].saw, reg')
  PROVE  ControlInv' /\ \A d \in Controller : step'[d] \in Waiting
<1>. USE DEF EndChange
<1>1. EmptyRegistry \in Registry
  BY EmptyIsRegistry
<1>2. ControlType'
  <2>1. /\ serial \in Seq(Controller) /\ (serial # <<>> => Tail(serial) \in Seq(Controller))
        /\ op \in [Controller -> OpType] /\ step \in [Controller -> Step] /\ retiring \subseteq Gen
        /\ inc \in [Gen -> Inc] /\ disk \in Registry /\ WellFormed(disk)
    BY DEF ControlInv, ControlType
  <2>2. NoOp \in OpType
    BY <1>1, ConstantsAssumption DEF NoOp, OpType, Inc, First
  <2>3. WellFormed(disk)'
    BY <2>1 DEF WellFormed, Registered
  <2>4. serial' \in Seq(Controller)
    BY <2>1 DEF Turn
  <2>5. op' \in [Controller -> OpType] /\ step' \in [Controller -> Step] /\ retiring' \subseteq Gen
    BY <2>1, <2>2 DEF Step
  <2>. QED  BY <2>1, <2>3, <2>4, <2>5 DEF ControlType
<1>3. \A d \in Controller : step'[d] \in Waiting
  BY OneAtATime DEF ControlInv, ControlType, Waiting
<1>4. Chain'
  <2>1. serial \in Seq(Controller) /\ serial # <<>> /\ IsInjective(serial) /\ step \in [Controller -> Step]
    BY DEF ControlInv, ControlType, Chain, Turn
  <2>2. IsInjective(Tail(serial)) /\ ToSet(Tail(serial)) = ToSet(serial) \ {c}
    BY <2>1, TailQueue DEF Turn
  <2>3. {d \in Controller : step'[d] # "idle"} = {d \in Controller : step[d] # "idle"} \ {c}
    BY <2>1
  <2>. QED  BY <1>3, <2>2, <2>3 DEF Chain, ControlInv
<1>5. Aligned'
  BY DEF Aligned, Blinded
<1>6. ASSUME NEW d \in Controller PROVE (Progress(d) /\ Informed(d))'
  <2>1. Progress(d)'
    BY <1>3 DEF Progress, Waiting
  <2>2. Informed(d)'
    <3>1. CASE d = c
      BY <3>1 DEF Informed, ControlInv, ControlType
    <3>2. CASE d # c
      BY <3>2 DEF Informed, ControlInv, ControlType
    <3>. QED  BY <3>1, <3>2
  <2>. QED  BY <2>1, <2>2
<1>. QED  BY <1>2, <1>3, <1>4, <1>5, <1>6 DEF ControlInv

(* A change that ends before its write leaves the registries as they are.  *)
LEMMA EndUnwrittenKeeps ==
  ASSUME ControlInv, NEW c \in Controller, Turn(c), step[c] \notin {"idle", "renamed"}, EndChange(c),
         UNCHANGED registryVars, inc' = inc
  PROVE  ControlInv' /\ \A d \in Controller : step'[d] \in Waiting
<1>1. ~Renaming
  BY OneAtATime DEF ControlInv, Renaming, Waiting
<1>2. /\ reg' \in Registry /\ WellFormed(reg)' /\ acked' \in Registry /\ WellFormed(acked)' /\ Superseding'
      /\ reg' = reg /\ disk' = disk
  BY DEF ControlInv, ControlType, registryVars, Superseding, WellFormed, Registered
<1>3. \A d \in Controller \ {c} : step[d] # "idle" =>
           /\ op[d].saw.epoch <= reg'.epoch
           /\ op[d].saw.epoch = reg'.epoch => Like(op[d].saw, reg')
  BY <1>2 DEF ControlInv, Informed
<1>4. reg' \in {disk, Blinded(disk)} \/ (disk.epoch = reg'.epoch + 1 /\ reg'.active = None)
  BY <1>1, <1>2 DEF ControlInv, Aligned
<1>. QED  BY <1>2, <1>3, <1>4, EndKeeps

(* A change that is acknowledged.                                          *)
LEMMA AcknowledgeKeeps ==
  ASSUME ControlInv, NEW c \in Controller, Acknowledge(c)
  PROVE  ControlInv' /\ \A d \in Controller : step'[d] \in Waiting
<1>1. reg' = disk /\ acked' = disk /\ disk' = disk /\ inc' = inc /\ disk.epoch = reg.epoch + 1
  <2>1. step[c] = "renamed" /\ reg' = Changed(reg, op[c]) /\ acked' = reg' /\ disk' = disk /\ inc' = inc
    BY DEF Acknowledge, backendVars
  <2>2. disk = Changed(reg, op[c]) /\ op[c].kind \in Kind
    BY <2>1 DEF ControlInv, Progress, Admissible, Waiting
  <2>3. Changed(reg, op[c]).epoch = reg.epoch + 1
    BY <2>2, ChangedIs DEF ControlInv, ControlType
  <2>. QED  BY <2>1, <2>2, <2>3
<1>2. /\ reg' \in Registry /\ WellFormed(reg)' /\ acked' \in Registry /\ WellFormed(acked)' /\ Superseding'
  BY <1>1 DEF ControlInv, ControlType, Superseding, Supersedes, WellFormed, Registered
<1>3. \A d \in Controller \ {c} : step[d] # "idle" =>
           /\ op[d].saw.epoch <= reg'.epoch
           /\ op[d].saw.epoch = reg'.epoch => Like(op[d].saw, reg')
  <2>. SUFFICES ASSUME NEW d \in Controller \ {c}, step[d] # "idle"
       PROVE  op[d].saw.epoch <= disk.epoch /\ op[d].saw.epoch # disk.epoch
    BY <1>1
  <2>1. op[d].saw.epoch <= reg.epoch /\ op[d].saw.epoch \in Nat /\ reg.epoch \in Nat
    BY RegistryIs DEF ControlInv, ControlType, Informed, OpType
  <2>. QED  BY <1>1, <2>1
<1>. QED  BY <1>1, <1>2, <1>3, EndKeeps DEF Acknowledge

(* The registry in memory is never ahead of the file.                      *)
LEMMA FileAhead ==
  ASSUME ControlInv
  PROVE  reg.epoch \in Nat /\ disk.epoch \in Nat /\ reg.epoch <= disk.epoch
<1>1. reg.epoch \in Nat /\ disk.epoch \in Nat
  BY RegistryIs DEF ControlInv, ControlType
<1>2. Blinded(disk).epoch = disk.epoch
  BY BlindedIs DEF ControlInv, ControlType
<1>. QED  BY <1>1, <1>2 DEF ControlInv, Aligned

(* Blinding the router twice is blinding it once, and keeps whatever was   *)
(* known of its registry.                                                  *)
LEMMA BlindedAgain ==
  ASSUME NEW r \in Registry, NEW s \in Registry
  PROVE  /\ r \in {s, Blinded(s)} => Blinded(r) = Blinded(s)
         /\ Like(s, r) => Like(s, Blinded(r))
         /\ Supersedes(r, s) => Supersedes(Blinded(r), s)
BY DEF Registry, Blinded, Like, Supersedes

(* A change whose write failed.                                            *)
LEMMA WriteFailsKeeps ==
  ASSUME ControlInv, NEW c \in Controller, WriteFails(c)
  PROVE  ControlInv' /\ \A d \in Controller : step'[d] \in Waiting
<1>1. /\ Turn(c) /\ step[c] # "idle" /\ EndChange(c) /\ disk' = disk /\ acked' = acked /\ inc' = inc
      /\ reg' = disk \/ reg' = Blinded(reg)
  BY DEF WriteFails, Reconciled, Blinded, backendVars
<1>2. /\ acked' \in Registry /\ WellFormed(acked)' /\ disk \in Registry /\ reg \in Registry /\ acked \in Registry
      /\ WellFormed(reg) /\ WellFormed(disk)
  BY <1>1 DEF ControlInv, ControlType, WellFormed, Registered
<1>3. CASE reg' = disk
  <2>1. reg' \in Registry /\ WellFormed(reg)' /\ Superseding'
    BY <1>1, <1>2, <1>3 DEF ControlInv, Superseding, Supersedes, WellFormed, Registered
  <2>2. ASSUME NEW d \in Controller \ {c}, step[d] # "idle"
        PROVE  /\ op[d].saw.epoch <= disk.epoch
               /\ op[d].saw.epoch = disk.epoch => Like(op[d].saw, disk)
    <3>1. op[d].saw.epoch <= reg.epoch /\ op[d].saw.epoch \in Nat
      BY <2>2, RegistryIs DEF ControlInv, ControlType, Informed, OpType
    <3>2. op[d].saw \in {disk, Blinded(disk)} => Like(op[d].saw, disk)
      BY <1>2 DEF Like, Blinded, Registry
    <3>. QED  BY <2>2, <3>1, <3>2, FileAhead DEF ControlInv, Informed
  <2>. QED  BY <1>1, <1>2, <1>3, <2>1, <2>2, EndKeeps
<1>4. CASE reg' = Blinded(reg)
  <2>1. /\ reg' \in Registry /\ WellFormed(reg)' /\ Superseding'
        /\ reg'.epoch = reg.epoch /\ reg'.active = None
    BY <1>1, <1>2, <1>4, BlindedIs, BlindedAgain DEF ControlInv, Superseding, Supersedes, WellFormed, Registered
  <2>2. reg' \in {disk, Blinded(disk)} \/ (disk.epoch = reg'.epoch + 1 /\ reg'.active = None)
    BY <1>2, <1>4, <2>1, BlindedAgain DEF ControlInv, Aligned
  <2>3. ASSUME NEW d \in Controller \ {c}, step[d] # "idle"
        PROVE  /\ op[d].saw.epoch <= reg'.epoch
               /\ op[d].saw.epoch = reg'.epoch => Like(op[d].saw, reg')
    <3>1. op[d].saw \in Registry
      BY DEF ControlInv, ControlType, OpType
    <3>. QED  BY <1>2, <1>4, <2>1, <2>3, <3>1, BlindedAgain DEF ControlInv, Informed
  <2>. QED  BY <1>1, <1>2, <2>1, <2>2, <2>3, EndKeeps
<1>. QED  BY <1>1, <1>3, <1>4

(* A controller sends a change for the registry it saw.                    *)
LEMMA IssueKeeps ==
  ASSUME ControlInv, NEW c \in Controller, Issue(c)
  PROVE  ControlInv'
<1>. USE DEF Issue, registryVars, backendVars
<1>1. reg' = reg /\ disk' = disk /\ acked' = acked /\ inc' = inc /\ retiring' = retiring
  OBVIOUS
<1>2. serial \in Seq(Controller) /\ op \in [Controller -> OpType] /\ step \in [Controller -> Step] /\ step[c] = "idle"
  BY DEF ControlInv, ControlType
<1>3. c \notin ToSet(serial) /\ IsInjective(serial)
  BY <1>2 DEF ControlInv, Chain
<1>4. serial' \in Seq(Controller) /\ IsInjective(serial') /\ ToSet(serial') = ToSet(serial) \cup {c}
  BY <1>2, <1>3, AppendQueue
<1>5. op' \in [Controller -> OpType] /\ op'[c].saw = reg /\ \A d \in Controller \ {c} : op'[d] = op[d]
  BY <1>2 DEF ControlInv, ControlType, OpType
<1>6. ControlType'
  BY <1>1, <1>2, <1>4, <1>5 DEF ControlInv, ControlType, Step, WellFormed, Registered
<1>7. Chain'
  <2>1. {d \in Controller : step'[d] # "idle"} = {d \in Controller : step[d] # "idle"} \cup {c}
    BY <1>2
  <2>2. ASSUME NEW d \in Controller, step'[d] \notin Waiting
        PROVE  serial' # <<>> /\ Head(serial') = d
    <3>1. step[d] \notin Waiting
      BY <1>2, <2>2 DEF Waiting
    <3>2. serial # <<>> /\ Head(serial) = d
      BY <3>1 DEF ControlInv, Chain, Turn
    <3>3. serial' = Append(serial, c)
      OBVIOUS
    <3>. QED  BY <1>2, <3>2, <3>3, HeadOfLonger
  <2>. QED  BY <1>4, <2>1, <2>2 DEF ControlInv, Chain, Turn
<1>8. (Aligned /\ Superseding)'
  BY <1>1, <1>2 DEF ControlInv, Aligned, Superseding, Renaming
<1>9. ASSUME NEW d \in Controller PROVE (Progress(d) /\ Informed(d))'
  <2>1. CASE d = c
    <3>1. reg.epoch < MaxEpoch /\ reg.epoch <= reg.epoch /\ Like(reg, reg)
      BY FileAhead DEF Like, ControlInv, ControlType, Registry
    <3>2. reg.epoch = disk.epoch => reg \in {disk, Blinded(disk)}
      BY FileAhead DEF ControlInv, Aligned
    <3>. QED  BY <1>1, <1>2, <1>5, <2>1, <3>1, <3>2 DEF Progress, Informed, Waiting
  <2>2. CASE d # c
    BY <1>1, <1>2, <1>5, <2>2 DEF ControlInv, Progress, Informed, Fresh, Waiting
  <2>. QED  BY <2>1, <2>2
<1>. QED  BY <1>6, <1>7, <1>8, <1>9 DEF ControlInv

(* A change begins: it is one the registry admits, for the epoch its       *)
(* author saw.                                                             *)
LEMMA ChosenKeeps ==
  ASSUME ControlInv, NEW c \in Controller, Turn(c), step[c] = "queued", Fresh(c),
         NEW k \in Kind, NEW g \in Gen, NEW i \in Inc, Permitted(k, g, i),
         op' = [op EXCEPT ![c] = [kind |-> k, gen |-> g, inst |-> i, saw |-> @.saw]],
         step' = [step EXCEPT ![c] = IF k = "retire" THEN "fencing" ELSE "probing"],
         retiring' = IF k = "retire" THEN retiring \cup {g} ELSE retiring,
         UNCHANGED <<reg, disk, acked, serial, inc>>
  PROVE  ControlInv'
<1>1. op \in [Controller -> OpType] /\ step \in [Controller -> Step] /\ reg \in Registry
  BY DEF ControlInv, ControlType
<1>2. /\ op' \in [Controller -> OpType] /\ op'[c].saw = op[c].saw
      /\ op'[c].kind = k /\ op'[c].gen = g /\ op'[c].inst = i
      /\ \A d \in Controller \ {c} : op'[d] = op[d]
  BY <1>1 DEF OpType
<1>3. step' \in [Controller -> Step] /\ step'[c] \notin {"idle", "renamed"} /\ \A d \in Controller \ {c} : step'[d] = step[d]
  BY <1>1 DEF Step
<1>4. ControlType'
  BY <1>2, <1>3 DEF ControlInv, ControlType, WellFormed, Registered
<1>5. Chain'
  BY <1>3 DEF ControlInv, Chain, Turn, Waiting
<1>6. ~Renaming /\ ~Renaming'
  BY <1>3, OneAtATime DEF ControlInv, Renaming, Waiting
<1>7. (Aligned /\ Superseding)'
  BY <1>6 DEF ControlInv, Aligned, Superseding
<1>8. ASSUME NEW d \in Controller PROVE (Progress(d) /\ Informed(d))'
  <2>1. CASE d = c
    <3>1. Admissible(reg, op'[c])
      BY <1>2 DEF Admissible, Permitted
    <3>2. Fresh(c)'
      BY <1>2 DEF Fresh
    <3>3. Progress(c)'
      BY <1>3, <3>1, <3>2 DEF Progress
    <3>4. Informed(c)'
      BY <1>2 DEF ControlInv, Informed
    <3>. QED  BY <2>1, <3>3, <3>4
  <2>2. CASE d # c
    BY <1>2, <1>3, <2>2 DEF ControlInv, Progress, Informed, Fresh
  <2>. QED  BY <2>1, <2>2
<1>. QED  BY <1>4, <1>5, <1>7, <1>8 DEF ControlInv

(* So does whatever a controller may begin with.                          *)
LEMMA BeginKeeps ==
  ASSUME ControlInv, NEW c \in Controller, Begin(c)
  PROVE  ControlInv'
<1>. USE DEF Begin
<1>1. PICK k \in Kind, g \in Gen : \E i \in IF k = "rebind" THEN First..inc[g] ELSE {First} :
       /\ Permitted(k, g, i)
       /\ op' = [op EXCEPT ![c] = [kind |-> k, gen |-> g, inst |-> i, saw |-> @.saw]]
       /\ step' = [step EXCEPT ![c] = IF k = "retire" THEN "fencing" ELSE "probing"]
       /\ retiring' = IF k = "retire" THEN retiring \cup {g} ELSE retiring
  OBVIOUS
<1>2. IF k = "rebind" THEN First..inc[g] \subseteq Inc ELSE First \in Inc
  BY ConstantsAssumption DEF ControlInv, ControlType, Inc, First
<1>3. (IF k = "rebind" THEN First..inc[g] ELSE {First}) \subseteq Inc
  BY <1>2
<1>4. UNCHANGED <<reg, disk, acked, serial, inc>>
  BY DEF registryVars, backendVars
<1>. QED  BY <1>1, <1>3, <1>4, ChosenKeeps

(* A change goes on to its next call, or to its write.                     *)
LEMMA AdvanceKeeps ==
  ASSUME ControlInv, NEW c \in Controller, Turn(c), step[c] \notin {"idle", "queued", "renamed"},
         NEW s \in {"confirming", "writing"}, step' = [step EXCEPT ![c] = s],
         UNCHANGED <<registryVars, serial, op, retiring, inc>>
  PROVE  ControlInv'
<1>. USE DEF registryVars
<1>1. step \in [Controller -> Step]
  BY DEF ControlInv, ControlType
<1>2. step' \in [Controller -> Step] /\ step'[c] = s /\ \A d \in Controller \ {c} : step'[d] = step[d]
  BY <1>1 DEF Step
<1>3. ControlType'
  BY <1>2 DEF ControlInv, ControlType, WellFormed, Registered
<1>4. Chain'
  BY <1>2 DEF ControlInv, Chain, Turn, Waiting
<1>5. ~Renaming /\ ~Renaming'
  BY <1>2, OneAtATime DEF ControlInv, Renaming, Waiting
<1>6. (Aligned /\ Superseding)'
  BY <1>5 DEF ControlInv, Aligned, Superseding
<1>7. ASSUME NEW d \in Controller PROVE (Progress(d) /\ Informed(d))'
  BY <1>2 DEF ControlInv, Progress, Informed, Fresh, Waiting
<1>. QED  BY <1>3, <1>4, <1>6, <1>7 DEF ControlInv

(* The rename publishes the next registry: one epoch on, whatever was in   *)
(* the file.                                                               *)
LEMMA RenameKeeps ==
  ASSUME ControlInv, NEW c \in Controller, Rename(c)
  PROVE  ControlInv'
<1>. USE DEF Rename, backendVars
<1>1. /\ Turn(c) /\ step[c] = "writing" /\ disk' = Changed(reg, op[c]) /\ step' = [step EXCEPT ![c] = "renamed"]
      /\ reg' = reg /\ acked' = acked /\ serial' = serial /\ op' = op /\ retiring' = retiring /\ inc' = inc
  OBVIOUS
<1>2. step \in [Controller -> Step] /\ reg \in Registry /\ WellFormed(reg) /\ reg.epoch \in Nat
  BY FileAhead DEF ControlInv, ControlType
<1>3. step' \in [Controller -> Step] /\ step'[c] = "renamed" /\ \A d \in Controller \ {c} : step'[d] = step[d]
  BY <1>1, <1>2 DEF Step
<1>4. Admissible(reg, op[c]) /\ reg.epoch < MaxEpoch
  BY <1>1 DEF ControlInv, Progress, Informed, Fresh, Waiting
<1>5. disk' \in Registry /\ WellFormed(disk)' /\ disk'.epoch = reg.epoch + 1
  <2>1. reg.epoch <= MaxEpoch
    BY <1>2, <1>4, ConstantsAssumption
  <2>. QED  BY <1>1, <1>2, <1>4, <2>1, ChangedIsRegistry DEF WellFormed, Registered
<1>6. ControlType'
  BY <1>1, <1>3, <1>5 DEF ControlInv, ControlType, WellFormed, Registered
<1>7. Chain'
  BY <1>1, <1>3 DEF ControlInv, Chain, Turn, Waiting
<1>8. Aligned'
  BY <1>1, <1>3, <1>5 DEF Aligned, Renaming
<1>9. Superseding'
  <2>1. acked.epoch \in Nat /\ acked.epoch <= reg.epoch
    <3>1. acked.epoch \in Nat /\ Blinded(acked).epoch = acked.epoch
      BY RegistryIs, BlindedIs DEF ControlInv, ControlType
    <3>2. reg.epoch > acked.epoch \/ reg \in {acked, Blinded(acked)}
      BY DEF ControlInv, Superseding, Supersedes, Blinded
    <3>. QED  BY <1>2, <3>1, <3>2
  <2>2. disk'.epoch > acked'.epoch
    BY <1>1, <1>2, <1>5, <2>1
  <2>. QED  BY <1>1, <2>2 DEF ControlInv, Superseding, Supersedes
<1>10. ASSUME NEW d \in Controller PROVE (Progress(d) /\ Informed(d))'
  <2>1. Informed(d)'
    <3>1. op[d].saw.epoch \in Nat
      BY RegistryIs DEF ControlInv, ControlType, OpType
    <3>. QED  BY <1>1, <1>2, <1>3, <1>5, <3>1 DEF ControlInv, Informed
  <2>2. Progress(d)'
    BY <1>1, <1>3, OneAtATime DEF ControlInv, Progress, Fresh, Waiting
  <2>. QED  BY <2>1, <2>2
<1>. QED  BY <1>6, <1>7, <1>8, <1>9, <1>10 DEF ControlInv

(* The router starts again from the file, and has forgotten every change.  *)
LEMMA RestartKeeps == ControlInv /\ RouterRestarts => ControlInv'
<1>. SUFFICES ASSUME ControlInv, RouterRestarts PROVE ControlInv'
  OBVIOUS
<1>1. /\ reg' = disk /\ disk' = disk /\ acked' = acked /\ inc' = inc /\ serial' = <<>> /\ retiring' = {}
      /\ op' = [c \in Controller |-> NoOp] /\ step' = [c \in Controller |-> "idle"]
  BY DEF RouterRestarts, backendVars
<1>2. NoOp \in OpType
  BY EmptyIsRegistry, ConstantsAssumption DEF NoOp, OpType, Inc, First
<1>3. ControlType'
  BY <1>1, <1>2 DEF ControlInv, ControlType, Step, WellFormed, Registered
<1>4. Chain'
  <2>1. ToSet(<<>>) = {} /\ IsInjective(<<>>)
    BY EmptyQueue
  <2>. QED  BY <1>1, <2>1 DEF Chain, Waiting
<1>5. (Aligned /\ Superseding)'
  BY <1>1 DEF ControlInv, Aligned, Superseding, Supersedes
<1>6. ASSUME NEW c \in Controller PROVE (Progress(c) /\ Informed(c))'
  BY <1>1 DEF Progress, Informed, Waiting
<1>. QED  BY <1>3, <1>4, <1>5, <1>6 DEF ControlInv

(* The steps of a change.                                                  *)
LEMMA ControlStepKeeps ==
  ASSUME ControlInv, NEW c \in Controller, ControlStep(c)
  PROVE  ControlInv'
<1>1. CASE Begin(c)
  BY <1>1, BeginKeeps
<1>2. CASE BeginRefused(c) \/ CallFails(c)
  BY <1>2, EndUnwrittenKeeps DEF BeginRefused, CallFails, backendVars
<1>3. CASE ProbeAnswered(c) /\ NeedsCommit(c)
  <2>1. /\ Turn(c) /\ step[c] = "probing" /\ step' = [step EXCEPT ![c] = "writing"]
        /\ UNCHANGED <<registryVars, serial, op, retiring, inc>>
    BY <1>3 DEF ProbeAnswered, backendVars
  <2>. QED  BY <2>1, AdvanceKeeps
<1>4. CASE ProbeAnswered(c) /\ ~NeedsCommit(c)
  BY <1>4, EndUnwrittenKeeps DEF ProbeAnswered, backendVars
<1>5. CASE BackendFences(c)
  <2>1. /\ Turn(c) /\ step[c] = "fencing" /\ step' = [step EXCEPT ![c] = "confirming"]
        /\ UNCHANGED <<registryVars, serial, op, retiring, inc>>
    BY <1>5 DEF BackendFences
  <2>. QED  BY <2>1, AdvanceKeeps
<1>6. CASE FenceConfirmed(c)
  <2>1. /\ Turn(c) /\ step[c] = "confirming" /\ step' = [step EXCEPT ![c] = "writing"]
        /\ UNCHANGED <<registryVars, serial, op, retiring, inc>>
    BY <1>6 DEF FenceConfirmed, backendVars
  <2>. QED  BY <2>1, AdvanceKeeps
<1>7. CASE Rename(c)
  BY <1>7, RenameKeeps
<1>8. CASE Acknowledge(c)
  BY <1>8, AcknowledgeKeeps
<1>9. CASE WriteFails(c)
  BY <1>9, WriteFailsKeeps
<1>. QED  BY <1>1, <1>2, <1>3, <1>4, <1>5, <1>6, <1>7, <1>8, <1>9 DEF ControlStep

PlaneStep(r) == Arrive(r) \/ Route(r) \/ RouteRefused(r) \/ Reply(r) \/ Fail(r) \/ Cancel(r)
TransportStep(r) == Deliver(r) \/ Complete(r) \/ Drop(r)

(* Requests, their connections and resources leave the control plane       *)
(* alone, and so does a backend, which only ever gets a higher incarnation.*)
LEMMA OthersLeaveControl ==
  /\ \A r \in Request : PlaneStep(r) \/ TransportStep(r) => UNCHANGED <<registryVars, controlVars, inc>>
  /\ \A g \in Gen, h \in Launcher : ResourceEnds(g, h) => UNCHANGED <<registryVars, controlVars, inc>>
  /\ \A g \in Gen : BackendRestarts(g) => UNCHANGED <<registryVars, controlVars>>
BY DEF PlaneStep, TransportStep, Arrive, Route, RouteRefused, Reply, Fail, Cancel, Deliver, Complete, Drop,
       ResourceEnds, BackendRestarts, backendVars

(* A backend starts again as its next incarnation.                         *)
LEMMA NextIncarnation ==
  ASSUME inc \in [Gen -> Inc], NEW g \in Gen, BackendRestarts(g)
  PROVE  inc' \in [Gen -> Inc] /\ inc'[g] = inc[g] + 1 /\ inc'[g] # First /\ \A h \in Gen \ {g} : inc'[h] = inc[h]
BY ConstantsAssumption DEF BackendRestarts, Inc, First

(* The steps of Next, by who takes them.                                   *)
LEMMA NextCases ==
  ASSUME [Next]_vars
  PROVE  \/ \E c \in Controller : Issue(c) \/ ControlStep(c)
         \/ \E r \in Request : PlaneStep(r) \/ TransportStep(r)
         \/ RouterRestarts
         \/ \E g \in Gen : BackendRestarts(g) \/ \E h \in Launcher : ResourceEnds(g, h)
         \/ UNCHANGED vars
BY Zenon DEF Next, PlaneStep, TransportStep

(* Every step keeps the invariant of the control plane.                    *)
LEMMA ControlNext == ControlInv /\ [Next]_vars => ControlInv'
<1>. SUFFICES ASSUME ControlInv, [Next]_vars PROVE ControlInv'
  OBVIOUS
<1>1. inc \in [Gen -> Inc]
  BY DEF ControlInv, ControlType
<1>2. ASSUME NEW c \in Controller, Issue(c) \/ ControlStep(c) PROVE ControlInv'
  BY <1>2, IssueKeeps, ControlStepKeeps
<1>3. ASSUME NEW r \in Request, PlaneStep(r) \/ TransportStep(r) PROVE ControlInv'
  BY <1>1, <1>3, OthersLeaveControl, ControlFrame
<1>4. CASE RouterRestarts
  BY <1>4, RestartKeeps
<1>5. ASSUME NEW g \in Gen, BackendRestarts(g) \/ \E h \in Launcher : ResourceEnds(g, h) PROVE ControlInv'
  BY <1>1, <1>5, OthersLeaveControl, NextIncarnation, ControlFrame
<1>6. CASE UNCHANGED vars
  BY <1>1, <1>6, ControlFrame DEF vars, backendVars
<1>. QED  BY <1>2, <1>3, <1>4, <1>5, <1>6, NextCases

(* ControlInv holds of every control plane the router can reach.           *)
THEOREM ControlInvariance == Spec => []ControlInv
<1>. QED  BY ControlInit, ControlNext, PTL DEF Spec

(* The router routes as its file says, or nowhere, unless it is between    *)
(* the rename and the acknowledgement of a change (router.ts:126-127).     *)
THEOREM AlwaysRoutesAsOnDisk == Spec => []RoutesAsOnDisk
<1>1. ControlInv => RoutesAsOnDisk
  BY BlindedIs DEF ControlInv, ControlType, Aligned, Renaming, RoutesAsOnDisk
<1>. QED  BY <1>1, ControlInvariance, PTL

(* A change makes one decision.                                            *)
LEMMA ChangedSucceeds ==
  ASSUME NEW r \in Registry, NEW o, Admissible(r, o)
  PROVE  Succeeds(r, Changed(r, o))
<1>. DEFINE s == Changed(r, o)
            m == r.generations
            g == o.gen
<1>1. s.epoch = r.epoch + 1
  BY ChangedIs DEF Admissible
<1>2. CASE o.kind \in {"activate", "rollback"}
  <2>1. s.generations = r.generations /\ s.active = g /\ s.previous = r.active /\ g \in Registered(r)
    BY <1>2, ChangedIs DEF Admissible
  <2>. QED  BY <1>1, <2>1 DEF Succeeds
<1>3. CASE o.kind \notin {"activate", "rollback"}
  <2>1. s.active = r.active /\ s.previous = r.previous /\ g \in Gen
    BY <1>3, ChangedIs DEF Admissible
  <2>2. Restrict(s.generations, Registered(s) \ {g}) = Restrict(m, Registered(r) \ {g})
    <3>1. CASE o.kind = "register"
      <4>1. s.generations = [h \in Registered(r) \cup {g} |-> IF h = g THEN First ELSE m[h]]
        BY <3>1, ChangedIs DEF Admissible
      <4>. HIDE DEF s
      <4>. QED  BY <4>1 DEF Restrict, Registered
    <3>2. CASE o.kind = "rebind"
      <4>1. s.generations = [m EXCEPT ![g] = o.inst]
        BY <3>2, ChangedIs DEF Admissible
      <4>2. m \in [DOMAIN m -> Inc]
        BY RegistryIs, BindingsAre
      <4>. HIDE DEF s
      <4>. QED  BY <4>1, <4>2 DEF Restrict, Registered
    <3>3. CASE o.kind = "retire"
      <4>1. s.generations = [h \in Registered(r) \ {g} |-> m[h]]
        BY <3>3, ChangedIs DEF Admissible
      <4>. HIDE DEF s
      <4>. QED  BY <4>1 DEF Restrict, Registered
    <3>. QED  BY <1>3, <3>1, <3>2, <3>3 DEF Admissible, Kind
  <2>. QED  BY <1>1, <2>1, <2>2 DEF Succeeds
<1>. QED  BY <1>2, <1>3

(* Only a rename publishes: it changes the file, and is what makes a       *)
(* change renamed.                                                         *)
LEMMA OnlyRenamePublishes ==
  ASSUME ControlInv, [Next]_vars
  PROVE  /\ disk' # disk => \E c \in Controller : Rename(c)
         /\ \A c \in Controller : step[c] = "writing" /\ step'[c] = "renamed" => Rename(c)
<1>0. step \in [Controller -> Step]
  BY DEF ControlInv, ControlType
<1>1. ASSUME NEW r \in Request, PlaneStep(r) \/ TransportStep(r) PROVE disk' = disk /\ step' = step
  BY <1>1, OthersLeaveControl DEF registryVars, controlVars
<1>2. ASSUME NEW g \in Gen, BackendRestarts(g) \/ \E h \in Launcher : ResourceEnds(g, h)
      PROVE  disk' = disk /\ step' = step
  BY <1>2, OthersLeaveControl DEF registryVars, controlVars
<1>3. RouterRestarts => disk' = disk /\ \A c \in Controller : step'[c] = "idle"
  BY DEF RouterRestarts
<1>4. UNCHANGED vars => disk' = disk /\ step' = step
  BY DEF vars, registryVars, controlVars
<1>5. ASSUME NEW c \in Controller, Issue(c) \/ ControlStep(c), ~Rename(c)
      PROVE  disk' = disk /\ \A d \in Controller : step'[d] = "renamed" => step[d] = "renamed"
  BY <1>0, <1>5 DEF Issue, ControlStep, Begin, BeginRefused, ProbeAnswered, CallFails, BackendFences, FenceConfirmed,
                    Acknowledge, WriteFails, EndChange, registryVars
<1>6. ASSUME NEW c \in Controller, Rename(c), NEW d \in Controller, step[d] = "writing", step'[d] = "renamed"
      PROVE  d = c
  BY <1>0, <1>6 DEF Rename
<1>. QED  BY <1>1, <1>2, <1>3, <1>4, <1>5, <1>6, NextCases

(* What a change is published over: the file, or what a blind router       *)
(* remembers, which is what the author saw without the active generation.  *)
LEMMA PublishedOver ==
  ASSUME ControlInv, NEW c \in Controller, Rename(c)
  PROVE  /\ reg \in Registry /\ Admissible(reg, op[c]) /\ disk' = Changed(reg, op[c])
         /\ Blind => reg.active = None /\ Like(op[c].saw, reg)
         /\ ~Blind => reg = disk /\ op[c].saw \in {disk, Blinded(disk)}
<1>1. ~Renaming
  BY OneAtATime DEF ControlInv, Renaming, Waiting, Rename
<1>2. Blind => reg.active = None
  BY <1>1, BlindedIs DEF ControlInv, ControlType, Aligned, Blind
<1>3. ~Blind => reg = disk
  BY <1>1 DEF Blind, Renaming
<1>4. Admissible(reg, op[c]) /\ Like(op[c].saw, reg)
  BY DEF Rename, ControlInv, Progress, Informed, Fresh, Waiting
<1>5. ~Blind => op[c].saw \in {disk, Blinded(disk)}
  BY <1>3 DEF Rename, ControlInv, Progress, Informed, Fresh, Waiting
<1>. QED  BY <1>2, <1>3, <1>4, <1>5 DEF Rename, ControlInv, ControlType

(* An acknowledged change is never undone, by failed writes and restarts   *)
(* of the router, and each decision published leaves what it does not      *)
(* change in force: of the file, or of what a blind router remembers       *)
(* (router.ts:119-131, 154-219).                                           *)
THEOREM AcknowledgedAlwaysHolds == Spec => AcknowledgedHolds
<1> DEFINE Decides == disk' # disk => Succeeds(IF Blind THEN reg ELSE disk, disk')
           Holds == Superseding /\ Superseding' /\ Decides
<1>1. ControlInv /\ ControlInv' /\ [Next]_vars => [Holds]_vars
  <2>1. ControlInv => Superseding
    BY DEF ControlInv
  <2>2. ControlInv' => Superseding'
    BY DEF ControlInv
  <2>3. ControlInv /\ [Next]_vars => [Decides]_vars
    BY OnlyRenamePublishes, PublishedOver, ChangedSucceeds
  <2>. QED  BY <2>1, <2>2, <2>3
<1>. QED  BY <1>1, ControlInvariance, PTL DEF Spec, AcknowledgedHolds

(* A change is published over the registry its author saw, or by a blind   *)
(* router over all of it but the active generation (router.ts:224-231).    *)
THEOREM NoUpdateIsLost == Spec => NoLostUpdate
<1> DEFINE Informs(c) == LET saw == op[c].saw IN
             IF Blind THEN disk' = Changed([saw EXCEPT !.active = None], op[c])
             ELSE saw \in {disk, [disk EXCEPT !.active = None]} /\ disk' = Changed(disk, op[c])
           Published == \A c \in Controller : step[c] = "writing" /\ step'[c] = "renamed" => Informs(c)
<1>1. ControlInv /\ [Next]_vars => [Published]_vars
  <2>. SUFFICES ASSUME ControlInv, NEW c \in Controller, Rename(c) PROVE Informs(c)
    BY OnlyRenamePublishes
  <2>1. CASE Blind
    <3>1. reg = [op[c].saw EXCEPT !.active = None]
      BY <2>1, PublishedOver DEF Like
    <3>. QED  BY <2>1, <3>1, PublishedOver
  <2>2. CASE ~Blind
    <3>1. op[c].saw \in {disk, Blinded(disk)} /\ disk' = Changed(disk, op[c])
      BY <2>2, PublishedOver
    <3>. QED  BY <2>2, <3>1 DEF Blinded
  <2>. QED  BY <2>1, <2>2
<1>. QED  BY <1>1, ControlInvariance, PTL DEF Spec, NoLostUpdate

-----------------------------------------------------------------------------
(* The requests: where each of them is, and how many the router holds.     *)

PlaneType ==
  /\ status \in [Request -> {"idle", "reading", "sent", "replied", "refused", "unknown", "cancelled", "lost"}]
  /\ at \in [Request -> {"nowhere", "travelling", "executing", "turnedAway", "done", "gone"}]
  /\ gen \in [Request -> Gen \cup {None}] /\ want \in [Request -> Inc]
  /\ target \in [Request -> Launcher \cup {None}]
  /\ fenced \in [Gen -> BOOLEAN] /\ resources \in [Gen -> SUBSET Launcher]
  /\ inFlight \in [Gen -> Nat] /\ admitted \in Nat /\ exchanges \in [Key -> SUBSET Request]

(* What the router says of a request agrees with where it is.              *)
Place(r) ==
  /\ status[r] \in {"idle", "reading"} => at[r] = "nowhere"
  /\ status[r] = "refused" => at[r] \in {"nowhere", "turnedAway"}
  /\ status[r] = "replied" => at[r] = "done"
  /\ status[r] = "sent" \/ at[r] # "nowhere" => gen[r] \in Gen

(* The counters and the map are those of the requests held, which are      *)
(* finitely many, however many requests there are.                         *)
Carried(g) == {r \in Request : status[r] = "sent" /\ gen[r] = g}
Keyed(k) == {r \in Request : status[r] = "sent" /\ KeyOf(r) = k}
Counts ==
  /\ IsFiniteSet(Held) /\ admitted = Cardinality(Held)
  /\ \A g \in Gen : inFlight[g] = Cardinality(Carried(g))
  /\ \A k \in Key : exchanges[k] = Keyed(k)

PlaneInv == PlaneType /\ Counts /\ \A r \in Request : Place(r)

(* The requests sent to a generation are requests held.                    *)
LEMMA CarriedFinite ==
  ASSUME Counts, NEW g \in Gen
  PROVE  IsFiniteSet(Carried(g)) /\ Cardinality(Carried(g)) \in Nat
<1>1. Carried(g) \subseteq Held
  BY DEF Carried, Held
<1>. QED  BY <1>1, FS_Subset, FS_CardinalityType DEF Counts

(* What the finally block leaves of a counter.                             *)
LEMMA OneLess == ASSUME NEW n \in Nat PROVE Max({0, n - 1}) = IF n = 0 THEN 0 ELSE n - 1
BY DEF Max

(* The counts are about nothing but the state of the requests.             *)
LEMMA CountsFrame ==
  ASSUME Counts, UNCHANGED planeVars
  PROVE  Counts'
BY DEF Counts, Held, Carried, Keyed, planeVars

(* No request is held when the router starts.                              *)
LEMMA NoneHeld ==
  ASSUME Held = {}, admitted = 0, inFlight = [g \in Gen |-> 0], exchanges = [k \in Key |-> {}]
  PROVE  Counts
<1>1. \A g \in Gen : Carried(g) = {}
  BY DEF Held, Carried
<1>2. \A k \in Key : Keyed(k) = {}
  BY DEF Held, Keyed
<1>. QED  BY <1>1, <1>2, FS_EmptySet DEF Counts

(* The requests when the router first starts.                              *)
LEMMA PlaneInit == Init => PlaneInv
<1>. SUFFICES ASSUME Init PROVE PlaneInv
  OBVIOUS
<1>1. PlaneType
  BY ConstantsAssumption DEF Init, PlaneType, Inc, First
<1>2. Held = {}
  BY DEF Init, Held
<1>3. Counts
  BY <1>2, NoneHeld DEF Init
<1>4. ASSUME NEW r \in Request PROVE Place(r)
  BY DEF Init, Place
<1>. QED  BY <1>1, <1>3, <1>4 DEF PlaneInv

(* A request arrives, and is held if there is room.                        *)
LEMMA ArriveKeeps ==
  ASSUME PlaneInv, NEW r \in Request, Arrive(r)
  PROVE  PlaneInv'
<1>. USE DEF Arrive, backendVars
<1>1. /\ status[r] = "idle" /\ UNCHANGED <<gen, target, want, inFlight, exchanges, at, fenced, resources>>
      /\ \E s \in {"reading", "refused"} : status' = [status EXCEPT ![r] = s]
      /\ PlaneType
  BY DEF PlaneInv
<1>2. PlaneType'
  BY <1>1 DEF PlaneType
<1>3. \A g \in Gen : Carried(g)' = Carried(g)
  BY <1>1 DEF PlaneType, Carried
<1>4. \A k \in Key : Keyed(k)' = Keyed(k)
  BY <1>1 DEF PlaneType, Keyed
<1>5. IsFiniteSet(Held') /\ admitted' = Cardinality(Held')
  <2>1. CASE admitted < MaxAdmitted
    <3>1. Held' = Held \cup {r} /\ r \notin Held
      BY <1>1, <2>1 DEF PlaneType, Held
    <3>. QED  BY <2>1, <3>1, FS_AddElement DEF PlaneInv, Counts
  <2>2. CASE ~(admitted < MaxAdmitted)
    <3>1. Held' = Held
      BY <1>1, <2>2 DEF PlaneType, Held
    <3>. QED  BY <2>2, <3>1 DEF PlaneInv, Counts
  <2>. QED  BY <2>1, <2>2
<1>6. ASSUME NEW q \in Request PROVE Place(q)'
  BY <1>1 DEF PlaneInv, PlaneType, Place
<1>. QED  BY <1>1, <1>2, <1>3, <1>4, <1>5, <1>6 DEF PlaneInv, Counts

(* A request is routed to a registered generation.                         *)
LEMMA RouteKeeps ==
  ASSUME ControlType, PlaneInv, NEW r \in Request, Route(r)
  PROVE  PlaneInv'
<1>. USE DEF Route, backendVars
<1>1. PICK h \in {None} \cup Handles :
       /\ Routable(Owner(h))
       /\ gen' = [gen EXCEPT ![r] = Owner(h)]
       /\ target' = [target EXCEPT ![r] = h]
       /\ want' = [want EXCEPT ![r] = reg.generations[Owner(h)]]
       /\ inFlight' = [inFlight EXCEPT ![Owner(h)] = @ + 1]
  OBVIOUS
<1>2. PICK g \in Gen : g = Owner(h) /\ reg.generations[g] \in Inc /\ h \in Launcher \cup {None}
  BY <1>1, RegistryIs DEF ControlType, Routable, Handles
<1>3. /\ status[r] = "reading" /\ status' = [status EXCEPT ![r] = "sent"] /\ at' = [at EXCEPT ![r] = "travelling"]
      /\ exchanges' = IF KeyOf(r) = None THEN exchanges ELSE [exchanges EXCEPT ![KeyOf(r)] = @ \cup {r}]
      /\ UNCHANGED <<admitted, fenced, resources>> /\ PlaneType
      /\ gen' = [gen EXCEPT ![r] = g] /\ inFlight' = [inFlight EXCEPT ![g] = @ + 1]
  BY <1>1, <1>2 DEF PlaneInv
<1>4. PlaneType'
  BY <1>1, <1>2, <1>3, ConstantsAssumption DEF PlaneType
<1>5. Held' = Held
  BY <1>3 DEF PlaneType, Held
<1>6. Carried(g)' = Carried(g) \cup {r} /\ r \notin Carried(g) /\ \A f \in Gen \ {g} : Carried(f)' = Carried(f)
  BY <1>2, <1>3 DEF PlaneType, Carried
<1>7. Cardinality(Carried(g)') = Cardinality(Carried(g)) + 1
  BY <1>2, <1>6, CarriedFinite, FS_AddElement DEF PlaneInv
<1>8. \A f \in Gen : inFlight'[f] = Cardinality(Carried(f)')
  <2>1. inFlight'[g] = inFlight[g] + 1 /\ \A f \in Gen \ {g} : inFlight'[f] = inFlight[f]
    BY <1>3 DEF PlaneType
  <2>2. \A f \in Gen : inFlight[f] = Cardinality(Carried(f))
    BY DEF PlaneInv, Counts
  <2>3. inFlight'[g] = Cardinality(Carried(g)')
    BY <1>7, <2>1, <2>2
  <2>4. \A f \in Gen \ {g} : inFlight'[f] = Cardinality(Carried(f)')
    BY <1>6, <2>1, <2>2
  <2>. QED  BY <2>3, <2>4
<1>9. \A k \in Key : exchanges'[k] = Keyed(k)'
  <2>1. \A k \in Key : Keyed(k)' = IF KeyOf(r) = k THEN Keyed(k) \cup {r} ELSE Keyed(k)
    BY <1>3 DEF PlaneType, Keyed
  <2>2. None \notin Key /\ KeyOf(r) \in Key \cup {None}
    BY ConstantsAssumption
  <2>. QED  BY <1>3, <2>1, <2>2 DEF PlaneInv, PlaneType, Counts
<1>10. ASSUME NEW q \in Request PROVE Place(q)'
  BY <1>2, <1>3 DEF PlaneInv, PlaneType, Place
<1>. QED  BY <1>3, <1>4, <1>5, <1>8, <1>9, <1>10 DEF PlaneInv, Counts

(* A request that was not routed is given up.                              *)
LEMMA RouteRefusedKeeps ==
  ASSUME PlaneInv, NEW r \in Request, RouteRefused(r)
  PROVE  PlaneInv'
<1>. USE DEF RouteRefused, backendVars
<1>1. /\ status[r] = "reading" /\ UNCHANGED <<gen, target, want, inFlight, exchanges, at, fenced, resources>>
      /\ status' = [status EXCEPT ![r] = "refused"] /\ admitted' = admitted - 1
      /\ PlaneType
  BY DEF PlaneInv
<1>2. Held' = Held \ {r} /\ r \in Held
  BY <1>1 DEF PlaneType, Held
<1>3. IsFiniteSet(Held') /\ admitted' = Cardinality(Held') /\ admitted' \in Nat
  <2>1. IsFiniteSet(Held) /\ admitted = Cardinality(Held)
    BY DEF PlaneInv, Counts
  <2>2. IsFiniteSet(Held \ {r}) /\ Cardinality(Held \ {r}) = Cardinality(Held) - 1
    BY <1>2, <2>1, FS_RemoveElement
  <2>. QED  BY <1>1, <1>2, <2>1, <2>2, FS_CardinalityType
<1>4. PlaneType'
  BY <1>1, <1>3 DEF PlaneType
<1>5. \A g \in Gen : Carried(g)' = Carried(g)
  BY <1>1 DEF PlaneType, Carried
<1>6. \A k \in Key : Keyed(k)' = Keyed(k)
  BY <1>1 DEF PlaneType, Keyed
<1>7. ASSUME NEW q \in Request PROVE Place(q)'
  BY <1>1 DEF PlaneInv, PlaneType, Place
<1>. QED  BY <1>1, <1>3, <1>4, <1>5, <1>6, <1>7 DEF PlaneInv, Counts

(* A request that was sent is settled: it is counted no more, exactly once.*)
LEMMA SettleKeeps ==
  ASSUME PlaneInv, NEW r \in Request, status[r] = "sent",
         NEW outcome \in {"replied", "refused", "unknown", "cancelled"}, Settle(r, outcome),
         outcome = "replied" => at[r] = "done", outcome = "refused" => at[r] = "turnedAway",
         UNCHANGED <<at, fenced, resources>>
  PROVE  PlaneInv'
<1>0. PICK g \in Gen : g = gen[r]
  BY DEF PlaneInv, Place
<1>1. /\ UNCHANGED <<gen, target, want>>
      /\ status' = [status EXCEPT ![r] = outcome] /\ admitted' = admitted - 1
      /\ inFlight' = [inFlight EXCEPT ![g] = Max({0, @ - 1})]
      /\ exchanges' = IF KeyOf(r) = None THEN exchanges ELSE [exchanges EXCEPT ![KeyOf(r)] = @ \ {r}]
      /\ PlaneType
  BY <1>0 DEF PlaneInv, Settle
<1>2. Held' = Held \ {r} /\ r \in Held
  BY <1>1 DEF PlaneType, Held
<1>3. IsFiniteSet(Held') /\ admitted' = Cardinality(Held') /\ admitted' \in Nat
  <2>1. IsFiniteSet(Held) /\ admitted = Cardinality(Held)
    BY DEF PlaneInv, Counts
  <2>2. IsFiniteSet(Held \ {r}) /\ Cardinality(Held \ {r}) = Cardinality(Held) - 1
    BY <1>2, <2>1, FS_RemoveElement
  <2>. QED  BY <1>1, <1>2, <2>1, <2>2, FS_CardinalityType
<1>4. Carried(g)' = Carried(g) \ {r} /\ r \in Carried(g) /\ \A f \in Gen \ {g} : Carried(f)' = Carried(f)
  BY <1>0, <1>1 DEF PlaneType, Carried
<1>5. /\ IsFiniteSet(Carried(g)) /\ Cardinality(Carried(g)) \in Nat /\ Cardinality(Carried(g)) # 0
      /\ Cardinality(Carried(g)') = Cardinality(Carried(g)) - 1
  BY <1>4, CarriedFinite, FS_RemoveElement, FS_EmptySet DEF PlaneInv
<1>6. inFlight[g] = Cardinality(Carried(g)) /\ Max({0, inFlight[g] - 1}) = Cardinality(Carried(g)) - 1
  BY <1>1, <1>5, OneLess DEF PlaneInv, Counts
<1>7. inFlight' \in [Gen -> Nat] /\ \A f \in Gen : inFlight'[f] = Cardinality(Carried(f)')
  <2>1. /\ inFlight' \in [Gen -> Nat] /\ inFlight'[g] = Cardinality(Carried(g)) - 1
        /\ \A f \in Gen \ {g} : inFlight'[f] = inFlight[f]
    BY <1>1, <1>5, <1>6 DEF PlaneType
  <2>2. \A f \in Gen \ {g} : inFlight[f] = Cardinality(Carried(f))
    BY DEF PlaneInv, Counts
  <2>3. inFlight'[g] = Cardinality(Carried(g)')
    BY <1>5, <2>1
  <2>4. \A f \in Gen \ {g} : inFlight'[f] = Cardinality(Carried(f)')
    BY <1>4, <2>1, <2>2
  <2>. QED  BY <2>1, <2>3, <2>4
<1>8. exchanges' \in [Key -> SUBSET Request] /\ \A k \in Key : exchanges'[k] = Keyed(k)'
  <2>1. \A k \in Key : Keyed(k)' = IF KeyOf(r) = k THEN Keyed(k) \ {r} ELSE Keyed(k)
    BY <1>1 DEF PlaneType, Keyed
  <2>2. None \notin Key /\ KeyOf(r) \in Key \cup {None}
    BY ConstantsAssumption
  <2>. QED  BY <1>1, <2>1, <2>2 DEF PlaneInv, PlaneType, Counts
<1>9. PlaneType'
  BY <1>1, <1>3, <1>7, <1>8 DEF PlaneType
<1>10. ASSUME NEW q \in Request PROVE Place(q)'
  BY <1>1 DEF PlaneInv, PlaneType, Place
<1>. QED  BY <1>3, <1>7, <1>8, <1>9, <1>10 DEF PlaneInv, Counts

(* The steps of the router for a request.                                  *)
LEMMA PlaneStepKeeps ==
  ASSUME ControlType, PlaneInv, NEW r \in Request, PlaneStep(r)
  PROVE  PlaneInv'
<1>1. CASE Arrive(r) \/ Route(r) \/ RouteRefused(r)
  BY <1>1, ArriveKeeps, RouteKeeps, RouteRefusedKeeps
<1>2. CASE Reply(r)
  BY <1>2, SettleKeeps DEF Reply, backendVars
<1>3. CASE Fail(r)
  BY <1>3, SettleKeeps DEF Fail, backendVars
<1>4. CASE Cancel(r)
  <2>1. KeyOf(r) \in Key /\ r \in exchanges[KeyOf(r)]
    BY <1>4, ConstantsAssumption DEF Cancel
  <2>2. status[r] = "sent"
    BY <2>1 DEF PlaneInv, Counts, Keyed
  <2>. QED  BY <1>4, <2>2, SettleKeeps DEF Cancel, backendVars
<1>. QED  BY <1>1, <1>2, <1>3, <1>4 DEF PlaneStep

(* The steps of a connection and of a backend for a request.               *)
LEMMA TransportStepKeeps ==
  ASSUME PlaneInv, NEW r \in Request, TransportStep(r)
  PROVE  PlaneInv'
<1>1. /\ UNCHANGED planeVars /\ fenced' = fenced
      /\ at[r] \in {"travelling", "executing"}
      /\ \E a \in {"executing", "turnedAway", "done", "gone"} :
           at' = [at EXCEPT ![r] = a] /\ (a = "gone" => status[r] # "sent") /\ (at[r] = "executing" => a # "turnedAway")
      /\ resources' \in [Gen -> SUBSET Launcher]
  <2>1. CASE Deliver(r)
    BY <2>1 DEF Deliver, backendVars, PlaneInv, PlaneType
  <2>2. CASE Complete(r)
    <3>1. gen[r] \in Gen /\ resources \in [Gen -> SUBSET Launcher]
      BY <2>2 DEF Complete, PlaneInv, PlaneType, Place
    <3>. QED  BY <2>2, <3>1 DEF Complete
  <2>3. CASE Drop(r)
    BY <2>3 DEF Drop, backendVars, PlaneInv, PlaneType
  <2>. QED  BY <2>1, <2>2, <2>3 DEF TransportStep
<1>2. PlaneType'
  BY <1>1 DEF PlaneInv, PlaneType, planeVars
<1>3. Counts'
  BY <1>1, CountsFrame DEF PlaneInv
<1>4. ASSUME NEW q \in Request PROVE Place(q)'
  BY <1>1 DEF PlaneInv, PlaneType, Place, planeVars
<1>. QED  BY <1>2, <1>3, <1>4 DEF PlaneInv

(* A change leaves the requests alone; it may fence a backend.             *)
LEMMA ControlLeavesPlane ==
  ASSUME NEW c \in Controller, Issue(c) \/ ControlStep(c)
  PROVE  /\ UNCHANGED <<planeVars, at, ran, inc, resources>>
         /\ fenced' = fenced \/ BackendFences(c)
BY DEF Issue, ControlStep, Begin, BeginRefused, ProbeAnswered, CallFails, BackendFences, FenceConfirmed,
       Rename, Acknowledge, WriteFails, backendVars

(* The requests do not notice.                                             *)
LEMMA PlaneFrame ==
  ASSUME PlaneInv, UNCHANGED <<planeVars, at>>,
         fenced' \in [Gen -> BOOLEAN], resources' \in [Gen -> SUBSET Launcher]
  PROVE  PlaneInv'
<1>1. Counts'
  BY CountsFrame DEF PlaneInv
<1>. QED  BY <1>1 DEF PlaneInv, PlaneType, Place, planeVars

(* The router restarts, and holds no request.                              *)
LEMMA PlaneRestartKeeps == PlaneInv /\ RouterRestarts => PlaneInv'
<1>. SUFFICES ASSUME PlaneInv, RouterRestarts PROVE PlaneInv'
  OBVIOUS
<1>1. /\ status' = [r \in Request |-> IF r \in Held THEN "lost" ELSE status[r]]
      /\ admitted' = 0 /\ inFlight' = [g \in Gen |-> 0] /\ exchanges' = [k \in Key |-> {}]
      /\ UNCHANGED <<gen, target, want, at, fenced, resources>>
  BY DEF RouterRestarts, backendVars
<1>2. PlaneType'
  BY <1>1 DEF PlaneInv, PlaneType
<1>3. Held' = {}
  BY <1>1 DEF Held, PlaneInv, PlaneType
<1>4. Counts'
  <2>1. \A g \in Gen : Carried(g)' = {}
    BY <1>1, <1>3 DEF Held, Carried
  <2>2. \A k \in Key : Keyed(k)' = {}
    BY <1>1, <1>3 DEF Held, Keyed
  <2>. QED  BY <1>1, <1>3, <2>1, <2>2, FS_EmptySet DEF Counts
<1>5. ASSUME NEW r \in Request PROVE Place(r)'
  BY <1>1 DEF PlaneInv, PlaneType, Place, Held
<1>. QED  BY <1>2, <1>4, <1>5 DEF PlaneInv

(* A backend that dies takes the requests that it executes along.          *)
LEMMA PlaneBackendKeeps ==
  ASSUME PlaneInv, NEW g \in Gen, BackendRestarts(g)
  PROVE  PlaneInv'
<1>1. /\ UNCHANGED planeVars /\ fenced' = [fenced EXCEPT ![g] = FALSE] /\ resources' = [resources EXCEPT ![g] = {}]
      /\ at' = [r \in Request |-> IF r \in Executing(g) THEN "gone" ELSE at[r]]
  BY DEF BackendRestarts
<1>2. PlaneType'
  BY <1>1 DEF PlaneInv, PlaneType, planeVars
<1>3. Counts'
  BY <1>1, CountsFrame DEF PlaneInv
<1>4. ASSUME NEW q \in Request PROVE Place(q)'
  BY <1>1 DEF PlaneInv, PlaneType, Place, planeVars, Executing
<1>. QED  BY <1>2, <1>3, <1>4 DEF PlaneInv

(* Every step keeps the invariant of the requests.                         *)
LEMMA PlaneNext == ControlInv /\ PlaneInv /\ [Next]_vars => PlaneInv'
<1>. SUFFICES ASSUME ControlInv, PlaneInv, [Next]_vars PROVE PlaneInv'
  OBVIOUS
<1>1. ASSUME NEW c \in Controller, Issue(c) \/ ControlStep(c) PROVE PlaneInv'
  <2>1. fenced' \in [Gen -> BOOLEAN]
    BY <1>1, ControlLeavesPlane DEF PlaneInv, PlaneType, BackendFences
  <2>. QED  BY <1>1, <2>1, ControlLeavesPlane, PlaneFrame DEF PlaneInv, PlaneType
<1>2. ASSUME NEW r \in Request, PlaneStep(r) \/ TransportStep(r) PROVE PlaneInv'
  BY <1>2, PlaneStepKeeps, TransportStepKeeps DEF ControlInv
<1>3. CASE RouterRestarts
  BY <1>3, PlaneRestartKeeps
<1>4. ASSUME NEW g \in Gen, BackendRestarts(g) PROVE PlaneInv'
  BY <1>4, PlaneBackendKeeps
<1>5. ASSUME NEW g \in Gen, NEW h \in Launcher, ResourceEnds(g, h) PROVE PlaneInv'
  <2>1. resources' \in [Gen -> SUBSET Launcher]
    BY <1>5 DEF ResourceEnds, PlaneInv, PlaneType
  <2>. QED  BY <1>5, <2>1, PlaneFrame DEF ResourceEnds, PlaneInv, PlaneType
<1>6. CASE UNCHANGED vars
  BY <1>6, PlaneFrame DEF vars, backendVars, PlaneInv, PlaneType
<1>. QED  BY <1>1, <1>2, <1>3, <1>4, <1>5, <1>6, NextCases

(* PlaneInv holds of all requests.                                         *)
THEOREM PlaneInvariance == Spec => []PlaneInv
<1>. QED  BY PlaneInit, PlaneNext, ControlInvariance, PTL DEF Spec

(* Every variable has its type.                                            *)
THEOREM TypeCorrect == Spec => []TypeOK
<1>1. ControlInv /\ PlaneInv => TypeOK
  BY DEF ControlInv, ControlType, Chain, Step, PlaneInv, PlaneType, TypeOK
<1>. QED  BY <1>1, ControlInvariance, PlaneInvariance, PTL

(* The counters that the overload guard and the retirement checks read are *)
(* the requests the router holds, and the map that cancellation looks in   *)
(* is too (router.ts:264, 299, 314, 380-384).                              *)
THEOREM CountersAlwaysExact == Spec => []CountersExact
<1>1. TypeOK /\ PlaneInv => CountersExact
  BY DEF PlaneInv, Counts, Carried, Keyed, CountersExact
<1>. QED  BY <1>1, TypeCorrect, PlaneInvariance, PTL

-----------------------------------------------------------------------------
(* Which process ran what.                                                 *)

(* A binding never names an incarnation that has not been there yet: not   *)
(* in a registry, not in a change, not in a request.                       *)
Reached(r) == \A g \in Registered(r) : r.generations[g] <= inc[g]
Reach ==
  /\ Reached(reg) /\ Reached(disk)
  /\ \A c \in Controller : step[c] \notin Waiting => op[c].inst <= inc[op[c].gen]
  /\ \A r \in Request : gen[r] \in Gen => want[r] <= inc[gen[r]]

(* What a request ran, by where it is.                                     *)
Runs(r) ==
  /\ at[r] \in {"nowhere", "travelling", "turnedAway"} => ran[r] = <<>>
  /\ at[r] \in {"executing", "done"} => ran[r] = <<want[r]>>
  /\ at[r] = "gone" => ran[r] \in {<<>>, <<want[r]>>}

(* A process that is fenced, or is not its generation's first, executes    *)
(* and owns nothing.                                                       *)
Closed(g) == fenced[g] \/ inc[g] # First
Sealed == \A g \in Gen : Closed(g) => Idle(g)

RanType == ran \in [Request -> Seq(Inc)]

RunInv == RanType /\ Reach /\ Sealed /\ \A r \in Request : Runs(r)

(* Nothing was bound, nor ran, before the router started.                  *)
LEMMA RunInit == Init => RunInv
<1>. SUFFICES ASSUME Init PROVE RunInv
  OBVIOUS
<1>1. /\ disk \in Boot /\ reg = disk /\ inc = [g \in Gen |-> First]
      /\ \A c \in Controller : step[c] = "idle"
      /\ \A r \in Request : gen[r] = None /\ at[r] = "nowhere" /\ ran[r] = <<>>
      /\ fenced = [g \in Gen |-> FALSE] /\ resources = [g \in Gen |-> {}]
  BY DEF Init
<1>2. Reached(disk)
  <2>1. Registered(disk) \subseteq Gen /\ \A g \in Registered(disk) : disk.generations[g] = First
    BY <1>1, RegistryIs, ConstantsAssumption
  <2>. QED  BY <1>1, <2>1 DEF Reached, First
<1>3. Reach
  BY <1>1, <1>2, ConstantsAssumption DEF Reach, Waiting
<1>4. Sealed
  BY <1>1 DEF Sealed, Closed
<1>5. ASSUME NEW r \in Request PROVE Runs(r)
  BY <1>1 DEF Runs
<1>6. RanType
  BY DEF Init, RanType
<1>. QED  BY <1>3, <1>4, <1>5, <1>6 DEF RunInv

(* Incarnations are numbered from the first.                               *)
LEMMA Incarnations == First = 0 /\ First \in Inc /\ Inc \subseteq Nat
BY ConstantsAssumption DEF Inc, First

(* Incarnations only grow.                                                 *)
LEMMA IncarnationsGrow ==
  ASSUME ControlInv, [Next]_vars
  PROVE  \A g \in Gen : inc[g] \in Nat /\ inc'[g] \in Nat /\ inc[g] <= inc'[g]
<1>1. inc \in [Gen -> Inc] /\ Inc \subseteq Nat
  BY Incarnations DEF ControlInv, ControlType
<1>2. CASE inc' = inc
  <2>1. \A g \in Gen : inc[g] \in Nat
    BY <1>1
  <2>. QED  BY <1>2, <2>1
<1>3. ASSUME NEW g \in Gen, BackendRestarts(g)
      PROVE  \A h \in Gen : inc[h] \in Nat /\ inc'[h] \in Nat /\ inc[h] <= inc'[h]
  <2>1. \A h \in Gen : inc[h] \in Nat
    BY <1>1
  <2>. QED  BY <1>1, <1>3, <2>1, NextIncarnation
<1>4. inc' = inc \/ \E g \in Gen : BackendRestarts(g)
  <2>1. ASSUME NEW c \in Controller, Issue(c) \/ ControlStep(c) PROVE inc' = inc
    BY <2>1, ControlLeavesPlane
  <2>2. ASSUME NEW r \in Request, PlaneStep(r) \/ TransportStep(r) PROVE inc' = inc
    BY <2>2, OthersLeaveControl
  <2>3. ASSUME NEW g \in Gen, NEW h \in Launcher, ResourceEnds(g, h) PROVE inc' = inc
    BY <2>3, OthersLeaveControl
  <2>4. RouterRestarts \/ UNCHANGED vars => inc' = inc
    BY DEF RouterRestarts, vars, backendVars
  <2>. QED  BY <2>1, <2>2, <2>3, <2>4, NextCases
<1>. QED  BY <1>2, <1>3, <1>4

(* Which generations a change leaves registered, and how they are bound.   *)
LEMMA ChangedBinds ==
  ASSUME NEW r \in Registry, NEW o, Admissible(r, o), NEW n, n = Changed(r, o)
  PROVE  /\ o.kind = "register" => Registered(n) = Registered(r) \cup {o.gen} /\ n.generations[o.gen] = First
         /\ o.kind = "retire" => Registered(n) = Registered(r) \ {o.gen}
         /\ o.kind \notin {"register", "retire"} => Registered(n) = Registered(r)
         /\ o.kind = "rebind" => n.generations[o.gen] = o.inst
         /\ \A g \in Registered(n) :
              g # o.gen \/ o.kind \notin {"register", "rebind"} => n.generations[g] = r.generations[g]
<1>1. CASE o.kind = "register"
  <2>1. n.generations = [g \in Registered(r) \cup {o.gen} |-> IF g = o.gen THEN First ELSE r.generations[g]]
    BY <1>1, ChangedIs DEF Admissible
  <2>. QED  BY <1>1, <2>1 DEF Registered
<1>2. CASE o.kind = "rebind"
  <2>1. n.generations = [r.generations EXCEPT ![o.gen] = o.inst]
    BY <1>2, ChangedIs DEF Admissible
  <2>2. o.gen \in DOMAIN r.generations /\ DOMAIN n.generations = DOMAIN r.generations
    BY <1>2, <2>1 DEF Admissible, Registered
  <2>3. n.generations[o.gen] = o.inst /\ \A g \in DOMAIN r.generations \ {o.gen} : n.generations[g] = r.generations[g]
    BY <2>1, <2>2
  <2>. QED  BY <1>2, <2>2, <2>3 DEF Registered
<1>3. CASE o.kind = "retire"
  <2>1. n.generations = [g \in Registered(r) \ {o.gen} |-> r.generations[g]]
    BY <1>3, ChangedIs DEF Admissible
  <2>. QED  BY <1>3, <2>1 DEF Registered
<1>4. CASE o.kind \in {"activate", "rollback"}
  <2>1. n.generations = r.generations
    BY <1>4, ChangedIs DEF Admissible
  <2>. QED  BY <1>4, <2>1 DEF Registered
<1>. QED  BY <1>1, <1>2, <1>3, <1>4 DEF Admissible, Kind

(* A change that has begun makes a registry of such bindings.              *)
LEMMA ChangedIsReached ==
  ASSUME ControlInv, Reach, NEW c \in Controller, step[c] \notin Waiting
  PROVE  Reached(Changed(reg, op[c]))
<1>. SUFFICES ASSUME NEW o, o = op[c], NEW n, n = Changed(reg, o) PROVE Reached(n)
  OBVIOUS
<1>1. reg \in Registry /\ Admissible(reg, o) /\ o.inst <= inc[o.gen] /\ inc \in [Gen -> Inc] /\ First = 0 /\ Inc \subseteq Nat
  BY Incarnations DEF ControlInv, ControlType, Progress, Reach
<1>2. \A g \in Registered(reg) : reg.generations[g] <= inc[g]
  BY DEF Reach, Reached
<1>3. o.gen \in Gen /\ First <= inc[o.gen]
  <2>1. o.gen \in Gen
    BY <1>1 DEF Admissible
  <2>2. inc[o.gen] \in Nat
    BY <1>1, <2>1
  <2>. QED  BY <1>1, <2>1, <2>2
<1>. SUFFICES ASSUME NEW g \in Registered(n) PROVE n.generations[g] <= inc[g]
  BY DEF Reached
<1>4.    \/ g = o.gen /\ o.kind = "register" /\ n.generations[g] = First
         \/ g = o.gen /\ o.kind = "rebind" /\ n.generations[g] = o.inst
         \/ g \in Registered(reg) /\ n.generations[g] = reg.generations[g]
  <2>1. reg \in Registry /\ Admissible(reg, o)
    BY <1>1
  <2>2. /\ o.kind = "register" => Registered(n) = Registered(reg) \cup {o.gen} /\ n.generations[o.gen] = First
        /\ o.kind = "retire" => Registered(n) = Registered(reg) \ {o.gen}
        /\ o.kind \notin {"register", "retire"} => Registered(n) = Registered(reg)
        /\ o.kind = "rebind" => n.generations[o.gen] = o.inst
        /\ \A h \in Registered(n) :
             h # o.gen \/ o.kind \notin {"register", "rebind"} => n.generations[h] = reg.generations[h]
    BY <2>1, ChangedBinds
  <2>3. CASE g = o.gen /\ o.kind \in {"register", "rebind"}
    BY <2>1, <2>2, <2>3 DEF Admissible
  <2>4. CASE g # o.gen \/ o.kind \notin {"register", "rebind"}
    <3>1. n.generations[g] = reg.generations[g]
      BY <2>2, <2>4
    <3>2. g \in Registered(reg)
      BY <2>2, <2>4
    <3>. QED  BY <3>1, <3>2
  <2>. QED  BY <2>3, <2>4
<1>. QED  BY <1>1, <1>2, <1>3, <1>4

(* Time passing keeps a binding reached.                                   *)
LEMMA StillReached ==
  ASSUME ControlInv, [Next]_vars, NEW r \in Registry, Reached(r)
  PROVE  \A g \in Registered(r) : r.generations[g] <= inc'[g]
<1>1. Registered(r) \subseteq Gen /\ \A g \in Registered(r) : r.generations[g] \in Nat
  BY RegistryIs, Incarnations
<1>. QED  BY <1>1, IncarnationsGrow DEF Reached

(* The registries that the steps of the control plane leave.               *)
LEMMA RegistriesNext ==
  ASSUME ControlInv, NEW c \in Controller, Issue(c) \/ ControlStep(c)
  PROVE  /\ \/ reg' \in {reg, disk, Blinded(reg)}
            \/ step[c] = "renamed" /\ reg' = Changed(reg, op[c])
         /\ \/ disk' = disk
            \/ step[c] = "writing" /\ disk' = Changed(reg, op[c])
BY DEF Issue, ControlStep, Begin, BeginRefused, ProbeAnswered, CallFails, BackendFences, FenceConfirmed,
       Rename, Acknowledge, WriteFails, Reconciled, Blinded, registryVars

(* A change that has begun did before, as it is, or begins now.            *)
LEMMA BegunNext ==
  ASSUME ControlInv, NEW c \in Controller, Issue(c) \/ ControlStep(c), NEW d \in Controller, step'[d] \notin Waiting
  PROVE  \/ step[d] \notin Waiting /\ op'[d] = op[d]
         \/ Begin(c) /\ d = c
<1>1. op \in [Controller -> OpType] /\ step \in [Controller -> Step]
  BY DEF ControlInv, ControlType
<1>2. CASE Issue(c)
  BY <1>1, <1>2 DEF Issue, Waiting
<1>3. CASE Begin(c)
  BY <1>1, <1>3 DEF Begin, Waiting
<1>4. CASE EndChange(c)
  BY <1>1, <1>4 DEF EndChange, Waiting
<1>5. CASE op' = op /\ \E s \in Step : step' = [step EXCEPT ![c] = s] /\ step[c] \notin Waiting
  BY <1>1, <1>5 DEF Waiting
<1>6. \/ Issue(c) \/ Begin(c) \/ EndChange(c)
      \/ op' = op /\ \E s \in Step : step' = [step EXCEPT ![c] = s] /\ step[c] \notin Waiting
  BY DEF ControlStep, BeginRefused, ProbeAnswered, CallFails, BackendFences, FenceConfirmed, Rename,
         Acknowledge, WriteFails, Waiting, Step
<1>. QED  BY <1>2, <1>3, <1>4, <1>5, <1>6

(* The change that begins names an incarnation that has been there.        *)
LEMMA BeginReaches ==
  ASSUME ControlInv, NEW c \in Controller, Begin(c)
  PROVE  op'[c].inst <= inc[op'[c].gen] /\ op'[c].gen \in Gen
<1>1. PICK k \in Kind, g \in Gen : \E i \in IF k = "rebind" THEN First..inc[g] ELSE {First} :
       op' = [op EXCEPT ![c] = [kind |-> k, gen |-> g, inst |-> i, saw |-> @.saw]]
  BY DEF Begin
<1>2. inc[g] \in Nat /\ First = 0
  BY Incarnations DEF ControlInv, ControlType
<1>3. \A i \in IF k = "rebind" THEN First..inc[g] ELSE {First} : i <= inc[g]
  BY <1>2
<1>. QED  BY <1>1, <1>3 DEF ControlInv, ControlType

(* A request is bound as its generation is when it is routed, and not      *)
(* again.                                                                  *)
LEMMA WantNext ==
  ASSUME ControlType, PlaneInv, NEW r \in Request, PlaneStep(r) \/ TransportStep(r), NEW q \in Request
  PROVE  \/ gen'[q] = gen[q] /\ want'[q] = want[q]
         \/ /\ q = r /\ Route(r) /\ gen'[q] \in Registered(reg) /\ want'[q] = reg.generations[gen'[q]]
            /\ at[q] = "nowhere"
<1>1. CASE Route(r)
  <2>1. PICK g : g \in Registered(reg) /\ gen' = [gen EXCEPT ![r] = g] /\ want' = [want EXCEPT ![r] = reg.generations[g]]
    BY <1>1 DEF Route, Routable
  <2>2. at[r] = "nowhere"
    BY <1>1 DEF Route, PlaneInv, Place
  <2>. QED  BY <1>1, <2>1, <2>2 DEF PlaneInv, PlaneType
<1>2. CASE ~Route(r)
  BY <1>2 DEF PlaneStep, TransportStep, Arrive, RouteRefused, Reply, Fail, Cancel, Settle, Deliver, Complete, Drop, planeVars
<1>. QED  BY <1>1, <1>2

(* Bindings stay reached.                                                  *)
LEMMA ReachNext == ControlInv /\ PlaneInv /\ Reach /\ [Next]_vars => Reach'
<1>. SUFFICES ASSUME ControlInv, PlaneInv, Reach, [Next]_vars PROVE Reach'
  OBVIOUS
<1>1. /\ reg \in Registry /\ disk \in Registry /\ WellFormed(reg) /\ Reached(reg) /\ Reached(disk)
      /\ \A r \in Request : gen[r] \in Gen => want[r] <= inc[gen[r]]
      /\ \A r \in Request : want[r] \in Nat
  BY Incarnations DEF ControlInv, ControlType, Reach, PlaneInv, PlaneType
<1>2. (Reached(reg) /\ Reached(disk))'
  <2>1. \A n \in Registry : Reached(n) => \A g \in Registered(n) : n.generations[g] <= inc'[g]
    BY StillReached
  <2>2. Reached(Blinded(reg)) /\ Blinded(reg) \in Registry
    BY <1>1, BlindedIs DEF Reached, Registered
  <2>3. ASSUME NEW c \in Controller, step[c] \in {"writing", "renamed"}
        PROVE  Reached(Changed(reg, op[c])) /\ Changed(reg, op[c]) \in Registry
    <3>1. step[c] \notin Waiting /\ Admissible(reg, op[c]) /\ reg.epoch < MaxEpoch
      BY <2>3 DEF ControlInv, Progress, Informed, Fresh, Waiting
    <3>2. reg.epoch <= MaxEpoch
      BY <3>1, FileAhead, ConstantsAssumption
    <3>. QED  BY <1>1, <3>1, <3>2, ChangedIsReached, ChangedIsRegistry
  <2>4. \E n \in Registry : Reached(n) /\ reg' = n
    <3>1. ASSUME NEW c \in Controller, Issue(c) \/ ControlStep(c) PROVE \E n \in Registry : Reached(n) /\ reg' = n
      BY <1>1, <2>2, <2>3, <3>1, RegistriesNext
    <3>2. CASE RouterRestarts
      BY <1>1, <3>2 DEF RouterRestarts
    <3>3. CASE reg' = reg
      BY <1>1, <3>3
    <3>. QED  BY <3>1, <3>2, <3>3, NextCases, OthersLeaveControl DEF registryVars, vars
  <2>5. \E n \in Registry : Reached(n) /\ disk' = n
    <3>1. ASSUME NEW c \in Controller, Issue(c) \/ ControlStep(c) PROVE \E n \in Registry : Reached(n) /\ disk' = n
      BY <1>1, <2>3, <3>1, RegistriesNext
    <3>2. CASE disk' = disk
      BY <1>1, <3>2
    <3>. QED  BY <3>1, <3>2, NextCases, OthersLeaveControl DEF registryVars, vars, RouterRestarts
  <2>. QED  BY <2>1, <2>4, <2>5 DEF Reached
<1>3. ASSUME NEW d \in Controller, step'[d] \notin Waiting PROVE op'[d].inst <= inc'[op'[d].gen]
  <2>1. ASSUME step[d] \notin Waiting, op'[d] = op[d] PROVE op'[d].inst <= inc'[op'[d].gen]
    <3>1. op[d].inst <= inc[op[d].gen] /\ op[d].gen \in Gen /\ op[d].inst \in Nat
      BY <2>1, Incarnations DEF Reach, ControlInv, Progress, Admissible
    <3>. QED  BY <2>1, <3>1, IncarnationsGrow
  <2>2. ASSUME NEW c \in Controller, Issue(c) \/ ControlStep(c) PROVE op'[d].inst <= inc'[op'[d].gen]
    BY <1>3, <2>1, <2>2, BegunNext, BeginReaches, ControlLeavesPlane
  <2>3. CASE RouterRestarts
    BY <1>3, <2>3 DEF RouterRestarts, Waiting
  <2>4. CASE UNCHANGED controlVars
    BY <1>3, <2>1, <2>4 DEF controlVars
  <2>. QED  BY <2>2, <2>3, <2>4, NextCases, OthersLeaveControl DEF vars
<1>4. ASSUME NEW q \in Request, gen'[q] \in Gen PROVE want'[q] <= inc'[gen'[q]]
  <2>1. CASE gen'[q] = gen[q] /\ want'[q] = want[q]
    BY <1>1, <1>4, <2>1, IncarnationsGrow
  <2>2. ASSUME NEW r \in Request, PlaneStep(r) \/ TransportStep(r) PROVE want'[q] <= inc'[gen'[q]]
    <3>1. CASE gen'[q] \in Registered(reg) /\ want'[q] = reg.generations[gen'[q]]
      BY <1>1, <3>1, StillReached
    <3>. QED  BY <2>1, <2>2, <3>1, WantNext DEF ControlInv
  <2>3. ASSUME NEW c \in Controller, Issue(c) \/ ControlStep(c) PROVE gen' = gen /\ want' = want
    BY <2>3, ControlLeavesPlane DEF planeVars
  <2>4. ASSUME NEW g \in Gen, BackendRestarts(g) \/ \E h \in Launcher : ResourceEnds(g, h) PROVE gen' = gen /\ want' = want
    BY <2>4 DEF BackendRestarts, ResourceEnds, planeVars
  <2>5. RouterRestarts \/ UNCHANGED vars => gen' = gen /\ want' = want
    BY DEF RouterRestarts, vars, planeVars
  <2>. QED  BY <2>1, <2>2, <2>3, <2>4, <2>5, NextCases
<1>. QED  BY <1>2, <1>3, <1>4 DEF Reach

(* Where a request is changes only by its own steps, and when the process  *)
(* that executes it dies.                                                  *)
LEMMA AtNext ==
  ASSUME PlaneInv, RanType, [Next]_vars, NEW q \in Request
  PROVE  \/ at'[q] = at[q] /\ ran'[q] = ran[q] /\ want'[q] = want[q] /\ gen'[q] = gen[q]
         \/ Route(q) \/ TransportStep(q)
         \/ /\ at[q] = "executing" /\ at'[q] = "gone" /\ ran' = ran /\ want' = want /\ gen' = gen
            /\ BackendRestarts(gen[q])
<1>1. ASSUME NEW c \in Controller, Issue(c) \/ ControlStep(c) PROVE UNCHANGED <<at, ran, want, gen>>
  BY <1>1, ControlLeavesPlane DEF planeVars
<1>2. ASSUME NEW r \in Request, PlaneStep(r), ~Route(r) PROVE UNCHANGED <<at, ran, want, gen>>
  BY <1>2 DEF PlaneStep, Arrive, RouteRefused, Reply, Fail, Cancel, Settle
<1>3. ASSUME NEW r \in Request, Route(r) \/ TransportStep(r), r # q
      PROVE  at'[q] = at[q] /\ ran'[q] = ran[q] /\ want'[q] = want[q] /\ gen'[q] = gen[q]
  <2>1. /\ \E a : at' = [at EXCEPT ![r] = a]
        /\ ran' = ran \/ \E a : ran' = [ran EXCEPT ![r] = a]
        /\ want' = want \/ \E a : want' = [want EXCEPT ![r] = a]
        /\ gen' = gen \/ \E a : gen' = [gen EXCEPT ![r] = a]
    BY <1>3 DEF Route, TransportStep, Deliver, Complete, Drop, planeVars
  <2>. QED  BY <1>3, <2>1 DEF PlaneInv, PlaneType, RanType
<1>4. RouterRestarts \/ UNCHANGED vars => UNCHANGED <<at, ran, want, gen>>
  BY DEF RouterRestarts, vars, planeVars
<1>5. ASSUME NEW g \in Gen, NEW h \in Launcher, ResourceEnds(g, h) PROVE UNCHANGED <<at, ran, want, gen>>
  BY <1>5 DEF ResourceEnds, planeVars
<1>6. ASSUME NEW g \in Gen, BackendRestarts(g)
      PROVE  \/ UNCHANGED <<at, ran, want, gen>>
             \/ /\ ran' = ran /\ want' = want /\ gen' = gen
                /\ \/ at'[q] = at[q]
                   \/ at[q] = "executing" /\ at'[q] = "gone" /\ g = gen[q]
  BY <1>6 DEF BackendRestarts, planeVars, Executing
<1>. QED  BY <1>1, <1>2, <1>3, <1>4, <1>5, <1>6, NextCases DEF PlaneStep

(* A request is accepted only by the incarnation it is bound to: the first.*)
LEMMA AcceptedWhereBound ==
  ASSUME PlaneInv, Reach, NEW r \in Request, gen[r] \in Gen, Accepts(r)
  PROVE  inc[gen[r]] = First /\ want[r] = First /\ ~fenced[gen[r]]
<1>1. want[r] \in Nat /\ want[r] <= inc[gen[r]] /\ First = 0
  BY Incarnations DEF PlaneInv, PlaneType, Reach
<1>. QED  BY <1>1 DEF Accepts, RouteInstance

(* What a request ran stays what its binding says.                         *)
LEMMA RunsNext ==
  ASSUME PlaneInv, RanType, Reach, [Next]_vars, NEW q \in Request, Runs(q)
  PROVE  Runs(q)'
<1>1. CASE at'[q] = at[q] /\ ran'[q] = ran[q] /\ want'[q] = want[q]
  BY <1>1 DEF Runs
<1>2. CASE Route(q)
  <2>1. at[q] = "nowhere"
    BY <1>2 DEF Route, PlaneInv, Place
  <2>. QED  BY <1>2, <2>1 DEF Route, Runs, backendVars, PlaneInv, PlaneType
<1>3. CASE Deliver(q)
  <2>1. /\ at[q] = "travelling" /\ ran[q] = <<>> /\ gen[q] \in Gen /\ want' = want
        /\ at \in [Request -> {"nowhere", "travelling", "executing", "turnedAway", "done", "gone"}]
    BY <1>3 DEF Deliver, Runs, PlaneInv, PlaneType, Place, planeVars
  <2>2. CASE ~Accepts(q)
    BY <1>3, <2>1, <2>2 DEF Deliver, Runs
  <2>3. CASE Accepts(q)
    <3>1. at'[q] = "executing" /\ ran' = [ran EXCEPT ![q] = Append(ran[q], First)] /\ want[q] = First
      BY <1>3, <2>1, <2>3, AcceptedWhereBound DEF Deliver
    <3>2. Append(<<>>, First) = <<First>>
      OBVIOUS
    <3>. QED  BY <2>1, <3>1, <3>2 DEF Runs, RanType
  <2>. QED  BY <2>2, <2>3
<1>4. CASE Complete(q) \/ Drop(q)
  BY <1>4 DEF Complete, Drop, Runs, planeVars, PlaneInv, PlaneType
<1>5. CASE at[q] = "executing" /\ at'[q] = "gone" /\ ran' = ran /\ want' = want
  BY <1>5 DEF Runs
<1>. QED  BY <1>1, <1>2, <1>3, <1>4, <1>5, AtNext DEF TransportStep

(* Only a delivery makes a request run.                                    *)
LEMMA RanNext ==
  ASSUME ControlType, PlaneInv, RanType, [Next]_vars
  PROVE  RanType'
<1>1. CASE ran' = ran
  BY <1>1 DEF RanType
<1>2. ASSUME NEW r \in Request, Deliver(r) PROVE RanType'
  <2>1. ran' = ran \/ ran' = [ran EXCEPT ![r] = Append(@, inc[gen[r]])]
    BY <1>2 DEF Deliver
  <2>2. inc[gen[r]] \in Inc
    BY <1>2 DEF Deliver, PlaneInv, Place, ControlType
  <2>3. Append(ran[r], inc[gen[r]]) \in Seq(Inc)
    BY <2>2 DEF RanType
  <2>. QED  BY <2>1, <2>3 DEF RanType
<1>3. ASSUME NEW c \in Controller, Issue(c) \/ ControlStep(c) PROVE ran' = ran
  BY <1>3, ControlLeavesPlane
<1>4. ASSUME NEW r \in Request, PlaneStep(r) \/ TransportStep(r), ~Deliver(r) PROVE ran' = ran
  BY <1>4 DEF PlaneStep, TransportStep, Arrive, Route, RouteRefused, Reply, Fail, Cancel, Complete, Drop
<1>5. ASSUME NEW g \in Gen, BackendRestarts(g) \/ \E h \in Launcher : ResourceEnds(g, h) PROVE ran' = ran
  BY <1>5 DEF BackendRestarts, ResourceEnds
<1>6. RouterRestarts \/ UNCHANGED vars => ran' = ran
  BY DEF RouterRestarts, vars
<1>. QED  BY <1>1, <1>2, <1>3, <1>4, <1>5, <1>6, NextCases

(* What a step adds to the work of a backend, it adds to one that is open. *)
LEMMA WorkNext ==
  ASSUME PlaneInv, RanType, Reach, [Next]_vars, NEW g \in Gen
  PROVE  \/ Executing(g)' \subseteq Executing(g) /\ resources'[g] \subseteq resources[g]
         \/ ~Closed(g) /\ fenced' = fenced /\ inc' = inc
         \/ Executing(g) # {} /\ fenced' = fenced /\ inc' = inc
<1>1. CASE resources'[g] \subseteq resources[g]
  <2>. SUFFICES ASSUME NEW q \in Request, at'[q] = "executing", gen'[q] = g, ~(at[q] = "executing" /\ gen[q] = g)
       PROVE  ~Closed(g) /\ fenced' = fenced /\ inc' = inc
    BY <1>1 DEF Executing
  <2>1. Deliver(q) /\ Accepts(q)
    <3>1. Route(q) \/ TransportStep(q)
      BY AtNext
    <3>2. ~Route(q) /\ ~Complete(q) /\ ~Drop(q)
      BY DEF Route, Complete, Drop, PlaneInv, PlaneType
    <3>. QED  BY <3>1, <3>2 DEF TransportStep, Deliver, PlaneInv, PlaneType
  <2>. QED  BY <2>1, AcceptedWhereBound DEF Deliver, Closed, planeVars, backendVars
<1>2. CASE ~(resources'[g] \subseteq resources[g])
  <2>1. PICK r \in Request : Complete(r)
    <3>1. ASSUME NEW c \in Controller, Issue(c) \/ ControlStep(c) PROVE FALSE
      BY <1>2, <3>1, ControlLeavesPlane
    <3>2. ASSUME NEW r \in Request, PlaneStep(r) \/ TransportStep(r), ~Complete(r) PROVE FALSE
      BY <1>2, <3>2 DEF PlaneStep, TransportStep, Arrive, Route, RouteRefused, Reply, Fail, Cancel, Deliver, Drop, backendVars
    <3>3. ASSUME NEW f \in Gen, BackendRestarts(f) \/ \E h \in Launcher : ResourceEnds(f, h) PROVE FALSE
      BY <1>2, <3>3 DEF BackendRestarts, ResourceEnds, PlaneInv, PlaneType
    <3>4. ~RouterRestarts /\ ~UNCHANGED vars
      BY <1>2 DEF RouterRestarts, vars, backendVars
    <3>. QED  BY <3>1, <3>2, <3>3, <3>4, NextCases
  <2>2. gen[r] = g /\ at[r] = "executing"
    BY <1>2, <2>1 DEF Complete, PlaneInv, PlaneType
  <2>. QED  BY <2>1, <2>2 DEF Complete, Executing
<1>. QED  BY <1>1, <1>2

(* A backend closes only when it is idle, or dies.                         *)
LEMMA CloseNext ==
  ASSUME ControlInv, PlaneInv, [Next]_vars, NEW g \in Gen, ~Closed(g), Closed(g)'
  PROVE  \/ Idle(g) /\ UNCHANGED <<at, gen, resources>>
         \/ BackendRestarts(g)
<1>1. inc \in [Gen -> Inc] /\ fenced \in [Gen -> BOOLEAN]
  BY DEF ControlInv, ControlType, PlaneInv, PlaneType
<1>2. ASSUME NEW c \in Controller, Issue(c) \/ ControlStep(c)
      PROVE  Idle(g) /\ UNCHANGED <<at, gen, resources>>
  <2>1. BackendFences(c) /\ UNCHANGED <<at, gen, resources, inc>>
    BY <1>2, ControlLeavesPlane DEF Closed, planeVars
  <2>2. op[c].gen = g
    BY <1>1, <2>1 DEF BackendFences, Closed
  <2>. QED  BY <2>1, <2>2 DEF BackendFences, MayFence
<1>3. ASSUME NEW f \in Gen, BackendRestarts(f) PROVE f = g
  BY <1>1, <1>3, NextIncarnation DEF BackendRestarts, Closed
<1>4. ASSUME NEW r \in Request, PlaneStep(r) \/ TransportStep(r) PROVE FALSE
  BY <1>4 DEF PlaneStep, TransportStep, Arrive, Route, RouteRefused, Reply, Fail, Cancel, Deliver, Complete, Drop, backendVars, Closed
<1>5. ASSUME NEW f \in Gen, NEW h \in Launcher, ResourceEnds(f, h) PROVE FALSE
  BY <1>5 DEF ResourceEnds, Closed
<1>6. ~RouterRestarts /\ ~UNCHANGED vars
  BY DEF RouterRestarts, vars, backendVars, Closed
<1>. QED  BY <1>2, <1>3, <1>4, <1>5, <1>6, NextCases

(* What is closed stays idle.                                              *)
LEMMA SealedNext ==
  ASSUME ControlInv, PlaneInv, RunInv, [Next]_vars
  PROVE  Sealed'
<1>. SUFFICES ASSUME NEW g \in Gen, Closed(g)' PROVE Idle(g)'
  BY DEF Sealed
<1>1. CASE Closed(g)
  <2>1. Idle(g)
    BY <1>1 DEF RunInv, Sealed
  <2>. QED  BY <1>1, <2>1, WorkNext DEF RunInv, Idle
<1>2. CASE ~Closed(g)
  <2>1. CASE Idle(g) /\ UNCHANGED <<at, gen, resources>>
    BY <2>1 DEF Idle, Executing
  <2>2. CASE BackendRestarts(g)
    <3>1. resources'[g] = {}
      BY <2>2 DEF BackendRestarts, PlaneInv, PlaneType
    <3>2. Executing(g)' = {}
      BY <2>2 DEF BackendRestarts, Executing, planeVars
    <3>. QED  BY <3>1, <3>2 DEF Idle
  <2>. QED  BY <1>2, <2>1, <2>2, CloseNext
<1>. QED  BY <1>1, <1>2

(* RunInv holds of all backends and requests.                              *)
THEOREM RunInvariance == Spec => []RunInv
<1>1. ControlInv /\ PlaneInv /\ RunInv /\ [Next]_vars => RunInv'
  BY ReachNext, RunsNext, RanNext, SealedNext DEF RunInv, ControlInv
<1>. QED  BY <1>1, RunInit, ControlInvariance, PlaneInvariance, PTL DEF Spec

(* A request runs at most once, in the process that its generation meant   *)
(* when it was routed; what is reported as refused never ran, and what is  *)
(* reported as done did (router.ts:307, 376; http-server.ts).              *)
THEOREM RequestsAlwaysHonest == Spec => []RequestsHonest
<1>1. PlaneInv /\ RunInv => RequestsHonest
  <2>. SUFFICES ASSUME PlaneInv, RunInv, NEW r \in Request
       PROVE  /\ ran[r] \in {<<>>, <<want[r]>>}
              /\ status[r] \in {"reading", "refused"} => ran[r] = <<>>
              /\ status[r] = "replied" => Len(ran[r]) = 1
    BY DEF RequestsHonest, RunsOnceWhereBound, AnswersHonest
  <2>1. Len(<<want[r]>>) = 1
    OBVIOUS
  <2>. QED  BY <2>1 DEF PlaneInv, PlaneType, Place, RunInv, Runs
<1>. QED  BY <1>1, PlaneInvariance, RunInvariance, PTL

-----------------------------------------------------------------------------
(* Retirement and activation, if a registry that was written can be read   *)
(* back.  (If it cannot, the router may go on with a registry that is not  *)
(* the one in its file, and promises neither.)                             *)

Quiet == Renaming \/ reg = disk

(* No request was ever sent there, and no resource is owned there.         *)
Untouched(g) == resources[g] = {} /\ \A r \in Request : gen[r] # g

(* A generation that the router does not know was retired, or is new.      *)
Dropped(g) == (Closed(g) \/ Untouched(g)) /\ inFlight[g] = 0

(* What a change has made sure of.                                         *)
Guarded(c) ==
  step[c] \notin Waiting =>
    /\ op[c].kind = "retire" =>
         /\ op[c].gen \in retiring /\ inFlight[op[c].gen] = 0 /\ step[c] # "probing"
         /\ step[c] # "fencing" => Closed(op[c].gen)
    /\ op[c].kind # "retire" =>
         /\ step[c] \in {"probing", "writing", "renamed"}
         /\ step[c] # "probing" => ~fenced[op[c].gen]
    /\ op[c].kind = "register" /\ step[c] # "probing" => op[c].gen \notin Registered(reg)

(* Neither the active generation nor its rollback target is fenced, unless *)
(* it is no longer the process the registry means.                         *)
Serves(r) == \A g \in {r.active, r.previous} \ {None} : ~(fenced[g] /\ inc[g] = r.generations[g])

RetireInv ==
  /\ Quiet /\ Serves(reg)
  /\ \A g \in Gen \ Registered(reg) : Dropped(g)
  /\ \A c \in Controller : Guarded(c)

(* A router starts with no retirement in progress.                         *)
LEMMA RetireInit == Init => RetireInv
<1>. SUFFICES ASSUME Init PROVE RetireInv
  OBVIOUS
<1>1. /\ reg = disk /\ reg \in Registry /\ WellFormed(reg)
      /\ \A c \in Controller : step[c] = "idle"
      /\ \A r \in Request : gen[r] = None
      /\ \A g \in Gen : ~fenced[g] /\ resources[g] = {} /\ inFlight[g] = 0
  BY ConstantsAssumption DEF Init
<1>2. \A g \in Gen : Dropped(g)
  BY <1>1, ConstantsAssumption DEF Dropped, Untouched
<1>3. Serves(reg)
  BY <1>1, RegistryIs DEF Serves
<1>4. \A c \in Controller : Guarded(c)
  BY <1>1 DEF Guarded, Waiting
<1>. QED  BY <1>1, <1>2, <1>3, <1>4 DEF RetireInv, Quiet

(* What a change makes of the registry keeps these promises: a generation  *)
(* it drops is closed, one that it makes active is not fenced.             *)
LEMMA ChangedKeepsPromises ==
  ASSUME ControlInv, RetireInv, NEW c \in Controller, step[c] \in {"writing", "renamed"},
         NEW n, n = Changed(reg, op[c])
  PROVE  Serves(n) /\ \A g \in Gen \ Registered(n) : Dropped(g)
<1>. SUFFICES ASSUME NEW o, o = op[c]
     PROVE  Serves(n) /\ \A g \in Gen \ Registered(n) : Dropped(g)
  OBVIOUS
<1>1. reg \in Registry /\ WellFormed(reg) /\ Admissible(reg, o) /\ n = Changed(reg, o)
  BY DEF ControlInv, ControlType, Progress, Waiting
<1>2. /\ o.kind = "retire" => Closed(o.gen) /\ inFlight[o.gen] = 0
      /\ o.kind # "retire" => ~fenced[o.gen]
      /\ o.kind = "register" => o.gen \notin Registered(reg)
  BY DEF RetireInv, Guarded, Waiting
<1>3. /\ o.kind = "register" => Registered(n) = Registered(reg) \cup {o.gen}
      /\ o.kind = "retire" => Registered(n) = Registered(reg) \ {o.gen}
      /\ o.kind \notin {"register", "retire"} => Registered(n) = Registered(reg)
      /\ \A g \in Registered(n) :
           g # o.gen \/ o.kind \notin {"register", "rebind"} => n.generations[g] = reg.generations[g]
  BY <1>1, ChangedBinds
<1>4. \A g \in Gen \ Registered(n) : Dropped(g)
  BY <1>2, <1>3 DEF RetireInv, Dropped
<1>5. ASSUME NEW g \in {n.active, n.previous} \ {None}
      PROVE  ~(fenced[g] /\ inc[g] = n.generations[g])
  <2>1. CASE g = o.gen /\ o.kind # "retire"
    BY <1>2, <2>1
  <2>2. CASE g \in {reg.active, reg.previous} /\ (g # o.gen \/ o.kind = "retire")
    <3>1. g \in Registered(reg) /\ g \in Registered(n) /\ (o.kind = "retire" => g # o.gen)
      BY <1>1, <1>3, <1>5, <2>2 DEF WellFormed, Admissible
    <3>2. n.generations[g] = reg.generations[g]
      BY <1>3, <2>2, <3>1
    <3>. QED  BY <1>5, <2>2, <3>2 DEF RetireInv, Serves
  <2>3. (g = o.gen /\ o.kind # "retire") \/ g \in {reg.active, reg.previous}
    <3>1. o.kind \in Kind
      BY <1>1 DEF Admissible
    <3>2. o.kind \in {"activate", "rollback"} =>
            Changed(reg, o).active = o.gen /\ Changed(reg, o).previous = reg.active
      BY <1>1, <3>1, ChangedIs
    <3>3. o.kind \notin {"activate", "rollback"} =>
            Changed(reg, o).active = reg.active /\ Changed(reg, o).previous = reg.previous
      BY <1>1, <3>1, ChangedIs
    <3>. QED  BY <1>1, <1>5, <3>2, <3>3
  <2>. QED  BY <2>1, <2>2, <2>3
<1>. QED  BY <1>4, <1>5 DEF Serves

(* So does the file.                                                       *)
LEMMA DiskKeepsPromises ==
  ASSUME ControlInv, RetireInv
  PROVE  Serves(disk) /\ \A g \in Gen \ Registered(disk) : Dropped(g)
<1>1. CASE reg = disk
  BY <1>1 DEF RetireInv
<1>2. ASSUME NEW c \in Controller, step[c] = "renamed"
      PROVE  Serves(disk) /\ \A g \in Gen \ Registered(disk) : Dropped(g)
  BY <1>2, ChangedKeepsPromises DEF ControlInv, Progress
<1>. QED  BY <1>1, <1>2 DEF RetireInv, Quiet, Renaming

(* A process that is closed stays closed.                                  *)
LEMMA ClosedForGood ==
  ASSUME ControlInv, PlaneInv, [Next]_vars, NEW g \in Gen, Closed(g)
  PROVE  Closed(g)'
<1>1. inc \in [Gen -> Inc] /\ fenced \in [Gen -> BOOLEAN]
  BY DEF ControlInv, ControlType, PlaneInv, PlaneType
<1>2. ASSUME NEW c \in Controller, Issue(c) \/ ControlStep(c) PROVE Closed(g)'
  BY <1>1, <1>2, ControlLeavesPlane DEF Closed, BackendFences
<1>3. ASSUME NEW f \in Gen, BackendRestarts(f) PROVE Closed(g)'
  BY <1>1, <1>3, NextIncarnation DEF BackendRestarts, Closed
<1>4. ASSUME NEW r \in Request, PlaneStep(r) \/ TransportStep(r) PROVE UNCHANGED <<inc, fenced>>
  BY <1>4 DEF PlaneStep, TransportStep, Arrive, Route, RouteRefused, Reply, Fail, Cancel, Deliver, Complete, Drop, backendVars
<1>5. ASSUME NEW f \in Gen, NEW h \in Launcher, ResourceEnds(f, h) PROVE UNCHANGED <<inc, fenced>>
  BY <1>5 DEF ResourceEnds
<1>6. RouterRestarts \/ UNCHANGED vars => UNCHANGED <<inc, fenced>>
  BY DEF RouterRestarts, vars, backendVars
<1>. QED  BY <1>2, <1>3, <1>4, <1>5, <1>6, NextCases DEF Closed

(* No request is sent to a generation that the router does not know or is  *)
(* retiring.                                                               *)
LEMMA NoNewFlight ==
  ASSUME PlaneInv, [Next]_vars, NEW g \in Gen, inFlight[g] = 0,
         g \notin Registered(reg) \/ g \in retiring
  PROVE  inFlight'[g] = 0
<1>1. inFlight \in [Gen -> Nat]
  BY DEF PlaneInv, PlaneType
<1>2. ASSUME NEW r \in Request, Route(r) PROVE inFlight'[g] = 0
  <2>1. PICK f : f \in Registered(reg) /\ f \notin retiring /\ inFlight' = [inFlight EXCEPT ![f] = @ + 1]
    BY <1>2 DEF Route, Routable
  <2>. QED  BY <1>1, <2>1
<1>3. ASSUME NEW r \in Request, Reply(r) \/ Fail(r) \/ Cancel(r) PROVE inFlight'[g] = 0
  <2>1. inFlight' = [inFlight EXCEPT ![gen[r]] = Max({0, @ - 1})]
    BY <1>3 DEF Reply, Fail, Cancel, Settle
  <2>2. Max({0, 0 - 1}) = 0
    BY OneLess
  <2>3. gen[r] = g => inFlight'[g] = Max({0, 0 - 1})
    BY <1>1, <2>1
  <2>. QED  BY <1>1, <2>1, <2>2, <2>3
<1>4. ASSUME NEW r \in Request, Arrive(r) \/ RouteRefused(r) \/ TransportStep(r) PROVE inFlight' = inFlight
  BY <1>4 DEF Arrive, RouteRefused, TransportStep, Deliver, Complete, Drop, planeVars
<1>5. ASSUME NEW c \in Controller, Issue(c) \/ ControlStep(c) PROVE inFlight' = inFlight
  BY <1>5, ControlLeavesPlane DEF planeVars
<1>6. ASSUME NEW f \in Gen, BackendRestarts(f) \/ \E h \in Launcher : ResourceEnds(f, h) PROVE inFlight' = inFlight
  BY <1>6 DEF BackendRestarts, ResourceEnds, planeVars
<1>7. RouterRestarts => inFlight'[g] = 0
  BY DEF RouterRestarts
<1>8. UNCHANGED vars => inFlight' = inFlight
  BY DEF vars, planeVars
<1>. QED  BY <1>2, <1>3, <1>4, <1>5, <1>6, <1>7, <1>8, NextCases DEF PlaneStep

(* A generation that was dropped stays dropped, unless it is registered.   *)
LEMMA DroppedNext ==
  ASSUME ControlInv, PlaneInv, RunInv, [Next]_vars, NEW g \in Gen \ Registered(reg), Dropped(g)
  PROVE  Dropped(g)'
<1>1. inFlight'[g] = 0
  BY NoNewFlight DEF Dropped
<1>2. CASE Closed(g)
  BY <1>1, <1>2, ClosedForGood DEF Dropped
<1>3. CASE Untouched(g) /\ ~Closed(g)
  <2>1. ASSUME NEW q \in Request PROVE gen'[q] # g
    <3>1. CASE Route(q)
      <4>1. PICK f : f \in Registered(reg) /\ gen' = [gen EXCEPT ![q] = f]
        BY <3>1 DEF Route, Routable
      <4>. QED  BY <4>1 DEF PlaneInv, PlaneType
    <3>2. CASE gen'[q] = gen[q]
      BY <1>3, <3>2 DEF Untouched
    <3>3. CASE TransportStep(q)
      BY <1>3, <3>3 DEF Untouched, TransportStep, Deliver, Complete, Drop, planeVars
    <3>. QED  BY <1>3, <3>1, <3>2, <3>3, AtNext DEF RunInv, Untouched
  <2>2. resources'[g] = {}
    <3>1. ASSUME NEW r \in Request, Complete(r) PROVE resources'[g] = {}
      BY <1>3, <3>1 DEF Complete, Untouched, PlaneInv, PlaneType
    <3>2. ASSUME NEW r \in Request, PlaneStep(r) \/ TransportStep(r), ~Complete(r) PROVE resources' = resources
      BY <3>2 DEF PlaneStep, TransportStep, Arrive, Route, RouteRefused, Reply, Fail, Cancel, Deliver, Drop, backendVars
    <3>3. ASSUME NEW c \in Controller, Issue(c) \/ ControlStep(c) PROVE resources' = resources
      BY <3>3, ControlLeavesPlane
    <3>4. ASSUME NEW f \in Gen, BackendRestarts(f) \/ \E h \in Launcher : ResourceEnds(f, h) PROVE resources'[g] = {}
      BY <1>3, <3>4 DEF BackendRestarts, ResourceEnds, Untouched, PlaneInv, PlaneType
    <3>5. RouterRestarts \/ UNCHANGED vars => resources' = resources
      BY DEF RouterRestarts, vars, backendVars
    <3>. QED  BY <1>3, <3>1, <3>2, <3>3, <3>4, <3>5, NextCases DEF Untouched
  <2>. QED  BY <1>1, <2>1, <2>2 DEF Dropped, Untouched
<1>. QED  BY <1>2, <1>3 DEF Dropped

(* The router serves from its file, or is about to.                        *)
LEMMA QuietNext ==
  ASSUME ~BlindReadback, ControlInv, Quiet, [Next]_vars
  PROVE  Quiet'
<1>. USE DEF registryVars
<1>1. step \in [Controller -> Step]
  BY DEF ControlInv, ControlType
<1>2. ASSUME NEW c \in Controller, Issue(c) \/ ControlStep(c) PROVE Quiet'
  <2>1. CASE Rename(c)
    BY <1>1, <2>1 DEF Rename, Quiet, Renaming
  <2>2. CASE Acknowledge(c)
    BY <2>2 DEF Acknowledge, Quiet, ControlInv, Progress
  <2>3. CASE WriteFails(c)
    BY <2>3 DEF WriteFails, Reconciled, Quiet
  <2>4. CASE UNCHANGED registryVars
    <3>1. CASE Issue(c)
      BY <1>1, <2>4, <3>1 DEF Issue, Quiet, Renaming
    <3>2. CASE ControlStep(c)
      <4>1. Turn(c)
        BY <3>2 DEF ControlStep, Begin, BeginRefused, ProbeAnswered, CallFails, BackendFences, FenceConfirmed,
                    Rename, Acknowledge, WriteFails
      <4>2. step[c] = "renamed" => Acknowledge(c) \/ WriteFails(c)
        BY <3>2 DEF ControlStep, Begin, BeginRefused, ProbeAnswered, CallFails, BackendFences, FenceConfirmed, Rename
      <4>3. step[c] # "renamed" => ~Renaming
        BY <4>1, OneAtATime DEF ControlInv, Renaming, Waiting
      <4>. QED  BY <2>2, <2>3, <2>4, <4>2, <4>3 DEF Quiet
    <3>. QED  BY <1>2, <3>1, <3>2
  <2>. QED  BY <1>2, <2>1, <2>2, <2>3, <2>4 DEF Issue, ControlStep, Begin, BeginRefused, ProbeAnswered, CallFails,
              BackendFences, FenceConfirmed
<1>3. CASE RouterRestarts
  BY <1>3 DEF RouterRestarts, Quiet
<1>4. CASE UNCHANGED <<registryVars, controlVars>>
  BY <1>4 DEF Quiet, Renaming, controlVars
<1>. QED  BY <1>2, <1>3, <1>4, NextCases, OthersLeaveControl DEF vars

(* The registry the router serves from next is the one it has, or the file.*)
LEMMA ServedNext ==
  ASSUME ~BlindReadback, ControlInv, [Next]_vars
  PROVE  reg' \in {reg, disk}
<1>1. ASSUME NEW c \in Controller, Issue(c) \/ ControlStep(c) PROVE reg' \in {reg, disk}
  <2>1. CASE Acknowledge(c)
    BY <2>1 DEF Acknowledge, ControlInv, Progress
  <2>2. CASE WriteFails(c)
    BY <2>2 DEF WriteFails, Reconciled
  <2>. QED  BY <1>1, <2>1, <2>2 DEF Issue, ControlStep, Begin, BeginRefused, ProbeAnswered, CallFails,
              BackendFences, FenceConfirmed, Rename, registryVars
<1>2. RouterRestarts => reg' \in {reg, disk}
  BY DEF RouterRestarts
<1>. QED  BY <1>1, <1>2, NextCases, OthersLeaveControl DEF vars, registryVars

(* The active generation is fenced by nobody.                              *)
LEMMA ServesNext ==
  ASSUME ControlInv, PlaneInv, RetireInv, [Next]_vars, NEW n \in Registry, WellFormed(n), Serves(n),
         n = reg \/ (n = disk /\ reg' # reg)
  PROVE  \A g \in {n.active, n.previous} \ {None} : ~(fenced'[g] /\ inc'[g] = n.generations[g])
<1>. SUFFICES ASSUME NEW g \in {n.active, n.previous} \ {None}, fenced'[g], inc'[g] = n.generations[g] PROVE FALSE
  OBVIOUS
<1>1. inc \in [Gen -> Inc] /\ fenced \in [Gen -> BOOLEAN] /\ g \in Gen
  BY RegistryIs DEF ControlInv, ControlType, PlaneInv, PlaneType
<1>2. ~(fenced[g] /\ inc[g] = n.generations[g])
  BY DEF Serves
<1>3. ASSUME NEW c \in Controller, Issue(c) \/ ControlStep(c) PROVE FALSE
  <2>1. BackendFences(c) /\ inc' = inc
    BY <1>2, <1>3, ControlLeavesPlane
  <2>2. n = reg /\ op[c].gen = g
    BY <1>1, <1>2, <2>1 DEF BackendFences, registryVars
  <2>3. op[c].kind = "retire" /\ g \notin {reg.active, reg.previous}
    BY <2>1, <2>2 DEF BackendFences, RetireInv, Guarded, Waiting, ControlInv, Progress, Admissible
  <2>. QED  BY <2>2, <2>3
<1>4. ASSUME NEW f \in Gen, BackendRestarts(f) PROVE FALSE
  BY <1>1, <1>2, <1>4, NextIncarnation DEF BackendRestarts
<1>5. ASSUME NEW r \in Request, PlaneStep(r) \/ TransportStep(r) PROVE UNCHANGED <<inc, fenced>>
  BY <1>5 DEF PlaneStep, TransportStep, Arrive, Route, RouteRefused, Reply, Fail, Cancel, Deliver, Complete, Drop, backendVars
<1>6. ASSUME NEW f \in Gen, NEW h \in Launcher, ResourceEnds(f, h) PROVE UNCHANGED <<inc, fenced>>
  BY <1>6 DEF ResourceEnds
<1>7. RouterRestarts \/ UNCHANGED vars => UNCHANGED <<inc, fenced>>
  BY DEF RouterRestarts, vars, backendVars
<1>. QED  BY <1>2, <1>3, <1>4, <1>5, <1>6, <1>7, NextCases

(* What the change that runs has made sure of.                             *)
LEMMA GuardedStep ==
  ASSUME ControlInv, PlaneInv, RetireInv, NEW c \in Controller, ControlStep(c), step'[c] \notin Waiting
  PROVE  Guarded(c)'
<1>1. op \in [Controller -> OpType] /\ step \in [Controller -> Step] /\ fenced \in [Gen -> BOOLEAN] /\ Guarded(c)
  BY DEF ControlInv, ControlType, PlaneInv, PlaneType, RetireInv
<1>2. step[c] # "idle" /\ ~EndChange(c)
  BY <1>1 DEF EndChange, Waiting, ControlStep, Begin, BeginRefused, ProbeAnswered, CallFails, BackendFences,
     FenceConfirmed, Rename, Acknowledge, WriteFails
<1>3. CASE Begin(c)
  <2>1. PICK k \in Kind, g \in Gen : \E i \in IF k = "rebind" THEN First..inc[g] ELSE {First} :
       /\ Permitted(k, g, i)
       /\ op' = [op EXCEPT ![c] = [kind |-> k, gen |-> g, inst |-> i, saw |-> @.saw]]
       /\ step' = [step EXCEPT ![c] = IF k = "retire" THEN "fencing" ELSE "probing"]
       /\ retiring' = IF k = "retire" THEN retiring \cup {g} ELSE retiring
    BY <1>3 DEF Begin
  <2>2. op'[c].kind = k /\ op'[c].gen = g /\ step'[c] = IF k = "retire" THEN "fencing" ELSE "probing"
    BY <1>1, <2>1
  <2>3. k = "retire" => inFlight[g] = 0 /\ g \in retiring'
    BY <2>1 DEF Permitted
  <2>4. inFlight' = inFlight
    BY <1>3 DEF Begin, planeVars
  <2>. QED  BY <2>2, <2>3, <2>4 DEF Guarded
<1>4. CASE ProbeAnswered(c)
  <2>1. NeedsCommit(c) /\ ProbeSound(c) /\ step[c] = "probing" /\ step'[c] = "writing"
    BY <1>1, <1>2, <1>4 DEF ProbeAnswered
  <2>2. op[c].kind # "retire"
    BY <1>1, <2>1 DEF Guarded, Waiting
  <2>3. op' = op /\ fenced' = fenced /\ reg' = reg
    BY <1>2, <1>4 DEF ProbeAnswered, backendVars, registryVars
  <2>4. ~fenced[op[c].gen] /\ (op[c].kind = "register" => op[c].gen \notin Registered(reg))
    BY <2>1 DEF ProbeSound, NeedsCommit
  <2>. QED  BY <2>1, <2>2, <2>3, <2>4 DEF Guarded, Registered
<1>5. CASE BackendFences(c)
  <2>1. op[c].kind = "retire" /\ op[c].gen \in Gen
    BY <1>1, <1>5 DEF BackendFences, Guarded, Waiting, ControlInv, Progress, Admissible
  <2>2. /\ op' = op /\ fenced' = [fenced EXCEPT ![op[c].gen] = TRUE] /\ retiring' = retiring /\ inFlight' = inFlight
        /\ step'[c] = "confirming" /\ step[c] = "fencing"
    BY <1>1, <1>5 DEF BackendFences, planeVars
  <2>. QED  BY <1>1, <2>1, <2>2 DEF Guarded, Closed, Waiting
<1>6. CASE FenceConfirmed(c)
  <2>1. op[c].kind = "retire"
    BY <1>1, <1>6 DEF FenceConfirmed, Guarded, Waiting
  <2>2. /\ op' = op /\ fenced' = fenced /\ inc' = inc /\ retiring' = retiring /\ inFlight' = inFlight
        /\ step'[c] = "writing" /\ step[c] = "confirming"
    BY <1>1, <1>6 DEF FenceConfirmed, planeVars, backendVars
  <2>. QED  BY <1>1, <2>1, <2>2 DEF Guarded, Closed, Waiting
<1>7. CASE Rename(c)
  <2>1. /\ op' = op /\ fenced' = fenced /\ inc' = inc /\ retiring' = retiring /\ inFlight' = inFlight /\ reg' = reg
        /\ step'[c] = "renamed" /\ step[c] = "writing"
    BY <1>1, <1>7 DEF Rename, planeVars, backendVars
  <2>. QED  BY <1>1, <2>1 DEF Guarded, Closed, Waiting, Registered
<1>. QED  BY <1>2, <1>3, <1>4, <1>5, <1>6, <1>7 DEF ControlStep, BeginRefused, CallFails, Acknowledge, WriteFails

(* What a change has made sure of stays so while other steps are taken:    *)
(* only a restart clears a fence, and only this change ends its            *)
(* retirement.                                                             *)
LEMMA GuardedStays ==
  ASSUME ControlInv, PlaneInv, RetireInv, [Next]_vars, NEW d \in Controller, step[d] \notin Waiting,
         step'[d] = step[d], op'[d] = op[d], retiring' = retiring, reg' = reg,
         \A g \in Gen : fenced'[g] => fenced[g]
  PROVE  Guarded(d)'
<1>1. Guarded(d) /\ op[d].gen \in Gen
  BY DEF RetireInv, ControlInv, Progress, Admissible
<1>2. op[d].kind = "retire" => inFlight'[op[d].gen] = 0
  BY <1>1, NoNewFlight DEF Guarded
<1>3. op[d].kind = "retire" /\ step[d] # "fencing" => Closed(op[d].gen)'
  BY <1>1, ClosedForGood DEF Guarded
<1>. QED  BY <1>1, <1>2, <1>3 DEF Guarded, Registered

LEMMA GuardedNext ==
  ASSUME ControlInv, PlaneInv, RetireInv, [Next]_vars, NEW d \in Controller
  PROVE  Guarded(d)'
<1>. SUFFICES ASSUME step'[d] \notin Waiting PROVE Guarded(d)'
  BY DEF Guarded
<1>1. Chain /\ op \in [Controller -> OpType] /\ step \in [Controller -> Step] /\ fenced \in [Gen -> BOOLEAN]
  BY DEF ControlInv, ControlType, PlaneInv, PlaneType
<1>2. ASSUME NEW c \in Controller, Issue(c) PROVE Guarded(d)'
  <2>1. step[d] \notin Waiting /\ op'[d] = op[d] /\ step'[d] = step[d]
    BY <1>1, <1>2 DEF Issue, Waiting
  <2>2. retiring' = retiring /\ reg' = reg /\ fenced' = fenced
    BY <1>2 DEF Issue, registryVars, backendVars
  <2>. QED  BY <2>1, <2>2, GuardedStays
<1>3. ASSUME NEW c \in Controller, ControlStep(c) PROVE Guarded(d)'
  <2>1. Turn(c)
    BY <1>3 DEF ControlStep, Begin, BeginRefused, ProbeAnswered, CallFails, BackendFences, FenceConfirmed,
                Rename, Acknowledge, WriteFails
  <2>2. step[d] \notin Waiting => d = c
    BY <1>1, <2>1, OneAtATime
  <2>3. d = c
    BY <1>3, <2>2, BegunNext
  <2>. QED  BY <1>3, <2>3, GuardedStep
<1>4. CASE RouterRestarts
  BY <1>4 DEF RouterRestarts, Waiting
<1>5. ASSUME UNCHANGED <<registryVars, controlVars>>, \A g \in Gen : fenced'[g] => fenced[g] PROVE Guarded(d)'
  BY <1>5, GuardedStays DEF registryVars, controlVars
<1>6. ASSUME NEW r \in Request, PlaneStep(r) \/ TransportStep(r) PROVE fenced' = fenced
  BY <1>6 DEF PlaneStep, TransportStep, Arrive, Route, RouteRefused, Reply, Fail, Cancel, Deliver, Complete, Drop, backendVars
<1>7. ASSUME NEW g \in Gen, BackendRestarts(g) \/ \E h \in Launcher : ResourceEnds(g, h)
      PROVE  \A f \in Gen : fenced'[f] => fenced[f]
  BY <1>1, <1>7 DEF BackendRestarts, ResourceEnds
<1>8. CASE UNCHANGED vars
  BY <1>5, <1>8 DEF vars, backendVars
<1>9. ASSUME NEW r \in Request, PlaneStep(r) \/ TransportStep(r) PROVE Guarded(d)'
  BY <1>5, <1>6, <1>9, OthersLeaveControl
<1>10. ASSUME NEW g \in Gen, BackendRestarts(g) \/ \E h \in Launcher : ResourceEnds(g, h) PROVE Guarded(d)'
  BY <1>5, <1>7, <1>10, OthersLeaveControl
<1>. QED  BY <1>2, <1>3, <1>4, <1>8, <1>9, <1>10, NextCases

(* The generations the router does not know next were dropped.             *)
LEMMA UnknownNext ==
  ASSUME ControlInv, PlaneInv, RunInv, RetireInv, [Next]_vars, ~BlindReadback
  PROVE  \A g \in Gen \ Registered(reg') : Dropped(g)'
<1>1. CASE reg' = reg
  BY <1>1, DroppedNext DEF RetireInv
<1>2. CASE reg' # reg
  <2>. SUFFICES ASSUME NEW g \in Gen \ Registered(reg') PROVE Dropped(g)'
    OBVIOUS
  <2>1. reg' = disk
    BY <1>2, ServedNext
  <2>2. Dropped(g)
    BY <2>1, DiskKeepsPromises
  <2>3. inFlight' = inFlight \/ inFlight'[g] = 0
    <3>1. ASSUME NEW c \in Controller, Issue(c) \/ ControlStep(c) PROVE inFlight' = inFlight
      BY <3>1, ControlLeavesPlane DEF planeVars
    <3>. QED  BY <1>2, <3>1, NextCases, OthersLeaveControl DEF RouterRestarts, registryVars, vars
  <2>4. resources' = resources /\ gen' = gen
    <3>1. ASSUME NEW c \in Controller, Issue(c) \/ ControlStep(c) PROVE resources' = resources /\ gen' = gen
      BY <3>1, ControlLeavesPlane DEF planeVars
    <3>. QED  BY <1>2, <3>1, NextCases, OthersLeaveControl DEF RouterRestarts, registryVars, vars, backendVars
  <2>5. Closed(g) => Closed(g)'
    BY ClosedForGood
  <2>. QED  BY <2>2, <2>3, <2>4, <2>5 DEF Dropped, Untouched
<1>. QED  BY <1>1, <1>2

(* Every step keeps what retirement and activation promise.                *)
LEMMA RetireNext ==
  ASSUME ControlInv, PlaneInv, RunInv, RetireInv, [Next]_vars, ~BlindReadback
  PROVE  RetireInv'
<1>1. Quiet'
  BY QuietNext DEF RetireInv
<1>2. Serves(reg)'
  <2>1. reg \in Registry /\ disk \in Registry /\ WellFormed(reg) /\ WellFormed(disk)
    BY DEF ControlInv, ControlType
  <2>2. Serves(reg) /\ Serves(disk)
    BY DiskKeepsPromises DEF RetireInv
  <2>3. reg' \in {reg, disk}
    BY ServedNext
  <2>4. ASSUME NEW n \in Registry, n = reg', n = reg \/ (n = disk /\ reg' # reg), WellFormed(n), Serves(n)
        PROVE  Serves(reg)'
    <3>1. \A g \in {n.active, n.previous} \ {None} : ~(fenced'[g] /\ inc'[g] = n.generations[g])
      BY <2>4, ServesNext
    <3>. QED  BY <2>4, <3>1 DEF Serves
  <2>. QED  BY <2>1, <2>2, <2>3, <2>4
<1>3. \A g \in Gen \ Registered(reg') : Dropped(g)'
  BY UnknownNext
<1>4. \A c \in Controller : Guarded(c)'
  BY GuardedNext
<1>. QED  BY <1>1, <1>2, <1>3, <1>4 DEF RetireInv, Registered

(* RetireInv holds if a registry that was written can be read back.        *)
THEOREM RetireInvariance ==
  ASSUME ~BlindReadback
  PROVE  Spec => []RetireInv
<1>1. ControlInv /\ PlaneInv /\ RunInv /\ RetireInv /\ [Next]_vars => RetireInv'
  BY RetireNext
<1>. QED  BY <1>1, RetireInit, ControlInvariance, PlaneInvariance, RunInvariance, PTL DEF Spec

(* Retirement strands nothing: what is fenced owns nothing, now and for    *)
(* ever, and neither does a generation that the router has dropped, to     *)
(* which no request is on its way (router.ts:288-299; http-server.ts).     *)
THEOREM RetiredAlwaysOwnsNothing ==
  ASSUME ~BlindReadback
  PROVE  Spec => []RetiredOwnsNothing
<1>1. RunInv => \A g \in Gen : fenced[g] => Idle(g)
  BY DEF RunInv, Sealed, Closed
<1>2. RunInv => \A g \in Gen : Dropped(g) => Idle(g) /\ inFlight[g] = 0
  BY DEF RunInv, Sealed, Dropped, Untouched, Idle, Executing
<1>3. RunInv /\ RetireInv => RetiredOwnsNothing
  BY <1>1, <1>2 DEF RetireInv, RetiredOwnsNothing
<1>. QED  BY <1>3, RunInvariance, RetireInvariance, PTL

(* The active generation is never one that was retired (router.ts:284-296).*)
THEOREM ActiveAlwaysServes ==
  ASSUME ~BlindReadback
  PROVE  Spec => []ActiveServes
<1>1. RetireInv => ActiveServes
  BY DEF RetireInv, Serves, ActiveServes
<1>. QED  BY <1>1, RetireInvariance, PTL

-----------------------------------------------------------------------------
(* The promise of RouterPromise, if a registry that was written can be     *)
(* read back.                                                              *)

(* The registry a change is meant for is the one in memory, if the epoch   *)
(* is; and what was checked before the awaits of a change still holds.     *)
Lawful(c) ==
  /\ step[c] # "idle" /\ op[c].saw.epoch = reg.epoch => op[c].saw = reg
  /\ step[c] \notin Waiting /\ op[c].kind = "rebind" => op[c].inst # reg.generations[op[c].gen]
  /\ step[c] \in {"writing", "renamed"} =>
       /\ op[c].kind = "register" => Cardinality(Registered(reg)) < MaxGenerations
       /\ op[c].kind \in {"activate", "rollback"} => reg.active # op[c].gen

LawInv ==
  /\ \A c \in Controller : Lawful(c)
  /\ \A r \in Launcher : target[r] = None

(* What a step of a change leaves of the registry: the epoch only rises.   *)
LEMMA EpochNext ==
  ASSUME ~BlindReadback, ControlInv, RetireInv, [Next]_vars, reg' # reg
  PROVE  reg' = disk /\ reg'.epoch = reg.epoch + 1
<1>1. reg' = disk
  BY ServedNext
<1>2. PICK c \in Controller : step[c] = "renamed"
  BY <1>1 DEF RetireInv, Quiet, Renaming
<1>3. disk = Changed(reg, op[c]) /\ op[c].kind \in Kind /\ reg \in Registry
  BY <1>2 DEF ControlInv, ControlType, Progress, Waiting, Admissible
<1>. QED  BY <1>1, <1>3, ChangedIs

(* A change that has begun goes on with the same registry, or ends.        *)
LEMMA BegunKeepsRegistry ==
  ASSUME ControlInv, [Next]_vars, NEW d \in Controller, step[d] \notin Waiting, step'[d] \notin Waiting
  PROVE  reg' = reg
<1>1. Chain /\ op \in [Controller -> OpType] /\ step \in [Controller -> Step]
  BY DEF ControlInv, ControlType
<1>2. ASSUME NEW c \in Controller, Issue(c) \/ ControlStep(c), reg' # reg PROVE FALSE
  <2>1. Acknowledge(c) \/ WriteFails(c)
    BY <1>2 DEF Issue, ControlStep, Begin, BeginRefused, ProbeAnswered, CallFails, BackendFences, FenceConfirmed,
                Rename, registryVars
  <2>2. Turn(c) /\ EndChange(c)
    BY <2>1 DEF Acknowledge, WriteFails
  <2>3. d = c
    BY <1>1, <2>2, OneAtATime
  <2>. QED  BY <1>1, <2>2, <2>3 DEF EndChange, Waiting
<1>3. ~RouterRestarts
  BY DEF RouterRestarts, Waiting
<1>. QED  BY <1>2, <1>3, NextCases, OthersLeaveControl DEF vars, registryVars

(* What a change checks in a step holds afterwards.                        *)
LEMMA LawfulStep ==
  ASSUME ControlInv, RetireInv, NEW c \in Controller, ControlStep(c), step'[c] \notin Waiting, Lawful(c), reg' = reg
  PROVE  Lawful(c)'
<1>1. op \in [Controller -> OpType] /\ step \in [Controller -> Step]
  BY DEF ControlInv, ControlType
<1>2. step[c] # "idle" /\ ~EndChange(c)
  BY <1>1 DEF EndChange, Waiting, ControlStep, Begin, BeginRefused, ProbeAnswered, CallFails, BackendFences,
     FenceConfirmed, Rename, Acknowledge, WriteFails
<1>3. CASE Begin(c)
  <2>1. PICK k \in Kind, g \in Gen : \E i \in IF k = "rebind" THEN First..inc[g] ELSE {First} :
       /\ Permitted(k, g, i)
       /\ op' = [op EXCEPT ![c] = [kind |-> k, gen |-> g, inst |-> i, saw |-> @.saw]]
       /\ step' = [step EXCEPT ![c] = IF k = "retire" THEN "fencing" ELSE "probing"]
    BY <1>3 DEF Begin
  <2>2. PICK i :
       /\ Permitted(k, g, i)
       /\ op' = [op EXCEPT ![c] = [kind |-> k, gen |-> g, inst |-> i, saw |-> @.saw]]
       /\ step' = [step EXCEPT ![c] = IF k = "retire" THEN "fencing" ELSE "probing"]
    BY <2>1
  <2>3. /\ op'[c].kind = k /\ op'[c].gen = g /\ op'[c].inst = i /\ op'[c].saw = op[c].saw
        /\ step'[c] \in {"fencing", "probing"}
    BY <1>1, <2>2
  <2>4. k = "rebind" => i # reg.generations[g]
    BY <2>2 DEF Permitted
  <2>. QED  BY <1>2, <2>3, <2>4 DEF Lawful
<1>4. CASE ProbeAnswered(c)
  <2>1. NeedsCommit(c) /\ step[c] = "probing" /\ op' = op
    BY <1>1, <1>2, <1>4 DEF ProbeAnswered
  <2>. QED  BY <2>1 DEF Lawful, NeedsCommit, Registered, Waiting
<1>5. CASE BackendFences(c)
  BY <1>1, <1>5 DEF BackendFences, Lawful, Registered, Waiting
<1>6. CASE Rename(c)
  BY <1>1, <1>6 DEF Rename, Lawful, Registered, Waiting
<1>7. CASE FenceConfirmed(c)
  <2>1. op[c].kind = "retire" /\ op' = op /\ step[c] = "confirming"
    BY <1>7 DEF FenceConfirmed, RetireInv, Guarded, Waiting
  <2>. QED  BY <1>1, <2>1 DEF Lawful, Waiting
<1>. QED  BY <1>2, <1>3, <1>4, <1>5, <1>6, <1>7 DEF ControlStep, BeginRefused, CallFails, Acknowledge, WriteFails

(* Every step keeps it.                                                    *)
LEMMA LawfulNext ==
  ASSUME ~BlindReadback, ControlInv, RetireInv, [Next]_vars, NEW d \in Controller, Lawful(d)
  PROVE  Lawful(d)'
<1>1. Chain /\ op \in [Controller -> OpType] /\ step \in [Controller -> Step]
  BY DEF ControlInv, ControlType
<1>2. step[d] # "idle" => op[d].saw.epoch <= reg.epoch
  BY DEF ControlInv, Informed
<1>3. CASE step'[d] \in Waiting
  <2>. SUFFICES ASSUME step'[d] = "queued", op'[d].saw.epoch = reg'.epoch PROVE op'[d].saw = reg'
    BY <1>3 DEF Lawful, Waiting
  <2>1. ASSUME NEW c \in Controller, Issue(c) \/ ControlStep(c)
        PROVE  Issue(d) \/ (step[d] = "queued" /\ op'[d] = op[d])
    <3>1. CASE Issue(c)
      BY <1>1, <3>1 DEF Issue
    <3>2. CASE EndChange(c)
      BY <1>1, <3>2 DEF EndChange
    <3>3. CASE Begin(c)
      BY <1>1, <3>3 DEF Begin
    <3>4. CASE ControlStep(c) /\ ~Begin(c) /\ ~EndChange(c)
      BY <1>1, <3>4 DEF ControlStep, BeginRefused, ProbeAnswered, CallFails, BackendFences, FenceConfirmed,
                        Rename, Acknowledge, WriteFails
    <3>. QED  BY <2>1, <3>1, <3>2, <3>3, <3>4
  <2>2. Issue(d) \/ (step[d] = "queued" /\ op'[d] = op[d])
    BY <2>1, NextCases, OthersLeaveControl DEF RouterRestarts, vars, controlVars
  <2>3. CASE Issue(d)
    BY <1>1, <2>3 DEF Issue, registryVars
  <2>4. CASE step[d] = "queued" /\ op'[d] = op[d]
    <3>1. CASE reg' = reg
      BY <2>4, <3>1 DEF Lawful
    <3>2. CASE reg' # reg
      <4>1. reg'.epoch = reg.epoch + 1 /\ reg.epoch \in Nat /\ op[d].saw.epoch \in Nat
        BY <1>1, <3>2, EpochNext DEF ControlInv, ControlType, OpType, Registry
      <4>. QED  BY <1>2, <2>4, <4>1
    <3>. QED  BY <3>1, <3>2
  <2>. QED  BY <2>2, <2>3, <2>4
<1>4. CASE step'[d] \notin Waiting
  <2>1. ASSUME NEW c \in Controller, Issue(c) \/ ControlStep(c) PROVE Lawful(d)'
    <3>1. (step[d] \notin Waiting /\ op'[d] = op[d]) \/ (Begin(c) /\ d = c)
      BY <1>4, <2>1, BegunNext
    <3>2. reg' = reg
      <4>1. CASE Begin(c)
        BY <4>1 DEF Begin, registryVars
      <4>2. CASE step[d] \notin Waiting
        BY <1>4, <4>2, BegunKeepsRegistry
      <4>. QED  BY <3>1, <4>1, <4>2
    <3>3. CASE d = c
      <4>1. ControlStep(c)
        BY <1>4, <2>1, <3>3 DEF Issue, Waiting, ControlInv, ControlType
      <4>. QED  BY <1>4, <3>2, <3>3, <4>1, LawfulStep
    <3>4. CASE d # c
      <4>1. step[d] \notin Waiting /\ op'[d] = op[d]
        BY <3>1, <3>4
      <4>2. ~Turn(c) /\ Turn(d)
        BY <1>1, <3>4, <4>1, OneAtATime DEF Chain
      <4>3. Issue(c)
        BY <2>1, <4>2 DEF ControlStep, Begin, BeginRefused, ProbeAnswered, CallFails, BackendFences, FenceConfirmed,
                          Rename, Acknowledge, WriteFails
      <4>4. step'[d] = step[d]
        BY <1>1, <3>4, <4>3 DEF Issue
      <4>. QED  BY <3>2, <4>1, <4>4 DEF Lawful, Registered
    <3>. QED  BY <3>3, <3>4
  <2>2. ASSUME UNCHANGED <<registryVars, controlVars>> PROVE Lawful(d)'
    BY <2>2 DEF Lawful, Registered, Waiting, registryVars, controlVars
  <2>3. ~RouterRestarts
    BY <1>4 DEF RouterRestarts, Waiting
  <2>. QED  BY <2>1, <2>2, <2>3, NextCases, OthersLeaveControl DEF vars
<1>. QED  BY <1>3, <1>4

(* A launch names no other launch.                                         *)
LEMMA TargetNext ==
  ASSUME PlaneInv, [Next]_vars, NEW l \in Launcher, target[l] = None
  PROVE  target'[l] = None
<1>1. ASSUME NEW r \in Request, Route(r) PROVE target'[l] = None
  <2>1. PICK h \in {None} \cup (IF r \in Launcher THEN {} ELSE Handles) : target' = [target EXCEPT ![r] = h]
    BY <1>1 DEF Route
  <2>. QED  BY <2>1, ConstantsAssumption DEF PlaneInv, PlaneType
<1>2. ASSUME NEW c \in Controller, Issue(c) \/ ControlStep(c) PROVE target' = target
  BY <1>2, ControlLeavesPlane DEF planeVars
<1>3. ASSUME NEW r \in Request, PlaneStep(r) \/ TransportStep(r), ~Route(r) PROVE target' = target
  BY <1>3 DEF PlaneStep, TransportStep, Arrive, RouteRefused, Reply, Fail, Cancel, Settle, Deliver, Complete, Drop, planeVars
<1>4. ASSUME NEW g \in Gen, BackendRestarts(g) \/ \E h \in Launcher : ResourceEnds(g, h) PROVE target' = target
  BY <1>4 DEF BackendRestarts, ResourceEnds, planeVars
<1>5. RouterRestarts \/ UNCHANGED vars => target' = target
  BY DEF RouterRestarts, vars, planeVars
<1>. QED  BY <1>1, <1>2, <1>3, <1>4, <1>5, NextCases

(* LawInv holds if a registry that was written can be read back.           *)
LEMMA LawInvariance ==
  ASSUME ~BlindReadback
  PROVE  Spec => []LawInv
<1>1. Init => LawInv
  BY ConstantsAssumption DEF Init, LawInv, Lawful, Waiting
<1>2. ControlInv /\ PlaneInv /\ RetireInv /\ LawInv /\ [Next]_vars => LawInv'
  BY LawfulNext, TargetNext DEF LawInv
<1>. QED  BY <1>1, <1>2, ControlInvariance, PlaneInvariance, RetireInvariance, PTL DEF Spec

(* RouterPromise's view of the router: the changes asked for and decided,  *)
(* and each request's answer and binding.                                  *)
Seen == [c \in Controller |-> Asked(c)]
Deciding == {c \in Controller : step[c] = "renamed"}
Calls == [r \in Request |-> Answered(r)]
Bonds == [r \in Request |-> Bound(r)]

(* Nothing that the model names is None.                                   *)
LEMMA NothingIsNone ==
  /\ \A r \in Registry : r # None
  /\ \A g \in Gen, i \in Inc : <<g, i>> # None /\ <<g, i>>[1] = g /\ <<g, i>>[2] = i
BY ConstantsAssumption

(* A step that leaves the requests alone leaves the view of them alone.    *)
LEMMA PlaneUnseen ==
  ASSUME UNCHANGED <<status, at, gen, want, ran>>
  PROVE  UNCHANGED Promise!plane
<1>1. \A r \in Request : Answered(r)' = Answered(r) /\ Bound(r)' = Bound(r)
  BY DEF Answered, Bound
<1>. QED  BY <1>1 DEF Promise!plane

(* So it is with the control plane.                                        *)
LEMMA ControlUnseen ==
  ASSUME UNCHANGED <<registryVars, controlVars>>
  PROVE  UNCHANGED Promise!control
<1>1. \A c \in Controller : Asked(c)' = Asked(c)
  BY DEF Asked, controlVars
<1>. QED  BY <1>1 DEF Promise!control, registryVars, controlVars

(* The open calls are the requests held; a call is bound where it was      *)
(* routed.                                                                 *)
LEMMA ViewIs ==
  ASSUME PlaneInv
  PROVE  /\ Promise!Open = Held
         /\ \A r \in Request, g \in Gen : Promise!BoundTo(r, g) <=> at[r] # "nowhere" /\ gen[r] = g
<1>1. Promise!Open = Held
  BY DEF Promise!Open, Held, Answered, PlaneInv, PlaneType
<1>2. ASSUME NEW r \in Request, NEW g \in Gen
      PROVE  Promise!BoundTo(r, g) <=> at[r] # "nowhere" /\ gen[r] = g
  <2>1. at[r] # "nowhere" => gen[r] \in Gen /\ want[r] \in Inc
    BY DEF PlaneInv, PlaneType, Place
  <2>. QED  BY <2>1, NothingIsNone DEF Promise!BoundTo, Bound
<1>. QED  BY <1>1, <1>2

-----------------------------------------------------------------------------
(* The control plane's steps.                                              *)

(* A change that is not over, and was not decided in this step: nothing is *)
(* seen.                                                                   *)
LEMMA AdvanceRefines ==
  ASSUME ControlInv, NEW c \in Controller,
         Begin(c) \/ BackendFences(c) \/ FenceConfirmed(c) \/ (ProbeAnswered(c) /\ ~EndChange(c))
  PROVE  UNCHANGED Promise!vars
<1>1. op \in [Controller -> OpType] /\ step \in [Controller -> Step]
  BY DEF ControlInv, ControlType
<1>2. UNCHANGED Promise!plane /\ UNCHANGED <<resources, registryVars>>
  BY PlaneUnseen DEF Begin, BackendFences, FenceConfirmed, ProbeAnswered, planeVars, backendVars
<1>3. /\ step[c] \notin {"idle", "renamed"}
      /\ \E s \in Step \ {"idle", "renamed"} : step' = [step EXCEPT ![c] = s]
      /\ op' = op \/ \E o : op' = [op EXCEPT ![c] = o] /\ o.saw = op[c].saw
  <2>1. CASE Begin(c)
    <3>1. PICK k \in Kind, g \in Gen : \E i \in IF k = "rebind" THEN First..inc[g] ELSE {First} :
            /\ op' = [op EXCEPT ![c] = [kind |-> k, gen |-> g, inst |-> i, saw |-> @.saw]]
            /\ step' = [step EXCEPT ![c] = IF k = "retire" THEN "fencing" ELSE "probing"]
      BY <2>1 DEF Begin
    <3>2. PICK i :
            /\ op' = [op EXCEPT ![c] = [kind |-> k, gen |-> g, inst |-> i, saw |-> @.saw]]
            /\ step' = [step EXCEPT ![c] = IF k = "retire" THEN "fencing" ELSE "probing"]
      BY <3>1
    <3>3. step[c] = "queued" /\ {"probing", "fencing"} \subseteq Step \ {"idle", "renamed"}
      BY <2>1 DEF Begin, Step
    <3>4. step' = [step EXCEPT ![c] = "probing"] \/ step' = [step EXCEPT ![c] = "fencing"]
      BY <3>2
    <3>5. PICK o : op' = [op EXCEPT ![c] = o] /\ o.saw = op[c].saw
      <4>. DEFINE o == [kind |-> k, gen |-> g, inst |-> i, saw |-> op[c].saw]
      <4>1. op' = [op EXCEPT ![c] = o] /\ o.saw = op[c].saw
        BY <3>2
      <4>. QED  BY <4>1
    <3>. QED  BY <3>3, <3>4, <3>5
  <2>2. CASE ~Begin(c)
    BY <2>2 DEF BackendFences, FenceConfirmed, ProbeAnswered, Step
  <2>. QED  BY <2>1, <2>2
<1>4. ASSUME NEW d \in Controller
      PROVE  Asked(d)' = Asked(d) /\ (step'[d] = "renamed" <=> step[d] = "renamed")
  BY <1>1, <1>3 DEF Asked
<1>. QED  BY <1>2, <1>4 DEF Promise!vars, Promise!control, registryVars

(* A controller asks.                                                      *)
LEMMA IssueRefines ==
  ASSUME ControlInv, NEW c \in Controller, Issue(c)
  PROVE  Promise!Ask(c)
<1>1. op \in [Controller -> OpType] /\ step \in [Controller -> Step] /\ reg \in Registry
  BY DEF ControlInv, ControlType
<1>2. UNCHANGED Promise!plane /\ UNCHANGED <<resources, registryVars>>
  BY PlaneUnseen DEF Issue, planeVars, backendVars
<1>3. step[c] = "idle" /\ op'[c].saw = reg /\ step'[c] = "queued"
  BY <1>1 DEF Issue
<1>4. \A d \in Controller \ {c} : op'[d] = op[d] /\ step'[d] = step[d]
  BY <1>1 DEF Issue
<1>5. Asked(c) = None /\ Asked(c)' = reg /\ \A d \in Controller \ {c} : Asked(d)' = Asked(d)
  BY <1>3, <1>4 DEF Asked
<1>6. Deciding' = Deciding
  BY <1>3, <1>4 DEF Deciding
<1>. QED  BY <1>2, <1>5, <1>6 DEF Promise!Ask, Deciding, registryVars

(* The answer of a controller.                                             *)
LEMMA EndSeen ==
  ASSUME ControlInv, NEW c \in Controller, step[c] # "idle", EndChange(c)
  PROVE  /\ Seen[c] # None /\ Seen' = [Seen EXCEPT ![c] = None]
         /\ Deciding' = Deciding \ {c}
<1>1. op \in [Controller -> OpType] /\ step \in [Controller -> Step]
  BY DEF ControlInv, ControlType
<1>2. step'[c] = "idle" /\ \A d \in Controller \ {c} : op'[d] = op[d] /\ step'[d] = step[d]
  BY <1>1 DEF EndChange
<1>3. op[c].saw # None
  BY <1>1, NothingIsNone DEF OpType
<1>4. Asked(c) # None /\ Asked(c)' = None /\ \A d \in Controller \ {c} : Asked(d)' = Asked(d)
  BY <1>2, <1>3 DEF Asked
<1>5. Seen[c] # None
  BY <1>4 DEF Seen
<1>6. Seen' = [d \in Controller |-> IF d = c THEN None ELSE Asked(d)]
  BY <1>4 DEF Seen
<1>7. Seen' = [Seen EXCEPT ![c] = None]
  BY <1>6 DEF Seen
<1>8. Deciding' = Deciding \ {c}
  BY <1>2 DEF Deciding
<1>. QED  BY <1>5, <1>7, <1>8

(* A change ends with a refusal, a failure, or nothing to do.              *)
LEMMA EndRefines ==
  ASSUME ~BlindReadback, ControlInv, RetireInv, NEW c \in Controller,
         BeginRefused(c) \/ CallFails(c) \/ WriteFails(c) \/ (ProbeAnswered(c) /\ EndChange(c))
  PROVE  Promise!Refuse(c)
<1>1. Turn(c) /\ step[c] # "idle" /\ EndChange(c) /\ UNCHANGED <<disk, acked, resources>> /\ UNCHANGED Promise!plane
  BY PlaneUnseen DEF BeginRefused, CallFails, WriteFails, ProbeAnswered, registryVars, planeVars, backendVars
<1>2. reg' = IF c \in Deciding THEN disk ELSE reg
  <2>1. CASE WriteFails(c)
    <3>1. reg' = disk
      BY <2>1 DEF WriteFails, Reconciled
    <3>2. ASSUME c \notin Deciding PROVE reg = disk
      <4>1. \A d \in Controller : step[d] # "renamed"
        BY <1>1, <3>2, OneAtATime DEF Deciding, Waiting, ControlInv
      <4>. QED  BY <4>1 DEF RetireInv, Quiet, Renaming
    <3>. QED  BY <3>1, <3>2
  <2>2. CASE ~WriteFails(c)
    <3>1. step[c] # "renamed" /\ reg' = reg
      BY <2>2 DEF BeginRefused, CallFails, ProbeAnswered, registryVars
    <3>. QED  BY <3>1 DEF Deciding
  <2>. QED  BY <2>1, <2>2
<1>3. Seen[c] # None /\ Seen' = [Seen EXCEPT ![c] = None] /\ Deciding' = Deciding \ {c}
  BY <1>1, EndSeen
<1>. QED  BY <1>1, <1>2, <1>3 DEF Promise!Refuse, Seen, Deciding

(* A change is acknowledged.                                               *)
LEMMA AcknowledgeRefines ==
  ASSUME ControlInv, NEW c \in Controller, Acknowledge(c)
  PROVE  Promise!Confirm(c)
<1>1. /\ step[c] = "renamed" /\ EndChange(c) /\ reg' = Changed(reg, op[c]) /\ acked' = reg'
      /\ UNCHANGED <<disk, resources>> /\ UNCHANGED Promise!plane
  BY PlaneUnseen DEF Acknowledge, planeVars, backendVars
<1>2. reg' = disk
  BY <1>1 DEF ControlInv, Progress
<1>3. Seen' = [Seen EXCEPT ![c] = None] /\ Deciding' = Deciding \ {c} /\ c \in Deciding
  <2>1. step[c] # "idle"
    BY <1>1
  <2>. QED  BY <1>1, <2>1, EndSeen DEF Deciding
<1>. QED  BY <1>1, <1>2, <1>3 DEF Promise!Confirm, Seen, Deciding

LEMMA SameCount == ASSUME NEW S PROVE Promise!Cardinality(S) = Cardinality(S)
BY DEF Promise!Cardinality, Cardinality

(* A generation that is fenced and has nothing in flight is unused.        *)
LEMMA RetiredUnused ==
  ASSUME PlaneInv, RunInv, NEW g \in Gen, Closed(g), inFlight[g] = 0
  PROVE  Promise!Unused(g)
<1>1. resources[g] = {}
  BY DEF RunInv, Sealed, Idle
<1>2. Carried(g) = {}
  <2>1. IsFiniteSet(Carried(g)) /\ Cardinality(Carried(g)) = 0
    BY CarriedFinite DEF PlaneInv, Counts
  <2>. QED  BY <2>1, FS_EmptySet
<1>3. ASSUME NEW r \in Held, at[r] # "nowhere", gen[r] = g PROVE FALSE
  BY <1>2, <1>3 DEF Held, Carried, PlaneInv, Place
<1>. QED  BY <1>1, <1>3, ViewIs DEF Promise!Unused, Held

(* The rename decides the change: what was checked before it holds.        *)
LEMMA RenameRefines ==
  ASSUME ControlInv, PlaneInv, RunInv, RetireInv, LawInv, NEW c \in Controller, Rename(c)
  PROVE  Promise!Decide(c)
<1>. DEFINE o == op[c]
            e == Changed(disk, op[c])
<1>1. /\ Turn(c) /\ step[c] = "writing" /\ disk' = Changed(reg, op[c])
      /\ step' = [step EXCEPT ![c] = "renamed"] /\ op' = op
      /\ UNCHANGED <<reg, acked, resources>> /\ UNCHANGED Promise!plane
  BY PlaneUnseen DEF Rename, planeVars, backendVars
<1>2. step \in [Controller -> Step] /\ disk \in Registry
  BY DEF ControlInv, ControlType
<1>3. \A d \in Controller : step[d] # "renamed"
  BY <1>1, OneAtATime DEF Waiting, ControlInv
<1>4. reg = disk
  BY <1>3 DEF RetireInv, Quiet, Renaming
<1>5. Deciding = {} /\ Deciding' = {c}
  BY <1>1, <1>2, <1>3 DEF Deciding
<1>6. Seen' = Seen
  <2>1. \A d \in Controller : Asked(d)' = Asked(d)
    BY <1>1, <1>2 DEF Asked
  <2>. QED  BY <2>1 DEF Seen
<1>7. Seen[c] = disk
  BY <1>1, <1>4 DEF ControlInv, Progress, Fresh, Waiting, LawInv, Lawful, Seen, Asked
<1>8. Admissible(disk, o) /\ disk' = e
  BY <1>1, <1>4 DEF ControlInv, Progress, Waiting
<1>9. /\ e.epoch = disk.epoch + 1
      /\ o.kind \in {"activate", "rollback"} =>
           e.active = o.gen /\ e.previous = disk.active /\ e.generations = disk.generations
      /\ o.kind \notin {"activate", "rollback"} => e.active = disk.active /\ e.previous = disk.previous
      /\ o.kind = "register" =>
           e.generations = [g \in Registered(disk) \cup {o.gen} |-> IF g = o.gen THEN First ELSE disk.generations[g]]
      /\ o.kind = "rebind" => e.generations = [disk.generations EXCEPT ![o.gen] = o.inst]
      /\ o.kind = "retire" => e.generations = [g \in Registered(disk) \ {o.gen} |-> disk.generations[g]]
  BY <1>2, <1>8, ChangedIs DEF Admissible
<1>10. Lawful(c) /\ Guarded(c)
  BY DEF LawInv, RetireInv
<1>. HIDE DEF o, e
<1>11. \/ Promise!Registers(disk, e, o.gen) \/ Promise!Rebinds(disk, e, o.gen)
       \/ Promise!Activates(disk, e, o.gen) \/ Promise!Retires(disk, e, o.gen)
  <2>1. CASE o.kind = "register"
    <3>1. o.gen \notin Registered(disk) /\ Cardinality(Registered(disk)) < MaxGenerations
      BY <1>1, <1>4, <1>10, <2>1 DEF Lawful, Guarded, Waiting, o
    <3>. QED  BY <1>9, <2>1, <3>1, SameCount DEF Promise!Registers, Promise!Registered, Registered
  <2>2. CASE o.kind = "rebind"
    <3>1. o.inst # disk.generations[o.gen] /\ o.inst \in Inc /\ o.gen \in Registered(disk)
      BY <1>1, <1>4, <1>8, <1>10, <2>2 DEF Lawful, Admissible, Waiting, o
    <3>. QED  BY <1>9, <2>2, <3>1 DEF Promise!Rebinds, Promise!Registered, Registered
  <2>3. CASE o.kind \in {"activate", "rollback"}
    <3>1. disk.active # o.gen /\ o.gen \in Registered(disk)
      BY <1>1, <1>4, <1>8, <1>10, <2>3 DEF Lawful, Admissible, o
    <3>. QED  BY <1>9, <2>3, <3>1 DEF Promise!Activates, Promise!Registered, Registered
  <2>4. CASE o.kind = "retire"
    <3>1. o.gen \in Registered(disk) \ {disk.active, disk.previous} /\ o.gen \in Gen
      BY <1>8, <2>4 DEF Admissible
    <3>2. Closed(o.gen) /\ inFlight[o.gen] = 0
      BY <1>1, <1>10, <2>4 DEF Guarded, Waiting, o
    <3>3. Promise!Unused(o.gen)
      BY <3>1, <3>2, RetiredUnused
    <3>. QED  BY <1>9, <2>4, <3>1, <3>3 DEF Promise!Retires, Promise!Registered, Registered
  <2>. QED  BY <1>8, <2>1, <2>2, <2>3, <2>4 DEF Admissible, Kind
<1>12. o.gen \in Gen
  BY <1>8 DEF Admissible
<1>. QED  BY <1>1, <1>5, <1>6, <1>7, <1>8, <1>9, <1>11, <1>12 DEF Promise!Decide, Seen, Deciding

(* The router restarts.                                                    *)
LEMMA RestartRefines ==
  ASSUME PlaneInv, RouterRestarts
  PROVE  Promise!Restart
<1>1. /\ reg' = disk /\ UNCHANGED <<disk, acked, gen, want, at, ran, resources>>
      /\ step' = [c \in Controller |-> "idle"]
      /\ status' = [r \in Request |-> IF r \in Held THEN "lost" ELSE status[r]]
  BY DEF RouterRestarts, backendVars
<1>2. Seen' = [c \in Controller |-> None] /\ Deciding' = {}
  <2>1. \A c \in Controller : Asked(c)' = None /\ step'[c] # "renamed"
    BY <1>1 DEF Asked
  <2>. QED  BY <2>1 DEF Seen, Deciding
<1>3. Calls' = [r \in Request |-> IF r \in Held THEN "unknown" ELSE Calls[r]]
  <2>1. \A r \in Request : Answered(r)' = IF r \in Held THEN "unknown" ELSE Answered(r)
    BY <1>1 DEF Answered
  <2>. QED  BY <2>1 DEF Calls
<1>4. Bonds' = Bonds
  <2>1. \A r \in Request : Bound(r)' = Bound(r)
    BY <1>1 DEF Bound
  <2>. QED  BY <2>1 DEF Bonds
<1>. QED  BY <1>1, <1>2, <1>3, <1>4, ViewIs DEF Promise!Restart, Seen, Deciding, Calls, Bonds

-----------------------------------------------------------------------------
(* The requests' steps.                                                    *)

LEMMA SingleIs == \A x : <<x>> # <<>> /\ Append(<<>>, x) = <<x>>
<1>1. \A x : Len(<<x>>) = 1 /\ Len(<<>>) = 0
  OBVIOUS
<1>. QED  BY <1>1

(* A request is answered, or taken in.                                     *)
LEMMA AnswerRefines ==
  ASSUME PlaneInv, NEW r \in Request, NEW x, status' = [status EXCEPT ![r] = x],
         UNCHANGED <<at, gen, want, ran, resources, registryVars, controlVars>>, NEW y, Answered(r)' = y
  PROVE  Promise!Answer(r, y)
<1>1. \A q \in Request \ {r} : Answered(q)' = Answered(q)
  BY DEF Answered, PlaneInv, PlaneType
<1>2. Calls' = [q \in Request |-> IF q = r THEN y ELSE Answered(q)]
  BY <1>1 DEF Calls
<1>3. Calls' = [Calls EXCEPT ![r] = y]
  BY <1>2 DEF Calls
<1>4. Bonds' = Bonds
  <2>1. \A q \in Request : Bound(q)' = Bound(q)
    BY DEF Bound
  <2>. QED  BY <2>1 DEF Bonds
<1>. QED  BY <1>3, <1>4, ControlUnseen DEF Promise!Answer, Calls, Bonds

(* Every answer is one that RouterPromise allows.                          *)
LEMMA AnswersRefine ==
  ASSUME PlaneInv, RunInv, NEW r \in Request,
         Arrive(r) \/ RouteRefused(r) \/ Reply(r) \/ Fail(r) \/ Cancel(r)
  PROVE  Promise!Admit(r) \/ Promise!Replied(r) \/ Promise!TurnedAway(r) \/ Promise!Unknown(r)
<1>. DEFINE what(x) == CASE x \in {"reading", "sent"} -> "open"
                         [] x \in {"unknown", "cancelled", "lost"} -> "unknown"
                         [] OTHER -> x
<1>1. status \in [Request -> {"idle", "reading", "sent", "replied", "refused", "unknown", "cancelled", "lost"}]
  BY DEF PlaneInv, PlaneType
<1>2. UNCHANGED <<at, gen, want, ran, resources, registryVars, controlVars>>
  BY DEF Arrive, RouteRefused, Reply, Fail, Cancel, Settle, backendVars
<1>3. ASSUME NEW x, status' = [status EXCEPT ![r] = x] PROVE Promise!Answer(r, what(x))
  <2>1. Answered(r)' = what(x)
    BY <1>1, <1>3 DEF Answered
  <2>. QED  BY <1>2, <1>3, <2>1, AnswerRefines
<1>4. Answered(r) = what(status[r])
  BY DEF Answered
<1>5. CASE Arrive(r)
  <2>1. status[r] = "idle" /\ at[r] = "nowhere" /\ ran[r] = <<>>
    BY <1>5 DEF Arrive, PlaneInv, Place, RunInv, Runs
  <2>2. CASE admitted < MaxAdmitted
    <3>1. status' = [status EXCEPT ![r] = "reading"]
      BY <1>5, <2>2 DEF Arrive
    <3>2. Promise!Answer(r, "open")
      BY <1>3, <3>1
    <3>3. Promise!Cardinality(Promise!Open) < MaxAdmitted
      BY <2>2, ViewIs, SameCount DEF PlaneInv, Counts
    <3>. QED  BY <1>4, <2>1, <3>2, <3>3 DEF Promise!Admit
  <2>3. CASE ~(admitted < MaxAdmitted)
    <3>1. status' = [status EXCEPT ![r] = "refused"]
      BY <1>5, <2>3 DEF Arrive
    <3>2. Promise!Answer(r, "refused")
      BY <1>3, <3>1
    <3>. QED  BY <1>4, <2>1, <3>2 DEF Promise!TurnedAway
  <2>. QED  BY <2>2, <2>3
<1>6. CASE RouteRefused(r)
  <2>1. status[r] = "reading" /\ ran[r] = <<>> /\ status' = [status EXCEPT ![r] = "refused"]
    BY <1>6 DEF RouteRefused, PlaneInv, Place, RunInv, Runs
  <2>2. Promise!Answer(r, "refused")
    BY <1>3, <2>1
  <2>. QED  BY <1>4, <2>1, <2>2 DEF Promise!TurnedAway
<1>7. CASE Reply(r)
  <2>1. CASE at[r] = "done"
    <3>1. status[r] = "sent" /\ ran[r] = <<want[r]>> /\ status' = [status EXCEPT ![r] = "replied"]
      BY <1>7, <2>1 DEF Reply, Settle, RunInv, Runs
    <3>2. Promise!Answer(r, "replied")
      BY <1>3, <3>1
    <3>3. ran[r] # <<>>
      BY <3>1, SingleIs
    <3>. QED  BY <1>4, <3>1, <3>2, <3>3 DEF Promise!Replied
  <2>2. CASE at[r] = "turnedAway"
    <3>1. status[r] = "sent" /\ ran[r] = <<>> /\ status' = [status EXCEPT ![r] = "refused"]
      BY <1>7, <2>2 DEF Reply, Settle, RunInv, Runs
    <3>2. Promise!Answer(r, "refused")
      BY <1>3, <3>1
    <3>. QED  BY <1>4, <3>1, <3>2 DEF Promise!TurnedAway
  <2>. QED  BY <1>7, <2>1, <2>2 DEF Reply
<1>8. CASE Fail(r) \/ Cancel(r)
  <2>1. status[r] = "sent"
    <3>1. CASE Cancel(r)
      <4>1. KeyOf(r) \in Key /\ r \in exchanges[KeyOf(r)]
        BY <3>1, ConstantsAssumption DEF Cancel
      <4>. QED  BY <4>1 DEF PlaneInv, Counts, Keyed
    <3>. QED  BY <1>8, <3>1 DEF Fail
  <2>2. PICK x \in {"unknown", "cancelled"} : status' = [status EXCEPT ![r] = x]
    BY <1>8 DEF Fail, Cancel, Settle
  <2>3. Promise!Answer(r, "unknown")
    BY <1>3, <2>2
  <2>. QED  BY <1>4, <2>1, <2>3 DEF Promise!Unknown
<1>. QED  BY <1>5, <1>6, <1>7, <1>8

(* A request that is routed is bound to a generation that the file has     *)
(* too: one that is about to be dropped is retiring.                       *)
LEMMA RouteRefines ==
  ASSUME ControlInv, PlaneInv, RetireInv, NEW r \in Request, Route(r)
  PROVE  Promise!Bind(r)
<1>1. PICK h \in {None} \cup (IF r \in Launcher THEN {} ELSE Handles) :
        /\ Routable(Owner(h))
        /\ gen' = [gen EXCEPT ![r] = Owner(h)]
        /\ want' = [want EXCEPT ![r] = reg.generations[Owner(h)]]
  BY DEF Route
<1>2. /\ status[r] = "reading" /\ status' = [status EXCEPT ![r] = "sent"] /\ at' = [at EXCEPT ![r] = "travelling"]
      /\ UNCHANGED <<ran, resources, registryVars, controlVars>>
  BY DEF Route, backendVars
<1>3. at[r] = "nowhere"
  BY <1>2 DEF PlaneInv, Place
<1>. DEFINE g == Owner(h)
<1>4. g \in Registered(reg) /\ g \notin retiring /\ g \in Gen
  BY <1>1, RegistryIs DEF Routable, ControlInv, ControlType
<1>5. g \in Registered(disk)
  <2>1. CASE reg = disk
    BY <1>4, <2>1
  <2>2. ASSUME NEW c \in Controller, step[c] = "renamed" PROVE g \in Registered(disk)
    <3>1. /\ reg \in Registry /\ WellFormed(reg) /\ disk = Changed(reg, op[c]) /\ Admissible(reg, op[c])
          /\ op[c].kind = "retire" => op[c].gen \in retiring
      BY <2>2 DEF ControlInv, ControlType, Progress, Waiting, RetireInv, Guarded
    <3>2. /\ op[c].kind = "register" => Registered(disk) = Registered(reg) \cup {op[c].gen}
          /\ op[c].kind = "retire" => Registered(disk) = Registered(reg) \ {op[c].gen}
          /\ op[c].kind \notin {"register", "retire"} => Registered(disk) = Registered(reg)
      BY <3>1, ChangedBinds
    <3>. QED  BY <1>4, <3>1, <3>2
  <2>. QED  BY <2>1, <2>2 DEF RetireInv, Quiet, Renaming
<1>6. g \in Promise!Destinations(r)
  <2>1. CASE h = None
    BY <2>1 DEF Owner, Promise!Destinations
  <2>2. CASE h # None
    <3>1. r \notin Launcher /\ h \in Launcher /\ h \in Request /\ status[h] = "replied" /\ g = gen[h]
      BY <2>2, ConstantsAssumption DEF Handles, Owner
    <3>2. Answered(h) = "replied" /\ at[h] # "nowhere"
      BY <3>1 DEF Answered, PlaneInv, Place
    <3>3. Promise!BoundTo(h, g)
      BY <1>4, <3>1, <3>2, ViewIs
    <3>. QED  BY <1>4, <3>1, <3>2, <3>3 DEF Promise!Destinations
  <2>. QED  BY <2>1, <2>2
<1>. HIDE DEF g
<1>7. Bonds[r] = None /\ Bonds' = [Bonds EXCEPT ![r] = <<g, reg.generations[g]>>]
  <2>1. Bound(r) = None
    BY <1>3 DEF Bound
  <2>2. Bound(r)' = <<g, reg.generations[g]>>
    BY <1>1, <1>2 DEF Bound, PlaneInv, PlaneType, g
  <2>3. \A q \in Request \ {r} : Bound(q)' = Bound(q)
    BY <1>1, <1>2 DEF Bound, PlaneInv, PlaneType
  <2>4. Bonds' = [q \in Request |-> IF q = r THEN <<g, reg.generations[g]>> ELSE Bound(q)]
    BY <2>2, <2>3 DEF Bonds
  <2>. QED  BY <2>1, <2>4 DEF Bonds
<1>8. Calls[r] = "open" /\ Calls' = Calls
  <2>1. \A q \in Request : Answered(q)' = Answered(q)
    BY <1>2 DEF Answered, PlaneInv, PlaneType
  <2>2. Answered(r) = "open"
    BY <1>2 DEF Answered
  <2>. QED  BY <2>1, <2>2 DEF Calls
<1>. QED  BY <1>2, <1>4, <1>5, <1>6, <1>7, <1>8, ControlUnseen
          DEF Promise!Bind, Promise!Registered, Registered, Calls, Bonds

(* The view of the requests changes only by what they ran.                 *)
LEMMA TransportSeen ==
  ASSUME PlaneInv, UNCHANGED <<status, gen, want>>,
         \A r \in Request : at[r] = "nowhere" <=> at'[r] = "nowhere"
  PROVE  Calls' = Calls /\ Bonds' = Bonds
<1>1. \A r \in Request : Answered(r)' = Answered(r) /\ Bound(r)' = Bound(r)
  BY DEF Answered, Bound
<1>. QED  BY <1>1 DEF Calls, Bonds

(* A process that takes requests, and was sent one, is in the registry.    *)
LEMMA OpenIsRegistered ==
  ASSUME ControlInv, RetireInv, NEW r \in Request, NEW g \in Gen, gen[r] = g, ~Closed(g)
  PROVE  g \in Promise!Registered(disk)
<1>1. ~Dropped(g)
  BY DEF Dropped, Untouched
<1>. QED  BY <1>1, DiskKeepsPromises DEF Promise!Registered, Registered

(* A request reaches the backend.                                          *)
LEMMA DeliverRefines ==
  ASSUME ControlInv, PlaneInv, RunInv, RetireInv, NEW r \in Request, Deliver(r)
  PROVE  Promise!Run(r) \/ UNCHANGED Promise!vars
<1>1. /\ at[r] = "travelling" /\ gen[r] \in Gen /\ ran[r] = <<>> /\ status[r] # "refused"
      /\ UNCHANGED <<status, gen, want, resources, registryVars, controlVars>>
  BY DEF Deliver, PlaneInv, Place, RunInv, Runs, planeVars, backendVars
<1>2. \A q \in Request : at[q] = "nowhere" <=> at'[q] = "nowhere"
  BY <1>1 DEF Deliver, PlaneInv, PlaneType
<1>3. Calls' = Calls /\ Bonds' = Bonds
  BY <1>1, <1>2, TransportSeen
<1>4. CASE Accepts(r)
  <2>1. want[r] = inc[gen[r]] /\ ~Closed(gen[r])
    BY <1>1, <1>4, AcceptedWhereBound DEF RunInv, Closed
  <2>2. ran' = [ran EXCEPT ![r] = <<want[r]>>]
    BY <1>1, <1>4, <2>1, SingleIs DEF Deliver
  <2>3. Bonds[r][2] = want[r]
    <3>1. Bound(r) = <<gen[r], want[r]>>
      BY <1>1 DEF Bound
    <3>. QED  BY <3>1 DEF Bonds
  <2>4. \E g \in Promise!Registered(disk) : Promise!BoundTo(r, g)
    BY <1>1, <2>1, OpenIsRegistered, ViewIs
  <2>5. Calls[r] # "refused"
    BY <1>1 DEF Calls, Answered
  <2>. QED  BY <1>1, <1>3, <2>2, <2>3, <2>4, <2>5, ControlUnseen DEF Promise!Run, Calls, Bonds
<1>5. CASE ~Accepts(r)
  <2>1. ran' = ran
    BY <1>5 DEF Deliver
  <2>. QED  BY <1>1, <1>3, <2>1, ControlUnseen DEF Promise!vars, Promise!plane, Calls, Bonds
<1>. QED  BY <1>4, <1>5

(* A request that is executed launches something, closes something, or     *)
(* does neither.                                                           *)
LEMMA CompleteRefines ==
  ASSUME ControlInv, PlaneInv, RunInv, RetireInv, LawInv, NEW r \in Request, Complete(r)
  PROVE  Promise!Launch(r) \/ \E g \in Gen : Promise!End(g)
<1>. DEFINE g == gen[r]
<1>1. /\ at[r] = "executing" /\ g \in Gen /\ ran[r] = <<want[r]>>
      /\ resources' = [resources EXCEPT ![g] = (@ \ {target[r]}) \cup ({r} \cap Launcher)]
      /\ UNCHANGED <<status, gen, want, ran, registryVars, controlVars>>
  BY DEF Complete, PlaneInv, Place, RunInv, Runs, planeVars
<1>2. \A q \in Request : at[q] = "nowhere" <=> at'[q] = "nowhere"
  BY <1>1 DEF Complete, PlaneInv, PlaneType
<1>3. UNCHANGED Promise!plane
  BY <1>1, <1>2, TransportSeen DEF Promise!plane, Calls, Bonds
<1>4. UNCHANGED Promise!control
  BY <1>1, ControlUnseen
<1>5. resources \in [Gen -> SUBSET Launcher] /\ None \notin Launcher
  BY ConstantsAssumption DEF PlaneInv, PlaneType
<1>. HIDE DEF g
<1>6. CASE r \in Launcher
  <2>1. target[r] = None
    BY <1>6 DEF LawInv
  <2>2. (resources[g] \ {target[r]}) \cup ({r} \cap Launcher) = resources[g] \cup {r}
    BY <1>1, <1>5, <1>6, <2>1
  <2>3. resources' = [resources EXCEPT ![g] = @ \cup {r}]
    BY <1>1, <2>2
  <2>4. ~Closed(g)
    BY <1>1 DEF RunInv, Sealed, Idle, Executing, g
  <2>5. g \in Promise!Registered(disk) /\ Promise!BoundTo(r, g)
    BY <1>1, <2>4, OpenIsRegistered, ViewIs DEF g
  <2>6. ran[r] # <<>>
    BY <1>1, SingleIs
  <2>. QED  BY <1>3, <1>4, <1>6, <2>3, <2>5, <2>6 DEF Promise!Launch
<1>7. CASE r \notin Launcher
  <2>1. (resources[g] \ {target[r]}) \cup ({r} \cap Launcher) = resources[g] \ ({target[r]} \cap resources[g])
    BY <1>7
  <2>2. resources' = [resources EXCEPT ![g] = @ \ ({target[r]} \cap resources[g])]
    BY <1>1, <2>1
  <2>. QED  BY <1>1, <1>3, <1>4, <2>2 DEF Promise!End
<1>. QED  BY <1>6, <1>7

(* The other steps of connections and backends.                            *)
LEMMA BackendRefines ==
  /\ \A r \in Request : PlaneInv /\ Drop(r) => UNCHANGED Promise!vars
  /\ \A g \in Gen, h \in Launcher : ResourceEnds(g, h) => Promise!End(g)
  /\ \A g \in Gen : PlaneInv /\ BackendRestarts(g) => Promise!End(g)
<1>1. ASSUME NEW r \in Request, PlaneInv, Drop(r) PROVE UNCHANGED Promise!vars
  <2>1. UNCHANGED <<status, gen, want, ran, resources, registryVars, controlVars>>
    BY <1>1 DEF Drop, planeVars, backendVars
  <2>2. \A q \in Request : at[q] = "nowhere" <=> at'[q] = "nowhere"
    BY <1>1 DEF Drop, PlaneInv, PlaneType
  <2>. QED  BY <1>1, <2>1, <2>2, ControlUnseen, TransportSeen DEF Promise!vars, Promise!plane, Calls, Bonds
<1>2. ASSUME NEW g \in Gen, NEW h \in Launcher, ResourceEnds(g, h) PROVE Promise!End(g)
  <2>1. UNCHANGED Promise!plane /\ UNCHANGED Promise!control
    BY <1>2, PlaneUnseen, ControlUnseen DEF ResourceEnds, planeVars
  <2>2. {h} \in SUBSET resources[g] /\ resources' = [resources EXCEPT ![g] = @ \ {h}]
    BY <1>2 DEF ResourceEnds
  <2>. QED  BY <2>1, <2>2 DEF Promise!End
<1>3. ASSUME NEW g \in Gen, PlaneInv, BackendRestarts(g) PROVE Promise!End(g)
  <2>1. UNCHANGED <<status, gen, want, ran, registryVars, controlVars>>
    BY <1>3 DEF BackendRestarts, planeVars
  <2>2. \A q \in Request : at[q] = "nowhere" <=> at'[q] = "nowhere"
    BY <1>3 DEF BackendRestarts, Executing
  <2>3. UNCHANGED Promise!plane /\ UNCHANGED Promise!control
    BY <1>3, <2>1, <2>2, ControlUnseen, TransportSeen DEF Promise!plane, Calls, Bonds
  <2>4. resources' = [resources EXCEPT ![g] = @ \ resources[g]]
    BY <1>3 DEF BackendRestarts
  <2>. QED  BY <2>3, <2>4 DEF Promise!End
<1>. QED  BY <1>1, <1>2, <1>3

(* The router and its backends keep the promise of RouterPromise, for all  *)
(* generations, requests, controllers and limits, if a registry that was   *)
(* written can be read back: a change takes effect at its rename, on the   *)
(* registry its author saw, and is lawful then, although it was checked    *)
(* several awaits before; a request is bound once to a generation that     *)
(* stays until it is answered, runs there at most once, and is answered    *)
(* truly (router.ts:224-249, 288-299, 376-384; http-server.ts).            *)
THEOREM PromiseAlwaysKept ==
  ASSUME ~BlindReadback
  PROVE  Spec => KeepsPromise
<1>1. Init => Promise!Init
  <2>. SUFFICES ASSUME Init PROVE Promise!Init
    OBVIOUS
  <2>1. \A c \in Controller : Asked(c) = None /\ step[c] # "renamed"
    BY DEF Init, Asked
  <2>2. \A r \in Request : Answered(r) = "idle" /\ Bound(r) = None
    BY DEF Init, Answered, Bound
  <2>. QED  BY <2>1, <2>2 DEF Init, Promise!Init
<1>2. ControlInv /\ PlaneInv /\ RunInv /\ RetireInv /\ LawInv /\ [Next]_vars => [Promise!Next]_(Promise!vars)
  <2>. SUFFICES ASSUME ControlInv, PlaneInv, RunInv, RetireInv, LawInv, [Next]_vars
       PROVE  [Promise!Next]_(Promise!vars)
    OBVIOUS
  <2>1. ASSUME NEW c \in Controller, Issue(c) \/ ControlStep(c) PROVE [Promise!Next]_(Promise!vars)
    <3>1. CASE Issue(c)
      BY <3>1, IssueRefines DEF Promise!Next
    <3>2. CASE Begin(c) \/ BackendFences(c) \/ FenceConfirmed(c) \/ (ProbeAnswered(c) /\ ~EndChange(c))
      BY <3>2, AdvanceRefines
    <3>3. CASE BeginRefused(c) \/ CallFails(c) \/ WriteFails(c) \/ (ProbeAnswered(c) /\ EndChange(c))
      BY <3>3, EndRefines DEF Promise!Next
    <3>4. CASE Rename(c)
      BY <3>4, RenameRefines DEF Promise!Next
    <3>5. CASE Acknowledge(c)
      BY <3>5, AcknowledgeRefines DEF Promise!Next
    <3>. QED  BY <2>1, <3>1, <3>2, <3>3, <3>4, <3>5 DEF ControlStep
  <2>2. ASSUME NEW r \in Request, PlaneStep(r) PROVE [Promise!Next]_(Promise!vars)
    <3>1. CASE Route(r)
      BY <3>1, RouteRefines DEF Promise!Next
    <3>2. CASE ~Route(r)
      BY <2>2, <3>2, AnswersRefine DEF PlaneStep, Promise!Next
    <3>. QED  BY <3>1, <3>2
  <2>3. ASSUME NEW r \in Request, TransportStep(r) PROVE [Promise!Next]_(Promise!vars)
    <3>1. CASE Deliver(r)
      BY <3>1, DeliverRefines DEF Promise!Next
    <3>2. CASE Complete(r)
      BY <3>2, CompleteRefines DEF Promise!Next
    <3>3. CASE Drop(r)
      BY <3>3, BackendRefines
    <3>. QED  BY <2>3, <3>1, <3>2, <3>3 DEF TransportStep
  <2>4. CASE RouterRestarts
    BY <2>4, RestartRefines DEF Promise!Next
  <2>5. ASSUME NEW g \in Gen, BackendRestarts(g) \/ \E h \in Launcher : ResourceEnds(g, h)
        PROVE  [Promise!Next]_(Promise!vars)
    BY <2>5, BackendRefines DEF Promise!Next
  <2>6. CASE UNCHANGED vars
    BY <2>6, PlaneUnseen, ControlUnseen DEF Promise!vars, vars, planeVars, backendVars
  <2>. QED  BY <2>1, <2>2, <2>3, <2>4, <2>5, <2>6, NextCases
<1>. QED  BY <1>1, <1>2, ControlInvariance, PlaneInvariance, RunInvariance, RetireInvariance, LawInvariance, PTL
          DEF Spec, KeepsPromise, Promise!Spec

=============================================================================
