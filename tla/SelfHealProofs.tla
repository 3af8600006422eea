---------------------------- MODULE SelfHealProofs ----------------------------
(***************************************************************************)
(* Proofs about SelfHeal, for any number of heal bodies and watchdog runs,  *)
(* of changes and of faults.  The invariant is inductive as it stands, with *)
(* the types: that no gateway is left on an old configuration needs that    *)
(* the one heal under way is the one that composed.                         *)
(***************************************************************************)
EXTENDS SelfHeal, TLAPS

HealInv == OneHealAtATime /\ StaleGatewayIsHealed

HealTypes == [Heals -> [at : {"idle", "probing", "restarting", "waiting"},
                        composed : BOOLEAN]]

(* What happens outside the relay and in its watchdog. *)
OutsideHeals ==
  \/ Edit \/ TroubleComes \/ Mend \/ RuntimeWritten \/ GatewayStarts \/ GatewayCrashes
  \/ CooldownEnds \/ WatchTimer \/ WatchProbes \/ WatchProbeTimesOut \/ WatchRestarts
  \/ UNCHANGED vars

(* What composes and repairs fragments makes a configuration of the same type. *)
LEMMA ComposedTypes ==
  ASSUME setup \in Setups, NEW f \in Fragments
  PROVE  /\ Composed(f) \in Fragments
         /\ Repaired(f) \in Fragments
BY DEF Composed, Repaired, Fragments

LEMMA RepairedInPlaceTypes ==
  ASSUME NEW r \in Fragments \cup {Bad}
  PROVE  RepairedInPlace(r) \subseteq Fragments \cup {Bad}
BY DEF RepairedInPlace, Fragments

LEMMA InitHeal == Init => HealInv
<1> SUFFICES ASSUME Init PROVE HealInv
  OBVIOUS
<1>1. frag \in Fragments
  BY BoundsAreNat DEF Init, Fragments
<1>2. runtime \in Fragments \cup {Bad}
  BY <1>1, ComposedTypes DEF Init
<1>3. /\ changes \in 0..MaxChanges /\ faults \in 0..MaxFaults
      /\ watching \in 0..MaxWatch /\ refused \in 0..MaxWatch
      /\ watching + refused <= MaxWatch
  BY BoundsAreNat DEF Init
<1>4. cooling \in BOOLEAN /\ behind \in BOOLEAN
  BY Zenon DEF Init
<1>5. heal \in HealTypes
  BY DEF Init, Idle, HealTypes
<1>6. TypeOK
  BY <1>1, <1>2, <1>3, <1>4, <1>5 DEF Init, TypeOK, HealTypes
<1> QED
  BY <1>6 DEF Init, HealInv, OneHealAtATime, StaleGatewayIsHealed, Idle

(* One heal moves from one place of its body to the next; the others are idle. *)
LEMMA OneHealMoves ==
  ASSUME OneHealAtATime, NEW h \in Heals,
         heal[h] # Idle \/ \A g \in Heals : heal[g] = Idle,
         NEW to \in [at : {"idle", "probing", "restarting", "waiting"}, composed : BOOLEAN],
         heal' = [heal EXCEPT ![h] = to]
  PROVE  /\ heal' \in HealTypes
         /\ heal'[h] = to
         /\ \A g \in Heals \ {h} : heal[g] = Idle /\ heal'[g] = Idle
<1>1. heal \in HealTypes
  BY DEF OneHealAtATime, TypeOK, HealTypes
<1>2. \A g \in Heals \ {h} : heal[g] = Idle
  BY DEF OneHealAtATime
<1> QED
  BY <1>1, <1>2 DEF HealTypes

(* The body of a heal, entered with none under way. *)
LEMMA HealBodyKeeps ==
  ASSUME HealInv, NEW h \in Heals, RunSelfHeal(h)
  PROVE  HealInv'
<1> USE DEF RunSelfHeal
<1>1. /\ TypeOK /\ OneHealAtATime
      /\ \A g \in Heals : heal[g] = Idle
  BY DEF HealInv, OneHealAtATime, HealInFlight
<1>2. gateway = "up" /\ setup.restart => runtime \in {Bad, loaded} \/ behind
  BY <1>1 DEF HealInv, StaleGatewayIsHealed, OnItsWay, Idle
<1>3. frag \in Fragments /\ runtime \in Fragments \cup {Bad} /\ setup \in Setups
  BY <1>1 DEF TypeOK
<1>4. Repaired(frag) \in Fragments /\ Composed(Repaired(frag)) \in Fragments
  BY <1>3, ComposedTypes
<1>5. /\ UNCHANGED <<setup, changes, loaded, gateway, faults, watching, refused>>
      /\ HealBody(h)
  OBVIOUS
<1>6. ASSUME NEW c \in BOOLEAN,
             heal' = [heal EXCEPT ![h] = [at |-> "probing", composed |-> c]]
             \/ heal' = heal,
             frag' \in Fragments, runtime' \in Fragments \cup {Bad},
             trouble' \in {"none", "torn", "failing"},
             cooling' \in BOOLEAN, behind' \in BOOLEAN,
             gateway = "up" /\ setup.restart =>
               runtime' \in {Bad, loaded} \/ behind' \/ OnItsWay(h)'
      PROVE  HealInv'
  <2>1. heal' \in HealTypes /\ \A g \in Heals \ {h} : heal'[g] = Idle
    <3>1. CASE heal' = heal
      BY <1>1, <3>1 DEF TypeOK, HealTypes
    <3>2. CASE heal' = [heal EXCEPT ![h] = [at |-> "probing", composed |-> c]]
      BY <1>1, <3>2, OneHealMoves
    <3> QED
      BY <1>6, <3>1, <3>2
  <2>2. TypeOK'
    BY <1>1, <1>5, <1>6, <2>1 DEF TypeOK, HealTypes
  <2>3. OneHealAtATime'
    BY <2>1, <2>2 DEF OneHealAtATime
  <2>4. StaleGatewayIsHealed'
    BY <1>5, <1>6 DEF StaleGatewayIsHealed
  <2> QED
    BY <2>3, <2>4 DEF HealInv
<1>7. cooling \in BOOLEAN /\ behind \in BOOLEAN /\ trouble \in {"none", "torn", "failing"}
  BY <1>1 DEF TypeOK
<1>8. CASE /\ ~NeedsCompose
           /\ heal' = [heal EXCEPT ![h] = [at |-> "probing", composed |-> FALSE]]
           /\ UNCHANGED <<frag, trouble, runtime, cooling, behind>>
  BY <1>2, <1>3, <1>6, <1>7, <1>8
<1>9. CASE ComposeWorks(h)
  <2>1. /\ frag' \in Fragments /\ runtime' \in Fragments
        /\ heal' = [heal EXCEPT ![h] = [at |-> "probing", composed |-> TRUE]]
        /\ UNCHANGED <<trouble, cooling, behind>>
    BY <1>4, <1>9 DEF ComposeWorks
  <2>2. OnItsWay(h)'
    BY <1>1, <2>1 DEF OnItsWay, TypeOK
  <2> QED
    BY <1>6, <1>7, <2>1, <2>2
<1>10. CASE ComposeFails
  <2>1. frag' \in Fragments
    BY <1>3, <1>10 DEF ComposeFails, Fragments
  <2>2. runtime' \in Fragments \cup {Bad}
    BY <1>3, <1>10, RepairedInPlaceTypes DEF ComposeFails
  <2>3. cooling' \in BOOLEAN /\ behind' \in BOOLEAN
    BY <1>7, <1>10, Zenon DEF ComposeFails
  <2>4. trouble' \in {"none", "torn", "failing"} /\ heal' = heal
    BY <1>7, <1>10 DEF ComposeFails
  <2>5. behind' \/ runtime' = runtime \/ runtime' = Bad
    BY <1>10 DEF ComposeFails
  <2>6. behind => behind'
    BY <1>10 DEF ComposeFails
  <2> QED
    BY <1>2, <1>6, <2>1, <2>2, <2>3, <2>4, <2>5, <2>6
<1>11. CASE ComposeFailsLate
  BY <1>4, <1>6, <1>7, <1>11 DEF ComposeFailsLate
<1> QED
  BY <1>5, <1>8, <1>9, <1>10, <1>11 DEF HealBody

(* Where a heal that is under way goes next: it stays on its way to its restart, or
   it did the restart, or it was not on its way there, or the gateway falls behind. *)
LEMMA HealStepKeeps ==
  ASSUME HealInv, NEW h \in Heals,
         NEW to \in [at : {"idle", "probing", "restarting", "waiting"}, composed : BOOLEAN],
         heal[h] # Idle, heal' = [heal EXCEPT ![h] = to],
         UNCHANGED <<setup, changes, frag, trouble, runtime, loaded, watching, refused>>,
         faults' \in 0..MaxFaults, gateway' \in {"down", "starting", "up"},
         cooling' \in BOOLEAN, behind' \in BOOLEAN, behind => behind',
         gateway' = "up" => gateway = "up",
         OnItsWay(h) => OnItsWay(h)' \/ gateway' # "up" \/ behind'
  PROVE  HealInv'
<1>1. TypeOK /\ OneHealAtATime
  BY DEF HealInv, OneHealAtATime
<1>2. /\ heal' \in HealTypes
      /\ heal'[h] = to
      /\ \A g \in Heals \ {h} : heal[g] = Idle /\ heal'[g] = Idle
  BY <1>1, OneHealMoves
<1>3. TypeOK'
  BY <1>1, <1>2 DEF TypeOK, HealTypes
<1>4. OneHealAtATime'
  BY <1>2, <1>3 DEF OneHealAtATime
<1>5. StaleGatewayIsHealed'
  <2> SUFFICES ASSUME setup.restart, gateway' = "up", runtime \notin {Bad, loaded}, ~behind'
               PROVE  OnItsWay(h)'
    BY DEF StaleGatewayIsHealed
  <2>1. PICK g \in Heals : OnItsWay(g)
    BY DEF HealInv, StaleGatewayIsHealed
  <2>2. g = h
    BY <1>2, <2>1 DEF OnItsWay, Idle
  <2> QED
    BY <2>1, <2>2
<1> QED
  BY <1>4, <1>5 DEF HealInv

(* The answer to a probe, its restart and the wait for the port. *)
LEMMA HealProbesKeeps ==
  ASSUME HealInv, NEW h \in Heals, HealProbes(h) \/ HealProbeTimesOut(h)
  PROVE  HealInv'
<1>1. TypeOK
  BY DEF HealInv, OneHealAtATime
<1>2. PICK restart \in BOOLEAN :
        HealAnswered(h, restart) /\ (heal[h].composed => restart)
  BY DEF HealProbes, HealProbeTimesOut
<1> DEFINE to == IF restart THEN [heal[h] EXCEPT !.at = "restarting"] ELSE Idle
<1>3. /\ heal[h].at = "probing" /\ heal' = [heal EXCEPT ![h] = to]
      /\ UNCHANGED <<setup, changes, frag, trouble, runtime, loaded, gateway, watching,
                     refused, behind>>
  BY <1>2 DEF HealAnswered
<1>4. cooling' \in BOOLEAN
  BY <1>2, Zenon DEF HealAnswered
<1>5. to \in [at : {"idle", "probing", "restarting", "waiting"}, composed : BOOLEAN]
  BY <1>1 DEF TypeOK, Idle
<1>6. faults' \in 0..MaxFaults
  <2>1. faults' = faults \/ (faults < MaxFaults /\ faults' = faults + 1)
    BY Zenon DEF HealProbes, HealProbeTimesOut, Fault
  <2> QED
    BY <1>1, <2>1, BoundsAreNat DEF TypeOK
<1>7. OnItsWay(h) => OnItsWay(h)'
  <2>1. ASSUME OnItsWay(h) PROVE OnItsWay(h)'
    <3>1. to = [heal[h] EXCEPT !.at = "restarting"] /\ heal[h].composed
      BY <1>2, <2>1 DEF OnItsWay
    <3>2. heal'[h] = to
      BY <1>1, <1>3 DEF TypeOK
    <3>3. to.at = "restarting" /\ to.composed
      BY <1>1, <3>1 DEF TypeOK
    <3> QED
      BY <3>2, <3>3 DEF OnItsWay
  <2> QED
    BY <2>1
<1>8. heal[h] # Idle /\ behind \in BOOLEAN /\ gateway \in {"down", "starting", "up"}
  BY <1>1, <1>3 DEF Idle, TypeOK
<1> HIDE DEF to
<1> QED
  BY <1>3, <1>4, <1>5, <1>6, <1>7, <1>8, HealStepKeeps

LEMMA HealRestartsKeeps ==
  ASSUME HealInv, NEW h \in Heals, HealRestarts(h)
  PROVE  HealInv'
<1>1. TypeOK
  BY DEF HealInv, OneHealAtATime
<1>2. heal[h] # Idle /\ heal[h].at = "restarting"
  BY DEF HealRestarts, Idle
<1>3. UNCHANGED <<setup, changes, frag, trouble, runtime, loaded, watching, refused>>
  BY DEF HealRestarts
<1>4. CASE RestartWorks /\ heal' = [heal EXCEPT ![h].at = "waiting"]
           /\ UNCHANGED <<cooling, behind>>
  <2> DEFINE to == [heal[h] EXCEPT !.at = "waiting"]
  <2>1. heal' = [heal EXCEPT ![h] = to]
    BY <1>4
  <2>2. to \in [at : {"idle", "probing", "restarting", "waiting"}, composed : BOOLEAN]
    BY <1>1 DEF TypeOK
  <2>3. gateway' = "starting" /\ faults' = faults /\ faults \in 0..MaxFaults
    BY <1>1, <1>4 DEF RestartWorks, TypeOK
  <2>4. cooling \in BOOLEAN /\ behind \in BOOLEAN
    BY <1>1 DEF TypeOK
  <2> HIDE DEF to
  <2> QED
    BY <1>2, <1>3, <1>4, <2>1, <2>2, <2>3, <2>4, HealStepKeeps
<1>5. CASE RestartFails /\ heal' = [heal EXCEPT ![h] = Idle] /\ cooling' = TRUE
           /\ behind' = (behind \/ heal[h].composed)
  <2>1. Idle \in [at : {"idle", "probing", "restarting", "waiting"}, composed : BOOLEAN]
    BY DEF Idle
  <2>2. faults' \in 0..MaxFaults
    BY <1>1, <1>5, BoundsAreNat DEF RestartFails, TypeOK, Fault
  <2>3. gateway' \in {gateway, "starting", "down"}
    BY <1>5 DEF RestartFails
  <2>4. behind' \in BOOLEAN
    BY <1>5, Zenon
  <2>5. OnItsWay(h) => behind'
    BY <1>5 DEF OnItsWay
  <2>6. gateway \in {"down", "starting", "up"}
    BY <1>1 DEF TypeOK
  <2> QED
    BY <1>2, <1>3, <1>5, <2>1, <2>2, <2>3, <2>4, <2>5, <2>6, HealStepKeeps
<1> QED
  BY <1>4, <1>5 DEF HealRestarts

LEMMA HealWaitsKeeps ==
  ASSUME HealInv, NEW h \in Heals, HealWaits(h)
  PROVE  HealInv'
<1>1. TypeOK
  BY DEF HealInv, OneHealAtATime
<1>2. /\ heal[h].at = "waiting" /\ heal' = [heal EXCEPT ![h] = Idle] /\ cooling' = TRUE
      /\ UNCHANGED <<setup, changes, frag, trouble, runtime, loaded, gateway, faults,
                     watching, refused, behind>>
  BY DEF HealWaits
<1>3. Idle \in [at : {"idle", "probing", "restarting", "waiting"}, composed : BOOLEAN]
  BY DEF Idle
<1>4. ~OnItsWay(h) /\ heal[h] # Idle
  BY <1>2 DEF OnItsWay, Idle
<1>5. /\ gateway \in {"down", "starting", "up"} /\ faults \in 0..MaxFaults
      /\ behind \in BOOLEAN
  BY <1>1 DEF TypeOK
<1> QED
  BY <1>2, <1>3, <1>4, <1>5, HealStepKeeps

(* A relay that dies forgets the heal that was on its way. *)
LEMMA RelayRestartsKeeps ==
  ASSUME HealInv, RelayRestarts
  PROVE  HealInv'
<1>1. TypeOK
  BY DEF HealInv, OneHealAtATime
<1>2. heal' \in HealTypes /\ \A g \in Heals : heal'[g] = Idle
  BY DEF RelayRestarts, HealTypes, Idle
<1>3. cooling' \in BOOLEAN /\ behind' \in BOOLEAN
  BY Zenon DEF RelayRestarts
<1>4. /\ faults' \in 0..MaxFaults /\ watching' \in 0..MaxWatch /\ refused' \in 0..MaxWatch
      /\ watching' + refused' <= MaxWatch
  BY <1>1, BoundsAreNat DEF RelayRestarts, Fault, TypeOK
<1>5. UNCHANGED <<setup, changes, frag, trouble, runtime, loaded, gateway>>
  BY DEF RelayRestarts
<1>6. TypeOK'
  BY <1>1, <1>2, <1>3, <1>4, <1>5 DEF TypeOK, HealTypes
<1>7. OneHealAtATime'
  BY <1>2, <1>6 DEF OneHealAtATime
<1>8. StaleGatewayIsHealed'
  BY <1>5 DEF HealInv, StaleGatewayIsHealed, RelayRestarts
<1> QED
  BY <1>7, <1>8 DEF HealInv

(* What happens outside and in the watchdog leaves the heals alone. *)
LEMMA OutsideKeeps ==
  ASSUME HealInv, OutsideHeals
  PROVE  HealInv'
<1> USE DEF Change, Fault
<1>1. TypeOK
  BY DEF HealInv, OneHealAtATime
<1>2. heal' = heal /\ setup' = setup
  BY DEF OutsideHeals, Edit, TroubleComes, Mend, RuntimeWritten, GatewayStarts,
         GatewayCrashes, CooldownEnds, WatchTimer, WatchProbes, WatchProbeTimesOut,
         WatchAnswered, WatchRestarts, files, vars
<1>3. TypeOK'
  <2>1. cooling' \in BOOLEAN /\ behind' \in BOOLEAN
    BY <1>1, Zenon
       DEF TypeOK, OutsideHeals, Edit, TroubleComes, Mend, RuntimeWritten, GatewayStarts,
           GatewayCrashes, CooldownEnds, WatchTimer, WatchProbes, WatchProbeTimesOut,
           WatchAnswered, WatchRestarts, files, vars
  <2>2. CASE Edit
    BY <1>1, <2>2, BoundsAreNat DEF TypeOK, Edit, Fragments
  <2>3. CASE RuntimeWritten
    <3>1. runtime' \in Fragments \cup {Bad}
      BY <1>1, <2>3 DEF RuntimeWritten, TypeOK, Fragments
    <3>2. UNCHANGED <<setup, frag, trouble, loaded, gateway, faults, heal, cooling,
                      watching, refused>>
      BY <2>3 DEF RuntimeWritten
    <3>3. changes' \in 0..MaxChanges
      BY <1>1, <2>3, BoundsAreNat DEF RuntimeWritten, TypeOK
    <3> QED
      BY <1>1, <2>1, <3>1, <3>2, <3>3 DEF TypeOK
  <2>4. CASE TroubleComes \/ Mend \/ CooldownEnds \/ UNCHANGED vars
    BY <1>1, <2>1, <2>4, BoundsAreNat DEF TypeOK, TroubleComes, Mend, CooldownEnds, vars
  <2>5. CASE GatewayStarts \/ GatewayCrashes
    BY <1>1, <2>1, <2>5, BoundsAreNat DEF TypeOK, GatewayStarts, GatewayCrashes
  <2>6. CASE WatchTimer \/ WatchProbes \/ WatchProbeTimesOut
    BY <1>1, <2>1, <2>6, BoundsAreNat
       DEF TypeOK, WatchTimer, WatchProbes, WatchProbeTimesOut, WatchAnswered, files
  <2>7. CASE WatchRestarts
    BY <1>1, <2>1, <2>7, BoundsAreNat
       DEF TypeOK, WatchRestarts, RestartWorks, RestartFails, files
  <2> QED
    BY <2>2, <2>3, <2>4, <2>5, <2>6, <2>7 DEF OutsideHeals
<1>4. gateway' = "up" /\ runtime' \notin {Bad, loaded'} /\ ~behind'
        => gateway = "up" /\ runtime \notin {Bad, loaded} /\ ~behind
  <2>1. CASE GatewayStarts
    BY <2>1 DEF GatewayStarts
  <2>2. CASE RuntimeWritten
    BY <2>2 DEF RuntimeWritten
  <2>3. ~GatewayStarts /\ ~RuntimeWritten =>
          UNCHANGED <<runtime, loaded, behind>> /\ (gateway' = "up" => gateway = "up")
    BY DEF OutsideHeals, Edit, TroubleComes, Mend, GatewayCrashes, CooldownEnds,
           WatchTimer, WatchProbes, WatchProbeTimesOut, WatchAnswered, WatchRestarts,
           RestartWorks, RestartFails, files, vars
  <2> QED
    BY <2>1, <2>2, <2>3
<1>5. \A h \in Heals : OnItsWay(h)' <=> OnItsWay(h)
  BY <1>2 DEF OnItsWay
<1> QED
  BY <1>2, <1>3, <1>4, <1>5 DEF HealInv, OneHealAtATime, StaleGatewayIsHealed

LEMMA StepHeal == HealInv /\ [Next]_vars => HealInv'
<1> SUFFICES ASSUME HealInv, [Next]_vars PROVE HealInv'
  OBVIOUS
<1>1. CASE \E h \in Heals : ForcedHeal(h) \/ PeriodicHeal(h)
  BY <1>1, HealBodyKeeps DEF ForcedHeal, PeriodicHeal
<1>2. CASE \E h \in Heals : HealProbes(h) \/ HealProbeTimesOut(h)
  BY <1>2, HealProbesKeeps
<1>3. CASE \E h \in Heals : HealRestarts(h)
  BY <1>3, HealRestartsKeeps
<1>4. CASE \E h \in Heals : HealWaits(h)
  BY <1>4, HealWaitsKeeps
<1>5. CASE RelayRestarts
  BY <1>5, RelayRestartsKeeps
<1>6. CASE OutsideHeals
  BY <1>6, OutsideKeeps
<1> QED
  BY <1>1, <1>2, <1>3, <1>4, <1>5, <1>6 DEF Next, OutsideHeals

(* Both invariants are kept by every step. *)
THEOREM HealInvariant == Spec => []HealInv
BY InitHeal, StepHeal, PTL DEF Spec

(* runOpenClawConfigSelfHeal: the heals that its triggers start never overlap, and
   so never compose into the same files at once. *)
THEOREM HealsNeverOverlap == Spec => []OneHealAtATime
<1>1. HealInv => OneHealAtATime
  BY DEF HealInv
<1> QED
  BY <1>1, HealInvariant, PTL

(* runOpenClawConfigSelfHealBody and runGatewayPortWatchdog: where a restart is
   allowed, a gateway under an old configuration is about to be restarted, unless a
   compose failed after it replaced the file, a restart failed, the relay died on the
   way, or somebody else wrote the file. *)
THEOREM NoGatewayLeftStale == Spec => []StaleGatewayIsHealed
<1>1. HealInv => StaleGatewayIsHealed
  BY DEF HealInv
<1> QED
  BY <1>1, HealInvariant, PTL

-----------------------------------------------------------------------------
(* The safety half of ConfigurationConverges.  What a heal writes needs no second
   heal, and once the gateway runs under it, it is left alone. *)

(* A heal that composed has left the fragments and the effective file in agreement,
   unless a later fragment overrides the mode: then it composes again each time. *)
ComposeSettles ==
  \A h \in Heals :
    RunSelfHeal(h) /\ heal'[h].composed => setup.overridden \/ ~NeedsCompose'

(* The gateway runs under a file that agrees with the fragments, and nobody is about
   to restart it: no heal has composed, and no probe came back while it was down. *)
Settled ==
  /\ ~NeedsCompose
  /\ gateway = "up" /\ loaded = runtime
  /\ refused = 0
  /\ \A h \in Heals : heal[h].at # "restarting" /\ ~OnItsWay(h)

(* Only a change of a file, a crash or a probe that times out on the open port ends
   it: no heal, periodic or forced, and no run of the watchdog writes a file or
   restarts the gateway, also not after the relay itself was restarted. *)
SettledIsLeftAlone ==
  Settled =>
    \/ Edit \/ RuntimeWritten \/ GatewayCrashes
    \/ WatchProbeTimesOut \/ \E h \in Heals : HealProbeTimesOut(h)
    \/ Settled' /\ UNCHANGED <<frag, runtime, loaded, gateway>>

LEMMA HealSettles == HealInv /\ [Next]_vars => ComposeSettles
<1> SUFFICES ASSUME HealInv, NEW h \in Heals, RunSelfHeal(h), heal'[h].composed,
                    ~setup.overridden
             PROVE  ~NeedsCompose'
  BY DEF ComposeSettles
<1>1. TypeOK /\ heal[h] = Idle
  BY DEF HealInv, OneHealAtATime, RunSelfHeal, HealInFlight
<1>2. heal' # heal /\ heal'[h].composed /\ ~heal[h].composed
  BY <1>1 DEF Idle
<1>3. heal' # [heal EXCEPT ![h] = [at |-> "probing", composed |-> FALSE]]
  BY <1>1, <1>2 DEF TypeOK
<1>4. ComposeWorks(h) /\ setup' = setup
  BY <1>2, <1>3 DEF RunSelfHeal, HealBody, ComposeFails, ComposeFailsLate
<1>5. /\ trouble # "torn" /\ trouble' = trouble
      /\ frag' = Repaired(frag) /\ runtime' = Composed(Repaired(frag))
  BY <1>4 DEF ComposeWorks
<1>6. /\ Composed(Repaired(frag)).local = TRUE
      /\ Composed(Repaired(frag)) \in Fragments
  BY <1>1, ComposedTypes DEF TypeOK, Fragments, Repaired, Composed
<1>7. Composed(Repaired(frag)) # Bad
  BY <1>6, BadIsNoConfiguration DEF Fragments
<1>8. runtime' = Composed(frag)'
  BY <1>4, <1>5 DEF Composed
<1> QED
  BY <1>5, <1>6, <1>7, <1>8 DEF NeedsCompose, RunsUnder

LEMMA SettledStep == HealInv /\ [Next]_vars => SettledIsLeftAlone
<1> SUFFICES ASSUME HealInv, [Next]_vars, Settled, ~Edit, ~RuntimeWritten, ~GatewayCrashes,
                    ~WatchProbeTimesOut, \A h \in Heals : ~HealProbeTimesOut(h)
             PROVE  Settled' /\ UNCHANGED <<frag, runtime, loaded, gateway>>
  BY DEF SettledIsLeftAlone
<1>1. TypeOK /\ trouble # "torn" /\ ~NeedsCompose /\ gateway = "up" /\ refused = 0
  BY DEF HealInv, OneHealAtATime, Settled, NeedsCompose
<1>2. ASSUME UNCHANGED <<setup, frag, runtime, loaded, gateway>>,
             trouble' # "torn", refused' = 0,
             \A h \in Heals : heal'[h].at # "restarting" /\ ~OnItsWay(h)'
      PROVE  Settled'
  BY <1>2 DEF Settled, NeedsCompose, Composed, RunsUnder
<1>3. CASE CooldownEnds \/ WatchTimer \/ WatchProbes \/ TroubleComes \/ Mend \/ UNCHANGED vars
  <2>1. /\ UNCHANGED <<setup, frag, runtime, loaded, gateway, heal>>
        /\ trouble' # "torn" /\ refused' = 0
    BY <1>1, <1>3 DEF CooldownEnds, WatchTimer, WatchProbes, WatchAnswered, TroubleComes,
                      Mend, vars, files
  <2>2. \A h \in Heals : heal'[h].at # "restarting" /\ ~OnItsWay(h)'
    BY <2>1 DEF Settled, OnItsWay
  <2> QED
    BY <1>2, <2>1, <2>2
<1>4. ~GatewayStarts /\ ~WatchRestarts
  BY <1>1 DEF GatewayStarts, WatchRestarts
<1>5. CASE RelayRestarts
  <2>1. /\ UNCHANGED <<setup, frag, trouble, runtime, loaded, gateway>>
        /\ refused' = 0 /\ \A h \in Heals : heal'[h] = Idle
    BY <1>5 DEF RelayRestarts
  <2>2. \A h \in Heals : heal'[h].at # "restarting" /\ ~OnItsWay(h)'
    BY <2>1 DEF OnItsWay, Idle
  <2> QED
    BY <1>1, <1>2, <2>1, <2>2
<1>6. ASSUME NEW h \in Heals,
             NEW to \in [at : {"idle", "probing", "waiting"}, composed : {FALSE}],
             heal' = [heal EXCEPT ![h] = to],
             UNCHANGED <<setup, frag, trouble, runtime, loaded, gateway, refused>>
      PROVE  Settled' /\ UNCHANGED <<frag, runtime, loaded, gateway>>
  <2>1. heal'[h] = to /\ \A g \in Heals \ {h} : heal'[g] = heal[g]
    BY <1>1, <1>6 DEF TypeOK
  <2>2. \A g \in Heals : heal'[g].at # "restarting" /\ ~OnItsWay(g)'
    BY <2>1 DEF Settled, OnItsWay
  <2> QED
    BY <1>1, <1>2, <1>6, <2>2
<1>7. Idle \in [at : {"idle", "probing", "waiting"}, composed : {FALSE}]
  BY DEF Idle
<1>8. ASSUME NEW h \in Heals, RunSelfHeal(h)
      PROVE  Settled' /\ UNCHANGED <<frag, runtime, loaded, gateway>>
  <2>1. /\ UNCHANGED <<setup, frag, trouble, runtime, loaded, gateway, refused>>
        /\ heal' = [heal EXCEPT ![h] = [at |-> "probing", composed |-> FALSE]]
    BY <1>1, <1>8 DEF RunSelfHeal, HealBody
  <2> QED
    BY <1>6, <2>1
<1>9. ASSUME NEW h \in Heals, HealProbes(h)
      PROVE  Settled' /\ UNCHANGED <<frag, runtime, loaded, gateway>>
  <2>1. ~(heal[h].composed \/ gateway # "up") /\ HealAnswered(h, FALSE)
    BY <1>1, <1>9 DEF HealProbes, HealAnswered, Settled, OnItsWay
  <2>2. /\ UNCHANGED <<setup, frag, trouble, runtime, loaded, gateway, refused>>
        /\ heal' = [heal EXCEPT ![h] = Idle]
    BY <2>1 DEF HealAnswered
  <2> QED
    BY <1>6, <1>7, <2>2
<1>10. ASSUME NEW h \in Heals, HealWaits(h)
      PROVE  Settled' /\ UNCHANGED <<frag, runtime, loaded, gateway>>
  <2>1. /\ UNCHANGED <<setup, frag, trouble, runtime, loaded, gateway, refused>>
        /\ heal' = [heal EXCEPT ![h] = Idle]
    BY <1>10 DEF HealWaits
  <2> QED
    BY <1>6, <1>7, <2>1
<1>11. \A h \in Heals : ~HealRestarts(h)
  BY DEF HealRestarts, Settled
<1> QED
  BY <1>3, <1>4, <1>5, <1>8, <1>9, <1>10, <1>11 DEF Next, ForcedHeal, PeriodicHeal

(* assessOpenClawConfigHealth after the compose of runOpenClawConfigSelfHealBody: one
   heal is enough, although it repairs what it is about to merge. *)
THEOREM OneHealIsEnough == Spec => [][ComposeSettles]_vars
BY HealSettles, HealInvariant, PTL DEF Spec

(* The periodic heal, the forced ones and the watchdog do not disturb a gateway that
   runs as the fragments say, once no probe from before is left to be acted on. *)
THEOREM NoNeedlessRestart == Spec => [][SettledIsLeftAlone]_vars
BY SettledStep, HealInvariant, PTL DEF Spec
=============================================================================
