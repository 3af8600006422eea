------------------------------ MODULE SelfHeal -------------------------------
(***************************************************************************)
(* The self-heal of the gateway (openclawConfigSelfHeal.js): a full heal    *)
(* that brings the effective openclaw.json in line with the fragments and   *)
(* restarts the gateway, started by a periodic timer, by transport errors   *)
(* and by turns that find no gateway; and a light watchdog that only probes *)
(* the port and restarts.                                                  *)
(*                                                                         *)
(* One action is one macrotask: the tools and systemctl are run with        *)
(* spawnSync, so a heal yields only while it probes or waits for the port.  *)
(* A probe is answered, and acted on later: the answer may be stale.  The   *)
(* administrators, who edit the fragments, and the gateway are external.    *)
(* A configuration is abstracted to the edit it comes from and to what the  *)
(* heal may have to correct in it.                                         *)
(***************************************************************************)
EXTENDS Naturals

CONSTANTS
  Setups,      \* [restart, overridden], see the variable setup
  Heals,       \* bodies of runOpenClawConfigSelfHeal that could run at once
  Bad,         \* a runtime file that is missing or not JSON
  MaxWatch,    \* model bound: watchdog runs under way
  MaxChanges,  \* model bound: changes of files and of what can be written
  MaxFaults    \* model bound: crashes, restarts that fail, probes that time out

ASSUME SetupsAreFlags == Setups \subseteq [restart : BOOLEAN, overridden : BOOLEAN]
ASSUME BadIsNoConfiguration ==
  Bad \notin [edit : 0..MaxChanges, local : BOOLEAN, clean : BOOLEAN]
ASSUME BoundsAreNat == MaxWatch \in Nat /\ MaxChanges \in Nat /\ MaxFaults \in Nat

VARIABLES
  setup,     \* whether a restart is allowed (OPENCLAW_SELF_HEAL_RESTART_GATEWAY,
             \* sudo), and whether gateway.mode stays other than local whatever the
             \* heal does (a later fragment, no transport fragment)
  changes,   \* changes so far
  frag,      \* the fragments: the edit, gateway.mode local in the transport
             \* fragment, and whether the route entries need no repair
  trouble,   \* "torn": a fragment is not JSON; "failing": repairing or composing may
             \* fail at any point, on a file that cannot be written, a full disk, a
             \* fragment the tool refuses, a time-out or a kill; or "none"
  runtime,   \* OPENCLAW_RUNTIME_CONFIG_PATH
  loaded,    \* the configuration the gateway has read
  gateway,   \* its service: "down", "starting" or "up", the port is open
  faults,
  heal,      \* per body: idle, probing, restarting (the answer is there and calls
             \* for a restart) or waiting, and whether it has composed
  cooling,   \* less than the cooldown since lastHealAt
  watching,  \* runs of runGatewayPortWatchdog whose probe is under way
  refused,   \* and those whose probe failed: they are about to restart the gateway
  behind     \* history: since the gateway last started, the effective file changed
             \* and nothing is left that knows it needs a restart

vars == <<setup, changes, frag, trouble, runtime, loaded, gateway, faults, heal, cooling,
          watching, refused, behind>>

Fragments == [edit : 0..MaxChanges, local : BOOLEAN, clean : BOOLEAN]

(* mergeOrderedFragments: the last fragment wins.  It repairs what it merges, but
   what comes out may differ from what comes out of repaired fragments. *)
Composed(f) == [f EXCEPT !.local = @ /\ ~setup.overridden]

(* repairOpenClawConfigsBeforeCompose and ensureGatewayModeLocalInFragments. *)
Repaired(f) == [f EXCEPT !.local = TRUE, !.clean = TRUE]

(* What repairOpenClawJsonFile leaves of the effective file, which it writes in
   place: somebody may have put entries there that need it. *)
RepairedInPlace(r) ==
  IF r = Bad \/ r.clean THEN {r} ELSE {r, [r EXCEPT !.clean = TRUE], Bad}

(* The gateway refuses a configuration it cannot run under. *)
RunsUnder(r) == r # Bad /\ r.local

Idle == [at |-> "idle", composed |-> FALSE]
HealInFlight == \E h \in Heals : heal[h] # Idle

(* A heal has composed and has not come to its restart yet. *)
OnItsWay(h) == heal[h].at \in {"probing", "restarting"} /\ heal[h].composed

Init ==
  /\ setup \in Setups
  /\ changes = 0 /\ faults = 0
  /\ frag \in [edit : {0}, local : BOOLEAN, clean : BOOLEAN]
  /\ trouble \in {"none", "torn", "failing"}
  /\ runtime \in {Bad, Composed(frag), Composed(Repaired(frag))}
  /\ loaded = runtime
  /\ gateway \in IF RunsUnder(runtime) THEN {"down", "up"} ELSE {"down"}
  /\ heal = [h \in Heals |-> Idle]
  /\ cooling = FALSE
  /\ watching = 0 /\ refused = 0
  /\ behind = FALSE

-----------------------------------------------------------------------------
(* Outside *)

Change == changes < MaxChanges /\ changes' = changes + 1
Fault == faults < MaxFaults /\ faults' = faults + 1

(* The fragments are edited; the edit may break one, and a later one mend it. *)
Edit ==
  /\ Change
  /\ frag' \in [edit : {changes + 1}, local : BOOLEAN, clean : BOOLEAN]
  /\ trouble' \in {"none", "torn", "failing"}
  /\ UNCHANGED <<setup, runtime, loaded, gateway, faults, heal, cooling, watching, refused,
                 behind>>

TroubleComes ==
  /\ trouble = "none"
  /\ Change
  /\ trouble' = "failing"
  /\ UNCHANGED <<setup, frag, runtime, loaded, gateway, faults, heal, cooling, watching,
                 refused, behind>>

Mend ==
  /\ trouble # "none"
  /\ trouble' = "none"
  /\ UNCHANGED <<setup, changes, frag, runtime, loaded, gateway, faults, heal, cooling,
                 watching, refused, behind>>

(* The effective file is damaged, or somebody writes another one. *)
RuntimeWritten ==
  /\ Change
  /\ runtime' \in {Bad} \cup [edit : {frag.edit}, local : BOOLEAN, clean : BOOLEAN]
  /\ behind' = (behind \/ runtime' # Bad)
  /\ UNCHANGED <<setup, frag, trouble, loaded, gateway, faults, heal, cooling, watching,
                 refused>>

(* The gateway reads its configuration while it starts. *)
GatewayStarts ==
  /\ gateway = "starting"
  /\ IF RunsUnder(runtime)
     THEN gateway' = "up" /\ loaded' = runtime /\ behind' = FALSE
     ELSE gateway' = "down" /\ UNCHANGED <<loaded, behind>>
  /\ UNCHANGED <<setup, changes, frag, trouble, runtime, faults, heal, cooling, watching,
                 refused>>

GatewayCrashes ==
  /\ gateway # "down"
  /\ Fault
  /\ gateway' = "down"
  /\ UNCHANGED <<setup, changes, frag, trouble, runtime, loaded, heal, cooling, watching,
                 refused, behind>>

(* The relay is killed and starts again: what it was about to do is forgotten. *)
RelayRestarts ==
  /\ Fault
  /\ heal' = [h \in Heals |-> Idle]
  /\ cooling' = FALSE
  /\ watching' = 0 /\ refused' = 0
  /\ behind' = (behind \/ \E h \in Heals : OnItsWay(h))
  /\ UNCHANGED <<setup, changes, frag, trouble, runtime, loaded, gateway>>

-----------------------------------------------------------------------------
(* tryRestartGatewayService *)
RestartWorks == setup.restart /\ gateway' = "starting" /\ UNCHANGED faults

(* It is skipped or not allowed; or systemctl fails or times out half-way. *)
RestartFails ==
  \/ ~setup.restart /\ UNCHANGED <<gateway, faults>>
  \/ setup.restart /\ Fault /\ gateway' \in {gateway, "starting", "down"}

(* assessOpenClawConfigHealth *)
NeedsCompose == trouble = "torn" \/ runtime # Composed(frag) \/ ~RunsUnder(runtime)

ComposeWorks(h) ==
  /\ trouble # "torn"
  /\ frag' = Repaired(frag)
  /\ runtime' = Composed(Repaired(frag))
  /\ heal' = [heal EXCEPT ![h] = [at |-> "probing", composed |-> TRUE]]
  /\ UNCHANGED <<trouble, cooling, behind>>

(* Nothing is composed, and the heal is over, with a cooldown unless it was a repair
   that threw.  Part of what could be repaired has been; a repair in place that
   fails leaves a file that is not JSON. *)
ComposeFails ==
  /\ trouble # "none"
  /\ frag' \in [edit : {frag.edit}, local : {frag.local, TRUE}, clean : {frag.clean, TRUE}]
  /\ trouble' \in IF frag.clean THEN {trouble} ELSE {trouble, "torn"}
  /\ runtime' \in RepairedInPlace(runtime)
  /\ behind' = (behind \/ runtime' \notin {runtime, Bad})
  /\ cooling' \in {cooling, TRUE}
  /\ UNCHANGED heal

(* The tool fails after it renamed the effective file, on the copy in /etc or because
   its time is up: the heal ends without the restart. *)
ComposeFailsLate ==
  /\ trouble = "failing"
  /\ frag' = Repaired(frag)
  /\ runtime' = Composed(Repaired(frag))
  /\ behind' = TRUE
  /\ cooling' = TRUE
  /\ UNCHANGED <<trouble, heal>>

(* The body of runOpenClawConfigSelfHeal up to its first await. *)
HealBody(h) ==
  \/ /\ ~NeedsCompose
     /\ heal' = [heal EXCEPT ![h] = [at |-> "probing", composed |-> FALSE]]
     /\ UNCHANGED <<frag, trouble, runtime, cooling, behind>>
  \/ NeedsCompose /\ ComposeWorks(h)
  \/ NeedsCompose /\ ComposeFails
  \/ NeedsCompose /\ ComposeFailsLate

(* Mutant of RunSelfHeal: a heal under way is not joined. *)
RunSelfHealAgain(h) ==
  /\ heal[h] = Idle
  /\ HealBody(h)
  /\ UNCHANGED <<setup, changes, loaded, gateway, faults, watching, refused>>

(* runOpenClawConfigSelfHeal joins a heal that is under way. *)
RunSelfHeal(h) ==
  /\ ~HealInFlight
  /\ HealBody(h)
  /\ UNCHANGED <<setup, changes, loaded, gateway, faults, watching, refused>>

(* Forced: at startup, after a transport error, or for a turn without gateway. *)
ForcedHeal(h) == RunSelfHeal(h)

(* Mutant of PeriodicHeal: the timer's heal waits for a gateway that is down. *)
PeriodicHealIfDown(h) == ~cooling /\ gateway = "down" /\ RunSelfHeal(h)

PeriodicHeal(h) == ~cooling /\ RunSelfHeal(h)

(* What the answer to its probe makes of a heal, which is over without a restart. *)
HealAnswered(h, restart) ==
  /\ heal[h].at = "probing"
  /\ heal' = [heal EXCEPT ![h] = IF restart THEN [@ EXCEPT !.at = "restarting"] ELSE Idle]
  /\ cooling' = (cooling \/ ~restart)
  /\ UNCHANGED <<setup, changes, frag, trouble, runtime, loaded, gateway, watching, refused,
                 behind>>

(* Mutant of HealProbes: only a closed port calls for a restart. *)
HealProbesPortOnly(h) == HealAnswered(h, gateway # "up") /\ UNCHANGED faults

(* A restart is due after a compose and when the port is closed. *)
HealProbes(h) == HealAnswered(h, heal[h].composed \/ gateway # "up") /\ UNCHANGED faults

(* The relay was blocked by a tool, or the machine is busy: an open port seems closed. *)
HealProbeTimesOut(h) == gateway = "up" /\ Fault /\ HealAnswered(h, TRUE)

(* The restart, whatever the port is by now. *)
HealRestarts(h) ==
  /\ heal[h].at = "restarting"
  /\ \/ /\ RestartWorks
        /\ heal' = [heal EXCEPT ![h].at = "waiting"]
        /\ UNCHANGED <<cooling, behind>>
     \/ /\ RestartFails
        /\ heal' = [heal EXCEPT ![h] = Idle]
        /\ cooling' = TRUE
        /\ behind' = (behind \/ heal[h].composed)
  /\ UNCHANGED <<setup, changes, frag, trouble, runtime, loaded, watching, refused>>

(* waitForGatewayLoopback: the port is open, or the time is up. *)
HealWaits(h) ==
  /\ heal[h].at = "waiting"
  /\ heal' = [heal EXCEPT ![h] = Idle]
  /\ cooling' = TRUE
  /\ UNCHANGED <<setup, changes, frag, trouble, runtime, loaded, gateway, faults, watching,
                 refused, behind>>

CooldownEnds ==
  /\ cooling
  /\ cooling' = FALSE
  /\ UNCHANGED <<setup, changes, frag, trouble, runtime, loaded, gateway, faults, heal,
                 watching, refused, behind>>

-----------------------------------------------------------------------------
(* The watchdog touches nothing but its probes and the service. *)
files == <<setup, changes, frag, trouble, runtime, loaded, heal, cooling, behind>>

(* The interval of startGatewayPortWatchdog; runs may overlap. *)
WatchTimer ==
  /\ watching + refused < MaxWatch
  /\ watching' = watching + 1
  /\ UNCHANGED <<files, gateway, faults, refused>>

WatchAnswered(restart) ==
  /\ watching > 0
  /\ watching' = watching - 1
  /\ refused' = IF restart THEN refused + 1 ELSE refused
  /\ UNCHANGED <<files, gateway>>

(* The port of a gateway that is just starting is closed, too. *)
WatchProbes == WatchAnswered(gateway # "up") /\ UNCHANGED faults

WatchProbeTimesOut == gateway = "up" /\ Fault /\ WatchAnswered(TRUE)

(* Mutant of WatchRestarts: the restart is left to a heal. *)
WatchLeavesIt ==
  /\ refused > 0
  /\ refused' = refused - 1
  /\ UNCHANGED <<files, gateway, faults, watching>>

(* runGatewayPortWatchdog restarts it, whatever heal is under way and whatever the
   port is by now. *)
WatchRestarts ==
  /\ refused > 0
  /\ refused' = refused - 1
  /\ RestartWorks \/ RestartFails
  /\ UNCHANGED <<files, watching>>

-----------------------------------------------------------------------------
Next ==
  \/ Edit
  \/ TroubleComes
  \/ Mend
  \/ RuntimeWritten
  \/ GatewayStarts
  \/ GatewayCrashes
  \/ RelayRestarts
  \/ CooldownEnds
  \/ WatchTimer
  \/ WatchProbes
  \/ WatchProbeTimesOut
  \/ WatchRestarts
  \/ \E h \in Heals :
       \/ ForcedHeal(h) \/ PeriodicHeal(h)
       \/ HealProbes(h) \/ HealProbeTimesOut(h) \/ HealRestarts(h) \/ HealWaits(h)

Spec == Init /\ [][Next]_vars

(* Both intervals fire, probes and waits end, and a gateway that starts comes up or
   fails before it is restarted for ever.  No forced heal is relied on. *)
Fairness ==
  /\ WF_vars(GatewayStarts)
  /\ WF_vars(CooldownEnds)
  /\ WF_vars(WatchTimer)
  /\ WF_vars(WatchProbes)
  /\ WF_vars(WatchRestarts)
  /\ WF_vars(\E h \in Heals : PeriodicHeal(h))
  /\ \A h \in Heals : WF_vars(HealProbes(h)) /\ WF_vars(HealRestarts(h)) /\ WF_vars(HealWaits(h))

FairSpec == Spec /\ Fairness

-----------------------------------------------------------------------------
(* Every variable has its type. *)
TypeOK ==
  /\ setup \in Setups
  /\ changes \in 0..MaxChanges /\ faults \in 0..MaxFaults
  /\ watching \in 0..MaxWatch /\ refused \in 0..MaxWatch /\ watching + refused <= MaxWatch
  /\ frag \in Fragments
  /\ trouble \in {"none", "torn", "failing"}
  /\ runtime \in Fragments \cup {Bad} /\ loaded \in Fragments \cup {Bad}
  /\ gateway \in {"down", "starting", "up"}
  /\ cooling \in BOOLEAN /\ behind \in BOOLEAN
  /\ heal \in [Heals -> [at : {"idle", "probing", "restarting", "waiting"},
                         composed : BOOLEAN]]

(* One heal at a time, however many triggers come together: two would compose into
   the same files without the lock, which the heal turns off. *)
OneHealAtATime ==
  /\ TypeOK
  /\ \A h, g \in Heals : heal[h] # Idle /\ heal[g] # Idle => h = g

(* Where a restart is allowed, a gateway that runs under another configuration than
   the effective one is about to be restarted: a heal has composed and is on its way
   there.  No crash, edit, stale probe or run of the watchdog in between makes it
   forget.  Four things do, and make the gateway fall behind until its next start: a
   compose that fails after it replaced the file, a restart that fails, a relay that
   dies on the way, and a file that somebody else wrote. *)
StaleGatewayIsHealed ==
  setup.restart /\ gateway = "up" /\ runtime \notin {Bad, loaded} =>
    behind \/ \E h \in Heals : OnItsWay(h)

(* A gateway that came up after it was found down is about to be restarted. *)
StaleRefusal ==
  /\ gateway = "up"
  /\ refused > 0 \/ \E h \in Heals : heal[h].at = "restarting" /\ ~heal[h].composed

(* README, self-heal: once the fragments can be composed and are left alone, and no
   probe is answered just before the gateway comes up, the effective file follows the
   fragments; where a restart is allowed and no later fragment overrides the mode,
   the gateway ends up running, under that file unless it has fallen behind, and is
   then left alone. *)
ConfigurationConverges ==
  <>[](trouble = "none" /\ ~StaleRefusal) =>
    <>[] /\ runtime = Composed(frag)
         /\ setup.restart /\ ~setup.overridden => gateway = "up" /\ (behind \/ loaded = runtime)

(* A gateway that is down is restarted, also while no heal gets past a fragment
   that cannot be composed. *)
GatewayRevived == setup.restart => (gateway = "down" ~> gateway # "down")
=============================================================================
