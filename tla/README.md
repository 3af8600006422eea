# Ombot, specified in TLA+

Ombot is a relay: a phone (the ClawChat app) speaks to it over a WebSocket, or
through a *middleware* tunnel, and it passes the phone's requests on to an agent
runtime, the OpenClaw gateway or Hermes, and the replies back. The modules here
specify the parts of it whose correctness depends on the order of events:
sockets that close while others open, timers that race answers, requests that
are delivered twice, processes that share files. TLC checks them on small
instances, TLAPS proves the safety of all of them for every value of the constants.

Paths of source files are relative to the repository's root.

## 1. The system and its parts

One Node process (`index.js`) runs everything but the tools, so that in it an
event handler, a timer callback or the stretch of an async function between two
awaits is atomic. What interleaves are these stretches, and the network.

| Component | State | Operations | Hard behaviour | What makes it correct |
|---|---|---|---|---|
| Replay guard (`securityGuards.js`) | nonce map of a session | `validateReqSignature`, `pruneSeenNonces` | repeated delivery; window and lifetime boundaries | a request is relayed at most once; what the guard refuses burns no nonce |
| Gateway client (`gatewayAgentClient.js`) | socket, handshake, reconnect timer, turn queue, pending requests | `ensureConnected`, `enqueueAgentTurn`, `destroy`; socket events, timers | every await can be overtaken by a close, a destroy, a late answer | one socket; never offline for good; one turn at a time, in order, none lost |
| Gateway replies (`gatewayAssistantDispatch.js`, `gatewayResponseText.js`) | bounded set of runs forwarded | classification of frames, `tryForward` | one run is reported up to three times | a run's reply is shown once |
| Relay session (`machineRelaySession.js`) | handshake, middleware socket, box keys, reconnect timer, keepalive | register and challenge, relay, tunnel events, `destroy` | orphaned timers, re-registration with a tunnel open, keys of a lost tunnel | one tunnel; always a way back; keys die with the tunnel |
| Single-client dispatcher (`singleClientGateway.js`) | `sharedClient`, `activeSession` | start, stop, register, unregister, deliver | a phone reconnects before its old socket closes | one gateway client; replies go to the phone that is there |
| Server (`index.js`) | sessions, rate window, accepting | connection, message, close, `gracefulShutdown` | messages between shutdown and close | a stopped relay stays stopped |
| OpenClaw bridge (`openclawGatewayBridge.js`) | as the gateway client, plus a bridge session and a keepalive | as the gateway client, `start`, `stop` | a refused connect reconnects at once, frames arrive after `stop`, a gateway falls silent | as the gateway client; `stop` is final; a silent gateway is given up |
| Hermes bridge (`hermesAgentBridge.js`) | queue, turn in flight, conversation, health | enqueue, drain, probe, stop | pops and pushes around an await; probes and turns write the health in any order | one turn at a time, in order; what is sent is one conversation; an outage is noticed |
| Chat room storage (`chatroomStorage.js`) | key files, encryption keys | load, create, save, rotate | read-modify-write by two processes with environments of their own, crash or failure inside a write | no rotation locks a room out; a room keeps its pair and its phones |
| Self-heal (`openclawConfigSelfHeal.js`) | heal in flight, last heal, watchdog | assess, repair, compose, probe, restart | heals from several triggers, a watchdog beside them, a gateway that crashes | one heal at a time; no gateway left on an old configuration while a heal can know; it converges |
| Compose tool (`tools/openclaw-compose.mjs`) | lock file, configuration files, backup | compose, rollback | several processes, killed anywhere | files whole, the last edit in force, locks removed |
| JSON merge, repair tools (`tools/`) | none / configuration files | deep merge, repairs | precedence of nulls and arrays | as documented |
| Device identity, turn agent id, error classes | a small state file | formatting, signing | a file torn by a crash | - |
| Provider fallback (`providerFallbackClient.js`) | none | one HTTP request | slow or failing | its outcome settles the turn |
| Crypto, TLS, metrics, logging; shell provisioning | none | wrappers, scripts | none | - |

How they interact. In *middleware mode* a phone registers with a
`MachineRelaySession`, which opens a tunnel to the middleware and encrypts
signed requests into it; a bridge (OpenClaw or Hermes) owns another session, without a
local client, at the other end and feeds its own gateway connection. In
*single-client mode* there is no middleware: the session hands a request to the
one `GatewayAgentClient` of the process, whose callbacks deliver replies to
whichever session is active. The compose tool runs outside, from scripts and
from self-heal, and writes the configuration the gateway reads.

## 2. Modules

| Module | Models | Theorems in |
|---|---|---|
| `ReplayGuard` | `validateReqSignature` over the nonce map of a session, with the clock and re-registration | `ReplayGuardProofs` |
| `GatewayReply` | what a gateway frame carries, and the reply deduper (operators only) | `GatewayProofs` (2, as part of the client) |
| `GatewayClient` | `GatewayAgentClient`, whole; extends `GatewayReply` | `GatewayProofs` (1: connection, 2: turns, refinement and deduper, 4: after `destroy`) |
| `TurnQueue` | abstract: turns are worked on one at a time, in order, none skipped | |
| `RelaySession` | `MachineRelaySession` in middleware and bridge mode | `RelaySessionProofs` |
| `SingleClient` | the dispatcher, the single-client branches of the session, accept, close and shutdown of the server | `SingleClientProofs` |
| `ComposeLock` | concurrent processes running `openclaw-compose.mjs` | `ComposeLockProofs` |
| `GatewayBridge` | `OpenClawGatewayBridge`; extends `GatewayClient`, whose methods the class repeats, with the keepalive, the reconnect of a refusal and a `stop` of its own | `GatewayProofs` (3, and 4: after `stop`) |
| `HermesBridge` | `HermesAgentBridge`: turns, conversation, health probes, stop | `HermesBridgeProofs` |
| `SelfHeal` | the full heal and the port watchdog over fragments, effective file and gateway service | `SelfHealProofs` |
| `ChatroomStorage` | the key files of the rooms, written by the relay and by the key rotation | `ChatroomStorageProofs` |

`TurnQueue` is the abstraction of all three that serve turns: `GatewayClient`,
`GatewayBridge` and `HermesBridge` each implement it. `SingleClient` and
`GatewayBridge` are compositions: the first puts sessions over gateway clients
taken at that promise, the second puts its own connection rules around the
actions of `GatewayClient`.

`MC<module>` and the `.cfg` files give the constants small values.
`MCGatewayDedup` adds a gateway that reports each run once. Definitions whose
comment says *Mutant of X* are wrong versions of X, each like a slip one could
make in the code; no specification uses them, they serve to see each property fail.

### How state and actions correspond to the code

**ReplayGuard.** `now` is `Date.now()` in milliseconds, assumed not to go back.
`seenNonces` is the map in the session; `HandleReq(r, sent)` is a delivery, with a whole
call of `validateReqSignature`, its checks in the code's order (`Reason`), the pruning
where the code reaches it, the nonce stored last and at the receiver's time. What
follows the guard may still refuse the request (`sent`): in single-client mode a
method without text for the agent is answered `unsupported_req_method`. So
`accepted`, what passed the guard, and `relayed` are two sets. A
request is a record of nonce, timestamp and the key that signed it: the
canonical bytes and Ed25519 are abstracted to that key. `Register` installs a
key, or none when it does not parse, and keeps the map. The guard is modelled with
`REQUIRE_CLIENT_SIGNATURE` on (`0` turns it off and with it every claim).

**GatewayClient.** An action is one macrotask with the microtasks it runs.
`setup` is what the constructor was given, connect mode and provider fallback;
`Setups` are the ones a run explores side by side.
`sock` is each socket's `readyState`, `ws` is `gatewayWs`, `waits` the calls of
`waitForGatewayLoopback` being awaited, `connects` the connect requests in
`_pending`. `_connectWithWait` is split at its await into `Connect` and
`OpenSocket` / `OpenSocketFails` / `WaitFails` / `WaitEndsDestroyed`. A closing socket delivers messages
until its close event. A zero wait is treated like a short one.
`OpenSocketFails` is a constructor that throws. Turns are
numbered in the order of `enqueueAgentTurn`; `_drainQueue` is an operator
(`KeepQueue`, `StartTurn` and what combines them) that every caller applies to the turn
state it leaves, because the code calls it synchronously. `FallbackEnds` is
the answer of `providerFallbackClient`. A pending connect of a socket that has
closed is forgotten: an answer to it can no longer arrive.

**RelaySession.** `tunnel` is each middleware socket's `readyState`, `mws` is
`middlewareWs`. `timers` counts the reconnect timers that are armed; `tracked`
says whether `_reconnectTimer` refers to one, since a second one overwrites the reference
and `destroy` clears only the referred one. `boxKeys` is `"alone"` when
`chatroomBoxKeys` has no peer key. The keepalive is its timers and whether a
pong came since the last ping; `fresh` is the case of a pong in the very
millisecond of the ping, where `stale > PONG_TIMEOUT_MS` is false. Delays and
the back-off of reconnects are left out: a timer may fire at any time after it is armed, except
that the pong timeout (10 s) ends before the next ping (30 s). A `ping` that
throws is out of reach, its guard has just seen the socket open.

**SingleClient.** One record of socket, handshake and keys for each connection;
`active` is `activeSession`, `shared` is `sharedClient`. A gateway client is
taken at the promise `TurnQueue` gives and `GatewayClient` keeps, with any
number of reports for a turn it accepted. `claim` is history.

**ComposeLock.** A run is a process, an action one system call. `lock` is the
run whose file is at the path, which is not what the file says: `filled` are
the runs that have written their pid. A configuration is the version of the
fragments it was merged from, or `Torn`. The fragments are read as one version.
`copyFileSync` and the in-place writes of a rollback are two steps, the rename
is one. `SeenAlive` includes that `process.kill(pid, 0)` also throws for a
process of another user, and that it succeeds for any process that has got the
pid of a killed run (`stranger`, `PidChangesHands`). The tools that repair and
validate the effective files write them in place and may be killed in it
(`OtherToolTears`): what they leave is `Damaged`, also before the first run, and
a compose copies it to the backup without looking.

**GatewayBridge.** The two classes have their methods for the connection, the
handshake and the queue in common, word for word but for logging and metrics;
`map` gives each action its lines in `openclawGatewayBridge.js`. What differs is
written out: `StartGatewayKeepalive` and `StopGatewayKeepalive` where the bridge
calls them, `GatewayRejects` (a refused connect closes the socket and schedules
a reconnect at once), `Stop` (pending requests, queue and provider calls stay),
and with it `LateFrame` and `LateProviderEnds`, which settle turns of a bridge
that has stopped but tell no phone. `PhoneMessage` has no guard either: the closing
tunnel still delivers, and the message is queued. `acked` and `delivered` count what is handed
to the relay session, which is `RelaySession` in bridge mode.

**HermesBridge.** A turn is its number. `api` says whether the Hermes server
answers, `hopeful` which of the requests under way it was there for: a request sent
before an outage may still succeed after it began, one sent during it cannot
unless the server is back. `link` is whether the session can reach the phone;
`"bad"` is a box key of the wrong length, on which encryption throws after the
answer has come, so that the code takes the turn for failed. `transcript` is
`_chatMessages` (chat completions mode), `failed` is history.

**SelfHeal.** The tools and `systemctl` run under `spawnSync`, so a heal is
four stretches: `HealBody` up to the probe, `HealProbes`, where the answer is
taken, `HealRestarts`, which acts on it later, and `HealWaits`; the watchdog has
`WatchProbes` and `WatchRestarts`. Between answer and restart the gateway may
come up. A probe of an open port may also time out, since the relay itself stands
still while a tool runs. A configuration is the edit of the fragments it was
composed from and the two things the heal may have to correct, `gateway.mode` and
the route entries; `Bad` is a file that is missing or not JSON. `restart` in
`setup` is whether a restart is allowed, `overridden` that a later fragment sets
the mode again. `HealBody` writes the file with the tool that `ComposeLock`
models, at once, because nothing of this process can run meanwhile. It can fail
in two ways. `ComposeFails` is before the file is replaced: a torn
fragment, a fragment the tool refuses, a file that cannot be written, a repair
that throws. `ComposeFailsLate` is after, on the copy in `/etc` or by the time-out.
`behind` is history: the file changed and nobody is left who knows it needs a restart.

**ChatroomStorage.** A write is two steps, `Opens` (the file is truncated) and
`Fills`, between which the other process, or a crash, may come; when both had
the file open, the longer text leaves its tail. The encryption is the number of
the key it was done under (0: none). The relay's `Register` is the load, the
creation of a pair when nothing could be read, and the save after it. The rotation
may be run whenever one likes (`README.md:126` runs it before the relay restarts,
`docs/RUNBOOK.md` after), and has the keys of the shell it is run from (`shell`):
those of `ombot.env`, older ones, or none, when it says ok and does nothing. A write
that throws (`Crash`) leaves a torn file behind and the relay running. `order` is
history: whether the old key was removed after a rotation in the RUNBOOK's order. So
are `known` and `damaged`: what the phones were told and registered, and which
files were torn, written by both at once, or registered over unread.

## 3. Runs

Twelve runs, three of which show a document or comment and the code disagree.

| Run | Question | Instance and why it is enough |
|---|---|---|
| `replay_guard` | Can a request be relayed twice, can a refusal by the guard burn a nonce? | two nonces, two keys, window 1, lifetime 2 (the default ratio, the boundary), clock to 5: past two lifetimes |
| `gateway_client` | The connection and the turns under every order of events, blind connect with the fallback and the challenge handshake without; how often a reply is shown, do queues drain, is a silent gateway dropped; refinement of `TurnQueue` | two sockets (a new one beside a closing one), three turns (one in flight, one waiting, one behind) |
| `gateway_dedup` | *Violation of* `OneReplyPerRun`: a run reported by chat final and, after the next turn was sent, by its agent end is shown twice | two turns, a gateway that repeats nothing |
| `relay_session` | One tunnel, a way back, no pile-up of timers, keys, keepalive, final destroy; is a silent tunnel dropped? | sessions with and without a local client, two tunnel objects, three registrations: enough for two orphan timers and a third tunnel; one conversation, as nothing asked here depends on it |
| `relay_conversation` | *Violation of* `RelayedInConversation`: registering for another conversation keeps the old tunnel | two conversations, two registrations |
| `single_client` | One gateway client; takeover by a reconnected phone survives the close of its old connection | three connections, two clients, two turns, a shutdown anywhere |
| `gateway_bridge` | The same connection without a look at `gatewayWs`, with refusals that reconnect at once, a keepalive, and a stop at any time | two sockets, three turns (one pending and one waiting at the stop), with and without device, frames that accept, refuse and end a turn |
| `hermes_bridge` | Is what is sent one conversation, do turns keep `TurnQueue`'s promise and drain, is an outage noticed? | three turns, two probes beside them, both API modes and a bridge without a key |
| `self_heal` | Do heals overlap, is a gateway left on an old configuration, does everything converge? | two heal bodies and two watchdog runs (so that each could overlap with itself), any first state of the files, one change in the middle of a heal, two faults (crashes, restarts that fail, probes that time out) |
| `chatroom_storage` | Does a rotation of the key lock a room out, does a room lose its pair or a phone? | two rooms (the rotation can stop between them), two phones in the first, which may have a legacy file, one crash or failed write |
| `compose_lock` | Are files whole and locks removed, whoever is killed, and is a dead run's lock taken over? | a run of root, one of a user, a rollback, one edit, pids in use again, other tools that tear the files |
| `compose_lost_edit` | *Violation of* `NoLostEdit`: fragments are read before the lock is taken | two runs, one edit |

(The violations are in `findings` of `PROJECT.json`, each with the line of
documentation it contradicts.)

The passing properties, by what they are about:

- *Replay*: `RelayedAtMostOnce`, `NonceOnlyFromAccepted`.
- *The connection to the gateway*: `OneSocket` (the close handler nulls
  `gatewayWs` whoever it belongs to), `NeverStrandedOffline`,
  `HandshakeHasNext`, `DestroyedIsQuiet`, `ChallengeTimesOut`.
- *Agent turns*: `OneTurnAtATime`, `NoTurnLeftWaiting`, `SentInOrder`,
  `AckedOnce`, `ShownOncePerSend` (what the deduper does keep to where
  `OneReplyPerRun` fails: a reply once for each turn sent from its own on),
  `ImplementsTurnQueue`, `QueueDrains`.
- *The tunnel*: `TunnelInv` (`OneTunnel`, `RetriesAreBounded`,
  `KeepaliveFollowsTunnel`), `NeverWithoutRetry`, `KeysDieWithTunnel`,
  `DestroyedIsQuiet`, `SilentTunnelDropped`.
- *Single-client mode*: `DispatchInv` (`OneGateway`, `ActiveIsThere`),
  `TakeoverSurvivesOldClose`.
- *The gateway bridge*: `BridgeInv` (the connection invariants above, and a
  keepalive exactly while connected), `StopIsQuiet`,
  `BridgeImplementsTurnQueue`, `SilentGatewayDropped`.
- *The Hermes bridge*: `TranscriptIsConversation`, `ImplementsTurnQueue`,
  `QueueDrains`, `OutageNoticed`.
- *Self-heal*: `OneHealAtATime`, `StaleGatewayIsHealed`,
  `ConfigurationConverges`, `GatewayRevived`.
- *Key files*: `RotationKeepsFilesReadable`, `PhonesStayKnown`.
- *Configuration*: `ComposeIsAtomic`, `LockInv` (`NoLockLeft`), `StaleLockTaken`.

`TunnelInv`, `DispatchInv`, `LockInv` and `BridgeInv`, and the first property of
each other module, are or include its type invariant.

What is *not* promised, and why there is no property for it:

- Once `connect` is sent no timer covers its answer, so a gateway that falls
  silent after its challenge keeps an unconnected socket open.
- A turn taken up while the gateway is away and refused by the fallback is
  dropped without a word; a request relayed while the tunnel is down is dropped
  without an answer; a reply that comes when the active phone has gone is
  dropped although an older registered phone is connected
  (`singleClientGateway.js:72`).
- The token moves to the query for good at the first close of a tunnel, also of
  one that had opened (`authQuery`).
- A request that passes the guard and is refused afterwards has spent its nonce:
  sent again, it is a replay (`machineRelaySession.js:624`).
- A compose lock that is still empty is judged stale, so two overlapping runs
  can both go on; a run killed inside its backup leaves half of it, and a
  rollback restores that. Both are in `ComposeLock`. So is a pid that another
  process has got: the dead lock then counts as held, and every run gives up after
  its 15 s with `COMPOSE_LOCKED`. The time is also looked at before the lock is judged
  (`openclaw-compose.mjs:90`), so that a run which spent it behind a live holder gives
  up although that holder has just died: `StaleLockTaken` is of runs that have not
  waited, and takes a run as never suspended for 15 s between two of its calls.
- The relay and a rotation that write one room's file at the same time can lose
  a phone or a pair; `PhonesStayKnown` excepts these rooms (`damaged`), and
  those torn by a crash or a failed write, until the next registration.
- A rotation in the order of `README.md:126`, without a restart first, leaves files
  under a key the running relay does not have. It takes them for missing and makes a
  new pair for each room that registers before it restarts (`damaged`, too); a room
  with a legacy file gets its first pair again. The files themselves are readable after
  the restart.
- A rotation from a shell without the keys of `ombot.env` says `ok` and `rotated: 0`;
  who removes the old key on that word alone locks rooms out (`order` is `"broken"`).
- Where the self-heal may not restart the gateway, it runs on under the old
  configuration until someone does. So it does (`behind`) when the compose fails
  after it renamed the file (`openclaw-compose.mjs:278-284`), when the restart
  fails and when the relay is killed before it: the next heal compares the file with
  the fragments, not with what the gateway runs under, and finds nothing to do
  (`openclawConfigSelfHeal.js:509-542`). A file that somebody else writes and that
  agrees with the fragments is not noticed either.
- An answer to a probe from just before the gateway came up restarts it once more
  (`openclawConfigSelfHeal.js:443-455`, `532-543`).

**Deadlock.** The replay guard and the gateway client always have a step, and
deadlock is looked for. A relay session has ended after `destroy` when its
timers have run out, single-client mode when all its connections have closed, a
bridge when it has stopped and its requests are settled, the compose tool when
all runs have ended, key storage when the rotation is over and the relay idle
with its bounded pairs and crashes used; the self-heal has no end of its own,
but a bounded number of changes and faults. Their configurations turn it off.

**Fairness.** Timers that are armed fire; an await of
`waitForGatewayLoopback` and a connection attempt end (both have a deadline);
a closing socket closes (the `ws` library gives up after 30 s); requests to
Hermes and to the provider end, by their timeouts at the latest; a process that
is not killed is scheduled. Nothing is assumed of the gateway, the middleware,
the phone, Hermes or the provider: they may be silent for ever. Hence `QueueDrains` of
`GatewayClient` is conditional on a gateway that keeps coming back, that of
`HermesBridge` is not (a request that gets no answer fails),
`SilentTunnelDropped` and `SilentGatewayDropped` are about a peer that does not
answer, and `OutageNoticed` about a server that stays away. For the
self-heal both intervals fire, and a gateway that starts comes up or fails
before the watchdog restarts it for ever: with a start slower than
`OPENCLAW_GATEWAY_WATCH_INTERVAL_MS` it would never come up. `ConfigurationConverges`
says in its premise what it needs besides: that composing can be done at last
(`trouble`), and that probes are at last no longer answered just before the gateway
comes up (`StaleRefusal`), since each such answer restarts it. `ReplayGuard`,
`SingleClient` and `ChatroomStorage` state safety only.

## 4. Proofs

Every safety invariant that a passing run checks, the three refinements of
`TurnQueue`, and what some steps may never do (action properties), are theorems: `tlapm` proves them for any number of sockets, turns,
nonces, keys, phones, processes, rooms, crashes and edits, any window and
lifetime, every connect mode, fallback on or off.

| Theorem | Of | States |
|---|---|---|
| `TypeCorrect`, `NeverRelayedTwice`, `RefusalBurnsNothing` | `ReplayGuard` | `TypeOK`, `RelayedAtMostOnce`, `NonceOnlyFromAccepted` |
| `NoGoodRequestRefused` | the same | action property: a request signed with the key, in the window and with a nonce no accepted request had passes the guard |
| `NeverTwoSockets`, `AlwaysAWayBack`, `HandshakeNeverForgotten`, `NothingAfterDestroy` | `GatewayClient`, the connection | `OneSocket`, `NeverStrandedOffline`, `HandshakeHasNext`, `DestroyedIsQuiet` |
| `ConnectingIsNeverStale` | the same | `ConnectingIsUnderWay`: `_connecting` is never left set |
| `TypeCorrect`, `TurnsOneAtATime`, `TurnsSentInOrder`, `NoLostWakeUp`, `NeverAckedTwice` | `GatewayClient`, the turns | `TypeOK`, `OneTurnAtATime`, `SentInOrder`, `NoTurnLeftWaiting`, `AckedOnce` |
| `ClientImplementsTurnQueue` | `GatewayClient` | `ImplementsTurnQueue` |
| `BridgeIsSound`, `QuietAfterStop`, `BridgeImplements` | `GatewayBridge` | `BridgeInv`, `StopIsQuiet`, `BridgeImplementsTurnQueue` |
| `RunShownOncePerSend`, `BridgeShowsOncePerSend` | `GatewayClient`, `GatewayBridge` | `ShownOncePerSend`, of each |
| `DeduperIsBounded` | both | the deduper remembers at most `maxEntries` runs, none twice |
| `DestroyIsFinal`, `StopIsFinal` | `GatewayClient`, `GatewayBridge` | action properties: after `destroy` no attempt, socket, turn or acknowledgement; after `stop` also nothing to the phone |
| `SentIsConversation`, `HermesImplementsTurnQueue` | `HermesBridge` | `TranscriptIsConversation`, `ImplementsTurnQueue` |
| `WhatWasSaidStays` | the same | action property: a step takes away at most the question being asked |
| `TunnelIsSound`, `RetryIsArmed`, `KeysEndWithTunnel`, `QuietAfterDestroy` | `RelaySession` | `TunnelInv`, `NeverWithoutRetry`, `KeysDieWithTunnel`, `DestroyedIsQuiet` |
| `OneRegistrationOneConversation` | the same | before a second registration the tunnel is the session's conversation's, and `RelayedInConversation` holds |
| `DestroyIsFinal` | the same | action property: after `destroy` no timer is armed, no tunnel opens, nothing is relayed |
| `DispatchIsSound`, `TakeoverSurvives` | `SingleClient` | `DispatchInv`, `TakeoverSurvivesOldClose` |
| `LockIsSound`, `ComposeWritesWhole` | `ComposeLock` | `LockInv`, `ComposeIsAtomic` |
| `BackupIsExplained` | the same | a backup that is not whole is half a copy of a run at it or stopped there, took two runs, or is a copy of what another tool has torn |
| `HealsNeverOverlap`, `NoGatewayLeftStale` | `SelfHeal` | `OneHealAtATime`, `StaleGatewayIsHealed` |
| `OneHealIsEnough`, `NoNeedlessRestart` | the same | action properties: what a heal composed needs no second heal; a gateway under current configuration is left alone once no old probe is left |
| `NobodyIsLockedOut`, `NobodyIsForgotten` | `ChatroomStorage` | `RotationKeepsFilesReadable`, `PhonesStayKnown` |

They use the named assumptions of the modules: distinct values for "none",
for a torn file, for run ids and versions, natural bounds, and three that say something of the program.
`TtlCoversWindow` of `ReplayGuard` is `NONCE_TTL_MS >= 2 * SIGNATURE_MAX_AGE_MS`. It is
not enforced by `index.js`; the defaults meet it with equality, and with a shorter
lifetime a request stamped in the future could be relayed twice.
`PairsAreFresh` of `ChatroomStorage` is that `nacl.box.keyPair` never returns
a pair that is in use, of which a room can have three when one is made, and `NoFileIsNoContents` that an empty or mixed file is
not taken for a whole one (it is not JSON).

*Replay guard.* That no request is relayed twice is not inductive: it needs what
the map still knows. `RememberedOrExpired` says that of every request relayed
before, either the nonce is still remembered at a time not earlier than
`timestamp - MaxAge`, or the request has expired for good. Pruning keeps it because a nonce is only forgotten
after `NonceTtl >= 2 * MaxAge`, by when every request accepted with it has expired.
`NoGoodRequestRefused` is the other side, which needs `NonceOnlyFromAccepted`: a
guard that refused everything would keep the other two.

*Gateway client, connection.* `ConnInv` adds to the invariants above that at most one attempt
waits for the port and only while there is no socket (`OneAttempt`), and which
of the timer and the outstanding `connect` an open socket waits on
(`HandshakeState`). `OneSocket` needs the first: an attempt that found a socket
when its wait ended would open a second. There is one lemma for each kind of step.

*Gateway client, turns.* `TurnInv` joins the turn properties with `Numbered` (what is queued or sent has been
enqueued) and a stronger `NoneLeftWaiting` (with the fallback on, no turn waits even without a
connection). Every handler ends in `_drainQueue`, so `DrainKeeps` is proved once,
over any state a caller may hand it, and each handler only shows that its state is
good. The refinement follows the same shape: `TakenUpMaps` maps what
`_drainQueue` does to `Start`, `Finish` or a stutter of `TurnQueue`.

*Reply deduper.* `_sendAgentTurn` resets the deduper, so a run is shown again
when a frame of it comes after the next send (the finding of `gateway_dedup`). `ShownOncePerSend`
says that this is all: the turn sent as number *i* of *n* is shown at
most *n - i + 1* times, and `Window`, its inductive form, at most *n - i* times unless its
key is remembered. A send forgets the keys and makes *n* one larger, which keeps it. An
eviction would not; `NoMoreKeysThanSent` says, by the pigeonhole principle
(`FS_Injection`), that none happens before more than `maxEntries` turns are sent, which is
the property's hypothesis. `RejectedWereSent` is there because a rejected turn is shown by the provider, past the frames.

*After the end.* `DestroyedIsQuiet` and `StopIsQuiet` say what a state looks
like after the end, the action properties that no step leaves it: what
`destroy` and `stop` do not clear (the wait for the port, a closing socket,
orphaned timers, the turn in flight, provider calls) runs into a guard.
For the client this needs `NothingPendingAfterEnd`, that no request is outstanding.

*Gateway bridge.* The proof is built on the client's as the code is on the
client's methods. Until `stop` the invariant of the connection is `ConnInv`
itself: `ActsAsClient` says that the bridge's steps are the client's but for
`GatewayRejects`, the pong timeout and `Stop`, so only these need lemmas of their own.
After `stop` `ConnInv` no longer holds, because pending requests stay; there it is
`StoppedInv`, a closing socket with at most one connect outstanding and no timer.
`Watched` ties the keepalive to the connection. For the turns `StepOfTurns` says that a
step is one of the client's, a late answer after `stop`, or none; `TurnInv` and
`TakenUpMaps` then serve the bridge too.

*Hermes bridge.* That what is sent is a conversation is not inductive: a failed
turn pops the last message, which is its own question only if nothing came in
between. `Conversation` therefore also orders queue, turn in flight and history
(`LineInOrder`, `Past`), in any state a handler may hand to `_drainQueue`, and
`DrainKeeps` is proved once for all of them. The refinement needs from it that
nothing waits while nothing is asked (`NoneWaiting`). `WhatWasSaidStays` is of
steps: the conversation grows at its end, and shrinks by the question in flight only.

*Relay session.* The four properties are one invariant (`RelayInv`): a tunnel is opened
only where there is none, and a tunnel or a timer is made only when another is given
up or a registration asks for it. Two facts are added: `EndOfSession` (a local client that has closed has
destroyed its session; the timer `_reconnectTimer` refers to is armed) and
`Registered` (who may open a tunnel knows its conversation). The finding of
`relay_conversation` is a second registration; `OneRegistrationOneConversation`
says that nothing less will do. Its inductive form adds that there is no tunnel
before the first.

*Single-client mode.* `DispatchInv` is inductive as it stands;
`TakeoverSurvivesOldClose` needs `ClaimIsConnected`, that the session which took
over has a connection of its own and is not one still to come.

*Compose lock.* That the lock at the path belongs to somebody needs to know
who may hold it: `LockIsHeld` says it is a run past the point of acquiring and
before its release, or a dead one, and `EachToItsKind` that a run which waits or
works has a whole body and that only a rollback restores. Stealing, which may
remove the lock of a live run, keeps it.

The backup is the file that every run copies in place. `BackupIsExplained` says
what a rollback may meet there besides a whole file; inductive is that as long as one run
has begun (`Alone`) it copies a file that is whole or was damaged before, and nobody
copies over it, and that nothing is damaged where no other tool writes (`Undamaged`).

*Self-heal.* `HealInv` joins the two invariants and needs no strengthening, but
the second rests on the first: a heal that has probed may end without a restart
only because no other heal has composed meanwhile. `OneHealMoves` and
`HealStepKeeps` say what a stretch of a heal has to keep, one lemma shows it
for each, one deals with everything outside. `OneHealIsEnough` and
`NoNeedlessRestart` are the safety half of `ConfigurationConverges`: what is
reached stays (`Settled`) until a change of a file, a crash or a probe that times out. The first excepts a
later fragment that overrides the mode, under which every heal composes again.

*Key files.* The invariant has two halves. `KeysOK` follows the rotation: what
the relay and the rotation run with while this or that is in `ombot.env`
(`KeysFollow`), the key that each write under way has (`WrittenWith`), and that what a
rotation in the right order has been through is under the new key or just being
written (`Rotated`); without the last, removing the old key would not keep files
readable. It is of rotations in any order, and ends (`order`) where somebody removes
the old key without one. `RoomOK` is of one room: who writes it
(`Alone`), what a write under way and the file have in common with what the
phones know (`Remembered`, `Unwritten`), the pair of the legacy file
(`LegacyPair`), and that the key on top of a file is the default participant's
(`Topped`), without which the rotation, which saves it as that, would change a phone. A
step touches one room at most; `OtherRoom` disposes of the others.

Only model-checked: liveness (`QueueDrains`, `ChallengeTimesOut`,
`SilentTunnelDropped`, `SilentGatewayDropped`, `OutageNoticed`, `StaleLockTaken`,
`ConfigurationConverges`, `GatewayRevived`), since fairness is about `ENABLED`, which is beyond
the prover.

## 5. Not modelled

- Bytes: canonical JSON, signing payloads, box encryption, base64, the SHA of a
  session key. A signature is the key that made it, a session key is its conversation, and what a
  frame decrypts to is what was encrypted.
- Metrics, audit events, log lines and the wording of errors.
- The sliding window of the rate limiter (one array of times per connection,
  filtered and counted in one step), the health endpoints and the exit of
  `gracefulShutdown`.
- The gateway device identity and the error classifier: formatting, and a state
  file of one writer. Torn by a crash it makes a new identity, which the gateway has to pair.
- The merge of single keys and plugin lists (`openclaw-json-merge.mjs`); what a
  merge means to the self-heal is in `SelfHeal`.
- What another tool's in-place write of the effective file puts there when it
  succeeds (`ComposeLock` has the ones cut off; in `SelfHeal` it is `RuntimeWritten`).
- A self-heal without fragments, which is the watchdog's restart only, and the
  stopping of its timers on shutdown.
- A throw inside `handle()` of the gateway bridge, after which the process ends
  and systemd starts it again.
- `saveChatroomPeerKeySync`, which only tests call; `safeFilename` giving two
  rooms one file.
- Provisioning and administration shell scripts: sequential, no protocol.
- A send on an open socket that throws (but for the encryption in
  `HermesBridge`), and a clock that goes back.

## 6. Plan

Done, in this order: `ReplayGuard` and its proofs; `GatewayReply`,
`GatewayClient`, `TurnQueue` and the proofs; `RelaySession`; `SingleClient`;
`ComposeLock`; `HermesBridge`; `GatewayBridge`; `SelfHeal` and its proofs;
`ChatroomStorage`; the proofs of `HermesBridge`, `RelaySession`, `SingleClient`,
`ComposeLock`, `GatewayBridge` and `ChatroomStorage`; the proofs of the
deduper, of what follows `destroy` and `stop`, and the other action properties.

Next, proofs: that `openclaw.json` only changes by the rename of a whole file or
by a rollback; that a key file which is not being written changes its pair only by a
registration that could not read it; which of the single-client mode's steps
may drop a reply.

Then, models of what is left:

1. `RelayServer`: the sliding window of the rate limiter against the definition
   "at most N in any window", connection count, readiness, shutdown and exit.
2. `ConfigMerge`: the deep merge as a function over small trees, against a
   reference definition by paths.
3. `ReplyDeduper`: the eviction of the oldest key beyond `maxEntries`, against a
   set that forgets nothing.
4. `DeviceIdentity`: the state file and the pairing that follows from it.
