----------------------------- MODULE ComposeLock -----------------------------
(***************************************************************************)
(* Concurrent runs of tools/openclaw-compose.mjs: the configuration         *)
(* fragments are merged into the effective openclaw.json under the lock     *)
(* file .compose.lock, and --rollback restores the backup.  A run is one    *)
(* process; each action is one system call it makes, and between any two it *)
(* may be killed.  The id of a killed process may be given to another one,  *)
(* and other tools of the repository write the effective files in place.    *)
(*                                                                         *)
(* The lock is a file and keeps its identity: lock is the run that created  *)
(* the file now at the path, and a pid is written through the descriptor,   *)
(* to the file the run created, wherever that is by then.  A configuration  *)
(* is abstracted to the version of the fragments it was merged from.        *)
(***************************************************************************)
EXTENDS Naturals

CONSTANTS
  Runs,        \* the runs of the tool, one process each
  Rollbacks,   \* those with --rollback
  Unlocked,    \* those with --no-flock or OPENCLAW_COMPOSE_USE_FLOCK=0
  Root,        \* those run by root: the others cannot signal them
  WithEtc,     \* OPENCLAW_CONFIG_PATH is set
  OtherTools,  \* other tools write the effective files (openclaw-repair-route.mjs,
               \* openclaw-validate-runtime-config.mjs, ensure-openclaw-gateway-agent.mjs)
  None,        \* no file
  Torn,        \* a file the tool has written in part, or two runs at once
  Damaged,     \* a file another tool has written in part, and what is copied from it
  MaxVersion   \* model bound: edits of the fragments

ASSUME KindsOfRuns == Rollbacks \subseteq Runs /\ Unlocked \subseteq Runs /\ Root \subseteq Runs
ASSUME FlagsAreBoolean == WithEtc \in BOOLEAN /\ OtherTools \in BOOLEAN
ASSUME MaxVersionIsNat == MaxVersion \in Nat
ASSUME FilesAreDistinct ==
  /\ None # Torn /\ None # Damaged /\ Torn # Damaged
  /\ {None, Torn, Damaged} \cap (Runs \cup Nat) = {} /\ Runs \cap Nat = {}

VARIABLES
  pc,        \* where each run is
  version,   \* of the fragments on disk
  body,      \* per run, what it will write: composed, or read from the backup
  lock,      \* the run that created .compose.lock, or None
  filled,    \* runs that have written their pid into their lock file
  waited,    \* runs that have waited for a holder they saw alive
  stranger,  \* whose process has the id of the killed run in .compose.lock: nobody's
             \* ("none"), a user's or root's
  source,    \* per run, the configuration it is copying to the backup
  runtime,   \* OPENCLAW_RUNTIME_CONFIG_PATH
  etc,       \* OPENCLAW_CONFIG_PATH
  bak        \* runtimePath.bak; a run while that run copies to it

locks == <<lock, filled, waited, stranger>>
files == <<runtime, etc, bak>>
vars == <<pc, version, body, locks, source, files>>

Versions == 0..MaxVersion
Running(p) == pc[p] \notin {"idle", "done", "failed", "locked_out", "dead"}

Goto(p, place) == pc' = [pc EXCEPT ![p] = place]

At(p, from, to) == pc[p] = from /\ Goto(p, to)

Init ==
  /\ pc = [p \in Runs |-> "idle"]
  /\ version = 0
  /\ body = [p \in Runs |-> None]
  /\ lock = None
  /\ filled = {}
  /\ waited = {}
  /\ stranger = "none"
  /\ source = [p \in Runs |-> None]
  /\ runtime \in {0, None} \cup (IF OtherTools THEN {Damaged} ELSE {})
  /\ etc = IF WithEtc THEN runtime ELSE None
  /\ bak = None

(* What a run that has failed or ended held in memory is of no account. *)
Forgets(p) ==
  /\ body' = [body EXCEPT ![p] = None]
  /\ source' = [source EXCEPT ![p] = None]
  /\ waited' = waited \ {p}

(* An administrator or a tool changes the fragments. *)
Edit ==
  /\ version < MaxVersion
  /\ version' = version + 1
  /\ UNCHANGED <<pc, body, locks, source, files>>

(* The effective file is truncated and written in place: a copy of it that is under
   way may have read some of the old and some of the new. *)
WriteInPlace(value) ==
  /\ runtime' = value
  /\ \E S \in SUBSET {p \in Runs : pc[p] = "copying"} :
       source' = [p \in Runs |-> IF p \in S THEN value ELSE source[p]]

(* Another tool begins to write an effective file in place and is killed or fails.
   What it writes when it succeeds is left aside. *)
OtherToolTears ==
  /\ OtherTools
  /\ \/ runtime # None /\ WriteInPlace(Damaged) /\ UNCHANGED etc
     \/ etc # None /\ etc' = Damaged /\ UNCHANGED <<runtime, source>>
  /\ UNCHANGED <<pc, version, body, locks, bak>>

-----------------------------------------------------------------------------
(* main reads and merges the fragments before it takes the lock. *)
Compose(p) ==
  /\ p \notin Rollbacks
  /\ At(p, "idle", IF p \in Unlocked THEN "backup" ELSE "contend")
  /\ body' = [body EXCEPT ![p] = version]
  /\ UNCHANGED <<version, locks, source, files>>

(* ComposeLock.acquire: open with 'wx' ... *)
CreateLock(p) ==
  /\ lock = None
  /\ At(p, "contend", "claimed")
  /\ lock' = p
  /\ waited' = waited \ {p}
  /\ UNCHANGED <<version, body, filled, stranger, source, files>>

(* ... and write the pid. *)
WritePid(p) ==
  /\ At(p, "claimed", "backup")
  /\ filled' = filled \cup {p}
  /\ UNCHANGED <<version, body, lock, waited, stranger, source, files>>

LockExists(p) ==
  /\ lock # None
  /\ At(p, "contend", "judging")
  /\ UNCHANGED <<version, body, locks, source, files>>

(* The lock exists and maxMs has passed: COMPOSE_LOCKED, exit 2. *)
GiveUp(p) ==
  /\ lock # None
  /\ p \in waited
  /\ At(p, "contend", "locked_out")
  /\ Forgets(p)
  /\ UNCHANGED <<version, lock, filled, stranger, files>>

LockOfDead == lock # None /\ pc[lock] = "dead"

(* The process id of a killed run is given to another process, which may end. *)
PidChangesHands ==
  /\ LockOfDead /\ lock \in filled
  /\ stranger' \in {"none", "user", "root"} \ {stranger}
  /\ UNCHANGED <<pc, version, body, lock, filled, waited, source, files>>

(* process.kill(pid, 0) for the pid in the file of run q, which succeeds for any
   process that has it and throws for a process of another user. *)
SeenAlive(p, q) ==
  \/ Running(q) /\ (p \in Root \/ q \notin Root)
  \/ ~Running(q) /\ (stranger = "user" \/ (stranger = "root" /\ p \in Root))

(* Mutant of Stale: an empty lock file counts as held. *)
StaleIfDead(p) == lock = None \/ (lock \in filled /\ ~SeenAlive(p, lock))

(* tryStealStaleLock: the file is gone or empty, or its process is not there. *)
Stale(p) == lock = None \/ lock \notin filled \/ ~SeenAlive(p, lock)

Judge(p) ==
  /\ At(p, "judging", IF Stale(p) THEN "stealing" ELSE "contend")
  /\ waited' = IF Stale(p) THEN waited ELSE waited \cup {p}
  /\ UNCHANGED <<version, body, lock, filled, stranger, source, files>>

(* unlink, of whatever is at the path by now. *)
Steal(p) ==
  /\ At(p, "stealing", "contend")
  /\ lock' = None
  /\ stranger' = "none"
  /\ UNCHANGED <<version, body, filled, waited, source, files>>

-----------------------------------------------------------------------------
(* copyFileSync(runtime, bak) truncates the backup and fills it; a copy another
   run has disturbed may end up mixed. *)
BackupStarts(p) ==
  /\ runtime # None
  /\ At(p, "backup", "copying")
  /\ source' = [source EXCEPT ![p] = runtime]
  /\ bak' = p
  /\ UNCHANGED <<version, body, locks, runtime, etc>>

NothingToBackUp(p) ==
  /\ runtime = None
  /\ At(p, "backup", "publish")
  /\ UNCHANGED <<version, body, locks, source, files>>

BackupEnds(p) ==
  /\ At(p, "copying", "publish")
  /\ bak' \in {source[p]} \cup (IF bak = p THEN {} ELSE {Torn})
  /\ source' = [source EXCEPT ![p] = None]
  /\ UNCHANGED <<version, body, locks, runtime, etc>>

(* Mutant of Publish: the configuration is written in place. *)
PublishInPlace(p) ==
  /\ At(p, "publish", IF WithEtc THEN "publish_etc" ELSE "release")
  /\ runtime' \in {Torn, body[p]}
  /\ UNCHANGED <<version, body, locks, source, etc, bak>>

(* The temporary file, which is the run's own, is renamed. *)
Publish(p) ==
  /\ At(p, "publish", IF WithEtc THEN "publish_etc" ELSE "release")
  /\ runtime' = body[p]
  /\ UNCHANGED <<version, body, locks, source, etc, bak>>

PublishEtc(p) ==
  /\ At(p, "publish_etc", "release")
  /\ etc' = body[p]
  /\ UNCHANGED <<version, body, locks, source, runtime, bak>>

(* A file operation throws (no space, no permission): on to the finally. *)
FileError(p) ==
  /\ pc[p] \in {"backup", "copying", "publish", "publish_etc"}
  /\ Goto(p, "unwind")
  /\ Forgets(p)
  /\ UNCHANGED <<version, lock, filled, stranger, files>>

(* Mutant of Release: only a run that succeeded removes the lock file. *)
ReleaseOnSuccess(p) ==
  /\ At(p, "release", "done") \/ At(p, "unwind", "failed")
  /\ IF p \in Unlocked \/ pc[p] = "unwind" THEN UNCHANGED <<lock, stranger>>
     ELSE lock' = None /\ stranger' = "none"
  /\ UNCHANGED <<version, body, filled, waited, source, files>>

(* finally: release unlinks whatever is at the path. *)
Release(p) ==
  /\ At(p, "release", "done") \/ At(p, "unwind", "failed")
  /\ IF p \in Unlocked THEN UNCHANGED <<lock, stranger>>
     ELSE lock' = None /\ stranger' = "none"
  /\ UNCHANGED <<version, body, filled, waited, source, files>>

-----------------------------------------------------------------------------
(* --rollback takes no lock and writes both files in place. *)
ReadBackup(p) ==
  /\ p \in Rollbacks
  /\ bak # None
  /\ At(p, "idle", "restore")
  /\ body' = [body EXCEPT ![p] = IF bak \in Runs THEN Torn ELSE bak]
  /\ UNCHANGED <<version, locks, source, files>>

RestoreStarts(p) ==
  /\ At(p, "restore", "restoring")
  /\ WriteInPlace(Torn)
  /\ UNCHANGED <<version, body, locks, etc, bak>>

RestoreEnds(p) ==
  /\ At(p, "restoring", IF WithEtc THEN "restore_etc" ELSE "done")
  /\ runtime' = body[p]
  /\ UNCHANGED <<version, body, locks, source, etc, bak>>

RestoreEtcStarts(p) ==
  /\ At(p, "restore_etc", "restoring_etc")
  /\ etc' = Torn
  /\ UNCHANGED <<version, body, locks, source, runtime, bak>>

RestoreEtcEnds(p) ==
  /\ At(p, "restoring_etc", "done")
  /\ etc' = body[p]
  /\ Forgets(p)
  /\ UNCHANGED <<version, lock, filled, stranger, runtime, bak>>

(* A run is killed, or a rollback's write throws. *)
Kill(p) ==
  /\ Running(p)
  /\ Goto(p, "dead")
  /\ Forgets(p)
  /\ UNCHANGED <<version, lock, filled, stranger, files>>

-----------------------------------------------------------------------------
Step(p) ==
  \/ CreateLock(p)
  \/ WritePid(p)
  \/ LockExists(p)
  \/ Judge(p)
  \/ Steal(p)
  \/ BackupStarts(p)
  \/ NothingToBackUp(p)
  \/ BackupEnds(p)
  \/ Publish(p)
  \/ PublishEtc(p)
  \/ Release(p)
  \/ RestoreStarts(p)
  \/ RestoreEnds(p)
  \/ RestoreEtcStarts(p)
  \/ RestoreEtcEnds(p)

Next ==
  \/ Edit
  \/ OtherToolTears
  \/ PidChangesHands
  \/ \E p \in Runs :
       Compose(p) \/ ReadBackup(p) \/ Step(p) \/ GiveUp(p) \/ FileError(p) \/ Kill(p)

Spec == Init /\ [][Next]_vars

(* A process that is not killed is scheduled. *)
FairSpec == Spec /\ \A p \in Runs : WF_vars(Step(p))

-----------------------------------------------------------------------------
Places == {"idle", "contend", "claimed", "judging", "stealing", "backup", "copying",
           "publish", "publish_etc", "release", "unwind", "restore", "restoring",
           "restore_etc", "restoring_etc", "done", "failed", "locked_out", "dead"}

(* Every variable has its type; a stranger's process is one that has the pid in a lock
   file left by a killed run. *)
TypeOK ==
  /\ pc \in [Runs -> Places]
  /\ version \in Versions
  /\ body \in [Runs -> Versions \cup {None, Torn, Damaged}]
  /\ lock \in Runs \cup {None}
  /\ filled \subseteq Runs /\ waited \subseteq Runs
  /\ stranger \in {"none", "user", "root"}
  /\ stranger # "none" => LockOfDead
  /\ source \in [Runs -> Versions \cup {None, Torn, Damaged}]
  /\ runtime \in Versions \cup {None, Torn, Damaged}
  /\ etc \in Versions \cup {None, Torn, Damaged}
  /\ bak \in Versions \cup {None, Torn, Damaged} \cup Runs

RollbackWrites == \E p \in Rollbacks : pc[p] \notin {"idle", "restore"}

(* OMBOT-ADMIN-CLI.md, "atomic write": however runs overlap and wherever they are
   killed, a compose never leaves half an effective configuration; only a rollback
   that was under way, or one from a bad backup, can, and another tool (Damaged). *)
ComposeIsAtomic == runtime = Torn \/ etc = Torn => RollbackWrites

(* Lock files are removed: one that is there belongs to a run that is still going
   or was killed. *)
NoLockLeft == lock # None => Running(lock) \/ pc[lock] = "dead"

(* The lock's bookkeeping is sound. *)
LockInv == TypeOK /\ NoLockLeft

(* A lock left by a killed run, even before it wrote its pid, holds up nobody who
   comes to it afterwards: a run that has not spent its time waiting for a live holder
   is never locked out by it and finds it removed, by itself or another, unless a
   process gets the killed run's pid (ComposeLock.tryStealStaleLock). *)
StaleLockTaken ==
  \A p \in Runs \ Rollbacks :
    LockOfDead /\ stranger = "none" /\ pc[p] = "contend" /\ p \notin waited
      ~> ~LockOfDead \/ stranger # "none" \/ pc[p] = "dead"

AllEnded == \A p \in Runs : pc[p] \in {"idle", "done", "locked_out"}

(* The tool's header: the fragments are composed into the effective file.  A run
   that started after the last edit has ended well, and so have all others: its
   result is in force. *)
NoLostEdit ==
  AllEnded /\ (\E p \in Runs : pc[p] = "done" /\ body[p] = version) => runtime = version
=============================================================================
