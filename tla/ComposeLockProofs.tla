-------------------------- MODULE ComposeLockProofs ---------------------------
(***************************************************************************)
(* The safety of concurrent runs of openclaw-compose for any number of runs *)
(* of every kind, wherever they are killed.                                 *)
(***************************************************************************)
EXTENDS ComposeLock, TLAPS

Waiting == {"contend", "judging", "stealing"}
Working == {"claimed", "backup", "copying", "publish", "publish_etc", "release", "unwind"}
Restoring == {"restore", "restoring", "restore_etc", "restoring_etc"}

(* A run whose lock file is at the path is past acquire, and has not released it. *)
LockIsHeld == lock # None => lock \notin Unlocked /\ pc[lock] \in Working \cup {"dead"}

(* What a run composed is whole, the unlocked ones do not wait for a lock, and only a
   rollback restores. *)
EachToItsKind ==
  \A p \in Runs :
    /\ pc[p] \in Waiting \cup (Working \ {"unwind"}) => body[p] \in Versions
    /\ pc[p] \in Waiting => p \notin Unlocked
    /\ pc[p] \in Restoring => p \in Rollbacks

ToolInv == LockInv /\ ComposeIsAtomic /\ LockIsHeld /\ EachToItsKind

-----------------------------------------------------------------------------
LEMMA InitTool == Init => ToolInv
  BY FilesAreDistinct, MaxVersionIsNat, FlagsAreBoolean
     DEF Init, ToolInv, LockInv, TypeOK, NoLockLeft, ComposeIsAtomic, LockOfDead, RollbackWrites, LockIsHeld,
         EachToItsKind, Places, Versions, Waiting, Working, Restoring

(* A version is neither a torn file nor none, nor is a run. *)
LEMMA VersionsAreWhole ==
  Versions \subseteq Nat /\ {None, Torn, Damaged} \cap (Versions \cup Runs) = {}
  BY FilesAreDistinct, MaxVersionIsNat DEF Versions

(* An edit changes what later runs compose. *)
LEMMA EditKeeps ==
  ASSUME ToolInv, Edit
  PROVE  ToolInv'
  <1>1. TypeOK'
    BY MaxVersionIsNat DEF LockOfDead, Forgets, ToolInv, TypeOK, Edit, LockInv, Versions, files, locks
  <1>2. NoLockLeft'
    BY DEF ToolInv, NoLockLeft, Edit, LockInv, Running, locks
  <1>3. ComposeIsAtomic'
    BY DEF ToolInv, ComposeIsAtomic, RollbackWrites, Edit, files
  <1>4. LockIsHeld'
    BY DEF ToolInv, LockIsHeld, Edit, locks
  <1>5. EachToItsKind'
    BY DEF Forgets, ToolInv, EachToItsKind, Edit
  <1> QED BY <1>1, <1>2, <1>3, <1>4, <1>5 DEF ToolInv, LockInv

(* A run composes, then waits for the lock unless it is unlocked. *)
LEMMA ComposeKeeps ==
  ASSUME ToolInv, NEW p \in Runs, Compose(p)
  PROVE  ToolInv'
  <1>1. TypeOK'
    BY DEF LockOfDead, Forgets, ToolInv, TypeOK, At, Compose, Goto, LockInv, Places, files, locks
  <1>2. NoLockLeft'
    BY DEF ToolInv, NoLockLeft, At, Compose, Goto, LockInv, Running, locks
  <1>3. ComposeIsAtomic'
    BY DEF ToolInv, ComposeIsAtomic, RollbackWrites, At, Compose, Goto, files
  <1>4. LockIsHeld'
    BY DEF ToolInv, LockIsHeld, At, Compose, Goto, Working, locks
  <1>5. EachToItsKind'
    BY DEF Forgets, ToolInv, TypeOK, EachToItsKind, At, Compose, Goto, LockInv, Restoring,
       Waiting
  <1> QED BY <1>1, <1>2, <1>3, <1>4, <1>5 DEF ToolInv, LockInv

(* Only a run that waits creates the file. *)
LEMMA CreateLockKeeps ==
  ASSUME ToolInv, NEW p \in Runs, CreateLock(p)
  PROVE  ToolInv'
  <1>1. TypeOK'
    BY DEF LockOfDead, Forgets, ToolInv, TypeOK, At, CreateLock, Goto, LockInv, Places, files
  <1>2. NoLockLeft'
    BY DEF ToolInv, NoLockLeft, At, CreateLock, Goto, Running
  <1>3. ComposeIsAtomic'
    BY DEF ToolInv, ComposeIsAtomic, RollbackWrites, At, CreateLock, Goto, files
  <1>4. LockIsHeld'
    BY DEF ToolInv, TypeOK, LockIsHeld, EachToItsKind, At, CreateLock, Goto, LockInv,
       Waiting, Working
  <1>5. EachToItsKind'
    BY DEF Forgets, ToolInv, EachToItsKind, At, CreateLock, Goto, Restoring, Waiting
  <1> QED BY <1>1, <1>2, <1>3, <1>4, <1>5 DEF ToolInv, LockInv

(* Another tool, and another process that gets a killed run's pid. *)
LEMMA OthersKeep ==
  ASSUME ToolInv, OtherToolTears \/ PidChangesHands
  PROVE  ToolInv'
  <1>1. TypeOK'
    <2>1. UNCHANGED <<pc, lock, filled, waited, version, body, bak>>
      BY DEF OtherToolTears, PidChangesHands, locks, files
    <2>2. /\ runtime' \in {runtime, Damaged} /\ etc' \in {etc, Damaged}
          /\ source' \in [Runs -> Versions \cup {None, Torn, Damaged}]
      BY DEF OtherToolTears, PidChangesHands, WriteInPlace, files, ToolInv, LockInv, TypeOK
    <2>3. /\ stranger' \in {"none", "user", "root"}
          /\ stranger' # "none" => LockOfDead
      BY DEF OtherToolTears, PidChangesHands, locks, ToolInv, LockInv, TypeOK
    <2> QED BY <2>1, <2>2, <2>3 DEF ToolInv, LockInv, TypeOK, LockOfDead
  <1>2. UNCHANGED <<pc, lock, body>>
    BY DEF OtherToolTears, PidChangesHands, locks
  <1>3. ComposeIsAtomic'
    BY <1>2, FilesAreDistinct DEF ToolInv, ComposeIsAtomic, RollbackWrites, OtherToolTears,
       PidChangesHands, WriteInPlace, files
  <1> QED BY <1>1, <1>2, <1>3 DEF ToolInv, LockInv, NoLockLeft, Running, LockIsHeld,
             EachToItsKind

LEMMA WritePidKeeps ==
  ASSUME ToolInv, NEW p \in Runs, WritePid(p)
  PROVE  ToolInv'
  <1>1. TypeOK'
    BY DEF LockOfDead, Forgets, ToolInv, TypeOK, At, Goto, LockInv, Places, WritePid, files
  <1>2. NoLockLeft'
    BY DEF ToolInv, NoLockLeft, At, Goto, LockInv, Running, WritePid
  <1>3. ComposeIsAtomic'
    BY DEF ToolInv, ComposeIsAtomic, RollbackWrites, At, Goto, WritePid, files
  <1>4. LockIsHeld'
    BY DEF ToolInv, LockIsHeld, At, Goto, Working, WritePid
  <1>5. EachToItsKind'
    BY DEF Forgets, ToolInv, EachToItsKind, At, Goto, Restoring, Waiting, Working, WritePid
  <1> QED BY <1>1, <1>2, <1>3, <1>4, <1>5 DEF ToolInv, LockInv

(* A run that finds the file does not own it. *)
LEMMA LockExistsKeeps ==
  ASSUME ToolInv, NEW p \in Runs, LockExists(p) \/ GiveUp(p)
  PROVE  ToolInv'
  <1>1. TypeOK'
    BY DEF LockOfDead, Forgets, ToolInv, TypeOK, At, GiveUp, Goto, LockExists, LockInv, Places, files,
       locks
  <1>2. NoLockLeft'
    BY DEF ToolInv, TypeOK, NoLockLeft, LockIsHeld, At, GiveUp, Goto, LockExists,
       LockInv, Running, Working, locks
  <1>3. ComposeIsAtomic'
    BY KindsOfRuns DEF ToolInv, TypeOK, ComposeIsAtomic, RollbackWrites, At, GiveUp, Goto, LockExists,
       LockInv, files
  <1>4. LockIsHeld'
    BY DEF ToolInv, TypeOK, LockIsHeld, At, GiveUp, Goto, LockExists, LockInv,
       Working, locks
  <1>5. EachToItsKind'
    <2>1. \A q \in Runs : q # p => pc'[q] = pc[q] /\ body'[q] = body[q]
      BY DEF Forgets, ToolInv, TypeOK, At, GiveUp, Goto, LockExists, LockInv
    <2>2. CASE LockExists(p)
      BY <2>1, <2>2 DEF ToolInv, TypeOK, EachToItsKind, At, Goto, LockExists, LockInv,
         Restoring, Waiting
    <2>3. CASE GiveUp(p)
      <3>1. pc'[p] = "locked_out"
        BY <2>3 DEF ToolInv, TypeOK, At, GiveUp, Goto, LockInv
      <3> QED BY <2>1, <3>1 DEF ToolInv, EachToItsKind, Restoring, Waiting, Working
    <2> QED BY <2>2, <2>3
  <1> QED BY <1>1, <1>2, <1>3, <1>4, <1>5 DEF ToolInv, LockInv

LEMMA JudgeKeeps ==
  ASSUME ToolInv, NEW p \in Runs, Judge(p)
  PROVE  ToolInv'
  <1>1. TypeOK'
    BY DEF LockOfDead, Forgets, ToolInv, TypeOK, At, Goto, Judge, LockInv, Places, files
  <1>2. NoLockLeft'
    BY DEF ToolInv, NoLockLeft, At, Goto, Judge, LockInv, Running
  <1>3. ComposeIsAtomic'
    BY DEF ToolInv, ComposeIsAtomic, RollbackWrites, At, Goto, Judge, files
  <1>4. LockIsHeld'
    BY DEF ToolInv, LockIsHeld, At, Goto, Judge, Working
  <1>5. EachToItsKind'
    BY DEF Forgets, ToolInv, EachToItsKind, At, Goto, Judge, Restoring, Waiting
  <1> QED BY <1>1, <1>2, <1>3, <1>4, <1>5 DEF ToolInv, LockInv

(* unlink may take the file of a run that is going; what is at the path then is none. *)
LEMMA StealKeeps ==
  ASSUME ToolInv, NEW p \in Runs, Steal(p)
  PROVE  ToolInv'
  <1>1. TypeOK'
    BY DEF LockOfDead, Forgets, ToolInv, TypeOK, At, Goto, LockInv, Places, Steal, files
  <1>2. NoLockLeft'
    BY DEF ToolInv, NoLockLeft, Steal
  <1>3. ComposeIsAtomic'
    BY DEF ToolInv, ComposeIsAtomic, RollbackWrites, At, Goto, Steal, files
  <1>4. LockIsHeld'
    BY DEF ToolInv, LockIsHeld, Steal
  <1>5. EachToItsKind'
    BY DEF Forgets, ToolInv, EachToItsKind, At, Goto, Restoring, Steal, Waiting
  <1> QED BY <1>1, <1>2, <1>3, <1>4, <1>5 DEF ToolInv, LockInv

(* The backup does not touch the configuration. *)
LEMMA BackupKeeps ==
  ASSUME ToolInv, NEW p \in Runs, BackupStarts(p)
  PROVE  ToolInv'
  <1>1. TypeOK'
    BY DEF LockOfDead, Forgets, ToolInv, TypeOK, At, BackupStarts, Goto, LockInv, Places, locks
  <1>2. NoLockLeft'
    BY DEF ToolInv, NoLockLeft, At, BackupStarts, Goto, LockInv, Running, locks
  <1>3. ComposeIsAtomic'
    BY DEF ToolInv, ComposeIsAtomic, RollbackWrites, At, BackupStarts, Goto
  <1>4. LockIsHeld'
    BY DEF ToolInv, LockIsHeld, At, BackupStarts, Goto, Working, locks
  <1>5. EachToItsKind'
    BY DEF Forgets, ToolInv, EachToItsKind, At, BackupStarts, Goto, Restoring, Waiting, Working
  <1> QED BY <1>1, <1>2, <1>3, <1>4, <1>5 DEF ToolInv, LockInv

LEMMA BackupEndsKeeps ==
  ASSUME ToolInv, NEW p \in Runs, NothingToBackUp(p) \/ BackupEnds(p)
  PROVE  ToolInv'
  <1>1. TypeOK'
    BY DEF LockOfDead, Forgets, ToolInv, TypeOK, At, BackupEnds, Goto, LockInv, NothingToBackUp, Places,
       files, locks
  <1>2. NoLockLeft'
    BY DEF ToolInv, TypeOK, NoLockLeft, At, BackupEnds, Goto, LockInv,
       NothingToBackUp, Running, locks
  <1>3. ComposeIsAtomic'
    BY KindsOfRuns DEF ToolInv, TypeOK, ComposeIsAtomic, RollbackWrites, At, BackupEnds, Goto,
       LockInv, NothingToBackUp, files
  <1>4. LockIsHeld'
    BY DEF ToolInv, TypeOK, LockIsHeld, At, BackupEnds, Goto, LockInv,
       NothingToBackUp, Working, locks
  <1>5. EachToItsKind'
    BY DEF Forgets, ToolInv, TypeOK, EachToItsKind, At, BackupEnds, Goto, LockInv,
       NothingToBackUp, Restoring, Waiting, Working
  <1> QED BY <1>1, <1>2, <1>3, <1>4, <1>5 DEF ToolInv, LockInv

(* What is renamed into place is whole. *)
LEMMA PublishKeeps ==
  ASSUME ToolInv, NEW p \in Runs, Publish(p) \/ PublishEtc(p)
  PROVE  ToolInv'
  <1>1. TypeOK'
    BY DEF LockOfDead, Forgets, ToolInv, TypeOK, At, Goto, LockInv, Places, Publish, PublishEtc, locks
  <1>2. NoLockLeft'
    BY DEF ToolInv, TypeOK, NoLockLeft, At, Goto, LockInv, Publish, PublishEtc,
       Running, locks
  <1>3. ComposeIsAtomic'
    BY KindsOfRuns, VersionsAreWhole DEF ToolInv, TypeOK, ComposeIsAtomic,
       RollbackWrites, EachToItsKind, At, Goto, LockInv, Publish, PublishEtc, Working
  <1>4. LockIsHeld'
    BY DEF ToolInv, TypeOK, LockIsHeld, At, Goto, LockInv, Publish, PublishEtc,
       Working, locks
  <1>5. EachToItsKind'
    BY DEF Forgets, ToolInv, TypeOK, EachToItsKind, At, Goto, LockInv, Publish, PublishEtc,
       Restoring, Waiting, Working
  <1> QED BY <1>1, <1>2, <1>3, <1>4, <1>5 DEF ToolInv, LockInv

(* An error or a kill changes no file. *)
LEMMA FileErrorKeeps ==
  ASSUME ToolInv, NEW p \in Runs, FileError(p) \/ Kill(p)
  PROVE  ToolInv'
  <1>1. TypeOK'
    BY DEF LockOfDead, Forgets, ToolInv, TypeOK, FileError, Goto, Kill, LockInv, Places, files, locks
  <1>2. NoLockLeft'
    BY DEF ToolInv, TypeOK, NoLockLeft, FileError, Goto, Kill, LockInv, Running, locks
  <1>3. ComposeIsAtomic'
    BY KindsOfRuns DEF ToolInv, TypeOK, ComposeIsAtomic, RollbackWrites, FileError, Goto, Kill,
       LockInv, files
  <1>4. LockIsHeld'
    BY DEF ToolInv, TypeOK, LockIsHeld, FileError, Goto, Kill, LockInv, Working, locks
  <1>5. EachToItsKind'
    BY DEF Forgets, ToolInv, TypeOK, EachToItsKind, FileError, Goto, Kill, LockInv, Restoring,
       Waiting, Working
  <1> QED BY <1>1, <1>2, <1>3, <1>4, <1>5 DEF ToolInv, LockInv

(* Whatever file is at the path is gone before the run is. *)
LEMMA ReleaseKeeps ==
  ASSUME ToolInv, NEW p \in Runs, Release(p)
  PROVE  ToolInv'
  <1>1. TypeOK'
    BY DEF LockOfDead, Forgets, ToolInv, TypeOK, At, Goto, LockInv, Places, Release, files
  <1>2. NoLockLeft'
    BY DEF ToolInv, TypeOK, NoLockLeft, LockIsHeld, At, Goto, LockInv, Release,
       Running
  <1>3. ComposeIsAtomic'
    BY KindsOfRuns DEF ToolInv, TypeOK, ComposeIsAtomic, RollbackWrites, At, Goto, LockInv, Release,
       files
  <1>4. LockIsHeld'
    BY DEF ToolInv, TypeOK, LockIsHeld, At, Goto, LockInv, Release
  <1>5. EachToItsKind'
    BY DEF Forgets, ToolInv, TypeOK, EachToItsKind, At, Goto, LockInv, Release, Restoring,
       Waiting, Working
  <1> QED BY <1>1, <1>2, <1>3, <1>4, <1>5 DEF ToolInv, LockInv

(* A rollback takes the backup as it finds it. *)
LEMMA ReadBackupKeeps ==
  ASSUME ToolInv, NEW p \in Runs, ReadBackup(p)
  PROVE  ToolInv'
  <1>1. TypeOK'
    BY DEF LockOfDead, Forgets, ToolInv, TypeOK, At, Goto, LockInv, Places, ReadBackup, files, locks
  <1>2. NoLockLeft'
    BY DEF ToolInv, NoLockLeft, At, Goto, LockInv, ReadBackup, Running, locks
  <1>3. ComposeIsAtomic'
    BY DEF ToolInv, ComposeIsAtomic, RollbackWrites, At, Goto, ReadBackup, files
  <1>4. LockIsHeld'
    BY DEF ToolInv, LockIsHeld, At, Goto, ReadBackup, Working, locks
  <1>5. EachToItsKind'
    BY DEF Forgets, ToolInv, EachToItsKind, At, Goto, ReadBackup, Waiting, Working
  <1> QED BY <1>1, <1>2, <1>3, <1>4, <1>5 DEF ToolInv, LockInv

(* A torn configuration belongs to a rollback that has begun to write. *)
LEMMA RestoreKeeps ==
  ASSUME ToolInv, NEW p \in Runs, RestoreStarts(p) \/ RestoreEnds(p)
  PROVE  ToolInv'
  <1>1. TypeOK'
    <2>1. source' \in [Runs -> Versions \cup {None, Torn, Damaged}]
      BY DEF RestoreStarts, RestoreEnds, WriteInPlace, ToolInv, LockInv, TypeOK
    <2>2. /\ runtime' \in Versions \cup {None, Torn, Damaged}
          /\ UNCHANGED <<version, body, lock, filled, waited, stranger, etc, bak>>
      BY DEF RestoreStarts, RestoreEnds, WriteInPlace, ToolInv, LockInv, TypeOK, locks
    <2>3. /\ pc' \in [Runs -> Places]
          /\ \A q \in Runs : pc[q] = "dead" => pc'[q] = "dead"
      BY DEF RestoreStarts, RestoreEnds, At, Goto, ToolInv, LockInv, TypeOK, Places
    <2> QED BY <2>1, <2>2, <2>3 DEF ToolInv, LockInv, TypeOK, LockOfDead
  <1>2. NoLockLeft'
    BY DEF ToolInv, TypeOK, NoLockLeft, LockIsHeld, At, Goto, LockInv, RestoreEnds,
       RestoreStarts, Running, Working, locks
  <1>3. ComposeIsAtomic'
    BY DEF ToolInv, TypeOK, ComposeIsAtomic, RollbackWrites, EachToItsKind, At, Goto, LockInv,
       RestoreEnds, RestoreStarts, Restoring
  <1>4. LockIsHeld'
    BY DEF ToolInv, TypeOK, LockIsHeld, At, Goto, LockInv, RestoreEnds, RestoreStarts,
       Working, locks
  <1>5. EachToItsKind'
    BY DEF Forgets, ToolInv, TypeOK, EachToItsKind, At, Goto, LockInv, RestoreEnds,
       RestoreStarts, Restoring, Waiting, Working
  <1> QED BY <1>1, <1>2, <1>3, <1>4, <1>5 DEF ToolInv, LockInv

LEMMA RestoreEtcKeeps ==
  ASSUME ToolInv, NEW p \in Runs, RestoreEtcStarts(p) \/ RestoreEtcEnds(p)
  PROVE  ToolInv'
  <1>1. TypeOK'
    BY DEF LockOfDead, Forgets, ToolInv, TypeOK, At, Goto, LockInv, Places, RestoreEtcEnds,
       RestoreEtcStarts, locks
  <1>2. NoLockLeft'
    BY DEF ToolInv, TypeOK, NoLockLeft, LockIsHeld, At, Goto, LockInv, RestoreEtcEnds,
       RestoreEtcStarts, Running, Working, locks
  <1>3. ComposeIsAtomic'
    BY DEF ToolInv, TypeOK, ComposeIsAtomic, RollbackWrites, EachToItsKind, At, Goto, LockInv,
       RestoreEtcEnds, RestoreEtcStarts, Restoring
  <1>4. LockIsHeld'
    BY DEF ToolInv, TypeOK, LockIsHeld, At, Goto, LockInv, RestoreEtcEnds,
       RestoreEtcStarts, Working, locks
  <1>5. EachToItsKind'
    BY DEF Forgets, ToolInv, TypeOK, EachToItsKind, At, Goto, LockInv, RestoreEtcEnds,
       RestoreEtcStarts, Restoring, Waiting, Working
  <1> QED BY <1>1, <1>2, <1>3, <1>4, <1>5 DEF ToolInv, LockInv

LEMMA NextTool == ToolInv /\ [Next]_vars => ToolInv'
  <1> SUFFICES ASSUME ToolInv, [Next]_vars PROVE ToolInv'
    OBVIOUS
  <1>1. CASE UNCHANGED vars
    BY <1>1 DEF vars, locks, files, ToolInv, LockInv, TypeOK, NoLockLeft, Running,
       ComposeIsAtomic, RollbackWrites, LockOfDead, LockIsHeld, EachToItsKind
  <1>2. ASSUME NEW p \in Runs, Step(p) PROVE ToolInv'
    BY <1>2, CreateLockKeeps, WritePidKeeps, LockExistsKeeps, JudgeKeeps, StealKeeps,
       BackupKeeps, BackupEndsKeeps, PublishKeeps, ReleaseKeeps, RestoreKeeps,
       RestoreEtcKeeps DEF Step
  <1> QED BY <1>1, <1>2, EditKeeps, OthersKeep, ComposeKeeps, ReadBackupKeeps, LockExistsKeeps,
             FileErrorKeeps DEF Next

(* The lock file and the files of the configuration are sound in every reachable
   state. *)
THEOREM ToolInvariant == Spec => []ToolInv
  BY InitTool, NextTool, PTL DEF Spec

(* ComposeLock: a lock file at the path belongs to a run that is still going or was
   killed, however the steals of others come between. *)
THEOREM LockIsSound == Spec => []LockInv
  <1>1. ToolInv => LockInv
    BY DEF ToolInv
  <1> QED BY <1>1, ToolInvariant, PTL

(* OMBOT-ADMIN-CLI.md, "atomic write": whatever runs overlap and wherever they are
   killed, a compose never leaves half an effective configuration. *)
THEOREM ComposeWritesWhole == Spec => []ComposeIsAtomic
  <1>1. ToolInv => ComposeIsAtomic
    BY DEF ToolInv
  <1> QED BY <1>1, ToolInvariant, PTL

-----------------------------------------------------------------------------
(* The backup, which is the one file written in place by every run. *)

Begun(p) == pc[p] # "idle"

(* What --rollback may find that is not a whole configuration: half a copy, of a run
   that is at it or that was killed or failed there; a mixture, which takes two runs;
   and a copy of what another tool of the repository had damaged, where there is one. *)
BackupAccountedFor ==
  /\ bak \in Runs => pc[bak] \in {"copying", "unwind", "failed", "dead"}
  /\ bak = Torn => \E p, q \in Runs : p # q /\ Begun(p) /\ Begun(q)
  /\ bak = Damaged => OtherTools

(* The inductive form: a run that is the only one so far copies what it found whole or
   damaged, nobody copies over it, and without the other tools nothing is damaged. *)
Alone == \A p, q \in Runs : Begun(p) /\ Begun(q) => p = q

Undamaged ==
  ~OtherTools => /\ runtime # Damaged /\ etc # Damaged /\ bak # Damaged
                 /\ \A p \in Runs : body[p] # Damaged /\ source[p] # Damaged

BackupInv ==
  /\ bak \in Runs => pc[bak] \in {"copying", "unwind", "failed", "dead"}
  /\ Alone => /\ bak # Torn
              /\ \A p \in Runs : pc[p] = "copying" => bak = p /\ source[p] # Torn
  /\ \A p \in Rollbacks : pc[p] \in Restoring \cup {"idle", "done", "dead"}

LEMMA InitBackup == Init => BackupInv /\ Undamaged
  BY KindsOfRuns, FilesAreDistinct, FlagsAreBoolean DEF Init, BackupInv, Undamaged

(* What a step writes to a file it read from one or composed. *)
LEMMA NextUndamaged == ToolInv /\ Undamaged /\ [Next]_vars => Undamaged'
  <1> SUFFICES ASSUME ToolInv, Undamaged, [Next]_vars, ~OtherTools
               PROVE  Undamaged'
    BY DEF Undamaged
  <1>1. /\ runtime # Damaged /\ etc # Damaged /\ bak # Damaged
        /\ \A p \in Runs : body[p] # Damaged /\ source[p] # Damaged
        /\ version # Damaged /\ None # Damaged /\ Torn # Damaged
        /\ \A p \in Runs : p # Damaged
        /\ body \in [Runs -> Versions \cup {None, Torn, Damaged}]
        /\ source \in [Runs -> Versions \cup {None, Torn, Damaged}]
    BY VersionsAreWhole, FilesAreDistinct DEF Undamaged, ToolInv, LockInv, TypeOK
  <1> DEFINE Sound == /\ runtime' # Damaged /\ etc' # Damaged /\ bak' # Damaged
                      /\ \A q \in Runs : body'[q] # Damaged /\ source'[q] # Damaged
  <1> SUFFICES Sound
    BY DEF Undamaged
  <1>2. CASE Edit \/ OtherToolTears \/ PidChangesHands \/ UNCHANGED vars
    BY <1>1, <1>2 DEF Edit, OtherToolTears, PidChangesHands, vars, files
  <1>3. ASSUME NEW p \in Runs,
               \/ Compose(p) \/ ReadBackup(p) \/ GiveUp(p) \/ FileError(p) \/ Kill(p)
        PROVE  Sound
    BY <1>1, <1>3 DEF Compose, ReadBackup, GiveUp, FileError, Kill, Forgets, files
  <1>4. ASSUME NEW p \in Runs,
               \/ CreateLock(p) \/ WritePid(p) \/ LockExists(p) \/ Judge(p) \/ Steal(p)
               \/ NothingToBackUp(p) \/ Release(p) \/ Publish(p) \/ PublishEtc(p)
        PROVE  Sound
    BY <1>1, <1>4 DEF CreateLock, WritePid, LockExists, Judge, Steal, NothingToBackUp,
       Release, Publish, PublishEtc, files
  <1>5. ASSUME NEW p \in Runs,
               \/ BackupStarts(p) \/ BackupEnds(p) \/ RestoreStarts(p) \/ RestoreEnds(p)
               \/ RestoreEtcStarts(p) \/ RestoreEtcEnds(p)
        PROVE  Sound
    BY <1>1, <1>5 DEF BackupStarts, BackupEnds, RestoreStarts, RestoreEnds, RestoreEtcStarts,
       RestoreEtcEnds, WriteInPlace, Forgets
  <1> QED BY <1>2, <1>3, <1>4, <1>5 DEF Next, Step

(* A run does not begin twice. *)
LEMMA BegunStays ==
  ASSUME ToolInv, [Next]_vars
  PROVE  \A p \in Runs : Begun(p) => Begun(p)'
  <1>1. pc \in [Runs -> Places]
    BY DEF ToolInv, LockInv, TypeOK
  <1>2. ASSUME NEW p \in Runs, NEW to, Goto(p, to), to # "idle", NEW q \in Runs, Begun(q)
        PROVE  Begun(q)'
    BY <1>1, <1>2 DEF Goto, Begun
  <1>3. CASE Edit \/ OtherToolTears \/ PidChangesHands \/ UNCHANGED vars
    BY <1>3 DEF Edit, OtherToolTears, PidChangesHands, vars, Begun
  <1>4. ASSUME NEW p \in Runs, Compose(p) \/ ReadBackup(p) \/ GiveUp(p) \/ FileError(p) \/ Kill(p)
        PROVE  \E to \in Places : to # "idle" /\ Goto(p, to)
    BY <1>4 DEF Compose, ReadBackup, GiveUp, FileError, Kill, At, Places
  <1>5. ASSUME NEW p \in Runs, Step(p)
        PROVE  \E to \in Places : to # "idle" /\ Goto(p, to)
    BY <1>5 DEF Step, CreateLock, WritePid, LockExists, Judge, Steal, BackupStarts,
       NothingToBackUp, BackupEnds, Publish, PublishEtc, Release, RestoreStarts, RestoreEnds,
       RestoreEtcStarts, RestoreEtcEnds, At, Places
  <1> QED BY <1>2, <1>3, <1>4, <1>5 DEF Next

(* Steps that leave the backup alone and start no copy, and tear a copy that is under
   way only when they are not of the run that makes it. *)
LEMMA BackupLeftAlone ==
  ASSUME ToolInv, BackupInv, UNCHANGED bak,
         \A p \in Runs : Begun(p) => Begun(p)',
         \A p \in Runs : pc'[p] = "copying" => pc[p] = "copying",
         \A p \in Runs : pc'[p] = "copying" /\ source'[p] = Torn => source[p] = Torn \/ ~Alone',
         \A p \in Runs : pc[p] \in {"copying", "unwind", "failed", "dead"}
                           => pc'[p] \in {"copying", "unwind", "failed", "dead"},
         \A p \in Rollbacks : pc'[p] \in Restoring \cup {"idle", "done", "dead"}
  PROVE  BackupInv'
  <1>1. Alone' => Alone
    BY DEF Alone
  <1> QED BY <1>1 DEF BackupInv

LEMMA NextBackup == ToolInv /\ BackupInv /\ [Next]_vars => BackupInv'
  <1> SUFFICES ASSUME ToolInv, BackupInv, [Next]_vars PROVE BackupInv'
    OBVIOUS
  <1>1. /\ pc \in [Runs -> Places] /\ source \in [Runs -> Versions \cup {None, Torn, Damaged}]
        /\ Rollbacks \subseteq Runs
        /\ \A p \in Rollbacks : pc[p] \in Restoring \cup {"idle", "done", "dead"}
    BY KindsOfRuns DEF ToolInv, LockInv, TypeOK, BackupInv
  <1>2. \A p \in Runs : Begun(p) => Begun(p)'
    BY BegunStays
  <1>3. CASE Edit \/ OtherToolTears \/ PidChangesHands \/ UNCHANGED vars
    <2>1. UNCHANGED <<pc, bak>>
      BY <1>3 DEF Edit, OtherToolTears, PidChangesHands, vars, files
    <2>2. \A p \in Runs : source'[p] = source[p] \/ source'[p] = Damaged
      BY <1>1, <1>3 DEF Edit, OtherToolTears, PidChangesHands, WriteInPlace, vars
    <2> QED BY <1>1, <1>2, <2>1, <2>2, BackupLeftAlone, FilesAreDistinct
  <1>4. ASSUME NEW p \in Runs,
               \/ Compose(p) \/ CreateLock(p) \/ WritePid(p) \/ LockExists(p) \/ GiveUp(p)
               \/ Judge(p) \/ Steal(p) \/ NothingToBackUp(p) \/ Publish(p) \/ PublishEtc(p)
               \/ Release(p)
        PROVE  BackupInv'
    <2>1. UNCHANGED bak /\ p \notin Rollbacks
      BY <1>1, <1>4 DEF Compose, CreateLock, WritePid, LockExists, GiveUp, Judge, Steal,
         NothingToBackUp, Publish, PublishEtc, Release, At, files, Restoring
    <2>2. PICK to \in Places : /\ Goto(p, to) /\ to # "copying"
                               /\ pc[p] \notin {"copying", "failed", "dead"}
                               /\ pc[p] = "unwind" => to = "failed"
      BY <1>1, <1>4 DEF Compose, CreateLock, WritePid, LockExists, GiveUp, Judge, Steal,
         NothingToBackUp, Publish, PublishEtc, Release, At, Places
    <2>3. \A q \in Runs : pc'[q] = IF q = p THEN to ELSE pc[q]
      BY <1>1, <2>2 DEF Goto
    <2>4. \A q \in Runs : q # p => source'[q] = source[q]
      BY <1>1, <1>4 DEF Compose, CreateLock, WritePid, LockExists, GiveUp, Judge, Steal,
         NothingToBackUp, Publish, PublishEtc, Release, Forgets
    <2> QED BY <1>1, <1>2, <2>1, <2>2, <2>3, <2>4, BackupLeftAlone
  <1>5. ASSUME NEW p \in Runs,
               \/ ReadBackup(p) \/ RestoreStarts(p) \/ RestoreEnds(p) \/ RestoreEtcStarts(p)
               \/ RestoreEtcEnds(p)
        PROVE  BackupInv'
    <2>1. UNCHANGED bak
      BY <1>5 DEF ReadBackup, RestoreStarts, RestoreEnds, RestoreEtcStarts, RestoreEtcEnds,
         files
    <2>2. PICK to \in Restoring \cup {"done"} :
            Goto(p, to) /\ to # "idle" /\ pc[p] \in Restoring \cup {"idle"}
      BY <1>5 DEF ReadBackup, RestoreStarts, RestoreEnds, RestoreEtcStarts, RestoreEtcEnds, At,
         Restoring
    <2>3. \A q \in Runs : pc'[q] = IF q = p THEN to ELSE pc[q]
      BY <1>1, <2>2 DEF Goto
    <2>4. \A q \in Runs : pc'[q] = "copying" => q # p /\ pc[q] = "copying"
      BY <2>2, <2>3 DEF Restoring
    <2>5. \A q \in Runs : pc'[q] = "copying" => ~Alone'
      BY <2>2, <2>3, <2>4 DEF Alone, Begun
    <2> QED BY <1>1, <1>2, <2>1, <2>2, <2>3, <2>4, <2>5, BackupLeftAlone DEF Restoring
  <1>6. ASSUME NEW p \in Runs, FileError(p) \/ Kill(p)
        PROVE  BackupInv'
    <2>1. UNCHANGED bak
      BY <1>6 DEF FileError, Kill, files
    <2>2. \/ Goto(p, "unwind") /\ p \notin Rollbacks /\ pc[p] \notin {"unwind", "failed", "dead"}
          \/ Goto(p, "dead")
      BY <1>1, <1>6 DEF FileError, Kill, Restoring
    <2>3. \A q \in Runs : q # p => pc'[q] = pc[q] /\ source'[q] = source[q]
      BY <1>1, <1>6, <2>2 DEF Goto, FileError, Kill, Forgets
    <2>4. pc'[p] = "dead" \/ (pc'[p] = "unwind" /\ p \notin Rollbacks)
      BY <1>1, <2>2 DEF Goto
    <2> QED BY <1>1, <1>2, <2>1, <2>3, <2>4, BackupLeftAlone
  <1>7. ASSUME NEW p \in Runs, BackupStarts(p)
        PROVE  BackupInv'
    <2>1. /\ pc[p] = "backup" /\ bak' = p /\ source' = [source EXCEPT ![p] = runtime]
          /\ \A q \in Runs : pc'[q] = IF q = p THEN "copying" ELSE pc[q]
      BY <1>1, <1>7 DEF BackupStarts, At, Goto
    <2>2. p \notin Rollbacks /\ Begun(p)
      BY <1>1, <2>1 DEF Restoring, Begun
    <2>3. runtime = Torn => \E q \in Runs : q # p /\ Begun(q)
      BY <1>1, <2>2 DEF ToolInv, ComposeIsAtomic, RollbackWrites, Begun
    <2>4. Alone' => Alone /\ runtime # Torn
      BY <1>2, <2>2, <2>3 DEF Alone
    <2>5. ASSUME Alone', NEW q \in Runs, pc'[q] = "copying" PROVE q = p
      <3>1. Begun(p)' /\ Begun(q)'
        BY <1>2, <2>1, <2>2, <2>5 DEF Begun
      <3> QED BY <2>5, <3>1 DEF Alone
    <2>6. p # Torn
      BY FilesAreDistinct
    <2> QED BY <1>1, <2>1, <2>2, <2>4, <2>5, <2>6 DEF BackupInv
  <1>8. ASSUME NEW p \in Runs, BackupEnds(p)
        PROVE  BackupInv'
    <2>1. /\ pc[p] = "copying" /\ \A q \in Runs : q # p => source'[q] = source[q]
          /\ bak' \in {source[p]} \cup (IF bak = p THEN {} ELSE {Torn})
          /\ \A q \in Runs : pc'[q] = IF q = p THEN "publish" ELSE pc[q]
      BY <1>1, <1>8 DEF BackupEnds, At, Goto
    <2>2. bak' \notin Runs
      BY <1>1, <2>1, VersionsAreWhole, FilesAreDistinct
    <2>3. Alone' => Alone
      BY <1>2 DEF Alone
    <2>4. Alone => bak' # Torn
      BY <2>1 DEF BackupInv
    <2>5. ASSUME Alone', NEW q \in Runs, pc'[q] = "copying" PROVE FALSE
      <3>1. q # p /\ Begun(p)' /\ Begun(q)'
        BY <1>2, <2>1, <2>5 DEF Begun
      <3> QED BY <2>5, <3>1 DEF Alone
    <2>6. p \notin Rollbacks
      BY <1>1, <2>1 DEF Restoring
    <2> QED BY <1>1, <2>1, <2>2, <2>3, <2>4, <2>5, <2>6 DEF BackupInv
  <1> QED BY <1>3, <1>4, <1>5, <1>6, <1>7, <1>8 DEF Next, Step

(* copyFileSync to runtimePath.bak: a run that was killed or failed there, two runs that
   both began, or a file that another tool of the repository wrote in part and this one
   copied without looking, are the only ways to a backup that is not whole. *)
THEOREM BackupIsExplained == Spec => []BackupAccountedFor
  <1>1. BackupInv /\ Undamaged => BackupAccountedFor
    BY DEF BackupInv, Undamaged, BackupAccountedFor, Alone
  <1> QED BY <1>1, InitBackup, NextBackup, NextUndamaged, ToolInvariant, PTL DEF Spec
=============================================================================
