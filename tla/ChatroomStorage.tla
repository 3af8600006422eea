--------------------------- MODULE ChatroomStorage ---------------------------
(***************************************************************************)
(* The key files of the chat rooms (chatroomStorage.js): one file per room  *)
(* with the room's box key pair and the public keys of its phones,          *)
(* encrypted under the first of OPENCLAW_KEY_ENCRYPTION_KEYS and read with  *)
(* any of them.  The relay rewrites a room's file whenever a phone          *)
(* registers; rotate-data-key.mjs, a process of its own with an environment *)
(* of its own, rewrites every file.  docs/RUNBOOK.md has the relay          *)
(* restarted before it, README.md does not, and the tool looks at neither.  *)
(*                                                                         *)
(* Both write in place: writeFileSync truncates the file and then fills it, *)
(* and the other process, or a crash, may come in between.  A room is one   *)
(* file under data/agents; keys are numbered, 0 is an unencrypted file.     *)
(***************************************************************************)
EXTENDS Naturals, Sequences

CONSTANTS
  Rooms,
  DefaultRooms,  \* rooms of the agent default, which may have a legacy file
  Names,      \* participant ids, Default among them
  Phones,     \* who registers where, <<room, name>>
  Default,    \* the id of a phone that names none
  Boxes,      \* public keys of phones
  Pairs,      \* model bound: box key pairs
  None,       \* no key
  Torn,       \* a file that is empty or mixed, and not JSON
  Absent,     \* no file
  MaxCrashes  \* model bound: crashes of either process, and writes that throw

ASSUME DefaultIsAName == Default \in Names
ASSUME DefaultRoomsAreRooms == DefaultRooms \subseteq Rooms
ASSUME PhonesHaveRooms == Phones \subseteq Rooms \X Names
ASSUME CrashesAreNat == MaxCrashes \in Nat
ASSUME NoneIsNothing == None \notin Rooms \cup Boxes
(* nacl.box.keyPair never returns a pair that is in use: the one the phones know, the
   one in the file, or the one the rotation is writing. *)
ASSUME PairsAreFresh ==
  \A a, b, c \in Pairs \cup {None} : \E p \in Pairs : p \notin {a, b, c}

VARIABLES
  file,     \* per room, data/agents/<agent>/chatrooms/<room>.json
  legacy,   \* per room, data/chatrooms/<room>.json, which only the agent
            \* default has and nothing writes any more
  env,      \* OPENCLAW_KEY_ENCRYPTION_KEYS in ombot.env
  keys,     \* the same as the running relay has read it
  shell,    \* the same in the environment of the rotation that runs
  proc,     \* what the relay and the rotation are writing
  pending,  \* rooms the rotation has still to visit
  stage,    \* of the rotation: "none", "running" or "done"
  order,    \* whether a rotation under the keys of a relay that had the new one has
            \* "begun" or gone "through", or the old key was taken out without ("broken")
  crashes,
  known,    \* per room, what its phones were told and have registered
  damaged   \* rooms whose file was torn by a crash or a failed write, written by both
            \* at once, or not readable to the relay when a phone registered

rotation == <<shell, pending, stage, order>>
vars == <<file, legacy, env, keys, proc, rotation, crashes, known, damaged>>

Peers == [Names -> Boxes \cup {None}]
Nobody == [n \in Names |-> None]
Contents == [pair : Pairs, top : Boxes \cup {None}, peers : Peers, key : 0..2]
Whole(f) == f \notin {Torn, Absent}

ASSUME NoFileIsNoContents == Torn \notin Contents /\ Absent \notin Contents /\ Torn # Absent

Idle == [room |-> None, todo |-> <<>>, open |-> FALSE, name |-> Default, box |-> None]
Busy(p, r) == proc[p].room = r

(* Mutant of EncryptPayload: under the key that was added first. *)
EncryptPayloadLast(ks) == IF ks = <<>> THEN 0 ELSE ks[Len(ks)]

(* encryptPayload: under the first key, if there is one. *)
EncryptPayload(ks) == IF ks = <<>> THEN 0 ELSE ks[1]

(* decryptPayload: any key of the list will do. *)
DecryptPayload(f, ks) == f.key = 0 \/ \E i \in DOMAIN ks : ks[i] = f.key

(* A list with the new key, 2, in front. *)
NewFirst(ks) == ks # <<>> /\ ks[1] = 2

(* readJsonFile: anything that cannot be read counts as no file. *)
Readable(f, ks) == Whole(f) /\ DecryptPayload(f, ks)

(* saveChatroomKeysSync: the participants given, with this one's key if there is
   one, and for older readers the default one's on top. *)
Saved(pair, peers, box, name, ks) ==
  LET merged == IF box = None THEN peers ELSE [peers EXCEPT ![name] = box]
  IN [pair |-> pair, peers |-> merged, key |-> EncryptPayload(ks),
      top |-> IF merged[Default] # None THEN merged[Default] ELSE box]

(* loadChatroomKeysSync falls back to the legacy file. *)
Load(r) == IF Readable(file[r], keys) THEN file[r] ELSE legacy[r]

(* Legacy files: not encrypted, and with one phone at most, which normalizeParticipants
   takes for the default one. *)
LegacyFiles ==
  {[pair |-> CHOOSE p \in Pairs : TRUE, top |-> b, key |-> 0,
    peers |-> [Nobody EXCEPT ![Default] = b]] : b \in Boxes \cup {None}}

(* Files from before: a phone has registered as the default participant. *)
FirstFiles == {Saved(CHOOSE p \in Pairs : TRUE, Nobody, b, Default, env) : b \in Boxes}

Told(c) == [pair |-> c.pair, peers |-> c.peers]

Init ==
  /\ env \in {<<>>, <<1>>}
  /\ keys = env
  /\ legacy \in {l \in [Rooms -> LegacyFiles \cup {Absent}] :
                  \A r \in Rooms \ DefaultRooms : l[r] = Absent}
  /\ file \in [Rooms -> FirstFiles \cup {Absent}]
  /\ proc = [p \in {"relay", "rotate"} |-> Idle]
  /\ shell = <<>>
  /\ pending = {}
  /\ stage = "none"
  /\ order = "none"
  /\ crashes = 0
  /\ known = [r \in Rooms |->
               IF Whole(file[r]) THEN Told(file[r])
               ELSE IF Whole(legacy[r]) THEN Told(legacy[r])
               ELSE [pair |-> None, peers |-> Nobody]]
  /\ damaged = {}

-----------------------------------------------------------------------------
(* A pair nobody has seen yet. *)
BoxKeyPair(r) ==
  CHOOSE p \in Pairs :
    /\ p # known[r].pair
    /\ Whole(file[r]) => p # file[r].pair
    /\ \A q \in DOMAIN proc : \A i \in DOMAIN proc[q].todo : p # proc[q].todo[i].pair

(* Mutant of Registering: a registration saves its own phone only. *)
RegisteringAlone(r, n, b) ==
  LET old == Load(r)
      pair == IF Whole(old) THEN old.pair ELSE BoxKeyPair(r)
      created == IF Whole(old) THEN <<>> ELSE <<Saved(pair, Nobody, None, n, keys)>>
      joined == IF b = None THEN <<>> ELSE <<Saved(pair, Nobody, b, n, keys)>>
  IN [room |-> r, todo |-> created \o joined, open |-> FALSE, name |-> n, box |-> b]

(* getOrCreateChatroomKeys, and the save of the phone's key after it.  A file that
   cannot be read is replaced by one with a new pair; a key that cannot be decoded
   (None) ends the registration after that. *)
Registering(r, n, b) ==
  LET old == Load(r)
      pair == IF Whole(old) THEN old.pair ELSE BoxKeyPair(r)
      peers == IF Whole(old) THEN old.peers ELSE Nobody
      created == IF Whole(old) THEN <<>> ELSE <<Saved(pair, Nobody, None, n, keys)>>
      joined == IF b = None THEN <<>> ELSE <<Saved(pair, peers, b, n, keys)>>
  IN [room |-> r, todo |-> created \o joined, open |-> FALSE, name |-> n, box |-> b]

(* register_public_key from a phone: the relay reads the file and has its writes
   before it, over a file it cannot read too.  What a damaged room lost is lost from
   the next registration on. *)
Register(r, n, b) ==
  LET next == Registering(r, n, b)
      old == Load(r)
  IN
  /\ <<r, n>> \in Phones
  /\ proc["relay"] = Idle
  /\ next.todo # <<>>
  /\ proc' = [proc EXCEPT !["relay"] = next]
  /\ damaged' = IF Busy("rotate", r) \/ (Whole(file[r]) /\ ~Readable(file[r], keys))
                THEN damaged \cup {r} ELSE damaged \ {r}
  /\ known' = IF r \in damaged
              THEN [known EXCEPT ![r] =
                     [pair |-> next.todo[1].pair,
                      peers |-> IF Whole(old) THEN old.peers ELSE Nobody]]
              ELSE known
  /\ UNCHANGED <<file, legacy, env, keys, rotation, crashes>>

(* writeFileSync opens the file and truncates it ... *)
Opens(p) ==
  /\ proc[p].todo # <<>> /\ ~proc[p].open
  /\ proc' = [proc EXCEPT ![p].open = TRUE]
  /\ file' = [file EXCEPT ![proc[p].room] = Torn]
  /\ UNCHANGED <<legacy, env, keys, rotation, crashes, known, damaged>>

(* ... and fills it; over what the other process has filled in since, the longer
   text leaves its tail.  The phone is told the pair after the last write. *)
Fills(p) ==
  LET r == proc[p].room
      c == Head(proc[p].todo)
      last == Len(proc[p].todo) = 1
  IN
  /\ proc[p].open
  /\ \E f \in IF file[r] = Torn THEN {c} ELSE {c, Torn} :
       file' = [file EXCEPT ![r] = f]
  /\ proc' = [proc EXCEPT ![p] = IF last THEN Idle
                                 ELSE [@ EXCEPT !.todo = Tail(proc[p].todo), !.open = FALSE]]
  /\ known' = IF p = "relay" /\ last /\ proc[p].box # None
              THEN [known EXCEPT
                     ![r].pair = IF @ = None THEN c.pair ELSE @,
                     ![r].peers[proc[p].name] = proc[p].box]
              ELSE known
  /\ UNCHANGED <<legacy, env, keys, rotation, crashes, damaged>>

-----------------------------------------------------------------------------
(* The administrator puts the new key in front ... *)
AddKey ==
  /\ 2 \notin {env[i] : i \in DOMAIN env}
  /\ env' = <<2>> \o env
  /\ UNCHANGED <<file, legacy, keys, proc, rotation, crashes, known, damaged>>

(* ... and takes the old one out when a rotation has said ok. *)
RemoveOldKey ==
  /\ stage = "done"
  /\ env = <<2, 1>>
  /\ env' = <<2>>
  /\ order' = IF order = "through" THEN order ELSE "broken"
  /\ UNCHANGED <<file, legacy, keys, proc, shell, pending, stage, crashes, known, damaged>>

RestartRelay ==
  /\ proc["relay"] = Idle
  /\ keys # env
  /\ keys' = env
  /\ UNCHANGED <<file, legacy, env, proc, rotation, crashes, known, damaged>>

(* rotateChatroomKeysEncryptionSync lists the files and takes one after the other.  The
   shell it is run from has the keys of ombot.env as it is, as it was when the relay
   started, as it was before the new key, or none; without keys, or with another data
   directory, it finds nothing to do, which is ok too. *)
RotateStarts ==
  LET files == {r \in Rooms : file[r] # Absent} IN
  /\ stage # "running"
  /\ stage' = "running"
  /\ shell' \in {env, keys, <<>>} \cup (IF env = <<2, 1>> THEN {<<1>>} ELSE {})
  /\ pending' \in {{}, files}
  /\ shell' = <<>> => pending' = {}
  /\ order' = IF order \in {"through", "broken"} THEN order
              ELSE IF NewFirst(keys) /\ NewFirst(shell') /\ pending' = files THEN "begun"
              ELSE "none"
  /\ UNCHANGED <<file, legacy, env, keys, proc, crashes, known, damaged>>

(* One file: read, and its contents to be written again under the tool's first key,
   with the key on top as the default participant's; or skipped. *)
RotateReads(r) ==
  LET f == file[r] IN
  /\ proc["rotate"] = Idle
  /\ r \in pending
  /\ pending' = pending \ {r}
  /\ IF Readable(f, shell)
     THEN /\ proc' = [proc EXCEPT !["rotate"] =
                       [Idle EXCEPT !.room = r,
                          !.todo = <<Saved(f.pair, f.peers, f.top, Default, shell)>>]]
          /\ damaged' = IF Busy("relay", r) THEN damaged \cup {r} ELSE damaged
     ELSE UNCHANGED <<proc, damaged>>
  /\ UNCHANGED <<file, legacy, env, keys, shell, stage, order, crashes, known>>

RotateEnds ==
  /\ stage = "running"
  /\ pending = {} /\ proc["rotate"] = Idle
  /\ stage' = "done"
  /\ shell' = <<>>
  /\ order' = IF order = "begun" THEN "through" ELSE order
  /\ UNCHANGED <<file, legacy, env, keys, proc, pending, crashes, known, damaged>>

(* A crash, or a write that throws (no space, no permission): either may leave the file
   torn.  The relay is started again by systemd, or lives on, for the handler catches
   what a write throws; the rotation ends. *)
Crash(p) ==
  LET r == proc[p].room IN
  /\ crashes < MaxCrashes
  /\ proc[p] # Idle
  /\ crashes' = crashes + 1
  /\ proc' = [proc EXCEPT ![p] = Idle]
  /\ damaged' = IF file[r] = Torn THEN damaged \cup {r} ELSE damaged
  /\ IF p = "relay" THEN keys' \in {keys, env} /\ UNCHANGED rotation
     ELSE /\ shell' = <<>> /\ pending' = {} /\ stage' = "none"
          /\ order' = IF order = "begun" THEN "none" ELSE order
          /\ UNCHANGED keys
  /\ UNCHANGED <<file, legacy, env, known>>

-----------------------------------------------------------------------------
Next ==
  \/ \E r \in Rooms, n \in Names, b \in Boxes \cup {None} : Register(r, n, b)
  \/ \E p \in DOMAIN proc : Opens(p) \/ Fills(p) \/ Crash(p)
  \/ \E r \in Rooms : RotateReads(r)
  \/ AddKey \/ RemoveOldKey \/ RestartRelay \/ RotateStarts \/ RotateEnds

Spec == Init /\ [][Next]_vars

-----------------------------------------------------------------------------
(* Every variable has its type. *)
TypeOK ==
  /\ file \in [Rooms -> Contents \cup {Torn, Absent}]
  /\ legacy \in [Rooms -> Contents \cup {Absent}]
  /\ {env, keys, shell} \subseteq {<<>>, <<1>>, <<2>>, <<2, 1>>}
  /\ DOMAIN proc = {"relay", "rotate"}
  /\ \A p \in DOMAIN proc :
       /\ proc[p].room \in Rooms \cup {None} /\ proc[p].open \in BOOLEAN
       /\ \A i \in DOMAIN proc[p].todo : proc[p].todo[i] \in Contents
  /\ pending \in SUBSET Rooms /\ damaged \in SUBSET Rooms
  /\ stage \in {"none", "running", "done"} /\ crashes \in 0..MaxCrashes
  /\ order \in {"none", "begun", "through", "broken"}
  /\ known \in [Rooms -> [pair : Pairs \cup {None}, peers : Peers]]

(* A rotation, run when and from wherever it may be, locks nobody out for good: whatever
   the relay writes meanwhile and whatever crashes, the relay can read every whole file
   once it has restarted, and before that all but those a rotation has written with a
   key it has not read yet.  Only an old key that is taken out before a rotation went
   through under the keys of a relay that had the new one already (RUNBOOK.md) may leave
   files that nobody can read. *)
RotationKeepsFilesReadable ==
  /\ TypeOK
  /\ order # "broken" =>
       \A r \in Rooms : Whole(file[r]) =>
         /\ DecryptPayload(file[r], env)
         /\ DecryptPayload(file[r], keys) \/ (file[r].key = 2 /\ ~NewFirst(keys))

(* Registrations, restarts and rotations in any order keep a room's pair and the
   latest key of each of its phones, unless a crash or a failed write tore the file, the
   relay and the rotation were at it together, or a phone registered while the relay
   could not read it; the pair of a room with a legacy file is kept even then. *)
PhonesStayKnown ==
  \A r \in Rooms :
    /\ /\ r \notin damaged /\ file[r] # Absent
       /\ \A p \in DOMAIN proc : ~Busy(p, r)
       => /\ Whole(file[r])
          /\ known[r].pair \in {None, file[r].pair}
          /\ \A n \in Names : known[r].peers[n] \in {None, file[r].peers[n]}
    /\ Whole(legacy[r]) /\ Whole(file[r]) => file[r].pair = legacy[r].pair
=============================================================================
