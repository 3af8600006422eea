------------------------ MODULE ChatroomStorageProofs ------------------------
(***************************************************************************)
(* The safety of the key files for any number of rooms, phones, keys of     *)
(* phones and crashes.  The invariant is in two halves.  KeysOK says which  *)
(* keys ombot.env, the relay and a rotation may have at the same time and   *)
(* under which of them a file may be; RoomOK, of one room, what its file,   *)
(* its legacy file and the writes under way have in common with what the    *)
(* phones know.  A step touches one room at most (OtherRoom).               *)
(***************************************************************************)
EXTENDS ChatroomStorage, SequenceTheorems, TLAPS

Processes == {"relay", "rotate"}
KeyLists == {<<>>, <<1>>, <<2>>, <<2, 1>>}
Writings ==
  [room : Rooms \cup {None}, todo : Seq(Contents), open : BOOLEAN,
   name : Names, box : Boxes \cup {None}]

StorageType ==
  /\ file \in [Rooms -> Contents \cup {Torn, Absent}]
  /\ legacy \in [Rooms -> Contents \cup {Absent}]
  /\ env \in KeyLists /\ keys \in KeyLists /\ shell \in KeyLists
  /\ order \in {"none", "begun", "through", "broken"}
  /\ proc \in [Processes -> Writings]
  /\ pending \in SUBSET Rooms /\ damaged \in SUBSET Rooms
  /\ stage \in {"none", "running", "done"} /\ crashes \in 0..MaxCrashes
  /\ known \in [Rooms -> [pair : Pairs \cup {None}, peers : Peers]]

(* A process that writes has one or two writes before it, the rotation one. *)
Shape ==
  /\ \A p \in Processes :
       /\ proc[p].room = None => proc[p] = Idle
       /\ proc[p].room # None => Len(proc[p].todo) \in 1..2
  /\ Len(proc["rotate"].todo) <= 1

(* A rotation that does not run has nothing before it. *)
AtRest == stage # "running" => pending = {} /\ proc["rotate"] = Idle /\ shell = <<>>

(* Writes are under the first key of the relay, or of the rotation. *)
WrittenWith ==
  /\ \A i \in DOMAIN proc["relay"].todo : proc["relay"].todo[i].key = EncryptPayload(keys)
  /\ \A i \in DOMAIN proc["rotate"].todo : proc["rotate"].todo[i].key = EncryptPayload(shell)

News == {<<2>>, <<2, 1>>}

(* What the relay and the rotation run with while this is in ombot.env. *)
KeysFollow ==
  /\ env = <<>> => keys = <<>> /\ shell = <<>>
  /\ env = <<1>> => keys = <<1>> /\ shell \in {<<>>, <<1>>}
  /\ env = <<2>> => keys \in {<<>>} \cup News /\ shell \in {<<>>} \cup News
  /\ env = <<2, 1>> => keys \in {<<1>>, <<2, 1>>} /\ shell \in {<<>>, <<1>>, <<2, 1>>}
  /\ order \in {"begun", "through"} => keys \in News
  /\ order = "begun" => stage = "running" /\ shell \in News
  /\ order = "through" /\ proc["rotate"] # Idle => shell \in News

(* What a rotation in the right order has been through is under the new key. *)
Rotated ==
  /\ order = "begun" => \A r \in Rooms \ pending :
       Whole(file[r]) => file[r].key = 2 \/ Busy("rotate", r)
  /\ order = "through" => \A r \in Rooms : Whole(file[r]) => file[r].key = 2

FilesReadable == \A r \in Rooms : Whole(file[r]) => DecryptPayload(file[r], env)

InOrder == KeysFollow /\ Rotated /\ FilesReadable

KeysOK ==
  /\ AtRest
  /\ WrittenWith
  /\ order # "broken" => InOrder

-----------------------------------------------------------------------------
(* The key on top is the default participant's, if it has one. *)
OnTop(c) == c.peers[Default] # None => c.top = c.peers[Default]
Topped(r) ==
  /\ Whole(file[r]) => OnTop(file[r])
  /\ Whole(legacy[r]) => OnTop(legacy[r])
  /\ \A p \in Processes :
       Busy(p, r) => \A i \in DOMAIN proc[p].todo : OnTop(proc[p].todo[i])

(* A room with a legacy file has its pair, whatever happens. *)
LegacyPair(r) ==
  Whole(legacy[r]) =>
    /\ Whole(file[r]) => file[r].pair = legacy[r].pair
    /\ \A p \in Processes :
         Busy(p, r) => \A i \in DOMAIN proc[p].todo : proc[p].todo[i].pair = legacy[r].pair

(* c has the pair and the keys the phones of k know; of box, which name registers
   with it, there is the new key already. *)
Agrees(k, c) ==
  /\ k.pair \in {None, c.pair}
  /\ \A n \in Names : k.peers[n] \in {None, c.peers[n]}
Joins(k, c, name, box) ==
  /\ k.pair \in {None, c.pair}
  /\ \A n \in Names : (n = name /\ box # None) \/ k.peers[n] \in {None, c.peers[n]}
  /\ box # None => c.peers[name] = box

(* Before the first write, the phones know what is in the legacy file. *)
Unwritten(r) ==
  file[r] = Absent =>
    /\ r \notin damaged /\ ~Busy("rotate", r)
    /\ Whole(legacy[r]) => Agrees(known[r], legacy[r])
    /\ ~Whole(legacy[r]) => known[r].pair = None /\ \A n \in Names : known[r].peers[n] = None

(* In a room that is not damaged one process writes at a time, and a torn file is
   one that is being written. *)
Alone(r) ==
  r \notin damaged =>
    /\ ~(Busy("relay", r) /\ Busy("rotate", r))
    /\ \A p \in Processes : Busy(p, r) /\ proc[p].open => file[r] = Torn
    /\ file[r] = Torn => \E p \in Processes : Busy(p, r)

(* There, the file and every write agree with what the phones know. *)
Remembered(r) ==
  r \notin damaged =>
    /\ Whole(file[r]) => Agrees(known[r], file[r])
    /\ Busy("rotate", r) => Agrees(known[r], proc["rotate"].todo[1])
    /\ Busy("relay", r) /\ Len(proc["relay"].todo) = 2 =>
         Agrees(known[r], proc["relay"].todo[1])
    /\ Busy("relay", r) =>
         Joins(known[r], proc["relay"].todo[Len(proc["relay"].todo)],
               proc["relay"].name, proc["relay"].box)

RoomOK(r) ==
  /\ Topped(r)
  /\ LegacyPair(r)
  /\ Unwritten(r)
  /\ Alone(r)
  /\ Remembered(r)

StorageInv ==
  /\ StorageType
  /\ Shape
  /\ KeysOK
  /\ \A r \in Rooms : RoomOK(r)

-----------------------------------------------------------------------------
(* The parts of a file's contents. *)
LEMMA ContentsHave ==
  ASSUME NEW c \in Contents
  PROVE  /\ c.pair \in Pairs /\ c.top \in Boxes \cup {None} /\ c.peers \in Peers
         /\ c.key \in 0..2 /\ Whole(c)
  BY NoFileIsNoContents DEF Contents, Whole

LEMMA KeyIsNumber ==
  ASSUME NEW ks \in KeyLists
  PROVE  EncryptPayload(ks) \in 0..2
  BY DEF KeyLists, EncryptPayload

(* What is saved is under the first key, has the pair and the participants given,
   and the new key. *)
LEMMA SavedIs ==
  ASSUME NEW pair \in Pairs, NEW peers \in Peers, NEW box \in Boxes \cup {None},
         NEW name \in Names, NEW ks \in KeyLists,
         NEW c, c = Saved(pair, peers, box, name, ks)
  PROVE  /\ c \in Contents
         /\ c.pair = pair /\ c.key = EncryptPayload(ks) /\ OnTop(c)
         /\ box # None => c.peers[name] = box
         /\ \A n \in Names : (n = name /\ box # None) \/ c.peers[n] = peers[n]
  <1> DEFINE merged == IF box = None THEN peers ELSE [peers EXCEPT ![name] = box]
  <1>1. merged \in Peers
    BY DEF Peers
  <1>2. /\ box # None => merged[name] = box
        /\ \A n \in Names : (n = name /\ box # None) \/ merged[n] = peers[n]
    BY DEF Peers
  <1>3. merged[Default] \in Boxes \cup {None}
    BY <1>1, DefaultIsAName DEF Peers
  <1>4. c = [pair |-> pair, peers |-> merged, key |-> EncryptPayload(ks),
             top |-> IF merged[Default] # None THEN merged[Default] ELSE box]
    BY DEF Saved
  <1> HIDE DEF merged
  <1>5. c.pair = pair /\ c.key = EncryptPayload(ks) /\ c.peers = merged
    BY <1>4
  <1>6. OnTop(c)
    BY <1>4 DEF OnTop
  <1>7. c \in Contents
    BY <1>1, <1>3, <1>4, KeyIsNumber DEF Contents
  <1> QED BY <1>2, <1>5, <1>6, <1>7

(* A file under key k can be read with a list that has k. *)
LEMMA Decrypts ==
  ASSUME NEW c, NEW ks \in KeyLists
  PROVE  DecryptPayload(c, ks) <=>
           \/ c.key = 0
           \/ c.key = 1 /\ ks \in {<<1>>, <<2, 1>>}
           \/ c.key = 2 /\ ks \in {<<2>>, <<2, 1>>}
  BY DEF KeyLists, DecryptPayload

(* loadChatroomKeysSync *)
LEMMA LoadIs ==
  ASSUME StorageType, NEW r \in Rooms
  PROVE  /\ Readable(file[r], keys) => Load(r) = file[r]
         /\ ~Readable(file[r], keys) => Load(r) = legacy[r]
         /\ ~Whole(file[r]) => Load(r) = legacy[r]
         /\ Load(r) \in Contents \cup {Absent}
         /\ Whole(Load(r)) => Load(r) \in Contents
  BY NoFileIsNoContents DEF StorageType, Load, Readable, Whole

(* There is a pair for a new file. *)
LEMMA BoxKeyPairIs ==
  ASSUME StorageType, Shape, proc["relay"] = Idle, NEW r \in Rooms
  PROVE  BoxKeyPair(r) \in Pairs
  <1> DEFINE a == known[r].pair
             b == IF Whole(file[r]) THEN file[r].pair ELSE None
             d == IF proc["rotate"].todo = <<>> THEN None ELSE proc["rotate"].todo[1].pair
             Fresh(p) ==
               /\ p # known[r].pair
               /\ Whole(file[r]) => p # file[r].pair
               /\ \A q \in DOMAIN proc : \A i \in DOMAIN proc[q].todo :
                    p # proc[q].todo[i].pair
  <1>1. a \in Pairs \cup {None}
    BY DEF StorageType
  <1>2. b \in Pairs \cup {None}
    <2>1. Whole(file[r]) => file[r] \in Contents
      BY DEF StorageType, Whole
    <2> QED BY <2>1, ContentsHave
  <1>3. proc["rotate"].todo \in Seq(Contents) /\ DOMAIN proc = Processes
    BY DEF StorageType, Writings, Processes
  <1>4. proc["rotate"].todo # <<>> => DOMAIN proc["rotate"].todo = {1}
    BY <1>3 DEF Shape
  <1>5. d \in Pairs \cup {None}
    <2>1. proc["rotate"].todo # <<>> => proc["rotate"].todo[1] \in Contents
      BY <1>3
    <2> QED BY <2>1, ContentsHave
  <1>6. PICK p \in Pairs : p \notin {a, b, d}
    <2> HIDE DEF a, b, d
    <2> QED BY <1>1, <1>2, <1>5, PairsAreFresh
  <1>7. Idle.todo = <<>>
    BY DEF Idle
  <1>8. \A i \in DOMAIN proc["relay"].todo : p # proc["relay"].todo[i].pair
    BY <1>7
  <1>9. \A i \in DOMAIN proc["rotate"].todo : p # proc["rotate"].todo[i].pair
    BY <1>3, <1>4, <1>6
  <1>10. Fresh(p)
    BY <1>3, <1>6, <1>8, <1>9 DEF Processes
  <1>11. \E x \in Pairs : Fresh(x)
    BY <1>10
  <1>12. BoxKeyPair(r) = CHOOSE x \in Pairs : Fresh(x)
    BY DEF BoxKeyPair
  <1> HIDE DEF Fresh
  <1> QED BY <1>11, <1>12

-----------------------------------------------------------------------------
(* What the steps of a write do to proc. *)

LEMMA IdleIs ==
  /\ Idle \in Writings
  /\ Idle.room = None /\ Idle.todo = <<>> /\ Idle.open = FALSE
  BY DefaultIsAName DEF Idle, Writings

(* A process that is busy has a room and a write, one that is not has neither. *)
LEMMA BusyIs ==
  ASSUME StorageType, Shape, NEW p \in Processes
  PROVE  /\ proc[p] \in Writings /\ proc[p].todo \in Seq(Contents)
         /\ proc[p] = Idle <=> proc[p].todo = <<>>
         /\ proc[p] # Idle => proc[p].room \in Rooms /\ Len(proc[p].todo) \in 1..2
         /\ DOMAIN proc = Processes
         /\ \A i \in DOMAIN proc[p].todo : proc[p].todo[i] \in Contents
  <1>1. proc[p] \in Writings /\ DOMAIN proc = Processes
    BY DEF StorageType
  <1>2. proc[p].todo \in Seq(Contents) /\ proc[p].room \in Rooms \cup {None}
    BY <1>1 DEF Writings
  <1>3. \A i \in DOMAIN proc[p].todo : proc[p].todo[i] \in Contents
    BY <1>2
  <1>4. proc[p].room # None => Len(proc[p].todo) \in 1..2 /\ proc[p].todo # <<>>
    <2>1. proc[p].room # None => Len(proc[p].todo) \in 1..2
      BY DEF Shape
    <2>2. proc[p].todo = <<>> => Len(proc[p].todo) = 0
      OBVIOUS
    <2> QED BY <2>1, <2>2
  <1>5. proc[p].room = None => proc[p] = Idle
    BY DEF Shape
  <1> QED BY <1>1, <1>2, <1>3, <1>4, <1>5, IdleIs

LEMMA OpensDoes ==
  ASSUME StorageType, Shape, NEW p \in Processes, Opens(p)
  PROVE  /\ proc' \in [Processes -> Writings]
         /\ \A q \in Processes : q # p => proc'[q] = proc[q]
         /\ proc'[p].room = proc[p].room /\ proc'[p].todo = proc[p].todo
         /\ proc'[p].name = proc[p].name /\ proc'[p].box = proc[p].box
         /\ proc'[p].open = TRUE /\ proc[p] # Idle /\ proc'[p] # Idle
  <1>1. proc[p] \in Writings /\ proc[p] # Idle /\ DOMAIN proc = Processes
    BY BusyIs DEF Opens
  <1>2. proc'[p] = [proc[p] EXCEPT !.open = TRUE] /\ \A q \in Processes : q # p => proc'[q] = proc[q]
    BY <1>1 DEF Opens, StorageType
  <1>3. proc'[p] \in Writings /\ proc'[p].open = TRUE
    BY <1>1, <1>2 DEF Writings
  <1>4. proc' \in [Processes -> Writings]
    BY <1>3 DEF Opens, StorageType
  <1>5. /\ proc'[p].room = proc[p].room /\ proc'[p].todo = proc[p].todo
        /\ proc'[p].name = proc[p].name /\ proc'[p].box = proc[p].box
    BY <1>1, <1>2 DEF Writings
  <1> QED BY <1>1, <1>2, <1>3, <1>4, <1>5, IdleIs

LEMMA TailOfTwo ==
  ASSUME NEW S, NEW s \in Seq(S), Len(s) = 2
  PROVE  /\ Tail(s) \in Seq(S) /\ Len(Tail(s)) = 1 /\ Tail(s)[1] = s[2]
         /\ DOMAIN Tail(s) = {1}
  <1>1. s # <<>>
    OBVIOUS
  <1>2. Tail(s) \in Seq(S)
    BY <1>1
  <1>3. Len(Tail(s)) = 1
    BY <1>1
  <1>4. DOMAIN Tail(s) = 1..Len(Tail(s))
    BY <1>2
  <1>5. 1 \in DOMAIN Tail(s)
    BY <1>3, <1>4
  <1>6. \A i \in DOMAIN Tail(s) : Tail(s)[i] = s[i + 1]
    BY <1>1
  <1>7. 1..1 = {1}
    OBVIOUS
  <1>8. Tail(s)[1] = s[1+1]
    BY <1>5, <1>6
  <1>9. DOMAIN Tail(s) = {1}
    BY <1>3, <1>4, <1>7
  <1>10. 1 + 1 = 2
    OBVIOUS
  <1>11. Tail(s)[1] = s[2]
    BY <1>8, <1>10, Zenon
  <1> QED BY <1>2, <1>3, <1>9, <1>11

(* The first of two writes is done. *)
Writes(w, next) ==
  /\ Len(w.todo) = 2 /\ Len(next.todo) = 1 /\ DOMAIN next.todo = {1}
  /\ next.todo[1] = w.todo[2]
  /\ next.room = w.room /\ next.open = FALSE /\ next.name = w.name /\ next.box = w.box

LEMMA FillsDoes ==
  ASSUME StorageType, Shape, NEW p \in Processes, Fills(p)
  PROVE  /\ proc' \in [Processes -> Writings]
         /\ \A q \in Processes : q # p => proc'[q] = proc[q]
         /\ proc[p] # Idle /\ proc[p].todo[1] \in Contents
         /\ \/ Len(proc[p].todo) = 1 /\ proc'[p] = Idle
            \/ p = "relay" /\ Writes(proc[p], proc'[p])
         /\ file'[proc[p].room] \in {proc[p].todo[1], Torn}
         /\ file[proc[p].room] = Torn => file'[proc[p].room] = proc[p].todo[1]
         /\ \A r \in Rooms : r # proc[p].room => file'[r] = file[r]
         /\ file' \in [Rooms -> Contents \cup {Torn, Absent}]
  <1>1. proc[p].open
    BY DEF Fills
  <1>2. /\ proc[p] \in Writings /\ proc[p] # Idle /\ DOMAIN proc = Processes
        /\ proc[p].todo \in Seq(Contents) /\ proc[p].room \in Rooms
        /\ Len(proc[p].todo) \in 1..2
    BY <1>1, BusyIs, IdleIs
  <1>3. Head(proc[p].todo) = proc[p].todo[1] /\ proc[p].todo[1] \in Contents
    BY <1>2
  <1>4. PICK f : /\ f \in {proc[p].todo[1], Torn}
                 /\ file[proc[p].room] = Torn => f = proc[p].todo[1]
                 /\ file' = [file EXCEPT ![proc[p].room] = f]
    BY <1>3 DEF Fills
  <1>5. /\ file'[proc[p].room] = f
        /\ \A r \in Rooms : r # proc[p].room => file'[r] = file[r]
        /\ file' \in [Rooms -> Contents \cup {Torn, Absent}]
    BY <1>2, <1>3, <1>4 DEF StorageType
  <1>6. CASE Len(proc[p].todo) = 1
    <2>1. proc' = [proc EXCEPT ![p] = Idle]
      BY <1>6 DEF Fills
    <2>2. proc' \in [Processes -> Writings] /\ proc'[p] = Idle
      BY <2>1, IdleIs DEF StorageType
    <2>3. \A q \in Processes : q # p => proc'[q] = proc[q]
      BY <2>1 DEF StorageType
    <2> QED BY <1>2, <1>3, <1>4, <1>5, <1>6, <2>2, <2>3
  <1>7. CASE Len(proc[p].todo) = 2
    <2> DEFINE w == [proc[p] EXCEPT !.todo = Tail(proc[p].todo), !.open = FALSE]
               todo == proc[p].todo
    <2>1. proc' = [proc EXCEPT ![p] = w]
      BY <1>7 DEF Fills
    <2>2. /\ Tail(todo) \in Seq(Contents) /\ Len(Tail(todo)) = 1 /\ Tail(todo)[1] = todo[2]
          /\ DOMAIN Tail(todo) = {1}
      BY <1>2, <1>7, TailOfTwo
    <2>3. w \in Writings /\ w.room = proc[p].room /\ w.open = FALSE /\ w.name = proc[p].name
          /\ w.box = proc[p].box /\ w.todo = Tail(todo)
      BY <1>2, <2>2 DEF Writings
    <2>4. p = "relay"
      BY <1>7 DEF Shape, Processes
    <2> HIDE DEF w, todo
    <2>5. proc' \in [Processes -> Writings] /\ proc'[p] = w
      BY <2>1, <2>3 DEF StorageType
    <2>6. \A q \in Processes : q # p => proc'[q] = proc[q]
      BY <2>1 DEF StorageType
    <2>7. /\ proc'[p].room = proc[p].room /\ proc'[p].open = FALSE
          /\ proc'[p].name = proc[p].name /\ proc'[p].box = proc[p].box
          /\ Len(proc'[p].todo) = 1 /\ DOMAIN proc'[p].todo = {1}
          /\ proc'[p].todo[1] = proc[p].todo[2]
      BY <2>2, <2>3, <2>5 DEF todo
    <2>8. Writes(proc[p], proc'[p])
      BY <1>7, <2>7 DEF Writes
    <2> QED BY <1>2, <1>3, <1>4, <1>5, <2>4, <2>5, <2>6, <2>8
  <1> QED BY <1>2, <1>6, <1>7

LEMMA OneThenOther ==
  ASSUME NEW a, NEW b
  PROVE  /\ <<>> \o <<b>> = <<b>> /\ <<a>> \o <<>> = <<a>> /\ <<a>> \o <<b>> = <<a, b>>
         /\ <<>> \o <<>> = <<>>
  <1> DEFINE S == {a, b}
             s == <<a>> \o <<b>>
             t == <<a, b>>
  <1>1. <<a>> \in Seq(S) /\ <<b>> \in Seq(S) /\ t \in Seq(S) /\ Len(t) = 2
    OBVIOUS
  <1>2. s \in Seq(S) /\ Len(s) = 2
    BY <1>1
  <1>3. \A i \in 1..2 : s[i] = t[i]
    BY <1>1
  <1> HIDE DEF s, t, S
  <1>4. s = t
    BY <1>1, <1>2, <1>3, SeqEqual
  <1>5. <<>> \o <<b>> = <<b>> /\ <<a>> \o <<>> = <<a>> /\ <<>> \o <<>> = <<>>
    OBVIOUS
  <1> QED BY <1>4, <1>5 DEF s, t

(* The writes of a registration: the room's pair and the phones in the file, and if
   there was no file one with the pair alone before them. *)
RegistersAs(w, r, n, b) ==
  /\ w = [room |-> r, todo |-> w.todo, open |-> FALSE, name |-> n, box |-> b]
  /\ \E pair \in Pairs, peers \in Peers :
       /\ Whole(Load(r)) => pair = Load(r).pair /\ peers = Load(r).peers
       /\ ~Whole(Load(r)) => peers = Nobody
       /\ \/ w.todo = <<Saved(pair, peers, b, n, keys)>>
          \/ /\ ~Whole(Load(r))
             /\ w.todo = <<Saved(pair, Nobody, None, n, keys),
                           Saved(pair, peers, b, n, keys)>>

LEMMA RegisteringIs ==
  ASSUME StorageType, Shape, proc["relay"] = Idle,
         NEW r \in Rooms, NEW n \in Names, NEW b \in Boxes \cup {None},
         Registering(r, n, b).todo # <<>>
  PROVE  RegistersAs(Registering(r, n, b), r, n, b)
  <1> DEFINE old == Load(r)
             pair == IF Whole(old) THEN old.pair ELSE BoxKeyPair(r)
             peers == IF Whole(old) THEN old.peers ELSE Nobody
             created == IF Whole(old) THEN <<>> ELSE <<Saved(pair, Nobody, None, n, keys)>>
             joined == IF b = None THEN <<>> ELSE <<Saved(pair, peers, b, n, keys)>>
             w == Registering(r, n, b)
  <1>1. w = [room |-> r, todo |-> created \o joined, open |-> FALSE, name |-> n, box |-> b]
    BY DEF Registering
  <1>2. Nobody \in Peers
    BY DEF Nobody, Peers
  <1>3. Whole(old) => old \in Contents
    BY LoadIs
  <1>4. pair \in Pairs
    BY <1>3, ContentsHave, BoxKeyPairIs
  <1>5. peers \in Peers
    BY <1>2, <1>3, ContentsHave
  <1>6. CASE Whole(old)
    <2>1. created = <<>>
      BY <1>6
    <2>2. b # None
      BY <1>1, <2>1, OneThenOther
    <2>4. joined = <<Saved(pair, peers, b, n, keys)>>
      BY <2>2
    <2> HIDE DEF old, pair, peers, created, joined, w
    <2>3. w.todo = <<Saved(pair, peers, b, n, keys)>>
      BY <1>1, <2>1, <2>4, OneThenOther
    <2> QED BY <1>1, <1>4, <1>5, <1>6, <2>3 DEF RegistersAs, pair, peers, old, w
  <1>7. CASE ~Whole(old)
    <2>1. created = <<Saved(pair, Nobody, None, n, keys)>> /\ peers = Nobody
      BY <1>7
    <2>2. CASE b = None
      <3>1. joined = <<>>
        BY <2>2
      <3>2. w.todo = <<Saved(pair, peers, b, n, keys)>>
        BY <1>1, <2>1, <2>2, <3>1, OneThenOther
      <3> HIDE DEF old, pair, peers, created, joined, w
      <3> QED BY <1>1, <1>4, <1>5, <1>7, <2>1, <3>2 DEF RegistersAs, old, w
    <2>3. CASE b # None
      <3>1. joined = <<Saved(pair, peers, b, n, keys)>>
        BY <2>3
      <3>2. w.todo = <<Saved(pair, Nobody, None, n, keys), Saved(pair, peers, b, n, keys)>>
        BY <1>1, <2>1, <3>1, OneThenOther
      <3> HIDE DEF old, pair, peers, created, joined, w
      <3> QED BY <1>1, <1>4, <1>5, <1>7, <2>1, <3>2 DEF RegistersAs, old, w
    <2> QED BY <2>2, <2>3
  <1> QED BY <1>6, <1>7

LEMMA OnesAndTwos ==
  ASSUME NEW S, NEW a \in S, NEW b \in S
  PROVE  /\ <<a>> \in Seq(S) /\ Len(<<a>>) = 1 /\ DOMAIN <<a>> = {1} /\ <<a>>[1] = a
         /\ <<a, b>> \in Seq(S) /\ Len(<<a, b>>) = 2 /\ DOMAIN <<a, b>> = {1, 2}
         /\ <<a, b>>[1] = a /\ <<a, b>>[2] = b
  OBVIOUS

(* The writes w of a registration have one pair, the file's if there is one, ... *)
OfOnePair(w, r) ==
  \A i \in DOMAIN w.todo :
    /\ w.todo[i].key = EncryptPayload(keys) /\ OnTop(w.todo[i])
    /\ w.todo[i].pair = w.todo[1].pair /\ w.todo[1].pair \in Pairs
    /\ Whole(Load(r)) => w.todo[i].pair = Load(r).pair

(* ... and keep what the phones know. *)
KeepsKnown(w, r, n, b) ==
  /\ Whole(Load(r)) =>
       /\ Len(w.todo) = 1
       /\ \A k : Agrees(k, Load(r)) => Joins(k, w.todo[1], n, b)
  /\ ~Whole(Load(r)) =>
       \A k : /\ k.pair \in {None, w.todo[1].pair}
              /\ \A m \in Names : k.peers[m] = None
              => /\ Joins(k, w.todo[Len(w.todo)], n, b)
                 /\ Len(w.todo) = 2 => Agrees(k, w.todo[1])

(* register_public_key *)
LEMMA RegisterDoes ==
  ASSUME StorageType, Shape,
         NEW r \in Rooms, NEW n \in Names, NEW b \in Boxes \cup {None}, Register(r, n, b),
         NEW w, w = proc'["relay"]
  PROVE  /\ proc["relay"] = Idle /\ proc'["rotate"] = proc["rotate"]
         /\ proc' \in [Processes -> Writings]
         /\ w.room = r /\ w.open = FALSE /\ w.name = n /\ w.box = b
         /\ Len(w.todo) \in 1..2 /\ 1 \in DOMAIN w.todo /\ Len(w.todo) \in DOMAIN w.todo
         /\ OfOnePair(w, r)
         /\ KeepsKnown(w, r, n, b)
  <1>1. /\ proc["relay"] = Idle /\ Registering(r, n, b).todo # <<>>
        /\ proc' = [proc EXCEPT !["relay"] = Registering(r, n, b)]
    BY DEF Register
  <1>2. w = Registering(r, n, b) /\ proc'["rotate"] = proc["rotate"]
    BY <1>1 DEF StorageType, Processes
  <1>3. RegistersAs(w, r, n, b)
    BY <1>1, <1>2, RegisteringIs
  <1>4. PICK pair \in Pairs, peers \in Peers :
          /\ Whole(Load(r)) => pair = Load(r).pair /\ peers = Load(r).peers
          /\ ~Whole(Load(r)) => peers = Nobody
          /\ \/ w.todo = <<Saved(pair, peers, b, n, keys)>>
             \/ /\ ~Whole(Load(r))
                /\ w.todo = <<Saved(pair, Nobody, None, n, keys),
                              Saved(pair, peers, b, n, keys)>>
    BY <1>3 DEF RegistersAs
  <1> DEFINE c == Saved(pair, Nobody, None, n, keys)
             d == Saved(pair, peers, b, n, keys)
  <1>5. keys \in KeyLists /\ Nobody \in Peers /\ None \in Boxes \cup {None}
    BY DEF StorageType, Nobody, Peers
  <1>6. /\ c \in Contents /\ c.pair = pair /\ c.key = EncryptPayload(keys) /\ OnTop(c)
        /\ \A m \in Names : c.peers[m] = Nobody[m]
    BY <1>5, SavedIs, SMTT(30)
  <1>7. /\ d \in Contents /\ d.pair = pair /\ d.key = EncryptPayload(keys) /\ OnTop(d)
        /\ b # None => d.peers[n] = b
        /\ \A m \in Names : (m = n /\ b # None) \/ d.peers[m] = peers[m]
    BY <1>5, SavedIs, SMTT(30)
  <1>8. w.todo = <<d>> \/ (~Whole(Load(r)) /\ w.todo = <<c, d>>)
    BY <1>4
  <1> HIDE DEF c, d
  <1>9. /\ w.todo \in Seq(Contents) /\ Len(w.todo) \in 1..2 /\ 1 \in DOMAIN w.todo
        /\ Len(w.todo) \in DOMAIN w.todo /\ w.todo[Len(w.todo)] = d
        /\ Len(w.todo) = 2 => w.todo[1] = c
        /\ \A i \in DOMAIN w.todo : w.todo[i] \in {c, d}
        /\ Whole(Load(r)) => Len(w.todo) = 1
    <2>1. CASE w.todo = <<d>>
      <3>1. w.todo \in Seq(Contents) /\ Len(w.todo) = 1 /\ DOMAIN w.todo = {1} /\ w.todo[1] = d
        BY <1>7, <2>1, OnesAndTwos
      <3> QED BY <3>1
    <2>2. CASE ~Whole(Load(r)) /\ w.todo = <<c, d>>
      <3>1. /\ w.todo \in Seq(Contents) /\ Len(w.todo) = 2 /\ DOMAIN w.todo = {1, 2}
            /\ w.todo[1] = c /\ w.todo[2] = d
        BY <1>6, <1>7, <2>2, OnesAndTwos
      <3> QED BY <2>2, <3>1
    <2> QED BY <1>8, <2>1, <2>2
  <1>10. w \in Writings
    <2>1. w = [room |-> r, todo |-> w.todo, open |-> FALSE, name |-> n, box |-> b]
      BY <1>3 DEF RegistersAs
    <2>2. \A td \in Seq(Contents) :
            [room |-> r, todo |-> td, open |-> FALSE, name |-> n, box |-> b] \in Writings
      BY DEF Writings
    <2>3. w.todo \in Seq(Contents)
      BY <1>9
    <2> QED BY <2>1, <2>2, <2>3
  <1>11. proc' \in [Processes -> Writings]
    BY <1>1, <1>2, <1>10 DEF StorageType
  <1>12. \A i \in DOMAIN w.todo :
           /\ w.todo[i].key = EncryptPayload(keys) /\ OnTop(w.todo[i])
           /\ w.todo[i].pair = pair
    BY <1>6, <1>7, <1>9
  <1>13. \A k : Agrees(k, Load(r)) /\ Whole(Load(r)) => Joins(k, d, n, b)
    BY <1>4, <1>7 DEF Agrees, Joins
  <1>14. \A k : /\ ~Whole(Load(r)) /\ k.pair \in {None, pair}
                /\ \A m \in Names : k.peers[m] = None
                => Joins(k, d, n, b) /\ Agrees(k, c)
    BY <1>4, <1>6, <1>7 DEF Agrees, Joins
  <1>15. w.room = r /\ w.open = FALSE /\ w.name = n /\ w.box = b
    BY <1>3 DEF RegistersAs
  <1>16. OfOnePair(w, r)
    BY <1>4, <1>9, <1>12 DEF OfOnePair
  <1>17. KeepsKnown(w, r, n, b)
    BY <1>9, <1>4, <1>12, <1>13, <1>14 DEF KeepsKnown
  <1> QED BY <1>1, <1>2, <1>9, <1>11, <1>15, <1>16, <1>17

(* The rotation reads a file, if it can, and keeps what the phones know. *)
LEMMA RotateReadsDoes ==
  ASSUME StorageType, Shape, KeysOK, NEW r \in Rooms, RotateReads(r),
         NEW w, w = proc'["rotate"]
  PROVE  /\ stage = "running" /\ r \in pending /\ proc["rotate"] = Idle
         /\ proc' \in [Processes -> Writings] /\ proc'["relay"] = proc["relay"]
         /\ \/ ~Readable(file[r], shell) /\ UNCHANGED <<proc, damaged>>
            \/ /\ Readable(file[r], shell) /\ Whole(file[r])
               /\ damaged' = IF Busy("relay", r) THEN damaged \cup {r} ELSE damaged
               /\ w.room = r /\ w.open = FALSE /\ Len(w.todo) = 1 /\ DOMAIN w.todo = {1}
               /\ w.todo[1].key = EncryptPayload(shell) /\ OnTop(w.todo[1]) /\ w.todo[1].pair = file[r].pair
               /\ OnTop(file[r]) =>
                    \A k : Agrees(k, file[r]) => Agrees(k, w.todo[1])
  <1>1. r \in pending /\ proc["rotate"] = Idle
    BY DEF RotateReads
  <1>2. stage = "running"
    BY <1>1 DEF KeysOK, AtRest
  <1>3. shell \in KeyLists
    BY DEF StorageType
  <1>5. CASE ~Readable(file[r], shell)
    <2>1. UNCHANGED <<proc, damaged>>
      BY <1>5 DEF RotateReads
    <2> QED BY <1>1, <1>2, <1>5, <2>1 DEF StorageType
  <1>6. CASE Readable(file[r], shell)
    <2>0. Whole(file[r])
      BY <1>6 DEF Readable
    <2> DEFINE f == file[r]
               c == Saved(f.pair, f.peers, f.top, Default, shell)
               next == [Idle EXCEPT !.room = r, !.todo = <<c>>]
    <2>1. /\ proc' = [proc EXCEPT !["rotate"] = next]
          /\ damaged' = IF Busy("relay", r) THEN damaged \cup {r} ELSE damaged
      BY <1>6 DEF RotateReads
    <2>2. f \in Contents
      BY <2>0 DEF StorageType, Whole
    <2>3. f.pair \in Pairs /\ f.peers \in Peers /\ f.top \in Boxes \cup {None}
      BY <2>2, ContentsHave
    <2> HIDE DEF f
    <2>4. /\ c \in Contents /\ c.pair = f.pair /\ c.key = EncryptPayload(shell) /\ OnTop(c)
          /\ f.top # None => c.peers[Default] = f.top
          /\ \A n \in Names : (n = Default /\ f.top # None) \/ c.peers[n] = f.peers[n]
      <3> DEFINE pair == f.pair
                 peers == f.peers
                 top == f.top
      <3>1. c = Saved(pair, peers, top, Default, shell)
        OBVIOUS
      <3> HIDE DEF c, pair, peers, top
      <3>2. pair \in Pairs /\ peers \in Peers /\ top \in Boxes \cup {None}
        BY <2>3 DEF pair, peers, top
      <3>3. /\ c \in Contents /\ c.pair = pair /\ c.key = EncryptPayload(shell) /\ OnTop(c)
            /\ top # None => c.peers[Default] = top
            /\ \A n \in Names : (n = Default /\ top # None) \/ c.peers[n] = peers[n]
        BY <1>3, <3>1, <3>2, SavedIs, DefaultIsAName
      <3> QED BY <1>3, <3>3 DEF pair, peers, top
    <2>5. ASSUME OnTop(f), NEW k, Agrees(k, f) PROVE Agrees(k, c)
      <3>1. k.pair \in {None, c.pair}
        BY <2>4, <2>5 DEF Agrees
      <3>2. \A n \in Names : k.peers[n] \in {None, c.peers[n]}
        BY <2>4, <2>5, DefaultIsAName DEF Agrees, OnTop
      <3> QED BY <3>1, <3>2 DEF Agrees
    <2> HIDE DEF c
    <2>6. /\ next \in Writings /\ next.room = r /\ next.open = FALSE
          /\ next.todo = <<c>>
      <3> DEFINE td == <<c>>
      <3>1. td \in Seq(Contents)
        BY <2>4
      <3> HIDE DEF td
      <3>2. [Idle EXCEPT !.room = r, !.todo = td] \in Writings
        BY <3>1, IdleIs DEF Writings
      <3>3. /\ [Idle EXCEPT !.room = r, !.todo = td].room = r
            /\ [Idle EXCEPT !.room = r, !.todo = td].open = FALSE
            /\ [Idle EXCEPT !.room = r, !.todo = td].todo = td
        BY IdleIs DEF Writings
      <3> QED BY <3>2, <3>3 DEF td
    <2>7. Len(<<c>>) = 1 /\ DOMAIN <<c>> = {1} /\ <<c>>[1] = c
      BY <2>4, OnesAndTwos
    <2> HIDE DEF next
    <2>8. proc' \in [Processes -> Writings] /\ proc'["relay"] = proc["relay"] /\ w = next
      BY <2>1, <2>6 DEF StorageType, Processes
    <2>9. w.room = r /\ w.open = FALSE /\ w.todo = <<c>>
      BY <2>6, <2>8
    <2>10. Len(w.todo) = 1 /\ DOMAIN w.todo = {1} /\ w.todo[1] = c
      BY <2>7, <2>9
    <2>11. OnTop(f) => \A k : Agrees(k, f) => Agrees(k, c)
      BY <2>5
    <2>12. w.todo[1].key = EncryptPayload(shell) /\ OnTop(w.todo[1]) /\ w.todo[1].pair = f.pair
      BY <2>4, <2>10
    <2> QED BY <1>1, <1>2, <1>6, <2>0, <2>1, <2>8, <2>9, <2>10, <2>11, <2>12 DEF f
  <1> QED BY <1>5, <1>6

LEMMA CrashDoes ==
  ASSUME StorageType, Shape, NEW p \in Processes, Crash(p)
  PROVE  /\ proc' \in [Processes -> Writings] /\ proc'[p] = Idle
         /\ \A q \in Processes : q # p => proc'[q] = proc[q]
         /\ proc[p].room \in Rooms
  <1>1. proc' = [proc EXCEPT ![p] = Idle] /\ proc[p] # Idle
    BY DEF Crash
  <1>2. proc' \in [Processes -> Writings] /\ proc'[p] = Idle
    BY <1>1, IdleIs DEF StorageType
  <1>3. \A q \in Processes : q # p => proc'[q] = proc[q]
    BY <1>1 DEF StorageType
  <1> QED BY <1>1, <1>2, <1>3, BusyIs

(* What the phones of a room know after a write. *)
LEMMA FillsTells ==
  ASSUME StorageType, Shape, NEW p \in Processes, Fills(p),
         NEW w, w = proc[p], NEW r, r = w.room
  PROVE  /\ known' \in [Rooms -> [pair : Pairs \cup {None}, peers : Peers]]
         /\ \A s \in Rooms : s # r => known'[s] = known[s]
         /\ p = "rotate" \/ Len(w.todo) # 1 => UNCHANGED known
         /\ Joins(known[r], w.todo[1], w.name, w.box) /\ p = "relay" /\ Len(w.todo) = 1 =>
              Agrees(known'[r], w.todo[1])
  <1>1. w \in Writings /\ r \in Rooms /\ w.todo[1] \in Contents /\ Head(w.todo) = w.todo[1]
    <2>1. proc[p] # Idle
      BY FillsDoes
    <2>2. w.todo # <<>> /\ w.todo \in Seq(Contents) /\ r \in Rooms /\ w \in Writings
      BY <2>1, BusyIs
    <2> QED BY <2>2
  <1>2. w.name \in Names /\ w.box \in Boxes \cup {None} /\ w.todo[1].pair \in Pairs
    BY <1>1, ContentsHave DEF Writings
  <1>3. known \in [Rooms -> [pair : Pairs \cup {None}, peers : Peers]]
    BY DEF StorageType
  <1>4. CASE p = "relay" /\ Len(w.todo) = 1 /\ w.box # None
    <2> DEFINE k == known[r]
               next == [k EXCEPT !.pair = IF k.pair = None THEN w.todo[1].pair ELSE k.pair,
                                 !.peers[w.name] = w.box]
    <2>1. known' = [known EXCEPT ![r] = next]
      <3>1. known' = [known EXCEPT ![r].pair = IF @ = None THEN w.todo[1].pair ELSE @,
                                   ![r].peers[w.name] = w.box]
        BY <1>1, <1>4 DEF Fills
      <3>2. r \in DOMAIN known /\ known[r] \in [pair : Pairs \cup {None}, peers : Peers]
        BY <1>1, <1>3
      <3>3. \A s \in DOMAIN known : s # r => known'[s] = known[s]
        BY <3>1
      <3>4. known'[r] = next
        BY <3>1, <3>2
      <3> HIDE DEF next
      <3> QED BY <3>1, <3>2, <3>4, ZenonT(60)
    <2>2. k \in [pair : Pairs \cup {None}, peers : Peers]
      BY <1>1, <1>3
    <2>3. /\ next \in [pair : Pairs \cup {None}, peers : Peers]
          /\ next.pair = IF k.pair = None THEN w.todo[1].pair ELSE k.pair
          /\ \A n \in Names : next.peers[n] = IF n = w.name THEN w.box ELSE k.peers[n]
      BY <1>2, <2>2 DEF Peers
    <2> HIDE DEF next
    <2>4. /\ known' \in [Rooms -> [pair : Pairs \cup {None}, peers : Peers]]
          /\ known'[r] = next /\ \A s \in Rooms : s # r => known'[s] = known[s]
      BY <1>1, <1>3, <2>1, <2>3
    <2>5. Joins(k, w.todo[1], w.name, w.box) => Agrees(next, w.todo[1])
      BY <1>4, <2>3 DEF Joins, Agrees
    <2> QED BY <1>4, <2>4, <2>5, NoneIsNothing DEF Processes
  <1>5. CASE ~(p = "relay" /\ Len(w.todo) = 1 /\ w.box # None)
    <2>1. UNCHANGED known
      BY <1>5 DEF Fills
    <2>2. w.box = None /\ Joins(known[r], w.todo[1], w.name, w.box) => Agrees(known[r], w.todo[1])
      BY DEF Joins, Agrees
    <2> QED BY <1>1, <1>3, <1>5, <2>1, <2>2
  <1> QED BY <1>4, <1>5

-----------------------------------------------------------------------------
(* The types and the shape of the writes, step by step. *)

(* Shape has to be looked at for the process that made the step alone. *)
LEMMA ShapeStep ==
  ASSUME Shape, NEW p \in Processes,
         \A q \in Processes : q # p => proc'[q] = proc[q],
         proc'[p] = Idle \/ proc'[p].room # None,
         proc'[p].room # None =>
           Len(proc'[p].todo) \in 1..2 /\ (p = "rotate" => Len(proc'[p].todo) = 1)
  PROVE  Shape'
  <1>1. Len(Idle.todo) = 0 /\ Idle.room = None
    BY IdleIs
  <1>2. \A q \in Processes :
          /\ proc'[q].room = None => proc'[q] = Idle
          /\ proc'[q].room # None => Len(proc'[q].todo) \in 1..2
    BY DEF Shape
  <1>3. Len(proc'["rotate"].todo) <= 1
    <2>1. CASE p = "rotate"
      <3>1. Len(proc'[p].todo) \in {0, 1}
        BY <1>1, <2>1
      <3> QED BY <2>1, <3>1
    <2>2. CASE p # "rotate"
      BY <2>2 DEF Shape, Processes
    <2> QED BY <2>1, <2>2
  <1> QED BY <1>2, <1>3, <1>1 DEF Shape, Idle

LEMMA RoomsAreSomething ==
  ASSUME NEW r \in Rooms
  PROVE  r # None /\ ~(Idle.room = r)
  BY NoneIsNothing, IdleIs

LEMMA RegisterTypes ==
  ASSUME StorageType, Shape,
         NEW r \in Rooms, NEW n \in Names, NEW b \in Boxes \cup {None}, Register(r, n, b)
  PROVE  StorageType' /\ Shape'
  <1> DEFINE w == proc'["relay"]
  <1>0. w = proc'["relay"]
    OBVIOUS
  <1> HIDE DEF w
  <1>1. /\ proc' \in [Processes -> Writings] /\ proc'["rotate"] = proc["rotate"]
        /\ w.room = r /\ Len(w.todo) \in 1..2 /\ 1 \in DOMAIN w.todo
        /\ OfOnePair(w, r)
    BY <1>0, RegisterDoes, ZenonT(60)
  <1>2. Shape'
    <2>1. \A q \in Processes : q # "relay" => proc'[q] = proc[q]
      BY <1>1 DEF Processes
    <2>2. w.room # None
      BY <1>1, RoomsAreSomething
    <2> QED BY <1>0, <1>1, <2>1, <2>2, ShapeStep DEF Processes
  <1>3. known' \in [Rooms -> [pair : Pairs \cup {None}, peers : Peers]]
    <2> DEFINE ps == IF Whole(Load(r)) THEN Load(r).peers ELSE Nobody
    <2>1. ps \in Peers
      <3>1. Nobody \in Peers
        BY DEF Nobody, Peers
      <3>2. Whole(Load(r)) => Load(r).peers \in Peers
        BY LoadIs, ContentsHave
      <3> QED BY <3>1, <3>2
    <2>2. w = Registering(r, n, b)
      BY <1>0 DEF Register, StorageType, Processes
    <2>3. known' = known \/ known' = [known EXCEPT ![r] = [pair |-> w.todo[1].pair, peers |-> ps]]
      BY <2>2 DEF Register
    <2>4. w.todo[1].pair \in Pairs
      BY <1>1 DEF OfOnePair
    <2> HIDE DEF ps
    <2> QED BY <2>1, <2>3, <2>4 DEF StorageType
  <1>4. damaged' \in SUBSET Rooms
    BY DEF Register, StorageType
  <1>5. UNCHANGED <<file, legacy, env, keys, shell, pending, stage, order, crashes>>
    BY DEF Register, rotation
  <1> QED BY <1>1, <1>2, <1>3, <1>4, <1>5 DEF StorageType

LEMMA OpensTypes ==
  ASSUME StorageType, Shape, NEW p \in Processes, Opens(p)
  PROVE  StorageType' /\ Shape'
  <1>1. /\ proc' \in [Processes -> Writings]
        /\ \A q \in Processes : q # p => proc'[q] = proc[q]
        /\ proc'[p].room = proc[p].room /\ proc'[p].todo = proc[p].todo /\ proc[p] # Idle
    BY OpensDoes
  <1>2. proc[p].room \in Rooms /\ Len(proc[p].todo) \in 1..2
    BY <1>1, BusyIs
  <1>3. p = "rotate" => Len(proc'[p].todo) = 1
    <2>1. p = "rotate" => Len(proc[p].todo) <= 1
      BY DEF Shape
    <2>2. p = "rotate" => Len(proc[p].todo) = 1
      <3> DEFINE k == Len(proc[p].todo)
      <3>1. k \in 1..2 /\ (p = "rotate" => k <= 1)
        BY <1>2, <2>1
      <3> HIDE DEF k
      <3>2. p = "rotate" => k = 1
        BY <3>1
      <3> QED BY <3>2 DEF k
    <2> QED BY <1>1, <2>2
  <1>4. Shape'
    <2>1. proc'[p].room # None
      BY <1>1, <1>2, RoomsAreSomething
    <2>2. Len(proc'[p].todo) \in 1..2
      BY <1>1, <1>2
    <2> QED BY <1>1, <1>3, <2>1, <2>2, ShapeStep
  <1>5. file' \in [Rooms -> Contents \cup {Torn, Absent}]
    BY <1>2 DEF Opens, StorageType
  <1>6. UNCHANGED <<legacy, env, keys, shell, pending, stage, order, crashes, known, damaged>>
    BY DEF Opens, rotation
  <1> QED BY <1>1, <1>4, <1>5, <1>6 DEF StorageType

LEMMA FillsTypes ==
  ASSUME StorageType, Shape, NEW p \in Processes, Fills(p)
  PROVE  StorageType' /\ Shape'
  <1>1. /\ proc' \in [Processes -> Writings]
        /\ \A q \in Processes : q # p => proc'[q] = proc[q]
        /\ proc[p] # Idle
        /\ \/ proc'[p] = Idle
           \/ p = "relay" /\ Writes(proc[p], proc'[p])
        /\ file' \in [Rooms -> Contents \cup {Torn, Absent}]
    BY FillsDoes
  <1>2. proc[p].room \in Rooms
    BY <1>1, BusyIs
  <1>3. known' \in [Rooms -> [pair : Pairs \cup {None}, peers : Peers]]
    BY FillsTells
  <1>4. Shape'
    <2>1. CASE proc'[p] = Idle
      BY <1>1, <2>1, IdleIs, ShapeStep
    <2>2. CASE p = "relay" /\ Writes(proc[p], proc'[p])
      <3>1. proc'[p].room # None /\ Len(proc'[p].todo) = 1
        BY <1>2, <2>2, RoomsAreSomething DEF Writes
      <3> QED BY <1>1, <3>1, ShapeStep
    <2> QED BY <1>1, <2>1, <2>2
  <1>5. UNCHANGED <<legacy, env, keys, shell, pending, stage, order, crashes, damaged>>
    BY DEF Fills, rotation
  <1> QED BY <1>1, <1>3, <1>4, <1>5 DEF StorageType

LEMMA RotateReadsTypes ==
  ASSUME StorageType, Shape, KeysOK, NEW r \in Rooms, RotateReads(r)
  PROVE  StorageType' /\ Shape'
  <1> DEFINE w == proc'["rotate"]
  <1>1. /\ proc' \in [Processes -> Writings] /\ proc'["relay"] = proc["relay"]
        /\ \/ UNCHANGED <<proc, damaged>>
           \/ /\ damaged' = IF Busy("relay", r) THEN damaged \cup {r} ELSE damaged
              /\ w.room = r /\ Len(w.todo) = 1
    BY RotateReadsDoes
  <1>2. Shape'
    <2>1. CASE UNCHANGED proc
      BY <2>1 DEF Shape
    <2>2. CASE w.room = r /\ Len(w.todo) = 1
      <3>1. w.room # None
        BY <2>2, RoomsAreSomething
      <3>2. \A q \in Processes : q # "rotate" => proc'[q] = proc[q]
        BY <1>1 DEF Processes
      <3>3. Len(w.todo) \in 1..2
        BY <2>2
      <3> HIDE DEF w
      <3> QED BY <2>2, <3>1, <3>2, <3>3, ShapeStep DEF Processes, w
    <2> QED BY <1>1, <2>1, <2>2
  <1>3. damaged' \in SUBSET Rooms /\ pending' \in SUBSET Rooms
    BY <1>1 DEF RotateReads, StorageType
  <1>4. UNCHANGED <<file, legacy, env, keys, shell, stage, order, crashes, known>>
    BY DEF RotateReads
  <1> QED BY <1>1, <1>2, <1>3, <1>4 DEF StorageType

LEMMA CrashTypes ==
  ASSUME StorageType, Shape, NEW p \in Processes, Crash(p)
  PROVE  StorageType' /\ Shape'
  <1>1. /\ proc' \in [Processes -> Writings] /\ proc'[p] = Idle
        /\ \A q \in Processes : q # p => proc'[q] = proc[q]
        /\ proc[p].room \in Rooms
    BY CrashDoes
  <1>2. Shape'
    BY <1>1, IdleIs, ShapeStep
  <1>3. crashes' \in 0..MaxCrashes
    BY CrashesAreNat DEF Crash, StorageType
  <1>4. damaged' \in SUBSET Rooms
    BY <1>1 DEF Crash, StorageType
  <1>5. /\ keys' \in KeyLists /\ pending' \in SUBSET Rooms
        /\ stage' \in {"none", "running", "done"} /\ shell' \in KeyLists
        /\ order' \in {"none", "begun", "through", "broken"}
    BY DEF Crash, StorageType, rotation, KeyLists
  <1>6. UNCHANGED <<file, legacy, env, known>>
    BY DEF Crash
  <1> QED BY <1>1, <1>2, <1>3, <1>4, <1>5, <1>6 DEF StorageType

(* The steps of the administrator touch no file. *)
Administers == AddKey \/ RemoveOldKey \/ RestartRelay \/ RotateStarts \/ RotateEnds

LEMMA AddKeyIs ==
  ASSUME StorageType, AddKey
  PROVE  (env = <<>> /\ env' = <<2>>) \/ (env = <<1>> /\ env' = <<2, 1>>)
  <1>1. env \in {<<>>, <<1>>}
    <2>1. env = <<2>> => env[1] = 2 /\ 1 \in DOMAIN env
      OBVIOUS
    <2>2. env = <<2, 1>> => env[1] = 2 /\ 1 \in DOMAIN env
      OBVIOUS
    <2>3. env # <<2>> /\ env # <<2, 1>>
      BY <2>1, <2>2 DEF AddKey
    <2> QED BY <2>3 DEF StorageType, KeyLists
  <1>2. env' = <<2>> \o env
    BY DEF AddKey
  <1>3. <<2>> \o <<>> = <<2>> /\ <<2>> \o <<1>> = <<2, 1>>
    BY OneThenOther
  <1>4. CASE env = <<>>
    BY <1>2, <1>3, <1>4
  <1>5. CASE env = <<1>>
    BY <1>2, <1>3, <1>5
  <1> QED BY <1>1, <1>4, <1>5

LEMMA AdministersTypes ==
  ASSUME StorageType, Shape, Administers
  PROVE  /\ StorageType' /\ Shape'
         /\ UNCHANGED <<file, legacy, proc, known, damaged>>
  <1>1. UNCHANGED <<file, legacy, proc, crashes, known, damaged>>
    BY DEF Administers, AddKey, RemoveOldKey, RestartRelay, RotateStarts, RotateEnds, rotation
  <1>2. env' \in KeyLists /\ keys' \in KeyLists
    BY AddKeyIs
       DEF Administers, RemoveOldKey, RestartRelay, RotateStarts, RotateEnds, StorageType,
           KeyLists, AddKey
  <1>3. pending' \in SUBSET Rooms /\ stage' \in {"none", "running", "done"}
    BY DEF Administers, AddKey, RemoveOldKey, RestartRelay, RotateStarts, RotateEnds, StorageType,
       rotation
  <1>5. shell' \in KeyLists /\ order' \in {"none", "begun", "through", "broken"}
    BY DEF Administers, AddKey, RemoveOldKey, RestartRelay, RotateStarts, RotateEnds, StorageType,
       rotation, KeyLists
  <1>4. Shape'
    BY <1>1 DEF Shape
  <1> QED BY <1>1, <1>2, <1>3, <1>4, <1>5 DEF StorageType

-----------------------------------------------------------------------------
(* The keys of the files, step by step. *)

LEMMA FirstKeys ==
  /\ EncryptPayload(<<>>) = 0 /\ EncryptPayload(<<1>>) = 1
  /\ EncryptPayload(<<2>>) = 2 /\ EncryptPayload(<<2, 1>>) = 2
  BY DEF EncryptPayload

LEMMA ListsDiffer ==
  /\ <<>> # <<1>> /\ <<>> # <<2>> /\ <<>> # <<2, 1>> /\ <<1>> # <<2>> /\ <<1>> # <<2, 1>>
  /\ <<2>> # <<2, 1>>
  OBVIOUS

(* In every row of KeysFollow: a file that a restarted relay can read and this one
   cannot is under the new key, which this one does not have. *)
LEMMA OfRelayToo ==
  ASSUME StorageType, KeysFollow, NEW c, DecryptPayload(c, env)
  PROVE  DecryptPayload(c, keys) \/ (c.key = 2 /\ ~NewFirst(keys))
  <1>1. keys \in KeyLists /\ env \in KeyLists
    BY DEF StorageType
  <1>2. ~NewFirst(<<>>) /\ ~NewFirst(<<1>>)
    BY DEF NewFirst
  <1>3. CASE env = <<>>
    <2>1. keys = <<>>
      BY <1>3 DEF KeysFollow
    <2> QED BY <1>3, <2>1
  <1>4. CASE env = <<1>>
    <2>1. keys = <<1>>
      BY <1>4 DEF KeysFollow
    <2> QED BY <1>4, <2>1
  <1>5. CASE env = <<2>>
    <2>1. keys \in {<<>>, <<2>>, <<2, 1>>}
      BY <1>5 DEF KeysFollow, News
    <2>2. c.key \in {0, 2}
      BY <1>1, <1>5, Decrypts, ListsDiffer
    <2> QED BY <1>1, <1>2, <2>1, <2>2, Decrypts
  <1>6. CASE env = <<2, 1>>
    <2>1. keys \in {<<1>>, <<2, 1>>}
      BY <1>6 DEF KeysFollow
    <2>2. c.key \in {0, 1, 2}
      BY <1>1, Decrypts
    <2> QED BY <1>1, <1>2, <2>1, <2>2, Decrypts
  <1> QED BY <1>1, <1>3, <1>4, <1>5, <1>6 DEF KeyLists

(* What the relay and the rotation write can be read after a restart. *)
LEMMA WrittenIsReadable ==
  ASSUME StorageType, KeysFollow, NEW c,
         c.key = EncryptPayload(keys) \/ c.key = EncryptPayload(shell)
  PROVE  DecryptPayload(c, env)
  <1>1. keys \in KeyLists /\ env \in KeyLists
    BY DEF StorageType
  <1>2. CASE env = <<>>
    <2>1. c.key = 0
      BY <1>2, FirstKeys DEF KeysFollow
    <2> QED BY <1>1, <2>1, Decrypts
  <1>3. CASE env = <<1>>
    <2>1. c.key \in {0, 1}
      BY <1>3, FirstKeys DEF KeysFollow
    <2> QED BY <1>1, <1>3, <2>1, Decrypts
  <1>4. CASE env = <<2>>
    <2>1. c.key \in {0, 2}
      BY <1>4, FirstKeys DEF KeysFollow, News
    <2> QED BY <1>1, <1>4, <2>1, Decrypts
  <1>5. CASE env = <<2, 1>>
    <2>1. c.key \in {0, 1, 2}
      BY <1>5, FirstKeys DEF KeysFollow
    <2> QED BY <1>1, <1>5, <2>1, Decrypts
  <1> QED BY <1>1, <1>2, <1>3, <1>4, <1>5 DEF KeyLists

LEMMA RegisterKeys ==
  ASSUME StorageType, Shape, KeysOK,
         NEW r \in Rooms, NEW n \in Names, NEW b \in Boxes \cup {None}, Register(r, n, b)
  PROVE  KeysOK'
  <1>1. UNCHANGED <<file, env, keys, shell, pending, stage, order>>
    BY DEF Register, rotation
  <1> DEFINE w == proc'["relay"]
  <1>2. w = proc'["relay"]
    OBVIOUS
  <1> HIDE DEF w
  <1>3. proc'["rotate"] = proc["rotate"] /\ OfOnePair(w, r)
    BY <1>2, RegisterDoes
  <1>4. AtRest'
    BY <1>1, <1>3 DEF KeysOK, AtRest, Idle
  <1>5. WrittenWith'
    BY <1>1, <1>2, <1>3 DEF KeysOK, WrittenWith, OfOnePair
  <1>6. ASSUME order # "broken" PROVE InOrder'
    <2>1. KeysFollow'
      BY <1>1, <1>3, <1>6 DEF KeysOK, InOrder, KeysFollow, Idle
    <2>2. Rotated' /\ FilesReadable'
      BY <1>1, <1>3, <1>6 DEF KeysOK, InOrder, Rotated, FilesReadable, Busy
    <2> QED BY <2>1, <2>2 DEF InOrder
  <1> QED BY <1>1, <1>4, <1>5, <1>6 DEF KeysOK

LEMMA OpensKeys ==
  ASSUME StorageType, Shape, KeysOK, NEW p \in Processes, Opens(p)
  PROVE  KeysOK'
  <1>1. UNCHANGED <<env, keys, shell, pending, stage, order>>
    BY DEF Opens, rotation
  <1>2. /\ \A q \in Processes : proc'[q].room = proc[q].room /\ proc'[q].todo = proc[q].todo
        /\ \A q \in Processes : q # p => proc'[q] = proc[q]
        /\ proc[p] # Idle
    BY OpensDoes
  <1>3. \A r \in Rooms : Whole(file'[r]) => file'[r] = file[r]
    BY DEF Opens, Whole, StorageType
  <1>4. proc["rotate"] = Idle => proc'["rotate"] = Idle
    BY <1>2 DEF Processes
  <1>5. AtRest'
    BY <1>1, <1>4 DEF KeysOK, AtRest, Idle
  <1>6. WrittenWith'
    BY <1>1, <1>2 DEF KeysOK, WrittenWith, Processes
  <1>7. ASSUME order # "broken" PROVE InOrder'
    <2>1. KeysFollow'
      BY <1>1, <1>4, <1>7 DEF KeysOK, InOrder, KeysFollow, Idle
    <2>2. Rotated' /\ FilesReadable'
      BY <1>1, <1>2, <1>3, <1>7 DEF KeysOK, InOrder, Rotated, FilesReadable, Busy, Processes
    <2> QED BY <2>1, <2>2 DEF InOrder
  <1> QED BY <1>1, <1>5, <1>6, <1>7 DEF KeysOK

LEMMA FillsKeys ==
  ASSUME StorageType, Shape, KeysOK, NEW p \in Processes, Fills(p)
  PROVE  KeysOK'
  <1> DEFINE c == proc[p].todo[1]
             s == proc[p].room
  <1>1. UNCHANGED <<env, keys, shell, pending, stage, order>>
    BY DEF Fills, rotation
  <1>2. /\ \A q \in Processes : q # p => proc'[q] = proc[q]
        /\ proc[p] # Idle
        /\ proc'[p] = Idle \/ (p = "relay" /\ Writes(proc[p], proc'[p]))
        /\ file'[s] \in {c, Torn}
        /\ \A r \in Rooms : r # s => file'[r] = file[r]
    BY FillsDoes
  <1>3. proc[p].todo \in Seq(Contents) /\ Len(proc[p].todo) \in 1..2 /\ s \in Rooms
    BY <1>2, BusyIs
  <1>4. DOMAIN proc[p].todo = 1..Len(proc[p].todo)
    BY <1>3
  <1>5. \/ p = "relay" /\ c.key = EncryptPayload(keys)
        \/ p = "rotate" /\ c.key = EncryptPayload(shell)
    BY <1>3, <1>4 DEF KeysOK, WrittenWith, Processes
  <1> HIDE DEF c
  <1>6. proc["rotate"] = Idle => proc'["rotate"] = Idle
    BY <1>2 DEF Processes
  <1>7. AtRest'
    BY <1>1, <1>6 DEF KeysOK, AtRest, Idle
  <1>8. WrittenWith'
    <2>1. DOMAIN Idle.todo = {}
      BY IdleIs
    <2>2. \A i \in DOMAIN proc'[p].todo : i = 1 /\ proc'[p].todo[1] = proc[p].todo[2]
                                          /\ 2 \in DOMAIN proc[p].todo
      BY <1>2, <1>4, <2>1 DEF Writes
    <2>3. \A i \in DOMAIN proc'[p].todo : p = "relay"
      BY <1>2, <2>1
    <2>4. \A i \in DOMAIN proc'["relay"].todo : proc'["relay"].todo[i].key = EncryptPayload(keys)
      BY <1>2, <2>2 DEF KeysOK, WrittenWith, Processes
    <2>5. \A i \in DOMAIN proc'["rotate"].todo :
            proc'["rotate"].todo[i].key = EncryptPayload(shell)
      BY <1>2, <2>3 DEF KeysOK, WrittenWith, Processes
    <2> QED BY <1>1, <2>4, <2>5 DEF WrittenWith
  <1>9. ASSUME order # "broken" PROVE InOrder'
    <2>1. InOrder /\ KeysFollow
      BY <1>9 DEF KeysOK, InOrder
    <2>2. KeysFollow'
      BY <1>1, <1>6, <2>1 DEF KeysFollow, Idle
    <2>3. DecryptPayload(c, env)
      BY <1>5, <2>1, WrittenIsReadable
    <2>4. order \in {"begun", "through"} => c.key = 2
      BY <1>2, <1>5, <2>1, FirstKeys DEF KeysFollow, News
    <2>5. Rotated'
      <3>1. ASSUME NEW r \in Rooms, Whole(file'[r]), file[r].key = 2 \/ r = s,
                   order \in {"begun", "through"}
            PROVE  file'[r].key = 2
        BY <1>2, <2>4, <3>1 DEF Whole
      <3>2. ASSUME order = "begun", NEW r \in Rooms \ pending, Whole(file'[r]), r # s
            PROVE  file'[r].key = 2 \/ proc'["rotate"].room = r
        <4>1. file[r].key = 2 \/ proc["rotate"].room = r
          BY <1>2, <2>1, <3>2 DEF InOrder, Rotated, Busy
        <4>2. proc["rotate"].room = r => proc'["rotate"] = proc["rotate"]
          BY <1>2, <3>2 DEF Processes
        <4> QED BY <1>2, <3>2, <4>1, <4>2
      <3>3. ASSUME order = "through", NEW r \in Rooms, Whole(file'[r]), r # s
            PROVE  file'[r].key = 2
        BY <1>2, <2>1, <3>3 DEF InOrder, Rotated
      <3> QED BY <1>1, <3>1, <3>2, <3>3 DEF Rotated, Busy
    <2>6. FilesReadable'
      <3> SUFFICES ASSUME NEW r \in Rooms, Whole(file'[r])
                   PROVE  DecryptPayload(file'[r], env)
        BY <1>1 DEF FilesReadable
      <3>1. CASE r = s
        BY <1>2, <2>3, <3>1 DEF Whole
      <3>2. CASE r # s
        BY <1>2, <2>1, <3>2 DEF InOrder, FilesReadable
      <3> QED BY <3>1, <3>2
    <2> QED BY <2>2, <2>5, <2>6 DEF InOrder
  <1> QED BY <1>1, <1>7, <1>8, <1>9 DEF KeysOK

LEMMA RotateReadsKeys ==
  ASSUME StorageType, Shape, KeysOK, NEW r \in Rooms, RotateReads(r)
  PROVE  KeysOK'
  <1> DEFINE w == proc'["rotate"]
  <1>1. UNCHANGED <<file, env, keys, shell, stage, order>> /\ pending' = pending \ {r}
    BY DEF RotateReads
  <1>2. /\ stage = "running" /\ r \in pending /\ proc["rotate"] = Idle
        /\ proc'["relay"] = proc["relay"]
        /\ \/ ~Readable(file[r], shell) /\ proc' = proc
           \/ /\ Readable(file[r], shell) /\ Whole(file[r])
              /\ w.room = r /\ DOMAIN w.todo = {1} /\ w.todo[1].key = EncryptPayload(shell)
    BY RotateReadsDoes
  <1>3. AtRest'
    BY <1>1, <1>2 DEF AtRest
  <1>4. WrittenWith'
    BY <1>1, <1>2 DEF KeysOK, WrittenWith
  <1>5. ASSUME order # "broken" PROVE InOrder'
    <2>1. InOrder /\ KeysFollow /\ shell \in KeyLists /\ env \in KeyLists
      BY <1>5 DEF KeysOK, InOrder, StorageType
    <2>2. ASSUME order = "begun", Whole(file[r]) PROVE Readable(file[r], shell)
      <3>1. DecryptPayload(file[r], env)
        BY <2>1, <2>2 DEF InOrder, FilesReadable
      <3>2. shell = <<2, 1>> \/ (shell = <<2>> /\ env = <<2>>)
        BY <2>1, <2>2, ListsDiffer DEF KeysFollow, News, KeyLists
      <3>3. DecryptPayload(file[r], shell)
        BY <2>1, <3>1, <3>2, Decrypts, ListsDiffer
      <3> QED BY <2>2, <3>3 DEF Readable
    <2>3. ASSUME order = "through", Readable(file[r], shell) PROVE shell \in News
      <3>1. file[r].key = 2 /\ DecryptPayload(file[r], shell)
        BY <2>1, <2>3 DEF InOrder, Rotated, Readable
      <3> QED BY <2>1, <3>1, Decrypts DEF News
    <2>4. KeysFollow'
      BY <1>1, <1>2, <2>1, <2>3 DEF KeysFollow
    <2>5. Rotated'
      <3>1. order = "begun" => \A q \in Rooms \ (pending \ {r}) :
              Whole(file[q]) => file[q].key = 2 \/ w.room = q
        <4> SUFFICES ASSUME order = "begun", NEW q \in Rooms \ (pending \ {r}), Whole(file[q])
                     PROVE  file[q].key = 2 \/ w.room = q
          OBVIOUS
        <4>1. CASE q = r
          BY <1>2, <2>2, <4>1
        <4>2. CASE q # r
          BY <1>2, <2>1, <4>2, RoomsAreSomething DEF InOrder, Rotated, Busy
        <4> QED BY <4>1, <4>2
      <3> QED BY <1>1, <2>1, <3>1 DEF InOrder, Rotated, Busy
    <2>6. FilesReadable'
      BY <1>1, <2>1 DEF InOrder, FilesReadable
    <2> QED BY <2>4, <2>5, <2>6 DEF InOrder
  <1> QED BY <1>1, <1>3, <1>4, <1>5 DEF KeysOK

(* A relay that restarts has what is in ombot.env. *)
LEMMA Restarted ==
  ASSUME StorageType, KeysOK, keys' \in {keys, env},
         UNCHANGED <<file, env, shell, stage, order, pending>>,
         proc'["rotate"] = proc["rotate"], proc'["relay"] = Idle
  PROVE  KeysOK'
  <1>1. AtRest'
    BY DEF KeysOK, AtRest, Idle
  <1>2. DOMAIN Idle.todo = {}
    BY IdleIs
  <1>3. WrittenWith'
    BY <1>2 DEF KeysOK, WrittenWith
  <1>4. ASSUME order # "broken" PROVE InOrder'
    <2>1. InOrder /\ KeysFollow /\ keys \in KeyLists /\ env \in KeyLists
      BY <1>4 DEF KeysOK, InOrder, StorageType
    <2>2. order \in {"begun", "through"} => env \in News
      BY <2>1, ListsDiffer DEF KeysFollow, News, KeyLists
    <2>3. KeysFollow'
      BY <2>1, <2>2, ListsDiffer DEF KeysFollow, News, Idle
    <2>4. Rotated' /\ FilesReadable'
      BY <2>1 DEF InOrder, Rotated, FilesReadable, Busy
    <2> QED BY <2>3, <2>4 DEF InOrder
  <1> QED BY <1>1, <1>3, <1>4 DEF KeysOK

LEMMA CrashKeys ==
  ASSUME StorageType, Shape, KeysOK, NEW p \in Processes, Crash(p)
  PROVE  KeysOK'
  <1>1. UNCHANGED <<file, env>>
    BY DEF Crash
  <1>2. proc'[p] = Idle /\ \A q \in Processes : q # p => proc'[q] = proc[q]
    BY CrashDoes
  <1>3. DOMAIN Idle.todo = {}
    BY IdleIs
  <1>4. CASE p = "relay"
    <2>1. /\ keys' \in {keys, env} /\ UNCHANGED <<shell, stage, order, pending>>
          /\ proc'["rotate"] = proc["rotate"] /\ proc'["relay"] = Idle
      BY <1>2, <1>4 DEF Crash, Processes, rotation
    <2> QED BY <1>1, <2>1, Restarted
  <1>5. CASE p = "rotate"
    <2>1. /\ UNCHANGED keys /\ pending' = {} /\ stage' = "none" /\ shell' = <<>>
          /\ order' = IF order = "begun" THEN "none" ELSE order
          /\ proc'["relay"] = proc["relay"] /\ proc'["rotate"] = Idle
      BY <1>2, <1>5 DEF Crash, Processes
    <2>2. AtRest'
      BY <2>1 DEF AtRest, Idle
    <2>3. WrittenWith'
      BY <1>3, <2>1 DEF KeysOK, WrittenWith
    <2>4. ASSUME order' # "broken" PROVE InOrder'
      <3>1. order # "broken" /\ order' # "begun" /\ (order' = "through" => order = "through")
        BY <2>1, <2>4
      <3>2. InOrder /\ KeysFollow
        BY <3>1 DEF KeysOK, InOrder
      <3>3. KeysFollow'
        BY <1>1, <2>1, <3>1, <3>2 DEF KeysFollow, Idle
      <3>4. Rotated' /\ FilesReadable'
        BY <1>1, <3>1, <3>2 DEF InOrder, Rotated, FilesReadable
      <3> QED BY <3>3, <3>4 DEF InOrder
    <2> QED BY <2>2, <2>3, <2>4 DEF KeysOK
  <1> QED BY <1>4, <1>5 DEF Processes

LEMMA AdministersKeys ==
  ASSUME StorageType, Shape, KeysOK, Administers
  PROVE  KeysOK'
  <1>1. UNCHANGED <<file, legacy, proc, known, damaged>>
    BY AdministersTypes
  <1>2. keys \in KeyLists /\ env \in KeyLists /\ shell \in KeyLists
    BY DEF StorageType
  <1>3. CASE AddKey
    <2>1. UNCHANGED <<keys, shell, pending, stage, order>>
      BY <1>3 DEF AddKey, rotation
    <2>2. (env = <<>> /\ env' = <<2>>) \/ (env = <<1>> /\ env' = <<2, 1>>)
      BY <1>3, AddKeyIs
    <2>3. AtRest' /\ WrittenWith'
      BY <1>1, <2>1 DEF KeysOK, AtRest, WrittenWith, Idle
    <2>4. ASSUME order # "broken" PROVE InOrder'
      <3>1. InOrder /\ KeysFollow
        BY <2>4 DEF KeysOK, InOrder
      <3>2. (env = <<>> /\ keys = <<>> /\ shell = <<>>)
            \/ (env = <<1>> /\ keys = <<1>> /\ shell \in {<<>>, <<1>>})
        BY <2>2, <3>1 DEF KeysFollow
      <3>3. order \notin {"begun", "through"}
        BY <3>1, <3>2, ListsDiffer DEF KeysFollow, News
      <3>4. KeysFollow'
        BY <2>1, <2>2, <3>2, <3>3, ListsDiffer DEF KeysFollow
      <3>5. \A r \in Rooms : DecryptPayload(file[r], env) => DecryptPayload(file[r], env')
        <4>1. env' \in KeyLists
          BY <2>2 DEF KeyLists
        <4> QED BY <1>2, <2>2, <4>1, Decrypts, ListsDiffer
      <3>6. Rotated' /\ FilesReadable'
        BY <1>1, <2>1, <3>1, <3>3, <3>5 DEF InOrder, Rotated, FilesReadable
      <3> QED BY <3>4, <3>6 DEF InOrder
    <2> QED BY <2>1, <2>3, <2>4 DEF KeysOK
  <1>4. CASE RemoveOldKey
    <2>1. /\ stage = "done" /\ env = <<2, 1>> /\ env' = <<2>>
          /\ UNCHANGED <<keys, shell, pending, stage>>
          /\ order' = IF order = "through" THEN order ELSE "broken"
      BY <1>4 DEF RemoveOldKey
    <2>2. AtRest' /\ WrittenWith'
      BY <1>1, <2>1 DEF KeysOK, AtRest, WrittenWith, Idle
    <2>3. ASSUME order' # "broken" PROVE InOrder'
      <3>1. order = "through" /\ order' = "through"
        BY <2>1, <2>3
      <3>2. InOrder /\ KeysFollow
        BY <3>1 DEF KeysOK, InOrder
      <3>3. shell = <<>> /\ keys \in News /\ proc["rotate"] = Idle
        BY <2>1, <3>1, <3>2 DEF KeysOK, AtRest, KeysFollow
      <3>4. KeysFollow'
        BY <1>1, <2>1, <3>1, <3>3, ListsDiffer DEF KeysFollow, News, Idle
      <3>5. \A r \in Rooms : Whole(file[r]) => DecryptPayload(file[r], env')
        <4>1. env' \in KeyLists
          BY <2>1 DEF KeyLists
        <4> QED BY <2>1, <3>1, <3>2, <4>1, Decrypts DEF InOrder, Rotated
      <3>6. Rotated' /\ FilesReadable'
        BY <1>1, <3>1, <3>2, <3>5 DEF InOrder, Rotated, FilesReadable
      <3> QED BY <3>4, <3>6 DEF InOrder
    <2> QED BY <2>2, <2>3 DEF KeysOK
  <1>5. CASE RestartRelay
    <2>1. /\ keys' = env /\ UNCHANGED <<env, shell, pending, stage, order>>
          /\ proc["relay"] = Idle
      BY <1>5 DEF RestartRelay, rotation
    <2> QED BY <1>1, <2>1, Restarted
  <1>6. CASE RotateStarts
    <2>1. /\ stage' = "running" /\ UNCHANGED <<keys, env>> /\ stage # "running"
          /\ shell' \in {env, keys, <<>>} \cup (IF env = <<2, 1>> THEN {<<1>>} ELSE {})
      BY <1>6 DEF RotateStarts
    <2>2. order' = order \/ (order' = "none" /\ order \notin {"through", "broken"})
          \/ (order' = "begun" /\ NewFirst(keys) /\ NewFirst(shell')
              /\ pending' = {r \in Rooms : file[r] # Absent})
      BY <1>6 DEF RotateStarts
    <2>3. proc["rotate"] = Idle
      BY <2>1 DEF KeysOK, AtRest
    <2>4. AtRest'
      BY <2>1 DEF AtRest
    <2>5. WrittenWith'
      <3>1. DOMAIN Idle.todo = {}
        BY IdleIs
      <3> QED BY <1>1, <2>1, <2>3, <3>1 DEF KeysOK, WrittenWith
    <2>6. ASSUME order' # "broken" PROVE InOrder'
      <3>0. order # "broken"
        BY <1>6, <2>6 DEF RotateStarts
      <3>1. InOrder /\ KeysFollow
        BY <3>0 DEF KeysOK, InOrder
      <3>2. order # "begun"
        BY <2>1, <3>1 DEF KeysFollow
      <3>3. \A ks \in KeyLists : NewFirst(ks) => ks \in News
        BY DEF NewFirst, KeyLists, News
      <3>4. shell' \in KeyLists
        BY <1>2, <2>1 DEF KeyLists
      <3>5. KeysFollow'
        <4>1. /\ env = <<>> => keys = <<>> /\ shell' = <<>>
              /\ env = <<1>> => keys = <<1>> /\ shell' \in {<<>>, <<1>>}
              /\ env = <<2>> => keys \in {<<>>} \cup News /\ shell' \in {<<>>} \cup News
              /\ env = <<2, 1>> => keys \in {<<1>>, <<2, 1>>} /\ shell' \in {<<>>, <<1>>, <<2, 1>>}
          BY <2>1, <3>1, ListsDiffer DEF KeysFollow, News
        <4>2. order' \in {"begun", "through"} => keys \in News
          BY <1>2, <2>2, <3>1, <3>3 DEF KeysFollow
        <4>3. order' = "begun" => shell' \in News
          BY <2>2, <3>2, <3>3, <3>4
        <4> QED BY <1>1, <2>1, <2>3, <4>1, <4>2, <4>3 DEF KeysFollow, Idle
      <3>6. Rotated'
        BY <1>1, <2>2, <3>1, <3>2 DEF InOrder, Rotated, Whole
      <3>7. FilesReadable'
        BY <1>1, <2>1, <3>1 DEF InOrder, FilesReadable
      <3> QED BY <3>5, <3>6, <3>7 DEF InOrder
    <2> QED BY <2>4, <2>5, <2>6 DEF KeysOK
  <1>7. CASE RotateEnds
    <2>1. /\ stage = "running" /\ stage' = "done" /\ UNCHANGED <<keys, env, pending>>
          /\ pending = {} /\ proc["rotate"] = Idle /\ shell' = <<>>
          /\ order' = IF order = "begun" THEN "through" ELSE order
      BY <1>7 DEF RotateEnds
    <2>2. AtRest'
      BY <1>1, <2>1 DEF AtRest, Idle
    <2>3. WrittenWith'
      <3>1. DOMAIN Idle.todo = {}
        BY IdleIs
      <3> QED BY <1>1, <2>1, <3>1 DEF KeysOK, WrittenWith
    <2>4. ASSUME order' # "broken" PROVE InOrder'
      <3>1. InOrder /\ KeysFollow /\ order' # "begun"
        BY <2>1, <2>4 DEF KeysOK, InOrder
      <3>2. order' = "through" => order \in {"begun", "through"}
        BY <2>1
      <3>3. KeysFollow'
        BY <1>1, <2>1, <3>1, <3>2 DEF KeysFollow, Idle
      <3>4. order' = "through" => \A r \in Rooms : Whole(file[r]) => file[r].key = 2
        BY <2>1, <3>1, <3>2, RoomsAreSomething DEF InOrder, Rotated, Busy
      <3>5. Rotated' /\ FilesReadable'
        BY <1>1, <2>1, <3>1, <3>4 DEF InOrder, Rotated, FilesReadable
      <3> QED BY <3>3, <3>5 DEF InOrder
    <2> QED BY <2>2, <2>3, <2>4 DEF KeysOK
  <1> QED BY <1>3, <1>4, <1>5, <1>6, <1>7 DEF Administers

-----------------------------------------------------------------------------
(* One room, step by step. *)

(* A room that a step does not touch. *)
LEMMA OtherRoom ==
  ASSUME NEW r \in Rooms, RoomOK(r),
         file'[r] = file[r], known'[r] = known[r], legacy' = legacy,
         r \in damaged' <=> r \in damaged,
         \A p \in Processes : \/ proc'[p] = proc[p]
                              \/ proc[p].room # r /\ proc'[p].room # r
  PROVE  RoomOK(r)'
  <1>1. \A p \in Processes :
          /\ proc'[p].room = r <=> proc[p].room = r
          /\ proc'[p].room = r => proc'[p] = proc[p]
    OBVIOUS
  <1>2. Topped(r)' /\ LegacyPair(r)'
    BY <1>1 DEF RoomOK, Topped, LegacyPair, Busy
  <1>3. Unwritten(r)' /\ Alone(r)'
    BY <1>1 DEF RoomOK, Unwritten, Alone, Busy, Processes
  <1>4. Remembered(r)'
    BY <1>1 DEF RoomOK, Remembered, Busy, Processes
  <1> QED BY <1>2, <1>3, <1>4 DEF RoomOK

LEMMA RegisterRoom ==
  ASSUME StorageType, Shape,
         NEW r \in Rooms, NEW n \in Names, NEW b \in Boxes \cup {None}, Register(r, n, b),
         RoomOK(r)
  PROVE  RoomOK(r)'
  <1> DEFINE w == proc'["relay"]
             old == Load(r)
  <1>1. w = proc'["relay"]
    OBVIOUS
  <1> HIDE DEF w
  <1>2. /\ proc["relay"] = Idle /\ proc'["rotate"] = proc["rotate"]
        /\ w.room = r /\ w.open = FALSE /\ w.name = n /\ w.box = b
        /\ Len(w.todo) \in 1..2 /\ 1 \in DOMAIN w.todo /\ Len(w.todo) \in DOMAIN w.todo
        /\ OfOnePair(w, r) /\ KeepsKnown(w, r, n, b)
    <2>1. proc["relay"] = Idle /\ proc'["rotate"] = proc["rotate"]
      BY DEF Register, StorageType, Processes
    <2>2. w.room = r /\ w.open = FALSE /\ w.name = n /\ w.box = b
      <3>1. w = Registering(r, n, b)
        BY <1>1 DEF Register, StorageType, Processes
      <3> QED BY <3>1 DEF Registering
    <2>3. Len(w.todo) \in 1..2 /\ 1 \in DOMAIN w.todo /\ Len(w.todo) \in DOMAIN w.todo
      BY <1>1, RegisterDoes
    <2>4. OfOnePair(w, r) /\ KeepsKnown(w, r, n, b)
      BY <1>1, RegisterDoes
    <2> QED BY <2>1, <2>2, <2>3, <2>4
  <1>3. /\ UNCHANGED <<file, legacy>>
        /\ damaged' = IF Busy("rotate", r) \/ (Whole(file[r]) /\ ~Readable(file[r], keys))
                      THEN damaged \cup {r} ELSE damaged \ {r}
    BY DEF Register
  <1>4. r \in damaged =>
          known' = [known EXCEPT ![r] =
                     [pair |-> w.todo[1].pair, peers |-> IF Whole(old) THEN old.peers ELSE Nobody]]
    <2>1. w = Registering(r, n, b)
      BY <1>1 DEF Register, StorageType, Processes
    <2> QED BY <2>1 DEF Register
  <1>5. r \notin damaged => UNCHANGED known
    BY DEF Register
  <1>6. /\ Readable(file[r], keys) => old = file[r] /\ Whole(file[r])
        /\ ~Readable(file[r], keys) => old = legacy[r]
    BY LoadIs DEF Readable
  <1> HIDE DEF old
  <1>7. ~Busy("relay", r)
    BY <1>2, RoomsAreSomething DEF Busy
  <1>8. Topped(r)'
    <2>1. \A i \in DOMAIN w.todo : OnTop(w.todo[i])
      BY <1>2 DEF OfOnePair
    <2> QED BY <1>1, <1>2, <1>3, <2>1 DEF RoomOK, Topped, Busy, Processes
  <1>9. LegacyPair(r)'
    <2> SUFFICES ASSUME Whole(legacy[r]) PROVE LegacyPair(r)'
      BY <1>3 DEF LegacyPair
    <2>1. Whole(old) /\ old.pair = legacy[r].pair
      BY <1>6 DEF RoomOK, LegacyPair
    <2>2. \A i \in DOMAIN w.todo : w.todo[i].pair = legacy[r].pair
      BY <1>2, <2>1 DEF OfOnePair, old
    <2> QED BY <1>1, <1>2, <1>3, <2>2 DEF RoomOK, LegacyPair, Busy, Processes
  <1>10. Unwritten(r)'
    <2> SUFFICES ASSUME file[r] = Absent PROVE Unwritten(r)'
      BY <1>3 DEF Unwritten
    <2>1. r \notin damaged /\ ~Busy("rotate", r)
      BY DEF RoomOK, Unwritten
    <2>2. r \notin damaged' /\ ~Busy("rotate", r)' /\ known' = known
      BY <1>2, <1>3, <1>5, <2>1 DEF Busy, Whole
    <2> QED BY <1>3, <2>2 DEF RoomOK, Unwritten
  <1> SUFFICES ASSUME r \notin damaged' PROVE Alone(r)' /\ Remembered(r)'
    BY <1>8, <1>9, <1>10 DEF RoomOK, Alone, Remembered
  <1>11. ~Busy("rotate", r) /\ ~Busy("rotate", r)' /\ Busy("relay", r)'
    BY <1>1, <1>2, <1>3 DEF Busy
  <1>16. Readable(file[r], keys) <=> Whole(file[r])
    BY <1>3 DEF Readable
  <1>12. Alone(r)'
    BY <1>1, <1>2, <1>11 DEF Alone, Processes
  <1>13. /\ Whole(file[r]) => Agrees(known'[r], file[r])
         /\ Whole(old) => Agrees(known'[r], old)
         /\ ~Whole(old) => /\ known'[r].pair \in {None, w.todo[1].pair}
                           /\ \A m \in Names : known'[r].peers[m] = None
    <2>1. CASE r \in damaged
      <3>1. /\ known'[r].pair = w.todo[1].pair
            /\ known'[r].peers = IF Whole(old) THEN old.peers ELSE Nobody
        BY <1>4, <2>1 DEF StorageType
      <3>2. Whole(old) => Agrees(known'[r], old)
        <4>1. Whole(old) => w.todo[1].pair = old.pair
          BY <1>2 DEF OfOnePair, old
        <4> QED BY <3>1, <4>1 DEF Agrees
      <3> QED BY <1>6, <1>16, <3>1, <3>2 DEF Nobody
    <2>2. CASE r \notin damaged
      <3>1. known' = known
        BY <1>5, <2>2
      <3>2. file[r] # Torn
        BY <1>7, <1>11, <2>2 DEF RoomOK, Alone, Processes
      <3>3. Whole(file[r]) => Agrees(known[r], file[r])
        BY <2>2 DEF RoomOK, Remembered
      <3>4. ~Whole(file[r]) => file[r] = Absent
        BY <3>2 DEF Whole
      <3>5. file[r] = Absent =>
              /\ Whole(legacy[r]) => Agrees(known[r], legacy[r])
              /\ ~Whole(legacy[r]) => known[r].pair = None /\ \A m \in Names : known[r].peers[m] = None
        BY DEF RoomOK, Unwritten
      <3> QED BY <1>6, <1>16, <3>1, <3>3, <3>4, <3>5
    <2> QED BY <2>1, <2>2
  <1>14. /\ Joins(known'[r], w.todo[Len(w.todo)], n, b)
         /\ Len(w.todo) = 2 => Agrees(known'[r], w.todo[1])
    <2>1. CASE Whole(old)
      <3>1. Len(w.todo) = 1 /\ \A k : Agrees(k, old) => Joins(k, w.todo[1], n, b)
        BY <1>2, <2>1 DEF KeepsKnown, old
      <3>2. Joins(known'[r], w.todo[1], n, b)
        BY <1>13, <2>1, <3>1
      <3> QED BY <3>1, <3>2
    <2>2. CASE ~Whole(old)
      BY <1>2, <1>13, <2>2 DEF KeepsKnown, old
    <2> QED BY <2>1, <2>2
  <1>15. Remembered(r)'
    BY <1>1, <1>2, <1>3, <1>11, <1>13, <1>14 DEF Remembered
  <1> QED BY <1>12, <1>15

LEMMA OpensRoom ==
  ASSUME StorageType, Shape, NEW p \in Processes, Opens(p),
         NEW r \in Rooms, r = proc[p].room, RoomOK(r)
  PROVE  RoomOK(r)'
  <1>1. /\ \A q \in Processes : q # p => proc'[q] = proc[q]
        /\ proc'[p].room = proc[p].room /\ proc'[p].todo = proc[p].todo
        /\ proc'[p].name = proc[p].name /\ proc'[p].box = proc[p].box
    BY OpensDoes
  <1>2. file'[r] = Torn /\ UNCHANGED <<legacy, known, damaged>>
    BY DEF Opens, StorageType
  <1>3. \A q \in Processes :
          /\ Busy(q, r)' <=> Busy(q, r)
          /\ proc'[q].todo = proc[q].todo /\ proc'[q].name = proc[q].name
          /\ proc'[q].box = proc[q].box
    BY <1>1 DEF Busy
  <1>4. ~Whole(file'[r]) /\ file'[r] # Absent
    BY <1>2, NoFileIsNoContents DEF Whole
  <1>5. Topped(r)' /\ LegacyPair(r)' /\ Unwritten(r)'
    <2>1. Topped(r)'
      BY <1>2, <1>3, <1>4 DEF RoomOK, Topped
    <2>2. LegacyPair(r)'
      BY <1>2, <1>3, <1>4 DEF RoomOK, LegacyPair
    <2>3. Unwritten(r)'
      BY <1>2, <1>3, <1>4 DEF RoomOK, Unwritten
    <2> QED BY <2>1, <2>2, <2>3
  <1>6. Alone(r)'
    <2>1. Busy(p, r)
      BY DEF Busy
    <2> QED BY <1>2, <1>3, <2>1 DEF RoomOK, Alone, Processes
  <1>7. Remembered(r)'
    BY <1>2, <1>3, <1>4 DEF RoomOK, Remembered, Processes
  <1> QED BY <1>5, <1>6, <1>7 DEF RoomOK

LEMMA FillsRoom ==
  ASSUME StorageType, Shape, NEW p \in Processes, Fills(p),
         NEW r \in Rooms, r = proc[p].room, RoomOK(r)
  PROVE  RoomOK(r)'
  <1> DEFINE c == proc[p].todo[1]
             more == p = "relay" /\ Writes(proc[p], proc'[p])
  <1>1. /\ \A q \in Processes : q # p => proc'[q] = proc[q]
        /\ proc[p] # Idle /\ c \in Contents
        /\ (Len(proc[p].todo) = 1 /\ proc'[p] = Idle) \/ more
        /\ file'[r] \in {c, Torn}
        /\ file[r] = Torn => file'[r] = c
    BY FillsDoes
  <1>2. UNCHANGED <<legacy, damaged>> /\ proc[p].open
    BY DEF Fills
  <1>3. proc[p].todo \in Seq(Contents) /\ Len(proc[p].todo) \in 1..2
    BY <1>1, BusyIs
  <1>4. 1 \in DOMAIN proc[p].todo /\ (Len(proc[p].todo) = 2 => 2 \in DOMAIN proc[p].todo)
    BY <1>3
  <1>5. Whole(c)
    BY <1>1, ContentsHave
  <1>6. Busy(p, r)
    BY DEF Busy
  <1>7. Whole(file'[r]) => file'[r] = c
    BY <1>1 DEF Whole
  <1>8. file'[r] # Absent
    BY <1>1, <1>5, NoFileIsNoContents DEF Whole
  <1> HIDE DEF c
  <1>9. \A q \in Processes : Busy(q, r)' => Busy(q, r)
    BY <1>1, <1>6, RoomsAreSomething DEF Busy
  <1>10. Busy(p, r)' => \A i \in DOMAIN proc'[p].todo :
                          \E j \in DOMAIN proc[p].todo : proc'[p].todo[i] = proc[p].todo[j]
    <2>1. Busy(p, r)' => more
      BY <1>1, RoomsAreSomething DEF Busy
    <2> QED BY <1>4, <2>1 DEF Writes
  <1>11. \A q \in Processes : Busy(q, r)' =>
           \A i \in DOMAIN proc'[q].todo :
             \E j \in DOMAIN proc[q].todo : proc'[q].todo[i] = proc[q].todo[j]
    BY <1>1, <1>10
  <1>12. Topped(r)'
    <2>1. \A q \in Processes : Busy(q, r) => \A j \in DOMAIN proc[q].todo : OnTop(proc[q].todo[j])
      BY DEF RoomOK, Topped
    <2>2. OnTop(c)
      BY <1>4, <1>6, <2>1 DEF c
    <2>3. \A q \in Processes : Busy(q, r)' => \A i \in DOMAIN proc'[q].todo : OnTop(proc'[q].todo[i])
      BY <1>9, <1>11, <2>1
    <2> QED BY <1>2, <1>7, <2>2, <2>3 DEF RoomOK, Topped
  <1>13. LegacyPair(r)'
    <2> SUFFICES ASSUME Whole(legacy[r]) PROVE LegacyPair(r)'
      BY <1>2 DEF LegacyPair
    <2>1. \A q \in Processes : Busy(q, r) =>
            \A j \in DOMAIN proc[q].todo : proc[q].todo[j].pair = legacy[r].pair
      BY DEF RoomOK, LegacyPair
    <2>2. c.pair = legacy[r].pair
      BY <1>4, <1>6, <2>1 DEF c
    <2>3. \A q \in Processes : Busy(q, r)' =>
            \A i \in DOMAIN proc'[q].todo : proc'[q].todo[i].pair = legacy[r].pair
      BY <1>9, <1>11, <2>1
    <2> QED BY <1>2, <1>7, <2>2, <2>3 DEF LegacyPair
  <1>14. Unwritten(r)'
    BY <1>8 DEF Unwritten
  <1> SUFFICES ASSUME r \notin damaged PROVE Alone(r)' /\ Remembered(r)'
    BY <1>2, <1>12, <1>13, <1>14 DEF RoomOK, Alone, Remembered
  <1>15. \A q \in Processes : q # p => ~Busy(q, r) /\ ~Busy(q, r)'
    BY <1>6, <1>9 DEF RoomOK, Alone, Processes
  <1>16. file'[r] = c
    <2>1. file[r] = Torn
      BY <1>2, <1>6 DEF RoomOK, Alone
    <2> QED BY <1>1, <2>1
  <1>17. Alone(r)'
    <2>1. Busy(p, r)' => proc'[p].open = FALSE
      BY <1>1, RoomsAreSomething DEF Busy, Writes
    <2>2. file'[r] # Torn
      BY <1>5, <1>16 DEF Whole
    <2> QED BY <1>15, <2>1, <2>2 DEF Alone, Processes
  <1>18. CASE p = "rotate"
    <2>1. Agrees(known[r], c)
      BY <1>6, <1>18 DEF RoomOK, Remembered, c
    <2>2. known' = known
      BY <1>18, FillsTells
    <2>3. ~Busy("rotate", r)' /\ ~Busy("relay", r)'
      BY <1>1, <1>15, <1>18, RoomsAreSomething DEF Busy, Processes
    <2> QED BY <1>16, <1>17, <2>1, <2>2, <2>3 DEF Remembered
  <1>19. CASE p = "relay"
    <2>1. ~Busy("rotate", r)'
      BY <1>15, <1>19 DEF Processes
    <2>2. CASE Len(proc[p].todo) = 1
      <3>1. proc'[p] = Idle
        BY <1>1, <2>2 DEF Writes
      <3>2. Joins(known[r], c, proc[p].name, proc[p].box)
        BY <1>6, <1>19, <2>2 DEF RoomOK, Remembered, c
      <3>3. Agrees(known'[r], c)
        BY <1>19, <2>2, <3>2, FillsTells DEF c
      <3>4. ~Busy("relay", r)'
        BY <1>19, <3>1, RoomsAreSomething DEF Busy
      <3> QED BY <1>16, <1>17, <2>1, <3>3, <3>4 DEF Remembered
    <2>3. CASE Len(proc[p].todo) = 2
      <3>1. Writes(proc[p], proc'[p])
        BY <1>1, <2>3
      <3>2. known' = known
        BY <2>3, FillsTells
      <3>3. /\ Agrees(known[r], c)
            /\ Joins(known[r], proc[p].todo[2], proc[p].name, proc[p].box)
        BY <1>6, <1>19, <2>3 DEF RoomOK, Remembered, c
      <3>4. Joins(known'[r], proc'[p].todo[Len(proc'[p].todo)], proc'[p].name, proc'[p].box)
        BY <3>1, <3>2, <3>3 DEF Writes
      <3>5. Len(proc'[p].todo) # 2
        BY <3>1 DEF Writes
      <3> QED BY <1>16, <1>17, <1>19, <2>1, <3>2, <3>3, <3>4, <3>5 DEF Remembered
    <2> QED BY <1>3, <2>2, <2>3
  <1> QED BY <1>18, <1>19 DEF Processes

LEMMA RotateReadsRoom ==
  ASSUME StorageType, Shape, KeysOK, NEW r \in Rooms, RotateReads(r), RoomOK(r)
  PROVE  RoomOK(r)'
  <1> DEFINE w == proc'["rotate"]
  <1>1. w = proc'["rotate"]
    OBVIOUS
  <1>2. UNCHANGED <<file, legacy, known>>
    BY DEF RotateReads
  <1> HIDE DEF w
  <1>3. /\ proc["rotate"] = Idle /\ proc'["relay"] = proc["relay"]
        /\ \/ UNCHANGED <<proc, damaged>>
           \/ /\ Whole(file[r])
              /\ damaged' = IF Busy("relay", r) THEN damaged \cup {r} ELSE damaged
              /\ w.room = r /\ w.open = FALSE /\ Len(w.todo) = 1 /\ DOMAIN w.todo = {1}
              /\ OnTop(w.todo[1]) /\ w.todo[1].pair = file[r].pair
              /\ OnTop(file[r]) =>
                   \A k : Agrees(k, file[r]) => Agrees(k, w.todo[1])
    BY <1>1, RotateReadsDoes
  <1>4. CASE UNCHANGED <<proc, damaged>>
    BY <1>2, <1>4, OtherRoom
  <1>5. CASE ~UNCHANGED <<proc, damaged>>
    <2>1. Topped(r)'
      BY <1>1, <1>2, <1>3, <1>5 DEF RoomOK, Topped, Busy, Processes
    <2>2. LegacyPair(r)'
      BY <1>1, <1>2, <1>3, <1>5 DEF RoomOK, LegacyPair, Busy, Processes
    <2>3. Unwritten(r)'
      BY <1>2, <1>3, <1>5 DEF Unwritten, Whole
    <2> SUFFICES ASSUME r \notin damaged' PROVE Alone(r)' /\ Remembered(r)'
      BY <2>1, <2>2, <2>3 DEF RoomOK, Alone, Remembered
    <2>4. r \notin damaged /\ ~Busy("relay", r) /\ ~Busy("relay", r)'
      BY <1>3, <1>5 DEF Busy
    <2>5. Alone(r)'
      BY <1>1, <1>2, <1>3, <1>5, <2>4 DEF Alone, Busy, Whole, Processes
    <2>6. Agrees(known[r], w.todo[1]) /\ Agrees(known[r], file[r])
      BY <1>3, <1>5, <2>4 DEF RoomOK, Remembered, Topped
    <2>7. Remembered(r)'
      BY <1>1, <1>2, <2>4, <2>6 DEF Remembered
    <2> QED BY <2>5, <2>7
  <1> QED BY <1>4, <1>5

LEMMA CrashRoom ==
  ASSUME StorageType, Shape, NEW p \in Processes, Crash(p),
         NEW r \in Rooms, r = proc[p].room, RoomOK(r)
  PROVE  RoomOK(r)'
  <1>1. proc'[p] = Idle /\ \A q \in Processes : q # p => proc'[q] = proc[q]
    BY CrashDoes
  <1>2. /\ UNCHANGED <<file, legacy, known>>
        /\ damaged' = IF file[r] = Torn THEN damaged \cup {r} ELSE damaged
    BY DEF Crash
  <1>3. \A q \in Processes : Busy(q, r)' => Busy(q, r) /\ proc'[q] = proc[q]
    BY <1>1, RoomsAreSomething DEF Busy
  <1>4. Topped(r)' /\ LegacyPair(r)'
    BY <1>2, <1>3 DEF RoomOK, Topped, LegacyPair
  <1>5. Unwritten(r)'
    <2> SUFFICES ASSUME file[r] = Absent PROVE Unwritten(r)'
      BY <1>2 DEF Unwritten
    <2>1. r \notin damaged'
      BY <1>2, NoFileIsNoContents DEF RoomOK, Unwritten
    <2> QED BY <1>2, <1>3, <2>1 DEF RoomOK, Unwritten, Processes
  <1> SUFFICES ASSUME r \notin damaged' PROVE Alone(r)' /\ Remembered(r)'
    BY <1>4, <1>5 DEF RoomOK, Alone, Remembered
  <1>6. r \notin damaged /\ file[r] # Torn
    BY <1>2
  <1>7. Alone(r)'
    BY <1>2, <1>3, <1>6 DEF RoomOK, Alone, Processes
  <1>8. Remembered(r)'
    BY <1>2, <1>3, <1>6 DEF RoomOK, Remembered, Processes
  <1> QED BY <1>7, <1>8

-----------------------------------------------------------------------------
(* The invariant. *)

LEMMA LegacyFilesAre ==
  ASSUME NEW c \in LegacyFiles
  PROVE  c \in Contents /\ OnTop(c)
  <1> DEFINE pair == CHOOSE p \in Pairs : TRUE
  <1>1. pair \in Pairs
    <2>1. \E p \in Pairs : TRUE
      BY PairsAreFresh
    <2> QED BY <2>1
  <1> HIDE DEF pair
  <1>2. PICK b \in Boxes \cup {None} :
          c = [pair |-> pair, top |-> b, key |-> 0, peers |-> [Nobody EXCEPT ![Default] = b]]
    BY DEF LegacyFiles, pair
  <1>3. /\ [Nobody EXCEPT ![Default] = b] \in Peers
        /\ [Nobody EXCEPT ![Default] = b][Default] = b
    BY DefaultIsAName DEF Nobody, Peers
  <1>4. c \in Contents
    BY <1>1, <1>2, <1>3 DEF Contents
  <1>5. OnTop(c)
    BY <1>2, <1>3 DEF OnTop
  <1> QED BY <1>4, <1>5

LEMMA InitIsOK ==
  ASSUME Init
  PROVE  StorageInv
  <1> DEFINE pair == CHOOSE p \in Pairs : TRUE
  <1>1. /\ env \in {<<>>, <<1>>} /\ keys = env /\ shell = <<>> /\ pending = {}
        /\ stage = "none" /\ order = "none" /\ crashes = 0 /\ damaged = {}
        /\ proc = [p \in {"relay", "rotate"} |-> Idle]
        /\ file \in [Rooms -> FirstFiles \cup {Absent}]
    BY DEF Init
  <1>2. /\ legacy \in [Rooms -> Contents \cup {Absent}]
        /\ \A r \in Rooms : Whole(legacy[r]) =>
             legacy[r] \in Contents /\ OnTop(legacy[r]) /\ legacy[r].pair = pair
    <2>1. legacy \in [Rooms -> LegacyFiles \cup {Absent}]
      BY DEF Init
    <2>2. \A c \in LegacyFiles : c \in Contents /\ OnTop(c) /\ c.pair = pair
      <3>1. \A c \in LegacyFiles : c.pair = pair
        BY DEF LegacyFiles
      <3> QED BY <3>1, LegacyFilesAre
    <2> HIDE DEF pair
    <2> QED BY <2>1, <2>2 DEF Whole
  <1>3. /\ file \in [Rooms -> Contents \cup {Torn, Absent}]
        /\ \A r \in Rooms : file[r] # Torn
        /\ \A r \in Rooms : Whole(file[r]) =>
             /\ file[r] \in Contents /\ OnTop(file[r]) /\ file[r].pair = pair
             /\ file[r].key = EncryptPayload(env)
    <2>1. pair \in Pairs
      <3>1. \E p \in Pairs : TRUE
        BY PairsAreFresh
      <3> QED BY <3>1
    <2>2. env \in KeyLists /\ Nobody \in Peers
      BY <1>1 DEF KeyLists, Nobody, Peers
    <2>3. FirstFiles = {Saved(pair, Nobody, b, Default, env) : b \in Boxes}
      BY DEF FirstFiles
    <2> HIDE DEF pair
    <2>4. \A c \in FirstFiles :
            c \in Contents /\ OnTop(c) /\ c.pair = pair /\ c.key = EncryptPayload(env)
      <3> SUFFICES ASSUME NEW b \in Boxes, NEW c, c = Saved(pair, Nobody, b, Default, env)
                   PROVE  c \in Contents /\ OnTop(c) /\ c.pair = pair /\ c.key = EncryptPayload(env)
        BY <2>3
      <3> QED BY <2>1, <2>2, SavedIs, DefaultIsAName
    <2> QED BY <1>1, <2>4, NoFileIsNoContents DEF Whole
  <1> HIDE DEF pair
  <1>4. \A r \in Rooms :
          /\ Whole(file[r]) => known[r] = Told(file[r])
          /\ ~Whole(file[r]) /\ Whole(legacy[r]) => known[r] = Told(legacy[r])
          /\ ~Whole(file[r]) /\ ~Whole(legacy[r]) => known[r] = [pair |-> None, peers |-> Nobody]
    BY DEF Init
  <1>5. \A c : Told(c).pair = c.pair /\ Told(c).peers = c.peers
    BY DEF Told
  <1>6. known \in [Rooms -> [pair : Pairs \cup {None}, peers : Peers]]
    <2>1. Nobody \in Peers
      BY DEF Nobody, Peers
    <2>2. \A c \in Contents : Told(c) \in [pair : Pairs \cup {None}, peers : Peers]
      BY ContentsHave DEF Told
    <2>3. ASSUME NEW r \in Rooms
          PROVE  known[r] \in [pair : Pairs \cup {None}, peers : Peers]
      <3>1. CASE Whole(file[r])
        <4>1. file[r] \in Contents /\ known[r] = Told(file[r])
          BY <1>3, <1>4, <2>3, <3>1
        <4> QED BY <4>1, <2>2
      <3>2. CASE ~Whole(file[r]) /\ Whole(legacy[r])
        <4>1. legacy[r] \in Contents /\ known[r] = Told(legacy[r])
          BY <1>2, <1>4, <2>3, <3>2 DEF Whole
        <4> QED BY <4>1, <2>2
      <3>3. CASE ~Whole(file[r]) /\ ~Whole(legacy[r])
        BY <1>4, <2>1, <2>3, <3>3
      <3> QED BY <3>1, <3>2, <3>3
    <2>4. known = [r \in Rooms |-> known[r]]
      BY DEF Init
    <2> QED BY <2>3, <2>4
  <1>7. proc \in [Processes -> Writings] /\ \A p \in Processes : proc[p] = Idle
    BY <1>1, IdleIs DEF Processes
  <1>8. StorageType
    BY <1>1, <1>2, <1>3, <1>6, <1>7, CrashesAreNat DEF StorageType, KeyLists
  <1>9. Shape
    <2>1. Len(Idle.todo) = 0 /\ Idle.room = None
      BY IdleIs
    <2> QED BY <1>7, <2>1 DEF Shape, Processes
  <1>10. KeysOK
    <2>1. AtRest
      BY <1>1, <1>7 DEF AtRest, Processes
    <2>2. WrittenWith
      <3>1. DOMAIN Idle.todo = {}
        BY IdleIs
      <3> QED BY <1>7, <3>1 DEF WrittenWith, Processes
    <2>3. KeysFollow
      BY <1>1, ListsDiffer DEF KeysFollow
    <2>4. Rotated /\ FilesReadable
      <3>1. \A r \in Rooms : Whole(file[r]) => DecryptPayload(file[r], env)
        BY <1>1, <1>3, <1>8, <2>3, WrittenIsReadable
      <3> QED BY <1>1, <3>1 DEF Rotated, FilesReadable
    <2> QED BY <2>1, <2>2, <2>3, <2>4 DEF KeysOK, InOrder
  <1>11. ASSUME NEW r \in Rooms PROVE RoomOK(r)
    <2>1. \A p \in Processes : ~Busy(p, r)
      BY <1>7, RoomsAreSomething DEF Busy
    <2>2. Topped(r) /\ LegacyPair(r) /\ Alone(r)
      BY <1>2, <1>3, <2>1 DEF Topped, LegacyPair, Alone, Processes
    <2>3. /\ Whole(file[r]) => Agrees(known[r], file[r])
          /\ ~Whole(file[r]) /\ Whole(legacy[r]) => Agrees(known[r], legacy[r])
      BY <1>4, <1>5 DEF Agrees
    <2>4. ~Whole(file[r]) /\ ~Whole(legacy[r]) =>
            known[r].pair = None /\ \A n \in Names : known[r].peers[n] = None
      <3>1. ~Whole(file[r]) /\ ~Whole(legacy[r]) => known[r].pair = None /\ known[r].peers = Nobody
        BY <1>4
      <3> QED BY <3>1 DEF Nobody
    <2>5. Unwritten(r)
      BY <1>1, <2>1, <2>3, <2>4 DEF Unwritten, Processes, Whole
    <2>6. Remembered(r)
      BY <2>1, <2>3 DEF Remembered, Processes
    <2> QED BY <2>2, <2>5, <2>6 DEF RoomOK
  <1> QED BY <1>8, <1>9, <1>10, <1>11 DEF StorageInv

LEMMA StepIsOK ==
  ASSUME StorageInv, [Next]_vars
  PROVE  StorageInv'
  <1>1. /\ StorageType /\ Shape /\ KeysOK /\ DOMAIN proc = Processes
        /\ \A r \in Rooms : RoomOK(r)
    BY DEF StorageInv, StorageType
  <1>2. ASSUME NEW r \in Rooms, NEW n \in Names, NEW b \in Boxes \cup {None}, Register(r, n, b)
        PROVE  StorageInv'
    <2>1. StorageType' /\ Shape' /\ KeysOK'
      BY <1>1, <1>2, RegisterTypes, RegisterKeys
    <2>2. RoomOK(r)'
      BY <1>1, <1>2, RegisterRoom
    <2>3. ASSUME NEW s \in Rooms, s # r PROVE RoomOK(s)'
      <3> DEFINE w == proc'["relay"]
      <3>1. w = proc'["relay"]
        OBVIOUS
      <3> HIDE DEF w
      <3>2. proc["relay"] = Idle /\ proc'["rotate"] = proc["rotate"] /\ UNCHANGED <<file, legacy>>
        BY <1>1, <1>2 DEF Register, StorageType, Processes
      <3>3. w.room = r
        BY <1>1, <1>2, <3>1, RegisterDoes, ZenonT(60)
      <3>4. known'[s] = known[s] /\ (s \in damaged' <=> s \in damaged)
        BY <1>1, <1>2, <2>3 DEF Register, StorageType
      <3>5. \A p \in Processes : proc'[p] = proc[p] \/ (proc[p].room # s /\ proc'[p].room # s)
        BY <2>3, <3>1, <3>2, <3>3, RoomsAreSomething DEF Processes
      <3> QED BY <1>1, <3>2, <3>4, <3>5, OtherRoom
    <2> QED BY <2>1, <2>2, <2>3 DEF StorageInv
  <1>3. ASSUME NEW p \in Processes, Opens(p) PROVE StorageInv'
    <2>1. StorageType' /\ Shape' /\ KeysOK'
      BY <1>1, <1>3, OpensTypes, OpensKeys
    <2>2. ASSUME NEW s \in Rooms PROVE RoomOK(s)'
      <3>1. CASE s = proc[p].room
        BY <1>1, <1>3, <3>1, OpensRoom
      <3>2. CASE s # proc[p].room
        <4>1. /\ \A q \in Processes : q # p => proc'[q] = proc[q]
              /\ proc'[p].room = proc[p].room
          BY <1>1, <1>3, OpensDoes
        <4>2. file'[s] = file[s] /\ UNCHANGED <<legacy, known, damaged>>
          BY <1>1, <1>3, <3>2 DEF Opens, StorageType
        <4> QED BY <1>1, <3>2, <4>1, <4>2, OtherRoom
      <3> QED BY <3>1, <3>2
    <2> QED BY <2>1, <2>2 DEF StorageInv
  <1>4. ASSUME NEW p \in Processes, Fills(p) PROVE StorageInv'
    <2>1. StorageType' /\ Shape' /\ KeysOK'
      BY <1>1, <1>4, FillsTypes, FillsKeys
    <2>2. ASSUME NEW s \in Rooms PROVE RoomOK(s)'
      <3>1. CASE s = proc[p].room
        BY <1>1, <1>4, <3>1, FillsRoom
      <3>2. CASE s # proc[p].room
        <4>1. /\ \A q \in Processes : q # p => proc'[q] = proc[q]
              /\ proc'[p] = Idle \/ Writes(proc[p], proc'[p])
              /\ file'[s] = file[s]
          BY <1>1, <1>4, <3>2, FillsDoes
        <4>2. proc'[p].room # s
          BY <3>2, <4>1, RoomsAreSomething DEF Writes
        <4>3. known'[s] = known[s]
          BY <1>1, <1>4, <3>2, FillsTells
        <4>4. UNCHANGED <<legacy, damaged>>
          BY <1>4 DEF Fills
        <4> QED BY <1>1, <3>2, <4>1, <4>2, <4>3, <4>4, OtherRoom
      <3> QED BY <3>1, <3>2
    <2> QED BY <2>1, <2>2 DEF StorageInv
  <1>5. ASSUME NEW p \in Processes, Crash(p) PROVE StorageInv'
    <2>1. StorageType' /\ Shape' /\ KeysOK'
      BY <1>1, <1>5, CrashTypes, CrashKeys
    <2>2. ASSUME NEW s \in Rooms PROVE RoomOK(s)'
      <3>1. CASE s = proc[p].room
        BY <1>1, <1>5, <3>1, CrashRoom
      <3>2. CASE s # proc[p].room
        <4>1. proc'[p] = Idle /\ \A q \in Processes : q # p => proc'[q] = proc[q]
          BY <1>1, <1>5, CrashDoes
        <4>2. UNCHANGED <<file, legacy, known>> /\ (s \in damaged' <=> s \in damaged)
          BY <1>5, <3>2 DEF Crash
        <4> QED BY <1>1, <3>2, <4>1, <4>2, RoomsAreSomething, OtherRoom
      <3> QED BY <3>1, <3>2
    <2> QED BY <2>1, <2>2 DEF StorageInv
  <1>6. ASSUME NEW r \in Rooms, RotateReads(r) PROVE StorageInv'
    <2>1. StorageType' /\ Shape' /\ KeysOK'
      BY <1>1, <1>6, RotateReadsTypes, RotateReadsKeys
    <2>2. RoomOK(r)'
      BY <1>1, <1>6, RotateReadsRoom
    <2>3. ASSUME NEW s \in Rooms, s # r PROVE RoomOK(s)'
      <3> DEFINE w == proc'["rotate"]
      <3>1. w = proc'["rotate"]
        OBVIOUS
      <3> HIDE DEF w
      <3>2. /\ proc["rotate"] = Idle /\ proc'["relay"] = proc["relay"]
            /\ proc' = proc \/ w.room = r
        BY <1>1, <1>6, <3>1, RotateReadsDoes
      <3>3. UNCHANGED <<file, legacy, known>> /\ (s \in damaged' <=> s \in damaged)
        BY <1>6, <2>3 DEF RotateReads
      <3>4. \A p \in Processes : proc'[p] = proc[p] \/ (proc[p].room # s /\ proc'[p].room # s)
        BY <2>3, <3>1, <3>2, RoomsAreSomething DEF Processes
      <3> QED BY <1>1, <3>3, <3>4, OtherRoom
    <2> QED BY <2>1, <2>2, <2>3 DEF StorageInv
  <1>7. CASE Administers
    <2>1. StorageType' /\ Shape' /\ KeysOK' /\ UNCHANGED <<file, legacy, proc, known, damaged>>
      BY <1>1, <1>7, AdministersTypes, AdministersKeys
    <2>2. \A s \in Rooms : RoomOK(s)'
      BY <1>1, <2>1, OtherRoom
    <2> QED BY <2>1, <2>2 DEF StorageInv
  <1>8. CASE UNCHANGED vars
    <2>1. UNCHANGED <<file, legacy, env, keys, proc, shell, pending, stage, order, crashes, known,
                       damaged>>
      BY <1>8 DEF vars, rotation
    <2>2. StorageType' /\ Shape'
      BY <1>1, <2>1 DEF StorageType, Shape
    <2>3. KeysOK'
      BY <1>1, <2>1 DEF KeysOK, AtRest, InOrder, KeysFollow, WrittenWith, Rotated, FilesReadable,
         Busy
    <2>4. \A s \in Rooms : RoomOK(s)'
      BY <1>1, <2>1, OtherRoom
    <2> QED BY <2>2, <2>3, <2>4 DEF StorageInv
  <1> QED BY <1>1, <1>2, <1>3, <1>4, <1>5, <1>6, <1>7, <1>8 DEF Next, Administers

(* The invariant holds of the relay, the rotation and the administrator together. *)
THEOREM StorageInvariant == Spec => []StorageInv
  <1>1. Init => StorageInv
    BY InitIsOK
  <1>2. StorageInv /\ [Next]_vars => StorageInv'
    BY StepIsOK
  <1> QED BY <1>1, <1>2, PTL DEF Spec

(* Whenever and from whatever environment the rotation runs, and whatever the relay
   writes and crashes, a restarted relay can read every whole key file, and a running one
   all but those under a new key it has not read, unless the old key was taken out before
   a rotation in the order of RUNBOOK.md had gone through (encryptPayload and
   decryptPayload, rotateChatroomKeysEncryptionSync). *)
THEOREM NobodyIsLockedOut == Spec => []RotationKeepsFilesReadable
  <1>1. StorageInv => TypeOK
    <2> SUFFICES ASSUME StorageInv PROVE TypeOK
      OBVIOUS
    <2>1. StorageType /\ Shape /\ DOMAIN proc = Processes
      BY DEF StorageInv, StorageType
    <2>2. \A p \in Processes :
            /\ proc[p].room \in Rooms \cup {None} /\ proc[p].open \in BOOLEAN
            /\ \A i \in DOMAIN proc[p].todo : proc[p].todo[i] \in Contents
      <3>1. \A p \in Processes : proc[p] \in Writings
        BY <2>1 DEF StorageType
      <3> QED BY <2>1, <3>1, BusyIs DEF Writings
    <2> QED BY <2>1, <2>2 DEF TypeOK, StorageType, KeyLists, Processes
  <1>2. StorageInv => RotationKeepsFilesReadable
    <2> SUFFICES ASSUME StorageInv, order # "broken", NEW r \in Rooms, Whole(file[r])
                 PROVE  /\ DecryptPayload(file[r], env)
                        /\ \/ DecryptPayload(file[r], keys)
                           \/ file[r].key = 2 /\ ~NewFirst(keys)
      BY <1>1 DEF RotationKeepsFilesReadable
    <2>1. StorageType /\ InOrder
      BY DEF StorageInv, KeysOK
    <2> QED BY <2>1, OfRelayToo DEF InOrder, FilesReadable
  <1> QED BY <1>2, StorageInvariant, PTL

(* Registrations, restarts and rotations in any order keep a room's pair and the latest
   key of each of its phones, except in a room whose file a crash or a failed write tore,
   which the relay and the rotation wrote together, or where a phone registered while the
   relay could not read the file; a legacy room keeps its pair even then
   (saveChatroomKeysSync, loadChatroomKeysSync). *)
THEOREM NobodyIsForgotten == Spec => []PhonesStayKnown
  <1>1. StorageInv => PhonesStayKnown
    <2> SUFFICES ASSUME StorageInv, NEW r \in Rooms
                 PROVE  /\ /\ r \notin damaged /\ file[r] # Absent
                           /\ \A p \in Processes : ~Busy(p, r)
                           => /\ Whole(file[r])
                              /\ known[r].pair \in {None, file[r].pair}
                              /\ \A n \in Names : known[r].peers[n] \in {None, file[r].peers[n]}
                        /\ Whole(legacy[r]) /\ Whole(file[r]) => file[r].pair = legacy[r].pair
      <3>1. StorageInv => DOMAIN proc = Processes
        BY DEF StorageInv, StorageType
      <3> QED BY <3>1 DEF PhonesStayKnown
    <2>1. RoomOK(r)
      BY DEF StorageInv
    <2>2. ASSUME r \notin damaged, file[r] # Absent, \A p \in Processes : ~Busy(p, r)
          PROVE  Whole(file[r]) /\ Agrees(known[r], file[r])
      BY <2>1, <2>2 DEF RoomOK, Alone, Remembered, Whole
    <2> QED BY <2>1, <2>2 DEF RoomOK, LegacyPair, Agrees
  <1> QED BY <1>1, StorageInvariant, PTL
=============================================================================
