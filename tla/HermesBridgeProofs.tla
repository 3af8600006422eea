-------------------------- MODULE HermesBridgeProofs --------------------------
(***************************************************************************)
(* The safety of the Hermes bridge for any number of messages and probes,   *)
(* in both API modes and without a key.  Every handler ends in _drainQueue, *)
(* so Conversation says what a good state of the turns is, of any that a    *)
(* caller may hand to it, and DrainKeeps that _drainQueue leaves one.       *)
(***************************************************************************)
EXTENDS HermesBridge, TLAPS

Messages == [role : {"user", "assistant"}, turn : Turns]

(* The waiting turns q come in order, after the one being asked. *)
LineInOrder(q, busy, top) ==
  /\ \A i, j \in DOMAIN q : i < j => q[i] < q[j]
  /\ \A i \in DOMAIN q : busy < q[i] /\ q[i] <= top
  /\ busy <= top

(* The messages of talk come in order, questions strictly so, and each answer
   follows its question. *)
TalkInOrder(talk) ==
  \A i \in DOMAIN talk :
    /\ \A j \in DOMAIN talk : j < i => talk[j].turn <= talk[i].turn
    /\ talk[i].role = "user" => \A j \in DOMAIN talk : j < i => talk[j].turn < talk[i].turn
    /\ talk[i].role = "assistant" =>
         i > 1 /\ talk[i - 1] = Message("user", talk[i].turn)

(* What has been said or has failed is older than what waits, and apart. *)
Past(q, busy, talk, fail, top) ==
  /\ \A i \in DOMAIN talk : talk[i].turn <= top /\ talk[i].turn \notin fail
  /\ \A i \in DOMAIN talk : \A j \in DOMAIN q : talk[i].turn < q[j]
  /\ \A t \in fail : t <= top /\ t # busy /\ \A j \in DOMAIN q : t < q[j]

(* The question being asked is the last message. *)
Asked(chat, busy, talk) ==
  /\ chat /\ busy # 0 => talk # <<>> /\ talk[Len(talk)] = Message("user", busy)
  /\ ~chat => talk = <<>>

Conversation(chat, q, busy, talk, fail, top) ==
  /\ q \in Seq(Turns) /\ busy \in 0..MaxTurns /\ talk \in Seq(Messages)
  /\ fail \subseteq Turns /\ top \in 0..MaxTurns
  /\ LineInOrder(q, busy, top)
  /\ TalkInOrder(talk)
  /\ Past(q, busy, talk, fail, top)
  /\ Asked(chat, busy, talk)

(* Nothing waits while nothing is asked, and without a key nothing is ever asked. *)
NoneWaiting ==
  /\ turn = 0 => queue = <<>>
  /\ ~setup.key => turn = 0 /\ queue = <<>>

TurnsInv == Conversation(setup.chat, queue, turn, transcript, failed, accepted) /\ NoneWaiting

(* The requests under way, and the flags. *)
RequestsInv ==
  /\ setup \in Setups
  /\ api \in BOOLEAN /\ stopped \in BOOLEAN /\ connected \in BOOLEAN
  /\ link \in {"none", "good", "bad"}
  /\ probing \subseteq Probes
  /\ hopeful \subseteq Asking \ {0}

HermesInv == TurnsInv /\ RequestsInv

-----------------------------------------------------------------------------
(* What Tail, Append, Front and Last leave where it was. *)
LEMMA TailElements ==
  ASSUME NEW S, NEW q \in Seq(S), q # <<>>
  PROVE  /\ Tail(q) \in Seq(S) /\ Head(q) \in S /\ Head(q) = q[1] /\ 1 \in DOMAIN q
         /\ \A i \in DOMAIN Tail(q) : i + 1 \in DOMAIN q /\ Tail(q)[i] = q[i + 1] /\ i \in Nat /\ i >= 1
  OBVIOUS

LEMMA AppendElements ==
  ASSUME NEW S, NEW q \in Seq(S), NEW e \in S
  PROVE  /\ Append(q, e) \in Seq(S) /\ Append(q, e) # <<>>
         /\ Len(Append(q, e)) = Len(q) + 1
         /\ DOMAIN Append(q, e) = 1..(Len(q) + 1)
         /\ \A i \in DOMAIN q : Append(q, e)[i] = q[i]
         /\ Append(q, e)[Len(q) + 1] = e
         /\ DOMAIN q = 1..Len(q) /\ Len(q) \in Nat
  OBVIOUS

LEMMA FrontElements ==
  ASSUME NEW S, NEW q \in Seq(S), q # <<>>
  PROVE  /\ Front(q) \in Seq(S)
         /\ DOMAIN Front(q) = 1..(Len(q) - 1)
         /\ \A i \in DOMAIN Front(q) : i \in DOMAIN q /\ i < Len(q) /\ Front(q)[i] = q[i]
         /\ Len(q) \in DOMAIN q /\ Last(q) = q[Len(q)]
  BY DEF Front, Last

(* Messages carry numbers. *)
LEMMA MessageTurns ==
  ASSUME NEW talk \in Seq(Messages)
  PROVE  \A i \in DOMAIN talk : talk[i] \in Messages /\ talk[i].turn \in Nat
  <1>1. \A i \in DOMAIN talk : talk[i] \in Messages
    OBVIOUS
  <1>2. \A m \in Messages : m.turn \in Nat
    BY DEF Messages, Turns
  <1> QED BY <1>1, <1>2

(* A question that is newer than all that was said keeps the conversation. *)
LEMMA AskedNext ==
  ASSUME NEW talk \in Seq(Messages), NEW t \in Turns, TalkInOrder(talk),
         \A i \in DOMAIN talk : talk[i].turn < t
  PROVE  TalkInOrder(Append(talk, Message("user", t)))
  <1> DEFINE m == Message("user", t)
             new == Append(talk, m)
  <1>1. m \in Messages /\ m.turn = t /\ m.role = "user"
    BY DEF Message, Messages
  <1> HIDE DEF m
  <1>2. /\ DOMAIN new = 1..(Len(talk) + 1)
        /\ \A i \in DOMAIN talk : new[i] = talk[i]
        /\ new[Len(talk) + 1] = m
        /\ DOMAIN talk = 1..Len(talk) /\ Len(talk) \in Nat
    BY <1>1, AppendElements
  <1> HIDE DEF new
  <1>3. \A i \in DOMAIN talk : talk[i].turn \in Nat
    BY MessageTurns
  <1>4. ASSUME NEW i \in DOMAIN new, i \in DOMAIN talk
        PROVE  /\ \A j \in DOMAIN new : j < i => new[j].turn <= new[i].turn
               /\ new[i].role = "user" => \A j \in DOMAIN new : j < i => new[j].turn < new[i].turn
               /\ new[i].role = "assistant" =>
                    i > 1 /\ new[i - 1] = Message("user", new[i].turn)
    <2>1. new[i] = talk[i] /\ (i > 1 => new[i - 1] = talk[i - 1])
      BY <1>2, <1>4
    <2>2. \A j \in DOMAIN new : j < i => j \in DOMAIN talk /\ new[j] = talk[j]
      BY <1>2, <1>4
    <2> QED BY <1>4, <2>1, <2>2 DEF TalkInOrder
  <1>5. ASSUME NEW i \in DOMAIN new, i \notin DOMAIN talk
        PROVE  /\ \A j \in DOMAIN new : j < i => new[j].turn < new[i].turn /\ new[j].turn <= new[i].turn
               /\ new[i].role # "assistant"
    <2>1. i = Len(talk) + 1 /\ new[i] = m
      BY <1>2, <1>5
    <2>2. \A j \in DOMAIN new : j < i => j \in DOMAIN talk /\ new[j] = talk[j]
      BY <1>2, <2>1
    <2> QED BY <1>1, <1>3, <2>1, <2>2 DEF Turns
  <1> QED BY <1>1, <1>4, <1>5 DEF TalkInOrder, new, m

(* An answer to the question asked last keeps it. *)
LEMMA AnsweredNext ==
  ASSUME NEW talk \in Seq(Messages), NEW t \in Turns, TalkInOrder(talk),
         talk # <<>>, talk[Len(talk)] = Message("user", t)
  PROVE  TalkInOrder(Append(talk, Message("assistant", t)))
  <1> DEFINE m == Message("assistant", t)
             new == Append(talk, m)
  <1>1. m \in Messages /\ m.turn = t /\ m.role = "assistant"
    BY DEF Message, Messages
  <1> HIDE DEF m
  <1>2. /\ DOMAIN new = 1..(Len(talk) + 1)
        /\ \A i \in DOMAIN talk : new[i] = talk[i]
        /\ new[Len(talk) + 1] = m
        /\ DOMAIN talk = 1..Len(talk) /\ Len(talk) \in Nat /\ Len(talk) \in DOMAIN talk
    BY <1>1, AppendElements
  <1> HIDE DEF new
  <1>3. \A i \in DOMAIN talk : talk[i].turn \in Nat /\ talk[i].turn <= t
    <2>1. talk[Len(talk)].turn = t
      BY DEF Message
    <2>2. \A i \in DOMAIN talk : talk[i].turn \in Nat
      BY MessageTurns
    <2>3. \A i \in DOMAIN talk : i # Len(talk) => talk[i].turn <= talk[Len(talk)].turn
      BY <1>2 DEF TalkInOrder
    <2> QED BY <2>1, <2>2, <2>3
  <1>4. ASSUME NEW i \in DOMAIN new, i \in DOMAIN talk
        PROVE  /\ \A j \in DOMAIN new : j < i => new[j].turn <= new[i].turn
               /\ new[i].role = "user" => \A j \in DOMAIN new : j < i => new[j].turn < new[i].turn
               /\ new[i].role = "assistant" =>
                    i > 1 /\ new[i - 1] = Message("user", new[i].turn)
    <2>1. new[i] = talk[i] /\ (i > 1 => new[i - 1] = talk[i - 1])
      BY <1>2, <1>4
    <2>2. \A j \in DOMAIN new : j < i => j \in DOMAIN talk /\ new[j] = talk[j]
      BY <1>2, <1>4
    <2> QED BY <1>4, <2>1, <2>2 DEF TalkInOrder
  <1>5. ASSUME NEW i \in DOMAIN new, i \notin DOMAIN talk
        PROVE  /\ \A j \in DOMAIN new : j < i => new[j].turn <= new[i].turn
               /\ new[i].role # "user"
               /\ i > 1 /\ new[i - 1] = Message("user", new[i].turn)
    <2>1. i = Len(talk) + 1 /\ new[i] = m
      BY <1>2, <1>5
    <2>2. \A j \in DOMAIN new : j < i => j \in DOMAIN talk /\ new[j] = talk[j]
      BY <1>2, <2>1
    <2> QED BY <1>1, <1>2, <1>3, <2>1, <2>2
  <1> QED BY <1>4, <1>5 DEF TalkInOrder, new, m

(* So does taking the last message away. *)
LEMMA PoppedLast ==
  ASSUME NEW talk \in Seq(Messages), talk # <<>>, TalkInOrder(talk)
  PROVE  TalkInOrder(Front(talk))
  <1>1. /\ DOMAIN Front(talk) = 1..(Len(talk) - 1)
        /\ \A i \in DOMAIN Front(talk) : i \in DOMAIN talk /\ Front(talk)[i] = talk[i]
    BY FrontElements
  <1>2. \A i \in DOMAIN Front(talk) : i > 1 => i - 1 \in DOMAIN Front(talk)
    BY <1>1
  <1> QED BY <1>1, <1>2 DEF TalkInOrder

-----------------------------------------------------------------------------
(* _drainQueue leaves a good conversation, and nothing waiting beside an idle
   bridge; the request it starts is the only one it adds. *)
LEMMA DrainKeeps ==
  ASSUME NEW q, NEW busy, NEW talk, NEW others, NEW fail, NEW top,
         Conversation(setup.chat, q, busy, talk, fail, top), DrainQueue(q, busy, talk, others)
  PROVE  /\ Conversation(setup.chat, queue', turn', transcript', fail, top)
         /\ turn' = 0 => queue' = <<>>
         /\ hopeful' = others \/ (turn' # 0 /\ hopeful' = others \cup {turn'})
         /\ q = <<>> /\ busy = 0 => turn' = 0 /\ queue' = <<>>
  <1>1. CASE busy # 0 \/ q = <<>>
    BY <1>1 DEF DrainQueue
  <1>2. CASE ~(busy # 0 \/ q = <<>>)
    <2>1. /\ q \in Seq(Turns) /\ q # <<>> /\ busy = 0 /\ talk \in Seq(Messages)
          /\ queue' = Tail(q) /\ turn' = Head(q)
          /\ transcript' = IF setup.chat THEN Append(talk, Message("user", Head(q))) ELSE talk
          /\ hopeful' = IF api THEN others \cup {Head(q)} ELSE others
      BY <1>2 DEF DrainQueue, Conversation
    <2>2. /\ Tail(q) \in Seq(Turns) /\ Head(q) \in Turns /\ Head(q) = q[1] /\ 1 \in DOMAIN q
          /\ \A i \in DOMAIN Tail(q) : i + 1 \in DOMAIN q /\ Tail(q)[i] = q[i + 1] /\ i \in Nat /\ i >= 1
      BY <2>1, TailElements
    <2>3. Head(q) \in 1..MaxTurns /\ Head(q) # 0 /\ Head(q) \in 0..MaxTurns
      BY <2>2, MaxTurnsIsNat DEF Turns
    <2>4. LineInOrder(Tail(q), Head(q), top)
      BY <1>2, <2>2 DEF Conversation, LineInOrder
    <2>5. Message("user", Head(q)) \in Messages
      BY <2>2 DEF Message, Messages
    <2>6. /\ \A i \in DOMAIN talk : talk[i].turn < Head(q)
          /\ \A t \in fail : t < Head(q) /\ t # Head(q)
          /\ Head(q) <= top /\ Head(q) \notin fail
      <3>1. /\ \A i \in DOMAIN talk : talk[i].turn < q[1]
            /\ \A t \in fail : t < q[1]
            /\ q[1] <= top
        BY <2>2 DEF Conversation, Past, LineInOrder
      <3>2. \A t \in fail : t < q[1] => t # q[1]
        BY <2>2, <2>3 DEF Conversation, Turns
      <3> QED BY <2>2, <3>1, <3>2
    <2>7. CASE ~setup.chat
      <3>1. talk = <<>> /\ transcript' = talk
        BY <2>1, <2>7 DEF Conversation, Asked
      <3>2. Past(Tail(q), Head(q), talk, fail, top)
        BY <2>2, <2>6 DEF Conversation, Past
      <3>3. Asked(setup.chat, Head(q), talk)
        BY <2>7, <3>1 DEF Asked
      <3>4. Conversation(setup.chat, Tail(q), Head(q), talk, fail, top)
        BY <2>2, <2>3, <2>4, <3>2, <3>3 DEF Conversation
      <3> QED BY <2>1, <2>3, <3>1, <3>4
    <2>8. CASE setup.chat
      <3> DEFINE m == Message("user", Head(q))
                 new == Append(talk, m)
      <3>1. m.turn = Head(q) /\ m \in Messages
        BY <2>5 DEF Message
      <3> HIDE DEF m
      <3>2. /\ new \in Seq(Messages) /\ new # <<>> /\ Len(new) = Len(talk) + 1
            /\ DOMAIN new = 1..(Len(talk) + 1)
            /\ \A i \in DOMAIN talk : new[i] = talk[i]
            /\ new[Len(talk) + 1] = m
            /\ DOMAIN talk = 1..Len(talk) /\ Len(talk) \in Nat
        BY <2>1, <3>1, AppendElements
      <3>3. TalkInOrder(new)
        <4>1. TalkInOrder(talk)
          BY DEF Conversation
        <4> QED BY <2>1, <2>2, <2>6, <4>1, AskedNext DEF m
      <3> HIDE DEF new
      <3>4. \A i \in DOMAIN new : new[i] = m \/ (i \in DOMAIN talk /\ new[i] = talk[i])
        BY <3>2
      <3>5. Past(Tail(q), Head(q), new, fail, top)
        <4>1. \A j \in DOMAIN Tail(q) : Head(q) < Tail(q)[j]
          BY <2>4 DEF LineInOrder
        <4>2. \A i \in DOMAIN talk : \A j \in DOMAIN Tail(q) : talk[i].turn < Tail(q)[j]
          BY <2>2 DEF Conversation, Past
        <4>3. \A i \in DOMAIN talk : talk[i].turn <= top /\ talk[i].turn \notin fail
          BY DEF Conversation, Past
        <4>4. \A t \in fail : t <= top /\ t # Head(q) /\ \A j \in DOMAIN Tail(q) : t < Tail(q)[j]
          BY <2>2, <2>6 DEF Conversation, Past
        <4> QED BY <2>6, <3>1, <3>4, <4>1, <4>2, <4>3, <4>4 DEF Past
      <3>6. Asked(setup.chat, Head(q), new)
        BY <2>8, <3>2 DEF Asked, m
      <3>7. Conversation(setup.chat, Tail(q), Head(q), new, fail, top)
        BY <2>2, <2>3, <2>4, <3>2, <3>3, <3>5, <3>6 DEF Conversation
      <3>8. transcript' = new
        BY <2>1, <2>8 DEF new, m
      <3> QED BY <2>1, <2>3, <3>7, <3>8
    <2> QED BY <2>7, <2>8
  <1> QED BY <1>1, <1>2

(* A handler that hands a good conversation to _drainQueue. *)
LEMMA DrainStep ==
  ASSUME HermesInv, NEW q, NEW busy, NEW talk, NEW others,
         Conversation(setup.chat, q, busy, talk, failed', accepted'),
         DrainQueue(q, busy, talk, others),
         ~setup.key => q = <<>> /\ busy = 0,
         others \subseteq (probing \cup {busy}) \ {0},
         UNCHANGED <<outside, stopped, probing>>, connected' \in BOOLEAN
  PROVE  HermesInv'
  <1>1. /\ Conversation(setup.chat, queue', turn', transcript', failed', accepted')
        /\ turn' = 0 => queue' = <<>>
        /\ hopeful' = others \/ (turn' # 0 /\ hopeful' = others \cup {turn'})
        /\ q = <<>> /\ busy = 0 => turn' = 0 /\ queue' = <<>>
    BY DrainKeeps
  <1>2. UNCHANGED <<setup, api, link, stopped, probing>>
    BY DEF outside
  <1>3. busy # 0 => turn' = busy
    BY DEF DrainQueue
  <1>4. TurnsInv'
    BY <1>1, <1>2 DEF TurnsInv, NoneWaiting, Conversation, Asked, LineInOrder, TalkInOrder, Past
  <1>5. hopeful' \subseteq Asking' \ {0}
    BY <1>1, <1>2, <1>3 DEF Asking
  <1>6. RequestsInv'
    BY <1>2, <1>5 DEF HermesInv, RequestsInv
  <1> QED BY <1>4, <1>6 DEF HermesInv

(* A handler that leaves the turns alone. *)
LEMMA RequestsStep ==
  ASSUME HermesInv, RequestsInv', UNCHANGED <<setup, turns>>
  PROVE  HermesInv'
  BY DEF HermesInv, TurnsInv, NoneWaiting, Conversation, Asked, LineInOrder, TalkInOrder, Past,
         turns

-----------------------------------------------------------------------------
(* The steps, one lemma for each handler that touches the turns. *)
LEMMA InitHermes == Init => HermesInv
  <1> SUFFICES ASSUME Init PROVE HermesInv
    OBVIOUS
  <1>1. Conversation(setup.chat, <<>>, 0, <<>>, {}, 0)
    <2>1. <<>> \in Seq(Turns) /\ <<>> \in Seq(Messages) /\ 0 \in 0..MaxTurns
      BY MaxTurnsIsNat
    <2>2. LineInOrder(<<>>, 0, 0) /\ TalkInOrder(<<>>) /\ Past(<<>>, 0, <<>>, {}, 0)
      BY DEF LineInOrder, TalkInOrder, Past
    <2>3. Asked(setup.chat, 0, <<>>)
      BY DEF Asked
    <2> QED BY <2>1, <2>2, <2>3 DEF Conversation
  <1>2. TurnsInv
    BY <1>1 DEF Init, TurnsInv, NoneWaiting
  <1>3. probing \subseteq Probes /\ 0 \notin Probes
    BY ProbesAreNoTurns, MaxTurnsIsNat DEF Init
  <1>4. hopeful \subseteq Asking \ {0}
    BY <1>3 DEF Init, Asking
  <1>5. api \in BOOLEAN /\ stopped \in BOOLEAN /\ connected \in BOOLEAN
    BY Zenon DEF Init
  <1> QED BY <1>2, <1>3, <1>4, <1>5 DEF Init, HermesInv, RequestsInv

(* The turn that comes in is newer than everything before. *)
LEMMA PhoneMessageKeeps ==
  ASSUME HermesInv, PhoneMessage
  PROVE  HermesInv'
  <1>1. /\ accepted' = accepted + 1 /\ accepted < MaxTurns
        /\ UNCHANGED <<outside, stopped, connected, probing, failed>>
    BY DEF PhoneMessage
  <1>2. /\ queue \in Seq(Turns) /\ turn \in 0..MaxTurns /\ transcript \in Seq(Messages)
        /\ failed \subseteq Turns /\ accepted \in 0..MaxTurns
        /\ LineInOrder(queue, turn, accepted) /\ TalkInOrder(transcript)
        /\ Past(queue, turn, transcript, failed, accepted)
        /\ Asked(setup.chat, turn, transcript)
    BY DEF HermesInv, TurnsInv, Conversation
  <1> DEFINE e == accepted + 1
             new == Append(queue, e)
  <1>3. accepted \in Nat /\ MaxTurns \in Nat /\ e \in Turns /\ e \in 0..MaxTurns /\ accepted < e
    BY <1>1, <1>2, MaxTurnsIsNat DEF Turns
  <1>4. /\ new \in Seq(Turns)
        /\ DOMAIN new = 1..(Len(queue) + 1)
        /\ \A i \in DOMAIN queue : new[i] = queue[i]
        /\ new[Len(queue) + 1] = e
        /\ DOMAIN queue = 1..Len(queue) /\ Len(queue) \in Nat
    BY <1>2, <1>3, AppendElements
  <1>5. \A i \in DOMAIN new : (i = Len(queue) + 1 /\ new[i] = e) \/ (i \in DOMAIN queue /\ new[i] = queue[i])
    BY <1>4
  <1> HIDE DEF e, new
  <1>6. /\ \A i \in DOMAIN queue : queue[i] \in Nat /\ queue[i] <= accepted /\ queue[i] < e
        /\ turn \in Nat /\ turn <= accepted /\ turn < e /\ e \in Nat
    <2>1. \A i \in DOMAIN queue : queue[i] \in Nat
      <3>1. \A i \in DOMAIN queue : queue[i] \in Turns
        BY <1>2
      <3> QED BY <3>1 DEF Turns
    <2>2. \A n \in Nat : n <= accepted => n < e
      BY <1>3 DEF Turns
    <2> QED BY <1>2, <1>3, <2>1, <2>2 DEF LineInOrder
  <1>7. LineInOrder(new, turn, e)
    <2>1. ASSUME NEW i \in DOMAIN new, NEW j \in DOMAIN new, i < j PROVE new[i] < new[j]
      <3>1. i \in DOMAIN queue /\ new[i] = queue[i]
        BY <1>4, <2>1
      <3>2. CASE j \in DOMAIN queue
        <4>1. queue[i] < queue[j]
          BY <1>2, <2>1, <3>1, <3>2 DEF LineInOrder
        <4> QED BY <1>4, <3>1, <3>2, <4>1
      <3>3. CASE j \notin DOMAIN queue
        BY <1>5, <1>6, <3>1, <3>3
      <3> QED BY <3>2, <3>3
    <2>2. ASSUME NEW i \in DOMAIN new PROVE turn < new[i] /\ new[i] <= e
      <3>1. CASE new[i] = e
        BY <1>6, <3>1
      <3>2. CASE i \in DOMAIN queue /\ new[i] = queue[i]
        <4>1. turn < queue[i]
          BY <1>2, <3>2 DEF LineInOrder
        <4>2. queue[i] \in Nat /\ queue[i] < e
          BY <1>6, <3>2
        <4> QED BY <1>6, <3>2, <4>1, <4>2
      <3> QED BY <1>5, <3>1, <3>2
    <2>3. turn <= e
      BY <1>6
    <2> QED BY <2>1, <2>2, <2>3 DEF LineInOrder
  <1>8. Past(new, turn, transcript, failed, e)
    <2>1. \A i \in DOMAIN transcript : transcript[i].turn \in Nat
      BY <1>2, MessageTurns
    <2>2. \A n \in Nat : n <= accepted => n < e /\ n <= e
      BY <1>3 DEF Turns
    <2>3. \A t \in failed : t \in Nat
      BY <1>2 DEF Turns
    <2> QED BY <1>2, <1>5, <2>1, <2>2, <2>3 DEF Past
  <1>9. Conversation(setup.chat, new, turn, transcript, failed, e)
    BY <1>2, <1>3, <1>4, <1>7, <1>8 DEF Conversation
  <1>10. CASE setup.key
    <2>1. DrainQueue(new, turn, transcript, hopeful)
      BY <1>10 DEF PhoneMessage, new, e
    <2>2. hopeful \subseteq (probing \cup {turn}) \ {0} /\ connected' \in BOOLEAN
      BY <1>1 DEF HermesInv, RequestsInv, Asking
    <2>3. Conversation(setup.chat, new, turn, transcript, failed', accepted')
      BY <1>1, <1>9 DEF e
    <2> QED BY <1>1, <1>10, <2>1, <2>2, <2>3, DrainStep
  <1>11. CASE ~setup.key
    <2>1. UNCHANGED <<queue, turn, transcript, hopeful, failed, probing, setup>> /\ queue = <<>> /\ turn = 0
      BY <1>1, <1>11 DEF PhoneMessage, outside, HermesInv, TurnsInv, NoneWaiting
    <2>2. LineInOrder(queue, turn, e) /\ Past(queue, turn, transcript, failed, e)
      BY <1>4, <1>5, <1>7, <1>8, <2>1 DEF LineInOrder, Past
    <2>3. Conversation(setup.chat, queue, turn, transcript, failed, e)
      BY <1>2, <1>3, <2>2 DEF Conversation
    <2>4. Conversation(setup.chat, queue, turn, transcript, failed, accepted)'
      BY <1>1, <2>1, <2>3 DEF e
    <2>5. RequestsInv'
      BY <1>1, <2>1 DEF HermesInv, RequestsInv, Asking, outside
    <2> QED BY <2>1, <2>4, <2>5 DEF HermesInv, TurnsInv, NoneWaiting
  <1> QED BY <1>10, <1>11

(* When a turn is over without a trace or with an answer, the rest is good. *)
LEMMA TurnOver ==
  ASSUME HermesInv, turn # 0
  PROVE  /\ Conversation(setup.chat, queue, 0, transcript, failed, accepted)
         /\ turn \in Turns /\ turn <= accepted /\ turn \notin failed
         /\ \A j \in DOMAIN queue : turn < queue[j]
         /\ setup.key
         /\ hopeful \ {turn} \subseteq (probing \cup {0}) \ {0}
  <1>1. /\ queue \in Seq(Turns) /\ turn \in 0..MaxTurns /\ transcript \in Seq(Messages)
        /\ failed \subseteq Turns /\ accepted \in 0..MaxTurns
        /\ LineInOrder(queue, turn, accepted) /\ TalkInOrder(transcript)
        /\ Past(queue, turn, transcript, failed, accepted)
        /\ Asked(setup.chat, turn, transcript)
    BY DEF HermesInv, TurnsInv, Conversation
  <1>2. LineInOrder(queue, 0, accepted)
    <2>1. \A i \in DOMAIN queue : queue[i] \in Turns
      BY <1>1
    <2>2. \A t \in Turns : 0 < t
      BY DEF Turns
    <2> QED BY <1>1, <2>1, <2>2, MaxTurnsIsNat DEF LineInOrder
  <1>3. Past(queue, 0, transcript, failed, accepted)
    <2>1. \A t \in failed : t # 0
      BY <1>1 DEF Turns
    <2> QED BY <1>1, <2>1 DEF Past
  <1>4. Asked(setup.chat, 0, transcript)
    BY <1>1 DEF Asked
  <1>5. Conversation(setup.chat, queue, 0, transcript, failed, accepted)
    BY <1>1, <1>2, <1>3, <1>4, MaxTurnsIsNat DEF Conversation
  <1>6. turn \in Turns
    BY <1>1, MaxTurnsIsNat DEF Turns
  <1>7. setup.key
    BY DEF HermesInv, TurnsInv, NoneWaiting
  <1>8. hopeful \subseteq Asking \ {0}
    BY DEF HermesInv, RequestsInv
  <1> QED BY <1>1, <1>5, <1>6, <1>7, <1>8 DEF LineInOrder, Past, Asking

LEMMA TurnAnsweredKeeps ==
  ASSUME HermesInv, TurnAnswered
  PROVE  HermesInv'
  <1> DEFINE throws == ~stopped /\ link = "bad"
             m == Message("assistant", turn)
             talk == IF setup.chat /\ ~throws THEN Append(transcript, m) ELSE transcript
             others == hopeful \ {turn}
             idle == 0
  <1>1. /\ turn # 0 /\ DrainQueue(queue, idle, talk, others)
        /\ UNCHANGED <<outside, stopped, accepted, probing, failed>> /\ connected' \in BOOLEAN
    BY DEF TurnAnswered
  <1>2. /\ Conversation(setup.chat, queue, 0, transcript, failed, accepted)
        /\ turn \in Turns /\ turn <= accepted /\ turn \notin failed
        /\ \A j \in DOMAIN queue : turn < queue[j]
        /\ setup.key
        /\ others \subseteq (probing \cup {0}) \ {0}
    BY <1>1, TurnOver
  <1>3. Conversation(setup.chat, queue, idle, talk, failed, accepted)
    <2>1. CASE ~(setup.chat /\ ~throws)
      BY <1>2, <2>1
    <2>2. CASE setup.chat /\ ~throws
      <3>1. /\ transcript \in Seq(Messages) /\ TalkInOrder(transcript)
            /\ transcript # <<>> /\ transcript[Len(transcript)] = Message("user", turn)
        BY <1>1, <2>2 DEF HermesInv, TurnsInv, Conversation, Asked
      <3>2. m \in Messages /\ m.turn = turn
        BY <1>2 DEF Message, Messages
      <3> DEFINE new == Append(transcript, m)
      <3>3. TalkInOrder(new)
        BY <1>2, <3>1, AnsweredNext
      <3> HIDE DEF m
      <3>4. /\ new \in Seq(Messages)
            /\ DOMAIN new = 1..(Len(transcript) + 1)
            /\ \A i \in DOMAIN transcript : new[i] = transcript[i]
            /\ new[Len(transcript) + 1] = m
            /\ DOMAIN transcript = 1..Len(transcript) /\ Len(transcript) \in Nat
        BY <3>1, <3>2, AppendElements
      <3> HIDE DEF new
      <3>5. \A i \in DOMAIN new : new[i] = m \/ (i \in DOMAIN transcript /\ new[i] = transcript[i])
        BY <3>4
      <3>6. Past(queue, 0, new, failed, accepted)
        BY <1>2, <3>2, <3>5 DEF Conversation, Past
      <3>7. Asked(setup.chat, 0, new)
        BY <2>2 DEF Asked
      <3>8. Conversation(setup.chat, queue, 0, new, failed, accepted)
        BY <1>2, <3>3, <3>4, <3>6, <3>7 DEF Conversation
      <3> QED BY <2>2, <3>8 DEF new
    <2> QED BY <2>1, <2>2
  <1>4. Conversation(setup.chat, queue, idle, talk, failed', accepted')
    BY <1>1, <1>3
  <1>5. (~setup.key => queue = <<>> /\ idle = 0) /\ others \subseteq (probing \cup {idle}) \ {0}
    BY <1>2
  <1> HIDE DEF talk, others, idle
  <1> QED BY <1>1, <1>4, <1>5, DrainStep

LEMMA TurnSilentKeeps ==
  ASSUME HermesInv, TurnSilent
  PROVE  HermesInv'
  <1> DEFINE others == hopeful \ {turn}
             idle == 0
  <1>1. /\ turn # 0 /\ DrainQueue(queue, idle, transcript, others)
        /\ UNCHANGED <<outside, stopped, accepted, probing, failed>> /\ connected' \in BOOLEAN
    BY DEF TurnSilent
  <1>2. /\ Conversation(setup.chat, queue, idle, transcript, failed, accepted)
        /\ (~setup.key => queue = <<>> /\ idle = 0)
        /\ others \subseteq (probing \cup {idle}) \ {0}
    BY <1>1, TurnOver
  <1>3. Conversation(setup.chat, queue, idle, transcript, failed', accepted')
    BY <1>1, <1>2
  <1> HIDE DEF others, idle
  <1> QED BY <1>1, <1>2, <1>3, DrainStep

(* A turn that fails takes its own question along, and nothing else of it is left. *)
LEMMA TurnFailsKeeps ==
  ASSUME HermesInv, TurnFails
  PROVE  HermesInv'
  <1> DEFINE talk == IF setup.chat THEN Front(transcript) ELSE transcript
             others == hopeful \ {turn}
             fail == failed \cup {turn}
             idle == 0
  <1>1. /\ turn # 0 /\ DrainQueue(queue, idle, talk, others) /\ failed' = fail
        /\ UNCHANGED <<outside, stopped, accepted, probing>> /\ connected' \in BOOLEAN
    BY DEF TurnFails
  <1>2. /\ Conversation(setup.chat, queue, 0, transcript, failed, accepted)
        /\ turn \in Turns /\ turn <= accepted /\ turn \notin failed
        /\ \A j \in DOMAIN queue : turn < queue[j]
        /\ setup.key
        /\ others \subseteq (probing \cup {0}) \ {0}
    BY <1>1, TurnOver
  <1>3. /\ talk \in Seq(Messages) /\ TalkInOrder(talk)
        /\ \A i \in DOMAIN talk : \E k \in DOMAIN transcript : talk[i] = transcript[k]
        /\ \A i \in DOMAIN talk : talk[i].turn # turn
    <2>1. CASE ~setup.chat
      <3>1. transcript = <<>>
        BY <1>2, <2>1 DEF Conversation, Asked
      <3> QED BY <1>2, <2>1, <3>1 DEF Conversation
    <2>2. CASE setup.chat
      <3>1. /\ transcript \in Seq(Messages) /\ TalkInOrder(transcript)
            /\ transcript # <<>> /\ transcript[Len(transcript)] = Message("user", turn)
        BY <1>1, <2>2 DEF HermesInv, TurnsInv, Conversation, Asked
      <3>2. /\ Front(transcript) \in Seq(Messages)
            /\ \A i \in DOMAIN Front(transcript) :
                 i \in DOMAIN transcript /\ i < Len(transcript) /\ Front(transcript)[i] = transcript[i]
            /\ Len(transcript) \in DOMAIN transcript
        BY <3>1, FrontElements
      <3>3. TalkInOrder(Front(transcript))
        BY <3>1, PoppedLast
      <3>4. \A i \in DOMAIN transcript : i < Len(transcript) => transcript[i].turn < turn
        BY <3>1, <3>2 DEF TalkInOrder, Message
      <3>5. \A i \in DOMAIN transcript : transcript[i].turn \in Nat
        BY <3>1, MessageTurns
      <3>6. \A i \in DOMAIN Front(transcript) : Front(transcript)[i].turn # turn
        BY <1>2, <3>2, <3>4, <3>5 DEF Turns
      <3> QED BY <2>2, <3>2, <3>3, <3>6
    <2> QED BY <2>1, <2>2
  <1>4. Past(queue, 0, talk, fail, accepted)
    <2>1. \A i \in DOMAIN talk :
            /\ talk[i].turn <= accepted /\ talk[i].turn \notin fail
            /\ \A j \in DOMAIN queue : talk[i].turn < queue[j]
      BY <1>2, <1>3 DEF Conversation, Past
    <2>2. \A t \in fail : t <= accepted /\ t # 0 /\ \A j \in DOMAIN queue : t < queue[j]
      BY <1>1, <1>2 DEF Conversation, Past
    <2> HIDE DEF talk, fail
    <2> QED BY <2>1, <2>2 DEF Past
  <1>5. Asked(setup.chat, 0, talk)
    BY <1>2 DEF Asked, Conversation
  <1>6. Conversation(setup.chat, queue, idle, talk, fail, accepted)
    BY <1>2, <1>3, <1>4, <1>5 DEF Conversation
  <1>7. Conversation(setup.chat, queue, idle, talk, failed', accepted')
    BY <1>1, <1>6
  <1>8. (~setup.key => queue = <<>> /\ idle = 0) /\ others \subseteq (probing \cup {idle}) \ {0}
    BY <1>2
  <1> HIDE DEF talk, others, idle, fail
  <1> QED BY <1>1, <1>7, <1>8, DrainStep

LEMMA NextHermes == HermesInv /\ [Next]_vars => HermesInv'
  <1> SUFFICES ASSUME HermesInv, [Next]_vars PROVE HermesInv'
    OBVIOUS
  <1>1. CASE ApiChanges
    <2>1. api' \in BOOLEAN /\ UNCHANGED <<setup, link, stopped, connected, turns, probing>>
      BY <1>1 DEF ApiChanges, HermesInv, RequestsInv
    <2>2. hopeful' \subseteq Asking' \ {0}
      BY <1>1, <2>1 DEF ApiChanges, HermesInv, RequestsInv, Asking, turns
    <2> QED BY <2>1, <2>2, RequestsStep DEF HermesInv, RequestsInv, turns
  <1>2. CASE LinkChanges
    BY <1>2, RequestsStep DEF LinkChanges, HermesInv, RequestsInv, turns, Asking
  <1>3. CASE PhoneMessage
    BY <1>3, PhoneMessageKeeps
  <1>4. CASE TurnAnswered
    BY <1>4, TurnAnsweredKeeps
  <1>5. CASE TurnSilent
    BY <1>5, TurnSilentKeeps
  <1>6. CASE TurnFails
    BY <1>6, TurnFailsKeeps
  <1>7. ASSUME NEW i \in Probes, HealthTimer(i) PROVE HermesInv'
    <2>1. UNCHANGED <<outside, stopped, turns>> /\ connected' \in BOOLEAN
      BY <1>7 DEF HealthTimer, HermesInv, RequestsInv
    <2>2. i # 0
      BY ProbesAreNoTurns, MaxTurnsIsNat
    <2>3. probing' \subseteq Probes /\ hopeful' \subseteq Asking' \ {0}
      BY <1>7, <2>1, <2>2 DEF HealthTimer, HermesInv, RequestsInv, Asking, turns
    <2> QED BY <2>1, <2>3, RequestsStep DEF HermesInv, RequestsInv, turns, outside
  <1>8. ASSUME NEW i \in Probes, NEW ok \in BOOLEAN, ProbeEnds(i, ok) PROVE HermesInv'
    <2>1. UNCHANGED <<outside, stopped, turns>> /\ connected' \in BOOLEAN
      BY <1>8 DEF ProbeEnds
    <2>2. probing' \subseteq Probes /\ hopeful' \subseteq Asking' \ {0}
      BY <1>8, <2>1 DEF ProbeEnds, HermesInv, RequestsInv, Asking, turns
    <2> QED BY <2>1, <2>2, RequestsStep DEF HermesInv, RequestsInv, turns, outside
  <1>9. CASE Stop
    BY <1>9, RequestsStep DEF Stop, HermesInv, RequestsInv, turns, outside, Asking
  <1>10. CASE UNCHANGED vars
    BY <1>10, RequestsStep DEF vars, HermesInv, RequestsInv, turns, outside, Asking
  <1> QED BY <1>1, <1>2, <1>3, <1>4, <1>5, <1>6, <1>7, <1>8, <1>9, <1>10 DEF Next

(* The state of the turns and the requests under way are good in every reachable
   state. *)
THEOREM HermesInvariant == Spec => []HermesInv
  BY InitHermes, NextHermes, PTL DEF Spec

LEMMA ConversationHolds == HermesInv => TranscriptIsConversation
  <1> SUFFICES ASSUME HermesInv PROVE TranscriptIsConversation
    OBVIOUS
  <1>1. TypeOK
    BY DEF HermesInv, TurnsInv, Conversation, RequestsInv, TypeOK, Messages
  <1>2. Conversation(setup.chat, queue, turn, transcript, failed, accepted)
    BY DEF HermesInv, TurnsInv
  <1>3. \A i \in DOMAIN transcript : i > 1 => i - 1 \in DOMAIN transcript /\ i - 1 < i
    BY <1>2 DEF Conversation
  <1> QED BY <1>1, <1>2, <1>3 DEF TranscriptIsConversation, Conversation, TalkInOrder, Past, Asked, Last

(* _runTurn's pushes and pops: what is sent to the chat completions API is at every
   turn one conversation, however turns fail and whatever waits behind them. *)
THEOREM SentIsConversation == Spec => []TranscriptIsConversation
  BY HermesInvariant, ConversationHolds, PTL

-----------------------------------------------------------------------------
(* The refinement: _drainQueue takes up a turn of TurnQueue or stutters. *)
LEMMA DrainMaps ==
  ASSUME NEW q, NEW busy, NEW talk, NEW others, DrainQueue(q, busy, talk, others)
  PROVE  \/ (busy # 0 \/ q = <<>>) /\ queue' = q /\ turn' = busy
         \/ busy = 0 /\ q # <<>> /\ queue' = Tail(q) /\ turn' = Head(q)
  BY DEF DrainQueue

(* A turn is over, and the next one may be taken up. *)
LEMMA TurnOverMaps ==
  ASSUME HermesInv, turn # 0, UNCHANGED <<setup, accepted>>,
         NEW idle, idle = 0, NEW talk, NEW others, DrainQueue(queue, idle, talk, others)
  PROVE  Abstract!Finish
  <1>1. \/ queue' = queue /\ turn' = 0
        \/ queue # <<>> /\ queue' = Tail(queue) /\ turn' = Head(queue)
    BY DrainMaps
  <1>2. \A i \in DOMAIN queue : queue[i] # 0
    <2>1. queue \in Seq(Turns)
      BY DEF HermesInv, TurnsInv, Conversation
    <2>2. \A i \in DOMAIN queue : queue[i] \in Turns
      BY <2>1
    <2> QED BY <2>2 DEF Turns
  <1>3. queue # <<>> => Head(queue) # 0
    <2>1. queue \in Seq(Turns)
      BY DEF HermesInv, TurnsInv, Conversation
    <2>2. queue # <<>> => Head(queue) = queue[1] /\ 1 \in DOMAIN queue
      BY <2>1, TailElements
    <2> QED BY <1>2, <2>2
  <1> QED BY <1>1, <1>3 DEF Abstract!Finish

LEMMA PhoneMessageMaps ==
  ASSUME HermesInv, PhoneMessage
  PROVE  [Abstract!Next]_Abstract!vars
  <1> DEFINE e == accepted + 1
             new == Append(queue, e)
  <1>1. accepted < MaxTurns /\ accepted' = e /\ setup' = setup
    BY DEF PhoneMessage, outside
  <1>2. CASE ~setup.key
    BY <1>1, <1>2 DEF PhoneMessage, Abstract!vars
  <1>3. CASE setup.key
    <2>1. DrainQueue(new, turn, transcript, hopeful)
      BY <1>3 DEF PhoneMessage
    <2>2. turn = 0 => queue = <<>>
      BY DEF HermesInv, TurnsInv, NoneWaiting
    <2>3. Head(Append(<<>>, e)) = e /\ Tail(Append(<<>>, e)) = <<>>
      OBVIOUS
    <2>4. e # 0 /\ e \in Turns /\ queue \in Seq(Turns)
      BY <1>1, MaxTurnsIsNat DEF HermesInv, TurnsInv, Conversation, Turns
    <2> HIDE DEF e
    <2>5. new # <<>>
      BY <2>4, AppendElements
    <2> HIDE DEF new
    <2>6. \/ turn # 0 /\ queue' = new /\ turn' = turn
          \/ turn = 0 /\ queue' = Tail(new) /\ turn' = Head(new)
      BY <2>1, <2>5, DrainMaps
    <2>7. CASE turn # 0
      BY <1>1, <1>3, <2>6, <2>7 DEF Abstract!Next, Abstract!Accept, new, e
    <2>8. CASE turn = 0
      <3>1. queue = <<>> /\ queue' = <<>> /\ turn' = e
        BY <2>2, <2>3, <2>6, <2>8 DEF new
      <3> QED BY <1>1, <1>3, <2>4, <2>8, <3>1 DEF Abstract!Next, Abstract!Accept, e
    <2> QED BY <2>7, <2>8
  <1> QED BY <1>2, <1>3

LEMMA AbstractNext ==
  HermesInv /\ [Next]_vars => [Abstract!Next]_Abstract!vars
  <1> SUFFICES ASSUME HermesInv, [Next]_vars PROVE [Abstract!Next]_Abstract!vars
    OBVIOUS
  <1>1. CASE UNCHANGED <<setup, turns>>
    BY <1>1 DEF turns, Abstract!vars
  <1>2. CASE TurnAnswered \/ TurnSilent \/ TurnFails
    <2>1. /\ turn # 0 /\ UNCHANGED <<setup, accepted>>
          /\ \E talk, others : DrainQueue(queue, 0, talk, others)
      BY <1>2 DEF TurnAnswered, TurnSilent, TurnFails, outside
    <2> QED BY <2>1, TurnOverMaps DEF Abstract!Next
  <1>3. ApiChanges \/ LinkChanges \/ Stop \/ UNCHANGED vars => UNCHANGED <<setup, turns>>
    BY DEF ApiChanges, LinkChanges, Stop, vars, outside
  <1>4. ASSUME NEW i, NEW ok, HealthTimer(i) \/ ProbeEnds(i, ok)
        PROVE  UNCHANGED <<setup, turns>>
    BY <1>4 DEF HealthTimer, ProbeEnds, outside
  <1> QED BY <1>1, <1>2, <1>3, <1>4, PhoneMessageMaps DEF Next

(* With a key the bridge works on the phone's messages in order, one at a time, and
   skips none, through failures, unsendable answers and a stop. *)
THEOREM HermesImplementsTurnQueue == Spec => ImplementsTurnQueue
  <1>1. Init => Abstract!Init
    BY DEF Init, Abstract!Init
  <1> QED BY <1>1, AbstractNext, HermesInvariant, PTL
          DEF Spec, ImplementsTurnQueue, Abstract!Spec

-----------------------------------------------------------------------------
(* What has been said stays said: of the conversation a step takes away at most the
   question that is being asked. *)
HistoryKept ==
  \A i \in DOMAIN transcript :
    transcript[i].turn # turn =>
      i \in DOMAIN transcript' /\ transcript'[i] = transcript[i]

(* _drainQueue only ever adds the next question at the end. *)
LEMMA DrainExtends ==
  ASSUME NEW q \in Seq(Turns), NEW busy, NEW talk \in Seq(Messages), NEW others,
         DrainQueue(q, busy, talk, others)
  PROVE  \A i \in DOMAIN talk : i \in DOMAIN transcript' /\ transcript'[i] = talk[i]
  <1>1. CASE transcript' = talk
    BY <1>1
  <1>2. CASE q # <<>> /\ transcript' = Append(talk, Message("user", Head(q)))
    <2>1. Head(q) \in Turns
      BY <1>2, TailElements
    <2>2. Message("user", Head(q)) \in Messages
      BY <2>1 DEF Message, Messages
    <2>3. /\ DOMAIN Append(talk, Message("user", Head(q))) = 1..(Len(talk) + 1)
          /\ \A i \in DOMAIN talk : Append(talk, Message("user", Head(q)))[i] = talk[i]
          /\ DOMAIN talk = 1..Len(talk) /\ Len(talk) \in Nat
      BY <2>2, AppendElements
    <2> QED BY <1>2, <2>3
  <1> QED BY <1>1, <1>2 DEF DrainQueue

LEMMA StepKeepsHistory == HermesInv /\ [Next]_vars => HistoryKept
  <1> SUFFICES ASSUME HermesInv, [Next]_vars PROVE HistoryKept
    OBVIOUS
  <1>1. /\ queue \in Seq(Turns) /\ transcript \in Seq(Messages) /\ turn \in 0..MaxTurns
        /\ accepted \in 0..MaxTurns
        /\ Asked(setup.chat, turn, transcript)
    BY DEF HermesInv, TurnsInv, Conversation
  <1>2. CASE UNCHANGED transcript
    BY <1>2 DEF HistoryKept
  <1>3. CASE PhoneMessage
    <2>1. CASE setup.key
      <3>1. accepted + 1 \in Turns
        BY <1>1, <1>3, MaxTurnsIsNat DEF PhoneMessage, Turns
      <3>2. Append(queue, accepted + 1) \in Seq(Turns)
        BY <1>1, <3>1, AppendElements
      <3>3. DrainQueue(Append(queue, accepted + 1), turn, transcript, hopeful)
        BY <1>3, <2>1 DEF PhoneMessage
      <3> QED BY <1>1, <3>2, <3>3, DrainExtends DEF HistoryKept
    <2> QED BY <1>2, <1>3, <2>1 DEF PhoneMessage
  <1>4. CASE TurnAnswered
    <2> DEFINE answer == Message("assistant", turn)
    <2>1. turn \in Turns
      BY <1>1, <1>4, MaxTurnsIsNat DEF TurnAnswered, Turns
    <2>2. answer \in Messages
      BY <2>1 DEF Message, Messages
    <2> HIDE DEF answer
    <2>3. PICK talk \in {transcript, Append(transcript, answer)} :
            DrainQueue(queue, 0, talk, hopeful \ {turn})
      BY <1>4 DEF TurnAnswered, answer
    <2>4. /\ talk \in Seq(Messages)
          /\ \A i \in DOMAIN transcript : i \in DOMAIN talk /\ talk[i] = transcript[i]
      <3>1. CASE talk = transcript
        BY <1>1, <3>1
      <3>2. CASE talk = Append(transcript, answer)
        BY <1>1, <2>2, <3>2, AppendElements
      <3> QED BY <2>3, <3>1, <3>2
    <2>5. \A i \in DOMAIN talk : i \in DOMAIN transcript' /\ transcript'[i] = talk[i]
      BY <1>1, <2>3, <2>4, DrainExtends
    <2> QED BY <2>4, <2>5 DEF HistoryKept
  <1>5. CASE TurnSilent
    <2>1. DrainQueue(queue, 0, transcript, hopeful \ {turn})
      BY <1>5 DEF TurnSilent
    <2> QED BY <1>1, <2>1, DrainExtends DEF HistoryKept
  <1>6. CASE TurnFails /\ setup.chat
    <2>1. turn # 0 /\ DrainQueue(queue, 0, Front(transcript), hopeful \ {turn})
      BY <1>6 DEF TurnFails
    <2>2. transcript # <<>> /\ transcript[Len(transcript)] = Message("user", turn)
      BY <1>1, <1>6, <2>1 DEF Asked
    <2>3. /\ Front(transcript) \in Seq(Messages)
          /\ DOMAIN Front(transcript) = 1..(Len(transcript) - 1)
          /\ \A i \in DOMAIN Front(transcript) : Front(transcript)[i] = transcript[i]
      BY <1>1, <2>2, FrontElements
    <2>4. transcript[Len(transcript)].turn = turn
      BY <2>2 DEF Message
    <2>5. \A i \in DOMAIN transcript :
            transcript[i].turn # turn => i \in DOMAIN Front(transcript)
      BY <1>1, <2>3, <2>4
    <2>6. \A i \in DOMAIN Front(transcript) :
            i \in DOMAIN transcript' /\ transcript'[i] = Front(transcript)[i]
      BY <1>1, <2>1, <2>3, DrainExtends
    <2> QED BY <2>3, <2>5, <2>6 DEF HistoryKept
  <1>7. CASE TurnFails /\ ~setup.chat
    <2>1. DrainQueue(queue, 0, transcript, hopeful \ {turn})
      BY <1>7 DEF TurnFails
    <2> QED BY <1>1, <2>1, DrainExtends DEF HistoryKept
  <1>8. ApiChanges \/ LinkChanges \/ Stop \/ UNCHANGED vars => UNCHANGED transcript
    BY DEF ApiChanges, LinkChanges, Stop, vars, turns
  <1>9. ASSUME NEW i, NEW ok, HealthTimer(i) \/ ProbeEnds(i, ok)
        PROVE  UNCHANGED transcript
    BY <1>9 DEF HealthTimer, ProbeEnds, turns
  <1> QED BY <1>2, <1>3, <1>4, <1>5, <1>6, <1>7, <1>8, <1>9 DEF Next

(* The pop of a failed turn in _runTurn, which takes the last message whatever it is:
   it takes the turn's own question, and no answer and no earlier question is ever
   lost or moved. *)
THEOREM WhatWasSaidStays == Spec => [][HistoryKept]_vars
  BY StepKeepsHistory, HermesInvariant, PTL DEF Spec
=============================================================================
