------------------------- MODULE NodeControlProofs -------------------------
(***************************************************************************)
(* Proofs about NodeControl, for any requests, nodes, plugins and settings.*)
(***************************************************************************)
EXTENDS NodeControl, SequenceTheorems, TLAPS

\* The types of what requests become.
Types == AnsweredByManager \cup Forwarded \cup Unknown

\* What a request asks.
LEMMA QuestionShape ==
      ASSUME NEW q \in Questions
      PROVE  /\ q # None /\ q.type \in Types
             /\ q.type = "ADD_NODE" => q.node \in Names /\ q.plugin \in Plugins
             /\ q.type \in Forwarded => q.node \in Names
             /\ q.type = "NODE_SETTING" => q.setting \in Settings
<1>1. q # None
  BY NoneAssumption
<1>2. CASE q \in [type : {"ADD_NODE"}, node : Names, plugin : Plugins]
  BY <1>1, <1>2 DEF Types, AnsweredByManager, Forwarded
<1>3. CASE q \in [type : {"NODE_CTL"}, node : Names, ctl : {"start", "stop"}]
  BY <1>1, <1>3 DEF Types, Forwarded
<1>4. CASE q \in [type : {"NODE_SETTING"}, node : Names, setting : Settings]
  BY <1>1, <1>4 DEF Types, Forwarded
<1>5. CASE q \in [type : {"GET_NODE_SETTING"}, node : Names]
  BY <1>1, <1>5 DEF Types, Forwarded
<1>6. CASE q \in [type : {"GET_PLUGIN", "GET_NODE", "GET_NODES_STATE"} \cup Unknown]
  BY <1>1, <1>6 DEF Types, AnsweredByManager, Forwarded, Unknown
<1>7. QED
  BY <1>2, <1>3, <1>4, <1>5, <1>6 DEF Questions

\* What a message has, by its type.
LEMMA MessageShape ==
      ASSUME NEW m \in Messages
      PROVE  /\ m.type \in {"NODE_INIT", "NODE_CTL_EVENT"} \cup Types \cup Heard
             /\ m.type \in Types \cup Heard => m.id \in Requests
             /\ m.type \in Types =>
                   /\ m.sender = "rest" /\ m.q \in Questions
                   /\ m.receiver \in Names \cup {"manager"}
             /\ m.type \in Heard => m.receiver = "rest"
             /\ m.type = "NODE_CTL_EVENT" => m.receiver = "monitor"
<1>1. CASE m \in [type : {"NODE_INIT"}, sender : Names]
  BY <1>1 DEF Types, Heard, AnsweredByManager, Forwarded, Unknown
<1>2. CASE m \in [type : {"NODE_CTL_EVENT"}, receiver : {"monitor"}, id : {None}]
  BY <1>2 DEF Types, Heard, AnsweredByManager, Forwarded, Unknown
<1>3. CASE m \in [type : Types, sender : {"rest"},
                  id : Requests, q : Questions, receiver : Names \cup {"manager"}]
  BY <1>3 DEF Types, Heard, AnsweredByManager, Forwarded, Unknown
<1>4. CASE m \in [type : Heard, sender : Names \cup {"manager"}, receiver : {"rest"},
                  id : Requests, result : Results \cup Settings]
  BY <1>4 DEF Types, Heard, AnsweredByManager, Forwarded, Unknown
<1>5. QED
  BY <1>1, <1>2, <1>3, <1>4 DEF Messages, Types

\* A message for an adapter, and for the manager.
LEMMA Kinds ==
      ASSUME NEW m \in Messages
      PROVE  /\ IsForManager(m) =>
                   \/ m.type \in {"NODE_INIT", "NODE_CTL_EVENT"}
                   \/ /\ m.type \in Types /\ asked[m.id] # None
                      /\ m.q = asked[m.id] /\ m.type = asked[m.id].type
                   \/ /\ m.type \in {"RESP_ERROR", "RESP_GET_NODE_SETTING"}
                      /\ m.type \in Heard /\ asked[m.id].type \in Forwarded
             /\ IsForNode(m) =>
                   \/ /\ m.type \in Forwarded /\ m.type \in Types
                      /\ asked[m.id] # None
                      /\ m.q = asked[m.id] /\ m.type = asked[m.id].type
                   \/ m.type \in Heard /\ Fits(m)
                   \/ Stray(m)
BY DEF IsForManager, IsForNode, IsQuestion, Types, Heard

\* Whether a message is for an adapter is said of what was asked, and of the
\* nodes, which do not get fewer.
LEMMA StillForNode ==
      ASSUME UNCHANGED asked, DOMAIN nodes \subseteq DOMAIN nodes',
             NEW x, IsForNode(x)
      PROVE  IsForNode(x)'
<1>1. IsQuestion(x)' <=> IsQuestion(x)
  BY DEF IsQuestion
<1>2. Fits(x)' <=> Fits(x)
  BY DEF Fits
<1>3. Stray(x) => Stray(x)'
  BY DEF Stray
<1>4. QED
  BY <1>1, <1>2, <1>3 DEF IsForNode

(***************************************************************************)
(* Queues.                                                                 *)
(***************************************************************************)

Typed(box) == box \in [All -> Seq(Messages)]

\* A message is put at the end of a queue.
LEMMA Delivered ==
      ASSUME NEW box, Typed(box), NEW p \in All, NEW a \in Messages
      PROVE  LET new == Deliver(box, p, a)
             IN  /\ Typed(new)
                 /\ \A k \in All : k # p => new[k] = box[k]
                 /\ DOMAIN box[p] = 1 .. Len(box[p])
                 /\ DOMAIN new[p] = 1 .. (Len(box[p]) + 1)
                 /\ Len(box[p]) \in Nat
                 /\ \A i \in DOMAIN box[p] : new[p][i] = box[p][i]
                 /\ new[p][Len(box[p]) + 1] = a
<1> DEFINE s == box[p]
           t == Append(s, a)
<1>1. s \in Seq(Messages)
  BY DEF Typed
<1>2. /\ t \in Seq(Messages) /\ Len(t) = Len(s) + 1
      /\ \A i \in 1 .. Len(s) : t[i] = s[i]
      /\ t[Len(s) + 1] = a
  BY <1>1, AppendProperties
<1>3. /\ DOMAIN s = 1 .. Len(s) /\ DOMAIN t = 1 .. Len(t) /\ Len(s) \in Nat
  BY <1>1, <1>2, LenProperties
<1>4. Deliver(box, p, a) = [box EXCEPT ![p] = t]
  BY DEF Deliver, Typed
<1> HIDE DEF t
<1>5. /\ Deliver(box, p, a)[p] = t /\ Typed(Deliver(box, p, a))
      /\ \A k \in All : k # p => Deliver(box, p, a)[k] = box[k]
  BY <1>2, <1>4 DEF Typed
<1>6. QED
  BY <1>2, <1>3, <1>5

\* The first message of a queue is taken.
Rest(box, n) == [box EXCEPT ![n] = Tail(@)]

LEMMA TakenFrom ==
      ASSUME NEW box, Typed(box), NEW n \in All, box[n] # <<>>
      PROVE  LET new == Rest(box, n)
             IN  /\ Typed(new)
                 /\ \A k \in All : k # n => new[k] = box[k]
                 /\ 1 \in DOMAIN box[n] /\ Head(box[n]) = box[n][1]
                 /\ Head(box[n]) \in Messages
                 /\ \A i \in DOMAIN new[n] :
                       i \in Nat /\ i + 1 \in DOMAIN box[n] /\ new[n][i] = box[n][i + 1]
<1> DEFINE s == box[n]
           t == Tail(s)
<1>1. s \in Seq(Messages) /\ s # <<>>
  BY DEF Typed
<1>2. /\ Head(s) \in Messages /\ t \in Seq(Messages) /\ Len(t) = Len(s) - 1
      /\ \A i \in 1 .. Len(t) : t[i] = s[i + 1]
  BY <1>1, HeadTailProperties
<1>3. /\ DOMAIN s = 1 .. Len(s) /\ DOMAIN t = 1 .. Len(t) /\ Len(s) \in Nat
  BY <1>1, <1>2, LenProperties
<1>4. Len(s) > 0 /\ Head(s) = s[1]
  BY <1>1, <1>3, EmptySeq
<1> DEFINE new == Rest(box, n)
<1>5. new = [box EXCEPT ![n] = t]
  BY DEF Typed, Rest
<1> HIDE DEF t, new
<1>6. /\ new[n] = t /\ Typed(new)
      /\ \A k \in All : k # n => new[k] = box[k]
  BY <1>2, <1>5 DEF Typed
<1>7. QED
  BY <1>2, <1>3, <1>4, <1>6 DEF new

\* What is in a queue is a message.
LEMMA InQueue ==
      ASSUME NEW box, Typed(box), NEW n \in All, NEW i \in DOMAIN box[n]
      PROVE  box[n][i] \in Messages /\ i \in Nat /\ i > 0
<1>1. box[n] \in Seq(Messages)
  BY DEF Typed
<1>2. DOMAIN box[n] = 1 .. Len(box[n]) /\ Len(box[n]) \in Nat
  BY <1>1, LenProperties
<1>3. QED
  BY <1>1, <1>2, ElementOfSeq

\* The manager's loop takes the first message that the adapter of n sent it.
ManagerTakes(n) ==
    \A k \in All : \A i \in DOMAIN toManager'[k] :
        \/ toManager'[k][i].type = "NODE_INIT"
        \/ LET j == IF k = n THEN i + 1 ELSE i
           IN  j \in DOMAIN toManager[k] /\ toManager'[k][i] = toManager[k][j]

\* What it sends goes to the end of the queue of p.
NodeGets(n, p) ==
    \A k \in All : \A j \in DOMAIN toNode'[k] :
        \/ j \in DOMAIN toNode[k] /\ toNode'[k][j] = toNode[k][j]
        \/ /\ k = p /\ j = Len(toNode[p]) + 1
           /\ IsForNode(toNode'[k][j])
           /\ \A r \in Requests :
                 Carries(toNode'[k][j], r) => Carries(toManager[n][1], r)

\* A request that the manager's loop passes on, or answers, is in one place.
LEMMA ManagerMoves ==
      ASSUME Typed(toManager), Typed(toNode), Typed(toManager'), Typed(toNode'),
             MessagesMatch, OnePlace,
             NEW n \in All, toManager[n] # <<>>, NEW p \in All,
             ManagerTakes(n), NodeGets(n, p), UNCHANGED <<asked, answers>>,
             DOMAIN nodes \subseteq DOMAIN nodes'
      PROVE  MessagesMatch' /\ OnePlace'
<1>1. MessagesMatch'
  <2>1. ASSUME NEW k \in All, NEW i \in DOMAIN toManager'[k]
        PROVE  IsForManager(toManager'[k][i])
    BY DEF MessagesMatch, ManagerTakes, IsForManager
  <2>2. ASSUME NEW k \in All, NEW j \in DOMAIN toNode'[k]
        PROVE  IsForNode(toNode'[k][j])
    BY DEF MessagesMatch, NodeGets
  <2>3. \A k \in All : \A i \in DOMAIN toManager'[k] : IsForManager(toManager[k][i])'
    BY <2>1 DEF IsForManager, IsQuestion, Fits
  <2>4. \A k \in All : \A i \in DOMAIN toNode'[k] : IsForNode(toNode[k][i])'
    BY <2>2, StillForNode
  <2>5. \A r \in Requests : \A i \in DOMAIN answers'[r] :
           /\ answers'[r][i].type \in Heard /\ Fits(answers[r][i])'
           /\ answers'[r][i].id = r
    BY DEF MessagesMatch, Fits
  <2>6. QED
    BY <2>3, <2>4, <2>5 DEF MessagesMatch
<1>2. OnePlace'
  <2>1. SUFFICES ASSUME NEW r \in Requests
                 PROVE
        /\ \A k, m \in All : \A i \in Up(k, r)', j \in Up(m, r)' : k = m /\ i = j
        /\ \A k, m \in All : \A i \in Down(k, r)', j \in Down(m, r)' : k = m /\ i = j
        /\ \A k, m \in All : Up(k, r)' = {} \/ Down(m, r)' = {}
        /\ Len(answers'[r]) <= 1
        /\ answers'[r] # <<>> => \A k \in All : Up(k, r)' = {} /\ Down(k, r)' = {}
    BY DEF OnePlace
  <2>2. ASSUME NEW k \in All, NEW i \in Up(k, r)'
        PROVE  i \in Nat /\ i > 0 /\ (IF k = n THEN i + 1 ELSE i) \in Up(k, r)
    <3>1. i \in DOMAIN toManager'[k] /\ Carries(toManager'[k][i], r)
      BY DEF Up
    <3>2. i \in Nat /\ i > 0
      BY <3>1, InQueue
    <3>3. QED
      BY <3>1, <3>2 DEF Up, ManagerTakes, Carries
  <2>3. ASSUME NEW k \in All, NEW j \in Down(k, r)'
        PROVE  \/ j \in Down(k, r)
               \/ k = p /\ j = Len(toNode[p]) + 1 /\ 1 \in Up(n, r)
    <3>1. j \in DOMAIN toNode'[k] /\ Carries(toNode'[k][j], r)
      BY DEF Down
    <3>2. 1 \in DOMAIN toManager[n]
      BY TakenFrom
    <3>3. QED
      BY <3>1, <3>2 DEF Up, Down, NodeGets
  <2>4. /\ \A k, m \in All : \A i \in Up(k, r), j \in Up(m, r) : k = m /\ i = j
        /\ \A k, m \in All : \A i \in Down(k, r), j \in Down(m, r) : k = m /\ i = j
        /\ \A k, m \in All : \A i \in Up(k, r), j \in Down(m, r) : FALSE
    BY DEF OnePlace
  <2>5. \A k, m \in All : \A i \in Up(k, r)', j \in Up(m, r)' : k = m /\ i = j
    <3>1. SUFFICES ASSUME NEW k \in All, NEW m \in All,
                          NEW i \in Up(k, r)', NEW j \in Up(m, r)'
                   PROVE  k = m /\ i = j
      OBVIOUS
    <3>2. /\ i \in Nat /\ j \in Nat
          /\ (IF k = n THEN i + 1 ELSE i) \in Up(k, r)
          /\ (IF m = n THEN j + 1 ELSE j) \in Up(m, r)
      BY <2>2
    <3>3. k = m /\ (IF k = n THEN i + 1 ELSE i) = (IF m = n THEN j + 1 ELSE j)
      BY <2>4, <3>2
    <3>4. QED
      BY <3>2, <3>3
  <2>6. \A k, m \in All : \A i \in Down(k, r)', j \in Down(m, r)' : k = m /\ i = j
    BY <2>3, <2>4
  <2>7. ASSUME NEW k \in All, NEW m \in All, NEW i \in Up(k, r)', NEW j \in Down(m, r)'
        PROVE  FALSE
    <3>1. i \in Nat /\ i > 0 /\ (IF k = n THEN i + 1 ELSE i) \in Up(k, r)
      BY <2>2
    <3>2. k = n /\ i + 1 = 1
      BY <2>3, <2>4, <3>1
    <3>3. QED
      BY <3>1, <3>2
  <2>8. /\ Len(answers'[r]) <= 1
        /\ answers'[r] # <<>> => \A k \in All : Up(k, r)' = {} /\ Down(k, r)' = {}
    <3>1. Len(answers'[r]) <= 1
      BY DEF OnePlace
    <3>2. ASSUME answers'[r] # <<>>, NEW k \in All
          PROVE  Up(k, r)' = {} /\ Down(k, r)' = {}
      <4>1. \A m \in All : Up(m, r) = {} /\ Down(m, r) = {}
        BY <3>2 DEF OnePlace
      <4>2. \A i \in Up(k, r)' : FALSE
        BY <2>2, <4>1
      <4>3. \A j \in Down(k, r)' : FALSE
        BY <2>3, <4>1
      <4>4. QED
        BY <4>2, <4>3
    <3>3. QED
      BY <3>1, <3>2
  <2>9. QED
    BY <2>5, <2>6, <2>7, <2>8
<1>3. QED
  BY <1>1, <1>2

\* The loop of an adapter takes the first message for it.
AdapterTakes(n) ==
    \A k \in All : \A i \in DOMAIN toNode'[k] :
        LET j == IF k = n THEN i + 1 ELSE i
        IN  j \in DOMAIN toNode[k] /\ toNode'[k][i] = toNode[k][j]

\* What it sends, with an event or without, goes to the manager.
ManagerGets(n) ==
    \A k \in All : \A i \in DOMAIN toManager'[k] :
        \/ i \in DOMAIN toManager[k] /\ toManager'[k][i] = toManager[k][i]
        \/ toManager'[k][i].type = "NODE_CTL_EVENT"
        \/ /\ k = n /\ i = Len(toManager'[n])
           /\ IsForManager(toManager'[k][i])
           /\ \A r \in Requests :
                 Carries(toManager'[k][i], r) => Carries(toNode[n][1], r)

\* A request that an adapter answers is in one place.
LEMMA AdapterMoves ==
      ASSUME Typed(toManager), Typed(toNode), Typed(toManager'), Typed(toNode'),
             MessagesMatch, OnePlace, NEW n \in All, toNode[n] # <<>>,
             AdapterTakes(n), ManagerGets(n), UNCHANGED <<asked, answers>>,
             DOMAIN nodes \subseteq DOMAIN nodes'
      PROVE  MessagesMatch' /\ OnePlace'
<1>1. MessagesMatch'
  <2>1. ASSUME NEW k \in All, NEW i \in DOMAIN toNode'[k]
        PROVE  IsForNode(toNode'[k][i])
    BY DEF MessagesMatch, AdapterTakes
  <2>2. ASSUME NEW k \in All, NEW j \in DOMAIN toManager'[k]
        PROVE  IsForManager(toManager'[k][j])
    BY DEF MessagesMatch, ManagerGets, IsForManager
  <2>3. \A k \in All : \A i \in DOMAIN toManager'[k] : IsForManager(toManager[k][i])'
    BY <2>2 DEF IsForManager, IsQuestion, Fits
  <2>4. \A k \in All : \A i \in DOMAIN toNode'[k] : IsForNode(toNode[k][i])'
    BY <2>1, StillForNode
  <2>5. \A r \in Requests : \A i \in DOMAIN answers'[r] :
           /\ answers'[r][i].type \in Heard /\ Fits(answers[r][i])'
           /\ answers'[r][i].id = r
    BY DEF MessagesMatch, Fits
  <2>6. QED
    BY <2>3, <2>4, <2>5 DEF MessagesMatch
<1>2. OnePlace'
  <2>1. SUFFICES ASSUME NEW r \in Requests
                 PROVE
        /\ \A k, m \in All : \A i \in Up(k, r)', j \in Up(m, r)' : k = m /\ i = j
        /\ \A k, m \in All : \A i \in Down(k, r)', j \in Down(m, r)' : k = m /\ i = j
        /\ \A k, m \in All : Up(k, r)' = {} \/ Down(m, r)' = {}
        /\ Len(answers'[r]) <= 1
        /\ answers'[r] # <<>> => \A k \in All : Up(k, r)' = {} /\ Down(k, r)' = {}
    BY DEF OnePlace
  <2>2. ASSUME NEW k \in All, NEW i \in Down(k, r)'
        PROVE  i \in Nat /\ i > 0 /\ (IF k = n THEN i + 1 ELSE i) \in Down(k, r)
    <3>1. i \in DOMAIN toNode'[k] /\ Carries(toNode'[k][i], r)
      BY DEF Down
    <3>2. i \in Nat /\ i > 0
      BY <3>1, InQueue
    <3>3. QED
      BY <3>1, <3>2 DEF Down, AdapterTakes
  <2>3. ASSUME NEW k \in All, NEW j \in Up(k, r)'
        PROVE  \/ j \in Up(k, r)
               \/ k = n /\ j = Len(toManager'[n]) /\ 1 \in Down(n, r)
    <3>1. j \in DOMAIN toManager'[k] /\ Carries(toManager'[k][j], r)
      BY DEF Up
    <3>2. 1 \in DOMAIN toNode[n]
      BY TakenFrom
    <3>3. QED
      BY <3>1, <3>2 DEF Up, Down, ManagerGets, Carries
  <2>4. /\ \A k, m \in All : \A i \in Up(k, r), j \in Up(m, r) : k = m /\ i = j
        /\ \A k, m \in All : \A i \in Down(k, r), j \in Down(m, r) : k = m /\ i = j
        /\ \A k, m \in All : \A i \in Up(k, r), j \in Down(m, r) : FALSE
    BY DEF OnePlace
  <2>5. \A k, m \in All : \A i \in Down(k, r)', j \in Down(m, r)' : k = m /\ i = j
    <3>1. SUFFICES ASSUME NEW k \in All, NEW m \in All,
                          NEW i \in Down(k, r)', NEW j \in Down(m, r)'
                   PROVE  k = m /\ i = j
      OBVIOUS
    <3>2. /\ i \in Nat /\ j \in Nat
          /\ (IF k = n THEN i + 1 ELSE i) \in Down(k, r)
          /\ (IF m = n THEN j + 1 ELSE j) \in Down(m, r)
      BY <2>2
    <3>3. k = m /\ (IF k = n THEN i + 1 ELSE i) = (IF m = n THEN j + 1 ELSE j)
      BY <2>4, <3>2
    <3>4. QED
      BY <3>2, <3>3
  <2>6. \A k, m \in All : \A i \in Up(k, r)', j \in Up(m, r)' : k = m /\ i = j
    BY <2>3, <2>4
  <2>7. ASSUME NEW k \in All, NEW m \in All, NEW i \in Down(k, r)', NEW j \in Up(m, r)'
        PROVE  FALSE
    <3>1. i \in Nat /\ i > 0 /\ (IF k = n THEN i + 1 ELSE i) \in Down(k, r)
      BY <2>2
    <3>2. k = n /\ i + 1 = 1
      BY <2>3, <2>4, <3>1
    <3>3. QED
      BY <3>1, <3>2
  <2>8. /\ Len(answers'[r]) <= 1
        /\ answers'[r] # <<>> => \A k \in All : Up(k, r)' = {} /\ Down(k, r)' = {}
    <3>1. Len(answers'[r]) <= 1
      BY DEF OnePlace
    <3>2. ASSUME answers'[r] # <<>>, NEW k \in All
          PROVE  Up(k, r)' = {} /\ Down(k, r)' = {}
      <4>1. \A m \in All : Up(m, r) = {} /\ Down(m, r) = {}
        BY <3>2 DEF OnePlace
      <4>2. \A i \in Up(k, r)' : FALSE
        BY <2>3, <4>1
      <4>3. \A j \in Down(k, r)' : FALSE
        BY <2>2, <4>1
      <4>4. QED
        BY <4>2, <4>3
    <3>3. QED
      BY <3>1, <3>2
  <2>9. QED
    BY <2>5, <2>6, <2>7, <2>8
<1>3. QED
  BY <1>1, <1>2

\* The queues, with nothing in those of a node that is not managed.
QueuesOK ==
    /\ Typed(toManager) /\ Typed(toNode) /\ MessagesMatch /\ OnePlace
    /\ \A k \in All \ DOMAIN nodes : toNode[k] = <<>> /\ toManager[k] = <<>>

LEMMA TypeOfQueues == TypeOK /\ MessagesMatch /\ OnePlace => QueuesOK
BY DEF TypeOK, QueuesOK, Typed

\* The head of a queue to the manager.
LEMMA HeadForManager ==
      ASSUME QueuesOK, NEW n \in All, toManager[n] # <<>>
      PROVE  LET m == Head(toManager[n])
             IN  m \in Messages /\ IsForManager(m) /\ m = toManager[n][1]
<1>1. Typed(toManager)
  BY DEF QueuesOK
<1>2. /\ 1 \in DOMAIN toManager[n] /\ Head(toManager[n]) = toManager[n][1]
      /\ Head(toManager[n]) \in Messages
  BY <1>1, TakenFrom
<1>3. IsForManager(toManager[n][1])
  BY <1>2 DEF QueuesOK, MessagesMatch
<1>4. QED
  BY <1>2, <1>3

\* The head of a queue to an adapter, which exists.
LEMMA HeadForNode ==
      ASSUME QueuesOK, NEW n \in All, toNode[n] # <<>>
      PROVE  LET m == Head(toNode[n])
             IN  m \in Messages /\ IsForNode(m) /\ m = toNode[n][1] /\ n \in DOMAIN nodes
<1>1. Typed(toNode)
  BY DEF QueuesOK
<1>2. /\ 1 \in DOMAIN toNode[n] /\ Head(toNode[n]) = toNode[n][1]
      /\ Head(toNode[n]) \in Messages
  BY <1>1, TakenFrom
<1>3. IsForNode(toNode[n][1])
  BY <1>2 DEF QueuesOK, MessagesMatch
<1>4. n \in DOMAIN nodes
  BY DEF QueuesOK
<1>5. QED
  BY <1>2, <1>3, <1>4

\* Taken, the queue has lost its head; what one of X announces is no request.
LEMMA ManagerTook ==
      ASSUME QueuesOK, NEW n \in All, toManager[n] # <<>>, NEW X \in SUBSET All,
             \/ toManager' = Taken(n)
             \/ \E x \in X, b \in Messages :
                   b.type = "NODE_INIT" /\ toManager' = Deliver(Taken(n), x, b)
      PROVE  /\ Typed(toManager') /\ ManagerTakes(n)
             /\ \A k \in All \ X : k # n => toManager'[k] = toManager[k]
<1> DEFINE t == Taken(n)
<1>0. Typed(toManager)
  BY DEF QueuesOK
<1>1. /\ Typed(t)
      /\ \A k \in All : k # n => t[k] = toManager[k]
      /\ \A i \in DOMAIN t[n] :
            i \in Nat /\ i + 1 \in DOMAIN toManager[n] /\ t[n][i] = toManager[n][i + 1]
  <2> DEFINE new == Rest(toManager, n)
  <2>1. t = new
    BY DEF Taken, Rest
  <2>2. /\ Typed(new)
        /\ \A k \in All : k # n => new[k] = toManager[k]
        /\ \A i \in DOMAIN new[n] :
              i \in Nat /\ i + 1 \in DOMAIN toManager[n] /\ new[n][i] = toManager[n][i + 1]
    BY <1>0, TakenFrom
  <2> HIDE DEF t, new
  <2>3. QED
    BY <2>1, <2>2
<1> HIDE DEF t
<1>2. CASE toManager' = t
  BY <1>1, <1>2 DEF ManagerTakes
<1>3. ASSUME NEW x \in X, NEW b \in Messages, b.type = "NODE_INIT",
             toManager' = Deliver(t, x, b)
      PROVE  /\ Typed(toManager') /\ ManagerTakes(n)
             /\ \A k \in All \ X : k # n => toManager'[k] = toManager[k]
  <2>1. /\ Typed(toManager') /\ \A k \in All : k # x => toManager'[k] = t[k]
        /\ DOMAIN t[x] = 1 .. Len(t[x]) /\ DOMAIN toManager'[x] = 1 .. (Len(t[x]) + 1)
        /\ Len(t[x]) \in Nat
        /\ \A i \in DOMAIN t[x] : toManager'[x][i] = t[x][i]
        /\ toManager'[x][Len(t[x]) + 1] = b
    BY <1>1, <1>3, Delivered
  <2>2. ASSUME NEW k \in All, NEW i \in DOMAIN toManager'[k]
        PROVE  \/ toManager'[k][i].type = "NODE_INIT"
               \/ i \in DOMAIN t[k] /\ toManager'[k][i] = t[k][i]
    <3>1. CASE k # x
      BY <2>1, <3>1
    <3>2. CASE k = x
      <4>1. i \in DOMAIN t[x] \/ i = Len(t[x]) + 1
        BY <2>1, <3>2
      <4>2. QED
        BY <1>3, <2>1, <3>2, <4>1
    <3>3. QED
      BY <3>1, <3>2
  <2>3. ManagerTakes(n)
    <3>1. SUFFICES ASSUME NEW k \in All, NEW i \in DOMAIN toManager'[k],
                          toManager'[k][i].type # "NODE_INIT"
                   PROVE  LET j == IF k = n THEN i + 1 ELSE i
                          IN  /\ j \in DOMAIN toManager[k]
                              /\ toManager'[k][i] = toManager[k][j]
      BY DEF ManagerTakes
    <3>2. i \in DOMAIN t[k] /\ toManager'[k][i] = t[k][i]
      BY <2>2, <3>1
    <3>3. CASE k = n
      BY <1>1, <3>2, <3>3
    <3>4. CASE k # n
      BY <1>1, <3>2, <3>4
    <3>5. QED
      BY <3>3, <3>4
  <2>4. QED
    BY <1>1, <2>1, <2>3
<1>4. \/ toManager' = t
      \/ \E x \in X, b \in Messages :
            b.type = "NODE_INIT" /\ toManager' = Deliver(t, x, b)
  BY DEF t
<1>5. QED
  BY <1>2, <1>3, <1>4

\* What is sent to a node is at the end of its queue.
LEMMA NodeGot ==
      ASSUME QueuesOK, NEW n \in All, NEW p \in All, NEW a \in Messages, IsForNode(a),
             \A r \in Requests : Carries(a, r) => Carries(toManager[n][1], r),
             toNode' = Deliver(toNode, p, a)
      PROVE  /\ Typed(toNode') /\ NodeGets(n, p)
             /\ \A k \in All : k # p => toNode'[k] = toNode[k]
             /\ \A k \in All : \A j \in DOMAIN toNode'[k] :
                   \/ j \in DOMAIN toNode[k] /\ toNode'[k][j] = toNode[k][j]
                   \/ toNode'[k][j] = a
<1>1. /\ Typed(toNode') /\ \A k \in All : k # p => toNode'[k] = toNode[k]
      /\ DOMAIN toNode[p] = 1 .. Len(toNode[p])
      /\ DOMAIN toNode'[p] = 1 .. (Len(toNode[p]) + 1)
      /\ Len(toNode[p]) \in Nat
      /\ \A i \in DOMAIN toNode[p] : toNode'[p][i] = toNode[p][i]
      /\ toNode'[p][Len(toNode[p]) + 1] = a
  BY Delivered DEF QueuesOK
<1>2. ASSUME NEW k \in All, NEW j \in DOMAIN toNode'[k]
      PROVE  \/ j \in DOMAIN toNode[k] /\ toNode'[k][j] = toNode[k][j]
             \/ k = p /\ j = Len(toNode[p]) + 1 /\ toNode'[k][j] = a
  BY <1>1
<1>3. NodeGets(n, p)
  BY <1>2 DEF NodeGets
<1>4. QED
  BY <1>1, <1>2, <1>3

\* The manager takes a message and sends one, or none.
LEMMA ManagerSends ==
      ASSUME TypeOK, QueuesOK, NEW n \in All, toManager[n] # <<>>,
             \/ toNode' = toNode
             \/ \E p \in DOMAIN nodes, a \in Messages :
                   /\ toNode' = Deliver(toNode, p, a) /\ IsForNode(a)
                   /\ \A r \in Requests : Carries(a, r) => Carries(toManager[n][1], r),
             \/ toManager' = Taken(n)
             \/ \E x \in DOMAIN nodes', b \in Messages :
                   b.type = "NODE_INIT" /\ toManager' = Deliver(Taken(n), x, b),
             DOMAIN nodes \subseteq DOMAIN nodes', DOMAIN nodes' \subseteq All,
             UNCHANGED <<asked, answers>>
      PROVE  QueuesOK'
<1>1. "rest" \in DOMAIN nodes /\ DOMAIN nodes \subseteq All /\ n \in DOMAIN nodes
  BY DEF TypeOK, QueuesOK
<1>2. /\ Typed(toManager') /\ ManagerTakes(n)
      /\ \A k \in All \ DOMAIN nodes' : k # n => toManager'[k] = toManager[k]
  BY ManagerTook
<1>3. PICK p \in DOMAIN nodes :
        Typed(toNode') /\ NodeGets(n, p) /\ \A k \in All : k # p => toNode'[k] = toNode[k]
  <2>1. CASE toNode' = toNode
    <3>1. \A p \in DOMAIN nodes : NodeGets(n, p)
      BY <2>1 DEF NodeGets
    <3>2. QED
      BY <1>1, <2>1, <3>1 DEF QueuesOK, TypeOK
  <2>2. CASE toNode' # toNode
    BY <2>2, <1>1, NodeGot
  <2>3. QED
    BY <2>1, <2>2
<1>4. MessagesMatch' /\ OnePlace'
  BY <1>1, <1>2, <1>3, ManagerMoves DEF QueuesOK
<1>5. ASSUME NEW k \in All \ DOMAIN nodes'
      PROVE  toNode'[k] = <<>> /\ toManager'[k] = <<>>
  <2>1. k # p /\ k # n /\ k \notin DOMAIN nodes
    BY <1>1
  <2>2. toNode'[k] = toNode[k] /\ toManager'[k] = toManager[k]
    BY <1>2, <1>3, <2>1
  <2>3. QED
    BY <2>1, <2>2 DEF QueuesOK
<1>6. QED
  BY <1>2, <1>3, <1>4, <1>5 DEF QueuesOK

\* Who was granted its node was told so before.
LEMMA NothingGranted ==
      ASSUME GrantedOnce, UNCHANGED <<asked, answers>>, DOMAIN nodes \subseteq DOMAIN nodes',
             \A k \in All : \A j \in DOMAIN toNode'[k] :
                \/ \E i \in DOMAIN toNode[k] : toNode'[k][j] = toNode[k][i]
                \/ \A r \in Requests : Carries(toNode'[k][j], r) =>
                      asked[r].type # "ADD_NODE" \/ toNode'[k][j].result # Success
      PROVE  GrantedOnce'
<1>1. ASSUME NEW r \in Requests, Granted(r)'
      PROVE  Granted(r)
  <2>1. asked[r] # None /\ asked[r].type = "ADD_NODE"
    BY <1>1 DEF Granted
  <2>2. CASE \E i \in DOMAIN answers'[r] : answers'[r][i].result = Success
    BY <2>1, <2>2 DEF Granted
  <2>3. ASSUME NEW k \in All, NEW j \in Down(k, r)', toNode'[k][j].result = Success
        PROVE  Granted(r)
    <3>1. j \in DOMAIN toNode'[k] /\ Carries(toNode'[k][j], r)
      BY DEF Down
    <3>2. PICK i \in DOMAIN toNode[k] : toNode'[k][j] = toNode[k][i]
      BY <2>1, <2>3, <3>1
    <3>3. i \in Down(k, r) /\ toNode[k][i].result = Success
      BY <2>3, <3>1, <3>2 DEF Down
    <3>4. QED
      BY <2>1, <3>3 DEF Granted
  <2>4. QED
    BY <1>1, <2>2, <2>3 DEF Granted
<1>2. QED
  BY <1>1 DEF GrantedOnce

(***************************************************************************)
(* The loop of the manager.                                                *)
(***************************************************************************)

\* What answers a request goes to the REST plugin and is for that request.
LEMMA Answers ==
      ASSUME NEW m \in Messages, m.type \in Types, NEW type \in Heard,
             NEW result \in Results \cup Settings
      PROVE  LET a == Exchanged(m, type, result)
             IN  /\ a \in Messages /\ a.type = type /\ a.id = m.id
                 /\ a.result = result /\ a.receiver = "rest"
                 /\ m.sender = "rest" /\ m.id \in Requests
                 /\ \A r : Carries(a, r) => Carries(m, r)
<1>1. /\ m.sender = "rest" /\ m.id \in Requests
      /\ m.receiver \in Names \cup {"manager"}
  BY MessageShape
<1> DEFINE a == Exchanged(m, type, result)
<1>2. /\ a.type = type /\ a.id = m.id /\ a.result = result /\ a.receiver = "rest"
      /\ a \in [type : Heard, sender : Names \cup {"manager"}, receiver : {"rest"},
                id : Requests, result : Results \cup Settings]
  BY <1>1 DEF Exchanged
<1>3. a \in Messages
  BY <1>2 DEF Messages
<1> HIDE DEF a
<1>4. \A r : Carries(a, r) => Carries(m, r)
  <2>1. m.type \notin {"NODE_INIT", "NODE_CTL_EVENT"}
    BY DEF Types, AnsweredByManager, Forwarded, Unknown
  <2>2. QED
    BY <1>2, <2>1 DEF Carries
<1>5. QED
  BY <1>1, <1>2, <1>3, <1>4 DEF a

\* A message goes to an adapter that is connected.
LEMMA PeersAreNodes ==
      ASSUME TypeOK, NEW k, NEW p \in Peers(k)
      PROVE  p \in DOMAIN nodes /\ p \in All
BY DEF Peers, TypeOK

\* A step that only moves messages.
LEMMA OnlyMessages ==
      ASSUME IInv, up, QueuesOK', GrantedOnce', bound \subseteq bound',
             bound' \subseteq DOMAIN nodes, UNCHANGED <<up, nodes, started, asked, answers>>
      PROVE  IInv'
<1>1. TypeOK'
  BY DEF IInv, TypeOK, QueuesOK, Typed
<1>2. LifecycleAgrees'
  BY DEF IInv, LifecycleAgrees
<1>3. OnlyRequestsAbort'
  BY DEF OnlyRequestsAbort
<1>4. QED
  BY <1>1, <1>2, <1>3 DEF IInv, QueuesOK

\* A message is taken and one is sent that adds no node.
LEMMA SendsOne ==
      ASSUME IInv, up, NEW n \in All, toManager[n] # <<>>, toManager' = Taken(n),
             NEW k, NEW p \in Peers(k), NEW a \in Messages,
             toNode' = Deliver(toNode, p, a), IsForNode(a),
             \A r : Carries(a, r) =>
                /\ Carries(Head(toManager[n]), r)
                /\ asked[r].type # "ADD_NODE" \/ a.result # Success,
             UNCHANGED <<up, nodes, started, bound, asked, answers>>
      PROVE  IInv'
<1>1. QueuesOK /\ TypeOK /\ GrantedOnce
  BY TypeOfQueues DEF IInv
<1>2. Head(toManager[n]) = toManager[n][1]
  BY <1>1, HeadForManager
<1>3. p \in DOMAIN nodes /\ p \in All
  BY <1>1, PeersAreNodes
<1>4. QueuesOK'
  <2>1. \A r \in Requests : Carries(a, r) => Carries(toManager[n][1], r)
    BY <1>2
  <2>2. \E x \in DOMAIN nodes, c \in Messages :
           /\ toNode' = Deliver(toNode, x, c) /\ IsForNode(c)
           /\ \A r \in Requests : Carries(c, r) => Carries(toManager[n][1], r)
    BY <1>3, <2>1
  <2>3. DOMAIN nodes \subseteq DOMAIN nodes' /\ DOMAIN nodes' \subseteq All
    BY <1>1 DEF TypeOK
  <2>4. QED
    BY <1>1, <2>2, <2>3, ManagerSends
<1>5. \A x \in All : \A j \in DOMAIN toNode'[x] :
         \/ j \in DOMAIN toNode[x] /\ toNode'[x][j] = toNode[x][j]
         \/ toNode'[x][j] = a
  <2>1. \A r \in Requests : Carries(a, r) => Carries(toManager[n][1], r)
    BY <1>2
  <2>2. QED
    BY <1>1, <1>3, <2>1, NodeGot
<1>6. GrantedOnce'
  BY <1>1, <1>5, NothingGranted
<1>7. QED
  BY <1>1, <1>4, <1>6, OnlyMessages DEF TypeOK

\* NODE_INIT makes the pipe of a node known.
LEMMA BindKeepsIInv ==
      ASSUME IInv, up, NEW n \in All, toManager[n] # <<>>,
             NEW m, m = Head(toManager[n]), Bind(n, m), UNCHANGED <<asked, answers>>
      PROVE  IInv'
<1>1. QueuesOK
  BY TypeOfQueues DEF IInv
<1>2. n \in DOMAIN nodes
  BY <1>1 DEF QueuesOK
<1>3. m \in Messages /\ m.type = "NODE_INIT" /\ m = toManager[n][1]
  BY <1>1, HeadForManager DEF Bind
<1>4. "rest" \in bound /\ TypeOK /\ GrantedOnce
  BY DEF IInv, TypeOK
<1>5. QueuesOK'
  BY <1>1, <1>4, ManagerSends DEF Bind, TypeOK
<1>6. GrantedOnce'
  BY <1>4, NothingGranted DEF Bind
<1>7. QED
  BY <1>2, <1>5, <1>6, OnlyMessages DEF Bind, IInv, TypeOK

\* The manager tells what it knows.
LEMMA TellKeepsIInv ==
      ASSUME IInv, up, NEW n \in All, toManager[n] # <<>>,
             NEW m, m = Head(toManager[n]), Tell(n, m), UNCHANGED <<asked, answers>>
      PROVE  IInv'
<1>1. QueuesOK /\ TypeOK /\ GrantedOnce
  BY TypeOfQueues DEF IInv
<1>2. m \in Messages /\ IsForManager(m) /\ m = toManager[n][1]
  BY <1>1, HeadForManager
<1>3. /\ m.type \in {"GET_PLUGIN", "GET_NODE", "GET_NODES_STATE"} /\ m.type \in Types
      /\ ResponseTo[m.type] \in Heard \ {"RESP_ERROR"} /\ m.type \in DOMAIN ResponseTo
  BY DEF Tell, AnsweredByManager, ResponseTo, Heard, Types
<1>4. asked[m.id] # None /\ m.type = asked[m.id].type
  BY <1>2, <1>3, Kinds DEF Types
<1> DEFINE a == Exchanged(m, ResponseTo[m.type], Success)
<1>5. /\ a \in Messages /\ a.type = ResponseTo[m.type] /\ a.id = m.id
      /\ \A r : Carries(a, r) => Carries(m, r)
  BY <1>2, <1>3, Answers DEF Results
<1>6. PICK p \in Peers(m.sender) : toNode' = Deliver(toNode, p, a)
  BY DEF Tell, Reply
<1> HIDE DEF a
<1>7. IsForNode(a)
  BY <1>3, <1>4, <1>5 DEF IsForNode, Fits
<1>8. \A r : Carries(a, r) => Carries(m, r) /\ asked[r].type # "ADD_NODE"
  BY <1>3, <1>4, <1>5 DEF Carries
<1>9. QED
  BY <1>5, <1>6, <1>7, <1>8, SendsOne DEF Tell, Reply

\* What hinders a node to be added.
LEMMA AddErrors ==
      ASSUME NEW q
      PROVE  /\ AddError(q) \in Results
             /\ AddError(q) = Success => q.node \notin DOMAIN nodes
<1>1. CASE q.plugin \notin Loaded
  BY <1>1 DEF AddError, Results, Success
<1>2. CASE q.plugin \in Loaded \cap Single
  BY <1>2 DEF AddError, Results, Success
<1>3. CASE q.plugin \in Loaded \ Single /\ q.node \in DOMAIN nodes
  BY <1>3 DEF AddError, Results, Success
<1>4. CASE q.plugin \in Loaded \ Single /\ q.node \notin DOMAIN nodes
  BY <1>4 DEF AddError, Results, Success
<1>5. QED
  BY <1>1, <1>2, <1>3, <1>4

\* A node is not added.
LEMMA AddNodeFailsKeepsIInv ==
      ASSUME IInv, up, NEW n \in All, toManager[n] # <<>>,
             NEW m, m = Head(toManager[n]), AddNodeFails(n, m), UNCHANGED <<asked, answers>>
      PROVE  IInv'
<1>1. QueuesOK
  BY TypeOfQueues DEF IInv
<1>2. m \in Messages /\ IsForManager(m)
  BY <1>1, HeadForManager
<1>3. m.type = "ADD_NODE" /\ m.type \in Types /\ "RESP_ERROR" \in Heard
  BY DEF AddNodeFails, AnsweredByManager, Types, Heard
<1>4. asked[m.id] # None /\ asked[m.id].type = "ADD_NODE"
  BY <1>2, <1>3, Kinds
<1>5. OpenError(m.q) \in Results /\ OpenError(m.q) # Success
  BY AddErrors DEF OpenError, Results, Success
<1> DEFINE a == Exchanged(m, "RESP_ERROR", OpenError(m.q))
<1>6. /\ a \in Messages /\ a.type = "RESP_ERROR" /\ a.id = m.id
      /\ a.result = OpenError(m.q)
      /\ \A r : Carries(a, r) => Carries(m, r)
  BY <1>2, <1>3, <1>5, Answers
<1>7. PICK p \in Peers(m.sender) : toNode' = Deliver(toNode, p, a)
  BY DEF AddNodeFails, Reply
<1> HIDE DEF a
<1>8. IsForNode(a)
  BY <1>3, <1>4, <1>6 DEF IsForNode, Fits
<1>9. QED
  BY <1>5, <1>6, <1>7, <1>8, SendsOne DEF AddNodeFails, Reply

\* A setting for a node that does not exist is refused.
LEMMA RefuseSettingKeepsIInv ==
      ASSUME IInv, up, NEW n \in All, toManager[n] # <<>>,
             NEW m, m = Head(toManager[n]), RefuseSetting(n, m), UNCHANGED <<asked, answers>>
      PROVE  IInv'
<1>1. QueuesOK
  BY TypeOfQueues DEF IInv
<1>2. m \in Messages /\ IsForManager(m)
  BY <1>1, HeadForManager
<1>3. /\ m.type = "NODE_SETTING" /\ m.type \in Types /\ "RESP_ERROR" \in Heard
      /\ "NODE_NOT_EXIST" \in Results
  BY DEF RefuseSetting, Forwarded, Types, Heard, Results
<1>4. asked[m.id] # None /\ asked[m.id].type = "NODE_SETTING"
  BY <1>2, <1>3, Kinds
<1> DEFINE a == Exchanged(m, "RESP_ERROR", "NODE_NOT_EXIST")
<1>5. /\ a \in Messages /\ a.type = "RESP_ERROR" /\ a.id = m.id
      /\ \A r : Carries(a, r) => Carries(m, r)
  BY <1>2, <1>3, Answers
<1>6. PICK p \in Peers(m.sender) : toNode' = Deliver(toNode, p, a)
  BY DEF RefuseSetting, Reply
<1> HIDE DEF a
<1>7. IsForNode(a)
  BY <1>3, <1>4, <1>5 DEF IsForNode, Fits, Forwarded
<1>8. \A r : Carries(a, r) => Carries(m, r) /\ asked[r].type # "ADD_NODE"
  BY <1>4, <1>5 DEF Carries
<1>9. QED
  BY <1>5, <1>6, <1>7, <1>8, SendsOne DEF RefuseSetting, Reply

\* A request for a node, what a node answers, and an event for a node named
\* monitor is passed on.
LEMMA ForwardKeepsIInv ==
      ASSUME IInv, up, NEW n \in All, toManager[n] # <<>>,
             NEW m, m = Head(toManager[n]), Forward(n, m), UNCHANGED <<asked, answers>>
      PROVE  IInv'
<1>1. QueuesOK /\ TypeOK
  BY TypeOfQueues DEF IInv
<1>2. m \in Messages /\ IsForManager(m)
  BY <1>1, HeadForManager
<1>3. PICK p \in Peers(m.receiver) : toNode' = Deliver(toNode, p, m)
  BY DEF Forward
<1>4. IsForNode(m) /\ \A r : Carries(m, r) => asked[r].type # "ADD_NODE"
  <2>1. CASE m.type = "NODE_CTL_EVENT"
    <3>1. m.receiver = "monitor"
      BY <1>2, <2>1, MessageShape
    <3>2. "monitor" \in DOMAIN nodes
      BY <2>1, <3>1 DEF Forward
    <3>3. QED
      BY <2>1, <3>2 DEF IsForNode, Stray, Carries
  <2>2. CASE m.type # "NODE_CTL_EVENT"
    <3>1. \/ m.type \in Forwarded
          \/ m.type \in {"RESP_GET_NODE_SETTING", "RESP_ERROR"}
      BY <2>2 DEF Forward
    <3>2. m.type \notin {"NODE_INIT", "NODE_CTL_EVENT"}
      BY <3>1 DEF Forwarded
    <3>3. IsForNode(m) /\ asked[m.id].type \in Forwarded
      BY <1>2, <3>1, <3>2 DEF IsForNode, IsForManager, IsQuestion, Heard, Forwarded,
         AnsweredByManager, Unknown
    <3>4. QED
      BY <3>3 DEF Carries, Forwarded
  <2>3. QED
    BY <2>1, <2>2
<1>5. QED
  BY <1>2, <1>3, <1>4, SendsOne DEF Forward

\* A message for a node that does not exist is dropped.
LEMMA DropKeepsIInv ==
      ASSUME IInv, up, NEW n \in All, toManager[n] # <<>>,
             NEW m, m = Head(toManager[n]), Drop(n, m), UNCHANGED <<asked, answers>>
      PROVE  IInv'
<1>1. QueuesOK /\ TypeOK /\ GrantedOnce
  BY TypeOfQueues DEF IInv
<1>2. QueuesOK'
  BY <1>1, ManagerSends DEF Drop, TypeOK
<1>3. GrantedOnce'
  BY <1>1, NothingGranted DEF Drop
<1>4. QED
  BY <1>1, <1>2, <1>3, OnlyMessages DEF Drop, TypeOK

\* Whether the messages of the queues and of the answers are the ones to be
\* there is said of what was asked, of the nodes and of them alone.
LEMMA MessagesStillMatch ==
      ASSUME MessagesMatch, UNCHANGED <<nodes, asked, toManager, toNode, answers>>
      PROVE  MessagesMatch'
<1>1. ASSUME NEW x
      PROVE  Fits(x)' <=> Fits(x)
  BY DEF Fits
<1>2. ASSUME NEW x
      PROVE  IsForManager(x)' <=> IsForManager(x)
  BY DEF IsForManager, IsQuestion, Fits
<1>4. \A k \in All : \A i \in DOMAIN toManager'[k] : IsForManager(toManager[k][i])'
  BY <1>2 DEF MessagesMatch
<1>5. \A k \in All : \A i \in DOMAIN toNode'[k] : IsForNode(toNode[k][i])'
  BY StillForNode DEF MessagesMatch
<1>6. \A r \in Requests : \A i \in DOMAIN answers'[r] :
         /\ answers'[r][i].type \in Heard /\ Fits(answers[r][i])'
         /\ answers'[r][i].id = r
  BY <1>1 DEF MessagesMatch
<1>7. QED
  BY <1>4, <1>5, <1>6 DEF MessagesMatch

\* The process ends over a request that was not known, or a plugin whose init
\* failed.
LEMMA AbortKeepsIInv ==
      ASSUME IInv, up, NEW n \in All, toManager[n] # <<>>,
             NEW m, m = Head(toManager[n]), AddNodeCrashes(n, m) \/ Abort(n, m),
             UNCHANGED <<asked, answers>>
      PROVE  IInv'
<1>1. IsForManager(m)
  BY TypeOfQueues, HeadForManager DEF IInv
<1>2. m.type \in Unknown \cup {"ADD_NODE"}
  <2>1. CASE AddNodeCrashes(n, m)
    BY <2>1 DEF AddNodeCrashes
  <2>2. CASE Abort(n, m)
    BY <1>1, <2>2 DEF Abort, Known, IsForManager
  <2>3. QED
    BY <2>1, <2>2
<1>3. up' = FALSE /\ UNCHANGED <<nodes, started, bound, toManager, toNode>>
  BY DEF AddNodeCrashes, Abort
<1>4. OnlyRequestsAbort'
  BY <1>2, <1>3 DEF OnlyRequestsAbort
<1>5. TypeOK'
  BY <1>3 DEF IInv, TypeOK
<1>6. LifecycleAgrees'
  BY <1>3 DEF IInv, LifecycleAgrees
<1>7. MessagesMatch'
  BY <1>3, MessagesStillMatch DEF IInv
<1>8. OnePlace'
  BY <1>3 DEF IInv, OnePlace, Up, Down
<1>9. GrantedOnce'
  BY <1>3 DEF IInv, GrantedOnce, Granted, Down
<1>10. QED
  BY <1>4, <1>5, <1>6, <1>7, <1>8, <1>9 DEF IInv

\* A node is added.
LEMMA AddNodeKeepsIInv ==
      ASSUME IInv, up, NEW n \in All, toManager[n] # <<>>,
             NEW m, m = Head(toManager[n]), AddNode(n, m), UNCHANGED <<asked, answers>>
      PROVE  IInv'
<1>1. QueuesOK /\ TypeOK /\ GrantedOnce /\ LifecycleAgrees
  BY TypeOfQueues DEF IInv
<1>2. m \in Messages /\ IsForManager(m) /\ m = toManager[n][1]
  BY <1>1, HeadForManager
<1>3. m.type = "ADD_NODE" /\ m.type \in Types /\ "RESP_ERROR" \in Heard
  BY DEF AddNode, AnsweredByManager, Types, Heard
<1>4. /\ asked[m.id] # None /\ asked[m.id].type = "ADD_NODE" /\ m.q = asked[m.id]
      /\ m.id \in Requests
  BY <1>2, <1>3, Kinds, MessageShape DEF Types, AnsweredByManager
<1> DEFINE x == m.q.node
<1>5. x \in Names /\ x \notin DOMAIN nodes
  <2>1. m.q \in Questions /\ m.q.type = "ADD_NODE"
    BY <1>2, <1>3, <1>4, MessageShape
  <2>2. m.q.node \in Names
    BY <2>1, QuestionShape
  <2>3. QED
    BY <2>2, AddErrors DEF AddNode
<1> DEFINE a == Exchanged(m, "RESP_ERROR", Success)
<1>6. /\ a \in Messages /\ a.type = "RESP_ERROR" /\ a.id = m.id
      /\ \A r : Carries(a, r) => Carries(m, r)
  BY <1>2, <1>3, Answers DEF Results
<1>7. PICK p \in Peers(m.sender) : toNode' = Deliver(toNode, p, a)
  BY DEF AddNode
<1> HIDE DEF a
<1>8. IsForNode(a)
  BY <1>3, <1>4, <1>6 DEF IsForNode, Fits
<1>9. p \in DOMAIN nodes /\ p \in All
  BY <1>1, PeersAreNodes
<1>10. PICK new \in {[state |-> "INIT", setting |-> None]} \cup
               [state : {"READY", "RUNNING"}, setting : Settings \ Refused] :
          /\ nodes' = [y \in DOMAIN nodes \cup {x} |-> IF y = x THEN new ELSE nodes[y]]
          /\ started' = IF new.state = "RUNNING" THEN started \cup {x} ELSE started
  BY DEF AddNode
<1>11. /\ DOMAIN nodes' = DOMAIN nodes \cup {x} /\ nodes'[x] = new
       /\ \A y \in DOMAIN nodes : nodes'[y] = nodes[y]
  BY <1>5, <1>10
<1>12. DOMAIN nodes' \subseteq All
  BY <1>1, <1>5, <1>11 DEF TypeOK, All
<1> HIDE DEF x
<1>13. QueuesOK'
  <2>1. \A r \in Requests : Carries(a, r) => Carries(toManager[n][1], r)
    BY <1>2, <1>6
  <2>2. \E y \in DOMAIN nodes, c \in Messages :
           /\ toNode' = Deliver(toNode, y, c) /\ IsForNode(c)
           /\ \A r \in Requests : Carries(c, r) => Carries(toManager[n][1], r)
    BY <1>6, <1>7, <1>8, <1>9, <2>1
  <2> DEFINE b == [type |-> "NODE_INIT", sender |-> x]
  <2>3. b \in Messages /\ b.type = "NODE_INIT"
    BY <1>5 DEF Messages
  <2>4. toManager' = Deliver(Taken(n), x, b)
    BY DEF AddNode, Deliver, x
  <2> HIDE DEF b
  <2>5. x \in DOMAIN nodes'
    BY <1>11
  <2>6. QED
    BY <1>1, <1>11, <1>12, <2>2, <2>3, <2>4, <2>5, ManagerSends
<1>14. GrantedOnce'
  <2>1. \A k \in All : \A j \in DOMAIN toNode'[k] :
           \/ j \in DOMAIN toNode[k] /\ toNode'[k][j] = toNode[k][j]
           \/ toNode'[k][j] = a
    <3>1. \A r \in Requests : Carries(a, r) => Carries(toManager[n][1], r)
      BY <1>2, <1>6
    <3>2. QED
      BY <1>1, <1>6, <1>7, <1>8, <1>9, <3>1, NodeGot
  <2>2. ASSUME NEW r \in Requests, Granted(r)'
        PROVE  Granted(r) \/ r = m.id
    <3>1. SUFFICES ASSUME r # m.id PROVE Granted(r)
      OBVIOUS
    <3>2. asked[r] # None /\ asked[r].type = "ADD_NODE"
      BY <2>2 DEF Granted
    <3>3. CASE \E i \in DOMAIN answers'[r] : answers'[r][i].result = Success
      BY <3>2, <3>3 DEF Granted
    <3>4. ASSUME NEW k \in All, NEW j \in Down(k, r)', toNode'[k][j].result = Success
          PROVE  Granted(r)
      <4>1. j \in DOMAIN toNode'[k] /\ Carries(toNode'[k][j], r)
        BY DEF Down
      <4>2. toNode'[k][j] # a
        BY <3>1, <4>1, <1>6 DEF Carries
      <4>3. j \in Down(k, r) /\ toNode[k][j].result = Success
        BY <2>1, <3>4, <4>1, <4>2 DEF Down
      <4>4. QED
        BY <3>2, <4>3 DEF Granted
    <3>5. QED
      BY <2>2, <3>3, <3>4 DEF Granted
  <2>3. \A r \in Requests : r # m.id /\ Granted(r)' => asked[r].node \in DOMAIN nodes
    BY <1>1, <2>2 DEF GrantedOnce
  <2>4. asked[m.id].node = x
    BY <1>4 DEF x
  <2>5. \A r \in Requests : Granted(r)' => asked'[r].node \in DOMAIN nodes'
    BY <1>11, <2>3, <2>4
  <2>6. ASSUME NEW r \in Requests, NEW s \in Requests, Granted(r)', Granted(s)', r # s
        PROVE  asked'[r].node # asked'[s].node
    <3>1. CASE r # m.id /\ s # m.id
      BY <1>1, <2>2, <2>6, <3>1 DEF GrantedOnce
    <3>2. CASE r = m.id \/ s = m.id
      BY <1>5, <2>3, <2>4, <2>6, <3>2 DEF x
    <3>3. QED
      BY <3>1, <3>2
  <2>7. QED
    BY <2>5, <2>6 DEF GrantedOnce
<1>15. started' \subseteq DOMAIN nodes' /\ LifecycleAgrees'
  <2>1. x \notin started
    BY <1>1, <1>5 DEF TypeOK
  <2>2. started' \subseteq DOMAIN nodes'
    BY <1>1, <1>10, <1>11 DEF TypeOK
  <2>3. \A y \in DOMAIN nodes : y \in started' <=> y \in started
    BY <1>5, <1>10 DEF x
  <2>4. x \in started' <=> new.state = "RUNNING"
    BY <1>10, <2>1
  <2>5. new.state # "INIT" => new.setting \in Settings \ Refused
    BY <1>10
  <2>6. QED
    BY <1>1, <1>11, <2>2, <2>3, <2>4, <2>5 DEF LifecycleAgrees
<1>16. nodes' \in [DOMAIN nodes' -> [state : {"INIT", "READY", "RUNNING", "STOPPED"},
                                     setting : Settings \cup {None}]]
  <2>1. new \in [state : {"INIT", "READY", "RUNNING", "STOPPED"},
                 setting : Settings \cup {None}]
    BY <1>10
  <2>2. QED
    BY <1>1, <1>10, <1>11, <2>1 DEF TypeOK
<1>17. TypeOK'
  BY <1>1, <1>11, <1>12, <1>13, <1>15, <1>16 DEF AddNode, TypeOK, QueuesOK, Typed
<1>18. QED
  BY <1>13, <1>14, <1>15, <1>17 DEF IInv, QueuesOK, OnlyRequestsAbort, AddNode

\* The loop of the manager.
LEMMA ManagerLoopKeepsIInv ==
      ASSUME IInv, NEW n \in All, ManagerLoop(n)
      PROVE  IInv'
<1> DEFINE m == Head(toManager[n])
<1>1. /\ up /\ toManager[n] # <<>> /\ UNCHANGED <<asked, answers>>
      /\ \/ Bind(n, m) \/ Tell(n, m) \/ AddNode(n, m) \/ AddNodeFails(n, m)
         \/ AddNodeCrashes(n, m) \/ Drop(n, m) \/ RefuseSetting(n, m)
         \/ Forward(n, m) \/ Abort(n, m)
  BY DEF ManagerLoop
<1> HIDE DEF m
<1>2. CASE Bind(n, m)
  BY <1>1, <1>2, BindKeepsIInv DEF m
<1>3. CASE Tell(n, m)
  BY <1>1, <1>3, TellKeepsIInv DEF m
<1>4. CASE AddNode(n, m)
  BY <1>1, <1>4, AddNodeKeepsIInv DEF m
<1>5. CASE AddNodeFails(n, m)
  BY <1>1, <1>5, AddNodeFailsKeepsIInv DEF m
<1>6. CASE AddNodeCrashes(n, m) \/ Abort(n, m)
  BY <1>1, <1>6, AbortKeepsIInv DEF m
<1>7. CASE Drop(n, m)
  BY <1>1, <1>7, DropKeepsIInv DEF m
<1>8. CASE RefuseSetting(n, m)
  BY <1>1, <1>8, RefuseSettingKeepsIInv DEF m
<1>9. CASE Forward(n, m)
  BY <1>1, <1>9, ForwardKeepsIInv DEF m
<1>10. QED
  BY <1>1, <1>2, <1>3, <1>4, <1>5, <1>6, <1>7, <1>8, <1>9

(***************************************************************************)
(* The loop of an adapter.                                                 *)
(***************************************************************************)

\* The monitor is told.
Event == [type |-> "NODE_CTL_EVENT", receiver |-> "monitor", id |-> None]

\* What an adapter sends is at the end of its queue.
Longer(box, n, ms) == [box EXCEPT ![n] = @ \o ms]

LEMMA Sent ==
      ASSUME NEW box, Typed(box), NEW n \in All, NEW a \in Messages, NEW ms,
             ms = <<a>> \/ ms = <<Event>> \o <<a>>
      PROVE  LET new == Longer(box, n, ms)
             IN  /\ Typed(new)
                 /\ \A k \in All : k # n => new[k] = box[k]
                 /\ \A i \in DOMAIN new[n] :
                       \/ i \in DOMAIN box[n] /\ new[n][i] = box[n][i]
                       \/ new[n][i] = Event
                       \/ i = Len(new[n]) /\ new[n][i] = a
<1> DEFINE s == box[n]
           t == s \o ms
<1>1. Event \in Messages
  BY DEF Event, Messages
<1>2. /\ ms \in Seq(Messages) /\ Len(ms) \in {1, 2} /\ ms[Len(ms)] = a
      /\ Len(ms) = 2 => ms[1] = Event
  <2>1. CASE ms = <<a>>
    BY <2>1
  <2>2. CASE ms = <<Event>> \o <<a>>
    <3>1. <<Event>> \in Seq(Messages) /\ <<a>> \in Seq(Messages)
      BY <1>1
    <3>2. /\ ms \in Seq(Messages) /\ Len(ms) = 2
          /\ ms[1] = <<Event>>[1] /\ ms[2] = <<a>>[1]
      BY <2>2, <3>1, ConcatProperties
    <3>3. QED
      BY <3>2
  <2>3. QED
    BY <2>1, <2>2
<1>3. s \in Seq(Messages) /\ DOMAIN s = 1 .. Len(s) /\ Len(s) \in Nat
  BY LenProperties DEF Typed
<1>4. /\ t \in Seq(Messages) /\ Len(t) = Len(s) + Len(ms)
      /\ \A i \in 1 .. Len(t) : t[i] = IF i <= Len(s) THEN s[i] ELSE ms[i - Len(s)]
  BY <1>2, <1>3, ConcatProperties
<1>5. DOMAIN t = 1 .. Len(t)
  BY <1>4, LenProperties
<1> DEFINE new == Longer(box, n, ms)
<1>6. new = [box EXCEPT ![n] = t]
  BY DEF Typed, Longer
<1> HIDE DEF t, new
<1>7. new[n] = t /\ Typed(new) /\ \A k \in All : k # n => new[k] = box[k]
  BY <1>4, <1>6 DEF Typed
<1>8. ASSUME NEW i \in DOMAIN t
      PROVE  \/ i \in DOMAIN s /\ t[i] = s[i]
             \/ t[i] = Event
             \/ i = Len(t) /\ t[i] = a
  <2>0. ASSUME NEW p \in Nat, NEW q \in {1, 2}, NEW j \in 1 .. (p + q), ~ (j <= p)
        PROVE  /\ j = p + q => j - p = q
               /\ j # p + q => q = 2 /\ j - p = 1
    BY <2>0
  <2>1. i \in 1 .. (Len(s) + Len(ms)) /\ t[i] = IF i <= Len(s) THEN s[i] ELSE ms[i - Len(s)]
    BY <1>4, <1>5
  <2>2. CASE i <= Len(s)
    BY <1>3, <2>1, <2>2
  <2>3. CASE ~ (i <= Len(s)) /\ i = Len(t)
    <3>1. i - Len(s) = Len(ms)
      BY <1>2, <1>3, <1>4, <2>0, <2>1, <2>3
    <3>2. QED
      BY <1>2, <2>1, <2>3, <3>1
  <2>4. CASE ~ (i <= Len(s)) /\ i # Len(t)
    <3>1. Len(ms) = 2 /\ i - Len(s) = 1
      BY <1>2, <1>3, <1>4, <2>0, <2>1, <2>4
    <3>2. QED
      BY <1>2, <2>1, <2>4, <3>1
  <2>5. QED
    BY <2>2, <2>3, <2>4
<1>9. QED
  BY <1>7, <1>8 DEF new

\* What is sent after a request.
LEMMA Outcomes ==
      ASSUME NEW m, NEW error
      PROVE  LET a == Exchanged(m, "RESP_ERROR", error)
             IN  Outcome(m, error) = <<a>> \/ Outcome(m, error) = <<Event>> \o <<a>>
<1> DEFINE a == Exchanged(m, "RESP_ERROR", error)
<1> HIDE DEF a
<1>1. <<>> \o <<a>> = <<a>>
  OBVIOUS
<1>2. CASE error = Success
  BY <1>2 DEF Outcome, Event, a
<1>3. CASE error # Success
  BY <1>1, <1>3 DEF Outcome, a
<1>4. QED
  BY <1>2, <1>3 DEF a

\* An adapter takes a request and answers it; the node keeps its place.
LEMMA AdapterAnswers ==
      ASSUME IInv, up, NEW n \in All, toNode[n] # <<>>,
             toNode' = [toNode EXCEPT ![n] = Tail(@)],
             NEW a \in Messages, IsForManager(a),
             \A r : Carries(a, r) => Carries(Head(toNode[n]), r),
             NEW ms, ms = <<a>> \/ ms = <<Event>> \o <<a>>,
             Answer(n, ms), DOMAIN nodes' = DOMAIN nodes, UNCHANGED <<bound, asked>>
      PROVE  QueuesOK' /\ GrantedOnce' /\ OnlyRequestsAbort' /\ UNCHANGED <<up, answers>>
<1>1. QueuesOK /\ TypeOK /\ GrantedOnce
  BY TypeOfQueues DEF IInv
<1>2. Head(toNode[n]) = toNode[n][1] /\ n \in DOMAIN nodes
  BY <1>1, HeadForNode
<1>3. Typed(toNode) /\ Typed(toManager)
  BY <1>1 DEF QueuesOK
<1>4. /\ Typed(toNode')
      /\ \A k \in All : k # n => toNode'[k] = toNode[k]
      /\ \A i \in DOMAIN toNode'[n] :
            i \in Nat /\ i + 1 \in DOMAIN toNode[n] /\ toNode'[n][i] = toNode[n][i + 1]
  <2> DEFINE new == Rest(toNode, n)
  <2>1. /\ Typed(new)
        /\ \A k \in All : k # n => new[k] = toNode[k]
        /\ \A i \in DOMAIN new[n] :
              i \in Nat /\ i + 1 \in DOMAIN toNode[n] /\ new[n][i] = toNode[n][i + 1]
    BY <1>3, TakenFrom
  <2>2. toNode' = new
    BY DEF Rest
  <2> HIDE DEF new
  <2>3. QED
    BY <2>1, <2>2
<1>5. /\ Typed(toManager')
      /\ \A k \in All : k # n => toManager'[k] = toManager[k]
      /\ \A i \in DOMAIN toManager'[n] :
            \/ i \in DOMAIN toManager[n] /\ toManager'[n][i] = toManager[n][i]
            \/ toManager'[n][i] = Event
            \/ i = Len(toManager'[n]) /\ toManager'[n][i] = a
  <2> DEFINE new == Longer(toManager, n, ms)
  <2>1. /\ Typed(new)
        /\ \A k \in All : k # n => new[k] = toManager[k]
        /\ \A i \in DOMAIN new[n] :
              \/ i \in DOMAIN toManager[n] /\ new[n][i] = toManager[n][i]
              \/ new[n][i] = Event
              \/ i = Len(new[n]) /\ new[n][i] = a
    BY <1>3, Sent
  <2>2. toManager' = new
    BY DEF Answer, Longer
  <2> HIDE DEF new
  <2>3. QED
    BY <2>1, <2>2
<1>6. AdapterTakes(n)
  <2>1. SUFFICES ASSUME NEW k \in All, NEW i \in DOMAIN toNode'[k]
                 PROVE  LET j == IF k = n THEN i + 1 ELSE i
                        IN  j \in DOMAIN toNode[k] /\ toNode'[k][i] = toNode[k][j]
    BY DEF AdapterTakes
  <2>2. CASE k = n
    BY <1>4, <2>2
  <2>3. CASE k # n
    BY <1>4, <2>3
  <2>4. QED
    BY <2>2, <2>3
<1>7. ManagerGets(n)
  <2>1. \A r \in Requests : Carries(a, r) => Carries(toNode[n][1], r)
    BY <1>2
  <2>2. Event.type = "NODE_CTL_EVENT"
    BY DEF Event
  <2>3. QED
    BY <1>5, <2>1, <2>2 DEF ManagerGets
<1>8. UNCHANGED <<up, asked, answers>>
  BY DEF Answer
<1>9. MessagesMatch' /\ OnePlace'
  BY <1>1, <1>3, <1>4, <1>5, <1>6, <1>7, <1>8, AdapterMoves DEF QueuesOK
<1>10. QueuesOK'
  BY <1>1, <1>2, <1>4, <1>5, <1>9 DEF QueuesOK
<1>11. GrantedOnce'
  <2>1. \A k \in All : \A j \in DOMAIN toNode'[k] :
           \E i \in DOMAIN toNode[k] : toNode'[k][j] = toNode[k][i]
    BY <1>6 DEF AdapterTakes
  <2>2. QED
    BY <1>1, <1>8, <2>1, NothingGranted
<1>12. QED
  BY <1>8, <1>10, <1>11 DEF OnlyRequestsAbort

\* A request for a node, at the head of the queue.
LEMMA RequestForNode ==
      ASSUME IInv, NEW n \in All, toNode[n] # <<>>,
             NEW m, m = Head(toNode[n]), m.type \in Forwarded
      PROVE  /\ m \in Messages /\ m.type \in Types /\ n \in DOMAIN nodes
             /\ m.q \in Questions /\ m.type = m.q.type /\ m.type = asked[m.id].type
             /\ asked[m.id] # None
<1>1. m \in Messages /\ IsForNode(m) /\ n \in DOMAIN nodes
  BY TypeOfQueues, HeadForNode DEF IInv
<1>2. m.type \in Types /\ m.type \notin Heard
  BY DEF Types, Forwarded, Heard
<1>3. QED
  BY <1>1, <1>2, MessageShape DEF IsForNode, IsQuestion, Stray, Forwarded

\* What an adapter answers is for the manager.
LEMMA ForManager ==
      ASSUME NEW m \in Messages, m.type \in Forwarded, m.type \in Types,
             m.type = asked[m.id].type, asked[m.id] # None,
             NEW type \in {"RESP_ERROR", "RESP_GET_NODE_SETTING"},
             type = "RESP_GET_NODE_SETTING" => m.type = "GET_NODE_SETTING",
             NEW result \in Results \cup Settings
      PROVE  LET a == Exchanged(m, type, result)
             IN  /\ a \in Messages /\ IsForManager(a)
                 /\ \A r : Carries(a, r) => Carries(m, r)
<1> DEFINE a == Exchanged(m, type, result)
<1>1. /\ a \in Messages /\ a.type = type /\ a.id = m.id
      /\ \A r : Carries(a, r) => Carries(m, r)
  BY Answers DEF Heard
<1> HIDE DEF a
<1>2. IsForManager(a)
  BY <1>1 DEF IsForManager, Fits
<1>3. QED
  BY <1>1, <1>2 DEF a

\* What nodes are.
NodeStates == [state : {"INIT", "READY", "RUNNING", "STOPPED"},
               setting : Settings \cup {None}]

NodesOK ==
    /\ nodes \in [DOMAIN nodes -> NodeStates] /\ started \subseteq DOMAIN nodes
    /\ LifecycleAgrees

\* The plugin of one node is started, stopped or given a setting.
LEMMA OneNode ==
      ASSUME IInv, NEW n \in DOMAIN nodes, NEW new \in NodeStates,
             nodes' = [nodes EXCEPT ![n] = new],
             started' = IF new.state = "RUNNING" THEN started \cup {n}
                        ELSE started \ {n},
             new.state # "INIT" => new.setting \in Settings \ Refused
      PROVE  NodesOK' /\ DOMAIN nodes' = DOMAIN nodes
<1>1. NodesOK
  BY DEF IInv, TypeOK, NodesOK, NodeStates
<1>2. /\ nodes' \in [DOMAIN nodes -> NodeStates] /\ DOMAIN nodes' = DOMAIN nodes
      /\ nodes'[n] = new /\ \A k \in DOMAIN nodes : k # n => nodes'[k] = nodes[k]
  BY <1>1 DEF NodesOK
<1>3. started' \subseteq DOMAIN nodes'
  BY <1>1, <1>2 DEF NodesOK
<1>4. n \in started' <=> new.state = "RUNNING"
  OBVIOUS
<1>5. \A k \in DOMAIN nodes : k # n => (k \in started' <=> k \in started)
  OBVIOUS
<1>6. LifecycleAgrees'
  BY <1>1, <1>2, <1>4, <1>5 DEF NodesOK, LifecycleAgrees
<1>7. QED
  BY <1>2, <1>3, <1>6 DEF NodesOK

\* A step of an adapter, put together.
LEMMA AdapterDone ==
      ASSUME IInv, QueuesOK', GrantedOnce', OnlyRequestsAbort', NodesOK',
             DOMAIN nodes' = DOMAIN nodes, up' \in BOOLEAN, UNCHANGED <<bound, asked>>,
             answers' \in [Requests -> Seq(Messages)]
      PROVE  IInv'
<1>1. TypeOK'
  BY DEF IInv, TypeOK, QueuesOK, Typed, NodesOK, NodeStates
<1>2. QED
  BY <1>1 DEF IInv, QueuesOK, NodesOK

\* An adapter answers a request, and changes its node or not.
LEMMA AnswerKeepsIInv ==
      ASSUME IInv, up, NEW n \in All, toNode[n] # <<>>,
             toNode' = [toNode EXCEPT ![n] = Tail(@)], UNCHANGED <<bound, asked>>,
             NEW m, m = Head(toNode[n]), m.type \in Forwarded,
             NEW type \in {"RESP_ERROR", "RESP_GET_NODE_SETTING"},
             type = "RESP_GET_NODE_SETTING" => m.type = "GET_NODE_SETTING",
             NEW result \in Results \cup Settings,
             NEW ms, \/ ms = <<Exchanged(m, type, result)>>
                     \/ ms = <<Event>> \o <<Exchanged(m, type, result)>>,
             Answer(n, ms), NodesOK', DOMAIN nodes' = DOMAIN nodes
      PROVE  IInv'
<1> DEFINE a == Exchanged(m, type, result)
<1>1. a \in Messages /\ IsForManager(a) /\ \A r : Carries(a, r) => Carries(m, r)
  BY RequestForNode, ForManager
<1>2. ms = <<a>> \/ ms = <<Event>> \o <<a>>
  OBVIOUS
<1> HIDE DEF a
<1>3. QueuesOK' /\ GrantedOnce' /\ OnlyRequestsAbort' /\ UNCHANGED <<up, answers>>
  BY <1>1, <1>2, AdapterAnswers
<1>4. answers' \in [Requests -> Seq(Messages)]
  BY <1>3 DEF IInv, TypeOK
<1>5. up' \in BOOLEAN
  BY <1>3 DEF IInv, TypeOK
<1>6. QED
  BY <1>3, <1>4, <1>5, AdapterDone

\* Nothing changed in the nodes.
LEMMA SameNodes ==
      ASSUME IInv, UNCHANGED <<nodes, started>>
      PROVE  NodesOK' /\ DOMAIN nodes' = DOMAIN nodes
BY DEF IInv, TypeOK, NodesOK, NodeStates, LifecycleAgrees

\* What the state of a node allows.
LEMMA StateErrors ==
      ASSUME NEW state
      PROVE  /\ StartError(state) \in Results /\ StopError(state) \in Results
             /\ StartError(state) = Success => state # "INIT"
             /\ StopError(state) = Success => state # "INIT"
<1>1. CASE state = "INIT"
  BY <1>1 DEF StartError, StopError, Results, Success
<1>2. CASE state = "RUNNING"
  BY <1>2 DEF StartError, StopError, Results, Success
<1>3. CASE state = "STOPPED"
  BY <1>3 DEF StartError, StopError, Results, Success
<1>4. CASE state \notin {"INIT", "RUNNING", "STOPPED"}
  BY <1>4 DEF StartError, StopError, Results, Success
<1>5. QED
  BY <1>1, <1>2, <1>3, <1>4

\* A node as it is.
LEMMA NodeShape ==
      ASSUME IInv, NEW n \in DOMAIN nodes
      PROVE  /\ nodes[n] \in NodeStates
             /\ nodes[n].state = "RUNNING" <=> n \in started
             /\ nodes[n].state # "INIT" => nodes[n].setting \in Settings \ Refused
BY DEF IInv, TypeOK, LifecycleAgrees, NodeStates

\* A node is started.
LEMMA StartNodeKeepsIInv ==
      ASSUME IInv, up, NEW n \in All, toNode[n] # <<>>,
             toNode' = [toNode EXCEPT ![n] = Tail(@)], UNCHANGED <<bound, asked>>,
             NEW m, m = Head(toNode[n]), StartNode(n, m)
      PROVE  IInv'
<1>1. m.type = "NODE_CTL" /\ m.type \in Forwarded
  BY DEF StartNode, Forwarded
<1>2. n \in DOMAIN nodes
  BY <1>1, RequestForNode
<1>3. CASE /\ StartError(nodes[n].state) = Success
           /\ nodes' = [nodes EXCEPT ![n].state = "RUNNING"]
           /\ started' = started \cup {n}
           /\ Answer(n, Outcome(m, Success))
  <2> DEFINE new == [nodes[n] EXCEPT !.state = "RUNNING"]
  <2>1. /\ new \in NodeStates /\ new.state = "RUNNING"
        /\ new.setting \in Settings \ Refused
    BY <1>2, <1>3, NodeShape, StateErrors DEF NodeStates
  <2>2. nodes' = [nodes EXCEPT ![n] = new]
    BY <1>3
  <2> HIDE DEF new
  <2>3. NodesOK' /\ DOMAIN nodes' = DOMAIN nodes
    BY <1>2, <1>3, <2>1, <2>2, OneNode
  <2>4. QED
    BY <1>1, <1>3, <2>3, Outcomes, AnswerKeepsIInv DEF Results
<1>4. CASE /\ Answer(n, Outcome(m, IF StartError(nodes[n].state) = Success THEN "PLUGIN"
                                  ELSE StartError(nodes[n].state)))
           /\ UNCHANGED <<nodes, started>>
  <2> DEFINE e == IF StartError(nodes[n].state) = Success THEN "PLUGIN"
                  ELSE StartError(nodes[n].state)
  <2>1. e \in Results
    BY StateErrors DEF Results
  <2>2. Answer(n, Outcome(m, e))
    BY <1>4
  <2> HIDE DEF e
  <2>3. QED
    BY <1>1, <1>4, <2>1, <2>2, SameNodes, Outcomes, AnswerKeepsIInv
<1>5. QED
  BY <1>3, <1>4 DEF StartNode

\* A node is stopped.
LEMMA StopNodeKeepsIInv ==
      ASSUME IInv, up, NEW n \in All, toNode[n] # <<>>,
             toNode' = [toNode EXCEPT ![n] = Tail(@)], UNCHANGED <<bound, asked>>,
             NEW m, m = Head(toNode[n]), StopNode(n, m)
      PROVE  IInv'
<1>1. m.type = "NODE_CTL" /\ m.type \in Forwarded
  BY DEF StopNode, Forwarded
<1>2. n \in DOMAIN nodes
  BY <1>1, RequestForNode
<1>3. CASE /\ StopError(nodes[n].state) = Success
           /\ nodes' = [nodes EXCEPT ![n].state = "STOPPED"]
           /\ started' = started \ {n}
           /\ Answer(n, Outcome(m, Success))
  <2> DEFINE new == [nodes[n] EXCEPT !.state = "STOPPED"]
  <2>1. /\ new \in NodeStates /\ new.state = "STOPPED"
        /\ new.setting \in Settings \ Refused
    BY <1>2, <1>3, NodeShape, StateErrors DEF NodeStates
  <2>2. nodes' = [nodes EXCEPT ![n] = new]
    BY <1>3
  <2> HIDE DEF new
  <2>3. NodesOK' /\ DOMAIN nodes' = DOMAIN nodes
    BY <1>2, <1>3, <2>1, <2>2, OneNode
  <2>4. QED
    BY <1>1, <1>3, <2>3, Outcomes, AnswerKeepsIInv DEF Results
<1>4. CASE /\ Answer(n, Outcome(m, IF StopError(nodes[n].state) = Success THEN "PLUGIN"
                                  ELSE StopError(nodes[n].state)))
           /\ UNCHANGED <<nodes, started>>
  <2> DEFINE e == IF StopError(nodes[n].state) = Success THEN "PLUGIN"
                  ELSE StopError(nodes[n].state)
  <2>1. e \in Results
    BY StateErrors DEF Results
  <2>2. Answer(n, Outcome(m, e))
    BY <1>4
  <2> HIDE DEF e
  <2>3. QED
    BY <1>1, <1>4, <2>1, <2>2, SameNodes, Outcomes, AnswerKeepsIInv
<1>5. QED
  BY <1>3, <1>4 DEF StopNode

\* A setting is accepted.
LEMMA SetKeepsIInv ==
      ASSUME IInv, up, NEW n \in All, toNode[n] # <<>>,
             toNode' = [toNode EXCEPT ![n] = Tail(@)], UNCHANGED <<bound, asked>>,
             NEW m, m = Head(toNode[n]), Set(n, m)
      PROVE  IInv'
<1>1. m.type = "NODE_SETTING" /\ m.type \in Forwarded
  BY DEF Set, Forwarded
<1>2. n \in DOMAIN nodes /\ m.q.setting \in Settings \ Refused
  <2>1. n \in DOMAIN nodes /\ m.q \in Questions /\ m.q.type = "NODE_SETTING"
    BY <1>1, RequestForNode
  <2>2. QED
    BY <2>1, QuestionShape DEF Set
<1>3. nodes[n] \in NodeStates /\ (nodes[n].state = "RUNNING" <=> n \in started)
  BY <1>2, NodeShape
<1>4. PICK s \in IF nodes[n].state = "INIT" THEN {"READY", "RUNNING"}
                 ELSE {nodes[n].state} :
          /\ nodes' = [nodes EXCEPT ![n] = [state |-> s, setting |-> m.q.setting]]
          /\ started' = IF s = "RUNNING" THEN started \cup {n} ELSE started
  BY DEF Set
<1> DEFINE new == [state |-> s, setting |-> m.q.setting]
<1>5. /\ new \in NodeStates /\ new.setting \in Settings \ Refused
      /\ started' = IF new.state = "RUNNING" THEN started \cup {n} ELSE started \ {n}
  <2>1. s \in {"READY", "RUNNING", "STOPPED"}
    BY <1>3, <1>4 DEF NodeStates
  <2>2. s # "RUNNING" => n \notin started
    BY <1>3, <1>4
  <2>3. QED
    BY <1>2, <1>4, <2>1, <2>2 DEF NodeStates
<1> HIDE DEF new
<1>6. NodesOK' /\ DOMAIN nodes' = DOMAIN nodes
  BY <1>2, <1>4, <1>5, OneNode DEF new
<1>7. QED
  BY <1>1, <1>6, AnswerKeepsIInv DEF Set, Results

\* A setting is refused.
LEMMA SetFailsKeepsIInv ==
      ASSUME IInv, up, NEW n \in All, toNode[n] # <<>>,
             toNode' = [toNode EXCEPT ![n] = Tail(@)], UNCHANGED <<bound, asked>>,
             NEW m, m = Head(toNode[n]), SetFails(n, m)
      PROVE  IInv'
<1>1. m.type \in Forwarded /\ "NODE_SETTING_INVALID" \in Results
  BY DEF SetFails, Forwarded, Results
<1>2. QED
  BY <1>1, SameNodes, AnswerKeepsIInv DEF SetFails

\* A setting is read.
LEMMA GetSettingKeepsIInv ==
      ASSUME IInv, up, NEW n \in All, toNode[n] # <<>>,
             toNode' = [toNode EXCEPT ![n] = Tail(@)], UNCHANGED <<bound, asked>>,
             NEW m, m = Head(toNode[n]), GetSetting(n, m)
      PROVE  IInv'
<1>1. m.type = "GET_NODE_SETTING" /\ m.type \in Forwarded
  BY DEF GetSetting, Forwarded
<1>2. n \in DOMAIN nodes
  BY <1>1, RequestForNode
<1>3. NodesOK' /\ DOMAIN nodes' = DOMAIN nodes
  BY SameNodes DEF GetSetting
<1>4. CASE nodes[n].setting = None
  <2>1. Answer(n, <<Exchanged(m, "RESP_ERROR", "NODE_SETTING_NOT_FOUND")>>)
    BY <1>4 DEF GetSetting
  <2>2. QED
    BY <1>1, <1>3, <2>1, AnswerKeepsIInv DEF Results
<1>5. CASE nodes[n].setting # None
  <2>1. Answer(n, <<Exchanged(m, "RESP_GET_NODE_SETTING", nodes[n].setting)>>)
    BY <1>5 DEF GetSetting
  <2>2. nodes[n].setting \in Settings
    BY <1>2, <1>5, NodeShape DEF NodeStates
  <2>3. QED
    BY <1>1, <1>3, <2>1, <2>2, AnswerKeepsIInv
<1>6. QED
  BY <1>4, <1>5

\* The place of the answer that is taken is where its request was; there is
\* no other.
LEMMA HearKeepsPlaces ==
      ASSUME Typed(toNode), Typed(toNode'), OnePlace, NEW n \in All, AdapterTakes(n),
             1 \in DOMAIN toNode[n], NEW m, m = toNode[n][1],
             answers \in [Requests -> Seq(Messages)],
             \/ answers' = answers
             \/ /\ m.type \in Heard /\ m.id \in Requests
                /\ answers' = [answers EXCEPT ![m.id] = Append(@, m)],
             UNCHANGED toManager
      PROVE  /\ OnePlace'
             /\ \/ answers' = answers
                \/ /\ m.type \in Heard /\ m.id \in Requests
                   /\ answers' = [answers EXCEPT ![m.id] = <<m>>]
<1>1. ASSUME m.type \in Heard
      PROVE  1 \in Down(n, m.id)
  BY <1>1 DEF Down, Carries, Heard
<1>2. ASSUME m.type \in Heard, m.id \in Requests
      PROVE  answers[m.id] = <<>>
  BY <1>1, <1>2 DEF OnePlace
<1>3. \/ answers' = answers
      \/ /\ m.type \in Heard /\ m.id \in Requests
         /\ answers' = [answers EXCEPT ![m.id] = <<m>>]
  BY <1>2
<1>4. ASSUME NEW r \in Requests
      PROVE
        /\ \A k, l \in All : \A i \in Up(k, r)', j \in Up(l, r)' : k = l /\ i = j
        /\ \A k, l \in All : \A i \in Down(k, r)', j \in Down(l, r)' : k = l /\ i = j
        /\ \A k, l \in All : Up(k, r)' = {} \/ Down(l, r)' = {}
        /\ Len(answers'[r]) <= 1
        /\ answers'[r] # <<>> => \A k \in All : Up(k, r)' = {} /\ Down(k, r)' = {}
  <2>1. \A k \in All : Up(k, r)' = Up(k, r)
    BY DEF Up
  <2>2. ASSUME NEW k \in All, NEW i \in Down(k, r)'
        PROVE  i \in Nat /\ i > 0 /\ (IF k = n THEN i + 1 ELSE i) \in Down(k, r)
    <3>1. i \in DOMAIN toNode'[k] /\ Carries(toNode'[k][i], r)
      BY DEF Down
    <3>2. i \in Nat /\ i > 0
      BY <3>1, InQueue
    <3>3. QED
      BY <3>1, <3>2 DEF Down, AdapterTakes
  <2>3. /\ \A k, l \in All : \A i \in Up(k, r), j \in Up(l, r) : k = l /\ i = j
        /\ \A k, l \in All : \A i \in Down(k, r), j \in Down(l, r) : k = l /\ i = j
        /\ \A k, l \in All : Up(k, r) = {} \/ Down(l, r) = {}
        /\ Len(answers[r]) <= 1
        /\ answers[r] # <<>> => \A k \in All : Up(k, r) = {} /\ Down(k, r) = {}
    BY DEF OnePlace
  <2>4. \A k, l \in All : \A i \in Down(k, r)', j \in Down(l, r)' : k = l /\ i = j
    <3>1. SUFFICES ASSUME NEW k \in All, NEW l \in All,
                          NEW i \in Down(k, r)', NEW j \in Down(l, r)'
                   PROVE  k = l /\ i = j
      OBVIOUS
    <3>2. /\ i \in Nat /\ j \in Nat
          /\ (IF k = n THEN i + 1 ELSE i) \in Down(k, r)
          /\ (IF l = n THEN j + 1 ELSE j) \in Down(l, r)
      BY <2>2
    <3>3. k = l /\ (IF k = n THEN i + 1 ELSE i) = (IF l = n THEN j + 1 ELSE j)
      BY <2>3, <3>2
    <3>4. QED
      BY <3>2, <3>3
  <2>5. \A k \in All : Down(k, r) = {} => Down(k, r)' = {}
    BY <2>2
  <2>6. \A k, l \in All : Up(k, r)' = {} \/ Down(l, r)' = {}
    BY <2>1, <2>3, <2>5
  <2>7. CASE answers'[r] = answers[r]
    BY <2>1, <2>3, <2>4, <2>5, <2>6, <2>7
  <2>8. CASE m.type \in Heard /\ r = m.id /\ answers'[r] = <<m>>
    <3>1. Len(answers'[r]) <= 1
      BY <2>8
    <3>2. \A k \in All : Up(k, r)' = {}
      BY <1>1, <2>1, <2>3, <2>8
    <3>3. ASSUME NEW k \in All, NEW i \in Down(k, r)'
          PROVE  FALSE
      <4>1. i \in Nat /\ i > 0 /\ (IF k = n THEN i + 1 ELSE i) \in Down(k, r)
        BY <2>2, <3>3
      <4>2. k = n /\ (IF k = n THEN i + 1 ELSE i) = 1
        BY <1>1, <2>3, <2>8, <4>1
      <4>3. QED
        BY <4>1, <4>2
    <3>4. \A k \in All : Down(k, r)' = {}
      BY <3>3
    <3>5. QED
      BY <2>4, <3>1, <3>2, <3>4
  <2>9. QED
    BY <1>3, <2>7, <2>8
<1>5. OnePlace'
  BY <1>4 DEF OnePlace
<1>6. QED
  BY <1>3, <1>5

\* A response, or an event, is passed to the plugin, which goes on.
LEMMA HearKeepsIInv ==
      ASSUME IInv, up, NEW n \in All, toNode[n] # <<>>, up',
             toNode' = [toNode EXCEPT ![n] = Tail(@)], UNCHANGED <<bound, asked>>,
             NEW m, m = Head(toNode[n]), Hear(n, m)
      PROVE  IInv'
<1>1. QueuesOK /\ TypeOK /\ GrantedOnce
  BY TypeOfQueues DEF IInv
<1>2. m \in Messages /\ IsForNode(m) /\ n \in DOMAIN nodes /\ m = toNode[n][1]
  BY <1>1, HeadForNode
<1>3. ASSUME m.type \in Heard
      PROVE  Fits(m) /\ m.id \in Requests
  BY <1>2, <1>3, MessageShape DEF IsForNode, Stray, Heard, Forwarded
<1>4. /\ up' = TRUE /\ UNCHANGED <<nodes, started, toManager>>
      /\ \/ answers' = answers
         \/ /\ m.type \in Heard /\ m.id \in Requests
            /\ answers' = [answers EXCEPT ![m.id] = Append(@, m)]
  BY <1>3 DEF Hear
<1>5. Typed(toNode) /\ Typed(toManager) /\ answers \in [Requests -> Seq(Messages)]
  BY <1>1 DEF QueuesOK, TypeOK
<1>6. /\ Typed(toNode') /\ 1 \in DOMAIN toNode[n]
      /\ \A k \in All : k # n => toNode'[k] = toNode[k]
      /\ \A i \in DOMAIN toNode'[n] :
            i \in Nat /\ i + 1 \in DOMAIN toNode[n] /\ toNode'[n][i] = toNode[n][i + 1]
  <2> DEFINE new == Rest(toNode, n)
  <2>1. /\ Typed(new) /\ 1 \in DOMAIN toNode[n]
        /\ \A k \in All : k # n => new[k] = toNode[k]
        /\ \A i \in DOMAIN new[n] :
              i \in Nat /\ i + 1 \in DOMAIN toNode[n] /\ new[n][i] = toNode[n][i + 1]
    BY <1>5, TakenFrom
  <2>2. toNode' = new
    BY DEF Rest
  <2> HIDE DEF new
  <2>3. QED
    BY <2>1, <2>2
<1>7. AdapterTakes(n)
  <2>1. SUFFICES ASSUME NEW k \in All, NEW i \in DOMAIN toNode'[k]
                 PROVE  LET j == IF k = n THEN i + 1 ELSE i
                        IN  j \in DOMAIN toNode[k] /\ toNode'[k][i] = toNode[k][j]
    BY DEF AdapterTakes
  <2>2. CASE k = n
    BY <1>6, <2>2
  <2>3. CASE k # n
    BY <1>6, <2>3
  <2>4. QED
    BY <2>2, <2>3
<1>8. /\ OnePlace'
      /\ \/ answers' = answers
         \/ /\ m.type \in Heard /\ m.id \in Requests
            /\ answers' = [answers EXCEPT ![m.id] = <<m>>]
  BY <1>1, <1>2, <1>4, <1>5, <1>6, <1>7, HearKeepsPlaces DEF QueuesOK
<1>9. /\ answers' \in [Requests -> Seq(Messages)]
      /\ \A r \in Requests :
            \/ answers'[r] = answers[r]
            \/ m.type \in Heard /\ r = m.id /\ answers'[r] = <<m>>
  <2> DEFINE one == <<m>>
  <2>1. one \in Seq(Messages)
    BY <1>2
  <2>2. \/ answers' = answers
        \/ /\ m.type \in Heard /\ m.id \in Requests
           /\ answers' = [answers EXCEPT ![m.id] = one]
    BY <1>8
  <2> HIDE DEF one
  <2>3. /\ answers' \in [Requests -> Seq(Messages)]
        /\ \A r \in Requests :
              \/ answers'[r] = answers[r]
              \/ m.type \in Heard /\ r = m.id /\ answers'[r] = one
    BY <1>5, <2>1, <2>2
  <2>4. QED
    BY <2>3 DEF one
<1>10. \A r \in Requests : \A i \in DOMAIN answers'[r] :
          \/ i \in DOMAIN answers[r] /\ answers'[r][i] = answers[r][i]
          \/ m.type \in Heard /\ r = m.id /\ answers'[r][i] = m
  <2>1. \A i \in DOMAIN <<m>> : <<m>>[i] = m
    OBVIOUS
  <2>2. QED
    BY <1>9, <2>1
<1>11. MessagesMatch'
  <2>1. \A k \in All : \A i \in DOMAIN toManager'[k] : IsForManager(toManager'[k][i])
    BY <1>1, <1>4 DEF QueuesOK, MessagesMatch
  <2>2. \A k \in All : \A i \in DOMAIN toNode'[k] : IsForNode(toNode'[k][i])
    BY <1>1, <1>7 DEF QueuesOK, MessagesMatch, AdapterTakes
  <2>3. \A r \in Requests : \A i \in DOMAIN answers'[r] :
           /\ answers'[r][i].type \in Heard /\ Fits(answers'[r][i])
           /\ answers'[r][i].id = r
    BY <1>1, <1>3, <1>10 DEF QueuesOK, MessagesMatch
  <2>4. \A k \in All : \A i \in DOMAIN toManager'[k] : IsForManager(toManager[k][i])'
    BY <1>1, <2>1 DEF IsForManager, IsQuestion, Fits
  <2>5. \A k \in All : \A i \in DOMAIN toNode'[k] : IsForNode(toNode[k][i])'
    BY <1>4, <2>2, StillForNode
  <2>6. \A r \in Requests : \A i \in DOMAIN answers'[r] : Fits(answers[r][i])'
    BY <1>1, <2>3 DEF Fits
  <2>7. QED
    BY <2>3, <2>4, <2>5, <2>6 DEF MessagesMatch
<1>12. QueuesOK'
  BY <1>1, <1>2, <1>4, <1>6, <1>5, <1>8, <1>11 DEF QueuesOK
<1>13. GrantedOnce'
  <2>1. ASSUME NEW r \in Requests, Granted(r)'
        PROVE  Granted(r)
    <3>1. asked[r] # None /\ asked[r].type = "ADD_NODE"
      BY <2>1 DEF Granted
    <3>2. ASSUME NEW k \in All, NEW i \in Down(k, r), toNode[k][i].result = Success
          PROVE  Granted(r)
      BY <3>1, <3>2 DEF Granted
    <3>3. ASSUME NEW i \in DOMAIN answers'[r], answers'[r][i].result = Success
          PROVE  Granted(r)
      <4>1. CASE i \in DOMAIN answers[r] /\ answers'[r][i] = answers[r][i]
        BY <3>1, <3>3, <4>1 DEF Granted
      <4>2. CASE m.type \in Heard /\ r = m.id /\ answers'[r][i] = m
        <5>1. 1 \in Down(n, r) /\ toNode[n][1].result = Success
          BY <1>2, <1>6, <3>3, <4>2 DEF Down, Carries, Heard
        <5>2. QED
          BY <3>2, <5>1
      <4>3. QED
        BY <1>10, <4>1, <4>2
    <3>4. ASSUME NEW k \in All, NEW j \in Down(k, r)', toNode'[k][j].result = Success
          PROVE  Granted(r)
      <4>1. j \in DOMAIN toNode'[k] /\ Carries(toNode'[k][j], r)
        BY DEF Down
      <4>2. PICK i \in DOMAIN toNode[k] : toNode'[k][j] = toNode[k][i]
        BY <1>7, <4>1 DEF AdapterTakes
      <4>3. i \in Down(k, r) /\ toNode[k][i].result = Success
        BY <3>4, <4>1, <4>2 DEF Down
      <4>4. QED
        BY <3>2, <4>3
    <3>5. QED
      BY <2>1, <3>3, <3>4 DEF Granted
  <2>2. QED
    BY <1>1, <1>4, <2>1 DEF GrantedOnce
<1>14. NodesOK' /\ DOMAIN nodes' = DOMAIN nodes
  BY <1>4, SameNodes
<1>15. OnlyRequestsAbort'
  BY <1>4 DEF OnlyRequestsAbort
<1>16. QED
  BY <1>4, <1>9, <1>12, <1>13, <1>14, <1>15, AdapterDone

\* An event that strayed to the REST plugin ends the process.
LEMMA StrayKeepsIInv ==
      ASSUME IInv, up, NEW n \in All, toNode[n] # <<>>, ~up',
             NEW m, m = Head(toNode[n]), Hear(n, m),
             UNCHANGED <<bound, asked, toNode>>
      PROVE  IInv'
<1>1. /\ n = "rest" /\ m.type \notin Heard /\ m.type \notin Forwarded /\ up' = FALSE
      /\ UNCHANGED <<nodes, started, toManager, answers>>
  BY DEF Hear
<1>2. Stray(m)
  BY <1>1, TypeOfQueues, HeadForNode DEF IInv, IsForNode
<1>3. OnlyRequestsAbort'
  BY <1>1, <1>2 DEF OnlyRequestsAbort, Stray
<1>4. TypeOK'
  BY <1>1 DEF IInv, TypeOK
<1>5. LifecycleAgrees'
  BY <1>1 DEF IInv, LifecycleAgrees
<1>6. MessagesMatch'
  BY <1>1, MessagesStillMatch DEF IInv
<1>7. OnePlace'
  BY <1>1 DEF IInv, OnePlace, Up, Down
<1>8. GrantedOnce'
  BY <1>1 DEF IInv, GrantedOnce, Granted, Down
<1>9. QED
  BY <1>3, <1>4, <1>5, <1>6, <1>7, <1>8 DEF IInv

\* The loop of an adapter.
LEMMA AdapterLoopKeepsIInv ==
      ASSUME IInv, NEW n \in All, AdapterLoop(n)
      PROVE  IInv'
<1> DEFINE m == Head(toNode[n])
<1>1. /\ up /\ toNode[n] # <<>> /\ UNCHANGED <<bound, asked>>
      /\ toNode' = IF up' THEN [toNode EXCEPT ![n] = Tail(@)] ELSE toNode
      /\ \/ StartNode(n, m) \/ StopNode(n, m) \/ Set(n, m) \/ SetFails(n, m)
         \/ GetSetting(n, m) \/ Hear(n, m)
  BY DEF AdapterLoop
<1> HIDE DEF m
<1>2. CASE StartNode(n, m)
  <2>1. up'
    BY <1>1, <1>2 DEF StartNode, Answer
  <2>2. QED
    BY <1>1, <1>2, <2>1, StartNodeKeepsIInv DEF m
<1>3. CASE StopNode(n, m)
  <2>1. up'
    BY <1>1, <1>3 DEF StopNode, Answer
  <2>2. QED
    BY <1>1, <1>3, <2>1, StopNodeKeepsIInv DEF m
<1>4. CASE Set(n, m)
  <2>1. up'
    BY <1>1, <1>4 DEF Set, Answer
  <2>2. QED
    BY <1>1, <1>4, <2>1, SetKeepsIInv DEF m
<1>5. CASE SetFails(n, m)
  <2>1. up'
    BY <1>1, <1>5 DEF SetFails, Answer
  <2>2. QED
    BY <1>1, <1>5, <2>1, SetFailsKeepsIInv DEF m
<1>6. CASE GetSetting(n, m)
  <2>1. up'
    BY <1>1, <1>6 DEF GetSetting, Answer
  <2>2. QED
    BY <1>1, <1>6, <2>1, GetSettingKeepsIInv DEF m
<1>7. CASE Hear(n, m) /\ up'
  BY <1>1, <1>7, HearKeepsIInv DEF m
<1>8. CASE Hear(n, m) /\ ~up'
  BY <1>1, <1>8, StrayKeepsIInv DEF m
<1>9. QED
  BY <1>1, <1>2, <1>3, <1>4, <1>5, <1>6, <1>7, <1>8

(***************************************************************************)
(* Requests, and the theorems.                                             *)
(***************************************************************************)

\* What is carried for a request was asked.
LEMMA CarriedWasAsked ==
      ASSUME QueuesOK, NEW r \in Requests, asked[r] = None
      PROVE  /\ \A n \in All : Up(n, r) = {} /\ Down(n, r) = {}
             /\ \A i \in DOMAIN answers[r] : FALSE
<1>1. ASSUME NEW n \in All, NEW i \in Up(n, r)
      PROVE  FALSE
  <2>1. i \in DOMAIN toManager[n] /\ Carries(toManager[n][i], r)
    BY DEF Up
  <2>2. IsForManager(toManager[n][i])
    BY <2>1 DEF QueuesOK, MessagesMatch
  <2>3. QED
    BY <2>1, <2>2 DEF Carries, IsForManager, IsQuestion, Fits
<1>2. ASSUME NEW n \in All, NEW i \in Down(n, r)
      PROVE  FALSE
  <2>1. i \in DOMAIN toNode[n] /\ Carries(toNode[n][i], r)
    BY DEF Down
  <2>2. IsForNode(toNode[n][i])
    BY <2>1 DEF QueuesOK, MessagesMatch
  <2>3. QED
    BY <2>1, <2>2 DEF Carries, IsForNode, IsQuestion, Fits, Stray
<1>3. \A i \in DOMAIN answers[r] : FALSE
  BY DEF QueuesOK, MessagesMatch, Fits
<1>4. QED
  BY <1>1, <1>2, <1>3

\* A request comes in.
LEMMA AskKeepsIInv ==
      ASSUME IInv, NEW r \in Requests, NEW q \in Questions, Ask(r, q)
      PROVE  IInv'
<1>1. QueuesOK /\ TypeOK /\ GrantedOnce
  BY TypeOfQueues DEF IInv
<1>2. /\ up /\ asked[r] = None /\ asked' = [asked EXCEPT ![r] = q]
      /\ UNCHANGED <<up, nodes, bound, started, toNode, answers>>
  BY DEF Ask
<1>3. /\ asked' \in [Requests -> Questions \cup {None}] /\ asked'[r] = q /\ q # None
      /\ \A s \in Requests : s # r => asked'[s] = asked[s]
  BY <1>1, <1>2, QuestionShape DEF TypeOK
<1> DEFINE a == [type |-> q.type, sender |-> "rest", id |-> r, q |-> q,
                 receiver |-> IF q.type \in Forwarded THEN q.node ELSE "manager"]
<1>4. toManager' = Deliver(toManager, "rest", a)
  BY DEF Ask, Deliver
<1>5. /\ q.type \in Types
      /\ (IF q.type \in Forwarded THEN q.node ELSE "manager") \in Names \cup {"manager"}
  BY QuestionShape
<1>6. /\ a \in Messages /\ a.type = q.type /\ a.id = r /\ a.q = q
      /\ a.type \in Types
  BY <1>5 DEF Messages, Types
<1> HIDE DEF a
<1>7. Typed(toManager) /\ Typed(toNode) /\ "rest" \in All
  BY <1>1 DEF QueuesOK, All
<1>8. /\ Typed(toManager') /\ \A k \in All : k # "rest" => toManager'[k] = toManager[k]
      /\ \A i \in DOMAIN toManager'["rest"] :
            \/ i \in DOMAIN toManager["rest"] /\ toManager'["rest"][i] = toManager["rest"][i]
            \/ /\ i = Len(toManager["rest"]) + 1
               /\ toManager'["rest"][i] = a
  BY SMTT(30), <1>4, <1>6, <1>7, Delivered
<1>9. \A k \in All : \A i \in DOMAIN toManager'[k] :
         \/ i \in DOMAIN toManager[k] /\ toManager'[k][i] = toManager[k][i]
         \/ k = "rest" /\ i = Len(toManager["rest"]) + 1 /\ toManager'[k][i] = a
  BY <1>8
<1>10. /\ \A n \in All : Up(n, r) = {} /\ Down(n, r) = {}
       /\ \A i \in DOMAIN answers[r] : FALSE
  BY <1>1, <1>2, CarriedWasAsked
<1>11. answers[r] = <<>>
  <2>1. answers[r] \in Seq(Messages)
    BY <1>1 DEF TypeOK
  <2>2. DOMAIN answers[r] = 1 .. Len(answers[r]) /\ Len(answers[r]) \in Nat
    BY <2>1, LenProperties
  <2>3. 1 \notin DOMAIN answers[r]
    BY <1>10
  <2>4. Len(answers[r]) = 0
    BY <2>2, <2>3
  <2>5. QED
    BY <2>1, <2>4, EmptySeq
<1>12. MessagesMatch'
  <2>1. ASSUME NEW m \in Messages, m.type \in Types \cup Heard, asked[m.id] # None
        PROVE  asked'[m.id] = asked[m.id]
    BY <1>2, <1>3, <2>1, MessageShape
  <2>2. ASSUME NEW k \in All, NEW i \in DOMAIN toManager'[k]
        PROVE  IsForManager(toManager[k][i])'
    <3>1. CASE toManager'[k][i] = a
      BY <1>3, <1>6, <3>1 DEF IsForManager, IsQuestion, Types
    <3>2. CASE i \in DOMAIN toManager[k] /\ toManager'[k][i] = toManager[k][i]
      <4>1. toManager[k][i] \in Messages /\ IsForManager(toManager[k][i])
        BY <1>1, <1>7, <3>2, InQueue DEF QueuesOK, MessagesMatch
      <4>2. \/ toManager[k][i].type \in {"NODE_INIT", "NODE_CTL_EVENT"}
            \/ asked'[toManager[k][i].id] = asked[toManager[k][i].id]
        BY <2>1, <4>1 DEF IsForManager, IsQuestion, Fits, Types, Heard
      <4>3. QED
        BY <3>2, <4>1, <4>2 DEF IsForManager, IsQuestion, Fits
    <3>3. QED
      BY <1>9, <3>1, <3>2
  <2>3. ASSUME NEW k \in All, NEW i \in DOMAIN toNode'[k]
        PROVE  IsForNode(toNode[k][i])'
    <3>1. i \in DOMAIN toNode[k] /\ toNode'[k][i] = toNode[k][i]
      BY <1>2
    <3>2. toNode[k][i] \in Messages /\ IsForNode(toNode[k][i])
      BY <1>1, <1>7, <3>1, InQueue DEF QueuesOK, MessagesMatch
    <3>3. CASE Stray(toNode[k][i])
      BY <1>2, <3>1, <3>3 DEF IsForNode, Stray
    <3>4. CASE ~ Stray(toNode[k][i])
      <4>1. asked'[toNode[k][i].id] = asked[toNode[k][i].id]
        BY <2>1, <3>2, <3>4 DEF IsForNode, IsQuestion, Fits, Types, Heard
      <4>2. QED
        BY <3>1, <3>2, <3>4, <4>1 DEF IsForNode, IsQuestion, Fits
    <3>5. QED
      BY <3>3, <3>4
  <2>4. ASSUME NEW s \in Requests, NEW i \in DOMAIN answers'[s]
        PROVE  (/\ answers[s][i].type \in Heard /\ Fits(answers[s][i])
                /\ answers[s][i].id = s)'
    <3>1. /\ i \in DOMAIN answers[s] /\ answers'[s][i] = answers[s][i]
          /\ answers[s][i].type \in Heard /\ Fits(answers[s][i]) /\ answers[s][i].id = s
      BY <1>1, <1>2 DEF QueuesOK, MessagesMatch
    <3>2. asked'[s] = asked[s]
      BY <1>3, <1>10, <3>1
    <3>3. QED
      BY <3>1, <3>2 DEF Fits
  <2>5. QED
    BY <2>2, <2>3, <2>4 DEF MessagesMatch
<1>13. OnePlace'
  <2>1. ASSUME NEW k \in All, NEW s \in Requests, s # r
        PROVE  Up(k, s)' = Up(k, s)
    <3> DEFINE t == toManager["rest"]
               u == toManager'["rest"]
    <3>0. /\ DOMAIN t = 1 .. Len(t) /\ DOMAIN u = 1 .. (Len(t) + 1) /\ Len(t) \in Nat
          /\ \A i \in DOMAIN t : u[i] = t[i]
      BY <1>4, <1>6, <1>7, Delivered
    <3> HIDE DEF t, u
    <3>1. DOMAIN toManager[k] \subseteq DOMAIN toManager'[k]
      <4>1. DOMAIN t \subseteq DOMAIN u
        BY <3>0
      <4>2. QED
        BY <1>8, <4>1 DEF t, u
    <3>2. \A i \in DOMAIN toManager[k] : toManager'[k][i] = toManager[k][i]
      BY <1>8, <3>0 DEF t, u
    <3>3. ~ Carries(a, s)
      BY <1>6, <2>1 DEF Carries
    <3>4. \A i : i \in Up(k, s)' <=> i \in Up(k, s)
      BY <1>9, <3>1, <3>2, <3>3 DEF Up
    <3>5. QED
      BY <3>4
  <2>2. \A k \in All, s \in Requests : Down(k, s)' = Down(k, s)
    BY <1>2 DEF Down
  <2>3. ASSUME NEW k \in All, NEW i \in Up(k, r)'
        PROVE  k = "rest" /\ i = Len(toManager["rest"]) + 1
    <3>1. i \in DOMAIN toManager'[k] /\ Carries(toManager'[k][i], r)
      BY DEF Up
    <3>2. i \in DOMAIN toManager[k] /\ toManager'[k][i] = toManager[k][i] => i \in Up(k, r)
      BY <3>1 DEF Up
    <3>3. QED
      BY <1>9, <1>10, <3>1, <3>2
  <2>4. ASSUME NEW s \in Requests
        PROVE
        /\ \A k, l \in All : \A i \in Up(k, s)', j \in Up(l, s)' : k = l /\ i = j
        /\ \A k, l \in All : \A i \in Down(k, s)', j \in Down(l, s)' : k = l /\ i = j
        /\ \A k, l \in All : Up(k, s)' = {} \/ Down(l, s)' = {}
        /\ Len(answers'[s]) <= 1
        /\ answers'[s] # <<>> => \A k \in All : Up(k, s)' = {} /\ Down(k, s)' = {}
    <3>1. /\ \A k, l \in All : \A i \in Up(k, s), j \in Up(l, s) : k = l /\ i = j
          /\ \A k, l \in All : \A i \in Down(k, s), j \in Down(l, s) : k = l /\ i = j
          /\ \A k, l \in All : Up(k, s) = {} \/ Down(l, s) = {}
          /\ Len(answers[s]) <= 1
          /\ answers[s] # <<>> => \A k \in All : Up(k, s) = {} /\ Down(k, s) = {}
      BY <1>1 DEF QueuesOK, OnePlace
    <3>2. CASE s # r
      BY <1>2, <2>1, <2>2, <3>1, <3>2
    <3>3. CASE s = r
      <4>1. \A k \in All : Down(k, s)' = {}
        BY <1>10, <2>2, <3>3
      <4>2. answers'[s] = <<>> /\ Len(answers'[s]) <= 1
        BY <1>2, <1>11, <3>1, <3>3
      <4>3. \A k, l \in All : \A i \in Up(k, s)', j \in Up(l, s)' : k = l /\ i = j
        BY <2>3, <3>3
      <4>4. QED
        BY <4>1, <4>2, <4>3
    <3>4. QED
      BY <3>2, <3>3
  <2>5. QED
    BY <2>4 DEF OnePlace
<1>14. QueuesOK'
  <2>1. \A k \in All \ DOMAIN nodes : toManager'[k] = toManager[k]
    BY <1>1, <1>8 DEF TypeOK
  <2>2. QED
    BY <1>1, <1>2, <1>7, <1>8, <1>12, <1>13, <2>1 DEF QueuesOK
<1>15. GrantedOnce'
  <2>1. ASSUME NEW s \in Requests, Granted(s)'
        PROVE  s # r /\ Granted(s)
    <3>1. \/ \E i \in DOMAIN answers[s] : answers[s][i].result = Success
          \/ \E n \in All : \E i \in Down(n, s) : toNode[n][i].result = Success
      BY <1>2, <2>1 DEF Granted, Down
    <3>2. s # r
      BY <1>10, <3>1
    <3>3. QED
      BY <1>3, <2>1, <3>1, <3>2 DEF Granted
  <2>2. QED
    BY <1>1, <1>2, <1>3, <2>1 DEF GrantedOnce
<1>16. TypeOK'
  BY <1>1, <1>2, <1>3, <1>14 DEF TypeOK, QueuesOK, Typed
<1>17. LifecycleAgrees' /\ OnlyRequestsAbort'
  BY <1>2 DEF IInv, LifecycleAgrees, OnlyRequestsAbort
<1>18. QED
  BY <1>14, <1>15, <1>16, <1>17 DEF IInv, QueuesOK

\* The queues are empty at the start.
LEMMA InitIInv == Init => IInv
<1> SUFFICES ASSUME Init PROVE IInv
  OBVIOUS
<1>1. /\ \A n \in All : toManager[n] = <<>> /\ toNode[n] = <<>>
      /\ \A r \in Requests : asked[r] = None /\ answers[r] = <<>>
  BY DEF Init
<1>2. TypeOK
  BY DEF Init, TypeOK, All
<1>3. LifecycleAgrees /\ OnlyRequestsAbort
  BY DEF Init, LifecycleAgrees, OnlyRequestsAbort
<1>4. MessagesMatch
  BY <1>1 DEF MessagesMatch
<1>5. \A n \in All, r \in Requests : Up(n, r) = {} /\ Down(n, r) = {}
  BY <1>1 DEF Up, Down
<1>6. OnePlace
  BY <1>1, <1>5 DEF OnePlace
<1>7. GrantedOnce
  BY <1>1 DEF GrantedOnce, Granted
<1>8. QED
  BY <1>2, <1>3, <1>4, <1>6, <1>7 DEF IInv

\* The loops keep the inductive invariant, whatever is asked and in whatever
\* order they run (manager_loop, adapter_loop, request of the REST plugin).
THEOREM Invariance == Spec => []IInv
<1>1. Init => IInv
  BY InitIInv
<1>2. IInv /\ [Next]_vars => IInv'
  <2>1. ASSUME IInv, Next
        PROVE  IInv'
    BY <2>1, AskKeepsIInv, ManagerLoopKeepsIInv, AdapterLoopKeepsIInv DEF Next
  <2>2. ASSUME IInv, UNCHANGED vars
        PROVE  IInv'
    <3>1. UNCHANGED <<up, nodes, bound, started, toManager, toNode, asked, answers>>
      BY <2>2 DEF vars
    <3>2. TypeOK'
      BY <2>2, <3>1 DEF IInv, TypeOK
    <3>3. LifecycleAgrees' /\ OnlyRequestsAbort'
      BY <2>2, <3>1 DEF IInv, LifecycleAgrees, OnlyRequestsAbort, Stray
    <3>4. MessagesMatch'
      BY <2>2, <3>1, MessagesStillMatch DEF IInv
    <3>5. OnePlace'
      BY <2>2, <3>1 DEF IInv, OnePlace, Up, Down
    <3>6. GrantedOnce'
      BY <2>2, <3>1 DEF IInv, GrantedOnce, Granted, Down
    <3>7. QED
      BY <3>2, <3>3, <3>4, <3>5, <3>6 DEF IInv
  <2>3. QED
    BY <2>1, <2>2
<1>3. QED
  BY <1>1, <1>2, PTL DEF Spec

\* Every variable keeps its shape, and a queue is that of a node
\* (neu_node_manager_add, neu_adapter_create).
THEOREM TypeCorrect == Spec => []TypeOK
<1>1. IInv => TypeOK
  BY DEF IInv
<1>2. QED
  BY <1>1, Invariance, PTL

\* The state of a node is that of its plugin, after any plugin call that
\* failed (neu_adapter_start, neu_adapter_stop, neu_adapter_set_setting).
THEOREM StatesArePlugins == Spec => []LifecycleAgrees
<1>1. IInv => LifecycleAgrees
  BY DEF IInv
<1>2. QED
  BY <1>1, Invariance, PTL

\* No loop ends the process over an answer or a request of another, nor over
\* an event, but for one that strays to the REST plugin when a node is named
\* monitor (assert in manager_loop and in request of the REST plugin).
THEOREM LoopsUnderstandEachOther == Spec => []OnlyRequestsAbort
<1>1. IInv => OnlyRequestsAbort
  BY DEF IInv
<1>2. QED
  BY <1>1, Invariance, PTL

\* The first response to a request.
LEMMA FirstAnswer ==
      ASSUME TypeOK, NEW r \in Requests, answers[r] # <<>>
      PROVE  /\ 1 \in DOMAIN answers[r] /\ Head(answers[r]) = answers[r][1]
             /\ Len(answers[r]) \in Nat \ {0}
<1>1. answers[r] \in Seq(Messages)
  BY DEF TypeOK
<1>2. DOMAIN answers[r] = 1 .. Len(answers[r]) /\ Len(answers[r]) \in Nat
  BY <1>1, LenProperties
<1>3. Len(answers[r]) # 0
  BY <1>1, EmptySeq
<1>4. QED
  BY <1>1, <1>2, <1>3

\* Every request is answered at most once, with what fits it
\* (manager_loop, adapter_loop, request of the REST plugin).
THEOREM RequestsAreAnsweredOnce == Spec => []AnsweredOnce
<1>1. IInv => AnsweredOnce
  <2>1. SUFFICES ASSUME IInv, NEW r \in Requests, answers[r] # <<>>
                 PROVE  /\ Len(answers[r]) = 1 /\ asked[r] # None
                        /\ LET a == Head(answers[r])
                               t == asked[r].type
                           IN  \/ /\ a.type = "RESP_ERROR"
                                  /\ t \in Forwarded \cup {"ADD_NODE"}
                               \/ t \in DOMAIN ResponseTo /\ a.type = ResponseTo[t]
                               \/ /\ t = "GET_NODE_SETTING"
                                  /\ a.type = "RESP_GET_NODE_SETTING"
    BY DEF AnsweredOnce
  <2>2. /\ 1 \in DOMAIN answers[r] /\ Head(answers[r]) = answers[r][1]
        /\ Len(answers[r]) \in Nat \ {0}
    BY <2>1, FirstAnswer DEF IInv
  <2>3. Len(answers[r]) <= 1
    BY <2>1 DEF IInv, OnePlace
  <2>4. Fits(answers[r][1]) /\ answers[r][1].id = r
    BY <2>1, <2>2 DEF IInv, MessagesMatch
  <2>5. Len(answers[r]) = 1
    <3> DEFINE l == Len(answers[r])
    <3>1. l \in Nat \ {0} /\ l <= 1
      BY <2>2, <2>3
    <3> HIDE DEF l
    <3>2. l = 1
      BY <3>1
    <3>3. QED
      BY <3>2 DEF l
  <2>6. QED
    BY <2>2, <2>4, <2>5 DEF Fits
<1>2. QED
  BY <1>1, Invariance, PTL

\* Of the requests that add one node a single one is told that it did
\* (neu_manager_add_node).
THEOREM NodesAreAddedOnce == Spec => []AddedOnce
<1>1. IInv => AddedOnce
  <2>1. ASSUME IInv, NEW r \in Requests, asked[r] # None, asked[r].type = "ADD_NODE",
               answers[r] # <<>>, Head(answers[r]).result = Success
        PROVE  Granted(r)
    <3>1. 1 \in DOMAIN answers[r] /\ Head(answers[r]) = answers[r][1]
      BY <2>1, FirstAnswer DEF IInv
    <3>2. QED
      BY <2>1, <3>1 DEF Granted
  <2>2. QED
    BY <2>1 DEF AddedOnce, IInv, GrantedOnce
<1>2. QED
  BY <1>1, Invariance, PTL
=============================================================================
