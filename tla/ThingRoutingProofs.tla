------------------------- MODULE ThingRoutingProofs -------------------------
(***************************************************************************)
(* Proofs about ThingRouting, for any rows of any type, any messages and   *)
(* any interleaving of the threads that forward them.                      *)
(***************************************************************************)
EXTENDS ThingRouting, TLAPS

\* What the actions use of the types.
LEMMA Types ==
      ASSUME IInv
      PROVE  /\ lists \in [Kinds -> [by : Threads \cup {"NULL"}, nodes : SUBSET Places]]
             /\ call \in [Threads -> Call]
             /\ sent \in Seq(Message)
             /\ heard \in [Nodes -> [Ids -> Nat]]
             /\ Len(sent) \in Nat
BY DEF IInv, TypeOK

\* A call, field by field.
LEMMA CallFields ==
      ASSUME NEW c \in Call
      PROVE  /\ c.pc \in {"idle", "row", "look", "fill", "assign", "iterate", "each"}
             /\ c.id \in 0 .. MaxSent /\ c.kind \in Kinds
             /\ c.by \in Threads \cup {"NULL"} /\ c.left \subseteq Places
BY DEF Call

\* A forwarding that is over.
LEMMA NoCallShape == NoCall \in Call /\ NoCall.pc = "idle"
<1>1. 0 \in 0 .. MaxSent
  BY RowsAssumption
<1>2. QED
  BY <1>1 DEF NoCall, Call, Kinds

\* The rest of a list: forwarding is over, or it goes on with what is left.
LEMMA RestShape ==
      ASSUME NEW c \in Call, NEW l, l \subseteq Places
      PROVE  /\ Rest(c, l) \in Call
             /\ Rest(c, l).pc # "idle" =>
                   /\ Rest(c, l).pc = c.pc /\ Rest(c, l).id = c.id
                   /\ Rest(c, l).kind = c.kind /\ Rest(c, l).by = c.by
                   /\ Rest(c, l).left = l /\ l # {}
<1>1. CASE l = {}
  BY <1>1, NoCallShape DEF Rest
<1>2. CASE l # {}
  BY <1>2 DEF Rest, Call
<1>3. QED
  BY <1>1, <1>2

\* A driver is no app, and the mqtt thread is neither.
LEMMA Parts ==
      /\ Drivers \cap Apps = {} /\ Broker \notin Drivers
      /\ Drivers \subseteq Threads /\ Nodes \subseteq Threads /\ Broker \in Threads
BY RowsAssumption DEF Threads

\* The first step of a forwarding.
LEMMA BeginShape ==
      ASSUME NEW id \in Ids, NEW route, NEW to, NEW c, c = Begin(id, route, to),
             route \in {"rows", "selves", "node", "apps", "nowhere"},
             route = "node" => to \in Nodes
      PROVE  /\ c \in Call /\ c.pc \in {"idle", "row", "look"}
             /\ c.pc # "idle" => c.id = id
             /\ c.pc = "row" => c.left # {} /\ route \in {"rows", "node"}
             /\ c.pc = "look" => c.kind = route /\ route \in Kinds
<1>1. id \in 0 .. MaxSent
  BY RowsAssumption DEF Ids
<1>2. CASE route = "rows"
  <2> DEFINE d == [NoCall EXCEPT !.pc = "row", !.id = id]
  <2>1. d \in Call /\ d.pc = "row" /\ d.id = id
    BY <1>1, NoCallShape DEF Call, NoCall
  <2>2. c = Rest(d, PropertyRows)
    BY <1>2 DEF Begin, Kinds
  <2>3. PropertyRows \subseteq Places
    BY DEF PropertyRows, List
  <2> HIDE DEF d
  <2>4. QED
    BY <1>2, <2>1, <2>2, <2>3, RestShape
<1>3. CASE route = "node"
  <2>1. c = [NoCall EXCEPT !.pc = "row", !.id = id, !.left = List({to})]
    BY <1>3 DEF Begin, Kinds
  <2>2. List({to}) \subseteq Places /\ List({to}) # {}
    BY <1>3 DEF List, Nodes
  <2>3. QED
    BY <1>1, <1>3, <2>1, <2>2, NoCallShape DEF Call, NoCall
<1>4. CASE route \in Kinds
  <2>1. c = [NoCall EXCEPT !.pc = "look", !.id = id, !.kind = route]
    BY <1>4 DEF Begin, Kinds
  <2>2. QED
    BY <1>1, <1>4, <2>1, NoCallShape DEF Call, NoCall
<1>5. CASE route = "nowhere"
  BY <1>5, NoCallShape DEF Begin, Kinds
<1>6. QED
  BY <1>2, <1>3, <1>4, <1>5 DEF Kinds

\* Messages sent so far stay as they are when one more is sent.
LEMMA OneMore ==
      ASSUME sent \in Seq(Message), Len(sent) < MaxSent, NEW m \in Message,
             sent' = Append(sent, m)
      PROVE  /\ sent' \in Seq(Message) /\ Len(sent)' = Len(sent) + 1
             /\ Len(sent)' \in Ids
             /\ sent'[Len(sent) + 1] = m
             /\ \A i \in 1 .. Len(sent) : sent'[i] = sent[i]
BY RowsAssumption DEF Ids

\* A message is sent, and thread t begins to forward it.
LEMMA BeginKeepsIInv ==
      ASSUME IInv, NEW t \in Threads, NEW m \in Message, NEW c \in Call,
             Len(sent) < MaxSent, m.from = t, call[t].pc = "idle",
             c.pc \in {"idle", "row", "look"},
             c.pc # "idle" => c.id = Len(sent) + 1,
             c.pc = "row" => c.left # {} /\ t \notin Drivers,
             c.pc = "look" /\ t \in Drivers => c.kind = "apps",
             sent' = Append(sent, m), call' = [call EXCEPT ![t] = c],
             UNCHANGED <<proc, loaded, lists, heard>>
      PROVE  IInv'
<1>1. /\ sent' \in Seq(Message) /\ Len(sent)' = Len(sent) + 1 /\ Len(sent)' \in Ids
      /\ sent'[Len(sent) + 1] = m
      /\ \A i \in 1 .. Len(sent) : sent'[i] = sent[i]
  BY Types, OneMore
<1>2. /\ call' \in [Threads -> Call] /\ call'[t] = c
      /\ \A u \in Threads : u # t => call'[u] = call[u]
  BY Types
<1>3. TypeOK'
  BY <1>1, <1>2 DEF IInv, TypeOK
<1>4. \A n \in Nodes : heard[n][Len(sent) + 1] = 0
  BY <1>1, Types DEF IInv, NotHeardBefore
<1>5. HeardOnce'
  <2>1. SUFFICES ASSUME NEW n \in Nodes, NEW i \in Ids
                 PROVE  heard[n][i] <= IF i <= Len(sent)' /\ n \in Drivers /\ sent'[i].from = n
                                       THEN 0 ELSE 1
    BY DEF HeardOnce
  <2>2. heard[n][i] <= IF i <= Len(sent) /\ n \in Drivers /\ sent[i].from = n THEN 0 ELSE 1
    BY DEF IInv, HeardOnce
  <2>3. CASE i <= Len(sent)
    BY <1>1, <2>2, <2>3, Types DEF Ids
  <2>4. CASE i > Len(sent)
    BY <2>4 DEF IInv, NotHeardBefore
  <2>5. QED
    BY <2>3, <2>4, Types DEF Ids
<1>6. CallersForwardTheirOwn'
  <2>1. SUFFICES ASSUME NEW u \in Threads, call'[u].pc # "idle"
                 PROVE  call'[u].id \in 1 .. Len(sent)' /\ sent'[call'[u].id].from = u
    BY DEF CallersForwardTheirOwn
  <2>2. CASE u = t
    BY <1>1, <1>2, <2>1, <2>2, Types
  <2>3. CASE u # t
    BY <1>1, <1>2, <2>1, <2>3, Types DEF IInv, CallersForwardTheirOwn
  <2>4. QED
    BY <2>2, <2>3
<1>7. NotHeardAhead'
  <2>1. SUFFICES ASSUME NEW u \in Threads
                 PROVE  /\ call'[u].pc \in {"row", "each"}
                              => \A i \in call'[u].left : heard[Rows[i]][call'[u].id] = 0
                        /\ call'[u].pc \in {"look", "fill", "assign", "iterate"}
                              => \A n \in Nodes : heard[n][call'[u].id] = 0
    BY DEF NotHeardAhead
  <2>2. CASE u = t
    BY <1>2, <1>4, <2>2, CallFields DEF Nodes
  <2>3. CASE u # t
    BY <1>2, <2>3 DEF IInv, NotHeardAhead
  <2>4. QED
    BY <2>2, <2>3
<1>8. NotHeardBefore'
  BY <1>1, Types DEF IInv, NotHeardBefore, Ids
<1>9. ListsHoldTheirType' /\ DriversCallApps'
  BY <1>2, Parts DEF IInv, ListsHoldTheirType, DriversCallApps
<1>10. QED
  BY <1>3, <1>5, <1>6, <1>7, <1>8, <1>9 DEF IInv

\* A message arrives from the broker.
LEMMA ArriveKeepsIInv ==
      ASSUME IInv, NEW method \in FromBroker, NEW to,
             method = "node" => to \in Nodes, Arrive(method, to)
      PROVE  IInv'
<1> DEFINE m == [method |-> method, from |-> Broker]
           c == Begin(Len(sent) + 1, ArrivalRoute(method), to)
<1>1. m \in Message /\ m.from = Broker
  BY Parts DEF Message
<1>2. /\ call[Broker].pc = "idle" /\ Len(sent) < MaxSent
      /\ sent' = Append(sent, m)
      /\ call' = [call EXCEPT ![Broker] = Begin(Len(sent'), ArrivalRoute(method), to)]
      /\ UNCHANGED <<proc, loaded, lists, heard>>
  BY DEF Arrive
<1> HIDE DEF m
<1>3. Len(sent') = Len(sent) + 1 /\ Len(sent) + 1 \in Ids
  BY <1>1, <1>2, Types, OneMore
<1>4. call' = [call EXCEPT ![Broker] = c]
  BY <1>2, <1>3
<1>5. /\ ArrivalRoute(method) \in {"rows", "selves", "node", "apps", "nowhere"}
      /\ ArrivalRoute(method) = "node" => to \in Nodes
  BY DEF ArrivalRoute, FromBroker
<1> HIDE DEF c
<1>6. /\ c \in Call /\ c.pc \in {"idle", "row", "look"}
      /\ c.pc # "idle" => c.id = Len(sent) + 1
      /\ c.pc = "row" => c.left # {}
  BY <1>3, <1>5, BeginShape DEF c, Kinds
<1>7. QED
  BY <1>1, <1>2, <1>4, <1>6, Parts, BeginKeepsIInv

\* A plugin sends a message.
LEMMA SendKeepsIInv ==
      ASSUME IInv, NEW n \in Nodes, NEW method \in FromPlugin, Send(n, method)
      PROVE  IInv'
<1> DEFINE m == [method |-> method, from |-> n]
           c == Begin(Len(sent) + 1, PluginRoute(n, method), n)
<1>1. m \in Message /\ m.from = n
  BY Parts DEF Message
<1>2. /\ call[n].pc = "idle" /\ Len(sent) < MaxSent
      /\ sent' = Append(sent, m)
      /\ call' = [call EXCEPT ![n] = Begin(Len(sent'), PluginRoute(n, method), n)]
      /\ UNCHANGED <<proc, loaded, lists, heard>>
  BY DEF Send, NoLocal
<1> HIDE DEF m
<1>3. Len(sent') = Len(sent) + 1 /\ Len(sent) + 1 \in Ids
  BY <1>1, <1>2, Types, OneMore
<1>4. call' = [call EXCEPT ![n] = c]
  BY <1>2, <1>3
<1>5. /\ PluginRoute(n, method) \in {"rows", "apps", "nowhere"}
      /\ n \in Drivers => PluginRoute(n, method) \in {"apps", "nowhere"}
  BY Parts DEF PluginRoute
<1> HIDE DEF c
<1>6. /\ c \in Call /\ c.pc \in {"idle", "row", "look"}
      /\ c.pc # "idle" => c.id = Len(sent) + 1
      /\ c.pc = "row" => c.left # {} /\ n \notin Drivers
      /\ c.pc = "look" /\ n \in Drivers => c.kind = "apps"
  BY <1>3, <1>5, BeginShape DEF c, Kinds
<1>7. QED
  BY ZenonT(60), <1>1, <1>2, <1>4, <1>6, Parts, BeginKeepsIInv

(***************************************************************************)
(* Forwarding.                                                             *)
(***************************************************************************)

\* Thread t forwards without calling a plugin: what it is yet to call is what
\* it was, or nobody has heard its message.
LEMMA QuietStepKeepsIInv ==
      ASSUME IInv, NEW t \in Threads, NEW c \in Call, call[t].pc # "idle",
             c.pc # "idle" => c.id = call[t].id /\ c.kind = call[t].kind,
             c.pc # "row", c.pc = "each" => c.left # {},
             c.pc # "idle" => call[t].pc \in {"look", "fill", "assign", "iterate"},
             c.pc \in {"assign", "each"} => \A i \in c.left : Rows[i] \in Of(c.kind),
             call' = [call EXCEPT ![t] = c],
             lists' \in [Kinds -> [by : Threads \cup {"NULL"}, nodes : SUBSET Places]],
             \A k \in Kinds : \A i \in lists'[k].nodes : Rows[i] \in Of(k),
             UNCHANGED <<proc, loaded, sent, heard>>
      PROVE  IInv'
<1>1. /\ call' \in [Threads -> Call] /\ call'[t] = c
      /\ \A u \in Threads : u # t => call'[u] = call[u]
  BY Types
<1>2. TypeOK' /\ HeardOnce' /\ NotHeardBefore'
  BY <1>1 DEF IInv, TypeOK, HeardOnce, NotHeardBefore
<1>3. CallersForwardTheirOwn'
  BY <1>1 DEF IInv, CallersForwardTheirOwn
<1>4. NotHeardAhead'
  <2>1. SUFFICES ASSUME NEW u \in Threads
                 PROVE  /\ call'[u].pc \in {"row", "each"}
                              => \A i \in call'[u].left : heard[Rows[i]][call'[u].id] = 0
                        /\ call'[u].pc \in {"look", "fill", "assign", "iterate"}
                              => \A n \in Nodes : heard[n][call'[u].id] = 0
    BY DEF NotHeardAhead
  <2>2. CASE u = t
    <3>1. c.pc # "idle" => \A n \in Nodes : heard[n][c.id] = 0
      BY DEF IInv, NotHeardAhead
    <3>2. \A i \in c.left : Rows[i] \in Nodes
      BY CallFields DEF Nodes
    <3>3. QED
      BY <1>1, <2>2, <3>1, <3>2
  <2>3. CASE u # t
    BY <1>1, <2>3 DEF IInv, NotHeardAhead
  <2>4. QED
    BY <2>2, <2>3
<1>5. ListsHoldTheirType' /\ DriversCallApps'
  BY <1>1, Parts DEF IInv, ListsHoldTheirType, DriversCallApps
<1>6. QED
  BY <1>2, <1>3, <1>4, <1>5 DEF IInv

\* A caller looks whether its list is filled.
LEMMA LookKeepsIInv ==
      ASSUME IInv, NEW t \in Threads, Look(t)
      PROVE  IInv'
<1> DEFINE c == IF lists[call[t].kind].by = "NULL" THEN [call[t] EXCEPT !.pc = "fill"]
                ELSE [call[t] EXCEPT !.pc = "iterate"]
<1>1. /\ call[t].pc = "look" /\ call' = [call EXCEPT ![t] = c]
      /\ UNCHANGED <<proc, loaded, lists, sent, heard>>
  BY DEF Look
<1>2. call[t] \in Call
  BY Types
<1>3. /\ c \in Call /\ c.pc \in {"fill", "iterate"}
      /\ c.id = call[t].id /\ c.kind = call[t].kind
  BY <1>2 DEF Call
<1> HIDE DEF c
<1>4. QED
  BY <1>1, <1>3, Types, QuietStepKeepsIInv DEF IInv, ListsHoldTheirType

\* It collects the nodes of its list.
LEMMA FillKeepsIInv ==
      ASSUME IInv, NEW t \in Threads, Fill(t)
      PROVE  IInv'
<1> DEFINE l == List(Of(call[t].kind) \cap Loaded)
           c == [call[t] EXCEPT !.pc = "assign", !.left = l]
<1>1. call[t] \in Call
  BY Types
<1>2. l \subseteq Places /\ \A i \in l : Rows[i] \in Of(call[t].kind)
  BY DEF List
<1>3. /\ call[t].pc = "fill" /\ call' = [call EXCEPT ![t] = c]
      /\ UNCHANGED <<proc, loaded, lists, sent, heard>>
  BY Types DEF Fill
<1> HIDE DEF l
<1>4. /\ c \in Call /\ c.pc = "assign" /\ c.left = l
      /\ c.id = call[t].id /\ c.kind = call[t].kind
  BY <1>1, <1>2 DEF Call
<1> HIDE DEF c
<1>5. QED
  BY <1>2, <1>3, <1>4, Types, QuietStepKeepsIInv DEF IInv, ListsHoldTheirType

\* It assigns the static list.
LEMMA AssignKeepsIInv ==
      ASSUME IInv, NEW t \in Threads, Assign(t)
      PROVE  IInv'
<1> DEFINE c == [call[t] EXCEPT !.pc = "iterate", !.left = {}]
           k == call[t].kind
           e == [by |-> t, nodes |-> call[t].left]
<1>1. call[t] \in Call /\ k \in Kinds /\ call[t].left \subseteq Places
  BY Types, CallFields
<1>2. /\ call[t].pc = "assign" /\ lists' = [lists EXCEPT ![k] = e]
      /\ call' = [call EXCEPT ![t] = c]
      /\ UNCHANGED <<proc, loaded, sent, heard>>
  BY Types DEF Assign
<1>3. e \in [by : Threads \cup {"NULL"}, nodes : SUBSET Places] /\ e.nodes = call[t].left
  BY <1>1
<1>4. c \in Call /\ c.pc = "iterate" /\ c.id = call[t].id /\ c.kind = k
  BY <1>1 DEF Call
<1>5. \A i \in call[t].left : Rows[i] \in Of(k)
  BY <1>2 DEF IInv, ListsHoldTheirType
<1> HIDE DEF c, e, k
<1>6. /\ lists' \in [Kinds -> [by : Threads \cup {"NULL"}, nodes : SUBSET Places]]
      /\ \A j \in Kinds : lists'[j] = IF j = k THEN e ELSE lists[j]
  BY <1>1, <1>2, <1>3, Types
<1>7. \A j \in Kinds : \A i \in lists'[j].nodes : Rows[i] \in Of(j)
  BY <1>3, <1>5, <1>6 DEF IInv, ListsHoldTheirType
<1>8. c.kind = call[t].kind
  BY <1>4 DEF k
<1>9. QED
  BY <1>2, <1>4, <1>6, <1>7, <1>8, QuietStepKeepsIInv

\* It begins to iterate.
LEMMA IterateKeepsIInv ==
      ASSUME IInv, NEW t \in Threads, Iterate(t)
      PROVE  IInv'
<1> DEFINE k == call[t].kind
           l == lists[k].nodes
           d == [call[t] EXCEPT !.pc = "each", !.by = lists[k].by]
           c == Rest(d, l)
<1>1. call[t] \in Call /\ k \in Kinds
  BY Types, CallFields
<1>2. /\ call[t].pc = "iterate" /\ call' = [call EXCEPT ![t] = c]
      /\ UNCHANGED <<proc, loaded, lists, sent, heard>>
  BY DEF Iterate
<1>3. l \subseteq Places /\ lists[k].by \in Threads \cup {"NULL"}
  BY <1>1, Types
<1>4. d \in Call /\ d.pc = "each" /\ d.id = call[t].id /\ d.kind = k
  BY <1>1, <1>3 DEF Call
<1>5. \A i \in l : Rows[i] \in Of(k)
  BY <1>1 DEF IInv, ListsHoldTheirType
<1> HIDE DEF d, l
<1>6. /\ c \in Call
      /\ c.pc # "idle" => /\ c.pc = "each" /\ c.id = call[t].id /\ c.kind = k
                          /\ c.left = l /\ l # {}
  BY <1>3, <1>4, RestShape
<1> HIDE DEF c
<1>7. QED
  BY <1>2, <1>5, <1>6, Types, QuietStepKeepsIInv DEF IInv, ListsHoldTheirType

\* Thread t calls a plugin with its message, or gives up.
LEMMA CallKeepsIInv ==
      ASSUME IInv, NEW t \in Threads, NEW c \in Call, NEW i \in Places,
             call[t].pc \in {"row", "each"}, i \in call[t].left,
             c.pc # "idle" => /\ c.pc = call[t].pc /\ c.id = call[t].id
                              /\ c.kind = call[t].kind
                              /\ c.left = call[t].left \ {i} /\ c.left # {},
             call' = [call EXCEPT ![t] = c],
             (heard' = heard /\ c.pc = "idle") \/ Hears(Rows[i], call[t].id),
             proc' \in {"up", "killed"}, UNCHANGED <<loaded, lists, sent>>
      PROVE  IInv'
<1> DEFINE id == call[t].id
           n  == Rows[i]
<1>1. /\ call' \in [Threads -> Call] /\ call'[t] = c
      /\ \A u \in Threads : u # t => call'[u] = call[u]
  BY Types
<1>2. id \in 1 .. Len(sent) /\ sent[id].from = t /\ id \in Ids /\ n \in Nodes
  BY Types, CallFields DEF IInv, CallersForwardTheirOwn, Ids, Nodes
<1>3. heard[n][id] = 0 /\ heard[n] \in [Ids -> Nat]
  BY <1>2, Types DEF IInv, NotHeardAhead
<1>4. /\ heard' \in [Nodes -> [Ids -> Nat]]
      /\ \A p \in Nodes, j \in Ids : ~(p = n /\ j = id) => heard'[p][j] = heard[p][j]
      /\ heard'[n][id] \in {0, 1}
  <2>1. CASE heard' = heard
    BY <1>2, <1>3, <2>1, Types
  <2>2. CASE Hears(Rows[i], call[t].id)
    <3> DEFINE h == [heard[n] EXCEPT ![id] = 1]
    <3>1. h \in [Ids -> Nat] /\ h[id] = 1 /\ \A j \in Ids : j # id => h[j] = heard[n][j]
      BY <1>2, <1>3
    <3>2. heard' = [heard EXCEPT ![n] = h]
      BY <1>2, <1>3, <2>2, Types DEF Hears
    <3> HIDE DEF h, id, n
    <3>3. QED
      BY <1>2, <3>1, <3>2, Types
  <2>3. QED
    BY <2>1, <2>2
<1>5. TypeOK'
  BY <1>1, <1>4 DEF IInv, TypeOK
<1>6. n \in Drivers => sent[id].from # n
  <2>1. SUFFICES ASSUME n \in Drivers, t = n
                 PROVE  FALSE
    BY <1>2
  <2>2. call[t].pc = "each" /\ call[t].kind = "apps"
    BY <2>1 DEF IInv, DriversCallApps
  <2>3. n \in Apps
    BY <2>2 DEF IInv, ListsHoldTheirType, Of
  <2>4. QED
    BY <2>1, <2>3, Parts
<1> HIDE DEF id, n
<1>7. HeardOnce'
  <2>1. SUFFICES ASSUME NEW p \in Nodes, NEW j \in Ids
                 PROVE  heard'[p][j] <= IF j <= Len(sent) /\ p \in Drivers /\ sent[j].from = p
                                        THEN 0 ELSE 1
    BY DEF HeardOnce
  <2>2. CASE p = n /\ j = id
    BY <1>4, <1>6, <2>2
  <2>3. CASE ~(p = n /\ j = id)
    BY <1>4, <2>3 DEF IInv, HeardOnce
  <2>4. QED
    BY <2>2, <2>3
<1>8. CallersForwardTheirOwn'
  BY <1>1 DEF IInv, CallersForwardTheirOwn
<1>9. NotHeardAhead'
  <2>1. SUFFICES ASSUME NEW u \in Threads
                 PROVE  /\ call'[u].pc \in {"row", "each"}
                              => \A j \in call'[u].left : heard'[Rows[j]][call'[u].id] = 0
                        /\ call'[u].pc \in {"look", "fill", "assign", "iterate"}
                              => \A p \in Nodes : heard'[p][call'[u].id] = 0
    BY DEF NotHeardAhead
  <2>2. CASE u = t
    <3>1. SUFFICES ASSUME c.pc \in {"row", "each"}, NEW j \in c.left
                   PROVE  heard'[Rows[j]][c.id] = 0
      BY <1>1, <2>2
    <3>2. j \in call[t].left /\ j # i /\ c.id = id /\ j \in Places
      BY <3>1, CallFields DEF id
    <3>3. Rows[j] \in Nodes /\ Rows[j] # n
      BY <3>2, RowsAssumption DEF Nodes, n, IsInjective, Places
    <3>4. heard[Rows[j]][id] = 0
      BY <3>2 DEF IInv, NotHeardAhead, id
    <3>5. QED
      BY <1>2, <1>4, <3>2, <3>3, <3>4
  <2>3. CASE u # t
    <3>1. SUFFICES ASSUME call[u].pc # "idle"
                   PROVE  \A p \in Nodes : heard'[p][call[u].id] = heard[p][call[u].id]
      <4>1. \A j \in call[u].left : Rows[j] \in Nodes
        BY Types, CallFields DEF Nodes
      <4>2. QED
        BY <1>1, <2>3, <4>1 DEF IInv, NotHeardAhead
    <3>2. call[u].id \in 1 .. Len(sent) /\ sent[call[u].id].from = u /\ call[u].id \in Ids
      BY <3>1, Types, CallFields DEF IInv, CallersForwardTheirOwn, Ids
    <3>3. call[u].id # id
      BY <1>2, <2>3, <3>2
    <3>4. QED
      BY <1>4, <3>2, <3>3
  <2>4. QED
    BY <2>2, <2>3
<1>10. NotHeardBefore'
  <2>1. SUFFICES ASSUME NEW p \in Nodes, NEW j \in Ids, j > Len(sent)
                 PROVE  heard'[p][j] = 0
    BY DEF NotHeardBefore
  <2>2. j # id
    BY <1>2, <2>1, Types DEF Ids
  <2>3. heard[p][j] = 0
    BY <2>1 DEF IInv, NotHeardBefore
  <2>4. QED
    BY <1>4, <2>2, <2>3
<1>11. ListsHoldTheirType' /\ DriversCallApps'
  BY <1>1, Parts DEF IInv, ListsHoldTheirType, DriversCallApps
<1>12. QED
  BY <1>5, <1>7, <1>8, <1>9, <1>10, <1>11 DEF IInv

\* The next row is called, or was not found.
LEMMA CallRowKeepsIInv ==
      ASSUME IInv, NEW t \in Threads, CallRow(t)
      PROVE  IInv'
<1>1. PICK i \in Places :
         /\ First(i, call[t].left)
         /\ \/ /\ Hears(Rows[i], call[t].id)
               /\ call' = [call EXCEPT ![t] = Rest(call[t], call[t].left \ {i})]
            \/ call' = [call EXCEPT ![t] = NoCall] /\ heard' = heard
  BY DEF CallRow
<1>2. /\ call[t].pc = "row" /\ proc' \in {"up", "killed"}
      /\ UNCHANGED <<loaded, lists, sent>>
  BY DEF CallRow, up
<1>3. /\ call[t] \in Call /\ i \in call[t].left
      /\ call[t].left \ {i} \subseteq Places
  BY <1>1, Types, CallFields DEF First
<1> DEFINE c == Rest(call[t], call[t].left \ {i})
<1>4. /\ c \in Call
      /\ c.pc # "idle" => /\ c.pc = call[t].pc /\ c.id = call[t].id
                          /\ c.kind = call[t].kind
                          /\ c.left = call[t].left \ {i} /\ c.left # {}
  BY ZenonT(60), <1>3, RestShape
<1> HIDE DEF c
<1>5. CASE Hears(Rows[i], call[t].id) /\ call' = [call EXCEPT ![t] = c]
  BY <1>2, <1>3, <1>4, <1>5, CallKeepsIInv
<1>6. CASE call' = [call EXCEPT ![t] = NoCall] /\ heard' = heard
  BY <1>2, <1>3, <1>6, NoCallShape, CallKeepsIInv
<1>7. QED
  BY <1>1, <1>5, <1>6 DEF c

\* The next node of a list is called, and the process may be killed.
LEMMA CallEachKeepsIInv ==
      ASSUME IInv, NEW t \in Threads, CallEach(t)
      PROVE  IInv'
<1>1. PICK i \in Places :
         /\ First(i, call[t].left) /\ Hears(Rows[i], call[t].id)
         /\ call' = [call EXCEPT ![t] = Rest(call[t], call[t].left \ {i})]
         /\ proc' \in {"killed", proc}
  BY DEF CallEach
<1>2. /\ call[t].pc = "each" /\ proc' \in {"up", "killed"}
      /\ UNCHANGED <<loaded, lists, sent>>
  BY <1>1 DEF CallEach, up
<1>3. /\ call[t] \in Call /\ i \in call[t].left
      /\ call[t].left \ {i} \subseteq Places
  BY <1>1, Types, CallFields DEF First
<1> DEFINE c == Rest(call[t], call[t].left \ {i})
<1>4. /\ c \in Call
      /\ c.pc # "idle" => /\ c.pc = call[t].pc /\ c.id = call[t].id
                          /\ c.kind = call[t].kind
                          /\ c.left = call[t].left \ {i} /\ c.left # {}
  BY ZenonT(60), <1>3, RestShape
<1>5. call' = [call EXCEPT ![t] = c]
  BY <1>1
<1> HIDE DEF c
<1>6. QED
  BY <1>1, <1>2, <1>3, <1>4, <1>5, CallKeepsIInv

\* The main thread loads a row.
LEMMA LoadKeepsIInv ==
      ASSUME IInv, Load
      PROVE  IInv'
<1>1. loaded < Len(Rows) /\ loaded' = loaded + 1 /\ UNCHANGED <<proc, lists, call, sent, heard>>
  BY DEF Load
<1>2. Len(Rows) \in Nat
  BY RowsAssumption
<1>3. TypeOK'
  BY <1>1, <1>2 DEF IInv, TypeOK
<1>4. HeardOnce' /\ CallersForwardTheirOwn' /\ NotHeardAhead' /\ NotHeardBefore'
  BY <1>1 DEF IInv, HeardOnce, CallersForwardTheirOwn, NotHeardAhead, NotHeardBefore
<1>5. ListsHoldTheirType' /\ DriversCallApps'
  BY <1>1 DEF IInv, ListsHoldTheirType, DriversCallApps
<1>6. QED
  BY <1>3, <1>4, <1>5 DEF IInv

(***************************************************************************)
(* The theorems.                                                           *)
(***************************************************************************)

\* Nothing is loaded or sent.
LEMMA InitIInv == Init => IInv
<1> SUFFICES ASSUME Init
             PROVE  IInv
  OBVIOUS
<1>1. /\ call \in [Threads -> Call] /\ \A t \in Threads : call[t].pc = "idle"
      /\ lists \in [Kinds -> [by : Threads \cup {"NULL"}, nodes : SUBSET Places]]
      /\ \A k \in Kinds : lists[k].nodes = {}
      /\ sent = <<>> /\ proc = "up" /\ loaded = 0
      /\ heard \in [Nodes -> [Ids -> Nat]]
      /\ \A n \in Nodes, i \in Ids : heard[n][i] = 0
  BY NoCallShape DEF Init
<1>2. 0 \in 0 .. Len(Rows)
  BY RowsAssumption
<1>3. TypeOK
  BY <1>1, <1>2 DEF TypeOK
<1>4. HeardOnce /\ CallersForwardTheirOwn /\ NotHeardAhead /\ NotHeardBefore
  BY <1>1 DEF HeardOnce, CallersForwardTheirOwn, NotHeardAhead, NotHeardBefore
<1>5. ListsHoldTheirType /\ DriversCallApps
  BY <1>1, Parts DEF ListsHoldTheirType, DriversCallApps
<1>6. QED
  BY <1>3, <1>4, <1>5 DEF IInv

\* Every step of every thread preserves the invariant.
LEMMA NextKeepsIInv == IInv /\ [Next]_vars => IInv'
<1> SUFFICES ASSUME IInv, [Next]_vars
             PROVE  IInv'
  OBVIOUS
<1>1. CASE Load
  BY <1>1, LoadKeepsIInv
<1>2. CASE \E n \in Nodes : Arrive("node", n)
  <2>1. "node" \in FromBroker
    BY DEF FromBroker
  <2>2. QED
    BY <1>2, <2>1, ArriveKeepsIInv
<1>3. CASE \E k \in FromBroker \ {"node"} : Arrive(k, Broker)
  BY <1>3, ArriveKeepsIInv
<1>4. CASE \E n \in Nodes, k \in FromPlugin : Send(n, k)
  BY <1>4, SendKeepsIInv
<1>5. CASE \E t \in Threads : Forwarding(t)
  BY <1>5, CallRowKeepsIInv, LookKeepsIInv, FillKeepsIInv, AssignKeepsIInv,
     IterateKeepsIInv, CallEachKeepsIInv DEF Forwarding
<1>6. CASE UNCHANGED vars
  <2>1. UNCHANGED <<proc, loaded, lists, call, sent, heard>>
    BY <1>6 DEF vars
  <2>2. TypeOK' /\ HeardOnce' /\ CallersForwardTheirOwn' /\ NotHeardAhead'
    BY <2>1 DEF IInv, TypeOK, HeardOnce, CallersForwardTheirOwn, NotHeardAhead
  <2>3. NotHeardBefore' /\ ListsHoldTheirType' /\ DriversCallApps'
    BY <2>1 DEF IInv, NotHeardBefore, ListsHoldTheirType, DriversCallApps
  <2>4. QED
    BY <2>2, <2>3 DEF IInv
<1>7. QED
  BY <1>1, <1>2, <1>3, <1>4, <1>5, <1>6 DEF Next

\* The inductive invariant holds in every state: a message is forwarded by the
\* thread it came from alone, and those it is yet to be forwarded to have not
\* heard it.
THEOREM Invariance == Spec => []IInv
<1>1. QED
  BY InitIInv, NextKeepsIInv, PTL DEF Spec

\* Every variable has its type, and a caller has a node left to call.
THEOREM TypeCorrect == Spec => []TypeOK
<1>1. IInv => TypeOK
  BY DEF IInv
<1>2. QED
  BY <1>1, Invariance, PTL

\* No plugin is called twice with one message, and no driver with its own,
\* whichever threads forward and fill the static lists at once
\* (messageArrived5, thing_model_msg_arrived, forward_thing_model_msg_to_*).
THEOREM NothingIsHeardTwice == Spec => []HeardOnce
<1>1. IInv => HeardOnce
  BY DEF IInv
<1>2. QED
  BY <1>1, Invariance, PTL
=============================================================================
