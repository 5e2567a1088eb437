-------------------------- MODULE NodeReloadProofs --------------------------
(***************************************************************************)
(* Proofs about NodeReload, for any set of rows and any bounds.            *)
(***************************************************************************)
EXTENDS NodeReload, TLAPS

USE NodesAssumption

\* The start of the process (Init) satisfies the inductive invariant.
LEMMA InitIInv == Init => IInv
<1>1. SUFFICES ASSUME Init PROVE IInv
  OBVIOUS
<1>2. TypeOK
  BY <1>1 DEF Init, TypeOK, Procs, NoNode, NoMsg, NoAnswer, Versions, States, Kinds, Loader, Handler, Answer
<1>3. Ordered /\ Progressed
  BY <1>1 DEF Init, Ordered, Progressed, NoMsg
<1>4. AckedIsApplied /\ SettingIsAccepted /\ MatterStopsFirst
  BY <1>1 DEF Init, AckedIsApplied, SettingIsAccepted, MatterStopsFirst, NoMsg, NoAnswer
<1>5. QED
  BY <1>2, <1>3, <1>4 DEF IInv

\* The inductive invariant is preserved by Configure.
LEMMA ConfigureIInv ==
      ASSUME NEW n \in Nodes, Configure(n), IInv
      PROVE  IInv'
<1> USE DEF IInv
<1>1. TypeOK'
  BY DEF Configure, TypeOK, Versions
<1>2. Ordered'
  <2>1. \A x \in Nodes : db'[x] \in Int /\ db[x] \in Int /\ db[x] <= db'[x]
    BY DEF Configure, TypeOK, Versions
  <2>2. /\ UNCHANGED <<queue, mq, setting, accepted, todo>>
        /\ setting \in [Nodes -> Int] /\ accepted \in [Nodes -> Int]
        /\ \A i \in 1 .. Len(queue) : queue[i].ver \in Int
        /\ mq.ver \in Int /\ (mq.pc # "idle" => mq.node \in Nodes)
        /\ todo \subseteq Nodes
    <3>1. UNCHANGED <<queue, mq, setting, accepted, todo>>
      BY DEF Configure
    <3>2. setting \in [Nodes -> Int] /\ accepted \in [Nodes -> Int] /\ todo \subseteq Nodes
      BY DEF TypeOK, Versions
    <3>3. \A i \in 1 .. Len(queue) : queue[i] \in Message
      BY DEF TypeOK
    <3>4. \A i \in 1 .. Len(queue) : queue[i].ver \in Int
      BY <3>3 DEF Message, Versions
    <3>5. mq.ver \in Int /\ (mq.pc # "idle" => mq.node \in Nodes)
      BY DEF TypeOK, Handler, Versions
    <3>6. QED
      BY <3>1, <3>2, <3>4, <3>5
  <2>3. \A i \in 1 .. Len(queue)' :
           queue'[i].node \in Nodes => queue'[i].ver <= db'[queue'[i].node]
    BY <2>1, <2>2 DEF Ordered
  <2>4. mq'.pc # "idle" => mq'.ver <= db'[mq'.node]
    BY <2>1, <2>2 DEF Ordered
  <2>5. \A x \in Nodes : setting'[x] <= db'[x] /\ accepted'[x] <= db'[x]
    BY <2>1, <2>2 DEF Ordered
  <2>6. \A x \in todo' : setting'[x] = 0 /\ accepted'[x] = 0
    BY <2>2 DEF Ordered
  <2>7. QED
    BY <2>3, <2>4, <2>5, <2>6 DEF Ordered
<1>3. Progressed'
  BY DEF Configure, TypeOK, Ordered, Progressed, Versions, Message, Handler, NoMsg, NoNode
<1>4. AckedIsApplied' /\ SettingIsAccepted'
  BY DEF Configure, TypeOK, Ordered, Progressed, AckedIsApplied, SettingIsAccepted,
         Versions, Message, Handler, Answer, NoMsg, NoNode
<1>5. MatterStopsFirst'
  BY DEF Configure, TypeOK, Progressed, MatterStopsFirst, Message, Handler, NoMsg, NoNode
<1>6. QED
  BY <1>1, <1>2, <1>3, <1>4, <1>5

\* The inductive invariant is preserved by Push.
LEMMA PushIInv ==
      ASSUME NEW k \in Kinds, NEW n \in Nodes \cup {UnknownNode}, Push(k, n), IInv
      PROVE  IInv'
<1> USE DEF IInv
<1>1. TypeOK'
  BY DEF Push, TypeOK, Message, Versions
<1>2. Ordered'
  BY DEF Push, TypeOK, Ordered, Versions, Message, NoMsg, NoNode
<1>3. Progressed'
  BY DEF Push, TypeOK, Ordered, Progressed, Versions, Message, Handler, NoMsg, NoNode
<1>4. AckedIsApplied' /\ SettingIsAccepted'
  BY DEF Push, TypeOK, Ordered, Progressed, AckedIsApplied, SettingIsAccepted,
         Versions, Message, Handler, Answer, NoMsg, NoNode
<1>5. MatterStopsFirst'
  BY DEF Push, TypeOK, Progressed, MatterStopsFirst, Message, Handler, NoMsg, NoNode
<1>6. QED
  BY <1>1, <1>2, <1>3, <1>4, <1>5

\* The inductive invariant is preserved by Vanish.
LEMMA VanishIInv ==
      ASSUME NEW c \in Procs, Vanish(c), IInv
      PROVE  IInv'
<1> USE DEF IInv
<1>1. TypeOK'
  BY DEF Vanish, TypeOK, Versions, States, Kinds, Loader, Handler, Answer, NoNode, NoMsg, NoAnswer
<1>2. Ordered'
  BY DEF Vanish, TypeOK, Ordered, Versions, Message, NoMsg, NoNode, NoAnswer
<1>3. Progressed'
  BY DEF Vanish, TypeOK, Ordered, Progressed, Versions, Message, Handler, NoMsg, NoNode, NoAnswer
<1>4. AckedIsApplied' /\ SettingIsAccepted'
  BY DEF Vanish, TypeOK, Ordered, Progressed, AckedIsApplied, SettingIsAccepted,
         Versions, Message, Handler, Answer, NoMsg, NoNode, NoAnswer
<1>5. MatterStopsFirst'
  BY DEF Vanish, TypeOK, Progressed, MatterStopsFirst, Message, Handler, NoMsg, NoNode, NoAnswer
<1>6. QED
  BY <1>1, <1>2, <1>3, <1>4, <1>5

\* The inductive invariant is preserved by Restart.
LEMMA RestartIInv ==
      ASSUME Restart, IInv
      PROVE  IInv'
<1> USE DEF IInv
<1>1. TypeOK'
  BY DEF Restart, TypeOK, Procs
<1>2. Ordered'
  BY DEF Restart, TypeOK, Ordered, Versions, Message, NoMsg, NoNode
<1>3. Progressed'
  BY DEF Restart, TypeOK, Ordered, Progressed, Versions, Message, Handler, NoMsg, NoNode
<1>4. AckedIsApplied' /\ SettingIsAccepted'
  BY DEF Restart, TypeOK, Ordered, Progressed, AckedIsApplied, SettingIsAccepted,
         Versions, Message, Handler, Answer, NoMsg, NoNode
<1>5. MatterStopsFirst'
  BY DEF Restart, TypeOK, Progressed, MatterStopsFirst, Message, Handler, NoMsg, NoNode
<1>6. QED
  BY <1>1, <1>2, <1>3, <1>4, <1>5

\* The inductive invariant is preserved by SkipNode.
LEMMA SkipNodeIInv ==
      ASSUME NEW n \in Nodes, SkipNode(n), IInv
      PROVE  IInv'
<1> USE DEF IInv
<1>1. TypeOK'
  BY DEF SkipNode, TypeOK, NoNode
<1>2. Ordered'
  BY DEF SkipNode, TypeOK, Ordered, Versions, Message, NoMsg, NoNode
<1>3. Progressed'
  BY DEF SkipNode, TypeOK, Ordered, Progressed, Versions, Message, Handler, NoMsg, NoNode
<1>4. AckedIsApplied' /\ SettingIsAccepted'
  BY DEF SkipNode, TypeOK, Ordered, Progressed, AckedIsApplied, SettingIsAccepted,
         Versions, Message, Handler, Answer, NoMsg, NoNode
<1>5. MatterStopsFirst'
  BY DEF SkipNode, TypeOK, Progressed, MatterStopsFirst, Message, Handler, NoMsg, NoNode
<1>6. QED
  BY <1>1, <1>2, <1>3, <1>4, <1>5

\* The inductive invariant is preserved by CreateAdapter.
LEMMA CreateAdapterIInv ==
      ASSUME NEW n \in Nodes, NEW loaded \in BOOLEAN, NEW valid \in BOOLEAN,
             CreateAdapter(n, loaded, valid), IInv
      PROVE  IInv'
<1> USE DEF IInv
<1>1. TypeOK'
  BY DEF CreateAdapter, TypeOK, States, Loader
<1>2. Ordered'
  <2>1. CASE loaded /\ valid
    <3>1. \A x \in Nodes : /\ setting'[x] \in {setting[x], db[x]}
                           /\ accepted'[x] \in {accepted[x], db[x]}
      BY <2>1 DEF CreateAdapter, TypeOK
    <3>2. \A x \in todo' : setting'[x] = setting[x] /\ accepted'[x] = accepted[x]
      BY <2>1 DEF CreateAdapter, TypeOK
    <3>3. UNCHANGED <<db, queue, mq>> /\ todo' \subseteq todo /\ db \in [Nodes -> Int]
      BY DEF CreateAdapter, TypeOK, Versions
    <3>4. QED
      BY <3>1, <3>2, <3>3 DEF Ordered
  <2>2. CASE ~(loaded /\ valid)
    BY <2>2 DEF CreateAdapter, TypeOK, Ordered
  <2>3. QED
    BY <2>1, <2>2
<1>3. Progressed'
  BY DEF CreateAdapter, TypeOK, Ordered, Progressed, Versions, Message, Handler, NoMsg, NoNode
<1>4. AckedIsApplied' /\ SettingIsAccepted'
  <2>1. CASE loaded /\ valid
    <3>1. /\ accepted[n] = 0 /\ db[n] \in Nat
          /\ accepted' = [accepted EXCEPT ![n] = db[n]]
          /\ setting'  = [setting EXCEPT ![n] = db[n]]
          /\ UNCHANGED <<mq, answer, running>>
      BY <2>1 DEF CreateAdapter, TypeOK, Ordered, Versions
    <3>2. /\ accepted \in [Nodes -> Nat] /\ setting \in [Nodes -> Nat]
          /\ answer.ver \in Nat
      BY DEF TypeOK, Versions, Answer
    <3>3. \A x \in Nodes : accepted'[x] >= accepted[x]
      BY <3>1, <3>2
    <3>4. AckedIsApplied'
      <4>1. SUFFICES ASSUME answer.kind = "control", answer.result = 0
                     PROVE  accepted'[answer.node] >= answer.ver
        BY <3>1, <4>1 DEF AckedIsApplied
      <4>2. answer.node \in Nodes
        BY <4>1 DEF TypeOK, Answer, NoAnswer
      <4>3. QED
        BY <3>1, <3>2, <3>3, <4>1, <4>2 DEF AckedIsApplied
    <3>5. SettingIsAccepted'
      BY <3>1, <3>2 DEF SettingIsAccepted
    <3>6. QED
      BY <3>4, <3>5
  <2>2. CASE ~(loaded /\ valid)
    BY <2>2 DEF CreateAdapter, AckedIsApplied, SettingIsAccepted
  <2>3. QED
    BY <2>1, <2>2
<1>5. MatterStopsFirst'
  BY DEF CreateAdapter, TypeOK, Progressed, MatterStopsFirst, Message, Handler, NoMsg, NoNode
<1>6. QED
  BY <1>1, <1>2, <1>3, <1>4, <1>5

\* The inductive invariant is preserved by Publish.
LEMMA PublishIInv ==
      ASSUME Publish, IInv
      PROVE  IInv'
<1> USE DEF IInv
<1>1. TypeOK'
  BY DEF Publish, TypeOK, Loader
<1>2. Ordered'
  BY DEF Publish, TypeOK, Ordered, Versions, Message, NoMsg, NoNode
<1>3. Progressed'
  BY DEF Publish, TypeOK, Ordered, Progressed, Versions, Message, Handler, NoMsg, NoNode
<1>4. AckedIsApplied' /\ SettingIsAccepted'
  BY DEF Publish, TypeOK, Ordered, Progressed, AckedIsApplied, SettingIsAccepted,
         Versions, Message, Handler, Answer, NoMsg, NoNode
<1>5. MatterStopsFirst'
  BY DEF Publish, TypeOK, Progressed, MatterStopsFirst, Message, Handler, NoMsg, NoNode
<1>6. QED
  BY <1>1, <1>2, <1>3, <1>4, <1>5

\* The inductive invariant is preserved by StartCheck.
LEMMA StartCheckIInv ==
      ASSUME StartCheck, IInv
      PROVE  IInv'
<1> USE DEF IInv
<1>1. TypeOK'
  BY DEF StartCheck, TypeOK, Loader, NoNode
<1>2. Ordered'
  BY DEF StartCheck, TypeOK, Ordered, Versions, Message, NoMsg, NoNode
<1>3. Progressed'
  BY DEF StartCheck, TypeOK, Ordered, Progressed, Versions, Message, Handler, NoMsg, NoNode
<1>4. AckedIsApplied' /\ SettingIsAccepted'
  BY DEF StartCheck, TypeOK, Ordered, Progressed, AckedIsApplied, SettingIsAccepted,
         Versions, Message, Handler, Answer, NoMsg, NoNode
<1>5. MatterStopsFirst'
  BY DEF StartCheck, TypeOK, Progressed, MatterStopsFirst, Message, Handler, NoMsg, NoNode
<1>6. QED
  BY <1>1, <1>2, <1>3, <1>4, <1>5

\* The inductive invariant is preserved by StartCall.
LEMMA StartCallIInv ==
      ASSUME NEW ok \in BOOLEAN, StartCall(ok), IInv
      PROVE  IInv'
<1> USE DEF IInv
<1>1. TypeOK'
  BY DEF StartCall, TypeOK, Loader, NoNode
<1>2. Ordered'
  BY DEF StartCall, TypeOK, Ordered, Versions, Message, NoMsg, NoNode
<1>3. Progressed'
  BY DEF StartCall, TypeOK, Ordered, Progressed, Versions, Message, Handler, NoMsg, NoNode
<1>4. AckedIsApplied' /\ SettingIsAccepted'
  BY DEF StartCall, TypeOK, Ordered, Progressed, AckedIsApplied, SettingIsAccepted,
         Versions, Message, Handler, Answer, NoMsg, NoNode
<1>5. MatterStopsFirst'
  BY DEF StartCall, TypeOK, Progressed, MatterStopsFirst, Message, Handler, NoMsg, NoNode
<1>6. QED
  BY <1>1, <1>2, <1>3, <1>4, <1>5

\* The inductive invariant is preserved by StartDone.
LEMMA StartDoneIInv ==
      ASSUME StartDone, IInv
      PROVE  IInv'
<1> USE DEF IInv
<1>1. TypeOK'
  BY DEF StartDone, TypeOK, States, Loader, NoNode
<1>2. Ordered'
  BY DEF StartDone, TypeOK, Ordered, Versions, Message, NoMsg, NoNode
<1>3. Progressed'
  BY DEF StartDone, TypeOK, Ordered, Progressed, Versions, Message, Handler, NoMsg, NoNode
<1>4. AckedIsApplied' /\ SettingIsAccepted'
  BY DEF StartDone, TypeOK, Ordered, Progressed, AckedIsApplied, SettingIsAccepted,
         Versions, Message, Handler, Answer, NoMsg, NoNode
<1>5. MatterStopsFirst'
  BY DEF StartDone, TypeOK, Progressed, MatterStopsFirst, Message, Handler, NoMsg, NoNode
<1>6. QED
  BY <1>1, <1>2, <1>3, <1>4, <1>5

\* The inductive invariant is preserved by HandleUnmanaged.
LEMMA HandleUnmanagedIInv ==
      ASSUME HandleUnmanaged, IInv
      PROVE  IInv'
<1> USE DEF IInv
<1>1. TypeOK'
  BY DEF HandleUnmanaged, Consume, TypeOK
<1>2. Ordered'
  BY SMTT(30) DEF HandleUnmanaged, Consume, TypeOK, Ordered, Versions, Message, NoMsg, NoNode
<1>3. Progressed'
  BY DEF HandleUnmanaged, Consume, TypeOK, Ordered, Progressed, Versions, Message, Handler, NoMsg, NoNode
<1>4. AckedIsApplied' /\ SettingIsAccepted'
  BY DEF HandleUnmanaged, Consume, TypeOK, Ordered, Progressed, AckedIsApplied, SettingIsAccepted,
         Versions, Message, Handler, Answer, NoMsg, NoNode
<1>5. MatterStopsFirst'
  BY DEF HandleUnmanaged, Consume, TypeOK, Progressed, MatterStopsFirst, Message, Handler, NoMsg, NoNode
<1>6. QED
  BY <1>1, <1>2, <1>3, <1>4, <1>5

\* The inductive invariant is preserved by Handle.
LEMMA HandleIInv ==
      ASSUME Handle, IInv
      PROVE  IInv'
<1> USE DEF IInv
<1>1. TypeOK'
  <2>1. Head(queue) \in Message /\ Tail(queue) \in Seq(Message)
    BY DEF Handle, Consume, TypeOK
  <2>2. mq' \in Handler
    BY <2>1 DEF Handle, FirstResult, Message, Handler, Kinds
  <2>3. mq'.node \in managed'
    BY DEF Handle
  <2>4. QED
    BY <2>1, <2>2, <2>3 DEF Handle, Consume, TypeOK
<1>2. Ordered'
  <2>1. /\ queue \in Seq(Message) /\ queue # <<>> /\ queue' = Tail(queue)
        /\ Head(queue) = queue[1] /\ Head(queue).node \in Nodes
        /\ UNCHANGED <<db, setting, accepted, todo>>
    BY DEF Handle, Consume, TypeOK
  <2>2. mq'.ver = Head(queue).ver /\ mq'.node = Head(queue).node
    BY DEF Handle
  <2>3. \A i \in 1 .. Len(queue') : i + 1 \in 1 .. Len(queue) /\ queue'[i] = queue[i + 1]
    BY <2>1
  <2>4. \A i \in 1 .. Len(queue') :
           queue'[i].node \in Nodes => queue'[i].ver <= db[queue'[i].node]
    BY <2>3 DEF Ordered
  <2>5. mq'.ver <= db[mq'.node]
    <3>1. 1 \in 1 .. Len(queue)
      BY <2>1
    <3>2. QED
      BY <2>1, <2>2, <3>1 DEF Ordered
  <2>6. QED
    BY <2>1, <2>4, <2>5 DEF Ordered
<1>3. Progressed'
  <2>1. /\ mq.pc = "idle" /\ mq'.pc = "stop" /\ UNCHANGED <<loader, accepted, running>>
        /\ mq'.result = FirstResult(mq'.kind)
        /\ mq'.settled = (loader.node # mq'.node)
    BY DEF Handle, Consume
  <2>2. FirstResult(mq.kind)' = FirstResult(mq'.kind)
    BY DEF FirstResult
  <2>3. QED
    BY <2>1, <2>2 DEF Progressed
<1>4. AckedIsApplied' /\ SettingIsAccepted'
  <2>1. /\ mq.pc = "idle" /\ mq'.pc = "stop"
        /\ UNCHANGED <<accepted, running, setting, answer>>
    BY DEF Handle, Consume
  <2>2. QED
    BY <2>1 DEF AckedIsApplied, SettingIsAccepted
<1>5. MatterStopsFirst'
  BY DEF Handle, Consume, FirstResult, TypeOK, Progressed, MatterStopsFirst, Message, Handler, NoMsg, NoNode
<1>6. QED
  BY <1>1, <1>2, <1>3, <1>4, <1>5

\* The inductive invariant is preserved by StopPlugin.
LEMMA StopPluginIInv ==
      ASSUME NEW ok \in BOOLEAN, StopPlugin(ok), IInv
      PROVE  IInv'
<1> USE DEF IInv
<1>1. TypeOK'
  <2>1. mq' \in Handler
    <3>1. NoMsg \in Handler
      BY DEF NoMsg, Handler, Kinds, Versions
    <3>2. [mq EXCEPT !.pc = "load"] \in Handler
      BY DEF TypeOK, Handler
    <3>3. QED
      BY <3>1, <3>2 DEF StopPlugin
  <2>2. running' \in [Nodes -> BOOLEAN]
    BY DEF StopPlugin, TypeOK
  <2>3. mq'.pc # "idle" => mq'.node \in managed'
    BY DEF StopPlugin, TypeOK, NoMsg, Handler
  <2>4. QED
    BY <2>1, <2>2, <2>3 DEF StopPlugin, TypeOK
<1>2. Ordered'
  BY DEF StopPlugin, TypeOK, Ordered, Versions, Message, NoMsg, NoNode
<1>3. Progressed'
  <2>1. mq' = NoMsg \/ mq' = [mq EXCEPT !.pc = "load"]
    BY DEF StopPlugin
  <2>2. QED
    BY <2>1 DEF StopPlugin, TypeOK, Progressed, Handler, NoMsg
<1>4. AckedIsApplied' /\ SettingIsAccepted'
  <2>1. /\ mq.pc = "stop" /\ mq.node \in Nodes
        /\ UNCHANGED <<accepted, setting, answer>>
        /\ running' = [running EXCEPT ![mq.node] = @ /\ ~ok]
        /\ running \in [Nodes -> BOOLEAN]
    BY DEF StopPlugin, TypeOK
  <2>2. \/ ~ok /\ mq' = NoMsg
        \/ mq'.node = mq.node /\ mq'.pc = "load"
    BY DEF StopPlugin, TypeOK, Handler
  <2>3. answer.kind = "control" /\ answer.result = 0 => answer.node \in Nodes
    BY DEF TypeOK, Answer, NoAnswer
  <2>4. SettingIsAccepted'
    BY <2>1, <2>2 DEF SettingIsAccepted, NoMsg
  <2>5. CASE ~ok
    <3>1. running' = running
      BY <2>1, <2>5
    <3>2. QED
      BY <2>1, <2>4, <3>1 DEF AckedIsApplied
  <2>6. CASE ok
    <3>1. /\ mq'.node = mq.node /\ mq'.pc = "load"
          /\ \A x \in Nodes \ {mq.node} : running'[x] = running[x]
      BY <2>1, <2>2, <2>6
    <3>2. AckedIsApplied'
      BY <2>1, <2>3, <3>1 DEF AckedIsApplied
    <3>3. QED
      BY <2>4, <3>2
  <2>7. QED
    BY <2>5, <2>6
<1>5. MatterStopsFirst'
  BY DEF StopPlugin, TypeOK, Progressed, MatterStopsFirst, Message, Handler, NoMsg, NoNode
<1>6. QED
  BY <1>1, <1>2, <1>3, <1>4, <1>5

\* The inductive invariant is preserved by LoadConfig.
LEMMA LoadConfigIInv ==
      ASSUME NEW ok \in BOOLEAN, LoadConfig(ok), IInv
      PROVE  IInv'
<1> USE DEF IInv
<1>1. TypeOK'
  BY DEF LoadConfig, TypeOK, Handler
<1>2. Ordered'
  BY DEF LoadConfig, TypeOK, Ordered, Versions, Message, NoMsg, NoNode
<1>3. Progressed'
  <2>1. /\ mq.node \in Nodes /\ mq.ver <= db[mq.node] /\ mq.result = FirstResult(mq.kind)
        /\ accepted[mq.node] <= db[mq.node]
        /\ UNCHANGED <<accepted, loader>>
    BY DEF LoadConfig, TypeOK, Ordered, Progressed
  <2>2. mq' = [mq EXCEPT !.pc = IF ok THEN "apply" ELSE "restart"]
    BY DEF LoadConfig
  <2>3. /\ mq'.node = mq.node /\ mq'.ver = mq.ver /\ mq'.kind = mq.kind
        /\ mq'.result = mq.result /\ mq'.settled = mq.settled
        /\ mq'.pc = IF ok THEN "apply" ELSE "restart"
    BY <2>2 DEF TypeOK, Handler
  <2>4. ok => setting'[mq.node] = db[mq.node]
    BY <2>1 DEF LoadConfig, TypeOK
  <2>5. mq.settled => loader.node # mq.node
    BY DEF LoadConfig, Progressed
  <2>6. FirstResult("control") # 0
    BY DEF FirstResult
  <2>7. QED
    BY <2>1, <2>3, <2>4, <2>5, <2>6 DEF Progressed
<1>4. AckedIsApplied' /\ SettingIsAccepted'
  BY DEF LoadConfig, TypeOK, Ordered, Progressed, AckedIsApplied, SettingIsAccepted,
         Versions, Message, Handler, Answer, NoMsg, NoNode
<1>5. MatterStopsFirst'
  BY DEF LoadConfig, TypeOK, Progressed, MatterStopsFirst, Message, Handler, NoMsg, NoNode
<1>6. QED
  BY <1>1, <1>2, <1>3, <1>4, <1>5

\* The inductive invariant is preserved by ApplyConfig.
LEMMA ApplyConfigIInv ==
      ASSUME NEW ok \in BOOLEAN, ApplyConfig(ok), IInv
      PROVE  IInv'
<1> USE DEF IInv
<1>1. TypeOK'
  <2>1. mq' \in Handler /\ mq'.node = mq.node /\ mq'.pc = "restart"
    BY ZenonT(60) DEF ApplyConfig, TypeOK, Handler
  <2>2. mq.node \in managed
    BY DEF ApplyConfig, TypeOK
  <2>3. /\ accepted' \in [Nodes -> Versions] /\ setting' \in [Nodes -> Versions]
        /\ state' \in [Nodes -> States]
    <3>1. 0 \in Versions /\ "READY" \in States /\ setting[mq.node] \in Versions
      BY <2>2 DEF TypeOK, States, Versions
    <3>2. CASE ok
      BY <3>1, <3>2 DEF ApplyConfig, TypeOK
    <3>3. CASE ~ok
      BY <3>1, <3>3 DEF ApplyConfig, TypeOK
    <3>4. QED
      BY <3>2, <3>3
  <2>4. QED
    BY <2>1, <2>2, <2>3 DEF ApplyConfig, TypeOK
<1>2. Ordered'
  <2>1. mq.node \in managed /\ mq.node \in Nodes \ todo
    BY DEF ApplyConfig, TypeOK
  <2>2. UNCHANGED <<db, queue, todo>> /\ mq'.ver = mq.ver /\ mq'.node = mq.node
    BY DEF ApplyConfig, TypeOK, Handler
  <2>3. \A x \in Nodes : /\ setting'[x] \in {setting[x], 0}
                         /\ accepted'[x] \in {setting[x], accepted[x]}
                         /\ db[x] \in Nat
    BY <2>1 DEF ApplyConfig, TypeOK, Versions
  <2>4. \A x \in todo : setting'[x] = setting[x] /\ accepted'[x] = accepted[x]
    BY <2>1 DEF ApplyConfig, TypeOK
  <2>5. mq.pc # "idle"
    BY DEF ApplyConfig
  <2>6. \A x \in Nodes : setting'[x] <= db[x] /\ accepted'[x] <= db[x]
    BY <2>3 DEF Ordered
  <2>7. QED
    BY <2>2, <2>4, <2>5, <2>6 DEF Ordered
<1>3. Progressed'
  <2>1. /\ mq'.pc = "restart" /\ mq'.ver = mq.ver /\ mq'.node = mq.node
        /\ mq'.kind = mq.kind /\ mq'.settled = mq.settled
        /\ mq'.result = IF ok THEN 0 ELSE mq.result
    BY ZenonT(60) DEF ApplyConfig, TypeOK, Handler
  <2>2. /\ mq.ver <= setting[mq.node] /\ mq.result = FirstResult(mq.kind)
        /\ (mq.settled => loader.node # mq.node) /\ UNCHANGED loader
    BY DEF ApplyConfig, Progressed
  <2>3. ok => accepted'[mq.node] = setting[mq.node]
    BY DEF ApplyConfig, TypeOK
  <2>4. FirstResult("control") # 0
    BY DEF FirstResult
  <2>5. QED
    BY <2>1, <2>2, <2>3, <2>4 DEF Progressed
<1>4. AckedIsApplied' /\ SettingIsAccepted'
  <2>1. /\ mq.node \in Nodes /\ mq.pc = "apply" /\ UNCHANGED <<answer, running>>
        /\ accepted[mq.node] <= setting[mq.node]
        /\ mq'.pc = "restart" /\ mq'.node = mq.node
    BY ZenonT(60) DEF ApplyConfig, TypeOK, Progressed, Handler
  <2>2. /\ accepted \in [Nodes -> Nat] /\ setting \in [Nodes -> Nat]
        /\ answer.ver \in Nat
    BY DEF TypeOK, Versions, Answer
  <2>3. CASE ok
    <3>1. /\ accepted' = [accepted EXCEPT ![mq.node] = setting[mq.node]]
          /\ setting' = setting
      BY <2>3 DEF ApplyConfig
    <3>2. answer.kind = "control" /\ answer.result = 0 => answer.node \in Nodes
      BY DEF TypeOK, Answer, NoAnswer
    <3>3. AckedIsApplied'
      BY <2>1, <2>2, <3>1, <3>2 DEF AckedIsApplied
    <3>4. SettingIsAccepted'
      BY <2>1, <2>2, <3>1 DEF SettingIsAccepted
    <3>5. QED
      BY <3>3, <3>4
  <2>4. CASE ~ok
    BY <2>1, <2>2, <2>4 DEF ApplyConfig, AckedIsApplied, SettingIsAccepted
  <2>5. QED
    BY <2>3, <2>4
<1>5. MatterStopsFirst'
  BY ZenonT(60) DEF ApplyConfig, TypeOK, Progressed, MatterStopsFirst, Message, Handler, NoMsg, NoNode
<1>6. QED
  BY <1>1, <1>2, <1>3, <1>4, <1>5

\* The inductive invariant is preserved by RestartPlugin.
LEMMA RestartPluginIInv ==
      ASSUME NEW ok \in BOOLEAN, RestartPlugin(ok), IInv
      PROVE  IInv'
<1> USE DEF IInv
<1>1. TypeOK'
  BY DEF RestartPlugin, TypeOK, Handler
<1>2. Ordered'
  BY DEF RestartPlugin, TypeOK, Ordered, Versions, Message, NoMsg, NoNode
<1>3. Progressed'
  BY DEF RestartPlugin, TypeOK, Ordered, Progressed, Versions, Message, Handler, NoMsg, NoNode
<1>4. AckedIsApplied' /\ SettingIsAccepted'
  <2>1. /\ mq.pc = "restart" /\ mq'.pc = "reply" /\ mq'.node = mq.node
        /\ UNCHANGED <<accepted, setting, answer>>
        /\ \A x \in Nodes \ {mq.node} : running'[x] = running[x]
    BY DEF RestartPlugin, TypeOK, Handler
  <2>2. answer.kind = "control" /\ answer.result = 0 => answer.node \in Nodes
    BY DEF TypeOK, Answer, NoAnswer
  <2>3. QED
    BY <2>1, <2>2 DEF AckedIsApplied, SettingIsAccepted
<1>5. MatterStopsFirst'
  BY DEF RestartPlugin, TypeOK, Progressed, MatterStopsFirst, Message, Handler, NoMsg, NoNode
<1>6. QED
  BY <1>1, <1>2, <1>3, <1>4, <1>5

\* The inductive invariant is preserved by Reply.
LEMMA ReplyIInv ==
      ASSUME Reply, IInv
      PROVE  IInv'
<1> USE DEF IInv
<1>1. TypeOK'
  BY DEF Reply, TypeOK, Handler, Answer, NoMsg, NoAnswer, Kinds, Versions
<1>2. Ordered'
  BY DEF Reply, TypeOK, Ordered, Versions, Message, NoMsg, NoNode
<1>3. Progressed'
  BY DEF Reply, TypeOK, Ordered, Progressed, Versions, Message, Handler, NoMsg, NoNode
<1>4. AckedIsApplied' /\ SettingIsAccepted'
  BY DEF Reply, TypeOK, Ordered, Progressed, AckedIsApplied, SettingIsAccepted,
         Versions, Message, Handler, Answer, NoMsg, NoNode
<1>5. MatterStopsFirst'
  BY DEF Reply, TypeOK, Progressed, MatterStopsFirst, Message, Handler, NoMsg, NoNode
<1>6. QED
  BY <1>1, <1>2, <1>3, <1>4, <1>5

\* Every step of the system preserves the inductive invariant.
LEMMA NextIInv == IInv /\ [Next]_vars => IInv'
<1>1. SUFFICES ASSUME IInv, [Next]_vars PROVE IInv'
  OBVIOUS
<1>2. CASE Environment
  BY <1>1, <1>2, ConfigureIInv, PushIInv, VanishIInv, RestartIInv
     DEF Environment, Killed, Procs
<1>3. CASE MainThread
  BY <1>1, <1>3, SkipNodeIInv, CreateAdapterIInv, VanishIInv, PublishIInv,
     StartCheckIInv, StartCallIInv, StartDoneIInv
     DEF MainThread, CreateFails, Procs
<1>4. CASE MqttThread
  BY <1>1, <1>4, VanishIInv, HandleUnmanagedIInv, HandleIInv, StopPluginIInv,
     LoadConfigIInv, ApplyConfigIInv, RestartPluginIInv, ReplyIInv
     DEF MqttThread, HandleUnknown, Procs
<1>5. CASE UNCHANGED vars
  BY <1>1, <1>5 DEF vars, IInv, TypeOK, Ordered, Progressed, AckedIsApplied,
     SettingIsAccepted, MatterStopsFirst
<1>6. QED
  BY <1>1, <1>2, <1>3, <1>4, <1>5 DEF Next

\* The inductive invariant holds in every reachable state.
THEOREM Invariance == Spec => []IInv
<1>1. QED
  BY InitIInv, NextIInv, PTL DEF Spec

\* neu_adapter_create, the loader's and the handler's assignments keep every
\* variable in its type, and the handler on nodes the node manager knows.
THEOREM TypeCorrect == Spec => []TypeOK
<1>1. IInv => TypeOK
  BY DEF IInv
<1>2. QED
  BY <1>1, Invariance, PTL

\* send_config_plugin_results answers 0 only for a configuration the plugin
\* has accepted and that is no older than the push; and a plugin whose start()
\* succeeded then runs on it until a later message stops it.
THEOREM ControlAckIsApplied == Spec => []AckedIsApplied
<1>1. IInv => AckedIsApplied
  BY DEF IInv
<1>2. QED
  BY <1>1, Invariance, PTL

\* adapter->setting never keeps a configuration the plugin refused.
THEOREM SettingAccepted == Spec => []SettingIsAccepted
<1>1. IInv => SettingIsAccepted
  BY DEF IInv
<1>2. QED
  BY <1>1, Invariance, PTL

\* The matter reload reconfigures and starts a stopped plugin only.
THEOREM MatterReloadIsClean == Spec => []MatterStopsFirst
<1>1. IInv => MatterStopsFirst
  BY DEF IInv
<1>2. QED
  BY <1>1, Invariance, PTL

-----------------------------------------------------------------------------
\* The mapped variables when nothing the abstract specification sees changes.
LEMMA DeliveryStutters ==
  ASSUME UNCHANGED <<db, accepted, answer>>
  PROVE  [Delivery!Next]_(Delivery!vars)
BY DEF Delivery!vars

\* The end of the process forgets what was accepted and answered.
LEMMA VanishIsExit ==
  ASSUME NEW c \in Procs, Vanish(c)
  PROVE  [Delivery!Next]_(Delivery!vars)
<1>1. Delivery!Exit
  BY DEF Vanish, Delivery!Exit, Delivery!NoAck, NoAnswer
<1>2. QED
  BY <1>1 DEF Delivery!Next

\* A plugin that accepts a configuration at start-up moves forward.
LEMMA CreateIsApply ==
  ASSUME IInv, NEW n \in Nodes, NEW loaded \in BOOLEAN, NEW valid \in BOOLEAN,
         CreateAdapter(n, loaded, valid)
  PROVE  [Delivery!Next]_(Delivery!vars)
<1>1. CASE loaded /\ valid
  <2>1. accepted' = [accepted EXCEPT ![n] = db[n]] /\ UNCHANGED <<db, answer>>
    BY <1>1 DEF CreateAdapter
  <2>2. db[n] \in accepted[n] .. db[n]
    BY DEF IInv, TypeOK, Ordered, Versions
  <2>3. Delivery!Apply(n)
    BY <2>1, <2>2 DEF Delivery!Apply
  <2>4. QED
    BY <2>3 DEF Delivery!Next
<1>2. CASE ~(loaded /\ valid)
  BY <1>2, DeliveryStutters DEF CreateAdapter
<1>3. QED
  BY <1>1, <1>2

\* A plugin that accepts a reloaded configuration moves forward.
LEMMA ApplyConfigIsApply ==
  ASSUME IInv, NEW ok \in BOOLEAN, ApplyConfig(ok)
  PROVE  [Delivery!Next]_(Delivery!vars)
<1>1. CASE ok
  <2>1. /\ accepted' = [accepted EXCEPT ![mq.node] = setting[mq.node]]
        /\ UNCHANGED <<db, answer>>
    BY <1>1 DEF ApplyConfig
  <2>2. mq.node \in Nodes
    BY DEF ApplyConfig, IInv, TypeOK
  <2>3. setting[mq.node] \in accepted[mq.node] .. db[mq.node]
    BY <2>2 DEF ApplyConfig, IInv, TypeOK, Ordered, Progressed, Versions
  <2>4. Delivery!Apply(mq.node)
    BY <2>1, <2>3 DEF Delivery!Apply
  <2>5. QED
    BY <2>2, <2>4 DEF Delivery!Next
<1>2. CASE ~ok
  BY <1>2, DeliveryStutters DEF ApplyConfig
<1>3. QED
  BY <1>1, <1>2

\* An answer to a control push is an Ack of what it says, any other a Nack.
LEMMA ReplyIsAck ==
  ASSUME IInv, Reply
  PROVE  [Delivery!Next]_(Delivery!vars)
<1>1. /\ answer' = [kind |-> mq.kind, node |-> mq.node, ver |-> mq.ver,
                    result |-> mq.result, started |-> mq.started]
      /\ UNCHANGED <<db, accepted>>
  BY DEF Reply
<1>2. mq.node \in Nodes /\ mq.ver \in 0 .. MaxVersion
  BY DEF Reply, IInv, TypeOK, Handler, Versions
<1>3. CASE mq.kind = "control" /\ mq.result = 0
  <2>1. mq.ver <= accepted[mq.node]
    BY <1>3 DEF Reply, IInv, Progressed
  <2>2. Delivery!Ack(mq.node, mq.ver)
    BY <1>1, <1>3, <2>1 DEF Delivery!Ack
  <2>3. QED
    BY <1>2, <2>2 DEF Delivery!Next
<1>4. CASE ~(mq.kind = "control" /\ mq.result = 0)
  <2>1. Delivery!Nack
    BY <1>1, <1>4 DEF Delivery!Nack, Delivery!NoAck
  <2>2. QED
    BY <2>1 DEF Delivery!Next
<1>5. QED
  BY <1>3, <1>4

\* Every step of NodeReload is a step of ConfigDelivery or leaves it alone.
LEMMA NextIsDelivery == IInv /\ [Next]_vars => [Delivery!Next]_(Delivery!vars)
<1>1. SUFFICES ASSUME IInv, [Next]_vars PROVE [Delivery!Next]_(Delivery!vars)
  OBVIOUS
<1>2. ASSUME NEW n \in Nodes, Configure(n) PROVE [Delivery!Next]_(Delivery!vars)
  <2>1. Delivery!Store(n)
    BY <1>2 DEF Configure, Delivery!Store
  <2>2. QED
    BY <2>1 DEF Delivery!Next
<1>3. CASE Environment
  <2>1. ASSUME NEW k \in Kinds, NEW n \in Nodes \cup {UnknownNode}, Push(k, n)
        PROVE  [Delivery!Next]_(Delivery!vars)
    BY <2>1, DeliveryStutters DEF Push
  <2>2. ASSUME Restart PROVE [Delivery!Next]_(Delivery!vars)
    BY <2>2, DeliveryStutters DEF Restart
  <2>3. QED
    BY <1>2, <1>3, <2>1, <2>2, VanishIsExit DEF Environment, Killed, Procs
<1>4. CASE MainThread
  <2>1. ASSUME NEW n \in Nodes, SkipNode(n) PROVE [Delivery!Next]_(Delivery!vars)
    BY <2>1, DeliveryStutters DEF SkipNode
  <2>2. ASSUME Publish \/ StartCheck \/ StartDone \/ \E ok \in BOOLEAN : StartCall(ok)
        PROVE  [Delivery!Next]_(Delivery!vars)
    BY <2>2, DeliveryStutters DEF Publish, StartCheck, StartDone, StartCall
  <2>3. QED
    BY <1>1, <1>4, <2>1, <2>2, CreateIsApply, VanishIsExit DEF MainThread, CreateFails, Procs
<1>5. CASE MqttThread
  <2>1. ASSUME HandleUnmanaged \/ Handle PROVE [Delivery!Next]_(Delivery!vars)
    BY <2>1, DeliveryStutters DEF HandleUnmanaged, Handle
  <2>2. ASSUME NEW ok \in BOOLEAN, StopPlugin(ok) \/ LoadConfig(ok) \/ RestartPlugin(ok)
        PROVE  [Delivery!Next]_(Delivery!vars)
    BY <2>2, DeliveryStutters DEF StopPlugin, LoadConfig, RestartPlugin
  <2>3. QED
    BY <1>1, <1>5, <2>1, <2>2, ApplyConfigIsApply, ReplyIsAck, VanishIsExit
       DEF MqttThread, HandleUnknown, Procs
<1>6. CASE UNCHANGED vars
  BY <1>6, DeliveryStutters DEF vars
<1>7. QED
  BY <1>1, <1>3, <1>4, <1>5, <1>6 DEF Next

\* The two threads together keep the promise of ConfigDelivery: plugins only
\* move to newer configurations, and a control push is acknowledged only when
\* its configuration, or a newer one, is in effect.
THEOREM Refinement == Spec => ImplementsDelivery
<1>1. Init => Delivery!Init
  BY DEF Init, Delivery!Init, NoAnswer, Delivery!NoAck
<1>2. IInv /\ [Next]_vars => [Delivery!Next]_(Delivery!vars)
  BY NextIsDelivery
<1>3. QED
  BY <1>1, <1>2, Invariance, PTL DEF Spec, ImplementsDelivery, Delivery!Spec
=============================================================================
