----------------------------- MODULE NodeReload -----------------------------
(***************************************************************************)
(* Loading plugin nodes at start-up, and reloading their configuration on  *)
(* a push message, as two threads of the cpm process do it:                *)
(*                                                                         *)
(*   main thread   neu_manager_create -> esv_manager_load_normal_node ->   *)
(*                 neu_manager_add_node, one row of plugin_node at a time: *)
(*                 neu_adapter_create, neu_node_manager_add,               *)
(*                 neu_adapter_start;                                      *)
(*   mqtt thread   messageArrived5 -> forward_thing_control_msg_to_        *)
(*                 esvdriver ("control", a push that came over the WAN) or *)
(*                 forward_thing_model_matter_reload_msg_to_esvdriver      *)
(*                 ("matter", a push by a local app), one message at a     *)
(*                 time: stop the plugin, load the configuration, offer it *)
(*                 to the plugin, start the plugin, publish the result.    *)
(*                                                                         *)
(* The mqtt client is started before the first node is loaded, so the two  *)
(* threads overlap.  The table plugin_node is written by another process   *)
(* (Configure).  A configuration is abstracted to the number of times the  *)
(* row was written; 0 stands for the NULL pointer adapter->setting.        *)
(***************************************************************************)
EXTENDS Integers, Sequences

CONSTANTS
    Nodes,        \* the rows of table plugin_node
    NoPlugin,     \* the rows whose plugin library was not registered
    UnknownNode,  \* a pluginNodeId that no row of plugin_node has
    MaxVersion,   \* bound: how often a row is written
    MaxQueue      \* bound: messages the mqtt client holds for its callback

ASSUME NodesAssumption ==
    /\ NoPlugin \subseteq Nodes
    /\ UnknownNode \notin Nodes
    /\ MaxVersion \in Nat \ {0}
    /\ MaxQueue \in Nat \ {0}

VARIABLES
    db,        \* node -> version of plugin_node.node_config
    proc,      \* the process: up, or what ended it
    queue,     \* messages delivered to the mqtt client, not yet handled
    loader,    \* the main thread in neu_manager_add_node: [pc, node]
    todo,      \* rows esv_manager_load_normal_node has not reached
    managed,   \* nodes the node manager finds
    state,     \* node -> adapter->state
    setting,   \* node -> adapter->setting
    accepted,  \* node -> the configuration the plugin last accepted
    running,   \* node -> the plugin is between a start() and a stop() that succeeded
    mq,        \* the message the mqtt thread handles, and how far it is
    answer     \* the last pushReply published

vars == <<db, proc, queue, loader, todo, managed, state, setting, accepted,
          running, mq, answer>>

Kinds    == {"control", "matter"}
States   == {"INIT", "READY", "RUNNING", "STOPPED"}
Procs    == {"up", "killed", "init failed", "no such node"}
Versions == 0 .. MaxVersion
Message  == [kind : Kinds, node : Nodes \cup {UnknownNode}, ver : Versions]

Loader   == [pc : {"idle", "created", "published", "start", "started"},
             node : Nodes \cup {UnknownNode}]
Handler  == [pc : {"idle", "stop", "load", "apply", "restart", "reply"},
             kind : Kinds, node : Nodes \cup {UnknownNode}, ver : Versions,
             result : {0, 2}, settled : BOOLEAN, started : BOOLEAN]
Answer   == [kind : Kinds, node : Nodes \cup {UnknownNode}, ver : Versions,
             result : {0, 1, 2}, started : BOOLEAN]

up == proc = "up"

NoNode   == [pc |-> "idle", node |-> UnknownNode]
NoMsg    == [pc |-> "idle", kind |-> "control", node |-> UnknownNode,
             ver |-> 0, result |-> 0, settled |-> FALSE,
             started |-> FALSE]
NoAnswer == [kind |-> "control", node |-> UnknownNode, ver |-> 0, result |-> 1,
             started |-> FALSE]

-----------------------------------------------------------------------------
(* The process starts: nothing is loaded, the mqtt client is connected.    *)

Init ==
    /\ db       = [n \in Nodes |-> 1]
    /\ proc     = "up"
    /\ queue    = <<>>
    /\ loader   = NoNode
    /\ todo     = Nodes
    /\ managed  = {}
    /\ state    = [n \in Nodes |-> "INIT"]
    /\ setting  = [n \in Nodes |-> 0]
    /\ accepted = [n \in Nodes |-> 0]
    /\ running  = [n \in Nodes |-> FALSE]
    /\ mq       = NoMsg
    /\ answer   = NoAnswer

-----------------------------------------------------------------------------
(* The environment: the process that owns the database, and the publishers.*)

\* A local service writes the row's node_config.
Configure(n) ==
    /\ db[n] < MaxVersion
    /\ db' = [db EXCEPT ![n] = @ + 1]
    /\ UNCHANGED <<proc, queue, loader, todo, managed, state, setting, accepted,
                   running, mq, answer>>

\* A push naming node id n is delivered to the mqtt client.  ver remembers
\* the version that was in the database when the push was sent.
Push(k, n) ==
    /\ up
    /\ Len(queue) < MaxQueue
    /\ queue' = Append(queue, [kind |-> k, node |-> n,
                               ver |-> IF n \in Nodes THEN db[n] ELSE 0])
    /\ UNCHANGED <<db, proc, loader, todo, managed, state, setting, accepted,
                   running, mq, answer>>

\* What a process that is gone leaves: the rows, and nothing else.  The other
\* variables take the values the next process starts from.
Vanish(cause) ==
    /\ up
    /\ proc'     = cause
    /\ queue'    = <<>>
    /\ loader'   = NoNode
    /\ todo'     = Nodes
    /\ managed'  = {}
    /\ state'    = [n \in Nodes |-> "INIT"]
    /\ setting'  = [n \in Nodes |-> 0]
    /\ accepted' = [n \in Nodes |-> 0]
    /\ running'  = [n \in Nodes |-> FALSE]
    /\ mq'       = NoMsg
    /\ answer'   = NoAnswer
    /\ UNCHANGED db

\* SIGINT or SIGTERM: sig_handler closes the database and calls exit().
Killed == Vanish("killed")

\* The operator starts the process again.
Restart ==
    /\ ~up
    /\ proc' = "up"
    /\ UNCHANGED <<db, queue, loader, todo, managed, state, setting, accepted,
                   running, mq, answer>>

-----------------------------------------------------------------------------
(* The main thread.                                                        *)

\* Slip: the first row that cannot be added ends the loading.
SkipNodeEnds(n) ==
    /\ up /\ loader = NoNode
    /\ n \in todo \cap NoPlugin
    /\ todo' = {}
    /\ UNCHANGED <<db, proc, queue, loader, managed, state, setting, accepted,
                   running, mq, answer>>

\* neu_manager_add_node returns NEU_ERR_LIBRARY_NOT_FOUND: the row is skipped.
SkipNode(n) ==
    /\ up /\ loader = NoNode
    /\ n \in todo \cap NoPlugin
    /\ todo' = todo \ {n}
    /\ UNCHANGED <<db, proc, queue, loader, managed, state, setting, accepted,
                   running, mq, answer>>

\* neu_adapter_create: open, init, load the configuration and offer it to
\* the plugin.  A setting the plugin refuses is freed; the node stays INIT.
CreateAdapter(n, loaded, valid) ==
    /\ up /\ loader = NoNode
    /\ n \in todo \ NoPlugin
    /\ todo'   = todo \ {n}
    /\ loader' = [pc |-> "created", node |-> n]
    /\ IF loaded /\ valid
       THEN /\ setting'  = [setting EXCEPT ![n] = db[n]]
            /\ accepted' = [accepted EXCEPT ![n] = db[n]]
            /\ state'    = [state EXCEPT ![n] = "READY"]
       ELSE UNCHANGED <<setting, accepted, state>>
    /\ UNCHANGED <<db, proc, queue, managed, running, mq, answer>>

\* init() failed: neu_adapter_create destroys the adapter and returns NULL,
\* and neu_manager_add_node reads adapter->name before it tests for NULL.
CreateFails(n) ==
    /\ up /\ loader = NoNode
    /\ n \in todo \ NoPlugin
    /\ Vanish("init failed")

\* neu_node_manager_add: from here on the mqtt thread finds the node.
Publish ==
    /\ up /\ loader.pc = "created"
    /\ managed' = managed \cup {loader.node}
    /\ loader'  = [loader EXCEPT !.pc = "published"]
    /\ UNCHANGED <<db, proc, queue, todo, state, setting, accepted, running, mq,
                   answer>>

\* neu_adapter_start, the switch over adapter->state.
StartCheck ==
    /\ up /\ loader.pc = "published"
    /\ loader' = IF state[loader.node] \in {"READY", "STOPPED"}
                 THEN [loader EXCEPT !.pc = "start"]
                 ELSE NoNode
    /\ UNCHANGED <<db, proc, queue, todo, managed, state, setting, accepted,
                   running, mq, answer>>

\* ... the call of the plugin's start() ...
StartCall(ok) ==
    /\ up /\ loader.pc = "start"
    /\ loader'  = IF ok THEN [loader EXCEPT !.pc = "started"] ELSE NoNode
    /\ running' = [running EXCEPT ![loader.node] = @ \/ ok]
    /\ UNCHANGED <<db, proc, queue, todo, managed, state, setting, accepted, mq,
                   answer>>

\* ... and the assignment to adapter->state.
StartDone ==
    /\ up /\ loader.pc = "started"
    /\ state'  = [state EXCEPT ![loader.node] = "RUNNING"]
    /\ loader' = NoNode
    /\ UNCHANGED <<db, proc, queue, todo, managed, setting, accepted, running,
                   mq, answer>>

-----------------------------------------------------------------------------
(* The mqtt thread.                                                        *)

Consume == up /\ mq.pc = "idle" /\ queue # <<>> /\ queue' = Tail(queue)

\* No row has the id: node_name stays NULL and is handed to strlen().
HandleUnknown ==
    /\ up /\ mq.pc = "idle" /\ queue # <<>>
    /\ Head(queue).node \notin Nodes
    /\ Vanish("no such node")

\* The node manager does not know the node: the handler returns.
HandleUnmanaged ==
    /\ Consume
    /\ Head(queue).node \in Nodes \ managed
    /\ UNCHANGED <<db, proc, loader, todo, managed, state, setting, accepted,
                   running, mq, answer>>

\* Slip: both handlers start from success.
FirstResultZero(k) == 0

\* config_result starts as 2 in the control handler, as 0 in the matter one.
FirstResult(k) == IF k = "control" THEN 2 ELSE 0

\* The node is managed: the handler starts on it.  settled and started are
\* history variables: the main thread was through with the node when it did,
\* and what the plugin's start() returned to the handler.
Handle ==
    /\ Consume
    /\ LET m == Head(queue) IN
         /\ m.node \in managed
         /\ mq' = [pc |-> "stop", kind |-> m.kind, node |-> m.node,
                   ver |-> m.ver, result |-> FirstResult(m.kind),
                   settled |-> loader.node # m.node, started |-> FALSE]
    /\ UNCHANGED <<db, proc, loader, todo, managed, state, setting, accepted,
                   running, answer>>

\* Slip: the matter handler goes on when the plugin's stop() failed.
StopPluginGoesOn(ok) ==
    /\ up /\ mq.pc = "stop"
    /\ running' = [running EXCEPT ![mq.node] = @ /\ ~ok]
    /\ mq' = [mq EXCEPT !.pc = "load"]
    /\ UNCHANGED <<db, proc, queue, loader, todo, managed, state, setting,
                   accepted, answer>>

\* Slip: the control handler, too, gives up when the plugin's stop() failed.
StopPluginGivesUp(ok) ==
    /\ up /\ mq.pc = "stop"
    /\ running' = [running EXCEPT ![mq.node] = @ /\ ~ok]
    /\ mq' = IF ~ok THEN NoMsg ELSE [mq EXCEPT !.pc = "load"]
    /\ UNCHANGED <<db, proc, queue, loader, todo, managed, state, setting,
                   accepted, answer>>

\* The plugin's stop().  The matter handler gives up when it fails, without
\* an answer; the control handler does not look.
StopPlugin(ok) ==
    /\ up /\ mq.pc = "stop"
    /\ running' = [running EXCEPT ![mq.node] = @ /\ ~ok]
    /\ mq' = IF mq.kind = "matter" /\ ~ok THEN NoMsg
                                          ELSE [mq EXCEPT !.pc = "load"]
    /\ UNCHANGED <<db, proc, queue, loader, todo, managed, state, setting,
                   accepted, answer>>

\* Slip: the configuration that travelled with the push is used.
LoadConfigOfPush(ok) ==
    /\ up /\ mq.pc = "load"
    /\ setting' = IF ok THEN [setting EXCEPT ![mq.node] = mq.ver]
                        ELSE setting
    /\ mq' = [mq EXCEPT !.pc = IF ok THEN "apply" ELSE "restart"]
    /\ UNCHANGED <<db, proc, queue, loader, todo, managed, state, accepted,
                   running, answer>>

\* esv_adapter_load_config writes adapter->setting, or fails and leaves it.
LoadConfig(ok) ==
    /\ up /\ mq.pc = "load"
    /\ setting' = IF ok THEN [setting EXCEPT ![mq.node] = db[mq.node]]
                        ELSE setting
    /\ mq' = [mq EXCEPT !.pc = IF ok THEN "apply" ELSE "restart"]
    /\ UNCHANGED <<db, proc, queue, loader, todo, managed, state, accepted,
                   running, answer>>

\* Slip: a refused setting is left in the adapter.
ApplyConfigKeeps(ok) ==
    /\ up /\ mq.pc = "apply"
    /\ accepted' = IF ok THEN [accepted EXCEPT ![mq.node] = setting[mq.node]]
                         ELSE accepted
    /\ state' = IF ok THEN [state EXCEPT ![mq.node] = "READY"] ELSE state
    /\ mq' = [mq EXCEPT !.pc = "restart", !.result = IF ok THEN 0 ELSE @]
    /\ UNCHANGED <<db, proc, queue, loader, todo, managed, setting, running,
                   answer>>

\* The plugin's setting(): accepted, or the copy in the adapter is freed.
ApplyConfig(ok) ==
    /\ up /\ mq.pc = "apply"
    /\ IF ok
       THEN /\ accepted' = [accepted EXCEPT ![mq.node] = setting[mq.node]]
            /\ state'    = [state EXCEPT ![mq.node] = "READY"]
            /\ mq'       = [mq EXCEPT !.pc = "restart", !.result = 0]
            /\ UNCHANGED setting
       ELSE /\ setting'  = [setting EXCEPT ![mq.node] = 0]
            /\ mq'       = [mq EXCEPT !.pc = "restart"]
            /\ UNCHANGED <<accepted, state>>
    /\ UNCHANGED <<db, proc, queue, loader, todo, managed, running, answer>>

\* The plugin's start().  The handlers do not look at what it returned: only
\* the history variable started knows.
RestartPlugin(ok) ==
    /\ up /\ mq.pc = "restart"
    /\ running' = [running EXCEPT ![mq.node] = @ \/ ok]
    /\ mq' = [mq EXCEPT !.pc = "reply", !.started = ok]
    /\ UNCHANGED <<db, proc, queue, loader, todo, managed, state, setting,
                   accepted, answer>>

\* send_config_plugin_results, or send_config_plugin_results_for_matter.
Reply ==
    /\ up /\ mq.pc = "reply"
    /\ answer' = [kind |-> mq.kind, node |-> mq.node, ver |-> mq.ver,
                  result |-> mq.result, started |-> mq.started]
    /\ mq' = NoMsg
    /\ UNCHANGED <<db, proc, queue, loader, todo, managed, state, setting,
                   accepted, running>>

-----------------------------------------------------------------------------
Environment ==
    \/ \E n \in Nodes : Configure(n)
    \/ \E k \in Kinds, n \in Nodes \cup {UnknownNode} : Push(k, n)
    \/ Killed
    \/ Restart

MainThread ==
    \/ \E n \in Nodes : SkipNode(n)
    \/ \E n \in Nodes, loaded, valid \in BOOLEAN : CreateAdapter(n, loaded, valid)
    \/ \E n \in Nodes : CreateFails(n)
    \/ Publish
    \/ StartCheck
    \/ \E ok \in BOOLEAN : StartCall(ok)
    \/ StartDone

MqttThread ==
    \/ HandleUnknown
    \/ HandleUnmanaged
    \/ Handle
    \/ \E ok \in BOOLEAN : StopPlugin(ok)
    \/ \E ok \in BOOLEAN : LoadConfig(ok)
    \/ \E ok \in BOOLEAN : ApplyConfig(ok)
    \/ \E ok \in BOOLEAN : RestartPlugin(ok)
    \/ Reply

Next == Environment \/ MainThread \/ MqttThread

Spec == Init /\ [][Next]_vars

\* The operating system schedules both threads, and every call of a plugin
\* returns.
FairSpec == Spec /\ WF_vars(MainThread) /\ WF_vars(MqttThread)

-----------------------------------------------------------------------------
(* Properties.                                                             *)

\* Types, and what the two program counters say of the other components:
\* a handler only works on a managed node, the loader only on one it created.
TypeOK ==
    /\ db \in [Nodes -> Versions]
    /\ proc \in Procs
    /\ queue \in Seq(Message)
    /\ loader \in Loader
    /\ todo \subseteq Nodes
    /\ managed \subseteq Nodes
    /\ state \in [Nodes -> States]
    /\ setting \in [Nodes -> Versions]
    /\ accepted \in [Nodes -> Versions]
    /\ running \in [Nodes -> BOOLEAN]
    /\ mq \in Handler
    /\ answer \in Answer
    /\ mq.pc # "idle" => mq.node \in managed
    /\ loader.pc # "idle" => loader.node \in Nodes \ todo
    /\ answer.node = UnknownNode => answer = NoAnswer
    /\ managed \cap todo = {}

\* What a control push answered with result 0 (send_config_plugin_results)
\* promises.  The plugin's setting() accepted a configuration at least as new
\* as the one in the database when the push was sent.  And it runs on it, if
\* the start() the handler called succeeded, until the handler of a later message
\* stops it: nothing the loader does with the node meanwhile undoes
\* either.  Result 0 alone does not say that the plugin runs: the handler
\* drops what start() returned.
AckedIsApplied ==
    answer.kind = "control" /\ answer.result = 0
        => /\ accepted[answer.node] >= answer.ver
           /\ answer.started /\ (mq.node = answer.node => mq.pc \in {"idle", "stop"})
                 => running[answer.node]

\* What adapter->setting points to between two messages is what the plugin
\* last accepted, or NULL: never a configuration its setting() refused.
SettingIsAccepted ==
    \A n \in Nodes :
        setting[n] # 0 /\ ~(mq.pc = "apply" /\ mq.node = n)
            => setting[n] = accepted[n]

\* The matter handler reconfigures and restarts a stopped plugin only, once
\* the main thread is through with the node.  (The control handler does not:
\* it does not look at what stop() returned.)
MatterStopsFirst ==
    mq.kind = "matter" /\ mq.settled /\ mq.pc \in {"load", "apply", "restart"}
        => ~running[mq.node]

\* Why these hold.  Versions only grow, so what was read from the database
\* earlier is not newer than what is read later; and the loader and the
\* handler never work on the same node once the handler found it settled.
Ordered ==
    /\ \A i \in 1 .. Len(queue) :
          queue[i].node \in Nodes => queue[i].ver <= db[queue[i].node]
    /\ mq.pc # "idle" => mq.ver <= db[mq.node]
    /\ \A n \in Nodes : setting[n] <= db[n] /\ accepted[n] <= db[n]
    /\ \A n \in todo : setting[n] = 0 /\ accepted[n] = 0

Progressed ==
    /\ mq.pc = "apply" => /\ mq.ver <= setting[mq.node]
                         /\ accepted[mq.node] <= setting[mq.node]
    /\ mq.pc \in {"stop", "load", "apply"} => mq.result = FirstResult(mq.kind)
    /\ mq.pc \in {"restart", "reply"} /\ mq.kind = "control" /\ mq.result = 0
          => mq.ver <= accepted[mq.node]
    /\ mq.pc # "idle" /\ mq.settled => loader.node # mq.node
    /\ mq.pc = "reply" /\ mq.started => running[mq.node]

IInv ==
    /\ TypeOK
    /\ Ordered
    /\ Progressed
    /\ AckedIsApplied
    /\ SettingIsAccepted
    /\ MatterStopsFirst

\* The push keeps the promise of ConfigDelivery, control pushes only.
Delivery == INSTANCE ConfigDelivery WITH
    applied <- accepted,
    acked   <- IF answer.kind = "control" /\ answer.result = 0
               THEN <<answer.node, answer.ver>> ELSE <<>>

ImplementsDelivery == Delivery!Spec

\* A control push for a node the node manager knows is answered, or the
\* process goes away first.
PushIsAnswered ==
    \A n \in Nodes, v \in Versions :
        (/\ queue # <<>> /\ Head(queue) = [kind |-> "control", node |-> n, ver |-> v]
         /\ n \in managed)
        ~> \/ answer.kind = "control" /\ answer.node = n /\ answer.ver = v
           \/ ~up

\* Loading ends: every row is either managed or was skipped, unless the
\* process goes away.
LoadingEnds ==
    up ~> (~up \/ (todo = {} /\ managed = Nodes \ NoPlugin /\ loader = NoNode))

-----------------------------------------------------------------------------
(* What doc/ says of a push, and the code does not do.                     *)

\* doc: a push that names no existing application is answered with -2.
UnknownNodeIsAnswered ==
    [][HandleUnknown => answer'.result = -2]_vars
=============================================================================
