---------------------------- MODULE NodeControl ----------------------------
(***************************************************************************)
(* The control of nodes by messages: the REST plugin asks, the loop of the *)
(* manager answers or forwards, the loop of an adapter acts on its plugin, *)
(* and the answer goes back through the manager (adapter_command in        *)
(* adapter.c, manager_loop in manager.c, adapter_loop, request in rest.c). *)
(* Every loop is a thread of its own; a pipe keeps the order of what one   *)
(* adapter and the manager send each other, and nothing orders the pipes.  *)
(*                                                                         *)
(* The sockets are not opened in this version (neu_adapter_create,         *)
(* neu_manager_create): this is how the loops behave once they are, with   *)
(* the message NODE_INIT that neu_adapter_init sent.  nng is external: a   *)
(* message for pipe 0 goes to any peer that is connected, and the queues,  *)
(* of 8192 messages, do not fill.  assert ends the process.                *)
(*                                                                         *)
(* A message is its type, sender, receiver and what its handler reads of   *)
(* the body; the lists it carries are not modelled, and what is stored is  *)
(* in Persister.                                                           *)
(***************************************************************************)
EXTENDS Naturals, SequencesExt

CONSTANTS
    Requests,   \* the HTTP requests under way
    Names,      \* names a request can give a node
    Plugins,    \* names a request can give a plugin
    Loaded,     \* the plugins that were loaded from the database
    Single,     \* the plugins of which there is one instance only
    Refused,    \* settings that plugins refuse
    Settings,   \* settings a request can give
    None        \* no setting, no request

ASSUME PluginsAssumption ==
    /\ Loaded \subseteq Plugins /\ Single \subseteq Plugins
    /\ None \notin Settings

VARIABLES
    up,        \* the process has not aborted
    nodes,     \* the node manager: name -> the adapter's state and setting
    bound,     \* the nodes whose pipe the node manager knows
    started,   \* history: the nodes whose plugin was started and not stopped
    toManager, \* name -> what its adapter sent to the manager
    toNode,    \* name -> what the manager sent to its adapter
    asked,     \* request -> the message it became, or None
    answers    \* request -> the responses that reached the REST plugin

vars == <<up, nodes, bound, started, toManager, toNode, asked, answers>>

Success == "SUCCESS"

Results == {Success, "LIBRARY_NOT_FOUND", "LIBRARY_NOT_ALLOW_CREATE_INSTANCE",
            "LIBRARY_FAILED_TO_OPEN", "NODE_EXIST", "NODE_NOT_EXIST",
            "NODE_NOT_READY", "NODE_IS_RUNNING", "NODE_IS_STOPED",
            "NODE_SETTING_INVALID", "NODE_SETTING_NOT_FOUND", "PLUGIN"}

All == Names \cup {"rest"}

\* The requests that reach manager_loop and that it knows.
AnsweredByManager == {"GET_PLUGIN", "ADD_NODE", "GET_NODE", "GET_NODES_STATE"}
ResponseTo == [GET_PLUGIN |-> "RESP_GET_PLUGIN", GET_NODE |-> "RESP_GET_NODE",
               GET_NODES_STATE |-> "RESP_GET_NODES_STATE"]
Forwarded == {"GET_NODE_SETTING", "NODE_CTL", "NODE_SETTING"}

\* Handlers of the REST plugin send others that manager_loop has no case for:
\* UPDATE_NODE, ADD_PLUGIN, DEL_PLUGIN, GET_NODE_STATE, GET_DRIVER_GROUP,
\* UPDATE_LOG_LEVEL, ADD_GROUP, ADD_TAG, GET_TAG.  They are told apart by
\* nothing, and DEL_NODE stands for all.
Unknown == {"DEL_NODE"}

Questions ==
    [type : {"ADD_NODE"}, node : Names, plugin : Plugins]
    \cup [type : {"NODE_CTL"}, node : Names, ctl : {"start", "stop"}]
    \cup [type : {"NODE_SETTING"}, node : Names, setting : Settings]
    \cup [type : {"GET_NODE_SETTING"}, node : Names]
    \cup [type : {"GET_PLUGIN", "GET_NODE", "GET_NODES_STATE"} \cup Unknown]

ASSUME NoneAssumption == None \notin Questions

Init ==
    /\ up = TRUE
    /\ nodes = [n \in {"rest"} |-> [state |-> "INIT", setting |-> None]]
    /\ bound = {"rest"}
    /\ started = {}
    /\ toManager = [n \in All |-> <<>>]
    /\ toNode = [n \in All |-> <<>>]
    /\ asked = [r \in Requests |-> None]
    /\ answers = [r \in Requests |-> <<>>]

-----------------------------------------------------------------------------
(* adapter_command in the thread of the HTTP request.                      *)

Ask(r, q) ==
    /\ up
    /\ asked[r] = None
    /\ asked' = [asked EXCEPT ![r] = q]
    /\ toManager' = [toManager EXCEPT !["rest"] = Append(@,
          [type |-> q.type, sender |-> "rest", id |-> r, q |-> q,
           receiver |-> IF q.type \in Forwarded THEN q.node ELSE "manager"])]
    /\ UNCHANGED <<up, nodes, bound, started, toNode, answers>>

-----------------------------------------------------------------------------
(* The loop of the manager.                                                *)

\* The peers a message can go to that is sent to the pipe of node n: as long
\* as it is not known it is 0, and any adapter that is connected can get it.
Peers(n) == IF n \in bound THEN {n} ELSE DOMAIN nodes

Deliver(box, n, m) == [box EXCEPT ![n] = Append(@, m)]

\* neu_msg_exchange
Exchanged(m, type, result) ==
    [type |-> type, sender |-> m.receiver, receiver |-> m.sender, id |-> m.id,
     result |-> result]

\* The first message of the pipe of n is taken.
Taken(n) == [toManager EXCEPT ![n] = Tail(@)]

\* reply: to the pipe of the receiver.
Reply(n, m, type, error) ==
    /\ \E p \in Peers(m.sender) :
          toNode' = Deliver(toNode, p, Exchanged(m, type, error))
    /\ toManager' = Taken(n)

\* NODE_INIT: the pipe the message came from is that of the node.
Bind(n, m) ==
    /\ m.type = "NODE_INIT"
    /\ bound' = bound \cup {n}
    /\ toManager' = Taken(n)
    /\ UNCHANGED <<up, nodes, started, toNode>>

\* GET_PLUGIN, GET_NODE, GET_NODES_STATE
Tell(n, m) ==
    /\ m.type \in AnsweredByManager \ {"ADD_NODE"}
    /\ Reply(n, m, ResponseTo[m.type], Success)
    /\ UNCHANGED <<up, nodes, started, bound>>

\* Slip: a name that is taken is not found out.
AddErrorNoName(q) ==
    CASE q.plugin \notin Loaded -> "LIBRARY_NOT_FOUND"
      [] q.plugin \in Loaded \cap Single -> "LIBRARY_NOT_ALLOW_CREATE_INSTANCE"
      [] OTHER -> Success

\* neu_manager_add_node, what it checks before it opens the plugin.
AddError(q) ==
    CASE q.plugin \notin Loaded -> "LIBRARY_NOT_FOUND"
      [] q.plugin \in Loaded \cap Single -> "LIBRARY_NOT_ALLOW_CREATE_INSTANCE"
      [] q.plugin \in Loaded \ Single /\ q.node \in DOMAIN nodes -> "NODE_EXIST"
      [] OTHER -> Success

\* neu_adapter_create, neu_adapter_init and neu_adapter_start: a new node is
\* started if the database has a setting for it that the plugin accepts; that
\* the start fails is not told.
AddNode(n, m) ==
    /\ m.type = "ADD_NODE"
    /\ AddError(m.q) = Success
    /\ \E new \in {[state |-> "INIT", setting |-> None]} \cup
               [state : {"READY", "RUNNING"}, setting : Settings \ Refused] :
          /\ nodes' = [x \in DOMAIN nodes \cup {m.q.node} |->
                          IF x = m.q.node THEN new ELSE nodes[x]]
          /\ started' = IF new.state = "RUNNING" THEN started \cup {m.q.node}
                        ELSE started
    /\ \E p \in Peers(m.sender) :
          toNode' = Deliver(toNode, p, Exchanged(m, "RESP_ERROR", Success))
    /\ toManager' = [Taken(n) EXCEPT ![m.q.node] =
                        Append(@, [type |-> "NODE_INIT", sender |-> m.q.node])]
    /\ UNCHANGED <<up, bound>>

\* What it returns if it gets no adapter to create: the plugin that passes the
\* checks may not be opened.
OpenError(q) == IF AddError(q) = Success THEN "LIBRARY_FAILED_TO_OPEN" ELSE AddError(q)

AddNodeFails(n, m) ==
    /\ m.type = "ADD_NODE"
    /\ Reply(n, m, "RESP_ERROR", OpenError(m.q))
    /\ UNCHANGED <<up, nodes, started, bound>>

\* Plugin init failed: the name of the adapter that was not created is logged.
AddNodeCrashes(n, m) ==
    /\ m.type = "ADD_NODE"
    /\ AddError(m.q) = Success
    /\ up' = FALSE
    /\ UNCHANGED <<nodes, started, bound, toManager, toNode>>

\* GET_NODE_SETTING and NODE_CTL of a node that does not exist are dropped:
\* the reply is commented out.  NODE_CTL_EVENT is for a node named monitor.
Drop(n, m) ==
    /\ m.type \in {"GET_NODE_SETTING", "NODE_CTL", "NODE_CTL_EVENT"}
    /\ m.receiver \notin DOMAIN nodes
    /\ toManager' = Taken(n)
    /\ UNCHANGED <<up, nodes, started, bound, toNode>>

\* Slip: a setting that was refused is forwarded all the same.
RefuseAndForward(n, m) ==
    /\ m.type = "NODE_SETTING"
    /\ m.receiver \notin DOMAIN nodes
    /\ \E p \in Peers(m.receiver) :
          toNode' = Deliver(Deliver(toNode, "rest",
                        Exchanged(m, "RESP_ERROR", "NODE_NOT_EXIST")), p, m)
    /\ toManager' = Taken(n)
    /\ UNCHANGED <<up, nodes, started, bound>>

RefuseSetting(n, m) ==
    /\ m.type = "NODE_SETTING"
    /\ m.receiver \notin DOMAIN nodes
    /\ Reply(n, m, "RESP_ERROR", "NODE_NOT_EXIST")
    /\ UNCHANGED <<up, nodes, started, bound>>

\* Slip: what a node answers is not forwarded.
ForwardRequests(n, m) ==
    /\ m.type \in Forwarded \cup {"NODE_CTL_EVENT"} /\ m.receiver \in DOMAIN nodes
    /\ \E p \in Peers(m.receiver) : toNode' = Deliver(toNode, p, m)
    /\ toManager' = Taken(n)
    /\ UNCHANGED <<up, nodes, started, bound>>

\* forward_msg.  A response is forwarded without looking for its receiver.
Forward(n, m) ==
    /\ \/ m.type \in Forwarded \cup {"NODE_CTL_EVENT"} /\ m.receiver \in DOMAIN nodes
       \/ m.type \in {"RESP_GET_NODE_SETTING", "RESP_ERROR"}
    /\ \E p \in Peers(m.receiver) : toNode' = Deliver(toNode, p, m)
    /\ toManager' = Taken(n)
    /\ UNCHANGED <<up, nodes, started, bound>>

\* Slip: events for the monitor have no case.
KnownButEvents == AnsweredByManager \cup Forwarded
                  \cup {"NODE_INIT", "RESP_GET_NODE_SETTING", "RESP_ERROR"}

Known == AnsweredByManager \cup Forwarded
         \cup {"NODE_INIT", "NODE_CTL_EVENT", "RESP_GET_NODE_SETTING", "RESP_ERROR"}

\* assert(false)
Abort(n, m) ==
    /\ m.type \notin Known
    /\ up' = FALSE
    /\ UNCHANGED <<nodes, started, bound, toManager, toNode>>

ManagerLoop(n) ==
    /\ up
    /\ toManager[n] # <<>>
    /\ LET m == Head(toManager[n])
       IN  Bind(n, m) \/ Tell(n, m) \/ AddNode(n, m) \/ AddNodeFails(n, m)
           \/ AddNodeCrashes(n, m) \/ Drop(n, m) \/ RefuseSetting(n, m)
           \/ Forward(n, m) \/ Abort(n, m)
    /\ UNCHANGED <<asked, answers>>

-----------------------------------------------------------------------------
(* The loop of an adapter.                                                 *)

Answer(n, ms) ==
    /\ toManager' = [toManager EXCEPT ![n] = @ \o ms]
    /\ UNCHANGED <<up, answers>>

\* neu_adapter_start and neu_adapter_stop: what their state allows.
StartError(state) == CASE state = "INIT" -> "NODE_NOT_READY"
                       [] state = "RUNNING" -> "NODE_IS_RUNNING"
                       [] OTHER -> Success
StopError(state)  == CASE state = "INIT" -> "NODE_NOT_READY"
                       [] state = "STOPPED" -> "NODE_IS_STOPED"
                       [] OTHER -> Success

\* What is sent after a request: the monitor is told what succeeded.
Outcome(m, error) ==
    (IF error = Success
     THEN <<[type |-> "NODE_CTL_EVENT", receiver |-> "monitor", id |-> None]>> ELSE <<>>)
    \o <<Exchanged(m, "RESP_ERROR", error)>>

\* The plugin succeeds or fails.  The state is stored at a stop only.
StartNode(n, m) ==
    /\ m.type = "NODE_CTL" /\ m.q.ctl = "start"
    /\ \/ /\ StartError(nodes[n].state) = Success
          /\ nodes' = [nodes EXCEPT ![n].state = "RUNNING"]
          /\ started' = started \cup {n}
          /\ Answer(n, Outcome(m, Success))
       \/ /\ Answer(n, Outcome(m, IF StartError(nodes[n].state) = Success THEN "PLUGIN"
                                  ELSE StartError(nodes[n].state)))
          /\ UNCHANGED <<nodes, started>>

\* Slip: a stop that failed is a stop.
StopNodeAlways(n, m) ==
    /\ m.type = "NODE_CTL" /\ m.q.ctl = "stop"
    /\ nodes' = [nodes EXCEPT ![n].state = "STOPPED"]
    /\ started' \in {started, started \ {n}}
    /\ Answer(n, Outcome(m, Success))

StopNode(n, m) ==
    /\ m.type = "NODE_CTL" /\ m.q.ctl = "stop"
    /\ \/ /\ StopError(nodes[n].state) = Success
          /\ nodes' = [nodes EXCEPT ![n].state = "STOPPED"]
          /\ started' = started \ {n}
          /\ Answer(n, Outcome(m, Success))
       \/ /\ Answer(n, Outcome(m, IF StopError(nodes[n].state) = Success THEN "PLUGIN"
                                  ELSE StopError(nodes[n].state)))
          /\ UNCHANGED <<nodes, started>>

\* neu_adapter_set_setting: the first setting makes a node ready and starts
\* it; a start that fails leaves it ready, and the setting is accepted.
Set(n, m) ==
    /\ m.type = "NODE_SETTING"
    /\ m.q.setting \notin Refused
    /\ \E s \in IF nodes[n].state = "INIT" THEN {"READY", "RUNNING"}
                ELSE {nodes[n].state} :
          /\ nodes' = [nodes EXCEPT ![n] = [state |-> s, setting |-> m.q.setting]]
          /\ started' = IF s = "RUNNING" THEN started \cup {n} ELSE started
    /\ Answer(n, <<Exchanged(m, "RESP_ERROR", Success)>>)

SetFails(n, m) ==
    /\ m.type = "NODE_SETTING"
    /\ m.q.setting \in Refused
    /\ Answer(n, <<Exchanged(m, "RESP_ERROR", "NODE_SETTING_INVALID")>>)
    /\ UNCHANGED <<nodes, started>>

GetSetting(n, m) ==
    /\ m.type = "GET_NODE_SETTING"
    /\ Answer(n, <<IF nodes[n].setting = None
                   THEN Exchanged(m, "RESP_ERROR", "NODE_SETTING_NOT_FOUND")
                   ELSE Exchanged(m, "RESP_GET_NODE_SETTING", nodes[n].setting)>>)
    /\ UNCHANGED <<nodes, started>>

\* The types that request() of the REST plugin has a case for.
Heard == {"RESP_ERROR", "RESP_GET_PLUGIN", "RESP_GET_NODE", "RESP_GET_NODE_SETTING",
          "RESP_GET_NODES_STATE"}

\* Anything else is passed to the plugin.  A response answers the HTTP request;
\* over what it has no case for the REST plugin aborts.
Hear(n, m) ==
    /\ m.type \notin Forwarded
    /\ up' = (n # "rest" \/ m.type \in Heard)
    /\ answers' = IF n = "rest" /\ m.type \in Heard
                  THEN [answers EXCEPT ![m.id] = Append(@, m)] ELSE answers
    /\ UNCHANGED <<nodes, started, toManager>>

AdapterLoop(n) ==
    /\ up
    /\ toNode[n] # <<>>
    /\ LET m == Head(toNode[n])
       IN  StartNode(n, m) \/ StopNode(n, m) \/ Set(n, m) \/ SetFails(n, m)
           \/ GetSetting(n, m) \/ Hear(n, m)
    /\ toNode' = IF up' THEN [toNode EXCEPT ![n] = Tail(@)] ELSE toNode
    /\ UNCHANGED <<bound, asked>>

-----------------------------------------------------------------------------
Next ==
    \/ \E r \in Requests, q \in Questions : Ask(r, q)
    \/ \E n \in All : ManagerLoop(n) \/ AdapterLoop(n)

\* Every loop is a thread that goes on as long as there are messages.
Spec == /\ Init /\ [][Next]_vars
        /\ \A n \in All : WF_vars(ManagerLoop(n)) /\ WF_vars(AdapterLoop(n))
-----------------------------------------------------------------------------
(* Properties.                                                             *)

\* What is in the queues.
Messages ==
    [type : {"NODE_INIT"}, sender : Names]
    \cup [type : {"NODE_CTL_EVENT"}, receiver : {"monitor"}, id : {None}]
    \cup [type : AnsweredByManager \cup Forwarded \cup Unknown, sender : {"rest"},
          id : Requests, q : Questions, receiver : Names \cup {"manager"}]
    \cup [type : Heard, sender : Names \cup {"manager"}, receiver : {"rest"},
          id : Requests, result : Results \cup Settings]

\* Every variable keeps its shape; an adapter belongs to every queue.
TypeOK ==
    /\ up \in BOOLEAN
    /\ bound \subseteq DOMAIN nodes /\ "rest" \in bound
    /\ DOMAIN nodes \subseteq All /\ started \subseteq DOMAIN nodes
    /\ nodes \in [DOMAIN nodes -> [state : {"INIT", "READY", "RUNNING", "STOPPED"},
                                  setting : Settings \cup {None}]]
    /\ toManager \in [All -> Seq(Messages)] /\ toNode \in [All -> Seq(Messages)]
    /\ asked \in [Requests -> Questions \cup {None}]
    /\ answers \in [Requests -> Seq(Messages)]
    /\ \A n \in All \ DOMAIN nodes : toNode[n] = <<>> /\ toManager[n] = <<>>

\* The state of a node is that of its plugin, whichever thread changed it and
\* whatever plugin calls failed on the way, and a plugin is started only after
\* it accepted a setting (neu_adapter_start, neu_adapter_stop,
\* neu_adapter_set_setting).
LifecycleAgrees ==
    \A n \in DOMAIN nodes :
        /\ nodes[n].state = "RUNNING" <=> n \in started
        /\ nodes[n].state # "INIT" => nodes[n].setting \in Settings \ Refused

\* Of two requests that add the same node at most one is told that it did.
AddedOnce ==
    \A r, s \in Requests :
        /\ r # s
        /\ asked[r] # None /\ asked[s] # None
        /\ asked[r].type = "ADD_NODE" /\ asked[s].type = "ADD_NODE"
        /\ answers[r] # <<>> /\ Head(answers[r]).result = Success
        /\ answers[s] # <<>> /\ Head(answers[s]).result = Success
        => asked[r].node # asked[s].node

\* The REST plugin answers an HTTP request once, with what belongs to it.
AnsweredOnce ==
    \A r \in Requests :
        answers[r] # <<>> =>
            /\ Len(answers[r]) = 1 /\ asked[r] # None
            /\ LET a == Head(answers[r])
                   t == asked[r].type
               IN  \/ a.type = "RESP_ERROR" /\ t \in Forwarded \cup {"ADD_NODE"}
                   \/ t \in DOMAIN ResponseTo /\ a.type = ResponseTo[t]
                   \/ t = "GET_NODE_SETTING" /\ a.type = "RESP_GET_NODE_SETTING"

\* An event that went to the REST plugin instead of the node it is for: a node
\* named "monitor" was added, and the event came between neu_node_manager_add
\* and the NODE_INIT that makes its pipe known (forward_msg).
Stray(m) == m.type = "NODE_CTL_EVENT" /\ "monitor" \in DOMAIN nodes

\* What ends the process is a request that manager_loop does not know, a plugin
\* whose init fails, or an event that strays to the REST plugin (the assertion
\* in request of rest.c).  Otherwise each loop has a case for every answer,
\* event and forwarded request that another loop sends it.
OnlyRequestsAbort ==
    \/ up
    \/ \E n \in All : /\ toManager[n] # <<>>
                     /\ Head(toManager[n]).type \in Unknown \cup {"ADD_NODE"}
    \/ toNode["rest"] # <<>> /\ Stray(Head(toNode["rest"]))

\* Whoever asks for what the manager knows, or for a setting of or a step by
\* a node that exists when the manager takes the request, gets an answer,
\* unless the process ends.
EveryoneIsAnswered ==
    \A r \in Requests :
        /\ up /\ asked[r] # None /\ answers[r] = <<>>
        /\ \/ asked[r].type \in AnsweredByManager \cup {"NODE_SETTING"}
           \/ /\ asked[r].type \in {"NODE_CTL", "GET_NODE_SETTING"}
              /\ asked[r].node \in DOMAIN nodes
              /\ \E i \in DOMAIN toManager["rest"] : toManager["rest"][i].id = r
        ~> answers[r] # <<>> \/ ~up

-----------------------------------------------------------------------------
(* The inductive invariant.                                                *)

\* An answer fits the request it is for.
Fits(m) ==
    /\ asked[m.id] # None
    /\ LET t == asked[m.id].type
       IN  \/ m.type = "RESP_ERROR" /\ t \in Forwarded \cup {"ADD_NODE"}
           \/ t \in DOMAIN ResponseTo /\ m.type = ResponseTo[t]
           \/ t = "GET_NODE_SETTING" /\ m.type = "RESP_GET_NODE_SETTING"

\* A message that was not answered yet is what its request asked.
IsQuestion(m) == asked[m.id] # None /\ m.q = asked[m.id] /\ m.type = m.q.type

\* What adapters send to the manager, and the manager to them.
IsForManager(m) ==
    \/ m.type \in {"NODE_INIT", "NODE_CTL_EVENT"}
    \/ m.type \in AnsweredByManager \cup Forwarded \cup Unknown /\ IsQuestion(m)
    \/ /\ m.type \in {"RESP_ERROR", "RESP_GET_NODE_SETTING"}
       /\ Fits(m) /\ asked[m.id].type \in Forwarded

IsForNode(m) == \/ m.type \in Forwarded /\ IsQuestion(m)
                \/ m.type \in Heard /\ Fits(m)
                \/ Stray(m)

MessagesMatch ==
    /\ \A n \in All : \A i \in DOMAIN toManager[n] : IsForManager(toManager[n][i])
    /\ \A n \in All : \A i \in DOMAIN toNode[n] : IsForNode(toNode[n][i])
    /\ \A r \in Requests : \A i \in DOMAIN answers[r] :
          /\ answers[r][i].type \in Heard /\ Fits(answers[r][i])
          /\ answers[r][i].id = r

\* The places of request r in the queues of n.
Carries(m, r) == m.type \notin {"NODE_INIT", "NODE_CTL_EVENT"} /\ m.id = r
Up(n, r)   == {i \in DOMAIN toManager[n] : Carries(toManager[n][i], r)}
Down(n, r) == {i \in DOMAIN toNode[n] : Carries(toNode[n][i], r)}

\* A request is in one place only, and in none when it was answered.
OnePlace ==
    \A r \in Requests :
        /\ \A m, n \in All : \A i \in Up(m, r), j \in Up(n, r) : m = n /\ i = j
        /\ \A m, n \in All : \A i \in Down(m, r), j \in Down(n, r) : m = n /\ i = j
        /\ \A m, n \in All : Up(m, r) = {} \/ Down(n, r) = {}
        /\ Len(answers[r]) <= 1
        /\ answers[r] # <<>> => \A n \in All : Up(n, r) = {} /\ Down(n, r) = {}

\* Request r was, or will be, told that it added its node.
Granted(r) ==
    /\ asked[r] # None /\ asked[r].type = "ADD_NODE"
    /\ \/ \E i \in DOMAIN answers[r] : answers[r][i].result = Success
       \/ \E n \in All : \E i \in Down(n, r) : toNode[n][i].result = Success

GrantedOnce ==
    /\ \A r \in Requests : Granted(r) => asked[r].node \in DOMAIN nodes
    /\ \A r, s \in Requests :
          Granted(r) /\ Granted(s) /\ r # s => asked[r].node # asked[s].node

IInv == TypeOK /\ LifecycleAgrees /\ OnlyRequestsAbort
        /\ MessagesMatch /\ OnePlace /\ GrantedOnce
=============================================================================
