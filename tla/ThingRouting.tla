---------------------------- MODULE ThingRouting ----------------------------
(***************************************************************************)
(* How a thing-model message gets to the plugins.                          *)
(*                                                                         *)
(* Messages arrive from the broker (messageArrived5, one at a time, in the *)
(* mqtt thread) or come from a plugin (thing_model_msg_arrived, in a       *)
(* thread of that plugin); the latter are published to the broker too.     *)
(* They are forwarded to the rows of plugin_node that are drivers or apps, *)
(* to all apps, to all self drivers, or to one node, by calling every      *)
(* plugin in turn.  Meanwhile the main thread is still loading nodes: a    *)
(* row is found once it was put into the node manager.                     *)
(*                                                                         *)
(* The rows are read from the database for every message.  The lists of    *)
(* apps and of self drivers are static variables that the first caller     *)
(* fills; nothing protects them, so two first callers can both fill one.   *)
(* A caller whose list was replaced while it iterates runs past the end of *)
(* its own, as the end is computed from the new one: the process dies.     *)
(*                                                                         *)
(* Left out: payloads; reload pushes (module NodeReload); the broker's own *)
(* losses and repetitions.                                                 *)
(***************************************************************************)
EXTENDS Integers, Sequences, Functions

CONSTANTS
    Rows,      \* plugin_node, in the order of the table
    Drivers,   \* the rows of type NEU_NA_TYPE_ESVDEVICEDRIVER
    Apps,      \* the rows of type NEU_NA_TYPE_ESVAPP
    NoPlugin,  \* the rows that cannot be loaded
    Broker,    \* the mqtt thread
    MaxSent    \* bound: messages sent, by the broker and by plugins

Places      == 1 .. Len(Rows)
Nodes       == {Rows[i] : i \in Places}
SelfDrivers == Nodes \ (Drivers \cup Apps)
Threads     == Nodes \cup {Broker}
Ids         == 1 .. MaxSent

ASSUME RowsAssumption ==
    /\ Rows \in Seq(Range(Rows)) /\ IsInjective(Rows)
    /\ Drivers \subseteq Nodes /\ Apps \subseteq Nodes /\ Drivers \cap Apps = {}
    /\ NoPlugin \subseteq Nodes
    /\ Broker \notin Nodes
    /\ MaxSent \in Nat

VARIABLES
    proc,    \* "up", or "killed" by a use of memory past a list
    loaded,  \* how many rows the main thread is through with
    lists,   \* the static lists: who filled it (Broker, a node or "NULL"), and with what
    call,    \* thread -> the forwarding it is in
    sent,    \* history: all messages so far, in order
    heard    \* history: node -> message -> how often the plugin was called with it

vars == <<proc, loaded, lists, call, sent, heard>>

\* Methods that differ in where they go; those of a thing's property may
\* come from both sides.
FromBroker == {"set", "get", "post", "discovery", "node", "unhandled"}
FromPlugin == {"set", "get", "post", "reply", "configReply", "otherReply"}
Kinds      == {"apps", "selves"}
Message    == [method : FromBroker \cup FromPlugin, from : Threads]
Call       == [pc : {"idle", "row", "look", "fill", "assign", "iterate", "each"},
               id : 0 .. MaxSent, kind : Kinds, by : Threads \cup {"NULL"},
               left : SUBSET Places]
NoCall     == [pc |-> "idle", id |-> 0, kind |-> "apps", by |-> "NULL", left |-> {}]

up         == proc = "up"
Loaded     == {Rows[i] : i \in 1 .. loaded} \ NoPlugin
Of(kind)   == IF kind = "apps" THEN Apps ELSE SelfDrivers

\* A list of nodes is the set of their places in Rows: a list that is read
\* from the table and one of loaded nodes have them in this order.
List(S)     == {i \in Places : Rows[i] \in S}
First(i, l) == i \in l /\ \A j \in l : i <= j

\* esv_persister_query_device_node_name_by_node_type: types 9 and 11.
PropertyRows == List(Drivers \cup Apps)

-----------------------------------------------------------------------------
(* Where a message goes.                                                   *)

\* messageArrived5, by topic.  No branch takes the replies, the restart and
\* (since its test repeats the one before) the config push of a subthing.
ArrivalRoute(method) ==
    CASE method \in {"set", "get", "post"} -> "rows"
      [] method = "discovery"              -> "selves"
      [] method = "node"                   -> "node"
      [] OTHER                             -> "nowhere"

\* thing_model_msg_arrived, by the type of the sending plugin and the method.
Refused(from, method) ==
    from \in Apps /\ method \in {"reply", "otherReply"}

PluginRoute(from, method) ==
    CASE from \in Drivers /\ method \in {"set", "post", "reply"} -> "apps"
      [] from \in Apps /\ method \in {"set", "post", "get"}      -> "rows"
      [] OTHER                                                   -> "nowhere"

Route(m) == IF m.from = Broker THEN ArrivalRoute(m.method)
                               ELSE PluginRoute(m.from, m.method)

\* Slip: the option is left out.
LocalToo == FALSE

\* The subscriptions are made with noLocal: the broker does not send back
\* what this client published.
NoLocal == TRUE

\* Slip: the list's end is not noticed.
RestRunsOn(c, left) == [c EXCEPT !.left = left]

\* Forwarding is over when no node is left.
Rest(c, left) == IF left = {} THEN NoCall ELSE [c EXCEPT !.left = left]

\* The first step of forwarding message id along a route.
Begin(id, route, to) ==
    CASE route = "rows"   -> Rest([NoCall EXCEPT !.pc = "row", !.id = id], PropertyRows)
      [] route = "node"   -> [NoCall EXCEPT !.pc = "row", !.id = id, !.left = List({to})]
      [] route \in Kinds  -> [NoCall EXCEPT !.pc = "look", !.id = id, !.kind = route]
      [] OTHER            -> NoCall

-----------------------------------------------------------------------------
Init ==
    /\ proc   = "up"
    /\ loaded = 0
    /\ lists  = [k \in Kinds |-> [by |-> "NULL", nodes |-> {}]]
    /\ call   = [t \in Threads |-> NoCall]
    /\ sent   = <<>>
    /\ heard  = [n \in Nodes |-> [i \in Ids |-> 0]]

\* The main thread: neu_manager_add_node for the next row.
Load ==
    /\ up /\ loaded < Len(Rows)
    /\ loaded' = loaded + 1
    /\ UNCHANGED <<proc, lists, call, sent, heard>>

\* A message of another client; to is the node it names, if it names one.
Arrive(method, to) ==
    /\ up /\ call[Broker].pc = "idle" /\ Len(sent) < MaxSent
    /\ sent' = Append(sent, [method |-> method, from |-> Broker])
    /\ call' = [call EXCEPT ![Broker] = Begin(Len(sent'), ArrivalRoute(method), to)]
    /\ UNCHANGED <<proc, loaded, lists, heard>>

\* A plugin sends: refused, or published and then forwarded.  If the broker
\* sends it back, it arrives like any other.
Send(n, method) ==
    /\ up /\ n \in Loaded /\ call[n].pc = "idle" /\ Len(sent) < MaxSent
    /\ ~Refused(n, method)
    /\ sent' = Append(sent, [method |-> method, from |-> n])
    /\ IF NoLocal
       THEN call' = [call EXCEPT ![n] = Begin(Len(sent'), PluginRoute(n, method), n)]
       ELSE /\ call[Broker].pc = "idle"
            /\ call' = [call EXCEPT
                   ![n]      = Begin(Len(sent'), PluginRoute(n, method), n),
                   ![Broker] = Begin(Len(sent'), ArrivalRoute(method), n)]
    /\ UNCHANGED <<proc, loaded, lists, heard>>

\* The plugin is called with the message.
Hears(n, id) == heard' = [heard EXCEPT ![n][id] = @ + 1]

\* Slip: the first plugin's result is returned.
CallRowOnce(t) ==
    LET c == call[t] IN
    /\ up /\ c.pc = "row"
    /\ \E i \in Places :
        /\ First(i, c.left)
        /\ IF Rows[i] \in Loaded THEN Hears(Rows[i], c.id) ELSE UNCHANGED heard
    /\ call' = [call EXCEPT ![t] = NoCall]
    /\ UNCHANGED <<proc, loaded, lists, sent>>

\* forward_thing_model_msg_to_esvdriver, and to one node: the next row; the
\* first one the node manager does not find ends it.
CallRow(t) ==
    LET c == call[t] IN
    /\ up /\ c.pc = "row"
    /\ \E i \in Places :
        /\ First(i, c.left)
        /\ IF Rows[i] \in Loaded
           THEN /\ Hears(Rows[i], c.id)
                /\ call' = [call EXCEPT ![t] = Rest(c, c.left \ {i})]
           ELSE /\ call' = [call EXCEPT ![t] = NoCall]
                /\ UNCHANGED heard
    /\ UNCHANGED <<proc, loaded, lists, sent>>

\* forward_thing_model_msg_to_esvapps and _to_all_esvdevicedriver: is the
\* static list filled?
Look(t) ==
    LET c == call[t] IN
    /\ up /\ c.pc = "look"
    /\ call' = [call EXCEPT ![t] =
           IF lists[c.kind].by = "NULL" THEN [c EXCEPT !.pc = "fill"]
           ELSE [c EXCEPT !.pc = "iterate"]]
    /\ UNCHANGED <<proc, loaded, lists, sent, heard>>

\* neu_node_manager_get_adapter: the nodes of one type, now.
Fill(t) ==
    LET c == call[t] IN
    /\ up /\ c.pc = "fill"
    /\ call' = [call EXCEPT ![t].pc = "assign",
                            ![t].left = List(Of(c.kind) \cap Loaded)]
    /\ UNCHANGED <<proc, loaded, lists, sent, heard>>

\* The static variable is assigned, whatever it is by now.
Assign(t) ==
    LET c == call[t] IN
    /\ up /\ c.pc = "assign"
    /\ lists' = [lists EXCEPT ![c.kind] = [by |-> t, nodes |-> c.left]]
    /\ call'  = [call EXCEPT ![t].pc = "iterate", ![t].left = {}]
    /\ UNCHANGED <<proc, loaded, sent, heard>>

\* utarray_front.
Iterate(t) ==
    LET c == call[t] IN
    /\ up /\ c.pc = "iterate"
    /\ call' = [call EXCEPT ![t] =
           Rest([c EXCEPT !.pc = "each", !.by = lists[c.kind].by], lists[c.kind].nodes)]
    /\ UNCHANGED <<proc, loaded, lists, sent, heard>>

\* The next node of a list, and utarray_next, which takes the end from the
\* list that is assigned now.
CallEach(t) ==
    LET c == call[t] IN
    /\ up /\ c.pc = "each"
    /\ \E i \in Places :
        /\ First(i, c.left)
        /\ Hears(Rows[i], c.id)
        /\ call' = [call EXCEPT ![t] = Rest(c, c.left \ {i})]
        /\ proc' = IF c.left = {i} /\ lists[c.kind].by # c.by THEN "killed" ELSE proc
    /\ UNCHANGED <<loaded, lists, sent>>

-----------------------------------------------------------------------------
Forwarding(t) ==
    \/ CallRow(t)
    \/ Look(t)
    \/ Fill(t)
    \/ Assign(t)
    \/ Iterate(t)
    \/ CallEach(t)

Next ==
    \/ Load
    \/ \E n \in Nodes : Arrive("node", n)
    \/ \E k \in FromBroker \ {"node"} : Arrive(k, Broker)
    \/ \E n \in Nodes, k \in FromPlugin : Send(n, k)
    \/ \E t \in Threads : Forwarding(t)

Spec == Init /\ [][Next]_vars

\* Every thread is scheduled, and every plugin returns from its call.
FairSpec == Spec /\ \A t \in Threads : WF_vars(Forwarding(t))

-----------------------------------------------------------------------------
(* Properties.                                                             *)

\* Types, and what a caller has left at each step.
TypeOK ==
    /\ proc \in {"up", "killed"}
    /\ loaded \in 0 .. Len(Rows)
    /\ lists \in [Kinds -> [by : Threads \cup {"NULL"}, nodes : SUBSET Places]]
    /\ call \in [Threads -> Call]
    /\ \A t \in Threads : call[t].pc \in {"row", "each"} => call[t].left # {}
    /\ sent \in Seq(Message)
    /\ heard \in [Nodes -> [Ids -> Nat]]

\* No plugin is called twice with one message: what a plugin sends is
\* forwarded to the others and published, and must not come back as well.  And
\* a driver does not hear what it sent itself (an app does: its own row is one
\* of those its message is forwarded to).
HeardOnce ==
    \A n \in Nodes, i \in Ids :
        heard[n][i] <= IF i <= Len(sent) /\ n \in Drivers /\ sent[i].from = n THEN 0 ELSE 1

\* The rows before the first that cannot be loaded.
Reachable ==
    {Rows[i] : i \in {j \in PropertyRows :
        \A k \in PropertyRows : k <= j => Rows[k] \notin NoPlugin}}

\* Once loading is over a message under way to the rows gets to all of them
\* up to the first that cannot be loaded, and to none behind it.
RowsAreReached ==
    \A t \in Threads, m \in Ids :
        (/\ call[t].pc = "row" /\ call[t].id = m /\ loaded = Len(Rows)
         /\ Route(sent[m]) = "rows")
        ~> (~up \/ {n \in Nodes : heard[n][m] > 0} = Reachable)

-----------------------------------------------------------------------------
(* What a comment says of a driver's messages, and the code does not do.   *)

\* driver.c, "msg from device-driver to app": what a driver sends gets to
\* every app that is loaded when it is sent.
DriversReachApps ==
    \A t \in Drivers, m \in Ids, a \in Apps :
        (call[t].pc = "look" /\ call[t].id = m /\ a \in Loaded)
        ~> (~up \/ heard[a][m] > 0)

-----------------------------------------------------------------------------
(* The inductive invariant.                                                *)

\* A thread forwards what it sent itself, the mqtt thread what came from the
\* broker: no message is forwarded by two.
CallersForwardTheirOwn ==
    \A t \in Threads : call[t].pc # "idle" =>
        call[t].id \in 1 .. Len(sent) /\ sent[call[t].id].from = t

\* A message has not been heard by the plugins it is yet to be forwarded to.
NotHeardAhead ==
    \A t \in Threads :
        /\ call[t].pc \in {"row", "each"}
              => \A i \in call[t].left : heard[Rows[i]][call[t].id] = 0
        /\ call[t].pc \in {"look", "fill", "assign", "iterate"}
              => \A n \in Nodes : heard[n][call[t].id] = 0

\* Nor one that has not been sent.
NotHeardBefore ==
    \A n \in Nodes, i \in Ids : i > Len(sent) => heard[n][i] = 0

\* The static list of a type, and the copy a caller makes, hold nodes of it.
ListsHoldTheirType ==
    /\ \A k \in Kinds : \A i \in lists[k].nodes : Rows[i] \in Of(k)
    /\ \A t \in Threads : call[t].pc \in {"assign", "each"} =>
          \A i \in call[t].left : Rows[i] \in Of(call[t].kind)

\* What a driver sends is forwarded to the apps.
DriversCallApps ==
    \A t \in Drivers : call[t].pc # "idle" => call[t].pc # "row" /\ call[t].kind = "apps"

IInv == TypeOK /\ HeardOnce /\ CallersForwardTheirOwn /\ NotHeardAhead
        /\ NotHeardBefore /\ ListsHoldTheirType /\ DriversCallApps
=============================================================================
