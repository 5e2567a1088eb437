---------------------------- MODULE GlobalConfig ----------------------------
(***************************************************************************)
(* Export and import of the whole configuration by one HTTP request        *)
(* (plugins/restful/global_config_handle.c).  The handler, a thread of     *)
(* nng, makes a context and sends the first command; from then on the      *)
(* plugin's thread takes each response and sends the next command, until   *)
(* it answers the request and frees the context.  Meanwhile other clients  *)
(* change the configuration, and the queue of commands can be full.        *)
(*                                                                         *)
(* What is left to do is the context's plan: a sequence of commands that   *)
(* the responses extend, in the place of the state, the arrays and the     *)
(* index of context_t.  Who takes the commands is external, and so is what *)
(* they do to the configuration; a node has the kind of its plugin.  The   *)
(* token and the body's arrival are in RestApi, blocks of memory that      *)
(* commands carry too.                                                     *)
(***************************************************************************)
EXTENDS JsonMessages, FiniteSets

CONSTANTS
    Configurations,  \* those the program may start with
    Documents,       \* what clients import
    KindOf,          \* plugin -> "APP", "DRIVER" or another kind
    Unloaded,        \* plugins whose nodes cannot be added
    Elsewhere,       \* the commands of other clients
    MaxElsewhere     \* how many of them come in between

VARIABLES
    config,    \* nodes, groups, tags, subscriptions, settings
    asked,     \* the request, or None
    thread,    \* where the handler's thread is
    context,   \* context_t, None when there is none
    mail,      \* the command or the response under way
    answers,   \* the codes that were answered, with the documents
    fate,      \* "up", or "undefined" after undefined behaviour
    before,    \* history: the configuration when the request came
    others,    \* history: how many commands of others were executed since
    setBack    \* history: the handler's thread wrote an earlier state

vars == <<config, asked, thread, context, mail, answers, fate, before, others, setBack>>

-----------------------------------------------------------------------------
(* The configuration, and what the commands do to it.                      *)

NodesOf(kind) == {n \in DOMAIN config.nodes : KindOf[config.nodes[n]] = kind}
Named(n)      == [name |-> n, plugin |-> config.nodes[n]]
TagsOf(d, g)  == {t[3] : t \in {u \in config.tags : u[1] = d /\ u[2] = g}}

Error(code)      == [type |-> "RESP_ERROR", error |-> code]
Found(type, seq) == [type |-> type, list |-> seq]

Without(n) ==
    [nodes |-> [m \in DOMAIN config.nodes \ {n} |-> config.nodes[m]],
     groups |-> [g \in {h \in DOMAIN config.groups : h[1] # n} |-> config.groups[g]],
     tags |-> {t \in config.tags : t[1] # n},
     subscriptions |-> {s \in config.subscriptions : n \notin {s[1], s[2]}},
     settings |-> [m \in DOMAIN config.settings \ {n} |-> config.settings[m]]]

\* The code of the error if the command cannot be executed.
ErrorOf(c) ==
    LET First(checks) == LET wrong == SelectSeq(checks, LAMBDA k : k[1])
                         IN  IF wrong = <<>> THEN "SUCCESS" ELSE Head(wrong)[2]
        group == <<c.driver, c.group>>
    IN  IF c.type \in {"GET_NODE", "GET_DRIVER_GROUP"} THEN "SUCCESS"
        ELSE IF c.type = "ADD_NODE"
        THEN First(<<<<c.node \in DOMAIN config.nodes, "NODE_EXIST">>,
                     <<c.plugin \in Unloaded, "LIBRARY_NOT_FOUND">>>>)
        ELSE IF c.node \notin DOMAIN config.nodes THEN "NODE_NOT_EXIST"
        ELSE CASE c.type = "ADD_GROUP" ->
                    First(<<<<KindOf[config.nodes[c.node]] # "DRIVER", "GROUP_NOT_ALLOW">>,
                            <<group \in DOMAIN config.groups, "GROUP_EXIST">>>>)
               [] c.type = "ADD_TAG" ->
                    First(<<<<KindOf[config.nodes[c.node]] # "DRIVER", "GROUP_NOT_ALLOW">>,
                            <<\E i \in DOMAIN c.tags, t \in TagsOf(c.driver, c.group) :
                                  c.tags[i].name = t.name, "TAG_NAME_CONFLICT">>>>)
               [] c.type = "GET_TAG" ->
                    First(<<<<group \notin DOMAIN config.groups, "GROUP_NOT_EXIST">>>>)
               [] c.type = "SUBSCRIBE_GROUP" ->
                    First(<<<<group \notin DOMAIN config.groups, "GROUP_NOT_EXIST">>,
                            <<<<c.node, c.driver, c.group>> \in config.subscriptions,
                              "GROUP_ALREADY_SUBSCRIBED">>>>)
               [] c.type = "GET_NODE_SETTING" ->
                    First(<<<<c.node \notin DOMAIN config.settings, "NODE_SETTING_NOT_FOUND">>>>)
               [] OTHER -> "SUCCESS"

Changed(c) ==
    CASE c.type = "DEL_NODE"  -> Without(c.node)
      [] c.type = "ADD_NODE"  -> [config EXCEPT !.nodes = (c.node :> c.plugin) @@ @]
      [] c.type = "ADD_GROUP" ->
            [config EXCEPT !.groups = (<<c.driver, c.group>> :> c.interval) @@ @]
         \* neu_adapter_driver_add_tag makes a group that is not there.
      [] c.type = "ADD_TAG"   ->
            [config EXCEPT !.groups = @ @@ (<<c.driver, c.group>> :> 3000),
                           !.tags = @ \cup {<<c.driver, c.group, c.tags[i]>> :
                                                i \in DOMAIN c.tags}]
      [] c.type = "SUBSCRIBE_GROUP" ->
            [config EXCEPT !.subscriptions = @ \cup {<<c.node, c.driver, c.group>>}]
      [] c.type = "NODE_SETTING" ->
            [config EXCEPT !.settings = (c.node :> c.setting) @@ @]
      [] OTHER -> config

ResponseOf(c) ==
    CASE ErrorOf(c) # "SUCCESS" -> Error(ErrorOf(c))
      [] c.type = "GET_NODE" ->
            Found("RESP_GET_NODE", SetToSeq({Named(n) : n \in NodesOf(c.kind)}))
      [] c.type = "GET_DRIVER_GROUP" ->
            Found("RESP_GET_DRIVER_GROUP",
                  SetToSeq({[driver |-> g[1], group |-> g[2], interval |-> config.groups[g],
                             tag_count |-> Cardinality(TagsOf(g[1], g[2]))] :
                                 g \in DOMAIN config.groups}))
      [] c.type = "GET_TAG" ->
            Found("RESP_GET_TAG", SetToSeq(TagsOf(c.driver, c.group)))
      [] c.type = "GET_SUBSCRIBE_GROUP" ->
            Found("RESP_GET_SUBSCRIBE_GROUP",
                  SetToSeq({[driver |-> s[2], group |-> s[3], params |-> None] :
                               s \in {t \in config.subscriptions : t[1] = c.node}}))
      [] c.type = "GET_NODE_SETTING" ->
            Found("RESP_GET_NODE_SETTING", <<config.settings[c.node]>>)
      [] OTHER -> Error("SUCCESS")

\* A setting can be refused by the plugin.
Serve ==
    /\ fate = "up" /\ mail # None /\ "error" \notin DOMAIN mail /\ "list" \notin DOMAIN mail
    /\ \/ /\ mail' = ResponseOf(mail)
          /\ config' = IF ErrorOf(mail) = "SUCCESS" THEN Changed(mail) ELSE config
       \/ /\ mail.type = "NODE_SETTING"
          /\ mail' = Error("NODE_SETTING_INVALID")
          /\ UNCHANGED config
    /\ UNCHANGED <<asked, thread, context, answers, fate, before, others, setBack>>

\* Another client's command is executed.
Interfere ==
    /\ fate = "up" /\ context # None /\ others < MaxElsewhere
    /\ \E c \in Elsewhere :
          /\ ErrorOf(c) = "SUCCESS"
          /\ config' = Changed(c)
    /\ others' = others + 1
    /\ UNCHANGED <<asked, thread, context, mail, answers, fate, before, setBack>>

-----------------------------------------------------------------------------
(* The commands.                                                           *)

get_nodes(kind)     == [type |-> "GET_NODE", kind |-> kind]
get_groups          == [type |-> "GET_DRIVER_GROUP"]
get_tags(g)         == [type |-> "GET_TAG", node |-> g.driver, driver |-> g.driver,
                        group |-> g.group]
get_subscriptions(n) == [type |-> "GET_SUBSCRIBE_GROUP", node |-> n.name]
get_setting(n)      == [type |-> "GET_NODE_SETTING", node |-> n.name]
del_node(n)         == [type |-> "DEL_NODE", node |-> n.name]
add_node(n)         == [type |-> "ADD_NODE", node |-> n.name, plugin |-> n.plugin]
add_group(g)        == [type |-> "ADD_GROUP", node |-> g.driver, driver |-> g.driver,
                        group |-> g.group, interval |-> g.interval]
add_tag(t)          == [type |-> "ADD_TAG", node |-> t.driver, driver |-> t.driver,
                        group |-> t.group, tags |-> t.tags]
add_subscription(app, g) == [type |-> "SUBSCRIBE_GROUP", node |-> app, driver |-> g.driver,
                             group |-> g.group]
add_setting(s)      == [type |-> "NODE_SETTING", node |-> s.node, setting |-> s.params]

Each(command(_), list) == [i \in DOMAIN list |-> command(list[i])]

\* Slip: whatever its name is.
is_static_nodeByPlugin(n) == n.plugin = "Monitor"

is_static_node(n) == n.name = "monitor" /\ n.plugin = "Monitor"
NotStatic(nodes)  == SelectSeq(nodes, LAMBDA n : ~ is_static_node(n))

\* The plan of an import behind the deletions; it is made when they are over.
Additions == [type |-> "ADDITIONS"]

Plan(req) ==
    Each(add_node, NotStatic(req.nodes)) \o Each(add_group, req.groups)
    \o Each(add_tag, req.tags)
    \o FlattenSeq([i \in DOMAIN req.subscriptions |->
          LET s == req.subscriptions[i]
          IN  [j \in DOMAIN s.groups |-> add_subscription(s.app, s.groups[j])]])
    \o Each(add_setting, req.settings)

-----------------------------------------------------------------------------
(* Steps of the context.  Its state is the command whose response it waits *)
(* for.                                                                    *)

Start == [type |-> "START"]

\* context_new
NewContext ==
    [state |-> Start, plan |-> <<>>, req |-> None, apps |-> <<>>, drivers |-> <<>>,
     json |-> [nodes |-> <<>>, groups |-> <<>>, tags |-> <<>>, subscriptions |-> <<>>,
               settings |-> <<>>]]

\* STATE_END: the answer, and context_free.
End(c, code) ==
    /\ answers' = Append(answers, [code |-> code, json |->
                      Object([key \in DOMAIN c.json |-> Array(c.json[key])])])
    /\ context' = None /\ mail' = None
    /\ UNCHANGED fate

Undefine == fate' = "undefined" /\ UNCHANGED <<context, mail, answers>>

\* Slip: that the queue is full is not answered.
FollowSilent(c, plan) ==
    IF plan = <<>> THEN End(c, "SUCCESS")
    ELSE \/ /\ mail' = Head(plan)
            /\ context' = [c EXCEPT !.plan = Tail(plan), !.state = Head(plan)]
            /\ UNCHANGED <<answers, fate>>
         \/ mail' = None /\ context' = None /\ UNCHANGED <<answers, fate>>

\* The first command of a plan is sent, or the queue is full; or nothing is left.
Follow(c, plan) ==
    IF plan = <<>> THEN End(c, "SUCCESS")
    ELSE \/ /\ mail' = Head(plan)
            /\ context' = [c EXCEPT !.plan = Tail(plan), !.state = Head(plan)]
            /\ UNCHANGED <<answers, fate>>
         \/ End(c, "IS_BUSY")

\* ctx->req is read when the deletions are over, and is NULL if the handler's
\* thread has not come that far.
Proceed(c, plan) ==
    CASE plan # <<Additions>>                   -> Follow(c, plan)
      [] plan = <<Additions>> /\ c.req # None -> Follow(c, Plan(c.req))
      [] plan = <<Additions>> /\ c.req = None -> Undefine

Restart(c) == Follow(c, <<get_nodes("APP")>>)

\* Slip: the second list is written over the first.
NodesHeardAnew(c, list) ==
    [c EXCEPT !.json.nodes = Encode(get_nodes_resp.enc, [nodes |-> list])[2].nodes[2]]

\* get_nodes_resp: the second list is appended to the first.
NodesHeard(c, list) ==
    [c EXCEPT !.json.nodes = @ \o Encode(get_nodes_resp.enc, [nodes |-> list])[2].nodes[2]]

\* get_groups_resp
GroupsHeard(c, list) ==
    [c EXCEPT !.json.groups = Encode(get_driver_group_resp.enc, [groups |-> list])[2].groups[2]]

\* get_tags_resp, get_subscriptions_resp: an empty list leaves no entry.
ListHeard(c, key, fields, list, owner) ==
    IF list = <<>> THEN c
    ELSE [c EXCEPT !.json[key] = Append(@,
             Object(owner @@ Encode(fields, [k \in Keys(fields) |-> list])[2]))]

\* get_setting_resp
SettingHeard(c, setting) ==
    [c EXCEPT !.json.settings = Append(@,
        Encode(get_node_setting_resp.enc, [node |-> c.state.node, params |-> setting]))]

\* Slip: an error in the place of tags is read as tags.
PassedOverSettings == {"GET_NODE_SETTING"}

\* The commands whose errors are passed over.
PassedOver == {"GET_TAG", "GET_NODE_SETTING"}

\* get_context_next.  The state can have been set back, and then a response is
\* taken for another.  A setting that is no JSON ends the export.
GetNext(c, r) ==
    CASE c.state = Start -> Restart(c)
      [] c.state = get_nodes("APP") /\ r.type = "RESP_GET_NODE" ->
            Follow([NodesHeard(c, r.list) EXCEPT !.apps = r.list], <<get_nodes("DRIVER")>>)
      [] c.state = get_nodes("DRIVER") ->
            Follow([NodesHeard(c, r.list) EXCEPT !.drivers = r.list], <<get_groups>>)
      [] c.state = get_groups ->
            Follow(GroupsHeard(c, r.list),
                   Each(get_tags, r.list) \o Each(get_subscriptions, c.apps)
                   \o Each(get_setting, c.apps \o c.drivers))
      [] c.state.type = "GET_TAG" /\ r.type = "RESP_GET_TAG" ->
            Follow(ListHeard(c, "tags", get_tags_resp.enc, r.list,
                             [driver |-> Text(c.state.driver), group |-> Text(c.state.group)]),
                   c.plan)
      [] c.state.type = "GET_SUBSCRIBE_GROUP" /\ r.type = "RESP_GET_SUBSCRIBE_GROUP" ->
            Follow(ListHeard(c, "subscriptions", get_subscribe_resp.enc, r.list,
                             [app |-> Text(c.state.node)]), c.plan)
      [] c.state.type = "GET_NODE_SETTING" /\ r.type = "RESP_GET_NODE_SETTING" ->
            IF r.list[1][1] = "object" THEN Follow(SettingHeard(c, r.list[1]), c.plan)
            ELSE End(c, "EINTERNAL")
      [] r.type = "RESP_ERROR" /\ c.state.type \in PassedOver -> Follow(c, c.plan)
      [] OTHER -> Undefine

\* The error in a response.  ADD_TAG's is read behind an index: in the answer
\* that there is no such node it is whatever is there.
ErrorsIn(c, r) ==
    IF c.state.type = "ADD_TAG" /\ r.error = "NODE_NOT_EXIST"
    THEN {"SUCCESS", "EINTERNAL"} ELSE {r.error}

\* put_context_next.  The first error ends the import.
PutNext(c, r) ==
    CASE c.state = Start -> Restart(c)
      [] c.state = get_nodes("APP") /\ r.type = "RESP_GET_NODE" ->
            Proceed(c, Each(del_node, NotStatic(r.list)) \o <<get_nodes("DRIVER")>>)
      [] c.state = get_nodes("DRIVER") ->
            Proceed(c, Each(del_node, NotStatic(r.list)) \o <<Additions>>)
      [] c.state.type # "GET_NODE" /\ r.type = "RESP_ERROR" /\ c.state # Start ->
            \E error \in ErrorsIn(c, r) :
               IF error = "SUCCESS" THEN Proceed(c, c.plan) ELSE End(c, error)
      [] OTHER -> Undefine

-----------------------------------------------------------------------------
(* The threads.                                                            *)

Init ==
    /\ config \in Configurations /\ before = config
    /\ asked = None /\ thread = "idle" /\ context = None /\ mail = None
    /\ answers = <<>> /\ fate = "up" /\ others = 0 /\ setBack = FALSE

Request(d) == Decode(global_config_req.dec, d)

\* A request arrives, whose body may be no configuration.
Ask ==
    /\ asked = None
    /\ \/ /\ asked' = [get |-> TRUE, body |-> None]
          /\ thread' = "begin" /\ UNCHANGED answers
       \/ \E d \in Documents :
             /\ asked' = [get |-> FALSE, body |-> d]
             /\ IF Request(d) # None
                THEN thread' = "begin" /\ UNCHANGED answers
                ELSE /\ thread' = "done"
                     /\ answers' = <<[code |-> "BODY_IS_WRONG", json |-> None]>>
    /\ UNCHANGED <<config, context, mail, fate, before, others, setBack>>

\* The first command is sent, and its response may come at once.
Begin ==
    /\ fate = "up" /\ thread = "begin"
    /\ \/ /\ mail' = get_nodes("APP") /\ context' = NewContext
          /\ thread' = "sent" /\ UNCHANGED <<answers, fate>>
       \/ /\ End(NewContext, "IS_BUSY")
          /\ thread' = IF asked.get THEN "done" ELSE "hand over"
    /\ UNCHANGED <<config, asked, before, others, setBack>>

\* ctx->state = STATE_GET_APP, whatever the state is by now.  The code then looks
\* at the state once more; that look is part of this step, so what the other
\* thread does between the two is taken to come before both or after.
SetState ==
    /\ fate = "up" /\ thread = "sent"
    /\ thread' = IF asked.get THEN "done" ELSE "hand over"
    /\ IF context = None THEN fate' = "undefined" /\ UNCHANGED <<context, setBack>>
       ELSE /\ context' = [context EXCEPT !.state = get_nodes("APP")]
            /\ setBack' = (context.state \notin {Start, get_nodes("APP")})
            /\ UNCHANGED fate
    /\ UNCHANGED <<config, asked, mail, answers, before, others>>

\* ctx->req = req, whether the context is there or not.
HandOver ==
    /\ fate = "up" /\ thread = "hand over"
    /\ thread' = "done"
    /\ IF context = None THEN fate' = "undefined" /\ UNCHANGED context
       ELSE context' = [context EXCEPT !.req = Request(asked.body)] /\ UNCHANGED fate
    /\ UNCHANGED <<config, asked, mail, answers, before, others, setBack>>

\* handle_global_config_resp, in the plugin's thread.
Respond ==
    /\ fate = "up" /\ mail # None
    /\ "error" \in DOMAIN mail \/ "list" \in DOMAIN mail
    /\ IF asked.get THEN GetNext(context, mail) ELSE PutNext(context, mail)
    /\ UNCHANGED <<config, asked, thread, before, others, setBack>>

Handler == Begin \/ SetState \/ HandOver

Next == Ask \/ Handler \/ Serve \/ Respond \/ Interfere

\* The handler's thread and both loops go on.
Spec == Init /\ [][Next]_vars /\ WF_vars(Handler) /\ WF_vars(Serve) /\ WF_vars(Respond)

-----------------------------------------------------------------------------
(* Properties.                                                             *)

Elements(list) == {list[i] : i \in DOMAIN list}

\* What a decoded document says of the configuration.
Meaning(req) ==
    [nodes |-> {<<n.name, n.plugin>> : n \in Elements(req.nodes)},
     groups |-> {<<g.driver, g.group, g.interval>> : g \in Elements(req.groups)},
     tags |-> UNION {{<<e.driver, e.group, t>> : t \in Elements(e.tags)} :
                        e \in Elements(req.tags)},
     subscriptions |-> UNION {{<<e.app, g.driver, g.group>> : g \in Elements(e.groups)} :
                                 e \in Elements(req.subscriptions)},
     settings |-> {<<e.node, e.params>> : e \in Elements(req.settings)}]

\* The part of a configuration that is about apps and drivers.
Exported(w) ==
    LET In(n) == KindOf[w.nodes[n]] \in {"APP", "DRIVER"}
    IN  [nodes |-> {<<n, w.nodes[n]>> : n \in {m \in DOMAIN w.nodes : In(m)}},
         groups |-> {<<g[1], g[2], w.groups[g]>> : g \in DOMAIN w.groups},
         tags |-> w.tags,
         subscriptions |-> {s \in w.subscriptions : In(s[1])},
         settings |-> {<<n, w.settings[n]>> : n \in {m \in DOMAIN w.settings : In(m)}}]

Answered(code) == answers # <<>> /\ Last(answers).code = code

\* An export that succeeds while nobody changes anything can be imported, and
\* says what the apps and drivers are, with their groups, tags, subscriptions
\* and settings.  It fails to if the handler's thread is so late that it sets
\* the state of the context back (global_config_handle.c:172).
ExportIsWhole ==
    (/\ fate = "up" /\ asked # None /\ Answered("SUCCESS")
     /\ asked.get /\ others = 0 /\ ~ setBack /\ Exported(config).nodes # {}) =>
            /\ Request(Last(answers).json) # None
            /\ Meaning(Request(Last(answers).json)) = Exported(config)

\* What an import leaves where nobody else changes anything: the nodes of other
\* kinds and the static one as they were, and the document.  Tags of nodes
\* that are no drivers go where the memory behind the error says.
Imported(w, m) ==
    LET static(n) == n = "monitor" /\ w.nodes[n] = "Monitor"
        kept == {n \in DOMAIN w.nodes : static(n) \/ KindOf[w.nodes[n]] \notin {"APP", "DRIVER"}}
        nodes == {<<n, w.nodes[n]>> : n \in kept}
                 \cup {n \in m.nodes : n # <<"monitor", "Monitor">>}
        tags == {t \in m.tags : \E n \in nodes : n[1] = t[1]}
        told == {s[1] : s \in m.settings}
    IN  [nodes |-> nodes,
         groups |-> m.groups \cup {<<t[1], t[2], 3000>> : t \in
                        {u \in tags : \A g \in m.groups : <<g[1], g[2]>> # <<u[1], u[2]>>}},
         tags |-> tags,
         subscriptions |-> m.subscriptions \cup {s \in w.subscriptions : s[1] \in kept /\ s[2] \in kept},
         settings |-> m.settings \cup {<<n, w.settings[n]>> : n \in
                          (DOMAIN w.settings \cap kept) \ told}]

Sets(w) == [nodes |-> {<<n, w.nodes[n]>> : n \in DOMAIN w.nodes},
            groups |-> {<<g[1], g[2], w.groups[g]>> : g \in DOMAIN w.groups},
            tags |-> w.tags, subscriptions |-> w.subscriptions,
            settings |-> {<<n, w.settings[n]>> : n \in DOMAIN w.settings}]

\* An import that is answered with success, while nobody else changes anything,
\* has been applied as a whole; an export changes nothing.
ImportIsApplied ==
    (fate = "up" /\ asked # None /\ others = 0 /\ Answered("SUCCESS")) =>
        Sets(config) = IF asked.get THEN Sets(before)
                       ELSE Imported(before, Meaning(Request(asked.body)))

\* What the plugin's thread and the handler's do with the context is defined,
\* but for three cases: the handler's thread touches the context, or the
\* request is missed in it, after the other has come further than the first
\* response; the first command was not taken (the request is put into a context
\* that was freed); an app was deleted while the configuration was exported.
UndefinedWhen ==
    fate = "undefined" =>
        \/ setBack
        \/ ~ asked.get /\ (context = None \/ context.req = None)
        \/ asked.get /\ context = None
        \/ asked.get /\ others > 0 /\ context.state.type = "GET_SUBSCRIBE_GROUP"

\* A request is answered, unless the behaviour is undefined, and not twice.
EveryoneIsAnswered ==
    (asked # None) ~> (Len(answers) = 1 \/ fate = "undefined")
=============================================================================
