------------------------------ MODULE RestApi -------------------------------
(***************************************************************************)
(* The REST plugin: one HTTP request from its arrival to its answer        *)
(* (plugins/restful, the macros of utils/http_handler.h, utils/http.c).    *)
(* Its handler, a thread of nng, checks the token, decodes the body,       *)
(* checks the fields and sends a command by neu_plugin_op; another thread  *)
(* takes the command and answers; the plugin's thread turns that answer    *)
(* into the HTTP response.  A command may carry memory of the request, and *)
(* then the handler and the receiver must agree on who frees it.           *)
(*                                                                         *)
(* Strings are short, empty or too long for their field ("long").  A       *)
(* setting and tags are taken by manager_loop and adapter_loop; who takes  *)
(* the other commands that carry memory is external: any program that      *)
(* answers each command once, as the comments of adapter.h pair the        *)
(* messages, and that frees what the command carries.  manager_loop of     *)
(* this version passes on seven of the commands only; NodeControl models   *)
(* it.  The import and export of the whole configuration, many commands in *)
(* a row, are in GlobalConfig.                                             *)
(***************************************************************************)
EXTENDS JsonMessages

CONSTANTS
    Bodies,      \* endpoint -> the structures a client sends
    Strays,      \* endpoint -> documents that are no such structure
    Passed,      \* the commands that somebody takes
    PluginCode   \* a plugin's own code outside 10000..20000 (errcodes.h:151)

VARIABLES
    pc,          \* where the handler is
    endpoint,    \* the handler's name
    meant,       \* history: the structure the client sends, or None
    doc,         \* the body, or the parameters
    req,         \* what is decoded from it
    command,     \* the command that is sent, or None
    receiver,    \* what became of it: "none", "queued", then the response
    memory,      \* who holds the block the command carries, how often freed
    answers,     \* the codes that were answered, in order
    fate         \* "up", or why the process aborted

vars == <<pc, endpoint, meant, doc, req, command, receiver, memory, answers, fate>>

-----------------------------------------------------------------------------
(* The requests.                                                           *)

\* handle.c rest_handlers, and the handlers that are compiled and not in it.
Messages == [
    handle_login                   |-> login_req,
    handle_password                |-> password_req,
    handle_add_adapter             |-> add_node_req,
    handle_update_adapter          |-> update_node_req,
    handle_del_adapter             |-> del_node_req,
    handle_set_node_setting        |-> node_setting_req,
    handle_node_ctl                |-> node_ctl_req,
    handle_add_plugin              |-> add_plugin_req,
    handle_del_plugin              |-> del_plugin_req,
    handle_add_group_config        |-> add_group_config_req,
    handle_update_group            |-> update_group_config_req,
    handle_del_group_config        |-> del_group_config_req,
    handle_grp_subscribe           |-> subscribe_req,
    handle_grp_update_subscribe    |-> subscribe_req,
    handle_grp_unsubscribe         |-> unsubscribe_req,
    handle_grp_subscribes          |-> subscribe_groups_req,
    handle_add_tags                |-> add_tags_req,
    handle_del_tags                |-> del_tags_req,
    handle_update_tags             |-> update_tags_req,
    handle_read                    |-> read_req,
    handle_write                   |-> write_req,
    handle_write_tags              |-> write_tags_req,
    handle_add_template            |-> template,
    handle_add_template_group      |-> template_mod_group_req,
    handle_update_template_group   |-> template_mod_group_req,
    handle_del_template_group      |-> template_del_group_req,
    handle_add_template_tags       |-> template_mod_tags_req,
    handle_update_template_tags    |-> template_mod_tags_req,
    handle_del_template_tags       |-> template_del_tags_req,
    handle_instantiate_template    |-> template_inst_req,
    handle_instantiate_templates   |-> template_insts_req,
    handle_add_ndriver_map         |-> ndriver_map,
    handle_del_ndriver_map         |-> ndriver_map,
    handle_put_ndriver_tag_param   |-> update_ndriver_tag_param_req,
    handle_put_ndriver_tag_info    |-> update_ndriver_tag_info_req,
    handle_log_level               |-> update_log_level_req]

\* What the handlers without a body read with neu_http_get_param.
Parameters == [
    handle_ping                    |-> {},
    handle_get_adapter             |-> {"type", "plugin", "node"},
    handle_get_node_setting        |-> {"node"},
    handle_get_node_state          |-> {"node"},
    handle_get_plugin              |-> {"plugin"},
    handle_get_group_config        |-> {"node"},
    handle_grp_get_subscribe       |-> {"app"},
    handle_get_tags                |-> {"node", "group", "name"},
    handle_del_template            |-> {"name"},
    handle_get_template            |-> {"name"},
    handle_get_template_tags       |-> {"template", "group", "name"},
    handle_get_template_group      |-> {"name"},
    handle_get_ndriver_maps        |-> {"ndriver"},
    handle_get_ndriver_tags        |-> {"ndriver", "driver", "group"},
    handle_get_plugin_schema       |-> {"schema_name", "plugin_name"},
    handle_logs_files              |-> {},
    handle_file_info               |-> {"dir_path"},
    handle_download_file           |-> {"file_path"},
    handle_get_version             |-> {}]

WithBody  == DOMAIN Messages
Endpoints == WithBody \cup DOMAIN Parameters

\* The clients of this repository write with its encoders, where they can.
Written(e, m) ==
    Encode(IF Messages[e].enc = <<>> \/ e = "handle_update_adapter"
           THEN Messages[e].dec ELSE Messages[e].enc, m)

\* What a client sends is a structure of the message, and for a change of a
\* group one that changes something.
ASSUME BodiesAssumption ==
    /\ \A e \in Endpoints : {None, Undefined} \cap Bodies[e] = {}
    /\ \A e \in WithBody : \A m \in Bodies[e] :
          /\ Complete(Messages[e].dec, m)
          /\ e = "handle_update_group" => m.new_name # None \/ m.interval # None

\* The decoder each handler names.
Read(e, d) ==
    CASE e = "handle_update_group"          -> read_update_group(d)
      [] e = "handle_write_tags"            -> read_write_tags(d)
      [] e = "handle_instantiate_templates" -> read_template_insts(d)
      [] e \in {"handle_add_tags", "handle_update_tags", "handle_add_template_tags",
                "handle_update_template_tags"} -> read_tags(Messages[e], d)
      [] OTHER                              -> Decode(Messages[e].dec, d)

-----------------------------------------------------------------------------
(* Commands and their answers.  A command may carry a block of memory.     *)
(* The block is its own ("own": lost if the command is not taken, "tidy":  *)
(* freed then), or it is still the request's until the command is taken    *)
(* ("lent").                                                               *)

\* adapter.h: the answers that are not RESP_ERROR.
ResponseTo == [
    GET_PLUGIN |-> "RESP_GET_PLUGIN", GET_NODE |-> "RESP_GET_NODE",
    GET_GROUP |-> "RESP_GET_GROUP", GET_TEMPLATE_GROUP |-> "RESP_GET_GROUP",
    GET_DRIVER_GROUP |-> "RESP_GET_DRIVER_GROUP",
    ADD_TAG |-> "RESP_ADD_TAG", ADD_TEMPLATE_TAG |-> "RESP_ADD_TEMPLATE_TAG",
    UPDATE_TAG |-> "RESP_UPDATE_TAG", UPDATE_TEMPLATE_TAG |-> "RESP_UPDATE_TEMPLATE_TAG",
    GET_TAG |-> "RESP_GET_TAG", GET_TEMPLATE_TAG |-> "RESP_GET_TEMPLATE_TAG",
    GET_SUBSCRIBE_GROUP |-> "RESP_GET_SUBSCRIBE_GROUP",
    GET_NODE_SETTING |-> "RESP_GET_NODE_SETTING",
    GET_NODES_STATE |-> "RESP_GET_NODES_STATE", GET_NODE_STATE |-> "RESP_GET_NODE_STATE",
    READ_GROUP |-> "RESP_READ_GROUP",
    GET_TEMPLATE |-> "RESP_GET_TEMPLATE", GET_TEMPLATES |-> "RESP_GET_TEMPLATES",
    GET_NDRIVER_MAPS |-> "RESP_GET_NDRIVER_MAPS", GET_NDRIVER_TAGS |-> "RESP_GET_NDRIVER_TAGS"]

Types == DOMAIN ResponseTo \cup
    {"ADD_NODE", "UPDATE_NODE", "DEL_NODE", "NODE_SETTING", "NODE_CTL", "UPDATE_LOG_LEVEL",
     "ADD_PLUGIN", "DEL_PLUGIN", "ADD_GROUP", "UPDATE_GROUP", "DEL_GROUP", "SUBSCRIBE_GROUP",
     "UPDATE_SUBSCRIBE_GROUP", "UNSUBSCRIBE_GROUP", "SUBSCRIBE_GROUPS", "DEL_TAG",
     "WRITE_TAG", "WRITE_TAGS", "ADD_TEMPLATE", "DEL_TEMPLATE", "ADD_TEMPLATE_GROUP",
     "UPDATE_TEMPLATE_GROUP", "DEL_TEMPLATE_GROUP", "DEL_TEMPLATE_TAG", "INST_TEMPLATE",
     "INST_TEMPLATES", "ADD_NDRIVER_MAP", "DEL_NDRIVER_MAP",
     "UPDATE_NDRIVER_TAG_PARAM", "UPDATE_NDRIVER_TAG_INFO"}
Blocks == {"none", "own", "tidy", "lent"}

\* What these carry is always the command's own.
HandedOn == {"NODE_SETTING", "ADD_TAG", "UPDATE_TAG", "DEL_TAG"}
Commands == {c \in [type : Types, block : Blocks] :
                c.type \in HandedOn => c.block = "own"}

ASSUME NoneAssumption == None # Undefined /\ {None, Undefined} \cap Commands = {}

-----------------------------------------------------------------------------
(* Handlers: from what was decoded to the outcomes, each the codes that    *)
(* are answered at once and the command that is sent.                      *)

Outcome(codes, send) == [answers |-> codes, send |-> send]
Answered(code)       == Outcome(<<code>>, None)
Crashed              == Outcome(<<>>, Undefined)
SendsWith(type, block) == Outcome(<<>>, [type |-> type, block |-> block])
Sends(type)            == SendsWith(type, "none")

\* A check has the code that is answered if it fails.
When(wrong, code) == IF wrong THEN {code} ELSE {}

\* The code of the first check that fails; none if they all pass.
First(checks) ==
    UNION {checks[i] : i \in {k \in DOMAIN checks :
        checks[k] # {} /\ \A j \in DOMAIN checks : checks[j] # {} => k <= j}}

\* Slip: the handler goes on after it has answered.
UnlessGoesOn(checks, outcome) ==
    IF First(checks) = {} THEN {outcome}
    ELSE {Outcome(<<code>>, outcome.send) : code \in First(checks)}

\* The first check that fails is answered.
Unless(checks, outcome) ==
    IF First(checks) = {} THEN {outcome} ELSE {Answered(code) : code \in First(checks)}

Long(s)    == s = "long"
Fits(s)    == s \notin {None, "", "long"}    \* a parameter within its buffer
Present(s) == s \notin {None, ""}            \* a parameter of any length
TooShort(interval) == interval < 1

-----------------------------------------------------------------------------
(* normal_handle.c, user.c, log_handle.c, file_handle.c, version_handle.c  *)

handle_ping(r) == {Answered("SUCCESS")}

\* A token that could not be made is answered, and the login goes on.
handle_login(r) ==
    {Answered("INVALID_USER")} \cup
    IF r.pass \in {"", "long"} THEN {Answered("INVALID_PASSWORD_LEN")}
    ELSE {Answered("SUCCESS"), Outcome(<<"NEED_TOKEN", "SUCCESS">>, None),
          Answered("INVALID_PASSWORD")}

handle_password(r) ==
    IF r.new_pass \in {"", "long"} THEN {Answered("INVALID_PASSWORD_LEN")}
    ELSE {Answered(code) : code \in {"INVALID_USER", "INVALID_PASSWORD", "SUCCESS",
                                     "EINTERNAL", "DUPLICATE_PASSWORD"}}

handle_get_plugin_schema(r) ==
    IF r.schema_name = None /\ r.plugin_name = None THEN {Answered("BODY_IS_WRONG")}
    ELSE {Answered(code) : code \in {"SUCCESS", "EINTERNAL", "NOT_FOUND"}}

read_file == {"SUCCESS", "FILE_NOT_EXIST", "FILE_OPEN_FAILURE", "EINTERNAL",
              "FILE_READ_FAILURE"}

handle_logs_files(r) ==
    {Answered(code) : code \in read_file \cup {"FILE_NOT_EXIST", "COMMAND_EXECUTION_FAILED"}}

\* Neither level that cannot be set keeps the command from being sent.
handle_log_level(r) ==
    {Outcome(codes, Sends("UPDATE_LOG_LEVEL").send) :
        codes \in {<<>>, <<"EINTERNAL">>, <<"EINTERNAL", "EINTERNAL">>}}

handle_file_info(r) ==
    IF ~ Present(r.dir_path) THEN {Answered("PARAM_IS_WRONG")}
    ELSE {Answered(code) : code \in {"FILE_NOT_EXIST", "FILE_OPEN_FAILURE", "SUCCESS"}}

\* The name of the file is looked for behind a slash that is taken for granted.
handle_download_file(r) ==
    IF ~ Present(r.file_path) THEN {Answered("PARAM_IS_WRONG")}
    ELSE {Answered(code) : code \in read_file \ {"SUCCESS"}}
         \cup {IF r.file_path = "bare" THEN Crashed ELSE Answered("SUCCESS")}

handle_get_version(r) == {Answered("SUCCESS"), Answered("EINTERNAL")}

-----------------------------------------------------------------------------
(* adapter_handle.c, plugin_handle.c                                       *)

handle_add_adapter(r) == Unless(<<When(Long(r.name), "NODE_NAME_TOO_LONG")>>, Sends("ADD_NODE"))

handle_update_adapter(r) ==
    Unless(<<When(Long(r.name),     "NODE_NAME_TOO_LONG"),
             When(Long(r.new_name), "NODE_NAME_TOO_LONG"),
             When(r.new_name = "",  "NODE_NAME_EMPTY")>>, Sends("UPDATE_NODE"))

handle_del_adapter(r) == {Sends("DEL_NODE")}

\* neu_http_get_param_node_type: the type is a number.
handle_get_adapter(r) == Unless(<<When(r.type # "x", "PARAM_IS_WRONG")>>, Sends("GET_NODE"))

handle_set_node_setting(r) == {SendsWith("NODE_SETTING", "own")}

handle_get_node_setting(r) ==
    Unless(<<When(~ Present(r.node), "PARAM_IS_WRONG")>>, Sends("GET_NODE_SETTING"))

handle_node_ctl(r) == {Sends("NODE_CTL")}

handle_get_node_state(r) ==
    {Sends(IF Present(r.node) THEN "GET_NODE_STATE" ELSE "GET_NODES_STATE")}

handle_add_plugin(r) == {Sends("ADD_PLUGIN")}
handle_del_plugin(r) == Unless(<<When(Long(r.plugin), "BODY_IS_WRONG")>>, Sends("DEL_PLUGIN"))
handle_get_plugin(r) == {Sends("GET_PLUGIN")}

-----------------------------------------------------------------------------
(* group_config_handle.c                                                   *)

handle_add_group_config(r) ==
    Unless(<<When(Long(r.group), "GROUP_NAME_TOO_LONG")>>, Sends("ADD_GROUP"))

send_update_group(r) ==
    Unless(<<When(Long(r.node),  "NODE_NAME_TOO_LONG"),
             When(Long(r.group), "GROUP_NAME_TOO_LONG"),
             When(r.interval # None /\ TooShort(r.interval), "GROUP_PARAMETER_INVALID"),
             When(r.new_name = "",  "BODY_IS_WRONG"),
             When(Long(r.new_name), "GROUP_NAME_TOO_LONG")>>, Sends("UPDATE_GROUP"))

handle_del_group_config(r) == {Sends("DEL_GROUP")}

handle_get_group_config(r) ==
    {Sends(IF Present(r.node) THEN "GET_GROUP" ELSE "GET_DRIVER_GROUP")}

send_subscribe(type, r) == {SendsWith(type, IF r.params = None THEN "none" ELSE "own")}

handle_grp_unsubscribe(r) == {Sends("UNSUBSCRIBE_GROUP")}

send_subscribe_groups(r) == {SendsWith("SUBSCRIBE_GROUPS", "lent")}

handle_grp_get_subscribe(r) ==
    Unless(<<When(~ Present(r.app), "PARAM_IS_WRONG")>>, Sends("GET_SUBSCRIBE_GROUP"))

-----------------------------------------------------------------------------
(* datatag_handle.c, rw_handle.c                                           *)

handle_add_tags(r) ==
    Unless(<<When(Long(r.group), "GROUP_NAME_TOO_LONG")>>, SendsWith("ADD_TAG", "own"))

handle_del_tags(r)    == {SendsWith("DEL_TAG", "own")}
handle_update_tags(r) == {SendsWith("UPDATE_TAG", "own")}

handle_get_tags(r) ==
    Unless(<<When(~ Present(r.node) \/ ~ Present(r.group), "PARAM_IS_WRONG")>>, Sends("GET_TAG"))

handle_read(r) == {Sends("READ_GROUP")}

handle_write(r) ==
    Unless(<<When(r.value = Text("long"), "STRING_TOO_LONG")>>, Sends("WRITE_TAG"))

handle_write_tags(r) ==
    Unless(<<When(\E i \in DOMAIN r.tags : r.tags[i].value = Text("long"), "STRING_TOO_LONG")>>,
           SendsWith("WRITE_TAGS", "own"))

-----------------------------------------------------------------------------
(* template_handle.c                                                       *)

\* set_tag_by_json
TagError(tag) == First(<<When(Long(tag.name),    "TAG_NAME_TOO_LONG"),
                         When(Long(tag.address), "TAG_ADDRESS_TOO_LONG")>>)
TagErrors(tags) == First([i \in DOMAIN tags |-> TagError(tags[i])])

GroupError(group) == First(<<When(Long(group.name),         "GROUP_NAME_TOO_LONG"),
                             When(TooShort(group.interval), "GROUP_PARAMETER_INVALID"),
                             TagErrors(group.tags)>>)

\* move_template_json: what was moved is freed with the command.
handle_add_template(r) ==
    Unless(<<When(Long(r.name),   "TEMPLATE_NAME_TOO_LONG"),
             When(Long(r.plugin), "PLUGIN_NAME_TOO_LONG"),
             First([i \in DOMAIN r.groups |-> GroupError(r.groups[i])])>>,
           SendsWith("ADD_TEMPLATE", "tidy"))

\* Without a name all templates go.
handle_del_template(r) ==
    Unless(<<When(r.name \in {"", "long"}, "PARAM_IS_WRONG")>>, Sends("DEL_TEMPLATE"))

handle_get_template(r) ==
    Unless(<<When(r.name \in {"", "long"}, "PARAM_IS_WRONG")>>,
           Sends(IF r.name = None THEN "GET_TEMPLATES" ELSE "GET_TEMPLATE"))

GroupOf(r) == First(<<When(Long(r.template), "TEMPLATE_NAME_TOO_LONG"),
                      When(Long(r.group),    "GROUP_NAME_TOO_LONG")>>)

send_template_mod_group_req(type, r) ==
    Unless(<<GroupOf(r), When(TooShort(r.interval), "GROUP_PARAMETER_INVALID")>>, Sends(type))

send_template_del_group_req(r) == Unless(<<GroupOf(r)>>, Sends("DEL_TEMPLATE_GROUP"))

send_template_mod_tags_req(type, r) ==
    Unless(<<GroupOf(r), TagErrors(r.tags)>>, SendsWith(type, "tidy"))

send_template_del_tags_req(r) ==
    Unless(<<GroupOf(r),
             First([i \in DOMAIN r.tags |-> When(Long(r.tags[i]), "TAG_NAME_TOO_LONG")])>>,
           SendsWith("DEL_TEMPLATE_TAG", "tidy"))

handle_get_template_tags(r) ==
    Unless(<<When(~ Fits(r.template) \/ ~ Fits(r.group) \/ r.name \in {"", "long"},
               "PARAM_IS_WRONG")>>, Sends("GET_TEMPLATE_TAG"))

InstErrors(inst) == First(<<When(Long(inst.name), "TEMPLATE_NAME_TOO_LONG"),
                            When(Long(inst.node), "PLUGIN_NAME_TOO_LONG")>>)

send_template_inst_req(r) == Unless(<<InstErrors(r)>>, Sends("INST_TEMPLATE"))

send_template_insts_req(r) ==
    Unless(<<First([i \in DOMAIN r.nodes |-> InstErrors(r.nodes[i])])>>,
           SendsWith("INST_TEMPLATES", "lent"))

handle_get_template_group(r) ==
    Unless(<<When(~ Fits(r.name), "PARAM_IS_WRONG")>>, Sends("GET_TEMPLATE_GROUP"))

-----------------------------------------------------------------------------
(* ndriver_handle.c                                                        *)

send_ndriver_map_req(type, r) ==
    Unless(<<When(Long(r.ndriver) \/ Long(r.driver) \/ Long(r.group), "NODE_NAME_TOO_LONG")>>,
           Sends(type))

handle_get_ndriver_maps(r) ==
    Unless(<<When(~ Fits(r.ndriver), "PARAM_IS_WRONG")>>, Sends("GET_NDRIVER_MAPS"))

send_update_ndriver_tag_param_req(r) == {SendsWith("UPDATE_NDRIVER_TAG_PARAM", "tidy")}
send_update_ndriver_tag_info_req(r)  == {SendsWith("UPDATE_NDRIVER_TAG_INFO", "tidy")}

handle_get_ndriver_tags(r) ==
    Unless(<<When(~ Fits(r.ndriver) \/ ~ Fits(r.driver) \/ ~ Fits(r.group), "PARAM_IS_WRONG")>>,
           Sends("GET_NDRIVER_TAGS"))

Handled(e, r) ==
    CASE e = "handle_ping"                  -> handle_ping(r)
      [] e = "handle_login"                 -> handle_login(r)
      [] e = "handle_password"              -> handle_password(r)
      [] e = "handle_get_plugin_schema"     -> handle_get_plugin_schema(r)
      [] e = "handle_logs_files"            -> handle_logs_files(r)
      [] e = "handle_log_level"             -> handle_log_level(r)
      [] e = "handle_file_info"             -> handle_file_info(r)
      [] e = "handle_download_file"         -> handle_download_file(r)
      [] e = "handle_get_version"           -> handle_get_version(r)
      [] e = "handle_add_adapter"           -> handle_add_adapter(r)
      [] e = "handle_update_adapter"        -> handle_update_adapter(r)
      [] e = "handle_del_adapter"           -> handle_del_adapter(r)
      [] e = "handle_get_adapter"           -> handle_get_adapter(r)
      [] e = "handle_set_node_setting"      -> handle_set_node_setting(r)
      [] e = "handle_get_node_setting"      -> handle_get_node_setting(r)
      [] e = "handle_node_ctl"              -> handle_node_ctl(r)
      [] e = "handle_get_node_state"        -> handle_get_node_state(r)
      [] e = "handle_add_plugin"            -> handle_add_plugin(r)
      [] e = "handle_del_plugin"            -> handle_del_plugin(r)
      [] e = "handle_get_plugin"            -> handle_get_plugin(r)
      [] e = "handle_add_group_config"      -> handle_add_group_config(r)
      [] e = "handle_update_group"          -> send_update_group(r)
      [] e = "handle_del_group_config"      -> handle_del_group_config(r)
      [] e = "handle_get_group_config"      -> handle_get_group_config(r)
      [] e = "handle_grp_subscribe"         -> send_subscribe("SUBSCRIBE_GROUP", r)
      [] e = "handle_grp_update_subscribe"  -> send_subscribe("UPDATE_SUBSCRIBE_GROUP", r)
      [] e = "handle_grp_unsubscribe"       -> handle_grp_unsubscribe(r)
      [] e = "handle_grp_subscribes"        -> send_subscribe_groups(r)
      [] e = "handle_grp_get_subscribe"     -> handle_grp_get_subscribe(r)
      [] e = "handle_add_tags"              -> handle_add_tags(r)
      [] e = "handle_del_tags"              -> handle_del_tags(r)
      [] e = "handle_update_tags"           -> handle_update_tags(r)
      [] e = "handle_get_tags"              -> handle_get_tags(r)
      [] e = "handle_read"                  -> handle_read(r)
      [] e = "handle_write"                 -> handle_write(r)
      [] e = "handle_write_tags"            -> handle_write_tags(r)
      [] e = "handle_add_template"          -> handle_add_template(r)
      [] e = "handle_del_template"          -> handle_del_template(r)
      [] e = "handle_get_template"          -> handle_get_template(r)
      [] e = "handle_add_template_group"    -> send_template_mod_group_req("ADD_TEMPLATE_GROUP", r)
      [] e = "handle_update_template_group" -> send_template_mod_group_req("UPDATE_TEMPLATE_GROUP", r)
      [] e = "handle_del_template_group"    -> send_template_del_group_req(r)
      [] e = "handle_add_template_tags"     -> send_template_mod_tags_req("ADD_TEMPLATE_TAG", r)
      [] e = "handle_update_template_tags"  -> send_template_mod_tags_req("UPDATE_TEMPLATE_TAG", r)
      [] e = "handle_del_template_tags"     -> send_template_del_tags_req(r)
      [] e = "handle_get_template_tags"     -> handle_get_template_tags(r)
      [] e = "handle_get_template_group"    -> handle_get_template_group(r)
      [] e = "handle_instantiate_template"  -> send_template_inst_req(r)
      [] e = "handle_instantiate_templates" -> send_template_insts_req(r)
      [] e = "handle_add_ndriver_map"       -> send_ndriver_map_req("ADD_NDRIVER_MAP", r)
      [] e = "handle_del_ndriver_map"       -> send_ndriver_map_req("DEL_NDRIVER_MAP", r)
      [] e = "handle_get_ndriver_maps"      -> handle_get_ndriver_maps(r)
      [] e = "handle_put_ndriver_tag_param" -> send_update_ndriver_tag_param_req(r)
      [] e = "handle_put_ndriver_tag_info"  -> send_update_ndriver_tag_info_req(r)
      [] e = "handle_get_ndriver_tags"      -> handle_get_ndriver_tags(r)

-----------------------------------------------------------------------------
(* neu_http_response: the codes that have a status, of those answered      *)
(* here.  For any other the process makes an assertion.                    *)

OK == {"SUCCESS", "NODE_SETTING_NOT_FOUND", "PLUGIN_TAG_NOT_ALLOW_WRITE",
       "PLUGIN_NOT_RUNNING", "STRING_TOO_LONG"}
PartialContent == {"TAG_NAME_TOO_LONG", "TAG_ADDRESS_TOO_LONG"}
BadRequest == {"BODY_IS_WRONG", "PARAM_IS_WRONG", "NODE_SETTING_INVALID",
               "GROUP_PARAMETER_INVALID", "LIBRARY_FAILED_TO_OPEN", "NODE_NAME_TOO_LONG",
               "NODE_NAME_EMPTY", "GROUP_NAME_TOO_LONG", "INVALID_PASSWORD_LEN",
               "DUPLICATE_PASSWORD", "TEMPLATE_NAME_TOO_LONG", "PLUGIN_NAME_TOO_LONG"}
Unauthorized == {"NEED_TOKEN", "DECODE_TOKEN", "INVALID_USER", "INVALID_PASSWORD"}
Forbidden == {"EXPIRED_TOKEN", "VALIDATE_TOKEN"}
NotFound == {"NOT_FOUND", "FILE_NOT_EXIST", "FILE_OPEN_FAILURE", "FILE_READ_FAILURE",
             "LIBRARY_NOT_FOUND", "NODE_NOT_EXIST", "TAG_NOT_EXIST", "GROUP_NOT_EXIST",
             "COMMAND_EXECUTION_FAILED", "PLUGIN_NOT_SUPPORT_WRITE_TAGS"}

\* Slip: a row of the table is missing.
ConflictShort == {"NODE_EXIST", "NODE_NOT_READY", "NODE_IS_RUNNING", "TAG_NAME_CONFLICT",
                  "GROUP_EXIST", "GROUP_NOT_ALLOW", "LIBRARY_NOT_ALLOW_CREATE_INSTANCE"}

Conflict == {"NODE_EXIST", "NODE_NOT_READY", "NODE_IS_RUNNING", "NODE_IS_STOPED",
             "TAG_NAME_CONFLICT", "GROUP_EXIST", "GROUP_NOT_ALLOW",
             "LIBRARY_NOT_ALLOW_CREATE_INSTANCE"}
InternalError == {"EINTERNAL", "IS_BUSY"}

Errors == UNION {OK, PartialContent, BadRequest, Unauthorized, Forbidden, NotFound,
                 Conflict, InternalError}
Known(code) == code \in Errors

-----------------------------------------------------------------------------
(* The thread of the request.                                              *)

\* neu_jwt_validate
TokenErrors == {"NEED_TOKEN", "DECODE_TOKEN", "EXPIRED_TOKEN", "VALIDATE_TOKEN", "EINTERNAL"}
WithoutToken == {"handle_ping", "handle_login"}

Nothing == [holders |-> {}, freed |-> 0]

Init ==
    /\ pc = "idle" /\ endpoint = None
    /\ meant = None /\ doc = None /\ req = None
    /\ command = None /\ receiver = "none" /\ memory = Nothing
    /\ answers = <<>> /\ fate = "up"

\* A request arrives.
Arrives(e, m, d) ==
    /\ fate = "up" /\ pc = "idle"
    /\ pc' = "asked" /\ endpoint' = e /\ meant' = m /\ doc' = d
    /\ UNCHANGED <<req, command, receiver, memory, answers, fate>>

Ask == \/ \E e \in WithBody :
             \/ \E m \in Bodies[e] : Arrives(e, m, Written(e, m))
             \/ \E d \in Strays[e] : Arrives(e, None, d)
       \/ \E e \in DOMAIN Parameters : \E m \in Bodies[e] : Arrives(e, m, m)

\* NEU_VALIDATE_JWT; disable_jwt is one of the cases that pass.
Validate ==
    /\ fate = "up" /\ pc = "asked"
    /\ \/ /\ pc' = "valid"
          /\ UNCHANGED answers
       \/ /\ endpoint \notin WithoutToken
          /\ \E code \in TokenErrors : answers' = Append(answers, code)
          /\ pc' = "done"
    /\ UNCHANGED <<endpoint, meant, doc, req, command, receiver, memory, fate>>

\* neu_http_get_body and the decoder.
ReadBody ==
    /\ fate = "up" /\ pc = "valid"
    /\ LET r == IF endpoint \in WithBody THEN Read(endpoint, doc) ELSE doc
       IN  \/ /\ r \notin {None, Undefined}
              /\ req' = r /\ pc' = "decoded"
              /\ UNCHANGED <<answers, fate>>
           \/ /\ r \in {None, Undefined}
              /\ answers' = Append(answers, "BODY_IS_WRONG") /\ pc' = "rejected"
              /\ UNCHANGED <<req, fate>>
           \/ /\ r = Undefined
              /\ fate' = "crash"
              /\ UNCHANGED <<req, answers, pc>>
    /\ UNCHANGED <<endpoint, meant, doc, command, receiver, memory>>

\* Who holds the block of a command that is to be sent.
Holders(c) == IF c = None \/ c.block = "none" THEN {}
              ELSE {"command"} \cup (IF c.block = "lent" THEN {"request"} ELSE {})

Handle ==
    /\ fate = "up" /\ pc = "decoded"
    /\ \E o \in Handled(endpoint, req) :
          /\ answers' = answers \o o.answers
          /\ fate' = CASE o.send = Undefined -> "crash"
                       [] \E i \in DOMAIN o.answers : ~ Known(o.answers[i]) -> "no status"
                       [] OTHER -> fate
          /\ command' = IF o.send = Undefined THEN None ELSE o.send
          /\ pc' = IF command' = None THEN "freeing" ELSE "sending"
          /\ memory' = [Nothing EXCEPT !.holders = Holders(command')]
    /\ meant' = None /\ doc' = None /\ req' = None
    /\ UNCHANGED <<endpoint, receiver>>

Release(m, holder) ==
    IF holder \in m.holders
    THEN [holders |-> m.holders \ {holder}, freed |-> m.freed + 1] ELSE m

\* neu_plugin_op succeeds, or the queue to the manager is full.
Send ==
    /\ fate = "up" /\ pc = "sending"
    /\ \/ /\ pc' = "sent" /\ receiver' = "queued"
          /\ memory' = [memory EXCEPT !.holders =
                IF "command" \in @ THEN (@ \ {"command"}) \cup {"receiver"} ELSE @]
          /\ UNCHANGED answers
       \/ /\ answers' = Append(answers, "IS_BUSY") /\ pc' = "freeing"
          /\ memory' = IF command.block = "tidy" THEN Release(memory, "command")
                       ELSE [memory EXCEPT !.holders = @ \ {"command"}]
          /\ UNCHANGED receiver
    /\ UNCHANGED <<endpoint, meant, doc, req, command, fate>>

\* Slip: the request keeps what it has lent.
ForgottenKept(m) == m

\* What was lent is taken out of the request.
Forgotten(m) == [m EXCEPT !.holders = @ \ {"request"}]

Forget ==
    /\ fate = "up" /\ pc = "sent"
    /\ memory' = Forgotten(memory)
    /\ pc' = "freeing"
    /\ UNCHANGED <<endpoint, meant, doc, req, command, receiver, answers, fate>>

\* The decoder's _free.
FreeRequest ==
    /\ fate = "up" /\ pc \in {"freeing", "rejected"}
    /\ memory' = Release(memory, "request")
    /\ pc' = "done"
    /\ meant' = None /\ doc' = None
    /\ UNCHANGED <<endpoint, req, command, receiver, answers, fate>>

-----------------------------------------------------------------------------
(* The other side, and the thread of the plugin.                           *)

\* The codes that the manager, the adapters and the drivers put into RESP_ERROR,
\* and the one a plugin returned.
Codes == {"SUCCESS", "NODE_NOT_EXIST", "LIBRARY_NOT_FOUND",
          "LIBRARY_NOT_ALLOW_CREATE_INSTANCE", "NODE_EXIST", "LIBRARY_FAILED_TO_OPEN",
          "GROUP_NOT_ALLOW", "GROUP_PARAMETER_INVALID", "NODE_NOT_READY",
          "NODE_IS_RUNNING", "NODE_IS_STOPED", "NODE_SETTING_INVALID",
          "NODE_SETTING_NOT_FOUND", "EINTERNAL", "GROUP_NOT_EXIST", "GROUP_EXIST",
          "TAG_NOT_EXIST", "TAG_NAME_CONFLICT", "PLUGIN_NOT_RUNNING",
          "PLUGIN_NOT_SUPPORT_WRITE_TAGS", "PLUGIN_TAG_NOT_ALLOW_WRITE", PluginCode}

\* A code is no type of a response.
Responses == {ResponseTo[c] : c \in DOMAIN ResponseTo}
ASSUME PluginCodeAssumption ==
    PluginCode \notin Responses \cup {"none", "queued", "told"}

\* The receiver takes a command of these types and answers it.
Takes(types, responses) ==
    /\ fate = "up" /\ receiver = "queued"
    /\ command.type \in types \cap Passed
    /\ receiver' \in responses
    /\ UNCHANGED <<pc, endpoint, meant, doc, req, command, answers, fate>>

\* It frees the block, or leaves it to nobody.
Frees  == memory' = Release(memory, "receiver")
Leaves == memory' = [memory EXCEPT !.holders = @ \ {"receiver"}]

\* manager_loop: the setting of a node that does not exist.
RefuseSetting == Takes({"NODE_SETTING"}, {"NODE_NOT_EXIST"}) /\ Frees

\* adapter_loop: the adapter keeps a copy of a setting that its plugin accepts,
\* and the event that was to take the setting itself over is commented out.
ServeSetting == \/ Takes({"NODE_SETTING"}, {"SUCCESS"}) /\ Leaves
                \/ Takes({"NODE_SETTING"}, {"NODE_SETTING_INVALID"}) /\ Frees

\* adapter_loop: tags that were added, changed or deleted go on with an event to
\* a node named monitor, which no plugin of this repository is made for.
ServeTags == \/ /\ Takes({"ADD_TAG", "UPDATE_TAG"}, {ResponseTo[command.type]})
                /\ Leaves \/ Frees
             \/ Takes({"DEL_TAG"}, {"SUCCESS"}) /\ Leaves
             \/ Takes({"DEL_TAG"}, {"GROUP_NOT_ALLOW"}) /\ Frees

\* Any other command, and tags for a node that does not exist.
Serve == /\ \/ Takes(Types \ {"NODE_SETTING"}, Codes)
            \/ Takes(DOMAIN ResponseTo, {ResponseTo[command.type]})
         /\ Frees

\* manager_loop has no case for the command.
Fall ==
    /\ fate = "up" /\ receiver = "queued"
    /\ command.type \notin Passed
    /\ fate' = "no case"
    /\ UNCHANGED <<pc, endpoint, meant, doc, req, command, receiver, memory, answers>>

\* Slip: the answers of two commands are left out of the switch.
NotAnsweredMore == {"RESP_GET_TEMPLATE", "RESP_GET_TEMPLATES", "RESP_GET_NDRIVER_MAPS",
                    "RESP_GET_NDRIVER_TAGS", "RESP_READ_GROUP"}

\* dashb_plugin_request: the cases that do nothing.
NotAnswered == {"RESP_GET_TEMPLATE", "RESP_GET_TEMPLATES", "RESP_GET_NDRIVER_MAPS",
                "RESP_GET_NDRIVER_TAGS"}

\* The setting of a node may be no JSON.
Told(response) ==
    CASE response \in NotAnswered             -> {<<>>}
      [] response = "RESP_GET_NODE_SETTING"   -> {<<"SUCCESS">>, <<"EINTERNAL">>}
      [] response \in Codes                   -> {<<response>>}
      [] OTHER                                -> {<<"SUCCESS">>}

\* dashb_plugin_request
Respond ==
    /\ fate = "up" /\ receiver \notin {"none", "queued", "told"}
    /\ receiver' = "told"
    /\ \E codes \in Told(receiver) : answers' = answers \o codes
    /\ fate' = IF receiver \in Codes /\ ~ Known(receiver) THEN "no status" ELSE fate
    /\ UNCHANGED <<pc, endpoint, meant, doc, req, command, memory>>

Handler == Validate \/ ReadBody \/ Handle \/ Send \/ Forget \/ FreeRequest

Receiver == RefuseSetting \/ ServeSetting \/ ServeTags \/ Serve \/ Fall

Next == Ask \/ Handler \/ Receiver \/ Respond

\* nng runs the handler of a request, the receiver's loop takes its queue, and
\* so does the plugin's.
Fairness == WF_vars(Handler) /\ WF_vars(Receiver) /\ WF_vars(Respond)

Spec == Init /\ [][Next]_vars /\ Fairness

-----------------------------------------------------------------------------
(* Properties.                                                             *)

\* What a handler finds in the structure is what the client put into it, by the
\* encoders of this repository: no field is lost, mixed up or refused on the way
\* through the JSON document (parser/, neu_json_decode_*).  A message without an
\* encoder, and the new name of a node, is written as its decoder reads it.
RoundTrip ==
    meant # None => /\ pc = "decoded" => req = meant
                    /\ pc # "rejected"

\* A request has one answer.  Two handlers give more: the login answers that the
\* token could not be made and then the login, and the change of the log level
\* answers each level that it cannot set and then the command.
AnsweredOnce ==
    \/ Len(answers) <= 1
    \/ endpoint = "handle_login" /\ answers = <<"NEED_TOKEN", "SUCCESS">>
    \/ /\ endpoint = "handle_log_level" /\ Len(answers) <= 3
       /\ \A i \in 1 .. Len(answers) - 1 : answers[i] = "EINTERNAL"

\* The block was left to nobody: of a setting only if the answer is success.
Kept == /\ command.type \in HandedOn
        /\ command.type = "NODE_SETTING" =>
              \/ receiver = "SUCCESS"
              \/ receiver = "told" /\ answers # <<>> /\ Last(answers) = "SUCCESS"

\* The memory that a command carries is freed once: not by the handler and by
\* the receiver, not before the receiver has used it, whichever thread is
\* first.  It is lost only if the queue is full and the handler does not free it,
\* or if the adapter leaves it to nobody: a setting that its plugin accepted, and
\* tags it has told the monitor of.
MemoryHasOneOwner ==
    /\ memory.freed <= 1
    /\ memory.holders \cap {"command", "receiver"} # {} => memory.freed = 0
    /\ "request" \in memory.holders /\ pc \in {"sending", "freeing"} => memory.freed = 0
    /\ (/\ fate = "up" /\ pc = "done" /\ receiver \in {"none", "told"}
        /\ command # None /\ command.block # "none")
       => \/ memory = [holders |-> {}, freed |-> 1]
          \/ memory = Nothing /\ receiver = "none" /\ command.block = "own"
          \/ memory = Nothing /\ receiver = "told" /\ Kept

\* A code that the program answers has an HTTP status: the assertion in
\* neu_http_response fails only for the code of a plugin.
OnlyPluginCodesAbort == fate = "no status" => receiver = "told" /\ Last(answers) = PluginCode

\* Every request is answered, unless the process dies, or the command is one of
\* four whose responses the plugin's request function passes over (rest.c:228).
EveryoneIsAnswered ==
    pc = "asked" ~> \/ answers # <<>>
                    \/ fate # "up"
                    \/ command # None /\ command.type \in {"GET_TEMPLATE", "GET_TEMPLATES",
                                               "GET_NDRIVER_MAPS", "GET_NDRIVER_TAGS"}

-----------------------------------------------------------------------------
(* The inductive invariant of the safety properties.                       *)

TypeOK ==
    /\ pc \in {"idle", "asked", "valid", "decoded", "rejected", "sending", "sent",
              "freeing", "done"}
    /\ endpoint \in Endpoints \cup {None}
    /\ command \in Commands \cup {None}
    /\ receiver \in {"none", "queued", "told"} \cup Codes \cup Responses
    /\ memory \in [holders : SUBSET {"command", "request", "receiver"}, freed : Nat]
    /\ answers \in Seq(Errors \cup {PluginCode})
    /\ fate \in {"up", "crash", "no status", "no case"}

\* The handler has nothing to say before it has decoded the request, and the
\* receiver nothing before the command is sent.
InOrder ==
    /\ pc # "idle" => endpoint \in Endpoints
    /\ pc \in {"idle", "asked", "valid", "decoded"} => answers = <<>>
    /\ pc \in {"idle", "asked", "valid", "decoded", "rejected"} => command = None
    /\ command = None => receiver = "none"
    /\ pc = "sending" => command # None /\ receiver = "none"
    /\ pc = "sent" => receiver # "none"

\* While a command is under way, only the levels that cannot be set are answered.
AnswerIsDue ==
    command # None /\ (pc = "sending" \/ receiver \notin {"none", "told"}) =>
        \/ answers = <<>>
        \/ /\ endpoint = "handle_log_level" /\ Len(answers) <= 2
           /\ \A i \in 1 .. Len(answers) : answers[i] = "EINTERNAL"

\* Who holds the block, and whether it is freed, follows from where the handler
\* and the receiver are.
Lent == IF /\ command.block = "lent"
           /\ pc \in {"sending", "sent"} \/ (pc = "freeing" /\ receiver = "none")
        THEN {"request"} ELSE {}

MemoryMoves ==
    IF command = None \/ command.block = "none" THEN memory = Nothing
    ELSE \/ /\ pc = "sending"
            /\ memory = [holders |-> {"command"} \cup Lent, freed |-> 0]
         \/ /\ pc # "sending" /\ receiver = "none"
            /\ memory = [holders |-> Lent,
                         freed |-> IF \/ command.block = "tidy"
                                      \/ command.block = "lent" /\ pc = "done"
                                   THEN 1 ELSE 0]
         \/ /\ receiver = "queued"
            /\ memory = [holders |-> {"receiver"} \cup Lent, freed |-> 0]
         \/ /\ receiver \notin {"none", "queued"}
            /\ \/ memory = [holders |-> Lent, freed |-> 1]
               \/ memory = Nothing /\ command.block = "own" /\ Kept

\* What a client has sent is on its way to the handler: as a document, or as the
\* parameters that it is, then as the structure read from it; and it is not refused.
OnItsWay ==
    meant # None =>
        /\ pc \in {"asked", "valid", "decoded", "done"}
        /\ endpoint \in Endpoints /\ meant \in Bodies[endpoint]
        /\ pc \in {"asked", "valid"} =>
              doc = IF endpoint \in WithBody THEN Written(endpoint, meant) ELSE meant
        /\ pc = "decoded" => req = meant

IInv == /\ TypeOK /\ InOrder /\ AnswerIsDue /\ MemoryMoves
        /\ AnsweredOnce /\ OnlyPluginCodesAbort
=============================================================================
