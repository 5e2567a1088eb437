--------------------------- MODULE RestApiProofs ----------------------------
(***************************************************************************)
(* Proofs about RestApi: every answer has an HTTP status, a request has    *)
(* one answer, the memory that a command carries has one owner, and what   *)
(* the handler reads is what the client meant, whatever the clients send   *)
(* and whoever takes the commands.                                         *)
(***************************************************************************)
EXTENDS RestApi, SequenceTheorems, TLAPS

-----------------------------------------------------------------------------
(* What the handlers decide.                                               *)

\* An outcome with one answer or one command, and none of both.
OneAnswer(o)  == \E code \in Errors : o = Answered(code)
OneCommand(o) == \E command1 \in Commands : o = Outcome(<<>>, command1)
Decided(o)    == OneAnswer(o) \/ OneCommand(o)

\* The levels that cannot be set.
Levels(codes) == /\ codes \in Seq(Errors) /\ Len(codes) <= 2
                 /\ \A i \in 1 .. Len(codes) : codes[i] = "EINTERNAL"

\* All that a handler may decide.
Expected(e, o) ==
    \/ Decided(o)
    \/ e = "handle_login" /\ o = Outcome(<<"NEED_TOKEN", "SUCCESS">>, None)
    \/ o = Crashed
    \/ /\ e = "handle_log_level" /\ Levels(o.answers)
       /\ o = Outcome(o.answers, [type |-> "UPDATE_LOG_LEVEL", block |-> "none"])

\* The codes that the handlers answer.
LEMMA KnownErrors ==
    {"SUCCESS", "EINTERNAL", "NOT_FOUND", "BODY_IS_WRONG", "PARAM_IS_WRONG", "IS_BUSY",
     "INVALID_PASSWORD_LEN", "DUPLICATE_PASSWORD", "FILE_NOT_EXIST", "FILE_OPEN_FAILURE",
     "FILE_READ_FAILURE", "COMMAND_EXECUTION_FAILED", "NODE_NAME_TOO_LONG",
     "NODE_NAME_EMPTY", "GROUP_NAME_TOO_LONG", "GROUP_PARAMETER_INVALID",
     "STRING_TOO_LONG", "TAG_NAME_TOO_LONG", "TAG_ADDRESS_TOO_LONG",
     "TEMPLATE_NAME_TOO_LONG", "PLUGIN_NAME_TOO_LONG", "NEED_TOKEN", "DECODE_TOKEN",
     "EXPIRED_TOKEN", "VALIDATE_TOKEN", "INVALID_USER", "INVALID_PASSWORD"}
    \subseteq Errors
<1>1. /\ OK \subseteq Errors /\ PartialContent \subseteq Errors
      /\ BadRequest \subseteq Errors /\ Unauthorized \subseteq Errors
      /\ Forbidden \subseteq Errors /\ NotFound \subseteq Errors
      /\ Conflict \subseteq Errors /\ InternalError \subseteq Errors
  BY DEF Errors
<1>2. QED
  BY <1>1 DEF OK, PartialContent, BadRequest, Unauthorized, Forbidden, NotFound,
              InternalError

\* The first check that fails is one of the checks.
LEMMA FirstIsOfThem ==
      ASSUME NEW X, NEW checks, \A i \in DOMAIN checks : checks[i] \subseteq X
      PROVE  First(checks) \subseteq X
  BY DEF First

\* A handler with checks answers, or sends its command.
LEMMA UnlessDecides ==
      ASSUME NEW checks, \A i \in DOMAIN checks : checks[i] \subseteq Errors,
             NEW out, OneCommand(out), NEW o \in Unless(checks, out)
      PROVE  Decided(o)
<1>1. First(checks) \subseteq Errors
  BY FirstIsOfThem
<1>2. QED
  BY <1>1 DEF Unless, Decided, OneAnswer

\* The same for the number of checks that there are.
LEMMA UnlessOne ==
      ASSUME NEW a, NEW out, a \subseteq Errors, OneCommand(out),
             NEW o \in Unless(<<a>>, out)
      PROVE  Decided(o)
  BY UnlessDecides

LEMMA UnlessTwo ==
      ASSUME NEW a, NEW b, NEW out, a \cup b \subseteq Errors, OneCommand(out),
             NEW o \in Unless(<<a, b>>, out)
      PROVE  Decided(o)
  BY UnlessDecides

LEMMA UnlessThree ==
      ASSUME NEW a, NEW b, NEW c, NEW out, a \cup b \cup c \subseteq Errors,
             OneCommand(out), NEW o \in Unless(<<a, b, c>>, out)
      PROVE  Decided(o)
  BY UnlessDecides

LEMMA UnlessFive ==
      ASSUME NEW a, NEW b, NEW c, NEW d, NEW e, NEW out,
             a \cup b \cup c \cup d \cup e \subseteq Errors,
             OneCommand(out), NEW o \in Unless(<<a, b, c, d, e>>, out)
      PROVE  Decided(o)
  BY UnlessDecides

\* Only a setting and tags must be the command's own.
LEMMA SendsCommands ==
      /\ \A type \in Types \ {"NODE_SETTING", "ADD_TAG", "UPDATE_TAG", "DEL_TAG"} :
            /\ OneCommand(Sends(type))
            /\ \A block \in Blocks : OneCommand(SendsWith(type, block))
      /\ \A type \in {"NODE_SETTING", "ADD_TAG", "UPDATE_TAG", "DEL_TAG"} :
            OneCommand(SendsWith(type, "own"))
<1>1. ASSUME NEW type \in Types, NEW block \in Blocks,
             type \in {"NODE_SETTING", "ADD_TAG", "UPDATE_TAG", "DEL_TAG"} => block = "own"
      PROVE  OneCommand(SendsWith(type, block))
  <2>1. [type |-> type, block |-> block] \in Commands
    BY <1>1 DEF Commands, HandedOn
  <2>2. QED
    BY <2>1 DEF OneCommand, SendsWith
<1>2. /\ {"NODE_SETTING", "ADD_TAG", "UPDATE_TAG", "DEL_TAG"} \subseteq Types
      /\ "own" \in Blocks /\ "none" \in Blocks
  BY DEF Blocks, Types, ResponseTo
<1>3. QED
  BY <1>1, <1>2 DEF Sends

\* normal_handle.c, user.c, log_handle.c, file_handle.c, version_handle.c
LEMMA NormalHandlers ==
      ASSUME NEW r
      PROVE  /\ \A o \in handle_ping(r) : Decided(o)
             /\ \A o \in handle_login(r) : Expected("handle_login", o)
             /\ \A o \in handle_password(r) : Decided(o)
             /\ \A o \in handle_get_plugin_schema(r) : Decided(o)
             /\ \A o \in handle_logs_files(r) : Decided(o)
             /\ \A o \in handle_log_level(r) : Expected("handle_log_level", o)
             /\ \A o \in handle_file_info(r) : Decided(o)
             /\ \A o \in handle_download_file(r) : Decided(o) \/ o = Crashed
             /\ \A o \in handle_get_version(r) : Decided(o)
<1>1. \A code \in Errors : Decided(Answered(code))
  BY DEF Decided, OneAnswer
<1>2. \A o \in handle_ping(r) : Decided(o)
  BY <1>1, KnownErrors DEF handle_ping
<1>3. \A o \in handle_login(r) : Expected("handle_login", o)
  BY <1>1, KnownErrors DEF handle_login, Expected
<1>4. \A o \in handle_password(r) : Decided(o)
  BY <1>1, KnownErrors DEF handle_password
<1>5. \A o \in handle_get_plugin_schema(r) : Decided(o)
  BY <1>1, KnownErrors DEF handle_get_plugin_schema
<1>6. \A o \in handle_logs_files(r) : Decided(o)
  BY <1>1, KnownErrors DEF handle_logs_files, read_file
<1>7. \A o \in handle_log_level(r) : Expected("handle_log_level", o)
  <2>1. Levels(<<>>) /\ Levels(<<"EINTERNAL">>) /\ Levels(<<"EINTERNAL", "EINTERNAL">>)
    BY KnownErrors DEF Levels
  <2>2. QED
    BY <2>1 DEF handle_log_level, Expected, Outcome, Sends, SendsWith
<1>8. \A o \in handle_file_info(r) : Decided(o)
  BY <1>1, KnownErrors DEF handle_file_info
<1>9. \A o \in handle_download_file(r) : Decided(o) \/ o = Crashed
  BY <1>1, KnownErrors DEF handle_download_file, read_file
<1>10. \A o \in handle_get_version(r) : Decided(o)
  BY <1>1, KnownErrors DEF handle_get_version
<1>11. QED
  BY <1>2, <1>3, <1>4, <1>5, <1>6, <1>7, <1>8, <1>9, <1>10

\* A check fails with its code, and a loop over checks with one of theirs.
LEMMA WhenFails ==
      ASSUME NEW wrong, NEW code \in Errors
      PROVE  When(wrong, code) \subseteq Errors
  BY DEF When

\* set_tag_by_json, move_template_json and the loops of template_handle.c
LEMMA LoopErrors ==
      /\ \A tag : TagError(tag) \subseteq Errors
      /\ \A tags : TagErrors(tags) \subseteq Errors
      /\ \A group : GroupError(group) \subseteq Errors
      /\ \A groups : First([i \in DOMAIN groups |-> GroupError(groups[i])]) \subseteq Errors
      /\ \A r : GroupOf(r) \subseteq Errors
      /\ \A names : First([i \in DOMAIN names |->
                              When(Long(names[i]), "TAG_NAME_TOO_LONG")]) \subseteq Errors
      /\ \A inst : InstErrors(inst) \subseteq Errors
      /\ \A insts : First([i \in DOMAIN insts |-> InstErrors(insts[i])]) \subseteq Errors
<1>1. /\ \A a, b : a \cup b \subseteq Errors => First(<<a, b>>) \subseteq Errors
      /\ \A a, b, c : a \cup b \cup c \subseteq Errors => First(<<a, b, c>>) \subseteq Errors
  BY FirstIsOfThem
<1>2. \A tag : TagError(tag) \subseteq Errors
  BY <1>1, KnownErrors DEF TagError, When
<1>3. \A tags : TagErrors(tags) \subseteq Errors
  BY <1>2, FirstIsOfThem DEF TagErrors
<1>4. \A group : GroupError(group) \subseteq Errors
  BY <1>1, <1>3, KnownErrors DEF GroupError, When
<1>5. \A groups : First([i \in DOMAIN groups |-> GroupError(groups[i])]) \subseteq Errors
  BY <1>4, FirstIsOfThem
<1>6. \A r : GroupOf(r) \subseteq Errors
  BY <1>1, KnownErrors DEF GroupOf, When
<1>7. \A names : First([i \in DOMAIN names |->
                           When(Long(names[i]), "TAG_NAME_TOO_LONG")]) \subseteq Errors
  BY KnownErrors, FirstIsOfThem DEF When
<1>8. \A inst : InstErrors(inst) \subseteq Errors
  BY <1>1, KnownErrors DEF InstErrors, When
<1>9. \A insts : First([i \in DOMAIN insts |-> InstErrors(insts[i])]) \subseteq Errors
  BY <1>8, FirstIsOfThem
<1>10. QED
  BY <1>2, <1>3, <1>4, <1>5, <1>6, <1>7, <1>8, <1>9

\* adapter_handle.c, plugin_handle.c
LEMMA AdapterHandlers ==
      ASSUME NEW r
      PROVE  /\ \A o \in handle_add_adapter(r) : Decided(o)
             /\ \A o \in handle_update_adapter(r) : Decided(o)
             /\ \A o \in handle_del_adapter(r) : Decided(o)
             /\ \A o \in handle_get_adapter(r) : Decided(o)
             /\ \A o \in handle_set_node_setting(r) : Decided(o)
             /\ \A o \in handle_get_node_setting(r) : Decided(o)
             /\ \A o \in handle_node_ctl(r) : Decided(o)
             /\ \A o \in handle_get_node_state(r) : Decided(o)
             /\ \A o \in handle_add_plugin(r) : Decided(o)
             /\ \A o \in handle_del_plugin(r) : Decided(o)
             /\ \A o \in handle_get_plugin(r) : Decided(o)
<1> USE DEF Types, Blocks, ResponseTo
<1>1. \A o \in handle_add_adapter(r) : Decided(o)
  BY SendsCommands, UnlessOne, KnownErrors DEF handle_add_adapter, When
<1>2. \A o \in handle_update_adapter(r) : Decided(o)
  BY SendsCommands, UnlessThree, KnownErrors DEF handle_update_adapter, When
<1>3. \A o \in handle_del_adapter(r) : Decided(o)
  BY SendsCommands DEF handle_del_adapter, Decided
<1>4. \A o \in handle_get_adapter(r) : Decided(o)
  BY SendsCommands, UnlessOne, KnownErrors DEF handle_get_adapter, When
<1>5. \A o \in handle_set_node_setting(r) : Decided(o)
  BY SendsCommands DEF handle_set_node_setting, Decided
<1>6. \A o \in handle_get_node_setting(r) : Decided(o)
  BY SendsCommands, UnlessOne, KnownErrors DEF handle_get_node_setting, When
<1>7. \A o \in handle_node_ctl(r) : Decided(o)
  BY SendsCommands DEF handle_node_ctl, Decided
<1>8. \A o \in handle_get_node_state(r) : Decided(o)
  BY SendsCommands DEF handle_get_node_state, Decided
<1>9. \A o \in handle_add_plugin(r) : Decided(o)
  BY SendsCommands DEF handle_add_plugin, Decided
<1>10. \A o \in handle_del_plugin(r) : Decided(o)
  BY SendsCommands, UnlessOne, KnownErrors DEF handle_del_plugin, When
<1>11. \A o \in handle_get_plugin(r) : Decided(o)
  BY SendsCommands DEF handle_get_plugin, Decided
<1>12. QED
  BY <1>1, <1>2, <1>3, <1>4, <1>5, <1>6, <1>7, <1>8, <1>9, <1>10, <1>11

\* group_config_handle.c
LEMMA GroupHandlers ==
      ASSUME NEW r
      PROVE  /\ \A o \in handle_add_group_config(r) : Decided(o)
             /\ \A o \in send_update_group(r) : Decided(o)
             /\ \A o \in handle_del_group_config(r) : Decided(o)
             /\ \A o \in handle_get_group_config(r) : Decided(o)
             /\ \A o \in send_subscribe("SUBSCRIBE_GROUP", r) : Decided(o)
             /\ \A o \in send_subscribe("UPDATE_SUBSCRIBE_GROUP", r) : Decided(o)
             /\ \A o \in handle_grp_unsubscribe(r) : Decided(o)
             /\ \A o \in send_subscribe_groups(r) : Decided(o)
             /\ \A o \in handle_grp_get_subscribe(r) : Decided(o)
<1> USE DEF Types, Blocks, ResponseTo
<1>1. \A o \in handle_add_group_config(r) : Decided(o)
  BY SendsCommands, UnlessOne, KnownErrors DEF handle_add_group_config, When
<1>2. \A o \in send_update_group(r) : Decided(o)
  BY ZenonT(60), SendsCommands, UnlessFive, KnownErrors DEF send_update_group, When
<1>3. \A o \in handle_del_group_config(r) : Decided(o)
  BY SendsCommands DEF handle_del_group_config, Decided
<1>4. \A o \in handle_get_group_config(r) : Decided(o)
  BY SendsCommands DEF handle_get_group_config, Decided
<1>5. \A o \in send_subscribe("SUBSCRIBE_GROUP", r) : Decided(o)
  BY SendsCommands DEF send_subscribe, Decided
<1>6. \A o \in send_subscribe("UPDATE_SUBSCRIBE_GROUP", r) : Decided(o)
  BY SendsCommands DEF send_subscribe, Decided
<1>7. \A o \in handle_grp_unsubscribe(r) : Decided(o)
  BY SendsCommands DEF handle_grp_unsubscribe, Decided
<1>8. \A o \in send_subscribe_groups(r) : Decided(o)
  BY SendsCommands DEF send_subscribe_groups, Decided
<1>9. \A o \in handle_grp_get_subscribe(r) : Decided(o)
  BY SendsCommands, UnlessOne, KnownErrors DEF handle_grp_get_subscribe, When
<1>10. QED
  BY <1>1, <1>2, <1>3, <1>4, <1>5, <1>6, <1>7, <1>8, <1>9

\* datatag_handle.c, rw_handle.c
LEMMA TagHandlers ==
      ASSUME NEW r
      PROVE  /\ \A o \in handle_add_tags(r) : Decided(o)
             /\ \A o \in handle_del_tags(r) : Decided(o)
             /\ \A o \in handle_update_tags(r) : Decided(o)
             /\ \A o \in handle_get_tags(r) : Decided(o)
             /\ \A o \in handle_read(r) : Decided(o)
             /\ \A o \in handle_write(r) : Decided(o)
             /\ \A o \in handle_write_tags(r) : Decided(o)
<1> USE DEF Types, Blocks, ResponseTo
<1>1. \A o \in handle_add_tags(r) : Decided(o)
  BY SendsCommands, UnlessOne, KnownErrors DEF handle_add_tags, When
<1>2. \A o \in handle_del_tags(r) : Decided(o)
  BY SendsCommands DEF handle_del_tags, Decided
<1>3. \A o \in handle_update_tags(r) : Decided(o)
  BY SendsCommands DEF handle_update_tags, Decided
<1>4. \A o \in handle_get_tags(r) : Decided(o)
  BY SendsCommands, UnlessOne, KnownErrors DEF handle_get_tags, When
<1>5. \A o \in handle_read(r) : Decided(o)
  BY SendsCommands DEF handle_read, Decided
<1>6. \A o \in handle_write(r) : Decided(o)
  BY SendsCommands, UnlessOne, KnownErrors DEF handle_write, When
<1>7. \A o \in handle_write_tags(r) : Decided(o)
  BY SendsCommands, UnlessOne, KnownErrors DEF handle_write_tags, When
<1>8. QED
  BY <1>1, <1>2, <1>3, <1>4, <1>5, <1>6, <1>7

\* template_handle.c
LEMMA TemplateHandlers ==
      ASSUME NEW r
      PROVE  /\ \A o \in handle_add_template(r) : Decided(o)
             /\ \A o \in handle_del_template(r) : Decided(o)
             /\ \A o \in handle_get_template(r) : Decided(o)
             /\ \A o \in send_template_mod_group_req("ADD_TEMPLATE_GROUP", r) : Decided(o)
             /\ \A o \in send_template_mod_group_req("UPDATE_TEMPLATE_GROUP", r) : Decided(o)
             /\ \A o \in send_template_del_group_req(r) : Decided(o)
             /\ \A o \in send_template_mod_tags_req("ADD_TEMPLATE_TAG", r) : Decided(o)
             /\ \A o \in send_template_mod_tags_req("UPDATE_TEMPLATE_TAG", r) : Decided(o)
             /\ \A o \in send_template_del_tags_req(r) : Decided(o)
             /\ \A o \in handle_get_template_tags(r) : Decided(o)
             /\ \A o \in send_template_inst_req(r) : Decided(o)
             /\ \A o \in send_template_insts_req(r) : Decided(o)
             /\ \A o \in handle_get_template_group(r) : Decided(o)
<1> USE DEF Types, Blocks, ResponseTo
<1>1. \A o \in handle_add_template(r) : Decided(o)
  BY SendsCommands, UnlessThree, KnownErrors, LoopErrors DEF handle_add_template, When
<1>2. \A o \in handle_del_template(r) : Decided(o)
  BY SendsCommands, UnlessOne, KnownErrors DEF handle_del_template, When
<1>3. \A o \in handle_get_template(r) : Decided(o)
  BY SendsCommands, UnlessOne, KnownErrors DEF handle_get_template, When
<1>4. \A o \in send_template_mod_group_req("ADD_TEMPLATE_GROUP", r) : Decided(o)
  BY SendsCommands, UnlessTwo, KnownErrors, LoopErrors DEF send_template_mod_group_req, When
<1>5. \A o \in send_template_mod_group_req("UPDATE_TEMPLATE_GROUP", r) : Decided(o)
  BY SendsCommands, UnlessTwo, KnownErrors, LoopErrors DEF send_template_mod_group_req, When
<1>6. \A o \in send_template_del_group_req(r) : Decided(o)
  BY SendsCommands, UnlessOne, KnownErrors, LoopErrors DEF send_template_del_group_req, When
<1>7. \A o \in send_template_mod_tags_req("ADD_TEMPLATE_TAG", r) : Decided(o)
  BY SendsCommands, UnlessTwo, KnownErrors, LoopErrors DEF send_template_mod_tags_req, When
<1>8. \A o \in send_template_mod_tags_req("UPDATE_TEMPLATE_TAG", r) : Decided(o)
  BY SendsCommands, UnlessTwo, KnownErrors, LoopErrors DEF send_template_mod_tags_req, When
<1>9. \A o \in send_template_del_tags_req(r) : Decided(o)
  BY SendsCommands, UnlessTwo, KnownErrors, LoopErrors DEF send_template_del_tags_req, When
<1>10. \A o \in handle_get_template_tags(r) : Decided(o)
  BY SendsCommands, UnlessOne, KnownErrors DEF handle_get_template_tags, When
<1>11. \A o \in send_template_inst_req(r) : Decided(o)
  BY SendsCommands, UnlessOne, KnownErrors, LoopErrors DEF send_template_inst_req, When
<1>12. \A o \in send_template_insts_req(r) : Decided(o)
  BY SendsCommands, UnlessOne, KnownErrors, LoopErrors DEF send_template_insts_req, When
<1>13. \A o \in handle_get_template_group(r) : Decided(o)
  BY SendsCommands, UnlessOne, KnownErrors DEF handle_get_template_group, When
<1>14. QED
  BY <1>1, <1>2, <1>3, <1>4, <1>5, <1>6, <1>7, <1>8, <1>9, <1>10, <1>11, <1>12, <1>13

\* ndriver_handle.c
LEMMA NdriverHandlers ==
      ASSUME NEW r
      PROVE  /\ \A o \in send_ndriver_map_req("ADD_NDRIVER_MAP", r) : Decided(o)
             /\ \A o \in send_ndriver_map_req("DEL_NDRIVER_MAP", r) : Decided(o)
             /\ \A o \in handle_get_ndriver_maps(r) : Decided(o)
             /\ \A o \in send_update_ndriver_tag_param_req(r) : Decided(o)
             /\ \A o \in send_update_ndriver_tag_info_req(r) : Decided(o)
             /\ \A o \in handle_get_ndriver_tags(r) : Decided(o)
<1> USE DEF Types, Blocks, ResponseTo
<1>1. \A o \in send_ndriver_map_req("ADD_NDRIVER_MAP", r) : Decided(o)
  BY SendsCommands, UnlessOne, KnownErrors DEF send_ndriver_map_req, When
<1>2. \A o \in send_ndriver_map_req("DEL_NDRIVER_MAP", r) : Decided(o)
  BY SendsCommands, UnlessOne, KnownErrors DEF send_ndriver_map_req, When
<1>3. \A o \in handle_get_ndriver_maps(r) : Decided(o)
  BY SendsCommands, UnlessOne, KnownErrors DEF handle_get_ndriver_maps, When
<1>4. \A o \in send_update_ndriver_tag_param_req(r) : Decided(o)
  BY SendsCommands DEF send_update_ndriver_tag_param_req, Decided
<1>5. \A o \in send_update_ndriver_tag_info_req(r) : Decided(o)
  BY SendsCommands DEF send_update_ndriver_tag_info_req, Decided
<1>6. \A o \in handle_get_ndriver_tags(r) : Decided(o)
  BY SendsCommands, UnlessOne, KnownErrors DEF handle_get_ndriver_tags, When
<1>7. QED
  BY <1>1, <1>2, <1>3, <1>4, <1>5, <1>6

\* The handler of an endpoint, one by one.
LEMMA HandledBy ==
      ASSUME NEW r
      PROVE  /\ Handled("handle_ping", r) = handle_ping(r)
             /\ Handled("handle_login", r) = handle_login(r)
             /\ Handled("handle_password", r) = handle_password(r)
             /\ Handled("handle_get_plugin_schema", r) = handle_get_plugin_schema(r)
             /\ Handled("handle_logs_files", r) = handle_logs_files(r)
             /\ Handled("handle_log_level", r) = handle_log_level(r)
             /\ Handled("handle_file_info", r) = handle_file_info(r)
             /\ Handled("handle_download_file", r) = handle_download_file(r)
             /\ Handled("handle_get_version", r) = handle_get_version(r)
             /\ Handled("handle_add_adapter", r) = handle_add_adapter(r)
             /\ Handled("handle_update_adapter", r) = handle_update_adapter(r)
             /\ Handled("handle_del_adapter", r) = handle_del_adapter(r)
             /\ Handled("handle_get_adapter", r) = handle_get_adapter(r)
             /\ Handled("handle_set_node_setting", r) = handle_set_node_setting(r)
             /\ Handled("handle_get_node_setting", r) = handle_get_node_setting(r)
             /\ Handled("handle_node_ctl", r) = handle_node_ctl(r)
             /\ Handled("handle_get_node_state", r) = handle_get_node_state(r)
             /\ Handled("handle_add_plugin", r) = handle_add_plugin(r)
             /\ Handled("handle_del_plugin", r) = handle_del_plugin(r)
             /\ Handled("handle_get_plugin", r) = handle_get_plugin(r)
             /\ Handled("handle_add_group_config", r) = handle_add_group_config(r)
             /\ Handled("handle_update_group", r) = send_update_group(r)
             /\ Handled("handle_del_group_config", r) = handle_del_group_config(r)
             /\ Handled("handle_get_group_config", r) = handle_get_group_config(r)
             /\ Handled("handle_grp_subscribe", r) = send_subscribe("SUBSCRIBE_GROUP", r)
             /\ Handled("handle_grp_update_subscribe", r) = send_subscribe("UPDATE_SUBSCRIBE_GROUP", r)
             /\ Handled("handle_grp_unsubscribe", r) = handle_grp_unsubscribe(r)
             /\ Handled("handle_grp_subscribes", r) = send_subscribe_groups(r)
             /\ Handled("handle_grp_get_subscribe", r) = handle_grp_get_subscribe(r)
             /\ Handled("handle_add_tags", r) = handle_add_tags(r)
             /\ Handled("handle_del_tags", r) = handle_del_tags(r)
             /\ Handled("handle_update_tags", r) = handle_update_tags(r)
             /\ Handled("handle_get_tags", r) = handle_get_tags(r)
             /\ Handled("handle_read", r) = handle_read(r)
             /\ Handled("handle_write", r) = handle_write(r)
             /\ Handled("handle_write_tags", r) = handle_write_tags(r)
             /\ Handled("handle_add_template", r) = handle_add_template(r)
             /\ Handled("handle_del_template", r) = handle_del_template(r)
             /\ Handled("handle_get_template", r) = handle_get_template(r)
             /\ Handled("handle_add_template_group", r) = send_template_mod_group_req("ADD_TEMPLATE_GROUP", r)
             /\ Handled("handle_update_template_group", r) = send_template_mod_group_req("UPDATE_TEMPLATE_GROUP", r)
             /\ Handled("handle_del_template_group", r) = send_template_del_group_req(r)
             /\ Handled("handle_add_template_tags", r) = send_template_mod_tags_req("ADD_TEMPLATE_TAG", r)
             /\ Handled("handle_update_template_tags", r) = send_template_mod_tags_req("UPDATE_TEMPLATE_TAG", r)
             /\ Handled("handle_del_template_tags", r) = send_template_del_tags_req(r)
             /\ Handled("handle_get_template_tags", r) = handle_get_template_tags(r)
             /\ Handled("handle_get_template_group", r) = handle_get_template_group(r)
             /\ Handled("handle_instantiate_template", r) = send_template_inst_req(r)
             /\ Handled("handle_instantiate_templates", r) = send_template_insts_req(r)
             /\ Handled("handle_add_ndriver_map", r) = send_ndriver_map_req("ADD_NDRIVER_MAP", r)
             /\ Handled("handle_del_ndriver_map", r) = send_ndriver_map_req("DEL_NDRIVER_MAP", r)
             /\ Handled("handle_get_ndriver_maps", r) = handle_get_ndriver_maps(r)
             /\ Handled("handle_put_ndriver_tag_param", r) = send_update_ndriver_tag_param_req(r)
             /\ Handled("handle_put_ndriver_tag_info", r) = send_update_ndriver_tag_info_req(r)
             /\ Handled("handle_get_ndriver_tags", r) = handle_get_ndriver_tags(r)
  BY DEF Handled

\* Whatever a handler finds in the request, it decides what is expected.
LEMMA HandlersDecide ==
      ASSUME NEW e \in Endpoints, NEW r, NEW o \in Handled(e, r)
      PROVE  Expected(e, o)
<1>1. e \in {"handle_ping", "handle_login", "handle_password", "handle_get_plugin_schema",
             "handle_logs_files", "handle_log_level", "handle_file_info",
             "handle_download_file", "handle_get_version", "handle_add_adapter",
             "handle_update_adapter", "handle_del_adapter", "handle_get_adapter",
             "handle_set_node_setting", "handle_get_node_setting", "handle_node_ctl",
             "handle_get_node_state", "handle_add_plugin", "handle_del_plugin",
             "handle_get_plugin", "handle_add_group_config", "handle_update_group",
             "handle_del_group_config", "handle_get_group_config",
             "handle_grp_subscribe", "handle_grp_update_subscribe",
             "handle_grp_unsubscribe", "handle_grp_subscribes",
             "handle_grp_get_subscribe", "handle_add_tags", "handle_del_tags",
             "handle_update_tags", "handle_get_tags", "handle_read", "handle_write",
             "handle_write_tags", "handle_add_template", "handle_del_template",
             "handle_get_template", "handle_add_template_group",
             "handle_update_template_group", "handle_del_template_group",
             "handle_add_template_tags", "handle_update_template_tags",
             "handle_del_template_tags", "handle_get_template_tags",
             "handle_get_template_group", "handle_instantiate_template",
             "handle_instantiate_templates", "handle_add_ndriver_map",
             "handle_del_ndriver_map", "handle_get_ndriver_maps",
             "handle_put_ndriver_tag_param", "handle_put_ndriver_tag_info",
             "handle_get_ndriver_tags"}
  BY DEF Endpoints, WithBody, Messages, Parameters
<1>2. QED
  BY <1>1, HandledBy, NormalHandlers, AdapterHandlers, GroupHandlers, TagHandlers,
     TemplateHandlers, NdriverHandlers DEF Expected

-----------------------------------------------------------------------------
(* The invariant, action by action.                                        *)

\* One more answer.
LEMMA OneMore ==
      ASSUME NEW S, NEW a \in Seq(S), NEW code \in S
      PROVE  /\ a \o <<code>> = Append(a, code) /\ a \o <<>> = a
             /\ Append(a, code) \in Seq(S)
             /\ Len(a) \in Nat /\ Len(Append(a, code)) = Len(a) + 1
             /\ \A i \in 1 .. Len(a) : Append(a, code)[i] = a[i]
             /\ Last(Append(a, code)) = code
             /\ a = <<>> => Len(a) = 0
  BY AppendProperties, AppendIsConcat, ConcatEmptySeq, LenProperties, EmptySeq DEF Last

\* The answer that is due is the last one.
LEMMA DueAnswer ==
      ASSUME TypeOK, InOrder, AnswerIsDue,
             command # None, pc = "sending" \/ receiver \notin {"none", "told"},
             NEW code \in Errors \cup {PluginCode},
             answers' = Append(answers, code), endpoint' = endpoint
      PROVE  /\ AnsweredOnce' /\ answers' \in Seq(Errors \cup {PluginCode})
             /\ Last(answers') = code
<1> DEFINE S == Errors \cup {PluginCode}
<1>1. /\ answers \in Seq(S) /\ code \in S
  BY DEF TypeOK
<1> HIDE DEF S
<1>2. /\ answers' \in Seq(S) /\ Len(answers) \in Nat
      /\ Len(answers') = Len(answers) + 1 /\ Last(answers') = code
      /\ \A i \in 1 .. Len(answers) : answers'[i] = answers[i]
      /\ answers = <<>> => Len(answers) = 0
  BY <1>1, OneMore
<1>3. AnsweredOnce'
  BY <1>2 DEF AnswerIsDue, AnsweredOnce
<1>4. QED
  BY <1>2, <1>3 DEF S

LEMMA InitIInv == Init => IInv
<1> SUFFICES ASSUME Init
             PROVE  IInv
  OBVIOUS
<1>1. <<>> \in Seq(Errors \cup {PluginCode}) /\ Len(<<>>) = 0
  BY EmptySeq
<1>2. TypeOK
  BY <1>1 DEF Init, TypeOK, Nothing
<1>3. QED
  BY <1>1, <1>2 DEF Init, IInv, InOrder, AnswerIsDue, MemoryMoves, AnsweredOnce,
                    OnlyPluginCodesAbort

\* A request arrives: nothing is answered yet.
LEMMA AskIInv ==
      ASSUME Ask, IInv
      PROVE  IInv'
<1>1. /\ fate = "up" /\ pc = "idle" /\ pc' = "asked" /\ endpoint' \in Endpoints
      /\ UNCHANGED <<command, receiver, memory, answers, fate>>
  BY DEF Ask, Arrives, Endpoints
<1>2. command = None /\ receiver = "none" /\ answers = <<>>
  BY <1>1 DEF IInv, InOrder
<1>3. Len(answers) <= 1
  BY <1>2, EmptySeq
<1>4. QED
  BY <1>1, <1>2, <1>3 DEF IInv, TypeOK, InOrder, AnswerIsDue, MemoryMoves, AnsweredOnce,
                          OnlyPluginCodesAbort, Lent

\* The token is valid, or that it is not is the answer.
LEMMA ValidateIInv ==
      ASSUME Validate, IInv
      PROVE  IInv'
<1>1. /\ fate = "up" /\ pc = "asked"
      /\ UNCHANGED <<endpoint, command, receiver, memory, fate>>
      /\ command = None /\ receiver = "none" /\ answers = <<>>
  BY DEF Validate, IInv, InOrder
<1>2. /\ answers \in Seq(Errors \cup {PluginCode}) /\ memory = Nothing
      /\ endpoint \in Endpoints
  BY <1>1 DEF IInv, TypeOK, InOrder, MemoryMoves
<1>3. CASE pc' = "valid" /\ UNCHANGED answers
  BY <1>1, <1>2, <1>3, EmptySeq
     DEF IInv, TypeOK, InOrder, AnswerIsDue, MemoryMoves, AnsweredOnce, OnlyPluginCodesAbort
<1>4. CASE pc' = "done" /\ \E code \in TokenErrors : answers' = Append(answers, code)
  <2>1. PICK code \in TokenErrors : answers' = Append(answers, code)
    BY <1>4
  <2>2. code \in Errors \cup {PluginCode}
    BY KnownErrors DEF TokenErrors
  <2>3. answers' \in Seq(Errors \cup {PluginCode}) /\ Len(answers') = 1
    BY <1>1, <1>2, <2>1, <2>2, OneMore
  <2>4. QED
    BY <1>1, <1>2, <1>4, <2>3
       DEF IInv, TypeOK, InOrder, AnswerIsDue, MemoryMoves, AnsweredOnce,
           OnlyPluginCodesAbort
<1>5. QED
  BY <1>3, <1>4 DEF Validate

\* The body is decoded, or that it is wrong is the answer.
LEMMA ReadBodyIInv ==
      ASSUME ReadBody, IInv
      PROVE  IInv'
<1>1. /\ fate = "up" /\ pc = "valid"
      /\ UNCHANGED <<endpoint, command, receiver, memory>>
      /\ command = None /\ receiver = "none" /\ answers = <<>>
  BY DEF ReadBody, IInv, InOrder
<1>2. /\ answers \in Seq(Errors \cup {PluginCode}) /\ memory = Nothing
      /\ endpoint \in Endpoints
  BY <1>1 DEF IInv, TypeOK, InOrder, MemoryMoves
<1>3. \/ pc' = "decoded" /\ UNCHANGED <<answers, fate>>
      \/ pc' = "rejected" /\ answers' = Append(answers, "BODY_IS_WRONG") /\ UNCHANGED fate
      \/ fate' = "crash" /\ UNCHANGED <<answers, pc>>
  BY DEF ReadBody
<1>4. CASE answers' = answers
  BY <1>1, <1>2, <1>3, <1>4, EmptySeq
     DEF IInv, TypeOK, InOrder, AnswerIsDue, MemoryMoves, AnsweredOnce, OnlyPluginCodesAbort
<1>5. CASE pc' = "rejected" /\ answers' = Append(answers, "BODY_IS_WRONG") /\ UNCHANGED fate
  <2>1. "BODY_IS_WRONG" \in Errors \cup {PluginCode}
    BY KnownErrors
  <2>2. answers' \in Seq(Errors \cup {PluginCode}) /\ Len(answers') = 1
    BY <1>1, <1>2, <1>5, <2>1, OneMore
  <2>3. QED
    BY <1>1, <1>2, <1>5, <2>2
       DEF IInv, TypeOK, InOrder, AnswerIsDue, MemoryMoves, AnsweredOnce,
           OnlyPluginCodesAbort
<1>6. QED
  BY <1>3, <1>4, <1>5

\* The handler answers, or gives its command a block of memory.
LEMMA HandleIInv ==
      ASSUME Handle, IInv
      PROVE  IInv'
<1>1. /\ fate = "up" /\ pc = "decoded" /\ endpoint \in Endpoints
      /\ command = None /\ receiver = "none" /\ answers = <<>>
      /\ UNCHANGED <<endpoint, receiver>>
  BY DEF Handle, IInv, InOrder
<1>2. PICK o \in Handled(endpoint, req) :
          /\ answers' = answers \o o.answers
          /\ fate' = CASE o.send = Undefined -> "crash"
                       [] \E i \in DOMAIN o.answers : ~ Known(o.answers[i]) -> "no status"
                       [] OTHER -> fate
          /\ command' = IF o.send = Undefined THEN None ELSE o.send
          /\ pc' = IF command' = None THEN "freeing" ELSE "sending"
          /\ memory' = [Nothing EXCEPT !.holders = Holders(command')]
  BY DEF Handle
<1>3. memory' = [holders |-> Holders(command'), freed |-> 0]
  BY <1>2 DEF Nothing
<1>4. Nothing = [holders |-> {}, freed |-> 0] /\ Holders(None) = {}
  BY DEF Nothing, Holders
<1>5. Expected(endpoint, o)
  BY <1>1, HandlersDecide
<1>6. ASSUME o.answers \in Seq(Errors), o.send # Undefined
      PROVE  /\ answers' = o.answers /\ fate' = "up" /\ command' = o.send
             /\ answers' \in Seq(Errors \cup {PluginCode}) /\ Len(answers') \in Nat
             /\ \A i \in 1 .. Len(answers') : answers'[i] \in Errors
  <2>1. answers' = o.answers
    BY <1>1, <1>2, <1>6, ConcatEmptySeq
  <2>2. \A i \in DOMAIN o.answers : Known(o.answers[i])
    BY <1>6, LenProperties DEF Known
  <2>3. o.answers \in Seq(Errors \cup {PluginCode})
    <3> DEFINE S == Errors \cup {PluginCode}
    <3>1. \A x \in Errors : x \in S
      OBVIOUS
    <3> HIDE DEF S
    <3>2. o.answers \in Seq(S)
      BY <1>6, <3>1, LenProperties, IsASeq
    <3>3. QED
      BY <3>2 DEF S
  <2>4. QED
    BY <1>1, <1>2, <1>6, <2>1, <2>2, <2>3, LenProperties DEF Known
<1>7. ASSUME o.answers \in Seq(Errors), o.send = None,
             \/ Len(o.answers) <= 1
             \/ endpoint = "handle_login" /\ o.answers = <<"NEED_TOKEN", "SUCCESS">>
      PROVE  IInv'
  <2>1. /\ command' = None /\ pc' = "freeing" /\ memory' = Nothing /\ fate' = "up"
        /\ answers' = o.answers /\ answers' \in Seq(Errors \cup {PluginCode})
    <3>1. command' = None /\ pc' = "freeing"
      BY <1>2, <1>7
    <3>2. memory' = Nothing
      BY <1>3, <1>4, <3>1
    <3>3. QED
      BY <1>6, <1>7, <3>1, <3>2, NoneAssumption
  <2>2. QED
    BY <1>1, <1>7, <2>1
       DEF IInv, TypeOK, InOrder, AnswerIsDue, MemoryMoves, AnsweredOnce,
           OnlyPluginCodesAbort, Nothing
<1>8. ASSUME o.answers \in Seq(Errors), o.send \in Commands,
             \/ o.answers = <<>>
             \/ endpoint = "handle_log_level" /\ Levels(o.answers)
      PROVE  IInv'
  <2>1. o.send \notin {None, Undefined} /\ o.send.block \in Blocks
    BY <1>8, NoneAssumption DEF Commands
  <2>2. /\ command' = o.send /\ pc' = "sending" /\ fate' = "up"
        /\ answers' = o.answers /\ answers' \in Seq(Errors \cup {PluginCode})
        /\ Len(answers') \in Nat
    BY <1>2, <1>6, <1>8, <2>1
  <2>3. AnswerIsDue' /\ AnsweredOnce'
    BY <1>1, <1>8, <2>2, EmptySeq DEF AnswerIsDue, AnsweredOnce, Levels
  <2>4. memory' = IF command'.block = "none" THEN Nothing
                  ELSE [holders |-> {"command"} \cup Lent', freed |-> 0]
    <3>1. CASE command'.block = "none"
      BY <1>3, <1>4, <2>2, <3>1 DEF Holders
    <3>2. CASE command'.block # "none"
      <4>1. Holders(command') = {"command"} \cup Lent'
        BY <2>1, <2>2, <3>2 DEF Holders, Lent, Blocks
      <4>2. QED
        BY <1>3, <3>2, <4>1
    <3>3. QED
      BY <3>1, <3>2
  <2>5. MemoryMoves'
    BY <2>1, <2>2, <2>4 DEF MemoryMoves
  <2>6. TypeOK'
    BY <1>1, <1>8, <2>2, <2>4 DEF IInv, TypeOK, Nothing, Lent
  <2>7. QED
    BY <1>1, <2>1, <2>2, <2>3, <2>5, <2>6 DEF IInv, InOrder, OnlyPluginCodesAbort
<1>9. CASE OneAnswer(o)
  <2>1. PICK code \in Errors : o = Answered(code)
    BY <1>9 DEF OneAnswer
  <2>2. o.answers = <<code>> /\ o.send = None
    BY <2>1 DEF Answered, Outcome
  <2>3. <<code>> \in Seq(Errors) /\ Len(<<code>>) = 1
    BY <2>1
  <2>4. QED
    BY <1>7, <2>2, <2>3
<1>10. CASE OneCommand(o)
  <2>1. o.answers = <<>> /\ o.send \in Commands
    BY <1>10 DEF OneCommand, Outcome
  <2>2. QED
    BY <1>8, <2>1, EmptySeq
<1>11. CASE endpoint = "handle_login" /\ o = Outcome(<<"NEED_TOKEN", "SUCCESS">>, None)
  <2>1. o.answers = <<"NEED_TOKEN", "SUCCESS">> /\ o.send = None
    BY <1>11 DEF Outcome
  <2>2. <<"NEED_TOKEN", "SUCCESS">> \in Seq(Errors)
    BY KnownErrors
  <2>3. QED
    BY <1>7, <1>11, <2>1, <2>2
<1>12. CASE o = Crashed
  <2>1. o.answers = <<>> /\ o.send = Undefined
    BY <1>12 DEF Crashed, Outcome
  <2>2. answers' = <<>> /\ Len(<<>>) = 0 /\ <<>> \in Seq(Errors \cup {PluginCode})
    BY <1>1, <1>2, <2>1, ConcatEmptySeq, EmptySeq
  <2>3. DOMAIN o.answers = {}
    BY <2>1
  <2>4. command' = None /\ pc' = "freeing" /\ fate' = "crash"
    BY <1>2, <2>1, <2>3
  <2>6. memory' = Nothing
    BY <1>3, <1>4, <2>4
  <2>5. QED
    BY <1>1, <2>2, <2>4, <2>6
       DEF IInv, TypeOK, InOrder, AnswerIsDue, MemoryMoves, AnsweredOnce,
           OnlyPluginCodesAbort, Nothing
<1>13. CASE /\ endpoint = "handle_log_level" /\ Levels(o.answers)
            /\ o = Outcome(o.answers, [type |-> "UPDATE_LOG_LEVEL", block |-> "none"])
  <2>1. [type |-> "UPDATE_LOG_LEVEL", block |-> "none"] \in Commands
    BY DEF Commands, HandedOn, Types, Blocks
  <2>2. o.send = [type |-> "UPDATE_LOG_LEVEL", block |-> "none"]
    BY <1>13 DEF Outcome
  <2>3. QED
    BY <1>8, <1>13, <2>1, <2>2 DEF Levels
<1>14. QED
  BY <1>5, <1>9, <1>10, <1>11, <1>12, <1>13 DEF Expected, Decided

\* A command is a record with a block.
LEMMA CommandShape ==
      ASSUME TypeOK, command # None
      PROVE  /\ command \in Commands /\ command.type \in Types /\ command.block \in Blocks
             /\ command.type \in HandedOn => command.block = "own"
  BY DEF TypeOK, Commands

\* What it is that one holder gives up.
LEMMA ReleaseShape ==
      ASSUME NEW h, NEW n \in Nat, NEW holder
      PROVE  /\ holder \in h => Release([holders |-> h, freed |-> n], holder)
                                   = [holders |-> h \ {holder}, freed |-> n + 1]
             /\ holder \notin h => Release([holders |-> h, freed |-> n], holder)
                                      = [holders |-> h, freed |-> n]
  BY DEF Release

\* The command is queued, or that it is not is the answer that was due.
LEMMA SendIInv ==
      ASSUME Send, IInv
      PROVE  IInv'
<1>1. /\ fate = "up" /\ pc = "sending" /\ command # None /\ receiver = "none"
      /\ UNCHANGED <<endpoint, command, fate>> /\ endpoint \in Endpoints
      /\ answers \in Seq(Errors \cup {PluginCode})
  BY DEF Send, IInv, TypeOK, InOrder
<1>2. IF command.block = "none" THEN memory = Nothing
      ELSE memory = [holders |-> {"command"} \cup Lent, freed |-> 0]
  BY <1>1 DEF IInv, MemoryMoves
<1>3. command.block \in Blocks
  BY <1>1, CommandShape DEF IInv
<1>4. CASE /\ pc' = "sent" /\ receiver' = "queued" /\ UNCHANGED answers
           /\ memory' = [memory EXCEPT !.holders =
                IF "command" \in @ THEN (@ \ {"command"}) \cup {"receiver"} ELSE @]
  <2>1. IF command.block = "none" THEN memory' = Nothing
        ELSE memory' = [holders |-> {"receiver"} \cup Lent', freed |-> 0]
    <3>1. CASE command.block = "none"
      BY <1>2, <1>4, <3>1 DEF Nothing
    <3>2. CASE command.block # "none"
      <4>1. Lent' = Lent /\ Lent \subseteq {"request"}
        BY <1>1, <1>4 DEF Lent
      <4>2. memory' = [holders |-> (({"command"} \cup Lent) \ {"command"}) \cup {"receiver"},
                       freed |-> 0]
        BY <1>2, <1>4, <3>2
      <4>3. (({"command"} \cup Lent) \ {"command"}) \cup {"receiver"}
               = {"receiver"} \cup Lent'
        BY <4>1
      <4>4. QED
        BY <3>2, <4>2, <4>3
    <3>3. QED
      BY <3>1, <3>2
  <2>2. MemoryMoves'
    BY <1>1, <1>4, <2>1 DEF MemoryMoves
  <2>3. memory' \in [holders : SUBSET {"command", "request", "receiver"}, freed : Nat]
    BY <2>1 DEF Nothing, Lent
  <2>4. AnswerIsDue'
    BY <1>1, <1>4 DEF IInv, AnswerIsDue
  <2>5. QED
    BY <1>1, <1>4, <2>2, <2>3, <2>4
       DEF IInv, TypeOK, InOrder, AnsweredOnce, OnlyPluginCodesAbort
<1>5. CASE /\ answers' = Append(answers, "IS_BUSY") /\ pc' = "freeing"
           /\ memory' = IF command.block = "tidy" THEN Release(memory, "command")
                        ELSE [memory EXCEPT !.holders = @ \ {"command"}]
           /\ UNCHANGED receiver
  <2>1. IF command.block = "none" THEN memory' = Nothing
        ELSE memory' = [holders |-> Lent',
                        freed |-> IF command.block = "tidy" THEN 1 ELSE 0]
    <3>1. CASE command.block = "none"
      <4>1. memory = [holders |-> {}, freed |-> 0]
        BY <1>2, <3>1 DEF Nothing
      <4>2. memory' = [memory EXCEPT !.holders = {} \ {"command"}]
        BY <1>5, <3>1, <4>1
      <4>3. QED
        BY <3>1, <4>1, <4>2 DEF Nothing
    <3>2. CASE command.block # "none"
      <4>1. Lent' = Lent /\ Lent \subseteq {"request"}
        BY <1>1, <1>5 DEF Lent
      <4>2. ({"command"} \cup Lent) \ {"command"} = Lent'
        BY <4>1
      <4>3. memory = [holders |-> {"command"} \cup Lent, freed |-> 0]
        BY <1>2, <3>2
      <4>4. CASE command.block = "tidy"
        <5>1. Release(memory, "command") = [holders |-> Lent', freed |-> 1]
          BY <4>2, <4>3, ReleaseShape
        <5>2. QED
          BY <1>5, <3>2, <4>4, <5>1
      <4>5. CASE command.block # "tidy"
        BY <1>5, <3>2, <4>2, <4>3, <4>5
      <4>6. QED
        BY <4>4, <4>5
    <3>3. QED
      BY <3>1, <3>2
  <2>2. MemoryMoves'
    BY <1>1, <1>5, <2>1 DEF MemoryMoves
  <2>3. memory' \in [holders : SUBSET {"command", "request", "receiver"}, freed : Nat]
    BY <2>1 DEF Nothing, Lent
  <2>4. "IS_BUSY" \in Errors \cup {PluginCode}
    BY KnownErrors
  <2>5. AnsweredOnce' /\ answers' \in Seq(Errors \cup {PluginCode})
    BY <1>1, <1>5, <2>4, DueAnswer DEF IInv
  <2>6. QED
    BY <1>1, <1>5, <2>2, <2>3, <2>5
       DEF IInv, TypeOK, InOrder, AnswerIsDue, OnlyPluginCodesAbort
<1>6. QED
  BY <1>4, <1>5 DEF Send

\* Whether a block was left to nobody is said of the command and its answer.
LEMMA SameKept == UNCHANGED <<command, receiver, answers>> => (Kept' <=> Kept)
  BY DEF Kept

\* What was lent to the command is no longer the request's.
LEMMA ForgetIInv ==
      ASSUME Forget, IInv
      PROVE  IInv'
<1>1. /\ fate = "up" /\ pc = "sent" /\ pc' = "freeing"
      /\ memory' = [memory EXCEPT !.holders = @ \ {"request"}]
      /\ UNCHANGED <<endpoint, command, receiver, answers, fate>>
      /\ command # None /\ receiver # "none" /\ endpoint \in Endpoints
  BY DEF Forget, Forgotten, IInv, InOrder
<1>2. Lent' = {} /\ Lent \subseteq {"request"}
  BY <1>1 DEF Lent
<1>3. ASSUME NEW h, NEW n, memory = [holders |-> h, freed |-> n]
      PROVE  memory' = [holders |-> h \ {"request"}, freed |-> n]
  BY <1>1, <1>3
<1>4. MemoryMoves'
  <2>1. CASE command.block = "none"
    <3>1. memory = [holders |-> {}, freed |-> 0]
      BY <1>1, <2>1 DEF IInv, MemoryMoves, Nothing
    <3>2. memory' = [holders |-> {} \ {"request"}, freed |-> 0]
      BY <1>3, <3>1
    <3>3. QED
      BY <1>1, <2>1, <3>2 DEF MemoryMoves, Nothing
  <2>2. CASE command.block # "none"
    <3>1. \/ receiver = "queued" /\ memory = [holders |-> {"receiver"} \cup Lent, freed |-> 0]
          \/ receiver # "queued" /\ memory = [holders |-> Lent, freed |-> 1]
          \/ /\ receiver # "queued" /\ memory = [holders |-> {}, freed |-> 0]
             /\ command.block = "own" /\ Kept
      BY <1>1, <2>2 DEF IInv, MemoryMoves, Nothing
    <3>2. /\ ({"receiver"} \cup Lent) \ {"request"} = {"receiver"} \cup Lent'
          /\ Lent \ {"request"} = Lent' /\ {} \ {"request"} = {}
      BY <1>2
    <3>3. \/ receiver = "queued" /\ memory' = [holders |-> {"receiver"} \cup Lent', freed |-> 0]
          \/ receiver # "queued" /\ memory' = [holders |-> Lent', freed |-> 1]
          \/ /\ receiver # "queued" /\ memory' = [holders |-> {}, freed |-> 0]
             /\ command.block = "own" /\ Kept
      BY <1>3, <3>1, <3>2
    <3>4. Kept' <=> Kept
      BY <1>1, SameKept
    <3>5. QED
      BY <1>1, <2>2, <3>3, <3>4 DEF MemoryMoves, Nothing
  <2>3. QED
    BY <2>1, <2>2
<1>5. memory' \in [holders : SUBSET {"command", "request", "receiver"}, freed : Nat]
  BY <1>1 DEF IInv, TypeOK
<1>6. QED
  BY <1>1, <1>4, <1>5
     DEF IInv, TypeOK, InOrder, AnswerIsDue, AnsweredOnce, OnlyPluginCodesAbort

\* The request is freed, and what it has lent to no one.
LEMMA FreeRequestIInv ==
      ASSUME FreeRequest, IInv
      PROVE  IInv'
<1>1. /\ fate = "up" /\ pc \in {"freeing", "rejected"} /\ pc' = "done"
      /\ memory' = Release(memory, "request")
      /\ UNCHANGED <<endpoint, command, receiver, answers, fate>>
      /\ endpoint \in Endpoints
  BY DEF FreeRequest, IInv, InOrder
<1>2. Lent' = {}
  BY <1>1 DEF Lent
<1>3. MemoryMoves'
  <2>1. CASE command = None \/ command.block = "none"
    <3>1. memory = [holders |-> {}, freed |-> 0]
      BY <2>1 DEF IInv, MemoryMoves, Nothing
    <3>2. memory' = memory
      BY <1>1, <3>1, ReleaseShape
    <3>3. QED
      BY <1>1, <2>1, <3>1, <3>2 DEF MemoryMoves, Nothing
  <2>2. CASE command # None /\ command.block # "none"
    <3>1. pc = "freeing"
      BY <1>1, <2>2 DEF IInv, InOrder
    <3>2. CASE receiver = "none"
      <4>1. memory = [holders |-> Lent, freed |-> IF command.block = "tidy" THEN 1 ELSE 0]
        BY <2>2, <3>1, <3>2 DEF IInv, MemoryMoves
      <4>2. CASE command.block = "lent"
        <5>1. Lent = {"request"}
          BY <3>1, <3>2, <4>2 DEF Lent
        <5>2. memory = [holders |-> {"request"}, freed |-> 0]
          BY <4>1, <4>2, <5>1
        <5>3. memory' = [holders |-> {"request"} \ {"request"}, freed |-> 0 + 1]
          BY <1>1, <5>2, ReleaseShape
        <5>4. memory' = [holders |-> Lent', freed |-> 1]
          BY <1>2, <5>3
        <5>5. QED
          BY <1>1, <2>2, <3>2, <4>2, <5>4 DEF MemoryMoves
      <4>3. CASE command.block # "lent"
        <5>1. Lent = {}
          BY <4>3 DEF Lent
        <5>2. memory' = memory
          BY <1>1, <4>1, <5>1, ReleaseShape
        <5>3. QED
          BY <1>1, <1>2, <2>2, <3>2, <4>1, <4>3, <5>1, <5>2 DEF MemoryMoves
      <4>4. QED
        BY <4>2, <4>3
    <3>3. CASE receiver # "none"
      <4>1. Lent = {}
        BY <3>1, <3>3 DEF Lent
      <4>2. \/ receiver = "queued" /\ memory = [holders |-> {"receiver"}, freed |-> 0]
            \/ receiver # "queued" /\ memory = [holders |-> {}, freed |-> 1]
            \/ /\ receiver # "queued" /\ memory = [holders |-> {}, freed |-> 0]
               /\ command.block = "own" /\ Kept
        BY <2>2, <3>1, <3>3, <4>1 DEF IInv, MemoryMoves, Nothing
      <4>3. memory' = memory
        <5>1. "request" \notin memory.holders
          BY <4>2
        <5>2. QED
          BY <1>1, <5>1 DEF Release
      <4>4. Kept' <=> Kept
        BY <1>1, SameKept
      <4>5. QED
        BY <1>1, <1>2, <2>2, <3>3, <4>2, <4>3, <4>4 DEF MemoryMoves, Nothing
    <3>4. QED
      BY <3>2, <3>3
  <2>3. QED
    BY <2>1, <2>2
<1>4. memory' \in [holders : SUBSET {"command", "request", "receiver"}, freed : Nat]
  BY <1>1 DEF IInv, TypeOK, Release
<1>5. QED
  BY <1>1, <1>3, <1>4
     DEF IInv, TypeOK, InOrder, AnswerIsDue, AnsweredOnce, OnlyPluginCodesAbort

\* What those that take a command have in common.
Served ==
    /\ fate = "up" /\ receiver = "queued"
    /\ UNCHANGED <<pc, endpoint, command, answers, fate>>
    /\ receiver' \in Codes \cup Responses
    /\ \/ Frees
       \/ Leaves /\ Kept' /\ command.type \in HandedOn

LEMMA Receivers == RefuseSetting \/ ServeSetting \/ ServeTags \/ Serve => Served
<1>1. {"SUCCESS", "NODE_NOT_EXIST", "NODE_SETTING_INVALID", "GROUP_NOT_ALLOW"} \subseteq Codes
  BY DEF Codes
<1>2. CASE RefuseSetting
  BY <1>1, <1>2 DEF RefuseSetting, Takes, Served
<1>3. CASE ServeSetting
  BY <1>1, <1>3 DEF ServeSetting, Takes, Served, Kept, HandedOn
<1>4. CASE ServeTags
  <2>1. CASE Takes({"ADD_TAG", "UPDATE_TAG"}, {ResponseTo[command.type]}) /\ (Leaves \/ Frees)
    <3>1. command.type \in {"ADD_TAG", "UPDATE_TAG"} /\ command' = command
      BY <2>1 DEF Takes
    <3>2. command.type \in DOMAIN ResponseTo
      BY <3>1 DEF ResponseTo
    <3>3. receiver' \in Responses
      BY <2>1, <3>2 DEF Takes, Responses
    <3>4. Kept' /\ command.type \in HandedOn
      BY <3>1 DEF Kept, HandedOn
    <3>5. QED
      BY <2>1, <3>3, <3>4 DEF Takes, Served
  <2>2. CASE Takes({"DEL_TAG"}, {"SUCCESS"}) /\ Leaves
    BY <1>1, <2>2 DEF Takes, Served, Kept, HandedOn
  <2>3. CASE Takes({"DEL_TAG"}, {"GROUP_NOT_ALLOW"}) /\ Frees
    BY <1>1, <2>3 DEF Takes, Served
  <2>4. QED
    BY <1>4, <2>1, <2>2, <2>3 DEF ServeTags
<1>5. CASE Serve
  BY <1>5 DEF Serve, Takes, Served, Responses
<1>6. QED
  BY <1>2, <1>3, <1>4, <1>5

\* The receiver answers, and frees the block or leaves it to nobody.
LEMMA ServeIInv ==
      ASSUME Served, IInv
      PROVE  IInv'
<1>1. /\ fate = "up" /\ receiver = "queued"
      /\ UNCHANGED <<pc, endpoint, command, answers, fate>>
      /\ command # None /\ pc # "sending"
      /\ \/ memory' = Release(memory, "receiver")
         \/ /\ command.type \in HandedOn /\ Kept'
            /\ memory' = [memory EXCEPT !.holders = @ \ {"receiver"}]
  BY DEF Served, Frees, Leaves, IInv, InOrder
<1>2. receiver' \in Codes \cup Responses
  BY DEF Served
<1>3. receiver' \notin {"none", "queued", "told"}
  BY <1>2, PluginCodeAssumption DEF Codes, Responses, ResponseTo
<1>4. command.type \in HandedOn => command.block = "own"
  BY <1>1, CommandShape DEF IInv
<1>5. MemoryMoves'
  <2>1. CASE command.block = "none"
    <3>1. memory = [holders |-> {}, freed |-> 0]
      BY <1>1, <2>1 DEF IInv, MemoryMoves, Nothing
    <3>2. memory' = memory
      BY <1>1, <1>4, <2>1, <3>1, ReleaseShape
    <3>3. QED
      BY <1>1, <2>1, <3>1, <3>2 DEF MemoryMoves, Nothing
  <2>2. CASE command.block # "none"
    <3>1. memory = [holders |-> {"receiver"} \cup Lent, freed |-> 0]
      BY <1>1, <2>2 DEF IInv, MemoryMoves
    <3>2. /\ Lent' = IF command.block = "lent" /\ pc = "sent" THEN {"request"} ELSE {}
          /\ Lent = IF command.block = "lent" /\ pc = "sent" THEN {"request"} ELSE {}
      BY <1>1, <1>3 DEF Lent
    <3>3. ({"receiver"} \cup Lent) \ {"receiver"} = Lent'
      BY <3>2
    <3>4. CASE memory' = Release(memory, "receiver")
      <4>1. memory' = [holders |-> ({"receiver"} \cup Lent) \ {"receiver"}, freed |-> 0 + 1]
        BY <3>1, <3>4, ReleaseShape
      <4>2. memory' = [holders |-> Lent', freed |-> 1]
        BY <3>3, <4>1
      <4>3. QED
        BY <1>1, <1>3, <2>2, <4>2 DEF MemoryMoves
    <3>5. CASE /\ command.type \in HandedOn /\ Kept'
               /\ memory' = [memory EXCEPT !.holders = @ \ {"receiver"}]
      <4>1. Lent' = {} /\ command.block = "own"
        BY <1>4, <3>2, <3>5
      <4>2. memory' = [holders |-> Lent', freed |-> 0]
        BY <3>1, <3>3, <3>5
      <4>3. memory' = Nothing
        BY <4>1, <4>2 DEF Nothing
      <4>4. QED
        BY <1>1, <1>3, <2>2, <3>5, <4>1, <4>3 DEF MemoryMoves
    <3>6. QED
      BY <1>1, <3>4, <3>5
  <2>3. QED
    BY <2>1, <2>2
<1>6. memory' \in [holders : SUBSET {"command", "request", "receiver"}, freed : Nat]
  <2>1. memory \in [holders : SUBSET {"command", "request", "receiver"}, freed : Nat]
    BY DEF IInv, TypeOK
  <2>2. CASE memory' = Release(memory, "receiver")
    BY <2>1, <2>2 DEF Release
  <2>3. CASE memory' = [memory EXCEPT !.holders = @ \ {"receiver"}]
    BY <2>1, <2>3
  <2>4. QED
    BY <1>1, <2>2, <2>3
<1>7. QED
  BY <1>1, <1>2, <1>3, <1>5, <1>6
     DEF IInv, TypeOK, InOrder, AnswerIsDue, AnsweredOnce, OnlyPluginCodesAbort

\* The process ends over a command that nobody takes.
LEMMA FallIInv ==
      ASSUME Fall, IInv
      PROVE  IInv'
<1>1. fate' = "no case" /\ UNCHANGED <<pc, endpoint, command, receiver, memory, answers>>
  BY DEF Fall
<1>2. QED
  BY <1>1, SameKept
     DEF IInv, TypeOK, InOrder, AnswerIsDue, AnsweredOnce, OnlyPluginCodesAbort,
         MemoryMoves, Lent

\* All codes but a plugin's own have a status.
LEMMA KnownCodes == Codes \subseteq Errors \cup {PluginCode}
<1>1. /\ OK \subseteq Errors /\ BadRequest \subseteq Errors /\ NotFound \subseteq Errors
      /\ Conflict \subseteq Errors /\ InternalError \subseteq Errors
  BY DEF Errors
<1>2. QED
  BY <1>1 DEF Codes, OK, BadRequest, NotFound, Conflict, InternalError

\* The response to the command is the answer that was due.
LEMMA RespondIInv ==
      ASSUME Respond, IInv
      PROVE  IInv'
<1>1. /\ fate = "up" /\ receiver \notin {"none", "queued", "told"} /\ receiver' = "told"
      /\ UNCHANGED <<pc, endpoint, command, memory>>
      /\ command # None /\ pc # "sending" /\ endpoint \in Endpoints \cup {None}
      /\ answers \in Seq(Errors \cup {PluginCode})
      /\ receiver \in Codes \cup Responses
      /\ fate' = IF receiver \in Codes /\ ~ Known(receiver) THEN "no status" ELSE fate
  BY DEF Respond, IInv, TypeOK, InOrder
<1>2. PICK codes \in Told(receiver) : answers' = answers \o codes
  BY DEF Respond
<1>3. /\ (Kept => Kept') => MemoryMoves'
      /\ memory' \in [holders : SUBSET {"command", "request", "receiver"}, freed : Nat]
  BY <1>1 DEF IInv, TypeOK, MemoryMoves, Lent
<1>4. \/ codes = <<>> /\ receiver \notin Codes
      \/ \E code \in Errors \cup {PluginCode} :
            codes = <<code>> /\ (receiver \in Codes => code = receiver)
  <2>1. CASE receiver \in Codes
    <3>1. receiver \notin NotAnswered /\ receiver # "RESP_GET_NODE_SETTING"
      BY <2>1, PluginCodeAssumption DEF Codes, NotAnswered, Responses, ResponseTo
    <3>2. codes = <<receiver>>
      BY <1>2, <2>1, <3>1 DEF Told
    <3>3. QED
      BY <2>1, <3>2, KnownCodes
  <2>2. CASE receiver \notin Codes
    <3>1. codes \in {<<>>, <<"SUCCESS">>, <<"EINTERNAL">>}
      BY <1>2, <2>2 DEF Told
    <3>2. QED
      BY <2>2, <3>1, KnownErrors
  <2>3. QED
    BY <2>1, <2>2
<1>5. CASE codes = <<>> /\ receiver \notin Codes
  <2>1. answers' = answers
    BY <1>1, <1>2, <1>5, ConcatEmptySeq
  <2>2. AnsweredOnce'
    BY <1>1, <2>1 DEF IInv, AnsweredOnce
  <2>3. receiver # "SUCCESS"
    BY <1>5 DEF Codes
  <2>4. Kept => Kept'
    BY <1>1, <2>3 DEF Kept
  <2>5. QED
    BY <1>1, <1>3, <1>5, <2>1, <2>2, <2>4
       DEF IInv, TypeOK, InOrder, AnswerIsDue, OnlyPluginCodesAbort
<1>6. CASE \E code \in Errors \cup {PluginCode} :
              codes = <<code>> /\ (receiver \in Codes => code = receiver)
  <2>1. PICK code \in Errors \cup {PluginCode} :
            codes = <<code>> /\ (receiver \in Codes => code = receiver)
    BY <1>6
  <2>2. answers' = Append(answers, code)
    BY <1>1, <1>2, <2>1, AppendIsConcat
  <2>3. /\ AnsweredOnce' /\ answers' \in Seq(Errors \cup {PluginCode})
        /\ Last(answers') = code
    BY <1>1, <2>2, DueAnswer DEF IInv
  <2>4. OnlyPluginCodesAbort'
    <3>1. fate' = "no status" => receiver \in Codes /\ receiver \notin Errors
      BY <1>1 DEF Known
    <3>2. fate' = "no status" => Last(answers') = PluginCode
      BY <2>1, <2>3, <3>1
    <3>3. QED
      BY <1>1, <3>2 DEF OnlyPluginCodesAbort
  <2>5. Kept => Kept'
    <3>1. answers' # <<>>
      <4>1. ASSUME NEW S, NEW s \in Seq(S), NEW e \in S
            PROVE  Append(s, e) # <<>>
        BY AppendProperties
      <4>2. QED
        BY <1>1, <2>1, <2>2, <4>1
    <3>2. receiver = "SUCCESS" => code = "SUCCESS"
      BY <2>1 DEF Codes
    <3>3. QED
      BY <1>1, <2>3, <3>1, <3>2 DEF Kept
  <2>6. QED
    BY <1>1, <1>3, <2>3, <2>4, <2>5 DEF IInv, TypeOK, InOrder, AnswerIsDue
<1>7. QED
  BY <1>4, <1>5, <1>6

-----------------------------------------------------------------------------
(* What a client writes is read back.  One structure first, given what     *)
(* becomes of its lists; then the levels, one on top of the other.         *)

Kinds == {"str", "int", "double", "value", "static", "dump", "list", "names", "given"}

\* The fields of a structure have names of their own, and a value that must fit a
\* type comes with the type and the attribute.
Sound(fields) ==
    /\ \A i \in DOMAIN fields : fields[i].kind \in Kinds /\ fields[i].least \in Nat
    /\ \A i, j \in DOMAIN fields : fields[i].name = fields[j].name => i = j
    /\ \A i \in DOMAIN fields : fields[i].kind = "static" =>
          /\ \E j \in DOMAIN fields : fields[j].name = "type" /\ fields[j].kind = "int"
          /\ \E j \in DOMAIN fields : fields[j].name = "attribute" /\ fields[j].kind = "int"

SoundFlat(fields) == /\ Sound(fields)
                     /\ \A i \in DOMAIN fields : fields[i].kind # "list"
SoundList(fields) == /\ Sound(fields)
                     /\ \A i \in DOMAIN fields :
                           fields[i].kind = "list" => SoundFlat(fields[i].items)
SoundWhole(fields) == /\ Sound(fields)
                      /\ \A i \in DOMAIN fields :
                            fields[i].kind = "list" => SoundList(fields[i].items)

\* A field is found by its name.
LEMMA FoundByName ==
      ASSUME NEW fields, Sound(fields)
      PROVE  /\ \A i \in DOMAIN fields : FieldOf(fields, fields[i].name) = fields[i]
             /\ \A key \in Keys(fields) : \E i \in DOMAIN fields :
                   fields[i].name = key /\ FieldOf(fields, key) = fields[i]
             /\ \A key \in Lists(fields) : \E i \in DOMAIN fields :
                   /\ fields[i].name = key /\ FieldOf(fields, key) = fields[i]
                   /\ fields[i].kind = "list"
<1>1. ASSUME NEW i \in DOMAIN fields
      PROVE  FieldOf(fields, fields[i].name) = fields[i]
  <2> DEFINE Here(j) == j \in DOMAIN fields /\ fields[j].name = fields[i].name
             c == CHOOSE j \in DOMAIN fields : fields[j].name = fields[i].name
  <2>1. c \in DOMAIN fields /\ fields[c].name = fields[i].name
    OBVIOUS
  <2>2. c = i
    BY <2>1 DEF Sound
  <2>3. QED
    BY <2>2 DEF FieldOf
<1>2. QED
  BY <1>1 DEF Keys, Lists

\* What the document has under the name of a field.
LEMMA UnderItsName ==
      ASSUME NEW fields, Sound(fields), NEW m, NEW lists,
             NoNull(EncodeWith(fields, m, lists)), NEW i \in DOMAIN fields
      PROVE  LET f == fields[i]
                 v == m[f.name]
                 e == Get(EncodeWith(fields, m, lists), f.name)
             IN  /\ v = None => e = None
                 /\ v # None =>
                       /\ e # None
                       /\ e = EncodeValue(f, v, IF f.kind = "list" THEN lists[f.name]
                                                ELSE <<>>)
<1> DEFINE f == fields[i]
           key == f.name
           v == m[key]
           d == EncodeWith(fields, m, lists)
           given == {k \in Keys(fields) : m[k] # None}
<1>1. /\ d[1] = "object" /\ DOMAIN d[2] = given
      /\ \A k \in given : d[2][k] =
            EncodeValue(FieldOf(fields, k), m[k],
                        IF FieldOf(fields, k).kind = "list" THEN lists[k] ELSE <<>>)
  BY DEF EncodeWith, Object
<1>2. FieldOf(fields, key) = f /\ key \in Keys(fields)
  BY FoundByName DEF Keys
<1>3. d # None /\ \A k \in given : d[2][k] # None
  <2>1. d # None /\ \A k \in DOMAIN d[2] : d[2][k] # None
    BY DEF NoNull
  <2> HIDE DEF d, given
  <2>2. QED
    BY <2>1, <1>1
<1>4. CASE v = None
  <2>1. key \notin given
    BY <1>4
  <2> HIDE DEF d, given, v, key, f
  <2>2. Get(d, key) = None
    BY <1>1, <2>1 DEF Get
  <2>3. QED
    BY <1>4, <2>2 DEF d, v, key, f
<1>5. CASE v # None
  <2>1. key \in given
    BY <1>2, <1>5
  <2> HIDE DEF d, given, v, key, f
  <2>2. Get(d, key) = d[2][key]
    BY <1>1, <1>3, <2>1 DEF Get
  <2>3. d[2][key] = EncodeValue(f, m[key], IF f.kind = "list" THEN lists[key] ELSE <<>>)
    BY <1>1, <1>2, <2>1
  <2>4. Get(d, key) # None
    BY <1>3, <2>1, <2>2
  <2>5. QED
    BY <1>5, <2>2, <2>3, <2>4 DEF d, v, key, f
<1>6. QED
  BY <1>4, <1>5 DEF d

\* An integer is read as it was written.
LEMMA NumberIsKept ==
      ASSUME NEW fields, Sound(fields), NEW m, FilledWith(fields, m), NEW lists,
             NoNull(EncodeWith(fields, m, lists)),
             NEW i \in DOMAIN fields, fields[i].kind = "int"
      PROVE  Number(Get(EncodeWith(fields, m, lists), fields[i].name)) = m[fields[i].name]
<1> DEFINE e == Get(EncodeWith(fields, m, lists), fields[i].name)
           v == m[fields[i].name]
<1>1. v # None
  BY DEF FilledWith, Filled
<1>2. e # None /\ e = EncodeValue(fields[i], v, <<>>)
  BY <1>1, UnderItsName
<1> HIDE DEF e, v
<1>3. e = <<"integer", v>>
  BY <1>2 DEF EncodeValue, Integer
<1>4. QED
  BY <1>2, <1>3 DEF Number, e, v

\* The i-th field is accepted in the document and read as it is in the structure.
ReadBack(fields, i, m, d, bad, decoded) ==
    LET f == fields[i]
        e == Get(d, f.name)
    IN  /\ ~Rejected(f, e, d, bad)
        /\ DecodeValue(f, e, IF f.kind = "list" THEN decoded[f.name] ELSE <<>>) = m[f.name]

\* A field is accepted and read as it was written, if what it lists is.
LEMMA FieldReadBack ==
      ASSUME NEW fields, Sound(fields), NEW m, FilledWith(fields, m), NEW lists,
             NoNull(EncodeWith(fields, m, lists)),
             NEW i \in DOMAIN fields, NEW bad, NEW decoded,
             fields[i].kind = "list" =>
                /\ Len(lists[fields[i].name]) = Len(m[fields[i].name])
                /\ fields[i].name \notin bad
                /\ decoded[fields[i].name] = m[fields[i].name]
      PROVE  ReadBack(fields, i, m, EncodeWith(fields, m, lists), bad, decoded)
<1> DEFINE f == fields[i]
           v == m[f.name]
           d == EncodeWith(fields, m, lists)
           e == Get(d, f.name)
           inner == IF f.kind = "list" THEN lists[f.name] ELSE <<>>
           outer == IF f.kind = "list" THEN decoded[f.name] ELSE <<>>
<1>1. /\ v = None => e = None
      /\ v # None => e # None /\ e = EncodeValue(f, v, inner)
  BY UnderItsName
<1>2. f.kind \in Kinds /\ f.least \in Nat /\ Filled(f, m)
  BY DEF Sound, FilledWith
<1>3. f.kind = "static" => TagFits(d, v) <=> FitsType(m.type, m.attribute, v)
  <2>1. ASSUME f.kind = "static"
        PROVE  Number(Get(d, "type")) = m.type /\ Number(Get(d, "attribute")) = m.attribute
    <3>1. PICK t \in DOMAIN fields : fields[t].name = "type" /\ fields[t].kind = "int"
      BY <2>1 DEF Sound
    <3>2. PICK a \in DOMAIN fields : fields[a].name = "attribute" /\ fields[a].kind = "int"
      BY <2>1 DEF Sound
    <3>3. /\ Number(Get(d, fields[t].name)) = m[fields[t].name]
          /\ Number(Get(d, fields[a].name)) = m[fields[a].name]
      BY <3>1, <3>2, NumberIsKept
    <3> HIDE DEF d
    <3>4. QED
      BY <3>1, <3>2, <3>3
  <2> HIDE DEF d, v
  <2>2. QED
    BY <2>1 DEF TagFits
<1>4. f.kind = "list" => Len(inner) = Len(v) /\ f.name \notin bad /\ outer = v
  OBVIOUS
<1> HIDE DEF d, e, v, f, inner, outer
<1>5. CASE v = None
  <2>1. /\ f.opt /\ f.kind \in {"str", "given", "value", "dump", "static"}
        /\ f.kind = "static" => FitsType(m.type, m.attribute, v)
    BY <1>2, <1>5 DEF Filled, v
  <2>2. e = None
    BY <1>1, <1>5
  <2>3. ~Rejected(f, e, d, bad)
    BY <1>3, <1>5, <2>1, <2>2 DEF Rejected
  <2>4. DecodeValue(f, e, outer) = None
    BY <2>1, <2>2 DEF DecodeValue, Unset
  <2>5. QED
    BY <1>5, <2>3, <2>4 DEF ReadBack, d, e, v, f, outer
<1>6. CASE v # None
  <2> SUFFICES ~Rejected(f, e, d, bad) /\ DecodeValue(f, e, outer) = v
    BY DEF ReadBack, d, e, v, f, outer
  <2>1. e # None /\ e = EncodeValue(f, v, inner)
    BY <1>1, <1>6
  <2>2. CASE f.kind = "str"
    <3>1. e = <<"string", v>>
      BY <2>1, <2>2 DEF EncodeValue, Text
    <3>2. QED
      BY <2>1, <2>2, <3>1 DEF Rejected, DecodeValue
  <2>3. CASE f.kind \in {"int", "given"}
    <3>1. e = <<"integer", v>>
      BY <2>1, <2>3 DEF EncodeValue, Integer
    <3>2. Number(e) = v
      BY <2>1, <3>1 DEF Number
    <3>3. QED
      BY <2>1, <2>3, <3>1, <3>2 DEF Rejected, DecodeValue
  <2>4. CASE f.kind = "double"
    <3>1. e = <<"real", v>>
      BY <2>1, <2>4 DEF EncodeValue, Real
    <3>2. QED
      BY <2>1, <2>4, <3>1 DEF Rejected, DecodeValue
  <2>5. CASE f.kind = "value"
    <3>1. e = v /\ v[1] # "object"
      BY <1>2, <1>6, <2>1, <2>5 DEF EncodeValue, Filled, v
    <3>2. QED
      BY <2>1, <2>5, <3>1 DEF Rejected, DecodeValue
  <2>6. CASE f.kind = "static"
    <3>1. e = v
      BY <2>1, <2>6 DEF EncodeValue
    <3>2. v[1] # "object" /\ FitsType(m.type, m.attribute, v)
      BY <1>2, <1>6, <2>6 DEF Filled, v
    <3>3. QED
      BY <1>3, <2>1, <2>6, <3>1, <3>2 DEF Rejected, DecodeValue
  <2>7. CASE f.kind = "dump"
    <3>1. e = v[2][f.name]
      BY <2>1, <2>7 DEF EncodeValue
    <3>2. v = Object([key \in {f.name} |-> v[2][f.name]])
      BY <1>2, <1>6, <2>7 DEF Filled, v
    <3>3. ~Rejected(f, e, d, bad)
      BY <2>1, <2>7 DEF Rejected
    <3>4. DecodeValue(f, e, outer) = Object([key \in {f.name} |-> e])
      BY <2>1, <2>7 DEF DecodeValue
    <3>5. QED
      BY <3>1, <3>2, <3>3, <3>4
  <2>8. CASE f.kind = "list"
    <3>1. e = <<"array", inner>>
      BY <2>1, <2>8 DEF EncodeValue, Array
    <3>2. Len(v) >= f.least /\ Len(v) \in Nat
      BY <1>2, <1>6, <2>8 DEF Filled, v
    <3>3. ~Rejected(f, e, d, bad)
      <4>1. ~(Len(inner) < f.least)
        BY <1>2, <1>4, <2>8, <3>2
      <4>2. QED
        BY <1>4, <2>1, <2>8, <3>1, <4>1 DEF Rejected
    <3>4. DecodeValue(f, e, outer) = outer
      BY <2>1, <2>8 DEF DecodeValue
    <3>5. QED
      BY <1>4, <2>8, <3>3, <3>4
  <2>9. CASE f.kind = "names"
    <3> DEFINE s == [j \in DOMAIN v |-> Text(v[j])]
    <3>1. e = <<"array", s>>
      BY <2>1, <2>9 DEF EncodeValue, Array
    <3>2. /\ v = [j \in 1 .. Len(v) |-> v[j]]
          /\ Len(v) >= f.least /\ Len(v) \in Nat
      BY <1>2, <1>6, <2>9 DEF Filled, v
    <3>3. DOMAIN v = 1 .. Len(v)
      BY <3>2
    <3>4. /\ DOMAIN s = DOMAIN v /\ Len(s) = Len(v)
          /\ \A j \in DOMAIN v : s[j][1] = "string" /\ s[j][2] = v[j]
      <4>1. Len(s) = Len(v)
        BY <3>2, <3>3
      <4>2. QED
        BY <4>1 DEF Text
    <3> HIDE DEF s
    <3>5. e[1] = "array" /\ e[2] = s
      BY <3>1
    <3>6. ~Rejected(f, e, d, bad)
      <4>1. ~(Len(e[2]) < f.least)
        BY <1>2, <3>2, <3>4, <3>5
      <4>2. \A j \in DOMAIN e[2] : e[2][j][1] = "string"
        BY <3>4, <3>5
      <4>3. QED
        BY <2>1, <2>9, <3>5, <4>1, <4>2 DEF Rejected
    <3>7. DecodeValue(f, e, outer) = [j \in DOMAIN e[2] |-> e[2][j][2]]
      BY <2>1, <2>9 DEF DecodeValue
    <3>8. [j \in DOMAIN e[2] |-> e[2][j][2]] = [j \in DOMAIN v |-> v[j]]
      BY <3>4, <3>5
    <3>9. QED
      BY <3>2, <3>3, <3>6, <3>7, <3>8
  <2>10. QED
    BY <1>2, <2>2, <2>3, <2>4, <2>5, <2>6, <2>7, <2>8, <2>9 DEF Kinds
<1>7. QED
  BY <1>5, <1>6

\* A structure is accepted and read as it was written, if its lists are.
LEMMA StructureReadBack ==
      ASSUME NEW fields, Sound(fields), NEW m, FilledWith(fields, m), NEW lists,
             NoNull(EncodeWith(fields, m, lists)), NEW bad, NEW decoded,
             \A key \in Lists(fields) : /\ Len(lists[key]) = Len(m[key])
                                        /\ key \notin bad /\ decoded[key] = m[key]
      PROVE  /\ ~BadWith(fields, EncodeWith(fields, m, lists), bad)
             /\ DecodeWith(fields, EncodeWith(fields, m, lists), decoded) = m
<1> DEFINE d == EncodeWith(fields, m, lists)
<1>1. ASSUME NEW i \in DOMAIN fields
      PROVE  ReadBack(fields, i, m, d, bad, decoded)
  <2>1. fields[i].kind = "list" => fields[i].name \in Lists(fields)
    BY DEF Lists
  <2>2. fields[i].kind = "list" =>
                /\ Len(lists[fields[i].name]) = Len(m[fields[i].name])
                /\ fields[i].name \notin bad
                /\ decoded[fields[i].name] = m[fields[i].name]
    BY <2>1
  <2>3. QED
    BY <2>2, FieldReadBack
<1> HIDE DEF d
<1>2. ~BadWith(fields, d, bad)
  BY <1>1 DEF BadWith, ReadBack
<1>3. ASSUME NEW key \in Keys(fields)
      PROVE  LET f == FieldOf(fields, key)
             IN  DecodeValue(f, Get(d, key), IF f.kind = "list" THEN decoded[key] ELSE <<>>)
                    = m[key]
  <2>1. PICK i \in DOMAIN fields : fields[i].name = key /\ FieldOf(fields, key) = fields[i]
    BY FoundByName
  <2>2. QED
    BY <1>1, <2>1 DEF ReadBack
<1>4. DecodeWith(fields, d, decoded) = [key \in Keys(fields) |-> m[key]]
  BY <1>3 DEF DecodeWith
<1>5. m = [key \in Keys(fields) |-> m[key]]
  BY DEF FilledWith
<1>6. QED
  BY <1>2, <1>4, <1>5 DEF d

\* A list of a structure is a sequence, and is found in the document.
LEMMA ListOfItems ==
      ASSUME NEW fields, Sound(fields), NEW m, FilledWith(fields, m), NEW lists,
             NoNull(EncodeWith(fields, m, lists)), NEW key \in Lists(fields)
      PROVE  /\ m[key] = [i \in 1 .. Len(m[key]) |-> m[key][i]]
             /\ Len(m[key]) \in Nat
             /\ ItemsAt(EncodeWith(fields, m, lists), key) = lists[key]
<1> DEFINE d == EncodeWith(fields, m, lists)
           v == m[key]
<1>1. PICK i \in DOMAIN fields : fields[i].name = key /\ fields[i].kind = "list"
  BY FoundByName
<1>2. Filled(fields[i], m)
  BY DEF FilledWith
<1>3. v # None /\ v = [j \in 1 .. Len(v) |-> v[j]] /\ Len(v) \in Nat
  BY <1>1, <1>2 DEF Filled
<1>4. Get(d, key) # None /\ Get(d, key) = EncodeValue(fields[i], v, lists[key])
  BY <1>1, <1>3, UnderItsName
<1> HIDE DEF d, v
<1>5. Get(d, key) = <<"array", lists[key]>>
  BY <1>1, <1>4 DEF EncodeValue, Array
<1>6. ItemsAt(d, key) = lists[key]
  BY <1>4, <1>5 DEF ItemsAt
<1>7. QED
  BY <1>3, <1>6 DEF d, v

\* A structure without lists.
LEMMA FlatReadBack ==
      ASSUME NEW fields, SoundFlat(fields), NEW m, FilledFlat(fields, m)
      PROVE  /\ ~BadFlat(fields, EncodeFlat(fields, m))
             /\ DecodeFlat(fields, EncodeFlat(fields, m)) = m
<1>1. Sound(fields) /\ FilledWith(fields, m) /\ NoNull(EncodeWith(fields, m, <<>>))
  BY DEF SoundFlat, FilledFlat, EncodeFlat
<1>2. Lists(fields) = {}
  BY DEF SoundFlat, Lists
<1>3. /\ ~BadWith(fields, EncodeWith(fields, m, <<>>), {})
      /\ DecodeWith(fields, EncodeWith(fields, m, <<>>), <<>>) = m
  BY <1>1, <1>2, StructureReadBack
<1>4. QED
  BY <1>3 DEF EncodeFlat, BadFlat, DecodeFlat

\* A structure whose lists have items without lists.
LEMMA ListReadBack ==
      ASSUME NEW fields, SoundList(fields), NEW m, FilledList(fields, m)
      PROVE  /\ ~BadList(fields, EncodeList(fields, m))
             /\ DecodeList(fields, EncodeList(fields, m)) = m
<1> DEFINE lists == [key \in Lists(fields) |->
               [i \in DOMAIN m[key] |-> EncodeFlat(FieldOf(fields, key).items, m[key][i])]]
           d == EncodeList(fields, m)
           bad == {key \in Lists(fields) : \E i \in DOMAIN ItemsAt(d, key) :
                      BadFlat(FieldOf(fields, key).items, ItemsAt(d, key)[i])}
           decoded == [key \in Lists(fields) |->
               [i \in DOMAIN ItemsAt(d, key) |->
                   DecodeFlat(FieldOf(fields, key).items, ItemsAt(d, key)[i])]]
<1>1. Sound(fields) /\ FilledWith(fields, m) /\ NoNull(d)
  BY DEF SoundList, FilledList
<1>2. d = EncodeWith(fields, m, lists)
  BY DEF EncodeList
<1>3. BadList(fields, d) <=> BadWith(fields, d, bad)
  BY DEF BadList
<1>4. DecodeList(fields, d) = DecodeWith(fields, d, decoded)
  BY DEF DecodeList
<1>5. ASSUME NEW key \in Lists(fields)
      PROVE  /\ Len(lists[key]) = Len(m[key])
             /\ key \notin bad /\ decoded[key] = m[key]
  <2> DEFINE of == FieldOf(fields, key).items
             l == m[key]
             c == [i \in DOMAIN l |-> EncodeFlat(of, l[i])]
  <2>1. SoundFlat(of)
    <3>1. \E i \in DOMAIN fields : FieldOf(fields, key) = fields[i] /\ fields[i].kind = "list"
      BY <1>1, FoundByName
    <3>2. QED
      BY <3>1 DEF SoundList
  <2>2. \A i \in DOMAIN l : FilledFlat(of, l[i])
    BY DEF FilledList
  <2>3. \A i \in DOMAIN l : /\ ~BadFlat(of, EncodeFlat(of, l[i]))
                            /\ DecodeFlat(of, EncodeFlat(of, l[i])) = l[i]
    <3> HIDE DEF of, l
    <3>1. QED
      BY <2>1, <2>2, FlatReadBack
  <2>4. lists[key] = c
    OBVIOUS
  <2>5. /\ l = [i \in 1 .. Len(l) |-> l[i]] /\ Len(l) \in Nat
        /\ ItemsAt(d, key) = c
    <3> HIDE DEF d, lists, l, c
    <3>1. /\ l = [i \in 1 .. Len(l) |-> l[i]] /\ Len(l) \in Nat
          /\ ItemsAt(d, key) = lists[key]
      BY <1>1, <1>2, ListOfItems DEF l
    <3>2. QED
      BY <3>1, <2>4
  <2>6. decoded[key] = [i \in DOMAIN c |-> DecodeFlat(of, c[i])]
    <3> HIDE DEF d, c
    <3>1. QED
      BY <2>5
  <2>7. key \in bad <=> \E i \in DOMAIN c : BadFlat(of, c[i])
    <3> HIDE DEF d, c
    <3>1. QED
      BY <2>5
  <2> HIDE DEF of, l, lists, bad, decoded
  <2>8. /\ DOMAIN l = 1 .. Len(l) /\ DOMAIN c = DOMAIN l
        /\ \A i \in DOMAIN l : c[i] = EncodeFlat(of, l[i])
    BY <2>5
  <2>9. Len(c) = Len(l)
    BY <2>5, <2>8
  <2> HIDE DEF c
  <2>10. key \notin bad
    BY <2>3, <2>7, <2>8
  <2>11. decoded[key] = [i \in DOMAIN l |-> l[i]]
    BY <2>3, <2>6, <2>8
  <2>12. decoded[key] = l
    BY <2>5, <2>8, <2>11
  <2>13. QED
    BY <2>4, <2>9, <2>10, <2>12 DEF l
<1> HIDE DEF d, lists, bad, decoded
<1>6. ~BadWith(fields, d, bad) /\ DecodeWith(fields, d, decoded) = m
  BY <1>1, <1>2, <1>5, StructureReadBack
<1>7. QED
  BY <1>3, <1>4, <1>6 DEF d

\* A structure of a message.
LEMMA WholeReadBack ==
      ASSUME NEW fields, SoundWhole(fields), NEW m, Complete(fields, m)
      PROVE  /\ ~Bad(fields, Encode(fields, m))
             /\ DecodeWhole(fields, Encode(fields, m)) = m
<1> DEFINE lists == [key \in Lists(fields) |->
               [i \in DOMAIN m[key] |-> EncodeList(FieldOf(fields, key).items, m[key][i])]]
           d == Encode(fields, m)
           bad == {key \in Lists(fields) : \E i \in DOMAIN ItemsAt(d, key) :
                      BadList(FieldOf(fields, key).items, ItemsAt(d, key)[i])}
           decoded == [key \in Lists(fields) |->
               [i \in DOMAIN ItemsAt(d, key) |->
                   DecodeList(FieldOf(fields, key).items, ItemsAt(d, key)[i])]]
<1>1. Sound(fields) /\ FilledWith(fields, m) /\ NoNull(d)
  BY DEF SoundWhole, Complete
<1>2. d = EncodeWith(fields, m, lists)
  BY DEF Encode
<1>3. Bad(fields, d) <=> BadWith(fields, d, bad)
  BY DEF Bad
<1>4. DecodeWhole(fields, d) = DecodeWith(fields, d, decoded)
  BY DEF DecodeWhole
<1>5. ASSUME NEW key \in Lists(fields)
      PROVE  /\ Len(lists[key]) = Len(m[key])
             /\ key \notin bad /\ decoded[key] = m[key]
  <2> DEFINE of == FieldOf(fields, key).items
             l == m[key]
             c == [i \in DOMAIN l |-> EncodeList(of, l[i])]
  <2>1. SoundList(of)
    <3>1. \E i \in DOMAIN fields : FieldOf(fields, key) = fields[i] /\ fields[i].kind = "list"
      BY <1>1, FoundByName
    <3>2. QED
      BY <3>1 DEF SoundWhole
  <2>2. \A i \in DOMAIN l : FilledList(of, l[i])
    BY DEF Complete
  <2>3. \A i \in DOMAIN l : /\ ~BadList(of, EncodeList(of, l[i]))
                            /\ DecodeList(of, EncodeList(of, l[i])) = l[i]
    <3> HIDE DEF of, l
    <3>1. QED
      BY <2>1, <2>2, ListReadBack
  <2>4. lists[key] = c
    OBVIOUS
  <2>5. /\ l = [i \in 1 .. Len(l) |-> l[i]] /\ Len(l) \in Nat
        /\ ItemsAt(d, key) = c
    <3> HIDE DEF d, lists, l, c
    <3>1. /\ l = [i \in 1 .. Len(l) |-> l[i]] /\ Len(l) \in Nat
          /\ ItemsAt(d, key) = lists[key]
      BY <1>1, <1>2, ListOfItems DEF l
    <3>2. QED
      BY <3>1, <2>4
  <2>6. decoded[key] = [i \in DOMAIN c |-> DecodeList(of, c[i])]
    <3> HIDE DEF d, c
    <3>1. QED
      BY <2>5
  <2>7. key \in bad <=> \E i \in DOMAIN c : BadList(of, c[i])
    <3> HIDE DEF d, c
    <3>1. QED
      BY <2>5
  <2> HIDE DEF of, l, lists, bad, decoded
  <2>8. /\ DOMAIN l = 1 .. Len(l) /\ DOMAIN c = DOMAIN l
        /\ \A i \in DOMAIN l : c[i] = EncodeList(of, l[i])
    BY <2>5
  <2>9. Len(c) = Len(l)
    BY <2>5, <2>8
  <2> HIDE DEF c
  <2>10. key \notin bad
    BY <2>3, <2>7, <2>8
  <2>11. decoded[key] = [i \in DOMAIN l |-> l[i]]
    BY <2>3, <2>6, <2>8
  <2>12. decoded[key] = l
    BY <2>5, <2>8, <2>11
  <2>13. QED
    BY <2>4, <2>9, <2>10, <2>12 DEF l
<1> HIDE DEF d, lists, bad, decoded
<1>6. ~BadWith(fields, d, bad) /\ DecodeWith(fields, d, decoded) = m
  BY <1>1, <1>2, <1>5, StructureReadBack
<1>7. QED
  BY <1>3, <1>4, <1>6 DEF d

-----------------------------------------------------------------------------
(* The fields of the messages.                                             *)

\* Lists in lists are sound on the levels above theirs.
LEMMA SoundAbove ==
      ASSUME NEW fields
      PROVE  /\ SoundFlat(fields) => SoundList(fields)
             /\ SoundList(fields) => SoundWhole(fields)
<1>1. SoundFlat(fields) => SoundList(fields)
  BY DEF SoundFlat, SoundList
<1>2. ASSUME NEW f, SoundFlat(f)
      PROVE  SoundList(f)
  BY <1>2 DEF SoundFlat, SoundList
<1>3. SoundList(fields) => SoundWhole(fields)
  BY <1>2 DEF SoundList, SoundWhole
<1>4. QED
  BY <1>1, <1>3

\* Messages without lists.
LEMMA FlatMessages ==
    /\ SoundFlat(add_node_req.dec)
    /\ SoundFlat(update_node_req.dec)
    /\ SoundFlat(del_node_req.dec)
    /\ SoundFlat(node_ctl_req.dec)
    /\ SoundFlat(node_setting_req.dec)
    /\ SoundFlat(add_plugin_req.dec)
    /\ SoundFlat(del_plugin_req.dec)
    /\ SoundFlat(login_req.dec)
    /\ SoundFlat(password_req.dec)
    /\ SoundFlat(update_log_level_req.dec)
    /\ SoundFlat(add_group_config_req.dec)
    /\ SoundFlat(del_group_config_req.dec)
    /\ SoundFlat(update_group_config_req.dec)
    /\ SoundFlat(subscribe_req.dec)
    /\ SoundFlat(unsubscribe_req.dec)
    /\ SoundFlat(del_tags_req.dec)
    /\ SoundFlat(write_req.dec)
    /\ SoundFlat(read_req.dec)
    /\ SoundFlat(template_mod_group_req.dec)
    /\ SoundFlat(template_del_group_req.dec)
    /\ SoundFlat(template_del_tags_req.dec)
    /\ SoundFlat(template_inst_req.dec)
    /\ SoundFlat(ndriver_map.dec)
<1> USE DEF SoundFlat, Sound, Kinds, Message, Both, Incoming, Field, Str, Int64, Value,
            Names, Dump, Given, Opt
<1>1. SoundFlat(add_node_req.dec)
  BY DEF add_node_req
<1>2. SoundFlat(update_node_req.dec)
  BY DEF update_node_req
<1>3. SoundFlat(del_node_req.dec)
  BY DEF del_node_req
<1>4. SoundFlat(node_ctl_req.dec)
  BY DEF node_ctl_req
<1>5. SoundFlat(node_setting_req.dec)
  BY DEF node_setting_req
<1>6. SoundFlat(add_plugin_req.dec)
  BY DEF add_plugin_req
<1>7. SoundFlat(del_plugin_req.dec)
  BY DEF del_plugin_req
<1>8. SoundFlat(login_req.dec)
  BY DEF login_req
<1>9. SoundFlat(password_req.dec)
  BY DEF password_req
<1>10. SoundFlat(update_log_level_req.dec)
  BY DEF update_log_level_req
<1>11. SoundFlat(add_group_config_req.dec)
  BY DEF add_group_config_req
<1>12. SoundFlat(del_group_config_req.dec)
  BY DEF del_group_config_req
<1>13. SoundFlat(update_group_config_req.dec)
  BY DEF update_group_config_req
<1>14. SoundFlat(subscribe_req.dec)
  BY DEF subscribe_req
<1>15. SoundFlat(unsubscribe_req.dec)
  BY DEF unsubscribe_req
<1>16. SoundFlat(del_tags_req.dec)
  BY DEF del_tags_req
<1>17. SoundFlat(write_req.dec)
  BY DEF write_req
<1>18. SoundFlat(read_req.dec)
  BY DEF read_req
<1>19. SoundFlat(template_mod_group_req.dec)
  BY DEF template_mod_group_req
<1>20. SoundFlat(template_del_group_req.dec)
  BY DEF template_del_group_req
<1>21. SoundFlat(template_del_tags_req.dec)
  BY DEF template_del_tags_req
<1>22. SoundFlat(template_inst_req.dec)
  BY DEF template_inst_req
<1>23. SoundFlat(ndriver_map.dec)
  BY DEF ndriver_map
<1>24. QED
  BY <1>1, <1>2, <1>3, <1>4, <1>5, <1>6, <1>7, <1>8, <1>9, <1>10, <1>11, <1>12, <1>13,
     <1>14, <1>15, <1>16, <1>17, <1>18, <1>19, <1>20, <1>21, <1>22, <1>23

\* The fields of a tag.
LEMMA TagFields == SoundFlat(tag_read) /\ SoundFlat(tag_written)
<1>1. SoundFlat(tag_read)
  BY DEF SoundFlat, Sound, Kinds, tag_read, Field, Str, Int64, Double, Static, Opt
<1>2. SoundFlat(tag_written)
  <2> DEFINE t == tag_written
  <2>1. /\ DOMAIN t = 1 .. 8
        /\ t[1].name = "type" /\ t[2].name = "name" /\ t[3].name = "attribute"
        /\ t[4].name = "precision" /\ t[5].name = "decimal" /\ t[6].name = "address"
        /\ t[7].name = "description" /\ t[8].name = "value"
        /\ t[1].kind = "int" /\ t[3].kind = "int"
        /\ \A i \in DOMAIN t : /\ t[i].kind \in Kinds \ {"list"} /\ t[i].least \in Nat
    BY DEF Kinds, tag_written, Field, Str, Int64, Double, Static, Opt
  <2> HIDE DEF t
  <2>2. \A i, j \in DOMAIN t : t[i].name = t[j].name => i = j
    BY <2>1
  <2>3. QED
    BY <2>1, <2>2 DEF SoundFlat, Sound, t
<1>3. QED
  BY <1>1, <1>2

\* Messages with lists, whose items have none.
LEMMA ListMessages ==
    /\ SoundList(subscribe_groups_req.dec)
    /\ SoundList(write_tags_req.dec)
    /\ SoundList(template_insts_req.dec)
    /\ SoundList(update_ndriver_tag_param_req.dec)
    /\ SoundList(update_ndriver_tag_info_req.dec)
<1>1. SoundFlat(subscribe_groups_info)
  BY DEF SoundFlat, Sound, Kinds, subscribe_groups_info, Field, Str, Dump, Opt
<1>2. SoundFlat(<<Str("tag"), Value("value")>>)
  BY DEF SoundFlat, Sound, Kinds, Field, Str, Value
<1>3. SoundFlat(template_inst_req.dec)
  BY FlatMessages
<1>4. SoundFlat(<<Str("name"), Dump("params")>>) /\ SoundFlat(<<Str("name"), Str("address")>>)
  BY DEF SoundFlat, Sound, Kinds, Field, Str, Dump
<1>5. ASSUME NEW items, SoundFlat(items)
      PROVE  /\ SoundList(<<Str("app"), List("groups", items, 0)>>)
             /\ SoundList(<<Str("node"), Str("group"), List("tags", items, 1)>>)
             /\ SoundList(<<List("nodes", items, 0)>>)
             /\ SoundList(ndriver_tags_of(items))
  <2>1. SoundList(<<Str("app"), List("groups", items, 0)>>)
    BY <1>5 DEF SoundList, Sound, Kinds, Field, Str, List
  <2>2. SoundList(<<Str("node"), Str("group"), List("tags", items, 1)>>)
    BY <1>5 DEF SoundList, Sound, Kinds, Field, Str, List
  <2>3. SoundList(<<List("nodes", items, 0)>>)
    BY <1>5 DEF SoundList, Sound, Kinds, Field, List
  <2>4. SoundList(ndriver_tags_of(items))
    BY <1>5 DEF SoundList, Sound, Kinds, ndriver_tags_of, Field, Str, List
  <2>5. QED
    BY <2>1, <2>2, <2>3, <2>4
<1>6. QED
  BY <1>1, <1>2, <1>3, <1>4, <1>5
     DEF subscribe_groups_req, write_tags_req, template_insts_req,
         update_ndriver_tag_param_req, update_ndriver_tag_info_req, Message, Incoming

\* Messages with tags, as they are written and as they are read.
LEMMA TagMessages ==
    /\ SoundList(add_tags_req.enc) /\ SoundList(add_tags_req.dec)
    /\ SoundList(update_tags_req.dec)
    /\ SoundList(template_mod_tags_req.enc) /\ SoundList(template_mod_tags_req.dec)
    /\ SoundList(template_group_written) /\ SoundList(template_group_read)
<1> HIDE DEF tag_written, tag_read
<1>1. ASSUME NEW first, first \in {"node", "template"}, NEW least \in Nat,
             NEW tags, SoundFlat(tags)
      PROVE  SoundList(<<Str(first), Str("group"), List("tags", tags, least)>>)
  BY <1>1 DEF SoundList, Sound, Kinds, Field, Str, List
<1>2. ASSUME NEW tags, SoundFlat(tags)
      PROVE  SoundList(<<Str("name"), Int64("interval"), List("tags", tags, 0)>>)
  BY <1>2 DEF SoundList, Sound, Kinds, Field, Str, Int64, List
<1>3. QED
  BY <1>1, <1>2, TagFields
     DEF add_tags_req, update_tags_req, template_mod_tags_req, template_group_written,
         template_group_read, tag_array_written, tag_array_read, Message, Incoming

\* The template, whose groups have tags.
LEMMA TemplateMessage == SoundWhole(template.enc) /\ SoundWhole(template.dec)
<1>1. ASSUME NEW groups, SoundList(groups)
      PROVE  /\ SoundWhole(<<Str("name"), Str("plugin"), List("groups", groups, 0)>>)
             /\ SoundWhole(<<Str("name"), Str("plugin"), Opt(List("groups", groups, 0))>>)
  BY <1>1 DEF SoundWhole, Sound, Kinds, Field, Str, List, Opt
<1>2. QED
  BY <1>1, TagMessages DEF template, Message

-----------------------------------------------------------------------------
(* Encoder and decoder of a message may have their fields in another       *)
(* order, and some that only the decoder can do without.                   *)

\* The same names, each of the same kind.
Same(enc, dec) ==
    /\ Sound(enc) /\ Sound(dec)
    /\ \A i \in DOMAIN enc : \E j \in DOMAIN dec :
          dec[j].name = enc[i].name /\ dec[j].kind = enc[i].kind
    /\ \A j \in DOMAIN dec : \E i \in DOMAIN enc :
          dec[j].name = enc[i].name /\ dec[j].kind = enc[i].kind

\* A name leads to fields of the same kind.
LEMMA SameFields ==
      ASSUME NEW enc, NEW dec, Same(enc, dec)
      PROVE  /\ Keys(enc) = Keys(dec) /\ Lists(enc) = Lists(dec)
             /\ \A key \in Keys(enc) : /\ FieldOf(enc, key).kind = FieldOf(dec, key).kind
                                       /\ FieldOf(enc, key).name = FieldOf(dec, key).name
<1>1. Keys(enc) = Keys(dec)
  BY DEF Same, Keys
<1>2. Lists(enc) = Lists(dec)
  BY DEF Same, Lists
<1>3. ASSUME NEW key \in Keys(enc)
      PROVE  /\ FieldOf(enc, key).kind = FieldOf(dec, key).kind
             /\ FieldOf(enc, key).name = FieldOf(dec, key).name
  <2>1. PICK i \in DOMAIN enc : enc[i].name = key /\ FieldOf(enc, key) = enc[i]
    BY FoundByName DEF Same
  <2>2. PICK j \in DOMAIN dec : dec[j].name = enc[i].name /\ dec[j].kind = enc[i].kind
    BY DEF Same
  <2>3. FieldOf(dec, key) = dec[j]
    BY <2>1, <2>2, FoundByName DEF Same
  <2>4. QED
    BY <2>1, <2>2, <2>3
<1>4. QED
  BY <1>1, <1>2, <1>3

\* They write the same document of a structure, given what becomes of its lists.
LEMMA SameDocument ==
      ASSUME NEW enc, NEW dec, Same(enc, dec), NEW m, NEW lists
      PROVE  EncodeWith(enc, m, lists) = EncodeWith(dec, m, lists)
<1> DEFINE given == {k \in Keys(enc) : m[k] # None}
<1>1. Keys(enc) = Keys(dec)
  BY SameFields
<1>2. ASSUME NEW key \in given
      PROVE  LET f == FieldOf(enc, key)
                 g == FieldOf(dec, key)
             IN  EncodeValue(f, m[key], IF f.kind = "list" THEN lists[key] ELSE <<>>)
                    = EncodeValue(g, m[key], IF g.kind = "list" THEN lists[key] ELSE <<>>)
  <2> DEFINE f == FieldOf(enc, key)
             g == FieldOf(dec, key)
  <2>1. f.kind = g.kind /\ f.name = g.name
    BY SameFields
  <2> HIDE DEF f, g
  <2>2. \A inner : EncodeValue(f, m[key], inner) = EncodeValue(g, m[key], inner)
    BY <2>1 DEF EncodeValue
  <2>3. QED
    BY <2>1, <2>2 DEF f, g
<1>3. QED
  BY <1>1, <1>2 DEF EncodeWith, Object

\* The same with their lists, and with the lists of those.
SameList(enc, dec) ==
    /\ Same(enc, dec)
    /\ \A i \in DOMAIN enc, j \in DOMAIN dec :
          enc[i].kind = "list" /\ dec[j].name = enc[i].name =>
             Same(enc[i].items, dec[j].items)

SameWhole(enc, dec) ==
    /\ Same(enc, dec)
    /\ \A i \in DOMAIN enc, j \in DOMAIN dec :
          enc[i].kind = "list" /\ dec[j].name = enc[i].name =>
             SameList(enc[i].items, dec[j].items)

\* A list has its items of both.
LEMMA SameItems ==
      ASSUME NEW enc, NEW dec, Same(enc, dec), NEW key \in Lists(enc)
      PROVE  \E i \in DOMAIN enc, j \in DOMAIN dec :
                /\ enc[i].kind = "list" /\ dec[j].name = enc[i].name
                /\ FieldOf(enc, key) = enc[i] /\ FieldOf(dec, key) = dec[j]
<1>1. Sound(enc) /\ Sound(dec) /\ Lists(dec) = Lists(enc)
  BY SameFields DEF Same
<1>2. PICK i \in DOMAIN enc :
         enc[i].name = key /\ FieldOf(enc, key) = enc[i] /\ enc[i].kind = "list"
  BY <1>1, FoundByName
<1>3. PICK j \in DOMAIN dec : dec[j].name = key /\ FieldOf(dec, key) = dec[j]
  BY <1>1, FoundByName
<1>4. QED
  BY <1>2, <1>3

\* They write the same document of a structure with its lists, on either level.
LEMMA SameListDocument ==
      ASSUME NEW enc, NEW dec, SameList(enc, dec), NEW m
      PROVE  EncodeList(enc, m) = EncodeList(dec, m)
<1> DEFINE lists(fields) == [key \in Lists(fields) |->
        [i \in DOMAIN m[key] |-> EncodeFlat(FieldOf(fields, key).items, m[key][i])]]
<1>1. Same(enc, dec) /\ Lists(enc) = Lists(dec)
  BY SameFields DEF SameList
<1>2. ASSUME NEW key \in Lists(enc), NEW i
      PROVE  EncodeFlat(FieldOf(enc, key).items, m[key][i])
                = EncodeFlat(FieldOf(dec, key).items, m[key][i])
  <2>1. Same(FieldOf(enc, key).items, FieldOf(dec, key).items)
    BY <1>1, SameItems DEF SameList
  <2>2. QED
    BY <2>1, SameDocument DEF EncodeFlat
<1>3. lists(enc) = lists(dec)
  BY <1>1, <1>2
<1>4. EncodeList(enc, m) = EncodeWith(enc, m, lists(enc))
      /\ EncodeList(dec, m) = EncodeWith(dec, m, lists(dec))
  BY DEF EncodeList
<1> HIDE DEF lists
<1>5. QED
  BY <1>1, <1>3, <1>4, SameDocument

\* And of the structure of a message.
LEMMA SameWholeDocument ==
      ASSUME NEW enc, NEW dec, SameWhole(enc, dec), NEW m
      PROVE  Encode(enc, m) = Encode(dec, m)
<1> DEFINE lists(fields) == [key \in Lists(fields) |->
        [i \in DOMAIN m[key] |-> EncodeList(FieldOf(fields, key).items, m[key][i])]]
<1>1. Same(enc, dec) /\ Lists(enc) = Lists(dec)
  BY SameFields DEF SameWhole
<1>2. ASSUME NEW key \in Lists(enc), NEW i
      PROVE  EncodeList(FieldOf(enc, key).items, m[key][i])
                = EncodeList(FieldOf(dec, key).items, m[key][i])
  <2>1. SameList(FieldOf(enc, key).items, FieldOf(dec, key).items)
    BY <1>1, SameItems DEF SameWhole
  <2>2. QED
    BY <2>1, SameListDocument
<1>3. lists(enc) = lists(dec)
  BY <1>1, <1>2
<1>4. Encode(enc, m) = EncodeWith(enc, m, lists(enc))
      /\ Encode(dec, m) = EncodeWith(dec, m, lists(dec))
  BY DEF Encode
<1> HIDE DEF lists
<1>5. QED
  BY <1>1, <1>3, <1>4, SameDocument

\* A tag is written as it is read.
LEMMA SameTags == Same(tag_written, tag_read) /\ SameList(tag_written, tag_read)
<1>1. Sound(tag_written) /\ Sound(tag_read)
  BY TagFields DEF SoundFlat
<1> DEFINE w == tag_written
           r == tag_read
<1>2. /\ DOMAIN w = 1 .. 8 /\ DOMAIN r = 1 .. 8
      /\ r[1].name = w[1].name /\ r[1].kind = w[1].kind
      /\ r[2].name = w[2].name /\ r[2].kind = w[2].kind
      /\ r[3].name = w[3].name /\ r[3].kind = w[3].kind
      /\ r[6].name = w[4].name /\ r[6].kind = w[4].kind
      /\ r[5].name = w[5].name /\ r[5].kind = w[5].kind
      /\ r[4].name = w[6].name /\ r[4].kind = w[6].kind
      /\ r[7].name = w[7].name /\ r[7].kind = w[7].kind
      /\ r[8].name = w[8].name /\ r[8].kind = w[8].kind
  BY DEF tag_written, tag_read, Field, Str, Int64, Double, Static, Opt
<1>3. \A i \in DOMAIN w : w[i].kind # "list"
  BY TagFields DEF SoundFlat
<1> HIDE DEF w, r
<1>4. /\ \A i \in DOMAIN w : \E j \in DOMAIN r : r[j].name = w[i].name /\ r[j].kind = w[i].kind
      /\ \A j \in DOMAIN r : \E i \in DOMAIN w : r[j].name = w[i].name /\ r[j].kind = w[i].kind
  BY <1>2
<1>5. QED
  BY <1>1, <1>3, <1>4 DEF Same, SameList, w, r

\* The messages that are written with other fields than they are read with.
LEMMA SameMessages ==
    /\ SameWhole(add_tags_req.enc, add_tags_req.dec)
    /\ SameWhole(template_mod_tags_req.enc, template_mod_tags_req.dec)
    /\ SameWhole(template.enc, template.dec)
<1> USE DEF Message
<1>1. /\ Sound(add_tags_req.enc) /\ Sound(add_tags_req.dec)
      /\ Sound(template_mod_tags_req.enc) /\ Sound(template_mod_tags_req.dec)
      /\ Sound(template_group_written) /\ Sound(template_group_read)
      /\ Sound(template.enc) /\ Sound(template.dec)
  BY TagMessages, TemplateMessage DEF SoundList, SoundWhole
<1>2. SameWhole(add_tags_req.enc, add_tags_req.dec)
  BY <1>1, SameTags DEF SameWhole, Same, add_tags_req, tag_array_written, tag_array_read,
                        Field, Str, List
<1>3. SameWhole(template_mod_tags_req.enc, template_mod_tags_req.dec)
  BY <1>1, SameTags DEF SameWhole, Same, template_mod_tags_req, tag_array_written,
                        tag_array_read, Field, Str, List
<1>4. SameList(template_group_written, template_group_read)
  <2> DEFINE w == template_group_written
             r == template_group_read
  <2>1. /\ DOMAIN w = 1 .. 3 /\ DOMAIN r = 1 .. 3
        /\ \A i \in 1 .. 3 : r[i].name = w[i].name /\ r[i].kind = w[i].kind
        /\ w[1].name = "name" /\ w[2].name = "interval" /\ w[3].name = "tags"
        /\ w[1].kind = "str" /\ w[2].kind = "int"
        /\ w[3].items = tag_written /\ r[3].items = tag_read
    BY DEF template_group_written, template_group_read, tag_array_written, tag_array_read,
           Field, Str, Int64, List
  <2> HIDE DEF w, r
  <2>2. Same(w, r)
    BY <1>1, <2>1 DEF Same, w, r
  <2>3. \A i \in DOMAIN w, j \in DOMAIN r :
           w[i].kind = "list" /\ r[j].name = w[i].name => i = 3 /\ j = 3
    BY <2>1
  <2>4. QED
    BY <2>1, <2>2, <2>3, SameTags DEF SameList, w, r
<1>5. SameWhole(template.enc, template.dec)
  <2> DEFINE w == template.enc
             r == template.dec
  <2>1. /\ DOMAIN w = 1 .. 3 /\ DOMAIN r = 1 .. 3
        /\ \A i \in 1 .. 3 : r[i].name = w[i].name /\ r[i].kind = w[i].kind
        /\ w[1].name = "name" /\ w[2].name = "plugin" /\ w[3].name = "groups"
        /\ w[1].kind = "str" /\ w[2].kind = "str"
        /\ w[3].items = template_group_written /\ r[3].items = template_group_read
    <3>1. /\ w = <<Str("name"), Str("plugin"), List("groups", template_group_written, 0)>>
          /\ r = <<Str("name"), Str("plugin"), Opt(List("groups", template_group_read, 0))>>
      BY DEF template
    <3> HIDE DEF w, r
    <3>2. /\ DOMAIN w = 1 .. 3 /\ DOMAIN r = 1 .. 3
          /\ w[1] = Str("name") /\ r[1] = Str("name")
          /\ w[2] = Str("plugin") /\ r[2] = Str("plugin")
          /\ w[3] = List("groups", template_group_written, 0)
          /\ r[3] = Opt(List("groups", template_group_read, 0))
      BY <3>1
    <3>3. QED
      BY <3>2 DEF Field, Str, List, Opt
  <2> HIDE DEF w, r
  <2>2. Same(w, r)
    BY <1>1, <2>1 DEF Same, w, r
  <2>3. \A i \in DOMAIN w, j \in DOMAIN r :
           w[i].kind = "list" /\ r[j].name = w[i].name => i = 3 /\ j = 3
    BY <2>1
  <2>4. SameWhole(w, r)
    BY <1>4, <2>1, <2>2, <2>3 DEF SameWhole
  <2>5. QED
    BY <2>4 DEF w, r
<1>6. QED
  BY <1>2, <1>3, <1>5

-----------------------------------------------------------------------------
(* The handlers' decoders.                                                 *)

\* What is written of a message is written with the fields of its decoder.
Plain(x) == /\ SoundWhole(x.dec)
            /\ x.enc \in {<<>>, x.dec}

PlainOnes ==
    {add_node_req, del_node_req, node_setting_req, node_ctl_req, add_plugin_req,
     del_plugin_req, login_req, password_req, update_log_level_req,
     add_group_config_req, del_group_config_req, update_group_config_req,
     subscribe_req, unsubscribe_req, subscribe_groups_req, del_tags_req,
     update_tags_req, read_req, write_req, write_tags_req, template_mod_group_req,
     template_del_group_req, template_del_tags_req, template_inst_req,
     template_insts_req, ndriver_map, update_ndriver_tag_param_req,
     update_ndriver_tag_info_req}

\* So are all of these.
LEMMA PlainMessages == \A x \in PlainOnes : Plain(x)
<1>1. /\ \A fields : SoundFlat(fields) => SoundWhole(fields)
      /\ \A fields : SoundList(fields) => SoundWhole(fields)
  BY SoundAbove
<1> USE <1>1, FlatMessages, ListMessages, TagMessages DEF Plain, Message, Both, Incoming
<1>2. /\ Plain(add_node_req) /\ Plain(del_node_req)
      /\ Plain(node_setting_req) /\ Plain(node_ctl_req)
  BY DEF add_node_req, del_node_req, node_setting_req, node_ctl_req
<1>3. /\ Plain(add_plugin_req) /\ Plain(del_plugin_req)
      /\ Plain(login_req) /\ Plain(password_req)
      /\ Plain(update_log_level_req)
  BY DEF add_plugin_req, del_plugin_req, login_req, password_req, update_log_level_req
<1>4. /\ Plain(add_group_config_req) /\ Plain(del_group_config_req)
      /\ Plain(update_group_config_req) /\ Plain(subscribe_req)
      /\ Plain(unsubscribe_req) /\ Plain(subscribe_groups_req)
  BY DEF add_group_config_req, del_group_config_req, update_group_config_req,
         subscribe_req, unsubscribe_req, subscribe_groups_req
<1>5. /\ Plain(del_tags_req) /\ Plain(update_tags_req)
      /\ Plain(read_req) /\ Plain(write_req)
      /\ Plain(write_tags_req)
  BY DEF del_tags_req, update_tags_req, read_req, write_req, write_tags_req
<1>6. /\ Plain(template_mod_group_req) /\ Plain(template_del_group_req)
      /\ Plain(template_del_tags_req) /\ Plain(template_inst_req)
      /\ Plain(template_insts_req)
  BY DEF template_mod_group_req, template_del_group_req, template_del_tags_req,
         template_inst_req, template_insts_req
<1>7. /\ Plain(ndriver_map) /\ Plain(update_ndriver_tag_param_req)
      /\ Plain(update_ndriver_tag_info_req)
  BY DEF ndriver_map, update_ndriver_tag_param_req, update_ndriver_tag_info_req
<1>8. QED
  BY <1>2, <1>3, <1>4, <1>5, <1>6, <1>7 DEF PlainOnes

\* The document of every message is the one that its decoder's fields would write.
LEMMA WrittenAsRead ==
      ASSUME NEW e \in WithBody
      PROVE  /\ SoundWhole(Messages[e].dec)
             /\ \A m : Written(e, m) = Encode(Messages[e].dec, m)
<1>1. CASE Plain(Messages[e])
  BY <1>1 DEF Plain, Written
<1>2. CASE e = "handle_update_adapter"
  <2>1. Messages[e] = update_node_req
    BY <1>2 DEF Messages
  <2>2. QED
    BY <1>2, <2>1, FlatMessages, SoundAbove DEF Written
<1>3. CASE Messages[e] \in {add_tags_req, template_mod_tags_req, template}
  <2>1. SoundWhole(Messages[e].dec) /\ SameWhole(Messages[e].enc, Messages[e].dec)
    BY <1>3, TagMessages, TemplateMessage, SameMessages, SoundAbove
  <2>2. QED
    BY <2>1, SameWholeDocument DEF Written
<1>4. QED
  <2>1. \/ e = "handle_update_adapter"
        \/ Messages[e] \in {add_tags_req, template_mod_tags_req, template}
        \/ Messages[e] \in PlainOnes
    BY DEF WithBody, Messages, PlainOnes
  <2>2. QED
    BY <2>1, <1>1, <1>2, <1>3, PlainMessages

\* Where there are no lists, the levels do not differ.
LEMMA FlatOnEachLevel ==
      ASSUME NEW fields, SoundFlat(fields), NEW d
      PROVE  Bad(fields, d) = BadList(fields, d)
<1>1. Lists(fields) = {}
  BY DEF SoundFlat, Lists
<1>2. QED
  BY <1>1 DEF Bad, BadList

\* A list in a document, each of whose items is accepted.
Accepted(v, items) ==
    /\ v # None /\ v[1] = "array" /\ v = Array(v[2])
    /\ Len(v[2]) \in Nat /\ v[2] = [j \in 1 .. Len(v[2]) |-> v[2][j]]
    /\ \A j \in DOMAIN v[2] : ~Bad(items, v[2][j])

\* The items of a list are accepted one by one, and the list is in the document.
LEMMA ItemsAccepted ==
      ASSUME NEW fields, SoundWhole(fields), NEW m, Complete(fields, m),
             NEW i \in DOMAIN fields, fields[i].kind = "list",
             SoundFlat(fields[i].items)
      PROVE  Accepted(Get(Encode(fields, m), fields[i].name), fields[i].items)
<1> DEFINE key == fields[i].name
           items == fields[i].items
           lists == [k \in Lists(fields) |->
               [j \in DOMAIN m[k] |-> EncodeList(FieldOf(fields, k).items, m[k][j])]]
           d == Encode(fields, m)
           v == Get(d, key)
           l == m[key]
<1>1. /\ Sound(fields) /\ FilledWith(fields, m) /\ NoNull(d)
      /\ d = EncodeWith(fields, m, lists)
  BY DEF SoundWhole, Complete, Encode
<1>2. key \in Lists(fields) /\ FieldOf(fields, key) = fields[i]
  BY <1>1, FoundByName DEF Lists
<1>3. \A j \in DOMAIN l : FilledList(items, l[j])
  BY <1>2 DEF Complete
<1>4. \A j \in DOMAIN l : ~Bad(items, EncodeList(items, l[j]))
  <2> HIDE DEF items, l
  <2>1. SoundList(items) /\ SoundFlat(items)
    BY SoundAbove DEF items
  <2>2. QED
    BY <1>3, <2>1, ListReadBack, FlatOnEachLevel
<1>5. lists[key] = [j \in DOMAIN l |-> EncodeList(items, l[j])]
  BY <1>2
<1> HIDE DEF lists, d, l
<1>6. l = [j \in 1 .. Len(l) |-> l[j]] /\ Len(l) \in Nat
  BY <1>1, <1>2, ListOfItems DEF l
<1>7. l # None
  BY <1>1 DEF FilledWith, Filled, l
<1>8. v # None /\ v = EncodeValue(fields[i], l, lists[key])
  BY <1>1, <1>7, UnderItsName DEF l
<1> HIDE DEF v, key, items
<1>9. v = Array(lists[key])
  BY <1>8 DEF EncodeValue
<1>10. v[1] = "array" /\ v[2] = lists[key]
  BY <1>9 DEF Array
<1>11. DOMAIN l = 1 .. Len(l)
  BY <1>6
<1>12. /\ Len(v[2]) = Len(l) /\ DOMAIN v[2] = DOMAIN l
       /\ v[2] = [j \in 1 .. Len(l) |-> v[2][j]]
       /\ \A j \in DOMAIN l : v[2][j] = EncodeList(items, l[j])
  BY <1>5, <1>6, <1>10, <1>11
<1>13. Accepted(v, items)
  BY <1>4, <1>6, <1>8, <1>9, <1>10, <1>12 DEF Accepted
<1>14. QED
  BY <1>13 DEF v, d, key, items

\* What is sent is read, by a decoder that reads no more than its elements.
LEMMA WholeDecoded ==
      ASSUME NEW e \in WithBody, NEW m \in Bodies[e]
      PROVE  /\ Complete(Messages[e].dec, m)
             /\ Decode(Messages[e].dec, Encode(Messages[e].dec, m)) = m
<1>1. Complete(Messages[e].dec, m)
  BY BodiesAssumption DEF Endpoints
<1>2. SoundWhole(Messages[e].dec)
  BY WrittenAsRead
<1>3. QED
  BY <1>1, <1>2, WholeReadBack DEF Decode

\* A change of a group that changes something is not refused.
LEMMA GroupChangeRead ==
      ASSUME NEW m \in Bodies["handle_update_group"]
      PROVE  read_update_group(Encode(update_group_config_req.dec, m)) = m
<1>1. /\ "handle_update_group" \in WithBody
      /\ Messages["handle_update_group"] = update_group_config_req
  BY DEF WithBody, Messages
<1>2. m.new_name # None \/ m.interval # None
  BY <1>1, BodiesAssumption
<1>3. Decode(update_group_config_req.dec, Encode(update_group_config_req.dec, m)) = m
  BY <1>1, WholeDecoded
<1>4. QED
  BY <1>2, <1>3 DEF read_update_group

\* Tags come as JSON.
LEMMA TagsRead ==
      ASSUME NEW e \in WithBody, NEW m \in Bodies[e]
      PROVE  read_tags(Messages[e], Encode(Messages[e].dec, m)) = m
<1>1. Encode(Messages[e].dec, m) # None
  BY WholeDecoded DEF Complete, NoNull
<1>2. QED
  BY <1>1, WholeDecoded DEF read_tags

\* No item of the tags to write is wrong, and none is read from freed memory.
LEMMA WriteTagsRead ==
      ASSUME NEW m \in Bodies["handle_write_tags"]
      PROVE  read_write_tags(Encode(write_tags_req.dec, m)) = m
<1> DEFINE fields == write_tags_req.dec
           items == <<Str("tag"), Value("value")>>
           d == Encode(fields, m)
           v == Get(d, "tags")
<1>1. /\ "handle_write_tags" \in WithBody
      /\ Messages["handle_write_tags"] = write_tags_req
  BY DEF WithBody, Messages
<1>2. Complete(fields, m) /\ Decode(fields, d) = m /\ SoundWhole(fields)
  BY <1>1, WholeDecoded, WrittenAsRead
<1>3. /\ 3 \in DOMAIN fields /\ fields[3].kind = "list" /\ fields[3].name = "tags"
      /\ fields[3].items = items
  <2>1. fields = <<Str("node"), Str("group"), List("tags", items, 1)>>
    BY DEF write_tags_req, Incoming, Message
  <2> HIDE DEF items, fields
  <2>2. 3 \in DOMAIN fields /\ fields[3] = List("tags", items, 1)
    BY <2>1
  <2>3. QED
    BY <2>2 DEF List, Field
<1>4. SoundFlat(items)
  BY DEF SoundFlat, Sound, Kinds, Field, Str, Value
<1> HIDE DEF fields, items, d
<1>5. \A j \in DOMAIN v[2] : ~Bad(items, v[2][j])
  <2>1. SoundFlat(fields[3].items)
    BY <1>3, <1>4
  <2>2. Accepted(Get(Encode(fields, m), fields[3].name), fields[3].items)
    BY <1>2, <1>3, <2>1, ItemsAccepted
  <2>3. Accepted(v, items)
    BY <1>3, <2>2 DEF d
  <2>4. QED
    BY <2>3 DEF Accepted
<1>6. QED
  BY <1>2, <1>5 DEF read_write_tags, d, fields, items

\* No node is cut off from those to be made from templates.
LEMMA NodesRead ==
      ASSUME NEW m \in Bodies["handle_instantiate_templates"]
      PROVE  read_template_insts(Encode(template_insts_req.dec, m)) = m
<1> DEFINE fields == template_insts_req.dec
           items == template_inst_req.dec
           d == Encode(fields, m)
           v == Get(d, "nodes")
           n == Len(v[2])
<1>1. /\ "handle_instantiate_templates" \in WithBody
      /\ Messages["handle_instantiate_templates"] = template_insts_req
  BY DEF WithBody, Messages
<1>2. Complete(fields, m) /\ Decode(fields, d) = m /\ SoundWhole(fields)
  BY <1>1, WholeDecoded, WrittenAsRead
<1>3. /\ 1 \in DOMAIN fields /\ fields[1].kind = "list" /\ fields[1].name = "nodes"
      /\ fields[1].items = items /\ DOMAIN fields = {1}
  BY DEF template_insts_req, Incoming, Message, Field, List
<1>4. SoundFlat(items)
  BY DEF SoundFlat, Sound, Kinds, Field, Str, template_inst_req, Incoming, Message
<1>5. Keys(fields) = {"nodes"}
  BY <1>3 DEF Keys
<1>6. /\ d[1] = "object" /\ d = Object(d[2])
      /\ d[2] = [key \in DOMAIN d[2] |-> d[2][key]] /\ DOMAIN d[2] \subseteq {"nodes"}
  BY <1>5 DEF Encode, EncodeWith, Object
<1> HIDE DEF fields, items, d
<1>7. /\ v # None /\ v[1] = "array" /\ v = Array(v[2])
      /\ Len(v[2]) \in Nat /\ v[2] = [j \in 1 .. Len(v[2]) |-> v[2][j]]
      /\ \A j \in DOMAIN v[2] : ~Bad(items, v[2][j])
  <2>1. SoundFlat(fields[1].items)
    BY <1>3, <1>4
  <2>2. Accepted(Get(Encode(fields, m), fields[1].name), fields[1].items)
    BY <1>2, <1>3, <2>1, ItemsAccepted
  <2>3. Accepted(v, items)
    BY <1>3, <2>2 DEF d
  <2>4. QED
    BY <2>3 DEF Accepted
<1>8. "nodes" \in DOMAIN d[2] /\ v = d[2]["nodes"]
  BY <1>7 DEF Get
<1>9. d = Object([key \in {"nodes"} |-> v])
  <2>1. DOMAIN d[2] = {"nodes"}
    BY <1>6, <1>8
  <2>2. d[2] = [key \in {"nodes"} |-> v]
    BY <1>6, <1>8, <2>1
  <2>3. QED
    BY <1>6, <2>2
<1>10. SubSeq(v[2], 1, n) = v[2]
  BY <1>7
<1>11. Object([key \in {"nodes"} |-> Array(SubSeq(v[2], 1, n))]) = d
  BY <1>7, <1>9, <1>10
<1>12. QED
  <2>1. {i \in DOMAIN v[2] : Bad(items, v[2][i])} = {}
    BY <1>7
  <2>2. QED
    BY <1>2, <1>7, <1>11, <2>1 DEF read_template_insts, d, fields, items

\* What is sent is read, by the decoder that the handler names.
LEMMA ReadAsMeant ==
      ASSUME NEW e \in WithBody, NEW m \in Bodies[e]
      PROVE  Read(e, Written(e, m)) = m
<1>1. Written(e, m) = Encode(Messages[e].dec, m)
  BY WrittenAsRead
<1>2. CASE e = "handle_update_group"
  <2>1. Messages[e] = update_group_config_req
    BY <1>2 DEF Messages
  <2>2. QED
    BY <1>1, <1>2, <2>1, GroupChangeRead DEF Read
<1>3. CASE e = "handle_write_tags"
  <2>1. Messages[e] = write_tags_req
    BY <1>3 DEF Messages
  <2>2. QED
    BY <1>1, <1>3, <2>1, WriteTagsRead DEF Read
<1>4. CASE e = "handle_instantiate_templates"
  <2>1. Messages[e] = template_insts_req
    BY <1>4 DEF Messages
  <2>2. QED
    BY <1>1, <1>4, <2>1, NodesRead DEF Read
<1>5. CASE e \in {"handle_add_tags", "handle_update_tags", "handle_add_template_tags",
                  "handle_update_template_tags"}
  <2>1. Read(e, Written(e, m)) = read_tags(Messages[e], Written(e, m))
    BY <1>5 DEF Read
  <2>2. QED
    BY <1>1, <2>1, TagsRead
<1>6. CASE e \notin {"handle_update_group", "handle_write_tags",
                     "handle_instantiate_templates", "handle_add_tags",
                     "handle_update_tags", "handle_add_template_tags",
                     "handle_update_template_tags"}
  <2>1. Read(e, Written(e, m)) = Decode(Messages[e].dec, Written(e, m))
    BY <1>6 DEF Read
  <2>2. QED
    BY <1>1, <2>1, WholeDecoded
<1>7. QED
  BY <1>2, <1>3, <1>4, <1>5, <1>6

-----------------------------------------------------------------------------
(* What the client meant is what the handler finds.                        *)

\* No step loses or changes what is on its way.
LEMMA OnItsWayKept ==
      ASSUME OnItsWay, [Next]_vars
      PROVE  OnItsWay'
<1>1. CASE Ask
  <2>1. PICK e, m, d : Arrives(e, m, d) /\
           \/ e \in WithBody /\ m \in Bodies[e] /\ d = Written(e, m)
           \/ e \in WithBody /\ m = None
           \/ e \in DOMAIN Parameters /\ m \in Bodies[e] /\ d = m
    BY <1>1 DEF Ask
  <2>2. e \in DOMAIN Parameters => e \notin WithBody
    BY DEF WithBody, Parameters, Messages
  <2>3. /\ pc' = "asked" /\ endpoint' = e /\ meant' = m /\ doc' = d
        /\ e \in Endpoints
    BY <2>1 DEF Arrives, Endpoints
  <2>4. meant' # None =>
           doc' = IF endpoint' \in WithBody THEN Written(endpoint', meant') ELSE meant'
    BY <2>1, <2>2, <2>3
  <2>5. QED
    BY <2>1, <2>3, <2>4 DEF OnItsWay
<1>2. CASE Validate
  <2>1. /\ UNCHANGED <<endpoint, meant, doc, req>>
        /\ pc = "asked" /\ pc' \in {"valid", "done"}
    BY <1>2 DEF Validate
  <2>2. QED
    BY <2>1 DEF OnItsWay
<1>3. CASE ReadBody
  <2> DEFINE r == IF endpoint \in WithBody THEN Read(endpoint, doc) ELSE doc
  <2>1. /\ pc = "valid" /\ UNCHANGED <<endpoint, meant, doc>>
        /\ \/ r \notin {None, Undefined} /\ req' = r /\ pc' = "decoded"
           \/ r \in {None, Undefined}
    BY <1>3 DEF ReadBody
  <2>2. meant # None => r = meant
    <3>1. CASE endpoint \in WithBody
      BY <2>1, <3>1, ReadAsMeant DEF OnItsWay
    <3>2. CASE endpoint \notin WithBody
      BY <2>1, <3>2 DEF OnItsWay
    <3>3. QED
      BY <3>1, <3>2
  <2>3. meant # None => endpoint \in Endpoints /\ meant \in Bodies[endpoint]
                        /\ meant \notin {None, Undefined}
    BY BodiesAssumption DEF OnItsWay
  <2> HIDE DEF r
  <2>4. meant # None => req' = meant /\ pc' = "decoded"
    BY <2>1, <2>2, <2>3
  <2>5. QED
    BY <2>1, <2>3, <2>4 DEF OnItsWay
<1>4. CASE Handle \/ FreeRequest
  <2>1. meant' = None
    BY <1>4 DEF Handle, FreeRequest
  <2>2. QED
    BY <2>1 DEF OnItsWay
<1>5. CASE Send \/ Forget
  <2>1. meant' = meant /\ pc \in {"sending", "sent"}
    BY <1>5 DEF Send, Forget
  <2>2. meant = None
    BY <2>1 DEF OnItsWay
  <2>3. QED
    BY <2>1, <2>2 DEF OnItsWay
<1>6. CASE Receiver \/ Respond \/ UNCHANGED vars
  <2>1. UNCHANGED <<pc, endpoint, meant, doc, req>>
    BY <1>6 DEF Receiver, RefuseSetting, ServeSetting, ServeTags, Serve, Takes, Fall,
                Respond, vars
  <2>2. QED
    BY <2>1 DEF OnItsWay
<1>7. QED
  BY <1>1, <1>2, <1>3, <1>4, <1>5, <1>6 DEF Next, Handler

-----------------------------------------------------------------------------
(* Theorems.                                                               *)

\* What no step of anybody breaks.
THEOREM Invariance == Spec => []IInv
<1>1. ASSUME IInv, [Next]_vars
      PROVE  IInv'
  <2>1. CASE Ask
    BY <1>1, <2>1, AskIInv
  <2>2. CASE Validate
    BY <1>1, <2>2, ValidateIInv
  <2>3. CASE ReadBody
    BY <1>1, <2>3, ReadBodyIInv
  <2>4. CASE Handle
    BY <1>1, <2>4, HandleIInv
  <2>5. CASE Send
    BY <1>1, <2>5, SendIInv
  <2>6. CASE Forget
    BY <1>1, <2>6, ForgetIInv
  <2>7. CASE FreeRequest
    BY <1>1, <2>7, FreeRequestIInv
  <2>8. CASE RefuseSetting \/ ServeSetting \/ ServeTags \/ Serve
    BY <1>1, <2>8, Receivers, ServeIInv
  <2>9. CASE Fall
    BY <1>1, <2>9, FallIInv
  <2>10. CASE Respond
    BY <1>1, <2>10, RespondIInv
  <2>11. CASE UNCHANGED vars
    <3>1. UNCHANGED <<pc, endpoint, command, receiver, memory, answers, fate>>
      BY <2>11 DEF vars
    <3>2. TypeOK' /\ InOrder'
      BY <1>1, <3>1 DEF IInv, TypeOK, InOrder
    <3>3. AnswerIsDue' /\ AnsweredOnce' /\ OnlyPluginCodesAbort'
      BY <1>1, <3>1 DEF IInv, AnswerIsDue, AnsweredOnce, OnlyPluginCodesAbort
    <3>4. MemoryMoves'
      BY <1>1, <3>1, SameKept DEF IInv, MemoryMoves, Lent
    <3>5. QED
      BY <3>2, <3>3, <3>4 DEF IInv
  <2>12. QED
    BY <1>1, <2>1, <2>2, <2>3, <2>4, <2>5, <2>6, <2>7, <2>8, <2>9, <2>10, <2>11
       DEF Next, Handler, Receiver
<1>2. QED
  BY <1>1, InitIInv, PTL DEF Spec

\* The variables keep their types: no response is taken for a code, and what is
\* answered has a status or is a plugin's own code.
THEOREM TypeCorrect == Spec => []TypeOK
<1>1. IInv => TypeOK
  BY DEF IInv
<1>2. QED
  BY <1>1, Invariance, PTL

\* A request has one answer, but for the login and the change of the log level,
\* whatever the request, the command's taker and the order of the two threads
\* (handle.c, dashb_plugin_request).
THEOREM RequestsAreAnsweredOnce == Spec => []AnsweredOnce
<1>1. IInv => AnsweredOnce
  BY DEF IInv
<1>2. QED
  BY <1>1, Invariance, PTL

\* A code that the program answers has a status; neu_http_response ends the
\* process only over the code of a plugin.
THEOREM OnlyPluginsAbort == Spec => []OnlyPluginCodesAbort
<1>1. IInv => OnlyPluginCodesAbort
  BY DEF IInv
<1>2. QED
  BY <1>1, Invariance, PTL

\* The block of a command is freed once, by the one who holds it, in whatever
\* order the handler and the receiver go on; it is lost only if the queue is full
\* and the handler of an own block does not free it, or if the adapter leaves a
\* setting that was accepted, or tags it told the monitor of, to nobody.
THEOREM MemoryIsFreedOnce == Spec => []MemoryHasOneOwner
<1>1. ASSUME IInv
      PROVE  MemoryHasOneOwner
  <2>1. CASE command = None \/ command.block = "none"
    BY <1>1, <2>1 DEF IInv, MemoryMoves, MemoryHasOneOwner, Nothing
  <2>2. CASE command # None /\ command.block # "none"
    <3>1. command.block \in Blocks
      BY <1>1, <2>2, CommandShape DEF IInv
    <3>2. Lent \subseteq {"request"} /\ (pc = "done" => Lent = {})
      BY DEF Lent
    <3>3. CASE pc = "sending" /\ memory = [holders |-> {"command"} \cup Lent, freed |-> 0]
      BY <3>2, <3>3 DEF MemoryHasOneOwner
    <3>4. CASE /\ pc # "sending" /\ receiver = "none"
               /\ memory = [holders |-> Lent,
                            freed |-> IF \/ command.block = "tidy"
                                         \/ command.block = "lent" /\ pc = "done"
                                      THEN 1 ELSE 0]
      <4>1. CASE command.block = "tidy" \/ (command.block = "lent" /\ pc = "done")
        <5>1. Lent = {}
          BY <4>1 DEF Lent
        <5>2. memory = [holders |-> {}, freed |-> 1]
          BY <3>4, <4>1, <5>1
        <5>3. QED
          BY <5>2 DEF MemoryHasOneOwner
      <4>2. CASE ~(command.block = "tidy" \/ (command.block = "lent" /\ pc = "done"))
        <5>1. memory = [holders |-> Lent, freed |-> 0]
          BY <3>4, <4>2
        <5>2. pc = "done" => command.block = "own" /\ memory = Nothing
          <6>1. pc = "done" => command.block = "own"
            BY <2>2, <3>1, <4>2 DEF Blocks
          <6>2. pc = "done" => memory = [holders |-> {}, freed |-> 0]
            BY <3>2, <5>1
          <6>3. QED
            BY <6>1, <6>2 DEF Nothing
        <5>3. QED
          BY <3>4, <5>1, <5>2 DEF MemoryHasOneOwner
      <4>3. QED
        BY <4>1, <4>2
    <3>5. CASE receiver = "queued" /\ memory = [holders |-> {"receiver"} \cup Lent, freed |-> 0]
      BY <3>5 DEF MemoryHasOneOwner
    <3>6. CASE /\ receiver \notin {"none", "queued"}
               /\ memory = [holders |-> Lent, freed |-> 1]
      <4>1. pc \in {"sending", "freeing"} => Lent = {}
        BY <1>1, <3>6 DEF IInv, InOrder, Lent
      <4>2. pc = "done" => memory = [holders |-> {}, freed |-> 1]
        BY <3>2, <3>6
      <4>3. memory.freed = 1 /\ memory.holders = Lent
        BY <3>6
      <4>4. QED
        BY <3>2, <3>6, <4>1, <4>2, <4>3 DEF MemoryHasOneOwner
    <3>7. CASE receiver \notin {"none", "queued"} /\ memory = Nothing /\ Kept
      BY <3>7 DEF MemoryHasOneOwner, Nothing
    <3>8. QED
      BY <1>1, <2>2, <3>3, <3>4, <3>5, <3>6, <3>7 DEF IInv, MemoryMoves
  <2>3. QED
    BY <2>1, <2>2
<1>2. QED
  BY <1>1, Invariance, PTL

\* What a handler finds in the structure is what the client put into it, for every
\* complete structure of every message: its document is accepted, and each field
\* is read under the name and as the value that it was written with
\* (neu_json_encode_by_fn, neu_json_decode_by_json, the decoders of parser/).
THEOREM RequestsAreRead == Spec => []RoundTrip
<1>1. Init => OnItsWay
  BY DEF Init, OnItsWay
<1>2. OnItsWay => RoundTrip
  BY DEF OnItsWay, RoundTrip
<1>3. QED
  BY <1>1, <1>2, OnItsWayKept, PTL DEF Spec
=============================================================================
