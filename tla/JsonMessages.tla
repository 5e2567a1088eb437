---------------------------- MODULE JsonMessages ----------------------------
(***************************************************************************)
(* The messages of parser/: for each the elements its encoder writes and   *)
(* the elements its decoder reads, in the order of the code.  A message    *)
(* that is only written or only read has no elements on the other side.    *)
(* The responses that are written and that nothing here reads again are    *)
(* left out.                                                               *)
(*                                                                         *)
(* Out of memory is not modelled.  A decoder frees what it has read when   *)
(* it fails; only three of them go on with memory they do not own, and     *)
(* their result is then Undefined.                                         *)
(***************************************************************************)
EXTENDS Json

CONSTANT Undefined   \* what a decoder returns after undefined behaviour

Message(enc, dec) == [enc |-> enc, dec |-> dec]
Both(fields)      == Message(fields, fields)
Incoming(fields)  == Message(<<>>, fields)
Outgoing(fields)  == Message(fields, <<>>)

-----------------------------------------------------------------------------
(* neu_json_node.c                                                         *)

add_node_req        == Both(<<Str("plugin"), Str("name")>>)
del_node_req        == Both(<<Str("name")>>)
\* A list without a node is written and not read back.
get_nodes_resp == LET Nodes(least) == <<List("nodes", <<Str("plugin"), Str("name")>>, least)>>
                  IN  Message(Nodes(0), Nodes(1))
\* The encoder writes the pointer to the new name as a number.
update_node_req == Message(<<Str("name"), Int64("new_name")>>, <<Str("name"), Str("new_name")>>)
node_ctl_req          == Both(<<Str("node"), Int64("cmd")>>)
node_setting_req      == Both(<<Str("node"), Dump("params")>>)
get_node_setting_resp == Outgoing(<<Str("node"), Dump("params")>>)

-----------------------------------------------------------------------------
(* neu_json_plugin.c, neu_json_login.c, neu_json_log.c                     *)

add_plugin_req  == Incoming(<<Str("library")>>)
del_plugin_req  == Incoming(<<Str("plugin")>>)
login_req    == Incoming(<<Str("pass"), Str("name")>>)
password_req == Incoming(<<Str("name"), Str("old_pass"), Str("new_pass")>>)
update_log_level_req == Incoming(<<Str("node")>>)

-----------------------------------------------------------------------------
(* neu_json_group_config.c                                                 *)

add_group_config_req  == Both(<<Str("node"), Str("group"), Int64("interval")>>)
del_group_config_req  == Both(<<Str("node"), Str("group")>>)
get_driver_group_resp ==
    Both(<<List("groups", <<Str("driver"), Str("group"), Int64("tag_count"), Int64("interval")>>, 0)>>)
get_subscribe_resp ==
    Outgoing(<<List("groups", <<Str("driver"), Str("group"), Opt(Dump("params"))>>, 0)>>)
subscribe_req   == Incoming(<<Str("app"), Str("group"), Str("driver"), Opt(Dump("params"))>>)
unsubscribe_req == Incoming(<<Str("app"), Str("group"), Str("driver")>>)
\* One of the new name and the interval is given, or both; the interval is
\* written only if it is set.
update_group_config_req ==
    Both(<<Str("node"), Str("group"), Opt(Str("new_name")), Opt(Given("interval"))>>)
subscribe_groups_info == <<Str("driver"), Str("group"), Opt(Dump("params"))>>
subscribe_groups_req  == Incoming(<<Str("app"), List("groups", subscribe_groups_info, 0)>>)

-----------------------------------------------------------------------------
(* neu_json_tag.c                                                          *)

\* Slip: the precision is not written.
tag_writtenImprecise ==
    <<Int64("type"), Str("name"), Int64("attribute"), Double("decimal"), Str("address"),
      Opt(Str("description")), Opt(Static("value"))>>

tag_written == <<Int64("type"), Str("name"), Int64("attribute"), Int64("precision"),
                 Double("decimal"), Str("address"), Opt(Str("description")),
                 Opt(Static("value"))>>
tag_read == <<Int64("type"), Str("name"), Int64("attribute"), Str("address"),
              Opt(Double("decimal")), Opt(Int64("precision")), Opt(Str("description")),
              Opt(Static("value"))>>
tag_array_written(least) == List("tags", tag_written, least)
tag_array_read(least)    == List("tags", tag_read, least)

add_tags_req == Message(<<Str("node"), Str("group"), tag_array_written(1)>>,
                        <<Str("node"), Str("group"), tag_array_read(1)>>)
del_tags_req == Both(<<Str("node"), Str("group"), Names("tags", 1)>>)
get_tags_resp   == Outgoing(<<tag_array_written(0)>>)
update_tags_req == Incoming(<<Str("node"), Str("group"), tag_array_read(1)>>)

-----------------------------------------------------------------------------
(* neu_json_rw.c                                                           *)

write_req == Incoming(<<Str("node"), Str("group"), Str("tag"), Value("value")>>)
write_tags_req ==
    Incoming(<<Str("node"), Str("group"), List("tags", <<Str("tag"), Value("value")>>, 1)>>)
read_req == Incoming(<<Str("node"), Str("group")>>)

-----------------------------------------------------------------------------
(* neu_json_template.c                                                     *)

template_group_written == <<Str("name"), Int64("interval"), tag_array_written(0)>>
template_group_read    == <<Str("name"), Int64("interval"), tag_array_read(0)>>
template == Message(<<Str("name"), Str("plugin"), List("groups", template_group_written, 0)>>,
                    <<Str("name"), Str("plugin"), Opt(List("groups", template_group_read, 0))>>)
template_mod_group_req == Both(<<Str("template"), Str("group"), Int64("interval")>>)
template_del_group_req == Both(<<Str("template"), Str("group")>>)
template_mod_tags_req  == Message(<<Str("template"), Str("group"), tag_array_written(1)>>,
                                  <<Str("template"), Str("group"), tag_array_read(1)>>)
template_del_tags_req  == Both(<<Str("template"), Str("group"), Names("tags", 0)>>)
template_inst_req      == Incoming(<<Str("name"), Str("node")>>)
template_insts_req     == Incoming(<<List("nodes", template_inst_req.dec, 0)>>)

-----------------------------------------------------------------------------
(* neu_json_ndriver.c                                                      *)

ndriver_map == Both(<<Str("ndriver"), Str("driver"), Str("group")>>)
ndriver_tags_of(items) == <<Str("ndriver"), Str("driver"), Str("group"), List("tags", items, 0)>>
update_ndriver_tag_param_req == Incoming(ndriver_tags_of(<<Str("name"), Dump("params")>>))
update_ndriver_tag_info_req  == Incoming(ndriver_tags_of(<<Str("name"), Str("address")>>))

-----------------------------------------------------------------------------
(* neu_json_global_config.c: the lists of nodes and groups are read as     *)
(* above from the same document.                                           *)

global_config_req_tags ==
    <<List("tags", <<Str("driver"), Str("group"), tag_array_read(0)>>, 0)>>
global_config_req_subscriptions ==
    <<List("subscriptions", <<Str("app"), List("groups", subscribe_groups_info, 0)>>, 0)>>
global_config_req_settings ==
    <<List("settings", <<Str("node"), Dump("params")>>, 0)>>
global_config_req ==
    Incoming(get_nodes_resp.dec \o get_driver_group_resp.dec \o global_config_req_tags
             \o global_config_req_subscriptions \o global_config_req_settings)

-----------------------------------------------------------------------------
(* The decoders that do more than read their elements.                     *)

\* neu_json_decode_update_group_config_req: at least one of the two.
read_update_group(d) ==
    LET m == Decode(update_group_config_req.dec, d)
    IN  IF m # None /\ m.new_name = None /\ m.interval = None THEN None ELSE m

\* neu_json_decode_write_tags_req: after an item that is wrong the items before
\* the first are freed and the reading goes on.
read_write_tags(d) ==
    LET items == Get(d, "tags")
        head  == SubSeq(write_tags_req.dec, 1, 2)
    IN  IF /\ ~ Bad(head, d)
           /\ items # None /\ items[1] = "array"
           /\ \E i \in DOMAIN items[2] :
                 Bad(<<Str("tag"), Value("value")>>, items[2][i])
        THEN Undefined
        ELSE Decode(write_tags_req.dec, d)

\* neu_json_decode_template_insts_req: up to the first item that is wrong.
read_template_insts(d) ==
    LET items == Get(d, "nodes")
        Wrong == {i \in DOMAIN items[2] : Bad(template_inst_req.dec, items[2][i])}
    IN  IF items = None THEN None
        ELSE IF items[1] # "array" THEN None
        ELSE Decode(template_insts_req.dec,
                    Object([key \in {"nodes"} |-> Array(SubSeq(items[2], 1,
                        IF Wrong = {} THEN Len(items[2]) ELSE Min(Wrong) - 1))]))

\* neu_json_decode_add_tags_req, _update_tags_req, _template_mod_tags_req: text
\* that is not JSON jumps over the initialisation of what is then freed.
read_tags(m, d) == IF d = None THEN Undefined ELSE Decode(m.dec, d)
=============================================================================
