----------------------------- MODULE MCRestApi ------------------------------
(***************************************************************************)
(* Requests for RestApi: for every endpoint one structure, and those that  *)
(* differ from it in one field; documents with a key missing, with a list  *)
(* that is none, with a wrong item, and no document.                       *)
(***************************************************************************)
EXTENDS RestApi

RECURSIVE Sample(_), Variants(_, _)

Usual(f) ==
    CASE f.kind = "str"              -> "x"
      [] f.kind \in {"int", "given"} -> 1
      [] f.kind = "double"           -> 0
      [] f.kind = "value"            -> Integer(1)
      [] f.kind = "static"           -> None
      [] f.kind = "dump"             -> Object([k \in {f.name} |-> Integer(1)])
      [] f.kind = "list"             -> <<Sample(f.items)>>
      [] f.kind = "names"            -> <<"x">>

At(fields, key) == fields[CHOOSE i \in DOMAIN fields : fields[i].name = key]

Sample(fields) == [key \in Keys(fields) |-> Usual(At(fields, key))]

\* The names that a handler measures.
Measured == {"name", "new_name", "plugin", "node", "group", "template", "pass", "new_pass",
             "address", "ndriver", "driver"}

\* Of these, names that the handler of e copies without measuring.
Unmeasured(e, key) ==
    CASE e = "handle_add_adapter"      -> key = "plugin"
      [] e = "handle_add_group_config" -> key = "node"
      [] e = "handle_add_tags"         -> key = "node"
      [] OTHER -> e \notin {"handle_login", "handle_password", "handle_update_adapter",
                            "handle_del_plugin", "handle_update_group",
                            "handle_add_template", "handle_add_template_group",
                            "handle_update_template_group", "handle_del_template_group",
                            "handle_add_template_tags", "handle_update_template_tags",
                            "handle_del_template_tags", "handle_instantiate_template",
                            "handle_instantiate_templates", "handle_add_ndriver_map",
                            "handle_del_ndriver_map"}

Others(e, f) ==
    (CASE f.kind = "str" -> {""} \cup (IF f.name \in Measured /\ ~ Unmeasured(e, f.name)
                                       THEN {"long"} ELSE {})
       [] f.kind \in {"int", "given"} -> {0}
       [] f.kind = "value" -> {Text("x"), Text("long"), Real(1), <<"boolean", TRUE>>,
                               Array(<<Integer(1)>>)}
       [] f.kind = "dump"  -> {Object([k \in {f.name} |-> Text("x")])}
       [] f.kind = "list"  -> {<<Sample(f.items), Sample(f.items)>>}
                              \cup {<<v>> : v \in Variants(e, f.items)}
                              \cup {<<Sample(f.items), v>> : v \in Variants(e, f.items)}
                              \cup (IF f.least = 0 THEN {<<>>} ELSE {})
       [] f.kind = "names" -> {<<"x", "y">>} \cup (IF f.least = 0 THEN {<<>>} ELSE {})
                              \cup (IF Unmeasured(e, "tag") THEN {} ELSE {<<"x", "long">>})
       [] OTHER -> {})
    \cup (IF f.opt /\ f.kind \in {"str", "given", "dump"} THEN {None} ELSE {})

Variants(e, fields) ==
    UNION {{[Sample(fields) EXCEPT ![fields[i].name] = v] : v \in Others(e, fields[i])} :
              i \in DOMAIN fields}

\* Initial values of static tags, that fit their type and that do not.
Typed(type, value) ==
    [Sample(tag_read) EXCEPT !.attribute = 8, !.type = type, !.value = value]
Fitting == {Typed(1, Integer(1)), Typed(9, Integer(1)), Typed(9, Real(1)),
            Typed(12, <<"boolean", TRUE>>), Typed(13, Text("x")), Typed(15, Text("x"))}
Unfit   == {Typed(1, Real(1)), Typed(9, Text("x")), Typed(12, Integer(1)),
            Typed(13, Integer(1)), Typed(13, Text("long")), Typed(1, None),
            [Sample(tag_read) EXCEPT !.value = Integer(1)]}
WithTags == {"handle_add_tags", "handle_update_tags", "handle_add_template_tags",
             "handle_update_template_tags"}

WithBodyCases(e) ==
    LET fields == Messages[e].dec
    IN  (({Sample(fields)} \cup Variants(e, fields))
         \cup (IF e \in WithTags
               THEN {[Sample(fields) EXCEPT !.tags = <<t>>] : t \in Fitting} ELSE {}))
        \ (IF e = "handle_update_group" THEN {m \in Variants(e, fields) :
                                               m.new_name = None /\ m.interval = None}
           ELSE {})

MCBodies ==
    [e \in Endpoints |->
        IF e \in WithBody THEN WithBodyCases(e)
        ELSE [Parameters[e] -> {None, "", "x"} \cup (IF e = "handle_download_file"
                                                     THEN {"bare"} ELSE {"long"})]]

Without(d, key) == Object([k \in DOMAIN d[2] \ {key} |-> d[2][k]])
With(d, key, v) == Object([k \in DOMAIN d[2] \cup {key} |-> IF k = key THEN v ELSE d[2][k]])

MCStrays ==
    [e \in WithBody |->
        LET fields == Messages[e].dec
            d == Encode(fields, Sample(fields))
            must == {i \in DOMAIN fields : ~ fields[i].opt}
            lists == {i \in DOMAIN fields : fields[i].kind \in {"list", "names"}}
        IN  {None, Array(<<>>)}
            \cup {Without(d, fields[i].name) : i \in must}
            \cup {With(d, fields[i].name, v) : i \in lists,
                     v \in {Text("x"), Array(<<Integer(1)>>), Array(<<>>)}}
            \cup {With(d, fields[i].name, Array(<<d[2][fields[i].name][2][1], Integer(1)>>)) :
                     i \in lists}
            \cup (IF e = "handle_update_group"
                  THEN {With(d, "interval", Text("x")),
                        Without(Without(d, "interval"), "new_name")} ELSE {})
            \cup (IF e = "handle_write" THEN {With(d, "value", Object(<<>>))} ELSE {})
            \cup (IF e \in WithTags
                  THEN {With(d, "tags", Array(<<Encode(tag_read, t)>>)) : t \in Unfit}
                  ELSE {})]

\* ADD_PLUGIN is the command that nobody takes.
MCPassed == Types \ {"ADD_PLUGIN"}
=============================================================================
