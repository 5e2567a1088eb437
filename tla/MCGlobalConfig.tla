--------------------------- MODULE MCGlobalConfig ---------------------------
(***************************************************************************)
(* Configurations and documents for GlobalConfig.                          *)
(***************************************************************************)
EXTENDS GlobalConfig

MCKindOf == [Monitor |-> "APP", mqtt |-> "APP", modbus |-> "DRIVER", esv |-> "NDRIVER"]

Tag(name) == [name |-> name, type |-> 1, attribute |-> 1, address |-> "x", decimal |-> 0,
              precision |-> 0, description |-> "x", value |-> None]
Setting(n) == Object([params |-> Integer(n)])

Bare == [nodes |-> <<>>, groups |-> <<>>, tags |-> {}, subscriptions |-> {}, settings |-> <<>>]
Small == [nodes |-> [monitor |-> "Monitor"], groups |-> <<>>, tags |-> {},
          subscriptions |-> {}, settings |-> [monitor |-> Setting(1)]]
Usual ==
    [nodes |-> [monitor |-> "Monitor", a |-> "mqtt", d |-> "modbus", o |-> "esv"],
     groups |-> (<<"d", "g">> :> 1) @@ (<<"d", "h">> :> 2),
     tags |-> {<<"d", "g", Tag("x")>>, <<"d", "g", Tag("y")>>},
     subscriptions |-> {<<"a", "d", "g">>, <<"monitor", "d", "h">>},
     settings |-> [monitor |-> Setting(1), d |-> Setting(2), o |-> Setting(3)]]
NoJson == [Usual EXCEPT !.settings.d = Text("x")]
MCConfigurations == {Bare, Small, Usual, NoJson}

MCUnloaded == {"Monitor"}
MCElsewhere == {[type |-> "DEL_NODE", node |-> "a"], [type |-> "DEL_NODE", node |-> "d"],
                [type |-> "ADD_NODE", node |-> "a", plugin |-> "mqtt"],
                [type |-> "NODE_SETTING", node |-> "o", setting |-> Setting(4)]}

Node(name, plugin) == [name |-> name, plugin |-> plugin]
Group(driver, group, interval) ==
    [driver |-> driver, group |-> group, interval |-> interval, tag_count |-> 0]
Tags(driver, group, tags) == [driver |-> driver, group |-> group, tags |-> tags]
Subscription(app, driver, group) ==
    [app |-> app, groups |-> <<[driver |-> driver, group |-> group, params |-> None]>>]

\* Another site's configuration, and what can be wrong with it.
Site == [nodes |-> <<Node("b", "mqtt"), Node("monitor", "Monitor"), Node("d", "modbus")>>,
         groups |-> <<Group("d", "g", 3)>>,
         tags |-> <<Tags("d", "g", <<Tag("x")>>), Tags("d", "h", <<Tag("z")>>)>>,
         subscriptions |-> <<Subscription("b", "d", "g")>>,
         settings |-> <<[node |-> "b", params |-> Setting(5)]>>]
Sites == {Site,
          [Site EXCEPT !.nodes = Append(@, Node("o", "mqtt"))],
          [Site EXCEPT !.nodes = Append(@, Node("m", "Monitor"))],
          [Site EXCEPT !.groups = Append(@, Group("b", "g", 1))],
          [Site EXCEPT !.tags = Append(@, Tags("e", "g", <<Tag("x")>>))],
          [Site EXCEPT !.tags = Append(@, Tags("d", "g", <<Tag("x")>>))],
          [Site EXCEPT !.subscriptions = Append(@, Subscription("b", "d", "k"))],
          [Site EXCEPT !.nodes = <<>>]}
MCDocuments == {Encode(global_config_req.dec, s) : s \in Sites} \cup {None}
=============================================================================
