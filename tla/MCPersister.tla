---------------------------- MODULE MCPersister ----------------------------
(***************************************************************************)
(* An instance of Persister: the two scripts of this repository, which     *)
(* share version 0, and a later script that adds the column value; one     *)
(* driver, the monitor, a tag the table accepts and one it rejects.        *)
(***************************************************************************)
EXTENDS Persister

MCVersion    == [plugin_initial |-> 0, thing_initial |-> 0, tag_value |-> 1]
MCFiles      == DOMAIN MCVersion
MCStatements == [plugin_initial |-> 2, thing_initial |-> 1, tag_value |-> 2]
MCReleases   == << <<"plugin_initial", "thing_initial">>,
                   <<"plugin_initial", "thing_initial", "tag_value">> >>
MCTagLists   == {<<"x", "bad">>, <<"x">>}
=============================================================================
