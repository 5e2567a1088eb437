----------------------------- MODULE Persister -----------------------------
(***************************************************************************)
(* The database that Neuron's machinery writes (persist.c): how a start    *)
(* brings the schema up to date, and how two threads of the process, the   *)
(* manager's and an adapter's, then share one connection.  The process may *)
(* be killed between any two steps.                                        *)
(*                                                                         *)
(* SQLite is external: a statement takes effect whole or not at all, a     *)
(* transaction that was not committed is gone after a crash, constraints   *)
(* are checked and foreign keys cascade if the connection asked for it.    *)
(* Whatever a connection does while a transaction is open on it belongs to *)
(* that transaction, whichever thread asked for it.                        *)
(*                                                                         *)
(* A script is a number of statements; what they create is not modelled,   *)
(* but for the column value of tags, which the script of this repository   *)
(* does not create and the code relies on.  A driver has one group.        *)
(* neu_persister_create is not called in this version: this is how the     *)
(* code behaves once it is.                                                *)
(***************************************************************************)
EXTENDS Integers, SequencesExt

CONSTANTS
    Files,      \* the scripts of all releases, as far as they are well formed
    Version,    \* the version in a script's name
    Statements, \* the number of its statements
    Releases,   \* the scripts of each release, in the order of their names
    ValueFile,  \* the script that adds the column "value" to tags
    Nodes,      \* names of nodes
    Monitor,    \* the nodes whose plugin is "Monitor"
    Tags,       \* names of tags
    Rejected,   \* nodes and tags whose rows the tables' checks reject
    TagLists,   \* what one call of neu_persister_store_tags is given
    Settings,   \* settings of a node
    Lists,      \* lists of plugins
    Calls,      \* bound on the calls of a process
    Crashes,    \* bound on the number of crashes
    None        \* no transaction, no call, no setting

Threads == {"manager", "adapter"}

\* A later release only adds scripts with higher versions.
ASSUME ReleasesAssumption ==
    /\ Version \in [Files -> Nat]
    /\ Statements \in [Files -> Nat \ {0}]
    /\ Releases \in Seq(Seq(Files))
    /\ Releases # <<>> /\ Releases[1] # <<>>
    /\ \A r \in DOMAIN Releases : \A i, j \in DOMAIN Releases[r] :
          i < j => Version[Releases[r][i]] <= Version[Releases[r][j]]
    /\ \A r \in DOMAIN Releases : r > 1 =>
          IsPrefix(Releases[r - 1], Releases[r])

\* The contents of the tables.
Rows == [nodes : SUBSET Nodes, settings : [Nodes -> Settings \cup {None}],
         groups : SUBSET Nodes, tags : SUBSET (Nodes \X Tags)]

\* Names are strings of bounded length.
ASSUME CallsAssumption ==
    /\ IsFiniteSet(Nodes) /\ IsFiniteSet(Tags)
    /\ Monitor \subseteq Nodes
    /\ TagLists \subseteq Seq(Tags)
    /\ None \notin Settings /\ None \notin Rows
    /\ {"cut", "unflushed"} \cap (Lists \cup {None}) = {}
    /\ Calls \in Nat /\ Crashes \in Nat

VARIABLES
    release,  \* the installed release
    marks,    \* table migrations: version -> dirty
    ran,      \* script -> how many of its statements were executed
    rows,     \* the other tables
    saved,    \* rows when the open transaction began, or None
    plugins,  \* plugins.json and plugins.json.tmp; as a history variable, the
              \* list that was last stored with success
    proc,     \* "down", the steps of a start, "open"
    script,   \* the script the start is at
    fk,       \* the connection enforces foreign keys
    counts,   \* global_node_count and global_tag_count
    call,     \* thread -> the call it is in, or None
    crashes,  \* number of crashes
    calls,    \* number of calls since the start
    promised, \* history: rows as the successful calls left them
    mixed,    \* history: a call ran inside the other thread's transaction
    drifted   \* history: since the start a call came that upsets the counts

disk == <<marks, ran, rows, saved>>
vars == <<release, marks, ran, rows, saved, plugins, proc, script, fk, counts,
          call, crashes, calls, promised, mixed, drifted>>

Scripts == Releases[release]

NoRows == [nodes |-> {}, settings |-> [n \in Nodes |-> None],
           groups |-> {}, tags |-> {}]

\* A database that is new, or one that Neuron left with groups and tags.
InheritedRows ==
    {[nodes |-> {n}, settings |-> [m \in Nodes |-> None], groups |-> {n},
      tags |-> {<<n, t>> : t \in Tags \ Rejected}] :
          n \in Nodes \ (Monitor \cup Rejected)}

Init ==
    /\ release = 1
    /\ \/ /\ marks = <<>>
          /\ ran = [f \in Files |-> 0]
          /\ rows = NoRows
       \/ /\ marks = [v \in {Version[Scripts[1]]} |-> FALSE]
          /\ ran = [f \in Files |-> IF f = Scripts[1] THEN Statements[f] ELSE 0]
          /\ rows \in InheritedRows
    /\ saved = None
    /\ plugins = [file |-> None, tmp |-> None, stored |-> None]
    /\ proc = "down"
    /\ script = 0
    /\ fk = FALSE
    /\ counts = [node |-> 0, tag |-> 0]
    /\ call = [t \in Threads |-> None]
    /\ crashes = 0
    /\ calls = 0
    /\ promised = rows
    /\ mixed = FALSE
    /\ drifted = FALSE

-----------------------------------------------------------------------------
(* A start: neu_persister_create.                                          *)

Working == UNCHANGED <<rows, saved, plugins, counts, call, calls, promised,
                       mixed, drifted>>

\* A newer version is installed while nothing runs.
Upgrade ==
    /\ proc = "down"
    /\ release < Len(Releases)
    /\ release' = release + 1
    /\ UNCHANGED <<marks, ran, proc, script, fk, crashes>>
    /\ Working

\* get_schema_version: only the highest version is looked at.
HeadIsDirty ==
    \E v \in DOMAIN marks : marks[v] /\ \A w \in DOMAIN marks : w <= v

\* apply_schemas, up to the first script.  A database whose head is dirty is
\* left alone and the start fails.
Start ==
    /\ proc = "down"
    /\ fk' = TRUE
    /\ IF HeadIsDirty
       THEN UNCHANGED <<proc, script>>
       ELSE proc' = "next" /\ script' = 1
    /\ UNCHANGED <<release, marks, ran, crashes>>
    /\ Working

\* should_apply: a version that is in the table is passed over, also if a
\* script of another name put it there.
Pass ==
    /\ proc = "next"
    /\ script <= Len(Scripts)
    /\ Version[Scripts[script]] \in DOMAIN marks
    /\ script' = script + 1
    /\ UNCHANGED <<release, marks, ran, proc, fk, crashes>>
    /\ Working

\* Slip: the mark is only set when a script fails.
CleanMark == FALSE

DirtyMark == TRUE

\* The row comes first, and says that the script is not finished.
MarkDirty ==
    /\ proc = "next"
    /\ script <= Len(Scripts)
    /\ Version[Scripts[script]] \notin DOMAIN marks
    /\ marks' = [v \in DOMAIN marks \cup {Version[Scripts[script]]} |->
                    IF v \in DOMAIN marks THEN marks[v] ELSE DirtyMark]
    /\ proc' = "script"
    /\ UNCHANGED <<release, ran, script, fk, crashes>>
    /\ Working

Statement ==
    /\ proc = "script"
    /\ ran[Scripts[script]] < Statements[Scripts[script]]
    /\ ran' = [ran EXCEPT ![Scripts[script]] = @ + 1]
    /\ UNCHANGED <<release, marks, proc, script, fk, crashes>>
    /\ Working

MarkClean ==
    /\ proc = "script"
    /\ ran[Scripts[script]] = Statements[Scripts[script]]
    /\ marks' = [marks EXCEPT ![Version[Scripts[script]]] = FALSE]
    /\ proc' = "next"
    /\ script' = script + 1
    /\ UNCHANGED <<release, ran, fk, crashes>>
    /\ Working

\* node_count_load and tag_count_load.
LoadCounts ==
    /\ proc = "next"
    /\ script > Len(Scripts)
    /\ proc' = "open"
    /\ counts' = [node |-> Cardinality(rows.nodes), tag |-> Cardinality(rows.tags)]
    /\ calls' = 0
    /\ drifted' = FALSE
    /\ UNCHANGED <<release, marks, ran, rows, saved, plugins, script, fk, call,
                   crashes, promised, mixed>>

\* The process ends: it is killed or it stops, or a step of the start fails
\* (main asserts that it has not).  An open transaction is undone.
Crash ==
    /\ proc # "down"
    /\ crashes < Crashes
    /\ crashes' = crashes + 1
    /\ proc' = "down"
    /\ rows' = IF saved = None THEN rows ELSE saved
    /\ saved' = None
    /\ call' = [t \in Threads |-> None]
    /\ UNCHANGED <<release, marks, ran, plugins, script, fk, counts, calls,
                   promised, mixed, drifted>>

-----------------------------------------------------------------------------
(* What a statement does to the rows: whether it succeeds, and the rows    *)
(* afterwards.                                                             *)

NoEffect(ok) == [ok |-> ok, rows |-> rows]
Becomes(r)   == [ok |-> TRUE, rows |-> r]

HasValue == ran[ValueFile] = Statements[ValueFile]

InsertNode(n) ==
    IF n \in rows.nodes \cup Rejected
    THEN NoEffect(n \in Monitor)   \* INSERT OR IGNORE
    ELSE Becomes([rows EXCEPT !.nodes = @ \cup {n}])

\* Settings, groups and tags go with the node.
DeleteNode(n) ==
    Becomes(IF fk
            THEN [nodes |-> rows.nodes \ {n},
                  settings |-> [rows.settings EXCEPT ![n] = None],
                  groups |-> rows.groups \ {n},
                  tags |-> {p \in rows.tags : p[1] # n}]
            ELSE [rows EXCEPT !.nodes = @ \ {n}])

Moved(n, m, k) == IF k = n THEN m ELSE k

RenamedTags(n, m) == {<<Moved(n, m, p[1]), p[2]>> : p \in rows.tags}

RenameNode(n, m) ==
    CASE n \notin rows.nodes -> NoEffect(TRUE)
      [] n \in rows.nodes /\ m \in rows.nodes -> NoEffect(FALSE)
      [] OTHER ->
            Becomes([nodes |-> {Moved(n, m, k) : k \in rows.nodes},
                     settings |-> [rows.settings EXCEPT
                                      ![m] = rows.settings[n], ![n] = None],
                     groups |-> {Moved(n, m, k) : k \in rows.groups},
                     tags |-> RenamedTags(n, m)])

\* INSERT OR REPLACE
StoreSetting(n, s) ==
    IF n \in rows.nodes \/ ~fk
    THEN Becomes([rows EXCEPT !.settings[n] = s])
    ELSE NoEffect(FALSE)

InsertTag(n, t) ==
    IF /\ HasValue
       /\ t \notin Rejected
       /\ <<n, t>> \notin rows.tags
       /\ n \in rows.groups \/ ~fk
    THEN Becomes([rows EXCEPT !.tags = @ \cup {<<n, t>>}])
    ELSE NoEffect(FALSE)

DeleteTag(n, t) == Becomes([rows EXCEPT !.tags = @ \ {<<n, t>>}])

Outcome(c) ==
    CASE c.op = "storeNode"  -> InsertNode(c.node)
      [] c.op = "delNode"    -> DeleteNode(c.node)
      [] c.op = "rename"     -> RenameNode(c.node, c.to)
      [] c.op = "setting"    -> StoreSetting(c.node, c.setting)
      [] c.op = "delSetting" -> Becomes([rows EXCEPT !.settings[c.node] = None])
      [] c.op = "storeTag"   -> InsertTag(c.node, c.tag)
      [] c.op = "delTag"     -> DeleteTag(c.node, c.tag)

-----------------------------------------------------------------------------
(* The calls of the two threads.                                           *)

Running == UNCHANGED <<release, marks, ran, proc, script, fk, crashes>>

\* The manager's thread stores nodes and plugins, an adapter's its settings
\* and the tags of its groups.
NodeCalls ==
    [op : {"storeNode", "delNode"}, node : Nodes]
    \cup [op : {"rename"}, node : Nodes \ Monitor, to : Nodes \ Monitor]
SettingCalls ==
    [op : {"delSetting"}, node : Nodes]
    \cup [op : {"setting"}, node : Nodes, setting : Settings]
TagCalls ==
    [op : {"storeTag", "delTag"}, node : Nodes \ Monitor, tag : Tags]
    \cup [op : {"storeTags"}, node : Nodes \ Monitor, tags : TagLists]
PluginCalls == [op : {"storePlugins"}, plugins : Lists]

First(c) == CASE c.op = "storeTags" -> "begin"
              [] c.op = "storePlugins" -> "open"
              [] OTHER -> "execute"

\* Two calls that read and write the count of tags at the same time.
Collide(c, d) ==
    /\ "delNode" \in {c.op, d.op}
    /\ {c.op, d.op} \cap {"storeTag", "storeTags", "delTag", "delNode"} # {"delNode"}

Enter(t, c) ==
    /\ proc = "open"
    /\ calls < Calls
    /\ call[t] = None
    /\ call' = [call EXCEPT ![t] = [c |-> c, at |-> First(c), n |-> 0]]
    /\ calls' = calls + 1
    /\ drifted' = (drifted \/ \E u \in Threads :
                      call[u] # None /\ Collide(c, call[u].c))
    /\ Running
    /\ UNCHANGED <<rows, saved, plugins, counts, promised, mixed>>

At(t, p) == proc = "open" /\ call[t] # None /\ call[t].at = p

\* A call returns, or goes on with its next step.
Return(t)  == call' = [call EXCEPT ![t] = None]
Go(t, p)   == call' = [call EXCEPT ![t].at = p]

Counted(op) == op \in {"storeNode", "delNode", "storeTag", "delTag"}

\* What the counts cannot survive.
Upsets(c) ==
    \/ c.op = "storeNode" /\ c.node \in Monitor
    \/ c.op = "delNode" /\ (c.node \notin rows.nodes \/ c.node \in Monitor)
    \/ c.op = "delTag" /\ <<c.node, c.tag>> \notin rows.tags

Uncounted(c) == c.op = "storeNode" /\ c.node \in Monitor

\* execute_sql: outside any transaction this is one, and durable.
Execute(t) ==
    /\ At(t, "execute")
    /\ LET c == call[t].c
           o == Outcome(c)
       IN  /\ rows' = o.rows
           /\ promised' = o.rows
           /\ drifted' = (drifted \/ Upsets(c))
           /\ IF o.ok /\ Counted(c.op) /\ ~Uncounted(c)
              THEN Go(t, "count") ELSE Return(t)
    /\ mixed' = (mixed \/ saved # None)
    /\ Running
    /\ UNCHANGED <<saved, plugins, counts, calls>>

\* Any call can fail without an effect.
Fail(t) ==
    /\ \E p \in {"execute", "begin", "open"} : At(t, p)
    /\ Return(t)
    /\ Running
    /\ UNCHANGED <<rows, saved, plugins, counts, calls, promised, mixed, drifted>>

\* Slip: the tags that went with a node stay counted.
CountNodesOnly(t) ==
    /\ At(t, "count")
    /\ LET op == call[t].c.op
       IN  /\ counts' = CASE op = "storeNode" -> [counts EXCEPT !.node = @ + 1]
                          [] op = "delNode"   -> [counts EXCEPT !.node = @ - 1]
                          [] op = "storeTag"  -> [counts EXCEPT !.tag = @ + 1]
                          [] op = "delTag"    -> [counts EXCEPT !.tag = @ - 1]
           /\ Return(t)
    /\ Running
    /\ UNCHANGED <<rows, saved, plugins, calls, promised, mixed, drifted>>

Count(t) ==
    /\ At(t, "count")
    /\ LET op == call[t].c.op
       IN  /\ counts' = CASE op = "storeNode" -> [counts EXCEPT !.node = @ + 1]
                          [] op = "delNode"   -> [counts EXCEPT !.node = @ - 1]
                          [] op = "storeTag"  -> [counts EXCEPT !.tag = @ + 1]
                          [] op = "delTag"    -> [counts EXCEPT !.tag = @ - 1]
           /\ IF op = "delNode" THEN Go(t, "select") ELSE Return(t)
    /\ Running
    /\ UNCHANGED <<rows, saved, plugins, calls, promised, mixed, drifted>>

\* Deleting a node counts the tags again: the count is read, and then set.
Select(t) ==
    /\ At(t, "select")
    /\ call' = [call EXCEPT ![t].n = Cardinality(rows.tags), ![t].at = "set"]
    /\ Running
    /\ UNCHANGED <<rows, saved, plugins, counts, calls, promised, mixed, drifted>>

Set(t) ==
    /\ At(t, "set")
    /\ counts' = [counts EXCEPT !.tag = call[t].n]
    /\ Return(t)
    /\ Running
    /\ UNCHANGED <<rows, saved, plugins, calls, promised, mixed, drifted>>

\* neu_persister_store_tags: one transaction for all tags of the call.
Begin(t) ==
    /\ At(t, "begin")
    /\ saved = None
    /\ saved' = rows
    /\ Go(t, "put")
    /\ Running
    /\ UNCHANGED <<rows, plugins, counts, calls, promised, mixed, drifted>>

Put(t) ==
    /\ At(t, "put")
    /\ LET c == call[t].c
           n == call[t].n
       IN  IF n = Len(c.tags)
           THEN Go(t, "commit") /\ UNCHANGED rows
           ELSE LET o == InsertTag(c.node, c.tags[n + 1])
                IN  /\ rows' = o.rows
                    /\ IF o.ok THEN call' = [call EXCEPT ![t].n = n + 1]
                               ELSE Go(t, "rollback")
    /\ Running
    /\ UNCHANGED <<saved, plugins, counts, calls, promised, mixed, drifted>>

Commit(t) ==
    /\ At(t, "commit")
    /\ saved' = None
    /\ promised' = rows
    /\ Go(t, "countAll")
    /\ Running
    /\ UNCHANGED <<rows, plugins, counts, calls, mixed, drifted>>

\* A statement of the transaction fails for another reason than its row, or
\* COMMIT does: ROLLBACK comes next.  If SQLite has undone the transaction by
\* itself, which an error of the disk makes it do, ROLLBACK finds none.
Abandon(t) ==
    /\ At(t, "put") \/ At(t, "commit")
    /\ \/ Go(t, "rollback") /\ UNCHANGED <<rows, saved>>
       \/ Return(t) /\ rows' = saved /\ saved' = None
    /\ Running
    /\ UNCHANGED <<plugins, counts, calls, promised, mixed, drifted>>

CountAll(t) ==
    /\ At(t, "countAll")
    /\ counts' = [counts EXCEPT !.tag = @ + Len(call[t].c.tags)]
    /\ Return(t)
    /\ Running
    /\ UNCHANGED <<rows, saved, plugins, calls, promised, mixed, drifted>>

\* Slip: an error returns and leaves the transaction open.
RollbackMissing(t) ==
    /\ At(t, "rollback")
    /\ Return(t)
    /\ Running
    /\ UNCHANGED <<rows, saved, plugins, counts, calls, promised, mixed, drifted>>

\* Slip: an error ends the transaction with what it did so far.
RollbackNothing(t) ==
    /\ At(t, "rollback")
    /\ saved' = None
    /\ Return(t)
    /\ Running
    /\ UNCHANGED <<rows, plugins, counts, calls, promised, mixed, drifted>>

Rollback(t) ==
    /\ At(t, "rollback")
    /\ rows' = saved
    /\ saved' = None
    /\ Return(t)
    /\ Running
    /\ UNCHANGED <<plugins, counts, calls, promised, mixed, drifted>>

\* Slip: the file itself is opened and written.
OpenFile(t) ==
    /\ At(t, "open")
    /\ plugins' = [plugins EXCEPT !.file = "cut", !.tmp = "cut"]
    /\ Go(t, "write")
    /\ Running
    /\ UNCHANGED <<rows, saved, counts, calls, promised, mixed, drifted>>

\* write_file_string: the list goes to a file beside plugins.json, which then
\* takes its place.  Only the manager's thread stores plugins.
OpenFileTmp(t) ==
    /\ At(t, "open")
    /\ plugins' = [plugins EXCEPT !.tmp = "cut"]
    /\ Go(t, "write")
    /\ Running
    /\ UNCHANGED <<rows, saved, counts, calls, promised, mixed, drifted>>

\* fwrite: what does not fit the buffer of the stream is written, and that
\* may fail; what fits is not.  A short write leaves the file beside.
WriteTmp(t) ==
    /\ At(t, "write")
    /\ Go(t, "close") \/ Return(t)
    /\ Running
    /\ UNCHANGED <<rows, saved, plugins, counts, calls, promised, mixed, drifted>>

\* fclose writes what is left in the buffer.  Nobody looks at its result: on a
\* full disk the file beside has a part of the list from now on.
CloseTmp(t) ==
    /\ At(t, "close")
    /\ \E written \in {call[t].c.plugins, "unflushed"} :
          plugins' = [plugins EXCEPT !.tmp = written]
    /\ Go(t, "replace")
    /\ Running
    /\ UNCHANGED <<rows, saved, counts, calls, promised, mixed, drifted>>

\* rename: the file beside takes the place of plugins.json, or stays.
Replace(t) ==
    /\ At(t, "replace")
    /\ \/ plugins' = [file |-> plugins.tmp, tmp |-> None,
                      stored |-> call[t].c.plugins]
       \/ UNCHANGED plugins
    /\ Return(t)
    /\ Running
    /\ UNCHANGED <<rows, saved, counts, calls, promised, mixed, drifted>>

-----------------------------------------------------------------------------
Startup == Upgrade \/ Start \/ Pass \/ MarkDirty \/ Statement \/ MarkClean
           \/ LoadCounts

Continue(t) ==
    \/ Execute(t) \/ Fail(t) \/ Count(t) \/ Select(t) \/ Set(t)
    \/ Begin(t) \/ Put(t) \/ Commit(t) \/ Abandon(t) \/ CountAll(t) \/ Rollback(t)
    \/ OpenFileTmp(t) \/ WriteTmp(t) \/ CloseTmp(t) \/ Replace(t)

Next ==
    \/ Startup
    \/ Crash
    \/ \E c \in NodeCalls \cup PluginCalls : Enter("manager", c)
    \/ \E c \in TagCalls \cup SettingCalls : Enter("adapter", c)
    \/ \E t \in Threads : Continue(t)

Spec == Init /\ [][Next]_vars

-----------------------------------------------------------------------------
(* Properties.                                                             *)

\* The calls of a thread, and the steps of a call.
CallsOf(t) == IF t = "manager" THEN NodeCalls \cup PluginCalls
                               ELSE TagCalls \cup SettingCalls

Steps(op) ==
    CASE op = "storePlugins" -> {"open", "write", "close", "replace"}
      [] op = "storeTags" -> {"begin", "put", "commit", "countAll", "rollback"}
      [] op = "delNode" -> {"execute", "count", "select", "set"}
      [] op \in {"storeNode", "storeTag", "delTag"} -> {"execute", "count"}
      [] OTHER -> {"execute"}

Stages == {"open", "write", "close", "replace", "begin", "put", "commit",
           "countAll", "rollback", "execute", "count", "select", "set"}

CallStates(t) == [c : CallsOf(t), at : Stages, n : Nat]

ASSUME NoneAssumption == \A t \in Threads : None \notin CallStates(t)

CallsShaped ==
    /\ DOMAIN call = Threads /\ call = [t \in Threads |-> call[t]]
    /\ \A t \in Threads : call[t] # None =>
          call[t] \in CallStates(t) /\ call[t].at \in Steps(call[t].c.op)

\* Every variable keeps its shape.
SchemaTypeOK ==
    /\ release \in DOMAIN Releases
    /\ DOMAIN marks \subseteq Nat /\ marks \in [DOMAIN marks -> BOOLEAN]
    /\ ran \in [Files -> Nat]
    /\ proc \in {"down", "next", "script", "open"}
    /\ script \in 0 .. Len(Scripts) + 1
    /\ fk \in BOOLEAN

\* What a file can have in it: "cut" is a part of a list whose writing has not
\* ended, "unflushed" a part of one whose writing ended in an fclose that failed.
Contents == Lists \cup {None, "cut", "unflushed"}

CallsTypeOK ==
    /\ rows \in Rows /\ saved \in Rows \cup {None}
    /\ CallsShaped
    /\ counts \in [node : Int, tag : Int]
    /\ plugins \in [file : Contents, tmp : Contents, stored : Lists \cup {None}]
    /\ mixed \in BOOLEAN /\ drifted \in BOOLEAN

TypeOK == SchemaTypeOK /\ CallsTypeOK

\* Once the process is up every script of the release that is the first of
\* its version has been executed whole and once, however often earlier
\* starts were killed, between which statements, and under which release
\* (apply_schemas, the dirty mark of apply_schema_file).
SchemaIsWhole ==
    proc = "open" =>
        \A i \in DOMAIN Scripts :
            (\A j \in 1..(i - 1) : Version[Scripts[j]] # Version[Scripts[i]])
                => ran[Scripts[i]] = Statements[Scripts[i]]

\* What is in the database, as a reader after a crash would find it, is what
\* the calls that returned success left: nothing of a call that failed, of a
\* list of tags that was stored in part, nothing lost.  Not so once a call
\* ran while the other thread had a transaction open on the connection they
\* share: its success is then rolled back with that transaction
\* (neu_persister_store_tags).
StoredIsKept ==
    ~mixed => promised = (IF saved = None THEN rows ELSE saved)

\* With no call under way the counts that limit nodes and tags are those of
\* the tables, although calls add to and take from them and a deleted node
\* takes its tags along.  Calls that upset them are named by drifted.
\* A monitor is counted from the next start on.
CountsAgree ==
    proc = "open" /\ ~drifted /\ ~mixed /\ (\A t \in Threads : call[t] = None) =>
        /\ counts.node \in Cardinality(rows.nodes \ Monitor)..Cardinality(rows.nodes)
        /\ counts.tag = Cardinality(rows.tags)

\* plugins.json is at all times, and whenever the process is killed, the list
\* that neu_persister_store_plugins last returned success for, with one
\* exception: write_file_string drops the result of fclose, and returns success
\* with a part of the list in place when the disk was full then.  A list whose
\* fopen, fwrite or rename fails leaves the list before it.
PluginsAreWhole == plugins.file \in {plugins.stored, "unflushed"}

-----------------------------------------------------------------------------
(* The inductive invariant: the schema.                                    *)

IsFirst(i) == \A j \in 1 .. (i - 1) : Version[Scripts[j]] # Version[Scripts[i]]

\* The versions in the table are those of the first scripts, none left out.
MarksAreAPrefix ==
    /\ DOMAIN marks \subseteq {Version[Scripts[i]] : i \in DOMAIN Scripts}
    /\ \A v \in DOMAIN marks : \A i \in DOMAIN Scripts :
          Version[Scripts[i]] <= v => Version[Scripts[i]] \in DOMAIN marks

\* A clean mark says that the script of the version was executed whole.
CleanIsWhole ==
    \A i \in DOMAIN Scripts :
        /\ IsFirst(i)
        /\ Version[Scripts[i]] \in DOMAIN marks
        /\ ~marks[Version[Scripts[i]]]
        => ran[Scripts[i]] = Statements[Scripts[i]]

\* Only the head can be dirty; it is while its script runs, and no other
\* start gets past it.
OnlyHeadIsDirty ==
    /\ \A v \in DOMAIN marks : marks[v] => \A w \in DOMAIN marks : w <= v
    /\ proc \in {"next", "open"} => \A v \in DOMAIN marks : ~marks[v]

\* Where a start is, what it has behind it is marked.
StartIsAt ==
    /\ proc # "down" => fk = TRUE
    /\ proc \in {"next", "script"} =>
          /\ script > 0
          /\ \A i \in DOMAIN Scripts :
                i < script => Version[Scripts[i]] \in DOMAIN marks
    /\ proc = "script" =>
          /\ script \in DOMAIN Scripts /\ IsFirst(script)
          /\ Version[Scripts[script]] \in DOMAIN marks
          /\ marks[Version[Scripts[script]]]
    /\ proc = "open" =>
          \A i \in DOMAIN Scripts : Version[Scripts[i]] \in DOMAIN marks

SchemaInv ==
    SchemaTypeOK /\ MarksAreAPrefix /\ CleanIsWhole /\ OnlyHeadIsDirty /\ StartIsAt

-----------------------------------------------------------------------------
(* The inductive invariant: the calls.                                     *)

\* Before the process is up there are no calls, and only a call that stores
\* tags has a transaction open.
TransactionIsOwned ==
    /\ proc # "open" => \A t \in Threads : call[t] = None
    /\ saved # None <=> /\ call["adapter"] # None
                        /\ call["adapter"].at \in {"put", "commit", "rollback"}

\* Foreign keys.
References(r) == r.groups \subseteq r.nodes /\ \A p \in r.tags : p[1] \in r.groups

ReferencesHold == References(rows) /\ (saved # None => References(saved))

\* The file beside plugins.json has all that it will have of the list before it
\* takes its place.
ReplacedByWhole ==
    call["manager"] # None /\ call["manager"].at = "replace"
        => plugins.tmp \in {call["manager"].c.plugins, "unflushed"}

\* Unless the counts are given up, no call collides with another.
NoCollision ==
    ~drifted /\ call["manager"] # None /\ call["adapter"] # None
        => ~Collide(call["manager"].c, call["adapter"].c)

\* What the calls under way have done to the tables and not yet counted.
NodesPending ==
    IF call["manager"] = None THEN 0
    ELSE CASE call["manager"].at # "count" -> 0
           [] call["manager"].at = "count" /\ call["manager"].c.op = "storeNode" -> 1
           [] OTHER -> -1

TagsPending ==
    IF call["adapter"] = None THEN 0
    ELSE CASE call["adapter"].c.op = "storeTags" -> call["adapter"].n
           [] call["adapter"].at = "count" /\ call["adapter"].c.op = "storeTag" -> 1
           [] call["adapter"].at = "count" /\ call["adapter"].c.op = "delTag" -> -1
           [] OTHER -> 0

\* The manager is about to count the tags again.
Recounts ==
    /\ call["manager"] # None
    /\ call["manager"].c.op = "delNode"
    /\ call["manager"].at # "execute"

Reliable == proc = "open" /\ ~drifted /\ ~mixed

NodesCounted ==
    Reliable =>
        /\ counts.node + NodesPending
              \in Cardinality(rows.nodes \ Monitor) .. Cardinality(rows.nodes)
        /\ saved # None => saved.nodes = rows.nodes

TagsCounted ==
    Reliable =>
        IF Recounts
        THEN call["manager"].at = "set" => call["manager"].n = Cardinality(rows.tags)
        ELSE /\ counts.tag + TagsPending = Cardinality(rows.tags)
             /\ saved # None => counts.tag = Cardinality(saved.tags)

\* How far a list of tags is.
ListIsAt ==
    call["adapter"] # None =>
        LET k == call["adapter"]
        IN  /\ k.at = "begin" => k.n = 0
            /\ k.at = "put" => k.n <= Len(k.c.tags)
            /\ k.at \in {"commit", "countAll"} => k.n = Len(k.c.tags)

CallsInv ==
    /\ CallsTypeOK /\ TransactionIsOwned /\ ReferencesHold
    /\ ReplacedByWhole /\ PluginsAreWhole
    /\ StoredIsKept
    /\ NoCollision /\ ListIsAt /\ NodesCounted /\ TagsCounted

IInv == SchemaInv /\ CallsInv
=============================================================================
