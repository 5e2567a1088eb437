# A TLA+ verification project for cpm

cpm is the communication process of a gateway: it loads driver and application
plugins as *nodes*, passes thing-model messages between an MQTT broker and
these plugins, and reloads a plugin's configuration when told to. It is a C
program descended from EMQX Neuron 2.x, and much of Neuron's machinery (driver
groups, the adapter and manager message loops, schema migration, REST) is still
compiled in. This directory models it in TLA+, checks the models with TLC on
small instances and proves the main results with TLAPS for all instances.

Paths below are relative to the repository; `PROJECT.json` has, for every
definition of a module, the lines it models.

## 1. The system

### 1.1 What runs, and in which thread

* **main thread** (`src/main.c`, `src/core/manager.c`): opens the database,
  creates the manager, registers the plugin libraries named in `thing_db`,
  starts the MQTT client, *then* loads one node after another
  (`src/core/storage.c`, `src/core/manager_internal.c`), and sleeps. SIGTERM,
  SIGINT and SIGSEGV end the process in `sig_handler`.
* **mqtt thread** (`src/connection/mqtt/lan_mqtt5_service.c`):
  `messageArrived5` handles one message at a time, by topic.
* **event threads** (`src/event/event_linux.c`): every adapter has one event
  loop, every driver a second one for its read and write timers.
* **plugin threads**: a plugin calls `thing_model_msg_arrived`
  (`src/adapter/driver/driver.c`) from a thread of its own.

No lock protects the node manager, an adapter's state and setting, or the
cached recipient lists; the threads above share them.

**Dormant code.** In this version the descriptor of `manager_loop` and
`adapter_loop` is not registered with an event loop, the creation of Neuron's
own database (`neu_persister_create`) is commented out, and the plugin manager
rejects plugins of type `NEU_NA_TYPE_DRIVER`. Groups, tags, the driver cache,
the adapter and manager loops, schema migration and REST are therefore compiled
but not reached. The modules about them (`DriverRead`, `DriverWrite`,
`NodeControl`, `Persister`, `RestApi`, `GlobalConfig`) model the code as it runs
once it is registered, and say so.

### 1.2 Components

| component | state | operations | correct when |
|---|---|---|---|
| node loading and reload (`core/storage.c`, `core/manager_internal.c`, `core/manager_adapter_msg.c`) | node table, adapter state, `adapter->setting`, plugin | load a row; handle a control or a matter push: stop, load configuration, offer it, start, answer | an answer with result 0 means the plugin accepted that configuration or a newer one, and runs if its start succeeded; loading ends |
| message routing (`lan_mqtt5_service.c`, `manager_adapter_msg.c`, `driver.c` 1569–1781) | two static recipient lists, node manager | dispatch by topic; forward to rows, apps, self drivers, one node; send upward | every recipient is called once, nobody answers itself |
| event loop (`event/event_linux.c`) | epoll set, timers with mutex and flag | add, delete, expire, call back, close | a deleted timer is not used; deleting and closing end; timers keep firing |
| driver cache (`adapter/driver/cache.c`) | value, error, `changed` per tag | update, read, read and clear | no change of a subscribed tag is lost |
| driver groups and write queue (`adapter/driver/driver.c`, `base/group.c`) | groups, tags, time stamps, write queue | add/update/delete group and tag, read, report, write | a report has the tags of the group; every write request is answered once |
| adapter loop (`adapter/adapter.c`) | running state, metrics | the requests of `adapter_loop` | start/stop/setting follow the state machine |
| manager loop, node and plugin manager (`core/`) | nodes, plugins | route requests, add, delete, rename | names are unique, replies go back to who asked |
| persistence (`persist/persist.c`) | tables, node and tag counts, migrations | load, store, migrate | a crash never leaves a half-applied schema unnoticed |
| JSON messages (`parser/`, `utils/json.c`) | – | encode, decode | what is written is read back as it was meant |
| REST handlers (`plugins/restful/`, `utils/http.c`, `utils/neu_jwt.c`) | the request, the memory its command carries | check the token, decode, check, send, answer | one answer for each request, one owner for each block |
| global configuration (`global_config_handle.c`) | a context per request, shared by two threads | export, import | success means the whole configuration |
| daemon (`daemon.c`), topic matching, values, command line | – | a lock, conversions | – |

They meet like this: the loader and the handlers of `NodeReload` fill the node
manager from which `ThingRouting` takes its recipients; `EventLoop` calls the
timers of `DriverRead` and `DriverWrite` and the loops of `NodeControl`;
`RestApi` and `GlobalConfig` send the commands that `NodeControl` passes on to
the adapters, whose driver requests are the adapter's thread of `DriverRead` and
`DriverWrite`; all of them store what they did with `Persister`'s calls. A module
takes what its neighbours do as external actions, which it names.

### 1.3 What is hard to test here

`PROJECT.json` lists the hazards with their lines. The kinds that matter:
a push that overtakes the loading of the node it names; the failure of one of
the four steps of a reload; recipient lists read before they are complete and
never again; freeing a timer whose event another thread has already taken;
changes of a tag between two reports; an answer that overtakes the write it is
for; a migration cut short by a crash; one connection under two threads; the
memory of a request between two threads; a context whose state one thread sets
after another has gone on with it.

## 2. The modules

### 2.1 `NodeReload`, `ConfigDelivery`

Two threads on the same adapters: the loader (`CreateAdapter`, `Publish`,
`StartCheck`, `StartCall`, `StartDone`: one action per call of
`neu_manager_add_node`, split where the other thread can see a difference) and
the mqtt thread (`Handle`, `StopPlugin`, `LoadConfig`, `ApplyConfig`,
`RestartPlugin`, `Reply`). `Configure` is the service that writes
`plugin_node.node_config`; `Killed` and `Restart` end and start the process at
any step; every call of a plugin can fail. A configuration is abstracted to the
number of times the row was written, with 0 for the pointer NULL.

*Answered is applied* (`AckedIsApplied`) holds for control pushes: an answer with
result 0 says that the plugin accepted what the database had when the push was
sent, or something newer, and that it runs on it if the `start()` of the handler
succeeded, until a later message stops it. It does *not* say that the plugin runs:
the handler drops the result of `start()` and answers 0 all the same
(`manager_adapter_msg.c:180`), so the answer's record carries it as a history
(`started`). Why it holds: versions in the database only grow, the handler reads
after the push was sent, and the loader and the handler are never in the middle
of the same node once the handler found it settled. `ConfigDelivery` is the promise made abstract
(`Write`, `Apply`, `Ack` of a version), and `NodeReload` implements it under
`applied <- accepted`. `SettingIsAccepted` says that no refused configuration
stays in `adapter->setting`. `MatterStopsFirst` says that the matter handler
only reconfigures a stopped plugin. Liveness: a push for a managed node is
answered (`PushIsAnswered`) and loading ends (`LoadingEnds`), assuming that both
threads are scheduled and that plugins return (weak fairness of each thread).
Two plain facts that the model shows beside: the matter handler answers 0
whatever came of its four steps, and a push for a node that is being loaded is
dropped without an answer.

### 2.2 `EventLoop`

One `neu_events_t`: the loop's thread, statement by statement where the other
thread can intervene (`EpollWait`, `Wake`, `Timeout`, `CheckStop`, `ReadTimer`,
`CheckTimerStop`, `Callback`, `CallbackReturns`, `IoCallback`), and the owner
(`Add`, `DelTimer`/`DelLock`/`DelFree`/`DelUnlock`, `DelIo`/`DelIoFree`,
`Close`/`CloseEpoll`/`Join`). The use of freed memory is the action `UseFreed`
with three outcomes: the event is dropped, the callback runs, the process dies.

What holds in spite of it: epoll only has live handles (`RegisteredIsLive`,
which a BLOCK timer, put back by the loop, could break); a callback that began
with the memory intact ends before the timer is freed
(`FreeWaitsForCallback`); at most one callback begins after the flag is set
(`AtMostOneLateCallback`); a BLOCK timer drops the expirations of its own
callback (`BlockTimerPauses`). Liveness: `TimerFires` and `OwnerReturns` (the
owner comes back from every deletion and from closing), with weak fairness of
both threads (callbacks return), of the expirations, and strong fairness of
`Wake` per timer: epoll moves a descriptor it has reported to the end of its
ready list. `OwnerReturns` needs no fairness of the mutex, because of the flag;
its mutant shows that.

The owner is one thread, as in the drivers: groups are changed by the adapter's
thread only. The reuse of a closed descriptor's number by another thread is not
modelled.

### 2.3 `ThingRouting`

Where a message goes (`ArrivalRoute`, `PluginRoute`, `Refused`), and the calls
of the recipients one at a time while the main thread loads rows (`Load`) and
other threads forward other messages. Setting, getting and posting differ only
in their routes; all topics with the same route are one method. A second thread
that assigns a static list while the first iterates makes the first run past the
end of its array (`utarray_next` computes the end from the new array): the
process is `killed`, and this state is reachable.

`HeardOnce` depends on the `noLocal` option of the subscriptions, as a message
of a plugin is published *and* forwarded, and on the directions of forwarding: a
driver does not hear itself. `RowsAreReached` says what an unmanaged row does: a
finished forwarding has called exactly the rows before it.
A list of nodes is the set of their places in the table, called in this order.
`neu_node_manager_get_adapter` is one step; that it walks the hash table while
the loader adds to it is not modelled beyond that.

### 2.4 `DriverRead`

One group of a driver and the three threads that meet in its cache. The
adapter's thread changes the configuration (`AddGroup`, `AddTag`, `UpdateTag`,
`DelTag`, `WriteStatic`, `Rename`, `DelGroup`) and reports (`Report`,
`ReportTag` once per tag, `ReportSend`); the driver's thread takes changes
(`SplitGroup`, `PurgeCache`, `FillCache`: the points of `neu_group_change_test`
and `group_change` between which the others can act); the plugin's thread
updates (`Update`, `UpdateGroup`) and reports at once (`UpdateIm`, `ImTag`,
`ImSend`). The comparison of two timestamps is the flag `dirty`; an entry's age
is the flag `expired`; whether a new value marks an entry is `Mark`, for each
kind of value as in `cache.c`. `READ_GROUP` changes nothing and is left out.
This code is dormant (1.1).

What holds, with the exceptions that a test would hardly show:

* `ChangeIsTaken`: what the plugin is given to read is the group as it is, once
  no change is marked. The exception is the history `overlap`: the tags are
  split before the timestamp is read, so a change in between is missed until the
  next one.
* `GroupIsCached`: each tag that is read has an entry, and a static tag has the
  value last written. The exception is `renamed`: renaming touches neither the
  timestamp nor the keys, so no update finds its entry until a tag changes.
* `EntriesAreOwned`: no entry outlives its tag or group, although a plugin may go
  on updating it, except `behind`: entries under a former name, which nothing
  ever deletes.
* `UnmarkedIsHeard`: the value of an unmarked entry of a subscribed tag is the
  one the applications heard last. Exceptions: the value expired before it was
  sent (the mark is removed with the error "expired"), or two threads were
  sending the tag at once (`crossed`: the older message can be the last). Values
  of type FLOAT and DOUBLE are outside the property: without a precision an
  equal update takes the mark back, and with one a slow drift never sets it.

The group's hash tables have no mutex; each access to them is one step. The
plugin is assumed to have one thread for `update_im` and to leave static tags
alone.

### 2.5 `DriverWrite`

The write queue of a group and the two counts of its tags, in three threads. The
adapter's thread takes the requests (`StartStop`, `Respond` to what is refused,
`Store`, `FreeTags`, `AddGroup`, `AddTags`, `UpdateTag`, `DelTag`, `DelGroup`,
`Uninit`); the driver's write timer takes the queue (`WriteCheck`, `WriteLock`,
`WriteOne` per request, `WriteEnd`), holding the mutex while the plugin writes;
the plugin answers (`Answer`), also before its function has returned, and the
answer frees the request. That deleting a timer waits for its callback is what
`EventLoop` shows.

`ServedInOrder` ties what the plugin was given, the queue and what was accepted:
once each and in order, except requests whose group was deleted (`lost`), which
nobody answers. `AnsweredOnce` is what keeps a request from being freed twice.
`CountsAgree` compares what the plugin was announced with what there is, when a
list is added in part; the history `uncounted` names the tags that a deleted
group leaves in the driver's count. `QueuedIsWritten`: a driver that keeps
running empties its queue. It assumes weak fairness of the driver's thread (the
timer fires again, `TimerFires`; the plugin's write returns) and none of the
plugin's answers.

### 2.6 `Persister`

A start of the process and then two threads on one connection. Migration is
statement by statement (`Upgrade` installs another release, `Start`, `Pass`,
`MarkDirty`, `Statement`, `MarkClean`, `LoadCounts`), calls are their steps
(`Enter`, `Execute`, `Count`, `Select`, `Set`, `Begin`, `Put`, `Commit`,
`CountAll`, `Rollback`), the file of plugins is written aside and replaced
(`OpenFileTmp`, `WriteTmp`, `CloseTmp`, `Replace`, for `fopen`, `fwrite`, `fclose`
and `rename`, each of which can fail), `Fail` is an error of a single statement,
`Abandon` one of a transaction or of its COMMIT, after which ROLLBACK is called and
may find that SQLite has undone the transaction already, and `Crash` may come
between any two steps. SQLite is external.

`SchemaIsWhole` says what the mark in the table of migrations is for; of two
scripts with one version, as the two of this repository have, only the first is
executed. `StoredIsKept` compares the tables, as they would be found after a
crash, with the history `promised` of calls that returned success; the exception
`mixed` is a call made while the other thread had a transaction open.
`CountsAgree` compares the counts that limit nodes and tags with the tables; the
exceptions are `drifted` (deleting a node that is not there; two threads between
counting and setting) and monitors, which are counted only from the next start
on. `PluginsAreWhole`: `plugins.json` is the list that was last stored with
success, whatever failed since. The exception is `unflushed`: `fclose` writes what
is left in the buffer, its result is ignored (`persist.c:123`), and on a full disk
`rename` installs a part of the list and success is returned.

### 2.7 `NodeControl`

HTTP requests for nodes through three loops: the REST plugin, `manager_loop`
(every case it has, and the assertion for all others) and one `adapter_loop` per
node, connected by queues that keep the order of one pipe and nothing else. An
added node announces its pipe by a message of its own, and until that is handled
what is forwarded to it goes to pipe 0, that is to any peer. A node may have any
name, also "monitor", the one that adapters send their events to: then such an event
can go to the REST plugin, which asserts that it gets none (`rest.c:248`). The
program ends there; it takes a node that is running, a request to add `monitor`,
and the event between that and the `NODE_INIT` of the new node.

`LifecycleAgrees` (state of the adapter, its setting, and whether the plugin is
started), `AddedOnce`, `AnsweredOnce`, `OnlyRequestsAbort` (the process
ends over a request without a case, a plugin whose init fails, or the event above
(`Stray`), and over nothing else that a loop sent another) and `EveryoneIsAnswered`, under weak fairness of the
manager's and each adapter's loop. Starting, stopping or asking for the setting
of a node that does not exist is never answered (`manager.c:368`), and the
property leaves these requests out.

### 2.8 `Json`, `JsonMessages`, `RestApi`

`Json` has the encoding and decoding of `utils/json.c`: an array of elements is
a sequence of fields, and `Encode` and `Decode` say which keys are written, which
are demanded and what a wrong one leads to. Lists nest three deep at most (a
template's groups and their tags), and there is an operator for each level
(`EncodeFlat`, `EncodeList`, `Encode`) over the one step they share
(`EncodeWith`, which is given what became of the lists). `Complete` says which
structures can be written: what must be there is, of the kind of its field, lists
are long enough, and an initial value fits the type of its tag. `JsonMessages` lists
for every message that is read the fields of its encoder and decoder. `RestApi` takes one
request of any endpoint through its handler (`Ask`, `Validate`, `ReadBody`,
`Handle`, `Send`, `Forget`, `FreeRequest`), the receiver of its command
(`RefuseSetting`, `ServeSetting`, `ServeTags` where it matters who frees what, `Serve`
for the others; `Fall` where nobody takes it) and the plugin's thread (`Respond`). A handler is
a sequence of checks, of which the first that fails gives the answer (`When`,
`First`), and the command it sends if none does (`Unless`).

`RoundTrip`: what a client writes with the encoder is what the handler has
decoded. `MemoryHasOneOwner`: the block a command carries is freed once, whoever
of handler and receiver comes first and also when the queue is full. It names where
the code leaves a block to nobody. Seven handlers do when the queue is full (`block =
"own"`). So does the adapter with every setting that a plugin accepts: it keeps a copy
(`adapter.c:1148`), and the event that the comment in `adapter.c:598` hands the
setting over to is commented out. And tags that were added, changed or deleted go to
a node named monitor, for which this repository has no plugin (`Kept`). `OnlyPluginCodesAbort`: no code of the
program itself fails the assertion in `neu_http_response`. `AnsweredOnce` and
`EveryoneIsAnswered` name the handlers that answer twice (a login whose token
could not be made, the log level) and the four responses nobody turns into an
answer. Weak fairness of the handler, of the receiver and of the plugin's thread.

Facts the model contains and no property hides: a body that is not JSON, and a
wrong item of `write_tags`, lead three decoders to undefined behaviour
(`Undefined`); the encoder of a node's new name writes a pointer as a number,
so `RoundTrip` takes for `update_node_req` a client that writes the fields of the
decoder (`Written`), as it does for the messages without an encoder.

### 2.9 `GlobalConfig`

Export and import of everything by one request. The handler's thread makes the
context and sends the first command (`Ask`, `Begin`), and *then* writes the state
(`SetState`) and hands over the request (`HandOver`); the plugin's thread takes
each response and sends the next command (`Respond`, with `GetNext` and
`PutNext`). Executing a command is external (`Serve`), as are other clients
(`Interfere`): `manager_loop` of this version has no case for several of these
commands (1.1), and the module has a manager that has. The handler's check of the
state it has written is one step with the write (`SetState`). The states, arrays and index of `context_t` are one sequence, the
commands that are still to be sent.

`ExportIsWhole`: an export that succeeds undisturbed can be imported and says
what the apps and drivers are; the exception `setBack` is a handler's thread so
late that it writes an earlier state over a later one. (An export without nodes is
one that cannot be imported.) `ImportIsApplied`: an undisturbed import that
succeeds leaves what the document says, nodes of other kinds and the static one
as they were; an error leaves whatever had been done, as nothing is taken back.
`UndefinedWhen` lists when a freed or missing piece of the context is used, or an
error is read as a list. `EveryoneIsAnswered`, with weak fairness of the threads.

## 3. Runs

| run | instance | shows |
|---|---|---|
| `node_reload` | a row whose plugin loads and one whose plugin is missing, versions up to 2, 1 queued push, crashes | three invariants, the refinement of `ConfigDelivery`, `PushIsAnswered`, `LoadingEnds` |
| `unknown_node` | – | a push for an unknown node ends the process, where doc/ says -2 is answered |
| `event_loop` | a BLOCK timer, a NOBLOCK timer, a descriptor | all properties of `EventLoop` |
| `removed_timer` | the same | the loop uses a timer after `neu_event_del_timer` freed it |
| `thing_routing` | 6 rows, one without a plugin, 2 messages | all properties of `ThingRouting` |
| `apps_unreached` | the same | an app loaded after the first message of a driver never hears one |
| `driver_read` | one tag with the attributes subscribe, static and write in all combinations, two names of the group, two values | all properties of `DriverRead` |
| `driver_write` | three requests (one tag, the same by a list, two tags), two valid tags and one that is refused, 4 changes | all properties of `DriverWrite` |
| `database` | two releases, a driver and a monitor, a tag that is stored and one that is rejected, 3 calls, 2 crashes | all properties of `Persister` |
| `node_control` | three requests, two names, of which one is "monitor", a plugin that can be opened or not and one that may be instantiated once, a good and a bad setting | all properties of `NodeControl` |
| `rest_api` | one request: every endpoint with a sample, all that differ from it in one field, and documents that are wrong in one place | all properties of `RestApi` |
| `global_config` | one request: four configurations, eight documents and none, 1 command of another client | all properties of `GlobalConfig` |

**Bounds.** Two versions separate an old configuration from a new one; the queue
holds one message besides the one being handled; that a loader and a handler are
on different nodes or the same one shows with a row that is skipped and one that
is not, and the theorems below hold for any rows. A timer of each type and a
descriptor interfere through the loop's single thread and nothing else. Two
messages are what two first users of a static list need; the rows have an app
before and behind the missing plugin, and a self driver. No step of `DriverRead`
reads the entries of another tag than the one it is about, so one tag shows what
a group of them does; two values tell old from new, and a second name lets a group
be renamed and renamed back. Values and names are symmetric there: no step and no
property distinguishes them. The attribute "read" is left out because such a tag
is sent in every report whatever its mark. Three requests are one being written,
one waiting and one coming; four changes add a group with tags, delete it and add
it again. Two releases are a migration on top of one that was cut short; two
crashes interrupt a start and the start after it; three calls are two that
overlap and one that meets what they left. Three requests on one name are two that
compete and one that finds the result; three on two names make a node run, add the
one named monitor and let an event of the first come in between. A plugin that is
not there is refused as one that may not be instantiated is, with another code. REST requests do not share state, so one
at a time shows what any number does; strings are short, empty or too long for
their field. One command of another client can come at any point of an export or
import. `LateMax` in `EventLoop` bounds a history variable one above what its
property allows.

**Deadlock.** `NodeReload` and `DriverRead` never stop, and deadlock is checked.
The others stop: `EventLoop` when the loop is joined or the process has died,
`ThingRouting` when all `MaxSent` messages were handled, `DriverWrite` when the
driver is uninitialised, `Persister` when the database is marked or the bounds
are used up, `NodeControl`, `RestApi` and `GlobalConfig` when what was asked is
dealt with or the process has aborted; their cfgs switch the check off.

**Types.** Each module with proofs has a type invariant `TypeOK`, which is proved
for every value of the constants. The runs spend their time on the other properties.

**Mutants.** Every property has a mutated definition (commented "Slip" in the
modules) that a plausible mistake in the code would amount to and that violates
it.

## 4. Proofs

`NodeReloadProofs` (any rows, any bounds on versions and queue, from
`NodesAssumption`): `Invariance` proves `Spec => []IInv`. `AckedIsApplied` alone
is not inductive: `IInv` adds that versions only grow along database, queue,
`setting` and `accepted` (`Ordered`), what the handler knows at each of its
steps (`Progressed`), and that the two threads are never on the same settled
node. `TypeCorrect`, `ControlAckIsApplied`, `SettingAccepted` and
`MatterReloadIsClean` follow, and `Refinement` maps each step to a step of
`ConfigDelivery` or a stutter.

`EventLoopProofs` (any sets of handles, from `HandlesAssumption`): `IInv` adds
who holds each mutex (`Locks`), that a timer whose flag is set is either being
deleted or freed (`Deleting`), that a late callback comes only from a check made
before the flag was set (`LateOnce`), and that an expired BLOCK timer has expired
since its last callback (`Pauses`). `RegisteredStaysLive`, `FreeIsExclusive`,
`LateCallbackBound`, `BlockPause` and `TypeCorrect` follow.

`DriverWriteProofs`, `PersisterProofs`, `NodeControlProofs`, `DriverReadProofs`,
`ThingRoutingProofs` and `RestApiProofs` are built in the same way: one lemma per action that it
preserves `IInv`, `Invariance`, and one theorem for each safety invariant of the
run. The values of all constants are arbitrary; what the parts of `IInv` beside
the properties are for:

| module | what `IInv` adds | why the properties need it |
|---|---|---|
| `DriverWrite` | what each thread of the three holds at each of its steps; a request is in one place: accepted, queued, with the plugin, or answered | "once each and in order" and "answered once" speak of the places a request leaves, a step of another thread must not find it in two |
| `Persister` | at each step of a call, what the tables, the transaction and the committed copy have to do with what was promised; how far a migration is, by its mark; what the file beside `plugins.json` has when it is renamed | a crash shows the committed copy between any two steps, so the promise must hold of it there already |
| `NodeControl` | a request is in one place of one queue; every message in a queue fits the request it belongs to, or is an event for a node named monitor that exists; of the requests that add a node one is granted | a loop aborts on, or answers, what another loop wrote long before |
| `DriverRead` | what the reader has split is the group unless it changed since (`SplitIsCurrent`); between emptying and filling only `behind` is cached (`PurgedIsEmpty`); the value of an unmarked entry was heard or is held by one sender and not by both (`ToldIsSent`) | the mark is removed long before the message is sent, and by either of two threads |
| `ThingRouting` | a thread forwards what it sent itself (`CallersForwardTheirOwn`); who is yet to be called has not heard it (`NotHeardAhead`, `NotHeardBefore`); a list holds nodes of its type, whoever filled it last (`ListsHoldTheirType`); a driver's messages go to apps (`DriversCallApps`) | a list can be replaced by another thread while it is read, and rows, apps and broker are three ways to the same plugin |
| `RestApi` | what has been answered, by how far the request has come (`InOrder`, `AnswerIsDue`); who holds the command's block, or that it was left to nobody, by where the handler and the receiver are (`Lent`, `MemoryMoves`) | handler, receiver and the plugin's thread go on in any order once the command is sent, and two of them can answer or free |

For `RestApi` the lemma `HandlersDecide` says of each of the 55 handlers, for any
request: it answers one known code or sends one command, and not both, but for
the two named above and for one whose behaviour is undefined. `AnsweredOnce` and `OnlyPluginCodesAbort` rest on it.

`RequestsAreRead` proves `RoundTrip` for every structure of every message, in four
steps. One structure, given what becomes of its lists: a document has under each name
what `EncodeValue` made of that field (`UnderItsName`), so each field is accepted
and read as it was (`FieldReadBack`, a case for each kind of element), and with them
the structure (`StructureReadBack`). The levels, one on top of the other
(`FlatReadBack`, `ListReadBack`, `WholeReadBack`): no induction is needed, as lists
nest three deep at most, and their length is arbitrary. The messages: names in a
structure are unique, a value that must fit a type comes with its type
(`FlatMessages` to `TemplateMessage`), and where encoder and decoder have their
fields in another order or demand others, both write the same document
(`SameMessages`, `WrittenAsRead`). The decoders that do more than read their fields
take none of their other ways (`GroupChangeRead`, `TagsRead`, `WriteTagsRead`,
`NodesRead`). The invariant is then `OnItsWay`: what was sent is the document, then
the decoded structure, and is never refused.

Each `IInv`, and `OnItsWay`, was checked by TLC on the instance of the module's run before it was
proved.

**Assumptions.** They are the named `ASSUME`s of the modules and nothing else:

| module | assumed |
|---|---|
| `NodeReload` | rows without a plugin are rows, the unknown node is none, bounds are positive (`NodesAssumption`) |
| `EventLoop` | a handle is of one kind, and "nothing" is no handle (`HandlesAssumption`) |
| `ThingRouting` | names in the table are unique and of one type, the broker is no node (`RowsAssumption`) |
| `DriverRead` | a tag has one type, "no value" and "error" are no values (`ReadAssumption`); "no entry" is no entry, which no set theory says of a model value (`NoEntryAssumption`) |
| `DriverWrite` | a request for a single tag is for one tag, "none" is no request (`WriteAssumption`) |
| `Persister` | a later release only adds scripts, and scripts are sorted by version as their names are (`ReleasesAssumption`); names are finitely many, a part of a list is no list (`CallsAssumption`); "no call" is no call (`NoneAssumption`) |
| `NodeControl` | the plugins that are loaded, and those for one instance, are plugins (`PluginsAssumption`); "none" is no request and no setting (`NoneAssumption`). Nothing of the names of nodes |
| `RestApi` | "none" and the undefined value are no commands (`NoneAssumption`), a plugin's code is no type of a response (`PluginCodeAssumption`); what a client sends is a complete structure of its message, and for a change of a group one that changes something (`BodiesAssumption`, used by `RequestsAreRead` alone; documents that are no such structure are `Strays`, of which nothing is assumed) |

**Only model-checked.** All liveness (`PushIsAnswered`, `LoadingEnds`,
`TimerFires`, `OwnerReturns`, `RowsAreReached`, `QueuedIsWritten`,
`EveryoneIsAnswered` of three modules), which TLAPS cannot prove under fairness.
The three invariants of `GlobalConfig`, for induction over data: a plan is a sequence
that the lists in the responses and in the document extend, `ExportIsWhole` and
`ImportIsApplied` say what carrying it out to the end leaves, and `UndefinedWhen`
needs to know the commands in it, of which those for subscriptions come from a
fold over a list of lists (`Plan`).

## 5. Findings

Three runs are expected to find a violation; `PROJECT.json` quotes the sentence
of the repository that says otherwise. Two are faults of the code with
consequences at run time: the loop uses a timer that was deleted
(`event_linux.c:112`), and apps loaded after the first driver message are left
out of driver messages until the process restarts (`manager_adapter_msg.c:315`).
One is a push answered otherwise than `doc/` says: for an unknown node the
process ends (`manager_adapter_msg.c:160`).

The exceptions that the other properties name (`overlap`, `renamed`, `behind`,
`crossed`, `lost`, `uncounted`, `mixed`, `drifted`, `setBack`) are what the code
does and nothing in the repository denies; each is a history variable, so that
the property says exactly when it does not hold. So are a `plugins.json` that
`fclose` could not write (`unflushed`), an event that strays to the REST plugin
(`Stray`), a setting or tags that are left to nobody (`Kept`), and a plugin that does
not run although its reload was answered with 0 (`started`). These hazards are
described by the properties, which say that nothing else goes wrong, and are not
caught by them.

## 6. Plan

The models are in place, and the safety invariants of every run but those of
`global_config` are theorems. What is left is `UndefinedWhen` of `GlobalConfig`: it
depends on a plan only by the commands that occur in it, not by their order, so
that what the fold over the subscriptions contains is the one fact about data that
its proof would need; the rest is what each state of the context says of the
response under way.

**Not modelled, and why.** The daemon's lock is one call of `fcntl` and parsing
of options keeps no state; the topic match of `utils/mqtt.c` and the copies and
dumps of `tag.c` are pure functions on strings and bytes that no module depends
on; signatures and hashes of tokens are calls of libjwt and OpenSSL; the
responses that are only written, files and logs that are read and the proxy are
input and output; of subscriptions and templates only the requests are modelled, in
`RestApi`, as this version has nobody who takes them; `lan_mqtt_service.c` is not built; the outside service manager is not
created.
