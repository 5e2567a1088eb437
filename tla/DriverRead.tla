----------------------------- MODULE DriverRead -----------------------------
(***************************************************************************)
(* How a group of tags of a driver is read and reported: the group's       *)
(* configuration (group.c), the cache of values (cache.c) and the          *)
(* functions of driver.c between them.  Three threads meet here.           *)
(*                                                                         *)
(*   - The adapter's thread changes the configuration and, on the report   *)
(*     timer, sends the applications what the cache holds.                 *)
(*   - The driver's thread, on the read timer, tests whether the group     *)
(*     has changed, brings the cache in line and calls the plugin.         *)
(*   - The plugin's thread puts values and errors into the cache, and with *)
(*     update_im also sends them.                                          *)
(*                                                                         *)
(* Every access to the cache is one step under its mutex; the group has no *)
(* mutex.  A loop over tags that stays within one thread and whose rounds  *)
(* touch different tags is one step.                                       *)
(*                                                                         *)
(* dirty stands for group->timestamp # group_t.timestamp: update_timestamp *)
(* takes the time in microseconds, and two changes are taken never to have *)
(* the same.  Times of the cache are abstracted to "expired".  Endianness, *)
(* decimals and metas change neither what is sent nor when.  While the     *)
(* adapter is not RUNNING the callbacks of the timers return at once and   *)
(* writes are refused, as if they had not come: its state is left out.     *)
(* There is one group, which may have any of the names.                    *)
(***************************************************************************)
EXTENDS FiniteSets

CONSTANTS
    Tags,     \* names of tags
    Names,    \* names the group can have
    Attrs,    \* attributes a tag is given, of AllAttrs
    Values,   \* values the plugin reads
    Error,    \* any NEU_TYPE_ERROR value
    Near,     \* pairs of values within 0.1^precision of each other
    Bytes,    \* tags of type NEU_TYPE_BYTES
    Float,    \* tags of type FLOAT or DOUBLE without precision
    Rounded,  \* tags of type FLOAT or DOUBLE with a precision
    None      \* no group, no entry, nothing sent

AllAttrs == {"subscribe", "read", "static", "write"}

ASSUME ReadAssumption ==
    /\ Attrs \subseteq AllAttrs
    /\ Error \notin Values
    /\ None \notin Names \cup Values \cup {Error, "expired"}
    /\ Near \subseteq Values \X Values
    /\ Bytes \cup Float \cup Rounded \subseteq Tags /\ Bytes \cap Float = {}

VARIABLES
    name,      \* the group's name, or None
    conf,      \* the group's tags: tag -> attribute and static value
    dirty,     \* the group changed since the driver took its timestamp
    taken,     \* what the driver reads: static_tags and grp.tags
    reader,    \* read_callback: its step and the tags it has split
    cache,     \* <<name, tag>> -> entry
    report,    \* report_callback: tags to do, and what it will send
    im,        \* update_im: the same
    apps,      \* history: <<name, tag>> -> what the applications heard last,
               \*   since the entry was added
    overlap,   \* history: the driver missed a change, and none came since
    renamed,   \* history: the group was renamed since the last change taken
    behind,    \* history: entries left under a former name
    crossed    \* history: entries two threads were sending at once

vars == <<name, conf, dirty, taken, reader, cache, report, im,
          apps, overlap, renamed, behind, crossed>>

history == <<apps, overlap, renamed, behind, crossed>>

Keys  == Names \X Tags
Exact == Tags \ (Bytes \cup Float \cup Rounded)

\* A tag's configuration.  A tag that may only be written is not read.
Unset     == [attr |-> "none", val |-> Error]
Readable  == [attr : {"subscribe", "read"}, val : {Error}]
Static    == [attr : {"static"}, val : Values]
WriteOnly == [attr : {"write"}, val : {Error}]
Confs     == {c \in Readable \cup Static \cup WriteOnly : c.attr \in Attrs}

NoTags == [t \in Tags |-> Unset]

\* to_read_array, and split_static_array.
ReadTags(c) == {t \in Tags : c[t] \in Readable \cup Static}
Split(c)    == [t \in Tags |-> IF t \in ReadTags(c) THEN c[t] ELSE Unset]

\* An entry is added unmarked, with the timestamp 0.  The age of an error
\* never matters, so an error counts as expired.
Entries  == [val : Values \cup {Error}, changed : BOOLEAN, expired : BOOLEAN]
Fresh(v) == [val |-> v, changed |-> FALSE, expired |-> TRUE]

ASSUME NoEntryAssumption == None \notin Entries

Idle      == [todo |-> {}, sent |-> [k \in Keys |-> None]]
Busy(r)   == r # Idle
Holds(r)  == {k \in Keys : r.sent[k] # None}

-----------------------------------------------------------------------------
(* The cache.                                                              *)

\* Slip: a mark waits for no one.
MarkForgets(t, e, v) == v = Error \/ e.val = Error \/ e.val # v

\* Whether an entry is marked once v was put into it.
Mark(t, e, v) ==
    IF Error \in {v, e.val} THEN TRUE
    ELSE IF t \in Float     THEN e.val # v
    ELSE \/ e.changed
         \/ t \in Bytes
         \/ t \in Exact   /\ e.val # v
         \/ t \in Rounded /\ <<e.val, v>> \notin Near

\* Slip: an entry that is missing is added.
UpdatedOrAdded(ks, v, now) ==
    [k \in Keys |->
        IF k \notin ks THEN cache[k]
        ELSE [val |-> v, expired |-> v = Error,
              changed |-> \/ now \/ cache[k] = None
                          \/ cache[k] # None /\ Mark(k[2], cache[k], v)]]

\* neu_driver_cache_update_change: the cache once v was put into ks, marked
\* in any case if now.
Updated(ks, v, now) ==
    [k \in Keys |->
        IF k \notin ks \/ cache[k] = None THEN cache[k]
        ELSE [val |-> v, expired |-> v = Error,
              changed |-> now \/ Mark(k[2], cache[k], v)]]

\* History: what was heard of entries that are gone does not count.
Unheard(ks) ==
    /\ apps'    = [k \in Keys |-> IF k \in ks THEN None ELSE apps[k]]
    /\ crossed' = crossed \ ks

-----------------------------------------------------------------------------
\* A driver without a group.
Init ==
    /\ name    = None
    /\ conf    = NoTags
    /\ dirty   = FALSE
    /\ taken   = NoTags
    /\ reader  = [pc |-> "idle", split |-> NoTags]
    /\ cache   = [k \in Keys |-> None]
    /\ report  = Idle
    /\ im      = Idle
    /\ apps    = [k \in Keys |-> None]
    /\ overlap = FALSE
    /\ renamed = FALSE
    /\ behind  = {}
    /\ crossed = {}

-----------------------------------------------------------------------------
(* The adapter's thread: the group.                                        *)

AdapterFree == ~Busy(report)

\* update_timestamp.  The reader does not see a change that comes between its
\* split and its reading of the timestamp; it sees the next one.
Stamped ==
    /\ dirty'   = TRUE
    /\ overlap' = CASE reader.pc = "split"  -> TRUE
                     [] reader.pc = "purged" -> overlap
                     [] reader.pc = "idle"   -> FALSE

\* neu_adapter_driver_add_group: both timestamps are 0.
AddGroup(n) ==
    /\ AdapterFree
    /\ name = None
    /\ name' = n
    /\ UNCHANGED <<conf, dirty, taken, reader, cache, report, im, history>>

\* neu_adapter_driver_add_tag; a group that is missing is added first.
AddTag(n, t, c) ==
    /\ AdapterFree
    /\ n = name \/ name = None
    /\ conf[t] = Unset
    /\ name' = n
    /\ conf' = [conf EXCEPT ![t] = c]
    /\ Stamped
    /\ UNCHANGED <<taken, reader, cache, report, im, apps, renamed, behind, crossed>>

\* neu_adapter_driver_update_tag.
UpdateTag(t, c) ==
    /\ AdapterFree
    /\ conf[t] # Unset
    /\ conf' = [conf EXCEPT ![t] = c]
    /\ Stamped
    /\ UNCHANGED <<name, taken, reader, cache, report, im, apps, renamed, behind, crossed>>

\* Slip: the timestamp is not updated.
DelTagQuietly(t) ==
    /\ AdapterFree
    /\ conf[t] # Unset
    /\ conf' = [conf EXCEPT ![t] = Unset]
    /\ UNCHANGED <<name, dirty, overlap, taken, reader, cache, report, im, apps,
                   renamed, behind, crossed>>

\* neu_adapter_driver_del_tag.
DelTag(t) ==
    /\ AdapterFree
    /\ conf[t] # Unset
    /\ conf' = [conf EXCEPT ![t] = Unset]
    /\ Stamped
    /\ UNCHANGED <<name, taken, reader, cache, report, im, apps, renamed, behind, crossed>>

\* neu_adapter_driver_write_tag of a static tag.
WriteStatic(t, v) ==
    /\ AdapterFree
    /\ conf[t] \in Static
    /\ conf'  = [conf EXCEPT ![t].val = v]
    /\ cache' = Updated({<<name, t>>}, v, FALSE)
    /\ Stamped
    /\ UNCHANGED <<name, taken, reader, report, im, apps, renamed, behind, crossed>>

\* neu_adapter_driver_update_group: deleting the read timer waits for
\* read_callback; neither the timestamp nor the cache is touched.
Rename(n) ==
    /\ AdapterFree /\ reader.pc = "idle"
    /\ name \notin {None, n}
    /\ name'    = n
    /\ renamed' = TRUE
    /\ behind'  = {k \in Keys : cache[k] # None}
    /\ Unheard(Keys)
    /\ UNCHANGED <<conf, dirty, taken, reader, cache, report, im, overlap>>

\* Slip: the read timer is not waited for.
DelGroupAtOnce ==
    /\ AdapterFree /\ name # None
    /\ name'    = None
    /\ conf'    = NoTags
    /\ taken'   = NoTags
    /\ dirty'   = FALSE
    /\ overlap' = FALSE
    /\ renamed' = FALSE
    /\ cache'   = [k \in Keys |-> IF k[1] = name /\ taken[k[2]] # Unset THEN None ELSE cache[k]]
    /\ behind'  = {k \in behind : cache'[k] # None}
    /\ Unheard(Keys)
    /\ UNCHANGED <<reader, report, im>>

\* neu_adapter_driver_del_group.
DelGroup ==
    /\ AdapterFree /\ reader.pc = "idle" /\ name # None
    /\ name'    = None
    /\ conf'    = NoTags
    /\ taken'   = NoTags
    /\ dirty'   = FALSE
    /\ overlap' = FALSE
    /\ renamed' = FALSE
    /\ cache'   = [k \in Keys |-> IF k[1] = name /\ taken[k[2]] # Unset THEN None ELSE cache[k]]
    /\ behind'  = {k \in behind : cache'[k] # None}
    /\ Unheard(Keys)
    /\ UNCHANGED <<reader, report, im>>

-----------------------------------------------------------------------------
(* The driver's thread: read_callback.                                     *)

\* neu_group_change_test makes its arrays.
SplitGroup ==
    /\ reader.pc = "idle" /\ name # None /\ dirty
    /\ reader'  = [pc |-> "split", split |-> Split(conf)]
    /\ overlap' = FALSE
    /\ UNCHANGED <<name, conf, dirty, taken, cache, report, im, apps, renamed, behind, crossed>>

\* It reads the timestamp only now; group_change empties the cache.
PurgeCache ==
    /\ reader.pc = "split"
    /\ dirty'  = FALSE
    /\ reader' = [reader EXCEPT !.pc = "purged"]
    /\ cache'  = [k \in Keys |-> IF k[1] = name /\ taken[k[2]] # Unset THEN None ELSE cache[k]]
    /\ behind' = {k \in behind : cache'[k] # None}
    /\ UNCHANGED <<name, conf, taken, report, im, apps, overlap, renamed, crossed>>

\* Slip: the static tags are not added.
FillOthers ==
    /\ reader.pc = "purged"
    /\ taken'  = reader.split
    /\ reader' = [pc |-> "idle", split |-> NoTags]
    /\ cache'  = [k \in Keys |-> IF k[1] = name /\ taken'[k[2]] \in Readable
                                 THEN Fresh(Error) ELSE cache[k]]
    /\ behind' = {k \in behind : k[1] # name \/ taken'[k[2]] = Unset}
    /\ renamed' = FALSE
    /\ Unheard({k \in Keys : k[1] = name})
    /\ UNCHANGED <<name, conf, dirty, report, im, overlap>>

\* group_change adds the entries and gives the plugin its new tags.
FillCache ==
    /\ reader.pc = "purged"
    /\ taken'  = reader.split
    /\ reader' = [pc |-> "idle", split |-> NoTags]
    /\ cache'  = [k \in Keys |-> IF k[1] = name /\ taken'[k[2]] # Unset
                                 THEN Fresh(taken'[k[2]].val) ELSE cache[k]]
    /\ behind' = {k \in behind : k[1] # name \/ taken'[k[2]] = Unset}
    /\ renamed' = FALSE
    /\ Unheard({k \in Keys : k[1] = name})
    /\ UNCHANGED <<name, conf, dirty, report, im, overlap>>

-----------------------------------------------------------------------------
(* Sending: read_report_group, for report_callback and for update_im.      *)

\* Of a SUBSCRIBE tag only a marked entry is sent, and the mark is removed
\* unless it is of an error; of any other tag a missing entry is an error.
Skips(k, sub)  == sub /\ (cache[k] = None \/ ~cache[k].changed)
Clears(k, sub) == sub /\ cache[k].val # Error

Message(k, limit) ==
    IF cache[k] = None                               THEN Error
    ELSE IF limit /\ cache[k].expired /\ cache[k].val # Error THEN "expired"
    ELSE cache[k].val

\* Sender r has done k: it holds the message of k, unless k is skipped.
Took(r, k, sub, limit) ==
    [todo |-> r.todo \ {k},
     sent |-> IF Skips(k, sub) THEN r.sent ELSE [r.sent EXCEPT ![k] = Message(k, limit)]]

Unmarked(k, sub) ==
    IF ~Skips(k, sub) /\ Clears(k, sub)
    THEN [cache EXCEPT ![k].changed = FALSE] ELSE cache

Crossed(k, sub, other) ==
    IF Skips(k, sub) THEN crossed
    ELSE IF k \in Holds(other) THEN crossed \cup {k} ELSE crossed \ {k}

\* The applications hear what sender r holds.
Heard(r) == [k \in Keys |-> IF k \in Holds(r) THEN r.sent[k] ELSE apps[k]]

\* report_callback begins, with what the group's tags are now.
Report ==
    /\ AdapterFree /\ name # None
    /\ ReadTags(conf) # {}
    /\ report' = [report EXCEPT !.todo = {name} \X ReadTags(conf)]
    /\ UNCHANGED <<name, conf, dirty, taken, reader, cache, im, history>>

\* One tag of it; the age of a static tag does not matter.
ReportTag(k) ==
    LET sub == conf[k[2]].attr = "subscribe" IN
    /\ k \in report.todo
    /\ report'  = Took(report, k, sub, conf[k[2]] \notin Static)
    /\ cache'   = Unmarked(k, sub)
    /\ crossed' = Crossed(k, sub, im)
    /\ UNCHANGED <<name, conf, dirty, taken, reader, im, apps, overlap, renamed, behind>>

ReportSend ==
    /\ Busy(report) /\ report.todo = {}
    /\ apps'   = Heard(report)
    /\ report' = Idle
    /\ UNCHANGED <<name, conf, dirty, taken, reader, cache, im, overlap, renamed, behind, crossed>>

-----------------------------------------------------------------------------
(* The plugin's thread.  A plugin puts values into the tags it was given,  *)
(* none of them static, now or at any later time.                          *)

\* update, update_with_meta.
Update(n, t, v) ==
    /\ taken[t] \notin Static
    /\ cache' = Updated({<<n, t>>}, v, FALSE)
    /\ UNCHANGED <<name, conf, dirty, taken, reader, report, im, history>>

\* The same with an error and no tag: all tags of the group but the static.
UpdateGroup ==
    /\ name # None
    /\ cache' = Updated({<<name, t>> : t \in {u \in Tags : conf[u] \in Readable}}, Error, FALSE)
    /\ UNCHANGED <<name, conf, dirty, taken, reader, report, im, history>>

\* update_im: the entry is marked in any case, and sent of a SUBSCRIBE tag.
UpdateIm(t, v) ==
    /\ ~Busy(im)
    /\ conf[t] # Unset /\ taken[t] \notin Static
    /\ cache' = Updated({<<name, t>>}, v, TRUE)
    /\ im'    = IF conf[t].attr = "subscribe" THEN [im EXCEPT !.todo = {<<name, t>>}] ELSE im
    /\ UNCHANGED <<name, conf, dirty, taken, reader, report, history>>

ImTag(k) ==
    /\ k \in im.todo
    /\ im'      = Took(im, k, TRUE, FALSE)
    /\ cache'   = Unmarked(k, TRUE)
    /\ crossed' = Crossed(k, TRUE, report)
    /\ UNCHANGED <<name, conf, dirty, taken, reader, report, apps, overlap, renamed, behind>>

ImSend ==
    /\ Holds(im) # {}
    /\ apps' = Heard(im)
    /\ im'   = Idle
    /\ UNCHANGED <<name, conf, dirty, taken, reader, cache, report, overlap, renamed, behind, crossed>>

-----------------------------------------------------------------------------
\* More time passes than NEU_DRIVER_TAG_CACHE_EXPIRE_TIME intervals.
Expire(k) ==
    /\ cache[k] # None /\ ~cache[k].expired
    /\ cache' = [cache EXCEPT ![k].expired = TRUE]
    /\ UNCHANGED <<name, conf, dirty, taken, reader, report, im, history>>

AdapterThread ==
    \/ \E n \in Names : AddGroup(n)
    \/ \E n \in Names, t \in Tags, c \in Confs : AddTag(n, t, c)
    \/ \E t \in Tags, c \in Confs : UpdateTag(t, c)
    \/ \E t \in Tags : DelTag(t)
    \/ \E t \in Tags, v \in Values : WriteStatic(t, v)
    \/ \E n \in Names : Rename(n)
    \/ DelGroup
    \/ Report
    \/ \E k \in Keys : ReportTag(k)
    \/ ReportSend

DriverThread == SplitGroup \/ PurgeCache \/ FillCache

PluginThread ==
    \/ \E n \in Names, t \in Tags, v \in Values \cup {Error} : Update(n, t, v)
    \/ UpdateGroup
    \/ \E t \in Tags, v \in Values : UpdateIm(t, v)
    \/ \E k \in Keys : ImTag(k)
    \/ ImSend

Next == AdapterThread \/ DriverThread \/ PluginThread \/ \E k \in Keys : Expire(k)

Spec == Init /\ [][Next]_vars

-----------------------------------------------------------------------------
(* Properties.                                                             *)

Senders  == [todo : SUBSET Keys, sent : [Keys -> Values \cup {Error, "expired", None}]]

\* Types, and what a driver without a group has.
TypeOK ==
    /\ name \in Names \cup {None}
    /\ conf \in [Tags -> Readable \cup Static \cup WriteOnly \cup {Unset}]
    /\ taken \in [Tags -> Readable \cup Static \cup {Unset}]
    /\ reader \in [pc : {"idle", "split", "purged"}, split : [Tags -> Readable \cup Static \cup {Unset}]]
    /\ cache \in [Keys -> Entries \cup {None}]
    /\ report \in Senders /\ im \in Senders
    /\ {dirty, overlap, renamed} \subseteq BOOLEAN
    /\ apps \in [Keys -> Values \cup {Error, "expired", None}]
    /\ behind \subseteq Keys /\ crossed \subseteq Keys
    /\ name = None => conf = NoTags /\ taken = NoTags /\ reader.pc = "idle"

\* read_callback misses no change: once it has taken one, the plugin reads
\* the group as it is, unless the change came while it took the one before.
ChangeIsTaken ==
    reader.pc = "idle" /\ ~dirty /\ ~overlap => taken = Split(conf)

\* The tags the driver reads are in the cache, and a static tag has the value
\* last written to it; until the group is renamed.
GroupIsCached ==
    reader.pc # "purged" /\ ~renamed =>
        \A t \in Tags : taken[t] # Unset =>
            /\ cache[<<name, t>>] # None
            /\ taken[t] \in Static /\ ~dirty /\ ~overlap
                  => cache[<<name, t>>].val = conf[t].val

\* An entry does not outlive its tag or its group, although a plugin goes on
\* updating it; only renaming leaves entries behind.
EntriesAreOwned ==
    \A k \in Keys \ behind : cache[k] # None => k[1] = name /\ taken[k[2]] # Unset

\* No change of a SUBSCRIBE tag is lost between the threads that set, remove
\* and send its mark: an entry without a mark is what the applications heard
\* last, or is being sent.  It can be lost by its age, and by two threads
\* that send the tag at once.
UnmarkedIsHeard ==
    \A t \in Exact \cup Bytes :
        LET k == <<name, t>> IN
        /\ taken[t].attr = "subscribe" /\ ~renamed
        /\ cache[k] # None /\ ~cache[k].changed /\ cache[k].val # Error
        /\ k \notin Holds(report) \cup Holds(im) \cup crossed
        => apps[k] \in {cache[k].val, "expired"}

-----------------------------------------------------------------------------
(* The inductive invariant.                                                *)

\* What the driver has split is the group, unless it changed meanwhile.
SplitIsCurrent ==
    /\ reader.pc = "split" => dirty
    /\ reader.pc = "split" /\ ~overlap => reader.split = Split(conf)
    /\ reader.pc = "purged" /\ ~overlap /\ ~dirty => reader.split = Split(conf)

\* Between emptying and filling the cache only what was left behind is in it.
PurgedIsEmpty ==
    reader.pc = "purged" => \A k \in Keys \ behind : cache[k] = None

\* The entry of a SUBSCRIBE tag whose change is not waiting to be sent.
Told(k) ==
    /\ k[1] = name /\ taken[k[2]].attr = "subscribe" /\ ~renamed
    /\ cache[k] # None /\ ~cache[k].changed /\ cache[k].val # Error
    /\ k \notin crossed

\* Its value was heard, or is held by one of the senders and not by both.
ToldIsSent ==
    \A k \in Names \X (Exact \cup Bytes) :
        LET heard == {cache[k].val, "expired"}
        IN  Told(k) =>
              \/ k \notin Holds(report) \cup Holds(im) /\ apps[k] \in heard
              \/ k \in Holds(report) \ Holds(im) /\ report.sent[k] \in heard
              \/ k \in Holds(im) \ Holds(report) /\ im.sent[k] \in heard

IInv == TypeOK /\ ChangeIsTaken /\ GroupIsCached /\ EntriesAreOwned
        /\ SplitIsCurrent /\ PurgedIsEmpty /\ ToldIsSent
=============================================================================
