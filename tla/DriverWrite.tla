---------------------------- MODULE DriverWrite ----------------------------
(***************************************************************************)
(* How a driver writes tags and counts them (driver.c, and the requests of *)
(* adapter_loop that lead there).  Three threads meet at the write queue   *)
(* of a group.                                                             *)
(*                                                                         *)
(*   - The adapter's thread handles one request after another: writes are  *)
(*     checked and refused, done at once (static tags) or put on the       *)
(*     queue; groups and tags come and go; the driver starts and stops.    *)
(*   - The driver's thread, every 100 ms, gives what is queued to the      *)
(*     plugin, holding the mutex of the queue all the while.               *)
(*   - The plugin answers a write whenever it likes, also before its       *)
(*     function has returned, and the answer frees the request.            *)
(*                                                                         *)
(* There is one group, which may be deleted and added again.  Values are   *)
(* not modelled.  neu_event_del_timer is taken to wait for the callback    *)
(* and to prevent another, which EventLoop shows with the exception it     *)
(* names.  No plugin of type driver can be registered in this version:     *)
(* this is how the code behaves once one is.                               *)
(***************************************************************************)
EXTENDS Naturals, SequencesExt

CONSTANTS
    Tags,     \* names of tags
    Invalid,  \* those that neu_adapter_driver_validate_tag rejects
    Lists,    \* what one ADD_TAG request asks for: sequences of tag names
    Reqs,     \* write requests
    Single,   \* those of type WRITE_TAG, the others being WRITE_TAGS
    Wants,    \* the names a request writes
    None,     \* no request
    Changes   \* bound on the changes of groups and tags

ASSUME WriteAssumption ==
    /\ Invalid \subseteq Tags
    /\ Lists \subseteq Seq(Tags)
    /\ Single \subseteq Reqs
    /\ Wants \in [Reqs -> SUBSET Tags]
    /\ \A r \in Single : \E t \in Tags : Wants[r] = {t}
    /\ None \notin Reqs
    /\ Changes \in Nat

VARIABLES
    up,        \* the driver exists, and the process has not died
    running,   \* adapter.state is RUNNING
    group,     \* the group exists
    attr,      \* tag -> its attributes; the domain is the group's tags
    reserved,  \* what the plugin counts: add_tags less del_tags
    tag_cnt,   \* driver->tag_cnt
    queue,     \* wt_tags
    writer,    \* write_callback: "idle", "checked", "writing"
    at,        \* how many of the queue it has given to the plugin
    releasing, \* the request whose tags write_tags is about to free, or None
    pending,   \* requests the plugin has to answer
    answers,   \* history: how often each request was answered
    accepted,  \* history: the requests queued, in order
    given,     \* history: the requests given to the plugin, in order
    lost,      \* history: the requests deleted with their group
    uncounted, \* history: the tags that were deleted with their group
    left       \* changes of groups and tags still to come

vars == <<up, running, group, attr, reserved, tag_cnt, queue, writer, at,
          releasing, pending, answers, accepted, given, lost, uncounted, left>>

Attributes == SUBSET {"write", "static"}

Seen == {r \in Reqs : answers[r] > 0} \cup Range(accepted)

Init ==
    /\ up = TRUE
    /\ running = FALSE
    /\ group = FALSE
    /\ attr = <<>>
    /\ reserved = 0
    /\ tag_cnt = 0
    /\ queue = <<>>
    /\ writer = "idle"
    /\ at = 0
    /\ releasing = None
    /\ pending = {}
    /\ answers = [r \in Reqs |-> 0]
    /\ accepted = <<>>
    /\ given = <<>>
    /\ lost = {}
    /\ uncounted = 0
    /\ left = Changes

-----------------------------------------------------------------------------
(* The adapter's thread.  Between two requests it is free.                 *)

Free == up /\ releasing = None

Answered(r) == answers' = [answers EXCEPT ![r] = @ + 1]

\* NODE_CTL.  A plugin may refuse, which changes nothing.
StartStop ==
    /\ Free
    /\ running' = ~running
    /\ UNCHANGED <<up, group, attr, reserved, tag_cnt, queue, writer,
                   at, releasing, pending, answers, accepted, given, lost,
                   uncounted, left>>

\* A write that is answered by the adapter itself: it is refused, or the one
\* tag it is for is static.
Refused(r) ==
    \/ ~running
    \/ ~group
    \/ \E t \in Wants[r] :
          t \in DOMAIN attr =>
             \/ "write" \notin attr[t]
             \/ r \notin Single /\ "static" \in attr[t]

AtOnce(r) ==
    r \in Single /\ \A t \in Wants[r] : t \in DOMAIN attr /\ "static" \in attr[t]

Respond(r) ==
    /\ Free
    /\ r \notin Seen
    /\ Refused(r) \/ AtOnce(r)
    /\ Answered(r)
    /\ UNCHANGED <<up, running, group, attr, reserved, tag_cnt, queue,
                   writer, at, releasing, pending, accepted, given, lost,
                   uncounted, left>>

\* store_write_tag; the mutex is free unless the writer is between two tags.
MutexFree == writer # "writing"

Store(r) ==
    /\ Free /\ MutexFree
    /\ r \notin Seen
    /\ ~Refused(r) /\ ~AtOnce(r)
    /\ queue' = Append(queue, r)
    /\ accepted' = Append(accepted, r)
    /\ releasing' = IF r \in Single THEN None ELSE r
    /\ UNCHANGED <<up, running, group, attr, reserved, tag_cnt, writer,
                   at, pending, answers, given, lost, uncounted, left>>

\* write_tags frees cmd->tags after the request was queued.  If it was
\* answered meanwhile the request itself is freed memory: what is read from
\* it may still be the pointer, or the process dies.
FreeTags ==
    /\ up
    /\ releasing # None
    /\ releasing' = None
    /\ up' \in IF answers[releasing] > 0 THEN BOOLEAN ELSE {TRUE}
    /\ UNCHANGED <<running, group, attr, reserved, tag_cnt, queue, writer,
                   at, pending, answers, accepted, given, lost, uncounted, left>>

-----------------------------------------------------------------------------
(* Groups and tags.                                                        *)

Change == Free /\ left > 0 /\ left' = left - 1

AddGroup ==
    /\ Change
    /\ group' = TRUE
    /\ UNCHANGED <<up, running, attr, reserved, tag_cnt, queue, writer,
                   at, releasing, pending, answers, accepted, given, lost,
                   uncounted>>

\* ADD_TAG: as many tags as are valid are announced to the plugin, which may
\* refuse them; then they are added one by one until a name exists, and what
\* was announced beyond it is taken back.
ValidPrefix(l, n) ==
    /\ n \in 0 .. Len(l)
    /\ \A j \in 1 .. n : l[j] \notin Invalid
    /\ n < Len(l) => l[n + 1] \in Invalid

Fresh(l, j) ==
    l[j] \notin DOMAIN attr /\ \A k \in 1 .. j - 1 : l[k] # l[j]

NewPrefix(l, n, i) ==
    /\ i \in 0 .. n
    /\ \A j \in 1 .. i : Fresh(l, j)
    /\ i < n => ~Fresh(l, i + 1)

\* Slip: the tags behind the first that exists stay announced.
NothingTakenBack(n, i) == reserved + n

TakenBack(n, i) == reserved + n - (n - i)

Names(l, i) == {l[j] : j \in 1 .. i}

AddTags(l, a) ==
    /\ Change
    /\ group' = TRUE
    /\ \E n \in 1 .. Len(l) : \E i \in 0 .. n :
          /\ ValidPrefix(l, n) /\ NewPrefix(l, n, i)
          /\ attr' = [t \in DOMAIN attr \cup Names(l, i) |->
                         IF t \in DOMAIN attr THEN attr[t] ELSE a]
          /\ reserved' = TakenBack(n, i)
          /\ tag_cnt' = tag_cnt + i
    /\ UNCHANGED <<up, running, queue, writer, at, releasing, pending,
                   answers, accepted, given, lost, uncounted>>

UpdateTag(t, a) ==
    /\ Change
    /\ t \in DOMAIN attr \ Invalid
    /\ attr' = [attr EXCEPT ![t] = a]
    /\ UNCHANGED <<up, running, group, reserved, tag_cnt, queue, writer,
                   at, releasing, pending, answers, accepted, given, lost,
                   uncounted>>

\* Slip: a name that the group has not is counted too.
DelTagCounted(t) ==
    /\ Change
    /\ attr' = [u \in DOMAIN attr \ {t} |-> attr[u]]
    /\ reserved' = reserved - 1
    /\ tag_cnt' = tag_cnt - 1
    /\ UNCHANGED <<up, running, group, queue, writer, at, releasing, pending,
                   answers, accepted, given, lost, uncounted>>

DelTag(t) ==
    /\ Change
    /\ t \in DOMAIN attr
    /\ attr' = [u \in DOMAIN attr \ {t} |-> attr[u]]
    /\ reserved' = reserved - 1
    /\ tag_cnt' = tag_cnt - 1
    /\ UNCHANGED <<up, running, group, queue, writer, at, releasing, pending,
                   answers, accepted, given, lost, uncounted>>

\* Slip: the group is freed while its callback is still writing.
TimerIgnored == TRUE

\* Deleting the write timer waits for its callback.
TimerIdle == writer = "idle"

\* The writes still queued go with the group and are never answered.
GroupFreed ==
    /\ TimerIdle
    /\ group' = FALSE
    /\ attr' = <<>>
    /\ reserved' = reserved - Cardinality(DOMAIN attr)
    /\ queue' = <<>>
    /\ lost' = lost \cup Range(queue)
    /\ uncounted' = uncounted + Cardinality(DOMAIN attr)
    /\ UNCHANGED <<running, tag_cnt, writer, at, releasing, pending, answers,
                   accepted, given>>

DelGroup == Change /\ group /\ GroupFreed /\ UNCHANGED up

\* NODE_UNINIT deletes every group in the same way.
Uninit == Free /\ GroupFreed /\ up' = FALSE /\ UNCHANGED left

-----------------------------------------------------------------------------
(* The driver's thread: write_callback.                                    *)

Callback == UNCHANGED <<up, running, group, attr, reserved, tag_cnt,
                        releasing, answers, accepted, lost, uncounted, left>>

WriteCheck ==
    /\ up /\ group /\ running
    /\ writer = "idle"
    /\ writer' = "checked"
    /\ UNCHANGED <<queue, at, pending, given>>
    /\ Callback

WriteLock ==
    /\ up
    /\ writer = "checked"
    /\ writer' = "writing"
    /\ at' = 0
    /\ UNCHANGED <<queue, pending, given>>
    /\ Callback

\* Slip: the next tag is written when the plugin has answered the last one.
WriteOneAnswered ==
    /\ up
    /\ writer = "writing" /\ at < Len(queue)
    /\ pending = {}
    /\ at' = at + 1
    /\ given' = Append(given, queue[at'])
    /\ pending' = pending \cup {queue[at']}
    /\ UNCHANGED <<queue, writer>>
    /\ Callback

WriteOne ==
    /\ up
    /\ writer = "writing" /\ at < Len(queue)
    /\ at' = at + 1
    /\ given' = Append(given, queue[at'])
    /\ pending' = pending \cup {queue[at']}
    /\ UNCHANGED <<queue, writer>>
    /\ Callback

\* Slip: the queue is not cleared after it was written.
Kept(q) == q

Cleared(q) == <<>>

WriteEnd ==
    /\ up
    /\ writer = "writing" /\ at = Len(queue)
    /\ writer' = "idle"
    /\ at' = 0
    /\ queue' = Cleared(queue)
    /\ UNCHANGED <<pending, given>>
    /\ Callback

-----------------------------------------------------------------------------
(* The plugin: write_response, once for each write it was given.           *)
Answer(r) ==
    /\ up
    /\ r \in pending
    /\ pending' = pending \ {r}
    /\ Answered(r)
    /\ UNCHANGED <<up, running, group, attr, reserved, tag_cnt, queue,
                   writer, at, releasing, accepted, given, lost, uncounted, left>>

-----------------------------------------------------------------------------
AdapterThread ==
    \/ StartStop
    \/ \E r \in Reqs : Respond(r) \/ Store(r)
    \/ FreeTags
    \/ AddGroup
    \/ \E l \in Lists, a \in Attributes : AddTags(l, a)
    \/ \E t \in Tags, a \in Attributes : UpdateTag(t, a)
    \/ \E t \in Tags : DelTag(t)
    \/ DelGroup \/ Uninit

DriverThread == WriteCheck \/ WriteLock \/ WriteOne \/ WriteEnd

Next ==
    \/ AdapterThread
    \/ DriverThread
    \/ \E r \in Reqs : Answer(r)

\* The timer fires again and again (TimerFires of EventLoop) and a plugin's
\* write function returns.
Spec == Init /\ [][Next]_vars /\ WF_vars(DriverThread)

-----------------------------------------------------------------------------
(* Properties.                                                             *)

\* Every variable has its type.
TypeOK ==
    /\ {up, running, group} \subseteq BOOLEAN
    /\ DOMAIN attr \subseteq Tags
    /\ attr \in [DOMAIN attr -> Attributes]
    /\ {reserved, tag_cnt, uncounted, left} \subseteq Nat
    /\ {queue, accepted, given} \subseteq Seq(Reqs)
    /\ writer \in {"idle", "checked", "writing"}
    /\ at \in 0 .. Len(queue)
    /\ releasing \in Reqs \cup {None}
    /\ pending \cup lost \subseteq Reqs
    /\ answers \in [Reqs -> Nat]

Behind(q, n) == SubSeq(q, n + 1, Len(q))

Waiting == Behind(queue, at)

\* The requests given to the plugin and behind them those that wait.
Line == given \o Waiting

Before(s, a, b) == \E i, j \in DOMAIN s : i < j /\ s[i] = a /\ s[j] = b

\* What was queued reaches the plugin once and in the order of the requests,
\* or it waits, or its group was deleted first: store_write_tag,
\* write_callback and the deletion of a group against each other.
ServedInOrder ==
    /\ IsInjective(accepted) /\ IsInjective(Line)
    /\ Range(Line) = Range(accepted) \ lost
    /\ \A a, b \in Reqs : Before(Line, a, b) => Before(accepted, a, b)

\* A request is answered once at most, by the adapter if it was not queued
\* and by the plugin if it was: the request is freed with its answer.
AnsweredOnce ==
    \A r \in Reqs :
        /\ answers[r] <= 1
        /\ r \in pending => answers[r] = 0
        /\ answers[r] = 1 /\ r \in Range(accepted) => r \in Range(given)

\* The plugin has been announced as many tags as there are, whatever part of
\* a list was added; the driver's own count keeps those that were deleted
\* with their group (neu_adapter_driver_del_group does not take them off).
CountsAgree ==
    /\ reserved = Cardinality(DOMAIN attr)
    /\ tag_cnt = reserved + uncounted

\* Only a writer that holds the mutex is somewhere in the queue.
AtStart == writer # "writing" => at = 0

\* What the plugin has to answer it was given, and only what was queued can
\* go with a group.
Known == pending \subseteq Range(given) /\ lost \subseteq Range(accepted)

\* The inductive invariant.
IInv ==
    /\ TypeOK /\ AtStart /\ Known
    /\ ServedInOrder /\ AnsweredOnce
    /\ IsFiniteSet(DOMAIN attr) /\ CountsAgree

\* If the driver runs for good, what is queued leaves the queue: the timer's
\* callback depends neither on the plugin's answers nor on new requests.
QueuedIsWritten ==
    <>[](up /\ running) =>
        \A r \in Reqs : r \in Range(Waiting) ~> r \notin Range(Waiting)
=============================================================================
