-------------------------- MODULE DriverReadProofs --------------------------
(***************************************************************************)
(* Proofs about DriverRead, for any tags, names of the group, attributes   *)
(* and values, and any order of the three threads.                         *)
(***************************************************************************)
EXTENDS DriverRead, TLAPS

Cached == Entries \cup {None}
Given  == Readable \cup Static \cup {Unset}
Marked == Names \X (Exact \cup Bytes)

\* The marked entries are some of all.
LEMMA MarkedAreKeys == Marked \subseteq Keys
BY ReadAssumption DEF Marked, Keys, Exact

\* What was sent is sent: nothing that matters to it has changed.
LEMMA ToldStays ==
      ASSUME ToldIsSent, UNCHANGED <<apps, report.sent, im.sent>>,
             \A k \in Marked : Told(k)' => Told(k) /\ cache'[k].val = cache[k].val
      PROVE  ToldIsSent'
<1>1. ASSUME NEW k \in Marked, Told(k)'
      PROVE  LET heard == {cache'[k].val, "expired"}
             IN  \/ k \notin Holds(report)' \cup Holds(im)' /\ apps'[k] \in heard
                 \/ k \in Holds(report)' \ Holds(im)' /\ report'.sent[k] \in heard
                 \/ k \in Holds(im)' \ Holds(report)' /\ im'.sent[k] \in heard
  <2>1. Told(k) /\ cache'[k].val = cache[k].val
    BY <1>1
  <2>2. LET heard == {cache[k].val, "expired"}
        IN  \/ k \notin Holds(report) \cup Holds(im) /\ apps[k] \in heard
            \/ k \in Holds(report) \ Holds(im) /\ report.sent[k] \in heard
            \/ k \in Holds(im) \ Holds(report) /\ im.sent[k] \in heard
    BY <2>1 DEF ToldIsSent, Marked
  <2>3. Holds(report)' = Holds(report) /\ Holds(im)' = Holds(im)
    BY DEF Holds
  <2>4. QED
    BY <2>1, <2>2, <2>3
<1>2. QED
  BY <1>1 DEF ToldIsSent, Marked

\* update_timestamp, by where read_callback is.
LEMMA StampedShape ==
      ASSUME TypeOK, Stamped
      PROVE  /\ dirty' = TRUE /\ overlap' \in BOOLEAN
             /\ reader.pc = "split" => overlap' = TRUE
<1>1. reader.pc \in {"idle", "split", "purged"} /\ overlap \in BOOLEAN
  BY DEF TypeOK
<1>2. CASE reader.pc = "idle"
  BY <1>1, <1>2 DEF Stamped
<1>3. CASE reader.pc = "split"
  BY <1>1, <1>3 DEF Stamped
<1>4. CASE reader.pc = "purged"
  BY <1>1, <1>4 DEF Stamped
<1>5. QED
  BY <1>1, <1>2, <1>3, <1>4

\* A change that is stamped will be taken.
LEMMA ChangeWillBeTaken ==
      ASSUME TypeOK, Stamped, UNCHANGED reader
      PROVE  ChangeIsTaken' /\ SplitIsCurrent'
BY StampedShape DEF ChangeIsTaken, SplitIsCurrent

\* A tag that is not set.
LEMMA UnsetShape ==
      /\ Unset \notin Readable \cup Static
      /\ Unset.attr # "subscribe"
      /\ \A t \in Tags : NoTags[t] = Unset
      /\ NoTags \in [Tags -> Given]
      /\ Split(NoTags) = NoTags
<1>1. Unset \notin Readable \cup Static
  BY DEF Unset, Readable, Static
<1>2. Unset.attr # "subscribe"
  BY DEF Unset
<1>3. /\ \A t \in Tags : NoTags[t] = Unset
      /\ NoTags \in [Tags -> Given]
  BY DEF NoTags, Given
<1>4. Split(NoTags) = NoTags
  BY <1>1, <1>3 DEF Split, ReadTags, NoTags
<1>5. QED
  BY <1>1, <1>2, <1>3, <1>4

\* Without a group only what was left behind is cached.
LEMMA NoGroup ==
      ASSUME IInv, name = None
      PROVE  /\ conf = NoTags /\ taken = NoTags /\ reader.pc = "idle"
             /\ \A k \in Keys \ behind : cache[k] = None
             /\ \A t \in Tags : taken[t] = Unset
             /\ \A k \in Keys : taken[k[2]].attr # "subscribe"
<1>1. conf = NoTags /\ taken = NoTags /\ reader.pc = "idle"
  BY DEF IInv, TypeOK
<1>2. \A k \in Keys : k[1] # None /\ k[2] \in Tags
  BY ReadAssumption DEF Keys
<1>3. QED
  BY <1>1, <1>2, UnsetShape DEF IInv, EntriesAreOwned

\* neu_adapter_driver_add_tag, update_tag, del_tag: the group's tags change.
LEMMA TagsChange ==
      ASSUME IInv, conf' \in [Tags -> Readable \cup Static \cup WriteOnly \cup {Unset}],
             name' \in Names, name' = name \/ name = None, Stamped,
             UNCHANGED <<taken, reader, cache, report, im, apps, renamed, behind, crossed>>
      PROVE  IInv'
<1>1. TypeOK /\ dirty' = TRUE /\ overlap' \in BOOLEAN
  BY StampedShape DEF IInv
<1>2. name' # None
  BY ReadAssumption
<1>3. TypeOK'
  BY <1>1, <1>2 DEF TypeOK
<1>4. ChangeIsTaken' /\ SplitIsCurrent'
  BY <1>1, ChangeWillBeTaken
<1>5. GroupIsCached'
  <2>1. CASE name' = name
    BY <1>1, <2>1 DEF IInv, GroupIsCached
  <2>2. CASE name = None
    BY <2>2, NoGroup DEF GroupIsCached
  <2>3. QED
    BY <2>1, <2>2
<1>6. EntriesAreOwned'
  <2>1. CASE name' = name
    BY <2>1 DEF IInv, EntriesAreOwned
  <2>2. CASE name = None
    BY <2>2, NoGroup DEF EntriesAreOwned
  <2>3. QED
    BY <2>1, <2>2
<1>7. PurgedIsEmpty'
  BY DEF IInv, PurgedIsEmpty
<1>8. ToldIsSent'
  <2>1. ASSUME NEW k \in Marked, Told(k)'
        PROVE  Told(k) /\ cache'[k].val = cache[k].val
    <3>1. k \in Keys /\ taken[k[2]].attr = "subscribe"
      BY <2>1, MarkedAreKeys DEF Told
    <3>2. name' = name
      BY <3>1, NoGroup
    <3>3. QED
      BY <2>1, <3>2 DEF Told
  <2>2. QED
    BY <2>1, ToldStays DEF IInv
<1>9. QED
  BY <1>3, <1>4, <1>5, <1>6, <1>7, <1>8 DEF IInv

\* A tag is added.
LEMMA AddTagKeepsIInv ==
      ASSUME IInv, NEW n \in Names, NEW t \in Tags, NEW c \in Confs, AddTag(n, t, c)
      PROVE  IInv'
<1>1. conf' \in [Tags -> Readable \cup Static \cup WriteOnly \cup {Unset}]
  BY DEF AddTag, IInv, TypeOK, Confs
<1>2. QED
  BY <1>1, TagsChange DEF AddTag

\* A tag is updated.
LEMMA UpdateTagKeepsIInv ==
      ASSUME IInv, NEW t \in Tags, NEW c \in Confs, UpdateTag(t, c)
      PROVE  IInv'
<1>1. conf' \in [Tags -> Readable \cup Static \cup WriteOnly \cup {Unset}]
  BY DEF UpdateTag, IInv, TypeOK, Confs
<1>2. name \in Names
  BY NoGroup, UnsetShape DEF UpdateTag, IInv, TypeOK
<1>3. QED
  BY <1>1, <1>2, TagsChange DEF UpdateTag

\* A tag is deleted.
LEMMA DelTagKeepsIInv ==
      ASSUME IInv, NEW t \in Tags, DelTag(t)
      PROVE  IInv'
<1>1. conf' \in [Tags -> Readable \cup Static \cup WriteOnly \cup {Unset}]
  BY DEF DelTag, IInv, TypeOK
<1>2. name \in Names
  BY NoGroup, UnsetShape DEF DelTag, IInv, TypeOK
<1>3. QED
  BY <1>1, <1>2, TagsChange DEF DelTag

\* A group is added.
LEMMA AddGroupKeepsIInv ==
      ASSUME IInv, NEW n \in Names, AddGroup(n)
      PROVE  IInv'
<1>1. /\ name = None /\ name' = n
      /\ UNCHANGED <<conf, dirty, taken, reader, cache, report, im,
                     apps, overlap, renamed, behind, crossed>>
  BY DEF AddGroup, history
<1>2. n # None
  BY ReadAssumption
<1>3. TypeOK'
  BY <1>1, <1>2 DEF IInv, TypeOK
<1>4. ChangeIsTaken' /\ SplitIsCurrent'
  BY <1>1 DEF IInv, ChangeIsTaken, SplitIsCurrent, Split, ReadTags
<1>5. GroupIsCached' /\ EntriesAreOwned'
  BY <1>1, NoGroup DEF GroupIsCached, EntriesAreOwned
<1>6. PurgedIsEmpty'
  BY <1>1 DEF IInv, PurgedIsEmpty
<1>7. ToldIsSent'
  <2>1. \A k \in Marked : ~ Told(k)'
    BY <1>1, NoGroup, MarkedAreKeys DEF Told
  <2>2. QED
    BY <1>1, <2>1, ToldStays DEF IInv
<1>8. QED
  BY <1>3, <1>4, <1>5, <1>6, <1>7 DEF IInv

(***************************************************************************)
(* Values in the cache.                                                    *)
(***************************************************************************)

\* A cache in which v was put into ks.
IsUpdate(new, ks, v) == new = Updated(ks, v, FALSE) \/ new = Updated(ks, v, TRUE)

\* neu_driver_cache_update_change: no entry comes or goes, and a value that
\* was changed is marked.
LEMMA UpdatedShape ==
      ASSUME cache \in [Keys -> Cached], NEW ks,
             NEW v \in Values \cup {Error}, NEW new, IsUpdate(new, ks, v)
      PROVE  /\ new \in [Keys -> Cached]
             /\ \A k \in Keys :
                   /\ new[k] = None <=> cache[k] = None
                   /\ k \notin ks => new[k] = cache[k]
                   /\ k \in ks /\ cache[k] # None => new[k].val = v
             /\ \A k \in Marked :
                   new[k] # None /\ ~new[k].changed /\ new[k].val # Error
                   => ~cache[k].changed /\ cache[k].val = new[k].val
<1>1. ASSUME NEW k \in Keys, k \in ks, cache[k] # None
      PROVE  /\ new[k] \in Entries /\ new[k].val = v
             /\ Mark(k[2], cache[k], v) => new[k].changed
  <2>1. cache[k] \in Entries
    BY <1>1 DEF Cached
  <2>2. Mark(k[2], cache[k], v) \in BOOLEAN
    BY <2>1 DEF Mark, Entries
  <2> DEFINE new1 == [val |-> v, expired |-> v = Error,
                      changed |-> FALSE \/ Mark(k[2], cache[k], v)]
             new2 == [val |-> v, expired |-> v = Error,
                      changed |-> TRUE \/ Mark(k[2], cache[k], v)]
  <2>3. new[k] = new1 \/ new[k] = new2
    BY <1>1 DEF IsUpdate, Updated
  <2>4. /\ new1 \in Entries /\ new1.val = v
        /\ Mark(k[2], cache[k], v) => new1.changed
    BY <2>2 DEF Entries
  <2>5. /\ new2 \in Entries /\ new2.val = v /\ new2.changed
    BY <2>2 DEF Entries
  <2> HIDE DEF new1, new2
  <2>6. QED
    BY <2>3, <2>4, <2>5
<1>2. \A k \in Keys : k \notin ks \/ cache[k] = None => new[k] = cache[k]
  BY DEF IsUpdate, Updated
<1>3. new = [k \in Keys |-> new[k]]
  BY DEF IsUpdate, Updated
<1>4. \A k \in Keys : new[k] \in Cached
  BY <1>1, <1>2 DEF Cached
<1>5. new \in [Keys -> Cached]
  BY <1>3, <1>4
<1>6. \A k \in Keys :
         /\ new[k] = None <=> cache[k] = None
         /\ k \notin ks => new[k] = cache[k]
         /\ k \in ks /\ cache[k] # None => new[k].val = v
  BY <1>1, <1>2, NoEntryAssumption
<1>7. ASSUME NEW k \in Marked, new[k] # None, ~new[k].changed, new[k].val # Error
      PROVE  ~cache[k].changed /\ cache[k].val = new[k].val
  <2>1. k \in Keys /\ k[2] \in Exact \cup Bytes /\ cache[k] # None
    BY <1>6, <1>7, MarkedAreKeys DEF Marked
  <2>2. CASE k \notin ks
    BY <1>6, <1>7, <2>1, <2>2
  <2>3. CASE k \in ks
    <3>1. new[k].val = v /\ ~ Mark(k[2], cache[k], v) /\ v # Error
      BY <1>1, <1>7, <2>1, <2>3
    <3>2. k[2] \notin Float
      BY <2>1, ReadAssumption DEF Exact
    <3>3. ~cache[k].changed /\ k[2] \notin Bytes /\ cache[k].val = v
      BY <2>1, <3>1, <3>2 DEF Mark
    <3>4. QED
      BY <3>1, <3>3
  <2>4. QED
    BY <2>2, <2>3
<1>8. QED
  BY <1>5, <1>6, <1>7

\* A tag that is static is not read from the device.
LEMMA StaticShape == Static \cap Readable = {} /\ Unset \notin Static
BY DEF Static, Readable, Unset

\* A step that changes no more than values and marks.
LEMMA ValuesChange ==
      ASSUME IInv, cache' \in [Keys -> Cached],
             \A k \in Keys : cache'[k] = None <=> cache[k] = None,
             \A k \in Marked :
                cache'[k] # None /\ ~cache'[k].changed /\ cache'[k].val # Error
                => ~cache[k].changed /\ cache[k].val = cache'[k].val,
             \A t \in Tags : taken[t] \in Static /\ name \in Names
                /\ conf[t] \notin Readable
                => cache'[<<name, t>>].val = cache[<<name, t>>].val,
             UNCHANGED <<name, conf, dirty, taken, reader, report, history>>,
             im' \in Senders, im'.sent = im.sent
      PROVE  IInv'
<1>1. UNCHANGED <<name, conf, dirty, taken, reader, report,
                  apps, overlap, renamed, behind, crossed>>
  BY DEF history
<1>2. TypeOK'
  BY <1>1 DEF IInv, TypeOK, Cached
<1>3. ChangeIsTaken' /\ SplitIsCurrent'
  BY <1>1 DEF IInv, ChangeIsTaken, SplitIsCurrent, Split, ReadTags
<1>4. EntriesAreOwned' /\ PurgedIsEmpty'
  BY <1>1 DEF IInv, EntriesAreOwned, PurgedIsEmpty
<1>5. GroupIsCached'
  <2>1. SUFFICES ASSUME reader.pc # "purged", ~ renamed, NEW t \in Tags, taken[t] # Unset
                 PROVE  /\ cache'[<<name, t>>] # None
                        /\ taken[t] \in Static /\ ~dirty /\ ~overlap
                             => cache'[<<name, t>>].val = conf[t].val
    BY <1>1 DEF GroupIsCached
  <2>2. /\ cache[<<name, t>>] # None
        /\ taken[t] \in Static /\ ~dirty /\ ~overlap
             => cache[<<name, t>>].val = conf[t].val
    BY <2>1 DEF IInv, GroupIsCached
  <2>3. name \in Names
    BY <2>1, NoGroup DEF IInv, TypeOK
  <2>4. <<name, t>> \in Keys
    BY <2>3 DEF Keys
  <2>5. cache'[<<name, t>>] # None
    BY <2>2, <2>4
  <2>6. ASSUME taken[t] \in Static, ~dirty, ~overlap
        PROVE  conf[t] \notin Readable
    <3>1. reader.pc = "idle"
      BY <2>1, <2>6 DEF IInv, SplitIsCurrent, TypeOK
    <3>2. taken = Split(conf)
      BY <2>6, <3>1 DEF IInv, ChangeIsTaken
    <3>3. taken[t] = conf[t]
      BY <2>6, <3>2, StaticShape DEF Split
    <3>4. QED
      BY <2>6, <3>3, StaticShape
  <2>7. QED
    BY <2>2, <2>3, <2>5, <2>6
<1>6. ToldIsSent'
  <2>1. ASSUME NEW k \in Marked, Told(k)'
        PROVE  Told(k) /\ cache'[k].val = cache[k].val
    <3>1. k \in Keys
      BY MarkedAreKeys
    <3>2. cache'[k] # None /\ ~cache'[k].changed /\ cache'[k].val # Error
      BY <2>1 DEF Told
    <3>3. cache[k] # None /\ ~cache[k].changed /\ cache[k].val = cache'[k].val
      BY <3>1, <3>2
    <3>4. QED
      BY <1>1, <2>1, <3>3 DEF Told
  <2>2. QED
    BY <1>1, <2>1, ToldStays DEF IInv
<1>7. QED
  BY <1>2, <1>3, <1>4, <1>5, <1>6 DEF IInv

\* The plugin updates a tag.
LEMMA UpdateKeepsIInv ==
      ASSUME IInv, NEW n \in Names, NEW t \in Tags, NEW v \in Values \cup {Error},
             Update(n, t, v)
      PROVE  IInv'
<1> DEFINE ks == {<<n, t>>}
<1>1. cache \in [Keys -> Cached] /\ IsUpdate(cache', ks, v)
  BY DEF IInv, TypeOK, Cached, Update, IsUpdate
<1>2. \A u \in Tags : taken[u] \in Static /\ name \in Names =>
         <<name, u>> \in Keys /\ <<name, u>> \notin ks
  BY DEF Keys, Update
<1> HIDE DEF ks
<1>3. /\ cache' \in [Keys -> Cached]
      /\ \A k \in Keys : /\ cache'[k] = None <=> cache[k] = None
                         /\ k \notin ks => cache'[k] = cache[k]
      /\ \A k \in Marked :
            cache'[k] # None /\ ~cache'[k].changed /\ cache'[k].val # Error
            => ~cache[k].changed /\ cache[k].val = cache'[k].val
  BY <1>1, UpdatedShape
<1>4. \A u \in Tags : taken[u] \in Static /\ name \in Names =>
         cache'[<<name, u>>].val = cache[<<name, u>>].val
  BY <1>2, <1>3
<1>5. QED
  BY <1>3, <1>4, ValuesChange DEF Update, IInv, TypeOK

\* The plugin reports an error of the whole group.
LEMMA UpdateGroupKeepsIInv ==
      ASSUME IInv, UpdateGroup
      PROVE  IInv'
<1> DEFINE ks == {<<name, t>> : t \in {u \in Tags : conf[u] \in Readable}}
<1>1. cache \in [Keys -> Cached] /\ IsUpdate(cache', ks, Error)
  BY DEF IInv, TypeOK, Cached, UpdateGroup, IsUpdate
<1>2. \A u \in Tags : conf[u] \notin Readable /\ name \in Names =>
         <<name, u>> \in Keys /\ <<name, u>> \notin ks
  BY DEF Keys
<1> HIDE DEF ks
<1>3. /\ cache' \in [Keys -> Cached]
      /\ \A k \in Keys : /\ cache'[k] = None <=> cache[k] = None
                         /\ k \notin ks => cache'[k] = cache[k]
      /\ \A k \in Marked :
            cache'[k] # None /\ ~cache'[k].changed /\ cache'[k].val # Error
            => ~cache[k].changed /\ cache[k].val = cache'[k].val
  BY <1>1, UpdatedShape
<1>4. \A u \in Tags : conf[u] \notin Readable /\ name \in Names =>
         cache'[<<name, u>>].val = cache[<<name, u>>].val
  BY <1>2, <1>3
<1>5. QED
  BY <1>3, <1>4, ValuesChange DEF UpdateGroup, IInv, TypeOK

\* Time passes.
LEMMA ExpireKeepsIInv ==
      ASSUME IInv, NEW k \in Keys, Expire(k)
      PROVE  IInv'
<1>1. cache \in [Keys -> Cached]
  BY DEF IInv, TypeOK, Cached
<1>2. cache[k] \in Entries
  BY <1>1 DEF Expire, Cached
<1> DEFINE e == [cache[k] EXCEPT !.expired = TRUE]
<1>3. e \in Entries /\ e.val = cache[k].val /\ e.changed = cache[k].changed
  BY <1>2 DEF Entries
<1>4. cache' = [cache EXCEPT ![k] = e]
  BY DEF Expire
<1> HIDE DEF e
<1>5. /\ cache' \in [Keys -> Cached] /\ cache'[k] = e
      /\ \A j \in Keys : j # k => cache'[j] = cache[j]
  BY <1>1, <1>3, <1>4 DEF Cached
<1>6. e # None /\ cache[k] # None
  BY <1>3, NoEntryAssumption DEF Expire
<1>7. \A j \in Keys : /\ cache'[j] = None <=> cache[j] = None
                      /\ cache'[j].val = cache[j].val
                      /\ cache'[j].changed = cache[j].changed
  BY <1>3, <1>5, <1>6
<1>8. \A t \in Tags : name \in Names => <<name, t>> \in Keys
  BY DEF Keys
<1>9. QED
  BY <1>5, <1>7, <1>8, MarkedAreKeys, ValuesChange DEF Expire, IInv, TypeOK

\* A static tag is written.
LEMMA WriteStaticKeepsIInv ==
      ASSUME IInv, NEW t \in Tags, NEW v \in Values, WriteStatic(t, v)
      PROVE  IInv'
<1> DEFINE ks == {<<name, t>>}
<1>1. /\ cache \in [Keys -> Cached] /\ IsUpdate(cache', ks, v)
      /\ v \in Values \cup {Error}
  BY DEF IInv, TypeOK, Cached, WriteStatic, IsUpdate
<1> HIDE DEF ks
<1>2. /\ cache' \in [Keys -> Cached]
      /\ \A k \in Keys : /\ cache'[k] = None <=> cache[k] = None
                         /\ k \notin ks => cache'[k] = cache[k]
                         /\ k \in ks /\ cache[k] # None => cache'[k].val = v
      /\ \A k \in Marked :
            cache'[k] # None /\ ~cache'[k].changed /\ cache'[k].val # Error
            => ~cache[k].changed /\ cache[k].val = cache'[k].val
  BY <1>1, UpdatedShape
<1>3. /\ TypeOK /\ Stamped
      /\ conf[t] \in Static /\ conf' = [conf EXCEPT ![t].val = v]
      /\ UNCHANGED <<name, taken, reader, report, im, apps, renamed, behind, crossed>>
  BY DEF WriteStatic, IInv
<1>4. conf' \in [Tags -> Readable \cup Static \cup WriteOnly \cup {Unset}]
  <2>1. [conf[t] EXCEPT !.val = v] \in Static
    BY <1>3 DEF Static
  <2>2. QED
    BY <1>3, <2>1 DEF TypeOK
<1>5. name \in Names
  <2>1. name # None
    BY <1>3, NoGroup, UnsetShape, StaticShape
  <2>2. QED
    BY <1>3, <2>1 DEF TypeOK
<1>6. dirty' = TRUE /\ overlap' \in BOOLEAN
  BY <1>3, StampedShape
<1>7. TypeOK'
  BY <1>2, <1>3, <1>4, <1>5, <1>6, ReadAssumption DEF TypeOK, Cached
<1>8. ChangeIsTaken' /\ SplitIsCurrent'
  BY <1>3, ChangeWillBeTaken
<1>9. GroupIsCached'
  <2>1. \A u \in Tags : <<name, u>> \in Keys
    BY <1>5 DEF Keys
  <2>2. QED
    BY <1>2, <1>3, <1>6, <2>1 DEF IInv, GroupIsCached
<1>10. EntriesAreOwned' /\ PurgedIsEmpty'
  BY <1>2, <1>3 DEF IInv, EntriesAreOwned, PurgedIsEmpty
<1>11. ToldIsSent'
  <2>1. ASSUME NEW k \in Marked, Told(k)'
        PROVE  Told(k) /\ cache'[k].val = cache[k].val
    <3>1. k \in Keys
      BY MarkedAreKeys
    <3>2. cache'[k] # None /\ ~cache'[k].changed /\ cache'[k].val # Error
      BY <2>1 DEF Told
    <3>3. cache[k] # None /\ ~cache[k].changed /\ cache[k].val = cache'[k].val
      BY <1>2, <3>1, <3>2
    <3>4. QED
      BY <1>3, <2>1, <3>3 DEF Told
  <2>2. QED
    BY <1>3, <2>1, ToldStays DEF IInv
<1>12. QED
  BY <1>7, <1>8, <1>9, <1>10, <1>11 DEF IInv

\* A sender that has nothing to do.
LEMMA IdleShape == Idle \in Senders /\ Holds(Idle) = {}
BY DEF Idle, Senders, Holds

\* The plugin updates a tag and sends it at once.
LEMMA UpdateImKeepsIInv ==
      ASSUME IInv, NEW t \in Tags, NEW v \in Values, UpdateIm(t, v)
      PROVE  IInv'
<1> DEFINE ks == {<<name, t>>}
<1>1. /\ cache \in [Keys -> Cached] /\ IsUpdate(cache', ks, v)
      /\ v \in Values \cup {Error}
  BY DEF IInv, TypeOK, Cached, UpdateIm, IsUpdate
<1>2. \A u \in Tags : taken[u] \in Static /\ name \in Names =>
         <<name, u>> \in Keys /\ <<name, u>> \notin ks
  BY DEF Keys, UpdateIm
<1>3. name \in Names
  BY NoGroup, UnsetShape DEF UpdateIm, IInv, TypeOK
<1>4. ks \subseteq Keys
  BY <1>3 DEF Keys
<1>5. im' \in Senders /\ im'.sent = im.sent
  <2>1. im \in Senders
    BY DEF IInv, TypeOK
  <2>2. im' = im \/ im' = [im EXCEPT !.todo = ks]
    BY DEF UpdateIm
  <2>3. QED
    BY <1>4, <2>1, <2>2 DEF Senders
<1> HIDE DEF ks
<1>6. /\ cache' \in [Keys -> Cached]
      /\ \A k \in Keys : /\ cache'[k] = None <=> cache[k] = None
                         /\ k \notin ks => cache'[k] = cache[k]
      /\ \A k \in Marked :
            cache'[k] # None /\ ~cache'[k].changed /\ cache'[k].val # Error
            => ~cache[k].changed /\ cache[k].val = cache'[k].val
  BY <1>1, UpdatedShape
<1>7. \A u \in Tags : taken[u] \in Static /\ name \in Names =>
         cache'[<<name, u>>].val = cache[<<name, u>>].val
  BY <1>2, <1>6
<1>8. QED
  BY <1>5, <1>6, <1>7, ValuesChange DEF UpdateIm

(***************************************************************************)
(* The group and the cache as a whole.                                     *)
(***************************************************************************)

\* The cache without the entries that are dropped.
LEMMA DropShape ==
      ASSUME cache \in [Keys -> Cached],
             cache' = [k \in Keys |-> IF k[1] = name /\ taken[k[2]] # Unset
                                      THEN None ELSE cache[k]]
      PROVE  /\ cache' \in [Keys -> Cached]
             /\ \A k \in Keys : /\ k[1] = name /\ taken[k[2]] # Unset => cache'[k] = None
                                /\ cache'[k] # None => cache'[k] = cache[k]
BY DEF Cached

\* What was heard is forgotten.
LEMMA UnheardShape ==
      ASSUME TypeOK, NEW ks, Unheard(ks)
      PROVE  /\ apps' \in [Keys -> Values \cup {Error, "expired", None}]
             /\ crossed' \subseteq Keys
BY DEF Unheard, TypeOK

\* The group is renamed.
LEMMA RenameKeepsIInv ==
      ASSUME IInv, NEW n \in Names, Rename(n)
      PROVE  IInv'
<1>1. /\ TypeOK /\ reader.pc = "idle" /\ name' = n /\ renamed' = TRUE
      /\ behind' = {k \in Keys : cache[k] # None} /\ Unheard(Keys)
      /\ UNCHANGED <<conf, dirty, taken, reader, cache, report, im, overlap>>
  BY DEF IInv, Rename
<1>2. n # None
  BY ReadAssumption
<1>3. TypeOK'
  <2>1. apps' \in [Keys -> Values \cup {Error, "expired", None}] /\ crossed' \subseteq Keys
    BY <1>1, UnheardShape
  <2>2. QED
    BY <1>1, <1>2, <2>1 DEF TypeOK
<1>4. ChangeIsTaken' /\ SplitIsCurrent'
  BY <1>1 DEF IInv, ChangeIsTaken, SplitIsCurrent, Split, ReadTags
<1>5. GroupIsCached' /\ EntriesAreOwned' /\ PurgedIsEmpty'
  BY <1>1 DEF GroupIsCached, EntriesAreOwned, PurgedIsEmpty
<1>6. ToldIsSent'
  BY <1>1 DEF ToldIsSent, Told
<1>7. QED
  BY <1>3, <1>4, <1>5, <1>6 DEF IInv

\* The group is deleted.
LEMMA DelGroupKeepsIInv ==
      ASSUME IInv, DelGroup
      PROVE  IInv'
<1>1. /\ TypeOK /\ reader.pc = "idle" /\ name' = None
      /\ conf' = NoTags /\ taken' = NoTags
      /\ dirty' = FALSE /\ overlap' = FALSE /\ renamed' = FALSE
      /\ cache' = [k \in Keys |-> IF k[1] = name /\ taken[k[2]] # Unset
                                  THEN None ELSE cache[k]]
      /\ behind' = {k \in behind : cache'[k] # None} /\ Unheard(Keys)
      /\ UNCHANGED <<reader, report, im>>
  BY DEF IInv, DelGroup
<1>2. /\ cache' \in [Keys -> Cached]
      /\ \A k \in Keys : /\ k[1] = name /\ taken[k[2]] # Unset => cache'[k] = None
                         /\ cache'[k] # None => cache'[k] = cache[k]
  BY <1>1, DropShape DEF TypeOK, Cached
<1>3. TypeOK'
  <2>1. apps' \in [Keys -> Values \cup {Error, "expired", None}] /\ crossed' \subseteq Keys
    BY <1>1, UnheardShape
  <2>2. /\ conf' \in [Tags -> Readable \cup Static \cup WriteOnly \cup {Unset}]
        /\ taken' \in [Tags -> Readable \cup Static \cup {Unset}]
    BY <1>1, UnsetShape DEF Given
  <2>3. QED
    BY <1>1, <1>2, <2>1, <2>2 DEF TypeOK, Cached
<1>4. ChangeIsTaken' /\ SplitIsCurrent'
  <2>1. taken' = Split(conf)'
    BY <1>1, UnsetShape DEF Split, ReadTags
  <2>2. QED
    BY <1>1, <2>1 DEF ChangeIsTaken, SplitIsCurrent
<1>5. GroupIsCached'
  BY <1>1, UnsetShape DEF GroupIsCached
<1>6. EntriesAreOwned' /\ PurgedIsEmpty'
  <2>1. \A k \in Keys \ behind' : cache'[k] = None
    BY <1>1, <1>2 DEF IInv, EntriesAreOwned
  <2>2. QED
    BY <2>1 DEF EntriesAreOwned, PurgedIsEmpty
<1>7. ToldIsSent'
  <2>1. \A k \in Marked : k[1] # None
    BY ReadAssumption DEF Marked
  <2>2. \A k \in Marked : ~ Told(k)'
    BY <1>1, <2>1 DEF Told
  <2>3. QED
    BY <2>2 DEF ToldIsSent, Marked
<1>8. QED
  BY <1>3, <1>4, <1>5, <1>6, <1>7 DEF IInv

\* What a group's tags give to read.
LEMMA SplitShape ==
      ASSUME NEW c
      PROVE  Split(c) \in [Tags -> Given]
BY DEF Split, ReadTags, Given

\* The driver splits the tags.
LEMMA SplitGroupKeepsIInv ==
      ASSUME IInv, SplitGroup
      PROVE  IInv'
<1>1. /\ reader.pc = "idle" /\ name # None /\ dirty
      /\ reader' = [pc |-> "split", split |-> Split(conf)] /\ overlap' = FALSE
      /\ UNCHANGED <<name, conf, dirty, taken, cache, report, im, apps, renamed,
                     behind, crossed>>
  BY DEF SplitGroup
<1>2. reader'.pc = "split" /\ reader'.split = Split(conf) /\ Split(conf) = Split(conf)'
  BY <1>1 DEF Split, ReadTags
<1>3. reader' \in [pc : {"idle", "split", "purged"}, split : [Tags -> Given]]
  BY <1>1, SplitShape
<1>4. TypeOK'
  BY <1>1, <1>3 DEF IInv, TypeOK, Given
<1>5. ChangeIsTaken' /\ SplitIsCurrent' /\ PurgedIsEmpty'
  BY <1>1, <1>2 DEF ChangeIsTaken, SplitIsCurrent, PurgedIsEmpty
<1>6. GroupIsCached' /\ EntriesAreOwned'
  BY <1>1, <1>2 DEF IInv, GroupIsCached, EntriesAreOwned
<1>7. ToldIsSent'
  <2>1. \A k \in Marked : Told(k)' => Told(k) /\ cache'[k].val = cache[k].val
    BY <1>1 DEF Told
  <2>2. QED
    BY <1>1, <2>1, ToldStays DEF IInv
<1>8. QED
  BY <1>4, <1>5, <1>6, <1>7 DEF IInv

\* The driver empties the cache.
LEMMA PurgeCacheKeepsIInv ==
      ASSUME IInv, PurgeCache
      PROVE  IInv'
<1>1. /\ TypeOK /\ reader.pc = "split" /\ dirty' = FALSE
      /\ reader' = [reader EXCEPT !.pc = "purged"]
      /\ cache' = [k \in Keys |-> IF k[1] = name /\ taken[k[2]] # Unset
                                  THEN None ELSE cache[k]]
      /\ behind' = {k \in behind : cache'[k] # None}
      /\ UNCHANGED <<name, conf, taken, report, im, apps, overlap, renamed, crossed>>
  BY DEF IInv, PurgeCache
<1>2. /\ cache' \in [Keys -> Cached]
      /\ \A k \in Keys : /\ k[1] = name /\ taken[k[2]] # Unset => cache'[k] = None
                         /\ cache'[k] # None => cache'[k] = cache[k]
  BY <1>1, DropShape DEF TypeOK, Cached
<1>3. /\ reader'.pc = "purged" /\ reader'.split = reader.split
      /\ reader' \in [pc : {"idle", "split", "purged"}, split : [Tags -> Given]]
  BY <1>1 DEF TypeOK, Given
<1>4. TypeOK'
  BY <1>1, <1>2, <1>3 DEF TypeOK, Cached, Given
<1>5. ChangeIsTaken' /\ SplitIsCurrent' /\ GroupIsCached'
  BY <1>1, <1>3 DEF IInv, ChangeIsTaken, SplitIsCurrent, GroupIsCached, Split, ReadTags
<1>6. \A k \in Keys \ behind' : cache'[k] = None
  BY <1>1, <1>2 DEF IInv, EntriesAreOwned
<1>7. EntriesAreOwned' /\ PurgedIsEmpty'
  BY <1>6 DEF EntriesAreOwned, PurgedIsEmpty
<1>8. ToldIsSent'
  <2>1. ASSUME NEW k \in Marked, Told(k)'
        PROVE  Told(k) /\ cache'[k].val = cache[k].val
    <3>1. k \in Keys /\ cache'[k] # None
      BY <2>1, MarkedAreKeys DEF Told
    <3>2. cache'[k] = cache[k]
      BY <1>2, <3>1
    <3>3. QED
      BY <1>1, <2>1, <3>2 DEF Told
  <2>2. QED
    BY <1>1, <2>1, ToldStays DEF IInv
<1>9. QED
  BY <1>4, <1>5, <1>7, <1>8 DEF IInv

\* The driver fills the cache.
LEMMA FillCacheKeepsIInv ==
      ASSUME IInv, FillCache
      PROVE  IInv'
<1>1. /\ TypeOK /\ reader.pc = "purged" /\ taken' = reader.split
      /\ reader' = [pc |-> "idle", split |-> NoTags]
      /\ cache' = [k \in Keys |-> IF k[1] = name /\ taken'[k[2]] # Unset
                                  THEN Fresh(taken'[k[2]].val) ELSE cache[k]]
      /\ behind' = {k \in behind : k[1] # name \/ taken'[k[2]] = Unset}
      /\ renamed' = FALSE /\ Unheard({k \in Keys : k[1] = name})
      /\ UNCHANGED <<name, conf, dirty, report, im, overlap>>
  BY DEF IInv, FillCache
<1>2. name \in Names /\ reader'.pc = "idle" /\ taken' \in [Tags -> Given]
  BY <1>1 DEF TypeOK, Given
<1>3. reader' \in [pc : {"idle", "split", "purged"}, split : [Tags -> Given]]
  BY <1>1, UnsetShape
<1>4. \A t \in Tags : taken'[t] # Unset =>
         /\ Fresh(taken'[t].val) \in Entries
         /\ Fresh(taken'[t].val).val = taken'[t].val
         /\ taken'[t].attr = "subscribe" => taken'[t].val = Error
  BY <1>2 DEF Given, Readable, Static, Entries, Fresh
<1>5. \A k \in Keys :
         /\ k[1] = name /\ taken'[k[2]] # Unset => cache'[k] = Fresh(taken'[k[2]].val)
         /\ ~(k[1] = name /\ taken'[k[2]] # Unset) => cache'[k] = cache[k]
  BY <1>1
<1>6. \A k \in Keys : k[2] \in Tags
  BY DEF Keys
<1>7. cache' \in [Keys -> Cached]
  <2>1. cache' = [k \in Keys |-> cache'[k]]
    BY <1>1
  <2>2. \A k \in Keys : cache'[k] \in Cached
    BY <1>1, <1>4, <1>5, <1>6 DEF TypeOK, Cached
  <2>3. QED
    BY <2>1, <2>2
<1>8. TypeOK'
  <2>1. apps' \in [Keys -> Values \cup {Error, "expired", None}] /\ crossed' \subseteq Keys
    BY <1>1, UnheardShape
  <2>2. name' # None
    BY <1>1, <1>2, ReadAssumption
  <2>3. QED
    BY <1>1, <1>2, <1>3, <1>7, <2>1, <2>2 DEF TypeOK, Cached, Given
<1>9. ChangeIsTaken' /\ SplitIsCurrent' /\ PurgedIsEmpty'
  BY <1>1, <1>2 DEF IInv, ChangeIsTaken, SplitIsCurrent, PurgedIsEmpty, Split, ReadTags
<1>10. GroupIsCached'
  <2>1. SUFFICES ASSUME NEW t \in Tags, taken'[t] # Unset
                 PROVE  /\ cache'[<<name, t>>] # None
                        /\ taken'[t] \in Static /\ ~dirty /\ ~overlap
                             => cache'[<<name, t>>].val = conf[t].val
    BY <1>1 DEF GroupIsCached
  <2>2. <<name, t>> \in Keys
    BY <1>2 DEF Keys
  <2>3. cache'[<<name, t>>] \in Entries /\ cache'[<<name, t>>].val = taken'[t].val
    BY <1>4, <1>5, <2>1, <2>2
  <2>4. taken'[t] \in Static /\ ~dirty /\ ~overlap => taken'[t] = conf[t]
    BY <1>1, <2>1, StaticShape DEF IInv, SplitIsCurrent, Split
  <2>5. QED
    BY <2>3, <2>4, NoEntryAssumption
<1>11. EntriesAreOwned'
  BY <1>1, <1>5 DEF IInv, PurgedIsEmpty, EntriesAreOwned
<1>12. ToldIsSent'
  <2>1. ASSUME NEW k \in Marked, Told(k)'
        PROVE  FALSE
    <3>1. k \in Keys /\ k[1] = name /\ taken'[k[2]].attr = "subscribe" /\ k[2] \in Tags
      BY <1>1, <1>6, <2>1, MarkedAreKeys DEF Told
    <3>2. taken'[k[2]] # Unset
      BY <3>1, UnsetShape
    <3>3. cache'[k].val = Error
      BY <1>4, <1>5, <3>1, <3>2
    <3>4. QED
      BY <2>1, <3>3 DEF Told
  <2>2. QED
    BY <2>1 DEF ToldIsSent, Marked
<1>13. QED
  BY <1>8, <1>9, <1>10, <1>11, <1>12 DEF IInv

(***************************************************************************)
(* Sending.                                                                *)
(***************************************************************************)

Heards == Values \cup {Error, "expired", None}

\* A sender r, which becomes new, takes the entry k while the other is o.
Takes(r, new, o, k, c, x) ==
    \E sub \in BOOLEAN, limit \in BOOLEAN :
        new = Took(r, k, sub, limit) /\ c = Unmarked(k, sub) /\ x = Crossed(k, sub, o)

\* No entry comes or goes, no value changes, and an entry that is not
\* marked either was not before and was not taken, or is held by this sender
\* and not by the other.
MarkHasOneOwner(r, new, o, c, x) ==
    /\ new \in Senders /\ c \in [Keys -> Cached] /\ x \subseteq Keys
    /\ \A j \in Keys : /\ c[j] = None <=> cache[j] = None
                       /\ c[j].val = cache[j].val
    /\ \A j \in Keys :
          c[j] # None /\ ~c[j].changed /\ j \notin x =>
             \/ /\ new.sent[j] = r.sent[j]
                /\ ~cache[j].changed /\ j \notin crossed
             \/ /\ new.sent[j] \in {cache[j].val, "expired"}
                /\ j \in Holds(new) /\ j \notin Holds(o)

\* Taking an entry does that.
LEMMA TookShape ==
      ASSUME cache \in [Keys -> Cached], crossed \subseteq Keys,
             NEW r \in Senders, NEW o, NEW k \in Keys, NEW new, NEW c, NEW x,
             Takes(r, new, o, k, c, x)
      PROVE  MarkHasOneOwner(r, new, o, c, x)
<1>1. PICK sub \in BOOLEAN, limit \in BOOLEAN :
         new = Took(r, k, sub, limit) /\ c = Unmarked(k, sub) /\ x = Crossed(k, sub, o)
  BY DEF Takes
<1>2. r.todo \subseteq Keys /\ r.sent \in [Keys -> Heards]
  BY DEF Senders, Heards
<1>3. CASE Skips(k, sub)
  <2>1. new = [todo |-> r.todo \ {k}, sent |-> r.sent] /\ c = cache /\ x = crossed
    BY <1>1, <1>3 DEF Took, Unmarked, Crossed
  <2>2. new \in Senders
    BY <1>2, <2>1 DEF Senders, Heards
  <2>3. QED
    BY <2>1, <2>2 DEF MarkHasOneOwner
<1>4. CASE ~Skips(k, sub)
  <2> DEFINE m == Message(k, limit)
             s == [r.sent EXCEPT ![k] = m]
  <2>1. /\ m \in Heards
        /\ cache[k] # None => m \in {cache[k].val, "expired"} /\ m # None
    <3>1. CASE cache[k] = None
      BY <3>1 DEF Message, Heards
    <3>2. CASE cache[k] # None
      <4>1. cache[k].val \in Values \cup {Error}
        BY <3>2 DEF Cached, Entries
      <4>2. m \in {cache[k].val, "expired"}
        BY <3>2 DEF Message
      <4> HIDE DEF m
      <4>3. QED
        BY <4>1, <4>2, ReadAssumption DEF Heards
    <3>3. QED
      BY <3>1, <3>2
  <2> HIDE DEF m
  <2>2. /\ s \in [Keys -> Heards] /\ s[k] = m
        /\ \A j \in Keys : j # k => s[j] = r.sent[j]
    BY <1>2, <2>1
  <2> HIDE DEF s
  <2>3. new = [todo |-> r.todo \ {k}, sent |-> s]
    BY <1>1, <1>4 DEF Took, s, m
  <2>4. new \in Senders /\ new.sent = s
    BY <1>2, <2>2, <2>3 DEF Senders, Heards
  <2>5. /\ x \subseteq Keys
        /\ \A j \in Keys : j \notin x =>
              IF j = k THEN j \notin Holds(o) ELSE j \notin crossed
    BY <1>1, <1>4 DEF Crossed
  <2>6. /\ c \in [Keys -> Cached]
        /\ \A j \in Keys : /\ c[j] = None <=> cache[j] = None
                           /\ c[j].val = cache[j].val
                           /\ j # k => c[j] = cache[j]
    <3>1. CASE c = cache
      BY <3>1
    <3>2. CASE c # cache
      <4> DEFINE e == [cache[k] EXCEPT !.changed = FALSE]
      <4>1. c = [cache EXCEPT ![k] = e]
        BY <1>1, <3>2 DEF Unmarked
      <4>2. cache[k] # None
        BY <1>1, <1>4, <3>2 DEF Unmarked, Skips, Clears
      <4>3. cache[k] \in Entries
        BY <4>2 DEF Cached
      <4>4. e \in Entries /\ e.val = cache[k].val
        BY <4>3 DEF Entries
      <4> HIDE DEF e
      <4>5. QED
        BY <4>1, <4>2, <4>4, NoEntryAssumption DEF Cached
    <3>3. QED
      BY <3>1, <3>2
  <2>7. ASSUME NEW j \in Keys, c[j] # None, ~c[j].changed, j \notin x
        PROVE  \/ /\ new.sent[j] = r.sent[j]
                  /\ ~cache[j].changed /\ j \notin crossed
               \/ /\ new.sent[j] \in {cache[j].val, "expired"}
                  /\ j \in Holds(new) /\ j \notin Holds(o)
    <3>1. CASE j = k
      BY <2>1, <2>2, <2>4, <2>5, <2>6, <2>7, <3>1 DEF Holds
    <3>2. CASE j # k
      BY <2>2, <2>4, <2>5, <2>6, <2>7, <3>2
    <3>3. QED
      BY <3>1, <3>2
  <2>8. QED
    BY <2>4, <2>5, <2>6, <2>7 DEF MarkHasOneOwner
<1>5. QED
  BY <1>3, <1>4

\* A step that removes marks and changes what is being sent.
LEMMA MarksChange ==
      ASSUME IInv, cache' \in [Keys -> Cached],
             \A j \in Keys : /\ cache'[j] = None <=> cache[j] = None
                             /\ cache'[j].val = cache[j].val,
             report' \in Senders, im' \in Senders, crossed' \subseteq Keys,
             apps' \in [Keys -> Heards], ToldIsSent',
             UNCHANGED <<name, conf, dirty, taken, reader, overlap, renamed, behind>>
      PROVE  IInv'
<1>1. TypeOK'
  BY DEF IInv, TypeOK, Cached, Heards
<1>2. ChangeIsTaken' /\ SplitIsCurrent'
  BY DEF IInv, ChangeIsTaken, SplitIsCurrent, Split, ReadTags
<1>3. EntriesAreOwned' /\ PurgedIsEmpty'
  BY DEF IInv, EntriesAreOwned, PurgedIsEmpty
<1>4. GroupIsCached'
  <2>1. ASSUME NEW t \in Tags, taken[t] # Unset
        PROVE  <<name, t>> \in Keys
    BY <2>1, NoGroup DEF IInv, TypeOK, Keys
  <2>2. QED
    BY <2>1 DEF IInv, GroupIsCached
<1>5. QED
  BY <1>1, <1>2, <1>3, <1>4 DEF IInv

\* report_callback begins.
LEMMA ReportKeepsIInv ==
      ASSUME IInv, Report
      PROVE  IInv'
<1>1. /\ name \in Names /\ report' = [report EXCEPT !.todo = {name} \X ReadTags(conf)]
      /\ UNCHANGED <<name, conf, dirty, taken, reader, cache, im,
                     apps, overlap, renamed, behind, crossed>>
  BY DEF Report, IInv, TypeOK, history
<1>2. {name} \X ReadTags(conf) \subseteq Keys
  BY <1>1 DEF Keys, ReadTags
<1>3. report' \in Senders /\ report'.sent = report.sent
  BY <1>1, <1>2 DEF IInv, TypeOK, Senders
<1>4. ToldIsSent'
  <2>1. \A k \in Marked : Told(k)' => Told(k) /\ cache'[k].val = cache[k].val
    BY <1>1 DEF Told
  <2>2. QED
    BY <1>1, <1>3, <2>1, ToldStays DEF IInv
<1>5. QED
  BY <1>1, <1>3, <1>4, MarksChange DEF IInv, TypeOK, Cached, Heards

\* report_callback reads a tag.
LEMMA ReportTagKeepsIInv ==
      ASSUME IInv, NEW k \in Keys, ReportTag(k)
      PROVE  IInv'
<1> DEFINE sub   == conf[k[2]].attr = "subscribe"
           limit == conf[k[2]] \notin Static
<1>1. /\ cache \in [Keys -> Cached] /\ crossed \subseteq Keys
      /\ report \in Senders /\ im \in Senders /\ apps \in [Keys -> Heards]
  BY DEF IInv, TypeOK, Cached, Heards
<1>2. /\ Takes(report, report', im, k, cache', crossed')
      /\ UNCHANGED <<name, conf, dirty, taken, reader, im, apps, overlap, renamed, behind>>
  BY DEF ReportTag, Takes
<1>3. MarkHasOneOwner(report, report', im, cache', crossed')
  BY <1>1, <1>2, TookShape
<1>4. /\ report' \in Senders /\ cache' \in [Keys -> Cached] /\ crossed' \subseteq Keys
      /\ \A j \in Keys : /\ cache'[j] = None <=> cache[j] = None
                         /\ cache'[j].val = cache[j].val
      /\ \A j \in Keys :
            cache'[j] # None /\ ~cache'[j].changed /\ j \notin crossed' =>
               \/ /\ report'.sent[j] = report.sent[j]
                  /\ ~cache[j].changed /\ j \notin crossed
               \/ /\ report'.sent[j] \in {cache[j].val, "expired"}
                  /\ j \in Holds(report') /\ j \notin Holds(im)
  BY <1>3 DEF MarkHasOneOwner
<1>5. ToldIsSent'
  <2>1. SUFFICES ASSUME NEW j \in Marked, Told(j)'
                 PROVE  LET heard == {cache'[j].val, "expired"}
                        IN  \/ j \notin Holds(report)' \cup Holds(im)' /\ apps'[j] \in heard
                            \/ j \in Holds(report)' \ Holds(im)' /\ report'.sent[j] \in heard
                            \/ j \in Holds(im)' \ Holds(report)' /\ im'.sent[j] \in heard
    BY DEF ToldIsSent, Marked
  <2>2. /\ j \in Keys /\ cache'[j] # None /\ ~cache'[j].changed /\ j \notin crossed'
        /\ cache'[j].val = cache[j].val
    BY <1>4, <2>1, MarkedAreKeys DEF Told
  <2>3. Holds(report)' = Holds(report') /\ Holds(im)' = Holds(im)
    BY <1>2 DEF Holds
  <2>4. CASE /\ report'.sent[j] = report.sent[j]
             /\ ~cache[j].changed /\ j \notin crossed
    <3>1. Told(j)
      BY <1>2, <1>4, <2>1, <2>2, <2>4 DEF Told
    <3>2. LET heard == {cache[j].val, "expired"}
          IN  \/ j \notin Holds(report) \cup Holds(im) /\ apps[j] \in heard
              \/ j \in Holds(report) \ Holds(im) /\ report.sent[j] \in heard
              \/ j \in Holds(im) \ Holds(report) /\ im.sent[j] \in heard
      BY <3>1 DEF IInv, ToldIsSent, Marked
    <3>3. j \in Holds(report') <=> j \in Holds(report)
      BY <2>2, <2>4 DEF Holds
    <3>4. QED
      BY <1>2, <2>2, <2>3, <2>4, <3>2, <3>3
  <2>5. CASE /\ report'.sent[j] \in {cache[j].val, "expired"}
             /\ j \in Holds(report') /\ j \notin Holds(im)
    BY <2>2, <2>3, <2>5
  <2>6. QED
    BY <1>4, <2>2, <2>4, <2>5
<1>6. QED
  BY <1>1, <1>2, <1>4, <1>5, MarksChange

\* update_im reads its tag.
LEMMA ImTagKeepsIInv ==
      ASSUME IInv, NEW k \in Keys, ImTag(k)
      PROVE  IInv'
<1>1. /\ cache \in [Keys -> Cached] /\ crossed \subseteq Keys
      /\ report \in Senders /\ im \in Senders /\ apps \in [Keys -> Heards]
  BY DEF IInv, TypeOK, Cached, Heards
<1>2. /\ Takes(im, im', report, k, cache', crossed')
      /\ UNCHANGED <<name, conf, dirty, taken, reader, report, apps, overlap, renamed, behind>>
  BY DEF ImTag, Takes
<1>3. MarkHasOneOwner(im, im', report, cache', crossed')
  BY <1>1, <1>2, TookShape
<1>4. /\ im' \in Senders /\ cache' \in [Keys -> Cached] /\ crossed' \subseteq Keys
      /\ \A j \in Keys : /\ cache'[j] = None <=> cache[j] = None
                         /\ cache'[j].val = cache[j].val
      /\ \A j \in Keys :
            cache'[j] # None /\ ~cache'[j].changed /\ j \notin crossed' =>
               \/ /\ im'.sent[j] = im.sent[j]
                  /\ ~cache[j].changed /\ j \notin crossed
               \/ /\ im'.sent[j] \in {cache[j].val, "expired"}
                  /\ j \in Holds(im') /\ j \notin Holds(report)
  BY <1>3 DEF MarkHasOneOwner
<1>5. ToldIsSent'
  <2>1. SUFFICES ASSUME NEW j \in Marked, Told(j)'
                 PROVE  LET heard == {cache'[j].val, "expired"}
                        IN  \/ j \notin Holds(report)' \cup Holds(im)' /\ apps'[j] \in heard
                            \/ j \in Holds(report)' \ Holds(im)' /\ report'.sent[j] \in heard
                            \/ j \in Holds(im)' \ Holds(report)' /\ im'.sent[j] \in heard
    BY DEF ToldIsSent, Marked
  <2>2. /\ j \in Keys /\ cache'[j] # None /\ ~cache'[j].changed /\ j \notin crossed'
        /\ cache'[j].val = cache[j].val
    BY <1>4, <2>1, MarkedAreKeys DEF Told
  <2>3. Holds(report)' = Holds(report) /\ Holds(im)' = Holds(im')
    BY <1>2 DEF Holds
  <2>4. CASE /\ im'.sent[j] = im.sent[j]
             /\ ~cache[j].changed /\ j \notin crossed
    <3>1. Told(j)
      BY <1>2, <1>4, <2>1, <2>2, <2>4 DEF Told
    <3>2. LET heard == {cache[j].val, "expired"}
          IN  \/ j \notin Holds(report) \cup Holds(im) /\ apps[j] \in heard
              \/ j \in Holds(report) \ Holds(im) /\ report.sent[j] \in heard
              \/ j \in Holds(im) \ Holds(report) /\ im.sent[j] \in heard
      BY <3>1 DEF IInv, ToldIsSent, Marked
    <3>3. j \in Holds(im') <=> j \in Holds(im)
      BY <2>2, <2>4 DEF Holds
    <3>4. QED
      BY <1>2, <2>2, <2>3, <2>4, <3>2, <3>3
  <2>5. CASE /\ im'.sent[j] \in {cache[j].val, "expired"}
             /\ j \in Holds(im') /\ j \notin Holds(report)
    BY <2>2, <2>3, <2>5
  <2>6. QED
    BY <1>4, <2>2, <2>4, <2>5
<1>6. QED
  BY <1>1, <1>2, <1>4, <1>5, MarksChange

\* The applications hear something of its type.
LEMMA HeardShape ==
      ASSUME apps \in [Keys -> Heards], NEW r \in Senders
      PROVE  Heard(r) \in [Keys -> Heards]
BY DEF Heard, Senders, Heards

\* report_callback sends.
LEMMA ReportSendKeepsIInv ==
      ASSUME IInv, ReportSend
      PROVE  IInv'
<1>1. /\ cache \in [Keys -> Cached] /\ crossed \subseteq Keys
      /\ report \in Senders /\ im \in Senders /\ apps \in [Keys -> Heards]
  BY DEF IInv, TypeOK, Cached, Heards
<1>2. /\ apps' = Heard(report) /\ report' = Idle
      /\ UNCHANGED <<name, conf, dirty, taken, reader, cache, im, overlap, renamed,
                     behind, crossed>>
  BY DEF ReportSend
<1>3. apps' \in [Keys -> Heards] /\ report' \in Senders
  BY <1>1, <1>2, HeardShape, IdleShape
<1>4. ToldIsSent'
  <2>1. SUFFICES ASSUME NEW j \in Marked, Told(j)'
                 PROVE  LET heard == {cache'[j].val, "expired"}
                        IN  \/ j \notin Holds(report)' \cup Holds(im)' /\ apps'[j] \in heard
                            \/ j \in Holds(report)' \ Holds(im)' /\ report'.sent[j] \in heard
                            \/ j \in Holds(im)' \ Holds(report)' /\ im'.sent[j] \in heard
    BY DEF ToldIsSent, Marked
  <2>2. Told(j) /\ j \in Keys
    BY <1>2, <2>1, MarkedAreKeys DEF Told
  <2>3. LET heard == {cache[j].val, "expired"}
        IN  \/ j \notin Holds(report) \cup Holds(im) /\ apps[j] \in heard
            \/ j \in Holds(report) \ Holds(im) /\ report.sent[j] \in heard
            \/ j \in Holds(im) \ Holds(report) /\ im.sent[j] \in heard
    BY <2>2 DEF IInv, ToldIsSent, Marked
  <2>4. Holds(report)' = {} /\ Holds(im)' = Holds(im)
    BY <1>2, IdleShape DEF Holds
  <2>5. apps'[j] = IF j \in Holds(report) THEN report.sent[j] ELSE apps[j]
    BY <1>2, <2>2 DEF Heard
  <2>6. QED
    BY <1>2, <2>3, <2>4, <2>5
<1>5. QED
  BY <1>1, <1>2, <1>3, <1>4, MarksChange

\* update_im sends.
LEMMA ImSendKeepsIInv ==
      ASSUME IInv, ImSend
      PROVE  IInv'
<1>1. /\ cache \in [Keys -> Cached] /\ crossed \subseteq Keys
      /\ report \in Senders /\ im \in Senders /\ apps \in [Keys -> Heards]
  BY DEF IInv, TypeOK, Cached, Heards
<1>2. /\ apps' = Heard(im) /\ im' = Idle
      /\ UNCHANGED <<name, conf, dirty, taken, reader, cache, report, overlap, renamed,
                     behind, crossed>>
  BY DEF ImSend
<1>3. apps' \in [Keys -> Heards] /\ im' \in Senders
  BY <1>1, <1>2, HeardShape, IdleShape
<1>4. ToldIsSent'
  <2>1. SUFFICES ASSUME NEW j \in Marked, Told(j)'
                 PROVE  LET heard == {cache'[j].val, "expired"}
                        IN  \/ j \notin Holds(report)' \cup Holds(im)' /\ apps'[j] \in heard
                            \/ j \in Holds(report)' \ Holds(im)' /\ report'.sent[j] \in heard
                            \/ j \in Holds(im)' \ Holds(report)' /\ im'.sent[j] \in heard
    BY DEF ToldIsSent, Marked
  <2>2. Told(j) /\ j \in Keys
    BY <1>2, <2>1, MarkedAreKeys DEF Told
  <2>3. LET heard == {cache[j].val, "expired"}
        IN  \/ j \notin Holds(report) \cup Holds(im) /\ apps[j] \in heard
            \/ j \in Holds(report) \ Holds(im) /\ report.sent[j] \in heard
            \/ j \in Holds(im) \ Holds(report) /\ im.sent[j] \in heard
    BY <2>2 DEF IInv, ToldIsSent, Marked
  <2>4. Holds(im)' = {} /\ Holds(report)' = Holds(report)
    BY <1>2, IdleShape DEF Holds
  <2>5. apps'[j] = IF j \in Holds(im) THEN im.sent[j] ELSE apps[j]
    BY <1>2, <2>2 DEF Heard
  <2>6. QED
    BY <1>2, <2>3, <2>4, <2>5
<1>5. QED
  BY <1>1, <1>2, <1>3, <1>4, MarksChange

(***************************************************************************)
(* The theorems.                                                           *)
(***************************************************************************)

\* A driver without a group.
LEMMA InitIInv == Init => IInv
<1> SUFFICES ASSUME Init
             PROVE  IInv
  OBVIOUS
<1>1. Idle \in Senders
  BY IdleShape
<1>2. \A k \in Keys : cache[k] = None
  BY DEF Init
<1>3. TypeOK
  BY <1>1, UnsetShape DEF Init, TypeOK, Given
<1>4. ChangeIsTaken /\ GroupIsCached
  BY UnsetShape DEF Init, ChangeIsTaken, GroupIsCached
<1>5. EntriesAreOwned /\ SplitIsCurrent /\ PurgedIsEmpty
  BY <1>2 DEF Init, EntriesAreOwned, SplitIsCurrent, PurgedIsEmpty
<1>6. ToldIsSent
  BY <1>2, MarkedAreKeys DEF ToldIsSent, Told, Marked
<1>7. QED
  BY <1>3, <1>4, <1>5, <1>6 DEF IInv

\* Nothing happens.
LEMMA StutterKeepsIInv ==
      ASSUME IInv, UNCHANGED vars
      PROVE  IInv'
<1>1. UNCHANGED <<name, conf, dirty, taken, reader, cache, report, im,
                  apps, overlap, renamed, behind, crossed>>
  BY DEF vars
<1>2. TypeOK' /\ ChangeIsTaken' /\ GroupIsCached' /\ EntriesAreOwned'
  BY <1>1 DEF IInv, TypeOK, ChangeIsTaken, GroupIsCached, EntriesAreOwned, Split, ReadTags
<1>3. SplitIsCurrent' /\ PurgedIsEmpty'
  BY <1>1 DEF IInv, SplitIsCurrent, PurgedIsEmpty, Split, ReadTags
<1>4. \A k \in Marked : Told(k)' => Told(k) /\ cache'[k].val = cache[k].val
  BY <1>1 DEF Told
<1>5. ToldIsSent'
  BY <1>1, <1>4, ToldStays DEF IInv
<1>6. QED
  BY <1>2, <1>3, <1>5 DEF IInv

\* Every step of the three threads preserves the invariant.
LEMMA NextKeepsIInv == IInv /\ [Next]_vars => IInv'
<1> SUFFICES ASSUME IInv, [Next]_vars
             PROVE  IInv'
  OBVIOUS
<1>1. CASE AdapterThread
  BY <1>1, AddGroupKeepsIInv, AddTagKeepsIInv, UpdateTagKeepsIInv, DelTagKeepsIInv,
     WriteStaticKeepsIInv, RenameKeepsIInv, DelGroupKeepsIInv, ReportKeepsIInv,
     ReportTagKeepsIInv, ReportSendKeepsIInv DEF AdapterThread
<1>2. CASE DriverThread
  BY <1>2, SplitGroupKeepsIInv, PurgeCacheKeepsIInv, FillCacheKeepsIInv DEF DriverThread
<1>3. CASE PluginThread
  BY <1>3, UpdateKeepsIInv, UpdateGroupKeepsIInv, UpdateImKeepsIInv, ImTagKeepsIInv,
     ImSendKeepsIInv DEF PluginThread
<1>4. CASE \E k \in Keys : Expire(k)
  BY <1>4, ExpireKeepsIInv
<1>5. CASE UNCHANGED vars
  BY <1>5, StutterKeepsIInv
<1>6. QED
  BY <1>1, <1>2, <1>3, <1>4, <1>5 DEF Next

\* The inductive invariant holds in every state: what the driver has split and
\* what a sender holds are what the group and the cache need.
THEOREM Invariance == Spec => []IInv
<1>1. QED
  BY InitIInv, NextKeepsIInv, PTL DEF Spec

\* Every variable has its type, and a driver without a group reads nothing.
THEOREM TypeCorrect == Spec => []TypeOK
<1>1. IInv => TypeOK
  BY DEF IInv
<1>2. QED
  BY <1>1, Invariance, PTL

\* read_callback misses no change of the group, but one that comes while it
\* takes the one before (neu_group_change_test).
THEOREM NoChangeIsMissed == Spec => []ChangeIsTaken
<1>1. IInv => ChangeIsTaken
  BY DEF IInv
<1>2. QED
  BY <1>1, Invariance, PTL

\* The tags the driver reads are in the cache, the static ones with their
\* value (group_change, neu_adapter_driver_write_tag).
THEOREM TagsAreCached == Spec => []GroupIsCached
<1>1. IInv => GroupIsCached
  BY DEF IInv
<1>2. QED
  BY <1>1, Invariance, PTL

\* No entry of the cache outlives its tag or its group, whatever the plugin
\* updates and when (group_change, neu_adapter_driver_del_group).
THEOREM NothingIsLeftBehind == Spec => []EntriesAreOwned
<1>1. IInv => EntriesAreOwned
  BY DEF IInv
<1>2. QED
  BY <1>1, Invariance, PTL

\* No mark of a SUBSCRIBE tag is lost between the plugin that sets it and the
\* two threads that remove it and send (neu_driver_cache_update_change,
\* neu_driver_cache_meta_get_changed, report_callback, update_im).
THEOREM ChangesAreHeard == Spec => []UnmarkedIsHeard
<1>1. IInv => UnmarkedIsHeard
  <2>1. SUFFICES ASSUME IInv, NEW t \in Exact \cup Bytes
                 PROVE  LET k == <<name, t>> IN
                        /\ taken[t].attr = "subscribe" /\ ~renamed
                        /\ cache[k] # None /\ ~cache[k].changed /\ cache[k].val # Error
                        /\ k \notin Holds(report) \cup Holds(im) \cup crossed
                        => apps[k] \in {cache[k].val, "expired"}
    BY DEF UnmarkedIsHeard
  <2> DEFINE k == <<name, t>>
  <2>2. SUFFICES ASSUME taken[t].attr = "subscribe", ~renamed, cache[k] # None,
                        ~cache[k].changed, cache[k].val # Error,
                        k \notin Holds(report) \cup Holds(im) \cup crossed
                 PROVE  apps[k] \in {cache[k].val, "expired"}
    OBVIOUS
  <2>3. t \in Tags
    BY ReadAssumption DEF Exact
  <2>4. taken[t] # Unset
    BY <2>2, UnsetShape
  <2>5. name \in Names
    BY <2>1, <2>3, <2>4, NoGroup DEF IInv, TypeOK
  <2>6. k \in Names \X (Exact \cup Bytes) /\ k[1] = name /\ k[2] = t
    BY <2>5
  <2> HIDE DEF k
  <2>7. Told(k)
    BY <2>2, <2>6 DEF Told
  <2>8. QED
    BY <2>1, <2>2, <2>6, <2>7 DEF IInv, ToldIsSent
<1>2. QED
  BY <1>1, Invariance, PTL
=============================================================================
