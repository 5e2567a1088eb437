------------------------------ MODULE EventLoop ------------------------------
(***************************************************************************)
(* The event library (event_linux.c): one thread per neu_events_t that     *)
(* waits on an epoll instance and calls back for timers and descriptors,   *)
(* and the thread that owns the instance, which adds and deletes them and  *)
(* closes it.  Every adapter owns one instance and every driver a second   *)
(* one (neu_adapter_create, neu_adapter_esvdriver_create).                 *)
(*                                                                         *)
(* A timer has a mutex, which the loop holds while it calls back and       *)
(* neu_event_del_timer while it frees; its flag stop is read by the loop   *)
(* without it.  A descriptor has no mutex.  The event_data of a deleted    *)
(* handle is freed although the loop may be between epoll_wait, which gave *)
(* it the pointer, and its next use: what it does then is undefined, and   *)
(* modelled as three outcomes -- the event is dropped, the callback runs,  *)
(* the process dies.                                                       *)
(*                                                                         *)
(* A handle stands for one allocation, so it is added and deleted once.    *)
(* No step depends on a number: the handles are the only bound, besides    *)
(* LateMax for a history variable.                                         *)
(***************************************************************************)
EXTENDS Integers, FiniteSets

CONSTANTS
    Block,    \* timers of type NEU_EVENT_TIMER_BLOCK
    NoBlock,  \* timers of type NEU_EVENT_TIMER_NOBLOCK
    Ios,      \* descriptors added with neu_event_add_io
    Nothing   \* not a handle

Timers  == Block \cup NoBlock
Handles == Timers \cup Ios

ASSUME HandlesAssumption ==
    /\ Block \cap NoBlock = {}
    /\ Timers \cap Ios = {}
    /\ Nothing \notin Handles

VARIABLES
    mem,         \* handle -> its event_data: not allocated, live or freed
    stop,        \* timers with timer->stop set
    registered,  \* handles in the epoll instance
    pending,     \* handles whose descriptor is readable
    holder,      \* timer -> the thread that holds its mutex
    loop,        \* the loop's thread: [pc, cur]
    owner,       \* the owner's call: [pc, cur]
    events,      \* how far neu_event_close is
    proc,        \* "up", or "killed" by a use of freed memory
    late,        \* history: timer -> callbacks begun once its deletion had,
                 \*   counted up to LateMax
    fresh        \* history: timers expired since their last callback ended

vars == <<mem, stop, registered, pending, holder, loop, owner, events, proc,
          late, fresh>>

LoopStates ==
    [pc : {"top", "waiting", "exited"}, cur : {Nothing}]
    \cup [pc : {"woken", "event", "callback", "wild"}, cur : Handles]
    \cup [pc : {"expired", "locking"}, cur : Timers]

OwnerStates ==
    [pc : {"idle"}, cur : {Nothing}]
    \cup [pc : {"lock", "free", "unlock"}, cur : Timers]
    \cup [pc : {"freeio"}, cur : Ios]

up      == proc = "up"
Live(h) == mem[h] = "live"
At(l)   == [pc |-> l, cur |-> Nothing]
To(l)   == [loop EXCEPT !.pc = l]

\* The bound on the history late: a second late callback is one too many.
LateMax == 2

\* The loop is about to use the event_data of its current handle.
Touching == loop.pc \in {"event", "expired", "locking"}

-----------------------------------------------------------------------------
\* neu_event_new.
Init ==
    /\ mem        = [h \in Handles |-> "none"]
    /\ stop       = {}
    /\ registered = {}
    /\ pending    = {}
    /\ holder     = [t \in Timers |-> "none"]
    /\ loop       = At("top")
    /\ owner      = At("idle")
    /\ events     = "open"
    /\ proc       = "up"
    /\ late       = [t \in Timers |-> 0]
    /\ fresh      = {}

-----------------------------------------------------------------------------
(* The kernel: a timer expires, or input arrives on a descriptor.          *)

Expire(h) ==
    /\ up /\ Live(h) /\ h \notin pending
    /\ pending' = pending \cup {h}
    /\ fresh'   = fresh \cup ({h} \cap Timers)
    /\ UNCHANGED <<mem, stop, registered, holder, loop, owner, events, proc, late>>

-----------------------------------------------------------------------------
(* The loop's thread, event_loop.                                          *)

\* epoll_wait; on a closed instance it fails, and the thread ends.
EpollWait ==
    /\ up /\ loop.pc = "top"
    /\ loop' = IF events \in {"open", "stopping"} THEN At("waiting") ELSE At("exited")
    /\ UNCHANGED <<mem, stop, registered, pending, holder, owner, events, proc,
                   late, fresh>>

\* A call under way outlives close(): it still reports events.
Wake(h) ==
    /\ up /\ loop.pc = "waiting" /\ h \in registered \cap pending
    /\ loop' = [pc |-> "woken", cur |-> h]
    /\ UNCHANGED <<mem, stop, registered, pending, holder, owner, events, proc,
                   late, fresh>>

\* 1000 ms without an event; events->stop is not looked at.
Timeout ==
    /\ up /\ loop.pc = "waiting" /\ registered \cap pending = {}
    /\ loop' = At("top")
    /\ UNCHANGED <<mem, stop, registered, pending, holder, owner, events, proc,
                   late, fresh>>

CheckStop ==
    /\ up /\ loop.pc = "woken"
    /\ loop' = IF events = "open" THEN To("event") ELSE At("exited")
    /\ UNCHANGED <<mem, stop, registered, pending, holder, owner, events, proc,
                   late, fresh>>

\* read() takes the expirations off the timer's descriptor.
ReadTimer ==
    /\ up /\ loop.pc = "event" /\ loop.cur \in Timers /\ Live(loop.cur)
    /\ pending' = pending \ {loop.cur}
    /\ loop'    = To("expired")
    /\ UNCHANGED <<mem, stop, registered, holder, owner, events, proc, late, fresh>>

\* Slip: the flag of the timer is not looked at.
CheckNoTimerStop ==
    /\ up /\ loop.pc = "expired" /\ Live(loop.cur)
    /\ loop' = To("locking")
    /\ UNCHANGED <<mem, stop, registered, pending, holder, owner, events, proc,
                   late, fresh>>

\* Slip: data keeps the handle of the event before.
CheckTimerStopKeeps ==
    /\ up /\ loop.pc = "expired" /\ Live(loop.cur)
    /\ loop' = To(IF loop.cur \in stop THEN "top" ELSE "locking")
    /\ UNCHANGED <<mem, stop, registered, pending, holder, owner, events, proc,
                   late, fresh>>

CheckTimerStop ==
    /\ up /\ loop.pc = "expired" /\ Live(loop.cur)
    /\ loop' = IF loop.cur \in stop THEN At("top") ELSE To("locking")
    /\ UNCHANGED <<mem, stop, registered, pending, holder, owner, events, proc,
                   late, fresh>>

\* The mutex is taken, a BLOCK timer leaves the epoll instance, and the
\* callback begins.
Callback ==
    /\ up /\ loop.pc = "locking" /\ Live(loop.cur) /\ holder[loop.cur] = "none"
    /\ holder'     = [holder EXCEPT ![loop.cur] = "loop"]
    /\ registered' = registered \ ({loop.cur} \cap Block)
    /\ loop'       = To("callback")
    /\ late'       = IF owner.cur = loop.cur
                     THEN [late EXCEPT ![loop.cur] = IF @ = 0 THEN 1 ELSE LateMax]
                     ELSE late
    /\ UNCHANGED <<mem, stop, pending, owner, events, proc, fresh>>

\* Slip: the timer is not set anew.
CallbackReturnsLate ==
    /\ up /\ loop.pc = "callback" /\ loop.cur \in Timers
    /\ holder'     = [holder EXCEPT ![loop.cur] = "none"]
    /\ registered' = registered \cup ({loop.cur} \cap Block)
    /\ fresh'      = fresh \ {loop.cur}
    /\ loop'       = At("top")
    /\ UNCHANGED <<mem, stop, pending, owner, events, proc, late>>

\* Slip: the timer does not return to the epoll instance.
CallbackReturnsAlone ==
    /\ up /\ loop.pc = "callback" /\ loop.cur \in Timers
    /\ holder'  = [holder EXCEPT ![loop.cur] = "none"]
    /\ pending' = pending \ ({loop.cur} \cap Block)
    /\ fresh'   = fresh \ {loop.cur}
    /\ loop'    = At("top")
    /\ UNCHANGED <<mem, stop, registered, owner, events, proc, late>>

\* The callback ends.  A BLOCK timer is set anew, which discards what expired
\* meanwhile, and returns to the epoll instance; the mutex is released.
CallbackReturns ==
    /\ up /\ loop.pc = "callback" /\ loop.cur \in Timers
    /\ holder'     = [holder EXCEPT ![loop.cur] = "none"]
    /\ pending'    = pending \ ({loop.cur} \cap Block)
    /\ registered' = registered \cup ({loop.cur} \cap Block)
    /\ fresh'      = fresh \ {loop.cur}
    /\ loop'       = At("top")
    /\ UNCHANGED <<mem, stop, owner, events, proc, late>>

\* A descriptor's callback, which no mutex protects; it takes the input.
IoCallback ==
    /\ up /\ loop.pc = "event" /\ loop.cur \in Ios /\ Live(loop.cur)
    /\ loop' = To("callback")
    /\ UNCHANGED <<mem, stop, registered, pending, holder, owner, events, proc,
                   late, fresh>>

IoCallbackReturns ==
    /\ up /\ loop.pc = "callback" /\ loop.cur \in Ios
    /\ pending' = pending \ {loop.cur}
    /\ loop'    = At("top")
    /\ UNCHANGED <<mem, stop, registered, holder, owner, events, proc, late, fresh>>

\* The loop uses an event_data that was freed, or a wild callback returns to
\* one: the event is dropped, the callback runs, or the process dies.
UseFreed(outcome) ==
    /\ up /\ Touching /\ mem[loop.cur] = "freed"
    /\ loop' = IF outcome = "runs" THEN To("wild") ELSE At("top")
    /\ proc' = IF outcome = "dies" THEN "killed" ELSE proc
    /\ UNCHANGED <<mem, stop, registered, pending, holder, owner, events, late, fresh>>

WildReturns(outcome) ==
    /\ up /\ loop.pc = "wild"
    /\ loop' = At("top")
    /\ proc' = IF outcome = "dies" THEN "killed" ELSE proc
    /\ UNCHANGED <<mem, stop, registered, pending, holder, owner, events, late, fresh>>

-----------------------------------------------------------------------------
(* The owner's thread.                                                     *)

\* neu_event_add_timer, neu_event_add_io.
Add(h) ==
    /\ up /\ owner.pc = "idle" /\ events = "open" /\ mem[h] = "none"
    /\ mem'        = [mem EXCEPT ![h] = "live"]
    /\ registered' = registered \cup {h}
    /\ UNCHANGED <<stop, pending, holder, loop, owner, events, proc, late, fresh>>

\* Slip: the flag is not set.
DelTimerUnflagged(t) ==
    /\ up /\ owner.pc = "idle" /\ events = "open" /\ Live(t)
    /\ owner' = [pc |-> "lock", cur |-> t]
    /\ UNCHANGED <<mem, stop, registered, pending, holder, loop, events, proc, late, fresh>>

\* neu_event_del_timer: the flag, then the mutex, close() and free(), the
\* mutex again.
DelTimer(t) ==
    /\ up /\ owner.pc = "idle" /\ events = "open" /\ Live(t)
    /\ stop'  = stop \cup {t}
    /\ owner' = [pc |-> "lock", cur |-> t]
    /\ UNCHANGED <<mem, registered, pending, holder, loop, events, proc, late, fresh>>

\* Slip: the mutex is not waited for.
DelLockAtOnce ==
    /\ up /\ owner.pc = "lock"
    /\ holder' = [holder EXCEPT ![owner.cur] = "owner"]
    /\ owner'  = [owner EXCEPT !.pc = "free"]
    /\ UNCHANGED <<mem, stop, registered, pending, loop, events, proc, late, fresh>>

DelLock ==
    /\ up /\ owner.pc = "lock" /\ holder[owner.cur] = "none"
    /\ holder' = [holder EXCEPT ![owner.cur] = "owner"]
    /\ owner'  = [owner EXCEPT !.pc = "free"]
    /\ UNCHANGED <<mem, stop, registered, pending, loop, events, proc, late, fresh>>

DelFree ==
    /\ up /\ owner.pc = "free"
    /\ mem'        = [mem EXCEPT ![owner.cur] = "freed"]
    /\ registered' = registered \ {owner.cur}
    /\ pending'    = pending \ {owner.cur}
    /\ owner'      = [owner EXCEPT !.pc = "unlock"]
    /\ UNCHANGED <<stop, holder, loop, events, proc, late, fresh>>

DelUnlock ==
    /\ up /\ owner.pc = "unlock"
    /\ holder' = [holder EXCEPT ![owner.cur] = "none"]
    /\ owner'  = At("idle")
    /\ UNCHANGED <<mem, stop, registered, pending, loop, events, proc, late, fresh>>

\* Slip: the descriptor stays in the epoll instance.
DelIoKeeps(i) ==
    /\ up /\ owner.pc = "idle" /\ events = "open" /\ Live(i)
    /\ owner' = [pc |-> "freeio", cur |-> i]
    /\ UNCHANGED <<mem, stop, registered, pending, holder, loop, events, proc, late, fresh>>

\* neu_event_del_io, without a mutex.
DelIo(i) ==
    /\ up /\ owner.pc = "idle" /\ events = "open" /\ Live(i)
    /\ registered' = registered \ {i}
    /\ owner'      = [pc |-> "freeio", cur |-> i]
    /\ UNCHANGED <<mem, stop, pending, holder, loop, events, proc, late, fresh>>

DelIoFree ==
    /\ up /\ owner.pc = "freeio"
    /\ mem'   = [mem EXCEPT ![owner.cur] = "freed"]
    /\ owner' = At("idle")
    /\ UNCHANGED <<stop, registered, pending, holder, loop, events, proc, late, fresh>>

\* neu_event_close: the flag, close(), pthread_join().
Close ==
    /\ up /\ owner.pc = "idle" /\ events = "open"
    /\ events' = "stopping"
    /\ UNCHANGED <<mem, stop, registered, pending, holder, loop, owner, proc,
                   late, fresh>>

CloseEpoll ==
    /\ up /\ events = "stopping"
    /\ events' = "closed"
    /\ UNCHANGED <<mem, stop, registered, pending, holder, loop, owner, proc,
                   late, fresh>>

Join ==
    /\ up /\ events = "closed" /\ loop.pc = "exited"
    /\ events' = "joined"
    /\ UNCHANGED <<mem, stop, registered, pending, holder, loop, owner, proc,
                   late, fresh>>

-----------------------------------------------------------------------------
Outcomes == {"dropped", "runs", "dies"}

LoopThread ==
    \/ EpollWait
    \/ \E h \in Handles : Wake(h)
    \/ Timeout
    \/ CheckStop
    \/ ReadTimer
    \/ CheckTimerStop
    \/ Callback
    \/ CallbackReturns
    \/ IoCallback
    \/ IoCallbackReturns
    \/ \E o \in Outcomes : UseFreed(o)
    \/ \E o \in Outcomes \ {"runs"} : WildReturns(o)

OwnerBegins ==
    \/ \E h \in Handles : Add(h)
    \/ \E t \in Timers : DelTimer(t)
    \/ \E i \in Ios : DelIo(i)
    \/ Close

OwnerGoesOn ==
    \/ DelLock
    \/ DelFree
    \/ DelUnlock
    \/ DelIoFree
    \/ CloseEpoll
    \/ Join

Next ==
    \/ \E h \in Handles : Expire(h)
    \/ LoopThread
    \/ OwnerBegins
    \/ OwnerGoesOn

Spec == Init /\ [][Next]_vars

\* Both threads are scheduled and every callback returns; timers keep
\* expiring; epoll puts a descriptor it has reported at the end of its ready
\* list, so one that is readable again and again is reported.
FairSpec ==
    /\ Spec
    /\ WF_vars(LoopThread)
    /\ WF_vars(OwnerGoesOn)
    /\ \A t \in Timers : WF_vars(Expire(t)) /\ SF_vars(Wake(t))

-----------------------------------------------------------------------------
(* Properties.                                                             *)

\* Types, and which handles each step of either thread can have.
TypeOK ==
    /\ mem \in [Handles -> {"none", "live", "freed"}]
    /\ stop \subseteq Timers
    /\ registered \subseteq Handles
    /\ pending \subseteq Handles
    /\ holder \in [Timers -> {"none", "loop", "owner"}]
    /\ loop \in LoopStates
    /\ owner \in OwnerStates
    /\ events \in {"open", "stopping", "closed", "joined"}
    /\ proc \in {"up", "killed"}
    /\ late \in [Timers -> 0 .. LateMax]
    /\ fresh \subseteq Timers

\* epoll never reports a pointer to freed memory: what is registered is live,
\* although a BLOCK timer is put back by the loop while the owner deletes it.
RegisteredIsLive == \A h \in registered : Live(h)

\* neu_event_del_timer waits for a callback under way: none that began with
\* the memory intact is still running when the timer is freed.
FreeWaitsForCallback ==
    loop.pc = "callback" /\ loop.cur \in Timers => Live(loop.cur)

\* Setting the flag before asking for the mutex bounds the callbacks that
\* may still begin: one, which had passed the check of the flag.
AtMostOneLateCallback == \A t \in Timers : late[t] <= 1

\* A BLOCK timer that expires during its callback is not called back for it:
\* a callback begins only after an expiration later than the last one's end.
BlockTimerPauses ==
    loop.pc = "callback" /\ loop.cur \in Block => loop.cur \in fresh

\* Why these hold: who holds a mutex, and what has been freed.
Locks ==
    \A t \in Timers :
        /\ holder[t] = "loop" <=> loop.pc = "callback" /\ loop.cur = t
        /\ holder[t] = "owner" <=> owner.pc \in {"free", "unlock"} /\ owner.cur = t

Deleting ==
    /\ \A t \in Timers : t \in stop /\ owner.cur # t => mem[t] = "freed"
    /\ owner.pc \in {"lock", "free", "freeio"} => Live(owner.cur)
    /\ owner.pc \in {"lock", "free", "unlock"} => owner.cur \in stop
    /\ owner.pc = "unlock" => mem[owner.cur] = "freed"
    /\ owner.pc = "freeio" => owner.cur \notin registered
    /\ \A h \in Handles : mem[h] = "none" => h \notin stop \cup registered \cup pending
    /\ loop.pc \in {"woken", "event", "expired", "locking", "callback", "wild"}
          => mem[loop.cur] # "none"

LateOnce ==
    \A t \in Timers :
        /\ late[t] # 0 => t \in stop
        /\ loop = [pc |-> "locking", cur |-> t] => late[t] = 0

Pauses ==
    /\ loop.cur \in Block /\ loop.pc \in {"woken", "event", "expired", "locking"}
          => loop.cur \in fresh
    /\ pending \cap Block \subseteq fresh

IInv ==
    /\ TypeOK
    /\ Locks
    /\ Deleting
    /\ LateOnce
    /\ Pauses
    /\ RegisteredIsLive
    /\ FreeWaitsForCallback
    /\ AtMostOneLateCallback
    /\ BlockTimerPauses

\* A timer that is neither being deleted nor closed with its loop is called
\* back again and again, whatever the other handles do.
Served(t) == Live(t) /\ t \notin stop /\ events = "open" /\ up

TimerFires ==
    \A t \in Timers : []<>(~Served(t) \/ loop = [pc |-> "callback", cur |-> t])

\* neu_event_del_timer returns: the loop cannot take the mutex again and
\* again from a deletion that waits for it.  And neu_event_close returns,
\* wherever the loop is when it is called.
OwnerReturns ==
    /\ \A t \in Timers : (t \in stop) ~> (owner.cur # t \/ ~up)
    /\ (events = "stopping") ~> (events = "joined" \/ ~up)

-----------------------------------------------------------------------------
(* What event.h says of a deleted timer, and the code does not do.         *)

\* neu_event_del_timer, "Remove timer from event": the event's thread does
\* not use a timer that was removed.
RemovedTimerIsUnused ==
    Touching /\ loop.cur \in Timers => mem[loop.cur] # "freed"
=============================================================================
