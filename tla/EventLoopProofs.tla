-------------------------- MODULE EventLoopProofs --------------------------
(***************************************************************************)
(* Proofs about EventLoop, for any set of handles.                         *)
(***************************************************************************)
EXTENDS EventLoop, TLAPS

USE HandlesAssumption DEF Handles, Timers, LateMax

\* neu_event_new satisfies the inductive invariant.
LEMMA InitIInv == Init => IInv
<1> SUFFICES ASSUME Init PROVE IInv
  OBVIOUS
<1>1. TypeOK
  BY DEF Init, TypeOK, At, LoopStates, OwnerStates
<1>2. Locks /\ Deleting /\ LateOnce /\ Pauses
  BY DEF Init, At, Locks, Deleting, LateOnce, Pauses
<1>3. RegisteredIsLive /\ FreeWaitsForCallback /\ AtMostOneLateCallback /\ BlockTimerPauses
  BY DEF Init, At, RegisteredIsLive, FreeWaitsForCallback, AtMostOneLateCallback, BlockTimerPauses
<1>4. QED
  BY <1>1, <1>2, <1>3 DEF IInv

\* The inductive invariant is preserved by Expire.
LEMMA ExpireIInv ==
      ASSUME NEW h \in Handles, Expire(h), IInv
      PROVE  IInv'
<1>1. TypeOK'
  BY DEF Expire, IInv, TypeOK
<1>2. Locks'
  BY DEF Expire, IInv, At, Locks
<1>3. Deleting'
  BY DEF Expire, IInv, Live, Deleting
<1>4. LateOnce' /\ AtMostOneLateCallback'
  BY DEF Expire, IInv, LateOnce, AtMostOneLateCallback
<1>5. Pauses' /\ BlockTimerPauses'
  BY DEF Expire, IInv, Pauses, BlockTimerPauses
<1>6. RegisteredIsLive' /\ FreeWaitsForCallback'
  BY DEF Expire, IInv, Live, RegisteredIsLive, FreeWaitsForCallback
<1>7. QED
  BY <1>1, <1>2, <1>3, <1>4, <1>5, <1>6 DEF IInv

\* The inductive invariant is preserved by EpollWait.
LEMMA EpollWaitIInv ==
      ASSUME EpollWait, IInv
      PROVE  IInv'
<1>1. TypeOK'
  BY DEF EpollWait, IInv, TypeOK, At, LoopStates
<1>2. Locks'
  BY DEF EpollWait, IInv, At, Locks
<1>3. Deleting'
  BY DEF EpollWait, IInv, At, Live, Deleting
<1>4. LateOnce' /\ AtMostOneLateCallback'
  BY DEF EpollWait, IInv, At, LateOnce, AtMostOneLateCallback
<1>5. Pauses' /\ BlockTimerPauses'
  BY DEF EpollWait, IInv, At, Pauses, BlockTimerPauses
<1>6. RegisteredIsLive' /\ FreeWaitsForCallback'
  BY DEF EpollWait, IInv, At, Live, RegisteredIsLive, FreeWaitsForCallback
<1>7. QED
  BY <1>1, <1>2, <1>3, <1>4, <1>5, <1>6 DEF IInv

\* The inductive invariant is preserved by Wake.
LEMMA WakeIInv ==
      ASSUME NEW h \in Handles, Wake(h), IInv
      PROVE  IInv'
<1>1. TypeOK'
  BY DEF Wake, IInv, TypeOK, LoopStates
<1>2. Locks'
  BY DEF Wake, IInv, Locks
<1>3. Deleting'
  BY DEF Wake, IInv, Live, Deleting
<1>4. LateOnce' /\ AtMostOneLateCallback'
  BY DEF Wake, IInv, LateOnce, AtMostOneLateCallback
<1>5. Pauses' /\ BlockTimerPauses'
  BY DEF Wake, IInv, Pauses, BlockTimerPauses
<1>6. RegisteredIsLive' /\ FreeWaitsForCallback'
  BY DEF Wake, IInv, Live, RegisteredIsLive, FreeWaitsForCallback
<1>7. QED
  BY <1>1, <1>2, <1>3, <1>4, <1>5, <1>6 DEF IInv

\* The inductive invariant is preserved by Timeout.
LEMMA TimeoutIInv ==
      ASSUME Timeout, IInv
      PROVE  IInv'
<1>1. TypeOK'
  BY DEF Timeout, IInv, TypeOK, At, LoopStates
<1>2. Locks'
  BY DEF Timeout, IInv, At, Locks
<1>3. Deleting'
  BY DEF Timeout, IInv, At, Live, Deleting
<1>4. LateOnce' /\ AtMostOneLateCallback'
  BY DEF Timeout, IInv, At, LateOnce, AtMostOneLateCallback
<1>5. Pauses' /\ BlockTimerPauses'
  BY DEF Timeout, IInv, At, Pauses, BlockTimerPauses
<1>6. RegisteredIsLive' /\ FreeWaitsForCallback'
  BY DEF Timeout, IInv, At, Live, RegisteredIsLive, FreeWaitsForCallback
<1>7. QED
  BY <1>1, <1>2, <1>3, <1>4, <1>5, <1>6 DEF IInv

\* The inductive invariant is preserved by CheckStop.
LEMMA CheckStopIInv ==
      ASSUME CheckStop, IInv
      PROVE  IInv'
<1>1. TypeOK'
  BY DEF CheckStop, IInv, TypeOK, At, To, LoopStates
<1>2. Locks'
  BY DEF CheckStop, IInv, At, To, Locks
<1>3. Deleting'
  BY DEF CheckStop, IInv, At, To, Live, Deleting
<1>4. LateOnce' /\ AtMostOneLateCallback'
  BY DEF CheckStop, IInv, At, To, LateOnce, AtMostOneLateCallback
<1>5. Pauses' /\ BlockTimerPauses'
  BY DEF CheckStop, IInv, At, To, Pauses, BlockTimerPauses
<1>6. RegisteredIsLive' /\ FreeWaitsForCallback'
  BY DEF CheckStop, IInv, At, To, Live, RegisteredIsLive, FreeWaitsForCallback
<1>7. QED
  BY <1>1, <1>2, <1>3, <1>4, <1>5, <1>6 DEF IInv

\* The inductive invariant is preserved by ReadTimer.
LEMMA ReadTimerIInv ==
      ASSUME ReadTimer, IInv
      PROVE  IInv'
<1>1. TypeOK'
  BY DEF ReadTimer, IInv, TypeOK, At, To, Live, Touching, LoopStates, OwnerStates
<1>2. Locks'
  BY DEF ReadTimer, IInv, To, Locks
<1>3. Deleting'
  BY DEF ReadTimer, IInv, To, Live, Deleting
<1>4. LateOnce' /\ AtMostOneLateCallback'
  BY DEF ReadTimer, IInv, To, LateOnce, AtMostOneLateCallback
<1>5. Pauses' /\ BlockTimerPauses'
  BY DEF ReadTimer, IInv, To, Pauses, BlockTimerPauses
<1>6. RegisteredIsLive' /\ FreeWaitsForCallback'
  BY DEF ReadTimer, IInv, To, Live, RegisteredIsLive, FreeWaitsForCallback
<1>7. QED
  BY <1>1, <1>2, <1>3, <1>4, <1>5, <1>6 DEF IInv

\* The inductive invariant is preserved by CheckTimerStop.
LEMMA CheckTimerStopIInv ==
      ASSUME CheckTimerStop, IInv
      PROVE  IInv'
<1>1. TypeOK'
  BY DEF CheckTimerStop, IInv, TypeOK, At, To, LoopStates
<1>2. Locks'
  BY DEF CheckTimerStop, IInv, At, To, Locks
<1>3. Deleting'
  BY DEF CheckTimerStop, IInv, At, To, Live, Deleting
<1>4. LateOnce' /\ AtMostOneLateCallback'
  BY DEF CheckTimerStop, IInv, At, To, LateOnce, AtMostOneLateCallback
<1>5. Pauses' /\ BlockTimerPauses'
  BY DEF CheckTimerStop, IInv, At, To, Pauses, BlockTimerPauses
<1>6. RegisteredIsLive' /\ FreeWaitsForCallback'
  BY DEF CheckTimerStop, IInv, At, To, Live, RegisteredIsLive, FreeWaitsForCallback
<1>7. QED
  BY <1>1, <1>2, <1>3, <1>4, <1>5, <1>6 DEF IInv

\* The inductive invariant is preserved by Callback.
LEMMA CallbackIInv ==
      ASSUME Callback, IInv
      PROVE  IInv'
<1>1. TypeOK'
  BY DEF Callback, IInv, TypeOK, To, LoopStates
<1>2. Locks'
  BY DEF Callback, IInv, TypeOK, To, Locks
<1>3. Deleting'
  BY DEF Callback, IInv, To, Live, Deleting
<1>4. LateOnce' /\ AtMostOneLateCallback'
  BY DEF Callback, IInv, TypeOK, To, LoopStates, OwnerStates, LateOnce, AtMostOneLateCallback, Deleting
<1>5. Pauses' /\ BlockTimerPauses'
  BY DEF Callback, IInv, To, Pauses, BlockTimerPauses
<1>6. RegisteredIsLive' /\ FreeWaitsForCallback'
  BY DEF Callback, IInv, To, Live, RegisteredIsLive, FreeWaitsForCallback
<1>7. QED
  BY <1>1, <1>2, <1>3, <1>4, <1>5, <1>6 DEF IInv

\* The inductive invariant is preserved by CallbackReturns.
LEMMA CallbackReturnsIInv ==
      ASSUME CallbackReturns, IInv
      PROVE  IInv'
<1>1. TypeOK'
  BY DEF CallbackReturns, IInv, TypeOK, At, LoopStates
<1>2. Locks'
  BY DEF CallbackReturns, IInv, TypeOK, At, Locks
<1>3. Deleting'
  BY DEF CallbackReturns, IInv, TypeOK, At, Live, OwnerStates, Deleting
<1>4. LateOnce' /\ AtMostOneLateCallback'
  BY DEF CallbackReturns, IInv, At, LateOnce, AtMostOneLateCallback
<1>5. Pauses' /\ BlockTimerPauses'
  BY DEF CallbackReturns, IInv, At, Pauses, BlockTimerPauses
<1>6. RegisteredIsLive' /\ FreeWaitsForCallback'
  BY DEF CallbackReturns, IInv, At, Live, RegisteredIsLive, FreeWaitsForCallback
<1>7. QED
  BY <1>1, <1>2, <1>3, <1>4, <1>5, <1>6 DEF IInv

\* The inductive invariant is preserved by IoCallback.
LEMMA IoCallbackIInv ==
      ASSUME IoCallback, IInv
      PROVE  IInv'
<1>1. TypeOK'
  BY DEF IoCallback, IInv, TypeOK, To, LoopStates
<1>2. Locks'
  BY DEF IoCallback, IInv, To, Locks
<1>3. Deleting'
  BY DEF IoCallback, IInv, To, Live, Deleting
<1>4. LateOnce' /\ AtMostOneLateCallback'
  BY DEF IoCallback, IInv, To, LateOnce, AtMostOneLateCallback
<1>5. Pauses' /\ BlockTimerPauses'
  BY DEF IoCallback, IInv, To, Pauses, BlockTimerPauses
<1>6. RegisteredIsLive' /\ FreeWaitsForCallback'
  BY DEF IoCallback, IInv, To, Live, RegisteredIsLive, FreeWaitsForCallback
<1>7. QED
  BY <1>1, <1>2, <1>3, <1>4, <1>5, <1>6 DEF IInv

\* The inductive invariant is preserved by IoCallbackReturns.
LEMMA IoCallbackReturnsIInv ==
      ASSUME IoCallbackReturns, IInv
      PROVE  IInv'
<1>1. TypeOK'
  BY DEF IoCallbackReturns, IInv, TypeOK, At, LoopStates
<1>2. Locks'
  BY DEF IoCallbackReturns, IInv, At, Locks
<1>3. Deleting'
  BY DEF IoCallbackReturns, IInv, At, Live, Deleting
<1>4. LateOnce' /\ AtMostOneLateCallback'
  BY DEF IoCallbackReturns, IInv, At, LateOnce, AtMostOneLateCallback
<1>5. Pauses' /\ BlockTimerPauses'
  BY DEF IoCallbackReturns, IInv, At, Pauses, BlockTimerPauses
<1>6. RegisteredIsLive' /\ FreeWaitsForCallback'
  BY DEF IoCallbackReturns, IInv, At, Live, RegisteredIsLive, FreeWaitsForCallback
<1>7. QED
  BY <1>1, <1>2, <1>3, <1>4, <1>5, <1>6 DEF IInv

\* The inductive invariant is preserved by UseFreed.
LEMMA UseFreedIInv ==
      ASSUME NEW o \in Outcomes, UseFreed(o), IInv
      PROVE  IInv'
<1>1. TypeOK'
  BY DEF UseFreed, IInv, TypeOK, At, To, Touching, LoopStates
<1>2. Locks'
  BY DEF UseFreed, IInv, At, To, Touching, Locks
<1>3. Deleting'
  BY DEF UseFreed, IInv, At, To, Live, Deleting
<1>4. LateOnce' /\ AtMostOneLateCallback'
  BY DEF UseFreed, IInv, At, To, LateOnce, AtMostOneLateCallback
<1>5. Pauses' /\ BlockTimerPauses'
  BY DEF UseFreed, IInv, At, To, Pauses, BlockTimerPauses
<1>6. RegisteredIsLive' /\ FreeWaitsForCallback'
  BY DEF UseFreed, IInv, At, To, Live, RegisteredIsLive, FreeWaitsForCallback
<1>7. QED
  BY <1>1, <1>2, <1>3, <1>4, <1>5, <1>6 DEF IInv

\* The inductive invariant is preserved by WildReturns.
LEMMA WildReturnsIInv ==
      ASSUME NEW o \in Outcomes, WildReturns(o), IInv
      PROVE  IInv'
<1>1. TypeOK'
  BY DEF WildReturns, IInv, TypeOK, At, LoopStates
<1>2. Locks'
  BY DEF WildReturns, IInv, TypeOK, At, To, Live, Touching, LoopStates, OwnerStates, Locks
<1>3. Deleting'
  BY DEF WildReturns, IInv, At, Live, Deleting
<1>4. LateOnce' /\ AtMostOneLateCallback'
  BY DEF WildReturns, IInv, At, LateOnce, AtMostOneLateCallback
<1>5. Pauses' /\ BlockTimerPauses'
  BY DEF WildReturns, IInv, At, Pauses, BlockTimerPauses
<1>6. RegisteredIsLive' /\ FreeWaitsForCallback'
  BY DEF WildReturns, IInv, At, Live, RegisteredIsLive, FreeWaitsForCallback
<1>7. QED
  BY <1>1, <1>2, <1>3, <1>4, <1>5, <1>6 DEF IInv

\* The inductive invariant is preserved by Add.
LEMMA AddIInv ==
      ASSUME NEW h \in Handles, Add(h), IInv
      PROVE  IInv'
<1>1. TypeOK'
  BY DEF Add, IInv, TypeOK
<1>2. Locks'
  BY DEF Add, IInv, Locks
<1>3. Deleting'
  BY DEF Add, IInv, TypeOK, Deleting
<1>4. LateOnce' /\ AtMostOneLateCallback'
  BY DEF Add, IInv, LateOnce, AtMostOneLateCallback
<1>5. Pauses' /\ BlockTimerPauses'
  BY DEF Add, IInv, Pauses, BlockTimerPauses
<1>6. RegisteredIsLive' /\ FreeWaitsForCallback'
  BY DEF Add, IInv, TypeOK, Live, RegisteredIsLive, FreeWaitsForCallback
<1>7. QED
  BY <1>1, <1>2, <1>3, <1>4, <1>5, <1>6 DEF IInv

\* The inductive invariant is preserved by DelTimer.
LEMMA DelTimerIInv ==
      ASSUME NEW t \in Timers, DelTimer(t), IInv
      PROVE  IInv'
<1>1. TypeOK'
  BY DEF DelTimer, IInv, TypeOK, OwnerStates
<1>2. Locks'
  BY DEF DelTimer, IInv, Locks
<1>3. Deleting'
  BY DEF DelTimer, IInv, TypeOK, Live, OwnerStates, Deleting
<1>4. LateOnce' /\ AtMostOneLateCallback'
  BY DEF DelTimer, IInv, LateOnce, AtMostOneLateCallback
<1>5. Pauses' /\ BlockTimerPauses'
  BY DEF DelTimer, IInv, Pauses, BlockTimerPauses
<1>6. RegisteredIsLive' /\ FreeWaitsForCallback'
  BY DEF DelTimer, IInv, Live, RegisteredIsLive, FreeWaitsForCallback
<1>7. QED
  BY <1>1, <1>2, <1>3, <1>4, <1>5, <1>6 DEF IInv

\* The inductive invariant is preserved by DelLock.
LEMMA DelLockIInv ==
      ASSUME DelLock, IInv
      PROVE  IInv'
<1>1. TypeOK'
  BY DEF DelLock, IInv, TypeOK, OwnerStates
<1>2. Locks'
  BY DEF DelLock, IInv, TypeOK, Locks
<1>3. Deleting'
  BY DEF DelLock, IInv, Live, Deleting
<1>4. LateOnce' /\ AtMostOneLateCallback'
  BY DEF DelLock, IInv, LateOnce, AtMostOneLateCallback
<1>5. Pauses' /\ BlockTimerPauses'
  BY DEF DelLock, IInv, Pauses, BlockTimerPauses
<1>6. RegisteredIsLive' /\ FreeWaitsForCallback'
  BY DEF DelLock, IInv, Live, RegisteredIsLive, FreeWaitsForCallback
<1>7. QED
  BY <1>1, <1>2, <1>3, <1>4, <1>5, <1>6 DEF IInv

\* The inductive invariant is preserved by DelFree.
LEMMA DelFreeIInv ==
      ASSUME DelFree, IInv
      PROVE  IInv'
<1>1. TypeOK'
  BY DEF DelFree, IInv, TypeOK, OwnerStates
<1>2. Locks'
  BY DEF DelFree, IInv, TypeOK, At, To, Live, Touching, LoopStates, OwnerStates, Locks
<1>3. Deleting'
  BY DEF DelFree, IInv, TypeOK, Deleting
<1>4. LateOnce' /\ AtMostOneLateCallback'
  BY DEF DelFree, IInv, TypeOK, At, To, Live, Touching, LoopStates, OwnerStates, LateOnce, AtMostOneLateCallback, Deleting
<1>5. Pauses' /\ BlockTimerPauses'
  BY DEF DelFree, IInv, Pauses, BlockTimerPauses
<1>6. RegisteredIsLive' /\ FreeWaitsForCallback'
  BY DEF DelFree, IInv, Live, RegisteredIsLive, FreeWaitsForCallback, Locks
<1>7. QED
  BY <1>1, <1>2, <1>3, <1>4, <1>5, <1>6 DEF IInv

\* The inductive invariant is preserved by DelUnlock.
LEMMA DelUnlockIInv ==
      ASSUME DelUnlock, IInv
      PROVE  IInv'
<1>1. TypeOK'
  BY DEF DelUnlock, IInv, TypeOK, At, OwnerStates
<1>2. Locks'
  BY DEF DelUnlock, IInv, TypeOK, At, Locks
<1>3. Deleting'
  BY DEF DelUnlock, IInv, At, Deleting
<1>4. LateOnce' /\ AtMostOneLateCallback'
  BY DEF DelUnlock, IInv, LateOnce, AtMostOneLateCallback
<1>5. Pauses' /\ BlockTimerPauses'
  BY DEF DelUnlock, IInv, Pauses, BlockTimerPauses
<1>6. RegisteredIsLive' /\ FreeWaitsForCallback'
  BY DEF DelUnlock, IInv, Live, RegisteredIsLive, FreeWaitsForCallback
<1>7. QED
  BY <1>1, <1>2, <1>3, <1>4, <1>5, <1>6 DEF IInv

\* The inductive invariant is preserved by DelIo.
LEMMA DelIoIInv ==
      ASSUME NEW i \in Ios, DelIo(i), IInv
      PROVE  IInv'
<1>1. TypeOK'
  BY DEF DelIo, IInv, TypeOK, OwnerStates
<1>2. Locks'
  BY DEF DelIo, IInv, Locks
<1>3. Deleting'
  BY DEF DelIo, IInv, TypeOK, Live, OwnerStates, Deleting
<1>4. LateOnce' /\ AtMostOneLateCallback'
  BY DEF DelIo, IInv, LateOnce, AtMostOneLateCallback
<1>5. Pauses' /\ BlockTimerPauses'
  BY DEF DelIo, IInv, Pauses, BlockTimerPauses
<1>6. RegisteredIsLive' /\ FreeWaitsForCallback'
  BY DEF DelIo, IInv, Live, RegisteredIsLive, FreeWaitsForCallback
<1>7. QED
  BY <1>1, <1>2, <1>3, <1>4, <1>5, <1>6 DEF IInv

\* The inductive invariant is preserved by DelIoFree.
LEMMA DelIoFreeIInv ==
      ASSUME DelIoFree, IInv
      PROVE  IInv'
<1>1. TypeOK'
  BY DEF DelIoFree, IInv, TypeOK, At, OwnerStates
<1>2. Locks'
  BY DEF DelIoFree, IInv, At, Locks
<1>3. Deleting'
  BY DEF DelIoFree, IInv, TypeOK, At, Deleting
<1>4. LateOnce' /\ AtMostOneLateCallback'
  BY DEF DelIoFree, IInv, LateOnce, AtMostOneLateCallback
<1>5. Pauses' /\ BlockTimerPauses'
  BY DEF DelIoFree, IInv, Pauses, BlockTimerPauses
<1>6. RegisteredIsLive' /\ FreeWaitsForCallback'
  BY DEF DelIoFree, IInv, TypeOK, Live, OwnerStates, RegisteredIsLive, FreeWaitsForCallback, Deleting
<1>7. QED
  BY <1>1, <1>2, <1>3, <1>4, <1>5, <1>6 DEF IInv

\* The inductive invariant is preserved by Close.
LEMMA CloseIInv ==
      ASSUME Close, IInv
      PROVE  IInv'
<1>1. TypeOK'
  BY DEF Close, IInv, TypeOK
<1>2. Locks'
  BY DEF Close, IInv, Locks
<1>3. Deleting'
  BY DEF Close, IInv, Deleting
<1>4. LateOnce' /\ AtMostOneLateCallback'
  BY DEF Close, IInv, LateOnce, AtMostOneLateCallback
<1>5. Pauses' /\ BlockTimerPauses'
  BY DEF Close, IInv, Pauses, BlockTimerPauses
<1>6. RegisteredIsLive' /\ FreeWaitsForCallback'
  BY DEF Close, IInv, Live, RegisteredIsLive, FreeWaitsForCallback
<1>7. QED
  BY <1>1, <1>2, <1>3, <1>4, <1>5, <1>6 DEF IInv

\* The inductive invariant is preserved by CloseEpoll.
LEMMA CloseEpollIInv ==
      ASSUME CloseEpoll, IInv
      PROVE  IInv'
<1>1. TypeOK'
  BY DEF CloseEpoll, IInv, TypeOK
<1>2. Locks'
  BY DEF CloseEpoll, IInv, Locks
<1>3. Deleting'
  BY DEF CloseEpoll, IInv, Live, Deleting
<1>4. LateOnce' /\ AtMostOneLateCallback'
  BY DEF CloseEpoll, IInv, LateOnce, AtMostOneLateCallback
<1>5. Pauses' /\ BlockTimerPauses'
  BY DEF CloseEpoll, IInv, Pauses, BlockTimerPauses
<1>6. RegisteredIsLive' /\ FreeWaitsForCallback'
  BY DEF CloseEpoll, IInv, Live, RegisteredIsLive, FreeWaitsForCallback
<1>7. QED
  BY <1>1, <1>2, <1>3, <1>4, <1>5, <1>6 DEF IInv

\* The inductive invariant is preserved by Join.
LEMMA JoinIInv ==
      ASSUME Join, IInv
      PROVE  IInv'
<1>1. TypeOK'
  BY DEF Join, IInv, TypeOK
<1>2. Locks'
  BY DEF Join, IInv, Locks
<1>3. Deleting'
  BY DEF Join, IInv, Live, Deleting
<1>4. LateOnce' /\ AtMostOneLateCallback'
  BY DEF Join, IInv, LateOnce, AtMostOneLateCallback
<1>5. Pauses' /\ BlockTimerPauses'
  BY DEF Join, IInv, Pauses, BlockTimerPauses
<1>6. RegisteredIsLive' /\ FreeWaitsForCallback'
  BY DEF Join, IInv, Live, RegisteredIsLive, FreeWaitsForCallback
<1>7. QED
  BY <1>1, <1>2, <1>3, <1>4, <1>5, <1>6 DEF IInv

\* Every step of either thread and of the kernel preserves the inductive
\* invariant.
LEMMA NextIInv == IInv /\ [Next]_vars => IInv'
<1> SUFFICES ASSUME IInv, [Next]_vars PROVE IInv'
  OBVIOUS
<1>1. CASE \E h \in Handles : Expire(h)
  BY <1>1, ExpireIInv
<1>2. CASE LoopThread
  BY <1>2, EpollWaitIInv, WakeIInv, TimeoutIInv, CheckStopIInv, ReadTimerIInv,
     CheckTimerStopIInv, CallbackIInv, CallbackReturnsIInv, IoCallbackIInv,
     IoCallbackReturnsIInv, UseFreedIInv, WildReturnsIInv DEF LoopThread
<1>3. CASE OwnerBegins
  BY <1>3, AddIInv, DelTimerIInv, DelIoIInv, CloseIInv DEF OwnerBegins
<1>4. CASE OwnerGoesOn
  BY <1>4, DelLockIInv, DelFreeIInv, DelUnlockIInv, DelIoFreeIInv,
     CloseEpollIInv, JoinIInv DEF OwnerGoesOn
<1>5. CASE UNCHANGED vars
  BY <1>5 DEF vars, IInv, TypeOK, Locks, Deleting, LateOnce, Pauses,
     RegisteredIsLive, FreeWaitsForCallback, AtMostOneLateCallback,
     BlockTimerPauses, Live
<1>6. QED
  BY <1>1, <1>2, <1>3, <1>4, <1>5 DEF Next

\* IInv holds in every reachable state of a loop and its owner (event_loop
\* and the neu_event_ functions), whatever handles they use.
THEOREM Invariance == Spec => []IInv
<1>1. QED
  BY InitIInv, NextIInv, PTL DEF Spec

\* Type correctness: the handle of each step of event_loop and of a deletion.
THEOREM TypeCorrect == Spec => []TypeOK
<1>1. IInv => TypeOK
  BY DEF IInv
<1>2. QED
  BY <1>1, Invariance, PTL

\* epoll never holds a pointer that neu_event_del_timer or neu_event_del_io
\* freed.
THEOREM RegisteredStaysLive == Spec => []RegisteredIsLive
<1>1. IInv => RegisteredIsLive
  BY DEF IInv
<1>2. QED
  BY <1>1, Invariance, PTL

\* neu_event_del_timer does not free a timer while event_loop is in its
\* callback.
THEOREM FreeIsExclusive == Spec => []FreeWaitsForCallback
<1>1. IInv => FreeWaitsForCallback
  BY DEF IInv
<1>2. QED
  BY <1>1, Invariance, PTL

\* Between the call of neu_event_del_timer and its free() one callback of the
\* timer begins at most.
THEOREM LateCallbackBound == Spec => []AtMostOneLateCallback
<1>1. IInv => AtMostOneLateCallback
  BY DEF IInv
<1>2. QED
  BY <1>1, Invariance, PTL

\* event_loop calls a BLOCK timer back only for an expiration that came after
\* its last callback.
THEOREM BlockPause == Spec => []BlockTimerPauses
<1>1. IInv => BlockTimerPauses
  BY DEF IInv
<1>2. QED
  BY <1>1, Invariance, PTL
=============================================================================
