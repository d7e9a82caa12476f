--------------------------- MODULE WakeLock_proof ---------------------------
(***************************************************************************)
(* Proofs about WakeLock for every set of locks and every timeout.         *)
(***************************************************************************)
EXTENDS WakeLock, TLAPS

(***************************************************************************)
(* The inductive invariant.  TimerBounds is what keeps the signed          *)
(* difference of a covered lock from wrapping before its timer goes off.   *)
(***************************************************************************)
TimerBounds ==
  /\ timer_pending => timer_expires >= -MaxTimerLag
  /\ Quiet /\ timer_pending =>
       \A l \in active \cap SuspendLocks : expires[l] >= timer_expires - LongMax + 1

IInv == TypeOK /\ TimerBounds /\ TimerCovers /\ NotStranded /\ PreventingIsExact

-----------------------------------------------------------------------------
\* queue_work() leaves the item pending, whether or not it was before.
LEMMA QueueWork ==
  ASSUME NEW q \in Seq({"suspend"})
  PROVE  /\ queue_work(q, "suspend") \in Seq({"suspend"})
         /\ \E i \in 1 .. Len(queue_work(q, "suspend")) : queue_work(q, "suspend")[i] = "suspend"
<1>1. CASE \E i \in 1 .. Len(q) : q[i] = "suspend"
  BY <1>1 DEF queue_work
<1>2. CASE ~ \E i \in 1 .. Len(q) : q[i] = "suspend"
  <2>1. queue_work(q, "suspend") = Append(q, "suspend")
    BY <1>2 DEF queue_work
  <2>2. Len(q) + 1 \in 1 .. Len(Append(q, "suspend")) /\ Append(q, "suspend")[Len(q) + 1] = "suspend"
    OBVIOUS
  <2> QED BY <2>1, <2>2
<1> QED BY <1>1, <1>2

\* The signed differences stay in the range of a C long.
LEMMA DecrementType ==
  ASSUME NEW n \in LongRange
  PROVE  Decrement(n) \in LongRange
BY TimeAssumption DEF Decrement, LongRange

\* What RestartExpireTimer leaves behind, for any lock sets it is given.
LEMMA RestartCovers ==
  ASSUME NEW act, NEW auto, NEW exp, 
         act \subseteq Locks, auto \subseteq act, exp \in [Locks -> LongRange],
         work_queue \in Seq({"suspend"}),
         \A l \in act \cap SuspendLocks \cap auto : HeldForever(act, auto) = {} => exp[l] > 0,
         RestartExpireTimer(act, auto, exp, work_queue)
  PROVE  /\ timer_pending' \in BOOLEAN
         /\ timer_expires' \in LongRange
         /\ work_queue' \in Seq({"suspend"})
         /\ timer_pending' => timer_expires' >= 0
         /\ HeldForever(act, auto) = {} =>
              /\ timer_pending' \/ SuspendQueued'
              /\ \A l \in act \cap SuspendLocks :
                   /\ timer_pending'
                   /\ exp[l] <= timer_expires'
                   /\ exp[l] >= timer_expires' - LongMax + 1
<1> USE TimeAssumption
<1>1. CASE HeldForever(act, auto) # {} /\ timer_pending' = FALSE /\ timer_expires' = 0 /\ work_queue' = work_queue
  <2>1. timer_expires' \in LongRange
    BY <1>1 DEF LongRange
  <2> QED BY <1>1, <2>1, Zenon
<1>2. CASE /\ HeldForever(act, auto) = {}
           /\ \E m \in act \cap SuspendLocks :
                /\ \A l \in act \cap SuspendLocks : exp[l] <= exp[m]
                /\ timer_expires' = exp[m]
           /\ timer_pending' = TRUE
           /\ work_queue' = work_queue
  <2>1. PICK m \in act \cap SuspendLocks :
                /\ \A l \in act \cap SuspendLocks : exp[l] <= exp[m]
                /\ timer_expires' = exp[m]
    BY <1>2
  <2>2. act \cap SuspendLocks \subseteq auto
    BY <1>2 DEF HeldForever
  <2>3. \A l \in act \cap SuspendLocks : exp[l] \in LongRange /\ exp[l] > 0
    BY <1>2, <2>2
  <2>4. \A l \in act \cap SuspendLocks : exp[l] >= exp[m] - LongMax + 1
    BY <2>3 DEF LongRange
  <2> QED BY <1>2, <2>1, <2>3, <2>4 DEF LongRange
<1>3. CASE ~SuspendLockHeld(act) /\ timer_pending' = FALSE /\ timer_expires' = 0 /\ work_queue' = queue_work(work_queue, "suspend")
  <2>1. work_queue' \in Seq({"suspend"}) /\ SuspendQueued'
    BY <1>3, QueueWork DEF SuspendQueued
  <2>2. timer_expires' \in LongRange
    BY <1>3 DEF LongRange
  <2>3. act \cap SuspendLocks = {}
    BY <1>3 DEF SuspendLockHeld
  <2> QED BY <1>3, <2>1, <2>2, <2>3, Zenon
<1> QED BY <1>1, <1>2, <1>3 DEF RestartExpireTimer

(***************************************************************************)
(* The common end of wake_lock_internal() and wake_unlock(): act, auto and *)
(* exp are the lists the scan has left.                                    *)
(***************************************************************************)
LEMMA RearmPreserves ==
  ASSUME NEW act, NEW auto, NEW exp,
         act \subseteq Locks, auto \subseteq act, exp \in [Locks -> LongRange],
         work_queue \in Seq({"suspend"}),
         HeldForever(act, auto) = {} => \A l \in act \cap SuspendLocks \cap auto : exp[l] > 0,
         active' = act, auto_expire' = auto, expires' = Expiries(exp, auto),
         RestartExpireTimer(act, auto, exp, work_queue)
  PROVE  /\ timer_pending' \in BOOLEAN
         /\ timer_expires' \in LongRange
         /\ work_queue' \in Seq({"suspend"})
         /\ expires' \in [Locks -> LongRange]
         /\ TimerBounds' /\ TimerCovers' /\ NotStranded'
<1>1. \A l \in act \cap SuspendLocks \cap auto : HeldForever(act, auto) = {} => exp[l] > 0
  OBVIOUS
<1>2. /\ timer_pending' \in BOOLEAN
      /\ timer_expires' \in LongRange
      /\ work_queue' \in Seq({"suspend"})
      /\ timer_pending' => timer_expires' >= 0
      /\ HeldForever(act, auto) = {} =>
           /\ timer_pending' \/ SuspendQueued'
           /\ \A l \in act \cap SuspendLocks :
                /\ timer_pending'
                /\ exp[l] <= timer_expires'
                /\ exp[l] >= timer_expires' - LongMax + 1
  BY <1>1, RestartCovers
<1>3. Quiet' <=> HeldForever(act, auto) = {}
  BY DEF Quiet
<1>4. expires' \in [Locks -> LongRange]
  BY TimeAssumption DEF Expiries, LongRange
<1>5. HeldForever(act, auto) = {} => \A l \in act \cap SuspendLocks : expires'[l] = exp[l]
  BY DEF Expiries, HeldForever
<1>6. NotStranded'
  BY <1>2, <1>3, Zenon DEF NotStranded
<1>7. TimerCovers'
  BY <1>2, <1>3, <1>5, Zenon DEF TimerCovers
<1>8. TimerBounds'
  <2>1. timer_pending' => timer_expires' >= -MaxTimerLag
    BY <1>2, TimeAssumption DEF LongRange
  <2> QED BY <2>1, <1>2, <1>3, <1>5, Zenon DEF TimerBounds
<1> QED BY <1>2, <1>4, <1>6, <1>7, <1>8

\* Taking a lock, whoever takes it, preserves the invariant.
LEMMA LockPreserves ==
  ASSUME IInv,
         NEW l \in Locks, NEW timeout \in 0 .. LongMax, NEW has_timeout \in BOOLEAN,
         wake_lock_internal(l, timeout, has_timeout, work_queue),
         timer_running' = timer_running, pc' \in PcValues,
         l \in SuspendLocks \/ pc' = pc
  PROVE  IInv'
<1> DEFINE lapsed == Lapsed(active, auto_expire, expires) \cap {l}
           act0   == active \cup {l}
           auto0  == IF has_timeout THEN auto_expire \cup {l} ELSE auto_expire \ {l}
           exp0   == Expiries([expires EXCEPT ![l] = timeout], auto0)
           prev0  == preventing \ lapsed
           prev1  == IF l \notin SuspendLocks \/ (l # main_wake_lock /\ main_wake_lock \in active)
                     THEN prev0
                     ELSE update_sleep_wait_stats_locked(prev0, act0, auto0, exp0, l = main_wake_lock)
           gone   == IF has_timeout /\ l \in SuspendLocks THEN Reaped(act0, auto0, exp0) ELSE {}
<1>1. /\ l \in initialized
      /\ active' = act0 \ gone
      /\ auto_expire' = auto0 \ gone
      /\ preventing' = prev1 \ gone
      /\ expires' = Expiries(exp0, auto0 \ gone)
      /\ initialized' = initialized
      /\ IF l \in SuspendLocks
         THEN /\ RestartExpireTimer(act0 \ gone, auto0 \ gone, exp0, work_queue)
              /\ event_seen' = TRUE
              /\ wait_for_wakeup' = FALSE
         ELSE /\ work_queue' = work_queue
              /\ UNCHANGED <<timer_vars, event_seen, wait_for_wakeup>>
  BY DEF wake_lock_internal
<1>2. /\ act0 \subseteq initialized /\ auto0 \subseteq act0 /\ prev1 \subseteq act0 \cap SuspendLocks
      /\ exp0 \in [Locks -> LongRange]
      /\ gone \subseteq act0 \cap auto0 \cap SuspendLocks
  <2>1. auto0 \subseteq act0 /\ act0 \subseteq initialized
    BY <1>1 DEF IInv, TypeOK
  <2>2. exp0 \in [Locks -> LongRange]
    BY TimeAssumption DEF IInv, TypeOK, Expiries, LongRange
  <2>3. gone \subseteq act0 \cap auto0 \cap SuspendLocks
    BY DEF Reaped, Lapsed
  <2>4. prev0 \subseteq act0 \cap SuspendLocks
    BY DEF IInv, TypeOK
  <2>5. prev1 \subseteq act0 \cap SuspendLocks
    BY <2>4 DEF update_sleep_wait_stats_locked
  <2> QED BY <2>1, <2>2, <2>3, <2>5
<1> HIDE DEF act0, auto0, exp0, prev0, prev1, gone, lapsed
<1>3. preventing' \subseteq active' \cap SuspendLocks
  BY <1>1, <1>2
<1>4. CASE l \in SuspendLocks
  <2>1. HeldForever(act0 \ gone, auto0 \ gone) = HeldForever(act0, auto0)
    BY <1>2 DEF HeldForever
  <2>2. HeldForever(act0, auto0) = {} =>
          \A k \in (act0 \ gone) \cap SuspendLocks \cap (auto0 \ gone) : exp0[k] > 0
    <3>1. SUFFICES ASSUME HeldForever(act0, auto0) = {},
                          NEW k \in (act0 \ gone) \cap SuspendLocks \cap (auto0 \ gone)
                   PROVE  exp0[k] > 0
      OBVIOUS
    <3>2. has_timeout
      BY <3>1, <1>4 DEF HeldForever, act0, auto0
    <3>3. exp0[k] \in Int
      BY <1>2, TimeAssumption DEF LongRange, IInv, TypeOK
    <3> QED BY <3>1, <3>2, <3>3, <1>4 DEF gone, Reaped, Lapsed
  <2>3. expires' = Expiries(exp0, auto0 \ gone)
    BY <1>1
  <2>4. /\ timer_pending' \in BOOLEAN
        /\ timer_expires' \in LongRange
        /\ work_queue' \in Seq({"suspend"})
        /\ expires' \in [Locks -> LongRange]
        /\ TimerBounds' /\ TimerCovers' /\ NotStranded'
    <3>1. work_queue \in Seq({"suspend"}) /\ act0 \ gone \subseteq Locks /\ auto0 \ gone \subseteq act0 \ gone
      BY <1>2 DEF IInv, TypeOK
    <3>2. RestartExpireTimer(act0 \ gone, auto0 \ gone, exp0, work_queue)
      BY <1>1, <1>4
    <3> QED BY <3>1, <3>2, <2>1, <2>2, <1>1, <1>2, RearmPreserves
  <2>5. TypeOK'
    BY <1>1, <1>2, <1>3, <1>4, <2>4 DEF TypeOK, IInv
  <2>6. PreventingIsExact'
    <3>1. main_wake_lock \in gone => HeldForever(act0, auto0) = {}
      BY DEF gone, Reaped
    <3>2. HeldForever(active', auto_expire') = HeldForever(act0, auto0)
      BY <2>1, <1>1
    <3>3. CASE l = main_wake_lock
      <4>1. prev1 = {}
        BY <3>3, <1>4 DEF prev1, prev0, update_sleep_wait_stats_locked, IInv, TypeOK
      <4>2. main_wake_lock \in act0
        BY <3>3 DEF act0
      <4> QED BY <4>1, <4>2, <3>1, <3>2, <1>1 DEF PreventingIsExact
    <3>4. CASE l # main_wake_lock /\ main_wake_lock \in active
      <4>1. prev1 = {}
        BY <3>4, <1>4 DEF prev1, prev0, IInv, PreventingIsExact
      <4>2. main_wake_lock \in act0
        BY <3>4 DEF act0
      <4> QED BY <4>1, <4>2, <3>1, <3>2, <1>1 DEF PreventingIsExact
    <3>5. CASE l # main_wake_lock /\ main_wake_lock \notin active
      <4>1. main_wake_lock \notin active'
        BY <3>5, <1>1 DEF act0
      <4>2. HeldForever(act0, auto0) \subseteq prev1
        BY <3>5, <1>4 DEF prev1, update_sleep_wait_stats_locked, HeldForever, Lapsed
      <4>3. HeldForever(act0, auto0) \cap gone = {}
        BY <1>2 DEF HeldForever
      <4> QED BY <4>1, <4>2, <4>3, <3>2, <1>1 DEF PreventingIsExact
    <3> QED BY <3>3, <3>4, <3>5
  <2> QED BY <2>4, <2>5, <2>6 DEF IInv
<1>5. CASE l \notin SuspendLocks
  <2>1. /\ active' = act0 /\ auto_expire' = auto0 /\ expires' = Expiries(exp0, auto0)
        /\ work_queue' = work_queue /\ timer_pending' = timer_pending /\ timer_expires' = timer_expires
        /\ event_seen' = event_seen /\ wait_for_wakeup' = wait_for_wakeup /\ pc' = pc
    BY <1>1, <1>5 DEF gone, timer_vars
  <2>2. preventing' = preventing
    BY <1>1, <1>5 DEF gone, prev1, prev0, lapsed, IInv, TypeOK
  <2>3. expires' \in [Locks -> LongRange]
    BY <1>2, <2>1, TimeAssumption DEF Expiries, LongRange
  <2>4. HeldForever(active', auto_expire') = HeldForever(active, auto_expire)
    BY <2>1, <1>5 DEF act0, auto0, HeldForever
  <2>5. active' \cap SuspendLocks = active \cap SuspendLocks
    BY <2>1, <1>5 DEF act0
  <2>6. \A k \in auto_expire \cap SuspendLocks : expires'[k] = expires[k]
    BY <2>1, <1>5 DEF exp0, auto0, Expiries, IInv, TypeOK
  <2>7. Quiet' = Quiet /\ (Quiet => active \cap SuspendLocks \subseteq auto_expire)
    BY <2>4 DEF Quiet, HeldForever
  <2>8. TypeOK'
    BY <1>1, <1>2, <1>3, <2>1, <2>3 DEF TypeOK, IInv
  <2>9. TimerBounds' /\ TimerCovers'
    BY <2>1, <2>5, <2>6, <2>7 DEF TimerBounds, TimerCovers, IInv
  <2>10. NotStranded'
    BY <2>1, <2>7, Zenon DEF NotStranded, SuspendQueued, IInv
  <2>11. PreventingIsExact'
    BY <2>1, <2>2, <2>4, <1>5, LocksAssumption DEF PreventingIsExact, IInv, act0
  <2> QED BY <2>8, <2>9, <2>10, <2>11 DEF IInv
<1> QED BY <1>4, <1>5

\* Releasing a lock preserves the invariant.
LEMMA UnlockPreserves ==
  ASSUME IInv, NEW l \in Locks, wake_unlock(l, work_queue),
         timer_running' = timer_running, pc' = pc
  PROVE  IInv'
<1> DEFINE act0  == active \ {l}
           auto0 == auto_expire \ {l}
           gone  == IF l \in SuspendLocks THEN Reaped(act0, auto0, expires) ELSE {}
           act1  == act0 \ gone
           auto1 == auto0 \ gone
           prev1 == (preventing \ {l}) \ gone
<1>1. /\ active' = act1 /\ auto_expire' = auto1 /\ expires' = Expiries(expires, auto1)
      /\ preventing' = IF l = main_wake_lock
                       THEN update_sleep_wait_stats_locked(prev1, act1, auto1, expires, FALSE)
                       ELSE prev1
      /\ IF l \in SuspendLocks
         THEN RestartExpireTimer(act1, auto1, expires, work_queue)
         ELSE work_queue' = work_queue /\ UNCHANGED timer_vars
      /\ UNCHANGED <<initialized, event_seen, wait_for_wakeup>>
  BY DEF wake_unlock
<1>2. /\ act1 \subseteq initialized /\ act1 \subseteq Locks /\ auto1 \subseteq act1
      /\ gone \subseteq auto0 \cap SuspendLocks
      /\ prev1 \subseteq act1 \cap SuspendLocks
      /\ expires \in [Locks -> LongRange]
      /\ work_queue \in Seq({"suspend"})
  BY DEF IInv, TypeOK, Reaped, Lapsed
<1>3. HeldForever(act1, auto1) = HeldForever(act0, auto0)
  BY DEF HeldForever, Reaped, Lapsed
<1>4. HeldForever(act0, auto0) = HeldForever(active, auto_expire) \ {l}
  BY DEF HeldForever
<1>5. main_wake_lock \in gone => HeldForever(act0, auto0) = {}
  BY DEF Reaped
<1>6. l \in SuspendLocks /\ HeldForever(act1, auto1) = {} =>
        \A k \in act1 \cap SuspendLocks \cap auto1 : expires[k] > 0
  <2>1. SUFFICES ASSUME l \in SuspendLocks, HeldForever(act0, auto0) = {},
                        NEW k \in act1 \cap SuspendLocks \cap auto1
                 PROVE  expires[k] > 0
    BY <1>3
  <2>2. k \in Locks
    BY <2>1, <1>2
  <2>3. expires[k] \in Int
    BY <2>2, <1>2, TimeAssumption DEF LongRange
  <2> QED BY <2>1, <2>3 DEF Reaped, Lapsed
<1> HIDE DEF act0, auto0, act1, auto1, prev1, gone
<1>7. preventing' \subseteq active' \cap SuspendLocks
  BY <1>1, <1>2 DEF update_sleep_wait_stats_locked
<1>8. PreventingIsExact'
  <2>1. CASE l = main_wake_lock
    <3>1. main_wake_lock \notin active'
      BY <2>1, <1>1 DEF act1, act0
    <3>2. HeldForever(act1, auto1) \subseteq preventing'
      BY <2>1, <1>1 DEF HeldForever, update_sleep_wait_stats_locked, Lapsed
    <3> QED BY <3>1, <3>2, <1>1 DEF PreventingIsExact
  <2>2. CASE l # main_wake_lock /\ main_wake_lock \in active
    <3>1. preventing' = {}
      BY <2>2, <1>1 DEF prev1, IInv, PreventingIsExact
    <3>2. main_wake_lock \in active' \/ main_wake_lock \in gone
      BY <2>2, <1>1 DEF act1, act0
    <3> QED BY <3>1, <3>2, <1>1, <1>3, <1>5 DEF PreventingIsExact
  <2>3. CASE l # main_wake_lock /\ main_wake_lock \notin active
    <3>1. main_wake_lock \notin active'
      BY <2>3, <1>1 DEF act1, act0
    <3>2. HeldForever(active, auto_expire) \subseteq preventing
      BY <2>3 DEF IInv, PreventingIsExact
    <3>3. HeldForever(act0, auto0) \cap gone = {}
      BY <1>2 DEF HeldForever
    <3>4. HeldForever(act1, auto1) \subseteq preventing'
      BY <3>2, <3>3, <1>1, <1>3, <1>4, <2>3 DEF prev1
    <3> QED BY <3>1, <3>4, <1>1 DEF PreventingIsExact
  <2> QED BY <2>1, <2>2, <2>3
<1>9. CASE l \in SuspendLocks
  <2>1. /\ timer_pending' \in BOOLEAN
        /\ timer_expires' \in LongRange
        /\ work_queue' \in Seq({"suspend"})
        /\ expires' \in [Locks -> LongRange]
        /\ TimerBounds' /\ TimerCovers' /\ NotStranded'
    BY <1>1, <1>2, <1>6, <1>9, RearmPreserves
  <2>2. TypeOK'
    BY <1>1, <1>2, <1>7, <2>1 DEF TypeOK, IInv
  <2> QED BY <1>8, <2>1, <2>2 DEF IInv
<1>10. CASE l \notin SuspendLocks
  <2>1. /\ work_queue' = work_queue /\ timer_pending' = timer_pending /\ timer_expires' = timer_expires
        /\ event_seen' = event_seen /\ wait_for_wakeup' = wait_for_wakeup /\ initialized' = initialized
    BY <1>1, <1>10 DEF timer_vars
  <2>2. expires' \in [Locks -> LongRange]
    BY <1>1, <1>2, TimeAssumption DEF Expiries, LongRange
  <2>3. HeldForever(active', auto_expire') = HeldForever(active, auto_expire)
    BY <1>1, <1>3, <1>4, <1>10 DEF HeldForever
  <2>4. active' \cap SuspendLocks = active \cap SuspendLocks
    BY <1>1, <1>10 DEF act1, act0, gone
  <2>5. \A k \in auto_expire \cap SuspendLocks : expires'[k] = expires[k]
    BY <1>1, <1>10 DEF auto1, auto0, gone, Expiries, IInv, TypeOK
  <2>6. Quiet' = Quiet /\ (Quiet => active \cap SuspendLocks \subseteq auto_expire)
    BY <2>3 DEF Quiet, HeldForever
  <2>7. TypeOK'
    BY <1>1, <1>2, <1>7, <2>1, <2>2 DEF TypeOK, IInv
  <2>8. TimerBounds' /\ TimerCovers'
    BY <2>1, <2>4, <2>5, <2>6 DEF TimerBounds, TimerCovers, IInv
  <2>9. NotStranded'
    BY <2>1, <2>6, Zenon DEF NotStranded, SuspendQueued, IInv
  <2> QED BY <1>8, <2>7, <2>8, <2>9 DEF IInv
<1> QED BY <1>9, <1>10

(***************************************************************************)
(* A scan outside the two list operations (expire_wake_locks(), suspend(), *)
(* the freezer, power_suspend_late()): the locks it leaves behind are all  *)
(* covered by a pending timer.                                             *)
(***************************************************************************)
LEMMA ScanPreserves ==
  ASSUME IInv, has_wake_lock, UNCHANGED <<timer_vars, initialized>>
  PROVE  /\ active' \subseteq initialized' /\ auto_expire' \subseteq active'
         /\ preventing' \subseteq active' \cap SuspendLocks
         /\ expires' \in [Locks -> LongRange]
         /\ Quiet' = Quiet
         /\ TimerBounds' /\ TimerCovers' /\ PreventingIsExact'
         /\ Quiet /\ SuspendLockHeld(active') => timer_pending
<1> DEFINE gone == Reaped(active, auto_expire, expires)
<1>1. /\ active' = active \ gone /\ auto_expire' = auto_expire \ gone
      /\ preventing' = preventing \ gone
      /\ expires' = Expiries(expires, auto_expire \ gone)
      /\ initialized' = initialized /\ timer_pending' = timer_pending /\ timer_expires' = timer_expires
  BY DEF has_wake_lock, ReapLocks, timer_vars
<1>2. gone \subseteq auto_expire \cap SuspendLocks
  BY DEF Reaped, Lapsed
<1>3. gone # {} => HeldForever(active, auto_expire) = {}
  BY DEF Reaped
<1>4. \A k \in (active \cap auto_expire \cap SuspendLocks) \ gone :
         HeldForever(active, auto_expire) = {} => expires[k] > 0
  <2>1. SUFFICES ASSUME NEW k \in (active \cap auto_expire \cap SuspendLocks) \ gone,
                        HeldForever(active, auto_expire) = {}
                 PROVE  expires[k] > 0
    OBVIOUS
  <2>2. expires[k] \in Int
    BY TimeAssumption DEF LongRange, IInv, TypeOK
  <2> QED BY <2>1, <2>2 DEF Reaped, Lapsed
<1> HIDE DEF gone
<1>5. HeldForever(active', auto_expire') = HeldForever(active, auto_expire)
  BY <1>1, <1>2 DEF HeldForever
<1>6. expires' \in [Locks -> LongRange]
  BY <1>1, TimeAssumption DEF Expiries, LongRange, IInv, TypeOK
<1>7. \A k \in auto_expire' : expires'[k] = expires[k]
  BY <1>1 DEF Expiries, IInv, TypeOK
<1>8. Quiet' = Quiet /\ (Quiet => active' \cap SuspendLocks \subseteq auto_expire')
  BY <1>1, <1>5 DEF Quiet, HeldForever
<1>9. Quiet => \A k \in active' \cap SuspendLocks :
                  timer_pending /\ expires[k] > 0 /\ expires'[k] = expires[k] /\ expires[k] <= timer_expires
  <2>1. SUFFICES ASSUME Quiet, NEW k \in active' \cap SuspendLocks
                 PROVE  timer_pending /\ expires[k] > 0 /\ expires'[k] = expires[k] /\ expires[k] <= timer_expires
    OBVIOUS
  <2>2. k \in (active \cap auto_expire \cap SuspendLocks) \ gone /\ k \in auto_expire'
    BY <2>1, <1>1, <1>8
  <2>3. expires[k] > 0 /\ expires'[k] = expires[k]
    BY <2>1, <2>2, <1>4, <1>7 DEF Quiet
  <2>4. expires[k] \in Int
    BY <2>2, TimeAssumption DEF LongRange, IInv, TypeOK
  <2>5. IF timer_pending THEN expires[k] <= timer_expires ELSE expires[k] <= 0
    BY <2>1, <2>2, Zenon DEF IInv, TimerCovers
  <2>6. ~(expires[k] <= 0)
    BY <2>3, <2>4
  <2> QED BY <2>3, <2>5, <2>6, Zenon
<1>10. TimerCovers'
  BY <1>1, <1>8, <1>9, Zenon DEF TimerCovers
<1>11. TimerBounds'
  BY <1>1, <1>8, <1>9 DEF TimerBounds, IInv
<1>12. PreventingIsExact'
  BY <1>1, <1>2, <1>3, <1>5 DEF PreventingIsExact, IInv, HeldForever
<1>13. Quiet /\ SuspendLockHeld(active') => timer_pending
  BY <1>9, Zenon DEF SuspendLockHeld
<1>14. /\ active' \subseteq initialized' /\ auto_expire' \subseteq active'
       /\ preventing' \subseteq active' \cap SuspendLocks
  BY <1>1 DEF IInv, TypeOK
<1> QED BY <1>6, <1>8, <1>10, <1>11, <1>12, <1>13, <1>14

-----------------------------------------------------------------------------
LEMMA InitInv == Init => IInv
<1> SUFFICES ASSUME Init PROVE IInv
  OBVIOUS
<1>1. HeldForever(active, auto_expire) = {main_wake_lock}
  BY LocksAssumption DEF Init, HeldForever
<1>2. TypeOK
  <2>1. expires \in [Locks -> LongRange] /\ timer_expires \in LongRange
    BY TimeAssumption DEF Init, LongRange
  <2>2. work_queue \in Seq({"suspend"})
    BY DEF Init
  <2> QED BY <2>1, <2>2, LocksAssumption DEF Init, TypeOK, PcValues
<1>3. ~Quiet
  BY <1>1 DEF Quiet
<1>4. PreventingIsExact
  BY DEF PreventingIsExact, Init
<1>5. TimerBounds
  BY <1>3, Zenon DEF TimerBounds, Init
<1> QED BY <1>2, <1>3, <1>4, <1>5 DEF IInv, TimerCovers, NotStranded

\* wake_lock_destroy() unlinks a lock nobody holds for ever and rearms nothing.
LEMMA DestroyPreserves ==
  ASSUME IInv, NEW l \in ClientLocks, wake_lock_destroy(l)
  PROVE  IInv'
<1>1. /\ active' = active \ {l} /\ auto_expire' = auto_expire \ {l}
      /\ preventing' = preventing \ {l} /\ initialized' = initialized \ {l}
      /\ expires' = Expiries(expires, auto_expire \ {l})
      /\ timer_pending' = timer_pending /\ timer_expires' = timer_expires
      /\ UNCHANGED <<timer_running, work_queue, pc, event_seen, wait_for_wakeup>>
      /\ l \in active => l \in auto_expire
  BY DEF wake_lock_destroy, timer_vars
<1>2. expires' \in [Locks -> LongRange]
  BY <1>1, TimeAssumption DEF Expiries, LongRange, IInv, TypeOK
<1>3. TypeOK'
  BY <1>1, <1>2 DEF IInv, TypeOK
<1>4. HeldForever(active', auto_expire') = HeldForever(active, auto_expire)
  BY <1>1 DEF HeldForever
<1>5. Quiet' = Quiet /\ (Quiet => active' \cap SuspendLocks \subseteq auto_expire')
  BY <1>1, <1>4 DEF Quiet, HeldForever
<1>6. \A k \in auto_expire' : expires'[k] = expires[k]
  BY <1>1 DEF Expiries, IInv, TypeOK
<1>7. TimerCovers' /\ TimerBounds'
  BY <1>1, <1>5, <1>6 DEF TimerCovers, TimerBounds, IInv
<1>8. NotStranded'
  BY <1>1, <1>5, Zenon DEF NotStranded, SuspendQueued, IInv
<1>9. PreventingIsExact'
  BY <1>1, <1>4 DEF PreventingIsExact, HeldForever, IInv, ClientLocks
<1> QED BY <1>3, <1>7, <1>8, <1>9 DEF IInv

\* A clock tick moves the covered locks and the timer together.
LEMMA TickPreserves ==
  ASSUME IInv, Tick
  PROVE  IInv'
<1>1. /\ UNCHANGED <<initialized, active, auto_expire, preventing, wait_for_wakeup>>
      /\ UNCHANGED <<timer_pending, timer_running, work_queue, pc, event_seen>>
      /\ timer_pending => timer_expires > -MaxTimerLag
      /\ ~timer_running
      /\ expires' = [l \in Locks |-> IF l \in auto_expire THEN Decrement(expires[l]) ELSE 0]
      /\ timer_expires' = IF timer_pending THEN timer_expires - 1 ELSE 0
  BY DEF Tick
<1>2. expires' \in [Locks -> LongRange]
  <2>1. \A l \in Locks : Decrement(expires[l]) \in LongRange
    BY DecrementType DEF IInv, TypeOK
  <2>2. 0 \in LongRange
    BY TimeAssumption DEF LongRange
  <2> QED BY <1>1, <2>1, <2>2
<1>3. timer_expires \in LongRange /\ timer_expires' \in LongRange
  <2>1. timer_expires \in LongRange
    BY DEF IInv, TypeOK
  <2>2. CASE timer_pending
    BY <2>1, <2>2, <1>1, TimeAssumption DEF LongRange
  <2>3. CASE ~timer_pending
    BY <2>1, <2>3, <1>1, TimeAssumption DEF LongRange
  <2> QED BY <2>1, <2>2, <2>3
<1>4. TypeOK'
  BY <1>1, <1>2, <1>3 DEF IInv, TypeOK
<1>5. Quiet' = Quiet
  BY <1>1 DEF Quiet
<1>6. Quiet => \A k \in active \cap SuspendLocks :
                  /\ timer_pending /\ expires'[k] = expires[k] - 1
                  /\ expires[k] \in Int /\ expires[k] <= timer_expires
                  /\ expires[k] >= timer_expires - LongMax + 1
  <2>1. SUFFICES ASSUME Quiet, NEW k \in active \cap SuspendLocks
                 PROVE  /\ timer_pending /\ expires'[k] = expires[k] - 1
                        /\ expires[k] \in Int /\ expires[k] <= timer_expires
                        /\ expires[k] >= timer_expires - LongMax + 1
    OBVIOUS
  <2>2. timer_pending /\ expires[k] <= timer_expires
    BY <2>1, <1>1, Zenon DEF IInv, TimerCovers
  <2>3. expires[k] >= timer_expires - LongMax + 1
    BY <2>1, <2>2, Zenon DEF IInv, TimerBounds
  <2>4. k \in Locks /\ k \in auto_expire
    BY <2>1 DEF Quiet, HeldForever, IInv, TypeOK
  <2>5. expires[k] \in LongRange
    BY <2>4 DEF IInv, TypeOK
  <2>6. timer_expires > -MaxTimerLag
    BY <1>1, <2>2
  <2>7. Decrement(expires[k]) = expires[k] - 1 /\ expires[k] \in Int
    BY <2>3, <2>5, <2>6, <1>3, TimeAssumption DEF Decrement, LongRange
  <2> QED BY <2>2, <2>3, <2>4, <2>7, <1>1
<1>7. TimerCovers'
  <2>1. SUFFICES ASSUME Quiet, NEW k \in active \cap SuspendLocks
                 PROVE  timer_pending' /\ expires'[k] <= timer_expires'
    BY <1>1, <1>5, Zenon DEF TimerCovers
  <2>2. /\ timer_pending /\ expires'[k] = expires[k] - 1
        /\ expires[k] \in Int /\ expires[k] <= timer_expires
    BY <2>1, <1>6
  <2>3. timer_expires' = timer_expires - 1 /\ timer_expires \in Int
    BY <2>2, <1>1, <1>3, TimeAssumption DEF LongRange
  <2>4. expires'[k] <= timer_expires'
    BY <2>2, <2>3
  <2> QED BY <2>2, <2>4, <1>1, Zenon
<1>8. TimerBounds'
  <2>1. timer_pending' => timer_expires' >= -MaxTimerLag
    <3>1. SUFFICES ASSUME timer_pending PROVE timer_expires' >= -MaxTimerLag
      BY <1>1, Zenon
    <3> QED BY <3>1, <1>1, <1>3, TimeAssumption DEF LongRange
  <2>2. ASSUME Quiet, timer_pending, NEW k \in active \cap SuspendLocks
        PROVE  expires'[k] >= timer_expires' - LongMax + 1
    <3>1. /\ expires'[k] = expires[k] - 1 /\ expires[k] \in Int
          /\ expires[k] >= timer_expires - LongMax + 1
      BY <2>2, <1>6
    <3>2. timer_expires' = timer_expires - 1 /\ timer_expires \in Int
      BY <2>2, <1>1, <1>3, TimeAssumption DEF LongRange
    <3> QED BY <3>1, <3>2, TimeAssumption
  <2> QED BY <2>1, <2>2, <1>1, <1>5, Zenon DEF TimerBounds
<1>9. NotStranded' /\ PreventingIsExact'
  BY <1>1, <1>5, Zenon DEF NotStranded, SuspendQueued, PreventingIsExact, IInv
<1> QED BY <1>4, <1>7, <1>8, <1>9 DEF IInv

(***************************************************************************)
(* The steps that scan the list: the timer handler and the four places in  *)
(* suspend() and below it that call has_wake_lock().                       *)
(***************************************************************************)
LEMMA ScanStepPreserves ==
  ASSUME IInv, expire_wake_locks \/ SuspendStart \/ PmFreezePoll \/ power_suspend_late
  PROVE  IInv'
<1>1. has_wake_lock /\ UNCHANGED <<timer_vars, initialized>>
  BY DEF expire_wake_locks, SuspendStart, PmFreezePoll, power_suspend_late
<1>2. /\ active' \subseteq initialized' /\ auto_expire' \subseteq active'
      /\ preventing' \subseteq active' \cap SuspendLocks
      /\ expires' \in [Locks -> LongRange]
      /\ Quiet' = Quiet
      /\ TimerBounds' /\ TimerCovers' /\ PreventingIsExact'
      /\ Quiet /\ SuspendLockHeld(active') => timer_pending
  BY <1>1, ScanPreserves
<1>3. initialized' = initialized /\ timer_pending' = timer_pending /\ timer_expires' = timer_expires
  BY <1>1 DEF timer_vars
<1>4. CASE expire_wake_locks
  <2>1. /\ work_queue' = IF SuspendLockHeld(active') THEN work_queue
                                                     ELSE queue_work(work_queue, "suspend")
        /\ timer_running' = FALSE /\ UNCHANGED <<wait_for_wakeup, pc, event_seen>>
    BY <1>4 DEF expire_wake_locks
  <2>2. work_queue' \in Seq({"suspend"}) /\ (~SuspendLockHeld(active') => SuspendQueued')
    BY <2>1, QueueWork DEF SuspendQueued, IInv, TypeOK
  <2>3. TypeOK'
    BY <1>2, <1>3, <2>1, <2>2 DEF TypeOK, IInv
  <2>4. NotStranded'
    BY <1>2, <1>3, <2>2, Zenon DEF NotStranded
  <2> QED BY <1>2, <2>3, <2>4 DEF IInv
<1>5. CASE SuspendStart
  <2>1. /\ work_queue # <<>> /\ work_queue' = Tail(work_queue)
        /\ pc' = IF SuspendLockHeld(active') THEN "idle" ELSE "checked"
        /\ UNCHANGED <<timer_running, wait_for_wakeup, event_seen>>
    BY <1>5 DEF SuspendStart
  <2>2. work_queue' \in Seq({"suspend"})
    BY <2>1 DEF IInv, TypeOK
  <2>3. TypeOK'
    BY <1>2, <1>3, <2>1, <2>2 DEF TypeOK, IInv, PcValues
  <2>4. NotStranded'
    BY <1>2, <1>3, <2>1, Zenon DEF NotStranded
  <2> QED BY <1>2, <2>3, <2>4 DEF IInv
<1>6. CASE PmFreezePoll \/ power_suspend_late
  <2>1. /\ pc = "pm" /\ pc' \in {"pm", "asleep", "exit"}
        /\ wait_for_wakeup' \in BOOLEAN
        /\ UNCHANGED <<timer_running, work_queue, event_seen>>
    BY <1>6 DEF PmFreezePoll, power_suspend_late, IInv, TypeOK
  <2>2. TypeOK'
    BY <1>2, <1>3, <2>1 DEF TypeOK, IInv, PcValues
  <2>3. pc # "checked" /\ pc # "idle" /\ pc' # "idle"
    BY <2>1
  <2>4. NotStranded'
    BY <1>2, <1>3, <2>1, <2>3, Zenon DEF NotStranded, SuspendQueued, IInv
  <2> QED BY <1>2, <2>2, <2>4 DEF IInv
<1> QED BY <1>4, <1>5, <1>6

\* Steps that touch neither the lists nor the expiry times.
LEMMA ControlStepPreserves ==
  ASSUME IInv, TimerExpires \/ SuspendEnter \/ PmFail \/ WakeUp \/ UNCHANGED vars
               \/ (\E l \in Locks : wake_lock_init(l)) \/ (SuspendExit /\ event_seen)
  PROVE  IInv'
<1>1. /\ UNCHANGED <<active, auto_expire, preventing, expires, wait_for_wakeup, work_queue>>
      /\ initialized \subseteq initialized' /\ initialized' \subseteq Locks
  BY DEF TimerExpires, SuspendEnter, PmFail, WakeUp, wake_lock_init, SuspendExit,
         vars, lock_vars, timer_vars, IInv, TypeOK
<1>2. Quiet' = Quiet /\ PreventingIsExact' = PreventingIsExact /\ SuspendQueued' = SuspendQueued
  BY <1>1 DEF Quiet, PreventingIsExact, SuspendQueued
<1>3. CASE TimerExpires
  <2>1. /\ timer_pending' = FALSE /\ timer_expires' = 0 /\ timer_running' = TRUE
        /\ timer_pending /\ timer_expires <= 0
        /\ UNCHANGED <<pc, event_seen, initialized>>
    BY <1>3 DEF TimerExpires, lock_vars
  <2>2. timer_expires' \in LongRange
    BY <2>1, TimeAssumption DEF LongRange
  <2>3. TypeOK'
    BY <1>1, <2>1, <2>2 DEF TypeOK, IInv
  <2>4. TimerCovers'
    <3>1. ASSUME Quiet, NEW k \in active \cap SuspendLocks
          PROVE  expires[k] <= 0
      <4>1. expires[k] <= timer_expires
        BY <3>1, <2>1, Zenon DEF IInv, TimerCovers
      <4>2. expires[k] \in Int /\ timer_expires \in Int
        BY TimeAssumption DEF IInv, TypeOK, LongRange
      <4> QED BY <4>1, <4>2, <2>1
    <3> QED BY <3>1, <1>1, <1>2, <2>1, Zenon DEF TimerCovers
  <2>5. TimerBounds' /\ NotStranded'
    BY <2>1, Zenon DEF TimerBounds, NotStranded
  <2> QED BY <1>2, <2>3, <2>4, <2>5 DEF IInv
<1>4. CASE ~TimerExpires
  <2>1. /\ UNCHANGED <<timer_pending, timer_expires, timer_running>>
        /\ pc' \in PcValues /\ event_seen' \in BOOLEAN
        /\ \/ pc' = pc /\ event_seen' = event_seen
           \/ pc' = "pm" /\ event_seen' = FALSE
           \/ pc # "checked" /\ pc # "idle" /\ pc' # "idle" /\ event_seen' = event_seen
           \/ pc # "checked" /\ event_seen
    BY <1>4 DEF SuspendEnter, PmFail, WakeUp, wake_lock_init, SuspendExit, PcValues,
                vars, lock_vars, timer_vars, IInv, TypeOK
  <2>2. TypeOK'
    BY <1>1, <2>1 DEF TypeOK, IInv
  <2>3. TimerCovers' /\ TimerBounds'
    BY <1>1, <1>2, <2>1 DEF TimerCovers, TimerBounds, IInv
  <2>4. "pm" # "idle"
    OBVIOUS
  <2>5. NotStranded'
    BY <1>2, <2>1, <2>4, Zenon DEF NotStranded, IInv
  <2> QED BY <1>2, <2>2, <2>3, <2>5 DEF IInv
<1> QED BY <1>3, <1>4

LEMMA StepInv == IInv /\ [Next]_vars => IInv'
<1> SUFFICES ASSUME IInv, [Next]_vars PROVE IInv'
  OBVIOUS
<1>a. /\ 0 \in 0 .. LongMax /\ HalfSecond \in 0 .. LongMax /\ Timeouts \subseteq 0 .. LongMax
      /\ pc \in PcValues /\ "idle" \in PcValues /\ TRUE \in BOOLEAN /\ FALSE \in BOOLEAN
  BY TimeAssumption DEF IInv, TypeOK, PcValues
<1>b. ASSUME NEW l \in Locks, wake_lock(l)
      PROVE  IInv'
  <2>1. wake_lock_internal(l, 0, FALSE, work_queue) /\ timer_running' = timer_running /\ pc' = pc
    BY <1>b DEF wake_lock
  <2>2. pc' \in PcValues
    BY <2>1, <1>a
  <2> QED BY <1>a, <1>b, <2>1, <2>2, LockPreserves, Zenon
<1>1. CASE MainLock
  <2>1. CASE wake_lock(main_wake_lock)
    BY <2>1, <1>b, LocksAssumption
  <2>2. CASE WakeUnlock(main_wake_lock)
    BY <2>2, UnlockPreserves, LocksAssumption DEF WakeUnlock
  <2> QED BY <1>1, <2>1, <2>2 DEF MainLock
<1>2. CASE \E l \in ClientLocks : Client(l)
  <2>1. PICK l \in ClientLocks : Client(l)
    BY <1>2
  <2>2. l \in Locks
    BY DEF ClientLocks
  <2>3. CASE wake_lock_init(l)
    BY <2>2, <2>3, ControlStepPreserves
  <2>4. CASE wake_lock_destroy(l)
    BY <2>4, DestroyPreserves
  <2>5. CASE wake_lock(l)
    BY <2>2, <2>5, <1>b
  <2>6. CASE \E t \in Timeouts : wake_lock_timeout(l, t)
    <3>1. PICK t \in Timeouts : wake_lock_timeout(l, t)
      BY <2>6
    <3>2. wake_lock_internal(l, t, TRUE, work_queue) /\ timer_running' = timer_running /\ pc' = pc
      BY <3>1 DEF wake_lock_timeout
    <3>3. pc' \in PcValues /\ t \in 0 .. LongMax
      BY <3>2, <1>a
    <3> QED BY <1>a, <2>2, <3>2, <3>3, LockPreserves, Zenon
  <2>7. CASE WakeUnlock(l)
    BY <2>2, <2>7, UnlockPreserves DEF WakeUnlock
  <2> QED BY <2>1, <2>3, <2>4, <2>5, <2>6, <2>7 DEF Client
<1>3. CASE Tick
  BY <1>3, TickPreserves
<1>4. CASE expire_wake_locks \/ SuspendStart \/ PmFreezePoll \/ power_suspend_late
  BY <1>4, ScanStepPreserves
<1>5. CASE SuspendExit
  <2>1. CASE event_seen
    BY <1>5, <2>1, ControlStepPreserves
  <2>2. CASE ~event_seen
    <3>1. /\ wake_lock_internal(unknown_wakeup, HalfSecond, TRUE, work_queue)
          /\ timer_running' = timer_running /\ pc' = "idle"
      BY <1>5, <2>2 DEF SuspendExit
    <3>2. unknown_wakeup \in Locks /\ unknown_wakeup \in SuspendLocks /\ pc' \in PcValues
      BY <3>1, <1>a, LocksAssumption
    <3> QED BY <1>a, <3>1, <3>2, LockPreserves, Zenon
  <2> QED BY <2>1, <2>2
<1>6. CASE TimerExpires \/ SuspendEnter \/ PmFail \/ WakeUp \/ UNCHANGED vars
  BY <1>6, ControlStepPreserves
<1> QED
  BY <1>1, <1>2, <1>3, <1>4, <1>5, <1>6 DEF Next, Environment, Timer, SuspendWork

(***************************************************************************)
(* The invariant of the wake-lock code: every reachable state is typed,    *)
(* the expire timer covers the last expiry, the system is not stranded     *)
(* awake, and the suspend-prevention accounting follows main_wake_lock.    *)
(***************************************************************************)
THEOREM Invariance == Spec => []IInv
BY InitInv, StepInv, PTL DEF Spec

\* Type correctness of the wake-lock state.
THEOREM TypeCorrect == Spec => []TypeOK
<1>1. IInv => TypeOK
  BY DEF IInv
<1> QED BY <1>1, Invariance, PTL

\* expire_timer never goes off before the last timed suspend lock runs out.
THEOREM TimerAlwaysCovers == Spec => []TimerCovers
<1>1. IInv => TimerCovers
  BY DEF IInv
<1> QED BY <1>1, Invariance, PTL

\* Without a lock held for ever, a step towards the next suspend() is pending.
THEOREM NeverStranded == Spec => []NotStranded
<1>1. IInv => NotStranded
  BY DEF IInv
<1> QED BY <1>1, Invariance, PTL

\* The PREVENTING_SUSPEND flags follow main_wake_lock.
THEOREM PreventingExact == Spec => []PreventingIsExact
<1>1. IInv => PreventingIsExact
  BY DEF IInv
<1> QED BY <1>1, Invariance, PTL
=============================================================================
