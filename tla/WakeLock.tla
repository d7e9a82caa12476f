------------------------------ MODULE WakeLock ------------------------------
(***************************************************************************)
(* kernel/power/wakelock.c: wake locks, their expiry timer and the work    *)
(* item that suspends the system once no wake lock is held.                *)
(*                                                                         *)
(* Every operation runs under list_lock and is one action.  Two threads of *)
(* control release the lock half way and are split there: the work item    *)
(* suspend() (variable pc) and the timer handler expire_wake_locks(), which*)
(* the timer core detaches from the timer before it runs it (variable      *)
(* timer_running), so del_timer() and mod_timer() can fall in between.     *)
(*                                                                         *)
(* The code reads a lock's expiry time and the jiffies counter only through*)
(* the signed difference (long)(lock->expires - jiffies), so expires[l] IS *)
(* that difference: Tick decrements it, and wraps it at -LongMax - 1 as    *)
(* the machine does.  It is 0 when the lock has no WAKE_LOCK_AUTO_EXPIRE.  *)
(* timer_expires is the same difference for expire_timer.                  *)
(*                                                                         *)
(* active_wake_locks[] is a set of locks: wake_lock_internal() adds locks  *)
(* without a timeout at the head of the list and locks with one at the     *)
(* tail, so the scan of has_wake_lock_locked() meets a lock without a      *)
(* timeout, and returns -1, before it expires anything.                    *)
(***************************************************************************)
EXTENDS Integers, Sequences

CONSTANTS
  Locks,            \* struct wake_lock objects
  SuspendLocks,     \* those of type WAKE_LOCK_SUSPEND; the others are IDLE
  main_wake_lock,   \* held by the early-suspend code while the user is active
  unknown_wakeup,   \* taken by suspend() after a wakeup nobody explained
  Timeouts,         \* timeouts (jiffies) callers pass to wake_lock_timeout()
  HalfSecond,       \* HZ / 2, the timeout of unknown_wakeup
  LongMax,          \* LONG_MAX
  MaxTimerLag       \* bound: ticks an expired timer waits for its handler

ASSUME LocksAssumption ==
  /\ SuspendLocks \subseteq Locks
  /\ main_wake_lock \in SuspendLocks
  /\ unknown_wakeup \in SuspendLocks
  /\ main_wake_lock # unknown_wakeup

ASSUME TimeAssumption ==
  /\ LongMax \in Nat
  /\ MaxTimerLag \in 0 .. 2   \* a lock LongMax - 1 before its timer must not wrap
                              \* while the timer lags: 3 jiffies would be too many
  /\ Timeouts \subseteq 0 .. LongMax
  /\ HalfSecond \in 1 .. LongMax

VARIABLES
  initialized,      \* locks with WAKE_LOCK_INITIALIZED
  active,           \* locks with WAKE_LOCK_ACTIVE: the active_wake_locks lists
  auto_expire,      \* locks with WAKE_LOCK_AUTO_EXPIRE
  preventing,       \* locks with WAKE_LOCK_PREVENTING_SUSPEND
  expires,          \* expires[l]: (long)(l->expires - jiffies)
  timer_pending,    \* expire_timer is armed ...
  timer_expires,    \* ... to go off in this many ticks
  timer_running,    \* expire_wake_locks() detached, not yet under list_lock
  work_queue,       \* suspend_work_queue: pending work items, oldest first
  pc,               \* where suspend() is: see PcValues
  event_seen,       \* current_event_num # entry_event_num
  wait_for_wakeup

lock_vars == <<initialized, active, auto_expire, preventing, expires, wait_for_wakeup>>
timer_vars == <<timer_pending, timer_expires>>
vars == <<lock_vars, timer_vars, timer_running, work_queue, pc, event_seen>>

PcValues == {"idle", "checked", "pm", "asleep", "exit"}

LongRange == (-LongMax - 1) .. LongMax

TypeOK ==
  /\ initialized \subseteq Locks
  /\ active \subseteq initialized
  /\ auto_expire \subseteq active
  /\ preventing \subseteq active \cap SuspendLocks
  /\ expires \in [Locks -> LongRange]
  /\ timer_pending \in BOOLEAN
  /\ timer_expires \in LongRange
  /\ timer_running \in BOOLEAN
  /\ work_queue \in Seq({"suspend"})
  /\ pc \in PcValues
  /\ event_seen \in BOOLEAN
  /\ wait_for_wakeup \in BOOLEAN

(***************************************************************************)
(* wakelocks_init(): the main lock is initialised and held, unknown_wakeup *)
(* is initialised.                                                         *)
(***************************************************************************)
Init ==
  /\ initialized = {main_wake_lock, unknown_wakeup}
  /\ active = {main_wake_lock}
  /\ auto_expire = {}
  /\ preventing = {}
  /\ expires = [l \in Locks |-> 0]
  /\ timer_pending = FALSE
  /\ timer_expires = 0
  /\ timer_running = FALSE
  /\ work_queue = <<>>
  /\ pc = "idle"
  /\ event_seen = FALSE
  /\ wait_for_wakeup = FALSE

-----------------------------------------------------------------------------
(***************************************************************************)
(* Lists and the expiry scan.  The operators take the sets they read as    *)
(* arguments, because handlers scan states they have half updated.         *)
(***************************************************************************)

\* Active suspend locks with no timeout.
HeldForever(act, auto) == (act \cap SuspendLocks) \ auto

\* get_expired_time(), and the test of has_wake_lock_locked().
Lapsed(act, auto, exp) == {l \in act \cap auto : exp[l] <= 0}

\* The locks one scan of has_wake_lock_locked(WAKE_LOCK_SUSPEND) expires.
Reaped(act, auto, exp) ==
  IF HeldForever(act, auto) # {}
  THEN {}
  ELSE Lapsed(act, auto, exp) \cap SuspendLocks

\* has_wake_lock_locked(WAKE_LOCK_SUSPEND) # 0, for the locks a scan leaves.
SuspendLockHeld(act) == act \cap SuspendLocks # {}

\* expires[] of the locks that still have a timeout.
Expiries(exp, auto) == [l \in Locks |-> IF l \in auto THEN exp[l] ELSE 0]

\* queue_work(): nothing happens when the item is already pending.
queue_work(q, w) == IF \E i \in 1 .. Len(q) : q[i] = w THEN q ELSE Append(q, w)

\* Mutant of update_sleep_wait_stats_locked: it forgets done.
StatsForgetDone(prev, act, auto, exp, done) ==
  (prev \ SuspendLocks) \cup ((act \cap SuspendLocks) \ Lapsed(act, auto, exp))

\* update_sleep_wait_stats_locked(done), the flags it sets.
update_sleep_wait_stats_locked(prev, act, auto, exp, done) ==
  (prev \ SuspendLocks) \cup
  IF done THEN {} ELSE (act \cap SuspendLocks) \ Lapsed(act, auto, exp)

\* Mutant of RestartExpireTimer: the timer is armed for the first expiry.
ArmForFirstExpiry(act, auto, exp, q) ==
  \/ /\ HeldForever(act, auto) # {}
     /\ timer_pending' = FALSE
     /\ timer_expires' = 0
     /\ work_queue' = q
  \/ /\ HeldForever(act, auto) = {}
     /\ \E m \in act \cap SuspendLocks :
          /\ \A l \in act \cap SuspendLocks : exp[l] >= exp[m]
          /\ timer_expires' = exp[m]
     /\ timer_pending' = TRUE
     /\ work_queue' = q
  \/ /\ ~SuspendLockHeld(act)
     /\ timer_pending' = FALSE
     /\ timer_expires' = 0
     /\ work_queue' = queue_work(q, "suspend")

(***************************************************************************)
(* The common end of wake_lock_internal() and wake_unlock(): arm the timer *)
(* for the last expiry, or stop it and, if nothing is held, queue suspend. *)
(***************************************************************************)
RestartExpireTimer(act, auto, exp, q) ==
  \/ /\ HeldForever(act, auto) # {}
     /\ timer_pending' = FALSE
     /\ timer_expires' = 0
     /\ work_queue' = q
  \/ /\ HeldForever(act, auto) = {}
     /\ \E m \in act \cap SuspendLocks :
          /\ \A l \in act \cap SuspendLocks : exp[l] <= exp[m]
          /\ timer_expires' = exp[m]
     /\ timer_pending' = TRUE
     /\ work_queue' = q
  \/ /\ ~SuspendLockHeld(act)
     /\ timer_pending' = FALSE
     /\ timer_expires' = 0
     /\ work_queue' = queue_work(q, "suspend")

\* Mutant of ReapLocks: expire_wake_lock() leaves WAKE_LOCK_AUTO_EXPIRE set.
ReapKeepsAutoExpire(gone) ==
  /\ active' = active \ gone
  /\ preventing' = preventing \ gone
  /\ UNCHANGED <<auto_expire, expires>>

\* has_wake_lock_locked(): drop the locks in gone from the active list.
ReapLocks(gone) ==
  /\ active' = active \ gone
  /\ auto_expire' = auto_expire \ gone
  /\ preventing' = preventing \ gone
  /\ expires' = Expiries(expires, auto_expire \ gone)

has_wake_lock == ReapLocks(Reaped(active, auto_expire, expires))

(***************************************************************************)
(* wake_lock_internal(lock, timeout, has_timeout).  q is the work queue as *)
(* the caller leaves it.                                                   *)
(***************************************************************************)
wake_lock_internal(l, timeout, has_timeout, q) ==
  LET lapsed == Lapsed(active, auto_expire, expires) \cap {l}
      act0   == active \cup {l}
      auto0  == IF has_timeout THEN auto_expire \cup {l} ELSE auto_expire \ {l}
      exp0   == Expiries([expires EXCEPT ![l] = timeout], auto0)
      prev0  == preventing \ lapsed
      prev1  == IF l \notin SuspendLocks \/ (l # main_wake_lock /\ main_wake_lock \in active)
                THEN prev0
                ELSE update_sleep_wait_stats_locked(prev0, act0, auto0, exp0, l = main_wake_lock)
      gone   == IF has_timeout /\ l \in SuspendLocks THEN Reaped(act0, auto0, exp0) ELSE {}
  IN
  /\ l \in initialized
  /\ active' = act0 \ gone
  /\ auto_expire' = auto0 \ gone
  /\ preventing' = prev1 \ gone
  /\ expires' = Expiries(exp0, auto0 \ gone)
  /\ IF l \in SuspendLocks
     THEN /\ RestartExpireTimer(act0 \ gone, auto0 \ gone, exp0, q)
          /\ event_seen' = TRUE
          /\ wait_for_wakeup' = FALSE
     ELSE /\ work_queue' = q
          /\ UNCHANGED <<timer_vars, event_seen, wait_for_wakeup>>
  /\ UNCHANGED initialized

wake_unlock(l, q) ==
  LET act0  == active \ {l}
      auto0 == auto_expire \ {l}
      gone  == IF l \in SuspendLocks THEN Reaped(act0, auto0, expires) ELSE {}
      act1  == act0 \ gone
      auto1 == auto0 \ gone
      prev1 == (preventing \ {l}) \ gone
  IN
  /\ l \in initialized
  /\ active' = act1
  /\ auto_expire' = auto1
  /\ expires' = Expiries(expires, auto1)
  /\ preventing' = IF l = main_wake_lock
                   THEN update_sleep_wait_stats_locked(prev1, act1, auto1, expires, FALSE)
                   ELSE prev1
  /\ IF l \in SuspendLocks
     THEN RestartExpireTimer(act1, auto1, expires, q)
     ELSE work_queue' = q /\ UNCHANGED timer_vars
  /\ UNCHANGED <<initialized, event_seen, wait_for_wakeup>>

-----------------------------------------------------------------------------
(***************************************************************************)
(* Callers: drivers, user space through userwakelock.c, the early-suspend  *)
(* code.  Nothing runs while the CPU is off (pc = "asleep").               *)
(***************************************************************************)
Awake == pc # "asleep"

ClientLocks == Locks \ {main_wake_lock, unknown_wakeup}

wake_lock_init(l) ==
  /\ Awake
  /\ l \notin initialized
  /\ initialized' = initialized \cup {l}
  /\ UNCHANGED <<active, auto_expire, preventing, expires, wait_for_wakeup>>
  /\ UNCHANGED <<timer_vars, timer_running, work_queue, pc, event_seen>>

(***************************************************************************)
(* wake_lock_destroy() unlinks the lock, rearms no timer and queues no     *)
(* work.  evdev_release() calls it with its timeout still running.  That a *)
(* caller gives up a lock without timeout first is not tested by the code: *)
(* the drivers of this configuration do, gpio_matrix.c:404 and             *)
(* gpio_input.c:350, which are not built, do not.  NotStranded needs it.   *)
(***************************************************************************)
wake_lock_destroy(l) ==
  /\ Awake
  /\ l \in initialized
  /\ l \in active => l \in auto_expire
  /\ initialized' = initialized \ {l}
  /\ active' = active \ {l}
  /\ auto_expire' = auto_expire \ {l}
  /\ preventing' = preventing \ {l}
  /\ expires' = Expiries(expires, auto_expire \ {l})
  /\ UNCHANGED <<timer_vars, timer_running, work_queue, pc, event_seen, wait_for_wakeup>>

wake_lock(l) ==
  /\ Awake
  /\ wake_lock_internal(l, 0, FALSE, work_queue)
  /\ UNCHANGED <<timer_running, pc>>

wake_lock_timeout(l, timeout) ==
  /\ Awake
  /\ wake_lock_internal(l, timeout, TRUE, work_queue)
  /\ UNCHANGED <<timer_running, pc>>

WakeUnlock(l) ==
  /\ Awake
  /\ wake_unlock(l, work_queue)
  /\ UNCHANGED <<timer_running, pc>>

(***************************************************************************)
(* jiffies++.  The handler of an expired timer lags by at most MaxTimerLag *)
(* ticks; between detaching the timer and taking list_lock in its handler  *)
(* the softirq needs less than a tick.                                     *)
(***************************************************************************)
Decrement(n) == IF n = -LongMax - 1 THEN LongMax ELSE n - 1

Tick ==
  /\ Awake
  /\ timer_pending => timer_expires > -MaxTimerLag
  /\ ~timer_running
  /\ expires' = [l \in Locks |-> IF l \in auto_expire THEN Decrement(expires[l]) ELSE 0]
  /\ timer_expires' = IF timer_pending THEN timer_expires - 1 ELSE 0
  /\ UNCHANGED <<initialized, active, auto_expire, preventing, wait_for_wakeup>>
  /\ UNCHANGED <<timer_pending, timer_running, work_queue, pc, event_seen>>

\* __run_timers() detaches the expired timer before calling its function.
TimerExpires ==
  /\ Awake
  /\ timer_pending
  /\ timer_expires <= 0
  /\ ~timer_running
  /\ timer_pending' = FALSE
  /\ timer_expires' = 0
  /\ timer_running' = TRUE
  /\ UNCHANGED <<lock_vars, work_queue, pc, event_seen>>

\* Mutant of expire_wake_locks: it expires the locks and queues nothing.
ExpireQueuesNothing ==
  /\ Awake
  /\ timer_running
  /\ timer_running' = FALSE
  /\ has_wake_lock
  /\ UNCHANGED <<timer_vars, initialized, wait_for_wakeup, pc, event_seen, work_queue>>

expire_wake_locks ==
  /\ Awake
  /\ timer_running
  /\ timer_running' = FALSE
  /\ has_wake_lock
  /\ work_queue' = IF SuspendLockHeld(active') THEN work_queue
                                               ELSE queue_work(work_queue, "suspend")
  /\ UNCHANGED <<timer_vars, initialized, wait_for_wakeup, pc, event_seen>>

-----------------------------------------------------------------------------
(***************************************************************************)
(* suspend(), run by the single worker of suspend_work_queue.              *)
(***************************************************************************)
SuspendStart ==
  /\ pc = "idle"
  /\ work_queue # <<>>
  /\ Head(work_queue) = "suspend"
  /\ work_queue' = Tail(work_queue)
  /\ has_wake_lock
  /\ pc' = IF SuspendLockHeld(active') THEN "idle" ELSE "checked"
  /\ UNCHANGED <<timer_vars, timer_running, initialized, wait_for_wakeup, event_seen>>

\* entry_event_num = current_event_num; sys_sync(); pm_suspend(...)
SuspendEnter ==
  /\ pc = "checked"
  /\ pc' = "pm"
  /\ event_seen' = FALSE
  /\ UNCHANGED <<lock_vars, timer_vars, timer_running, work_queue>>

\* try_to_freeze_tasks() polls the wake locks and gives up when one is held.
PmFreezePoll ==
  /\ pc = "pm"
  /\ has_wake_lock
  /\ pc' = IF SuspendLockHeld(active') THEN "exit" ELSE "pm"
  /\ UNCHANGED <<timer_vars, timer_running, initialized, wait_for_wakeup, work_queue, event_seen>>

\* pm_suspend() fails for a reason of its own: a driver, a notifier, memory.
PmFail ==
  /\ pc = "pm"
  /\ pc' = "exit"
  /\ UNCHANGED <<lock_vars, timer_vars, timer_running, work_queue, event_seen>>

\* The last check, made with interrupts off.  If it succeeds the CPU is powered
\* off, unless a driver refuses after it.
power_suspend_late ==
  /\ pc = "pm"
  /\ has_wake_lock
  /\ wait_for_wakeup' = TRUE
  /\ pc' \in IF SuspendLockHeld(active') THEN {"exit"} ELSE {"asleep", "exit"}
  /\ UNCHANGED <<timer_vars, timer_running, initialized, work_queue, event_seen>>

WakeUp ==
  /\ pc = "asleep"
  /\ pc' = "exit"
  /\ UNCHANGED <<lock_vars, timer_vars, timer_running, work_queue, event_seen>>

\* Mutant of SuspendExit: a wakeup nobody explained takes no lock.
ExitWithoutLock ==
  /\ pc = "exit"
  /\ pc' = "idle"
  /\ UNCHANGED <<lock_vars, timer_vars, timer_running, work_queue, event_seen>>

\* No wake lock was taken since SuspendEnter: hold unknown_wakeup for HZ / 2.
SuspendExit ==
  /\ pc = "exit"
  /\ pc' = "idle"
  /\ IF event_seen
     THEN UNCHANGED <<lock_vars, timer_vars, work_queue, event_seen>>
     ELSE wake_lock_internal(unknown_wakeup, HalfSecond, TRUE, work_queue)
  /\ UNCHANGED timer_running

-----------------------------------------------------------------------------
Client(l) ==
  \/ wake_lock_init(l)
  \/ wake_lock_destroy(l)
  \/ wake_lock(l)
  \/ \E t \in Timeouts : wake_lock_timeout(l, t)
  \/ WakeUnlock(l)

MainLock == wake_lock(main_wake_lock) \/ WakeUnlock(main_wake_lock)

Environment == MainLock \/ \E l \in ClientLocks : Client(l)

Timer == Tick \/ TimerExpires \/ expire_wake_locks

SuspendWork ==
  SuspendStart \/ SuspendEnter \/ PmFreezePoll \/ PmFail \/ power_suspend_late
  \/ WakeUp \/ SuspendExit

Next == Environment \/ Timer \/ SuspendWork

Spec == Init /\ [][Next]_vars

(***************************************************************************)
(* The clock ticks, expired timers run, and the worker of                  *)
(* suspend_work_queue goes on; nothing obliges a wakeup source to fire.    *)
(***************************************************************************)
Fairness ==
  /\ WF_vars(Tick)
  /\ WF_vars(TimerExpires)
  /\ WF_vars(expire_wake_locks)
  /\ WF_vars(SuspendWork /\ Awake)

FairSpec == Spec /\ Fairness

-----------------------------------------------------------------------------
Quiet == HeldForever(active, auto_expire) = {}

SuspendQueued == \E i \in 1 .. Len(work_queue) : work_queue[i] = "suspend"

(***************************************************************************)
(* The single expire_timer, moved by every wake_lock_timeout() and         *)
(* wake_unlock(), always covers the last expiry: handlers that reap, rearm *)
(* and destroy locks in any order, also between the detaching of the timer *)
(* and the run of expire_wake_locks(), never leave an active timed lock    *)
(* that would outlive the timer (the handler does not rearm it).           *)
(***************************************************************************)
TimerCovers ==
  Quiet => \A l \in active \cap SuspendLocks :
             IF timer_pending THEN expires[l] <= timer_expires
                              ELSE timer_running /\ expires[l] <= 0

(***************************************************************************)
(* The system is never stranded awake.  When no suspend lock is held for   *)
(* ever, something is under way that leads to the next suspend(): the      *)
(* timer, its handler, the queued work item, or the running suspend(),     *)
(* which on its way out takes unknown_wakeup unless some lock was taken    *)
(* meanwhile, whose release or expiry then queues the work.                *)
(***************************************************************************)
NotStranded ==
  Quiet => \/ timer_pending
           \/ timer_running
           \/ SuspendQueued
           \/ pc = "checked"
           \/ pc # "idle" /\ ~event_seen

(***************************************************************************)
(* The WAKE_LOCK_PREVENTING_SUSPEND accounting of CONFIG_WAKELOCK_STAT:    *)
(* while main_wake_lock is held no lock is charged for preventing suspend, *)
(* and while it is not, every suspend lock held without a timeout is.      *)
(***************************************************************************)
PreventingIsExact ==
  IF main_wake_lock \in active
  THEN preventing = {}
  ELSE HeldForever(active, auto_expire) \subseteq preventing

(***************************************************************************)
(* Liveness: once callers leave the wake locks alone, either a lock without*)
(* a timeout is held for good, or the system tries to suspend again and    *)
(* again (also after failed attempts) or sleeps.                           *)
(***************************************************************************)
EventuallySuspends ==
  <>[][~Environment]_vars => ([]<>(pc \in {"pm", "asleep"}) \/ <>[]~Quiet)
=============================================================================
