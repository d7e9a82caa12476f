---------------------------- MODULE AndroidPower ----------------------------
(***************************************************************************)
(* The suspend path as a whole: user space and drivers, the wake locks     *)
(* (WakeLock), the early-suspend code (EarlySuspend) and pm_suspend()      *)
(* (PmSuspend), sharing one CPU and the single worker of                   *)
(* suspend_work_queue.                                                     *)
(*                                                                         *)
(* A step of the whole is a joint step of the components it calls: e.g.    *)
(* request_suspend_state("on") is EarlySuspend's action conjoined with     *)
(* wake_lock(main_wake_lock).  main_locked of EarlySuspend and wake_held of*)
(* PmSuspend are functions of the wake-lock state.                         *)
(***************************************************************************)
EXTENDS Integers, Sequences

CONSTANTS
  Locks, SuspendLocks, main_wake_lock, unknown_wakeup, Timeouts, HalfSecond,
  LongMax, MaxTimerLag,                              \* of WakeLock
  Handlers, Level, SuspendHook, ResumeHook, SleepStates, NoHandler   \* of EarlySuspend

\* What the components assume of their constants.
ASSUME LocksAssumption ==
  /\ SuspendLocks \subseteq Locks
  /\ {main_wake_lock, unknown_wakeup} \subseteq SuspendLocks
  /\ main_wake_lock # unknown_wakeup

ASSUME TimeAssumption ==
  /\ LongMax \in Nat /\ MaxTimerLag \in 0 .. 2
  /\ Timeouts \subseteq 0 .. LongMax /\ HalfSecond \in 1 .. LongMax

ASSUME HandlerAssumption ==
  /\ Level \in [Handlers -> Int]
  /\ SuspendHook \subseteq Handlers /\ ResumeHook \subseteq Handlers /\ NoHandler \notin Handlers
  /\ "mem" \in SleepStates /\ "on" \notin SleepStates

VARIABLES
  initialized, active, auto_expire, preventing, expires, wait_for_wakeup,
  timer_pending, timer_expires, timer_running, event_seen,
  pc,                  \* suspend(): "idle", "checked", "pm" or "exit"
  requested, suspended, requested_suspend_state,
  handlers, down, early_suspend_lock, registering, es_pc, cursor,
  pm_pc, undo,
  work_queue

lock_vars == <<initialized, active, auto_expire, preventing, expires, wait_for_wakeup>>
timer_vars == <<timer_pending, timer_expires, timer_running>>
wl_vars == <<lock_vars, timer_vars, event_seen>>
es_vars == <<requested, suspended, requested_suspend_state, handlers, down,
             early_suspend_lock, registering, es_pc, cursor>>
pm_vars == <<pm_pc, undo>>
vars == <<wl_vars, pc, es_vars, pm_vars, work_queue>>

WL == INSTANCE WakeLock
ES == INSTANCE EarlySuspend WITH main_locked <- main_wake_lock \in active

\* What has_wake_lock(WAKE_LOCK_SUSPEND) would answer.
WakeHeld == WL!SuspendLockHeld(active \ WL!Reaped(active, auto_expire, expires))

PM == INSTANCE PmSuspend WITH wake_held <- WakeHeld

Init == WL!Init /\ ES!Init /\ pm_pc = "out" /\ undo = {}

-----------------------------------------------------------------------------
\* Mutant of IrqsEnabled: suspend_enter() leaves interrupts on.
IrqsNeverOff == TRUE

\* Who can run: nobody else while interrupts are off, no frozen task.
IrqsEnabled == PM!IrqsEnabled
UserRuns == IrqsEnabled /\ "user_frozen" \notin undo

\* state_store(): user space writes /sys/power/state.
state_store(s) ==
  /\ UserRuns
  /\ IF requested /\ s = "on"
     THEN WL!wake_lock_internal(main_wake_lock, 0, FALSE, WL!queue_work(work_queue, "late_resume"))
          /\ UNCHANGED timer_running
     ELSE UNCHANGED wl_vars
  /\ ES!request_suspend_state(s)
  /\ UNCHANGED <<pc, pm_vars>>

\* Mutant of ClientLock: a name may find a lock of the kernel's own.
ClientLockAnyName(l) ==
  /\ IrqsEnabled
  /\ WL!Client(l) \/ WL!WakeUnlock(main_wake_lock)
  /\ UNCHANGED <<es_vars, pm_vars>>

\* A client's lock is made, taken, taken with a timeout or released: by a driver,
\* in an interrupt handler or a thread, or by user space through userwakelock.c,
\* which is frozen earlier and so does a part of what a driver may do.
ClientLock(l) ==
  /\ IrqsEnabled
  /\ WL!Client(l)
  /\ UNCHANGED <<es_vars, pm_vars>>

\* Drivers come and go with the early-suspend list.
DriverHandlers ==
  /\ UNCHANGED wl_vars
  /\ \/ UserRuns /\ \E h \in Handlers : ES!register_early_suspend(h) \/ ES!unregister_early_suspend(h)
     \/ IrqsEnabled /\ ES!RegisterFinish
  /\ UNCHANGED <<pc, pm_vars>>

Timer ==
  /\ IrqsEnabled
  /\ WL!Timer
  /\ UNCHANGED <<es_vars, pm_vars>>

-----------------------------------------------------------------------------
\* The worker runs early_suspend() and late_resume().
EarlySuspendWork ==
  /\ UNCHANGED wl_vars
  /\ \/ ES!StartEarlySuspend \/ ES!EarlyLock \/ ES!EarlyCall \/ ES!EarlySync
     \/ ES!StartLateResume \/ ES!ResumeLock \/ ES!ResumeCall
  /\ UNCHANGED <<pc, pm_vars>>

\* Mutant of EarlySuspendUnlock: main_wake_lock is taken off the list and neither
\* the timer nor the work item is looked after.
UnlockByHand ==
  /\ es_pc = "early_unlock"
  /\ active' = IF requested /\ suspended THEN active \ {main_wake_lock} ELSE active
  /\ UNCHANGED <<initialized, auto_expire, preventing, expires, wait_for_wakeup>>
  /\ UNCHANGED <<timer_vars, event_seen, work_queue>>
  /\ ES!EarlyUnlock
  /\ UNCHANGED <<pc, pm_vars>>

\* ... which releases main_wake_lock if sleep is still requested.
EarlySuspendUnlock ==
  /\ es_pc = "early_unlock"
  /\ IF requested /\ suspended
     THEN WL!wake_unlock(main_wake_lock, work_queue) /\ UNCHANGED timer_running
     ELSE UNCHANGED <<wl_vars, work_queue>>
  /\ ES!EarlyUnlock
  /\ UNCHANGED <<pc, pm_vars>>

\* The worker runs suspend() of wakelock.c.
SuspendStart ==
  /\ WL!SuspendStart
  /\ ES!StartSuspend
  /\ UNCHANGED pm_vars

SuspendEnter ==
  /\ WL!SuspendEnter
  /\ UNCHANGED <<es_vars, pm_vars>>

\* pm_suspend() is called, unless it returns at once: the state is
\* PM_SUSPEND_ON by now, or enter_state() finds it invalid or pm_mutex taken.
PmStart ==
  /\ pc = "pm"
  /\ requested_suspend_state # "on"
  /\ UNCHANGED wl_vars
  /\ PM!pm_suspend
  /\ UNCHANGED <<pc, es_vars, work_queue>>

PmRefused ==
  /\ pc = "pm"
  /\ pm_pc = "out"
  /\ pc' = "exit"
  /\ UNCHANGED <<wl_vars, es_vars, pm_vars, work_queue>>

\* Steps of pm_suspend() that leave the wake locks alone.
PmStep ==
  /\ UNCHANGED wl_vars
  /\ \/ PM!PrepareNotify \/ PM!UmhDisable \/ PM!UmhFails
     \/ PM!FreezeUser \/ PM!FreezeTasks \/ PM!FreezeTimeout \/ PM!FreeMemory
     \/ PM!Devices
     \/ PM!SuspendEnter \/ PM!SysdevSuspend \/ PM!SysdevSuspendFails \/ PM!PlatformEnter \/ PM!WakeUp
     \/ PM!Leave
  /\ pc' = IF pm_pc' = "out" THEN "exit" ELSE pc
  /\ UNCHANGED <<es_vars, work_queue>>

\* The freezer looks at the wake locks while tasks are left to freeze: it gives way to
\* one, and tries again when none is held.
PmFreezePoll ==
  /\ WL!has_wake_lock
  /\ UNCHANGED <<initialized, wait_for_wakeup, timer_vars, event_seen>>
  /\ \/ PM!FreezeGivesWay
     \/ /\ pm_pc \in {"freeze_user", "freeze_tasks"}
        /\ ~WakeHeld
        /\ UNCHANGED pm_vars
  /\ UNCHANGED <<pc, es_vars, work_queue>>

\* device_power_down() with power_suspend_late() among the late handlers.
PmPowerDown ==
  /\ WL!has_wake_lock
  /\ wait_for_wakeup' = TRUE
  /\ UNCHANGED <<initialized, timer_vars, event_seen>>
  /\ PM!DevicePowerDown \/ PM!DevicePowerDownFails
  /\ UNCHANGED <<pc, es_vars, work_queue>>

\* A driver refuses before power_suspend_late() is called.
PmPowerDownRefused ==
  /\ UNCHANGED wl_vars
  /\ PM!DevicePowerDownFails
  /\ UNCHANGED <<pc, es_vars, work_queue>>

SuspendExit ==
  /\ WL!SuspendExit
  /\ UNCHANGED <<es_vars, pm_vars>>

\* suspend() returns to the worker.
SuspendReturn ==
  /\ pc = "idle"
  /\ UNCHANGED wl_vars
  /\ ES!FinishSuspend
  /\ UNCHANGED <<pc, pm_vars>>

-----------------------------------------------------------------------------
UserSpace == \E s \in SleepStates \cup {"on"} : state_store(s)

Drivers ==
  \/ \E l \in WL!ClientLocks : ClientLock(l)
  \/ DriverHandlers

SuspendWork ==
  SuspendStart \/ SuspendEnter \/ PmStart \/ PmRefused \/ PmStep \/ PmFreezePoll
  \/ PmPowerDown \/ PmPowerDownRefused \/ SuspendExit \/ SuspendReturn

Worker == EarlySuspendWork \/ EarlySuspendUnlock \/ SuspendWork

Next == UserSpace \/ Drivers \/ Timer \/ Worker

Spec == Init /\ [][Next]_vars

(***************************************************************************)
(* The CPU runs timers and the worker unless it is asleep; the worker gets *)
(* the early_suspend_lock in the end, and registrations complete.  Nothing *)
(* obliges anybody to wake the system up.                                  *)
(***************************************************************************)
Fairness ==
  /\ WF_vars(Timer)
  /\ WF_vars(Worker /\ pm_pc # "asleep")
  /\ SF_vars(EarlySuspendWork)
  /\ WF_vars(DriverHandlers /\ early_suspend_lock = "register")

FairSpec == Spec /\ Fairness

-----------------------------------------------------------------------------
(***************************************************************************)
(* The system sleeps only when everybody agrees: user space asked for it,  *)
(* the handlers are down, no suspend lock is left, and everything between  *)
(* the request and the CPU is off.                                         *)
(***************************************************************************)
AsleepOnlyWhenWanted ==
  pm_pc = "asleep" =>
    /\ requested /\ suspended /\ requested_suspend_state # "on"
    /\ ES!Registered \cap SuspendHook \subseteq down \cup {registering}
    /\ active \cap SuspendLocks = {}

\* pm_suspend() undoes everything, in order, whichever step fails.
UndoneInOrder == PM!UndoneInOrder

\* The components keep their promises when they run together.  The wake locks
\* see only their own item of the queue, and pm_suspend() as four places.
SuspendPc ==
  IF pc # "pm" THEN pc
  ELSE IF pm_pc \in {"sysdev", "enter", "asleep"} THEN "asleep"
  ELSE IF pm_pc \in {"out", "notify", "umh", "freeze_user", "freeze_tasks", "memory", "begin",
                     "devices", "platform_prepare", "suspend_enter", "power_down"} THEN "pm"
  ELSE "exit"

SuspendItems == IF \E i \in 1 .. Len(work_queue) : work_queue[i] = "suspend" THEN <<"suspend">> ELSE <<>>

AbstractWL == INSTANCE WakeLock WITH pc <- SuspendPc, work_queue <- SuspendItems

\* The composed system implements the wake-lock specification.
ImplementsWakeLock == AbstractWL!Spec

\* The composed system implements the early-suspend specification.
ImplementsEarlySuspend == ES!Spec

\* The composed system implements the pm_suspend() specification.
ImplementsPmSuspend == PM!Spec

LockCalls == \E l \in WL!ClientLocks : ClientLock(l)

(***************************************************************************)
(* Liveness, end to end: when the request for sleep stands and drivers and *)
(* user space leave their wake locks alone, pm_suspend() is tried again and*)
(* again, unless somebody keeps a lock without a timeout.                  *)
(***************************************************************************)
SleepHonoured ==
  <>[]requested /\ <>[][~LockCalls]_vars =>
    []<>(pc = "pm") \/ <>[](WL!HeldForever(active, auto_expire) # {})

(***************************************************************************)
(* A request for wakeup that stands resumes every handler, although the    *)
(* worker may be deep inside pm_suspend() when it comes.                   *)
(***************************************************************************)
WakeupHonoured ==
  <>[]~requested => <>[](ES!Registered \cap SuspendHook \cap ResumeHook \cap down = {})
=============================================================================
