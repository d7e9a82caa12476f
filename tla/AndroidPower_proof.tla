------------------------- MODULE AndroidPower_proof -------------------------
(***************************************************************************)
(* Proofs about the suspend path as a whole, for every set of locks,       *)
(* timeouts, handlers and sleep states: it implements the specifications of*)
(* its three components, so that what is proved of the wake locks and of   *)
(* the early-suspend code alone holds where they run together; pm_suspend()*)
(* undoes what it did in order; and the CPU sleeps only when everybody     *)
(* agreed.                                                                 *)
(***************************************************************************)
EXTENDS AndroidPower, TLAPS

\* The labels at which pm_suspend() holds each of its resources, from the innermost out.
SysdevsOff == {"enter", "asleep", "sysdev_resume"}
LateOff == SysdevsOff \cup {"sysdev", "power_up"}
IrqsOff == LateOff \cup {"power_down", "irqs_on"}
PlatformReady == IrqsOff \cup {"suspend_enter", "platform_finish"}
DevicesOff == PlatformReady \cup {"platform_prepare", "recover", "resume_devices"}
ConsoleOff == DevicesOff \cup {"devices"}
Begun == ConsoleOff \cup {"close"}
TasksFrozen == Begun \cup {"memory", "begin"}
UserFrozen == TasksFrozen \cup {"freeze_tasks", "thaw"}
UmhOff == UserFrozen \cup {"freeze_user"}
Notified == UmhOff \cup {"umh", "post_suspend"}
MutexHeld == Notified \cup {"notify", "unlock"}

(***************************************************************************)
(* The inductive invariant of pm_suspend(): where it is says what it holds.*)
(* Only the governor (switched or not) and, at the label Thaw, the kernel  *)
(* threads (frozen or not) are left open.                                  *)
(***************************************************************************)
PmInv ==
  /\ pm_pc \in PM!PmLabels
  /\ undo \subseteq PM!Resources
  /\ "pm_mutex" \in undo <=> pm_pc \in MutexHeld
  /\ "vt_console" \in undo <=> pm_pc \in Notified
  /\ "notified" \in undo <=> pm_pc \in Notified
  /\ "umh" \in undo <=> pm_pc \in UmhOff
  /\ "user_frozen" \in undo <=> pm_pc \in UserFrozen
  /\ pm_pc # "thaw" => ("tasks_frozen" \in undo <=> pm_pc \in TasksFrozen)
  /\ "begun" \in undo <=> pm_pc \in Begun
  /\ "console" \in undo <=> pm_pc \in ConsoleOff
  /\ "devices" \in undo <=> pm_pc \in DevicesOff
  /\ "prepared" \in undo <=> pm_pc \in PlatformReady
  /\ "dpm_list_mtx" \in undo <=> pm_pc \in IrqsOff
  /\ "irqs" \in undo <=> pm_pc \in IrqsOff
  /\ "governor" \in undo => pm_pc \in IrqsOff
  /\ "late" \in undo <=> pm_pc \in LateOff
  /\ "sysdev" \in undo <=> pm_pc \in SysdevsOff

\* What pm_suspend() holds at each label is in order, and nothing at its return.
LEMMA PmInvOrder == PmInv => UndoneInOrder
<1> SUFFICES ASSUME PmInv PROVE UndoneInOrder
  OBVIOUS
<1> USE DEF PmInv, MutexHeld, Notified, UmhOff, UserFrozen, TasksFrozen, Begun, ConsoleOff,
            DevicesOff, PlatformReady, IrqsOff, LateOff, SysdevsOff
<1>1. pm_pc = "out" => undo = {}
  BY DEF PM!Resources
<1>2. ASSUME NEW r \in undo PROVE PM!Needs[r] \subseteq undo
  BY DEF PM!Resources, PM!Needs, PM!PmLabels
<1> QED BY <1>1, <1>2 DEF UndoneInOrder, PM!UndoneInOrder

\* Every step of pm_suspend(), failures included, keeps the account of what it holds.
LEMMA PmStepInv ==
  ASSUME PmInv, PM!pm_suspend \/ PM!Running \/ PM!WakeUp \/ UNCHANGED pm_vars
  PROVE  PmInv'
<1> USE DEF PmInv, MutexHeld, Notified, UmhOff, UserFrozen, TasksFrozen, Begun, ConsoleOff,
            DevicesOff, PlatformReady, IrqsOff, LateOff, SysdevsOff, PM!Resources, PM!PmLabels
<1>1. CASE PM!pm_suspend
  BY <1>1 DEF PM!pm_suspend, PM!Step
<1>2. CASE PM!Prepare
  BY <1>2 DEF PM!Prepare, PM!PrepareNotify, PM!UmhDisable, PM!UmhFails, PM!FreezeUser,
     PM!FreezeTasks, PM!FreezeFails, PM!FreezeGivesWay, PM!FreezeTimeout, PM!FreeMemory, PM!Step
<1>3. CASE PM!Devices
  BY <1>3 DEF PM!Devices, PM!PlatformBegin, PM!PlatformBeginFails, PM!DeviceSuspend,
     PM!PlatformRecover, PM!PlatformPrepare, PM!PlatformPrepareFails, PM!Step
<1>4. CASE PM!Enter
  BY <1>4 DEF PM!Enter, PM!SuspendEnter, PM!DevicePowerDown, PM!DevicePowerDownFails,
     PM!SysdevSuspend, PM!SysdevSuspendFails, PM!PlatformEnter, PM!Step
<1>5. CASE PM!Leave
  BY <1>5 DEF PM!Leave, PM!SysdevResume, PM!DevicePowerUp, PM!IrqsOn, PM!PlatformFinish,
     PM!DeviceResume, PM!PlatformEnd, PM!Thaw, PM!PostSuspend, PM!Unlock, PM!Step
<1>6. CASE PM!WakeUp
  BY <1>6 DEF PM!WakeUp, PM!Step
<1>7. CASE UNCHANGED pm_vars
  BY <1>7 DEF pm_vars
<1> QED BY <1>1, <1>2, <1>3, <1>4, <1>5, <1>6, <1>7 DEF PM!Running

-----------------------------------------------------------------------------
\* The early-suspend code as a part of the whole, with what is proved of it.
ESP == INSTANCE EarlySuspend_proof WITH main_locked <- main_wake_lock \in active

\* No work item is pending twice.
Once(q) == \A i, j \in 1 .. Len(q) : q[i] = q[j] => i = j

(***************************************************************************)
(* The inductive invariant of the whole: those of pm_suspend() and of the  *)
(* early-suspend code; who runs inside whom (pm_suspend() in suspend(),    *)
(* which is in the worker); main_wake_lock has no timeout; and no suspend  *)
(* lock is held from power_suspend_late() to device_power_up().            *)
(***************************************************************************)
CInv ==
  /\ PmInv
  /\ ESP!IInv
  /\ Once(work_queue)
  /\ pc \in {"idle", "checked", "pm", "exit"}
  /\ pm_pc # "out" => pc = "pm"
  /\ pc # "idle" => es_pc = "suspend"
  /\ main_wake_lock \notin auto_expire
  /\ pm_pc \in LateOff => active \cap SuspendLocks = {}

-----------------------------------------------------------------------------
\* What a wake-lock operation may do that the rest of the system sees: main_wake_lock
\* stays as it is, and suspend() may be queued.
MainKept(q) ==
  /\ main_wake_lock \in active' <=> main_wake_lock \in active
  /\ main_wake_lock \notin auto_expire'
  /\ work_queue' \in {q, WL!queue_work(q, "suspend")}

\* Arming the timer queues suspend() or nothing.
LEMMA RestartQueues ==
  ASSUME NEW act, NEW auto, NEW exp, NEW q, WL!RestartExpireTimer(act, auto, exp, q)
  PROVE  work_queue' \in {q, WL!queue_work(q, "suspend")}
BY DEF WL!RestartExpireTimer

\* The scan leaves main_wake_lock alone: it has no timeout.
LEMMA ReapedNotMain ==
  ASSUME NEW act, NEW auto, NEW exp, main_wake_lock \notin auto
  PROVE  main_wake_lock \notin WL!Reaped(act, auto, exp)
BY DEF WL!Reaped, WL!Lapsed

\* Taking another lock.
LEMMA LockOther ==
  ASSUME main_wake_lock \notin auto_expire, NEW l, l # main_wake_lock,
         NEW timeout, NEW has_timeout \in BOOLEAN, NEW q,
         WL!wake_lock_internal(l, timeout, has_timeout, q)
  PROVE  MainKept(q)
<1> DEFINE act0   == active \cup {l}
           auto0  == IF has_timeout THEN auto_expire \cup {l} ELSE auto_expire \ {l}
           exp0   == WL!Expiries([expires EXCEPT ![l] = timeout], auto0)
           gone   == IF has_timeout /\ l \in SuspendLocks THEN WL!Reaped(act0, auto0, exp0) ELSE {}
<1>1. /\ active' = act0 \ gone
      /\ auto_expire' = auto0 \ gone
      /\ IF l \in SuspendLocks
         THEN WL!RestartExpireTimer(act0 \ gone, auto0 \ gone, exp0, q)
         ELSE work_queue' = q
  BY DEF WL!wake_lock_internal
<1>2. main_wake_lock \notin auto0
  OBVIOUS
<1>3. main_wake_lock \notin gone
  BY <1>2, ReapedNotMain
<1>4. work_queue' \in {q, WL!queue_work(q, "suspend")}
  BY <1>1, RestartQueues
<1> HIDE DEF gone, auto0, exp0
<1> QED BY <1>1, <1>2, <1>3, <1>4 DEF MainKept

\* Releasing another lock.
LEMMA UnlockOther ==
  ASSUME main_wake_lock \notin auto_expire, NEW l, l # main_wake_lock, NEW q, WL!wake_unlock(l, q)
  PROVE  MainKept(q)
<1> DEFINE act0  == active \ {l}
           auto0 == auto_expire \ {l}
           gone  == IF l \in SuspendLocks THEN WL!Reaped(act0, auto0, expires) ELSE {}
<1>1. /\ active' = act0 \ gone
      /\ auto_expire' = auto0 \ gone
      /\ IF l \in SuspendLocks
         THEN WL!RestartExpireTimer(act0 \ gone, auto0 \ gone, expires, q)
         ELSE work_queue' = q
  BY DEF WL!wake_unlock
<1>2. main_wake_lock \notin gone
  BY ReapedNotMain
<1>3. work_queue' \in {q, WL!queue_work(q, "suspend")}
  BY <1>1, RestartQueues
<1> HIDE DEF gone
<1> QED BY <1>1, <1>2, <1>3 DEF MainKept

\* A scan of the locks.
LEMMA ScanKeepsMain ==
  ASSUME main_wake_lock \notin auto_expire, WL!has_wake_lock
  PROVE  /\ main_wake_lock \in active' <=> main_wake_lock \in active
         /\ main_wake_lock \notin auto_expire'
BY ReapedNotMain DEF WL!has_wake_lock, WL!ReapLocks

\* A second scan finds what the first one left.
LEMMA ScanIsStable ==
  ASSUME WL!has_wake_lock
  PROVE  /\ WakeHeld' = WakeHeld
         /\ WakeHeld <=> active' \cap SuspendLocks # {}
<1> DEFINE gone == WL!Reaped(active, auto_expire, expires)
<1>1. /\ active' = active \ gone
      /\ auto_expire' = auto_expire \ gone
      /\ \A l \in Locks : l \in auto_expire' => expires'[l] = expires[l]
  BY DEF WL!has_wake_lock, WL!ReapLocks, WL!Expiries
<1>2. WakeHeld <=> active' \cap SuspendLocks # {}
  BY <1>1 DEF WakeHeld, WL!SuspendLockHeld
<1>3. WL!Reaped(active', auto_expire', expires') = {}
  <2>1. CASE WL!HeldForever(active, auto_expire) # {}
    <3>1. gone = {}
      BY <2>1 DEF WL!Reaped
    <3> QED BY <1>1, <2>1, <3>1 DEF WL!Reaped, WL!HeldForever
  <2>2. CASE WL!HeldForever(active, auto_expire) = {}
    <3>1. gone = {l \in active \cap auto_expire : expires[l] <= 0} \cap SuspendLocks
      BY <2>2 DEF WL!Reaped, WL!Lapsed
    <3>2. ASSUME NEW l \in active' \cap auto_expire' \cap SuspendLocks, expires'[l] <= 0 PROVE FALSE
      <4>1. l \in Locks /\ expires'[l] = expires[l]
        BY <1>1, <3>2, LocksAssumption
      <4> QED BY <1>1, <3>1, <3>2, <4>1
    <3> QED BY <3>2 DEF WL!Reaped, WL!Lapsed
  <2> QED BY <2>1, <2>2
<1>4. WakeHeld' <=> active' \cap SuspendLocks # {}
  BY <1>3 DEF WakeHeld, WL!SuspendLockHeld
<1>5. WakeHeld \in BOOLEAN /\ WakeHeld' \in BOOLEAN
  BY DEF WakeHeld, WL!SuspendLockHeld
<1> QED BY <1>2, <1>4, <1>5

-----------------------------------------------------------------------------
\* A step of wakelock.c is a step of the early-suspend specification: suspend() is
\* queued, or nothing is seen of it.
LEMMA LockStepSeen ==
  ASSUME MainKept(work_queue), UNCHANGED es_vars
  PROVE  ES!QueueSuspend \/ UNCHANGED ES!vars
<1>1. main_wake_lock \in active' <=> main_wake_lock \in active
  BY DEF MainKept
<1>2. (main_wake_lock \in active)' = (main_wake_lock \in active)
  BY <1>1
<1>3. /\ UNCHANGED <<requested, suspended, requested_suspend_state, handlers, down>>
      /\ UNCHANGED <<early_suspend_lock, registering, es_pc, cursor>>
  BY DEF es_vars
<1>4. UNCHANGED ES!es_vars
  BY <1>3 DEF ES!es_vars, ES!state_vars, ES!list_vars, ES!worker_vars
<1>5. CASE work_queue' = work_queue
  BY <1>2, <1>4, <1>5 DEF ES!vars
<1>6. CASE work_queue' = WL!queue_work(work_queue, "suspend")
  <2>1. work_queue' = ES!queue_work(work_queue, "suspend")
    BY <1>6 DEF WL!queue_work, ES!queue_work
  <2> QED BY <1>2, <1>4, <2>1, Zenon DEF ES!QueueSuspend
<1> QED BY <1>5, <1>6 DEF MainKept

\* The operations of the clients leave main_wake_lock alone.
LEMMA ClientKeepsMain ==
  ASSUME main_wake_lock \notin auto_expire, NEW l \in WL!ClientLocks, WL!Client(l)
  PROVE  MainKept(work_queue)
<1>1. l # main_wake_lock
  BY DEF WL!ClientLocks
<1>2. CASE WL!wake_lock_init(l)
  BY <1>2 DEF WL!wake_lock_init, MainKept
<1>3. CASE WL!wake_lock_destroy(l)
  BY <1>1, <1>3 DEF WL!wake_lock_destroy, MainKept
<1>4. CASE WL!wake_lock(l)
  BY <1>1, <1>4, LockOther DEF WL!wake_lock
<1>5. ASSUME NEW t \in Timeouts, WL!wake_lock_timeout(l, t) PROVE MainKept(work_queue)
  BY <1>1, <1>5, LockOther DEF WL!wake_lock_timeout
<1>6. CASE WL!WakeUnlock(l)
  BY <1>1, <1>6, UnlockOther DEF WL!WakeUnlock
<1> QED BY <1>2, <1>3, <1>4, <1>5, <1>6 DEF WL!Client

\* The timer and its handler leave main_wake_lock alone.
LEMMA TimerKeepsMain ==
  ASSUME main_wake_lock \notin auto_expire, WL!Timer
  PROVE  MainKept(work_queue)
<1>1. CASE WL!Tick
  BY <1>1 DEF WL!Tick, MainKept
<1>2. CASE WL!TimerExpires
  BY <1>2 DEF WL!TimerExpires, WL!lock_vars, MainKept
<1>3. CASE WL!expire_wake_locks
  BY <1>3, ScanKeepsMain DEF WL!expire_wake_locks, MainKept
<1> QED BY <1>1, <1>2, <1>3 DEF WL!Timer

\* Steps of the whole are steps of the early-suspend specification.
LEMMA StepEarlySuspend ==
  ASSUME CInv, [Next]_vars
  PROVE  [ES!Next]_ES!vars
<1>0. main_wake_lock \notin auto_expire
  BY DEF CInv
<1>1. ASSUME NEW s \in SleepStates \cup {"on"}, state_store(s) PROVE ES!Next
  BY <1>1 DEF state_store, ES!Next
<1>2. ASSUME NEW l \in WL!ClientLocks, ClientLock(l) PROVE [ES!Next]_ES!vars
  BY <1>0, <1>2, ClientKeepsMain, LockStepSeen DEF ClientLock, ES!Next
<1>3. CASE DriverHandlers
  BY <1>3 DEF DriverHandlers, ES!Next
<1>4. CASE Timer
  BY <1>0, <1>4, TimerKeepsMain, LockStepSeen DEF Timer, ES!Next
<1>5. CASE EarlySuspendWork
  BY <1>5 DEF EarlySuspendWork, ES!Next, ES!Worker
<1>6. CASE EarlySuspendUnlock
  BY <1>6 DEF EarlySuspendUnlock, ES!Next, ES!Worker
<1>7. CASE SuspendStart
  BY <1>7 DEF SuspendStart, ES!Next, ES!Worker
<1>8. CASE SuspendReturn
  BY <1>8 DEF SuspendReturn, ES!Next, ES!Worker
<1>9. CASE SuspendExit
  <2>1. CASE event_seen
    BY <2>1, <1>0, <1>9, LockStepSeen DEF SuspendExit, WL!SuspendExit, WL!lock_vars, MainKept, ES!Next
  <2>2. CASE ~event_seen
    <3>1. WL!wake_lock_internal(unknown_wakeup, HalfSecond, TRUE, work_queue)
      BY <2>2, <1>9 DEF SuspendExit, WL!SuspendExit
    <3>2. MainKept(work_queue)
      BY <3>1, <1>0, LockOther, LocksAssumption
    <3> QED BY <3>2, <1>9, LockStepSeen DEF SuspendExit, ES!Next
  <2> QED BY <2>1, <2>2
<1>10. CASE PmFreezePoll \/ PmPowerDown
  <2>1. WL!has_wake_lock /\ UNCHANGED es_vars /\ work_queue' = work_queue
    BY <1>10 DEF PmFreezePoll, PmPowerDown
  <2> QED BY <2>1, <1>0, ScanKeepsMain, LockStepSeen DEF MainKept, ES!Next
<1>11. CASE SuspendEnter \/ PmStart \/ PmRefused \/ PmStep \/ PmPowerDownRefused \/ UNCHANGED vars
  <2>1. UNCHANGED es_vars /\ work_queue' = work_queue /\ active' = active /\ auto_expire' = auto_expire
    BY <1>11 DEF SuspendEnter, WL!SuspendEnter, WL!lock_vars, PmStart, PmRefused, PmStep, PmPowerDownRefused,
       wl_vars, lock_vars, vars
  <2> QED BY <2>1, <1>0, LockStepSeen DEF MainKept, ES!Next
<1> QED
  BY <1>1, <1>2, <1>3, <1>4, <1>5, <1>6, <1>7, <1>8, <1>9, <1>10, <1>11
     DEF Next, UserSpace, Drivers, Worker, SuspendWork

-----------------------------------------------------------------------------
\* Whether a lock is held changes only while interrupts are on.
LEMMA LockStepPm ==
  ASSUME UNCHANGED pm_vars, WakeHeld' = WakeHeld \/ PM!IrqsEnabled
  PROVE  PM!WakeLocksChange \/ UNCHANGED PM!vars
<1>1. WakeHeld \in BOOLEAN /\ WakeHeld' \in BOOLEAN
  BY DEF WakeHeld, WL!SuspendLockHeld
<1>2. pm_pc' = pm_pc /\ undo' = undo
  BY DEF pm_vars
<1>3. CASE WakeHeld' = WakeHeld
  BY <1>2, <1>3 DEF PM!vars
<1>4. CASE WakeHeld' # WakeHeld
  <2>1. WakeHeld' = ~WakeHeld
    BY <1>1, <1>4
  <2> QED BY <1>2, <1>4, <2>1, Zenon DEF PM!WakeLocksChange
<1> QED BY <1>3, <1>4

\* The answer of has_wake_lock() depends on the lists and the expiry times only.
LEMMA SameLocksHeld ==
  ASSUME UNCHANGED <<active, auto_expire, expires>>
  PROVE  WakeHeld' = WakeHeld
BY DEF WakeHeld

\* Steps of the whole are steps of the pm_suspend() specification.
LEMMA StepPmSuspend ==
  ASSUME CInv, [Next]_vars
  PROVE  [PM!Next]_PM!vars
<1>0. pc # "pm" => PM!IrqsEnabled
  BY DEF CInv, PmInv, PM!IrqsEnabled, IrqsOff, LateOff, SysdevsOff
<1>1. ASSUME NEW s \in SleepStates \cup {"on"}, state_store(s) PROVE [PM!Next]_PM!vars
  BY <1>1, LockStepPm DEF state_store, UserRuns, IrqsEnabled, PM!Next
<1>2. ASSUME NEW l \in WL!ClientLocks, ClientLock(l) PROVE [PM!Next]_PM!vars
  BY <1>2, LockStepPm DEF ClientLock, IrqsEnabled, PM!Next
<1>3. CASE Timer
  BY <1>3, LockStepPm DEF Timer, IrqsEnabled, PM!Next
<1>4. CASE EarlySuspendUnlock \/ SuspendStart \/ SuspendExit
  <2>1. pc # "pm" /\ UNCHANGED pm_vars
    BY <1>4 DEF EarlySuspendUnlock, SuspendStart, WL!SuspendStart, SuspendExit, WL!SuspendExit, CInv
  <2> QED BY <1>0, <2>1, LockStepPm DEF PM!Next
<1>5. CASE PmStart
  BY <1>5 DEF PmStart, PM!Next
<1>6. CASE PmStep
  BY <1>6 DEF PmStep, PM!Next, PM!Running, PM!Prepare, PM!Enter
<1>7. CASE PmFreezePoll
  <2>1. CASE PM!FreezeGivesWay
    BY <2>1 DEF PM!Next, PM!Running, PM!Prepare
  <2>2. CASE UNCHANGED pm_vars
    BY <1>7, <2>2, ScanIsStable, LockStepPm DEF PmFreezePoll, PM!Next
  <2> QED BY <1>7, <2>1, <2>2 DEF PmFreezePoll
<1>8. CASE PmPowerDown \/ PmPowerDownRefused
  BY <1>8 DEF PmPowerDown, PmPowerDownRefused, PM!Next, PM!Running, PM!Enter
<1>9. CASE DriverHandlers \/ EarlySuspendWork \/ SuspendEnter \/ PmRefused \/ SuspendReturn \/ UNCHANGED vars
  <2>1. UNCHANGED pm_vars /\ UNCHANGED <<active, auto_expire, expires>>
    BY <1>9 DEF DriverHandlers, EarlySuspendWork, SuspendEnter, WL!SuspendEnter, WL!lock_vars, PmRefused,
       SuspendReturn, wl_vars, lock_vars, vars
  <2> QED BY <2>1, SameLocksHeld, LockStepPm DEF PM!Next
<1> QED
  BY <1>1, <1>2, <1>3, <1>4, <1>5, <1>6, <1>7, <1>8, <1>9
     DEF Next, UserSpace, Drivers, Worker, SuspendWork

-----------------------------------------------------------------------------
\* The two instances of the early-suspend specification are one.
LEMMA SameEarlySuspend ==
  /\ ES!Init <=> ESP!Init
  /\ [ES!Next]_ES!vars <=> [ESP!Next]_ESP!vars
<1> USE DEF ES!vars, ESP!vars, ES!es_vars, ESP!es_vars, ES!state_vars, ESP!state_vars,
            ES!list_vars, ESP!list_vars, ES!worker_vars, ESP!worker_vars,
            ES!queue_work, ESP!queue_work
<1>1. ES!Init <=> ESP!Init
  BY DEF ES!Init, ESP!Init
<1>2. ES!vars = ESP!vars
  OBVIOUS
<1>3. ASSUME NEW s PROVE ES!request_suspend_state(s) <=> ESP!request_suspend_state(s)
  BY DEF ES!request_suspend_state, ESP!request_suspend_state
<1>4. ASSUME NEW h PROVE ES!register_early_suspend(h) <=> ESP!register_early_suspend(h)
  BY DEF ES!register_early_suspend, ESP!register_early_suspend, ES!InsertPoint, ESP!InsertPoint,
     ES!Registered, ESP!Registered
<1>5. ASSUME NEW h PROVE ES!unregister_early_suspend(h) <=> ESP!unregister_early_suspend(h)
  BY DEF ES!unregister_early_suspend, ESP!unregister_early_suspend
<1>6. ES!RegisterFinish <=> ESP!RegisterFinish
  BY DEF ES!RegisterFinish, ESP!RegisterFinish
<1>7. ES!QueueSuspend <=> ESP!QueueSuspend
  BY DEF ES!QueueSuspend, ESP!QueueSuspend
<1>8. /\ ES!StartEarlySuspend <=> ESP!StartEarlySuspend
      /\ ES!StartLateResume <=> ESP!StartLateResume
      /\ ES!StartSuspend <=> ESP!StartSuspend
  BY DEF ES!StartEarlySuspend, ESP!StartEarlySuspend, ES!StartLateResume, ESP!StartLateResume,
     ES!StartSuspend, ESP!StartSuspend, ES!Dequeue, ESP!Dequeue
<1>9. (ES!EarlyLock <=> ESP!EarlyLock) /\ (ES!ResumeLock <=> ESP!ResumeLock)
  BY DEF ES!EarlyLock, ESP!EarlyLock, ES!ResumeLock, ESP!ResumeLock
<1>10. (ES!EarlyCall <=> ESP!EarlyCall) /\ (ES!ResumeCall <=> ESP!ResumeCall)
  BY DEF ES!EarlyCall, ESP!EarlyCall, ES!ResumeCall, ESP!ResumeCall
<1>11. (ES!EarlySync <=> ESP!EarlySync) /\ (ES!FinishSuspend <=> ESP!FinishSuspend)
  BY DEF ES!EarlySync, ESP!EarlySync, ES!FinishSuspend, ESP!FinishSuspend
<1>12. ES!EarlyUnlock <=> ESP!EarlyUnlock
  BY DEF ES!EarlyUnlock, ESP!EarlyUnlock
<1>13. ES!Worker <=> ESP!Worker
  BY <1>8, <1>9, <1>10, <1>11, <1>12 DEF ES!Worker, ESP!Worker
<1>14. ES!Next <=> ESP!Next
  BY <1>3, <1>4, <1>5, <1>6, <1>7, <1>13 DEF ES!Next, ESP!Next
<1> QED BY <1>1, <1>2, <1>14

\* queue_work() and run_workqueue() keep a queue without duplicates.
LEMMA QueuedOnce ==
  ASSUME NEW q \in Seq(ES!WorkItems), NEW w \in ES!WorkItems, Once(q)
  PROVE  Once(ES!queue_work(q, w)) /\ (q # <<>> => Once(Tail(q)))
<1>1. Len(q) \in Nat
  OBVIOUS
<1>2. ASSUME q # <<>> PROVE Once(Tail(q))
  <2>1. /\ Len(Tail(q)) = Len(q) - 1
        /\ \A i \in 1 .. Len(q) - 1 : Tail(q)[i] = q[i + 1]
    BY <1>2
  <2> QED BY <1>1, <2>1 DEF Once
<1>3. CASE \E i \in 1 .. Len(q) : q[i] = w
  BY <1>2, <1>3 DEF ES!queue_work
<1>4. CASE ~ \E i \in 1 .. Len(q) : q[i] = w
  <2>1. ES!queue_work(q, w) = Append(q, w)
    BY <1>4 DEF ES!queue_work
  <2>2. Len(Append(q, w)) = Len(q) + 1
    OBVIOUS
  <2>3. \A i \in 1 .. Len(q) + 1 : Append(q, w)[i] = IF i <= Len(q) THEN q[i] ELSE w
    OBVIOUS
  <2>4. Once(Append(q, w))
    BY <1>1, <1>4, <2>2, <2>3 DEF Once
  <2> QED BY <1>2, <2>1, <2>4
<1> QED BY <1>3, <1>4

\* A step of the early-suspend specification keeps the queue without duplicates.
LEMMA StepOnce ==
  ASSUME work_queue \in Seq(ES!WorkItems), Once(work_queue), [ES!Next]_ES!vars
  PROVE  Once(work_queue')
<1>1. work_queue' \in {work_queue, ES!queue_work(work_queue, "suspend"),
                       ES!queue_work(work_queue, "early_suspend"), ES!queue_work(work_queue, "late_resume")}
      \/ (work_queue # <<>> /\ work_queue' = Tail(work_queue))
  BY DEF ES!Next, ES!vars, ES!Worker, ES!request_suspend_state, ES!register_early_suspend,
     ES!unregister_early_suspend, ES!RegisterFinish, ES!QueueSuspend, ES!StartEarlySuspend,
     ES!StartLateResume, ES!StartSuspend, ES!Dequeue, ES!EarlyLock, ES!ResumeLock, ES!EarlyCall,
     ES!ResumeCall, ES!EarlySync, ES!FinishSuspend, ES!EarlyUnlock
<1>2. /\ Once(ES!queue_work(work_queue, "suspend"))
      /\ Once(ES!queue_work(work_queue, "early_suspend"))
      /\ Once(ES!queue_work(work_queue, "late_resume"))
      /\ work_queue # <<>> => Once(Tail(work_queue))
  BY QueuedOnce DEF ES!WorkItems
<1> QED BY <1>1, <1>2

-----------------------------------------------------------------------------
\* The invariant holds at boot.
LEMMA InitCInv == Init => CInv
<1> SUFFICES ASSUME Init PROVE CInv
  OBVIOUS
<1>1. PmInv
  BY DEF Init, PmInv, MutexHeld, Notified, UmhOff, UserFrozen, TasksFrozen, Begun, ConsoleOff,
     DevicesOff, PlatformReady, IrqsOff, LateOff, SysdevsOff, PM!Resources, PM!PmLabels
<1>2. ESP!IInv
  BY SameEarlySuspend, ESP!InitInv, HandlerAssumption DEF Init
<1>3. work_queue = <<>> /\ pc = "idle" /\ pm_pc = "out" /\ auto_expire = {}
  BY DEF Init, WL!Init
<1>4. Once(work_queue)
  BY <1>3 DEF Once
<1> QED BY <1>1, <1>2, <1>3, <1>4 DEF CInv, LateOff, SysdevsOff

\* Every step is one of pm_suspend() or leaves its state alone.
LEMMA StepPmInv ==
  ASSUME CInv, [Next]_vars
  PROVE  PmInv'
<1>1. PM!pm_suspend \/ PM!Running \/ PM!WakeUp \/ UNCHANGED pm_vars
  BY StepPmSuspend DEF PM!Next, PM!WakeLocksChange, PM!vars, pm_vars
<1> QED BY <1>1, PmStepInv DEF CInv

\* Who runs: suspend() inside the worker, pm_suspend() inside suspend().
LEMMA StepNesting ==
  ASSUME CInv, [Next]_vars
  PROVE  /\ pc' \in {"idle", "checked", "pm", "exit"}
         /\ pm_pc' # "out" => pc' = "pm"
         /\ pc' # "idle" => es_pc' = "suspend"
<1>0. /\ pc \in {"idle", "checked", "pm", "exit"}
      /\ pm_pc # "out" => pc = "pm"
      /\ pc # "idle" => es_pc = "suspend"
  BY DEF CInv
<1> USE DEF pm_vars, es_vars
<1>1. ASSUME NEW s \in SleepStates \cup {"on"}, state_store(s)
      PROVE  UNCHANGED <<pc, pm_pc, es_pc>>
  BY <1>1 DEF state_store, ES!request_suspend_state, ES!worker_vars
<1>2. ASSUME NEW l \in WL!ClientLocks, ClientLock(l) PROVE UNCHANGED <<pc, pm_pc, es_pc>>
  BY <1>2 DEF ClientLock, WL!Client, WL!wake_lock_init, WL!wake_lock_destroy, WL!wake_lock,
     WL!wake_lock_timeout, WL!WakeUnlock
<1>3. CASE DriverHandlers
  BY <1>0, <1>3 DEF DriverHandlers, ES!register_early_suspend, ES!unregister_early_suspend, ES!RegisterFinish,
     ES!worker_vars
<1>4. CASE Timer
  BY <1>0, <1>4 DEF Timer, WL!Timer, WL!Tick, WL!TimerExpires, WL!expire_wake_locks
<1>5. CASE EarlySuspendWork
  BY <1>0, <1>5 DEF EarlySuspendWork, ES!StartEarlySuspend, ES!StartLateResume, ES!Dequeue, ES!EarlyLock,
     ES!EarlyCall, ES!EarlySync, ES!ResumeLock, ES!ResumeCall
<1>6. CASE EarlySuspendUnlock
  BY <1>0, <1>6 DEF EarlySuspendUnlock
<1>7. CASE SuspendStart
  BY <1>0, <1>7 DEF SuspendStart, WL!SuspendStart, ES!StartSuspend, ES!Dequeue
<1>8. CASE SuspendEnter
  BY <1>0, <1>8 DEF SuspendEnter, WL!SuspendEnter
<1>9. CASE PmStart \/ PmFreezePoll \/ PmPowerDown \/ PmPowerDownRefused
  <2>1. UNCHANGED <<pc, es_pc>>
    BY <1>9 DEF PmStart, PmFreezePoll, PmPowerDown, PmPowerDownRefused
  <2>2. pc = "pm"
    BY <1>0, <1>9 DEF PmStart, PmFreezePoll, PmPowerDown, PmPowerDownRefused, PM!FreezeGivesWay,
       PM!FreezeFails, PM!DevicePowerDown, PM!DevicePowerDownFails, PM!Step
  <2> QED BY <1>0, <2>1, <2>2
<1>10. CASE PmRefused \/ SuspendExit
  BY <1>0, <1>10 DEF PmRefused, SuspendExit, WL!SuspendExit
<1>11. CASE PmStep
  <2>1. pm_pc # "out"
    BY <1>11 DEF PmStep, PM!PrepareNotify, PM!UmhDisable, PM!UmhFails, PM!FreezeUser, PM!FreezeTasks,
       PM!FreezeTimeout, PM!FreezeFails, PM!FreeMemory, PM!Devices, PM!PlatformBegin, PM!PlatformBeginFails,
       PM!DeviceSuspend, PM!PlatformRecover, PM!PlatformPrepare, PM!PlatformPrepareFails,
       PM!SuspendEnter, PM!SysdevSuspend, PM!SysdevSuspendFails, PM!PlatformEnter, PM!WakeUp, PM!Leave,
       PM!SysdevResume, PM!DevicePowerUp, PM!IrqsOn, PM!PlatformFinish, PM!DeviceResume,
       PM!PlatformEnd, PM!Thaw, PM!PostSuspend, PM!Unlock, PM!Step
  <2>2. pc' = (IF pm_pc' = "out" THEN "exit" ELSE pc) /\ es_pc' = es_pc
    BY <1>11 DEF PmStep
  <2> QED BY <1>0, <2>1, <2>2
<1>12. CASE SuspendReturn
  BY <1>0, <1>12 DEF SuspendReturn
<1>13. CASE UNCHANGED vars
  BY <1>0, <1>13 DEF vars
<1> QED
  BY <1>0, <1>1, <1>2, <1>3, <1>4, <1>5, <1>6, <1>7, <1>8, <1>9, <1>10, <1>11, <1>12, <1>13
     DEF Next, UserSpace, Drivers, Worker, SuspendWork

-----------------------------------------------------------------------------
\* main_wake_lock never gets a timeout.
LEMMA StepMainForever ==
  ASSUME CInv, [Next]_vars
  PROVE  main_wake_lock \notin auto_expire'
<1>0. main_wake_lock \notin auto_expire
  BY DEF CInv
<1> USE DEF MainKept
<1>1. ASSUME NEW s \in SleepStates \cup {"on"}, state_store(s) PROVE main_wake_lock \notin auto_expire'
  <2>1. CASE requested /\ s = "on"
    BY <1>1, <2>1 DEF state_store, WL!wake_lock_internal
  <2>2. CASE ~(requested /\ s = "on")
    BY <1>0, <1>1, <2>2 DEF state_store, wl_vars, lock_vars
  <2> QED BY <2>1, <2>2
<1>2. ASSUME NEW l \in WL!ClientLocks, ClientLock(l) PROVE main_wake_lock \notin auto_expire'
  BY <1>0, <1>2, ClientKeepsMain DEF ClientLock
<1>3. CASE Timer
  BY <1>0, <1>3, TimerKeepsMain DEF Timer
<1>4. CASE EarlySuspendUnlock
  BY <1>0, <1>4 DEF EarlySuspendUnlock, WL!wake_unlock, wl_vars, lock_vars
<1>5. CASE SuspendStart \/ PmFreezePoll \/ PmPowerDown
  BY <1>0, <1>5, ScanKeepsMain DEF SuspendStart, WL!SuspendStart, PmFreezePoll, PmPowerDown
<1>6. CASE SuspendExit
  <2>1. CASE event_seen
    BY <1>0, <1>6, <2>1 DEF SuspendExit, WL!SuspendExit, WL!lock_vars
  <2>2. CASE ~event_seen
    BY <1>0, <1>6, <2>2, LockOther, LocksAssumption DEF SuspendExit, WL!SuspendExit
  <2> QED BY <2>1, <2>2
<1>7. CASE DriverHandlers \/ EarlySuspendWork \/ SuspendEnter \/ PmStart \/ PmRefused \/ PmStep
           \/ PmPowerDownRefused \/ SuspendReturn \/ UNCHANGED vars
  BY <1>0, <1>7 DEF DriverHandlers, EarlySuspendWork, SuspendEnter, WL!SuspendEnter, WL!lock_vars, PmStart,
     PmRefused, PmStep, PmPowerDownRefused, SuspendReturn, wl_vars, lock_vars, vars
<1> QED
  BY <1>1, <1>2, <1>3, <1>4, <1>5, <1>6, <1>7 DEF Next, UserSpace, Drivers, Worker, SuspendWork

\* From power_suspend_late() to device_power_up() no suspend lock is held: the scan found
\* none, and with interrupts off nobody takes one.
LEMMA StepNoLockHeld ==
  ASSUME CInv, [Next]_vars, pm_pc' \in LateOff
  PROVE  active' \cap SuspendLocks = {}
<1> USE DEF pm_vars
<1>1. CASE pm_pc \in LateOff
  <2>0. /\ active \cap SuspendLocks = {} /\ ~IrqsEnabled /\ pc = "pm" /\ es_pc = "suspend" /\ pm_pc # "out"
        /\ pm_pc \notin {"power_down", "freeze_user", "freeze_tasks"}
    BY <1>1 DEF CInv, PmInv, IrqsEnabled, PM!IrqsEnabled, IrqsOff, LateOff, SysdevsOff
  <2>1. PmStep \/ UNCHANGED vars
    <3>1. ASSUME NEW s \in SleepStates \cup {"on"} PROVE ~state_store(s)
      BY <2>0 DEF state_store, UserRuns
    <3>2. ASSUME NEW l \in WL!ClientLocks PROVE ~ClientLock(l)
      BY <2>0 DEF ClientLock
    <3>3. ~Timer /\ ~DriverHandlers
      BY <2>0 DEF Timer, DriverHandlers, UserRuns
    <3>4. ~EarlySuspendWork /\ ~EarlySuspendUnlock
      BY <2>0 DEF EarlySuspendUnlock, EarlySuspendWork, ES!StartEarlySuspend, ES!StartLateResume, ES!Dequeue,
         ES!EarlyLock, ES!EarlyCall, ES!EarlySync, ES!ResumeLock, ES!ResumeCall
    <3>5. ~SuspendStart /\ ~SuspendEnter /\ ~PmRefused /\ ~SuspendExit /\ ~SuspendReturn /\ ~PmStart
      BY <2>0 DEF SuspendStart, WL!SuspendStart, SuspendEnter, WL!SuspendEnter, PmRefused, SuspendExit,
         WL!SuspendExit, SuspendReturn, PmStart, PM!pm_suspend, PM!Step
    <3>6. ~PmFreezePoll /\ ~PmPowerDown /\ ~PmPowerDownRefused
      BY <2>0 DEF PmFreezePoll, PM!FreezeGivesWay, PM!FreezeFails, PmPowerDown, PmPowerDownRefused,
         PM!DevicePowerDown, PM!DevicePowerDownFails, PM!Step
    <3> QED BY <3>1, <3>2, <3>3, <3>4, <3>5, <3>6 DEF Next, UserSpace, Drivers, Worker, SuspendWork
  <2> QED BY <2>0, <2>1 DEF PmStep, wl_vars, lock_vars, vars
<1>2. CASE pm_pc \notin LateOff
  <2>1. PM!DevicePowerDown
    <3>1. [PM!Next]_PM!vars
      BY StepPmSuspend
    <3> QED BY <1>2, <3>1 DEF PM!Next, PM!vars, PM!pm_suspend, PM!Running, PM!Prepare, PM!PrepareNotify,
        PM!UmhDisable, PM!UmhFails, PM!FreezeUser, PM!FreezeTasks, PM!FreezeFails, PM!FreezeGivesWay,
        PM!FreezeTimeout, PM!FreeMemory, PM!Devices, PM!PlatformBegin, PM!PlatformBeginFails, PM!DeviceSuspend,
        PM!PlatformRecover, PM!PlatformPrepare, PM!PlatformPrepareFails, PM!Enter, PM!SuspendEnter,
        PM!DevicePowerDownFails, PM!SysdevSuspend, PM!SysdevSuspendFails, PM!PlatformEnter,
        PM!Leave, PM!SysdevResume, PM!DevicePowerUp, PM!IrqsOn, PM!PlatformFinish, PM!DeviceResume,
        PM!PlatformEnd, PM!Thaw, PM!PostSuspend, PM!Unlock, PM!WakeUp, PM!WakeLocksChange, PM!Step,
        LateOff, SysdevsOff
  <2>2. pm_pc = "power_down" /\ pm_pc' = "sysdev" /\ ~WakeHeld
    BY <2>1 DEF PM!DevicePowerDown, PM!Step
  <2>3. PmPowerDown
    <3>0. pc = "pm" /\ es_pc = "suspend"
      BY <2>2 DEF CInv
    <3>1. ASSUME NEW s \in SleepStates \cup {"on"} PROVE ~state_store(s)
      BY <2>2 DEF state_store
    <3>2. ASSUME NEW l \in WL!ClientLocks PROVE ~ClientLock(l)
      BY <2>2 DEF ClientLock
    <3>3. ~Timer /\ ~DriverHandlers /\ ~EarlySuspendWork /\ ~EarlySuspendUnlock
      BY <2>2 DEF Timer, DriverHandlers, EarlySuspendWork, EarlySuspendUnlock
    <3>4. ~SuspendStart /\ ~SuspendEnter /\ ~PmRefused /\ ~SuspendExit /\ ~SuspendReturn
      BY <2>2 DEF SuspendStart, SuspendEnter, PmRefused, SuspendExit, SuspendReturn
    <3>5. ~PmStart /\ ~PmFreezePoll
      BY <2>2 DEF PmStart, PM!pm_suspend, PM!Step, PmFreezePoll, PM!FreezeGivesWay, PM!FreezeFails
    <3>6. ~PmStep
      BY <2>2 DEF PmStep, PM!PrepareNotify, PM!UmhDisable, PM!UmhFails, PM!FreezeUser, PM!FreezeTasks,
       PM!FreezeTimeout, PM!FreezeFails, PM!FreeMemory, PM!Devices, PM!PlatformBegin, PM!PlatformBeginFails,
       PM!DeviceSuspend, PM!PlatformRecover, PM!PlatformPrepare, PM!PlatformPrepareFails,
       PM!SuspendEnter, PM!SysdevSuspend, PM!SysdevSuspendFails, PM!PlatformEnter, PM!WakeUp, PM!Leave,
       PM!SysdevResume, PM!DevicePowerUp, PM!IrqsOn, PM!PlatformFinish, PM!DeviceResume,
       PM!PlatformEnd, PM!Thaw, PM!PostSuspend, PM!Unlock, PM!Step
    <3>7. ~PmPowerDownRefused /\ ~UNCHANGED vars
      BY <2>2 DEF PmPowerDownRefused, PM!DevicePowerDownFails, PM!Step, vars
    <3> QED BY <3>1, <3>2, <3>3, <3>4, <3>5, <3>6, <3>7 DEF Next, UserSpace, Drivers, Worker, SuspendWork
  <2> QED BY <2>2, <2>3, ScanIsStable DEF PmPowerDown
<1> QED BY <1>1, <1>2

\* Every step of the whole preserves the invariant.
LEMMA StepCInv == CInv /\ [Next]_vars => CInv'
<1> SUFFICES ASSUME CInv, [Next]_vars PROVE CInv'
  OBVIOUS
<1>1. [ESP!Next]_ESP!vars
  BY StepEarlySuspend, SameEarlySuspend
<1>2. ESP!IInv'
  BY <1>1, ESP!StepInv, HandlerAssumption DEF CInv
<1>3. work_queue \in Seq(ES!WorkItems)
  BY DEF CInv, ESP!IInv, ESP!TypeOK, ESP!WorkItems, ES!WorkItems
<1>4. Once(work_queue')
  BY <1>3, StepOnce, StepEarlySuspend DEF CInv
<1> QED BY <1>2, <1>4, StepPmInv, StepNesting, StepMainForever, StepNoLockHeld DEF CInv

\* The invariant of the whole holds in every reachable state.
THEOREM Invariance == Spec => []CInv
BY InitCInv, StepCInv, PTL DEF Spec

\* Whichever step of pm_suspend() fails, everything is undone, and in order.
THEOREM UndoneWhateverFails == Spec => []UndoneInOrder
<1>1. CInv => UndoneInOrder
  BY PmInvOrder DEF CInv
<1> QED BY <1>1, Invariance, PTL

\* The CPU is off only when user space asked for it, the handlers are down and no suspend
\* lock is held, whatever clients, timers and drivers did meanwhile.
THEOREM SleepsOnlyWhenWanted == Spec => []AsleepOnlyWhenWanted
<1>1. ASSUME CInv PROVE AsleepOnlyWhenWanted
  <2>1. SUFFICES ASSUME pm_pc = "asleep" PROVE AsleepOnlyWhenWanted
    BY DEF AsleepOnlyWhenWanted
  <2>2. active \cap SuspendLocks = {}
    BY <1>1, <2>1 DEF CInv, LateOff, SysdevsOff
  <2>3. ~(main_wake_lock \in active)
    BY <2>2, LocksAssumption
  <2>4. es_pc = "suspend" 
    BY <1>1, <2>1 DEF CInv
  <2>5. early_suspend_lock # "work"
    BY <1>1, <2>4 DEF CInv, ESP!IInv
  <2>6. requested /\ suspended /\ requested_suspend_state # "on" /\ ESP!AllDown
    BY <1>1, <2>3, <2>5 DEF CInv, ESP!IInv
  <2>7. ES!Registered \cap SuspendHook \subseteq down \cup {registering}
    BY <2>6 DEF ESP!AllDown, ESP!Registered, ES!Registered
  <2> QED BY <2>2, <2>6, <2>7 DEF AsleepOnlyWhenWanted
<1> QED BY <1>1, Invariance, PTL

\* The whole implements the early-suspend specification (earlysuspend.c).
THEOREM EarlySuspendImplemented == Spec => ImplementsEarlySuspend
<1>1. Init => ES!Init
  BY DEF Init
<1> QED BY <1>1, Invariance, StepEarlySuspend, PTL DEF Spec, ImplementsEarlySuspend, ES!Spec

\* The whole implements the pm_suspend() specification (main.c, process.c).
THEOREM PmSuspendImplemented == Spec => ImplementsPmSuspend
<1>1. Init => PM!Init
  <2>1. ASSUME Init PROVE WakeHeld = TRUE
    <3>1. active = {main_wake_lock} /\ auto_expire = {}
      BY <2>1 DEF Init, WL!Init
    <3> QED BY <3>1, LocksAssumption DEF WakeHeld, WL!SuspendLockHeld, WL!Reaped, WL!HeldForever
  <2> QED BY <2>1 DEF Init, PM!Init
<1> QED BY <1>1, Invariance, StepPmSuspend, PTL DEF Spec, ImplementsPmSuspend, PM!Spec

-----------------------------------------------------------------------------
\* What the wake locks see of a queue.
Items(q) == IF \E i \in 1 .. Len(q) : q[i] = "suspend" THEN <<"suspend">> ELSE <<>>

\* The wake locks see the items of the one work queue.
LEMMA ItemsSeen == SuspendItems = Items(work_queue) /\ SuspendItems' = Items(work_queue')
BY DEF SuspendItems, Items

\* Queueing suspend() is queueing it, other items are not seen.
LEMMA ItemsQueued ==
  ASSUME NEW q \in Seq(ES!WorkItems), NEW w \in ES!WorkItems
  PROVE  Items(WL!queue_work(q, w)) = IF w = "suspend" THEN AbstractWL!queue_work(Items(q), "suspend") ELSE Items(q)
<1>1. Len(q) \in Nat
  OBVIOUS
<1>2. AbstractWL!queue_work(Items(q), "suspend") = <<"suspend">>
  <2>1. AbstractWL!queue_work(<<"suspend">>, "suspend") = <<"suspend">>
    <3>1. 1 \in 1 .. Len(<<"suspend">>) /\ <<"suspend">>[1] = "suspend"
      OBVIOUS
    <3> QED BY <3>1, Zenon DEF AbstractWL!queue_work
  <2>2. AbstractWL!queue_work(<<>>, "suspend") = <<"suspend">>
    BY DEF AbstractWL!queue_work
  <2> QED BY <2>1, <2>2 DEF Items
<1>3. CASE \E i \in 1 .. Len(q) : q[i] = w
  <2>1. WL!queue_work(q, w) = q
    BY <1>3 DEF WL!queue_work
  <2>2. w = "suspend" => Items(q) = <<"suspend">>
    BY <1>3 DEF Items
  <2> QED BY <1>2, <2>1, <2>2
<1>4. CASE ~ \E i \in 1 .. Len(q) : q[i] = w
  <2>1. WL!queue_work(q, w) = Append(q, w)
    BY <1>4 DEF WL!queue_work
  <2>2. /\ Len(Append(q, w)) = Len(q) + 1
        /\ \A i \in 1 .. Len(q) + 1 : Append(q, w)[i] = IF i <= Len(q) THEN q[i] ELSE w
    OBVIOUS
  <2>3. (\E i \in 1 .. Len(q) + 1 : Append(q, w)[i] = "suspend")
          <=> w = "suspend" \/ \E i \in 1 .. Len(q) : q[i] = "suspend"
    <3>1. ASSUME w = "suspend" PROVE \E i \in 1 .. Len(q) + 1 : Append(q, w)[i] = "suspend"
      <4>1. Len(q) + 1 \in 1 .. Len(q) + 1 /\ Append(q, w)[Len(q) + 1] = "suspend"
        BY <1>1, <2>2, <3>1
      <4> QED BY <4>1
    <3>2. ASSUME NEW i \in 1 .. Len(q), q[i] = "suspend"
          PROVE \E j \in 1 .. Len(q) + 1 : Append(q, w)[j] = "suspend"
      <4>1. i \in 1 .. Len(q) + 1 /\ Append(q, w)[i] = "suspend"
        BY <1>1, <2>2, <3>2
      <4> QED BY <4>1
    <3>3. ASSUME NEW i \in 1 .. Len(q) + 1, Append(q, w)[i] = "suspend", w # "suspend"
          PROVE \E j \in 1 .. Len(q) : q[j] = "suspend"
      <4>1. i \in 1 .. Len(q) /\ q[i] = "suspend"
        BY <1>1, <2>2, <3>3
      <4> QED BY <4>1
    <3> QED BY <3>1, <3>2, <3>3
  <2> QED BY <1>2, <2>1, <2>2, <2>3 DEF Items
<1> QED BY <1>3, <1>4

\* run_workqueue() takes the one suspend item, or an item that is not seen.
LEMMA ItemsTaken ==
  ASSUME NEW q \in Seq(ES!WorkItems), q # <<>>, Once(q)
  PROVE  IF Head(q) = "suspend"
         THEN Items(q) = <<"suspend">> /\ Items(Tail(q)) = <<>>
         ELSE Items(Tail(q)) = Items(q)
<1>1. Len(q) \in Nat /\ Len(q) > 0 /\ Head(q) = q[1]
  OBVIOUS
<1>2. Len(Tail(q)) = Len(q) - 1 /\ \A i \in 1 .. Len(q) - 1 : Tail(q)[i] = q[i + 1]
  OBVIOUS
<1>3. CASE Head(q) = "suspend"
  <2>1. 1 \in 1 .. Len(q) /\ q[1] = "suspend"
    BY <1>1, <1>3
  <2>2. Items(q) = <<"suspend">>
    BY <2>1, Zenon DEF Items
  <2>3. ASSUME NEW i \in 1 .. Len(q) - 1 PROVE Tail(q)[i] # "suspend"
    BY <1>1, <1>2, <2>1 DEF Once
  <2> QED BY <1>2, <1>3, <2>2, <2>3 DEF Items
<1>4. CASE Head(q) # "suspend"
  <2>1. ASSUME NEW i \in 1 .. Len(q), q[i] = "suspend" PROVE \E j \in 1 .. Len(q) - 1 : Tail(q)[j] = "suspend"
    <3>1. i - 1 \in 1 .. Len(q) - 1 /\ Tail(q)[i - 1] = "suspend"
      BY <1>1, <1>2, <1>4, <2>1
    <3> QED BY <3>1
  <2>2. ASSUME NEW i \in 1 .. Len(q) - 1, Tail(q)[i] = "suspend" PROVE \E j \in 1 .. Len(q) : q[j] = "suspend"
    <3>1. i + 1 \in 1 .. Len(q) /\ q[i + 1] = "suspend"
      BY <1>1, <1>2, <2>2
    <3> QED BY <3>1
  <2> QED BY <1>2, <1>4, <2>1, <2>2 DEF Items
<1> QED BY <1>3, <1>4

\* Where suspend() is, for the wake locks.
LEMMA AwakeSeen ==
  ASSUME CInv, PM!IrqsEnabled
  PROVE  AbstractWL!Awake
BY DEF CInv, PmInv, PM!IrqsEnabled, IrqsOff, LateOff, SysdevsOff, AbstractWL!Awake, SuspendPc

\* The operations of wakelock.c are the same with the queue as the wake locks see it.
LEMMA RestartSeen ==
  ASSUME NEW act, NEW auto, NEW exp, NEW q \in Seq(ES!WorkItems),
         WL!RestartExpireTimer(act, auto, exp, q)
  PROVE  AbstractWL!RestartExpireTimer(act, auto, exp, Items(q))
<1>1. Items(WL!queue_work(q, "suspend")) = AbstractWL!queue_work(Items(q), "suspend")
  BY ItemsQueued DEF ES!WorkItems
<1>2. CASE work_queue' = q
  BY <1>1, <1>2, ItemsSeen DEF WL!RestartExpireTimer, AbstractWL!RestartExpireTimer,
     WL!HeldForever, AbstractWL!HeldForever, WL!SuspendLockHeld, AbstractWL!SuspendLockHeld
<1>3. CASE work_queue' # q
  BY <1>1, <1>3, ItemsSeen DEF WL!RestartExpireTimer, AbstractWL!RestartExpireTimer,
     WL!HeldForever, AbstractWL!HeldForever, WL!SuspendLockHeld, AbstractWL!SuspendLockHeld
<1> QED BY <1>2, <1>3

\* The expiry scan is the same one.
LEMMA SameScan ==
  ASSUME NEW act, NEW auto, NEW exp
  PROVE  /\ WL!Reaped(act, auto, exp) = AbstractWL!Reaped(act, auto, exp)
         /\ WL!Lapsed(act, auto, exp) = AbstractWL!Lapsed(act, auto, exp)
         /\ WL!Expiries(exp, auto) = AbstractWL!Expiries(exp, auto)
BY DEF WL!Reaped, AbstractWL!Reaped, WL!Lapsed, AbstractWL!Lapsed, WL!HeldForever, AbstractWL!HeldForever,
   WL!Expiries, AbstractWL!Expiries

\* wake_lock() and wake_lock_timeout(), as the wake-lock specification sees them.
LEMMA LockSeen ==
  ASSUME NEW l, NEW timeout, NEW has_timeout \in BOOLEAN, NEW q \in Seq(ES!WorkItems),
         Items(q) = SuspendItems, WL!wake_lock_internal(l, timeout, has_timeout, q)
  PROVE  AbstractWL!wake_lock_internal(l, timeout, has_timeout, SuspendItems)
<1> DEFINE act0   == active \cup {l}
           auto0  == IF has_timeout THEN auto_expire \cup {l} ELSE auto_expire \ {l}
           exp0   == WL!Expiries([expires EXCEPT ![l] = timeout], auto0)
           gone   == IF has_timeout /\ l \in SuspendLocks THEN WL!Reaped(act0, auto0, exp0) ELSE {}
<1>1. l \in SuspendLocks => AbstractWL!RestartExpireTimer(act0 \ gone, auto0 \ gone, exp0, SuspendItems)
  BY RestartSeen DEF WL!wake_lock_internal
<1>2. l \notin SuspendLocks => SuspendItems' = SuspendItems
  BY ItemsSeen DEF WL!wake_lock_internal
<1> QED BY <1>1, <1>2 DEF WL!wake_lock_internal, AbstractWL!wake_lock_internal, WL!Reaped, AbstractWL!Reaped,
   WL!Lapsed, AbstractWL!Lapsed, WL!HeldForever, AbstractWL!HeldForever, WL!Expiries, AbstractWL!Expiries,
   WL!update_sleep_wait_stats_locked, AbstractWL!update_sleep_wait_stats_locked, WL!timer_vars, AbstractWL!timer_vars

\* wake_unlock(), as the wake-lock specification sees it.
LEMMA UnlockSeen ==
  ASSUME NEW l, work_queue \in Seq(ES!WorkItems), WL!wake_unlock(l, work_queue)
  PROVE  AbstractWL!wake_unlock(l, SuspendItems)
<1> DEFINE act0  == active \ {l}
           auto0 == auto_expire \ {l}
           gone  == IF l \in SuspendLocks THEN WL!Reaped(act0, auto0, expires) ELSE {}
<1>1. l \in SuspendLocks => AbstractWL!RestartExpireTimer(act0 \ gone, auto0 \ gone, expires, SuspendItems)
  BY RestartSeen, ItemsSeen DEF WL!wake_unlock
<1>2. l \notin SuspendLocks => SuspendItems' = SuspendItems
  BY ItemsSeen DEF WL!wake_unlock
<1> QED BY <1>1, <1>2 DEF WL!wake_unlock, AbstractWL!wake_unlock, WL!Reaped, AbstractWL!Reaped,
   WL!Lapsed, AbstractWL!Lapsed, WL!HeldForever, AbstractWL!HeldForever, WL!Expiries, AbstractWL!Expiries,
   WL!update_sleep_wait_stats_locked, AbstractWL!update_sleep_wait_stats_locked, WL!timer_vars, AbstractWL!timer_vars

\* has_wake_lock(), as the wake-lock specification sees it.
LEMMA ScanSeen ==
  ASSUME WL!has_wake_lock
  PROVE  AbstractWL!has_wake_lock /\ (WakeHeld <=> AbstractWL!SuspendLockHeld(active'))
<1>1. AbstractWL!has_wake_lock
  BY SameScan DEF WL!has_wake_lock, AbstractWL!has_wake_lock, WL!ReapLocks, AbstractWL!ReapLocks,
     WL!Expiries, AbstractWL!Expiries
<1> QED BY <1>1, ScanIsStable DEF AbstractWL!SuspendLockHeld

-----------------------------------------------------------------------------
\* A client's operation, while interrupts are on.
LEMMA ClientSeen ==
  ASSUME CInv, NEW l \in WL!ClientLocks, ClientLock(l)
  PROVE  AbstractWL!Client(l)
<1>0. work_queue \in Seq(ES!WorkItems)
  BY DEF CInv, ESP!IInv, ESP!TypeOK, ESP!WorkItems, ES!WorkItems
<1>1. AbstractWL!Awake
  BY AwakeSeen DEF ClientLock, IrqsEnabled
<1>2. UNCHANGED pm_pc /\ WL!Client(l)
  BY DEF ClientLock, pm_vars
<1>3. UNCHANGED work_queue => SuspendItems' = SuspendItems
  BY ItemsSeen
<1>4. UNCHANGED pc => SuspendPc' = SuspendPc
  BY <1>2 DEF SuspendPc
<1>5. CASE WL!wake_lock_init(l)
  BY <1>1, <1>3, <1>4, <1>5 DEF WL!wake_lock_init, AbstractWL!wake_lock_init, WL!timer_vars,
     AbstractWL!timer_vars, AbstractWL!Client
<1>6. CASE WL!wake_lock_destroy(l)
  BY <1>1, <1>3, <1>4, <1>6 DEF WL!wake_lock_destroy, AbstractWL!wake_lock_destroy, WL!timer_vars,
     AbstractWL!timer_vars, AbstractWL!Client, WL!Expiries, AbstractWL!Expiries
<1>7. CASE WL!wake_lock(l)
  BY <1>0, <1>1, <1>4, <1>7, LockSeen, ItemsSeen DEF WL!wake_lock, AbstractWL!wake_lock, AbstractWL!Client
<1>8. ASSUME NEW t \in Timeouts, WL!wake_lock_timeout(l, t) PROVE AbstractWL!Client(l)
  BY <1>0, <1>1, <1>4, <1>8, LockSeen, ItemsSeen DEF WL!wake_lock_timeout, AbstractWL!wake_lock_timeout, AbstractWL!Client
<1>9. CASE WL!WakeUnlock(l)
  BY <1>0, <1>1, <1>4, <1>9, UnlockSeen DEF WL!WakeUnlock, AbstractWL!WakeUnlock, AbstractWL!Client
<1> QED BY <1>2, <1>5, <1>6, <1>7, <1>8, <1>9 DEF WL!Client

\* The timer, while interrupts are on.
LEMMA TimerSeen ==
  ASSUME CInv, Timer
  PROVE  AbstractWL!Timer
<1>0. work_queue \in Seq(ES!WorkItems)
  BY DEF CInv, ESP!IInv, ESP!TypeOK, ESP!WorkItems, ES!WorkItems
<1>1. AbstractWL!Awake
  BY AwakeSeen DEF Timer, IrqsEnabled
<1>2. UNCHANGED pm_pc /\ WL!Timer
  BY DEF Timer, pm_vars
<1>3. UNCHANGED work_queue => SuspendItems' = SuspendItems
  BY ItemsSeen
<1>4. UNCHANGED pc => SuspendPc' = SuspendPc
  BY <1>2 DEF SuspendPc
<1>5. CASE WL!Tick
  BY <1>1, <1>3, <1>4, <1>5 DEF WL!Tick, AbstractWL!Tick, WL!Decrement, AbstractWL!Decrement, AbstractWL!Timer
<1>6. CASE WL!TimerExpires
  BY <1>1, <1>3, <1>4, <1>6 DEF WL!TimerExpires, AbstractWL!TimerExpires, WL!lock_vars, AbstractWL!lock_vars, AbstractWL!Timer
<1>7. CASE WL!expire_wake_locks
  <2>1. AbstractWL!has_wake_lock /\ UNCHANGED pc
    BY <1>7, ScanSeen DEF WL!expire_wake_locks
  <2>2. Items(WL!queue_work(work_queue, "suspend")) = AbstractWL!queue_work(SuspendItems, "suspend")
    BY <1>0, ItemsQueued, ItemsSeen DEF ES!WorkItems
  <2>3. SuspendItems' = IF AbstractWL!SuspendLockHeld(active') THEN SuspendItems
                        ELSE AbstractWL!queue_work(SuspendItems, "suspend")
    BY <1>7, <2>2, ItemsSeen DEF WL!expire_wake_locks, WL!SuspendLockHeld, AbstractWL!SuspendLockHeld
  <2> QED BY <1>1, <1>4, <1>7, <2>1, <2>3 DEF WL!expire_wake_locks, AbstractWL!expire_wake_locks, WL!timer_vars,
      AbstractWL!timer_vars, AbstractWL!Timer
<1> QED BY <1>2, <1>5, <1>6, <1>7 DEF WL!Timer

\* The wake-lock state is left alone.
LEMMA NothingSeen ==
  ASSUME UNCHANGED wl_vars, SuspendItems' = SuspendItems, SuspendPc' = SuspendPc
  PROVE  UNCHANGED AbstractWL!vars
BY DEF wl_vars, lock_vars, timer_vars, AbstractWL!vars, AbstractWL!lock_vars, AbstractWL!timer_vars

\* The steps of pm_suspend() that do not scan: nothing, a failure, or the wake-up.
LEMMA PmStepSeen ==
  ASSUME CInv, PmStep
  PROVE  [AbstractWL!Next]_AbstractWL!vars
<1>1. UNCHANGED wl_vars /\ SuspendItems' = SuspendItems
  BY ItemsSeen DEF PmStep
<1>2. pc' = IF pm_pc' = "out" THEN "exit" ELSE pc
  BY DEF PmStep
<1>3. \/ SuspendPc' = SuspendPc
      \/ SuspendPc = "pm" /\ SuspendPc' = "exit"
      \/ SuspendPc = "asleep" /\ SuspendPc' = "exit"
  <2>1. pc = "pm"
    BY DEF CInv, PmStep, PM!PrepareNotify, PM!UmhDisable, PM!UmhFails, PM!FreezeUser, PM!FreezeTasks,
       PM!FreezeTimeout, PM!FreezeFails, PM!FreeMemory, PM!Devices, PM!PlatformBegin, PM!PlatformBeginFails,
       PM!DeviceSuspend, PM!PlatformRecover, PM!PlatformPrepare, PM!PlatformPrepareFails,
       PM!SuspendEnter, PM!SysdevSuspend, PM!SysdevSuspendFails, PM!PlatformEnter, PM!WakeUp, PM!Leave,
       PM!SysdevResume, PM!DevicePowerUp, PM!IrqsOn, PM!PlatformFinish, PM!DeviceResume,
       PM!PlatformEnd, PM!Thaw, PM!PostSuspend, PM!Unlock, PM!Step
  <2>2. CASE \/ PM!PrepareNotify \/ PM!UmhDisable \/ PM!UmhFails \/ PM!FreezeUser \/ PM!FreezeTasks
             \/ PM!FreezeTimeout \/ PM!FreeMemory
    BY <1>2, <2>1, <2>2 DEF SuspendPc, PM!PrepareNotify, PM!UmhDisable, PM!UmhFails, PM!FreezeUser, PM!FreezeTasks,
       PM!FreezeTimeout, PM!FreezeFails, PM!FreeMemory, PM!Step
  <2>3. CASE PM!Devices
    BY <1>2, <2>1, <2>3 DEF SuspendPc, PM!Devices, PM!PlatformBegin, PM!PlatformBeginFails, PM!DeviceSuspend,
       PM!PlatformRecover, PM!PlatformPrepare, PM!PlatformPrepareFails, PM!Step
  <2>4. CASE PM!SuspendEnter \/ PM!SysdevSuspend \/ PM!SysdevSuspendFails \/ PM!PlatformEnter \/ PM!WakeUp
    BY <1>2, <2>1, <2>4 DEF SuspendPc, PM!SuspendEnter, PM!SysdevSuspend, PM!SysdevSuspendFails, PM!PlatformEnter,
       PM!WakeUp, PM!Step
  <2>5. CASE PM!Leave
    BY <1>2, <2>1, <2>5 DEF SuspendPc, PM!Leave, PM!SysdevResume, PM!DevicePowerUp, PM!IrqsOn, PM!PlatformFinish,
       PM!DeviceResume, PM!PlatformEnd, PM!Thaw, PM!PostSuspend, PM!Unlock, PM!Step
  <2> QED BY <2>2, <2>3, <2>4, <2>5 DEF PmStep
<1> HIDE DEF SuspendPc
<1>4. CASE SuspendPc' = SuspendPc
  BY <1>1, <1>4, NothingSeen
<1>5. UNCHANGED <<AbstractWL!lock_vars, AbstractWL!timer_vars, timer_running, event_seen>>
  BY <1>1 DEF wl_vars, lock_vars, timer_vars, AbstractWL!lock_vars, AbstractWL!timer_vars
<1>6. CASE SuspendPc = "pm" /\ SuspendPc' = "exit"
  BY <1>1, <1>5, <1>6 DEF AbstractWL!PmFail, AbstractWL!Next, AbstractWL!SuspendWork
<1>7. CASE SuspendPc = "asleep" /\ SuspendPc' = "exit"
  BY <1>1, <1>5, <1>7 DEF AbstractWL!WakeUp, AbstractWL!Next, AbstractWL!SuspendWork
<1> QED BY <1>3, <1>4, <1>6, <1>7

\* Steps of the whole are steps of the wake-lock specification.
LEMMA StepWakeLock ==
  ASSUME CInv, [Next]_vars
  PROVE  [AbstractWL!Next]_AbstractWL!vars
<1>0. work_queue \in Seq(ES!WorkItems) /\ Once(work_queue)
  BY DEF CInv, ESP!IInv, ESP!TypeOK, ESP!WorkItems, ES!WorkItems
<1>00. /\ pc \in {"idle", "checked", "pm", "exit"}
       /\ pm_pc # "out" => pc = "pm"
       /\ pc # "idle" => es_pc = "suspend"
  BY DEF CInv
<1>a. UNCHANGED <<pc, pm_pc>> => SuspendPc' = SuspendPc
  BY DEF SuspendPc
<1>b. UNCHANGED work_queue => SuspendItems' = SuspendItems
  BY ItemsSeen
<1>c. pc # "pm" => SuspendPc = pc
  BY DEF SuspendPc
<1>d. pc' # "pm" => SuspendPc' = pc'
  BY DEF SuspendPc
<1> USE DEF pm_vars
<1>1. ASSUME NEW s \in SleepStates \cup {"on"}, state_store(s) PROVE [AbstractWL!Next]_AbstractWL!vars
  <2>1. SuspendPc' = SuspendPc
    BY <1>1, <1>a DEF state_store
  <2>2. CASE requested /\ s = "on"
    <3>1. WL!queue_work(work_queue, "late_resume") \in Seq(ES!WorkItems)
      BY <1>0 DEF WL!queue_work, ES!WorkItems
    <3>2. Items(WL!queue_work(work_queue, "late_resume")) = SuspendItems
      BY <1>0, ItemsQueued, ItemsSeen DEF ES!WorkItems
    <3>3. AbstractWL!wake_lock_internal(main_wake_lock, 0, FALSE, SuspendItems) /\ UNCHANGED timer_running
      BY <1>1, <2>2, <3>1, <3>2, LockSeen DEF state_store
    <3>4. AbstractWL!Awake
      BY <1>1, AwakeSeen DEF state_store, UserRuns, IrqsEnabled
    <3> QED BY <2>1, <3>3, <3>4 DEF AbstractWL!wake_lock, AbstractWL!Next, AbstractWL!Environment, AbstractWL!MainLock
  <2>3. CASE ~(requested /\ s = "on")
    <3>1. work_queue' = work_queue \/ work_queue' = ES!queue_work(work_queue, "early_suspend")
      BY <1>1, <2>3 DEF state_store, ES!request_suspend_state
    <3>2. ES!queue_work(work_queue, "early_suspend") = WL!queue_work(work_queue, "early_suspend")
      BY DEF ES!queue_work, WL!queue_work
    <3>3. SuspendItems' = SuspendItems
      BY <1>0, <3>1, <3>2, ItemsQueued, ItemsSeen DEF ES!WorkItems
    <3> QED BY <1>1, <2>1, <2>3, <3>3, NothingSeen DEF state_store
  <2> QED BY <2>2, <2>3
<1>2. ASSUME NEW l \in WL!ClientLocks, ClientLock(l) PROVE AbstractWL!Next
  BY <1>2, ClientSeen DEF AbstractWL!Next, AbstractWL!Environment, AbstractWL!ClientLocks, WL!ClientLocks
<1>3. CASE DriverHandlers
  <2>1. UNCHANGED <<wl_vars, pc, pm_pc, work_queue>>
    BY <1>3 DEF DriverHandlers, ES!register_early_suspend, ES!unregister_early_suspend, ES!RegisterFinish
  <2> QED BY <2>1, <1>a, <1>b, NothingSeen
<1>4. CASE Timer
  BY <1>4, TimerSeen DEF AbstractWL!Next
<1>5. CASE EarlySuspendWork
  <2>1. UNCHANGED <<wl_vars, pc, pm_pc>>
    BY <1>5 DEF EarlySuspendWork
  <2>2. \/ work_queue' = work_queue
        \/ work_queue # <<>> /\ Head(work_queue) # "suspend" /\ work_queue' = Tail(work_queue)
    BY <1>5 DEF EarlySuspendWork, ES!StartEarlySuspend, ES!StartLateResume, ES!Dequeue, ES!EarlyLock,
       ES!EarlyCall, ES!EarlySync, ES!ResumeLock, ES!ResumeCall
  <2>3. SuspendItems' = SuspendItems
    BY <1>0, <1>b, <2>2, ItemsTaken, ItemsSeen
  <2> QED BY <2>1, <2>3, <1>a, NothingSeen
<1>6. CASE EarlySuspendUnlock
  <2>1. SuspendPc' = SuspendPc /\ AbstractWL!Awake
    BY <1>6, <1>00, <1>a, <1>c DEF EarlySuspendUnlock, AbstractWL!Awake
  <2>2. CASE requested /\ suspended
    BY <1>0, <1>6, <2>1, <2>2, UnlockSeen DEF EarlySuspendUnlock, AbstractWL!WakeUnlock, AbstractWL!Next,
       AbstractWL!Environment, AbstractWL!MainLock
  <2>3. CASE ~(requested /\ suspended)
    BY <1>6, <1>b, <2>1, <2>3, NothingSeen DEF EarlySuspendUnlock
  <2> QED BY <2>2, <2>3
<1>7. CASE SuspendStart
  <2>1. /\ WL!SuspendStart /\ pm_pc' = pm_pc /\ pc = "idle"
        /\ WL!has_wake_lock /\ work_queue # <<>> /\ Head(work_queue) = "suspend" /\ work_queue' = Tail(work_queue)
        /\ pc' = IF WL!SuspendLockHeld(active') THEN "idle" ELSE "checked"
    BY <1>7 DEF SuspendStart, WL!SuspendStart
  <2>2. SuspendItems = <<"suspend">> /\ SuspendItems' = <<>>
    BY <1>0, <2>1, ItemsTaken, ItemsSeen
  <2>3. SuspendItems # <<>> /\ Head(SuspendItems) = "suspend" /\ SuspendItems' = Tail(SuspendItems)
    BY <2>2
  <2>4. SuspendPc = "idle" /\ SuspendPc' = IF AbstractWL!SuspendLockHeld(active') THEN "idle" ELSE "checked"
    BY <1>c, <1>d, <2>1 DEF WL!SuspendLockHeld, AbstractWL!SuspendLockHeld
  <2>5. AbstractWL!has_wake_lock
    BY <2>1, ScanSeen
  <2>6. UNCHANGED <<AbstractWL!timer_vars, timer_running, initialized, wait_for_wakeup, event_seen>>
    BY <2>1 DEF WL!SuspendStart, WL!timer_vars, AbstractWL!timer_vars
  <2> QED BY <2>3, <2>4, <2>5, <2>6, Zenon DEF AbstractWL!SuspendStart, AbstractWL!SuspendWork, AbstractWL!Next
<1>8. CASE SuspendEnter
  <2>1. /\ pc = "checked" /\ pc' = "pm" /\ pm_pc' = pm_pc /\ event_seen' = FALSE
        /\ UNCHANGED <<AbstractWL!lock_vars, AbstractWL!timer_vars, timer_running, work_queue>>
    BY <1>8 DEF SuspendEnter, WL!SuspendEnter, WL!lock_vars, AbstractWL!lock_vars, WL!timer_vars, AbstractWL!timer_vars
  <2>2. SuspendPc = "checked" /\ SuspendPc' = "pm"
    BY <1>00, <2>1 DEF SuspendPc
  <2> QED BY <1>b, <2>1, <2>2, Zenon DEF AbstractWL!SuspendEnter, AbstractWL!SuspendWork, AbstractWL!Next
<1>9. CASE PmStart
  <2>1. SuspendPc' = SuspendPc
    BY <1>9 DEF PmStart, PM!pm_suspend, PM!Step, SuspendPc
  <2> QED BY <1>9, <1>b, <2>1, NothingSeen DEF PmStart
<1>10. CASE PmRefused \/ PmPowerDownRefused
  <2>1. SuspendPc = "pm" /\ SuspendPc' = "exit"
    BY <1>00, <1>10 DEF PmRefused, PmPowerDownRefused, PM!DevicePowerDownFails, PM!Step, SuspendPc
  <2>2. UNCHANGED <<AbstractWL!lock_vars, AbstractWL!timer_vars, timer_running, work_queue, event_seen>>
    BY <1>10 DEF PmRefused, PmPowerDownRefused, wl_vars, lock_vars, timer_vars, AbstractWL!lock_vars, AbstractWL!timer_vars
  <2> QED BY <1>b, <2>1, <2>2, Zenon DEF AbstractWL!PmFail, AbstractWL!SuspendWork, AbstractWL!Next
<1>11. CASE PmStep
  BY <1>11, PmStepSeen
<1>12. CASE PmFreezePoll
  <2>1. AbstractWL!has_wake_lock /\ (WakeHeld <=> AbstractWL!SuspendLockHeld(active'))
    BY <1>12, ScanSeen DEF PmFreezePoll
  <2>2. UNCHANGED <<AbstractWL!timer_vars, timer_running, initialized, wait_for_wakeup, work_queue, event_seen>>
    BY <1>12 DEF PmFreezePoll, timer_vars, AbstractWL!timer_vars
  <2>3. SuspendPc = "pm" /\ SuspendPc' = IF WakeHeld THEN "exit" ELSE "pm"
    BY <1>00, <1>12 DEF PmFreezePoll, PM!FreezeGivesWay, PM!FreezeFails, PM!Step, SuspendPc
  <2> QED BY <1>b, <2>1, <2>2, <2>3, Zenon DEF AbstractWL!PmFreezePoll, AbstractWL!SuspendWork, AbstractWL!Next
<1>13. CASE PmPowerDown
  <2>1. AbstractWL!has_wake_lock /\ (WakeHeld <=> AbstractWL!SuspendLockHeld(active')) /\ wait_for_wakeup' = TRUE
    BY <1>13, ScanSeen DEF PmPowerDown
  <2>2. UNCHANGED <<AbstractWL!timer_vars, timer_running, initialized, work_queue, event_seen>>
    BY <1>13 DEF PmPowerDown, timer_vars, AbstractWL!timer_vars
  <2>3. SuspendPc = "pm" /\ SuspendPc' \in IF WakeHeld THEN {"exit"} ELSE {"asleep", "exit"}
    BY <1>00, <1>13 DEF PmPowerDown, PM!DevicePowerDown, PM!DevicePowerDownFails, PM!Step, SuspendPc
  <2> QED BY <1>b, <2>1, <2>2, <2>3, Zenon DEF AbstractWL!power_suspend_late, AbstractWL!SuspendWork, AbstractWL!Next
<1>14. CASE SuspendExit
  <2>1. /\ pc = "exit" /\ pc' = "idle" /\ pm_pc' = pm_pc /\ UNCHANGED timer_running
        /\ IF event_seen
           THEN UNCHANGED <<AbstractWL!lock_vars, AbstractWL!timer_vars, work_queue, event_seen>>
           ELSE WL!wake_lock_internal(unknown_wakeup, HalfSecond, TRUE, work_queue)
    BY <1>14 DEF SuspendExit, WL!SuspendExit, WL!lock_vars, AbstractWL!lock_vars, WL!timer_vars, AbstractWL!timer_vars
  <2>2. SuspendPc = "exit" /\ SuspendPc' = "idle"
    BY <1>c, <1>d, <2>1
  <2>3. ~event_seen => AbstractWL!wake_lock_internal(unknown_wakeup, HalfSecond, TRUE, SuspendItems)
    BY <1>0, <2>1, LockSeen, ItemsSeen
  <2> QED BY <1>b, <2>1, <2>2, <2>3, Zenon DEF AbstractWL!SuspendExit, AbstractWL!SuspendWork, AbstractWL!Next
<1>15. CASE SuspendReturn
  <2>1. UNCHANGED <<wl_vars, pc, pm_pc, work_queue>>
    BY <1>15 DEF SuspendReturn, ES!FinishSuspend
  <2> QED BY <2>1, <1>a, <1>b, NothingSeen
<1>16. CASE UNCHANGED vars
  BY <1>16, <1>a, <1>b, NothingSeen DEF vars
<1> QED
  BY <1>1, <1>2, <1>3, <1>4, <1>5, <1>6, <1>7, <1>8, <1>9, <1>10, <1>11, <1>12, <1>13, <1>14, <1>15, <1>16
     DEF Next, UserSpace, Drivers, Worker, SuspendWork

\* The whole implements the wake-lock specification (wakelock.c).
THEOREM WakeLockImplemented == Spec => ImplementsWakeLock
<1>1. Init => AbstractWL!Init
  <2>1. ASSUME Init PROVE SuspendItems = <<>> /\ SuspendPc = "idle"
    <3>1. work_queue = <<>> /\ pc = "idle"
      BY <2>1 DEF Init, WL!Init
    <3> QED BY <3>1 DEF SuspendItems, SuspendPc
  <2> QED BY <2>1 DEF Init, WL!Init, AbstractWL!Init
<1> QED BY <1>1, Invariance, StepWakeLock, PTL DEF Spec, ImplementsWakeLock, AbstractWL!Spec

-----------------------------------------------------------------------------
\* The wake locks as a part of the whole, with what is proved of them.
WLP == INSTANCE WakeLock_proof WITH pc <- SuspendPc, work_queue <- SuspendItems

\* The two instances of the wake-lock specification are one.
LEMMA SameWakeLock ==
  /\ AbstractWL!Init <=> WLP!Init
  /\ [AbstractWL!Next]_AbstractWL!vars <=> [WLP!Next]_WLP!vars
<1> USE DEF AbstractWL!vars, WLP!vars, AbstractWL!lock_vars, WLP!lock_vars, AbstractWL!timer_vars, WLP!timer_vars,
            AbstractWL!queue_work, WLP!queue_work, AbstractWL!Awake, WLP!Awake,
            AbstractWL!HeldForever, WLP!HeldForever, AbstractWL!Lapsed, WLP!Lapsed, AbstractWL!Reaped, WLP!Reaped,
            AbstractWL!SuspendLockHeld, WLP!SuspendLockHeld, AbstractWL!Expiries, WLP!Expiries,
            AbstractWL!update_sleep_wait_stats_locked, WLP!update_sleep_wait_stats_locked,
            AbstractWL!RestartExpireTimer, WLP!RestartExpireTimer, AbstractWL!ReapLocks, WLP!ReapLocks,
            AbstractWL!has_wake_lock, WLP!has_wake_lock
<1>1. AbstractWL!Init <=> WLP!Init
  BY DEF AbstractWL!Init, WLP!Init
<1>2. AbstractWL!vars = WLP!vars
  OBVIOUS
<1>3. ASSUME NEW l, NEW timeout, NEW has_timeout, NEW q
      PROVE AbstractWL!wake_lock_internal(l, timeout, has_timeout, q) <=> WLP!wake_lock_internal(l, timeout, has_timeout, q)
  BY DEF AbstractWL!wake_lock_internal, WLP!wake_lock_internal
<1>4. ASSUME NEW l, NEW q PROVE AbstractWL!wake_unlock(l, q) <=> WLP!wake_unlock(l, q)
  BY DEF AbstractWL!wake_unlock, WLP!wake_unlock
<1>5. ASSUME NEW l PROVE AbstractWL!Client(l) <=> WLP!Client(l)
  <2>1. AbstractWL!wake_lock_init(l) <=> WLP!wake_lock_init(l)
    BY DEF AbstractWL!wake_lock_init, WLP!wake_lock_init
  <2>2. AbstractWL!wake_lock_destroy(l) <=> WLP!wake_lock_destroy(l)
    BY DEF AbstractWL!wake_lock_destroy, WLP!wake_lock_destroy
  <2>3. AbstractWL!wake_lock(l) <=> WLP!wake_lock(l)
    BY <1>3, Zenon DEF AbstractWL!wake_lock, WLP!wake_lock
  <2>4. ASSUME NEW t PROVE AbstractWL!wake_lock_timeout(l, t) <=> WLP!wake_lock_timeout(l, t)
    BY <1>3, Zenon DEF AbstractWL!wake_lock_timeout, WLP!wake_lock_timeout
  <2>5. AbstractWL!WakeUnlock(l) <=> WLP!WakeUnlock(l)
    BY <1>4, Zenon DEF AbstractWL!WakeUnlock, WLP!WakeUnlock
  <2> QED BY <2>1, <2>2, <2>3, <2>4, <2>5, Zenon DEF AbstractWL!Client, WLP!Client
<1>6. AbstractWL!Environment <=> WLP!Environment
  <2>1. AbstractWL!wake_lock(main_wake_lock) <=> WLP!wake_lock(main_wake_lock)
    BY <1>3, Zenon DEF AbstractWL!wake_lock, WLP!wake_lock
  <2>2. AbstractWL!WakeUnlock(main_wake_lock) <=> WLP!WakeUnlock(main_wake_lock)
    BY <1>4, Zenon DEF AbstractWL!WakeUnlock, WLP!WakeUnlock
  <2> QED BY <1>5, <2>1, <2>2, Zenon DEF AbstractWL!Environment, WLP!Environment, AbstractWL!MainLock, WLP!MainLock,
      AbstractWL!ClientLocks, WLP!ClientLocks
<1>7. AbstractWL!Timer <=> WLP!Timer
  <2>1. AbstractWL!Tick <=> WLP!Tick
    BY DEF AbstractWL!Tick, WLP!Tick, AbstractWL!Decrement, WLP!Decrement
  <2>2. AbstractWL!TimerExpires <=> WLP!TimerExpires
    BY DEF AbstractWL!TimerExpires, WLP!TimerExpires
  <2>3. AbstractWL!expire_wake_locks <=> WLP!expire_wake_locks
    BY DEF AbstractWL!expire_wake_locks, WLP!expire_wake_locks
  <2> QED BY <2>1, <2>2, <2>3, Zenon DEF AbstractWL!Timer, WLP!Timer
<1>8. AbstractWL!SuspendWork <=> WLP!SuspendWork
  <2>1. AbstractWL!SuspendStart <=> WLP!SuspendStart
    BY DEF AbstractWL!SuspendStart, WLP!SuspendStart
  <2>2. AbstractWL!SuspendEnter <=> WLP!SuspendEnter
    BY DEF AbstractWL!SuspendEnter, WLP!SuspendEnter
  <2>3. AbstractWL!PmFreezePoll <=> WLP!PmFreezePoll
    BY DEF AbstractWL!PmFreezePoll, WLP!PmFreezePoll
  <2>4. AbstractWL!PmFail <=> WLP!PmFail
    BY DEF AbstractWL!PmFail, WLP!PmFail
  <2>5. AbstractWL!power_suspend_late <=> WLP!power_suspend_late
    BY DEF AbstractWL!power_suspend_late, WLP!power_suspend_late
  <2>6. AbstractWL!WakeUp <=> WLP!WakeUp
    BY DEF AbstractWL!WakeUp, WLP!WakeUp
  <2>7. AbstractWL!SuspendExit <=> WLP!SuspendExit
    BY <1>3, Zenon DEF AbstractWL!SuspendExit, WLP!SuspendExit
  <2> QED BY <2>1, <2>2, <2>3, <2>4, <2>5, <2>6, <2>7, Zenon DEF AbstractWL!SuspendWork, WLP!SuspendWork
<1>9. AbstractWL!Next <=> WLP!Next
  BY <1>6, <1>7, <1>8, Zenon DEF AbstractWL!Next, WLP!Next
<1> QED BY <1>1, <1>2, <1>9

\* The safety properties of WakeLock and EarlySuspend, read in the state of the whole.
ComponentsKeepPromises ==
  /\ AbstractWL!TimerCovers /\ AbstractWL!NotStranded /\ AbstractWL!PreventingIsExact
  /\ ES!HooksAlternate /\ ES!LevelOrder

\* The timer covers the last expiry, the system is not stranded awake, the accounting is
\* exact, and the handlers are called in turn and in level order, in the whole system.
THEOREM PromisesKept == Spec => []ComponentsKeepPromises
<1>1. Spec => WLP!Spec
  BY WakeLockImplemented, SameWakeLock, PTL DEF ImplementsWakeLock, AbstractWL!Spec, WLP!Spec
<1>2. Spec => ESP!Spec
  BY EarlySuspendImplemented, SameEarlySuspend, PTL DEF ImplementsEarlySuspend, ES!Spec, ESP!Spec
<1>3. WLP!Spec => []WLP!TimerCovers /\ []WLP!NotStranded /\ []WLP!PreventingIsExact
  <2>1. WLP!Spec => []WLP!TimerCovers
    BY LocksAssumption, TimeAssumption, WLP!TimerAlwaysCovers
  <2>2. WLP!Spec => []WLP!NotStranded
    BY LocksAssumption, TimeAssumption, WLP!NeverStranded
  <2>3. WLP!Spec => []WLP!PreventingIsExact
    BY LocksAssumption, TimeAssumption, WLP!PreventingExact
  <2> QED BY <2>1, <2>2, <2>3, PTL
<1>4. ESP!Spec => []ESP!HooksAlternate /\ []ESP!LevelOrder
  <2>1. ESP!Spec => []ESP!HooksAlternate
    BY HandlerAssumption, ESP!HooksInTurn
  <2>2. ESP!Spec => []ESP!LevelOrder
    BY HandlerAssumption, ESP!CalledInLevelOrder
  <2> QED BY <2>1, <2>2, PTL
<1>5. WLP!TimerCovers /\ WLP!NotStranded /\ WLP!PreventingIsExact /\ ESP!HooksAlternate /\ ESP!LevelOrder
        => ComponentsKeepPromises
  BY DEF ComponentsKeepPromises, AbstractWL!TimerCovers, WLP!TimerCovers, AbstractWL!NotStranded, WLP!NotStranded,
     AbstractWL!PreventingIsExact, WLP!PreventingIsExact, AbstractWL!Quiet, WLP!Quiet, AbstractWL!HeldForever,
     WLP!HeldForever, AbstractWL!SuspendQueued, WLP!SuspendQueued, ES!HooksAlternate, ESP!HooksAlternate,
     ES!LevelOrder, ESP!LevelOrder, ES!Registered, ESP!Registered
<1> QED BY <1>1, <1>2, <1>3, <1>4, <1>5, PTL
=============================================================================
