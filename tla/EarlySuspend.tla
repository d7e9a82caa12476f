---------------------------- MODULE EarlySuspend ----------------------------
(***************************************************************************)
(* kernel/power/earlysuspend.c: user space asks for sleep or wakeup        *)
(* (request_suspend_state), work items early_suspend and late_resume call  *)
(* the registered handlers on suspend_work_queue, and main_wake_lock is    *)
(* released once the handlers have been called.                            *)
(*                                                                         *)
(* early_suspend_lock is a mutex held while handlers run, state_lock a     *)
(* spinlock: what is done under it is one action.  The worker of           *)
(* suspend_work_queue is one thread (es_pc); it also runs wakelock.c's     *)
(* suspend(), here a step that takes a while.                              *)
(***************************************************************************)
EXTENDS Integers, Sequences

CONSTANTS
  Handlers,         \* struct early_suspend objects
  Level,            \* Level[h]: their level
  SuspendHook,      \* handlers whose suspend hook is not NULL
  ResumeHook,       \* handlers whose resume hook is not NULL
  SleepStates,      \* states other than PM_SUSPEND_ON that user space may write
  NoHandler

ASSUME HandlerAssumption ==
  /\ Level \in [Handlers -> Int]
  /\ SuspendHook \subseteq Handlers
  /\ ResumeHook \subseteq Handlers
  /\ NoHandler \notin Handlers
  /\ "mem" \in SleepStates
  /\ "on" \notin SleepStates

VARIABLES
  requested,        \* state & SUSPEND_REQUESTED
  suspended,        \* state & SUSPENDED
  requested_suspend_state,
  handlers,         \* early_suspend_handlers, in list order
  down,             \* handlers suspended and not resumed since
  early_suspend_lock, \* who holds it: "none", "work" or "register"
  registering,      \* the handler register_early_suspend() is at, or NoHandler
  main_locked,      \* main_wake_lock is held
  es_pc,            \* where the worker is: see PcValues
  cursor,           \* list_for_each_entry position: next handler to call
  work_queue        \* suspend_work_queue: pending items, oldest first

state_vars == <<requested, suspended, requested_suspend_state>>
list_vars == <<handlers, down, early_suspend_lock, registering>>
worker_vars == <<es_pc, cursor>>
es_vars == <<state_vars, list_vars, worker_vars>>
vars == <<es_vars, main_locked, work_queue>>

PcValues == {"idle", "early_lock", "early_call", "early_sync", "early_unlock",
             "resume_lock", "resume_call", "suspend"}

WorkItems == {"suspend", "early_suspend", "late_resume"}

Registered == {handlers[i] : i \in 1 .. Len(handlers)}

TypeOK ==
  /\ requested \in BOOLEAN
  /\ suspended \in BOOLEAN
  /\ requested_suspend_state \in SleepStates \cup {"on"}
  /\ handlers \in Seq(Handlers)
  /\ down \subseteq Handlers
  /\ early_suspend_lock \in {"none", "work", "register"}
  /\ registering \in Handlers \cup {NoHandler}
  /\ main_locked \in BOOLEAN
  /\ es_pc \in PcValues
  /\ cursor \in Nat
  /\ work_queue \in Seq(WorkItems)

\* wakelocks_init() takes main_wake_lock; the static initialisers do the rest.
Init ==
  /\ requested = FALSE
  /\ suspended = FALSE
  /\ requested_suspend_state = "mem"
  /\ handlers = <<>>
  /\ down = {}
  /\ early_suspend_lock = "none"
  /\ registering = NoHandler
  /\ main_locked = TRUE
  /\ es_pc = "idle"
  /\ cursor = 0
  /\ work_queue = <<>>

\* Mutant of queue_work: an item is dropped while any other is pending.
QueueOnlyWhenIdle(q, w) == IF q # <<>> THEN q ELSE Append(q, w)

\* queue_work(): nothing happens when the item is already pending.
queue_work(q, w) == IF \E i \in 1 .. Len(q) : q[i] = w THEN q ELSE Append(q, w)

-----------------------------------------------------------------------------
\* User space writes /sys/power/state: one step under state_lock.
request_suspend_state(new_state) ==
  /\ IF ~requested /\ new_state # "on"
     THEN /\ requested' = TRUE
          /\ work_queue' = queue_work(work_queue, "early_suspend")
          /\ UNCHANGED main_locked
     ELSE IF requested /\ new_state = "on"
     THEN /\ requested' = FALSE
          /\ main_locked' = TRUE
          /\ work_queue' = queue_work(work_queue, "late_resume")
     ELSE UNCHANGED <<requested, main_locked, work_queue>>
  /\ requested_suspend_state' = new_state
  /\ UNCHANGED <<suspended, list_vars, worker_vars>>

\* Mutant of InsertPoint: a new handler goes to the head of the list.
InsertAtHead(h, i) == i = 0

\* Where register_early_suspend() links h: before the first higher level.
InsertPoint(h, i) ==
  /\ \A j \in 1 .. i : Level[handlers[j]] <= Level[h]
  /\ i < Len(handlers) => Level[handlers[i + 1]] > Level[h]

register_early_suspend(h) ==
  /\ early_suspend_lock = "none"
  /\ h \notin Registered
  /\ early_suspend_lock' = "register"
  /\ registering' = h
  /\ \E i \in 0 .. Len(handlers) :
       /\ InsertPoint(h, i)
       /\ handlers' = SubSeq(handlers, 1, i) \o <<h>> \o SubSeq(handlers, i + 1, Len(handlers))
  /\ UNCHANGED <<state_vars, down, worker_vars, main_locked, work_queue>>

\* ... and calls its suspend hook at once when the others are suspended.
RegisterFinish ==
  /\ early_suspend_lock = "register"
  /\ down' = IF suspended /\ registering \in SuspendHook THEN down \cup {registering} ELSE down
  /\ early_suspend_lock' = "none"
  /\ registering' = NoHandler
  /\ UNCHANGED <<state_vars, handlers, worker_vars, main_locked, work_queue>>

\* list_del(); the device keeps no hook, so it is no longer counted as down.
unregister_early_suspend(h) ==
  /\ early_suspend_lock = "none"
  /\ \E i \in 1 .. Len(handlers) :
       /\ handlers[i] = h
       /\ handlers' = SubSeq(handlers, 1, i - 1) \o SubSeq(handlers, i + 1, Len(handlers))
  /\ down' = down \ {h}
  /\ UNCHANGED <<state_vars, early_suspend_lock, registering, worker_vars, main_locked, work_queue>>

-----------------------------------------------------------------------------
\* run_workqueue(): the item's pending bit is cleared before it runs.
Dequeue(item, label) ==
  /\ es_pc = "idle"
  /\ work_queue # <<>>
  /\ Head(work_queue) = item
  /\ work_queue' = Tail(work_queue)
  /\ es_pc' = label
  /\ UNCHANGED <<state_vars, list_vars, cursor, main_locked>>

StartEarlySuspend == Dequeue("early_suspend", "early_lock")
StartLateResume == Dequeue("late_resume", "resume_lock")
StartSuspend == Dequeue("suspend", "suspend")

\* Mutant of EarlyLock: only SUSPEND_REQUESTED is looked at, not SUSPENDED.
EarlyLockIgnoresSuspended ==
  /\ es_pc = "early_lock"
  /\ early_suspend_lock = "none"
  /\ \/ /\ requested
        /\ suspended' = TRUE
        /\ early_suspend_lock' = "work"
        /\ cursor' = 1
        /\ es_pc' = "early_call"
     \/ /\ ~requested
        /\ es_pc' = "early_unlock"
        /\ UNCHANGED <<suspended, early_suspend_lock, cursor>>
  /\ UNCHANGED <<requested, requested_suspend_state, handlers, down, registering>>
  /\ UNCHANGED <<main_locked, work_queue>>

\* early_suspend() up to the end of its first state_lock section.
EarlyLock ==
  /\ es_pc = "early_lock"
  /\ early_suspend_lock = "none"
  /\ \/ /\ requested /\ ~suspended
        /\ suspended' = TRUE
        /\ early_suspend_lock' = "work"
        /\ cursor' = 1
        /\ es_pc' = "early_call"
     \/ /\ ~(requested /\ ~suspended)
        /\ es_pc' = "early_unlock"
        /\ UNCHANGED <<suspended, early_suspend_lock, cursor>>
  /\ UNCHANGED <<requested, requested_suspend_state, handlers, down, registering>>
  /\ UNCHANGED <<main_locked, work_queue>>

EarlyCall ==
  /\ es_pc = "early_call"
  /\ \/ /\ cursor <= Len(handlers)
        /\ down' = down \cup ({handlers[cursor]} \cap SuspendHook)
        /\ cursor' = cursor + 1
        /\ UNCHANGED <<early_suspend_lock, es_pc>>
     \/ /\ cursor > Len(handlers)
        /\ early_suspend_lock' = "none"
        /\ es_pc' = "early_sync"
        /\ cursor' = 0
        /\ UNCHANGED down
  /\ UNCHANGED <<state_vars, handlers, registering, main_locked, work_queue>>

\* sys_sync() between the handlers and the second look at state.
EarlySync ==
  /\ es_pc = "early_sync"
  /\ es_pc' = "early_unlock"
  /\ UNCHANGED <<state_vars, list_vars, cursor, main_locked, work_queue>>

\* Mutant of EarlyUnlock: state is not looked at again after the handlers.
EarlyUnlockUnchecked ==
  /\ es_pc = "early_unlock"
  /\ es_pc' = "idle"
  /\ main_locked' = FALSE
  /\ work_queue' \in {work_queue, queue_work(work_queue, "suspend")}
  /\ UNCHANGED <<state_vars, list_vars, cursor>>

\* The label abort: wake_unlock(main_wake_lock), which queues suspend() when
\* no other wake lock is held, if sleep is still requested.
EarlyUnlock ==
  /\ es_pc = "early_unlock"
  /\ es_pc' = "idle"
  /\ \/ /\ requested /\ suspended
        /\ main_locked' = FALSE
        /\ work_queue' \in {work_queue, queue_work(work_queue, "suspend")}
     \/ /\ ~(requested /\ suspended)
        /\ UNCHANGED <<main_locked, work_queue>>
  /\ UNCHANGED <<state_vars, list_vars, cursor>>

\* late_resume() up to the end of its state_lock section.
ResumeLock ==
  /\ es_pc = "resume_lock"
  /\ early_suspend_lock = "none"
  /\ \/ /\ ~requested /\ suspended
        /\ suspended' = FALSE
        /\ early_suspend_lock' = "work"
        /\ cursor' = Len(handlers)
        /\ es_pc' = "resume_call"
     \/ /\ ~(~requested /\ suspended)
        /\ es_pc' = "idle"
        /\ UNCHANGED <<suspended, early_suspend_lock, cursor>>
  /\ UNCHANGED <<requested, requested_suspend_state, handlers, down, registering>>
  /\ UNCHANGED <<main_locked, work_queue>>

\* Mutant of ResumeCall: the loop calls a handler before it tests for the end.
ResumeCallThenTest ==
  /\ es_pc = "resume_call"
  /\ down' = down \ ({h \in Registered : cursor > 0 /\ h = handlers[cursor]} \cap ResumeHook)
  /\ cursor' = cursor - 1
  /\ early_suspend_lock' = IF cursor <= 1 THEN "none" ELSE "work"
  /\ es_pc' = IF cursor <= 1 THEN "idle" ELSE "resume_call"
  /\ UNCHANGED <<state_vars, handlers, registering, main_locked, work_queue>>

\* Mutant of ResumeCall: the loop stops one handler early.
ResumeCallStopsEarly ==
  /\ es_pc = "resume_call"
  /\ \/ /\ cursor > 1
        /\ down' = down \ ({handlers[cursor]} \cap ResumeHook)
        /\ cursor' = cursor - 1
        /\ UNCHANGED <<early_suspend_lock, es_pc>>
     \/ /\ cursor <= 1
        /\ early_suspend_lock' = "none"
        /\ es_pc' = "idle"
        /\ cursor' = 0
        /\ UNCHANGED down
  /\ UNCHANGED <<state_vars, handlers, registering, main_locked, work_queue>>

ResumeCall ==
  /\ es_pc = "resume_call"
  /\ \/ /\ cursor > 0
        /\ down' = down \ ({handlers[cursor]} \cap ResumeHook)
        /\ cursor' = cursor - 1
        /\ UNCHANGED <<early_suspend_lock, es_pc>>
     \/ /\ cursor = 0
        /\ early_suspend_lock' = "none"
        /\ es_pc' = "idle"
        /\ UNCHANGED <<down, cursor>>
  /\ UNCHANGED <<state_vars, handlers, registering, main_locked, work_queue>>

\* suspend() returns to the worker.
FinishSuspend ==
  /\ es_pc = "suspend"
  /\ es_pc' = "idle"
  /\ UNCHANGED <<state_vars, list_vars, cursor, main_locked, work_queue>>

\* wakelock.c queues suspend() when a wake lock expires or is released.
QueueSuspend ==
  /\ work_queue' = queue_work(work_queue, "suspend")
  /\ UNCHANGED <<es_vars, main_locked>>

-----------------------------------------------------------------------------
Worker ==
  \/ StartEarlySuspend \/ StartLateResume \/ StartSuspend
  \/ EarlyLock \/ EarlyCall \/ EarlySync \/ EarlyUnlock
  \/ ResumeLock \/ ResumeCall \/ FinishSuspend

Next ==
  \/ \E s \in SleepStates \cup {"on"} : request_suspend_state(s)
  \/ \E h \in Handlers : register_early_suspend(h) \/ unregister_early_suspend(h)
  \/ RegisterFinish
  \/ Worker
  \/ QueueSuspend

Spec == Init /\ [][Next]_vars

(***************************************************************************)
(* The worker runs, and gets early_suspend_lock in the end however often   *)
(* drivers come and go (waiters of a mutex queue); registration completes. *)
(***************************************************************************)
Fairness ==
  /\ WF_vars(Worker)
  /\ SF_vars(EarlyLock)
  /\ SF_vars(ResumeLock)
  /\ WF_vars(RegisterFinish)

FairSpec == Spec /\ Fairness

-----------------------------------------------------------------------------
(***************************************************************************)
(* main_wake_lock is off only while sleep is requested and the handlers    *)
(* have been called: however requests and work items overlap, suspend()    *)
(* can then go ahead with a state that is not PM_SUSPEND_ON, and no handler*)
(* is still up but the one being registered this moment.                   *)
(***************************************************************************)
AsleepMeansSuspended ==
  ~main_locked =>
    /\ requested /\ suspended
    /\ requested_suspend_state # "on"
    /\ (Registered \cap SuspendHook) \ {registering} \subseteq down

(***************************************************************************)
(* A handler is suspended only while it is up and resumed only while it is *)
(* down, although requests cancel one another while the work items wait in *)
(* the queue, and drivers register in between.                             *)
(***************************************************************************)
HooksAlternate ==
  /\ es_pc = "early_call" =>
       \A i \in cursor .. Len(handlers) :
         handlers[i] \in SuspendHook \cap ResumeHook => handlers[i] \notin down
  /\ es_pc = "resume_call" =>
       \A i \in 1 .. cursor :
         handlers[i] \in SuspendHook \cap ResumeHook => handlers[i] \in down
  /\ registering \notin down

(***************************************************************************)
(* include/linux/earlysuspend.h: "Suspend handlers are called in low to    *)
(* high level order, resume handlers are called in the opposite order."    *)
(* When a handler is next, those of lower level are down and those of      *)
(* higher level are up.                                                    *)
(***************************************************************************)
LevelOrder ==
  (es_pc = "early_call" /\ cursor <= Len(handlers)) \/ (es_pc = "resume_call" /\ cursor > 0) =>
    \A g \in Registered \cap SuspendHook \cap ResumeHook :
      /\ Level[g] < Level[handlers[cursor]] => g \in down
      /\ Level[g] > Level[handlers[cursor]] => g \notin down

(***************************************************************************)
(* Liveness: a request that stands is honoured, although its work item may *)
(* have been merged with a pending one and the worker may have other items *)
(* before it.  Sleep leads to the release of main_wake_lock, wakeup to     *)
(* every handler resumed.                                                  *)
(***************************************************************************)
RequestsHonoured ==
  /\ <>[]requested => <>[]~main_locked
  /\ <>[]~requested => <>[](Registered \cap SuspendHook \cap ResumeHook \cap down = {})
=============================================================================
