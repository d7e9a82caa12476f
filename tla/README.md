# Verification of the Android parts of the M8 kernel

The repository is Linux 2.6.29 for the Meizu M8 (`src/kernel/2.6.29`, Samsung
S3C6410) with the Android patches. This directory holds TLA+ models of what is
the tree's own rather than stock Linux: the suspend path that Android adds to
`kernel/power/`, and the Android drivers. The configuration is
`include/linux/autoconf.h`: one CPU, no preemption, HZ = 200, WAKELOCK with
statistics, USER_WAKELOCK, EARLYSUSPEND, FB_EARLYSUSPEND, SUSPEND, FREEZER.

`PROJECT.json` maps every definition to source lines and lists runs, mutants,
findings, hazards and theorems.

## 1. Inventory

| Component | State | Operations | What makes it correct |
|---|---|---|---|
| wake locks (`kernel/power/wakelock.c`) | active lists, flags and expiry of each lock, one expiry timer, `current_event_num`, work item `suspend_work` | init, destroy, lock, timed lock, unlock, timer handler, `suspend()`, late suspend check | no timed lock outlives the timer; the phone is never left awake with no lock held; statistics charge the right lock |
| early suspend (`earlysuspend.c`) | sorted handler list, `state`, `requested_suspend_state`, two work items | register, unregister, `request_suspend_state`, `early_suspend`, `late_resume` | `main_wake_lock` off only when handlers are down and sleep is still wanted; hooks alternate, in level order; a standing request is honoured |
| system suspend (`main.c`, `process.c`) | `pm_mutex`, console, frozen tasks, suspended devices, interrupts | `pm_suspend()` and each of its error exits, the freezer | no sleep while a wake lock is held; whatever was done is undone, in reverse order |
| frame-buffer handshake (`fbearlysuspend.c`) | `fb_state`, wait queue | two hooks, two blocking sysfs files | the drawing process is quiet when the frame buffer goes; no lost wakeup |
| user wake locks (`userwakelock.c`) | tree of named locks | two stores, two shows | one lock per name; timeouts converted without loss |
| logger (`drivers/staging/android/logger.c`) | ring buffer, write head, start head, read heads, mutex, wait queue | open, release, read, write, poll, ioctl | readers see whole entries in order; sleeping readers are woken |
| shared memory (`mm/ashmem.c`) | areas with size and file, the list of unpinned ranges of each, LRU list across areas, `lru_count` | open, release, SET_SIZE, mmap, pin, unpin, pin status, shrinker, PURGE_ALL_CACHES | only unpinned pages are purged, and the next pin says so; lists and count exact; the shrinker never waits for its own caller |
| device PM (`drivers/base/power/main.c`) | `dpm_list`, each device's status, the list of the pass under way | add, remove, `dpm_prepare`, `dpm_suspend`, `device_power_down`, `device_power_up`, `dpm_resume`, `dpm_complete` | no device lost when the mutex is dropped; parents last down and first up; all on again after any failure |
| binder (`drivers/staging/android/binder.c`) | processes, threads with their stacks, errors and work lists, transactions, the one-way queue of each node; references, buffers, death notices | transaction, one-way transaction, reply, free buffer, read, thread exit, process release | every call answered exactly once, whoever dies; one-way calls one at a time; no work left lying |
| alarms (`drivers/rtc/alarm.c`) | alarm queues, wake locks, RTC | start, cancel, timer callback, suspend, resume | an alarm fires once, also across suspend |
| low memory killer, pmem, timed output, board support | thresholds; bitmap; hrtimer; registers | | see *Not modelled* |

Interaction: user space writes `/sys/power/state`. `request_suspend_state()`
queues `early_suspend` or `late_resume` on `suspend_work_queue`, whose single
worker calls the handlers (the frame-buffer handshake is one) and then releases
`main_wake_lock`. The release or expiry of the last wake lock queues `suspend()`
on the same queue. That calls `pm_suspend()`, which polls the wake locks while
it freezes tasks and once more, through a late platform suspend hook, when
interrupts are off. In between it calls the device PM core, which asks every
driver. Ashmem, the logger and binder are independent of all this, and of each
other: user space is their only client (and the memory manager, for ashmem).

The hard part is the overlap: requests merge with pending work items, locks are
taken by interrupt handlers down to the last instruction before sleep, a timer
handler waits for a spinlock while its timer is moved, and every step can fail.
In the drivers it is what others do while a lock is dropped (a device leaves the
list that a pass walks, a writer overtakes another), and who still owes what to
whom when a thread dies (binder).
The `hazards` of `PROJECT.json` list these places.

## 2. Modules

| Module | Models | Notes |
|---|---|---|
| `WakeLock` | wakelock.c | One action per operation under `list_lock`; `suspend()` and the timer handler are split where the lock is free. Expiry is kept as the signed difference the code computes, with wrap-around. |
| `WakeLock_proof` | | proofs |
| `EarlySuspend` | earlysuspend.c | Work items split at `early_suspend_lock` and `state_lock`; handlers are called one by one. |
| `EarlySuspend_proof` | | proofs |
| `PmSuspend` | main.c, process.c | One action per step and per failing step; `undo` is the set of what has to be undone. |
| `AndroidPower`, `AndroidPower_proof` | composition | Each step is a joint step of the components it calls, on one CPU and one worker. `main_locked` of `EarlySuspend` and `wake_held` of `PmSuspend` become functions of the wake-lock state. |
| `FbEarlySuspend`, `SysPower_proof` | fbearlysuspend.c | The drawing process and watchers are environment, as the sysfs files expect them. |
| `UserWakeLock`, `UserLockMap`, `SysPower_proof` | userwakelock.c | The red-black tree is the sequence of its nodes, searched through any pivot, which covers every shape. `UserLockMap` is the abstract specification. |
| `Logger`, `LogPromise`, `Logger_proof` | logger.c | A cell of the ring is a byte of a length, or a unit of payload. `LogPromise` is the abstract specification: per reader, the sequence of entries still to read. `Entries` parses the ring from an offset to the write offset, and is what the refinement mapping reads. |
| `Ashmem`, `AshmemPages`, `Ashmem_proof` | ashmem.c | Ranges are records on two lists. The loops over ranges are functions on sequences; what is read without `ashmem_mutex` is a step of its own. `AshmemPages` is the promise page by page, with no ranges in it. |
| `Binder`, `Binder_proof` | binder.c | `thread`, `proc`, `node`, `txn` are the driver's records. Each command and each way out of `binder_thread_read()` is an action; `binder_lock` is free only in the wait. |
| `DevicePm`, `DeviceSleep`, `DevicePm_proof` | drivers/base/power/main.c | A callback is a call step and a return step, because the mutex is dropped in between. `DeviceSleep` is what include/linux/pm.h promises drivers about the order of callbacks. |
| `MC*` | | constants for TLC |

Definitions keep the names of the C functions where an action is a whole
function. An action called `...Start`, `...Call`, `...Test` is one piece of a
function that sleeps or drops its lock. Operators marked *Mutant* are plausible
bugs; each property has one that breaks it.

## 3. Runs

| Run | Checks | Bounds |
|---|---|---|
| `wakelock` | `TypeOK`, `TimerCovers`, `NotStranded`, `PreventingIsExact`, `EventuallySuspends` | two client suspend locks, one idle lock, timeouts 0..2, `LONG_MAX` = 3 |
| `earlysuspend` | `TypeOK`, `AsleepMeansSuspended`, `HooksAlternate`, `LevelOrder`, `RequestsHonoured` | three handlers, two of one level, one without resume hook; two sleep states |
| `power` | `AsleepOnlyWhenWanted`, `UndoneInOrder`, `ImplementsWakeLock`, `ImplementsEarlySuspend`, `ImplementsPmSuspend`, `SleepHonoured`, `WakeupHonoured` | one user lock, one handler, timeout 1 |
| `fb` | `QuietWhenStopped`, `RequestsReachDrawer` | two watchers |
| `user_locks` | `TimeoutRoundedUp`, `ImplementsLockMap` | four names of the bytes 1 and 127, prefixes of each other; u64 of 8 bits, long of 4, 3 ns per jiffy; timeouts of 1, 3, 4 and 21 ns |
| `logger` | `TypeOK`, `OnlyEntries`, `NoLostWakeup`, `ImplementsPromise` | two writers that may fault, one reader, 8 cells, two-byte lengths |
| `ashmem` | `ListInOrder`, `LruExact`, `PinStatusExact`, `ImplementsPages` | two areas, of up to three pages and of one; two threads, of which one waits for the mutex (`MaxWaiting` = 1); the memory manager frees in batches of two pages |
| `binder` | `StacksAgree`, `AnsweredOnce`, `CallPending`, `NoWaitCycle`, `AsyncOneAtATime`, `NoLostWakeup` | a process with one thread and one with two; two two-way calls, one one-way call waiting behind another, three calls in all |
| `devices` | `NoDeviceLost`, `DepthFirst`, `BackOn`, `ImplementsSleep`, `TransitionEnds` | a bus, its device, that one's child, and a device apart; four registrations |

Why the bounds are enough. Two timed locks are what it takes for one timer to be
moved away from another lock's expiry, and timeouts 0, 1, 2 give equal, earlier
and already-expired ones; `LONG_MAX` = 3 makes wrap-around reachable. Three
handlers give insertion before, between and after. In the composition the
interleavings matter and not the numbers: one lock that anybody may take at any
moment is enough to be missed. A ring of eight cells with entries of three and
four is lapped, with entries across its end, and never aligned for long. It is
also the smallest ring the comment on `DEFINE_LOGGER_DEVICE` allows for such
entries, as `LOGGER_ENTRY_MAX_LEN` is itself a power of two. `MaxTimerLag` bounds
how long an expired timer may wait for its handler. Three pages are what it takes
to pin the middle of a range; the second area shows that ranges of another
process on the LRU list are left alone. One thread that waits for `ashmem_mutex`
is enough, since what it does with the mutex depends only on what it tested before
(the proofs have no such bound). A batch of two pages frees one range and ends in
the middle of another, and `shrink_slab()` goes on to a second batch. The bytes 1
and 127 give names the largest difference `strncmp()` can represent. Two calls give a call-back, a caller that
dies below another caller, and two failures of one thread; two threads of one
process compete for its work. Three generations of devices and one device apart
are the shapes that a list order can get wrong; four registrations let each come
once and one come back.

Symmetry is used in `logger` (writers), `ashmem` and `binder` (threads), where
nothing that is checked contains an eventuality. Deadlock is checked in every run
but `binder`, where nothing can happen once all processes are gone.

### Findings

| Run | Shows |
|---|---|
| `logger_rewind` | `logger_aio_write()` reads the offset it goes back to after a fault before it takes the mutex. With a second writer inside the mutex the log is left with pieces of entries. |
| `ashmem_reclaim` | Allocations under `ashmem_mutex` use GFP_KERNEL; when memory is short they call the shrinkers, and `ashmem_shrink()` takes `ashmem_mutex`. It takes some unpinned page: `shrink_slab()` first asks `ashmem_shrink(0)` and scans at most twice what that answers (mm/vmscan.c:210, 227), in batches (233), so nothing happens with an empty LRU list. In the trace one page is unpinned and the next unpin allocates. `DirectReclaim` turns this on; the run `ashmem` has it off, so that it sees what happens otherwise. |
| `devices_order` | A child that is registered while or after `complete()` of its parent is called, and before `dpm_complete()` ends, comes before its parent on `dpm_list` afterwards. `LateChildren` turns this on; in the run `devices` children come only when `dpm_complete()` is past. |

Five smaller ones are known and have no run. `has_wake_lock_locked()`: an
expired timed lock that stays on the list behind a lock without timeout counts as
unexpired again after `LONG_MAX` + 1 jiffies (124 days). `userwakelock.c:74`
stores the 64-bit number of jiffies in a `long`, so that a timeout from 124 days
on is negative, or 0, which means for ever; `TimeoutRoundedUp` is stated below
that. `fbearlysuspend.c:89`: a stop request that follows a resume before the
drawing process has run is never acknowledged, and the worker waits out its
second. `strncmp()` (lib/string.c:269) keeps the difference of two characters in a
`signed char`: with bytes above 127 it orders names in a circle (0x61 < 0x7E < 0xE3 <
0x61), and once `rb_insert_color()` has turned the tree a search can miss a name that
is there. Eight names of one byte, written in the order 0x02, 0x63, 0xC9, 0xDC, 0xD3,
0xF5, 0xE3, 0xF1, are enough for 0x63 not to be found, so that writing it again makes
a second lock of that name. `UserWakeLock` models the conversion, and what is stated
about the tree is for ASCII names (`SevenBit`). `binder_transaction()`
(binder.c:1489-1496) goes to its error exit without setting `return_error` when a
node's cookie does not match; the model answers with a failure there, as in the
cases next to it.

### Fairness

*Weak* fairness of the clock, of expired timers and of the worker
of `suspend_work_queue`: the kernel runs softirqs and runnable threads. While the
machine is asleep nothing is fair, no wakeup source is obliged to fire. *Strong*
fairness of taking `early_suspend_lock`: waiters of a kernel mutex queue, so
drivers that register again and again cannot starve the worker. `fb` has weak
fairness of the hooks and of each process; a signal and a request are never
owed. `devices` has weak fairness of the steps of the PM core (callbacks return)
and strong fairness of a `prepare()` that answers other than -EAGAIN; nobody is
obliged to start a transition or to wake the machine. `SleepHonoured` and `EventuallySuspends` assume that callers eventually
leave the locks alone, as without that no bound on sleep exists.

## 4. Proofs

Checked by TLAPS, for every value of the constants that satisfies the named
assumptions of the module:

* **WakeLock_proof** (`LocksAssumption`, `TimeAssumption`): `TypeCorrect`,
  `TimerAlwaysCovers`, `NeverStranded`, `PreventingExact`. The inductive invariant
  is the conjunction of the four checked invariants and `TimerBounds`:
  `TimerCovers` alone is not inductive, because a covered lock could wrap before
  its timer goes off. `TimerBounds` says that the timer lags by at most
  `MaxTimerLag` and that no lock is `LONG_MAX` below it. It is preserved only
  while no lock is held for ever, and that is where the wrap-around
  described under *Findings* lives.
* **EarlySuspend_proof** (`HandlerAssumption`): `TypeCorrect`, `MainLockIsLast`
  (that is `AsleepMeansSuspended`), `HooksInTurn`, `CalledInLevelOrder`. The
  invariant `IInv` adds who holds `early_suspend_lock`, that no handler is linked
  twice, which handlers the walk has behind it, and that SUSPENDED means all are
  down whenever the worker is not in between. `OrderInv` adds that the list is
  sorted by level and that what the walk has ahead of it is still up (or down).
* **AndroidPower_proof** (the assumptions of both components): the whole
  implements the specifications of its three parts (`WakeLockImplemented`,
  `EarlySuspendImplemented`, `PmSuspendImplemented`), so that by `PromisesKept`
  the theorems about `WakeLock` and `EarlySuspend`, instantiated with the state of
  the whole, hold in it. `UndoneWhateverFails` and `SleepsOnlyWhenWanted` are
  proved of the whole itself. The invariant `CInv` says what `pm_suspend()` holds
  at each label (`PmInv`), that `pm_suspend()` runs inside `suspend()` and that
  inside the worker, that `main_wake_lock` never has a timeout, that no work item
  is pending twice, and that no suspend lock is held from `power_suspend_late()`
  to `device_power_up()`, which is so because interrupts are off. It contains the
  invariant of `EarlySuspend`, which is preserved because every step of the whole
  is one of its steps.
* **SysPower_proof**, the two services with files in `/sys/power`. User wake locks
  (`NameAssumption`, `IdleAssumption`, `WidthAssumption`): `TypeCorrect`;
  `NeverTooShort`, the arithmetic of the timeout for every HZ and width;
  `TreeIsAMap`, the refinement of `UserLockMap` if names are ASCII (`SevenBit`,
  without which it is false, see *Findings*). The invariant says that then the
  nodes are in the order of `strncmp()` over the whole name, which is an order only
  because no difference of two characters wraps in its `signed char`, and that a
  search under way has what it looks for between its ends, through any shape of the
  tree.
  The frame-buffer handshake (no assumption): `StopIsHonoured`. The invariant
  adds that only the drawing process acknowledges, and that it cannot draw before
  `fb_state` changes again.
* **Logger_proof** (`SizeAssumption`), all if `OvertakenFaults` is FALSE: a writer
  that faults has not been overtaken before it took the mutex (the finding
  `logger_rewind`). `WakeupsArrive` extends `NoLostWakeup` to readers that have
  tested and not yet called `schedule()`; what the ring holds plays no part in it.
  `TypeCorrect`, `ReadersSeeEntries` and the refinement `RingIsALog` are about what
  the ring holds. Their invariant `RingInv` adds to `OnlyEntries` where the writer
  under the mutex is (`WritersOK`, `EntryBegun`) and that every head is out of the
  way of what it still has to write (`OutOfTheWay`). The lemmas are the arithmetic
  of offsets (`ModShift`, `OffsetAdd`, ...), what `get_next_entry()` skips
  (`NextEntrySkips`), and that writing into the free part of the ring leaves the
  entries of every head alone and appends one (`SameEntries`, `EntryAppended`).
* **DevicePm_proof** (`DeviceAssumption`): `NeverLost` (the lists hold what was
  added and not removed, which the variable `known` records apart from them, each
  device once) and `AllBackOn` for any devices, parents and interleaving of
  registrations; `ParentsStayFirst` and the
  refinement `CallbacksInOrder` (Spec implements `DeviceSleep`) if `LateChildren`
  is FALSE, without which both are false (the finding `devices_order`).
  `DepthFirst` is not inductive: what keeps it across a callback is that the
  device whose callback runs has no parent (or no child) left on `dpm_list`, and
  that the parent of every registered device is registered, so a new device is
  nobody's parent (`Ordered`). That nothing is added below a prepared device needs
  the statuses of the devices on either list (`Statuses`). The refinement adds
  `Asked`: what each pass has done so far, and that nothing is suspended below a
  device that is on, which is what makes `dpm_resume()` after a half-done
  transition safe. Lemmas translate `list_move()`, `list_splice()` and
  `list_del_init()` into sets once, so that the rest of the proof has no
  positions in it.

* **Ashmem_proof** (`AshmemAssumption`): `ListsInOrder`, `LruListExact`,
  `PinStatusIsExact` and the refinement `KeepsPromise` of `AshmemPages`, for any
  areas, sizes, threads (any number of them waiting) and requests, requests for no
  page included. An empty range
  may be on a list several times, so that "the same ranges on both lists" is about
  multiplicities. The invariant `Consistent` states it through sums: the list of an
  area and the part of the LRU list that belongs to the area weigh the same for
  every assignment of weights to ranges that gives purged ones none (`Balanced`).
  How often a range occurs and how many pages it has are two such weights, so
  `LruExact` follows, and each operation has to be understood once, by what it does
  to any sum. `Consistent` also says that lists are in order and hold ranges of
  their area only, that an area without a file has none, and that what is lost lies
  in purged ranges (which the refinement needs: a pin that meets no purged range
  must not have missed a loss). `ThreadsOK` carries what was tested before
  `ashmem_mutex` was taken: an area is not released during a call, so its file is
  still there. The lemmas are one group per loop: what `ashmem_pin()` leaves of
  each range (`PinnedListIs`, `PinnedLruIs`), what holds in each round of the merge
  in `ashmem_unpin()` (`MergeOK`, `MergedIs`, `UnpinIs`), and the loop of
  `ashmem_shrink()` (`PurgedTo`, `PurgedIs`).

* **Binder_proof** (`BinderAssumption`, `NullAssumption`), all six properties of the
  run, for any processes, threads and number of calls. `WakeupsReachAThread` (that
  is `NoLostWakeup`) and `OneWayCallsInTurn` (`AsyncOneAtATime`) come from the
  invariant `IInv`, which needs nothing of the transaction stacks.
  `Records` types the threads, the processes and the nodes, and leaves the stacks
  and the transactions open. What `binder_send_failed_reply()`,
  `binder_release_work()` and `binder_free_thread()` do to threads other than the
  one that goes away is `Gentle`: they may set an error and wake the thread, and
  leave its list alone. This is shown once, by induction over the list of work and
  the order of the threads, and is all that thread exit and process release need
  for either property. `AsyncInv` strengthens `AsyncOneAtATime`: a one-way call is
  in at most one place (the list of the process, the list of one thread, the hands
  of a thread), and at no place twice. The sum that `AsyncOneAtATime` states, with
  its cardinality of a set of threads, follows from this; that is why the set of
  threads is assumed to be finite.

  `CallsAnsweredOnce` (`AnsweredOnce`), `StacksMatch` (`StacksAgree`),
  `CallsNotForgotten` (`CallPending`) and `NoProcessWaitsForItself` (`NoWaitCycle`)
  come from a second invariant, `CallsIInv`, which holds of every reachable state by
  `CallsInvariance`. The calls under way form chains along `from_parent`. There are
  functions `ch` and `dp`, which are not part of the program, that give each call
  its chain and its place in it without gaps (`Chains`). A call is *unread* while it
  is on a list; only the last call of a chain can be (`Tips`). The calls that a
  thread made and those that it serves all belong to one chain, and its stack, which
  alternates between `from_parent` and `to_parent`, leads through exactly these in
  the order of `dp` (`StackOK`): that is why two stacks agree, why following the
  pointers ends, and why the last call of a chain is on top of both its stacks. A
  call that nobody serves and that is not unread has another below it (`Continued`):
  its server died in a call of its own. `Lists` says that a call on a thread's list
  is for a thread that waits in the same chain, that a call on the list of a process
  is in a chain without a caller from that process, and that no call is on two
  lists. `OwedOK` is `AnsweredOnce`, and `ErrOK` says that a thread with two errors
  does not wait for an answer, so that `binder_send_failed_reply()` never finds both
  taken. While `binder_free_thread()`, `binder_release_work()` or a failing reply is
  half done, the invariant holds with the call at hand counted as unread and the
  thread that goes away left out (the parameters `U` and `Z` of `Core`); one lemma,
  `SendFailedKeeps`, then serves thread exit, process release and undelivered
  replies, for any number of dead callers.

`Logger_proof`, `Ashmem_proof` and `Binder_proof` need induction over data, which no theorem of the
library with an operator parameter can give here. It is done with a set in place of
the operator: a non-empty set of numbers has a least one (`LeastNat`), which gives
`Induction` for any set, and from it the equation of a recursive function
(`EntriesUnfold`, `NextEntryUnfold`, `RecursionExists`, `FollowSteps`).

Only model-checked: liveness, as TLAPS proves nothing under fairness
(`EventuallySuspends`, `RequestsHonoured`, `SleepHonoured`, `WakeupHonoured`,
`RequestsReachDrawer`, `TransitionEnds`).

## 5. Abstractions

* The active list of wake locks is a set: locks without timeout are at its head,
  so the scan meets one of them first.
* `wake_lock_destroy()` is called for a lock that is not held, or held with a
  timeout. The code does not ask for this; evdev does the latter. gpio_matrix.c:404
  and gpio_input.c:350, which this configuration does not build, may destroy a lock
  held without timeout. Nothing is queued then, and `NotStranded` would not hold.
* `MaxTimerLag` is at most 2. A lock may expire `LONG_MAX` - 1 jiffies before the
  timer; two jiffies of lag bring it to the end of a `long`, a third would make it
  wrap before the handler runs.
* With `main_wake_lock` off, `PreventingIsExact` says that locks held without timeout
  are flagged, and `TypeOK` that nothing but held suspend locks is: a timed lock that
  has expired keeps its flag until somebody finds it expired.
* Of the wake-lock statistics only the flag and `wait_for_wakeup` are state.
* `PmSuspend` suspends all devices in one step that may fail; the pm_test levels
  are left out.
* A logger header is the two bytes of its length; `poll()` and reporting ioctls
  change nothing and are left out.
* Ashmem offsets and lengths are whole pages; names and protection masks are left
  out, and small allocations do not fail. In the code a failing `range_alloc()`
  in a split (line 442) would lose the upper piece. A range merged with a purged
  one is purged, as in the code, so that its other pages stay until they are
  pinned. An empty range (`PinStatusExact` excludes it) comes from unpinning at
  the end of the area with length 0. `Sizes` has no 0: `ashmem_mmap()` refuses it,
  but a SET_SIZE that races with the first mmap can still store it, and a request
  of length 0 then makes `pgend` wrap. The run `ashmem` has at most one empty range
  on a list (`MaxRanges` = 1); with two, an unpin inside one range may have deleted
  an empty one before, which the proof covers for any number.
* In `Binder` each process has one node, and processes do not call themselves.
  Buffers, references, objects, death notices, looper states and `BR_SPAWN_LOOPER`
  are left out; a transaction may fail for any of them. Read buffers are large
  enough for what one read returns. A thread that leaves with an unread one-way
  call loses it, and with it the turn of those that wait for the node: that is
  what the code does, and `dropped` records it.
* In `DevicePm` drivers keep to the warnings of `device_pm_add()`, which the code
  does not enforce: no child below a device that is prepared, no device without a
  parent during a transition. Children are removed before their parent, which
  `device_pm_remove()` does not test. `Parent` is a constant: `device_move()` is left
  out. A `prepare()` that answers -EAGAIN for the last device of the list while that
  device goes away makes `dpm_prepare()` fail, as in the code. What callbacks do and
  the watchdog are left out.
* `wait_event()` tests and goes to sleep in one step, as it joins the wait queue
  before it tests.
* The other users of wake locks, handlers and logs are environment: any call, any
  time the code allows it, `wake_lock_destroy()` excepted (above).

## 6. Not modelled

Low memory killer: a stateless scan. Board support: register access. Alarm
timers, pmem and timed output: not yet (see the plan). Generic Linux, nearly ten
million lines of drivers, file systems and architectures: not this tree's own,
except for the parts of `workqueue.c`, `timer.c`, `sched.c`, `vmscan.c` and
`drivers/base/power` the models name.

## 7. Plan

1. *Done*: the suspend path and its composition, the frame-buffer handshake, user
   wake locks, the logger; device PM, ashmem and binder's transactions; the proofs
   above.
2. `DevicePm` in place of the one step that `PmSuspend` has for it.
3. Binder: node and reference counts with death notices; the buffer allocator as
   a pure algorithm.
4. `Alarm` (alarm.c) with suspend and RTC wakeups; the buddy allocator of pmem as
   a pure algorithm; timed output.
