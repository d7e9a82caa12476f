----------------------------- MODULE PmSuspend ------------------------------
(***************************************************************************)
(* pm_suspend() of kernel/power/main.c with the freezer of process.c: the  *)
(* way into the low-power state and, from whatever step fails, back out.   *)
(*                                                                         *)
(* undo is the set of things that are switched off or held and have to be  *)
(* undone; pm_pc names the next step.  Other code sets and clears the wake *)
(* locks (wake_held: what has_wake_lock(WAKE_LOCK_SUSPEND) would answer)   *)
(* as long as interrupts are on: the machine has one CPU.                  *)
(***************************************************************************)
EXTENDS Naturals

VARIABLES pm_pc, undo, wake_held

vars == <<pm_pc, undo, wake_held>>

PmLabels == {"out", "notify", "umh", "freeze_user", "freeze_tasks", "memory", "begin",
             "devices", "platform_prepare", "suspend_enter", "power_down", "sysdev", "enter",
             "asleep", "sysdev_resume", "power_up", "irqs_on", "platform_finish", "recover",
             "resume_devices", "close", "thaw", "post_suspend", "unlock"}

Resources == {"pm_mutex", "vt_console", "notified", "umh", "user_frozen", "tasks_frozen",
              "begun", "console", "devices", "prepared", "dpm_list_mtx", "governor",
              "irqs", "late", "sysdev"}

TypeOK ==
  /\ pm_pc \in PmLabels
  /\ undo \subseteq Resources
  /\ wake_held \in BOOLEAN

Init ==
  /\ pm_pc = "out"
  /\ undo = {}
  /\ wake_held = TRUE   \* main_wake_lock

\* One step of the control flow: acquire, release, go to label.
Step(from, acquire, release, to) ==
  /\ pm_pc = from
  /\ pm_pc' \in to
  /\ undo' = (undo \cup acquire) \ release
  /\ UNCHANGED wake_held

\* pm_suspend(), enter_state(): a bad state or a busy pm_mutex returns at once.
pm_suspend == Step("out", {"pm_mutex"}, {}, {"notify"})

\* suspend_prepare(): console, PM_SUSPEND_PREPARE notifiers (may veto) ...
PrepareNotify == Step("notify", {"vt_console", "notified"}, {}, {"umh", "post_suspend"})

\* ... user-mode helpers (EAGAIN while one runs on) ...
UmhDisable == Step("umh", {"umh"}, {}, {"freeze_user"})
UmhFails == Step("umh", {}, {}, {"post_suspend"})

(***************************************************************************)
(* try_to_freeze_tasks(sig_only): user tasks, then the freezable kernel    *)
(* threads.  While tasks are left to freeze it polls the wake locks, and it*)
(* fails when one is held or when TIMEOUT is over.                         *)
(***************************************************************************)
FreezeUser == Step("freeze_user", {"user_frozen"}, {}, {"freeze_tasks"})
FreezeTasks == Step("freeze_tasks", {"tasks_frozen"}, {}, {"memory"})
FreezeFails ==
  \/ Step("freeze_user", {"user_frozen"}, {}, {"thaw"})
  \/ Step("freeze_tasks", {"tasks_frozen"}, {}, {"thaw"})
FreezeGivesWay == wake_held /\ FreezeFails
FreezeTimeout == ~wake_held /\ FreezeFails

\* ... and free memory.
FreeMemory == Step("memory", {}, {}, {"begin", "thaw"})

\* suspend_devices_and_enter(): end() is called whether or not begin() fails.
PlatformBegin == Step("begin", {"begun", "console"}, {}, {"devices"})
PlatformBeginFails == Step("begin", {"begun"}, {}, {"close"})

\* Mutant of DeviceSuspend: on failure it goes to Close, the devices stay suspended.
DeviceSuspendFailsToClose == Step("devices", {"devices"}, {}, {"platform_prepare", "close"})
DeviceSuspend == Step("devices", {"devices"}, {}, {"platform_prepare", "recover"})
PlatformRecover == Step("recover", {}, {}, {"resume_devices"})
PlatformPrepare == Step("platform_prepare", {"prepared"}, {}, {"suspend_enter"})
PlatformPrepareFails == Step("platform_prepare", {}, {}, {"resume_devices"})

\* suspend_enter(); the governor is switched unless it is "userspace".
SuspendEnter ==
  \E g \in SUBSET {"governor"} : Step("suspend_enter", {"dpm_list_mtx", "irqs"} \cup g, {}, {"power_down"})

\* device_power_down() runs power_suspend_late() among the devices' handlers;
\* a device that refuses makes it power the others up again.
\* Mutant of DevicePowerDown: power_suspend_late() does not look at the wake locks.
DevicePowerDownUnchecked == Step("power_down", {"late"}, {}, {"sysdev"})
DevicePowerDown == ~wake_held /\ Step("power_down", {"late"}, {}, {"sysdev"})
DevicePowerDownFails == Step("power_down", {}, {}, {"irqs_on"})

SysdevSuspend == Step("sysdev", {"sysdev"}, {}, {"enter"})
SysdevSuspendFails == Step("sysdev", {}, {}, {"power_up"})
PlatformEnter == Step("enter", {}, {}, {"asleep", "sysdev_resume"})
WakeUp == Step("asleep", {}, {}, {"sysdev_resume"})

\* The way back.
SysdevResume == Step("sysdev_resume", {}, {"sysdev"}, {"power_up"})
DevicePowerUp == Step("power_up", {}, {"late"}, {"irqs_on"})
IrqsOn == Step("irqs_on", {}, {"irqs", "governor", "dpm_list_mtx"}, {"platform_finish"})
PlatformFinish == Step("platform_finish", {}, {"prepared"}, {"resume_devices"})
DeviceResume == Step("resume_devices", {}, {"devices", "console"}, {"close"})
PlatformEnd == Step("close", {}, {"begun"}, {"thaw"})

\* suspend_finish(), and the labels Thaw and Finish of suspend_prepare().
Thaw == Step("thaw", {}, {"user_frozen", "tasks_frozen", "umh"}, {"post_suspend"})
PostSuspend == Step("post_suspend", {}, {"notified", "vt_console"}, {"unlock"})
Unlock == Step("unlock", {}, {"pm_mutex"}, {"out"})

\* Drivers and user space take and release wake locks.
IrqsEnabled == "irqs" \notin undo
WakeLocksChange ==
  /\ IrqsEnabled
  /\ wake_held' = ~wake_held
  /\ UNCHANGED <<pm_pc, undo>>

-----------------------------------------------------------------------------
Prepare == PrepareNotify \/ UmhDisable \/ UmhFails \/ FreezeUser \/ FreezeTasks \/ FreezeGivesWay
           \/ FreezeTimeout \/ FreeMemory
Devices == PlatformBegin \/ PlatformBeginFails \/ DeviceSuspend \/ PlatformRecover
           \/ PlatformPrepare \/ PlatformPrepareFails
Enter == SuspendEnter \/ DevicePowerDown \/ DevicePowerDownFails \/ SysdevSuspend
         \/ SysdevSuspendFails \/ PlatformEnter
Leave == SysdevResume \/ DevicePowerUp \/ IrqsOn \/ PlatformFinish \/ DeviceResume
         \/ PlatformEnd \/ Thaw \/ PostSuspend \/ Unlock
Running == Prepare \/ Devices \/ Enter \/ Leave

Next == pm_suspend \/ Running \/ WakeUp \/ WakeLocksChange

Spec == Init /\ [][Next]_vars

-----------------------------------------------------------------------------
(***************************************************************************)
(* Whatever step failed, pm_suspend() returns with everything undone, and  *)
(* on the way nothing is undone under something that still needs it:       *)
(* tasks stay frozen while devices are suspended, devices while interrupts *)
(* are off, interrupts while late or system devices are down.              *)
(***************************************************************************)
Needs == [r \in Resources |->
  CASE r \in {"pm_mutex"} -> {}
    [] r \in {"vt_console", "notified"} -> {"pm_mutex"}
    [] r = "umh" -> {"pm_mutex", "notified"}
    [] r = "user_frozen" -> {"notified", "umh"}
    [] r = "tasks_frozen" -> {"user_frozen"}
    [] r \in {"begun", "console"} -> {"tasks_frozen"}
    [] r = "devices" -> {"tasks_frozen", "begun", "console"}
    [] r = "prepared" -> {"devices"}
    [] r \in {"dpm_list_mtx", "governor", "irqs"} -> {"devices", "prepared"}
    [] r = "late" -> {"irqs", "dpm_list_mtx"}
    [] r = "sysdev" -> {"irqs", "late"}]

UndoneInOrder ==
  /\ pm_pc = "out" => undo = {}
  /\ \A r \in undo : Needs[r] \subseteq undo
=============================================================================
